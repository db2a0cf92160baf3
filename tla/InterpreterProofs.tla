------------------------- MODULE InterpreterProofs -------------------------
(***************************************************************************)
(* Theorems of Interpreter, for files of any texts and any number, any     *)
(* dictionary and any sizes of the buffers and stacks.  The invariant says *)
(* what an open file is; a step leaves the stack of files alone, cuts it   *)
(* from the top, advances its top file, or pushes a file: one lemma each.  *)
(* Then the types of the other variables, numbers as text, for cells of    *)
(* any width, and that the steps of the program are steps of SourceText.   *)
(***************************************************************************)
EXTENDS Interpreter, TLAPS, FiniteSetTheorems, SequenceTheorems, NaturalsInduction,
        WellFoundedInduction

Open(d) == [file : DOMAIN d, pos : Nat, end : Nat, ln : Nat]

\* What holds of every open file of disk d: the buffer lies within the file,
\* and the line number is not ahead.
FileInv(d, r) == /\ r \in Open(d)
                 /\ r.pos <= r.end /\ r.end <= Len(d[r.file])
                 /\ r.ln <= 1 + Newlines(d[r.file], r.pos)

StackInv == /\ disk \in Disks /\ arrived \in Nat /\ interactive \in BOOLEAN
            /\ infstack \in Seq(Open(disk)) /\ Len(infstack) <= InfStackSize
            /\ \A i \in DOMAIN infstack : FileInv(disk, infstack[i])
            /\ infiles \subseteq DOMAIN disk \ {Stdin}
            /\ OpenedOnce
----------------------------------------------------------------------------
\* The texts are sequences.
LEMMA Texts == ASSUME NEW d \in Disks, NEW f \in DOMAIN d
               PROVE  /\ Len(d[f]) \in Nat /\ DOMAIN d[f] = 1 .. Len(d[f])
                      /\ Stdin \in DOMAIN d
<1>1. d[f] \in Seq(Range(d[f])) /\ Stdin \in DOMAIN d BY InputAssumption
<1> HIDE DEF Range
<1> QED BY <1>1

\* The newlines before a position are finitely many, and the next character
\* adds itself at most.
LEMMA NewlinesFinite == ASSUME NEW t, NEW p \in Nat
                        PROVE  /\ IsFiniteSet({i \in 1 .. p : t[i] = Newline})
                               /\ Newlines(t, p) \in Nat
<1>1. IsFiniteSet(1 .. p) BY FS_Interval
<1>2. IsFiniteSet({i \in 1 .. p : t[i] = Newline}) BY <1>1, FS_Subset
<1> QED BY <1>2, FS_CardinalityType DEF Newlines

LEMMA NewlinesNext ==
  ASSUME NEW t, NEW p \in Nat
  PROVE  Newlines(t, p + 1) = Newlines(t, p) + (IF t[p + 1] = Newline THEN 1 ELSE 0)
<1> DEFINE S == {i \in 1 .. p : t[i] = Newline}
           T == {i \in 1 .. p + 1 : t[i] = Newline}
<1>1. IsFiniteSet(S) BY NewlinesFinite
<1>2. CASE t[p + 1] = Newline
  <2>1. T = S \cup {p + 1} /\ p + 1 \notin S BY <1>2
  <2> QED BY <1>1, <1>2, <2>1, FS_AddElement, FS_CardinalityType DEF Newlines
<1>3. CASE t[p + 1] # Newline
  <2>1. T = S BY <1>3
  <2>2. Newlines(t, p + 1) = Newlines(t, p) BY <2>1 DEF Newlines
  <2>3. Newlines(t, p) \in Nat BY NewlinesFinite
  <2>4. (IF t[p + 1] = Newline THEN 1 ELSE 0) = 0 BY <1>3
  <2> HIDE DEF S, T
  <2> QED BY <2>2, <2>3, <2>4
<1> QED BY <1>2, <1>3

LEMMA NewlinesGrow == ASSUME NEW t, NEW p \in Nat, NEW q \in Nat, p <= q
                      PROVE  Newlines(t, p) <= Newlines(t, q)
<1> DEFINE S == {i \in 1 .. p : t[i] = Newline}
           T == {i \in 1 .. q : t[i] = Newline}
<1>1. S \subseteq T OBVIOUS
<1>2. IsFiniteSet(T) BY NewlinesFinite
<1> HIDE DEF S, T
<1>3. Cardinality(S) <= Cardinality(T) BY <1>1, <1>2, FS_Subset
<1> QED BY <1>3 DEF Newlines, S, T

LEMMA NewlinesNone == ASSUME NEW t PROVE Newlines(t, 0) = 0
<1>1. {i \in 1 .. 0 : t[i] = Newline} = {} OBVIOUS
<1> QED BY <1>1, FS_EmptySet DEF Newlines
----------------------------------------------------------------------------
\* A step that changes none of it.
LEMMA KeepStack == ASSUME StackInv, UNCHANGED <<disk, arrived, interactive, infstack, infiles>>
                   PROVE  StackInv'
BY DEF StackInv, OpenedOnce

\* The stack is cut from the top: files are closed.
LEMMA CutStack ==
  ASSUME StackInv, UNCHANGED <<disk, arrived, interactive, infiles>>,
         NEW n \in 0 .. Len(infstack), infstack' = SubSeq(infstack, 1, n)
  PROVE  StackInv'
<1>1. /\ infstack' \in Seq(Open(disk)) /\ Len(infstack') <= InfStackSize
      /\ \A i \in DOMAIN infstack' : i \in DOMAIN infstack /\ infstack'[i] = infstack[i]
  BY InputAssumption DEF StackInv
<1>2. OpenedOnce' BY <1>1 DEF StackInv, OpenedOnce
<1> QED BY <1>1, <1>2 DEF StackInv

\* The top file is read on: another record of the same file.
LEMMA AdvanceTop ==
  ASSUME StackInv, UNCHANGED <<disk, arrived, interactive, infiles>>, infstack # <<>>,
         NEW r, FileInv(disk, r), r.file = Top.file,
         infstack' = [infstack EXCEPT ![Len(infstack)] = r]
  PROVE  StackInv'
<1>1. infstack' \in Seq(Open(disk)) /\ Len(infstack') = Len(infstack)
  BY DEF StackInv, FileInv
<1>2. \A i \in DOMAIN infstack' :
        /\ i \in DOMAIN infstack
        /\ infstack'[i].file = infstack[i].file
        /\ infstack'[i] = r \/ infstack'[i] = infstack[i]
  BY DEF StackInv, Top, Last
<1>3. OpenedOnce' BY <1>1, <1>2 DEF StackInv, OpenedOnce
<1>4. \A i \in DOMAIN infstack' : FileInv(disk, infstack'[i]) BY <1>2 DEF StackInv
<1> QED BY <1>1, <1>3, <1>4 DEF StackInv

\* A file is opened that was not open, and is recorded.
LEMMA PushFile ==
  ASSUME StackInv, UNCHANGED <<disk, arrived>>, Len(infstack) < InfStackSize,
         NEW f \in DOMAIN disk, \A i \in DOMAIN infstack : infstack[i].file # f,
         infstack' = Append(infstack, Opened(f)),
         interactive' \in BOOLEAN, interactive => interactive',
         infiles \subseteq infiles', infiles' \subseteq DOMAIN disk \ {Stdin},
         f \in infiles' \/ (f = Stdin /\ interactive')
  PROVE  StackInv'
<1>1. FileInv(disk, Opened(f)) /\ Opened(f) \in Open(disk)
  BY Texts, NewlinesNone DEF StackInv, Open, Opened, FileInv
<1>2. infstack' \in Seq(Open(disk)) /\ Len(infstack') <= InfStackSize
  BY <1>1, InputAssumption DEF StackInv
<1>3. \A i \in DOMAIN infstack' :
        \/ i \in DOMAIN infstack /\ infstack'[i] = infstack[i]
        \/ i = Len(infstack) + 1 /\ infstack'[i] = Opened(f)
  BY <1>1 DEF StackInv
<1>4. \A i \in DOMAIN infstack' : FileInv(disk, infstack'[i])
  BY <1>1, <1>3 DEF StackInv
<1>5. OpenedOnce'
  BY <1>3 DEF StackInv, OpenedOnce, Opened
<1> QED BY <1>2, <1>4, <1>5 DEF StackInv
----------------------------------------------------------------------------
(***************************************************************************)
(* The operations of InputStack.                                           *)
(***************************************************************************)
\* The top of a stack that is not empty.
LEMMA TopFile == ASSUME StackInv, infstack # <<>>
                 PROVE  /\ Len(infstack) \in DOMAIN infstack
                        /\ Top = infstack[Len(infstack)]
                        /\ FileInv(disk, Top) /\ Top \in Open(disk)
<1>1. Len(infstack) \in DOMAIN infstack BY DEF StackInv
<1> QED BY <1>1 DEF StackInv, Top, Last, FileInv

\* io_getchar
LEMMA GetcharInv ==
  ASSUME StackInv, Buffered, NEW counted \in BOOLEAN, Getchar(counted),
         UNCHANGED <<disk, arrived, interactive, infiles>>
  PROVE  StackInv'
<1> DEFINE more == IF counted /\ Char = Newline THEN 1 ELSE 0
           lines == Top.ln + more
           r == [Top EXCEPT !.pos = @ + 1, !.ln = @ + more]
           t == disk[Top.file]
<1>1. Top \in Open(disk) /\ FileInv(disk, Top) /\ infstack # <<>> /\ Top.pos < Top.end
  BY TopFile DEF Buffered
<1>2. infstack' = [infstack EXCEPT ![Len(infstack)] = r]
  BY DEF Getchar
<1>3. /\ r.pos = Top.pos + 1 /\ r.end = Top.end /\ r.ln = lines /\ r.file = Top.file
      /\ lines \in Nat /\ r \in Open(disk)
  <2>1. more \in Nat OBVIOUS
  <2>2. Top.pos \in Nat /\ Top.ln \in Nat BY <1>1 DEF Open
  <2> HIDE DEF more
  <2>3. lines \in Nat BY <2>1, <2>2
  <2>4. r \in Open(disk)
    <3>1. Top.pos + 1 \in Nat /\ Top.ln + more \in Nat BY <2>1, <2>2
    <3>2. Top \in Open(disk) BY <1>1
    <3> QED BY <3>1, <3>2 DEF Open
  <2>5. r.pos = Top.pos + 1 /\ r.end = Top.end /\ r.ln = lines /\ r.file = Top.file
    BY <1>1 DEF Open
  <2> QED BY <2>3, <2>4, <2>5
<1>4. lines <= 1 + Newlines(t, Top.pos + 1)
  <2>1. Top.pos \in Nat /\ Top.ln \in Nat /\ Top.ln <= 1 + Newlines(t, Top.pos)
    BY <1>1 DEF Open, FileInv
  <2>2. Newlines(t, Top.pos) \in Nat BY <2>1, NewlinesFinite
  <2>3. Newlines(t, Top.pos + 1)
          = Newlines(t, Top.pos) + (IF t[Top.pos + 1] = Newline THEN 1 ELSE 0)
    BY <2>1, NewlinesNext
  <2> QED BY <2>1, <2>2, <2>3 DEF Char
<1>5. FileInv(disk, r)
  <2> HIDE DEF r, lines
  <2>1. r.pos <= r.end /\ r.end <= Len(disk[r.file])
    BY <1>1, <1>3 DEF Open, FileInv
  <2> QED BY <1>3, <1>4, <2>1 DEF FileInv
<1> QED BY <1>1, <1>2, <1>3, <1>5, AdvanceTop

\* io_fillbuf
LEMMA FillInv == ASSUME StackInv, Fill, UNCHANGED interactive PROVE StackInv'
<1>1. CASE FillEnter \/ FillNone BY <1>1, KeepStack DEF FillEnter, FillNone
<1>2. CASE FillData
  <2> DEFINE n == IF Available - Top.end < BufSize THEN Available - Top.end ELSE BufSize
             r == [Top EXCEPT !.end = @ + n]
  <2>1. /\ Top \in Open(disk) /\ FileInv(disk, Top) /\ infstack # <<>>
        /\ Top.end < Available
    BY <1>2, TopFile DEF FillData, CanFill
  <2>2. Available \in Nat /\ Available <= Len(disk[Top.file])
    BY <2>1, Texts DEF StackInv, Open, Available
  <2>3. n \in Nat /\ Top.end + n <= Len(disk[Top.file])
    <3>1. BufSize \in Nat BY InputAssumption
    <3>2. Top.end \in Nat BY <2>1 DEF Open
    <3>3. Len(disk[Top.file]) \in Nat BY <2>1, Texts DEF StackInv, Open
    <3> QED BY <2>1, <2>2, <3>1, <3>2, <3>3
  <2>4. r \in Open(disk) /\ r.file = Top.file /\ FileInv(disk, r)
    <3>1. /\ r.pos = Top.pos /\ r.end = Top.end + n /\ r.ln = Top.ln
          /\ r.file = Top.file /\ r \in Open(disk)
      BY <2>1, <2>3 DEF Open
    <3> HIDE DEF n, r
    <3> QED BY <2>1, <2>3, <3>1 DEF Open, FileInv
  <2>5. infstack' = [infstack EXCEPT ![Len(infstack)] = r]
    BY <1>2 DEF FillData
  <2> QED BY <1>2, <2>1, <2>4, <2>5, AdvanceTop DEF FillData
<1>3. CASE FillEof
  <2>1. infstack # <<>> /\ infstack' = SubSeq(infstack, 1, Len(infstack) - 1)
    BY <1>3 DEF FillEof, CanFill, Front
  <2>2. Len(infstack) - 1 \in 0 .. Len(infstack) BY <2>1 DEF StackInv
  <2> QED BY <1>3, <2>1, <2>2, CutStack DEF FillEof
<1> QED BY <1>1, <1>2, <1>3 DEF Fill

\* io_infile
LEMMA IoInfileInv ==
  ASSUME StackInv, NEW name, IoInfile(name), UNCHANGED <<disk, arrived, interactive>>
  PROVE  StackInv'
<1>1. CASE UNCHANGED <<infstack, infiles>> BY <1>1, KeepStack
<1>2. CASE ~ UNCHANGED <<infstack, infiles>>
  <2>1. PICK i \in Hits(name) :
          /\ Candidate(name, i) \notin infiles
          /\ ~ (Len(infstack) >= InfStackSize)
          /\ infstack' = Append(infstack, Opened(Candidate(name, i)))
          /\ infiles' = infiles \cup {Candidate(name, i)}
    BY <1>2 DEF IoInfile
  <2> DEFINE f == Candidate(name, i)
  <2>2. f \in DOMAIN disk /\ f # Stdin /\ f \notin infiles BY <2>1 DEF Hits
  <2>3. \A j \in DOMAIN infstack : infstack[j].file # f
    BY <2>2 DEF StackInv, OpenedOnce
  <2>4. Len(infstack) < InfStackSize BY <2>1, InputAssumption DEF StackInv
  <2>5. infiles \subseteq infiles' /\ f \in infiles' /\ infiles' \subseteq DOMAIN disk \ {Stdin}
    BY <2>1, <2>2 DEF StackInv
  <2>6. interactive' = interactive /\ interactive' \in BOOLEAN BY DEF StackInv
  <2> HIDE DEF f
  <2>7. infstack' = Append(infstack, Opened(f)) BY <2>1 DEF f
  <2> QED BY <2>2, <2>3, <2>4, <2>5, <2>6, <2>7, PushFile
<1> QED BY <1>1, <1>2

\* io_flush
LEMMA IoFlushInv ==
  ASSUME StackInv, IoFlush, UNCHANGED <<disk, arrived, interactive, infiles>>
  PROVE  StackInv'
<1>1. CASE UNCHANGED infstack BY <1>1, KeepStack
<1>2. CASE infstack # <<>> /\ infstack' = <<infstack[1]>>
  <2>1. 1 \in 0 .. Len(infstack) /\ infstack' = SubSeq(infstack, 1, 1)
    BY <1>2 DEF StackInv
  <2> QED BY <2>1, CutStack
<1>3. CASE infstack' = <<>>
  <2>1. 0 \in 0 .. Len(infstack) /\ infstack' = SubSeq(infstack, 1, 0)
    BY <1>3 DEF StackInv
  <2> QED BY <2>1, CutStack
<1> QED BY <1>1, <1>2, <1>3 DEF IoFlush

\* io_flush in a signal handler: two steps in one, the stack is cut down to the
\* bottom file, and what is left in its buffer is lost.
LEMMA IoFlushFillingInv ==
  ASSUME StackInv, IoFlushFilling, UNCHANGED <<disk, arrived, interactive, infiles>>
  PROVE  StackInv'
<1>1. CASE IoFlush BY <1>1, IoFlushInv
<1>2. CASE infstack' = <<>>
  <2>1. 0 \in 0 .. Len(infstack) /\ infstack' = SubSeq(infstack, 1, 0)
    BY <1>2 DEF StackInv
  <2> QED BY <2>1, CutStack
<1>3. CASE /\ ~ (Len(infstack) <= 1)
           /\ infstack' = <<[infstack[1] EXCEPT !.pos = infstack[1].end]>>
  <2> DEFINE b == infstack[1]
             r == [b EXCEPT !.pos = b.end]
  <2>1. 1 \in DOMAIN infstack BY <1>3 DEF StackInv
  <2>2. b \in Open(disk) /\ FileInv(disk, b) BY <2>1 DEF StackInv, FileInv
  <2>3. r \in Open(disk) /\ r.file = b.file /\ r.pos = b.end /\ r.end = b.end /\ r.ln = b.ln
    BY <2>2 DEF Open
  <2>4. b.ln <= 1 + Newlines(disk[b.file], b.end)
    <3>1. /\ b.pos \in Nat /\ b.end \in Nat /\ b.ln \in Nat /\ b.pos <= b.end
          /\ b.ln <= 1 + Newlines(disk[b.file], b.pos)
      BY <2>2 DEF Open, FileInv
    <3>2. Newlines(disk[b.file], b.pos) <= Newlines(disk[b.file], b.end)
      BY <3>1, NewlinesGrow
    <3>3. /\ Newlines(disk[b.file], b.pos) \in Nat
          /\ Newlines(disk[b.file], b.end) \in Nat
      BY <3>1, NewlinesFinite
    <3> HIDE DEF b
    <3> QED BY <3>1, <3>2, <3>3
  <2>5. b.end <= b.end /\ b.end <= Len(disk[b.file]) BY <2>2 DEF Open, FileInv
  <2>6. infstack' = <<r>> BY <1>3
  <2> HIDE DEF r
  <2>7. FileInv(disk, r) BY <2>3, <2>4, <2>5 DEF FileInv
  <2>8. /\ infstack' \in Seq(Open(disk)) /\ Len(infstack') = 1
        /\ \A i \in DOMAIN infstack' : i = 1 /\ infstack'[i] = r
    BY <2>3, <2>6
  <2>9. OpenedOnce' BY <2>1, <2>3, <2>8 DEF StackInv, OpenedOnce
  <2>10. Len(infstack') <= InfStackSize BY <2>8, InputAssumption
  <2> QED BY <2>7, <2>8, <2>9, <2>10 DEF StackInv
<1> QED BY <1>1, <1>2, <1>3 DEF IoFlushFilling

\* All files are closed, by main.
LEMMA CloseAll ==
  ASSUME StackInv, infstack' = <<>>, UNCHANGED <<disk, arrived, interactive, infiles>>
  PROVE  StackInv'
<1>1. 0 \in 0 .. Len(infstack) /\ infstack' = SubSeq(infstack, 1, 0) BY DEF StackInv
<1> QED BY <1>1, CutStack
----------------------------------------------------------------------------
(***************************************************************************)
(* The steps of the program.                                               *)
(***************************************************************************)
LEMMA InitInv == Init => StackInv
<1> SUFFICES ASSUME Init PROVE StackInv OBVIOUS
<1>1. /\ disk \in Disks /\ arrived = 0 /\ infstack = <<>> /\ infiles = {}
      /\ interactive = FALSE
  BY DEF Init, InputInit
<1>2. infstack \in Seq(Open(disk)) /\ Len(infstack) = 0 /\ DOMAIN infstack = {} BY <1>1
<1>3. InfStackSize \in Nat BY InputAssumption
<1>4. Len(infstack) <= InfStackSize BY <1>2, <1>3
<1>5. OpenedOnce BY <1>2 DEF OpenedOnce
<1>6. arrived \in Nat BY <1>1
<1>7. interactive \in BOOLEAN BY <1>1
<1>8. infiles \subseteq DOMAIN disk \ {Stdin} BY <1>1
<1> QED BY <1>1, <1>2, <1>4, <1>5, <1>6, <1>7, <1>8 DEF StackInv

\* The main program.
LEMMA MainInv ==
  ASSUME StackInv, MainLoad \/ MainInteract \/ MainEnd PROVE StackInv'
<1>1. CASE MainLoad
  <2>1. CASE Hits(Head(args)) = {} BY <1>1, <2>1, CloseAll DEF MainLoad
  <2>2. CASE Hits(Head(args)) # {} BY <1>1, <2>2, IoInfileInv DEF MainLoad
  <2> QED BY <2>1, <2>2
<1>2. CASE MainInteract
  <2>1. /\ UNCHANGED <<disk, arrived, infiles>> /\ interactive = FALSE /\ interactive' = TRUE
        /\ IoInfileStdin
    BY <1>2 DEF MainInteract, StackInv
  <2>2. CASE infstack' = infstack
    BY <2>1, <2>2 DEF StackInv, OpenedOnce
  <2>3. CASE infstack' # infstack
    <3>1. Len(infstack) < InfStackSize /\ infstack' = Append(infstack, Opened(Stdin))
      BY <2>1, <2>3 DEF IoInfileStdin
    <3>2. Stdin \in DOMAIN disk BY InputAssumption DEF StackInv
    <3>3. \A i \in DOMAIN infstack : infstack[i].file # Stdin
      BY <2>1 DEF StackInv, OpenedOnce
    <3>4. infiles' = infiles /\ infiles \subseteq DOMAIN disk \ {Stdin}
      BY <2>1 DEF StackInv
    <3> QED BY <2>1, <3>1, <3>2, <3>3, <3>4, PushFile
  <2> QED BY <2>2, <2>3
<1>3. CASE MainEnd BY <1>3, CloseAll DEF MainEnd, progVars
<1> QED BY <1>1, <1>2, <1>3

\* The loops that read.
LEMMA ReadingInv ==
  ASSUME StackInv, Skip \/ Scan \/ Comment \/ Line \/ FillBuffer \/ EndOfInput
  PROVE  StackInv'
<1>1. CASE Skip
  <2>1. CASE Getchar(TRUE)
    BY <1>1, <2>1, GetcharInv DEF Skip, ReadVars, progVars
  <2>2. CASE UNCHANGED infstack
    BY <1>1, <2>2, KeepStack DEF Skip, ReadVars, progVars
  <2> QED BY <1>1, <2>1, <2>2 DEF Skip
<1>2. CASE Scan BY <1>2, GetcharInv DEF Scan, ReadVars
<1>3. CASE Comment BY <1>3, GetcharInv DEF Comment, ReadVars
<1>4. CASE Line BY <1>4, GetcharInv DEF Line, ReadVars, progVars
<1>5. CASE FillBuffer BY <1>5, FillInv DEF FillBuffer, progVars
<1>6. CASE EndOfInput BY <1>6, KeepStack DEF EndOfInput, inputVars, progVars
<1> QED BY <1>1, <1>2, <1>3, <1>4, <1>5, <1>6

\* The outer interpreter: what it does with a word.
LEMMA ActInv == ASSUME StackInv, Act PROVE StackInv'
<1> DEFINE word == Dictionary[voc][tib]
<1>1. CASE \/ Thread(word) \/ Command(word) \/ CommentWord(word) \/ NameWord(word)
           \/ Conditional(word) \/ Cast \/ Literal
  <2>1. UNCHANGED <<disk, arrived, interactive, infstack, infiles>>
    BY <1>1 DEF Thread, Command, CommentWord, NameWord, Conditional, Executed, Cast, Literal,
                UNCHANGED_ACT
  <2> QED BY <2>1, KeepStack
<1>2. CASE AbortWord(word) \/ CastStray \/ Unknown \/ Tick
  <2>1. /\ UNCHANGED <<disk, arrived, interactive, infiles>>
        /\ IoFlush \/ UNCHANGED infstack
    BY <1>2 DEF AbortWord, CastStray, Unknown, Tick, Abort, inputVars
  <2> QED BY <2>1, IoFlushInv, KeepStack
<1>3. CASE SharpInclude BY <1>3, IoInfileInv DEF SharpInclude, progVars
<1>4. CASE SharpPath \/ IfDefined \/ Skipped
  BY <1>4, KeepStack DEF SharpPath, IfDefined, Skipped, inputVars, progVars
<1> QED BY <1>1, <1>2, <1>3, <1>4 DEF Act

LEMMA StepInv == ASSUME StackInv, [Next]_vars PROVE StackInv'
<1>1. CASE MainLoad \/ MainInteract \/ MainEnd BY <1>1, MainInv
<1>2. CASE Leave BY <1>2, KeepStack DEF Leave, inputVars
<1>3. CASE NextWord
  <2>1. UNCHANGED <<disk, arrived, interactive, infiles>> /\ (IoFlush \/ UNCHANGED infstack)
    BY <1>3 DEF NextWord, Abort, inputVars
  <2> QED BY <2>1, IoFlushInv, KeepStack
<1>4. CASE Skip \/ Scan \/ Comment \/ Line \/ FillBuffer \/ EndOfInput BY <1>4, ReadingInv
<1>5. CASE Act BY <1>5, ActInv
<1>6. CASE Interrupt BY <1>6, IoFlushFillingInv DEF Interrupt
<1>7. CASE Input
  <2>1. /\ UNCHANGED <<disk, infstack, infiles, interactive>>
        /\ arrived' \in arrived + 1 .. Len(disk[Stdin]) + 1
    BY <1>7 DEF Input, Arrive, progVars
  <2>2. Len(disk[Stdin]) \in Nat BY Texts, InputAssumption DEF StackInv
  <2>3. arrived' \in Nat BY <2>1, <2>2 DEF StackInv
  <2> QED BY <2>1, <2>3 DEF StackInv, OpenedOnce
<1>8. CASE Done \/ UNCHANGED vars BY <1>8, KeepStack DEF Done, vars, inputVars, progVars
<1> QED BY <1>1, <1>2, <1>3, <1>4, <1>5, <1>6, <1>7, <1>8 DEF Next, Step

\* The stack of files is a stack of open files, none of them twice, with their
\* buffers inside the files: the invariant that the theorems below rest on.
THEOREM StackSafe == Spec => []StackInv
<1>1. StackInv /\ [Next]_vars => StackInv' BY StepInv
<1> QED BY <1>1, InitInv, PTL DEF Spec

\* No session opens a file twice (io.c, io_infile): whatever the texts include,
\* wherever the paths lead and an abort cuts the session, and with an interrupt
\* at any read.
THEOREM FilesOpenedOnce == Spec => []OpenedOnce
<1>1. StackInv => OpenedOnce BY DEF StackInv
<1> QED BY <1>1, StackSafe, PTL

\* No open file has a line number ahead of what was read of it (io.h, io_newline),
\* wherever a buffer ends and whatever the words read.
THEOREM LineNumbersNotAhead == Spec => []LinesNotAhead
<1>1. StackInv => LinesNotAhead BY DEF StackInv, FileInv, LinesNotAhead
<1> QED BY <1>1, StackSafe, PTL
----------------------------------------------------------------------------
(***************************************************************************)
(* Numbers, counted up: what holds at a number when it holds below it.     *)
(***************************************************************************)
LEMMA LeastNumber ==
  ASSUME NEW T \in SUBSET Nat, T # {}
  PROVE  \E x \in T : \A y \in T : x <= y
<1>1. \E x \in T : \A y \in T : ~ (<<y, x>> \in OpToRel(<, Nat))
  BY WFMin, NatLessThanWellFounded, Zenon
<1>2. \A x, y \in Nat : y < x => <<y, x>> \in OpToRel(<, Nat) BY DEF OpToRel
<1>3. PICK x \in T : \A y \in T : ~ (<<y, x>> \in OpToRel(<, Nat)) BY <1>1, Zenon
<1>4. \A y \in T : ~ (y < x) BY <1>2, <1>3
<1>5. \A y \in T : x <= y BY <1>4
<1> QED BY <1>3, <1>5

LEMMA UpTo ==
  ASSUME NEW N \in Nat, NEW T,
         \A x \in 0 .. N : (\A y \in 0 .. x - 1 : y \in T) => x \in T
  PROVE  0 .. N \subseteq T
<1> SUFFICES ASSUME (0 .. N) \ T # {} PROVE FALSE OBVIOUS
<1> DEFINE U == (0 .. N) \ T
<1>1. U \in SUBSET Nat /\ U # {} OBVIOUS
<1> HIDE DEF U
<1>2. PICK x \in U : \A y \in U : x <= y BY <1>1, LeastNumber
<1> QED BY <1>2 DEF U

\* A loop that starts with s and takes what it has through the functions g one
\* after the other: it has values,
Bodies(S, n) == [1 .. n -> [S -> S]]
RunsOf(S, s, g, m) == {f \in [0 .. m -> S] :
                         f[0] = s /\ \A i \in 1 .. m : f[i] = g[i][f[i - 1]]}

LEMMA LoopRuns ==
  ASSUME NEW S, NEW s \in S, NEW n \in Nat, NEW g \in Bodies(S, n)
  PROVE  RunsOf(S, s, g, n) # {}
<1> DEFINE Runs(m) == RunsOf(S, s, g, m)
           T == {m \in Nat : Runs(m) # {}}
<1>0. g \in [1 .. n -> [S -> S]] BY DEF Bodies
<1>1. ASSUME NEW m \in 0 .. n, \A k \in 0 .. m - 1 : k \in T PROVE m \in T
  <2>1. CASE m = 0
    <3>1. [i \in 0 .. 0 |-> s] \in Runs(0) BY DEF RunsOf
    <3> QED BY <2>1, <3>1
  <2>2. CASE m # 0
    <3>0. m - 1 \in 0 .. m - 1 /\ m \in 1 .. n BY <2>2
    <3>1. PICK f : f \in Runs(m - 1) BY <1>1, <3>0
    <3>2. /\ f \in [0 .. m - 1 -> S] /\ f[0] = s
          /\ \A i \in 1 .. m - 1 : f[i] = g[i][f[i - 1]]
      BY <3>1 DEF RunsOf
    <3>3. f[m - 1] \in S BY <3>0, <3>2
    <3>4. g[m] \in [S -> S] BY <1>0, <3>0
    <3>5. g[m][f[m - 1]] \in S BY <3>3, <3>4
    <3> DEFINE h == [i \in 0 .. m |-> IF i = m THEN g[m][f[m - 1]] ELSE f[i]]
    <3>6. h \in [0 .. m -> S] BY <3>2, <3>5
    <3>7. h[0] = s /\ h[m] = g[m][h[m - 1]] BY <2>2, <3>0, <3>2
    <3>8. ASSUME NEW i \in 1 .. m - 1 PROVE h[i] = g[i][h[i - 1]]
      <4>1. h[i] = f[i] /\ h[i - 1] = f[i - 1] BY <3>0
      <4> QED BY <3>2, <4>1
    <3> HIDE DEF h
    <3>9. \A i \in 1 .. m : h[i] = g[i][h[i - 1]] BY <3>7, <3>8
    <3>10. h \in Runs(m) BY <3>6, <3>7, <3>9 DEF RunsOf
    <3> QED BY <3>10
  <2> QED BY <2>1, <2>2
<1> HIDE DEF T
<1>2. 0 .. n \subseteq T BY <1>1, UpTo
<1>3. n \in T BY <1>2
<1> QED BY <1>3 DEF T

\* and they stay where each step keeps them.
LEMMA LoopStays ==
  ASSUME NEW n \in Nat, NEW S, NEW f, f[0] \in S,
         \A i \in 1 .. n : f[i - 1] \in S => f[i] \in S
  PROVE  \A i \in 0 .. n : f[i] \in S
<1> DEFINE T == {i \in Nat : f[i] \in S}
<1>1. ASSUME NEW m \in 0 .. n, \A k \in 0 .. m - 1 : k \in T PROVE m \in T
  <2>1. CASE m = 0 BY <2>1
  <2>2. CASE m # 0
    <3>1. m - 1 \in 0 .. m - 1 /\ m \in 1 .. n BY <2>2
    <3>2. m - 1 \in T BY <1>1, <3>1
    <3> QED BY <3>1, <3>2
  <2> QED BY <2>1, <2>2
<1> HIDE DEF T
<1>2. 0 .. n \subseteq T BY <1>1, UpTo
<1> QED BY <1>2 DEF T
----------------------------------------------------------------------------
(***************************************************************************)
(* The search paths: whatever is added, they stay apart and within their   *)
(* table.                                                                  *)
(***************************************************************************)
PathsOf(T) == {ps \in Seq(T) : Len(ps) <= PathsSize /\ IsInjective(ps)}

\* io_path with the name of a directory
LEMMA IoPathKeeps ==
  ASSUME NEW T, NEW ps \in PathsOf(T), NEW dir \in T, NEW first \in BOOLEAN
  PROVE  IoPath(ps, dir, first) \in PathsOf(T)
<1>0. /\ ps \in Seq(T) /\ Len(ps) <= PathsSize /\ PathsSize \in Nat
      /\ \A i, j \in 1 .. Len(ps) : ps[i] = ps[j] => i = j
  BY InputAssumption DEF PathsOf, IsInjective
<1>1. CASE dir = <<>> \/ dir \in Range(ps) \/ Len(ps) = PathsSize BY <1>1 DEF IoPath
<1>2. CASE ~ (dir = <<>> \/ dir \in Range(ps) \/ Len(ps) = PathsSize)
  <2>1. Len(ps) + 1 <= PathsSize BY <1>0, <1>2
  <2>2. \A i \in 1 .. Len(ps) : ps[i] # dir BY <1>0, <1>2 DEF Range
  <2>3. CASE first
    <3> DEFINE q == <<dir>> \o ps
    <3>1. /\ q \in Seq(T) /\ Len(q) = Len(ps) + 1 /\ q[1] = dir
          /\ \A i \in 2 .. Len(q) : q[i] = ps[i - 1]
      BY <1>0
    <3>2. \A i \in 1 .. Len(q) : i = 1 \/ (i \in 2 .. Len(q) /\ i - 1 \in 1 .. Len(ps))
      BY <1>0, <3>1
    <3>3. IoPath(ps, dir, first) = q BY <1>2, <2>3 DEF IoPath
    <3> HIDE DEF q
    <3>4. ASSUME NEW i \in 1 .. Len(q), NEW j \in 1 .. Len(q), q[i] = q[j] PROVE i = j
      <4>1. CASE i = 1 BY <2>2, <3>1, <3>2, <3>4, <4>1
      <4>2. CASE j = 1 BY <2>2, <3>1, <3>2, <3>4, <4>2
      <4>3. CASE i # 1 /\ j # 1
        <5>1. ps[i - 1] = ps[j - 1] /\ i - 1 \in 1 .. Len(ps) /\ j - 1 \in 1 .. Len(ps)
          BY <3>1, <3>2, <3>4, <4>3
        <5>2. i - 1 = j - 1 BY <1>0, <5>1
        <5> QED BY <5>2
      <4> QED BY <4>1, <4>2, <4>3
    <3>5. DOMAIN q = 1 .. Len(q) BY <3>1
    <3>6. IsInjective(q) BY <3>4, <3>5 DEF IsInjective
    <3> QED BY <2>1, <3>1, <3>3, <3>6 DEF PathsOf
  <2>4. CASE ~ first
    <3> DEFINE q == Append(ps, dir)
    <3>1. /\ q \in Seq(T) /\ Len(q) = Len(ps) + 1 /\ q[Len(ps) + 1] = dir
          /\ \A i \in 1 .. Len(ps) : q[i] = ps[i]
      BY <1>0
    <3>3. IoPath(ps, dir, first) = q BY <1>2, <2>4 DEF IoPath
    <3> HIDE DEF q
    <3>4. \A i, j \in 1 .. Len(q) : q[i] = q[j] => i = j
      BY <1>0, <2>2, <3>1
    <3>5. DOMAIN q = 1 .. Len(q) BY <3>1
    <3>6. IsInjective(q) BY <3>4, <3>5 DEF IsInjective
    <3> QED BY <2>1, <3>1, <3>3, <3>6 DEF PathsOf
  <2> QED BY <2>3, <2>4
<1> QED BY <1>1, <1>2

\* io_path with the directories of an environment variable
LEMMA IoPathListKeeps ==
  ASSUME NEW T, NEW ps \in PathsOf(T), NEW dirs \in Seq(T), NEW first \in BOOLEAN
  PROVE  IoPathList(ps, dirs, first) \in PathsOf(T)
<1> DEFINE n == Len(dirs)
           g == [i \in 1 .. n |-> [q \in PathsOf(T) |-> IoPath(q, dirs[i], first)]]
           Is(f) == f = [i \in 0 .. n |-> IF i = 0 THEN ps ELSE IoPath(f[i - 1], dirs[i], first)]
           added == CHOOSE f : Is(f)
<1>1. n \in Nat /\ \A i \in 1 .. n : dirs[i] \in T OBVIOUS
<1>2. \A i \in 1 .. n : \A q \in PathsOf(T) : IoPath(q, dirs[i], first) \in PathsOf(T)
  BY <1>1, IoPathKeeps
<1>3. g \in [1 .. n -> [PathsOf(T) -> PathsOf(T)]]
  <2> HIDE DEF n
  <2> QED BY <1>2
<1>4. \A i \in 1 .. n : \A q \in PathsOf(T) : g[i][q] = IoPath(q, dirs[i], first)
  OBVIOUS
<1> HIDE DEF g, n
<1>5. PICK f \in [0 .. n -> PathsOf(T)] :
        f[0] = ps /\ \A i \in 1 .. n : f[i] = g[i][f[i - 1]]
  <2>1. g \in Bodies(PathsOf(T), n) BY <1>3 DEF Bodies
  <2>2. RunsOf(PathsOf(T), ps, g, n) # {} BY <1>1, <2>1, LoopRuns
  <2> QED BY <2>2 DEF RunsOf
<1>6. Is(f)
  <2>1. \A i \in 1 .. n : f[i - 1] \in PathsOf(T) BY <1>1, <1>5
  <2>2. \A i \in 0 .. n : f[i] = IF i = 0 THEN ps ELSE IoPath(f[i - 1], dirs[i], first)
    BY <1>1, <1>4, <1>5, <2>1
  <2> QED BY <1>5, <2>2
<1>7. Is(added)
  <2> HIDE DEF Is
  <2> QED BY <1>6, Zenon
<1>8. IoPathList(ps, dirs, first) = added[n] BY Zenon DEF IoPathList, n
<1> HIDE DEF added
<1>9. added[0] = ps /\ \A i \in 1 .. n : added[i] = IoPath(added[i - 1], dirs[i], first)
  BY <1>1, <1>7
<1>10. \A i \in 1 .. n : added[i - 1] \in PathsOf(T) => added[i] \in PathsOf(T)
  BY <1>2, <1>9
<1>11. added[0] \in PathsOf(T) BY <1>9
<1>12. \A i \in 0 .. n : added[i] \in PathsOf(T) BY <1>1, <1>10, <1>11, LoopStays
<1> QED BY <1>1, <1>8, <1>12

\* io_path
LEMMA IoPathNameKeeps ==
  ASSUME NEW T, NEW ps \in PathsOf(T), NEW name, NEW first \in BOOLEAN
  PROVE  \E U : IoPathName(ps, name, first) \in PathsOf(U)
<1>1. ASSUME NEW U, T \subseteq U PROVE ps \in PathsOf(U)
  BY <1>1 DEF PathsOf
<1>2. CASE IoPathName(ps, name, first) = IoPath(ps, name, first)
  <2>1. ps \in PathsOf(T \cup {name}) BY <1>1
  <2> QED BY <1>2, <2>1, IoPathKeeps
<1>3. CASE IoPathName(ps, name, first) = ps BY <1>3
<1>4. CASE /\ Tail(name) \in DOMAIN Env
           /\ IoPathName(ps, name, first) = IoPathList(ps, Env[Tail(name)], first)
  <2> DEFINE R == Range(Env[Tail(name)])
  <2>1. ps \in PathsOf(T \cup R) BY <1>1
  <2>2. Env[Tail(name)] \in Seq(R) BY <1>4, InputAssumption
  <2> HIDE DEF R
  <2>3. Env[Tail(name)] \in Seq(T \cup R) BY <2>2
  <2> QED BY <1>4, <2>1, <2>3, IoPathListKeeps
<1> QED BY <1>2, <1>3, <1>4 DEF IoPathName

LEMMA InitialPathsKeep == \E T : InitialPaths \in PathsOf(T)
<1> DEFINE first(ps) == IoPathName(ps, <<"$", "PWD">>, FALSE)
           second(ps) == IoPathName(ps, <<"$", "HOME">>, FALSE)
           third(ps) == IoPathName(ps, <<"$", "TILEPATH">>, FALSE)
<1>1. << >> \in PathsOf({}) BY InputAssumption DEF PathsOf, IsInjective
<1>2. PICK T : first(<< >>) \in PathsOf(T) BY <1>1, IoPathNameKeeps
<1>3. PICK U : second(first(<< >>)) \in PathsOf(U) BY <1>2, IoPathNameKeeps
<1>4. \E V : third(second(first(<< >>))) \in PathsOf(V) BY <1>3, IoPathNameKeeps
<1>5. InitialPaths = third(second(first(<< >>))) BY Zenon DEF InitialPaths
<1> QED BY <1>4, <1>5
----------------------------------------------------------------------------
(***************************************************************************)
(* The types of the program's variables.  A read that io_fillbuf has begun *)
(* ends where it began: the program waits in a loop that reads, with an    *)
(* empty buffer, or has ended.                                             *)
(***************************************************************************)
InputTypes == /\ terminal \in BOOLEAN /\ arrived <= Len(disk[Stdin]) + 1
              /\ filling \in {"no", "blocking", "sharing"} /\ others \in BOOLEAN
              /\ errno \in {"would block", "other"}
              /\ \E T : paths \in PathsOf(T)
Waits == filling # "no" => (CanFill /\ pc \in Reading) \/ pc = "exit"
Flags == quited \in BOOLEAN /\ state \in BOOLEAN /\ after \in BOOLEAN
ProgTypes == /\ pc \in Reading \cup {"main", "top", "act", "exit"}
             /\ want \in {"word", Newline, ")"} \cup Names \cup Sections
             /\ voc \in DOMAIN Dictionary
             /\ nest \in Nat /\ (pc = "comment" => nest > 0)
             /\ depth \in Int /\ base \in Nat /\ aborts \in Nat

IInv == StackInv /\ InputTypes /\ Waits /\ Flags /\ ProgTypes

\* Of the operations of the input stack.
LEMMA IoTypes ==
  ASSUME errno \in {"would block", "other"}
  PROVE  /\ \A name : IoInfile(name) => errno' \in {"would block", "other"}
         /\ IoFlush \/ IoFlushFilling => errno' \in {"would block", "other"}
BY DEF IoInfile, IoFlush, IoFlushFilling

LEMMA KeepInput ==
  ASSUME InputTypes, UNCHANGED <<disk, terminal, arrived, paths>>,
         filling' \in {"no", "blocking", "sharing"}, others' \in BOOLEAN,
         errno' \in {"would block", "other"}
  PROVE  InputTypes'
BY DEF InputTypes

LEMMA InitTypes == Init => IInv
<1> SUFFICES ASSUME Init PROVE IInv OBVIOUS
<1>1. StackInv BY InitInv
<1>2. InputTypes
  <2>1. disk \in Disks /\ Stdin \in DOMAIN disk /\ Len(disk[Stdin]) \in Nat /\ arrived = 0
    BY <1>1, Texts, InputAssumption DEF StackInv, Init, InputInit
  <2>2. arrived <= Len(disk[Stdin]) + 1 BY <2>1
  <2>3. \E T : paths \in PathsOf(T) BY InitialPathsKeep DEF Init, InputInit
  <2> QED BY <2>2, <2>3 DEF InputTypes, Init, InputInit
<1>3. Waits BY DEF Waits, Init, InputInit
<1>4. ProgTypes
  <2>1. Context \in DOMAIN Dictionary BY DictionaryAssumption
  <2> QED BY <2>1 DEF ProgTypes, Init, Reading
<1>5. Flags BY DEF Flags, Init
<1> QED BY <1>1, <1>2, <1>3, <1>4, <1>5 DEF IInv

\* main
LEMMA MainTypes == ASSUME IInv, MainLoad \/ MainInteract \/ MainEnd
                   PROVE  InputTypes' /\ Waits' /\ Flags' /\ ProgTypes'
<1>1. pc = "main" /\ UNCHANGED <<disk, terminal, arrived, paths, filling, others>>
  BY DEF MainLoad, MainInteract, MainEnd
<1>2. filling = "no" BY <1>1 DEF IInv, Waits, Reading
<1>3. errno' \in {"would block", "other"}
  BY IoTypes DEF IInv, InputTypes, MainLoad, MainInteract, MainEnd
<1>4. InputTypes' BY <1>1, <1>3, KeepInput DEF IInv, InputTypes
<1>5. ProgTypes'
  BY DEF IInv, ProgTypes, MainLoad, MainInteract, MainEnd, Quit, progVars
<1>6. Flags' BY DEF IInv, Flags, MainLoad, MainInteract, MainEnd, Quit, progVars
<1> QED BY <1>1, <1>2, <1>4, <1>5, <1>6 DEF Waits

\* The loops that read: only io_fillbuf goes on while the buffer is empty.
LEMMA ReadingTypes ==
  ASSUME IInv, Skip \/ Scan \/ Comment \/ Line \/ FillBuffer \/ EndOfInput
  PROVE  InputTypes' /\ Waits' /\ Flags' /\ ProgTypes'
<1>0. Flags'
  BY DEF IInv, Flags, Skip, Scan, Comment, Line, FillBuffer, EndOfInput, progVars
<1>1. CASE Skip \/ Scan \/ Comment \/ Line \/ EndOfInput
  <2>1. UNCHANGED <<disk, terminal, arrived, paths, filling, others, errno>>
    BY <1>1 DEF Skip, Scan, Comment, Line, EndOfInput, ReadVars, inputVars
  <2>2. (Buffered \/ infstack = <<>>) /\ pc # "exit"
    BY <1>1 DEF Skip, Scan, Comment, Line, EndOfInput, Reading
  <2>3. filling = "no" BY <2>2 DEF IInv, Waits, CanFill
  <2>4. InputTypes' BY <2>1, KeepInput DEF IInv, InputTypes
  <2>5. ProgTypes'
    <3>1. CASE Skip BY <3>1 DEF IInv, ProgTypes, Skip, progVars, Reading
    <3>2. CASE Scan BY <3>2 DEF IInv, ProgTypes, Scan, Reading
    <3>3. CASE Comment
      <4>1. nest > 0 /\ nest \in Nat /\ UNCHANGED <<want, voc, depth, base, aborts>>
        BY <3>3 DEF IInv, ProgTypes, Comment
      <4>2. nest' \in {nest, nest + 1, nest - 1} /\ pc' = IF nest' = 0 THEN "top" ELSE "comment"
        BY <3>3 DEF Comment
      <4>3. nest' \in Nat /\ (pc' = "comment" => nest' > 0) /\ pc' \in {"top", "comment"}
        BY <4>1, <4>2
      <4> QED BY <4>1, <4>3 DEF IInv, ProgTypes, Reading
    <3>4. CASE Line BY <3>4 DEF IInv, ProgTypes, Line, progVars, Reading
    <3>5. CASE EndOfInput BY <3>5 DEF IInv, ProgTypes, EndOfInput, progVars, Reading
    <3> QED BY <1>1, <3>1, <3>2, <3>3, <3>4, <3>5
  <2> QED BY <1>0, <2>1, <2>3, <2>4, <2>5 DEF Waits
<1>2. CASE FillBuffer
  <2>1. /\ pc \in Reading /\ CanFill /\ UNCHANGED <<progVars, pc>>
        /\ UNCHANGED <<disk, terminal, arrived, paths>>
    BY <1>2 DEF FillBuffer, Fill, FillEnter, FillData, FillEof, FillNone
  <2>2. /\ filling' \in {"no", "blocking", "sharing"} /\ others' \in BOOLEAN
        /\ errno' \in {"would block", "other"}
    BY <1>2 DEF IInv, InputTypes, FillBuffer, Fill, FillEnter, FillData, FillEof, FillNone
  <2>3. InputTypes' BY <2>1, <2>2, KeepInput DEF IInv
  <2>4. ProgTypes' BY <2>1 DEF IInv, ProgTypes, progVars
  <2>5. CanFill' \/ filling' = "no"
    BY <1>2, <2>1 DEF FillBuffer, Fill, FillEnter, FillData, FillEof, FillNone, CanFill, Buffered,
                      Top
  <2> QED BY <1>0, <2>1, <2>3, <2>4, <2>5 DEF Waits
<1> QED BY <1>1, <1>2

\* The outer interpreter: a word of the dictionary has what it needs.
LEMMA WordTypes ==
  ASSUME NEW v \in DOMAIN Dictionary, NEW name \in DOMAIN Dictionary[v],
         NEW word, word = Dictionary[v][name]
  PROVE  /\ word.effect \in Int
         /\ word.does = "radix" => word.radix \in Nat
         /\ word.does = "until" => word.delimiter \in {Newline, ")"}
         /\ word.does = "vocabulary" => name \in DOMAIN Dictionary
BY DictionaryAssumption

LEMMA ActTypes == ASSUME IInv, Act PROVE InputTypes' /\ Waits' /\ Flags' /\ ProgTypes'
<1> DEFINE word == Dictionary[voc][tib]
<1>0. pc = "act" /\ filling = "no" /\ Context \in DOMAIN Dictionary
  <2>1. pc = "act"
    BY DEF Act, Acting, Thread, Command, CommentWord, NameWord, Conditional, AbortWord, Executed,
           Cast, CastStray, Literal, Unknown, SharpInclude, SharpPath, Tick, IfDefined, Skipped
  <2>2. filling = "no" BY <2>1 DEF IInv, Waits, Reading
  <2> QED BY <2>1, <2>2, DictionaryAssumption
<1>f. Flags'
  BY DEF IInv, Flags, Act, Thread, Command, CommentWord, NameWord, Conditional, AbortWord, Executed,
         Cast, CastStray, Literal, Unknown, SharpInclude, SharpPath, Tick, IfDefined, Skipped,
         KeepRegisters, UNCHANGED_ACT, SkipSection, Abort, Aborted, progVars,
         Bracket, Bye, Schedules
<1>1. CASE Found /\ (Thread(word) \/ Command(word) \/ CommentWord(word) \/ NameWord(word)
                      \/ Conditional(word))
  <2>1. /\ UNCHANGED <<disk, terminal, arrived, paths, filling, errno, aborts>>
        /\ others' \in BOOLEAN
    BY <1>1 DEF Thread, Command, CommentWord, NameWord, Conditional, Executed, UNCHANGED_ACT,
                KeepRegisters, IInv, InputTypes, Schedules
  <2>2. InputTypes' BY <2>1, KeepInput DEF IInv, InputTypes
  <2>3. voc \in DOMAIN Dictionary /\ tib \in DOMAIN Dictionary[voc]
    BY <1>1 DEF Found, IInv, ProgTypes
  <2>4. /\ word.effect \in Int /\ (word.does = "radix" => word.radix \in Nat)
        /\ (word.does = "until" => word.delimiter \in {Newline, ")"})
    BY <2>3, WordTypes
  <2> HIDE DEF word
  <2>5. ProgTypes'
    <3>1. CASE Thread(word)
      BY <3>1 DEF IInv, ProgTypes, Thread, KeepRegisters
    <3>2. CASE Command(word)
      <4>1. depth' \in Int BY <2>4, <3>2 DEF IInv, ProgTypes, Command
      <4>2. base' \in Nat BY <2>4, <3>2 DEF IInv, ProgTypes, Command, Radix
      <4>3. pc' = "top" /\ UNCHANGED <<want, voc, nest, after, aborts>> BY <3>2 DEF Command
      <4> QED BY <4>1, <4>2, <4>3 DEF IInv, ProgTypes
    <3>3. CASE CommentWord(word)
      BY <2>4, <3>3 DEF IInv, ProgTypes, CommentWord, Reading
    <3>4. CASE NameWord(word)
      BY <1>0, <3>4 DEF IInv, ProgTypes, NameWord, DoWord, KeepRegisters, Reading
    <3>5. CASE Conditional(word)
      <4>1. /\ UNCHANGED <<base, aborts>>
            /\ depth' = depth - 1 \/ UNCHANGED depth
            /\ pc' \in {"skip", "top"}
            /\ \/ UNCHANGED <<want, voc, nest>>
               \/ want' \in Sections /\ voc' = Context /\ nest' = 0
        BY <3>5 DEF Conditional, SkipSection, DoWord, Sections
      <4>2. depth' \in Int BY <4>1 DEF IInv, ProgTypes
      <4> QED BY <1>0, <4>1, <4>2 DEF IInv, ProgTypes, Reading
    <3> QED BY <1>1, <3>1, <3>2, <3>3, <3>4, <3>5
  <2> QED BY <1>0, <1>f, <2>1, <2>2, <2>5 DEF Waits
<1>2. CASE AbortWord(word) \/ CastStray \/ Unknown \/ Tick
  <2>1. /\ UNCHANGED <<disk, terminal, arrived, paths, filling, others>>
        /\ UNCHANGED <<want, voc, nest, base>>
        /\ pc' \in {"top", "exit"}
        /\ IoFlush \/ UNCHANGED errno
    BY <1>2 DEF AbortWord, CastStray, Unknown, Tick, Abort, inputVars
  <2>2. errno' \in {"would block", "other"} BY <2>1, IoTypes DEF IInv, InputTypes
  <2>3. InputTypes' BY <2>1, <2>2, KeepInput DEF IInv, InputTypes
  <2>4. depth' \in Int /\ aborts' \in Nat
    BY <1>2 DEF IInv, ProgTypes, AbortWord, CastStray, Unknown, Tick, Abort, Aborted
  <2>5. ProgTypes' BY <2>1, <2>4 DEF IInv, ProgTypes
  <2> QED BY <1>0, <1>f, <2>1, <2>3, <2>5 DEF Waits
<1>3. CASE SharpInclude
  <2>1. /\ UNCHANGED <<disk, terminal, arrived, paths, filling, others, progVars>>
        /\ pc' = "top" /\ IoInfile(tib)
    BY <1>3 DEF SharpInclude
  <2>2. errno' \in {"would block", "other"} BY <2>1, IoTypes DEF IInv, InputTypes
  <2>3. InputTypes' BY <2>1, <2>2, KeepInput DEF IInv, InputTypes
  <2>4. ProgTypes' BY <2>1 DEF IInv, ProgTypes, progVars
  <2> QED BY <1>0, <1>f, <2>1, <2>3, <2>4 DEF Waits
<1>4. CASE SharpPath
  <2>1. /\ UNCHANGED <<disk, terminal, arrived, filling, others, errno, progVars>>
        /\ pc' = "top" /\ paths' = IoPathName(paths, tib, TRUE)
    BY <1>4 DEF SharpPath
  <2>2. PICK T : paths \in PathsOf(T) BY DEF IInv, InputTypes
  <2>3. \E U : IoPathName(paths, tib, TRUE) \in PathsOf(U) BY <2>2, IoPathNameKeeps
  <2>4. InputTypes' BY <2>1, <2>3 DEF IInv, InputTypes
  <2>5. ProgTypes' BY <2>1 DEF IInv, ProgTypes, progVars
  <2> QED BY <1>0, <1>f, <2>1, <2>4, <2>5 DEF Waits
<1>5. CASE Cast \/ Literal \/ IfDefined \/ Skipped
  <2>1. UNCHANGED <<disk, terminal, arrived, paths, filling, others, errno>>
    BY <1>5 DEF Cast, Literal, IfDefined, Skipped, UNCHANGED_ACT, KeepRegisters, inputVars
  <2>2. InputTypes' BY <2>1, KeepInput DEF IInv, InputTypes
  <2>3. ProgTypes'
    <3>1. CASE Cast
      <4>1. CastTo \in DOMAIN Dictionary[Context] /\ Dictionary[Context][CastTo].does = "vocabulary"
        BY <3>1 DEF Cast, IsCast, CastTo, CastsVocabulary
      <4>2. CastTo \in DOMAIN Dictionary BY <1>0, <4>1, WordTypes
      <4> HIDE DEF word
      <4> QED BY <3>1, <4>2 DEF IInv, ProgTypes, Cast, DoWord, KeepRegisters, Reading
    <3>2. CASE Literal BY <3>2 DEF IInv, ProgTypes, Literal
    <3>3. CASE IfDefined
      BY <1>0, <3>3 DEF IInv, ProgTypes, IfDefined, SkipSection, DoWord, Reading, Sections
    <3>4. CASE Skipped
      <4>1. /\ UNCHANGED <<depth, base, aborts>> /\ UNCHANGED <<want, voc>>
            /\ pc' \in {"top", "skip"}
            /\ \/ nest' = nest + 1
               \/ nest' = nest - 1 /\ nest > 0
               \/ nest' = nest
        BY <3>4 DEF Skipped, DoWord
      <4>2. nest' \in Nat BY <4>1 DEF IInv, ProgTypes
      <4> QED BY <4>1, <4>2 DEF IInv, ProgTypes, Reading
    <3> QED BY <1>5, <3>1, <3>2, <3>3, <3>4
  <2>4. pc' # "act" BY <1>5 DEF Cast, Literal, IfDefined, Skipped, SkipSection, DoWord
  <2> QED BY <1>0, <1>f, <2>1, <2>2, <2>3 DEF Waits
<1> QED BY <1>1, <1>2, <1>3, <1>4, <1>5 DEF Act

\* The interrupt key: io_fillbuf goes on with what is left of the stack.
LEMMA InterruptTypes == ASSUME IInv, Interrupt PROVE InputTypes' /\ Waits' /\ Flags' /\ ProgTypes'
<1>1. /\ UNCHANGED <<disk, terminal, arrived, paths, others>>
      /\ UNCHANGED <<want, voc, nest, base>>
      /\ depth' = 0 /\ aborts' = aborts + 1
      /\ pc \in Reading /\ pc' \in {pc, "exit"} /\ IoFlushFilling
  BY DEF Interrupt, Aborted
<1>2. errno' \in {"would block", "other"} /\ filling' \in {"no", "blocking", "sharing"}
  BY <1>1, IoTypes DEF IInv, InputTypes, IoFlushFilling
<1>3. InputTypes' BY <1>1, <1>2, KeepInput DEF IInv, InputTypes
<1>4. ProgTypes' BY <1>1 DEF IInv, ProgTypes, Reading
<1>5. Waits'
  <2> SUFFICES ASSUME filling' # "no", pc' # "exit" PROVE CanFill' /\ pc' \in Reading
    BY DEF Waits
  <2>1. pc' = pc /\ infstack # <<>> /\ IsATty(infstack[1].file) BY <1>1 DEF Interrupt
  <2>2. infstack \in Seq(Open(disk)) BY DEF IInv, StackInv
  <2>3. CASE filling = "no" \/ Len(infstack) <= 1
    <3>1. UNCHANGED filling /\ infstack' = <<infstack[1]>> BY <1>1, <2>1, <2>3 DEF IoFlushFilling, IoFlush
    <3>2. Len(infstack) = 1 BY <2>1, <2>2, <2>3, <3>1
    <3>3. infstack' = infstack BY <2>2, <3>1, <3>2
    <3>4. CanFill BY <1>1, <3>1 DEF IInv, Waits, Reading
    <3> QED BY <1>1, <2>1, <3>3, <3>4 DEF CanFill, Buffered, Top
  <2>4. CASE ~ (filling = "no" \/ Len(infstack) <= 1)
    <3> DEFINE r == [infstack[1] EXCEPT !.pos = infstack[1].end]
    <3>1. infstack' = <<r>> BY <1>1, <2>1, <2>4 DEF IoFlushFilling
    <3>2. infstack[1] \in Open(disk) BY <2>1, <2>2
    <3>3. r.pos = r.end /\ r.end \in Nat BY <3>2 DEF Open
    <3> HIDE DEF r
    <3>4. infstack' # <<>> /\ Top' = r BY <3>1 DEF Top, Last
    <3> QED BY <1>1, <2>1, <3>3, <3>4 DEF CanFill, Buffered
  <2> QED BY <2>3, <2>4
<1>6. Flags' BY DEF IInv, Flags, Interrupt, Aborted
<1> QED BY <1>3, <1>4, <1>5, <1>6

LEMMA StepTypes == ASSUME IInv, [Next]_vars PROVE IInv'
<1>0. StackInv' BY StepInv DEF IInv
<1>f. ASSUME Leave \/ NextWord \/ Input \/ Done \/ UNCHANGED vars PROVE Flags'
  BY <1>f DEF IInv, Flags, Leave, NextWord, Abort, Aborted, Input, Done, vars, progVars
<1>1. CASE MainLoad \/ MainInteract \/ MainEnd BY <1>0, <1>1, MainTypes DEF IInv
<1>2. CASE Leave
  <2>1. UNCHANGED <<inputVars, want, voc, nest, depth, base, aborts>>
        /\ pc = "top" /\ pc' = "main"
    BY <1>2 DEF Leave
  <2>2. InputTypes' BY <2>1, KeepInput DEF IInv, InputTypes, inputVars
  <2>3. Waits' BY <2>1 DEF IInv, Waits, inputVars, Reading
  <2>4. ProgTypes' BY <2>1 DEF IInv, ProgTypes
  <2> QED BY <1>0, <1>2, <1>f, <2>2, <2>3, <2>4 DEF IInv
<1>3. CASE NextWord
  <2>1. /\ UNCHANGED <<disk, terminal, arrived, paths, filling, others>>
        /\ UNCHANGED <<nest, base>>
        /\ pc = "top" /\ pc' = "skip" /\ want' = "word" /\ voc' = Context
        /\ IoFlush \/ UNCHANGED errno
    BY <1>3 DEF NextWord, DoWord, Abort, inputVars
  <2>2. errno' \in {"would block", "other"} BY <2>1, IoTypes DEF IInv, InputTypes
  <2>3. InputTypes' BY <2>1, <2>2, KeepInput DEF IInv, InputTypes
  <2>4. Waits' BY <2>1 DEF IInv, Waits, Reading
  <2>5. depth' \in Int /\ aborts' \in Nat
    BY <1>3 DEF IInv, ProgTypes, NextWord, Abort, Aborted
  <2>6. Context \in DOMAIN Dictionary BY DictionaryAssumption
  <2>7. ProgTypes' BY <2>1, <2>5, <2>6 DEF IInv, ProgTypes, Reading
  <2> QED BY <1>0, <1>3, <1>f, <2>3, <2>4, <2>7 DEF IInv
<1>4. CASE Skip \/ Scan \/ Comment \/ Line \/ FillBuffer \/ EndOfInput
  BY <1>0, <1>4, ReadingTypes DEF IInv
<1>5. CASE Act BY <1>0, <1>5, ActTypes DEF IInv
<1>6. CASE Interrupt BY <1>0, <1>6, InterruptTypes DEF IInv
<1>7. CASE Input
  <2>1. /\ UNCHANGED <<disk, terminal, infstack, paths, filling, others, errno, progVars, pc>>
        /\ arrived' \in arrived + 1 .. Len(disk[Stdin]) + 1
    BY <1>7 DEF Input, Arrive
  <2>2. InputTypes'
    <3>1. arrived \in Nat /\ Len(disk[Stdin]) \in Nat
      BY Texts, InputAssumption DEF IInv, StackInv
    <3>2. arrived' <= Len(disk'[Stdin]) + 1 BY <2>1, <3>1
    <3> QED BY <2>1, <3>2 DEF IInv, InputTypes
  <2>3. Waits' BY <2>1 DEF IInv, Waits, CanFill, Buffered, Top
  <2>4. ProgTypes' BY <2>1 DEF IInv, ProgTypes, progVars
  <2> QED BY <1>0, <1>7, <1>f, <2>2, <2>3, <2>4 DEF IInv
<1>8. CASE Done \/ UNCHANGED vars
  <2>1. UNCHANGED vars BY <1>8 DEF Done
  <2>2. InputTypes' BY <2>1, KeepInput DEF IInv, InputTypes, vars, inputVars
  <2>3. Waits' BY <2>1 DEF IInv, Waits, CanFill, Buffered, Top, vars, inputVars
  <2>4. ProgTypes' BY <2>1 DEF IInv, ProgTypes, vars, progVars
  <2> QED BY <1>0, <1>8, <1>f, <2>2, <2>3, <2>4 DEF IInv
<1> QED BY <1>1, <1>2, <1>3, <1>4, <1>5, <1>6, <1>7, <1>8 DEF Next, Step

\* The variables of the program have their types: in particular no search path is
\* there twice (io.c, io_path), a comment in a comment is counted (kernel.c,
\* doparen), and a read that was begun goes on where it waits, also when the
\* interrupt key has cut the stack meanwhile (io.c, io_fillbuf).
THEOREM TypeCorrect == Spec => []TypeOK
<1>1. Init => IInv BY InitTypes
<1>2. IInv /\ [Next]_vars => IInv' BY StepTypes
<1>3. IInv => TypeOK
  <2> SUFFICES ASSUME IInv PROVE TypeOK OBVIOUS
  <2>1. StackInv /\ InputTypes /\ Waits /\ Flags /\ ProgTypes BY DEF IInv
  <2>2. /\ arrived \in 0 .. Len(disk[Stdin]) + 1
        /\ \A i \in DOMAIN infstack :
             LET r == infstack[i] IN
             /\ r.file \in DOMAIN disk /\ r.ln \in Nat
             /\ 0 <= r.pos /\ r.pos <= r.end /\ r.end <= Len(disk[r.file])
    <3>1. Len(disk[Stdin]) \in Nat BY <2>1, Texts, InputAssumption DEF StackInv
    <3>2. arrived \in Nat /\ arrived <= Len(disk[Stdin]) + 1 BY <2>1 DEF StackInv, InputTypes
    <3>3. \A i \in DOMAIN infstack : FileInv(disk, infstack[i]) BY <2>1 DEF StackInv
    <3>4. arrived \in 0 .. Len(disk[Stdin]) + 1 BY <3>1, <3>2
    <3> QED BY <3>3, <3>4 DEF FileInv, Open
  <2>3. Len(paths) <= PathsSize /\ IsInjective(paths) BY <2>1 DEF InputTypes, PathsOf
  <2>4. filling # "no" => CanFill \/ pc = "exit" BY <2>1 DEF Waits
  <2> QED BY <2>1, <2>2, <2>3, <2>4 DEF TypeOK, StackInv, InputTypes, Flags, ProgTypes
<1> QED BY <1>1, <1>2, <1>3, PTL DEF Spec
----------------------------------------------------------------------------
(***************************************************************************)
(* Numbers: arithmetic of cells.                                           *)
(***************************************************************************)
Whole == 2 * Half

LEMMA CellValues == /\ Half \in Nat /\ Half > 0 /\ Whole \in Nat /\ Whole > 0
                    /\ \A n \in Int : Unsigned(n) \in 0 .. Whole - 1 /\ Signed(n) \in Int
<1>1. Half \in Nat /\ Half > 0 /\ Whole = 2 * Half /\ Whole \in Nat /\ Whole > 0
  BY CellAssumption DEF Whole
<1>2. \A n \in Int : Unsigned(n) = n % Whole BY DEF Unsigned, Whole
<1>3. \A n \in Int : n % Whole \in 0 .. Whole - 1 BY <1>1
<1>4. \A n \in Int : Unsigned(n) \in 0 .. Whole - 1 BY <1>2, <1>3
<1>5. \A n \in Int : Signed(n) = IF Unsigned(n) < Half THEN Unsigned(n) ELSE Unsigned(n) - Whole
  BY DEF Signed, Whole
<1>6. \A n \in Int : Signed(n) \in Int BY <1>1, <1>4, <1>5
<1> QED BY <1>1, <1>4, <1>6

\* Division with a remainder.
LEMMA Remainder ==
  ASSUME NEW m \in Nat, m > 0, NEW q \in Int, NEW r \in 0 .. m - 1
  PROVE  (m * q + r) % m = r
OBVIOUS

LEMMA Division ==
  ASSUME NEW m \in Nat, m > 0, NEW n \in Int
  PROVE  n \div m \in Int /\ n % m \in 0 .. m - 1 /\ n = m * (n \div m) + (n % m)
<1>1. n \div m \in Int OBVIOUS
<1>2. n % m \in 0 .. m - 1 OBVIOUS
<1>3. n = m * (n \div m) + (n % m) OBVIOUS
<1> QED BY <1>1, <1>2, <1>3

\* Whole more or less is the same cell.
LEMMA SameCell ==
  ASSUME NEW n \in Int, NEW k \in Int
  PROVE  Unsigned(n + Whole * k) = Unsigned(n) /\ Signed(n + Whole * k) = Signed(n)
<1> DEFINE q == n \div Whole
           r == n % Whole
<1>1. Whole \in Nat /\ Whole > 0 BY CellValues
<1>2. q \in Int /\ r \in 0 .. Whole - 1 /\ n = Whole * q + r BY <1>1, Division
<1> HIDE DEF q
<1>3. (Whole * (q + k) + r) % Whole = r
  <2>1. q + k \in Int BY <1>2
  <2> HIDE DEF r
  <2> QED BY <1>1, <1>2, <2>1, Remainder
<1>4. n + Whole * k = Whole * (q + k) + r
  <2> HIDE DEF r
  <2> QED BY <1>1, <1>2
<1>5. (n + Whole * k) % Whole = n % Whole BY <1>3, <1>4
<1>6. \A i \in Int : Unsigned(i) = i % Whole BY DEF Unsigned, Whole
<1>7. Unsigned(n + Whole * k) = Unsigned(n)
  <2>1. Unsigned(n + Whole * k) = (n + Whole * k) % Whole BY DEF Unsigned, Whole
  <2>2. Unsigned(n) = n % Whole BY DEF Unsigned, Whole
  <2> QED BY <1>5, <2>1, <2>2
<1> QED BY <1>7 DEF Signed

\* A cell is what its bits say, read with a sign.
LEMMA SignedIs ==
  ASSUME NEW n \in Int
  PROVE  \E k \in Int : Signed(n) = n + Whole * k
<1> DEFINE q == n \div Whole
<1>1. Whole \in Nat /\ Whole > 0 /\ Whole = 2 * Half BY CellValues DEF Whole
<1>2. q \in Int /\ n % Whole \in 0 .. Whole - 1 /\ n = Whole * q + (n % Whole) BY <1>1, Division
<1>3. Unsigned(n) = n % Whole BY DEF Unsigned, Whole
<1>4. Signed(n) = Unsigned(n) \/ Signed(n) = Unsigned(n) - Whole BY DEF Signed, Whole
<1> DEFINE u == n % Whole
<1>a. u \in 0 .. Whole - 1 BY <1>2
<1>b. n = Whole * q + u BY <1>2
<1>c. Signed(n) = u \/ Signed(n) = u - Whole BY <1>3, <1>4
<1> HIDE DEF u, q
<1>5. u \in Int /\ n = Whole * q + u /\ (Signed(n) = u \/ Signed(n) = u - Whole)
  BY <1>1, <1>a, <1>b, <1>c
<1>6. CASE Signed(n) = u
  <2>1. Signed(n) = n + Whole * (- q) BY <1>1, <1>2, <1>5, <1>6
  <2> QED BY <1>2, <2>1
<1>7. CASE Signed(n) = u - Whole
  <2>1. Signed(n) = n + Whole * (- q - 1) BY <1>1, <1>2, <1>5, <1>7
  <2> QED BY <1>2, <2>1
<1> QED BY <1>5, <1>6, <1>7

LEMMA SignedCell ==
  ASSUME NEW n \in Cells
  PROVE  /\ Signed(n) = n /\ Signed(Unsigned(n)) = n
         /\ n >= 0 => Unsigned(n) = n
         /\ n < 0 => Unsigned(Negate(n)) = - n /\ Negate(Signed(- n)) = n
<1>1. Half \in Nat /\ Half > 0 /\ Whole = 2 * Half BY CellValues DEF Whole
<1>2. n \in Int /\ - Half <= n /\ n < Half BY <1>1 DEF Cells
<1>3. \A i \in 0 .. Whole - 1 : Unsigned(i) = i
  <2> SUFFICES ASSUME NEW i \in 0 .. Whole - 1 PROVE Unsigned(i) = i OBVIOUS
  <2>1. Whole \in Nat /\ Whole > 0 BY <1>1
  <2>2. (Whole * 0 + i) % Whole = i BY <2>1, Remainder
  <2>3. Whole * 0 + i = i BY <2>1
  <2> QED BY <2>2, <2>3 DEF Unsigned, Whole
<1>4. \A i \in 0 .. Whole - 1 : Signed(i) = IF i < Half THEN i ELSE i - Whole
  BY <1>3 DEF Signed, Whole
<1>5. \A i \in Cells : Signed(i) = i /\ Unsigned(i) = IF i < 0 THEN i + Whole ELSE i
  <2> SUFFICES ASSUME NEW i \in Cells
               PROVE  Signed(i) = i /\ Unsigned(i) = IF i < 0 THEN i + Whole ELSE i
    OBVIOUS
  <2>1. i \in Int /\ - Half <= i /\ i < Half BY <1>1 DEF Cells
  <2>2. CASE i >= 0
    <3>1. i \in 0 .. Whole - 1 BY <1>1, <2>1, <2>2
    <3>2. Unsigned(i) = i /\ Signed(i) = i BY <1>3, <1>4, <2>1, <3>1
    <3> QED BY <2>1, <2>2, <3>2
  <2>3. CASE i < 0
    <3>1. i + Whole \in 0 .. Whole - 1 /\ ~ (i + Whole < Half) BY <1>1, <2>1, <2>3
    <3>2. Signed(i + Whole * 1) = Signed(i) /\ Unsigned(i + Whole * 1) = Unsigned(i)
      BY <2>1, SameCell
    <3>3. i + Whole * 1 = i + Whole /\ (i + Whole) - Whole = i BY <1>1, <2>1
    <3>4. Unsigned(i + Whole) = i + Whole /\ Signed(i + Whole) = (i + Whole) - Whole
      <4> DEFINE j == i + Whole
      <4>1. j \in 0 .. Whole - 1 /\ ~ (j < Half) BY <3>1
      <4>2. Unsigned(j) = j /\ Signed(j) = j - Whole
        <5> HIDE DEF j
        <5>1. Unsigned(j) = j BY <1>3, <4>1
        <5>2. Signed(j) = j - Whole BY <1>4, <4>1
        <5> QED BY <5>1, <5>2
      <4> QED BY <4>2
    <3> QED BY <2>3, <3>2, <3>3, <3>4
  <2> QED BY <2>1, <2>2, <2>3
<1>6. Signed(n) = n /\ (n >= 0 => Unsigned(n) = n) BY <1>2, <1>5
<1>7. Signed(Unsigned(n)) = n
  <2>1. CASE n >= 0 BY <1>6, <2>1
  <2>2. CASE n < 0
    <3>1. Unsigned(n) = n + Whole * 1 BY <1>1, <1>2, <1>5, <2>2
    <3>2. Signed(n + Whole * 1) = Signed(n) BY <1>2, SameCell
    <3> QED BY <1>6, <3>1, <3>2
  <2> QED BY <1>2, <2>1, <2>2
<1>8. ASSUME n < 0 PROVE Unsigned(Negate(n)) = - n /\ Negate(Signed(- n)) = n
  <2>1. CASE n = - Half
    <3>1. - n = Half /\ Half \in 0 .. Whole - 1 /\ ~ (Half < Half) /\ Half - Whole = n
      BY <1>1, <1>2, <2>1
    <3>2. Signed(- n) = n BY <1>4, <3>1
    <3>3. Negate(n) = n BY <3>2 DEF Negate
    <3>4. Unsigned(n) = n + Whole BY <1>2, <1>5, <1>8
    <3>5. n + Whole = - n BY <1>1, <1>2, <2>1
    <3> QED BY <3>2, <3>3, <3>4, <3>5
  <2>2. CASE n # - Half
    <3>1. - n \in Cells /\ ~ (- n < 0) /\ - (- n) = n BY <1>1, <1>2, <1>8, <2>2 DEF Cells
    <3>2. Signed(- n) = - n /\ Unsigned(- n) = - n BY <1>5, <3>1
    <3> QED BY <1>6, <3>1, <3>2 DEF Negate
  <2> QED BY <2>1, <2>2
<1> QED BY <1>6, <1>7, <1>8

\* convert may cut a number down to a cell after every digit.
LEMMA CutDown ==
  ASSUME NEW b \in Nat, NEW q \in Int, NEW d \in Int
  PROVE  Signed(Signed(q) * b + d) = Signed(q * b + d)
<1>1. PICK k \in Int : Signed(q) = q + Whole * k BY SignedIs
<1>2. Whole \in Nat BY CellValues
<1>3. Signed(q) * b + d = (q * b + d) + Whole * (k * b)
  <2>1. (q + Whole * k) * b + d = (q * b + d) + Whole * (k * b) BY <1>2
  <2> QED BY <1>1, <2>1
<1>4. q * b + d \in Int /\ k * b \in Int OBVIOUS
<1>5. Signed((q * b + d) + Whole * (k * b)) = Signed(q * b + d) BY <1>4, SameCell
<1> QED BY <1>3, <1>5
----------------------------------------------------------------------------
(***************************************************************************)
(* Numbers as text: what # makes, convert takes back.                      *)
(***************************************************************************)
\* The digits of a base, the text of a number up to m, and the value that convert
\* has after each character.
IsDigit(c, b) == \E d \in 0 .. b - 1 : c = Digit(d)
Shown(b, m) ==
  {t \in [0 .. m -> Seq(Int)] :
     \A u \in 0 .. m : t[u] = IF u < b THEN <<Digit(u)>> ELSE Append(t[u \div b], Digit(u % b))}
Counts(s, v, b) ==
  v[0] = 0 /\ \A i \in 1 .. Len(s) : v[i] = Signed(v[i - 1] * b + DigitValue(s[i], b))

\* A text of digits that is worth u, however convert gets there.
Shows(s, u, b) == /\ s \in Seq(Int) /\ Len(s) > 0
                  /\ \A i \in 1 .. Len(s) : IsDigit(s[i], b)
                  /\ \A v : Counts(s, v, b) => v[Len(s)] = Signed(u)

LEMMA DigitIs ==
  ASSUME NEW b \in 2 .. 36, NEW d \in 0 .. b - 1
  PROVE  /\ Digit(d) \in Int /\ Digit(d) # Minus /\ Digit(d) # Space
         /\ DigitValue(Digit(d), b) = d
<1>1. d \in Int /\ 0 <= d /\ d <= 35 OBVIOUS
<1>2. CASE d > 9
  <2>1. Digit(d) = d + 87 BY <1>1, <1>2 DEF Digit, LowerA
  <2> DEFINE c == d + 87
  <2>2. c \in 97 .. 122 /\ c \notin 48 .. 57 /\ c - 97 + 10 = d BY <1>1, <1>2
  <2> HIDE DEF c
  <2>3. DigitValue(c, b) = c - 97 + 10
    <3>1. Zero = 48 /\ Zero + 9 = 57 /\ LowerA = 97 /\ LowerZ = 122 BY DEF Zero, LowerA, LowerZ
    <3> QED BY <2>2, <3>1 DEF DigitValue
  <2>4. c # 45 /\ c # 32 /\ c \in Int BY <2>2
  <2>5. Digit(d) = c BY <2>1 DEF c
  <2> QED BY <2>2, <2>3, <2>4, <2>5 DEF Minus, Space
<1>3. CASE ~ (d > 9)
  <2>1. Digit(d) = d + 48 BY <1>1, <1>3 DEF Digit, Zero
  <2> DEFINE c == d + 48
  <2>2. c \in 48 .. 57 /\ c - 48 = d BY <1>1, <1>3
  <2> HIDE DEF c
  <2>3. DigitValue(c, b) = c - 48
    <3>1. Zero = 48 /\ Zero + 9 = 57 BY DEF Zero
    <3>2. c \in Zero .. Zero + 9 /\ c \notin LowerA .. LowerZ BY <2>2, <3>1 DEF LowerA, LowerZ
    <3> QED BY <3>1, <3>2 DEF DigitValue
  <2>4. c # 45 /\ c # 32 /\ c \in Int BY <2>2
  <2>5. Digit(d) = c BY <2>1 DEF c
  <2> QED BY <2>2, <2>3, <2>4, <2>5 DEF Minus, Space
<1> QED BY <1>2, <1>3

LEMMA Quotient ==
  ASSUME NEW b \in 2 .. 36, NEW u \in Nat, u >= b
  PROVE  /\ u \div b \in 0 .. u - 1 /\ u % b \in 0 .. b - 1
         /\ u = (u \div b) * b + (u % b)
<1>1. b \in Nat /\ b >= 2 OBVIOUS
<1>2. u \div b \in Nat BY <1>1
<1>3. u \div b < u BY <1>1
<1>4. u % b \in 0 .. b - 1 BY <1>1
<1>5. u = b * (u \div b) + (u % b) BY <1>1
<1>6. u = (u \div b) * b + (u % b) BY <1>1, <1>2, <1>5
<1>7. u \div b \in 0 .. u - 1 BY <1>2, <1>3
<1> QED BY <1>4, <1>6, <1>7

\* # has a text for every number.
LEMMA ShownExist ==
  ASSUME NEW b \in 2 .. 36, NEW N \in Nat
  PROVE  Shown(b, N) # {}
<1> DEFINE T == {m \in Nat : Shown(b, m) # {}}
<1>1. ASSUME NEW m \in 0 .. N, \A k \in 0 .. m - 1 : k \in T PROVE m \in T
  <2>1. CASE m = 0
    <3>1. Digit(0) \in Int /\ 0 < b BY DigitIs
    <3>2. [u \in 0 .. 0 |-> <<Digit(0)>>] \in Shown(b, 0) BY <3>1 DEF Shown
    <3> QED BY <2>1, <3>2
  <2>2. CASE m # 0
    <3>0. m - 1 \in 0 .. m - 1 /\ m \in Nat BY <2>2
    <3>1. PICK t : t \in Shown(b, m - 1) BY <1>1, <3>0
    <3>2. /\ t \in [0 .. m - 1 -> Seq(Int)]
          /\ \A u \in 0 .. m - 1 :
               t[u] = IF u < b THEN <<Digit(u)>> ELSE Append(t[u \div b], Digit(u % b))
      BY <3>1 DEF Shown
    <3> DEFINE last == IF m < b THEN <<Digit(m)>> ELSE Append(t[m \div b], Digit(m % b))
               h == [u \in 0 .. m |-> IF u = m THEN last ELSE t[u]]
    <3>3. last \in Seq(Int)
      <4>1. CASE m < b
        <5>1. m \in 0 .. b - 1 BY <3>0, <4>1
        <5>2. Digit(m) \in Int BY <5>1, DigitIs
        <5> QED BY <4>1, <5>2
      <4>2. CASE ~ (m < b)
        <5>1. m >= b BY <3>0, <4>2
        <5>2. m \div b \in 0 .. m - 1 /\ m % b \in 0 .. b - 1 BY <3>0, <5>1, Quotient
        <5>3. Digit(m % b) \in Int BY <5>2, DigitIs
        <5>4. t[m \div b] \in Seq(Int) BY <3>2, <5>2
        <5> QED BY <4>2, <5>3, <5>4
      <4> QED BY <4>1, <4>2
    <3>4. h \in [0 .. m -> Seq(Int)]
      <4> HIDE DEF last
      <4> QED BY <3>2, <3>3
    <3>5. ASSUME NEW u \in 0 .. m
          PROVE  h[u] = IF u < b THEN <<Digit(u)>> ELSE Append(h[u \div b], Digit(u % b))
      <4>1. h[u] = IF u < b THEN <<Digit(u)>> ELSE Append(t[u \div b], Digit(u % b))
        <5>1. CASE u = m BY <5>1
        <5>2. CASE u # m
          <6>1. u \in 0 .. m - 1 BY <3>0, <5>2
          <6>2. h[u] = t[u] BY <5>2
          <6> QED BY <3>2, <6>1, <6>2
        <5> QED BY <5>1, <5>2
      <4>2. CASE u < b BY <4>1, <4>2
      <4>3. CASE ~ (u < b)
        <5>1. u \in Nat /\ u >= b BY <4>3
        <5>2. u \div b \in 0 .. u - 1 BY <5>1, Quotient
        <5> DEFINE q == u \div b
        <5>3. q \in 0 .. u - 1 BY <5>2
        <5> HIDE DEF q
        <5>4. q \in 0 .. m /\ q # m BY <5>3
        <5>5. h[q] = t[q] BY <5>4
        <5> QED BY <4>1, <4>3, <5>5 DEF q
      <4> QED BY <4>2, <4>3
    <3> HIDE DEF h
    <3>6. h \in Shown(b, m) BY <3>4, <3>5 DEF Shown
    <3> QED BY <3>0, <3>6
  <2> QED BY <2>1, <2>2
<1> HIDE DEF T
<1>2. 0 .. N \subseteq T BY <1>1, UpTo
<1>3. N \in T BY <1>2
<1> QED BY <1>3 DEF T

\* One more digit.
LEMMA ShowsMore ==
  ASSUME NEW b \in 2 .. 36, NEW q \in Nat, NEW s, Shows(s, q, b), NEW d \in 0 .. b - 1
  PROVE  Shows(Append(s, Digit(d)), q * b + d, b)
<1> DEFINE c == Digit(d)
           r == Append(s, c)
           l == Len(s)
<1>0. c \in Int /\ IsDigit(c, b) /\ DigitValue(c, b) = d BY DigitIs DEF IsDigit
<1>1. s \in Seq(Int) /\ l \in Nat /\ l > 0 /\ \A i \in 1 .. l : IsDigit(s[i], b) BY DEF Shows
<1> HIDE DEF c
<1>2. /\ r \in Seq(Int) /\ Len(r) = l + 1 /\ r[l + 1] = c
      /\ \A i \in 1 .. l : r[i] = s[i]
  BY <1>0, <1>1
<1> HIDE DEF r, l
<1>3. Len(r) > 0 /\ \A i \in 1 .. Len(r) : IsDigit(r[i], b) BY <1>0, <1>1, <1>2
<1>4. ASSUME NEW v, Counts(r, v, b) PROVE v[Len(r)] = Signed(q * b + d)
  <2>1. v[0] = 0 /\ \A i \in 1 .. l + 1 : v[i] = Signed(v[i - 1] * b + DigitValue(r[i], b))
    BY <1>2, <1>4 DEF Counts
  <2>2. ASSUME NEW i \in 1 .. l PROVE v[i] = Signed(v[i - 1] * b + DigitValue(s[i], b))
    <3>1. i \in 1 .. l + 1 /\ r[i] = s[i] BY <1>1, <1>2
    <3> QED BY <2>1, <3>1
  <2>3. Counts(s, v, b) BY <2>1, <2>2 DEF Counts, l
  <2>4. v[l] = Signed(q) BY <2>3 DEF Shows, l
  <2>5. l + 1 \in 1 .. l + 1 /\ (l + 1) - 1 = l BY <1>1
  <2>6. v[l + 1] = Signed(v[l] * b + d) BY <1>0, <1>2, <2>1, <2>5
  <2>7. b \in Nat /\ q \in Int /\ d \in Int OBVIOUS
  <2>8. Signed(Signed(q) * b + d) = Signed(q * b + d) BY <2>7, CutDown
  <2> QED BY <1>2, <2>4, <2>6, <2>8
<1>5. Shows(r, q * b + d, b) BY <1>2, <1>3, <1>4 DEF Shows
<1> QED BY <1>5 DEF r, c

LEMMA ShowsOne ==
  ASSUME NEW b \in 2 .. 36, NEW d \in 0 .. b - 1
  PROVE  Shows(<<Digit(d)>>, d, b)
<1> DEFINE c == Digit(d)
<1>1. c \in Int /\ IsDigit(c, b) /\ DigitValue(c, b) = d BY DigitIs DEF IsDigit
<1> HIDE DEF c
<1>2. <<c>> \in Seq(Int) /\ Len(<<c>>) = 1 /\ <<c>>[1] = c BY <1>1
<1>3. ASSUME NEW v, Counts(<<c>>, v, b) PROVE v[1] = Signed(d)
  <2>1. v[0] = 0 /\ v[1] = Signed(v[0] * b + d) BY <1>1, <1>2, <1>3 DEF Counts
  <2>2. 0 * b + d = d OBVIOUS
  <2> QED BY <2>1, <2>2
<1>4. Shows(<<c>>, d, b) BY <1>1, <1>2, <1>3 DEF Shows
<1> QED BY <1>4 DEF c

\* <# #s #>
LEMMA SharpsShow ==
  ASSUME NEW b \in 2 .. 36, NEW n \in Int
  PROVE  Shows(Sharps(n, b), Unsigned(n), b)
<1> DEFINE W == Whole - 1
           Is(f) == f = [u \in 0 .. 2 * Half - 1 |->
                           IF u < b THEN <<Digit(u)>> ELSE Append(f[u \div b], Digit(u % b))]
           text == CHOOSE f : Is(f)
<1>0. W \in Nat /\ 2 * Half - 1 = W /\ Unsigned(n) \in 0 .. W BY CellValues DEF Whole
<1>1. PICK t : t \in Shown(b, W) BY <1>0, ShownExist
<1>2. Is(t) BY <1>0, <1>1 DEF Shown
<1>3. Is(text)
  <2> HIDE DEF Is
  <2> QED BY <1>2, Zenon
<1>4. Sharps(n, b) = text[Unsigned(n)] BY Zenon DEF Sharps
<1> HIDE DEF text, W
<1>5. \A u \in 0 .. W : text[u] = IF u < b THEN <<Digit(u)>> ELSE Append(text[u \div b], Digit(u % b))
  BY <1>0, <1>3
<1> DEFINE T == {u \in Nat : Shows(text[u], u, b)}
<1>6. ASSUME NEW u \in 0 .. W, \A k \in 0 .. u - 1 : k \in T PROVE u \in T
  <2>1. CASE u < b
    <3>1. u \in 0 .. b - 1 BY <2>1
    <3>2. text[u] = <<Digit(u)>> BY <1>5, <2>1
    <3>3. Shows(<<Digit(u)>>, u, b) BY <3>1, ShowsOne
    <3> QED BY <3>2, <3>3
  <2>2. CASE ~ (u < b)
    <3> DEFINE q == u \div b
               d == u % b
    <3>1. u \in Nat /\ u >= b BY <2>2
    <3>2. q \in 0 .. u - 1 /\ d \in 0 .. b - 1 /\ u = q * b + d BY <3>1, Quotient
    <3>3. text[u] = Append(text[q], Digit(d)) BY <1>5, <2>2
    <3> HIDE DEF q, d
    <3>4. q \in Nat /\ Shows(text[q], q, b) BY <1>6, <3>2
    <3>5. Shows(Append(text[q], Digit(d)), q * b + d, b) BY <3>2, <3>4, ShowsMore
    <3> QED BY <3>1, <3>2, <3>3, <3>5
  <2> QED BY <2>1, <2>2
<1> HIDE DEF T
<1>7. 0 .. W \subseteq T BY <1>0, <1>6, UpTo
<1>8. Unsigned(n) \in T BY <1>0, <1>7
<1> QED BY <1>4, <1>8 DEF T
----------------------------------------------------------------------------
(***************************************************************************)
(* Numbers that are read.                                                  *)
(***************************************************************************)
\* convert takes all digits, and has what they show.
LEMMA ConvertShown ==
  ASSUME NEW b \in 2 .. 36, NEW u \in Int, NEW s, Shows(s, u, b)
  PROVE  Convert(s, b).n = Signed(u) /\ Convert(s, b).rest = << >>
<1> DEFINE l == Len(s)
           Stop(k) == /\ \A i \in 1 .. k : DigitValue(s[i], b) < b
                      /\ k < l => DigitValue(s[k + 1], b) >= b
           k == CHOOSE k \in 0 .. l : Stop(k)
           Is(f) == f = [i \in 0 .. k |-> IF i = 0 THEN 0
                                          ELSE Signed(f[i - 1] * b + DigitValue(s[i], b))]
           value == CHOOSE f : Is(f)
           g == [i \in 1 .. l |-> [x \in Int |-> Signed(x * b + DigitValue(s[i], b))]]
<1>1. s \in Seq(Int) /\ l \in Nat /\ l > 0 /\ \A i \in 1 .. l : IsDigit(s[i], b) BY DEF Shows
<1>2. \A i \in 1 .. l : DigitValue(s[i], b) \in 0 .. b - 1
  <2> SUFFICES ASSUME NEW i \in 1 .. l PROVE DigitValue(s[i], b) \in 0 .. b - 1 OBVIOUS
  <2>1. PICK d \in 0 .. b - 1 : s[i] = Digit(d) BY <1>1 DEF IsDigit
  <2> QED BY <2>1, DigitIs
<1> HIDE DEF l
<1>3. \A i \in 1 .. l : DigitValue(s[i], b) \in Int /\ DigitValue(s[i], b) < b
                        /\ ~ (DigitValue(s[i], b) >= b)
  BY <1>2
<1>4. k = l
  <2>1. l \in 0 .. l /\ Stop(l) BY <1>1, <1>3
  <2>2. k \in 0 .. l /\ Stop(k)
    <3> HIDE DEF Stop
    <3> QED BY <2>1, Zenon
  <2> HIDE DEF k
  <2>3. k < l => k + 1 \in 1 .. l BY <1>1, <2>2
  <2>4. ~ (k < l) BY <1>3, <2>2, <2>3
  <2> QED BY <1>1, <2>2, <2>4
<1>5. Convert(s, b) = [n |-> value[k], rest |-> SubSeq(s, k + 1, Len(s))]
  BY Zenon DEF Convert, Digits, l
<1> HIDE DEF k
<1>6. \A x \in Int : \A i \in 1 .. l : Signed(x * b + DigitValue(s[i], b)) \in Int
  <2> SUFFICES ASSUME NEW x \in Int, NEW i \in 1 .. l
               PROVE  Signed(x * b + DigitValue(s[i], b)) \in Int
    OBVIOUS
  <2> DEFINE d == DigitValue(s[i], b)
  <2>1. d \in Int BY <1>3
  <2> HIDE DEF d
  <2>2. x * b + d \in Int BY <2>1
  <2>3. Signed(x * b + d) \in Int BY <2>2, CellValues
  <2> QED BY <2>3 DEF d
<1>7. g \in Bodies(Int, l)
  BY <1>6 DEF Bodies
<1>8. \A i \in 1 .. l : \A x \in Int : g[i][x] = Signed(x * b + DigitValue(s[i], b)) OBVIOUS
<1> HIDE DEF g
<1>9. RunsOf(Int, 0, g, l) # {}
  <2> DEFINE S == Int
  <2>1. 0 \in S /\ l \in Nat /\ g \in Bodies(S, l) BY <1>1, <1>7
  <2> HIDE DEF S
  <2>2. RunsOf(S, 0, g, l) # {} BY <2>1, LoopRuns
  <2> QED BY <2>2 DEF S
<1>10. PICK f \in [0 .. l -> Int] : f[0] = 0 /\ \A i \in 1 .. l : f[i] = g[i][f[i - 1]]
  BY <1>9 DEF RunsOf
<1>11. Is(f)
  <2>1. \A i \in 1 .. l : f[i - 1] \in Int BY <1>1, <1>10
  <2>2. \A i \in 1 .. l : f[i] = Signed(f[i - 1] * b + DigitValue(s[i], b))
    BY <1>8, <1>10, <2>1
  <2>3. \A i \in 0 .. l : i # 0 => i \in 1 .. l BY <1>1
  <2> QED BY <1>4, <1>10, <2>2, <2>3
<1>12. Is(value)
  <2> HIDE DEF Is
  <2> QED BY <1>11, Zenon
<1> HIDE DEF value
<1>13. Counts(s, value, b)
  <2>1. \A i \in 1 .. l : i \in 0 .. k /\ i # 0 BY <1>1, <1>4
  <2>2. 0 \in 0 .. k BY <1>1, <1>4
  <2>3. value[0] = 0 BY <1>12, <2>2
  <2>4. \A i \in 1 .. l : value[i] = Signed(value[i - 1] * b + DigitValue(s[i], b))
    BY <1>12, <2>1
  <2> QED BY <2>3, <2>4 DEF Counts, l
<1>14. value[l] = Signed(u) BY <1>13 DEF Shows, l
<1>15. SubSeq(s, l + 1, l) = << >> BY <1>1
<1>16. Convert(s, b) = [n |-> value[l], rest |-> SubSeq(s, l + 1, l)] BY <1>4, <1>5 DEF l
<1> QED BY <1>14, <1>15, <1>16

\* What a text of digits is read as, and with a minus before it.
LEMMA QNumberShown ==
  ASSUME NEW b \in 2 .. 36, NEW u \in Int, NEW s, Shows(s, u, b)
  PROVE  /\ QNumber(s, b) = [found |-> TRUE, n |-> Signed(u)]
         /\ QNumber(<<Minus>> \o s, b) = [found |-> TRUE, n |-> Negate(Signed(u))]
<1>1. s \in Seq(Int) /\ Len(s) > 0 /\ IsDigit(s[1], b) BY DEF Shows
<1>2. s # << >> /\ Head(s) = s[1] BY <1>1
<1>3. Head(s) # Minus BY <1>1, <1>2, DigitIs DEF IsDigit
<1>4. Convert(s, b).n = Signed(u) /\ Convert(s, b).rest = << >> BY ConvertShown
<1>5. QNumber(s, b) = [found |-> TRUE, n |-> Signed(u)] BY <1>3, <1>4 DEF QNumber
<1> DEFINE w == <<Minus>> \o s
<1>6. w # << >> /\ Head(w) = Minus /\ Tail(w) = s
  <2>1. Minus \in Int BY DEF Minus
  <2>2. w \in Seq(Int) /\ Len(w) = Len(s) + 1 /\ w[1] = Minus /\ \A i \in 1 .. Len(s) : w[i + 1] = s[i]
    BY <1>1, <2>1
  <2> HIDE DEF w
  <2>3. Tail(w) \in Seq(Int) /\ Len(Tail(w)) = Len(s) /\ \A i \in 1 .. Len(s) : Tail(w)[i] = w[i + 1]
    BY <1>1, <2>2
  <2>4. \A i \in 1 .. Len(s) : Tail(w)[i] = s[i] BY <2>2, <2>3
  <2>5. Len(Tail(w)) = Len(s) /\ \A i \in 1 .. Len(Tail(w)) : Tail(w)[i] = s[i] BY <2>3, <2>4
  <2>6. Tail(w) = s BY <1>1, <2>3, <2>5, SeqEqual
  <2> QED BY <1>1, <2>2, <2>6
<1> HIDE DEF w
<1>7. QNumber(w, b) = [found |-> TRUE, n |-> Negate(Signed(u))] BY <1>4, <1>6 DEF QNumber
<1> QED BY <1>5, <1>7 DEF w

\* A word with space on either side.
Unspaced(w) == w \in Seq(Int) /\ Len(w) > 0 /\ \A i \in 1 .. Len(w) : w[i] # Space

LEMMA ReadsWord ==
  ASSUME NEW w, Unspaced(w), NEW m \in Nat, NEW e \in Nat, NEW text \in Seq(Int), NEW n, NEW b,
         Len(text) = m + Len(w) + e,
         \A i \in 1 .. Len(w) : text[m + i] = w[i],
         \A i \in 1 .. m : text[i] = Space,
         \A i \in m + Len(w) + 1 .. Len(text) : text[i] = Space,
         QNumber(w, b) = [found |-> TRUE, n |-> n]
  PROVE  Reads(text, n, b)
<1> DEFINE shown == {k \in DOMAIN text : text[k] # Space}
           l == Len(w)
<1>1. l \in Nat /\ l > 0 /\ w \in Seq(Int) /\ \A i \in 1 .. l : w[i] # Space BY DEF Unspaced
<1>2. DOMAIN text = 1 .. m + l + e BY <1>1
<1> HIDE DEF l
<1>3. ASSUME NEW k \in 1 .. m + l + e PROVE text[k] # Space <=> k \in m + 1 .. m + l
  <2>1. CASE k <= m BY <1>1, <2>1
  <2>2. CASE k > m + l BY <1>1, <1>2, <2>2 DEF l
  <2>3. CASE k > m /\ k <= m + l
    <3>1. k - m \in 1 .. l /\ m + (k - m) = k BY <1>1, <2>3
    <3>2. text[m + (k - m)] = w[k - m] BY <3>1 DEF l
    <3> QED BY <1>1, <2>3, <3>1, <3>2
  <2> QED BY <1>1, <2>1, <2>2, <2>3
<1>4. m + 1 .. m + l \subseteq 1 .. m + l + e BY <1>1
<1>5. shown = m + 1 .. m + l BY <1>2, <1>3, <1>4
<1>6. m + 1 \in shown /\ m + l \in shown
  <2> HIDE DEF shown
  <2> QED BY <1>1, <1>5
<1>7. SubSeq(text, m + 1, m + l) = w
  <2> DEFINE t == SubSeq(text, m + 1, m + l)
  <2>1. /\ t \in Seq(Int) /\ Len(t) = l
        /\ \A i \in 1 .. l : t[i] = text[m + i]
    BY <1>1, <1>2, <1>4
  <2> HIDE DEF t
  <2>2. \A i \in 1 .. l : t[i] = w[i] BY <2>1 DEF l
  <2>3. Len(t) = Len(w) /\ \A i \in 1 .. Len(t) : t[i] = w[i] BY <2>1, <2>2 DEF l
  <2>4. t = w BY <1>1, <2>1, <2>3, SeqEqual
  <2> QED BY <2>4 DEF t
<1> HIDE DEF shown
<1>8. QNumber(SubSeq(text, m + 1, m + l), b) = [found |-> TRUE, n |-> n] BY <1>7
<1> QED BY <1>5, <1>6, <1>8 DEF Reads, shown

LEMMA ReadsPadded ==
  ASSUME NEW w, Unspaced(w), NEW n, NEW b, QNumber(w, b) = [found |-> TRUE, n |-> n], NEW p \in Int
  PROVE  Reads(w \o <<Space>>, n, b) /\ Reads(Spaces(p) \o w, n, b)
<1>1. w \in Seq(Int) /\ Len(w) \in Nat /\ Space \in Int BY DEF Unspaced, Space
<1>2. Reads(w \o <<Space>>, n, b)
  <2> DEFINE text == w \o <<Space>>
  <2>1. /\ text \in Seq(Int) /\ Len(text) = Len(w) + 1
        /\ \A i \in 1 .. Len(w) : text[i] = w[i]
        /\ text[Len(w) + 1] = Space
    BY <1>1
  <2> HIDE DEF text
  <2>2. /\ Len(text) = 0 + Len(w) + 1
        /\ \A i \in 1 .. Len(w) : text[0 + i] = w[i]
        /\ \A i \in 1 .. 0 : text[i] = Space
        /\ \A i \in 0 + Len(w) + 1 .. Len(text) : text[i] = Space
    BY <1>1, <2>1
  <2>3. Reads(text, n, b) BY <2>1, <2>2, ReadsWord
  <2> QED BY <2>3 DEF text
<1>3. Reads(Spaces(p) \o w, n, b)
  <2> DEFINE m == IF p > 0 THEN p ELSE 0
             before == Spaces(p)
             text == before \o w
  <2>1. m \in Nat OBVIOUS
  <2>2. before \in Seq(Int) /\ Len(before) = m /\ \A i \in 1 .. m : before[i] = Space
    BY <1>1 DEF Spaces
  <2> HIDE DEF m, before
  <2>3. /\ text \in Seq(Int) /\ Len(text) = m + Len(w)
        /\ \A i \in 1 .. m : text[i] = before[i]
        /\ \A i \in 1 .. Len(w) : text[m + i] = w[i]
    <3>1. /\ text \in Seq(Int) /\ Len(text) = Len(before) + Len(w)
          /\ \A i \in 1 .. Len(before) + Len(w) :
                text[i] = IF i <= Len(before) THEN before[i] ELSE w[i - Len(before)]
      BY <1>1, <2>2, ConcatProperties
    <3>2. Len(w) \in Nat BY <1>1
    <3> HIDE DEF text
    <3>3. \A i \in 1 .. m : text[i] = before[i] BY <2>1, <2>2, <3>1, <3>2
    <3>4. ASSUME NEW i \in 1 .. Len(w) PROVE text[m + i] = w[i]
      <4>1. m + i \in 1 .. m + Len(w) /\ ~ (m + i <= m) /\ (m + i) - m = i BY <2>1, <3>2
      <4> QED BY <2>2, <3>1, <4>1
    <3> QED BY <2>2, <3>1, <3>3, <3>4
  <2> HIDE DEF text
  <2>4. /\ Len(text) = m + Len(w) + 0
        /\ \A i \in 1 .. m : text[i] = Space
        /\ \A i \in m + Len(w) + 1 .. Len(text) : text[i] = Space
    BY <1>1, <2>1, <2>2, <2>3
  <2>5. Reads(text, n, b) BY <2>1, <2>3, <2>4, ReadsWord
  <2> QED BY <2>5 DEF text, before
<1> QED BY <1>2, <1>3

LEMMA ShownWord ==
  ASSUME NEW b \in 2 .. 36, NEW u \in Int, NEW s, Shows(s, u, b)
  PROVE  Unspaced(s) /\ Unspaced(<<Minus>> \o s)
<1>1. s \in Seq(Int) /\ Len(s) > 0 /\ \A i \in 1 .. Len(s) : IsDigit(s[i], b) BY DEF Shows
<1>2. \A i \in 1 .. Len(s) : s[i] # Space BY <1>1, DigitIs DEF IsDigit
<1> DEFINE w == <<Minus>> \o s
<1>3. Minus \in Int /\ Minus # Space BY DEF Minus, Space
<1>4. w \in Seq(Int) /\ Len(w) = Len(s) + 1 /\ w[1] = Minus /\ \A i \in 2 .. Len(w) : w[i] = s[i - 1]
  BY <1>1, <1>3
<1> HIDE DEF w
<1>5. \A i \in 1 .. Len(w) : i = 1 \/ (i \in 2 .. Len(w) /\ i - 1 \in 1 .. Len(s)) BY <1>1, <1>4
<1>6. \A i \in 1 .. Len(w) : w[i] # Space BY <1>2, <1>3, <1>4, <1>5
<1>7. Unspaced(w) BY <1>1, <1>4, <1>6 DEF Unspaced
<1> QED BY <1>1, <1>2, <1>7 DEF Unspaced, w

\* Whatever the base that a number is printed and read in.
LEMMA PrintedIsRead == \A b \in Nat : ReadBack(b)
<1> SUFFICES ASSUME NEW b \in 2 .. 36, NEW n \in Cells
             PROVE  /\ Reads(Dot(n, b), n, b) /\ Reads(DotR(n, 3, b), n, b)
                    /\ Reads(UDot(n, b), n, b) /\ Reads(UDotR(n, 3, b), n, b)
  BY DEF ReadBack
<1>1. n \in Int BY CellValues DEF Cells
<1>2. Unsigned(n) \in Int /\ Signed(Unsigned(n)) = n BY <1>1, CellValues, SignedCell
<1>3. ASSUME NEW w, Unspaced(w), QNumber(w, b) = [found |-> TRUE, n |-> n]
      PROVE  Reads(w \o <<Space>>, n, b) /\ Reads(Spaces(3 - Len(w)) \o w, n, b)
  <2>1. 3 - Len(w) \in Int BY <1>3 DEF Unspaced
  <2> QED BY <1>3, <2>1, ReadsPadded
<1>4. Reads(UDot(n, b), n, b) /\ Reads(UDotR(n, 3, b), n, b)
  <2> DEFINE s == Sharps(n, b)
  <2>1. Shows(s, Unsigned(n), b) BY <1>1, SharpsShow
  <2> HIDE DEF s
  <2>2. Unspaced(s) BY <1>2, <2>1, ShownWord
  <2>3. QNumber(s, b) = [found |-> TRUE, n |-> n] BY <1>2, <2>1, QNumberShown
  <2>4. Reads(s \o <<Space>>, n, b) /\ Reads(Spaces(3 - Len(s)) \o s, n, b) BY <1>3, <2>2, <2>3
  <2> QED BY <2>4 DEF UDot, UDotR, s
<1>5. Reads(Dot(n, b), n, b) /\ Reads(DotR(n, 3, b), n, b)
  <2> DEFINE s == Sharps(Abs(n), b)
             w == WithSign(n, s)
  <2>1. Unspaced(w) /\ QNumber(w, b) = [found |-> TRUE, n |-> n]
    <3>1. CASE n < 0
      <4>1. Abs(n) = Negate(n) /\ Negate(n) \in Int
        <5>1. - n \in Int BY <1>1
        <5>2. Signed(- n) \in Int BY <5>1, CellValues
        <5> QED BY <3>1, <5>2 DEF Abs, Negate
      <4>2. Unsigned(Negate(n)) = - n /\ Negate(Signed(- n)) = n BY <3>1, SignedCell
      <4>3. Shows(s, - n, b)
        <5>1. Shows(Sharps(Negate(n), b), Unsigned(Negate(n)), b) BY <4>1, SharpsShow
        <5> QED BY <4>1, <4>2, <5>1
      <4>4. w = <<Minus>> \o s BY <3>1 DEF WithSign
      <4> HIDE DEF s, w
      <4>5. - n \in Int BY <1>1
      <4>6. Unspaced(<<Minus>> \o s) BY <4>3, <4>5, ShownWord
      <4>7. QNumber(<<Minus>> \o s, b) = [found |-> TRUE, n |-> Negate(Signed(- n))]
        BY <4>3, <4>5, QNumberShown
      <4> QED BY <4>2, <4>4, <4>6, <4>7
    <3>2. CASE ~ (n < 0)
      <4>1. Abs(n) = n /\ n >= 0 BY <1>1, <3>2 DEF Abs
      <4>2. Unsigned(n) = n /\ Signed(n) = n BY <4>1, SignedCell
      <4>3. Shows(s, n, b)
        <5>1. Shows(Sharps(n, b), Unsigned(n), b) BY <1>1, SharpsShow
        <5> QED BY <4>1, <4>2, <5>1
      <4>4. w = s BY <3>2 DEF WithSign
      <4> HIDE DEF s, w
      <4>5. Unspaced(s) BY <1>1, <4>3, ShownWord
      <4>6. QNumber(s, b) = [found |-> TRUE, n |-> Signed(n)] BY <1>1, <4>3, QNumberShown
      <4> QED BY <4>2, <4>4, <4>5, <4>6
    <3> QED BY <3>1, <3>2
  <2> HIDE DEF w
  <2>2. Reads(w \o <<Space>>, n, b) /\ Reads(Spaces(3 - Len(w)) \o w, n, b) BY <1>3, <2>1
  <2> QED BY <2>2 DEF Dot, DotR, w
<1> QED BY <1>4, <1>5

\* What is printed in the base of the moment is read as the same cell, for cells of
\* any width and all 35 bases whose digits ?number knows (kernel.c, dosharp,
\* doconvert, doqnumber); the smallest cell, which has no opposite, included.
THEOREM PrintedNumbersRead == Spec => []NumbersReadBack
<1>1. TypeOK => NumbersReadBack BY PrintedIsRead DEF TypeOK, NumbersReadBack
<1> QED BY <1>1, TypeCorrect, PTL

----------------------------------------------------------------------------
(***************************************************************************)
(* The texts of a stack of files, one after the other.                     *)
(***************************************************************************)
FlatOf(s, n, T) == {f \in [1 .. n -> Seq(T)] :
                      \A i \in 1 .. n : f[i] = IF i = 1 THEN s[1] ELSE f[i - 1] \o s[i]}

\* The flattening of a sequence of sequences has values,
LEMMA FlatExists ==
  ASSUME NEW T, NEW s \in Seq(Seq(T)), s # <<>>
  PROVE  \E f \in FlatOf(s, Len(s), T) : FlattenSeq(s) = f[Len(s)]
<1> DEFINE n == Len(s)
           g == [i \in 1 .. n |-> [q \in Seq(T) |-> q \o s[i]]]
           Is(f) == f = [i \in 1 .. n |-> IF i = 1 THEN s[i] ELSE f[i - 1] \o s[i]]
           flatten == CHOOSE f : Is(f)
<1>1. n \in Nat /\ n > 0 /\ \A i \in 1 .. n : s[i] \in Seq(T) OBVIOUS
<1>2. g \in Bodies(Seq(T), n)
  <2>1. \A i \in 1 .. n : \A q \in Seq(T) : q \o s[i] \in Seq(T)
    BY <1>1
  <2> HIDE DEF n
  <2> QED BY <2>1 DEF Bodies
<1>3. \A i \in 1 .. n : \A q \in Seq(T) : g[i][q] = q \o s[i] OBVIOUS
<1>4. << >> \in Seq(T) OBVIOUS
<1> HIDE DEF g, n
<1>5. PICK h \in [0 .. n -> Seq(T)] :
        h[0] = << >> /\ \A i \in 1 .. n : h[i] = g[i][h[i - 1]]
  <2>1. RunsOf(Seq(T), << >>, g, n) # {} BY <1>1, <1>2, <1>4, LoopRuns
  <2> QED BY <2>1 DEF RunsOf
<1>6. \A i \in 1 .. n : h[i - 1] \in Seq(T) /\ h[i] = h[i - 1] \o s[i]
  <2> TAKE i \in 1 .. n
  <2>1. h[i - 1] \in Seq(T) BY <1>1, <1>5
  <2>2. h[i] = g[i][h[i - 1]] BY <1>5
  <2> QED BY <1>3, <2>1, <2>2
<1>7. h[1] = s[1]
  <2>1. 1 \in 1 .. n /\ 1 - 1 = 0 BY <1>1
  <2>2. h[1] = << >> \o s[1] /\ s[1] \in Seq(T) BY <1>1, <1>5, <1>6, <2>1
  <2> QED BY <2>2
<1> DEFINE f == [i \in 1 .. n |-> h[i]]
<1>8. f \in [1 .. n -> Seq(T)] BY <1>1, <1>5
<1>9. \A i \in 1 .. n : f[i] = IF i = 1 THEN s[i] ELSE f[i - 1] \o s[i]
  <2> TAKE i \in 1 .. n
  <2>1. CASE i = 1 BY <1>7, <2>1
  <2>2. CASE i # 1
    <3>1. i - 1 \in 1 .. n BY <1>1, <2>2
    <3> QED BY <1>6, <2>2, <3>1
  <2> QED BY <2>1, <2>2
<1> HIDE DEF f
<1>10. Is(f) BY <1>8, <1>9
<1>11. Is(flatten)
  <2> HIDE DEF Is
  <2> QED BY <1>10, Zenon
<1> HIDE DEF flatten
<1>12. \A i \in 1 .. n : flatten[i] = IF i = 1 THEN s[i] ELSE flatten[i - 1] \o s[i]
  BY <1>11
<1>13. \A i \in 0 .. n : i = 0 \/ flatten[i] = f[i]
  <2> DEFINE U == {i \in Nat : i = 0 \/ flatten[i] = f[i]}
  <2>1. ASSUME NEW m \in 0 .. n, \A k \in 0 .. m - 1 : k \in U PROVE m \in U
    <3>1. CASE m = 0 BY <3>1
    <3>2. CASE m = 1 BY <1>1, <1>9, <1>12, <3>2
    <3>3. CASE m > 1
      <4>1. m \in 1 .. n /\ m - 1 \in U /\ m - 1 # 0 BY <1>1, <2>1, <3>3
      <4>2. flatten[m - 1] = f[m - 1] BY <4>1
      <4>3. flatten[m] = f[m] BY <1>9, <1>12, <3>3, <4>1, <4>2
      <4> QED BY <4>1, <4>3
    <3> QED BY <1>1, <3>1, <3>2, <3>3
  <2> HIDE DEF U
  <2>2. 0 .. n \subseteq U BY <1>1, <2>1, UpTo
  <2> QED BY <2>2 DEF U
<1>14. FlattenSeq(s) = flatten[n]
  <2>1. Len(s) # 0 BY <1>1 DEF n
  <2> QED BY <2>1, Zenon DEF FlattenSeq, flatten, n
<1>15. FlattenSeq(s) = f[n] BY <1>1, <1>13, <1>14
<1>16. f \in FlatOf(s, n, T) BY <1>8, <1>9 DEF FlatOf
<1> QED BY <1>15, <1>16 DEF n

\* it is a sequence,
LEMMA FlatType ==
  ASSUME NEW T, NEW s \in Seq(Seq(T))
  PROVE  FlattenSeq(s) \in Seq(T)
<1>1. CASE s = << >>
  <2>1. FlattenSeq(s) = << >> BY <1>1 DEF FlattenSeq
  <2> QED BY <2>1
<1>2. CASE s # << >>
  <2>1. PICK f \in FlatOf(s, Len(s), T) : FlattenSeq(s) = f[Len(s)] BY <1>2, FlatExists
  <2>2. Len(s) \in 1 .. Len(s) BY <1>2
  <2> QED BY <2>1, <2>2 DEF FlatOf
<1> QED BY <1>1, <1>2

\* which ends in the last of them,
LEMMA FlatLast ==
  ASSUME NEW T, NEW s \in Seq(Seq(T)), s # << >>
  PROVE  \E u \in Seq(T) : FlattenSeq(s) = u \o s[Len(s)]
<1> DEFINE n == Len(s)
<1>1. PICK f \in FlatOf(s, n, T) : FlattenSeq(s) = f[n] BY FlatExists
<1>2. n \in 1 .. n /\ s[n] \in Seq(T) OBVIOUS
<1> HIDE DEF n
<1>3. f \in [1 .. n -> Seq(T)] /\ f[n] = IF n = 1 THEN s[1] ELSE f[n - 1] \o s[n]
  BY <1>2 DEF FlatOf
<1>4. CASE n = 1
  <2>1. f[n] = << >> \o s[n] BY <1>2, <1>3, <1>4
  <2>2. << >> \in Seq(T) OBVIOUS
  <2> QED BY <1>1, <2>1, <2>2 DEF n
<1>5. CASE n # 1
  <2>1. n - 1 \in 1 .. n BY <1>2, <1>5
  <2>2. f[n - 1] \in Seq(T) BY <1>3, <2>1
  <2> QED BY <1>1, <1>3, <1>5, <2>2 DEF n
<1> QED BY <1>4, <1>5

\* and a sequence put in front of them is put in front of it.
LEMMA FlatFirst ==
  ASSUME NEW T, NEW x \in Seq(T), NEW s \in Seq(Seq(T))
  PROVE  FlattenSeq(<<x>> \o s) = x \o FlattenSeq(s)
<1> DEFINE r == <<x>> \o s
           n == Len(s)
<1>1. /\ r \in Seq(Seq(T)) /\ Len(r) = n + 1 /\ n \in Nat /\ r # << >> /\ r[1] = x
      /\ \A i \in 1 .. n : r[i + 1] = s[i] /\ s[i] \in Seq(T)
  OBVIOUS
<1> HIDE DEF r
<1>2. PICK g \in FlatOf(r, n + 1, T) : FlattenSeq(r) = g[n + 1] BY <1>1, FlatExists
<1>3. CASE s = << >>
  <2>1. n = 0 BY <1>3
  <2>2. FlattenSeq(s) = << >> BY <1>3 DEF FlattenSeq
  <2>3. FlattenSeq(r) = x BY <1>1, <1>2, <2>1 DEF FlatOf
  <2>4. x = x \o << >> OBVIOUS
  <2> QED BY <2>2, <2>3, <2>4 DEF r
<1>4. CASE s # << >>
  <2>1. PICK f \in FlatOf(s, n, T) : FlattenSeq(s) = f[n] BY <1>4, FlatExists
  <2>0. n > 0 BY <1>4
  <2> HIDE DEF n
  <2>2. /\ f \in [1 .. n -> Seq(T)]
        /\ \A i \in 1 .. n : f[i] = IF i = 1 THEN s[1] ELSE f[i - 1] \o s[i]
    BY <2>1 DEF FlatOf
  <2>3. \A i \in 1 .. n + 1 : g[i] = IF i = 1 THEN r[1] ELSE g[i - 1] \o r[i]
    BY <1>2 DEF FlatOf
  <2>a. \A y, z \in Seq(T) : (x \o y) \o z = x \o (y \o z) BY ConcatAssociative
  <2> DEFINE U == {i \in Nat : i = 0 \/ g[i + 1] = x \o f[i]}
  <2>4. ASSUME NEW m \in 0 .. n, \A k \in 0 .. m - 1 : k \in U PROVE m \in U
    <3>1. CASE m = 0 BY <3>1
    <3>2. CASE m = 1
      <4>1. /\ 2 \in 1 .. n + 1 /\ 1 \in 1 .. n + 1 /\ 1 \in 1 .. n
            /\ 2 # 1 /\ 2 - 1 = 1 /\ 1 + 1 = 2
        BY <1>1, <2>0
      <4>2. g[2] = g[2 - 1] \o r[2] /\ g[1] = r[1] BY <2>3, <4>1, Zenon
      <4>3. r[1 + 1] = s[1] /\ f[1] = s[1] BY <1>1, <2>2, <4>1
      <4>4. g[1 + 1] = x \o f[1] BY <1>1, <4>1, <4>2, <4>3, Zenon
      <4> QED BY <3>2, <4>4
    <3>3. CASE m > 1
      <4>1. m \in 1 .. n /\ m + 1 \in 1 .. n + 1 /\ m + 1 # 1 /\ (m + 1) - 1 = m
            /\ m - 1 \in 1 .. n /\ m - 1 \in 0 .. m - 1 /\ (m - 1) + 1 = m
        BY <1>1, <3>3
      <4>2. g[m + 1] = g[m] \o s[m] BY <1>1, <2>3, <4>1
      <4>3. m - 1 \in U BY <2>4, <4>1
      <4>4. g[m] = x \o f[m - 1] BY <4>1, <4>3
      <4>5. f[m] = f[m - 1] \o s[m]
        <5>1. m # 1 BY <3>3
        <5> QED BY <2>2, <4>1, <5>1, Zenon
      <4>6. f[m - 1] \in Seq(T) /\ s[m] \in Seq(T) BY <1>1, <2>2, <4>1
      <4>7. (x \o f[m - 1]) \o s[m] = x \o (f[m - 1] \o s[m]) BY <2>a, <4>6, Zenon
      <4>8. g[m + 1] = x \o f[m] BY <4>2, <4>4, <4>5, <4>7
      <4> QED BY <4>8
    <3>4. m = 0 \/ m = 1 \/ m > 1 BY <1>1
    <3> QED BY <3>1, <3>2, <3>3, <3>4, Zenon
  <2> HIDE DEF U
  <2>5. 0 .. n \subseteq U BY <1>1, <2>4, UpTo
  <2>6. n \in U BY <1>1, <2>5
  <2>7. g[n + 1] = x \o f[n] BY <2>0, <2>6 DEF U
  <2> QED BY <1>2, <2>1, <2>7 DEF r
<1> QED BY <1>3, <1>4
----------------------------------------------------------------------------
(***************************************************************************)
(* What is still to be read of a file, and of a stack of files.            *)
(***************************************************************************)
Chars(d) == UNION {Range(d[f]) : f \in DOMAIN d}
Files(d) == {r \in Open(d) : r.pos <= Len(d[r.file])}
Rest(d, r) == SubSeq(d[r.file], r.pos + 1, Len(d[r.file]))
Rests(d, st) == [i \in 1 .. Len(st) |-> Rest(d, st[Len(st) + 1 - i])]
Flow(d, st) == FlattenSeq(Rests(d, st))

\* The texts and what is left of them are sequences of characters.
LEMMA CharsOf == ASSUME NEW d \in Disks, NEW f \in DOMAIN d
                 PROVE  d[f] \in Seq(Chars(d)) /\ Len(d[f]) \in Nat
<1>1. d[f] \in Seq(Range(d[f])) BY InputAssumption
<1>2. Range(d[f]) \subseteq Chars(d) BY DEF Chars
<1> HIDE DEF Range, Chars
<1> QED BY <1>1, <1>2

LEMMA RestIs ==
  ASSUME NEW d \in Disks, NEW r \in Files(d)
  PROVE  /\ Rest(d, r) \in Seq(Chars(d)) /\ Len(Rest(d, r)) = Len(d[r.file]) - r.pos
         /\ \A i \in 1 .. Len(d[r.file]) - r.pos : Rest(d, r)[i] = d[r.file][r.pos + i]
<1> DEFINE t == d[r.file] p == r.pos
<1>1. t \in Seq(Chars(d)) /\ Len(t) \in Nat /\ p \in Nat /\ p <= Len(t)
  BY CharsOf DEF Files, Open
<1>2. Rest(d, r) = SubSeq(t, p + 1, Len(t)) BY DEF Rest
<1> HIDE DEF t, p
<1>3. /\ SubSeq(t, p + 1, Len(t)) \in Seq(Chars(d))
      /\ Len(SubSeq(t, p + 1, Len(t))) = Len(t) - p
      /\ \A i \in 1 .. Len(t) - p : SubSeq(t, p + 1, Len(t))[i] = t[p + i]
  BY <1>1
<1> QED BY <1>2, <1>3 DEF t, p

\* Of a file just opened, all is left.
LEMMA RestOpened == ASSUME NEW d \in Disks, NEW f \in DOMAIN d
                    PROVE  Opened(f) \in Files(d) /\ Rest(d, Opened(f)) = d[f]
<1>1. d[f] \in Seq(Chars(d)) /\ Len(d[f]) \in Nat BY CharsOf
<1>2. Opened(f).file = f /\ Opened(f).pos = 0 /\ Opened(f) \in Open(d) BY DEF Opened, Open
<1>3. SubSeq(d[f], 1, Len(d[f])) = d[f] BY <1>1
<1>4. Rest(d, Opened(f)) = SubSeq(d[f], 0 + 1, Len(d[f])) BY <1>2 DEF Rest
<1> QED BY <1>1, <1>2, <1>3, <1>4 DEF Files

\* A character is taken.
LEMMA RestNext ==
  ASSUME NEW d \in Disks, NEW r \in Files(d), NEW s, s.file = r.file, s.pos = r.pos + 1,
         r.pos < Len(d[r.file])
  PROVE  /\ Rest(d, r) # << >> /\ Head(Rest(d, r)) = d[r.file][r.pos + 1]
         /\ Tail(Rest(d, r)) = Rest(d, s)
<1> DEFINE t == d[r.file] p == r.pos
<1>1. t \in Seq(Chars(d)) /\ Len(t) \in Nat /\ p \in Nat /\ p < Len(t)
  BY CharsOf DEF Files, Open
<1>2. Rest(d, r) = SubSeq(t, p + 1, Len(t)) /\ Rest(d, s) = SubSeq(t, p + 1 + 1, Len(t))
  BY DEF Rest
<1> HIDE DEF t, p
<1>3. /\ SubSeq(t, p + 1, Len(t)) # << >> /\ Head(SubSeq(t, p + 1, Len(t))) = t[p + 1]
      /\ Tail(SubSeq(t, p + 1, Len(t))) = SubSeq(t, p + 1 + 1, Len(t))
  <2> DEFINE u == SubSeq(t, p + 1, Len(t)) v == SubSeq(t, p + 1 + 1, Len(t))
  <2>1. /\ u \in Seq(Chars(d)) /\ Len(u) = Len(t) - p
        /\ \A i \in 1 .. Len(t) - p : u[i] = t[p + i]
    BY <1>1
  <2>2. /\ v \in Seq(Chars(d)) /\ Len(v) = Len(t) - p - 1
        /\ \A i \in 1 .. Len(t) - p - 1 : v[i] = t[p + 1 + i]
    BY <1>1
  <2> HIDE DEF u, v
  <2>3. u # << >> /\ Head(u) = t[p + 1] BY <1>1, <2>1
  <2>4. Tail(u) = v
    <3>1. /\ Tail(u) \in Seq(Chars(d)) /\ Len(Tail(u)) = Len(t) - p - 1
          /\ \A i \in 1 .. Len(t) - p - 1 : Tail(u)[i] = u[i + 1]
      BY <1>1, <2>1
    <3>2. \A i \in 1 .. Len(t) - p - 1 : Tail(u)[i] = v[i]
      <4> TAKE i \in 1 .. Len(t) - p - 1
      <4>1. i + 1 \in 1 .. Len(t) - p /\ p + (i + 1) = p + 1 + i BY <1>1
      <4> QED BY <2>1, <2>2, <3>1, <4>1
    <3> DEFINE w == Tail(u) m == Len(t) - p - 1
    <3>3. w \in Seq(Chars(d)) /\ Len(w) = m BY <3>1
    <3>4. v \in Seq(Chars(d)) /\ Len(v) = m BY <2>2
    <3>5. \A i \in 1 .. m : w[i] = v[i] BY <3>2
    <3> HIDE DEF w, m
    <3>6. w = v BY <3>3, <3>4, <3>5
    <3> QED BY <3>6 DEF w
  <2> QED BY <2>3, <2>4 DEF u, v
<1> QED BY <1>2, <1>3 DEF t, p

\* What is left of a stack of files is a sequence of characters.
LEMMA RestsType ==
  ASSUME NEW d \in Disks, NEW st \in Seq(Files(d))
  PROVE  Rests(d, st) \in Seq(Seq(Chars(d))) /\ Len(Rests(d, st)) = Len(st)
<1>1. \A i \in 1 .. Len(st) : st[Len(st) + 1 - i] \in Files(d) OBVIOUS
<1>2. \A i \in 1 .. Len(st) : Rest(d, st[Len(st) + 1 - i]) \in Seq(Chars(d)) BY <1>1, RestIs
<1> QED BY <1>2 DEF Rests

LEMMA FlowType == ASSUME NEW d \in Disks, NEW st \in Seq(Files(d))
                  PROVE  Flow(d, st) \in Seq(Chars(d))
BY RestsType, FlatType DEF Flow

LEMMA FlowEmpty == ASSUME NEW d PROVE Flow(d, << >>) = << >>
<1>1. Rests(d, << >>) = << >> BY DEF Rests
<1> QED BY <1>1 DEF Flow, FlattenSeq

\* A file on top of the stack is read first;
LEMMA FlowPush ==
  ASSUME NEW d \in Disks, NEW st \in Seq(Files(d)), NEW r \in Files(d)
  PROVE  Flow(d, Append(st, r)) = Rest(d, r) \o Flow(d, st)
<1> DEFINE s == Append(st, r) n == Len(st)
<1>1. /\ s \in Seq(Files(d)) /\ Len(s) = n + 1 /\ n \in Nat /\ s[n + 1] = r
      /\ \A i \in 1 .. n : s[i] = st[i]
  OBVIOUS
<1>2. Rests(d, s) \in Seq(Seq(Chars(d))) /\ Len(Rests(d, s)) = n + 1
  BY <1>1, RestsType
<1>3. Rests(d, st) \in Seq(Seq(Chars(d))) /\ Len(Rests(d, st)) = n
  BY RestsType
<1>4. Rest(d, r) \in Seq(Chars(d)) BY RestIs
<1>5. \A i \in 1 .. n + 1 : Rests(d, s)[i] = Rest(d, s[n + 2 - i])
  BY <1>1 DEF Rests
<1>6. \A i \in 1 .. n : Rests(d, st)[i] = Rest(d, st[n + 1 - i])
  BY DEF Rests
<1> HIDE DEF s
<1> DEFINE q == <<Rest(d, r)>> \o Rests(d, st)
<1>7. /\ q \in Seq(Seq(Chars(d))) /\ Len(q) = n + 1 /\ q[1] = Rest(d, r)
      /\ \A i \in 2 .. n + 1 : q[i] = Rests(d, st)[i - 1]
  BY <1>1, <1>3, <1>4
<1> HIDE DEF q
<1>8. ASSUME NEW i \in 1 .. n + 1 PROVE Rests(d, s)[i] = q[i]
  <2>1. CASE i = 1
    <3>1. n + 2 - i = n + 1 BY <1>1, <2>1
    <3> QED BY <1>1, <1>5, <1>7, <2>1, <3>1
  <2>2. CASE i # 1
    <3>1. /\ i \in 2 .. n + 1 /\ i - 1 \in 1 .. n /\ n + 1 - (i - 1) = n + 2 - i
          /\ n + 2 - i \in 1 .. n
      BY <1>1, <2>2
    <3>2. Rests(d, s)[i] = Rest(d, st[n + 2 - i]) BY <1>1, <1>5, <3>1
    <3>3. Rests(d, st)[i - 1] = Rest(d, st[n + 1 - (i - 1)]) BY <1>6, <3>1
    <3> QED BY <1>7, <3>1, <3>2, <3>3
  <2> QED BY <2>1, <2>2
<1>9. Rests(d, s) = q
  <2> HIDE DEF n
  <2> QED BY <1>1, <1>2, <1>7, <1>8
<1>10. FlattenSeq(<<Rest(d, r)>> \o Rests(d, st)) = Rest(d, r) \o FlattenSeq(Rests(d, st))
  BY <1>3, <1>4, FlatFirst
<1> QED BY <1>9, <1>10, Zenon DEF Flow, s, q

LEMMA FlowTop ==
  ASSUME NEW d \in Disks, NEW st \in Seq(Files(d)), st # << >>
  PROVE  /\ Last(st) \in Files(d) /\ Front(st) \in Seq(Files(d))
         /\ Flow(d, st) = Rest(d, Last(st)) \o Flow(d, Front(st))
<1>1. Last(st) \in Files(d) /\ Front(st) \in Seq(Files(d)) BY DEF Last, Front
<1>2. Append(Front(st), Last(st)) = st BY DEF Last, Front
<1>3. Flow(d, Append(Front(st), Last(st))) = Rest(d, Last(st)) \o Flow(d, Front(st))
  BY <1>1, FlowPush
<1> QED BY <1>1, <1>2, <1>3

\* and the file at the bottom last.
LEMMA FlowBottom ==
  ASSUME NEW d \in Disks, NEW st \in Seq(Files(d)), st # << >>
  PROVE  \E u \in Seq(Chars(d)) : Flow(d, st) = u \o Rest(d, st[1])
<1> DEFINE s == Rests(d, st) n == Len(st)
<1>1. s \in Seq(Seq(Chars(d))) /\ Len(s) = n BY RestsType
<1>2. n \in Nat /\ n > 0 /\ n \in 1 .. n /\ n + 1 - n = 1 OBVIOUS
<1>3. s[n] = Rest(d, st[n + 1 - n]) BY <1>2 DEF Rests
<1>4. s[n] = Rest(d, st[1]) BY <1>2, <1>3
<1> HIDE DEF s
<1>5. s # << >> BY <1>1, <1>2
<1>6. \E u \in Seq(Chars(d)) : FlattenSeq(s) = u \o s[Len(s)] BY <1>1, <1>5, FlatLast
<1> QED BY <1>1, <1>4, <1>6 DEF Flow, s

\* The top file replaced by one with as much to read.
LEMMA FlowSame ==
  ASSUME NEW d \in Disks, NEW st \in Seq(Files(d)), st # << >>, NEW r \in Files(d),
         NEW su, su = [st EXCEPT ![Len(st)] = r]
  PROVE  Flow(d, su) = Rest(d, r) \o Flow(d, Front(st))
<1>1. su \in Seq(Files(d)) /\ su # << >> /\ Last(su) = r /\ Front(su) = Front(st)
  BY DEF Last, Front
<1>2. Flow(d, su) = Rest(d, Last(su)) \o Flow(d, Front(su)) BY <1>1, FlowTop
<1> QED BY <1>1, <1>2

----------------------------------------------------------------------------
(***************************************************************************)
(* What the interpreter is about to do with the text.                      *)
(***************************************************************************)
TextInv == /\ tib \in Seq(Chars(disk))
           /\ quited \/ pc \in {"top", "exit"}
           /\ pc \in {"skip", "scan", "act"} => want \in {"word"} \cup Names \cup Sections
           /\ pc = "line" => want \in {Newline, ")"}
           /\ pc = "skip" => tib = << >>
           /\ pc = "scan" => \A i \in DOMAIN tib : ~ IsSpace(tib[i])

\* The open files as a stack of files with something to read.
StackText == disk \in Disks /\ infstack \in Seq(Files(disk))

\* By the invariant of the stack.
LEMMA StackFiles == ASSUME StackInv PROVE StackText
<1>1. \A i \in DOMAIN infstack : infstack[i] \in Files(disk)
  <2> TAKE i \in DOMAIN infstack
  <2>1. FileInv(disk, infstack[i]) BY DEF StackInv
  <2> QED BY <2>1 DEF FileInv, Files, Open
<1>2. infstack \in Seq(Open(disk)) /\ disk \in Disks BY DEF StackInv
<1>3. infstack \in Seq(Files(disk))
  <2> HIDE DEF Files
  <2> QED BY <1>1, <1>2
<1> QED BY <1>2, <1>3 DEF StackText

Stream == Flow(disk, infstack)

\* What is left is a text.
LEMMA StreamType == ASSUME StackText PROVE Stream \in Seq(Chars(disk))
BY FlowType DEF StackText, Stream

LEMMA StreamEmpty == ASSUME infstack = << >> PROVE Stream = << >>
BY FlowEmpty DEF Stream

\* The text and the mode by the place of the program.
LEMMA TextIs ==
  ASSUME StackText
  PROVE  /\ pc = "exit" => Text = << >>
         /\ pc \in {"skip", "scan"} => Text = tib \o Stream
         /\ pc \notin {"skip", "scan", "exit"} => Text = Stream
<1>1. Text = IF pc = "exit" THEN << >> ELSE (IF pc \in {"skip", "scan"} THEN tib ELSE << >>) \o Stream
  BY Zenon DEF Text, Stream, Flow, Rests, Rest, Unread
<1>2. Stream \in Seq(Chars(disk)) BY StreamType
<1>3. << >> \o Stream = Stream BY <1>2
<1> QED BY <1>1, <1>3

\* The mode by the place of the program, and what is read for.
LEMMA ModeIs ==
  /\ pc = "exit" => Mode = "over"
  /\ pc \in {"main", "comment"} => Mode = pc
  /\ pc = "top" => Mode = IF quited THEN "words" ELSE "leaving"
  /\ pc = "line" => Mode = want
  /\ pc \in {"skip", "scan", "act"} =>
       /\ want = "word" => Mode = "words"
       /\ want \in Sections => Mode = want
       /\ want \in Names => Mode = IF Nameless THEN "nameless" ELSE "name"
<1>1. CASE pc = "exit" BY <1>1 DEF Mode
<1>2. CASE pc \in {"main", "comment"} BY <1>2 DEF Mode
<1>3. CASE pc = "top" BY <1>3 DEF Mode
<1>4. CASE pc = "line" BY <1>4 DEF Mode
<1>5. CASE pc \in {"skip", "scan", "act"} BY <1>5 DEF Mode, Sections, Names
<1> QED BY <1>1, <1>2, <1>3, <1>4, <1>5

\* The same facts after a step.
LEMMA StackFilesNext == ASSUME StackInv' PROVE StackText'
<1>1. \A i \in DOMAIN infstack' : infstack'[i] \in Files(disk')
  <2> TAKE i \in DOMAIN infstack'
  <2>1. FileInv(disk', infstack'[i]) BY DEF StackInv
  <2> QED BY <2>1 DEF FileInv, Files, Open
<1>2. infstack' \in Seq(Open(disk')) /\ disk' \in Disks BY DEF StackInv
<1>3. infstack' \in Seq(Files(disk'))
  <2> HIDE DEF Files
  <2> QED BY <1>1, <1>2
<1> QED BY <1>2, <1>3 DEF StackText

LEMMA StreamTypeNext == ASSUME StackText' PROVE Stream' \in Seq(Chars(disk'))
BY FlowType DEF StackText, Stream

LEMMA TextIsNext ==
  ASSUME StackText'
  PROVE  /\ pc' = "exit" => Text' = << >>
         /\ pc' \in {"skip", "scan"} => Text' = tib' \o Stream'
         /\ pc' \notin {"skip", "scan", "exit"} => Text' = Stream'
<1>1. Text' = IF pc' = "exit" THEN << >>
              ELSE (IF pc' \in {"skip", "scan"} THEN tib' ELSE << >>) \o Stream'
  BY Zenon DEF Text, Stream, Flow, Rests, Rest, Unread
<1>2. Stream' \in Seq(Chars(disk')) BY StreamTypeNext
<1>3. << >> \o Stream' = Stream' BY <1>2
<1> QED BY <1>1, <1>3

LEMMA ModeIsNext ==
  /\ pc' = "exit" => Mode' = "over"
  /\ pc' \in {"main", "comment"} => Mode' = pc'
  /\ pc' = "top" => Mode' = IF quited' THEN "words" ELSE "leaving"
  /\ pc' = "line" => Mode' = want'
  /\ pc' \in {"skip", "scan", "act"} =>
       /\ want' = "word" => Mode' = "words"
       /\ want' \in Sections => Mode' = want'
       /\ want' \in Names => Mode' = IF Nameless' THEN "nameless" ELSE "name"
<1>1. CASE pc' = "exit" BY <1>1 DEF Mode
<1>2. CASE pc' \in {"main", "comment"} BY <1>2 DEF Mode
<1>3. CASE pc' = "top" BY <1>3 DEF Mode
<1>4. CASE pc' = "line" BY <1>4 DEF Mode
<1>5. CASE pc' \in {"skip", "scan", "act"} BY <1>5 DEF Mode, Sections, Names
<1> QED BY <1>1, <1>2, <1>3, <1>4, <1>5
----------------------------------------------------------------------------
\* The first character of a text that has another one behind it.
LEMMA HeadOfBoth ==
  ASSUME NEW T, NEW x \in Seq(T), NEW y \in Seq(T), x # << >>
  PROVE  /\ x \o y # << >> /\ Head(x \o y) = Head(x) /\ Tail(x \o y) = Tail(x) \o y
<1>1. /\ x \o y \in Seq(T) /\ Len(x \o y) = Len(x) + Len(y) /\ Len(x) > 0
      /\ \A i \in 1 .. Len(x) + Len(y) : (x \o y)[i] = IF i <= Len(x) THEN x[i] ELSE y[i - Len(x)]
  BY ConcatProperties
<1>2. x \o y # << >> /\ Head(x \o y) = Head(x) BY <1>1
<1>3. Tail(x) \in Seq(T) /\ x = <<Head(x)>> \o Tail(x) /\ <<Head(x)>> \in Seq(T)
  OBVIOUS
<1> DEFINE h == <<Head(x)>> t == Tail(x)
<1>4. x \o y = h \o (t \o y) /\ t \o y \in Seq(T) /\ h[1] = Head(x)
  BY <1>3, ConcatAssociative
<1>5. Tail(h \o (t \o y)) = t \o y
  <2> DEFINE u == t \o y
  <2>1. u \in Seq(T) /\ Head(x) \in T BY <1>4
  <2> HIDE DEF u
  <2> QED BY <2>1
<1> QED BY <1>2, <1>4, <1>5

\* io_getchar takes the first character of the text.
LEMMA GetcharReads ==
  ASSUME StackInv, StackInv', Buffered, NEW counted, Getchar(counted), UNCHANGED disk
  PROVE  /\ Stream # << >> /\ Head(Stream) = Char /\ Tail(Stream) = Stream'
         /\ Char \in Chars(disk) /\ infstack # << >> /\ infstack' # << >>
<1> DEFINE r == [Top EXCEPT !.pos = @ + 1,
                            !.ln = @ + (IF counted /\ Char = Newline THEN 1 ELSE 0)]
           F == Flow(disk, Front(infstack))
<1>1. disk \in Disks /\ infstack \in Seq(Files(disk)) BY StackFiles DEF StackText
<1>2. disk' \in Disks /\ infstack' \in Seq(Files(disk')) BY StackFilesNext DEF StackText
<1>3. /\ infstack # << >> /\ Top \in Open(disk) /\ FileInv(disk, Top) /\ Top.pos < Top.end
      /\ Len(infstack) \in DOMAIN infstack
  BY TopFile DEF Buffered
<1>4. infstack' = [infstack EXCEPT ![Len(infstack)] = r] BY DEF Getchar
<1>5. r.file = Top.file /\ r.pos = Top.pos + 1 BY <1>3 DEF Open
<1>6. Top.pos < Len(disk[Top.file]) /\ Top \in Files(disk)
  <2>1. Top.end <= Len(disk[Top.file]) /\ Top.pos \in Nat /\ Top.end \in Nat /\ Top.pos <= Top.end
    BY <1>3 DEF FileInv, Open
  <2>2. Len(disk[Top.file]) \in Nat BY <1>1, <1>3, CharsOf DEF Open
  <2>3. Top.pos < Len(disk[Top.file]) /\ Top.pos <= Len(disk[Top.file]) BY <1>3, <2>1, <2>2
  <2> QED BY <1>3, <2>3 DEF Files
<1> HIDE DEF r
<1>7. r \in Files(disk)
  <2>1. infstack'[Len(infstack)] = r /\ Len(infstack) \in DOMAIN infstack'
    BY <1>1, <1>3, <1>4
  <2>2. \A i \in DOMAIN infstack' : infstack'[i] \in Files(disk') BY <1>2
  <2> QED BY <2>1, <2>2
<1>8. /\ Rest(disk, Top) # << >> /\ Head(Rest(disk, Top)) = disk[Top.file][Top.pos + 1]
      /\ Tail(Rest(disk, Top)) = Rest(disk, r)
  BY <1>1, <1>5, <1>6, RestNext
<1>9. Stream = Rest(disk, Top) \o F /\ F \in Seq(Chars(disk))
  <2>1. /\ Front(infstack) \in Seq(Files(disk))
        /\ Flow(disk, infstack) = Rest(disk, Last(infstack)) \o Flow(disk, Front(infstack))
    BY <1>1, <1>3, FlowTop
  <2>2. F \in Seq(Chars(disk)) BY <1>1, <2>1, FlowType
  <2> QED BY <2>1, <2>2 DEF Stream, Top
<1>10. Stream' = Rest(disk, r) \o F
  <2>1. Flow(disk, infstack') = Rest(disk, r) \o Flow(disk, Front(infstack))
    BY <1>1, <1>3, <1>4, <1>7, FlowSame
  <2> QED BY <2>1 DEF Stream
<1>11. Rest(disk, Top) \in Seq(Chars(disk)) BY <1>1, <1>6, RestIs
<1> HIDE DEF F
<1>12. /\ Rest(disk, Top) \o F # << >> /\ Head(Rest(disk, Top) \o F) = Head(Rest(disk, Top))
       /\ Tail(Rest(disk, Top) \o F) = Tail(Rest(disk, Top)) \o F
  BY <1>8, <1>9, <1>11, HeadOfBoth
<1>13. Head(Rest(disk, Top)) \in Chars(disk) BY <1>8, <1>11
<1>14. infstack' # << >> BY <1>1, <1>3, <1>4
<1>15. Head(Rest(disk, Top)) = Char BY <1>8 DEF Char
<1>16. Stream # << >> /\ Head(Stream) = Char /\ Char \in Chars(disk)
  BY <1>9, <1>12, <1>13, <1>15, Zenon
<1>17. Tail(Stream) = Stream' BY <1>8, <1>9, <1>10, <1>12, Zenon
<1> QED BY <1>3, <1>14, <1>16, <1>17

\* A file at the bottom alone.
LEMMA FlowOne ==
  ASSUME NEW d \in Disks, NEW r \in Files(d) PROVE Flow(d, <<r>>) = Rest(d, r)
<1>1. << >> \in Seq(Files(d)) OBVIOUS
<1>2. Append(<< >>, r) = <<r>> OBVIOUS
<1>3. Flow(d, Append(<< >>, r)) = Rest(d, r) \o Flow(d, << >>)
  BY <1>1, FlowPush
<1>4. Rest(d, r) \in Seq(Chars(d)) /\ Flow(d, << >>) = << >> BY RestIs, FlowEmpty
<1>5. Rest(d, r) \o << >> = Rest(d, r) BY <1>4
<1> QED BY <1>2, <1>3, <1>4, <1>5

\* The end of the buffer skipped, and what was in it is left out.
LEMMA RestSkip ==
  ASSUME NEW d \in Disks, NEW r \in Files(d), NEW s \in Files(d), s.file = r.file,
         r.pos <= s.pos
  PROVE  \E u \in Seq(Chars(d)) : Rest(d, r) = u \o Rest(d, s)
<1> DEFINE t == d[r.file] p == r.pos e == s.pos n == Len(t)
<1>1. t \in Seq(Chars(d)) /\ n \in Nat /\ p \in Nat /\ e \in Nat /\ p <= e /\ e <= n
  BY CharsOf DEF Files, Open
<1>2. Rest(d, r) = SubSeq(t, p + 1, n) /\ Rest(d, s) = SubSeq(t, e + 1, n)
  BY DEF Rest
<1> HIDE DEF t, p, e, n
<1>3. SubSeq(t, p + 1, e) \in Seq(Chars(d)) BY <1>1 DEF n
<1>4. SubSeq(t, p + 1, e) \o SubSeq(t, e + 1, n) = SubSeq(t, p + 1, n)
  <2>1. p + 1 \in 1 .. Len(t) + 1 /\ e \in (p + 1) - 1 .. Len(t) /\ Len(t) \in e .. Len(t)
    BY <1>1 DEF n
  <2>2. SubSeq(t, p + 1, e) \o SubSeq(t, e + 1, Len(t)) = SubSeq(t, p + 1, Len(t))
    BY <1>1, <2>1, ConcatAdjacentSubSeq
  <2> QED BY <2>2 DEF n
<1> QED BY <1>2, <1>3, <1>4

\* io_flush leaves an end of the text.
Cuts == \E u, s \in Seq(Chars(disk)) : Stream = u \o s /\ Stream' = s

\* Nothing, all, or all but the file at the bottom is left out.
LEMMA CutsNone == ASSUME StackText, UNCHANGED <<disk, infstack>> PROVE Cuts
<1>1. Stream \in Seq(Chars(disk)) BY StreamType
<1>2. Stream' = Stream BY DEF Stream
<1>3. << >> \in Seq(Chars(disk)) /\ Stream = << >> \o Stream BY <1>1
<1> QED BY <1>1, <1>2, <1>3 DEF Cuts

LEMMA CutsAll == ASSUME StackText, infstack' = << >> PROVE Cuts
<1>1. Stream \in Seq(Chars(disk)) BY StreamType
<1>2. Stream' = << >> BY FlowEmpty DEF Stream
<1>3. << >> \in Seq(Chars(disk)) /\ Stream = Stream \o << >> BY <1>1
<1> QED BY <1>1, <1>2, <1>3 DEF Cuts

LEMMA CutsBottom ==
  ASSUME StackText, UNCHANGED disk, infstack # << >>, NEW r \in Files(disk),
         r.file = infstack[1].file, infstack[1].pos <= r.pos, infstack' = <<r>>
  PROVE  Cuts
<1>1. infstack[1] \in Files(disk) BY DEF StackText
<1>2. PICK u \in Seq(Chars(disk)) : Stream = u \o Rest(disk, infstack[1])
  BY FlowBottom DEF StackText, Stream
<1>3. PICK v \in Seq(Chars(disk)) : Rest(disk, infstack[1]) = v \o Rest(disk, r)
  BY <1>1, RestSkip DEF StackText
<1>4. Rest(disk, r) \in Seq(Chars(disk)) /\ Stream' = Rest(disk, r)
  BY RestIs, FlowOne DEF StackText, Stream
<1> DEFINE s == Rest(disk, r)
<1>5. s \in Seq(Chars(disk)) BY <1>4
<1> HIDE DEF s
<1>6. u \o (v \o s) = (u \o v) \o s /\ u \o v \in Seq(Chars(disk))
  <2>1. (u \o v) \o s = u \o (v \o s) BY <1>5, ConcatAssociative
  <2>2. u \o v \in Seq(Chars(disk)) BY ConcatProperties
  <2> QED BY <2>1, <2>2
<1>7. Stream = (u \o v) \o s /\ Stream' = s BY <1>2, <1>3, <1>4, <1>6 DEF s
<1> QED BY <1>5, <1>6, <1>7 DEF Cuts

\* io_flush, and io_flush in the middle of io_fillbuf
LEMMA FlushCuts == ASSUME StackText, UNCHANGED disk, IoFlush PROVE Cuts
<1>1. CASE infstack' = infstack BY <1>1, CutsNone
<1>2. CASE infstack' = << >> BY <1>2, CutsAll
<1>3. CASE infstack # << >> /\ infstack' = <<infstack[1]>>
  <2>1. infstack[1] \in Files(disk) BY <1>3 DEF StackText
  <2>2. infstack[1].pos <= infstack[1].pos BY <2>1 DEF Files, Open
  <2> QED BY <1>3, <2>1, <2>2, CutsBottom
<1> QED BY <1>1, <1>2, <1>3 DEF IoFlush

LEMMA FlushFillingCuts == ASSUME StackInv, UNCHANGED disk, IoFlushFilling PROVE Cuts
<1>0. StackText BY StackFiles
<1>1. CASE IoFlush BY <1>0, <1>1, FlushCuts
<1>2. CASE infstack' = << >> BY <1>0, <1>2, CutsAll
<1>3. CASE /\ ~ (Len(infstack) <= 1)
           /\ infstack' = <<[infstack[1] EXCEPT !.pos = infstack[1].end]>>
  <2> DEFINE b == infstack[1]
             r == [b EXCEPT !.pos = b.end]
  <2>1. infstack # << >> /\ 1 \in DOMAIN infstack BY <1>3 DEF StackInv
  <2>2. b \in Open(disk) /\ FileInv(disk, b) BY <2>1 DEF StackInv, FileInv
  <2>3. r \in Open(disk) /\ r.file = b.file /\ r.pos = b.end BY <2>2 DEF Open
  <2>4. b.pos <= b.end /\ b.end <= Len(disk[b.file]) BY <2>2 DEF FileInv
  <2>5. infstack' = <<r>> BY <1>3
  <2> HIDE DEF r
  <2>6. r \in Files(disk) BY <2>3, <2>4 DEF Files
  <2>7. r.file = infstack[1].file /\ infstack[1].pos <= r.pos BY <2>3, <2>4
  <2> QED BY <1>0, <2>1, <2>5, <2>6, <2>7, CutsBottom
<1> QED BY <1>1, <1>2, <1>3 DEF IoFlushFilling
----------------------------------------------------------------------------
(***************************************************************************)
(* The steps of SourceText.                                                *)
(***************************************************************************)
Follows == Source!Next \/ UNCHANGED Source!textVars

\* The abstract steps, from what they are made of.
LEMMA Stutters == ASSUME UNCHANGED <<disk, Text, Word, Mode, nest, Loaded, aborts>> PROVE Follows
BY DEF Follows, Source!textVars

\* An abort: what was read of a word, h, stays.
LEMMA Abandons ==
  ASSUME NEW h \in Seq(Chars(disk)), \A i \in DOMAIN h : ~ IsSpace(h[i]),
         NEW u \in Seq(Chars(disk)), NEW s \in Seq(Chars(disk)),
         Text = h \o (u \o s), Text' = h \o s,
         aborts' = aborts + 1, Word' = << >>,
         \/ Mode' \in {Mode, "over"}
         \/ Mode \in Source!Naming /\ Mode' \in Source!Naming \cup {"words"},
         UNCHANGED <<disk, nest, Loaded>>
  PROVE  Follows
<1> DEFINE n == Len(h) m == Len(h) + Len(u) t == h \o (u \o s)
<1>1. n \in Nat /\ m \in Nat /\ Len(t) = m + Len(s) /\ Len(s) \in Nat /\ n <= m
      /\ t \in Seq(Chars(disk))
  <2>1. u \o s \in Seq(Chars(disk)) /\ Len(u \o s) = Len(u) + Len(s) BY ConcatProperties
  <2> DEFINE v == u \o s
  <2>2. v \in Seq(Chars(disk)) BY <2>1
  <2> HIDE DEF v
  <2>3. h \o v \in Seq(Chars(disk)) /\ Len(h \o v) = Len(h) + Len(v) BY <2>2, ConcatProperties
  <2>4. Len(h) \in Nat /\ Len(u) \in Nat /\ Len(s) \in Nat OBVIOUS
  <2> QED BY <2>1, <2>3, <2>4 DEF v
<1>2. SubSeq(t, 1, n) = h /\ \A i \in 1 .. n : t[i] = h[i]
  <2> DEFINE v == u \o s
  <2>1. v \in Seq(Chars(disk)) BY ConcatProperties
  <2> HIDE DEF v
  <2>2. \A i \in 1 .. Len(h) : (h \o v)[i] = h[i] BY <2>1
  <2>3. SubSeq(h \o v, 1, Len(h)) = h BY <2>1
  <2> QED BY <2>2, <2>3 DEF v
<1>3. SubSeq(t, m + 1, Len(t)) = s
  <2> DEFINE k == h \o u
  <2>1. k \in Seq(Chars(disk)) /\ Len(k) = m BY ConcatProperties
  <2>2. t = k \o s
    <3> HIDE DEF k, m, t
    <3>1. (h \o u) \o s = h \o (u \o s) BY ConcatAssociative
    <3> QED BY <3>1 DEF k, t
  <2> HIDE DEF k, m, t
  <2>3. SubSeq(k \o s, Len(k) + 1, Len(k \o s)) = s BY <2>1
  <2> QED BY <2>1, <2>2, <2>3
<1> HIDE DEF n, m, t
<1>4. n \in 0 .. Len(t) /\ m \in 0 .. Len(t) BY <1>1
<1>5. \A i \in 1 .. n : ~ IsSpace(t[i])
  <2>1. DOMAIN h = 1 .. n BY DEF n
  <2> QED BY <1>2, <2>1
<1>6. Text = t BY DEF t
<1>7. Text' = SubSeq(Text, 1, n) \o SubSeq(Text, m + 1, Len(Text))
  BY <1>2, <1>3, <1>6
<1>8. Source!Abandon
  <2>1. /\ \A i \in 1 .. n : ~ IsSpace(Text[i])
        /\ Text' = SubSeq(Text, 1, n) \o Source!Without(m)
        /\ n \in 0 .. Len(Text) /\ m \in 0 .. Len(Text)
    BY <1>4, <1>5, <1>6, <1>7 DEF Source!Without
  <2> QED BY <2>1, Zenon DEF Source!Abandon
<1> QED BY <1>8 DEF Follows, Source!Next

----------------------------------------------------------------------------
(***************************************************************************)
(* TextInv is kept.                                                        *)
(***************************************************************************)
LEMMA DiskKept == ASSUME [Next]_vars PROVE disk' = disk
<1>1. CASE MainLoad \/ MainInteract \/ MainEnd BY <1>1 DEF MainLoad, MainInteract, MainEnd
<1>2. CASE Leave \/ NextWord BY <1>2 DEF Leave, NextWord, inputVars, Abort
<1>3. CASE Skip \/ Scan \/ Comment \/ Line \/ EndOfInput
  BY <1>3 DEF Skip, Scan, Comment, Line, EndOfInput, ReadVars, inputVars
<1>4. CASE FillBuffer
  BY <1>4 DEF FillBuffer, Fill, FillEnter, FillData, FillEof, FillNone
<1>5. CASE Act
  BY <1>5 DEF Act, Thread, Command, CommentWord, NameWord, Conditional, AbortWord, Executed,
         Cast, CastStray, Literal, Unknown, SharpInclude, SharpPath, Tick, IfDefined, Skipped,
         UNCHANGED_ACT, Abort, inputVars
<1>6. CASE Interrupt \/ Input \/ Done \/ UNCHANGED vars
  BY <1>6 DEF Interrupt, Input, Arrive, Done, vars, inputVars
<1> QED BY <1>1, <1>2, <1>3, <1>4, <1>5, <1>6 DEF Next, Step

\* Where the program does not read on, or begins a word.
LEMMA NotReading ==
  ASSUME TextInv, UNCHANGED disk,
         \/ UNCHANGED tib /\ pc' \in {"main", "top", "exit", "comment"}
         \/ UNCHANGED tib /\ pc' = "line" /\ want' \in {Newline, ")"}
         \/ tib' = << >> /\ pc' = "skip" /\ want' \in {"word"} \cup Names \cup Sections,
         quited' \/ pc' \in {"top", "exit"}
  PROVE  TextInv'
<1>1. tib' \in Seq(Chars(disk'))
  <2>1. tib \in Seq(Chars(disk)) BY DEF TextInv
  <2>2. << >> \in Seq(Chars(disk)) OBVIOUS
  <2> QED BY <2>1, <2>2
<1> QED BY <1>1 DEF TextInv

\* A word that is acted on,
LEMMA ActText == ASSUME IInv, TextInv, Act, UNCHANGED disk PROVE TextInv'
<1> DEFINE word == Dictionary[voc][tib]
<1>0. pc = "act" /\ quited /\ want \in {"word"} \cup Names \cup Sections
  <2>1. pc = "act"
    BY DEF Act, Acting, Thread, Command, CommentWord, NameWord, Conditional, AbortWord, Executed,
           Cast, CastStray, Literal, Unknown, SharpInclude, SharpPath, Tick, IfDefined, Skipped
  <2> QED BY <2>1 DEF TextInv
<1>1. CASE Found /\ (Thread(word) \/ Command(word))
  <2>1. UNCHANGED tib /\ pc' = "top" BY <1>1 DEF Thread, Command
  <2> QED BY <2>1, NotReading
<1>2. CASE Found /\ CommentWord(word)
  <2>1. word.does = "until" => word.delimiter \in {Newline, ")"}
    <3>1. voc \in DOMAIN Dictionary /\ tib \in DOMAIN Dictionary[voc]
      BY <1>2 DEF Found, IInv, ProgTypes
    <3> QED BY <3>1, WordTypes
  <2> HIDE DEF word
  <2>2. UNCHANGED <<tib, quited>> BY <1>2 DEF CommentWord
  <2>3. pc' = "comment" \/ (word.does = "until" /\ pc' = "line" /\ want' = word.delimiter)
    BY <1>2 DEF CommentWord
  <2> QED BY <1>0, <2>1, <2>2, <2>3, NotReading
<1>3. CASE Found /\ NameWord(word)
  <2>1. tib' = << >> /\ pc' = "skip" /\ want' \in Names /\ UNCHANGED quited
    BY <1>3 DEF NameWord, DoWord, KeepRegisters
  <2> QED BY <1>0, <2>1, NotReading
<1>4. CASE Found /\ Conditional(word)
  <2>1. UNCHANGED quited BY <1>4 DEF Conditional
  <2>2. \/ tib' = << >> /\ pc' = "skip" /\ want' \in Sections
        \/ UNCHANGED tib /\ pc' = "top"
    BY <1>4 DEF Conditional, SkipSection, DoWord, Sections
  <2> QED BY <1>0, <2>1, <2>2, NotReading
<1>5. CASE AbortWord(word) \/ CastStray \/ Unknown \/ Literal \/ SharpInclude \/ SharpPath \/ Tick
  <2>1. UNCHANGED tib /\ pc' \in {"top", "exit"}
    BY <1>5 DEF AbortWord, CastStray, Unknown, Literal, SharpInclude, SharpPath, Tick, progVars
  <2> QED BY <2>1, NotReading
<1>6. CASE Cast
  <2>1. tib' = << >> /\ pc' = "skip" /\ want' = "word" /\ UNCHANGED quited
    BY <1>6 DEF Cast, DoWord, KeepRegisters
  <2> QED BY <1>0, <2>1, NotReading
<1>7. CASE IfDefined
  <2>1. UNCHANGED quited BY <1>7 DEF IfDefined
  <2>2. \/ tib' = << >> /\ pc' = "skip" /\ want' \in Sections
        \/ UNCHANGED tib /\ pc' = "top"
    BY <1>7 DEF IfDefined, SkipSection, DoWord, Sections
  <2> QED BY <1>0, <2>1, <2>2, NotReading
<1>8. CASE Skipped
  <2>1. UNCHANGED quited /\ want \in Sections BY <1>8 DEF Skipped
  <2>2. \/ tib' = << >> /\ pc' = "skip" /\ want' = want
        \/ UNCHANGED tib /\ pc' = "top"
    BY <1>8 DEF Skipped, DoWord
  <2> QED BY <1>0, <2>1, <2>2, NotReading
<1> QED BY <1>1, <1>2, <1>3, <1>4, <1>5, <1>6, <1>7, <1>8 DEF Act

\* and any step, keeps TextInv.
LEMMA StepText == ASSUME IInv, TextInv, [Next]_vars PROVE TextInv'
<1>d. disk' = disk BY DiskKept
<1>s. StackInv /\ StackInv' BY StepInv DEF IInv
<1>q. quited \in BOOLEAN BY DEF IInv, Flags
<1>1. CASE MainLoad \/ MainInteract \/ MainEnd
  <2>1. /\ UNCHANGED tib /\ pc' \in {"top", "exit"}
    BY <1>1 DEF MainLoad, MainInteract, MainEnd, Quit, progVars
  <2> QED BY <1>d, <2>1, NotReading
<1>2. CASE Leave
  <2>1. UNCHANGED tib /\ pc' = "main" /\ quited' BY <1>2 DEF Leave
  <2> QED BY <1>d, <2>1, NotReading
<1>3. CASE NextWord
  <2>1. tib' = << >> /\ pc' = "skip" /\ want' = "word" /\ quited' BY <1>3 DEF NextWord, DoWord
  <2> QED BY <1>d, <2>1, NotReading
<1>4. CASE Skip
  <2>1. UNCHANGED <<tib, want, quited>> /\ pc = "skip" /\ pc' \in {"skip", "scan"}
    BY <1>4 DEF Skip, progVars
  <2>2. tib = << >> BY <2>1 DEF TextInv
  <2> QED BY <1>d, <2>1, <2>2 DEF TextInv
<1>5. CASE Scan
  <2>1. UNCHANGED <<want, quited>> /\ pc = "scan" /\ Buffered /\ Getchar(TRUE)
    BY <1>5 DEF Scan
  <2>2. Char \in Chars(disk) BY <1>d, <1>s, <2>1, GetcharReads
  <2>3. CASE IsSpace(Char)
    <3>1. pc' = "act" /\ UNCHANGED tib BY <1>5, <2>3 DEF Scan
    <3> QED BY <1>d, <2>1, <3>1 DEF TextInv
  <2>4. CASE ~ IsSpace(Char)
    <3>1. tib' = Append(tib, Char) /\ pc' = "scan" BY <1>5, <2>4 DEF Scan
    <3>2. tib \in Seq(Chars(disk)) /\ \A i \in DOMAIN tib : ~ IsSpace(tib[i]) BY <2>1 DEF TextInv
    <3>3. tib' \in Seq(Chars(disk)) /\ \A i \in DOMAIN tib' : ~ IsSpace(tib'[i])
      <4>1. /\ Append(tib, Char) \in Seq(Chars(disk))
            /\ DOMAIN Append(tib, Char) = 1 .. Len(tib) + 1 /\ DOMAIN tib = 1 .. Len(tib)
            /\ Append(tib, Char)[Len(tib) + 1] = Char
            /\ \A i \in 1 .. Len(tib) : Append(tib, Char)[i] = tib[i]
            /\ Len(tib) \in Nat
        BY <2>2, <3>2
      <4> HIDE DEF IsSpace
      <4> QED BY <2>4, <3>1, <3>2, <4>1
    <3> QED BY <1>d, <2>1, <3>1, <3>3 DEF TextInv
  <2> QED BY <2>3, <2>4
<1>6. CASE Comment
  <2>1. UNCHANGED <<tib, quited>> /\ pc = "comment" /\ pc' \in {"top", "comment"}
    BY <1>6 DEF Comment
  <2> QED BY <1>d, <2>1, NotReading DEF TextInv
<1>7. CASE Line
  <2>1. UNCHANGED <<tib, quited, want>> /\ pc = "line" /\ pc' \in {"top", "line"}
    BY <1>7 DEF Line, progVars
  <2>2. want \in {Newline, ")"} /\ quited BY <2>1 DEF TextInv
  <2> QED BY <1>d, <2>1, <2>2, NotReading
<1>8. CASE FillBuffer \/ Input \/ Done \/ UNCHANGED vars
  <2>1. UNCHANGED <<tib, quited, want, pc>>
    BY <1>8 DEF FillBuffer, Input, Done, vars, progVars
  <2> QED BY <1>d, <2>1 DEF TextInv
<1>9. CASE EndOfInput
  <2>1. /\ UNCHANGED <<tib, quited, want>> /\ pc \in Reading /\ pc' \in {"top", "exit", "main", "act"}
        /\ pc' = "act" => pc \in {"skip", "scan"}
    BY <1>9 DEF EndOfInput, progVars, Reading
  <2> QED BY <1>d, <2>1 DEF TextInv, Reading
<1>10. CASE Act BY <1>d, <1>10, ActText
<1>11. CASE Interrupt
  <2>1. UNCHANGED <<tib, quited, want>> /\ pc' \in {pc, "exit"} BY <1>11 DEF Interrupt
  <2> QED BY <1>d, <2>1 DEF TextInv
<1> QED BY <1>1, <1>2, <1>3, <1>4, <1>5, <1>6, <1>7, <1>8, <1>9, <1>10, <1>11 DEF Next, Step

LEMMA InitText == Init => TextInv
<1> SUFFICES ASSUME Init PROVE TextInv OBVIOUS
<1>1. tib = << >> /\ quited /\ pc = "main" BY DEF Init
<1>2. tib \in Seq(Chars(disk)) BY <1>1
<1> QED BY <1>1, <1>2 DEF TextInv

----------------------------------------------------------------------------
\* The word of the text, before and after a step.
LEMMA TakenIs == /\ pc = "act" => Word = tib
                 /\ pc # "act" => Word = << >>
                 /\ pc' = "act" => Word' = tib'
                 /\ pc' # "act" => Word' = << >>
BY DEF Word

\* What is known around a step.
Around == /\ StackInv /\ StackInv' /\ StackText /\ StackText' /\ disk' = disk
          /\ TextInv' /\ Stream \in Seq(Chars(disk)) /\ Stream' \in Seq(Chars(disk))
          /\ quited \in BOOLEAN /\ interactive \in BOOLEAN

\* By the invariants, it is known around every step.
LEMMA AroundStep == ASSUME IInv, TextInv, [Next]_vars PROVE Around
<1>1. disk' = disk BY DiskKept
<1>2. StackInv /\ StackInv' BY StepInv DEF IInv
<1>3. TextInv' BY StepText
<1>4. StackText /\ StackText' BY <1>2, StackFiles, StackFilesNext
<1>5. Stream \in Seq(Chars(disk)) BY <1>4, StreamType
<1>6. Stream' \in Seq(Chars(disk')) BY <1>4, StreamTypeNext
<1>7. quited \in BOOLEAN /\ interactive \in BOOLEAN BY <1>2 DEF IInv, Flags, StackInv
<1> QED BY <1>1, <1>2, <1>3, <1>4, <1>5, <1>6, <1>7 DEF Around

\* The text is what is left in the files, where no word is being read.
LEMMA TextIsStream ==
  ASSUME Around, pc \notin {"skip", "scan", "exit"} PROVE Text = Stream
BY TextIs DEF Around

LEMMA TextIsStreamNext ==
  ASSUME Around, pc' \notin {"scan", "exit"} PROVE Text' = Stream'
<1>1. CASE pc' # "skip" BY <1>1, TextIsNext DEF Around
<1>2. CASE pc' = "skip"
  <2>1. Text' = tib' \o Stream' BY <1>2, TextIsNext DEF Around
  <2>2. tib' = << >> /\ Stream' \in Seq(Chars(disk)) BY <1>2 DEF Around, TextInv
  <2>3. << >> \o Stream' = Stream' BY <2>2
  <2> QED BY <2>1, <2>2, <2>3
<1> QED BY <1>1, <1>2

\* What no step changes that leaves the files alone.
LEMMA LoadedIs == ASSUME UNCHANGED <<infiles, interactive>> PROVE Loaded' = Loaded
BY DEF Loaded

LEMMA StreamIs == ASSUME UNCHANGED <<disk, infstack>> PROVE Stream' = Stream
BY DEF Stream
----------------------------------------------------------------------------
\* The main program ends,
LEMMA Finishes ==
  ASSUME Mode = "main", Mode' = "over", Text' = << >>,
         UNCHANGED <<disk, Word, nest, Loaded, aborts>>
  PROVE  Follows
BY DEF Follows, Source!Next, Source!Finish

\* A file comes before the rest.
Loads(f) == /\ f \in DOMAIN disk /\ f \notin Loaded
            /\ Stream' = disk[f] \o Stream /\ Loaded' = Loaded \cup {f}

\* and starts the interpreter.
LEMMA Starts ==
  ASSUME Mode = "main", Mode' = "words", Text = Stream, Text' = Stream',
         \/ \E f : Loads(f)
         \/ Stream' = Stream /\ Loaded' \in {Loaded, Loaded \cup {Stdin}},
         UNCHANGED <<disk, Word, nest, aborts>>
  PROVE  Follows
<1>1. CASE \E f : Loads(f)
  <2>1. PICK f : Loads(f) BY <1>1
  <2>2. f \in DOMAIN disk /\ Source!Splice(f) BY <2>1 DEF Loads, Source!Splice
  <2> QED BY <2>2 DEF Follows, Source!Next, Source!Start
<1>2. CASE Stream' = Stream /\ Loaded' \in {Loaded, Loaded \cup {Stdin}}
  BY <1>2 DEF Follows, Source!Next, Source!Start
<1> QED BY <1>1, <1>2

\* A word is acted on.
LEMMA ActsOn ==
  ASSUME Mode = "words", Word # << >>, Word' = << >>,
         \/ Mode' = "comment" /\ nest' = 1
         \/ Mode' \in Sections /\ nest' = 0
         \/ Mode' \in {"words", "name", "leaving", Newline, ")"} /\ nest' = nest,
         UNCHANGED <<disk, Loaded, aborts, Text>>
  PROVE  Follows
<1>1. Source!Opening
  BY DEF Source!Opening, Source!Sections, Sections, Newline
<1>2. Mode' \in {"words", "comment", "name", "leaving", "over"} \cup Source!Sections
                \cup Source!Delimiters
  BY DEF Source!Sections, Sections, Source!Delimiters, Newline
<1>3. Mode' # "over" BY DEF Sections, Newline
<1> QED BY <1>1, <1>2, <1>3 DEF Follows, Source!Next, Source!ActOn

\* A word that ends the program.
LEMMA ActsLast ==
  ASSUME Mode = "words", Word # << >>, Word' = << >>, Mode' = "over", Text' = << >>,
         UNCHANGED <<disk, nest, Loaded, aborts>>
  PROVE  Follows
<1>1. Source!Opening BY DEF Source!Opening, Source!Sections
<1> QED BY <1>1 DEF Follows, Source!Next, Source!ActOn

\* A name is taken, with a file that comes next, a section, or neither.
LEMMA TakesName ==
  ASSUME Mode = "nameless" \/ (Mode = "name" /\ (Word # << >> \/ Text = << >>)),
         Word' = << >>, Text = Stream, Text' = Stream',
         \/ Mode' = "words" /\ nest' = nest /\ \E f \in DOMAIN disk \ {Stdin} : Loads(f)
         \/ /\ (Mode' = "words" /\ nest' = nest) \/ (Mode' = "#if" /\ nest' = 0)
            /\ UNCHANGED <<Text, Loaded>>,
         UNCHANGED <<disk, aborts>>
  PROVE  Follows
<1>1. Source!Opening BY DEF Source!Opening, Source!Sections
<1>2. CASE Mode' = "words" /\ nest' = nest /\ \E f \in DOMAIN disk \ {Stdin} : Loads(f)
  <2>1. PICK f \in DOMAIN disk \ {Stdin} : Loads(f) BY <1>2
  <2>2. Source!Splice(f) BY <2>1 DEF Loads, Source!Splice
  <2>3. Source!TakeName BY <1>1, <1>2, <2>1, <2>2 DEF Source!TakeName
  <2> QED BY <2>3 DEF Follows, Source!Next
<1>3. CASE /\ Mode' = "words" \/ Mode' = "#if"
           /\ UNCHANGED <<Text, Loaded>>
  <2>1. Source!TakeName BY <1>1, <1>3 DEF Source!TakeName
  <2> QED BY <2>1 DEF Follows, Source!Next
<1> QED BY <1>2, <1>3

\* An abort where no word is being read, or in front of one.
LEMMA CutsShort ==
  ASSUME Around, Cuts, Text = Stream, Text' = Stream', aborts' = aborts + 1, Word' = << >>,
         Mode' = Mode \/ (Mode \in {"name", "nameless"} /\ Mode' = "words"),
         UNCHANGED <<disk, nest, Loaded>>
  PROVE  Follows
<1>1. PICK u, s \in Seq(Chars(disk)) : Stream = u \o s /\ Stream' = s BY DEF Cuts
<1> DEFINE h == << >>
<1>2. h \in Seq(Chars(disk)) /\ \A i \in DOMAIN h : ~ IsSpace(h[i]) OBVIOUS
<1>3. u \o s \in Seq(Chars(disk)) BY ConcatProperties
<1>4. Text = h \o (u \o s) /\ Text' = h \o s
  <2>1. h \o s = s OBVIOUS
  <2>2. h \o (u \o s) = u \o s BY <1>3
  <2> QED BY <1>1, <2>1, <2>2
<1>5. \/ Mode' \in {Mode, "over"}
      \/ Mode \in Source!Naming /\ Mode' \in Source!Naming \cup {"words"}
  BY DEF Source!Naming
<1> HIDE DEF h
<1> QED BY <1>2, <1>4, <1>5, Abandons
----------------------------------------------------------------------------
(***************************************************************************)
(* The steps of the program.                                               *)
(***************************************************************************)
\* io_infile
LEMMA InfileLoads ==
  ASSUME StackText, NEW name, IoInfile(name), UNCHANGED <<disk, interactive>>
  PROVE  \/ \E f \in DOMAIN disk \ {Stdin} : Loads(f)
         \/ Stream' = Stream /\ Loaded' = Loaded
<1>1. CASE UNCHANGED <<infstack, infiles>> BY <1>1, StreamIs, LoadedIs
<1>2. CASE ~ UNCHANGED <<infstack, infiles>>
  <2>1. PICK i \in Hits(name) :
          /\ Candidate(name, i) \notin infiles
          /\ infstack' = Append(infstack, Opened(Candidate(name, i)))
          /\ infiles' = infiles \cup {Candidate(name, i)}
    BY <1>2 DEF IoInfile
  <2> DEFINE f == Candidate(name, i)
  <2>2. f \in DOMAIN disk \ {Stdin} /\ f \notin infiles BY <2>1 DEF Hits
  <2>3. infstack' = Append(infstack, Opened(f)) /\ infiles' = infiles \cup {f} BY <2>1
  <2> HIDE DEF f
  <2>4. Opened(f) \in Files(disk) /\ Rest(disk, Opened(f)) = disk[f]
    BY <2>2, RestOpened DEF StackText
  <2>5. Flow(disk, Append(infstack, Opened(f))) = Rest(disk, Opened(f)) \o Flow(disk, infstack)
    BY <2>4, FlowPush DEF StackText
  <2>6. Stream' = disk[f] \o Stream BY <2>3, <2>4, <2>5 DEF Stream
  <2>7. f \notin Loaded /\ Loaded' = Loaded \cup {f} BY <2>2, <2>3 DEF Loaded
  <2>8. Loads(f) BY <2>2, <2>6, <2>7 DEF Loads
  <2> QED BY <2>2, <2>8
<1> QED BY <1>1, <1>2

\* main
LEMMA MainGoes ==
  ASSUME Around, MainLoad \/ MainInteract \/ MainEnd PROVE Follows
<1>1. /\ pc = "main" /\ UNCHANGED <<nest, aborts, disk>>
  BY DEF MainLoad, MainInteract, MainEnd, progVars
<1>2. Mode = "main" /\ Word = << >> /\ Text = Stream
  BY <1>1, ModeIs, TakenIs, TextIsStream
<1>3. CASE pc' = "exit"
  <2>1. Mode' = "over" /\ Text' = << >> /\ Word' = << >>
    BY <1>3, ModeIsNext, TakenIs, TextIsNext DEF Around
  <2>2. UNCHANGED <<infiles, interactive>>
    BY <1>3 DEF MainLoad, MainInteract, MainEnd, Quit, progVars
  <2> QED BY <1>1, <1>2, <2>1, <2>2, LoadedIs, Finishes
<1>4. CASE pc' = "top" /\ quited'
  <2>1. Mode' = "words" /\ Text' = Stream' /\ Word' = << >>
    BY <1>4, ModeIsNext, TakenIs, TextIsStreamNext
  <2>2. CASE MainLoad
    <3>1. IoInfile(Head(args)) /\ UNCHANGED <<disk, interactive>>
      BY <1>4, <2>2 DEF MainLoad
    <3>2. (\E f : Loads(f)) \/ (Stream' = Stream /\ Loaded' = Loaded)
      BY <3>1, InfileLoads DEF Around
    <3> QED BY <1>1, <1>2, <2>1, <3>2, Starts
  <2>3. CASE MainInteract
    <3>1. /\ ~ interactive /\ interactive' = TRUE /\ IoInfileStdin /\ UNCHANGED infiles
      BY <2>3 DEF MainInteract
    <3>2. Loaded' = Loaded \cup {Stdin} /\ Loaded = infiles BY <3>1 DEF Loaded
    <3>3. CASE infstack' = infstack
      <4>1. Stream' = Stream BY <1>1, <3>3, StreamIs
      <4> QED BY <1>1, <1>2, <2>1, <3>2, <4>1, Starts
    <3>4. CASE infstack' = Append(infstack, Opened(Stdin))
      <4>1. Stdin \in DOMAIN disk /\ Stdin \notin infiles
        BY InputAssumption DEF Around, StackInv
      <4>2. Opened(Stdin) \in Files(disk) /\ Rest(disk, Opened(Stdin)) = disk[Stdin]
        BY <4>1, RestOpened DEF Around, StackText
      <4>3. Flow(disk, Append(infstack, Opened(Stdin)))
              = Rest(disk, Opened(Stdin)) \o Flow(disk, infstack)
        BY <4>2, FlowPush DEF Around, StackText
      <4>4. Stream' = disk[Stdin] \o Stream BY <1>1, <3>4, <4>2, <4>3 DEF Stream
      <4>5. Loads(Stdin) BY <3>2, <4>1, <4>4 DEF Loads
      <4> QED BY <1>1, <1>2, <2>1, <4>5, Starts
    <3> QED BY <3>1, <3>3, <3>4 DEF IoInfileStdin
  <2> QED BY <1>4, <2>2, <2>3 DEF MainEnd
<1> QED BY <1>3, <1>4 DEF MainLoad, MainInteract, MainEnd, Quit

\* The character in the buffer is the first of what is left.
LEMMA BufferedHead ==
  ASSUME StackInv, Buffered
  PROVE  /\ Stream # << >> /\ Head(Stream) = Char /\ infstack # << >>
<1> DEFINE r == [Top EXCEPT !.pos = @ + 1]
           F == Flow(disk, Front(infstack))
<1>1. disk \in Disks /\ infstack \in Seq(Files(disk)) BY StackFiles DEF StackText
<1>3. infstack # << >> /\ Top \in Open(disk) /\ FileInv(disk, Top) /\ Top.pos < Top.end
  BY TopFile DEF Buffered
<1>5. r.file = Top.file /\ r.pos = Top.pos + 1 BY <1>3 DEF Open
<1>6. Top.pos < Len(disk[Top.file]) /\ Top \in Files(disk)
  <2>1. Top.end <= Len(disk[Top.file]) /\ Top.pos \in Nat /\ Top.end \in Nat /\ Top.pos <= Top.end
    BY <1>3 DEF FileInv, Open
  <2>2. Len(disk[Top.file]) \in Nat BY <1>1, <1>3, CharsOf DEF Open
  <2>3. Top.pos < Len(disk[Top.file]) /\ Top.pos <= Len(disk[Top.file]) BY <1>3, <2>1, <2>2
  <2> QED BY <1>3, <2>3 DEF Files
<1> HIDE DEF r
<1>8. Rest(disk, Top) # << >> /\ Head(Rest(disk, Top)) = disk[Top.file][Top.pos + 1]
  BY <1>1, <1>5, <1>6, RestNext
<1>9. Stream = Rest(disk, Top) \o F /\ F \in Seq(Chars(disk))
  <2>1. /\ Front(infstack) \in Seq(Files(disk))
        /\ Flow(disk, infstack) = Rest(disk, Last(infstack)) \o Flow(disk, Front(infstack))
    BY <1>1, <1>3, FlowTop
  <2>2. F \in Seq(Chars(disk)) BY <1>1, <2>1, FlowType
  <2> QED BY <2>1, <2>2 DEF Stream, Top
<1>11. Rest(disk, Top) \in Seq(Chars(disk)) BY <1>1, <1>6, RestIs
<1> HIDE DEF F
<1>12. Rest(disk, Top) \o F # << >> /\ Head(Rest(disk, Top) \o F) = Head(Rest(disk, Top))
  BY <1>8, <1>9, <1>11, HeadOfBoth
<1>13. Stream # << >> /\ Head(Stream) = disk[Top.file][Top.pos + 1]
  BY <1>8, <1>9, <1>12, Zenon
<1> QED BY <1>3, <1>13 DEF Char

\* The mode while the program goes on reading.
LEMMA ModeKept ==
  ASSUME UNCHANGED <<pc, want, quited, tib, Text>>, pc # "act" PROVE Mode' = Mode
BY DEF Mode, Nameless

\* A space in front of a word is left out.
LEMMA SpaceSkipped ==
  ASSUME Mode \in Source!WordModes, Word = << >>, Text # << >>, IsSpace(Head(Text)),
         Text' = Tail(Text), UNCHANGED <<disk, Word, Mode, nest, Loaded, aborts>>
  PROVE  Follows
BY DEF Follows, Source!Next, Source!SkipSpace

\* A word is read, h, which a space or the end of the text follows.
LEMMA WordRead ==
  ASSUME Mode \in Source!WordModes, NEW T, NEW h \in Seq(T), NEW s \in Seq(T),
         h # << >>, \A i \in DOMAIN h : ~ IsSpace(h[i]),
         Text = h \o s, Word = << >>, Word' = h,
         \/ s = << >> /\ Text' = << >> /\ Mode # "words"
         \/ s # << >> /\ IsSpace(Head(s)) /\ Text' = Tail(s),
         UNCHANGED <<disk, Mode, nest, Loaded, aborts>>
  PROVE  Follows
<1> DEFINE n == Len(h) t == h \o s
<1>1. /\ n \in Nat /\ n > 0 /\ Len(s) \in Nat /\ Len(t) = n + Len(s) /\ t \in Seq(T)
      /\ \A i \in 1 .. n : t[i] = h[i]
      /\ DOMAIN h = 1 .. n
  OBVIOUS
<1>2. SubSeq(t, 1, n) = h OBVIOUS
<1>3. CASE s = << >>
  <2>1. n = Len(t) BY <1>1, <1>3
  <2>2. SubSeq(t, n + 1 + 1, Len(t)) = << >>
    <3> HIDE DEF n, t
    <3> QED BY <1>1, <2>1
  <2> HIDE DEF n, t
  <2>3. /\ n \in 1 .. Len(t) /\ \A i \in 1 .. n : ~ IsSpace(t[i])
    BY <1>1, <2>1
  <2>4. Text = t BY DEF t
  <2>5. /\ n \in 1 .. Len(Text) /\ \A i \in 1 .. n : ~ IsSpace(Text[i])
        /\ n = Len(Text) /\ Mode # "words"
        /\ Word' = SubSeq(Text, 1, n) /\ Text' = Source!Without(n + 1)
    BY <1>2, <1>3, <2>1, <2>2, <2>3, <2>4 DEF Source!Without
  <2>6. Source!ReadWord BY <2>5 DEF Source!ReadWord
  <2> QED BY <2>6 DEF Follows, Source!Next
<1>4. CASE s # << >>
  <2>0. Len(s) > 0 BY <1>4
  <2>1. n # Len(t) /\ n \in 1 .. Len(t)
    <3> HIDE DEF n, t
    <3> QED BY <1>1, <2>0
  <2>2. t[n + 1] = Head(s)
    <3>1. \A i \in Len(h) + 1 .. Len(h) + Len(s) : (h \o s)[i] = s[i - Len(h)] OBVIOUS
    <3>2. Len(h) + 1 \in Len(h) + 1 .. Len(h) + Len(s) /\ (Len(h) + 1) - Len(h) = 1
      BY <1>4
    <3>3. (h \o s)[Len(h) + 1] = s[1] BY <3>1, <3>2
    <3> QED BY <1>4, <3>3
  <2>3. SubSeq(t, n + 1 + 1, Len(t)) = Tail(s)
    <3> DEFINE u == Tail(s) v == SubSeq(t, n + 1 + 1, Len(t)) m == Len(s) - 1
    <3>1. m \in Nat /\ u \in Seq(T) /\ Len(u) = m /\ \A i \in 1 .. m : u[i] = s[i + 1]
      BY <1>4
    <3>2. v \in Seq(T) /\ Len(v) = m /\ \A i \in 1 .. m : v[i] = t[n + 1 + i]
      <4> DEFINE k == n + 1
      <4>1. k \in Nat /\ k >= 1 /\ Len(t) = k + m /\ t \in Seq(T) /\ m \in Nat
        <5> HIDE DEF t, n
        <5> QED BY <1>1, <2>0
      <4> HIDE DEF t, n, k, m
      <4>2. /\ SubSeq(t, k + 1, Len(t)) \in Seq(T)
            /\ Len(SubSeq(t, k + 1, Len(t))) = Len(t) - k
            /\ \A i \in 1 .. Len(t) - k : SubSeq(t, k + 1, Len(t))[i] = t[k + i]
        <5>1. t \in Seq(T) /\ Len(t) \in Nat /\ k \in Nat /\ k <= Len(t) BY <4>1
        <5> QED BY <5>1
      <4>3. Len(t) - k = m BY <4>1
      <4> QED BY <4>2, <4>3 DEF k
    <3>3. \A i \in 1 .. m : t[n + 1 + i] = s[i + 1]
      <4>1. \A i \in Len(h) + 1 .. Len(h) + Len(s) : (h \o s)[i] = s[i - Len(h)] OBVIOUS
      <4> TAKE i \in 1 .. m
      <4>2. Len(h) + 1 + i \in Len(h) + 1 .. Len(h) + Len(s) /\ (Len(h) + 1 + i) - Len(h) = i + 1
        BY <3>1
      <4> QED BY <4>1, <4>2
    <3>4. /\ m \in Nat /\ u \in Seq(T) /\ v \in Seq(T) /\ Len(u) = m /\ Len(v) = m
          /\ \A i \in 1 .. m : u[i] = v[i]
      <4> HIDE DEF u, v, m, n, t
      <4> QED BY <3>1, <3>2, <3>3
    <3> HIDE DEF u, v, m
    <3>5. u = v BY <3>4
    <3> QED BY <3>5 DEF u, v
  <2> HIDE DEF n, t
  <2>4. \A i \in 1 .. n : ~ IsSpace(t[i]) BY <1>1
  <2>5. Text = t BY DEF t
  <2>6. /\ n \in 1 .. Len(Text) /\ \A i \in 1 .. n : ~ IsSpace(Text[i])
        /\ n # Len(Text) /\ IsSpace(Text[n + 1])
        /\ Word' = SubSeq(Text, 1, n) /\ Text' = Source!Without(n + 1)
    BY <1>2, <1>4, <2>1, <2>2, <2>3, <2>4, <2>5 DEF Source!Without
  <2>7. Source!ReadWord BY <2>6 DEF Source!ReadWord
  <2> QED BY <2>7 DEF Follows, Source!Next
<1> QED BY <1>3, <1>4

\* The modes in which words are read.
LEMMA WordMode ==
  ASSUME TextInv, pc \in {"skip", "scan", "act"} PROVE Mode \in Source!WordModes
<1>1. want \in {"word"} \cup Names \cup Sections BY DEF TextInv
<1>2. Mode \in {"words", "name", "nameless"} \cup Sections BY <1>1, ModeIs
<1> QED BY <1>2 DEF Source!WordModes, Source!Naming, Source!Sections, Sections
----------------------------------------------------------------------------
\* dointerpret
LEMMA LeaveGoes == ASSUME Around, Leave PROVE Follows
<1>1. /\ pc = "top" /\ ~ quited /\ pc' = "main"
      /\ UNCHANGED <<disk, infstack, infiles, interactive, nest, aborts>>
  BY DEF Leave, inputVars
<1>2. Mode = "leaving" /\ Text = Stream /\ Word = << >> BY <1>1, ModeIs, TextIsStream, TakenIs
<1>3. Mode' = "main" /\ Text' = Stream' /\ Word' = << >>
  BY <1>1, ModeIsNext, TextIsStreamNext, TakenIs
<1>4. Stream' = Stream /\ Loaded' = Loaded BY <1>1, StreamIs, LoadedIs
<1>5. Source!EndOfText BY <1>1, <1>2, <1>3, <1>4 DEF Source!EndOfText
<1> QED BY <1>5 DEF Follows, Source!Next

LEMMA NextWordGoes == ASSUME Around, NextWord PROVE Follows
<1>1. /\ pc = "top" /\ quited /\ pc' = "skip" /\ want' = "word" /\ tib' = << >>
      /\ UNCHANGED <<disk, infiles, interactive, nest>>
  BY DEF NextWord, DoWord, inputVars, Abort
<1>2. Mode = "words" /\ Text = Stream /\ Word = << >> BY <1>1, ModeIs, TextIsStream, TakenIs
<1>3. Mode' = "words" /\ Text' = Stream' /\ Word' = << >>
  BY <1>1, ModeIsNext, TextIsStreamNext, TakenIs
<1>4. Loaded' = Loaded BY <1>1, LoadedIs
<1>5. CASE UNCHANGED <<infstack, aborts>>
  <2>1. Stream' = Stream BY <1>1, <1>5, StreamIs
  <2> QED BY <1>1, <1>2, <1>3, <1>4, <1>5, <2>1, Stutters
<1>6. CASE IoFlush /\ aborts' = aborts + 1
  <2>1. Cuts BY <1>1, <1>6, FlushCuts DEF Around
  <2> QED BY <1>1, <1>2, <1>3, <1>4, <1>6, <2>1, CutsShort
<1> QED BY <1>5, <1>6 DEF NextWord, Abort, Aborted, inputVars

\* io_skipspace
LEMMA SkipGoes == ASSUME Around, TextInv, Skip PROVE Follows
<1>1. /\ pc = "skip" /\ Buffered /\ tib = << >> /\ want \in {"word"} \cup Names \cup Sections
      /\ UNCHANGED <<disk, infiles, interactive, nest, aborts, tib, want, quited>>
  BY DEF Skip, ReadVars, progVars, TextInv
<1>2. Text = Stream /\ Word = << >> /\ Mode \in Source!WordModes
  <2>1. Text = tib \o Stream BY <1>1, TextIs DEF Around
  <2>2. << >> \o Stream = Stream BY DEF Around
  <2> QED BY <1>1, <2>1, <2>2, TakenIs, WordMode
<1>3. Loaded' = Loaded BY <1>1, LoadedIs
<1>4. Stream # << >> /\ Head(Stream) = Char BY <1>1, BufferedHead DEF Around
<1>5. CASE IsSpace(Char) /\ Getchar(TRUE) /\ pc' = "skip"
  <2>1. Tail(Stream) = Stream' BY <1>1, <1>5, GetcharReads DEF Around
  <2>2. Text' = Stream' /\ Word' = << >> BY <1>5, TextIsStreamNext, TakenIs
  <2>3. Mode' = Mode BY <1>1, <1>5 DEF Mode, Nameless
  <2> QED BY <1>1, <1>2, <1>3, <1>4, <1>5, <2>1, <2>2, <2>3, SpaceSkipped
<1>6. CASE ~ IsSpace(Char) /\ pc' = "scan" /\ UNCHANGED infstack
  <2>1. Stream' = Stream BY <1>1, <1>6, StreamIs
  <2>2. Text' = tib' \o Stream' /\ Word' = << >> BY <1>6, TextIsNext, TakenIs DEF Around
  <2>3. Text' = Text
    <3>1. << >> \o Stream = Stream BY DEF Around
    <3> QED BY <1>1, <1>2, <2>1, <2>2, <3>1
  <2>4. ~ Nameless'
    <3>1. ~ IsSpace(Head(Text')) BY <1>2, <1>4, <1>6, <2>3
    <3> QED BY <1>6, <3>1 DEF Nameless
  <2>5. ~ Nameless BY <1>1 DEF Nameless
  <2>6. Mode' = Mode BY <1>1, <1>6, <2>4, <2>5, ModeIs, ModeIsNext
  <2> QED BY <1>1, <1>2, <1>3, <2>2, <2>3, <2>6, Stutters
<1> QED BY <1>1, <1>5, <1>6 DEF Skip

\* io_scan
LEMMA ScanGoes == ASSUME Around, TextInv, Scan PROVE Follows
<1>1. /\ pc = "scan" /\ Buffered /\ want \in {"word"} \cup Names \cup Sections /\ Getchar(TRUE)
      /\ UNCHANGED <<disk, infiles, interactive, nest, aborts, want, quited>>
      /\ tib \in Seq(Chars(disk)) /\ \A i \in DOMAIN tib : ~ IsSpace(tib[i])
  BY DEF Scan, ReadVars, TextInv
<1>2. Text = tib \o Stream /\ Word = << >> /\ Mode \in Source!WordModes
  BY <1>1, TextIs, TakenIs, WordMode DEF Around
<1>3. Loaded' = Loaded BY <1>1, LoadedIs
<1>4. /\ Stream # << >> /\ Head(Stream) = Char /\ Tail(Stream) = Stream'
      /\ Char \in Chars(disk) /\ infstack' # << >>
  BY <1>1, GetcharReads DEF Around
<1>5. CASE IsSpace(Char) /\ pc' = "act" /\ UNCHANGED tib
  <2>1. Word' = tib /\ Text' = Stream' BY <1>5, TakenIs, TextIsStreamNext
  <2>2. CASE tib # << >>
    <3>1. ~ Nameless /\ ~ Nameless' BY <1>5, <2>2 DEF Nameless
    <3>2. Mode' = Mode BY <1>1, <1>5, <3>1, ModeIs, ModeIsNext
    <3>3. Stream \in Seq(Chars(disk)) BY DEF Around
    <3> QED BY <1>1, <1>2, <1>3, <1>4, <1>5, <2>1, <2>2, <3>2, <3>3, WordRead
  <2>3. CASE tib = << >>
    <3>1. << >> \o Stream = Stream BY DEF Around
    <3>2. Text = Stream BY <1>2, <2>3, <3>1
    <3>3. Nameless /\ Nameless' BY <1>1, <1>4, <1>5, <2>3, <3>2 DEF Nameless
    <3>4. Mode' = Mode BY <1>1, <1>5, <3>3, ModeIs, ModeIsNext
    <3> QED BY <1>1, <1>2, <1>3, <1>4, <1>5, <2>1, <2>3, <3>2, <3>4, SpaceSkipped
  <2> QED BY <2>2, <2>3
<1>6. CASE ~ IsSpace(Char) /\ pc' = "scan" /\ tib' = Append(tib, Char)
  <2>1. Text' = tib' \o Stream' /\ Word' = << >> BY <1>6, TextIsNext, TakenIs DEF Around
  <2>2. Text' = Text
    <3>1. Stream \in Seq(Chars(disk)) /\ Stream' \in Seq(Chars(disk)) BY DEF Around
    <3> DEFINE c == <<Char>> r == Stream'
    <3>2. c \in Seq(Chars(disk)) /\ Append(tib, Char) = tib \o c BY <1>1, <1>4
    <3>3. Stream = c \o r
      <4> DEFINE x == Stream
      <4>1. x \in Seq(Chars(disk)) /\ x # << >> BY <1>4, <3>1
      <4>2. Head(x) = Char /\ Tail(x) = r BY <1>4
      <4> HIDE DEF x, r
      <4>3. x = <<Head(x)>> \o Tail(x) BY <4>1
      <4> QED BY <4>2, <4>3 DEF x
    <3>4. r \in Seq(Chars(disk)) BY <3>1
    <3> HIDE DEF c, r
    <3>5. (tib \o c) \o r = tib \o (c \o r) BY <1>1, <3>2, <3>4, ConcatAssociative
    <3> QED BY <1>2, <1>6, <2>1, <3>2, <3>3, <3>5 DEF r
  <2>3. ~ Nameless'
    <3>1. tib' # << >> BY <1>1, <1>4, <1>6
    <3> QED BY <3>1 DEF Nameless
  <2>4. ~ Nameless
    <3>1. ASSUME tib = << >> PROVE ~ IsSpace(Head(Text))
      <4>1. << >> \o Stream = Stream BY DEF Around
      <4>2. Head(Text) = Char BY <1>2, <1>4, <3>1, <4>1
      <4> QED BY <1>6, <4>2
    <3> QED BY <1>1, <3>1 DEF Nameless
  <2>5. Mode' = Mode BY <1>1, <1>6, <2>3, <2>4, ModeIs, ModeIsNext
  <2> QED BY <1>1, <1>2, <1>3, <2>1, <2>2, <2>5, Stutters
<1> QED BY <1>5, <1>6 DEF Scan

\* doparen
LEMMA CommentGoes == ASSUME Around, TextInv, Comment PROVE Follows
<1>1. /\ pc = "comment" /\ Buffered /\ Getchar(FALSE) /\ quited
      /\ UNCHANGED <<disk, infiles, interactive, aborts, quited>>
      /\ nest' = CASE Char = "(" -> nest + 1 [] Char = ")" -> nest - 1 [] OTHER -> nest
      /\ pc' = IF nest' = 0 THEN "top" ELSE "comment"
  BY DEF Comment, ReadVars, TextInv
<1>2. Mode = "comment" /\ Text = Stream /\ Word = << >> BY <1>1, ModeIs, TextIsStream, TakenIs
<1>3. Mode' = IF nest' = 0 THEN "words" ELSE Mode BY <1>1, <1>2, ModeIsNext
<1>4. Text' = Stream' /\ Word' = << >> BY <1>1, TextIsStreamNext, TakenIs
<1>5. Loaded' = Loaded BY <1>1, LoadedIs
<1>6. Stream # << >> /\ Head(Stream) = Char /\ Tail(Stream) = Stream'
  BY <1>1, GetcharReads DEF Around
<1>7. Source!InComment BY <1>1, <1>2, <1>3, <1>4, <1>5, <1>6 DEF Source!InComment
<1> QED BY <1>7 DEF Follows, Source!Next

\* io_skip or io_scan up to a character
LEMMA LineGoes == ASSUME Around, TextInv, Line PROVE Follows
<1>1. /\ pc = "line" /\ Buffered /\ Getchar(TRUE) /\ quited /\ want \in {Newline, ")"}
      /\ UNCHANGED <<disk, infiles, interactive, aborts, quited, want, nest>>
      /\ pc' = IF Char = want THEN "top" ELSE "line"
  BY DEF Line, ReadVars, progVars, TextInv
<1>2. Mode = want /\ Text = Stream /\ Word = << >> BY <1>1, ModeIs, TextIsStream, TakenIs
<1>3. Mode' = IF Char = Mode THEN "words" ELSE Mode BY <1>1, <1>2, ModeIsNext
<1>4. Text' = Stream' /\ Word' = << >> BY <1>1, TextIsStreamNext, TakenIs
<1>5. Loaded' = Loaded BY <1>1, LoadedIs
<1>6. Stream # << >> /\ Head(Stream) = Char /\ Tail(Stream) = Stream'
  BY <1>1, GetcharReads DEF Around
<1>7. Mode \in Source!Delimiters BY <1>1, <1>2 DEF Source!Delimiters, Newline
<1>8. Source!InLine BY <1>1, <1>2, <1>3, <1>4, <1>5, <1>6, <1>7 DEF Source!InLine
<1> QED BY <1>8 DEF Follows, Source!Next

\* A step that takes no character, and does not go on in the program.
LEMMA ReadsNothing ==
  ASSUME Around, pc \in Reading, Stream' = Stream,
         UNCHANGED <<pc, want, quited, tib, nest, infiles, interactive, aborts>>
  PROVE  Follows
<1>1. pc # "act" /\ pc # "exit" /\ pc' = pc BY DEF Reading
<1>2. Text' = Text
  <2>1. CASE pc \in {"skip", "scan"}
    <3>1. Text = tib \o Stream BY <2>1, TextIs DEF Around
    <3>2. Text' = tib' \o Stream' BY <1>1, <2>1, TextIsNext DEF Around
    <3> QED BY <3>1, <3>2
  <2>2. CASE pc \notin {"skip", "scan"}
    <3>1. Text = Stream BY <1>1, <2>2, TextIs DEF Around
    <3>2. Text' = Stream' BY <1>1, <2>2, TextIsNext DEF Around
    <3> QED BY <3>1, <3>2
  <2> QED BY <2>1, <2>2
<1>3. Mode' = Mode BY <1>1, <1>2, ModeKept
<1>4. Word = << >> /\ Word' = << >> BY <1>1, TakenIs
<1>5. Loaded' = Loaded BY LoadedIs
<1> QED BY <1>2, <1>3, <1>4, <1>5, Stutters DEF Around

\* io_fillbuf
LEMMA FillGoes == ASSUME Around, FillBuffer PROVE Follows
<1>1. /\ pc \in Reading /\ Fill
      /\ UNCHANGED <<pc, want, quited, tib, nest, interactive, aborts>>
  BY DEF FillBuffer, progVars
<1>2. UNCHANGED infiles BY <1>1 DEF Fill, FillEnter, FillData, FillEof, FillNone
<1>3. Stream' = Stream
  <2>1. CASE UNCHANGED infstack BY <2>1, StreamIs DEF Around
  <2> SUFFICES ASSUME ~ UNCHANGED infstack PROVE Stream' = Stream BY <2>1
  <2>2. FillData \/ FillEof BY <1>1 DEF Fill, FillEnter, FillNone
  <2>3. infstack # << >> /\ ~ (Top.pos < Top.end) /\ disk' = disk
    BY <2>2 DEF FillData, FillEof, CanFill, Buffered, Around
  <2>4. Top \in Open(disk) /\ FileInv(disk, Top) /\ Len(infstack) \in DOMAIN infstack
    BY <2>3, TopFile DEF Around
  <2>5. disk \in Disks /\ infstack \in Seq(Files(disk)) /\ infstack' \in Seq(Files(disk))
    BY <2>3 DEF Around, StackText
  <2>6. /\ Top \in Files(disk) /\ Front(infstack) \in Seq(Files(disk))
        /\ Stream = Rest(disk, Top) \o Flow(disk, Front(infstack))
    BY <2>3, <2>5, FlowTop DEF Top, Stream
  <2>7. CASE FillData
    <3>1. PICK r : /\ infstack' = [infstack EXCEPT ![Len(infstack)] = r]
                   /\ r.file = Top.file /\ r.pos = Top.pos
      <4>1. Top = [file |-> Top.file, pos |-> Top.pos, end |-> Top.end, ln |-> Top.ln]
        BY <2>4 DEF Open
      <4>2. PICK e : infstack' = [infstack EXCEPT ![Len(infstack)] = [Top EXCEPT !.end = e]]
        BY <2>7 DEF FillData
      <4>3. [Top EXCEPT !.end = e].file = Top.file /\ [Top EXCEPT !.end = e].pos = Top.pos
        BY <2>4 DEF Open
      <4> QED BY <4>2, <4>3
    <3>2. r \in Files(disk)
      <4>1. infstack'[Len(infstack)] = r /\ Len(infstack) \in DOMAIN infstack'
        BY <2>4, <2>5, <3>1
      <4> QED BY <2>5, <4>1
    <3>3. Flow(disk, infstack') = Rest(disk, r) \o Flow(disk, Front(infstack))
      BY <2>3, <2>5, <3>1, <3>2, FlowSame
    <3>4. Rest(disk, r) = Rest(disk, Top) BY <3>1 DEF Rest
    <3> QED BY <2>3, <2>6, <3>3, <3>4 DEF Stream
  <2>8. CASE FillEof
    <3>1. infstack' = Front(infstack) /\ Top.end = Len(disk[Top.file])
      BY <2>8 DEF FillEof, AtEnd
    <3>2. Top.pos = Len(disk[Top.file])
      <4>1. Top.pos \in Nat /\ Top.end \in Nat /\ Top.pos <= Top.end
        BY <2>4 DEF FileInv, Open
      <4> QED BY <2>3, <3>1, <4>1
    <3>3. Rest(disk, Top) \in Seq(Chars(disk)) /\ Len(Rest(disk, Top)) = 0
      <4>1. /\ Rest(disk, Top) \in Seq(Chars(disk))
            /\ Len(Rest(disk, Top)) = Len(disk[Top.file]) - Top.pos
        BY <2>5, <2>6, RestIs
      <4>2. Len(disk[Top.file]) \in Nat BY <2>4, <3>2 DEF Open
      <4> QED BY <3>2, <4>1, <4>2
    <3>4. Rest(disk, Top) = << >> BY <3>3
    <3>5. Flow(disk, Front(infstack)) \in Seq(Chars(disk)) BY <2>5, <2>6, FlowType
    <3>6. << >> \o Flow(disk, Front(infstack)) = Flow(disk, Front(infstack)) BY <3>5
    <3> QED BY <2>3, <2>6, <3>1, <3>4, <3>6 DEF Stream
  <2> QED BY <2>2, <2>7, <2>8
<1> QED BY <1>1, <1>2, <1>3, ReadsNothing

\* The end of all input.
LEMMA EndOfInputGoes == ASSUME Around, TextInv, EndOfInput PROVE Follows
<1>1. /\ pc \in Reading /\ infstack = << >> /\ infstack' = << >>
      /\ UNCHANGED <<disk, infiles, interactive, aborts, nest, quited, want, tib>>
      /\ quited
  BY DEF EndOfInput, inputVars, progVars, TextInv, Reading
<1>2. Stream = << >> /\ Stream' = << >>
  <2>1. Stream = << >> BY <1>1, StreamEmpty
  <2>2. Stream' = Stream BY <1>1, StreamIs
  <2> QED BY <2>1, <2>2
<1>3. Loaded' = Loaded BY <1>1, LoadedIs
<1>4. Word = << >> BY <1>1, TakenIs DEF Reading
<1>5. CASE pc \in {"comment", "line"}
  <2>1. pc' \in {"top", "exit"} BY <1>5 DEF EndOfInput
  <2>2. Mode \in {"comment"} \cup Source!Delimiters
    <3>1. pc = "line" => want \in {Newline, ")"} BY DEF TextInv
    <3> QED BY <1>5, <3>1, ModeIs DEF Source!Delimiters, Newline
  <2>3. Text = << >> BY <1>2, <1>5, TextIsStream
  <2>4. Text' = << >> BY <1>2, <2>1, TextIsNext DEF Around
  <2>5. Mode' \in {"words", "over"} /\ Word' = << >> BY <1>1, <2>1, ModeIsNext, TakenIs
  <2>6. Source!EndOfText BY <1>1, <1>3, <1>4, <2>2, <2>3, <2>4, <2>5 DEF Source!EndOfText
  <2> QED BY <2>6 DEF Follows, Source!Next
<1>6. CASE pc \in {"skip", "scan"}
  <2>1. tib \in Seq(Chars(disk)) /\ \A i \in DOMAIN tib : ~ IsSpace(tib[i])
    BY <1>6 DEF TextInv
  <2>2. want \in {"word"} \cup Names \cup Sections BY <1>6 DEF TextInv
  <2>3. Text = tib
    <3>1. Text = tib \o Stream BY <1>6, TextIs DEF Around
    <3>2. tib \o << >> = tib BY <2>1
    <3> QED BY <1>2, <3>1, <3>2
  <2>4. CASE want = "word"
    <3>1. pc' = "main" BY <1>6, <2>4 DEF EndOfInput
    <3>2. Mode = "words" /\ Mode' = "main" /\ Word' = << >>
      BY <1>6, <2>4, <3>1, ModeIs, ModeIsNext, TakenIs
    <3>3. Text' = << >> BY <1>2, <3>1, TextIsNext DEF Around
    <3>4. Source!EndOfText BY <1>1, <1>3, <1>4, <2>1, <2>3, <3>2, <3>3 DEF Source!EndOfText
    <3> QED BY <3>4 DEF Follows, Source!Next
  <2>5. CASE want # "word"
    <3>1. pc' = "act" BY <1>6, <2>5 DEF EndOfInput
    <3>2. Word' = tib /\ Text' = << >>
      BY <1>1, <1>2, <3>1, TakenIs, TextIsNext DEF Around
    <3>3. ~ Nameless /\ ~ Nameless' BY <1>1, <1>6, <2>3, <3>1 DEF Nameless
    <3>4. Mode' = Mode /\ Mode # "words"
      BY <1>1, <1>6, <2>2, <2>5, <3>1, <3>3, ModeIs, ModeIsNext DEF Sections, Names
    <3>5. CASE tib = << >>
      BY <1>1, <1>3, <1>4, <2>3, <3>2, <3>4, <3>5, Stutters
    <3>6. CASE tib # << >>
      <4>1. Mode \in Source!WordModes BY <1>6, WordMode
      <4> DEFINE s == << >>
      <4>2. s \in Seq(Chars(disk)) /\ Text = tib \o s BY <2>1, <2>3
      <4>3. s = << >> OBVIOUS
      <4> HIDE DEF s
      <4> QED BY <1>1, <1>3, <1>4, <2>1, <3>2, <3>4, <3>6, <4>1, <4>2, <4>3, WordRead
    <3> QED BY <3>5, <3>6
  <2> QED BY <2>4, <2>5
<1> QED BY <1>1, <1>5, <1>6 DEF Reading

\* A step of those who send the input, or none.
LEMMA NothingGoes ==
  ASSUME UNCHANGED <<disk, infstack, infiles, interactive, pc, want, quited, tib, nest, aborts>>
  PROVE  Follows
<1>1. Text' = Text BY Zenon DEF Text, Unread
<1>2. Mode' = Mode /\ Word' = Word
  <2>1. Nameless' = Nameless BY <1>1 DEF Nameless
  <2> QED BY <2>1 DEF Mode, Word
<1>3. Loaded' = Loaded BY LoadedIs
<1> QED BY <1>1, <1>2, <1>3, Stutters

\* The interrupt key.
LEMMA InterruptGoes == ASSUME Around, TextInv, Interrupt PROVE Follows
<1>1. /\ pc \in Reading /\ aborts' = aborts + 1 /\ IoFlushFilling
      /\ UNCHANGED <<disk, infiles, interactive, nest, quited, want, tib>>
      /\ pc' = pc \/ pc' = "exit"
  BY DEF Interrupt, Aborted
<1>2. Cuts BY <1>1, FlushFillingCuts DEF Around
<1>3. PICK u, s \in Seq(Chars(disk)) : Stream = u \o s /\ Stream' = s BY <1>2 DEF Cuts
<1>4. Loaded' = Loaded BY <1>1, LoadedIs
<1>5. tib \in Seq(Chars(disk)) /\ u \o s \in Seq(Chars(disk))
  BY <1>3 DEF TextInv, Around
<1>6. Word = << >> /\ Word' = << >> BY <1>1, TakenIs DEF Reading
<1>7. CASE pc' = "exit"
  <2>1. Mode' = "over" /\ Text' = << >> BY <1>7, ModeIsNext, TextIsNext DEF Around
  <2> DEFINE h == << >> v == Text
  <2>2. v \in Seq(Chars(disk))
    <3>1. CASE pc \in {"skip", "scan"}
      <4>1. Text = tib \o Stream BY <3>1, TextIs DEF Around
      <4>2. tib \o Stream \in Seq(Chars(disk)) BY <1>5 DEF Around
      <4> QED BY <4>1, <4>2
    <3>2. CASE pc \notin {"skip", "scan", "exit"} BY <3>2, TextIsStream DEF Around
    <3> QED BY <1>1, <3>1, <3>2 DEF Reading
  <2>3. h \in Seq(Chars(disk)) /\ \A i \in DOMAIN h : ~ IsSpace(h[i]) OBVIOUS
  <2>4. Text = v /\ Text' = h \o h BY <2>1
  <2> HIDE DEF v
  <2>5. v = h \o (v \o h) BY <2>2
  <2> HIDE DEF h
  <2>6. Text = h \o (v \o h) BY <2>4, <2>5
  <2> QED BY <1>1, <1>4, <1>6, <2>1, <2>2, <2>3, <2>4, <2>6, Abandons
<1>8. CASE pc' = pc /\ pc \in {"skip", "scan"}
  <2>1. \A i \in DOMAIN tib : ~ IsSpace(tib[i]) BY <1>8 DEF TextInv
  <2>2. want \in {"word"} \cup Names \cup Sections BY <1>8 DEF TextInv
  <2>3. Text = tib \o (u \o s) BY <1>3, <1>8, TextIs DEF Around
  <2>4. Text' = tib \o s
    <3>1. Text' = tib' \o Stream' BY <1>8, TextIsNext DEF Around
    <3> QED BY <1>1, <1>3, <3>1
  <2>5. Mode' = Mode \/ (Mode \in Source!Naming /\ Mode' \in Source!Naming)
    BY <1>1, <1>8, <2>2, ModeIs, ModeIsNext DEF Source!Naming
  <2> QED BY <1>1, <1>4, <1>5, <1>6, <2>1, <2>3, <2>4, <2>5, Abandons
<1>9. CASE pc' = pc /\ pc \in {"comment", "line"}
  <2>1. Text = Stream /\ Text' = Stream' BY <1>9, TextIsStream, TextIsStreamNext
  <2>2. Mode' = Mode BY <1>1, <1>9, ModeIs, ModeIsNext
  <2> QED BY <1>1, <1>2, <1>4, <1>6, <2>1, <2>2, CutsShort
<1> QED BY <1>1, <1>7, <1>8, <1>9 DEF Reading

----------------------------------------------------------------------------
(***************************************************************************)
(* The steps that act on a word.                                           *)
(***************************************************************************)
\* What is known where a word was read.
LEMMA AtWord ==
  ASSUME Around, TextInv, pc = "act"
  PROVE  /\ Text = Stream /\ Word = tib /\ quited
         /\ want = "word" => Mode = "words"
BY TextIsStream, TakenIs, ModeIs DEF TextInv

\* Where the program goes on in the loop of dointerpret.
LEMMA BackToTop ==
  ASSUME Around, pc' = "top", quited' PROVE Mode' = "words" /\ Text' = Stream' /\ Word' = << >>
BY ModeIsNext, TextIsStreamNext, TakenIs

\* Where a word is asked for.
LEMMA AsksFor ==
  ASSUME Around, NEW for, NEW where, DoWord(for, where), for \in {"word"} \cup Names \cup Sections
  PROVE  /\ Text' = Stream' /\ Word' = << >>
         /\ Mode' = IF for = "word" THEN "words" ELSE IF for \in Sections THEN for ELSE "name"
<1>1. pc' = "skip" /\ want' = for /\ tib' = << >> BY DEF DoWord
<1>2. ~ Nameless' BY <1>1 DEF Nameless
<1>3. Text' = Stream' /\ Word' = << >> BY <1>1, TextIsStreamNext, TakenIs
<1>4. CASE for = "word" BY <1>1, <1>3, <1>4, ModeIsNext
<1>5. CASE for \in Sections BY <1>1, <1>3, <1>5, ModeIsNext DEF Sections
<1>6. CASE for \in Names BY <1>1, <1>2, <1>3, <1>6, ModeIsNext DEF Names, Sections
<1> QED BY <1>4, <1>5, <1>6

\* An empty word is in no vocabulary.
LEMMA FoundNamed == ASSUME IInv, Found PROVE tib # << >>
<1>1. voc \in DOMAIN Dictionary /\ tib \in DOMAIN Dictionary[voc]
  BY DEF IInv, ProgTypes, Found
<1> QED BY <1>1, DictionaryAssumption

\* A word that was found, but for abort.
LEMMA FoundGoes ==
  ASSUME IInv, Around, TextInv, Found, NEW word, word = Dictionary[voc][tib],
         \/ Thread(word) \/ Command(word) \/ CommentWord(word) \/ NameWord(word)
         \/ Conditional(word)
  PROVE  Follows
<1>1. /\ pc = "act" /\ want = "word"
      /\ UNCHANGED <<disk, infstack, infiles, interactive, aborts>>
  BY DEF Thread, Command, CommentWord, NameWord, Conditional, Executed, Acting, UNCHANGED_ACT
<1>2. Text = Stream /\ Word # << >> /\ Mode = "words" /\ quited
  BY <1>1, AtWord, FoundNamed
<1>3. Stream' = Stream /\ Loaded' = Loaded BY <1>1, StreamIs, LoadedIs
<1>4. CASE Thread(word)
  <2>1. pc' = "top" /\ UNCHANGED <<quited, nest>> BY <1>4 DEF Thread, KeepRegisters
  <2>2. Mode' = "words" /\ Text' = Stream' /\ Word' = << >> BY <1>2, <2>1, BackToTop
  <2> QED BY <1>1, <1>2, <1>3, <2>1, <2>2, ActsOn
<1>5. CASE Command(word)
  <2>1. pc' = "top" /\ nest' = nest BY <1>5 DEF Command
  <2>2. Mode' \in {"words", "leaving"} /\ Text' = Stream' /\ Word' = << >>
    BY <2>1, ModeIsNext, TextIsStreamNext, TakenIs
  <2> QED BY <1>1, <1>2, <1>3, <2>1, <2>2, ActsOn
<1>6. CASE CommentWord(word)
  <2>1. word.does = "until" => word.delimiter \in {Newline, ")"}
    <3>1. voc \in DOMAIN Dictionary /\ tib \in DOMAIN Dictionary[voc]
      BY DEF Found, IInv, ProgTypes
    <3> QED BY <3>1, WordTypes
  <2>2. \/ pc' = "comment" /\ nest' = 1
        \/ pc' = "line" /\ want' \in {Newline, ")"} /\ nest' = nest
    BY <1>6, <2>1 DEF CommentWord
  <2>3. \/ Mode' = "comment" /\ nest' = 1
        \/ Mode' \in {Newline, ")"} /\ nest' = nest
    BY <2>2, ModeIsNext
  <2>4. Text' = Stream' /\ Word' = << >> BY <2>2, TextIsStreamNext, TakenIs
  <2> QED BY <1>1, <1>2, <1>3, <2>3, <2>4, ActsOn
<1>7. CASE NameWord(word)
  <2>1. DoWord(word.does, Context) /\ word.does \in Names /\ nest' = nest
    BY <1>7 DEF NameWord, KeepRegisters
  <2>2. word.does # "word" /\ word.does \notin Sections BY <2>1 DEF Names, Sections
  <2>3. Mode' = "name" /\ Text' = Stream' /\ Word' = << >> BY <2>1, <2>2, AsksFor
  <2> QED BY <1>1, <1>2, <1>3, <2>1, <2>3, ActsOn
<1>8. CASE Conditional(word)
  <2>1. \/ pc' = "top" /\ UNCHANGED <<nest, quited>>
        \/ \E from \in Sections : DoWord(from, Context) /\ nest' = 0
    BY <1>8 DEF Conditional, SkipSection, Sections
  <2>2. CASE pc' = "top" /\ UNCHANGED <<nest, quited>>
    <3>1. Mode' = "words" /\ Text' = Stream' /\ Word' = << >> BY <1>2, <2>2, BackToTop
    <3> QED BY <1>1, <1>2, <1>3, <2>2, <3>1, ActsOn
  <2>3. CASE \E from \in Sections : DoWord(from, Context) /\ nest' = 0
    <3>1. PICK from \in Sections : DoWord(from, Context) /\ nest' = 0 BY <2>3
    <3>2. from # "word" BY DEF Sections
    <3>3. Mode' = from /\ Text' = Stream' /\ Word' = << >> BY <3>1, <3>2, AsksFor
    <3> QED BY <1>1, <1>2, <1>3, <3>1, <3>3, ActsOn
  <2> QED BY <2>1, <2>2, <2>3
<1> QED BY <1>4, <1>5, <1>6, <1>7, <1>8

\* doabort, for a word of the interpreter or a name.
LEMMA AbortGoes ==
  ASSUME Around, TextInv, Abort, pc = "act", pc' = "top", want \in {"word"} \cup Names,
         UNCHANGED <<infiles, interactive, nest, quited>>
  PROVE  Follows
<1>1. IoFlush /\ aborts' = aborts + 1 BY DEF Abort, Aborted
<1>2. Cuts BY <1>1, FlushCuts DEF Around
<1>3. Text = Stream /\ quited BY AtWord
<1>4. Mode' = "words" /\ Text' = Stream' /\ Word' = << >> BY <1>3, BackToTop
<1>5. Mode \in {"words", "name", "nameless"} BY ModeIs
<1>6. Loaded' = Loaded BY LoadedIs
<1>7. Mode' = Mode \/ (Mode \in {"name", "nameless"} /\ Mode' = "words") BY <1>4, <1>5
<1> QED BY <1>1, <1>2, <1>3, <1>4, <1>6, <1>7, CutsShort DEF Around

\* The words that were not found, and abort.
LEMMA UnfoundGoes ==
  ASSUME Around, TextInv, NEW word,
         AbortWord(word) \/ Cast \/ CastStray \/ Literal \/ Unknown
  PROVE  Follows
<1>1. pc = "act" /\ want = "word" /\ UNCHANGED <<infiles, interactive, nest>>
  BY DEF AbortWord, Cast, CastStray, Literal, Unknown, Acting, Abort, UNCHANGED_ACT,
         KeepRegisters, inputVars
<1>2. Text = Stream /\ Word = tib /\ Mode = "words" /\ quited BY <1>1, AtWord
<1>3. Loaded' = Loaded BY <1>1, LoadedIs
<1>4. CASE AbortWord(word) \/ Unknown \/ (CastStray /\ Abort /\ pc' = "top")
  <2>1. Abort /\ pc' = "top" /\ UNCHANGED quited BY <1>4 DEF AbortWord, Unknown, CastStray
  <2> QED BY <1>1, <2>1, AbortGoes
<1>5. ASSUME ~ (AbortWord(word) \/ Unknown \/ (CastStray /\ Abort /\ pc' = "top"))
      PROVE  Follows
  <2>1. UNCHANGED <<infstack, aborts, quited>>
    BY <1>5 DEF Cast, CastStray, Literal, KeepRegisters, inputVars
  <2>2. Stream' = Stream BY <2>1, StreamIs DEF Around
  <2>3. (Cast \/ CastStray) => tib # << >>
    <3>1. ASSUME Len(tib) > 1 PROVE tib # << >> BY <3>1
    <3> QED BY <3>1 DEF Cast, CastStray, IsCast
  <2>4. CASE pc' = "top"
    <3>1. Mode' = "words" /\ Text' = Stream' /\ Word' = << >> BY <1>2, <2>1, <2>4, BackToTop
    <3>2. CASE tib # << >>
      BY <1>1, <1>2, <1>3, <2>1, <2>2, <3>1, <3>2, ActsOn DEF Around
    <3>3. CASE tib = << >>
      BY <1>1, <1>2, <1>3, <2>1, <2>2, <3>1, <3>3, Stutters DEF Around
    <3> QED BY <3>2, <3>3
  <2>5. CASE Cast
    <3>1. PICK where : DoWord("word", where) BY <2>5 DEF Cast
    <3>2. Mode' = "words" /\ Text' = Stream' /\ Word' = << >> BY <3>1, AsksFor
    <3> QED BY <1>1, <1>2, <1>3, <2>1, <2>2, <2>3, <2>5, <3>2, ActsOn DEF Around
  <2>6. CASE CastStray /\ pc' = "exit"
    <3>1. Mode' = "over" /\ Text' = << >> /\ Word' = << >>
      BY <2>6, ModeIsNext, TextIsNext, TakenIs DEF Around
    <3> QED BY <1>1, <1>2, <1>3, <2>1, <2>3, <2>6, <3>1, ActsLast DEF Around
  <2>7. pc' = "top" \/ Cast \/ (CastStray /\ pc' = "exit")
    BY <1>5 DEF CastStray, Literal
  <2> QED BY <2>4, <2>5, <2>6, <2>7
<1> QED BY <1>4, <1>5

\* Where a name was read, it is not empty, unless what is left begins with a
\* space or nothing is left.
LEMMA NameRead ==
  ASSUME Around, TextInv, pc = "act", want \in Names
  PROVE  Mode = "nameless" \/ (Mode = "name" /\ (Word # << >> \/ Text = << >>))
<1>1. Text = Stream /\ Word = tib BY AtWord
<1>2. Mode = IF Nameless THEN "nameless" ELSE "name" BY ModeIs
<1>3. ASSUME ~ Nameless, tib = << >> PROVE Text = << >>
  <2>1. infstack = << >> BY <1>3 DEF Nameless
  <2> QED BY <1>1, <2>1, StreamEmpty
<1> QED BY <1>1, <1>2, <1>3

LEMMA NameGoes ==
  ASSUME Around, TextInv, SharpInclude \/ SharpPath \/ Tick \/ IfDefined PROVE Follows
<1>1. pc = "act" /\ want \in Names
  BY DEF SharpInclude, SharpPath, Tick, IfDefined, Names
<1>2. Text = Stream /\ quited BY <1>1, AtWord
<1>3. Mode = "nameless" \/ (Mode = "name" /\ (Word # << >> \/ Text = << >>))
  BY <1>1, NameRead
<1>4. CASE SharpInclude
  <2>1. pc' = "top" /\ IoInfile(tib) /\ UNCHANGED <<interactive, quited, nest, aborts>>
    BY <1>4 DEF SharpInclude, progVars
  <2>2. \/ \E f \in DOMAIN disk \ {Stdin} : Loads(f)
        \/ Stream' = Stream /\ Loaded' = Loaded
    BY <2>1, InfileLoads DEF Around
  <2>3. Mode' = "words" /\ Text' = Stream' /\ Word' = << >> BY <1>2, <2>1, BackToTop
  <2> QED BY <1>2, <1>3, <2>1, <2>2, <2>3, TakesName DEF Around
<1>5. CASE Tick /\ Abort
  <2>1. pc' = "top" /\ UNCHANGED <<infiles, interactive, nest, quited>>
    BY <1>5 DEF Tick, Abort
  <2> QED BY <1>1, <1>5, <2>1, AbortGoes
<1>6. CASE SharpPath \/ (Tick /\ UNCHANGED <<inputVars, aborts>>) \/ IfDefined
  <2>1. UNCHANGED <<infstack, infiles, interactive, quited, aborts>>
    BY <1>6 DEF SharpPath, Tick, IfDefined, inputVars, progVars
  <2>2. Stream' = Stream /\ Loaded' = Loaded BY <2>1, StreamIs, LoadedIs DEF Around
  <2>3. \/ pc' = "top" /\ nest' = nest
        \/ DoWord("#if", Context) /\ nest' = 0
    BY <1>6 DEF SharpPath, Tick, IfDefined, SkipSection, progVars
  <2>4. CASE pc' = "top" /\ nest' = nest
    <3>1. Mode' = "words" /\ Text' = Stream' /\ Word' = << >> BY <1>2, <2>1, <2>4, BackToTop
    <3> QED BY <1>2, <1>3, <2>1, <2>2, <2>4, <3>1, TakesName DEF Around
  <2>5. CASE DoWord("#if", Context) /\ nest' = 0
    <3>1. Mode' = "#if" /\ Text' = Stream' /\ Word' = << >>
      BY <2>5, AsksFor DEF Sections
    <3> QED BY <1>2, <1>3, <2>1, <2>2, <2>5, <3>1, TakesName DEF Around
  <2> QED BY <2>3, <2>4, <2>5
<1> QED BY <1>4, <1>5, <1>6 DEF Tick

\* dosharpif and dosharpelse
LEMMA SkippedGoes ==
  ASSUME IInv, Around, TextInv, SectionsApart, Skipped PROVE Follows
<1>1. /\ pc = "act" /\ want \in Sections /\ nest \in Nat
      /\ UNCHANGED <<infstack, infiles, interactive, quited, aborts>>
  BY DEF Skipped, inputVars, IInv, ProgTypes
<1>2. Text = Stream /\ Word = tib /\ quited /\ Mode = want BY <1>1, AtWord, ModeIs
<1>3. Stream' = Stream /\ Loaded' = Loaded BY <1>1, StreamIs, LoadedIs DEF Around
<1> DEFINE ends == tib = <<"#then">> \/ (tib = <<"#else">> /\ want = "#if" /\ nest = 0)
<1>4. ~ (tib = <<"#if">> /\ after) BY <1>1 DEF SectionsApart
<1>5. /\ nest' = IF tib = <<"#if">> THEN nest + 1
                 ELSE IF ends /\ nest > 0 THEN nest - 1 ELSE nest
      /\ IF ends /\ nest = 0 THEN pc' = "top" ELSE DoWord(want, voc)
  BY <1>4 DEF Skipped
<1>6. /\ Mode' = IF ends /\ nest = 0 THEN "words" ELSE want
      /\ Text' = Stream' /\ Word' = << >>
  <2>1. CASE ends /\ nest = 0
    <3>1. pc' = "top" BY <1>5, <2>1
    <3>2. Mode' = "words" /\ Text' = Stream' /\ Word' = << >> BY <1>1, <1>2, <3>1, BackToTop
    <3> QED BY <2>1, <3>2
  <2>2. CASE ~ (ends /\ nest = 0)
    <3>1. DoWord(want, voc) BY <1>5, <2>2
    <3>2. want # "word" BY <1>1 DEF Sections
    <3>3. Mode' = want /\ Text' = Stream' /\ Word' = << >> BY <1>1, <3>1, <3>2, AsksFor
    <3> QED BY <2>2, <3>3
  <2> QED BY <2>1, <2>2
<1>7. CASE tib = << >>
  <2>1. << >> # <<"#if">> /\ << >> # <<"#then">> /\ << >> # <<"#else">> OBVIOUS
  <2>2. nest' = nest /\ Mode' = want BY <1>5, <1>6, <1>7, <2>1
  <2> QED BY <1>1, <1>2, <1>3, <1>6, <1>7, <2>2, Stutters DEF Around
<1>8. CASE tib # << >>
  <2>1. <<"#if">> # <<"#then">> /\ <<"#if">> # <<"#else">> /\ <<"#then">> # <<"#else">> OBVIOUS
  <2>2. nest > 0 <=> nest # 0 BY <1>1
  <2>3. nest' = CASE Word = <<"#if">> -> nest + 1
                  [] Word = <<"#then">> /\ nest > 0 -> nest - 1
                  [] OTHER -> nest
    BY <1>2, <1>5, <2>1, <2>2
  <2>4. Mode' = IF nest = 0 /\ (Word = <<"#then">> \/ (Word = <<"#else">> /\ Mode = "#if"))
                THEN "words" ELSE Mode
    BY <1>2, <1>6
  <2>5. Mode \in Source!Sections BY <1>1, <1>2 DEF Sections, Source!Sections
  <2>6. Source!InSection
    BY <1>1, <1>2, <1>3, <1>6, <1>8, <2>3, <2>4, <2>5 DEF Source!InSection, Around
  <2> QED BY <2>6 DEF Follows, Source!Next
<1> QED BY <1>7, <1>8
----------------------------------------------------------------------------
\* Every step of the program is a step of the text, or none.
LEMMA StepFollows ==
  ASSUME IInv, TextInv, SectionsApart, [Next]_vars PROVE [Source!Next]_(Source!textVars)
<1>1. Around BY AroundStep
<1>2. CASE MainLoad \/ MainInteract \/ MainEnd BY <1>1, <1>2, MainGoes DEF Follows
<1>3. CASE Leave BY <1>1, <1>3, LeaveGoes DEF Follows
<1>4. CASE NextWord BY <1>1, <1>4, NextWordGoes DEF Follows
<1>5. CASE Skip BY <1>1, <1>5, SkipGoes DEF Follows
<1>6. CASE Scan BY <1>1, <1>6, ScanGoes DEF Follows
<1>7. CASE Comment BY <1>1, <1>7, CommentGoes DEF Follows
<1>8. CASE Line BY <1>1, <1>8, LineGoes DEF Follows
<1>9. CASE FillBuffer BY <1>1, <1>9, FillGoes DEF Follows
<1>10. CASE EndOfInput BY <1>1, <1>10, EndOfInputGoes DEF Follows
<1>11. CASE Act
  <2> DEFINE Goes(word) == \/ Thread(word) \/ Command(word) \/ CommentWord(word)
                           \/ NameWord(word) \/ Conditional(word)
  <2>1. CASE Found /\ \E word : word = Dictionary[voc][tib] /\ Goes(word)
    <3>1. PICK word : word = Dictionary[voc][tib] /\ Goes(word) BY <2>1
    <3> QED BY <1>1, <2>1, <3>1, FoundGoes DEF Follows
  <2>2. CASE (\E word : AbortWord(word)) \/ Cast \/ CastStray \/ Literal \/ Unknown
    BY <1>1, <2>2, UnfoundGoes DEF Follows
  <2>3. CASE SharpInclude \/ SharpPath \/ Tick \/ IfDefined BY <1>1, <2>3, NameGoes DEF Follows
  <2>4. CASE Skipped BY <1>1, <2>4, SkippedGoes DEF Follows
  <2> QED BY <1>11, <2>1, <2>2, <2>3, <2>4, Zenon DEF Act
<1>12. CASE Interrupt BY <1>1, <1>12, InterruptGoes DEF Follows
<1>13. CASE Input \/ Done \/ UNCHANGED vars
  <2>1. UNCHANGED <<disk, infstack, infiles, interactive, pc, want, quited, tib, nest, aborts>>
    BY <1>13 DEF Input, Arrive, Done, vars, inputVars, progVars
  <2> QED BY <2>1, NothingGoes DEF Follows
<1> QED BY <1>2, <1>3, <1>4, <1>5, <1>6, <1>7, <1>8, <1>9, <1>10, <1>11, <1>12, <1>13
     DEF Next, Step

\* The program starts with an empty text.
LEMMA InitFollows == Init => Source!Init
<1> SUFFICES ASSUME Init PROVE Source!Init OBVIOUS
<1>1. /\ pc = "main" /\ infstack = << >> /\ infiles = {} /\ interactive = FALSE
      /\ nest = 0 /\ aborts = 0
  BY DEF Init, InputInit
<1>2. StackText BY InitInv, StackFiles
<1>3. Text = << >> BY <1>1, <1>2, TextIs, StreamEmpty
<1>4. Word = << >> /\ Mode = "main" /\ Loaded = {} BY <1>1, ModeIs, TakenIs DEF Loaded
<1> QED BY <1>1, <1>3, <1>4 DEF Source!Init

\* The stack of files with its buffers, reads, ends and interrupts is one text that
\* is read in order, for all texts and sizes, as long as no section begins right
\* behind one inside a section that is left out (io.c; kernel.c, doword,
\* dosharpinclude, doparen, dosharpif, dosharpelse).
THEOREM TextImplemented == Spec /\ []SectionsApart => ImplementsSource
<1>1. Init => IInv /\ TextInv /\ Source!Init BY InitTypes, InitText, InitFollows
<1>2. IInv /\ TextInv /\ [Next]_vars => IInv' /\ TextInv' BY StepTypes, StepText
<1>3. IInv /\ TextInv /\ SectionsApart /\ [Next]_vars => [Source!Next]_(Source!textVars)
  BY StepFollows
<1> QED BY <1>1, <1>2, <1>3, PTL DEF Spec, ImplementsSource, Source!Spec
============================================================================
