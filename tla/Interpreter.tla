---------------------------- MODULE Interpreter ----------------------------
(***************************************************************************)
(* A session of the foreground task: the main program that loads its       *)
(* argument files and then reads the standard input (src/forth.c), the     *)
(* outer interpreter with the words that read on in the input (src/        *)
(* kernel.c), abort, and the interrupt key (src/error.c), over the file    *)
(* stack of InputStack.                                                    *)
(*                                                                         *)
(* Of the parameter stack the model keeps the depth that the user's words  *)
(* leave; the interpreter's own cells, pushed and dropped within an        *)
(* action, are left out.  A dictionary gives for each vocabulary the words *)
(* that are found in it: does says what a word is, effect how many cells   *)
(* it leaves.                                                              *)
(***************************************************************************)
EXTENDS InputStack, Numbers, FiniteSets

CONSTANTS Context,        \* the search order; the other vocabularies are named by words
          Dictionary,     \* the words found in each of them
          Code,           \* the code of each character, of numbers and others
          CommandLines,   \* the file arguments the program may be called with
          MaxAborts       \* bound on interrupts, as a bound on aborts so far

\* What a word has, by what it does; a vocabulary has words.
ASSUME DictionaryAssumption ==
  /\ Context \in DOMAIN Dictionary
  /\ \A v \in DOMAIN Dictionary : \A name \in DOMAIN Dictionary[v] :
       LET word == Dictionary[v][name] IN
       /\ name # <<>> /\ word.effect \in Int
       /\ word.does = "radix" => word.radix \in Nat
       /\ word.does = "until" => word.delimiter \in {Newline, ")"}
       /\ word.does = "vocabulary" => name \in DOMAIN Dictionary

VARIABLES args,           \* main: the file arguments still to load
          interactive,    \* main: the standard input has been opened
          quited,         \* dointerpret: FALSE after bye
          pc,             \* where the program is
          want,           \* what the word that is being read is for
          voc,            \* where it will be looked up
          tib,            \* the word read so far
          nest,           \* doparen, dosharpelse: calls of itself
          after,          \* dosharpif, dosharpelse: such a call has just returned
          depth, state, base,
          aborts          \* how many times abort was called

progVars == <<args, interactive, quited, want, voc, tib, nest, after, depth, state, base, aborts>>
vars == <<inputVars, progVars, pc>>

Reading == {"skip", "scan", "comment", "line"}
Sections == {"#if", "#else"}
Names == {"#include", "#path", "#ifdef", "#ifundef", "'"}

Init == /\ InputInit
        /\ args \in CommandLines /\ interactive = FALSE
        /\ quited = TRUE /\ pc = "main" /\ want = "word" /\ voc = Context
        /\ tib = <<>> /\ nest = 0 /\ after = FALSE
        /\ depth = 0 /\ state = FALSE /\ base = 10 /\ aborts = 0
----------------------------------------------------------------------------
\* doabort of the foreground task: sinit, doleftbracket, io_flush, doterminate.
Aborted == depth' = 0 /\ state' = FALSE /\ aborts' = aborts + 1
Abort == /\ Aborted
         /\ IoFlush
         /\ UNCHANGED <<disk, terminal, arrived, infiles, paths, filling, others>>

\* doquit, and with it dointerpret: the depth stays as it is.
Quit == pc' = "top" /\ quited' = TRUE /\ state' = FALSE

\* The loop of main over the arguments: an argument that is not found ends the
\* program; one that was loaded already, or for which there is no room, starts
\* the interpreter on what is left in the stack of files.
MainLoad ==
  /\ pc = "main" /\ args # <<>>
  /\ args' = Tail(args)
  /\ IF Hits(Head(args)) = {}
     THEN /\ pc' = "exit" /\ infstack' = <<>>
          /\ UNCHANGED <<quited, state, infiles, errno>>
     ELSE IoInfile(Head(args)) /\ Quit
  /\ UNCHANGED <<disk, terminal, arrived, paths, filling, others>>
  /\ UNCHANGED <<interactive, want, voc, tib, nest, after, depth, base, aborts>>

MainInteract ==
  /\ pc = "main" /\ args = <<>> /\ ~ interactive
  /\ interactive' = TRUE
  /\ IoInfileStdin /\ Quit
  /\ UNCHANGED <<disk, terminal, arrived, infiles, paths, filling, others, errno>>
  /\ UNCHANGED <<args, want, voc, tib, nest, after, depth, base, aborts>>

\* io_finish closes what is still open.
MainEnd == /\ pc = "main" /\ args = <<>> /\ interactive
           /\ pc' = "exit" /\ infstack' = <<>>
           /\ UNCHANGED <<disk, terminal, arrived, infiles, paths, filling, others, errno, progVars>>
----------------------------------------------------------------------------
\* doword begins: the next word is read, for the interpreter or for a word.
DoWord(for, where) == pc' = "skip" /\ want' = for /\ voc' = where /\ tib' = <<>>

\* The head of the loop of dointerpret.
Leave == /\ pc = "top" /\ ~ quited
         /\ pc' = "main" /\ quited' = TRUE
         /\ UNCHANGED <<inputVars, args, interactive, want, voc, tib, nest, after, depth, state,
                        base, aborts>>

NextWord ==
  /\ pc = "top" /\ quited
  /\ DoWord("word", Context)
  /\ IF depth < 0 THEN Abort ELSE UNCHANGED <<inputVars, depth, state, aborts>>
  /\ UNCHANGED <<args, interactive, quited, nest, after, base>>

\* The loops that read the input, one character at a time.
ReadVars == <<disk, terminal, arrived, infiles, paths, filling, others, errno>>

\* Mutant of io_skipspace: the character after the space is not put back.
SkipTooFar ==
  /\ pc = "skip" /\ Buffered /\ Getchar(TRUE)
  /\ pc' = IF IsSpace(Char) THEN "skip" ELSE "scan"
  /\ UNCHANGED <<ReadVars, progVars>>

\* io_skipspace: a character that is not a space is put back.
Skip == /\ pc = "skip" /\ Buffered
        /\ \/ IsSpace(Char) /\ Getchar(TRUE) /\ UNCHANGED pc
           \/ ~ IsSpace(Char) /\ pc' = "scan" /\ UNCHANGED infstack
        /\ UNCHANGED <<ReadVars, progVars>>

\* Mutant of io_scan: the newline is counted once more when it ends a word.
ScanCountsTwice ==
  /\ pc = "scan" /\ Buffered
  /\ infstack' = [infstack EXCEPT ![Len(infstack)] =
                    [@ EXCEPT !.pos = @ + 1, !.ln = @ + (IF Char = Newline THEN 2 ELSE 0)]]
  /\ IF IsSpace(Char) THEN pc' = "act" /\ UNCHANGED tib
                      ELSE tib' = Append(tib, Char) /\ UNCHANGED pc
  /\ UNCHANGED <<ReadVars, args, interactive, quited, want, voc, nest, after, depth, state, base,
                 aborts>>

\* io_scan up to white space.
Scan == /\ pc = "scan" /\ Buffered /\ Getchar(TRUE)
        /\ IF IsSpace(Char) THEN pc' = "act" /\ UNCHANGED tib
                            ELSE tib' = Append(tib, Char) /\ UNCHANGED pc
        /\ UNCHANGED <<ReadVars, args, interactive, quited, want, voc, nest, after, depth, state,
                       base, aborts>>

\* doparen; it calls itself for a parenthesis in the comment, and does not
\* count lines.
Comment ==
  /\ pc = "comment" /\ Buffered /\ Getchar(FALSE)
  /\ nest' = CASE Char = "(" -> nest + 1 [] Char = ")" -> nest - 1 [] OTHER -> nest
  /\ pc' = IF nest' = 0 THEN "top" ELSE "comment"
  /\ UNCHANGED <<ReadVars, args, interactive, quited, want, voc, tib, after, depth, state, base,
                 aborts>>

\* io_skip or io_scan up to the character that is wanted.
Line == /\ pc = "line" /\ Buffered /\ Getchar(TRUE)
        /\ pc' = IF Char = want THEN "top" ELSE "line"
        /\ UNCHANGED <<ReadVars, progVars>>

\* Any of these loops calls io_fillbuf for the next buffer.
FillBuffer == pc \in Reading /\ Fill /\ UNCHANGED <<progVars, pc>>

\* Mutant of dointerpret: it does not look for the end of the input.
EndOfInputUnseen ==
  /\ pc \in Reading /\ infstack = <<>>
  /\ pc' = CASE pc = "comment" -> IF nest = 1 THEN "top" ELSE "exit"
             [] OTHER -> IF pc = "line" \/ want = "word" THEN "top" ELSE "act"
  /\ UNCHANGED <<inputVars, progVars>>

\* The end of all input.  dointerpret returns without a look at the word it has
\* read; the words that read a name take theirs.  An outer doparen goes on to read and
\* io_fillbuf ends the program.
EndOfInput ==
  /\ pc \in Reading /\ infstack = <<>>
  /\ pc' = CASE pc = "comment" -> IF nest = 1 THEN "top" ELSE "exit"
             [] pc = "line"    -> "top"
             [] OTHER          -> IF want = "word" THEN "main" ELSE "act"
  /\ UNCHANGED <<inputVars, progVars>>
----------------------------------------------------------------------------
(***************************************************************************)
(* A word was read for dointerpret.                                        *)
(***************************************************************************)
Codes(word) == [i \in DOMAIN word |-> Code[word[i]]]
Acting == pc = "act" /\ want = "word"
Found == tib \in DOMAIN Dictionary[voc]

\* (name): a cast, when name is a word.
IsCast == /\ Len(tib) > 1 /\ Head(tib) = "(" /\ Last(tib) = ")"
          /\ SubSeq(tib, 2, Len(tib) - 1) \in DOMAIN Dictionary[Context]
CastTo == SubSeq(tib, 2, Len(tib) - 1)
CastsVocabulary == Dictionary[Context][CastTo].does = "vocabulary"

\* The registers that a word found may change.
KeepRegisters == UNCHANGED <<depth, state, base, quited, others, nest, after>>
UNCHANGED_ACT == /\ UNCHANGED <<disk, terminal, arrived, filling, args, interactive>>
                 /\ UNCHANGED <<infiles, paths>>

\* dothread: the word is compiled.
Thread(word) ==
  /\ Acting /\ Found /\ word = Dictionary[voc][tib]
  /\ state /\ ~ word.immediate
  /\ pc' = "top"
  /\ KeepRegisters /\ UNCHANGED_ACT
  /\ UNCHANGED <<infstack, errno, want, voc, tib, aborts>>

Executed(word) ==
  /\ Acting /\ Found /\ word = Dictionary[voc][tib]
  /\ ~ state \/ word.immediate
  /\ UNCHANGED_ACT

\* dobinary, dooctal, dodecimal and dohex, which set the base,
Radix(word) == base' = IF word.does = "radix" THEN word.radix ELSE base
\* [ and ],
Bracket(word) == state' = CASE word.does = "[" -> FALSE [] word.does = "]" -> TRUE [] OTHER -> state
\* bye,
Bye(word) == quited' = (word.does # "bye")
\* a word that schedules a task,
Schedules(word) == others' = (others \/ word.does = "task")
\* and docommand with one of them or another word that leaves the input alone.
Command(word) ==
  /\ Executed(word)
  /\ word.does \in {"compute", "[", "]", "bye", "radix", "task", "vocabulary"}
  /\ depth' = depth + word.effect
  /\ Radix(word) /\ Bracket(word) /\ Bye(word) /\ Schedules(word)
  /\ pc' = "top"
  /\ UNCHANGED <<infstack, errno, want, voc, tib, nest, after, aborts>>

\* docommand with the words that read on: comments, and text that is printed.
CommentWord(word) ==
  /\ Executed(word)
  /\ \/ word.does = "(" /\ pc' = "comment" /\ nest' = 1 /\ UNCHANGED want
     \/ word.does = "until" /\ pc' = "line" /\ want' = word.delimiter /\ UNCHANGED nest
  /\ UNCHANGED <<depth, state, base, quited, others, after>>
  /\ UNCHANGED <<infstack, errno, voc, tib, aborts>>

\* docommand with a word that reads a name.
NameWord(word) ==
  /\ Executed(word) /\ word.does \in Names
  /\ DoWord(word.does, Context)
  /\ KeepRegisters
  /\ UNCHANGED <<infstack, errno, aborts>>

\* A section is skipped: words are read that are only compared.
SkipSection(from) == DoWord(from, Context) /\ nest' = 0 /\ after' = FALSE

\* dosharpif with a flag from the stack, and dosharpelse.
Conditional(word) ==
  /\ Executed(word)
  /\ \/ /\ word.does = "#if" /\ depth' = depth - 1
        /\ SkipSection("#if") \/ (pc' = "top" /\ UNCHANGED <<want, voc, tib, nest, after>>)
     \/ word.does = "#else" /\ SkipSection("#else") /\ UNCHANGED depth
  /\ UNCHANGED <<state, base, quited, others, infstack, errno, aborts>>

AbortWord(word) ==
  /\ Acting /\ Found /\ word = Dictionary[voc][tib] /\ word.does = "abort"
  /\ ~ state \/ word.immediate
  /\ pc' = "top"
  /\ Abort
  /\ UNCHANGED <<args, interactive, quited, want, voc, tib, nest, after, base>>

\* A cast: the next word is looked up in the vocabulary only.
Cast == /\ Acting /\ ~ Found /\ IsCast /\ CastsVocabulary
        /\ DoWord("word", CastTo)
        /\ KeepRegisters /\ UNCHANGED_ACT
        /\ UNCHANGED <<infstack, errno, aborts>>

\* A cast to a word that is no vocabulary: its entry is dropped, and flag still
\* says what the word found is.  dothread or docommand takes the cell below for
\* the entry, which is the user's: executed, it may do anything, from nothing to
\* a memory fault, which aborts or ends the program.
CastStray ==
  LET word == Dictionary[Context][CastTo]
      executed == ~ state \/ word.immediate
  IN  /\ Acting /\ ~ Found /\ IsCast /\ ~ CastsVocabulary
      /\ \/ /\ depth' = depth - 1
            /\ pc' \in IF executed THEN {"top", "exit"} ELSE {"top"}
            /\ UNCHANGED <<inputVars, state, aborts>>
         \/ executed /\ pc' = "top" /\ Abort
      /\ UNCHANGED <<args, interactive, quited, want, voc, tib, nest, after, base>>

\* dorecognize, with the recognizer of forth,
Recognized == QNumber(Codes(tib), base).found

\* and doliteral.
Literal ==
  /\ Acting /\ ~ Found /\ ~ IsCast /\ Recognized
  /\ depth' = IF state THEN depth ELSE depth + 1
  /\ pc' = "top"
  /\ UNCHANGED_ACT
  /\ UNCHANGED <<infstack, errno, quited, others, nest, after, state, base, want, voc, tib, aborts>>

\* A word that is neither found nor a literal.
Unknown == /\ Acting /\ ~ Found /\ ~ IsCast /\ ~ Recognized
           /\ pc' = "top"
           /\ Abort
           /\ UNCHANGED <<args, interactive, quited, want, voc, tib, nest, after, base>>

\* dosharpinclude once it has the name: whatever io_infile returns, the
\* interpreter goes on.
SharpInclude == /\ pc = "act" /\ want = "#include"
                /\ IoInfile(tib)
                /\ pc' = "top"
                /\ UNCHANGED <<disk, terminal, arrived, paths, filling, others, progVars>>

\* dosharppath: a new path is searched first.
SharpPath == /\ pc = "act" /\ want = "#path"
             /\ paths' = IoPathName(paths, tib, TRUE)
             /\ pc' = "top"
             /\ UNCHANGED <<disk, terminal, arrived, infstack, infiles, filling, others, errno, progVars>>

\* dotick once it has the name.
Tick == /\ pc = "act" /\ want = "'"
        /\ pc' = "top"
        /\ IF tib \in DOMAIN Dictionary[Context]
           THEN depth' = depth + 1 /\ UNCHANGED <<inputVars, state, aborts>>
           ELSE Abort
        /\ UNCHANGED <<args, interactive, quited, want, voc, tib, nest, after, base>>

\* dosharpifdef and dosharpifundef once they have the name.
IfDefined ==
  /\ pc = "act" /\ want \in {"#ifdef", "#ifundef"}
  /\ IF (tib \in DOMAIN Dictionary[Context]) = (want = "#ifdef")
     THEN pc' = "top" /\ UNCHANGED <<want, voc, tib, nest, after>>
     ELSE SkipSection("#if")
  /\ UNCHANGED <<inputVars, args, interactive, quited, depth, state, base, aborts>>

\* A word that dosharpif or dosharpelse has read.  For a section inside, begun
\* by #if, dosharpelse is called; the word after it is compared with the ends
\* only.
Skipped ==
  /\ pc = "act" /\ want \in Sections
  /\ LET inner == tib = <<"#if">> /\ ~ after
         ends == tib = <<"#then">> \/ (tib = <<"#else">> /\ want = "#if" /\ nest = 0)
     IN  /\ nest' = IF inner THEN nest + 1 ELSE IF ends /\ nest > 0 THEN nest - 1 ELSE nest
         /\ after' = (ends /\ nest > 0)
         /\ IF ends /\ nest = 0 THEN pc' = "top" /\ UNCHANGED <<want, voc, tib>>
                                ELSE DoWord(want, voc)
  /\ UNCHANGED <<inputVars, args, interactive, quited, depth, state, base, aborts>>
----------------------------------------------------------------------------
\* The interrupt key, while the program reads: error_restart returns into the
\* reading loop when the bottom of the stack is a terminal, and ends the program
\* otherwise.
Interrupt ==
  /\ pc \in Reading /\ aborts < MaxAborts
  /\ Aborted /\ IoFlushFilling
  /\ pc' = IF infstack # <<>> /\ IsATty(infstack[1].file) THEN pc ELSE "exit"
  /\ UNCHANGED <<disk, terminal, arrived, infiles, paths, others>>
  /\ UNCHANGED <<args, interactive, quited, want, voc, tib, nest, after, base>>

Input == Arrive /\ UNCHANGED <<progVars, pc>>

Act == \/ Found /\ LET word == Dictionary[voc][tib] IN
                     \/ Thread(word) \/ Command(word) \/ CommentWord(word)
                     \/ NameWord(word) \/ Conditional(word) \/ AbortWord(word)
       \/ Cast \/ CastStray \/ Literal \/ Unknown
       \/ SharpInclude \/ SharpPath \/ Tick \/ IfDefined \/ Skipped

Step == \/ MainLoad \/ MainInteract \/ MainEnd
        \/ Leave \/ NextWord
        \/ Skip \/ Scan \/ Comment \/ Line \/ FillBuffer \/ EndOfInput
        \/ Act

Done == pc = "exit" /\ UNCHANGED vars

Next == Step \/ Interrupt \/ Input \/ Done

\* The program runs, and whoever sends the input comes to its end.
Spec == Init /\ [][Next]_vars /\ WF_vars(Step) /\ WF_vars(Input)
----------------------------------------------------------------------------
TypeOK ==
  /\ disk \in Disks /\ terminal \in BOOLEAN /\ arrived \in 0 .. Len(disk[Stdin]) + 1
  /\ Len(infstack) <= InfStackSize
  /\ \A i \in DOMAIN infstack :
       LET r == infstack[i] IN
       /\ r.file \in DOMAIN disk /\ r.ln \in Nat
       /\ 0 <= r.pos /\ r.pos <= r.end /\ r.end <= Len(disk[r.file])
  /\ infiles \subseteq DOMAIN disk \ {Stdin}
  /\ Len(paths) <= PathsSize /\ IsInjective(paths)
  /\ filling \in {"no", "blocking", "sharing"} /\ others \in BOOLEAN
  /\ filling # "no" => CanFill \/ pc = "exit"
  /\ errno \in {"would block", "other"}
  /\ interactive \in BOOLEAN /\ quited \in BOOLEAN /\ state \in BOOLEAN
  /\ pc \in Reading \cup {"main", "top", "act", "exit"}
  /\ want \in {"word", Newline, ")"} \cup Names \cup Sections /\ voc \in DOMAIN Dictionary
  /\ nest \in Nat /\ after \in BOOLEAN /\ depth \in Int /\ base \in Nat /\ aborts \in Nat

(***************************************************************************)
(* No file is open twice, whatever includes whatever, whatever the paths   *)
(* and wherever a session was cut short: an open file is recorded, and the *)
(* standard input is opened once (io.c, io_infile; forth.c, main).         *)
(***************************************************************************)
OpenedOnce ==
  /\ \A i, j \in DOMAIN infstack : infstack[i].file = infstack[j].file => i = j
  /\ \A i \in DOMAIN infstack : infstack[i].file \in infiles
                                 \/ (infstack[i].file = Stdin /\ interactive)

(***************************************************************************)
(* The line number of an open file, which error messages give, is never    *)
(* ahead of the newlines read in it (io.h, io_newline).                    *)
(***************************************************************************)
Newlines(text, p) == Cardinality({i \in 1 .. p : text[i] = Newline})
LinesNotAhead == \A i \in DOMAIN infstack :
  LET r == infstack[i] IN r.ln <= 1 + Newlines(disk[r.file], r.pos)

(***************************************************************************)
(* Whenever a word is looked at, every cell printed in the base of that    *)
(* moment would be read as the same cell (kernel.c, dodot, doqnumber).     *)
(***************************************************************************)
NumbersReadBack == pc = "act" => ReadBack(base)

(***************************************************************************)
(* The stack of files with its buffers, includes, pops and polls is one    *)
(* text, read in order (io.c, all of it; kernel.c, doword, dosharpinclude, *)
(* doparen).                                                               *)
(***************************************************************************)
Unread(r) == SubSeq(disk[r.file], r.pos + 1, Len(disk[r.file]))
Text == IF pc = "exit" THEN <<>> ELSE
        LET top == Len(infstack) IN
        (IF pc \in {"skip", "scan"} THEN tib ELSE <<>>)
        \o FlattenSeq([i \in 1 .. top |-> Unread(infstack[top + 1 - i])])
\* The interrupt key came in front of a name, and what is left begins with a space.
Nameless == tib = <<>> /\ \/ pc = "act" /\ infstack # <<>>
                          \/ pc = "scan" /\ Text # <<>> /\ IsSpace(Head(Text))
Mode == CASE pc = "exit" -> "over"
          [] pc \in {"main", "comment"} -> pc
          [] pc = "top" /\ ~ quited -> "leaving"
          [] pc = "line" -> want
          [] pc \in {"skip", "scan", "act"} /\ want \in Sections -> want
          [] pc \in {"skip", "scan", "act"} /\ want \in Names ->
               IF Nameless THEN "nameless" ELSE "name"
          [] OTHER -> "words"

Word == IF pc = "act" THEN tib ELSE <<>>
Loaded == IF interactive THEN infiles \cup {Stdin} ELSE infiles

Source == INSTANCE SourceText WITH text <- Text, word <- Word, mode <- Mode, loaded <- Loaded
ImplementsSource == Source!Spec

\* No section begins right behind one inside a section that is left out.
SectionsApart == ~ (pc = "act" /\ want \in Sections /\ after /\ tib = <<"#if">>)

(***************************************************************************)
(* The session ends, by bye or with the standard input, unless a read that *)
(* would have blocked, while there were other tasks, has left its errno    *)
(* and hides the end of the input from io_fillbuf (io.c:282), or #include  *)
(* without a name has opened a directory, which cannot be read (io.c:264), *)
(* or dosharpif and dosharpelse, which do not look for the end of the      *)
(* input, wait for a #then that does not come (kernel.c:2034).             *)
(***************************************************************************)
EndUnnoticed == CanFill /\ AtEnd /\ (errno = "would block" \/ IsDirectory(Top.file))
Unclosed == infstack = <<>> /\ want \in Sections /\ pc \in {"skip", "act"}
SessionEnds == <>(pc = "exit") \/ <>[]EndUnnoticed \/ <>[]Unclosed
============================================================================
