------------------------- MODULE TaskContextsProofs -------------------------
(***************************************************************************)
(* Theorems of TaskContexts, for any words, any number of tasks and calls  *)
(* nested to any depth.  They hold where abort is not called under an      *)
(* exception block (AbortsAnywhere = FALSE): it empties the return stack   *)
(* and leaves ep as it is.                                                 *)
(***************************************************************************)
EXTENDS TaskContexts, TLAPS, SequenceTheorems, NaturalsInduction, WellFoundedInduction

----------------------------------------------------------------------------
(* What the stacks and registers can hold.                                  *)

Addresses == {At(i) : i \in Nat}
Pushable == UNION {UNION {Pushed[t][n] : n \in 0..MaxCalls[t]} : t \in Tasks}
Cells == Pushable \cup Tasks \cup Signals \cup {Junk, Nil} \cup Addresses
Threads == {Terminate} \cup {Code(w, "body") : w \in Words} \cup {Code(w, "handler") : w \in Words}
ReturnCells == Cells \cup Threads
Frames == {Nil} \cup Addresses
Machines == [cells : Seq(Cells) \ {<<>>}, tos : Cells, ip : Threads,
             returns : Seq(ReturnCells), fp : Frames, ep : Frames]
Calls == [word : Words, at : {"body", "handler"}, kept : Seq(Cells), vars : Seq(Cells),
          ip : Threads, fp : Frames, ep : Frames, returns : Seq(ReturnCells)]

----------------------------------------------------------------------------
(* The inductive invariant.  The history says which calls a task is in, the *)
(* machine holds them as frames on two stacks, chained by fp and ep.  That  *)
(* a call finds its caller's registers again, that raise finds the right    *)
(* frame and that locals are kept all need the layout of every frame of     *)
(* every task, not only of the innermost one: leaving a call makes the next *)
(* one innermost.                                                           *)

\* Calls with an exception frame, and with an argument frame, on the stacks.
Armed(c) == c.word \in Protected /\ c.at = "body"
Framing(c) == c.word \in Framed /\ c.at = "body"

\* Up to where the two stacks belong to call c and those around it.
BaseOf(c) == IF Framing(c) THEN Len(c.kept) + arguments[c.word] + locals[c.word] + 1
                           ELSE Len(c.kept)
TopOf(c) == Len(c.returns) + 1 + (IF Armed(c) THEN 5 ELSE 0) + (IF Framing(c) THEN 1 ELSE 0)

\* What lies on parameter stack s since call c: the cells its caller kept, its
\* locals, the caller's fp.
KeptIn(c, s) ==
  /\ Len(s) >= BaseOf(c)
  /\ \A j \in 1..Len(c.kept) : s[j] = c.kept[j]
  /\ Framing(c) => /\ \A k \in Bound(c.word) : s[Len(c.kept) + k] = c.vars[k]
                   /\ s[BaseOf(c)] = c.fp

\* What lies on return stack r: the place to return to, the exception frame
\* (tos, sp, handler, fp and ep, in the order of (exception>)), and the stack
\* pointer that tells (unlink) how many results there are.
ReturnsIn(c, r) ==
  LET q == Len(c.returns)
      n == Len(c.kept)
  IN  /\ Len(r) >= TopOf(c)
      /\ \A j \in 1..q : r[j] = c.returns[j]
      /\ r[q + 1] = c.ip
      /\ Armed(c) => /\ r[q + 2] \in Cells
                     /\ arguments[c.word] = 0 /\ n > 0 => r[q + 2] = c.kept[n]
                     /\ r[q + 3] = At(n + arguments[c.word] + 1)
                     /\ r[q + 4] = Code(c.word, "handler")
                     /\ r[q + 5] = c.fp /\ r[q + 6] = c.ep
      /\ Framing(c) => r[TopOf(c)] = At(BaseOf(c) + 1)

\* ep points to the frame of the innermost of calls 1..n that is armed.
EpFits(s, n, ep) ==
  /\ (\A i \in 1..n : ~ Armed(s[i])) => ep = Nil
  /\ \A i \in 1..n : Armed(s[i]) /\ (\A j \in i + 1..n : ~ Armed(s[j]))
                     => ep = At(Len(s[i].returns) + 6)

\* Registers p at level 0, and in call c.
InTask(p) == \/ p.ip = Terminate
             \/ /\ \E w \in Words \ (Framed \cup Protected) : p.ip = Code(w, "body")
                /\ p.returns # <<>> /\ Last(p.returns) = Terminate
InCall(c, p) == /\ p.ip = Code(c.word, c.at)
                /\ p.fp = IF Framing(c) THEN At(Len(c.kept) + 2) ELSE c.fp
                /\ Len(p.returns) = TopOf(c)

\* The registers p and the parameter stack of a task in calls 1..n of s.  It
\* holds of the machine with all calls, and of what every call saved with those
\* around it: that is what makes a return the inverse of the call.
Level(s, n, p, stack) ==
  /\ EpFits(s, n, p.ep)
  /\ IF n = 0 THEN InTask(p) ELSE InCall(s[n], p)
  /\ \A i \in 1..n : KeptIn(s[i], stack) /\ ReturnsIn(s[i], p.returns)

TaskInv(m, s) ==
  /\ m \in Machines /\ s \in Seq(Calls)
  /\ \A i \in 1..Len(s) : s[i].at = "handler" => s[i].word \in Protected
  /\ \A i \in 1..Len(s) : Framing(s[i]) =>
       Len(s[i].vars) = arguments[s[i].word] + locals[s[i].word]
  /\ Level(s, Len(s), m, Stack(m))
  /\ \A j \in 1..Len(s) : Level(s, j - 1, s[j], s[j].kept)

TypeInv == /\ tp \in Tasks /\ tp \notin DOMAIN saved /\ DOMAIN saved \subseteq Tasks
           /\ DOMAIN calls = Tasks

Inv == TypeInv /\ \A t \in alive : TaskInv(Machine(t), calls[t]) /\ Len(calls[t]) <= MaxCalls[t]

----------------------------------------------------------------------------
(* The stack machine.                                                       *)

\* Words are somewhere, and what is on a stack or in a register is a cell.
LEMMA CellTypes ==
  /\ Junk \in Cells /\ Nil \in Cells /\ Nil \in Frames /\ Tasks \subseteq Cells
  /\ Signals \subseteq Cells /\ Frames \subseteq Cells
  /\ \A i \in Nat : At(i) \in Frames /\ Index(At(i)) = i
  /\ Terminate \in Threads
  /\ \A w \in Words : Code(w, "body") \in Threads /\ Code(w, "handler") \in Threads
<1>1. \A i \in Nat : At(i) \in Addresses /\ Index(At(i)) = i
  BY DEF At, Index, Addresses
<1>2. Frames \subseteq Cells /\ \A i \in Nat : At(i) \in Frames
  BY <1>1 DEF Frames, Cells
<1>3. \A w \in Words : Code(w, "body") \in Threads /\ Code(w, "handler") \in Threads
  BY DEF Threads
<1> QED  BY <1>1, <1>2, <1>3 DEF Cells, Frames, Threads

\* The cells of a machine are a sequence as long as its stack is deep.
LEMMA StackIs ==
  ASSUME NEW m \in Machines
  PROVE  /\ Depth(m) \in Nat /\ Len(m.cells) = Depth(m) + 1
         /\ Stack(m) \in Seq(Cells) /\ Len(Stack(m)) = Depth(m)
         /\ \A j \in 1..Depth(m) : Stack(m)[j] = IF j = Depth(m) THEN m.tos ELSE m.cells[j + 2]
<1>1. m.cells \in Seq(Cells) /\ m.cells # <<>> /\ m.tos \in Cells
  BY DEF Machines
<1>2. Len(m.cells) \in Nat \ {0}
  BY <1>1, EmptySeq
<1>3. Depth(m) \in Nat /\ Len(m.cells) = Depth(m) + 1
  BY <1>2 DEF Depth
<1>4. \A j \in 1..Depth(m) : j # Depth(m) => m.cells[j + 2] \in Cells
  BY <1>1, <1>3, ElementOfSeq
<1>5. Stack(m) \in [1..Depth(m) -> Cells]
  BY <1>1, <1>4 DEF Stack
<1>6. Stack(m) \in Seq(Cells)
  BY <1>3, <1>5, SeqDef
<1>7. Len(Stack(m)) = Depth(m)
  BY <1>3, <1>5, <1>6, LenProperties
<1> QED  BY <1>3, <1>6, <1>7 DEF Stack

\* The registers besides the stack pointer and tos.
Registers(m) == <<m.ip, m.returns, m.fp, m.ep>>

\* spush appends to the stack and leaves the other registers.
LEMMA SpushIs ==
  ASSUME NEW m \in Machines, NEW x \in Cells
  PROVE  /\ Spush(m, x) \in Machines /\ Registers(Spush(m, x)) = Registers(m)
         /\ Depth(Spush(m, x)) = Depth(m) + 1
         /\ Spush(m, x).tos = x
         /\ Stack(Spush(m, x)) = Append(Stack(m), x)
<1> DEFINE y == IF Depth(m) > 0 THEN m.tos ELSE Junk
           p == Spush(m, x)
           c == Append(m.cells, y)
<1>1. /\ m.cells \in Seq(Cells) /\ m.tos \in Cells /\ y \in Cells
      /\ Depth(m) \in Nat /\ Len(m.cells) = Depth(m) + 1
  BY StackIs, CellTypes DEF Machines
<1>2. /\ c \in Seq(Cells) /\ c # <<>> /\ Len(c) = Depth(m) + 2
      /\ \A j \in 1..Depth(m) + 1 : c[j] = m.cells[j]
      /\ c[Depth(m) + 2] = y
  <2> HIDE DEF y
  <2> QED  BY <1>1
<1>3. /\ p = [m EXCEPT !.cells = c, !.tos = x]
      /\ p.cells = c /\ p.tos = x /\ p.ip = m.ip /\ p.returns = m.returns /\ p.fp = m.fp
      /\ p.ep = m.ep
  BY DEF Spush, Machines
<1>4. p \in Machines
  <2> HIDE DEF c
  <2> QED  BY <1>2, <1>3 DEF Machines
<1>5. Depth(p) = Depth(m) + 1
  BY <1>1, <1>2, <1>3 DEF Depth
<1>6. Stack(p) = Append(Stack(m), x)
  <2> HIDE DEF p, c
  <2>1. Append(Stack(m), x) \in Seq(Cells) /\ Len(Append(Stack(m), x)) = Depth(m) + 1
    BY StackIs
  <2>2. \A j \in 1..Depth(m) + 1 : Append(Stack(m), x)[j] = IF j = Depth(m) + 1 THEN x ELSE Stack(m)[j]
    BY StackIs
  <2>3. /\ \A j \in 1..Depth(m) + 1 :
             Stack(p)[j] = IF j = Depth(m) + 1 THEN p.tos ELSE p.cells[j + 2]
        /\ \A j \in 1..Depth(m) : Stack(m)[j] = IF j = Depth(m) THEN m.tos ELSE m.cells[j + 2]
    BY <1>4, <1>5, StackIs
  <2>4. \A j \in 1..Depth(m) : j # Depth(m) => p.cells[j + 2] = m.cells[j + 2]
    BY <1>1, <1>2, <1>3
  <2>5. Depth(m) > 0 => p.cells[Depth(m) + 2] = m.tos
    BY <1>2, <1>3
  <2>6. ASSUME NEW j \in 1..Depth(m) + 1 PROVE Stack(p)[j] = Append(Stack(m), x)[j]
    <3> HIDE DEF y
    <3>1. Depth(m) \in Nat /\ p.tos = x
      BY <1>1, <1>3
    <3>2. CASE j = Depth(m) + 1
      BY <2>2, <2>3, <3>1, <3>2
    <3>3. CASE j # Depth(m) + 1
      <4>1. j \in 1..Depth(m)
        BY <3>1, <3>3
      <4>2. Stack(p)[j] = p.cells[j + 2] /\ Append(Stack(m), x)[j] = Stack(m)[j]
        BY <2>2, <2>3, <3>3
      <4> QED  BY <2>3, <2>4, <2>5, <3>1, <4>1, <4>2
    <3> QED  BY <3>2, <3>3
  <2>7. Stack(p) \in Seq(Cells) /\ Len(Stack(p)) = Depth(m) + 1
    BY <1>4, <1>5, StackIs
  <2> DEFINE f == Stack(p)
             g == Append(Stack(m), x)
  <2>8. /\ f \in Seq(Cells) /\ g \in Seq(Cells) /\ Len(f) = Len(g)
        /\ \A i \in 1..Len(f) : f[i] = g[i]
    BY <2>1, <2>6, <2>7
  <2> HIDE DEF f, g
  <2>9. f = g
    BY <2>8, SeqEqual
  <2> QED  BY <2>9 DEF f, g
<1> QED  BY <1>3, <1>4, <1>5, <1>6 DEF Registers

\* sdrop takes the top away.
LEMMA SdropIs ==
  ASSUME NEW m \in Machines, Depth(m) > 0
  PROVE  /\ Sdrop(m) \in Machines /\ Registers(Sdrop(m)) = Registers(m)
         /\ Depth(Sdrop(m)) = Depth(m) - 1
         /\ \A j \in 1..Depth(m) - 1 : Stack(Sdrop(m))[j] = Stack(m)[j]
<1> DEFINE p == Sdrop(m)
           c == Front(m.cells)
<1>1. m.cells \in Seq(Cells) /\ Depth(m) \in Nat /\ Len(m.cells) = Depth(m) + 1
  BY StackIs DEF Machines
<1>2. /\ c \in Seq(Cells) /\ Len(c) = Depth(m)
      /\ \A j \in 1..Depth(m) : c[j] = m.cells[j]
      /\ Last(m.cells) = m.cells[Depth(m) + 1] /\ Last(m.cells) \in Cells
  BY <1>1 DEF Front, Last
<1>3. /\ p.cells = c /\ p.tos = m.cells[Depth(m) + 1] /\ p.ip = m.ip /\ p.returns = m.returns
      /\ p.fp = m.fp /\ p.ep = m.ep /\ p = [m EXCEPT !.cells = c, !.tos = m.cells[Depth(m) + 1]]
  BY <1>2 DEF Sdrop, Machines
<1>4. p \in Machines
  <2> HIDE DEF c
  <2>1. c # <<>> /\ m.cells[Depth(m) + 1] \in Cells
    BY <1>1, <1>2
  <2> QED  BY <1>2, <1>3, <2>1 DEF Machines
<1>5. Depth(p) = Depth(m) - 1
  BY <1>1, <1>2, <1>3 DEF Depth
<1>6. ASSUME NEW j \in 1..Depth(m) - 1 PROVE Stack(p)[j] = Stack(m)[j]
  <2>1. Stack(p)[j] = IF j = Depth(m) - 1 THEN p.tos ELSE p.cells[j + 2]
    <3> HIDE DEF p
    <3> QED  BY <1>1, <1>4, <1>5, StackIs
  <2>2. Stack(m)[j] = m.cells[j + 2]
    BY <1>1, StackIs
  <2>3. j # Depth(m) - 1 => p.cells[j + 2] = m.cells[j + 2]
    <3> HIDE DEF p, c
    <3> QED  BY <1>1, <1>2, <1>3
  <2>4. j = Depth(m) - 1 => p.tos = m.cells[j + 2]
    <3> HIDE DEF p, c
    <3> QED  BY <1>1, <1>3
  <2> HIDE DEF p, c
  <2> QED  BY <2>1, <2>2, <2>3, <2>4
<1> QED  BY <1>3, <1>4, <1>5, <1>6 DEF Registers

\* The memory below a stack pointer that is set.
LEMMA ResizedIs ==
  ASSUME NEW c \in Seq(Cells), NEW n \in Nat
  PROVE  /\ Resized(c, n) \in Seq(Cells) /\ Len(Resized(c, n)) = n
         /\ \A i \in 1..n : Resized(c, n)[i] = IF i <= Len(c) THEN c[i] ELSE Junk
<1>1. \A i \in 1..n : i <= Len(c) => c[i] \in Cells
  OBVIOUS
<1>2. Resized(c, n) \in [1..n -> Cells]
  BY <1>1, CellTypes DEF Resized
<1>3. Resized(c, n) \in Seq(Cells)
  BY <1>2, SeqDef
<1>4. Len(Resized(c, n)) = n
  BY <1>2, <1>3, LenProperties
<1> QED  BY <1>3, <1>4 DEF Resized

(* A push onto the return stack. *)
LEMMA RpushIs ==
  ASSUME NEW m \in Machines, NEW x \in ReturnCells
  PROVE  /\ Rpush(m, x) \in Machines /\ Rpush(m, x).returns = Append(m.returns, x)
         /\ Rpush(m, x).ip = m.ip /\ Rpush(m, x).fp = m.fp /\ Rpush(m, x).ep = m.ep
         /\ Depth(Rpush(m, x)) = Depth(m) /\ Stack(Rpush(m, x)) = Stack(m)
         /\ Rpush(m, x).cells = m.cells /\ Rpush(m, x).tos = m.tos
<1> DEFINE r == Append(m.returns, x)
<1>1. r \in Seq(ReturnCells)
  BY DEF Machines
<1>2. /\ Rpush(m, x) = [m EXCEPT !.returns = r] /\ Rpush(m, x).returns = r
      /\ Rpush(m, x).cells = m.cells /\ Rpush(m, x).tos = m.tos
      /\ Rpush(m, x).ip = m.ip /\ Rpush(m, x).fp = m.fp /\ Rpush(m, x).ep = m.ep
  BY DEF Rpush, Machines
<1>3. Rpush(m, x) \in Machines
  <2> HIDE DEF r
  <2> QED  BY <1>1, <1>2 DEF Machines
<1> QED  BY <1>2, <1>3 DEF Depth, Stack

\* (link) leaves the stack as it is and puts locals and the caller's fp above it.
LEMMA LinkIs ==
  ASSUME NEW m \in Machines, NEW a \in Nat, NEW l \in Nat, a <= Depth(m)
  PROVE  /\ Link(m, a, l) \in Machines
         /\ Link(m, a, l).ip = m.ip /\ Link(m, a, l).ep = m.ep
         /\ Link(m, a, l).fp = At(Depth(m) - a + 2)
         /\ Link(m, a, l).returns = Append(m.returns, At(Depth(m) + 2 + l))
         /\ Depth(Link(m, a, l)) = Depth(m) + 1 + l
         /\ \A j \in 1..Depth(m) : Stack(Link(m, a, l))[j] = Stack(m)[j]
         /\ \A j \in Depth(m) + 1..Depth(m) + l : Stack(Link(m, a, l))[j] = Junk
         /\ Stack(Link(m, a, l))[Depth(m) + 1 + l] = m.fp
<1> DEFINE D == Depth(m)
           p == Spush(m, m.fp)
           c == Resized(p.cells, D + 2 + l)
           q == [p EXCEPT !.fp = At(D - a + 2), !.cells = c]
<1>0. D \in Nat /\ m.fp \in Cells
  BY StackIs, CellTypes DEF Machines
<1>1. /\ p \in Machines /\ p.cells \in Seq(Cells) /\ Len(p.cells) = D + 2 /\ p.tos = m.fp
      /\ Registers(p) = Registers(m) /\ Depth(p) = D + 1 /\ Stack(p) = Append(Stack(m), m.fp)
  <2>1. p \in Machines /\ Depth(p) = D + 1
    BY <1>0, SpushIs
  <2>2. Len(p.cells) = D + 2 /\ p.cells \in Seq(Cells)
    BY <1>0, <2>1, StackIs DEF Machines
  <2> QED  BY <1>0, <2>1, <2>2, SpushIs
<1>2. /\ c \in Seq(Cells) /\ Len(c) = D + 2 + l
      /\ \A i \in 1..D + 2 + l : c[i] = IF i <= D + 2 THEN p.cells[i] ELSE Junk
  <2>1. D + 2 + l \in Nat
    BY <1>0
  <2> HIDE DEF p, D
  <2>2. /\ c \in Seq(Cells) /\ Len(c) = D + 2 + l
        /\ \A i \in 1..D + 2 + l : c[i] = IF i <= Len(p.cells) THEN p.cells[i] ELSE Junk
    BY <1>1, <2>1, ResizedIs
  <2> QED  BY <1>1, <2>2
<1>3. At(D - a + 2) \in Frames /\ At(D + 2 + l) \in ReturnCells
  <2>1. D - a + 2 \in Nat /\ D + 2 + l \in Nat
    BY <1>0
  <2> QED  BY <2>1, CellTypes DEF ReturnCells
<1>4. Link(m, a, l) = Rpush(q, At(D + 2 + l))
  <2> HIDE DEF p
  <2>1. Len(p.cells) - a = D - a + 2 /\ Len(p.cells) + l = D + 2 + l
    BY <1>0, <1>1
  <2> QED  BY <2>1 DEF Link, p
<1>5. /\ q \in Machines /\ q.cells = c /\ q.fp = At(D - a + 2) /\ q.tos = m.fp
      /\ q.ip = m.ip /\ q.ep = m.ep /\ q.returns = m.returns
  <2>1. c # <<>>
    BY <1>0, <1>2
  <2> HIDE DEF p, c
  <2>2. /\ q.cells = c /\ q.fp = At(D - a + 2) /\ q.tos = p.tos
        /\ q.ip = p.ip /\ q.ep = p.ep /\ q.returns = p.returns
    BY <1>1 DEF Machines
  <2>3. q \in Machines
    BY <1>1, <1>2, <1>3, <2>1, <2>2 DEF Machines
  <2> QED  BY <1>1, <2>2, <2>3 DEF Registers
<1> HIDE DEF q, c
<1>6. Depth(q) = D + 1 + l
  <2> HIDE DEF D
  <2> QED  BY <1>0, <1>2, <1>5 DEF Depth
<1>7. \A j \in 1..D + 1 + l : Stack(q)[j] = IF j = D + 1 + l THEN m.fp ELSE c[j + 2]
  BY <1>5, <1>6, StackIs
<1>8. ASSUME NEW j \in 1..D PROVE Stack(q)[j] = Stack(m)[j]
  <2> HIDE DEF p
  <2>1. Stack(q)[j] = c[j + 2] /\ c[j + 2] = p.cells[j + 2]
    BY <1>0, <1>2, <1>7
  <2>2. Stack(p)[j] = p.cells[j + 2]
    <3>1. \A i \in 1..Depth(p) : Stack(p)[i] = IF i = Depth(p) THEN p.tos ELSE p.cells[i + 2]
      BY <1>1, StackIs
    <3>2. Depth(p) = D + 1
      BY <1>1
    <3> HIDE DEF D
    <3>3. j \in 1..Depth(p) /\ j # Depth(p)
      BY <1>0, <3>2
    <3> QED  BY <3>1, <3>3
  <2>3. Stack(p)[j] = Stack(m)[j]
    BY <1>0, <1>1, StackIs
  <2> QED  BY <2>1, <2>2, <2>3
<1>9. \A j \in D + 1..D + l : Stack(q)[j] = Junk
  BY <1>0, <1>2, <1>7
<1>10. Stack(q)[D + 1 + l] = m.fp
  BY <1>0, <1>7
<1> QED  BY <1>3, <1>4, <1>5, <1>6, <1>8, <1>9, <1>10, RpushIs, SMTT(30)

(* The frame of an exception block. *)
LEMMA CatchIs ==
  ASSUME NEW m \in Machines, NEW b \in Threads, NEW h \in Threads
  PROVE  /\ Catch(m, b, h) \in Machines
         /\ Catch(m, b, h).ip = b /\ Catch(m, b, h).fp = m.fp
         /\ Catch(m, b, h).ep = At(Len(m.returns) + 5)
         /\ LET r == Catch(m, b, h).returns
                n == Len(m.returns)
            IN  /\ r \in Seq(ReturnCells) /\ Len(r) = n + 5
                /\ \A j \in 1..n : r[j] = m.returns[j]
                /\ r[n + 1] = m.tos /\ r[n + 2] = At(Depth(m) + 1) /\ r[n + 3] = h
                /\ r[n + 4] = m.fp /\ r[n + 5] = m.ep
         /\ Depth(Catch(m, b, h)) = Depth(m) /\ Stack(Catch(m, b, h)) = Stack(m)
<1> DEFINE f == <<m.tos, At(Len(m.cells)), h, m.fp, m.ep>>
           n == Len(m.returns)
           r == m.returns \o f
           p == Catch(m, b, h)
<1>0. m.returns \in Seq(ReturnCells) /\ n \in Nat /\ Len(m.cells) = Depth(m) + 1 /\ Depth(m) \in Nat
  BY StackIs DEF Machines
<1>1. /\ m.tos \in ReturnCells /\ m.fp \in ReturnCells /\ m.ep \in ReturnCells
      /\ h \in ReturnCells /\ At(Len(m.cells)) \in ReturnCells
  BY <1>0, CellTypes DEF Machines, ReturnCells
<1>2. f \in Seq(ReturnCells) /\ Len(f) = 5
  BY <1>1
<1>3. /\ r \in Seq(ReturnCells) /\ Len(r) = n + 5
      /\ \A j \in 1..n : r[j] = m.returns[j]
      /\ \A j \in 1..5 : r[n + j] = f[j]
  <2>1. r \in Seq(ReturnCells) /\ Len(r) = n + 5
    BY <1>0, <1>2, ConcatProperties
  <2>2. \A j \in 1..n + 5 : r[j] = IF j <= n THEN m.returns[j] ELSE f[j - n]
    <3> HIDE DEF f
    <3> QED  BY <1>0, <1>2, ConcatProperties, SMTT(30)
  <2>3. \A j \in 1..5 : r[n + j] = f[j]
    <3> HIDE DEF f, r, n
    <3> QED  BY <1>0, <2>2
  <2> HIDE DEF f, r, n
  <2> QED  BY <1>0, <2>1, <2>2, <2>3
<1>4. At(n + 5) \in Frames
  BY <1>0, CellTypes
<1>5. /\ p.ip = b /\ p.fp = m.fp /\ p.ep = At(n + 5) /\ p.returns = r
      /\ p.cells = m.cells /\ p.tos = m.tos
      /\ p = [m EXCEPT !.returns = r, !.ep = At(n + 5), !.ip = b]
  <2>1. p = [m EXCEPT !.returns = r, !.ep = At(n + 5), !.ip = b]
    BY <1>3 DEF Catch
  <2> HIDE DEF p, r
  <2> QED  BY <2>1 DEF Machines
<1>6. p \in Machines
  <2> HIDE DEF r, p
  <2> QED  BY <1>3, <1>4, <1>5 DEF Machines
<1>7. Depth(p) = Depth(m) /\ Stack(p) = Stack(m)
  <2> HIDE DEF p
  <2> QED  BY <1>5 DEF Depth, Stack
<1>8. /\ r[n + 1] = m.tos /\ r[n + 2] = At(Depth(m) + 1) /\ r[n + 3] = h
      /\ r[n + 4] = m.fp /\ r[n + 5] = m.ep
  <2> HIDE DEF r
  <2> QED  BY <1>0, <1>3
<1> HIDE DEF p, r
<1> QED  BY <1>3, <1>5, <1>6, <1>7, <1>8 DEF p

(* Cutting the return stack. *)
LEMMA CutIs ==
  ASSUME NEW r \in Seq(ReturnCells), NEW n \in 0..Len(r)
  PROVE  /\ SubSeq(r, 1, n) \in Seq(ReturnCells) /\ Len(SubSeq(r, 1, n)) = n
         /\ \A j \in 1..n : SubSeq(r, 1, n)[j] = r[j]
BY SubSeqProperties

\* (;) goes on where the top of the return stack says.
LEMMA SemicolonIs ==
  ASSUME NEW m \in Machines, NEW n \in Nat, Len(m.returns) = n + 1, m.returns[n + 1] \in Threads
  PROVE  /\ Semicolon(m) \in Machines
         /\ Semicolon(m).ip = m.returns[n + 1] /\ Semicolon(m).returns = SubSeq(m.returns, 1, n)
         /\ Semicolon(m).fp = m.fp /\ Semicolon(m).ep = m.ep
         /\ Depth(Semicolon(m)) = Depth(m) /\ Stack(Semicolon(m)) = Stack(m)
<1> DEFINE r == SubSeq(m.returns, 1, n)
           x == m.returns[n + 1]
           p == Semicolon(m)
<1>0. m.returns \in Seq(ReturnCells) /\ r \in Seq(ReturnCells)
  BY CutIs DEF Machines
<1>1. Last(m.returns) = x /\ Len(m.returns) - 1 = n
  BY DEF Last
<1>2. p = [m EXCEPT !.returns = r, !.ip = x]
  BY <1>1 DEF Semicolon, Rdrop, Machines
<1> HIDE DEF r, x, p
<1>3. /\ p.returns = r /\ p.ip = x /\ p.fp = m.fp /\ p.ep = m.ep
      /\ p.cells = m.cells /\ p.tos = m.tos
  BY <1>2 DEF Machines
<1>4. p \in Machines
  BY <1>0, <1>2, <1>3 DEF Machines, x
<1> QED  BY <1>3, <1>4 DEF Depth, Stack, p, r, x

\* (exception;) removes an exception frame and returns.
LEMMA ThrowIs ==
  ASSUME NEW m \in Machines, NEW n \in Nat, Len(m.returns) = n + 6,
         m.returns[n + 1] \in Threads, m.returns[n + 6] \in Frames
  PROVE  /\ Throw(m) \in Machines
         /\ Throw(m).ip = m.returns[n + 1] /\ Throw(m).returns = SubSeq(m.returns, 1, n)
         /\ Throw(m).fp = m.fp /\ Throw(m).ep = m.returns[n + 6]
         /\ Depth(Throw(m)) = Depth(m) /\ Stack(Throw(m)) = Stack(m)
<1> DEFINE r == SubSeq(m.returns, 1, n + 1)
           e == m.returns[n + 6]
           p == Rdrop([m EXCEPT !.ep = Last(m.returns)], 5)
<1>0. /\ m.returns \in Seq(ReturnCells) /\ r \in Seq(ReturnCells) /\ Len(r) = n + 1
      /\ \A j \in 1..n + 1 : r[j] = m.returns[j]
  BY CutIs DEF Machines
<1>1. Last(m.returns) = e /\ Len(m.returns) - 5 = n + 1
  BY DEF Last
<1>2. p = [m EXCEPT !.ep = e, !.returns = r]
  BY <1>1 DEF Rdrop, Machines
<1>3. SubSeq(r, 1, n) = SubSeq(m.returns, 1, n)
  <2> HIDE DEF r
  <2>1. /\ SubSeq(r, 1, n) \in Seq(ReturnCells) /\ Len(SubSeq(r, 1, n)) = n
        /\ \A j \in 1..n : SubSeq(r, 1, n)[j] = r[j]
    BY <1>0, CutIs
  <2>2. /\ SubSeq(m.returns, 1, n) \in Seq(ReturnCells) /\ Len(SubSeq(m.returns, 1, n)) = n
        /\ \A j \in 1..n : SubSeq(m.returns, 1, n)[j] = m.returns[j]
    BY <1>0, CutIs
  <2> QED  BY <1>0, <2>1, <2>2, SeqEqual
<1> HIDE DEF r, e, p
<1>4. /\ p.returns = r /\ p.ip = m.ip /\ p.fp = m.fp /\ p.ep = e
      /\ p.cells = m.cells /\ p.tos = m.tos
  BY <1>2 DEF Machines
<1>5. p \in Machines
  BY <1>0, <1>2, <1>4 DEF Machines, e
<1>6. Depth(p) = Depth(m) /\ Stack(p) = Stack(m)
  BY <1>4 DEF Depth, Stack
<1>7. Throw(m) = Semicolon(p)
  BY DEF Throw, p
<1>8. p.returns[n + 1] = m.returns[n + 1] /\ Len(p.returns) = n + 1
  BY <1>0, <1>4
<1>9. /\ Semicolon(p) \in Machines
      /\ Semicolon(p).ip = p.returns[n + 1] /\ Semicolon(p).returns = SubSeq(p.returns, 1, n)
      /\ Semicolon(p).fp = p.fp /\ Semicolon(p).ep = p.ep
      /\ Depth(Semicolon(p)) = Depth(p) /\ Stack(Semicolon(p)) = Stack(p)
  BY <1>5, <1>8, SemicolonIs
<1> QED  BY <1>3, <1>4, <1>6, <1>7, <1>8, <1>9 DEF e

(* The results replace the frame, which lies on the stack above k cells    *)
(* and up to the cell where the caller's frame pointer is.                 *)
LEMMA UnlinkIs ==
  ASSUME NEW m \in Machines, NEW k \in Nat, NEW b \in Nat, k < b, b <= Depth(m),
         m.fp = At(k + 2), NEW n \in Nat, Len(m.returns) = n + 1, m.returns[n + 1] = At(b + 1),
         Stack(m)[b] \in Frames
  PROVE  /\ Unlink(m) \in Machines
         /\ Unlink(m).ip = m.ip /\ Unlink(m).ep = m.ep /\ Unlink(m).fp = Stack(m)[b]
         /\ Unlink(m).returns = SubSeq(m.returns, 1, n)
         /\ Depth(Unlink(m)) = k + Depth(m) - b
         /\ \A j \in 1..k : Stack(Unlink(m))[j] = Stack(m)[j]
         /\ \A j \in 1..Depth(m) - b : Stack(Unlink(m))[k + j] = Stack(m)[b + j]
<1> DEFINE D == Depth(m)
           r == SubSeq(m.returns, 1, n)
           p == Rdrop(m, 1)
           c == Resized(m.cells, k + 2)
           f == Stack(m)[b]
           u == Unlink(m)
<1>0. /\ m.returns \in Seq(ReturnCells) /\ r \in Seq(ReturnCells)
      /\ m.cells \in Seq(Cells) /\ Len(m.cells) = D + 1 /\ D \in Nat
      /\ f \in Frames /\ m.tos \in Cells
  BY CutIs, StackIs DEF Machines
<1>1. /\ Index(Last(m.returns)) = b + 1 /\ Index(m.fp) = k + 2 /\ Len(m.returns) - 1 = n
  <2>1. b + 1 \in Nat /\ k + 2 \in Nat
    OBVIOUS
  <2> QED  BY <2>1, CellTypes DEF Last
<1>2. p = [m EXCEPT !.returns = r]
  BY <1>1 DEF Rdrop
<1>3. /\ p.returns = r /\ p.ip = m.ip /\ p.fp = m.fp /\ p.ep = m.ep
      /\ p.cells = m.cells /\ p.tos = m.tos
  <2> HIDE DEF p, r
  <2> QED  BY <1>2 DEF Machines
<1>4. /\ c \in Seq(Cells) /\ Len(c) = k + 2
      /\ \A i \in 1..k + 2 : c[i] = m.cells[i]
  <2>1. k + 2 \in Nat /\ k + 2 <= D + 1
    BY <1>0
  <2> HIDE DEF D
  <2>2. /\ c \in Seq(Cells) /\ Len(c) = k + 2
        /\ \A i \in 1..k + 2 : c[i] = IF i <= Len(m.cells) THEN m.cells[i] ELSE Junk
    BY <1>0, <2>1, ResizedIs
  <2> HIDE DEF c
  <2> QED  BY <1>0, <2>1, <2>2
<1>5. \A j \in 1..D : Stack(m)[j] = IF j = D THEN m.tos ELSE m.cells[j + 2]
  BY StackIs
<1> HIDE DEF D, r, c, p, f
<1>6. CASE b = D
  <2> DEFINE q == [p EXCEPT !.cells = c, !.fp = m.tos]
  <2>1. u = Sdrop(q)
    BY <1>0, <1>1, <1>3, <1>6 DEF Unlink, p, c
  <2>2. m.tos = f
    BY <1>0, <1>5, <1>6 DEF f
  <2>3. /\ q.cells = c /\ q.fp = f /\ q.tos = f /\ q.ip = m.ip /\ q.ep = m.ep /\ q.returns = r
    BY <1>2, <1>3, <2>2 DEF Machines
  <2>4. q \in Machines
    <3>1. c # <<>>
      BY <1>4
    <3> HIDE DEF q
    <3>2. q = [[[m EXCEPT !.returns = r] EXCEPT !.cells = c] EXCEPT !.fp = m.tos]
      BY <1>2 DEF q
    <3> QED  BY <1>0, <1>4, <2>2, <2>3, <3>1, <3>2 DEF Machines
  <2> HIDE DEF q
  <2>5. Depth(q) = k + 1
    BY <1>4, <2>3 DEF Depth
  <2>6. /\ Sdrop(q) \in Machines /\ Registers(Sdrop(q)) = Registers(q)
        /\ Depth(Sdrop(q)) = k
        /\ \A j \in 1..k : Stack(Sdrop(q))[j] = Stack(q)[j]
    BY <2>4, <2>5, SdropIs
  <2>7. \A j \in 1..k : Stack(q)[j] = Stack(m)[j]
    <3>1. \A j \in 1..k + 1 : Stack(q)[j] = IF j = k + 1 THEN q.tos ELSE q.cells[j + 2]
      BY <2>4, <2>5, StackIs
    <3>2. \A j \in 1..k : Stack(q)[j] = m.cells[j + 2]
      BY <1>4, <2>3, <3>1
    <3>3. \A j \in 1..k : Stack(m)[j] = m.cells[j + 2]
      BY <1>0, <1>5, <1>6
    <3> QED  BY <3>2, <3>3
  <2>8. Depth(m) - b = 0 /\ k + Depth(m) - b = k
    BY <1>0, <1>6 DEF D
  <2> QED  BY <2>1, <2>3, <2>6, <2>7, <2>8 DEF Registers, f, r
<1>7. CASE b # D
  <2> DEFINE g == SubSeq(m.cells, b + 3, D + 1)
             h == c \o g
             q == [p EXCEPT !.fp = f, !.cells = h]
  <2>1. b < D
    BY <1>0, <1>7 DEF D
  <2>2. m.cells[b + 2] = f
    BY <1>0, <1>5, <2>1 DEF f
  <2>3. /\ g \in Seq(Cells) /\ Len(g) = D - b - 1
        /\ \A i \in 1..D - b - 1 : g[i] = m.cells[b + 2 + i]
    <3>1. \A i \in b + 3..D + 1 : m.cells[i] \in Cells
      BY <1>0
    <3>2. /\ g \in Seq(Cells)
          /\ Len(g) = IF b + 3 <= D + 1 THEN D + 1 - (b + 3) + 1 ELSE 0
          /\ \A i \in 1..D + 1 - (b + 3) + 1 : g[i] = m.cells[b + 3 + i - 1]
      BY <1>0, <3>1, SubSeqProperties
    <3> HIDE DEF g
    <3> QED  BY <1>0, <2>1, <3>2
  <2>4. u = q
    <3>1. Len(m.cells) # b + 1 /\ b + 1 + 1 = b + 2 /\ b + 1 + 2 = b + 3
      BY <1>0, <1>7
    <3>2. u = [p EXCEPT !.fp = m.cells[b + 2],
                        !.cells = Resized(p.cells, k + 2) \o SubSeq(p.cells, b + 3, Len(p.cells))]
      BY <1>1, <1>3, <3>1 DEF Unlink, p
    <3> QED  BY <1>0, <1>3, <2>2, <3>2 DEF c
  <2> HIDE DEF g
  <2>5. /\ h \in Seq(Cells) /\ Len(h) = k + D - b + 1
        /\ \A i \in 1..k + D - b + 1 : h[i] = IF i <= k + 2 THEN c[i] ELSE g[i - (k + 2)]
    <3>1. /\ h \in Seq(Cells) /\ Len(h) = Len(c) + Len(g)
          /\ \A i \in 1..Len(c) + Len(g) : h[i] = IF i <= Len(c) THEN c[i] ELSE g[i - Len(c)]
      BY <1>4, <2>3, ConcatProperties
    <3>2. Len(c) + Len(g) = k + D - b + 1 /\ Len(c) = k + 2
      BY <1>0, <1>4, <2>1, <2>3
    <3> HIDE DEF h
    <3> QED  BY <3>1, <3>2
  <2> HIDE DEF h, u
  <2>6. /\ u.cells = h /\ u.fp = f /\ u.tos = m.tos /\ u.ip = m.ip /\ u.ep = m.ep /\ u.returns = r
    BY <1>2, <1>3, <2>4 DEF Machines
  <2>7. u \in Machines
    <3>1. h # <<>>
      BY <1>0, <2>1, <2>5
    <3>2. u = [[[m EXCEPT !.returns = r] EXCEPT !.fp = f] EXCEPT !.cells = h]
      BY <1>2, <2>4
    <3> HIDE DEF q
    <3> QED  BY <1>0, <2>5, <2>6, <3>1, <3>2 DEF Machines
  <2>8. Depth(u) = k + D - b
    BY <1>0, <2>1, <2>5, <2>6 DEF Depth
  <2>9. \A j \in 1..k + D - b : Stack(u)[j] = IF j = k + D - b THEN u.tos ELSE u.cells[j + 2]
    BY <2>7, <2>8, StackIs
  <2>10. ASSUME NEW j \in 1..k PROVE Stack(u)[j] = Stack(m)[j]
    <3>1. Stack(u)[j] = h[j + 2]
      <4>1. j \in 1..k + D - b /\ j # k + D - b
        BY <1>0, <2>1
      <4> QED  BY <2>6, <2>9, <4>1
    <3>2. h[j + 2] = m.cells[j + 2]
      BY <1>0, <1>4, <2>1, <2>5
    <3>3. Stack(m)[j] = m.cells[j + 2]
      BY <1>0, <1>5, <2>1, SMTT(30)
    <3> QED  BY <3>1, <3>2, <3>3
  <2>11. ASSUME NEW j \in 1..D - b PROVE Stack(u)[k + j] = Stack(m)[b + j]
    <3>1. CASE j = D - b
      <4>1. k + j \in 1..k + D - b /\ k + j = k + D - b /\ b + j = D /\ D \in 1..D
        BY <1>0, <2>1, <3>1
      <4> QED  BY <1>5, <2>6, <2>9, <4>1
    <3>2. CASE j # D - b
      <4>1. Stack(u)[k + j] = h[k + j + 2]
        <5>1. k + j \in 1..k + D - b /\ k + j # k + D - b
          BY <1>0, <2>1, <3>2
        <5> QED  BY <2>6, <2>9, <5>1
      <4>2. h[k + j + 2] = g[j]
        <5>1. /\ k + j + 2 \in 1..k + D - b + 1 /\ ~ (k + j + 2 <= k + 2)
              /\ k + j + 2 - (k + 2) = j
          BY <1>0, <2>1, <3>2
        <5>2. h[k + j + 2] = g[k + j + 2 - (k + 2)]
          BY <2>5, <5>1
        <5> QED  BY <5>1, <5>2
      <4>3. g[j] = m.cells[b + 2 + j] /\ Stack(m)[b + j] = m.cells[b + j + 2]
        BY <1>0, <1>5, <2>1, <2>3, <3>2, SMTT(30)
      <4> QED  BY <1>0, <4>1, <4>2, <4>3
    <3> QED  BY <3>1, <3>2
  <2> QED  BY <2>6, <2>7, <2>8, <2>10, <2>11 DEF D, f, r, u
<1> QED  BY <1>6, <1>7

(* Back to an exception frame, whose last cell is at address q + 6. *)
LEMMA RestoreIs ==
  ASSUME NEW m \in Machines, NEW q \in Nat, NEW n \in Nat, q + 6 <= Len(m.returns),
         m.ep = At(q + 6), m.returns[q + 2] \in Cells, m.returns[q + 3] = At(n + 1),
         m.returns[q + 4] \in Threads, m.returns[q + 5] \in Frames, m.returns[q + 6] \in Frames
  PROVE  /\ Restore(m) \in Machines /\ Restore(m).tos = m.tos
         /\ Restore(m).ip = m.returns[q + 4] /\ Restore(m).fp = m.returns[q + 5]
         /\ Restore(m).ep = m.returns[q + 6]
         /\ Restore(m).returns = SubSeq(m.returns, 1, q + 1)
         /\ Depth(Restore(m)) = n + 1
         /\ \A j \in 1..n - 1 : j < Depth(m) => Stack(Restore(m))[j] = Stack(m)[j]
         /\ n > 0 => Stack(Restore(m))[n] = m.returns[q + 2]
<1> DEFINE r == SubSeq(m.returns, 1, q + 6)
           v == SubSeq(m.returns, 1, q + 1)
           c == Resized(m.cells, n + 1)
           i == m.returns[q + 4]
           f == m.returns[q + 5]
           e == m.returns[q + 6]
           x == m.returns[q + 2]
           p == [m EXCEPT !.ep = e, !.fp = f, !.ip = i, !.cells = c, !.tos = x, !.returns = v]
<1>0. /\ m.returns \in Seq(ReturnCells) /\ m.cells \in Seq(Cells) /\ m.tos \in Cells
      /\ Depth(m) \in Nat /\ Len(m.cells) = Depth(m) + 1
  BY StackIs DEF Machines
<1>1. /\ r \in Seq(ReturnCells) /\ Len(r) = q + 6
      /\ \A j \in 1..q + 6 : r[j] = m.returns[j]
  BY <1>0, CutIs
<1>2. v \in Seq(ReturnCells)
  BY <1>0, CutIs
<1>3. SubSeq(r, 1, q + 1) = v
  <2> HIDE DEF r
  <2>1. /\ SubSeq(r, 1, q + 1) \in Seq(ReturnCells) /\ Len(SubSeq(r, 1, q + 1)) = q + 1
        /\ \A j \in 1..q + 1 : SubSeq(r, 1, q + 1)[j] = r[j]
    BY <1>1, CutIs
  <2>2. /\ v \in Seq(ReturnCells) /\ Len(v) = q + 1
        /\ \A j \in 1..q + 1 : v[j] = m.returns[j]
    BY <1>0, CutIs, SMTT(30)
  <2> HIDE DEF v
  <2> QED  BY <1>1, <2>1, <2>2, SeqEqual
<1>4. /\ c \in Seq(Cells) /\ Len(c) = n + 1
      /\ \A j \in 1..n + 1 : c[j] = IF j <= Len(m.cells) THEN m.cells[j] ELSE Junk
  <2>1. n + 1 \in Nat
    OBVIOUS
  <2> QED  BY <1>0, <2>1, ResizedIs
<1>5. /\ Index(m.ep) = q + 6 /\ Index(m.returns[q + 3]) = n + 1
  <2>1. q + 6 \in Nat /\ n + 1 \in Nat
    OBVIOUS
  <2> QED  BY <2>1, CellTypes
<1>6. Restore(m) = Spush(p, m.tos)
  <2> HIDE DEF r
  <2>1. /\ q + 6 - 1 = q + 5 /\ q + 6 - 2 = q + 4 /\ q + 6 - 3 = q + 3 /\ q + 6 - 4 = q + 2
        /\ q + 6 - 5 = q + 1
    OBVIOUS
  <2>2. r[q + 6] = e /\ r[q + 5] = f /\ r[q + 4] = i /\ r[q + 3] = m.returns[q + 3] /\ r[q + 2] = x
    BY <1>1
  <2> HIDE DEF v, i, f, e, x
  <2>3. SubSeq(m.returns, 1, Index(m.ep)) = r
    BY <1>5 DEF r
  <2> DEFINE Built(ep, fp, ip, sp, tos, ret) ==
               Spush([m EXCEPT !.ep = ep, !.fp = fp, !.ip = ip, !.cells = Resized(@, sp),
                               !.tos = tos, !.returns = ret], m.tos)
             Back(z, k) == Built(z[k], z[k - 1], z[k - 2], Index(z[k - 3]), z[k - 4],
                                 SubSeq(z, 1, k - 5))
  <2>4. Restore(m) = Back(SubSeq(m.returns, 1, Index(m.ep)),
                          Len(SubSeq(m.returns, 1, Index(m.ep))))
    BY DEF Restore
  <2>5. Spush(p, m.tos) = Built(e, f, i, n + 1, x, v)
    BY DEF c
  <2> HIDE DEF Built, p
  <2>6. Back(r, q + 6) = Built(e, f, i, n + 1, x, v)
    <3>1. r[q + 6 - 1] = f /\ r[q + 6 - 2] = i /\ r[q + 6 - 4] = x
      BY <2>1, <2>2
    <3>2. Index(r[q + 6 - 3]) = n + 1
      <4>1. r[q + 6 - 3] = m.returns[q + 3]
        BY <2>1, <2>2
      <4> QED  BY <1>5, <4>1
    <3>3. SubSeq(r, 1, q + 6 - 5) = v
      BY <1>3, <2>1
    <3>4. Back(r, q + 6) = Built(r[q + 6], r[q + 6 - 1], r[q + 6 - 2], Index(r[q + 6 - 3]),
                                 r[q + 6 - 4], SubSeq(r, 1, q + 6 - 5))
      <4>1. \A z, k : Back(z, k) = Built(z[k], z[k - 1], z[k - 2], Index(z[k - 3]), z[k - 4],
                                      SubSeq(z, 1, k - 5))
        OBVIOUS
      <4> HIDE DEF Back
      <4>2. \A k : Back(r, k) = Built(r[k], r[k - 1], r[k - 2], Index(r[k - 3]), r[k - 4],
                                   SubSeq(r, 1, k - 5))
        BY <4>1
      <4> QED  BY <4>2
    <3> HIDE DEF Back
    <3> QED  BY <2>2, <3>1, <3>2, <3>3, <3>4, Zenon
  <2> HIDE DEF Back
  <2> QED  BY <1>1, <2>3, <2>4, <2>5, <2>6
<1> HIDE DEF v, c, i, f, e, x
<1>7. /\ p.cells = c /\ p.tos = x /\ p.ip = i /\ p.returns = v /\ p.fp = f /\ p.ep = e
  BY DEF Machines
<1>8. p \in Machines
  <2>1. c # <<>>
    BY <1>4
  <2>2. x \in Cells /\ i \in Threads /\ f \in Frames /\ e \in Frames
    BY DEF i, f, e, x
  <2>3. p = [m EXCEPT !.ep = e, !.fp = f, !.ip = i, !.cells = c, !.tos = x, !.returns = v]
    OBVIOUS
  <2> HIDE DEF p
  <2> QED  BY <1>2, <1>4, <1>7, <2>1, <2>2, <2>3 DEF Machines
<1> HIDE DEF p
<1>9. Depth(p) = n
  BY <1>4, <1>7 DEF Depth
<1>10. /\ Spush(p, m.tos) \in Machines /\ Registers(Spush(p, m.tos)) = Registers(p)
       /\ Depth(Spush(p, m.tos)) = n + 1
       /\ Spush(p, m.tos).tos = m.tos
       /\ Stack(Spush(p, m.tos)) = Append(Stack(p), m.tos)
  BY <1>0, <1>8, <1>9, SpushIs
<1>11. /\ Stack(p) \in Seq(Cells) /\ Len(Stack(p)) = n
       /\ \A j \in 1..n : Stack(p)[j] = IF j = n THEN x ELSE c[j + 2]
  BY <1>7, <1>8, <1>9, StackIs
<1>12. \A j \in 1..n : Append(Stack(p), m.tos)[j] = Stack(p)[j]
  BY <1>0, <1>11
<1>13. ASSUME NEW j \in 1..n - 1, j < Depth(m) PROVE Stack(p)[j] = Stack(m)[j]
  <2>1. Stack(p)[j] = c[j + 2]
    BY <1>11
  <2>2. j \in 1..Depth(m) /\ j # Depth(m) /\ j + 2 \in 1..n + 1 /\ j + 2 <= Len(m.cells)
    BY <1>0, <1>13
  <2>3. c[j + 2] = m.cells[j + 2]
    BY <1>4, <2>2
  <2>4. Stack(m)[j] = m.cells[j + 2]
    BY <2>2, StackIs
  <2> QED  BY <2>1, <2>3, <2>4
<1> QED  BY <1>6, <1>7, <1>10, <1>11, <1>12, <1>13 DEF Registers, v, i, f, e, x

(* A set of calls has an innermost one, if any. *)
LEMMA GreatestBelow ==
  ASSUME NEW n \in Nat, NEW S \in SUBSET (0..n), S # {}
  PROVE  \E x \in S : \A y \in S : y <= x
<1> DEFINE T == {n - x : x \in S}
<1>1. T \in SUBSET Nat /\ T # {}
  <2>1. \A x \in S : n - x \in Nat
    OBVIOUS
  <2> QED  BY <2>1
<1>2. \E k \in T : \A j \in T : ~ (<<j, k>> \in OpToRel(<, Nat))
  BY <1>1, WFMin, NatLessThanWellFounded, Zenon
<1>3. \A j, k \in Nat : j < k => <<j, k>> \in OpToRel(<, Nat)
  BY DEF OpToRel
<1>4. PICK k \in T : \A j \in T : ~ (j < k)
  <2> HIDE DEF T
  <2> QED  BY <1>1, <1>2, <1>3
<1>5. PICK x \in S : k = n - x
  BY <1>4
<1>6. \A y \in S : ~ (n - y < n - x)
  BY <1>4, <1>5
<1> QED  BY <1>6

\* Of the calls whose exception block is armed, one is innermost.
LEMMA LastArmed ==
  ASSUME NEW s, NEW n \in Nat
  PROVE  \/ \A i \in 1..n : ~ Armed(s[i])
         \/ \E i \in 1..n : Armed(s[i]) /\ \A j \in i + 1..n : ~ Armed(s[j])
<1> SUFFICES ASSUME ~ (\A i \in 1..n : ~ Armed(s[i]))
             PROVE  \E i \in 1..n : Armed(s[i]) /\ \A j \in i + 1..n : ~ Armed(s[j])
  OBVIOUS
<1> DEFINE S == {i \in 1..n : Armed(s[i])}
<1>1. S \in SUBSET (0..n) /\ S # {}
  OBVIOUS
<1>2. PICK x \in S : \A y \in S : y <= x
  <2> HIDE DEF S
  <2> QED  BY <1>1, GreatestBelow
<1>3. \A j \in x + 1..n : j \notin S
  <2> HIDE DEF S
  <2>1. x \in Nat
    BY <1>1
  <2> QED  BY <1>2, <2>1
<1>4. x \in 1..n /\ Armed(s[x])
  BY <1>2
<1> QED  BY <1>3, <1>4

\* Handler is the innermost call of those whose exception block is armed.
LEMMA HandlerIs ==
  ASSUME NEW s \in Seq(Calls)
  PROVE  \/ Handler(s) = 0 /\ \A i \in 1..Len(s) : ~ Armed(s[i])
         \/ /\ Handler(s) \in 1..Len(s) /\ Armed(s[Handler(s)])
            /\ \A j \in Handler(s) + 1..Len(s) : ~ Armed(s[j])
<1> DEFINE A == {i \in 1..Len(s) : s[i].word \in Protected /\ s[i].at = "body"}
           S == {0} \cup A
<1>0. Len(s) \in Nat
  OBVIOUS
<1>1. S \in SUBSET (0..Len(s)) /\ S # {}
  BY <1>0
<1>2. Handler(s) \in S /\ \A y \in S : Handler(s) >= y
  <2>1. \E x \in S : \A y \in S : x >= y
    <3> HIDE DEF S
    <3>1. \E x \in S : \A y \in S : y <= x
      BY <1>0, <1>1, GreatestBelow
    <3>2. \A x, y \in S : x \in Int /\ y \in Int
      BY <1>0, <1>1
    <3> QED  BY <3>1, <3>2
  <2>2. Handler(s) = CHOOSE x \in S : \A y \in S : x >= y
    BY DEF Handler, Max
  <2> HIDE DEF S
  <2> QED  BY <2>1, <2>2, Zenon
<1>3. \A i \in 1..Len(s) : Armed(s[i]) <=> i \in A
  BY DEF Armed
<1> HIDE DEF A
<1>4. CASE Handler(s) = 0
  <2>1. \A i \in 1..Len(s) : i \notin A
    BY <1>0, <1>2, <1>4
  <2> QED  BY <1>3, <1>4, <2>1
<1>5. CASE Handler(s) # 0
  <2>1. Handler(s) \in A /\ Handler(s) \in 1..Len(s)
    BY <1>1, <1>2, <1>5
  <2>2. \A j \in Handler(s) + 1..Len(s) : j \notin A
    BY <1>0, <1>2, <2>1
  <2>3. \A j \in Handler(s) + 1..Len(s) : j \in 1..Len(s)
    BY <1>0, <2>1
  <2> QED  BY <1>3, <2>1, <2>2, <2>3
<1> QED  BY <1>4, <1>5

----------------------------------------------------------------------------
(* Which cells of the stacks a call depends on.                             *)

\* The cells below this belong to the calls a task is in.
Floor(s) == IF s = <<>> THEN 0 ELSE BaseOf(s[Len(s)])

\* The measures of a call.
LEMMA CallTypes ==
  ASSUME NEW c \in Calls
  PROVE  /\ arguments[c.word] \in Nat /\ locals[c.word] \in Nat
         /\ Len(c.kept) \in Nat /\ Len(c.returns) \in Nat
         /\ BaseOf(c) \in Nat /\ Len(c.kept) <= BaseOf(c)
         /\ Framing(c) => BaseOf(c) = Len(c.kept) + arguments[c.word] + locals[c.word] + 1
         /\ TopOf(c) \in Nat /\ Len(c.returns) < TopOf(c)
         /\ Armed(c) => Len(c.returns) + 6 <= TopOf(c)
<1>1. /\ arguments[c.word] \in Nat /\ locals[c.word] \in Nat
      /\ Len(c.kept) \in Nat /\ Len(c.returns) \in Nat
  BY ContextAssumption DEF Calls
<1>2. /\ BaseOf(c) \in Nat /\ Len(c.kept) <= BaseOf(c)
      /\ Framing(c) => BaseOf(c) = Len(c.kept) + arguments[c.word] + locals[c.word] + 1
  <2>1. CASE Framing(c)
    <3>1. BaseOf(c) = Len(c.kept) + arguments[c.word] + locals[c.word] + 1
      BY <2>1 DEF BaseOf
    <3>2. \A k, a, l \in Nat : k + a + l + 1 \in Nat /\ k <= k + a + l + 1
      OBVIOUS
    <3> QED  BY <1>1, <3>1, <3>2
  <2>2. CASE ~ Framing(c)
    BY <1>1, <2>2 DEF BaseOf
  <2> QED  BY <2>1, <2>2
<1>3. \A q \in Nat : LET t == q + 1 + (IF Armed(c) THEN 5 ELSE 0) + (IF Framing(c) THEN 1 ELSE 0)
                    IN  t \in Nat /\ q < t /\ (Armed(c) => q + 6 <= t)
  OBVIOUS
<1> QED  BY <1>1, <1>2, <1>3 DEF TopOf

\* What a call needs of the parameter stack lies up to its base,
LEMMA KeptInAgrees ==
  ASSUME NEW c \in Calls, NEW s \in Seq(Cells), NEW z \in Seq(Cells), KeptIn(c, s),
         Len(z) >= BaseOf(c), \A j \in 1..BaseOf(c) : z[j] = s[j]
  PROVE  KeptIn(c, z)
<1>1. /\ arguments[c.word] \in Nat /\ locals[c.word] \in Nat
      /\ Len(c.kept) \in Nat /\ BaseOf(c) \in Nat /\ Len(c.kept) <= BaseOf(c)
      /\ Framing(c) => BaseOf(c) = Len(c.kept) + arguments[c.word] + locals[c.word] + 1
  BY CallTypes
<1>2. ASSUME NEW j \in 1..Len(c.kept) PROVE z[j] = c.kept[j]
  <2>1. j \in 1..BaseOf(c)
    BY <1>1
  <2> QED  BY <2>1 DEF KeptIn
<1>3. ASSUME Framing(c), NEW k \in Bound(c.word) PROVE z[Len(c.kept) + k] = c.vars[k]
  <2>1. Len(c.kept) + k \in 1..BaseOf(c)
    <3> DEFINE l == Len(c.kept) a == arguments[c.word] b == locals[c.word] d == BaseOf(c)
    <3>1. k \in 1..(a + b)
      BY <1>3 DEF Bound
    <3>2. a \in Nat /\ b \in Nat /\ l \in Nat /\ d = l + a + b + 1
      BY <1>1, <1>3
    <3> HIDE DEF l, a, b, d
    <3>3. l + k \in 1..d
      BY <3>1, <3>2
    <3> QED  BY <3>3 DEF l, d
  <2> QED  BY <1>3, <2>1 DEF KeptIn
<1>4. ASSUME Framing(c) PROVE z[BaseOf(c)] = c.fp
  <2>1. BaseOf(c) \in 1..BaseOf(c)
    BY <1>1, <1>4
  <2> QED  BY <1>4, <2>1 DEF KeptIn
<1> QED  BY <1>2, <1>3, <1>4 DEF KeptIn

\* and what it needs of the return stack up to its top.
LEMMA ReturnsInAgrees ==
  ASSUME NEW c \in Calls, NEW r \in Seq(ReturnCells), NEW z \in Seq(ReturnCells), ReturnsIn(c, r),
         Len(z) >= TopOf(c), \A j \in 1..TopOf(c) : z[j] = r[j]
  PROVE  ReturnsIn(c, z)
<1>1. /\ Len(c.returns) \in Nat /\ TopOf(c) \in Nat /\ Len(c.returns) < TopOf(c)
      /\ Armed(c) => Len(c.returns) + 6 <= TopOf(c)
  BY CallTypes
<1>2. \A j \in 1..Len(c.returns) + 1 : j \in 1..TopOf(c)
  BY <1>1
<1>3. TopOf(c) \in 1..TopOf(c)
  BY <1>1
<1>4. Armed(c) => \A j \in 1..6 : Len(c.returns) + j \in 1..TopOf(c)
  BY <1>1
<1>5. \A j \in 1..Len(c.returns) + 1 : z[j] = r[j]
  BY <1>2
<1>6. z[TopOf(c)] = r[TopOf(c)]
  BY <1>3
<1>7. Armed(c) => /\ z[Len(c.returns) + 2] = r[Len(c.returns) + 2]
                  /\ z[Len(c.returns) + 3] = r[Len(c.returns) + 3]
                  /\ z[Len(c.returns) + 4] = r[Len(c.returns) + 4]
                  /\ z[Len(c.returns) + 5] = r[Len(c.returns) + 5]
                  /\ z[Len(c.returns) + 6] = r[Len(c.returns) + 6]
  <2>1. 2 \in 1..6 /\ 3 \in 1..6 /\ 4 \in 1..6 /\ 5 \in 1..6 /\ 6 \in 1..6
    OBVIOUS
  <2>2. Armed(c) => \A j \in 1..6 : z[Len(c.returns) + j] = r[Len(c.returns) + j]
    BY <1>4
  <2> QED  BY <2>1, <2>2
<1>8. \A j \in 1..Len(c.returns) : z[j] = c.returns[j]
  <2>1. \A j \in 1..Len(c.returns) : j \in 1..Len(c.returns) + 1
    BY <1>1
  <2> QED  BY <1>5, <2>1 DEF ReturnsIn
<1>9. z[Len(c.returns) + 1] = c.ip
  <2>1. Len(c.returns) + 1 \in 1..Len(c.returns) + 1
    BY <1>1
  <2> QED  BY <1>5, <2>1 DEF ReturnsIn
<1> QED  BY <1>6, <1>7, <1>8, <1>9 DEF ReturnsIn

\* A level depends on the registers and on the stack up to its floor,
LEMMA LevelAgrees ==
  ASSUME NEW s, NEW n \in Nat, \A i \in 1..n : s[i] \in Calls, NEW p, NEW r,
         NEW k \in Seq(Cells), NEW z \in Seq(Cells),
         \A i \in 1..n : BaseOf(s[i]) <= Len(z) /\ \A j \in 1..BaseOf(s[i]) : z[j] = k[j],
         r.ip = p.ip, r.fp = p.fp, r.ep = p.ep, r.returns = p.returns, Level(s, n, p, k)
  PROVE  Level(s, n, r, z)
<1>1. EpFits(s, n, r.ep)
  BY DEF Level
<1>2. IF n = 0 THEN InTask(r) ELSE InCall(s[n], r)
  BY DEF Level, InTask, InCall
<1>3. ASSUME NEW i \in 1..n PROVE KeptIn(s[i], z) /\ ReturnsIn(s[i], r.returns)
  <2>1. s[i] \in Calls /\ BaseOf(s[i]) \in Nat
    BY CallTypes
  <2>2. KeptIn(s[i], k) /\ ReturnsIn(s[i], r.returns)
    BY DEF Level
  <2>3. Len(z) >= BaseOf(s[i]) /\ \A j \in 1..BaseOf(s[i]) : z[j] = k[j]
    BY <2>1
  <2> QED  BY <2>1, <2>2, <2>3, KeptInAgrees
<1> QED  BY <1>1, <1>2, <1>3 DEF Level

\* and on the calls up to it.
LEMMA LevelPrefix ==
  ASSUME NEW s, NEW z, NEW n \in Nat, \A i \in 1..n : z[i] = s[i], NEW p, NEW k, Level(s, n, p, k)
  PROVE  Level(z, n, p, k)
<1>1. \A i \in 1..n : \A j \in i + 1..n : j \in 1..n
  OBVIOUS
<1>2. EpFits(z, n, p.ep)
  <2>1. EpFits(s, n, p.ep)
    BY DEF Level
  <2> QED  BY <1>1, <2>1 DEF EpFits
<1>3. n # 0 => n \in 1..n
  OBVIOUS
<1>4. IF n = 0 THEN InTask(p) ELSE InCall(z[n], p)
  BY <1>3 DEF Level
<1> QED  BY <1>2, <1>4 DEF Level

\* The bases of the calls of a task are ordered as the calls are.
LEMMA FloorIs ==
  ASSUME NEW m, NEW s, TaskInv(m, s)
  PROVE  /\ m \in Machines /\ s \in Seq(Calls) /\ Len(s) \in Nat
         /\ \A i \in 1..Len(s) : s[i] \in Calls
         /\ Floor(s) \in Nat /\ Floor(s) <= Depth(m)
         /\ \A i \in 1..Len(s) : BaseOf(s[i]) <= Floor(s)
         /\ \A j \in 1..Len(s) : \A i \in 1..j - 1 : BaseOf(s[i]) <= Len(s[j].kept)
<1>1. m \in Machines /\ s \in Seq(Calls)
  BY DEF TaskInv
<1>2. Len(s) \in Nat /\ (\A i \in 1..Len(s) : s[i] \in Calls) /\ (s # <<>> => Len(s) \in 1..Len(s))
  BY <1>1
<1>3. \A i \in 1..Len(s) : BaseOf(s[i]) \in Nat /\ Len(s[i].kept) \in Nat /\ Len(s[i].kept) <= BaseOf(s[i])
  BY <1>2, CallTypes
<1>4. ASSUME NEW j \in 1..Len(s), NEW i \in 1..j - 1 PROVE BaseOf(s[i]) <= Len(s[j].kept)
  <2>1. KeptIn(s[i], s[j].kept) /\ i \in 1..Len(s)
    BY <1>2 DEF TaskInv, Level
  <2> QED  BY <1>3, <2>1 DEF KeptIn
<1>5. Depth(m) \in Nat /\ Len(Stack(m)) = Depth(m)
  BY <1>1, StackIs
<1>6. CASE s = <<>>
  BY <1>1, <1>2, <1>5, <1>6 DEF Floor
<1>7. CASE s # <<>>
  <2>1. Len(s) \in 1..Len(s) /\ Floor(s) = BaseOf(s[Len(s)])
    BY <1>2, <1>7 DEF Floor
  <2>2. KeptIn(s[Len(s)], Stack(m))
    BY <2>1 DEF TaskInv, Level
  <2>3. Floor(s) \in Nat /\ Floor(s) <= Depth(m)
    BY <1>3, <1>5, <2>1, <2>2 DEF KeptIn
  <2>4. ASSUME NEW i \in 1..Len(s) PROVE BaseOf(s[i]) <= Floor(s)
    <3>1. CASE i = Len(s)
      BY <2>1, <2>3, <3>1
    <3>2. CASE i # Len(s)
      <4>1. i \in 1..Len(s) - 1
        BY <1>2, <3>2
      <4>2. BaseOf(s[i]) <= Len(s[Len(s)].kept) /\ Len(s[Len(s)].kept) <= BaseOf(s[Len(s)])
        BY <1>3, <1>4, <2>1, <4>1
      <4>3. BaseOf(s[i]) \in Nat /\ Len(s[Len(s)].kept) \in Nat /\ BaseOf(s[Len(s)]) \in Nat
        BY <1>3, <2>1
      <4> QED  BY <2>1, <4>2, <4>3
    <3> QED  BY <3>1, <3>2
  <2> QED  BY <1>1, <1>2, <1>4, <2>3, <2>4
<1> QED  BY <1>6, <1>7

\* A task is not disturbed by what happens to the stack above its calls.
LEMMA TaskStays ==
  ASSUME NEW m, NEW s, TaskInv(m, s), NEW p \in Machines, Registers(p) = Registers(m),
         Depth(p) >= Floor(s), \A j \in 1..Floor(s) : Stack(p)[j] = Stack(m)[j]
  PROVE  TaskInv(p, s)
<1>1. /\ m \in Machines /\ s \in Seq(Calls) /\ Len(s) \in Nat
      /\ \A i \in 1..Len(s) : s[i] \in Calls
      /\ Floor(s) \in Nat /\ \A i \in 1..Len(s) : BaseOf(s[i]) <= Floor(s)
  BY FloorIs
<1>2. Stack(p) \in Seq(Cells) /\ Len(Stack(p)) = Depth(p) /\ Depth(p) \in Nat
      /\ Stack(m) \in Seq(Cells)
  BY <1>1, StackIs
<1>3. \A i \in 1..Len(s) : BaseOf(s[i]) \in Nat
  BY <1>1, CallTypes
<1>4. \A i \in 1..Len(s) : /\ BaseOf(s[i]) <= Len(Stack(p))
                           /\ \A j \in 1..BaseOf(s[i]) : Stack(p)[j] = Stack(m)[j]
  <2>1. \A i \in 1..Len(s) : \A j \in 1..BaseOf(s[i]) : j \in 1..Floor(s)
    BY <1>1, <1>3
  <2> QED  BY <1>1, <1>2, <1>3, <2>1
<1>5. p.ip = m.ip /\ p.fp = m.fp /\ p.ep = m.ep /\ p.returns = m.returns
  BY DEF Registers
<1>6. Level(s, Len(s), m, Stack(m))
  BY DEF TaskInv
<1>7. Level(s, Len(s), p, Stack(p))
  BY <1>1, <1>2, <1>4, <1>5, <1>6, LevelAgrees
<1> QED  BY <1>7 DEF TaskInv

----------------------------------------------------------------------------
(* Calls.                                                                   *)

\* The machine after the entry of a word: the frames it makes.
LEMMA EnterIs ==
  ASSUME NEW m \in Machines, m = vm, NEW w \in Words, arguments[w] <= Depth(m)
  PROVE  LET p == Enter(w)
             D == Depth(m)
             q == Len(m.returns)
         IN  /\ p \in Machines /\ p.ip = Code(w, "body")
             /\ p.fp = IF w \in Framed THEN At(D - arguments[w] + 2) ELSE m.fp
             /\ p.ep = IF w \in Protected THEN At(q + 6) ELSE m.ep
             /\ Len(p.returns) = q + 1 + (IF w \in Protected THEN 5 ELSE 0)
                                       + (IF w \in Framed THEN 1 ELSE 0)
             /\ \A j \in 1..q : p.returns[j] = m.returns[j]
             /\ p.returns[q + 1] = m.ip
             /\ w \in Protected => /\ p.returns[q + 2] = m.tos /\ p.returns[q + 3] = At(D + 1)
                                   /\ p.returns[q + 4] = Code(w, "handler")
                                   /\ p.returns[q + 5] = m.fp /\ p.returns[q + 6] = m.ep
             /\ w \in Framed => p.returns[Len(p.returns)] = At(D + 2 + locals[w])
             /\ \A j \in 1..D : Stack(p)[j] = Stack(m)[j]
             /\ w \notin Framed => Depth(p) = D
             /\ w \in Framed => /\ Depth(p) = D + 1 + locals[w]
                                /\ \A j \in D + 1..D + locals[w] : Stack(p)[j] = Junk
                                /\ Stack(p)[D + 1 + locals[w]] = m.fp
<1> DEFINE D == Depth(m)
           q == Len(m.returns)
           l == locals[w]
           a == arguments[w]
           b == Code(w, "body")
           h == Code(w, "handler")
           u == Rpush(m, m.ip)
           r == [u EXCEPT !.ip = b]
           c == IF w \in Protected THEN Catch(r, b, h) ELSE r
           p == IF w \in Framed THEN Link(c, a, l) ELSE c
<1>0. /\ D \in Nat /\ q \in Nat /\ a \in Nat /\ l \in Nat /\ m.returns \in Seq(ReturnCells)
      /\ m.ip \in ReturnCells /\ b \in Threads /\ h \in Threads
  BY StackIs, CellTypes, ContextAssumption DEF Machines, ReturnCells
<1>1. Enter(w) = p
  BY DEF Enter
<1>2. /\ u \in Machines /\ u.returns = Append(m.returns, m.ip)
      /\ u.fp = m.fp /\ u.ep = m.ep /\ u.cells = m.cells /\ u.tos = m.tos
      /\ Depth(u) = D /\ Stack(u) = Stack(m)
  BY <1>0, RpushIs
<1> HIDE DEF D, q, l, a, b, h, u
<1>3. /\ r \in Machines /\ r.returns = Append(m.returns, m.ip) /\ r.ip = b
      /\ r.fp = m.fp /\ r.ep = m.ep /\ r.tos = m.tos
      /\ Depth(r) = D /\ Stack(r) = Stack(m)
  <2>1. /\ r.returns = u.returns /\ r.ip = b /\ r.fp = u.fp /\ r.ep = u.ep /\ r.tos = u.tos
        /\ r.cells = u.cells
    BY <1>2 DEF Machines
  <2>2. r \in Machines
    BY <1>0, <1>2, <2>1 DEF Machines
  <2> HIDE DEF r
  <2> QED  BY <1>2, <2>1, <2>2 DEF Depth, Stack
<1> HIDE DEF r
<1>4. /\ Len(r.returns) = q + 1 /\ r.returns[q + 1] = m.ip
      /\ \A j \in 1..q : r.returns[j] = m.returns[j]
  <2>1. /\ Len(Append(m.returns, m.ip)) = Len(m.returns) + 1
        /\ Append(m.returns, m.ip)[Len(m.returns) + 1] = m.ip
        /\ \A j \in 1..Len(m.returns) : Append(m.returns, m.ip)[j] = m.returns[j]
    BY <1>0, AppendProperties
  <2> QED  BY <1>3, <2>1 DEF q
<1>5. /\ c \in Machines /\ c.ip = b /\ c.fp = m.fp
      /\ c.ep = IF w \in Protected THEN At(q + 6) ELSE m.ep
      /\ Len(c.returns) = q + 1 + (IF w \in Protected THEN 5 ELSE 0)
      /\ \A j \in 1..q : c.returns[j] = m.returns[j]
      /\ c.returns[q + 1] = m.ip
      /\ w \in Protected => /\ c.returns[q + 2] = m.tos /\ c.returns[q + 3] = At(D + 1)
                            /\ c.returns[q + 4] = h
                            /\ c.returns[q + 5] = m.fp /\ c.returns[q + 6] = m.ep
      /\ Depth(c) = D /\ Stack(c) = Stack(m)
  <2>1. CASE w \notin Protected
    BY <1>0, <1>3, <1>4, <2>1
  <2>2. CASE w \in Protected
    <3>1. c = Catch(r, b, h)
      BY <2>2
    <3> HIDE DEF c
    <3>2. /\ c \in Machines
          /\ c.ip = b /\ c.fp = r.fp
          /\ c.ep = At(Len(r.returns) + 5)
          /\ LET z == c.returns
                 n == Len(r.returns)
             IN  /\ z \in Seq(ReturnCells) /\ Len(z) = n + 5
                 /\ \A j \in 1..n : z[j] = r.returns[j]
                 /\ z[n + 1] = r.tos /\ z[n + 2] = At(Depth(r) + 1) /\ z[n + 3] = h
                 /\ z[n + 4] = r.fp /\ z[n + 5] = r.ep
          /\ Depth(c) = Depth(r) /\ Stack(c) = Stack(r)
      <4>1. /\ Catch(r, b, h) \in Machines
            /\ Catch(r, b, h).ip = b /\ Catch(r, b, h).fp = r.fp
            /\ Catch(r, b, h).ep = At(Len(r.returns) + 5)
            /\ LET z == Catch(r, b, h).returns
                   n == Len(r.returns)
               IN  /\ z \in Seq(ReturnCells) /\ Len(z) = n + 5
                   /\ \A j \in 1..n : z[j] = r.returns[j]
                   /\ z[n + 1] = r.tos /\ z[n + 2] = At(Depth(r) + 1) /\ z[n + 3] = h
                   /\ z[n + 4] = r.fp /\ z[n + 5] = r.ep
            /\ Depth(Catch(r, b, h)) = Depth(r) /\ Stack(Catch(r, b, h)) = Stack(r)
        BY <1>0, <1>3, CatchIs, ZenonT(60)
      <4> QED  BY <3>1, <4>1
    <3>3. /\ q + 1 + 5 = q + 6 /\ q + 1 + 1 = q + 2 /\ q + 1 + 2 = q + 3 /\ q + 1 + 3 = q + 4
          /\ q + 1 + 4 = q + 5
      BY <1>0
    <3>4. /\ c.ep = At(q + 6) /\ Len(c.returns) = q + 6
          /\ \A j \in 1..q + 1 : c.returns[j] = r.returns[j]
          /\ c.returns[q + 2] = m.tos /\ c.returns[q + 3] = At(D + 1)
          /\ c.returns[q + 4] = h
          /\ c.returns[q + 5] = m.fp /\ c.returns[q + 6] = m.ep
      BY <1>3, <1>4, <3>2, <3>3
    <3>5. /\ \A j \in 1..q : c.returns[j] = m.returns[j]
          /\ c.returns[q + 1] = m.ip
      <4>1. \A j \in 1..q : j \in 1..q + 1
        BY <1>0
      <4>2. q + 1 \in 1..q + 1
        BY <1>0
      <4> QED  BY <1>4, <3>4, <4>1, <4>2
    <3> QED  BY <1>3, <2>2, <3>2, <3>3, <3>4, <3>5
  <2> QED  BY <2>1, <2>2
<1> HIDE DEF c
<1>6. CASE w \notin Framed
  <2>1. p = c
    BY <1>6
  <2>2. Len(c.returns) = q + 1 + (IF w \in Protected THEN 5 ELSE 0)
                               + (IF w \in Framed THEN 1 ELSE 0)
    BY <1>0, <1>5, <1>6
  <2> HIDE DEF p
  <2> QED  BY <1>1, <1>5, <1>6, <2>1, <2>2 DEF D, q, b, h
<1>7. CASE w \in Framed
  <2>1. p = Link(c, a, l)
    BY <1>7
  <2> HIDE DEF p
  <2>2. /\ p \in Machines
        /\ p.ip = c.ip /\ p.ep = c.ep
        /\ p.fp = At(Depth(c) - a + 2)
        /\ p.returns = Append(c.returns, At(Depth(c) + 2 + l))
        /\ Depth(p) = Depth(c) + 1 + l
        /\ \A j \in 1..Depth(c) : Stack(p)[j] = Stack(c)[j]
        /\ \A j \in Depth(c) + 1..Depth(c) + l : Stack(p)[j] = Junk
        /\ Stack(p)[Depth(c) + 1 + l] = c.fp
    <3>1. a <= Depth(c)
      BY <1>5 DEF a, D
    <3>2. /\ Link(c, a, l) \in Machines
          /\ Link(c, a, l).ip = c.ip /\ Link(c, a, l).ep = c.ep
          /\ Link(c, a, l).fp = At(Depth(c) - a + 2)
          /\ Link(c, a, l).returns = Append(c.returns, At(Depth(c) + 2 + l))
          /\ Depth(Link(c, a, l)) = Depth(c) + 1 + l
          /\ \A j \in 1..Depth(c) : Stack(Link(c, a, l))[j] = Stack(c)[j]
          /\ \A j \in Depth(c) + 1..Depth(c) + l : Stack(Link(c, a, l))[j] = Junk
          /\ Stack(Link(c, a, l))[Depth(c) + 1 + l] = c.fp
      BY <1>0, <1>5, <3>1, LinkIs, ZenonT(60)
    <3> QED  BY <2>1, <3>2
  <2> DEFINE n == Len(c.returns)
             x == At(D + 2 + l)
  <2>3. /\ Len(p.returns) = n + 1 /\ p.returns[n + 1] = x
        /\ \A j \in 1..n : p.returns[j] = c.returns[j]
    <3>1. c.returns \in Seq(ReturnCells)
      BY <1>5 DEF Machines
    <3>2. x \in ReturnCells
      <4>1. D + 2 + l \in Nat
        BY <1>0
      <4> QED  BY <4>1, CellTypes DEF ReturnCells
    <3> HIDE DEF x
    <3>3. p.returns = Append(c.returns, x)
      BY <1>5, <2>2 DEF x
    <3> QED  BY <3>1, <3>2, <3>3, AppendProperties
  <2>4. /\ n \in Nat /\ n >= q + 1 /\ (w \in Protected => n >= q + 6)
        /\ n + 1 = q + 1 + (IF w \in Protected THEN 5 ELSE 0) + (IF w \in Framed THEN 1 ELSE 0)
    BY <1>0, <1>5, <1>7
  <2> HIDE DEF n, x
  <2>5. \A j \in 1..q + 1 : p.returns[j] = c.returns[j]
    <3>1. \A j \in 1..q + 1 : j \in 1..n
      BY <1>0, <2>4
    <3> QED  BY <2>3, <3>1
  <2>6. /\ \A j \in 1..q : p.returns[j] = m.returns[j]
        /\ p.returns[q + 1] = m.ip
    <3>1. (\A j \in 1..q : j \in 1..q + 1) /\ q + 1 \in 1..q + 1
      BY <1>0
    <3> QED  BY <1>5, <2>5, <3>1
  <2>7. w \in Protected => /\ p.returns[q + 2] = m.tos /\ p.returns[q + 3] = At(D + 1)
                           /\ p.returns[q + 4] = h
                           /\ p.returns[q + 5] = m.fp /\ p.returns[q + 6] = m.ep
    <3>1. w \in Protected => /\ q + 2 \in 1..n /\ q + 3 \in 1..n /\ q + 4 \in 1..n
                             /\ q + 5 \in 1..n /\ q + 6 \in 1..n
      BY <1>0, <2>4
    <3> QED  BY <1>5, <2>3, <3>1
  <2>8. p.returns[Len(p.returns)] = x
    BY <2>3
  <2>9. /\ Depth(p) = D + 1 + l /\ (\A j \in 1..D : Stack(p)[j] = Stack(m)[j])
        /\ (\A j \in D + 1..D + l : Stack(p)[j] = Junk)
        /\ Stack(p)[D + 1 + l] = m.fp /\ p.fp = At(D - a + 2)
    BY <1>5, <2>2
  <2> QED  BY <1>1, <1>5, <1>7, <2>2, <2>3, <2>4, <2>6, <2>7, <2>8, <2>9 DEF D, q, b, h, l, a, x
<1> QED  BY <1>6, <1>7

\* What Call appends to the words the task is in.
NewCall(m, w) ==
  LET s == Stack(m)
      below == Depth(m) - arguments[w]
  IN  [word |-> w, at |-> "body", kept |-> SubSeq(s, 1, below),
       vars |-> IF w \in Framed
                THEN [k \in Bound(w) |-> IF k <= arguments[w] THEN s[below + k] ELSE Junk]
                ELSE <<>>,
       ip |-> m.ip, fp |-> m.fp, ep |-> m.ep, returns |-> m.returns]

\* What the history records of it.
LEMMA NewCallIs ==
  ASSUME NEW m \in Machines, NEW w \in Words, arguments[w] <= Depth(m)
  PROVE  LET c == NewCall(m, w)
             b == Depth(m) - arguments[w]
         IN  /\ c \in Calls /\ c.word = w /\ c.at = "body"
             /\ Len(c.kept) = b /\ \A j \in 1..b : c.kept[j] = Stack(m)[j]
             /\ w \in Framed => /\ Len(c.vars) = arguments[w] + locals[w]
                                /\ \A k \in Bound(w) :
                                     c.vars[k] = IF k <= arguments[w] THEN Stack(m)[b + k] ELSE Junk
             /\ c.ip = m.ip /\ c.fp = m.fp /\ c.ep = m.ep /\ c.returns = m.returns
<1> DEFINE c == NewCall(m, w)
           a == arguments[w]
           l == locals[w]
           b == Depth(m) - a
           v == [k \in Bound(w) |-> IF k <= a THEN Stack(m)[b + k] ELSE Junk]
           z == IF w \in Framed THEN v ELSE <<>>
<1>0. /\ Depth(m) \in Nat /\ a \in Nat /\ l \in Nat /\ b \in Nat /\ b <= Depth(m) /\ b + a = Depth(m)
      /\ Stack(m) \in Seq(Cells) /\ Len(Stack(m)) = Depth(m)
      /\ m.ip \in Threads /\ m.fp \in Frames /\ m.ep \in Frames /\ m.returns \in Seq(ReturnCells)
  BY StackIs, ContextAssumption DEF Machines
<1>1. /\ c.word = w /\ c.at = "body" /\ c.kept = SubSeq(Stack(m), 1, b) /\ c.vars = z
      /\ c.ip = m.ip /\ c.fp = m.fp /\ c.ep = m.ep /\ c.returns = m.returns
      /\ c = [word |-> c.word, at |-> c.at, kept |-> c.kept, vars |-> c.vars, ip |-> c.ip,
              fp |-> c.fp, ep |-> c.ep, returns |-> c.returns]
  BY DEF NewCall
<1>2. /\ SubSeq(Stack(m), 1, b) \in Seq(Cells) /\ Len(SubSeq(Stack(m), 1, b)) = b
      /\ \A j \in 1..b : SubSeq(Stack(m), 1, b)[j] = Stack(m)[j]
  <2>1. \A j \in 1..b : Stack(m)[j] \in Cells
    BY <1>0
  <2>2. 1 \in Int /\ b \in Int
    BY <1>0
  <2> HIDE DEF b
  <2>3. /\ SubSeq(Stack(m), 1, b) \in Seq(Cells)
        /\ Len(SubSeq(Stack(m), 1, b)) = IF 1 <= b THEN b - 1 + 1 ELSE 0
        /\ \A j \in 1..b - 1 + 1 : SubSeq(Stack(m), 1, b)[j] = Stack(m)[1 + j - 1]
    BY <2>1, <2>2, SubSeqProperties
  <2>4. b \in Nat
    BY <1>0
  <2> QED  BY <2>3, <2>4
<1>3. Bound(w) = 1..a + l /\ a + l \in Nat
  BY <1>0 DEF Bound
<1>4. v \in [1..a + l -> Cells]
  <2>1. ASSUME NEW k \in 1..a + l, k <= a PROVE Stack(m)[b + k] \in Cells
    <3>1. b + k \in 1..Len(Stack(m))
      BY <1>0, <2>1
    <3> HIDE DEF b
    <3> QED  BY <1>0, <3>1, ElementOfSeq
  <2>2. \A k \in Bound(w) : (IF k <= a THEN Stack(m)[b + k] ELSE Junk) \in Cells
    BY <1>3, <2>1, CellTypes
  <2> HIDE DEF a, l, b
  <2> QED  BY <1>3, <2>2
<1>5. v \in Seq(Cells) /\ Len(v) = a + l
  <2> HIDE DEF v, a, l
  <2>1. PICK N \in Nat : N = a + l
    BY <1>3
  <2>2. v \in [1..N -> Cells]
    BY <1>4, <2>1
  <2>3. v \in Seq(Cells)
    BY <2>2, SeqDef
  <2>4. Len(v) = N
    BY <2>2, <2>3, LenProperties
  <2> QED  BY <2>1, <2>3, <2>4
<1>6. z \in Seq(Cells)
  <2> HIDE DEF v
  <2> QED  BY <1>5, EmptySeq
<1>7. \A k \in Bound(w) : v[k] = IF k <= a THEN Stack(m)[b + k] ELSE Junk
  OBVIOUS
<1>8. c \in Calls
  <2> HIDE DEF c, z, b
  <2>1. /\ c.word \in Words /\ c.at \in {"body", "handler"} /\ c.kept \in Seq(Cells)
        /\ c.vars \in Seq(Cells) /\ c.ip \in Threads /\ c.fp \in Frames /\ c.ep \in Frames
        /\ c.returns \in Seq(ReturnCells)
    BY <1>0, <1>1, <1>2, <1>6
  <2> QED  BY <1>1, <2>1 DEF Calls
<1> HIDE DEF c, v
<1> QED  BY <1>1, <1>2, <1>5, <1>7, <1>8 DEF c

\* A call leaves the task in the word that is called, over what it is given.
LEMMA CallFits ==
  ASSUME NEW m, m = vm, NEW s, TaskInv(m, s), NEW w \in Words,
         Depth(m) - arguments[w] >= Floor(s)
  PROVE  TaskInv(Enter(w), Append(s, NewCall(m, w)))
<1> DEFINE D == Depth(m)
           a == arguments[w]
           l == locals[w]
           b == D - a
           q == Len(m.returns)
           n == Len(s)
           p == Enter(w)
           c == NewCall(m, w)
           t == Append(s, c)
<1>1. /\ m \in Machines /\ s \in Seq(Calls) /\ n \in Nat
      /\ \A i \in 1..n : s[i] \in Calls
      /\ Floor(s) \in Nat /\ Floor(s) <= D
      /\ \A i \in 1..n : BaseOf(s[i]) <= Floor(s)
  BY FloorIs
<1>2. /\ D \in Nat /\ a \in Nat /\ l \in Nat /\ b \in Nat /\ a <= D /\ b <= D /\ q \in Nat
      /\ Floor(s) <= b /\ b + a = D
  <2>1. D \in Nat /\ a \in Nat /\ l \in Nat /\ q \in Nat
    BY <1>1, StackIs, ContextAssumption DEF Machines
  <2> HIDE DEF D, a
  <2>2. D - a >= Floor(s)
    BY DEF D, a
  <2> QED  BY <1>1, <2>1, <2>2
<1>3. /\ c \in Calls /\ c.word = w /\ c.at = "body"
      /\ Len(c.kept) = b /\ \A j \in 1..b : c.kept[j] = Stack(m)[j]
      /\ w \in Framed => /\ Len(c.vars) = a + l
                         /\ \A k \in Bound(w) :
                              c.vars[k] = IF k <= a THEN Stack(m)[b + k] ELSE Junk
      /\ c.ip = m.ip /\ c.fp = m.fp /\ c.ep = m.ep /\ c.returns = m.returns
  BY <1>1, <1>2, NewCallIs
<1>4. /\ p \in Machines /\ p.ip = Code(w, "body")
      /\ p.fp = IF w \in Framed THEN At(D - a + 2) ELSE m.fp
      /\ p.ep = IF w \in Protected THEN At(q + 6) ELSE m.ep
      /\ Len(p.returns) = q + 1 + (IF w \in Protected THEN 5 ELSE 0)
                                + (IF w \in Framed THEN 1 ELSE 0)
      /\ \A j \in 1..q : p.returns[j] = m.returns[j]
      /\ p.returns[q + 1] = m.ip
      /\ w \in Protected => /\ p.returns[q + 2] = m.tos /\ p.returns[q + 3] = At(D + 1)
                            /\ p.returns[q + 4] = Code(w, "handler")
                            /\ p.returns[q + 5] = m.fp /\ p.returns[q + 6] = m.ep
      /\ w \in Framed => p.returns[Len(p.returns)] = At(D + 2 + l)
      /\ \A j \in 1..D : Stack(p)[j] = Stack(m)[j]
      /\ w \notin Framed => Depth(p) = D
      /\ w \in Framed => /\ Depth(p) = D + 1 + l
                         /\ \A j \in D + 1..D + l : Stack(p)[j] = Junk
                         /\ Stack(p)[D + 1 + l] = m.fp
  BY <1>1, <1>2, EnterIs
<1>5. /\ t \in Seq(Calls) /\ Len(t) = n + 1 /\ t[n + 1] = c
      /\ \A i \in 1..n : t[i] = s[i]
  <2> HIDE DEF c
  <2> QED  BY <1>1, <1>3, AppendProperties
<1> HIDE DEF D, a, l, b, q, n, p, c, t
<1>6. /\ Level(s, n, m, Stack(m))
      /\ \A j \in 1..n : Level(s, j - 1, s[j], s[j].kept)
      /\ \A i \in 1..n : s[i].at = "handler" => s[i].word \in Protected
      /\ \A i \in 1..n : Framing(s[i]) => Len(s[i].vars) = arguments[s[i].word] + locals[s[i].word]
  BY DEF TaskInv, n
<1>7. (Armed(c) <=> w \in Protected) /\ (Framing(c) <=> w \in Framed)
  BY <1>3 DEF Armed, Framing
<1>8. /\ (w \in Framed => BaseOf(c) = D + l + 1) /\ (w \notin Framed => BaseOf(c) = b)
      /\ TopOf(c) = Len(p.returns) /\ Len(c.returns) = q
  <2>1. Len(c.returns) = q
    BY <1>3 DEF q
  <2>2. TopOf(c) = q + 1 + (IF w \in Protected THEN 5 ELSE 0) + (IF w \in Framed THEN 1 ELSE 0)
    BY <1>7, <2>1 DEF TopOf
  <2>3. w \in Framed => BaseOf(c) = b + a + l + 1
    BY <1>3, <1>7 DEF BaseOf, a, l
  <2>4. w \notin Framed => BaseOf(c) = b
    BY <1>3, <1>7 DEF BaseOf
  <2> QED  BY <1>2, <1>4, <2>1, <2>2, <2>3, <2>4
<1>9. /\ Stack(p) \in Seq(Cells) /\ Len(Stack(p)) = Depth(p) /\ Stack(m) \in Seq(Cells)
      /\ c.kept \in Seq(Cells) /\ p.returns \in Seq(ReturnCells)
      /\ m.returns \in Seq(ReturnCells)
  BY <1>1, <1>3, <1>4, StackIs DEF Machines, Calls
<1>10. ASSUME NEW i \in 1..n
       PROVE  /\ s[i] \in Calls /\ BaseOf(s[i]) \in Nat /\ BaseOf(s[i]) <= b
              /\ KeptIn(s[i], Stack(m)) /\ ReturnsIn(s[i], m.returns)
              /\ TopOf(s[i]) \in Nat
  <2>1. s[i] \in Calls /\ BaseOf(s[i]) \in Nat /\ TopOf(s[i]) \in Nat
    BY <1>1, CallTypes
  <2>2. BaseOf(s[i]) <= b
    BY <1>1, <1>2, <2>1
  <2> QED  BY <1>6, <2>1, <2>2 DEF Level
<1>11. Level(t, n, c, c.kept)
  <2>1. \A i \in 1..n : /\ BaseOf(s[i]) <= Len(c.kept)
                        /\ \A j \in 1..BaseOf(s[i]) : c.kept[j] = Stack(m)[j]
    <3>1. \A i \in 1..n : \A j \in 1..BaseOf(s[i]) : j \in 1..b
      BY <1>2, <1>10
    <3> QED  BY <1>3, <1>10, <3>1
  <2>2. Level(s, n, c, c.kept)
    BY <1>1, <1>3, <1>6, <1>9, <2>1, LevelAgrees
  <2> QED  BY <1>1, <1>5, <2>2, LevelPrefix
<1>12. EpFits(t, n + 1, p.ep)
  <2>1. EpFits(s, n, m.ep)
    BY <1>6 DEF Level
  <2>2. CASE w \in Protected
    <3>1. Armed(t[n + 1]) /\ n + 1 \in 1..n + 1
      BY <1>1, <1>5, <1>7, <2>2
    <3>2. \A i \in 1..n + 1 : i # n + 1 => n + 1 \in i + 1..n + 1
      BY <1>1
    <3>3. p.ep = At(Len(t[n + 1].returns) + 6)
      BY <1>4, <1>5, <1>8, <2>2
    <3> QED  BY <3>1, <3>2, <3>3 DEF EpFits
  <2>3. CASE w \notin Protected
    <3>1. ~ Armed(t[n + 1])
      BY <1>5, <1>7, <2>3
    <3>2. \A i \in 1..n : i \in 1..n + 1 /\ \A j \in i + 1..n : j \in i + 1..n + 1 /\ j \in 1..n
      BY <1>1
    <3>3. \A i \in 1..n + 1 : i # n + 1 => i \in 1..n
      BY <1>1
    <3>4. (\A i \in 1..n + 1 : ~ Armed(t[i])) => p.ep = Nil
      BY <1>4, <1>5, <2>1, <2>3, <3>2 DEF EpFits
    <3>5. ASSUME NEW i \in 1..n + 1, Armed(t[i]), \A j \in i + 1..n + 1 : ~ Armed(t[j])
          PROVE  p.ep = At(Len(t[i].returns) + 6)
      <4>1. i \in 1..n
        BY <3>1, <3>3, <3>5
      <4>2. Armed(s[i]) /\ \A j \in i + 1..n : ~ Armed(s[j])
        BY <1>5, <3>2, <3>5, <4>1
      <4>3. m.ep = At(Len(s[i].returns) + 6)
        BY <2>1, <4>1, <4>2 DEF EpFits
      <4> QED  BY <1>4, <1>5, <2>3, <4>1, <4>3
    <3> QED  BY <3>4, <3>5 DEF EpFits
  <2> QED  BY <2>2, <2>3
<1>13. InCall(c, p)
  <2>1. p.ip = Code(c.word, c.at) /\ Len(p.returns) = TopOf(c)
    BY <1>3, <1>4, <1>8
  <2>2. p.fp = IF Framing(c) THEN At(Len(c.kept) + 2) ELSE c.fp
    BY <1>3, <1>4, <1>7 DEF b
  <2> QED  BY <2>1, <2>2 DEF InCall
<1>14. KeptIn(c, Stack(p))
  <2>1. Len(Stack(p)) >= BaseOf(c)
    BY <1>2, <1>4, <1>8, <1>9
  <2>2. \A j \in 1..b : j \in 1..D
    BY <1>2
  <2>3. \A j \in 1..b : Stack(p)[j] = c.kept[j]
    BY <1>3, <1>4, <2>2
  <2>4. ASSUME w \in Framed, NEW k \in Bound(w) PROVE Stack(p)[b + k] = c.vars[k]
    <3>1. k \in 1..a + l
      BY DEF Bound, a, l
    <3>2. CASE k <= a
      <4>1. b + k \in 1..D
        BY <1>2, <3>1, <3>2
      <4> QED  BY <1>3, <1>4, <2>4, <3>2, <4>1
    <3>3. CASE ~ (k <= a)
      <4>1. b + k \in D + 1..D + l
        BY <1>2, <3>1, <3>3
      <4> QED  BY <1>3, <1>4, <2>4, <3>3, <4>1
    <3> QED  BY <3>2, <3>3
  <2>5. w \in Framed => Stack(p)[BaseOf(c)] = c.fp
    <3>1. D + l + 1 = D + 1 + l
      BY <1>2
    <3> QED  BY <1>3, <1>4, <1>8, <3>1
  <2> QED  BY <1>3, <1>7, <2>1, <2>3, <2>4, <2>5 DEF KeptIn
<1>15. ReturnsIn(c, p.returns)
  <2>1. Len(p.returns) >= TopOf(c)
    <3>1. Len(p.returns) \in Nat
      BY <1>9
    <3> QED  BY <1>8, <3>1
  <2>2. \A j \in 1..q : p.returns[j] = c.returns[j]
    BY <1>3, <1>4
  <2>3. p.returns[q + 1] = c.ip
    BY <1>3, <1>4
  <2>4. a = 0 /\ b > 0 => m.tos = c.kept[b]
    <3>1. \A j \in 1..D : Stack(m)[j] = IF j = D THEN m.tos ELSE m.cells[j + 2]
      BY <1>1, StackIs DEF D
    <3>2. a = 0 /\ b > 0 => b = D /\ D \in 1..D
      BY <1>2
    <3> QED  BY <1>3, <3>1, <3>2
  <2>5. w \in Protected => /\ p.returns[q + 2] \in Cells
                           /\ a = 0 /\ b > 0 => p.returns[q + 2] = c.kept[b]
                           /\ p.returns[q + 3] = At(b + a + 1)
                           /\ p.returns[q + 4] = Code(w, "handler")
                           /\ p.returns[q + 5] = c.fp /\ p.returns[q + 6] = c.ep
    <3>1. m.tos \in Cells
      BY <1>1 DEF Machines
    <3> QED  BY <1>2, <1>3, <1>4, <2>4, <3>1
  <2>6. w \in Framed => p.returns[TopOf(c)] = At(BaseOf(c) + 1)
    <3>1. w \in Framed => D + 2 + l = BaseOf(c) + 1
      BY <1>2, <1>8
    <3> QED  BY <1>4, <1>8, <3>1
  <2> QED  BY <1>3, <1>7, <1>8, <2>1, <2>2, <2>3, <2>5, <2>6 DEF ReturnsIn, a
<1>16. ASSUME NEW i \in 1..n PROVE KeptIn(s[i], Stack(p)) /\ ReturnsIn(s[i], p.returns)
  <2>1. Len(Stack(p)) >= BaseOf(s[i]) /\ \A j \in 1..BaseOf(s[i]) : Stack(p)[j] = Stack(m)[j]
    <3>1. \A j \in 1..BaseOf(s[i]) : j \in 1..D
      BY <1>2, <1>10
    <3>2. Depth(p) = D \/ Depth(p) = D + 1 + l
      BY <1>4
    <3>3. Depth(p) >= BaseOf(s[i])
      BY <1>2, <1>10, <3>2
    <3> QED  BY <1>4, <1>9, <3>1, <3>3
  <2>2. TopOf(s[i]) <= q
    BY <1>10 DEF ReturnsIn, q
  <2>3. Len(p.returns) >= TopOf(s[i]) /\ \A j \in 1..TopOf(s[i]) : p.returns[j] = m.returns[j]
    <3>1. \A j \in 1..TopOf(s[i]) : j \in 1..q
      BY <1>2, <1>10, <2>2
    <3>2. \E x \in Nat : Len(p.returns) = q + x
      <4> DEFINE e == IF w \in Protected THEN 5 ELSE 0
                 f == IF w \in Framed THEN 1 ELSE 0
      <4>1. e \in Nat /\ f \in Nat /\ Len(p.returns) = q + 1 + e + f
        BY <1>4
      <4> HIDE DEF e, f
      <4>2. 1 + e + f \in Nat /\ q + 1 + e + f = q + (1 + e + f)
        BY <1>2, <4>1
      <4> QED  BY <4>1, <4>2
    <3>3. Len(p.returns) >= TopOf(s[i])
      BY <1>2, <1>10, <2>2, <3>2
    <3> QED  BY <1>4, <3>1, <3>3
  <2>4. KeptIn(s[i], Stack(p))
    BY <1>9, <1>10, <2>1, KeptInAgrees
  <2>5. ReturnsIn(s[i], p.returns)
    BY <1>9, <1>10, <2>3, ReturnsInAgrees
  <2> QED  BY <2>4, <2>5
<1>17. Level(t, n + 1, p, Stack(p))
  <2>1. n + 1 # 0 /\ \A i \in 1..n + 1 : i # n + 1 => i \in 1..n
    BY <1>1
  <2>2. InCall(t[n + 1], p)
    BY <1>5, <1>13
  <2>3. \A i \in 1..n + 1 : KeptIn(t[i], Stack(p)) /\ ReturnsIn(t[i], p.returns)
    BY <1>5, <1>14, <1>15, <1>16, <2>1
  <2> QED  BY <1>12, <2>1, <2>2, <2>3 DEF Level
<1>18. ASSUME NEW j \in 1..n + 1 PROVE Level(t, j - 1, t[j], t[j].kept)
  <2>1. CASE j = n + 1
    <3>1. j - 1 = n
      BY <1>1, <2>1
    <3> QED  BY <1>5, <1>11, <2>1, <3>1
  <2>2. CASE j # n + 1
    <3>1. j \in 1..n /\ j - 1 \in Nat /\ \A i \in 1..j - 1 : i \in 1..n
      BY <1>1, <2>2
    <3>2. Level(s, j - 1, t[j], t[j].kept)
      BY <1>5, <1>6, <3>1
    <3>3. \A i \in 1..j - 1 : t[i] = s[i]
      BY <1>5, <3>1
    <3> QED  BY <3>1, <3>2, <3>3, LevelPrefix
  <2> QED  BY <2>1, <2>2
<1>19. ASSUME NEW i \in 1..n + 1
       PROVE  /\ t[i].at = "handler" => t[i].word \in Protected
              /\ Framing(t[i]) => Len(t[i].vars) = arguments[t[i].word] + locals[t[i].word]
  <2>1. CASE i = n + 1
    BY <1>3, <1>5, <1>7, <2>1 DEF a, l
  <2>2. CASE i # n + 1
    <3>1. i \in 1..n
      BY <1>1, <2>2
    <3> QED  BY <1>5, <1>6, <3>1
  <2> QED  BY <2>1, <2>2
<1>20. p \in Machines /\ t \in Seq(Calls) /\ Len(t) = n + 1
  BY <1>4, <1>5
<1>21. TaskInv(p, t)
  BY <1>17, <1>18, <1>19, <1>20 DEF TaskInv
<1> QED  BY <1>21 DEF p, t, c

\* A call without an exception block of its own leaves the one of its caller.
LEMMA EpSame ==
  ASSUME NEW s, NEW n \in Nat, n > 0, ~ Armed(s[n]), NEW e, NEW f,
         EpFits(s, n, e), EpFits(s, n - 1, f)
  PROVE  e = f
<1>1. n - 1 \in Nat /\ \A i \in 1..n : i # n => i \in 1..n - 1
  OBVIOUS
<1>2. CASE \A i \in 1..n - 1 : ~ Armed(s[i])
  <2>1. \A i \in 1..n : ~ Armed(s[i])
    BY <1>1, <1>2
  <2> QED  BY <1>2, <2>1 DEF EpFits
<1>3. CASE \E i \in 1..n - 1 : Armed(s[i]) /\ \A j \in i + 1..n - 1 : ~ Armed(s[j])
  <2>1. PICK i \in 1..n - 1 : Armed(s[i]) /\ \A j \in i + 1..n - 1 : ~ Armed(s[j])
    BY <1>3
  <2>2. i \in 1..n /\ \A j \in i + 1..n : j # n => j \in i + 1..n - 1
    OBVIOUS
  <2>3. \A j \in i + 1..n : ~ Armed(s[j])
    BY <2>1, <2>2
  <2> QED  BY <2>1, <2>2, <2>3 DEF EpFits
<1> QED  BY <1>1, <1>2, <1>3, LastArmed

\* The registers after the end of the innermost call.
LEMMA ExitIs ==
  ASSUME NEW m, m = vm, NEW s, TaskInv(m, s), s # <<>>
  PROVE  LET c == s[Len(s)]
             p == Exit(c.word, c.at)
             k == Len(c.kept)
             b == BaseOf(c)
         IN  /\ p \in Machines /\ p.ip = c.ip /\ p.fp = c.fp /\ p.ep = c.ep
             /\ p.returns = c.returns
             /\ b <= Depth(m) /\ Depth(p) = k + Depth(m) - b
             /\ \A j \in 1..k : Stack(p)[j] = c.kept[j]
             /\ \A j \in 1..Depth(m) - b : Stack(p)[k + j] = Stack(m)[b + j]
<1>0. PICK n \in 1..Len(s) : n = Len(s)
  <2>1. Len(s) \in 1..Len(s)
    BY FloorIs
  <2> QED  BY <2>1
<1> DEFINE c == s[n]
           D == Depth(m)
           k == Len(c.kept)
           b == BaseOf(c)
           q == Len(c.returns)
           t == TopOf(c)
           e == IF Armed(c) THEN 5 ELSE 0
           u == IF Framing(c) THEN Unlink(m) ELSE m
           p == Exit(c.word, c.at)
<1>1. /\ m \in Machines /\ s \in Seq(Calls) /\ c \in Calls /\ n \in Nat /\ n > 0
      /\ Level(s, n, m, Stack(m)) /\ Level(s, n - 1, c, c.kept)
  BY <1>0, FloorIs DEF TaskInv
<1>2. /\ arguments[c.word] \in Nat /\ locals[c.word] \in Nat /\ k \in Nat /\ q \in Nat
      /\ b \in Nat /\ k <= b /\ t \in Nat /\ q < t
      /\ Framing(c) => b = k + arguments[c.word] + locals[c.word] + 1
  BY <1>1, CallTypes
<1>3. /\ D \in Nat /\ Len(Stack(m)) = D /\ Stack(m) \in Seq(Cells)
      /\ m.returns \in Seq(ReturnCells)
      /\ c.fp \in Frames /\ c.ep \in Frames /\ c.ip \in Threads /\ c.returns \in Seq(ReturnCells)
  BY <1>1, StackIs DEF Machines, Calls
<1>4. /\ InCall(c, m) /\ KeptIn(c, Stack(m)) /\ ReturnsIn(c, m.returns)
      /\ EpFits(s, n, m.ep) /\ EpFits(s, n - 1, c.ep)
  BY <1>1 DEF Level
<1>5. p = IF Armed(c) THEN Throw(u) ELSE Semicolon(u)
  BY DEF Exit, Armed, Framing
<1>6. b <= D
  BY <1>2, <1>3, <1>4 DEF KeptIn
<1>7. /\ e \in Nat
      /\ t = q + 1 + e + (IF Framing(c) THEN 1 ELSE 0)
  BY DEF TopOf
<1>8. /\ m.fp = (IF Framing(c) THEN At(k + 2) ELSE c.fp) /\ Len(m.returns) = t
  BY <1>4 DEF InCall
<1>9. /\ \A j \in 1..q : m.returns[j] = c.returns[j]
      /\ m.returns[q + 1] = c.ip
      /\ Armed(c) => m.returns[q + 6] = c.ep
      /\ Framing(c) => m.returns[t] = At(b + 1)
  BY <1>4 DEF ReturnsIn
<1>10. (\A j \in 1..k : Stack(m)[j] = c.kept[j]) /\ (Framing(c) => Stack(m)[b] = c.fp)
  BY <1>4 DEF KeptIn
<1> HIDE DEF c, D, k, b, q, t, e, u, p
<1>11. /\ u \in Machines /\ u.ep = m.ep /\ u.fp = c.fp
       /\ Len(u.returns) = q + 1 + e
       /\ \A j \in 1..q + 1 + e : u.returns[j] = m.returns[j]
       /\ Depth(u) = k + D - b
       /\ \A j \in 1..k : Stack(u)[j] = Stack(m)[j]
       /\ \A j \in 1..D - b : Stack(u)[k + j] = Stack(m)[b + j]
  <2>1. CASE ~ Framing(c)
    <3>1. u = m /\ b = k
      BY <2>1 DEF u, b, k, BaseOf
    <3>2. t = q + 1 + e /\ k + D - b = D
      BY <1>2, <1>3, <1>7, <2>1, <3>1
    <3> QED  BY <1>1, <1>8, <2>1, <3>1, <3>2 DEF D
  <2>2. CASE Framing(c)
    <3>1. u = Unlink(m)
      BY <2>2 DEF u
    <3>2. t = q + 1 + e + 1 /\ q + 1 + e \in Nat /\ k < b
      BY <1>2, <1>7, <2>2
    <3>3. PICK z \in Nat : z = q + 1 + e
      BY <3>2
    <3>4. /\ Len(m.returns) = z + 1 /\ m.returns[z + 1] = At(b + 1) /\ m.fp = At(k + 2)
          /\ Stack(m)[b] \in Frames /\ b <= Depth(m)
      BY <1>3, <1>6, <1>8, <1>9, <1>10, <2>2, <3>2, <3>3 DEF D
    <3>5. m \in Machines /\ k \in Nat /\ b \in Nat /\ k < b
      BY <1>1, <1>2, <3>2
    <3>6. /\ Unlink(m) \in Machines
          /\ Unlink(m).ip = m.ip /\ Unlink(m).ep = m.ep /\ Unlink(m).fp = Stack(m)[b]
          /\ Unlink(m).returns = SubSeq(m.returns, 1, z)
          /\ Depth(Unlink(m)) = k + Depth(m) - b
          /\ \A j \in 1..k : Stack(Unlink(m))[j] = Stack(m)[j]
          /\ \A j \in 1..Depth(m) - b : Stack(Unlink(m))[k + j] = Stack(m)[b + j]
      BY <3>4, <3>5, UnlinkIs, ZenonT(60)
    <3>7. /\ Len(SubSeq(m.returns, 1, z)) = z
          /\ \A j \in 1..z : SubSeq(m.returns, 1, z)[j] = m.returns[j]
      <4>1. z \in 0..Len(m.returns)
        BY <3>4
      <4> QED  BY <1>3, <4>1, CutIs
    <3> QED  BY <1>10, <2>2, <3>1, <3>3, <3>6, <3>7 DEF D
  <2> QED  BY <2>1, <2>2
<1>12. (\A j \in 1..q : u.returns[j] = c.returns[j]) /\ u.returns[q + 1] = c.ip
  <2>1. (\A j \in 1..q : j \in 1..q + 1 + e) /\ q + 1 \in 1..q + 1 + e
    BY <1>2, <1>7
  <2> QED  BY <1>9, <1>11, <2>1
<1>13. /\ p \in Machines /\ p.ip = c.ip /\ p.fp = c.fp /\ p.ep = c.ep
       /\ p.returns = SubSeq(u.returns, 1, q) /\ Depth(p) = Depth(u) /\ Stack(p) = Stack(u)
  <2>1. CASE Armed(c)
    <3>1. p = Throw(u) /\ e = 5
      BY <1>5, <2>1 DEF e
    <3>2. /\ Len(u.returns) = q + 6 /\ q + 6 \in 1..q + 1 + e
      BY <1>2, <1>11, <3>1
    <3>3. u.returns[q + 6] = c.ep
      BY <1>9, <1>11, <2>1, <3>2
    <3>4. u.returns[q + 1] \in Threads /\ u.returns[q + 6] \in Frames
      BY <1>3, <1>12, <3>3
    <3>5. /\ Throw(u) \in Machines
          /\ Throw(u).ip = u.returns[q + 1] /\ Throw(u).returns = SubSeq(u.returns, 1, q)
          /\ Throw(u).fp = u.fp /\ Throw(u).ep = u.returns[q + 6]
          /\ Depth(Throw(u)) = Depth(u) /\ Stack(Throw(u)) = Stack(u)
      BY <1>2, <1>11, <3>2, <3>4, ThrowIs
    <3> QED  BY <1>11, <1>12, <3>1, <3>3, <3>5
  <2>2. CASE ~ Armed(c)
    <3>1. p = Semicolon(u) /\ e = 0
      BY <1>5, <2>2 DEF e
    <3>2. Len(u.returns) = q + 1
      BY <1>2, <1>11, <3>1
    <3>3. u.returns[q + 1] \in Threads
      BY <1>3, <1>12
    <3>4. /\ Semicolon(u) \in Machines
          /\ Semicolon(u).ip = u.returns[q + 1] /\ Semicolon(u).returns = SubSeq(u.returns, 1, q)
          /\ Semicolon(u).fp = u.fp /\ Semicolon(u).ep = u.ep
          /\ Depth(Semicolon(u)) = Depth(u) /\ Stack(Semicolon(u)) = Stack(u)
      BY <1>2, <1>11, <3>2, <3>3, SemicolonIs
    <3>5. m.ep = c.ep
      BY <1>1, <1>4, <2>2, EpSame DEF c
    <3> QED  BY <1>11, <1>12, <3>1, <3>4, <3>5
  <2> QED  BY <2>1, <2>2
<1>14. SubSeq(u.returns, 1, q) = c.returns
  <2>1. u.returns \in Seq(ReturnCells) /\ q \in 0..Len(u.returns)
    BY <1>2, <1>7, <1>11 DEF Machines
  <2>2. /\ SubSeq(u.returns, 1, q) \in Seq(ReturnCells) /\ Len(SubSeq(u.returns, 1, q)) = q
        /\ \A j \in 1..q : SubSeq(u.returns, 1, q)[j] = u.returns[j]
    BY <2>1, CutIs
  <2>3. \A j \in 1..q : SubSeq(u.returns, 1, q)[j] = c.returns[j]
    BY <1>12, <2>2
  <2> QED  BY <1>3, <2>2, <2>3, SeqEqual DEF q
<1>15. /\ p \in Machines /\ p.ip = c.ip /\ p.fp = c.fp /\ p.ep = c.ep
       /\ p.returns = c.returns
       /\ b <= D /\ Depth(p) = k + D - b
       /\ \A j \in 1..k : Stack(p)[j] = c.kept[j]
       /\ \A j \in 1..D - b : Stack(p)[k + j] = Stack(m)[b + j]
  BY <1>6, <1>10, <1>11, <1>13, <1>14
<1> QED  BY <1>0, <1>15 DEF c, D, k, b, p

\* A return brings back the caller, with the results on top of what it kept.
LEMMA ReturnFits ==
  ASSUME NEW m, m = vm, NEW s, TaskInv(m, s), s # <<>>
  PROVE  LET c == Last(s)
             p == Exit(m.ip[2], m.ip[3])
         IN  /\ TaskInv(p, Front(s))
             /\ p.ip = c.ip /\ p.fp = c.fp /\ p.ep = c.ep /\ p.returns = c.returns
             /\ Stack(p) = c.kept \o SubSeq(Stack(m), Floor(s) + 1, Depth(m))
<1>1. PICK n \in Nat : n = Len(s)
  BY FloorIs
<1> DEFINE c == s[n]
           k == Len(c.kept)
           b == BaseOf(c)
           D == Depth(m)
           p == Exit(c.word, c.at)
           z == Front(s)
           own == SubSeq(Stack(m), b + 1, D)
<1>2. /\ m \in Machines /\ s \in Seq(Calls) /\ n \in 1..Len(s)
      /\ \A i \in 1..n : s[i] \in Calls
      /\ c \in Calls
      /\ \A i \in 1..n - 1 : BaseOf(s[i]) <= k
      /\ Floor(s) = b /\ b \in Nat
  <2>1. m \in Machines /\ s \in Seq(Calls) /\ n \in 1..Len(s)
    BY <1>1, FloorIs
  <2>2. \A i \in 1..n : s[i] \in Calls
    BY <1>1, <2>1
  <2>3. \A j \in 1..n : \A i \in 1..j - 1 : BaseOf(s[i]) <= Len(s[j].kept)
    BY <1>1, FloorIs
  <2>4. Floor(s) = b /\ c \in Calls
    BY <1>1, <2>1, <2>2 DEF Floor
  <2>5. b \in Nat
    BY <2>4, CallTypes
  <2> QED  BY <1>1, <2>1, <2>2, <2>3, <2>4, <2>5
<1>3. /\ p \in Machines /\ p.ip = c.ip /\ p.fp = c.fp /\ p.ep = c.ep
      /\ p.returns = c.returns
      /\ b <= D /\ Depth(p) = k + D - b
      /\ \A j \in 1..k : Stack(p)[j] = c.kept[j]
      /\ \A j \in 1..D - b : Stack(p)[k + j] = Stack(m)[b + j]
  <2> HIDE DEF p, b, k, D, c
  <2>1. LET d == s[Len(s)]
            r == Exit(d.word, d.at)
            h == Len(d.kept)
            e == BaseOf(d)
        IN  /\ r \in Machines /\ r.ip = d.ip /\ r.fp = d.fp /\ r.ep = d.ep
            /\ r.returns = d.returns
            /\ e <= Depth(m) /\ Depth(r) = h + Depth(m) - e
            /\ \A j \in 1..h : Stack(r)[j] = d.kept[j]
            /\ \A j \in 1..Depth(m) - e : Stack(r)[h + j] = Stack(m)[e + j]
    BY ExitIs
  <2> QED  BY <1>1, <2>1 DEF p, b, k, D, c
<1>4. /\ k \in Nat /\ D \in Nat /\ c.kept \in Seq(Cells)
      /\ Stack(m) \in Seq(Cells) /\ Len(Stack(m)) = D
      /\ Stack(p) \in Seq(Cells) /\ Len(Stack(p)) = Depth(p)
  BY <1>2, <1>3, StackIs, CallTypes DEF Calls
<1>5. /\ Level(s, n, m, Stack(m))
      /\ \A j \in 1..n : Level(s, j - 1, s[j], s[j].kept)
      /\ \A i \in 1..n : s[i].at = "handler" => s[i].word \in Protected
      /\ \A i \in 1..n : Framing(s[i]) => Len(s[i].vars) = arguments[s[i].word] + locals[s[i].word]
  BY <1>1 DEF TaskInv
<1>6. /\ m.ip = Code(c.word, c.at) /\ m.ip[2] = c.word /\ m.ip[3] = c.at
  <2>1. InCall(c, m)
    BY <1>1, <1>2, <1>5 DEF Level
  <2> QED  BY <2>1 DEF InCall, Code
<1>7. Last(s) = c
  BY <1>1 DEF Last
<1>8. /\ z \in Seq(Calls) /\ Len(z) = n - 1
      /\ \A i \in 1..n - 1 : z[i] = s[i]
  <2>1. n - 1 \in 0..Len(s)
    BY <1>1, <1>2
  <2> QED  BY <1>1, <1>2, <2>1 DEF Front
<1> HIDE DEF c, k, b, D, p, z
<1>9. Level(z, n - 1, p, Stack(p))
  <2>1. /\ n - 1 \in Nat /\ \A i \in 1..n - 1 : i \in 1..n
        /\ n \in 1..n
    BY <1>1, <1>2
  <2>2. \A i \in 1..n - 1 : s[i] \in Calls /\ BaseOf(s[i]) \in Nat
    BY <1>2, <2>1, CallTypes
  <2>3. \A i \in 1..n - 1 : \A j \in 1..BaseOf(s[i]) : j \in 1..k
    BY <1>2, <1>4, <2>2
  <2>4. \A i \in 1..n - 1 : BaseOf(s[i]) <= Len(Stack(p))
    BY <1>2, <1>3, <1>4, <2>2
  <2>5. \A i \in 1..n - 1 : /\ BaseOf(s[i]) <= Len(Stack(p))
                            /\ \A j \in 1..BaseOf(s[i]) : Stack(p)[j] = c.kept[j]
    BY <1>3, <2>3, <2>4
  <2>6. Level(s, n - 1, c, c.kept)
    BY <1>5, <2>1 DEF c
  <2>7. Level(s, n - 1, p, Stack(p))
    <3>1. /\ n - 1 \in Nat /\ \A i \in 1..n - 1 : s[i] \in Calls
          /\ p.ip = c.ip /\ p.fp = c.fp /\ p.ep = c.ep /\ p.returns = c.returns
          /\ c.kept \in Seq(Cells) /\ Stack(p) \in Seq(Cells)
      BY <1>3, <1>4, <2>1, <2>2
    <3> QED  BY <2>5, <2>6, <3>1, LevelAgrees
  <2> QED  BY <1>8, <2>1, <2>7, LevelPrefix
<1>10. TaskInv(p, z)
  <2>1. \A i \in 1..n - 1 : i \in 1..n
    BY <1>1
  <2>2. ASSUME NEW j \in 1..n - 1 PROVE Level(z, j - 1, z[j], z[j].kept)
    <3>1. j - 1 \in Nat /\ j \in 1..n /\ \A i \in 1..j - 1 : i \in 1..n - 1
      BY <1>1
    <3>2. Level(s, j - 1, z[j], z[j].kept)
      BY <1>5, <1>8, <3>1
    <3>3. \A i \in 1..j - 1 : z[i] = s[i]
      BY <1>8, <3>1
    <3> QED  BY <3>1, <3>2, <3>3, LevelPrefix
  <2>3. \A i \in 1..n - 1 :
          /\ z[i].at = "handler" => z[i].word \in Protected
          /\ Framing(z[i]) => Len(z[i].vars) = arguments[z[i].word] + locals[z[i].word]
    BY <1>5, <1>8, <2>1
  <2> QED  BY <1>3, <1>8, <1>9, <2>2, <2>3 DEF TaskInv
<1>11. Stack(p) = c.kept \o own
  <2>1. /\ own \in Seq(Cells) /\ Len(own) = D - b
        /\ \A j \in 1..D - b : own[j] = Stack(m)[b + j]
    <3>1. \A i \in b + 1..D : Stack(m)[i] \in Cells
      BY <1>2, <1>4
    <3>2. /\ own \in Seq(Cells)
          /\ Len(own) = IF b + 1 <= D THEN D - (b + 1) + 1 ELSE 0
          /\ \A i \in 1..D - (b + 1) + 1 : own[i] = Stack(m)[b + 1 + i - 1]
      BY <1>2, <1>4, <3>1, SubSeqProperties
    <3> HIDE DEF own
    <3>3. D - (b + 1) + 1 = D - b /\ (~ (b + 1 <= D) => D - b = 0)
      BY <1>2, <1>3, <1>4
    <3>4. \A i \in 1..D - b : b + 1 + i - 1 = b + i
      BY <1>2, <1>4
    <3>5. Len(own) = D - b
      BY <3>2, <3>3
    <3>6. \A i \in 1..D - b : own[i] = Stack(m)[b + i]
      BY <3>2, <3>3, <3>4
    <3> QED  BY <3>2, <3>5, <3>6
  <2> HIDE DEF own
  <2>2. /\ c.kept \o own \in Seq(Cells) /\ Len(c.kept \o own) = Len(c.kept) + Len(own)
        /\ \A i \in 1..Len(c.kept) + Len(own) :
             (c.kept \o own)[i] = IF i <= Len(c.kept) THEN c.kept[i] ELSE own[i - Len(c.kept)]
    BY <1>4, <2>1, ConcatProperties, ZenonT(60)
  <2>3. Len(c.kept) = k /\ k + (D - b) = k + D - b
    BY <1>2, <1>4 DEF k
  <2>4. Len(Stack(p)) = Len(c.kept \o own) /\ Len(Stack(p)) = k + (D - b)
    BY <1>3, <1>4, <2>1, <2>2, <2>3
  <2>5. ASSUME NEW i \in 1..k + (D - b) PROVE Stack(p)[i] = (c.kept \o own)[i]
    <3>1. (c.kept \o own)[i] = IF i <= k THEN c.kept[i] ELSE own[i - k]
      BY <2>1, <2>2, <2>3
    <3>2. CASE i <= k
      <4>1. i \in 1..k
        BY <1>4, <3>2
      <4> QED  BY <1>3, <3>1, <3>2, <4>1
    <3>3. CASE ~ (i <= k)
      <4>1. i - k \in 1..D - b /\ k + (i - k) = i
        BY <1>2, <1>3, <1>4, <3>3
      <4>2. Stack(p)[k + (i - k)] = Stack(m)[b + (i - k)] /\ own[i - k] = Stack(m)[b + (i - k)]
        BY <1>3, <2>1, <4>1
      <4> QED  BY <3>1, <3>3, <4>1, <4>2
    <3> QED  BY <3>2, <3>3
  <2> QED  BY <1>4, <2>2, <2>4, <2>5, SeqEqual
<1> QED  BY <1>2, <1>3, <1>6, <1>7, <1>10, <1>11 DEF c, b, D, p, z

\* A task whose body ends is where it terminates.
LEMMA BodyEnds ==
  ASSUME NEW m, m = vm, TaskInv(m, <<>>), m.ip # Terminate
  PROVE  TaskInv(Exit(m.ip[2], m.ip[3]), <<>>)
<1> DEFINE p == Semicolon(m)
<1>1. m \in Machines /\ EpFits(<<>>, 0, m.ep) /\ InTask(m)
  BY DEF TaskInv, Level
<1>2. PICK w \in Words \ (Framed \cup Protected) : m.ip = Code(w, "body")
  BY <1>1 DEF InTask
<1>3. m.returns # <<>> /\ Last(m.returns) = Terminate /\ m.returns \in Seq(ReturnCells)
  BY <1>1 DEF InTask, Machines
<1>4. Exit(m.ip[2], m.ip[3]) = p
  <2>1. m.ip[2] = w
    BY <1>2 DEF Code
  <2> QED  BY <1>2, <2>1 DEF Exit
<1>5. PICK n \in Nat : Len(m.returns) = n + 1
  <2>1. Len(m.returns) \in Nat \ {0}
    BY <1>3, EmptySeq
  <2>2. Len(m.returns) - 1 \in Nat /\ Len(m.returns) = Len(m.returns) - 1 + 1
    BY <2>1
  <2> QED  BY <2>2
<1>6. m.returns[n + 1] = Terminate /\ m.returns[n + 1] \in Threads
  BY <1>3, <1>5, CellTypes DEF Last
<1>7. p \in Machines /\ p.ip = Terminate /\ p.ep = m.ep
  BY <1>1, <1>5, <1>6, SemicolonIs
<1> HIDE DEF p
<1>8. Level(<<>>, 0, p, Stack(p))
  BY <1>1, <1>7 DEF Level, InTask
<1>9. <<>> \in Seq(Calls) /\ Len(<<>>) = 0
  BY EmptySeq
<1> QED  BY <1>4, <1>7, <1>8, <1>9 DEF TaskInv

\* The exception frame in use is the one of the innermost call that is armed,
\* and it is on the return stack.
LEMMA HandlerArms ==
  ASSUME NEW m, NEW s, TaskInv(m, s)
  PROVE  /\ Handler(s) = 0 => m.ep = Nil
         /\ Handler(s) # 0 =>
              /\ Handler(s) \in 1..Len(s) /\ Armed(s[Handler(s)])
              /\ m.ep = At(Len(s[Handler(s)].returns) + 6)
              /\ Len(s[Handler(s)].returns) + 6 <= Len(m.returns)
<1>1. /\ m \in Machines /\ s \in Seq(Calls) /\ EpFits(s, Len(s), m.ep)
      /\ \A i \in 1..Len(s) : s[i] \in Calls /\ ReturnsIn(s[i], m.returns)
  BY FloorIs DEF TaskInv, Level
<1>2. CASE Handler(s) = 0
  <2>1. \A i \in 1..Len(s) : ~ Armed(s[i])
    BY <1>1, <1>2, HandlerIs
  <2> QED  BY <1>1, <1>2, <2>1 DEF EpFits
<1>3. CASE Handler(s) # 0
  <2>1. /\ Handler(s) \in 1..Len(s) /\ Armed(s[Handler(s)])
        /\ \A j \in Handler(s) + 1..Len(s) : ~ Armed(s[j])
    BY <1>1, <1>3, HandlerIs
  <2>2. m.ep = At(Len(s[Handler(s)].returns) + 6)
    BY <1>1, <2>1 DEF EpFits
  <2>3. PICK c \in Calls : c = s[Handler(s)]
    BY <1>1, <2>1
  <2>4. /\ Len(c.returns) \in Nat /\ TopOf(c) \in Nat /\ Len(c.returns) + 6 <= TopOf(c)
        /\ Len(m.returns) >= TopOf(c)
    BY <1>1, <2>1, <2>3, CallTypes DEF ReturnsIn
  <2>5. m.returns \in Seq(ReturnCells)
    BY <1>1 DEF Machines
  <2>6. Len(m.returns) \in Nat
    BY <2>5
  <2>7. Len(c.returns) + 6 <= Len(m.returns)
    BY <2>4, <2>6
  <2> QED  BY <1>3, <2>1, <2>2, <2>3, <2>7
<1> QED  BY <1>2, <1>3

\* raise leaves the task in the innermost word that is armed, in its handler.
LEMMA RaiseFits ==
  ASSUME NEW m, NEW s, TaskInv(m, s), Handler(s) # 0, NEW x \in Cells
  PROVE  LET i == Handler(s)
             c == s[i]
             p == Restore(Spush(m, x))
             t == SubSeq(s, 1, i - 1) \o <<[c EXCEPT !.at = "handler"]>>
         IN  /\ TaskInv(p, t) /\ Len(t) = i /\ i \in 1..Len(s)
             /\ p.ip = Code(c.word, "handler") /\ p.tos = x /\ p.fp = c.fp /\ p.ep = c.ep
             /\ Depth(p) = Len(c.kept) + arguments[c.word] + 1
             /\ SubSeq(Stack(p), 1, Len(c.kept)) = c.kept
             /\ p.returns = Append(c.returns, c.ip)
<1>1. PICK i \in 1..Len(s) : i = Handler(s)
  BY HandlerArms
<1> DEFINE c == s[i]
           k == Len(c.kept)
           a == arguments[c.word]
           N == k + a
           q == Len(c.returns)
           D == Depth(m)
           M == Spush(m, x)
           p == Restore(M)
           d == [c EXCEPT !.at = "handler"]
           t == SubSeq(s, 1, i - 1) \o <<d>>
           b == BaseOf(c)
<1>2. /\ m \in Machines /\ s \in Seq(Calls) /\ Len(s) \in Nat
      /\ \A j \in 1..Len(s) : s[j] \in Calls
      /\ \A j \in 1..i - 1 : BaseOf(s[j]) <= k
      /\ i \in Nat /\ i > 0
  BY FloorIs
<1>3. c \in Calls /\ Armed(c) /\ m.ep = At(q + 6) /\ q + 6 <= Len(m.returns)
  BY <1>1, <1>2, HandlerArms
<1>4. /\ k \in Nat /\ a \in Nat /\ q \in Nat /\ b \in Nat /\ k <= b /\ N \in Nat
  BY <1>3, CallTypes
<1>5. /\ Level(s, Len(s), m, Stack(m)) /\ Level(s, i - 1, c, c.kept)
      /\ \A j \in 1..Len(s) : Level(s, j - 1, s[j], s[j].kept)
      /\ \A j \in 1..Len(s) : s[j].at = "handler" => s[j].word \in Protected
      /\ \A j \in 1..Len(s) : Framing(s[j]) =>
                                Len(s[j].vars) = arguments[s[j].word] + locals[s[j].word]
  BY DEF TaskInv
<1>6. KeptIn(c, Stack(m)) /\ ReturnsIn(c, m.returns)
  BY <1>5 DEF Level
<1>7. /\ D \in Nat /\ Stack(m) \in Seq(Cells) /\ Len(Stack(m)) = D /\ m.returns \in Seq(ReturnCells)
      /\ c.kept \in Seq(Cells) /\ c.returns \in Seq(ReturnCells)
      /\ c.fp \in Frames /\ c.ep \in Frames /\ c.ip \in Threads /\ c.word \in Words
  BY <1>2, <1>3, StackIs DEF Machines, Calls
<1>8. /\ b <= D
      /\ \A j \in 1..k : Stack(m)[j] = c.kept[j]
  BY <1>4, <1>6, <1>7 DEF KeptIn
<1>9. /\ \A j \in 1..q : m.returns[j] = c.returns[j]
      /\ m.returns[q + 1] = c.ip
      /\ m.returns[q + 2] \in Cells
      /\ a = 0 /\ k > 0 => m.returns[q + 2] = c.kept[k]
      /\ m.returns[q + 3] = At(N + 1)
      /\ m.returns[q + 4] = Code(c.word, "handler")
      /\ m.returns[q + 5] = c.fp /\ m.returns[q + 6] = c.ep
  BY <1>3, <1>6 DEF ReturnsIn
<1> HIDE DEF c, k, a, N, q, D, M, p, d, t, b
<1>10. /\ M \in Machines /\ M.ep = m.ep /\ M.returns = m.returns /\ M.tos = x
       /\ Depth(M) = D + 1 /\ Stack(M) = Append(Stack(m), x)
  BY <1>2, SpushIs DEF M, D, Registers
<1>11. /\ p \in Machines /\ p.tos = M.tos
       /\ p.ip = M.returns[q + 4] /\ p.fp = M.returns[q + 5] /\ p.ep = M.returns[q + 6]
       /\ p.returns = SubSeq(M.returns, 1, q + 1)
       /\ Depth(p) = N + 1
       /\ \A j \in 1..N - 1 : j < Depth(M) => Stack(p)[j] = Stack(M)[j]
       /\ N > 0 => Stack(p)[N] = M.returns[q + 2]
  <2>1. Code(c.word, "handler") \in Threads
    BY <1>7, CellTypes
  <2>2. /\ q \in Nat /\ N \in Nat /\ q + 6 <= Len(M.returns) /\ M.ep = At(q + 6)
        /\ M.returns[q + 2] \in Cells /\ M.returns[q + 3] = At(N + 1)
        /\ M.returns[q + 4] \in Threads /\ M.returns[q + 5] \in Frames
        /\ M.returns[q + 6] \in Frames
    BY <1>3, <1>4, <1>7, <1>9, <1>10, <2>1
  <2> QED  BY <1>10, <2>2, RestoreIs DEF p
<1>12. /\ p.ip = Code(c.word, "handler") /\ p.tos = x /\ p.fp = c.fp /\ p.ep = c.ep
  BY <1>9, <1>10, <1>11
<1>13. p.returns = Append(c.returns, c.ip)
  <2>1. q + 1 \in 0..Len(m.returns) /\ \A j \in 1..q + 1 : j # q + 1 => j \in 1..q
    <3>1. Len(m.returns) \in Nat
      BY <1>7
    <3> QED  BY <1>3, <1>4, <3>1
  <2>2. /\ p.returns \in Seq(ReturnCells) /\ Len(p.returns) = q + 1
        /\ \A j \in 1..q + 1 : p.returns[j] = m.returns[j]
    <3>1. /\ SubSeq(m.returns, 1, q + 1) \in Seq(ReturnCells)
          /\ Len(SubSeq(m.returns, 1, q + 1)) = q + 1
          /\ \A j \in 1..q + 1 : SubSeq(m.returns, 1, q + 1)[j] = m.returns[j]
      BY <1>7, <2>1, CutIs
    <3> QED  BY <1>10, <1>11, <3>1
  <2>3. c.ip \in ReturnCells
    BY <1>7 DEF ReturnCells
  <2>4. /\ Append(c.returns, c.ip) \in Seq(ReturnCells)
        /\ Len(Append(c.returns, c.ip)) = q + 1
        /\ \A j \in 1..q : Append(c.returns, c.ip)[j] = c.returns[j]
        /\ Append(c.returns, c.ip)[q + 1] = c.ip
    BY <1>7, <2>3, AppendProperties DEF q
  <2>5. \A j \in 1..q + 1 : p.returns[j] = Append(c.returns, c.ip)[j]
    BY <1>9, <2>1, <2>2, <2>4
  <2> QED  BY <2>2, <2>4, <2>5, SeqEqual
<1>14. /\ p.returns \in Seq(ReturnCells) /\ Len(p.returns) = q + 1 /\ p.returns[q + 1] = c.ip
       /\ \A j \in 1..q : p.returns[j] = c.returns[j]
  <2>1. c.ip \in ReturnCells
    BY <1>7 DEF ReturnCells
  <2> QED  BY <1>7, <1>13, <2>1, AppendProperties DEF q
<1>15. ASSUME NEW j \in 1..k PROVE Stack(p)[j] = c.kept[j]
  <2>1. CASE j = N
    <3>1. a = 0 /\ k > 0 /\ j = k /\ N > 0
      BY <1>4, <2>1 DEF N
    <3> QED  BY <1>9, <1>10, <1>11, <2>1, <3>1
  <2>2. CASE j # N
    <3>1. j \in 1..N - 1
      BY <1>4, <2>2 DEF N
    <3>2. j < Depth(M) /\ j \in 1..D
      BY <1>4, <1>7, <1>8, <1>10
    <3>3. Append(Stack(m), x)[j] = Stack(m)[j]
      BY <1>7, <3>2, AppendProperties
    <3> QED  BY <1>8, <1>10, <1>11, <3>1, <3>2, <3>3
  <2> QED  BY <2>1, <2>2
<1>16. Stack(p) \in Seq(Cells) /\ Len(Stack(p)) = N + 1
  BY <1>11, StackIs
<1>17. SubSeq(Stack(p), 1, k) = c.kept
  <2>1. k \in Int /\ 1 \in Int /\ \A j \in 1..k : Stack(p)[j] \in Cells
    BY <1>4, <1>7, <1>15 DEF k
  <2>2. /\ SubSeq(Stack(p), 1, k) \in Seq(Cells)
        /\ Len(SubSeq(Stack(p), 1, k)) = IF 1 <= k THEN k - 1 + 1 ELSE 0
        /\ \A j \in 1..k - 1 + 1 : SubSeq(Stack(p), 1, k)[j] = Stack(p)[1 + j - 1]
    BY <2>1, SubSeqProperties
  <2>3. Len(SubSeq(Stack(p), 1, k)) = k /\ \A j \in 1..k : SubSeq(Stack(p), 1, k)[j] = Stack(p)[j]
    BY <1>4, <2>2
  <2>4. \A j \in 1..k : SubSeq(Stack(p), 1, k)[j] = c.kept[j]
    BY <1>15, <2>3
  <2> QED  BY <1>7, <2>2, <2>3, <2>4, SeqEqual DEF k
<1>18. /\ d \in Calls /\ d.word = c.word /\ d.at = "handler" /\ d.kept = c.kept
       /\ d.ip = c.ip /\ d.fp = c.fp /\ d.ep = c.ep /\ d.returns = c.returns
  BY <1>3 DEF Calls, d
<1>19. /\ t \in Seq(Calls) /\ Len(t) = i /\ t[i] = d
       /\ \A j \in 1..i - 1 : t[j] = s[j]
  <2>1. \A j \in 1..i - 1 : s[j] \in Calls
    BY <1>2
  <2>2. PICK n \in Nat : n = i - 1
    BY <1>2
  <2>3. n \in Int /\ 1 \in Int /\ \A j \in 1..n : s[j] \in Calls
    BY <2>1, <2>2
  <2>4. /\ SubSeq(s, 1, n) \in Seq(Calls)
        /\ Len(SubSeq(s, 1, n)) = IF 1 <= n THEN n - 1 + 1 ELSE 0
        /\ \A j \in 1..n - 1 + 1 : SubSeq(s, 1, n)[j] = s[1 + j - 1]
    BY <2>3, SubSeqProperties
  <2>5. Len(SubSeq(s, 1, n)) = n /\ \A j \in 1..n : SubSeq(s, 1, n)[j] = s[j]
    BY <2>4
  <2>6. Append(SubSeq(s, 1, n), d) = SubSeq(s, 1, n) \o <<d>>
    BY <1>18, <2>4, AppendIsConcat
  <2>7. t = Append(SubSeq(s, 1, n), d)
    BY <2>2, <2>6 DEF t
  <2>8. /\ t \in Seq(Calls) /\ Len(t) = Len(SubSeq(s, 1, n)) + 1
        /\ \A j \in 1..Len(SubSeq(s, 1, n)) : t[j] = SubSeq(s, 1, n)[j]
        /\ t[Len(SubSeq(s, 1, n)) + 1] = d
    BY <1>18, <2>4, <2>7, AppendProperties
  <2>9. n + 1 = i
    BY <1>2, <2>2
  <2> QED  BY <2>2, <2>5, <2>8, <2>9
<1>20. /\ ~ Armed(d) /\ ~ Framing(d) /\ BaseOf(d) = k /\ TopOf(d) = q + 1
  <2>1. ~ Armed(d) /\ ~ Framing(d)
    BY <1>18 DEF Armed, Framing
  <2>2. BaseOf(d) = k
    BY <1>18, <2>1 DEF BaseOf, k
  <2>3. TopOf(d) = q + 1 + 0 + 0
    BY <1>18, <2>1 DEF TopOf, q
  <2> QED  BY <1>4, <2>1, <2>2, <2>3
<1>21. EpFits(t, i, p.ep)
  <2>1. EpFits(s, i - 1, c.ep)
    BY <1>5 DEF Level
  <2>2. i \in 1..i /\ (\A j \in 1..i : j # i => j \in 1..i - 1) /\ (\A j \in 1..i - 1 : j \in 1..i)
    BY <1>2
  <2>3. \A j \in 1..i - 1 : \A h \in j + 1..i - 1 : h \in j + 1..i /\ h \in 1..i - 1
    BY <1>2
  <2>4. (\A j \in 1..i : ~ Armed(t[j])) => p.ep = Nil
    BY <1>12, <1>19, <2>1, <2>2 DEF EpFits
  <2>5. ASSUME NEW j \in 1..i, Armed(t[j]), \A h \in j + 1..i : ~ Armed(t[h])
        PROVE  p.ep = At(Len(t[j].returns) + 6)
    <3>1. j \in 1..i - 1
      BY <1>19, <1>20, <2>2, <2>5
    <3>2. Armed(s[j]) /\ \A h \in j + 1..i - 1 : ~ Armed(s[h])
      BY <1>19, <2>3, <2>5, <3>1
    <3>3. c.ep = At(Len(s[j].returns) + 6)
      BY <2>1, <3>1, <3>2 DEF EpFits
    <3> QED  BY <1>12, <1>19, <3>1, <3>3
  <2> QED  BY <2>4, <2>5 DEF EpFits
<1>22. InCall(d, p) /\ KeptIn(d, Stack(p)) /\ ReturnsIn(d, p.returns)
  <2>1. InCall(d, p)
    BY <1>12, <1>14, <1>18, <1>20 DEF InCall
  <2>2. Len(Stack(p)) >= k
    BY <1>4, <1>16 DEF N
  <2>3. KeptIn(d, Stack(p))
    BY <1>15, <1>18, <1>20, <2>2 DEF KeptIn, k
  <2>4. Len(p.returns) >= q + 1
    BY <1>4, <1>14
  <2>5. ReturnsIn(d, p.returns)
    BY <1>14, <1>18, <1>20, <2>4 DEF ReturnsIn, q
  <2> QED  BY <2>1, <2>3, <2>5
<1>23. ASSUME NEW j \in 1..i - 1 PROVE KeptIn(s[j], Stack(p)) /\ ReturnsIn(s[j], p.returns)
  <2>1. s[j] \in Calls /\ BaseOf(s[j]) \in Nat /\ TopOf(s[j]) \in Nat /\ BaseOf(s[j]) <= k
    <3>1. s[j] \in Calls /\ BaseOf(s[j]) <= k
      BY <1>2
    <3> QED  BY <3>1, CallTypes
  <2>2. KeptIn(s[j], c.kept) /\ ReturnsIn(s[j], c.returns)
    BY <1>5 DEF Level
  <2>3. Len(Stack(p)) >= BaseOf(s[j]) /\ \A h \in 1..BaseOf(s[j]) : h \in 1..k
    BY <1>4, <1>16, <2>1 DEF N
  <2>4. \A h \in 1..BaseOf(s[j]) : Stack(p)[h] = c.kept[h]
    BY <1>15, <2>3
  <2>5. KeptIn(s[j], Stack(p))
    BY <1>7, <1>16, <2>1, <2>2, <2>3, <2>4, KeptInAgrees
  <2>6. TopOf(s[j]) <= q
    BY <2>2 DEF ReturnsIn, q
  <2>7. Len(p.returns) >= TopOf(s[j]) /\ \A h \in 1..TopOf(s[j]) : h \in 1..q
    BY <1>4, <1>14, <2>1, <2>6
  <2>8. \A h \in 1..TopOf(s[j]) : p.returns[h] = c.returns[h]
    BY <1>14, <2>7
  <2>9. ReturnsIn(s[j], p.returns)
    BY <1>7, <1>14, <2>1, <2>2, <2>7, <2>8, ReturnsInAgrees
  <2> QED  BY <2>5, <2>9
<1>24. Level(t, i, p, Stack(p))
  <2>1. i # 0 /\ (\A j \in 1..i : j # i => j \in 1..i - 1)
    BY <1>2
  <2>2. \A j \in 1..i : KeptIn(t[j], Stack(p)) /\ ReturnsIn(t[j], p.returns)
    BY <1>19, <1>22, <1>23, <2>1
  <2> QED  BY <1>19, <1>21, <1>22, <2>1, <2>2 DEF Level
<1>25. ASSUME NEW j \in 1..i PROVE Level(t, j - 1, t[j], t[j].kept)
  <2>1. /\ j - 1 \in Nat /\ i - 1 \in Nat /\ (\A h \in 1..j - 1 : h \in 1..i - 1)
        /\ (\A h \in 1..i - 1 : h \in 1..Len(s)) /\ (j # i => j \in 1..i - 1)
    BY <1>2
  <2>2. CASE j = i
    <3>1. \A h \in 1..i - 1 : /\ BaseOf(s[h]) <= Len(c.kept)
                              /\ \A g \in 1..BaseOf(s[h]) : c.kept[g] = c.kept[g]
      BY <1>2 DEF k
    <3>2. \A h \in 1..i - 1 : s[h] \in Calls
      BY <1>2, <2>1
    <3>3. Level(s, i - 1, d, c.kept)
      BY <1>5, <1>7, <1>18, <2>1, <3>1, <3>2, LevelAgrees
    <3>4. Level(t, i - 1, d, c.kept)
      BY <1>19, <2>1, <3>3, LevelPrefix
    <3> QED  BY <1>18, <1>19, <2>2, <3>4
  <2>3. CASE j # i
    <3>1. j \in 1..i - 1 /\ t[j] = s[j]
      BY <1>19, <2>1, <2>3
    <3>2. Level(s, j - 1, t[j], t[j].kept)
      BY <1>5, <2>1, <3>1
    <3>3. \A h \in 1..j - 1 : t[h] = s[h]
      BY <1>19, <2>1
    <3> QED  BY <2>1, <3>2, <3>3, LevelPrefix
  <2> QED  BY <2>2, <2>3
<1>26. ASSUME NEW j \in 1..i
       PROVE  /\ t[j].at = "handler" => t[j].word \in Protected
              /\ Framing(t[j]) => Len(t[j].vars) = arguments[t[j].word] + locals[t[j].word]
  <2>1. CASE j = i
    BY <1>3, <1>18, <1>19, <1>20, <2>1 DEF Armed
  <2>2. CASE j # i
    <3>1. j \in 1..i - 1 /\ j \in 1..Len(s)
      BY <1>2, <2>2
    <3> QED  BY <1>5, <1>19, <3>1
  <2> QED  BY <2>1, <2>2
<1>27. TaskInv(p, t)
  BY <1>11, <1>19, <1>24, <1>25, <1>26 DEF TaskInv
<1>28. Depth(p) = k + a + 1
  BY <1>11 DEF N
<1> QED  BY <1>1, <1>12, <1>13, <1>17, <1>19, <1>27, <1>28 DEF c, k, a, M, p, d, t

----------------------------------------------------------------------------
(* Locals.                                                                  *)

\* Where the local k of the word a task is in lies.
LEMMA LocalIs ==
  ASSUME NEW m, NEW s, TaskInv(m, s), s # <<>>, Framing(s[Len(s)]), NEW k \in Bound(s[Len(s)].word)
  PROVE  LET c == s[Len(s)]
             j == Len(c.kept) + k
         IN  /\ j \in 1..Floor(s) - 1 /\ j > Len(c.kept) /\ Index(m.fp) + k = j + 2
             /\ k \in 1..Len(c.vars)
             /\ Stack(m)[j] = c.vars[k] /\ m.cells[j + 2] = c.vars[k] /\ c.vars[k] \in Cells
<1> DEFINE n == Len(s)
           c == s[n]
           K == Len(c.kept)
           a == arguments[c.word]
           l == locals[c.word]
           j == K + k
<1>1. /\ m \in Machines /\ n \in 1..n /\ c \in Calls /\ Floor(s) = BaseOf(c)
      /\ Floor(s) <= Depth(m)
  <2>1. m \in Machines /\ s \in Seq(Calls) /\ Floor(s) <= Depth(m) /\ \A i \in 1..n : s[i] \in Calls
    BY FloorIs
  <2>2. n \in 1..n
    BY <2>1
  <2> QED  BY <2>1, <2>2 DEF Floor
<1>2. InCall(c, m) /\ KeptIn(c, Stack(m)) /\ Len(c.vars) = a + l
  BY <1>1 DEF TaskInv, Level
<1>3. /\ a \in Nat /\ l \in Nat /\ K \in Nat /\ BaseOf(c) = K + a + l + 1
  BY <1>1, CallTypes
<1>4. c.vars \in Seq(Cells) /\ Depth(m) \in Nat
  BY <1>1, StackIs DEF Calls
<1>5. m.fp = At(K + 2) /\ Stack(m)[j] = c.vars[k]
  BY <1>2 DEF InCall, KeptIn
<1>6. k \in 1..a + l
  BY DEF Bound
<1> HIDE DEF n, c, K, a, l
<1>7. /\ K + k \in 1..K + a + l /\ K + k > K /\ k \in 1..Len(c.vars) /\ K + 2 \in Nat
      /\ K + 2 + k = K + k + 2
  BY <1>2, <1>3, <1>6
<1>8. Index(m.fp) = K + 2
  BY <1>5, <1>7, CellTypes
<1>9. K + a + l = BaseOf(c) - 1
  BY <1>3
<1>10. c.vars[k] \in Cells
  BY <1>4, <1>7
<1>11. m.cells[j + 2] = Stack(m)[j]
  <2>1. \A i \in 1..Depth(m) : Stack(m)[i] = IF i = Depth(m) THEN m.tos ELSE m.cells[i + 2]
    BY <1>1, StackIs
  <2>2. j \in 1..Depth(m) /\ j # Depth(m)
    BY <1>1, <1>3, <1>4, <1>6
  <2> QED  BY <2>1, <2>2
<1> QED  BY <1>1, <1>5, <1>7, <1>8, <1>9, <1>10, <1>11 DEF n, c, K

\* ep only depends on which calls are armed and where their frames are.
LEMMA EpFitsAgrees ==
  ASSUME NEW s, NEW t, NEW n \in Nat, NEW e, EpFits(s, n, e),
         \A i \in 1..n : (Armed(t[i]) <=> Armed(s[i])) /\ Len(t[i].returns) = Len(s[i].returns)
  PROVE  EpFits(t, n, e)
<1>1. \A i \in 1..n : \A j \in i + 1..n : j \in 1..n
  OBVIOUS
<1> QED  BY <1>1 DEF EpFits

\* A store into a local changes that local and nothing else.
LEMMA LocalStoreFits ==
  ASSUME NEW m, NEW s, TaskInv(m, s), s # <<>>, Framing(s[Len(s)]),
         NEW k \in Bound(s[Len(s)].word), Depth(m) > Floor(s)
  PROVE  TaskInv([Sdrop(m) EXCEPT !.cells[Index(m.fp) + k] = m.tos],
                 Front(s) \o <<[s[Len(s)] EXCEPT !.vars[k] = m.tos]>>)
<1>1. PICK n \in 1..Len(s) : n = Len(s)
  <2>1. s \in Seq(Calls) /\ Len(s) \in Nat
    BY FloorIs
  <2> QED  BY <2>1
<1> DEFINE c == s[n]
           K == Len(c.kept)
           h == K + k
           D == Depth(m)
           M == Sdrop(m)
           b == BaseOf(c)
           d == [c EXCEPT !.vars[k] = m.tos]
           p == [M EXCEPT !.cells[Index(m.fp) + k] = m.tos]
           t == Front(s) \o <<d>>
<1>2. /\ m \in Machines /\ s \in Seq(Calls) /\ n \in Nat /\ n > 0
      /\ \A j \in 1..n : s[j] \in Calls
      /\ \A j \in 1..n - 1 : BaseOf(s[j]) <= K
      /\ Floor(s) = b
  BY <1>1, FloorIs DEF Floor
<1>3. /\ h \in 1..b - 1 /\ h > K /\ Index(m.fp) + k = h + 2 /\ k \in 1..Len(c.vars)
      /\ Framing(c)
  BY <1>1, <1>2, LocalIs
<1>4. c \in Calls /\ c.vars \in Seq(Cells) /\ b \in Nat /\ K \in Nat /\ K <= b
  <2>1. c \in Calls
    BY <1>1, <1>2
  <2> QED  BY <2>1, CallTypes DEF Calls
<1>5. /\ Level(s, n, m, Stack(m))
      /\ \A j \in 1..n : Level(s, j - 1, s[j], s[j].kept)
      /\ \A j \in 1..n : s[j].at = "handler" => s[j].word \in Protected
      /\ \A j \in 1..n : Framing(s[j]) =>
                           Len(s[j].vars) = arguments[s[j].word] + locals[s[j].word]
  BY <1>1 DEF TaskInv
<1>6. InCall(c, m) /\ KeptIn(c, Stack(m)) /\ ReturnsIn(c, m.returns)
  BY <1>1, <1>2, <1>5 DEF Level
<1>7. /\ D \in Nat /\ D > b /\ m.tos \in Cells /\ Stack(m) \in Seq(Cells) /\ Len(Stack(m)) = D
      /\ Bound(c.word) = 1..arguments[c.word] + locals[c.word]
      /\ c.kept \in Seq(Cells)
  BY <1>2, <1>4, StackIs DEF Machines, Bound, Calls
<1> HIDE DEF c, K, h, D, M, b, d, p, t
<1>8. /\ M \in Machines /\ Depth(M) = D - 1 /\ Registers(M) = Registers(m)
      /\ \A j \in 1..D - 1 : Stack(M)[j] = Stack(m)[j]
  <2>1. Depth(m) > 0
    BY <1>4, <1>7 DEF D
  <2> QED  BY <1>2, <2>1, SdropIs DEF M, D
<1>9. /\ M.cells \in Seq(Cells) /\ Len(M.cells) = D
      /\ \A j \in 1..D - 1 : Stack(M)[j] = IF j = D - 1 THEN M.tos ELSE M.cells[j + 2]
  <2>1. /\ Len(M.cells) = Depth(M) + 1
        /\ \A j \in 1..Depth(M) : Stack(M)[j] = IF j = Depth(M) THEN M.tos ELSE M.cells[j + 2]
    BY <1>8, StackIs
  <2> QED  BY <1>7, <1>8, <2>1 DEF Machines
<1> DEFINE g == [M.cells EXCEPT ![h + 2] = m.tos]
<1>10. /\ g \in Seq(Cells) /\ Len(g) = D /\ g[h + 2] = m.tos
       /\ \A j \in 1..D : j # h + 2 => g[j] = M.cells[j]
  <2>1. h + 2 \in 1..Len(M.cells)
    BY <1>3, <1>4, <1>7, <1>9
  <2>2. PICK f \in 1..Len(M.cells) : f = h + 2
    BY <2>1
  <2>3. /\ [M.cells EXCEPT ![f] = m.tos] \in Seq(Cells)
        /\ Len([M.cells EXCEPT ![f] = m.tos]) = Len(M.cells)
        /\ \A j \in 1..Len(M.cells) :
             [M.cells EXCEPT ![f] = m.tos][j] = IF j = f THEN m.tos ELSE M.cells[j]
    BY <1>7, <1>9, ExceptSeq
  <2> QED  BY <1>9, <2>2, <2>3
<1>11. /\ p = [M EXCEPT !.cells = g]
  BY <1>3 DEF p
<1> HIDE DEF g
<1>12. /\ p \in Machines /\ p.cells = g /\ p.tos = M.tos /\ p.ip = m.ip /\ p.fp = m.fp
       /\ p.ep = m.ep /\ p.returns = m.returns
  <2>1. g # <<>>
    BY <1>4, <1>7, <1>10
  <2>2. /\ p.cells = g /\ p.tos = M.tos /\ p.ip = M.ip /\ p.fp = M.fp
        /\ p.ep = M.ep /\ p.returns = M.returns
    BY <1>8, <1>11 DEF Machines
  <2>3. p \in Machines
    BY <1>8, <1>10, <1>11, <2>1, <2>2 DEF Machines
  <2> QED  BY <1>8, <2>2, <2>3 DEF Registers
<1>13. Depth(p) = D - 1
  BY <1>10, <1>12 DEF Depth
<1>14. /\ Stack(p) \in Seq(Cells) /\ Len(Stack(p)) = D - 1
       /\ \A j \in 1..D - 1 : Stack(p)[j] = IF j = D - 1 THEN M.tos ELSE g[j + 2]
  BY <1>12, <1>13, StackIs
<1>15. /\ Stack(p)[h] = m.tos
       /\ \A j \in 1..b : j # h => Stack(p)[j] = Stack(m)[j]
  <2>1. h \in 1..D - 1 /\ h # D - 1
    BY <1>3, <1>4, <1>7
  <2>2. Stack(p)[h] = m.tos
    BY <1>10, <1>14, <2>1
  <2>3. ASSUME NEW j \in 1..b, j # h PROVE Stack(p)[j] = Stack(m)[j]
    <3>1. j \in 1..D - 1 /\ j + 2 # h + 2 /\ (j # D - 1 => j + 2 \in 1..D)
      BY <1>3, <1>4, <1>7, <2>3
    <3>2. Stack(p)[j] = Stack(M)[j]
      BY <1>9, <1>10, <1>14, <3>1
    <3> QED  BY <1>8, <3>1, <3>2
  <2> QED  BY <2>2, <2>3
<1>16. /\ d \in Calls /\ d.word = c.word /\ d.at = c.at /\ d.kept = c.kept
       /\ d.ip = c.ip /\ d.fp = c.fp /\ d.ep = c.ep /\ d.returns = c.returns
       /\ Len(d.vars) = Len(c.vars) /\ d.vars[k] = m.tos
       /\ \A j \in 1..Len(c.vars) : j # k => d.vars[j] = c.vars[j]
  <2> DEFINE v == [c.vars EXCEPT ![k] = m.tos]
  <2>1. /\ v \in Seq(Cells) /\ Len(v) = Len(c.vars)
        /\ \A j \in 1..Len(c.vars) : v[j] = IF j = k THEN m.tos ELSE c.vars[j]
    BY <1>3, <1>4, <1>7, ExceptSeq
  <2>2. d = [c EXCEPT !.vars = v]
    BY DEF d
  <2> HIDE DEF v
  <2>3. /\ d.word = c.word /\ d.at = c.at /\ d.kept = c.kept /\ d.vars = v
        /\ d.ip = c.ip /\ d.fp = c.fp /\ d.ep = c.ep /\ d.returns = c.returns
    BY <1>4, <2>2 DEF Calls
  <2>4. d \in Calls
    BY <1>4, <2>1, <2>2, <2>3 DEF Calls
  <2> QED  BY <1>3, <2>1, <2>3, <2>4
<1>17. /\ t \in Seq(Calls) /\ Len(t) = n /\ t[n] = d
       /\ \A j \in 1..n - 1 : t[j] = s[j]
  <2>1. /\ Front(s) \in Seq(Calls) /\ Len(Front(s)) = n - 1
        /\ \A j \in 1..n - 1 : Front(s)[j] = s[j]
    <3>1. n - 1 \in 0..Len(s) /\ \A j \in 1..n - 1 : s[j] \in Calls
      BY <1>1, <1>2
    <3> QED  BY <1>1, <1>2, <3>1 DEF Front
  <2>2. Append(Front(s), d) = t
    BY <1>16, <2>1, AppendIsConcat DEF t
  <2>3. /\ t \in Seq(Calls) /\ Len(t) = Len(Front(s)) + 1
        /\ \A j \in 1..Len(Front(s)) : t[j] = Front(s)[j]
        /\ t[Len(Front(s)) + 1] = d
    BY <1>16, <2>1, <2>2, AppendProperties, SMTT(30)
  <2>4. n - 1 + 1 = n
    BY <1>2
  <2> QED  BY <2>1, <2>3, <2>4
<1>18. /\ (Armed(d) <=> Armed(c)) /\ Framing(d) /\ BaseOf(d) = b /\ TopOf(d) = TopOf(c)
  BY <1>3, <1>16 DEF Armed, Framing, BaseOf, TopOf, b
<1>19. \A j \in 1..n : j # n => j \in 1..n - 1
  BY <1>2
<1>20. \A j \in 1..n : /\ (Armed(t[j]) <=> Armed(s[j])) /\ (Framing(t[j]) <=> Framing(s[j]))
                       /\ Len(t[j].returns) = Len(s[j].returns) /\ Len(t[j].vars) = Len(s[j].vars)
                       /\ t[j].word = s[j].word /\ t[j].at = s[j].at /\ t[j].kept = s[j].kept
                       /\ t[j].ip = s[j].ip /\ t[j].fp = s[j].fp /\ t[j].ep = s[j].ep
                       /\ t[j].returns = s[j].returns
  <2>1. ASSUME NEW j \in 1..n
        PROVE  /\ (Armed(t[j]) <=> Armed(s[j])) /\ (Framing(t[j]) <=> Framing(s[j]))
               /\ Len(t[j].returns) = Len(s[j].returns) /\ Len(t[j].vars) = Len(s[j].vars)
               /\ t[j].word = s[j].word /\ t[j].at = s[j].at /\ t[j].kept = s[j].kept
               /\ t[j].ip = s[j].ip /\ t[j].fp = s[j].fp /\ t[j].ep = s[j].ep
               /\ t[j].returns = s[j].returns
    <3>1. CASE j = n
      BY <1>3, <1>16, <1>17, <1>18, <3>1 DEF c
    <3>2. CASE j # n
      BY <1>17, <1>19, <3>2
    <3> QED  BY <3>1, <3>2
  <2> QED  BY <2>1
<1>21. KeptIn(d, Stack(p)) /\ ReturnsIn(d, p.returns) /\ InCall(d, p)
  <2>1. InCall(d, p)
    BY <1>3, <1>6, <1>12, <1>16, <1>18 DEF InCall
  <2>2. ReturnsIn(d, p.returns)
    BY <1>6, <1>12, <1>16, <1>18, <1>3 DEF ReturnsIn, b
  <2>3. Len(Stack(p)) >= b
    BY <1>4, <1>7, <1>14
  <2>4. ASSUME NEW j \in 1..K PROVE Stack(p)[j] = c.kept[j]
    <3>1. j \in 1..b /\ j # h
      BY <1>3, <1>4
    <3> QED  BY <1>6, <1>15, <3>1 DEF KeptIn, K
  <2>5. ASSUME NEW j \in Bound(c.word) PROVE Stack(p)[K + j] = d.vars[j]
    <3>1. CASE j = k
      BY <1>15, <1>16, <3>1 DEF h
    <3>2. CASE j # k
      <4>1. Stack(m)[K + j] = c.vars[j]
        BY <1>3, <1>6 DEF KeptIn, K
      <4>2. j \in Nat /\ k \in Nat /\ j \in 1..Len(c.vars) /\ K + j \in 1..b
        <5>1. Len(c.vars) = arguments[c.word] + locals[c.word]
          BY <1>1, <1>3, <1>5 DEF c
        <5>2. arguments[c.word] \in Nat /\ locals[c.word] \in Nat
              /\ b = K + arguments[c.word] + locals[c.word] + 1
          BY <1>3, <1>4, CallTypes DEF b, K
        <5> QED  BY <1>3, <1>4, <1>7, <5>1, <5>2, SMTT(30)
      <4>3. K + j # h
        BY <1>4, <3>2, <4>2 DEF h
      <4> QED  BY <1>15, <1>16, <3>2, <4>1, <4>2, <4>3
    <3> QED  BY <3>1, <3>2
  <2>6. Stack(p)[b] = c.fp
    <3>1. b \in 1..b /\ b # h
      BY <1>3, <1>4
    <3>2. Stack(m)[b] = c.fp
      BY <1>3, <1>6 DEF KeptIn, b
    <3> QED  BY <1>15, <3>1, <3>2
  <2> QED  BY <1>16, <1>18, <2>1, <2>2, <2>3, <2>4, <2>5, <2>6 DEF KeptIn, K
<1>22. ASSUME NEW i \in 1..n - 1 PROVE KeptIn(s[i], Stack(p)) /\ ReturnsIn(s[i], p.returns)
  <2>1. s[i] \in Calls /\ BaseOf(s[i]) <= K /\ i \in 1..n
    BY <1>2
  <2>2. BaseOf(s[i]) \in Nat /\ KeptIn(s[i], Stack(m)) /\ ReturnsIn(s[i], m.returns)
    BY <1>5, <2>1, CallTypes DEF Level
  <2>3. Len(Stack(p)) >= BaseOf(s[i]) /\ \A j \in 1..BaseOf(s[i]) : j \in 1..b /\ j # h
    BY <1>3, <1>4, <1>7, <1>14, <2>1, <2>2
  <2>4. \A j \in 1..BaseOf(s[i]) : Stack(p)[j] = Stack(m)[j]
    BY <1>15, <2>3
  <2> QED  BY <1>7, <1>12, <1>14, <2>1, <2>2, <2>3, <2>4, KeptInAgrees
<1>23. Level(t, n, p, Stack(p))
  <2>1. EpFits(t, n, p.ep)
    <3>1. EpFits(s, n, p.ep)
      BY <1>5, <1>12 DEF Level
    <3> QED  BY <1>2, <1>20, <3>1, EpFitsAgrees
  <2>2. \A i \in 1..n : KeptIn(t[i], Stack(p)) /\ ReturnsIn(t[i], p.returns)
    BY <1>17, <1>19, <1>21, <1>22
  <2>3. n # 0 /\ InCall(t[n], p)
    BY <1>2, <1>17, <1>21
  <2> QED  BY <2>1, <2>2, <2>3 DEF Level
<1>24. ASSUME NEW j \in 1..n PROVE Level(t, j - 1, t[j], t[j].kept)
  <2>1. j - 1 \in Nat /\ (\A i \in 1..j - 1 : i \in 1..n - 1 /\ i \in 1..n)
    BY <1>2
  <2>2. \A i \in 1..j - 1 : s[i] \in Calls
    BY <1>2, <2>1
  <2>3. Level(s, j - 1, s[j], s[j].kept)
    BY <1>5
  <2>4. s[j].kept \in Seq(Cells)
    BY <1>2 DEF Calls
  <2>5. \A i \in 1..j - 1 : BaseOf(s[i]) <= Len(s[j].kept)
    BY <1>1, FloorIs
  <2>6. \A i \in 1..j - 1 : /\ BaseOf(s[i]) <= Len(s[j].kept)
                            /\ \A e \in 1..BaseOf(s[i]) : s[j].kept[e] = s[j].kept[e]
    BY <2>5
  <2>7. t[j].kept = s[j].kept /\ t[j].ip = s[j].ip /\ t[j].fp = s[j].fp /\ t[j].ep = s[j].ep
        /\ t[j].returns = s[j].returns
    BY <1>20
  <2>8. Level(s, j - 1, t[j], s[j].kept)
    BY <2>1, <2>2, <2>3, <2>4, <2>6, <2>7, LevelAgrees, ZenonT(60)
  <2>9. \A i \in 1..j - 1 : t[i] = s[i]
    BY <1>17, <2>1
  <2>10. Level(t, j - 1, t[j], s[j].kept)
    BY <2>1, <2>8, <2>9, LevelPrefix
  <2> QED  BY <2>7, <2>10
<1>25. \A j \in 1..n : /\ t[j].at = "handler" => t[j].word \in Protected
                       /\ Framing(t[j]) => Len(t[j].vars) = arguments[t[j].word] + locals[t[j].word]
  BY <1>5, <1>20
<1>26. TaskInv(p, t)
  BY <1>12, <1>17, <1>23, <1>24, <1>25 DEF TaskInv
<1> QED  BY <1>1, <1>26 DEF p, t, d, c, M

----------------------------------------------------------------------------
(* Switching between tasks.                                                 *)

\* The top of an empty stack does not matter.
LEMMA SameFields ==
  ASSUME NEW m \in Machines, NEW p \in Machines, Registers(p) = Registers(m), p.cells = m.cells,
         Depth(m) > 0 => p.tos = m.tos
  PROVE  Depth(p) = Depth(m) /\ Stack(p) = Stack(m)
<1>1. Depth(p) = Depth(m) /\ Depth(m) \in Nat
  BY StackIs DEF Depth
<1>2. /\ Stack(p) \in Seq(Cells) /\ Len(Stack(p)) = Depth(m)
      /\ Stack(m) \in Seq(Cells) /\ Len(Stack(m)) = Depth(m)
      /\ \A j \in 1..Depth(m) : Stack(p)[j] = IF j = Depth(m) THEN p.tos ELSE m.cells[j + 2]
      /\ \A j \in 1..Depth(m) : Stack(m)[j] = IF j = Depth(m) THEN m.tos ELSE m.cells[j + 2]
  BY <1>1, StackIs
<1>3. \A j \in 1..Depth(m) : Depth(m) > 0
  BY <1>1
<1>4. \A j \in 1..Depth(m) : Stack(p)[j] = Stack(m)[j]
  BY <1>2, <1>3
<1> QED  BY <1>1, <1>2, <1>4, SeqEqual

\* A push and a drop leave behind all but the top of an empty stack, whether
\* or not the task is suspended in between.
LEMMA PushDrop ==
  ASSUME NEW m \in Machines, NEW x \in Cells
  PROVE  LET p == Sdrop(Spush(m, x))
             l == Loaded(Header(Spush(m, x)))
         IN  /\ p \in Machines /\ Registers(p) = Registers(m)
             /\ Depth(p) = Depth(m) /\ Stack(p) = Stack(m)
             /\ l \in Machines /\ Registers(l) = Registers(m)
             /\ Depth(l) = Depth(m) /\ Stack(l) = Stack(m)
<1> DEFINE y == IF Depth(m) > 0 THEN m.tos ELSE Junk
           A == Append(m.cells, y)
           M == Spush(m, x)
           h == WithTos(Header(M), Junk)
           p == Sdrop(M)
           l == Sdrop(h)
<1>1. m.cells \in Seq(Cells) /\ y \in Cells /\ M \in Machines /\ (Depth(m) > 0 => y = m.tos)
  BY StackIs, CellTypes, SpushIs DEF Machines
<1>2. /\ M.cells = A /\ M.ip = m.ip /\ M.returns = m.returns /\ M.fp = m.fp
      /\ M.ep = m.ep
  BY DEF Spush, Machines
<1> HIDE DEF y, M, A
<1>3. Front(A) = m.cells /\ Last(A) = y
  <2>1. PICK n \in Nat : n = Len(m.cells)
    BY <1>1
  <2>2. /\ A \in Seq(Cells) /\ Len(A) = n + 1
        /\ \A i \in 1..n : A[i] = m.cells[i]
        /\ A[n + 1] = y
    BY <1>1, <2>1, AppendProperties DEF A
  <2> DEFINE g == SubSeq(A, 1, n)
  <2>3. /\ g \in Seq(Cells)
        /\ Len(g) = IF 1 <= n THEN n - 1 + 1 ELSE 0
        /\ \A i \in 1..n - 1 + 1 : g[i] = A[1 + i - 1]
    <3>1. \A i \in 1..n : A[i] \in Cells
      BY <1>1, <2>1, <2>2
    <3>2. n \in Int /\ 1 \in Int
      OBVIOUS
    <3> QED  BY <3>1, <3>2, SubSeqProperties
  <2> HIDE DEF g
  <2>4. Len(g) = n /\ \A i \in 1..n : g[i] = A[i]
    BY <2>3
  <2>5. g = m.cells
    BY <1>1, <2>1, <2>2, <2>3, <2>4, SeqEqual
  <2>6. n + 1 - 1 = n
    OBVIOUS
  <2> QED  BY <2>2, <2>5, <2>6 DEF Front, Last, g
<1>4. m.cells # <<>>
  BY DEF Machines
<1>5. /\ p \in Machines /\ Registers(p) = Registers(m) /\ p.cells = m.cells /\ p.tos = y
  <2>1. p = [M EXCEPT !.cells = m.cells, !.tos = y]
    BY <1>2, <1>3 DEF Sdrop
  <2> HIDE DEF p
  <2>2. /\ p.cells = m.cells /\ p.tos = y /\ p.ip = M.ip /\ p.returns = M.returns
        /\ p.fp = M.fp /\ p.ep = M.ep
    BY <1>1, <2>1 DEF Machines
  <2>3. p \in Machines
    BY <1>1, <1>4, <2>1, <2>2 DEF Machines
  <2> QED  BY <1>2, <2>2, <2>3 DEF Registers
<1>6. /\ l \in Machines /\ Registers(l) = Registers(m) /\ l.cells = m.cells /\ l.tos = y
  <2>1. h = [cells |-> M.cells, ip |-> M.ip, returns |-> M.returns, fp |-> M.fp, ep |-> M.ep,
             tos |-> Junk]
    BY DEF Header, WithTos
  <2>2. l = [h EXCEPT !.cells = Front(h.cells), !.tos = Last(h.cells)]
    BY DEF Sdrop
  <2> HIDE DEF h, l
  <2>3. l = [cells |-> m.cells, ip |-> M.ip, returns |-> M.returns, fp |-> M.fp, ep |-> M.ep,
             tos |-> y]
    <3>1. Front(h.cells) = m.cells /\ Last(h.cells) = y
      BY <1>2, <1>3, <2>1
    <3> QED  BY <2>1, <2>2, <3>1
  <2>4. l \in Machines
    BY <1>1, <1>4, <2>3 DEF Machines
  <2> QED  BY <1>2, <2>3, <2>4 DEF Registers
<1> HIDE DEF p, l
<1>7. /\ Depth(p) = Depth(m) /\ Stack(p) = Stack(m)
      /\ Depth(l) = Depth(m) /\ Stack(l) = Stack(m)
  BY <1>1, <1>5, <1>6, SameFields
<1> QED  BY <1>5, <1>6, <1>7 DEF p, l, h, M, Loaded

\* A task that has not run yet, when it is resumed.
LEMMA NewTaskIs ==
  ASSUME NEW t \in Tasks
  PROVE  TaskInv(Rpush(Spush(Loaded(NewTask(Code(main, "body"))), t), Terminate), <<>>)
<1> DEFINE i == Code(main, "body")
           l == Loaded(NewTask(i))
           p == Rpush(Spush(l, t), Terminate)
<1>1. l = [cells |-> <<>>, tos |-> Junk, ip |-> i, returns |-> <<>>, fp |-> Nil, ep |-> Nil]
  <2>1. Front(<<Junk>>) = <<>> /\ Last(<<Junk>>) = Junk
    BY DEF Front, Last
  <2> HIDE DEF i
  <2> DEFINE h == WithTos(NewTask(i), Junk)
  <2>2. h = [cells |-> <<Junk>>, tos |-> Junk, ip |-> i, returns |-> <<>>, fp |-> Nil, ep |-> Nil]
    BY DEF WithTos, NewTask
  <2>3. l = [h EXCEPT !.cells = Front(h.cells), !.tos = Last(h.cells)]
    BY DEF Loaded, Sdrop
  <2> HIDE DEF h, l
  <2>4. Front(h.cells) = <<>> /\ Last(h.cells) = Junk
    BY <2>1, <2>2
  <2> QED  BY <2>2, <2>3, <2>4
<1>2. Spush(l, t) = [cells |-> <<Junk>>, tos |-> t, ip |-> i, returns |-> <<>>, fp |-> Nil, ep |-> Nil]
  <2> HIDE DEF l, i
  <2>1. Depth(l) = -1 /\ l.cells = <<>> /\ Append(<<>>, Junk) = <<Junk>>
    BY <1>1 DEF Depth
  <2>2. ~ (Depth(l) > 0)
    BY <2>1
  <2>3. Spush(l, t) = [l EXCEPT !.cells = <<Junk>>, !.tos = t]
    BY <2>1, <2>2 DEF Spush
  <2> QED  BY <1>1, <2>3
<1> HIDE DEF l
<1>3. p = [cells |-> <<Junk>>, tos |-> t, ip |-> i, returns |-> <<Terminate>>, fp |-> Nil, ep |-> Nil]
  <2>1. Append(<<>>, Terminate) = <<Terminate>>
    OBVIOUS
  <2> HIDE DEF i
  <2> QED  BY <1>2, <2>1 DEF Rpush
<1>4. main \in Words \ (Framed \cup Protected) /\ i \in Threads
  BY ContextAssumption, CellTypes
<1>5. Terminate \in ReturnCells /\ Junk \in Cells /\ Nil \in Frames /\ t \in Cells
  BY CellTypes DEF ReturnCells
<1>6. p \in Machines
  <2>1. <<Junk>> \in Seq(Cells) /\ <<Junk>> # <<>> /\ <<Terminate>> \in Seq(ReturnCells)
    BY <1>5
  <2> HIDE DEF p, i
  <2> QED  BY <1>3, <1>4, <1>5, <2>1 DEF Machines
<1> HIDE DEF p
<1>7. InTask(p)
  <2>1. p.returns # <<>> /\ Last(p.returns) = Terminate /\ p.ip = Code(main, "body")
    BY <1>3 DEF Last
  <2> QED  BY <1>4, <2>1 DEF InTask
<1>8. EpFits(<<>>, 0, p.ep)
  BY <1>3 DEF EpFits
<1>9. Level(<<>>, 0, p, Stack(p))
  BY <1>7, <1>8 DEF Level
<1>10. <<>> \in Seq(Calls) /\ Len(<<>>) = 0
  BY EmptySeq
<1>11. TaskInv(p, <<>>)
  BY <1>6, <1>9, <1>10 DEF TaskInv
<1> QED  BY <1>11 DEF p, l

\* The copy of a task, when it is resumed.
LEMMA ForkedIs ==
  ASSUME NEW m \in Machines, Depth(m) >= 2, NEW t \in Tasks, NEW u \in Tasks
  PROVE  LET p == [Rpush(Spush(Loaded(Header(Sdrop(m))), t), Terminate) EXCEPT !.tos = u]
         IN  /\ p \in Machines /\ p.ip = m.ip /\ p.ep = m.ep
             /\ p.returns = Append(m.returns, Terminate)
<1> DEFINE d == Sdrop(m)
           h == WithTos(Header(d), Junk)
           l == Sdrop(h)
           q == Spush(l, t)
           r == Rpush(q, Terminate)
           p == [r EXCEPT !.tos = u]
<1>1. Depth(m) \in Nat /\ t \in Cells /\ u \in Cells /\ Terminate \in ReturnCells
      /\ Junk \in Cells
  BY StackIs, CellTypes DEF ReturnCells
<1>2. d \in Machines /\ Registers(d) = Registers(m) /\ Depth(d) > 0
  BY <1>1, SdropIs
<1> HIDE DEF d
<1>3. /\ h = [cells |-> d.cells, ip |-> d.ip, returns |-> d.returns, fp |-> d.fp, ep |-> d.ep,
              tos |-> Junk]
  BY DEF Header, WithTos
<1> HIDE DEF h
<1>4. h \in Machines /\ Registers(h) = Registers(d) /\ Depth(h) > 0
  BY <1>1, <1>2, <1>3 DEF Machines, Registers, Depth
<1>5. l \in Machines /\ Registers(l) = Registers(h)
  BY <1>4, SdropIs
<1> HIDE DEF l
<1>6. q \in Machines /\ Registers(q) = Registers(l)
  BY <1>1, <1>5, SpushIs
<1> HIDE DEF q
<1>7. r \in Machines /\ r.returns = Append(q.returns, Terminate) /\ r.ip = q.ip /\ r.ep = q.ep
  BY <1>1, <1>6, RpushIs
<1> HIDE DEF r
<1>8. p \in Machines /\ p.returns = r.returns /\ p.ip = r.ip /\ p.ep = r.ep
  BY <1>1, <1>7 DEF Machines
<1> HIDE DEF p
<1>9. p \in Machines /\ p.ip = m.ip /\ p.ep = m.ep /\ p.returns = Append(m.returns, Terminate)
  BY <1>2, <1>4, <1>5, <1>6, <1>7, <1>8 DEF Registers
<1> QED  BY <1>9 DEF p, r, q, l, h, d, Loaded

\* A task that starts another one loses one cell, and only that.
LEMMA ScheduledIs ==
  ASSUME NEW m \in Machines, Depth(m) > 0, NEW x \in Cells, NEW y \in Cells
  PROVE  LET l == Loaded(Header(Spush(Sdrop(Sdrop(Spush(m, x))), y)))
         IN  /\ l \in Machines /\ Registers(l) = Registers(m) /\ Depth(l) = Depth(m) - 1
             /\ \A j \in 1..Depth(m) - 1 : Stack(l)[j] = Stack(m)[j]
<1> DEFINE p == Sdrop(Spush(m, x))
           q == Sdrop(p)
           l == Loaded(Header(Spush(q, y)))
<1>1. /\ p \in Machines /\ Registers(p) = Registers(m)
      /\ Depth(p) = Depth(m) /\ Stack(p) = Stack(m)
  BY PushDrop
<1> HIDE DEF p
<1>2. /\ q \in Machines /\ Registers(q) = Registers(p) /\ Depth(q) = Depth(p) - 1
      /\ \A j \in 1..Depth(p) - 1 : Stack(q)[j] = Stack(p)[j]
  BY <1>1, SdropIs
<1> HIDE DEF q
<1>3. /\ l \in Machines /\ Registers(l) = Registers(q)
      /\ Depth(l) = Depth(q) /\ Stack(l) = Stack(q)
  BY <1>2, PushDrop
<1> HIDE DEF l
<1>4. /\ l \in Machines /\ Registers(l) = Registers(m) /\ Depth(l) = Depth(m) - 1
      /\ \A j \in 1..Depth(m) - 1 : Stack(l)[j] = Stack(m)[j]
  BY <1>1, <1>2, <1>3
<1> QED  BY <1>4 DEF l, q, p

----------------------------------------------------------------------------
(* The invariant holds.                                                     *)

\* What the guards of the model say of the running task.
LEMMA BaseIs ==
  ASSUME TaskInv(vm, calls[tp])
  PROVE  LET s == calls[tp]
         IN  /\ Base = Floor(s) /\ (InWord <=> s # <<>>) /\ Current = s[Len(s)]
             /\ InFrame => s # <<>> /\ Framing(s[Len(s)])
             /\ Len(Own) = Depth(vm) - Floor(s)
             /\ Own # <<>> => Depth(vm) > Floor(s)
<1> DEFINE s == calls[tp]
           c == s[Len(s)]
<1>1. /\ vm \in Machines /\ s \in Seq(Calls) /\ Len(s) \in Nat
      /\ \A i \in 1..Len(s) : s[i] \in Calls
      /\ Floor(s) \in Nat /\ Floor(s) <= Depth(vm)
  BY FloorIs
<1>2. (InWord <=> s # <<>>) /\ Current = c /\ (InFrame <=> InWord /\ Framing(c))
  BY DEF InWord, Current, InFrame, Last, Framing
<1>3. Base = Floor(s)
  <2>1. CASE s = <<>>
    BY <1>2, <2>1 DEF Base, Floor
  <2>2. CASE s # <<>>
    <3>1. Len(s) \in 1..Len(s)
      BY <1>1, <2>2
    <3>2. InCall(c, vm) /\ ReturnsIn(c, vm.returns) /\ c \in Calls
      BY <1>1, <3>1 DEF TaskInv, Level
    <3>3. CASE ~ Framing(c)
      BY <1>2, <2>2, <3>3 DEF Base, Floor, BaseOf
    <3>4. CASE Framing(c)
      <4>1. Last(vm.returns) = At(BaseOf(c) + 1)
        BY <3>2, <3>4 DEF InCall, ReturnsIn, Last
      <4>2. BaseOf(c) \in Nat
        BY <3>2, CallTypes
      <4>3. BaseOf(c) + 1 \in Nat /\ (BaseOf(c) + 1) - 1 = BaseOf(c)
        BY <4>2
      <4>4. Index(At(BaseOf(c) + 1)) = BaseOf(c) + 1
        BY <4>3, CellTypes
      <4>5. Index(Last(vm.returns)) - 1 = BaseOf(c)
        <5>1. Index(Last(vm.returns)) = BaseOf(c) + 1
          BY <4>1, <4>4, Zenon
        <5>2. Index(Last(vm.returns)) - 1 = (BaseOf(c) + 1) - 1
          BY <5>1, Zenon
        <5> QED  BY <4>3, <5>2, Zenon
      <4> QED  BY <1>2, <2>2, <3>4, <4>5 DEF Base, Floor
    <3> QED  BY <3>3, <3>4
  <2> QED  BY <2>1, <2>2
<1>4. Len(Own) = Depth(vm) - Floor(s) /\ Own \in Seq(Cells)
  <2> DEFINE b == Floor(s)
             D == Depth(vm)
  <2>1. b \in Nat /\ D \in Nat /\ b <= D /\ Stack(vm) \in Seq(Cells) /\ Len(Stack(vm)) = D
    BY <1>1, StackIs
  <2>2. Own = SubSeq(Stack(vm), b + 1, D)
    BY <1>3 DEF Own
  <2> HIDE DEF b, D
  <2>3. /\ b + 1 \in Int /\ D \in Int /\ \A i \in b + 1..D : Stack(vm)[i] \in Cells
    BY <2>1
  <2>4. /\ SubSeq(Stack(vm), b + 1, D) \in Seq(Cells)
        /\ Len(SubSeq(Stack(vm), b + 1, D)) = IF b + 1 <= D THEN D - (b + 1) + 1 ELSE 0
    BY <2>3, SubSeqProperties
  <2>5. (b + 1 <= D => D - (b + 1) + 1 = D - b) /\ (~ (b + 1 <= D) => D - b = 0)
    BY <2>1
  <2>6. Len(Own) = D - b
    BY <2>2, <2>4, <2>5
  <2> QED  BY <2>2, <2>4, <2>6 DEF b, D
<1>5. Own # <<>> => Depth(vm) > Floor(s)
  <2>1. Own # <<>> => Len(Own) \in Nat \ {0}
    BY <1>4, EmptySeq
  <2>2. Depth(vm) \in Nat
    BY <1>1, StackIs
  <2> QED  BY <1>1, <1>4, <2>1, <2>2
<1> QED  BY <1>2, <1>3, <1>4, <1>5

\* No step disturbs what another task sees.
OthersStay == \A t \in alive \cap alive' : t # tp => Machine(t)' = Machine(t)

\* Steps of the running task alone,
LEMMA RunFrame ==
  ASSUME Inv, UNCHANGED <<tp, saved>>, DOMAIN calls' = Tasks,
         \A t \in Tasks : t # tp => calls'[t] = calls[t],
         TaskInv(vm', calls'[tp]), Len(calls'[tp]) <= MaxCalls[tp]
  PROVE  Inv' /\ OthersStay
<1>1. TypeInv' /\ alive' = alive /\ alive \subseteq Tasks
  BY DEF Inv, TypeInv, alive
<1>2. \A t \in alive : t # tp => Machine(t)' = Machine(t)
  BY DEF Machine, alive
<1>3. Machine(tp)' = vm'
  BY DEF Machine
<1>4. ASSUME NEW t \in alive' PROVE TaskInv(Machine(t)', calls'[t]) /\ Len(calls'[t]) <= MaxCalls[t]
  <2>1. CASE t = tp
    BY <1>3, <2>1 DEF Machine
  <2>2. CASE t # tp
    BY <1>1, <1>2, <2>2 DEF Inv
  <2> QED  BY <2>1, <2>2
<1> QED  BY <1>1, <1>2, <1>4 DEF Inv, OthersStay

\* steps that resume another task,
LEMMA LeaveFrame ==
  ASSUME Inv, NEW n \in Tasks, n # tp, tp' = n, NEW h,
         saved' = [t \in alive \ {n} |-> IF t = tp THEN h ELSE saved[t]],
         DOMAIN calls' = Tasks, \A t \in Tasks : t # n => calls'[t] = calls[t],
         TaskInv(Loaded(h), calls[tp]),
         TaskInv(vm', calls'[n]), Len(calls'[n]) <= MaxCalls[n],
         n \in alive => vm' = Loaded(saved[n])
  PROVE  Inv' /\ OthersStay
<1>1. /\ tp \in Tasks /\ alive \subseteq Tasks /\ tp \in alive
      /\ DOMAIN saved' = alive \ {n}
  BY DEF Inv, TypeInv, alive
<1>2. TypeInv' /\ alive' = alive \cup {n}
  BY <1>1 DEF TypeInv, alive
<1>3. \A t \in alive' : t # tp /\ t # n => t \in alive /\ Machine(t)' = Machine(t)
  BY <1>1, <1>2 DEF Machine
<1>4. Machine(n)' = vm' /\ (n \in alive => Machine(n)' = Machine(n))
  BY DEF Machine
<1>6. saved'[tp] = h
  BY <1>1
<1>7. ASSUME NEW t \in alive' PROVE TaskInv(Machine(t)', calls'[t]) /\ Len(calls'[t]) <= MaxCalls[t]
  <2>1. CASE t = n
    BY <1>4, <2>1
  <2>2. CASE t = tp
    <3>1. calls'[tp] = calls[tp] /\ Len(calls[tp]) <= MaxCalls[tp]
      BY <1>1 DEF Inv
    <3>2. Machine(t)' = Loaded(h)
      <4>1. Machine(t)' = IF t = n THEN vm' ELSE Loaded(saved'[t])
        BY DEF Machine
      <4> QED  BY <1>6, <2>2, <4>1
    <3> QED  BY <2>2, <3>1, <3>2
  <2>3. CASE t # n /\ t # tp
    <3>1. t \in alive /\ Machine(t)' = Machine(t) /\ calls'[t] = calls[t]
      BY <1>1, <1>3, <2>3
    <3> QED  BY <3>1 DEF Inv
  <2> QED  BY <2>1, <2>2, <2>3
<1>9. \A t \in alive \cap alive' : t # tp => Machine(t)' = Machine(t)
  BY <1>3, <1>4
<1> QED  BY <1>2, <1>7, <1>9 DEF Inv, OthersStay

\* and steps that end one.
LEMMA QuitFrame ==
  ASSUME Inv, NEW n, Quit(n)
  PROVE  Inv' /\ OthersStay
<1>1. n \in alive \ {tp} /\ tp' = n /\ vm' = Loaded(saved[n])
      /\ saved' = [t \in DOMAIN saved \ {n} |-> saved[t]]
      /\ calls' = [calls EXCEPT ![tp] = <<>>]
  BY DEF Quit
<1>2. TypeInv' /\ alive' = alive \ {tp} /\ alive \subseteq Tasks
  BY <1>1 DEF Inv, TypeInv, alive
<1>3. \A t \in alive' : Machine(t)' = Machine(t) /\ calls'[t] = calls[t]
  BY <1>1, <1>2 DEF Machine, Inv, TypeInv, alive
<1>4. \A t \in alive' : TaskInv(Machine(t)', calls'[t]) /\ Len(calls'[t]) <= MaxCalls[t]
  BY <1>2, <1>3 DEF Inv
<1> QED  BY <1>2, <1>3, <1>4 DEF Inv, OthersStay

\* What the invariant says of the task that runs and of those that do not.
LEMMA InvNow ==
  ASSUME Inv
  PROVE  /\ tp \in Tasks /\ alive \subseteq Tasks /\ tp \in alive /\ DOMAIN calls = Tasks
         /\ TaskInv(vm, calls[tp]) /\ Len(calls[tp]) <= MaxCalls[tp] /\ MaxCalls[tp] \in Nat
         /\ \A t \in alive : t # tp =>
              t \in Tasks /\ TaskInv(Loaded(saved[t]), calls[t]) /\ Len(calls[t]) <= MaxCalls[t]
<1>1. tp \in Tasks /\ alive \subseteq Tasks /\ tp \in alive /\ DOMAIN calls = Tasks
  BY DEF Inv, TypeInv, alive
<1>2. \A t \in alive : TaskInv(Machine(t), calls[t]) /\ Len(calls[t]) <= MaxCalls[t]
  BY DEF Inv
<1>3. Machine(tp) = vm /\ \A t \in alive : t # tp => Machine(t) = Loaded(saved[t])
  BY DEF Machine
<1>4. MaxCalls[tp] \in Nat
  BY <1>1, ContextAssumption
<1>5. TaskInv(vm, calls[tp]) /\ Len(calls[tp]) <= MaxCalls[tp]
  BY <1>1, <1>2, <1>3
<1> QED  BY <1>1, <1>2, <1>3, <1>4, <1>5

\* Steps that only move the top of the stack of the task that runs.
LEMMA ComputeStep ==
  ASSUME Inv, NEW p \in Machines, Compute(p), Registers(p) = Registers(vm),
         Depth(p) >= Base, \A j \in 1..Base : Stack(p)[j] = Stack(vm)[j]
  PROVE  Inv' /\ OthersStay
<1>1. TaskInv(vm, calls[tp]) /\ Len(calls[tp]) <= MaxCalls[tp] /\ DOMAIN calls = Tasks
  BY InvNow
<1>2. Base = Floor(calls[tp])
  BY <1>1, BaseIs
<1>3. Depth(p) >= Floor(calls[tp]) /\ \A j \in 1..Floor(calls[tp]) : Stack(p)[j] = Stack(vm)[j]
  BY <1>2
<1>4. TaskInv(p, calls[tp])
  BY <1>1, <1>3, TaskStays
<1>5. vm' = p /\ UNCHANGED <<tp, saved>> /\ calls' = calls
  BY DEF Compute
<1>6. calls'[tp] = calls[tp] /\ TaskInv(vm', calls'[tp])
  BY <1>4, <1>5
<1> QED  BY <1>1, <1>5, <1>6, RunFrame

\* Push and (local@).
LEMMA PushStep ==
  ASSUME Inv, NEW x \in Cells, Compute(Spush(vm, x))
  PROVE  Inv' /\ OthersStay
<1>1. TaskInv(vm, calls[tp])
  BY InvNow
<1>2. vm \in Machines /\ Floor(calls[tp]) \in Nat /\ Floor(calls[tp]) <= Depth(vm)
  BY <1>1, FloorIs
<1>3. Base = Floor(calls[tp])
  BY <1>1, BaseIs
<1>4. /\ Spush(vm, x) \in Machines /\ Registers(Spush(vm, x)) = Registers(vm)
      /\ Depth(Spush(vm, x)) = Depth(vm) + 1
      /\ Stack(Spush(vm, x)) = Append(Stack(vm), x)
  BY <1>2, SpushIs
<1>5. Depth(vm) \in Nat /\ Stack(vm) \in Seq(Cells) /\ Len(Stack(vm)) = Depth(vm)
  BY <1>2, StackIs
<1>6. \A j \in 1..Depth(vm) : Append(Stack(vm), x)[j] = Stack(vm)[j]
  BY <1>5
<1>7. Depth(Spush(vm, x)) >= Base
  BY <1>2, <1>3, <1>4, <1>5
<1>8. \A j \in 1..Base : j \in 1..Depth(vm)
  BY <1>2, <1>3, <1>5
<1>9. \A j \in 1..Base : Stack(Spush(vm, x))[j] = Stack(vm)[j]
  BY <1>4, <1>6, <1>8
<1> QED  BY <1>4, <1>7, <1>9, ComputeStep

\* Drop.
LEMMA DropStep ==
  ASSUME Inv, Drop
  PROVE  Inv' /\ OthersStay
<1>1. TaskInv(vm, calls[tp])
  BY InvNow
<1>2. vm \in Machines /\ Floor(calls[tp]) \in Nat
  BY <1>1, FloorIs
<1>3. Base = Floor(calls[tp]) /\ Depth(vm) > Floor(calls[tp])
  BY <1>1, BaseIs DEF Drop
<1>4. Depth(vm) \in Nat /\ Depth(vm) > 0
  BY <1>2, <1>3, StackIs
<1>5. /\ Sdrop(vm) \in Machines /\ Registers(Sdrop(vm)) = Registers(vm)
      /\ Depth(Sdrop(vm)) = Depth(vm) - 1
      /\ \A j \in 1..Depth(vm) - 1 : Stack(Sdrop(vm))[j] = Stack(vm)[j]
  BY <1>2, <1>4, SdropIs
<1>6. Depth(Sdrop(vm)) >= Base /\ \A j \in 1..Base : j \in 1..Depth(vm) - 1
  BY <1>2, <1>3, <1>4, <1>5
<1>7. Compute(Sdrop(vm))
  BY DEF Drop
<1> QED  BY <1>5, <1>6, <1>7, ComputeStep

\* (local@) pushes a cell.
LEMMA FetchStep ==
  ASSUME Inv, NEW k \in Bound(Current.word), LocalFetch(k)
  PROVE  Inv' /\ OthersStay
<1>1. TaskInv(vm, calls[tp])
  BY InvNow
<1>2. /\ Current = calls[tp][Len(calls[tp])] /\ calls[tp] # <<>>
      /\ Framing(calls[tp][Len(calls[tp])])
  BY <1>1, BaseIs DEF LocalFetch
<1>3. LET c == calls[tp][Len(calls[tp])]
          j == Len(c.kept) + k
      IN  Index(vm.fp) + k = j + 2 /\ vm.cells[j + 2] = c.vars[k] /\ c.vars[k] \in Cells
  BY <1>1, <1>2, LocalIs, SMTT(30)
<1>4. vm.cells[Index(vm.fp) + k] \in Cells
  BY <1>3
<1> QED  BY <1>4, PushStep DEF LocalFetch

\* (local!).
LEMMA StoreStep ==
  ASSUME Inv, NEW k \in Bound(Current.word), LocalStore(k)
  PROVE  Inv' /\ OthersStay
<1> DEFINE s == calls[tp]
           z == Front(s) \o <<[s[Len(s)] EXCEPT !.vars[k] = vm.tos]>>
<1>1. TaskInv(vm, s) /\ Len(s) <= MaxCalls[tp] /\ DOMAIN calls = Tasks /\ tp \in Tasks
  BY InvNow
<1>2. Current = s[Len(s)] /\ s # <<>> /\ Framing(s[Len(s)]) /\ Depth(vm) > Floor(s)
  BY <1>1, BaseIs DEF LocalStore
<1>3. TaskInv([Sdrop(vm) EXCEPT !.cells[Index(vm.fp) + k] = vm.tos], z)
  <2>1. k \in Bound(s[Len(s)].word)
    BY <1>2
  <2> QED  BY <1>1, <1>2, <2>1, LocalStoreFits
<1>4. /\ vm' = [Sdrop(vm) EXCEPT !.cells[Index(vm.fp) + k] = vm.tos]
      /\ calls' = [calls EXCEPT ![tp] = z] /\ UNCHANGED <<tp, saved>>
  BY <1>2 DEF LocalStore
<1>5. Len(z) = Len(s)
  <2>1. s \in Seq(Calls)
    BY <1>1 DEF TaskInv
  <2>2. Len(s) \in Nat \ {0}
    BY <1>2, <2>1, EmptySeq
  <2>3. Front(s) \in Seq(Calls) /\ Len(Front(s)) = Len(s) - 1
    BY <2>1, <2>2 DEF Front
  <2>4. Len(z) = Len(Front(s)) + 1
    BY <2>3
  <2> HIDE DEF z, s
  <2> QED  BY <2>2, <2>3, <2>4
<1> HIDE DEF z
<1>6. /\ DOMAIN calls' = Tasks /\ calls'[tp] = z
      /\ \A t \in Tasks : t # tp => calls'[t] = calls[t]
  BY <1>1, <1>4
<1> QED  BY <1>1, <1>3, <1>4, <1>5, <1>6, RunFrame

\* Call.
LEMMA CallStep ==
  ASSUME Inv, NEW w \in Words, Call(w)
  PROVE  Inv' /\ OthersStay
<1> DEFINE s == calls[tp]
           z == Append(s, NewCall(vm, w))
<1>1. TaskInv(vm, s) /\ MaxCalls[tp] \in Nat /\ DOMAIN calls = Tasks /\ tp \in Tasks
  BY InvNow
<1>2. /\ vm' = Enter(w) /\ UNCHANGED <<tp, saved>> /\ Len(s) < MaxCalls[tp]
      /\ Len(Own) >= arguments[w]
  BY DEF Call
<1>3. calls' = [calls EXCEPT ![tp] = z]
  BY DEF Call, NewCall
<1>4. /\ vm \in Machines /\ s \in Seq(Calls) /\ Len(s) \in Nat
      /\ Floor(s) \in Nat /\ Floor(s) <= Depth(vm)
  BY <1>1, FloorIs
<1>5. Len(Own) = Depth(vm) - Floor(s)
  BY <1>1, BaseIs
<1>6. Depth(vm) \in Nat /\ arguments[w] \in Nat
  BY <1>4, StackIs, ContextAssumption
<1>7. Depth(vm) - arguments[w] >= Floor(s)
  BY <1>2, <1>4, <1>5, <1>6
<1>8. TaskInv(Enter(w), z)
  BY <1>1, <1>7, CallFits
<1>9. Len(z) = Len(s) + 1
  <2>1. arguments[w] <= Depth(vm)
    BY <1>4, <1>6, <1>7
  <2>2. NewCall(vm, w) \in Calls
    BY <1>4, <2>1, NewCallIs
  <2> QED  BY <1>4, <2>2
<1> HIDE DEF z
<1>10. Len(z) <= MaxCalls[tp]
  BY <1>1, <1>2, <1>4, <1>9
<1>11. /\ DOMAIN calls' = Tasks /\ calls'[tp] = z
       /\ \A t \in Tasks : t # tp => calls'[t] = calls[t]
  BY <1>1, <1>3
<1>12. TaskInv(vm', calls'[tp]) /\ Len(calls'[tp]) <= MaxCalls[tp]
  BY <1>2, <1>8, <1>10, <1>11
<1> QED  BY <1>2, <1>11, <1>12, RunFrame

\* Return, from a word or from the body of a task.
LEMMA ReturnStep ==
  ASSUME Inv, Return
  PROVE  Inv' /\ OthersStay
<1> DEFINE s == calls[tp]
           z == IF s # <<>> THEN Front(s) ELSE s
<1>1. /\ TaskInv(vm, s) /\ MaxCalls[tp] \in Nat /\ DOMAIN calls = Tasks /\ tp \in Tasks
      /\ Len(s) <= MaxCalls[tp]
  BY InvNow
<1>2. /\ vm' = Exit(vm.ip[2], vm.ip[3]) /\ UNCHANGED <<tp, saved>> /\ vm.ip # Terminate
      /\ calls' = [calls EXCEPT ![tp] = z]
  BY DEF Return, InWord
<1>3. TaskInv(vm', z)
  <2>1. CASE s # <<>>
    <3>1. TaskInv(Exit(vm.ip[2], vm.ip[3]), Front(s))
      BY <1>1, <2>1, ReturnFits
    <3> QED  BY <1>2, <2>1, <3>1
  <2>2. CASE s = <<>>
    <3>1. TaskInv(Exit(vm.ip[2], vm.ip[3]), <<>>)
      BY <1>1, <1>2, <2>2, BodyEnds
    <3> QED  BY <1>2, <2>2, <3>1
  <2> QED  BY <2>1, <2>2
<1>4. Len(z) <= MaxCalls[tp]
  <2>1. CASE s # <<>>
    <3>1. s \in Seq(Calls)
      BY <1>1 DEF TaskInv
    <3>2. Len(s) \in Nat \ {0}
      BY <2>1, <3>1, EmptySeq
    <3>3. Len(Front(s)) = Len(s) - 1
      BY <3>1, <3>2 DEF Front
    <3> HIDE DEF s
    <3> QED  BY <1>1, <2>1, <3>2, <3>3
  <2>2. CASE s = <<>>
    BY <1>1, <2>2
  <2> QED  BY <2>1, <2>2
<1> HIDE DEF z
<1>5. /\ DOMAIN calls' = Tasks /\ calls'[tp] = z
      /\ \A t \in Tasks : t # tp => calls'[t] = calls[t]
  BY <1>1, <1>2
<1>6. TaskInv(vm', calls'[tp]) /\ Len(calls'[tp]) <= MaxCalls[tp]
  BY <1>3, <1>4, <1>5
<1> QED  BY <1>2, <1>5, <1>6, RunFrame

\* abort where no exception block is entered.
LEMMA AbortStep ==
  ASSUME Inv, NEW n, Abort(n), tp # foreground \/ vm.ep = Nil
  PROVE  /\ Inv' /\ OthersStay
         /\ tp \notin alive' \/ (tp = foreground /\ Depth(vm') = 0)
<1>1. CASE Quit(n)
  <2>1. tp \notin alive'
    BY <1>1, InvNow DEF Inv, TypeInv, Quit, alive
  <2> QED  BY <1>1, <2>1, QuitFrame
<1>2. CASE ~ Quit(n)
  <2> DEFINE p == [vm EXCEPT !.cells = <<Junk>>, !.tos = Junk, !.returns = <<>>, !.ip = Terminate]
  <2>1. /\ tp = foreground /\ vm' = p /\ calls' = [calls EXCEPT ![tp] = <<>>]
        /\ UNCHANGED <<tp, saved>>
    BY <1>2 DEF Abort
  <2>2. /\ TaskInv(vm, calls[tp]) /\ MaxCalls[tp] \in Nat /\ DOMAIN calls = Tasks /\ tp \in Tasks
    BY InvNow
  <2>3. vm \in Machines
    BY <2>2, FloorIs
  <2>4. /\ p.cells = <<Junk>> /\ p.tos = Junk /\ p.ip = Terminate /\ p.returns = <<>>
        /\ p.fp = vm.fp /\ p.ep = vm.ep
    BY <2>3 DEF Machines
  <2>5. p \in Machines
    <3>1. /\ <<Junk>> \in Seq(Cells) /\ <<Junk>> # <<>> /\ <<>> \in Seq(ReturnCells)
          /\ Junk \in Cells /\ Terminate \in Threads
      BY CellTypes, EmptySeq
    <3> QED  BY <2>3, <2>4, <3>1 DEF Machines
  <2> HIDE DEF p
  <2>6. Depth(p) = 0
    <3>1. Len(<<Junk>>) = 1
      OBVIOUS
    <3> QED  BY <2>4, <3>1 DEF Depth
  <2>7. Level(<<>>, 0, p, Stack(p))
    BY <2>1, <2>4 DEF Level, EpFits, InTask
  <2>8. <<>> \in Seq(Calls) /\ Len(<<>>) = 0
    BY EmptySeq
  <2>9. TaskInv(p, <<>>)
    BY <2>5, <2>7, <2>8 DEF TaskInv
  <2>10. /\ DOMAIN calls' = Tasks /\ calls'[tp] = <<>>
         /\ \A t \in Tasks : t # tp => calls'[t] = calls[t]
    BY <2>1, <2>2
  <2>11. TaskInv(vm', calls'[tp]) /\ Len(calls'[tp]) <= MaxCalls[tp]
    BY <2>1, <2>2, <2>8, <2>9, <2>10
  <2> QED  BY <2>1, <2>6, <2>10, <2>11, RunFrame
<1> QED  BY <1>1, <1>2

\* An exception frame that is armed has an address.
LEMMA ArmedIs ==
  ASSUME NEW m, NEW s, TaskInv(m, s)
  PROVE  m.ep = Nil <=> Handler(s) = 0
<1>1. CASE Handler(s) = 0
  BY <1>1, HandlerArms
<1>2. CASE Handler(s) # 0
  <2> DEFINE n == Len(s[Handler(s)].returns) + 6
  <2>1. Handler(s) \in 1..Len(s) /\ m.ep = At(n)
    BY <1>2, HandlerArms
  <2>2. s[Handler(s)] \in Calls
    BY <2>1, FloorIs
  <2>3. Len(s[Handler(s)].returns) \in Nat
    BY <2>2, CallTypes
  <2>4. n \in Nat
    BY <2>3
  <2> HIDE DEF n
  <2>5. At(n) \in {"at"} \X Nat
    BY <2>4 DEF At
  <2> QED  BY <1>2, <2>1, <2>5, NilIsNoAddress
<1> QED  BY <1>1, <1>2

\* raise, with a handler and without.
LEMMA RaiseStep ==
  ASSUME Inv, NEW x \in Signals, NEW n, Raise(x, n)
  PROVE  /\ Inv' /\ OthersStay
         /\ LET i == Handler(calls[tp])
                c == calls[tp][i]
                k == Len(c.kept)
            IN  IF i = 0 THEN tp \notin alive' \/ (tp = foreground /\ Depth(vm') = 0)
                ELSE /\ vm'.ip = Code(c.word, "handler") /\ vm'.tos = x
                     /\ Depth(vm') = k + arguments[c.word] + 1
                     /\ SubSeq(Stack(vm'), 1, k) = c.kept
                     /\ vm'.fp = c.fp /\ vm'.ep = c.ep
                     /\ vm'.returns = Append(c.returns, c.ip)
<1> DEFINE s == calls[tp]
           i == Handler(s)
           c == s[i]
           z == SubSeq(s, 1, i - 1) \o <<[c EXCEPT !.at = "handler"]>>
           p == Restore(Spush(vm, x))
<1>1. /\ TaskInv(vm, s) /\ MaxCalls[tp] \in Nat /\ DOMAIN calls = Tasks /\ tp \in Tasks
      /\ Len(s) <= MaxCalls[tp]
  BY InvNow
<1>2. vm.ep = Nil <=> i = 0
  BY <1>1, ArmedIs
<1>3. CASE i = 0
  <2>1. Abort(n)
    BY <1>2, <1>3 DEF Raise
  <2> QED  BY <1>2, <1>3, <2>1, AbortStep
<1>4. CASE i # 0
  <2>1. /\ vm' = p /\ calls' = [calls EXCEPT ![tp] = z] /\ UNCHANGED <<tp, saved>>
    BY <1>2, <1>4 DEF Raise
  <2>2. x \in Cells
    BY CellTypes
  <2>3. /\ TaskInv(p, z) /\ Len(z) = i /\ i \in 1..Len(s)
        /\ p.ip = Code(c.word, "handler") /\ p.tos = x /\ p.fp = c.fp /\ p.ep = c.ep
        /\ Depth(p) = Len(c.kept) + arguments[c.word] + 1
        /\ SubSeq(Stack(p), 1, Len(c.kept)) = c.kept
        /\ p.returns = Append(c.returns, c.ip)
    <3>1. TaskInv(vm, s) /\ Handler(s) # 0
      BY <1>1, <1>4
    <3> HIDE DEF s
    <3> QED  BY <2>2, <3>1, RaiseFits, ZenonT(60)
  <2> HIDE DEF z, p
  <2>4. /\ DOMAIN calls' = Tasks /\ calls'[tp] = z
        /\ \A t \in Tasks : t # tp => calls'[t] = calls[t]
    BY <1>1, <2>1
  <2>5. Len(s) \in Nat
    BY <1>1, FloorIs
  <2>6. Len(z) <= MaxCalls[tp]
    <3> HIDE DEF i, s
    <3> QED  BY <1>1, <2>3, <2>5
  <2>7. TaskInv(vm', calls'[tp]) /\ Len(calls'[tp]) <= MaxCalls[tp]
    BY <2>1, <2>3, <2>4, <2>6
  <2>8. Inv' /\ OthersStay
    BY <2>1, <2>4, <2>7, RunFrame
  <2> QED  BY <1>4, <2>1, <2>3, <2>8
<1> QED  BY <1>3, <1>4

\* A task that detaches sees the same when it runs again.
LEMMA DetachStep ==
  ASSUME Inv, NEW n \in Tasks, Detach(n)
  PROVE  /\ Inv' /\ OthersStay
         /\ \A t \in Tasks : t = tp /\ tp' # tp => View(t)' = View(t)
<1> DEFINE m == Spush(vm, n)
<1>1. /\ TaskInv(vm, calls[tp]) /\ tp \in Tasks /\ DOMAIN calls = Tasks
      /\ \A t \in alive : t # tp =>
              t \in Tasks /\ TaskInv(Loaded(saved[t]), calls[t]) /\ Len(calls[t]) <= MaxCalls[t]
      /\ Len(calls[tp]) <= MaxCalls[tp] /\ tp \in alive
  BY InvNow
<1>2. vm \in Machines /\ Floor(calls[tp]) \in Nat /\ Floor(calls[tp]) <= Depth(vm) /\ n \in Cells
  BY <1>1, FloorIs, CellTypes
<1>3. /\ Sdrop(m) \in Machines /\ Registers(Sdrop(m)) = Registers(vm)
      /\ Depth(Sdrop(m)) = Depth(vm) /\ Stack(Sdrop(m)) = Stack(vm)
      /\ Loaded(Header(m)) \in Machines /\ Registers(Loaded(Header(m))) = Registers(vm)
      /\ Depth(Loaded(Header(m))) = Depth(vm) /\ Stack(Loaded(Header(m))) = Stack(vm)
  BY <1>2, PushDrop
<1> HIDE DEF m
<1>4. calls' = calls
  BY DEF Detach
<1>5. CASE n = tp
  <2>1. vm' = Sdrop(m) /\ UNCHANGED <<tp, saved>>
    BY <1>5 DEF Detach, m
  <2>2. Depth(Sdrop(m)) >= Base /\ \A j \in 1..Base : Stack(Sdrop(m))[j] = Stack(vm)[j]
    BY <1>1, <1>2, <1>3, BaseIs
  <2>3. Compute(Sdrop(m))
    BY <1>4, <2>1 DEF Compute
  <2> QED  BY <1>3, <2>1, <2>2, <2>3, ComputeStep
<1>6. CASE n # tp
  <2>1. n \in alive
    BY <1>6 DEF Detach
  <2>2. /\ tp' = n /\ vm' = Loaded(saved[n])
        /\ saved' = [t \in alive \ {n} |-> IF t = tp THEN Header(m) ELSE saved[t]]
    BY <1>6 DEF Detach, Leave, m
  <2>3. TaskInv(Loaded(Header(m)), calls[tp])
    BY <1>1, <1>2, <1>3, TaskStays
  <2>4. TaskInv(vm', calls'[n]) /\ Len(calls'[n]) <= MaxCalls[n]
    BY <1>1, <1>4, <1>6, <2>1, <2>2
  <2>5. DOMAIN calls' = Tasks /\ \A t \in Tasks : t # n => calls'[t] = calls[t]
    BY <1>1, <1>4
  <2>6. Inv' /\ OthersStay
    BY <1>6, <2>1, <2>2, <2>3, <2>4, <2>5, LeaveFrame
  <2>7. ASSUME NEW t \in Tasks, t = tp PROVE View(t)' = View(t)
    <3>1. saved'[t] = Header(m)
      BY <1>1, <1>6, <2>2, <2>7
    <3>2. Machine(t)' = Loaded(Header(m)) /\ Machine(t) = vm
      BY <1>6, <2>2, <2>7, <3>1 DEF Machine
    <3>3. View(t)' = LET l == Loaded(Header(m)) IN <<Stack(l), l.returns, l.ip, l.fp, l.ep>>
      BY <3>2 DEF View
    <3>4. View(t) = <<Stack(vm), vm.returns, vm.ip, vm.fp, vm.ep>>
      BY <3>2 DEF View
    <3> QED  BY <1>3, <3>3, <3>4 DEF Registers
  <2> QED  BY <2>6, <2>7
<1> QED  BY <1>5, <1>6

\* schedule.
LEMMA SpawnStep ==
  ASSUME Inv, NEW t \in Tasks, Spawn(t)
  PROVE  Inv' /\ OthersStay
<1> DEFINE m == Spush(vm, t)
           h == Header(Spush(Sdrop(Sdrop(Spush(m, tp))), t))
<1>1. /\ TaskInv(vm, calls[tp]) /\ tp \in Tasks /\ DOMAIN calls = Tasks /\ tp \in alive
  BY InvNow
<1>2. /\ vm \in Machines /\ Floor(calls[tp]) \in Nat /\ Floor(calls[tp]) <= Depth(vm)
      /\ t \in Cells /\ tp \in Cells
  BY <1>1, FloorIs, CellTypes
<1>3. /\ m \in Machines /\ Registers(m) = Registers(vm) /\ Depth(m) = Depth(vm) + 1
      /\ Stack(m) = Append(Stack(vm), t)
  BY <1>2, SpushIs
<1>4. /\ Depth(vm) \in Nat /\ Stack(vm) \in Seq(Cells) /\ Len(Stack(vm)) = Depth(vm)
      /\ \A j \in 1..Depth(vm) : Append(Stack(vm), t)[j] = Stack(vm)[j]
  BY <1>2, StackIs
<1>5. t \notin alive /\ t # tp
  BY <1>1 DEF Spawn
<1>6. /\ tp' = t
      /\ saved' = [u \in alive \ {t} |-> IF u = tp THEN h ELSE saved[u]]
      /\ vm' = Rpush(Spush(Loaded(NewTask(Code(main, "body"))), t), Terminate)
      /\ calls' = [calls EXCEPT ![t] = <<>>]
  BY DEF Spawn, Schedule, Leave
<1> HIDE DEF m
<1>7. /\ Loaded(h) \in Machines /\ Registers(Loaded(h)) = Registers(m)
      /\ Depth(Loaded(h)) = Depth(m) - 1
      /\ \A j \in 1..Depth(m) - 1 : Stack(Loaded(h))[j] = Stack(m)[j]
  <2>1. Depth(m) > 0
    BY <1>3, <1>4
  <2> QED  BY <1>2, <1>3, <2>1, ScheduledIs
<1> HIDE DEF h
<1>8. TaskInv(Loaded(h), calls[tp])
  <2>1. Depth(m) - 1 = Depth(vm)
    BY <1>3, <1>4
  <2>2. \A j \in 1..Floor(calls[tp]) : j \in 1..Depth(vm)
    BY <1>2, <1>4
  <2>3. /\ Registers(Loaded(h)) = Registers(vm) /\ Depth(Loaded(h)) >= Floor(calls[tp])
        /\ \A j \in 1..Floor(calls[tp]) : Stack(Loaded(h))[j] = Stack(vm)[j]
    BY <1>2, <1>3, <1>4, <1>7, <2>1, <2>2
  <2> QED  BY <1>1, <1>7, <2>3, TaskStays
<1>9. /\ DOMAIN calls' = Tasks /\ calls'[t] = <<>>
      /\ \A u \in Tasks : u # t => calls'[u] = calls[u]
  BY <1>1, <1>6
<1>10. TaskInv(vm', calls'[t]) /\ Len(calls'[t]) <= MaxCalls[t]
  <2>1. TaskInv(vm', <<>>)
    BY <1>6, NewTaskIs
  <2>2. Len(<<>>) = 0 /\ MaxCalls[t] \in Nat
    BY ContextAssumption
  <2> QED  BY <1>9, <2>1, <2>2
<1> QED  BY <1>5, <1>6, <1>8, <1>9, <1>10, LeaveFrame

\* fork.
LEMMA ForkStep ==
  ASSUME Inv, NEW t \in Tasks, ForkWherePossible(t)
  PROVE  Inv' /\ OthersStay
<1> DEFINE s == calls[tp]
           c == s[1]
           d == Sdrop(vm)
           again == Spush(d, d.tos)
           m == Spush(Spush(again, t), t)
           h == Header(Spush(Sdrop(Sdrop(Spush(m, tp))), t))
           p == [Rpush(Spush(Loaded(Header(d)), t), Terminate) EXCEPT !.tos = tp]
<1>1. /\ TaskInv(vm, s) /\ tp \in Tasks /\ DOMAIN calls = Tasks /\ tp \in alive
  BY InvNow
<1>2. /\ vm \in Machines /\ Floor(s) \in Nat /\ t \in Cells /\ tp \in Cells
      /\ s \in Seq(Calls)
  BY <1>1, FloorIs, CellTypes
<1>3. /\ Depth(vm) > Floor(s) /\ Depth(vm) >= 2 /\ Depth(vm) \in Nat
      /\ Current = s[Len(s)] /\ Len(s) = 1 /\ c.word \notin Framed \cup Protected
      /\ t \notin alive /\ t # tp
  <2>1. Own # <<>> /\ Depth(vm) >= 2 /\ Len(s) = 1 /\ Current.word \notin Framed \cup Protected
        /\ t \notin alive
    BY DEF ForkWherePossible, Fork
  <2>2. Depth(vm) > Floor(s) /\ Current = s[Len(s)]
    BY <1>1, <2>1, BaseIs
  <2>3. Depth(vm) \in Nat
    BY <1>2, StackIs
  <2> QED  BY <1>1, <2>1, <2>2, <2>3
<1>4. /\ tp' = t
      /\ saved' = [u \in alive \ {t} |-> IF u = tp THEN h ELSE saved[u]]
      /\ vm' = p
      /\ calls' = [calls EXCEPT ![t] = <<>>]
  BY DEF ForkWherePossible, Fork, Leave
<1>5. /\ d \in Machines /\ Registers(d) = Registers(vm) /\ Depth(d) = Depth(vm) - 1
      /\ \A j \in 1..Depth(vm) - 1 : Stack(d)[j] = Stack(vm)[j]
      /\ d.tos \in Cells
  <2>1. Depth(vm) > 0
    BY <1>3
  <2>2. d \in Machines
    BY <1>2, <2>1, SdropIs
  <2>3. d.tos \in Cells
    BY <2>2 DEF Machines
  <2> QED  BY <1>2, <2>1, <2>3, SdropIs
<1>6. /\ p \in Machines /\ p.ip = vm.ip /\ p.ep = vm.ep
      /\ p.returns = Append(vm.returns, Terminate)
  BY <1>1, <1>2, <1>3, ForkedIs
<1> HIDE DEF d, p
<1>7. /\ again \in Machines /\ Registers(again) = Registers(d) /\ Depth(again) = Depth(d) + 1
      /\ Stack(again) = Append(Stack(d), d.tos)
  BY <1>5, SpushIs
<1> HIDE DEF again
<1> DEFINE q == Spush(again, t)
<1>8. /\ q \in Machines /\ Registers(q) = Registers(again) /\ Depth(q) = Depth(again) + 1
      /\ Stack(q) = Append(Stack(again), t)
  BY <1>2, <1>7, SpushIs
<1> HIDE DEF q
<1>9. /\ m \in Machines /\ Registers(m) = Registers(q) /\ Depth(m) = Depth(q) + 1
      /\ Stack(m) = Append(Stack(q), t)
  BY <1>2, <1>8, SpushIs DEF q
<1> HIDE DEF m
<1>10. /\ Loaded(h) \in Machines /\ Registers(Loaded(h)) = Registers(m)
       /\ Depth(Loaded(h)) = Depth(m) - 1
       /\ \A j \in 1..Depth(m) - 1 : Stack(Loaded(h))[j] = Stack(m)[j]
  <2>1. Depth(m) > 0
    BY <1>3, <1>5, <1>7, <1>8, <1>9
  <2> QED  BY <1>2, <1>9, <2>1, ScheduledIs
<1> HIDE DEF h
<1>11. TaskInv(Loaded(h), s)
  <2>1. /\ Stack(d) \in Seq(Cells) /\ Len(Stack(d)) = Depth(vm) - 1
        /\ Stack(again) \in Seq(Cells) /\ Len(Stack(again)) = Depth(vm)
        /\ Stack(q) \in Seq(Cells) /\ Len(Stack(q)) = Depth(vm) + 1
        /\ Depth(m) = Depth(vm) + 2
    <3>1. /\ Stack(d) \in Seq(Cells) /\ Len(Stack(d)) = Depth(d)
          /\ Stack(again) \in Seq(Cells) /\ Len(Stack(again)) = Depth(again)
          /\ Stack(q) \in Seq(Cells) /\ Len(Stack(q)) = Depth(q)
      BY <1>5, <1>7, <1>8, StackIs
    <3>2. Depth(d) = Depth(vm) - 1 /\ Depth(again) = Depth(vm) /\ Depth(q) = Depth(vm) + 1
          /\ Depth(m) = Depth(vm) + 2
      BY <1>3, <1>5, <1>7, <1>8, <1>9
    <3> QED  BY <3>1, <3>2
  <2>2. \A j \in 1..Floor(s) : /\ j \in 1..Depth(vm) - 1 /\ j \in 1..Depth(vm)
                               /\ j \in 1..Depth(vm) + 1 /\ j \in 1..Depth(m) - 1
    BY <1>2, <1>3, <2>1
  <2>3. \A j \in 1..Depth(vm) - 1 : Append(Stack(d), d.tos)[j] = Stack(d)[j]
    BY <2>1
  <2>4. \A j \in 1..Depth(vm) : Append(Stack(again), t)[j] = Stack(again)[j]
    BY <2>1
  <2>5. \A j \in 1..Depth(vm) + 1 : Append(Stack(q), t)[j] = Stack(q)[j]
    BY <2>1
  <2>6. \A j \in 1..Floor(s) : Stack(Loaded(h))[j] = Stack(vm)[j]
    <3> TAKE j \in 1..Floor(s)
    <3>1. /\ j \in 1..Depth(vm) - 1 /\ j \in 1..Depth(vm)
          /\ j \in 1..Depth(vm) + 1 /\ j \in 1..Depth(m) - 1
      BY <2>2
    <3>2. Stack(Loaded(h))[j] = Stack(m)[j] /\ Stack(d)[j] = Stack(vm)[j]
      BY <1>5, <1>10, <3>1
    <3>3. Stack(m)[j] = Stack(q)[j] /\ Stack(q)[j] = Stack(again)[j] /\ Stack(again)[j] = Stack(d)[j]
      BY <1>7, <1>8, <1>9, <2>3, <2>4, <2>5, <3>1
    <3> QED  BY <3>2, <3>3
  <2>7. Depth(Loaded(h)) >= Floor(s)
    BY <1>2, <1>3, <1>10, <2>1
  <2>8. Registers(Loaded(h)) = Registers(vm)
    BY <1>5, <1>7, <1>8, <1>9, <1>10
  <2> QED  BY <1>1, <1>10, <2>6, <2>7, <2>8, TaskStays
<1>12. TaskInv(p, <<>>)
  <2>1. c \in Calls /\ ~ Armed(c) /\ c.at = "body" /\ c.word \in Words \ (Framed \cup Protected)
        /\ vm.ip = Code(c.word, c.at) /\ vm.ep = Nil
    <3>1. 1 \in 1..Len(s) /\ s[Len(s)] = c /\ Len(s) # 0
      BY <1>3
    <3>2. c \in Calls /\ c.at \in {"body", "handler"} /\ c.word \in Words
      <4>1. \A i \in 1..Len(s) : s[i] \in Calls
        BY <1>1, FloorIs
      <4>2. c \in Calls
        BY <3>1, <4>1
      <4> HIDE DEF c
      <4> QED  BY <4>2 DEF Calls
    <3>3. c.at = "handler" => c.word \in Protected
      BY <1>1, <3>1 DEF TaskInv
    <3>4. ~ Armed(c) /\ \A i \in 1..Len(s) : i = 1
      BY <1>3 DEF Armed
    <3>5. EpFits(s, Len(s), vm.ep) /\ InCall(s[Len(s)], vm)
      BY <1>1, <3>1 DEF TaskInv, Level
    <3>6. vm.ep = Nil
      BY <3>4, <3>5 DEF EpFits
    <3> QED  BY <1>3, <3>1, <3>2, <3>3, <3>4, <3>5, <3>6 DEF InCall
  <2>2. p.returns # <<>> /\ Last(p.returns) = Terminate
    <3>1. vm.returns \in Seq(ReturnCells)
      BY <1>2 DEF Machines
    <3> QED  BY <1>6, <3>1 DEF Last
  <2>3. InTask(p)
    BY <1>6, <2>1, <2>2 DEF InTask
  <2>4. Level(<<>>, 0, p, Stack(p))
    BY <1>6, <2>1, <2>3 DEF Level, EpFits
  <2>5. <<>> \in Seq(Calls) /\ Len(<<>>) = 0
    BY EmptySeq
  <2> QED  BY <1>6, <2>4, <2>5 DEF TaskInv
<1>13. /\ DOMAIN calls' = Tasks /\ calls'[t] = <<>>
       /\ \A u \in Tasks : u # t => calls'[u] = calls[u]
  BY <1>1, <1>4
<1>14. TaskInv(vm', calls'[t]) /\ Len(calls'[t]) <= MaxCalls[t]
  <2>1. Len(<<>>) = 0 /\ MaxCalls[t] \in Nat
    BY ContextAssumption
  <2> QED  BY <1>4, <1>12, <1>13, <2>1
<1> QED  BY <1>3, <1>4, <1>11, <1>13, <1>14, LeaveFrame

\* The foreground starts in the interpreter, with empty stacks.
LEMMA InitInv ==
  ASSUME Init
  PROVE  Inv
<1>1. tp \in Tasks /\ saved = <<>> /\ calls = [t \in Tasks |-> <<>>]
  BY ContextAssumption DEF Init
<1>2. DOMAIN saved = {}
  BY <1>1
<1>3. vm = [cells |-> <<Junk>>, ip |-> Terminate, returns |-> <<>>, fp |-> Nil, ep |-> Nil,
            tos |-> Junk]
  BY DEF Init, WithTos, NewTask
<1>4. vm \in Machines
  <2>1. /\ <<Junk>> \in Seq(Cells) /\ <<Junk>> # <<>> /\ <<>> \in Seq(ReturnCells)
        /\ Junk \in Cells /\ Terminate \in Threads /\ Nil \in Frames
    BY CellTypes, EmptySeq
  <2> QED  BY <1>3, <2>1 DEF Machines
<1>5. Level(<<>>, 0, vm, Stack(vm))
  BY <1>3 DEF Level, EpFits, InTask
<1>6. <<>> \in Seq(Calls) /\ Len(<<>>) = 0
  BY EmptySeq
<1>7. TaskInv(vm, <<>>)
  BY <1>4, <1>5, <1>6 DEF TaskInv
<1>8. alive = {tp} /\ Machine(tp) = vm /\ calls[tp] = <<>> /\ MaxCalls[tp] \in Nat
  BY <1>1, <1>2, ContextAssumption DEF alive, Machine
<1>9. TypeInv
  BY <1>1, <1>2 DEF TypeInv
<1> QED  BY <1>6, <1>7, <1>8, <1>9 DEF Inv

\* Every step keeps the invariant and what the other tasks see.
LEMMA StepInv ==
  ASSUME Inv, [Next]_vars, AbortsAnywhere = FALSE
  PROVE  Inv' /\ OthersStay
<1>1. CASE UNCHANGED vars
  <2>1. TaskInv(vm', calls'[tp]) /\ Len(calls'[tp]) <= MaxCalls[tp] /\ DOMAIN calls' = Tasks
    BY <1>1, InvNow DEF vars
  <2> QED  BY <1>1, <2>1, RunFrame DEF vars
<1>2. ASSUME NEW x \in Pushed[tp][Len(calls[tp])], Push(x) PROVE Inv' /\ OthersStay
  <2>1. tp \in Tasks /\ Len(calls[tp]) \in 0..MaxCalls[tp]
    <3>1. /\ tp \in Tasks /\ Len(calls[tp]) \in Nat /\ MaxCalls[tp] \in Nat
          /\ Len(calls[tp]) <= MaxCalls[tp]
      BY InvNow, FloorIs
    <3> QED  BY <3>1
  <2>2. x \in Cells
    BY <1>2, <2>1 DEF Cells, Pushable
  <2> QED  BY <1>2, <2>2, PushStep DEF Push
<1>3. CASE Drop
  BY <1>3, DropStep
<1>4. CASE InFrame /\ \E k \in Bound(Current.word) : LocalFetch(k) \/ LocalStore(k)
  BY <1>4, FetchStep, StoreStep
<1>5. CASE \E w \in Words : Call(w)
  BY <1>5, CallStep
<1>6. CASE Return
  BY <1>6, ReturnStep
<1>7. ASSUME NEW t \in Tasks, Detach(t) \/ Spawn(t) \/ ForkWherePossible(t) \/ EndOfTask(t)
      PROVE  Inv' /\ OthersStay
  <2>1. EndOfTask(t) => Quit(t)
    BY DEF EndOfTask
  <2> QED  BY <1>7, <2>1, DetachStep, SpawnStep, ForkStep, QuitFrame
<1>8. ASSUME NEW t \in Tasks, NEW s \in Signals, Raise(s, t) PROVE Inv' /\ OthersStay
  BY <1>8, RaiseStep
<1>9. ASSUME NEW t \in Tasks, CallAbort(t) PROVE Inv' /\ OthersStay
  BY <1>9, AbortStep DEF CallAbort
<1> QED  BY <1>1, <1>2, <1>3, <1>4, <1>5, <1>6, <1>7, <1>8, <1>9 DEF Next

\* Locals lie below the stack pointer of their frame, so they are in memory.
LEMMA LocalsFit ==
  ASSUME Inv
  PROVE  LocalsKept
<1> SUFFICES ASSUME NEW t \in alive, NEW i \in 1..Len(calls[t]), Framing(calls[t][i]),
                    NEW k \in Bound(calls[t][i].word)
             PROVE  Machine(t).cells[FrameOf(calls[t][i]) + k] = calls[t][i].vars[k]
  BY DEF LocalsKept, Framing
<1> DEFINE s == calls[t]
           c == s[i]
           m == Machine(t)
           n == Len(c.kept)
<1>1. TaskInv(m, s)
  BY DEF Inv
<1>2. m \in Machines /\ c \in Calls /\ Len(s) \in Nat
  BY <1>1, FloorIs
<1>3. KeptIn(c, Stack(m))
  BY <1>1 DEF TaskInv, Level
<1>4. Stack(m)[n + k] = c.vars[k] /\ Len(Stack(m)) >= BaseOf(c)
  BY <1>3 DEF KeptIn
<1>5. /\ n \in Nat /\ arguments[c.word] \in Nat /\ locals[c.word] \in Nat
      /\ BaseOf(c) = n + arguments[c.word] + locals[c.word] + 1
  BY <1>2, CallTypes
<1>6. /\ Depth(m) \in Nat /\ Len(Stack(m)) = Depth(m)
      /\ \A j \in 1..Depth(m) : Stack(m)[j] = IF j = Depth(m) THEN m.tos ELSE m.cells[j + 2]
  BY <1>2, StackIs
<1>7. k \in 1..arguments[c.word] + locals[c.word]
  BY DEF Bound
<1> HIDE DEF n, c, m
<1>8. n + k \in 1..Depth(m) /\ n + k # Depth(m) /\ n + 2 + k = n + k + 2
  BY <1>4, <1>5, <1>6, <1>7
<1>9. Stack(m)[n + k] = m.cells[n + k + 2]
  BY <1>6, <1>8
<1>10. m.cells[n + 2 + k] = c.vars[k]
  BY <1>4, <1>8, <1>9
<1> QED  BY <1>10 DEF n, c, m, FrameOf

\* A return to a caller.
LEMMA ReturnFitsCaller ==
  ASSUME Inv, Return, InWord
  PROVE  /\ Stack(vm') = Current.kept \o Own
         /\ vm'.ip = Current.ip /\ vm'.fp = Current.fp /\ vm'.ep = Current.ep
         /\ vm'.returns = Current.returns
<1> DEFINE s == calls[tp]
<1>1. TaskInv(vm, s) /\ s # <<>>
  BY InvNow DEF InWord
<1>2. vm' = Exit(vm.ip[2], vm.ip[3])
  BY DEF Return
<1>3. Base = Floor(s) /\ Current = Last(s)
  BY <1>1, BaseIs DEF Current
<1>4. LET c == Last(s)
          p == Exit(vm.ip[2], vm.ip[3])
      IN  /\ p.ip = c.ip /\ p.fp = c.fp /\ p.ep = c.ep /\ p.returns = c.returns
          /\ Stack(p) = c.kept \o SubSeq(Stack(vm), Floor(s) + 1, Depth(vm))
  <2> HIDE DEF s
  <2> QED  BY <1>1, ReturnFits
<1>5. Own = SubSeq(Stack(vm), Floor(s) + 1, Depth(vm))
  BY <1>3 DEF Own
<1> HIDE DEF s
<1> QED  BY <1>2, <1>3, <1>4, <1>5

\* Steps between which a task is suspended, or that suspend it.
LEMMA SwitchFits ==
  ASSUME Inv, [Next]_vars, AbortsAnywhere = FALSE, NEW t \in alive \cap alive',
         t # tp \/ (tp' # tp /\ alive' = alive)
  PROVE  View(t)' = View(t)
<1>1. CASE t # tp
  <2>1. Machine(t)' = Machine(t)
    BY <1>1, StepInv DEF OthersStay
  <2> QED  BY <2>1 DEF View
<1>2. CASE t = tp
  <2>1. tp' # tp /\ alive' = alive /\ tp \in Tasks /\ tp \in alive
    BY <1>2, InvNow
  <2>2. ASSUME NEW n \in Tasks, Detach(n) PROVE View(t)' = View(t)
    BY <1>2, <2>1, <2>2, DetachStep
  <2>3. ASSUME NEW n, Quit(n) PROVE FALSE
    <3>1. tp \notin alive'
      BY <2>3, InvNow DEF Inv, TypeInv, Quit, alive
    <3> QED  BY <2>1, <3>1
  <2>4. ASSUME NEW n \in Tasks, Spawn(n) \/ ForkWherePossible(n) PROVE FALSE
    <3>1. n \notin alive /\ tp' = n
      BY <2>4 DEF Spawn, Schedule, ForkWherePossible, Fork, Leave
    <3> QED  BY <2>1, <3>1 DEF alive
  <2>5. ASSUME NEW n, Abort(n) PROVE FALSE
    BY <2>1, <2>3, <2>5 DEF Abort
  <2>6. \E n \in Tasks : Detach(n) \/ Spawn(n) \/ ForkWherePossible(n) \/ EndOfTask(n)
                         \/ Abort(n)
    BY <2>1 DEF Next, vars, Push, Drop, LocalFetch, LocalStore, Compute, Call, Return, Raise,
             CallAbort
  <2> QED  BY <2>2, <2>3, <2>4, <2>5, <2>6 DEF EndOfTask
<1> QED  BY <1>1, <1>2

----------------------------------------------------------------------------
\* The stacks of every task hold the frames of exactly the calls it is in, each
\* chained to the one around it: the entries, ends, exceptions, task switches,
\* schedules and forks of kernel.c and multi-tasking.v together keep that, as long
\* as no word calls abort under an exception block.
THEOREM ContextsKept == ASSUME AbortsAnywhere = FALSE PROVE Spec => []Inv
<1>1. Init => Inv
  BY InitInv
<1>2. Inv /\ [Next]_vars => Inv'
  BY StepInv
<1> QED  BY <1>1, <1>2, PTL DEF Spec

\* Locals hold what was stored in them until their word ends, whatever the words
\* it calls and the other tasks do (locals.v, (local@) and (local!)).
THEOREM LocalsSurvive == ASSUME AbortsAnywhere = FALSE PROVE Spec => []LocalsKept
<1>1. Inv => LocalsKept
  BY LocalsFit
<1> QED  BY <1>1, ContextsKept, PTL

\* A word gives its caller the results on top of what it kept, and its own fp, ep,
\* return stack and place ((unlink), (exception;) and semicolon).
THEOREM WordsReturn == ASSUME AbortsAnywhere = FALSE PROVE Spec => ReturnsToCaller
<1>1. Inv => (Return /\ InWord =>
       /\ Stack(vm') = Current.kept \o Own
       /\ vm'.ip = Current.ip /\ vm'.fp = Current.fp /\ vm'.ep = Current.ep
       /\ vm'.returns = Current.returns)
  BY ReturnFitsCaller
<1> QED  BY <1>1, ContextsKept, PTL DEF ReturnsToCaller

\* raise reaches the innermost armed handler with its caller's stack and registers
\* restored, or aborts the task when there is none (doraise).
THEOREM SignalsAreCaught == ASSUME AbortsAnywhere = FALSE PROVE Spec => RaiseReachesHandler
<1>1. Inv => (\A s \in Signals, t \in Tasks : Raise(s, t) =>
       LET i == Handler(calls[tp])
           c == calls[tp][i]
           n == Len(c.kept)
       IN  IF i = 0 THEN tp \notin alive' \/ (tp = foreground /\ Depth(vm') = 0)
           ELSE /\ vm'.ip = Code(c.word, "handler") /\ vm'.tos = s
                /\ Depth(vm') = n + arguments[c.word] + 1
                /\ SubSeq(Stack(vm'), 1, n) = c.kept
                /\ vm'.fp = c.fp /\ vm'.ep = c.ep
                /\ vm'.returns = Append(c.returns, c.ip))
  BY RaiseStep
<1> QED  BY <1>1, ContextsKept, PTL DEF RaiseReachesHandler

\* A task finds its stacks and registers as it left them (doresume): no step of
\* another task disturbs them, and suspending and resuming it is no step at all.
THEOREM TasksAreApart == ASSUME AbortsAnywhere = FALSE PROVE Spec => SwitchPreserves
<1>1. Inv /\ [Next]_vars => \A t \in (alive \cap alive') :
        t # tp \/ (tp' # tp /\ alive' = alive) => View(t)' = View(t)
  BY SwitchFits
<1> QED  BY <1>1, ContextsKept, PTL DEF SwitchPreserves, Spec

\* ep never points above the return stack (exceptions.v): what the run of
\* MCDeadHandler.cfg refutes holds when abort is not called under an exception
\* block, so that call is all that is wrong.
THEOREM HandlersAreOnStack == ASSUME AbortsAnywhere = FALSE PROVE Spec => []ArmedFrameExists
<1>1. Inv => ArmedFrameExists
  <2> SUFFICES ASSUME Inv, vm.ep # Nil PROVE Index(vm.ep) <= Len(vm.returns)
    BY DEF ArmedFrameExists
  <2> DEFINE s == calls[tp]
             n == Len(s[Handler(s)].returns) + 6
  <2>1. TaskInv(vm, s)
    BY InvNow
  <2>2. Handler(s) # 0
    BY <2>1, ArmedIs
  <2>3. Handler(s) \in 1..Len(s) /\ vm.ep = At(n) /\ n <= Len(vm.returns)
    BY <2>1, <2>2, HandlerArms
  <2>4. s[Handler(s)] \in Calls
    BY <2>1, <2>3, FloorIs
  <2>5. n \in Nat
    BY <2>4, CallTypes
  <2> HIDE DEF n
  <2>6. Index(At(n)) = n
    BY <2>5, CellTypes
  <2> QED  BY <2>3, <2>6
<1> QED  BY <1>1, ContextsKept, PTL
=============================================================================
