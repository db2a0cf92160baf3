---------------------------- MODULE StackMachine ----------------------------
(***************************************************************************)
(* The registers and stacks of the virtual machine, and the macros of      *)
(* src/kernel.h that work on them.  A machine is a record of               *)
(*                                                                         *)
(*   cells    memory of the parameter stack, from the cell at s0 up to the *)
(*            one at sp: the address sp is Len(cells)                      *)
(*   tos      the top of the parameter stack, which is in a register       *)
(*   returns  the return stack, its top last: the address rp is Len(returns) *)
(*   ip       where the machine is: in a part of a word's code, or at      *)
(*            Terminate                                                    *)
(*   fp, ep   frame pointers: At(an address) or Nil                        *)
(*                                                                         *)
(* Memory that was popped keeps its contents in the machine; here a cell   *)
(* is Junk when the stack grows over it without a push.                    *)
(***************************************************************************)
EXTENDS Integers, SequencesExt

CONSTANTS Nil,          \* a null pointer
          Terminate,    \* the thread that calls terminate
          Junk          \* contents of memory that nobody wrote, or left behind

\* A frame pointer that is set is the address of a cell (see At), never null.
ASSUME NilIsNoAddress == Nil \notin {"at"} \X Nat

At(i) == <<"at", i>>
Index(a) == a[2]
Code(w, part) == <<"code", w, part>>

\* The cells of the program, the top last.  The top of an empty stack is not
\* defined; the first push writes it to the cell next to s0.
Depth(m) == Len(m.cells) - 1
Stack(m) == [i \in 1..Depth(m) |-> IF i = Depth(m) THEN m.tos ELSE m.cells[i + 2]]

\* The stack pointer is set to address s.
Resized(cells, s) == [i \in 1..s |-> IF i <= Len(cells) THEN cells[i] ELSE Junk]

Spush(m, x)  == [m EXCEPT !.cells = Append(@, IF Depth(m) > 0 THEN m.tos ELSE Junk),
                          !.tos = x]
Sdrop(m)     == [m EXCEPT !.cells = Front(@), !.tos = Last(m.cells)]
Rpush(m, x)  == [m EXCEPT !.returns = Append(@, x)]
Rdrop(m, n)  == [m EXCEPT !.returns = SubSeq(@, 1, Len(@) - n)]
Semicolon(m) == [Rdrop(m, 1) EXCEPT !.ip = Last(m.returns)]

\* (link): the caller's fp goes onto the stack, above the arguments; locals
\* take the cells after it.
Link(m, arguments, locals) ==
  LET p == Spush(m, m.fp)
      s == Len(p.cells) + locals
  IN  Rpush([p EXCEPT !.fp = At(Len(p.cells) - arguments), !.cells = Resized(@, s)], At(s))

\* Mutant of (unlink): the results overwrite the cell under the frame.
UnlinkTooLow(m) ==
  LET t == Index(Last(m.returns))
      s == Index(m.fp)
      p == Rdrop(m, 1)
  IN  IF Len(m.cells) = t
      THEN Sdrop([p EXCEPT !.cells = Resized(@, s), !.fp = m.tos])
      ELSE [p EXCEPT !.fp = m.cells[t + 1],
                     !.cells = Resized(@, s - 1) \o SubSeq(@, t + 2, Len(@))]

\* (unlink): without results tos is the caller's fp; else the results are
\* moved down over the frame, all but the last, which stays in tos.
Unlink(m) ==
  LET t == Index(Last(m.returns))
      s == Index(m.fp)
      p == Rdrop(m, 1)
  IN  IF Len(m.cells) = t
      THEN Sdrop([p EXCEPT !.cells = Resized(@, s), !.fp = m.tos])
      ELSE [p EXCEPT !.fp = m.cells[t + 1],
                     !.cells = Resized(@, s) \o SubSeq(@, t + 2, Len(@))]

\* (exception>), with the address of the body pushed and popped.
Catch(m, body, handler) ==
  LET r == m.returns \o <<m.tos, At(Len(m.cells)), handler, m.fp, m.ep>>
  IN  [m EXCEPT !.returns = r, !.ep = At(Len(r)), !.ip = body]

\* (exception;)
Throw(m) == Semicolon(Rdrop([m EXCEPT !.ep = Last(m.returns)], 5))

\* Mutant of raise: the frame of the word that raised stays bound.
RestoreWithoutFp(m) ==
  LET r == SubSeq(m.returns, 1, Index(m.ep))
      n == Len(r)
  IN  Spush([m EXCEPT !.ep = r[n], !.ip = r[n - 2],
                      !.cells = Resized(@, Index(r[n - 3])), !.tos = r[n - 4],
                      !.returns = SubSeq(r, 1, n - 5)],
            m.tos)

\* raise, when there is an exception frame; the signal is in tos, so that what
\* was on top before is back in memory when sp is set.
Restore(m) ==
  LET r == SubSeq(m.returns, 1, Index(m.ep))
      n == Len(r)
  IN  Spush([m EXCEPT !.ep = r[n], !.fp = r[n - 1], !.ip = r[n - 2],
                      !.cells = Resized(@, Index(r[n - 3])), !.tos = r[n - 4],
                      !.returns = SubSeq(r, 1, n - 5)],
            m.tos)
=============================================================================
