-------------------------- MODULE ControlStructures --------------------------
(***************************************************************************)
(* Control structures in colon definitions: what the immediate words of    *)
(* src/kernel.c (if, begin, do, case, ...) compile, with the marks they     *)
(* leave on the stack for each other, and how the branches and loop frames *)
(* of src/compiler.v then execute.  A run of the model compiles one        *)
(* definition, word by word, and executes it any number of times.          *)
(*                                                                         *)
(* The program's own words appear only where a structure needs a value on  *)
(* the stack: they are the instruction "push" in front of it.  What they   *)
(* push, and with it the outcome of every test, is left open.              *)
(***************************************************************************)
EXTENDS Integers, SequencesExt

CONSTANTS MaxWords      \* bound: words in a definition

ASSUME BoundAssumption == MaxWords \in Nat

VARIABLES code,      \* the cells of the definition, from dp at the colon on
          stack,     \* parameter stack while compiling, the top last
          phase,     \* what goes on
          ip,        \* machine: the address of the next instruction
          returns,   \* machine: return stack, the top last
          depth,     \* machine: cells the definition has on the parameter stack
          text,      \* history: the words of the definition, in order
          starts,    \* history: where the code of each word begins
          test       \* history: the flag or limit tested last

compiled == <<code, stack, text, starts>>
machine == <<ip, returns, depth, test>>
vars == <<code, stack, phase, ip, returns, depth, text, starts, test>>

\* An instruction, or the offset of a branch.
Op(name) == [op |-> name, offset |-> 0]
Offset(d) == [op |-> "offset", offset |-> d]

\* On the stack while compiling: an address in the code or a number, and the
\* set of words that may follow.
Address(a) == [follow |-> {}, at |-> a]
Follow(words) == [follow |-> words, at |-> 0]

\* On the return stack: the caller's address, the index and the limit of a loop.
Caller == -1
Index == -2
Limit == -3

Init == /\ code = <<>> /\ stack = <<>> /\ text = <<>> /\ starts = <<>>
        /\ phase = "interpret"
        /\ ip = 0 /\ returns = <<>> /\ depth = 0 /\ test = FALSE

\* The program's stack has a zero at its top when the definition begins.
Colon ==
  /\ phase = "interpret"
  /\ code' = <<>> /\ stack' = <<Address(0)>> /\ text' = <<>> /\ starts' = <<>>
  /\ phase' = "compile"
  /\ UNCHANGED machine

----------------------------------------------------------------------------
(* Compiling.  A compiler c is the record of dictionary and stack.          *)

Compiler == [code |-> code, stack |-> stack]

Thread(c, ops) == [c EXCEPT !.code = @ \o [k \in DOMAIN ops |-> Op(ops[k])]]
Here(c) == Address(Len(c.code) + 1)
PushOn(c, x) == [c EXCEPT !.stack = Append(@, x)]
Pop(c) == [c EXCEPT !.stack = Front(@)]
Swap(c) == LET n == Len(c.stack)
           IN  [c EXCEPT !.stack = Front(Front(@)) \o <<@[n], @[n - 1]>>]

\* >mark and <mark
ForwardMark(c) == LET d == PushOn(c, Here(c)) IN [d EXCEPT !.code = Append(@, Offset(0))]
BackwardMark(c) == PushOn(c, Here(c))

\* >resolve and <resolve
ForwardResolve(c) ==
  LET a == Last(c.stack).at
  IN  [Pop(c) EXCEPT !.code[a].offset = Here(c).at - a]
BackwardResolve(c) ==
  LET a == Last(c.stack).at
  IN  [Pop(c) EXCEPT !.code = Append(@, Offset(a - Here(c).at))]

\* Forward marks down to the zero that case left.
ResolveToZero(c) ==
  LET n == Len(c.stack)
      zero == Max({k \in 1..n : c.stack[k].at = 0})
      resolved[k \in zero..n] == IF k = n THEN c ELSE ForwardResolve(resolved[k + 1])
  IN  resolved[zero]

----------------------------------------------------------------------------
(* The words.  What stands in front of a word is what the program pushes    *)
(* for it.  The word ; is "semicolon", and compiles "(semicolon)".          *)

DoCompile(c) == PushOn(BackwardMark(ForwardMark(Thread(c, <<"push", "push", "(do)">>))),
                       Follow({"loop", "+loop"}))
QDoCompile(c) == PushOn(BackwardMark(ForwardMark(Thread(c, <<"push", "push", "(?do)">>))),
                        Follow({"loop", "+loop"}))
LoopCompile(c) == ForwardResolve(BackwardResolve(Thread(c, <<"(loop)">>)))
PlusLoopCompile(c) == ForwardResolve(BackwardResolve(Thread(c, <<"push", "(+loop)">>)))

IfCompile(c) == PushOn(ForwardMark(Thread(c, <<"push", "(?branch)">>)), Follow({"else", "then"}))

\* Mutant of else: its own branch is resolved in place of that of if.
ElseUnswapped(c) == PushOn(ForwardResolve(ForwardMark(Thread(c, <<"(branch)">>))), Follow({"then"}))

ElseCompile(c) ==
  PushOn(ForwardResolve(Swap(ForwardMark(Thread(c, <<"(branch)">>)))), Follow({"then"}))
ThenCompile(c) == ForwardResolve(c)

CaseCompile(c) == PushOn(PushOn(Thread(c, <<"push">>), Address(0)), Follow({"of", "endcase"}))
OfCompile(c) ==
  PushOn(Thread(ForwardMark(Thread(c, <<"push", "over", "=", "(?branch)">>)), <<"drop">>),
         Follow({"endof"}))
EndOfCompile(c) ==
  PushOn(ForwardResolve(Swap(ForwardMark(Thread(c, <<"(branch)">>)))), Follow({"of", "endcase"}))
EndCaseCompile(c) == Pop(ResolveToZero(Thread(c, <<"drop">>)))

BeginCompile(c) == PushOn(BackwardMark(c), Follow({"again", "until", "while"}))
UntilCompile(c) == BackwardResolve(Thread(c, <<"push", "(?branch)">>))
WhileCompile(c) == PushOn(ForwardMark(Thread(c, <<"push", "(?branch)">>)), Follow({"repeat"}))
RepeatCompile(c) == ForwardResolve(BackwardResolve(Swap(Thread(c, <<"(branch)">>))))
AgainCompile(c) == BackwardResolve(Thread(c, <<"(branch)">>))

TailRecurseCompile(c) == BackwardResolve(Thread(PushOn(c, Address(1)), <<"(branch)">>))

Openers == {"do", "?do", "if", "case", "begin"}
Checked == {"loop", "+loop", "else", "then", "of", "endof", "endcase",
            "until", "while", "repeat", "again"}
Plain == {"leave", "exit", "tail-recurse"}

Compiled(w, c) ==
  CASE w = "do" -> DoCompile(c)       [] w = "?do" -> QDoCompile(c)
    [] w = "loop" -> LoopCompile(c)   [] w = "+loop" -> PlusLoopCompile(c)
    [] w = "if" -> IfCompile(c)       [] w = "else" -> ElseCompile(c)
    [] w = "then" -> ThenCompile(c)   [] w = "case" -> CaseCompile(c)
    [] w = "of" -> OfCompile(c)       [] w = "endof" -> EndOfCompile(c)
    [] w = "endcase" -> EndCaseCompile(c)
    [] w = "begin" -> BeginCompile(c) [] w = "until" -> UntilCompile(c)
    [] w = "while" -> WhileCompile(c) [] w = "repeat" -> RepeatCompile(c)
    [] w = "again" -> AgainCompile(c)
    [] w = "leave" -> Thread(c, <<"leave">>)
    [] w = "exit" -> Thread(c, <<"(semicolon)">>)
    [] w = "tail-recurse" -> TailRecurseCompile(c)

Becomes(w, c) ==
  /\ code' = c.code /\ stack' = c.stack
  /\ text' = Append(text, w) /\ starts' = Append(starts, Len(code) + 1)

\* docheck: the top of the stack tells what may follow.  If w may not, the
\* definition is aborted.
Check(w, c) == w \in Last(c.stack).follow

----------------------------------------------------------------------------
(* The text: which words belong together.  This is what the manual says of  *)
(* the forms the words are used in, and nothing here looks at the code.     *)

Opening == Openers \cup {"of"}
Closing == Checked \ {"else", "of", "while"}

Level(k) == Cardinality({j \in 1..k : text[j] \in Opening})
            - Cardinality({j \in 1..k : text[j] \in Closing})

\* The structures open after word k, by the word that opened them.
Open(k) == {j \in 1..k : text[j] \in Opening /\ \A i \in j..k : Level(i) >= Level(j)}

Loops(k) == {j \in Open(k) : text[j] \in {"do", "?do"}}
Cases(k) == {j \in Open(k) : text[j] = "case"}

\* The word that ends the structure which word k opens or goes on with.
End(k) == Min({j \in k + 1..Len(text) : Level(j) = Level(k) - 1})

\* The word that opened the structure which word k ends.
Begin(k) == Max({j \in 1..k - 1 : text[j] \in Opening /\ Level(j) = Level(k) + 1})

FalsePart(k) ==
  LET elses == {j \in k + 1..End(k) - 1 : text[j] = "else" /\ Level(j) = Level(k)}
  IN  IF elses = {} THEN End(k) ELSE Min(elses)

\* The word to go on with after word k, when its test gave flag.
Successor(k, flag) ==
  CASE text[k] = "if" /\ ~flag -> FalsePart(k) + 1
    [] text[k] \in {"else", "endof"} -> End(k) + 1
    [] text[k] = "?do" /\ flag -> End(k) + 1
    [] text[k] \in {"of", "while"} /\ ~flag -> End(k) + 1
    [] text[k] = "until" /\ ~flag -> Begin(k) + 1
    [] text[k] \in {"loop", "+loop"} /\ flag -> Begin(k) + 1
    [] text[k] \in {"repeat", "again"} -> Begin(k) + 1
    [] text[k] = "leave" -> End(Max(Loops(k))) + 1
    [] text[k] = "tail-recurse" -> 1
    [] OTHER -> k + 1

----------------------------------------------------------------------------
(* Actions of the compiler.                                                 *)

\* There is room for n words and for those that end what is open.
Room(n) == phase = "compile" /\ Len(text) + Cardinality(Open(Len(text))) + n <= MaxWords

Opens(w) == /\ Room(2)
            /\ Becomes(w, Compiled(w, Compiler))
            /\ UNCHANGED <<machine, phase>>

Continues(w) == /\ Room(CASE w = "of" -> 2 [] w \in {"else", "while"} -> 1 [] OTHER -> 0)
                /\ Check(w, Compiler)
                /\ Becomes(w, Compiled(w, Pop(Compiler)))
                /\ UNCHANGED <<machine, phase>>

\* An illegal control structure: abort empties the stack.
Fails(w) == /\ phase = "compile" /\ ~Check(w, Compiler)
            /\ stack' = <<>> /\ phase' = "interpret"
            /\ UNCHANGED <<code, text, starts, machine>>

\* The manual's conditions: leave within a loop, exit outside; a word with a
\* value of case on the stack drops it before it leaves, which is not modelled.
Allowed(w) ==
  LET n == Len(text)
  IN  CASE w = "leave" -> Loops(n) # {} /\ \A k \in Cases(n) : k < Max(Loops(n))
        [] w \in {"exit", "tail-recurse"} -> Loops(n) \cup Cases(n) = {}

Threads(w) == /\ Room(1) /\ Allowed(w)
              /\ Becomes(w, Compiled(w, Compiler))
              /\ UNCHANGED <<machine, phase>>

\* ; does not look at the marks: the program has ended what it began.
Semicolon ==
  /\ phase = "compile" /\ Open(Len(text)) = {}
  /\ Becomes("semicolon", Thread(Compiler, <<"(semicolon)">>))
  /\ phase' = "interpret"
  /\ UNCHANGED machine

----------------------------------------------------------------------------
(* The machine.  While an instruction executes, the machine's pointer is    *)
(* behind it, at the offset if there is one: here at Operand.               *)

Execute ==
  /\ phase = "interpret" /\ text # <<>> /\ Last(text) = "semicolon"
  /\ phase' = "execute" /\ ip' = 1 /\ returns' = <<Caller>> /\ depth' = 0 /\ test' = FALSE
  /\ UNCHANGED compiled

At(op) == phase = "execute" /\ code[ip].op = op
Operand == ip + 1
Target(a) == a + code[a].offset
Same == UNCHANGED <<compiled, phase>>

Push == /\ At("push") \/ At("over")
        /\ ip' = ip + 1 /\ depth' = depth + 1
        /\ Same /\ UNCHANGED <<returns, test>>

Consume == /\ At("drop") \/ At("=")
           /\ ip' = ip + 1 /\ depth' = depth - 1
           /\ Same /\ UNCHANGED <<returns, test>>

Branch == At("(branch)") /\ ip' = Target(Operand) /\ Same /\ UNCHANGED <<returns, depth, test>>

QBranch(flag) ==
  /\ At("(?branch)")
  /\ ip' = IF flag THEN Operand + 1 ELSE Target(Operand)
  /\ depth' = depth - 1 /\ test' = flag
  /\ Same /\ UNCHANGED returns

EnterLoop == /\ ip' = Operand + 1
             /\ returns' = returns \o <<Operand, Index, Limit>>

\* (do) and, when index and limit differ, (?do)
ParenDo == /\ At("(do)") \/ At("(?do)")
           /\ EnterLoop
           /\ depth' = depth - 2 /\ test' = FALSE /\ Same

\* (?do) with equal index and limit
ParenQDo == /\ At("(?do)")
            /\ ip' = Target(Operand)
            /\ depth' = depth - 2 /\ test' = TRUE /\ Same /\ UNCHANGED returns

\* (loop), (+loop): the index is in range, or the frame goes.
ParenLoop(more) ==
  /\ At("(loop)") \/ At("(+loop)")
  /\ IF more THEN ip' = Target(Operand) /\ UNCHANGED returns
     ELSE ip' = Operand + 1 /\ returns' = SubSeq(returns, 1, Len(returns) - 3)
  /\ depth' = IF At("(+loop)") THEN depth - 1 ELSE depth
  /\ test' = more /\ Same

\* Mutant of leave: the frame's address is read but not popped.
LeaveKeepsAddress ==
  /\ At("leave")
  /\ LET n == Len(returns) - 2 IN ip' = Target(returns[n]) /\ returns' = SubSeq(returns, 1, n)
  /\ Same /\ UNCHANGED <<depth, test>>

Leave ==
  /\ At("leave")
  /\ LET n == Len(returns) - 2 IN ip' = Target(returns[n]) /\ returns' = SubSeq(returns, 1, n - 1)
  /\ Same /\ UNCHANGED <<depth, test>>

Return ==
  /\ At("(semicolon)")
  /\ ip' = Last(returns) /\ returns' = Front(returns)
  /\ phase' = IF Last(returns) = Caller THEN "interpret" ELSE phase
  /\ UNCHANGED <<compiled, depth, test>>

----------------------------------------------------------------------------
Next ==
  \/ Colon \/ Semicolon \/ Execute
  \/ \E w \in Openers : Opens(w)
  \/ \E w \in Checked : Continues(w) \/ Fails(w)
  \/ \E w \in Plain : Threads(w)
  \/ Push \/ Consume \/ Branch \/ ParenDo \/ ParenQDo \/ Leave \/ Return
  \/ \E flag \in BOOLEAN : QBranch(flag) \/ ParenLoop(flag)

Spec == Init /\ [][Next]_vars

----------------------------------------------------------------------------
(* Properties.                                                              *)

WordAt(a) == Max({k \in DOMAIN starts : starts[k] <= a})

\* Whatever way the machine came to a word, the return stack has a frame for
\* each loop around the word, and the parameter stack the value of each case
\* around it that no of has dropped.  (do, loop, leave, of, endof, endcase)
FramesMatchText ==
  LET k == WordAt(ip)
      Below(j) == 3 * Cardinality(Loops(j - 1))
      dropped == {j \in Open(k - 1) : text[j] = "of"}
  IN  phase = "execute" /\ ip = starts[k] =>
        /\ Len(returns) = 1 + 3 * Cardinality(Loops(k - 1)) /\ returns[1] = Caller
        /\ \A j \in Loops(k - 1) :
             <<returns[Below(j) + 2], returns[Below(j) + 3], returns[Below(j) + 4]>>
               = <<starts[j] + 3, Index, Limit>>
        /\ depth = Cardinality(Cases(k - 1)) - Cardinality(dropped)

\* From each word the machine goes to the one the manual names, as the flag or
\* the limit tells.
RunsAsWritten ==
  [][LET k == WordAt(ip)
         inside == ip' > ip /\ WordAt(ip') = k
     IN  phase = "execute" /\ phase' = "execute" /\ ~inside
           => ip' = starts[Successor(k, test')]]_vars
=============================================================================
