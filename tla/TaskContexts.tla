---------------------------- MODULE TaskContexts ----------------------------
(***************************************************************************)
(* What the tasks compute with: each task has stacks of its own, the       *)
(* registers belong to the running one and are saved in its header when    *)
(* another is resumed (src/multi-tasking.v).  Tasks call words, which may  *)
(* bind their arguments ("{ a | b }", src/locals.v), may have an exception *)
(* block ("exception>", src/exceptions.v), or both.  Which word is called, *)
(* what it pushes, drops and stores and where it raises is left open; a    *)
(* word uses only the cells it was given or has pushed.                    *)
(***************************************************************************)
EXTENDS StackMachine, FiniteSets

CONSTANTS Tasks, foreground,
          Words,                  \* colon definitions
          Framed, Protected,      \* those with locals; with an exception block
          arguments, locals,      \* what every word takes and binds
          main,                   \* a word that is the body of every task
          Pushed,                 \* bound: what a task pushes, by level of calls
          Signals,                \* what is raised
          MaxOwn,                 \* bound: cells a word has before it makes more
          MaxCalls,               \* bound: how far a task's calls nest
          AbortsAnywhere          \* abort is called under an exception block too

ASSUME ContextAssumption ==
  /\ foreground \in Tasks
  /\ Framed \subseteq Words /\ Protected \subseteq Words
  /\ arguments \in [Words -> Nat] /\ locals \in [Words -> Nat]
  /\ main \in Words \ (Framed \cup Protected)
  /\ MaxOwn \in Nat /\ MaxCalls \in [Tasks -> Nat]
  /\ AbortsAnywhere \in BOOLEAN

VARIABLES tp,        \* the running task
          vm,        \* the registers, and the stacks of the running task
          saved,     \* header and stacks of every other task not terminated
          calls      \* history: the words every task is in, the innermost last

vars == <<tp, vm, saved, calls>>

alive == {tp} \cup DOMAIN saved

----------------------------------------------------------------------------
(* What a header holds, and make_task: tos is on the stack while a task     *)
(* does not run, but a task that never ran has nothing there yet.           *)

\* Mutant of resume: the exception frame pointer is not saved.
HeaderWithoutEp(m) == [cells |-> m.cells, ip |-> m.ip,
                       returns |-> m.returns, fp |-> m.fp, ep |-> Nil]

Header(m) == [cells |-> m.cells, ip |-> m.ip, returns |-> m.returns,
              fp |-> m.fp, ep |-> m.ep]

NewTask(action) == [cells |-> <<Junk>>, ip |-> action, returns |-> <<>>,
                    fp |-> Nil, ep |-> Nil]

WithTos(h, x) == [cells |-> h.cells, ip |-> h.ip, returns |-> h.returns,
                  fp |-> h.fp, ep |-> h.ep, tos |-> x]

\* The registers as resume leaves them, its parameter dropped.
Loaded(h) == Sdrop(WithTos(h, Junk))

\* resume ( task -- ) with another task, from machine m.
Leave(m, next) ==
  /\ tp' = next
  /\ saved' = [t \in alive \ {next} |-> IF t = tp THEN Header(m) ELSE saved[t]]

\* A task's machine as it is while the task runs.
Machine(t) == IF t = tp THEN vm ELSE Loaded(saved[t])

Init == /\ tp = foreground
        /\ vm = WithTos(NewTask(Terminate), Junk)
        /\ saved = <<>>
        /\ calls = [t \in Tasks |-> <<>>]

----------------------------------------------------------------------------
(* The word a task is in.  At level 0 the foreground executes what the      *)
(* interpreter reads (ip is Terminate), any other task is in its body.      *)

Current == Last(calls[tp])
InWord == calls[tp] # <<>>
InFrame == InWord /\ Current.word \in Framed /\ Current.at = "body"
Running == tp = foreground \/ vm.ip # Terminate

\* The stack pointer when the current word has no cell of its own.
Base == CASE ~InWord -> 0
          [] InFrame -> Index(Last(vm.returns)) - 1
          [] OTHER   -> Len(Current.kept)

Own == SubSeq(Stack(vm), Base + 1, Depth(vm))
FewOwn == Len(Own) <= MaxOwn

\* The frame of a call starts over the cells that were not its arguments.
FrameOf(c) == Len(c.kept) + 2
Bound(w) == 1..(arguments[w] + locals[w])

\* The innermost call of a task whose exception block is armed, 0 without one.
Handler(s) == Max({0} \cup {i \in 1..Len(s) : s[i].word \in Protected /\ s[i].at = "body"})

----------------------------------------------------------------------------
(* What a word does with the parameter stack and its locals.                *)

Compute(m) == vm' = m /\ UNCHANGED <<tp, saved, calls>>

Push(x) == Running /\ Len(Own) < MaxOwn /\ Compute(Spush(vm, x))

Drop == Running /\ Own # <<>> /\ Compute(Sdrop(vm))

\* (local@)
LocalFetch(k) ==
  /\ InFrame /\ Len(Own) < MaxOwn
  /\ Compute(Spush(vm, vm.cells[Index(vm.fp) + k]))

\* Mutant of (local!): locals are counted from fp instead of below it.
LocalStoreBelow(k) ==
  /\ InFrame /\ Own # <<>>
  /\ vm' = [Sdrop(vm) EXCEPT !.cells[Index(vm.fp) + k - 1] = vm.tos]
  /\ calls' = [calls EXCEPT ![tp] = Front(@) \o <<[Current EXCEPT !.vars[k] = vm.tos]>>]
  /\ UNCHANGED <<tp, saved>>

\* (local!)
LocalStore(k) ==
  /\ InFrame /\ Own # <<>>
  /\ vm' = [Sdrop(vm) EXCEPT !.cells[Index(vm.fp) + k] = vm.tos]
  /\ calls' = [calls EXCEPT ![tp] = Front(@) \o <<[Current EXCEPT !.vars[k] = vm.tos]>>]
  /\ UNCHANGED <<tp, saved>>

----------------------------------------------------------------------------
(* Calling and leaving words.  A word with an exception block starts with   *)
(* (exception>), one with locals goes on with (link); its body ends in the  *)
(* reverse order.  The exception block itself ends in a plain semicolon.    *)

Enter(w) ==
  LET r == [Rpush(vm, vm.ip) EXCEPT !.ip = Code(w, "body")]
      c == IF w \in Protected THEN Catch(r, Code(w, "body"), Code(w, "handler")) ELSE r
  IN  IF w \in Framed THEN Link(c, arguments[w], locals[w]) ELSE c

Call(w) ==
  /\ Running /\ Len(calls[tp]) < MaxCalls[tp]
  /\ FewOwn /\ Len(Own) >= arguments[w]
  /\ vm' = Enter(w)
  /\ LET s == Stack(vm)
         below == Depth(vm) - arguments[w]
         c == [word |-> w, at |-> "body", kept |-> SubSeq(s, 1, below),
               vars |-> IF w \in Framed
                        THEN [k \in Bound(w) |-> IF k <= arguments[w] THEN s[below + k]
                                                 ELSE Junk]
                        ELSE <<>>,
               ip |-> vm.ip, fp |-> vm.fp, ep |-> vm.ep, returns |-> vm.returns]
     IN  calls' = [calls EXCEPT ![tp] = Append(@, c)]
  /\ UNCHANGED <<tp, saved>>

\* (exceptionunlink;), (exception;), (unlink;) or (;), as the compiler chose.
Exit(w, part) ==
  LET m == IF w \in Framed /\ part = "body" THEN Unlink(vm) ELSE vm
  IN  IF w \in Protected /\ part = "body" THEN Throw(m) ELSE Semicolon(m)

Return ==
  /\ Running /\ vm.ip # Terminate /\ FewOwn
  /\ vm' = Exit(vm.ip[2], vm.ip[3])
  /\ calls' = [calls EXCEPT ![tp] = IF InWord THEN Front(@) ELSE @]
  /\ UNCHANGED <<tp, saved>>

----------------------------------------------------------------------------
(* Switching between tasks.  Which task is next does not depend on the      *)
(* stacks; here it may be any other one.                                    *)

Detach(next) ==
  /\ Running
  /\ IF alive = {tp} THEN next = tp ELSE next \in alive \ {tp}
  /\ LET m == Spush(vm, next)
     IN  IF next = tp THEN vm' = Sdrop(m) /\ UNCHANGED <<tp, saved>>
                      ELSE Leave(m, next) /\ vm' = Loaded(saved[next])
  /\ UNCHANGED calls

\* schedule ( task -- ) from machine m, where header h is the task's: it is put
\* into the queue and resumed.  On its stacks it gets its own address and the
\* thread it returns to.
Schedule(m, t, h) ==
  LET enqueued == Sdrop(Sdrop(Spush(m, tp)))
  IN  /\ Leave(Spush(enqueued, t), t)
      /\ vm' = Rpush(Spush(Loaded(h), t), Terminate)

\* task, and schedule.
Spawn(t) ==
  /\ Running /\ t \notin alive
  /\ Schedule(Spush(vm, t), t, NewTask(Code(main, "body")))
  /\ calls' = [calls EXCEPT ![t] = <<>>]

\* fork.  The top of the stack is dropped before the stacks are copied.  The
\* child goes on in the same word, with its parent's address on the stack, but
\* does not return from it.
Fork(t) ==
  /\ Running /\ t \notin alive /\ FewOwn
  /\ LET dropped == Sdrop(vm)
         again == Spush(dropped, dropped.tos)
         h == Header(dropped)
     IN  /\ Leave(Spush(Sdrop(Sdrop(Spush(Spush(Spush(again, t), t), tp))), t), t)
         /\ vm' = [Rpush(Spush(Loaded(h), t), Terminate) EXCEPT !.tos = tp]
  /\ calls' = [calls EXCEPT ![t] = <<>>]

\* The only use of fork that the stacks survive: in a word without locals, that
\* was called from level 0 with no exception block, and has a cell of its own
\* above another one.
ForkWherePossible(t) ==
  /\ Len(calls[tp]) = 1 /\ Current.word \notin Framed \cup Protected
  /\ Own # <<>> /\ Depth(vm) >= 2
  /\ Fork(t)

\* terminate, by a task that is not the foreground.
Quit(next) ==
  /\ tp # foreground /\ next \in alive \ {tp}
  /\ tp' = next
  /\ vm' = Loaded(saved[next])
  /\ saved' = [t \in DOMAIN saved \ {next} |-> saved[t]]
  /\ calls' = [calls EXCEPT ![tp] = <<>>]

EndOfTask(next) == vm.ip = Terminate /\ Quit(next)

----------------------------------------------------------------------------
(* Errors.                                                                  *)

\* abort: the foreground's stacks are emptied and it is back in the
\* interpreter, with fp and ep as they are; any other task terminates.
Abort(next) ==
  \/ /\ tp = foreground
     /\ vm' = [vm EXCEPT !.cells = <<Junk>>, !.tos = Junk, !.returns = <<>>, !.ip = Terminate]
     /\ calls' = [calls EXCEPT ![tp] = <<>>]
     /\ UNCHANGED <<tp, saved>>
  \/ Quit(next)

\* raise ( signal -- ), with the signal pushed.
Raise(signal, next) ==
  /\ Running
  /\ LET m == Spush(vm, signal)
     IN  IF vm.ep = Nil THEN Abort(next)
         ELSE /\ vm' = Restore(m)
              /\ LET i == Handler(calls[tp])
                 IN  calls' = [calls EXCEPT ![tp] =
                       SubSeq(@, 1, i - 1) \o <<[@[i] EXCEPT !.at = "handler"]>>]
              /\ UNCHANGED <<tp, saved>>

\* abort called by a word, by the foreground only where no exception block is
\* entered unless AbortsAnywhere.
CallAbort(next) ==
  /\ Running
  /\ tp # foreground \/ vm.ep = Nil \/ AbortsAnywhere
  /\ Abort(next)

Next ==
  \/ \E x \in Pushed[tp][Len(calls[tp])] : Push(x)
  \/ Drop
  \/ InFrame /\ \E k \in Bound(Current.word) : LocalFetch(k) \/ LocalStore(k)
  \/ \E w \in Words : Call(w)
  \/ Return
  \/ \E t \in Tasks : Detach(t) \/ Spawn(t) \/ ForkWherePossible(t) \/ EndOfTask(t)
  \/ \E t \in Tasks, s \in Signals : Raise(s, t)
  \/ \E t \in Tasks : CallAbort(t)

Spec == Init /\ [][Next]_vars

----------------------------------------------------------------------------
(* Properties.                                                              *)

\* Locals (locals.v): while a word with locals is active, every argument and
\* every local holds what was last stored in it, whatever the words it calls,
\* the other tasks and exceptions in between do to the stacks.
LocalsKept ==
  \A t \in alive : \A i \in 1..Len(calls[t]) :
    LET c == calls[t][i]
    IN  c.word \in Framed /\ c.at = "body" =>
          \A k \in Bound(c.word) : Machine(t).cells[FrameOf(c) + k] = c.vars[k]

\* A word returns to its caller: the results it leaves are on top of what its
\* caller had under the arguments, and the caller has its own locals, exception
\* block and place back ((unlink), (exception;) and semicolon undo what the
\* entry did, in that order).
ReturnsToCaller ==
  [][Return /\ InWord =>
       /\ Stack(vm') = Current.kept \o Own
       /\ vm'.ip = Current.ip /\ vm'.fp = Current.fp /\ vm'.ep = Current.ep
       /\ vm'.returns = Current.returns]_vars

\* raise gives control to the innermost word whose exception block is not yet
\* taken, with its caller's stack intact, as many arguments as it was called
\* with, and the signal on top; without one the task aborts (exceptions.v,
\* doraise).
RaiseReachesHandler ==
  [][\A s \in Signals, t \in Tasks : Raise(s, t) =>
       LET i == Handler(calls[tp])
           c == calls[tp][i]
           n == Len(c.kept)
       IN  IF i = 0 THEN tp \notin alive' \/ (tp = foreground /\ Depth(vm') = 0)
           ELSE /\ vm'.ip = Code(c.word, "handler") /\ vm'.tos = s
                /\ Depth(vm') = n + arguments[c.word] + 1
                /\ SubSeq(Stack(vm'), 1, n) = c.kept
                /\ vm'.fp = c.fp /\ vm'.ep = c.ep
                /\ vm'.returns = Append(c.returns, c.ip)]_vars

\* What a task sees: its stacks and registers.
View(t) == LET m == Machine(t) IN <<Stack(m), m.returns, m.ip, m.fp, m.ep>>

\* Between two turns of a task nothing it sees changes, however the others run
\* in between (doresume saves and reloads everything).
SwitchPreserves ==
  [][\A t \in (alive \cap alive') :
       t # tp \/ (tp' # tp /\ alive' = alive) => View(t)' = View(t)]_vars

\* The manual on raise: without an exception block the action "is abort with a
\* message" (man/man3/exceptions.3).  An exception frame that is armed is one on
\* the return stack.
ArmedFrameExists == vm.ep # Nil => Index(vm.ep) <= Len(vm.returns)
=============================================================================
