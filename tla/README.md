# Verification of the tile forth kernel

This directory models the parts of tile forth (a multi-tasking Forth-83 in C)
whose correctness depends on the order in which things happen: the queues, the
cooperative tasks, the words that make tasks wait for one another, channels and
rendezvous, the interpreter that shares the machine with them, what a task
switch, a call, a frame and an exception do to registers and stacks, the
dictionary with the cache in front of it, the control structures of colon
definitions, and a session of the outer interpreter over its stack of input
files. The modules are written in TLA+, checked with TLC on small instances, and
proved about with TLAPS: for queues of any length, any number of tasks, conditions
and semaphores, channels in every mode, words nested to any depth, dictionaries of
any length, definitions with control structures of any length and nesting, and files of any texts. Paths below are relative to the repository.

## 1. The system and its parts

| Component | Source | State | Operations | What makes it correct |
|---|---|---|---|---|
| Queues | `src/queues.v`, `lib/queues.f83` | `succ`, `pred` of every node | enqueue, dequeue, ?empty-queue, size-queue, map-queue, ?map-queue, ?member-queue | rings stay closed; queue order; a traversal sees each member once |
| Task kernel | `src/multi-tasking.v`, `src/kernel.h` | ring of runnable tasks, status of each task, `tp`, `running`, `tasking`, saved registers | task, fork, resume, schedule, detach, terminate | no runnable task is lost, no other runs |
| Synchronization | `lib/multi-tasking.f83` | queues of conditions, counters of semaphores | deactivate, activate, delay, join, await, cause, signal, ?wait, wait | no signal and no waiter is lost or overtaken |
| Channels | `lib/multi-tasking.f83` | data cell, mode, two semaphores | send, receive, ?avail | no message is lost, overwritten, or read twice; nobody is stuck |
| Rendezvous | `lib/multi-tasking.f83` | two channels | call, accept, accept.end, ?awaiting | each call returns its own result |
| Virtual machine, command loop | `src/kernel.c` | `ip`, `rp`, `running`, `tasking` | doinner, docommand, docall | goes on until the foreground is through |
| Input | `src/io.c`, `src/io.h` | stack of files with buffers, included files, paths | io_infile, io_path, io_fillbuf, io_flush, io_skip, io_scan, io_skipspace | files are one text, read in order; none is open twice; other tasks run while it waits |
| Outer interpreter | `src/kernel.c` | `quited`, `state`, `base`, depth of the parameter stack | dointerpret, casts, literals, comments, #include, #path, #if ... #then, quit, abort, bye | every word of the text is acted on once, in order; the session ends |
| Main program | `src/forth.c` | arguments still to load | argument files, standard input, end | |
| Exceptions | `src/exceptions.v` | `ep`, frames on the return stack | exception>, raise, (exception;) | raise restores the state of the protected word |
| Argument frames | `src/locals.v` | `fp`, frames on the parameter stack | {, (link), (unlink), -> | frames nest with returns and raises |
| Vocabularies | `src/kernel.c` | `current`, `context`, entry lists, entry cache | make_entry, find, lookup, restore, only, seal, definitions, forget | the cache answers as a lookup would |
| Compiler | `src/kernel.c`, `src/compiler.v` | dictionary pointer, marks on the stack, `state` | if ... then, begin ... until, do ... loop, case, :, ; | structures nest; branches end where they should |
| Signals | `src/error.c` | handlers, the restart point | error_signal, error_restart, error_fatal | one task is aborted, the rest goes on |
| Numbers | `src/kernel.c` | `base`, the text being built | convert, ?number, <# # #s sign #>, ., .r, u., u.r | what is printed is read back |
| Strings, memory, libraries | several | memory cells | sequential functions | functional |

How they interact. There is one C stack and one virtual machine. The
interpreter (`dointerpret`) reads a word and calls `docommand`; if the word
leaves something on the return stack, `docommand` runs `doinner` until the
foreground task terminates. Words that read on in the input (`#include`, `(`,
`#if`) take it from the same stack of files, in the middle of the interpreter's
loop; `abort` and the interrupt key cut that stack down under them. `doinner` executes instructions of the task in `tp`
until some instruction clears `running`, which `doresume` does when it exchanges
the registers for those of another task. Tasks are never interrupted: a switch
happens inside detach, schedule, resume, terminate, await/wait and cause/signal,
and nowhere else. When input runs out, `io_fillbuf` plays the part of the
command loop and runs the other tasks until there is input. A task object starts
with its two queue pointers, so the same two fields link it into the ring of
runnable tasks or into the queue of a condition.

What is hard. The kernel relinks queues and switches tasks in one operation, and
continues after the switch with globals that belong to another task
(`doschedule`, `doterminate`). The synchronization words test a state that other
tasks change. The interpreter resumes the foreground out of turn when input
comes. Files end in the middle of words, names and comments, buffers end anywhere,
and an interrupt comes between any two of these. `PROJECT.json` lists these hazards at their lines.

## 2. The modules

| Module | Models | How state and actions correspond |
|---|---|---|
| `QueueLinks` | the pointer operations | `Links` is the pair of pointer fields; `Enqueue`, `Dequeue` keep the order of the assignments |
| `QueueSpec` | what queues promise | a sequence of items for each header |
| `Queues` | clients of the queues and one traversal | `Put`, `Take` change links between any two steps of `StartMap`, `StepMap`, `EndMap`, `StopMap` |
| `TaskKernel` | kernel and synchronization words | `links`, `status`, `tp`, `running`, `tasking`, `count` are the code's; `home` is a history variable that says which ring a node was last put into; one operator for each word, up to and including the switch |
| `SemaphoreSpec` | what semaphores promise | a counter and a sequence of waiting tasks |
| `Multitasking` | tasks calling any word, interpreter, `io_fillbuf` | `Do...` actions are calls of the running task; `delay` and `join` are loops whose place is kept in `doing`; `phase` is where the foreground's C code is |
| `Channels` | `send` and `receive` | `at` is where in the two words each task is; an action runs from one semaphore operation to the next |
| `ChannelSpec` | what a channel promises | a one-place buffer |
| `ChannelClients` | tasks on one channel in each mode | who may send and receive in which mode is what the manual allows |
| `Rendezvous` | calls, accepts and a server | `stage` is how far a call or an accept is; `got` is what `receive` left on the task's stack |
| `StackMachine` | frames and exceptions on one machine | a machine is a record of the two stacks and `fp`, `ep`; `Link`, `Unlink`, `Catch`, `Throw`, `Restore` are what (link), (unlink), (exception>), (exception;) and raise do to it; a value that is a position in a stack stands for a pointer |
| `TaskContexts` | tasks calling words with locals and exception blocks | the running task's registers are `machine`, the others' are in `saved`, as in the task headers; `calls` is a history of the calls a task is in, with what it had before them |
| `Vocabularies` | the dictionary | `entry`, `last`, `context`, `current`, `cache`, `compiling` (the code's `state`), `thelast`, `theframed` are the code's; `forgotten` is a history of what forget was to remove |
| `ControlStructures` | if, begin, do, case as compiled and as executed | a `...Compile` operator for each immediate word, on the record of dictionary cells and stack; an action for each run-time instruction. `text` and `starts` are histories: the words of the definition and where the code of each begins |
| `Numbers` | cells as text and back | recursive functions over sequences of character codes; a cell has `2 * Half` values |
| `InputStack` | the stack of input files, loaded files, paths, `io_fillbuf`, `io_flush` | `infstack`, `infiles`, `paths`, `errno` are the code's; `filling` is where the C code is in `io_fillbuf` (its flag `nonblocking`), `others` whether the ring has another task, `arrived` what the standard input has been sent |
| `Interpreter` | main, `dointerpret`, the words that read on, abort, the interrupt key | `pc` is the loop the C code is in, `want` the word or loop that asked for the word being read, `nest` and `after` the recursive calls of `doparen` and `dosharpelse`; `tib`, `state`, `base`, `quited` are the code's |
| `SourceText` | what the input promises to the interpreter | one text from which words are taken and into which files are spliced |
| `RingLemmas`, `QueuesProofs`, `MultitaskingProofs`, `ChannelProofs`, `TaskContextsProofs`, `VocabulariesProofs`, `ControlStructuresProofs`, `InterpreterProofs` | proofs | see section 5 |

`Queues`, `TaskKernel` extend `QueueLinks`; `Multitasking` and `Channels` extend
`TaskKernel`; `ChannelClients` and `Rendezvous` extend `Channels`; `Interpreter`
extends `InputStack` and `Numbers` and is mapped to `SourceText`. The `MC...`
modules give the constants values. Operators called *Mutant* in a comment are
faulty variants of the definition that follows them; no specification uses them.
Replacing the definition by its variant makes TLC report the property it is
listed with in `PROJECT.json`, which shows that the property is sensitive to
that mistake.

Abstractions. A step is one word, or the part of a word between two places
where the machine can be given away: nothing runs in between. `TaskKernel` has no
registers and stacks (what `doresume` saves and restores has no influence on
which task runs next); `TaskContexts` has them and leaves the queues out: detach
may go to any other task. Memory of tasks is not reclaimed; a
task that terminated may be made again, unless another one is joining it. A
task is scheduled only when it is READY, as the manual asks. `resume` is called
by the modelled words only, never directly by a task, and on a header (when
`await` is called by a task whose ring has no other runnable task left) it reads
whatever lies behind the header as a status word (`StatusWordSet`).

In `TaskContexts` a cell that the stack grows over without a push is `Junk`, and
so is a cell that was popped. Which word is called, what it pushes, drops and
assigns and where it raises is open; a word uses only the cells it was given or
has made, as Forth asks of it. `fork` is called where it does not hide a frame or
an exception block of a word from the child (`ForkWherePossible`), since the
child's return stack ends in the thread of terminate (`src/multi-tasking.v:193`).

In `Vocabularies` an entry is its number in the order of making, so that a list
is a set of numbers and its first entry the maximum. The names of the program may
be used for local names, too. The program may keep rules
that the code does not enforce (`Rules`): define words only in the vocabulary
searched first (`search`), give a mode that hides an entry only to a name
defined once (`names`), define nothing between `[` and `]` (`brackets`), make no
error in a definition with local names (`abort`), forget only words of the
vocabulary `current` (`forget`), and use `definitions` only right after a
vocabulary (`flush`). Each rule is needed: with any one of them dropped TLC finds
one of the run's invariants violated; section 4 says which of them contradict the
manual. The modes `compilation` and `private` are used (`ModesUsed`): `execution`
mirrors the first, and `immediate` does not concern the search.

In `ControlStructures` the instruction `push` stands for the program's own words
that leave a flag, a limit or a selector, and the outcome of every test is open;
values of index and limit do not occur. The manual's conditions on `leave` and
`exit` hold (`Allowed`), and a definition ends the structures it began. The
properties compare the execution with the text alone: `Successor` says by counting words
that open and close where the manual sends the machine after each word.

In `InputStack` and `Interpreter` a step is a character taken, a read, or what the
interpreter does with a word. Texts are sequences of characters of a small set; a
character may stand for a run of letters (`"#include"`), which reads split as little as
any character. The words the program may use are given by `Dictionary`: what
they do to the input, to `state`, `base`, `quited` and the ring, and how many cells
they leave. The flag of `#if` is open. A buffer is a stretch of the file between `pos`
and `end`; a read returns all there is, up to the size of the buffer. `Arrive` sends
the standard input piece by piece, only when it is read and used up: before that the
program cannot tell when it came. `Available`, `AtEnd`, `IsDirectory` and `Arrive`
model the operating system. An interrupt may come wherever the program reads; which
other signals come, and those that find the virtual machine running, are left out,
and so are `key`, `expect`, `-a`, `-s`, the size switches, changes of the search
order (in `Vocabularies`) and the recognizer for floating-point numbers. After the
end of all input the macros `io_source` and `io_line` read below `io_infstack`, for
messages only; the model takes it that they find something. What a cast to a word
that is no vocabulary executes is undefined: `CastStray` lets it do nothing,
abort or end the program, and keeps only the depth of the stack.

## 3. The runs

| Run | Instance | Shows |
|---|---|---|
| `queues` | 2 headers, 3 items, 2 changes during one traversal | rings coherent; pointers implement sequences; items go where asked; size and membership agree; a traversal visits each staying member once and ends |
| `multitasking` | foreground and 2 tasks, 1 condition, 1 semaphore | the kernel's invariant; no runnable task lost; statuses have a cause; semaphores implement FIFO semaphores; every runnable task runs again; join returns |
| `channels` | foreground and 3 tasks, 1 channel, each mode | reads are fresh; one-place buffer; sends are synchronous; one sender at a time; every message taken; nobody stuck |
| `rendezvous` | server, 2 clients, foreground, 2 rendezvous | the argument is passed before the client goes on; own result; ?awaiting means accept does not wait; every call returns |
| `contexts` | foreground and a task, words with locals, with an exception block, with both, with neither | locals keep their values; a word returns to its caller with its results; raise reaches the innermost exception block with the stacks of its word; a task gets back what it had when it was switched away |
| `vocabularies` | 2 vocabularies, 2 names in one bucket, 3 entries | find answers as a search without the cache; no definition is lost; local names leave with their definition; forward declarations execute a later definition |
| `control` | definitions of up to 7 words | tests, loops, leave and case go where the text says; on every path a word finds the loop frames and the depth its place in the text calls for |
| `stranded` | as `multitasking`, the foreground may wait too | divergence: the last runnable task does not wait |
| `interpreter` | up to 2 argument files, 4 files to include and the directories they are in, 45 texts of the standard input, from a terminal or not | the files are one text, read word by word in order with comments and skipped sections left out; no file is open twice; line numbers are not ahead; what is printed in the base of the moment is read back; the session ends, but for three kinds of input |
| `sections` | as `interpreter`, one text | divergence: of two sections inside a skipped one the second is not noticed |
| `dead_handler` | as `contexts`, abort anywhere | divergence: an exception block is used after an abort removed its frame |
| `lost_word` | as `vocabularies`, without the rule `abort` | divergence: a completed definition disappears |

Bounds. Three items are the least with an item between two others, and with two
headers an item can move between queues; two changes during a traversal suffice
to take out the current item and put it elsewhere, or take out the saved
successor (`MaxEdits`). The clients of the queues keep the one rule the words
depend on: an item is enqueued only while it is in no queue. Two tasks beside the foreground give a waiting queue of two
and a ring of three; one condition and one semaphore are enough as headers do
not interact. `MaxCount` bounds a semaphore's counter and `MaxDelay` the
parameter of delay. A message alternates between two values per sender, so that
each differs from the one before it.

In `contexts` calls of the foreground nest twice, the least with a frame inside
another one's exception block; the other task interrupts them and computes in its
own body (`MaxCalls`); a word has at most one cell of its own before it makes another
(`MaxOwn`), and tasks and levels push different values (`Pushed`). Three entries
(`MaxEntries`, two more are there from the start) allow a word, a redefinition
and a third in a shadowed vocabulary, or a definition with two local names; two names in
one bucket make the cache collide on every second word. With two vocabularies
the search list never overflows. Seven words (`MaxWords`) hold a case with two
alternatives, an if with leave inside a loop, and three structures in one another.

In `interpreter` buffers hold two characters (`BufSize`), so that words, names and
comments cross them; three files (`InfStackSize`) and three paths (`PathsSize`) can be
in use, which the texts exceed: the fourth file and the fourth path are refused.
Sessions are one line of each kind, or two lines that leave something behind for
each other (a file, an abort, a compiling state, other tasks, text after bye), with
two endings of an included file (a comment that is not closed, a word without a
space). One interrupt (`MaxAborts`) beside the aborts of the text comes at any
character. Cells have five bits (`Half = 16`), enough for two digits in base 10 and
five in base 2; the conversions are checked for every cell in the bases 2, 10 and
36 that the sessions set. No text of the run has two sections next to each other inside a
skipped one: that is the run `sections`.

Fairness. Only one task has the machine, and it keeps executing: `WF` of the
loop steps, of the command loop and of the interpreter. The manual requires
every application to call the task switch periodically
(`man/man3/multi-tasking.3:13-17`); this is the strong fairness of `DoDetach`
for each task. Nothing is assumed about input: `EveryTaskRuns` and `JoinReturns`
are claimed for behaviours in which input stops arriving, since every arrival
resumes the foreground out of turn. In the channel and rendezvous models every task
either calls or, at most once between two calls, detaches, and the system makes
steps (`WF_vars(Next)`). In the interpreter the program goes on executing
(`WF_vars(Step)`), which is all a sequential program needs, and whoever sends the
standard input comes to its end (`WF_vars(Input)`), without which a session at a
terminal need not end.

## 4. Divergences found

* `await`/`wait` by the last runnable task: `deactivate` resumes `running @ succ`
  looked up before the task is unlinked, which is the task itself. It continues
  without the condition (`lib/multi-tasking.f83:99`, `src/multi-tasking.v:151`),
  against `man/man3/multi-tasking.3:430-434`. Run `stranded`.
* `dosharpif` and `dosharpelse` skip a section inside a skipped one by a call, and
  compare the word after it with `#else` and `#then` only (`src/kernel.c:2038-2044`,
  `2058-2064`): a second section right after it is not noticed, and its `#then` ends
  the outer section, against `man/man3/forth.3:626-633, 680`. Run `sections`.
* `abort` by the foreground leaves `ep` (`src/kernel.c:1949-1960`), so the next
  raise restores the machine from a frame that is gone, against
  `man/man3/exceptions.3:90-92`. Run `dead_handler`.
* `abort` in a definition with local names leaves `theframed`; the `;` of the next
  definition removes that definition from its vocabulary (`src/locals.v:51`),
  against `man/man3/forth.3:1719-1721`. Run `lost_word`.
* Seen in the models without a run of their own. `io_fillbuf` clears `nonblocking` when
  the other tasks are gone and with it skips `tp -> status = RUNNING`
  (`src/io.c:304-307`): the foreground interprets on with status IOWAITING, against
  `man/man3/multi-tasking.3:96-99` (`FillDetach` in `Multitasking`). `fork` drops the top of
  the parent's stack before it copies (`src/multi-tasking.v:110`), against
  `man/man3/multi-tasking.3:271` (`Fork` in `TaskContexts`). Two clients of a rendezvous overwrite each
  other's argument (`lib/multi-tasking.f83:238`), against
  `man/man3/multi-tasking.3:188-190`, though `tst/rendezvous.tst:54-66` has two tasks call
  `get`; `ArgumentIsPassed` fails when `ClientsOf` gives a rendezvous two clients. A cached
  hit skips the test for private entries (`src/kernel.c:2480`), against
  `man/man3/forth.3:1503-1506`; `FindAgrees` fails without the rule `flush`. `forget`
  of the first word of another vocabulary cuts the current one to nothing
  (`src/kernel.c:2540`), against `man/man3/forth.3:1621-1637`; `DefinitionsStay` fails without
  the rule `forget`. `(loop)` and `(+loop)` compare index and limit
  (`src/compiler.v:99-131`), while `man/man3/forth.3:683-689` speaks of crossing the
  boundary between limit-1 and limit: a loop that starts above its limit ends
  after one turn, one that counts down never takes the limit as index.
* Seen in `Interpreter`. A session does not end when a poll that found nothing has left its
  `errno` before the end of the input comes (`src/io.c:282`), when `#include` without a name
  opens a directory, whose read fails again and again (`src/io.c:264`), and when a
  skipped section has no `#then` (`src/kernel.c:2034`): `SessionEnds` names the three.
  Newlines in a comment in parentheses are not counted (`src/kernel.c:2152`), so that the
  line numbers of messages fall behind: `LinesNotAhead` is an inequality. A cast to a word
  that is no vocabulary goes on as if a word had been found (`src/kernel.c:1878-1900`),
  though a comment asks to "Check that the symbol is really a vocabulary". A file that
  abort closed stays in the table and cannot be included again (`src/io.c:212`).
  The interrupt key between the spaces in front of a name and the name closes the file under the
  reader, which takes what the terminal has next: if that is a space, `#include` or `'` goes on with an
  empty name (`src/kernel.c:2314-2315`; mode `nameless` of `SourceText`).
  Text after `bye` in an argument file stays on the stack of files and is read after the
  next file or the standard input (`src/forth.c:193-202`). A file that does not end in
  white space has its last word run into the text below, or dropped at the end of
  all input (`src/kernel.c:1848`).
* Seen while reading. `flag = f(...) == c` assigns the comparison in `dosharpinclude` and
  `dosharppath`, so that "too many files open" and "too many paths defined" are never
  printed (`src/kernel.c:2109, 2131`). Several directories of an environment variable put first by
  `#path` come out in reverse order (`src/io.c:116-128`). `?avail` on a MANY-TO-ONE channel tests whether a
  receiver waits (`lib/multi-tasking.f83:205`), while the manual
  (`man/man3/multi-tasking.3:35-38`) says that it tells whether receive would block.

## 5. What is proved

The theorems hold for every value of the constants that satisfies the named
assumptions, which TLC evaluates in the runs: `NodesAssumption`, `KernelAssumption`,
`ClientAssumption`, `ChannelAssumption`, `ClientsAssumption`, `RendezvousAssumption`,
`ContextAssumption`, `VocabularyAssumption`, `InputAssumption` (which set is part of which),
`DictionaryAssumption` (what a word has, its name not empty), `CellAssumption` (`Half` is a positive number), the
`BoundAssumption`s, and three small ones: memory is finite
(`MemoryIsFinite`), nil is no address (`NilIsNoAddress`), and the messages that the clients
send are messages (`MessagesAssumption`).

Five groups of theorems have a hypothesis besides, each of which TLC shows to be
needed: the foreground never waits in a queue (`ForegroundNeverWaits`; the run `stranded`
is without it), abort is not called under an exception block (`AbortsAnywhere = FALSE`;
`dead_handler`), the program keeps the six rules for dictionary words
(`AllRules \subseteq Rules`; `lost_word`, and section 2 on the other rules), a rendezvous
has at most one client (`OneClientEach`; section 4 on two clients), and no section begins
right behind one inside a section that is left out (`SectionsApart`; `sections`).

| Module | Theorems | Of |
|---|---|---|
| `RingLemmas` | `ForthDequeueAgrees` | the library's `dequeue`, whose assignments come in another order |
| `QueuesProofs` | `QueuesCoherent`, `SizesAndMembersAgree`, `RingsImplementSequences`, `ItemsPutWhereAsked`, `MapsVisitOnce` | `RingsCoherent`, `SizeAndMembersAgree`, `ImplementsQueueSpec`, `PutsWhereAsked`, `MapVisitsOnce` |
| `MultitaskingProofs` | `TypeCorrect`, `TasksStayInPlace`, `NoSignalIsLost`, `WaitersDoNotRun`, `NoTaskIsLost`, `SemaphoresImplemented`, `StatusIsExplained` | `TypeOK`, `TasksInPlace`, `NoLostSignal`, `WaitingTaskDoesNotRun`, `NoTaskLost`, `ImplementsSemaphores`, `StatusExplained` |
| `ChannelProofs` | `ReadersFindFreshMessages`, `SenderMeetsReceiver`, `OneSenderIsLetThrough`, `ChannelIsBuffer` | `ReadsAreFresh`, `SendIsSynchronous`, `OneSenderAtATime`, `ImplementsBuffer` |
| `ChannelProofs` | `RdvInvariant`, `ArgumentPassed`, `ResultReturned`, `AskedAcceptGoesOn` | the invariant `RdvInv`, `ArgumentIsPassed`, `ResultIsOwn`, `AskedAcceptDoesNotWait` |
| `TaskContextsProofs` | `ContextsKept`, `LocalsSurvive`, `WordsReturn`, `SignalsAreCaught`, `TasksAreApart`, `HandlersAreOnStack` | `Inv`, `LocalsKept`, `ReturnsToCaller`, `RaiseReachesHandler`, `SwitchPreserves`, `ArmedFrameExists` |
| `VocabulariesProofs` | `DictionaryInvariant`, `CacheIsNeverSeen`, `DefinitionsAreKept`, `LocalNamesLeave`, `ForwardsExecuteLater` | `Inv`, `FindAgrees`, `DefinitionsStay`, `LocalsRemoved`, `ForwardsResolved` |
| `ControlStructuresProofs` | `ControlInvariant`, `FramesFollowText`, `RunsFollowText` | the invariant `ControlInv`, `FramesMatchText`, `RunsAsWritten` |
| `InterpreterProofs` | `StackSafe`, `FilesOpenedOnce`, `LineNumbersNotAhead`, `TypeCorrect`, `PrintedNumbersRead`, `TextImplemented` | `StackInv`, `OpenedOnce`, `LinesNotAhead`, `TypeOK`, `NumbersReadBack`, `ImplementsSource` |

**Queues.** That pointers agree is inductive alone (`LinksInv`). What queues promise is
not: an item is next to the node it was given, and no other queue changes, because the
rings of two headers have no node in common and an item with neighbours is in the ring of
a header (`RingsInv`). `RingLemmas` says what the loops find in such a ring: following
`succ` comes back after as many steps as there are nodes (`Period`), and the queue as a
sequence is the one that spells the ring (`Spells`); put and take change that sequence as
`QueueSpec` says, which is the step simulation of `RingsImplementSequences`. For a
traversal the invariant (`WalkInv`) is a place `i` in the queue: what is before it was
given to the block once, what is behind it not yet, and the node saved to go on with is
at `i`, until it is itself taken out.

**Tasks.** The invariant is `Inv == TypeOK /\ KernelInv`. That a semaphore with a
positive counter has no waiter is not inductive: that waiting keeps it needs
the queue to contain only waiters, and that a switch finds a task that can run needs the
rings to be closed and apart. `WellLinked` says so without counting: links never leave a
ring, and a set of nodes of a ring that no link leaves is the whole ring; `NoTaskLost`
follows from it. `MultitaskingProofs` has one lemma for each word of the kernel and the library
(`ScheduleKeeps`, `AwaitKeeps`, `CauseKeeps`, ...), and one for delay, for join and for the
interpreter. `StatusExplained` needs more of the tasks that are not in the ring, which
are in no loop, and of the foreground while its C code reads (`LoopInv`).
`SemaphoresImplemented` maps a semaphore to its counter and the sequence of its ring.

**Channels.** `Inv == KernelInv /\ ChanTypeOK /\ ChanInv`. The two semaphores of a channel
are accounted for: with one sender, the counter of sent messages is one exactly while a
message is unread and no receiver was let through to it, and the counter of receipts
while the sender has its answer still to take (`OneSenderInv`); with many senders the same with
the parts exchanged (`ManySendersInv`). The buffer property is a step simulation from it.

**Rendezvous.** `RdvInv == KernelInv /\ CallTypeOK /\ CallInv`. The stage of a call or of an accept tells
which channel word it is in, at which of its places, and what it waits for (`InStages`). A channel of a
rendezvous has one sender and one receiver, so its two semaphores can be accounted for
by the places of these two alone (`Exchange`). What an exchange does not say is what the two
channels have to do with each other: a client whose argument was read is the one that
awaits a result, and what the server computes or has sent is its result
(`Meeting`). For ?awaiting a counter or a waiter on the argument's channel means
that a client is sending (`AcceptAsked`), and on a rendezvous without a client nothing moves (`Deserted`).
The account of one channel survives a step on another because no two rendezvous, nor the
two channels of one, share a channel (`RendezvousAssumption`).

**Contexts.** `TaskInv` says where every frame and every saved register of every call of a
task is. It says so at every level: of the machine with all its calls, and of what each
call found when it began with the calls around it (`Level`). So a return or a raise, which
go back to what a call found, find the invariant there. `fp` and `ep` are chains through the frames
(`InCall`, `EpFits`), and a word's own cells are above what its caller kept (`KeptIn`).

**Dictionary.** That the cache agrees with the search is not inductive for five reasons, each a
part of `Inv`. A cached entry may be hidden now and shown after the next `[` or `]`: `CacheOK` is about
both states of the compiler. A local name must not be cached beyond its definition: local
names are above the frame's entry, in `current` only (`LocalsAbove`, `LocalsFramed`). A mode other
than immediate given to one of several definitions of a name would make the search go on to
another: such names are defined once (`Moded`). Lists of different vocabularies share only the
last entry (`Linked`, `Rooted`, from which `ListsApart`). And `;` shows the entry that is
open, which must then be the latest (`WordOpen`). For forward declarations it is not enough that what they
execute is a later definition: it must be no later than any complete one, or `forget` would take it away before
them (`Redirected`); and an open definition counts, as the next `;` completes it. An operation like doentry is several changes
of the dictionary (search, new entry, parameter), so the parts of `Inv` take entries, lists
and cache as parameters and have one lemma for each change: a new entry (`CacheMade`), a list cut
(`CacheCut`), modes (`CacheCompleted`, `CacheModed`), a cached search (`CacheFound`).

**Control structures.** The claim is about all the code of a definition, and nothing short of that is
inductive. It is stated without recursion: the words that open and end structures give
each place in the text a level (`Lev`), which changes by one at most, and the structures open at a place are the
openings whose level was not left since (`Opn`, `Live`). There is one open structure for each level
(`EveryLevelOpen`), what a word ends is the one opened last (`OpenClosed`), and the end of a structure is where its
level is left first (`EndIs`, `EndCloses`).
While a definition is compiled, `Good` holds of text, code and stack. The code is a row of
cells for each word (`Layout`). A branch ahead is `Settled` once its structure has ended, or, for if, its else was
compiled: every branch back and every settled branch holds the distance to the word it is `Taken` to
(`Resolved`). The stack is the marks of the open structures, one upon the other (`Shapes`): for each kind of
structure which addresses it has and what may follow (`MarksOf`), the branches of its endofs in a case included.
Each word needs two lemmas, what it makes of code and stack (`CompiledIf`, ..., `CompiledEndCase`) and that this is
`Good` again (`IfGrows`, ..., `EndCaseGrows`). docheck makes the text legal, as what may follow tells which structure was
opened last (`CheckedKind`); at `;` nothing is open, so that all branches are settled (`AllSettled`).
While it executes, `Running` says of every cell of a word, not of its first only, what is on both stacks: a frame for
each loop around the word (`Framed`), and the values that its own instructions have pushed so far (`Held`).
Each instruction keeps this (`BranchSteps`, `FailSteps`, `DoSteps`, `LoopDone`, `LeaveSteps`, ...), because where a word
leads the same loops and cases are around as where it stands, but for those that it enters or ends itself
(`AlikeBehindIf`, `BehindLeave`). Numbers of words are unbounded; that a program ends what it
began is the guard of `Semicolon`, without which a branch is left unresolved (hazard at
`src/kernel.c:2712`).

**Input.** The invariant of the interpreter's files is `StackInv`. `OpenedOnce` is not
inductive alone: a file is not opened again because it is in `infiles`, so that every
open file must be there, and the standard input, which is not, must have been opened by
main. For `LinesNotAhead` the buffer must lie inside its file. A step leaves the stack alone
(`KeepStack`), cuts it (`CutStack`: end of file, abort, the end), reads on in the top
file (`AdvanceTop`) or pushes a file (`PushFile`); an interrupt in `io_fillbuf` does two of these
at once (`IoFlushFillingInv`). That a character taken keeps the line number behind rests on
how many newlines lie before a position (`NewlinesNext`, `NewlinesGrow`).

The invariant of the program, `IInv`, adds three things to the types. A comment that is
being read is inside one at least. The search paths stay apart and within their table,
however many a variable of the environment adds (`IoPathListKeeps`). And a read that
`io_fillbuf` has begun (`Waits`) finds an empty buffer and the loop that waits for it, also after the
interrupt key: what is left of the stack then was read over.

**Numbers.** A text of digits `Shows` a number when convert, wherever it gets its
intermediate values from, ends at it. One more digit shows the number times the base plus
the digit (`ShowsMore`): convert cuts down to a cell after every digit, which changes
nothing as long as cells that are `Whole` apart are the same (`CutDown`, `SameCell`). `#s` shows the
unsigned cell (`SharpsShow`, by the quotient, which is smaller); for the sign and the smallest cell
there is `SignedCell`, and for the space around a number `ReadsWord`. So `ReadBack` holds for
all bases up to 36 and any width of a cell (`PrintedIsRead`).

**Text.** `TextImplemented` is a step simulation. What is left in the stack of files is
`Stream`, the rests of its files from the top down: a file pushed comes in front (`FlowPush`), a
character taken is its head (`GetcharReads`), a buffer filled, or a file at its end closed, changes
nothing (`FillGoes`), and whatever `io_flush` leaves, also in the middle of `io_fillbuf`, is an end of it
(`FlushCuts`, `FlushFillingCuts`). `TextInv` adds what a step by itself does not say: a word
that is being read has no space in it, so that the word and `Stream` together can be read again as one text
(`WordRead`), and which words may be wanted at which place. Each action has a lemma that names
the step of `SourceText` it is (`ScanGoes`, `FoundGoes`, `NameGoes`, `SkippedGoes`, `InterruptGoes`, ...).

**Induction.** The induction theorems of the library take operators and cannot be used. Where
a ring, a list of entries or a stack of frames is walked, the proofs take the least number at which the
claim fails (`WFMin` with `NatLessThanWellFounded`, as in `LeastNumber` of `ControlStructuresProofs` and `UpTo` of
`VocabulariesProofs`). A recursive function is unfolded by first proving that one with its equation
exists (`ListsExist`, `ListUnfolds`, `NamesMade`, `LoopRuns`, `ShownExist`), which `CHOOSE` then picks.

**Model-checked only.** Liveness
(`EveryTaskRuns`, `JoinReturns`, the channels', the rendezvous', `SessionEnds`, `MapEnds`) and whatever needs
ENABLED is out of the prover's reach and stays with TLC.

## 6. Plan

Done: all modules, and the proofs of section 5. Next: loop counts against the manual's
boundary; calls by type of entry (`docall`), does> and the rest of the compiler.

Not modelled and why: machine arithmetic, strings and memory words are direct
wrappers of C (the dictionary is one allocation whose bound nothing checks); the libraries of sets, relations, objects and parsing are
sequential code over memory cells; signals between two machine instructions are
below the granularity of any of these models; wording of messages.
