---------------------------- MODULE Vocabularies ----------------------------
(***************************************************************************)
(* The dictionary of src/kernel.c: entries linked into vocabularies, the   *)
(* vocabularies that are searched (context) and the one that is extended   *)
(* (current), the modes that hide entries, the cache in front of the       *)
(* search, and the words that define, complete and forget entries, those   *)
(* for local names included (src/locals.v).                                *)
(*                                                                         *)
(* Entries are numbers in the order of their making; nothing frees them.   *)
(* Every vocabulary's list ends in the entry of the vocabulary forth; in   *)
(* forth itself the words of the kernel are above it, here one entry.      *)
(***************************************************************************)
EXTENDS Integers, SequencesExt, FiniteSets

CONSTANTS Vocs, forth,        \* vocabularies
          Names,              \* names of the program's words
          hash,               \* bucket of every name in the cache
          ContextSize,        \* vocabularies in the search list
          ModesUsed,          \* bound: modes given to entries
          MaxEntries,         \* bound: entries made
          Rules               \* rules the program keeps, among those of AllRules

VARIABLES entry,       \* the entries made
          last,        \* the latest entry of every vocabulary
          context,     \* search list, the vocabulary searched first at its head
          current,     \* vocabulary of new entries
          cache,       \* the entry last found or made, by bucket
          compiling,   \* state: compile words instead of executing them
          thelast,     \* the colon definition to be completed
          theframed,   \* entry under the local names, in a word with locals
          forgotten    \* history: entries that forget was to remove

vars == <<entry, last, context, current, cache, compiling, thelast, theframed, forgotten>>

NIL == 0
Bottom == 1      \* the entry of the vocabulary forth
Kernel == 2      \* the words of the kernel

NORMAL == {}
HIDDEN == {"execution", "compilation"}
Modes == {"immediate", "execution", "compilation", "private"}

Buckets == {hash[n] : n \in Names}
Flushed == [b \in Buckets |-> NIL]

AllRules == {"search",       \* define words where the search begins
             "names",        \* modes that hide only on names defined once
             "brackets",     \* nothing is defined between [ and ]
             "abort",        \* no error in a definition with local names
             "forget",       \* forget only words of the vocabulary current
             "flush"}        \* definitions only right after a vocabulary

ASSUME VocabularyAssumption ==
  /\ forth \in Vocs /\ "forth" \notin Names /\ "kernel" \notin Names
  /\ ModesUsed \subseteq Modes /\ ContextSize \in Nat \ {0} /\ MaxEntries \in Nat /\ Rules \subseteq AllRules

Entry(name, kind, mode, link, voc) ==
  [name |-> name, kind |-> kind, mode |-> mode, link |-> link, parameter |-> NIL,
   voc |-> voc]

Init == /\ entry = <<Entry("forth", "vocabulary", NORMAL, NIL, forth),
                     Entry("kernel", "code", NORMAL, Bottom, forth)>>
        /\ last = [v \in Vocs |-> IF v = forth THEN Kernel ELSE Bottom]
        /\ context = <<forth>> /\ current = forth
        /\ cache = Flushed
        /\ compiling = FALSE /\ thelast = NIL /\ theframed = NIL
        /\ forgotten = {}

----------------------------------------------------------------------------
(* Searching.                                                               *)

\* What hangs on entry e.  An entry's link is older, so the list is in
\* descending order and the first entry is the maximum.
ListFrom(e, entries) ==
  LET list[x \in 0..Len(entries)] == IF x = NIL THEN {} ELSE {x} \cup list[entries[x].link]
  IN  list[e]

List(v) == ListFrom(last[v], entry)

\* An entry is shown in the current state of the compiler.
Shown(e) == /\ "compilation" \in entry[e].mode => compiling
            /\ "execution" \in entry[e].mode => ~compiling

Visible(e, v) == Shown(e) /\ ("private" \in entry[e].mode => v = current)

First(S) == IF S = {} THEN NIL ELSE Max(S)

\* lookup ( name vocabulary -- ), find ( name -- ) without the cache.
Lookup(n, v) == First({e \in List(v) : entry[e].name = n /\ Visible(e, v)})

Searched(n) ==
  LET hits == {i \in 1..Len(context) : Lookup(n, context[i]) # NIL}
  IN  IF hits = {} THEN NIL ELSE Lookup(n, context[Min(hits)])

\* Mutant: a cached entry is taken without a look at the state of the compiler.
HitHidden(n) == LET c == cache[hash[n]] IN c # NIL /\ entry[c].name = n

\* A cached entry is taken without a look at PRIVATE.
Hit(n) == LET c == cache[hash[n]] IN c # NIL /\ entry[c].name = n /\ Shown(c)

\* find
Found(n) == IF Hit(n) THEN cache[hash[n]] ELSE Searched(n)
CacheAfterFind(n) == IF Found(n) = NIL THEN cache ELSE [cache EXCEPT ![hash[n]] = Found(n)]

Find(n) ==
  /\ cache' = CacheAfterFind(n)
  /\ UNCHANGED <<entry, last, context, current, compiling, thelast, theframed, forgotten>>

----------------------------------------------------------------------------
(* Making and removing entries.                                             *)

\* make_entry, on a dictionary d of entries, lists and cache.
MakeEntry(d, n, kind, mode) ==
  LET e == Len(d.entry) + 1
  IN  [entry |-> Append(d.entry, Entry(n, kind, mode, d.last[current], current)),
       last  |-> [d.last EXCEPT ![current] = e],
       cache |-> [d.cache EXCEPT ![hash[n]] = IF current = context[1] THEN e ELSE NIL]]

\* restore ( entry -- ): without an entry the cache is flushed; with one, the
\* buckets of what is above it in the current vocabulary, which is cut there.
\* When the entry is not in that vocabulary the whole list is walked.
Restored(d, e) ==
  LET list == ListFrom(d.last[current], d.entry)
      above == IF e \in list THEN {x \in list : x > e} ELSE list
      names == {d.entry[x].name : x \in above} \cap Names
  IN  IF e = NIL THEN [d EXCEPT !.cache = Flushed]
      ELSE [d EXCEPT !.cache = [b \in Buckets |-> IF b \in {hash[n] : n \in names} THEN NIL
                                                  ELSE @[b]],
                     !.last[current] = IF e \in list THEN e ELSE @]

Dictionary == [entry |-> entry, last |-> last, cache |-> cache]

Becomes(d) == entry' = d.entry /\ last' = d.last /\ cache' = d.cache

\* Mutant: the redirected entry gets the vocabulary's latest before the new one.
DoEntryEarly(n, kind, mode) ==
  LET found == Found(n)
      d == MakeEntry([Dictionary EXCEPT !.cache = CacheAfterFind(n)], n, kind, mode)
  IN  /\ Len(entry) < MaxEntries
      /\ Becomes(IF found # NIL /\ entry[found].kind = "forward"
                 THEN [d EXCEPT !.entry[found].parameter = last[current]]
                 ELSE d)

\* doentry: an entry that was found and is a forward declaration will execute
\* the new one.
DoEntry(n, kind, mode) ==
  LET found == Found(n)
      d == MakeEntry([Dictionary EXCEPT !.cache = CacheAfterFind(n)], n, kind, mode)
  IN  /\ Len(entry) < MaxEntries
      /\ Becomes(IF found # NIL /\ entry[found].kind = "forward"
                 THEN [d EXCEPT !.entry[found].parameter = Len(d.entry)]
                 ELSE d)

\* doremovelocals
WithoutLocals(d) == IF theframed = NIL THEN d ELSE Restored(d, theframed)

----------------------------------------------------------------------------
(* Rules for the use of these words that the code does not enforce, but     *)
(* without which it does not do what its manual says.                       *)

Rule(r, condition) == r \in Rules => condition

\* A name with one of the modes other than immediate has one definition.
Named(n) == {e \in 1..Len(entry) : entry[e].name = n /\ entry[e].kind # "local"}
Redefinable(n) == \A e \in Named(n) : entry[e].mode \ {"immediate"} \in {NORMAL, HIDDEN}

\* The definition that is open is the latest word.
NothingSince ==
  \/ thelast = NIL
  \/ /\ thelast = last[current]
     /\ \A e \in thelast + 1..Len(entry) : entry[e].kind = "local"

----------------------------------------------------------------------------
(* Defining words; they are executed, not compiled.                         *)

Colon(n) ==
  /\ ~compiling /\ Rule("search", current = context[1]) /\ Rule("names", Redefinable(n))
  /\ DoEntry(n, "colon", HIDDEN)
  /\ compiling' = TRUE
  /\ thelast' = last'[current]
  /\ UNCHANGED <<context, current, theframed, forgotten>>

\* create, variable, constant, code, field: entries that are complete at once;
\* forward.
Create(n, kind) ==
  /\ ~compiling /\ Rule("search", current = context[1]) /\ Rule("names", Redefinable(n))
  /\ DoEntry(n, kind, NORMAL)
  /\ UNCHANGED <<context, current, compiling, thelast, theframed, forgotten>>

\* Mutant: the local names go, the mark of where they began stays.
SemicolonKeepsMark ==
  /\ compiling
  /\ LET d == WithoutLocals(Dictionary)
     IN  Becomes(IF thelast = NIL THEN d
                 ELSE [d EXCEPT !.entry[thelast].mode = NORMAL,
                                !.cache[hash[entry[thelast].name]] =
                                  IF current = context[1] THEN thelast ELSE @])
  /\ compiling' = FALSE /\ thelast' = NIL
  /\ UNCHANGED <<context, current, theframed, forgotten>>

\* ; ends a definition: local names go, the entry gets its mode.
Semicolon ==
  /\ compiling
  /\ LET d == WithoutLocals(Dictionary)
     IN  Becomes(IF thelast = NIL THEN d
                 ELSE [d EXCEPT !.entry[thelast].mode = NORMAL,
                                !.cache[hash[entry[thelast].name]] =
                                  IF current = context[1] THEN thelast ELSE @])
  /\ compiling' = FALSE /\ thelast' = NIL /\ theframed' = NIL
  /\ UNCHANGED <<context, current, forgotten>>

\* Mutant: only the mark goes.
EndOfLocalsMarkOnly ==
  /\ compiling
  /\ theframed' = NIL
  /\ UNCHANGED <<entry, last, context, current, cache, compiling, thelast, forgotten>>

\* does> and exception> end the part of the definition that has local names.
EndOfLocals ==
  /\ compiling
  /\ Becomes(WithoutLocals(Dictionary))
  /\ theframed' = NIL
  /\ UNCHANGED <<context, current, compiling, thelast, forgotten>>

\* { n1 n2 ... }: local names, or an error when there are some already.
CurlyBracket(names) ==
  /\ compiling
  /\ IF theframed # NIL
     THEN /\ Becomes(WithoutLocals(Dictionary))
          /\ theframed' = NIL /\ compiling' = FALSE
     ELSE /\ Len(entry) + Len(names) <= MaxEntries
          /\ LET made[i \in 0..Len(names)] ==
                   IF i = 0 THEN Dictionary
                   ELSE MakeEntry(made[i - 1], names[i], "local", {"compilation"})
             IN  Becomes(made[Len(names)])
          /\ theframed' = last[current] /\ UNCHANGED compiling
  /\ UNCHANGED <<context, current, thelast, forgotten>>

\* immediate, execution, compilation, private: of the latest entry.
SetMode(m) ==
  LET e == last[current]
  IN  /\ ~compiling /\ e > Kernel
      /\ Rule("names", m # "immediate" => /\ entry[e].kind # "forward"
                                        /\ Cardinality(Named(entry[e].name)) = 1)
      /\ entry' = [entry EXCEPT ![e].mode = @ \cup {m}]
      /\ UNCHANGED <<last, context, current, cache, compiling, thelast, theframed, forgotten>>

\* forget n: tick, then restore to what the entry links to.
Forget(n) ==
  LET e == Found(n)
  IN  /\ ~compiling /\ e # NIL
      /\ Rule("forget", e \in List(current))
      /\ Becomes(Restored([Dictionary EXCEPT !.cache = CacheAfterFind(n)], entry[e].link))
      /\ forgotten' = IF e \in List(current) THEN forgotten \cup {x \in List(current) : x >= e}
                      ELSE forgotten
      /\ UNCHANGED <<context, current, compiling, thelast, theframed>>

----------------------------------------------------------------------------
(* The search order.                                                        *)

\* A vocabulary executed: it comes first; the last one is lost when the list
\* is full.
DoAppend(v) ==
  /\ ~compiling
  /\ cache' = Flushed
  /\ LET places == {i \in 1..Len(context) : context[i] = v}
         moved == IF places # {} THEN Min(places) ELSE Min({Len(context) + 1, ContextSize})
     IN  context' = [i \in 1..Max({Len(context), moved}) |->
                      IF i = 1 THEN v ELSE IF i <= moved THEN context[i - 1] ELSE context[i]]
  /\ UNCHANGED <<entry, last, current, compiling, thelast, theframed, forgotten>>

\* definitions: the cache stays as it is.
Definitions ==
  /\ ~compiling /\ Rule("flush", cache = Flushed)
  /\ current' = context[1]
  /\ UNCHANGED <<entry, last, context, cache, compiling, thelast, theframed, forgotten>>

Only ==
  /\ ~compiling
  /\ cache' = Flushed
  /\ context' = <<context[1]>> /\ current' = context[1]
  /\ UNCHANGED <<entry, last, compiling, thelast, theframed, forgotten>>

\* seal, with another vocabulary left to search.
Seal ==
  /\ ~compiling /\ Len(context) > 1
  /\ cache' = Flushed
  /\ context' = Tail(context)
  /\ UNCHANGED <<entry, last, current, compiling, thelast, theframed, forgotten>>

\* [ and ]
Bracket ==
  /\ Rule("brackets", IF compiling THEN theframed = NIL
                      ELSE current = context[1] /\ NothingSince)
  /\ compiling' = ~compiling
  /\ UNCHANGED <<entry, last, context, current, cache, thelast, theframed, forgotten>>

\* abort, as any error in a definition ends.
Abort ==
  /\ compiling /\ Rule("abort", theframed = NIL)
  /\ compiling' = FALSE
  /\ UNCHANGED <<entry, last, context, current, cache, thelast, theframed, forgotten>>

Next ==
  \/ \E n \in Names : Find(n) \/ Colon(n) \/ Forget(n)
  \/ \E n \in Names, kind \in {"code", "forward"} : Create(n, kind)
  \/ Semicolon \/ EndOfLocals
  \/ \E a \in Names : CurlyBracket(<<a>>)
  \/ \E a, b \in Names : CurlyBracket(<<a, b>>)
  \/ \E m \in ModesUsed : SetMode(m)
  \/ \E v \in Vocs : DoAppend(v)
  \/ Definitions \/ Only \/ Seal \/ Bracket \/ Abort

Spec == Init /\ [][Next]_vars

----------------------------------------------------------------------------
(* Properties.                                                              *)

Entries == 1..Len(entry)

\* find gives what a search through the vocabularies gives: the cache is never
\* seen (dofind and everything that keeps the cache: make_entry, restore, ;).
FindAgrees == \A n \in Names : Found(n) = Searched(n)

\* A word that was defined stays in its vocabulary until forget removes it, or
\* an older one of that vocabulary.
DefinitionsStay ==
  \A e \in Entries \ forgotten :
    entry[e].kind # "local" => e \in List(entry[e].voc)

\* Local names are in the dictionary while the definition they belong to is
\* compiled, and above nothing but it.
LocalsRemoved ==
  \A v \in Vocs : \A e \in List(v) :
    entry[e].kind = "local" => v = current /\ compiling /\ theframed # NIL /\ e > theframed

\* While a later and complete definition of a forward declaration's name is in
\* the same vocabulary, executing the declaration executes a later definition
\* that is there.
ForwardsResolved ==
  \A v \in Vocs : \A e \in List(v) :
    LET later == {d \in List(v) : d > e /\ entry[d].name = entry[e].name
                                  /\ entry[d].kind # "local"}
          complete == {d \in later : ~(HIDDEN \subseteq entry[d].mode)}
    IN  entry[e].kind = "forward" /\ complete # {} => entry[e].parameter \in later
=============================================================================
