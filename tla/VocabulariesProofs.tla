------------------------- MODULE VocabulariesProofs -------------------------
(***************************************************************************)
(* Proofs about the dictionary: the cache answers as the search does, no   *)
(* definition is lost, local names leave with their definition and forward *)
(* declarations execute a later one, for any vocabularies, names, hash     *)
(* function and search order, and for dictionaries of any length.          *)
(***************************************************************************)
EXTENDS Vocabularies, TLAPS, SequenceTheorems, FunctionTheorems, FiniteSetTheorems,
        WellFoundedInduction

----------------------------------------------------------------------------
(* Numbers.                                                                 *)

(* A set of natural numbers has a least element. *)
LEMMA LeastNumber ==
  ASSUME NEW T \in SUBSET Nat, T # {}
  PROVE  \E x \in T : \A y \in T : x <= y
<1>1. \E x \in T : \A y \in T : ~ (<<y, x>> \in OpToRel(<, Nat))
  BY WFMin, NatLessThanWellFounded, Zenon
<1>2. \A x, y \in Nat : y < x => <<y, x>> \in OpToRel(<, Nat)
  BY DEF OpToRel
<1>3. PICK x \in T : \A y \in T : ~ (<<y, x>> \in OpToRel(<, Nat))
  BY <1>1, Zenon
<1>4. \A y \in T : ~ (y < x)
  BY <1>2, <1>3
<1>5. \A y \in T : x <= y
  BY <1>4
<1> QED  BY <1>3, <1>5

(* A bounded one has a greatest. *)
LEMMA GreatestNumber ==
  ASSUME NEW N \in Nat, NEW T \in SUBSET (0 .. N), T # {}
  PROVE  \E x \in T : \A y \in T : y <= x
<1> DEFINE U == {N - x : x \in T}
<1>1. U \in SUBSET Nat /\ U # {}
  OBVIOUS
<1>2. PICK u \in U : \A w \in U : u <= w
  <2> HIDE DEF U
  <2> QED  BY <1>1, LeastNumber
<1>3. PICK x \in T : u = N - x
  BY <1>2
<1>4. \A y \in T : N - x <= N - y
  BY <1>2, <1>3
<1>5. \A y \in T : y <= x
  BY <1>4
<1> QED  BY <1>5

(* Max and Min of the library are what their names say. *)
LEMMA MaxOfNumbers ==
  ASSUME NEW N \in Nat, NEW T \in SUBSET (0 .. N), T # {}
  PROVE  Max(T) \in T /\ \A y \in T : y <= Max(T)
<1>1. \E x \in T : \A y \in T : x >= y
  BY GreatestNumber
<1>2. Max(T) \in T /\ \A y \in T : Max(T) >= y
  BY <1>1, Zenon DEF Max
<1> QED  BY <1>2

LEMMA MinOfNumbers ==
  ASSUME NEW T \in SUBSET Nat, T # {}
  PROVE  Min(T) \in T /\ \A y \in T : Min(T) <= y
<1>1. \E x \in T : \A y \in T : x =< y
  BY LeastNumber
<1> QED  BY <1>1, Zenon DEF Min

(* Induction up to a bound. *)
LEMMA UpTo ==
  ASSUME NEW N \in Nat, NEW T,
         \A x \in 0 .. N : (\A y \in 0 .. x - 1 : y \in T) => x \in T
  PROVE  0 .. N \subseteq T
<1> SUFFICES ASSUME (0 .. N) \ T # {} PROVE FALSE
  OBVIOUS
<1> DEFINE U == (0 .. N) \ T
<1>1. U \in SUBSET Nat /\ U # {}
  OBVIOUS
<1> HIDE DEF U
<1>2. PICK x \in U : \A y \in U : x <= y
  BY <1>1, LeastNumber
<1> QED  BY <1>2 DEF U

----------------------------------------------------------------------------
(* Lists of entries.                                                        *)

\* Every entry hangs on an older one.
Older(E) == Len(E) \in Nat /\ \A e \in 1 .. Len(E) : E[e].link \in 0 .. e - 1

\* The lists from all entries up to m, as functions.
Lists(E, m) == {g \in [0 .. m -> SUBSET Nat] :
                  g[0] = {} /\ \A x \in 1 .. m : g[x] = {x} \cup g[E[x].link]}

(* There are such lists. *)
LEMMA ListsExist ==
  ASSUME NEW E, Older(E), NEW m \in 0 .. Len(E)
  PROVE  Lists(E, m) # {}
<1> DEFINE T == {k \in Nat : Lists(E, k) # {}}
<1>0. Len(E) \in Nat /\ \A e \in 1 .. Len(E) : E[e].link \in 0 .. e - 1
  BY DEF Older
<1>1. ASSUME NEW x \in 0 .. Len(E), \A y \in 0 .. x - 1 : y \in T PROVE x \in T
  <2>1. CASE x = 0
    <3>1. [k \in 0 .. 0 |-> {}] \in Lists(E, 0)
      BY DEF Lists
    <3> QED  BY <2>1, <3>1
  <2>2. CASE x # 0
    <3>1. PICK g : g \in Lists(E, x - 1)
      BY <1>1, <2>2, <1>0
    <3>2. g \in [0 .. x - 1 -> SUBSET Nat] /\ g[0] = {}
          /\ \A y \in 1 .. x - 1 : g[y] = {y} \cup g[E[y].link]
      BY <3>1 DEF Lists
    <3> DEFINE h == [k \in 0 .. x |-> IF k = x THEN {x} \cup g[E[x].link] ELSE g[k]]
    <3>3. E[x].link \in 0 .. x - 1 /\ x \in 1 .. Len(E)
      BY <1>0, <2>2
    <3>4. h \in [0 .. x -> SUBSET Nat]
      BY <3>2, <3>3
    <3>5. h[0] = {} /\ h[x] = {x} \cup h[E[x].link]
      BY <3>2, <3>3, <2>2
    <3>6. ASSUME NEW y \in 1 .. x - 1 PROVE h[y] = {y} \cup h[E[y].link]
      <4>1. E[y].link \in 0 .. y - 1
        BY <1>0
      <4>2. h[y] = g[y] /\ h[E[y].link] = g[E[y].link]
        BY <4>1
      <4> QED  BY <4>2, <3>2
    <3> HIDE DEF h
    <3>7. \A y \in 1 .. x : h[y] = {y} \cup h[E[y].link]
      BY <3>5, <3>6
    <3>8. h \in Lists(E, x)
      BY <3>4, <3>5, <3>7 DEF Lists
    <3> QED  BY <3>8
  <2> QED  BY <2>1, <2>2
<1> HIDE DEF T
<1>2. 0 .. Len(E) \subseteq T
  BY <1>0, <1>1, UpTo
<1> QED  BY <1>2 DEF T

(* What hangs on an entry is the entry and what hangs on its link. *)
LEMMA ListUnfolds ==
  ASSUME NEW E, Older(E)
  PROVE  /\ ListFrom(0, E) = {}
         /\ \A e \in 1 .. Len(E) : ListFrom(e, E) = {e} \cup ListFrom(E[e].link, E)
<1>0. Len(E) \in Nat /\ \A e \in 1 .. Len(E) : E[e].link \in 0 .. e - 1
  BY DEF Older
<1>1. PICK g : g \in Lists(E, Len(E))
  BY <1>0, ListsExist
<1>2. g = [x \in 0 .. Len(E) |-> IF x = NIL THEN {} ELSE {x} \cup g[E[x].link]]
  BY <1>0, <1>1 DEF Lists, NIL
<1>3. \E l : l = [x \in 0 .. Len(E) |-> IF x = NIL THEN {} ELSE {x} \cup l[E[x].link]]
  BY <1>2
<1> DEFINE l == CHOOSE f : f = [x \in 0 .. Len(E) |-> IF x = NIL THEN {}
                                                      ELSE {x} \cup f[E[x].link]]
<1>4. l = [x \in 0 .. Len(E) |-> IF x = NIL THEN {} ELSE {x} \cup l[E[x].link]]
  BY <1>3, Zenon
<1>5. \A e : ListFrom(e, E) = l[e]
  BY Zenon DEF ListFrom
<1> HIDE DEF l
<1>6. l[0] = {} /\ \A e \in 1 .. Len(E) : l[e] = {e} \cup l[E[e].link]
  BY <1>0, <1>4 DEF NIL
<1> QED  BY <1>5, <1>6

(* It is no newer than the entry, which comes first. *)
LEMMA ListBelow ==
  ASSUME NEW E, Older(E), NEW e \in 0 .. Len(E)
  PROVE  ListFrom(e, E) \subseteq 1 .. e /\ (e # 0 => e \in ListFrom(e, E))
<1> DEFINE T == {x \in Nat : ListFrom(x, E) \subseteq 1 .. x}
<1>0. Len(E) \in Nat /\ \A x \in 1 .. Len(E) : E[x].link \in 0 .. x - 1
  BY DEF Older
<1>1. ListFrom(0, E) = {} /\ \A x \in 1 .. Len(E) : ListFrom(x, E) = {x} \cup ListFrom(E[x].link, E)
  BY ListUnfolds
<1>2. ASSUME NEW x \in 0 .. Len(E), \A y \in 0 .. x - 1 : y \in T PROVE x \in T
  <2>1. CASE x = 0
    BY <2>1, <1>1
  <2>2. CASE x # 0
    <3>1. ListFrom(E[x].link, E) \subseteq 1 .. E[x].link /\ E[x].link \in 0 .. x - 1
      BY <1>0, <1>2, <2>2
    <3> QED  BY <3>1, <1>0, <1>1, <2>2
  <2> QED  BY <2>1, <2>2
<1> HIDE DEF T
<1>3. 0 .. Len(E) \subseteq T
  BY <1>0, <1>2, UpTo
<1>4. ListFrom(e, E) \subseteq 1 .. e
  BY <1>3 DEF T
<1> QED  BY <1>0, <1>1, <1>4

(* From an entry of a list on, the list is what hangs on that entry. *)
LEMMA ListSuffix ==
  ASSUME NEW E, Older(E), NEW e \in 0 .. Len(E), NEW x \in ListFrom(e, E)
  PROVE  ListFrom(x, E) = {y \in ListFrom(e, E) : y <= x}
<1> DEFINE T == {k \in Nat : \A z \in ListFrom(k, E) :
                               ListFrom(z, E) = {y \in ListFrom(k, E) : y <= z}}
<1>0. Len(E) \in Nat /\ \A k \in 1 .. Len(E) : E[k].link \in 0 .. k - 1
  BY DEF Older
<1>1. ListFrom(0, E) = {} /\ \A k \in 1 .. Len(E) : ListFrom(k, E) = {k} \cup ListFrom(E[k].link, E)
  BY ListUnfolds
<1>2. ASSUME NEW k \in 0 .. Len(E), \A y \in 0 .. k - 1 : y \in T PROVE k \in T
  <2>1. CASE k = 0
    BY <2>1, <1>1
  <2>2. CASE k # 0
    <3> DEFINE l == E[k].link
    <3>1. l \in 0 .. k - 1 /\ l \in 0 .. Len(E) /\ k \in 1 .. Len(E)
      BY <1>0, <2>2
    <3> HIDE DEF l
    <3>2. ListFrom(k, E) = {k} \cup ListFrom(l, E)
      BY <1>1, <3>1 DEF l
    <3>3. ListFrom(l, E) \subseteq 1 .. l /\ ListFrom(k, E) \subseteq 1 .. k
      BY <3>1, ListBelow
    <3>4. \A z \in ListFrom(l, E) : ListFrom(z, E) = {y \in ListFrom(l, E) : y <= z}
      BY <1>2, <3>1
    <3>5. ASSUME NEW z \in ListFrom(k, E)
          PROVE  ListFrom(z, E) = {y \in ListFrom(k, E) : y <= z}
      <4>1. CASE z = k
        BY <4>1, <3>1, <3>3
      <4>2. CASE z \in ListFrom(l, E)
        <5>1. z <= l /\ z \in Nat /\ k > l /\ l \in Nat /\ k \in Nat
          BY <4>2, <3>1, <3>3
        <5> QED  BY <4>2, <3>2, <3>4, <5>1
      <4> QED  BY <4>1, <4>2, <3>2
    <3> QED  BY <3>5
  <2> QED  BY <2>1, <2>2
<1> HIDE DEF T
<1>3. 0 .. Len(E) \subseteq T
  BY <1>0, <1>2, UpTo
<1> QED  BY <1>3 DEF T

(* A set with the first entry and with the link of each of its members has *)
(* the whole list.                                                         *)
LEMMA ListInSet ==
  ASSUME NEW E, Older(E), NEW e \in 0 .. Len(E), NEW S, e # 0 => e \in S,
         \A x \in 1 .. Len(E) : x \in S /\ E[x].link # 0 => E[x].link \in S
  PROVE  ListFrom(e, E) \subseteq S
<1> DEFINE T == {k \in Nat : k = 0 \/ k \in S => ListFrom(k, E) \subseteq S}
<1>0. Len(E) \in Nat /\ \A k \in 1 .. Len(E) : E[k].link \in 0 .. k - 1
  BY DEF Older
<1>1. ListFrom(0, E) = {} /\ \A k \in 1 .. Len(E) : ListFrom(k, E) = {k} \cup ListFrom(E[k].link, E)
  BY ListUnfolds
<1>2. ASSUME NEW k \in 0 .. Len(E), \A y \in 0 .. k - 1 : y \in T PROVE k \in T
  <2>1. CASE k = 0
    BY <2>1, <1>1
  <2>2. CASE k # 0
    <3>1. E[k].link \in T /\ k \in 1 .. Len(E)
      BY <1>0, <1>2, <2>2
    <3> QED  BY <3>1, <1>1
  <2> QED  BY <2>1, <2>2
<1> HIDE DEF T
<1>3. 0 .. Len(E) \subseteq T
  BY <1>0, <1>2, UpTo
<1> QED  BY <1>3 DEF T

(* The list depends on the links of its entries alone. *)
LEMMA ListSame ==
  ASSUME NEW E, Older(E), NEW F, Older(F), NEW e \in 0 .. Len(E), e <= Len(F),
         \A x \in 1 .. e : F[x].link = E[x].link
  PROVE  ListFrom(e, F) = ListFrom(e, E)
<1> DEFINE T == {k \in Nat : ListFrom(k, F) = ListFrom(k, E)}
<1>0. /\ Len(E) \in Nat /\ \A k \in 1 .. Len(E) : E[k].link \in 0 .. k - 1
      /\ Len(F) \in Nat /\ e \in Nat
  BY DEF Older
<1>1. /\ ListFrom(0, E) = {}
      /\ \A k \in 1 .. Len(E) : ListFrom(k, E) = {k} \cup ListFrom(E[k].link, E)
  BY ListUnfolds
<1>2. /\ ListFrom(0, F) = {}
      /\ \A k \in 1 .. Len(F) : ListFrom(k, F) = {k} \cup ListFrom(F[k].link, F)
  BY ListUnfolds
<1>3. ASSUME NEW k \in 0 .. e, \A y \in 0 .. k - 1 : y \in T PROVE k \in T
  <2>1. CASE k = 0
    BY <2>1, <1>1, <1>2
  <2>2. CASE k # 0
    <3>1. E[k].link \in T /\ k \in 1 .. Len(E) /\ k \in 1 .. Len(F) /\ k \in 1 .. e
      BY <1>0, <1>3, <2>2
    <3>2. ListFrom(k, F) = {k} \cup ListFrom(E[k].link, F)
      BY <3>1, <1>2
    <3>3. ListFrom(k, E) = {k} \cup ListFrom(E[k].link, E) /\ k \in Nat
      BY <3>1, <1>1
    <3>4. ListFrom(E[k].link, F) = ListFrom(E[k].link, E)
      BY <3>1
    <3> QED  BY <3>2, <3>3, <3>4
  <2> QED  BY <2>1, <2>2
<1> HIDE DEF T
<1>4. 0 .. e \subseteq T
  BY <1>0, <1>3, UpTo
<1> QED  BY <1>0, <1>4 DEF T

----------------------------------------------------------------------------
(***************************************************************************)
(* The inductive invariant, in parts that take the entries E, the latest   *)
(* ones L and the cache C as parameters: an operation like doentry is      *)
(* several changes of the dictionary, and the parts hold after each.       *)
(***************************************************************************)
Kinds == {"vocabulary", "code", "colon", "forward", "local"}

EntryRecord == [name : Names \cup {"forth", "kernel"}, kind : Kinds, mode : SUBSET Modes,
                link : Nat, parameter : Nat, voc : Vocs]

\* Links lead to older entries of the same vocabulary, and in the end to the
\* entry that all vocabularies share.
Linked(E) ==
  /\ E \in Seq(EntryRecord) /\ Len(E) >= Kernel
  /\ E[Bottom].link = NIL /\ E[Bottom].voc = forth
  /\ E[Bottom].name \notin Names /\ E[Kernel].name \notin Names
  /\ E[Bottom].kind # "local" /\ E[Kernel].kind # "local"
  /\ \A e \in 3 .. Len(E) : E[e].name \in Names
  /\ \A e \in 2 .. Len(E) : E[e].link \in 1 .. e - 1
  /\ \A e \in 2 .. Len(E) : E[e].link > Bottom => E[E[e].link].voc = E[e].voc

Rooted(E, L) ==
  /\ L \in [Vocs -> 1 .. Len(E)]
  /\ \A v \in Vocs : L[v] > Bottom => E[L[v]].voc = v

\* A name with another mode than those of complete and hidden words is
\* defined once; local names apart.
Moded(E) ==
  /\ \A e \in 1 .. Len(E) :
       /\ E[e].kind = "local" => E[e].mode = {"compilation"}
       /\ E[e].kind = "forward" => E[e].mode \subseteq {"immediate"}
  /\ \A e, f \in 1 .. Len(E) :
       E[e].name = E[f].name /\ e # f /\ E[e].kind # "local" /\ E[f].kind # "local" =>
         E[e].mode \ {"immediate"} \in {NORMAL, HIDDEN}

ListOf(E, L, v) == ListFrom(L[v], E)

\* What a search in state s of the compiler may find in a vocabulary.
ShownIn(E, e, s) == /\ "compilation" \in E[e].mode => s
                    /\ "execution" \in E[e].mode => ~s

Candidates(E, L, cur, n, v, s) ==
  {e \in ListOf(E, L, v) : E[e].name = n /\ ShownIn(E, e, s)
                           /\ ("private" \in E[e].mode => v = cur)}

\* The search for n through ctx in state s ends at c.
Gives(E, L, ctx, cur, n, s, c) ==
  \E i \in 1 .. Len(ctx) :
    /\ c \in Candidates(E, L, cur, n, ctx[i], s)
    /\ \A x \in Candidates(E, L, cur, n, ctx[i], s) : x <= c
    /\ \A j \in 1 .. i - 1 : Candidates(E, L, cur, n, ctx[j], s) = {}

\* A cached entry that is shown in a state of the compiler, the present one or
\* the other, is what the search gives in that state.
CacheOK(E, L, C, ctx, cur) ==
  /\ C \in [Buckets -> 0 .. Len(E)]
  /\ \A n \in Names, s \in BOOLEAN :
       C[hash[n]] # NIL /\ E[C[hash[n]]].name = n /\ ShownIn(E, C[hash[n]], s) =>
         Gives(E, L, ctx, cur, n, s, C[hash[n]])

----------------------------------------------------------------------------
(* What the shape of the dictionary says of its lists.                      *)

LEMMA LinkedOlder ==
  ASSUME NEW E, Linked(E)
  PROVE  Older(E)
<1>1. Len(E) \in Nat /\ Len(E) >= 2
  BY LenProperties DEF Linked, Kernel
<1>2. ASSUME NEW e \in 1 .. Len(E) PROVE E[e].link \in 0 .. e - 1
  <2>1. CASE e = 1
    BY <2>1 DEF Linked, Bottom, NIL
  <2>2. CASE e # 1
    <3>1. e \in 2 .. Len(E)
      BY <1>1, <2>2
    <3>2. E[e].link \in 1 .. e - 1
      BY <3>1 DEF Linked
    <3> QED  BY <3>1, <3>2
  <2> QED  BY <2>1, <2>2
<1> QED  BY <1>1, <1>2 DEF Older

LEMMA EntryFields ==
  ASSUME NEW E, Linked(E), NEW e \in 1 .. Len(E)
  PROVE  /\ E[e] \in EntryRecord
         /\ E[e].name \in Names \cup {"forth", "kernel"} /\ E[e].kind \in Kinds
         /\ E[e].mode \in SUBSET Modes /\ E[e].link \in Nat /\ E[e].parameter \in Nat
         /\ E[e].voc \in Vocs
         /\ Len(E) \in Nat
<1>1. E[e] \in EntryRecord /\ Len(E) \in Nat
  BY ElementOfSeq, LenProperties DEF Linked
<1> QED  BY <1>1 DEF EntryRecord

(* The entries of a list are the vocabulary's, but for the shared one. *)
LEMMA ListFacts ==
  ASSUME NEW E, Linked(E), NEW L, Rooted(E, L), NEW v \in Vocs
  PROVE  /\ ListOf(E, L, v) \subseteq 1 .. L[v]
         /\ ListOf(E, L, v) \subseteq 1 .. Len(E)
         /\ L[v] \in ListOf(E, L, v) /\ L[v] \in 1 .. Len(E) /\ Len(E) \in Nat
         /\ \A x \in ListOf(E, L, v) : x > Bottom => E[x].voc = v
<1>1. Older(E) /\ L[v] \in 1 .. Len(E) /\ Len(E) \in Nat
  BY LinkedOlder DEF Rooted, Older
<1>2. L[v] \in 0 .. Len(E) /\ L[v] # 0
  BY <1>1
<1>3. ListFrom(L[v], E) \subseteq 1 .. L[v] /\ L[v] \in ListFrom(L[v], E)
  BY <1>1, <1>2, ListBelow
<1> DEFINE S == {x \in Nat : x > Bottom => E[x].voc = v}
<1>4. L[v] \in S
  BY <1>1 DEF Rooted
<1>5. ASSUME NEW x \in 1 .. Len(E), x \in S, E[x].link # 0 PROVE E[x].link \in S
  <2>1. x # 1
    BY <1>5 DEF Linked, Bottom, NIL
  <2>2. x \in 2 .. Len(E) /\ x > Bottom
    BY <2>1 DEF Bottom
  <2>3. E[x].link \in 1 .. x - 1 /\ (E[x].link > Bottom => E[E[x].link].voc = E[x].voc)
    BY <2>2 DEF Linked
  <2>4. E[x].voc = v
    BY <2>2, <1>5
  <2> QED  BY <2>2, <2>3, <2>4
<1> HIDE DEF S
<1>6. ListFrom(L[v], E) \subseteq S
  BY <1>1, <1>2, <1>4, <1>5, ListInSet
<1>7. \A x \in ListFrom(L[v], E) : x > Bottom => E[x].voc = v
  BY <1>6 DEF S
<1> QED  BY <1>1, <1>3, <1>7 DEF ListOf

(* So an entry, but for the shared one, is in one list. *)
LEMMA ListsApart ==
  ASSUME NEW E, Linked(E), NEW L, Rooted(E, L), NEW v \in Vocs, NEW w \in Vocs,
         NEW x \in ListOf(E, L, v), x \in ListOf(E, L, w), x > Bottom
  PROVE  v = w
  BY ListFacts

(* The link of an entry of a list is the next of that list. *)
LEMMA LinkInList ==
  ASSUME NEW E, Linked(E), NEW L, Rooted(E, L), NEW v \in Vocs,
         NEW x \in ListOf(E, L, v), x > Bottom
  PROVE  /\ E[x].link \in ListOf(E, L, v) /\ E[x].link \in 1 .. x - 1
         /\ \A y \in ListOf(E, L, v) : y > E[x].link <=> y >= x
<1>1. Older(E) /\ L[v] \in 0 .. Len(E) /\ x \in ListFrom(L[v], E) /\ Len(E) \in Nat
      /\ ListOf(E, L, v) \subseteq 1 .. Len(E)
  BY LinkedOlder, ListFacts DEF ListOf
<1>2. x \in 2 .. Len(E)
  BY <1>1 DEF Bottom, ListOf
<1>3. E[x].link \in 1 .. x - 1
  BY <1>2 DEF Linked
<1>4. ListFrom(x, E) = {y \in ListFrom(L[v], E) : y <= x}
  BY <1>1, ListSuffix
<1>5. ListFrom(x, E) = {x} \cup ListFrom(E[x].link, E)
  BY <1>1, <1>2, ListUnfolds
<1>6. E[x].link \in 0 .. Len(E) /\ E[x].link # 0
  BY <1>2, <1>3, <1>1
<1>7. ListFrom(E[x].link, E) \subseteq 1 .. E[x].link /\ E[x].link \in ListFrom(E[x].link, E)
  BY <1>1, <1>6, ListBelow
<1>8. E[x].link \in ListFrom(L[v], E)
  BY <1>4, <1>5, <1>7
<1>9. ASSUME NEW y \in ListFrom(L[v], E) PROVE y > E[x].link <=> y >= x
  <2>1. y \in Nat /\ x \in Nat /\ E[x].link \in Nat /\ E[x].link < x
    BY <1>1, <1>2, <1>3 DEF ListOf
  <2>2. CASE y <= x /\ y # x
    BY <2>1, <2>2, <1>4, <1>5, <1>7
  <2>3. CASE y >= x
    BY <2>1, <2>3
  <2> QED  BY <2>1, <2>2, <2>3
<1> QED  BY <1>3, <1>8, <1>9 DEF ListOf

----------------------------------------------------------------------------
(* What the operations do to the lists.                                     *)

(* Changes of names, modes and parameters leave them as they are. *)
LEMMA ListsKept ==
  ASSUME NEW E, Linked(E), NEW L, Rooted(E, L),
         NEW F, Linked(F), Len(F) = Len(E), \A x \in 1 .. Len(E) : F[x].link = E[x].link,
         NEW v \in Vocs
  PROVE  ListOf(F, L, v) = ListOf(E, L, v)
<1>1. Older(E) /\ Older(F) /\ L[v] \in 1 .. Len(E) /\ Len(E) \in Nat
  BY LinkedOlder, ListFacts
<1>2. L[v] \in 0 .. Len(E) /\ L[v] <= Len(F) /\ \A x \in 1 .. L[v] : F[x].link = E[x].link
  BY <1>1
<1>3. ListFrom(L[v], F) = ListFrom(L[v], E)
  BY <1>1, <1>2, ListSame
<1> QED  BY <1>3 DEF ListOf

\* K has x for v, and else what L has.
Changed(L, v, x, K) == K \in [Vocs -> Nat] /\ K[v] = x /\ \A w \in Vocs \ {v} : K[w] = L[w]

(* A vocabulary cut at one of its entries has the entries up to it. *)
LEMMA ListCut ==
  ASSUME NEW E, Linked(E), NEW L, Rooted(E, L), NEW v \in Vocs, NEW x \in ListOf(E, L, v),
         NEW K, Changed(L, v, x, K)
  PROVE  /\ Rooted(E, K)
         /\ \A y : y \in ListOf(E, K, v) <=> y \in ListOf(E, L, v) /\ y <= x
         /\ \A w \in Vocs \ {v} : ListOf(E, K, w) = ListOf(E, L, w)
<1>1. Older(E) /\ L[v] \in 0 .. Len(E) /\ x \in ListFrom(L[v], E) /\ Len(E) \in Nat
      /\ x \in 1 .. Len(E) /\ (x > Bottom => E[x].voc = v)
  BY LinkedOlder, ListFacts DEF ListOf
<1>2. K \in [Vocs -> 1 .. Len(E)] /\ K[v] = x /\ \A w \in Vocs \ {v} : K[w] = L[w]
  BY <1>1 DEF Rooted, Changed
<1>3. Rooted(E, K)
  BY <1>1, <1>2 DEF Rooted
<1>4. ListFrom(x, E) = {y \in ListFrom(L[v], E) : y <= x}
  BY <1>1, ListSuffix
<1>5. \A y : y \in ListOf(E, K, v) <=> y \in ListOf(E, L, v) /\ y <= x
  BY <1>2, <1>4 DEF ListOf
<1>6. \A w \in Vocs \ {v} : ListOf(E, K, w) = ListOf(E, L, w)
  BY <1>2 DEF ListOf
<1> QED  BY <1>3, <1>5, <1>6

\* F is E with one more entry.
Longer(E, new, F) == /\ F \in Seq(EntryRecord) /\ Len(F) = Len(E) + 1 /\ F[Len(E) + 1] = new
                     /\ \A x \in 1 .. Len(E) : F[x] = E[x]

(* A new entry comes first in its vocabulary. *)
LEMMA ListMade ==
  ASSUME NEW E, Linked(E), NEW L, Rooted(E, L), NEW v \in Vocs,
         NEW new \in EntryRecord, new.link = L[v], new.voc = v, new.name \in Names,
         NEW F, Longer(E, new, F), NEW K, Changed(L, v, Len(E) + 1, K)
  PROVE  /\ Len(F) = Len(E) + 1 /\ F[Len(E) + 1] = new
         /\ \A x \in 1 .. Len(E) : F[x] = E[x]
         /\ Linked(F) /\ Rooted(F, K)
         /\ ListOf(F, K, v) = ListOf(E, L, v) \cup {Len(E) + 1}
         /\ \A w \in Vocs \ {v} : ListOf(F, K, w) = ListOf(E, L, w)
<1> DEFINE N == Len(E) + 1
<1>0. E \in Seq(EntryRecord) /\ Len(E) \in Nat /\ Len(E) >= 2
  BY LenProperties DEF Linked, Kernel
<1>1. F \in Seq(EntryRecord) /\ Len(F) = N /\ F[N] = new /\ \A x \in 1 .. Len(E) : F[x] = E[x]
  BY DEF Longer
<1>2. N \in Nat /\ N > 2 /\ 1 .. N = 1 .. Len(E) \cup {N} /\ N \notin 1 .. Len(E)
  BY <1>0
<1>3. L \in [Vocs -> 1 .. Len(E)] /\ L[v] \in 1 .. Len(E)
  BY DEF Rooted
<1>4. 3 .. N = 3 .. Len(E) \cup {N} /\ 2 .. N = 2 .. Len(E) \cup {N}
  BY <1>0
<1>5. \A e \in 3 .. N : F[e].name \in Names
  BY <1>1, <1>4, <1>0 DEF Linked
<1>6. \A e \in 2 .. N : F[e].link \in 1 .. e - 1
  <2>1. F[N].link \in 1 .. N - 1
    BY <1>1, <1>3, <1>0
  <2>2. ASSUME NEW e \in 2 .. Len(E) PROVE F[e].link \in 1 .. e - 1
    <3>1. F[e] = E[e]
      BY <1>1, <1>0
    <3> QED  BY <3>1 DEF Linked
  <2> HIDE DEF N
  <2> QED  BY <2>1, <2>2, <1>4
<1>7. ASSUME NEW e \in 2 .. N, F[e].link > Bottom PROVE F[F[e].link].voc = F[e].voc
  <2>1. CASE e = N
    <3>1. F[e].link = L[v] /\ F[e].voc = v /\ F[L[v]] = E[L[v]]
      BY <2>1, <1>1, <1>3
    <3>2. E[L[v]].voc = v
      BY <3>1, <1>7 DEF Rooted
    <3> QED  BY <3>1, <3>2
  <2>2. CASE e \in 2 .. Len(E)
    <3>1. F[e] = E[e]
      BY <1>1, <1>0, <2>2
    <3>2. E[e].link \in 1 .. e - 1 /\ E[E[e].link].voc = E[e].voc
      BY <3>1, <1>7, <2>2 DEF Linked
    <3>3. F[E[e].link] = E[E[e].link]
      BY <3>2, <1>1, <1>0, <2>2
    <3> QED  BY <3>1, <3>2, <3>3
  <2> QED  BY <2>1, <2>2, <1>4
<1>8. F[Bottom] = E[Bottom] /\ F[Kernel] = E[Kernel]
  BY <1>1, <1>0 DEF Bottom, Kernel
<1>9. Linked(F)
  <2>1. Len(F) >= Kernel
    BY <1>1, <1>2 DEF Kernel
  <2> HIDE DEF N
  <2> QED  BY <1>1, <1>5, <1>6, <1>7, <1>8, <2>1 DEF Linked
<1>10. K \in [Vocs -> 1 .. N] /\ K[v] = N /\ \A w \in Vocs \ {v} : K[w] = L[w]
  <2>1. 1 .. Len(E) \subseteq 1 .. N /\ N \in 1 .. N
    BY <1>2
  <2>2. K \in [Vocs -> Nat] /\ K[v] = N /\ \A w \in Vocs \ {v} : K[w] = L[w]
    BY DEF Changed
  <2> HIDE DEF N
  <2> QED  BY <2>1, <2>2, <1>3
<1>11. Rooted(F, K)
  <2>1. ASSUME NEW w \in Vocs, K[w] > Bottom PROVE F[K[w]].voc = w
    <3>1. CASE w = v
      BY <3>1, <1>1, <1>10
    <3>2. CASE w # v
      <4>1. K[w] = L[w] /\ L[w] \in 1 .. Len(E)
        BY <3>2, <1>10, <1>3
      <4>2. E[L[w]].voc = w
        BY <4>1, <2>1 DEF Rooted
      <4> QED  BY <4>1, <4>2, <1>1
    <3> QED  BY <3>1, <3>2
  <2>2. Len(F) = N
    BY <1>1
  <2> HIDE DEF N
  <2> QED  BY <2>1, <2>2, <1>10 DEF Rooted
<1>12. Older(E) /\ Older(F)
  BY <1>9, LinkedOlder
<1>13. \A w \in Vocs : ListFrom(L[w], F) = ListFrom(L[w], E)
  <2>1. ASSUME NEW w \in Vocs PROVE ListFrom(L[w], F) = ListFrom(L[w], E)
    <3>1. L[w] \in 0 .. Len(E) /\ L[w] <= Len(F) /\ \A x \in 1 .. L[w] : F[x].link = E[x].link
      BY <1>0, <1>1, <1>3
    <3> QED  BY <3>1, <1>12, ListSame
  <2> QED  BY <2>1
<1>14. ListFrom(N, F) = {N} \cup ListFrom(L[v], F)
  <2>1. N \in 1 .. Len(F) /\ F[N].link = L[v]
    BY <1>1, <1>2
  <2>2. ListFrom(N, F) = {N} \cup ListFrom(F[N].link, F)
    BY <2>1, <1>12, ListUnfolds
  <2> QED  BY <2>1, <2>2
<1>15. ListOf(F, K, v) = ListOf(E, L, v) \cup {N}
  BY <1>10, <1>13, <1>14 DEF ListOf
<1>16. \A w \in Vocs \ {v} : ListOf(F, K, w) = ListOf(E, L, w)
  BY <1>10, <1>13 DEF ListOf
<1> QED  BY <1>1, <1>9, <1>11, <1>15, <1>16

----------------------------------------------------------------------------
(* The search.                                                              *)

LEMMA CandidatesBelow ==
  ASSUME NEW E, Linked(E), NEW L, Rooted(E, L), NEW v \in Vocs, NEW cur, NEW n, NEW s
  PROVE  /\ Len(E) \in Nat
         /\ Candidates(E, L, cur, n, v, s) \in SUBSET (1 .. Len(E))
         /\ Candidates(E, L, cur, n, v, s) \in SUBSET (0 .. Len(E))
<1>1. ListOf(E, L, v) \subseteq 1 .. Len(E) /\ Len(E) \in Nat
  BY ListFacts
<1>2. Candidates(E, L, cur, n, v, s) \subseteq ListOf(E, L, v)
  BY DEF Candidates
<1> QED  BY <1>1, <1>2

(* lookup gives the latest candidate of a vocabulary. *)
LEMMA LookupFinds ==
  ASSUME Linked(entry), Rooted(entry, last), NEW v \in Vocs, NEW n, compiling \in BOOLEAN
  PROVE  LET C == Candidates(entry, last, current, n, v, compiling)
         IN  IF C = {} THEN Lookup(n, v) = NIL
             ELSE /\ Lookup(n, v) \in C /\ Lookup(n, v) # NIL
                  /\ \A x \in C : x <= Lookup(n, v)
<1> DEFINE C == Candidates(entry, last, current, n, v, compiling)
<1>1. C = {e \in List(v) : entry[e].name = n /\ Visible(e, v)}
  BY DEF Candidates, ListOf, List, Visible, Shown, ShownIn
<1>2. Lookup(n, v) = First(C)
  BY <1>1 DEF Lookup
<1>3. C \in SUBSET (1 .. Len(entry)) /\ C \in SUBSET (0 .. Len(entry)) /\ Len(entry) \in Nat
  BY CandidatesBelow
<1> HIDE DEF C
<1>4. CASE C = {}
  BY <1>2, <1>4 DEF First, C
<1>5. CASE C # {}
  <2>1. Max(C) \in C /\ \A y \in C : y <= Max(C)
    BY <1>3, <1>5, MaxOfNumbers
  <2>2. Lookup(n, v) = Max(C)
    BY <1>2, <1>5 DEF First
  <2>3. Lookup(n, v) # NIL
    BY <1>3, <2>1, <2>2 DEF NIL
  <2>4. C # {} /\ Lookup(n, v) \in C /\ Lookup(n, v) # NIL /\ \A x \in C : x <= Lookup(n, v)
    BY <1>5, <2>1, <2>2, <2>3
  <2> QED  BY <2>4 DEF C
<1> QED  BY <1>4, <1>5

(* The search gives the first vocabulary's latest candidate, if any. *)
LEMMA SearchGives ==
  ASSUME Linked(entry), Rooted(entry, last), context \in Seq(Vocs), compiling \in BOOLEAN, NEW n
  PROVE  /\ Searched(n) = NIL => \A i \in 1 .. Len(context) :
                                   Candidates(entry, last, current, n, context[i], compiling) = {}
         /\ Searched(n) # NIL =>
              Gives(entry, last, context, current, n, compiling, Searched(n))
<1> DEFINE C(i) == Candidates(entry, last, current, n, context[i], compiling)
           hits == {i \in 1 .. Len(context) : Lookup(n, context[i]) # NIL}
<1>1. Len(context) \in Nat /\ \A i \in 1 .. Len(context) : context[i] \in Vocs
  BY ElementOfSeq, LenProperties
<1>2. \A i \in 1 .. Len(context) :
        IF C(i) = {} THEN Lookup(n, context[i]) = NIL
        ELSE /\ Lookup(n, context[i]) \in C(i) /\ Lookup(n, context[i]) # NIL
             /\ \A x \in C(i) : x <= Lookup(n, context[i])
  BY <1>1, LookupFinds
<1>3. Searched(n) = IF hits = {} THEN NIL ELSE Lookup(n, context[Min(hits)])
  BY DEF Searched
<1>4. hits \in SUBSET Nat /\ hits \subseteq 1 .. Len(context)
  BY <1>1
<1>5. \A i \in 1 .. Len(context) : i \in hits <=> C(i) # {}
  BY <1>2
<1> HIDE DEF hits, C
<1>6. CASE hits = {}
  <2>1. Searched(n) = NIL /\ \A i \in 1 .. Len(context) : C(i) = {}
    BY <1>3, <1>5, <1>6
  <2> QED  BY <2>1 DEF C
<1>7. CASE hits # {}
  <2>1. Min(hits) \in hits /\ \A y \in hits : Min(hits) <= y
    BY <1>4, <1>7, MinOfNumbers
  <2>2. PICK i \in 1 .. Len(context) : i = Min(hits)
    BY <2>1, <1>4
  <2>3. Searched(n) = Lookup(n, context[i])
    BY <1>3, <1>7, <2>2
  <2>4. C(i) # {}
    BY <1>5, <2>1, <2>2
  <2>5. Searched(n) # NIL /\ Searched(n) \in C(i) /\ \A x \in C(i) : x <= Searched(n)
    BY <1>2, <2>3, <2>4
  <2>6. ASSUME NEW j \in 1 .. i - 1 PROVE C(j) = {}
    <3>1. j \in 1 .. Len(context) /\ ~(i <= j)
      BY <1>1
    <3> QED  BY <3>1, <1>5, <2>1, <2>2
  <2>7. Gives(entry, last, context, current, n, compiling, Searched(n))
    BY <2>5, <2>6 DEF Gives, C
  <2> QED  BY <2>5, <2>7
<1> QED  BY <1>6, <1>7

(* It gives one entry. *)
LEMMA GivesOne ==
  ASSUME NEW E, Linked(E), NEW L, Rooted(E, L), NEW ctx \in Seq(Vocs),
         NEW cur, NEW n, NEW s, NEW c, NEW d,
         Gives(E, L, ctx, cur, n, s, c), Gives(E, L, ctx, cur, n, s, d)
  PROVE  c = d
<1> DEFINE C(i) == Candidates(E, L, cur, n, ctx[i], s)
<1>1. PICK i \in 1 .. Len(ctx) : c \in C(i) /\ (\A x \in C(i) : x <= c)
                                 /\ \A j \in 1 .. i - 1 : C(j) = {}
  BY DEF Gives
<1>2. PICK k \in 1 .. Len(ctx) : d \in C(k) /\ (\A x \in C(k) : x <= d)
                                 /\ \A j \in 1 .. k - 1 : C(j) = {}
  BY DEF Gives
<1>3. Len(ctx) \in Nat /\ ctx[i] \in Vocs /\ ctx[k] \in Vocs
  BY ElementOfSeq, LenProperties
<1>4. C(i) \in SUBSET (1 .. Len(E)) /\ C(k) \in SUBSET (1 .. Len(E)) /\ Len(E) \in Nat
  BY <1>3, CandidatesBelow
<1> HIDE DEF C
<1>5. i = k
  <2>1. ~(i < k)
    <3>1. i < k => i \in 1 .. k - 1
      BY <1>3
    <3> QED  BY <3>1, <1>1, <1>2
  <2>2. ~(k < i)
    <3>1. k < i => k \in 1 .. i - 1
      BY <1>3
    <3> QED  BY <3>1, <1>1, <1>2
  <2> QED  BY <2>1, <2>2, <1>3
<1>6. c <= d /\ d <= c /\ c \in Nat /\ d \in Nat
  BY <1>1, <1>2, <1>4, <1>5
<1> QED  BY <1>6

(* While the cache is right, find answers as the search. *)
LEMMA CacheAgrees ==
  ASSUME Linked(entry), Rooted(entry, last), context \in Seq(Vocs), compiling \in BOOLEAN,
         CacheOK(entry, last, cache, context, current), NEW n \in Names
  PROVE  Found(n) = Searched(n)
<1>1. CASE Hit(n)
  <2> DEFINE c == cache[hash[n]]
  <2>1. c # NIL /\ entry[c].name = n /\ ShownIn(entry, c, compiling) /\ Found(n) = c
    BY <1>1 DEF Hit, Found, Shown, ShownIn
  <2>2. Gives(entry, last, context, current, n, compiling, c)
    BY <2>1 DEF CacheOK
  <2> HIDE DEF c
  <2>3. Searched(n) # NIL
    <3>1. PICK i \in 1 .. Len(context) :
                 c \in Candidates(entry, last, current, n, context[i], compiling)
      BY <2>2 DEF Gives
    <3> QED  BY <3>1, SearchGives
  <2>4. Gives(entry, last, context, current, n, compiling, Searched(n))
    BY <2>3, SearchGives
  <2>5. c = Searched(n)
    BY <2>2, <2>4, GivesOne
  <2> QED  BY <2>1, <2>5
<1>2. CASE ~Hit(n)
  BY <1>2 DEF Found
<1> QED  BY <1>1, <1>2

----------------------------------------------------------------------------
(* What keeps the cache right.                                              *)

\* F has the entries of E, up to modes and parameters.
SameWords(E, F) ==
  /\ F \in Seq(EntryRecord) /\ Len(F) = Len(E)
  /\ \A x \in 1 .. Len(E) : /\ F[x].name = E[x].name /\ F[x].kind = E[x].kind
                            /\ F[x].link = E[x].link /\ F[x].voc = E[x].voc

LEMMA SameWordsShape ==
  ASSUME NEW E, Linked(E), NEW L, Rooted(E, L), NEW F, SameWords(E, F)
  PROVE  /\ Linked(F) /\ Rooted(F, L)
         /\ \A v \in Vocs : ListOf(F, L, v) = ListOf(E, L, v)
<1>0. Len(E) \in Nat /\ Len(E) >= 2
  BY LenProperties DEF Linked, Kernel
<1>1. \A x \in 1 .. Len(E) : /\ F[x].name = E[x].name /\ F[x].kind = E[x].kind
                             /\ F[x].link = E[x].link /\ F[x].voc = E[x].voc
  BY DEF SameWords
<1>2. F \in Seq(EntryRecord) /\ Len(F) = Len(E)
  BY DEF SameWords
<1>3. Bottom \in 1 .. Len(E) /\ Kernel \in 1 .. Len(E)
      /\ 2 .. Len(E) \subseteq 1 .. Len(E) /\ 3 .. Len(E) \subseteq 1 .. Len(E)
  BY <1>0 DEF Bottom, Kernel
<1>4. \A e \in 2 .. Len(E) : F[e].link \in 1 .. e - 1
  BY <1>1, <1>3 DEF Linked
<1>5. \A e \in 3 .. Len(E) : F[e].name \in Names
  BY <1>1, <1>3 DEF Linked
<1>6. ASSUME NEW e \in 2 .. Len(E), F[e].link > Bottom PROVE F[F[e].link].voc = F[e].voc
  <2>1. F[e].link = E[e].link /\ F[e].voc = E[e].voc /\ E[e].link \in 1 .. e - 1
    BY <1>1, <1>3 DEF Linked
  <2>2. E[e].link \in 1 .. Len(E)
    BY <2>1, <1>0
  <2>3. F[E[e].link].voc = E[E[e].link].voc
    BY <1>1, <2>2
  <2>4. E[E[e].link].voc = E[e].voc
    BY <2>1, <1>6 DEF Linked
  <2> QED  BY <2>1, <2>3, <2>4
<1>7. /\ F[Bottom].link = NIL /\ F[Bottom].voc = forth
      /\ F[Bottom].name \notin Names /\ F[Kernel].name \notin Names
      /\ F[Bottom].kind # "local" /\ F[Kernel].kind # "local" /\ Len(F) >= Kernel
  BY <1>1, <1>2, <1>3 DEF Linked
<1>8. Linked(F)
  BY <1>2, <1>4, <1>5, <1>6, <1>7 DEF Linked
<1>9. Rooted(F, L)
  BY <1>1, <1>2 DEF Rooted
<1>10. \A x \in 1 .. Len(E) : F[x].link = E[x].link
  BY <1>1
<1>11. \A v \in Vocs : ListOf(F, L, v) = ListOf(E, L, v)
  BY <1>2, <1>8, <1>10, ListsKept
<1> QED  BY <1>8, <1>9, <1>11

(* A search among the same candidates ends at the same entry. *)
LEMMA GivesKept ==
  ASSUME NEW E, NEW L, NEW F, NEW K, NEW ctx \in Seq(Vocs), NEW cur, NEW n, NEW s, NEW c,
         \A v \in Vocs : Candidates(F, K, cur, n, v, s) = Candidates(E, L, cur, n, v, s),
         Gives(E, L, ctx, cur, n, s, c)
  PROVE  Gives(F, K, ctx, cur, n, s, c)
<1>1. Len(ctx) \in Nat /\ \A i \in 1 .. Len(ctx) : ctx[i] \in Vocs
  BY ElementOfSeq, LenProperties
<1>2. \A i \in 1 .. Len(ctx) : Candidates(F, K, cur, n, ctx[i], s) = Candidates(E, L, cur, n, ctx[i], s)
  BY <1>1
<1>3. PICK i \in 1 .. Len(ctx) :
             /\ c \in Candidates(E, L, cur, n, ctx[i], s)
             /\ \A x \in Candidates(E, L, cur, n, ctx[i], s) : x <= c
             /\ \A j \in 1 .. i - 1 : Candidates(E, L, cur, n, ctx[j], s) = {}
  BY DEF Gives
<1>4. \A j \in 1 .. i - 1 : Candidates(F, K, cur, n, ctx[j], s) = {}
  <2>1. ASSUME NEW j \in 1 .. i - 1 PROVE Candidates(F, K, cur, n, ctx[j], s) = {}
    <3>1. j \in 1 .. Len(ctx)
      BY <1>1
    <3> QED  BY <3>1, <1>2, <1>3
  <2> QED  BY <2>1
<1>5. /\ c \in Candidates(F, K, cur, n, ctx[i], s)
      /\ \A x \in Candidates(F, K, cur, n, ctx[i], s) : x <= c
  BY <1>2, <1>3
<1> QED  BY <1>4, <1>5 DEF Gives

(* And so does one among fewer of them, if the entry is still there. *)
LEMMA GivesFewer ==
  ASSUME NEW E, NEW L, NEW F, NEW K, NEW ctx \in Seq(Vocs), NEW cur, NEW n, NEW s, NEW t, NEW c,
         \A v \in Vocs : /\ Candidates(F, K, cur, n, v, t) \subseteq Candidates(E, L, cur, n, v, s)
                         /\ c \in Candidates(E, L, cur, n, v, s) =>
                              c \in Candidates(F, K, cur, n, v, t),
         Gives(E, L, ctx, cur, n, s, c)
  PROVE  Gives(F, K, ctx, cur, n, t, c)
<1>1. Len(ctx) \in Nat /\ \A i \in 1 .. Len(ctx) : ctx[i] \in Vocs
  BY ElementOfSeq, LenProperties
<1>2. \A i \in 1 .. Len(ctx) :
        /\ Candidates(F, K, cur, n, ctx[i], t) \subseteq Candidates(E, L, cur, n, ctx[i], s)
        /\ c \in Candidates(E, L, cur, n, ctx[i], s) => c \in Candidates(F, K, cur, n, ctx[i], t)
  BY <1>1
<1>3. PICK i \in 1 .. Len(ctx) :
             /\ c \in Candidates(E, L, cur, n, ctx[i], s)
             /\ \A x \in Candidates(E, L, cur, n, ctx[i], s) : x <= c
             /\ \A j \in 1 .. i - 1 : Candidates(E, L, cur, n, ctx[j], s) = {}
  BY DEF Gives
<1>4. \A j \in 1 .. i - 1 : Candidates(F, K, cur, n, ctx[j], t) = {}
  <2>1. ASSUME NEW j \in 1 .. i - 1 PROVE Candidates(F, K, cur, n, ctx[j], t) = {}
    <3>1. j \in 1 .. Len(ctx)
      BY <1>1
    <3> QED  BY <3>1, <1>2, <1>3
  <2> QED  BY <2>1
<1>5. /\ c \in Candidates(F, K, cur, n, ctx[i], t)
      /\ \A x \in Candidates(F, K, cur, n, ctx[i], t) : x <= c
  BY <1>2, <1>3
<1> QED  BY <1>4, <1>5 DEF Gives

(* Parameters do not matter to the search. *)
LEMMA CacheSameModes ==
  ASSUME NEW E, Linked(E), NEW L, Rooted(E, L), NEW F, SameWords(E, F),
         \A x \in 1 .. Len(E) : F[x].mode = E[x].mode,
         NEW ctx \in Seq(Vocs), NEW cur, NEW C,
         CacheOK(E, L, C, ctx, cur)
  PROVE  CacheOK(F, L, C, ctx, cur)
<1>0. C \in [Buckets -> 0 .. Len(E)] /\ Len(F) = Len(E)
  BY DEF CacheOK, SameWords
<1>1. \A x \in 1 .. Len(E) : F[x].name = E[x].name /\ F[x].mode = E[x].mode
  BY DEF SameWords
<1>2. ASSUME NEW v \in Vocs, NEW n, NEW s
      PROVE  Candidates(F, L, cur, n, v, s) = Candidates(E, L, cur, n, v, s)
  <2>1. ListOf(F, L, v) = ListOf(E, L, v) /\ ListOf(E, L, v) \subseteq 1 .. Len(E)
    BY SameWordsShape, ListFacts
  <2> QED  BY <1>1, <2>1 DEF Candidates, ShownIn
<1>3. ASSUME NEW n \in Names, NEW s \in BOOLEAN,
             C[hash[n]] # NIL, F[C[hash[n]]].name = n, ShownIn(F, C[hash[n]], s)
      PROVE  Gives(F, L, ctx, cur, n, s, C[hash[n]])
  <2>1. C[hash[n]] \in 1 .. Len(E)
    <3>1. C[hash[n]] \in 0 .. Len(E) /\ Len(E) \in Nat
      BY <1>0, LinkedOlder DEF Buckets, Older
    <3> QED  BY <3>1, <1>3 DEF NIL
  <2>2. E[C[hash[n]]].name = n /\ ShownIn(E, C[hash[n]], s)
    BY <1>1, <1>3, <2>1 DEF ShownIn
  <2>3. Gives(E, L, ctx, cur, n, s, C[hash[n]])
    BY <1>3, <2>2 DEF CacheOK
  <2> QED  BY <1>2, <2>3, GivesKept
<1> QED  BY <1>0, <1>3 DEF CacheOK

(* What find puts into the cache holds in the other state of the compiler, *)
(* too: only local names and names defined once depend on the state.       *)
LEMMA CacheFound ==
  ASSUME Linked(entry), Rooted(entry, last), Moded(entry), context \in Seq(Vocs),
         compiling \in BOOLEAN,
         CacheOK(entry, last, cache, context, current),
         ~compiling => \A v \in Vocs : \A e \in List(v) : entry[e].kind # "local",
         NEW n \in Names
  PROVE  CacheOK(entry, last, CacheAfterFind(n), context, current)
<1> DEFINE c == Found(n)
<1>1. c = Searched(n)
  BY CacheAgrees
<1> HIDE DEF c
<1>0. cache \in [Buckets -> 0 .. Len(entry)]
  BY DEF CacheOK
<1>2. CASE c = NIL
  BY <1>2 DEF CacheAfterFind, c
<1>3. CASE c # NIL
  <2>1. CacheAfterFind(n) = [cache EXCEPT ![hash[n]] = c] /\ hash[n] \in Buckets
    BY <1>3 DEF CacheAfterFind, c, Buckets
  <2>2. Gives(entry, last, context, current, n, compiling, c)
    BY <1>1, <1>3, SearchGives
  <2>3. PICK i \in 1 .. Len(context) :
               c \in Candidates(entry, last, current, n, context[i], compiling)
    BY <2>2 DEF Gives
  <2>4. context[i] \in Vocs
    BY ElementOfSeq
  <2>5. c \in 1 .. Len(entry) /\ Len(entry) \in Nat
    BY <2>3, <2>4, CandidatesBelow
  <2>6. /\ entry[c].name = n /\ c \in ListOf(entry, last, context[i])
        /\ ShownIn(entry, c, compiling)
    BY <2>3 DEF Candidates
  <2>7. ASSUME NEW s \in BOOLEAN, ShownIn(entry, c, s)
        PROVE  Gives(entry, last, context, current, n, s, c)
    <3>1. CASE s = compiling
      BY <3>1, <2>2
    <3>2. CASE s # compiling
      <4>1. ASSUME NEW x \in 1 .. Len(entry), entry[x].kind = "local", ShownIn(entry, x, s),
                   NEW v \in Vocs, x \in ListOf(entry, last, v)
            PROVE  FALSE
        <5>1. s = TRUE
          BY <4>1 DEF Moded, ShownIn
        <5>2. ~compiling
          BY <5>1, <3>2
        <5> QED  BY <5>2, <4>1 DEF ListOf, List
      <4>2. entry[c].kind # "local"
        BY <4>1, <2>4, <2>5, <2>6, <2>7
      <4>3. ASSUME NEW v \in Vocs, NEW x \in Candidates(entry, last, current, n, v, s)
            PROVE  x \in Candidates(entry, last, current, n, v, compiling)
        <5>1. x \in 1 .. Len(entry)
          BY CandidatesBelow
        <5>2. /\ x \in ListOf(entry, last, v) /\ entry[x].name = n /\ ShownIn(entry, x, s)
              /\ "private" \in entry[x].mode => v = current
          BY DEF Candidates
        <5>3. entry[x].kind # "local"
          BY <4>1, <5>1, <5>2
        <5>4. ShownIn(entry, x, compiling)
          <6>1. CASE x = c
            BY <6>1, <2>6
          <6>2. CASE x # c
            <7>1. entry[x].mode \ {"immediate"} \in {NORMAL, HIDDEN}
              BY <6>2, <5>1, <5>2, <5>3, <4>2, <2>5, <2>6 DEF Moded
            <7>2. ~(HIDDEN \subseteq entry[x].mode)
              BY <5>2 DEF ShownIn, HIDDEN
            <7> QED  BY <7>1, <7>2 DEF ShownIn, NORMAL, HIDDEN
          <6> QED  BY <6>1, <6>2
        <5> QED  BY <5>2, <5>4 DEF Candidates
      <4>4. \A v \in Vocs : c \in Candidates(entry, last, current, n, v, compiling) =>
                              c \in Candidates(entry, last, current, n, v, s)
        BY <2>7 DEF Candidates
      <4> QED  BY <2>2, <4>3, <4>4, GivesFewer
    <3> QED  BY <3>1, <3>2
  <2>8. CacheAfterFind(n) \in [Buckets -> 0 .. Len(entry)]
    BY <1>0, <2>1, <2>5
  <2> DEFINE C == CacheAfterFind(n)
  <2>9. \A b \in Buckets : C[b] = IF b = hash[n] THEN c ELSE cache[b]
    BY <1>0, <2>1
  <2>9a. C \in [Buckets -> 0 .. Len(entry)]
    BY <2>8
  <2> HIDE DEF C
  <2>10. ASSUME NEW m \in Names, NEW s \in BOOLEAN,
                C[hash[m]] # NIL, entry[C[hash[m]]].name = m, ShownIn(entry, C[hash[m]], s)
         PROVE  Gives(entry, last, context, current, m, s, C[hash[m]])
    <3>1. hash[m] \in Buckets
      BY DEF Buckets
    <3>2. CASE hash[m] = hash[n]
      <4>1. C[hash[m]] = c /\ m = n
        BY <3>1, <3>2, <2>6, <2>9, <2>10
      <4> QED  BY <4>1, <2>7, <2>10
    <3>3. CASE hash[m] # hash[n]
      <4>1. C[hash[m]] = cache[hash[m]]
        BY <3>1, <3>3, <2>9
      <4> QED  BY <4>1, <2>10 DEF CacheOK
    <3> QED  BY <3>2, <3>3
  <2>11. CacheOK(entry, last, C, context, current)
    BY <2>9a, <2>10 DEF CacheOK
  <2> QED  BY <2>11 DEF C
<1> QED  BY <1>2, <1>3

\* The vocabulary searched first is cur.
Leads(ctx, cur) == ctx \in Seq(Vocs) /\ ctx # <<>> /\ ctx[1] = cur

\* D has x in bucket b, and else what C has.
Cached(C, b, x, D) == D \in [Buckets -> Nat]
                      /\ \A a \in Buckets : D[a] = IF a = b THEN x ELSE C[a]

(* A new entry of the vocabulary searched first is what the search gives. *)
LEMMA CacheMade ==
  ASSUME NEW E, Linked(E), NEW L, Rooted(E, L), NEW cur \in Vocs, NEW ctx, Leads(ctx, cur),
         NEW C, CacheOK(E, L, C, ctx, cur),
         NEW new \in EntryRecord, new.link = L[cur], new.voc = cur, new.name \in Names,
         new.mode \in {NORMAL, HIDDEN, {"compilation"}},
         NEW F, Longer(E, new, F), NEW K, Changed(L, cur, Len(E) + 1, K),
         NEW D, Cached(C, hash[new.name], Len(E) + 1, D)
  PROVE  CacheOK(F, K, D, ctx, cur)
<1> DEFINE N == Len(E) + 1
<1>1. /\ Len(F) = N /\ F[N] = new /\ (\A x \in 1 .. Len(E) : F[x] = E[x])
      /\ Linked(F) /\ Rooted(F, K)
      /\ ListOf(F, K, cur) = ListOf(E, L, cur) \cup {N}
      /\ \A w \in Vocs \ {cur} : ListOf(F, K, w) = ListOf(E, L, w)
  BY ListMade
<1>2. C \in [Buckets -> 0 .. Len(E)] /\ Len(E) \in Nat /\ N \in Nat /\ N \notin 1 .. Len(E)
  BY LinkedOlder DEF Older, CacheOK
<1>3. D \in [Buckets -> 0 .. N]
      /\ \A b \in Buckets : D[b] = IF b = hash[new.name] THEN N ELSE C[b]
  BY <1>2 DEF Cached, Buckets
<1>4. ctx \in Seq(Vocs) /\ 1 \in 1 .. Len(ctx) /\ ctx[1] = cur
  BY LenProperties, EmptySeq DEF Leads
<1>5. ASSUME NEW v \in Vocs, NEW m, m # new.name, NEW s
      PROVE  Candidates(F, K, cur, m, v, s) = Candidates(E, L, cur, m, v, s)
  <2>1. ListOf(E, L, v) \subseteq 1 .. Len(E)
    BY ListFacts
  <2>2. ListOf(F, K, v) = ListOf(E, L, v) \cup (IF v = cur THEN {N} ELSE {})
    BY <1>1
  <2>3. \A x \in ListOf(E, L, v) : F[x] = E[x]
    BY <1>1, <2>1
  <2>4. F[N].name # m
    BY <1>1, <1>5
  <2> HIDE DEF N
  <2> QED  BY <2>2, <2>3, <2>4 DEF Candidates, ShownIn
<1>6. ASSUME NEW s \in BOOLEAN, ShownIn(F, N, s)
      PROVE  Gives(F, K, ctx, cur, new.name, s, N)
  <2>1. "private" \notin F[N].mode
    BY <1>1 DEF NORMAL, HIDDEN
  <2>2. N \in Candidates(F, K, cur, new.name, cur, s)
    BY <1>1, <1>6, <2>1 DEF Candidates
  <2>3. Candidates(F, K, cur, new.name, cur, s) \subseteq 1 .. N
    BY <1>1, CandidatesBelow
  <2>4. \A x \in Candidates(F, K, cur, new.name, cur, s) : x <= N
    BY <2>3, <1>2
  <2>5. 1 .. 1 - 1 = {}
    OBVIOUS
  <2> HIDE DEF N
  <2> QED  BY <1>4, <2>2, <2>4, <2>5 DEF Gives
<1>7. ASSUME NEW m \in Names, NEW s \in BOOLEAN,
             D[hash[m]] # NIL, F[D[hash[m]]].name = m, ShownIn(F, D[hash[m]], s)
      PROVE  Gives(F, K, ctx, cur, m, s, D[hash[m]])
  <2>1. hash[m] \in Buckets
    BY DEF Buckets
  <2>2. CASE hash[m] = hash[new.name]
    <3>1. D[hash[m]] = N
      BY <1>3, <2>1, <2>2
    <3>2. m = new.name
      BY <1>1, <1>7, <3>1
    <3> QED  BY <3>1, <3>2, <1>6, <1>7
  <2>3. CASE hash[m] # hash[new.name]
    <3>1. D[hash[m]] = C[hash[m]] /\ C[hash[m]] \in 0 .. Len(E)
      BY <1>2, <1>3, <2>1, <2>3
    <3>2. C[hash[m]] \in 1 .. Len(E)
      BY <3>1, <1>7, <1>2 DEF NIL
    <3>3. F[C[hash[m]]] = E[C[hash[m]]]
      BY <1>1, <3>2
    <3>4. Gives(E, L, ctx, cur, m, s, C[hash[m]])
      BY <1>7, <3>1, <3>3 DEF CacheOK, ShownIn
    <3>5. m # new.name
      BY <2>3
    <3>6. Gives(F, K, ctx, cur, m, s, C[hash[m]])
      BY <1>5, <3>4, <3>5, <1>4, GivesKept
    <3> QED  BY <3>1, <3>6
  <2> QED  BY <2>2, <2>3
<1>9. D \in [Buckets -> 0 .. Len(F)]
  BY <1>1, <1>3
<1> QED  BY <1>7, <1>9 DEF CacheOK

\* D has nothing for the names that are in vocabulary v above x.
Flushes(E, L, C, v, x, D) ==
  /\ D \in [Buckets -> Nat]
  /\ \A b \in Buckets :
       D[b] = IF \E y \in ListOf(E, L, v) : y > x /\ E[y].name \in Names /\ hash[E[y].name] = b
              THEN NIL ELSE C[b]

(* restore flushes the buckets of the names it removes. *)
LEMMA CacheCut ==
  ASSUME NEW E, Linked(E), NEW L, Rooted(E, L), NEW ctx \in Seq(Vocs), NEW cur \in Vocs,
         NEW C, CacheOK(E, L, C, ctx, cur),
         NEW x \in ListOf(E, L, cur),
         NEW K, Changed(L, cur, x, K), NEW D, Flushes(E, L, C, cur, x, D)
  PROVE  CacheOK(E, K, D, ctx, cur)
<1>1. /\ Rooted(E, K)
      /\ \A y : y \in ListOf(E, K, cur) <=> y \in ListOf(E, L, cur) /\ y <= x
      /\ \A w \in Vocs \ {cur} : ListOf(E, K, w) = ListOf(E, L, w)
  BY ListCut
<1>2. C \in [Buckets -> 0 .. Len(E)]
  BY DEF CacheOK
<1>2a. Len(E) \in Nat /\ ListOf(E, L, cur) \subseteq 1 .. Len(E)
  BY ListFacts
<1>3. D \in [Buckets -> 0 .. Len(E)]
  BY <1>2, <1>2a DEF NIL, Flushes
<1>4. ASSUME NEW m \in Names, NEW v \in Vocs, NEW s,
             \A y \in ListOf(E, L, cur) : y > x => E[y].name # m
      PROVE  Candidates(E, K, cur, m, v, s) = Candidates(E, L, cur, m, v, s)
  <2>1. CASE v = cur
    <3>2. \A y \in ListOf(E, L, cur) : y <= x \/ y > x
      BY <1>2a
    <3>3. \A y : (y \in ListOf(E, L, cur) /\ E[y].name = m) <=>
                 (y \in ListOf(E, K, cur) /\ E[y].name = m)
      BY <1>1, <1>4, <3>2
    <3> QED  BY <2>1, <3>3 DEF Candidates
  <2>2. CASE v # cur
    BY <2>2, <1>1 DEF Candidates
  <2> QED  BY <2>1, <2>2
<1>5. ASSUME NEW m \in Names, NEW s \in BOOLEAN,
             D[hash[m]] # NIL, E[D[hash[m]]].name = m, ShownIn(E, D[hash[m]], s)
      PROVE  Gives(E, K, ctx, cur, m, s, D[hash[m]])
  <2>1. hash[m] \in Buckets
    BY DEF Buckets
  <2>2. /\ \A y \in ListOf(E, L, cur) : y > x => E[y].name # m
        /\ D[hash[m]] = C[hash[m]]
    BY <2>1, <1>5 DEF Flushes
  <2>3. Gives(E, L, ctx, cur, m, s, C[hash[m]])
    BY <1>5, <2>2 DEF CacheOK
  <2>4. Gives(E, K, ctx, cur, m, s, C[hash[m]])
    BY <1>4, <2>2, <2>3, GivesKept
  <2> QED  BY <2>2, <2>4
<1>6. CacheOK(E, K, D, ctx, cur)
  BY <1>3, <1>5 DEF CacheOK
<1> QED  BY <1>6

(* ; makes the latest word visible and caches it. *)
LEMMA CacheCompleted ==
  ASSUME NEW E, Linked(E), NEW L, Rooted(E, L), NEW cur \in Vocs, NEW ctx, Leads(ctx, cur),
         NEW C, CacheOK(E, L, C, ctx, cur),
         E[L[cur]].name \in Names,
         NEW F, SameWords(E, F), F[L[cur]].mode = NORMAL,
         \A x \in 1 .. Len(E) : x # L[cur] => F[x].mode = E[x].mode,
         NEW D, Cached(C, hash[E[L[cur]].name], L[cur], D)
  PROVE  CacheOK(F, L, D, ctx, cur)
<1> DEFINE t == L[cur]
           n == E[t].name
<1>1. Linked(F) /\ Rooted(F, L) /\ \A v \in Vocs : ListOf(F, L, v) = ListOf(E, L, v)
  BY SameWordsShape
<1>2. /\ Len(E) \in Nat /\ t \in 1 .. Len(E) /\ t \in ListOf(E, L, cur)
      /\ ListOf(E, L, cur) \subseteq 1 .. t
  BY ListFacts
<1>2a. C \in [Buckets -> 0 .. Len(E)]
  BY DEF CacheOK
<1>3. \A x \in 1 .. Len(E) : F[x].name = E[x].name
  BY DEF SameWords
<1>4. \A x \in 1 .. Len(E) : x # t => F[x].mode = E[x].mode
  OBVIOUS
<1>5. /\ F[t].mode = NORMAL /\ n \in Names
      /\ \A b \in Buckets : D[b] = IF b = hash[n] THEN t ELSE C[b]
      /\ D \in [Buckets -> 0 .. Len(E)]
  BY <1>2, <1>2a DEF Cached, Buckets
<1>6. ctx \in Seq(Vocs) /\ 1 \in 1 .. Len(ctx) /\ ctx[1] = cur
  BY LenProperties, EmptySeq DEF Leads
<1> HIDE DEF t
<1>7. ASSUME NEW v \in Vocs, NEW m, m # n, NEW s
      PROVE  Candidates(F, L, cur, m, v, s) = Candidates(E, L, cur, m, v, s)
  <2>1. ListOf(F, L, v) = ListOf(E, L, v) /\ ListOf(E, L, v) \subseteq 1 .. Len(E)
    BY <1>1, ListFacts
  <2>2. \A x \in ListOf(E, L, v) : F[x].name = E[x].name
                                   /\ (F[x].name = m => F[x].mode = E[x].mode)
    BY <2>1, <1>3, <1>4, <1>7
  <2> QED  BY <2>1, <2>2 DEF Candidates, ShownIn
<1> HIDE DEF n
<1>8. ASSUME NEW s PROVE Gives(F, L, ctx, cur, n, s, t)
  <2>1. t \in Candidates(F, L, cur, n, cur, s)
    BY <1>1, <1>2, <1>3, <1>5 DEF Candidates, ShownIn, NORMAL, n
  <2>2. Candidates(F, L, cur, n, cur, s) \subseteq 1 .. t
    BY <1>1, <1>2 DEF Candidates
  <2>3. \A x \in Candidates(F, L, cur, n, cur, s) : x <= t
    BY <2>2, <1>2
  <2>4. 1 .. 1 - 1 = {}
    OBVIOUS
  <2> QED  BY <1>6, <2>1, <2>3, <2>4 DEF Gives
<1>9. ASSUME NEW m \in Names, NEW s \in BOOLEAN,
             D[hash[m]] # NIL, F[D[hash[m]]].name = m, ShownIn(F, D[hash[m]], s)
      PROVE  Gives(F, L, ctx, cur, m, s, D[hash[m]])
  <2>1. hash[m] \in Buckets
    BY DEF Buckets
  <2>2. CASE hash[m] = hash[n]
    <3>1. D[hash[m]] = t
      BY <1>5, <2>1, <2>2
    <3>2. m = n
      BY <1>2, <1>3, <1>9, <3>1 DEF n
    <3> QED  BY <3>1, <3>2, <1>8
  <2>3. CASE hash[m] # hash[n]
    <3>1. D[hash[m]] = C[hash[m]] /\ C[hash[m]] \in 0 .. Len(E)
      BY <1>5, <2>1, <2>3
    <3>2. C[hash[m]] \in 1 .. Len(E)
      BY <3>1, <1>9, <1>2 DEF NIL
    <3>3. m # n /\ C[hash[m]] # t
      BY <2>3, <1>9, <1>3, <1>2, <3>1 DEF n
    <3>4. F[C[hash[m]]].name = E[C[hash[m]]].name /\ F[C[hash[m]]].mode = E[C[hash[m]]].mode
      BY <1>3, <1>4, <3>2, <3>3
    <3>5. Gives(E, L, ctx, cur, m, s, C[hash[m]])
      BY <1>9, <3>1, <3>4 DEF CacheOK, ShownIn
    <3>6. Gives(F, L, ctx, cur, m, s, C[hash[m]])
      BY <1>7, <3>3, <3>5, <1>6, GivesKept
    <3> QED  BY <3>1, <3>6
  <2> QED  BY <2>2, <2>3
<1>10. Len(F) = Len(E)
  BY DEF SameWords
<1> QED  BY <1>5, <1>9, <1>10 DEF CacheOK

(* Another mode for the latest word of a vocabulary hides it in a state of *)
(* the compiler; in the other the search still gives it.                   *)
LEMMA CacheModed ==
  ASSUME NEW E, Linked(E), NEW L, Rooted(E, L), NEW ctx \in Seq(Vocs), NEW cur \in Vocs,
         NEW C, CacheOK(E, L, C, ctx, cur),
         NEW m, NEW F, SameWords(E, F), L[cur] > Kernel,
         F[L[cur]].mode = E[L[cur]].mode \cup {m},
         \A x \in 1 .. Len(E) : x # L[cur] => F[x].mode = E[x].mode,
         \A v \in Vocs : \A e \in ListOf(E, L, v) : E[e].kind # "local",
         m # "immediate" => \A x \in 1 .. Len(E) :
           E[x].name = E[L[cur]].name /\ E[x].kind # "local" => x = L[cur]
  PROVE  CacheOK(F, L, C, ctx, cur)
<1> DEFINE t == L[cur]
           n == E[t].name
<1>1. Linked(F) /\ Rooted(F, L) /\ \A v \in Vocs : ListOf(F, L, v) = ListOf(E, L, v)
  BY SameWordsShape
<1>2. Len(E) \in Nat /\ t \in 1 .. Len(E) /\ t \in ListOf(E, L, cur) /\ t > Bottom
  BY ListFacts DEF Kernel, Bottom
<1>3. \A x \in 1 .. Len(E) : F[x].name = E[x].name
  BY DEF SameWords
<1>4. F[t].mode = E[t].mode \cup {m} /\ \A x \in 1 .. Len(E) : x # t => F[x].mode = E[x].mode
  OBVIOUS
<1>5. m # "immediate" =>
        \A x \in 1 .. Len(E) : E[x].name = n /\ E[x].kind # "local" => x = t
  OBVIOUS
<1> HIDE DEF t
<1>0. C \in [Buckets -> 0 .. Len(E)] /\ Len(F) = Len(E)
  BY DEF CacheOK, SameWords
<1>6. \A v \in Vocs : ListOf(E, L, v) \subseteq 1 .. Len(E)
  BY ListFacts
<1>7. ASSUME NEW x \in 1 .. Len(E), NEW s, ShownIn(F, x, s)
      PROVE  ShownIn(E, x, s)
  BY <1>4, <1>7 DEF ShownIn
<1>8. ASSUME NEW p \in Names, NEW s \in BOOLEAN,
             C[hash[p]] # NIL, F[C[hash[p]]].name = p, ShownIn(F, C[hash[p]], s)
      PROVE  Gives(F, L, ctx, cur, p, s, C[hash[p]])
  <2> DEFINE c == C[hash[p]]
  <2>1. c \in 0 .. Len(E)
    BY <1>0 DEF Buckets
  <2>2. c \in 1 .. Len(E)
    BY <2>1, <1>8, <1>2 DEF NIL
  <2>3. E[c].name = p /\ ShownIn(E, c, s)
    BY <1>3, <1>7, <1>8, <2>2
  <2>4. Gives(E, L, ctx, cur, p, s, c)
    BY <1>8, <2>3 DEF CacheOK
  <2> HIDE DEF c
  <2>5. CASE m = "immediate" \/ p # n
    <3>1. ASSUME NEW v \in Vocs
          PROVE  Candidates(F, L, cur, p, v, s) = Candidates(E, L, cur, p, v, s)
      <4>1. \A x \in ListOf(E, L, v) :
              /\ F[x].name = E[x].name
              /\ F[x].name = p =>
                   \A o \in {"compilation", "execution", "private"} :
                     o \in F[x].mode <=> o \in E[x].mode
        BY <1>3, <1>4, <1>6, <2>5
      <4> QED  BY <4>1, <1>1 DEF Candidates, ShownIn
    <3> QED  BY <3>1, <2>4, GivesKept DEF c
  <2>6. CASE m # "immediate" /\ p = n
    <3>1. PICK i \in 1 .. Len(ctx) : c \in Candidates(E, L, cur, p, ctx[i], s)
      BY <2>4 DEF Gives
    <3>2. ctx[i] \in Vocs
      BY ElementOfSeq
    <3>3. c = t
      BY <3>1, <3>2, <2>2, <2>3, <2>6, <1>5 DEF Candidates
    <3>4. ASSUME NEW v \in Vocs
          PROVE  /\ Candidates(F, L, cur, p, v, s) \subseteq Candidates(E, L, cur, p, v, s)
                 /\ c \in Candidates(E, L, cur, p, v, s) => c \in Candidates(F, L, cur, p, v, s)
      <4>1. \A x \in ListOf(E, L, v) :
              /\ x \in 1 .. Len(E) /\ F[x].name = E[x].name /\ E[x].mode \subseteq F[x].mode
              /\ ShownIn(F, x, s) => ShownIn(E, x, s)
        BY <1>3, <1>4, <1>6, <1>7
      <4>2. Candidates(F, L, cur, p, v, s) \subseteq Candidates(E, L, cur, p, v, s)
        BY <4>1, <1>1 DEF Candidates
      <4>3. ASSUME c \in Candidates(E, L, cur, p, v, s)
            PROVE  c \in Candidates(F, L, cur, p, v, s)
        <5>1. c \in ListOf(E, L, v)
          BY <4>3 DEF Candidates
        <5>2. v = cur
          BY <5>1, <3>3, <1>2, ListsApart
        <5> QED  BY <5>1, <5>2, <1>1, <1>8 DEF Candidates, c
      <4> QED  BY <4>2, <4>3
    <3> QED  BY <3>4, <2>4, GivesFewer DEF c
  <2> QED  BY <2>5, <2>6
<1> QED  BY <1>0, <1>8 DEF CacheOK

----------------------------------------------------------------------------
(* The rest of the invariant.                                               *)

\* Local names are in the current vocabulary only, above the entry f.
LocalsAbove(E, L, cur, f) ==
  \A v \in Vocs : \A e \in ListOf(E, L, v) :
    E[e].kind = "local" => v = cur /\ f # NIL /\ e > f

\* Words stay until forgotten.
WordsThere(E, L, gone) ==
  \A e \in (1 .. Len(E)) \ gone : E[e].kind # "local" => e \in ListOf(E, L, E[e].voc)

\* Later definitions of the name of e in a vocabulary.
Later(E, L, v, e) ==
  {d \in ListOf(E, L, v) : d > e /\ E[d].name = E[e].name /\ E[d].kind # "local"}

\* A definition that is complete, or would be after the next ;
Completable(E, d, open) ==
  \/ ~(HIDDEN \subseteq E[d].mode)
  \/ d = open /\ \A x \in d + 1 .. Len(E) : E[x].kind = "local"

\* A forward declaration with such later definitions executes one that is no
\* later than any of them: it is not forgotten before they are.
Redirected(E, L, open) ==
  \A v \in Vocs : \A e \in ListOf(E, L, v) :
    E[e].kind = "forward" =>
      \A d \in Later(E, L, v, e) :
        Completable(E, d, open) => /\ E[e].parameter \in Later(E, L, v, e)
                                   /\ E[e].parameter <= d

\* Under the local names is the definition that is open.
LocalsFramed ==
  theframed # NIL =>
    /\ compiling /\ theframed \in ListOf(entry, last, current)
    /\ \A x \in ListOf(entry, last, current) : x > theframed => entry[x].kind = "local"
    /\ thelast # NIL => theframed = thelast

\* While it is compiled, it is the latest word.
WordOpen ==
  /\ thelast # NIL => thelast \in 3 .. Len(entry) /\ entry[thelast].kind = "colon"
  /\ compiling => current = context[1]
  /\ compiling /\ thelast # NIL =>
       /\ \A e \in thelast + 1 .. Len(entry) : entry[e].kind = "local"
       /\ theframed = NIL => thelast = last[current]

Registers ==
  /\ context \in Seq(Vocs) /\ context # <<>> /\ current \in Vocs
  /\ compiling \in BOOLEAN /\ thelast \in 0 .. Len(entry) /\ theframed \in 0 .. Len(entry)
  /\ forgotten \subseteq 1 .. Len(entry)

Inv == /\ Linked(entry) /\ Rooted(entry, last) /\ Moded(entry)
       /\ Registers
       /\ CacheOK(entry, last, cache, context, current)
       /\ LocalsFramed /\ WordOpen
       /\ LocalsAbove(entry, last, current, theframed)
       /\ WordsThere(entry, last, forgotten)
       /\ Redirected(entry, last, thelast)

(* It implies the properties. *)
LEMMA InvImplies ==
  ASSUME Inv
  PROVE  FindAgrees /\ DefinitionsStay /\ LocalsRemoved /\ ForwardsResolved
<1>1. FindAgrees
  BY CacheAgrees DEF Inv, Registers, FindAgrees
<1>2. DefinitionsStay
  BY DEF Inv, WordsThere, DefinitionsStay, Entries, List, ListOf
<1>3. LocalsRemoved
  BY DEF Inv, LocalsAbove, LocalsFramed, LocalsRemoved, List, ListOf
<1>4. ForwardsResolved
  <2> SUFFICES ASSUME NEW v \in Vocs, NEW e \in List(v), entry[e].kind = "forward",
                      NEW d \in {x \in List(v) : x > e /\ entry[x].name = entry[e].name
                                                 /\ entry[x].kind # "local"},
                      ~(HIDDEN \subseteq entry[d].mode)
               PROVE  entry[e].parameter \in
                        {x \in List(v) : x > e /\ entry[x].name = entry[e].name
                                         /\ entry[x].kind # "local"}
    BY DEF ForwardsResolved
  <2>1. e \in ListOf(entry, last, v) /\ d \in Later(entry, last, v, e)
        /\ Completable(entry, d, thelast)
    BY DEF List, ListOf, Later, Completable
  <2>2. entry[e].parameter \in Later(entry, last, v, e)
    BY <2>1 DEF Inv, Redirected
  <2> QED  BY <2>2 DEF List, ListOf, Later
<1> QED  BY <1>1, <1>2, <1>3, <1>4

----------------------------------------------------------------------------
(* Cutting a vocabulary.                                                    *)

(* What restore does to lists and cache. *)
LEMMA RestoredFields ==
  ASSUME NEW E, Linked(E), NEW L, Rooted(E, L), NEW C, C \in [Buckets -> Nat],
         NEW d, d = [entry |-> E, last |-> L, cache |-> C],
         current \in Vocs, NEW x \in ListOf(E, L, current),
         NEW r, r = Restored(d, x)
  PROVE  r.entry = E /\ Changed(L, current, x, r.last) /\ Flushes(E, L, C, current, x, r.cache)
<1> DEFINE list == ListFrom(L[current], E)
           above == IF x \in list THEN {y \in list : y > x} ELSE list
           names == {E[y].name : y \in above} \cap Names
           D == [b \in Buckets |-> IF b \in {hash[n] : n \in names} THEN NIL ELSE C[b]]
           K == [L EXCEPT ![current] = x]
<1>1. x \in 1 .. Len(E) /\ x # NIL /\ x \in Nat
  BY ListFacts DEF NIL
<1>2. list = ListOf(E, L, current) /\ x \in list
  BY DEF ListOf
<1>3. L \in [Vocs -> Nat]
  BY DEF Rooted
<1>4. r.entry = E /\ r.last = K
  BY <1>1, <1>2 DEF Restored
<1>5. r.cache = D
  BY <1>1 DEF Restored
<1>6. \A y : y \in above <=> y \in ListOf(E, L, current) /\ y > x
  BY <1>2
<1> HIDE DEF above
<1>7. \A b : b \in {hash[n] : n \in names} <=>
              \E y \in ListOf(E, L, current) : y > x /\ E[y].name \in Names /\ hash[E[y].name] = b
  BY <1>6
<1> HIDE DEF names
<1>8. D \in [Buckets -> Nat]
  BY DEF NIL
<1>9. Flushes(E, L, C, current, x, D)
  BY <1>7, <1>8 DEF Flushes
<1>10. Changed(L, current, x, K)
  BY <1>1, <1>3 DEF Changed
<1> HIDE DEF D, K
<1> QED  BY <1>4, <1>5, <1>9, <1>10

(* Words of other kinds than local stay when only local names are cut off. *)
LEMMA WordsThereCut ==
  ASSUME NEW E, Linked(E), NEW L, Rooted(E, L), NEW v \in Vocs, NEW x \in ListOf(E, L, v),
         NEW K, Changed(L, v, x, K), NEW gone, WordsThere(E, L, gone),
         NEW more, \A y \in ListOf(E, L, v) : y > x => E[y].kind = "local" \/ y \in more,
         gone \subseteq more
  PROVE  WordsThere(E, K, more)
<1>1. /\ \A y : y \in ListOf(E, K, v) <=> y \in ListOf(E, L, v) /\ y <= x
      /\ \A w \in Vocs \ {v} : ListOf(E, K, w) = ListOf(E, L, w)
  BY ListCut
<1>2. ASSUME NEW e \in (1 .. Len(E)) \ more, E[e].kind # "local"
      PROVE  e \in ListOf(E, K, E[e].voc)
  <2>1. e \in ListOf(E, L, E[e].voc)
    BY <1>2 DEF WordsThere
  <2>2. E[e].voc \in Vocs
    BY EntryFields
  <2>3. x \in Nat /\ e \in Nat
    BY ListFacts
  <2>4. CASE E[e].voc = v
    <3>1. ~(e > x)
      BY <1>2, <2>1, <2>4
    <3> QED  BY <3>1, <1>1, <2>1, <2>3, <2>4
  <2>5. CASE E[e].voc # v
    BY <2>5, <2>1, <2>2, <1>1
  <2> QED  BY <2>4, <2>5
<1> QED  BY <1>2 DEF WordsThere

(* What a forward declaration executes is not cut off before the later     *)
(* definitions it stands for.                                              *)
LEMMA RedirectedCut ==
  ASSUME NEW E, Linked(E), NEW L, Rooted(E, L), NEW v \in Vocs, NEW x \in ListOf(E, L, v),
         NEW K, Changed(L, v, x, K), NEW open, Redirected(E, L, open)
  PROVE  Redirected(E, K, open)
<1>1. /\ \A y : y \in ListOf(E, K, v) <=> y \in ListOf(E, L, v) /\ y <= x
      /\ \A w \in Vocs \ {v} : ListOf(E, K, w) = ListOf(E, L, w)
  BY ListCut
<1>2. ASSUME NEW w \in Vocs, NEW e \in ListOf(E, K, w), E[e].kind = "forward",
             NEW d \in Later(E, K, w, e), Completable(E, d, open)
      PROVE  E[e].parameter \in Later(E, K, w, e) /\ E[e].parameter <= d
  <2>1. e \in ListOf(E, L, w) /\ d \in Later(E, L, w, e) /\ d \in ListOf(E, K, w)
    BY <1>1 DEF Later
  <2>2. E[e].parameter \in Later(E, L, w, e) /\ E[e].parameter <= d
    BY <1>2, <2>1 DEF Redirected
  <2>3. E[e].parameter \in ListOf(E, L, w)
    BY <2>2 DEF Later
  <2>4. E[e].parameter \in ListOf(E, K, w)
    <3>1. CASE w = v
      <4>1. ListOf(E, L, v) \subseteq 1 .. Len(E)
        BY ListFacts
      <4>2. d \in Nat /\ x \in Nat /\ E[e].parameter \in Nat /\ d <= x
        BY <3>1, <2>1, <2>3, <4>1, <1>1
      <4>3. E[e].parameter <= x
        BY <4>2, <2>2
      <4> QED  BY <4>3, <3>1, <2>3, <1>1
    <3>2. CASE w # v
      BY <3>2, <2>3, <1>1
    <3> QED  BY <3>1, <3>2
  <2> QED  BY <2>2, <2>4 DEF Later
<1> QED  BY <1>2 DEF Redirected

LEMMA LocalsAboveCut ==
  ASSUME NEW E, Linked(E), NEW L, Rooted(E, L), NEW v \in Vocs, NEW x \in ListOf(E, L, v),
         NEW K, Changed(L, v, x, K), NEW f, LocalsAbove(E, L, v, f)
  PROVE  LocalsAbove(E, K, v, f)
<1>1. /\ \A y : y \in ListOf(E, K, v) <=> y \in ListOf(E, L, v) /\ y <= x
      /\ \A w \in Vocs \ {v} : ListOf(E, K, w) = ListOf(E, L, w)
  BY ListCut
<1>2. \A w \in Vocs : ListOf(E, K, w) \subseteq ListOf(E, L, w)
  BY <1>1
<1> QED  BY <1>2 DEF LocalsAbove

(* doremovelocals takes the local names out and nothing else. *)
LEMMA LocalsCut ==
  ASSUME Inv, compiling, NEW d, d = WithoutLocals(Dictionary)
  PROVE  /\ d.entry = entry /\ Rooted(entry, d.last)
         /\ CacheOK(entry, d.last, d.cache, context, current)
         /\ \A v \in Vocs : \A e \in ListOf(entry, d.last, v) : entry[e].kind # "local"
         /\ WordsThere(entry, d.last, forgotten)
         /\ Redirected(entry, d.last, thelast)
         /\ thelast # NIL => thelast = d.last[current]
<1>0. Dictionary = [entry |-> entry, last |-> last, cache |-> cache]
  BY DEF Dictionary
<1>1. CASE theframed = NIL
  <2>1. d.entry = entry /\ d.last = last /\ d.cache = cache
    BY <1>0, <1>1 DEF WithoutLocals
  <2>2. \A v \in Vocs : \A e \in ListOf(entry, last, v) : entry[e].kind # "local"
    BY <1>1 DEF Inv, LocalsAbove
  <2>3. thelast # NIL => thelast = last[current]
    BY <1>1 DEF Inv, WordOpen
  <2> HIDE DEF Inv
  <2>4. /\ Rooted(entry, last) /\ CacheOK(entry, last, cache, context, current)
        /\ WordsThere(entry, last, forgotten) /\ Redirected(entry, last, thelast)
    BY DEF Inv
  <2> QED  BY <2>1, <2>2, <2>3, <2>4
<1>2. CASE theframed # NIL
  <2>1. /\ Linked(entry) /\ Rooted(entry, last) /\ current \in Vocs /\ context \in Seq(Vocs)
        /\ CacheOK(entry, last, cache, context, current)
        /\ WordsThere(entry, last, forgotten) /\ Redirected(entry, last, thelast)
        /\ LocalsAbove(entry, last, current, theframed)
    BY DEF Inv, Registers
  <2>2. /\ theframed \in ListOf(entry, last, current)
        /\ \A x \in ListOf(entry, last, current) : x > theframed => entry[x].kind = "local"
        /\ thelast # NIL => theframed = thelast
    BY <1>2 DEF Inv, LocalsFramed
  <2>3. cache \in [Buckets -> Nat]
    BY <2>1 DEF CacheOK
  <2>4. d = Restored(Dictionary, theframed)
    BY <1>2 DEF WithoutLocals
  <2> DEFINE K == d.last
             D == d.cache
  <2>5. d.entry = entry /\ Changed(last, current, theframed, K)
        /\ Flushes(entry, last, cache, current, theframed, D)
    BY <1>0, <2>1, <2>2, <2>3, <2>4, RestoredFields
  <2> HIDE DEF K, D
  <2>7. CacheOK(entry, K, D, context, current)
    BY <2>1, <2>2, <2>5, CacheCut
  <2>8. /\ Rooted(entry, K)
        /\ \A y : y \in ListOf(entry, K, current) <=>
                    y \in ListOf(entry, last, current) /\ y <= theframed
        /\ \A w \in Vocs \ {current} : ListOf(entry, K, w) = ListOf(entry, last, w)
    BY <2>1, <2>2, <2>5, ListCut
  <2>9. ASSUME NEW v \in Vocs, NEW e \in ListOf(entry, K, v) PROVE entry[e].kind # "local"
    <3>1. e \in ListOf(entry, last, v) /\ (v = current => e <= theframed)
      BY <2>8
    <3>2. e \in Nat /\ theframed \in Nat
      BY <3>1, <2>1, <2>2, ListFacts
    <3> QED  BY <3>1, <3>2, <2>1 DEF LocalsAbove
  <2>10. WordsThere(entry, K, forgotten)
    BY <2>1, <2>2, <2>5, WordsThereCut
  <2>11. Redirected(entry, K, thelast)
    BY <2>1, <2>2, <2>5, RedirectedCut
  <2>12. thelast # NIL => thelast = K[current]
    BY <2>2, <2>5 DEF Changed
  <2> QED  BY <2>5, <2>7, <2>8, <2>9, <2>10, <2>11, <2>12 DEF K, D
<1> QED  BY <1>1, <1>2

----------------------------------------------------------------------------
(* Changes of modes and parameters.                                         *)

LEMMA WordsThereSame ==
  ASSUME NEW E, Linked(E), NEW L, Rooted(E, L), NEW F, SameWords(E, F),
         NEW gone, WordsThere(E, L, gone)
  PROVE  WordsThere(F, L, gone)
<1>1. \A v \in Vocs : ListOf(F, L, v) = ListOf(E, L, v)
  BY SameWordsShape
<1>2. \A e \in 1 .. Len(E) : E[e].voc \in Vocs /\ F[e].voc = E[e].voc /\ F[e].kind = E[e].kind
  BY EntryFields DEF SameWords
<1>3. Len(F) = Len(E)
  BY DEF SameWords
<1> QED  BY <1>1, <1>2, <1>3 DEF WordsThere

LEMMA LocalsAboveSame ==
  ASSUME NEW E, Linked(E), NEW L, Rooted(E, L), NEW F, SameWords(E, F),
         NEW cur, NEW f, LocalsAbove(E, L, cur, f)
  PROVE  LocalsAbove(F, L, cur, f)
<1>1. \A v \in Vocs : ListOf(F, L, v) = ListOf(E, L, v) /\ ListOf(E, L, v) \subseteq 1 .. Len(E)
  BY SameWordsShape, ListFacts
<1>2. \A e \in 1 .. Len(E) : F[e].kind = E[e].kind
  BY DEF SameWords
<1> QED  BY <1>1, <1>2 DEF LocalsAbove

LEMMA RedirectedSame ==
  ASSUME NEW E, Linked(E), NEW L, Rooted(E, L), NEW F, SameWords(E, F),
         NEW open, Redirected(E, L, open), NEW then,
         \A e \in 1 .. Len(E) : /\ F[e].parameter = E[e].parameter
                                /\ Completable(F, e, then) => Completable(E, e, open)
  PROVE  Redirected(F, L, then)
<1>1. \A v \in Vocs : ListOf(F, L, v) = ListOf(E, L, v) /\ ListOf(E, L, v) \subseteq 1 .. Len(E)
  BY SameWordsShape, ListFacts
<1>2. \A e \in 1 .. Len(E) : F[e].kind = E[e].kind /\ F[e].name = E[e].name
  BY DEF SameWords
<1>3. \A v \in Vocs : \A e \in ListOf(E, L, v) : Later(F, L, v, e) = Later(E, L, v, e)
  <2>1. ASSUME NEW v \in Vocs, NEW e \in ListOf(E, L, v)
        PROVE  \A d : d \in Later(F, L, v, e) <=> d \in Later(E, L, v, e)
    BY <1>1, <1>2 DEF Later
  <2> QED  BY <2>1
<1>4. ASSUME NEW v \in Vocs, NEW e \in ListOf(F, L, v), F[e].kind = "forward",
             NEW d \in Later(F, L, v, e), Completable(F, d, then)
      PROVE  F[e].parameter \in Later(F, L, v, e) /\ F[e].parameter <= d
  <2>1. e \in ListOf(E, L, v) /\ e \in 1 .. Len(E) /\ E[e].kind = "forward"
    BY <1>1, <1>2, <1>4
  <2>2. d \in Later(E, L, v, e) /\ d \in 1 .. Len(E)
    BY <1>1, <1>3, <2>1 DEF Later
  <2>3. Completable(E, d, open)
    BY <2>2, <1>4
  <2>4. E[e].parameter \in Later(E, L, v, e) /\ E[e].parameter <= d
    BY <2>1, <2>2, <2>3 DEF Redirected
  <2> QED  BY <2>1, <2>4, <1>3
<1> QED  BY <1>4 DEF Redirected

(* ; ends a definition. *)
LEMMA SemicolonKeeps ==
  ASSUME Inv, Semicolon
  PROVE  Inv'
<1> DEFINE d == WithoutLocals(Dictionary)
<1>1. /\ compiling /\ compiling' = FALSE /\ thelast' = NIL /\ theframed' = NIL
      /\ UNCHANGED <<context, current, forgotten>>
      /\ Becomes(IF thelast = NIL THEN d
                 ELSE [d EXCEPT !.entry[thelast].mode = NORMAL,
                                !.cache[hash[entry[thelast].name]] =
                                  IF current = context[1] THEN thelast ELSE @])
  BY DEF Semicolon
<1>2. /\ d.entry = entry /\ Rooted(entry, d.last)
      /\ CacheOK(entry, d.last, d.cache, context, current)
      /\ \A v \in Vocs : \A e \in ListOf(entry, d.last, v) : entry[e].kind # "local"
      /\ WordsThere(entry, d.last, forgotten)
      /\ Redirected(entry, d.last, thelast)
      /\ thelast # NIL => thelast = d.last[current]
  BY <1>1, LocalsCut
<1>3. /\ Linked(entry) /\ Moded(entry) /\ Registers /\ WordOpen
      /\ current \in Vocs /\ context \in Seq(Vocs) /\ context # <<>> /\ current = context[1]
  BY <1>1 DEF Inv, Registers, WordOpen
<1>4. Len(entry) \in Nat
  BY <1>3, LinkedOlder DEF Older
<1>5. d = [entry |-> entry, last |-> d.last, cache |-> d.cache]
  BY <1>2 DEF WithoutLocals, Dictionary, Restored
<1> DEFINE K == d.last
           D == d.cache
<1> HIDE DEF d
<1> SUFFICES /\ Linked(entry') /\ Rooted(entry', last') /\ Moded(entry')
             /\ Len(entry') = Len(entry)
             /\ CacheOK(entry', last', cache', context, current)
             /\ LocalsAbove(entry', last', current, NIL)
             /\ WordsThere(entry', last', forgotten)
             /\ Redirected(entry', last', NIL)
  <2>1. LocalsFramed' /\ WordOpen'
    BY <1>1 DEF LocalsFramed, WordOpen
  <2>2. 0 \in 0 .. Len(entry)
    BY <1>4
  <2>3. Registers'
    BY <1>1, <1>3, <2>2 DEF Registers, NIL
  <2> QED  BY <1>1, <2>1, <2>3 DEF Inv
<1>6. LocalsAbove(entry, K, current, NIL)
  BY <1>2 DEF LocalsAbove
<1>7. CASE thelast = NIL
  <2>1. entry' = entry /\ last' = K /\ cache' = D
    BY <1>1, <1>2, <1>7 DEF Becomes
  <2>2. Redirected(entry, K, NIL)
    BY <1>2, <1>7
  <2> HIDE DEF K, D
  <2>3. /\ Rooted(entry, K) /\ CacheOK(entry, K, D, context, current)
        /\ WordsThere(entry, K, forgotten)
    BY <1>2 DEF K, D
  <2> QED  BY <2>1, <2>2, <2>3, <1>3, <1>6
<1>8. CASE thelast # NIL
  <2> DEFINE F == [entry EXCEPT ![thelast].mode = NORMAL]
             C == [D EXCEPT ![hash[entry[thelast].name]] = thelast]
  <2>1. entry' = F /\ last' = K /\ cache' = C
    BY <1>1, <1>3, <1>5, <1>8 DEF Becomes
  <2>2. thelast \in 3 .. Len(entry) /\ thelast \in 1 .. Len(entry) /\ entry[thelast].kind = "colon"
        /\ entry[thelast].name \in Names
        /\ \A e \in thelast + 1 .. Len(entry) : entry[e].kind = "local"
    BY <1>1, <1>3, <1>4, <1>8 DEF WordOpen, Linked
  <2>3. \A e \in 1 .. Len(entry) : entry[e] \in EntryRecord
    BY <1>3, EntryFields
  <2>4. [entry[thelast] EXCEPT !.mode = NORMAL] \in EntryRecord
    BY <2>2, <2>3 DEF EntryRecord, NORMAL
  <2>5. /\ F \in Seq(EntryRecord) /\ Len(F) = Len(entry)
        /\ F[thelast] = [entry[thelast] EXCEPT !.mode = NORMAL]
        /\ \A e \in 1 .. Len(entry) : e # thelast => F[e] = entry[e]
    <3> DEFINE r == [entry[thelast] EXCEPT !.mode = NORMAL]
    <3>1. F = [entry EXCEPT ![thelast] = r]
      BY <2>2
    <3>2. entry \in Seq(EntryRecord) /\ thelast \in 1 .. Len(entry) /\ r \in EntryRecord
      BY <1>3, <2>2, <2>4 DEF Linked
    <3> HIDE DEF F, r
    <3>3. /\ F \in Seq(EntryRecord) /\ Len(F) = Len(entry)
          /\ \A j \in 1 .. Len(entry) : F[j] = IF j = thelast THEN r ELSE entry[j]
      BY <3>1, <3>2, ExceptSeq
    <3> QED  BY <3>2, <3>3 DEF r
  <2> HIDE DEF F
  <2>6. /\ F[thelast].mode = NORMAL /\ F[thelast].name = entry[thelast].name
        /\ F[thelast].kind = entry[thelast].kind /\ F[thelast].link = entry[thelast].link
        /\ F[thelast].voc = entry[thelast].voc
        /\ F[thelast].parameter = entry[thelast].parameter
    BY <2>2, <2>3, <2>5 DEF EntryRecord
  <2>7. SameWords(entry, F)
    BY <2>5, <2>6 DEF SameWords
  <2>8. \A e \in 1 .. Len(entry) : F[e].parameter = entry[e].parameter
    BY <2>5, <2>6
  <2>9. Moded(F)
    <3>1. ASSUME NEW e \in 1 .. Len(entry)
          PROVE  /\ F[e].kind = "local" => F[e].mode = {"compilation"}
                 /\ F[e].kind = "forward" => F[e].mode \subseteq {"immediate"}
      BY <1>3, <2>2, <2>5, <2>6, ZenonT(60) DEF Moded
    <3>2. ASSUME NEW e \in 1 .. Len(entry), NEW f \in 1 .. Len(entry), F[e].name = F[f].name,
                 e # f, F[e].kind # "local", F[f].kind # "local"
          PROVE  F[e].mode \ {"immediate"} \in {NORMAL, HIDDEN}
      <4>1. entry[e].name = entry[f].name /\ entry[e].kind # "local" /\ entry[f].kind # "local"
        BY <3>2, <2>7 DEF SameWords
      <4>2. entry[e].mode \ {"immediate"} \in {NORMAL, HIDDEN}
        BY <1>3, <3>2, <4>1 DEF Moded
      <4>3. e # thelast => F[e].mode = entry[e].mode
        BY <2>5
      <4>4. e = thelast => F[e].mode \ {"immediate"} = NORMAL
        BY <2>6 DEF NORMAL
      <4> QED  BY <4>2, <4>3, <4>4
    <3> QED  BY <3>1, <3>2, <2>5 DEF Moded
  <2>10. \A e \in 1 .. Len(entry) : Completable(F, e, NIL) => Completable(entry, e, thelast)
    <3>1. ASSUME NEW e \in 1 .. Len(entry), Completable(F, e, NIL)
          PROVE  Completable(entry, e, thelast)
      <4>1. CASE e = thelast
        BY <4>1, <2>2 DEF Completable
      <4>2. CASE e # thelast
        <5>1. F[e].mode = entry[e].mode
          BY <4>2, <2>5
        <5>2. e # NIL
          BY DEF NIL
        <5> QED  BY <5>1, <5>2, <3>1 DEF Completable
      <4> QED  BY <4>1, <4>2
    <3> QED  BY <3>1
  <2> HIDE DEF K
  <2>11. /\ Rooted(entry, K) /\ CacheOK(entry, K, D, context, current)
         /\ WordsThere(entry, K, forgotten) /\ Redirected(entry, K, thelast)
         /\ thelast = K[current]
    BY <1>2, <1>8 DEF K
  <2> HIDE DEF D
  <2>12. Cached(D, hash[entry[thelast].name], thelast, C)
    <3>1. D \in [Buckets -> Nat]
      BY <2>11 DEF CacheOK
    <3> QED  BY <3>1, <2>2 DEF Cached, Buckets
  <2> HIDE DEF C
  <2>13. Leads(context, current)
    BY <1>3 DEF Leads
  <2>14. /\ K[current] = thelast /\ F[K[current]].mode = NORMAL
         /\ \A x \in 1 .. Len(entry) : x # K[current] => F[x].mode = entry[x].mode
         /\ entry[K[current]].name \in Names
         /\ Cached(D, hash[entry[K[current]].name], K[current], C)
    BY <2>2, <2>5, <2>6, <2>11, <2>12
  <2>15. CacheOK(F, K, C, context, current)
    BY <1>3, <2>7, <2>11, <2>13, <2>14, CacheCompleted
  <2>16. Linked(F) /\ Rooted(F, K)
    BY <1>3, <2>7, <2>11, SameWordsShape
  <2>17. WordsThere(F, K, forgotten)
    BY <1>3, <2>7, <2>11, WordsThereSame
  <2>18. LocalsAbove(F, K, current, NIL)
    BY <1>3, <1>6, <2>7, <2>11, LocalsAboveSame
  <2>19. Redirected(F, K, NIL)
    BY <1>3, <2>7, <2>8, <2>10, <2>11, RedirectedSame
  <2> QED  BY <2>1, <2>5, <2>9, <2>15, <2>16, <2>17, <2>18, <2>19
<1> QED  BY <1>7, <1>8

(* does> and exception> end the part with local names. *)
LEMMA EndOfLocalsKeeps ==
  ASSUME Inv, EndOfLocals
  PROVE  Inv'
<1> DEFINE d == WithoutLocals(Dictionary)
<1>1. /\ compiling /\ theframed' = NIL /\ Becomes(d)
      /\ UNCHANGED <<context, current, compiling, thelast, forgotten>>
  BY DEF EndOfLocals
<1>2. /\ d.entry = entry /\ Rooted(entry, d.last)
      /\ CacheOK(entry, d.last, d.cache, context, current)
      /\ \A v \in Vocs : \A e \in ListOf(entry, d.last, v) : entry[e].kind # "local"
      /\ WordsThere(entry, d.last, forgotten)
      /\ Redirected(entry, d.last, thelast)
      /\ thelast # NIL => thelast = d.last[current]
  BY <1>1, LocalsCut
<1>3. Linked(entry) /\ Moded(entry) /\ Registers /\ WordOpen
  BY DEF Inv
<1>4. Len(entry) \in Nat
  BY <1>3, LinkedOlder DEF Older
<1>5. entry' = entry /\ last' = d.last /\ cache' = d.cache
  BY <1>1, <1>2 DEF Becomes
<1> HIDE DEF d
<1>6. LocalsAbove(entry, d.last, current, NIL)
  BY <1>2 DEF LocalsAbove
<1>7. LocalsFramed'
  BY <1>1 DEF LocalsFramed
<1>8. 0 \in 0 .. Len(entry)
  BY <1>4
<1>9. Registers'
  BY <1>1, <1>3, <1>5, <1>8 DEF Registers, NIL
<1>10. WordOpen'
  BY <1>1, <1>2, <1>3, <1>5 DEF WordOpen
<1> QED  BY <1>1, <1>2, <1>3, <1>5, <1>6, <1>7, <1>9, <1>10 DEF Inv

(* A second { in a definition takes the local names out and aborts. *)
LEMMA SecondBracketKeeps ==
  ASSUME Inv, compiling, Becomes(WithoutLocals(Dictionary)),
         theframed' = NIL, compiling' = FALSE, UNCHANGED <<context, current, thelast, forgotten>>
  PROVE  Inv'
<1> DEFINE d == WithoutLocals(Dictionary)
<1>2. /\ d.entry = entry /\ Rooted(entry, d.last)
      /\ CacheOK(entry, d.last, d.cache, context, current)
      /\ \A v \in Vocs : \A e \in ListOf(entry, d.last, v) : entry[e].kind # "local"
      /\ WordsThere(entry, d.last, forgotten)
      /\ Redirected(entry, d.last, thelast)
  BY LocalsCut
<1>3. Linked(entry) /\ Moded(entry) /\ Registers /\ WordOpen
  BY DEF Inv
<1>4. Len(entry) \in Nat
  BY <1>3, LinkedOlder DEF Older
<1>5. entry' = entry /\ last' = d.last /\ cache' = d.cache
  BY <1>2 DEF Becomes
<1> HIDE DEF d
<1>6. LocalsAbove(entry, d.last, current, NIL)
  BY <1>2 DEF LocalsAbove
<1>7. LocalsFramed'
  BY DEF LocalsFramed
<1>8. 0 \in 0 .. Len(entry)
  BY <1>4
<1>9. Registers'
  BY <1>3, <1>5, <1>8 DEF Registers, NIL
<1>10. WordOpen'
  BY <1>3, <1>5 DEF WordOpen
<1> QED  BY <1>2, <1>3, <1>5, <1>6, <1>7, <1>9, <1>10 DEF Inv

(* While nothing is compiled there are no local names. *)
LEMMA NoLocals ==
  ASSUME Inv, ~compiling
  PROVE  /\ theframed = NIL
         /\ \A v \in Vocs : \A e \in List(v) : entry[e].kind # "local"
<1>1. theframed = NIL
  BY DEF Inv, LocalsFramed
<1>2. LocalsAbove(entry, last, current, theframed)
  BY DEF Inv
<1> QED  BY <1>1, <1>2 DEF LocalsAbove, List, ListOf

(* find changes the cache only, and leaves it right. *)
LEMMA FindCaches ==
  ASSUME Inv, NEW n \in Names
  PROVE  /\ Found(n) = Searched(n)
         /\ CacheOK(entry, last, CacheAfterFind(n), context, current)
<1>1. /\ Linked(entry) /\ Rooted(entry, last) /\ Moded(entry) /\ context \in Seq(Vocs)
      /\ compiling \in BOOLEAN /\ CacheOK(entry, last, cache, context, current)
  BY DEF Inv, Registers
<1>2. ~compiling => \A v \in Vocs : \A e \in List(v) : entry[e].kind # "local"
  BY NoLocals
<1> QED  BY <1>1, <1>2, CacheAgrees, CacheFound

(* forget takes an entry and what is above it out of its vocabulary. *)
LEMMA ForgetKeeps ==
  ASSUME Inv, AllRules \subseteq Rules, NEW n \in Names, Forget(n)
  PROVE  Inv'
<1> DEFINE e == Found(n)
           D0 == [Dictionary EXCEPT !.cache = CacheAfterFind(n)]
           C0 == CacheAfterFind(n)
           x == entry[e].link
           d == Restored(D0, x)
<1>1. /\ ~compiling /\ e # NIL /\ e \in List(current) /\ Becomes(d)
      /\ forgotten' = forgotten \cup {y \in List(current) : y >= e}
      /\ UNCHANGED <<context, current, compiling, thelast, theframed>>
  BY DEF Forget, Rule, AllRules
<1>2. /\ Linked(entry) /\ Rooted(entry, last) /\ Moded(entry) /\ current \in Vocs
      /\ context \in Seq(Vocs) /\ compiling \in BOOLEAN /\ Registers /\ WordOpen
      /\ WordsThere(entry, last, forgotten) /\ Redirected(entry, last, thelast)
      /\ LocalsAbove(entry, last, current, theframed)
  BY DEF Inv, Registers
<1>3. e = Searched(n) /\ CacheOK(entry, last, C0, context, current)
  BY FindCaches
<1>4. theframed = NIL
  BY <1>1, NoLocals
<1>5. D0 = [entry |-> entry, last |-> last, cache |-> C0]
  BY DEF Dictionary
<1> HIDE DEF e, D0, C0
<1>6. e \in ListOf(entry, last, current) /\ e \in 1 .. Len(entry) /\ Len(entry) \in Nat
      /\ ListOf(entry, last, current) \subseteq 1 .. Len(entry)
  BY <1>1, <1>2, ListFacts DEF List, ListOf
<1>7. entry[e].name = n
  <2>1. Gives(entry, last, context, current, n, compiling, e)
    BY <1>1, <1>2, <1>3, SearchGives
  <2> QED  BY <2>1 DEF Gives, Candidates
<1>8. e > Bottom
  BY <1>2, <1>6, <1>7 DEF Linked, Bottom
<1>9. /\ x \in ListOf(entry, last, current)
      /\ \A y \in ListOf(entry, last, current) : y > x <=> y >= e
  BY <1>2, <1>6, <1>8, LinkInList
<1> HIDE DEF x
<1>10. C0 \in [Buckets -> Nat]
  BY <1>3, <1>6 DEF CacheOK
<1> DEFINE K == d.last
           D == d.cache
<1>11. d.entry = entry /\ Changed(last, current, x, K) /\ Flushes(entry, last, C0, current, x, D)
  BY <1>2, <1>5, <1>9, <1>10, RestoredFields
<1>12. entry' = entry /\ last' = K /\ cache' = D
  BY <1>1, <1>11 DEF Becomes
<1> HIDE DEF K, D
<1>13. CacheOK(entry, K, D, context, current)
  BY <1>2, <1>3, <1>9, <1>11, CacheCut
<1>14. Rooted(entry, K)
  BY <1>2, <1>9, <1>11, ListCut
<1>15. LocalsAbove(entry, K, current, theframed)
  BY <1>2, <1>9, <1>11, LocalsAboveCut
<1>16. Redirected(entry, K, thelast)
  BY <1>2, <1>9, <1>11, RedirectedCut
<1>17. WordsThere(entry, K, forgotten')
  <2> DEFINE more == forgotten'
  <2>1. \A y \in ListOf(entry, last, current) : y > x => entry[y].kind = "local" \/ y \in more
    BY <1>1, <1>9 DEF List, ListOf
  <2>2. forgotten \subseteq more
    BY <1>1
  <2> HIDE DEF more
  <2>3. WordsThere(entry, K, more)
    BY <1>2, <1>9, <1>11, <2>1, <2>2, WordsThereCut
  <2> QED  BY <2>3 DEF more
<1>18. forgotten' \subseteq 1 .. Len(entry)
  BY <1>1, <1>2, <1>6 DEF Registers, List, ListOf
<1>19. Registers' /\ LocalsFramed' /\ WordOpen'
  <2>1. Registers'
    BY <1>1, <1>2, <1>12, <1>18 DEF Registers
  <2>2. LocalsFramed'
    BY <1>1, <1>4 DEF LocalsFramed
  <2>3. WordOpen'
    BY <1>1, <1>2, <1>12 DEF WordOpen
  <2> QED  BY <2>1, <2>2, <2>3
<1> QED  BY <1>1, <1>2, <1>12, <1>13, <1>14, <1>15, <1>16, <1>17, <1>19 DEF Inv

----------------------------------------------------------------------------
(* Making entries.                                                          *)

(* What make_entry does, while the vocabulary that is extended is the one  *)
(* searched first.                                                         *)
LEMMA EntryMade ==
  ASSUME NEW E, Linked(E), NEW L, Rooted(E, L), NEW C, CacheOK(E, L, C, context, current),
         Leads(context, current), current \in Vocs,
         NEW n \in Names, NEW kind \in Kinds, NEW mode \in {NORMAL, HIDDEN, {"compilation"}},
         NEW d, d = [entry |-> E, last |-> L, cache |-> C],
         NEW m, m = MakeEntry(d, n, kind, mode)
  PROVE  /\ Longer(E, Entry(n, kind, mode, L[current], current), m.entry)
         /\ Entry(n, kind, mode, L[current], current) \in EntryRecord
         /\ Changed(L, current, Len(E) + 1, m.last)
         /\ m = [entry |-> m.entry, last |-> m.last, cache |-> m.cache]
         /\ Linked(m.entry) /\ Rooted(m.entry, m.last)
         /\ CacheOK(m.entry, m.last, m.cache, context, current)
<1> DEFINE new == Entry(n, kind, mode, L[current], current)
           F == Append(E, new)
           K == [L EXCEPT ![current] = Len(E) + 1]
           D == [C EXCEPT ![hash[n]] = Len(E) + 1]
<1>1. context[1] = current
  BY DEF Leads
<1>2. m = [entry |-> F, last |-> K, cache |-> D]
  BY <1>1 DEF MakeEntry
<1>3. /\ Len(E) \in Nat /\ E \in Seq(EntryRecord) /\ L \in [Vocs -> Nat]
      /\ L[current] \in Nat /\ L \in [Vocs -> 1 .. Len(E)]
  BY ListFacts DEF Linked, Rooted
<1>4. new \in EntryRecord /\ new.link = L[current] /\ new.voc = current /\ new.name = n
      /\ new.mode = mode
  BY <1>3 DEF Entry, EntryRecord, NORMAL, HIDDEN, Modes, NIL
<1>5. C \in [Buckets -> 0 .. Len(E)]
  BY DEF CacheOK
<1>6. Cached(C, hash[n], Len(E) + 1, D)
  BY <1>3, <1>5 DEF Cached, Buckets
<1>7. Changed(L, current, Len(E) + 1, K)
  BY <1>3 DEF Changed
<1> HIDE DEF new
<1>8. Longer(E, new, F)
  BY <1>3, <1>4, AppendProperties DEF Longer
<1> HIDE DEF F, K, D
<1>9. Linked(F) /\ Rooted(F, K)
  BY <1>4, <1>7, <1>8, ListMade
<1>10. CacheOK(F, K, D, context, current)
  BY <1>4, <1>6, <1>7, <1>8, CacheMade
<1>11. m.entry = F /\ m.last = K /\ m.cache = D
  BY <1>2
<1> QED  BY <1>2, <1>4, <1>7, <1>8, <1>9, <1>10, <1>11 DEF new

\* What holds of the dictionary E, L, C while local names are put in.
LocalsBegun(E, L, C, f) ==
  /\ Linked(E) /\ Rooted(E, L) /\ Moded(E) /\ CacheOK(E, L, C, context, current)
  /\ LocalsAbove(E, L, current, f)
  /\ f \in ListOf(E, L, current) /\ \A x \in ListOf(E, L, current) : x > f => E[x].kind = "local"
  /\ WordsThere(E, L, forgotten) /\ Redirected(E, L, thelast)
  /\ thelast # NIL => /\ thelast \in 3 .. Len(E) /\ E[thelast].kind = "colon"
                      /\ \A x \in thelast + 1 .. Len(E) : E[x].kind = "local"
  /\ Len(entry) <= Len(E)

(* One more local name. *)
LEMMA LocalMade ==
  ASSUME NEW E, NEW L, NEW C, NEW f, LocalsBegun(E, L, C, f),
         Leads(context, current), current \in Vocs, Len(entry) \in Nat, NEW n \in Names,
         NEW d, d = [entry |-> E, last |-> L, cache |-> C],
         NEW m, m = MakeEntry(d, n, "local", {"compilation"})
  PROVE  /\ m = [entry |-> m.entry, last |-> m.last, cache |-> m.cache]
         /\ LocalsBegun(m.entry, m.last, m.cache, f)
<1> DEFINE new == Entry(n, "local", {"compilation"}, L[current], current)
           F == m.entry
           K == m.last
           D == m.cache
           N == Len(E) + 1
<1>1. Linked(E) /\ Rooted(E, L) /\ Moded(E) /\ CacheOK(E, L, C, context, current)
  BY DEF LocalsBegun
<1>2. "local" \in Kinds /\ {"compilation"} \in {NORMAL, HIDDEN, {"compilation"}}
  BY DEF Kinds
<1>3. /\ Longer(E, new, F) /\ new \in EntryRecord /\ Changed(L, current, Len(E) + 1, K)
      /\ m = [entry |-> F, last |-> K, cache |-> D]
      /\ Linked(F) /\ Rooted(F, K) /\ CacheOK(F, K, D, context, current)
  BY <1>1, <1>2, EntryMade
<1> HIDE DEF F, K, D
<1>4. new.name = n /\ new.kind = "local" /\ new.mode = {"compilation"}
      /\ new.link = L[current] /\ new.voc = current
  BY DEF Entry
<1> HIDE DEF new
<1>5. Len(E) \in Nat /\ Len(E) >= 2 /\ \A v \in Vocs : ListOf(E, L, v) \subseteq 1 .. Len(E)
  BY <1>1, ListFacts, LenProperties DEF Linked, Kernel
<1>6. /\ Len(F) = N /\ F[N] = new /\ (\A x \in 1 .. Len(E) : F[x] = E[x])
      /\ ListOf(F, K, current) = ListOf(E, L, current) \cup {N}
      /\ \A w \in Vocs \ {current} : ListOf(F, K, w) = ListOf(E, L, w)
  BY <1>1, <1>3, <1>4, ListMade
<1>7. N \in Nat /\ N > Len(E) /\ \A x \in 1 .. N : x = N \/ x \in 1 .. Len(E)
  BY <1>5
<1> HIDE DEF N
<1>8. \A v \in Vocs : \A x \in ListOf(F, K, v) :
        \/ x \in ListOf(E, L, v) /\ F[x] = E[x] /\ x \in 1 .. Len(E)
        \/ v = current /\ x = N
  BY <1>5, <1>6
<1>9. Moded(F)
  <2>1. ASSUME NEW e \in 1 .. N
        PROVE  /\ F[e].kind = "local" => F[e].mode = {"compilation"}
               /\ F[e].kind = "forward" => F[e].mode \subseteq {"immediate"}
    <3>1. CASE e = N
      BY <3>1, <1>4, <1>6
    <3>2. CASE e \in 1 .. Len(E)
      BY <3>2, <1>1, <1>6 DEF Moded
    <3> QED  BY <3>1, <3>2, <1>7
  <2>2. ASSUME NEW e \in 1 .. N, NEW g \in 1 .. N, F[e].name = F[g].name,
               e # g, F[e].kind # "local", F[g].kind # "local"
        PROVE  F[e].mode \ {"immediate"} \in {NORMAL, HIDDEN}
    <3>1. e \in 1 .. Len(E) /\ g \in 1 .. Len(E)
      BY <2>2, <1>4, <1>6, <1>7
    <3>2. F[e] = E[e] /\ F[g] = E[g]
      BY <3>1, <1>6
    <3> QED  BY <3>1, <3>2, <2>2, <1>1 DEF Moded
  <2> QED  BY <2>1, <2>2, <1>6 DEF Moded
<1>10. f \in ListOf(E, L, current) /\ f \in 1 .. Len(E) /\ f # NIL /\ N > f
  BY <1>5, <1>7 DEF LocalsBegun, NIL
<1>11. LocalsAbove(F, K, current, f)
  <2>1. ASSUME NEW v \in Vocs, NEW e \in ListOf(F, K, v), F[e].kind = "local"
        PROVE  v = current /\ f # NIL /\ e > f
    <3>1. CASE e \in ListOf(E, L, v) /\ F[e] = E[e]
      BY <3>1, <2>1 DEF LocalsBegun, LocalsAbove
    <3>2. CASE v = current /\ e = N
      BY <3>2, <1>10
    <3> QED  BY <3>1, <3>2, <1>8
  <2> QED  BY <2>1 DEF LocalsAbove
<1>12. f \in ListOf(F, K, current) /\ \A x \in ListOf(F, K, current) : x > f => F[x].kind = "local"
  <2>1. \A x \in ListOf(E, L, current) : x > f => E[x].kind = "local"
    BY DEF LocalsBegun
  <2> QED  BY <2>1, <1>4, <1>6, <1>8, <1>10
<1>13. WordsThere(F, K, forgotten)
  <2>1. ASSUME NEW e \in (1 .. N) \ forgotten, F[e].kind # "local"
        PROVE  e \in ListOf(F, K, F[e].voc)
    <3>1. e \in 1 .. Len(E) /\ F[e] = E[e]
      BY <2>1, <1>4, <1>6, <1>7
    <3>2. e \in ListOf(E, L, E[e].voc) /\ E[e].voc \in Vocs
      BY <3>1, <2>1, <1>1, EntryFields DEF LocalsBegun, WordsThere
    <3> QED  BY <3>1, <3>2, <1>6
  <2> QED  BY <2>1, <1>6 DEF WordsThere
<1>14. Redirected(F, K, thelast)
  <2>1. ASSUME NEW v \in Vocs, NEW e \in ListOf(F, K, v), F[e].kind = "forward",
               NEW x \in Later(F, K, v, e), Completable(F, x, thelast)
        PROVE  F[e].parameter \in Later(F, K, v, e) /\ F[e].parameter <= x
    <3>1. e \in ListOf(E, L, v) /\ F[e] = E[e]
      BY <2>1, <1>4, <1>6, <1>8
    <3>2. \A y : y \in Later(F, K, v, e) <=> y \in Later(E, L, v, e)
      <4>1. \A y : y \in ListOf(F, K, v) /\ F[y].kind # "local" <=>
                   y \in ListOf(E, L, v) /\ E[y].kind # "local"
        BY <1>4, <1>5, <1>6, <1>8
      <4>2. \A y \in ListOf(E, L, v) : F[y] = E[y]
        BY <1>5, <1>6
      <4> QED  BY <4>1, <4>2, <3>1 DEF Later
    <3>3. x \in Later(E, L, v, e) /\ x \in 1 .. Len(E) /\ F[x] = E[x]
      BY <3>2, <1>5, <1>6 DEF Later
    <3>4. Completable(E, x, thelast)
      <4>1. \A y \in x + 1 .. Len(E) : y \in x + 1 .. N /\ F[y] = E[y]
        BY <3>3, <1>5, <1>6, <1>7
      <4> QED  BY <4>1, <3>3, <2>1, <1>6 DEF Completable
    <3>5. E[e].parameter \in Later(E, L, v, e) /\ E[e].parameter <= x
      BY <3>1, <3>3, <3>4, <2>1 DEF LocalsBegun, Redirected
    <3> QED  BY <3>1, <3>2, <3>5
  <2> QED  BY <2>1 DEF Redirected
<1>15. ASSUME thelast # NIL
       PROVE  /\ thelast \in 3 .. Len(F) /\ F[thelast].kind = "colon"
              /\ \A x \in thelast + 1 .. Len(F) : F[x].kind = "local"
  <2>1. /\ thelast \in 3 .. Len(E) /\ E[thelast].kind = "colon"
        /\ \A x \in thelast + 1 .. Len(E) : E[x].kind = "local"
    BY <1>15 DEF LocalsBegun
  <2>2. thelast \in 1 .. Len(E) /\ thelast \in 3 .. N
    BY <2>1, <1>5, <1>7
  <2>3. \A x \in thelast + 1 .. N : x = N \/ (x \in thelast + 1 .. Len(E) /\ x \in 1 .. Len(E))
    BY <2>2, <1>5, <1>7
  <2> QED  BY <2>1, <2>2, <2>3, <1>4, <1>6
<1>16. Len(entry) <= Len(F)
  BY <1>5, <1>6, <1>7 DEF LocalsBegun
<1>17. LocalsBegun(F, K, D, f)
  BY <1>3, <1>9, <1>11, <1>12, <1>13, <1>14, <1>15, <1>16 DEF LocalsBegun
<1> QED  BY <1>3, <1>17 DEF F, K, D

(* What the loop over the names of { makes: one entry after another. *)
LEMMA NamesMade ==
  ASSUME NEW k \in {1, 2}, NEW names, Len(names) = k, NEW D0
  PROVE  LET made[i \in 0..Len(names)] ==
               IF i = 0 THEN D0
               ELSE MakeEntry(made[i - 1], names[i], "local", {"compilation"})
             D1 == MakeEntry(D0, names[1], "local", {"compilation"})
             D2 == MakeEntry(D1, names[2], "local", {"compilation"})
         IN  made[Len(names)] = IF k = 1 THEN D1 ELSE D2
<1> DEFINE M(d, i) == MakeEntry(d, names[i], "local", {"compilation"})
           D1 == M(D0, 1)
           D2 == M(D1, 2)
           made == CHOOSE f : f = [i \in 0..Len(names) |-> IF i = 0 THEN D0 ELSE M(f[i - 1], i)]
           g == [i \in 0..Len(names) |-> IF i = 0 THEN D0 ELSE IF i = 1 THEN D1 ELSE D2]
<1>1. M(D0, 1) = D1 /\ M(D1, 2) = D2
  OBVIOUS
<1>2. (\A i \in 0 .. Len(names) : i = 0 \/ i = 1 \/ i = 2)
      /\ 0 \in 0 .. Len(names) /\ 1 \in 0 .. Len(names) /\ (k = 2 => 2 \in 0 .. Len(names))
      /\ Len(names) = k /\ k \in {1, 2}
  OBVIOUS
<1> HIDE DEF M, D1, D2
<1>3. g = [i \in 0..Len(names) |-> IF i = 0 THEN D0 ELSE M(g[i - 1], i)]
  <2>1. ASSUME NEW i \in 0..Len(names)
        PROVE  g[i] = IF i = 0 THEN D0 ELSE M(g[i - 1], i)
    <3>1. CASE i = 0
      BY <3>1
    <3>2. CASE i = 1
      <4>1. g[0] = D0 /\ g[1] = D1
        BY <3>2
      <4> QED  BY <3>2, <4>1, <1>1
    <3>3. CASE i = 2
      <4>1. g[1] = D1 /\ g[2] = D2
        BY <3>3
      <4> QED  BY <3>3, <4>1, <1>1
    <3> QED  BY <3>1, <3>2, <3>3, <1>2
  <2> QED  BY <2>1
<1> HIDE DEF g
<1>4. made = [i \in 0..Len(names) |-> IF i = 0 THEN D0 ELSE M(made[i - 1], i)]
  BY <1>3, Zenon
<1> HIDE DEF made
<1>5. made[0] = D0
  BY <1>2, <1>4
<1>6. made[1] = D1
  BY <1>1, <1>2, <1>4, <1>5
<1>7. k = 2 => made[2] = D2
  BY <1>1, <1>2, <1>4, <1>6
<1>8. made[Len(names)] = IF k = 1 THEN D1 ELSE D2
  BY <1>6, <1>7
<1> QED  BY <1>8, Zenon DEF made, M, D1, D2

(* { names: the local names go on top of the open definition. *)
LEMMA BracketKeeps ==
  ASSUME Inv, NEW k \in {1, 2}, NEW names, Len(names) = k, \A i \in 1 .. k : names[i] \in Names,
         CurlyBracket(names)
  PROVE  Inv'
<1> DEFINE f == last[current]
<1>0. /\ Linked(entry) /\ Rooted(entry, last) /\ Moded(entry) /\ Registers /\ LocalsFramed
      /\ WordOpen /\ CacheOK(entry, last, cache, context, current)
      /\ LocalsAbove(entry, last, current, theframed)
      /\ WordsThere(entry, last, forgotten) /\ Redirected(entry, last, thelast)
      /\ current \in Vocs /\ context \in Seq(Vocs) /\ context # <<>>
  BY DEF Inv, Registers
<1>1. compiling /\ UNCHANGED <<context, current, thelast, forgotten>>
  BY DEF CurlyBracket
<1>2. CASE theframed # NIL
  <2>1. Becomes(WithoutLocals(Dictionary)) /\ theframed' = NIL /\ compiling' = FALSE
    BY <1>2 DEF CurlyBracket
  <2> QED  BY <1>1, <2>1, SecondBracketKeeps
<1>3. CASE theframed = NIL
  <2> DEFINE D0 == Dictionary
             D1 == MakeEntry(D0, names[1], "local", {"compilation"})
             D2 == MakeEntry(D1, names[2], "local", {"compilation"})
             R == IF k = 1 THEN D1 ELSE D2
  <2>1. Becomes(LET made[i \in 0..Len(names)] ==
                      IF i = 0 THEN Dictionary
                      ELSE MakeEntry(made[i - 1], names[i], "local", {"compilation"})
                IN  made[Len(names)])
        /\ theframed' = f /\ compiling' = compiling
    BY <1>3, Zenon DEF CurlyBracket
  <2>2. (LET made[i \in 0..Len(names)] ==
              IF i = 0 THEN D0
              ELSE MakeEntry(made[i - 1], names[i], "local", {"compilation"})
         IN  made[Len(names)]) = R
    <3> HIDE DEF D0
    <3> QED  BY NamesMade, Zenon
  <2>3. Becomes(R)
    BY <2>1, <2>2, Zenon DEF Becomes
  <2>4. Leads(context, current)
    BY <1>0, <1>1 DEF Leads, WordOpen
  <2>5. f \in ListOf(entry, last, current) /\ f \in 1 .. Len(entry) /\ Len(entry) \in Nat
        /\ ListOf(entry, last, current) \subseteq 1 .. f
    BY <1>0, ListFacts
  <2> HIDE DEF f
  <2>6. \A x \in ListOf(entry, last, current) : ~ (x > f)
    BY <2>5
  <2>7. LocalsAbove(entry, last, current, f)
    BY <1>0, <1>3 DEF LocalsAbove
  <2>8. thelast # NIL => /\ thelast \in 3 .. Len(entry) /\ entry[thelast].kind = "colon"
                         /\ \A x \in thelast + 1 .. Len(entry) : entry[x].kind = "local"
    BY <1>0, <1>1 DEF WordOpen
  <2>9. LocalsBegun(entry, last, cache, f)
    BY <1>0, <2>5, <2>6, <2>7, <2>8 DEF LocalsBegun
  <2>10. D0 = [entry |-> entry, last |-> last, cache |-> cache]
    BY DEF Dictionary
  <2> HIDE DEF D0
  <2>11. names[1] \in Names /\ (k = 2 => names[2] \in Names)
    OBVIOUS
  <2>12. /\ D1 = [entry |-> D1.entry, last |-> D1.last, cache |-> D1.cache]
         /\ LocalsBegun(D1.entry, D1.last, D1.cache, f)
    <3> DEFINE a == names[1]
    <3>1. a \in Names /\ D1 = MakeEntry(D0, a, "local", {"compilation"})
      BY <2>11
    <3> HIDE DEF a, D1
    <3> QED  BY <1>0, <2>4, <2>5, <2>9, <2>10, <3>1, LocalMade
  <2>13. k = 2 => LocalsBegun(D2.entry, D2.last, D2.cache, f)
    <3> DEFINE b == names[2]
    <3>1. D2 = MakeEntry(D1, b, "local", {"compilation"}) /\ (k = 2 => b \in Names)
      BY <2>11
    <3> HIDE DEF b, D1, D2
    <3> QED  BY <1>0, <2>4, <2>5, <2>12, <3>1, LocalMade
  <2>14. LocalsBegun(R.entry, R.last, R.cache, f)
    <3> HIDE DEF D1, D2
    <3> QED  BY <2>12, <2>13
  <2> HIDE DEF R
  <2>15. entry' = R.entry /\ last' = R.last /\ cache' = R.cache
    BY <2>3 DEF Becomes
  <2>16. LocalsBegun(entry', last', cache', f)
    BY <2>14, <2>15
  <2>17. Len(entry) <= Len(entry') /\ Len(entry') \in Nat
    BY <2>16, LinkedOlder DEF LocalsBegun, Older
  <2>18. Registers'
    <3>1. thelast \in 0 .. Len(entry') /\ f \in 0 .. Len(entry')
      BY <1>0, <2>5, <2>17 DEF Registers
    <3>2. forgotten \subseteq 1 .. Len(entry')
      BY <1>0, <2>5, <2>17 DEF Registers
    <3> QED  BY <1>0, <1>1, <2>1, <3>1, <3>2 DEF Registers
  <2>19. thelast # NIL => f = thelast
    BY <1>0, <1>1, <1>3 DEF WordOpen, f
  <2>20. LocalsFramed'
    BY <1>1, <2>1, <2>16, <2>19 DEF LocalsFramed, LocalsBegun
  <2>21. f # NIL
    BY <2>5 DEF NIL
  <2>22. WordOpen'
    BY <1>0, <1>1, <2>1, <2>16, <2>21 DEF WordOpen, LocalsBegun
  <2> QED  BY <1>1, <2>1, <2>16, <2>18, <2>20, <2>22 DEF Inv, LocalsBegun
<1> QED  BY <1>2, <1>3

\* G is F with c, if that is a forward declaration, executing N.
Executes(F, c, N, G) ==
  /\ SameWords(F, G)
  /\ \A x \in 1 .. Len(F) :
       /\ G[x].mode = F[x].mode
       /\ G[x].parameter = IF x = c /\ F[x].kind = "forward" THEN N ELSE F[x].parameter

(* doentry redirects the declaration that is found; the others of the same *)
(* name are older, and execute something as early already.                 *)
LEMMA RedirectedMade ==
  ASSUME Inv, ~compiling, current = context[1], NEW n \in Names,
         NEW new \in EntryRecord, new.link = last[current], new.voc = current, new.name = n,
         new.kind # "local",
         NEW F, Longer(entry, new, F), NEW K, Changed(last, current, Len(entry) + 1, K),
         NEW G, Executes(F, Found(n), Len(entry) + 1, G),
         NEW open
  PROVE  Redirected(G, K, open)
<1> DEFINE N == Len(entry) + 1
           c == Found(n)
<1>1. /\ Linked(entry) /\ Rooted(entry, last) /\ Moded(entry) /\ context \in Seq(Vocs)
      /\ context # <<>> /\ compiling \in BOOLEAN /\ current \in Vocs
      /\ Redirected(entry, last, thelast)
  BY DEF Inv, Registers
<1>2. /\ Len(F) = N /\ F[N] = new /\ (\A x \in 1 .. Len(entry) : F[x] = entry[x])
      /\ Linked(F) /\ Rooted(F, K)
      /\ ListOf(F, K, current) = ListOf(entry, last, current) \cup {N}
      /\ \A w \in Vocs \ {current} : ListOf(F, K, w) = ListOf(entry, last, w)
  BY <1>1, ListMade
<1>3. Len(entry) \in Nat /\ N \in Nat /\ N > Len(entry)
      /\ (\A x \in 1 .. N : x = N \/ x \in 1 .. Len(entry))
      /\ (\A x \in 1 .. Len(entry) : x \in 1 .. N /\ x < N)
      /\ (\A v \in Vocs : ListOf(entry, last, v) \subseteq 1 .. Len(entry))
      /\ N \in 1 .. N
  BY <1>1, ListFacts
<1>4. SameWords(F, G) /\ \A v \in Vocs : ListOf(G, K, v) = ListOf(F, K, v)
  BY <1>2, SameWordsShape DEF Executes
<1>5. \A x \in 1 .. Len(entry) :
        /\ G[x].name = entry[x].name /\ G[x].kind = entry[x].kind /\ G[x].mode = entry[x].mode
        /\ G[x].parameter = IF x = c /\ entry[x].kind = "forward" THEN N ELSE entry[x].parameter
  BY <1>2, <1>3, <1>4 DEF SameWords, Executes
<1>6. G[N].kind # "local" /\ G[N].name = n /\ Len(G) = N
  BY <1>2, <1>3, <1>4 DEF SameWords
<1>7. c # NIL => /\ Gives(entry, last, context, current, n, compiling, c)
                 /\ c \in 1 .. Len(entry) /\ entry[c].name = n
  <2> SUFFICES ASSUME c # NIL
               PROVE  /\ Gives(entry, last, context, current, n, compiling, c)
                      /\ c \in 1 .. Len(entry) /\ entry[c].name = n
    OBVIOUS
  <2>1. c = Searched(n)
    BY FindCaches
  <2>2. Gives(entry, last, context, current, n, compiling, c)
    BY <1>1, <2>1, SearchGives
  <2>3. PICK i \in 1 .. Len(context) :
               c \in Candidates(entry, last, current, n, context[i], compiling)
    BY <2>2 DEF Gives
  <2>4. context[i] \in Vocs
    BY <1>1, ElementOfSeq
  <2> QED  BY <1>1, <2>2, <2>3, <2>4, CandidatesBelow, Zenon DEF Candidates
<1>8. c = NIL => \A i \in 1 .. Len(context) :
                   Candidates(entry, last, current, n, context[i], compiling) = {}
  BY <1>1, FindCaches, SearchGives
<1>9. 1 \in 1 .. Len(context)
  BY <1>1, LenProperties, EmptySeq
<1> HIDE DEF c, N
<1>10. \A v \in Vocs : \A x : x \in ListOf(G, K, v) <=> x \in ListOf(entry, last, v)
                                                        \/ (v = current /\ x = N)
  BY <1>2, <1>4
<1>11. ASSUME NEW v \in Vocs, NEW e \in ListOf(entry, last, v), NEW d \in Later(entry, last, v, e)
       PROVE  d \in Later(G, K, v, e)
  BY <1>3, <1>5, <1>10 DEF Later
<1>12. ASSUME NEW v \in Vocs, NEW e \in ListOf(G, K, v), G[e].kind = "forward",
              NEW d \in Later(G, K, v, e), Completable(G, d, open)
       PROVE  G[e].parameter \in Later(G, K, v, e) /\ G[e].parameter <= d
  <2>1. d \in ListOf(G, K, v) /\ d > e /\ G[d].name = G[e].name /\ G[d].kind # "local"
    BY DEF Later
  <2>2. e \in 1 .. Len(entry) /\ e \in ListOf(entry, last, v)
    <3>1. d <= N /\ d \in Nat /\ e \in Nat
      BY <1>3, <1>10, <2>1
    <3>2. e # N
      BY <3>1, <2>1, <1>3
    <3> QED  BY <3>2, <1>3, <1>10
  <2>3. entry[e].kind = "forward" /\ entry[e].mode \subseteq {"immediate"}
    BY <1>1, <1>5, <1>12, <2>2 DEF Moded
  <2>4. CASE d = N
    <3>1. v = current /\ entry[e].name = n
      BY <2>1, <2>2, <2>4, <1>3, <1>5, <1>6, <1>10
    <3>2. e \in Candidates(entry, last, current, n, context[1], compiling)
      BY <2>2, <2>3, <3>1 DEF Candidates, ShownIn
    <3>3. c # NIL
      BY <3>2, <1>8, <1>9
    <3>4. c \in Candidates(entry, last, current, n, context[1], compiling) /\ c >= e
      <4>1. PICK i \in 1 .. Len(context) :
                   /\ c \in Candidates(entry, last, current, n, context[i], compiling)
                   /\ \A x \in Candidates(entry, last, current, n, context[i], compiling) : x <= c
                   /\ \A j \in 1 .. i - 1 :
                        Candidates(entry, last, current, n, context[j], compiling) = {}
        BY <1>7, <3>3 DEF Gives
      <4>2. i = 1
        <5>1. 1 \notin 1 .. i - 1
          BY <4>1, <3>2
        <5> QED  BY <5>1
      <4>3. c >= e
        <5>1. e <= c /\ e \in Nat /\ c \in Nat
          BY <4>1, <4>2, <3>2, <2>2, <1>7, <3>3
        <5> QED  BY <5>1
      <4> QED  BY <4>1, <4>2, <4>3
    <3>5. CASE c = e
      <4>1. G[e].parameter = N
        BY <3>5, <1>5, <2>2, <2>3
      <4> QED  BY <4>1, <2>4, <1>12, <1>3
    <3>6. CASE c # e
      <4>1. c \in ListOf(entry, last, v) /\ c > e /\ entry[c].name = entry[e].name
            /\ ~(HIDDEN \subseteq entry[c].mode) /\ c \in 1 .. Len(entry)
        <5>1. c > e
          BY <3>3, <3>4, <3>6, <1>7, <2>2
        <5> QED  BY <5>1, <3>1, <3>3, <3>4, <1>7 DEF Candidates, ShownIn, HIDDEN
      <4>2. entry[c].kind # "local"
        BY <4>1, <1>1, NoLocals DEF List, ListOf
      <4>3. c \in Later(entry, last, v, e) /\ Completable(entry, c, thelast)
        BY <4>1, <4>2 DEF Later, Completable
      <4>4. entry[e].parameter \in Later(entry, last, v, e) /\ entry[e].parameter <= c
        BY <4>3, <2>2, <2>3, <1>1 DEF Redirected
      <4>5. G[e].parameter = entry[e].parameter
        BY <3>6, <1>5, <2>2
      <4>6. entry[e].parameter \in Nat /\ c <= N
        BY <4>1, <4>4, <1>3 DEF Later
      <4>7. entry[e].parameter <= N
        BY <4>1, <4>4, <4>6, <1>3
      <4> QED  BY <4>4, <4>5, <4>7, <2>2, <2>4, <1>11
    <3> QED  BY <3>5, <3>6
  <2>5. CASE d # N
    <3>1. d \in ListOf(entry, last, v) /\ d \in 1 .. Len(entry)
      BY <2>1, <2>5, <1>3, <1>10
    <3>2. d \in Later(entry, last, v, e)
      BY <3>1, <2>1, <2>2, <1>5 DEF Later
    <3>3. ~(HIDDEN \subseteq entry[d].mode)
      <4>1. N \in d + 1 .. Len(G)
        BY <3>1, <1>3, <1>6
      <4> QED  BY <4>1, <3>1, <1>5, <1>6, <1>12 DEF Completable
    <3>4. Completable(entry, d, thelast)
      BY <3>3 DEF Completable
    <3>5. entry[e].parameter \in Later(entry, last, v, e) /\ entry[e].parameter <= d
      BY <3>2, <3>4, <2>2, <2>3, <1>1 DEF Redirected
    <3>6. c # e
      <4> SUFFICES ASSUME c = e PROVE FALSE
        OBVIOUS
      <4>1. c # NIL /\ entry[e].name = n /\ entry[d].name = n /\ entry[d].kind # "local"
            /\ d # e
        BY <1>7, <2>1, <2>2, <3>1, <1>5 DEF NIL
      <4>2. PICK i \in 1 .. Len(context) :
                   /\ c \in Candidates(entry, last, current, n, context[i], compiling)
                   /\ \A x \in Candidates(entry, last, current, n, context[i], compiling) : x <= c
        BY <1>7, <4>1 DEF Gives
      <4>3. context[i] \in Vocs
        BY <1>1, ElementOfSeq
      <4>4. e > Bottom
        BY <1>1, <2>2, <4>1 DEF Linked, Bottom
      <4>5. e \in ListOf(entry, last, context[i])
        BY <4>2 DEF Candidates
      <4>6. v = context[i]
        BY <1>1, <2>2, <4>3, <4>4, <4>5, ListsApart
      <4>7. entry[d].mode \ {"immediate"} \in {NORMAL, HIDDEN}
        BY <1>1, <2>2, <2>3, <3>1, <4>1 DEF Moded
      <4>8. entry[d].mode \subseteq {"immediate"}
        BY <4>7, <3>3 DEF NORMAL, HIDDEN
      <4>9. d \in Candidates(entry, last, current, n, context[i], compiling)
        BY <4>1, <4>6, <4>8, <3>1 DEF Candidates, ShownIn
      <4>10. d <= e
        BY <4>2, <4>9
      <4> QED  BY <4>10, <2>1, <2>2, <3>1
    <3>7. G[e].parameter = entry[e].parameter
      BY <3>6, <1>5, <2>2
    <3> QED  BY <3>5, <3>7, <2>2, <1>11
  <2> QED  BY <2>4, <2>5
<1> QED  BY <1>12 DEF Redirected

(* doentry: the new entry is the latest of the vocabulary that is extended. *)
LEMMA EntryDone ==
  ASSUME Inv, ~compiling, current = context[1], NEW n \in Names, Redefinable(n),
         NEW kind \in Kinds \ {"local"}, NEW mode \in {NORMAL, HIDDEN},
         kind = "forward" => mode = NORMAL, DoEntry(n, kind, mode)
  PROVE  /\ Linked(entry') /\ Rooted(entry', last') /\ Moded(entry')
         /\ Len(entry') = Len(entry) + 1
         /\ last'[current] = Len(entry) + 1 /\ entry'[Len(entry) + 1].kind = kind
         /\ \A x \in 1 .. Len(entry) : entry'[x].kind = entry[x].kind
         /\ CacheOK(entry', last', cache', context, current)
         /\ LocalsAbove(entry', last', current, NIL)
         /\ WordsThere(entry', last', forgotten)
         /\ \A open : Redirected(entry', last', open)
<1> DEFINE N == Len(entry) + 1
           c == Found(n)
           C == CacheAfterFind(n)
           D0 == [Dictionary EXCEPT !.cache = C]
           m == MakeEntry(D0, n, kind, mode)
           new == Entry(n, kind, mode, last[current], current)
           F == m.entry
           K == m.last
           D == m.cache
           b == c # NIL /\ entry[c].kind = "forward"
           G == IF b THEN [F EXCEPT ![c].parameter = Len(F)] ELSE F
<1>1. /\ Linked(entry) /\ Rooted(entry, last) /\ Moded(entry) /\ context \in Seq(Vocs)
      /\ context # <<>> /\ compiling \in BOOLEAN /\ current \in Vocs
      /\ WordsThere(entry, last, forgotten)
  BY DEF Inv, Registers
<1>2. D0 = [entry |-> entry, last |-> last, cache |-> C]
  BY DEF Dictionary
<1>3. c = Searched(n) /\ CacheOK(entry, last, C, context, current)
  BY FindCaches
<1>4. Leads(context, current)
  BY <1>1 DEF Leads
<1>5. Becomes(IF b THEN [m EXCEPT !.entry[c].parameter = Len(m.entry)] ELSE m)
  BY DEF DoEntry
<1>6. mode \in {NORMAL, HIDDEN, {"compilation"}} /\ kind \in Kinds
  OBVIOUS
<1>7. /\ Longer(entry, new, F) /\ new \in EntryRecord /\ Changed(last, current, N, K)
      /\ m = [entry |-> F, last |-> K, cache |-> D]
      /\ Linked(F) /\ Rooted(F, K) /\ CacheOK(F, K, D, context, current)
  <2> HIDE DEF D0, C, m, c
  <2>1. m = MakeEntry(D0, n, kind, mode)
    BY DEF m
  <2> QED  BY <1>1, <1>2, <1>3, <1>4, <1>6, <2>1, EntryMade
<1>8. new.name = n /\ new.kind = kind /\ new.mode = mode /\ new.link = last[current]
      /\ new.voc = current
  BY DEF Entry
<1> HIDE DEF new
<1>9. entry' = G /\ last' = K /\ cache' = D
  <2> HIDE DEF m, c, b
  <2>1. CASE b
    BY <2>1, <1>5, <1>7 DEF Becomes
  <2>2. CASE ~b
    BY <2>2, <1>5 DEF Becomes
  <2> QED  BY <2>1, <2>2
<1> HIDE DEF F, K, D, m
<1>10. /\ Len(F) = N /\ F[N] = new /\ (\A x \in 1 .. Len(entry) : F[x] = entry[x])
       /\ ListOf(F, K, current) = ListOf(entry, last, current) \cup {N}
       /\ \A w \in Vocs \ {current} : ListOf(F, K, w) = ListOf(entry, last, w)
  BY <1>1, <1>7, <1>8, ListMade
<1>11. Len(entry) \in Nat /\ N \in Nat /\ N > Len(entry)
       /\ (\A x \in 1 .. N : x = N \/ x \in 1 .. Len(entry))
       /\ (\A x \in 1 .. Len(entry) : x \in 1 .. N /\ x < N)
       /\ (\A v \in Vocs : ListOf(entry, last, v) \subseteq 1 .. Len(entry))
       /\ N \in 1 .. N
  BY <1>1, ListFacts
<1>12. c # NIL => c \in 1 .. Len(entry)
  <2>1. c # NIL => Gives(entry, last, context, current, n, compiling, c)
    BY <1>1, <1>3, SearchGives
  <2> QED  BY <2>1, <1>1, CandidatesBelow, ElementOfSeq DEF Gives
<1>13. Executes(F, c, N, G)
  <2>1. F \in Seq(EntryRecord) /\ \A x \in 1 .. N : F[x] \in EntryRecord
    BY <1>7, <1>10, EntryFields DEF Linked
  <2>2. CASE b
    <3> DEFINE r == [F[c] EXCEPT !.parameter = Len(F)]
    <3>1. c \in 1 .. N /\ c \in 1 .. Len(F) /\ F[c] = entry[c] /\ F[c].kind = "forward"
      BY <2>2, <1>10, <1>11, <1>12
    <3>2. F[c] \in EntryRecord /\ Len(F) \in Nat /\ N = Len(F)
      BY <2>1, <3>1, <1>10, <1>11
    <3>3. /\ r \in EntryRecord /\ r.name = F[c].name /\ r.kind = F[c].kind
          /\ r.link = F[c].link /\ r.voc = F[c].voc /\ r.mode = F[c].mode /\ r.parameter = N
      BY <3>2 DEF EntryRecord
    <3>4. G = [F EXCEPT ![c] = r]
      BY <2>2
    <3> HIDE DEF r, G, c, b
    <3>5. /\ G \in Seq(EntryRecord) /\ Len(G) = Len(F)
          /\ G[c] = r /\ \A x \in 1 .. Len(F) : x # c => G[x] = F[x]
      BY <2>1, <3>1, <3>3, <3>4, ExceptSeq
    <3>6. SameWords(F, G)
      BY <3>3, <3>5 DEF SameWords
    <3>7. ASSUME NEW x \in 1 .. Len(F)
          PROVE  /\ G[x].mode = F[x].mode
                 /\ G[x].parameter = IF x = c /\ F[x].kind = "forward" THEN N ELSE F[x].parameter
      BY <3>1, <3>3, <3>5
    <3> QED  BY <3>6, <3>7 DEF Executes
  <2>3. CASE ~b
    <3>1. G = F
      BY <2>3
    <3>2. \A x \in 1 .. N : ~(x = c /\ F[x].kind = "forward")
      <4>1. ASSUME NEW x \in 1 .. N, x = c, F[x].kind = "forward" PROVE FALSE
        <5>1. c # NIL
          BY <4>1, <1>11 DEF NIL
        <5>2. F[c] = entry[c]
          BY <5>1, <1>10, <1>12
        <5> QED  BY <5>1, <5>2, <4>1, <2>3
      <4> QED  BY <4>1
    <3> HIDE DEF c, b, G
    <3> QED  BY <3>1, <3>2, <2>1, <1>10 DEF Executes, SameWords
  <2> QED  BY <2>2, <2>3
<1>14. kind # "local"
  OBVIOUS
<1>15. \A open : Redirected(G, K, open)
  <2> HIDE DEF c, b, G
  <2>1. ASSUME NEW open PROVE Redirected(G, K, open)
    BY <1>7, <1>8, <1>13, <1>14, RedirectedMade DEF c
  <2> QED  BY <2>1
<1> HIDE DEF G, c, b
<1>16. SameWords(F, G) /\ Linked(G) /\ Rooted(G, K)
       /\ \A v \in Vocs : ListOf(G, K, v) = ListOf(F, K, v)
  BY <1>7, <1>13, SameWordsShape DEF Executes
<1>17. /\ Len(G) = N /\ G[N].name = n /\ G[N].kind = kind /\ G[N].mode = mode
       /\ \A x \in 1 .. Len(entry) :
            G[x].name = entry[x].name /\ G[x].kind = entry[x].kind /\ G[x].mode = entry[x].mode
            /\ G[x].voc = entry[x].voc
  BY <1>8, <1>10, <1>11, <1>13, <1>16 DEF SameWords, Executes
<1>18. CacheOK(G, K, D, context, current)
  BY <1>1, <1>7, <1>13, <1>16, CacheSameModes DEF Executes
<1> HIDE DEF N
<1>19. Moded(G)
  <2>1. ASSUME NEW e \in 1 .. N
        PROVE  /\ G[e].kind = "local" => G[e].mode = {"compilation"}
               /\ G[e].kind = "forward" => G[e].mode \subseteq {"immediate"}
    <3>1. CASE e = N
      BY <3>1, <1>14, <1>17 DEF NORMAL
    <3>2. CASE e \in 1 .. Len(entry)
      BY <3>2, <1>1, <1>17 DEF Moded
    <3> QED  BY <3>1, <3>2, <1>11
  <2>2. ASSUME NEW e \in 1 .. N, NEW g \in 1 .. N, G[e].name = G[g].name,
               e # g, G[e].kind # "local", G[g].kind # "local"
        PROVE  G[e].mode \ {"immediate"} \in {NORMAL, HIDDEN}
    <3>1. CASE e = N
      BY <3>1, <1>17 DEF NORMAL, HIDDEN
    <3>2. CASE e \in 1 .. Len(entry) /\ g = N
      BY <3>2, <2>2, <1>17 DEF Redefinable, Named
    <3>3. CASE e \in 1 .. Len(entry) /\ g \in 1 .. Len(entry)
      BY <3>3, <2>2, <1>1, <1>17 DEF Moded
    <3> QED  BY <3>1, <3>2, <3>3, <1>11
  <2> QED  BY <2>1, <2>2, <1>17 DEF Moded
<1>20. LocalsAbove(G, K, current, NIL)
  <2>1. ASSUME NEW v \in Vocs, NEW e \in ListOf(G, K, v) PROVE G[e].kind # "local"
    <3>1. e \in ListOf(entry, last, v) \/ e = N
      BY <1>10, <1>16
    <3>2. CASE e = N
      BY <3>2, <1>14, <1>17
    <3>3. CASE e \in ListOf(entry, last, v)
      BY <3>3, <1>11, <1>17, NoLocals DEF List, ListOf
    <3> QED  BY <3>1, <3>2, <3>3
  <2> QED  BY <2>1 DEF LocalsAbove
<1>21. WordsThere(G, K, forgotten)
  <2>1. ASSUME NEW e \in (1 .. N) \ forgotten, G[e].kind # "local"
        PROVE  e \in ListOf(G, K, G[e].voc)
    <3>1. CASE e = N
      <4>1. G[N].voc = current
        BY <1>8, <1>10, <1>11, <1>16 DEF SameWords
      <4> QED  BY <3>1, <4>1, <1>1, <1>10, <1>16
    <3>2. CASE e \in 1 .. Len(entry)
      <4>1. e \in ListOf(entry, last, entry[e].voc) /\ entry[e].voc \in Vocs
        BY <3>2, <2>1, <1>1, <1>17, EntryFields DEF WordsThere
      <4> QED  BY <3>2, <4>1, <1>10, <1>16, <1>17
    <3> QED  BY <3>1, <3>2, <1>11
  <2> QED  BY <2>1, <1>17 DEF WordsThere
<1>22. K[current] = N
  BY <1>1, <1>7 DEF Changed, N
<1> QED  BY <1>9, <1>15, <1>16, <1>17, <1>18, <1>19, <1>20, <1>21, <1>22 DEF N

(* : begins a definition. *)
LEMMA ColonKeeps ==
  ASSUME Inv, AllRules \subseteq Rules, NEW n \in Names, Colon(n)
  PROVE  Inv'
<1>1. /\ ~compiling /\ current = context[1] /\ Redefinable(n) /\ DoEntry(n, "colon", HIDDEN)
      /\ compiling' = TRUE /\ thelast' = last'[current]
      /\ UNCHANGED <<context, current, theframed, forgotten>>
  BY DEF Colon, Rule, AllRules
<1>2. "colon" \in Kinds \ {"local"} /\ HIDDEN \in {NORMAL, HIDDEN} /\ "colon" # "forward"
  BY DEF Kinds
<1>3. /\ Linked(entry') /\ Rooted(entry', last') /\ Moded(entry')
      /\ Len(entry') = Len(entry) + 1
      /\ last'[current] = Len(entry) + 1 /\ entry'[Len(entry) + 1].kind = "colon"
      /\ CacheOK(entry', last', cache', context, current)
      /\ LocalsAbove(entry', last', current, NIL)
      /\ WordsThere(entry', last', forgotten)
      /\ \A open : Redirected(entry', last', open)
  BY <1>1, <1>2, EntryDone
<1>4. theframed = NIL
  BY <1>1, NoLocals
<1>5. Linked(entry) /\ Registers
  BY DEF Inv
<1>6. Len(entry) \in Nat /\ Len(entry) >= 2
  BY <1>5, LenProperties DEF Linked, Kernel
<1> DEFINE N == Len(entry) + 1
<1>7. N \in 3 .. Len(entry') /\ N \in 0 .. Len(entry') /\ 0 \in 0 .. Len(entry')
      /\ 1 .. Len(entry) \subseteq 1 .. Len(entry') /\ N + 1 .. Len(entry') = {}
  BY <1>3, <1>6
<1> HIDE DEF N
<1>8. thelast' = N /\ last'[current] = N /\ entry'[N].kind = "colon"
  BY <1>1, <1>3 DEF N
<1>9. Registers'
  BY <1>1, <1>4, <1>5, <1>7, <1>8 DEF Registers, NIL
<1>10. LocalsFramed'
  BY <1>1, <1>4 DEF LocalsFramed
<1>11. WordOpen'
  BY <1>1, <1>7, <1>8 DEF WordOpen
<1> QED  BY <1>1, <1>3, <1>4, <1>9, <1>10, <1>11 DEF Inv

(* Other words that define make a complete entry. *)
LEMMA CreateKeeps ==
  ASSUME Inv, AllRules \subseteq Rules, NEW n \in Names, NEW kind \in {"code", "forward"},
         Create(n, kind)
  PROVE  Inv'
<1>1. /\ ~compiling /\ current = context[1] /\ Redefinable(n) /\ DoEntry(n, kind, NORMAL)
      /\ UNCHANGED <<context, current, compiling, thelast, theframed, forgotten>>
  BY DEF Create, Rule, AllRules
<1>2. kind \in Kinds \ {"local"} /\ NORMAL \in {NORMAL, HIDDEN}
  BY DEF Kinds
<1>3. /\ Linked(entry') /\ Rooted(entry', last') /\ Moded(entry')
      /\ Len(entry') = Len(entry) + 1
      /\ \A x \in 1 .. Len(entry) : entry'[x].kind = entry[x].kind
      /\ CacheOK(entry', last', cache', context, current)
      /\ LocalsAbove(entry', last', current, NIL)
      /\ WordsThere(entry', last', forgotten)
      /\ \A open : Redirected(entry', last', open)
  BY <1>1, <1>2, EntryDone
<1>4. theframed = NIL
  BY <1>1, NoLocals
<1>5. Linked(entry) /\ Registers /\ WordOpen
  BY DEF Inv
<1>6. Len(entry) \in Nat
  BY <1>5, LinkedOlder DEF Older
<1>7. /\ thelast \in 0 .. Len(entry') /\ 0 \in 0 .. Len(entry')
      /\ 1 .. Len(entry) \subseteq 1 .. Len(entry') /\ 3 .. Len(entry) \subseteq 3 .. Len(entry')
      /\ 3 .. Len(entry) \subseteq 1 .. Len(entry)
  BY <1>3, <1>5, <1>6 DEF Registers
<1>8. Registers'
  BY <1>1, <1>4, <1>5, <1>7 DEF Registers, NIL
<1>9. LocalsFramed'
  BY <1>1, <1>4 DEF LocalsFramed
<1>10. WordOpen'
  BY <1>1, <1>3, <1>5, <1>7 DEF WordOpen
<1> QED  BY <1>1, <1>3, <1>4, <1>8, <1>9, <1>10 DEF Inv

----------------------------------------------------------------------------
(* Modes and the search order.                                              *)

(* A name that has one definition has no other. *)
LEMMA OnlyDefinition ==
  ASSUME Linked(entry), NEW n, Cardinality(Named(n)) = 1, NEW x \in Named(n), NEW y \in Named(n)
  PROVE  x = y
<1>1. Len(entry) \in Nat
  BY LinkedOlder DEF Older
<1>2. Named(n) \subseteq 1 .. Len(entry)
  BY DEF Named
<1>3. IsFiniteSet(1 .. Len(entry))
  BY <1>1, FS_Interval
<1>4. IsFiniteSet(Named(n))
  BY <1>2, <1>3, FS_Subset
<1>5. \E z : Named(n) = {z}
  BY <1>4, FS_Singleton
<1> QED  BY <1>5

(* immediate, execution, compilation, private. *)
LEMMA SetModeKeeps ==
  ASSUME Inv, AllRules \subseteq Rules, NEW m \in ModesUsed, SetMode(m)
  PROVE  Inv'
<1> DEFINE t == last[current]
           r == [entry[t] EXCEPT !.mode = @ \cup {m}]
           F == [entry EXCEPT ![t] = r]
<1>1. /\ ~compiling /\ t > Kernel
      /\ m # "immediate" => entry[t].kind # "forward" /\ Cardinality(Named(entry[t].name)) = 1
      /\ entry' = F
      /\ UNCHANGED <<last, context, current, cache, compiling, thelast, theframed, forgotten>>
  BY DEF SetMode, Rule, AllRules
<1>2. /\ Linked(entry) /\ Rooted(entry, last) /\ Moded(entry) /\ current \in Vocs
      /\ context \in Seq(Vocs) /\ Registers /\ WordOpen
      /\ WordsThere(entry, last, forgotten) /\ Redirected(entry, last, thelast)
      /\ LocalsAbove(entry, last, current, theframed)
      /\ CacheOK(entry, last, cache, context, current)
  BY DEF Inv, Registers
<1>3. /\ t \in 1 .. Len(entry) /\ t \in ListOf(entry, last, current) /\ Len(entry) \in Nat
  BY <1>2, ListFacts
<1>4. /\ theframed = NIL
      /\ \A v \in Vocs : \A e \in ListOf(entry, last, v) : entry[e].kind # "local"
  BY <1>1, NoLocals DEF List, ListOf
<1>5. entry[t].kind # "local"
  BY <1>2, <1>3, <1>4
<1>6. m \in Modes
  BY VocabularyAssumption
<1>7. entry[t] \in EntryRecord /\ entry \in Seq(EntryRecord)
  BY <1>2, <1>3, EntryFields DEF Linked
<1>8. /\ r \in EntryRecord /\ r.name = entry[t].name /\ r.kind = entry[t].kind
      /\ r.link = entry[t].link /\ r.voc = entry[t].voc /\ r.parameter = entry[t].parameter
      /\ r.mode = entry[t].mode \cup {m}
  BY <1>6, <1>7 DEF EntryRecord
<1> HIDE DEF r
<1>9. /\ F \in Seq(EntryRecord) /\ Len(F) = Len(entry) /\ F[t] = r
      /\ \A x \in 1 .. Len(entry) : x # t => F[x] = entry[x]
  <2> HIDE DEF t
  <2> QED  BY <1>3, <1>7, <1>8, ExceptSeq
<1> HIDE DEF F
<1>10. SameWords(entry, F)
  BY <1>8, <1>9 DEF SameWords
<1>11. F[t].mode = entry[t].mode \cup {m} /\ \A x \in 1 .. Len(entry) : x # t => F[x].mode = entry[x].mode
  BY <1>8, <1>9
<1>12. m # "immediate" =>
         \A x \in 1 .. Len(entry) : entry[x].name = entry[t].name /\ entry[x].kind # "local" => x = t
  <2> SUFFICES ASSUME m # "immediate", NEW x \in 1 .. Len(entry), entry[x].name = entry[t].name,
                      entry[x].kind # "local"
               PROVE  x = t
    OBVIOUS
  <2> DEFINE n == entry[t].name
  <2>1. x \in Named(n) /\ t \in Named(n)
    BY <1>3, <1>5 DEF Named
  <2>2. Cardinality(Named(n)) = 1
    BY <1>1
  <2> HIDE DEF n
  <2> QED  BY <2>1, <2>2, <1>2, OnlyDefinition
<1>13. Linked(F) /\ Rooted(F, last)
  BY <1>2, <1>10, SameWordsShape
<1>14. CacheOK(F, last, cache, context, current)
  BY <1>1, <1>2, <1>4, <1>10, <1>11, <1>12, CacheModed, Zenon
<1>15. LocalsAbove(F, last, current, theframed)
  BY <1>2, <1>10, LocalsAboveSame
<1>16. WordsThere(F, last, forgotten)
  BY <1>2, <1>10, WordsThereSame
<1>17. \A e \in 1 .. Len(entry) : /\ F[e].name = entry[e].name /\ F[e].kind = entry[e].kind
                                  /\ entry[e].mode \subseteq F[e].mode
                                  /\ F[e].parameter = entry[e].parameter
  BY <1>8, <1>9
<1>18. Redirected(F, last, thelast)
  <2>1. ASSUME NEW e \in 1 .. Len(entry)
        PROVE  /\ F[e].parameter = entry[e].parameter
               /\ Completable(F, e, thelast) => Completable(entry, e, thelast)
    <3>1. \A x \in e + 1 .. Len(entry) : x \in 1 .. Len(entry)
      BY <1>3
    <3> QED  BY <3>1, <1>9, <1>17 DEF Completable
  <2> QED  BY <2>1, <1>2, <1>10, RedirectedSame
<1>19. Moded(F)
  <2>1. ASSUME NEW e \in 1 .. Len(entry)
        PROVE  /\ F[e].kind = "local" => F[e].mode = {"compilation"}
               /\ F[e].kind = "forward" => F[e].mode \subseteq {"immediate"}
    <3>1. CASE e = t
      BY <3>1, <1>1, <1>2, <1>3, <1>5, <1>11, <1>17 DEF Moded
    <3>2. CASE e # t
      BY <3>2, <1>2, <1>9 DEF Moded
    <3> QED  BY <3>1, <3>2
  <2>2. ASSUME NEW e \in 1 .. Len(entry), NEW g \in 1 .. Len(entry), F[e].name = F[g].name,
               e # g, F[e].kind # "local", F[g].kind # "local"
        PROVE  F[e].mode \ {"immediate"} \in {NORMAL, HIDDEN}
    <3>0. entry[e].mode \ {"immediate"} \in {NORMAL, HIDDEN}
      BY <2>2, <1>2, <1>17 DEF Moded
    <3>1. CASE e = t
      <4>1. m = "immediate"
        BY <3>1, <2>2, <1>12, <1>17
      <4>2. F[e].mode \ {"immediate"} = entry[e].mode \ {"immediate"}
        BY <3>1, <4>1, <1>11
      <4> QED  BY <3>0, <4>2
    <3>2. CASE e # t
      BY <3>0, <3>2, <1>9
    <3> QED  BY <3>1, <3>2
  <2> QED  BY <2>1, <2>2, <1>9 DEF Moded
<1>20. Registers'
  BY <1>1, <1>2, <1>9 DEF Registers
<1>21. LocalsFramed'
  BY <1>1, <1>4 DEF LocalsFramed
<1>22. WordOpen'
  <2>1. thelast # NIL => thelast \in 3 .. Len(F) /\ F[thelast].kind = "colon"
    <3>1. thelast # NIL => thelast \in 3 .. Len(entry) /\ entry[thelast].kind = "colon"
      BY <1>2 DEF WordOpen
    <3>2. 3 .. Len(entry) \subseteq 1 .. Len(entry)
      BY <1>3
    <3> QED  BY <3>1, <3>2, <1>9, <1>17
  <2> QED  BY <2>1, <1>1 DEF WordOpen
<1> QED  BY <1>1, <1>13, <1>14, <1>15, <1>16, <1>18, <1>19, <1>20, <1>21, <1>22 DEF Inv

(* find leaves everything but the cache. *)
LEMMA FindKeeps ==
  ASSUME Inv, NEW n \in Names, Find(n)
  PROVE  Inv'
<1>1. /\ cache' = CacheAfterFind(n)
      /\ UNCHANGED <<entry, last, context, current, compiling, thelast, theframed, forgotten>>
  BY DEF Find
<1>2. CacheOK(entry, last, CacheAfterFind(n), context, current)
  BY FindCaches
<1>3. CacheOK(entry', last', cache', context', current')
  BY <1>1, <1>2
<1> QED
  BY <1>1, <1>3 DEF Inv, Registers, LocalsFramed, WordOpen

(* Another search order, or another vocabulary to extend, with an empty cache. *)
LEMMA OrderKeeps ==
  ASSUME Inv, ~compiling, cache' = Flushed, context' \in Seq(Vocs), context' # <<>>,
         current' \in Vocs, UNCHANGED <<entry, last, compiling, thelast, theframed, forgotten>>
  PROVE  Inv'
<1>1. /\ Linked(entry) /\ Rooted(entry, last) /\ Moded(entry) /\ Registers /\ WordOpen
      /\ WordsThere(entry, last, forgotten) /\ Redirected(entry, last, thelast)
  BY DEF Inv
<1>2. /\ theframed = NIL
      /\ \A v \in Vocs : \A e \in ListOf(entry, last, v) : entry[e].kind # "local"
  BY NoLocals DEF List, ListOf
<1>3. Len(entry) \in Nat
  BY <1>1, LinkedOlder DEF Older
<1>4. Flushed \in [Buckets -> 0 .. Len(entry)] /\ \A n \in Names : Flushed[hash[n]] = NIL
  BY <1>3 DEF Flushed, Buckets, NIL
<1>5. CacheOK(entry', last', cache', context', current')
  BY <1>4 DEF CacheOK
<1>6. LocalsAbove(entry', last', current', theframed')
  BY <1>2 DEF LocalsAbove
<1>7. Registers'
  BY <1>1 DEF Registers
<1>8. LocalsFramed' /\ WordOpen'
  BY <1>1, <1>2 DEF LocalsFramed, WordOpen
<1> QED  BY <1>1, <1>5, <1>6, <1>7, <1>8 DEF Inv

(* The new search order begins with the vocabulary that was executed. *)
LEMMA AppendKeeps ==
  ASSUME Inv, NEW v \in Vocs, DoAppend(v)
  PROVE  Inv'
<1> DEFINE L == Len(context)
           places == {i \in 1..L : context[i] = v}
           room == Min({L + 1, ContextSize})
           moved == IF places # {} THEN Min(places) ELSE room
           M == Max({L, moved})
           f == [i \in 1..M |-> IF i = 1 THEN v ELSE IF i <= moved THEN context[i - 1]
                                                     ELSE context[i]]
<1>1. /\ ~compiling /\ cache' = Flushed /\ context' = f
      /\ UNCHANGED <<entry, last, current, compiling, thelast, theframed, forgotten>>
  BY DEF DoAppend
<1>2. context \in Seq(Vocs) /\ context # <<>> /\ current \in Vocs
  BY DEF Inv, Registers
<1>3. L \in Nat /\ L >= 1 /\ \A i \in 1 .. L : context[i] \in Vocs
  BY <1>2, LenProperties, EmptySeq, ElementOfSeq
<1> HIDE DEF L
<1>4. room \in 1 .. L + 1
  <2>1. {L + 1, ContextSize} \in SUBSET Nat /\ ContextSize >= 1 /\ ContextSize \in Nat
    BY <1>3, VocabularyAssumption
  <2>2. room \in {L + 1, ContextSize} /\ \A y \in {L + 1, ContextSize} : room <= y
    BY <2>1, MinOfNumbers
  <2> HIDE DEF room
  <2> QED  BY <2>1, <2>2, <1>3
<1> HIDE DEF room
<1>5. moved \in 1 .. L + 1
  <2>1. CASE places # {}
    <3>1. places \in SUBSET Nat /\ places \subseteq 1 .. L
      BY <1>3
    <3> HIDE DEF places
    <3>2. Min(places) \in places
      BY <2>1, <3>1, MinOfNumbers
    <3>3. moved = Min(places) /\ Min(places) \in 1 .. L
      BY <2>1, <3>1, <3>2, Zenon
    <3>4. 1 .. L \subseteq 1 .. L + 1
      BY <1>3
    <3> QED  BY <3>3, <3>4, Zenon
  <2>2. CASE places = {}
    BY <2>2, <1>4
  <2> QED  BY <2>1, <2>2
<1> HIDE DEF moved
<1>6. M \in Nat /\ M >= L /\ M >= moved /\ (M = L \/ M = moved)
  <2>1. L + 1 \in Nat /\ {L, moved} \in SUBSET (0 .. L + 1) /\ {L, moved} # {}
    BY <1>3, <1>5
  <2>2. M \in {L, moved} /\ \A y \in {L, moved} : y <= M
    BY <2>1, MaxOfNumbers
  <2> HIDE DEF M
  <2> QED  BY <2>1, <2>2
<1> HIDE DEF M
<1>7. \A i \in 1 .. M : f[i] \in Vocs
  BY <1>3, <1>5, <1>6
<1>8. f \in [1 .. M -> Vocs]
  BY <1>7
<1> HIDE DEF f
<1>9. f \in Seq(Vocs)
  BY <1>6, <1>8, SeqDef
<1>10. f # <<>>
  <2>1. 1 \in DOMAIN f
    BY <1>3, <1>6, <1>8
  <2>2. DOMAIN <<>> = {}
    OBVIOUS
  <2> QED  BY <2>1, <2>2
<1> QED  BY <1>1, <1>2, <1>9, <1>10, OrderKeeps

(* definitions, only and seal. *)
LEMMA DefinitionsKeeps ==
  ASSUME Inv, AllRules \subseteq Rules, Definitions
  PROVE  Inv'
<1>1. /\ ~compiling /\ cache = Flushed /\ current' = context[1]
      /\ UNCHANGED <<entry, last, context, cache, compiling, thelast, theframed, forgotten>>
  BY DEF Definitions, Rule, AllRules
<1>2. context \in Seq(Vocs) /\ context # <<>>
  BY DEF Inv, Registers
<1>3. context[1] \in Vocs
  BY <1>2, LenProperties, EmptySeq, ElementOfSeq
<1> QED  BY <1>1, <1>2, <1>3, OrderKeeps

LEMMA OnlyKeeps ==
  ASSUME Inv, Only
  PROVE  Inv'
<1>1. /\ ~compiling /\ cache' = Flushed /\ context' = <<context[1]>> /\ current' = context[1]
      /\ UNCHANGED <<entry, last, compiling, thelast, theframed, forgotten>>
  BY DEF Only
<1>2. context \in Seq(Vocs) /\ context # <<>>
  BY DEF Inv, Registers
<1>3. context[1] \in Vocs
  BY <1>2, LenProperties, EmptySeq, ElementOfSeq
<1>4. <<context[1]>> \in Seq(Vocs) /\ <<context[1]>> # <<>>
  BY <1>3
<1> QED  BY <1>1, <1>3, <1>4, OrderKeeps

LEMMA SealKeeps ==
  ASSUME Inv, Seal
  PROVE  Inv'
<1>1. /\ ~compiling /\ Len(context) > 1 /\ cache' = Flushed /\ context' = Tail(context)
      /\ UNCHANGED <<entry, last, current, compiling, thelast, theframed, forgotten>>
  BY DEF Seal
<1>2. context \in Seq(Vocs) /\ context # <<>> /\ current \in Vocs
  BY DEF Inv, Registers
<1> DEFINE k == Len(context)
           t == Tail(context)
<1>3. t \in Seq(Vocs) /\ Len(t) = k - 1 /\ k \in Nat /\ k > 1
  BY <1>1, <1>2, HeadTailProperties, LenProperties
<1> HIDE DEF t, k
<1>4. Len(t) # 0 /\ Len(<<>>) = 0
  BY <1>3
<1>5. t # <<>>
  BY <1>4, Zenon
<1> QED  BY <1>1, <1>2, <1>3, <1>5, OrderKeeps DEF t

(* [ and ], and an error: only the state of the compiler changes. *)
LEMMA StateKeeps ==
  ASSUME Inv, theframed = NIL, compiling' \in BOOLEAN,
         compiling' => current = context[1] /\ NothingSince,
         UNCHANGED <<entry, last, context, current, cache, thelast, theframed, forgotten>>
  PROVE  Inv'
<1>1. /\ Linked(entry) /\ Rooted(entry, last) /\ Moded(entry) /\ Registers /\ WordOpen
      /\ CacheOK(entry, last, cache, context, current)
      /\ LocalsAbove(entry, last, current, theframed)
      /\ WordsThere(entry, last, forgotten) /\ Redirected(entry, last, thelast)
  BY DEF Inv
<1>2. Registers'
  BY <1>1 DEF Registers
<1>3. LocalsFramed'
  BY DEF LocalsFramed
<1>4. WordOpen'
  BY <1>1 DEF WordOpen, NothingSince
<1> QED  BY <1>1, <1>2, <1>3, <1>4 DEF Inv

LEMMA BracketStateKeeps ==
  ASSUME Inv, AllRules \subseteq Rules, Bracket
  PROVE  Inv'
<1>1. /\ IF compiling THEN theframed = NIL ELSE current = context[1] /\ NothingSince
      /\ compiling' = ~compiling
      /\ UNCHANGED <<entry, last, context, current, cache, thelast, theframed, forgotten>>
  BY Zenon DEF Bracket, Rule, AllRules
<1>2. compiling \in BOOLEAN
  BY DEF Inv, Registers
<1>3. theframed = NIL
  BY <1>1, NoLocals
<1>4. compiling' \in BOOLEAN /\ (compiling' => current = context[1] /\ NothingSince)
  BY <1>1, <1>2
<1> QED  BY <1>1, <1>3, <1>4, StateKeeps

LEMMA AbortKeeps ==
  ASSUME Inv, AllRules \subseteq Rules, Abort
  PROVE  Inv'
<1>1. /\ theframed = NIL /\ compiling' = FALSE
      /\ UNCHANGED <<entry, last, context, current, cache, thelast, theframed, forgotten>>
  BY DEF Abort, Rule, AllRules
<1> QED  BY <1>1, StateKeeps

----------------------------------------------------------------------------
(* The theorems.                                                            *)

LEMMA InitInv ==
  ASSUME Init
  PROVE  Inv
<1> DEFINE E1 == Entry("forth", "vocabulary", NORMAL, NIL, forth)
           E2 == Entry("kernel", "code", NORMAL, Bottom, forth)
<1>1. /\ entry = <<E1, E2>>
      /\ last = [v \in Vocs |-> IF v = forth THEN Kernel ELSE Bottom]
      /\ context = <<forth>> /\ current = forth /\ cache = Flushed
      /\ compiling = FALSE /\ thelast = NIL /\ theframed = NIL /\ forgotten = {}
  BY DEF Init
<1>2. E1 \in EntryRecord /\ E2 \in EntryRecord
  BY VocabularyAssumption DEF Entry, EntryRecord, Kinds, NORMAL, Bottom, NIL, Modes
<1>3. /\ E1.name = "forth" /\ E2.name = "kernel" /\ E1.kind = "vocabulary" /\ E2.kind = "code"
      /\ E1.mode = {} /\ E2.mode = {} /\ E1.link = 0 /\ E2.link = 1
      /\ E1.voc = forth /\ E2.voc = forth
  BY DEF Entry, NORMAL, NIL, Bottom
<1> HIDE DEF E1, E2
<1>4. entry \in Seq(EntryRecord) /\ Len(entry) = 2 /\ entry[1] = E1 /\ entry[2] = E2
  BY <1>1, <1>2
<1>5. 1 .. Len(entry) = {1, 2} /\ 2 .. Len(entry) = {2} /\ 3 .. Len(entry) = {}
  BY <1>4
<1>6. Linked(entry)
  BY <1>3, <1>4, <1>5, VocabularyAssumption DEF Linked, Kernel, Bottom, NIL
<1>7. Rooted(entry, last)
  BY <1>1, <1>3, <1>4, <1>5 DEF Rooted, Kernel, Bottom
<1>8. Moded(entry)
  BY <1>3, <1>4, <1>5 DEF Moded, NORMAL
<1>9. Registers
  <2>1. context \in Seq(Vocs) /\ current \in Vocs
    BY <1>1, VocabularyAssumption
  <2>2. <<forth>> # <<>>
    OBVIOUS
  <2>3. context # <<>>
    BY <1>1, <2>2
  <2>4. 0 \in 0 .. Len(entry)
    BY <1>4
  <2> QED  BY <1>1, <2>1, <2>3, <2>4 DEF Registers, NIL
<1>10. CacheOK(entry, last, cache, context, current)
  BY <1>1, <1>4 DEF CacheOK, Flushed, Buckets, NIL
<1>11. LocalsFramed /\ WordOpen
  BY <1>1 DEF LocalsFramed, WordOpen
<1>12. \A v \in Vocs : ListOf(entry, last, v) \subseteq {1, 2}
  BY <1>5, <1>6, <1>7, ListFacts
<1>13. \A e \in {1, 2} : entry[e].kind # "local" /\ entry[e].kind # "forward"
  BY <1>3, <1>4
<1>14. LocalsAbove(entry, last, current, theframed) /\ Redirected(entry, last, thelast)
  BY <1>12, <1>13 DEF LocalsAbove, Redirected
<1>15. ListOf(entry, last, forth) = {1, 2}
  <2>1. /\ ListFrom(0, entry) = {}
        /\ \A e \in 1 .. Len(entry) : ListFrom(e, entry) = {e} \cup ListFrom(entry[e].link, entry)
    BY <1>6, LinkedOlder, ListUnfolds
  <2>2. ListFrom(1, entry) = {1} /\ ListFrom(2, entry) = {2} \cup ListFrom(1, entry)
    BY <2>1, <1>3, <1>4, <1>5
  <2>3. last[forth] = 2
    BY <1>1, VocabularyAssumption DEF Kernel
  <2> QED  BY <2>2, <2>3 DEF ListOf
<1>16. WordsThere(entry, last, forgotten)
  BY <1>3, <1>4, <1>5, <1>15 DEF WordsThere
<1> QED  BY <1>6, <1>7, <1>8, <1>9, <1>10, <1>11, <1>14, <1>16 DEF Inv

(* Every step keeps the invariant, if the rules for these words are kept. *)
LEMMA StepInv ==
  ASSUME Inv, AllRules \subseteq Rules, [Next]_vars
  PROVE  Inv'
<1>1. ASSUME NEW n \in Names, Find(n) PROVE Inv'
  BY <1>1, FindKeeps
<1>2. ASSUME NEW n \in Names, Colon(n) PROVE Inv'
  BY <1>2, ColonKeeps
<1>3. ASSUME NEW n \in Names, Forget(n) PROVE Inv'
  BY <1>3, ForgetKeeps
<1>4. ASSUME NEW n \in Names, NEW kind \in {"code", "forward"}, Create(n, kind) PROVE Inv'
  BY <1>4, CreateKeeps
<1>5. CASE Semicolon
  BY <1>5, SemicolonKeeps
<1>6. CASE EndOfLocals
  BY <1>6, EndOfLocalsKeeps
<1>7. ASSUME NEW a \in Names, CurlyBracket(<<a>>) PROVE Inv'
  <2> DEFINE names == <<a>>
  <2>1. Len(names) = 1 /\ \A i \in 1 .. 1 : names[i] \in Names
    OBVIOUS
  <2>2. CurlyBracket(names)
    BY <1>7
  <2> HIDE DEF names
  <2> QED  BY <2>1, <2>2, BracketKeeps
<1>8. ASSUME NEW a \in Names, NEW b \in Names, CurlyBracket(<<a, b>>) PROVE Inv'
  <2> DEFINE names == <<a, b>>
  <2>1. Len(names) = 2 /\ \A i \in 1 .. 2 : names[i] \in Names
    OBVIOUS
  <2>2. CurlyBracket(names)
    BY <1>8
  <2> HIDE DEF names
  <2> QED  BY <2>1, <2>2, BracketKeeps
<1>9. ASSUME NEW m \in ModesUsed, SetMode(m) PROVE Inv'
  BY <1>9, SetModeKeeps
<1>10. ASSUME NEW v \in Vocs, DoAppend(v) PROVE Inv'
  BY <1>10, AppendKeeps
<1>11. CASE Definitions
  BY <1>11, DefinitionsKeeps
<1>12. CASE Only
  BY <1>12, OnlyKeeps
<1>13. CASE Seal
  BY <1>13, SealKeeps
<1>14. CASE Bracket
  BY <1>14, BracketStateKeeps
<1>15. CASE Abort
  BY <1>15, AbortKeeps
<1>16. CASE UNCHANGED vars
  BY <1>16 DEF vars, Inv, Registers, LocalsFramed, WordOpen
<1> QED
  BY <1>1, <1>2, <1>3, <1>4, <1>5, <1>6, <1>7, <1>8, <1>9, <1>10, <1>11, <1>12, <1>13, <1>14,
     <1>15, <1>16 DEF Next

(* The inductive invariant holds of every behaviour that keeps the rules. *)
THEOREM DictionaryInvariant ==
  ASSUME AllRules \subseteq Rules
  PROVE  Spec => []Inv
<1>1. Init => Inv
  BY InitInv
<1>2. Inv /\ [Next]_vars => Inv'
  BY StepInv
<1> QED  BY <1>1, <1>2, PTL DEF Spec

(* find gives what a search through the vocabularies gives, whatever the    *)
(* hash function: make_entry, restore, ; and the words of the search order  *)
(* never leave an entry in the cache that the search would not find.        *)
THEOREM CacheIsNeverSeen ==
  ASSUME AllRules \subseteq Rules
  PROVE  Spec => []FindAgrees
<1>1. Inv => FindAgrees
  BY InvImplies
<1> QED  BY <1>1, DictionaryInvariant, PTL

(* A word stays in its vocabulary until forget removes it or an older one.  *)
(* ;, does>, exception> and { cut off local names only.                     *)
THEOREM DefinitionsAreKept ==
  ASSUME AllRules \subseteq Rules
  PROVE  Spec => []DefinitionsStay
<1>1. Inv => DefinitionsStay
  BY InvImplies
<1> QED  BY <1>1, DictionaryInvariant, PTL

(* Local names are in the dictionary while their definition is compiled,    *)
(* and above nothing but that definition.                                   *)
THEOREM LocalNamesLeave ==
  ASSUME AllRules \subseteq Rules
  PROVE  Spec => []LocalsRemoved
<1>1. Inv => LocalsRemoved
  BY InvImplies
<1> QED  BY <1>1, DictionaryInvariant, PTL

(* A forward declaration executes a later definition of its name while its  *)
(* vocabulary has a complete one: doentry redirects the declaration in time,*)
(* and forget does not take away what it executes before the others.        *)
THEOREM ForwardsExecuteLater ==
  ASSUME AllRules \subseteq Rules
  PROVE  Spec => []ForwardsResolved
<1>1. Inv => ForwardsResolved
  BY InvImplies
<1> QED  BY <1>1, DictionaryInvariant, PTL
=============================================================================
