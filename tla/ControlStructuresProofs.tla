------------------------ MODULE ControlStructuresProofs ------------------------
(***************************************************************************)
(* The compiler of control structures is correct: FramesMatchText and      *)
(* RunsAsWritten of ControlStructures, for definitions of any length.      *)
(*                                                                         *)
(* The text is a sequence of brackets: the words that open and end         *)
(* structures give each place a level and a set of open structures.  While *)
(* the compiler works, the code is laid out word by word, every branch     *)
(* whose target is known leads to it, and the stack holds, from the bottom *)
(* up, the marks of the open structures and nothing else (Good).  When the *)
(* machine executes, it is in front of or inside some word, with the       *)
(* frames of the loops and the values of the cases around that word        *)
(* (Running).  Each word of the compiler keeps the former, each            *)
(* instruction the latter, and the step from word to word is Successor.    *)
(***************************************************************************)
EXTENDS ControlStructures, TLAPS, SequenceTheorems, FunctionTheorems, FiniteSetTheorems,
        WellFoundedInduction

----------------------------------------------------------------------------
(* Numbers, and the text as a sequence of brackets. *)

(* A nonempty set of numbers has a least one. *)
LEMMA LeastNumber ==
  ASSUME NEW T \in SUBSET Nat, T # {}
  PROVE  \E x \in T : \A y \in T : x <= y
<1>1. \E x \in T : \A y \in T : ~ (<<y, x>> \in OpToRel(<, Nat))
  BY WFMin, NatLessThanWellFounded, Zenon
<1>2. \A x, y \in Nat : y < x => <<y, x>> \in OpToRel(<, Nat)
  BY DEF OpToRel
<1>3. PICK x \in T : \A y \in T : ~ (<<y, x>> \in OpToRel(<, Nat))
  BY <1>1, Zenon
<1>4. \A y \in T : ~ (y < x)
  BY <1>2, <1>3
<1>5. \A y \in T : x <= y
  BY <1>4
<1> QED  BY <1>3, <1>5

(* A bounded one has a greatest. *)
LEMMA GreatestNumber ==
  ASSUME NEW N \in Nat, NEW T \in SUBSET (0 .. N), T # {}
  PROVE  \E x \in T : \A y \in T : y <= x
<1> DEFINE U == {N - x : x \in T}
<1>1. U \in SUBSET Nat /\ U # {}
  OBVIOUS
<1>2. PICK u \in U : \A w \in U : u <= w
  <2> HIDE DEF U
  <2> QED  BY <1>1, LeastNumber
<1>3. PICK x \in T : u = N - x
  BY <1>2
<1>4. \A y \in T : N - x <= N - y
  BY <1>2, <1>3
<1>5. \A y \in T : y <= x
  BY <1>4
<1> QED  BY <1>5

(* Max is the greatest of some bounded numbers. *)
LEMMA MaxOfNumbers ==
  ASSUME NEW N \in Nat, NEW T \in SUBSET (0 .. N), T # {}
  PROVE  Max(T) \in T /\ \A y \in T : y <= Max(T)
<1>1. \E x \in T : \A y \in T : x >= y
  BY GreatestNumber
<1>2. Max(T) \in T /\ \A y \in T : Max(T) >= y
  BY <1>1, Zenon DEF Max
<1> QED  BY <1>2

(* Min is the least of some numbers. *)
LEMMA MinOfNumbers ==
  ASSUME NEW T \in SUBSET Nat, T # {}
  PROVE  Min(T) \in T /\ \A y \in T : Min(T) <= y
<1>1. \E x \in T : \A y \in T : x <= y
  BY LeastNumber
<1> QED  BY <1>1, Zenon DEF Min

----------------------------------------------------------------------------
(* The text as a sequence of brackets.  The operators of the module speak   *)
(* of the variable text; these speak of any text.                           *)

Words == Openers \cup Checked \cup Plain \cup {"semicolon"}

Change(w) == IF w \in Opening THEN 1 ELSE IF w \in Closing THEN -1 ELSE 0

Count(s, W, k) == Cardinality({j \in 1..k : s[j] \in W})
Lev(s, k) == Count(s, Opening, k) - Count(s, Closing, k)

\* Nothing up to word m ends what word k opens or goes on with.
Live(s, k, m) == \A i \in k..m : Lev(s, i) >= Lev(s, k)

Opn(s, k) == {j \in 1..k : s[j] \in Opening /\ Live(s, j, k)}

(* A count of words goes up at each word that is counted. *)
LEMMA CountStep ==
  ASSUME NEW s, NEW W, NEW k \in Nat
  PROVE  /\ Count(s, W, k) \in Nat /\ Count(s, W, 0) = 0
         /\ k > 0 => Count(s, W, k) = Count(s, W, k - 1) + (IF s[k] \in W THEN 1 ELSE 0)
<1> DEFINE S(m) == {j \in 1..m : s[j] \in W}
<1>1. \A m \in Nat : IsFiniteSet(S(m)) /\ Cardinality(S(m)) \in Nat
  <2> SUFFICES ASSUME NEW m \in Nat PROVE IsFiniteSet(S(m)) /\ Cardinality(S(m)) \in Nat
    OBVIOUS
  <2>1. IsFiniteSet(1..m)
    BY FS_Interval
  <2>2. S(m) \subseteq 1..m
    OBVIOUS
  <2> HIDE DEF S
  <2>3. IsFiniteSet(S(m))
    BY <2>1, <2>2, FS_Subset
  <2> QED  BY <2>3, FS_CardinalityType
<1>2. S(0) = {}
  OBVIOUS
<1>3. Cardinality({}) = 0
  BY FS_EmptySet
<1>4. ASSUME k > 0 PROVE Cardinality(S(k)) = Cardinality(S(k - 1)) + (IF s[k] \in W THEN 1 ELSE 0)
  <2>1. IsFiniteSet(S(k - 1)) /\ Cardinality(S(k - 1)) \in Nat
    <3> HIDE DEF S
    <3> QED  BY <1>1, <1>4
  <2>2. CASE s[k] \in W
    <3>1. S(k) = S(k - 1) \cup {k} /\ k \notin S(k - 1)
      BY <1>4, <2>2
    <3> HIDE DEF S
    <3>2. Cardinality(S(k - 1) \cup {k}) = Cardinality(S(k - 1)) + 1
      BY <3>1, <2>1, FS_AddElement
    <3> QED  BY <3>1, <3>2, <2>2
  <2>3. CASE s[k] \notin W
    <3>1. S(k) = S(k - 1)
      BY <1>4, <2>3
    <3> HIDE DEF S
    <3> QED  BY <3>1, <2>1, <2>3
  <2> QED  BY <2>2, <2>3
<1>5. Count(s, W, k) = Cardinality(S(k)) /\ Count(s, W, 0) = Cardinality(S(0))
      /\ Count(s, W, k - 1) = Cardinality(S(k - 1))
  BY DEF Count
<1> HIDE DEF S
<1> QED  BY <1>1, <1>2, <1>3, <1>4, <1>5

(* No word both opens and ends a structure. *)
LEMMA KindsApart == Opening \cap Closing = {}
  BY DEF Opening, Openers, Closing, Checked

(* The level goes up and down at the words that open and end structures. *)
LEMMA LevelStep ==
  ASSUME NEW s, NEW k \in Nat
  PROVE  /\ Lev(s, k) \in Int /\ Lev(s, 0) = 0
         /\ k > 0 => Lev(s, k) = Lev(s, k - 1) + Change(s[k])
<1> DEFINE O(m) == Count(s, Opening, m)
           C(m) == Count(s, Closing, m)
<1>1. /\ O(k) \in Nat /\ O(0) = 0
      /\ k > 0 => O(k) = O(k - 1) + (IF s[k] \in Opening THEN 1 ELSE 0)
  BY CountStep
<1>2. /\ C(k) \in Nat /\ C(0) = 0
      /\ k > 0 => C(k) = C(k - 1) + (IF s[k] \in Closing THEN 1 ELSE 0)
  BY CountStep
<1>3. k > 0 => O(k - 1) \in Nat /\ C(k - 1) \in Nat
  <2> SUFFICES ASSUME k > 0 PROVE O(k - 1) \in Nat /\ C(k - 1) \in Nat
    OBVIOUS
  <2>1. k - 1 \in Nat
    OBVIOUS
  <2> QED  BY <2>1, CountStep
<1>4. Lev(s, k) = O(k) - C(k) /\ Lev(s, k - 1) = O(k - 1) - C(k - 1) /\ Lev(s, 0) = O(0) - C(0)
  BY DEF Lev
<1>5. Change(s[k]) = (IF s[k] \in Opening THEN 1 ELSE 0) - (IF s[k] \in Closing THEN 1 ELSE 0)
  BY KindsApart DEF Change
<1> HIDE DEF O, C
<1> QED  BY <1>1, <1>2, <1>3, <1>4, <1>5

(* A word at the end changes nothing of what stands before it. *)
LEMMA CountAppend ==
  ASSUME NEW T, NEW s \in Seq(T), NEW w \in T, NEW W, NEW k \in 0..Len(s)
  PROVE  Count(Append(s, w), W, k) = Count(s, W, k)
<1>1. \A j \in 1..k : Append(s, w)[j] = s[j]
  OBVIOUS
<1>2. {j \in 1..k : Append(s, w)[j] \in W} = {j \in 1..k : s[j] \in W}
  BY <1>1
<1> QED  BY <1>2 DEF Count

(* A word at the end changes no level before it, and what is open there. *)
LEMMA AppendKeeps ==
  ASSUME NEW T, NEW s \in Seq(T), NEW w \in T, NEW k \in 0..Len(s)
  PROVE  /\ Lev(Append(s, w), k) = Lev(s, k)
         /\ Opn(Append(s, w), k) = Opn(s, k)
         /\ \A j \in 0..Len(s) : Live(Append(s, w), j, k) <=> Live(s, j, k)
<1> DEFINE z == Append(s, w)
<1>1. \A j \in 0..Len(s) : Lev(z, j) = Lev(s, j)
  BY CountAppend DEF Lev
<1>2. \A j \in 1..Len(s) : z[j] = s[j]
  OBVIOUS
<1> HIDE DEF z
<1>3. \A j \in 0..Len(s) : Live(z, j, k) <=> Live(s, j, k)
  BY <1>1 DEF Live
<1>4. Opn(z, k) = Opn(s, k)
  BY <1>2, <1>3 DEF Opn
<1> QED  BY <1>1, <1>3, <1>4 DEF z

(* The level behind a word put at the end. *)
LEMMA LevelAppend ==
  ASSUME NEW T, NEW s \in Seq(T), NEW w \in T
  PROVE  Lev(Append(s, w), Len(s) + 1) = Lev(s, Len(s)) + Change(w)
<1>1. Len(s) + 1 \in Nat /\ Len(s) + 1 > 0 /\ Append(s, w)[Len(s) + 1] = w
      /\ (Len(s) + 1) - 1 = Len(s) /\ Len(s) \in 0..Len(s)
  OBVIOUS
<1>2. Lev(Append(s, w), Len(s) + 1)
      = Lev(Append(s, w), (Len(s) + 1) - 1) + Change(Append(s, w)[Len(s) + 1])
  BY <1>1, LevelStep
<1>3. Lev(Append(s, w), Len(s)) = Lev(s, Len(s))
  BY <1>1, AppendKeeps
<1> QED  BY <1>1, <1>2, <1>3

----------------------------------------------------------------------------

(* A word that is open stays so until a word ends it. *)
LEMMA OpenPrefix ==
  ASSUME NEW s, NEW k \in Nat, NEW j \in Opn(s, k)
  PROVE  /\ j \in 1..k /\ s[j] \in Opening /\ Lev(s, j) <= Lev(s, k)
         /\ \A m \in j..k : j \in Opn(s, m)
         /\ \A i \in 1..j : i \in Opn(s, k) <=> i \in Opn(s, j)
<1>1. j \in 1..k /\ s[j] \in Opening /\ \A i \in j..k : Lev(s, i) >= Lev(s, j)
  BY DEF Opn, Live
<1>2. \A i \in Nat : Lev(s, i) \in Int
  BY LevelStep
<1>3. \A m \in j..k : j \in Opn(s, m)
  BY <1>1 DEF Opn, Live
<1>4. ASSUME NEW i \in 1..j PROVE i \in Opn(s, k) <=> i \in Opn(s, j)
  <2>1. i \in Opn(s, k) => i \in Opn(s, j)
    BY <1>1 DEF Opn, Live
  <2>2. ASSUME i \in Opn(s, j) PROVE i \in Opn(s, k)
    <3>1. s[i] \in Opening /\ \A x \in i..j : Lev(s, x) >= Lev(s, i)
      BY <2>2 DEF Opn, Live
    <3>2. ASSUME NEW x \in i..k PROVE Lev(s, x) >= Lev(s, i)
      <4>1. CASE x <= j
        BY <4>1, <3>1
      <4>2. CASE x > j
        <5>1. Lev(s, x) >= Lev(s, j) /\ Lev(s, j) >= Lev(s, i)
          BY <1>1, <3>1, <4>2
        <5> QED  BY <5>1, <1>1, <1>2
      <4> QED  BY <4>1, <4>2, <1>1
    <3> QED  BY <1>1, <3>1, <3>2 DEF Opn, Live
  <2> QED  BY <2>1, <2>2
<1> QED  BY <1>1, <1>3, <1>4

(* The words open after each word. *)
LEMMA OpenStep ==
  ASSUME NEW s, NEW k \in Nat, k > 0
  PROVE  /\ s[k] \in Opening => Opn(s, k) = Opn(s, k - 1) \cup {k}
         /\ s[k] \notin Opening \cup Closing => Opn(s, k) = Opn(s, k - 1)
         /\ s[k] \in Closing => Opn(s, k) = {j \in Opn(s, k - 1) : Lev(s, j) < Lev(s, k - 1)}
<1>1. \A i \in Nat : Lev(s, i) \in Int
  BY LevelStep
<1>2. Lev(s, k) = Lev(s, k - 1) + Change(s[k])
  BY LevelStep
<1>3. \A j \in 1..k-1 : j \in Opn(s, k) <=> j \in Opn(s, k - 1) /\ Lev(s, k) >= Lev(s, j)
  <2>1. \A j \in 1..k-1 : j..k = (j..k-1) \cup {k}
    OBVIOUS
  <2> QED  BY <2>1 DEF Opn, Live
<1>4. \A j \in Opn(s, k - 1) : j \in 1..k-1 /\ Lev(s, j) <= Lev(s, k - 1)
  <2>1. k - 1 \in Nat
    OBVIOUS
  <2> QED  BY <2>1, OpenPrefix
<1>5. k \in Opn(s, k) <=> s[k] \in Opening
  <2>1. \A i \in k..k : i = k
    OBVIOUS
  <2> QED  BY <2>1, <1>1 DEF Opn, Live
<1>6. k \notin Opn(s, k - 1) /\ \A j \in Opn(s, k) : j \in 1..k
  BY DEF Opn
<1>7. \A j \in Opn(s, k) : j = k \/ j \in 1..k-1
  BY <1>6
<1>8. CASE s[k] \in Opening
  <2>1. Lev(s, k) = Lev(s, k - 1) + 1 /\ s[k] \notin Closing
    BY <1>8, <1>2, KindsApart DEF Change
  <2>2. \A j \in Opn(s, k - 1) : Lev(s, k) >= Lev(s, j)
    BY <2>1, <1>1, <1>4
  <2> QED  BY <2>1, <2>2, <1>8, <1>3, <1>4, <1>5, <1>6, <1>7
<1>9. CASE s[k] \notin Opening \cup Closing
  <2>1. Lev(s, k) = Lev(s, k - 1)
    BY <1>9, <1>2, <1>1 DEF Change
  <2> QED  BY <2>1, <1>9, <1>3, <1>4, <1>5, <1>6, <1>7
<1>10. CASE s[k] \in Closing
  <2>1. Lev(s, k) = Lev(s, k - 1) - 1 /\ s[k] \notin Opening
    BY <1>10, <1>2, <1>1, KindsApart DEF Change
  <2>2. \A j \in Opn(s, k - 1) : Lev(s, k) >= Lev(s, j) <=> Lev(s, j) < Lev(s, k - 1)
    BY <2>1, <1>1, <1>4
  <2> QED  BY <2>1, <2>2, <1>10, <1>3, <1>4, <1>5, <1>6, <1>7
<1> QED  BY <1>8, <1>9, <1>10

(* What is open later lies deeper. *)
LEMMA OpenOrder ==
  ASSUME NEW s, NEW k \in Nat, NEW i \in Opn(s, k), NEW j \in Opn(s, k), i < j
  PROVE  Lev(s, i) < Lev(s, j)
<1>1. i \in 1..k /\ j \in 1..k /\ s[j] \in Opening /\ \A x \in i..k : Lev(s, x) >= Lev(s, i)
  BY DEF Opn, Live
<1>2. Lev(s, j) = Lev(s, j - 1) + 1
  <2>1. Lev(s, j) = Lev(s, j - 1) + Change(s[j])
    BY <1>1, LevelStep
  <2> QED  BY <2>1, <1>1 DEF Change
<1>3. Lev(s, j - 1) >= Lev(s, i)
  BY <1>1
<1>4. Lev(s, j - 1) \in Int /\ Lev(s, i) \in Int
  <2>1. j - 1 \in Nat
    BY <1>1
  <2> QED  BY <1>1, <2>1, LevelStep
<1> QED  BY <1>2, <1>3, <1>4

----------------------------------------------------------------------------
(* A balanced text never ends more than it began.                           *)

Balanced(s) == s \in Seq(Words) /\ \A k \in 0..Len(s) : Lev(s, k) >= 0

(* Each level up to the present one belongs to a structure that is open. *)
LEMMA EveryLevelOpen ==
  ASSUME NEW s, Balanced(s), NEW k \in 0..Len(s), NEW l \in 1..Lev(s, k)
  PROVE  \E j \in Opn(s, k) : Lev(s, j) = l
<1>1. \A i \in Nat : Lev(s, i) \in Int
  BY LevelStep
<1> DEFINE Fits(m) == \A x \in 1..Lev(s, m) : \E j \in Opn(s, m) : Lev(s, j) = x
           Bad == {m \in 0..Len(s) : ~Fits(m)}
<1>2. SUFFICES ASSUME Bad # {} PROVE FALSE
  BY <1>2
<1>3. PICK m \in Bad : \A y \in Bad : m <= y
  <2>1. Bad \in SUBSET Nat
    BY DEF Balanced
  <2> HIDE DEF Bad
  <2> QED  BY <1>2, <2>1, LeastNumber
<1>4. m \in 0..Len(s) /\ ~Fits(m)
  BY <1>3
<1>5. m # 0
  <2>1. Lev(s, 0) = 0
    BY LevelStep
  <2> QED  BY <2>1, <1>4
<1>6. Len(s) \in Nat
  BY DEF Balanced
<1>7. m \in Nat /\ m > 0 /\ m - 1 \in 0..Len(s)
  BY <1>4, <1>5, <1>6
<1>8. Fits(m - 1)
  <2>1. m - 1 \notin Bad
    <3> HIDE DEF Bad
    <3> QED  BY <1>3, <1>7
  <2> QED  BY <2>1, <1>7
<1>9. Lev(s, m) = Lev(s, m - 1) + Change(s[m])
  BY <1>7, LevelStep
<1>10. /\ s[m] \in Opening => Opn(s, m) = Opn(s, m - 1) \cup {m}
       /\ s[m] \notin Opening \cup Closing => Opn(s, m) = Opn(s, m - 1)
       /\ s[m] \in Closing => Opn(s, m) = {j \in Opn(s, m - 1) : Lev(s, j) < Lev(s, m - 1)}
  BY <1>7, OpenStep
<1>11. Lev(s, m - 1) \in Int /\ Lev(s, m) \in Int
  BY <1>1, <1>7
<1>12. CASE s[m] \in Opening
  <2>1. Lev(s, m) = Lev(s, m - 1) + 1
    BY <1>12, <1>9 DEF Change
  <2>2. \A x \in 1..Lev(s, m) : x \in 1..Lev(s, m - 1) \/ x = Lev(s, m)
    BY <2>1, <1>11
  <2>3. Fits(m)
    BY <2>2, <1>8, <1>10, <1>12
  <2> QED  BY <2>3, <1>4
<1>13. CASE s[m] \notin Opening \cup Closing
  <2>1. Lev(s, m) = Lev(s, m - 1)
    BY <1>13, <1>9, <1>11 DEF Change
  <2>3. Fits(m)
    BY <2>1, <1>8, <1>10, <1>13
  <2> QED  BY <2>3, <1>4
<1>14. CASE s[m] \in Closing
  <2>1. Lev(s, m) = Lev(s, m - 1) - 1
    BY <1>14, <1>9, <1>11, KindsApart DEF Change
  <2>2. \A x \in 1..Lev(s, m) : x \in 1..Lev(s, m - 1) /\ x < Lev(s, m - 1)
    BY <2>1, <1>11
  <2>3. Fits(m)
    BY <2>2, <1>8, <1>10, <1>14
  <2> QED  BY <2>3, <1>4
<1> QED  BY <1>12, <1>13, <1>14

Top(s, k) == Max(Opn(s, k))

(* The structure opened last. *)
LEMMA TopIsDeepest ==
  ASSUME NEW s, NEW k \in Nat, Opn(s, k) # {}, Balanced(s), k <= Len(s)
  PROVE  /\ Top(s, k) \in Opn(s, k) /\ Top(s, k) \in 1..k
         /\ \A j \in Opn(s, k) : j <= Top(s, k)
         /\ Lev(s, Top(s, k)) = Lev(s, k) /\ Lev(s, k) > 0
         /\ Opn(s, k) = Opn(s, Top(s, k))
         /\ Opn(s, k) \ {Top(s, k)} = Opn(s, Top(s, k) - 1)
         /\ \A j \in Opn(s, k) : Lev(s, j) = Lev(s, k) => j = Top(s, k)
<1> DEFINE t == Top(s, k)
<1>1. Opn(s, k) \in SUBSET (0..k)
  BY DEF Opn
<1>2. t \in Opn(s, k) /\ \A j \in Opn(s, k) : j <= t
  BY <1>1, MaxOfNumbers DEF Top
<1> HIDE DEF t
<1>3. t \in 1..k /\ s[t] \in Opening /\ Lev(s, t) <= Lev(s, k)
      /\ \A i \in 1..t : i \in Opn(s, k) <=> i \in Opn(s, t)
  BY <1>2, OpenPrefix
<1>4. \A i \in Nat : Lev(s, i) \in Int
  BY LevelStep
<1>5. Lev(s, t) > 0
  <2>1. Lev(s, t) = Lev(s, t - 1) + Change(s[t])
    BY <1>3, LevelStep
  <2>2. t - 1 \in 0..Len(s)
    BY <1>3 DEF Balanced
  <2>3. Lev(s, t - 1) >= 0 /\ Lev(s, t - 1) \in Int
    BY <2>2, <1>4 DEF Balanced
  <2> QED  BY <2>1, <2>3, <1>3 DEF Change
<1>6. Lev(s, t) = Lev(s, k)
  <2>1. SUFFICES ASSUME Lev(s, t) < Lev(s, k) PROVE FALSE
    BY <1>3, <1>4
  <2>2. k \in 0..Len(s) /\ Lev(s, k) \in 1..Lev(s, k)
    BY <2>1, <1>3, <1>4, <1>5 DEF Balanced
  <2>3. PICK j \in Opn(s, k) : Lev(s, j) = Lev(s, k)
    BY <2>2, EveryLevelOpen
  <2>4. j <= t /\ j # t /\ j \in 1..k
    BY <2>3, <2>1, <1>2, <1>4, <1>3, <1>1 DEF Opn
  <2>5. Lev(s, j) < Lev(s, t)
    BY <2>3, <2>4, <1>2, <1>3, OpenOrder
  <2> QED  BY <2>3, <2>5, <2>1, <1>4, <1>3
<1>7. Opn(s, k) = Opn(s, t)
  <2>1. \A i \in Opn(s, k) : i \in 1..t
    BY <1>2, <1>3 DEF Opn
  <2>2. \A i \in Opn(s, t) : i \in 1..t
    BY DEF Opn
  <2> QED  BY <2>1, <2>2, <1>3
<1>8. Opn(s, t) = Opn(s, t - 1) \cup {t} /\ t \notin Opn(s, t - 1)
  <2>1. Opn(s, t) = Opn(s, t - 1) \cup {t}
    BY <1>3, OpenStep
  <2> QED  BY <2>1, <1>3 DEF Opn
<1>9. \A j \in Opn(s, k) : Lev(s, j) = Lev(s, k) => j = t
  <2> SUFFICES ASSUME NEW j \in Opn(s, k), Lev(s, j) = Lev(s, k), j < t PROVE FALSE
    BY <1>1, <1>2, <1>3
  <2>1. Lev(s, j) < Lev(s, t)
    BY <1>2, OpenOrder
  <2> QED  BY <2>1, <1>6, <1>4, <1>1, <1>3
<1>10. Lev(s, k) > 0
  BY <1>5, <1>6
<1> QED  BY <1>2, <1>3, <1>6, <1>7, <1>8, <1>9, <1>10 DEF t

(* What a closing word ends is the structure opened last. *)
LEMMA OpenClosed ==
  ASSUME NEW s, NEW k \in Nat, k > 0, k <= Len(s), Balanced(s), s[k] \in Closing
  PROVE  /\ Opn(s, k - 1) # {} /\ Opn(s, k) = Opn(s, k - 1) \ {Top(s, k - 1)}
         /\ Opn(s, k) = Opn(s, Top(s, k - 1) - 1)
<1>1. \A i \in Nat : Lev(s, i) \in Int
  BY LevelStep
<1>2. Lev(s, k) = Lev(s, k - 1) - 1
  <2>1. Lev(s, k) = Lev(s, k - 1) + Change(s[k])
    BY LevelStep
  <2> QED  BY <2>1, <1>1, KindsApart DEF Change
<1>3. k - 1 \in 0..Len(s) /\ k \in 0..Len(s) /\ k - 1 \in Nat
  BY DEF Balanced
<1>4. Lev(s, k - 1) \in 1..Lev(s, k - 1)
  <2>1. Lev(s, k) >= 0
    BY <1>3 DEF Balanced
  <2> QED  BY <2>1, <1>1, <1>2, <1>3
<1>5. Opn(s, k - 1) # {}
  BY <1>3, <1>4, EveryLevelOpen
<1>6. /\ Opn(s, k - 1) \ {Top(s, k - 1)} = Opn(s, Top(s, k - 1) - 1)
      /\ Lev(s, Top(s, k - 1)) = Lev(s, k - 1)
      /\ \A j \in Opn(s, k - 1) : Lev(s, j) = Lev(s, k - 1) => j = Top(s, k - 1)
  BY <1>3, <1>5, TopIsDeepest
<1>7. Opn(s, k) = {j \in Opn(s, k - 1) : Lev(s, j) < Lev(s, k - 1)}
  BY OpenStep
<1>8. \A j \in Opn(s, k - 1) : Lev(s, j) <= Lev(s, k - 1) /\ j \in Nat
  BY <1>3, OpenPrefix
<1>9. Opn(s, k) = Opn(s, k - 1) \ {Top(s, k - 1)}
  BY <1>1, <1>3, <1>6, <1>7, <1>8
<1> QED  BY <1>5, <1>6, <1>9

EndOf(s, k) == Min({j \in k + 1..Len(s) : Lev(s, j) = Lev(s, k) - 1})
BeginOf(s, k) == Max({j \in 1..k - 1 : s[j] \in Opening /\ Lev(s, j) = Lev(s, k) + 1})

(* A step changes the level by at most one. *)
LEMMA LevelSteps ==
  ASSUME NEW s, NEW k \in Nat, k > 0
  PROVE  /\ Lev(s, k) \in Int /\ Lev(s, k - 1) \in Int
         /\ Lev(s, k) >= Lev(s, k - 1) - 1 /\ Lev(s, k) <= Lev(s, k - 1) + 1
         /\ Lev(s, k) < Lev(s, k - 1) => s[k] \in Closing /\ Lev(s, k) = Lev(s, k - 1) - 1
         /\ s[k] \in Closing => Lev(s, k) = Lev(s, k - 1) - 1
         /\ s[k] \in Opening => Lev(s, k) = Lev(s, k - 1) + 1
         /\ s[k] \notin Opening \cup Closing => Lev(s, k) = Lev(s, k - 1)
<1>1. Lev(s, k) = Lev(s, k - 1) + Change(s[k]) /\ Lev(s, k) \in Int
  BY LevelStep
<1>2. Lev(s, k - 1) \in Int
  <2>1. k - 1 \in Nat
    OBVIOUS
  <2> QED  BY <2>1, LevelStep
<1> QED  BY <1>1, <1>2, KindsApart DEF Change

(* The word that ends a structure is the first that leaves its level. *)
LEMMA EndIs ==
  ASSUME NEW s, s \in Seq(Words), NEW k \in 1..Len(s), NEW m \in k + 1..Len(s),
         Live(s, k, m - 1), ~Live(s, k, m)
  PROVE  /\ EndOf(s, k) = m /\ s[m] \in Closing
         /\ Lev(s, m - 1) = Lev(s, k) /\ Lev(s, m) = Lev(s, k) - 1
<1>1. \A i \in Nat : Lev(s, i) \in Int
  BY LevelStep
<1>2. Len(s) \in Nat /\ m \in Nat /\ k \in Nat /\ m > 0
  OBVIOUS
<1>3. \A i \in k..m-1 : Lev(s, i) >= Lev(s, k)
  BY DEF Live
<1>4. Lev(s, m) < Lev(s, k)
  <2>1. \A i \in k..m : i \in k..m-1 \/ i = m
    OBVIOUS
  <2>2. ~(Lev(s, m) >= Lev(s, k))
    BY <2>1, <1>3 DEF Live
  <2> QED  BY <2>2, <1>1, <1>2
<1>5. Lev(s, m) >= Lev(s, m - 1) - 1
      /\ (Lev(s, m) < Lev(s, m - 1) => s[m] \in Closing /\ Lev(s, m) = Lev(s, m - 1) - 1)
  BY <1>2, LevelSteps
<1>6. Lev(s, m - 1) >= Lev(s, k) /\ Lev(s, m - 1) \in Int
  BY <1>1, <1>3, <1>2
<1>7. Lev(s, m - 1) = Lev(s, k) /\ Lev(s, m) = Lev(s, k) - 1 /\ s[m] \in Closing
  BY <1>1, <1>2, <1>4, <1>5, <1>6
<1> DEFINE S == {j \in k + 1..Len(s) : Lev(s, j) = Lev(s, k) - 1}
<1>8. m \in S /\ S \in SUBSET Nat
  BY <1>7
<1>9. \A j \in S : m <= j
  BY <1>1, <1>2, <1>3
<1> HIDE DEF S
<1>10. Min(S) \in S /\ \A y \in S : Min(S) <= y
  BY <1>8, MinOfNumbers
<1>11. \A x \in S : (\A y \in S : x <= y) => x = m
  <2> SUFFICES ASSUME NEW x \in S, x <= m, m <= x PROVE x = m
    BY <1>8, <1>9
  <2>1. x \in Nat
    BY <1>8
  <2> QED  BY <2>1, <1>2
<1>12. Min(S) = m
  BY <1>10, <1>11
<1> QED  BY <1>7, <1>12 DEF EndOf, S

(* A structure that is no longer open has an end, the first word where it is *)
(* not.                                                                      *)
LEMMA EndExists ==
  ASSUME NEW s, s \in Seq(Words), NEW k \in 1..Len(s), NEW m \in k..Len(s), ~Live(s, k, m)
  PROVE  /\ EndOf(s, k) \in k + 1..m
         /\ Live(s, k, EndOf(s, k) - 1) /\ ~Live(s, k, EndOf(s, k))
<1>1. \A i \in Nat : Lev(s, i) \in Int
  BY LevelStep
<1> DEFINE S == {i \in k..m : Lev(s, i) < Lev(s, k)}
<1>2. S # {} /\ S \in SUBSET Nat
  <2>1. PICK i \in k..m : ~(Lev(s, i) >= Lev(s, k))
    BY DEF Live
  <2>2. i \in Nat /\ k \in Nat
    OBVIOUS
  <2>3. Lev(s, i) < Lev(s, k)
    BY <1>1, <2>1, <2>2
  <2> QED  BY <2>1, <2>3
<1>3. PICK e \in S : \A i \in S : e <= i
  <2> HIDE DEF S
  <2> QED  BY <1>2, LeastNumber
<1>4. e \in k..m /\ e # k /\ Lev(s, e) < Lev(s, k)
  BY <1>1, <1>3
<1>5. Live(s, k, e - 1)
  BY <1>1, <1>3, <1>4 DEF Live
<1>6. ~Live(s, k, e)
  BY <1>1, <1>4 DEF Live
<1>7. e \in k + 1..Len(s) /\ e \in k + 1..m
  BY <1>4
<1>8. EndOf(s, k) = e
  BY <1>5, <1>6, <1>7, EndIs
<1> QED  BY <1>5, <1>6, <1>7, <1>8

(* What the end of a structure leaves open is what was open before it. *)
LEMMA EndCloses ==
  ASSUME NEW s, Balanced(s), NEW k \in 1..Len(s), NEW m \in k + 1..Len(s),
         Live(s, k, m - 1), ~Live(s, k, m)
  PROVE  /\ Opn(s, k) # {} /\ Top(s, m - 1) = Top(s, k)
         /\ Opn(s, m - 1) = Opn(s, k)
         /\ Opn(s, m) = Opn(s, Top(s, k) - 1)
<1>1. \A i \in Nat : Lev(s, i) \in Int
  BY LevelStep
<1>2. s \in Seq(Words) /\ Len(s) \in Nat /\ m \in Nat /\ k \in Nat /\ m > 0 /\ m <= Len(s)
      /\ m - 1 \in Nat /\ m - 1 <= Len(s) /\ k <= m - 1 /\ k <= Len(s) /\ k \in 0..Len(s)
  BY DEF Balanced
<1>3. s[m] \in Closing /\ Lev(s, m - 1) = Lev(s, k) /\ Lev(s, m) = Lev(s, k) - 1
  BY <1>2, EndIs
<1>4. Lev(s, k) \in 1..Lev(s, k)
  <2>1. m \in 0..Len(s)
    BY <1>2
  <2>2. Lev(s, m) >= 0
    BY <2>1 DEF Balanced
  <2> QED  BY <2>2, <1>1, <1>2, <1>3
<1>5. Opn(s, k) # {}
  BY <1>2, <1>4, EveryLevelOpen
<1> DEFINE t == Top(s, k)
<1>6. t \in Opn(s, k) /\ t \in 1..k /\ Lev(s, t) = Lev(s, k) /\ Opn(s, k) = Opn(s, t)
  BY <1>2, <1>5, TopIsDeepest
<1>7. t \in Opn(s, m - 1)
  <2>1. \A i \in t..k : Lev(s, i) >= Lev(s, t)
    BY <1>6 DEF Opn, Live
  <2>2. \A i \in k..m-1 : Lev(s, i) >= Lev(s, t)
    BY <1>6 DEF Live
  <2>3. \A i \in t..m-1 : Lev(s, i) >= Lev(s, t)
    <3> HIDE DEF t
    <3> QED BY <2>1, <2>2, <1>6, <1>2
  <2> QED  BY <2>3, <1>6, <1>2 DEF Opn, Live
<1>8. /\ Top(s, m - 1) \in Opn(s, m - 1) /\ Opn(s, m - 1) = Opn(s, Top(s, m - 1))
      /\ \A j \in Opn(s, m - 1) : Lev(s, j) = Lev(s, m - 1) => j = Top(s, m - 1)
  BY <1>2, <1>7, TopIsDeepest
<1>9. Top(s, m - 1) = t
  BY <1>3, <1>6, <1>7, <1>8
<1>10. Opn(s, m) = Opn(s, Top(s, m - 1) - 1)
  BY <1>2, <1>3, OpenClosed
<1> HIDE DEF t
<1> QED  BY <1>5, <1>6, <1>8, <1>9, <1>10 DEF t

(* The word that opened what word k ends is the deepest open in front of it. *)
LEMMA BeginIs ==
  ASSUME NEW s, Balanced(s), NEW k \in 1..Len(s), s[k] \in Closing
  PROVE  BeginOf(s, k) = Top(s, k - 1)
<1>1. \A i \in Nat : Lev(s, i) \in Int
  BY LevelStep
<1>2. Len(s) \in Nat /\ k - 1 \in Nat /\ k - 1 <= Len(s) /\ k > 0 /\ k <= Len(s) /\ k \in Nat
  BY DEF Balanced
<1>3. Opn(s, k - 1) # {}
  BY <1>2, OpenClosed
<1> DEFINE t == Top(s, k - 1)
<1>4. t \in Opn(s, k - 1) /\ t \in 1..k - 1 /\ Lev(s, t) = Lev(s, k - 1)
  BY <1>2, <1>3, TopIsDeepest
<1>5. s[t] \in Opening /\ \A i \in t..k-1 : Lev(s, i) >= Lev(s, t)
  BY <1>4 DEF Opn, Live
<1>6. Lev(s, k) = Lev(s, k - 1) - 1
  BY <1>2, LevelSteps
<1> DEFINE S == {j \in 1..k - 1 : s[j] \in Opening /\ Lev(s, j) = Lev(s, k) + 1}
<1> HIDE DEF t
<1>7. t \in S
  BY <1>1, <1>2, <1>4, <1>5, <1>6
<1>8. ASSUME NEW j \in S, j > t PROVE FALSE
  <2>1. j \in 1..k-1 /\ s[j] \in Opening /\ Lev(s, j) = Lev(s, t)
    BY <1>8, <1>1, <1>2, <1>4, <1>6
  <2>2. Lev(s, j) = Lev(s, j - 1) + 1 /\ Lev(s, j - 1) \in Int
    BY <2>1, LevelSteps
  <2>3. Lev(s, j - 1) >= Lev(s, t)
    BY <1>4, <1>5, <1>8, <2>1
  <2> QED  BY <2>1, <2>2, <2>3, <1>1, <1>4
<1>9. S \in SUBSET (0..k)
  OBVIOUS
<1> HIDE DEF S
<1>10. Max(S) \in S /\ \A y \in S : y <= Max(S)
  BY <1>2, <1>7, <1>9, MaxOfNumbers
<1>11. \A x \in S : t <= x => x = t
  BY <1>2, <1>4, <1>8, <1>9
<1>12. Max(S) = t
  BY <1>7, <1>10, <1>11
<1> QED  BY <1>12 DEF BeginOf, S, t

----------------------------------------------------------------------------
(* Which words stand where.                                                 *)

LoopsIn(s, k) == {j \in Opn(s, k) : s[j] \in {"do", "?do"}}
CasesIn(s, k) == {j \in Opn(s, k) : s[j] = "case"}
OfsIn(s, k) == {j \in Opn(s, k) : s[j] = "of"}

OpenerOf(w) == CASE w \in {"loop", "+loop"} -> {"do", "?do"}
                 [] w \in {"else", "then"} -> {"if"}
                 [] w \in {"of", "endcase"} -> {"case"}
                 [] w = "endof" -> {"of"}
                 [] w \in {"until", "while", "repeat", "again"} -> {"begin"}

LegalAt(s, k) ==
  /\ s[k] \in Checked => Opn(s, k - 1) # {} /\ s[Top(s, k - 1)] \in OpenerOf(s[k])
  /\ s[k] = "leave" => /\ LoopsIn(s, k - 1) # {}
                       /\ \A j \in CasesIn(s, k - 1) : j < Max(LoopsIn(s, k - 1))
  /\ s[k] \in {"exit", "tail-recurse"} => LoopsIn(s, k - 1) \cup CasesIn(s, k - 1) = {}
  /\ s[k] = "semicolon" => Opn(s, k - 1) = {}

Legal(s) == Balanced(s) /\ \A k \in 1..Len(s) : LegalAt(s, k)

Continuing == {"else", "while", "endof"}
Part(w) == CASE w = "if" -> "else" [] w = "begin" -> "while" [] w = "case" -> "endof"
             [] OTHER -> "none"

(* The structure that else, while and endof go on with. *)
LEMMA OwnerOf ==
  ASSUME NEW s, Legal(s), NEW k \in 1..Len(s), s[k] \in Continuing
  PROVE  /\ Opn(s, k) # {} /\ Top(s, k) \in Opn(s, k) /\ Top(s, k) \in 1..k - 1
         /\ s[k] = Part(s[Top(s, k)])
         /\ Lev(s, Top(s, k)) = Lev(s, k) /\ Live(s, Top(s, k), k)
         /\ Opn(s, k) = Opn(s, Top(s, k))
         /\ Opn(s, k) = Opn(s, Top(s, k) - 1) \cup {Top(s, k)}
<1>1. Balanced(s) /\ Len(s) \in Nat /\ k - 1 \in Nat /\ k - 1 <= Len(s) /\ k > 0 /\ k <= Len(s) /\ k \in Nat
  BY DEF Balanced, Legal
<1>2. LegalAt(s, k)
  BY DEF Legal
<1>3. s[k] \in Checked
  BY DEF Continuing, Checked
<1>4. Opn(s, k - 1) # {} /\ s[Top(s, k - 1)] \in OpenerOf(s[k])
  BY <1>2, <1>3 DEF LegalAt
<1>5. SUFFICES Opn(s, k) # {} /\ k \notin Opn(s, k) /\ s[k] = Part(s[Top(s, k)])
  <2>1. /\ Top(s, k) \in Opn(s, k) /\ Top(s, k) \in 1..k
        /\ Lev(s, Top(s, k)) = Lev(s, k) /\ Opn(s, k) = Opn(s, Top(s, k))
        /\ Opn(s, k) \ {Top(s, k)} = Opn(s, Top(s, k) - 1)
    BY <1>1, <1>5, TopIsDeepest
  <2>2. Live(s, Top(s, k), k)
    BY <2>1 DEF Opn
  <2>3. Top(s, k) # k
    BY <2>1, <1>5
  <2>4. Top(s, k) \in 1..k - 1
    BY <2>1, <2>3
  <2>5. Opn(s, k) = Opn(s, Top(s, k) - 1) \cup {Top(s, k)}
    BY <2>1
  <2> QED  BY <2>1, <2>2, <2>4, <2>5, <1>5
<1>6. CASE s[k] \in {"else", "while"}
  <2>1. s[k] \notin Opening \cup Closing
    BY <1>6 DEF Opening, Closing, Checked, Openers
  <2>2. Opn(s, k) = Opn(s, k - 1)
    BY <2>1, <1>1, OpenStep
  <2>3. k \notin Opn(s, k - 1)
    BY <1>1 DEF Opn
  <2>4. Top(s, k) = Top(s, k - 1)
    BY <2>2 DEF Top
  <2>5. s[k] = Part(s[Top(s, k - 1)])
    BY <1>4, <1>6 DEF OpenerOf, Part
  <2> QED  BY <2>2, <2>3, <2>4, <2>5, <1>4
<1>7. CASE s[k] = "endof"
  <2> DEFINE t == Top(s, k - 1)
  <2>1. s[k] \in Closing
    BY <1>7 DEF Closing, Checked
  <2>2. Opn(s, k) = Opn(s, t - 1)
    BY <2>1, <1>1, OpenClosed
  <2>3. s[t] = "of"
    BY <1>4, <1>7 DEF OpenerOf
  <2>4. t \in 1..k - 1
    BY <1>1, <1>4, TopIsDeepest
  <2> HIDE DEF t
  <2>5. LegalAt(s, t) /\ s[t] \in Checked
    BY <2>3, <2>4, <1>1 DEF Legal, Checked
  <2>6. Opn(s, t - 1) # {} /\ s[Top(s, t - 1)] \in OpenerOf(s[t])
    BY <2>5 DEF LegalAt
  <2>7. s[Top(s, t - 1)] = "case"
    BY <2>3, <2>6 DEF OpenerOf
  <2>8. Top(s, k) = Top(s, t - 1)
    BY <2>2 DEF Top
  <2>9. k \notin Opn(s, t - 1)
    BY <1>1, <2>4 DEF Opn
  <2> QED  BY <2>2, <2>6, <2>7, <2>8, <2>9, <1>7 DEF Part
<1> QED  BY <1>6, <1>7 DEF Continuing

----------------------------------------------------------------------------
(* Branches, and the words that settle them. *)

(* The branches forward, and when they are resolved.                        *)
Forward == {"do", "?do", "if", "else", "of", "endof", "while"}

\* The words that go on with the structure of word j, on its own level.
Parts(s, j) == {e \in j + 1..Len(s) : s[e] = Part(s[j]) /\ Lev(s, e) = Lev(s, j) /\ Live(s, j, e)}

Divided(s, k) == s[k] = "if" /\ Parts(s, k) # {}
Settled(s, k) == s[k] \in Forward => ~Live(s, k, Len(s)) \/ Divided(s, k)

\* The word behind which a forward branch goes on.
Behind(s, k) == IF Divided(s, k) THEN Min(Parts(s, k)) ELSE EndOf(s, k)

\* The word to which the branch of word k leads.
Taken(s, k) == CASE s[k] \in Forward -> Behind(s, k) + 1
                 [] s[k] = "tail-recurse" -> 1
                 [] OTHER -> BeginOf(s, k) + 1

(* A word put at the end is a part of the structure it goes on with. *)
LEMMA PartsAppend ==
  ASSUME NEW s \in Seq(Words), NEW w \in Words, NEW k \in 1..Len(s)
  PROVE  Parts(Append(s, w), k) =
           Parts(s, k) \cup {e \in {Len(s) + 1} : /\ w = Part(s[k])
                                                 /\ Lev(Append(s, w), e) = Lev(s, k)
                                                 /\ Live(Append(s, w), k, e)}
<1> DEFINE z == Append(s, w)
<1>1. Len(z) = Len(s) + 1 /\ z[Len(s) + 1] = w /\ Len(s) \in Nat
      /\ \A j \in 1..Len(s) : z[j] = s[j]
  OBVIOUS
<1>2. \A j \in 0..Len(s) : Lev(z, j) = Lev(s, j)
  BY AppendKeeps
<1>3. \A j \in 0..Len(s) : Live(z, k, j) <=> Live(s, k, j)
  <2> SUFFICES ASSUME NEW j \in 0..Len(s) PROVE Live(z, k, j) <=> Live(s, k, j)
    OBVIOUS
  <2>1. \A i \in 0..Len(s) : Live(Append(s, w), i, j) <=> Live(s, i, j)
    BY AppendKeeps
  <2> QED  BY <2>1
<1> HIDE DEF z
<1>4. \A e \in k + 1..Len(z) : e \in k + 1..Len(s) \/ e = Len(s) + 1
  BY <1>1
<1>5. Len(s) + 1 \in k + 1..Len(z)
  BY <1>1
<1>6. z[k] = s[k] /\ Lev(z, k) = Lev(s, k)
  BY <1>1, <1>2
<1>7. \A e \in k + 1..Len(s) : e \in Parts(z, k) <=> e \in Parts(s, k)
  BY <1>1, <1>2, <1>3, <1>6 DEF Parts
<1>8. Len(s) + 1 \in Parts(z, k) <=> /\ w = Part(s[k])
                                     /\ Lev(z, Len(s) + 1) = Lev(s, k)
                                     /\ Live(z, k, Len(s) + 1)
  BY <1>1, <1>5, <1>6 DEF Parts
<1>9. \A e \in Parts(z, k) : e \in k + 1..Len(z)
  BY DEF Parts
<1>10. \A e \in Parts(s, k) : e \in k + 1..Len(s)
  BY DEF Parts
<1>11. ASSUME NEW e PROVE e \in Parts(z, k) <=>
         e \in Parts(s, k) \/ (e = Len(s) + 1 /\ w = Part(s[k])
                                /\ Lev(z, e) = Lev(s, k) /\ Live(z, k, e))
  BY <1>4, <1>7, <1>8, <1>9, <1>10
<1> QED  BY <1>11 DEF z

(* What is open up to a word was open up to the words before. *)
LEMMA LiveShorter ==
  ASSUME NEW s, NEW k, NEW m \in Int, NEW i \in Int, i <= m, Live(s, k, m), k \in Int
  PROVE  Live(s, k, i)
  BY DEF Live

(* A structure that was ended has its end where it was. *)
LEMMA EndAppend ==
  ASSUME NEW s \in Seq(Words), NEW w \in Words, NEW k \in 1..Len(s), ~Live(s, k, Len(s))
  PROVE  EndOf(Append(s, w), k) = EndOf(s, k)
<1> DEFINE z == Append(s, w)
           m == EndOf(s, k)
<1>1. Len(z) = Len(s) + 1 /\ Len(s) \in Nat /\ z \in Seq(Words)
  OBVIOUS
<1>2. Len(s) \in k..Len(s)
  OBVIOUS
<1>3. m \in k + 1..Len(s) /\ Live(s, k, m - 1) /\ ~Live(s, k, m)
  BY <1>2, EndExists
<1> HIDE DEF m
<1>4. k \in 0..Len(s) /\ m \in 0..Len(s) /\ m - 1 \in 0..Len(s)
  BY <1>3
<1>5. Live(z, k, m - 1) /\ ~Live(z, k, m)
  BY <1>3, <1>4, AppendKeeps
<1> HIDE DEF z
<1>6. k \in 1..Len(z) /\ m \in k + 1..Len(z)
  BY <1>1, <1>3
<1>7. EndOf(z, k) = m
  BY <1>1, <1>5, <1>6, EndIs
<1> QED  BY <1>7 DEF z, m

(* The first of some numbers stays so when a greater one is added. *)
LEMMA MinWithGreater ==
  ASSUME NEW S \in SUBSET Nat, S # {}, NEW S2 \in SUBSET Nat,
         \A x \in S, y \in S2 : x < y
  PROVE  Min(S \cup S2) = Min(S)
<1>1. Min(S) \in S /\ \A y \in S : Min(S) <= y
  BY MinOfNumbers
<1>2. S \cup S2 \in SUBSET Nat /\ S \cup S2 # {}
  OBVIOUS
<1>3. Min(S \cup S2) \in S \cup S2 /\ \A y \in S \cup S2 : Min(S \cup S2) <= y
  BY <1>2, MinOfNumbers
<1> DEFINE a == Min(S)
           b == Min(S \cup S2)
<1>4. a \in S /\ (\A y \in S : a <= y) /\ b \in S \cup S2 /\ \A y \in S \cup S2 : b <= y
  BY <1>1, <1>3
<1> HIDE DEF a, b
<1>5. a \in Nat /\ b \in Nat /\ b <= a
  BY <1>4
<1>6. a <= b
  BY <1>4, <1>5
<1> QED  BY <1>5, <1>6 DEF a, b

(* A branch that is resolved leads where it led. *)
LEMMA SettledStays ==
  ASSUME NEW s \in Seq(Words), NEW w \in Words, NEW k \in 1..Len(s), Settled(s, k)
  PROVE  Settled(Append(s, w), k) /\ Taken(Append(s, w), k) = Taken(s, k)
<1> DEFINE z == Append(s, w)
<1>1. Len(z) = Len(s) + 1 /\ Len(s) \in Nat /\ z \in Seq(Words) /\ z[k] = s[k]
      /\ \A j \in 1..Len(s) : z[j] = s[j]
  OBVIOUS
<1>2. \A j \in 0..Len(s) : Lev(z, j) = Lev(s, j)
  BY AppendKeeps
<1> DEFINE N == {e \in {Len(s) + 1} : w = Part(s[k]) /\ Lev(z, e) = Lev(s, k) /\ Live(z, k, e)}
<1>3. Parts(z, k) = Parts(s, k) \cup N
  BY PartsAppend
<1>4. Live(z, k, Len(s)) <=> Live(s, k, Len(s))
  <2>1. Len(s) \in 0..Len(s) /\ k \in 0..Len(s)
    OBVIOUS
  <2> QED  BY <2>1, AppendKeeps
<1>5. Live(z, k, Len(z)) => Live(z, k, Len(s))
  BY <1>1, LiveShorter
<1> HIDE DEF z
<1>6. CASE s[k] \in Forward /\ Divided(s, k)
  <2>1. s[k] = "if" /\ Parts(s, k) # {}
    BY <1>6 DEF Divided
  <2>2. Divided(z, k)
    BY <2>1, <1>1, <1>3 DEF Divided
  <2>3. Min(Parts(z, k)) = Min(Parts(s, k))
    <3>1. Parts(s, k) \in SUBSET Nat /\ N \in SUBSET Nat /\ \A x \in Parts(s, k), y \in N : x < y
      BY <1>1 DEF Parts
    <3> HIDE DEF N
    <3> QED  BY <3>1, <2>1, <1>3, MinWithGreater
  <2>4. Behind(z, k) = Behind(s, k)
    BY <2>2, <2>3, <1>6 DEF Behind
  <2> QED  BY <2>2, <2>4, <1>6, <1>1 DEF Settled, Taken, z
<1>7. CASE s[k] \in Forward /\ ~Divided(s, k)
  <2>1. ~Live(s, k, Len(s))
    BY <1>7 DEF Settled
  <2>2. ~Live(z, k, Len(z))
    BY <2>1, <1>4, <1>5
  <2>3. N = {}
    <3>1. ~Live(z, k, Len(s) + 1)
      BY <2>2, <1>1
    <3> QED  BY <3>1
  <2>4. Parts(z, k) = Parts(s, k)
    BY <2>3, <1>3
  <2>5. ~Divided(z, k)
    BY <2>4, <1>7, <1>1 DEF Divided
  <2>6. EndOf(z, k) = EndOf(s, k)
    BY <2>1, EndAppend DEF z
  <2>7. Behind(z, k) = Behind(s, k)
    BY <2>5, <2>6, <1>7 DEF Behind
  <2> QED  BY <2>2, <2>7, <1>7, <1>1 DEF Settled, Taken, z
<1>8. CASE s[k] \notin Forward
  <2>1. BeginOf(z, k) = BeginOf(s, k)
    <3>1. Lev(z, k) = Lev(s, k) /\ \A j \in 1..k-1 : z[j] = s[j] /\ Lev(z, j) = Lev(s, j)
      BY <1>1, <1>2
    <3>2. {j \in 1..k - 1 : z[j] \in Opening /\ Lev(z, j) = Lev(z, k) + 1}
          = {j \in 1..k - 1 : s[j] \in Opening /\ Lev(s, j) = Lev(s, k) + 1}
      BY <3>1
    <3> QED  BY <3>2, Zenon DEF BeginOf
  <2> QED  BY <2>1, <1>8, <1>1 DEF Settled, Taken, z
<1> QED  BY <1>6, <1>7, <1>8

(* A branch that a word resolves leads behind that word. *)
LEMMA SettledNow ==
  ASSUME NEW s \in Seq(Words), NEW w \in Words, NEW k \in 1..Len(s),
         ~Settled(s, k), Settled(Append(s, w), k)
  PROVE  Taken(Append(s, w), k) = Len(s) + 2
<1> DEFINE z == Append(s, w)
<1>1. Len(z) = Len(s) + 1 /\ Len(s) \in Nat /\ z \in Seq(Words) /\ z[k] = s[k]
  OBVIOUS
<1> DEFINE N == {e \in {Len(s) + 1} : w = Part(s[k]) /\ Lev(z, e) = Lev(s, k) /\ Live(z, k, e)}
<1>2. Parts(z, k) = Parts(s, k) \cup N
  BY PartsAppend
<1>3. Live(z, k, Len(s)) <=> Live(s, k, Len(s))
  <2>1. Len(s) \in 0..Len(s) /\ k \in 0..Len(s)
    OBVIOUS
  <2> QED  BY <2>1, AppendKeeps
<1> HIDE DEF z
<1>4. s[k] \in Forward /\ Live(s, k, Len(s)) /\ ~Divided(s, k)
  BY DEF Settled
<1>5. ~Live(z, k, Len(z)) \/ Divided(z, k)
  BY <1>1, <1>4 DEF Settled, z
<1>6. CASE Divided(z, k)
  <2>1. Parts(z, k) = {Len(s) + 1}
    <3>1. Parts(s, k) = {} /\ Parts(z, k) # {}
      BY <1>4, <1>6, <1>1 DEF Divided
    <3> QED  BY <3>1, <1>2
  <2>2. Min({Len(s) + 1}) = Len(s) + 1
    <3>1. {Len(s) + 1} \in SUBSET Nat
      BY <1>1
    <3> QED  BY <3>1, MinOfNumbers
  <2>3. Behind(z, k) = Len(s) + 1
    BY <2>1, <2>2, <1>6, Zenon DEF Behind
  <2>4. Taken(z, k) = (Len(s) + 1) + 1
    BY <2>3, <1>1, <1>4 DEF Taken, Forward
  <2> QED  BY <2>4, <1>1 DEF z
<1>7. CASE ~Divided(z, k)
  <2>1. Live(z, k, Len(s)) /\ ~Live(z, k, Len(s) + 1)
    BY <1>1, <1>3, <1>4, <1>5, <1>7
  <2>2. Len(s) + 1 \in k + 1..Len(z) /\ k \in 1..Len(z) /\ (Len(s) + 1) - 1 = Len(s)
    BY <1>1
  <2>3. Live(z, k, (Len(s) + 1) - 1)
    BY <2>1, <2>2
  <2>4. EndOf(z, k) = Len(s) + 1
    <3>1. ~Live(z, k, Len(s) + 1)
      BY <2>1
    <3> DEFINE m == Len(s) + 1
    <3>2. m \in k + 1..Len(z) /\ Live(z, k, m - 1) /\ ~Live(z, k, m)
      BY <2>2, <2>3, <3>1
    <3> HIDE DEF m
    <3>3. EndOf(z, k) = m
      BY <3>2, <2>2, <1>1, EndIs
    <3> QED  BY <3>3 DEF m
  <2>5. Behind(z, k) = Len(s) + 1
    BY <2>4, <1>7 DEF Behind
  <2>6. Taken(z, k) = (Len(s) + 1) + 1
    BY <2>5, <1>1, <1>4 DEF Taken, Forward
  <2> QED  BY <2>6, <1>1 DEF z
<1> QED  BY <1>6, <1>7

(* Levels, and what stays open, when one word is put at the end. *)
LEMMA NewLevel ==
  ASSUME NEW s \in Seq(Words), NEW w \in Words
  PROVE  LET z == Append(s, w) n == Len(s)
         IN  /\ Lev(z, n + 1) \in Int /\ Lev(s, n) \in Int /\ \A k \in 0..n : Lev(s, k) \in Int
             /\ w \in Closing => Lev(z, n + 1) = Lev(s, n) - 1
             /\ w \in Opening => Lev(z, n + 1) = Lev(s, n) + 1
             /\ w \notin Opening \cup Closing => Lev(z, n + 1) = Lev(s, n)
             /\ \A k \in 1..n : Live(z, k, n + 1) <=>
                                  Live(s, k, n) /\ Lev(z, n + 1) >= Lev(s, k)
<1> DEFINE z == Append(s, w) n == Len(s)
<1>1. Len(z) = n + 1 /\ n \in Nat /\ z \in Seq(Words) /\ z[n + 1] = w
  OBVIOUS
<1>2. \A k \in Nat : Lev(s, k) \in Int /\ Lev(z, k) \in Int
  BY LevelStep
<1>3. Lev(z, n + 1) = Lev(s, n) + Change(w)
  BY LevelAppend
<1>4. \A j \in 0..n : Lev(z, j) = Lev(s, j)
  BY AppendKeeps
<1>5. \A k \in 1..n : Live(z, k, n) <=> Live(s, k, n)
  <2>1. n \in 0..Len(s) /\ \A k \in 1..n : k \in 0..Len(s)
    OBVIOUS
  <2> QED  BY <2>1, AppendKeeps
<1> HIDE DEF z, n
<1>6. \A k \in 1..n : Live(z, k, n + 1) <=> Live(z, k, n) /\ Lev(z, n + 1) >= Lev(z, k)
  <2>1. \A k \in 1..n : k..n+1 = (k..n) \cup {n + 1}
    BY <1>1
  <2> QED  BY <2>1 DEF Live
<1>7. \A k \in 1..n : Live(z, k, n + 1) <=> Live(s, k, n) /\ Lev(z, n + 1) >= Lev(s, k)
  <2>1. \A k \in 1..n : k \in 0..n
    BY <1>1
  <2> QED  BY <1>4, <1>5, <1>6, <2>1
<1>8. \A k \in 0..n : k \in Nat
  BY <1>1
<1>9. /\ Lev(z, n + 1) \in Int /\ Lev(s, n) \in Int /\ \A k \in 0..n : Lev(s, k) \in Int
      /\ w \in Closing => Lev(z, n + 1) = Lev(s, n) - 1
      /\ w \in Opening => Lev(z, n + 1) = Lev(s, n) + 1
      /\ w \notin Opening \cup Closing => Lev(z, n + 1) = Lev(s, n)
  BY <1>1, <1>2, <1>3, <1>8, KindsApart DEF Change
<1> QED  BY <1>7, <1>9 DEF z, n

(* Words that end nothing resolve nothing, else apart. *)
LEMMA NothingSettled ==
  ASSUME NEW s \in Seq(Words), NEW w \in Words \ Closing, w # "else",
         NEW k \in 1..Len(s), ~Settled(s, k)
  PROVE  ~Settled(Append(s, w), k)
<1> DEFINE z == Append(s, w) n == Len(s)
<1>1. Len(z) = n + 1 /\ n \in Nat /\ z[k] = s[k] /\ k \in 1..n
  OBVIOUS
<1>2. /\ Lev(z, n + 1) \in Int /\ Lev(s, n) \in Int /\ Lev(s, k) \in Int
      /\ w \in Opening => Lev(z, n + 1) = Lev(s, n) + 1
      /\ w \notin Opening \cup Closing => Lev(z, n + 1) = Lev(s, n)
      /\ Live(z, k, n + 1) <=> Live(s, k, n) /\ Lev(z, n + 1) >= Lev(s, k)
  BY NewLevel
<1>3. Parts(z, k) = Parts(s, k) \cup {e \in {n + 1} : w = Part(s[k]) /\ Lev(z, e) = Lev(s, k) /\ Live(z, k, e)}
  BY PartsAppend
<1> HIDE DEF z, n
<1>4. s[k] \in Forward /\ Live(s, k, n) /\ ~Divided(s, k)
  BY DEF Settled, n
<1>5. Lev(s, n) >= Lev(s, k)
  BY <1>4, <1>1 DEF Live
<1>6. Live(z, k, Len(z))
  BY <1>1, <1>2, <1>4, <1>5
<1>7. ~Divided(z, k)
  <2>1. s[k] = "if" => Part(s[k]) = "else"
    BY DEF Part
  <2>2. s[k] = "if" => Parts(z, k) = Parts(s, k)
    BY <2>1, <1>3
  <2> QED  BY <2>2, <1>1, <1>4 DEF Divided
<1> QED  BY <1>1, <1>4, <1>6, <1>7 DEF Settled, z

(* else resolves the branch of its if. *)
LEMMA ElseSettles ==
  ASSUME NEW s \in Seq(Words), Balanced(s), Opn(s, Len(s)) # {},
         s[Top(s, Len(s))] = "if", Parts(s, Top(s, Len(s))) = {},
         NEW k \in 1..Len(s)
  PROVE  ~Settled(s, k) /\ Settled(Append(s, "else"), k) <=> k = Top(s, Len(s))
<1> DEFINE z == Append(s, "else") n == Len(s) t == Top(s, Len(s))
<1>0. "else" \in Words /\ "else" \notin Opening \cup Closing
  BY DEF Words, Checked, Openers, Opening, Closing
<1>1. Len(z) = n + 1 /\ n \in Nat /\ z[k] = s[k] /\ k \in 1..n
  OBVIOUS
<1>2. /\ Lev(z, n + 1) \in Int /\ Lev(s, n) \in Int /\ Lev(s, k) \in Int
      /\ Lev(z, n + 1) = Lev(s, n)
      /\ Live(z, k, n + 1) <=> Live(s, k, n) /\ Lev(z, n + 1) >= Lev(s, k)
  BY <1>0, NewLevel
<1>3. Parts(z, k) = Parts(s, k) \cup {e \in {n + 1} : "else" = Part(s[k]) /\ Lev(z, e) = Lev(s, k) /\ Live(z, k, e)}
  BY <1>0, PartsAppend
<1>4. /\ t \in Opn(s, n) /\ t \in 1..n /\ Lev(s, t) = Lev(s, n)
      /\ \A j \in Opn(s, n) : Lev(s, j) = Lev(s, n) => j = t
  BY <1>1, TopIsDeepest
<1>5. s[t] = "if" /\ Parts(s, t) = {}
  OBVIOUS
<1> HIDE DEF z, n, t
<1>6. ASSUME k = t PROVE ~Settled(s, k) /\ Settled(z, k)
  <2>1. Live(s, k, n)
    BY <1>6, <1>4 DEF Opn
  <2>2. ~Settled(s, k)
    BY <2>1, <1>5, <1>6 DEF Settled, Divided, Forward, n
  <2>3. Live(z, k, n + 1)
    BY <2>1, <1>2, <1>4, <1>6
  <2>4. n + 1 \in Parts(z, k)
    <3>1. "else" = Part(s[k])
      BY <1>5, <1>6 DEF Part
    <3>2. Lev(z, n + 1) = Lev(s, k)
      BY <1>2, <1>4, <1>6
    <3> QED  BY <3>1, <3>2, <2>3, <1>3
  <2>5. Divided(z, k)
    BY <2>4, <1>1, <1>5, <1>6 DEF Divided
  <2> QED  BY <2>2, <2>5 DEF Settled
<1>7. ASSUME ~Settled(s, k), Settled(z, k) PROVE k = t
  <2>1. s[k] \in Forward /\ Live(s, k, n) /\ ~Divided(s, k)
    BY <1>7 DEF Settled, n
  <2>2. Lev(s, n) >= Lev(s, k)
    BY <2>1, <1>1 DEF Live
  <2>3. Live(z, k, n + 1)
    BY <2>1, <2>2, <1>2
  <2>4. Divided(z, k)
    BY <2>1, <2>3, <1>1, <1>7 DEF Settled
  <2>5. s[k] = "if" /\ Parts(z, k) # Parts(s, k)
    BY <2>1, <2>4, <1>1 DEF Divided
  <2>6. Lev(z, n + 1) = Lev(s, k)
    BY <2>5, <1>3
  <2>7. k \in Opn(s, n)
    BY <2>1, <2>5, <1>1 DEF Opn, Opening, Openers
  <2> QED  BY <2>6, <2>7, <1>2, <1>4
<1> QED  BY <1>6, <1>7 DEF z, t

(* A word that ends a structure resolves its open branches. *)
LEMMA ClosingSettles ==
  ASSUME NEW s \in Seq(Words), Legal(s), Opn(s, Len(s)) # {},
         NEW w \in Words, w \in Closing,
         NEW k \in 1..Len(s)
  PROVE  ~Settled(s, k) /\ Settled(Append(s, w), k) <=>
           \/ k = Top(s, Len(s)) /\ s[k] \in Forward /\ ~Divided(s, k)
           \/ k \in Parts(s, Top(s, Len(s)))
<1> DEFINE z == Append(s, w) n == Len(s) t == Top(s, Len(s))
<1>1. Len(z) = n + 1 /\ n \in Nat /\ z[k] = s[k] /\ k \in 1..n
  OBVIOUS
<1>2. /\ Lev(z, n + 1) \in Int /\ Lev(s, n) \in Int /\ Lev(s, k) \in Int
      /\ Lev(z, n + 1) = Lev(s, n) - 1
      /\ Live(z, k, n + 1) <=> Live(s, k, n) /\ Lev(z, n + 1) >= Lev(s, k)
  BY NewLevel
<1>3. Parts(z, k) = Parts(s, k) \cup {e \in {n + 1} : w = Part(s[k]) /\ Lev(z, e) = Lev(s, k) /\ Live(z, k, e)}
  BY PartsAppend
<1>b. Balanced(s)
  BY DEF Legal
<1>4. /\ t \in Opn(s, n) /\ t \in 1..n /\ Lev(s, t) = Lev(s, n)
      /\ \A j \in Opn(s, n) : Lev(s, j) = Lev(s, n) => j = t
  BY <1>1, <1>b, TopIsDeepest
<1>5. w \in Words /\ w \in Closing
  OBVIOUS
<1> HIDE DEF z, n, t
<1>6. w # "else"
  BY <1>5 DEF Closing
<1>7. ~Divided(s, k) => ~Divided(z, k)
  <2>1. s[k] = "if" => Part(s[k]) = "else"
    BY DEF Part
  <2>2. s[k] = "if" => Parts(z, k) = Parts(s, k)
    BY <2>1, <1>3, <1>6
  <2> QED  BY <2>2, <1>1 DEF Divided
<1>8. ASSUME s[k] \in Forward, Live(s, k, n), Lev(s, k) = Lev(s, n), ~Divided(s, k)
      PROVE  ~Settled(s, k) /\ Settled(z, k)
  <2>1. ~Settled(s, k)
    BY <1>8 DEF Settled, n
  <2>2. ~Live(z, k, n + 1)
    BY <1>2, <1>8
  <2> QED  BY <2>1, <2>2, <1>1 DEF Settled
<1>9. ASSUME ~Settled(s, k), Settled(z, k)
      PROVE  s[k] \in Forward /\ Live(s, k, n) /\ Lev(s, k) = Lev(s, n) /\ ~Divided(s, k)
  <2>1. s[k] \in Forward /\ Live(s, k, n) /\ ~Divided(s, k)
    BY <1>9 DEF Settled, n
  <2>2. Lev(s, n) >= Lev(s, k)
    BY <2>1, <1>1 DEF Live
  <2>3. ~Live(z, k, n + 1)
    BY <2>1, <1>1, <1>7, <1>9 DEF Settled
  <2> QED  BY <2>1, <2>2, <2>3, <1>2
<1>10. ASSUME k = t, s[k] \in Forward, ~Divided(s, k) PROVE ~Settled(s, k) /\ Settled(z, k)
  <2>1. Live(s, k, n)
    BY <1>4, <1>10 DEF Opn
  <2> QED  BY <2>1, <1>4, <1>8, <1>10
<1>11. ASSUME k \in Parts(s, t) PROVE ~Settled(s, k) /\ Settled(z, k)
  <2>1. k \in t + 1..n /\ s[k] = Part(s[t]) /\ Lev(s, k) = Lev(s, t) /\ Live(s, t, k)
    BY <1>11 DEF Parts, n
  <2>2. Part(s[t]) \in {"else", "while", "endof", "none"}
    BY DEF Part
  <2>3. s[k] \in Words /\ "none" \notin Words
    <3>1. s[k] \in Words
      OBVIOUS
    <3>2. "none" \notin Words
      BY DEF Words, Openers, Checked, Plain
    <3> QED  BY <3>1, <3>2
  <2>4. s[k] \in Forward /\ s[k] # "if"
    BY <2>1, <2>2, <2>3 DEF Forward
  <2>5. Live(s, k, n)
    <3>1. Live(s, t, n)
      BY <1>4 DEF Opn
    <3> QED  BY <3>1, <2>1, <1>1, <1>4 DEF Live
  <2>6. ~Divided(s, k)
    BY <2>4 DEF Divided
  <2> QED  BY <2>1, <2>4, <2>5, <2>6, <1>4, <1>8
<1>12. ASSUME ~Settled(s, k), Settled(z, k), k # t PROVE k \in Parts(s, t)
  <2>1. s[k] \in Forward /\ Live(s, k, n) /\ Lev(s, k) = Lev(s, n) /\ ~Divided(s, k)
    BY <1>9, <1>12
  <2>2. s[k] \notin Opening
    <3>1. s[k] \in Opening => k \in Opn(s, n)
      BY <2>1, <1>1 DEF Opn
    <3> QED  BY <3>1, <2>1, <1>4, <1>12
  <2>3. s[k] \in Continuing
    BY <2>1, <2>2 DEF Opening, Openers, Forward, Continuing
  <2> DEFINE T == Top(s, k)
  <2>4. /\ T \in Opn(s, k) /\ T \in 1..k - 1
        /\ s[k] = Part(s[T])
        /\ Lev(s, T) = Lev(s, k) /\ Live(s, T, k)
    BY <2>3, <1>1, OwnerOf DEF n
  <2> HIDE DEF T
  <2>5. T \in Opn(s, n)
    <3>1. \A i \in T..k : Lev(s, i) >= Lev(s, T)
      BY <2>4 DEF Live
    <3>2. \A i \in k..n : Lev(s, i) >= Lev(s, T)
      BY <2>1, <2>4 DEF Live
    <3>3. \A i \in T..n : i \in T..k \/ i \in k..n
      BY <2>4, <1>1
    <3>4. Live(s, T, n)
      BY <3>1, <3>2, <3>3 DEF Live
    <3> QED  BY <3>4, <2>4, <1>1 DEF Opn
  <2>6. T = t
    BY <2>5, <2>4, <2>1, <1>4
  <2>7. k \in t + 1..n
    BY <2>4, <2>6, <1>1
  <2> QED  BY <2>4, <2>6, <2>7 DEF Parts, n
<1> QED  BY <1>9, <1>10, <1>11, <1>12 DEF z, n, t

(* What is open after one more word. *)
LEMMA OpenAppend ==
  ASSUME NEW s \in Seq(Words), Balanced(s), NEW w \in Words
  PROVE  LET z == Append(s, w) n == Len(s)
         IN  /\ w \in Opening => Opn(z, n + 1) = Opn(s, n) \cup {n + 1} /\ Opn(z, n + 1 - 1) = Opn(s, n)
             /\ w \notin Opening \cup Closing => Opn(z, n + 1) = Opn(s, n)
             /\ w \in Closing /\ Opn(s, n) # {} => /\ Opn(z, n + 1) = Opn(s, n) \ {Top(s, n)}
                                                   /\ Opn(z, n + 1) = Opn(s, Top(s, n) - 1)
<1> DEFINE z == Append(s, w) n == Len(s)
<1>1. Len(z) = n + 1 /\ n \in Nat /\ z \in Seq(Words) /\ z[n + 1] = w
      /\ n + 1 \in Nat /\ n + 1 > 0 /\ (n + 1) - 1 = n /\ n \in 0..Len(s)
  OBVIOUS
<1>2. Opn(z, n) = Opn(s, n)
  BY <1>1, AppendKeeps
<1>3. \A j \in 0..n : Lev(z, j) = Lev(s, j)
  BY AppendKeeps
<1>4. /\ z[n + 1] \in Opening => Opn(z, n + 1) = Opn(z, (n + 1) - 1) \cup {n + 1}
      /\ z[n + 1] \notin Opening \cup Closing => Opn(z, n + 1) = Opn(z, (n + 1) - 1)
      /\ z[n + 1] \in Closing => Opn(z, n + 1) = {j \in Opn(z, (n + 1) - 1) : Lev(z, j) < Lev(z, (n + 1) - 1)}
  <2> DEFINE k == n + 1
  <2>1. k \in Nat /\ k > 0
    BY <1>1
  <2> HIDE DEF k, z, n
  <2>2. /\ z[k] \in Opening => Opn(z, k) = Opn(z, k - 1) \cup {k}
        /\ z[k] \notin Opening \cup Closing => Opn(z, k) = Opn(z, k - 1)
        /\ z[k] \in Closing => Opn(z, k) = {j \in Opn(z, k - 1) : Lev(z, j) < Lev(z, k - 1)}
    BY <2>1, OpenStep
  <2> QED  BY <2>2, Zenon DEF k
<1>7. n <= Len(s)
  BY <1>1
<1>5. ASSUME w \in Closing, Opn(s, n) # {}
      PROVE  Opn(z, n + 1) = Opn(s, n) \ {Top(s, n)} /\ Opn(s, n) \ {Top(s, n)} = Opn(s, Top(s, n) - 1)
  <2>1. /\ Top(s, n) \in Opn(s, n) /\ Lev(s, Top(s, n)) = Lev(s, n)
        /\ Opn(s, n) \ {Top(s, n)} = Opn(s, Top(s, n) - 1)
        /\ \A j \in Opn(s, n) : Lev(s, j) = Lev(s, n) => j = Top(s, n)
    BY <1>1, <1>5, <1>7, TopIsDeepest
  <2>2. \A j \in Opn(s, n) : Lev(s, j) <= Lev(s, n) /\ j \in 0..n /\ Lev(s, j) \in Int
    <3>1. \A j \in Opn(s, n) : Lev(s, j) <= Lev(s, n) /\ j \in 1..n
      BY <1>1, OpenPrefix
    <3>2. \A j \in Nat : Lev(s, j) \in Int
      BY LevelStep
    <3> QED  BY <3>1, <3>2, <1>1
  <2>3. Lev(s, n) \in Int
    BY <1>1, LevelStep
  <2> HIDE DEF z, n
  <2>4. Opn(z, n + 1) = {j \in Opn(s, n) : Lev(s, j) < Lev(s, n)}
    BY <1>1, <1>2, <1>3, <1>4, <1>5, <2>2
  <2> QED  BY <2>1, <2>2, <2>3, <2>4
<1> HIDE DEF z, n
<1>6. /\ w \in Opening => Opn(z, n + 1) = Opn(s, n) \cup {n + 1}
      /\ w \notin Opening \cup Closing => Opn(z, n + 1) = Opn(s, n)
      /\ Opn(z, n + 1 - 1) = Opn(s, n)
  BY <1>1, <1>2, <1>4
<1> QED  BY <1>5, <1>6 DEF z, n

(* A legal word makes a legal text. *)
LEMMA LegalAppend ==
  ASSUME NEW s \in Seq(Words), Legal(s), NEW w \in Words,
         w \in Closing => Opn(s, Len(s)) # {},
         LegalAt(Append(s, w), Len(s) + 1)
  PROVE  Legal(Append(s, w))
<1> DEFINE z == Append(s, w) n == Len(s)
<1>1. Len(z) = n + 1 /\ n \in Nat /\ z \in Seq(Words)
      /\ \A k \in 1..n : z[k] = s[k] /\ k \in 0..n /\ k - 1 \in 0..n
  OBVIOUS
<1>2. \A k \in 0..n : Lev(z, k) = Lev(s, k) /\ Opn(z, k) = Opn(s, k)
  BY AppendKeeps
<1>3. Balanced(s) /\ \A k \in 1..n : LegalAt(s, k)
  BY DEF Legal
<1>4. /\ Lev(z, n + 1) \in Int /\ Lev(s, n) \in Int
      /\ w \in Closing => Lev(z, n + 1) = Lev(s, n) - 1
      /\ w \in Opening => Lev(z, n + 1) = Lev(s, n) + 1
      /\ w \notin Opening \cup Closing => Lev(z, n + 1) = Lev(s, n)
  BY NewLevel
<1>5. w \in Closing => Lev(s, n) > 0
  <2>1. n \in Nat /\ n <= Len(s)
    OBVIOUS
  <2> QED  BY <1>3, <2>1, TopIsDeepest
<1>6. LegalAt(z, n + 1)
  OBVIOUS
<1>9. n = Len(s)
  OBVIOUS
<1> HIDE DEF z, n
<1>7. Balanced(z)
  <2>1. \A k \in 0..n : Lev(s, k) >= 0
    BY <1>3, <1>9 DEF Balanced
  <2>2. Lev(s, n) >= 0
    BY <2>1, <1>1
  <2>3. Lev(z, n + 1) >= 0
    BY <2>2, <1>4, <1>5
  <2>4. \A k \in 0..Len(z) : k \in 0..n \/ k = n + 1
    BY <1>1
  <2> QED  BY <2>1, <2>3, <2>4, <1>1, <1>2 DEF Balanced
<1>8. ASSUME NEW k \in 1..n PROVE LegalAt(z, k)
  <2>1. LegalAt(s, k)
    BY <1>3
  <2>2. Opn(z, k - 1) = Opn(s, k - 1) /\ z[k] = s[k]
    BY <1>1, <1>2
  <2>3. \A j \in Opn(s, k - 1) : z[j] = s[j]
    BY <1>1 DEF Opn
  <2>4. Top(z, k - 1) = Top(s, k - 1)
    BY <2>2 DEF Top
  <2>5. s[k] \in Checked => z[Top(z, k - 1)] = s[Top(s, k - 1)]
    <3> SUFFICES ASSUME s[k] \in Checked PROVE z[Top(z, k - 1)] = s[Top(s, k - 1)]
      OBVIOUS
    <3>1. Opn(s, k - 1) # {}
      BY <2>1 DEF LegalAt
    <3>2. k - 1 \in Nat /\ k - 1 <= Len(s)
      BY <1>1, <1>9
    <3>3. Top(s, k - 1) \in Opn(s, k - 1)
      BY <3>1, <3>2, <1>3, TopIsDeepest
    <3> QED  BY <3>3, <2>3, <2>4
  <2>6. LoopsIn(z, k - 1) = LoopsIn(s, k - 1) /\ CasesIn(z, k - 1) = CasesIn(s, k - 1)
    BY <2>2, <2>3 DEF LoopsIn, CasesIn
  <2>7. Opn(z, k - 1) = Opn(s, k - 1)
    BY <2>2
  <2> QED  BY <2>1, <2>2, <2>5, <2>6, <2>7 DEF LegalAt
<1>10. \A k \in 1..Len(z) : k \in 1..n \/ k = n + 1
  BY <1>1
<1> QED  BY <1>6, <1>7, <1>8, <1>10, <1>1 DEF Legal, z

----------------------------------------------------------------------------
(* The code: a row of cells for each word, and resolved branches. *)

(* The cells of every word, and which of them is the offset of its branch. *)
Cells(w) ==
  CASE w = "do" -> <<"push", "push", "(do)", "offset">>
    [] w = "?do" -> <<"push", "push", "(?do)", "offset">>
    [] w = "loop" -> <<"(loop)", "offset">>
    [] w = "+loop" -> <<"push", "(+loop)", "offset">>
    [] w = "if" -> <<"push", "(?branch)", "offset">>
    [] w = "case" -> <<"push">>
    [] w = "of" -> <<"push", "over", "=", "(?branch)", "offset", "drop">>
    [] w = "endcase" -> <<"drop">>
    [] w = "until" -> <<"push", "(?branch)", "offset">>
    [] w = "while" -> <<"push", "(?branch)", "offset">>
    [] w \in {"else", "endof", "repeat", "again", "tail-recurse"} -> <<"(branch)", "offset">>
    [] w = "leave" -> <<"leave">>
    [] w \in {"exit", "semicolon"} -> <<"(semicolon)">>
    [] w \in {"then", "begin"} -> <<>>

OffPos(w) == CASE w \in {"do", "?do"} -> 4
               [] w \in {"+loop", "if", "until", "while"} -> 3
               [] w \in {"loop", "else", "endof", "repeat", "again", "tail-recurse"} -> 2
               [] w = "of" -> 5
               [] OTHER -> 0

Width(w) == Len(Cells(w))

(* The width of a word's code, and where in it the offset stands. *)
LEMMA CellsOfWord ==
  ASSUME NEW w \in Words
  PROVE  /\ Width(w) \in Nat
         /\ OffPos(w) \in 0..Width(w)
         /\ \A i \in 1..Width(w) : Cells(w)[i] = "offset" <=> i = OffPos(w)
         /\ w \in Forward => OffPos(w) > 0
         /\ OffPos(w) > 0 /\ w \notin Forward => w \in Closing \/ w = "tail-recurse"
<1>0. /\ w \in Forward => OffPos(w) > 0
      /\ OffPos(w) > 0 /\ w \notin Forward => w \in Closing \/ w = "tail-recurse"
  BY DEF OffPos, Forward, Closing, Checked
<1>1. CASE w = "do"
  <2> DEFINE c == <<"push", "push", "(do)", "offset">>
  <2>1. Cells(w) = c /\ OffPos(w) = 4
    BY <1>1 DEF Cells, OffPos
  <2>2. Len(c) = 4 /\ c[1] = "push" /\ c[2] = "push" /\ c[3] = "(do)" /\ c[4] = "offset"
    OBVIOUS
  <2> HIDE DEF c
  <2> QED  BY <2>1, <2>2, <1>0 DEF Width
<1>2. CASE w = "?do"
  <2> DEFINE c == <<"push", "push", "(?do)", "offset">>
  <2>1. Cells(w) = c /\ OffPos(w) = 4
    BY <1>2 DEF Cells, OffPos
  <2>2. Len(c) = 4 /\ c[1] = "push" /\ c[2] = "push" /\ c[3] = "(?do)" /\ c[4] = "offset"
    OBVIOUS
  <2> HIDE DEF c
  <2> QED  BY <2>1, <2>2, <1>0 DEF Width
<1>3. CASE w = "loop"
  <2> DEFINE c == <<"(loop)", "offset">>
  <2>1. Cells(w) = c /\ OffPos(w) = 2
    BY <1>3 DEF Cells, OffPos
  <2>2. Len(c) = 2 /\ c[1] = "(loop)" /\ c[2] = "offset"
    OBVIOUS
  <2> HIDE DEF c
  <2> QED  BY <2>1, <2>2, <1>0 DEF Width
<1>4. CASE w = "+loop"
  <2> DEFINE c == <<"push", "(+loop)", "offset">>
  <2>1. Cells(w) = c /\ OffPos(w) = 3
    BY <1>4 DEF Cells, OffPos
  <2>2. Len(c) = 3 /\ c[1] = "push" /\ c[2] = "(+loop)" /\ c[3] = "offset"
    OBVIOUS
  <2> HIDE DEF c
  <2> QED  BY <2>1, <2>2, <1>0 DEF Width
<1>5. CASE w \in {"if", "until", "while"}
  <2> DEFINE c == <<"push", "(?branch)", "offset">>
  <2>1. Cells(w) = c /\ OffPos(w) = 3
    BY <1>5 DEF Cells, OffPos
  <2>2. Len(c) = 3 /\ c[1] = "push" /\ c[2] = "(?branch)" /\ c[3] = "offset"
    OBVIOUS
  <2> HIDE DEF c
  <2> QED  BY <2>1, <2>2, <1>0 DEF Width
<1>6. CASE w = "case"
  <2> DEFINE c == <<"push">>
  <2>1. Cells(w) = c /\ OffPos(w) = 0
    BY <1>6 DEF Cells, OffPos
  <2>2. Len(c) = 1 /\ c[1] = "push"
    OBVIOUS
  <2> HIDE DEF c
  <2> QED  BY <2>1, <2>2, <1>0 DEF Width
<1>7. CASE w = "of"
  <2> DEFINE c == <<"push", "over", "=", "(?branch)", "offset", "drop">>
  <2>1. Cells(w) = c /\ OffPos(w) = 5
    BY <1>7 DEF Cells, OffPos
  <2>2. Len(c) = 6 /\ c[1] = "push" /\ c[2] = "over" /\ c[3] = "=" /\ c[4] = "(?branch)" /\ c[5] = "offset" /\ c[6] = "drop"
    OBVIOUS
  <2> HIDE DEF c
  <2> QED  BY <2>1, <2>2, <1>0 DEF Width
<1>8. CASE w = "endcase"
  <2> DEFINE c == <<"drop">>
  <2>1. Cells(w) = c /\ OffPos(w) = 0
    BY <1>8 DEF Cells, OffPos
  <2>2. Len(c) = 1 /\ c[1] = "drop"
    OBVIOUS
  <2> HIDE DEF c
  <2> QED  BY <2>1, <2>2, <1>0 DEF Width
<1>9. CASE w \in {"else", "endof", "repeat", "again", "tail-recurse"}
  <2> DEFINE c == <<"(branch)", "offset">>
  <2>1. Cells(w) = c /\ OffPos(w) = 2
    BY <1>9 DEF Cells, OffPos
  <2>2. Len(c) = 2 /\ c[1] = "(branch)" /\ c[2] = "offset"
    OBVIOUS
  <2> HIDE DEF c
  <2> QED  BY <2>1, <2>2, <1>0 DEF Width
<1>10. CASE w = "leave"
  <2> DEFINE c == <<"leave">>
  <2>1. Cells(w) = c /\ OffPos(w) = 0
    BY <1>10 DEF Cells, OffPos
  <2>2. Len(c) = 1 /\ c[1] = "leave"
    OBVIOUS
  <2> HIDE DEF c
  <2> QED  BY <2>1, <2>2, <1>0 DEF Width
<1>11. CASE w \in {"exit", "semicolon"}
  <2> DEFINE c == <<"(semicolon)">>
  <2>1. Cells(w) = c /\ OffPos(w) = 0
    BY <1>11 DEF Cells, OffPos
  <2>2. Len(c) = 1 /\ c[1] = "(semicolon)"
    OBVIOUS
  <2> HIDE DEF c
  <2> QED  BY <2>1, <2>2, <1>0 DEF Width
<1>12. CASE w \in {"then", "begin"}
  <2> DEFINE c == <<>>
  <2>1. Cells(w) = c /\ OffPos(w) = 0
    BY <1>12 DEF Cells, OffPos
  <2>2. Len(c) = 0
    OBVIOUS
  <2> HIDE DEF c
  <2>3. Width(w) = 0
    BY <2>1, <2>2 DEF Width
  <2>4. \A i \in 1..Width(w) : FALSE
    BY <2>3
  <2> QED  BY <2>1, <2>3, <2>4, <1>0
<1> QED  BY <1>1, <1>2, <1>3, <1>4, <1>5, <1>6, <1>7, <1>8, <1>9, <1>10, <1>11, <1>12
         DEF Words, Openers, Checked, Plain

Ops == {"push", "over", "=", "drop", "(do)", "(?do)", "(loop)", "(+loop)", "(branch)", "(?branch)",
        "leave", "(semicolon)", "offset"}
Cell == [op : Ops, offset : Int]

\* Where the code of word x begins, or, behind the last word, will begin.
Place(st, C, x) == IF x <= Len(st) THEN st[x] ELSE Len(C) + 1

\* The address of the offset of word k.
Off(s, st, k) == st[k] + OffPos(s[k]) - 1

Layout(s, st, C) ==
  /\ s \in Seq(Words) /\ st \in Seq(Nat) /\ C \in Seq(Cell) /\ Len(st) = Len(s)
  /\ Place(st, C, 1) = 1
  /\ \A k \in 1..Len(s) : st[k] >= 1 /\ Place(st, C, k + 1) = st[k] + Width(s[k])
  /\ \A j \in 1..Len(s), k \in 1..Len(s) + 1 : j < k => st[j] + Width(s[j]) <= Place(st, C, k)
  /\ \A k \in 1..Len(s) : \A i \in 1..Width(s[k]) : C[st[k] + i - 1].op = Cells(s[k])[i]

Resolved(s, st, C) ==
  \A k \in 1..Len(s) : OffPos(s[k]) > 0 /\ Settled(s, k) =>
    C[Off(s, st, k)].offset = Place(st, C, Taken(s, k)) - Off(s, st, k)

(* Branches lead to words of the text. *)
LEMMA TakenInText ==
  ASSUME NEW s, Balanced(s), NEW k \in 1..Len(s), OffPos(s[k]) > 0, Settled(s, k)
  PROVE  Taken(s, k) \in 1..Len(s) + 1
<1>1. s \in Seq(Words) /\ Len(s) \in Nat /\ s[k] \in Words
  BY DEF Balanced
<1>2. CASE s[k] \in Forward
  <2>1. Behind(s, k) \in 1..Len(s)
    <3>1. CASE Divided(s, k)
      <4>1. Parts(s, k) \in SUBSET Nat /\ Parts(s, k) # {} /\ \A x \in Parts(s, k) : x \in 1..Len(s)
        BY <3>1, <1>1 DEF Divided, Parts
      <4>2. Min(Parts(s, k)) \in Parts(s, k)
        BY <4>1, MinOfNumbers
      <4> QED  BY <4>1, <4>2, <3>1 DEF Behind
    <3>2. CASE ~Divided(s, k)
      <4>1. ~Live(s, k, Len(s)) /\ Len(s) \in k..Len(s)
        BY <1>1, <1>2, <3>2 DEF Settled
      <4>2. EndOf(s, k) \in k + 1..Len(s)
        BY <1>1, <4>1, EndExists
      <4>3. EndOf(s, k) \in 1..Len(s)
        BY <4>2, <1>1
      <4> QED  BY <4>3, <3>2 DEF Behind
    <3> QED  BY <3>1, <3>2
  <2>2. Taken(s, k) = Behind(s, k) + 1
    BY <1>2 DEF Taken, Forward
  <2> QED  BY <2>1, <2>2, <1>1
<1>3. CASE s[k] = "tail-recurse"
  <2>1. Taken(s, k) = 1
    BY <1>3 DEF Taken, Forward
  <2> QED  BY <2>1, <1>1
<1>4. CASE s[k] \notin Forward /\ s[k] # "tail-recurse"
  <2>1. s[k] \in Closing
    BY <1>1, <1>4, CellsOfWord
  <2>2. k - 1 \in Nat /\ k - 1 <= Len(s) /\ k \in Nat /\ k > 0 /\ k <= Len(s)
    BY <1>1
  <2>3. BeginOf(s, k) = Top(s, k - 1) /\ Opn(s, k - 1) # {}
    BY <2>1, <2>2, BeginIs, OpenClosed
  <2>4. Top(s, k - 1) \in 1..k - 1
    BY <2>2, <2>3, TopIsDeepest
  <2>5. Taken(s, k) = BeginOf(s, k) + 1
    BY <1>4 DEF Taken
  <2> QED  BY <2>2, <2>3, <2>4, <2>5
<1> QED  BY <1>2, <1>3, <1>4

(* Offsets of different words are different cells. *)
LEMMA OffsetsApart ==
  ASSUME NEW s, NEW st, NEW C, Layout(s, st, C),
         NEW j \in 1..Len(s), NEW k \in 1..Len(s), j # k, OffPos(s[j]) > 0, OffPos(s[k]) > 0
  PROVE  Off(s, st, j) # Off(s, st, k)
<1> SUFFICES ASSUME NEW a \in 1..Len(s), NEW b \in 1..Len(s), a < b,
                    OffPos(s[a]) > 0, OffPos(s[b]) > 0
             PROVE  Off(s, st, a) < Off(s, st, b) /\ Off(s, st, a) \in Int /\ Off(s, st, b) \in Int
  <2>1. \A a, b \in 1..Len(s) : a < b /\ OffPos(s[a]) > 0 /\ OffPos(s[b]) > 0
          => Off(s, st, a) < Off(s, st, b) /\ Off(s, st, a) \in Int /\ Off(s, st, b) \in Int
    OBVIOUS
  <2>2. Len(s) \in Nat
    BY DEF Layout
  <2>3. j \in Nat /\ k \in Nat
    BY <2>2
  <2>4. j < k \/ k < j
    BY <2>3
  <2> QED  BY <2>1, <2>4
<1>1. s[a] \in Words /\ s[b] \in Words /\ st[a] \in Nat /\ st[b] \in Nat /\ b \in 1..Len(s) + 1 /\ b <= Len(st)
  <2>1. s \in Seq(Words) /\ st \in Seq(Nat) /\ Len(st) = Len(s)
    BY DEF Layout
  <2> QED  BY <2>1
<1>2. OffPos(s[a]) \in 0..Width(s[a]) /\ Width(s[a]) \in Nat
      /\ OffPos(s[b]) \in 0..Width(s[b]) /\ Width(s[b]) \in Nat
  BY <1>1, CellsOfWord
<1>3. st[a] + Width(s[a]) <= Place(st, C, b)
  <2>1. \A x \in 1..Len(s), y \in 1..Len(s) + 1 : x < y => st[x] + Width(s[x]) <= Place(st, C, y)
    BY DEF Layout
  <2> QED  BY <2>1, <1>1
<1>4. Place(st, C, b) = st[b]
  BY <1>1 DEF Place
<1>5. OffPos(s[a]) \in Int /\ OffPos(s[b]) \in Int /\ OffPos(s[a]) <= Width(s[a])
  BY <1>2
<1>6. Off(s, st, a) = st[a] + OffPos(s[a]) - 1 /\ Off(s, st, b) = st[b] + OffPos(s[b]) - 1
  BY DEF Off
<1>7. st[a] + Width(s[a]) <= st[b]
  BY <1>3, <1>4
<1>8. OffPos(s[b]) > 0 /\ Width(s[a]) \in Nat
  BY <1>2
<1>9. \A x, y, p, q, d \in Int : x + d <= y /\ p <= d /\ q > 0
                                  => x + p - 1 < y + q - 1 /\ x + p - 1 \in Int /\ y + q - 1 \in Int
  OBVIOUS
<1>10. st[a] \in Int /\ st[b] \in Int /\ Width(s[a]) \in Int /\ OffPos(s[a]) <= Width(s[a])
  BY <1>1, <1>5, <1>8
<1>11. st[a] + OffPos(s[a]) - 1 < st[b] + OffPos(s[b]) - 1
       /\ st[a] + OffPos(s[a]) - 1 \in Int /\ st[b] + OffPos(s[b]) - 1 \in Int
  BY <1>5, <1>7, <1>8, <1>9, <1>10
<1> QED  BY <1>6, <1>11

(* The cells of a word lie in the code. *)
LEMMA OffsetInCode ==
  ASSUME NEW s, NEW st, NEW C, Layout(s, st, C), NEW k \in 1..Len(s), NEW i \in 1..Width(s[k])
  PROVE  st[k] + i - 1 \in 1..Len(C) /\ st[k] + i - 1 \in Nat
<1>1. s[k] \in Words /\ st[k] \in Nat /\ st[k] >= 1 /\ Len(C) \in Nat /\ Len(s) \in Nat /\ Len(st) = Len(s)
  BY DEF Layout
<1>2. Width(s[k]) \in Nat
  BY <1>1, CellsOfWord
<1>3. Place(st, C, Len(s) + 1) = Len(C) + 1
  BY <1>1 DEF Place
<1>4. st[k] + Width(s[k]) <= Place(st, C, Len(s) + 1)
  BY <1>1 DEF Layout
<1> QED  BY <1>1, <1>2, <1>3, <1>4

(* Another word is compiled: its cells come after the others, and the      *)
(* branches it resolves lead behind it.                                    *)
Extends(s, st, C, w, D) ==
  LET z == Append(s, w) n == Len(s) l == Len(C)
      resolves == {k \in 1..n : ~Settled(s, k) /\ Settled(z, k)}
      marks == {Off(s, st, k) : k \in resolves}
  IN  /\ D \in Seq(Cell) /\ Len(D) = l + Width(w)
      /\ \A i \in 1..l : D[i] = IF i \in marks THEN [op |-> C[i].op, offset |-> Len(D) + 1 - i]
                                ELSE C[i]
      /\ \A i \in 1..Width(w) : D[l + i].op = Cells(w)[i]
      /\ OffPos(w) > 0 /\ w \notin Forward =>
           D[l + OffPos(w)].offset = Place(st, C, Taken(z, n + 1)) - (l + OffPos(w))

\* The words of st2 are those of st, and one that begins behind the code C; D is
\* the code then.
Begun(st, C, st2, D) ==
  /\ st2 \in Seq(Nat) /\ Len(st2) = Len(st) + 1
  /\ \A x \in 1..Len(st) + 1 : Place(st2, D, x) = Place(st, C, x) /\ st2[x] = Place(st, C, x)
  /\ Place(st2, D, Len(st) + 2) = Len(D) + 1
  /\ \A x \in 1..Len(st) + 1 : Place(st, C, x) \in Nat

(* Another word begins where the code ended. *)
LEMMA PlaceAppend ==
  ASSUME NEW st \in Seq(Nat), NEW C \in Seq(Cell), NEW D
  PROVE  Begun(st, C, Append(st, Len(C) + 1), D)
<1> DEFINE st2 == Append(st, Len(C) + 1) n == Len(st) c == Len(C) + 1
<1>1. n \in Nat /\ c \in Nat
  OBVIOUS
<1>2. st2 \in Seq(Nat) /\ Len(st2) = n + 1 /\ st2[n + 1] = c
      /\ \A x \in 1..n : st2[x] = st[x] /\ st[x] \in Nat
  OBVIOUS
<1> HIDE DEF st2
<1>3. ASSUME NEW x \in 1..n + 1
      PROVE  Place(st2, D, x) = Place(st, C, x) /\ st2[x] = Place(st, C, x) /\ Place(st, C, x) \in Nat
  <2> HIDE DEF n, c
  <2>0. Place(st2, D, x) = st2[x]
    BY <1>1, <1>2 DEF Place
  <2>1. CASE x \in 1..n
    <3>1. Place(st, C, x) = st[x]
      BY <2>1, <1>1 DEF Place, n
    <3> QED  BY <2>0, <2>1, <3>1, <1>2
  <2>2. CASE x = n + 1
    <3>1. Place(st, C, x) = c
      BY <2>2, <1>1 DEF Place, n, c
    <3> QED  BY <2>0, <2>2, <3>1, <1>1, <1>2
  <2> QED  BY <2>1, <2>2, <1>1
<1>4. Place(st2, D, n + 2) = Len(D) + 1
  <2> HIDE DEF n
  <2>1. ~ (n + 2 <= Len(st2))
    BY <1>1, <1>2
  <2> QED  BY <2>1 DEF Place
<1>5. Begun(st, C, st2, D)
  BY <1>2, <1>3, <1>4 DEF Begun
<1> QED  BY <1>5 DEF st2

(* The layout of the code stays when a word's cells come behind it. *)
LEMMA LayoutExtends ==
  ASSUME NEW s, NEW st, NEW C, NEW w \in Words, NEW D,
         Layout(s, st, C), Extends(s, st, C, w, D)
  PROVE  Layout(Append(s, w), Append(st, Len(C) + 1), D)
<1> DEFINE z == Append(s, w) n == Len(s) st2 == Append(st, Len(C) + 1) l == Len(C)
<1>1. s \in Seq(Words) /\ st \in Seq(Nat) /\ C \in Seq(Cell) /\ Len(st) = n /\ n \in Nat /\ l \in Nat
  BY DEF Layout
<1>2. z \in Seq(Words) /\ Len(z) = n + 1 /\ z[n + 1] = w /\ \A k \in 1..n : z[k] = s[k] /\ s[k] \in Words
  BY <1>1
<1>3. /\ st2 \in Seq(Nat) /\ Len(st2) = n + 1
      /\ \A x \in 1..n + 1 : Place(st2, D, x) = Place(st, C, x) /\ st2[x] = Place(st, C, x)
      /\ Place(st2, D, n + 2) = Len(D) + 1
      /\ \A x \in 1..n + 1 : Place(st, C, x) \in Nat
  <2>1. Begun(st, C, st2, D)
    BY <1>1, PlaceAppend
  <2>2. Len(st) = n
    BY <1>1
  <2> HIDE DEF n, st2
  <2> QED  BY <2>1, <2>2 DEF Begun
<1>4. /\ D \in Seq(Cell) /\ Len(D) = l + Width(w)
      /\ \A i \in 1..Width(w) : D[l + i].op = Cells(w)[i]
      /\ \A i \in 1..l : D[i].op = C[i].op
  <2>1. D \in Seq(Cell) /\ Len(D) = l + Width(w) /\ \A i \in 1..Width(w) : D[l + i].op = Cells(w)[i]
    BY DEF Extends
  <2>2. \E M : \A i \in 1..l : D[i] = IF i \in M THEN [op |-> C[i].op, offset |-> Len(D) + 1 - i]
                                ELSE C[i]
    BY Zenon DEF Extends
  <2>3. PICK M : \A i \in 1..l : D[i] = IF i \in M THEN [op |-> C[i].op, offset |-> Len(D) + 1 - i]
                                 ELSE C[i]
    BY <2>2
  <2>4. \A i \in 1..l : D[i].op = C[i].op
    <3> SUFFICES ASSUME NEW i \in 1..l PROVE D[i].op = C[i].op
      OBVIOUS
    <3>1. D[i] = IF i \in M THEN [op |-> C[i].op, offset |-> Len(D) + 1 - i] ELSE C[i]
      BY <2>3
    <3> QED  BY <3>1
  <2> QED  BY <2>1, <2>4
<1>5. /\ Place(st, C, 1) = 1
      /\ \A k \in 1..n : st[k] >= 1 /\ Place(st, C, k + 1) = st[k] + Width(s[k])
      /\ \A j \in 1..n, k \in 1..n + 1 : j < k => st[j] + Width(s[j]) <= Place(st, C, k)
      /\ \A k \in 1..n : \A i \in 1..Width(s[k]) : C[st[k] + i - 1].op = Cells(s[k])[i]
  BY DEF Layout
<1>6. \A k \in 1..n : Place(st, C, k) = st[k] /\ st2[k] = st[k] /\ st[k] \in Nat
  BY <1>1, <1>3 DEF Place
<1>7. Place(st, C, n + 1) = l + 1 /\ st2[n + 1] = l + 1
  BY <1>1, <1>3 DEF Place
<1>8. \A v \in Words : Width(v) \in Nat
  BY CellsOfWord
<1>9. ASSUME NEW k \in 1..n, NEW i \in 1..Width(s[k]) PROVE st[k] + i - 1 \in 1..l
  BY OffsetInCode
<1> HIDE DEF z, n, st2, l
<1>10. Place(st2, D, 1) = 1
  BY <1>1, <1>3, <1>5
<1>11. ASSUME NEW k \in 1..n + 1
       PROVE  st2[k] >= 1 /\ Place(st2, D, k + 1) = st2[k] + Width(z[k])
  <2>1. CASE k \in 1..n
    <3>1. k + 1 \in 1..n + 1
      BY <2>1, <1>1
    <3> QED  BY <3>1, <2>1, <1>2, <1>3, <1>5, <1>6
  <2>2. CASE k = n + 1
    <3>1. k + 1 = n + 2
      BY <2>2, <1>1
    <3>2. Place(st2, D, k + 1) = Len(D) + 1
      BY <3>1, <1>3
    <3>3. Width(w) \in Nat
      BY <1>8
    <3> QED  BY <3>2, <3>3, <2>2, <1>1, <1>2, <1>4, <1>7
  <2> QED  BY <2>1, <2>2, <1>1
<1>12. ASSUME NEW j \in 1..n + 1, NEW k \in 1..n + 2, j < k
       PROVE  st2[j] + Width(z[j]) <= Place(st2, D, k)
  <2>1. CASE k \in 1..n + 1
    <3>1. j \in 1..n
      BY <2>1, <1>12, <1>1
    <3>2. st[j] + Width(s[j]) <= Place(st, C, k)
      BY <3>1, <2>1, <1>5, <1>12
    <3> QED  BY <3>1, <3>2, <2>1, <1>2, <1>3, <1>6
  <2>2. CASE k = n + 2
    <3>1. Place(st2, D, k) = l + Width(w) + 1
      BY <2>2, <1>3, <1>4
    <3>2. Width(w) \in Nat
      BY <1>8
    <3>3. CASE j = n + 1
      <4>1. st2[j] = l + 1 /\ z[j] = w
        BY <3>3, <1>1, <1>2, <1>7
      <4> QED  BY <4>1, <3>1, <3>2, <1>1
    <3>4. CASE j \in 1..n
      <4>1. n + 1 \in 1..n + 1 /\ j < n + 1
        BY <3>4, <1>1
      <4>2. st[j] + Width(s[j]) <= l + 1
        BY <4>1, <3>4, <1>5, <1>7
      <4>3. Width(s[j]) \in Nat /\ st[j] \in Nat /\ st2[j] = st[j] /\ z[j] = s[j]
        BY <3>4, <1>2, <1>6, <1>8
      <4> QED  BY <4>2, <4>3, <3>1, <3>2, <1>1
    <3> QED  BY <3>3, <3>4, <1>1
  <2> QED  BY <2>1, <2>2, <1>1
<1>13. ASSUME NEW k \in 1..n + 1, NEW i \in 1..Width(z[k])
       PROVE  D[st2[k] + i - 1].op = Cells(z[k])[i]
  <2>1. CASE k \in 1..n
    <3>1. z[k] = s[k] /\ st2[k] = st[k] /\ i \in 1..Width(s[k])
      BY <2>1, <1>2, <1>6, <1>13
    <3>2. st[k] + i - 1 \in 1..l
      BY <2>1, <3>1, <1>9
    <3>3. C[st[k] + i - 1].op = Cells(s[k])[i]
      BY <2>1, <3>1, <1>5
    <3> QED  BY <3>1, <3>2, <3>3, <1>4
  <2>2. CASE k = n + 1
    <3>1. st2[k] = l + 1 /\ z[k] = w /\ i \in 1..Width(w)
      BY <2>2, <1>1, <1>2, <1>7, <1>13
    <3>2. st2[k] + i - 1 = l + i
      BY <3>1, <1>1, <1>8
    <3> QED  BY <3>1, <3>2, <1>4
  <2> QED  BY <2>1, <2>2, <1>1
<1>14. Len(z) + 1 = n + 2
  BY <1>1, <1>2
<1>15. Layout(z, st2, D)
  BY <1>2, <1>3, <1>4, <1>10, <1>11, <1>12, <1>13, <1>14 DEF Layout
<1> QED  BY <1>15 DEF z, st2, l

(* The branches stay resolved when a word's cells come behind the code and *)
(* the branches that the word settles lead behind them.                    *)
LEMMA ResolvedExtends ==
  ASSUME NEW s, NEW st, NEW C, NEW w \in Words, NEW D,
         Layout(s, st, C), Legal(s), Resolved(s, st, C), Extends(s, st, C, w, D),
         Balanced(Append(s, w))
  PROVE  Resolved(Append(s, w), Append(st, Len(C) + 1), D)
<1> DEFINE z == Append(s, w) n == Len(s) st2 == Append(st, Len(C) + 1) l == Len(C)
           resolves == {k \in 1..n : ~Settled(s, k) /\ Settled(z, k)}
           marks == {Off(s, st, k) : k \in resolves}
<1>1. s \in Seq(Words) /\ st \in Seq(Nat) /\ C \in Seq(Cell) /\ Len(st) = n /\ n \in Nat /\ l \in Nat
  BY DEF Layout
<1>2. z \in Seq(Words) /\ Len(z) = n + 1 /\ z[n + 1] = w /\ \A k \in 1..n : z[k] = s[k] /\ s[k] \in Words
  BY <1>1
<1>3. /\ st2 \in Seq(Nat) /\ Len(st2) = n + 1
      /\ \A x \in 1..n + 1 : Place(st2, D, x) = Place(st, C, x) /\ st2[x] = Place(st, C, x)
      /\ Place(st2, D, n + 2) = Len(D) + 1
  <2>1. Begun(st, C, st2, D)
    BY <1>1, PlaceAppend
  <2>2. Len(st) = n
    BY <1>1
  <2> HIDE DEF n, st2
  <2> QED  BY <2>1, <2>2 DEF Begun
<1>4. /\ D \in Seq(Cell) /\ Len(D) = l + Width(w)
      /\ \A i \in 1..l : D[i] = IF i \in marks THEN [op |-> C[i].op, offset |-> Len(D) + 1 - i]
                                ELSE C[i]
      /\ OffPos(w) > 0 /\ w \notin Forward =>
           D[l + OffPos(w)].offset = Place(st, C, Taken(z, n + 1)) - (l + OffPos(w))
  BY Zenon DEF Extends
<1>5. Place(st, C, n + 1) = l + 1
  BY <1>1 DEF Place
<1>6. \A k \in 1..n : Place(st, C, k) = st[k]
  BY <1>1 DEF Place
<1>7. \A k \in 1..n : Off(z, st2, k) = Off(s, st, k)
  <2>1. \A k \in 1..n : st2[k] = st[k] /\ z[k] = s[k]
    BY <1>1, <1>2, <1>3, <1>6
  <2> HIDE DEF z, st2
  <2> QED  BY <2>1 DEF Off
<1>b. Balanced(s) /\ Balanced(z)
  BY DEF Legal
<1>8. ASSUME NEW k \in 1..n, OffPos(s[k]) > 0 PROVE Off(s, st, k) \in 1..l
  <2>1. s[k] \in Words
    BY <1>1
  <2>2. OffPos(s[k]) \in 1..Width(s[k])
    BY <2>1, <1>8, CellsOfWord
  <2>3. k \in 1..Len(s)
    OBVIOUS
  <2>4. st[k] + OffPos(s[k]) - 1 \in 1..Len(C)
    BY <2>2, <2>3, OffsetInCode
  <2> QED  BY <2>4 DEF Off
<1>9. ASSUME NEW k \in 1..n, OffPos(s[k]) > 0, Settled(s, k)
      PROVE  D[Off(s, st, k)].offset = Place(st2, D, Taken(z, k)) - Off(s, st, k)
  <2>1. Off(s, st, k) \notin marks
    <3> SUFFICES ASSUME NEW j \in resolves, Off(s, st, k) = Off(s, st, j) PROVE FALSE
      OBVIOUS
    <3>1. j \in 1..n /\ ~Settled(s, j) /\ j # k
      BY <1>9
    <3>2. OffPos(s[j]) > 0
      <4>1. s[j] \in Forward /\ s[j] \in Words
        BY <3>1, <1>1 DEF Settled
      <4> QED  BY <4>1, CellsOfWord
    <3>3. j \in 1..Len(s) /\ k \in 1..Len(s)
      BY <3>1
    <3> QED  BY <3>1, <3>2, <3>3, <1>9, OffsetsApart
  <2>2. Off(s, st, k) \in 1..l
    BY <1>8, <1>9
  <2> HIDE DEF marks
  <2>3. D[Off(s, st, k)] = C[Off(s, st, k)]
    BY <2>1, <2>2, <1>4
  <2>4. C[Off(s, st, k)].offset = Place(st, C, Taken(s, k)) - Off(s, st, k)
    BY <1>9 DEF Resolved
  <2>5. Taken(z, k) = Taken(s, k)
    BY <1>1, <1>9, SettledStays
  <2>6. Taken(s, k) \in 1..n + 1
    BY <1>b, <1>9, TakenInText
  <2> QED  BY <2>3, <2>4, <2>5, <2>6, <1>3
<1>10. ASSUME NEW k \in 1..n, OffPos(s[k]) > 0, ~Settled(s, k), Settled(z, k)
      PROVE  D[Off(s, st, k)].offset = Place(st2, D, Taken(z, k)) - Off(s, st, k)
  <2>1. Off(s, st, k) \in marks
    BY <1>10
  <2>2. Off(s, st, k) \in 1..l
    BY <1>8, <1>10
  <2> HIDE DEF marks
  <2> DEFINE a == Off(s, st, k)
  <2>3. D[a] = [op |-> C[a].op, offset |-> Len(D) + 1 - a]
    BY <2>1, <2>2, <1>4
  <2>4. Taken(z, k) = n + 2
    BY <1>1, <1>10, SettledNow
  <2>5. Place(st2, D, n + 2) = Len(D) + 1
    BY <1>3
  <2> HIDE DEF a, z, n, st2
  <2>6. D[a].offset = Len(D) + 1 - a
    BY <2>3
  <2>7. D[a].offset = Place(st2, D, Taken(z, k)) - a
    <3>1. a \in 1..l /\ Len(D) \in Nat
      BY <2>2, <1>4 DEF a
    <3>2. a \in Int
      BY <3>1, <1>1
    <3> QED  BY <2>4, <2>5, <2>6, <3>1, <3>2
  <2> QED  BY <2>7 DEF a
<1>11. ASSUME OffPos(w) > 0, Settled(z, n + 1)
      PROVE  D[l + OffPos(w)].offset = Place(st2, D, Taken(z, n + 1)) - (l + OffPos(w))
  <2>1. w \notin Forward
    <3> SUFFICES ASSUME w \in Forward PROVE FALSE
      OBVIOUS
    <3>1. ~Live(z, n + 1, n + 1) \/ Divided(z, n + 1)
      BY <1>2, <1>11 DEF Settled
    <3>2. Live(z, n + 1, n + 1)
      <4>1. Lev(z, n + 1) \in Int
        <5>1. n + 1 \in Nat
          BY <1>1
        <5> QED  BY <5>1, LevelStep
      <4> HIDE DEF z, n
      <4>2. \A i \in n + 1..n + 1 : i = n + 1
        BY <1>1
      <4> QED  BY <4>1, <4>2 DEF Live
    <3>3. Parts(z, n + 1) = {}
      <4> HIDE DEF z, n
      <4> QED  BY <1>1, <1>2 DEF Parts
    <3> QED  BY <3>1, <3>2, <3>3 DEF Divided
  <2>2. Taken(z, n + 1) \in 1..n + 1
    <3>1. CASE w = "tail-recurse"
      <4>1. Taken(z, n + 1) = 1
        <5> HIDE DEF z
        <5> QED  BY <3>1, <1>2 DEF Taken, Forward
      <4> QED  BY <4>1, <1>1
    <3>2. CASE w # "tail-recurse"
      <4>1. w \in Closing
        BY <2>1, <3>2, <1>11, CellsOfWord
      <4> HIDE DEF z, n
      <4>2. n + 1 \in 1..Len(z) /\ n \in Nat /\ n <= Len(z) /\ n + 1 <= Len(z) /\ (n + 1) - 1 = n
            /\ n + 1 \in Nat /\ n + 1 > 0
        BY <1>1, <1>2
      <4>3. BeginOf(z, n + 1) = Top(z, (n + 1) - 1)
        BY <4>1, <4>2, <1>2, <1>b, BeginIs
      <4>4. Opn(z, (n + 1) - 1) # {}
        BY <4>1, <4>2, <1>2, <1>b, OpenClosed
      <4>5. Top(z, n) \in 1..n
        BY <4>2, <4>4, <1>b, TopIsDeepest
      <4>6. Taken(z, n + 1) = BeginOf(z, n + 1) + 1
        BY <2>1, <3>2, <1>2 DEF Taken
      <4> QED  BY <4>2, <4>3, <4>5, <4>6
    <3> QED  BY <3>1, <3>2
  <2> QED  BY <2>1, <2>2, <1>3, <1>4, <1>11
<1>12. Off(z, st2, n + 1) = l + OffPos(w)
  <2>1. st2[n + 1] = l + 1 /\ n + 1 \in 1..n + 1 /\ OffPos(w) \in Int
    <3>1. OffPos(w) \in Int
      BY CellsOfWord
    <3> QED  BY <3>1, <1>1, <1>3, <1>5
  <2> HIDE DEF st2, z, l
  <2> QED  BY <2>1, <1>1, <1>2 DEF Off
<1> HIDE DEF z, n, st2, l, marks, resolves
<1>13. ASSUME NEW k \in 1..Len(z), OffPos(z[k]) > 0, Settled(z, k)
       PROVE  D[Off(z, st2, k)].offset = Place(st2, D, Taken(z, k)) - Off(z, st2, k)
  <2>1. CASE k \in 1..n
    <3>1. OffPos(s[k]) > 0 /\ Off(z, st2, k) = Off(s, st, k)
      BY <2>1, <1>2, <1>7, <1>13
    <3> QED  BY <3>1, <2>1, <1>9, <1>10, <1>13
  <2>2. CASE k = n + 1
    <3>1. OffPos(w) > 0 /\ Settled(z, n + 1)
      BY <2>2, <1>2, <1>13
    <3> QED  BY <3>1, <2>2, <1>11, <1>12
  <2> QED  BY <2>1, <2>2, <1>1, <1>2
<1> QED  BY <1>13 DEF Resolved, z, st2, l

----------------------------------------------------------------------------
(* The steps of the compiler, on rows of cells and of marks. *)

(* What the compiling words do to the code and to the marks on the stack.   *)

Mark == [follow : SUBSET Words, at : Int]
Rec(C, S) == [code |-> C, stack |-> S]

(* Code and stack of a compiler, one at a time. *)
LEMMA RecFields ==
  ASSUME NEW C, NEW S, NEW x
  PROVE  /\ Rec(C, S).code = C /\ Rec(C, S).stack = S
         /\ [Rec(C, S) EXCEPT !.code = x] = Rec(x, S)
         /\ [Rec(C, S) EXCEPT !.stack = x] = Rec(C, x)
  BY DEF Rec

(* Addresses and sets of words to follow are marks. *)
LEMMA MarkTypes ==
  /\ \A a \in Int : Address(a) \in Mark /\ Address(a).at = a /\ Address(a).follow = {}
  /\ \A W \in SUBSET Words : Follow(W) \in Mark /\ Follow(W).follow = W /\ Follow(W).at = 0
  BY DEF Address, Follow, Mark

(* Instructions and offsets are cells. *)
LEMMA CellTypes ==
  /\ \A w \in Ops : Op(w) \in Cell /\ Op(w).op = w
  /\ \A d \in Int : Offset(d) \in Cell /\ Offset(d).op = "offset" /\ Offset(d).offset = d
<1>1. "offset" \in Ops
  BY DEF Ops
<1> QED  BY <1>1 DEF Op, Offset, Cell

(* The top of a stack, and what is below it. *)
LEMMA EndsOfRow ==
  ASSUME NEW T, NEW u \in Seq(T), NEW x \in T
  PROVE  /\ Last(u \o <<x>>) = x /\ Front(u \o <<x>>) = u
         /\ Append(u, x) = u \o <<x>>
<1> DEFINE v == u \o <<x>>
<1>1. v \in Seq(T) /\ Len(v) = Len(u) + 1 /\ Len(u) \in Nat
      /\ v[Len(u) + 1] = x /\ \A i \in 1..Len(u) : v[i] = u[i]
  OBVIOUS
<1>2. Append(u, x) = v
  OBVIOUS
<1> HIDE DEF v
<1>3. Last(v) = x
  BY <1>1 DEF Last
<1>4. Front(v) = u
  <2> DEFINE f == SubSeq(v, 1, Len(u))
  <2>1. Front(v) = f
    <3>1. Len(v) - 1 = Len(u)
      BY <1>1
    <3> QED  BY <3>1 DEF Front
  <2>2. f \in Seq(T) /\ Len(f) = Len(u) /\ \A i \in 1..Len(u) : f[i] = v[i]
    BY <1>1
  <2> HIDE DEF f
  <2>3. f = u
    BY <1>1, <2>2
  <2> QED  BY <2>1, <2>3
<1> QED  BY <1>2, <1>3, <1>4 DEF v

(* The steps of the compiler as they stand, for any code and any stack. *)
LEMMA RawPushOn == ASSUME NEW C, NEW u, NEW x PROVE PushOn(Rec(C, u), x) = Rec(C, Append(u, x))
  BY DEF PushOn, Rec

(* Pop on any compiler. *)
LEMMA RawPop == ASSUME NEW C, NEW u PROVE Pop(Rec(C, u)) = Rec(C, Front(u))
  BY DEF Pop, Rec

(* Swap on any compiler. *)
LEMMA RawSwap ==
  ASSUME NEW C, NEW S
  PROVE  Swap(Rec(C, S)) = Rec(C, Front(Front(S)) \o <<S[Len(S)], S[Len(S) - 1]>>)
<1> DEFINE r == Rec(C, S)
           v == Front(Front(S)) \o <<S[Len(S)], S[Len(S) - 1]>>
<1>1. r.stack = S
  BY DEF Rec
<1>2. Swap(r) = [r EXCEPT !.stack = Front(Front(r.stack)) \o <<r.stack[Len(r.stack)], r.stack[Len(r.stack) - 1]>>]
  BY DEF Swap
<1>3. Front(Front(r.stack)) \o <<r.stack[Len(r.stack)], r.stack[Len(r.stack) - 1]>> = v
  BY <1>1
<1> HIDE DEF v
<1>4. [r EXCEPT !.stack = v] = Rec(C, v)
  BY DEF Rec
<1> HIDE DEF r
<1>5. Swap(r) = Rec(C, v)
  BY <1>2, <1>3, <1>4
<1> QED  BY <1>5 DEF r, v

(* A cell put behind the code. *)
LEMMA RawCode == ASSUME NEW C, NEW u, NEW v PROVE [Rec(C, u) EXCEPT !.code = Append(@, v)] = Rec(Append(C, v), u)
  BY DEF Rec

(* ForwardResolve with the address and the distance given. *)
LEMMA RawForward ==
  ASSUME NEW C, NEW S, NEW u, NEW a, NEW p, Pop(Rec(C, S)) = Rec(C, u),
         Last(Rec(C, S).stack).at = a, Here(Rec(C, S)).at - a = p
  PROVE  ForwardResolve(Rec(C, S)) = Rec([C EXCEPT ![a].offset = p], u)
<1>1. ForwardResolve(Rec(C, S)) = [Rec(C, u) EXCEPT !.code[a].offset = p]
  BY Zenon DEF ForwardResolve
<1>2. [Rec(C, u) EXCEPT !.code[a].offset = p] = Rec([C EXCEPT ![a].offset = p], u)
  BY DEF Rec
<1> QED  BY <1>1, <1>2

(* Here is behind the last cell. *)
LEMMA RawHere == ASSUME NEW C, NEW u PROVE Here(Rec(C, u)) = Address(Len(C) + 1)
  BY DEF Here, Rec

(* Thread puts instructions behind the code. *)
LEMMA RawThread ==
  ASSUME NEW C, NEW S, NEW ops
  PROVE  Thread(Rec(C, S), ops) = Rec(C \o [k \in DOMAIN ops |-> Op(ops[k])], S)
<1> DEFINE r == Rec(C, S)
           row == [k \in DOMAIN ops |-> Op(ops[k])]
           v == C \o row
<1>1. r.code = C
  BY DEF Rec
<1>2. Thread(r, ops) = [r EXCEPT !.code = r.code \o row]
  BY DEF Thread
<1> HIDE DEF row
<1>3. r.code \o row = v
  BY <1>1
<1> HIDE DEF v
<1>4. [r EXCEPT !.code = v] = Rec(v, S)
  BY DEF Rec
<1> HIDE DEF r
<1>5. Thread(r, ops) = Rec(v, S)
  BY <1>2, <1>3, <1>4
<1> QED  BY <1>5 DEF r, v, row

(* Pushing, popping, swapping and marking, with code and stack well typed. *)
LEMMA PrimitivesAre ==
  ASSUME NEW C \in Seq(Cell), NEW u \in Seq(Mark), NEW x \in Mark, NEW y \in Mark
  PROVE  /\ PushOn(Rec(C, u), x) = Rec(C, u \o <<x>>)
         /\ Pop(Rec(C, u \o <<x>>)) = Rec(C, u)
         /\ Swap(Rec(C, u \o <<x, y>>)) = Rec(C, u \o <<y, x>>)
         /\ Here(Rec(C, u)) = Address(Len(C) + 1)
         /\ BackwardMark(Rec(C, u)) = Rec(C, u \o <<Address(Len(C) + 1)>>)
         /\ ForwardMark(Rec(C, u)) = Rec(C \o <<Offset(0)>>, u \o <<Address(Len(C) + 1)>>)
<1>1. /\ Append(u, x) = u \o <<x>> /\ Front(u \o <<x>>) = u
      /\ Front(u \o <<x, y>>) = u \o <<x>>
  <2>1. Append(u, x) = u \o <<x>>
    OBVIOUS
  <2>2. Front(u \o <<x>>) = u
    BY DEF Front
  <2>3. Front(u \o <<x, y>>) = u \o <<x>>
    BY DEF Front
  <2> QED  BY <2>1, <2>2, <2>3
<1>2. PushOn(Rec(C, u), x) = Rec(C, u \o <<x>>)
  <2>1. PushOn(Rec(C, u), x) = Rec(C, Append(u, x))
    BY RawPushOn
  <2> QED  BY <2>1, <1>1
<1>3. Pop(Rec(C, u \o <<x>>)) = Rec(C, u)
  <2>1. Pop(Rec(C, u \o <<x>>)) = Rec(C, Front(u \o <<x>>))
    BY RawPop
  <2> QED  BY <2>1, <1>1
<1>4. Swap(Rec(C, u \o <<x, y>>)) = Rec(C, u \o <<y, x>>)
  <2> DEFINE S == u \o <<x, y>>
  <2>1. S[Len(S)] = y /\ S[Len(S) - 1] = x /\ Front(Front(S)) = u
    <3>1. S[Len(S)] = y /\ S[Len(S) - 1] = x
      OBVIOUS
    <3> QED  BY <1>1, <3>1
  <2> HIDE DEF S
  <2>2. Swap(Rec(C, S)) = Rec(C, Front(Front(S)) \o <<S[Len(S)], S[Len(S) - 1]>>)
    BY RawSwap
  <2>3. Swap(Rec(C, S)) = Rec(C, u \o <<y, x>>)
    BY <2>1, <2>2
  <2> QED  BY <2>3 DEF S
<1>5. Here(Rec(C, u)) = Address(Len(C) + 1)
  BY RawHere
<1>6. Len(C) + 1 \in Int
  OBVIOUS
<1>7. Address(Len(C) + 1) \in Mark
  BY <1>6, MarkTypes
<1>8. Append(u, Address(Len(C) + 1)) = u \o <<Address(Len(C) + 1)>>
  BY <1>7, EndsOfRow
<1>a. PushOn(Rec(C, u), Address(Len(C) + 1)) = Rec(C, u \o <<Address(Len(C) + 1)>>)
  <2>1. PushOn(Rec(C, u), Address(Len(C) + 1)) = Rec(C, Append(u, Address(Len(C) + 1)))
    BY RawPushOn
  <2> QED  BY <2>1, <1>8
<1>9. BackwardMark(Rec(C, u)) = Rec(C, u \o <<Address(Len(C) + 1)>>)
  BY <1>a, <1>5, Zenon DEF BackwardMark
<1>10. Append(C, Offset(0)) = C \o <<Offset(0)>>
  <2>1. Offset(0) \in Cell
    BY CellTypes
  <2> QED  BY <2>1, EndsOfRow
<1>11. ForwardMark(Rec(C, u)) = Rec(C \o <<Offset(0)>>, u \o <<Address(Len(C) + 1)>>)
  <2> DEFINE v == u \o <<Address(Len(C) + 1)>>
  <2>1. PushOn(Rec(C, u), Here(Rec(C, u))) = Rec(C, v)
    BY <1>a, <1>5
  <2> HIDE DEF v
  <2>2. ForwardMark(Rec(C, u)) = [Rec(C, v) EXCEPT !.code = Append(@, Offset(0))]
    BY <2>1, Zenon DEF ForwardMark
  <2>3. [Rec(C, v) EXCEPT !.code = Append(@, Offset(0))] = Rec(Append(C, Offset(0)), v)
    BY RawCode
  <2>4. ForwardMark(Rec(C, u)) = Rec(C \o <<Offset(0)>>, v)
    BY <2>2, <2>3, <1>10
  <2> QED  BY <2>4 DEF v
<1> QED  BY <1>2, <1>3, <1>4, <1>5, <1>9, <1>11

(* >resolve writes the distance at the address popped, <resolve behind the *)
(* code.                                                                   *)
LEMMA ResolvesAre ==
  ASSUME NEW C \in Seq(Cell), NEW u \in Seq(Mark), NEW a \in Int
  PROVE  /\ ForwardResolve(Rec(C, u \o <<Address(a)>>))
              = Rec([C EXCEPT ![a].offset = (Len(C) + 1) - a], u)
         /\ BackwardResolve(Rec(C, u \o <<Address(a)>>))
              = Rec(C \o <<Offset(a - (Len(C) + 1))>>, u)
<1>1. Address(a) \in Mark /\ Address(a).at = a
  BY MarkTypes
<1> DEFINE S == u \o <<Address(a)>>
<1>2. Last(S) = Address(a) /\ S \in Seq(Mark)
  <2>1. Last(u \o <<Address(a)>>) = Address(a)
    BY <1>1, EndsOfRow
  <2>2. <<Address(a)>> \in Seq(Mark)
    BY <1>1
  <2> QED  BY <2>1, <2>2
<1>3. Pop(Rec(C, S)) = Rec(C, u)
  BY <1>1, PrimitivesAre
<1>4. Here(Rec(C, S)) = Address(Len(C) + 1) /\ Len(C) + 1 \in Int
  BY RawHere
<1>5. Address(Len(C) + 1).at = Len(C) + 1
  BY <1>4, MarkTypes
<1> HIDE DEF S
<1>6. Rec(C, S).stack = S
  BY RecFields
<1>b. Last(Rec(C, S).stack).at = a /\ Here(Rec(C, S)).at = Len(C) + 1
  BY <1>6, <1>2, <1>1, <1>4, <1>5
<1>7. ForwardResolve(Rec(C, S)) = Rec([C EXCEPT ![a].offset = (Len(C) + 1) - a], u)
  <2>1. Here(Rec(C, S)).at - a = (Len(C) + 1) - a
    BY <1>b
  <2>2. Last(Rec(C, S).stack).at = a
    BY <1>b
  <2> DEFINE p == (Len(C) + 1) - a
  <2> HIDE DEF p
  <2>3. Here(Rec(C, S)).at - a = p
    BY <2>1 DEF p
  <2>4. ForwardResolve(Rec(C, S)) = Rec([C EXCEPT ![a].offset = p], u)
    BY <1>3, <2>2, <2>3, RawForward
  <2> QED  BY <2>4 DEF p
<1>9. BackwardResolve(Rec(C, S)) = [Rec(C, u) EXCEPT !.code = Append(@, Offset(a - (Len(C) + 1)))]
  BY <1>3, <1>b, Zenon DEF BackwardResolve
<1>10. Append(C, Offset(a - (Len(C) + 1))) = C \o <<Offset(a - (Len(C) + 1))>>
  <2>1. a - (Len(C) + 1) \in Int
    BY <1>4
  <2>2. Offset(a - (Len(C) + 1)) \in Cell
    BY <2>1, CellTypes
  <2> QED  BY <2>2, EndsOfRow
<1>11. [Rec(C, u) EXCEPT !.code = Append(@, Offset(a - (Len(C) + 1)))]
         = Rec(Append(C, Offset(a - (Len(C) + 1))), u)
  BY RawCode
<1> QED  BY <1>7, <1>9, <1>10, <1>11 DEF S

(* One instruction compiled. *)
LEMMA Thread1 ==
  ASSUME NEW C, NEW S, NEW a
  PROVE  Thread(Rec(C, S), <<a>>) = Rec(C \o <<Op(a)>>, S)
<1>1. [k \in DOMAIN <<a>> |-> Op(<<a>>[k])] = <<Op(a)>>
  OBVIOUS
<1>2. Thread(Rec(C, S), <<a>>) = Rec(C \o [k \in DOMAIN <<a>> |-> Op(<<a>>[k])], S)
  BY RawThread
<1> QED  BY <1>1, <1>2, Zenon

(* Two instructions compiled. *)
LEMMA Thread2 ==
  ASSUME NEW C, NEW S, NEW a, NEW b
  PROVE  Thread(Rec(C, S), <<a, b>>) = Rec(C \o <<Op(a), Op(b)>>, S)
<1>1. [k \in DOMAIN <<a, b>> |-> Op(<<a, b>>[k])] = <<Op(a), Op(b)>>
  OBVIOUS
<1>2. Thread(Rec(C, S), <<a, b>>) = Rec(C \o [k \in DOMAIN <<a, b>> |-> Op(<<a, b>>[k])], S)
  BY RawThread
<1> QED  BY <1>1, <1>2, Zenon

(* Three instructions compiled. *)
LEMMA Thread3 ==
  ASSUME NEW C, NEW S, NEW a, NEW b, NEW c
  PROVE  Thread(Rec(C, S), <<a, b, c>>) = Rec(C \o <<Op(a), Op(b), Op(c)>>, S)
<1>1. [k \in DOMAIN <<a, b, c>> |-> Op(<<a, b, c>>[k])] = <<Op(a), Op(b), Op(c)>>
  OBVIOUS
<1>2. Thread(Rec(C, S), <<a, b, c>>) = Rec(C \o [k \in DOMAIN <<a, b, c>> |-> Op(<<a, b, c>>[k])], S)
  BY RawThread
<1> QED  BY <1>1, <1>2, Zenon

(* Four instructions compiled. *)
LEMMA Thread4 ==
  ASSUME NEW C, NEW S, NEW a, NEW b, NEW c, NEW d
  PROVE  Thread(Rec(C, S), <<a, b, c, d>>) = Rec(C \o <<Op(a), Op(b), Op(c), Op(d)>>, S)
<1>1. [k \in DOMAIN <<a, b, c, d>> |-> Op(<<a, b, c, d>>[k])] = <<Op(a), Op(b), Op(c), Op(d)>>
  OBVIOUS
<1>2. Thread(Rec(C, S), <<a, b, c, d>>) = Rec(C \o [k \in DOMAIN <<a, b, c, d>> |-> Op(<<a, b, c, d>>[k])], S)
  BY RawThread
<1> QED  BY <1>1, <1>2, Zenon

(* The code that a word adds, with d at the offset of its branch. *)
RowOf(w, d) ==
  CASE w = "do" -> <<Op("push"), Op("push"), Op("(do)"), Offset(d)>>
    [] w = "?do" -> <<Op("push"), Op("push"), Op("(?do)"), Offset(d)>>
    [] w = "loop" -> <<Op("(loop)"), Offset(d)>>
    [] w = "+loop" -> <<Op("push"), Op("(+loop)"), Offset(d)>>
    [] w \in {"if", "until", "while"} -> <<Op("push"), Op("(?branch)"), Offset(d)>>
    [] w = "case" -> <<Op("push")>>
    [] w = "of" -> <<Op("push"), Op("over"), Op("="), Op("(?branch)"), Offset(d), Op("drop")>>
    [] w = "endcase" -> <<Op("drop")>>
    [] w \in {"else", "endof", "repeat", "again", "tail-recurse"} -> <<Op("(branch)"), Offset(d)>>
    [] w = "leave" -> <<Op("leave")>>
    [] w \in {"exit", "semicolon"} -> <<Op("(semicolon)")>>
    [] w \in {"then", "begin"} -> <<>>

IsRow(row, w, d) ==
  /\ row \in Seq(Cell) /\ Len(row) = Width(w)
  /\ \A i \in 1..Width(w) : row[i].op = Cells(w)[i]
  /\ OffPos(w) > 0 => row[OffPos(w)].offset = d

(* The code added by each word has that word's cells, with the offset d at *)
(* its place.                                                              *)
LEMMA RowIs ==
  ASSUME NEW w \in Words, NEW d \in Int
  PROVE  IsRow(RowOf(w, d), w, d)
<1>0. /\ \A v \in Ops : Op(v) \in Cell /\ Op(v).op = v
      /\ Offset(d) \in Cell /\ Offset(d).op = "offset" /\ Offset(d).offset = d
  BY CellTypes
<1>a. /\ Op("push") \in Cell /\ Op("over") \in Cell /\ Op("=") \in Cell /\ Op("drop") \in Cell
      /\ Op("(do)") \in Cell /\ Op("(?do)") \in Cell /\ Op("(loop)") \in Cell /\ Op("(+loop)") \in Cell
      /\ Op("(branch)") \in Cell /\ Op("(?branch)") \in Cell /\ Op("leave") \in Cell
      /\ Op("(semicolon)") \in Cell
  BY <1>0 DEF Ops
<1>b. \A v : Op(v).op = v
  BY DEF Op
<1> HIDE DEF Ops, Op, Offset, Cell
<1>1. CASE w = "do"
  <2> DEFINE r == <<Op("push"), Op("push"), Op("(do)"), Offset(d)>>
             c == <<"push", "push", "(do)", "offset">>
  <2>1. RowOf(w, d) = r /\ Cells(w) = c /\ OffPos(w) = 4
    BY <1>1 DEF RowOf, Cells, OffPos
  <2>2. r \in Seq(Cell) /\ Len(r) = 4 /\ Len(c) = 4
    BY <1>0, <1>a
  <2>3. c[1] = "push" /\ c[2] = "push" /\ c[3] = "(do)" /\ c[4] = "offset"
    OBVIOUS
  <2>4. r[1] = Op("push") /\ r[2] = Op("push") /\ r[3] = Op("(do)") /\ r[4] = Offset(d)
    OBVIOUS
  <2> HIDE DEF r, c
  <2>5. r[1].op = c[1] /\ r[2].op = c[2] /\ r[3].op = c[3] /\ r[4].op = c[4]
    BY <2>3, <2>4, <1>0, <1>b
  <2>6. OffPos(w) > 0 => r[OffPos(w)].offset = d
    BY <2>1, <2>4, <1>0
  <2>7. Width(w) = 4
    BY <2>1, <2>2 DEF Width
  <2>8. \A i \in 1..4 : i = 1 \/ i = 2 \/ i = 3 \/ i = 4
    OBVIOUS
  <2>9. \A i \in 1..4 : r[i].op = c[i]
    BY <2>5, <2>8
  <2> QED  BY <2>1, <2>2, <2>6, <2>7, <2>9 DEF IsRow
<1>2. CASE w = "?do"
  <2> DEFINE r == <<Op("push"), Op("push"), Op("(?do)"), Offset(d)>>
             c == <<"push", "push", "(?do)", "offset">>
  <2>1. RowOf(w, d) = r /\ Cells(w) = c /\ OffPos(w) = 4
    BY <1>2 DEF RowOf, Cells, OffPos
  <2>2. r \in Seq(Cell) /\ Len(r) = 4 /\ Len(c) = 4
    BY <1>0, <1>a
  <2>3. c[1] = "push" /\ c[2] = "push" /\ c[3] = "(?do)" /\ c[4] = "offset"
    OBVIOUS
  <2>4. r[1] = Op("push") /\ r[2] = Op("push") /\ r[3] = Op("(?do)") /\ r[4] = Offset(d)
    OBVIOUS
  <2> HIDE DEF r, c
  <2>5. r[1].op = c[1] /\ r[2].op = c[2] /\ r[3].op = c[3] /\ r[4].op = c[4]
    BY <2>3, <2>4, <1>0, <1>b
  <2>6. OffPos(w) > 0 => r[OffPos(w)].offset = d
    BY <2>1, <2>4, <1>0
  <2>7. Width(w) = 4
    BY <2>1, <2>2 DEF Width
  <2>8. \A i \in 1..4 : i = 1 \/ i = 2 \/ i = 3 \/ i = 4
    OBVIOUS
  <2>9. \A i \in 1..4 : r[i].op = c[i]
    BY <2>5, <2>8
  <2> QED  BY <2>1, <2>2, <2>6, <2>7, <2>9 DEF IsRow
<1>3. CASE w = "loop"
  <2> DEFINE r == <<Op("(loop)"), Offset(d)>>
             c == <<"(loop)", "offset">>
  <2>1. RowOf(w, d) = r /\ Cells(w) = c /\ OffPos(w) = 2
    BY <1>3 DEF RowOf, Cells, OffPos
  <2>2. r \in Seq(Cell) /\ Len(r) = 2 /\ Len(c) = 2
    BY <1>0, <1>a
  <2>3. c[1] = "(loop)" /\ c[2] = "offset"
    OBVIOUS
  <2>4. r[1] = Op("(loop)") /\ r[2] = Offset(d)
    OBVIOUS
  <2> HIDE DEF r, c
  <2>5. r[1].op = c[1] /\ r[2].op = c[2]
    BY <2>3, <2>4, <1>0, <1>b
  <2>6. OffPos(w) > 0 => r[OffPos(w)].offset = d
    BY <2>1, <2>4, <1>0
  <2>7. Width(w) = 2
    BY <2>1, <2>2 DEF Width
  <2>8. \A i \in 1..2 : i = 1 \/ i = 2
    OBVIOUS
  <2>9. \A i \in 1..2 : r[i].op = c[i]
    BY <2>5, <2>8
  <2> QED  BY <2>1, <2>2, <2>6, <2>7, <2>9 DEF IsRow
<1>4. CASE w = "+loop"
  <2> DEFINE r == <<Op("push"), Op("(+loop)"), Offset(d)>>
             c == <<"push", "(+loop)", "offset">>
  <2>1. RowOf(w, d) = r /\ Cells(w) = c /\ OffPos(w) = 3
    BY <1>4 DEF RowOf, Cells, OffPos
  <2>2. r \in Seq(Cell) /\ Len(r) = 3 /\ Len(c) = 3
    BY <1>0, <1>a
  <2>3. c[1] = "push" /\ c[2] = "(+loop)" /\ c[3] = "offset"
    OBVIOUS
  <2>4. r[1] = Op("push") /\ r[2] = Op("(+loop)") /\ r[3] = Offset(d)
    OBVIOUS
  <2> HIDE DEF r, c
  <2>5. r[1].op = c[1] /\ r[2].op = c[2] /\ r[3].op = c[3]
    BY <2>3, <2>4, <1>0, <1>b
  <2>6. OffPos(w) > 0 => r[OffPos(w)].offset = d
    BY <2>1, <2>4, <1>0
  <2>7. Width(w) = 3
    BY <2>1, <2>2 DEF Width
  <2>8. \A i \in 1..3 : i = 1 \/ i = 2 \/ i = 3
    OBVIOUS
  <2>9. \A i \in 1..3 : r[i].op = c[i]
    BY <2>5, <2>8
  <2> QED  BY <2>1, <2>2, <2>6, <2>7, <2>9 DEF IsRow
<1>5. CASE w \in {"if", "until", "while"}
  <2> DEFINE r == <<Op("push"), Op("(?branch)"), Offset(d)>>
             c == <<"push", "(?branch)", "offset">>
  <2>1. RowOf(w, d) = r /\ Cells(w) = c /\ OffPos(w) = 3
    BY <1>5 DEF RowOf, Cells, OffPos
  <2>2. r \in Seq(Cell) /\ Len(r) = 3 /\ Len(c) = 3
    BY <1>0, <1>a
  <2>3. c[1] = "push" /\ c[2] = "(?branch)" /\ c[3] = "offset"
    OBVIOUS
  <2>4. r[1] = Op("push") /\ r[2] = Op("(?branch)") /\ r[3] = Offset(d)
    OBVIOUS
  <2> HIDE DEF r, c
  <2>5. r[1].op = c[1] /\ r[2].op = c[2] /\ r[3].op = c[3]
    BY <2>3, <2>4, <1>0, <1>b
  <2>6. OffPos(w) > 0 => r[OffPos(w)].offset = d
    BY <2>1, <2>4, <1>0
  <2>7. Width(w) = 3
    BY <2>1, <2>2 DEF Width
  <2>8. \A i \in 1..3 : i = 1 \/ i = 2 \/ i = 3
    OBVIOUS
  <2>9. \A i \in 1..3 : r[i].op = c[i]
    BY <2>5, <2>8
  <2> QED  BY <2>1, <2>2, <2>6, <2>7, <2>9 DEF IsRow
<1>6. CASE w = "case"
  <2> DEFINE r == <<Op("push")>>
             c == <<"push">>
  <2>1. RowOf(w, d) = r /\ Cells(w) = c /\ OffPos(w) = 0
    BY <1>6 DEF RowOf, Cells, OffPos
  <2>2. r \in Seq(Cell) /\ Len(r) = 1 /\ Len(c) = 1
    BY <1>0, <1>a
  <2>3. c[1] = "push"
    OBVIOUS
  <2>4. r[1] = Op("push")
    OBVIOUS
  <2> HIDE DEF r, c
  <2>5. r[1].op = c[1]
    BY <2>3, <2>4, <1>0, <1>b
  <2>6. OffPos(w) > 0 => r[OffPos(w)].offset = d
    BY <2>1, <2>4, <1>0
  <2>7. Width(w) = 1
    BY <2>1, <2>2 DEF Width
  <2>8. \A i \in 1..1 : i = 1
    OBVIOUS
  <2>9. \A i \in 1..1 : r[i].op = c[i]
    BY <2>5, <2>8
  <2> QED  BY <2>1, <2>2, <2>6, <2>7, <2>9 DEF IsRow
<1>7. CASE w = "of"
  <2> DEFINE r == <<Op("push"), Op("over"), Op("="), Op("(?branch)"), Offset(d), Op("drop")>>
             c == <<"push", "over", "=", "(?branch)", "offset", "drop">>
  <2>1. RowOf(w, d) = r /\ Cells(w) = c /\ OffPos(w) = 5
    BY <1>7 DEF RowOf, Cells, OffPos
  <2>2. r \in Seq(Cell) /\ Len(r) = 6 /\ Len(c) = 6
    BY <1>0, <1>a
  <2>3. c[1] = "push" /\ c[2] = "over" /\ c[3] = "=" /\ c[4] = "(?branch)" /\ c[5] = "offset" /\ c[6] = "drop"
    OBVIOUS
  <2>4. r[1] = Op("push") /\ r[2] = Op("over") /\ r[3] = Op("=") /\ r[4] = Op("(?branch)") /\ r[5] = Offset(d) /\ r[6] = Op("drop")
    OBVIOUS
  <2> HIDE DEF r, c
  <2>5. r[1].op = c[1] /\ r[2].op = c[2] /\ r[3].op = c[3] /\ r[4].op = c[4] /\ r[5].op = c[5] /\ r[6].op = c[6]
    BY <2>3, <2>4, <1>0, <1>b
  <2>6. OffPos(w) > 0 => r[OffPos(w)].offset = d
    BY <2>1, <2>4, <1>0
  <2>7. Width(w) = 6
    BY <2>1, <2>2 DEF Width
  <2>8. \A i \in 1..6 : i = 1 \/ i = 2 \/ i = 3 \/ i = 4 \/ i = 5 \/ i = 6
    OBVIOUS
  <2>9. \A i \in 1..6 : r[i].op = c[i]
    BY <2>5, <2>8
  <2> QED  BY <2>1, <2>2, <2>6, <2>7, <2>9 DEF IsRow
<1>8. CASE w = "endcase"
  <2> DEFINE r == <<Op("drop")>>
             c == <<"drop">>
  <2>1. RowOf(w, d) = r /\ Cells(w) = c /\ OffPos(w) = 0
    BY <1>8 DEF RowOf, Cells, OffPos
  <2>2. r \in Seq(Cell) /\ Len(r) = 1 /\ Len(c) = 1
    BY <1>0, <1>a
  <2>3. c[1] = "drop"
    OBVIOUS
  <2>4. r[1] = Op("drop")
    OBVIOUS
  <2> HIDE DEF r, c
  <2>5. r[1].op = c[1]
    BY <2>3, <2>4, <1>0, <1>b
  <2>6. OffPos(w) > 0 => r[OffPos(w)].offset = d
    BY <2>1, <2>4, <1>0
  <2>7. Width(w) = 1
    BY <2>1, <2>2 DEF Width
  <2>8. \A i \in 1..1 : i = 1
    OBVIOUS
  <2>9. \A i \in 1..1 : r[i].op = c[i]
    BY <2>5, <2>8
  <2> QED  BY <2>1, <2>2, <2>6, <2>7, <2>9 DEF IsRow
<1>9. CASE w \in {"else", "endof", "repeat", "again", "tail-recurse"}
  <2> DEFINE r == <<Op("(branch)"), Offset(d)>>
             c == <<"(branch)", "offset">>
  <2>1. RowOf(w, d) = r /\ Cells(w) = c /\ OffPos(w) = 2
    BY <1>9 DEF RowOf, Cells, OffPos
  <2>2. r \in Seq(Cell) /\ Len(r) = 2 /\ Len(c) = 2
    BY <1>0, <1>a
  <2>3. c[1] = "(branch)" /\ c[2] = "offset"
    OBVIOUS
  <2>4. r[1] = Op("(branch)") /\ r[2] = Offset(d)
    OBVIOUS
  <2> HIDE DEF r, c
  <2>5. r[1].op = c[1] /\ r[2].op = c[2]
    BY <2>3, <2>4, <1>0, <1>b
  <2>6. OffPos(w) > 0 => r[OffPos(w)].offset = d
    BY <2>1, <2>4, <1>0
  <2>7. Width(w) = 2
    BY <2>1, <2>2 DEF Width
  <2>8. \A i \in 1..2 : i = 1 \/ i = 2
    OBVIOUS
  <2>9. \A i \in 1..2 : r[i].op = c[i]
    BY <2>5, <2>8
  <2> QED  BY <2>1, <2>2, <2>6, <2>7, <2>9 DEF IsRow
<1>10. CASE w = "leave"
  <2> DEFINE r == <<Op("leave")>>
             c == <<"leave">>
  <2>1. RowOf(w, d) = r /\ Cells(w) = c /\ OffPos(w) = 0
    BY <1>10 DEF RowOf, Cells, OffPos
  <2>2. r \in Seq(Cell) /\ Len(r) = 1 /\ Len(c) = 1
    BY <1>0, <1>a
  <2>3. c[1] = "leave"
    OBVIOUS
  <2>4. r[1] = Op("leave")
    OBVIOUS
  <2> HIDE DEF r, c
  <2>5. r[1].op = c[1]
    BY <2>3, <2>4, <1>0, <1>b
  <2>6. OffPos(w) > 0 => r[OffPos(w)].offset = d
    BY <2>1, <2>4, <1>0
  <2>7. Width(w) = 1
    BY <2>1, <2>2 DEF Width
  <2>8. \A i \in 1..1 : i = 1
    OBVIOUS
  <2>9. \A i \in 1..1 : r[i].op = c[i]
    BY <2>5, <2>8
  <2> QED  BY <2>1, <2>2, <2>6, <2>7, <2>9 DEF IsRow
<1>11. CASE w \in {"exit", "semicolon"}
  <2> DEFINE r == <<Op("(semicolon)")>>
             c == <<"(semicolon)">>
  <2>1. RowOf(w, d) = r /\ Cells(w) = c /\ OffPos(w) = 0
    BY <1>11 DEF RowOf, Cells, OffPos
  <2>2. r \in Seq(Cell) /\ Len(r) = 1 /\ Len(c) = 1
    BY <1>0, <1>a
  <2>3. c[1] = "(semicolon)"
    OBVIOUS
  <2>4. r[1] = Op("(semicolon)")
    OBVIOUS
  <2> HIDE DEF r, c
  <2>5. r[1].op = c[1]
    BY <2>3, <2>4, <1>0, <1>b
  <2>6. OffPos(w) > 0 => r[OffPos(w)].offset = d
    BY <2>1, <2>4, <1>0
  <2>7. Width(w) = 1
    BY <2>1, <2>2 DEF Width
  <2>8. \A i \in 1..1 : i = 1
    OBVIOUS
  <2>9. \A i \in 1..1 : r[i].op = c[i]
    BY <2>5, <2>8
  <2> QED  BY <2>1, <2>2, <2>6, <2>7, <2>9 DEF IsRow
<1>12. CASE w \in {"then", "begin"}
  <2> DEFINE r == <<>>
             c == <<>>
  <2>1. RowOf(w, d) = r /\ Cells(w) = c /\ OffPos(w) = 0
    BY <1>12 DEF RowOf, Cells, OffPos
  <2>2. r \in Seq(Cell) /\ Len(r) = 0 /\ Len(c) = 0
    OBVIOUS
  <2> HIDE DEF r, c
  <2>3. Width(w) = 0
    BY <2>1, <2>2 DEF Width
  <2> QED  BY <2>1, <2>2, <2>3 DEF IsRow
<1> QED  BY <1>1, <1>2, <1>3, <1>4, <1>5, <1>6, <1>7, <1>8, <1>9, <1>10, <1>11, <1>12
         DEF Words, Openers, Checked, Plain

(* What a word makes of the code: its row behind it, and the offsets at the *)
(* marks resolved.                                                          *)
Grown(C, w, marks, d, D) ==
  /\ D \in Seq(Cell) /\ Len(D) = Len(C) + Width(w)
  /\ \A i \in 1..Len(C) : D[i] = IF i \in marks THEN [op |-> C[i].op, offset |-> (Len(D) + 1) - i]
                                 ELSE C[i]
  /\ \A i \in 1..Width(w) : D[Len(C) + i].op = Cells(w)[i]
  /\ OffPos(w) > 0 => D[Len(C) + OffPos(w)].offset = d

(* The code of a word put behind the code, nothing resolved. *)
LEMMA GrownRow ==
  ASSUME NEW C \in Seq(Cell), NEW w \in Words, NEW d \in Int
  PROVE  Grown(C, w, {}, d, C \o RowOf(w, d))
<1> DEFINE r == RowOf(w, d) D == C \o r
<1>1. /\ r \in Seq(Cell) /\ Len(r) = Width(w)
      /\ \A i \in 1..Width(w) : r[i].op = Cells(w)[i]
      /\ OffPos(w) > 0 => r[OffPos(w)].offset = d
  BY RowIs DEF IsRow
<1>2. Width(w) \in Nat /\ OffPos(w) \in 0..Width(w) /\ Len(C) \in Nat
  BY CellsOfWord
<1> HIDE DEF r
<1>3. /\ D \in Seq(Cell) /\ Len(D) = Len(C) + Width(w)
      /\ \A i \in 1..Len(C) : D[i] = C[i]
      /\ \A i \in 1..Width(w) : D[Len(C) + i] = r[i]
  BY <1>1, <1>2
<1> HIDE DEF D
<1>4. OffPos(w) > 0 => OffPos(w) \in 1..Width(w)
  BY <1>2
<1>5. Grown(C, w, {}, d, D)
  BY <1>1, <1>3, <1>4 DEF Grown
<1> QED  BY <1>5 DEF D, r

(* One more offset resolved to the end of the new code. *)
LEMMA GrownResolve ==
  ASSUME NEW C \in Seq(Cell), NEW w \in Words, NEW marks, NEW d, NEW D, Grown(C, w, marks, d, D),
         NEW p \in 1..Len(C), p \notin marks
  PROVE  Grown(C, w, marks \cup {p}, d, [D EXCEPT ![p].offset = (Len(D) + 1) - p])
<1>1. /\ D \in Seq(Cell) /\ Len(D) = Len(C) + Width(w)
      /\ \A i \in 1..Len(C) : D[i] = IF i \in marks THEN [op |-> C[i].op, offset |-> (Len(D) + 1) - i]
                                     ELSE C[i]
      /\ \A i \in 1..Width(w) : D[Len(C) + i].op = Cells(w)[i]
      /\ OffPos(w) > 0 => D[Len(C) + OffPos(w)].offset = d
  BY DEF Grown
<1>2. Width(w) \in Nat /\ OffPos(w) \in 0..Width(w) /\ Len(C) \in Nat
  BY CellsOfWord
<1> DEFINE v == (Len(D) + 1) - p
           E == [D EXCEPT ![p].offset = v]
<1>3. v \in Int /\ p \in 1..Len(D) /\ p \in DOMAIN D /\ D[p] \in Cell
  BY <1>1, <1>2
<1>4. [D[p] EXCEPT !.offset = v] = [op |-> D[p].op, offset |-> v]
      /\ [op |-> D[p].op, offset |-> v] \in Cell
  BY <1>3 DEF Cell
<1> HIDE DEF v
<1>5. E = [D EXCEPT ![p] = [op |-> D[p].op, offset |-> v]]
  BY <1>4
<1>6. /\ E \in Seq(Cell) /\ Len(E) = Len(D)
      /\ E[p] = [op |-> D[p].op, offset |-> v]
      /\ \A i \in 1..Len(D) : i # p => E[i] = D[i]
  <2> DEFINE x == [op |-> D[p].op, offset |-> v]
  <2>1. x \in Cell
    BY <1>4
  <2> HIDE DEF x
  <2>2. LET F == [D EXCEPT ![p] = x]
        IN  /\ F \in Seq(Cell) /\ Len(F) = Len(D) /\ F[p] = x
            /\ \A i \in 1..Len(D) : i # p => F[i] = D[i]
    BY <2>1, <1>1, <1>3
  <2> QED  BY <2>2, <1>5 DEF x
<1> HIDE DEF E
<1>7. D[p] = C[p]
  BY <1>1
<1>8. \A i \in 1..Len(C) : E[i] = IF i \in marks \cup {p} THEN [op |-> C[i].op, offset |-> (Len(E) + 1) - i]
                                     ELSE C[i]
  <2> TAKE i \in 1..Len(C)
  <2>1. i \in 1..Len(D)
    BY <1>1, <1>2
  <2>2. CASE i = p
    BY <2>2, <1>6, <1>7 DEF v
  <2>3. CASE i # p
    BY <2>1, <2>3, <1>1, <1>6
  <2> QED  BY <2>2, <2>3
<1>9. \A i \in 1..Width(w) : E[Len(C) + i] = D[Len(C) + i]
  <2> TAKE i \in 1..Width(w)
  <2>1. Len(C) + i \in 1..Len(D) /\ Len(C) + i # p
    BY <1>1, <1>2
  <2> QED  BY <2>1, <1>6
<1>10. OffPos(w) > 0 => OffPos(w) \in 1..Width(w)
  BY <1>2
<1>11. Grown(C, w, marks \cup {p}, d, E)
  BY <1>1, <1>6, <1>8, <1>9, <1>10 DEF Grown
<1> QED  BY <1>11 DEF E, v

(* Rows behind one another. *)
Cat(C, r) == C \o r

(* Length and cells of two rows joined. *)
LEMMA CatProperties ==
  ASSUME NEW T, NEW C \in Seq(T), NEW r \in Seq(T)
  PROVE  /\ Cat(C, r) \in Seq(T) /\ Len(Cat(C, r)) = Len(C) + Len(r)
         /\ \A i \in 1..Len(C) + Len(r) : Cat(C, r)[i] = IF i <= Len(C) THEN C[i] ELSE r[i - Len(C)]
         /\ Len(C) \in Nat /\ Len(r) \in Nat
<1>1. /\ C \o r \in Seq(T) /\ Len(C \o r) = Len(C) + Len(r)
      /\ \A i \in 1..Len(C) + Len(r) : (C \o r)[i] = IF i <= Len(C) THEN C[i] ELSE r[i - Len(C)]
  BY ConcatProperties
<1>2. Len(C) \in Nat /\ Len(r) \in Nat
  OBVIOUS
<1> QED  BY <1>1, <1>2 DEF Cat

(* The empty row adds nothing. *)
LEMMA CatEmpty == ASSUME NEW T, NEW C \in Seq(T) PROVE Cat(C, <<>>) = C
  BY ConcatEmptySeq DEF Cat

\* The row r is the row p with the row q behind it.
Joined(T, p, q, r) ==
  /\ p \in Seq(T) /\ q \in Seq(T) /\ r \in Seq(T) /\ Len(r) = Len(p) + Len(q)
  /\ \A i \in 1..Len(p) : r[i] = p[i]
  /\ \A i \in 1..Len(q) : r[Len(p) + i] = q[i]

(* Rows joined one by one are joined as one. *)
LEMMA CatJoins ==
  ASSUME NEW T, NEW C \in Seq(T), NEW p, NEW q, NEW r, Joined(T, p, q, r)
  PROVE  Cat(Cat(C, p), q) = Cat(C, r)
<1>0. /\ p \in Seq(T) /\ q \in Seq(T) /\ r \in Seq(T) /\ Len(r) = Len(p) + Len(q)
      /\ \A i \in 1..Len(p) : r[i] = p[i]
      /\ \A i \in 1..Len(q) : r[Len(p) + i] = q[i]
  BY DEF Joined
<1> USE <1>0
<1> DEFINE a == Cat(C, p) b == Cat(a, q) c == Cat(C, r)
<1>1. /\ a \in Seq(T) /\ Len(a) = Len(C) + Len(p) /\ Len(C) \in Nat /\ Len(p) \in Nat
      /\ \A i \in 1..Len(C) + Len(p) : a[i] = IF i <= Len(C) THEN C[i] ELSE p[i - Len(C)]
  BY CatProperties
<1> HIDE DEF a
<1>2. /\ b \in Seq(T) /\ Len(b) = Len(a) + Len(q) /\ Len(q) \in Nat
      /\ \A i \in 1..Len(a) + Len(q) : b[i] = IF i <= Len(a) THEN a[i] ELSE q[i - Len(a)]
  BY <1>1, CatProperties
<1>3. /\ c \in Seq(T) /\ Len(c) = Len(C) + Len(r)
      /\ \A i \in 1..Len(C) + Len(r) : c[i] = IF i <= Len(C) THEN C[i] ELSE r[i - Len(C)]
      /\ Len(C) \in Nat /\ Len(r) \in Nat
  BY CatProperties
<1> HIDE DEF b, c
<1>4. Len(b) = Len(c)
  BY <1>1, <1>2, <1>3
<1>5. ASSUME NEW i \in 1..Len(b) PROVE b[i] = c[i]
  <2>0. i \in 1..Len(C) + Len(r) /\ i \in 1..Len(a) + Len(q) /\ i \in Nat
    BY <1>1, <1>2, <1>3
  <2>1. CASE i <= Len(C)
    <3>1. b[i] = a[i] /\ c[i] = C[i]
      BY <2>0, <2>1, <1>1, <1>2, <1>3
    <3>2. i \in 1..Len(C) + Len(p)
      BY <2>0, <2>1, <1>1
    <3>3. a[i] = C[i]
      BY <2>1, <3>2, <1>1
    <3> QED  BY <3>1, <3>3
  <2>2. CASE i > Len(C) /\ i <= Len(a)
    <3>1. b[i] = p[i - Len(C)] /\ c[i] = r[i - Len(C)]
      BY <2>0, <2>2, <1>1, <1>2, <1>3
    <3>2. i - Len(C) \in 1..Len(p)
      BY <2>0, <2>2, <1>1
    <3> QED  BY <3>1, <3>2
  <2>3. CASE i > Len(a)
    <3>1. b[i] = q[i - Len(a)] /\ c[i] = r[i - Len(C)]
      BY <2>0, <2>3, <1>1, <1>2, <1>3
    <3>2. i - Len(a) \in 1..Len(q) /\ i - Len(C) = Len(p) + (i - Len(a))
      BY <2>0, <2>3, <1>1, <1>2
    <3> DEFINE k == i - Len(a)
    <3>3. r[Len(p) + k] = q[k]
      BY <3>2
    <3> HIDE DEF k
    <3>4. r[i - Len(C)] = r[Len(p) + k]
      BY <3>2 DEF k
    <3> QED  BY <3>1, <3>3, <3>4 DEF k
  <2> QED  BY <2>0, <2>1, <2>2, <2>3, <1>1
<1>6. b = c
  BY <1>2, <1>3, <1>4, <1>5, SeqEqual
<1> QED  BY <1>6 DEF a, b, c

(* A row of one cell. *)
LEMMA Row1 ==
  ASSUME NEW T, NEW C \in Seq(T), NEW a \in T
  PROVE  <<a>> \in Seq(T) /\ Cat(C, <<a>>) \in Seq(T) /\ Len(Cat(C, <<a>>)) = Len(C) + 1
<1> DEFINE r == <<a>>
<1>1. r \in Seq(T) /\ Len(r) = 1 /\ r[1] = a
  OBVIOUS
<1> HIDE DEF r
<1>c. /\ Cat(C, r) \in Seq(T) /\ Len(Cat(C, r)) = Len(C) + Len(r)
      /\ \A i \in 1..Len(C) + Len(r) : Cat(C, r)[i] = IF i <= Len(C) THEN C[i] ELSE r[i - Len(C)]
      /\ Len(C) \in Nat /\ Len(r) \in Nat
  BY <1>1, CatProperties
<1>4. Cat(C, r) \in Seq(T) /\ Len(Cat(C, r)) = Len(C) + 1
  BY <1>1, <1>c
<1> QED  BY <1>1, <1>4 DEF r

(* A row of two cells. *)
LEMMA Row2 ==
  ASSUME NEW T, NEW C \in Seq(T), NEW a \in T, NEW b \in T
  PROVE  <<a, b>> \in Seq(T) /\ Cat(C, <<a, b>>) \in Seq(T) /\ Len(Cat(C, <<a, b>>)) = Len(C) + 2
         /\ Cat(Cat(C, <<a>>), <<b>>) = Cat(C, <<a, b>>)
<1> DEFINE r == <<a, b>>
<1>1. r \in Seq(T) /\ Len(r) = 2 /\ r[1] = a /\ r[2] = b
  OBVIOUS
<1> DEFINE p == <<a>>
           q == <<b>>
<1>2. p \in Seq(T) /\ Len(p) = 1 /\ p[1] = a
  OBVIOUS
<1>3. q \in Seq(T) /\ Len(q) = 1 /\ q[1] = b
  OBVIOUS
<1> HIDE DEF p, q
<1> HIDE DEF r
<1>c. /\ Cat(C, r) \in Seq(T) /\ Len(Cat(C, r)) = Len(C) + Len(r)
      /\ \A i \in 1..Len(C) + Len(r) : Cat(C, r)[i] = IF i <= Len(C) THEN C[i] ELSE r[i - Len(C)]
      /\ Len(C) \in Nat /\ Len(r) \in Nat
  BY <1>1, CatProperties
<1>4. Cat(C, r) \in Seq(T) /\ Len(Cat(C, r)) = Len(C) + 2
  BY <1>1, <1>c
<1>5. Joined(T, p, q, r)
  BY <1>1, <1>2, <1>3 DEF Joined
<1>6. Cat(Cat(C, p), q) = Cat(C, r)
  BY <1>5, CatJoins
<1> QED  BY <1>1, <1>4, <1>6 DEF p, q, r

(* A row of three cells. *)
LEMMA Row3 ==
  ASSUME NEW T, NEW C \in Seq(T), NEW a \in T, NEW b \in T, NEW c \in T
  PROVE  <<a, b, c>> \in Seq(T) /\ Cat(C, <<a, b, c>>) \in Seq(T) /\ Len(Cat(C, <<a, b, c>>)) = Len(C) + 3
         /\ Cat(Cat(C, <<a, b>>), <<c>>) = Cat(C, <<a, b, c>>)
<1> DEFINE r == <<a, b, c>>
<1>1. r \in Seq(T) /\ Len(r) = 3 /\ r[1] = a /\ r[2] = b /\ r[3] = c
  OBVIOUS
<1> DEFINE p == <<a, b>>
           q == <<c>>
<1>2. p \in Seq(T) /\ Len(p) = 2 /\ p[1] = a /\ p[2] = b
  OBVIOUS
<1>3. q \in Seq(T) /\ Len(q) = 1 /\ q[1] = c
  OBVIOUS
<1> HIDE DEF p, q
<1> HIDE DEF r
<1>c. /\ Cat(C, r) \in Seq(T) /\ Len(Cat(C, r)) = Len(C) + Len(r)
      /\ \A i \in 1..Len(C) + Len(r) : Cat(C, r)[i] = IF i <= Len(C) THEN C[i] ELSE r[i - Len(C)]
      /\ Len(C) \in Nat /\ Len(r) \in Nat
  BY <1>1, CatProperties
<1>4. Cat(C, r) \in Seq(T) /\ Len(Cat(C, r)) = Len(C) + 3
  BY <1>1, <1>c
<1>5. Joined(T, p, q, r)
  BY <1>1, <1>2, <1>3 DEF Joined
<1>6. Cat(Cat(C, p), q) = Cat(C, r)
  BY <1>5, CatJoins
<1> QED  BY <1>1, <1>4, <1>6 DEF p, q, r

(* A row of four cells. *)
LEMMA Row4 ==
  ASSUME NEW T, NEW C \in Seq(T), NEW a \in T, NEW b \in T, NEW c \in T, NEW d \in T
  PROVE  <<a, b, c, d>> \in Seq(T) /\ Cat(C, <<a, b, c, d>>) \in Seq(T) /\ Len(Cat(C, <<a, b, c, d>>)) = Len(C) + 4
         /\ Cat(Cat(C, <<a, b, c>>), <<d>>) = Cat(C, <<a, b, c, d>>)
<1> DEFINE r == <<a, b, c, d>>
<1>1. r \in Seq(T) /\ Len(r) = 4 /\ r[1] = a /\ r[2] = b /\ r[3] = c /\ r[4] = d
  OBVIOUS
<1> DEFINE p == <<a, b, c>>
           q == <<d>>
<1>2. p \in Seq(T) /\ Len(p) = 3 /\ p[1] = a /\ p[2] = b /\ p[3] = c
  OBVIOUS
<1>3. q \in Seq(T) /\ Len(q) = 1 /\ q[1] = d
  OBVIOUS
<1> HIDE DEF p, q
<1> HIDE DEF r
<1>c. /\ Cat(C, r) \in Seq(T) /\ Len(Cat(C, r)) = Len(C) + Len(r)
      /\ \A i \in 1..Len(C) + Len(r) : Cat(C, r)[i] = IF i <= Len(C) THEN C[i] ELSE r[i - Len(C)]
      /\ Len(C) \in Nat /\ Len(r) \in Nat
  BY <1>1, CatProperties
<1>4. Cat(C, r) \in Seq(T) /\ Len(Cat(C, r)) = Len(C) + 4
  BY <1>1, <1>c
<1>5. Joined(T, p, q, r)
  BY <1>1, <1>2, <1>3 DEF Joined
<1>6. Cat(Cat(C, p), q) = Cat(C, r)
  BY <1>5, CatJoins
<1> QED  BY <1>1, <1>4, <1>6 DEF p, q, r

(* A row of five cells. *)
LEMMA Row5 ==
  ASSUME NEW T, NEW C \in Seq(T), NEW a \in T, NEW b \in T, NEW c \in T, NEW d \in T, NEW e \in T
  PROVE  <<a, b, c, d, e>> \in Seq(T) /\ Cat(C, <<a, b, c, d, e>>) \in Seq(T) /\ Len(Cat(C, <<a, b, c, d, e>>)) = Len(C) + 5
         /\ Cat(Cat(C, <<a, b, c, d>>), <<e>>) = Cat(C, <<a, b, c, d, e>>)
<1> DEFINE r == <<a, b, c, d, e>>
<1>1. r \in Seq(T) /\ Len(r) = 5 /\ r[1] = a /\ r[2] = b /\ r[3] = c /\ r[4] = d /\ r[5] = e
  OBVIOUS
<1> DEFINE p == <<a, b, c, d>>
           q == <<e>>
<1>2. p \in Seq(T) /\ Len(p) = 4 /\ p[1] = a /\ p[2] = b /\ p[3] = c /\ p[4] = d
  OBVIOUS
<1>3. q \in Seq(T) /\ Len(q) = 1 /\ q[1] = e
  OBVIOUS
<1> HIDE DEF p, q
<1> HIDE DEF r
<1>c. /\ Cat(C, r) \in Seq(T) /\ Len(Cat(C, r)) = Len(C) + Len(r)
      /\ \A i \in 1..Len(C) + Len(r) : Cat(C, r)[i] = IF i <= Len(C) THEN C[i] ELSE r[i - Len(C)]
      /\ Len(C) \in Nat /\ Len(r) \in Nat
  BY <1>1, CatProperties
<1>4. Cat(C, r) \in Seq(T) /\ Len(Cat(C, r)) = Len(C) + 5
  BY <1>1, <1>c
<1>5. Joined(T, p, q, r)
  BY <1>1, <1>2, <1>3 DEF Joined
<1>6. Cat(Cat(C, p), q) = Cat(C, r)
  BY <1>5, CatJoins
<1> QED  BY <1>1, <1>4, <1>6 DEF p, q, r

(* A row of six cells. *)
LEMMA Row6 ==
  ASSUME NEW T, NEW C \in Seq(T), NEW a \in T, NEW b \in T, NEW c \in T, NEW d \in T, NEW e \in T, NEW f \in T
  PROVE  <<a, b, c, d, e, f>> \in Seq(T) /\ Cat(C, <<a, b, c, d, e, f>>) \in Seq(T) /\ Len(Cat(C, <<a, b, c, d, e, f>>)) = Len(C) + 6
         /\ Cat(Cat(C, <<a, b, c, d, e>>), <<f>>) = Cat(C, <<a, b, c, d, e, f>>)
<1> DEFINE r == <<a, b, c, d, e, f>>
<1>1. r \in Seq(T) /\ Len(r) = 6 /\ r[1] = a /\ r[2] = b /\ r[3] = c /\ r[4] = d /\ r[5] = e /\ r[6] = f
  OBVIOUS
<1> DEFINE p == <<a, b, c, d, e>>
           q == <<f>>
<1>2. p \in Seq(T) /\ Len(p) = 5 /\ p[1] = a /\ p[2] = b /\ p[3] = c /\ p[4] = d /\ p[5] = e
  OBVIOUS
<1>3. q \in Seq(T) /\ Len(q) = 1 /\ q[1] = f
  OBVIOUS
<1> HIDE DEF p, q
<1> HIDE DEF r
<1>c. /\ Cat(C, r) \in Seq(T) /\ Len(Cat(C, r)) = Len(C) + Len(r)
      /\ \A i \in 1..Len(C) + Len(r) : Cat(C, r)[i] = IF i <= Len(C) THEN C[i] ELSE r[i - Len(C)]
      /\ Len(C) \in Nat /\ Len(r) \in Nat
  BY <1>1, CatProperties
<1>4. Cat(C, r) \in Seq(T) /\ Len(Cat(C, r)) = Len(C) + 6
  BY <1>1, <1>c
<1>5. Joined(T, p, q, r)
  BY <1>1, <1>2, <1>3 DEF Joined
<1>6. Cat(Cat(C, p), q) = Cat(C, r)
  BY <1>5, CatJoins
<1> QED  BY <1>1, <1>4, <1>6 DEF p, q, r

(* The instructions are cells. *)
LEMMA OpTypes ==
  /\ Op("push") \in Cell /\ Op("over") \in Cell /\ Op("=") \in Cell /\ Op("drop") \in Cell
  /\ Op("(do)") \in Cell /\ Op("(?do)") \in Cell /\ Op("(loop)") \in Cell /\ Op("(+loop)") \in Cell
  /\ Op("(branch)") \in Cell /\ Op("(?branch)") \in Cell /\ Op("leave") \in Cell
  /\ Op("(semicolon)") \in Cell
<1>1. \A v \in Ops : Op(v) \in Cell
  BY CellTypes
<1> QED  BY <1>1 DEF Ops

(* The steps of the compiler. *)
LEMMA DoPushOn ==
  ASSUME NEW C, NEW u \in Seq(Mark), NEW x \in Mark
  PROVE  PushOn(Rec(C, u), x) = Rec(C, Cat(u, <<x>>))
<1>1. Append(u, x) = u \o <<x>>
  BY EndsOfRow
<1>2. Append(u, x) = Cat(u, <<x>>)
  BY <1>1 DEF Cat
<1>3. PushOn(Rec(C, u), x) = Rec(C, Append(u, x))
  BY RawPushOn
<1> QED  BY <1>2, <1>3

(* Pop, on a row. *)
LEMMA DoPop ==
  ASSUME NEW C, NEW u \in Seq(Mark), NEW x \in Mark
  PROVE  Pop(Rec(C, Cat(u, <<x>>))) = Rec(C, u)
<1>1. Front(u \o <<x>>) = u
  BY EndsOfRow
<1>2. Front(Cat(u, <<x>>)) = u
  BY <1>1 DEF Cat
<1>3. Pop(Rec(C, Cat(u, <<x>>))) = Rec(C, Front(Cat(u, <<x>>)))
  BY RawPop
<1> QED  BY <1>2, <1>3

(* Swap, on a row. *)
LEMMA DoSwap ==
  ASSUME NEW C \in Seq(Cell), NEW u \in Seq(Mark), NEW x \in Mark, NEW y \in Mark
  PROVE  Swap(Rec(C, Cat(u, <<x, y>>))) = Rec(C, Cat(u, <<y, x>>))
<1>1. Swap(Rec(C, u \o <<x, y>>)) = Rec(C, u \o <<y, x>>)
  BY PrimitivesAre
<1> QED  BY <1>1 DEF Cat

(* <mark, on a row. *)
LEMMA DoBackwardMark ==
  ASSUME NEW C \in Seq(Cell), NEW u \in Seq(Mark)
  PROVE  BackwardMark(Rec(C, u)) = Rec(C, Cat(u, <<Address(Len(C) + 1)>>))
<1>1. Len(C) + 1 \in Int
  OBVIOUS
<1>2. Address(Len(C) + 1) \in Mark
  BY <1>1, MarkTypes
<1>3. BackwardMark(Rec(C, u)) = Rec(C, u \o <<Address(Len(C) + 1)>>)
  BY <1>2, PrimitivesAre
<1> QED  BY <1>3 DEF Cat

(* >mark, on a row. *)
LEMMA DoForwardMark ==
  ASSUME NEW C \in Seq(Cell), NEW u \in Seq(Mark)
  PROVE  ForwardMark(Rec(C, u)) = Rec(Cat(C, <<Offset(0)>>), Cat(u, <<Address(Len(C) + 1)>>))
<1>1. Len(C) + 1 \in Int
  OBVIOUS
<1>2. Address(Len(C) + 1) \in Mark
  BY <1>1, MarkTypes
<1>3. ForwardMark(Rec(C, u)) = Rec(C \o <<Offset(0)>>, u \o <<Address(Len(C) + 1)>>)
  BY <1>2, PrimitivesAre
<1> QED  BY <1>3 DEF Cat

(* >resolve, on a row. *)
LEMMA DoForwardResolve ==
  ASSUME NEW C \in Seq(Cell), NEW u \in Seq(Mark), NEW a \in Int
  PROVE  ForwardResolve(Rec(C, Cat(u, <<Address(a)>>)))
           = Rec([C EXCEPT ![a].offset = (Len(C) + 1) - a], u)
<1>1. ForwardResolve(Rec(C, u \o <<Address(a)>>))
        = Rec([C EXCEPT ![a].offset = (Len(C) + 1) - a], u)
  BY ResolvesAre
<1>2. Cat(u, <<Address(a)>>) = u \o <<Address(a)>>
  BY DEF Cat
<1> QED  BY <1>1, <1>2, Zenon

(* <resolve, on a row. *)
LEMMA DoBackwardResolve ==
  ASSUME NEW C \in Seq(Cell), NEW u \in Seq(Mark), NEW a \in Int
  PROVE  BackwardResolve(Rec(C, Cat(u, <<Address(a)>>)))
           = Rec(Cat(C, <<Offset(a - (Len(C) + 1))>>), u)
<1>1. BackwardResolve(Rec(C, u \o <<Address(a)>>)) = Rec(C \o <<Offset(a - (Len(C) + 1))>>, u)
  BY ResolvesAre
<1>2. Cat(u, <<Address(a)>>) = u \o <<Address(a)>>
      /\ Cat(C, <<Offset(a - (Len(C) + 1))>>) = C \o <<Offset(a - (Len(C) + 1))>>
  BY DEF Cat
<1> QED  BY <1>1, <1>2, Zenon

(* One instruction compiled, on a row. *)
LEMMA DoThread1 ==
  ASSUME NEW C, NEW S, NEW a
  PROVE  Thread(Rec(C, S), <<a>>) = Rec(Cat(C, <<Op(a)>>), S)
<1>1. Thread(Rec(C, S), <<a>>) = Rec(C \o <<Op(a)>>, S)
  BY Thread1
<1> QED  BY <1>1, Zenon DEF Cat

(* Two instructions compiled, on a row. *)
LEMMA DoThread2 ==
  ASSUME NEW C, NEW S, NEW a, NEW b
  PROVE  Thread(Rec(C, S), <<a, b>>) = Rec(Cat(C, <<Op(a), Op(b)>>), S)
<1>1. Thread(Rec(C, S), <<a, b>>) = Rec(C \o <<Op(a), Op(b)>>, S)
  BY Thread2
<1> QED  BY <1>1, Zenon DEF Cat

(* Three instructions compiled, on a row. *)
LEMMA DoThread3 ==
  ASSUME NEW C, NEW S, NEW a, NEW b, NEW c
  PROVE  Thread(Rec(C, S), <<a, b, c>>) = Rec(Cat(C, <<Op(a), Op(b), Op(c)>>), S)
<1>1. Thread(Rec(C, S), <<a, b, c>>) = Rec(C \o <<Op(a), Op(b), Op(c)>>, S)
  BY Thread3
<1> QED  BY <1>1, Zenon DEF Cat

(* Four instructions compiled, on a row. *)
LEMMA DoThread4 ==
  ASSUME NEW C, NEW S, NEW a, NEW b, NEW c, NEW d
  PROVE  Thread(Rec(C, S), <<a, b, c, d>>) = Rec(Cat(C, <<Op(a), Op(b), Op(c), Op(d)>>), S)
<1>1. Thread(Rec(C, S), <<a, b, c, d>>) = Rec(C \o <<Op(a), Op(b), Op(c), Op(d)>>, S)
  BY Thread4
<1> QED  BY <1>1, Zenon DEF Cat

----------------------------------------------------------------------------
(* What each word compiles. *)

(* The offset at a mark, resolved to the end of the code. *)
AtMark(D, p) == [D EXCEPT ![p].offset = (Len(D) + 1) - p]

(* >resolve resolves the offset at the mark on top. *)
LEMMA DoResolve ==
  ASSUME NEW C \in Seq(Cell), NEW u \in Seq(Mark), NEW a \in Int
  PROVE  ForwardResolve(Rec(C, Cat(u, <<Address(a)>>))) = Rec(AtMark(C, a), u)
<1>1. ForwardResolve(Rec(C, Cat(u, <<Address(a)>>)))
        = Rec([C EXCEPT ![a].offset = (Len(C) + 1) - a], u)
  BY DoForwardResolve
<1> QED  BY <1>1, Zenon DEF AtMark

(* do and ?do: a mark for leave and the end of the loop, one for the way *)
(* back.                                                                 *)
LEMMA DoCompiles ==
  ASSUME NEW C \in Seq(Cell), NEW S \in Seq(Mark), NEW W \in SUBSET Words, NEW o, Op(o) \in Cell
  PROVE  PushOn(BackwardMark(ForwardMark(Thread(Rec(C, S), <<"push", "push", o>>))), Follow(W))
           = Rec(Cat(C, <<Op("push"), Op("push"), Op(o), Offset(0)>>),
                 Cat(S, <<Address(Len(C) + 4), Address(Len(C) + 5), Follow(W)>>))
<1> DEFINE l == Len(C)
           C1 == Cat(C, <<Op("push"), Op("push"), Op(o)>>)
           C2 == Cat(C, <<Op("push"), Op("push"), Op(o), Offset(0)>>)
           S1 == Cat(S, <<Address(l + 4)>>)
           S2 == Cat(S, <<Address(l + 4), Address(l + 5)>>)
           S3 == Cat(S, <<Address(l + 4), Address(l + 5), Follow(W)>>)
<1>1. Op("push") \in Cell /\ Offset(0) \in Cell /\ l \in Nat
  BY OpTypes, CellTypes
<1>2. Thread(Rec(C, S), <<"push", "push", o>>) = Rec(C1, S)
  BY DoThread3
<1>3. C1 \in Seq(Cell) /\ Len(C1) = l + 3
  <2> DEFINE r == <<Op("push"), Op("push"), Op(o)>>
  <2>1. /\ r \in Seq(Cell) /\ Cat(C, r) \in Seq(Cell) /\ Len(Cat(C, r)) = Len(C) + 3
        /\ Cat(Cat(C, <<Op("push"), Op("push")>>), <<Op(o)>>) = Cat(C, r)
    BY <1>1, Row3
  <2> QED  BY <2>1
<1>4. C2 \in Seq(Cell) /\ Len(C2) = l + 4 /\ Cat(C1, <<Offset(0)>>) = C2
  BY <1>1, Row4
<1>5. l + 4 \in Int /\ l + 5 \in Int
  BY <1>1
<1>6. Address(l + 4) \in Mark /\ Address(l + 5) \in Mark /\ Follow(W) \in Mark
  BY <1>5, MarkTypes
<1>7. S1 \in Seq(Mark)
  BY <1>6, Row1
<1>8. S2 \in Seq(Mark) /\ Cat(S1, <<Address(l + 5)>>) = S2
  BY <1>6, Row2
<1>9. Cat(S2, <<Follow(W)>>) = S3
  BY <1>6, Row3
<1>10. Len(C1) + 1 = l + 4 /\ Len(C2) + 1 = l + 5
  BY <1>1, <1>3, <1>4
<1> HIDE DEF C1, C2, S2, S3, l
<1>11. ForwardMark(Rec(C1, S)) = Rec(Cat(C1, <<Offset(0)>>), Cat(S, <<Address(Len(C1) + 1)>>))
  BY <1>3, DoForwardMark
<1>12. ForwardMark(Rec(C1, S)) = Rec(C2, S1)
  BY <1>11, <1>4, <1>10
<1> HIDE DEF S1
<1>13. BackwardMark(Rec(C2, S1)) = Rec(C2, Cat(S1, <<Address(Len(C2) + 1)>>))
  BY <1>4, <1>7, DoBackwardMark
<1>14. BackwardMark(Rec(C2, S1)) = Rec(C2, S2)
  BY <1>13, <1>8, <1>10
<1>15. PushOn(Rec(C2, S2), Follow(W)) = Rec(C2, Cat(S2, <<Follow(W)>>))
  BY <1>6, <1>8, DoPushOn
<1> QED  BY <1>2, <1>9, <1>12, <1>14, <1>15 DEF C2, S3, l

(* if and while: a mark for their branch. *)
LEMMA IfCompiles ==
  ASSUME NEW C \in Seq(Cell), NEW S \in Seq(Mark), NEW W \in SUBSET Words
  PROVE  PushOn(ForwardMark(Thread(Rec(C, S), <<"push", "(?branch)">>)), Follow(W))
           = Rec(Cat(C, <<Op("push"), Op("(?branch)"), Offset(0)>>),
                 Cat(S, <<Address(Len(C) + 3), Follow(W)>>))
<1> DEFINE l == Len(C)
           C1 == Cat(C, <<Op("push"), Op("(?branch)")>>)
           C2 == Cat(C, <<Op("push"), Op("(?branch)"), Offset(0)>>)
           S1 == Cat(S, <<Address(l + 3)>>)
           S2 == Cat(S, <<Address(l + 3), Follow(W)>>)
<1>1. Op("push") \in Cell /\ Op("(?branch)") \in Cell /\ Offset(0) \in Cell /\ l \in Nat
  BY OpTypes, CellTypes
<1>2. Thread(Rec(C, S), <<"push", "(?branch)">>) = Rec(C1, S)
  BY DoThread2
<1>3. C1 \in Seq(Cell) /\ Len(C1) = l + 2
  <2> DEFINE x == Op("push") y == Op("(?branch)")
  <2>1. x \in Cell /\ y \in Cell
    BY <1>1
  <2> HIDE DEF x, y
  <2>2. Cat(C, <<x, y>>) \in Seq(Cell) /\ Len(Cat(C, <<x, y>>)) = Len(C) + 2
    BY <2>1, Row2
  <2> QED  BY <2>2 DEF x, y
<1>4. Cat(C1, <<Offset(0)>>) = C2
  BY <1>1, Row3
<1>5. l + 3 \in Int
  BY <1>1
<1>6. Address(l + 3) \in Mark /\ Follow(W) \in Mark
  BY <1>5, MarkTypes
<1>7. S1 \in Seq(Mark)
  BY <1>6, Row1
<1>8. Cat(S1, <<Follow(W)>>) = S2
  BY <1>6, Row2
<1>9. Len(C1) + 1 = l + 3
  BY <1>1, <1>3
<1> HIDE DEF C1, C2, S2, l
<1>10. ForwardMark(Rec(C1, S)) = Rec(Cat(C1, <<Offset(0)>>), Cat(S, <<Address(Len(C1) + 1)>>))
  BY <1>3, DoForwardMark
<1>11. ForwardMark(Rec(C1, S)) = Rec(C2, S1)
  BY <1>10, <1>4, <1>9
<1> HIDE DEF S1
<1>12. PushOn(Rec(C2, S1), Follow(W)) = Rec(C2, Cat(S1, <<Follow(W)>>))
  BY <1>6, <1>7, DoPushOn
<1> QED  BY <1>2, <1>8, <1>11, <1>12 DEF C2, S2, l

(* else and endof: their own branch marked, that of if or of resolved. *)
LEMMA ElseCompiles ==
  ASSUME NEW C \in Seq(Cell), NEW u \in Seq(Mark), NEW p \in Int, NEW W \in SUBSET Words
  PROVE  PushOn(ForwardResolve(Swap(ForwardMark(Thread(Rec(C, Cat(u, <<Address(p)>>)), <<"(branch)">>)))),
                Follow(W))
           = Rec(AtMark(Cat(C, <<Op("(branch)"), Offset(0)>>), p),
                 Cat(u, <<Address(Len(C) + 2), Follow(W)>>))
<1> DEFINE l == Len(C)
           C1 == Cat(C, <<Op("(branch)")>>)
           C2 == Cat(C, <<Op("(branch)"), Offset(0)>>)
           P == Address(p)
           Q == Address(l + 2)
           S0 == Cat(u, <<P>>)
           S1 == Cat(u, <<P, Q>>)
           S2 == Cat(u, <<Q, P>>)
           S3 == Cat(u, <<Q>>)
           S4 == Cat(u, <<Q, Follow(W)>>)
<1>1. Op("(branch)") \in Cell /\ Offset(0) \in Cell /\ l \in Nat
  BY OpTypes, CellTypes
<1>2. Thread(Rec(C, S0), <<"(branch)">>) = Rec(C1, S0)
  BY DoThread1
<1>3. C1 \in Seq(Cell) /\ Len(C1) = l + 1
  BY <1>1, Row1
<1>4. Cat(C1, <<Offset(0)>>) = C2 /\ C2 \in Seq(Cell)
  BY <1>1, Row2
<1>5. l + 2 \in Int
  BY <1>1
<1>6. P \in Mark /\ Q \in Mark /\ Follow(W) \in Mark
  BY <1>5, MarkTypes
<1> HIDE DEF P
<1>7. S0 \in Seq(Mark) /\ S3 \in Seq(Mark)
  BY <1>6, Row1
<1>8. Cat(S0, <<Q>>) = S1 /\ Cat(S3, <<P>>) = S2 /\ Cat(S3, <<Follow(W)>>) = S4
  <2>1. Cat(S0, <<Q>>) = S1
    BY <1>6, Row2
  <2>2. Cat(S3, <<P>>) = S2
    BY <1>6, Row2
  <2>3. Cat(S3, <<Follow(W)>>) = S4
    BY <1>6, Row2
  <2> QED  BY <2>1, <2>2, <2>3
<1>9. Len(C1) + 1 = l + 2
  BY <1>1, <1>3
<1> HIDE DEF C1, C2, S0, S4
<1>10. ForwardMark(Rec(C1, S0)) = Rec(Cat(C1, <<Offset(0)>>), Cat(S0, <<Address(Len(C1) + 1)>>))
  BY <1>3, <1>7, DoForwardMark
<1> HIDE DEF S1, S2, l
<1>11. ForwardMark(Rec(C1, S0)) = Rec(C2, S1)
  BY <1>10, <1>4, <1>8, <1>9
<1> HIDE DEF Q
<1>12. Swap(Rec(C2, S1)) = Rec(C2, S2)
  BY <1>4, <1>6, DoSwap DEF S1, S2
<1> HIDE DEF S3
<1>13. ForwardResolve(Rec(C2, Cat(S3, <<Address(p)>>))) = Rec(AtMark(C2, p), S3)
  BY <1>4, <1>7, DoResolve
<1>14. ForwardResolve(Rec(C2, S2)) = Rec(AtMark(C2, p), S3)
  BY <1>8, <1>13 DEF P
<1>15. PushOn(Rec(AtMark(C2, p), S3), Follow(W)) = Rec(AtMark(C2, p), Cat(S3, <<Follow(W)>>))
  BY <1>6, <1>7, DoPushOn
<1>16. PushOn(ForwardResolve(Swap(ForwardMark(Thread(Rec(C, S0), <<"(branch)">>)))), Follow(W))
       = Rec(AtMark(C2, p), S4)
  BY <1>2, <1>8, <1>11, <1>12, <1>14, <1>15
<1> QED  BY <1>16 DEF C2, S4, S0, P, Q, l

(* of: a mark for its branch, and the cell behind it. *)
LEMMA OfCompiles ==
  ASSUME NEW C \in Seq(Cell), NEW S \in Seq(Mark), NEW W \in SUBSET Words
  PROVE  PushOn(Thread(ForwardMark(Thread(Rec(C, S), <<"push", "over", "=", "(?branch)">>)), <<"drop">>),
                Follow(W))
           = Rec(Cat(C, <<Op("push"), Op("over"), Op("="), Op("(?branch)"), Offset(0), Op("drop")>>),
                 Cat(S, <<Address(Len(C) + 5), Follow(W)>>))
<1> DEFINE l == Len(C)
           C1 == Cat(C, <<Op("push"), Op("over"), Op("="), Op("(?branch)")>>)
           C2 == Cat(C, <<Op("push"), Op("over"), Op("="), Op("(?branch)"), Offset(0)>>)
           C3 == Cat(C, <<Op("push"), Op("over"), Op("="), Op("(?branch)"), Offset(0), Op("drop")>>)
           S1 == Cat(S, <<Address(l + 5)>>)
           S2 == Cat(S, <<Address(l + 5), Follow(W)>>)
<1>1. /\ Op("push") \in Cell /\ Op("over") \in Cell /\ Op("=") \in Cell /\ Op("(?branch)") \in Cell
      /\ Op("drop") \in Cell /\ Offset(0) \in Cell /\ l \in Nat
  BY OpTypes, CellTypes
<1>2. Thread(Rec(C, S), <<"push", "over", "=", "(?branch)">>) = Rec(C1, S)
  BY DoThread4
<1>3. C1 \in Seq(Cell) /\ Len(C1) = l + 4
  <2> DEFINE r == <<Op("push"), Op("over"), Op("="), Op("(?branch)")>>
  <2>1. /\ r \in Seq(Cell) /\ Cat(C, r) \in Seq(Cell) /\ Len(Cat(C, r)) = Len(C) + 4
        /\ Cat(Cat(C, <<Op("push"), Op("over"), Op("=")>>), <<Op("(?branch)")>>) = Cat(C, r)
    BY <1>1, Row4
  <2> QED  BY <2>1
<1>4. Cat(C1, <<Offset(0)>>) = C2
  BY <1>1, Row5
<1>a. Cat(C2, <<Op("drop")>>) = C3
  BY <1>1, Row6
<1>5. l + 5 \in Int
  BY <1>1
<1>6. Address(l + 5) \in Mark /\ Follow(W) \in Mark
  BY <1>5, MarkTypes
<1>7. S1 \in Seq(Mark)
  BY <1>6, Row1
<1>8. Cat(S1, <<Follow(W)>>) = S2
  BY <1>6, Row2
<1>9. Len(C1) + 1 = l + 5
  BY <1>1, <1>3
<1> HIDE DEF C1, C2, C3, S2, l
<1>10. ForwardMark(Rec(C1, S)) = Rec(Cat(C1, <<Offset(0)>>), Cat(S, <<Address(Len(C1) + 1)>>))
  BY <1>3, DoForwardMark
<1>11. ForwardMark(Rec(C1, S)) = Rec(C2, S1)
  BY <1>10, <1>4, <1>9
<1> HIDE DEF S1
<1>12. Thread(Rec(C2, S1), <<"drop">>) = Rec(Cat(C2, <<Op("drop")>>), S1)
  BY DoThread1
<1>13. PushOn(Rec(C3, S1), Follow(W)) = Rec(C3, Cat(S1, <<Follow(W)>>))
  BY <1>6, <1>7, DoPushOn
<1> QED  BY <1>2, <1>8, <1>11, <1>12, <1>13, <1>a DEF C3, S2, l

(* A branch backward and, if there is one below, the mark forward. *)
LEMMA BackCompiles ==
  ASSUME NEW C \in Seq(Cell), NEW u \in Seq(Mark), NEW b \in Int, NEW p \in Int
  PROVE  LET D == Cat(C, <<Offset(b - (Len(C) + 1))>>)
         IN  /\ BackwardResolve(Rec(C, Cat(u, <<Address(b)>>))) = Rec(D, u)
             /\ ForwardResolve(BackwardResolve(Rec(C, Cat(u, <<Address(p), Address(b)>>))))
                  = Rec(AtMark(D, p), u)
<1> DEFINE D == Cat(C, <<Offset(b - (Len(C) + 1))>>)
           v == Cat(u, <<Address(p)>>)
<1>1. BackwardResolve(Rec(C, Cat(u, <<Address(b)>>))) = Rec(D, u)
  BY DoBackwardResolve
<1>2. Address(p) \in Mark /\ Address(b) \in Mark
  BY MarkTypes
<1>3. v \in Seq(Mark)
  BY <1>2, Row1
<1>4. Cat(v, <<Address(b)>>) = Cat(u, <<Address(p), Address(b)>>)
  BY <1>2, Row2
<1>5. b - (Len(C) + 1) \in Int
  OBVIOUS
<1>6. Offset(b - (Len(C) + 1)) \in Cell
  BY <1>5, CellTypes
<1>7. D \in Seq(Cell)
  BY <1>6, Row1
<1>8. ForwardResolve(Rec(D, v)) = Rec(AtMark(D, p), u)
  <2> HIDE DEF D
  <2> QED  BY <1>7, DoResolve
<1> HIDE DEF v
<1>9. BackwardResolve(Rec(C, Cat(v, <<Address(b)>>))) = Rec(D, v)
  BY <1>3, DoBackwardResolve
<1> HIDE DEF D
<1>10. ForwardResolve(BackwardResolve(Rec(C, Cat(u, <<Address(p), Address(b)>>)))) = Rec(AtMark(D, p), u)
  BY <1>4, <1>8, <1>9
<1> QED  BY <1>1, <1>10 DEF D

(* A word that resolves nothing adds its row. *)
LEMMA GrownCat ==
  ASSUME NEW C \in Seq(Cell), NEW w \in Words, NEW d \in Int
  PROVE  Grown(C, w, {}, d, Cat(C, RowOf(w, d)))
<1>1. Grown(C, w, {}, d, C \o RowOf(w, d))
  BY GrownRow
<1> QED  BY <1>1 DEF Cat

(* A word that resolves a mark. *)
LEMMA GrownAtMark ==
  ASSUME NEW C \in Seq(Cell), NEW w \in Words, NEW marks, NEW d, NEW D, Grown(C, w, marks, d, D),
         NEW p \in 1..Len(C), p \notin marks
  PROVE  Grown(C, w, marks \cup {p}, d, AtMark(D, p))
<1>1. Grown(C, w, marks \cup {p}, d, [D EXCEPT ![p].offset = (Len(D) + 1) - p])
  BY GrownResolve
<1> QED  BY <1>1 DEF AtMark

(* What each word compiles. *)
LEMMA CompiledDo ==
  ASSUME NEW C \in Seq(Cell), NEW S \in Seq(Mark), NEW w \in {"do", "?do"}
  PROVE  Compiled(w, Rec(C, S))
           = Rec(Cat(C, RowOf(w, 0)),
                 Cat(S, <<Address(Len(C) + 4), Address(Len(C) + 5), Follow({"loop", "+loop"})>>))
<1>1. {"loop", "+loop"} \in SUBSET Words /\ Op("(do)") \in Cell /\ Op("(?do)") \in Cell
  BY OpTypes DEF Words, Checked
<1>2. CASE w = "do"
  <2>1. Compiled(w, Rec(C, S)) = DoCompile(Rec(C, S))
    BY <1>2 DEF Compiled
  <2>2. RowOf(w, 0) = <<Op("push"), Op("push"), Op("(do)"), Offset(0)>>
    BY <1>2 DEF RowOf
  <2>3. PushOn(BackwardMark(ForwardMark(Thread(Rec(C, S), <<"push", "push", "(do)">>))),
               Follow({"loop", "+loop"}))
          = Rec(Cat(C, <<Op("push"), Op("push"), Op("(do)"), Offset(0)>>),
                Cat(S, <<Address(Len(C) + 4), Address(Len(C) + 5), Follow({"loop", "+loop"})>>))
    BY <1>1, DoCompiles
  <2>4. DoCompile(Rec(C, S))
          = PushOn(BackwardMark(ForwardMark(Thread(Rec(C, S), <<"push", "push", "(do)">>))),
                   Follow({"loop", "+loop"}))
    BY Zenon DEF DoCompile
  <2> QED  BY Zenon, <2>1, <2>2, <2>3, <2>4
<1>3. CASE w = "?do"
  <2>1. Compiled(w, Rec(C, S)) = QDoCompile(Rec(C, S))
    BY <1>3 DEF Compiled
  <2>2. RowOf(w, 0) = <<Op("push"), Op("push"), Op("(?do)"), Offset(0)>>
    BY <1>3 DEF RowOf
  <2>3. PushOn(BackwardMark(ForwardMark(Thread(Rec(C, S), <<"push", "push", "(?do)">>))),
               Follow({"loop", "+loop"}))
          = Rec(Cat(C, <<Op("push"), Op("push"), Op("(?do)"), Offset(0)>>),
                Cat(S, <<Address(Len(C) + 4), Address(Len(C) + 5), Follow({"loop", "+loop"})>>))
    BY <1>1, DoCompiles
  <2>4. QDoCompile(Rec(C, S))
          = PushOn(BackwardMark(ForwardMark(Thread(Rec(C, S), <<"push", "push", "(?do)">>))),
                   Follow({"loop", "+loop"}))
    BY Zenon DEF QDoCompile
  <2> QED  BY Zenon, <2>1, <2>2, <2>3, <2>4
<1> QED  BY <1>2, <1>3

(* if and while. *)
LEMMA CompiledIf ==
  ASSUME NEW C \in Seq(Cell), NEW S \in Seq(Mark)
  PROVE  /\ Compiled("if", Rec(C, S))
              = Rec(Cat(C, RowOf("if", 0)), Cat(S, <<Address(Len(C) + 3), Follow({"else", "then"})>>))
         /\ Compiled("while", Rec(C, S))
              = Rec(Cat(C, RowOf("while", 0)), Cat(S, <<Address(Len(C) + 3), Follow({"repeat"})>>))
<1>1. {"else", "then"} \in SUBSET Words /\ {"repeat"} \in SUBSET Words
  BY DEF Words, Checked
<1>2. Compiled("if", Rec(C, S)) = IfCompile(Rec(C, S))
      /\ Compiled("while", Rec(C, S)) = WhileCompile(Rec(C, S))
  BY DEF Compiled
<1>3. RowOf("if", 0) = <<Op("push"), Op("(?branch)"), Offset(0)>>
      /\ RowOf("while", 0) = <<Op("push"), Op("(?branch)"), Offset(0)>>
  BY DEF RowOf
<1>4. IfCompile(Rec(C, S))
       = Rec(Cat(C, <<Op("push"), Op("(?branch)"), Offset(0)>>),
             Cat(S, <<Address(Len(C) + 3), Follow({"else", "then"})>>))
  BY <1>1, IfCompiles DEF IfCompile
<1>5. WhileCompile(Rec(C, S))
       = Rec(Cat(C, <<Op("push"), Op("(?branch)"), Offset(0)>>),
             Cat(S, <<Address(Len(C) + 3), Follow({"repeat"})>>))
  BY <1>1, IfCompiles DEF WhileCompile
<1> QED  BY <1>2, <1>3, <1>4, <1>5

(* else and endof. *)
LEMMA CompiledElse ==
  ASSUME NEW C \in Seq(Cell), NEW u \in Seq(Mark), NEW p \in Int
  PROVE  /\ Compiled("else", Rec(C, Cat(u, <<Address(p)>>)))
              = Rec(AtMark(Cat(C, RowOf("else", 0)), p), Cat(u, <<Address(Len(C) + 2), Follow({"then"})>>))
         /\ Compiled("endof", Rec(C, Cat(u, <<Address(p)>>)))
              = Rec(AtMark(Cat(C, RowOf("endof", 0)), p),
                    Cat(u, <<Address(Len(C) + 2), Follow({"of", "endcase"})>>))
<1> DEFINE S == Cat(u, <<Address(p)>>)
<1>1. {"then"} \in SUBSET Words /\ {"of", "endcase"} \in SUBSET Words
  BY DEF Words, Checked
<1>2. Compiled("else", Rec(C, S)) = ElseCompile(Rec(C, S))
      /\ Compiled("endof", Rec(C, S)) = EndOfCompile(Rec(C, S))
  BY DEF Compiled
<1>3. RowOf("else", 0) = <<Op("(branch)"), Offset(0)>>
      /\ RowOf("endof", 0) = <<Op("(branch)"), Offset(0)>>
  BY DEF RowOf
<1>4. ElseCompile(Rec(C, S))
       = Rec(AtMark(Cat(C, <<Op("(branch)"), Offset(0)>>), p), Cat(u, <<Address(Len(C) + 2), Follow({"then"})>>))
  BY <1>1, ElseCompiles DEF ElseCompile
<1>5. EndOfCompile(Rec(C, S))
       = Rec(AtMark(Cat(C, <<Op("(branch)"), Offset(0)>>), p),
             Cat(u, <<Address(Len(C) + 2), Follow({"of", "endcase"})>>))
  BY <1>1, ElseCompiles DEF EndOfCompile
<1> QED  BY <1>2, <1>3, <1>4, <1>5

(* then. *)
LEMMA CompiledThen ==
  ASSUME NEW C \in Seq(Cell), NEW u \in Seq(Mark), NEW p \in Int
  PROVE  Compiled("then", Rec(C, Cat(u, <<Address(p)>>))) = Rec(AtMark(Cat(C, RowOf("then", 0)), p), u)
<1> DEFINE S == Cat(u, <<Address(p)>>)
<1>1. Compiled("then", Rec(C, S)) = ForwardResolve(Rec(C, S))
  BY DEF Compiled, ThenCompile
<1>2. RowOf("then", 0) = <<>>
  BY DEF RowOf
<1>3. Cat(C, <<>>) = C
  BY CatEmpty
<1>4. ForwardResolve(Rec(C, S)) = Rec(AtMark(C, p), u)
  BY DoResolve
<1> QED  BY <1>1, <1>2, <1>3, <1>4

(* case. *)
LEMMA CompiledCase ==
  ASSUME NEW C \in Seq(Cell), NEW S \in Seq(Mark)
  PROVE  Compiled("case", Rec(C, S))
           = Rec(Cat(C, RowOf("case", 0)), Cat(S, <<Address(0), Follow({"of", "endcase"})>>))
<1> DEFINE D == Cat(C, <<Op("push")>>)
           S1 == Cat(S, <<Address(0)>>)
           W == {"of", "endcase"}
<1>1. Compiled("case", Rec(C, S)) = CaseCompile(Rec(C, S))
  BY DEF Compiled
<1>2. RowOf("case", 0) = <<Op("push")>>
  BY DEF RowOf
<1>3. W \in SUBSET Words
  BY DEF Words, Checked
<1> HIDE DEF W
<1>4. Address(0) \in Mark /\ Follow(W) \in Mark
  BY <1>3, MarkTypes
<1>5. S1 \in Seq(Mark)
  BY <1>4, Row1
<1>6. Cat(S1, <<Follow(W)>>) = Cat(S, <<Address(0), Follow(W)>>)
  BY <1>4, Row2
<1>7. Thread(Rec(C, S), <<"push">>) = Rec(D, S)
  BY DoThread1
<1> HIDE DEF D
<1>8. PushOn(Rec(D, S), Address(0)) = Rec(D, S1)
  BY <1>4, DoPushOn
<1> HIDE DEF S1
<1>9. PushOn(Rec(D, S1), Follow(W)) = Rec(D, Cat(S1, <<Follow(W)>>))
  BY <1>4, <1>5, DoPushOn
<1>10. CaseCompile(Rec(C, S)) = PushOn(PushOn(Thread(Rec(C, S), <<"push">>), Address(0)), Follow(W))
  BY DEF CaseCompile, W
<1>11. CaseCompile(Rec(C, S)) = Rec(D, Cat(S, <<Address(0), Follow(W)>>))
  BY <1>6, <1>7, <1>8, <1>9, <1>10
<1> QED  BY <1>1, <1>2, <1>11 DEF D, W

(* of. *)
LEMMA CompiledOf ==
  ASSUME NEW C \in Seq(Cell), NEW S \in Seq(Mark)
  PROVE  Compiled("of", Rec(C, S))
           = Rec(Cat(C, RowOf("of", 0)), Cat(S, <<Address(Len(C) + 5), Follow({"endof"})>>))
<1>1. Compiled("of", Rec(C, S)) = OfCompile(Rec(C, S))
  BY DEF Compiled
<1>2. RowOf("of", 0) = <<Op("push"), Op("over"), Op("="), Op("(?branch)"), Offset(0), Op("drop")>>
  BY DEF RowOf
<1>3. {"endof"} \in SUBSET Words
  BY DEF Words, Checked
<1> QED  BY <1>1, <1>2, <1>3, OfCompiles DEF OfCompile

(* begin. *)
LEMMA CompiledBegin ==
  ASSUME NEW C \in Seq(Cell), NEW S \in Seq(Mark)
  PROVE  Compiled("begin", Rec(C, S))
           = Rec(Cat(C, RowOf("begin", 0)),
                 Cat(S, <<Address(Len(C) + 1), Follow({"again", "until", "while"})>>))
<1> DEFINE W == {"again", "until", "while"}
           S1 == Cat(S, <<Address(Len(C) + 1)>>)
<1>1. Compiled("begin", Rec(C, S)) = PushOn(BackwardMark(Rec(C, S)), Follow(W))
  BY DEF Compiled, BeginCompile
<1>2. RowOf("begin", 0) = <<>>
  BY DEF RowOf
<1>3. W \in SUBSET Words
  BY DEF Words, Checked
<1> HIDE DEF W
<1>4. Len(C) + 1 \in Int
  OBVIOUS
<1>5. Address(Len(C) + 1) \in Mark /\ Follow(W) \in Mark
  BY <1>3, <1>4, MarkTypes
<1>6. S1 \in Seq(Mark)
  BY <1>5, Row1
<1>7. Cat(S1, <<Follow(W)>>) = Cat(S, <<Address(Len(C) + 1), Follow(W)>>)
  BY <1>5, Row2
<1>8. BackwardMark(Rec(C, S)) = Rec(C, S1)
  BY DoBackwardMark
<1> HIDE DEF S1
<1>9. PushOn(Rec(C, S1), Follow(W)) = Rec(C, Cat(S1, <<Follow(W)>>))
  BY <1>5, <1>6, DoPushOn
<1>10. Cat(C, <<>>) = C
  BY CatEmpty
<1> QED  BY <1>1, <1>2, <1>7, <1>8, <1>9, <1>10 DEF W

(* The words with a branch backward. *)
LEMMA RowsBack ==
  ASSUME NEW C \in Seq(Cell), NEW b \in Int
  PROVE  /\ LET C1 == Cat(C, <<Op("(branch)")>>)
            IN  /\ C1 \in Seq(Cell)
                /\ Cat(C1, <<Offset(b - (Len(C1) + 1))>>)
                     = Cat(C, <<Op("(branch)"), Offset(b - (Len(C) + 2))>>)
         /\ LET C1 == Cat(C, <<Op("(loop)")>>)
            IN  /\ C1 \in Seq(Cell)
                /\ Cat(C1, <<Offset(b - (Len(C1) + 1))>>)
                     = Cat(C, <<Op("(loop)"), Offset(b - (Len(C) + 2))>>)
         /\ LET C1 == Cat(C, <<Op("push"), Op("(+loop)")>>)
            IN  /\ C1 \in Seq(Cell)
                /\ Cat(C1, <<Offset(b - (Len(C1) + 1))>>)
                     = Cat(C, <<Op("push"), Op("(+loop)"), Offset(b - (Len(C) + 3))>>)
         /\ LET C1 == Cat(C, <<Op("push"), Op("(?branch)")>>)
            IN  /\ C1 \in Seq(Cell)
                /\ Cat(C1, <<Offset(b - (Len(C1) + 1))>>)
                     = Cat(C, <<Op("push"), Op("(?branch)"), Offset(b - (Len(C) + 3))>>)
<1>1. /\ Op("(branch)") \in Cell /\ Op("(loop)") \in Cell /\ Op("push") \in Cell /\ Op("(+loop)") \in Cell
      /\ Op("(?branch)") \in Cell
  BY OpTypes
<1>2. \A v \in Int : Offset(v) \in Cell
  BY CellTypes
<1>3. ASSUME NEW o, Op(o) \in Cell
      PROVE  LET C1 == Cat(C, <<Op(o)>>)
             IN  /\ C1 \in Seq(Cell)
                 /\ Cat(C1, <<Offset(b - (Len(C1) + 1))>>) = Cat(C, <<Op(o), Offset(b - (Len(C) + 2))>>)
  <2> DEFINE C1 == Cat(C, <<Op(o)>>)
             v == b - (Len(C) + 2)
             X == Offset(v)
  <2>1. C1 \in Seq(Cell) /\ Len(C1) = Len(C) + 1
    BY <1>3, Row1
  <2>2. Len(C) \in Nat
    OBVIOUS
  <2>3. v \in Int
    BY <2>2
  <2>4. X \in Cell
    BY <2>3, <1>2
  <2> HIDE DEF X
  <2>5. Cat(C1, <<X>>) = Cat(C, <<Op(o), X>>)
    BY <2>4, <1>3, Row2
  <2> HIDE DEF C1
  <2>6. b - (Len(C1) + 1) = v
    BY <2>1, <2>2
  <2> QED  BY <2>1, <2>5, <2>6 DEF X, C1
<1>4. ASSUME NEW o, Op(o) \in Cell
      PROVE  LET C1 == Cat(C, <<Op("push"), Op(o)>>)
             IN  /\ C1 \in Seq(Cell)
                 /\ Cat(C1, <<Offset(b - (Len(C1) + 1))>>)
                      = Cat(C, <<Op("push"), Op(o), Offset(b - (Len(C) + 3))>>)
  <2> DEFINE C1 == Cat(C, <<Op("push"), Op(o)>>)
             v == b - (Len(C) + 3)
             X == Offset(v)
  <2>1. C1 \in Seq(Cell) /\ Len(C1) = Len(C) + 2
    BY <1>1, <1>4, Row2
  <2>2. Len(C) \in Nat
    OBVIOUS
  <2>3. v \in Int
    BY <2>2
  <2>4. X \in Cell
    BY <2>3, <1>2
  <2> HIDE DEF X
  <2>5. Cat(C1, <<X>>) = Cat(C, <<Op("push"), Op(o), X>>)
    BY <2>4, <1>1, <1>4, Row3
  <2> HIDE DEF C1
  <2>6. b - (Len(C1) + 1) = v
    BY <2>1, <2>2
  <2> QED  BY <2>1, <2>5, <2>6 DEF X, C1
<1> QED  BY <1>1, <1>3, <1>4

(* loop and +loop. *)
LEMMA CompiledLoop ==
  ASSUME NEW C \in Seq(Cell), NEW u \in Seq(Mark), NEW b \in Int, NEW p \in Int
  PROVE  LET c == Rec(C, Cat(u, <<Address(p), Address(b)>>))
         IN  /\ Compiled("loop", c) = Rec(AtMark(Cat(C, RowOf("loop", b - (Len(C) + 2))), p), u)
             /\ Compiled("+loop", c) = Rec(AtMark(Cat(C, RowOf("+loop", b - (Len(C) + 3))), p), u)
<1> DEFINE S == Cat(u, <<Address(p), Address(b)>>)
           C1 == Cat(C, <<Op("(loop)")>>)
           C2 == Cat(C, <<Op("push"), Op("(+loop)")>>)
<1>1. /\ Compiled("loop", Rec(C, S)) = ForwardResolve(BackwardResolve(Thread(Rec(C, S), <<"(loop)">>)))
      /\ Compiled("+loop", Rec(C, S))
           = ForwardResolve(BackwardResolve(Thread(Rec(C, S), <<"push", "(+loop)">>)))
  <2> HIDE DEF S
  <2> QED  BY DEF Compiled, LoopCompile, PlusLoopCompile
<1>2. \A d : RowOf("loop", d) = <<Op("(loop)"), Offset(d)>>
             /\ RowOf("+loop", d) = <<Op("push"), Op("(+loop)"), Offset(d)>>
  BY DEF RowOf
<1>3. Thread(Rec(C, S), <<"(loop)">>) = Rec(C1, S)
  BY DoThread1
<1>4. Thread(Rec(C, S), <<"push", "(+loop)">>) = Rec(C2, S)
  BY DoThread2
<1>5. C1 \in Seq(Cell)
      /\ Cat(C1, <<Offset(b - (Len(C1) + 1))>>) = Cat(C, <<Op("(loop)"), Offset(b - (Len(C) + 2))>>)
  BY RowsBack
<1>6. C2 \in Seq(Cell)
      /\ Cat(C2, <<Offset(b - (Len(C2) + 1))>>)
           = Cat(C, <<Op("push"), Op("(+loop)"), Offset(b - (Len(C) + 3))>>)
  BY RowsBack
<1> HIDE DEF C1, C2
<1>7. ForwardResolve(BackwardResolve(Rec(C1, S))) = Rec(AtMark(Cat(C1, <<Offset(b - (Len(C1) + 1))>>), p), u)
  BY <1>5, BackCompiles
<1>8. ForwardResolve(BackwardResolve(Rec(C2, S))) = Rec(AtMark(Cat(C2, <<Offset(b - (Len(C2) + 1))>>), p), u)
  BY <1>6, BackCompiles
<1> HIDE DEF S
<1>9. Compiled("loop", Rec(C, S)) = Rec(AtMark(Cat(C, RowOf("loop", b - (Len(C) + 2))), p), u)
  BY <1>1, <1>2, <1>3, <1>5, <1>7
<1>10. Compiled("+loop", Rec(C, S)) = Rec(AtMark(Cat(C, RowOf("+loop", b - (Len(C) + 3))), p), u)
  BY <1>1, <1>2, <1>4, <1>6, <1>8
<1> QED  BY <1>9, <1>10 DEF S

(* repeat. *)
LEMMA CompiledRepeat ==
  ASSUME NEW C \in Seq(Cell), NEW u \in Seq(Mark), NEW b \in Int, NEW p \in Int
  PROVE  Compiled("repeat", Rec(C, Cat(u, <<Address(b), Address(p)>>)))
           = Rec(AtMark(Cat(C, RowOf("repeat", b - (Len(C) + 2))), p), u)
<1> DEFINE S == Cat(u, <<Address(b), Address(p)>>)
           S1 == Cat(u, <<Address(p), Address(b)>>)
           C1 == Cat(C, <<Op("(branch)")>>)
<1>1. Compiled("repeat", Rec(C, S))
        = ForwardResolve(BackwardResolve(Swap(Thread(Rec(C, S), <<"(branch)">>))))
  <2> HIDE DEF S
  <2> QED  BY DEF Compiled, RepeatCompile
<1>2. \A d : RowOf("repeat", d) = <<Op("(branch)"), Offset(d)>>
  BY DEF RowOf
<1>3. Thread(Rec(C, S), <<"(branch)">>) = Rec(C1, S)
  BY DoThread1
<1>4. C1 \in Seq(Cell)
      /\ Cat(C1, <<Offset(b - (Len(C1) + 1))>>) = Cat(C, <<Op("(branch)"), Offset(b - (Len(C) + 2))>>)
  BY RowsBack
<1>5. Address(b) \in Mark /\ Address(p) \in Mark
  BY MarkTypes
<1> HIDE DEF C1
<1>6. Swap(Rec(C1, S)) = Rec(C1, S1)
  <2> DEFINE x == Address(b) y == Address(p)
  <2>1. x \in Mark /\ y \in Mark
    BY <1>5
  <2> HIDE DEF x, y
  <2>2. Swap(Rec(C1, Cat(u, <<x, y>>))) = Rec(C1, Cat(u, <<y, x>>))
    BY <2>1, <1>4, DoSwap
  <2> QED  BY <2>2 DEF x, y
<1>7. ForwardResolve(BackwardResolve(Rec(C1, S1)))
        = Rec(AtMark(Cat(C1, <<Offset(b - (Len(C1) + 1))>>), p), u)
  BY <1>4, BackCompiles
<1> HIDE DEF S, S1
<1>8. Compiled("repeat", Rec(C, S)) = Rec(AtMark(Cat(C, RowOf("repeat", b - (Len(C) + 2))), p), u)
  BY <1>1, <1>2, <1>3, <1>4, <1>6, <1>7
<1> QED  BY <1>8 DEF S

(* until and again. *)
LEMMA CompiledUntil ==
  ASSUME NEW C \in Seq(Cell), NEW u \in Seq(Mark), NEW b \in Int
  PROVE  LET c == Rec(C, Cat(u, <<Address(b)>>))
         IN  /\ Compiled("until", c) = Rec(Cat(C, RowOf("until", b - (Len(C) + 3))), u)
             /\ Compiled("again", c) = Rec(Cat(C, RowOf("again", b - (Len(C) + 2))), u)
<1> DEFINE S == Cat(u, <<Address(b)>>)
           C1 == Cat(C, <<Op("(branch)")>>)
           C2 == Cat(C, <<Op("push"), Op("(?branch)")>>)
<1>1. /\ Compiled("again", Rec(C, S)) = BackwardResolve(Thread(Rec(C, S), <<"(branch)">>))
      /\ Compiled("until", Rec(C, S)) = BackwardResolve(Thread(Rec(C, S), <<"push", "(?branch)">>))
  <2> HIDE DEF S
  <2> QED  BY DEF Compiled, UntilCompile, AgainCompile
<1>2. \A d : RowOf("again", d) = <<Op("(branch)"), Offset(d)>>
             /\ RowOf("until", d) = <<Op("push"), Op("(?branch)"), Offset(d)>>
  BY DEF RowOf
<1>3. Thread(Rec(C, S), <<"(branch)">>) = Rec(C1, S)
  BY DoThread1
<1>4. Thread(Rec(C, S), <<"push", "(?branch)">>) = Rec(C2, S)
  BY DoThread2
<1>5. C1 \in Seq(Cell)
      /\ Cat(C1, <<Offset(b - (Len(C1) + 1))>>) = Cat(C, <<Op("(branch)"), Offset(b - (Len(C) + 2))>>)
  BY RowsBack
<1>6. C2 \in Seq(Cell)
      /\ Cat(C2, <<Offset(b - (Len(C2) + 1))>>)
           = Cat(C, <<Op("push"), Op("(?branch)"), Offset(b - (Len(C) + 3))>>)
  BY RowsBack
<1> HIDE DEF C1, C2
<1>7. BackwardResolve(Rec(C1, S)) = Rec(Cat(C1, <<Offset(b - (Len(C1) + 1))>>), u)
  BY <1>5, DoBackwardResolve
<1>8. BackwardResolve(Rec(C2, S)) = Rec(Cat(C2, <<Offset(b - (Len(C2) + 1))>>), u)
  BY <1>6, DoBackwardResolve
<1> HIDE DEF S
<1>9. Compiled("again", Rec(C, S)) = Rec(Cat(C, RowOf("again", b - (Len(C) + 2))), u)
  BY <1>1, <1>2, <1>3, <1>5, <1>7
<1>10. Compiled("until", Rec(C, S)) = Rec(Cat(C, RowOf("until", b - (Len(C) + 3))), u)
  BY <1>1, <1>2, <1>4, <1>6, <1>8
<1> QED  BY <1>9, <1>10 DEF S

(* leave, exit, the end of the definition, and tail-recurse. *)
LEMMA CompiledPlain ==
  ASSUME NEW C \in Seq(Cell), NEW S \in Seq(Mark)
  PROVE  /\ Compiled("leave", Rec(C, S)) = Rec(Cat(C, RowOf("leave", 0)), S)
         /\ Compiled("exit", Rec(C, S)) = Rec(Cat(C, RowOf("exit", 0)), S)
         /\ Thread(Rec(C, S), <<"(semicolon)">>) = Rec(Cat(C, RowOf("semicolon", 0)), S)
         /\ Compiled("tail-recurse", Rec(C, S))
              = Rec(Cat(C, RowOf("tail-recurse", 1 - (Len(C) + 2))), S)
<1>1. /\ Compiled("leave", Rec(C, S)) = Thread(Rec(C, S), <<"leave">>)
      /\ Compiled("exit", Rec(C, S)) = Thread(Rec(C, S), <<"(semicolon)">>)
      /\ Compiled("tail-recurse", Rec(C, S))
           = BackwardResolve(Thread(PushOn(Rec(C, S), Address(1)), <<"(branch)">>))
  BY DEF Compiled, TailRecurseCompile
<1>2. /\ RowOf("leave", 0) = <<Op("leave")>> /\ RowOf("exit", 0) = <<Op("(semicolon)")>>
      /\ RowOf("semicolon", 0) = <<Op("(semicolon)")>>
      /\ \A d : RowOf("tail-recurse", d) = <<Op("(branch)"), Offset(d)>>
  BY DEF RowOf
<1>3. Thread(Rec(C, S), <<"leave">>) = Rec(Cat(C, <<Op("leave")>>), S)
  BY DoThread1
<1>4. Thread(Rec(C, S), <<"(semicolon)">>) = Rec(Cat(C, <<Op("(semicolon)")>>), S)
  BY DoThread1
<1> DEFINE S1 == Cat(S, <<Address(1)>>)
           C1 == Cat(C, <<Op("(branch)")>>)
<1>5. Address(1) \in Mark
  BY MarkTypes
<1>6. PushOn(Rec(C, S), Address(1)) = Rec(C, S1)
  BY <1>5, DoPushOn
<1>7. Thread(Rec(C, S1), <<"(branch)">>) = Rec(C1, S1)
  BY DoThread1
<1>8. C1 \in Seq(Cell)
      /\ Cat(C1, <<Offset(1 - (Len(C1) + 1))>>) = Cat(C, <<Op("(branch)"), Offset(1 - (Len(C) + 2))>>)
  <2>1. \A b \in Int : C1 \in Seq(Cell)
          /\ Cat(C1, <<Offset(b - (Len(C1) + 1))>>) = Cat(C, <<Op("(branch)"), Offset(b - (Len(C) + 2))>>)
    BY RowsBack
  <2>2. 1 \in Int
    OBVIOUS
  <2> QED  BY <2>1, <2>2, Zenon
<1> HIDE DEF C1
<1>9. BackwardResolve(Rec(C1, S1)) = Rec(Cat(C1, <<Offset(1 - (Len(C1) + 1))>>), S)
  BY <1>8, DoBackwardResolve
<1> HIDE DEF S1
<1>10. Compiled("tail-recurse", Rec(C, S)) = Rec(Cat(C, RowOf("tail-recurse", 1 - (Len(C) + 2))), S)
  BY <1>1, <1>2, <1>6, <1>7, <1>8, <1>9
<1> QED  BY <1>1, <1>2, <1>3, <1>4, <1>10

(* A recursion downward has one result. *)
Downward(f, z, n, c) == f = [k \in z..n |-> IF k = n THEN c ELSE ForwardResolve(f[k + 1])]

(* Two functions with the recursion of ResolveToZero agree: induction *)
(* downward from the whole stack.                                     *)
LEMMA DownwardOne ==
  ASSUME NEW z \in Nat, NEW n \in Nat, NEW c, NEW f, NEW g, Downward(f, z, n, c), Downward(g, z, n, c),
         NEW k \in z..n
  PROVE  f[k] = g[k]
<1> DEFINE Bad == {i \in z..n : f[i] # g[i]}
<1>1. SUFFICES ASSUME Bad # {} PROVE FALSE
  BY <1>1
<1>2. Bad \in SUBSET (0..n)
  OBVIOUS
<1>3. PICK x \in Bad : \A y \in Bad : y <= x
  BY <1>1, <1>2, GreatestNumber
<1>4. /\ f[x] = IF x = n THEN c ELSE ForwardResolve(f[x + 1])
      /\ g[x] = IF x = n THEN c ELSE ForwardResolve(g[x + 1])
  <2>1. x \in z..n
    BY <1>3
  <2>2. /\ f = [i \in z..n |-> IF i = n THEN c ELSE ForwardResolve(f[i + 1])]
        /\ g = [i \in z..n |-> IF i = n THEN c ELSE ForwardResolve(g[i + 1])]
    BY DEF Downward
  <2>3. \A F : F = [i \in z..n |-> IF i = n THEN c ELSE ForwardResolve(F[i + 1])]
               => F[x] = IF x = n THEN c ELSE ForwardResolve(F[x + 1])
    BY <2>1
  <2> QED  BY <2>2, <2>3
<1>5. x # n
  BY <1>3, <1>4
<1>6. x + 1 \in z..n /\ x + 1 \notin Bad
  <2>1. x \in z..n
    BY <1>3
  <2>2. x + 1 \in z..n /\ ~ (x + 1 <= x)
    BY <2>1, <1>5
  <2> QED  BY <2>2, <1>3
<1>7. f[x + 1] = g[x + 1]
  BY <1>6
<1> QED  BY <1>3, <1>4, <1>5, <1>7

(* ResolveToZero is any function with its recursion, at the zero. *)
LEMMA ToZeroIs ==
  ASSUME NEW z \in Nat, NEW n \in Nat, NEW c, NEW F, Downward(F, z, n, c), z <= n,
         Len(c.stack) = n, Max({k \in 1..n : c.stack[k].at = 0}) = z
  PROVE  ResolveToZero(c) = F[z]
<1> DEFINE G == CHOOSE f : f = [k \in z..n |-> IF k = n THEN c ELSE ForwardResolve(f[k + 1])]
<1>1. ResolveToZero(c) = G[z]
  BY Zenon DEF ResolveToZero
<1>2. G = [k \in z..n |-> IF k = n THEN c ELSE ForwardResolve(G[k + 1])]
  BY Zenon DEF Downward
<1>3. Downward(G, z, n, c)
  BY <1>2, Zenon DEF Downward
<1> HIDE DEF G
<1>4. z \in z..n
  OBVIOUS
<1> QED  BY <1>1, <1>3, <1>4, DownwardOne

(* The code with the offsets at some marks resolved to its end. *)
AtMarks(C, marks) ==
  [i \in 1..Len(C) |-> IF i \in marks THEN [op |-> C[i].op, offset |-> (Len(C) + 1) - i] ELSE C[i]]

(* Resolving offsets keeps the length of the code. *)
LEMMA AtMarksType ==
  ASSUME NEW C \in Seq(Cell), NEW marks
  PROVE  AtMarks(C, marks) \in Seq(Cell) /\ Len(AtMarks(C, marks)) = Len(C)
<1> DEFINE D == AtMarks(C, marks)
<1>1. Len(C) \in Nat /\ \A i \in 1..Len(C) : C[i] \in Cell
  OBVIOUS
<1>2. ASSUME NEW i \in 1..Len(C)
      PROVE  (IF i \in marks THEN [op |-> C[i].op, offset |-> (Len(C) + 1) - i] ELSE C[i]) \in Cell
  <2>1. C[i] \in Cell /\ (Len(C) + 1) - i \in Int
    BY <1>1
  <2> QED  BY <2>1 DEF Cell
<1>3. D \in [1..Len(C) -> Cell]
  BY <1>2 DEF AtMarks
<1> HIDE DEF D
<1> QED  BY <1>1, <1>3 DEF D

(* One more mark resolved. *)
LEMMA AtMarksAdd ==
  ASSUME NEW C \in Seq(Cell), NEW marks, NEW p \in 1..Len(C), p \notin marks
  PROVE  AtMark(AtMarks(C, marks), p) = AtMarks(C, marks \cup {p})
<1> DEFINE D == AtMarks(C, marks)
           l == Len(C)
           v == (l + 1) - p
<1>1. D \in Seq(Cell) /\ Len(D) = l /\ l \in Nat
  BY AtMarksType
<1>2. D = [i \in 1..l |-> IF i \in marks THEN [op |-> C[i].op, offset |-> (l + 1) - i] ELSE C[i]]
  BY DEF AtMarks
<1>3. D[p] = C[p] /\ C[p] \in Cell
  BY <1>2
<1> HIDE DEF D
<1>4. AtMark(D, p) = [D EXCEPT ![p].offset = v]
  BY <1>1 DEF AtMark
<1> HIDE DEF v
<1>5. [D[p] EXCEPT !.offset = v] = [op |-> C[p].op, offset |-> v]
  BY <1>3 DEF Cell
<1>6. [D EXCEPT ![p].offset = v] = [D EXCEPT ![p] = [op |-> C[p].op, offset |-> v]]
  BY <1>5
<1> DEFINE x == [op |-> C[p].op, offset |-> v]
           E == AtMarks(C, marks \cup {p})
<1>7. E = [i \in 1..l |-> IF i \in marks \cup {p} THEN [op |-> C[i].op, offset |-> (l + 1) - i] ELSE C[i]]
  BY DEF AtMarks
<1>8. E[p] = x
  BY <1>7 DEF v
<1>9. [D EXCEPT ![p] = x] = E
  <2>1. ASSUME NEW i \in 1..l PROVE [D EXCEPT ![p] = x][i] = E[i]
    <3> HIDE DEF x, E
    <3>1. CASE i = p
      BY <3>1, <1>2, <1>8
    <3>2. CASE i # p
      <4>1. [D EXCEPT ![p] = x][i] = D[i]
        BY <3>2, <1>2
      <4>2. D[i] = IF i \in marks THEN [op |-> C[i].op, offset |-> (l + 1) - i] ELSE C[i]
        BY <1>2
      <4>3. E[i] = IF i \in marks \cup {p} THEN [op |-> C[i].op, offset |-> (l + 1) - i] ELSE C[i]
        BY <1>7
      <4> QED  BY <3>2, <4>1, <4>2, <4>3
    <3> QED  BY <3>1, <3>2
  <2>2. DOMAIN D = 1..l /\ DOMAIN E = 1..l
    BY <1>2, <1>7
  <2> HIDE DEF x, E
  <2>3. [D EXCEPT ![p] = x] = [i \in 1..l |-> [D EXCEPT ![p] = x][i]]
    BY <2>2
  <2>4. E = [i \in 1..l |-> E[i]]
    BY <1>7
  <2> QED  BY <2>1, <2>3, <2>4
<1> QED  BY <1>4, <1>6, <1>9 DEF D

(* A part of a row, and the next cell. *)
LEMMA LongerRow ==
  ASSUME NEW T, NEW a \in Seq(T), NEW i \in 1..Len(a)
  PROVE  SubSeq(a, 1, i) = Append(SubSeq(a, 1, i - 1), a[i])
<1> DEFINE b == SubSeq(a, 1, i - 1)
           c == SubSeq(a, 1, i)
           d == Append(b, a[i])
<1>1. b \in Seq(T) /\ Len(b) = i - 1 /\ \A x \in 1..i - 1 : b[x] = a[x]
  OBVIOUS
<1>2. c \in Seq(T) /\ Len(c) = i /\ \A x \in 1..i : c[x] = a[x]
  OBVIOUS
<1>3. a[i] \in T /\ i \in Nat
  OBVIOUS
<1> HIDE DEF b, c
<1>4. d \in Seq(T) /\ Len(d) = i /\ (\A x \in 1..i - 1 : d[x] = b[x]) /\ d[i] = a[i]
  BY <1>1, <1>3
<1> HIDE DEF d
<1>5. \A x \in 1..Len(c) : c[x] = d[x]
  BY <1>1, <1>2, <1>3, <1>4
<1>6. Len(c) = Len(d)
  BY <1>2, <1>4
<1>7. c = d
  BY <1>2, <1>4, <1>5, <1>6, SeqEqual
<1> QED  BY <1>7 DEF b, c, d

(* All the marks above the zero are resolved. *)
LEMMA ResolvesAll ==
  ASSUME NEW C \in Seq(Cell), NEW u \in Seq(Mark), NEW a \in Seq(Mark),
         \A i \in 1..Len(a) : a[i].at \in 1..Len(C) /\ a[i] = Address(a[i].at),
         \A i, j \in 1..Len(a) : i # j => a[i].at # a[j].at
  PROVE  ResolveToZero(Rec(C, Cat(Cat(u, <<Address(0)>>), a)))
           = Rec(AtMarks(C, {a[i].at : i \in 1..Len(a)}), Cat(u, <<Address(0)>>))
<1> DEFINE v == Cat(u, <<Address(0)>>)
           S == Cat(v, a)
           z == Len(v)
           m == Len(a)
           n == z + m
           c == Rec(C, S)
<1>1. Address(0) \in Mark /\ Address(0).at = 0
  <2>1. 0 \in Int
    OBVIOUS
  <2> QED  BY <2>1, MarkTypes
<1>2. v \in Seq(Mark) /\ z = Len(u) + 1 /\ Len(u) \in Nat /\ v[z] = Address(0)
  <2> DEFINE r == <<Address(0)>>
  <2>1. r \in Seq(Mark) /\ Len(r) = 1 /\ r[1] = Address(0)
    BY <1>1
  <2> HIDE DEF r
  <2>2. /\ Cat(u, r) \in Seq(Mark) /\ Len(Cat(u, r)) = Len(u) + Len(r)
        /\ \A i \in 1..Len(u) + Len(r) : Cat(u, r)[i] = IF i <= Len(u) THEN u[i] ELSE r[i - Len(u)]
        /\ Len(u) \in Nat /\ Len(r) \in Nat
    BY <2>1, CatProperties
  <2> DEFINE w == Cat(u, r) k == Len(u)
  <2> HIDE DEF w
  <2>3. w \in Seq(Mark) /\ Len(w) = k + 1 /\ k \in Nat /\ w[k + 1] = Address(0)
    <3>1. k + 1 \in 1..k + 1 /\ ~ (k + 1 <= k) /\ (k + 1) - k = 1
      BY <2>2
    <3> QED  BY <2>1, <2>2, <3>1 DEF w
  <2> QED  BY <2>3 DEF w, r
<1> HIDE DEF v
<1>3. /\ S \in Seq(Mark) /\ Len(S) = Len(v) + Len(a)
      /\ \A i \in 1..Len(v) + Len(a) : S[i] = IF i <= Len(v) THEN v[i] ELSE a[i - Len(v)]
      /\ Len(v) \in Nat /\ Len(a) \in Nat
  BY <1>2, CatProperties
<1> HIDE DEF S
<1>4. z \in Nat /\ n \in Nat /\ m \in Nat /\ z <= n /\ 1 <= z /\ Len(S) = n
      /\ S[z] = Address(0) /\ \A i \in 1..m : S[z + i] = a[i]
  <2>1. z \in 1..z + m /\ z <= z
    BY <1>2, <1>3
  <2>2. S[z] = v[z]
    BY <2>1, <1>3
  <2>3. ASSUME NEW i \in 1..m PROVE S[z + i] = a[i]
    <3>1. z + i \in 1..Len(v) + Len(a) /\ ~ (z + i <= Len(v)) /\ (z + i) - Len(v) = i
      BY <1>3
    <3> QED  BY <3>1, <1>3
  <2> QED  BY <2>2, <2>3, <1>2, <1>3
<1> DEFINE M(k) == {a[j].at : j \in (k - z) + 1..m}
           F == [k \in z..n |-> Rec(AtMarks(C, M(k)), Cat(v, SubSeq(a, 1, k - z)))]
<1>5. F[n] = c
  <2>1. M(n) = {}
    <3>1. (n - z) + 1..m = {}
      BY <1>4
    <3> QED  BY <3>1
  <2>2. SubSeq(a, 1, n - z) = a
    <3>1. n - z = Len(a)
      BY <1>4
    <3> QED  BY <3>1
  <2>3. AtMarks(C, {}) = C
    BY DEF AtMarks
  <2>4. n \in z..n
    BY <1>4
  <2>5. F[n] = Rec(AtMarks(C, M(n)), Cat(v, SubSeq(a, 1, n - z)))
    BY <2>4
  <2> HIDE DEF F, M
  <2>6. Cat(v, a) = S
    BY DEF S
  <2> QED  BY <2>1, <2>2, <2>3, <2>5, <2>6
<1>6. ASSUME NEW k \in z..n, k # n PROVE ForwardResolve(F[k + 1]) = F[k]
  <2> DEFINE i == (k - z) + 1
             p == a[i].at
             b == SubSeq(a, 1, k - z)
             D == AtMarks(C, M(k + 1))
  <2>1. k + 1 \in z..n /\ i \in 1..m /\ k - z \in 0..m /\ (k + 1) - z = i
    <3>1. \A y, x \in Nat : k \in y..y + x /\ k # y + x
            => k + 1 \in y..y + x /\ (k - y) + 1 \in 1..x /\ k - y \in 0..x /\ (k + 1) - y = (k - y) + 1
      OBVIOUS
    <3> QED  BY <3>1, <1>4, <1>6
  <2>2. F[k + 1] = Rec(D, Cat(v, SubSeq(a, 1, i))) /\ F[k] = Rec(AtMarks(C, M(k)), Cat(v, b))
    <3>1. \A x \in z..n : F[x] = Rec(AtMarks(C, M(x)), Cat(v, SubSeq(a, 1, x - z)))
      OBVIOUS
    <3> HIDE DEF F, M, z, n, m
    <3>2. F[k] = Rec(AtMarks(C, M(k)), Cat(v, b))
      BY <3>1
    <3>3. F[k + 1] = Rec(AtMarks(C, M(k + 1)), Cat(v, SubSeq(a, 1, (k + 1) - z)))
      BY <3>1, <2>1
    <3> QED  BY <2>1, <3>2, <3>3
  <2>3. M(k) = M(k + 1) \cup {p} /\ p \notin M(k + 1)
    <3>1. ((k + 1) - z) + 1 = i + 1
      BY <2>1
    <3>2. (k - z) + 1..m = (i + 1..m) \cup {i}
      BY <2>1
    <3>3. \A j \in i + 1..m : a[j].at # p
      BY <2>1
    <3> QED  BY <3>1, <3>2, <3>3
  <2>4. p \in 1..Len(C) /\ a[i] = Address(p) /\ p \in Int
    BY <2>1
  <2>5. b \in Seq(Mark) /\ Len(b) = k - z /\ Cat(b, <<Address(p)>>) = SubSeq(a, 1, i)
    <3>1. b \in Seq(Mark) /\ Len(b) = k - z
      BY <2>1
    <3>2. SubSeq(a, 1, i) = Append(SubSeq(a, 1, i - 1), a[i])
      <4>1. i \in 1..Len(a)
        BY <2>1
      <4> HIDE DEF i, b
      <4> QED  BY <4>1, LongerRow
    <3>3. i - 1 = k - z
      BY <2>1
    <3>4. SubSeq(a, 1, i) = Append(b, a[i])
      BY <3>2, <3>3
    <3> HIDE DEF b, i
    <3>5. Append(b, a[i]) = b \o <<a[i]>>
      <4>1. a[i] \in Mark
        BY <2>1
      <4> QED  BY <4>1, <3>1, AppendIsConcat
    <3> QED  BY <3>1, <3>4, <3>5, <2>4 DEF Cat
  <2> HIDE DEF F, M
  <2>6. AtMark(D, p) = AtMarks(C, M(k + 1) \cup {p})
    BY <2>3, <2>4, AtMarksAdd
  <2>7. D \in Seq(Cell)
    BY AtMarksType
  <2> HIDE DEF D, p, b, i
  <2>8. Address(p) \in Mark
    BY <2>4, MarkTypes
  <2>9. Cat(v, b) \in Seq(Mark)
    BY <2>5, <1>2, CatProperties
  <2>10. Cat(Cat(v, b), <<Address(p)>>) = Cat(v, SubSeq(a, 1, i))
    <3> DEFINE q == <<Address(p)>> r == Cat(b, q)
    <3>1. q \in Seq(Mark) /\ Len(q) = 1 /\ q[1] = Address(p)
      BY <2>8
    <3> HIDE DEF q
    <3>2. /\ r \in Seq(Mark) /\ Len(r) = Len(b) + Len(q)
          /\ \A x \in 1..Len(b) + Len(q) : r[x] = IF x <= Len(b) THEN b[x] ELSE q[x - Len(b)]
          /\ Len(b) \in Nat /\ Len(q) \in Nat
      BY <2>5, <3>1, CatProperties
    <3> HIDE DEF r
    <3>3. (\A x \in 1..Len(b) : r[x] = b[x]) /\ \A x \in 1..Len(q) : r[Len(b) + x] = q[x]
      <4>1. ASSUME NEW x \in 1..Len(b) PROVE r[x] = b[x]
        BY <3>2
      <4>2. ASSUME NEW x \in 1..Len(q) PROVE r[Len(b) + x] = q[x]
        <5>1. Len(b) + x \in 1..Len(b) + Len(q) /\ ~ (Len(b) + x <= Len(b)) /\ (Len(b) + x) - Len(b) = x
          BY <3>2
        <5> QED  BY <5>1, <3>2
      <4> QED  BY <4>1, <4>2
    <3>4. Joined(Mark, b, q, r)
      BY <2>5, <3>1, <3>2, <3>3 DEF Joined
    <3>5. v \in Seq(Mark)
      BY <1>2
    <3>6. Cat(Cat(v, b), q) = Cat(v, r)
      BY <3>4, <3>5, CatJoins
    <3> QED  BY <3>6, <2>5 DEF q, r
  <2>11. ForwardResolve(Rec(D, Cat(Cat(v, b), <<Address(p)>>))) = Rec(AtMark(D, p), Cat(v, b))
    BY <2>4, <2>7, <2>9, DoResolve
  <2> QED  BY <2>2, <2>3, <2>6, <2>10, <2>11
<1>7. Downward(F, z, n, c)
  <2>1. \A k \in z..n : F[k] = IF k = n THEN c ELSE ForwardResolve(F[k + 1])
    BY <1>5, <1>6
  <2>2. F = [k \in z..n |-> F[k]]
    OBVIOUS
  <2> HIDE DEF F, c
  <2>3. F = [k \in z..n |-> IF k = n THEN c ELSE ForwardResolve(F[k + 1])]
    BY <2>1, <2>2
  <2> QED  BY <2>3 DEF Downward
<1>8. c.stack = S
  BY RecFields
<1>9. Max({k \in 1..n : c.stack[k].at = 0}) = z
  <2> DEFINE Z == {k \in 1..n : S[k].at = 0}
  <2>1. z \in Z
    BY <1>1, <1>4
  <2>2. ASSUME NEW k \in Z PROVE k <= z
    <3>1. SUFFICES ASSUME k > z PROVE FALSE
      BY <1>4
    <3>2. k - z \in 1..m /\ z + (k - z) = k
      BY <3>1, <1>4
    <3>3. S[z + (k - z)] = a[k - z]
      BY <3>2, <1>4
    <3>4. S[k] = a[k - z]
      BY <3>2, <3>3
    <3>5. a[k - z].at \in 1..Len(C)
      BY <3>2
    <3> QED  BY <3>4, <3>5
  <2>3. Z \in SUBSET (0..n)
    OBVIOUS
  <2> HIDE DEF Z
  <2>4. Max(Z) \in Z /\ \A y \in Z : y <= Max(Z)
    BY <2>1, <2>3, <1>4, MaxOfNumbers
  <2>5. \A x \in Z : z <= x => x = z
    BY <2>2, <2>3, <1>4
  <2>6. Max(Z) = z
    BY <2>1, <2>4, <2>5
  <2> HIDE DEF c
  <2> QED  BY <2>6, <1>8 DEF Z
<1> HIDE DEF F, c
<1>10. ResolveToZero(c) = F[z]
  BY <1>4, <1>7, <1>8, <1>9, ToZeroIs
<1>11. F[z] = Rec(AtMarks(C, {a[j].at : j \in 1..m}), v)
  <2>1. z \in z..n /\ z - z = 0 /\ (z - z) + 1 = 1
    BY <1>4
  <2>2. F[z] = Rec(AtMarks(C, M(z)), Cat(v, SubSeq(a, 1, z - z)))
    BY <2>1 DEF F
  <2>3. SubSeq(a, 1, 0) = <<>>
    OBVIOUS
  <2>4. Cat(v, <<>>) = v
    BY <1>2, CatEmpty
  <2>5. M(z) = {a[j].at : j \in 1..m}
    BY <2>1
  <2> HIDE DEF M
  <2> QED  BY <2>1, <2>2, <2>3, <2>4, <2>5
<1> QED  BY <1>10, <1>11 DEF c, S, v

(* endcase resolves the branches of all the endofs, and drops the zero that *)
(* case left.                                                               *)
LEMMA CompiledEndCase ==
  ASSUME NEW C \in Seq(Cell), NEW u \in Seq(Mark), NEW a \in Seq(Mark),
         \A i \in 1..Len(a) : a[i].at \in 1..Len(C) /\ a[i] = Address(a[i].at),
         \A i, j \in 1..Len(a) : i # j => a[i].at # a[j].at
  PROVE  LET D == AtMarks(Cat(C, RowOf("endcase", 0)), {a[i].at : i \in 1..Len(a)})
         IN  /\ Compiled("endcase", Rec(C, Cat(Cat(u, <<Address(0)>>), a))) = Rec(D, u)
             /\ Grown(C, "endcase", {a[i].at : i \in 1..Len(a)}, 0, D)
<1> DEFINE v == Cat(u, <<Address(0)>>)
           S == Cat(v, a)
           C1 == Cat(C, <<Op("drop")>>)
           marks == {a[i].at : i \in 1..Len(a)}
           D == AtMarks(C1, marks)
<1>1. Op("drop") \in Cell
  BY OpTypes
<1>2. C1 \in Seq(Cell) /\ Len(C1) = Len(C) + 1 /\ Len(C) \in Nat
  <2>1. C1 \in Seq(Cell) /\ Len(C1) = Len(C) + 1
    BY <1>1, Row1
  <2> QED  BY <2>1
<1>3. RowOf("endcase", 0) = <<Op("drop")>>
  BY DEF RowOf
<1>4. Compiled("endcase", Rec(C, S)) = Pop(ResolveToZero(Thread(Rec(C, S), <<"drop">>)))
  <2> HIDE DEF S
  <2> QED  BY DEF Compiled, EndCaseCompile
<1>5. Thread(Rec(C, S), <<"drop">>) = Rec(C1, S)
  BY DoThread1
<1>6. Grown(C, "endcase", {}, 0, C1)
  <2>1. "endcase" \in Words /\ 0 \in Int
    BY DEF Words, Checked
  <2>2. Grown(C, "endcase", {}, 0, Cat(C, RowOf("endcase", 0)))
    BY <2>1, GrownCat
  <2> QED  BY <2>2, <1>3
<1> HIDE DEF C1
<1>7. \A i \in 1..Len(a) : a[i].at \in 1..Len(C1) /\ a[i] = Address(a[i].at)
  BY <1>2
<1>8. ResolveToZero(Rec(C1, S)) = Rec(D, v)
  BY <1>2, <1>7, ResolvesAll
<1> HIDE DEF S, D
<1>9. Address(0) \in Mark
  <2>1. 0 \in Int
    OBVIOUS
  <2> QED  BY <2>1, MarkTypes
<1>10. Pop(Rec(D, v)) = Rec(D, u)
  BY <1>9, DoPop
<1>11. Compiled("endcase", Rec(C, S)) = Rec(D, u)
  BY <1>4, <1>5, <1>8, <1>10
<1>12. Grown(C, "endcase", marks, 0, D)
  <2>1. D \in Seq(Cell) /\ Len(D) = Len(C1)
    BY <1>2, AtMarksType DEF D
  <2>2. marks \in SUBSET (1..Len(C))
    OBVIOUS
  <2> HIDE DEF marks
  <2>3. /\ Len(C1) = Len(C) + Width("endcase")
        /\ \A i \in 1..Len(C) : C1[i] = C[i]
        /\ \A i \in 1..Width("endcase") : C1[Len(C) + i].op = Cells("endcase")[i]
        /\ ~ (OffPos("endcase") > 0)
    <3>1. OffPos("endcase") = 0
      BY DEF OffPos
    <3> QED  BY <1>6, <3>1 DEF Grown
  <2>4. D = [i \in 1..Len(C1) |-> IF i \in marks THEN [op |-> C1[i].op, offset |-> (Len(C1) + 1) - i] ELSE C1[i]]
    BY DEF D, AtMarks
  <2>5. ASSUME NEW i \in 1..Len(C)
        PROVE  D[i] = IF i \in marks THEN [op |-> C[i].op, offset |-> (Len(D) + 1) - i] ELSE C[i]
    <3>1. i \in 1..Len(C1)
      BY <1>2
    <3>2. D[i] = IF i \in marks THEN [op |-> C1[i].op, offset |-> (Len(C1) + 1) - i] ELSE C1[i]
      BY <3>1, <2>4
    <3> QED  BY <3>2, <2>1, <2>3
  <2>6. ASSUME NEW i \in 1..Width("endcase") PROVE D[Len(C) + i].op = Cells("endcase")[i]
    <3>1. Width("endcase") = 1
      <4>1. Cells("endcase") = <<"drop">>
        BY DEF Cells
      <4> QED  BY <4>1 DEF Width
    <3>2. Len(C) + i \in 1..Len(C1) /\ Len(C) + i \notin 1..Len(C)
      BY <1>2, <3>1
    <3>3. D[Len(C) + i] = C1[Len(C) + i]
      BY <3>2, <2>2, <2>4
    <3> QED  BY <3>3, <2>3
  <2>7. Len(D) = Len(C) + Width("endcase")
    BY <2>1, <2>3
  <2> QED  BY <2>1, <2>3, <2>5, <2>6, <2>7 DEF Grown
<1> QED  BY <1>3, <1>11, <1>12 DEF S, D, C1

----------------------------------------------------------------------------
(* The marks on the stack: the invariant of the compiler. *)

(* The marks on the stack.  full[j] is the stack from the bottom to the    *)
(* marks of the open word j; below them is what was there before word j.   *)
BaseOf(full, O) == IF O = {} THEN <<Address(0)>> ELSE full[Max(O)]

Marked(a, K) == /\ a \in Seq(Mark) /\ \A i \in 1..Len(a) : a[i] = Address(a[i].at)
                /\ \A i, j \in 1..Len(a) : i # j => a[i].at # a[j].at
                /\ {a[i].at : i \in 1..Len(a)} = K

DoMarks(s, st, B, j, m) ==
  m = Cat(B, <<Address(Off(s, st, j)), Address(st[j] + 4), Follow({"loop", "+loop"})>>)
IfMarks(s, st, B, j, m) ==
  \/ Parts(s, j) = {} /\ m = Cat(B, <<Address(Off(s, st, j)), Follow({"else", "then"})>>)
  \/ \E e \in Parts(s, j) : /\ Parts(s, j) = {e}
                            /\ m = Cat(B, <<Address(Off(s, st, e)), Follow({"then"})>>)
BeginMarks(s, st, B, j, m) ==
  \/ Parts(s, j) = {} /\ m = Cat(B, <<Address(st[j]), Follow({"again", "until", "while"})>>)
  \/ \E e \in Parts(s, j) : /\ Parts(s, j) = {e}
                            /\ m = Cat(B, <<Address(st[j]), Address(Off(s, st, e)), Follow({"repeat"})>>)
CaseMarks(s, st, B, j, m) ==
  \E a : /\ Marked(a, {Off(s, st, e) : e \in Parts(s, j)})
         /\ m = Cat(Cat(Cat(B, <<Address(0)>>), a), <<Follow({"of", "endcase"})>>)
OfMarks(s, st, B, j, m) ==
  \E x \in Seq(Mark) : /\ B = Cat(x, <<Follow({"of", "endcase"})>>)
                       /\ m = Cat(x, <<Address(Off(s, st, j)), Follow({"endof"})>>)

MarksOf(s, st, B, j, m) ==
  /\ s[j] \in {"do", "?do"} => DoMarks(s, st, B, j, m)
  /\ s[j] = "if" => IfMarks(s, st, B, j, m)
  /\ s[j] = "begin" => BeginMarks(s, st, B, j, m)
  /\ s[j] = "case" => CaseMarks(s, st, B, j, m)
  /\ s[j] = "of" => OfMarks(s, st, B, j, m)

Shape(s, st, full, j) == MarksOf(s, st, BaseOf(full, Opn(s, j - 1)), j, full[j])
Shapes(s, st, full) == \A j \in Opn(s, Len(s)) : Shape(s, st, full, j)
StackOf(s, full) == BaseOf(full, Opn(s, Len(s)))

Good(s, st, C, full) ==
  /\ Layout(s, st, C) /\ Legal(s) /\ Resolved(s, st, C)
  /\ full \in [Nat -> Seq(Mark)] /\ Shapes(s, st, full)

(* What a word leaves as it is. *)
LEMMA OffAppend ==
  ASSUME NEW s \in Seq(Words), NEW st \in Seq(Nat), Len(st) = Len(s), NEW w \in Words, NEW l \in Nat,
         NEW k \in 1..Len(s)
  PROVE  /\ Append(s, w)[k] = s[k] /\ Append(st, l)[k] = st[k]
         /\ Off(Append(s, w), Append(st, l), k) = Off(s, st, k)
<1>1. Append(s, w)[k] = s[k] /\ Append(st, l)[k] = st[k]
  OBVIOUS
<1> DEFINE z == Append(s, w) y == Append(st, l)
<1>2. z[k] = s[k] /\ y[k] = st[k]
  BY <1>1
<1> HIDE DEF z, y
<1>3. Off(z, y, k) = Off(s, st, k)
  BY <1>2 DEF Off
<1> QED  BY <1>1, <1>3 DEF z, y

(* The marks of a word stay right when a word is compiled that is no part of *)
(* its structure.                                                            *)
LEMMA MarksKeep ==
  ASSUME NEW s \in Seq(Words), NEW st \in Seq(Nat), Len(st) = Len(s), NEW w \in Words, NEW l \in Nat,
         NEW j \in 1..Len(s), NEW B, NEW m,
         Parts(Append(s, w), j) = Parts(s, j), MarksOf(s, st, B, j, m)
  PROVE  MarksOf(Append(s, w), Append(st, l), B, j, m)
<1> DEFINE z == Append(s, w) y == Append(st, l)
<1>1. \A k \in 1..Len(s) : z[k] = s[k] /\ y[k] = st[k] /\ Off(z, y, k) = Off(s, st, k)
  BY OffAppend
<1>2. Parts(s, j) \in SUBSET (1..Len(s))
  BY DEF Parts
<1>3. Parts(z, j) = Parts(s, j)
  OBVIOUS
<1> HIDE DEF z, y
<1>4. z[j] = s[j] /\ y[j] = st[j] /\ Off(z, y, j) = Off(s, st, j)
      /\ \A e \in Parts(s, j) : Off(z, y, e) = Off(s, st, e)
  BY <1>1, <1>2
<1>5. s[j] \in {"do", "?do"} => DoMarks(z, y, B, j, m)
  BY <1>4 DEF MarksOf, DoMarks
<1>6. s[j] = "if" => IfMarks(z, y, B, j, m)
  <2> SUFFICES ASSUME s[j] = "if" PROVE IfMarks(z, y, B, j, m)
    OBVIOUS
  <2>1. IfMarks(s, st, B, j, m)
    BY DEF MarksOf
  <2>2. CASE Parts(s, j) = {} /\ m = Cat(B, <<Address(Off(s, st, j)), Follow({"else", "then"})>>)
    BY <2>2, <1>3, <1>4 DEF IfMarks
  <2>3. CASE \E e \in Parts(s, j) : /\ Parts(s, j) = {e}
                                    /\ m = Cat(B, <<Address(Off(s, st, e)), Follow({"then"})>>)
    <3>1. PICK e \in Parts(s, j) : /\ Parts(s, j) = {e}
                                   /\ m = Cat(B, <<Address(Off(s, st, e)), Follow({"then"})>>)
      BY <2>3
    <3>2. Off(z, y, e) = Off(s, st, e)
      BY <1>4
    <3> QED  BY <3>1, <3>2, <1>3 DEF IfMarks
  <2> QED  BY <2>1, <2>2, <2>3 DEF IfMarks
<1>7. s[j] = "begin" => BeginMarks(z, y, B, j, m)
  <2> SUFFICES ASSUME s[j] = "begin" PROVE BeginMarks(z, y, B, j, m)
    OBVIOUS
  <2>1. BeginMarks(s, st, B, j, m)
    BY DEF MarksOf
  <2>2. CASE Parts(s, j) = {} /\ m = Cat(B, <<Address(st[j]), Follow({"again", "until", "while"})>>)
    BY <2>2, <1>3, <1>4 DEF BeginMarks
  <2>3. CASE \E e \in Parts(s, j) :
               /\ Parts(s, j) = {e}
               /\ m = Cat(B, <<Address(st[j]), Address(Off(s, st, e)), Follow({"repeat"})>>)
    <3>1. PICK e \in Parts(s, j) :
               /\ Parts(s, j) = {e}
               /\ m = Cat(B, <<Address(st[j]), Address(Off(s, st, e)), Follow({"repeat"})>>)
      BY <2>3
    <3>2. Off(z, y, e) = Off(s, st, e)
      BY <1>4
    <3> QED  BY <3>1, <3>2, <1>3, <1>4 DEF BeginMarks
  <2> QED  BY <2>1, <2>2, <2>3 DEF BeginMarks
<1>8. s[j] = "case" => CaseMarks(z, y, B, j, m)
  <2>1. {Off(z, y, e) : e \in Parts(z, j)} = {Off(s, st, e) : e \in Parts(s, j)}
    BY <1>3, <1>4
  <2>2. s[j] = "case" => CaseMarks(s, st, B, j, m)
    BY DEF MarksOf
  <2> QED  BY <2>1, <2>2 DEF CaseMarks
<1>9. s[j] = "of" => OfMarks(z, y, B, j, m)
  BY <1>4 DEF MarksOf, OfMarks
<1>10. MarksOf(z, y, B, j, m)
  BY <1>4, <1>5, <1>6, <1>7, <1>8, <1>9 DEF MarksOf
<1> QED  BY <1>10 DEF z, y

\* The marks of the words before word j are the same.
SameBelow(full2, full, j) == \A i \in 1..j - 1 : full2[i] = full[i]

(* What is below a word's marks stays when those of the words before it do. *)
LEMMA BaseKeeps ==
  ASSUME NEW s \in Seq(Words), NEW w \in Words, NEW full, NEW full2, NEW j \in 1..Len(s) + 1,
         SameBelow(full2, full, j)
  PROVE  BaseOf(full2, Opn(Append(s, w), j - 1)) = BaseOf(full, Opn(s, j - 1))
<1> DEFINE O == Opn(s, j - 1)
<1>1. j - 1 \in 0..Len(s) /\ j - 1 \in Nat
  OBVIOUS
<1>2. Opn(Append(s, w), j - 1) = O
  BY <1>1, AppendKeeps
<1>3. O \in SUBSET (0..j - 1) /\ O \in SUBSET (1..j - 1)
  BY DEF Opn
<1> HIDE DEF O
<1>4. CASE O # {}
  <2>1. Max(O) \in O
    BY <1>1, <1>3, <1>4, MaxOfNumbers
  <2>2. full2[Max(O)] = full[Max(O)]
    BY <2>1, <1>3 DEF SameBelow
  <2> QED  BY <2>2, <1>2, <1>4 DEF BaseOf, O
<1>5. CASE O = {}
  BY <1>2, <1>5 DEF BaseOf, O
<1> QED  BY <1>4, <1>5

(* The marks of the words below word t stay when those of t change. *)
LEMMA ShapeKeeps ==
  ASSUME NEW s, NEW st, NEW C, NEW full, Good(s, st, C, full), NEW w \in Words,
         NEW full2, NEW t, \A i \in Nat : i # t => full2[i] = full[i],
         NEW j \in Opn(s, Len(s)), t \in Nat => j < t, Parts(Append(s, w), j) = Parts(s, j)
  PROVE  Shape(Append(s, w), Append(st, Len(C) + 1), full2, j)
<1>1. /\ s \in Seq(Words) /\ st \in Seq(Nat) /\ Len(st) = Len(s) /\ Len(C) + 1 \in Nat
      /\ Shape(s, st, full, j)
  <2>1. Layout(s, st, C) /\ Shape(s, st, full, j)
    BY DEF Good, Shapes
  <2>2. C \in Seq(Cell) /\ s \in Seq(Words) /\ st \in Seq(Nat) /\ Len(st) = Len(s)
    BY <2>1 DEF Layout
  <2> QED  BY <2>1, <2>2
<1>2. j \in 1..Len(s) /\ j \in 1..Len(s) + 1 /\ j \in Nat
  BY <1>1 DEF Opn
<1>3. \A i \in 1..j : full2[i] = full[i]
  BY <1>2
<1>4. BaseOf(full2, Opn(Append(s, w), j - 1)) = BaseOf(full, Opn(s, j - 1))
  <2>1. SameBelow(full2, full, j)
    BY <1>2, <1>3 DEF SameBelow
  <2> QED  BY <1>1, <1>2, <2>1, BaseKeeps
<1>5. MarksOf(s, st, BaseOf(full, Opn(s, j - 1)), j, full[j])
  BY <1>1 DEF Shape
<1>6. MarksOf(Append(s, w), Append(st, Len(C) + 1), BaseOf(full, Opn(s, j - 1)), j, full[j])
  BY <1>1, <1>2, <1>5, MarksKeep
<1>7. full2[j] = full[j]
  BY <1>2, <1>3
<1> QED  BY <1>4, <1>6, <1>7 DEF Shape

Resolves(s, w) == {k \in 1..Len(s) : ~Settled(s, k) /\ Settled(Append(s, w), k)}

(* The compiler's invariant is kept when a word's row is added, what it       *)
(* settles is resolved, and the marks on the stack are those of the new text. *)
LEMMA GoodGrows ==
  ASSUME NEW s, NEW st, NEW C, NEW full, Good(s, st, C, full), NEW w \in Words,
         NEW d, NEW D, Grown(C, w, {Off(s, st, k) : k \in Resolves(s, w)}, d, D),
         OffPos(w) > 0 /\ w \notin Forward =>
           d = Place(st, C, Taken(Append(s, w), Len(s) + 1)) - (Len(C) + OffPos(w)),
         w \in Closing => Opn(s, Len(s)) # {}, LegalAt(Append(s, w), Len(s) + 1),
         NEW full2 \in [Nat -> Seq(Mark)], Shapes(Append(s, w), Append(st, Len(C) + 1), full2)
  PROVE  Good(Append(s, w), Append(st, Len(C) + 1), D, full2)
<1>1. Layout(s, st, C) /\ Legal(s) /\ Resolved(s, st, C)
  BY DEF Good
<1>2. s \in Seq(Words)
  BY <1>1 DEF Layout
<1>3. Legal(Append(s, w))
  BY <1>1, <1>2, LegalAppend
<1>4. Extends(s, st, C, w, D)
  <2> DEFINE z == Append(s, w) n == Len(s) l == Len(C)
             resolves == {k \in 1..n : ~Settled(s, k) /\ Settled(z, k)}
             marks == {Off(s, st, k) : k \in resolves}
  <2>1. resolves = Resolves(s, w)
    BY DEF Resolves
  <2> HIDE DEF resolves
  <2>2. marks = {Off(s, st, k) : k \in Resolves(s, w)}
    BY <2>1
  <2> HIDE DEF marks
  <2>3. /\ D \in Seq(Cell) /\ Len(D) = l + Width(w)
        /\ \A i \in 1..l : D[i] = IF i \in marks THEN [op |-> C[i].op, offset |-> (Len(D) + 1) - i]
                                  ELSE C[i]
        /\ \A i \in 1..Width(w) : D[l + i].op = Cells(w)[i]
        /\ OffPos(w) > 0 => D[l + OffPos(w)].offset = d
    BY <2>2, Zenon DEF Grown
  <2>4. OffPos(w) > 0 /\ w \notin Forward =>
           D[l + OffPos(w)].offset = Place(st, C, Taken(z, n + 1)) - (l + OffPos(w))
    BY <2>3
  <2>5. \A i \in 1..l : D[i] = IF i \in marks THEN [op |-> C[i].op, offset |-> Len(D) + 1 - i]
                                ELSE C[i]
    <3>1. Len(D) \in Nat
      BY <2>3
    <3>2. \A i \in 1..l : Len(D) + 1 - i = (Len(D) + 1) - i
      BY <3>1
    <3> HIDE DEF l
    <3> QED  BY <2>3, <3>2, Zenon
  <2> HIDE DEF z, n, l
  <2> QED  BY <2>3, <2>4, <2>5, Zenon DEF Extends, marks, resolves, z, n, l
<1>5. Layout(Append(s, w), Append(st, Len(C) + 1), D)
  BY <1>1, <1>4, LayoutExtends
<1>6. Resolved(Append(s, w), Append(st, Len(C) + 1), D)
  <2>1. Balanced(Append(s, w))
    BY <1>3 DEF Legal
  <2> QED  BY <1>1, <1>4, <2>1, ResolvedExtends
<1> QED  BY <1>3, <1>5, <1>6 DEF Good

(* Only else, while and endof are parts of a structure. *)
LEMMA PartsKept ==
  ASSUME NEW s \in Seq(Words), NEW w \in Words \ Continuing, NEW j \in 1..Len(s)
  PROVE  Parts(Append(s, w), j) = Parts(s, j)
<1>1. w # Part(s[j])
  <2>1. Part(s[j]) \in Continuing \cup {"none"}
    BY DEF Part, Continuing
  <2>2. "none" \notin Words
    BY DEF Words, Openers, Checked, Plain
  <2> QED  BY <2>1, <2>2
<1>2. Parts(Append(s, w), j) =
           Parts(s, j) \cup {e \in {Len(s) + 1} : /\ w = Part(s[j])
                                                  /\ Lev(Append(s, w), e) = Lev(s, j)
                                                  /\ Live(Append(s, w), j, e)}
  BY PartsAppend
<1> QED  BY <1>1, <1>2

(* A new word has no parts. *)
LEMMA PartsNew ==
  ASSUME NEW s \in Seq(Words), NEW w \in Words
  PROVE  Parts(Append(s, w), Len(s) + 1) = {}
<1>1. Len(Append(s, w)) = Len(s) + 1 /\ Len(s) \in Nat
  OBVIOUS
<1>2. (Len(s) + 1) + 1..Len(Append(s, w)) = {}
  BY <1>1
<1> QED  BY <1>2 DEF Parts

(* else, while and endof are parts of the structure open last, and of no *)
(* other.                                                                *)
LEMMA PartsContinued ==
  ASSUME NEW s \in Seq(Words), NEW w \in Continuing, Legal(Append(s, w))
  PROVE  LET z == Append(s, w) n == Len(s) t == Top(z, n + 1)
         IN  /\ t \in Opn(z, n + 1) /\ t \in 1..n
             /\ Parts(z, t) = Parts(s, t) \cup {n + 1}
             /\ \A j \in Opn(z, n + 1) : j <= t /\ (j # t => Parts(z, j) = Parts(s, j))
<1> DEFINE z == Append(s, w) n == Len(s) t == Top(z, n + 1)
<1>1. w \in Words
  BY DEF Continuing, Words, Checked
<1>2. Len(z) = n + 1 /\ n \in Nat /\ n + 1 \in 1..Len(z) /\ z[n + 1] = w
      /\ n + 1 \in Nat /\ (n + 1) - 1 = n
  OBVIOUS
<1>3. Legal(z) /\ Balanced(z)
  BY DEF Legal
<1>p. \A j \in 1..n : Parts(z, j) = Parts(s, j) \cup {e \in {n + 1} : /\ w = Part(s[j])
                                                                     /\ Lev(z, e) = Lev(s, j)
                                                                     /\ Live(z, j, e)}
  BY <1>1, PartsAppend
<1>l. \A j \in 1..n : z[j] = s[j] /\ Lev(z, j) = Lev(s, j)
  <2>1. \A j \in 0..n : Lev(z, j) = Lev(s, j)
    BY <1>1, AppendKeeps
  <2> QED  BY <2>1
<1> HIDE DEF z, n
<1>4. /\ Opn(z, n + 1) # {} /\ t \in Opn(z, n + 1) /\ t \in 1..(n + 1) - 1
      /\ z[n + 1] = Part(z[t])
      /\ Lev(z, t) = Lev(z, n + 1) /\ Live(z, t, n + 1)
  BY <1>2, <1>3, OwnerOf
<1>5. t \in 1..n
  BY <1>2, <1>4
<1>6. /\ \A j \in Opn(z, n + 1) : j <= t
      /\ \A j \in Opn(z, n + 1) : Lev(z, j) = Lev(z, n + 1) => j = t
  BY <1>2, <1>3, <1>4, TopIsDeepest
<1> HIDE DEF t
<1>7. Parts(z, t) = Parts(s, t) \cup {n + 1}
  BY <1>2, <1>4, <1>5, <1>p, <1>l
<1>8. ASSUME NEW j \in Opn(z, n + 1), j # t PROVE Parts(z, j) = Parts(s, j)
  <2>1. Lev(z, j) # Lev(z, n + 1)
    BY <1>6, <1>8
  <2>2. j \in 1..n
    <3>1. j \in 1..n + 1 /\ j <= t
      BY <1>6 DEF Opn
    <3> QED  BY <3>1, <1>2, <1>5
  <2>3. Lev(z, j) = Lev(s, j)
    BY <2>2, <1>l
  <2> QED  BY <2>1, <2>2, <2>3, <1>p
<1> QED  BY <1>4, <1>5, <1>6, <1>7, <1>8 DEF z, n, t

(* The offset of a word's branch is a cell of the code. *)
LEMMA OffInCode ==
  ASSUME NEW s, NEW st, NEW C, Layout(s, st, C), NEW k \in 1..Len(s), OffPos(s[k]) > 0
  PROVE  Off(s, st, k) \in 1..Len(C) /\ Off(s, st, k) \in Int /\ C \in Seq(Cell)
<1>1. s[k] \in Words /\ C \in Seq(Cell)
  BY DEF Layout
<1>2. OffPos(s[k]) \in 1..Width(s[k])
  <2>1. Width(s[k]) \in Nat /\ OffPos(s[k]) \in 0..Width(s[k])
    BY <1>1, CellsOfWord
  <2> QED  BY <2>1
<1>3. st[k] + OffPos(s[k]) - 1 \in 1..Len(C)
  BY <1>2, OffsetInCode
<1>4. Off(s, st, k) \in 1..Len(C)
  BY <1>3 DEF Off
<1> QED  BY <1>1, <1>4

(* Types of what the compiler's invariant speaks of. *)
LEMMA GoodTypes ==
  ASSUME NEW s, NEW st, NEW C, NEW full, Good(s, st, C, full)
  PROVE  /\ s \in Seq(Words) /\ st \in Seq(Nat) /\ C \in Seq(Cell) /\ Len(st) = Len(s)
         /\ full \in [Nat -> Seq(Mark)] /\ Balanced(s) /\ Legal(s) /\ Layout(s, st, C)
         /\ Len(s) \in Nat /\ Len(C) \in Nat
<1>1. Layout(s, st, C) /\ Legal(s) /\ full \in [Nat -> Seq(Mark)]
  BY DEF Good
<1>2. Balanced(s)
  BY <1>1 DEF Legal
<1>3. s \in Seq(Words) /\ st \in Seq(Nat) /\ C \in Seq(Cell) /\ Len(st) = Len(s)
  BY <1>1 DEF Layout
<1>4. Len(s) \in Nat /\ Len(C) \in Nat
  BY <1>3
<1> QED  BY <1>1, <1>2, <1>3, <1>4

(* What is below the marks is a stack. *)
LEMMA BaseType ==
  ASSUME NEW full \in [Nat -> Seq(Mark)], NEW s, NEW k \in Nat
  PROVE  BaseOf(full, Opn(s, k)) \in Seq(Mark)
<1>1. CASE Opn(s, k) = {}
  <2>1. Address(0) \in Mark
    BY MarkTypes
  <2>2. <<Address(0)>> \in Seq(Mark)
    BY <2>1
  <2> QED  BY <1>1, <2>2 DEF BaseOf
<1>2. CASE Opn(s, k) # {}
  <2>1. Opn(s, k) \in SUBSET (0..k)
    BY DEF Opn
  <2>2. Max(Opn(s, k)) \in Opn(s, k)
    BY <1>2, <2>1, MaxOfNumbers
  <2>3. Max(Opn(s, k)) \in Nat
    BY <2>1, <2>2
  <2> QED  BY <1>2, <2>3 DEF BaseOf
<1> QED  BY <1>1, <1>2

(* The top of a stack of one more mark. *)
LEMMA LastOfRow ==
  ASSUME NEW u \in Seq(Mark), NEW x \in Mark
  PROVE  Last(Cat(u, <<x>>)) = x
<1>1. Last(u \o <<x>>) = x
  BY EndsOfRow
<1> QED  BY <1>1, Zenon DEF Cat

(* Tops of stacks, and Pop. *)
LEMMA RowEnds ==
  ASSUME NEW u \in Seq(Mark), NEW x \in Mark, NEW y \in Mark, NEW z \in Mark
  PROVE  /\ Last(Cat(u, <<x>>)) = x /\ Last(Cat(u, <<x, y>>)) = y /\ Last(Cat(u, <<x, y, z>>)) = z
         /\ Cat(u, <<x>>) \in Seq(Mark) /\ Cat(u, <<x, y>>) \in Seq(Mark)
         /\ Cat(u, <<x, y, z>>) \in Seq(Mark)
         /\ \A C : /\ Pop(Rec(C, Cat(u, <<x>>))) = Rec(C, u)
                   /\ Pop(Rec(C, Cat(u, <<x, y>>))) = Rec(C, Cat(u, <<x>>))
                   /\ Pop(Rec(C, Cat(u, <<x, y, z>>))) = Rec(C, Cat(u, <<x, y>>))
<1>2. /\ Cat(u, <<x>>) \in Seq(Mark) /\ Cat(u, <<x, y>>) \in Seq(Mark)
      /\ Cat(Cat(u, <<x>>), <<y>>) = Cat(u, <<x, y>>)
  BY Row1, Row2
<1>3. /\ Cat(u, <<x, y, z>>) \in Seq(Mark)
      /\ Cat(Cat(u, <<x, y>>), <<z>>) = Cat(u, <<x, y, z>>)
  BY Row3
<1>1. Last(Cat(u, <<x>>)) = x /\ Last(Cat(u, <<x, y>>)) = y /\ Last(Cat(u, <<x, y, z>>)) = z
  <2>1. Last(Cat(u, <<x>>)) = x
    BY LastOfRow
  <2>2. Last(Cat(Cat(u, <<x>>), <<y>>)) = y
    BY <1>2, LastOfRow
  <2>3. Last(Cat(Cat(u, <<x, y>>), <<z>>)) = z
    BY <1>2, <1>3, LastOfRow
  <2> QED  BY <2>1, <2>2, <2>3, <1>2, <1>3
<1>4. ASSUME NEW C
      PROVE  /\ Pop(Rec(C, Cat(u, <<x>>))) = Rec(C, u)
             /\ Pop(Rec(C, Cat(u, <<x, y>>))) = Rec(C, Cat(u, <<x>>))
             /\ Pop(Rec(C, Cat(u, <<x, y, z>>))) = Rec(C, Cat(u, <<x, y>>))
  <2>1. Pop(Rec(C, Cat(u, <<x>>))) = Rec(C, u)
    BY DoPop
  <2>2. Pop(Rec(C, Cat(Cat(u, <<x>>), <<y>>))) = Rec(C, Cat(u, <<x>>))
    BY <1>2, DoPop
  <2>3. Pop(Rec(C, Cat(Cat(u, <<x, y>>), <<z>>))) = Rec(C, Cat(u, <<x, y>>))
    BY <1>2, DoPop
  <2> QED  BY <2>1, <2>2, <2>3, <1>2, <1>3
<1> QED  BY <1>1, <1>2, <1>3, <1>4

(* The stack inside an open structure, and outside of all. *)
LEMMA StackInside ==
  ASSUME NEW s, NEW st, NEW C, NEW full, Good(s, st, C, full), Opn(s, Len(s)) # {}
  PROVE  LET t == Top(s, Len(s)) B == BaseOf(full, Opn(s, t - 1))
         IN  /\ StackOf(s, full) = full[t] /\ t \in Opn(s, Len(s)) /\ t \in 1..Len(s)
             /\ s[t] \in Opening /\ B \in Seq(Mark) /\ MarksOf(s, st, B, t, full[t])
<1> DEFINE t == Top(s, Len(s)) B == BaseOf(full, Opn(s, t - 1))
<1>1. Balanced(s) /\ Len(s) \in Nat /\ full \in [Nat -> Seq(Mark)]
  BY GoodTypes
<1>2. t \in Opn(s, Len(s)) /\ t \in 1..Len(s)
  BY <1>1, TopIsDeepest
<1>3. StackOf(s, full) = full[t]
  BY DEF StackOf, BaseOf, Top
<1>4. s[t] \in Opening
  BY <1>2 DEF Opn
<1>5. t - 1 \in Nat
  BY <1>2
<1>6. B \in Seq(Mark)
  BY <1>1, <1>5, BaseType
<1>7. MarksOf(s, st, B, t, full[t])
  BY <1>2 DEF Good, Shapes, Shape
<1> QED  BY <1>2, <1>3, <1>4, <1>6, <1>7

(* Outside of all structures nothing may follow. *)
LEMMA StackOutside ==
  ASSUME NEW s, NEW full, Opn(s, Len(s)) = {}
  PROVE  Last(StackOf(s, full)).follow = {}
<1>1. StackOf(s, full) = <<Address(0)>>
  BY DEF StackOf, BaseOf
<1>2. Last(<<Address(0)>>) = Address(0)
  BY DEF Last
<1> QED  BY <1>1, <1>2, MarkTypes

(* A function changed at one number. *)
LEMMA Overridden ==
  ASSUME NEW S, NEW g \in [Nat -> S], NEW k \in Nat, NEW m \in S
  PROVE  /\ [g EXCEPT ![k] = m] \in [Nat -> S] /\ [g EXCEPT ![k] = m][k] = m
         /\ \A i \in Nat : i # k => [g EXCEPT ![k] = m][i] = g[i]
  OBVIOUS

(* A new word is the greatest. *)
LEMMA NewTop ==
  ASSUME NEW n \in Nat, NEW O \in SUBSET (1..n)
  PROVE  Max(O \cup {n + 1}) = n + 1
<1> DEFINE P == O \cup {n + 1}
<1>1. n + 1 \in Nat /\ P \in SUBSET (0..n + 1) /\ P # {} /\ n + 1 \in P
      /\ \A i \in P : i <= n + 1
  OBVIOUS
<1> HIDE DEF P
<1>2. Max(P) \in P /\ \A i \in P : i <= Max(P)
  BY <1>1, MaxOfNumbers
<1>3. Max(P) <= n + 1 /\ n + 1 <= Max(P) /\ Max(P) \in 0..n + 1
  BY <1>1, <1>2
<1>4. Max(P) = n + 1
  BY <1>3
<1> QED  BY <1>4 DEF P

(* The stack under a new word is the stack before it. *)
LEMMA BaseStays ==
  ASSUME NEW s \in Seq(Words), NEW w \in Words, NEW full, NEW full2,
         \A i \in 1..Len(s) : full2[i] = full[i]
  PROVE  BaseOf(full2, Opn(Append(s, w), Len(s))) = BaseOf(full, Opn(s, Len(s)))
<1> DEFINE Stays(j) == (\A i \in 1..j - 1 : full2[i] = full[i]) =>
                         BaseOf(full2, Opn(Append(s, w), j - 1)) = BaseOf(full, Opn(s, j - 1))
<1>1. ASSUME NEW j \in 1..Len(s) + 1 PROVE Stays(j)
  <2>1. SUFFICES ASSUME \A i \in 1..j - 1 : full2[i] = full[i]
                 PROVE  BaseOf(full2, Opn(Append(s, w), j - 1)) = BaseOf(full, Opn(s, j - 1))
    OBVIOUS
  <2>2. SameBelow(full2, full, j)
    BY <2>1 DEF SameBelow
  <2> QED  BY <2>2, BaseKeeps
<1>2. Len(s) + 1 \in 1..Len(s) + 1 /\ (Len(s) + 1) - 1 = Len(s)
  OBVIOUS
<1> HIDE DEF Stays
<1>3. Stays(Len(s) + 1)
  BY <1>1, <1>2, Zenon
<1> QED  BY <1>2, <1>3 DEF Stays

(* A word that opens a structure keeps the compiler's invariant if the marks *)
(* it leaves are right.                                                      *)
LEMMA OpensGrow ==
  ASSUME NEW s, NEW st, NEW C, NEW full, Good(s, st, C, full), NEW w \in Opening,
         NEW D, Grown(C, w, {}, 0, D), LegalAt(Append(s, w), Len(s) + 1),
         NEW m \in Seq(Mark),
         MarksOf(Append(s, w), Append(st, Len(C) + 1), StackOf(s, full), Len(s) + 1, m)
  PROVE  \E f : Good(Append(s, w), Append(st, Len(C) + 1), D, f) /\ StackOf(Append(s, w), f) = m
<1> DEFINE z == Append(s, w) y == Append(st, Len(C) + 1) n == Len(s)
           f == [full EXCEPT ![n + 1] = m]
<1>1. /\ s \in Seq(Words) /\ st \in Seq(Nat) /\ C \in Seq(Cell) /\ Len(st) = Len(s)
      /\ full \in [Nat -> Seq(Mark)] /\ Balanced(s) /\ n \in Nat
  BY GoodTypes
<1>2. w \in Words /\ w \notin Closing /\ w \notin Continuing /\ w # "else" /\ w # "tail-recurse"
      /\ w \in Words \ Continuing /\ w \in Words \ Closing
  BY DEF Opening, Openers, Closing, Checked, Continuing, Words, Plain
<1>3. f \in [Nat -> Seq(Mark)] /\ f[n + 1] = m /\ \A i \in Nat : i # n + 1 => f[i] = full[i]
  <2>1. n + 1 \in Nat
    BY <1>1
  <2> QED  BY <1>1, <2>1, Overridden
<1>4. Resolves(s, w) = {}
  BY <1>1, <1>2, NothingSettled DEF Resolves
<1>5. {Off(s, st, k) : k \in Resolves(s, w)} = {}
  BY <1>4
<1>6. ~(OffPos(w) > 0 /\ w \notin Forward)
  BY <1>2, CellsOfWord
<1>7. Opn(z, n + 1) = Opn(s, n) \cup {n + 1} /\ Opn(z, n + 1 - 1) = Opn(s, n)
  BY <1>1, <1>2, OpenAppend
<1>8. Len(z) = n + 1 /\ n + 1 - 1 = n /\ (n + 1) - 1 = n /\ n + 1 \in Nat
  BY <1>1
<1> HIDE DEF f
<1>9. Shapes(z, y, f)
  <2>1. ASSUME NEW j \in Opn(s, n) PROVE Shape(z, y, f, j)
    <3>1. j \in 1..n
      BY DEF Opn
    <3>2. Parts(z, j) = Parts(s, j)
      BY <1>1, <1>2, <3>1, PartsKept
    <3>3. j < n + 1
      BY <3>1, <1>1
    <3> QED  BY <1>2, <1>3, <3>2, <3>3, ShapeKeeps
  <2>2. Shape(z, y, f, n + 1)
    <3>1. \A i \in 1..n : f[i] = full[i]
      BY <1>1, <1>3
    <3>3. BaseOf(f, Opn(z, n)) = BaseOf(full, Opn(s, n))
      BY <1>1, <1>2, <3>1, BaseStays
    <3>4. BaseOf(f, Opn(z, (n + 1) - 1)) = StackOf(s, full)
      BY <3>3, <1>8 DEF StackOf
    <3> QED  BY <1>3, <3>4 DEF Shape
  <2> QED  BY <2>1, <2>2, <1>7, <1>8 DEF Shapes
<1>10. Good(z, y, D, f)
  <2>1. Grown(C, w, {Off(s, st, k) : k \in Resolves(s, w)}, 0, D)
    BY <1>5
  <2>2. /\ OffPos(w) > 0 /\ w \notin Forward => 0 = Place(st, C, Taken(z, n + 1)) - (Len(C) + OffPos(w))
        /\ w \in Closing => Opn(s, n) # {}
    BY <1>2, <1>6
  <2> QED  BY <1>2, <1>3, <1>9, <2>1, <2>2, GoodGrows
<1>11. StackOf(z, f) = m
  <2>1. Opn(s, n) \in SUBSET (1..n)
    BY DEF Opn
  <2>2. Opn(z, n + 1) # {}
    BY <1>7
  <2>4. Max(Opn(z, n + 1)) = n + 1
    BY <2>1, <1>7, <1>1, NewTop
  <2> QED  BY <2>2, <2>4, <1>3, <1>8 DEF StackOf, BaseOf
<1> QED  BY <1>10, <1>11

(* A word that neither opens nor goes on with a structure leaves the marks *)
(* below as they are.                                                      *)
LEMMA StayGood ==
  ASSUME NEW s, NEW st, NEW C, NEW full, Good(s, st, C, full), NEW w \in Words \ (Opening \cup Continuing),
         NEW d, NEW D, Grown(C, w, {Off(s, st, k) : k \in Resolves(s, w)}, d, D),
         OffPos(w) > 0 /\ w \notin Forward =>
           d = Place(st, C, Taken(Append(s, w), Len(s) + 1)) - (Len(C) + OffPos(w)),
         w \in Closing => Opn(s, Len(s)) # {}, LegalAt(Append(s, w), Len(s) + 1)
  PROVE  Good(Append(s, w), Append(st, Len(C) + 1), D, full)
<1> DEFINE z == Append(s, w) y == Append(st, Len(C) + 1) n == Len(s)
<1>1. /\ s \in Seq(Words) /\ full \in [Nat -> Seq(Mark)] /\ Balanced(s) /\ n \in Nat
  BY GoodTypes
<1>2. w \in Words /\ w \in Words \ Continuing
  OBVIOUS
<1>3. Len(z) = n + 1
  BY <1>1
<1>4. Opn(z, n + 1) \subseteq Opn(s, n)
  BY <1>1, <1>2, OpenAppend
<1>5. Shapes(z, y, full)
  <2>1. ASSUME NEW j \in Opn(s, n) PROVE Shape(z, y, full, j)
    <3>1. j \in 1..n
      BY DEF Opn
    <3>2. Parts(z, j) = Parts(s, j)
      BY <1>1, <1>2, <3>1, PartsKept
    <3>3. n + 1 \in Nat => j < n + 1
      BY <3>1, <1>1
    <3>4. \A i \in Nat : i # n + 1 => full[i] = full[i]
      OBVIOUS
    <3> QED  BY <1>2, <3>2, <3>3, <3>4, ShapeKeeps
  <2> QED  BY <2>1, <1>3, <1>4 DEF Shapes
<1> QED  BY <1>1, <1>2, <1>5, GoodGrows

(* A word of no structure leaves the stack as it is. *)
LEMMA PlainGrow ==
  ASSUME NEW s, NEW st, NEW C, NEW full, Good(s, st, C, full), NEW w \in Plain \cup {"semicolon"},
         NEW d, NEW D, Grown(C, w, {}, d, D),
         OffPos(w) > 0 => d = Place(st, C, Taken(Append(s, w), Len(s) + 1)) - (Len(C) + OffPos(w)),
         LegalAt(Append(s, w), Len(s) + 1)
  PROVE  /\ Good(Append(s, w), Append(st, Len(C) + 1), D, full)
         /\ StackOf(Append(s, w), full) = StackOf(s, full)
<1>1. /\ s \in Seq(Words) /\ Balanced(s) /\ Len(s) \in Nat
  BY GoodTypes
<1>2. w \in Words \ (Opening \cup Continuing) /\ w \notin Closing /\ w # "else" /\ w \in Words
      /\ w \in Words \ Closing /\ w \notin Opening \cup Closing
  BY DEF Opening, Openers, Closing, Checked, Continuing, Words, Plain
<1>3. Resolves(s, w) = {}
  BY <1>1, <1>2, NothingSettled DEF Resolves
<1>4. {Off(s, st, k) : k \in Resolves(s, w)} = {}
  BY <1>3
<1>5. Good(Append(s, w), Append(st, Len(C) + 1), D, full)
  <2>1. Grown(C, w, {Off(s, st, k) : k \in Resolves(s, w)}, d, D)
    BY <1>4
  <2>2. /\ OffPos(w) > 0 /\ w \notin Forward =>
             d = Place(st, C, Taken(Append(s, w), Len(s) + 1)) - (Len(C) + OffPos(w))
        /\ w \in Closing => Opn(s, Len(s)) # {}
    BY <1>2
  <2> QED  BY <1>2, <2>1, <2>2, StayGood
<1>6. Opn(Append(s, w), Len(s) + 1) = Opn(s, Len(s)) /\ Len(Append(s, w)) = Len(s) + 1
  BY <1>1, <1>2, OpenAppend
<1> QED  BY <1>5, <1>6 DEF StackOf

(* A word that ends a structure leaves the stack that was there before the *)
(* structure.                                                              *)
LEMMA ClosesGrow ==
  ASSUME NEW s, NEW st, NEW C, NEW full, Good(s, st, C, full), NEW w \in Closing \ Continuing,
         NEW d, NEW D, Grown(C, w, {Off(s, st, k) : k \in Resolves(s, w)}, d, D),
         OffPos(w) > 0 => d = Place(st, C, Taken(Append(s, w), Len(s) + 1)) - (Len(C) + OffPos(w)),
         Opn(s, Len(s)) # {}, LegalAt(Append(s, w), Len(s) + 1)
  PROVE  /\ Good(Append(s, w), Append(st, Len(C) + 1), D, full)
         /\ StackOf(Append(s, w), full) = BaseOf(full, Opn(s, Top(s, Len(s)) - 1))
<1>1. /\ s \in Seq(Words) /\ Balanced(s) /\ Len(s) \in Nat
  BY GoodTypes
<1>2. w \in Words \ (Opening \cup Continuing) /\ w \in Closing /\ w \in Words
  BY DEF Opening, Openers, Closing, Checked, Continuing, Words, Plain
<1>5. Good(Append(s, w), Append(st, Len(C) + 1), D, full)
  <2>2. OffPos(w) > 0 /\ w \notin Forward =>
           d = Place(st, C, Taken(Append(s, w), Len(s) + 1)) - (Len(C) + OffPos(w))
    OBVIOUS
  <2> QED  BY <1>2, <2>2, StayGood
<1>6. Opn(Append(s, w), Len(s) + 1) = Opn(s, Top(s, Len(s)) - 1) /\ Len(Append(s, w)) = Len(s) + 1
  BY <1>1, <1>2, OpenAppend
<1> QED  BY <1>5, <1>6 DEF StackOf

(* A word that goes on with a structure replaces the marks of the structure. *)
LEMMA ContinuesGrow ==
  ASSUME NEW s, NEW st, NEW C, NEW full, Good(s, st, C, full), NEW w \in Continuing,
         NEW D, Grown(C, w, {Off(s, st, k) : k \in Resolves(s, w)}, 0, D),
         Opn(s, Len(s)) # {}, LegalAt(Append(s, w), Len(s) + 1),
         NEW m \in Seq(Mark), NEW t, t = Top(Append(s, w), Len(s) + 1),
         MarksOf(Append(s, w), Append(st, Len(C) + 1), BaseOf(full, Opn(s, t - 1)), t, m)
  PROVE  \E f : Good(Append(s, w), Append(st, Len(C) + 1), D, f) /\ StackOf(Append(s, w), f) = m
<1> DEFINE z == Append(s, w) y == Append(st, Len(C) + 1) n == Len(s)
           f == [full EXCEPT ![t] = m]
<1>1. /\ s \in Seq(Words) /\ full \in [Nat -> Seq(Mark)] /\ Balanced(s) /\ Legal(s) /\ n \in Nat
  BY GoodTypes
<1>2. w \in Words /\ w \in Forward /\ w \notin Opening
  BY DEF Opening, Openers, Checked, Continuing, Words, Forward
<1>3. Legal(z)
  BY <1>1, <1>2, LegalAppend
<1>4. /\ t \in Opn(z, n + 1) /\ t \in 1..n
      /\ \A j \in Opn(z, n + 1) : j <= t /\ (j # t => Parts(z, j) = Parts(s, j))
  BY <1>1, <1>3, PartsContinued
<1>5. Len(z) = n + 1
  BY <1>1
<1>6. Opn(z, n + 1) \subseteq Opn(s, n)
  BY <1>1, <1>2, OpenAppend
<1>7. f \in [Nat -> Seq(Mark)] /\ f[t] = m /\ \A i \in Nat : i # t => f[i] = full[i]
  <2>1. t \in Nat
    BY <1>4
  <2> QED  BY <1>1, <2>1, Overridden
<1> HIDE DEF f
<1>8. Shapes(z, y, f)
  <2>1. ASSUME NEW j \in Opn(z, n + 1), j # t PROVE Shape(z, y, f, j)
    <3>1. j \in Opn(s, n) /\ j \in 1..n
      BY <1>6 DEF Opn
    <3>2. Parts(z, j) = Parts(s, j) /\ j <= t
      BY <1>4, <2>1
    <3>3. t \in Nat => j < t
      BY <3>1, <3>2, <1>4, <2>1
    <3> QED  BY <1>2, <1>7, <3>1, <3>2, <3>3, ShapeKeeps
  <2>2. Shape(z, y, f, t)
    <3>1. SameBelow(f, full, t)
      <4>1. \A i \in 1..t - 1 : i \in Nat /\ i # t
        BY <1>4
      <4> QED  BY <4>1, <1>7 DEF SameBelow
    <3>2. t \in 1..Len(s) + 1
      BY <1>1, <1>4
    <3>3. BaseOf(f, Opn(z, t - 1)) = BaseOf(full, Opn(s, t - 1))
      BY <1>1, <1>2, <3>1, <3>2, BaseKeeps
    <3> QED  BY <1>7, <3>3 DEF Shape
  <2> QED  BY <2>1, <2>2, <1>5 DEF Shapes
<1>9. Good(z, y, D, f)
  <2>2. OffPos(w) > 0 /\ w \notin Forward => 0 = Place(st, C, Taken(z, n + 1)) - (Len(C) + OffPos(w))
    BY <1>2
  <2> QED  BY <1>2, <1>7, <1>8, <2>2, GoodGrows
<1>10. StackOf(z, f) = m
  <2>1. Opn(z, n + 1) # {}
    BY <1>4
  <2> QED  BY <2>1, <1>5, <1>7 DEF StackOf, BaseOf, Top
<1> QED  BY <1>9, <1>10

----------------------------------------------------------------------------
(* Every word keeps the invariant of the compiler. *)

Grew(s, st, C, w, c) ==
  \E D, f : /\ c = Rec(D, StackOf(Append(s, w), f))
            /\ Good(Append(s, w), Append(st, Len(C) + 1), D, f)

(* The word put at the end, and the address of its offset. *)
LEMMA NewWord ==
  ASSUME NEW s, NEW st, NEW C, NEW full, Good(s, st, C, full), NEW w \in Words
  PROVE  LET z == Append(s, w) y == Append(st, Len(C) + 1) n == Len(s)
         IN  /\ z[n + 1] = w /\ y[n + 1] = Len(C) + 1 /\ Off(z, y, n + 1) = Len(C) + OffPos(w)
             /\ (n + 1) - 1 = n /\ Len(C) \in Nat /\ OffPos(w) \in Nat /\ n \in Nat
             /\ Len(z) = n + 1 /\ Opn(z, n) = Opn(s, n) /\ \A k \in 1..n : z[k] = s[k]
<1> DEFINE z == Append(s, w) y == Append(st, Len(C) + 1) n == Len(s)
<1>1. /\ s \in Seq(Words) /\ st \in Seq(Nat) /\ Len(st) = Len(s) /\ n \in Nat /\ Len(C) \in Nat
  BY GoodTypes
<1>2. z[n + 1] = w /\ y[n + 1] = Len(C) + 1 /\ (n + 1) - 1 = n /\ Len(z) = n + 1
      /\ \A k \in 1..n : z[k] = s[k]
  BY <1>1
<1>3. OffPos(w) \in Nat
  <2>1. Width(w) \in Nat /\ OffPos(w) \in 0..Width(w)
    BY CellsOfWord
  <2> QED  BY <2>1
<1>4. Opn(z, n) = Opn(s, n)
  <2>1. n \in 0..Len(s)
    BY <1>1
  <2> QED  BY <1>1, <2>1, AppendKeeps
<1> HIDE DEF z, y, n
<1>5. Off(z, y, n + 1) = (Len(C) + 1) + OffPos(w) - 1
  BY <1>2 DEF Off
<1>6. Off(z, y, n + 1) = Len(C) + OffPos(w)
  BY <1>5, <1>3, <1>1
<1> QED  BY <1>1, <1>2, <1>3, <1>4, <1>6 DEF z, y, n

(* A structure may begin anywhere. *)
LEMMA OpenerLegal ==
  ASSUME NEW s \in Seq(Words), NEW w \in Openers
  PROVE  LegalAt(Append(s, w), Len(s) + 1) /\ w \in Opening /\ w \in Words
<1>1. Append(s, w)[Len(s) + 1] = w
  OBVIOUS
<1>2. w \in Words /\ w \in Opening
  BY DEF Words, Opening
<1>3. w \notin Checked /\ w # "leave" /\ w \notin {"exit", "tail-recurse"} /\ w # "semicolon"
  BY DEF Openers, Checked
<1> QED  BY <1>1, <1>2, <1>3 DEF LegalAt

(* A word that opens a structure, with its row and its marks. *)
LEMMA OpensWith ==
  ASSUME NEW s, NEW st, NEW C, NEW full, Good(s, st, C, full), NEW w \in Opening,
         LegalAt(Append(s, w), Len(s) + 1), NEW m \in Seq(Mark),
         MarksOf(Append(s, w), Append(st, Len(C) + 1), StackOf(s, full), Len(s) + 1, m)
  PROVE  Grew(s, st, C, w, Rec(Cat(C, RowOf(w, 0)), m))
<1>1. C \in Seq(Cell)
  BY GoodTypes
<1>2. w \in Words
  BY DEF Opening, Openers, Words, Checked
<1>3. Grown(C, w, {}, 0, Cat(C, RowOf(w, 0)))
  BY <1>1, <1>2, GrownCat
<1>4. \E f : /\ Good(Append(s, w), Append(st, Len(C) + 1), Cat(C, RowOf(w, 0)), f)
             /\ StackOf(Append(s, w), f) = m
  BY <1>3, OpensGrow
<1> QED  BY <1>4 DEF Grew

(* The stack is a row of marks. *)
LEMMA StackType ==
  ASSUME NEW s, NEW st, NEW C, NEW full, Good(s, st, C, full)
  PROVE  StackOf(s, full) \in Seq(Mark)
  BY GoodTypes, BaseType DEF StackOf

(* The words that may follow are words. *)
LEMMA FollowSets ==
  /\ {"loop", "+loop"} \in SUBSET Words /\ {"else", "then"} \in SUBSET Words
  /\ {"then"} \in SUBSET Words /\ {"of", "endcase"} \in SUBSET Words
  /\ {"endof"} \in SUBSET Words /\ {"again", "until", "while"} \in SUBSET Words
  /\ {"repeat"} \in SUBSET Words
  BY DEF Words, Checked

(* do and ?do keep the invariant of the compiler. *)
LEMMA DoGrows ==
  ASSUME NEW s, NEW st, NEW C, NEW full, Good(s, st, C, full), NEW w \in {"do", "?do"}
  PROVE  Grew(s, st, C, w, Compiled(w, Rec(C, StackOf(s, full))))
<1> DEFINE z == Append(s, w) y == Append(st, Len(C) + 1) n == Len(s) S == StackOf(s, full)
           m == Cat(S, <<Address(Len(C) + 4), Address(Len(C) + 5), Follow({"loop", "+loop"})>>)
<1>1. /\ C \in Seq(Cell) /\ S \in Seq(Mark) /\ s \in Seq(Words) /\ w \in Openers
  BY GoodTypes, StackType DEF Openers
<1>2. LegalAt(z, n + 1) /\ w \in Opening /\ w \in Words
  BY <1>1, OpenerLegal
<1>3. /\ z[n + 1] = w /\ y[n + 1] = Len(C) + 1 /\ Off(z, y, n + 1) = Len(C) + OffPos(w)
      /\ Len(C) \in Nat
  <2>1. z[n + 1] = w /\ Off(z, y, n + 1) = Len(C) + OffPos(w) /\ Len(C) \in Nat
    BY <1>2, NewWord
  <2>2. y[n + 1] = Len(C) + 1
    <3>1. st \in Seq(Nat) /\ Len(st) = n /\ Len(C) \in Nat
      BY GoodTypes
    <3> QED  BY <3>1
  <2> QED  BY <2>1, <2>2
<1>4. OffPos(w) = 4
  BY DEF OffPos
<1>5. m \in Seq(Mark)
  <2>1. Address(Len(C) + 4) \in Mark /\ Address(Len(C) + 5) \in Mark /\ Follow({"loop", "+loop"}) \in Mark
    BY <1>3, MarkTypes, FollowSets
  <2> QED  BY <1>1, <2>1, RowEnds
<1>6. Compiled(w, Rec(C, S)) = Rec(Cat(C, RowOf(w, 0)), m)
  BY <1>1, CompiledDo
<1> HIDE DEF z, y, n, S
<1>7. Off(z, y, n + 1) = Len(C) + 4 /\ y[n + 1] + 4 = Len(C) + 5
  BY <1>3, <1>4
<1>8. MarksOf(z, y, S, n + 1, m)
  <2>1. DoMarks(z, y, S, n + 1, m)
    BY <1>7 DEF DoMarks
  <2> QED  BY <2>1, <1>3 DEF MarksOf
<1> HIDE DEF m
<1> QED  BY <1>2, <1>5, <1>6, <1>8, OpensWith DEF z, y, n, S

(* if keeps it. *)
LEMMA IfGrows ==
  ASSUME NEW s, NEW st, NEW C, NEW full, Good(s, st, C, full)
  PROVE  Grew(s, st, C, "if", Compiled("if", Rec(C, StackOf(s, full))))
<1> DEFINE z == Append(s, "if") y == Append(st, Len(C) + 1) n == Len(s) S == StackOf(s, full)
           m == Cat(S, <<Address(Len(C) + 3), Follow({"else", "then"})>>)
<1>1. /\ C \in Seq(Cell) /\ S \in Seq(Mark) /\ s \in Seq(Words) /\ "if" \in Openers
  BY GoodTypes, StackType DEF Openers
<1>2. LegalAt(z, n + 1) /\ "if" \in Opening /\ "if" \in Words
  BY <1>1, OpenerLegal
<1>3. /\ z[n + 1] = "if" /\ Off(z, y, n + 1) = Len(C) + OffPos("if") /\ Len(C) \in Nat
  BY <1>2, NewWord
<1>4. OffPos("if") = 3
  BY DEF OffPos
<1>5. m \in Seq(Mark)
  <2>1. Address(Len(C) + 3) \in Mark /\ Follow({"else", "then"}) \in Mark
    BY <1>3, MarkTypes, FollowSets
  <2> QED  BY <1>1, <2>1, RowEnds
<1>6. Compiled("if", Rec(C, S)) = Rec(Cat(C, RowOf("if", 0)), m)
  BY <1>1, CompiledIf
<1>7. Parts(z, n + 1) = {}
  BY <1>1, <1>2, PartsNew
<1> HIDE DEF z, y, n, S
<1>8. MarksOf(z, y, S, n + 1, m)
  <2>1. IfMarks(z, y, S, n + 1, m)
    BY <1>3, <1>4, <1>7 DEF IfMarks
  <2> QED  BY <2>1, <1>3 DEF MarksOf
<1> HIDE DEF m
<1> QED  BY <1>2, <1>5, <1>6, <1>8, OpensWith DEF z, y, n, S

(* begin keeps it. *)
LEMMA BeginGrows ==
  ASSUME NEW s, NEW st, NEW C, NEW full, Good(s, st, C, full)
  PROVE  Grew(s, st, C, "begin", Compiled("begin", Rec(C, StackOf(s, full))))
<1> DEFINE z == Append(s, "begin") y == Append(st, Len(C) + 1) n == Len(s) S == StackOf(s, full)
           m == Cat(S, <<Address(Len(C) + 1), Follow({"again", "until", "while"})>>)
<1>1. /\ C \in Seq(Cell) /\ S \in Seq(Mark) /\ s \in Seq(Words) /\ "begin" \in Openers
  BY GoodTypes, StackType DEF Openers
<1>2. LegalAt(z, n + 1) /\ "begin" \in Opening /\ "begin" \in Words
  BY <1>1, OpenerLegal
<1>3. /\ z[n + 1] = "begin" /\ y[n + 1] = Len(C) + 1 /\ Len(C) \in Nat
  <2>1. z[n + 1] = "begin" /\ Len(C) \in Nat
    BY <1>2, NewWord
  <2>2. y[n + 1] = Len(C) + 1
    <3>1. st \in Seq(Nat) /\ Len(st) = Len(s) /\ Len(s) \in Nat /\ Len(C) \in Nat
      BY GoodTypes
    <3> QED  BY <3>1
  <2> QED  BY <2>1, <2>2
<1>5. m \in Seq(Mark)
  <2>1. Address(Len(C) + 1) \in Mark /\ Follow({"again", "until", "while"}) \in Mark
    BY <1>3, MarkTypes, FollowSets
  <2> QED  BY <1>1, <2>1, RowEnds
<1>6. Compiled("begin", Rec(C, S)) = Rec(Cat(C, RowOf("begin", 0)), m)
  BY <1>1, CompiledBegin
<1>7. Parts(z, n + 1) = {}
  BY <1>1, <1>2, PartsNew
<1> HIDE DEF z, y, n, S
<1>8. MarksOf(z, y, S, n + 1, m)
  <2>1. BeginMarks(z, y, S, n + 1, m)
    BY <1>3, <1>7 DEF BeginMarks
  <2> QED  BY <2>1, <1>3 DEF MarksOf
<1> HIDE DEF m
<1> QED  BY <1>2, <1>5, <1>6, <1>8, OpensWith DEF z, y, n, S

(* case keeps it. *)
LEMMA CaseGrows ==
  ASSUME NEW s, NEW st, NEW C, NEW full, Good(s, st, C, full)
  PROVE  Grew(s, st, C, "case", Compiled("case", Rec(C, StackOf(s, full))))
<1> DEFINE z == Append(s, "case") y == Append(st, Len(C) + 1) n == Len(s) S == StackOf(s, full)
           m == Cat(S, <<Address(0), Follow({"of", "endcase"})>>)
<1>1. /\ C \in Seq(Cell) /\ S \in Seq(Mark) /\ s \in Seq(Words) /\ "case" \in Openers
  BY GoodTypes, StackType DEF Openers
<1>2. LegalAt(z, n + 1) /\ "case" \in Opening /\ "case" \in Words
  BY <1>1, OpenerLegal
<1>3. z[n + 1] = "case"
  BY <1>2, NewWord
<1>4. Address(0) \in Mark /\ Follow({"of", "endcase"}) \in Mark
  BY MarkTypes, FollowSets
<1>5. m \in Seq(Mark)
  BY <1>1, <1>4, RowEnds
<1>6. Compiled("case", Rec(C, S)) = Rec(Cat(C, RowOf("case", 0)), m)
  BY <1>1, CompiledCase
<1>7. Parts(z, n + 1) = {}
  BY <1>1, <1>2, PartsNew
<1>8. Marked(<<>>, {}) /\ Cat(Cat(S, <<Address(0)>>), <<>>) = Cat(S, <<Address(0)>>)
  <2>1. Cat(S, <<Address(0)>>) \in Seq(Mark)
    BY <1>1, <1>4, RowEnds
  <2>2. Cat(Cat(S, <<Address(0)>>), <<>>) = Cat(S, <<Address(0)>>)
    BY <2>1, CatEmpty
  <2>3. Marked(<<>>, {})
    BY DEF Marked
  <2> QED  BY <2>2, <2>3
<1>9. Cat(Cat(S, <<Address(0)>>), <<Follow({"of", "endcase"})>>) = m
  BY <1>1, <1>4, Row2
<1> HIDE DEF z, y, n, S, m
<1>10. MarksOf(z, y, S, n + 1, m)
  <2>1. {Off(z, y, e) : e \in Parts(z, n + 1)} = {}
    BY <1>7
  <2>2. CaseMarks(z, y, S, n + 1, m)
    BY <1>8, <1>9, <2>1, Zenon DEF CaseMarks
  <2> QED  BY <2>2, <1>3 DEF MarksOf
<1> QED  BY <1>2, <1>5, <1>6, <1>10, OpensWith DEF z, y, n, S

(* leave, exit and tail-recurse keep it. *)
LEMMA PlainGrows ==
  ASSUME NEW s, NEW st, NEW C, NEW full, Good(s, st, C, full), NEW w \in Plain,
         LegalAt(Append(s, w), Len(s) + 1)
  PROVE  Grew(s, st, C, w, Compiled(w, Rec(C, StackOf(s, full))))
<1> DEFINE z == Append(s, w) y == Append(st, Len(C) + 1) n == Len(s) S == StackOf(s, full)
           d == IF w = "tail-recurse" THEN 1 - (Len(C) + 2) ELSE 0
<1>1. /\ C \in Seq(Cell) /\ S \in Seq(Mark) /\ s \in Seq(Words) /\ w \in Words /\ Len(C) \in Nat
      /\ Layout(s, st, C)
  BY GoodTypes, StackType DEF Words
<1>2. d \in Int
  BY <1>1
<1>3. Compiled(w, Rec(C, S)) = Rec(Cat(C, RowOf(w, d)), S)
  <2>1. w = "leave" \/ w = "exit" \/ w = "tail-recurse"
    BY DEF Plain
  <2>2. CASE w = "leave"
    BY <2>2, <1>1, CompiledPlain
  <2>3. CASE w = "exit"
    BY <2>3, <1>1, CompiledPlain
  <2>4. CASE w = "tail-recurse"
    BY <2>4, <1>1, CompiledPlain
  <2> QED  BY <2>1, <2>2, <2>3, <2>4
<1>4. Grown(C, w, {}, d, Cat(C, RowOf(w, d)))
  BY <1>1, <1>2, GrownCat
<1>5. OffPos(w) > 0 => d = Place(st, C, Taken(z, n + 1)) - (Len(C) + OffPos(w))
  <2> SUFFICES ASSUME OffPos(w) > 0 PROVE d = Place(st, C, Taken(z, n + 1)) - (Len(C) + OffPos(w))
    OBVIOUS
  <2>1. w = "tail-recurse"
    BY DEF OffPos, Plain
  <2>2. z[n + 1] = "tail-recurse"
    BY <2>1, <1>1, NewWord
  <2>3. Taken(z, n + 1) = 1
    BY <2>2 DEF Taken, Forward
  <2>4. Place(st, C, 1) = 1
    BY <1>1 DEF Layout
  <2>5. OffPos(w) = 2
    BY <2>1 DEF OffPos
  <2> QED  BY <2>1, <2>3, <2>4, <2>5
<1> HIDE DEF d
<1>6. /\ Good(z, y, Cat(C, RowOf(w, d)), full) /\ StackOf(z, full) = S
  <2>1. w \in Plain \cup {"semicolon"}
    OBVIOUS
  <2> QED  BY <2>1, <1>4, <1>5, PlainGrow
<1> QED  BY <1>3, <1>6 DEF Grew

(* The end of the definition keeps it, outside of all structures. *)
LEMMA SemicolonGrows ==
  ASSUME NEW s, NEW st, NEW C, NEW full, Good(s, st, C, full), Opn(s, Len(s)) = {}
  PROVE  /\ Grew(s, st, C, "semicolon", Thread(Rec(C, StackOf(s, full)), <<"(semicolon)">>))
<1> DEFINE z == Append(s, "semicolon") y == Append(st, Len(C) + 1) n == Len(s) S == StackOf(s, full)
<1>1. /\ C \in Seq(Cell) /\ S \in Seq(Mark) /\ s \in Seq(Words) /\ "semicolon" \in Words /\ 0 \in Int
  BY GoodTypes, StackType DEF Words
<1>2. Thread(Rec(C, S), <<"(semicolon)">>) = Rec(Cat(C, RowOf("semicolon", 0)), S)
  BY <1>1, CompiledPlain
<1>3. Grown(C, "semicolon", {}, 0, Cat(C, RowOf("semicolon", 0)))
  BY <1>1, GrownCat
<1>4. LegalAt(z, n + 1)
  <2>1. z[n + 1] = "semicolon" /\ Opn(z, n) = Opn(s, n) /\ (n + 1) - 1 = n
    BY <1>1, NewWord
  <2>2. "semicolon" \notin Checked
    BY DEF Checked
  <2> QED  BY <2>1, <2>2 DEF LegalAt
<1>5. ~(OffPos("semicolon") > 0)
  BY DEF OffPos
<1>6. /\ Good(z, y, Cat(C, RowOf("semicolon", 0)), full) /\ StackOf(z, full) = S
  <2>1. "semicolon" \in Plain \cup {"semicolon"}
    OBVIOUS
  <2>2. OffPos("semicolon") > 0 => 0 = Place(st, C, Taken(z, n + 1)) - (Len(C) + OffPos("semicolon"))
    BY <1>5
  <2> QED  BY <2>1, <2>2, <1>3, <1>4, PlainGrow
<1> QED  BY <1>2, <1>6 DEF Grew

(* The top of a stack of two more marks. *)
LEMMA LastOfTwo ==
  ASSUME NEW u \in Seq(Mark), NEW x \in Mark, NEW y \in Mark
  PROVE  Last(Cat(u, <<x, y>>)) = y
<1>1. Cat(u, <<x>>) \in Seq(Mark) /\ Cat(Cat(u, <<x>>), <<y>>) = Cat(u, <<x, y>>)
  BY Row1, Row2
<1>2. Last(Cat(Cat(u, <<x>>), <<y>>)) = y
  BY <1>1, LastOfRow
<1> QED  BY <1>1, <1>2

(* The top of a stack of three more marks. *)
LEMMA LastOfThree ==
  ASSUME NEW u \in Seq(Mark), NEW x \in Mark, NEW y \in Mark, NEW z \in Mark
  PROVE  Last(Cat(u, <<x, y, z>>)) = z
<1>1. Cat(u, <<x, y>>) \in Seq(Mark)
  BY Row2
<1>2. Cat(Cat(u, <<x, y>>), <<z>>) = Cat(u, <<x, y, z>>)
  BY Row3
<1>3. Last(Cat(Cat(u, <<x, y>>), <<z>>)) = z
  BY <1>1, LastOfRow
<1> QED  BY <1>2, <1>3

FollowsAre(s, full, t) ==
  /\ s[t] \in {"do", "?do"} => Last(full[t]).follow = {"loop", "+loop"}
  /\ s[t] = "if" => \/ Parts(s, t) = {} /\ Last(full[t]).follow = {"else", "then"}
                    \/ Parts(s, t) # {} /\ Last(full[t]).follow = {"then"}
  /\ s[t] = "begin" => \/ Parts(s, t) = {} /\ Last(full[t]).follow = {"again", "until", "while"}
                       \/ Parts(s, t) # {} /\ Last(full[t]).follow = {"repeat"}
  /\ s[t] = "case" => Last(full[t]).follow = {"of", "endcase"}
  /\ s[t] = "of" => Last(full[t]).follow = {"endof"}

(* What the word on top of the stack says may follow. *)
LEMMA FollowOf ==
  ASSUME NEW s, NEW st, NEW C, NEW full, Good(s, st, C, full), Opn(s, Len(s)) # {}
  PROVE  FollowsAre(s, full, Top(s, Len(s)))
<1> DEFINE t == Top(s, Len(s))
<1> DEFINE B == BaseOf(full, Opn(s, t - 1))
<1>1. B \in Seq(Mark) /\ MarksOf(s, st, B, t, full[t]) /\ t \in 1..Len(s)
  BY StackInside
<1>2. /\ s \in Seq(Words) /\ st \in Seq(Nat) /\ Len(st) = Len(s) /\ Layout(s, st, C)
  BY GoodTypes
<1>3. \A k \in 1..Len(s) : Off(s, st, k) \in Int
  <2> SUFFICES ASSUME NEW k \in 1..Len(s) PROVE Off(s, st, k) \in Int
    OBVIOUS
  <2>1. s[k] \in Words /\ st[k] \in Nat
    BY <1>2
  <2>2. Width(s[k]) \in Nat /\ OffPos(s[k]) \in 0..Width(s[k])
    BY <2>1, CellsOfWord
  <2>3. OffPos(s[k]) \in Int
    BY <2>2
  <2> QED  BY <2>1, <2>3 DEF Off
<1>4. \A k \in 1..Len(s) : Address(Off(s, st, k)) \in Mark
  BY <1>3, MarkTypes
<1>5. Address(st[t] + 4) \in Mark /\ Address(st[t]) \in Mark
  <2>1. st[t] \in Nat
    BY <1>1, <1>2
  <2>2. st[t] + 4 \in Int /\ st[t] \in Int
    BY <2>1
  <2> QED  BY <2>2, MarkTypes
<1>6. \A W \in SUBSET Words : Follow(W) \in Mark /\ Follow(W).follow = W
  BY MarkTypes
<1>7. Parts(s, t) \subseteq 1..Len(s)
  BY <1>1 DEF Parts
<1> HIDE DEF B, t
<1>8. ASSUME s[t] \in {"do", "?do"} PROVE Last(full[t]).follow = {"loop", "+loop"}
  <2>1. full[t] = Cat(B, <<Address(Off(s, st, t)), Address(st[t] + 4), Follow({"loop", "+loop"})>>)
    BY <1>1, <1>8 DEF MarksOf, DoMarks
  <2>2. Follow({"loop", "+loop"}) \in Mark /\ Follow({"loop", "+loop"}).follow = {"loop", "+loop"}
    BY <1>6, FollowSets
  <2>3. Last(Cat(B, <<Address(Off(s, st, t)), Address(st[t] + 4), Follow({"loop", "+loop"})>>))
          = Follow({"loop", "+loop"})
    BY <2>2, <1>1, <1>4, <1>5, LastOfThree
  <2> QED  BY <2>1, <2>2, <2>3
<1>9. ASSUME s[t] = "if"
      PROVE  \/ Parts(s, t) = {} /\ Last(full[t]).follow = {"else", "then"}
             \/ Parts(s, t) # {} /\ Last(full[t]).follow = {"then"}
  <2>1. IfMarks(s, st, B, t, full[t])
    BY <1>1, <1>9 DEF MarksOf
  <2>2. /\ Follow({"else", "then"}) \in Mark /\ Follow({"else", "then"}).follow = {"else", "then"}
        /\ Follow({"then"}) \in Mark /\ Follow({"then"}).follow = {"then"}
    BY <1>6, FollowSets
  <2>3. CASE Parts(s, t) = {} /\ full[t] = Cat(B, <<Address(Off(s, st, t)), Follow({"else", "then"})>>)
    <3>1. Last(Cat(B, <<Address(Off(s, st, t)), Follow({"else", "then"})>>)) = Follow({"else", "then"})
      BY <2>2, <1>1, <1>4, LastOfTwo
    <3> QED  BY <2>2, <2>3, <3>1
  <2>4. CASE \E e \in Parts(s, t) : /\ Parts(s, t) = {e}
                                    /\ full[t] = Cat(B, <<Address(Off(s, st, e)), Follow({"then"})>>)
    <3>1. PICK e \in Parts(s, t) : /\ Parts(s, t) = {e}
                                   /\ full[t] = Cat(B, <<Address(Off(s, st, e)), Follow({"then"})>>)
      BY <2>4
    <3>2. Address(Off(s, st, e)) \in Mark
      BY <1>4, <1>7
    <3>3. Last(Cat(B, <<Address(Off(s, st, e)), Follow({"then"})>>)) = Follow({"then"})
      BY <2>2, <3>2, <1>1, LastOfTwo
    <3> QED  BY <2>2, <3>1, <3>3
  <2> QED  BY <2>1, <2>3, <2>4 DEF IfMarks
<1>10. ASSUME s[t] = "begin"
       PROVE  \/ Parts(s, t) = {} /\ Last(full[t]).follow = {"again", "until", "while"}
              \/ Parts(s, t) # {} /\ Last(full[t]).follow = {"repeat"}
  <2>1. BeginMarks(s, st, B, t, full[t])
    BY <1>1, <1>10 DEF MarksOf
  <2>2. /\ Follow({"again", "until", "while"}) \in Mark
        /\ Follow({"again", "until", "while"}).follow = {"again", "until", "while"}
        /\ Follow({"repeat"}) \in Mark /\ Follow({"repeat"}).follow = {"repeat"}
    BY <1>6, FollowSets
  <2>3. CASE Parts(s, t) = {} /\ full[t] = Cat(B, <<Address(st[t]), Follow({"again", "until", "while"})>>)
    <3>1. Last(Cat(B, <<Address(st[t]), Follow({"again", "until", "while"})>>))
            = Follow({"again", "until", "while"})
      BY <2>2, <1>1, <1>5, LastOfTwo
    <3> QED  BY <2>2, <2>3, <3>1
  <2>4. CASE \E e \in Parts(s, t) :
               /\ Parts(s, t) = {e}
               /\ full[t] = Cat(B, <<Address(st[t]), Address(Off(s, st, e)), Follow({"repeat"})>>)
    <3>1. PICK e \in Parts(s, t) :
               /\ Parts(s, t) = {e}
               /\ full[t] = Cat(B, <<Address(st[t]), Address(Off(s, st, e)), Follow({"repeat"})>>)
      BY <2>4
    <3>2. Address(Off(s, st, e)) \in Mark
      BY <1>4, <1>7
    <3>3. Last(Cat(B, <<Address(st[t]), Address(Off(s, st, e)), Follow({"repeat"})>>)) = Follow({"repeat"})
      BY <2>2, <3>2, <1>1, <1>5, LastOfThree
    <3> QED  BY <2>2, <3>1, <3>3
  <2> QED  BY <2>1, <2>3, <2>4 DEF BeginMarks
<1>11. ASSUME s[t] = "case" PROVE Last(full[t]).follow = {"of", "endcase"}
  <2>1. PICK a : /\ Marked(a, {Off(s, st, e) : e \in Parts(s, t)})
                 /\ full[t] = Cat(Cat(Cat(B, <<Address(0)>>), a), <<Follow({"of", "endcase"})>>)
    BY <1>1, <1>11 DEF MarksOf, CaseMarks
  <2>2. Follow({"of", "endcase"}) \in Mark /\ Follow({"of", "endcase"}).follow = {"of", "endcase"}
    BY <1>6, FollowSets
  <2>3. Cat(Cat(B, <<Address(0)>>), a) \in Seq(Mark)
    <3>1. a \in Seq(Mark) /\ Address(0) \in Mark
      BY <2>1, MarkTypes DEF Marked
    <3>2. Cat(B, <<Address(0)>>) \in Seq(Mark)
      BY <3>1, <1>1, RowEnds
    <3> QED  BY <3>1, <3>2, CatProperties
  <2>4. Last(Cat(Cat(Cat(B, <<Address(0)>>), a), <<Follow({"of", "endcase"})>>)) = Follow({"of", "endcase"})
    BY <2>2, <2>3, LastOfRow
  <2> QED  BY <2>1, <2>2, <2>4
<1>12. ASSUME s[t] = "of" PROVE Last(full[t]).follow = {"endof"}
  <2>1. PICK x \in Seq(Mark) : full[t] = Cat(x, <<Address(Off(s, st, t)), Follow({"endof"})>>)
    BY <1>1, <1>12 DEF MarksOf, OfMarks
  <2>2. Follow({"endof"}) \in Mark /\ Follow({"endof"}).follow = {"endof"}
    BY <1>6, FollowSets
  <2>3. Last(Cat(x, <<Address(Off(s, st, t)), Follow({"endof"})>>)) = Follow({"endof"})
    BY <2>2, <1>1, <1>4, LastOfTwo
  <2> QED  BY <2>1, <2>2, <2>3
<1> QED  BY <1>8, <1>9, <1>10, <1>11, <1>12 DEF FollowsAre, t

(* docheck is enough: a word that the top of the stack lets pass goes on with *)
(* or ends the structure open last, as the manual has it.                     *)
LEMMA CheckedKind ==
  ASSUME NEW s, NEW st, NEW C, NEW full, Good(s, st, C, full), NEW w \in Checked,
         w \in Last(StackOf(s, full)).follow
  PROVE  LET t == Top(s, Len(s))
         IN  /\ Opn(s, Len(s)) # {} /\ LegalAt(Append(s, w), Len(s) + 1) /\ s[t] \in OpenerOf(w)
             /\ w \in {"else", "while", "until", "again"} => Parts(s, t) = {}
             /\ w = "repeat" => Parts(s, t) # {}
<1> DEFINE t == Top(s, Len(s))
<1>1. Opn(s, Len(s)) # {}
  BY StackOutside
<1>2. /\ StackOf(s, full) = full[t] /\ t \in Opn(s, Len(s)) /\ t \in 1..Len(s) /\ s[t] \in Opening
  BY <1>1, StackInside
<1>3. /\ s[t] \in {"do", "?do"} => Last(full[t]).follow = {"loop", "+loop"}
      /\ s[t] = "if" => \/ Parts(s, t) = {} /\ Last(full[t]).follow = {"else", "then"}
                        \/ Parts(s, t) # {} /\ Last(full[t]).follow = {"then"}
      /\ s[t] = "begin" => \/ Parts(s, t) = {} /\ Last(full[t]).follow = {"again", "until", "while"}
                           \/ Parts(s, t) # {} /\ Last(full[t]).follow = {"repeat"}
      /\ s[t] = "case" => Last(full[t]).follow = {"of", "endcase"}
      /\ s[t] = "of" => Last(full[t]).follow = {"endof"}
  BY <1>1, FollowOf DEF FollowsAre
<1>4. w \in Last(full[t]).follow
  BY <1>2
<1> HIDE DEF t
<1>5. s[t] \in {"do", "?do"} \/ s[t] = "if" \/ s[t] = "begin" \/ s[t] = "case" \/ s[t] = "of"
  BY <1>2 DEF Opening, Openers
<1>6. s[t] \in OpenerOf(w)
  <2>1. CASE s[t] \in {"do", "?do"}
    <3>1. w \in {"loop", "+loop"}
      BY <1>3, <1>4, <2>1
    <3> QED  BY <2>1, <3>1 DEF OpenerOf
  <2>2. CASE s[t] = "if"
    <3>1. w \in {"else", "then"}
      BY <1>3, <1>4, <2>2
    <3> QED  BY <2>2, <3>1 DEF OpenerOf
  <2>3. CASE s[t] = "begin"
    <3>1. w \in {"until", "while", "repeat", "again"}
      BY <1>3, <1>4, <2>3
    <3> QED  BY <2>3, <3>1 DEF OpenerOf
  <2>4. CASE s[t] = "case"
    <3>1. w \in {"of", "endcase"}
      BY <1>3, <1>4, <2>4
    <3> QED  BY <2>4, <3>1 DEF OpenerOf
  <2>5. CASE s[t] = "of"
    <3>1. w = "endof"
      BY <1>3, <1>4, <2>5
    <3> QED  BY <2>5, <3>1 DEF OpenerOf
  <2> QED  BY <1>5, <2>1, <2>2, <2>3, <2>4, <2>5
<1>7. /\ w \in {"else", "while", "until", "again"} => Parts(s, t) = {}
      /\ w = "repeat" => Parts(s, t) # {}
  <2>1. w = "else" => s[t] = "if"
    BY <1>6 DEF OpenerOf
  <2>2. w \in {"while", "until", "again", "repeat"} => s[t] = "begin"
    BY <1>6 DEF OpenerOf
  <2>3. w = "else" => Parts(s, t) = {}
    BY <2>1, <1>3, <1>4
  <2>4. w \in {"while", "until", "again"} => Parts(s, t) = {}
    BY <2>2, <1>3, <1>4
  <2>5. w = "repeat" => Parts(s, t) # {}
    BY <2>2, <1>3, <1>4
  <2> QED  BY <2>3, <2>4, <2>5
<1>8. LegalAt(Append(s, w), Len(s) + 1)
  <2> DEFINE z == Append(s, w) n == Len(s)
  <2>1. w \in Words
    BY DEF Words
  <2>2. z[n + 1] = w /\ (n + 1) - 1 = n /\ Opn(z, n) = Opn(s, n) /\ \A k \in 1..n : z[k] = s[k]
    BY <2>1, NewWord
  <2>3. w \notin {"leave", "exit", "tail-recurse", "semicolon"}
    BY DEF Checked
  <2> HIDE DEF z, n
  <2>4. Top(z, n) = t /\ z[t] = s[t]
    BY <2>2, <1>2 DEF Top, n, t
  <2> QED  BY <2>2, <2>3, <2>4, <1>1, <1>6 DEF LegalAt, n, z
<1> QED  BY <1>1, <1>6, <1>7, <1>8 DEF t

(* The addresses left as marks are those of cells. *)
LEMMA OffsOf ==
  ASSUME NEW s, NEW st, NEW C, NEW full, Good(s, st, C, full), NEW k \in 1..Len(s)
  PROVE  /\ OffPos(s[k]) > 0 => Off(s, st, k) \in 1..Len(C)
         /\ Off(s, st, k) \in Int /\ Address(Off(s, st, k)) \in Mark
         /\ st[k] \in Nat /\ Address(st[k]) \in Mark /\ Address(st[k] + 4) \in Mark
<1>1. /\ s \in Seq(Words) /\ st \in Seq(Nat) /\ Len(st) = Len(s) /\ Layout(s, st, C)
  BY GoodTypes
<1>2. OffPos(s[k]) > 0 => Off(s, st, k) \in 1..Len(C)
  BY <1>1, OffInCode
<1>3. s[k] \in Words /\ st[k] \in Nat
  BY <1>1
<1>4. Width(s[k]) \in Nat /\ OffPos(s[k]) \in 0..Width(s[k])
  BY <1>3, CellsOfWord
<1>5. OffPos(s[k]) \in Int
  BY <1>4
<1>6. Off(s, st, k) \in Int
  BY <1>3, <1>5 DEF Off
<1>7. st[k] \in Int /\ st[k] + 4 \in Int
  BY <1>3
<1> QED  BY <1>2, <1>3, <1>6, <1>7, MarkTypes

(* The parts of a structure have branches of their own. *)
LEMMA PartsAre ==
  ASSUME NEW s \in Seq(Words), NEW j \in 1..Len(s)
  PROVE  /\ Parts(s, j) \subseteq 1..Len(s)
         /\ \A e \in Parts(s, j) : OffPos(s[e]) > 0 /\ j < e
         /\ s[j] \notin {"if", "begin", "case"} => Parts(s, j) = {}
<1>1. \A e \in Parts(s, j) : e \in j + 1..Len(s) /\ s[e] = Part(s[j])
  BY DEF Parts
<1>2. Parts(s, j) \subseteq 1..Len(s) /\ \A e \in Parts(s, j) : j < e
  BY <1>1
<1>3. Part(s[j]) \in {"else", "while", "endof", "none"}
      /\ (s[j] \notin {"if", "begin", "case"} => Part(s[j]) = "none")
  BY DEF Part
<1>4. "none" \notin Words
  BY DEF Words, Openers, Checked, Plain
<1>5. \A e \in Parts(s, j) : s[e] \in {"else", "while", "endof"} /\ Part(s[j]) # "none"
  <2> SUFFICES ASSUME NEW e \in Parts(s, j)
               PROVE  s[e] \in {"else", "while", "endof"} /\ Part(s[j]) # "none"
    OBVIOUS
  <2>1. s[e] \in Words /\ s[e] = Part(s[j])
    BY <1>1, <1>2
  <2> QED  BY <2>1, <1>3, <1>4
<1>6. \A e \in Parts(s, j) : OffPos(s[e]) > 0
  <2> SUFFICES ASSUME NEW e \in Parts(s, j) PROVE OffPos(s[e]) > 0
    OBVIOUS
  <2>1. s[e] = "else" \/ s[e] = "while" \/ s[e] = "endof"
    BY <1>5
  <2> QED  BY <2>1 DEF OffPos
<1> QED  BY <1>2, <1>3, <1>5, <1>6

(* The way back of a loop leads behind the word that began it. *)
LEMMA TakenBack ==
  ASSUME NEW s, NEW st, NEW C, NEW full, Good(s, st, C, full), NEW w \in Closing \ Forward,
         Opn(s, Len(s)) # {}, LegalAt(Append(s, w), Len(s) + 1)
  PROVE  LET t == Top(s, Len(s))
         IN  Place(st, C, Taken(Append(s, w), Len(s) + 1)) = st[t] + Width(s[t])
<1> DEFINE z == Append(s, w) n == Len(s) t == Top(s, n)
<1>1. s \in Seq(Words) /\ Legal(s) /\ Layout(s, st, C) /\ n \in Nat /\ w \in Words /\ w # "tail-recurse"
  BY GoodTypes DEF Closing, Checked, Words
<1>2. Legal(z)
  BY <1>1, LegalAppend
<1>3. Balanced(z)
  BY <1>2 DEF Legal
<1>4. z[n + 1] = w /\ (n + 1) - 1 = n /\ Opn(z, n) = Opn(s, n) /\ Len(z) = n + 1
  BY <1>1, NewWord
<1>5. t \in 1..n
  BY StackInside
<1>6. n + 1 \in 1..Len(z)
  BY <1>1, <1>4
<1> HIDE DEF z, n
<1>7. BeginOf(z, n + 1) = Top(z, (n + 1) - 1)
  BY <1>3, <1>4, <1>6, BeginIs
<1>8. BeginOf(z, n + 1) = t
  BY <1>7, <1>4 DEF Top
<1>9. Taken(z, n + 1) = t + 1
  BY <1>1, <1>4, <1>8 DEF Taken
<1>10. Place(st, C, t + 1) = st[t] + Width(s[t])
  BY <1>1, <1>5 DEF Layout, n
<1> QED  BY <1>9, <1>10 DEF z, n

(* What the end of a structure resolves: the branch of its first word or *)
(* those of its parts.                                                   *)
LEMMA ResolvesClosing ==
  ASSUME NEW s, NEW st, NEW C, NEW full, Good(s, st, C, full), NEW w \in Closing,
         Opn(s, Len(s)) # {}
  PROVE  LET t == Top(s, Len(s))
         IN  /\ t \in 1..Len(s)
             /\ s[t] \in Forward /\ Parts(s, t) = {} => Resolves(s, w) = {t}
             /\ s[t] \notin Forward \/ (s[t] = "if" /\ Parts(s, t) # {}) => Resolves(s, w) = Parts(s, t)
<1> DEFINE n == Len(s) t == Top(s, n)
<1>1. s \in Seq(Words) /\ Legal(s) /\ w \in Words
  BY GoodTypes DEF Closing, Checked, Words
<1>2. t \in 1..n
  BY StackInside
<1>3. \A k \in 1..n : ~Settled(s, k) /\ Settled(Append(s, w), k) <=>
                        \/ k = t /\ s[k] \in Forward /\ ~Divided(s, k)
                        \/ k \in Parts(s, t)
  BY <1>1, ClosingSettles
<1>4. Parts(s, t) \subseteq 1..n
  BY <1>1, <1>2, PartsAre
<1>5. Resolves(s, w) = {k \in 1..n : \/ k = t /\ s[k] \in Forward /\ ~Divided(s, k)
                                     \/ k \in Parts(s, t)}
  BY <1>3 DEF Resolves
<1> HIDE DEF n, t
<1>6. ASSUME s[t] \in Forward, Parts(s, t) = {} PROVE Resolves(s, w) = {t}
  <2>1. ~Divided(s, t)
    BY <1>6 DEF Divided
  <2> QED  BY <2>1, <1>2, <1>5, <1>6
<1>7. ASSUME s[t] \notin Forward \/ (s[t] = "if" /\ Parts(s, t) # {}) PROVE Resolves(s, w) = Parts(s, t)
  <2>1. s[t] \notin Forward \/ Divided(s, t)
    BY <1>7 DEF Divided
  <2> QED  BY <2>1, <1>4, <1>5
<1> QED  BY <1>2, <1>6, <1>7 DEF n, t

(* A word that resolves one mark. *)
LEMMA GrownOne ==
  ASSUME NEW C \in Seq(Cell), NEW w \in Words, NEW d \in Int, NEW p \in 1..Len(C)
  PROVE  Grown(C, w, {p}, d, AtMark(Cat(C, RowOf(w, d)), p))
<1>1. Grown(C, w, {}, d, Cat(C, RowOf(w, d)))
  BY GrownCat
<1>2. Grown(C, w, {} \cup {p}, d, AtMark(Cat(C, RowOf(w, d)), p))
  BY <1>1, GrownAtMark
<1>3. {} \cup {p} = {p}
  OBVIOUS
<1> QED  BY <1>2, <1>3

(* Pop, of two marks. *)
LEMMA PopTwo ==
  ASSUME NEW C, NEW u \in Seq(Mark), NEW x \in Mark, NEW y \in Mark
  PROVE  Pop(Rec(C, Cat(u, <<x, y>>))) = Rec(C, Cat(u, <<x>>)) /\ Cat(u, <<x>>) \in Seq(Mark)
<1>1. Cat(u, <<x>>) \in Seq(Mark) /\ Cat(Cat(u, <<x>>), <<y>>) = Cat(u, <<x, y>>)
  BY Row1, Row2
<1>2. Pop(Rec(C, Cat(Cat(u, <<x>>), <<y>>))) = Rec(C, Cat(u, <<x>>))
  BY <1>1, DoPop
<1> QED  BY <1>1, <1>2

(* Pop, of three marks. *)
LEMMA PopThree ==
  ASSUME NEW C, NEW u \in Seq(Mark), NEW x \in Mark, NEW y \in Mark, NEW z \in Mark
  PROVE  Pop(Rec(C, Cat(u, <<x, y, z>>))) = Rec(C, Cat(u, <<x, y>>))
<1>1. Cat(u, <<x, y>>) \in Seq(Mark)
  BY Row2
<1>2. Cat(Cat(u, <<x, y>>), <<z>>) = Cat(u, <<x, y, z>>)
  BY Row3
<1>3. Pop(Rec(C, Cat(Cat(u, <<x, y>>), <<z>>))) = Rec(C, Cat(u, <<x, y>>))
  BY <1>1, DoPop
<1> QED  BY <1>2, <1>3

(* What the words leave for docheck are marks. *)
LEMMA MayFollow ==
  /\ \A W \in SUBSET Words : Follow(W) \in Mark
  /\ Follow({"loop", "+loop"}) \in Mark /\ Follow({"else", "then"}) \in Mark /\ Follow({"then"}) \in Mark
  /\ Follow({"of", "endcase"}) \in Mark /\ Follow({"endof"}) \in Mark
  /\ Follow({"again", "until", "while"}) \in Mark /\ Follow({"repeat"}) \in Mark
<1>1. \A W \in SUBSET Words : Follow(W) \in Mark
  BY MarkTypes
<1> QED  BY <1>1, FollowSets

(* loop and +loop. *)
LEMMA LoopGrows ==
  ASSUME NEW s, NEW st, NEW C, NEW full, Good(s, st, C, full), NEW w \in {"loop", "+loop"},
         w \in Last(StackOf(s, full)).follow
  PROVE  Grew(s, st, C, w, Compiled(w, Pop(Rec(C, StackOf(s, full)))))
<1> DEFINE z == Append(s, w) y == Append(st, Len(C) + 1) n == Len(s) t == Top(s, n)
           B == BaseOf(full, Opn(s, t - 1)) p == Off(s, st, t) b == st[t] + 4
           d == b - (Len(C) + OffPos(w)) D == AtMark(Cat(C, RowOf(w, d)), p)
<1>1. w \in Checked /\ w \in Closing \ Continuing /\ w \in Closing \ Forward /\ w \in Words
  BY DEF Checked, Closing, Continuing, Forward, Words
<1>2. Opn(s, n) # {} /\ LegalAt(z, n + 1) /\ s[t] \in OpenerOf(w)
  BY <1>1, CheckedKind
<1>3. s[t] \in {"do", "?do"}
  BY <1>2 DEF OpenerOf
<1>4. StackOf(s, full) = full[t] /\ t \in 1..n /\ B \in Seq(Mark) /\ MarksOf(s, st, B, t, full[t])
  BY <1>2, StackInside
<1>5. s \in Seq(Words) /\ C \in Seq(Cell) /\ Len(C) \in Nat
  BY GoodTypes
<1>6. OffPos(s[t]) = 4 /\ Width(s[t]) = 4 /\ s[t] \in Forward /\ s[t] \notin {"if", "begin", "case"}
  BY <1>3 DEF OffPos, Width, Cells, Forward
<1>7. /\ p \in 1..Len(C) /\ p \in Int /\ b \in Int /\ Address(p) \in Mark /\ Address(b) \in Mark
  <2>1. /\ OffPos(s[t]) > 0 => Off(s, st, t) \in 1..Len(C)
        /\ Off(s, st, t) \in Int /\ Address(Off(s, st, t)) \in Mark
        /\ st[t] \in Nat /\ Address(st[t] + 4) \in Mark
    BY <1>4, OffsOf
  <2> QED  BY <2>1, <1>6
<1>8. Resolves(s, w) = {t}
  <2>1. Parts(s, t) = {}
    BY <1>4, <1>5, <1>6, PartsAre
  <2> QED  BY <2>1, <1>1, <1>2, <1>6, ResolvesClosing
<1>9. OffPos(w) \in Int /\ d \in Int
  <2>1. w = "loop" \/ w = "+loop"
    OBVIOUS
  <2>2. OffPos(w) \in Int
    BY <2>1 DEF OffPos
  <2> QED  BY <2>2, <1>5, <1>7
<1>10. d = Place(st, C, Taken(z, n + 1)) - (Len(C) + OffPos(w))
  <2>1. Place(st, C, Taken(z, n + 1)) = st[t] + Width(s[t])
    BY <1>1, <1>2, TakenBack
  <2> QED  BY <2>1, <1>6
<1> HIDE DEF d
<1>11. Grown(C, w, {Off(s, st, k) : k \in Resolves(s, w)}, d, D)
  <2>1. {Off(s, st, k) : k \in Resolves(s, w)} = {p}
    BY <1>8
  <2>2. Grown(C, w, {p}, d, AtMark(Cat(C, RowOf(w, d)), p))
    BY <1>1, <1>5, <1>7, <1>9, GrownOne
  <2> QED  BY <2>1, <2>2
<1>12. Good(z, y, D, full) /\ StackOf(z, full) = B
  BY <1>1, <1>2, <1>10, <1>11, ClosesGrow
<1>13. Compiled(w, Pop(Rec(C, StackOf(s, full)))) = Rec(D, B)
  <2> HIDE DEF t, B, p, b
  <2>1. full[t] = Cat(B, <<Address(p), Address(b), Follow({"loop", "+loop"})>>)
    BY <1>3, <1>4 DEF MarksOf, DoMarks, p, b
  <2>2. Pop(Rec(C, full[t])) = Rec(C, Cat(B, <<Address(p), Address(b)>>))
    BY <2>1, <1>4, <1>7, MayFollow, PopThree
  <2>3. /\ w = "loop" => OffPos(w) = 2
        /\ w = "+loop" => OffPos(w) = 3
    BY DEF OffPos
  <2>4. CASE w = "loop"
    <3>1. d = b - (Len(C) + 2)
      BY <2>3, <2>4 DEF d
    <3>2. Compiled("loop", Rec(C, Cat(B, <<Address(p), Address(b)>>)))
            = Rec(AtMark(Cat(C, RowOf("loop", b - (Len(C) + 2))), p), B)
      BY <1>4, <1>5, <1>7, CompiledLoop
    <3> QED  BY <3>1, <3>2, <2>2, <2>4, <1>4
  <2>5. CASE w = "+loop"
    <3>1. d = b - (Len(C) + 3)
      BY <2>3, <2>5 DEF d
    <3>2. Compiled("+loop", Rec(C, Cat(B, <<Address(p), Address(b)>>)))
            = Rec(AtMark(Cat(C, RowOf("+loop", b - (Len(C) + 3))), p), B)
      BY <1>4, <1>5, <1>7, CompiledLoop
    <3> QED  BY <3>1, <3>2, <2>2, <2>5, <1>4
  <2> QED  BY <2>4, <2>5
<1> QED  BY <1>12, <1>13 DEF Grew

(* then keeps the invariant of the compiler. *)
LEMMA ThenGrows ==
  ASSUME NEW s, NEW st, NEW C, NEW full, Good(s, st, C, full), "then" \in Last(StackOf(s, full)).follow
  PROVE  Grew(s, st, C, "then", Compiled("then", Pop(Rec(C, StackOf(s, full)))))
<1> DEFINE z == Append(s, "then") y == Append(st, Len(C) + 1) n == Len(s) t == Top(s, n)
           B == BaseOf(full, Opn(s, t - 1))
<1>1. "then" \in Checked /\ "then" \in Closing \ Continuing /\ "then" \in Closing /\ "then" \in Words
  BY DEF Checked, Closing, Continuing, Words
<1>2. Opn(s, n) # {} /\ LegalAt(z, n + 1) /\ s[t] \in OpenerOf("then")
  BY <1>1, CheckedKind
<1>3. s[t] = "if"
  BY <1>2 DEF OpenerOf
<1>4. StackOf(s, full) = full[t] /\ t \in 1..n /\ B \in Seq(Mark) /\ MarksOf(s, st, B, t, full[t])
  BY <1>2, StackInside
<1>5. s \in Seq(Words) /\ C \in Seq(Cell)
  BY GoodTypes
<1>6. s[t] \in Forward /\ OffPos("then") = 0
  BY <1>3 DEF OffPos, Forward
<1>r. /\ Parts(s, t) = {} => Resolves(s, "then") = {t}
      /\ Parts(s, t) # {} => Resolves(s, "then") = Parts(s, t)
  BY <1>1, <1>2, <1>3, <1>6, ResolvesClosing
<1> HIDE DEF t, B
<1>7. \E k \in 1..n : \E W \in SUBSET Words :
           /\ OffPos(s[k]) > 0 /\ Resolves(s, "then") = {k}
           /\ full[t] = Cat(B, <<Address(Off(s, st, k)), Follow(W)>>)
  <2>1. IfMarks(s, st, B, t, full[t])
    BY <1>3, <1>4 DEF MarksOf
  <2>2. CASE Parts(s, t) = {} /\ full[t] = Cat(B, <<Address(Off(s, st, t)), Follow({"else", "then"})>>)
    <3>1. OffPos(s[t]) > 0
      BY <1>3 DEF OffPos
    <3> QED  BY <2>2, <3>1, <1>4, <1>r, FollowSets
  <2>3. CASE \E e \in Parts(s, t) : /\ Parts(s, t) = {e}
                                    /\ full[t] = Cat(B, <<Address(Off(s, st, e)), Follow({"then"})>>)
    <3>1. PICK e \in Parts(s, t) : /\ Parts(s, t) = {e}
                                   /\ full[t] = Cat(B, <<Address(Off(s, st, e)), Follow({"then"})>>)
      BY <2>3
    <3>2. e \in 1..n /\ OffPos(s[e]) > 0
      BY <1>4, <1>5, PartsAre
    <3>3. Resolves(s, "then") = {e}
      BY <3>1, <1>r
    <3> QED  BY <3>1, <3>2, <3>3, FollowSets
  <2> QED  BY <2>1, <2>2, <2>3 DEF IfMarks
<1>8. PICK k \in 1..n : \E W \in SUBSET Words :
           /\ OffPos(s[k]) > 0 /\ Resolves(s, "then") = {k}
           /\ full[t] = Cat(B, <<Address(Off(s, st, k)), Follow(W)>>)
  BY <1>7
<1>9. PICK W \in SUBSET Words :
           /\ OffPos(s[k]) > 0 /\ Resolves(s, "then") = {k}
           /\ full[t] = Cat(B, <<Address(Off(s, st, k)), Follow(W)>>)
  BY <1>8
<1> DEFINE p == Off(s, st, k) D == AtMark(Cat(C, RowOf("then", 0)), p)
<1>10. p \in 1..Len(C) /\ p \in Int /\ Address(p) \in Mark /\ Follow(W) \in Mark
  BY <1>9, OffsOf, MayFollow
<1>11. Grown(C, "then", {Off(s, st, j) : j \in Resolves(s, "then")}, 0, D)
  <2>1. {Off(s, st, j) : j \in Resolves(s, "then")} = {p}
    BY <1>9
  <2>2. Grown(C, "then", {p}, 0, AtMark(Cat(C, RowOf("then", 0)), p))
    BY <1>1, <1>5, <1>10, GrownOne
  <2> QED  BY <2>1, <2>2
<1>12. Good(z, y, D, full) /\ StackOf(z, full) = B
  <2>1. OffPos("then") > 0 => 0 = Place(st, C, Taken(z, n + 1)) - (Len(C) + OffPos("then"))
    BY <1>6
  <2> QED  BY <2>1, <1>1, <1>2, <1>11, ClosesGrow DEF B, t
<1> HIDE DEF p
<1>13. Pop(Rec(C, Cat(B, <<Address(p), Follow(W)>>))) = Rec(C, Cat(B, <<Address(p)>>))
  BY <1>4, <1>10, PopTwo
<1>14. Compiled("then", Rec(C, Cat(B, <<Address(p)>>))) = Rec(D, B)
  BY <1>4, <1>5, <1>10, CompiledThen
<1>15. StackOf(s, full) = Cat(B, <<Address(p), Follow(W)>>)
  BY <1>4, <1>9 DEF p
<1> QED  BY <1>12, <1>13, <1>14, <1>15 DEF Grew

(* else keeps it. *)
LEMMA ElseGrows ==
  ASSUME NEW s, NEW st, NEW C, NEW full, Good(s, st, C, full), "else" \in Last(StackOf(s, full)).follow
  PROVE  Grew(s, st, C, "else", Compiled("else", Pop(Rec(C, StackOf(s, full)))))
<1> DEFINE z == Append(s, "else") y == Append(st, Len(C) + 1) n == Len(s) t == Top(s, n)
           B == BaseOf(full, Opn(s, t - 1)) p == Off(s, st, t)
           D == AtMark(Cat(C, RowOf("else", 0)), p)
           m == Cat(B, <<Address(Len(C) + 2), Follow({"then"})>>)
<1>1. "else" \in Checked /\ "else" \in Continuing /\ "else" \in Words /\ "else" \notin Opening \cup Closing
  BY DEF Checked, Closing, Continuing, Words, Opening, Openers
<1>2. Opn(s, n) # {} /\ LegalAt(z, n + 1) /\ s[t] \in OpenerOf("else") /\ Parts(s, t) = {}
  BY <1>1, CheckedKind
<1>3. s[t] = "if"
  BY <1>2 DEF OpenerOf
<1>4. StackOf(s, full) = full[t] /\ t \in 1..n /\ B \in Seq(Mark) /\ MarksOf(s, st, B, t, full[t])
  BY <1>2, StackInside
<1>5. s \in Seq(Words) /\ C \in Seq(Cell) /\ Len(C) \in Nat /\ Balanced(s) /\ Legal(s) /\ n \in Nat
  BY GoodTypes
<1>6. OffPos(s[t]) > 0 /\ OffPos("else") = 2
  BY <1>3 DEF OffPos
<1>7. p \in 1..Len(C) /\ p \in Int /\ Address(p) \in Mark
  BY <1>4, <1>6, OffsOf
<1>8. Resolves(s, "else") = {t}
  <2>1. \A k \in 1..n : ~Settled(s, k) /\ Settled(Append(s, "else"), k) <=> k = t
    BY <1>2, <1>3, <1>5, ElseSettles
  <2> QED  BY <2>1, <1>4 DEF Resolves
<1>9. Grown(C, "else", {Off(s, st, j) : j \in Resolves(s, "else")}, 0, D)
  <2>1. {Off(s, st, j) : j \in Resolves(s, "else")} = {p}
    BY <1>8
  <2>2. Grown(C, "else", {p}, 0, AtMark(Cat(C, RowOf("else", 0)), p))
    BY <1>1, <1>5, <1>7, GrownOne
  <2> QED  BY <2>1, <2>2
<1>10. Address(Len(C) + 2) \in Mark /\ m \in Seq(Mark)
  <2>1. Address(Len(C) + 2) \in Mark
    BY <1>5, MarkTypes
  <2> QED  BY <2>1, <1>4, MayFollow, Row2
<1>11. Top(z, n + 1) = t
  <2>1. Opn(z, n + 1) = Opn(s, n)
    BY <1>1, <1>5, OpenAppend
  <2> QED  BY <2>1 DEF Top
<1>12. MarksOf(z, y, B, t, m)
  <2>1. Legal(z)
    BY <1>1, <1>2, <1>5, LegalAppend
  <2>2. Parts(z, t) = Parts(s, t) \cup {n + 1}
    BY <1>1, <1>5, <1>11, <2>1, PartsContinued
  <2>3. Off(z, y, n + 1) = Len(C) + OffPos("else") /\ z[t] = s[t]
    BY <1>1, <1>4, NewWord
  <2> HIDE DEF z, y, n, t, B
  <2>4. Parts(z, t) = {n + 1} /\ Off(z, y, n + 1) = Len(C) + 2
    BY <2>2, <2>3, <1>2, <1>6
  <2>5. IfMarks(z, y, B, t, m)
    BY <2>4 DEF IfMarks
  <2> QED  BY <2>3, <2>5, <1>3 DEF MarksOf
<1>13. \E f : Good(z, y, D, f) /\ StackOf(z, f) = m
  <2> HIDE DEF D, m, B
  <2>1. MarksOf(z, y, BaseOf(full, Opn(s, t - 1)), t, m)
    BY <1>12 DEF B
  <2> QED  BY <2>1, <1>1, <1>2, <1>9, <1>10, <1>11, ContinuesGrow
<1>14. Compiled("else", Pop(Rec(C, StackOf(s, full)))) = Rec(D, m)
  <2> HIDE DEF t, B, p
  <2>1. full[t] = Cat(B, <<Address(p), Follow({"else", "then"})>>)
    <3>1. IfMarks(s, st, B, t, full[t])
      BY <1>3, <1>4 DEF MarksOf
    <3> QED  BY <3>1, <1>2 DEF IfMarks, p
  <2>2. Pop(Rec(C, full[t])) = Rec(C, Cat(B, <<Address(p)>>))
    BY <2>1, <1>4, <1>7, MayFollow, PopTwo
  <2>3. Compiled("else", Rec(C, Cat(B, <<Address(p)>>))) = Rec(D, m)
    BY <1>4, <1>5, <1>7, CompiledElse
  <2> QED  BY <2>2, <2>3, <1>4
<1> QED  BY <1>13, <1>14 DEF Grew

(* while keeps it. *)
LEMMA WhileGrows ==
  ASSUME NEW s, NEW st, NEW C, NEW full, Good(s, st, C, full), "while" \in Last(StackOf(s, full)).follow
  PROVE  Grew(s, st, C, "while", Compiled("while", Pop(Rec(C, StackOf(s, full)))))
<1> DEFINE z == Append(s, "while") y == Append(st, Len(C) + 1) n == Len(s) t == Top(s, n)
           B == BaseOf(full, Opn(s, t - 1)) D == Cat(C, RowOf("while", 0))
           m == Cat(B, <<Address(st[t]), Address(Len(C) + 3), Follow({"repeat"})>>)
<1>1. /\ "while" \in Checked /\ "while" \in Continuing /\ "while" \in Words
      /\ "while" \notin Opening \cup Closing /\ "while" \in Words \ Closing /\ "while" # "else"
  BY DEF Checked, Closing, Continuing, Words, Opening, Openers
<1>2. Opn(s, n) # {} /\ LegalAt(z, n + 1) /\ s[t] \in OpenerOf("while") /\ Parts(s, t) = {}
  BY <1>1, CheckedKind
<1>3. s[t] = "begin"
  BY <1>2 DEF OpenerOf
<1>4. StackOf(s, full) = full[t] /\ t \in 1..n /\ B \in Seq(Mark) /\ MarksOf(s, st, B, t, full[t])
  BY <1>2, StackInside
<1>5. s \in Seq(Words) /\ C \in Seq(Cell) /\ Len(C) \in Nat /\ Balanced(s) /\ Legal(s) /\ n \in Nat
      /\ st \in Seq(Nat) /\ Len(st) = Len(s)
  BY GoodTypes
<1>6. OffPos("while") = 3
  BY DEF OffPos
<1>7. Address(st[t]) \in Mark
  BY <1>4, OffsOf
<1>8. {Off(s, st, j) : j \in Resolves(s, "while")} = {}
  <2>1. Resolves(s, "while") = {}
    BY <1>1, <1>5, NothingSettled DEF Resolves
  <2> QED  BY <2>1
<1>9. Grown(C, "while", {Off(s, st, j) : j \in Resolves(s, "while")}, 0, D)
  <2>2. Grown(C, "while", {}, 0, Cat(C, RowOf("while", 0)))
    BY <1>1, <1>5, GrownCat
  <2> QED  BY <1>8, <2>2
<1>10. Address(Len(C) + 3) \in Mark /\ m \in Seq(Mark)
  <2>1. Address(Len(C) + 3) \in Mark
    BY <1>5, MarkTypes
  <2> QED  BY <2>1, <1>4, <1>7, MayFollow, Row3
<1>11. Top(z, n + 1) = t
  <2>1. Opn(z, n + 1) = Opn(s, n)
    BY <1>1, <1>5, OpenAppend
  <2> QED  BY <2>1 DEF Top
<1>12. MarksOf(z, y, B, t, m)
  <2>1. Legal(z)
    BY <1>1, <1>2, <1>5, LegalAppend
  <2>2. Parts(z, t) = Parts(s, t) \cup {n + 1}
    BY <1>1, <1>5, <1>11, <2>1, PartsContinued
  <2>3. Off(z, y, n + 1) = Len(C) + OffPos("while") /\ z[t] = s[t]
    BY <1>1, <1>4, NewWord
  <2>6. y[t] = st[t]
    BY <1>4, <1>5
  <2> HIDE DEF z, y, n, t, B
  <2>4. Parts(z, t) = {n + 1} /\ Off(z, y, n + 1) = Len(C) + 3
    BY <2>2, <2>3, <1>2, <1>6
  <2>5. BeginMarks(z, y, B, t, m)
    BY <2>4, <2>6 DEF BeginMarks
  <2> QED  BY <2>3, <2>5, <1>3 DEF MarksOf
<1>13. \E f : Good(z, y, D, f) /\ StackOf(z, f) = m
  <2> HIDE DEF D, m, B
  <2>1. MarksOf(z, y, BaseOf(full, Opn(s, t - 1)), t, m)
    BY <1>12 DEF B
  <2> QED  BY <2>1, <1>1, <1>2, <1>9, <1>10, <1>11, ContinuesGrow
<1>14. Compiled("while", Pop(Rec(C, StackOf(s, full)))) = Rec(D, m)
  <2> DEFINE b == st[t]
  <2>0. Address(b) \in Mark
    BY <1>7
  <2> HIDE DEF t, B
  <2>1. full[t] = Cat(B, <<Address(b), Follow({"again", "until", "while"})>>)
    <3>1. BeginMarks(s, st, B, t, full[t])
      BY <1>3, <1>4 DEF MarksOf
    <3> QED  BY <3>1, <1>2 DEF BeginMarks
  <2> HIDE DEF b
  <2>2. Pop(Rec(C, full[t])) = Rec(C, Cat(B, <<Address(b)>>)) /\ Cat(B, <<Address(b)>>) \in Seq(Mark)
    BY <2>0, <2>1, <1>4, MayFollow, PopTwo
  <2>3. Compiled("while", Rec(C, Cat(B, <<Address(b)>>)))
          = Rec(D, Cat(Cat(B, <<Address(b)>>), <<Address(Len(C) + 3), Follow({"repeat"})>>))
    BY <2>2, <1>5, CompiledIf
  <2>4. Cat(Cat(B, <<Address(b)>>), <<Address(Len(C) + 3), Follow({"repeat"})>>)
          = Cat(B, <<Address(b), Address(Len(C) + 3), Follow({"repeat"})>>)
    <3> DEFINE q == Address(Len(C) + 3) r == Follow({"repeat"}) u == Cat(B, <<Address(b)>>)
    <3>1. q \in Mark /\ r \in Mark /\ u \in Seq(Mark)
      BY <1>10, <2>2, MayFollow
    <3> HIDE DEF q, r
    <3>2. Cat(Cat(B, <<Address(b)>>), <<q>>) = Cat(B, <<Address(b), q>>)
      BY <2>0, <3>1, <1>4, Row2
    <3>3. Cat(Cat(B, <<Address(b), q>>), <<r>>) = Cat(B, <<Address(b), q, r>>)
      BY <2>0, <3>1, <1>4, Row3
    <3>4. Cat(Cat(u, <<q>>), <<r>>) = Cat(u, <<q, r>>)
      BY <3>1, Row2
    <3> QED  BY <3>2, <3>3, <3>4 DEF q, r
  <2>5. m = Cat(B, <<Address(b), Address(Len(C) + 3), Follow({"repeat"})>>)
    BY DEF b
  <2> QED  BY <2>2, <2>3, <2>4, <2>5, <1>4
<1> QED  BY <1>13, <1>14 DEF Grew

(* until and again keep it. *)
LEMMA UntilGrows ==
  ASSUME NEW s, NEW st, NEW C, NEW full, Good(s, st, C, full), NEW w \in {"until", "again"},
         w \in Last(StackOf(s, full)).follow
  PROVE  Grew(s, st, C, w, Compiled(w, Pop(Rec(C, StackOf(s, full)))))
<1> DEFINE z == Append(s, w) y == Append(st, Len(C) + 1) n == Len(s) t == Top(s, n)
           B == BaseOf(full, Opn(s, t - 1)) b == st[t]
           d == b - (Len(C) + OffPos(w)) D == Cat(C, RowOf(w, d))
<1>1. w \in Checked /\ w \in Closing \ Continuing /\ w \in Closing \ Forward /\ w \in Words /\ w \in Closing
      /\ w \in {"else", "while", "until", "again"}
  BY DEF Checked, Closing, Continuing, Forward, Words
<1>2. Opn(s, n) # {} /\ LegalAt(z, n + 1) /\ s[t] \in OpenerOf(w) /\ Parts(s, t) = {}
  BY <1>1, CheckedKind
<1>3. s[t] = "begin"
  BY <1>2 DEF OpenerOf
<1>4. StackOf(s, full) = full[t] /\ t \in 1..n /\ B \in Seq(Mark) /\ MarksOf(s, st, B, t, full[t])
  BY <1>2, StackInside
<1>5. s \in Seq(Words) /\ C \in Seq(Cell) /\ Len(C) \in Nat
  BY GoodTypes
<1>6. Width(s[t]) = 0 /\ s[t] \notin Forward
  BY <1>3 DEF Width, Cells, Forward
<1>7. b \in Int /\ Address(b) \in Mark
  BY <1>4, OffsOf
<1>8. Resolves(s, w) = {}
  <2>1. s[t] \notin Forward \/ (s[t] = "if" /\ Parts(s, t) # {}) => Resolves(s, w) = Parts(s, t)
    BY <1>1, <1>2, ResolvesClosing
  <2>2. s[t] \notin Forward /\ Parts(s, t) = {}
    BY <1>2, <1>6
  <2> HIDE DEF t
  <2> QED  BY <2>1, <2>2, Zenon
<1>9. OffPos(w) \in Int /\ d \in Int
  <2>1. w = "until" \/ w = "again"
    OBVIOUS
  <2>2. OffPos(w) \in Int
    BY <2>1 DEF OffPos
  <2> QED  BY <2>2, <1>5, <1>7
<1>10. d = Place(st, C, Taken(z, n + 1)) - (Len(C) + OffPos(w))
  <2>1. Place(st, C, Taken(z, n + 1)) = st[t] + Width(s[t])
    BY <1>1, <1>2, TakenBack
  <2> QED  BY <2>1, <1>6, <1>7
<1> HIDE DEF d
<1>11. Grown(C, w, {Off(s, st, k) : k \in Resolves(s, w)}, d, D)
  <2>1. {Off(s, st, k) : k \in Resolves(s, w)} = {}
    BY <1>8
  <2>2. Grown(C, w, {}, d, Cat(C, RowOf(w, d)))
    BY <1>1, <1>5, <1>9, GrownCat
  <2> QED  BY <2>1, <2>2
<1>12. Good(z, y, D, full) /\ StackOf(z, full) = B
  BY <1>1, <1>2, <1>10, <1>11, ClosesGrow
<1>13. Compiled(w, Pop(Rec(C, StackOf(s, full)))) = Rec(D, B)
  <2> HIDE DEF t, B, b
  <2>1. full[t] = Cat(B, <<Address(b), Follow({"again", "until", "while"})>>)
    <3>1. BeginMarks(s, st, B, t, full[t])
      BY <1>3, <1>4 DEF MarksOf
    <3> QED  BY <3>1, <1>2 DEF BeginMarks, b
  <2>2. Pop(Rec(C, full[t])) = Rec(C, Cat(B, <<Address(b)>>))
    BY <2>1, <1>4, <1>7, MayFollow, PopTwo
  <2>3. /\ w = "until" => OffPos(w) = 3
        /\ w = "again" => OffPos(w) = 2
    BY DEF OffPos
  <2>4. CASE w = "until"
    <3>1. d = b - (Len(C) + 3)
      BY <2>3, <2>4 DEF d
    <3>2. Compiled("until", Rec(C, Cat(B, <<Address(b)>>)))
            = Rec(Cat(C, RowOf("until", b - (Len(C) + 3))), B)
      BY <1>4, <1>5, <1>7, CompiledUntil
    <3> QED  BY <3>1, <3>2, <2>2, <2>4, <1>4
  <2>5. CASE w = "again"
    <3>1. d = b - (Len(C) + 2)
      BY <2>3, <2>5 DEF d
    <3>2. Compiled("again", Rec(C, Cat(B, <<Address(b)>>)))
            = Rec(Cat(C, RowOf("again", b - (Len(C) + 2))), B)
      BY <1>4, <1>5, <1>7, CompiledUntil
    <3> QED  BY <3>1, <3>2, <2>2, <2>5, <1>4
  <2> QED  BY <2>4, <2>5
<1> QED  BY <1>12, <1>13 DEF Grew

(* repeat keeps it. *)
LEMMA RepeatGrows ==
  ASSUME NEW s, NEW st, NEW C, NEW full, Good(s, st, C, full), "repeat" \in Last(StackOf(s, full)).follow
  PROVE  Grew(s, st, C, "repeat", Compiled("repeat", Pop(Rec(C, StackOf(s, full)))))
<1> DEFINE z == Append(s, "repeat") y == Append(st, Len(C) + 1) n == Len(s) t == Top(s, n)
           B == BaseOf(full, Opn(s, t - 1)) b == st[t]
           d == b - (Len(C) + OffPos("repeat"))
<1>1. "repeat" \in Checked /\ "repeat" \in Closing \ Continuing /\ "repeat" \in Closing \ Forward
      /\ "repeat" \in Words /\ "repeat" \in Closing
  BY DEF Checked, Closing, Continuing, Forward, Words
<1>2. Opn(s, n) # {} /\ LegalAt(z, n + 1) /\ s[t] \in OpenerOf("repeat") /\ Parts(s, t) # {}
  BY <1>1, CheckedKind
<1>3. s[t] = "begin"
  BY <1>2 DEF OpenerOf
<1>4. StackOf(s, full) = full[t] /\ t \in 1..n /\ B \in Seq(Mark) /\ MarksOf(s, st, B, t, full[t])
  BY <1>2, StackInside
<1>5. s \in Seq(Words) /\ C \in Seq(Cell) /\ Len(C) \in Nat
  BY GoodTypes
<1>6. Width(s[t]) = 0 /\ s[t] \notin Forward
  BY <1>3 DEF Width, Cells, Forward
<1>7. b \in Int /\ Address(b) \in Mark
  BY <1>4, OffsOf
<1>8. Resolves(s, "repeat") = Parts(s, t)
  BY <1>1, <1>2, <1>6, ResolvesClosing
<1>9. OffPos("repeat") = 2 /\ d \in Int
  <2>2. OffPos("repeat") = 2
    BY DEF OffPos
  <2> QED  BY <2>2, <1>5, <1>7
<1>10. d = Place(st, C, Taken(z, n + 1)) - (Len(C) + OffPos("repeat"))
  <2>1. Place(st, C, Taken(z, n + 1)) = st[t] + Width(s[t])
    BY <1>1, <1>2, TakenBack
  <2> QED  BY <2>1, <1>6, <1>7
<1>m. PICK e \in Parts(s, t) :
        /\ Parts(s, t) = {e}
        /\ full[t] = Cat(B, <<Address(b), Address(Off(s, st, e)), Follow({"repeat"})>>)
  <2>1. BeginMarks(s, st, B, t, full[t])
    BY <1>3, <1>4 DEF MarksOf
  <2> QED  BY <2>1, <1>2 DEF BeginMarks
<1> DEFINE p == Off(s, st, e) D == AtMark(Cat(C, RowOf("repeat", d)), p)
<1>p. p \in 1..Len(C) /\ p \in Int /\ Address(p) \in Mark
  <2>1. e \in 1..n /\ OffPos(s[e]) > 0
    BY <1>4, <1>5, PartsAre
  <2> QED  BY <2>1, OffsOf
<1> HIDE DEF d
<1>11. Grown(C, "repeat", {Off(s, st, k) : k \in Resolves(s, "repeat")}, d, D)
  <2>1. {Off(s, st, k) : k \in Resolves(s, "repeat")} = {p}
    BY <1>8, <1>m
  <2>2. Grown(C, "repeat", {p}, d, AtMark(Cat(C, RowOf("repeat", d)), p))
    BY <1>1, <1>5, <1>9, <1>p, GrownOne
  <2> QED  BY <2>1, <2>2
<1>12. Good(z, y, D, full) /\ StackOf(z, full) = B
  BY <1>1, <1>2, <1>10, <1>11, ClosesGrow
<1>13. Compiled("repeat", Pop(Rec(C, StackOf(s, full)))) = Rec(D, B)
  <2> HIDE DEF t, B, b, p
  <2>1. full[t] = Cat(B, <<Address(b), Address(p), Follow({"repeat"})>>)
    BY <1>m DEF p
  <2>2. Pop(Rec(C, full[t])) = Rec(C, Cat(B, <<Address(b), Address(p)>>))
    BY <2>1, <1>4, <1>7, <1>p, MayFollow, PopThree
  <2>3. d = b - (Len(C) + 2)
    BY <1>9 DEF d
  <2>4. Compiled("repeat", Rec(C, Cat(B, <<Address(b), Address(p)>>)))
          = Rec(AtMark(Cat(C, RowOf("repeat", b - (Len(C) + 2))), p), B)
    BY <1>4, <1>5, <1>7, <1>p, CompiledRepeat
  <2> QED  BY <2>2, <2>3, <2>4, <1>4
<1> QED  BY <1>12, <1>13 DEF Grew

(* The marks of an open case: those of its endofs on a zero. *)
CaseRow(s, st, full, j, a) ==
  LET B == BaseOf(full, Opn(s, j - 1))
  IN  /\ B \in Seq(Mark)
      /\ Marked(a, {Off(s, st, e) : e \in Parts(s, j)}) /\ a \in Seq(Mark)
      /\ Cat(Cat(B, <<Address(0)>>), a) \in Seq(Mark)
      /\ full[j] = Cat(Cat(Cat(B, <<Address(0)>>), a), <<Follow({"of", "endcase"})>>)

(* Over the zero of an open case lie the marks of its endofs. *)
LEMMA CaseStack ==
  ASSUME NEW s, NEW st, NEW C, NEW full, Good(s, st, C, full), NEW j \in Opn(s, Len(s)), s[j] = "case"
  PROVE  \E a : CaseRow(s, st, full, j, a)
<1> DEFINE B == BaseOf(full, Opn(s, j - 1))
<1>1. j \in 1..Len(s) /\ full \in [Nat -> Seq(Mark)] /\ j - 1 \in Nat
  BY GoodTypes DEF Opn
<1>2. B \in Seq(Mark)
  BY <1>1, BaseType
<1>3. MarksOf(s, st, B, j, full[j])
  BY DEF Good, Shapes, Shape
<1> HIDE DEF B
<1>4. PICK a : /\ Marked(a, {Off(s, st, e) : e \in Parts(s, j)})
               /\ full[j] = Cat(Cat(Cat(B, <<Address(0)>>), a), <<Follow({"of", "endcase"})>>)
  BY <1>3 DEF MarksOf, CaseMarks
<1>5. a \in Seq(Mark) /\ Address(0) \in Mark
  BY <1>4, MarkTypes DEF Marked
<1>6. Cat(B, <<Address(0)>>) \in Seq(Mark)
  BY <1>5, <1>2, Row1
<1>7. Cat(Cat(B, <<Address(0)>>), a) \in Seq(Mark)
  BY <1>5, <1>6, CatProperties
<1> QED  BY <1>2, <1>4, <1>5, <1>7, Zenon DEF B, CaseRow

(* of keeps it. *)
LEMMA OfGrows ==
  ASSUME NEW s, NEW st, NEW C, NEW full, Good(s, st, C, full), "of" \in Last(StackOf(s, full)).follow
  PROVE  Grew(s, st, C, "of", Compiled("of", Pop(Rec(C, StackOf(s, full)))))
<1> DEFINE z == Append(s, "of") y == Append(st, Len(C) + 1) n == Len(s) t == Top(s, n)
           B == BaseOf(full, Opn(s, t - 1)) S == StackOf(s, full)
<1>1. "of" \in Checked /\ "of" \in Opening /\ "of" \in Words
  BY DEF Checked, Opening, Words
<1>2. Opn(s, n) # {} /\ LegalAt(z, n + 1) /\ s[t] \in OpenerOf("of")
  BY <1>1, CheckedKind
<1>3. s[t] = "case"
  BY <1>2 DEF OpenerOf
<1>4. S = full[t] /\ t \in Opn(s, n)
  BY <1>2, StackInside
<1>5. C \in Seq(Cell) /\ Len(C) \in Nat
  BY GoodTypes
<1>c. PICK a : CaseRow(s, st, full, t, a)
  BY <1>3, <1>4, CaseStack
<1>6. /\ Cat(Cat(B, <<Address(0)>>), a) \in Seq(Mark)
      /\ full[t] = Cat(Cat(Cat(B, <<Address(0)>>), a), <<Follow({"of", "endcase"})>>)
  BY <1>c, Zenon DEF CaseRow
<1> DEFINE x == Cat(Cat(B, <<Address(0)>>), a) m == Cat(x, <<Address(Len(C) + 5), Follow({"endof"})>>)
<1>7. x \in Seq(Mark) /\ S = Cat(x, <<Follow({"of", "endcase"})>>)
  BY <1>4, <1>6
<1> HIDE DEF x
<1>8. Pop(Rec(C, S)) = Rec(C, x)
  BY <1>7, MayFollow, DoPop
<1>9. Compiled("of", Rec(C, x)) = Rec(Cat(C, RowOf("of", 0)), m)
  BY <1>5, <1>7, CompiledOf
<1>10. m \in Seq(Mark)
  <2>1. Address(Len(C) + 5) \in Mark
    BY <1>5, MarkTypes
  <2> QED  BY <2>1, <1>7, MayFollow, Row2
<1>11. MarksOf(z, y, S, n + 1, m)
  <2>1. z[n + 1] = "of" /\ Off(z, y, n + 1) = Len(C) + OffPos("of")
    BY <1>1, NewWord
  <2>2. OffPos("of") = 5
    BY DEF OffPos
  <2> HIDE DEF z, y, n, S
  <2>3. OfMarks(z, y, S, n + 1, m)
    BY <2>1, <2>2, <1>7 DEF OfMarks
  <2> QED  BY <2>1, <2>3 DEF MarksOf
<1> HIDE DEF m, t
<1>12. Grew(s, st, C, "of", Rec(Cat(C, RowOf("of", 0)), m))
  BY <1>1, <1>2, <1>10, <1>11, OpensWith
<1> QED  BY <1>8, <1>9, <1>12

(* endcase keeps it. *)
LEMMA EndCaseGrows ==
  ASSUME NEW s, NEW st, NEW C, NEW full, Good(s, st, C, full), "endcase" \in Last(StackOf(s, full)).follow
  PROVE  Grew(s, st, C, "endcase", Compiled("endcase", Pop(Rec(C, StackOf(s, full)))))
<1> DEFINE z == Append(s, "endcase") y == Append(st, Len(C) + 1) n == Len(s) t == Top(s, n)
           B == BaseOf(full, Opn(s, t - 1)) S == StackOf(s, full)
<1>1. "endcase" \in Checked /\ "endcase" \in Closing \ Continuing /\ "endcase" \in Closing
  BY DEF Checked, Closing, Continuing
<1>2. Opn(s, n) # {} /\ LegalAt(z, n + 1) /\ s[t] \in OpenerOf("endcase")
  BY <1>1, CheckedKind
<1>3. s[t] = "case" /\ s[t] \notin Forward
  BY <1>2 DEF OpenerOf, Forward
<1>4. S = full[t] /\ t \in Opn(s, n) /\ t \in 1..n
  BY <1>2, StackInside
<1>5. s \in Seq(Words) /\ C \in Seq(Cell)
  BY GoodTypes
<1>c. PICK a : CaseRow(s, st, full, t, a)
  BY <1>3, <1>4, CaseStack
<1>6. /\ B \in Seq(Mark)
      /\ Marked(a, {Off(s, st, e) : e \in Parts(s, t)}) /\ a \in Seq(Mark)
      /\ Cat(Cat(B, <<Address(0)>>), a) \in Seq(Mark)
      /\ full[t] = Cat(Cat(Cat(B, <<Address(0)>>), a), <<Follow({"of", "endcase"})>>)
  BY <1>c, Zenon DEF CaseRow
<1> DEFINE x == Cat(Cat(B, <<Address(0)>>), a) K == {a[i].at : i \in 1..Len(a)}
           D == AtMarks(Cat(C, RowOf("endcase", 0)), K)
<1>7. K = {Off(s, st, e) : e \in Resolves(s, "endcase")}
  <2>1. Resolves(s, "endcase") = Parts(s, t)
    <3>1. s[t] \notin Forward \/ (s[t] = "if" /\ Parts(s, t) # {}) => Resolves(s, "endcase") = Parts(s, t)
      BY <1>1, <1>2, ResolvesClosing
    <3>2. s[t] \notin Forward
      BY <1>3
    <3> HIDE DEF t
    <3> QED  BY <3>1, <3>2, Zenon
  <2>2. K = {Off(s, st, e) : e \in Parts(s, t)}
    BY <1>6 DEF Marked
  <2> QED  BY <2>1, <2>2
<1>8. Pop(Rec(C, S)) = Rec(C, x)
  <2> HIDE DEF x
  <2>1. x \in Seq(Mark) /\ S = Cat(x, <<Follow({"of", "endcase"})>>)
    BY <1>4, <1>6 DEF x
  <2> QED  BY <2>1, MayFollow, DoPop
<1>9. /\ \A i \in 1..Len(a) : a[i].at \in 1..Len(C) /\ a[i] = Address(a[i].at)
      /\ \A i, j \in 1..Len(a) : i # j => a[i].at # a[j].at
  <2>1. /\ \A i \in 1..Len(a) : a[i] = Address(a[i].at)
        /\ \A i, j \in 1..Len(a) : i # j => a[i].at # a[j].at
        /\ K = {Off(s, st, e) : e \in Parts(s, t)}
    BY <1>6, Zenon DEF Marked
  <2>2. \A e \in Parts(s, t) : Off(s, st, e) \in 1..Len(C)
    <3>1. \A e \in Parts(s, t) : e \in 1..n /\ OffPos(s[e]) > 0
      BY <1>4, <1>5, PartsAre
    <3> QED  BY <3>1, OffsOf
  <2>3. \A k \in K : k \in 1..Len(C)
    <3> HIDE DEF K
    <3> QED  BY <2>1, <2>2
  <2>4. \A i \in 1..Len(a) : a[i].at \in K
    OBVIOUS
  <2> HIDE DEF K
  <2> QED  BY <2>1, <2>3, <2>4
<1>10. /\ Compiled("endcase", Rec(C, x)) = Rec(D, B)
       /\ Grown(C, "endcase", K, 0, D)
  BY <1>5, <1>6, <1>9, CompiledEndCase
<1> HIDE DEF D, K, x
<1>11. Good(z, y, D, full) /\ StackOf(z, full) = B
  <2>1. Grown(C, "endcase", {Off(s, st, k) : k \in Resolves(s, "endcase")}, 0, D)
    BY <1>7, <1>10
  <2>2. OffPos("endcase") > 0 => 0 = Place(st, C, Taken(z, n + 1)) - (Len(C) + OffPos("endcase"))
    BY DEF OffPos
  <2> QED  BY <2>1, <2>2, <1>1, <1>2, ClosesGrow
<1> QED  BY <1>8, <1>10, <1>11 DEF Grew

(* One more mark of an endof. *)
LEMMA MarkedMore ==
  ASSUME NEW a, NEW K, Marked(a, K), NEW v \in Int, v \notin K
  PROVE  Marked(Append(a, Address(v)), K \cup {v}) /\ Append(a, Address(v)) \in Seq(Mark)
<1>1. /\ a \in Seq(Mark) /\ \A i \in 1..Len(a) : a[i] = Address(a[i].at)
      /\ \A i, j \in 1..Len(a) : i # j => a[i].at # a[j].at
      /\ {a[i].at : i \in 1..Len(a)} = K
  BY Zenon DEF Marked
<1>2. Address(v) \in Mark /\ Address(v).at = v
  BY MarkTypes
<1> DEFINE A == Address(v) b == Append(a, A)
<1>3. A \in Mark /\ A.at = v /\ A = Address(A.at)
  BY <1>2
<1> HIDE DEF A
<1>4. b \in Seq(Mark) /\ Len(b) = Len(a) + 1 /\ b[Len(a) + 1] = A /\ Len(a) \in Nat
      /\ \A i \in 1..Len(a) : b[i] = a[i]
  BY <1>1, <1>3
<1> HIDE DEF b
<1>5. \A i \in 1..Len(b) : i \in 1..Len(a) \/ i = Len(a) + 1
  BY <1>4
<1>k. \A i \in 1..Len(a) : a[i].at \in K
  BY <1>1
<1>6. \A i \in 1..Len(b) : b[i] = Address(b[i].at)
  BY <1>1, <1>3, <1>4, <1>5
<1>7. \A i, j \in 1..Len(b) : i # j => b[i].at # b[j].at
  <2> SUFFICES ASSUME NEW i \in 1..Len(b), NEW j \in 1..Len(b), i # j PROVE b[i].at # b[j].at
    OBVIOUS
  <2>1. CASE i \in 1..Len(a) /\ j \in 1..Len(a)
    BY <2>1, <1>1, <1>4
  <2>2. CASE i \in 1..Len(a) /\ j = Len(a) + 1
    <3>1. b[i].at \in K /\ b[j].at = v
      BY <2>2, <1>3, <1>4, <1>k
    <3> QED  BY <3>1
  <2>3. CASE j \in 1..Len(a) /\ i = Len(a) + 1
    <3>1. b[j].at \in K /\ b[i].at = v
      BY <2>3, <1>3, <1>4, <1>k
    <3> QED  BY <3>1
  <2> QED  BY <1>5, <2>1, <2>2, <2>3
<1>8. {b[i].at : i \in 1..Len(b)} = K \cup {v}
  <2>1. ASSUME NEW i \in 1..Len(b) PROVE b[i].at \in K \cup {v}
    <3>1. CASE i \in 1..Len(a)
      BY <3>1, <1>4, <1>k
    <3>2. CASE i = Len(a) + 1
      BY <3>2, <1>3, <1>4
    <3> QED  BY <1>5, <3>1, <3>2
  <2>2. ASSUME NEW x \in K \cup {v} PROVE \E i \in 1..Len(b) : x = b[i].at
    <3>1. CASE x \in K
      <4>1. PICK i \in 1..Len(a) : x = a[i].at
        BY <3>1, <1>1
      <4>2. i \in 1..Len(b) /\ b[i] = a[i]
        BY <4>1, <1>4
      <4> QED  BY <4>1, <4>2
    <3>2. CASE x = v
      <4>1. Len(a) + 1 \in 1..Len(b) /\ b[Len(a) + 1].at = v
        BY <1>3, <1>4
      <4> QED  BY <4>1, <3>2
    <3> QED  BY <3>1, <3>2
  <2> QED  BY <2>1, <2>2
<1> QED  BY <1>4, <1>6, <1>7, <1>8, Zenon DEF Marked, b, A

(* A mark put on top of a row. *)
LEMMA AppendedRow ==
  ASSUME NEW u \in Seq(Mark), NEW a \in Seq(Mark), NEW x \in Mark
  PROVE  Cat(u, Append(a, x)) = Cat(Cat(u, a), <<x>>)
<1> DEFINE r == Append(a, x) q == <<x>>
<1>1. /\ r \in Seq(Mark) /\ q \in Seq(Mark) /\ Len(r) = Len(a) + Len(q)
      /\ \A i \in 1..Len(a) : r[i] = a[i]
      /\ \A i \in 1..Len(q) : r[Len(a) + i] = q[i]
  OBVIOUS
<1> HIDE DEF r, q
<1>3. Joined(Mark, a, q, r)
  BY <1>1 DEF Joined
<1>2. Cat(Cat(u, a), q) = Cat(u, r)
  BY <1>3, CatJoins
<1> QED  BY <1>2 DEF r, q

(* Equal stacks have equal rests. *)
LEMMA SameRow ==
  ASSUME NEW u \in Seq(Mark), NEW v \in Seq(Mark), NEW x \in Mark, Cat(u, <<x>>) = Cat(v, <<x>>)
  PROVE  u = v
<1>1. Pop(Rec(<<>>, Cat(u, <<x>>))) = Rec(<<>>, u)
  BY DoPop
<1>2. Pop(Rec(<<>>, Cat(v, <<x>>))) = Rec(<<>>, v)
  BY DoPop
<1>3. Rec(<<>>, u).stack = u /\ Rec(<<>>, v).stack = v
  BY DEF Rec
<1> QED  BY <1>1, <1>2, <1>3

(* The case around an open of. *)
LEMMA CaseAround ==
  ASSUME NEW s, NEW st, NEW C, NEW full, Good(s, st, C, full), Opn(s, Len(s)) # {},
         NEW t, t = Top(s, Len(s)), s[t] = "of"
  PROVE  LET c == Top(s, t - 1)
         IN  /\ Opn(s, t - 1) # {} /\ c \in Opn(s, Len(s)) /\ c \in 1..Len(s) /\ s[c] = "case"
             /\ BaseOf(full, Opn(s, t - 1)) = full[c]
<1>1. Balanced(s) /\ Legal(s) /\ Len(s) \in Nat
  BY GoodTypes
<1>2. t \in 1..Len(s) /\ Opn(s, Len(s)) \ {t} = Opn(s, t - 1)
  BY <1>1, TopIsDeepest
<1>3. LegalAt(s, t)
  BY <1>1, <1>2 DEF Legal
<1>4. Opn(s, t - 1) # {} /\ s[Top(s, t - 1)] = "case"
  <2>1. s[t] \in Checked
    BY DEF Checked
  <2>2. Opn(s, t - 1) # {} /\ s[Top(s, t - 1)] \in OpenerOf("of")
    BY <2>1, <1>3 DEF LegalAt
  <2> QED  BY <2>2 DEF OpenerOf
<1>5. t - 1 \in Nat /\ t - 1 <= Len(s)
  BY <1>2
<1>6. Top(s, t - 1) \in Opn(s, t - 1)
  BY <1>1, <1>4, <1>5, TopIsDeepest
<1>7. Top(s, t - 1) \in Opn(s, Len(s)) /\ Top(s, t - 1) \in 1..Len(s)
  <2>1. Top(s, t - 1) \in Opn(s, Len(s))
    BY <1>2, <1>6
  <2> QED  BY <2>1 DEF Opn
<1>8. BaseOf(full, Opn(s, t - 1)) = full[Top(s, t - 1)]
  BY <1>4 DEF BaseOf, Top
<1> QED  BY <1>4, <1>7, <1>8

(* endof keeps it. *)
LEMMA EndOfGrows ==
  ASSUME NEW s, NEW st, NEW C, NEW full, Good(s, st, C, full), "endof" \in Last(StackOf(s, full)).follow
  PROVE  Grew(s, st, C, "endof", Compiled("endof", Pop(Rec(C, StackOf(s, full)))))
<1> DEFINE z == Append(s, "endof") y == Append(st, Len(C) + 1) n == Len(s) t == Top(s, n)
           B == BaseOf(full, Opn(s, t - 1)) c == Top(s, t - 1) p == Off(s, st, t)
           Bc == BaseOf(full, Opn(s, c - 1)) D == AtMark(Cat(C, RowOf("endof", 0)), p)
           A == Address(Len(C) + 2) F == Follow({"of", "endcase"})
<1>1. "endof" \in Checked /\ "endof" \in Continuing /\ "endof" \in Words /\ "endof" \in Closing
  BY DEF Checked, Closing, Continuing, Words
<1>2. Opn(s, n) # {} /\ LegalAt(z, n + 1) /\ s[t] \in OpenerOf("endof")
  BY <1>1, CheckedKind
<1>3. s[t] = "of" /\ s[t] \in Forward /\ OffPos(s[t]) > 0 /\ s[t] \notin {"if", "begin", "case"}
  BY <1>2 DEF OpenerOf, Forward, OffPos
<1>4. StackOf(s, full) = full[t] /\ t \in 1..n /\ MarksOf(s, st, B, t, full[t])
  BY <1>2, StackInside
<1>5. /\ s \in Seq(Words) /\ C \in Seq(Cell) /\ Len(C) \in Nat /\ Balanced(s) /\ Legal(s) /\ n \in Nat
      /\ st \in Seq(Nat) /\ Len(st) = Len(s)
  BY GoodTypes
<1>6. /\ c \in Opn(s, n) /\ c \in 1..n /\ s[c] = "case" /\ B = full[c]
  BY <1>2, <1>3, CaseAround
<1>7. p \in 1..Len(C) /\ p \in Int /\ Address(p) \in Mark
  BY <1>3, <1>4, OffsOf
<1>8. Resolves(s, "endof") = {t}
  <2>1. Parts(s, t) = {}
    BY <1>3, <1>4, <1>5, PartsAre
  <2>2. s[t] \in Forward /\ Parts(s, t) = {} => Resolves(s, "endof") = {t}
    BY <1>1, <1>2, ResolvesClosing
  <2> QED  BY <2>1, <2>2, <1>3
<1>9. Grown(C, "endof", {Off(s, st, j) : j \in Resolves(s, "endof")}, 0, D)
  <2>1. {Off(s, st, j) : j \in Resolves(s, "endof")} = {p}
    BY <1>8
  <2>2. Grown(C, "endof", {p}, 0, AtMark(Cat(C, RowOf("endof", 0)), p))
    BY <1>1, <1>5, <1>7, GrownOne
  <2> QED  BY <2>1, <2>2
<1>10. Top(z, n + 1) = c
  <2>1. Opn(z, n + 1) = Opn(s, t - 1)
    BY <1>1, <1>2, <1>5, OpenAppend
  <2> QED  BY <2>1 DEF Top
<1>11. PICK a : CaseRow(s, st, full, c, a)
  BY <1>6, CaseStack
<1> DEFINE x == Cat(Cat(Bc, <<Address(0)>>), a) m == Cat(x, <<A, F>>)
<1>12. /\ Bc \in Seq(Mark) /\ Marked(a, {Off(s, st, e) : e \in Parts(s, c)}) /\ a \in Seq(Mark)
       /\ x \in Seq(Mark) /\ B = Cat(x, <<F>>)
  BY <1>6, <1>11, Zenon DEF CaseRow
<1>13. A \in Mark /\ F \in Mark /\ A = Address(Len(C) + 2)
  BY <1>5, MarkTypes, MayFollow
<1> HIDE DEF z, y, n, t, B, c, p, Bc, D
<1>14. full[t] = Cat(x, <<Address(p), Follow({"endof"})>>)
  <2> HIDE DEF x, F
  <2>1. OfMarks(s, st, B, t, full[t])
    BY <1>3, <1>4 DEF MarksOf
  <2>2. PICK v \in Seq(Mark) : /\ B = Cat(v, <<F>>)
                               /\ full[t] = Cat(v, <<Address(p), Follow({"endof"})>>)
    BY <2>1, Zenon DEF OfMarks, p, F
  <2>3. Cat(v, <<F>>) = Cat(x, <<F>>)
    BY <2>2, <1>12
  <2>4. v = x
    BY <2>3, <1>12, <1>13, SameRow
  <2> QED  BY <2>2, <2>4
<1>15. Compiled("endof", Pop(Rec(C, StackOf(s, full)))) = Rec(D, m)
  <2> HIDE DEF x
  <2>1. Pop(Rec(C, Cat(x, <<Address(p), Follow({"endof"})>>))) = Rec(C, Cat(x, <<Address(p)>>))
    BY <1>7, <1>12, MayFollow, PopTwo
  <2>2. Compiled("endof", Rec(C, Cat(x, <<Address(p)>>))) = Rec(D, m)
    BY <1>5, <1>7, <1>12, CompiledElse DEF D
  <2> QED  BY <2>1, <2>2, <1>4, <1>14
<1>16. m \in Seq(Mark)
  <2> HIDE DEF x, A, F
  <2> QED  BY <1>12, <1>13, Row2
<1>17. CaseMarks(z, y, Bc, c, m)
  <2> DEFINE K == {Off(s, st, e) : e \in Parts(s, c)} v == Len(C) + 2
  <2>1. \A e \in Parts(s, c) : e \in 1..n /\ OffPos(s[e]) > 0
    BY <1>5, <1>6, PartsAre DEF n
  <2>2. \A e \in Parts(s, c) : Off(s, st, e) \in 1..Len(C)
    BY <2>1, OffsOf DEF n
  <2>3. v \in Int /\ v \notin K
    BY <2>2, <1>5
  <2>4. /\ Marked(Append(a, Address(v)), K \cup {v}) /\ Append(a, Address(v)) \in Seq(Mark)
    <3>1. Marked(a, K)
      BY <1>12
    <3> HIDE DEF K, v
    <3> QED  BY <3>1, <2>3, MarkedMore
  <2>5. {Off(z, y, e) : e \in Parts(z, c)} = K \cup {v}
    <3>1. Legal(z)
      BY <1>1, <1>2, <1>5, LegalAppend DEF z, n
    <3>2. Parts(z, c) = Parts(s, c) \cup {n + 1}
      BY <1>1, <1>5, <1>10, <3>1, PartsContinued DEF z, n
    <3>3. Off(z, y, n + 1) = Len(C) + OffPos("endof")
      BY <1>1, NewWord DEF z, y, n
    <3>4. OffPos("endof") = 2
      BY DEF OffPos
    <3>5. \A e \in Parts(s, c) : Off(z, y, e) = Off(s, st, e)
      <4>1. Len(C) + 1 \in Nat
        BY <1>5
      <4> QED  BY <2>1, <4>1, <1>1, <1>5, OffAppend DEF z, y, n
    <3> HIDE DEF K
    <3>6. {Off(z, y, e) : e \in Parts(z, c)} = {Off(s, st, e) : e \in Parts(s, c)} \cup {Off(z, y, n + 1)}
      BY <3>2, <3>5
    <3> QED  BY <3>3, <3>4, <3>6 DEF K
  <2>6. m = Cat(Cat(Cat(Bc, <<Address(0)>>), Append(a, A)), <<F>>)
    <3> DEFINE u == Cat(Bc, <<Address(0)>>)
    <3>1. u \in Seq(Mark)
      BY <1>12, MarkTypes, Row1
    <3> HIDE DEF u, A, F
    <3>2. Cat(u, Append(a, A)) = Cat(Cat(u, a), <<A>>)
      BY <3>1, <1>12, <1>13, AppendedRow
    <3>3. Cat(u, a) = x
      BY DEF u
    <3> HIDE DEF x
    <3>4. Cat(Cat(x, <<A>>), <<F>>) = Cat(x, <<A, F>>)
      BY <1>12, <1>13, Row2
    <3> QED  BY <3>2, <3>3, <3>4 DEF u
  <2>7. Append(a, A) = Append(a, Address(v))
    OBVIOUS
  <2> HIDE DEF K, v, x, m
  <2> QED  BY <2>4, <2>5, <2>6, <2>7, Zenon DEF CaseMarks
<1> HIDE DEF m
<1>18. MarksOf(z, y, Bc, c, m)
  <2>1. z[c] = s[c]
    BY <1>1, <1>6, NewWord DEF z, n
  <2> QED  BY <2>1, <1>6, <1>17 DEF MarksOf
<1>19. \E f : Good(z, y, D, f) /\ StackOf(z, f) = m
  <2>1. MarksOf(z, y, BaseOf(full, Opn(s, c - 1)), c, m)
    BY <1>18 DEF Bc
  <2> QED  BY <2>1, <1>1, <1>2, <1>9, <1>10, <1>16, ContinuesGrow DEF z, y, n
<1> QED  BY <1>15, <1>19 DEF Grew, z, y

(* Every word keeps the invariant of the compiler. *)
LEMMA OpenerGrows ==
  ASSUME NEW s, NEW st, NEW C, NEW full, Good(s, st, C, full), NEW w \in Openers
  PROVE  Grew(s, st, C, w, Compiled(w, Rec(C, StackOf(s, full))))
<1>1. w \in {"do", "?do"} \/ w = "if" \/ w = "case" \/ w = "begin"
  BY DEF Openers
<1>2. CASE w \in {"do", "?do"}
  BY <1>2, DoGrows
<1>3. CASE w = "if"
  BY <1>3, IfGrows
<1>4. CASE w = "case"
  BY <1>4, CaseGrows
<1>5. CASE w = "begin"
  BY <1>5, BeginGrows
<1> QED  BY <1>1, <1>2, <1>3, <1>4, <1>5

(* A word that docheck lets pass keeps it. *)
LEMMA CheckedGrows ==
  ASSUME NEW s, NEW st, NEW C, NEW full, Good(s, st, C, full), NEW w \in Checked,
         w \in Last(StackOf(s, full)).follow
  PROVE  Grew(s, st, C, w, Compiled(w, Pop(Rec(C, StackOf(s, full)))))
<1>1. \/ w \in {"loop", "+loop"} \/ w = "else" \/ w = "then" \/ w = "of" \/ w = "endof"
      \/ w = "endcase" \/ w \in {"until", "again"} \/ w = "while" \/ w = "repeat"
  BY DEF Checked
<1>2. CASE w \in {"loop", "+loop"}
  BY <1>2, LoopGrows
<1>3. CASE w = "else"
  BY <1>3, ElseGrows
<1>4. CASE w = "then"
  BY <1>4, ThenGrows
<1>5. CASE w = "of"
  BY <1>5, OfGrows
<1>6. CASE w = "endof"
  BY <1>6, EndOfGrows
<1>7. CASE w = "endcase"
  BY <1>7, EndCaseGrows
<1>8. CASE w \in {"until", "again"}
  BY <1>8, UntilGrows
<1>9. CASE w = "while"
  BY <1>9, WhileGrows
<1>10. CASE w = "repeat"
  BY <1>10, RepeatGrows
<1> QED  BY <1>1, <1>2, <1>3, <1>4, <1>5, <1>6, <1>7, <1>8, <1>9, <1>10

----------------------------------------------------------------------------
(* What is around the words to which a word leads. *)

(* The loops and the cases around a word, by the open structures. *)
LoopsOf(s, O) == {j \in O : s[j] \in {"do", "?do"}}
NetOf(s, O) == Cardinality({j \in O : s[j] = "case"}) - Cardinality({j \in O : s[j] = "of"})

(* One more element counts one more. *)
LEMMA OneMore ==
  ASSUME NEW O, IsFiniteSet(O), NEW t, t \notin O
  PROVE  IsFiniteSet(O \cup {t}) /\ Cardinality(O \cup {t}) = Cardinality(O) + 1
         /\ Cardinality(O) \in Nat
  BY FS_AddElement, FS_CardinalityType

(* What one more open structure adds to the loops and the cases around. *)
LEMMA Around ==
  ASSUME NEW s, NEW O, IsFiniteSet(O), NEW t, t \notin O
  PROVE  /\ NetOf(s, O) \in Int /\ IsFiniteSet(LoopsOf(s, O)) /\ Cardinality(LoopsOf(s, O)) \in Nat
         /\ s[t] \notin {"do", "?do"} => LoopsOf(s, O \cup {t}) = LoopsOf(s, O)
         /\ s[t] \in {"do", "?do"} =>
              /\ LoopsOf(s, O \cup {t}) = LoopsOf(s, O) \cup {t} /\ t \notin LoopsOf(s, O)
              /\ Cardinality(LoopsOf(s, O \cup {t})) = Cardinality(LoopsOf(s, O)) + 1
         /\ NetOf(s, O \cup {t}) = NetOf(s, O) + (IF s[t] = "case" THEN 1 ELSE IF s[t] = "of" THEN -1 ELSE 0)
<1> DEFINE c(P) == {j \in P : s[j] = "case"} o(P) == {j \in P : s[j] = "of"}
           L == LoopsOf(s, O) Q == O \cup {t}
<1>1. /\ IsFiniteSet(c(O)) /\ IsFiniteSet(o(O)) /\ IsFiniteSet(L)
      /\ Cardinality(c(O)) \in Nat /\ Cardinality(o(O)) \in Nat /\ Cardinality(L) \in Nat
  <2>1. c(O) \subseteq O /\ o(O) \subseteq O /\ L \subseteq O
    BY DEF LoopsOf
  <2>2. IsFiniteSet(c(O)) /\ IsFiniteSet(o(O)) /\ IsFiniteSet(L)
    BY <2>1, FS_Subset
  <2> QED  BY <2>2, FS_CardinalityType
<1>2. /\ s[t] \notin {"do", "?do"} => LoopsOf(s, Q) = L
      /\ s[t] \in {"do", "?do"} => LoopsOf(s, Q) = L \cup {t}
      /\ s[t] = "case" => c(Q) = c(O) \cup {t} /\ o(Q) = o(O)
      /\ s[t] = "of" => c(Q) = c(O) /\ o(Q) = o(O) \cup {t}
      /\ s[t] # "case" /\ s[t] # "of" => c(Q) = c(O) /\ o(Q) = o(O)
      /\ t \notin L /\ t \notin c(O) /\ t \notin o(O)
  BY DEF LoopsOf
<1>3. NetOf(s, O) = Cardinality(c(O)) - Cardinality(o(O)) /\ NetOf(s, Q) = Cardinality(c(Q)) - Cardinality(o(Q))
  BY DEF NetOf
<1> HIDE DEF c, o, L, Q
<1>4. s[t] \in {"do", "?do"} => Cardinality(LoopsOf(s, Q)) = Cardinality(L) + 1
  BY <1>1, <1>2, OneMore
<1>5. NetOf(s, Q) = NetOf(s, O) + (IF s[t] = "case" THEN 1 ELSE IF s[t] = "of" THEN -1 ELSE 0)
  <2>1. CASE s[t] = "case"
    <3>1. Cardinality(c(O) \cup {t}) = Cardinality(c(O)) + 1
      BY <1>1, <1>2, OneMore
    <3>2. NetOf(s, Q) = (Cardinality(c(O)) + 1) - Cardinality(o(O))
      BY <2>1, <3>1, <1>2, <1>3
    <3>3. NetOf(s, Q) = NetOf(s, O) + 1
      BY <3>2, <1>1, <1>3
    <3> QED  BY <2>1, <3>3
  <2>2. CASE s[t] = "of"
    <3>1. Cardinality(o(O) \cup {t}) = Cardinality(o(O)) + 1
      BY <1>1, <1>2, OneMore
    <3>2. NetOf(s, Q) = Cardinality(c(O)) - (Cardinality(o(O)) + 1)
      BY <2>2, <3>1, <1>2, <1>3
    <3>3. NetOf(s, Q) = NetOf(s, O) + (-1)
      BY <3>2, <1>1, <1>3
    <3>4. s[t] # "case"
      BY <2>2
    <3> QED  BY <2>2, <3>3, <3>4
  <2>3. CASE s[t] # "case" /\ s[t] # "of"
    BY <2>3, <1>1, <1>2, <1>3
  <2> QED  BY <2>1, <2>2, <2>3
<1>6. NetOf(s, O) \in Int
  BY <1>1, <1>3
<1> QED  BY <1>1, <1>2, <1>4, <1>5, <1>6 DEF L, Q

(* Finitely many structures are open, all begun before. *)
LEMMA OpenFinite ==
  ASSUME NEW s, NEW k \in Nat
  PROVE  IsFiniteSet(Opn(s, k)) /\ Opn(s, k) \subseteq 1..k
<1>1. Opn(s, k) \subseteq 1..k
  BY DEF Opn
<1>2. IsFiniteSet(1..k)
  BY FS_Interval
<1> QED  BY <1>1, <1>2, FS_Subset

(* A definition that ; has ended. *)
Complete(s) == Legal(s) /\ Len(s) > 0 /\ s[Len(s)] = "semicolon"

(* At the end of a definition nothing is open. *)
LEMMA NothingOpen ==
  ASSUME NEW s, Complete(s)
  PROVE  Opn(s, Len(s)) = {} /\ Balanced(s) /\ s \in Seq(Words) /\ Len(s) \in Nat
<1>1. Balanced(s) /\ s \in Seq(Words) /\ Len(s) \in Nat /\ Len(s) \in 1..Len(s)
  BY DEF Complete, Legal, Balanced
<1>2. Opn(s, Len(s) - 1) = {}
  BY <1>1 DEF Complete, Legal, LegalAt
<1>3. "semicolon" \notin Opening \cup Closing
  BY DEF Opening, Openers, Closing, Checked
<1>4. Opn(s, Len(s)) = Opn(s, Len(s) - 1)
  BY <1>1, <1>3, OpenStep DEF Complete
<1> QED  BY <1>1, <1>2, <1>4

(* Every branch ahead ends inside the definition. *)
LEMMA EndInside ==
  ASSUME NEW s, Complete(s), NEW k \in 1..Len(s), s[k] \in Opening \cup Continuing
  PROVE  /\ ~Live(s, k, Len(s))
         /\ EndOf(s, k) \in k + 1..Len(s) - 1
         /\ Opn(s, k) # {}
         /\ Opn(s, EndOf(s, k)) = Opn(s, Top(s, k) - 1)
<1>1. /\ Opn(s, Len(s)) = {} /\ Balanced(s) /\ s \in Seq(Words) /\ Len(s) \in Nat /\ Legal(s)
      /\ s[Len(s)] = "semicolon"
  BY NothingOpen DEF Complete
<1>2. ~Live(s, k, Len(s))
  <2>1. CASE s[k] \in Opening
    BY <2>1, <1>1 DEF Opn
  <2>2. CASE s[k] \in Continuing
    <3> SUFFICES ASSUME Live(s, k, Len(s)) PROVE FALSE
      OBVIOUS
    <3> DEFINE t == Top(s, k)
    <3>1. t \in Opn(s, k) /\ t \in 1..k - 1 /\ Lev(s, t) = Lev(s, k) /\ Live(s, t, k)
      BY <2>2, <1>1, OwnerOf
    <3> HIDE DEF t
    <3>2. t \in 1..Len(s) /\ s[t] \in Opening
      BY <3>1, <1>1 DEF Opn
    <3>3. \A i \in t..Len(s) : Lev(s, i) >= Lev(s, t)
      <4> SUFFICES ASSUME NEW i \in t..Len(s) PROVE Lev(s, i) >= Lev(s, t)
        OBVIOUS
      <4>1. i \in t..k \/ i \in k..Len(s)
        BY <3>2
      <4>2. CASE i \in t..k
        BY <4>2, <3>1 DEF Live
      <4>3. CASE i \in k..Len(s)
        BY <4>3, <3>1 DEF Live
      <4> QED  BY <4>1, <4>2, <4>3
    <3>4. t \in Opn(s, Len(s))
      BY <3>2, <3>3 DEF Opn, Live
    <3> QED  BY <3>4, <1>1
  <2> QED  BY <2>1, <2>2
<1> DEFINE m == EndOf(s, k)
<1>3. m \in k + 1..Len(s) /\ Live(s, k, m - 1) /\ ~Live(s, k, m)
  <2>1. Len(s) \in k..Len(s)
    BY <1>1
  <2> QED  BY <2>1, <1>1, <1>2, EndExists
<1> HIDE DEF m
<1>4. s[m] \in Closing
  BY <1>1, <1>3, EndIs
<1>5. m # Len(s)
  BY <1>1, <1>4 DEF Closing, Checked
<1>6. m \in k + 1..Len(s) - 1
  BY <1>1, <1>3, <1>5
<1>7. Opn(s, k) # {} /\ Opn(s, m) = Opn(s, Top(s, k) - 1)
  BY <1>1, <1>3, EndCloses
<1> QED  BY <1>2, <1>6, <1>7 DEF m

(* In a definition that ; has ended, every branch ahead is resolved. *)
LEMMA AllSettled ==
  ASSUME NEW s, Complete(s), NEW k \in 1..Len(s)
  PROVE  Settled(s, k)
<1>1. s[k] \in Forward => s[k] \in Opening \cup Continuing
  BY DEF Forward, Opening, Openers, Continuing
<1> QED  BY <1>1, EndInside DEF Settled

(* Where the words of each kind lead, and what is open there. *)
LEMMA OpeningLeads ==
  ASSUME NEW s, Complete(s), NEW k \in 1..Len(s), s[k] \in Opening
  PROVE  /\ Top(s, k) = k /\ k \notin Opn(s, k - 1) /\ Opn(s, k) = Opn(s, k - 1) \cup {k}
         /\ EndOf(s, k) \in k + 1..Len(s) - 1 /\ Opn(s, EndOf(s, k)) = Opn(s, k - 1)
<1>1. k - 1 \in Nat /\ k \in Nat /\ k > 0 /\ (k - 1) + 1 = k
  OBVIOUS
<1>2. Opn(s, k) = Opn(s, k - 1) \cup {k}
  BY <1>1, OpenStep
<1>3. Opn(s, k - 1) \in SUBSET (1..k - 1) /\ k \notin Opn(s, k - 1)
  BY DEF Opn
<1>4. Max(Opn(s, k - 1) \cup {(k - 1) + 1}) = (k - 1) + 1
  BY <1>1, <1>3, NewTop
<1>5. Top(s, k) = k
  BY <1>1, <1>2, <1>4 DEF Top
<1>6. EndOf(s, k) \in k + 1..Len(s) - 1 /\ Opn(s, EndOf(s, k)) = Opn(s, Top(s, k) - 1)
  BY EndInside
<1> QED  BY <1>2, <1>3, <1>5, <1>6

(* What is open around else, while and endof, and behind the end of their *)
(* structure.                                                             *)
LEMMA ContinuingLeads ==
  ASSUME NEW s, Complete(s), NEW k \in 1..Len(s), s[k] \in Continuing
  PROVE  LET t == Top(s, k)
         IN  /\ t \in 1..k - 1 /\ s[k] = Part(s[t]) /\ t \notin Opn(s, t - 1)
             /\ Opn(s, k) = Opn(s, t - 1) \cup {t}
             /\ EndOf(s, k) \in k + 1..Len(s) - 1 /\ Opn(s, EndOf(s, k)) = Opn(s, t - 1)
             /\ s[k] # "endof" => Opn(s, k - 1) = Opn(s, k)
             /\ s[k] = "endof" => LET o == Top(s, k - 1)
                                  IN  /\ o \notin Opn(s, k) /\ s[o] = "of"
                                      /\ Opn(s, k - 1) = Opn(s, k) \cup {o}
<1> DEFINE t == Top(s, k) o == Top(s, k - 1)
<1>1. Legal(s) /\ Balanced(s) /\ Len(s) \in Nat /\ k \in Nat /\ k > 0 /\ k <= Len(s)
  BY NothingOpen DEF Complete
<1>2. t \in 1..k - 1 /\ s[k] = Part(s[t]) /\ Opn(s, k) = Opn(s, t - 1) \cup {t}
  BY <1>1, OwnerOf
<1>3. t \notin Opn(s, t - 1)
  <2> HIDE DEF t
  <2> QED  BY <1>2 DEF Opn
<1>4. EndOf(s, k) \in k + 1..Len(s) - 1 /\ Opn(s, EndOf(s, k)) = Opn(s, t - 1)
  BY EndInside
<1>5. s[k] # "endof" => Opn(s, k - 1) = Opn(s, k)
  <2>1. s[k] # "endof" => s[k] \notin Opening \cup Closing
    BY DEF Continuing, Opening, Openers, Closing, Checked
  <2> QED  BY <2>1, <1>1, OpenStep
<1>6. ASSUME s[k] = "endof"
      PROVE  o \notin Opn(s, k) /\ s[o] = "of" /\ Opn(s, k - 1) = Opn(s, k) \cup {o}
  <2>1. s[k] \in Closing /\ s[k] \in Checked
    BY <1>6 DEF Closing, Checked
  <2>2. Opn(s, k - 1) # {} /\ Opn(s, k) = Opn(s, k - 1) \ {o}
    BY <2>1, <1>1, OpenClosed
  <2>3. k - 1 \in Nat /\ k - 1 <= Len(s)
    BY <1>1
  <2>4. o \in Opn(s, k - 1)
    BY <2>2, <2>3, <1>1, TopIsDeepest
  <2>5. LegalAt(s, k)
    BY <1>1 DEF Legal
  <2>6. s[o] \in OpenerOf("endof")
    BY <2>1, <2>5, <1>6 DEF LegalAt
  <2>7. s[o] = "of"
    BY <2>6 DEF OpenerOf
  <2> HIDE DEF o
  <2> QED  BY <2>2, <2>4, <2>7
<1> QED  BY <1>2, <1>3, <1>4, <1>5, <1>6

(* What is open around the end of a structure, and where it began. *)
LEMMA ClosingLeads ==
  ASSUME NEW s, Complete(s), NEW k \in 1..Len(s), s[k] \in Closing
  PROVE  LET t == Top(s, k - 1)
         IN  /\ t \in 1..k - 1 /\ s[t] \in OpenerOf(s[k]) /\ t \notin Opn(s, k)
             /\ Opn(s, k - 1) = Opn(s, k) \cup {t} /\ Opn(s, t) = Opn(s, k - 1)
             /\ BeginOf(s, k) = t
<1> DEFINE t == Top(s, k - 1)
<1>1. Legal(s) /\ Balanced(s) /\ Len(s) \in Nat /\ k \in Nat /\ k > 0 /\ k <= Len(s)
      /\ k - 1 \in Nat /\ k - 1 <= Len(s)
  BY NothingOpen DEF Complete
<1>2. Opn(s, k - 1) # {} /\ Opn(s, k) = Opn(s, k - 1) \ {t}
  BY <1>1, OpenClosed
<1>3. t \in Opn(s, k - 1) /\ t \in 1..k - 1 /\ Opn(s, k - 1) = Opn(s, t)
  BY <1>1, <1>2, TopIsDeepest
<1>4. s[k] \in Checked
  BY DEF Closing
<1>5. s[t] \in OpenerOf(s[k])
  BY <1>1, <1>4 DEF Legal, LegalAt
<1>6. BeginOf(s, k) = t
  BY <1>1, BeginIs
<1> HIDE DEF t
<1> QED  BY <1>2, <1>3, <1>5, <1>6 DEF t

Alike(s, P, Q) == LoopsOf(s, P) = LoopsOf(s, Q) /\ NetOf(s, P) = NetOf(s, Q)

(* if and begin are neither loop nor case. *)
LEMMA AlikeWith ==
  ASSUME NEW s, NEW O, IsFiniteSet(O), NEW t, t \notin O, s[t] \in {"if", "begin"}
  PROVE  Alike(s, O \cup {t}, O)
<1>1. /\ NetOf(s, O) \in Int /\ IsFiniteSet(LoopsOf(s, O)) /\ Cardinality(LoopsOf(s, O)) \in Nat
      /\ s[t] \notin {"do", "?do"} => LoopsOf(s, O \cup {t}) = LoopsOf(s, O)
      /\ NetOf(s, O \cup {t}) = NetOf(s, O) + (IF s[t] = "case" THEN 1 ELSE IF s[t] = "of" THEN -1 ELSE 0)
  BY Around
<1>2. s[t] \notin {"do", "?do"} /\ s[t] # "case" /\ s[t] # "of"
  OBVIOUS
<1> QED  BY <1>1, <1>2 DEF Alike

(* A case open holds one value. *)
LEMMA CaseWith ==
  ASSUME NEW s, NEW O, IsFiniteSet(O), NEW t, t \notin O, s[t] = "case"
  PROVE  LoopsOf(s, O \cup {t}) = LoopsOf(s, O) /\ NetOf(s, O \cup {t}) = NetOf(s, O) + 1
         /\ NetOf(s, O) \in Int
<1>1. /\ NetOf(s, O) \in Int /\ IsFiniteSet(LoopsOf(s, O)) /\ Cardinality(LoopsOf(s, O)) \in Nat
      /\ s[t] \notin {"do", "?do"} => LoopsOf(s, O \cup {t}) = LoopsOf(s, O)
      /\ NetOf(s, O \cup {t}) = NetOf(s, O) + (IF s[t] = "case" THEN 1 ELSE IF s[t] = "of" THEN -1 ELSE 0)
  BY Around
<1>2. s[t] \notin {"do", "?do"}
  OBVIOUS
<1> QED  BY <1>1, <1>2

(* An of has dropped the value of its case. *)
LEMMA OfWith ==
  ASSUME NEW s, NEW O, IsFiniteSet(O), NEW t, t \notin O, s[t] = "of"
  PROVE  LoopsOf(s, O \cup {t}) = LoopsOf(s, O) /\ NetOf(s, O \cup {t}) = NetOf(s, O) - 1
         /\ NetOf(s, O) \in Int
<1>1. /\ NetOf(s, O) \in Int /\ IsFiniteSet(LoopsOf(s, O)) /\ Cardinality(LoopsOf(s, O)) \in Nat
      /\ s[t] \notin {"do", "?do"} => LoopsOf(s, O \cup {t}) = LoopsOf(s, O)
      /\ NetOf(s, O \cup {t}) = NetOf(s, O) + (IF s[t] = "case" THEN 1 ELSE IF s[t] = "of" THEN -1 ELSE 0)
  BY Around
<1>2. s[t] \notin {"do", "?do"} /\ s[t] # "case"
  OBVIOUS
<1> QED  BY <1>1, <1>2

(* One more loop. *)
LEMMA DoWith ==
  ASSUME NEW s, NEW O, IsFiniteSet(O), NEW t, t \notin O, s[t] \in {"do", "?do"}
  PROVE  /\ LoopsOf(s, O \cup {t}) = LoopsOf(s, O) \cup {t} /\ t \notin LoopsOf(s, O)
         /\ Cardinality(LoopsOf(s, O \cup {t})) = Cardinality(LoopsOf(s, O)) + 1
         /\ Cardinality(LoopsOf(s, O)) \in Nat /\ NetOf(s, O \cup {t}) = NetOf(s, O)
<1>1. /\ NetOf(s, O) \in Int /\ IsFiniteSet(LoopsOf(s, O)) /\ Cardinality(LoopsOf(s, O)) \in Nat
      /\ s[t] \in {"do", "?do"} =>
           /\ LoopsOf(s, O \cup {t}) = LoopsOf(s, O) \cup {t} /\ t \notin LoopsOf(s, O)
           /\ Cardinality(LoopsOf(s, O \cup {t})) = Cardinality(LoopsOf(s, O)) + 1
      /\ NetOf(s, O \cup {t}) = NetOf(s, O) + (IF s[t] = "case" THEN 1 ELSE IF s[t] = "of" THEN -1 ELSE 0)
  BY Around
<1>2. s[t] # "of" /\ s[t] # "case"
  OBVIOUS
<1> QED  BY <1>1, <1>2

(* These words open and end no loop, case or of. *)
LEMMA AlikeThrough ==
  ASSUME NEW s, Complete(s), NEW k \in 1..Len(s),
         s[k] \in {"if", "begin", "else", "while", "then", "until", "repeat", "again"} \cup Plain
  PROVE  Alike(s, Opn(s, k), Opn(s, k - 1))
<1>1. k - 1 \in Nat /\ k \in Nat /\ k > 0
  OBVIOUS
<1>2. CASE s[k] \in {"if", "begin"}
  <2>1. s[k] \in Opening
    BY <1>2 DEF Opening, Openers
  <2>2. k \notin Opn(s, k - 1) /\ Opn(s, k) = Opn(s, k - 1) \cup {k}
    BY <2>1, OpeningLeads
  <2>3. IsFiniteSet(Opn(s, k - 1))
    BY <1>1, OpenFinite
  <2>4. Alike(s, Opn(s, k - 1) \cup {k}, Opn(s, k - 1))
    BY <2>2, <2>3, <1>2, AlikeWith
  <2> QED  BY <2>2, <2>4
<1>3. CASE s[k] \in {"else", "while"} \cup Plain
  <2>1. s[k] \notin Opening \cup Closing
    BY <1>3 DEF Opening, Openers, Closing, Checked, Plain
  <2>2. Opn(s, k) = Opn(s, k - 1)
    BY <1>1, <2>1, OpenStep
  <2> QED  BY <2>2 DEF Alike
<1>4. CASE s[k] \in {"then", "until", "repeat", "again"}
  <2>1. s[k] \in Closing
    BY <1>4 DEF Closing, Checked
  <2> DEFINE t == Top(s, k - 1)
  <2>2. s[t] \in OpenerOf(s[k]) /\ t \notin Opn(s, k) /\ Opn(s, k - 1) = Opn(s, k) \cup {t}
    BY <2>1, ClosingLeads
  <2> HIDE DEF t
  <2>3. s[t] \in {"if", "begin"}
    BY <2>2, <1>4 DEF OpenerOf
  <2>4. IsFiniteSet(Opn(s, k))
    BY <1>1, OpenFinite
  <2>5. Alike(s, Opn(s, k) \cup {t}, Opn(s, k))
    BY <2>2, <2>3, <2>4, AlikeWith
  <2> QED  BY <2>2, <2>5 DEF Alike
<1> QED  BY <1>2, <1>3, <1>4

(* Behind the structure that else, endof or while goes on with, the loops and *)
(* cases are those in front of it.                                            *)
LEMMA AlikeBehindElse ==
  ASSUME NEW s, Complete(s), NEW k \in 1..Len(s), s[k] \in Continuing
  PROVE  Alike(s, Opn(s, EndOf(s, k)), Opn(s, k - 1))
<1> DEFINE t == Top(s, k) O == Opn(s, t - 1) o == Top(s, k - 1)
<1>1. /\ t \in 1..k - 1 /\ s[k] = Part(s[t]) /\ t \notin O
      /\ Opn(s, k) = O \cup {t} /\ Opn(s, EndOf(s, k)) = O
      /\ s[k] # "endof" => Opn(s, k - 1) = Opn(s, k)
      /\ s[k] = "endof" => o \notin Opn(s, k) /\ s[o] = "of" /\ Opn(s, k - 1) = Opn(s, k) \cup {o}
  BY ContinuingLeads
<1>2. IsFiniteSet(O) /\ IsFiniteSet(Opn(s, k))
  <2>1. t - 1 \in Nat /\ k \in Nat
    BY <1>1
  <2> HIDE DEF t
  <2> QED  BY <2>1, OpenFinite
<1> HIDE DEF t, O, o
<1>3. CASE s[k] # "endof"
  <2>1. s[t] \in {"if", "begin"}
    BY <1>1, <1>3 DEF Part, Continuing
  <2>2. Alike(s, O \cup {t}, O)
    BY <2>1, <1>1, <1>2, AlikeWith
  <2> QED  BY <2>2, <1>1, <1>3 DEF Alike
<1>4. CASE s[k] = "endof"
  <2>1. s[t] = "case"
    BY <1>1, <1>4 DEF Part
  <2>2. /\ NetOf(s, O) \in Int /\ LoopsOf(s, O \cup {t}) = LoopsOf(s, O)
        /\ NetOf(s, O \cup {t}) = NetOf(s, O) + 1
    BY <1>1, <1>2, <2>1, CaseWith
  <2>3. LoopsOf(s, Opn(s, k)) = LoopsOf(s, O) /\ NetOf(s, Opn(s, k)) = NetOf(s, O) + 1
    BY <2>2, <1>1
  <2>4. /\ LoopsOf(s, Opn(s, k) \cup {o}) = LoopsOf(s, Opn(s, k))
        /\ NetOf(s, Opn(s, k) \cup {o}) = NetOf(s, Opn(s, k)) - 1
    BY <1>1, <1>2, <1>4, OfWith
  <2>6. LoopsOf(s, Opn(s, k - 1)) = LoopsOf(s, Opn(s, k))
        /\ NetOf(s, Opn(s, k - 1)) = NetOf(s, Opn(s, k)) - 1
    BY <2>4, <1>1, <1>4
  <2>7. NetOf(s, Opn(s, k - 1)) = NetOf(s, O)
    BY <2>2, <2>3, <2>6
  <2> QED  BY <2>3, <2>6, <2>7, <1>1 DEF Alike
<1> QED  BY <1>3, <1>4

(* Where the branch of if leads, the loops and cases are those in front of *)
(* if.                                                                     *)
LEMMA AlikeBehindIf ==
  ASSUME NEW s, Complete(s), NEW k \in 1..Len(s), s[k] = "if"
  PROVE  /\ Behind(s, k) \in k + 1..Len(s) - 1
         /\ Alike(s, Opn(s, Behind(s, k)), Opn(s, k - 1))
         /\ Parts(s, k) = {j \in k + 1..EndOf(s, k) - 1 : s[j] = "else" /\ Lev(s, j) = Lev(s, k)}
<1>1. s[k] \in Opening
  BY DEF Opening, Openers
<1>2. /\ k \notin Opn(s, k - 1) /\ Opn(s, k) = Opn(s, k - 1) \cup {k} /\ Top(s, k) = k
      /\ EndOf(s, k) \in k + 1..Len(s) - 1 /\ Opn(s, EndOf(s, k)) = Opn(s, k - 1)
  BY <1>1, OpeningLeads
<1>3. /\ Opn(s, Len(s)) = {} /\ Balanced(s) /\ s \in Seq(Words) /\ Len(s) \in Nat /\ Legal(s)
      /\ ~Live(s, k, Len(s))
  BY <1>1, NothingOpen, EndInside DEF Complete
<1> DEFINE m == EndOf(s, k)
<1>4. m \in k + 1..Len(s) /\ Live(s, k, m - 1) /\ ~Live(s, k, m)
  <2>1. Len(s) \in k..Len(s)
    BY <1>3
  <2> QED  BY <2>1, <1>3, EndExists
<1>5. m \in k + 1..Len(s) - 1 /\ Opn(s, m) = Opn(s, k - 1)
  BY <1>2
<1> HIDE DEF m
<1>6. Parts(s, k) = {j \in k + 1..m - 1 : s[j] = "else" /\ Lev(s, j) = Lev(s, k)}
  <2>1. Part(s[k]) = "else"
    BY DEF Part
  <2>2. ASSUME NEW e \in Parts(s, k) PROVE e \in k + 1..m - 1
    <3>1. e \in k + 1..Len(s) /\ Live(s, k, e)
      BY <2>2 DEF Parts
    <3>2. m \notin k..e
      <4> SUFFICES ASSUME m <= e PROVE FALSE
        BY <3>1, <1>5
      <4>1. Live(s, k, m)
        BY <3>1, <1>5, LiveShorter
      <4> QED  BY <4>1, <1>4
    <3> QED  BY <3>1, <3>2, <1>5
  <2>3. ASSUME NEW e \in k + 1..m - 1 PROVE Live(s, k, e) /\ e \in k + 1..Len(s)
    <3>1. e \in Int /\ m - 1 \in Int /\ e <= m - 1 /\ k \in Int
      BY <1>5
    <3>2. Live(s, k, e)
      BY <3>1, <1>4, LiveShorter
    <3> QED  BY <3>2, <1>5
  <2> QED  BY <2>1, <2>2, <2>3 DEF Parts
<1>7. CASE ~Divided(s, k)
  <2>1. Behind(s, k) = m
    BY <1>7 DEF Behind, m
  <2> QED  BY <2>1, <1>5, <1>6 DEF Alike, m
<1>8. CASE Divided(s, k)
  <2> DEFINE e == Behind(s, k)
  <2>1. e = Min(Parts(s, k)) /\ Parts(s, k) # {}
    BY <1>8 DEF Behind, Divided
  <2>2. Parts(s, k) \in SUBSET Nat
    BY <1>6, <1>5
  <2>3. e \in Parts(s, k)
    BY <2>1, <2>2, MinOfNumbers
  <2> HIDE DEF e
  <2>4. e \in k + 1..m - 1 /\ s[e] = "else" /\ Lev(s, e) = Lev(s, k) /\ Live(s, k, e)
    BY <2>3, <1>6 DEF Parts
  <2>5. e \in 1..Len(s) /\ s[e] \in Continuing /\ e \in k + 1..Len(s) - 1 /\ e \in Nat /\ e <= Len(s)
    BY <2>4, <1>5 DEF Continuing
  <2>6. /\ Opn(s, e) # {} /\ Opn(s, e) = Opn(s, Top(s, e))
    BY <2>5, <1>3, OwnerOf
  <2>7. k \in Opn(s, e)
    <3>1. k \in 1..e
      BY <2>5
    <3> QED  BY <3>1, <2>4, <1>1 DEF Opn
  <2>8. \A j \in Opn(s, e) : Lev(s, j) = Lev(s, e) => j = Top(s, e)
    BY <2>5, <2>6, <1>3, TopIsDeepest
  <2>9. Opn(s, e) = Opn(s, k)
    BY <2>4, <2>6, <2>7, <2>8
  <2>10. Alike(s, Opn(s, e), Opn(s, k - 1))
    <3>1. Alike(s, Opn(s, k), Opn(s, k - 1))
      BY AlikeThrough
    <3> QED  BY <3>1, <2>9
  <2> QED  BY <2>5, <2>10, <1>6 DEF e, m
<1> QED  BY <1>7, <1>8

(* leave goes behind the innermost loop, which is inside of every case. *)
LEMMA BehindLeave ==
  ASSUME NEW s, Complete(s), NEW k \in 1..Len(s), s[k] = "leave"
  PROVE  LET L == LoopsOf(s, Opn(s, k - 1)) j == Max(L) m == EndOf(s, j)
         IN  /\ j \in L /\ j \in 1..k - 1 /\ s[j] \in {"do", "?do"}
             /\ L = LoopsOf(s, Opn(s, j - 1)) \cup {j} /\ j \notin LoopsOf(s, Opn(s, j - 1))
             /\ m \in j + 1..Len(s) - 1 /\ Opn(s, m) = Opn(s, j - 1)
             /\ NetOf(s, Opn(s, m)) = NetOf(s, Opn(s, k - 1))
<1> DEFINE P == Opn(s, k - 1) L == LoopsOf(s, P) j == Max(L) m == EndOf(s, j) O == Opn(s, j - 1)
<1>1. Legal(s) /\ Balanced(s) /\ Len(s) \in Nat /\ k - 1 \in Nat /\ LegalAt(s, k)
  BY NothingOpen DEF Complete, Legal
<1>2. L # {} /\ \A i \in P : s[i] = "case" => i < j
  <2>1. LoopsIn(s, k - 1) = L /\ CasesIn(s, k - 1) = {i \in P : s[i] = "case"}
    BY DEF LoopsIn, LoopsOf, CasesIn
  <2>2. LoopsIn(s, k - 1) # {} /\ \A i \in CasesIn(s, k - 1) : i < Max(LoopsIn(s, k - 1))
    BY <1>1 DEF LegalAt
  <2> HIDE DEF P
  <2> QED  BY <2>1, <2>2
<1>3. P \subseteq 1..k - 1 /\ IsFiniteSet(P)
  BY <1>1, OpenFinite
<1>4. j \in L /\ \A i \in L : i <= j
  <2>1. L \in SUBSET (0..k - 1)
    BY <1>3 DEF LoopsOf
  <2> HIDE DEF L
  <2> QED  BY <2>1, <1>1, <1>2, MaxOfNumbers
<1>5. j \in P /\ s[j] \in {"do", "?do"} /\ j \in 1..k - 1
  BY <1>3, <1>4 DEF LoopsOf
<1> HIDE DEF j
<1>6. j \in 1..Len(s) /\ s[j] \in Opening /\ j - 1 \in Nat /\ j \in Nat
  BY <1>1, <1>5 DEF Opening, Openers
<1>7. j \notin O /\ Opn(s, j) = O \cup {j} /\ m \in j + 1..Len(s) - 1 /\ Opn(s, m) = O
  BY <1>6, OpeningLeads
<1>8. \A i \in 1..j : i \in P <=> i \in Opn(s, j)
  <2>1. j \in Opn(s, k - 1)
    BY <1>5
  <2>2. \A i \in 1..j : i \in Opn(s, k - 1) <=> i \in Opn(s, j)
    BY <2>1, <1>1, OpenPrefix
  <2> QED  BY <2>2
<1>9. O \subseteq 1..j - 1 /\ IsFiniteSet(O)
  BY <1>6, OpenFinite
<1> HIDE DEF P, m, O
<1>10. \A i \in P : i <= j => i \in O \cup {j}
  BY <1>3, <1>7, <1>8
<1>11. O \cup {j} \subseteq P
  <2>1. \A i \in O : i \in 1..j
    BY <1>9, <1>6
  <2> QED  BY <2>1, <1>7, <1>8, <1>5
<1>12. L = LoopsOf(s, O) \cup {j} /\ j \notin LoopsOf(s, O)
  <2>1. ASSUME NEW i \in L PROVE i \in LoopsOf(s, O) \cup {j}
    <3>1. i \in P /\ s[i] \in {"do", "?do"} /\ i <= j
      BY <2>1, <1>4 DEF LoopsOf
    <3>2. i \in O \cup {j}
      BY <3>1, <1>10
    <3> QED  BY <3>1, <3>2 DEF LoopsOf
  <2>2. LoopsOf(s, O) \cup {j} \subseteq L
    BY <1>11, <1>5 DEF LoopsOf
  <2>3. j \notin LoopsOf(s, O)
    BY <1>7 DEF LoopsOf
  <2> QED  BY <2>1, <2>2, <2>3
(* What is open above the loop is neither case nor of. *)
<1>13. \A i \in P : s[i] = "of" => i < j
  <2> SUFFICES ASSUME NEW i \in P, s[i] = "of" PROVE i < j
    OBVIOUS
  <2>0. i \in 1..k - 1 /\ i # j
    BY <1>3, <1>5
  <2> SUFFICES ASSUME j < i PROVE FALSE
    BY <2>0, <1>6
  <2>1. i \in 1..Len(s) /\ i - 1 \in Nat /\ i - 1 <= Len(s)
    BY <2>0, <1>1
  <2> DEFINE c == Top(s, i - 1)
  <2>2. Opn(s, i - 1) # {} /\ s[c] = "case"
    <3>1. LegalAt(s, i)
      BY <2>1, <1>1 DEF Legal
    <3>2. s[i] \in Checked
      BY DEF Checked
    <3>3. Opn(s, i - 1) # {} /\ s[c] \in OpenerOf("of")
      BY <3>1, <3>2 DEF LegalAt
    <3> QED  BY <3>3 DEF OpenerOf
  <2>3. c \in Opn(s, i - 1) /\ \A x \in Opn(s, i - 1) : x <= c
    BY <2>1, <2>2, <1>1, TopIsDeepest
  <2> HIDE DEF c
  <2>4. c \in 1..i - 1
    BY <2>3 DEF Opn
  <2>5. j \in Opn(s, i - 1)
    <3>1. j \in Opn(s, k - 1)
      BY <1>5 DEF P
    <3>2. i - 1 \in j..k - 1
      BY <2>0, <1>6
    <3> QED  BY <3>1, <3>2, <1>1, OpenPrefix
  <2>6. c \in P
    <3>1. i \in Opn(s, k - 1)
      BY DEF P
    <3>2. s[i] \in Opening /\ Opn(s, i) = Opn(s, i - 1) \cup {i}
      <4>1. s[i] \in Opening
        BY DEF Opening
      <4> QED  BY <4>1, <2>1, OpeningLeads
    <3>3. c \in Opn(s, i) /\ c \in 1..i
      BY <3>2, <2>0, <2>3, <2>4
    <3>4. c \in Opn(s, k - 1)
      BY <3>1, <3>3, <1>1, OpenPrefix
    <3> QED  BY <3>4 DEF P
  <2>7. c < j
    BY <2>2, <2>6, <1>2
  <2>8. j <= c
    BY <2>3, <2>5
  <2> QED  BY <2>4, <2>7, <2>8, <1>6
<1>14. NetOf(s, P) = NetOf(s, O)
  <2>1. \A i \in P : s[i] = "case" \/ s[i] = "of" => i \in O
    <3> SUFFICES ASSUME NEW i \in P, s[i] = "case" \/ s[i] = "of" PROVE i \in O
      OBVIOUS
    <3>1. i < j /\ i \in Nat
      BY <1>2, <1>13, <1>3
    <3>2. i <= j /\ i # j
      BY <3>1, <1>6
    <3> QED  BY <3>2, <1>10
  <2>2. O \subseteq P
    BY <1>11
  <2>3. {i \in P : s[i] = "case"} = {i \in O : s[i] = "case"} /\ {i \in P : s[i] = "of"} = {i \in O : s[i] = "of"}
    BY <2>1, <2>2
  <2> QED  BY <2>3 DEF NetOf
<1> QED  BY <1>4, <1>5, <1>7, <1>12, <1>14 DEF P, m, O, j

----------------------------------------------------------------------------
(* Addresses and words; frames and loops. *)

(* The word whose code has address a. *)
WordIs(st, a) == Max({k \in DOMAIN st : st[k] <= a})

Ready(s, st, C) == Complete(s) /\ Layout(s, st, C) /\ Resolved(s, st, C)

(* Types of a definition that is ready to execute. *)
LEMMA ReadyTypes ==
  ASSUME NEW s, NEW st, NEW C, Ready(s, st, C)
  PROVE  /\ s \in Seq(Words) /\ st \in Seq(Nat) /\ C \in Seq(Cell) /\ Len(st) = Len(s)
         /\ Len(s) \in Nat /\ Len(s) > 0 /\ Legal(s) /\ Balanced(s) /\ Complete(s)
         /\ DOMAIN st = 1..Len(s) /\ s[Len(s)] = "semicolon"
         /\ \A k \in 1..Len(s) : s[k] \in Words /\ st[k] \in Nat /\ Width(s[k]) \in Nat
<1>1. Complete(s) /\ Layout(s, st, C) /\ Legal(s) /\ Balanced(s) /\ Len(s) > 0 /\ s[Len(s)] = "semicolon"
  BY DEF Ready, Complete, Legal
<1>2. s \in Seq(Words) /\ st \in Seq(Nat) /\ C \in Seq(Cell) /\ Len(st) = Len(s)
  BY <1>1 DEF Layout
<1>3. Len(s) \in Nat /\ DOMAIN st = 1..Len(s) /\ \A k \in 1..Len(s) : s[k] \in Words /\ st[k] \in Nat
  BY <1>2
<1>4. \A k \in 1..Len(s) : Width(s[k]) \in Nat
  BY <1>3, CellsOfWord
<1> QED  BY <1>1, <1>2, <1>3, <1>4

(* The code of a later word lies behind that of an earlier one. *)
LEMMA WordsInOrder ==
  ASSUME NEW s, NEW st, NEW C, Ready(s, st, C), NEW j \in 1..Len(s), NEW k \in 1..Len(s), j < k
  PROVE  st[j] + Width(s[j]) <= st[k]
<1>1. Layout(s, st, C) /\ Len(st) = Len(s) /\ Len(s) \in Nat
  BY ReadyTypes DEF Ready
<1>2. \A x \in 1..Len(s), y \in 1..Len(s) + 1 : x < y => st[x] + Width(s[x]) <= Place(st, C, y)
  BY <1>1 DEF Layout
<1>3. k \in 1..Len(s) + 1 /\ Place(st, C, k) = st[k]
  BY <1>1 DEF Place
<1> QED  BY <1>2, <1>3

(* Where the code of a word ends, that of the next begins. *)
LEMMA Through ==
  ASSUME NEW s, NEW st, NEW C, Ready(s, st, C), NEW k \in 1..Len(s), s[k] # "semicolon"
  PROVE  k + 1 \in 1..Len(s) /\ st[k] + Width(s[k]) = st[k + 1]
<1>1. Layout(s, st, C) /\ Len(st) = Len(s) /\ Len(s) \in Nat /\ s[Len(s)] = "semicolon"
  BY ReadyTypes DEF Ready
<1>2. k # Len(s)
  BY <1>1
<1>3. k + 1 \in 1..Len(s) /\ k + 1 <= Len(st)
  BY <1>1, <1>2
<1>4. Place(st, C, k + 1) = st[k] + Width(s[k])
  BY <1>1 DEF Layout
<1>5. Place(st, C, k + 1) = st[k + 1]
  BY <1>3 DEF Place
<1> QED  BY <1>3, <1>4, <1>5

(* An address within a word's cells is that of the word. *)
LEMMA WordOf ==
  ASSUME NEW s, NEW st, NEW C, Ready(s, st, C), NEW k \in 1..Len(s), NEW a \in Int,
         st[k] <= a, a < st[k] + Width(s[k])
  PROVE  WordIs(st, a) = k
<1> DEFINE T == {j \in 1..Len(s) : st[j] <= a}
<1>1. /\ Len(s) \in Nat /\ DOMAIN st = 1..Len(s)
      /\ \A j \in 1..Len(s) : st[j] \in Nat /\ Width(s[j]) \in Nat
  BY ReadyTypes
<1>2. T \in SUBSET (0..Len(s)) /\ k \in T /\ T # {}
  OBVIOUS
<1>3. \A j \in T : j <= k
  <2> SUFFICES ASSUME NEW j \in T PROVE j <= k
    OBVIOUS
  <2>1. j \in 1..Len(s) /\ st[j] <= a
    OBVIOUS
  <2> SUFFICES ASSUME k < j PROVE FALSE
    BY <2>1, <1>1
  <2>2. st[k] + Width(s[k]) <= st[j]
    BY <2>1, WordsInOrder
  <2>3. st[j] \in Nat /\ st[k] \in Nat /\ Width(s[k]) \in Nat
    BY <2>1, <1>1
  <2> QED  BY <2>1, <2>2, <2>3
<1>7. WordIs(st, a) = Max(T)
  BY <1>1 DEF WordIs
<1> HIDE DEF T
<1>4. Max(T) \in T /\ \A j \in T : j <= Max(T)
  BY <1>1, <1>2, MaxOfNumbers
<1>5. Max(T) <= k /\ k <= Max(T) /\ Max(T) \in 0..Len(s)
  BY <1>2, <1>3, <1>4
<1>6. Max(T) = k
  BY <1>1, <1>5
<1> QED  BY <1>6, <1>7

(* Only then and begin compile nothing. *)
LEMMA NoWidth ==
  ASSUME NEW w \in Words, Width(w) = 0
  PROVE  w \in {"then", "begin"}
<1>1. \/ w \in {"do", "?do", "loop", "+loop", "if", "case", "of", "endcase", "until", "while"}
      \/ w \in {"else", "endof", "repeat", "again", "tail-recurse", "leave", "exit", "semicolon"}
      \/ w \in {"then", "begin"}
  BY DEF Words, Openers, Checked, Plain
<1>2. CASE w \in {"do", "?do", "loop", "+loop", "if", "case", "of", "endcase", "until", "while"}
  BY <1>2 DEF Width, Cells
<1>3. CASE w \in {"else", "endof", "repeat", "again", "tail-recurse", "leave", "exit", "semicolon"}
  BY <1>3 DEF Width, Cells
<1> QED  BY <1>1, <1>2, <1>3

(* The word that executes next when the machine goes to word x. *)
LEMMA NextWord ==
  ASSUME NEW s, NEW st, NEW C, Ready(s, st, C), NEW x \in 1..Len(s)
  PROVE  \E k \in x..Len(s) : /\ st[k] = st[x] /\ Width(s[k]) > 0
                              /\ Alike(s, Opn(s, k - 1), Opn(s, x - 1))
<1> DEFINE a == st[x] T == {j \in 1..Len(s) : st[j] <= a} k == Max(T)
<1>1. /\ Len(s) \in Nat /\ DOMAIN st = 1..Len(s) /\ Complete(s) /\ s[Len(s)] = "semicolon"
      /\ \A j \in 1..Len(s) : st[j] \in Nat /\ Width(s[j]) \in Nat /\ s[j] \in Words
  BY ReadyTypes
<1>2. T \in SUBSET (0..Len(s)) /\ x \in T /\ T # {} /\ a \in Nat
  BY <1>1
<1>3. k \in T /\ \A j \in T : j <= k
  <2> HIDE DEF T
  <2> QED  BY <1>1, <1>2, MaxOfNumbers
<1>4. k \in x..Len(s) /\ k \in 1..Len(s) /\ st[k] <= a
  BY <1>2, <1>3, <1>1
<1> HIDE DEF k
<1>5. st[k] = a
  <2>1. CASE k = x
    BY <2>1
  <2>2. CASE x < k
    <3>1. st[x] + Width(s[x]) <= st[k]
      BY <2>2, <1>4, WordsInOrder
    <3>2. st[x] \in Nat /\ Width(s[x]) \in Nat /\ st[k] \in Nat
      BY <1>1, <1>4
    <3> QED  BY <3>1, <3>2, <1>4
  <2> QED  BY <2>1, <2>2, <1>4
<1>6. \A j \in x..k - 1 : s[j] \in {"then", "begin"} /\ j \in 1..Len(s)
  <2> SUFFICES ASSUME NEW j \in x..k - 1 PROVE s[j] \in {"then", "begin"} /\ j \in 1..Len(s)
    OBVIOUS
  <2>1. j \in 1..Len(s) /\ j < k
    BY <1>4, <1>1
  <2>2. st[j] + Width(s[j]) <= st[k]
    BY <2>1, <1>4, WordsInOrder
  <2>3. st[x] <= st[j]
    <3>1. CASE j = x
      BY <3>1, <1>2
    <3>2. CASE x < j
      <4>1. st[x] + Width(s[x]) <= st[j]
        BY <3>2, <2>1, WordsInOrder
      <4>2. st[x] \in Nat /\ Width(s[x]) \in Nat /\ st[j] \in Nat
        BY <1>1, <2>1
      <4> QED  BY <4>1, <4>2
    <3> QED  BY <3>1, <3>2
  <2>4. st[j] \in Nat /\ Width(s[j]) \in Nat /\ s[j] \in Words
    BY <1>1, <2>1
  <2>5. Width(s[j]) = 0
    <3>1. st[j] + Width(s[j]) <= st[x] /\ st[x] \in Nat
      BY <2>2, <1>2, <1>5
    <3> QED  BY <3>1, <2>3, <2>4
  <2> QED  BY <2>1, <2>4, <2>5, NoWidth
<1>7. Width(s[k]) > 0
  <2> SUFFICES ASSUME ~(Width(s[k]) > 0) PROVE FALSE
    OBVIOUS
  <2>1. Width(s[k]) = 0 /\ s[k] \in Words
    BY <1>1, <1>4
  <2>2. s[k] \in {"then", "begin"}
    BY <2>1, NoWidth
  <2>3. k + 1 \in 1..Len(s) /\ st[k] + Width(s[k]) = st[k + 1]
    BY <2>2, <1>4, Through
  <2>4. st[k + 1] = a
    BY <2>1, <2>3, <1>2, <1>5
  <2>5. k + 1 \in T
    BY <2>3, <2>4, <1>2
  <2> QED  BY <2>5, <1>3, <1>4
<1>8. Alike(s, Opn(s, k - 1), Opn(s, x - 1))
  <2> DEFINE B == {j \in x..k : ~Alike(s, Opn(s, j - 1), Opn(s, x - 1))}
  <2>1. CASE B = {}
    <3>1. k \in x..k
      BY <1>4
    <3> QED  BY <2>1, <3>1
  <2>2. CASE B # {}
    <3>1. B \in SUBSET Nat
      BY <1>4
    <3>2. PICK j \in B : \A y \in B : j <= y
      BY <2>2, <3>1, LeastNumber
    <3>3. j \in x..k /\ ~Alike(s, Opn(s, j - 1), Opn(s, x - 1))
      BY <3>2
    <3>4. j # x
      BY <3>3 DEF Alike
    <3>5. j - 1 \in x..k - 1 /\ j - 1 \in x..k /\ j - 1 < j /\ (j - 1) - 1 = j - 2
      BY <3>3, <3>4, <1>4
    <3>6. Alike(s, Opn(s, (j - 1) - 1), Opn(s, x - 1))
      <4>1. ~(j <= j - 1)
        BY <3>5
      <4>2. j - 1 \notin B
        BY <4>1, <3>2
      <4> QED  BY <4>2, <3>5
    <3> DEFINE i == j - 1
    <3>7. i \in 1..Len(s) /\ s[i] \in {"then", "begin"}
      BY <3>5, <1>6
    <3> HIDE DEF i
    <3>8. Alike(s, Opn(s, i), Opn(s, i - 1))
      BY <3>7, <1>1, AlikeThrough
    <3> QED  BY <3>3, <3>6, <3>8 DEF i, Alike
  <2> QED  BY <2>1, <2>2
<1> QED  BY <1>4, <1>5, <1>7, <1>8

(* The frame of the loop that word i begins lies above those of the loops   *)
(* around it.                                                               *)
Below(s, i) == 3 * Cardinality(LoopsOf(s, Opn(s, i - 1)))
FrameAt(r, f, a) == r[f + 2] = a /\ r[f + 3] = Index /\ r[f + 4] = Limit
Framed(s, st, r, O) ==
  /\ r \in Seq(Int) /\ Len(r) = 1 + 3 * Cardinality(LoopsOf(s, O)) /\ r[1] = Caller
  /\ \A j \in LoopsOf(s, O) : FrameAt(r, Below(s, j), st[j] + 3)

(* Finitely many loops are around a word. *)
LEMMA LoopsFinite ==
  ASSUME NEW s, NEW p \in Nat
  PROVE  /\ IsFiniteSet(LoopsOf(s, Opn(s, p))) /\ Cardinality(LoopsOf(s, Opn(s, p))) \in Nat
         /\ LoopsOf(s, Opn(s, p)) \subseteq 1..p
<1>1. IsFiniteSet(Opn(s, p)) /\ Opn(s, p) \subseteq 1..p
  BY OpenFinite
<1>2. LoopsOf(s, Opn(s, p)) \subseteq Opn(s, p)
  BY DEF LoopsOf
<1>3. IsFiniteSet(LoopsOf(s, Opn(s, p)))
  BY <1>1, <1>2, FS_Subset
<1>4. Cardinality(LoopsOf(s, Opn(s, p))) \in Nat
  BY <1>3, FS_CardinalityType
<1> QED  BY <1>1, <1>2, <1>3, <1>4

(* The frame of a loop around a word is in the return stack. *)
LEMMA FrameBelow ==
  ASSUME NEW s, NEW p \in Nat, NEW i \in LoopsOf(s, Opn(s, p))
  PROVE  /\ Cardinality(LoopsOf(s, Opn(s, i - 1))) \in Nat
         /\ Cardinality(LoopsOf(s, Opn(s, i - 1))) + 1 <= Cardinality(LoopsOf(s, Opn(s, p)))
<1>1. i \in Opn(s, p) /\ s[i] \in {"do", "?do"}
  BY DEF LoopsOf
<1>2. i \in 1..p /\ \A x \in 1..i : x \in Opn(s, p) <=> x \in Opn(s, i)
  BY <1>1, OpenPrefix
<1>3. i \in Nat /\ i - 1 \in Nat /\ i > 0
  BY <1>2
<1>4. s[i] \in Opening
  BY <1>1 DEF Opening, Openers
<1>5. Opn(s, i) = Opn(s, i - 1) \cup {i}
  BY <1>3, <1>4, OpenStep
<1>6. Opn(s, i - 1) \subseteq 1..i - 1 /\ Opn(s, i - 1) \subseteq 1..i
  <2>1. Opn(s, i - 1) \subseteq 1..i - 1
    BY <1>3, OpenFinite
  <2> QED  BY <2>1, <1>3
<1>7. i \notin LoopsOf(s, Opn(s, i - 1))
  BY <1>6, <1>3 DEF LoopsOf
<1>8. LoopsOf(s, Opn(s, i - 1)) \cup {i} \subseteq LoopsOf(s, Opn(s, p))
  <2>1. \A x \in Opn(s, i - 1) : x \in Opn(s, p)
    BY <1>2, <1>5, <1>6
  <2> QED  BY <2>1, <1>1 DEF LoopsOf
<1>9. IsFiniteSet(LoopsOf(s, Opn(s, i - 1))) /\ IsFiniteSet(LoopsOf(s, Opn(s, p)))
      /\ Cardinality(LoopsOf(s, Opn(s, i - 1))) \in Nat /\ Cardinality(LoopsOf(s, Opn(s, p))) \in Nat
  BY <1>3, LoopsFinite
<1>10. Cardinality(LoopsOf(s, Opn(s, i - 1)) \cup {i}) = Cardinality(LoopsOf(s, Opn(s, i - 1))) + 1
  BY <1>7, <1>9, OneMore
<1>11. Cardinality(LoopsOf(s, Opn(s, i - 1)) \cup {i}) <= Cardinality(LoopsOf(s, Opn(s, p)))
  BY <1>8, <1>9, FS_Subset
<1> QED  BY <1>9, <1>10, <1>11

(* A frame put on the return stack. *)
LEMMA FrameRow ==
  ASSUME NEW r \in Seq(Int), NEW a \in Int, NEW b \in Int, NEW c \in Int
  PROVE  /\ r \o <<a, b, c>> \in Seq(Int) /\ Len(r \o <<a, b, c>>) = Len(r) + 3
         /\ \A i \in 1..Len(r) : (r \o <<a, b, c>>)[i] = r[i]
         /\ (r \o <<a, b, c>>)[Len(r) + 1] = a /\ (r \o <<a, b, c>>)[Len(r) + 2] = b
         /\ (r \o <<a, b, c>>)[Len(r) + 3] = c
OBVIOUS

(* The lower part of the return stack. *)
LEMMA FirstCells ==
  ASSUME NEW r \in Seq(Int), NEW m \in Nat, m <= Len(r)
  PROVE  SubSeq(r, 1, m) \in Seq(Int) /\ Len(SubSeq(r, 1, m)) = m
         /\ \A i \in 1..m : SubSeq(r, 1, m)[i] = r[i]
OBVIOUS

(* (do) puts the new loop's frame over those of the loops around it. *)
LEMMA EnterFrame ==
  ASSUME NEW s, NEW st, NEW r, NEW k \in Nat, k > 0, s[k] \in {"do", "?do"}, st[k] \in Nat,
         Framed(s, st, r, Opn(s, k - 1))
  PROVE  Framed(s, st, r \o <<st[k] + 3, Index, Limit>>, Opn(s, k))
<1> DEFINE P == LoopsOf(s, Opn(s, k - 1)) Q == LoopsOf(s, Opn(s, k)) n == Cardinality(P)
           v == r \o <<st[k] + 3, Index, Limit>>
<1>1. k - 1 \in Nat /\ s[k] \in Opening
  BY DEF Opening, Openers
<1>2. Opn(s, k) = Opn(s, k - 1) \cup {k}
  BY <1>1, OpenStep
<1>3. IsFiniteSet(Opn(s, k - 1)) /\ Opn(s, k - 1) \subseteq 1..k - 1
  BY <1>1, OpenFinite
<1>4. k \notin Opn(s, k - 1)
  BY <1>3
<1>5. Q = P \cup {k} /\ Cardinality(Q) = n + 1 /\ n \in Nat
  BY <1>2, <1>3, <1>4, DoWith
<1>6. /\ r \in Seq(Int) /\ Len(r) = 1 + 3 * n /\ r[1] = Caller
      /\ \A j \in P : FrameAt(r, Below(s, j), st[j] + 3)
  BY DEF Framed
<1>7. Below(s, k) = 3 * n
  BY DEF Below
<1>8. \A j \in P : Below(s, j) \in Nat /\ Below(s, j) + 3 <= 3 * n
  <2> SUFFICES ASSUME NEW j \in P PROVE Below(s, j) \in Nat /\ Below(s, j) + 3 <= 3 * n
    OBVIOUS
  <2> DEFINE m == Cardinality(LoopsOf(s, Opn(s, j - 1)))
  <2>1. m \in Nat /\ m + 1 <= n
    BY <1>1, FrameBelow
  <2>2. Below(s, j) = 3 * m
    BY DEF Below
  <2> HIDE DEF m, n
  <2> QED  BY <2>1, <2>2, <1>5
<1>9. st[k] + 3 \in Int /\ Index \in Int /\ Limit \in Int
  BY DEF Index, Limit
<1>10. /\ v \in Seq(Int) /\ Len(v) = Len(r) + 3 /\ \A i \in 1..Len(r) : v[i] = r[i]
       /\ v[Len(r) + 1] = st[k] + 3 /\ v[Len(r) + 2] = Index /\ v[Len(r) + 3] = Limit
  <2> DEFINE q == st[k] + 3
  <2>1. q \in Int /\ Index \in Int /\ Limit \in Int /\ r \in Seq(Int)
    BY <1>9, <1>6
  <2> HIDE DEF q
  <2>2. /\ r \o <<q, Index, Limit>> \in Seq(Int) /\ Len(r \o <<q, Index, Limit>>) = Len(r) + 3
        /\ \A i \in 1..Len(r) : (r \o <<q, Index, Limit>>)[i] = r[i]
        /\ (r \o <<q, Index, Limit>>)[Len(r) + 1] = q /\ (r \o <<q, Index, Limit>>)[Len(r) + 2] = Index
        /\ (r \o <<q, Index, Limit>>)[Len(r) + 3] = Limit
    BY <2>1, FrameRow
  <2> QED  BY <2>2, Zenon DEF q
<1> HIDE DEF v, n, P, Q
<1>11. Len(v) = 1 + 3 * Cardinality(Q) /\ v[1] = Caller
  <2>1. Len(v) = 1 + 3 * (n + 1)
    BY <1>5, <1>6, <1>10
  <2>2. 1 \in 1..Len(r)
    BY <1>5, <1>6
  <2> QED  BY <2>1, <2>2, <1>5, <1>6, <1>10
<1>12. ASSUME NEW j \in P PROVE FrameAt(v, Below(s, j), st[j] + 3)
  <2>1. FrameAt(r, Below(s, j), st[j] + 3)
    BY <1>6
  <2>2. Below(s, j) + 2 \in 1..Len(r) /\ Below(s, j) + 3 \in 1..Len(r) /\ Below(s, j) + 4 \in 1..Len(r)
    <3>1. Below(s, j) \in Nat /\ Below(s, j) + 3 <= 3 * n
      BY <1>8
    <3>2. Len(r) = 1 + 3 * n /\ n \in Nat
      BY <1>6, <1>5
    <3> QED  BY <3>1, <3>2
  <2> QED  BY <2>1, <2>2, <1>10 DEF FrameAt
<1>13. FrameAt(v, Below(s, k), st[k] + 3)
  <2>1. 3 * n + 2 = Len(r) + 1 /\ 3 * n + 3 = Len(r) + 2 /\ 3 * n + 4 = Len(r) + 3
    BY <1>5, <1>6
  <2> QED  BY <2>1, <1>7, <1>10 DEF FrameAt
<1>14. \A j \in Q : FrameAt(v, Below(s, j), st[j] + 3)
  BY <1>5, <1>12, <1>13
<1> QED  BY <1>10, <1>11, <1>14 DEF Framed, v, Q

(* Without its top frame the return stack is that of the loops around the *)
(* innermost.                                                             *)
LEMMA LeaveFrame ==
  ASSUME NEW s, NEW st, NEW r, NEW O, NEW p \in Nat, NEW t,
         LoopsOf(s, O) = LoopsOf(s, Opn(s, p)) \cup {t}, t \notin LoopsOf(s, Opn(s, p)),
         Framed(s, st, r, O)
  PROVE  /\ Framed(s, st, SubSeq(r, 1, Len(r) - 3), Opn(s, p))
         /\ Len(r) \in Nat /\ Len(r) - 3 \in Nat
<1> DEFINE P == LoopsOf(s, Opn(s, p)) n == Cardinality(P) v == SubSeq(r, 1, Len(r) - 3)
<1>1. IsFiniteSet(P) /\ n \in Nat
  BY LoopsFinite
<1>2. Cardinality(LoopsOf(s, O)) = n + 1
  <2>1. Cardinality(P \cup {t}) = n + 1
    BY <1>1, OneMore
  <2> QED  BY <2>1
<1>3. /\ r \in Seq(Int) /\ Len(r) = 1 + 3 * Cardinality(LoopsOf(s, O)) /\ r[1] = Caller
      /\ \A j \in P : FrameAt(r, Below(s, j), st[j] + 3)
  BY DEF Framed
<1>4. \A j \in P : Below(s, j) \in Nat /\ Below(s, j) + 3 <= 3 * n
  <2> SUFFICES ASSUME NEW j \in P PROVE Below(s, j) \in Nat /\ Below(s, j) + 3 <= 3 * n
    OBVIOUS
  <2> DEFINE m == Cardinality(LoopsOf(s, Opn(s, j - 1)))
  <2>1. m \in Nat /\ m + 1 <= n
    BY FrameBelow
  <2>2. Below(s, j) = 3 * m
    BY DEF Below
  <2> HIDE DEF m, n
  <2> QED  BY <2>1, <2>2, <1>1
<1> HIDE DEF n, P
<1>5. Len(r) - 3 = 1 + 3 * n /\ Len(r) \in Nat
  <2>1. Len(r) = 1 + 3 * (n + 1)
    BY <1>2, <1>3
  <2> QED  BY <2>1, <1>1
<1>6. v \in Seq(Int) /\ Len(v) = 1 + 3 * n /\ \A i \in 1..1 + 3 * n : v[i] = r[i]
  <2> DEFINE m == 1 + 3 * n
  <2>1. m \in Nat /\ m <= Len(r) /\ r \in Seq(Int) /\ v = SubSeq(r, 1, m)
    <3>1. r \in Seq(Int)
      BY <1>3
    <3> QED  BY <3>1, <1>5, <1>1
  <2> HIDE DEF m, v
  <2>2. SubSeq(r, 1, m) \in Seq(Int) /\ Len(SubSeq(r, 1, m)) = m
        /\ \A i \in 1..m : SubSeq(r, 1, m)[i] = r[i]
    BY <2>1, FirstCells
  <2>3. v \in Seq(Int) /\ Len(v) = m /\ \A i \in 1..m : v[i] = r[i]
    BY <2>1, <2>2
  <2> QED  BY <2>3 DEF m
<1> HIDE DEF v
<1>7. v[1] = Caller
  <2>1. 1 \in 1..1 + 3 * n
    BY <1>1
  <2> QED  BY <2>1, <1>6, <1>3
<1>8. ASSUME NEW j \in P PROVE FrameAt(v, Below(s, j), st[j] + 3)
  <2>1. FrameAt(r, Below(s, j), st[j] + 3)
    BY <1>3
  <2>2. /\ Below(s, j) + 2 \in 1..1 + 3 * n /\ Below(s, j) + 3 \in 1..1 + 3 * n
        /\ Below(s, j) + 4 \in 1..1 + 3 * n
    BY <1>4, <1>1
  <2> QED  BY <2>1, <2>2, <1>6 DEF FrameAt
<1>9. Framed(s, st, v, Opn(s, p))
  BY <1>6, <1>7, <1>8 DEF Framed, n, P
<1> QED  BY <1>9, <1>5, <1>1 DEF v

(* The address on top is that of the frame of the innermost loop. *)
TopIs(r, a) == r[Len(r) - 2] = a

(* The address in the top frame is that of the innermost loop. *)
LEMMA TopFrame ==
  ASSUME NEW s, NEW st, NEW r, NEW O, NEW t \in Nat, t > 0,
         LoopsOf(s, O) = LoopsOf(s, Opn(s, t - 1)) \cup {t}, t \notin LoopsOf(s, Opn(s, t - 1)),
         Framed(s, st, r, O)
  PROVE  TopIs(r, st[t] + 3)
<1> DEFINE P == LoopsOf(s, Opn(s, t - 1)) n == Cardinality(P)
<1>0. t - 1 \in Nat
  OBVIOUS
<1>1. IsFiniteSet(P) /\ n \in Nat
  BY <1>0, LoopsFinite
<1>2. Cardinality(LoopsOf(s, O)) = n + 1
  <2>1. Cardinality(P \cup {t}) = n + 1
    BY <1>1, OneMore
  <2> QED  BY <2>1
<1>3. Len(r) = 1 + 3 * (n + 1)
  BY <1>2 DEF Framed
<1>4. FrameAt(r, Below(s, t), st[t] + 3)
  BY DEF Framed
<1>5. Below(s, t) = 3 * n
  BY DEF Below
<1> HIDE DEF n
<1>6. Len(r) - 2 = 3 * n + 2
  BY <1>3, <1>1
<1> QED  BY <1>4, <1>5, <1>6 DEF FrameAt, TopIs

(* Frames are right wherever the loops around are the same. *)
LEMMA FramedAlike ==
  ASSUME NEW s, NEW st, NEW r, NEW P, NEW Q, LoopsOf(s, P) = LoopsOf(s, Q), Framed(s, st, r, P)
  PROVE  Framed(s, st, r, Q)
BY DEF Framed

----------------------------------------------------------------------------
(* The machine inside a word, and its steps. *)

(* What word w has on the parameter stack before its i-th cell executes. *)
Held(w, i) == IF w = "of" THEN CASE i = 2 -> 1 [] i = 3 -> 2 [] i = 4 -> 1 [] OTHER -> 0
              ELSE i - 1

(* What is on the parameter stack inside a word's code. *)
LEMMA HeldIs ==
  ASSUME NEW w
  PROVE  /\ Held(w, 1) = 0 /\ Held(w, 2) = 1 /\ Held(w, 3) = 2
         /\ w = "of" => Held(w, 4) = 1 /\ Held(w, 6) = 0
<1>1. CASE w = "of"
  BY <1>1 DEF Held
<1>2. CASE w # "of"
  BY <1>2 DEF Held
<1> QED  BY <1>1, <1>2

(* The machine is about to execute cell i of word k. *)
InWord(s, st, k, i, a, r, d, b) ==
  /\ k \in 1..Len(s) /\ i \in 1..Width(s[k]) /\ i # OffPos(s[k])
  /\ a = st[k] + i - 1
  /\ Framed(s, st, r, Opn(s, k - 1))
  /\ d = NetOf(s, Opn(s, k - 1)) + Held(s[k], i)
  /\ s[k] = "of" /\ i = 6 => b = TRUE

Running(s, st, a, r, d, b) == \E k \in 1..Len(s), i \in 1..6 : InWord(s, st, k, i, a, r, d, b)

(* No word compiles more than six cells, and none begins with an offset. *)
LEMMA WidthAtMost ==
  ASSUME NEW w \in Words
  PROVE  Width(w) \in 0..6 /\ OffPos(w) # 1
<1>1. \/ w \in {"do", "?do", "loop", "+loop", "if", "case", "of", "endcase", "until", "while"}
      \/ w \in {"else", "endof", "repeat", "again", "tail-recurse", "leave", "exit", "semicolon"}
      \/ w \in {"then", "begin"}
  BY DEF Words, Openers, Checked, Plain
<1>2. CASE w \in {"do", "?do", "loop", "+loop", "if", "case", "of", "endcase", "until", "while"}
  BY <1>2 DEF Width, Cells, OffPos
<1>3. CASE w \in {"else", "endof", "repeat", "again", "tail-recurse", "leave", "exit", "semicolon"}
  BY <1>3 DEF Width, Cells, OffPos
<1>4. CASE w \in {"then", "begin"}
  BY <1>4 DEF Width, Cells, OffPos
<1> QED  BY <1>1, <1>2, <1>3, <1>4

(* Which words compile an instruction, and at which place. *)
OpTable(w, i, op) ==
  /\ op = "push" => \/ w \in {"do", "?do"} /\ i \in {1, 2} /\ Width(w) = 4 /\ OffPos(w) = 4
                    \/ w \in {"+loop", "if", "until", "while"} /\ i = 1 /\ Width(w) = 3 /\ OffPos(w) = 3
                    \/ w = "of" /\ i = 1 /\ Width(w) = 6 /\ OffPos(w) = 5
                    \/ w = "case" /\ i = 1 /\ Width(w) = 1
  /\ op = "over" => w = "of" /\ i = 2 /\ Width(w) = 6 /\ OffPos(w) = 5
  /\ op = "=" => w = "of" /\ i = 3 /\ Width(w) = 6 /\ OffPos(w) = 5
  /\ op = "drop" => \/ w = "of" /\ i = 6 /\ Width(w) = 6
                    \/ w = "endcase" /\ i = 1 /\ Width(w) = 1
  /\ op = "(do)" => w = "do" /\ i = 3 /\ Width(w) = 4 /\ OffPos(w) = 4
  /\ op = "(?do)" => w = "?do" /\ i = 3 /\ Width(w) = 4 /\ OffPos(w) = 4
  /\ op = "(loop)" => w = "loop" /\ i = 1 /\ Width(w) = 2 /\ OffPos(w) = 2
  /\ op = "(+loop)" => w = "+loop" /\ i = 2 /\ Width(w) = 3 /\ OffPos(w) = 3
  /\ op = "(branch)" => /\ w \in {"else", "endof", "repeat", "again", "tail-recurse"} /\ i = 1
                        /\ Width(w) = 2 /\ OffPos(w) = 2
  /\ op = "(?branch)" => \/ /\ w \in {"if", "until", "while"} /\ i = 2 /\ Width(w) = 3 /\ OffPos(w) = 3
                         \/ w = "of" /\ i = 4 /\ Width(w) = 6 /\ OffPos(w) = 5
  /\ op = "leave" => w = "leave" /\ i = 1
  /\ op = "(semicolon)" => w \in {"exit", "semicolon"} /\ i = 1

(* Each instruction comes from one of these words. *)
LEMMA OpsOfWords ==
  ASSUME NEW w \in Words, NEW i \in 1..Width(w), i # OffPos(w)
  PROVE  OpTable(w, i, Cells(w)[i])
<1>1. \/ w \in {"do", "?do"} \/ w = "of" \/ w = "+loop" \/ w \in {"if", "until", "while"} \/ w = "loop"
      \/ w \in {"case", "endcase"}
      \/ w \in {"else", "endof", "repeat", "again", "tail-recurse"}
      \/ w \in {"leave", "exit", "semicolon"} \/ w \in {"then", "begin"}
  BY DEF Words, Openers, Checked, Plain
<1>2. CASE w \in {"do", "?do"}
  <2>1. /\ w = "do" => Cells(w) = <<"push", "push", "(do)", "offset">>
        /\ w = "?do" => Cells(w) = <<"push", "push", "(?do)", "offset">>
        /\ Width(w) = 4 /\ OffPos(w) = 4
    BY <1>2 DEF Width, Cells, OffPos
  <2>2. i \in {1, 2, 3}
    BY <2>1
  <2> QED  BY <2>1, <2>2, <1>2 DEF OpTable
<1>3. CASE w = "of"
  <2>1. Cells(w) = <<"push", "over", "=", "(?branch)", "offset", "drop">> /\ Width(w) = 6 /\ OffPos(w) = 5
    BY <1>3 DEF Width, Cells, OffPos
  <2>2. i \in {1, 2, 3, 4, 6}
    BY <2>1
  <2> QED  BY <2>1, <2>2, <1>3 DEF OpTable
<1>4. CASE w = "+loop"
  <2>1. Cells(w) = <<"push", "(+loop)", "offset">> /\ Width(w) = 3 /\ OffPos(w) = 3
    BY <1>4 DEF Width, Cells, OffPos
  <2>2. i \in {1, 2}
    BY <2>1
  <2> QED  BY <2>1, <2>2, <1>4 DEF OpTable
<1>5. CASE w \in {"if", "until", "while"}
  <2>1. Cells(w) = <<"push", "(?branch)", "offset">> /\ Width(w) = 3 /\ OffPos(w) = 3
    BY <1>5 DEF Width, Cells, OffPos
  <2>2. i \in {1, 2}
    BY <2>1
  <2> QED  BY <2>1, <2>2, <1>5 DEF OpTable
<1>6. CASE w = "loop"
  <2>1. Cells(w) = <<"(loop)", "offset">> /\ Width(w) = 2 /\ OffPos(w) = 2
    BY <1>6 DEF Width, Cells, OffPos
  <2>2. i = 1
    BY <2>1
  <2> QED  BY <2>1, <2>2, <1>6 DEF OpTable
<1>7. CASE w \in {"case", "endcase"}
  <2>1. /\ w = "case" => Cells(w) = <<"push">>
        /\ w = "endcase" => Cells(w) = <<"drop">>
        /\ Width(w) = 1
    BY <1>7 DEF Width, Cells
  <2>2. i = 1
    BY <2>1
  <2> QED  BY <2>1, <2>2, <1>7 DEF OpTable
<1>8. CASE w \in {"else", "endof", "repeat", "again", "tail-recurse"}
  <2>1. Cells(w) = <<"(branch)", "offset">> /\ Width(w) = 2 /\ OffPos(w) = 2
    BY <1>8 DEF Width, Cells, OffPos
  <2>2. i = 1
    BY <2>1
  <2> QED  BY <2>1, <2>2, <1>8 DEF OpTable
<1>9. CASE w \in {"leave", "exit", "semicolon"}
  <2>1. /\ w = "leave" => Cells(w) = <<"leave">>
        /\ w \in {"exit", "semicolon"} => Cells(w) = <<"(semicolon)">>
        /\ Width(w) = 1
    BY <1>9 DEF Width, Cells
  <2>2. i = 1
    BY <2>1
  <2> QED  BY <2>1, <2>2, <1>9 DEF OpTable
<1>10. CASE w \in {"then", "begin"}
  <2>1. Width(w) = 0
    BY <1>10 DEF Width, Cells
  <2> QED  BY <2>1
<1> QED  BY <1>1, <1>2, <1>3, <1>4, <1>5, <1>6, <1>7, <1>8, <1>9, <1>10

(* The instruction at the machine's pointer. *)
LEMMA OpHere ==
  ASSUME NEW s, NEW st, NEW C, Ready(s, st, C), NEW k, NEW i, NEW a, NEW r, NEW d, NEW b,
         InWord(s, st, k, i, a, r, d, b)
  PROVE  OpTable(s[k], i, C[a].op) /\ k \in 1..Len(s) /\ s[k] \in Words
<1>1. k \in 1..Len(s) /\ i \in 1..Width(s[k]) /\ i # OffPos(s[k]) /\ a = st[k] + i - 1
  BY DEF InWord
<1>2. s[k] \in Words /\ Layout(s, st, C)
  BY <1>1, ReadyTypes DEF Ready
<1>3. C[a].op = Cells(s[k])[i]
  BY <1>1, <1>2 DEF Layout
<1>4. OpTable(s[k], i, Cells(s[k])[i])
  BY <1>1, <1>2, OpsOfWords
<1> QED  BY <1>1, <1>2, <1>3, <1>4

FalsePartOf(s, k) ==
  LET elses == {j \in k + 1..EndOf(s, k) - 1 : s[j] = "else" /\ Lev(s, j) = Lev(s, k)}
  IN  IF elses = {} THEN EndOf(s, k) ELSE Min(elses)

SuccessorOf(s, k, flag) ==
  CASE s[k] = "if" /\ ~flag -> FalsePartOf(s, k) + 1
    [] s[k] \in {"else", "endof"} -> EndOf(s, k) + 1
    [] s[k] = "?do" /\ flag -> EndOf(s, k) + 1
    [] s[k] \in {"of", "while"} /\ ~flag -> EndOf(s, k) + 1
    [] s[k] = "until" /\ ~flag -> BeginOf(s, k) + 1
    [] s[k] \in {"loop", "+loop"} /\ flag -> BeginOf(s, k) + 1
    [] s[k] \in {"repeat", "again"} -> BeginOf(s, k) + 1
    [] s[k] = "leave" -> EndOf(s, Max(LoopsOf(s, Opn(s, k)))) + 1
    [] s[k] = "tail-recurse" -> 1
    [] OTHER -> k + 1

(* A step from word k, at address a, stays in the word or goes to its       *)
(* successor.                                                               *)
Goes(s, st, k, a, a2, b2) == \/ a2 > a /\ WordIs(st, a2) = k
                             \/ a2 = st[SuccessorOf(s, k, b2)]
Steps(s, st, k, a, a2, r2, d2, b2) == /\ Running(s, st, a2, r2, d2, b2)
                                      /\ Goes(s, st, k, a, a2, b2)

(* A step to a later cell of the same word. *)
LEMMA Inner ==
  ASSUME NEW s, NEW st, NEW C, Ready(s, st, C), NEW k \in 1..Len(s), NEW i \in Nat, NEW r,
         NEW a, a = st[k] + i - 1, NEW i2 \in Nat, i < i2, i2 \in 1..Width(s[k]), i2 # OffPos(s[k]),
         Framed(s, st, r, Opn(s, k - 1)), NEW a2, a2 = st[k] + i2 - 1,
         NEW d2, d2 = NetOf(s, Opn(s, k - 1)) + Held(s[k], i2),
         NEW b2, s[k] = "of" /\ i2 = 6 => b2 = TRUE
  PROVE  Steps(s, st, k, a, a2, r, d2, b2)
<1>1. st[k] \in Nat /\ Width(s[k]) \in Nat /\ s[k] \in Words
  BY ReadyTypes
<1>2. Width(s[k]) <= 6
  <2>1. Width(s[k]) \in 0..6
    BY <1>1, WidthAtMost
  <2> QED  BY <2>1
<1>3. i2 \in 1..6
  BY <1>1, <1>2
<1>4. InWord(s, st, k, i2, a2, r, d2, b2)
  BY DEF InWord
<1>5. Running(s, st, a2, r, d2, b2)
  BY <1>3, <1>4 DEF Running
<1>6. a2 \in Int /\ st[k] <= a2 /\ a2 < st[k] + Width(s[k]) /\ a2 > a
  BY <1>1
<1>7. WordIs(st, a2) = k
  BY <1>6, WordOf
<1> QED  BY <1>5, <1>6, <1>7 DEF Steps, Goes

(* A machine in front of a word, with the frames and the values of that word, *)
(* is where it should be.                                                     *)
LEMMA Arrives ==
  ASSUME NEW s, NEW st, NEW C, Ready(s, st, C), NEW x \in 1..Len(s), NEW r, NEW d, NEW b,
         Framed(s, st, r, Opn(s, x - 1)), d = NetOf(s, Opn(s, x - 1))
  PROVE  Running(s, st, st[x], r, d, b)
<1>1. PICK k \in x..Len(s) : /\ st[k] = st[x] /\ Width(s[k]) > 0
                             /\ Alike(s, Opn(s, k - 1), Opn(s, x - 1))
  BY NextWord
<1>2. Len(s) \in Nat /\ Complete(s)
  BY ReadyTypes
<1>3. k \in 1..Len(s)
  BY <1>2
<1>4. s[k] \in Words /\ st[k] \in Nat /\ Width(s[k]) \in Nat
  BY <1>3, ReadyTypes
<1>5. OffPos(s[k]) # 1 /\ 1 \in 1..Width(s[k]) /\ 1 \in 1..6
  BY <1>1, <1>4, WidthAtMost
<1>6. /\ LoopsOf(s, Opn(s, k - 1)) = LoopsOf(s, Opn(s, x - 1))
      /\ NetOf(s, Opn(s, k - 1)) = NetOf(s, Opn(s, x - 1))
  BY <1>1 DEF Alike
<1>7. Framed(s, st, r, Opn(s, k - 1))
  BY <1>6, FramedAlike
<1>8. NetOf(s, Opn(s, k - 1)) \in Int
  <2>1. k - 1 \in Nat
    BY <1>3
  <2>2. IsFiniteSet(Opn(s, k - 1))
    BY <2>1, OpenFinite
  <2>3. k \notin Opn(s, k - 1)
    <3>1. Opn(s, k - 1) \subseteq 1..k - 1
      BY <2>1, OpenFinite
    <3> QED  BY <3>1, <1>3
  <2> QED  BY <2>2, <2>3, Around
<1>9. Held(s[k], 1) = 0
  BY HeldIs
<1>10. st[x] = st[k] + 1 - 1
  BY <1>1, <1>4
<1>11. d = NetOf(s, Opn(s, k - 1)) + Held(s[k], 1)
  BY <1>6, <1>8, <1>9
<1>12. InWord(s, st, k, 1, st[x], r, d, b)
  BY <1>3, <1>5, <1>7, <1>10, <1>11 DEF InWord
<1> QED  BY <1>3, <1>5, <1>12 DEF Running

(* A step behind the last cell of a word goes on with the next word. *)
LEMMA Passes ==
  ASSUME NEW s, NEW st, NEW C, Ready(s, st, C), NEW k \in 1..Len(s), s[k] # "semicolon",
         NEW a, NEW a2, a2 = st[k] + Width(s[k]), NEW r2, Framed(s, st, r2, Opn(s, k)),
         NEW d2, d2 = NetOf(s, Opn(s, k)), NEW b2, SuccessorOf(s, k, b2) = k + 1
  PROVE  Steps(s, st, k, a, a2, r2, d2, b2)
<1>1. k + 1 \in 1..Len(s) /\ st[k] + Width(s[k]) = st[k + 1]
  BY Through
<1>2. (k + 1) - 1 = k
  OBVIOUS
<1> DEFINE x == k + 1
<1>3. x \in 1..Len(s) /\ Framed(s, st, r2, Opn(s, x - 1)) /\ d2 = NetOf(s, Opn(s, x - 1))
  BY <1>1, <1>2
<1> HIDE DEF x
<1>4. Running(s, st, st[x], r2, d2, b2)
  BY <1>3, Arrives
<1>5. a2 = st[x] /\ SuccessorOf(s, k, b2) = x
  BY <1>1 DEF x
<1> QED  BY <1>4, <1>5 DEF Steps, Goes

(* A step to another word. *)
LEMMA JumpsTo ==
  ASSUME NEW s, NEW st, NEW C, Ready(s, st, C), NEW a, NEW a2, NEW k, NEW x \in 1..Len(s), a2 = st[x],
         NEW r2, Framed(s, st, r2, Opn(s, x - 1)), NEW d2, d2 = NetOf(s, Opn(s, x - 1)),
         NEW b2, SuccessorOf(s, k, b2) = x
  PROVE  Steps(s, st, k, a, a2, r2, d2, b2)
<1>1. Running(s, st, st[x], r2, d2, b2)
  BY Arrives
<1> QED  BY <1>1 DEF Steps, Goes

(* Where the branch compiled by word k leads. *)
LEMMA BranchLeads ==
  ASSUME NEW s, NEW st, NEW C, Ready(s, st, C), NEW k \in 1..Len(s), OffPos(s[k]) > 0,
         Taken(s, k) \in 1..Len(s)
  PROVE  Off(s, st, k) + C[Off(s, st, k)].offset = st[Taken(s, k)]
<1>1. Complete(s) /\ Layout(s, st, C) /\ Resolved(s, st, C) /\ Len(st) = Len(s) /\ Len(s) \in Nat
  BY ReadyTypes DEF Ready
<1>2. Settled(s, k)
  BY <1>1, AllSettled
<1>3. C[Off(s, st, k)].offset = Place(st, C, Taken(s, k)) - Off(s, st, k)
  BY <1>1, <1>2 DEF Resolved
<1>4. Place(st, C, Taken(s, k)) = st[Taken(s, k)]
  BY <1>1 DEF Place
<1>5. Off(s, st, k) \in Int
  BY <1>1, OffInCode
<1>6. st[Taken(s, k)] \in Nat
  BY ReadyTypes
<1> DEFINE o == Off(s, st, k) p == st[Taken(s, k)] q == C[Off(s, st, k)].offset
<1>7. o \in Int /\ p \in Int /\ q = p - o
  BY <1>3, <1>4, <1>5, <1>6
<1> HIDE DEF o, p, q
<1>8. o + q = p
  BY <1>7
<1> QED  BY <1>8 DEF o, p, q

(* The values of the cases around a word are counted by a number. *)
LEMMA NetType ==
  ASSUME NEW s, NEW p \in Nat
  PROVE  NetOf(s, Opn(s, p)) \in Int
<1>1. IsFiniteSet(Opn(s, p)) /\ p + 1 \notin Opn(s, p)
  <2>1. IsFiniteSet(Opn(s, p)) /\ Opn(s, p) \subseteq 1..p
    BY OpenFinite
  <2> QED  BY <2>1
<1> QED  BY <1>1, Around

InFacts(s, st, k, i, a, r, d, b) ==
  /\ k \in 1..Len(s) /\ k - 1 \in Nat /\ s[k] \in Words /\ st[k] \in Nat /\ a = st[k] + i - 1
  /\ Framed(s, st, r, Opn(s, k - 1)) /\ NetOf(s, Opn(s, k - 1)) \in Int
  /\ d = NetOf(s, Opn(s, k - 1)) + Held(s[k], i) /\ i \in 1..Width(s[k])
  /\ s[k] = "of" /\ i = 6 => b = TRUE

(* What is known inside a word. *)
LEMMA InWordIs ==
  ASSUME NEW s, NEW st, NEW C, Ready(s, st, C), NEW k, NEW i, NEW a, NEW r, NEW d, NEW b,
         InWord(s, st, k, i, a, r, d, b)
  PROVE  InFacts(s, st, k, i, a, r, d, b)
<1>1. /\ k \in 1..Len(s) /\ a = st[k] + i - 1 /\ Framed(s, st, r, Opn(s, k - 1)) /\ i \in 1..Width(s[k])
      /\ d = NetOf(s, Opn(s, k - 1)) + Held(s[k], i)
      /\ s[k] = "of" /\ i = 6 => b = TRUE
  BY DEF InWord
<1>2. s[k] \in Words /\ st[k] \in Nat
  BY <1>1, ReadyTypes
<1>3. k - 1 \in Nat
  BY <1>1
<1>4. NetOf(s, Opn(s, k - 1)) \in Int
  BY <1>3, NetType
<1> QED  BY <1>1, <1>2, <1>3, <1>4 DEF InFacts

(* From a cell to the next instruction of the same word. *)
LEMMA Within ==
  ASSUME NEW s, NEW st, NEW C, Ready(s, st, C), NEW k, NEW i \in Nat, NEW a, NEW r, NEW d, NEW b,
         InWord(s, st, k, i, a, r, d, b),
         NEW i2 \in Nat, i < i2, i2 <= Width(s[k]), i2 # OffPos(s[k]),
         NEW h \in Int, Held(s[k], i2) = Held(s[k], i) + h, Held(s[k], i) \in Int,
         NEW b2, s[k] = "of" /\ i2 = 6 => b2 = TRUE
  PROVE  Steps(s, st, k, a, a + (i2 - i), r, d + h, b2)
<1>f. InFacts(s, st, k, i, a, r, d, b)
  BY InWordIs
<1>1. /\ k \in 1..Len(s) /\ st[k] \in Nat /\ a = st[k] + i - 1 /\ s[k] \in Words
      /\ Framed(s, st, r, Opn(s, k - 1)) /\ NetOf(s, Opn(s, k - 1)) \in Int
      /\ d = NetOf(s, Opn(s, k - 1)) + Held(s[k], i) /\ i \in 1..Width(s[k])
  BY <1>f DEF InFacts
<1> DEFINE N == NetOf(s, Opn(s, k - 1)) H == Held(s[k], i) H2 == Held(s[k], i2) p == st[k]
           a2 == a + (i2 - i) d2 == d + h
<1>2. a2 = st[k] + i2 - 1
  <2>1. p \in Nat /\ a = p + i - 1
    BY <1>1
  <2> HIDE DEF p
  <2>2. a2 = p + i2 - 1
    BY <2>1
  <2> QED  BY <2>2 DEF p
<1>3. d2 = N + H2
  <2>1. N \in Int /\ H \in Int /\ H2 = H + h /\ d = N + H
    BY <1>1
  <2> HIDE DEF N, H, H2
  <2> QED  BY <2>1
<1>4. i2 \in 1..Width(s[k])
  <2>0. s[k] \in Words
    BY <1>1
  <2>1. Width(s[k]) \in Nat
    BY <2>0, WidthAtMost
  <2> QED  BY <2>1
<1> HIDE DEF a2, d2
<1>5. Steps(s, st, k, a, a2, r, d2, b2)
  BY <1>1, <1>2, <1>3, <1>4, Inner
<1> QED  BY <1>5 DEF a2, d2

(* From the last cell of a word to the next word. *)
LEMMA PastEnd ==
  ASSUME NEW s, NEW st, NEW C, Ready(s, st, C), NEW k, NEW i \in Nat, NEW a, NEW r, NEW d, NEW b,
         InWord(s, st, k, i, a, r, d, b), s[k] # "semicolon",
         NEW e \in Int, i + e = Width(s[k]) + 1,
         NEW r2, Framed(s, st, r2, Opn(s, k)),
         NEW d2, d2 = NetOf(s, Opn(s, k)), NEW b2, SuccessorOf(s, k, b2) = k + 1
  PROVE  Steps(s, st, k, a, a + e, r2, d2, b2)
<1>f. InFacts(s, st, k, i, a, r, d, b)
  BY InWordIs
<1>1. k \in 1..Len(s) /\ st[k] \in Nat /\ a = st[k] + i - 1 /\ s[k] \in Words
  BY <1>f DEF InFacts
<1>2. Width(s[k]) \in Nat
  BY <1>1, WidthAtMost
<1>3. a + e = st[k] + Width(s[k])
  <2> DEFINE p == st[k] w == Width(s[k])
  <2>1. p \in Nat /\ w \in Nat /\ a = p + i - 1 /\ i + e = w + 1
    BY <1>1, <1>2
  <2> HIDE DEF p, w
  <2>2. a + e = p + w
    BY <2>1
  <2> QED  BY <2>2 DEF p, w
<1> QED  BY <1>1, <1>3, Passes

(* A program's value, or over. *)
LEMMA PushSteps ==
  ASSUME NEW s, NEW st, NEW C, Ready(s, st, C), NEW k, NEW i \in Nat, NEW a, NEW r, NEW d, NEW b,
         InWord(s, st, k, i, a, r, d, b), C[a].op \in {"push", "over"}
  PROVE  Steps(s, st, k, a, a + 1, r, d + 1, b)
<1>f. InFacts(s, st, k, i, a, r, d, b)
  BY InWordIs
<1>1. OpTable(s[k], i, C[a].op)
  BY OpHere
<1>2. \/ s[k] \in {"do", "?do"} /\ i \in {1, 2} /\ Width(s[k]) = 4 /\ OffPos(s[k]) = 4
      \/ s[k] \in {"+loop", "if", "until", "while"} /\ i = 1 /\ Width(s[k]) = 3 /\ OffPos(s[k]) = 3
      \/ s[k] = "of" /\ i \in {1, 2} /\ Width(s[k]) = 6 /\ OffPos(s[k]) = 5
      \/ s[k] = "case" /\ i = 1 /\ Width(s[k]) = 1
  BY <1>1 DEF OpTable
<1>3. CASE Width(s[k]) > 1
  <2>1. Held(s[k], i + 1) = Held(s[k], i) + 1 /\ Held(s[k], i) \in Int
    <3>1. CASE i = 1
      BY <3>1, HeldIs
    <3>2. CASE i = 2
      BY <3>2, HeldIs
    <3> QED  BY <1>2, <3>1, <3>2
  <2> DEFINE i2 == i + 1
  <2>2. i2 \in Nat /\ i < i2 /\ i2 <= Width(s[k]) /\ i2 # OffPos(s[k]) /\ i2 # 6
    BY <1>2, <1>3
  <2>3. Held(s[k], i2) = Held(s[k], i) + 1
    BY <2>1
  <2>5. i2 - i = 1 /\ 1 \in Int
    OBVIOUS
  <2>6. s[k] = "of" /\ i2 = 6 => b = TRUE
    BY <2>2
  <2> HIDE DEF i2
  <2>4. Steps(s, st, k, a, a + (i2 - i), r, d + 1, b)
    BY <2>1, <2>2, <2>3, <2>5, <2>6, Within, Zenon
  <2> QED  BY <2>5, <2>4
<1>4. CASE s[k] = "case" /\ i = 1 /\ Width(s[k]) = 1
  <2>1. /\ k \in 1..Len(s) /\ k - 1 \in Nat /\ Framed(s, st, r, Opn(s, k - 1))
        /\ NetOf(s, Opn(s, k - 1)) \in Int /\ d = NetOf(s, Opn(s, k - 1)) + Held(s[k], i)
    BY <1>f DEF InFacts
  <2>2. Complete(s)
    BY DEF Ready
  <2>3. k \notin Opn(s, k - 1) /\ Opn(s, k) = Opn(s, k - 1) \cup {k}
    <3>1. s[k] \in Opening
      BY <1>4 DEF Opening, Openers
    <3> QED  BY <2>1, <2>2, <3>1, OpeningLeads
  <2>4. IsFiniteSet(Opn(s, k - 1))
    BY <2>1, OpenFinite
  <2>5. /\ LoopsOf(s, Opn(s, k)) = LoopsOf(s, Opn(s, k - 1))
        /\ NetOf(s, Opn(s, k)) = NetOf(s, Opn(s, k - 1)) + 1
    <3>1. /\ LoopsOf(s, Opn(s, k - 1) \cup {k}) = LoopsOf(s, Opn(s, k - 1))
          /\ NetOf(s, Opn(s, k - 1) \cup {k}) = NetOf(s, Opn(s, k - 1)) + 1
      BY <2>3, <2>4, <1>4, CaseWith
    <3> QED  BY <3>1, <2>3
  <2>6. Framed(s, st, r, Opn(s, k))
    BY <2>1, <2>5, FramedAlike
  <2>7. d + 1 = NetOf(s, Opn(s, k))
    <3>1. Held(s[k], i) = 0
      BY <1>4, HeldIs
    <3> QED  BY <3>1, <2>1, <2>5
  <2>8. SuccessorOf(s, k, b) = k + 1
    BY <1>4 DEF SuccessorOf
  <2>9. s[k] # "semicolon" /\ i + 1 = Width(s[k]) + 1
    BY <1>4
  <2> QED  BY <2>6, <2>7, <2>8, <2>9, PastEnd
<1> QED  BY <1>2, <1>3, <1>4

(* = takes the value of the case and that of the of; drop takes the former. *)
LEMMA ConsumeSteps ==
  ASSUME NEW s, NEW st, NEW C, Ready(s, st, C), NEW k, NEW i \in Nat, NEW a, NEW r, NEW d, NEW b,
         InWord(s, st, k, i, a, r, d, b), C[a].op \in {"drop", "="}
  PROVE  Steps(s, st, k, a, a + 1, r, d - 1, b)
<1>f. InFacts(s, st, k, i, a, r, d, b)
  BY InWordIs
<1>1. OpTable(s[k], i, C[a].op)
  BY OpHere
<1>2. \/ s[k] = "of" /\ i = 3 /\ Width(s[k]) = 6 /\ OffPos(s[k]) = 5
      \/ s[k] = "of" /\ i = 6 /\ Width(s[k]) = 6
      \/ s[k] = "endcase" /\ i = 1 /\ Width(s[k]) = 1
  BY <1>1 DEF OpTable
<1>0. /\ k \in 1..Len(s) /\ k - 1 \in Nat /\ Framed(s, st, r, Opn(s, k - 1))
      /\ NetOf(s, Opn(s, k - 1)) \in Int /\ d = NetOf(s, Opn(s, k - 1)) + Held(s[k], i)
      /\ s[k] = "of" /\ i = 6 => b = TRUE
  BY <1>f DEF InFacts
<1>c. Complete(s) /\ Len(s) \in Nat
  BY ReadyTypes
<1>3. CASE s[k] = "of" /\ i = 3 /\ Width(s[k]) = 6 /\ OffPos(s[k]) = 5
  <2>1. Held(s[k], 4) = Held(s[k], i) + (-1) /\ Held(s[k], i) \in Int
    BY <1>3, HeldIs
  <2>2. i < 4 /\ 4 <= Width(s[k]) /\ 4 # OffPos(s[k]) /\ 4 # 6 /\ -1 \in Int
    BY <1>3
  <2>3. Steps(s, st, k, a, a + (4 - i), r, d + (-1), b)
    BY <2>1, <2>2, Within
  <2>4. 4 - i = 1 /\ d + (-1) = d - 1
    <3>1. d \in Int
      BY <2>1, <1>0
    <3> QED  BY <1>3, <3>1
  <2> QED  BY <2>3, <2>4
<1>4. CASE s[k] = "of" /\ i = 6 /\ Width(s[k]) = 6
  <2>1. k \notin Opn(s, k - 1) /\ Opn(s, k) = Opn(s, k - 1) \cup {k}
    <3>1. s[k] \in Opening
      BY <1>4 DEF Opening, Openers
    <3> QED  BY <1>0, <1>c, <3>1, OpeningLeads
  <2>2. IsFiniteSet(Opn(s, k - 1))
    BY <1>0, OpenFinite
  <2>3. /\ LoopsOf(s, Opn(s, k)) = LoopsOf(s, Opn(s, k - 1))
        /\ NetOf(s, Opn(s, k)) = NetOf(s, Opn(s, k - 1)) - 1
    <3>1. /\ LoopsOf(s, Opn(s, k - 1) \cup {k}) = LoopsOf(s, Opn(s, k - 1))
          /\ NetOf(s, Opn(s, k - 1) \cup {k}) = NetOf(s, Opn(s, k - 1)) - 1
      BY <2>1, <2>2, <1>4, OfWith
    <3> QED  BY <3>1, <2>1
  <2>4. Framed(s, st, r, Opn(s, k))
    BY <1>0, <2>3, FramedAlike
  <2>5. d - 1 = NetOf(s, Opn(s, k))
    <3>1. Held(s[k], i) = 0
      BY <1>4, HeldIs
    <3> QED  BY <3>1, <1>0, <2>3
  <2>6. b = TRUE
    BY <1>0, <1>4
  <2>7. SuccessorOf(s, k, b) = k + 1
    BY <1>4, <2>6 DEF SuccessorOf
  <2>8. s[k] # "semicolon" /\ i + 1 = Width(s[k]) + 1
    BY <1>4
  <2> QED  BY <2>4, <2>5, <2>7, <2>8, PastEnd
<1>5. CASE s[k] = "endcase" /\ i = 1 /\ Width(s[k]) = 1
  <2> DEFINE t == Top(s, k - 1)
  <2>1. s[k] \in Closing
    BY <1>5 DEF Closing, Checked
  <2>2. t \in 1..k - 1 /\ s[t] \in OpenerOf(s[k]) /\ t \notin Opn(s, k) /\ Opn(s, k - 1) = Opn(s, k) \cup {t}
    BY <1>0, <1>c, <2>1, ClosingLeads
  <2>3. s[t] = "case"
    BY <1>5, <2>2 DEF OpenerOf
  <2> HIDE DEF t
  <2>4. k \in Nat /\ IsFiniteSet(Opn(s, k))
    BY <1>0, OpenFinite
  <2>5. /\ LoopsOf(s, Opn(s, k - 1)) = LoopsOf(s, Opn(s, k))
        /\ NetOf(s, Opn(s, k - 1)) = NetOf(s, Opn(s, k)) + 1 /\ NetOf(s, Opn(s, k)) \in Int
    <3>1. /\ LoopsOf(s, Opn(s, k) \cup {t}) = LoopsOf(s, Opn(s, k))
          /\ NetOf(s, Opn(s, k) \cup {t}) = NetOf(s, Opn(s, k)) + 1 /\ NetOf(s, Opn(s, k)) \in Int
      BY <2>2, <2>3, <2>4, CaseWith
    <3> QED  BY <3>1, <2>2
  <2>6. Framed(s, st, r, Opn(s, k))
    BY <1>0, <2>5, FramedAlike
  <2>7. d - 1 = NetOf(s, Opn(s, k))
    <3>1. Held(s[k], i) = 0
      BY <1>5, HeldIs
    <3> QED  BY <3>1, <1>0, <2>5
  <2>8. SuccessorOf(s, k, b) = k + 1
    BY <1>5 DEF SuccessorOf
  <2>9. s[k] # "semicolon" /\ i + 1 = Width(s[k]) + 1
    BY <1>5
  <2> QED  BY <2>6, <2>7, <2>8, <2>9, PastEnd
<1> QED  BY <1>2, <1>3, <1>4, <1>5

(* The branch at the end of a word's code leads to word x. *)
LEMMA Branches ==
  ASSUME NEW s, NEW st, NEW C, Ready(s, st, C), NEW k, NEW i \in Nat, NEW a, NEW r, NEW d, NEW b,
         InWord(s, st, k, i, a, r, d, b), i + 1 = OffPos(s[k]),
         NEW x \in 1..Len(s), Taken(s, k) = x,
         NEW r2, Framed(s, st, r2, Opn(s, x - 1)), NEW d2, d2 = NetOf(s, Opn(s, x - 1)),
         NEW b2, SuccessorOf(s, k, b2) = x
  PROVE  Steps(s, st, k, a, (a + 1) + C[a + 1].offset, r2, d2, b2)
<1>f. InFacts(s, st, k, i, a, r, d, b)
  BY InWordIs
<1>1. k \in 1..Len(s) /\ st[k] \in Nat /\ a = st[k] + i - 1
  BY <1>f DEF InFacts
<1>2. OffPos(s[k]) > 0
  OBVIOUS
<1>3. a + 1 = Off(s, st, k)
  <2> DEFINE p == st[k] o == OffPos(s[k])
  <2>1. p \in Nat /\ a = p + i - 1 /\ i + 1 = o
    BY <1>1
  <2> HIDE DEF p, o
  <2>2. a + 1 = p + o - 1
    BY <2>1
  <2> QED  BY <2>2 DEF p, o, Off
<1>4. Off(s, st, k) + C[Off(s, st, k)].offset = st[x]
  BY <1>1, <1>2, BranchLeads
<1>5. (a + 1) + C[a + 1].offset = st[x]
  BY <1>3, <1>4
<1> QED  BY <1>5, JumpsTo

(* Frames and depth are right wherever loops and cases are the same. *)
LEMMA AlikeAt ==
  ASSUME NEW s, NEW st, NEW r, NEW d, NEW P, NEW Q, Alike(s, P, Q), Framed(s, st, r, Q), d = NetOf(s, Q)
  PROVE  Framed(s, st, r, P) /\ d = NetOf(s, P)
<1>1. LoopsOf(s, Q) = LoopsOf(s, P) /\ NetOf(s, P) = NetOf(s, Q)
  BY DEF Alike
<1>2. Framed(s, st, r, P)
  BY <1>1, FramedAlike
<1> QED  BY <1>1, <1>2

(* An of is inside a case. *)
LEMMA OfInCase ==
  ASSUME NEW s, Legal(s), NEW k \in 0..Len(s), NEW o \in Opn(s, k), s[o] = "of"
  PROVE  CasesIn(s, k) # {}
<1>1. Balanced(s) /\ Len(s) \in Nat
  BY DEF Legal, Balanced
<1>2. k \in Nat
  BY <1>1
<1>3. o \in 1..k /\ \A x \in 1..o : x \in Opn(s, k) <=> x \in Opn(s, o)
  BY <1>2, OpenPrefix
<1>4. o \in 1..Len(s) /\ o \in Nat /\ o > 0 /\ o - 1 \in Nat /\ o - 1 <= Len(s)
  BY <1>3, <1>1
<1>5. LegalAt(s, o) /\ s[o] \in Checked /\ s[o] \in Opening
  BY <1>4 DEF Legal, Checked, Opening
<1>6. Opn(s, o - 1) # {} /\ s[Top(s, o - 1)] \in OpenerOf(s[o])
  BY <1>5 DEF LegalAt
<1> DEFINE t == Top(s, o - 1)
<1>7. t \in Opn(s, o - 1) /\ t \in 1..o - 1
  BY <1>1, <1>4, <1>6, TopIsDeepest
<1>8. s[t] = "case"
  BY <1>6 DEF OpenerOf
<1> HIDE DEF t
<1>9. Opn(s, o) = Opn(s, o - 1) \cup {o}
  BY <1>4, <1>5, OpenStep
<1>10. t \in Opn(s, k)
  <2>1. t \in 1..o /\ t \in Opn(s, o)
    BY <1>4, <1>7, <1>9
  <2> QED  BY <2>1, <1>3
<1> QED  BY <1>8, <1>10 DEF CasesIn

(* exit, tail-recurse and the end have no loop and no case around them. *)
LEMMA NothingAround ==
  ASSUME NEW s, Complete(s), NEW k \in 1..Len(s), s[k] \in {"exit", "tail-recurse", "semicolon"}
  PROVE  /\ LoopsOf(s, Opn(s, k - 1)) = {} /\ Alike(s, Opn(s, 0), Opn(s, k - 1))
<1>1. Legal(s) /\ Len(s) \in Nat
  BY DEF Complete, Legal, Balanced
<1>2. LegalAt(s, k) /\ k - 1 \in 0..Len(s)
  BY <1>1 DEF Legal
<1> DEFINE O == Opn(s, k - 1)
<1>3. LoopsOf(s, O) = {} /\ {j \in O : s[j] = "case"} = {}
  <2>1. CASE s[k] = "semicolon"
    BY <2>1, <1>2 DEF LegalAt, LoopsOf
  <2>2. CASE s[k] \in {"exit", "tail-recurse"}
    BY <2>2, <1>2 DEF LegalAt, LoopsOf, LoopsIn, CasesIn
  <2> QED  BY <2>1, <2>2
<1>4. {j \in O : s[j] = "of"} = {}
  <2> SUFFICES ASSUME NEW o \in O, s[o] = "of" PROVE FALSE
    OBVIOUS
  <2>1. CasesIn(s, k - 1) # {}
    BY <1>1, <1>2, OfInCase
  <2> QED  BY <2>1, <1>3 DEF CasesIn
<1>5. Opn(s, 0) = {}
  <2>1. Opn(s, 0) \subseteq 1..0
    BY OpenFinite
  <2> QED  BY <2>1
<1>6. NetOf(s, O) = NetOf(s, Opn(s, 0)) /\ LoopsOf(s, Opn(s, 0)) = {}
  <2>1. /\ {j \in Opn(s, 0) : s[j] = "case"} = {} /\ {j \in Opn(s, 0) : s[j] = "of"} = {}
        /\ LoopsOf(s, Opn(s, 0)) = {}
    BY <1>5 DEF LoopsOf
  <2> QED  BY <2>1, <1>3, <1>4 DEF NetOf
<1> QED  BY <1>3, <1>6 DEF Alike

(* Branches ahead, that of if apart, lead behind the end of the structure. *)
LEMMA ForwardTaken ==
  ASSUME NEW s, NEW k, s[k] \in Forward, s[k] # "if"
  PROVE  Taken(s, k) = EndOf(s, k) + 1
<1>1. ~Divided(s, k)
  BY DEF Divided
<1>2. Behind(s, k) = EndOf(s, k)
  BY <1>1 DEF Behind
<1>3. Taken(s, k) = Behind(s, k) + 1
  BY DEF Taken, Forward
<1> QED  BY <1>2, <1>3

(* Branches back lead behind the word that began the loop. *)
LEMMA BackwardTaken ==
  ASSUME NEW s, NEW k, s[k] \in {"loop", "+loop", "until", "repeat", "again"}
  PROVE  Taken(s, k) = BeginOf(s, k) + 1
BY DEF Taken, Forward

(* Behind a word at m, in front of the next. *)
LEMMA BehindWord ==
  ASSUME NEW s, NEW st, NEW r, NEW d, NEW m \in 1..Len(s) - 1, Len(s) \in Nat,
         Framed(s, st, r, Opn(s, m)), d = NetOf(s, Opn(s, m))
  PROVE  /\ m + 1 \in 1..Len(s)
         /\ Framed(s, st, r, Opn(s, (m + 1) - 1)) /\ d = NetOf(s, Opn(s, (m + 1) - 1))
<1>1. (m + 1) - 1 = m /\ m + 1 \in 1..Len(s)
  OBVIOUS
<1> QED  BY <1>1

(* A branch that leads behind word m is a step to the word behind m. *)
LEMMA BranchesBehind ==
  ASSUME NEW s, NEW st, NEW C, Ready(s, st, C), NEW k, NEW i \in Nat, NEW a, NEW r, NEW d, NEW b,
         InWord(s, st, k, i, a, r, d, b), i + 1 = OffPos(s[k]),
         NEW m \in 1..Len(s) - 1, Taken(s, k) = m + 1,
         NEW r2, Framed(s, st, r2, Opn(s, m)), NEW d2, d2 = NetOf(s, Opn(s, m)),
         NEW b2, SuccessorOf(s, k, b2) = m + 1
  PROVE  Steps(s, st, k, a, (a + 1) + C[a + 1].offset, r2, d2, b2)
<1>1. Len(s) \in Nat
  BY ReadyTypes
<1> DEFINE x == m + 1
<1>2. x \in 1..Len(s) /\ Framed(s, st, r2, Opn(s, x - 1)) /\ d2 = NetOf(s, Opn(s, x - 1))
  BY <1>1, BehindWord
<1>3. Taken(s, k) = x /\ SuccessorOf(s, k, b2) = x
  OBVIOUS
<1> HIDE DEF x
<1> QED  BY <1>2, <1>3, Branches

(* (branch): else, endof, repeat, again and tail-recurse. *)
LEMMA BranchSteps ==
  ASSUME NEW s, NEW st, NEW C, Ready(s, st, C), NEW k, NEW i \in Nat, NEW a, NEW r, NEW d, NEW b,
         InWord(s, st, k, i, a, r, d, b), C[a].op = "(branch)"
  PROVE  Steps(s, st, k, a, (a + 1) + C[a + 1].offset, r, d, b)
<1>f. InFacts(s, st, k, i, a, r, d, b)
  BY InWordIs
<1>0. /\ k \in 1..Len(s) /\ k - 1 \in Nat /\ Framed(s, st, r, Opn(s, k - 1))
      /\ NetOf(s, Opn(s, k - 1)) \in Int /\ d = NetOf(s, Opn(s, k - 1)) + Held(s[k], i)
  BY <1>f DEF InFacts
<1>c. Complete(s) /\ Len(s) \in Nat
  BY ReadyTypes
<1>1. OpTable(s[k], i, C[a].op)
  BY OpHere
<1>2. s[k] \in {"else", "endof", "repeat", "again", "tail-recurse"} /\ i = 1 /\ i + 1 = OffPos(s[k])
  BY <1>1 DEF OpTable
<1>3. d = NetOf(s, Opn(s, k - 1))
  <2>1. Held(s[k], i) = 0
    BY <1>2, HeldIs
  <2> QED  BY <2>1, <1>0
<1>4. CASE s[k] \in {"else", "endof"}
  <2> DEFINE m == EndOf(s, k)
  <2>1. s[k] \in Continuing /\ s[k] \in Forward /\ s[k] # "if"
    BY <1>4 DEF Continuing, Forward
  <2>2. m \in k + 1..Len(s) - 1
    BY <2>1, <1>0, <1>c, ContinuingLeads
  <2>3. Alike(s, Opn(s, m), Opn(s, k - 1))
    BY <2>1, <1>0, <1>c, AlikeBehindElse
  <2>4. Taken(s, k) = m + 1
    BY <2>1, ForwardTaken
  <2>5. SuccessorOf(s, k, b) = m + 1
    BY <1>4 DEF SuccessorOf
  <2> HIDE DEF m
  <2>6. m \in 1..Len(s) - 1
    BY <2>2, <1>0, <1>c
  <2>7. Framed(s, st, r, Opn(s, m)) /\ d = NetOf(s, Opn(s, m))
    BY <2>3, <1>0, <1>3, AlikeAt
  <2> QED  BY <1>2, <2>4, <2>5, <2>6, <2>7, BranchesBehind
<1>5. CASE s[k] \in {"repeat", "again"}
  <2> DEFINE m == Top(s, k - 1)
  <2>1. s[k] \in Closing
    BY <1>5 DEF Closing, Checked
  <2>2. m \in 1..k - 1 /\ Opn(s, m) = Opn(s, k - 1) /\ BeginOf(s, k) = m
    BY <2>1, <1>0, <1>c, ClosingLeads
  <2>4. Taken(s, k) = m + 1
    BY <1>5, <2>2, BackwardTaken
  <2>5. SuccessorOf(s, k, b) = m + 1
    BY <1>5, <2>2 DEF SuccessorOf
  <2> HIDE DEF m
  <2>6. m \in 1..Len(s) - 1
    BY <2>2, <1>0, <1>c
  <2>7. Framed(s, st, r, Opn(s, m)) /\ d = NetOf(s, Opn(s, m))
    BY <2>2, <1>0, <1>3
  <2> QED  BY <1>2, <2>4, <2>5, <2>6, <2>7, BranchesBehind
<1>6. CASE s[k] = "tail-recurse"
  <2>1. Alike(s, Opn(s, 0), Opn(s, k - 1))
    BY <1>6, <1>0, <1>c, NothingAround
  <2>2. Framed(s, st, r, Opn(s, 0)) /\ d = NetOf(s, Opn(s, 0))
    BY <2>1, <1>0, <1>3, AlikeAt
  <2>3. 1 - 1 = 0 /\ 1 \in 1..Len(s)
    BY <1>0, <1>c
  <2>4. Framed(s, st, r, Opn(s, 1 - 1)) /\ d = NetOf(s, Opn(s, 1 - 1))
    BY <2>2, <2>3
  <2>5. Taken(s, k) = 1
    BY <1>6 DEF Taken, Forward
  <2>6. SuccessorOf(s, k, b) = 1
    BY <1>6 DEF SuccessorOf
  <2> QED  BY <1>2, <2>3, <2>4, <2>5, <2>6, Branches
<1> QED  BY <1>2, <1>4, <1>5, <1>6

(* The branch of if leads to the false part as the manual has it. *)
LEMMA IfTaken ==
  ASSUME NEW s, Complete(s), NEW k \in 1..Len(s), s[k] = "if"
  PROVE  Taken(s, k) = Behind(s, k) + 1 /\ FalsePartOf(s, k) = Behind(s, k)
<1>1. Taken(s, k) = Behind(s, k) + 1
  BY DEF Taken, Forward
<1>2. Parts(s, k) = {j \in k + 1..EndOf(s, k) - 1 : s[j] = "else" /\ Lev(s, j) = Lev(s, k)}
  BY AlikeBehindIf
<1>3. FalsePartOf(s, k) = IF Parts(s, k) = {} THEN EndOf(s, k) ELSE Min(Parts(s, k))
  BY <1>2 DEF FalsePartOf
<1>4. Behind(s, k) = IF Parts(s, k) = {} THEN EndOf(s, k) ELSE Min(Parts(s, k))
  BY DEF Behind, Divided
<1> QED  BY <1>1, <1>3, <1>4

(* A test that is true, or the end of a loop's frame: on behind the offset. *)
LEMMA TestSteps ==
  ASSUME NEW s, NEW st, NEW C, Ready(s, st, C), NEW k, NEW i \in Nat, NEW a, NEW r, NEW d, NEW b,
         InWord(s, st, k, i, a, r, d, b), C[a].op = "(?branch)"
  PROVE  Steps(s, st, k, a, (a + 1) + 1, r, d - 1, TRUE)
<1>f. InFacts(s, st, k, i, a, r, d, b)
  BY InWordIs
<1>0. /\ k \in 1..Len(s) /\ k - 1 \in Nat /\ Framed(s, st, r, Opn(s, k - 1))
      /\ NetOf(s, Opn(s, k - 1)) \in Int /\ d = NetOf(s, Opn(s, k - 1)) + Held(s[k], i)
      /\ st[k] \in Nat /\ a = st[k] + i - 1
  BY <1>f DEF InFacts
<1>c. Complete(s) /\ Len(s) \in Nat
  BY ReadyTypes
<1>1. OpTable(s[k], i, C[a].op)
  BY OpHere
<1>2. \/ s[k] \in {"if", "until", "while"} /\ i = 2 /\ Width(s[k]) = 3
      \/ s[k] = "of" /\ i = 4 /\ Width(s[k]) = 6 /\ OffPos(s[k]) = 5
  BY <1>1 DEF OpTable
<1>3. Held(s[k], i) = 1
  BY <1>2, HeldIs
<1>4. d \in Int /\ d - 1 = NetOf(s, Opn(s, k - 1))
  BY <1>3, <1>0
<1>5. (a + 1) + 1 = a + 2
  BY <1>0
<1>6. CASE s[k] \in {"if", "until", "while"} /\ i = 2 /\ Width(s[k]) = 3
  <2>1. Alike(s, Opn(s, k), Opn(s, k - 1))
    BY <1>6, <1>0, <1>c, AlikeThrough
  <2> DEFINE d2 == d - 1
  <2>2. d2 = NetOf(s, Opn(s, k - 1))
    BY <1>4
  <2> HIDE DEF d2
  <2>3. Framed(s, st, r, Opn(s, k)) /\ d2 = NetOf(s, Opn(s, k))
    BY <2>1, <2>2, <1>0, AlikeAt
  <2>4. SuccessorOf(s, k, TRUE) = k + 1
    BY <1>6 DEF SuccessorOf
  <2>5. s[k] # "semicolon" /\ i + 2 = Width(s[k]) + 1 /\ 2 \in Int
    BY <1>6
  <2>6. Steps(s, st, k, a, a + 2, r, d2, TRUE)
    BY <2>3, <2>4, <2>5, PastEnd
  <2> QED  BY <2>6, <1>5 DEF d2
<1>7. CASE s[k] = "of" /\ i = 4 /\ Width(s[k]) = 6 /\ OffPos(s[k]) = 5
  <2>1. Held(s[k], 6) = Held(s[k], i) + (-1) /\ Held(s[k], i) \in Int
    BY <1>7, HeldIs
  <2>2. i < 6 /\ 6 <= Width(s[k]) /\ 6 # OffPos(s[k]) /\ -1 \in Int /\ 6 \in Nat
    BY <1>7
  <2>3. s[k] = "of" /\ 6 = 6 => TRUE = TRUE
    OBVIOUS
  <2>4. Steps(s, st, k, a, a + (6 - i), r, d + (-1), TRUE)
    BY <2>1, <2>2, <2>3, Within
  <2>5. 6 - i = 2 /\ d + (-1) = d - 1
    BY <1>4, <1>7
  <2> QED  BY <2>4, <2>5, <1>5
<1> QED  BY <1>2, <1>6, <1>7

(* (?branch) on false: if, of, while and until. *)
LEMMA FailSteps ==
  ASSUME NEW s, NEW st, NEW C, Ready(s, st, C), NEW k, NEW i \in Nat, NEW a, NEW r, NEW d, NEW b,
         InWord(s, st, k, i, a, r, d, b), C[a].op = "(?branch)"
  PROVE  Steps(s, st, k, a, (a + 1) + C[a + 1].offset, r, d - 1, FALSE)
<1>f. InFacts(s, st, k, i, a, r, d, b)
  BY InWordIs
<1>0. /\ k \in 1..Len(s) /\ k - 1 \in Nat /\ Framed(s, st, r, Opn(s, k - 1))
      /\ NetOf(s, Opn(s, k - 1)) \in Int /\ d = NetOf(s, Opn(s, k - 1)) + Held(s[k], i)
      /\ st[k] \in Nat /\ a = st[k] + i - 1
  BY <1>f DEF InFacts
<1>c. Complete(s) /\ Len(s) \in Nat
  BY ReadyTypes
<1>1. OpTable(s[k], i, C[a].op)
  BY OpHere
<1>2. /\ s[k] \in {"if", "until", "while", "of"} /\ i + 1 = OffPos(s[k])
      /\ s[k] = "of" => i = 4
      /\ s[k] # "of" => i = 2
  BY <1>1 DEF OpTable
<1>3. Held(s[k], i) = 1
  BY <1>2, HeldIs
<1> DEFINE d2 == d - 1
<1>4. d2 = NetOf(s, Opn(s, k - 1))
  BY <1>3, <1>0
<1> HIDE DEF d2
<1>5. CASE s[k] = "if"
  <2> DEFINE m == Behind(s, k)
  <2>1. m \in k + 1..Len(s) - 1 /\ Alike(s, Opn(s, m), Opn(s, k - 1))
    BY <1>5, <1>0, <1>c, AlikeBehindIf
  <2>2. Taken(s, k) = m + 1 /\ FalsePartOf(s, k) = m
    BY <1>5, <1>0, <1>c, IfTaken
  <2>3. SuccessorOf(s, k, FALSE) = m + 1
    BY <1>5, <2>2 DEF SuccessorOf
  <2> HIDE DEF m
  <2>4. m \in 1..Len(s) - 1
    BY <2>1, <1>0, <1>c
  <2>5. Framed(s, st, r, Opn(s, m)) /\ d2 = NetOf(s, Opn(s, m))
    BY <2>1, <1>0, <1>4, AlikeAt
  <2>6. Steps(s, st, k, a, (a + 1) + C[a + 1].offset, r, d2, FALSE)
    BY <1>2, <2>2, <2>3, <2>4, <2>5, BranchesBehind
  <2> QED  BY <2>6 DEF d2
<1>6. CASE s[k] = "while"
  <2> DEFINE m == EndOf(s, k)
  <2>1. s[k] \in Continuing /\ s[k] \in Forward /\ s[k] # "if"
    BY <1>6 DEF Continuing, Forward
  <2>2. m \in k + 1..Len(s) - 1
    BY <2>1, <1>0, <1>c, ContinuingLeads
  <2>3. Alike(s, Opn(s, m), Opn(s, k - 1))
    BY <2>1, <1>0, <1>c, AlikeBehindElse
  <2>4. Taken(s, k) = m + 1
    BY <2>1, ForwardTaken
  <2>5. SuccessorOf(s, k, FALSE) = m + 1
    BY <1>6 DEF SuccessorOf
  <2> HIDE DEF m
  <2>6. m \in 1..Len(s) - 1
    BY <2>2, <1>0, <1>c
  <2>7. Framed(s, st, r, Opn(s, m)) /\ d2 = NetOf(s, Opn(s, m))
    BY <2>3, <1>0, <1>4, AlikeAt
  <2>8. Steps(s, st, k, a, (a + 1) + C[a + 1].offset, r, d2, FALSE)
    BY <1>2, <2>4, <2>5, <2>6, <2>7, BranchesBehind
  <2> QED  BY <2>8 DEF d2
<1>7. CASE s[k] = "until"
  <2> DEFINE m == Top(s, k - 1)
  <2>1. s[k] \in Closing
    BY <1>7 DEF Closing, Checked
  <2>2. m \in 1..k - 1 /\ Opn(s, m) = Opn(s, k - 1) /\ BeginOf(s, k) = m
    BY <2>1, <1>0, <1>c, ClosingLeads
  <2>4. Taken(s, k) = m + 1
    BY <1>7, <2>2, BackwardTaken
  <2>5. SuccessorOf(s, k, FALSE) = m + 1
    BY <1>7, <2>2 DEF SuccessorOf
  <2> HIDE DEF m
  <2>6. m \in 1..Len(s) - 1
    BY <2>2, <1>0, <1>c
  <2>7. Framed(s, st, r, Opn(s, m)) /\ d2 = NetOf(s, Opn(s, m))
    BY <2>2, <1>0, <1>4
  <2>8. Steps(s, st, k, a, (a + 1) + C[a + 1].offset, r, d2, FALSE)
    BY <1>2, <2>4, <2>5, <2>6, <2>7, BranchesBehind
  <2> QED  BY <2>8 DEF d2
<1>8. CASE s[k] = "of"
  <2> DEFINE m == EndOf(s, k)
  <2>1. s[k] \in Opening /\ s[k] \in Forward /\ s[k] # "if"
    BY <1>8 DEF Opening, Forward
  <2>2. m \in k + 1..Len(s) - 1 /\ Opn(s, m) = Opn(s, k - 1)
    BY <2>1, <1>0, <1>c, OpeningLeads
  <2>4. Taken(s, k) = m + 1
    BY <2>1, ForwardTaken
  <2>5. SuccessorOf(s, k, FALSE) = m + 1
    BY <1>8 DEF SuccessorOf
  <2> HIDE DEF m
  <2>6. m \in 1..Len(s) - 1
    BY <2>2, <1>0, <1>c
  <2>7. Framed(s, st, r, Opn(s, m)) /\ d2 = NetOf(s, Opn(s, m))
    BY <2>2, <1>0, <1>4
  <2>8. Steps(s, st, k, a, (a + 1) + C[a + 1].offset, r, d2, FALSE)
    BY <1>2, <2>4, <2>5, <2>6, <2>7, BranchesBehind
  <2> QED  BY <2>8 DEF d2
<1> QED  BY <1>2, <1>5, <1>6, <1>7, <1>8

(* What is open inside a loop, and behind it. *)
LEMMA DoTypes ==
  ASSUME NEW s, Complete(s), NEW k \in 1..Len(s), s[k] \in {"do", "?do"}
  PROVE  /\ k \notin Opn(s, k - 1) /\ Opn(s, k) = Opn(s, k - 1) \cup {k}
         /\ EndOf(s, k) \in k + 1..Len(s) - 1 /\ Opn(s, EndOf(s, k)) = Opn(s, k - 1)
         /\ NetOf(s, Opn(s, k)) = NetOf(s, Opn(s, k - 1))
<1>1. s[k] \in Opening
  BY DEF Opening, Openers
<1>2. /\ k \notin Opn(s, k - 1) /\ Opn(s, k) = Opn(s, k - 1) \cup {k}
      /\ EndOf(s, k) \in k + 1..Len(s) - 1 /\ Opn(s, EndOf(s, k)) = Opn(s, k - 1)
  BY <1>1, OpeningLeads
<1>3. k - 1 \in Nat
  OBVIOUS
<1>4. IsFiniteSet(Opn(s, k - 1))
  BY <1>3, OpenFinite
<1> DEFINE O == Opn(s, k - 1)
<1>5. k \notin O /\ IsFiniteSet(O)
  BY <1>2, <1>4
<1> HIDE DEF O
<1>6. NetOf(s, O \cup {k}) = NetOf(s, O)
  BY <1>5, DoWith
<1> QED  BY <1>2, <1>6 DEF O

(* (do) and (?do) enter the loop. *)
LEMMA DoSteps ==
  ASSUME NEW s, NEW st, NEW C, Ready(s, st, C), NEW k, NEW i \in Nat, NEW a, NEW r, NEW d, NEW b,
         InWord(s, st, k, i, a, r, d, b), C[a].op \in {"(do)", "(?do)"}
  PROVE  Steps(s, st, k, a, (a + 1) + 1, r \o <<a + 1, Index, Limit>>, d - 2, FALSE)
<1>f. InFacts(s, st, k, i, a, r, d, b)
  BY InWordIs
<1>0. /\ k \in 1..Len(s) /\ k - 1 \in Nat /\ Framed(s, st, r, Opn(s, k - 1))
      /\ NetOf(s, Opn(s, k - 1)) \in Int /\ d = NetOf(s, Opn(s, k - 1)) + Held(s[k], i)
      /\ st[k] \in Nat /\ a = st[k] + i - 1
  BY <1>f DEF InFacts
<1>c. Complete(s) /\ Len(s) \in Nat
  BY ReadyTypes
<1>1. OpTable(s[k], i, C[a].op)
  BY OpHere
<1>2. s[k] \in {"do", "?do"} /\ i = 3 /\ Width(s[k]) = 4
  BY <1>1 DEF OpTable
<1>3. Held(s[k], i) = 2
  BY <1>2, HeldIs
<1> DEFINE d2 == d - 2 q == st[k] + 3
<1>4. d2 = NetOf(s, Opn(s, k - 1)) /\ a + 1 = q /\ (a + 1) + 1 = a + 2
  <2> DEFINE u == NetOf(s, Opn(s, k - 1)) v == st[k]
  <2>1. u \in Int /\ d = u + 2
    BY <1>0, <1>2, <1>3
  <2>2. v \in Nat /\ a = v + 3 - 1
    BY <1>0, <1>2
  <2> HIDE DEF u, v
  <2>3. d - 2 = u
    BY <2>1
  <2>4. a + 1 = v + 3 /\ (a + 1) + 1 = a + 2
    BY <2>2
  <2> QED  BY <2>3, <2>4 DEF u, v
<1>5. NetOf(s, Opn(s, k)) = NetOf(s, Opn(s, k - 1))
  BY <1>2, <1>0, <1>c, DoTypes
<1>6. k \in Nat /\ k > 0
  BY <1>0
<1>7. Framed(s, st, r \o <<st[k] + 3, Index, Limit>>, Opn(s, k))
  BY <1>0, <1>2, <1>6, EnterFrame
<1> HIDE DEF d2, q
<1> DEFINE r2 == r \o <<a + 1, Index, Limit>>
<1>8. Framed(s, st, r2, Opn(s, k))
  BY <1>7, <1>4 DEF q
<1> HIDE DEF r2
<1>9. SuccessorOf(s, k, FALSE) = k + 1
  BY <1>2 DEF SuccessorOf
<1>10. s[k] # "semicolon" /\ i + 2 = Width(s[k]) + 1 /\ 2 \in Int
  BY <1>2
<1>11. d2 = NetOf(s, Opn(s, k))
  BY <1>4, <1>5
<1>12. Steps(s, st, k, a, a + 2, r2, d2, FALSE)
  BY <1>8, <1>9, <1>10, <1>11, PastEnd
<1> QED  BY <1>12, <1>4 DEF d2, r2

(* (?do) on equal index and limit goes behind the loop. *)
LEMMA QDoSteps ==
  ASSUME NEW s, NEW st, NEW C, Ready(s, st, C), NEW k, NEW i \in Nat, NEW a, NEW r, NEW d, NEW b,
         InWord(s, st, k, i, a, r, d, b), C[a].op = "(?do)"
  PROVE  Steps(s, st, k, a, (a + 1) + C[a + 1].offset, r, d - 2, TRUE)
<1>f. InFacts(s, st, k, i, a, r, d, b)
  BY InWordIs
<1>0. /\ k \in 1..Len(s) /\ k - 1 \in Nat /\ Framed(s, st, r, Opn(s, k - 1))
      /\ NetOf(s, Opn(s, k - 1)) \in Int /\ d = NetOf(s, Opn(s, k - 1)) + Held(s[k], i)
  BY <1>f DEF InFacts
<1>c. Complete(s) /\ Len(s) \in Nat
  BY ReadyTypes
<1>1. OpTable(s[k], i, C[a].op)
  BY OpHere
<1>2. s[k] = "?do" /\ i = 3 /\ i + 1 = OffPos(s[k])
  BY <1>1 DEF OpTable
<1>3. Held(s[k], i) = 2
  BY <1>2, HeldIs
<1> DEFINE d2 == d - 2 m == EndOf(s, k)
<1>4. d2 = NetOf(s, Opn(s, k - 1))
  BY <1>3, <1>0
<1>5. m \in k + 1..Len(s) - 1 /\ Opn(s, m) = Opn(s, k - 1)
  BY <1>2, <1>0, <1>c, DoTypes
<1>6. Taken(s, k) = m + 1
  <2>1. s[k] \in Forward /\ s[k] # "if"
    BY <1>2 DEF Forward
  <2> QED  BY <2>1, ForwardTaken
<1>7. SuccessorOf(s, k, TRUE) = m + 1
  BY <1>2 DEF SuccessorOf
<1> HIDE DEF d2, m
<1>8. m \in 1..Len(s) - 1
  BY <1>5, <1>0, <1>c
<1>9. Framed(s, st, r, Opn(s, m)) /\ d2 = NetOf(s, Opn(s, m))
  BY <1>5, <1>0, <1>4
<1>10. Steps(s, st, k, a, (a + 1) + C[a + 1].offset, r, d2, TRUE)
  BY <1>2, <1>6, <1>7, <1>8, <1>9, BranchesBehind
<1> QED  BY <1>10 DEF d2

(* What (loop) and (+loop) leave of the depth. *)
LoopTakes(op) == IF op = "(+loop)" THEN 1 ELSE 0

(* At (loop) and (+loop), the cells and the depth. *)
LEMMA LoopFacts ==
  ASSUME NEW s, NEW st, NEW C, Ready(s, st, C), NEW k, NEW i \in Nat, NEW a, NEW r, NEW d, NEW b,
         InWord(s, st, k, i, a, r, d, b), C[a].op \in {"(loop)", "(+loop)"}
  PROVE  /\ k \in 1..Len(s) /\ s[k] \in {"loop", "+loop"} /\ Framed(s, st, r, Opn(s, k - 1))
         /\ i + 1 = OffPos(s[k]) /\ i + 2 = Width(s[k]) + 1 /\ (a + 1) + 1 = a + 2
         /\ d \in Int /\ d - LoopTakes(C[a].op) = NetOf(s, Opn(s, k - 1))
<1>f. InFacts(s, st, k, i, a, r, d, b)
  BY InWordIs
<1>0. /\ k \in 1..Len(s) /\ k - 1 \in Nat /\ Framed(s, st, r, Opn(s, k - 1))
      /\ NetOf(s, Opn(s, k - 1)) \in Int /\ d = NetOf(s, Opn(s, k - 1)) + Held(s[k], i)
      /\ st[k] \in Nat /\ a = st[k] + i - 1
  BY <1>f DEF InFacts
<1>1. OpTable(s[k], i, C[a].op)
  BY OpHere
<1>2. \/ C[a].op = "(loop)" /\ s[k] = "loop" /\ i = 1 /\ OffPos(s[k]) = 2 /\ Width(s[k]) = 2
      \/ C[a].op = "(+loop)" /\ s[k] = "+loop" /\ i = 2 /\ OffPos(s[k]) = 3 /\ Width(s[k]) = 3
  BY <1>1 DEF OpTable
<1>3. Held(s[k], i) = LoopTakes(C[a].op) /\ Held(s[k], i) \in Int
  <2>1. CASE C[a].op = "(loop)"
    <3>1. Held(s[k], i) = 0
      BY <1>2, <2>1, HeldIs
    <3> QED  BY <3>1, <2>1 DEF LoopTakes
  <2>2. CASE C[a].op = "(+loop)"
    <3>1. Held(s[k], i) = 1
      BY <1>2, <2>2, HeldIs
    <3> QED  BY <3>1, <2>2 DEF LoopTakes
  <2> QED  BY <1>2, <2>1, <2>2
<1>4. d \in Int /\ d - LoopTakes(C[a].op) = NetOf(s, Opn(s, k - 1))
  <2> DEFINE h == Held(s[k], i) n == NetOf(s, Opn(s, k - 1)) l == LoopTakes(C[a].op)
  <2>1. h \in Int /\ n \in Int /\ d = n + h /\ l = h
    BY <1>0, <1>3
  <2> HIDE DEF h, n, l
  <2>2. d \in Int /\ d - l = n
    BY <2>1
  <2> QED  BY <2>2 DEF n, l
<1>5. i + 1 = OffPos(s[k]) /\ i + 2 = Width(s[k]) + 1 /\ s[k] \in {"loop", "+loop"}
  BY <1>2
<1>6. (a + 1) + 1 = a + 2
  BY <1>0
<1> QED  BY <1>0, <1>4, <1>5, <1>6

(* The loop goes on: back behind do. *)
LEMMA LoopAgain ==
  ASSUME NEW s, NEW st, NEW C, Ready(s, st, C), NEW k, NEW i \in Nat, NEW a, NEW r, NEW d, NEW b,
         InWord(s, st, k, i, a, r, d, b), C[a].op \in {"(loop)", "(+loop)"}
  PROVE  Steps(s, st, k, a, (a + 1) + C[a + 1].offset, r, d - LoopTakes(C[a].op), TRUE)
<1> DEFINE d2 == d - LoopTakes(C[a].op) m == Top(s, k - 1)
<1>0. /\ k \in 1..Len(s) /\ s[k] \in {"loop", "+loop"} /\ Framed(s, st, r, Opn(s, k - 1))
      /\ i + 1 = OffPos(s[k]) /\ d2 = NetOf(s, Opn(s, k - 1))
  BY LoopFacts
<1>c. Complete(s) /\ Len(s) \in Nat
  BY ReadyTypes
<1>1. s[k] \in Closing
  BY <1>0 DEF Closing, Checked
<1>2. m \in 1..k - 1 /\ Opn(s, m) = Opn(s, k - 1) /\ BeginOf(s, k) = m
  BY <1>1, <1>0, <1>c, ClosingLeads
<1>4. Taken(s, k) = m + 1
  BY <1>0, <1>2, BackwardTaken
<1>5. SuccessorOf(s, k, TRUE) = m + 1
  BY <1>0, <1>2 DEF SuccessorOf
<1> HIDE DEF m, d2
<1>6. m \in 1..Len(s) - 1
  BY <1>2, <1>0, <1>c
<1>7. Framed(s, st, r, Opn(s, m)) /\ d2 = NetOf(s, Opn(s, m))
  BY <1>2, <1>0
<1>8. Steps(s, st, k, a, (a + 1) + C[a + 1].offset, r, d2, TRUE)
  BY <1>0, <1>4, <1>5, <1>6, <1>7, BranchesBehind
<1> QED  BY <1>8 DEF d2

(* The loop ends: its frame is dropped, and the next word follows. *)
LEMMA LoopDone ==
  ASSUME NEW s, NEW st, NEW C, Ready(s, st, C), NEW k, NEW i \in Nat, NEW a, NEW r, NEW d, NEW b,
         InWord(s, st, k, i, a, r, d, b), C[a].op \in {"(loop)", "(+loop)"}
  PROVE  Steps(s, st, k, a, (a + 1) + 1, SubSeq(r, 1, Len(r) - 3), d - LoopTakes(C[a].op), FALSE)
<1> DEFINE d2 == d - LoopTakes(C[a].op) t == Top(s, k - 1) r2 == SubSeq(r, 1, Len(r) - 3)
<1>0. /\ k \in 1..Len(s) /\ s[k] \in {"loop", "+loop"} /\ Framed(s, st, r, Opn(s, k - 1))
      /\ i + 2 = Width(s[k]) + 1 /\ (a + 1) + 1 = a + 2 /\ d2 = NetOf(s, Opn(s, k - 1))
  BY LoopFacts
<1>c. Complete(s) /\ Len(s) \in Nat
  BY ReadyTypes
<1>1. s[k] \in Closing
  BY <1>0 DEF Closing, Checked
<1>2. /\ s[t] \in OpenerOf(s[k]) /\ t \notin Opn(s, k) /\ Opn(s, k - 1) = Opn(s, k) \cup {t}
  BY <1>1, <1>0, <1>c, ClosingLeads
<1>3. s[t] \in {"do", "?do"}
  BY <1>0, <1>2 DEF OpenerOf
<1> HIDE DEF t, d2, r2
<1>4. k \in Nat /\ IsFiniteSet(Opn(s, k))
  BY <1>0, OpenFinite
<1> DEFINE O == Opn(s, k)
<1>5. t \notin O /\ IsFiniteSet(O) /\ Opn(s, k - 1) = O \cup {t}
  BY <1>2, <1>4
<1> HIDE DEF O
<1>6. /\ LoopsOf(s, O \cup {t}) = LoopsOf(s, O) \cup {t} /\ t \notin LoopsOf(s, O)
      /\ NetOf(s, O \cup {t}) = NetOf(s, O)
  BY <1>3, <1>5, DoWith
<1>7. /\ LoopsOf(s, Opn(s, k - 1)) = LoopsOf(s, Opn(s, k)) \cup {t} /\ t \notin LoopsOf(s, Opn(s, k))
      /\ d2 = NetOf(s, Opn(s, k))
  BY <1>0, <1>5, <1>6 DEF O
<1>8. Framed(s, st, r2, Opn(s, k))
  BY <1>0, <1>4, <1>7, LeaveFrame DEF r2
<1>9. SuccessorOf(s, k, FALSE) = k + 1
  BY <1>0 DEF SuccessorOf
<1>10. s[k] # "semicolon" /\ 2 \in Int
  BY <1>0
<1>11. Steps(s, st, k, a, a + 2, r2, d2, FALSE)
  BY <1>0, <1>7, <1>8, <1>9, <1>10, PastEnd
<1> QED  BY <1>0, <1>11 DEF d2, r2

(* leave goes behind the innermost loop, without its frame. *)
LEMMA LeaveSteps ==
  ASSUME NEW s, NEW st, NEW C, Ready(s, st, C), NEW k, NEW i \in Nat, NEW a, NEW r, NEW d, NEW b,
         InWord(s, st, k, i, a, r, d, b), C[a].op = "leave"
  PROVE  LET n == Len(r) - 2
         IN  Steps(s, st, k, a, r[n] + C[r[n]].offset, SubSeq(r, 1, n - 1), d, b)
<1>f. InFacts(s, st, k, i, a, r, d, b)
  BY InWordIs
<1>0. /\ k \in 1..Len(s) /\ k - 1 \in Nat /\ Framed(s, st, r, Opn(s, k - 1))
      /\ NetOf(s, Opn(s, k - 1)) \in Int /\ d = NetOf(s, Opn(s, k - 1)) + Held(s[k], i)
  BY <1>f DEF InFacts
<1>c. Complete(s) /\ Len(s) \in Nat
  BY ReadyTypes
<1>1. OpTable(s[k], i, C[a].op)
  BY OpHere
<1>2. s[k] = "leave" /\ i = 1
  BY <1>1 DEF OpTable
<1>3. d = NetOf(s, Opn(s, k - 1))
  <2>1. Held(s[k], i) = 0
    BY <1>2, HeldIs
  <2> QED  BY <2>1, <1>0
<1> DEFINE L == LoopsOf(s, Opn(s, k - 1)) j == Max(L) m == EndOf(s, j) n == Len(r) - 2
           r2 == SubSeq(r, 1, Len(r) - 3)
<1>4. /\ j \in L /\ j \in 1..k - 1 /\ s[j] \in {"do", "?do"}
      /\ L = LoopsOf(s, Opn(s, j - 1)) \cup {j} /\ j \notin LoopsOf(s, Opn(s, j - 1))
      /\ m \in j + 1..Len(s) - 1 /\ Opn(s, m) = Opn(s, j - 1)
      /\ NetOf(s, Opn(s, m)) = NetOf(s, Opn(s, k - 1))
  BY <1>2, <1>0, <1>c, BehindLeave
<1>5. SuccessorOf(s, k, b) = m + 1
  <2>1. k \in Nat /\ k > 0 /\ s[k] \notin Opening \cup Closing
    BY <1>0, <1>2 DEF Opening, Openers, Closing, Checked
  <2>2. Opn(s, k) = Opn(s, k - 1)
    BY <2>1, OpenStep
  <2>3. SuccessorOf(s, k, b) = EndOf(s, Max(LoopsOf(s, Opn(s, k)))) + 1
    BY <1>2 DEF SuccessorOf
  <2> QED  BY <2>2, <2>3
<1>6. LoopsOf(s, Opn(s, k - 1)) = LoopsOf(s, Opn(s, j - 1)) \cup {j}
  BY <1>4
<1> HIDE DEF j, m, L
<1>7. j \in 1..Len(s) /\ j \in Nat /\ j > 0 /\ j - 1 \in Nat /\ m \in 1..Len(s) - 1
  BY <1>4, <1>0, <1>c
<1>8. r[n] = st[j] + 3
  <2>1. j \notin LoopsOf(s, Opn(s, j - 1)) /\ j \in Nat /\ j > 0 /\ Framed(s, st, r, Opn(s, k - 1))
    BY <1>0, <1>4, <1>7
  <2>2. TopIs(r, st[j] + 3)
    BY <2>1, <1>6, TopFrame
  <2> QED  BY <2>2 DEF TopIs
<1>9. Framed(s, st, r2, Opn(s, j - 1)) /\ Len(r) \in Nat
  BY <1>0, <1>4, <1>6, <1>7, LeaveFrame
<1>10. n - 1 = Len(r) - 3
  BY <1>9
<1>11. Taken(s, j) = m + 1
  <2>1. s[j] \in Forward /\ s[j] # "if"
    BY <1>4 DEF Forward
  <2> QED  BY <2>1, ForwardTaken DEF m
<1> DEFINE x == m + 1
<1>12. x \in 1..Len(s) /\ x - 1 = m
  BY <1>7, <1>c
<1>13. st[j] + 3 = Off(s, st, j) /\ OffPos(s[j]) > 0
  <2>1. OffPos(s[j]) = 4
    BY <1>4 DEF OffPos
  <2>2. st[j] \in Nat
    BY <1>7, ReadyTypes
  <2>3. st[j] + 4 - 1 = st[j] + 3
    BY <2>2
  <2> QED  BY <2>1, <2>3 DEF Off
<1>14. Off(s, st, j) + C[Off(s, st, j)].offset = st[Taken(s, j)]
  BY <1>7, <1>11, <1>12, <1>13, BranchLeads
<1>15. Framed(s, st, r2, Opn(s, x - 1)) /\ d = NetOf(s, Opn(s, x - 1))
  BY <1>3, <1>4, <1>9, <1>12
<1>16. r[n] + C[r[n]].offset = st[x]
  BY <1>8, <1>11, <1>13, <1>14
<1>17. SuccessorOf(s, k, b) = x
  BY <1>5
<1> HIDE DEF x, n, r2
<1>18. Steps(s, st, k, a, r[n] + C[r[n]].offset, r2, d, b)
  BY <1>12, <1>15, <1>16, <1>17, JumpsTo
<1>19. SubSeq(r, 1, n - 1) = r2
  BY <1>10 DEF r2
<1> QED  BY <1>18, <1>19 DEF n

(* At an exit or at the end, the return stack holds the caller's address only. *)
LEMMA ReturnsHome ==
  ASSUME NEW s, NEW st, NEW C, Ready(s, st, C), NEW k, NEW i \in Nat, NEW a, NEW r, NEW d, NEW b,
         InWord(s, st, k, i, a, r, d, b), C[a].op = "(semicolon)"
  PROVE  Last(r) = Caller
<1>f. InFacts(s, st, k, i, a, r, d, b)
  BY InWordIs
<1>0. k \in 1..Len(s) /\ k - 1 \in Nat /\ Framed(s, st, r, Opn(s, k - 1))
  BY <1>f DEF InFacts
<1>c. Complete(s) /\ Len(s) \in Nat
  BY ReadyTypes
<1>1. OpTable(s[k], i, C[a].op)
  BY OpHere
<1>2. s[k] \in {"exit", "semicolon"}
  BY <1>1 DEF OpTable
<1>3. LoopsOf(s, Opn(s, k - 1)) = {}
  BY <1>2, <1>0, <1>c, NothingAround
<1>4. Cardinality(LoopsOf(s, Opn(s, k - 1))) = 0
  BY <1>3, FS_EmptySet
<1>5. Len(r) = 1 /\ r[1] = Caller
  BY <1>0, <1>4 DEF Framed
<1> QED  BY <1>5 DEF Last

----------------------------------------------------------------------------
(* The invariant of compiler and machine, and the theorems. *)

(* The text's operators are those of the model at the text compiled. *)
LEMMA ModelText ==
  ASSUME NEW k
  PROVE  /\ Level(k) = Lev(text, k) /\ Open(k) = Opn(text, k)
         /\ Loops(k) = LoopsOf(text, Opn(text, k)) /\ Loops(k) = LoopsIn(text, k)
         /\ Cases(k) = CasesIn(text, k) /\ Cases(k) = {j \in Opn(text, k) : text[j] = "case"}
         /\ End(k) = EndOf(text, k) /\ Begin(k) = BeginOf(text, k)
<1>1. \A j : Level(j) = Lev(text, j)
  BY DEF Level, Lev, Count
<1>2. Open(k) = Opn(text, k)
  BY <1>1 DEF Open, Opn, Live
<1>3. /\ Loops(k) = LoopsOf(text, Opn(text, k)) /\ Loops(k) = LoopsIn(text, k)
      /\ Cases(k) = CasesIn(text, k) /\ Cases(k) = {j \in Opn(text, k) : text[j] = "case"}
  BY <1>2 DEF Loops, Cases, LoopsOf, LoopsIn, CasesIn
<1>4. End(k) = EndOf(text, k) /\ Begin(k) = BeginOf(text, k)
  BY <1>1 DEF End, EndOf, Begin, BeginOf
<1> QED  BY <1>1, <1>2, <1>3, <1>4

(* The same for the word to go on with. *)
LEMMA ModelSuccessor ==
  ASSUME NEW k, NEW flag
  PROVE  Successor(k, flag) = SuccessorOf(text, k, flag) /\ \A a : WordAt(a) = WordIs(starts, a)
<1>1. \A j : Level(j) = Lev(text, j) /\ End(j) = EndOf(text, j) /\ Begin(j) = BeginOf(text, j)
             /\ Loops(j) = LoopsOf(text, Opn(text, j))
  BY ModelText
<1>2. FalsePart(k) = FalsePartOf(text, k)
  BY <1>1 DEF FalsePart, FalsePartOf
<1>3. Successor(k, flag) = SuccessorOf(text, k, flag)
  BY <1>1, <1>2 DEF Successor, SuccessorOf
<1> QED  BY <1>3 DEF WordAt, WordIs

(* At the colon. *)
LEMMA EmptyGood ==
  LET full == [j \in Nat |-> <<>>]
  IN  Good(<<>>, <<>>, <<>>, full) /\ StackOf(<<>>, full) = <<Address(0)>>
<1> DEFINE full == [j \in Nat |-> <<>>]
<1>1. <<>> \in Seq(Words) /\ <<>> \in Seq(Nat) /\ <<>> \in Seq(Cell) /\ Len(<<>>) = 0
  OBVIOUS
<1>2. Layout(<<>>, <<>>, <<>>)
  BY <1>1 DEF Layout, Place
<1>3. Lev(<<>>, 0) = 0
  BY LevelStep
<1>4. Balanced(<<>>)
  BY <1>1, <1>3 DEF Balanced
<1>5. Legal(<<>>) /\ Resolved(<<>>, <<>>, <<>>)
  BY <1>1, <1>4 DEF Legal, Resolved
<1>6. Opn(<<>>, 0) = {}
  <2>1. Opn(<<>>, 0) \subseteq 1..0
    BY OpenFinite
  <2> QED  BY <2>1
<1>7. full \in [Nat -> Seq(Mark)]
  BY EmptySeq
<1> HIDE DEF full
<1>8. Shapes(<<>>, <<>>, full)
  BY <1>1, <1>6 DEF Shapes
<1>9. StackOf(<<>>, full) = <<Address(0)>>
  BY <1>1, <1>6 DEF StackOf, BaseOf
<1>10. Good(<<>>, <<>>, <<>>, full)
  BY <1>2, <1>5, <1>7, <1>8 DEF Good
<1> QED  BY <1>9, <1>10 DEF full

CodeInv == Layout(text, starts, code) /\ Legal(text) /\ Resolved(text, starts, code)
Compiling == \E full : Good(text, starts, code, full) /\ stack = StackOf(text, full)
Executing == Complete(text) /\ Running(text, starts, ip, returns, depth, test)
ControlInv ==
  /\ phase \in {"interpret", "compile", "execute"}
  /\ CodeInv
  /\ phase = "compile" => Compiling
  /\ phase = "execute" => Executing

(* What the compiler's invariant says of the code. *)
LEMMA GoodCode ==
  ASSUME NEW s, NEW st, NEW C, NEW full, Good(s, st, C, full)
  PROVE  Layout(s, st, C) /\ Legal(s) /\ Resolved(s, st, C)
BY DEF Good

(* A word compiled. *)
LEMMA CompilesOn ==
  ASSUME NEW w, NEW c, Grew(text, starts, code, w, c), Becomes(w, c)
  PROVE  Compiling' /\ CodeInv' /\ text' = Append(text, w)
<1>1. PICK D, f : /\ c = Rec(D, StackOf(Append(text, w), f))
                  /\ Good(Append(text, w), Append(starts, Len(code) + 1), D, f)
  BY DEF Grew
<1>2. c.code = D /\ c.stack = StackOf(Append(text, w), f)
  BY <1>1, RecFields
<1>3. /\ code' = D /\ stack' = StackOf(text', f)
      /\ text' = Append(text, w) /\ starts' = Append(starts, Len(code) + 1)
  BY <1>2 DEF Becomes
<1>4. Good(text', starts', code', f)
  BY <1>1, <1>3
<1>5. Compiling'
  BY <1>3, <1>4 DEF Compiling
<1>6. Layout(text', starts', code') /\ Legal(text') /\ Resolved(text', starts', code')
  BY <1>4, GoodCode
<1>7. CodeInv'
  BY <1>6 DEF CodeInv
<1> QED  BY <1>3, <1>5, <1>7

(* At the beginning. *)
LEMMA InitControl == Init => ControlInv
<1> SUFFICES ASSUME Init PROVE ControlInv
  OBVIOUS
<1>1. code = <<>> /\ text = <<>> /\ starts = <<>> /\ phase = "interpret"
  BY DEF Init
<1>2. Layout(<<>>, <<>>, <<>>) /\ Legal(<<>>) /\ Resolved(<<>>, <<>>, <<>>)
  BY EmptyGood, GoodCode
<1>3. CodeInv
  BY <1>1, <1>2 DEF CodeInv
<1> QED  BY <1>1, <1>3 DEF ControlInv

(* The colon begins an empty definition. *)
LEMMA ColonControl == ASSUME ControlInv, Colon PROVE ControlInv'
<1>1. code' = <<>> /\ stack' = <<Address(0)>> /\ text' = <<>> /\ starts' = <<>> /\ phase' = "compile"
  BY DEF Colon
<1>2. PICK full : Good(<<>>, <<>>, <<>>, full) /\ StackOf(<<>>, full) = <<Address(0)>>
  BY EmptyGood
<1>3. Compiling'
  BY <1>1, <1>2 DEF Compiling
<1>4. CodeInv'
  <2>1. Layout(<<>>, <<>>, <<>>) /\ Legal(<<>>) /\ Resolved(<<>>, <<>>, <<>>)
    BY <1>2, GoodCode
  <2> QED  BY <1>1, <2>1 DEF CodeInv
<1> QED  BY <1>1, <1>3, <1>4 DEF ControlInv

(* The compiler of the model has the stack of the invariant. *)
LEMMA CompilerIs ==
  ASSUME NEW full, stack = StackOf(text, full)
  PROVE  Compiler = Rec(code, StackOf(text, full)) /\ Compiler.stack = stack
BY DEF Compiler, Rec

(* A word that leaves the compiler compiling. *)
LEMMA StillCompiling ==
  ASSUME NEW w, NEW c, Grew(text, starts, code, w, c), Becomes(w, c), phase' = "compile"
  PROVE  ControlInv'
<1>1. Compiling' /\ CodeInv'
  BY CompilesOn
<1> QED  BY <1>1 DEF ControlInv

(* Words that open a structure. *)
LEMMA OpensControl == ASSUME ControlInv, NEW w \in Openers, Opens(w) PROVE ControlInv'
<1>1. phase = "compile" /\ phase' = phase /\ Becomes(w, Compiled(w, Compiler))
  BY DEF Opens, Room
<1>2. PICK full : Good(text, starts, code, full) /\ stack = StackOf(text, full)
  BY <1>1 DEF ControlInv, Compiling
<1>3. Grew(text, starts, code, w, Compiled(w, Rec(code, StackOf(text, full))))
  BY <1>2, OpenerGrows
<1>4. Grew(text, starts, code, w, Compiled(w, Compiler))
  BY <1>2, <1>3, CompilerIs
<1> QED  BY <1>1, <1>4, StillCompiling

(* Words that docheck lets pass. *)
LEMMA ContinuesControl == ASSUME ControlInv, NEW w \in Checked, Continues(w) PROVE ControlInv'
<1>1. phase = "compile" /\ phase' = phase /\ Check(w, Compiler) /\ Becomes(w, Compiled(w, Pop(Compiler)))
  BY DEF Continues, Room
<1>2. PICK full : Good(text, starts, code, full) /\ stack = StackOf(text, full)
  BY <1>1 DEF ControlInv, Compiling
<1>3. Compiler = Rec(code, StackOf(text, full)) /\ Compiler.stack = StackOf(text, full)
  BY <1>2, CompilerIs
<1>4. w \in Last(StackOf(text, full)).follow
  BY <1>1, <1>3 DEF Check
<1>5. Grew(text, starts, code, w, Compiled(w, Pop(Rec(code, StackOf(text, full)))))
  BY <1>2, <1>4, CheckedGrows
<1>6. Grew(text, starts, code, w, Compiled(w, Pop(Compiler)))
  BY <1>3, <1>5
<1> QED  BY <1>1, <1>6, StillCompiling

(* A word that docheck refuses ends the definition. *)
LEMMA FailsControl == ASSUME ControlInv, NEW w, Fails(w) PROVE ControlInv'
<1>1. phase' = "interpret" /\ code' = code /\ text' = text /\ starts' = starts
  BY DEF Fails
<1>2. CodeInv'
  BY <1>1 DEF ControlInv, CodeInv
<1> QED  BY <1>1, <1>2 DEF ControlInv

(* leave, exit and tail-recurse. *)
LEMMA ThreadsControl == ASSUME ControlInv, NEW w \in Plain, Threads(w) PROVE ControlInv'
<1>1. /\ phase = "compile" /\ phase' = phase /\ Becomes(w, Compiled(w, Compiler))
      /\ Allowed(w)
  BY DEF Threads, Room
<1>2. PICK full : Good(text, starts, code, full) /\ stack = StackOf(text, full)
  BY <1>1 DEF ControlInv, Compiling
<1> DEFINE n == Len(text) z == Append(text, w)
<1>3. w \in Words /\ w \notin Checked /\ w # "semicolon"
  BY DEF Words, Checked, Plain
<1>4. /\ text \in Seq(Words) /\ n \in Nat /\ z[n + 1] = w /\ (n + 1) - 1 = n
      /\ Opn(z, n) = Opn(text, n) /\ \A k \in 1..n : z[k] = text[k]
  <2>1. text \in Seq(Words) /\ n \in Nat
    BY <1>2, GoodTypes
  <2> QED  BY <1>2, <1>3, <2>1, NewWord
<1>5. Opn(text, n) \subseteq 1..n
  BY <1>4, OpenFinite
<1>6. LoopsIn(z, n) = LoopsIn(text, n) /\ CasesIn(z, n) = CasesIn(text, n)
  BY <1>4, <1>5 DEF LoopsIn, CasesIn
<1>7. Loops(n) = LoopsIn(text, n) /\ Cases(n) = CasesIn(text, n)
  BY ModelText
<1>8. /\ w = "leave" => /\ LoopsIn(z, n) # {}
                        /\ \A j \in CasesIn(z, n) : j < Max(LoopsIn(z, n))
      /\ w \in {"exit", "tail-recurse"} => LoopsIn(z, n) \cup CasesIn(z, n) = {}
  BY <1>1, <1>6, <1>7 DEF Allowed
<1> HIDE DEF z, n
<1>9. LegalAt(z, n + 1)
  BY <1>3, <1>4, <1>8 DEF LegalAt
<1>10. Grew(text, starts, code, w, Compiled(w, Rec(code, StackOf(text, full))))
  BY <1>2, <1>9, PlainGrows DEF z, n
<1>11. Grew(text, starts, code, w, Compiled(w, Compiler))
  BY <1>2, <1>10, CompilerIs
<1> QED  BY <1>1, <1>11, StillCompiling

(* The end of a definition. *)
LEMMA SemicolonControl == ASSUME ControlInv, Semicolon PROVE ControlInv'
<1>1. /\ phase = "compile" /\ phase' = "interpret" /\ Open(Len(text)) = {}
      /\ Becomes("semicolon", Thread(Compiler, <<"(semicolon)">>))
  BY DEF Semicolon
<1>2. PICK full : Good(text, starts, code, full) /\ stack = StackOf(text, full)
  BY <1>1 DEF ControlInv, Compiling
<1>3. Opn(text, Len(text)) = {}
  BY <1>1, ModelText
<1>4. Grew(text, starts, code, "semicolon", Thread(Rec(code, StackOf(text, full)), <<"(semicolon)">>))
  BY <1>2, <1>3, SemicolonGrows
<1>5. Grew(text, starts, code, "semicolon", Thread(Compiler, <<"(semicolon)">>))
  BY <1>2, <1>4, CompilerIs
<1>6. CodeInv'
  BY <1>1, <1>5, CompilesOn
<1> QED  BY <1>1, <1>6 DEF ControlInv

(* At the first word nothing is around. *)
LEMMA CallerFrame ==
  ASSUME NEW s, NEW st
  PROVE  Framed(s, st, <<Caller>>, Opn(s, 0)) /\ 0 = NetOf(s, Opn(s, 0))
<1>1. Opn(s, 0) = {}
  <2>1. Opn(s, 0) \subseteq 1..0
    BY OpenFinite
  <2> QED  BY <2>1
<1>2. /\ {j \in Opn(s, 0) : s[j] = "case"} = {} /\ {j \in Opn(s, 0) : s[j] = "of"} = {}
      /\ LoopsOf(s, Opn(s, 0)) = {}
  BY <1>1 DEF LoopsOf
<1>3. Cardinality({}) = 0
  BY FS_EmptySet
<1>4. 0 = NetOf(s, Opn(s, 0))
  BY <1>2, <1>3 DEF NetOf
<1>5. <<Caller>> \in Seq(Int) /\ Len(<<Caller>>) = 1 + 3 * 0 /\ <<Caller>>[1] = Caller
  BY DEF Caller
<1> QED  BY <1>2, <1>3, <1>4, <1>5 DEF Framed

(* A complete definition is ready to execute. *)
LEMMA ReadyNow == ASSUME CodeInv, Complete(text) PROVE Ready(text, starts, code)
BY DEF CodeInv, Ready

(* The machine starts at the first word. *)
LEMMA ExecuteControl == ASSUME ControlInv, Execute PROVE ControlInv'
<1>1. /\ phase' = "execute" /\ ip' = 1 /\ returns' = <<Caller>> /\ depth' = 0 /\ test' = FALSE
      /\ code' = code /\ text' = text /\ starts' = starts
      /\ text # <<>> /\ Last(text) = "semicolon"
  BY DEF Execute, compiled
<1>2. CodeInv /\ Legal(text) /\ Layout(text, starts, code) /\ text \in Seq(Words) /\ Len(starts) = Len(text)
  BY DEF ControlInv, CodeInv, Layout
<1>3. Len(text) \in Nat /\ Len(text) > 0 /\ text[Len(text)] = "semicolon"
  BY <1>1, <1>2 DEF Last
<1>4. Complete(text)
  BY <1>2, <1>3 DEF Complete
<1>5. Ready(text, starts, code)
  BY <1>2, <1>4, ReadyNow
<1>6. 1 \in 1..Len(text) /\ 1 - 1 = 0
  BY <1>3
<1>7. Framed(text, starts, <<Caller>>, Opn(text, 1 - 1)) /\ 0 = NetOf(text, Opn(text, 1 - 1))
  BY <1>6, CallerFrame
<1>8. Running(text, starts, starts[1], <<Caller>>, 0, FALSE)
  BY <1>5, <1>6, <1>7, Arrives
<1>9. starts[1] = 1
  BY <1>2, <1>3 DEF Layout, Place
<1>10. Executing'
  BY <1>1, <1>4, <1>8, <1>9 DEF Executing
<1>11. CodeInv'
  BY <1>1, <1>2 DEF CodeInv
<1> QED  BY <1>1, <1>10, <1>11 DEF ControlInv

Machine == \/ Push \/ Consume \/ Branch \/ ParenDo \/ ParenQDo \/ Leave \/ Return
           \/ \E flag \in BOOLEAN : QBranch(flag) \/ ParenLoop(flag)

(* A machine step from word k goes on as the text says, or returns. *)
Advances(k) == Steps(text, starts, k, ip, ip', returns', depth', test')
MachineStep(k) == /\ UNCHANGED compiled
                  /\ \/ phase' = phase /\ Advances(k)
                     \/ phase' = "interpret"

(* Each step of the machine from word k stays in the word, goes to the word's *)
(* successor, or returns to the caller.                                       *)
LEMMA MachineSteps ==
  ASSUME Ready(text, starts, code), phase = "execute", Machine, NEW k, NEW i \in Nat,
         InWord(text, starts, k, i, ip, returns, depth, test)
  PROVE  MachineStep(k)
<1>1. CASE Push
  <2>1. code[ip].op \in {"push", "over"}
    BY <1>1 DEF Push, At
  <2>2. Steps(text, starts, k, ip, ip + 1, returns, depth + 1, test)
    BY <2>1, PushSteps
  <2>3. /\ UNCHANGED compiled /\ phase' = phase /\ ip' = ip + 1 /\ returns' = returns
        /\ depth' = depth + 1 /\ test' = test
    BY <1>1 DEF Push, Same
  <2> QED  BY <2>2, <2>3 DEF MachineStep, Advances
<1>2. CASE Consume
  <2>1. code[ip].op \in {"drop", "="}
    BY <1>2 DEF Consume, At
  <2>2. Steps(text, starts, k, ip, ip + 1, returns, depth - 1, test)
    BY <2>1, ConsumeSteps
  <2>3. /\ UNCHANGED compiled /\ phase' = phase /\ ip' = ip + 1 /\ returns' = returns
        /\ depth' = depth - 1 /\ test' = test
    BY <1>2 DEF Consume, Same
  <2> QED  BY <2>2, <2>3 DEF MachineStep, Advances
<1>3. CASE Branch
  <2>1. code[ip].op = "(branch)"
    BY <1>3 DEF Branch, At
  <2>2. Steps(text, starts, k, ip, (ip + 1) + code[ip + 1].offset, returns, depth, test)
    BY <2>1, BranchSteps
  <2>3. /\ UNCHANGED compiled /\ phase' = phase /\ ip' = (ip + 1) + code[ip + 1].offset
        /\ returns' = returns /\ depth' = depth /\ test' = test
    BY <1>3 DEF Branch, Same, Target, Operand
  <2> QED  BY <2>2, <2>3 DEF MachineStep, Advances
<1>4. CASE ParenDo
  <2>1. code[ip].op \in {"(do)", "(?do)"}
    BY <1>4 DEF ParenDo, At
  <2>2. Steps(text, starts, k, ip, (ip + 1) + 1, returns \o <<ip + 1, Index, Limit>>, depth - 2, FALSE)
    BY <2>1, DoSteps
  <2>3. /\ UNCHANGED compiled /\ phase' = phase /\ ip' = (ip + 1) + 1
        /\ returns' = returns \o <<ip + 1, Index, Limit>> /\ depth' = depth - 2 /\ test' = FALSE
    BY <1>4 DEF ParenDo, EnterLoop, Same, Operand
  <2> QED  BY <2>2, <2>3 DEF MachineStep, Advances
<1>5. CASE ParenQDo
  <2>1. code[ip].op = "(?do)"
    BY <1>5 DEF ParenQDo, At
  <2>2. Steps(text, starts, k, ip, (ip + 1) + code[ip + 1].offset, returns, depth - 2, TRUE)
    BY <2>1, QDoSteps
  <2>3. /\ UNCHANGED compiled /\ phase' = phase /\ ip' = (ip + 1) + code[ip + 1].offset
        /\ returns' = returns /\ depth' = depth - 2 /\ test' = TRUE
    BY <1>5 DEF ParenQDo, Same, Target, Operand
  <2> QED  BY <2>2, <2>3 DEF MachineStep, Advances
<1>6. CASE Leave
  <2>1. code[ip].op = "leave"
    BY <1>6 DEF Leave, At
  <2> DEFINE n == Len(returns) - 2
  <2>2. Steps(text, starts, k, ip, returns[n] + code[returns[n]].offset, SubSeq(returns, 1, n - 1),
              depth, test)
    BY <2>1, LeaveSteps
  <2>3. /\ UNCHANGED compiled /\ phase' = phase /\ ip' = returns[n] + code[returns[n]].offset
        /\ returns' = SubSeq(returns, 1, n - 1) /\ depth' = depth /\ test' = test
    BY <1>6 DEF Leave, Same, Target
  <2> QED  BY <2>2, <2>3 DEF MachineStep, Advances
<1>7. CASE Return
  <2>1. code[ip].op = "(semicolon)"
    BY <1>7 DEF Return, At
  <2>2. Last(returns) = Caller
    BY <2>1, ReturnsHome
  <2>3. UNCHANGED compiled /\ phase' = "interpret"
    BY <1>7, <2>2 DEF Return
  <2> QED  BY <2>3 DEF MachineStep
<1>8. ASSUME NEW flag \in BOOLEAN, QBranch(flag) PROVE MachineStep(k)
  <2>1. code[ip].op = "(?branch)"
    BY <1>8 DEF QBranch, At
  <2>2. UNCHANGED compiled /\ phase' = phase /\ returns' = returns /\ depth' = depth - 1 /\ test' = flag
    BY <1>8 DEF QBranch, Same
  <2>3. CASE flag = TRUE
    <3>1. Steps(text, starts, k, ip, (ip + 1) + 1, returns, depth - 1, TRUE)
      BY <2>1, TestSteps
    <3>2. ip' = (ip + 1) + 1
      BY <1>8, <2>3 DEF QBranch, Operand
    <3> QED  BY <2>2, <2>3, <3>1, <3>2 DEF MachineStep, Advances
  <2>4. CASE flag = FALSE
    <3>1. Steps(text, starts, k, ip, (ip + 1) + code[ip + 1].offset, returns, depth - 1, FALSE)
      BY <2>1, FailSteps
    <3>2. ip' = (ip + 1) + code[ip + 1].offset
      BY <1>8, <2>4 DEF QBranch, Operand, Target
    <3> QED  BY <2>2, <2>4, <3>1, <3>2 DEF MachineStep, Advances
  <2> QED  BY <2>3, <2>4
<1>9. ASSUME NEW flag \in BOOLEAN, ParenLoop(flag) PROVE MachineStep(k)
  <2>1. code[ip].op \in {"(loop)", "(+loop)"}
    BY <1>9 DEF ParenLoop, At
  <2> DEFINE h == LoopTakes(code[ip].op)
  <2>0. depth \in Int
    BY <2>1, LoopFacts
  <2>2. UNCHANGED compiled /\ phase' = phase /\ depth' = depth - h /\ test' = flag
    <3>1. UNCHANGED compiled /\ phase' = phase /\ test' = flag
          /\ depth' = IF At("(+loop)") THEN depth - 1 ELSE depth
      BY <1>9 DEF ParenLoop, Same
    <3>2. CASE code[ip].op = "(+loop)"
      <4>1. At("(+loop)") /\ h = 1
        BY <3>2 DEF At, LoopTakes
      <4> QED  BY <3>1, <4>1
    <3>3. CASE code[ip].op = "(loop)"
      <4>1. ~At("(+loop)") /\ h = 0
        BY <3>3 DEF At, LoopTakes
      <4>2. depth' = depth /\ depth - h = depth
        BY <2>0, <3>1, <4>1
      <4> QED  BY <3>1, <4>2
    <3> QED  BY <2>1, <3>2, <3>3
  <2>3. CASE flag = TRUE
    <3>1. Steps(text, starts, k, ip, (ip + 1) + code[ip + 1].offset, returns, depth - h, TRUE)
      BY <2>1, LoopAgain
    <3>2. ip' = (ip + 1) + code[ip + 1].offset /\ returns' = returns
      BY <1>9, <2>3 DEF ParenLoop, Operand, Target
    <3> QED  BY <2>2, <2>3, <3>1, <3>2 DEF MachineStep, Advances
  <2>4. CASE flag = FALSE
    <3>1. Steps(text, starts, k, ip, (ip + 1) + 1, SubSeq(returns, 1, Len(returns) - 3), depth - h, FALSE)
      BY <2>1, LoopDone
    <3>2. ip' = (ip + 1) + 1 /\ returns' = SubSeq(returns, 1, Len(returns) - 3)
      BY <1>9, <2>4 DEF ParenLoop, Operand
    <3> QED  BY <2>2, <2>4, <3>1, <3>2 DEF MachineStep, Advances
  <2> QED  BY <2>3, <2>4
<1> QED  BY <1>1, <1>2, <1>3, <1>4, <1>5, <1>6, <1>7, <1>8, <1>9 DEF Machine

(* Where the machine is. *)
LEMMA Whereabouts ==
  ASSUME ControlInv, phase = "execute"
  PROVE  /\ Ready(text, starts, code) /\ Complete(text)
         /\ \E k \in 1..Len(text), i \in Nat : InWord(text, starts, k, i, ip, returns, depth, test)
<1>1. CodeInv /\ Complete(text) /\ Running(text, starts, ip, returns, depth, test)
  BY DEF ControlInv, Executing
<1>2. Ready(text, starts, code)
  BY <1>1, ReadyNow
<1>3. PICK k \in 1..Len(text), i \in 1..6 : InWord(text, starts, k, i, ip, returns, depth, test)
  BY <1>1 DEF Running
<1> QED  BY <1>1, <1>2, <1>3

(* The word in which the machine is. *)
LEMMA AtWord ==
  ASSUME Ready(text, starts, code), NEW k, NEW i, InWord(text, starts, k, i, ip, returns, depth, test)
  PROVE  WordAt(ip) = k
<1>f. InFacts(text, starts, k, i, ip, returns, depth, test)
  BY InWordIs
<1>1. /\ k \in 1..Len(text) /\ text[k] \in Words /\ starts[k] \in Nat
      /\ ip = starts[k] + i - 1 /\ i \in 1..Width(text[k])
  BY <1>f DEF InFacts
<1>2. Width(text[k]) \in Nat
  <2>1. text[k] \in Words
    BY <1>1
  <2> QED  BY <2>1, CellsOfWord
<1>3. ip \in Int /\ starts[k] <= ip /\ ip < starts[k] + Width(text[k])
  BY <1>1, <1>2
<1>4. WordIs(starts, ip) = k
  BY <1>1, <1>3, WordOf
<1> QED  BY <1>4, ModelSuccessor

(* The machine keeps the invariant, and goes from word to word as the text *)
(* says.                                                                   *)
LEMMA MachineControl ==
  ASSUME ControlInv, phase = "execute", Machine
  PROVE  ControlInv' /\ MachineStep(WordAt(ip))
<1>1. Ready(text, starts, code) /\ Complete(text)
  BY Whereabouts
<1>2. PICK k \in 1..Len(text), i \in Nat : InWord(text, starts, k, i, ip, returns, depth, test)
  BY Whereabouts
<1>3. MachineStep(k)
  BY <1>1, <1>2, MachineSteps
<1>4. code' = code /\ text' = text /\ starts' = starts
  BY <1>3 DEF MachineStep, compiled
<1>5. CodeInv'
  BY <1>4 DEF ControlInv, CodeInv
<1>6. CASE phase' = phase /\ Advances(k)
  <2>1. Running(text', starts', ip', returns', depth', test')
    BY <1>4, <1>6 DEF Advances, Steps
  <2>2. Executing'
    BY <1>1, <1>4, <2>1 DEF Executing
  <2> QED  BY <1>1, <1>2, <1>3, <1>5, <1>6, <2>2, AtWord DEF ControlInv
<1>7. CASE phase' = "interpret"
  <2>1. ControlInv'
    BY <1>5, <1>7 DEF ControlInv
  <2> QED  BY <1>1, <1>2, <1>3, <2>1, AtWord
<1> QED  BY <1>3, <1>6, <1>7 DEF MachineStep

(* Instructions execute in no other phase. *)
LEMMA OnlyMachine == ASSUME Machine PROVE phase = "execute"
BY DEF Machine, Push, Consume, Branch, ParenDo, ParenQDo, Leave, Return, QBranch, ParenLoop, At

(* The compiler's actions are not taken while the machine executes. *)
LEMMA CompilerPhase ==
  ASSUME \/ Colon \/ Semicolon \/ Execute
         \/ \E w \in Openers : Opens(w)
         \/ \E w \in Checked : Continues(w) \/ Fails(w)
         \/ \E w \in Plain : Threads(w)
  PROVE  phase # "execute"
<1>1. Colon \/ Semicolon \/ Execute => phase # "execute"
  BY DEF Colon, Semicolon, Execute
<1>2. \A w : Opens(w) \/ Continues(w) \/ Fails(w) \/ Threads(w) => phase # "execute"
  BY DEF Opens, Continues, Fails, Threads, Room
<1> QED  BY <1>1, <1>2

(* Every step keeps the invariant. *)
LEMMA NextControl == ControlInv /\ [Next]_vars => ControlInv'
<1> SUFFICES ASSUME ControlInv, [Next]_vars PROVE ControlInv'
  OBVIOUS
<1>1. CASE Colon
  BY <1>1, ColonControl
<1>2. CASE Semicolon
  BY <1>2, SemicolonControl
<1>3. CASE Execute
  BY <1>3, ExecuteControl
<1>4. CASE \E w \in Openers : Opens(w)
  BY <1>4, OpensControl
<1>5. CASE \E w \in Checked : Continues(w) \/ Fails(w)
  BY <1>5, ContinuesControl, FailsControl
<1>6. CASE \E w \in Plain : Threads(w)
  BY <1>6, ThreadsControl
<1>7. CASE Machine
  BY <1>7, OnlyMachine, MachineControl
<1>8. CASE UNCHANGED vars
  BY <1>8 DEF vars, ControlInv, CodeInv, Compiling, Executing
<1> QED  BY <1>1, <1>2, <1>3, <1>4, <1>5, <1>6, <1>7, <1>8 DEF Next, Machine

(* The invariant of compiler and machine holds in every state. *)
LEMMA ControlInvariant == Spec => []ControlInv
BY InitControl, NextControl, PTL DEF Spec

(* The invariant says what the return stack and the depth are in front of a *)
(* word.                                                                    *)
LEMMA ControlFrames == ControlInv => FramesMatchText
<1> SUFFICES ASSUME ControlInv, phase = "execute", ip = starts[WordAt(ip)] PROVE FramesMatchText
  BY DEF FramesMatchText
<1>1. Ready(text, starts, code) /\ Complete(text)
  BY Whereabouts
<1>2. PICK k \in 1..Len(text), i \in Nat : InWord(text, starts, k, i, ip, returns, depth, test)
  BY Whereabouts
<1>3. WordAt(ip) = k
  BY <1>1, <1>2, AtWord
<1>f. InFacts(text, starts, k, i, ip, returns, depth, test)
  BY <1>1, <1>2, InWordIs
<1>4. /\ starts[k] \in Nat /\ ip = starts[k] + i - 1 /\ Framed(text, starts, returns, Opn(text, k - 1))
      /\ NetOf(text, Opn(text, k - 1)) \in Int /\ depth = NetOf(text, Opn(text, k - 1)) + Held(text[k], i)
  BY <1>f DEF InFacts
<1>5. i = 1
  BY <1>3, <1>4
<1>6. depth = NetOf(text, Opn(text, k - 1))
  <2>1. Held(text[k], i) = 0
    BY <1>5, HeldIs
  <2> QED  BY <1>4, <2>1
<1>7. \A x : /\ Open(x) = Opn(text, x) /\ Loops(x) = LoopsOf(text, Opn(text, x))
             /\ Cases(x) = {j \in Opn(text, x) : text[j] = "case"}
  BY ModelText
<1>8. /\ Len(returns) = 1 + 3 * Cardinality(Loops(k - 1)) /\ returns[1] = Caller
      /\ \A j \in Loops(k - 1) : FrameAt(returns, 3 * Cardinality(Loops(j - 1)), starts[j] + 3)
  BY <1>4, <1>7 DEF Framed, Below
<1>9. \A j \in Loops(k - 1) : LET f == 3 * Cardinality(Loops(j - 1))
                              IN  <<returns[f + 2], returns[f + 3], returns[f + 4]>>
                                    = <<starts[j] + 3, Index, Limit>>
  BY <1>8 DEF FrameAt
<1>10. depth = Cardinality(Cases(k - 1)) - Cardinality({j \in Open(k - 1) : text[j] = "of"})
  BY <1>6, <1>7 DEF NetOf
<1> QED  BY <1>3, <1>8, <1>9, <1>10, Zenon DEF FramesMatchText

(* Whatever way the machine came to a word of a compiled definition - through a   *)
(* test, around a loop again, out of it with leave or by a tail-recurse - the     *)
(* return stack has the caller's address and exactly one frame, of address, index *)
(* and limit, for each loop written around the word, outermost first, and the     *)
(* parameter stack has one cell for each case around it whose value no of has     *)
(* dropped: what (do), (loop), leave and drop do fits what do, of, endof and      *)
(* endcase compiled.  For definitions of any length.                              *)
THEOREM FramesFollowText == Spec => []FramesMatchText
BY ControlInvariant, ControlFrames, PTL

RunStep == LET k == WordAt(ip)
               inside == ip' > ip /\ WordAt(ip') = k
           IN  phase = "execute" /\ phase' = "execute" /\ ~inside
                 => ip' = starts[Successor(k, test')]

(* A step under the invariant goes to the word the manual names. *)
LEMMA StepRuns == ControlInv /\ [Next]_vars => [RunStep]_vars
<1> SUFFICES ASSUME ControlInv, Next, phase = "execute", phase' = "execute" PROVE RunStep
  BY DEF RunStep
<1>1. Machine
  BY CompilerPhase DEF Next, Machine
<1> DEFINE k == WordAt(ip)
<1>2. MachineStep(k)
  BY <1>1, MachineControl
<1>3. Advances(k)
  BY <1>2 DEF MachineStep
<1> HIDE DEF k
<1>4. Goes(text, starts, k, ip, ip', test')
  BY <1>3 DEF Advances, Steps
<1>5. Successor(k, test') = SuccessorOf(text, k, test') /\ WordAt(ip') = WordIs(starts, ip')
  BY ModelSuccessor
<1>6. \/ ip' > ip /\ WordAt(ip') = k
      \/ ip' = starts[Successor(k, test')]
  BY <1>4, <1>5 DEF Goes
<1> QED  BY <1>6 DEF RunStep, k

(* When the machine leaves the code of a word, it goes to the beginning of the      *)
(* word that the manual names: into the false part behind else, behind the end of   *)
(* the structure, or back behind begin or do, as the flag or the limit tested       *)
(* tells.  So >mark, >resolve, <mark and <resolve wrote every offset for the right  *)
(* branch, in every nesting that docheck lets pass.  For definitions of any length. *)
THEOREM RunsFollowText == Spec => RunsAsWritten
<1>1. ControlInv /\ [Next]_vars => [RunStep]_vars
  BY StepRuns
<1>2. Spec => [][RunStep]_vars
  BY <1>1, ControlInvariant, PTL DEF Spec
<1> QED  BY <1>2 DEF RunsAsWritten, RunStep
============================================================================
