--------------------------- MODULE Algorithms_proofs ---------------------------
(***************************************************************************)
(* Theorems about the algorithms on data: ranks in a finite linear order   *)
(* and selections from a list; sums over finite sets, in any order; the    *)
(* breadth first search for join paths, which ends and finds exactly the   *)
(* shortest paths of any graph; and the completion of any tables by those  *)
(* their joins pass.                                                       *)
(***************************************************************************)
EXTENDS Lists, JoinGraph, FiniteSetsExt, FiniteSetTheorems, SequenceTheorems, TLAPS

\* R orders I, from first to last
LinearOn(R, I) ==
  /\ \A i, j \in I : <<i, j>> \in R \/ <<j, i>> \in R
  /\ \A i, j \in I : <<i, j>> \in R /\ <<j, i>> \in R => i = j
  /\ \A i, j, k \in I : <<i, j>> \in R /\ <<j, k>> \in R => <<i, k>> \in R

\* how many elements of I come no later than i
Rank(R, I, i) == Cardinality({j \in I : <<j, i>> \in R})

\* every number up to the size of I is the rank of an element
AllRanks(R, I) == \A k \in 1..Cardinality(I) : \E i \in I : Rank(R, I, i) = k

(* Ranks are numbers from 1 to the size of the set, a later element has a   *)
(* higher rank, and every such number is the rank of an element.            *)
THEOREM Ranks ==
  ASSUME NEW I, IsFiniteSet(I), NEW R, LinearOn(R, I)
  PROVE  /\ \A i \in I : Rank(R, I, i) \in 1..Cardinality(I)
         /\ \A i, j \in I : <<i, j>> \in R /\ i # j => Rank(R, I, i) < Rank(R, I, j)
         /\ AllRanks(R, I)
<1> DEFINE Upto(i) == {j \in I : <<j, i>> \in R}
           n == Cardinality(I)
           f == [i \in I |-> Rank(R, I, i)]
<1>1. \A i \in I : /\ Upto(i) \in SUBSET I /\ i \in Upto(i)
                   /\ IsFiniteSet(Upto(i)) /\ Rank(R, I, i) = Cardinality(Upto(i))
  BY FS_Subset DEF LinearOn, Rank
<1>2. n \in Nat
  BY FS_CardinalityType
<1>3. ASSUME NEW i \in I
      PROVE  Rank(R, I, i) \in 1..n
  <2>1. Cardinality(Upto(i)) \in Nat /\ Cardinality(Upto(i)) <= n
    BY <1>1, FS_CardinalityType, FS_Subset
  <2>2. Cardinality(Upto(i)) # 0
    BY <1>1, FS_EmptySet
  <2>3. Rank(R, I, i) = Cardinality(Upto(i))
    BY <1>1
  <2> HIDE DEF Upto, n
  <2> QED
    BY <2>1, <2>2, <2>3, <1>2
<1>4. ASSUME NEW i \in I, NEW j \in I, <<i, j>> \in R, i # j
      PROVE  Rank(R, I, i) < Rank(R, I, j)
  <2>1. Upto(i) \subseteq Upto(j)
    BY <1>4 DEF LinearOn
  <2>2. j \notin Upto(i) /\ j \in Upto(j)
    BY <1>4, <1>1 DEF LinearOn
  <2>3. Upto(i) # Upto(j)
    BY <2>2
  <2>4. Cardinality(Upto(i)) <= Cardinality(Upto(j)) /\ Cardinality(Upto(i)) # Cardinality(Upto(j))
    BY <2>1, <2>3, <1>1, FS_Subset
  <2>5. Rank(R, I, i) = Cardinality(Upto(i)) /\ Rank(R, I, j) = Cardinality(Upto(j))
    BY <1>1
  <2>6. Rank(R, I, i) \in Int /\ Rank(R, I, j) \in Int
    BY <1>3, <1>2
  <2> HIDE DEF Upto
  <2> QED
    BY <2>4, <2>5, <2>6
<1>5. f \in Injection(I, 1..n)
  <2>1. f \in [I -> 1..n]
    BY <1>3
  <2>2. ASSUME NEW i \in I, NEW j \in I, f[i] = f[j]
        PROVE  i = j
    <3>1. Rank(R, I, i) = Rank(R, I, j) /\ Rank(R, I, i) \in Int
      BY <2>2, <1>3
    <3>2. <<i, j>> \in R \/ <<j, i>> \in R
      BY DEF LinearOn
    <3> QED
      BY <3>1, <3>2, <1>4, <1>3
  <2> QED
    BY <2>1, <2>2 DEF Injection, IsInjective
<1>6. f \in Surjection(I, 1..n)
  <2>1. IsFiniteSet(1..n) /\ Cardinality(1..n) = n
    BY <1>2, FS_Interval
  <2> QED
    BY <1>5, <2>1, FS_Injection
<1>7. \A k \in 1..n : \E i \in I : Rank(R, I, i) = k
  BY <1>6 DEF Surjection
<1> QED
  BY <1>3, <1>4, <1>7 DEF AllRanks

\* the order of numbers, on I
InOrder(I) == {p \in I \X I : p[1] <= p[2]}

(* Numbers are in a linear order, and PlaceIn is the rank in it.            *)
LEMMA PlaceIsRank ==
  ASSUME NEW I \in SUBSET Nat
  PROVE  /\ LinearOn(InOrder(I), I)
         /\ \A i \in I : PlaceIn(I, i) = Rank(InOrder(I), I, i)
<1>1. \A i, j \in I : <<i, j>> \in InOrder(I) <=> i <= j
  BY DEF InOrder
<1>2. LinearOn(InOrder(I), I)
  BY <1>1 DEF LinearOn
<1>3. ASSUME NEW i \in I
      PROVE  PlaceIn(I, i) = Rank(InOrder(I), I, i)
  <2>1. {j \in I : j <= i} = {j \in I : <<j, i>> \in InOrder(I)}
    BY <1>1
  <2> QED
    BY <2>1 DEF PlaceIn, Rank
<1> QED
  BY <1>2, <1>3

\* the index that the k-th item of a selection is taken from
Source(I, k) == CHOOSE i \in I : PlaceIn(I, i) = k

(* The k-th index and the place of an index are inverse to each other, and  *)
(* keep the order.                                                          *)
THEOREM Sources ==
  ASSUME NEW I \in SUBSET Nat, IsFiniteSet(I)
  PROVE  /\ \A k \in 1..Cardinality(I) : Source(I, k) \in I /\ PlaceIn(I, Source(I, k)) = k
         /\ \A i \in I : PlaceIn(I, i) \in 1..Cardinality(I) /\ Source(I, PlaceIn(I, i)) = i
         /\ \A k, l \in 1..Cardinality(I) : k < l => Source(I, k) < Source(I, l)
<1> DEFINE n == Cardinality(I)
<1>1. /\ \A i \in I : PlaceIn(I, i) \in 1..n
      /\ \A i, j \in I : i <= j /\ i # j => PlaceIn(I, i) < PlaceIn(I, j)
      /\ \A k \in 1..n : \E i \in I : PlaceIn(I, i) = k
  <2>1. \A i, j \in I : <<i, j>> \in InOrder(I) <=> i <= j
    BY DEF InOrder
  <2>2. \A i \in I : PlaceIn(I, i) = Rank(InOrder(I), I, i)
    BY PlaceIsRank
  <2>3. LinearOn(InOrder(I), I)
    BY PlaceIsRank
  <2>4. /\ \A i \in I : Rank(InOrder(I), I, i) \in 1..n
        /\ \A i, j \in I : <<i, j>> \in InOrder(I) /\ i # j
             => Rank(InOrder(I), I, i) < Rank(InOrder(I), I, j)
        /\ AllRanks(InOrder(I), I)
    BY <2>3, Ranks
  <2>5. \A k \in 1..n : \E i \in I : Rank(InOrder(I), I, i) = k
    BY <2>4 DEF AllRanks
  <2> HIDE DEF n
  <2>6. \A i \in I : PlaceIn(I, i) \in 1..n
    BY <2>2, <2>4
  <2>7. ASSUME NEW i \in I, NEW j \in I, i <= j, i # j
        PROVE  PlaceIn(I, i) < PlaceIn(I, j)
    <3>1. Rank(InOrder(I), I, i) < Rank(InOrder(I), I, j)
      BY <2>1, <2>4, <2>7
    <3> QED
      BY <3>1, <2>2
  <2>8. \A k \in 1..n : \E i \in I : PlaceIn(I, i) = k
    BY <2>2, <2>5, Zenon
  <2> QED
    BY <2>6, <2>7, <2>8
<1>2. \A k \in 1..n : Source(I, k) \in I /\ PlaceIn(I, Source(I, k)) = k
  BY <1>1 DEF Source
<1>3. ASSUME NEW i \in I
      PROVE  Source(I, PlaceIn(I, i)) = i
  <2>1. PlaceIn(I, i) \in 1..n
    BY <1>1
  <2>2. /\ Source(I, PlaceIn(I, i)) \in I
        /\ PlaceIn(I, Source(I, PlaceIn(I, i))) = PlaceIn(I, i)
    BY <2>1, <1>2
  <2> DEFINE j == Source(I, PlaceIn(I, i))
  <2> HIDE DEF j
  <2>3. j \in I /\ PlaceIn(I, j) = PlaceIn(I, i)
    BY <2>2 DEF j
  <2>4. i \in Nat /\ j \in Nat
    BY <2>3
  <2>5. i <= j \/ j <= i
    BY <2>4
  <2>6. i = j
    BY <2>1, <2>3, <2>5, <1>1
  <2> QED
    BY <2>6 DEF j
<1>4. ASSUME NEW k \in 1..n, NEW l \in 1..n, k < l
      PROVE  Source(I, k) < Source(I, l)
  <2> DEFINE a == Source(I, k)  b == Source(I, l)
  <2> HIDE DEF a, b
  <2>1. a \in I /\ b \in I /\ PlaceIn(I, a) = k /\ PlaceIn(I, b) = l
    BY <1>2 DEF a, b
  <2>2. a \in Nat /\ b \in Nat /\ n \in Nat
    BY <2>1, FS_CardinalityType
  <2>3. ~(b <= a)
    <3>1. CASE b = a
      BY <3>1, <2>1, <2>2, <1>4
    <3>2. ASSUME b <= a, b # a
          PROVE  FALSE
      <4>1. l < k
        BY <3>2, <2>1, <1>1
      <4> QED
        BY <4>1, <1>4, <2>2
    <3> QED
      BY <3>1, <3>2
  <2>4. a < b
    BY <2>2, <2>3
  <2> QED
    BY <2>4 DEF a, b
<1> QED
  BY <1>1, <1>2, <1>3, <1>4

(* A selection is as long as there are indices, it has the item of every    *)
(* index, only those, and in the order of the list.                         *)
THEOREM Selections ==
  ASSUME NEW S, NEW list \in Seq(S), NEW I \in SUBSET (DOMAIN list)
  PROVE  /\ IsFiniteSet(I)
         /\ Selection(list, I) \in Seq(S)
         /\ Len(Selection(list, I)) = Cardinality(I)
         /\ DOMAIN Selection(list, I) = 1..Cardinality(I)
         /\ \A k \in 1..Cardinality(I) :
              /\ Selection(list, I)[k] = list[Source(I, k)]
              /\ Source(I, k) \in I
         /\ \A i \in I : \E k \in 1..Cardinality(I) : Source(I, k) = i
         /\ \A k, l \in 1..Cardinality(I) : k < l => Source(I, k) < Source(I, l)
<1> DEFINE n == Cardinality(I)
<1>1. I \in SUBSET Nat /\ IsFiniteSet(I)
  <2>1. DOMAIN list = 1..Len(list) /\ Len(list) \in Nat
    BY LenProperties
  <2>2. IsFiniteSet(DOMAIN list)
    BY <2>1, FS_Interval
  <2> QED
    BY <2>1, <2>2, FS_Subset
<1>2. n \in Nat
  BY <1>1, FS_CardinalityType
<1>3. /\ \A k \in 1..n : Source(I, k) \in I
      /\ \A i \in I : PlaceIn(I, i) \in 1..n /\ Source(I, PlaceIn(I, i)) = i
      /\ \A k, l \in 1..n : k < l => Source(I, k) < Source(I, l)
  BY <1>1, Sources
<1>4. Selection(list, I) = [k \in 1..n |-> list[Source(I, k)]]
  BY DEF Selection, Source
<1>5. \A k \in 1..n : list[Source(I, k)] \in S
  BY <1>3, LenProperties
<1>6. Selection(list, I) \in [1..n -> S]
  BY <1>4, <1>5
<1>7. Selection(list, I) \in Seq(S)
  BY <1>6, <1>2, SeqDef
<1>8. Len(Selection(list, I)) = n /\ DOMAIN Selection(list, I) = 1..n
  BY <1>4, <1>7, <1>2, LenProperties
<1>9. \A i \in I : \E k \in 1..n : Source(I, k) = i
  BY <1>3
<1> QED
  BY <1>1, <1>3, <1>4, <1>7, <1>8, <1>9

(* A bounded set of numbers has a least one.                                *)
LEMMA LeastOf ==
  ASSUME NEW n \in Nat, NEW I \in SUBSET (1..n), I # {}
  PROVE  \E i \in I : \A k \in I : i <= k
<1>1. IsFiniteSet(I)
  <2>1. IsFiniteSet(1..n)
    BY FS_Interval
  <2> QED
    BY <2>1, FS_Subset
<1>2. I \in SUBSET Nat
  OBVIOUS
<1>3. /\ \A k \in 1..Cardinality(I) : Source(I, k) \in I /\ PlaceIn(I, Source(I, k)) = k
      /\ \A i \in I : PlaceIn(I, i) \in 1..Cardinality(I) /\ Source(I, PlaceIn(I, i)) = i
      /\ \A k, l \in 1..Cardinality(I) : k < l => Source(I, k) < Source(I, l)
  BY <1>1, <1>2, Sources
<1>4. Cardinality(I) \in Nat /\ 1 \in 1..Cardinality(I)
  <2>1. Cardinality(I) \in Nat
    BY <1>1, FS_CardinalityType
  <2>2. PICK i \in I : TRUE
    OBVIOUS
  <2>3. PlaceIn(I, i) \in 1..Cardinality(I)
    BY <1>3, <2>2
  <2> QED
    BY <2>1, <2>3
<1>5. Source(I, 1) \in I
  BY <1>3, <1>4
<1>6. ASSUME NEW k \in I PROVE Source(I, 1) <= k
  <2>1. PlaceIn(I, k) \in 1..Cardinality(I) /\ Source(I, PlaceIn(I, k)) = k
    BY <1>3
  <2>2. PlaceIn(I, k) = 1 \/ 1 < PlaceIn(I, k)
    BY <2>1, <1>4
  <2>3. 1 < PlaceIn(I, k) => Source(I, 1) < k
    BY <2>1, <1>3, <1>4
  <2>4. Source(I, 1) \in Nat /\ k \in Nat
    BY <1>2, <1>5
  <2> QED
    BY <2>1, <2>2, <2>3, <2>4
<1> QED
  BY <1>5, <1>6

(* Induction on a set of numbers.                                           *)
LEMMA SetInduction ==
  ASSUME NEW S, 0 \in S, \A n \in Nat : n \in S => n + 1 \in S
  PROVE  Nat \subseteq S
<1> SUFFICES ASSUME NEW m \in Nat, m \notin S
             PROVE  FALSE
  OBVIOUS
<1>1. PICK I : I = {k \in 1..(m + 1) : k - 1 \notin S}
  OBVIOUS
<1>2. I \in SUBSET (1..(m + 1)) /\ m + 1 \in I
  BY <1>1
<1>3. PICK i \in I : \A k \in I : i <= k
  <2>1. PICK n \in Nat : n = m + 1
    OBVIOUS
  <2>2. I \in SUBSET (1..n) /\ I # {}
    BY <1>2, <2>1
  <2> QED
    BY <2>2, LeastOf
<1>4. i \in 1..(m + 1) /\ i - 1 \notin S
  BY <1>1
<1>5. CASE i = 1
  BY <1>4, <1>5
<1>6. CASE i # 1
  <2>1. i - 1 \in 1..(m + 1) /\ i - 1 \notin I
    BY <1>2, <1>3, <1>4, <1>6
  <2>2. i - 2 \in Nat /\ i - 2 \in S
    BY <1>1, <1>4, <1>6, <2>1
  <2>3. (i - 2) + 1 = i - 1
    BY <1>4
  <2> QED
    BY <1>4, <2>2, <2>3
<1> QED
  BY <1>5, <1>6

-----------------------------------------------------------------------------
(* Sums.  A sum takes the items of a set one by one, in any order.          *)

\* the item that is taken out first
PickOf(s) == CHOOSE x \in s : TRUE
Sum(f, S) == MapThenSumSet(LAMBDA x : f[x], S)

(* What holds of the empty set, and of a set if it holds of the set without *)
(* any one item, holds of every finite set.                                 *)
LEMMA SubsetInduction ==
  ASSUME NEW U, IsFiniteSet(U), NEW G, {} \in G,
         \A s \in SUBSET U : s # {} /\ (\A x \in s : s \ {x} \in G) => s \in G
  PROVE  U \in G
<1>1. PICK N : N = {n \in Nat : \A s \in SUBSET U : Cardinality(s) = n => s \in G}
  OBVIOUS
<1>2. \A s \in SUBSET U : IsFiniteSet(s) /\ Cardinality(s) \in Nat
  BY FS_Subset, FS_CardinalityType
<1>3. 0 \in N
  BY <1>1, <1>2, FS_EmptySet
<1>4. ASSUME NEW n \in Nat, n \in N PROVE n + 1 \in N
  <2> SUFFICES ASSUME NEW s \in SUBSET U, Cardinality(s) = n + 1 PROVE s \in G
    BY <1>1
  <2>1. s # {}
    BY FS_EmptySet
  <2>2. ASSUME NEW x \in s PROVE s \ {x} \in G
    <3>1. Cardinality(s \ {x}) = n
      BY <1>2, FS_RemoveElement
    <3>2. s \ {x} \in SUBSET U
      OBVIOUS
    <3> QED
      BY <1>1, <1>4, <3>1, <3>2
  <2> QED
    BY <2>1, <2>2
<1>5. Nat \subseteq N
  BY <1>3, <1>4, SetInduction
<1> QED
  BY <1>1, <1>2, <1>5

\* h is the sum of every subset of S of at most n items
SumsTo(f, S, n, h) ==
  h = [s \in {t \in SUBSET S : Cardinality(t) <= n} |->
         IF s = {} THEN 0 ELSE f[PickOf(s)] + h[s \ {PickOf(s)}]]

\* h is the sum of every subset of S
Sums(f, S, h) ==
  h = [s \in SUBSET S |-> IF s = {} THEN 0 ELSE f[PickOf(s)] + h[s \ {PickOf(s)}]]

(* The sums of all the subsets of a finite set exist.                       *)
LEMMA SumsExist ==
  ASSUME NEW f, NEW S, IsFiniteSet(S)
  PROVE  \E h : Sums(f, S, h)
<1>1. PICK N : N = {n \in Nat : \E h : SumsTo(f, S, n, h)}
  OBVIOUS
<1>2. ASSUME NEW s \in SUBSET S
      PROVE  /\ Cardinality(s) \in Nat /\ Cardinality(s) <= Cardinality(S)
             /\ Cardinality(s) = 0 <=> s = {}
             /\ s # {} => PickOf(s) \in s /\ Cardinality(s \ {PickOf(s)}) = Cardinality(s) - 1
  <2>1. IsFiniteSet(s) /\ Cardinality(s) \in Nat /\ Cardinality(s) <= Cardinality(S)
    BY FS_Subset, FS_CardinalityType
  <2>2. Cardinality(s) = 0 <=> s = {}
    BY <2>1, FS_EmptySet
  <2>3. s # {} => PickOf(s) \in s
    BY DEF PickOf
  <2>4. s # {} => Cardinality(s \ {PickOf(s)}) = Cardinality(s) - 1
    BY <2>1, <2>3, FS_RemoveElement
  <2> QED
    BY <2>1, <2>2, <2>3, <2>4
<1>3. 0 \in N
  <2>1. PICK h : h = [s \in {{}} |-> 0]
    OBVIOUS
  <2>2. {t \in SUBSET S : Cardinality(t) <= 0} = {{}}
    <3>1. ASSUME NEW t \in SUBSET S, Cardinality(t) <= 0 PROVE t = {}
      <4>1. Cardinality(t) \in Nat /\ (Cardinality(t) = 0 => t = {})
        BY <1>2
      <4> QED
        BY <3>1, <4>1
    <3>2. Cardinality({}) <= 0
      BY FS_EmptySet
    <3> QED
      BY <3>1, <3>2
  <2>3. h = [s \in {t \in SUBSET S : Cardinality(t) <= 0} |->
               IF s = {} THEN 0 ELSE f[PickOf(s)] + h[s \ {PickOf(s)}]]
    BY <2>1, <2>2
  <2> QED
    BY <1>1, <2>3 DEF SumsTo
<1>4. ASSUME NEW n \in Nat, n \in N PROVE n + 1 \in N
  <2>1. PICK h : SumsTo(f, S, n, h)
    BY <1>1, <1>4
  <2>2. PICK A : A = {t \in SUBSET S : Cardinality(t) <= n}
    OBVIOUS
  <2>3. PICK B : B = {t \in SUBSET S : Cardinality(t) <= n + 1}
    OBVIOUS
  <2>4. h = [s \in A |-> IF s = {} THEN 0 ELSE f[PickOf(s)] + h[s \ {PickOf(s)}]]
    BY <2>1, <2>2 DEF SumsTo
  <2>5. PICK g : g = [s \in B |-> IF s = {} THEN 0 ELSE f[PickOf(s)] + h[s \ {PickOf(s)}]]
    OBVIOUS
  <2>6. \A s \in A : s \in B /\ g[s] = h[s]
    <3>1. ASSUME NEW s \in A PROVE s \in B
      <4>1. s \in SUBSET S /\ Cardinality(s) <= n
        BY <2>2
      <4>2. Cardinality(s) \in Nat
        BY <1>2, <4>1
      <4>3. Cardinality(s) <= n + 1
        BY <4>1, <4>2
      <4> QED
        BY <2>3, <4>1, <4>3
    <3> QED
      BY <2>4, <2>5, <3>1
  <2>7. \A s \in B : s # {} => s \ {PickOf(s)} \in A
    <3> SUFFICES ASSUME NEW s \in B, s # {} PROVE s \ {PickOf(s)} \in A
      OBVIOUS
    <3>1. s \in SUBSET S /\ Cardinality(s) <= n + 1
      BY <2>3
    <3>2. Cardinality(s \ {PickOf(s)}) = Cardinality(s) - 1 /\ Cardinality(s) \in Nat
      BY <1>2, <3>1
    <3>3. Cardinality(s \ {PickOf(s)}) <= n
      BY <3>1, <3>2
    <3>4. s \ {PickOf(s)} \in SUBSET S
      BY <3>1
    <3> QED
      BY <2>2, <3>3, <3>4
  <2>8. g = [s \in B |-> IF s = {} THEN 0 ELSE f[PickOf(s)] + g[s \ {PickOf(s)}]]
    BY <2>5, <2>6, <2>7
  <2>9. SumsTo(f, S, n + 1, g)
    BY <2>3, <2>8 DEF SumsTo
  <2> QED
    BY <1>1, <2>9
<1>5. Cardinality(S) \in N
  <2>1. Nat \subseteq N
    BY <1>3, <1>4, SetInduction
  <2>2. Cardinality(S) \in Nat
    BY FS_CardinalityType
  <2> QED
    BY <2>1, <2>2
<1>6. {t \in SUBSET S : Cardinality(t) <= Cardinality(S)} = SUBSET S
  <2>1. ASSUME NEW t \in SUBSET S PROVE Cardinality(t) <= Cardinality(S)
    BY <1>2
  <2> QED
    BY <2>1
<1> QED
  BY <1>1, <1>5, <1>6 DEF SumsTo, Sums

(* MapThenSumSet chooses them.                                              *)
LEMMA SumIsChosen ==
  ASSUME NEW f, NEW S
  PROVE  Sum(f, S) = (CHOOSE h : Sums(f, S, h))[S]
BY DEF Sum, Sums, PickOf, MapThenSumSet, MapThenFoldSet

(* They are the sums of those subsets.                                      *)
LEMMA SumsAgree ==
  ASSUME NEW f, NEW S, IsFiniteSet(S), NEW T \in SUBSET S, NEW h, Sums(f, S, h)
  PROVE  h[T] = Sum(f, T)
<1>1. IsFiniteSet(T)
  BY FS_Subset
<1>2. PICK g : Sums(f, T, g) /\ Sum(f, T) = g[T]
  <2>1. Sums(f, T, CHOOSE g : Sums(f, T, g))
    BY <1>1, SumsExist
  <2> QED
    BY <2>1, SumIsChosen
<1>3. PICK G : G = {s \in SUBSET T : h[s] = g[s]}
  OBVIOUS
<1>4. {} \in G
  BY <1>2, <1>3 DEF Sums
<1>5. ASSUME NEW s \in SUBSET T, s # {}, \A x \in s : s \ {x} \in G PROVE s \in G
  <2>1. PickOf(s) \in s
    BY <1>5 DEF PickOf
  <2>2. h[s \ {PickOf(s)}] = g[s \ {PickOf(s)}]
    BY <1>3, <1>5, <2>1
  <2>3. h[s] = f[PickOf(s)] + h[s \ {PickOf(s)}] /\ g[s] = f[PickOf(s)] + g[s \ {PickOf(s)}]
    BY <1>2, <1>5 DEF Sums
  <2> QED
    BY <1>3, <2>2, <2>3
<1>6. T \in G
  BY <1>1, <1>4, <1>5, SubsetInduction
<1> QED
  BY <1>2, <1>3, <1>6

(* The sum of nothing is 0, and the sum of a set is one of its summands and *)
(* the sum of the others.                                                   *)
LEMMA SumStep ==
  ASSUME NEW f, NEW S, IsFiniteSet(S)
  PROVE  IF S = {} THEN Sum(f, S) = 0 ELSE Sum(f, S) = f[PickOf(S)] + Sum(f, S \ {PickOf(S)})
<1>1. PICK h : Sums(f, S, h)
  BY SumsExist
<1>2. h[S] = Sum(f, S) /\ h[S \ {PickOf(S)}] = Sum(f, S \ {PickOf(S)})
  BY <1>1, SumsAgree
<1>3. h[S] = IF S = {} THEN 0 ELSE f[PickOf(S)] + h[S \ {PickOf(S)}]
  BY <1>1 DEF Sums
<1> QED
  BY <1>2, <1>3
(* The sum of integers is one, whichever summand is taken out first.        *)
LEMMA SumInt ==
  ASSUME NEW S, IsFiniteSet(S), NEW f, \A x \in S : f[x] \in Int
  PROVE  Sum(f, S) \in Int
<1>1. PICK G : G = {s \in SUBSET S : Sum(f, s) \in Int}
  OBVIOUS
<1>2. {} \in G
  <2>1. Sum(f, {}) = 0
    BY FS_EmptySet, SumStep
  <2> QED
    BY <1>1, <2>1
<1>3. ASSUME NEW s \in SUBSET S, s # {}, \A x \in s : s \ {x} \in G PROVE s \in G
  <2>1. IsFiniteSet(s)
    BY FS_Subset
  <2>2. PickOf(s) \in s
    BY <1>3 DEF PickOf
  <2>3. Sum(f, s) = f[PickOf(s)] + Sum(f, s \ {PickOf(s)})
    BY <1>3, <2>1, SumStep
  <2>4. Sum(f, s \ {PickOf(s)}) \in Int /\ f[PickOf(s)] \in Int
    BY <1>1, <1>3, <2>2
  <2> QED
    BY <1>1, <2>3, <2>4
<1>4. S \in G
  BY <1>2, <1>3, SubsetInduction
<1> QED
  BY <1>1, <1>4

(* Any item may be taken out first.                                         *)
LEMMA SumWithout ==
  ASSUME NEW S, IsFiniteSet(S), NEW f, \A x \in S : f[x] \in Int, NEW x \in S
  PROVE  Sum(f, S) = f[x] + Sum(f, S \ {x})
<1> DEFINE Out(s) == \A y \in s : Sum(f, s) = f[y] + Sum(f, s \ {y})
<1>1. PICK G : G = {s \in SUBSET S : \A t \in SUBSET s : Out(t)}
  OBVIOUS
<1>2. {} \in G
  <2>1. ASSUME NEW t \in SUBSET {} PROVE Out(t)
    OBVIOUS
  <2> QED
    BY <1>1, <2>1
<1>3. ASSUME NEW s \in SUBSET S, s # {}, \A y \in s : s \ {y} \in G PROVE s \in G
  <2>1. \A t \in SUBSET s : t # s => Out(t)
    <3> SUFFICES ASSUME NEW t \in SUBSET s, t # s PROVE Out(t)
      OBVIOUS
    <3>1. PICK y \in s : y \notin t
      OBVIOUS
    <3>2. t \in SUBSET (s \ {y})
      BY <3>1
    <3> QED
      BY <1>1, <1>3, <3>1, <3>2
  <2>2. Out(s)
    <3> SUFFICES ASSUME NEW y \in s PROVE Sum(f, s) = f[y] + Sum(f, s \ {y})
      OBVIOUS
    <3>1. PICK z : z = PickOf(s)
      OBVIOUS
    <3>2. IsFiniteSet(s) /\ z \in s
      BY <1>3, <3>1, FS_Subset DEF PickOf
    <3>3. Sum(f, s) = f[z] + Sum(f, s \ {z})
      BY <1>3, <3>1, <3>2, SumStep
    <3>4. CASE y = z
      BY <3>3, <3>4
    <3>5. CASE y # z
      <4>1. Sum(f, s \ {z}) = f[y] + Sum(f, (s \ {z}) \ {y})
        <5>1. Out(s \ {z}) /\ y \in s \ {z}
          BY <2>1, <3>2, <3>5
        <5> QED
          BY <5>1
      <4>2. Sum(f, s \ {y}) = f[z] + Sum(f, (s \ {y}) \ {z})
        <5>1. Out(s \ {y}) /\ z \in s \ {y}
          BY <2>1, <3>2, <3>5
        <5> QED
          BY <5>1
      <4>3. PICK r : r = (s \ {z}) \ {y}
        OBVIOUS
      <4>4. r = (s \ {y}) \ {z} /\ r \in SUBSET S
        BY <4>3
      <4>5. Sum(f, r) \in Int
        <5>1. IsFiniteSet(r) /\ \A v \in r : f[v] \in Int
          BY <4>4, FS_Subset
        <5> QED
          BY <5>1, SumInt
      <4>6. f[y] \in Int /\ f[z] \in Int
        BY <3>2
      <4>7. Sum(f, s) = f[z] + (f[y] + Sum(f, r)) /\ Sum(f, s \ {y}) = f[z] + Sum(f, r)
        BY <3>3, <4>1, <4>2, <4>3, <4>4
      <4> QED
        BY <4>5, <4>6, <4>7
    <3> QED
      BY <3>4, <3>5
  <2> QED
    BY <1>1, <2>1, <2>2
<1>4. S \in G
  BY <1>2, <1>3, SubsetInduction
<1> QED
  BY <1>1, <1>4

(* Renaming the items changes no sum.                                       *)
LEMMA SumRenamed ==
  ASSUME NEW S, IsFiniteSet(S), NEW T, NEW m \in Bijection(S, T),
         NEW f, \A x \in S : f[x] \in Int, NEW g, \A x \in S : g[m[x]] = f[x]
  PROVE  Sum(g, T) = Sum(f, S)
<1>0. PICK Im : Im = [s \in SUBSET S |-> {m[x] : x \in s}]
  OBVIOUS
<1>1. PICK G : G = {s \in SUBSET S : Sum(g, Im[s]) = Sum(f, s)}
  OBVIOUS
<1>2. {} \in G
  <2>1. Im[{}] = {}
    BY <1>0
  <2>2. Sum(f, {}) = 0 /\ Sum(g, {}) = 0
    BY FS_EmptySet, SumStep
  <2> QED
    BY <1>1, <2>1, <2>2
<1>3. ASSUME NEW s \in SUBSET S, s # {}, \A x \in s : s \ {x} \in G PROVE s \in G
  <2>1. PICK x \in s : TRUE
    BY <1>3
  <2>2. Sum(g, Im[s \ {x}]) = Sum(f, s \ {x})
    BY <1>1, <1>3, <2>1
  <2>3. \A a, b \in S : m[a] = m[b] => a = b
    BY DEF Bijection, Injection, IsInjective
  <2>4. Im[s \ {x}] = Im[s] \ {m[x]} /\ m[x] \in Im[s]
    BY <1>0, <2>1, <2>3
  <2>5. IsFiniteSet(s) /\ IsFiniteSet(Im[s])
    <3>1. IsFiniteSet(s)
      BY FS_Subset
    <3>2. PICK k : k = [y \in s |-> m[y]]
      OBVIOUS
    <3>3. k \in Surjection(s, Im[s])
      BY <1>0, <3>2 DEF Surjection
    <3> QED
      BY <3>1, <3>3, FS_Surjection
  <2>6. \A y \in Im[s] : g[y] \in Int
    BY <1>0
  <2>7. Sum(f, s) = f[x] + Sum(f, s \ {x})
    BY <2>1, <2>5, SumWithout
  <2>8. Sum(g, Im[s]) = g[m[x]] + Sum(g, Im[s] \ {m[x]})
    BY <2>4, <2>5, <2>6, SumWithout
  <2> QED
    BY <1>1, <2>1, <2>2, <2>4, <2>7, <2>8
<1>4. S \in G
  BY <1>2, <1>3, SubsetInduction
<1>5. Im[S] = T
  BY <1>0 DEF Bijection, Surjection
<1> QED
  BY <1>1, <1>4, <1>5

(* A sum of equal items is a product.                                       *)
LEMMA SumOfEqual ==
  ASSUME NEW S, IsFiniteSet(S), NEW c \in Int, NEW f, \A x \in S : f[x] = c
  PROVE  Sum(f, S) = c * Cardinality(S)
<1>1. PICK G : G = {s \in SUBSET S : Sum(f, s) = c * Cardinality(s)}
  OBVIOUS
<1>2. {} \in G
  <2>1. Sum(f, {}) = 0 /\ Cardinality({}) = 0
    BY FS_EmptySet, SumStep
  <2> QED
    BY <1>1, <2>1
<1>3. ASSUME NEW s \in SUBSET S, s # {}, \A x \in s : s \ {x} \in G PROVE s \in G
  <2>1. IsFiniteSet(s) /\ PickOf(s) \in s
    BY <1>3, FS_Subset DEF PickOf
  <2>2. Sum(f, s) = f[PickOf(s)] + Sum(f, s \ {PickOf(s)})
    BY <1>3, <2>1, SumStep
  <2>3. Sum(f, s \ {PickOf(s)}) = c * Cardinality(s \ {PickOf(s)}) /\ f[PickOf(s)] = c
    BY <1>1, <1>3, <2>1
  <2>4. PICK n \in Nat : n = Cardinality(s)
    BY <2>1, FS_CardinalityType
  <2>5. Cardinality(s \ {PickOf(s)}) = n - 1
    BY <2>1, <2>4, FS_RemoveElement
  <2>6. c + c * (n - 1) = c * n
    OBVIOUS
  <2> QED
    BY <1>1, <2>2, <2>3, <2>4, <2>5, <2>6
<1>4. S \in G
  BY <1>2, <1>3, SubsetInduction
<1> QED
  BY <1>1, <1>4

-----------------------------------------------------------------------------
(* Graphs                                                                   *)

\* edges lead from table to table, and a table has those that leave it, once each
GraphOk(g) ==
  /\ \E n \in Nat : DOMAIN g.edges = 1..n
  /\ \A e \in DOMAIN g.edges : g.edges[e].from \in DOMAIN g.out /\ g.edges[e].to \in DOMAIN g.out
  /\ \A t \in DOMAIN g.out : g.out[t] \in Seq(DOMAIN g.edges)
  /\ \A t \in DOMAIN g.out : \A k \in DOMAIN g.out[t] : g.edges[g.out[t][k]].from = t
  /\ \A e \in DOMAIN g.edges : \E k \in DOMAIN g.out[g.edges[e].from] :
       g.out[g.edges[e].from][k] = e
  /\ \A t \in DOMAIN g.out : \A k, l \in DOMAIN g.out[t] : g.out[t][k] = g.out[t][l] => k = l

(* Any sequence of edges makes a graph (linking/join_graph.py:198).         *)
LEMMA GraphsOk ==
  ASSUME NEW edges, NEW n \in Nat, DOMAIN edges = 1..n
  PROVE  /\ GraphOk(Graph(edges))
         /\ Graph(edges).edges = edges /\ DOMAIN Graph(edges).out = Nodes(edges)
<1>1. PICK g : g = Graph(edges)
  OBVIOUS
<1>2. PICK all : all = [i \in 1..n |-> i]
  OBVIOUS
<1>3. all \in Seq(1..n) /\ DOMAIN all = 1..n /\ \A i \in 1..n : all[i] = i
  BY <1>2
<1> DEFINE Leaving(t) == {i \in 1..n : edges[i].from = t}
<1>4. g.edges = edges /\ DOMAIN g.out = Nodes(edges)
  BY <1>1 DEF Graph
<1>5. \A t \in Nodes(edges) : g.out[t] = Selection(all, Leaving(t))
  BY <1>1, <1>2 DEF Graph
<1>6. \A e \in 1..n : edges[e].from \in Nodes(edges) /\ edges[e].to \in Nodes(edges)
  BY DEF Nodes
<1>7. ASSUME NEW t \in Nodes(edges)
      PROVE  /\ g.out[t] \in Seq(1..n)
             /\ \A k \in DOMAIN g.out[t] : g.out[t][k] \in 1..n /\ edges[g.out[t][k]].from = t
             /\ \A e \in 1..n : edges[e].from = t => \E k \in DOMAIN g.out[t] : g.out[t][k] = e
             /\ \A k, l \in DOMAIN g.out[t] : g.out[t][k] = g.out[t][l] => k = l
  <2>1. PICK I : I = Leaving(t)
    OBVIOUS
  <2>2. I \in SUBSET (DOMAIN all) /\ \A i : i \in I <=> i \in 1..n /\ edges[i].from = t
    BY <1>3, <2>1
  <2>3. PICK sel : sel = Selection(all, I)
    OBVIOUS
  <2>4. /\ IsFiniteSet(I)
        /\ sel \in Seq(1..n)
        /\ DOMAIN sel = 1..Cardinality(I)
        /\ \A k \in 1..Cardinality(I) : sel[k] = all[Source(I, k)] /\ Source(I, k) \in I
        /\ \A i \in I : \E k \in 1..Cardinality(I) : Source(I, k) = i
        /\ \A k, l \in 1..Cardinality(I) : k < l => Source(I, k) < Source(I, l)
    BY <1>3, <2>2, <2>3, Selections
  <2>5. \A k \in DOMAIN sel : sel[k] = Source(I, k) /\ sel[k] \in I
    BY <1>3, <2>2, <2>4
  <2>6. \A i \in I : \E k \in DOMAIN sel : sel[k] = i
    BY <2>4, <2>5
  <2>7. \A k, l \in DOMAIN sel : sel[k] = sel[l] => k = l
    <3>1. Cardinality(I) \in Nat
      BY <2>4, FS_CardinalityType
    <3>2. \A k, l \in DOMAIN sel : k < l => sel[k] < sel[l]
      BY <2>4, <2>5
    <3>3. \A k \in DOMAIN sel : sel[k] \in Nat
      BY <2>2, <2>5
    <3>4. \A k, l \in DOMAIN sel : k = l \/ k < l \/ l < k
      BY <2>4, <3>1
    <3> QED
      BY <3>2, <3>3, <3>4
  <2>8. g.out[t] = sel
    BY <1>5, <2>1, <2>3
  <2> QED
    BY <2>2, <2>4, <2>5, <2>6, <2>7, <2>8
<1>8. GraphOk(g)
  <2>1. DOMAIN g.edges = 1..n /\ \E k \in Nat : DOMAIN g.edges = 1..k
    BY <1>4
  <2>2. \A e \in DOMAIN g.edges : g.edges[e].from \in DOMAIN g.out /\ g.edges[e].to \in DOMAIN g.out
    BY <1>4, <1>6
  <2>3. \A t \in DOMAIN g.out : g.out[t] \in Seq(DOMAIN g.edges)
    BY <1>4, <1>7
  <2>4. \A t \in DOMAIN g.out : \A k \in DOMAIN g.out[t] : g.edges[g.out[t][k]].from = t
    BY <1>4, <1>7
  <2>5. \A e \in DOMAIN g.edges : \E k \in DOMAIN g.out[g.edges[e].from] :
          g.out[g.edges[e].from][k] = e
    BY <1>4, <1>6, <1>7
  <2>6. \A t \in DOMAIN g.out : \A k, l \in DOMAIN g.out[t] : g.out[t][k] = g.out[t][l] => k = l
    BY <1>4, <1>7
  <2> QED
    BY <2>1, <2>2, <2>3, <2>4, <2>5, <2>6, Zenon DEF GraphOk
<1> QED
  BY <1>1, <1>4, <1>8

-----------------------------------------------------------------------------
(* Walks                                                                    *)

\* w walks along edges, from the table s
IsWalk(g, s, w) ==
  /\ w \in Seq(DOMAIN g.edges)
  /\ \A i \in 1..Len(w) : g.edges[w[i]].from = IF i = 1 THEN s ELSE g.edges[w[i - 1]].to

\* w begins with p
Begins(p, w) == Len(p) <= Len(w) /\ \A i \in 1..Len(p) : p[i] = w[i]

(* The path without edges is a walk that stays where it is.                 *)
LEMMA EmptyWalk ==
  ASSUME NEW g, NEW s
  PROVE  IsWalk(g, s, <<>>) /\ End(g, s, <<>>) = s
BY DEF IsWalk, End

(* A path with an edge more is a walk when it was one and the edge leaves   *)
(* its end.                                                                 *)
LEMMA LongerWalk ==
  ASSUME NEW g, NEW s, NEW p \in Seq(DOMAIN g.edges), NEW e \in DOMAIN g.edges
  PROVE  /\ Append(p, e) \in Seq(DOMAIN g.edges)
         /\ Len(Append(p, e)) = Len(p) + 1
         /\ Begins(p, Append(p, e))
         /\ Append(p, e)[Len(p) + 1] = e
         /\ End(g, s, Append(p, e)) = g.edges[e].to
         /\ IsWalk(g, s, Append(p, e)) <=> IsWalk(g, s, p) /\ g.edges[e].from = End(g, s, p)
<1>1. PICK E : E = DOMAIN g.edges
  OBVIOUS
<1>2. PICK w : w = Append(p, e)
  OBVIOUS
<1>3. w \in Seq(E) /\ Len(w) = Len(p) + 1 /\ Len(p) \in Nat /\ w[Len(p) + 1] = e
      /\ \A i \in 1..Len(p) : w[i] = p[i]
  BY <1>1, <1>2
<1>4. Begins(p, w)
  BY <1>3 DEF Begins
<1>5. w # <<>>
  BY <1>3
<1>6. End(g, s, w) = g.edges[e].to
  BY <1>3, <1>5 DEF End
<1>7. End(g, s, p) = IF Len(p) = 0 THEN s ELSE g.edges[p[Len(p)]].to
  BY DEF End
<1>8. ASSUME IsWalk(g, s, w) PROVE IsWalk(g, s, p) /\ g.edges[e].from = End(g, s, p)
  <2>1. \A i \in 1..(Len(p) + 1) : g.edges[w[i]].from = IF i = 1 THEN s ELSE g.edges[w[i - 1]].to
    BY <1>3, <1>8 DEF IsWalk
  <2>2. \A i \in 1..Len(p) : g.edges[p[i]].from = IF i = 1 THEN s ELSE g.edges[p[i - 1]].to
    <3> TAKE i \in 1..Len(p)
    <3>1. g.edges[w[i]].from = IF i = 1 THEN s ELSE g.edges[w[i - 1]].to
      BY <1>3, <2>1
    <3>2. i # 1 => i - 1 \in 1..Len(p)
      BY <1>3
    <3> QED
      BY <1>3, <3>1, <3>2
  <2>3. g.edges[e].from = IF Len(p) + 1 = 1 THEN s ELSE g.edges[w[Len(p)]].to
    BY <1>3, <2>1
  <2>4. g.edges[e].from = IF Len(p) = 0 THEN s ELSE g.edges[p[Len(p)]].to
    BY <1>3, <2>3
  <2> QED
    BY <1>7, <2>2, <2>4 DEF IsWalk
<1>9. ASSUME IsWalk(g, s, p), g.edges[e].from = End(g, s, p) PROVE IsWalk(g, s, w)
  <2>1. \A i \in 1..Len(p) : g.edges[p[i]].from = IF i = 1 THEN s ELSE g.edges[p[i - 1]].to
    BY <1>9 DEF IsWalk
  <2>2. \A i \in 1..Len(w) : g.edges[w[i]].from = IF i = 1 THEN s ELSE g.edges[w[i - 1]].to
    <3> TAKE i \in 1..Len(w)
    <3>1. CASE i = Len(p) + 1
      <4>1. g.edges[w[i]].from = IF Len(p) = 0 THEN s ELSE g.edges[p[Len(p)]].to
        BY <1>3, <1>7, <1>9, <3>1
      <4> QED
        BY <1>3, <3>1, <4>1
    <3>2. CASE i \in 1..Len(p)
      <4>1. i # 1 => i - 1 \in 1..Len(p)
        BY <1>3, <3>2
      <4> QED
        BY <1>3, <2>1, <3>2, <4>1
    <3> QED
      BY <1>3, <3>1, <3>2
  <2> QED
    BY <1>1, <1>3, <2>2 DEF IsWalk
<1> QED
  BY <1>1, <1>2, <1>3, <1>4, <1>6, <1>8, <1>9

(* The rest of a walk can be walked after any other walk to the same table.  *)
LEMMA Splice ==
  ASSUME NEW g, NEW s, NEW w, IsWalk(g, s, w), NEW k \in 1..Len(w),
         NEW u, IsWalk(g, s, u), End(g, s, u) = g.edges[w[k]].to
  PROVE  \E v : /\ IsWalk(g, s, v)
                /\ Len(v) = Len(u) + Len(w) - k
                /\ End(g, s, v) = End(g, s, w)
<1>1. PICK E : E = DOMAIN g.edges
  OBVIOUS
<1>2. PICK m : m = Len(u)
  OBVIOUS
<1>3. PICK n : n = Len(w)
  OBVIOUS
<1>4. /\ m \in Nat /\ n \in Nat /\ k \in 1..n
      /\ \A i \in 1..m : u[i] \in E
      /\ \A i \in 1..n : w[i] \in E
  BY <1>1, <1>2, <1>3 DEF IsWalk
<1>5. /\ \A i \in 1..m : g.edges[u[i]].from = IF i = 1 THEN s ELSE g.edges[u[i - 1]].to
      /\ \A i \in 1..n : g.edges[w[i]].from = IF i = 1 THEN s ELSE g.edges[w[i - 1]].to
  BY <1>2, <1>3 DEF IsWalk
<1>6. /\ m # 0 => g.edges[u[m]].to = g.edges[w[k]].to
      /\ m = 0 => s = g.edges[w[k]].to
  <2>1. End(g, s, u) = IF u = <<>> THEN s ELSE g.edges[u[Len(u)]].to
    BY DEF End
  <2>2. u = <<>> <=> m = 0
    BY <1>2 DEF IsWalk
  <2> QED
    BY <1>2, <2>1, <2>2
<1>7. PICK v : v = [i \in 1..(m + n - k) |-> IF i <= m THEN u[i] ELSE w[i - m + k]]
  OBVIOUS
<1>8. /\ \A i \in 1..m : v[i] = u[i]
      /\ \A i \in 1..(m + n - k) : i > m => v[i] = w[i - m + k] /\ i - m + k \in 2..n
  BY <1>4, <1>7
<1>9. v \in Seq(E) /\ Len(v) = m + n - k
  <2>1. PICK l \in Nat : l = m + n - k
    BY <1>4
  <2>2. \A i \in 1..l : v[i] \in E
    BY <1>4, <1>8, <2>1
  <2>3. v = [i \in 1..l |-> v[i]]
    BY <1>7, <2>1
  <2>4. v \in [1..l -> E]
    BY <2>2, <2>3
  <2> QED
    BY <2>1, <2>4
<1>10. \A i \in 1..Len(v) : g.edges[v[i]].from = IF i = 1 THEN s ELSE g.edges[v[i - 1]].to
  <2> TAKE i \in 1..Len(v)
  <2>1. i \in 1..(m + n - k)
    BY <1>9
  <2>2. CASE i <= m
    <3>1. i # 1 => i - 1 \in 1..m
      BY <2>1, <2>2, <1>4
    <3> QED
      BY <1>4, <1>5, <1>8, <2>1, <2>2, <3>1
  <2>3. CASE i = m + 1
    <3>1. v[i] = w[k + 1] /\ k + 1 \in 2..n
      BY <1>4, <1>8, <2>1, <2>3
    <3>2. g.edges[v[i]].from = g.edges[w[k]].to
      BY <1>4, <1>5, <3>1
    <3>3. CASE m = 0
      BY <1>6, <2>3, <3>2, <3>3
    <3>4. CASE m # 0
      <4>1. i # 1 /\ v[i - 1] = u[m]
        BY <1>4, <1>8, <2>3, <3>4
      <4> QED
        BY <1>6, <3>2, <3>4, <4>1
    <3> QED
      BY <3>3, <3>4
  <2>4. CASE i > m + 1
    <3>1. PICK j : j = i - m + k
      OBVIOUS
    <3>2. v[i] = w[j] /\ j \in 3..n
      BY <1>4, <1>8, <2>1, <2>4, <3>1
    <3>3. i - 1 \in 1..(m + n - k) /\ i - 1 > m /\ (i - 1) - m + k = j - 1
      BY <1>4, <2>1, <2>4, <3>1
    <3>4. v[i - 1] = w[j - 1]
      BY <1>8, <3>3
    <3>5. g.edges[w[j]].from = g.edges[w[j - 1]].to
      BY <1>5, <3>2
    <3> QED
      BY <1>4, <2>4, <3>2, <3>4, <3>5
  <2> QED
    BY <1>4, <2>1, <2>2, <2>3, <2>4
<1>11. End(g, s, v) = End(g, s, w)
  <2>1. End(g, s, w) = g.edges[w[n]].to
    BY <1>3, <1>4 DEF End
  <2>2. CASE k = n
    <3>1. Len(v) = m
      BY <1>4, <1>9, <2>2
    <3>2. v = <<>> <=> m = 0
      BY <1>9, <3>1
    <3>3. m # 0 => v[m] = u[m]
      BY <1>4, <1>8
    <3> QED
      BY <1>6, <2>1, <2>2, <3>1, <3>2, <3>3 DEF End
  <2>3. CASE k # n
    <3>1. Len(v) \in 1..(m + n - k) /\ Len(v) > m /\ Len(v) - m + k = n
      BY <1>4, <1>9, <2>3
    <3>2. v[Len(v)] = w[n]
      BY <1>8, <3>1
    <3>3. v # <<>>
      BY <3>1
    <3> QED
      BY <2>1, <3>2, <3>3 DEF End
  <2> QED
    BY <2>2, <2>3
<1>12. IsWalk(g, s, v)
  BY <1>1, <1>9, <1>10 DEF IsWalk
<1> QED
  BY <1>2, <1>3, <1>9, <1>11, <1>12

-----------------------------------------------------------------------------
(* One step of the search                                                   *)

\* edge e leads on from the end of path p, to a table not met at a lower depth
LeadsOn(g, p, st, e) ==
  /\ e \in DOMAIN g.edges
  /\ g.edges[e].from = End(g, st.source, p)
  /\ ~(st.seen[g.edges[e].to] < Len(p) + 1)

\* x is st with the edges that lead on from the end of p taken
Expanded(g, p, st, x) ==
  /\ x \in Searches(g) /\ x.source = st.source /\ x.found = st.found
  /\ Len(st.queue) <= Len(x.queue)
  /\ \A i \in 1..Len(st.queue) : x.queue[i] = st.queue[i]
  /\ \A i \in 1..Len(x.queue) : i > Len(st.queue) =>
       \E e : LeadsOn(g, p, st, e) /\ x.queue[i] = Append(p, e)
  /\ \A i, j \in 1..Len(x.queue) :
       i > Len(st.queue) /\ j > Len(st.queue) /\ x.queue[i] = x.queue[j] => i = j
  /\ \A e : LeadsOn(g, p, st, e) => \E i \in 1..Len(x.queue) : x.queue[i] = Append(p, e)
  /\ \A t \in DOMAIN g.out :
       x.seen[t] = IF \E e : LeadsOn(g, p, st, e) /\ g.edges[e].to = t
                   THEN Len(p) + 1 ELSE st.seen[t]

(* What Expand makes of a search: the paths it adds, and the tables they    *)
(* mark.                                                                    *)
LEMMA Expansion ==
  ASSUME NEW g, GraphOk(g), NEW st \in Searches(g), NEW p \in Seq(DOMAIN g.edges),
         End(g, st.source, p) \in DOMAIN g.out, NEW x, x = Expand(g, p, st)
  PROVE  Expanded(g, p, st, x)
<1>1. PICK E : E = DOMAIN g.edges
  BY SMTT(30)
<1> DEFINE out == g.out[End(g, st.source, p)]
           I == {k \in DOMAIN out : ~(st.seen[g.edges[out[k]].to] < Len(p) + 1)}
           new == Selection(out, I)
           added == [k \in DOMAIN new |-> Append(p, new[k])]
           reached == {g.edges[new[k]].to : k \in DOMAIN new}
<1>2. x = [st EXCEPT !.queue = @ \o added,
                     !.seen = [t \in DOMAIN @ |-> IF t \in reached THEN Len(p) + 1 ELSE @[t]]]
  BY Zenon DEF Expand
<1>3. /\ out \in Seq(E)
      /\ \A k \in DOMAIN out : out[k] \in E /\ g.edges[out[k]].from = End(g, st.source, p)
      /\ \A e \in E : g.edges[e].from = End(g, st.source, p) => \E k \in DOMAIN out : out[k] = e
      /\ \A k, l \in DOMAIN out : out[k] = out[l] => k = l
  BY <1>1, SMTT(30) DEF GraphOk
<1>4. /\ I \in SUBSET (DOMAIN out)
      /\ \A k : k \in I <=> k \in DOMAIN out /\ ~(st.seen[g.edges[out[k]].to] < Len(p) + 1)
  OBVIOUS
<1> HIDE DEF out, I
<1>5. new = Selection(out, I)
  OBVIOUS
<1> HIDE DEF new
<1>6. added = [k \in DOMAIN new |-> Append(p, new[k])]
  OBVIOUS
<1>7. \A t : t \in reached <=> \E k \in DOMAIN new : t = g.edges[new[k]].to
  OBVIOUS
<1> HIDE DEF added, reached
<1>8. /\ st = [source |-> st.source, queue |-> st.queue, found |-> st.found, seen |-> st.seen]
      /\ st.source \in DOMAIN g.out
      /\ st.queue \in Seq(Seq(E)) /\ st.found \in Seq(Seq(E)) /\ st.seen \in [DOMAIN g.out -> Nat]
  BY <1>1 DEF Searches
<1>9. /\ x.source = st.source /\ x.found = st.found /\ x.queue = st.queue \o added
       /\ x.seen = [t \in DOMAIN g.out |-> IF t \in reached THEN Len(p) + 1 ELSE st.seen[t]]
       /\ x = [source |-> x.source, queue |-> x.queue, found |-> x.found, seen |-> x.seen]
  BY <1>2, <1>8
<1>10. PICK c \in Nat :
         /\ new \in Seq(E) /\ DOMAIN new = 1..c
         /\ \A k \in 1..c : \E i \in I : new[k] = out[i]
         /\ \A i \in I : \E k \in 1..c : new[k] = out[i]
         /\ \A k, l \in 1..c : new[k] = new[l] => k = l
  <2>1. I \in SUBSET (DOMAIN out)
    BY <1>4, Zenon
  <2>2. /\ IsFiniteSet(I)
        /\ new \in Seq(E)
        /\ DOMAIN new = 1..Cardinality(I)
        /\ \A k \in 1..Cardinality(I) : new[k] = out[Source(I, k)] /\ Source(I, k) \in I
        /\ \A i \in I : \E k \in 1..Cardinality(I) : Source(I, k) = i
        /\ \A k, l \in 1..Cardinality(I) : k < l => Source(I, k) < Source(I, l)
    BY <1>3, <1>5, <2>1, Selections
  <2>3. Cardinality(I) \in Nat
    BY <2>2, FS_CardinalityType
  <2>4. \A k, l \in 1..Cardinality(I) : new[k] = new[l] => k = l
    <3>1. \A k, l \in 1..Cardinality(I) : new[k] = new[l] => Source(I, k) = Source(I, l)
      BY <1>3, <2>1, <2>2
    <3>2. \A k \in 1..Cardinality(I) : Source(I, k) \in Nat
      BY <1>3, <2>1, <2>2
    <3>3. \A k, l \in 1..Cardinality(I) : k = l \/ k < l \/ l < k
      BY <2>3
    <3> QED
      BY <2>2, <3>1, <3>2, <3>3
  <2> QED
    BY <2>2, <2>3, <2>4
<1>11. \A k \in 1..c : LeadsOn(g, p, st, new[k])
  BY <1>1, <1>3, <1>4, <1>10 DEF LeadsOn
<1>12. \A e : LeadsOn(g, p, st, e) => \E k \in 1..c : new[k] = e
  <2> TAKE e
  <2> HAVE LeadsOn(g, p, st, e)
  <2>1. e \in E /\ g.edges[e].from = End(g, st.source, p) /\ ~(st.seen[g.edges[e].to] < Len(p) + 1)
    BY <1>1 DEF LeadsOn
  <2>2. PICK k \in DOMAIN out : out[k] = e
    BY <1>3, <2>1
  <2>3. k \in I
    BY <1>4, <2>1, <2>2
  <2> QED
    BY <1>10, <2>2, <2>3
<1>13. /\ added \in Seq(Seq(E)) /\ Len(added) = c
       /\ \A k \in 1..c : added[k] = Append(p, new[k])
  <2>1. \A k \in 1..c : new[k] \in E /\ Append(p, new[k]) \in Seq(E)
    BY <1>1, <1>10
  <2>2. added = [k \in 1..c |-> Append(p, new[k])]
    BY <1>6, <1>10
  <2>3. added \in [1..c -> Seq(E)] /\ \A k \in 1..c : added[k] = Append(p, new[k])
    BY <2>1, <2>2
  <2> QED
    BY <2>3
<1>14. PICK n : n = Len(st.queue)
  OBVIOUS
<1>15. /\ n \in Nat /\ x.queue \in Seq(Seq(E)) /\ Len(x.queue) = n + c
       /\ \A i \in 1..(n + c) : x.queue[i] = IF i <= n THEN st.queue[i] ELSE added[i - n]
  <2>1. PICK S : S = Seq(E)
    OBVIOUS
  <2>2. st.queue \in Seq(S) /\ added \in Seq(S) /\ n \in Nat
    BY <1>8, <1>13, <1>14, <2>1
  <2>3. PICK z : z = st.queue \o added
    OBVIOUS
  <2>4. /\ z \in Seq(S)
        /\ Len(z) = Len(st.queue) + Len(added)
        /\ \A i \in 1..(Len(st.queue) + Len(added)) :
             z[i] = IF i <= Len(st.queue) THEN st.queue[i] ELSE added[i - Len(st.queue)]
    BY <2>2, <2>3, ConcatProperties
  <2>5. z = x.queue
    BY <1>9, <2>3
  <2> QED
    BY <1>13, <1>14, <2>1, <2>2, <2>4, <2>5
<1>16. x \in Searches(g)
  <2>1. Len(p) + 1 \in Nat
    OBVIOUS
  <2>2. x.seen \in [DOMAIN g.out -> Nat]
    BY <1>8, <1>9, <2>1
  <2> QED
    BY <1>1, <1>8, <1>9, <1>15, <2>2 DEF Searches
<1>17. \A i \in 1..(n + c) : i > n => i - n \in 1..c /\ x.queue[i] = Append(p, new[i - n])
  BY <1>13, <1>15, SMTT(30)
<1>18. \A i \in 1..(n + c) : i > n => \E e : LeadsOn(g, p, st, e) /\ x.queue[i] = Append(p, e)
  BY <1>11, <1>17
<1>19. \A i, j \in 1..(n + c) : i > n /\ j > n /\ x.queue[i] = x.queue[j] => i = j
  <2> SUFFICES ASSUME NEW i \in 1..(n + c), NEW j \in 1..(n + c), i > n, j > n,
                      x.queue[i] = x.queue[j]
               PROVE  i = j
    OBVIOUS
  <2>1. PICK k \in 1..c : k = i - n /\ x.queue[i] = Append(p, new[k])
    BY <1>17
  <2>2. PICK l \in 1..c : l = j - n /\ x.queue[j] = Append(p, new[l])
    BY <1>17
  <2>3. new[k] \in E /\ new[l] \in E
    BY <1>10
  <2>4. Append(p, new[k])[Len(p) + 1] = new[k] /\ Append(p, new[l])[Len(p) + 1] = new[l]
    BY <1>1, <2>3, LongerWalk
  <2>5. new[k] = new[l]
    <3>1. Append(p, new[k]) = Append(p, new[l])
      BY <2>1, <2>2
    <3> QED
      BY <2>4, <3>1
  <2>6. k = l
    BY <1>10, <2>5
  <2> QED
    BY <1>15, <2>1, <2>2, <2>6
<1>20. ASSUME NEW e, LeadsOn(g, p, st, e)
       PROVE  \E i \in 1..(n + c) : x.queue[i] = Append(p, e)
  <2>1. PICK k \in 1..c : new[k] = e
    BY <1>12, <1>20
  <2>2. n + k \in 1..(n + c) /\ n + k > n /\ (n + k) - n = k
    BY <1>15
  <2>3. x.queue[n + k] = Append(p, e)
    BY <1>17, <2>1, <2>2
  <2> QED
    BY <2>2, <2>3
<1>21. \A t : t \in reached <=> \E e : LeadsOn(g, p, st, e) /\ g.edges[e].to = t
  <2>1. \A t : t \in reached <=> \E k \in 1..c : t = g.edges[new[k]].to
    BY <1>7, <1>10
  <2> QED
    BY <1>11, <1>12, <2>1, Zenon
<1>22. \A t \in DOMAIN g.out :
         x.seen[t] = IF \E e : LeadsOn(g, p, st, e) /\ g.edges[e].to = t
                     THEN Len(p) + 1 ELSE st.seen[t]
  BY <1>9, <1>21
<1>23. n <= n + c /\ \A i \in 1..n : x.queue[i] = st.queue[i]
  <2>1. n <= n + c
    BY <1>10, <1>15
  <2>2. ASSUME NEW i \in 1..n PROVE x.queue[i] = st.queue[i]
    <3>1. i \in 1..(n + c) /\ i <= n
      BY <1>10, <1>15
    <3> QED
      BY <1>15, <3>1
  <2> QED
    BY <2>1, <2>2
<1>24. Len(x.queue) = n + c /\ Len(st.queue) = n
  BY <1>14, <1>15
<1>25. /\ Len(st.queue) <= Len(x.queue)
       /\ \A i \in 1..Len(st.queue) : x.queue[i] = st.queue[i]
  BY <1>23, <1>24, Zenon
<1>26. \A i \in 1..Len(x.queue) : i > Len(st.queue) =>
         \E e : LeadsOn(g, p, st, e) /\ x.queue[i] = Append(p, e)
  BY <1>18, <1>24, Zenon
<1>27. \A i, j \in 1..Len(x.queue) :
         i > Len(st.queue) /\ j > Len(st.queue) /\ x.queue[i] = x.queue[j] => i = j
  BY <1>19, <1>24, Zenon
<1>28. \A e : LeadsOn(g, p, st, e) => \E i \in 1..Len(x.queue) : x.queue[i] = Append(p, e)
  BY <1>20, <1>24, Zenon
<1> QED
  BY <1>9, <1>16, <1>22, <1>25, <1>26, <1>27, <1>28, Zenon DEF Expanded

-----------------------------------------------------------------------------
(* What holds of a search of g from s to t, of paths of at most max edges   *)

Shortest(g, s, t, max, w) ==
  /\ IsWalk(g, s, w) /\ End(g, s, w) = t /\ Len(w) <= max
  /\ \A v : IsWalk(g, s, v) /\ End(g, s, v) = t => Len(w) <= Len(v)

\* its queue has walks, by length; the last table of each is met at that depth
QueueOk(g, s, max, st) ==
  \A i \in 1..Len(st.queue) :
    /\ IsWalk(g, s, st.queue[i])
    /\ Len(st.queue[i]) <= max + 1
    /\ Len(st.queue[i]) = st.seen[End(g, s, st.queue[i])]
    /\ Len(st.queue[i]) <= Len(st.queue[1]) + 1
    /\ \A j \in 1..Len(st.queue) : i <= j => Len(st.queue[i]) <= Len(st.queue[j])

\* it has found walks to the target, no longer than those in the queue
FoundOk(g, s, t, max, st) ==
  \A i \in 1..Len(st.found) :
    /\ IsWalk(g, s, st.found[i])
    /\ Len(st.found[i]) <= max
    /\ End(g, s, st.found[i]) = t
    /\ Len(st.found[i]) = st.seen[t]
    /\ \A j \in 1..Len(st.queue) : Len(st.found[i]) <= Len(st.queue[j])

\* no walk is in the queue or found twice, or after one it goes on from
Apart(E, q, f) ==
  /\ \A i, j \in 1..Len(q) : q[i] = q[j] => i = j
  /\ \A i, j \in 1..Len(f) : f[i] = f[j] => i = j
  /\ \A i \in 1..Len(f), j \in 1..Len(q) : f[i] # q[j]
  /\ \A i, j \in 1..Len(q), e \in E : q[i] # Append(q[j], e)
  /\ \A i \in 1..Len(f), j \in 1..Len(q), e \in E :
       f[i] # Append(q[j], e)

EachOnce(g, st) == Apart(DOMAIN g.edges, st.queue, st.found)

\* a depth at which a table was met is that of a walk
SeenOk(g, s, max, st) ==
  \A y \in DOMAIN g.out : st.seen[y] <= max + 1 =>
    \E w : IsWalk(g, s, w) /\ End(g, s, w) = y /\ Len(w) = st.seen[y]

\* a shortest walk is found, or what it begins with is in the queue
Complete(g, s, t, max, st) ==
  \A w : Shortest(g, s, t, max, w) =>
    \/ \E i \in 1..Len(st.found) : st.found[i] = w
    \/ \E i \in 1..Len(st.queue) : Begins(st.queue[i], w)

SearchOk(g, s, t, max, st) ==
  /\ st \in Searches(g) /\ st.source = s
  /\ QueueOk(g, s, max, st)
  /\ FoundOk(g, s, t, max, st)
  /\ EachOnce(g, st)
  /\ SeenOk(g, s, max, st)
  /\ Complete(g, s, t, max, st)

(* A search that starts is as a search should be.                           *)
LEMMA StartOk ==
  ASSUME NEW g, GraphOk(g), NEW s \in DOMAIN g.out, NEW t, NEW max \in Nat,
         NEW st, st = [source |-> s, queue |-> << <<>> >>, found |-> <<>>,
                       seen |-> [y \in DOMAIN g.out |-> IF y = s THEN 0 ELSE max + 2]]
  PROVE  SearchOk(g, s, t, max, st)
<1>1. PICK E : E = DOMAIN g.edges
  OBVIOUS
<1>2. /\ st.source = s /\ st.queue = << <<>> >> /\ st.found = <<>>
      /\ st.seen = [y \in DOMAIN g.out |-> IF y = s THEN 0 ELSE max + 2]
  OBVIOUS
<1>3. Len(st.queue) = 1 /\ st.queue[1] = <<>> /\ Len(<<>>) = 0 /\ Len(st.found) = 0
  BY <1>2
<1>4. st \in Searches(g)
  <2>1. <<>> \in Seq(E) /\ st.queue \in Seq(Seq(E)) /\ st.found \in Seq(Seq(E))
    BY <1>2
  <2>2. st.seen \in [DOMAIN g.out -> Nat]
    BY <1>2
  <2> QED
    BY <1>1, <2>1, <2>2 DEF Searches
<1>5. IsWalk(g, s, <<>>) /\ End(g, s, <<>>) = s
  BY EmptyWalk
<1>6. \A i : i \in 1..1 <=> i = 1
  OBVIOUS
<1>7. QueueOk(g, s, max, st)
  <2>1. st.seen[s] = 0
    BY <1>2
  <2> QED
    BY <1>3, <1>5, <1>6, <2>1 DEF QueueOk
<1>8. FoundOk(g, s, t, max, st)
  BY <1>3 DEF FoundOk
<1>9. EachOnce(g, st)
  <2>1. \A e \in E : <<>> # Append(<<>>, e)
    <3> TAKE e \in E
    <3>1. Len(Append(<<>>, e)) = 1
      OBVIOUS
    <3> QED
      BY <1>3, <3>1
  <2> QED
    BY <1>1, <1>3, <1>6, <2>1 DEF EachOnce, Apart
<1>10. SeenOk(g, s, max, st)
  <2> SUFFICES ASSUME NEW y \in DOMAIN g.out, st.seen[y] <= max + 1
               PROVE  \E w : IsWalk(g, s, w) /\ End(g, s, w) = y /\ Len(w) = st.seen[y]
    BY DEF SeenOk
  <2>1. y = s /\ st.seen[y] = 0
    BY <1>2
  <2> QED
    BY <1>3, <1>5, <2>1
<1>11. Complete(g, s, t, max, st)
  <2>1. \A w : IsWalk(g, s, w) => Begins(<<>>, w)
    BY <1>3 DEF Begins, IsWalk
  <2> QED
    BY <1>3, <1>6, <2>1 DEF Complete, Shortest
<1> QED
  BY <1>2, <1>4, <1>7, <1>8, <1>9, <1>10, <1>11 DEF SearchOk

\* found are the shortest walks, each once
FoundAll(g, s, t, max, found) ==
  /\ found \in Seq(Seq(DOMAIN g.edges))
  /\ \A w : Shortest(g, s, t, max, w) <=> \E i \in 1..Len(found) : found[i] = w
  /\ \A i, j \in 1..Len(found) : found[i] = found[j] => i = j

(* A search without a queue has found exactly the shortest walks.           *)
LEMMA EndOk ==
  ASSUME NEW g, NEW s, NEW t, NEW max \in Nat, NEW st, SearchOk(g, s, t, max, st), st.queue = <<>>
  PROVE  FoundAll(g, s, t, max, st.found)
<1>1. st.found \in Seq(Seq(DOMAIN g.edges))
  BY DEF SearchOk, Searches
<1>2. Len(st.queue) = 0
  OBVIOUS
<1>3. ASSUME NEW w, Shortest(g, s, t, max, w)
      PROVE  \E i \in 1..Len(st.found) : st.found[i] = w
  BY <1>2, <1>3 DEF SearchOk, Complete
<1>4. ASSUME NEW i \in 1..Len(st.found)
      PROVE  Shortest(g, s, t, max, st.found[i])
  <2>1. PICK f : f = st.found[i]
    OBVIOUS
  <2>2. IsWalk(g, s, f) /\ Len(f) <= max /\ End(g, s, f) = t /\ Len(f) = st.seen[t]
    BY <2>1 DEF SearchOk, FoundOk
  <2>3. ASSUME NEW v, IsWalk(g, s, v), End(g, s, v) = t, Len(v) < Len(f)
        PROVE  FALSE
    <3>1. PICK I : I = {n \in 1..Len(f) : \E u : IsWalk(g, s, u) /\ End(g, s, u) = t /\ Len(u) = n - 1}
      OBVIOUS
    <3>2. Len(v) \in Nat /\ Len(f) \in Nat
      BY <2>2, <2>3 DEF IsWalk
    <3>3. Len(v) + 1 \in I /\ I \in SUBSET (1..Len(f))
      <4>1. Len(v) + 1 \in 1..Len(f) /\ Len(v) = (Len(v) + 1) - 1
        BY <2>3, <3>2
      <4> QED
        BY <2>3, <3>1, <4>1
    <3>4. PICK n \in I : \A k \in I : n <= k
      BY <3>2, <3>3, LeastOf
    <3>5. n \in 1..Len(f) /\ \E u : IsWalk(g, s, u) /\ End(g, s, u) = t /\ Len(u) = n - 1
      BY <3>1
    <3>6. PICK u : IsWalk(g, s, u) /\ End(g, s, u) = t /\ Len(u) = n - 1
      BY <3>5
    <3>7. Shortest(g, s, t, max, u)
      <4>1. Len(u) <= max
        BY <2>2, <3>2, <3>5, <3>6
      <4>2. ASSUME NEW x, IsWalk(g, s, x), End(g, s, x) = t, Len(x) < Len(u)
            PROVE  FALSE
        <5>1. Len(x) \in Nat
          BY <4>2 DEF IsWalk
        <5>2. Len(x) + 1 \in 1..Len(f) /\ Len(x) = (Len(x) + 1) - 1 /\ Len(x) + 1 < n
          BY <3>2, <3>5, <3>6, <4>2, <5>1
        <5>3. Len(x) + 1 \in I
          BY <3>1, <4>2, <5>2
        <5> QED
          BY <3>4, <3>5, <5>1, <5>2, <5>3
      <4>3. \A x : IsWalk(g, s, x) /\ End(g, s, x) = t => Len(u) <= Len(x)
        <5> TAKE x
        <5> HAVE IsWalk(g, s, x) /\ End(g, s, x) = t
        <5>1. Len(x) \in Nat /\ Len(u) \in Nat
          BY <3>6 DEF IsWalk
        <5> QED
          BY <4>2, <5>1
      <4> QED
        BY <3>6, <4>1, <4>3 DEF Shortest
    <3>8. PICK k \in 1..Len(st.found) : st.found[k] = u
      BY <1>3, <3>7
    <3>9. Len(u) = st.seen[t]
      BY <3>8 DEF SearchOk, FoundOk
    <3> QED
      BY <2>2, <3>2, <3>5, <3>6, <3>9
  <2>4. \A v : IsWalk(g, s, v) /\ End(g, s, v) = t => Len(f) <= Len(v)
    <3> TAKE v
    <3> HAVE IsWalk(g, s, v) /\ End(g, s, v) = t
    <3>1. Len(v) \in Nat /\ Len(f) \in Nat
      BY <2>2 DEF IsWalk
    <3> QED
      BY <2>3, <3>1
  <2> QED
    BY <2>1, <2>2, <2>4 DEF Shortest
<1>5. \A i, j \in 1..Len(st.found) : st.found[i] = st.found[j] => i = j
  BY DEF SearchOk, EachOnce, Apart
<1> QED
  BY <1>1, <1>3, <1>4, <1>5, Zenon DEF FoundAll

\* p has just been taken from the head of the queue
HeadOk(g, s, t, max, p, st) ==
  /\ IsWalk(g, s, p) /\ Len(p) <= max + 1 /\ Len(p) = st.seen[End(g, s, p)]
  /\ \A j \in 1..Len(st.queue) :
       /\ Len(p) <= Len(st.queue[j]) /\ Len(st.queue[j]) <= Len(p) + 1
       /\ st.queue[j] # p
       /\ \A e \in DOMAIN g.edges : st.queue[j] # Append(p, e) /\ p # Append(st.queue[j], e)
  /\ \A i \in 1..Len(st.found) :
       /\ Len(st.found[i]) <= Len(p)
       /\ st.found[i] # p
       /\ \A e \in DOMAIN g.edges : st.found[i] # Append(p, e)
  /\ \A w : Shortest(g, s, t, max, w) =>
       \/ \E i \in 1..Len(st.found) : st.found[i] = w
       \/ Begins(p, w)
       \/ \E i \in 1..Len(st.queue) : Begins(st.queue[i], w)

\* what is left when the path at the head of the queue has been taken
RestOk(g, s, t, max, p, rest) ==
  /\ rest \in Searches(g) /\ rest.source = s
  /\ QueueOk(g, s, max, rest) /\ FoundOk(g, s, t, max, rest)
  /\ EachOnce(g, rest) /\ SeenOk(g, s, max, rest)
  /\ HeadOk(g, s, t, max, p, rest)

Rest(st) == [st EXCEPT !.queue = Tail(@)]

(* What holds once the head of the queue has been taken.                    *)
LEMMA TailOk ==
  ASSUME NEW g, NEW s, NEW t, NEW max \in Nat, NEW st, SearchOk(g, s, t, max, st), st.queue # <<>>,
         NEW rest, rest = Rest(st)
  PROVE  RestOk(g, s, t, max, st.queue[1], rest) /\ rest.found = st.found
<1>1. PICK S : S = Seq(DOMAIN g.edges)
  OBVIOUS
<1>2. PICK n : n = Len(st.queue)
  OBVIOUS
<1>3. /\ st = [source |-> st.source, queue |-> st.queue, found |-> st.found, seen |-> st.seen]
      /\ st.source \in DOMAIN g.out /\ st.source = s
      /\ st.queue \in Seq(S) /\ st.found \in Seq(S) /\ st.seen \in [DOMAIN g.out -> Nat]
  BY <1>1 DEF SearchOk, Searches
<1>4. /\ rest = [source |-> st.source, queue |-> Tail(st.queue), found |-> st.found, seen |-> st.seen]
      /\ rest.source = s /\ rest.queue = Tail(st.queue)
      /\ rest.found = st.found /\ rest.seen = st.seen
  BY <1>3 DEF Rest
<1>5. /\ n \in Nat \ {0} /\ rest.queue \in Seq(S) /\ Len(rest.queue) = n - 1
      /\ \A i \in 1..(n - 1) : rest.queue[i] = st.queue[i + 1]
  BY <1>2, <1>3, <1>4
<1>6. rest \in Searches(g)
  BY <1>1, <1>3, <1>4, <1>5 DEF Searches
<1>7. \A i \in 1..n : /\ IsWalk(g, s, st.queue[i]) /\ Len(st.queue[i]) \in Nat
                      /\ Len(st.queue[i]) <= max + 1
                      /\ Len(st.queue[i]) = st.seen[End(g, s, st.queue[i])]
                      /\ Len(st.queue[i]) <= Len(st.queue[1]) + 1
                      /\ \A j \in 1..n : i <= j => Len(st.queue[i]) <= Len(st.queue[j])
  BY <1>2 DEF SearchOk, QueueOk, IsWalk
<1>8. \A i \in 1..(n - 1) : i + 1 \in 1..n /\ i + 1 # 1
  BY <1>5
<1>9. QueueOk(g, s, max, rest)
  <2>1. ASSUME NEW i \in 1..(n - 1)
        PROVE  /\ IsWalk(g, s, rest.queue[i]) /\ Len(rest.queue[i]) <= max + 1
               /\ Len(rest.queue[i]) = rest.seen[End(g, s, rest.queue[i])]
    BY <1>4, <1>5, <1>7, <1>8
  <2>2. ASSUME NEW i \in 1..(n - 1)
        PROVE  Len(rest.queue[i]) <= Len(rest.queue[1]) + 1
    <3>1. Len(st.queue[i + 1]) <= Len(st.queue[1]) + 1 /\ Len(st.queue[i + 1]) \in Nat
      BY <1>7, <1>8
    <3>2. 1 \in 1..(n - 1) /\ 2 \in 1..n /\ 1 \in 1..n
      BY <1>5
    <3>3. Len(st.queue[1]) <= Len(st.queue[2]) /\ Len(st.queue[1]) \in Nat /\ Len(st.queue[2]) \in Nat
      BY <1>7, <3>2
    <3>4. rest.queue[1] = st.queue[2] /\ rest.queue[i] = st.queue[i + 1]
      BY <1>5, <3>2
    <3>5. PICK a, b, c : a = Len(st.queue[1]) /\ b = Len(st.queue[2]) /\ c = Len(st.queue[i + 1])
      OBVIOUS
    <3>6. c <= a + 1 /\ a <= b /\ a \in Nat /\ b \in Nat /\ c \in Nat
      BY <3>1, <3>3, <3>5, Zenon
    <3>7. c <= b + 1
      BY <3>6
    <3> QED
      BY <3>4, <3>5, <3>7
  <2>3. ASSUME NEW i \in 1..(n - 1), NEW j \in 1..(n - 1), i <= j
        PROVE  Len(rest.queue[i]) <= Len(rest.queue[j])
    <3>1. i + 1 <= j + 1
      BY <2>3
    <3> QED
      BY <1>5, <1>7, <1>8, <3>1
  <2> QED
    BY <1>5, <2>1, <2>2, <2>3 DEF QueueOk
<1>10. FoundOk(g, s, t, max, rest)
  <2>1. \A i \in 1..Len(st.found) :
          /\ IsWalk(g, s, st.found[i]) /\ Len(st.found[i]) <= max
          /\ End(g, s, st.found[i]) = t /\ Len(st.found[i]) = st.seen[t]
          /\ \A j \in 1..n : Len(st.found[i]) <= Len(st.queue[j])
    BY <1>2 DEF SearchOk, FoundOk
  <2>2. \A i \in 1..Len(st.found) : \A j \in 1..(n - 1) : Len(st.found[i]) <= Len(rest.queue[j])
    BY <1>5, <1>8, <2>1
  <2> QED
    BY <1>4, <1>5, <2>1, <2>2 DEF FoundOk
<1>11. /\ \A i, j \in 1..n : st.queue[i] = st.queue[j] => i = j
       /\ \A i, j \in 1..Len(st.found) : st.found[i] = st.found[j] => i = j
       /\ \A i \in 1..Len(st.found), j \in 1..n : st.found[i] # st.queue[j]
       /\ \A i, j \in 1..n, e \in DOMAIN g.edges : st.queue[i] # Append(st.queue[j], e)
       /\ \A i \in 1..Len(st.found), j \in 1..n, e \in DOMAIN g.edges :
            st.found[i] # Append(st.queue[j], e)
  BY <1>2 DEF SearchOk, EachOnce, Apart
<1>12. EachOnce(g, rest)
  <2>1. \A i, j \in 1..(n - 1) : rest.queue[i] = rest.queue[j] => i = j
    <3> SUFFICES ASSUME NEW i \in 1..(n - 1), NEW j \in 1..(n - 1), rest.queue[i] = rest.queue[j]
                 PROVE  i = j
      OBVIOUS
    <3>1. st.queue[i + 1] = st.queue[j + 1] /\ i + 1 \in 1..n /\ j + 1 \in 1..n
      BY <1>5, <1>8
    <3>2. i + 1 = j + 1
      BY <1>11, <3>1
    <3> QED
      BY <3>2
  <2>2. \A i \in 1..Len(st.found), j \in 1..(n - 1) : st.found[i] # rest.queue[j]
    BY <1>5, <1>8, <1>11
  <2>3. \A i, j \in 1..(n - 1), e \in DOMAIN g.edges : rest.queue[i] # Append(rest.queue[j], e)
    <3> TAKE i, j \in 1..(n - 1), e \in DOMAIN g.edges
    <3>1. rest.queue[i] = st.queue[i + 1] /\ rest.queue[j] = st.queue[j + 1]
      BY <1>5
    <3>2. st.queue[i + 1] # Append(st.queue[j + 1], e)
      BY <1>8, <1>11, Zenon
    <3> QED
      BY <3>1, <3>2, Zenon
  <2>4. \A i \in 1..Len(st.found), j \in 1..(n - 1), e \in DOMAIN g.edges :
          st.found[i] # Append(rest.queue[j], e)
    <3> TAKE i \in 1..Len(st.found), j \in 1..(n - 1), e \in DOMAIN g.edges
    <3>1. rest.queue[j] = st.queue[j + 1]
      BY <1>5
    <3>2. st.found[i] # Append(st.queue[j + 1], e)
      BY <1>8, <1>11, Zenon
    <3> QED
      BY <3>1, <3>2, Zenon
  <2>5. /\ \A i, j \in 1..Len(rest.queue) : rest.queue[i] = rest.queue[j] => i = j
        /\ \A i \in 1..Len(rest.found), j \in 1..Len(rest.queue) : rest.found[i] # rest.queue[j]
    BY <1>4, <1>5, <2>1, <2>2
  <2>6. \A i, j \in 1..Len(rest.queue), e \in DOMAIN g.edges : rest.queue[i] # Append(rest.queue[j], e)
    <3> TAKE i, j \in 1..Len(rest.queue), e \in DOMAIN g.edges
    <3>1. i \in 1..(n - 1) /\ j \in 1..(n - 1)
      BY <1>5
    <3> QED
      BY <2>3, <3>1, Zenon
  <2>7. \A i \in 1..Len(rest.found), j \in 1..Len(rest.queue), e \in DOMAIN g.edges :
          rest.found[i] # Append(rest.queue[j], e)
    <3> TAKE i \in 1..Len(rest.found), j \in 1..Len(rest.queue), e \in DOMAIN g.edges
    <3>1. i \in 1..Len(st.found) /\ rest.found[i] = st.found[i] /\ j \in 1..(n - 1)
      BY <1>4, <1>5
    <3>2. st.found[i] # Append(rest.queue[j], e)
      BY <2>4, <3>1, Zenon
    <3> QED
      BY <3>1, <3>2, Zenon
  <2>8. \A i, j \in 1..Len(rest.found) : rest.found[i] = rest.found[j] => i = j
    BY <1>4, <1>11, Zenon
  <2> QED
    BY <2>5, <2>6, <2>7, <2>8, Zenon DEF EachOnce, Apart
<1>13. SeenOk(g, s, max, rest)
  BY <1>4 DEF SearchOk, SeenOk
<1>14. PICK p : p = st.queue[1]
  OBVIOUS
<1>15. HeadOk(g, s, t, max, p, rest)
  <2>1. 1 \in 1..n
    BY <1>5
  <2>2. IsWalk(g, s, p) /\ Len(p) <= max + 1 /\ Len(p) = rest.seen[End(g, s, p)]
    BY <1>4, <1>7, <1>14, <2>1
  <2>3. ASSUME NEW j \in 1..(n - 1)
        PROVE  /\ Len(p) <= Len(rest.queue[j]) /\ Len(rest.queue[j]) <= Len(p) + 1
               /\ rest.queue[j] # p
               /\ \A e \in DOMAIN g.edges : rest.queue[j] # Append(p, e) /\ p # Append(rest.queue[j], e)
    <3>1. rest.queue[j] = st.queue[j + 1] /\ j + 1 \in 1..n /\ j + 1 # 1 /\ 1 <= j + 1
      BY <1>5, <1>8
    <3>2. Len(p) <= Len(st.queue[j + 1]) /\ Len(st.queue[j + 1]) <= Len(p) + 1
      BY <1>7, <1>14, <2>1, <3>1
    <3>3. st.queue[j + 1] # p
      BY <1>11, <1>14, <2>1, <3>1
    <3>4. \A e \in DOMAIN g.edges : st.queue[j + 1] # Append(p, e) /\ p # Append(st.queue[j + 1], e)
      BY <1>11, <1>14, <2>1, <3>1
    <3> QED
      BY <3>1, <3>2, <3>3, <3>4
  <2>4. \A i \in 1..Len(st.found) :
          /\ Len(st.found[i]) <= Len(p) /\ st.found[i] # p
          /\ \A e \in DOMAIN g.edges : st.found[i] # Append(p, e)
    <3>1. \A i \in 1..Len(st.found) : Len(st.found[i]) <= Len(p)
      BY <1>2, <1>14, <2>1 DEF SearchOk, FoundOk
    <3> QED
      BY <1>11, <1>14, <2>1, <3>1
  <2>5. ASSUME NEW w, Shortest(g, s, t, max, w), ~Begins(p, w),
               ~\E i \in 1..Len(st.found) : st.found[i] = w
        PROVE  \E i \in 1..(n - 1) : Begins(rest.queue[i], w)
    <3>1. PICK i \in 1..n : Begins(st.queue[i], w)
      BY <1>2, <2>5 DEF SearchOk, Complete
    <3>2. i # 1
      BY <1>14, <2>5, <3>1
    <3>3. i - 1 \in 1..(n - 1) /\ (i - 1) + 1 = i
      BY <1>5, <3>1, <3>2
    <3>4. rest.queue[i - 1] = st.queue[i]
      BY <1>5, <3>3
    <3> QED
      BY <3>1, <3>3, <3>4
  <2>6. \A w : Shortest(g, s, t, max, w) =>
          \/ \E i \in 1..Len(st.found) : st.found[i] = w
          \/ Begins(p, w)
          \/ \E i \in 1..(n - 1) : Begins(rest.queue[i], w)
    BY <2>5, Zenon
  <2>7. \A j \in 1..Len(rest.queue) :
          /\ Len(p) <= Len(rest.queue[j]) /\ Len(rest.queue[j]) <= Len(p) + 1
          /\ rest.queue[j] # p
          /\ \A e \in DOMAIN g.edges : rest.queue[j] # Append(p, e) /\ p # Append(rest.queue[j], e)
    <3> TAKE j \in 1..Len(rest.queue)
    <3>1. j \in 1..(n - 1)
      BY <1>5
    <3> QED
      BY <2>3, <3>1, Zenon
  <2>8. \A i \in 1..Len(rest.found) :
          /\ Len(rest.found[i]) <= Len(p) /\ rest.found[i] # p
          /\ \A e \in DOMAIN g.edges : rest.found[i] # Append(p, e)
    <3> TAKE i \in 1..Len(rest.found)
    <3>1. i \in 1..Len(st.found) /\ rest.found[i] = st.found[i]
      BY <1>4
    <3> QED
      BY <2>4, <3>1
  <2>9. \A w : Shortest(g, s, t, max, w) =>
          \/ \E i \in 1..Len(rest.found) : rest.found[i] = w
          \/ Begins(p, w)
          \/ \E i \in 1..Len(rest.queue) : Begins(rest.queue[i], w)
    BY <1>4, <1>5, <2>6
  <2> QED
    BY <2>2, <2>7, <2>8, <2>9, Zenon DEF HeadOk
<1> QED
  BY <1>4, <1>6, <1>9, <1>10, <1>12, <1>13, <1>14, <1>15 DEF RestOk

(* A path that is no shorter than one it begins is that path.               *)
LEMMA BeginsSame ==
  ASSUME NEW S, NEW p \in Seq(S), NEW w \in Seq(S), Begins(p, w), Len(w) <= Len(p)
  PROVE  p = w
<1>1. PICK n \in Nat : n = Len(p)
  OBVIOUS
<1>2. Len(w) = n /\ \A i \in 1..n : p[i] = w[i]
  <2>1. Len(w) \in Nat
    OBVIOUS
  <2> QED
    BY <1>1, <2>1 DEF Begins
<1>3. p \in [1..n -> S] /\ w \in [1..n -> S]
  BY <1>1, <1>2
<1> QED
  BY <1>2, <1>3

\* the ends of walks are tables
LEMMA EndIsTable ==
  ASSUME NEW g, GraphOk(g), NEW s \in DOMAIN g.out, NEW p, IsWalk(g, s, p)
  PROVE  End(g, s, p) \in DOMAIN g.out
<1>1. CASE p = <<>>
  BY <1>1 DEF End
<1>2. CASE p # <<>>
  <2>1. Len(p) \in 1..Len(p) /\ p[Len(p)] \in DOMAIN g.edges
    BY <1>2 DEF IsWalk
  <2>2. g.edges[p[Len(p)]].to \in DOMAIN g.out
    BY <2>1 DEF GraphOk
  <2> QED
    BY <1>2, <2>2 DEF End
<1> QED
  BY <1>1, <1>2

(* A path that is too long, or no shorter than one that was found, can be   *)
(* dropped.                                                                 *)
LEMMA DropOk ==
  ASSUME NEW g, NEW s, NEW t, NEW max \in Nat, NEW p, NEW rest, RestOk(g, s, t, max, p, rest),
         \/ Len(p) > max
         \/ End(g, s, p) # t /\ rest.found # <<>> /\ Len(p) >= Len(rest.found[1])
  PROVE  SearchOk(g, s, t, max, rest)
<1>1. ASSUME NEW w, Shortest(g, s, t, max, w), Begins(p, w)
      PROVE  FALSE
  <2>1. /\ p \in Seq(DOMAIN g.edges) /\ w \in Seq(DOMAIN g.edges)
        /\ End(g, s, w) = t /\ Len(w) <= max
        /\ Len(p) <= Len(w)
    BY <1>1 DEF RestOk, HeadOk, Shortest, IsWalk, Begins
  <2>2. Len(p) \in Nat /\ Len(w) \in Nat
    BY <2>1
  <2>3. CASE Len(p) > max
    BY <2>1, <2>2, <2>3
  <2>4. CASE End(g, s, p) # t /\ rest.found # <<>> /\ Len(p) >= Len(rest.found[1])
    <3>1. 1 \in 1..Len(rest.found)
      <4>1. rest.found \in Seq(Seq(DOMAIN g.edges))
        BY DEF RestOk, Searches
      <4> QED
        BY <2>4, <4>1
    <3>2. IsWalk(g, s, rest.found[1]) /\ End(g, s, rest.found[1]) = t
      BY <3>1 DEF RestOk, FoundOk
    <3>3. Len(w) <= Len(rest.found[1]) /\ Len(rest.found[1]) \in Nat
      BY <1>1, <3>2 DEF Shortest, IsWalk
    <3>4. Len(w) <= Len(p)
      BY <2>2, <2>4, <3>3
    <3>5. p = w
      BY <1>1, <2>1, <3>4, BeginsSame
    <3> QED
      BY <2>1, <2>4, <3>5
  <2> QED
    BY <2>3, <2>4
<1>2. Complete(g, s, t, max, rest)
  BY <1>1 DEF RestOk, HeadOk, Complete
<1> QED
  BY <1>2 DEF RestOk, SearchOk

(* A path that leads to the target is one of the shortest.                  *)
LEMMA FindOk ==
  ASSUME NEW g, NEW s, NEW t, NEW max \in Nat, NEW p, NEW rest, RestOk(g, s, t, max, p, rest),
         Len(p) <= max, End(g, s, p) = t, NEW x, x = [rest EXCEPT !.found = Append(@, p)]
  PROVE  SearchOk(g, s, t, max, x)
<1>1. PICK S : S = Seq(DOMAIN g.edges)
  OBVIOUS
<1>2. /\ rest = [source |-> rest.source, queue |-> rest.queue, found |-> rest.found, seen |-> rest.seen]
      /\ rest.source \in DOMAIN g.out /\ rest.source = s
      /\ rest.queue \in Seq(S) /\ rest.found \in Seq(S) /\ rest.seen \in [DOMAIN g.out -> Nat]
  BY <1>1 DEF RestOk, Searches
<1>3. p \in S /\ Len(p) \in Nat
  BY <1>1 DEF RestOk, HeadOk, IsWalk
<1>4. /\ x = [source |-> rest.source, queue |-> rest.queue, found |-> Append(rest.found, p), seen |-> rest.seen]
      /\ x.source = s /\ x.queue = rest.queue /\ x.found = Append(rest.found, p) /\ x.seen = rest.seen
  BY <1>2
<1>5. PICK m \in Nat : m = Len(rest.found)
  BY <1>2
<1>6. /\ x.found \in Seq(S) /\ Len(x.found) = m + 1 /\ x.found[m + 1] = p
      /\ \A i \in 1..m : x.found[i] = rest.found[i]
  BY <1>2, <1>3, <1>4, <1>5
<1>7. x \in Searches(g)
  BY <1>1, <1>2, <1>4, <1>6 DEF Searches
<1>8. \A i \in 1..(m + 1) : i \in 1..m \/ i = m + 1
  BY <1>5
<1>9. QueueOk(g, s, max, x)
  <2>1. QueueOk(g, s, max, rest)
    BY DEF RestOk
  <2> QED
    BY <1>4, <2>1, Zenon DEF QueueOk
<1>10. SeenOk(g, s, max, x)
  <2>1. SeenOk(g, s, max, rest)
    BY DEF RestOk
  <2> QED
    BY <1>4, <2>1, Zenon DEF SeenOk
<1>11. FoundOk(g, s, t, max, x)
  <2> SUFFICES ASSUME NEW i \in 1..(m + 1)
               PROVE  /\ IsWalk(g, s, x.found[i]) /\ Len(x.found[i]) <= max
                      /\ End(g, s, x.found[i]) = t /\ Len(x.found[i]) = x.seen[t]
                      /\ \A j \in 1..Len(x.queue) : Len(x.found[i]) <= Len(x.queue[j])
    BY <1>6 DEF FoundOk
  <2>1. CASE i \in 1..m
    <3>1. FoundOk(g, s, t, max, rest)
      BY DEF RestOk
    <3> QED
      BY <1>4, <1>5, <1>6, <2>1, <3>1 DEF FoundOk
  <2>2. CASE i = m + 1
    BY <1>4, <1>6, <2>2 DEF RestOk, HeadOk
  <2> QED
    BY <1>8, <2>1, <2>2
<1>12. EachOnce(g, x)
  <2>1. \A i \in 1..Len(x.found) : i \in 1..m \/ i = m + 1
    BY <1>6, <1>8
  <2>2. /\ \A j \in 1..Len(x.queue) :
             x.queue[j] # p /\ \A e \in DOMAIN g.edges : p # Append(x.queue[j], e)
        /\ \A i \in 1..m : rest.found[i] # p
    BY <1>4, <1>5 DEF RestOk, HeadOk
  <2>3. Apart(DOMAIN g.edges, x.queue, rest.found)
    BY <1>4 DEF RestOk, EachOnce
  <2>4. /\ \A i, j \in 1..Len(x.queue) : x.queue[i] = x.queue[j] => i = j
        /\ \A i, j \in 1..Len(x.queue), e \in DOMAIN g.edges : x.queue[i] # Append(x.queue[j], e)
    BY <2>3, Zenon DEF Apart
  <2>5. /\ \A i, j \in 1..m : rest.found[i] = rest.found[j] => i = j
        /\ \A i \in 1..m, j \in 1..Len(x.queue) : rest.found[i] # x.queue[j]
        /\ \A i \in 1..m, j \in 1..Len(x.queue), e \in DOMAIN g.edges :
             rest.found[i] # Append(x.queue[j], e)
    <3>1. Apart(DOMAIN g.edges, x.queue, rest.found) /\ m = Len(rest.found)
      BY <1>5, <2>3
    <3> QED
      BY <3>1, Zenon DEF Apart
  <2>6. \A i, j \in 1..Len(x.found) : x.found[i] = x.found[j] => i = j
    <3> TAKE i, j \in 1..Len(x.found)
    <3>1. i \in 1..m /\ j \in 1..m => (x.found[i] = x.found[j] => i = j)
      BY <1>6, <2>5
    <3>2. i \in 1..m /\ j = m + 1 => x.found[i] # x.found[j]
      BY <1>6, <2>2
    <3>3. j \in 1..m /\ i = m + 1 => x.found[i] # x.found[j]
      BY <1>6, <2>2
    <3> QED
      BY <2>1, <3>1, <3>2, <3>3
  <2>7. \A i \in 1..Len(x.found), j \in 1..Len(x.queue) : x.found[i] # x.queue[j]
    <3> TAKE i \in 1..Len(x.found), j \in 1..Len(x.queue)
    <3>1. i \in 1..m => x.found[i] # x.queue[j]
      BY <1>6, <2>5
    <3>2. i = m + 1 => x.found[i] # x.queue[j]
      BY <1>6, <2>2
    <3> QED
      BY <2>1, <3>1, <3>2
  <2>8. \A i \in 1..Len(x.found), j \in 1..Len(x.queue), e \in DOMAIN g.edges :
          x.found[i] # Append(x.queue[j], e)
    <3> TAKE i \in 1..Len(x.found), j \in 1..Len(x.queue), e \in DOMAIN g.edges
    <3>1. i \in 1..m => x.found[i] = rest.found[i]
      BY <1>6
    <3>2. i = m + 1 => x.found[i] = p
      BY <1>6
    <3> QED
      BY <2>1, <2>2, <2>5, <3>1, <3>2, ZenonT(60)
  <2> QED
    BY <2>4, <2>6, <2>7, <2>8, Zenon DEF EachOnce, Apart
<1>13. Complete(g, s, t, max, x)
  <2> SUFFICES ASSUME NEW w, Shortest(g, s, t, max, w)
               PROVE  \/ \E i \in 1..(m + 1) : x.found[i] = w
                      \/ \E i \in 1..Len(x.queue) : Begins(x.queue[i], w)
    BY <1>6, Zenon DEF Complete
  <2>1. \/ \E i \in 1..m : rest.found[i] = w
        \/ Begins(p, w)
        \/ \E i \in 1..Len(x.queue) : Begins(x.queue[i], w)
    BY <1>4, <1>5 DEF RestOk, HeadOk
  <2>2. CASE Begins(p, w)
    <3>1. w \in S /\ Len(w) <= Len(p)
      BY <1>1 DEF Shortest, IsWalk, RestOk, HeadOk
    <3>2. p = w
      BY <1>1, <1>3, <2>2, <3>1, BeginsSame
    <3>3. m + 1 \in 1..(m + 1)
      BY <1>5
    <3> QED
      BY <1>6, <3>2, <3>3
  <2>3. CASE \E i \in 1..m : rest.found[i] = w
    <3>1. \A i \in 1..m : i \in 1..(m + 1)
      BY <1>5
    <3> QED
      BY <1>6, <2>3, <3>1
  <2> QED
    BY <2>1, <2>2, <2>3
<1> QED
  BY <1>4, <1>7, <1>9, <1>10, <1>11, <1>12, <1>13 DEF SearchOk

(* Paths that are equal with an edge more were equal before.                *)
LEMMA AppendSame ==
  ASSUME NEW E, NEW p \in Seq(E), NEW q \in Seq(E), NEW d \in E, NEW e \in E,
         Append(p, d) = Append(q, e)
  PROVE  p = q
BY AppendInjective

(* Any other path can be given up for those with an edge more that Expand   *)
(* adds.                                                                    *)
LEMMA ExpandOk ==
  ASSUME NEW g, GraphOk(g), NEW s \in DOMAIN g.out, NEW t, NEW max \in Nat, NEW p, NEW rest,
         RestOk(g, s, t, max, p, rest),
         Len(p) <= max, End(g, s, p) # t, rest.found = <<>>, NEW x, x = Expand(g, p, rest)
  PROVE  SearchOk(g, s, t, max, x)
<1>1. PICK S : S = Seq(DOMAIN g.edges)
  OBVIOUS
<1>2. PICK E : E = DOMAIN g.edges
  OBVIOUS
<1>3. /\ rest \in Searches(g) /\ rest.source = s /\ rest.queue \in Seq(S)
      /\ p \in S /\ p \in Seq(E) /\ IsWalk(g, s, p)
      /\ End(g, s, p) \in DOMAIN g.out
  BY <1>1, <1>2, EndIsTable DEF RestOk, HeadOk, IsWalk, Searches
<1>4. PICK l \in Nat : l = Len(p)
  BY <1>3
<1>5. PICK m \in Nat : m = Len(rest.queue)
  BY <1>3
<1>6. /\ x \in Searches(g) /\ x.source = s /\ x.found = <<>>
      /\ m <= Len(x.queue)
      /\ \A i \in 1..m : x.queue[i] = rest.queue[i]
      /\ \A i \in 1..Len(x.queue) : i > m =>
           \E e : LeadsOn(g, p, rest, e) /\ x.queue[i] = Append(p, e)
      /\ \A i, j \in 1..Len(x.queue) : i > m /\ j > m /\ x.queue[i] = x.queue[j] => i = j
      /\ \A e : LeadsOn(g, p, rest, e) => \E i \in 1..Len(x.queue) : x.queue[i] = Append(p, e)
      /\ \A y \in DOMAIN g.out :
           x.seen[y] = IF \E e : LeadsOn(g, p, rest, e) /\ g.edges[e].to = y
                       THEN l + 1 ELSE rest.seen[y]
  <2>1. p \in Seq(DOMAIN g.edges) /\ End(g, rest.source, p) \in DOMAIN g.out
    BY <1>1, <1>3
  <2>2. Expanded(g, p, rest, x)
    BY <1>3, <2>1, Expansion
  <2> QED
    BY <1>3, <1>4, <1>5, <2>2 DEF Expanded
<1>7. \A e : LeadsOn(g, p, rest, e) =>
        /\ e \in E /\ g.edges[e].to \in DOMAIN g.out
        /\ g.edges[e].from = End(g, s, p)
        /\ ~(rest.seen[g.edges[e].to] < l + 1)
  BY <1>2, <1>3, <1>4 DEF LeadsOn, GraphOk
<1>8. \A e \in E : /\ Append(p, e) \in Seq(E) /\ Len(Append(p, e)) = l + 1
                   /\ End(g, s, Append(p, e)) = g.edges[e].to
                   /\ (g.edges[e].from = End(g, s, p) => IsWalk(g, s, Append(p, e)))
  BY <1>2, <1>3, <1>4, LongerWalk
<1>9. /\ l <= max + 1
      /\ \A j \in 1..m : /\ IsWalk(g, s, rest.queue[j])
                         /\ Len(rest.queue[j]) \in Nat
                         /\ Len(rest.queue[j]) <= max + 1
                         /\ Len(rest.queue[j]) = rest.seen[End(g, s, rest.queue[j])]
                         /\ l <= Len(rest.queue[j]) /\ Len(rest.queue[j]) <= l + 1
                         /\ \A k \in 1..m : j <= k => Len(rest.queue[j]) <= Len(rest.queue[k])
                         /\ rest.queue[j] # p
                         /\ \A e \in E : rest.queue[j] # Append(p, e)
  <2>1. \A j \in 1..m : /\ IsWalk(g, s, rest.queue[j])
                        /\ Len(rest.queue[j]) <= max + 1
                        /\ Len(rest.queue[j]) = rest.seen[End(g, s, rest.queue[j])]
                        /\ \A k \in 1..m : j <= k => Len(rest.queue[j]) <= Len(rest.queue[k])
    BY <1>5 DEF RestOk, QueueOk
  <2>2. \A j \in 1..m : Len(rest.queue[j]) \in Nat
    BY <2>1 DEF IsWalk
  <2>3. /\ l <= max + 1
        /\ \A j \in 1..m : /\ l <= Len(rest.queue[j]) /\ Len(rest.queue[j]) <= l + 1
                           /\ rest.queue[j] # p
                           /\ \A e \in E : rest.queue[j] # Append(p, e)
    BY <1>2, <1>4, <1>5 DEF RestOk, HeadOk
  <2> QED
    BY <2>1, <2>2, <2>3
<1>10. Len(x.queue) \in Nat /\ x.queue \in Seq(S)
  BY <1>1, <1>6 DEF Searches
<1>11. \A i \in 1..Len(x.queue) : i \in 1..m \/ i > m
  BY <1>5, <1>10
<1>12. \A i \in 1..Len(x.queue) : i > m =>
         \E e \in E : /\ x.queue[i] = Append(p, e) /\ LeadsOn(g, p, rest, e)
                      /\ IsWalk(g, s, x.queue[i]) /\ Len(x.queue[i]) = l + 1
                      /\ End(g, s, x.queue[i]) = g.edges[e].to
  <2> SUFFICES ASSUME NEW i \in 1..Len(x.queue), i > m
               PROVE  \E e \in E : /\ x.queue[i] = Append(p, e) /\ LeadsOn(g, p, rest, e)
                                   /\ IsWalk(g, s, x.queue[i]) /\ Len(x.queue[i]) = l + 1
                                   /\ End(g, s, x.queue[i]) = g.edges[e].to
    OBVIOUS
  <2>1. PICK e : LeadsOn(g, p, rest, e) /\ x.queue[i] = Append(p, e)
    BY <1>6
  <2> QED
    BY <1>7, <1>8, <2>1
<1>13. \A i \in 1..Len(x.queue) :
         /\ IsWalk(g, s, x.queue[i]) /\ Len(x.queue[i]) \in Nat /\ Len(x.queue[i]) <= max + 1
         /\ l <= Len(x.queue[i]) /\ Len(x.queue[i]) <= l + 1
  <2> TAKE i \in 1..Len(x.queue)
  <2>1. CASE i \in 1..m
    BY <1>6, <1>9, <2>1
  <2>2. CASE i > m
    <3>1. IsWalk(g, s, x.queue[i]) /\ Len(x.queue[i]) = l + 1
      BY <1>12, <2>2
    <3>2. l \in Nat /\ Len(p) <= max
      OBVIOUS
    <3> QED
      BY <1>4, <3>1, <3>2
  <2> QED
    BY <1>11, <2>1, <2>2
<1>14. QueueOk(g, s, max, x)
  <2>1. ASSUME NEW i \in 1..Len(x.queue)
        PROVE  Len(x.queue[i]) = x.seen[End(g, s, x.queue[i])]
    <3>1. CASE i \in 1..m
      <4>1. PICK y : y = End(g, s, rest.queue[i])
        OBVIOUS
      <4>2. /\ y \in DOMAIN g.out /\ End(g, s, x.queue[i]) = y
            /\ Len(x.queue[i]) = rest.seen[y] /\ rest.seen[y] \in Nat /\ rest.seen[y] <= l + 1
        <5>1. x.queue[i] = rest.queue[i]
          BY <1>6, <3>1
        <5>2. /\ IsWalk(g, s, rest.queue[i])
              /\ Len(rest.queue[i]) = rest.seen[y] /\ rest.seen[y] \in Nat /\ rest.seen[y] <= l + 1
          BY <1>9, <3>1, <4>1
        <5>3. y \in DOMAIN g.out
          BY <4>1, <5>2, EndIsTable
        <5> QED
          BY <4>1, <5>1, <5>2, <5>3
      <4>3. CASE \E e : LeadsOn(g, p, rest, e) /\ g.edges[e].to = y
        <5>1. ~(rest.seen[y] < l + 1)
          BY <1>7, <4>3
        <5>2. x.seen[y] = l + 1
          BY <1>6, <4>2, <4>3
        <5> QED
          BY <4>2, <5>1, <5>2
      <4>4. CASE ~\E e : LeadsOn(g, p, rest, e) /\ g.edges[e].to = y
        <5>1. x.seen[y] = rest.seen[y]
          BY <1>6, <4>2, <4>4
        <5> QED
          BY <4>2, <5>1
      <4> QED
        BY <4>3, <4>4
    <3>2. CASE i > m
      <4>1. PICK e \in E : /\ LeadsOn(g, p, rest, e) /\ Len(x.queue[i]) = l + 1
                           /\ End(g, s, x.queue[i]) = g.edges[e].to
        BY <1>12, <3>2
      <4>2. x.seen[g.edges[e].to] = l + 1
        BY <1>6, <1>7, <4>1
      <4> QED
        BY <4>1, <4>2
    <3> QED
      BY <1>11, <3>1, <3>2
  <2>2. ASSUME NEW i \in 1..Len(x.queue)
        PROVE  Len(x.queue[i]) <= Len(x.queue[1]) + 1
    <3>1. 1 \in 1..Len(x.queue)
      BY <1>10
    <3>2. PICK a, b : a = Len(x.queue[i]) /\ b = Len(x.queue[1])
      OBVIOUS
    <3>3. a \in Nat /\ b \in Nat /\ a <= l + 1 /\ l <= b
      BY <1>13, <3>1, <3>2
    <3> QED
      BY <3>2, <3>3
  <2>3. ASSUME NEW i \in 1..Len(x.queue), NEW j \in 1..Len(x.queue), i <= j
        PROVE  Len(x.queue[i]) <= Len(x.queue[j])
    <3>1. CASE j \in 1..m
      <4>1. i \in 1..m
        BY <2>3, <3>1
      <4> QED
        BY <1>6, <1>9, <2>3, <3>1, <4>1
    <3>2. CASE j > m
      <4>1. Len(x.queue[j]) = l + 1
        BY <1>12, <3>2
      <4> QED
        BY <1>13, <4>1
    <3> QED
      BY <1>11, <3>1, <3>2
  <2> QED
    BY <1>13, <2>1, <2>2, <2>3 DEF QueueOk
<1>15. FoundOk(g, s, t, max, x) /\ Len(x.found) = 0
  <2>1. Len(x.found) = 0
    BY <1>6
  <2> QED
    BY <2>1 DEF FoundOk
<1>16. EachOnce(g, x)
  <2>1. Apart(E, rest.queue, rest.found)
    BY <1>2 DEF RestOk, EachOnce
  <2>2. /\ \A i, j \in 1..m : rest.queue[i] = rest.queue[j] => i = j
        /\ \A i, j \in 1..m, e \in E : rest.queue[i] # Append(rest.queue[j], e)
    BY <1>5, <2>1 DEF Apart
  <2>3. ASSUME NEW i \in 1..Len(x.queue), NEW j \in 1..Len(x.queue), x.queue[i] = x.queue[j]
        PROVE  i = j
    <3>1. CASE i \in 1..m /\ j \in 1..m
      BY <1>6, <2>2, <2>3, <3>1
    <3>2. CASE i \in 1..m /\ j > m
      <4>1. x.queue[i] = rest.queue[i] /\ \A e \in E : rest.queue[i] # Append(p, e)
        BY <1>6, <1>9, <3>2
      <4>2. \E e \in E : x.queue[j] = Append(p, e)
        BY <1>12, <3>2
      <4> QED
        BY <2>3, <4>1, <4>2
    <3>3. CASE i > m /\ j \in 1..m
      <4>1. x.queue[j] = rest.queue[j] /\ \A e \in E : rest.queue[j] # Append(p, e)
        BY <1>6, <1>9, <3>3
      <4>2. \E e \in E : x.queue[i] = Append(p, e)
        BY <1>12, <3>3
      <4> QED
        BY <2>3, <4>1, <4>2
    <3>4. CASE i > m /\ j > m
      BY <1>6, <2>3, <3>4
    <3> QED
      BY <1>11, <3>1, <3>2, <3>3, <3>4
  <2>4. ASSUME NEW i \in 1..Len(x.queue), NEW j \in 1..Len(x.queue), NEW e \in E,
               x.queue[i] = Append(x.queue[j], e)
        PROVE  FALSE
    <3>1. x.queue[j] \in Seq(E) /\ x.queue[i] \in Seq(E)
      BY <1>2, <1>13 DEF IsWalk
    <3>2. Len(x.queue[i]) = Len(x.queue[j]) + 1
      BY <2>4, <3>1
    <3>3. CASE j > m
      <4>1. Len(x.queue[j]) = l + 1
        BY <1>12, <3>3
      <4>2. Len(x.queue[i]) <= l + 1
        BY <1>13
      <4> QED
        BY <3>2, <4>1, <4>2
    <3>4. CASE i \in 1..m /\ j \in 1..m
      <4>1. rest.queue[i] # Append(rest.queue[j], e)
        BY <2>2, <3>4
      <4> QED
        BY <1>6, <2>4, <3>4, <4>1
    <3>5. CASE i > m /\ j \in 1..m
      <4>1. PICK d \in E : x.queue[i] = Append(p, d)
        BY <1>12, <3>5
      <4>2. Append(p, d) = Append(x.queue[j], e)
        BY <2>4, <4>1
      <4>3. p = x.queue[j]
        <5>1. PICK q : q = x.queue[j]
          OBVIOUS
        <5>2. p \in Seq(E) /\ q \in Seq(E)
          BY <1>3, <3>1, <5>1
        <5>3. Append(p, d) = Append(q, e)
          BY <4>2, <5>1
        <5>4. d \in E /\ e \in E
          OBVIOUS
        <5>5. p = q
          BY <5>2, <5>3, <5>4, AppendSame
        <5> QED
          BY <5>1, <5>5
      <4>4. x.queue[j] # p
        BY <1>6, <1>9, <3>5
      <4> QED
        BY <4>3, <4>4
    <3> QED
      BY <1>11, <3>3, <3>4, <3>5
  <2>5. \A i, j \in 1..Len(x.queue) : x.queue[i] = x.queue[j] => i = j
    BY <2>3, Zenon
  <2>6. \A i, j \in 1..Len(x.queue), e \in E : x.queue[i] # Append(x.queue[j], e)
    BY <2>4, Zenon
  <2>7. \A i : i \notin 1..Len(x.found)
    BY <1>15
  <2>8. Apart(E, x.queue, x.found)
    BY <2>5, <2>6, <2>7, Zenon DEF Apart
  <2> QED
    BY <1>2, <2>8 DEF EachOnce
<1>17. SeenOk(g, s, max, x)
  <2> SUFFICES ASSUME NEW y \in DOMAIN g.out, x.seen[y] <= max + 1
               PROVE  \E w : IsWalk(g, s, w) /\ End(g, s, w) = y /\ Len(w) = x.seen[y]
    BY DEF SeenOk
  <2>1. CASE \E e : LeadsOn(g, p, rest, e) /\ g.edges[e].to = y
    <3>1. PICK e : LeadsOn(g, p, rest, e) /\ g.edges[e].to = y
      BY <2>1
    <3>2. x.seen[y] = l + 1
      BY <1>6, <2>1
    <3> QED
      BY <1>7, <1>8, <3>1, <3>2
  <2>2. CASE ~\E e : LeadsOn(g, p, rest, e) /\ g.edges[e].to = y
    <3>1. x.seen[y] = rest.seen[y]
      BY <1>6, <2>2
    <3> QED
      BY <3>1 DEF RestOk, SeenOk
  <2> QED
    BY <2>1, <2>2
<1>18. Complete(g, s, t, max, x)
  <2> SUFFICES ASSUME NEW w, Shortest(g, s, t, max, w)
               PROVE  \E i \in 1..Len(x.queue) : Begins(x.queue[i], w)
    BY DEF Complete
  <2>1. Len(rest.found) = 0
    OBVIOUS
  <2>2. \/ Begins(p, w)
        \/ \E i \in 1..m : Begins(rest.queue[i], w)
    BY <1>5, <2>1 DEF RestOk, HeadOk
  <2>3. CASE \E i \in 1..m : Begins(rest.queue[i], w)
    <3>1. \A i \in 1..m : i \in 1..Len(x.queue)
      BY <1>5, <1>6, <1>10
    <3> QED
      BY <1>6, <2>3, <3>1
  <2>4. CASE Begins(p, w)
    <3>1. /\ IsWalk(g, s, w) /\ w \in Seq(E) /\ End(g, s, w) = t /\ Len(w) <= max
      BY <1>2 DEF Shortest, IsWalk
    <3>2. PICK n \in Nat : n = Len(w)
      BY <3>1
    <3>3. l <= n /\ \A i \in 1..l : p[i] = w[i]
      BY <1>4, <2>4, <3>2 DEF Begins
    <3>4. l < n
      <4>1. n <= l => p = w
        BY <1>3, <1>4, <2>4, <3>1, <3>2, BeginsSame
      <4> QED
        BY <3>1, <4>1
    <3>5. PICK k \in 1..n : k = l + 1
      BY <3>4
    <3>6. PICK e \in E : e = w[k]
      BY <3>1, <3>2
    <3>7. g.edges[e].from = End(g, s, p)
      <4>1. g.edges[w[k]].from = IF k = 1 THEN s ELSE g.edges[w[k - 1]].to
        BY <3>1, <3>2 DEF IsWalk
      <4>2. End(g, s, p) = IF l = 0 THEN s ELSE g.edges[p[l]].to
        BY <1>3, <1>4 DEF End
      <4>3. k = 1 <=> l = 0
        BY <3>5
      <4>4. l # 0 => k - 1 = l /\ p[l] = w[l]
        BY <3>3, <3>5
      <4> QED
        BY <3>6, <4>1, <4>2, <4>3, <4>4
    <3>8. CASE LeadsOn(g, p, rest, e)
      <4>1. PICK i \in 1..Len(x.queue) : x.queue[i] = Append(p, e)
        BY <1>6, <3>8
      <4>2. Len(Append(p, e)) = k
        BY <1>8, <3>5, <3>6
      <4>3. \A h \in 1..k : Append(p, e)[h] = w[h]
        <5> TAKE h \in 1..k
        <5>1. h \in 1..l \/ h = l + 1
          BY <3>5
        <5>2. h \in 1..l => Append(p, e)[h] = p[h]
          BY <1>3, <1>4
        <5>3. Append(p, e)[l + 1] = e
          BY <1>3, <1>4
        <5> QED
          BY <3>3, <3>5, <3>6, <5>1, <5>2, <5>3
      <4>4. k <= Len(w)
        BY <3>2
      <4>5. Begins(Append(p, e), w)
        BY <4>2, <4>3, <4>4 DEF Begins
      <4> QED
        BY <4>1, <4>5
    <3>9. CASE ~LeadsOn(g, p, rest, e)
      <4>1. PICK y : y = g.edges[w[k]].to
        OBVIOUS
      <4>2. y \in DOMAIN g.out
        BY <1>2, <3>6, <4>1 DEF GraphOk
      <4>3. rest.seen[y] < l + 1 /\ rest.seen[y] \in Nat
        BY <1>2, <1>3, <1>4, <3>6, <3>7, <3>9, <4>1, <4>2 DEF LeadsOn, Searches
      <4>4. rest.seen[y] <= max + 1
        BY <1>9, <4>3
      <4>5. PICK u : IsWalk(g, s, u) /\ End(g, s, u) = y /\ Len(u) = rest.seen[y]
        BY <4>2, <4>4 DEF RestOk, SeenOk
      <4>6. PICK v : /\ IsWalk(g, s, v)
                     /\ Len(v) = Len(u) + Len(w) - k
                     /\ End(g, s, v) = End(g, s, w)
        <5>1. k \in 1..Len(w)
          BY <3>2
        <5>2. End(g, s, u) = g.edges[w[k]].to
          BY <4>1, <4>5
        <5>3. IsWalk(g, s, w) /\ IsWalk(g, s, u)
          BY <3>1, <4>5
        <5>4. \A h \in 1..Len(w) : \A b : IsWalk(g, s, b) /\ End(g, s, b) = g.edges[w[h]].to =>
                \E v : /\ IsWalk(g, s, v)
                       /\ Len(v) = Len(b) + Len(w) - h
                       /\ End(g, s, v) = End(g, s, w)
          BY <5>3, Splice
        <5> QED
          BY <5>1, <5>2, <5>3, <5>4, Zenon
      <4>7. Len(w) <= Len(v)
        BY <3>1, <4>6 DEF Shortest
      <4>8. Len(v) = rest.seen[y] + n - k
        BY <3>2, <4>5, <4>6
      <4> QED
        BY <3>2, <3>5, <4>3, <4>7, <4>8
    <3> QED
      BY <3>8, <3>9
  <2> QED
    BY <2>2, <2>3, <2>4
<1> QED
  BY <1>6, <1>14, <1>15, <1>16, <1>17, <1>18 DEF SearchOk

(* What holds of a search holds after the next path has been visited.       *)
LEMMA VisitOk ==
  ASSUME NEW g, GraphOk(g), NEW s \in DOMAIN g.out, NEW t, NEW max \in Nat, NEW st,
         SearchOk(g, s, t, max, st), st.queue # <<>>
  PROVE  SearchOk(g, s, t, max, Visit(g, t, max, st))
<1>1. PICK rest : rest = Rest(st)
  OBVIOUS
<1>2. PICK p : p = st.queue[1]
  OBVIOUS
<1>3. RestOk(g, s, t, max, p, rest) /\ rest.found = st.found
  <2>1. RestOk(g, s, t, max, st.queue[1], rest) /\ rest.found = st.found
    BY <1>1, TailOk
  <2> QED
    BY <1>2, <2>1
<1>4. st.source = s /\ Head(st.queue) = p
  <2>1. st.queue \in Seq(Seq(DOMAIN g.edges)) /\ st.source = s
    BY DEF SearchOk, Searches
  <2> QED
    BY <1>2, <2>1
<1>5. Visit(g, t, max, st) =
        IF Len(p) > max THEN rest
        ELSE IF End(g, s, p) = t THEN [rest EXCEPT !.found = Append(@, p)]
        ELSE IF st.found # <<>> /\ Len(p) >= Len(Head(st.found)) THEN rest
        ELSE Expand(g, p, rest)
  BY <1>1, <1>4 DEF Visit, Rest
<1>6. Len(p) \in Nat /\ rest.found \in Seq(Seq(DOMAIN g.edges))
  BY <1>3 DEF RestOk, HeadOk, IsWalk, Searches
<1>7. rest.found # <<>> => Head(rest.found) = rest.found[1] /\ Len(p) >= Len(rest.found[1])
  <2> SUFFICES ASSUME rest.found # <<>>
               PROVE  Head(rest.found) = rest.found[1] /\ Len(p) >= Len(rest.found[1])
    OBVIOUS
  <2>1. 1 \in 1..Len(rest.found) /\ Head(rest.found) = rest.found[1]
    BY <1>6
  <2>2. Len(rest.found[1]) <= Len(p)
    BY <1>3, <2>1 DEF RestOk, HeadOk
  <2> QED
    BY <2>1, <2>2
<1>8. CASE Len(p) > max
  BY <1>3, <1>5, <1>8, DropOk
<1>9. CASE ~(Len(p) > max) /\ End(g, s, p) = t
  <2>1. Len(p) <= max
    BY <1>6, <1>9
  <2> QED
    BY <1>3, <1>5, <1>9, <2>1, FindOk
<1>10. CASE ~(Len(p) > max) /\ End(g, s, p) # t /\ rest.found # <<>>
  <2>1. Visit(g, t, max, st) = rest
    BY <1>3, <1>5, <1>7, <1>10
  <2> QED
    BY <1>3, <1>7, <1>10, <2>1, DropOk
<1>11. CASE ~(Len(p) > max) /\ End(g, s, p) # t /\ rest.found = <<>>
  <2>1. Visit(g, t, max, st) = Expand(g, p, rest) /\ Len(p) <= max
    BY <1>3, <1>5, <1>6, <1>11
  <2> QED
    BY <1>3, <1>11, <2>1, ExpandOk
<1> QED
  BY <1>8, <1>9, <1>10, <1>11

-----------------------------------------------------------------------------
(* A function defined by its value after the next step exists.              *)

\* r takes n steps from a, and ends in D
EndsIn(S, D, next, a, n, r) ==
  /\ r \in [0..n -> S] /\ r[0] = a /\ r[n] \in D
  /\ \A i \in 0..(n - 1) : r[i] \notin D /\ r[i + 1] = next[r[i]]

Ending(S, D, next, a) == {d \in D : \E n \in Nat : \E r : EndsIn(S, D, next, a, n, r) /\ r[n] = d}

Unfolds(S, D, next, res, f) ==
  f = [a \in S |-> IF a \in D THEN res[a] ELSE f[next[a]]]

(* A function that is res on D, and elsewhere what it is after the next     *)
(* step, exists: CHOOSE gives one, whether the steps end in D or not.       *)
LEMMA TailRecursion ==
  ASSUME NEW S, NEW D \in SUBSET S, NEW next \in [S -> S], NEW res
  PROVE  \E f : Unfolds(S, D, next, res, f)
<1> DEFINE Last(a) == CHOOSE d : d \in Ending(S, D, next, a)
           f == [a \in S |-> IF a \in D THEN res[a] ELSE res[Last(a)]]
<1>1. ASSUME NEW a \in S, a \in D
      PROVE  Ending(S, D, next, a) = {a}
  <2>1. ASSUME NEW d \in Ending(S, D, next, a) PROVE d = a
    <3>1. PICK n \in Nat : \E r : EndsIn(S, D, next, a, n, r) /\ r[n] = d
      BY <2>1 DEF Ending
    <3>2. PICK r : EndsIn(S, D, next, a, n, r) /\ r[n] = d
      BY <3>1
    <3>3. CASE n = 0
      BY <3>2, <3>3 DEF EndsIn
    <3>4. CASE n # 0
      <4>1. 0 \in 0..(n - 1)
        BY <3>4
      <4> QED
        BY <1>1, <3>2, <4>1 DEF EndsIn
    <3> QED
      BY <3>3, <3>4
  <2>2. a \in Ending(S, D, next, a)
    <3>1. PICK r : r = [i \in 0..0 |-> a]
      OBVIOUS
    <3>2. r \in [0..0 -> S] /\ r[0] = a /\ \A i : i \notin 0..(0 - 1)
      BY <3>1
    <3>3. EndsIn(S, D, next, a, 0, r)
      BY <1>1, <3>2 DEF EndsIn
    <3> QED
      BY <1>1, <3>2, <3>3 DEF Ending
  <2> QED
    BY <2>1, <2>2
<1>2. ASSUME NEW a \in S, a \notin D
      PROVE  Ending(S, D, next, a) = Ending(S, D, next, next[a])
  <2>1. PICK b \in S : b = next[a]
    OBVIOUS
  <2>2. ASSUME NEW d \in Ending(S, D, next, a) PROVE d \in Ending(S, D, next, b)
    <3>1. d \in D /\ \E n \in Nat : \E r : EndsIn(S, D, next, a, n, r) /\ r[n] = d
      BY <2>2 DEF Ending
    <3>2. PICK n \in Nat : \E r : EndsIn(S, D, next, a, n, r) /\ r[n] = d
      BY <3>1
    <3>3. PICK r : EndsIn(S, D, next, a, n, r) /\ r[n] = d
      BY <3>2
    <3>4. /\ r \in [0..n -> S] /\ r[0] = a /\ r[n] \in D
          /\ \A i \in 0..(n - 1) : r[i] \notin D /\ r[i + 1] = next[r[i]]
      BY <3>3 DEF EndsIn
    <3>5. n # 0
      BY <1>2, <3>4
    <3>6. PICK m \in Nat : m + 1 = n
      <4>1. n - 1 \in Nat /\ (n - 1) + 1 = n
        BY <3>5
      <4> QED
        BY <4>1
    <3>7. PICK q : q = [i \in 0..m |-> r[i + 1]]
      OBVIOUS
    <3>8. /\ \A i \in 0..m : i + 1 \in 0..n /\ q[i] = r[i + 1] /\ r[i + 1] \in S
          /\ \A i \in 0..(m - 1) : i \in 0..m /\ i + 1 \in 0..m /\ i + 1 \in 0..(n - 1)
      BY <3>4, <3>6, <3>7
    <3>9. q[0] = b
      BY <2>1, <3>4, <3>6, <3>8
    <3>10. q[m] = d
      BY <3>3, <3>6, <3>8
    <3>11. q \in [0..m -> S]
      BY <3>7, <3>8
    <3>12. ASSUME NEW i \in 0..(m - 1) PROVE q[i] \notin D /\ q[i + 1] = next[q[i]]
      <4>1. q[i] = r[i + 1] /\ q[i + 1] = r[(i + 1) + 1]
        BY <3>8
      <4>2. r[i + 1] \notin D /\ r[(i + 1) + 1] = next[r[i + 1]]
        BY <3>4, <3>8
      <4> QED
        BY <4>1, <4>2
    <3>13. EndsIn(S, D, next, b, m, q)
      BY <3>1, <3>9, <3>10, <3>11, <3>12 DEF EndsIn
    <3> QED
      BY <3>1, <3>10, <3>13 DEF Ending
  <2>3. ASSUME NEW d \in Ending(S, D, next, b) PROVE d \in Ending(S, D, next, a)
    <3>1. d \in D /\ \E n \in Nat : \E r : EndsIn(S, D, next, b, n, r) /\ r[n] = d
      BY <2>3 DEF Ending
    <3>2. PICK m \in Nat : \E r : EndsIn(S, D, next, b, m, r) /\ r[m] = d
      BY <3>1
    <3>3. PICK r : EndsIn(S, D, next, b, m, r) /\ r[m] = d
      BY <3>2
    <3>4. /\ r \in [0..m -> S] /\ r[0] = b /\ r[m] \in D
          /\ \A i \in 0..(m - 1) : r[i] \notin D /\ r[i + 1] = next[r[i]]
      BY <3>3 DEF EndsIn
    <3>5. PICK n \in Nat : n = m + 1
      OBVIOUS
    <3>6. PICK q : q = [i \in 0..n |-> IF i = 0 THEN a ELSE r[i - 1]]
      OBVIOUS
    <3>7. /\ q[0] = a /\ q[n] = r[m]
          /\ \A i \in 0..n : i # 0 => q[i] = r[i - 1] /\ i - 1 \in 0..m
      BY <3>5, <3>6
    <3>8. \A i \in 0..n : q[i] \in S
      BY <3>4, <3>7
    <3>9. q \in [0..n -> S]
      BY <3>6, <3>8
    <3>10. ASSUME NEW i \in 0..(n - 1) PROVE q[i] \notin D /\ q[i + 1] = next[q[i]]
      <4>1. i + 1 \in 0..n /\ i + 1 # 0 /\ (i + 1) - 1 = i
        BY <3>5
      <4>2. q[i + 1] = r[i]
        BY <3>7, <4>1
      <4>3. CASE i = 0
        BY <1>2, <2>1, <3>4, <3>7, <4>2, <4>3
      <4>4. CASE i # 0
        <5>1. i - 1 \in 0..(m - 1) /\ (i - 1) + 1 = i /\ i \in 0..n
          BY <3>5, <4>4
        <5>2. r[i - 1] \notin D /\ r[i] = next[r[i - 1]]
          BY <3>4, <5>1
        <5> QED
          BY <3>7, <4>2, <4>4, <5>1, <5>2
      <4> QED
        BY <4>3, <4>4
    <3>11. EndsIn(S, D, next, a, n, q)
      BY <3>4, <3>7, <3>9, <3>10 DEF EndsIn
    <3> QED
      BY <3>1, <3>3, <3>7, <3>11 DEF Ending
  <2> QED
    BY <2>1, <2>2, <2>3
<1>3. ASSUME NEW a \in S, a \in D
      PROVE  Last(a) = a
  <2>1. Ending(S, D, next, a) = {a}
    BY <1>1, <1>3
  <2> QED
    BY <2>1
<1>4. ASSUME NEW a \in S, a \notin D
      PROVE  f[a] = f[next[a]]
  <2>1. next[a] \in S
    OBVIOUS
  <2>2. Last(a) = Last(next[a])
    BY <1>2, <1>4
  <2>3. f[a] = res[Last(a)]
    BY <1>4
  <2>4. f[next[a]] = res[Last(next[a])]
    BY <1>3, <2>1
  <2> QED
    BY <2>2, <2>3, <2>4
<1>5. f = [a \in S |-> IF a \in D THEN res[a] ELSE f[next[a]]]
  <2>1. \A a \in S : f[a] = IF a \in D THEN res[a] ELSE f[next[a]]
    BY <1>4
  <2>2. f = [a \in S |-> f[a]]
    OBVIOUS
  <2> QED
    BY <2>1, <2>2, ZenonT(60)
<1> QED
  BY <1>5 DEF Unfolds

(* A visit of a search is a search.                                         *)
LEMMA VisitSearches ==
  ASSUME NEW g, GraphOk(g), NEW t, NEW max \in Nat, NEW st \in Searches(g), st.queue # <<>>
  PROVE  Visit(g, t, max, st) \in Searches(g)
<1>1. PICK S : S = Seq(DOMAIN g.edges)
  OBVIOUS
<1>2. /\ st = [source |-> st.source, queue |-> st.queue, found |-> st.found, seen |-> st.seen]
      /\ st.source \in DOMAIN g.out
      /\ st.queue \in Seq(S) /\ st.found \in Seq(S) /\ st.seen \in [DOMAIN g.out -> Nat]
  BY <1>1 DEF Searches
<1>3. PICK p \in S : p = Head(st.queue)
  BY <1>2
<1>4. PICK rest : rest = Rest(st)
  OBVIOUS
<1>5. /\ rest = [source |-> st.source, queue |-> Tail(st.queue), found |-> st.found, seen |-> st.seen]
      /\ rest.source = st.source
  BY <1>2, <1>4 DEF Rest
<1>6. rest \in Searches(g)
  <2>1. Tail(st.queue) \in Seq(S)
    BY <1>2
  <2> QED
    BY <1>1, <1>2, <1>5, <2>1 DEF Searches
<1>7. Visit(g, t, max, st) =
        IF Len(p) > max THEN rest
        ELSE IF End(g, st.source, p) = t THEN [rest EXCEPT !.found = Append(@, p)]
        ELSE IF st.found # <<>> /\ Len(p) >= Len(Head(st.found)) THEN rest
        ELSE Expand(g, p, rest)
  BY <1>3, <1>4 DEF Visit, Rest
<1>8. [rest EXCEPT !.found = Append(@, p)] \in Searches(g)
  <2>1. rest.found = st.found
    BY <1>5
  <2>2. PICK x : x = [rest EXCEPT !.found = Append(@, p)]
    OBVIOUS
  <2>3. x = [source |-> st.source, queue |-> Tail(st.queue), found |-> Append(st.found, p), seen |-> st.seen]
    BY <1>5, <2>1, <2>2
  <2>4. Tail(st.queue) \in Seq(S) /\ Append(st.found, p) \in Seq(S)
    BY <1>2
  <2>5. x \in Searches(g)
    BY <1>1, <1>2, <2>4, <2>3 DEF Searches
  <2> QED
    BY <2>2, <2>5, Zenon
<1>9. Expand(g, p, rest) \in Searches(g)
  <2>1. p \in Seq(DOMAIN g.edges)
    BY <1>1
  <2>2. End(g, rest.source, p) \in DOMAIN g.out
    <3>1. CASE p = <<>>
      BY <1>2, <1>5, <3>1 DEF End
    <3>2. CASE p # <<>>
      <4>1. p[Len(p)] \in DOMAIN g.edges
        BY <2>1, <3>2
      <4>2. g.edges[p[Len(p)]].to \in DOMAIN g.out
        BY <4>1 DEF GraphOk
      <4> QED
        BY <3>2, <4>2 DEF End
    <3> QED
      BY <3>1, <3>2
  <2>3. PICK x : x = Expand(g, p, rest)
    OBVIOUS
  <2>4. Expanded(g, p, rest, x)
    BY <1>6, <2>1, <2>2, <2>3, Expansion
  <2> QED
    BY <2>3, <2>4 DEF Expanded
<1> QED
  BY <1>6, <1>7, <1>8, <1>9

(* What a search finds is what is found after the next visit.               *)
LEMMA SearchSteps ==
  ASSUME NEW g, GraphOk(g), NEW t, NEW max \in Nat
  PROVE  \A st \in Searches(g) :
           SearchPaths(g, t, max, st) =
             IF st.queue = <<>> THEN st.found ELSE SearchPaths(g, t, max, Visit(g, t, max, st))
<1>1. PICK S : S = Searches(g)
  OBVIOUS
<1>2. PICK D : D = {st \in S : st.queue = <<>>}
  OBVIOUS
<1>3. PICK next : next = [st \in S |-> IF st \in D THEN st ELSE Visit(g, t, max, st)]
  OBVIOUS
<1>4. PICK res : res = [st \in S |-> st.found]
  OBVIOUS
<1>5. next \in [S -> S] /\ D \in SUBSET S
  <2>1. \A st \in S : st \notin D => Visit(g, t, max, st) \in S
    BY <1>1, <1>2, VisitSearches
  <2> QED
    BY <1>2, <1>3, <2>1
<1>6. PICK f : f = [st \in S |-> IF st \in D THEN res[st] ELSE f[next[st]]]
  <2>1. \E f : Unfolds(S, D, next, res, f)
    BY <1>5, TailRecursion
  <2> QED
    BY <2>1 DEF Unfolds
<1> DEFINE Eq(h) == h = [st \in Searches(g) |->
                           IF st.queue = <<>> THEN st.found ELSE h[Visit(g, t, max, st)]]
           search == CHOOSE h : Eq(h)
<1>7. Eq(f)
  <2>1. \A st \in S : f[st] = IF st.queue = <<>> THEN st.found ELSE f[Visit(g, t, max, st)]
    <3> TAKE st \in S
    <3>1. f[st] = IF st \in D THEN res[st] ELSE f[next[st]]
      BY <1>6
    <3>2. st \in D <=> st.queue = <<>>
      BY <1>2
    <3>3. st \in D => res[st] = st.found
      BY <1>4
    <3>4. st \notin D => next[st] = Visit(g, t, max, st)
      BY <1>3
    <3> QED
      BY <3>1, <3>2, <3>3, <3>4
  <2>2. f = [st \in S |-> f[st]]
    BY <1>6
  <2> QED
    BY <1>1, <2>1, <2>2
<1>8. Eq(search)
  BY <1>7, Zenon
<1>9. \A st : SearchPaths(g, t, max, st) = search[st]
  BY DEF SearchPaths
<1> HIDE DEF search
<1>10. \A st \in Searches(g) :
         search[st] = IF st.queue = <<>> THEN st.found ELSE search[Visit(g, t, max, st)]
  BY <1>8
<1> QED
  BY <1>9, <1>10

(* The next visit takes the head of the queue, and adds longer paths.       *)
LEMMA VisitQueue ==
  ASSUME NEW g, GraphOk(g), NEW s \in DOMAIN g.out, NEW t, NEW max \in Nat, NEW st,
         SearchOk(g, s, t, max, st), st.queue # <<>>, NEW x, x = Visit(g, t, max, st)
  PROVE  \A i \in 1..Len(x.queue) :
           \/ i + 1 \in 1..Len(st.queue) /\ x.queue[i] = st.queue[i + 1]
           \/ ~(i + 1 <= Len(st.queue)) /\ Len(x.queue[i]) = Len(st.queue[1]) + 1
<1>1. PICK S : S = Seq(DOMAIN g.edges)
  OBVIOUS
<1>2. /\ st = [source |-> st.source, queue |-> st.queue, found |-> st.found, seen |-> st.seen]
      /\ st.source = s /\ st.queue \in Seq(S)
  BY <1>1 DEF SearchOk, Searches
<1>3. PICK rest : rest = Rest(st)
  OBVIOUS
<1>4. PICK p : p = st.queue[1]
  OBVIOUS
<1>5. PICK n \in Nat : n = Len(st.queue)
  BY <1>2
<1>6. /\ rest = [source |-> st.source, queue |-> Tail(st.queue), found |-> st.found, seen |-> st.seen]
      /\ rest.queue = Tail(st.queue)
  BY <1>2, <1>3 DEF Rest
<1>7. /\ n # 0 /\ rest.queue \in Seq(S) /\ Len(rest.queue) = n - 1
      /\ \A i \in 1..(n - 1) : rest.queue[i] = st.queue[i + 1]
      /\ Head(st.queue) = p
  BY <1>2, <1>4, <1>5, <1>6
<1>8. RestOk(g, s, t, max, p, rest)
  <2>1. RestOk(g, s, t, max, st.queue[1], rest)
    BY <1>3, TailOk
  <2> QED
    BY <1>4, <2>1
<1>9. ASSUME NEW i \in 1..Len(rest.queue)
      PROVE  i + 1 \in 1..n /\ rest.queue[i] = st.queue[i + 1]
  BY <1>5, <1>7
<1>10. x = IF Len(p) > max THEN rest
           ELSE IF End(g, s, p) = t THEN [rest EXCEPT !.found = Append(@, p)]
           ELSE IF st.found # <<>> /\ Len(p) >= Len(Head(st.found)) THEN rest
           ELSE Expand(g, p, rest)
  BY <1>2, <1>3, <1>7 DEF Visit, Rest
<1>11. PICK y : y = [rest EXCEPT !.found = Append(@, p)]
  OBVIOUS
<1>12. y.queue = rest.queue
  BY <1>6, <1>11
<1>13. CASE x = rest \/ x = y
  <2>1. x.queue = rest.queue
    BY <1>12, <1>13
  <2> QED
    BY <1>5, <1>9, <2>1
<1>14. CASE x = Expand(g, p, rest)
  <2>1. /\ rest \in Searches(g) /\ rest.source = s /\ IsWalk(g, s, p)
    BY <1>8 DEF RestOk, HeadOk
  <2>2. p \in Seq(DOMAIN g.edges) /\ End(g, rest.source, p) \in DOMAIN g.out
    BY <2>1, EndIsTable DEF IsWalk
  <2>3. Expanded(g, p, rest, x)
    BY <1>14, <2>1, <2>2, Expansion
  <2>4. ASSUME NEW i \in 1..Len(x.queue)
        PROVE  \/ i + 1 \in 1..n /\ x.queue[i] = st.queue[i + 1]
               \/ ~(i + 1 <= n) /\ Len(x.queue[i]) = Len(p) + 1
    <3>1. CASE i <= n - 1
      <4>1. i \in 1..Len(rest.queue)
        BY <1>5, <1>7, <3>1
      <4>2. x.queue[i] = rest.queue[i]
        BY <2>3, <4>1 DEF Expanded
      <4> QED
        BY <1>9, <4>1, <4>2
    <3>2. CASE ~(i <= n - 1)
      <4>1. i > Len(rest.queue) /\ ~(i + 1 <= n)
        BY <1>5, <1>7, <3>2
      <4>2. PICK e : LeadsOn(g, p, rest, e) /\ x.queue[i] = Append(p, e)
        BY <2>3, <4>1 DEF Expanded
      <4>3. e \in DOMAIN g.edges
        BY <4>2 DEF LeadsOn
      <4>4. Len(Append(p, e)) = Len(p) + 1
        BY <2>2, <4>3
      <4> QED
        BY <4>1, <4>2, <4>4
    <3> QED
      BY <3>1, <3>2
  <2> QED
    BY <1>4, <1>5, <2>4
<1> QED
  BY <1>10, <1>11, <1>13, <1>14

-----------------------------------------------------------------------------
(* A search ends                                                            *)

\* what a search finds is what one that holds, and has no queue, has found
SearchedOut(g, s, t, max, st) ==
  \E fin : SearchOk(g, s, t, max, fin) /\ fin.queue = <<>> /\ SearchPaths(g, t, max, st) = fin.found

\* the paths of the queue have max + 2 - j edges at least
AtLeast(max, j, st) == \A i \in 1..Len(st.queue) : Len(st.queue[i]) + j >= max + 2

\* those after the k-th do; the first k may have one edge less
AllBut(max, j, k, st) ==
  \A i \in 1..Len(st.queue) :
    /\ Len(st.queue[i]) + (j + 1) >= max + 2
    /\ ~(i <= k) => Len(st.queue[i]) + j >= max + 2

(* A search ends when its next visit leads to one that does.                *)
LEMMA VisitEnds ==
  ASSUME NEW g, GraphOk(g), NEW s \in DOMAIN g.out, NEW t, NEW max \in Nat, NEW st,
         SearchOk(g, s, t, max, st)
  PROVE  /\ st.queue = <<>> => SearchedOut(g, s, t, max, st)
         /\ st.queue # <<>> /\ SearchedOut(g, s, t, max, Visit(g, t, max, st)) => SearchedOut(g, s, t, max, st)
<1>1. st \in Searches(g)
  BY DEF SearchOk
<1>2. SearchPaths(g, t, max, st) =
        IF st.queue = <<>> THEN st.found ELSE SearchPaths(g, t, max, Visit(g, t, max, st))
  BY <1>1, SearchSteps
<1>3. ASSUME st.queue = <<>> PROVE SearchedOut(g, s, t, max, st)
  BY <1>2, <1>3 DEF SearchedOut
<1>4. ASSUME st.queue # <<>>, SearchedOut(g, s, t, max, Visit(g, t, max, st))
      PROVE  SearchedOut(g, s, t, max, st)
  BY <1>2, <1>4 DEF SearchedOut
<1> QED
  BY <1>3, <1>4

(* Every search ends: a visit takes the head of the queue, and the paths it *)
(* adds are longer, up to one edge more than max.                           *)
LEMMA SearchEnds ==
  ASSUME NEW g, GraphOk(g), NEW s \in DOMAIN g.out, NEW t, NEW max \in Nat
  PROVE  \A st : SearchOk(g, s, t, max, st) => SearchedOut(g, s, t, max, st)
<1>1. PICK J : J = {j \in Nat : \A st : SearchOk(g, s, t, max, st) /\ AtLeast(max, j, st) =>
                                         SearchedOut(g, s, t, max, st)}
  OBVIOUS
<1>2. \A st : SearchOk(g, s, t, max, st) =>
        /\ Len(st.queue) \in Nat /\ (Len(st.queue) = 0 <=> st.queue = <<>>)
        /\ \A i \in 1..Len(st.queue) : Len(st.queue[i]) \in Nat /\ Len(st.queue[i]) <= max + 1
  <2> TAKE st
  <2> HAVE SearchOk(g, s, t, max, st)
  <2>1. st.queue \in Seq(Seq(DOMAIN g.edges))
    BY DEF SearchOk, Searches
  <2>2. \A i \in 1..Len(st.queue) : Len(st.queue[i]) \in Nat /\ Len(st.queue[i]) <= max + 1
    BY DEF SearchOk, QueueOk, IsWalk
  <2> QED
    BY <2>1, <2>2
<1>3. 0 \in J
  <2>1. ASSUME NEW st, SearchOk(g, s, t, max, st), AtLeast(max, 0, st)
        PROVE  SearchedOut(g, s, t, max, st)
    <3>1. ASSUME st.queue # <<>> PROVE FALSE
      <4>1. 1 \in 1..Len(st.queue) /\ Len(st.queue[1]) \in Nat /\ Len(st.queue[1]) <= max + 1
        BY <1>2, <2>1, <3>1
      <4>2. Len(st.queue[1]) + 0 >= max + 2
        BY <2>1, <4>1 DEF AtLeast
      <4> QED
        BY <4>1, <4>2
    <3> QED
      BY <2>1, <3>1, VisitEnds
  <2> QED
    BY <1>1, <2>1
<1>4. ASSUME NEW j \in Nat, j \in J PROVE j + 1 \in J
  <2>1. PICK K : K = {k \in Nat : \A st : SearchOk(g, s, t, max, st) /\ AllBut(max, j, k, st) =>
                                         SearchedOut(g, s, t, max, st)}
    OBVIOUS
  <2>2. 0 \in K
    <3>1. ASSUME NEW st, SearchOk(g, s, t, max, st), AllBut(max, j, 0, st)
          PROVE  SearchedOut(g, s, t, max, st)
      <4>1. \A i \in 1..Len(st.queue) : ~(i <= 0)
        OBVIOUS
      <4>2. AtLeast(max, j, st)
        BY <3>1, <4>1 DEF AllBut, AtLeast
      <4> QED
        BY <1>1, <1>4, <3>1, <4>2
    <3> QED
      BY <2>1, <3>1
  <2>3. ASSUME NEW k \in Nat, k \in K PROVE k + 1 \in K
    <3>1. ASSUME NEW st, SearchOk(g, s, t, max, st), AllBut(max, j, k + 1, st), st.queue # <<>>
          PROVE  SearchedOut(g, s, t, max, st)
      <4>1. PICK x : x = Visit(g, t, max, st)
        OBVIOUS
      <4>2. SearchOk(g, s, t, max, x)
        BY <3>1, <4>1, VisitOk
      <4>3. \A i \in 1..Len(x.queue) :
              \/ i + 1 \in 1..Len(st.queue) /\ x.queue[i] = st.queue[i + 1]
              \/ ~(i + 1 <= Len(st.queue)) /\ Len(x.queue[i]) = Len(st.queue[1]) + 1
        BY <3>1, <4>1, VisitQueue
      <4>4. 1 \in 1..Len(st.queue) /\ Len(st.queue[1]) \in Nat
        BY <1>2, <3>1
      <4>5. ASSUME NEW i \in 1..Len(x.queue)
            PROVE  /\ Len(x.queue[i]) + (j + 1) >= max + 2
                   /\ ~(i <= k) => Len(x.queue[i]) + j >= max + 2
        <5>1. CASE i + 1 \in 1..Len(st.queue) /\ x.queue[i] = st.queue[i + 1]
          <6>1. /\ Len(st.queue[i + 1]) + (j + 1) >= max + 2
                /\ ~(i + 1 <= k + 1) => Len(st.queue[i + 1]) + j >= max + 2
            BY <3>1, <5>1 DEF AllBut
          <6>2. i + 1 <= k + 1 <=> i <= k
            OBVIOUS
          <6> QED
            BY <5>1, <6>1, <6>2
        <5>2. CASE Len(x.queue[i]) = Len(st.queue[1]) + 1
          <6>1. Len(st.queue[1]) + (j + 1) >= max + 2
            BY <3>1, <4>4 DEF AllBut
          <6>2. PICK l \in Nat : l = Len(st.queue[1])
            BY <4>4
          <6>3. l + (j + 1) >= max + 2 /\ Len(x.queue[i]) = l + 1
            BY <5>2, <6>1, <6>2
          <6> QED
            BY <6>3
        <5> QED
          BY <4>3, <5>1, <5>2
      <4>6. AllBut(max, j, k, x)
        BY <4>5 DEF AllBut
      <4>7. SearchedOut(g, s, t, max, x)
        BY <2>1, <2>3, <4>2, <4>6
      <4> QED
        BY <3>1, <4>1, <4>7, VisitEnds
    <3>2. \A st : SearchOk(g, s, t, max, st) /\ AllBut(max, j, k + 1, st) => SearchedOut(g, s, t, max, st)
      BY <3>1, VisitEnds
    <3> QED
      BY <2>1, <3>2
  <2>4. Nat \subseteq K
    BY <2>2, <2>3, SetInduction
  <2>5. ASSUME NEW st, SearchOk(g, s, t, max, st), AtLeast(max, j + 1, st)
        PROVE  SearchedOut(g, s, t, max, st)
    <3>1. PICK k \in Nat : k = Len(st.queue)
      BY <1>2, <2>5
    <3>2. \A i \in 1..Len(st.queue) : i <= k
      BY <3>1
    <3>3. AllBut(max, j, k, st)
      BY <2>5, <3>2 DEF AtLeast, AllBut
    <3> QED
      BY <2>1, <2>4, <2>5, <3>3
  <2> QED
    BY <1>1, <2>5
<1>5. Nat \subseteq J
  BY <1>3, <1>4, SetInduction
<1>6. ASSUME NEW st, SearchOk(g, s, t, max, st)
      PROVE  SearchedOut(g, s, t, max, st)
  <2>1. PICK j \in Nat : j = max + 2
    OBVIOUS
  <2>2. AtLeast(max, j, st)
    <3> SUFFICES ASSUME NEW i \in 1..Len(st.queue)
                 PROVE  Len(st.queue[i]) + j >= max + 2
      BY DEF AtLeast
    <3>1. PICK l \in Nat : l = Len(st.queue[i])
      BY <1>2, <1>6
    <3>2. l + j >= max + 2
      BY <2>1
    <3> QED
      BY <3>1, <3>2
  <2> QED
    BY <1>1, <1>5, <1>6, <2>2
<1> QED
  BY <1>6

-----------------------------------------------------------------------------
(* The walks there are                                                      *)

WalksOf(g, s, k) == {w \in Seq(DOMAIN g.edges) : IsWalk(g, s, w) /\ Len(w) = k}

GrownFrom(g, s, W) ==
  {Append(w[1], w[2]) : w \in {v \in W \X (DOMAIN g.edges) :
     g.edges[v[2]].from = End(g, s, v[1])}}

(* The walks of one edge more are those with an edge more that leaves their *)
(* end.                                                                     *)
LEMMA GrownWalks ==
  ASSUME NEW g, NEW s, NEW k \in Nat
  PROVE  GrownFrom(g, s, WalksOf(g, s, k)) = WalksOf(g, s, k + 1)
<1>1. PICK E : E = DOMAIN g.edges
  OBVIOUS
<1>2. PICK W : W = WalksOf(g, s, k)
  OBVIOUS
<1>3. \A w : w \in W <=> w \in Seq(E) /\ IsWalk(g, s, w) /\ Len(w) = k
  BY <1>1, <1>2 DEF WalksOf
<1>4. ASSUME NEW w \in GrownFrom(g, s, W) PROVE w \in WalksOf(g, s, k + 1)
  <2>1. PICK v \in W \X E : g.edges[v[2]].from = End(g, s, v[1]) /\ w = Append(v[1], v[2])
    BY <1>1, <1>4 DEF GrownFrom
  <2>2. PICK p, e : p = v[1] /\ e = v[2]
    OBVIOUS
  <2>3. /\ p \in Seq(E) /\ IsWalk(g, s, p) /\ Len(p) = k /\ e \in E
        /\ g.edges[e].from = End(g, s, p) /\ w = Append(p, e)
    BY <1>3, <2>1, <2>2
  <2>4. w \in Seq(E) /\ Len(w) = k + 1 /\ IsWalk(g, s, w)
    BY <1>1, <2>3, LongerWalk
  <2> QED
    BY <1>1, <2>4 DEF WalksOf
<1>5. ASSUME NEW w \in WalksOf(g, s, k + 1) PROVE w \in GrownFrom(g, s, W)
  <2>1. w \in Seq(E) /\ IsWalk(g, s, w) /\ Len(w) = k + 1
    BY <1>1, <1>5 DEF WalksOf
  <2>2. w # <<>>
    BY <2>1
  <2>3. PICK p \in Seq(E), e \in E : w = Append(p, e)
    BY <2>1, <2>2, SequenceEmptyOrAppend
  <2>4. Len(w) = Len(p) + 1 /\ IsWalk(g, s, p) /\ g.edges[e].from = End(g, s, p)
    BY <1>1, <2>1, <2>3, LongerWalk
  <2>5. Len(p) = k
    BY <2>1, <2>3, <2>4
  <2>6. PICK v : v = <<p, e>>
    OBVIOUS
  <2>7. v \in W \X E /\ v[1] = p /\ v[2] = e
    BY <1>3, <2>3, <2>4, <2>5, <2>6
  <2> QED
    BY <1>1, <2>3, <2>4, <2>7 DEF GrownFrom
<1> QED
  BY <1>2, <1>4, <1>5

(* Walks are the walks of a length.                                         *)
LEMMA WalksAre ==
  ASSUME NEW g, NEW s, NEW n \in Nat
  PROVE  Walks(g, s, n) = WalksOf(g, s, n)
<1> DEFINE Eq(h) == h = [k \in 0..n |->
                           IF k = 0 THEN {<<>>}
                           ELSE {Append(w[1], w[2]) : w \in {v \in h[k - 1] \X (DOMAIN g.edges) :
                                   g.edges[v[2]].from = End(g, s, v[1])}}]
           walks == CHOOSE h : Eq(h)
<1>1. WalksOf(g, s, 0) = {<<>>}
  <2>1. \A w \in Seq(DOMAIN g.edges) : Len(w) = 0 <=> w = <<>>
    OBVIOUS
  <2>2. <<>> \in Seq(DOMAIN g.edges) /\ IsWalk(g, s, <<>>)
    BY EmptyWalk
  <2> QED
    BY <2>1, <2>2 DEF WalksOf
<1>2. PICK W : W = [k \in 0..n |-> WalksOf(g, s, k)]
  OBVIOUS
<1>3. Eq(W)
  <2>1. \A k \in 0..n : W[k] = IF k = 0 THEN {<<>>} ELSE GrownFrom(g, s, W[k - 1])
    <3> TAKE k \in 0..n
    <3>1. CASE k = 0
      BY <1>1, <1>2, <3>1
    <3>2. CASE k # 0
      <4>1. k - 1 \in Nat /\ k - 1 \in 0..n /\ (k - 1) + 1 = k
        BY <3>2
      <4>2. GrownFrom(g, s, WalksOf(g, s, k - 1)) = WalksOf(g, s, k)
        BY <4>1, GrownWalks
      <4> QED
        BY <1>2, <3>2, <4>1, <4>2
    <3> QED
      BY <3>1, <3>2
  <2>2. W = [k \in 0..n |-> IF k = 0 THEN {<<>>} ELSE GrownFrom(g, s, W[k - 1])]
    BY <1>2, <2>1
  <2> QED
    BY <2>2, Zenon DEF GrownFrom
<1>4. Eq(walks)
  BY <1>3, Zenon
<1>5. Walks(g, s, n) = walks[n]
  BY DEF Walks
<1> HIDE DEF walks
<1>6. \A k \in 0..n : walks[k] = IF k = 0 THEN {<<>>} ELSE GrownFrom(g, s, walks[k - 1])
  BY <1>4 DEF GrownFrom
<1>7. PICK K : K = {k \in Nat : k <= n => walks[k] = WalksOf(g, s, k)}
  OBVIOUS
<1>8. 0 \in K
  <2>1. 0 \in 0..n
    OBVIOUS
  <2>2. walks[0] = {<<>>}
    BY <1>6, <2>1
  <2> QED
    BY <1>1, <1>7, <2>2
<1>9. ASSUME NEW k \in Nat, k \in K PROVE k + 1 \in K
  <2> SUFFICES ASSUME k + 1 <= n PROVE walks[k + 1] = WalksOf(g, s, k + 1)
    BY <1>7
  <2>1. k + 1 \in 0..n /\ k + 1 # 0 /\ (k + 1) - 1 = k /\ k <= n
    OBVIOUS
  <2>2. walks[k + 1] = GrownFrom(g, s, walks[k])
    BY <1>6, <2>1
  <2>3. walks[k] = WalksOf(g, s, k)
    BY <1>7, <1>9, <2>1
  <2> QED
    BY <2>2, <2>3, GrownWalks
<1>10. Nat \subseteq K
  BY <1>8, <1>9, SetInduction
<1>11. walks[n] = WalksOf(g, s, n)
  BY <1>7, <1>10
<1> QED
  BY <1>5, <1>11

(* ShortestWalks are the shortest walks of at most max edges.               *)
LEMMA ShortestAre ==
  ASSUME NEW g, NEW s, NEW t, NEW max \in Nat
  PROVE  \A w : w \in ShortestWalks(g, s, t, max) <=> Shortest(g, s, t, max, w)
<1> DEFINE To(n) == {w \in Walks(g, s, n) : End(g, s, w) = t}
           lengths == {n \in 0..max : To(n) # {}}
           least == CHOOSE n \in lengths : \A k \in lengths : n <= k
<1>1. ShortestWalks(g, s, t, max) = IF lengths = {} THEN {} ELSE To(least)
  BY DEF ShortestWalks
<1>2. \A n \in Nat : \A w : w \in To(n) <=> IsWalk(g, s, w) /\ Len(w) = n /\ End(g, s, w) = t
  BY WalksAre DEF WalksOf, IsWalk
<1>3. PICK L : L = lengths
  OBVIOUS
<1>4. \A n : n \in L <=> n \in 0..max /\ \E w : w \in To(n)
  BY <1>3
<1> HIDE DEF To
<1>5. \A n : n \in L <=> n \in 0..max /\ \E w : IsWalk(g, s, w) /\ Len(w) = n /\ End(g, s, w) = t
  BY <1>2, <1>4
<1>6. ASSUME NEW w, Shortest(g, s, t, max, w)
      PROVE  Len(w) \in L /\ \A k \in L : Len(w) <= k
  <2>1. IsWalk(g, s, w) /\ Len(w) \in 0..max /\ End(g, s, w) = t
    BY <1>6 DEF Shortest, IsWalk
  <2> QED
    BY <1>5, <1>6, <2>1 DEF Shortest
<1>7. CASE L = {}
  BY <1>1, <1>3, <1>6, <1>7
<1>8. CASE L # {}
  <2>1. \E n \in L : \A k \in L : n <= k
    <3>1. PICK I : I = {i \in 1..(max + 1) : i - 1 \in L}
      OBVIOUS
    <3>2. \A k \in L : k \in 0..max /\ k + 1 \in 1..(max + 1) /\ (k + 1) - 1 = k
      BY <1>5
    <3>3. \A k \in L : k + 1 \in I
      BY <3>1, <3>2
    <3>4. PICK m \in Nat : m = max + 1
      OBVIOUS
    <3>5. I \in SUBSET (1..m) /\ I # {}
      BY <1>8, <3>1, <3>3, <3>4
    <3>6. PICK i \in I : \A k \in I : i <= k
      BY <3>5, LeastOf
    <3>7. i - 1 \in L /\ i \in Nat
      BY <3>1, <3>6
    <3>8. \A k \in L : i - 1 <= k
      BY <3>2, <3>3, <3>6, <3>7
    <3> QED
      BY <3>7, <3>8
  <2>2. PICK n : n = least
    OBVIOUS
  <2>3. n \in L /\ \A k \in L : n <= k
    BY <1>3, <2>1, <2>2
  <2> HIDE DEF lengths
  <2>4. ShortestWalks(g, s, t, max) = To(n)
    BY <1>1, <1>3, <1>8, <2>2
  <2>5. n \in 0..max
    BY <1>5, <2>3
  <2>6. ASSUME NEW w, w \in To(n) PROVE Shortest(g, s, t, max, w)
    <3>1. IsWalk(g, s, w) /\ Len(w) = n /\ End(g, s, w) = t
      BY <1>2, <2>5, <2>6
    <3>2. ASSUME NEW v, IsWalk(g, s, v), End(g, s, v) = t, ~(n <= Len(v)) PROVE FALSE
      <4>1. Len(v) \in Nat
        BY <3>2 DEF IsWalk
      <4>2. Len(v) \in 0..max
        BY <2>5, <3>2, <4>1
      <4>3. Len(v) \in L
        BY <1>5, <3>2, <4>2
      <4> QED
        BY <2>3, <3>2, <4>3
    <3>3. Len(w) <= max
      BY <2>5, <3>1
    <3> QED
      BY <3>1, <3>2, <3>3 DEF Shortest
  <2>7. ASSUME NEW w, Shortest(g, s, t, max, w) PROVE w \in To(n)
    <3>1. IsWalk(g, s, w) /\ End(g, s, w) = t /\ Len(w) \in Nat
      BY <2>7 DEF Shortest, IsWalk
    <3>2. Len(w) <= n /\ n <= Len(w)
      BY <1>6, <2>3, <2>7
    <3>3. Len(w) = n
      BY <2>5, <3>1, <3>2
    <3> QED
      BY <1>2, <2>5, <3>1, <3>3
  <2> QED
    BY <2>4, <2>6, <2>7
<1> QED
  BY <1>7, <1>8

-----------------------------------------------------------------------------
(* find_paths finds the shortest paths, all of them, each once.             *)
LEMMA FindsAll ==
  ASSUME NEW g, GraphOk(g), NEW s, NEW t, NEW max \in Nat
  PROVE  FoundAll(g, s, t, max, FindPaths(g, s, t, max))
<1>1. PICK found : found = FindPaths(g, s, t, max)
  OBVIOUS
<1>2. CASE s = t
  <2>1. found = << <<>> >>
    BY <1>1, <1>2 DEF FindPaths
  <2>2. DOMAIN found = 1..1 /\ found[1] = <<>> /\ \A i : i \in 1..1 <=> i = 1
    BY <2>1
  <2>3. ASSUME NEW w PROVE Shortest(g, s, t, max, w) <=> w = <<>>
    <3>1. IsWalk(g, s, <<>>) /\ End(g, s, <<>>) = t /\ Len(<<>>) = 0
      BY <1>2, EmptyWalk
    <3>2. \A v : IsWalk(g, s, v) => Len(v) \in Nat /\ (Len(v) = 0 => v = <<>>)
      BY DEF IsWalk
    <3>3. Shortest(g, s, t, max, <<>>)
      BY <3>1, <3>2 DEF Shortest
    <3>4. Shortest(g, s, t, max, w) => w = <<>>
      <4> HAVE Shortest(g, s, t, max, w)
      <4>1. IsWalk(g, s, w) /\ Len(w) <= 0
        BY <3>1 DEF Shortest
      <4>2. Len(w) = 0
        BY <3>2, <4>1
      <4> QED
        BY <3>2, <4>1, <4>2
    <3> QED
      BY <3>3, <3>4
  <2>4. \A w : Shortest(g, s, t, max, w) <=> \E i \in 1..1 : found[i] = w
    BY <2>2, <2>3
  <2>5. \A i, j \in 1..1 : found[i] = found[j] => i = j
    BY <2>2
  <2>6. found \in Seq(Seq(DOMAIN g.edges)) /\ Len(found) = 1
    <3>1. PICK S : S = Seq(DOMAIN g.edges)
      OBVIOUS
    <3>2. <<>> \in S
      BY <3>1
    <3>3. found \in Seq(S) /\ Len(found) = 1
      BY <2>1, <3>2
    <3> QED
      BY <3>1, <3>3
  <2> QED
    BY <1>1, <2>4, <2>5, <2>6 DEF FoundAll
<1>3. CASE s # t /\ ~({s, t} \subseteq DOMAIN g.out)
  <2>1. found = <<>>
    BY <1>1, <1>3 DEF FindPaths
  <2>2. DOMAIN found = 1..0 /\ \A i : i \notin 1..0
    BY <2>1
  <2>3. ASSUME NEW w, IsWalk(g, s, w), End(g, s, w) = t PROVE FALSE
    <3>1. w \in Seq(DOMAIN g.edges)
      BY <2>3 DEF IsWalk
    <3>2. w # <<>>
      BY <1>3, <2>3 DEF End
    <3>3. /\ 1 \in 1..Len(w) /\ Len(w) \in 1..Len(w)
          /\ w[1] \in DOMAIN g.edges /\ w[Len(w)] \in DOMAIN g.edges
      BY <3>1, <3>2
    <3>4. g.edges[w[1]].from = s
      BY <2>3, <3>3 DEF IsWalk
    <3>5. g.edges[w[Len(w)]].to = t
      BY <2>3, <3>2 DEF End
    <3>6. s \in DOMAIN g.out /\ t \in DOMAIN g.out
      BY <3>3, <3>4, <3>5 DEF GraphOk
    <3> QED
      BY <1>3, <3>6
  <2>4. \A w : Shortest(g, s, t, max, w) <=> \E i \in 1..0 : found[i] = w
    BY <2>2, <2>3 DEF Shortest
  <2>5. found \in Seq(Seq(DOMAIN g.edges)) /\ Len(found) = 0
    BY <2>1
  <2> QED
    BY <1>1, <2>2, <2>4, <2>5 DEF FoundAll
<1>4. CASE s # t /\ {s, t} \subseteq DOMAIN g.out
  <2>1. PICK st : st = [source |-> s, queue |-> << <<>> >>, found |-> <<>>,
                        seen |-> [y \in DOMAIN g.out |-> IF y = s THEN 0 ELSE max + 2]]
    OBVIOUS
  <2>2. s \in DOMAIN g.out /\ found = SearchPaths(g, t, max, st)
    BY <1>1, <1>4, <2>1 DEF FindPaths
  <2>3. SearchOk(g, s, t, max, st)
    BY <2>1, <2>2, StartOk
  <2>4. SearchedOut(g, s, t, max, st)
    BY <2>2, <2>3, SearchEnds
  <2>5. PICK fin : SearchOk(g, s, t, max, fin) /\ fin.queue = <<>> /\ found = fin.found
    BY <2>2, <2>4 DEF SearchedOut
  <2>6. FoundAll(g, s, t, max, fin.found)
    BY <2>5, EndOk
  <2> QED
    BY <1>1, <2>5, <2>6
<1> QED
  BY <1>2, <1>3, <1>4

(* Between any two tables of any graph, exactly the shortest paths of at    *)
(* most max joins are found, each once: see FindsShortest                   *)
(* (linking/join_graph.py:224).                                             *)
THEOREM PathsShortest ==
  ASSUME NEW g, GraphOk(g), NEW s, NEW t, NEW max \in Nat
  PROVE  FindsShortest(g, s, t, max)
<1>1. PICK found : found = FindPaths(g, s, t, max)
  OBVIOUS
<1>2. FoundAll(g, s, t, max, found)
  BY <1>1, FindsAll
<1>3. PICK n \in Nat : n = Len(found) /\ DOMAIN found = 1..n
  BY <1>2 DEF FoundAll
<1>4. /\ \A w : Shortest(g, s, t, max, w) <=> \E i \in 1..n : found[i] = w
      /\ \A i, j \in 1..n : found[i] = found[j] => i = j
  BY <1>2, <1>3 DEF FoundAll
<1>5. \A w : w \in Range(found) <=> \E i \in 1..n : found[i] = w
  BY <1>3 DEF Range
<1>6. Range(found) = ShortestWalks(g, s, t, max)
  <2>1. \A w : w \in ShortestWalks(g, s, t, max) <=> Shortest(g, s, t, max, w)
    BY ShortestAre
  <2> QED
    BY <1>4, <1>5, <2>1
<1> QED
  BY <1>1, <1>3, <1>4, <1>6 DEF FindsShortest

-----------------------------------------------------------------------------
(* Which tables are reached from one of them, by joins among them           *)

\* f is what n steps of F make of a
Iterates(X, F, a, n, f) ==
  /\ f \in [0..n -> X] /\ f[0] = a
  /\ \A k \in 0..n : k # 0 => f[k] = F[f[k - 1]]

(* Steps can be repeated any number of times.                               *)
LEMMA Iteration ==
  ASSUME NEW X, NEW F \in [X -> X], NEW a \in X, NEW n \in Nat
  PROVE  \E f : Iterates(X, F, a, n, f)
<1>1. PICK K : K = {m \in Nat : \E f : Iterates(X, F, a, m, f)}
  OBVIOUS
<1>2. 0 \in K
  <2>1. PICK f : f = [k \in 0..0 |-> a]
    OBVIOUS
  <2>2. \A k \in 0..0 : k = 0
    OBVIOUS
  <2>3. Iterates(X, F, a, 0, f)
    BY <2>1, <2>2 DEF Iterates
  <2> QED
    BY <1>1, <2>3
<1>3. ASSUME NEW m \in Nat, m \in K PROVE m + 1 \in K
  <2>1. PICK f : Iterates(X, F, a, m, f)
    BY <1>1, <1>3
  <2>2. f \in [0..m -> X] /\ f[0] = a /\ \A k \in 0..m : k # 0 => f[k] = F[f[k - 1]]
    BY <2>1 DEF Iterates
  <2>3. PICK h : h = [k \in 0..(m + 1) |-> IF k <= m THEN f[k] ELSE F[f[m]]]
    OBVIOUS
  <2>4. \A k \in 0..m : h[k] = f[k] /\ f[k] \in X /\ F[f[k]] \in X
    BY <2>2, <2>3
  <2>5. h[m + 1] = F[f[m]] /\ m \in 0..m
    BY <2>3
  <2>6. \A k \in 0..(m + 1) : k \in 0..m \/ k = m + 1
    OBVIOUS
  <2>7. \A k \in 0..(m + 1) : h[k] \in X
    BY <2>4, <2>5, <2>6
  <2>8. h \in [0..(m + 1) -> X]
    BY <2>3, <2>7
  <2>9. h[0] = a
    BY <2>2, <2>4
  <2>10. ASSUME NEW k \in 0..(m + 1), k # 0 PROVE h[k] = F[h[k - 1]]
    <3>1. k - 1 \in 0..m /\ (k = m + 1 => k - 1 = m)
      BY <2>10
    <3>2. CASE k \in 0..m
      BY <2>2, <2>4, <2>10, <3>1, <3>2
    <3>3. CASE k = m + 1
      BY <2>4, <2>5, <3>1, <3>3
    <3> QED
      BY <2>6, <3>2, <3>3
  <2>11. Iterates(X, F, a, m + 1, h)
    BY <2>8, <2>9, <2>10 DEF Iterates
  <2> QED
    BY <1>1, <2>11
<1>4. n \in K
  <2>1. Nat \subseteq K
    BY <1>2, <1>3, SetInduction
  <2> QED
    BY <2>1
<1> QED
  BY <1>1, <1>4

Adds(T, F) == F \in [SUBSET T -> SUBSET T] /\ \A U \in SUBSET T : U \subseteq F[U]

(* Iterating what only adds to a finite set comes to a standstill within as *)
(* many steps as it has elements.                                           *)
LEMMA Standstill ==
  ASSUME NEW T, IsFiniteSet(T), NEW F, Adds(T, F),
         NEW a \in T, NEW n \in Nat, n = Cardinality(T),
         NEW f, Iterates(SUBSET T, F, {a}, n, f)
  PROVE  a \in f[n] /\ F[f[n]] = f[n]
<1>1. /\ f \in [0..n -> SUBSET T] /\ f[0] = {a}
      /\ \A k \in 0..n : k # 0 => f[k] = F[f[k - 1]]
      /\ F \in [SUBSET T -> SUBSET T] /\ \A U \in SUBSET T : U \subseteq F[U]
  BY DEF Iterates, Adds
<1>2. \A k \in 0..n : f[k] \in SUBSET T /\ IsFiniteSet(f[k]) /\ Cardinality(f[k]) \in Nat /\ Cardinality(f[k]) <= n
  <2> TAKE k \in 0..n
  <2>1. f[k] \in SUBSET T
    BY <1>1
  <2>2. IsFiniteSet(f[k]) /\ Cardinality(f[k]) <= Cardinality(T)
    BY <2>1, FS_Subset
  <2>3. Cardinality(f[k]) \in Nat
    BY <2>2, FS_CardinalityType
  <2> QED
    BY <2>1, <2>2, <2>3
<1>3. \A k \in Nat : k + 1 <= n => /\ k \in 0..n /\ k + 1 \in 0..n
                                   /\ f[k + 1] = F[f[k]] /\ f[k] \subseteq f[k + 1]
  <2> TAKE k \in Nat
  <2> HAVE k + 1 <= n
  <2>1. k \in 0..n /\ k + 1 \in 0..n /\ k + 1 # 0 /\ (k + 1) - 1 = k
    OBVIOUS
  <2>2. f[k + 1] = F[f[k]]
    BY <1>1, <2>1
  <2>3. f[k] \subseteq F[f[k]]
    BY <1>1, <1>2, <2>1
  <2> QED
    BY <2>1, <2>2, <2>3
<1>4. PICK K : K = {k \in Nat : k <= n =>
                      \/ \E j \in Nat : j + 1 <= k /\ f[j + 1] = f[j]
                      \/ Cardinality(f[k]) >= k + 1}
  OBVIOUS
<1>5. 0 \in K
  <2>1. Cardinality(f[0]) = 1
    BY <1>1, FS_Singleton
  <2>2. Cardinality(f[0]) >= 0 + 1
    BY <2>1
  <2> QED
    BY <1>4, <2>2
<1>6. ASSUME NEW k \in Nat, k \in K PROVE k + 1 \in K
  <2> SUFFICES ASSUME k + 1 <= n, \A j \in Nat : j + 1 <= k + 1 => f[j + 1] # f[j]
               PROVE  Cardinality(f[k + 1]) >= (k + 1) + 1
    BY <1>4
  <2>1. Cardinality(f[k]) >= k + 1
    <3>1. k <= n /\ \A j \in Nat : j + 1 <= k => j + 1 <= k + 1
      OBVIOUS
    <3> QED
      BY <1>4, <1>6, <3>1
  <2>2. f[k] \subseteq f[k + 1] /\ f[k] # f[k + 1] /\ k \in 0..n /\ k + 1 \in 0..n
    BY <1>3
  <2>3. /\ Cardinality(f[k]) \in Nat /\ Cardinality(f[k + 1]) \in Nat
        /\ Cardinality(f[k]) <= Cardinality(f[k + 1]) /\ Cardinality(f[k + 1]) # Cardinality(f[k])
    BY <1>2, <2>2, FS_Subset
  <2> QED
    BY <2>1, <2>3
<1>7. PICK j \in Nat : j + 1 <= n /\ f[j + 1] = f[j]
  <2>1. n \in K /\ n \in 0..n
    BY <1>5, <1>6, SetInduction
  <2>2. ~(Cardinality(f[n]) >= n + 1)
    BY <1>2, <2>1
  <2> QED
    BY <1>4, <2>1, <2>2
<1>8. PICK M : M = {m \in Nat : j + m <= n => f[j + m] = f[j]}
  OBVIOUS
<1>9. 0 \in M
  BY <1>8
<1>10. ASSUME NEW m \in Nat, m \in M PROVE m + 1 \in M
  <2> SUFFICES ASSUME j + (m + 1) <= n PROVE f[j + (m + 1)] = f[j]
    BY <1>8
  <2>1. PICK k \in Nat : k = j + m
    OBVIOUS
  <2>2. k + 1 <= n /\ k <= n /\ j + (m + 1) = k + 1
    BY <2>1
  <2>3. f[k] = f[j]
    BY <1>8, <1>10, <2>1, <2>2
  <2>4. f[k + 1] = F[f[k]] /\ f[j + 1] = F[f[j]]
    BY <1>3, <1>7, <2>2
  <2> QED
    BY <1>7, <2>2, <2>3, <2>4
<1>11. f[n] = f[j]
  <2>1. PICK m \in Nat : j + m = n
    <3>1. n - j \in Nat /\ j + (n - j) = n
      BY <1>7
    <3> QED
      BY <3>1
  <2>2. m \in M
    BY <1>9, <1>10, SetInduction
  <2> QED
    BY <1>8, <2>1, <2>2
<1>12. F[f[n]] = f[n]
  BY <1>3, <1>7, <1>11
<1>13. a \in f[n]
  <2>1. PICK L : L = {k \in Nat : k <= n => a \in f[k]}
    OBVIOUS
  <2>2. 0 \in L
    BY <1>1, <2>1
  <2>3. ASSUME NEW k \in Nat, k \in L PROVE k + 1 \in L
    <3> SUFFICES ASSUME k + 1 <= n PROVE a \in f[k + 1]
      BY <2>1
    <3>1. a \in f[k]
      <4>1. k <= n
        OBVIOUS
      <4> QED
        BY <2>1, <2>3, <4>1
    <3> QED
      BY <1>3, <3>1
  <2>4. n \in L
    BY <2>2, <2>3, SetInduction
  <2> QED
    BY <2>1, <2>4
<1> QED
  BY <1>12, <1>13

\* R is not left by a join among the tables
Closed(g, tables, R) ==
  \A e \in DOMAIN g.edges :
    {g.edges[e].from, g.edges[e].to} \subseteq tables /\ (g.edges[e].from \in R \/ g.edges[e].to \in R)
      => g.edges[e].from \in R /\ g.edges[e].to \in R

(* No join among finitely many tables leads out of those that are reached.  *)
LEMMA ReachClosed ==
  ASSUME NEW g, NEW tables, IsFiniteSet(tables), NEW a \in tables
  PROVE  a \in Reach(g, tables, {a}) /\ Closed(g, tables, Reach(g, tables, {a}))
<1> DEFINE Ends(k) == {g.edges[k].from, g.edges[k].to}
           joins == {k \in DOMAIN g.edges : Ends(k) \subseteq tables}
           Grow(T) == T \cup UNION {Ends(k) : k \in {e \in joins : Ends(e) \cap T # {}}}
           Eq(h) == h = [m \in 0..Cardinality(tables) |-> IF m = 0 THEN {a} ELSE Grow(h[m - 1])]
           reach == CHOOSE h : Eq(h)
<1>1. PICK n \in Nat : n = Cardinality(tables)
  BY FS_CardinalityType
<1>2. PICK F : F = [T \in SUBSET tables |-> Grow(T)]
  OBVIOUS
<1>3. \A T \in SUBSET tables : F[T] = Grow(T) /\ Grow(T) \in SUBSET tables /\ T \subseteq Grow(T)
  BY <1>2
<1>4. F \in [SUBSET tables -> SUBSET tables]
  BY <1>2, <1>3
<1> HIDE DEF Grow
<1>5. PICK f : Iterates(SUBSET tables, F, {a}, n, f)
  <2>1. {a} \in SUBSET tables
    OBVIOUS
  <2> QED
    BY <1>4, <2>1, Iteration
<1>6. /\ f \in [0..n -> SUBSET tables] /\ f[0] = {a}
       /\ \A k \in 0..n : k # 0 => f[k] = F[f[k - 1]]
  BY <1>5 DEF Iterates
<1>7. Eq(f)
  <2>1. \A k \in 0..n : f[k] = IF k = 0 THEN {a} ELSE Grow(f[k - 1])
    <3> TAKE k \in 0..n
    <3>1. CASE k = 0
      BY <1>6, <3>1
    <3>2. CASE k # 0
      <4>1. k - 1 \in 0..n
        BY <3>2
      <4>2. f[k - 1] \in SUBSET tables
        BY <1>6, <4>1
      <4> QED
        BY <1>3, <1>6, <3>2, <4>2
    <3> QED
      BY <3>1, <3>2
  <2>2. f = [k \in 0..n |-> f[k]]
    BY <1>6
  <2> QED
    BY <1>1, <2>1, <2>2
<1>8. Eq(reach)
  BY <1>7, Zenon
<1>9. Reach(g, tables, {a}) = reach[n]
  BY <1>1 DEF Reach, Grow
<1> HIDE DEF reach
<1>10. \A k \in 0..n : reach[k] = IF k = 0 THEN {a} ELSE Grow(reach[k - 1])
  BY <1>1, <1>8
<1>11. PICK K : K = {k \in Nat : k <= n => reach[k] = f[k]}
  OBVIOUS
<1>12. 0 \in K
  <2>1. 0 \in 0..n
    OBVIOUS
  <2> QED
    BY <1>6, <1>10, <1>11, <2>1
<1>13. ASSUME NEW k \in Nat, k \in K PROVE k + 1 \in K
  <2> SUFFICES ASSUME k + 1 <= n PROVE reach[k + 1] = f[k + 1]
    BY <1>11
  <2>1. k \in 0..n /\ k + 1 \in 0..n /\ k + 1 # 0 /\ (k + 1) - 1 = k /\ k <= n
    OBVIOUS
  <2>2. reach[k + 1] = Grow(reach[k]) /\ f[k + 1] = F[f[k]]
    BY <1>6, <1>10, <2>1
  <2>3. reach[k] = f[k] /\ f[k] \in SUBSET tables
    BY <1>11, <1>13, <1>6, <2>1
  <2> QED
    BY <1>3, <2>2, <2>3
<1>14. reach[n] = f[n]
  <2>1. n \in K
    BY <1>12, <1>13, SetInduction
  <2> QED
    BY <1>11, <2>1
<1>15. a \in f[n] /\ F[f[n]] = f[n]
  <2>1. Adds(tables, F)
    BY <1>3, <1>4 DEF Adds
  <2> QED
    BY <1>1, <1>5, <2>1, Standstill
<1>16. PICK R : R = f[n]
  OBVIOUS
<1>17. R \in SUBSET tables /\ Grow(R) = R
  <2>1. n \in 0..n
    OBVIOUS
  <2> QED
    BY <1>3, <1>15, <1>16, <1>6, <2>1
<1>18. Closed(g, tables, R)
  <2> SUFFICES ASSUME NEW e \in DOMAIN g.edges, Ends(e) \subseteq tables,
                      g.edges[e].from \in R \/ g.edges[e].to \in R
               PROVE  g.edges[e].from \in R /\ g.edges[e].to \in R
    BY DEF Closed
  <2>1. e \in joins /\ Ends(e) \cap R # {}
    OBVIOUS
  <2>2. Ends(e) \subseteq Grow(R)
    BY <2>1 DEF Grow
  <2> QED
    BY <1>17, <2>2
<1> QED
  BY <1>9, <1>14, <1>15, <1>16, <1>18

-----------------------------------------------------------------------------
(* The completion of a set of tables                                        *)

(* The tables of a path are those its edges leave and lead to.              *)
LEMMA PathTablesAre ==
  ASSUME NEW g, NEW p \in Seq(DOMAIN g.edges)
  PROVE  /\ \A i \in 1..Len(p) : g.edges[p[i]].from \in PathTables(g, p) /\ g.edges[p[i]].to \in PathTables(g, p)
         /\ \A x \in PathTables(g, p) : \E i \in 1..Len(p) : x = g.edges[p[i]].from \/ x = g.edges[p[i]].to
<1>1. PICK es : es = [i \in DOMAIN p |-> g.edges[p[i]]]
  OBVIOUS
<1>2. DOMAIN es = 1..Len(p) /\ \A i \in 1..Len(p) : es[i] = g.edges[p[i]]
  BY <1>1
<1>3. PathTables(g, p) = Nodes(es)
  BY <1>1 DEF PathTables
<1>4. \A x : x \in Nodes(es) <=> \E i \in DOMAIN es : x \in {es[i].from, es[i].to}
  BY Zenon DEF Nodes
<1> QED
  BY <1>2, <1>3, <1>4

(* A walk among the tables, from or to one that is reached, passes only     *)
(* tables that are.                                                         *)
LEMMA WalkWithin ==
  ASSUME NEW g, NEW tables, NEW R, Closed(g, tables, R), NEW s, NEW p, IsWalk(g, s, p),
         PathTables(g, p) \subseteq tables, s \in R \/ End(g, s, p) \in R
  PROVE  PathTables(g, p) \subseteq R /\ s \in R /\ End(g, s, p) \in R
<1>1. p \in Seq(DOMAIN g.edges)
  BY DEF IsWalk
<1>2. PICK n \in Nat : n = Len(p)
  BY <1>1
<1> DEFINE From(i) == g.edges[p[i]].from
           To(i) == g.edges[p[i]].to
<1>3. \A i \in 1..n : From(i) = IF i = 1 THEN s ELSE To(i - 1)
  BY <1>2 DEF IsWalk
<1>4. End(g, s, p) = IF n = 0 THEN s ELSE To(n)
  BY <1>1, <1>2 DEF End
<1>5. ASSUME NEW i \in 1..n, From(i) \in R \/ To(i) \in R
      PROVE  From(i) \in R /\ To(i) \in R
  <2>1. p[i] \in DOMAIN g.edges
    BY <1>1, <1>2
  <2>2. {g.edges[p[i]].from, g.edges[p[i]].to} \subseteq tables
    BY <1>1, <1>2, PathTablesAre
  <2> QED
    BY <1>5, <2>1, <2>2 DEF Closed
<1> HIDE DEF From, To
<1>6. CASE n = 0
  <2>1. \A i : i \notin 1..Len(p)
    BY <1>2, <1>6
  <2>2. PathTables(g, p) = {}
    BY <1>1, <2>1, PathTablesAre
  <2> QED
    BY <1>4, <1>6, <2>2
<1>7. CASE n # 0
  <2>1. CASE s \in R
    <3>1. PICK K : K = {k \in Nat : k + 1 <= n => From(k + 1) \in R /\ To(k + 1) \in R}
      OBVIOUS
    <3>2. 0 \in K
      <4>1. 1 \in 1..n /\ 0 + 1 = 1
        BY <1>7
      <4>2. From(1) \in R
        BY <1>3, <2>1, <4>1
      <4>3. To(1) \in R
        BY <1>5, <4>1, <4>2
      <4> QED
        BY <3>1, <4>1, <4>2, <4>3
    <3>3. ASSUME NEW k \in Nat, k \in K PROVE k + 1 \in K
      <4> SUFFICES ASSUME (k + 1) + 1 <= n
                   PROVE  From((k + 1) + 1) \in R /\ To((k + 1) + 1) \in R
        BY <3>1
      <4>1. PICK i \in 1..n : i = (k + 1) + 1
        OBVIOUS
      <4>2. i - 1 = k + 1 /\ k + 1 <= n /\ i # 1
        BY <4>1
      <4>3. From(i) \in R
        BY <1>3, <3>1, <3>3, <4>2
      <4>4. To(i) \in R
        BY <1>5, <4>3
      <4> QED
        BY <4>1, <4>3, <4>4
    <3>4. Nat \subseteq K
      BY <3>2, <3>3, SetInduction
    <3>5. \A i \in 1..n : From(i) \in R /\ To(i) \in R
      <4> TAKE i \in 1..n
      <4>1. i - 1 \in Nat /\ (i - 1) + 1 = i
        OBVIOUS
      <4>2. i - 1 \in K
        BY <3>4, <4>1
      <4> QED
        BY <3>1, <4>1, <4>2
    <3> QED
      BY <1>1, <1>2, <1>4, <1>7, <2>1, <3>5, PathTablesAre DEF From, To
  <2>2. CASE End(g, s, p) \in R
    <3>1. PICK K : K = {k \in Nat : k + 1 <= n => From(n - k) \in R /\ To(n - k) \in R}
      OBVIOUS
    <3>2. 0 \in K
      <4>1. n \in 1..n /\ n - 0 = n
        BY <1>7
      <4>2. To(n) \in R
        BY <1>4, <1>7, <2>2
      <4>3. From(n) \in R
        BY <1>5, <4>1, <4>2
      <4> QED
        BY <3>1, <4>1, <4>2, <4>3
    <3>3. ASSUME NEW k \in Nat, k \in K PROVE k + 1 \in K
      <4> SUFFICES ASSUME (k + 1) + 1 <= n
                   PROVE  From(n - (k + 1)) \in R /\ To(n - (k + 1)) \in R
        BY <3>1
      <4>1. PICK i \in 1..n : i = n - (k + 1)
        OBVIOUS
      <4>2. PICK j \in 1..n : j = n - k
        OBVIOUS
      <4>3. j - 1 = i /\ j # 1 /\ k + 1 <= n
        BY <4>1, <4>2
      <4>4. From(j) \in R
        BY <3>1, <3>3, <4>2, <4>3
      <4>5. To(i) \in R
        BY <1>3, <4>3, <4>4
      <4>6. From(i) \in R
        BY <1>5, <4>5
      <4> QED
        BY <4>1, <4>5, <4>6
    <3>4. Nat \subseteq K
      BY <3>2, <3>3, SetInduction
    <3>5. \A i \in 1..n : From(i) \in R /\ To(i) \in R
      <4> TAKE i \in 1..n
      <4>1. PICK k \in Nat : k = n - i
        OBVIOUS
      <4>2. k \in K /\ n - k = i /\ k + 1 <= n
        BY <3>4, <4>1
      <4> QED
        BY <3>1, <4>2
    <3>6. s \in R
      <4>1. 1 \in 1..n
        BY <1>7
      <4> QED
        BY <1>3, <3>5, <4>1
    <3> QED
      BY <1>1, <1>2, <2>2, <3>5, <3>6, PathTablesAre DEF From, To
  <2> QED
    BY <2>1, <2>2
<1> QED
  BY <1>6, <1>7

(* The path of a pair is a walk from one of its tables to the other.        *)
LEMMA PairWalk ==
  ASSUME NEW g, GraphOk(g), NEW a, NEW b, PairPaths(g, a, b) # <<>>,
         NEW p, p = PairPaths(g, a, b)[1]
  PROVE  \E s, t : /\ IsWalk(g, s, p) /\ End(g, s, p) = t
                   /\ (s = a /\ t = b) \/ (s = b /\ t = a)
<1>1. MaxDepth \in Nat
  BY DEF MaxDepth
<1>2. ASSUME NEW s, NEW t, FindPaths(g, s, t, MaxDepth) # <<>>
      PROVE  IsWalk(g, s, FindPaths(g, s, t, MaxDepth)[1]) /\ End(g, s, FindPaths(g, s, t, MaxDepth)[1]) = t
  <2>1. PICK found : found = FindPaths(g, s, t, MaxDepth)
    OBVIOUS
  <2>2. FoundAll(g, s, t, MaxDepth, found)
    BY <1>1, <2>1, FindsAll
  <2>3. 1 \in 1..Len(found)
    <3>1. found \in Seq(Seq(DOMAIN g.edges)) /\ found # <<>>
      BY <1>2, <2>1, <2>2 DEF FoundAll
    <3> QED
      BY <3>1
  <2>4. Shortest(g, s, t, MaxDepth, found[1])
    BY <2>2, <2>3 DEF FoundAll
  <2> QED
    BY <2>1, <2>4 DEF Shortest
<1>3. CASE FindPaths(g, a, b, MaxDepth) # <<>>
  <2>1. p = FindPaths(g, a, b, MaxDepth)[1]
    BY <1>3 DEF PairPaths
  <2> QED
    BY <1>2, <1>3, <2>1
<1>4. CASE FindPaths(g, a, b, MaxDepth) = <<>>
  <2>1. p = FindPaths(g, b, a, MaxDepth)[1] /\ FindPaths(g, b, a, MaxDepth) # <<>>
    BY <1>4 DEF PairPaths
  <2> QED
    BY <1>2, <2>1
<1> QED
  BY <1>3, <1>4

(* A list has finitely many items.                                          *)
LEMMA ImageFinite ==
  ASSUME NEW f, NEW n \in Nat, DOMAIN f = 1..n
  PROVE  IsFiniteSet({f[i] : i \in 1..n})
<1>1. PICK h : h = [i \in 1..n |-> f[i]]
  OBVIOUS
<1>2. PICK T : T = {f[i] : i \in 1..n}
  OBVIOUS
<1>3. h \in Surjection(1..n, T)
  BY <1>1, <1>2 DEF Surjection
<1>4. IsFiniteSet(1..n)
  BY FS_Interval
<1>5. IsFiniteSet(T)
  BY <1>3, <1>4, FS_Surjection
<1> QED
  BY <1>2, <1>5

(* The edges of a graph have finitely many ends.                            *)
LEMMA NodesFinite ==
  ASSUME NEW g, GraphOk(g)
  PROVE  \E N : /\ IsFiniteSet(N)
                /\ \A e \in DOMAIN g.edges : g.edges[e].from \in N /\ g.edges[e].to \in N
<1>1. PICK n \in Nat : DOMAIN g.edges = 1..n
  BY DEF GraphOk
<1>2. PICK f, h : f = [e \in 1..n |-> g.edges[e].from] /\ h = [e \in 1..n |-> g.edges[e].to]
  OBVIOUS
<1>3. PICK A, B : A = {f[e] : e \in 1..n} /\ B = {h[e] : e \in 1..n}
  OBVIOUS
<1>4. IsFiniteSet(A) /\ IsFiniteSet(B)
  BY <1>2, <1>3, ImageFinite, SMTT(30)
<1>5. IsFiniteSet(A \cup B)
  BY <1>4, FS_Union
<1>6. \A e \in 1..n : g.edges[e].from \in A /\ g.edges[e].to \in B
  BY <1>2, <1>3
<1> QED
  BY <1>1, <1>5, <1>6

(* What complete_schema returns, in terms of the paths of the pairs.        *)
Pairs(n) == {p \in (1..n) \X (1..n) : p[1] < p[2]}

Between(g, a, b, w) ==
  \E s, t : /\ IsWalk(g, s, w) /\ End(g, s, w) = t
            /\ (s = a /\ t = b) \/ (s = b /\ t = a)

JoinedBy(g, selected, tables, W) ==
  /\ \A p \in Pairs(Len(selected)) : /\ Between(g, selected[p[1]], selected[p[2]], W[p])
                                     /\ PathTables(g, W[p]) \subseteq tables
  /\ \A i \in 1..Len(selected) : selected[i] \in tables
  /\ \A x \in tables : \/ \E i \in 1..Len(selected) : x = selected[i]
                       \/ \E p \in Pairs(Len(selected)) : x \in PathTables(g, W[p])

(* Unless a pair is missing, a completion has a path for every pair, and    *)
(* nothing that was not selected or is on one of them.                      *)
LEMMA Completed ==
  ASSUME NEW g, GraphOk(g), NEW X, NEW selected \in Seq(X), NEW facts,
         NEW r, r = CompleteSchema(g, selected, facts), r.missing = {}
  PROVE  \E W : JoinedBy(g, selected, r.tables, W)
<1>1. PICK n \in Nat : n = Len(selected) /\ DOMAIN selected = 1..n
  OBVIOUS
<1> DEFINE tables == {selected[i] : i \in DOMAIN selected}
           pairs == {p \in (DOMAIN selected) \X (DOMAIN selected) : p[1] < p[2]}
           found == [p \in pairs |-> PairPaths(g, selected[p[1]], selected[p[2]])]
           joined == {p \in pairs : found[p] # <<>>}
<1>2. /\ r.tables = tables \cup UNION {BridgeTables(g, tables, found[p][1]) : p \in joined}
      /\ r.missing = pairs \ joined
  BY DEF CompleteSchema
<1>3. joined = pairs
  BY <1>2
<1>4. pairs = Pairs(n)
  BY <1>1 DEF Pairs
<1>5. PICK W : W = [p \in Pairs(n) |-> PairPaths(g, selected[p[1]], selected[p[2]])[1]]
  OBVIOUS
<1>6. \A p \in Pairs(n) : /\ found[p] = PairPaths(g, selected[p[1]], selected[p[2]])
                          /\ found[p] # <<>> /\ W[p] = found[p][1]
  BY <1>3, <1>4, <1>5
<1>7. ASSUME NEW x
      PROVE  x \in r.tables <=> \/ x \in tables
                                \/ \E p \in Pairs(n) : x \in PathTables(g, W[p])
  <2>1. x \in r.tables <=> \/ x \in tables
                           \/ \E p \in joined : x \in BridgeTables(g, tables, found[p][1])
    <3> HIDE DEF tables, found, joined
    <3> QED
      BY <1>2, Zenon
  <2>2. x \in r.tables <=> \/ x \in tables
                           \/ \E p \in Pairs(n) : x \in BridgeTables(g, tables, W[p])
    <3> HIDE DEF tables, found, joined, pairs
    <3> QED
      BY <2>1, <1>3, <1>4, <1>6
  <2> HIDE DEF tables, found, joined, pairs
  <2> QED
    BY <2>2 DEF BridgeTables
<1>8. \A i \in 1..n : selected[i] \in tables
  BY <1>1
<1>9. \A x \in tables : \E i \in 1..n : x = selected[i]
  BY <1>1
<1> HIDE DEF tables, found, joined, pairs
<1>10. ASSUME NEW p \in Pairs(n)
       PROVE  Between(g, selected[p[1]], selected[p[2]], W[p])
  <2>1. PICK a, b : a = selected[p[1]] /\ b = selected[p[2]]
    OBVIOUS
  <2>2. PairPaths(g, a, b) # <<>> /\ W[p] = PairPaths(g, a, b)[1]
    BY <1>6, <2>1
  <2>3. Between(g, a, b, W[p])
    BY <2>2, PairWalk DEF Between
  <2> QED
    BY <2>1, <2>3
<1>11. JoinedBy(g, selected, r.tables, W)
  <2>1. \A p \in Pairs(n) : PathTables(g, W[p]) \subseteq r.tables
    BY <1>7
  <2>2. \A i \in 1..n : selected[i] \in r.tables
    BY <1>7, <1>8
  <2>3. \A x \in r.tables : \/ \E i \in 1..n : x = selected[i]
                            \/ \E p \in Pairs(n) : x \in PathTables(g, W[p])
    BY <1>7, <1>9
  <2>4. \A p \in Pairs(n) : /\ Between(g, selected[p[1]], selected[p[2]], W[p])
                            /\ PathTables(g, W[p]) \subseteq r.tables
    BY <1>10, <2>1
  <2> QED
    BY <1>1, <2>2, <2>3, <2>4 DEF JoinedBy
<1> QED
  BY <1>11

(* The tables of a completion are finitely many.                            *)
LEMMA JoinedFinite ==
  ASSUME NEW g, GraphOk(g), NEW X, NEW selected \in Seq(X), NEW tables, NEW W,
         JoinedBy(g, selected, tables, W)
  PROVE  IsFiniteSet(tables)
<1>1. PICK n \in Nat : n = Len(selected) /\ DOMAIN selected = 1..n
  OBVIOUS
<1>2. PICK N : /\ IsFiniteSet(N)
               /\ \A e \in DOMAIN g.edges : g.edges[e].from \in N /\ g.edges[e].to \in N
  BY NodesFinite
<1>3. PICK T : T = {selected[i] : i \in 1..n}
  OBVIOUS
<1>4. IsFiniteSet(T)
  BY <1>1, <1>3, ImageFinite
<1>5. IsFiniteSet(T \cup N)
  BY <1>2, <1>4, FS_Union
<1>6. ASSUME NEW p \in Pairs(n), NEW x \in PathTables(g, W[p]) PROVE x \in N
  <2>1. W[p] \in Seq(DOMAIN g.edges)
    BY <1>1, <1>6 DEF JoinedBy, Between, IsWalk
  <2>2. PICK i \in 1..Len(W[p]) : x = g.edges[W[p][i]].from \/ x = g.edges[W[p][i]].to
    BY <1>6, <2>1, PathTablesAre
  <2>3. W[p][i] \in DOMAIN g.edges
    BY <2>1
  <2> QED
    BY <1>2, <2>2, <2>3
<1>7. \A x \in tables : \/ \E i \in 1..n : x = selected[i]
                        \/ \E p \in Pairs(n) : x \in PathTables(g, W[p])
  BY <1>1 DEF JoinedBy
<1>8. tables \subseteq T \cup N
  BY <1>3, <1>6, <1>7
<1> QED
  BY <1>5, <1>8, FS_Subset

(* Unless a pair is reported as missing, the selected tables hang together  *)
(* by joins among the completed tables, and no table was added that no such *)
(* join passes.                                                             *)
THEOREM CompletionOk ==
  ASSUME NEW g, GraphOk(g), NEW X, NEW selected \in Seq(X), selected # <<>>, NEW facts
  PROVE  CompletionJoins(g, selected, facts)
<1>1. PICK r : r = CompleteSchema(g, selected, facts)
  OBVIOUS
<1> SUFFICES ASSUME r.missing = {}
             PROVE  r.tables \subseteq Reach(g, r.tables, {selected[1]})
  BY <1>1 DEF CompletionJoins
<1>2. PICK tables : tables = r.tables
  OBVIOUS
<1>3. PICK W : JoinedBy(g, selected, tables, W)
  BY <1>1, <1>2, Completed
<1>4. IsFiniteSet(tables)
  BY <1>3, JoinedFinite
<1>5. PICK n \in Nat : n = Len(selected) /\ n >= 1
  OBVIOUS
<1>6. PICK R : R = Reach(g, tables, {selected[1]})
  OBVIOUS
<1>7. selected[1] \in tables
  BY <1>3, <1>5 DEF JoinedBy
<1>8. Closed(g, tables, R) /\ selected[1] \in R
  BY <1>4, <1>6, <1>7, ReachClosed
<1>9. ASSUME NEW p \in Pairs(n), selected[p[1]] \in R \/ selected[p[2]] \in R
      PROVE  PathTables(g, W[p]) \subseteq R /\ selected[p[1]] \in R /\ selected[p[2]] \in R
  <2>1. Between(g, selected[p[1]], selected[p[2]], W[p]) /\ PathTables(g, W[p]) \subseteq tables
    BY <1>3, <1>5 DEF JoinedBy
  <2>2. PICK s, t : /\ IsWalk(g, s, W[p]) /\ End(g, s, W[p]) = t
                    /\ \/ s = selected[p[1]] /\ t = selected[p[2]]
                       \/ s = selected[p[2]] /\ t = selected[p[1]]
    BY <2>1 DEF Between
  <2>3. s \in R \/ End(g, s, W[p]) \in R
    BY <1>9, <2>2
  <2>4. PathTables(g, W[p]) \subseteq R /\ s \in R /\ End(g, s, W[p]) \in R
    BY <1>8, <2>1, <2>2, <2>3, WalkWithin
  <2> QED
    BY <2>2, <2>4
<1>10. ASSUME NEW i \in 1..n PROVE selected[i] \in R
  <2>1. CASE i = 1
    BY <1>8, <2>1
  <2>2. CASE i # 1
    <3>1. PICK p \in (1..n) \X (1..n) : p[1] = 1 /\ p[2] = i
      <4>1. 1 \in 1..n /\ <<1, i>>[1] = 1 /\ <<1, i>>[2] = i
        BY <1>5
      <4>2. <<1, i>> \in (1..n) \X (1..n)
        BY <4>1
      <4> QED
        BY <4>1, <4>2
    <3>2. p \in Pairs(n)
      BY <2>2, <3>1 DEF Pairs
    <3> QED
      BY <1>8, <1>9, <3>1, <3>2
  <2> QED
    BY <2>1, <2>2
<1>11. ASSUME NEW p \in Pairs(n) PROVE PathTables(g, W[p]) \subseteq R
  <2>1. p[1] \in 1..n
    BY DEF Pairs
  <2> QED
    BY <1>9, <1>10, <2>1
<1>12. \A x \in tables : \/ \E i \in 1..n : x = selected[i]
                         \/ \E p \in Pairs(n) : x \in PathTables(g, W[p])
  BY <1>3, <1>5 DEF JoinedBy
<1>13. tables \subseteq R
  BY <1>10, <1>11, <1>12
<1> QED
  BY <1>2, <1>6, <1>13

(* Of tables that are all different, and more than one, none is passed over *)
(* without a question: without one, each is a table of the graph.           *)
THEOREM CompletionKnown ==
  ASSUME NEW g, GraphOk(g), NEW X, NEW selected \in Seq(X), NEW facts,
         Len(selected) > 1,
         \A i, j \in 1..Len(selected) : selected[i] = selected[j] => i = j,
         ~CompleteSchema(g, selected, facts).clarify
  PROVE  \A i \in 1..Len(selected) : selected[i] \in DOMAIN g.out
<1>1. PICK n \in Nat : n = Len(selected) /\ n > 1
  OBVIOUS
<1>2. PICK r : r = CompleteSchema(g, selected, facts)
  OBVIOUS
<1>3. r.missing = {}
  <2> DEFINE tables == {selected[i] : i \in DOMAIN selected}
             pairs == {p \in (DOMAIN selected) \X (DOMAIN selected) : p[1] < p[2]}
             found == [p \in pairs |-> PairPaths(g, selected[p[1]], selected[p[2]])]
             joined == {p \in pairs : found[p] # <<>>}
  <2>1. /\ r.missing = pairs \ joined
        /\ r.clarify = (joined # pairs \/ Cardinality(tables \cap facts) > 1)
    BY <1>2 DEF CompleteSchema
  <2>2. ~r.clarify
    BY <1>2
  <2> HIDE DEF tables, pairs, joined
  <2> QED
    BY <2>1, <2>2
<1>4. PICK W : JoinedBy(g, selected, r.tables, W)
  BY <1>2, <1>3, Completed
<1>5. ASSUME NEW i \in 1..n, NEW j \in 1..n, i < j
      PROVE  selected[i] \in DOMAIN g.out /\ selected[j] \in DOMAIN g.out
  <2>1. PICK p \in (1..n) \X (1..n) : p[1] = i /\ p[2] = j
    <3>1. <<i, j>>[1] = i /\ <<i, j>>[2] = j /\ <<i, j>> \in (1..n) \X (1..n)
      OBVIOUS
    <3> QED
      BY <3>1
  <2>2. p \in Pairs(n)
    BY <1>5, <2>1 DEF Pairs
  <2>3. PICK w : w = W[p]
    OBVIOUS
  <2>4. Between(g, selected[i], selected[j], w)
    BY <1>1, <1>4, <2>1, <2>2, <2>3 DEF JoinedBy
  <2>5. PICK s, t : /\ IsWalk(g, s, w) /\ End(g, s, w) = t
                    /\ \/ s = selected[i] /\ t = selected[j]
                       \/ s = selected[j] /\ t = selected[i]
    BY <2>4 DEF Between
  <2>6. s # t
    BY <1>1, <1>5, <2>5
  <2>7. w # <<>>
    BY <2>5, <2>6 DEF End
  <2>8. 1 \in 1..Len(w) /\ w[1] \in DOMAIN g.edges
    BY <2>5, <2>7 DEF IsWalk
  <2>9. s = g.edges[w[1]].from
    BY <2>5, <2>8 DEF IsWalk
  <2>10. s \in DOMAIN g.out
    BY <2>8, <2>9 DEF GraphOk
  <2>11. t \in DOMAIN g.out
    BY <2>5, <2>10, EndIsTable
  <2> QED
    BY <2>5, <2>10, <2>11
<1>6. ASSUME NEW i \in 1..n PROVE selected[i] \in DOMAIN g.out
  <2>1. i < n \/ i = n
    OBVIOUS
  <2>2. n \in 1..n /\ 1 \in 1..n /\ 1 < n
    BY <1>1
  <2> QED
    BY <1>5, <2>1, <2>2
<1> QED
  BY <1>1, <1>6
=============================================================================
