--------------------------- MODULE Retrieval_proofs ---------------------------
(***************************************************************************)
(* Lemmas about the lists of candidates, their fusion, their trimming, and *)
(* what every step of a search preserves.                                  *)
(***************************************************************************)
EXTENDS Retrieval, Algorithms_proofs

Doc == Tables \cup Columns \cup Examples
Score == Nat \X (Nat \ {0})
Item == [doc : Doc, full : BOOLEAN, score : Score]

\* lists of candidates in which no document comes twice
Candidates ==
  {list \in Seq(Item) : \A i, j \in DOMAIN list : list[i].doc = list[j].doc => i = j}

Answer == [status : {"PENDING", "FAILED", "DEGRADED", "OK"}, list : Candidates]
-----------------------------------------------------------------------------
LEMMA TakeList ==
  ASSUME NEW S, NEW list \in Seq(S), NEW n \in Nat
  PROVE  /\ Take(list, n) \in Seq(S)
         /\ Len(Take(list, n)) = IF n < Len(list) THEN n ELSE Len(list)
         /\ \A i \in 1..Len(Take(list, n)) : i \in DOMAIN list /\ Take(list, n)[i] = list[i]
<1> DEFINE m == IF n < Len(list) THEN n ELSE Len(list)
<1>1. Len(list) \in Nat /\ DOMAIN list = 1..Len(list) /\ list \in [1..Len(list) -> S]
  BY LenProperties
<1>2. m \in Nat /\ m <= Len(list)
  BY <1>1
<1> HIDE DEF m
<1>3. \A i \in 1..m : i \in DOMAIN list /\ list[i] \in S
  BY <1>1, <1>2
<1>4. /\ SubSeq(list, 1, m) \in Seq(S)
      /\ Len(SubSeq(list, 1, m)) = IF 1 <= m THEN m - 1 + 1 ELSE 0
      /\ \A i \in 1..(m - 1 + 1) : SubSeq(list, 1, m)[i] = list[1 + i - 1]
  BY <1>3, <1>2, SubSeqProperties
<1>5. Take(list, n) = SubSeq(list, 1, m)
  BY DEF Take, m
<1>6. Len(SubSeq(list, 1, m)) = m
  BY <1>4, <1>2
<1>7. \A i \in 1..m : SubSeq(list, 1, m)[i] = list[i]
  BY <1>4, <1>2
<1> QED
  BY <1>3, <1>4, <1>5, <1>6, <1>7 DEF m

LEMMA TakeCandidates ==
  ASSUME NEW list \in Candidates, NEW n \in Nat
  PROVE  Take(list, n) \in Candidates
<1>1. list \in Seq(Item)
  BY DEF Candidates
<1>2. /\ Take(list, n) \in Seq(Item)
      /\ \A i \in 1..Len(Take(list, n)) : i \in DOMAIN list /\ Take(list, n)[i] = list[i]
  BY <1>1, TakeList
<1>3. DOMAIN Take(list, n) = 1..Len(Take(list, n))
  BY <1>2, LenProperties
<1> QED
  BY <1>2, <1>3 DEF Candidates

(* There are at most as many documents in a list as candidates, and just as *)
(* many when none comes twice.                                              *)
LEMMA DocsCounted ==
  ASSUME NEW list \in Seq(Item)
  PROVE  /\ IsFiniteSet(Docs(list))
         /\ Cardinality(Docs(list)) <= Len(list)
         /\ list \in Candidates => Cardinality(Docs(list)) = Len(list)
<1> DEFINE D == 1..Len(list)
           f == [i \in D |-> list[i].doc]
<1>1. Len(list) \in Nat /\ DOMAIN list = D
  BY LenProperties
<1>2. IsFiniteSet(D) /\ Cardinality(D) = Len(list)
  BY <1>1, FS_Interval
<1>3. Docs(list) = {list[i].doc : i \in D}
  BY <1>1 DEF Docs
<1>4. f \in Surjection(D, Docs(list))
  BY <1>3 DEF Surjection
<1>5. /\ IsFiniteSet(Docs(list))
      /\ Cardinality(Docs(list)) <= Cardinality(D)
      /\ Cardinality(Docs(list)) = Cardinality(D) <=> f \in Injection(D, Docs(list))
  BY <1>2, <1>4, FS_Surjection
<1>6. ASSUME list \in Candidates
      PROVE  f \in Injection(D, Docs(list))
  <2>1. \A i, j \in D : f[i] = f[j] => i = j
    BY <1>6, <1>1 DEF Candidates
  <2>2. f \in [D -> Docs(list)]
    BY <1>3
  <2> QED
    BY <2>1, <2>2 DEF Injection, IsInjective
<1> QED
  BY <1>2, <1>5, <1>6

(* The rank of a document is the place it has in the list, or 0.            *)
LEMMA RankOfDoc ==
  ASSUME NEW list \in Candidates
  PROVE  /\ \A i \in DOMAIN list : RankIn(list, list[i].doc) = i
         /\ \A doc \in Docs(list) :
              RankIn(list, doc) \in DOMAIN list /\ list[RankIn(list, doc)].doc = doc
         /\ \A doc : doc \notin Docs(list) => RankIn(list, doc) = 0
         /\ \A doc : RankIn(list, doc) \in Nat
<1>1. Len(list) \in Nat /\ DOMAIN list = 1..Len(list)
  BY LenProperties DEF Candidates
<1>2. ASSUME NEW i \in DOMAIN list
      PROVE  RankIn(list, list[i].doc) = i
  <2>1. list[i].doc \in Docs(list)
    BY DEF Docs
  <2>2. \A j \in DOMAIN list : list[j].doc = list[i].doc <=> j = i
    BY DEF Candidates
  <2>3. (CHOOSE j \in DOMAIN list : list[j].doc = list[i].doc) = i
    BY <2>2
  <2> QED
    BY <2>1, <2>3 DEF RankIn
<1>3. ASSUME NEW doc \in Docs(list)
      PROVE  RankIn(list, doc) \in DOMAIN list /\ list[RankIn(list, doc)].doc = doc
  <2>1. PICK i \in DOMAIN list : list[i].doc = doc
    BY DEF Docs
  <2> QED
    BY <2>1, <1>2
<1>4. \A doc : doc \notin Docs(list) => RankIn(list, doc) = 0
  BY DEF RankIn
<1>5. \A doc : RankIn(list, doc) \in Nat
  BY <1>1, <1>3, <1>4
<1> QED
  BY <1>2, <1>3, <1>4, <1>5
-----------------------------------------------------------------------------
(* Scores are compared as fractions.                                        *)
LEMMA ProductsGrow ==
  ASSUME NEW a \in Nat, NEW b \in Nat, NEW c \in Nat
  PROVE  /\ a * b \in Nat
         /\ a <= b => a * c <= b * c
         /\ a < b /\ c > 0 => a * c < b * c
<1>1. a * b \in Nat
  BY SMT
<1>2. ASSUME a <= b
      PROVE  a * c <= b * c
  BY <1>2, SMT
<1>3. ASSUME a < b, c > 0
      PROVE  a * c < b * c
  BY <1>3, SMT
<1> QED
  BY <1>1, <1>2, <1>3

LEMMA AboveOrder ==
  ASSUME NEW s \in Score, NEW t \in Score, NEW u \in Score
  PROVE  /\ ~Above(s, s)
         /\ Above(s, t) => ~Above(t, s)
         /\ ~Above(s, t) /\ ~Above(t, u) => ~Above(s, u)
<1>1. /\ s[1] \in Nat /\ t[1] \in Nat /\ u[1] \in Nat
      /\ s[2] \in Nat /\ t[2] \in Nat /\ u[2] \in Nat
      /\ s[2] > 0 /\ t[2] > 0 /\ u[2] > 0
  BY DEF Score
<1>2. ~Above(s, s)
  BY <1>1 DEF Above
<1>3. Above(s, t) => ~Above(t, s)
  BY <1>1 DEF Above
<1>4. ASSUME NEW a \in Nat, NEW b \in Nat, NEW c \in Nat,
             NEW x \in Nat, NEW y \in Nat, NEW z \in Nat,
             x > 0, y > 0, z > 0, a * y <= b * x, b * z <= c * y
      PROVE  a * z <= c * x
  <2>1. a * y \in Nat /\ b * x \in Nat /\ b * z \in Nat /\ c * y \in Nat
        /\ a * z \in Nat /\ c * x \in Nat
    BY ProductsGrow
  <2>2. (a * y) * z <= (b * x) * z
    BY <2>1, <1>4, ProductsGrow
  <2>3. (b * z) * x <= (c * y) * x
    BY <2>1, <1>4, ProductsGrow
  <2>4. (b * x) * z = (b * z) * x /\ (a * y) * z = (a * z) * y /\ (c * y) * x = (c * x) * y
    BY SMT
  <2>5. (a * z) * y <= (c * x) * y
    <3>1. (a * y) * z \in Nat /\ (b * x) * z \in Nat /\ (c * y) * x \in Nat
      BY <2>1, ProductsGrow
    <3> QED
      BY <2>2, <2>3, <2>4, <3>1
  <2>6. ~(c * x < a * z)
    <3>1. ASSUME c * x < a * z
          PROVE  (c * x) * y < (a * z) * y
      BY <3>1, <2>1, <1>4, ProductsGrow
    <3>2. (c * x) * y \in Nat /\ (a * z) * y \in Nat
      BY <2>1, ProductsGrow
    <3> QED
      BY <3>1, <3>2, <2>5
  <2> QED
    BY <2>6, <2>1
<1>5. ASSUME ~Above(s, t), ~Above(t, u)
      PROVE  ~Above(s, u)
  <2>1. s[1] * t[2] <= t[1] * s[2] /\ t[1] * u[2] <= u[1] * t[2]
    BY <1>5, <1>1, ProductsGrow DEF Above
  <2>2. s[1] * u[2] <= u[1] * s[2]
    BY <2>1, <1>1, <1>4
  <2> QED
    BY <2>2, <1>1, ProductsGrow DEF Above
<1> QED
  BY <1>2, <1>3, <1>5

(* A sum of two scores is above another when one part is above its own and  *)
(* the other part is not below.                                             *)
LEMMA SumsAbove ==
  ASSUME NEW s \in Score, NEW t \in Score, NEW u \in Score, NEW v \in Score
  PROVE  /\ Plus(s, u) \in Score
         /\ Above(s, t) /\ ~Above(v, u) => Above(Plus(s, u), Plus(t, v))
         /\ Above(u, v) /\ ~Above(t, s) => Above(Plus(s, u), Plus(t, v))
<1>1. /\ s[1] \in Nat /\ t[1] \in Nat /\ u[1] \in Nat /\ v[1] \in Nat
      /\ s[2] \in Nat /\ t[2] \in Nat /\ u[2] \in Nat /\ v[2] \in Nat
      /\ s[2] > 0 /\ t[2] > 0 /\ u[2] > 0 /\ v[2] > 0
  BY DEF Score
<1>2. ASSUME NEW a \in Nat, NEW b \in Nat, a > 0, b > 0
      PROVE  a * b > 0
  BY <1>2, SMT
<1>3. Plus(s, u) \in Score
  <2>1. s[2] * u[2] \in Nat \ {0}
    BY <1>1, <1>2, ProductsGrow
  <2>2. s[1] * u[2] + u[1] * s[2] \in Nat
    BY <1>1, ProductsGrow
  <2> QED
    BY <2>1, <2>2 DEF Plus, Score
<1>4. ASSUME NEW a \in Nat, NEW b \in Nat, NEW c \in Nat, NEW d \in Nat,
             NEW w \in Nat, NEW x \in Nat, NEW y \in Nat, NEW z \in Nat,
             w > 0, x > 0, y > 0, z > 0,
             a * x >= b * w, c * z >= d * y,
             a * x > b * w \/ c * z > d * y
      PROVE  (a * y + c * w) * (x * z) > (b * z + d * x) * (w * y)
  <2> DEFINE p == a * x  q == b * w  r == c * z  t0 == d * y  k == y * z  l == w * x
  <2>1. /\ p \in Nat /\ q \in Nat /\ r \in Nat /\ t0 \in Nat /\ k \in Nat /\ l \in Nat
        /\ k > 0 /\ l > 0
    BY <1>4, <1>2, ProductsGrow
  <2>2. /\ (a * y + c * w) * (x * z) = p * k + r * l
        /\ (b * z + d * x) * (w * y) = q * k + t0 * l
    BY SMT
  <2>3. p >= q /\ r >= t0 /\ (p > q \/ r > t0)
    BY <1>4
  <2> HIDE DEF p, q, r, t0, k, l
  <2>4. q * k <= p * k /\ t0 * l <= r * l
    BY <2>1, <2>3, ProductsGrow
  <2>5. p > q => q * k < p * k
    BY <2>1, ProductsGrow
  <2>6. r > t0 => t0 * l < r * l
    BY <2>1, ProductsGrow
  <2>7. q * k \in Nat /\ p * k \in Nat /\ t0 * l \in Nat /\ r * l \in Nat
    BY <2>1, ProductsGrow
  <2>8. p * k + r * l > q * k + t0 * l
    BY <2>3, <2>4, <2>5, <2>6, <2>7
  <2> QED
    BY <2>2, <2>8
<1>5. /\ Plus(s, u)[1] = s[1] * u[2] + u[1] * s[2] /\ Plus(s, u)[2] = s[2] * u[2]
      /\ Plus(t, v)[1] = t[1] * v[2] + v[1] * t[2] /\ Plus(t, v)[2] = t[2] * v[2]
  BY DEF Plus
<1>6. ASSUME s[1] * t[2] >= t[1] * s[2], u[1] * v[2] >= v[1] * u[2],
             s[1] * t[2] > t[1] * s[2] \/ u[1] * v[2] > v[1] * u[2]
      PROVE  Above(Plus(s, u), Plus(t, v))
  <2>1. (s[1] * u[2] + u[1] * s[2]) * (t[2] * v[2]) > (t[1] * v[2] + v[1] * t[2]) * (s[2] * u[2])
    BY <1>1, <1>4, <1>6
  <2> QED
    BY <2>1, <1>5 DEF Above
<1>7. ASSUME Above(s, t), ~Above(v, u)
      PROVE  Above(Plus(s, u), Plus(t, v))
  BY <1>1, <1>6, <1>7, ProductsGrow DEF Above
<1>8. ASSUME Above(u, v), ~Above(t, s)
      PROVE  Above(Plus(s, u), Plus(t, v))
  BY <1>1, <1>6, <1>8, ProductsGrow DEF Above
<1> QED
  BY <1>3, <1>7, <1>8
-----------------------------------------------------------------------------
\* the order that SortByScore gives the places of a list
SortOrder(list) ==
  {p \in (DOMAIN list) \X (DOMAIN list) :
     \/ Above(list[p[1]].score, list[p[2]].score)
     \/ ~Above(list[p[2]].score, list[p[1]].score) /\ p[1] <= p[2]}

(* Sorting puts every candidate at a place of its own, and one with a       *)
(* higher score before one with a lower score.                              *)
LEMMA Sorted ==
  ASSUME NEW list \in Seq(Item)
  PROVE  /\ SortByScore(list) \in Seq(Item)
         /\ Len(SortByScore(list)) = Len(list)
         /\ \A i \in DOMAIN list : /\ PlaceByScore(list, i) \in DOMAIN list
                                   /\ SortByScore(list)[PlaceByScore(list, i)] = list[i]
         /\ \A k \in DOMAIN list : \E i \in DOMAIN list : PlaceByScore(list, i) = k
         /\ \A i, j \in DOMAIN list : Above(list[i].score, list[j].score)
               => PlaceByScore(list, i) < PlaceByScore(list, j)
<1> DEFINE D == DOMAIN list
           R == SortOrder(list)
<1>1. Len(list) \in Nat /\ D = 1..Len(list) /\ IsFiniteSet(D) /\ Cardinality(D) = Len(list)
  <2>1. Len(list) \in Nat /\ D = 1..Len(list)
    BY LenProperties
  <2> QED
    BY <2>1, FS_Interval
<1>2. ASSUME NEW i \in D
      PROVE  list[i] \in Item /\ list[i].score \in Score
  <2>1. list[i] \in Item
    BY <1>1, ElementOfSeq
  <2> QED
    BY <2>1 DEF Item
<1>3. \A i, j \in D : <<i, j>> \in R <=>
        \/ Above(list[i].score, list[j].score)
        \/ ~Above(list[j].score, list[i].score) /\ i <= j
  BY DEF SortOrder
<1> HIDE DEF R
<1>4. LinearOn(R, D)
  <2>1. ASSUME NEW i \in D, NEW j \in D
        PROVE  <<i, j>> \in R \/ <<j, i>> \in R
    <3>1. i <= j \/ j <= i
      BY <1>1
    <3> QED
      BY <3>1, <1>2, <1>3, AboveOrder
  <2>2. ASSUME NEW i \in D, NEW j \in D, <<i, j>> \in R, <<j, i>> \in R
        PROVE  i = j
    <3>1. i <= j /\ j <= i
      BY <2>2, <1>2, <1>3, AboveOrder
    <3> QED
      BY <3>1, <1>1
  <2>3. ASSUME NEW i \in D, NEW j \in D, NEW k \in D, <<i, j>> \in R, <<j, k>> \in R
        PROVE  <<i, k>> \in R
    <3> DEFINE s == list[i].score  t == list[j].score  u == list[k].score
    <3>1. s \in Score /\ t \in Score /\ u \in Score
      BY <1>2
    <3>2. /\ Above(s, t) \/ (~Above(t, s) /\ i <= j)
          /\ Above(t, u) \/ (~Above(u, t) /\ j <= k)
          /\ Above(s, u) \/ (~Above(u, s) /\ i <= k) => <<i, k>> \in R
      <4>1. Above(s, t) \/ (~Above(t, s) /\ i <= j)
        BY <2>3, <1>3
      <4>2. Above(t, u) \/ (~Above(u, t) /\ j <= k)
        BY <2>3, <1>3
      <4>3. Above(s, u) \/ (~Above(u, s) /\ i <= k) => <<i, k>> \in R
        BY <1>3
      <4> QED
        BY <4>1, <4>2, <4>3
    <3>3. i <= j /\ j <= k => i <= k
      BY <1>1
    <3> HIDE DEF s, t, u
    <3>4. ~Above(t, s) /\ ~Above(u, t)
      BY <3>1, <3>2, AboveOrder
    <3>5. ~Above(u, s)
      BY <3>1, <3>4, AboveOrder
    <3>6. ~Above(s, u) => ~Above(s, t) /\ ~Above(t, u)
      BY <3>1, <3>4, AboveOrder
    <3> QED
      BY <3>2, <3>3, <3>5, <3>6
  <2> QED
    BY <2>1, <2>2, <2>3 DEF LinearOn
<1>5. /\ \A i \in D : Rank(R, D, i) \in 1..Cardinality(D)
      /\ \A i, j \in D : <<i, j>> \in R /\ i # j => Rank(R, D, i) < Rank(R, D, j)
      /\ AllRanks(R, D)
  BY <1>1, <1>4, Ranks
<1>6. ASSUME NEW i \in D
      PROVE  PlaceByScore(list, i) = Rank(R, D, i)
  <2> DEFINE Before == {j \in D :
                         \/ Above(list[j].score, list[i].score)
                         \/ ~Above(list[i].score, list[j].score) /\ j <= i}
             Lower == {j \in D : <<j, i>> \in R}
  <2>1. Before = Lower
    BY <1>3
  <2>2. PlaceByScore(list, i) = Cardinality(Before)
    BY DEF PlaceByScore
  <2>3. Rank(R, D, i) = Cardinality(Lower)
    BY DEF Rank
  <2> HIDE DEF D, Before, Lower
  <2> QED
    BY <2>1, <2>2, <2>3
<1>7. /\ \A i \in D : PlaceByScore(list, i) \in D
      /\ \A i, j \in D : <<i, j>> \in R /\ i # j => PlaceByScore(list, i) < PlaceByScore(list, j)
  BY <1>1, <1>5, <1>6
<1>8. \A k \in D : \E i \in D : PlaceByScore(list, i) = k
  <2>1. \A k \in D : \E i \in D : Rank(R, D, i) = k
    BY <1>1, <1>5 DEF AllRanks
  <2> QED
    BY <2>1, <1>6
<1>9. ASSUME NEW i \in D, NEW j \in D, PlaceByScore(list, i) = PlaceByScore(list, j)
      PROVE  i = j
  <2>1. <<i, j>> \in R \/ <<j, i>> \in R
    BY <1>4 DEF LinearOn
  <2>2. PlaceByScore(list, i) \in Nat /\ PlaceByScore(list, j) \in Nat
    BY <1>7, <1>1
  <2> QED
    BY <2>1, <2>2, <1>7, <1>9
<1>10. ASSUME NEW i \in D, NEW j \in D, Above(list[i].score, list[j].score)
       PROVE  PlaceByScore(list, i) < PlaceByScore(list, j)
  <2>1. i # j
    BY <1>10, <1>2, AboveOrder
  <2> QED
    BY <2>1, <1>3, <1>7, <1>10
<1>11. SortByScore(list) = [k \in D |-> list[CHOOSE i \in D : PlaceByScore(list, i) = k]]
  BY DEF SortByScore
<1>12. \A i \in D : (CHOOSE j \in D : PlaceByScore(list, j) = PlaceByScore(list, i)) = i
  BY <1>9
<1>13. \A i \in D : SortByScore(list)[PlaceByScore(list, i)] = list[i]
  BY <1>7, <1>11, <1>12
<1>14. SortByScore(list) \in [1..Len(list) -> Item]
  <2>1. \A k \in D : SortByScore(list)[k] \in Item
    BY <1>2, <1>8, <1>13
  <2> QED
    BY <2>1, <1>1, <1>11
<1>15. SortByScore(list) \in Seq(Item) /\ Len(SortByScore(list)) = Len(list)
  <2>1. SortByScore(list) \in Seq(Item)
    BY <1>14, <1>1, SeqDef
  <2>2. DOMAIN SortByScore(list) = D
    BY <1>11
  <2> QED
    BY <2>1, <2>2, <1>1, LenProperties
<1> QED
  BY <1>7, <1>8, <1>10, <1>13, <1>15
-----------------------------------------------------------------------------
LEMMA RRFScores ==
  ASSUME NEW b \in Candidates, NEW d \in Candidates, NEW x, NEW y
  PROVE  /\ RRFScore(b, d, x) \in Score
         /\ /\ Beats(b, x, y) \/ Beats(d, x, y)
            /\ ~Beats(b, y, x) /\ ~Beats(d, y, x)
            => Above(RRFScore(b, d, x), RRFScore(b, d, y))
<1>1. \A z : RankIn(b, z) \in Nat /\ RankIn(d, z) \in Nat
  BY RankOfDoc
<1>2. \A r \in Nat : Reciprocal(r) \in Score
  BY DEF Reciprocal, Score, K
<1>3. \A q, r \in Nat : q # 0 /\ (r = 0 \/ q < r) <=> Above(Reciprocal(q), Reciprocal(r))
  BY DEF Reciprocal, Above, K
<1>4. RRFScore(b, d, x) \in Score
  BY <1>1, <1>2, SumsAbove DEF RRFScore
<1>5. ASSUME NEW list \in {b, d}, NEW v, NEW w
      PROVE  Beats(list, v, w) <=> Above(Reciprocal(RankIn(list, v)), Reciprocal(RankIn(list, w)))
  <2>1. RankIn(list, v) \in Nat /\ RankIn(list, w) \in Nat
    BY <1>1
  <2> QED
    BY <2>1, <1>3 DEF Beats
<1>6. ASSUME Beats(b, x, y) \/ Beats(d, x, y), ~Beats(b, y, x), ~Beats(d, y, x)
      PROVE  Above(RRFScore(b, d, x), RRFScore(b, d, y))
  <2> DEFINE p == Reciprocal(RankIn(b, x))  q == Reciprocal(RankIn(d, x))
             r == Reciprocal(RankIn(b, y))  t == Reciprocal(RankIn(d, y))
  <2>1. p \in Score /\ q \in Score /\ r \in Score /\ t \in Score
    BY <1>1, <1>2
  <2>2. (Above(p, r) \/ Above(q, t)) /\ ~Above(r, p) /\ ~Above(t, q)
    BY <1>5, <1>6
  <2>3. RRFScore(b, d, x) = Plus(p, q) /\ RRFScore(b, d, y) = Plus(r, t)
    BY DEF RRFScore
  <2> HIDE DEF p, q, r, t
  <2> QED
    BY <2>1, <2>2, <2>3, SumsAbove
<1> QED
  BY <1>4, <1>6

(* What two routes found together, before it is sorted: the list of the     *)
(* first, and the candidates only the second has.                           *)
LEMMA Together ==
  ASSUME NEW b \in Candidates, NEW d \in Candidates, NEW all,
         all = b \o Selection(d, {i \in DOMAIN d : d[i].doc \notin Docs(b)})
  PROVE  all \in Candidates /\ Docs(all) = Docs(b) \cup Docs(d)
<1> DEFINE I == {i \in DOMAIN d : d[i].doc \notin Docs(b)}
           sel == Selection(d, I)
           m == Cardinality(I)
           n == Len(b)
<1>1. /\ b \in Seq(Item) /\ d \in Seq(Item) /\ n \in Nat /\ DOMAIN b = 1..n
      /\ I \in SUBSET (DOMAIN d)
  BY LenProperties DEF Candidates
<1> HIDE DEF I
<1>2. /\ IsFiniteSet(I) /\ sel \in Seq(Item) /\ Len(sel) = m /\ DOMAIN sel = 1..m
      /\ \A k \in 1..m : sel[k] = d[Source(I, k)] /\ Source(I, k) \in I
      /\ \A i \in I : \E k \in 1..m : Source(I, k) = i
      /\ \A k, l \in 1..m : k < l => Source(I, k) < Source(I, l)
  BY <1>1, Selections, SMTT(30)
<1>3. m \in Nat
  BY <1>2, FS_CardinalityType
<1>4. \A k, l \in 1..m : k # l => Source(I, k) # Source(I, l)
  <2>1. \A k \in 1..m : Source(I, k) \in Nat
    <3>1. I \subseteq Nat
      <4>1. DOMAIN d = 1..Len(d) /\ Len(d) \in Nat
        BY <1>1, LenProperties
      <4> QED
        BY <4>1, <1>1
    <3> QED
      BY <3>1, <1>2
  <2> HIDE DEF m
  <2>2. ASSUME NEW k \in 1..m, NEW l \in 1..m, k # l
        PROVE  Source(I, k) # Source(I, l)
    <3>1. k < l \/ l < k
      BY <2>2, <1>3
    <3>2. Source(I, k) < Source(I, l) \/ Source(I, l) < Source(I, k)
      BY <3>1, <1>2
    <3> QED
      BY <3>2, <2>1
  <2> QED
    BY <2>2
<1> HIDE DEF sel, m, n
<1>5. /\ all \in Seq(Item) /\ DOMAIN all = 1..(n + m)
      /\ \A i \in 1..(n + m) : all[i] = IF i <= n THEN b[i] ELSE sel[i - n]
  <2>1. all = b \o sel
    BY DEF sel, I
  <2>2. Len(b) = n /\ Len(sel) = m /\ b \in Seq(Item) /\ sel \in Seq(Item)
    BY <1>1, <1>2 DEF n
  <2>3. /\ all \in Seq(Item) /\ Len(all) = n + m
        /\ \A i \in 1..(n + m) : all[i] = IF i <= n THEN b[i] ELSE sel[i - n]
    <3>1. b \o sel \in Seq(Item) /\ Len(b \o sel) = Len(b) + Len(sel)
      BY <2>2, ConcatProperties
    <3>2. \A i \in 1..(Len(b) + Len(sel)) :
            (b \o sel)[i] = IF i <= Len(b) THEN b[i] ELSE sel[i - Len(b)]
      BY <2>2, ConcatProperties
    <3> QED
      BY <3>1, <3>2, <2>1, <2>2
  <2> QED
    BY <2>3, LenProperties
<1>6. \A i \in 1..(n + m) :
        \/ i \in 1..n /\ all[i] = b[i] /\ b[i].doc \in Docs(b)
        \/ /\ i \notin 1..n /\ i - n \in 1..m
           /\ all[i] = d[Source(I, i - n)] /\ Source(I, i - n) \in I
  <2> TAKE i \in 1..(n + m)
  <2>1. CASE i <= n
    <3>1. i \in 1..n /\ all[i] = b[i]
      BY <2>1, <1>1, <1>3, <1>5
    <3>2. b[i].doc \in Docs(b)
      BY <3>1, <1>1 DEF Docs
    <3> QED
      BY <3>1, <3>2
  <2>2. CASE ~(i <= n)
    <3>1. i \notin 1..n /\ i - n \in 1..m /\ all[i] = sel[i - n]
      BY <2>2, <1>1, <1>3, <1>5
    <3> QED
      BY <3>1, <1>2
  <2> QED
    BY <2>1, <2>2
<1>7. ASSUME NEW i \in 1..(n + m), NEW j \in 1..(n + m), all[i].doc = all[j].doc
      PROVE  i = j
  <2>1. \A k \in I : d[k].doc \notin Docs(b) /\ k \in DOMAIN d
    BY DEF I
  <2>2. CASE i \in 1..n
    <3>1. j \in 1..n
      BY <2>1, <2>2, <1>6, <1>7
    <3>2. all[i] = b[i] /\ all[j] = b[j]
      BY <3>1, <2>2, <1>6
    <3> QED
      BY <3>1, <3>2, <2>2, <1>1, <1>7 DEF Candidates
  <2>3. CASE i \notin 1..n
    <3>1. j \notin 1..n
      BY <2>1, <2>3, <1>6, <1>7
    <3>2. /\ i - n \in 1..m /\ all[i] = d[Source(I, i - n)] /\ Source(I, i - n) \in I
          /\ j - n \in 1..m /\ all[j] = d[Source(I, j - n)] /\ Source(I, j - n) \in I
      BY <3>1, <2>3, <1>6
    <3>3. Source(I, i - n) = Source(I, j - n)
      BY <3>2, <2>1, <1>7 DEF Candidates
    <3>4. i - n = j - n
      BY <3>2, <3>3, <1>4
    <3> QED
      BY <3>4, <1>1, <1>3
  <2> QED
    BY <2>2, <2>3
<1>8. all \in Candidates
  BY <1>5, <1>7 DEF Candidates
<1>9. ASSUME NEW doc \in Docs(all)
      PROVE  doc \in Docs(b) \cup Docs(d)
  <2>1. PICK i \in 1..(n + m) : all[i].doc = doc
    BY <1>5 DEF Docs
  <2>2. CASE all[i] = b[i] /\ b[i].doc \in Docs(b)
    BY <2>1, <2>2
  <2>3. CASE all[i] = d[Source(I, i - n)] /\ Source(I, i - n) \in I
    <3>1. Source(I, i - n) \in DOMAIN d
      BY <2>3 DEF I
    <3> QED
      BY <3>1, <2>1, <2>3 DEF Docs
  <2> QED
    BY <2>2, <2>3, <1>6
<1>10. ASSUME NEW doc \in Docs(b)
       PROVE  doc \in Docs(all)
  <2>1. PICK i \in 1..n : b[i].doc = doc
    BY <1>1 DEF Docs
  <2>2. i \in 1..(n + m) /\ all[i] = b[i]
    BY <1>1, <1>3, <1>5
  <2> QED
    BY <2>1, <2>2, <1>5 DEF Docs
<1>11. ASSUME NEW doc \in Docs(d), doc \notin Docs(b)
       PROVE  doc \in Docs(all)
  <2>1. PICK i \in DOMAIN d : d[i].doc = doc
    BY DEF Docs
  <2>2. i \in I
    BY <2>1, <1>11 DEF I
  <2>3. PICK k \in 1..m : Source(I, k) = i
    BY <2>2, <1>2
  <2>4. sel[k] = d[i]
    BY <2>3, <1>2
  <2>5. n + k \in 1..(n + m) /\ ~(n + k <= n) /\ (n + k) - n = k
    BY <1>1, <1>3
  <2>6. all[n + k] = d[i]
    BY <2>4, <2>5, <1>5
  <2> QED
    BY <2>1, <2>5, <2>6, <1>5 DEF Docs
<1> QED
  BY <1>8, <1>9, <1>10, <1>11

(* A fused list is a list of candidates, of all those of the two routes if  *)
(* it is short; of two with different scores the higher comes first, or the *)
(* lower is cut off.                                                        *)
LEMMA Fused ==
  ASSUME NEW b \in Candidates, NEW d \in Candidates, NEW k \in Nat
  PROVE  /\ Fuse(b, d, k) \in Candidates
         /\ Len(Fuse(b, d, k)) < k => Docs(Fuse(b, d, k)) = Docs(b) \cup Docs(d)
         /\ \A x, y \in Docs(b) \cup Docs(d) :
              Above(RRFScore(b, d, x), RRFScore(b, d, y)) =>
                \/ RankIn(Fuse(b, d, k), y) = 0
                \/ /\ RankIn(Fuse(b, d, k), x) # 0
                   /\ RankIn(Fuse(b, d, k), x) < RankIn(Fuse(b, d, k), y)
<1> DEFINE all == b \o Selection(d, {i \in DOMAIN d : d[i].doc \notin Docs(b)})
           D == DOMAIN all
           scored == [i \in D |-> [all[i] EXCEPT !.score = RRFScore(b, d, all[i].doc)]]
           sorted == SortByScore(scored)
           fused == Take(sorted, k)
<1>1. all \in Candidates /\ Docs(all) = Docs(b) \cup Docs(d)
  BY Together
<1>2. Fuse(b, d, k) = fused
  BY DEF Fuse
<1> HIDE DEF all
<1>3. all \in Seq(Item) /\ Len(all) \in Nat /\ D = 1..Len(all)
  BY <1>1, LenProperties DEF Candidates
<1>4. ASSUME NEW i \in D
      PROVE  /\ scored[i] \in Item /\ scored[i].doc = all[i].doc
             /\ scored[i].score = RRFScore(b, d, all[i].doc)
  <2>1. all[i] \in Item
    BY <1>3, ElementOfSeq
  <2>2. RRFScore(b, d, all[i].doc) \in Score
    BY RRFScores
  <2> DEFINE c == all[i]
  <2>3. scored[i] = [c EXCEPT !.score = RRFScore(b, d, c.doc)]
    OBVIOUS
  <2> HIDE DEF c
  <2>4. c \in Item /\ RRFScore(b, d, c.doc) \in Score
    BY <2>1, <2>2 DEF c
  <2> HIDE DEF scored
  <2>5. /\ scored[i] \in Item /\ scored[i].doc = c.doc /\ scored[i].score = RRFScore(b, d, c.doc)
    BY <2>3, <2>4 DEF Item
  <2> QED
    BY <2>5 DEF c
<1>5. DOMAIN scored = D
  OBVIOUS
<1> HIDE DEF scored
<1>6. scored \in Seq(Item) /\ Len(scored) = Len(all)
  <2>1. scored \in [1..Len(all) -> Item]
    <3>1. scored = [i \in D |-> scored[i]]
      BY <1>5 DEF scored
    <3> QED
      BY <3>1, <1>3, <1>4
  <2>2. scored \in Seq(Item)
    BY <2>1, <1>3, SeqDef
  <2> QED
    BY <2>2, <1>3, <1>5, LenProperties
<1>7. /\ sorted \in Seq(Item)
      /\ Len(sorted) = Len(scored)
      /\ \A i \in D : /\ PlaceByScore(scored, i) \in D
                      /\ sorted[PlaceByScore(scored, i)] = scored[i]
      /\ \A l \in D : \E i \in D : PlaceByScore(scored, i) = l
      /\ \A i, j \in D : Above(scored[i].score, scored[j].score)
            => PlaceByScore(scored, i) < PlaceByScore(scored, j)
  BY <1>5, <1>6, Sorted
<1> HIDE DEF sorted
<1>8. DOMAIN sorted = D
  BY <1>3, <1>6, <1>7, LenProperties
<1>9. sorted \in Candidates
  <2>1. ASSUME NEW l \in D, NEW m \in D, sorted[l].doc = sorted[m].doc
        PROVE  l = m
    <3>1. PICK i \in D : PlaceByScore(scored, i) = l
      BY <1>7
    <3>2. PICK j \in D : PlaceByScore(scored, j) = m
      BY <1>7
    <3>3. all[i].doc = all[j].doc
      BY <3>1, <3>2, <1>4, <1>7, <2>1
    <3>4. i = j
      BY <3>3, <1>1 DEF Candidates
    <3> QED
      BY <3>1, <3>2, <3>4
  <2> QED
    BY <2>1, <1>7, <1>8 DEF Candidates
<1>10. fused \in Candidates
  BY <1>9, TakeCandidates
<1>11. /\ fused \in Seq(Item)
       /\ Len(fused) = IF k < Len(sorted) THEN k ELSE Len(sorted)
       /\ \A l \in 1..Len(fused) : l \in D /\ fused[l] = sorted[l]
  BY <1>7, <1>8, TakeList
<1>12. Len(fused) \in Nat /\ DOMAIN fused = 1..Len(fused)
  BY <1>11, LenProperties
<1> HIDE DEF fused
<1>13. ASSUME Len(fused) < k
       PROVE  Docs(fused) = Docs(all)
  <2>1. Len(fused) = Len(sorted) /\ DOMAIN fused = D
    <3>1. Len(sorted) \in Nat
      BY <1>3, <1>6, <1>7
    <3>2. Len(fused) = Len(sorted)
      BY <3>1, <1>11, <1>13
    <3> QED
      BY <3>2, <1>3, <1>6, <1>7, <1>12
  <2>2. \A l \in D : fused[l] = sorted[l]
    BY <2>1, <1>11, <1>12
  <2>3. ASSUME NEW x \in Docs(all)
        PROVE  x \in Docs(fused)
    <3>1. PICK i \in D : all[i].doc = x
      BY DEF Docs
    <3>2. PlaceByScore(scored, i) \in D /\ fused[PlaceByScore(scored, i)].doc = x
      BY <3>1, <2>2, <1>4, <1>7
    <3> QED
      BY <3>2, <2>1 DEF Docs
  <2>4. ASSUME NEW x \in Docs(fused)
        PROVE  x \in Docs(all)
    <3>1. PICK l \in D : fused[l].doc = x
      BY <2>1 DEF Docs
    <3>2. PICK i \in D : PlaceByScore(scored, i) = l
      BY <1>7
    <3>3. all[i].doc = x
      BY <3>1, <3>2, <2>2, <1>4, <1>7
    <3> QED
      BY <3>3 DEF Docs
  <2> QED
    BY <2>3, <2>4
<1>14. ASSUME NEW x \in Docs(all), NEW y \in Docs(all),
              Above(RRFScore(b, d, x), RRFScore(b, d, y)), RankIn(fused, y) # 0
       PROVE  RankIn(fused, x) # 0 /\ RankIn(fused, x) < RankIn(fused, y)
  <2>1. PICK i \in D : all[i].doc = x
    BY DEF Docs
  <2>2. PICK j \in D : all[j].doc = y
    BY DEF Docs
  <2> DEFINE p == PlaceByScore(scored, i)  q == PlaceByScore(scored, j)
  <2>3. p \in D /\ q \in D /\ sorted[p].doc = x /\ sorted[q].doc = y
    BY <2>1, <2>2, <1>4, <1>7
  <2>4. p < q
    <3>1. Above(scored[i].score, scored[j].score)
      BY <2>1, <2>2, <1>4, <1>14
    <3> QED
      BY <3>1, <1>7
  <2> HIDE DEF p, q
  <2> DEFINE r == RankIn(fused, y)
  <2>5. y \in Docs(fused)
    BY <1>10, <1>14, RankOfDoc
  <2>6. r \in DOMAIN fused /\ fused[r].doc = y
    BY <1>10, <2>5, RankOfDoc
  <2>7. r \in D /\ sorted[r].doc = y /\ r \in 1..Len(fused)
    BY <2>6, <1>11, <1>12
  <2>8. r = q
    BY <2>3, <2>7, <1>8, <1>9 DEF Candidates
  <2>9. p \in 1..Len(fused)
    BY <2>3, <2>4, <2>7, <2>8, <1>3, <1>12
  <2>10. p \in DOMAIN fused /\ fused[p].doc = x
    BY <2>3, <2>9, <1>11, <1>12
  <2>11. RankIn(fused, x) = p
    BY <2>10, <1>10, RankOfDoc
  <2> QED
    BY <2>4, <2>8, <2>9, <2>11
<1>15. ASSUME NEW x \in Docs(b) \cup Docs(d), NEW y \in Docs(b) \cup Docs(d),
              Above(RRFScore(b, d, x), RRFScore(b, d, y))
       PROVE  \/ RankIn(fused, y) = 0
              \/ RankIn(fused, x) # 0 /\ RankIn(fused, x) < RankIn(fused, y)
  BY <1>1, <1>14, <1>15
<1> QED
  BY <1>1, <1>2, <1>10, <1>13, <1>15

LEMMA TopKType == TopK \in Nat /\ TopTables \in Nat /\ TopColumns \in Nat
<1>1. /\ TopTables \in Nat /\ TopColumns \in Nat /\ TopValues \in Nat /\ TopExamples \in Nat
  BY TopsAssumption
<1> QED
  BY <1>1 DEF TopK

\* what FusedFairly asks of what two rankings were merged to, for n places
Fair(b, d, list, n) ==
  LET found == Docs(b) \cup Docs(d)
  IN /\ Cardinality(Docs(list)) = Len(list)
     /\ Len(list) < n => Docs(list) = found
     /\ \A x, y \in found :
          /\ Beats(b, x, y) \/ Beats(d, x, y)
          /\ ~Beats(b, y, x) /\ ~Beats(d, y, x)
          => RankIn(list, y) = 0 \/ (RankIn(list, x) # 0 /\ RankIn(list, x) < RankIn(list, y))

LEMMA FusedFair ==
  ASSUME NEW b \in Candidates, NEW d \in Candidates, NEW n \in Nat
  PROVE  Fair(b, d, Fuse(b, d, n), n)
<1> DEFINE fused == Fuse(b, d, n)
<1>1. fused \in Candidates /\ (Len(fused) < n => Docs(fused) = Docs(b) \cup Docs(d))
  BY Fused
<1>2. Cardinality(Docs(fused)) = Len(fused)
  BY <1>1, DocsCounted DEF Candidates
<1>3. ASSUME NEW x \in Docs(b) \cup Docs(d), NEW y \in Docs(b) \cup Docs(d),
             Beats(b, x, y) \/ Beats(d, x, y), ~Beats(b, y, x), ~Beats(d, y, x)
      PROVE  RankIn(fused, y) = 0 \/ (RankIn(fused, x) # 0 /\ RankIn(fused, x) < RankIn(fused, y))
  <2>1. Above(RRFScore(b, d, x), RRFScore(b, d, y))
    BY <1>3, RRFScores
  <2> QED
    BY <2>1, Fused
<1> QED
  BY <1>1, <1>2, <1>3 DEF Fair

(* The first of one ranking are in its order, and all of it if they are few. *)
LEMMA TakenInOrder ==
  ASSUME NEW list \in Candidates, NEW n \in Nat
  PROVE  /\ Take(list, n) \in Candidates
         /\ Len(Take(list, n)) < n => Docs(Take(list, n)) = Docs(list)
         /\ \A x : RankIn(Take(list, n), x) # 0 => RankIn(Take(list, n), x) = RankIn(list, x)
         /\ \A x, y : Beats(list, x, y) /\ RankIn(Take(list, n), y) # 0
                       => RankIn(Take(list, n), x) # 0
<1> DEFINE taken == Take(list, n)
<1>1. list \in Seq(Item) /\ Len(list) \in Nat /\ DOMAIN list = 1..Len(list)
  BY LenProperties DEF Candidates
<1>2. taken \in Candidates
  BY TakeCandidates
<1>3. /\ Len(taken) = IF n < Len(list) THEN n ELSE Len(list)
      /\ \A i \in 1..Len(taken) : i \in DOMAIN list /\ taken[i] = list[i]
  BY <1>1, TakeList
<1>4. Len(taken) \in Nat /\ DOMAIN taken = 1..Len(taken)
  BY <1>2, LenProperties DEF Candidates
<1> HIDE DEF taken
<1>5. ASSUME NEW x, RankIn(taken, x) # 0
      PROVE  RankIn(taken, x) = RankIn(list, x) /\ RankIn(taken, x) \in DOMAIN taken
  <2>1. x \in Docs(taken)
    BY <1>2, <1>5, RankOfDoc
  <2>2. RankIn(taken, x) \in DOMAIN taken /\ taken[RankIn(taken, x)].doc = x
    BY <1>2, <2>1, RankOfDoc
  <2>3. RankIn(taken, x) \in DOMAIN list /\ list[RankIn(taken, x)].doc = x
    BY <1>3, <1>4, <2>2
  <2> QED
    BY <2>2, <2>3, RankOfDoc
<1>6. ASSUME NEW i \in DOMAIN taken
      PROVE  RankIn(taken, list[i].doc) = i
  BY <1>2, <1>3, <1>4, RankOfDoc
<1>7. ASSUME NEW x, NEW y, Beats(list, x, y), RankIn(taken, y) # 0
      PROVE  RankIn(taken, x) # 0
  <2>1. RankIn(list, y) \in 1..Len(taken)
    BY <1>4, <1>5, <1>7
  <2>2. RankIn(list, x) # 0 /\ (RankIn(list, y) = 0 \/ RankIn(list, x) < RankIn(list, y))
    BY <1>7 DEF Beats
  <2>3. x \in Docs(list)
    BY <2>2, RankOfDoc
  <2>4. RankIn(list, x) \in DOMAIN list /\ list[RankIn(list, x)].doc = x
    BY <2>3, RankOfDoc
  <2>5. RankIn(list, x) \in 1..Len(taken)
    BY <2>1, <2>2, <2>4, <1>1, <1>4
  <2>6. RankIn(taken, x) = RankIn(list, x)
    BY <2>4, <2>5, <1>4, <1>6
  <2> QED
    BY <2>2, <2>6
<1>8. ASSUME Len(taken) < n
      PROVE  Docs(taken) = Docs(list)
  <2>1. Len(taken) = Len(list)
    <3>1. CASE n < Len(list)
      BY <3>1, <1>3, <1>4, <1>8
    <3>2. CASE ~(n < Len(list))
      BY <3>2, <1>3
    <3> QED
      BY <3>1, <3>2
  <2>2. DOMAIN taken = DOMAIN list /\ \A i \in DOMAIN list : taken[i] = list[i]
    BY <2>1, <1>1, <1>3, <1>4
  <2> QED
    BY <2>2 DEF Docs
<1> QED
  BY <1>2, <1>5, <1>7, <1>8 DEF taken

(* One route's answer alone is fair to both when the other found nothing.   *)
LEMMA AloneFair ==
  ASSUME NEW list \in Candidates, NEW n \in Nat
  PROVE  Fair(list, <<>>, Take(list, n), n) /\ Fair(<<>>, list, Take(list, n), n)
<1> DEFINE taken == Take(list, n)
<1>1. taken \in Candidates /\ (Len(taken) < n => Docs(taken) = Docs(list))
  BY TakenInOrder
<1>2. Cardinality(Docs(taken)) = Len(taken)
  BY <1>1, DocsCounted DEF Candidates
<1>3. Docs(<<>>) = {} /\ \A x : RankIn(<<>>, x) = 0
  <2>1. DOMAIN (<<>>) = {}
    BY EmptySeq
  <2> QED
    BY <2>1 DEF Docs, RankIn
<1>4. \A x, y : ~Beats(<<>>, x, y)
  BY <1>3 DEF Beats
<1>5. ASSUME NEW x, NEW y, Beats(list, x, y)
      PROVE  RankIn(taken, y) = 0 \/ (RankIn(taken, x) # 0 /\ RankIn(taken, x) < RankIn(taken, y))
  BY <1>5, TakenInOrder DEF Beats
<1> HIDE DEF taken
<1>6. Docs(list) \cup Docs(<<>>) = Docs(list) /\ Docs(<<>>) \cup Docs(list) = Docs(list)
  BY <1>3
<1>7. Fair(list, <<>>, taken, n)
  BY <1>1, <1>2, <1>4, <1>5, <1>6 DEF Fair
<1>8. Fair(<<>>, list, taken, n)
  BY <1>1, <1>2, <1>4, <1>5, <1>6 DEF Fair
<1> QED
  BY <1>7, <1>8 DEF taken

(* What is merged is fair to the routes: see FusedFairly.                   *)
LEMMA FairFusion ==
  ASSUME bm25 \in Answer, dense \in Answer,
         bm25.status # "OK" => bm25.list = <<>>, dense.status # "OK" => dense.list = <<>>
  PROVE  FusedFairly
<1>1. bm25.list \in Candidates /\ dense.list \in Candidates /\ TopK \in Nat
  BY TopKType DEF Answer
<1>2. Fair(bm25.list, dense.list, Result.list, TopK)
  <2>1. CASE bm25.status = "FAILED" /\ dense.status = "FAILED"
    <3>1. bm25.list = <<>> /\ dense.list = <<>> /\ Result.list = <<>>
      BY <2>1 DEF Result, Merge, Failed
    <3>2. <<>> \in Candidates /\ Take(<<>>, TopK) \in Candidates
      BY <1>1, <3>1, TakeCandidates
    <3>3. Take(<<>>, TopK) = <<>>
      BY <1>1, EmptySeq DEF Take
    <3> QED
      BY <1>1, <3>1, <3>2, <3>3, AloneFair
  <2>2. CASE bm25.status = "FAILED" /\ dense.status # "FAILED"
    <3>1. bm25.list = <<>> /\ Result.list = Take(dense.list, TopK)
      BY <2>2 DEF Result, Merge
    <3> QED
      BY <1>1, <3>1, AloneFair
  <2>3. CASE bm25.status # "FAILED" /\ dense.status = "FAILED"
    <3>1. dense.list = <<>> /\ Result.list = Take(bm25.list, TopK)
      BY <2>3 DEF Result, Merge
    <3> QED
      BY <1>1, <3>1, AloneFair
  <2>4. CASE bm25.status # "FAILED" /\ dense.status # "FAILED"
    <3>1. Result.list = Fuse(bm25.list, dense.list, TopK)
      BY <2>4 DEF Result, Merge, Ok
    <3> QED
      BY <1>1, <3>1, FusedFair
  <2> QED
    BY <2>1, <2>2, <2>3, <2>4
<1> QED
  BY <1>2 DEF Fair, FusedFairly
-----------------------------------------------------------------------------
LEMMA SelectedCandidates ==
  ASSUME NEW list \in Seq(Item), NEW I \in SUBSET (DOMAIN list)
  PROVE  /\ Selection(list, I) \in Seq(Item)
         /\ Len(Selection(list, I)) = Cardinality(I)
         /\ Cardinality(I) \in Nat
         /\ \A i \in I : \E k \in DOMAIN Selection(list, I) : Selection(list, I)[k] = list[i]
         /\ \A k \in DOMAIN Selection(list, I) : \E i \in I : Selection(list, I)[k] = list[i]
         /\ Docs(Selection(list, I)) = {list[i].doc : i \in I}
         /\ list \in Candidates => Selection(list, I) \in Candidates
<1> DEFINE m == Cardinality(I)
           sel == Selection(list, I)
<1>1. /\ IsFiniteSet(I) /\ sel \in Seq(Item) /\ Len(sel) = m /\ DOMAIN sel = 1..m
      /\ \A k \in 1..m : sel[k] = list[Source(I, k)] /\ Source(I, k) \in I
      /\ \A i \in I : \E k \in 1..m : Source(I, k) = i
      /\ \A k, l \in 1..m : k < l => Source(I, k) < Source(I, l)
  BY Selections
<1> HIDE DEF sel
<1>2. m \in Nat
  BY <1>1, FS_CardinalityType
<1>3. \A i \in I : \E k \in DOMAIN sel : sel[k] = list[i]
  BY <1>1
<1>4. \A k \in DOMAIN sel : \E i \in I : sel[k] = list[i]
  BY <1>1
<1>5. Docs(sel) = {list[i].doc : i \in I}
  <2>1. Docs(sel) \subseteq {list[i].doc : i \in I}
    BY <1>4 DEF Docs
  <2>2. ASSUME NEW i \in I
        PROVE  list[i].doc \in Docs(sel)
    <3>1. PICK k \in DOMAIN sel : sel[k] = list[i]
      BY <1>3
    <3> QED
      BY <3>1 DEF Docs
  <2> QED
    BY <2>1, <2>2
<1>6. ASSUME list \in Candidates
      PROVE  sel \in Candidates
  <2>1. \A k \in 1..m : Source(I, k) \in Nat
    <3>1. DOMAIN list = 1..Len(list) /\ Len(list) \in Nat
      BY LenProperties
    <3> QED
      BY <3>1, <1>1
  <2> HIDE DEF m
  <2>2. ASSUME NEW k \in 1..m, NEW l \in 1..m, sel[k].doc = sel[l].doc
        PROVE  k = l
    <3>1. Source(I, k) = Source(I, l)
      <4>1. /\ sel[k] = list[Source(I, k)] /\ Source(I, k) \in DOMAIN list
            /\ sel[l] = list[Source(I, l)] /\ Source(I, l) \in DOMAIN list
        BY <1>1
      <4> QED
        BY <4>1, <2>2, <1>6 DEF Candidates
    <3>2. ~(k < l) /\ ~(l < k)
      <4>1. k < l => Source(I, k) < Source(I, l)
        BY <1>1
      <4>2. l < k => Source(I, l) < Source(I, k)
        BY <1>1
      <4> QED
        BY <4>1, <4>2, <3>1, <2>1
    <3> QED
      BY <3>2, <1>2
  <2> QED
    BY <2>2, <1>1 DEF Candidates
<1> QED
  BY <1>1, <1>2, <1>3, <1>4, <1>5, <1>6 DEF sel

(* Whatever the reranker makes of a list, it is made of the candidates of   *)
(* the list, and every key is among them.                                   *)
LEMMA RerankedList ==
  ASSUME NEW list \in Candidates, NEW n \in Nat, NEW kept \in Reranked(list, n)
  PROVE  /\ kept \in Candidates
         /\ Reranker => \A i \in DOMAIN list : IsKey(list[i]) =>
              \E k \in DOMAIN kept : kept[k] = list[i]
<1> DEFINE D == DOMAIN list
<1>1. list \in Seq(Item) /\ Len(list) \in Nat /\ D = 1..Len(list)
  BY LenProperties DEF Candidates
<1>2. CASE Reranker /\ list # <<>>
  <2>1. PICK p \in Bijection(D, D) : kept = EnsureRequired([i \in D |-> list[p[i]]], list, n)
    BY <1>2 DEF Reranked
  <2> DEFINE ranked == [i \in D |-> list[p[i]]]
             first == Take(ranked, n)
             I == {i \in DOMAIN list : IsKey(list[i]) /\ list[i].doc \notin Docs(first)}
             rest == Selection(list, I)
  <2>2. /\ \A i \in D : p[i] \in D
        /\ \A i, j \in D : p[i] = p[j] => i = j
    BY DEF Bijection, Injection, IsInjective
  <2>3. \A i \in D : list[p[i]] \in Item
    BY <2>2, <1>1, ElementOfSeq
  <2>4. ranked \in [1..Len(list) -> Item]
    BY <2>3, <1>1
  <2>5. ranked \in Seq(Item)
    BY <2>4, <1>1, SeqDef
  <2>6. DOMAIN ranked = D
    OBVIOUS
  <2>7. /\ first \in Seq(Item)
        /\ \A i \in 1..Len(first) : i \in D /\ first[i] = ranked[i]
    BY <2>5, <2>6, TakeList
  <2> HIDE DEF first
  <2>8. I \in SUBSET (DOMAIN list)
    OBVIOUS
  <2> HIDE DEF I
  <2>9. /\ rest \in Seq(Item)
        /\ \A i \in I : \E k \in DOMAIN rest : rest[k] = list[i]
        /\ \A k \in DOMAIN rest : \E i \in I : rest[k] = list[i]
        /\ rest \in Candidates
    BY <1>1, <2>8, SelectedCandidates
  <2>10. kept = first \o rest
    BY <2>1 DEF EnsureRequired, first, I
  <2> HIDE DEF rest, ranked
  <2>11. Len(first) \in Nat /\ Len(rest) \in Nat
         /\ DOMAIN first = 1..Len(first) /\ DOMAIN rest = 1..Len(rest)
    BY <2>7, <2>9, LenProperties
  <2>12. first \o rest \in Seq(Item) /\ Len(first \o rest) = Len(first) + Len(rest)
    BY <2>7, <2>9, ConcatProperties
  <2>13. \A i \in 1..(Len(first) + Len(rest)) :
           (first \o rest)[i] = IF i <= Len(first) THEN first[i] ELSE rest[i - Len(first)]
    BY <2>7, <2>9, ConcatProperties
  <2>14. kept \in Seq(Item) /\ DOMAIN kept = 1..(Len(first) + Len(rest))
    BY <2>10, <2>12, LenProperties
  <2>15. ASSUME NEW i \in D, IsKey(list[i])
         PROVE  \E k \in DOMAIN kept : kept[k] = list[i]
    <3>1. CASE i \in I
      <4>1. PICK k \in DOMAIN rest : rest[k] = list[i]
        BY <3>1, <2>9
      <4>2. /\ Len(first) + k \in 1..(Len(first) + Len(rest))
            /\ ~(Len(first) + k <= Len(first)) /\ (Len(first) + k) - Len(first) = k
        BY <2>11
      <4>3. kept[Len(first) + k] = list[i]
        BY <4>1, <4>2, <2>10, <2>13
      <4> QED
        BY <4>2, <4>3, <2>14
    <3>2. CASE i \notin I
      <4>1. list[i].doc \in Docs(first)
        BY <3>2, <2>15 DEF I
      <4>2. PICK k \in DOMAIN first : first[k].doc = list[i].doc
        BY <4>1 DEF Docs
      <4>3. k \in D /\ first[k] = list[p[k]]
        BY <2>7, <2>11 DEF ranked
      <4>4. p[k] = i
        BY <4>2, <4>3, <2>2 DEF Candidates
      <4>5. k \in 1..(Len(first) + Len(rest)) /\ k <= Len(first)
        BY <2>11
      <4>6. kept[k] = list[i]
        BY <4>3, <4>4, <4>5, <2>10, <2>13
      <4> QED
        BY <4>5, <4>6, <2>14
    <3> QED
      BY <3>1, <3>2
  <2>16. ASSUME NEW i \in DOMAIN first, NEW j \in DOMAIN first, first[i].doc = first[j].doc
         PROVE  i = j
    <3>1. /\ i \in D /\ first[i] = list[p[i]]
          /\ j \in D /\ first[j] = list[p[j]]
      BY <2>7, <2>11 DEF ranked
    <3>2. p[i] = p[j]
      BY <2>2, <2>16, <3>1 DEF Candidates
    <3> QED
      BY <2>2, <3>1, <3>2
  <2>17. ASSUME NEW i \in DOMAIN first, NEW j \in DOMAIN rest
         PROVE  first[i].doc # rest[j].doc
    <3>1. PICK l \in I : rest[j] = list[l]
      BY <2>9
    <3>2. list[l].doc \notin Docs(first)
      BY DEF I
    <3> QED
      BY <3>1, <3>2 DEF Docs
  <2>18. ASSUME NEW i \in DOMAIN kept, NEW j \in DOMAIN kept, kept[i].doc = kept[j].doc
         PROVE  i = j
    <3>1. ASSUME NEW k \in DOMAIN kept
          PROVE  \/ k \in DOMAIN first /\ kept[k] = first[k]
                 \/ k - Len(first) \in DOMAIN rest /\ kept[k] = rest[k - Len(first)]
      <4>1. k \in 1..(Len(first) + Len(rest))
        BY <2>14
      <4>2. kept[k] = IF k <= Len(first) THEN first[k] ELSE rest[k - Len(first)]
        BY <2>10, <2>13, <4>1
      <4>3. CASE k <= Len(first)
        BY <2>11, <4>1, <4>2, <4>3
      <4>4. CASE ~(k <= Len(first))
        <5>1. k - Len(first) \in 1..Len(rest)
          BY <2>11, <4>1, <4>4
        <5> QED
          BY <2>11, <4>2, <4>4, <5>1
      <4> QED
        BY <4>3, <4>4
    <3>2. i \in Nat /\ j \in Nat
      BY <2>11, <2>14
    <3>3. CASE i \in DOMAIN first /\ kept[i] = first[i]
      BY <2>16, <2>17, <2>18, <3>1, <3>3
    <3>4. CASE i - Len(first) \in DOMAIN rest /\ kept[i] = rest[i - Len(first)]
      <4>1. CASE j \in DOMAIN first /\ kept[j] = first[j]
        BY <2>17, <2>18, <3>4, <4>1
      <4>2. CASE j - Len(first) \in DOMAIN rest /\ kept[j] = rest[j - Len(first)]
        <5>1. i - Len(first) = j - Len(first)
          BY <2>9, <2>18, <3>4, <4>2 DEF Candidates
        <5> QED
          BY <2>11, <3>2, <5>1
      <4> QED
        BY <3>1, <4>1, <4>2
    <3> QED
      BY <3>1, <3>3, <3>4
  <2>19. kept \in Candidates
    BY <2>14, <2>18 DEF Candidates
  <2> QED
    BY <2>15, <2>19
<1>3. CASE ~(Reranker /\ list # <<>>)
  <2>1. kept = Take(list, n)
    BY <1>3 DEF Reranked
  <2>2. kept \in Candidates
    BY <2>1, TakeCandidates
  <2>3. ASSUME Reranker, NEW i \in D
        PROVE  FALSE
    <3>1. list = <<>>
      BY <2>3, <1>3
    <3>2. Len(list) = 0
      BY <3>1, EmptySeq
    <3> QED
      BY <3>2, <1>1
  <2> QED
    BY <2>2, <2>3
<1> QED
  BY <1>2, <1>3

(* The columns that are kept have every key; and when they have any other   *)
(* column, they are within the budget.                                      *)
LEMMA KeptWithin ==
  ASSUME NEW tables \in Seq(Item), NEW columns \in Seq(Item)
  PROVE  /\ \A i \in DOMAIN columns : IsKey(columns[i]) => columns[i].doc \in KeptColumns(tables, columns)
         /\ \/ KeptColumns(tables, columns) \subseteq Keys
            \/ Estimate(Len(tables), Cardinality(KeptColumns(tables, columns))) <= Budget
<1>1. /\ Len(tables) \in Nat /\ Len(columns) \in Nat /\ Budget \in Nat
      /\ IsFiniteSet(Docs(columns)) /\ Cardinality(Docs(columns)) <= Len(columns)
      /\ Cardinality(Docs(columns)) \in Nat
  BY LenProperties, DocsCounted, FS_CardinalityType, TopsAssumption
<1>2. CASE Estimate(Len(tables), Len(columns)) <= Budget
  <2>1. KeptColumns(tables, columns) = Docs(columns)
    <3>1. ~(Estimate(Len(tables), Len(columns)) > Budget)
      BY <1>1, <1>2 DEF Estimate, TokensPerTable, TokensPerColumn
    <3> QED
      BY <3>1 DEF KeptColumns
  <2>2. \A i \in DOMAIN columns : columns[i].doc \in Docs(columns)
    BY DEF Docs
  <2>3. Estimate(Len(tables), Cardinality(Docs(columns))) <= Budget
    BY <1>1, <1>2 DEF Estimate, TokensPerTable, TokensPerColumn
  <2> QED
    BY <2>1, <2>2, <2>3
<1>3. CASE ~(Estimate(Len(tables), Len(columns)) <= Budget)
  <2> DEFINE keys == {i \in DOMAIN columns : IsKey(columns[i])}
             others == DOMAIN columns \ keys
             protected == Selection(columns, keys)
             ordinary == Selection(columns, others)
             rest == Budget - Estimate(Len(tables), Len(protected))
             n == IF rest < 0 THEN 0 ELSE rest \div TokensPerColumn
             taken == Take(ordinary, n)
             kept == Docs(protected) \cup Docs(taken)
  <2>1. KeptColumns(tables, columns) = kept
    <3>1. Estimate(Len(tables), Len(columns)) > Budget
      BY <1>1, <1>3 DEF Estimate, TokensPerTable, TokensPerColumn
    <3> QED
      BY <3>1 DEF KeptColumns, BudgetTrim
  <2>2. /\ keys \in SUBSET (DOMAIN columns) /\ others \in SUBSET (DOMAIN columns)
        /\ \A i \in keys : columns[i].doc \in Keys
    BY DEF IsKey
  <2>3. \A i \in DOMAIN columns : IsKey(columns[i]) => i \in keys
    OBVIOUS
  <2> HIDE DEF keys, others
  <2>4. /\ protected \in Seq(Item) /\ ordinary \in Seq(Item)
        /\ Docs(protected) = {columns[i].doc : i \in keys}
    BY <2>2, SelectedCandidates
  <2> HIDE DEF protected, ordinary
  <2>5. Len(protected) \in Nat /\ rest \in Int
    <3>1. Len(protected) \in Nat
      BY <2>4, LenProperties
    <3> QED
      BY <3>1, <1>1 DEF Estimate, TokensPerTable, TokensPerColumn
  <2>6. n \in Nat /\ (n # 0 => 15 * n <= rest)
    <3> HIDE DEF rest
    <3> QED
      BY <2>5 DEF TokensPerColumn
  <2> HIDE DEF n
  <2>7. taken \in Seq(Item) /\ Len(taken) \in Nat /\ Len(taken) <= n /\ DOMAIN taken = 1..Len(taken)
    <3>1. taken \in Seq(Item)
      BY <2>4, <2>6, TakeList
    <3>2. Len(taken) = IF n < Len(ordinary) THEN n ELSE Len(ordinary)
      BY <2>4, <2>6, TakeList
    <3>3. Len(ordinary) \in Nat /\ Len(taken) \in Nat /\ DOMAIN taken = 1..Len(taken)
      BY <2>4, <3>1, LenProperties
    <3> HIDE DEF taken
    <3> QED
      BY <3>1, <3>2, <3>3, <2>6
  <2> HIDE DEF taken
  <2>8. \A i \in DOMAIN columns : IsKey(columns[i]) => columns[i].doc \in kept
    BY <2>3, <2>4
  <2>9. CASE n = 0
    <3>1. Docs(taken) = {}
      BY <2>7, <2>9 DEF Docs
    <3>2. kept \subseteq Keys
      BY <3>1, <2>2, <2>4
    <3> QED
      BY <3>2, <2>1, <2>8
  <2>10. CASE n # 0
    <3>1. /\ IsFiniteSet(Docs(protected)) /\ Cardinality(Docs(protected)) <= Len(protected)
          /\ IsFiniteSet(Docs(taken)) /\ Cardinality(Docs(taken)) <= Len(taken)
      BY <2>4, <2>7, DocsCounted
    <3>2. /\ Cardinality(kept) =
               Cardinality(Docs(protected)) + Cardinality(Docs(taken))
                 - Cardinality(Docs(protected) \cap Docs(taken))
          /\ IsFiniteSet(kept)
      BY <3>1, FS_Union
    <3>3. /\ Cardinality(Docs(protected)) \in Nat /\ Cardinality(Docs(taken)) \in Nat
          /\ Cardinality(Docs(protected) \cap Docs(taken)) \in Nat /\ Cardinality(kept) \in Nat
      BY <3>1, <3>2, FS_CardinalityType, FS_Intersection
    <3> HIDE DEF kept
    <3>4. Cardinality(kept) <= Len(protected) + n
      BY <3>1, <3>2, <3>3, <2>5, <2>6, <2>7
    <3>5. Estimate(Len(tables), Cardinality(kept)) <= Budget
      BY <3>3, <3>4, <2>5, <2>6, <2>10, <1>1 DEF Estimate, TokensPerTable, TokensPerColumn
    <3> QED
      BY <3>5, <2>1, <2>8
  <2> QED
    BY <2>9, <2>10
<1> QED
  BY <1>2, <1>3, <1>1 DEF Estimate, TokensPerTable, TokensPerColumn
-----------------------------------------------------------------------------
LEMMA RankingsTyped ==
  ASSUME NEW docs \in SUBSET Doc, IsFiniteSet(docs), NEW scores \in SUBSET Score,
         NEW full \in BOOLEAN, NEW n \in Nat, NEW list \in Rankings(docs, scores, full, n)
  PROVE  list \in Candidates
<1> DEFINE limit == IF n < Cardinality(docs) THEN n ELSE Cardinality(docs)
           Falling(k) == {f \in [1..k -> scores] : \A i, j \in 1..k : i < j => ~Above(f[j], f[i])}
<1>1. limit \in Nat
  BY FS_CardinalityType
<1>2. PICK k \in 0..limit : \E r \in Injection(1..k, docs), s \in Falling(k) :
        list = [i \in 1..k |-> [doc |-> r[i], full |-> full, score |-> s[i]]]
  BY SMTT(30) DEF Rankings
<1>3. k \in Nat
  BY <1>1
<1>4. PICK r \in Injection(1..k, docs), s \in Falling(k) :
        list = [i \in 1..k |-> [doc |-> r[i], full |-> full, score |-> s[i]]]
  BY <1>2
<1>5. /\ \A i \in 1..k : r[i] \in docs /\ s[i] \in scores
      /\ \A i, j \in 1..k : r[i] = r[j] => i = j
  BY DEF Injection, IsInjective
<1>6. list \in [1..k -> Item]
  BY <1>4, <1>5 DEF Item
<1>7. list \in Seq(Item)
  BY <1>3, <1>6, SeqDef
<1>8. \A i, j \in DOMAIN list : list[i].doc = list[j].doc => i = j
  BY <1>4, <1>5
<1> QED
  BY <1>7, <1>8 DEF Candidates

LEMMA AnswersTyped ==
  ASSUME NEW full \in BOOLEAN, NEW answer \in Answers(full)
  PROVE  answer \in Answer /\ answer.status = "OK"
<1> DEFINE scores == IF stage = "values" THEN RawScores ELSE {<<1, 1>>}
<1>1. scores \in SUBSET Score
  BY ScoresAssumption DEF Score
<1>2. Matching \in SUBSET Doc /\ IsFiniteSet(Matching)
  <2>1. Type \subseteq Doc /\ IsFiniteSet(Type)
    BY DocsAssumption DEF Type, Doc
  <2> QED
    BY <2>1, FS_Subset DEF Matching
<1>3. PICK list \in Rankings(Matching, scores, full, TopK) : answer = Ok(list)
  BY DEF Answers
<1>4. list \in Candidates
  BY <1>1, <1>2, <1>3, TopKType, RankingsTyped
<1> QED
  BY <1>3, <1>4 DEF Ok, Answer
-----------------------------------------------------------------------------
\* any step of the searches, whoever calls for it
SearchNext ==
  \/ SearchStep \/ Done
  \/ \E domains : Retrieve(domains) \/ SearchExamples(domains)
  \/ \E v \in Values : LinkValue(v)

WellFormed(c) ==
  /\ c.tables \in Candidates
  /\ c = [tables |-> c.tables, columns |-> c.columns]

\* what holds between the steps of a search
SearchInv ==
  /\ bm25 \in Answer /\ (bm25.status # "OK" => bm25.list = <<>>)
  /\ dense \in Answer /\ (dense.status # "OK" => dense.list = <<>>)
  /\ typed # {} => stage = "answered"
  /\ WellFormed(context)
  /\ BudgetKept

LEMMA NoAnswers ==
  /\ Pending \in Answer /\ Failed \in Answer /\ Degraded \in Answer
  /\ Pending.list = <<>> /\ Failed.list = <<>> /\ Degraded.list = <<>>
<1>1. <<>> \in Seq(Item) /\ DOMAIN (<<>>) = {}
  BY EmptySeq
<1>2. <<>> \in Candidates
  BY <1>1 DEF Candidates
<1> QED
  BY <1>2 DEF Answer, Pending, Failed, Degraded

LEMMA ResultTyped ==
  ASSUME SearchInv
  PROVE  Result.list \in Candidates
<1>1. bm25.list \in Candidates /\ dense.list \in Candidates /\ TopK \in Nat
  BY TopKType DEF SearchInv, Answer
<1>2. Failed.list \in Candidates
  BY NoAnswers DEF Answer
<1>3. CASE bm25.status = "FAILED" /\ dense.status = "FAILED"
  BY <1>2, <1>3 DEF Result, Merge
<1>4. CASE bm25.status = "FAILED" /\ dense.status # "FAILED"
  BY <1>1, <1>4, TakeCandidates DEF Result, Merge
<1>5. CASE bm25.status # "FAILED" /\ dense.status = "FAILED"
  BY <1>1, <1>5, TakeCandidates DEF Result, Merge
<1>6. CASE bm25.status # "FAILED" /\ dense.status # "FAILED"
  BY <1>1, <1>6, Fused DEF Result, Merge, Ok
<1> QED
  BY <1>3, <1>4, <1>5, <1>6

LEMMA NoContextKept == WellFormed(NoContext) /\ NoContext.columns = {}
<1>1. <<>> \in Seq(Item) /\ DOMAIN (<<>>) = {}
  BY EmptySeq
<1>2. <<>> \in Candidates
  BY <1>1 DEF Candidates
<1> QED
  BY <1>2 DEF NoContext, WellFormed

LEMMA SearchInit == Init => SearchInv
  BY NoAnswers, NoContextKept DEF Init, SearchInv, BudgetKept, Pending

LEMMA SearchKeeps ==
  ASSUME SearchInv, SearchNext \/ UNCHANGED vars
  PROVE  SearchInv'
<1>1. CASE UNCHANGED vars
  BY <1>1 DEF vars, SearchInv, BudgetKept
<1>2. ASSUME bm25' \in Answer, bm25'.status # "OK" => bm25'.list = <<>>,
             dense' \in Answer, dense'.status # "OK" => dense'.list = <<>>,
             UNCHANGED <<stage, context, typed>>
      PROVE  SearchInv'
  BY <1>2 DEF SearchInv, BudgetKept
<1>3. /\ bm25 \in Answer /\ (bm25.status # "OK" => bm25.list = <<>>)
      /\ dense \in Answer /\ (dense.status # "OK" => dense.list = <<>>)
  BY DEF SearchInv
<1>4. ASSUME Bm25Answers \/ Bm25TimesOut \/ Bm25Fails
      PROVE  SearchInv'
  <2>1. /\ dense' = dense /\ UNCHANGED <<stage, context, typed>>
        /\ bm25' \in Answers(TRUE) \cup {Degraded, Failed}
    BY <1>4 DEF Bm25Answers, Bm25TimesOut, Bm25Fails
  <2>2. bm25' \in Answer /\ (bm25'.status # "OK" => bm25'.list = <<>>)
    BY <2>1, NoAnswers, AnswersTyped
  <2> QED
    BY <1>2, <1>3, <2>1, <2>2
<1>5. ASSUME DenseAnswers \/ DenseTimesOut \/ DenseFails \/ EmbeddingFails
      PROVE  SearchInv'
  <2>1. /\ bm25' = bm25 /\ UNCHANGED <<stage, context, typed>>
        /\ dense' \in Answers(FALSE) \cup {Degraded, Failed}
    BY <1>5 DEF DenseAnswers, DenseTimesOut, DenseFails, EmbeddingFails
  <2>2. dense' \in Answer /\ (dense'.status # "OK" => dense'.list = <<>>)
    BY <2>1, NoAnswers, AnswersTyped
  <2> QED
    BY <1>2, <1>3, <2>1, <2>2
\* the other steps start or end a search
<1>6. ASSUME NEW next, NEW domains, Search(next, domains),
             typed' # {} => next = "answered", WellFormed(context'), BudgetKept'
      PROVE  SearchInv'
  <2>1. stage' = next /\ bm25' = Pending /\ dense' = Pending
    BY <1>6 DEF Search
  <2> QED
    BY <1>6, <2>1, NoAnswers DEF SearchInv
<1>7. ASSUME context' = context
      PROVE  WellFormed(context') /\ BudgetKept'
  BY <1>7 DEF SearchInv, BudgetKept
<1>8. ASSUME NEW domains, Retrieve(domains) \/ SearchExamples(domains)
      PROVE  SearchInv'
  <2>1. stage = "idle" /\ typed' = typed /\ context' = context
    BY <1>8 DEF Retrieve, SearchExamples
  <2>2. typed' = {}
    BY <2>1 DEF SearchInv
  <2>3. Search("tables", domains) \/ Search("examples", domains)
    BY <1>8 DEF Retrieve, SearchExamples
  <2> QED
    BY <1>6, <1>7, <2>1, <2>2, <2>3
<1>9. ASSUME KeepTables
      PROVE  SearchInv'
  <2>1. typed' = typed /\ stage = "tables"
    BY <1>9 DEF KeepTables
  <2>2. typed' = {}
    BY <2>1 DEF SearchInv
  <2>3. PICK tables \in Reranked(Result.list, TopTables) :
          \/ Search("context", {}) /\ context' = context
          \/ Search("columns", allowed) /\ context' = [NoContext EXCEPT !.tables = tables]
    BY <1>9 DEF KeepTables
  <2>4. CASE Search("context", {}) /\ context' = context
    BY <1>6, <1>7, <2>2, <2>4
  <2>5. CASE Search("columns", allowed) /\ context' = [NoContext EXCEPT !.tables = tables]
    <3>1. tables \in Candidates
      BY ResultTyped, RerankedList, TopKType
    <3>2. WellFormed(context') /\ context'.columns = {}
      BY <2>5, <3>1 DEF NoContext, WellFormed
    <3> QED
      BY <1>6, <2>2, <2>5, <3>2 DEF BudgetKept
  <2> QED
    BY <2>3, <2>4, <2>5
<1>10. ASSUME KeepColumns
       PROVE  SearchInv'
  <2> DEFINE I == {i \in DOMAIN Result.list : InTables(Result.list[i], context.tables)}
             found == Selection(Result.list, I)
  <2>1. typed' = typed /\ stage = "columns" /\ Search("context", {})
    BY <1>10 DEF KeepColumns
  <2>2. typed' = {}
    BY <2>1 DEF SearchInv
  <2>3. PICK columns \in Reranked(found, TopColumns) :
          context' = [context EXCEPT !.columns = KeptColumns(context.tables, columns)]
    BY <1>10 DEF KeepColumns
  <2>4. Result.list \in Candidates /\ Result.list \in Seq(Item)
    BY ResultTyped DEF Candidates
  <2>5. I \in SUBSET (DOMAIN Result.list)
    OBVIOUS
  <2> HIDE DEF I
  <2>6. found \in Candidates
    BY <2>4, <2>5, SelectedCandidates
  <2> HIDE DEF found
  <2>7. columns \in Seq(Item) /\ context.tables \in Seq(Item)
    BY <2>6, RerankedList, TopKType DEF Candidates, SearchInv, WellFormed
  <2> DEFINE kept == KeptColumns(context.tables, columns)
  <2>8. kept \subseteq Keys \/ Estimate(Len(context.tables), Cardinality(kept)) <= Budget
    BY <2>7, KeptWithin
  <2> HIDE DEF kept
  <2>9. context' = [context EXCEPT !.columns = kept]
    BY <2>3 DEF kept
  <2>10. WellFormed(context)
    BY DEF SearchInv
  <2>11. WellFormed(context') /\ context'.tables = context.tables /\ context'.columns = kept
    BY <2>9, <2>10 DEF WellFormed
  <2>12. BudgetKept'
    BY <2>8, <2>11 DEF BudgetKept
  <2> QED
    BY <1>6, <2>1, <2>2, <2>11, <2>12
<1>11. ASSUME KeepExamples \/ AcceptValues
       PROVE  SearchInv'
  BY <1>6, <1>7, <1>11 DEF KeepExamples, AcceptValues
<1>12. ASSUME NEW v \in Values, LinkValue(v)
       PROVE  SearchInv'
  <2>1. context' = context /\ stage = "context"
    BY <1>12 DEF LinkValue
  <2>2. \/ Search("answered", {})
        \/ Search("values", {DomainOf[t] : t \in Docs(context.tables)}) /\ typed' = typed
    BY <1>12 DEF LinkValue
  <2>3. typed = {}
    BY <2>1 DEF SearchInv
  <2> QED
    BY <1>6, <1>7, <2>1, <2>2, <2>3
<1>13. ASSUME Done
       PROVE  SearchInv'
  BY <1>6, <1>13, NoContextKept DEF Done, BudgetKept
<1> QED
  BY <1>1, <1>4, <1>5, <1>8, <1>9, <1>10, <1>11, <1>12, <1>13 DEF SearchNext, SearchStep

(* What KeysKept says of a step.                                            *)
LEMMA KeysStep ==
  ASSUME SearchInv, SearchNext \/ UNCHANGED vars,
         stage = "columns", stage' = "context", Reranker,
         NEW i \in DOMAIN Result.list,
         IsKey(Result.list[i]), InTables(Result.list[i], context.tables)
  PROVE  Result.list[i].doc \in context'.columns
<1>1. KeepColumns
  BY DEF SearchNext, SearchStep, Bm25Answers, Bm25TimesOut, Bm25Fails, DenseAnswers,
         DenseTimesOut, DenseFails, EmbeddingFails, KeepTables, KeepExamples, AcceptValues,
         Done, Retrieve, SearchExamples, LinkValue, Search, vars
<1> DEFINE I == {j \in DOMAIN Result.list : InTables(Result.list[j], context.tables)}
           found == Selection(Result.list, I)
<1>2. PICK columns \in Reranked(found, TopColumns) :
        context' = [context EXCEPT !.columns = KeptColumns(context.tables, columns)]
  BY <1>1 DEF KeepColumns
<1>3. Result.list \in Candidates /\ Result.list \in Seq(Item)
  BY ResultTyped DEF Candidates
<1>4. I \in SUBSET (DOMAIN Result.list) /\ i \in I
  OBVIOUS
<1> HIDE DEF I
<1>5. found \in Candidates /\ \E k \in DOMAIN found : found[k] = Result.list[i]
  BY <1>3, <1>4, SelectedCandidates
<1>6. PICK k \in DOMAIN found : found[k] = Result.list[i]
  BY <1>5
<1> HIDE DEF found
<1>7. /\ columns \in Seq(Item) /\ context.tables \in Seq(Item)
      /\ \E l \in DOMAIN columns : columns[l] = found[k]
  BY <1>5, <1>6, RerankedList, TopKType DEF Candidates, SearchInv, WellFormed
<1>8. PICK l \in DOMAIN columns : columns[l] = found[k]
  BY <1>7
<1> DEFINE kept == KeptColumns(context.tables, columns)
<1>9. columns[l].doc \in kept
  BY <1>6, <1>7, <1>8, KeptWithin
<1> HIDE DEF kept
<1>10. context'.columns = kept
  <2>1. context' = [context EXCEPT !.columns = kept]
    BY <1>2 DEF kept
  <2> QED
    BY <2>1 DEF SearchInv, WellFormed
<1> QED
  BY <1>6, <1>8, <1>9, <1>10
=============================================================================
