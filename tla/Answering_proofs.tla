--------------------------- MODULE Answering_proofs ---------------------------
(***************************************************************************)
(* Theorems about every behaviour of AnswerSpec: what a search keeps and   *)
(* fuses, how a context is trimmed, and what the linkers find.             *)
(***************************************************************************)
EXTENDS Answering, Retrieval_proofs

-----------------------------------------------------------------------------
(* The searches                                                             *)

LEMMA StepSearches ==
  ASSUME [AnswerNext]_allVars
  PROVE  SearchNext \/ UNCHANGED vars
<1>1. CASE UNCHANGED allVars
  BY <1>1 DEF allVars, vars
<1>2. CASE Calls
  <2>1. UNCHANGED vars \/ \E domains : SearchExamples(domains)
    BY <1>2 DEF Calls, Ask, RouteQuestion, Join, JoinLoaded, Build, Call, CallExamples
  <2> QED
    BY <2>1 DEF SearchNext
<1>3. CASE Inspect
  BY <1>3 DEF Inspect, SearchNext
<1>4. CASE Finish \/ \E linker \in {"schema", "semantic"} : Reply(linker)
  BY <1>4 DEF Finish, Reply, SearchNext
<1>5. CASE \E v \in Values : CallValue(v)
  BY <1>5 DEF CallValue, SearchNext
<1>6. CASE SearchStep \/ Return
  BY <1>6 DEF Return, SearchNext
<1> QED
  BY <1>1, <1>2, <1>3, <1>4, <1>5, <1>6 DEF AnswerNext

(* What holds between the steps of a search always holds.                   *)
THEOREM SearchInvariance == AnswerSpec => []SearchInv
<1>1. AnswerInit => SearchInv
  BY SearchInit DEF AnswerInit
<1>2. SearchInv /\ [AnswerNext]_allVars => SearchInv'
  BY StepSearches, SearchKeeps
<1> QED
  BY <1>1, <1>2, PTL DEF AnswerSpec

(* What is merged is fair to both routes: see FusedFairly (search/fusion.py, *)
(* search/hybrid.py).                                                       *)
THEOREM FusionFair == AnswerSpec => []FusedFairly
<1>1. SearchInv => FusedFairly
  BY FairFusion DEF SearchInv
<1> QED
  BY <1>1, SearchInvariance, PTL

(* Keys that were found stay in the context: see KeysKept.                  *)
THEOREM KeysStay == AnswerSpec => KeysKept
<1>1. SearchInv /\ [AnswerNext]_allVars
        => [stage = "columns" /\ stage' = "context" /\ Reranker =>
              \A i \in DOMAIN Result.list :
                IsKey(Result.list[i]) /\ InTables(Result.list[i], context.tables)
                  => Result.list[i].doc \in context'.columns]_vars
  <2>1. SearchInv /\ [AnswerNext]_allVars
          => (stage = "columns" /\ stage' = "context" /\ Reranker =>
                \A i \in DOMAIN Result.list :
                  IsKey(Result.list[i]) /\ InTables(Result.list[i], context.tables)
                    => Result.list[i].doc \in context'.columns)
    BY StepSearches, KeysStep
  <2> QED
    BY <2>1
<1> QED
  BY <1>1, SearchInvariance, PTL DEF AnswerSpec, KeysKept
-----------------------------------------------------------------------------
(* Contexts and their budgets                                               *)

Counts == [tables : Nat, keys : Nat, ordinary : Nat, metrics : Nat, values : Nat,
           joins : Nat, examples : Nat]

\* what is never trimmed weighs
Fixed(c) == 20 * c.tables + 15 * c.keys + 50 * c.metrics + 10 * c.values + 15 * c.joins

LEMMA EstimateOf ==
  ASSUME NEW c \in Counts
  PROVE  /\ EstimateTokens(c) = Fixed(c) + 15 * c.ordinary + 80 * c.examples
         /\ Fixed(c) \in Nat /\ c.ordinary \in Nat /\ c.examples \in Nat
<1>1. /\ c.tables \in Nat /\ c.keys \in Nat /\ c.ordinary \in Nat /\ c.metrics \in Nat
      /\ c.values \in Nat /\ c.joins \in Nat /\ c.examples \in Nat
  BY DEF Counts
<1>2. EstimateTokens(c) = 20 * c.tables + 15 * (c.keys + c.ordinary) + 50 * c.metrics
                            + 10 * c.values + 15 * c.joins + 80 * c.examples
  BY DEF EstimateTokens, Weight
<1>3. Fixed(c) = 20 * c.tables + 15 * c.keys + 50 * c.metrics + 10 * c.values + 15 * c.joins
  BY DEF Fixed
<1> QED
  BY <1>1, <1>2, <1>3

\* the context with other numbers of ordinary columns and examples
With(c, ordinary, examples) == [c EXCEPT !.ordinary = ordinary, !.examples = examples]

LEMMA WithCounts ==
  ASSUME NEW c \in Counts, NEW o \in Nat, NEW e \in Nat
  PROVE  /\ With(c, o, e) \in Counts
         /\ With(c, o, e).ordinary = o /\ With(c, o, e).examples = e
         /\ EstimateTokens(With(c, o, e)) = Fixed(c) + 15 * o + 80 * e
<1>1. /\ With(c, o, e) \in Counts
      /\ With(c, o, e).ordinary = o /\ With(c, o, e).examples = e
      /\ With(c, o, e).tables = c.tables /\ With(c, o, e).keys = c.keys
      /\ With(c, o, e).metrics = c.metrics /\ With(c, o, e).values = c.values
      /\ With(c, o, e).joins = c.joins
  BY DEF With, Counts
<1>2. Fixed(With(c, o, e)) = Fixed(c)
  BY <1>1 DEF Fixed
<1> QED
  BY <1>1, <1>2, EstimateOf

LEMMA WithExamples ==
  ASSUME NEW c \in Counts, NEW p \in Nat, NEW q \in Nat, NEW e \in Nat
  PROVE  [With(c, p, q) EXCEPT !.examples = e] = With(c, p, e)
  BY DEF With, Counts

LEMMA WithOrdinary ==
  ASSUME NEW c \in Counts, NEW p \in Nat, NEW q \in Nat, NEW o \in Nat
  PROVE  [With(c, p, q) EXCEPT !.ordinary = o] = With(c, o, q)
  BY DEF With, Counts

LEMMA WithTwice ==
  ASSUME NEW c \in Counts, NEW p \in Nat, NEW q \in Nat, NEW o \in Nat, NEW e \in Nat
  PROVE  With(With(c, p, q), o, e) = With(c, o, e)
  BY DEF With, Counts

(* A context is trimmed right: see TrimmedRight.                            *)
LEMMA Trimmed ==
  ASSUME NEW parts \in Counts, NEW max \in Nat, NEW budget \in Nat
  PROVE  TrimmedRight(parts, max, budget)
<1> DEFINE offered == IF max < parts.examples THEN max ELSE parts.examples
           o == parts.ordinary
           f == Fixed(parts)
           c0 == With(parts, o, offered)
           c == BuildContext(parts, max, budget)
<1>1. o \in Nat /\ f \in Nat /\ offered \in Nat
  BY EstimateOf
<1> HIDE DEF offered, o, f
<1>2. [parts EXCEPT !.examples = offered] = c0
  BY DEF With, Counts, o
<1>3. /\ c0 \in Counts /\ c0.ordinary = o /\ c0.examples = offered
      /\ EstimateTokens(c0) = f + 15 * o + 80 * offered
  <2>1. c0 \in Counts
    BY <1>1, WithCounts
  <2>2. c0.ordinary = o /\ c0.examples = offered
    BY <1>1, WithCounts
  <2>3. EstimateTokens(c0) = f + 15 * o + 80 * offered
    BY <1>1, WithCounts DEF f
  <2> QED
    BY <2>1, <2>2, <2>3
<1>4. [parts EXCEPT !.examples = IF max < @ THEN max ELSE @] = c0
  BY <1>2 DEF offered
<1>5. c = IF EstimateTokens(c0) > budget THEN TrimColumns(TrimExamples(c0, budget), budget) ELSE c0
  BY <1>4 DEF BuildContext
<1> HIDE DEF c, c0
\* however many columns and examples are left, the numbers decide
<1>6. ASSUME NEW p \in Nat, NEW q \in Nat, c = With(parts, p, q), p <= o, q <= offered,
             f <= budget => f + 15 * p + 80 * q <= budget,
             p < o => f + 15 * (p + 1) + 80 * q > budget,
             q < offered => f + 15 * p + 80 * (q + 1) > budget
      PROVE  TrimmedRight(parts, max, budget)
  <2>1. c \in Counts /\ c.ordinary = p /\ c.examples = q /\ EstimateTokens(c) = f + 15 * p + 80 * q
    <3>1. c \in Counts
      BY <1>6, WithCounts
    <3>2. With(parts, p, q).ordinary = p /\ With(parts, p, q).examples = q
      BY WithCounts
    <3>3. EstimateTokens(c) = f + 15 * p + 80 * q
      BY <1>6, WithCounts DEF f
    <3> QED
      BY <3>1, <3>2, <3>3, <1>6
  <2>2. [parts EXCEPT !.ordinary = 0, !.examples = 0] = With(parts, 0, 0)
    BY DEF With
  <2>3. [c EXCEPT !.ordinary = 0, !.examples = 0] = With(parts, 0, 0)
    <3>1. [c EXCEPT !.ordinary = 0, !.examples = 0] = With(c, 0, 0)
      BY DEF With
    <3> QED
      BY <3>1, <1>6, WithTwice
  <2>4. EstimateTokens(With(parts, 0, 0)) = f
    BY <1>1, WithCounts DEF f
  <2>5. [c EXCEPT !.ordinary = @ + 1] = With(parts, p + 1, q)
    <3>1. [c EXCEPT !.ordinary = @ + 1] = [c EXCEPT !.ordinary = p + 1]
      BY <2>1
    <3>2. p + 1 \in Nat
      OBVIOUS
    <3>3. [With(parts, p, q) EXCEPT !.ordinary = p + 1] = With(parts, p + 1, q)
      BY <3>2, WithOrdinary
    <3> QED
      BY <3>1, <3>3, <1>6
  <2>6. EstimateTokens(With(parts, p + 1, q)) = f + 15 * (p + 1) + 80 * q
    BY WithCounts DEF f
  <2>7. [c EXCEPT !.examples = @ + 1] = With(parts, p, q + 1)
    <3>1. [c EXCEPT !.examples = @ + 1] = [c EXCEPT !.examples = q + 1]
      BY <2>1
    <3>2. [With(parts, p, q) EXCEPT !.examples = q + 1] = With(parts, p, q + 1)
      BY WithExamples
    <3> QED
      BY <3>1, <3>2, <1>6
  <2>8. EstimateTokens(With(parts, p, q + 1)) = f + 15 * p + 80 * (q + 1)
    BY WithCounts DEF f
  <2>9. /\ [c EXCEPT !.ordinary = 0, !.examples = 0] = [parts EXCEPT !.ordinary = 0, !.examples = 0]
        /\ EstimateTokens([parts EXCEPT !.ordinary = 0, !.examples = 0]) <= budget
             => EstimateTokens(c) <= budget
        /\ c.ordinary < o => EstimateTokens([c EXCEPT !.ordinary = @ + 1]) > budget
        /\ c.examples < offered => EstimateTokens([c EXCEPT !.examples = @ + 1]) > budget
    <3>1. [c EXCEPT !.ordinary = 0, !.examples = 0] = [parts EXCEPT !.ordinary = 0, !.examples = 0]
      BY <2>2, <2>3
    <3>2. EstimateTokens([parts EXCEPT !.ordinary = 0, !.examples = 0]) <= budget
            => EstimateTokens(c) <= budget
      BY <1>6, <2>1, <2>2, <2>4
    <3>3. c.ordinary < o => EstimateTokens([c EXCEPT !.ordinary = @ + 1]) > budget
      BY <1>6, <2>1, <2>5, <2>6
    <3>4. c.examples < offered => EstimateTokens([c EXCEPT !.examples = @ + 1]) > budget
      BY <1>6, <2>1, <2>7, <2>8
    <3> QED
      BY <3>1, <3>2, <3>3, <3>4
  <2> QED
    BY <2>9 DEF TrimmedRight, c, o, offered
<1>7. CASE ~(EstimateTokens(c0) > budget)
  <2>1. c = With(parts, o, offered)
    BY <1>5, <1>7 DEF c0
  <2>2. f + 15 * o + 80 * offered <= budget
    BY <1>1, <1>3, <1>7
  <2> QED
    BY <1>1, <1>6, <2>1, <2>2
<1>8. CASE EstimateTokens(c0) > budget
  <2> DEFINE fit == {n \in 0..offered : EstimateTokens([c0 EXCEPT !.examples = n]) <= budget}
             q == IF fit = {} THEN 0 ELSE CHOOSE n \in fit : \A k \in fit : k <= n
             c1 == With(parts, o, q)
             rest == budget - (f + 80 * q)
             room == IF rest < 0 THEN 0 ELSE rest \div 15
             p == IF room < o THEN room ELSE o
  <2>1. \A n \in 0..offered : n \in fit <=> f + 15 * o + 80 * n <= budget
    <3> TAKE n \in 0..offered
    <3>1. n \in Nat
      BY <1>1
    <3>2. [c0 EXCEPT !.examples = n] = With(parts, o, n)
      BY <3>1, <1>1, WithExamples DEF c0
    <3>3. EstimateTokens(With(parts, o, n)) = f + 15 * o + 80 * n
      BY <3>1, <1>1, WithCounts DEF f
    <3> QED
      BY <3>2, <3>3
  <2>2. fit \subseteq 0..offered
    OBVIOUS
  <2> HIDE DEF fit
  <2>3. /\ q \in Nat /\ q <= offered
        /\ fit = {} => q = 0
        /\ fit # {} => q \in fit /\ \A k \in fit : k <= q
    <3>1. CASE fit = {}
      BY <3>1, <1>1
    <3>2. CASE fit # {}
      <4> DEFINE r == budget - (f + 15 * o)
                 best == IF offered < r \div 80 THEN offered ELSE r \div 80
      <4>1. PICK m \in 0..offered : m \in fit
        BY <3>2, <2>2
      <4>2. r \in Nat
        BY <4>1, <2>1, <1>1
      <4> HIDE DEF r
      <4>3. r \div 80 \in Nat /\ 80 * (r \div 80) <= r /\ r < 80 * (r \div 80) + 80
        BY <4>2
      <4>4. best \in 0..offered /\ 80 * best <= r
        BY <4>2, <4>3, <1>1
      <4>5. best \in fit
        <5>1. f + 15 * o + 80 * best <= budget
          BY <4>2, <4>4, <1>1 DEF r
        <5> QED
          BY <5>1, <4>4, <2>1
      <4>6. \A k \in fit : k <= best
        <5> TAKE k \in fit
        <5>1. k \in 0..offered /\ f + 15 * o + 80 * k <= budget
          BY <2>1, <2>2
        <5>2. 80 * k <= r
          BY <5>1, <4>2, <1>1 DEF r
        <5> QED
          BY <5>1, <5>2, <4>2, <4>3, <1>1
      <4> HIDE DEF best
      <4>7. q \in fit /\ \A k \in fit : k <= q
        BY <3>2, <4>5, <4>6
      <4>8. q \in 0..offered
        BY <4>7, <2>2
      <4> QED
        BY <4>7, <4>8, <3>2, <1>1
    <3> QED
      BY <3>1, <3>2
  <2>4. TrimExamples(c0, budget) = c1
    <3>1. TrimExamples(c0, budget) = [c0 EXCEPT !.examples = q]
      <4>1. \A n : n \in fit <=> n \in {k \in 0..c0.examples :
                                         EstimateTokens([c0 EXCEPT !.examples = k]) <= budget}
        BY <1>3 DEF fit
      <4>2. fit = {k \in 0..c0.examples : EstimateTokens([c0 EXCEPT !.examples = k]) <= budget}
        BY <4>1
      <4> QED
        BY <4>2 DEF TrimExamples
    <3> HIDE DEF q
    <3>2. [c0 EXCEPT !.examples = q] = With(parts, o, q)
      BY <2>3, <1>1, WithExamples DEF c0
    <3> QED
      BY <3>1, <3>2
  <2> HIDE DEF q
  <2>5. c1 \in Counts /\ c1.ordinary = o /\ c1.examples = q
    <3>1. c1 \in Counts
      BY <1>1, <2>3, WithCounts
    <3>2. c1.ordinary = o
      BY <1>1, <2>3, WithCounts
    <3>3. c1.examples = q
      BY <1>1, <2>3, WithCounts
    <3> QED
      BY <3>1, <3>2, <3>3
  <2>6. EstimateTokens([c1 EXCEPT !.ordinary = 0]) = f + 80 * q
    <3>1. c1 = With(parts, o, q) /\ parts \in Counts /\ o \in Nat /\ q \in Nat
      BY <2>3, <1>1 DEF c1
    <3> HIDE DEF c1
    <3>2. [With(parts, o, q) EXCEPT !.ordinary = 0] = With(parts, 0, q)
      BY <3>1, WithOrdinary
    <3>3. [c1 EXCEPT !.ordinary = 0] = With(parts, 0, q)
      BY <3>1, <3>2
    <3>4. EstimateTokens(With(parts, 0, q)) = f + 15 * 0 + 80 * q
      BY <2>3, WithCounts DEF f
    <3> QED
      BY <3>3, <3>4, <2>3, <1>1
  <2> HIDE DEF c1
  <2>7. TrimColumns(c1, budget) = [c1 EXCEPT !.ordinary = p]
    <3>1. TrimColumns(c1, budget) = [c1 EXCEPT !.ordinary = IF room < @ THEN room ELSE @]
      BY <2>6 DEF TrimColumns, Weight
    <3> HIDE DEF room
    <3> QED
      BY <3>1, <2>5
  <2>8. room \in Nat /\ p \in Nat /\ p <= o
    <3>1. rest \in Int
      BY <1>1, <2>3
    <3> HIDE DEF rest
    <3> QED
      BY <3>1, <1>1
  <2> HIDE DEF p
  <2>9. c = With(parts, p, q)
    <3>1. c = [c1 EXCEPT !.ordinary = p]
      BY <1>5, <1>8, <2>4, <2>7
    <3>2. [c1 EXCEPT !.ordinary = p] = With(parts, p, q)
      BY <2>3, <2>8, <1>1, WithOrdinary DEF c1
    <3> QED
      BY <3>1, <3>2
  <2>10. /\ room < o => p = room
         /\ ~(room < o) => p = o
    BY DEF p
  <2>11. rest \in Int /\ (rest < 0 => room = 0) /\ (rest >= 0 => 15 * room <= rest /\ rest < 15 * room + 15)
    <3>1. rest \in Int
      BY <1>1, <2>3
    <3> HIDE DEF rest
    <3> QED
      BY <3>1
  <2> HIDE DEF room
  <2>12. /\ fit # {} => f + 15 * o + 80 * q <= budget
         /\ q < offered => f + 15 * o + 80 * (q + 1) > budget
    <3>1. fit # {} => f + 15 * o + 80 * q <= budget
      BY <2>1, <2>2, <2>3
    <3>2. ASSUME q < offered
          PROVE  f + 15 * o + 80 * (q + 1) > budget
      <4>1. q + 1 \in 0..offered
        BY <3>2, <2>3, <1>1
      <4>2. q + 1 \notin fit
        BY <2>3
      <4>3. ~(f + 15 * o + 80 * (q + 1) <= budget)
        BY <4>1, <4>2, <2>1
      <4> QED
        BY <4>3, <2>3, <1>1
    <3> QED
      BY <3>1, <3>2
  <2>13. f <= budget => f + 15 * p + 80 * q <= budget
    <3>1. CASE fit = {}
      BY <3>1, <2>3, <2>8, <2>10, <2>11, <1>1
    <3>2. CASE fit # {}
      BY <3>2, <2>3, <2>8, <2>12, <1>1
    <3> QED
      BY <3>1, <3>2
  <2>14. p < o => q = 0 /\ f + 15 * (p + 1) > budget
    <3>1. CASE fit = {}
      BY <3>1, <2>3, <2>8, <2>10, <2>11, <1>1
    <3>2. CASE fit # {}
      BY <3>2, <2>3, <2>8, <2>10, <2>11, <2>12, <1>1
    <3> QED
      BY <3>1, <3>2
  <2>15. p < o => f + 15 * (p + 1) + 80 * q > budget
    BY <2>3, <2>8, <2>14, <1>1
  <2>16. q < offered => f + 15 * p + 80 * (q + 1) > budget
    <3>1. CASE p < o
      BY <3>1, <2>3, <2>8, <2>14, <1>1
    <3>2. CASE ~(p < o)
      BY <3>2, <2>3, <2>8, <2>12, <1>1
    <3> QED
      BY <3>1, <3>2
  <2> QED
    BY <1>6, <2>3, <2>8, <2>9, <2>13, <2>15, <2>16
<1> QED
  BY <1>7, <1>8

\* the arguments of the last call are ones that were offered
Arguments ==
  /\ request.op = "build" => request.parts \in Parts /\ request.budget \in Budgets
  /\ request.op = "route" => request.question \in Questions /\ request.now \in Days
  /\ request.op = "load" => request.active \in ActiveSets

(* A call keeps its arguments until it returns.                             *)
THEOREM ArgumentsInvariance == AnswerSpec => []Arguments
<1>1. AnswerInit => Arguments
  BY DEF AnswerInit, Arguments, None
<1>2. ASSUME Arguments, [AnswerNext]_allVars
      PROVE  Arguments'
  <2>1. CASE request' = request
    BY <2>1, <1>2 DEF Arguments
  <2>2. CASE Calls
    BY <2>1, <2>2 DEF Calls, Ask, RouteQuestion, Join, JoinLoaded, Build, Call, CallExamples, Arguments
  <2>3. CASE Return
    BY <2>3 DEF Return, None, Arguments
  <2> QED
    BY <1>2, <2>1, <2>2, <2>3
       DEF AnswerNext, Inspect, Reply, CallValue, Finish, allVars
<1> QED
  BY <1>1, <1>2, PTL DEF AnswerSpec

(* Contexts are trimmed no more than their budgets ask for, and searches    *)
(* keep theirs: see ContextTrimmed (generation/context.py,                  *)
(* search/retrieval.py).                                                    *)
THEOREM Budgeted == AnswerSpec => []ContextTrimmed
<1>1. SearchInv /\ Arguments => ContextTrimmed
  <2>1. MaxExamples \in Nat
    BY DEF MaxExamples
  <2>2. \A parts \in Parts : parts \in Counts
    BY PartsAssumption DEF Counts
  <2>3. \A parts \in Parts, budget \in Budgets : TrimmedRight(parts, MaxExamples, budget)
    BY <2>1, <2>2, Trimmed, PartsAssumption
  <2> QED
    BY <2>3 DEF ContextTrimmed, Arguments, SearchInv
<1> QED
  BY <1>1, SearchInvariance, ArgumentsInvariance, PTL
-----------------------------------------------------------------------------
(* The join graph                                                           *)

(* The graph of any metadata and that of any rows are graphs.               *)
LEMMA JoinsOk == GraphOk(Joins)
<1>1. PICK n \in Nat : n = Len(ForeignKeys) /\ DOMAIN ForeignKeys = 1..n
  BY JoinsAssumption
<1>2. PICK edges : edges = [i \in DOMAIN ForeignKeys |->
                     Relationship(ForeignKeys[i].table, ForeignKeys[i].ref, "many_to_one", "join")]
  OBVIOUS
<1>3. DOMAIN edges = 1..n
  BY <1>1, <1>2
<1>4. Joins = Graph(edges)
  BY <1>2 DEF Joins, GraphFromForeignKeys
<1> QED
  BY <1>3, <1>4, GraphsOk

LEMMA LoadedOk ==
  ASSUME NEW active \in ActiveSets
  PROVE  GraphOk(LoadFromRecords(Relations, active))
<1>1. active \in SUBSET (DOMAIN Relations)
  BY JoinsAssumption
<1>2. PICK edges : edges = Selection(Relations, active)
  OBVIOUS
<1>3. IsFiniteSet(active) /\ DOMAIN edges = 1..Cardinality(active)
  BY <1>1, <1>2, JoinsAssumption, Selections
<1>4. PICK n \in Nat : n = Cardinality(active)
  BY <1>3, FS_CardinalityType
<1>5. LoadFromRecords(Relations, active) = Graph(edges)
  BY <1>2 DEF LoadFromRecords
<1> QED
  BY <1>3, <1>4, <1>5, GraphsOk

(* Between any two tables exactly the shortest paths are found: see         *)
(* JoinsShortest (linking/join_graph.py).                                   *)
THEOREM JoinPathsShortest == AnswerSpec => []JoinsShortest
<1>1. Arguments => JoinsShortest
  <2>1. MaxDepth \in Nat
    BY DEF MaxDepth
  <2>2. FindsShortest(Joins, request.source, request.target, MaxDepth)
    BY <2>1, JoinsOk, PathsShortest
  <2>3. ASSUME Arguments, request.op = "load"
        PROVE  FindsShortest(LoadFromRecords(Relations, request.active),
                             request.source, request.target, MaxDepth)
    <3>1. request.active \in ActiveSets
      BY <2>3 DEF Arguments
    <3>2. PICK g : g = LoadFromRecords(Relations, request.active)
      OBVIOUS
    <3>3. GraphOk(g)
      BY <3>1, <3>2, LoadedOk
    <3>4. FindsShortest(g, request.source, request.target, MaxDepth)
      BY <2>1, <3>3, PathsShortest
    <3> QED
      BY <3>2, <3>4
  <2> QED
    BY <2>2, <2>3 DEF JoinsShortest
<1> QED
  BY <1>1, ArgumentsInvariance, PTL

\* an inspected question has tables of different names, and their completion
InspectedOk ==
  reply.op = "inspected" =>
    /\ \E X : reply.selected \in Seq(X)
    /\ \A i, j \in 1..Len(reply.selected) : reply.selected[i] = reply.selected[j] => i = j
    /\ reply.joins = CompleteSchema(Joins, reply.selected, Facts)

(* Documents that are different have names that are, full or not.           *)
LEMMA NamesApart ==
  ASSUME NEW c \in Item, NEW d \in Item, TableName(c) = TableName(d)
  PROVE  c.doc = d.doc
<1>1. /\ c.doc \in Tables \cup Columns \cup Examples
      /\ d.doc \in Tables \cup Columns \cup Examples
  BY DEF Item, Doc
<1>2. /\ TableId(c.doc) # d.doc /\ TableId(d.doc) # c.doc
      /\ TableId(c.doc) = TableId(d.doc) => c.doc = d.doc
  BY <1>1, IdsAssumption
<1> QED
  BY <1>2 DEF TableName

LEMMA ReplyStep ==
  ASSUME SearchInv, NEW linker, Reply(linker)
  PROVE  InspectedOk'
<1>1. PICK tables : tables = context.tables
  OBVIOUS
<1>2. tables \in Seq(Item) /\ \A i, j \in DOMAIN tables : tables[i].doc = tables[j].doc => i = j
  BY <1>1 DEF SearchInv, WellFormed, Candidates
<1>3. PICK n \in Nat : n = Len(tables) /\ DOMAIN tables = 1..n
  BY <1>2
<1>4. PICK selected : selected = [i \in DOMAIN tables |-> TableName(tables[i])]
  OBVIOUS
<1>5. PICK X : X = {selected[i] : i \in 1..n}
  OBVIOUS
<1>6. selected \in Seq(X) /\ Len(selected) = n
  BY <1>3, <1>4, <1>5
<1>7. ASSUME NEW i \in 1..n, NEW j \in 1..n, selected[i] = selected[j]
      PROVE  i = j
  <2>1. tables[i] \in Item /\ tables[j] \in Item
    BY <1>2, <1>3
  <2>2. tables[i].doc = tables[j].doc
    BY <1>3, <1>4, <1>7, <2>1, NamesApart
  <2> QED
    BY <1>2, <1>3, <2>2
<1>8. reply'.selected = selected /\ reply'.joins = CompleteSchema(Joins, selected, Facts)
  BY <1>1, <1>4 DEF Reply
<1> QED
  BY <1>6, <1>7, <1>8 DEF InspectedOk

(* What the workbench answers is the completion of what it found.           *)
THEOREM InspectedInvariance == AnswerSpec => []InspectedOk
<1>1. AnswerInit => InspectedOk
  BY DEF AnswerInit, InspectedOk, None
<1>2. ASSUME SearchInv, InspectedOk, [AnswerNext]_allVars
      PROVE  InspectedOk'
  <2>1. CASE reply' = reply
    BY <1>2, <2>1 DEF InspectedOk
  <2>2. CASE \E linker \in {"schema", "semantic"} : Reply(linker)
    BY <1>2, <2>2, ReplyStep
  <2>3. CASE Return
    BY <2>3 DEF Return, None, InspectedOk
  <2>4. CASE Calls
    BY <2>1, <2>4 DEF Calls, Ask, RouteQuestion, Join, JoinLoaded, Build, Call, CallExamples
  <2> QED
    BY <1>2, <2>1, <2>2, <2>3, <2>4
       DEF AnswerNext, Inspect, CallValue, Finish, allVars
<1> QED
  BY <1>1, <1>2, SearchInvariance, PTL DEF AnswerSpec

(* The completed tables hang together: see CompletionJoined                 *)
(* (linking/join_graph.py, api/retrieval_workbench.py).                     *)
THEOREM CompletionsJoined == AnswerSpec => []CompletionJoined
<1>1. ASSUME NEW s, NEW t PROVE CompletionJoins(Joins, <<s, t>>, Facts)
  <2>1. PICK pair : pair = <<s, t>>
    OBVIOUS
  <2>2. pair \in Seq({s, t}) /\ pair # <<>>
    BY <2>1
  <2> QED
    BY <2>1, <2>2, JoinsOk, CompletionOk
<1>2. ASSUME InspectedOk, reply.op = "inspected", Len(reply.selected) > 1
      PROVE  /\ CompletionJoins(Joins, reply.selected, Facts)
             /\ ~reply.joins.clarify =>
                  \A i \in DOMAIN reply.selected : reply.selected[i] \in DOMAIN Joins.out
  <2>1. PICK selected : selected = reply.selected
    OBVIOUS
  <2>2. PICK X : selected \in Seq(X)
    BY <1>2, <2>1 DEF InspectedOk
  <2>3. selected # <<>> /\ Len(selected) > 1
    BY <1>2, <2>1
  <2>4. CompletionJoins(Joins, selected, Facts)
    BY <2>2, <2>3, JoinsOk, CompletionOk
  <2>5. \A i, j \in 1..Len(selected) : selected[i] = selected[j] => i = j
    BY <1>2, <2>1 DEF InspectedOk
  <2>6. reply.joins = CompleteSchema(Joins, selected, Facts)
    BY <1>2, <2>1 DEF InspectedOk
  <2>7. DOMAIN selected = 1..Len(selected)
    BY <2>2
  <2>8. ~reply.joins.clarify => \A i \in 1..Len(selected) : selected[i] \in DOMAIN Joins.out
    BY <2>2, <2>3, <2>5, <2>6, JoinsOk, CompletionKnown
  <2> QED
    BY <2>1, <2>4, <2>7, <2>8
<1>3. InspectedOk => CompletionJoined
  BY <1>1, <1>2 DEF CompletionJoined
<1> QED
  BY <1>3, InspectedInvariance, PTL
-----------------------------------------------------------------------------
(* The two linkers                                                          *)

(* A mention that the router has no metric for is one the schema linker has *)
(* none for either: its map is the router's.                                *)
LEMMA UnknownUnlinked ==
  ASSUME NEW words, NEW m \in ExtractMetrics(words), m.metric = "none"
  PROVE  LinkMetric(m) = {}
<1>1. \A w \in DOMAIN KnownMetrics : KnownMetrics[w] # "none"
  BY DEF KnownMetrics
<1>2. \A w \in AmbiguousMetrics : w \notin DOMAIN KnownMetrics
  BY DEF KnownMetrics, AmbiguousMetrics
<1>3. CASE \E w \in words \cap DOMAIN KnownMetrics : m = [text |-> w, metric |-> KnownMetrics[w]]
  BY <1>1, <1>3
<1>4. CASE \E w \in words \cap AmbiguousMetrics : m = [text |-> w, metric |-> "none"]
  <2>1. m.text \notin DOMAIN KnownMetrics
    BY <1>2, <1>4
  <2> QED
    BY <2>1 DEF LinkMetric, DefaultMetricMap
<1> QED
  BY <1>3, <1>4 DEF ExtractMetrics

LEMMA OneCandidate ==
  ASSUME NEW text, NEW candidate, NEW confidence
  PROVE  /\ Link(text, {candidate}, confidence).text = text
         /\ ~Link(text, {candidate}, confidence).ask
<1> DEFINE one == {candidate}
<1>1. Cardinality(one) = 1
  BY FS_Singleton
<1> HIDE DEF one
<1>2. Link(text, one, confidence).text = text
  BY DEF Link
<1>3. Link(text, one, confidence).ask <=> Cardinality(one) > 1
  BY Zenon DEF Link
<1>4. ~(Cardinality(one) > 1)
  BY <1>1
<1> QED
  BY <1>2, <1>3, <1>4, Zenon DEF one

(* By name both find the same candidates, whatever they make of them.       *)
LEMMA NamedAlike ==
  ASSUME NEW text, NEW docs, NEW names, NEW a, NEW b, NEW c, NEW d,
         NEW l \in LinkByName(text, docs, names, a, b)
  PROVE  \E k \in LinkByName(text, docs, names, c, d) : k.text = l.text /\ k.ask = l.ask
<1> DEFINE named == {e \in docs : text \in names[e]}
           k == Link(text, named, IF Cardinality(named) = 1 THEN c ELSE d)
<1>1. named # {} /\ l = Link(text, named, IF Cardinality(named) = 1 THEN a ELSE b)
  BY DEF LinkByName
<1>2. k \in LinkByName(text, docs, names, c, d)
  BY <1>1 DEF LinkByName
<1>3. k.text = l.text /\ k.ask = l.ask
  <2> HIDE DEF named
  <2> QED
    BY <1>1 DEF Link
<1> QED
  BY <1>2, <1>3

(* The semantic linker finds what the schema linker finds: see LinksMore.   *)
LEMMA FallsBack ==
  ASSUME NEW words, NEW intent, intent.metrics = ExtractMetrics(words), NEW tables, NEW columns,
         NEW names, NEW registry, NEW synonyms, NEW glossary
  PROVE  LinksMore(SchemaLink(intent, tables, columns, names),
                   SemanticLink(words, intent, tables, columns, names, registry, synonyms, glossary),
                   words)
<1> DEFINE LinkOf(m) == LinkMetricV3(m, intent.primary, registry, glossary)
           Dimension(d) == LinkByName(d, tables, names, 85, 50)
           DimensionV3(d) == LinkDimensionV3(d, synonyms, tables, names)
           Filter(f) == LinkByName(f.concept, columns, names, 85, 50)
           FilterV3(f) == LinkFilterV3(f, glossary, columns, names)
           schema == SchemaLink(intent, tables, columns, names)
           semantic == SemanticLink(words, intent, tables, columns, names, registry, synonyms, glossary)
<1>1. /\ \A l : l \in schema.links <=> \/ \E m \in intent.metrics : l \in LinkMetric(m)
                                       \/ \E d \in intent.dimensions : l \in Dimension(d)
                                       \/ \E f \in intent.filters : l \in Filter(f)
      /\ schema.unlinked = {m.text : m \in {n \in intent.metrics : LinkMetric(n) = {}}}
      /\ schema.unlinked # {} => schema.clarify
      /\ (\E l \in schema.links : l.ask) => schema.clarify
  <2>1. schema.links = (UNION {LinkMetric(m) : m \in intent.metrics})
                        \cup (UNION {Dimension(d) : d \in intent.dimensions})
                        \cup (UNION {Filter(f) : f \in intent.filters})
    BY DEF SchemaLink, LinkResult
  <2>2. /\ schema.unlinked = {m.text : m \in {n \in intent.metrics : LinkMetric(n) = {}}}
        /\ schema.unlinked # {} => schema.clarify
        /\ (\E l \in schema.links : l.ask) => schema.clarify
    BY DEF SchemaLink, LinkResult
  <2> HIDE DEF schema, Dimension, Filter
  <2>3. ASSUME NEW l
        PROVE  l \in schema.links <=> (((\E m \in intent.metrics : l \in LinkMetric(m))
                 \/ (\E d \in intent.dimensions : l \in Dimension(d)))
                   \/ (\E f \in intent.filters : l \in Filter(f)))
    BY <2>1, Zenon
  <2> QED
    BY <2>2, <2>3, Zenon
<1>2. /\ \A l : l \in semantic.links <=> \/ \E m \in intent.metrics : l \in LinkOf(m)
                                         \/ \E d \in intent.dimensions : l \in DimensionV3(d)
                                         \/ \E f \in intent.filters : l \in FilterV3(f)
      /\ semantic.unlinked = {m.text : m \in {n \in intent.metrics : LinkOf(n) = {}}}
      /\ semantic.clarify => \/ semantic.unlinked # {}
                             \/ FiscalYearConflict(words) # {}
                             \/ \E l \in semantic.links : l.ask
  <2>1. semantic.links = (UNION {LinkOf(m) : m \in intent.metrics})
                          \cup (UNION {DimensionV3(d) : d \in intent.dimensions})
                          \cup (UNION {FilterV3(f) : f \in intent.filters})
    BY DEF SemanticLink, LinkResult
  <2>2. /\ semantic.unlinked = {m.text : m \in {n \in intent.metrics : LinkOf(n) = {}}}
        /\ semantic.clarify => \/ semantic.unlinked # {}
                               \/ FiscalYearConflict(words) # {}
                               \/ \E l \in semantic.links : l.ask
    BY DEF SemanticLink, LinkResult
  <2> HIDE DEF semantic, LinkOf, DimensionV3, FilterV3
  <2>3. ASSUME NEW l
        PROVE  l \in semantic.links <=> (((\E m \in intent.metrics : l \in LinkOf(m))
                 \/ (\E d \in intent.dimensions : l \in DimensionV3(d)))
                   \/ (\E f \in intent.filters : l \in FilterV3(f)))
    BY <2>1, Zenon
  <2> QED
    BY <2>2, <2>3, Zenon
<1> HIDE DEF schema, semantic
<1>3. ASSUME NEW m \in intent.metrics, m.metric # "none"
      PROVE  /\ LinkMetric(m) = {Link(m.text, {m.metric}, 95)}
             /\ LinkOf(m) = {Link(m.text, {m.metric}, 97)}
  BY <1>3 DEF LinkMetric, LinkMetricV3
<1>4. ASSUME NEW m \in intent.metrics, m.metric = "none"
      PROVE  LinkMetric(m) = {}
  BY <1>4, UnknownUnlinked
<1> HIDE DEF LinkOf
<1>5. ASSUME NEW l \in schema.links
      PROVE  \E k \in semantic.links : k.text = l.text
  <2>1. CASE \E m \in intent.metrics : l \in LinkMetric(m)
    <3>1. PICK m \in intent.metrics : l \in LinkMetric(m)
      BY <2>1
    <3>2. m.metric # "none"
      BY <3>1, <1>4
    <3>3. l = Link(m.text, {m.metric}, 95)
      BY <3>1, <3>2, <1>3
    <3>4. l.text = m.text
      BY <3>3, OneCandidate, ZenonT(60)
    <3> DEFINE k == Link(m.text, {m.metric}, 97)
    <3>6. k.text = m.text
      <4>1. Link(m.text, {m.metric}, 97).text = m.text
        BY OneCandidate, ZenonT(60)
      <4> QED
        BY <4>1
    <3>5. k \in semantic.links
      <4>1. k \in LinkOf(m)
        BY <3>2, <1>3
      <4> HIDE DEF k
      <4> QED
        BY <4>1, <1>2
    <3> QED
      BY <3>4, <3>5, <3>6
  <2>2. CASE \E d \in intent.dimensions : l \in Dimension(d)
    <3>1. PICK d \in intent.dimensions : l \in Dimension(d)
      BY <2>2
    <3>2. l.text = d
      BY <3>1 DEF LinkByName, Link
    <3>3. CASE d \in DOMAIN synonyms
      <4> DEFINE k == Link(d, {synonyms[d]}, 90)
      <4>1. k \in DimensionV3(d)
        BY <3>3 DEF LinkDimensionV3
      <4>2. k.text = d
        BY OneCandidate, ZenonT(60)
      <4> HIDE DEF k, DimensionV3
      <4>3. k \in semantic.links
        BY <4>1, <1>2
      <4> QED
        BY <4>2, <4>3, <3>2
    <3>4. CASE d \notin DOMAIN synonyms
      <4>1. DimensionV3(d) = LinkByName(d, tables, names, 82, 45)
        BY <3>4 DEF LinkDimensionV3
      <4>2. PICK k \in DimensionV3(d) : k.text = l.text
        BY <3>1, <4>1, NamedAlike
      <4> HIDE DEF DimensionV3
      <4>3. k \in semantic.links
        BY <1>2
      <4> QED
        BY <4>2, <4>3
    <3> QED
      BY <3>3, <3>4
  <2>3. CASE \E f \in intent.filters : l \in Filter(f)
    <3>1. PICK f \in intent.filters : l \in Filter(f)
      BY <2>3
    <3>2. PICK k \in LinkByName(f.concept, columns, names, 85, 48) : k.text = l.text
      BY <3>1, NamedAlike
    <3>3. k \in FilterV3(f)
      BY DEF LinkFilterV3
    <3> HIDE DEF FilterV3
    <3>4. k \in semantic.links
      BY <3>3, <1>2
    <3> QED
      BY <3>2, <3>4
  <2> HIDE DEF Dimension, Filter
  <2> QED
    BY <2>1, <2>2, <2>3, <1>1
<1>6. semantic.unlinked \subseteq schema.unlinked
  <2>1. ASSUME NEW m \in intent.metrics, LinkOf(m) = {}
        PROVE  LinkMetric(m) = {}
    <3>1. m.metric = "none"
      BY <2>1, <1>3
    <3> QED
      BY <3>1, <1>4
  <2> QED
    BY <2>1, <1>1, <1>2
<1>7. ASSUME NEW m \in intent.metrics, m.metric = "none"
      PROVE  schema.clarify
  <2>1. m.text \in schema.unlinked
    BY <1>7, <1>4, <1>1
  <2> QED
    BY <2>1, <1>1
<1>8. ASSUME NEW l \in semantic.links, l.ask
      PROVE  schema.clarify
  <2>1. CASE \E m \in intent.metrics : l \in LinkOf(m)
    <3>1. PICK m \in intent.metrics : l \in LinkOf(m)
      BY <2>1
    <3>2. m.metric = "none"
      <4>1. ~Link(m.text, {m.metric}, 97).ask
        BY OneCandidate, ZenonT(60)
      <4>2. m.metric # "none" => l = Link(m.text, {m.metric}, 97)
        BY <3>1, <1>3, ZenonT(60)
      <4> QED
        BY <4>1, <4>2, <1>8, Zenon
    <3> QED
      BY <3>2, <1>7
  <2>2. CASE \E d \in intent.dimensions : l \in DimensionV3(d)
    <3>1. PICK d \in intent.dimensions : l \in DimensionV3(d)
      BY <2>2
    <3>2. d \notin DOMAIN synonyms
      <4>1. ~Link(d, {synonyms[d]}, 90).ask
        BY OneCandidate, ZenonT(60)
      <4>2. d \in DOMAIN synonyms => l = Link(d, {synonyms[d]}, 90)
        BY <3>1 DEF LinkDimensionV3
      <4> QED
        BY <4>1, <4>2, <1>8, Zenon
    <3>3. l \in LinkByName(d, tables, names, 82, 45)
      BY <3>1, <3>2 DEF LinkDimensionV3
    <3>4. PICK k \in Dimension(d) : k.ask = l.ask
      BY <3>3, NamedAlike
    <3> HIDE DEF Dimension
    <3>5. k \in schema.links
      BY <1>1
    <3> QED
      BY <3>4, <3>5, <1>1, <1>8
  <2>3. CASE \E f \in intent.filters : l \in FilterV3(f)
    <3>1. PICK f \in intent.filters : l \in FilterV3(f)
      BY <2>3
    <3>2. l \in LinkByName(f.concept, columns, names, 85, 48)
      <4>1. ~Link(f.value, {glossary.values[f.value]}, 92).ask
        BY OneCandidate, ZenonT(60)
      <4>2. \/ l = Link(f.value, {glossary.values[f.value]}, 92)
            \/ l \in LinkByName(f.concept, columns, names, 85, 48)
        BY <3>1 DEF LinkFilterV3
      <4> QED
        BY <4>1, <4>2, <1>8, Zenon
    <3>3. PICK k \in Filter(f) : k.ask = l.ask
      BY <3>2, NamedAlike
    <3> HIDE DEF Filter
    <3>4. k \in schema.links
      BY <1>1
    <3> QED
      BY <3>3, <3>4, <1>1, <1>8
  <2> HIDE DEF DimensionV3, FilterV3
  <2> QED
    BY <2>1, <2>2, <2>3, <1>2
<1>9. semantic.clarify => schema.clarify \/ FiscalYearConflict(words) # {}
  <2>1. semantic.unlinked # {} => schema.clarify
    BY <1>1, <1>6
  <2> QED
    BY <2>1, <1>2, <1>8
<1>10. {l.text : l \in schema.links} \subseteq {l.text : l \in semantic.links}
  BY <1>5
<1>11. LinksMore(schema, semantic, words)
  BY <1>6, <1>9, <1>10 DEF LinksMore
<1> QED
  BY <1>11 DEF schema, semantic

(* The semantic linker replaces the schema linker without losing a link:    *)
(* see SemanticLinksMore (linking/semantic_linker.py).                      *)
THEOREM SemanticLinkerComplete == AnswerSpec => []SemanticLinksMore
<1>1. SemanticLinksMore
  <2> DEFINE intent == Route(request.question, request.now)
             words == request.question.words
  <2>1. intent.metrics = ExtractMetrics(words)
    BY DEF Route
  <2> HIDE DEF intent, words
  <2>2. LinksMore(SchemaLink(intent, NamedTables(context.tables), context.columns, NamesOf),
                  SemanticLink(words, intent, NamedTables(context.tables), context.columns,
                               NamesOf, Registry, Synonyms, GlossaryTerms),
                  words)
    BY <2>1, FallsBack
  <2> QED
    BY <2>2 DEF SemanticLinksMore, Links, intent, words
<1> QED
  BY <1>1, PTL
-----------------------------------------------------------------------------
(* The time ranges                                                          *)

LEMMA YearDays ==
  ASSUME NEW y \in Int
  PROVE  /\ DaysBeforeYear(y) \in Int
         /\ DaysBeforeYear(y + 1) = DaysBeforeYear(y) + 365 + (IF IsLeap(y) THEN 1 ELSE 0)
<1> QED
  BY DEF DaysBeforeYear, IsLeap

LEMMA YearsGrow ==
  ASSUME NEW a \in Int, NEW b \in Int, a < b
  PROVE  DaysBeforeYear(a) + 365 <= DaysBeforeYear(b)
<1> QED
  BY DEF DaysBeforeYear

LEMMA MonthSizes ==
  ASSUME NEW y \in Int, NEW m \in 1..12
  PROVE  /\ MonthDays(y, m) \in 28..31
         /\ DaysBeforeMonth(y, m) \in 0..335
         /\ m < 12 => DaysBeforeMonth(y, m + 1) = DaysBeforeMonth(y, m) + MonthDays(y, m)
         /\ DaysBeforeMonth(y, 1) = 0
         /\ DaysBeforeMonth(y, 12) + 31 = 365 + (IF IsLeap(y) THEN 1 ELSE 0)
<1> QED
  BY DEF MonthDays, DaysBeforeMonth

LEMMA MonthOf ==
  ASSUME NEW y \in Int, NEW r \in 1..(365 + (IF IsLeap(y) THEN 1 ELSE 0))
  PROVE  \E m \in 1..12 : r - DaysBeforeMonth(y, m) \in 1..MonthDays(y, m)
<1> QED
  BY DEF MonthDays, DaysBeforeMonth

LEMMA YearOf ==
  ASSUME NEW n \in Nat \ {0}
  PROVE  \E y \in (n \div 366)..(n \div 365 + 1) :
           DaysBeforeYear(y) < n /\ n <= DaysBeforeYear(y + 1)
<1> DEFINE S == {k \in 1..n : n <= DaysBeforeYear(k + 1)}
<1>1. n \in S
  BY DEF DaysBeforeYear
<1>2. PICK y \in S : \A k \in S : y <= k
  <2> HIDE DEF S
  <2>1. S \in SUBSET (1..n)
    BY DEF S
  <2> QED
    BY <1>1, <2>1, LeastOf
<1>3. y \in 1..n /\ n <= DaysBeforeYear(y + 1)
  BY <1>2
<1>4. DaysBeforeYear(y) < n
  <2>1. CASE y = 1
    BY <2>1 DEF DaysBeforeYear
  <2>2. CASE y # 1
    <3>1. y - 1 \in 1..n /\ y - 1 \notin S
      BY <1>2, <1>3, <2>2
    <3>2. DaysBeforeYear(y) \in Int /\ (y - 1) + 1 = y
      BY <1>3, YearDays
    <3> QED
      BY <3>1, <3>2
  <2> QED
    BY <2>1, <2>2
<1>5. y \in (n \div 366)..(n \div 365 + 1)
  BY <1>3, <1>4 DEF DaysBeforeYear
<1> QED
  BY <1>3, <1>4, <1>5

\* a date of a calendar without a first or last year
Day(d) == d \in Int \X (1..12) \X (1..31) /\ d[3] \in 1..MonthDays(d[1], d[2])

LEMMA NumberOfDay ==
  ASSUME NEW d, Day(d)
  PROVE  /\ DayNumber(d) \in Int
         /\ DaysBeforeYear(d[1]) < DayNumber(d)
         /\ DayNumber(d) <= DaysBeforeYear(d[1] + 1)
<1>1. d[1] \in Int /\ d[2] \in 1..12 /\ d[3] \in 1..MonthDays(d[1], d[2])
  BY DEF Day
<1> DEFINE y == d[1]
           m == d[2]
<1> HIDE DEF y, m
<1>2. y \in Int /\ m \in 1..12 /\ d[3] \in 1..MonthDays(y, m)
  BY <1>1 DEF y, m
<1>3. MonthDays(y, m) \in 28..31 /\ DaysBeforeMonth(y, m) \in 0..335
  BY <1>2, MonthSizes, ZenonT(60)
<1>4. DaysBeforeMonth(y, m) + MonthDays(y, m) <= 365 + (IF IsLeap(y) THEN 1 ELSE 0)
  BY <1>2 DEF DaysBeforeMonth, MonthDays
<1>5. DaysBeforeYear(y) \in Int /\ DaysBeforeYear(y + 1) = DaysBeforeYear(y) + 365 + (IF IsLeap(y) THEN 1 ELSE 0)
  BY <1>2, YearDays
<1>6. DayNumber(d) = DaysBeforeYear(y) + DaysBeforeMonth(y, m) + d[3]
  BY DEF DayNumber, y, m
<1> QED
  BY <1>2, <1>3, <1>4, <1>5, <1>6, SMTT(30) DEF y

LEMMA DayOfNumber ==
  ASSUME NEW n \in Nat \ {0}
  PROVE  /\ Day(DayOf(n)) /\ DayNumber(DayOf(n)) = n
         /\ DayOf(n)[1] >= 1
<1> DEFINE Y(k) == DaysBeforeYear(k) < n /\ n <= DaysBeforeYear(k + 1)
           y == CHOOSE k \in (n \div 366)..(n \div 365 + 1) : Y(k)
           M(k) == n - DaysBeforeYear(y) - DaysBeforeMonth(y, k) \in 1..MonthDays(y, k)
           m == CHOOSE k \in 1..12 : M(k)
           o == n - DaysBeforeYear(y) - DaysBeforeMonth(y, m)
<1>1. y \in (n \div 366)..(n \div 365 + 1) /\ Y(y)
  BY YearOf, ZenonT(60)
<1>2. y \in Int
  BY <1>1
<1>3. m \in 1..12 /\ M(m)
  <2> HIDE DEF y
  <2>1. n - DaysBeforeYear(y) \in 1..(365 + (IF IsLeap(y) THEN 1 ELSE 0))
    BY <1>1, <1>2, YearDays
  <2>2. \E k \in 1..12 : M(k)
    BY <2>1, <1>2, MonthOf
  <2> QED
    BY <2>2
<1>4. DayOf(n) = <<y, m, o>>
  BY DEF DayOf
<1> HIDE DEF y, m
<1>5. o \in 1..MonthDays(y, m) /\ MonthDays(y, m) \in 28..31
  BY <1>2, <1>3, MonthSizes
<1>6. DaysBeforeYear(y) \in Int /\ DaysBeforeMonth(y, m) \in Int
  <2>1. DaysBeforeYear(y) \in Int
    BY <1>2, YearDays
  <2>2. DaysBeforeMonth(y, m) \in 0..335
    BY <1>2, <1>3, MonthSizes
  <2> QED
    BY <2>1, <2>2
<1>7. DayNumber(<<y, m, o>>) = n
  BY <1>6 DEF DayNumber
<1>8. Day(<<y, m, o>>)
  BY <1>2, <1>3, <1>5 DEF Day
<1>9. y >= 1
  BY <1>1, <1>2 DEF DaysBeforeYear
<1> QED
  BY <1>4, <1>7, <1>8, <1>9

\* some months of one year
Span(y, a, b) == y \in 1..9999 /\ a \in 1..12 /\ b \in 1..12 /\ a <= b

LEMMA MonthsRange ==
  ASSUME NEW y, NEW a, NEW b, Span(y, a, b)
  PROVE  /\ Months(y, a, b) = [start |-> <<y, a, 1>>, end |-> <<y, b, MonthDays(y, b)>>, against |-> <<>>]
         /\ DayNumber(<<y, a, 1>>) <= DayNumber(<<y, b, MonthDays(y, b)>>)
         /\ b < 12 => DayNumber(<<y, b, MonthDays(y, b)>>) + 1 = DayNumber(<<y, b + 1, 1>>)
         /\ b = 12 => DayNumber(<<y, b, MonthDays(y, b)>>) + 1 = DayNumber(<<y + 1, 1, 1>>)
         /\ IsDate(<<y, a, 1>>) /\ IsDate(<<y, b, MonthDays(y, b)>>)
<1> DEFINE start == <<y, a, 1>>
           end == <<y, b, MonthDays(y, b)>>
<1>0. y \in 1..9999 /\ y \in Int /\ a \in 1..12 /\ b \in 1..12 /\ a <= b
  BY DEF Span
<1>1. Months(y, a, b) = [start |-> start, end |-> end, against |-> <<>>]
  BY DEF Months, Dates
<1>2. /\ MonthDays(y, a) \in 28..31 /\ MonthDays(y, b) \in 28..31
  BY <1>0, MonthSizes
<1>3. DaysBeforeYear(y) \in Int /\ DaysBeforeYear(y + 1) = DaysBeforeYear(y) + 365 + (IF IsLeap(y) THEN 1 ELSE 0)
  BY <1>0, YearDays
<1>4. DayNumber(start) = DaysBeforeYear(y) + DaysBeforeMonth(y, a) + 1
  BY DEF DayNumber
<1>5. DayNumber(end) = DaysBeforeYear(y) + DaysBeforeMonth(y, b) + MonthDays(y, b)
  BY DEF DayNumber
<1>6. DaysBeforeMonth(y, a) \in 0..335 /\ DaysBeforeMonth(y, b) \in 0..335
  <2>1. DaysBeforeMonth(y, a) \in 0..335
    BY <1>0 DEF DaysBeforeMonth
  <2>2. DaysBeforeMonth(y, b) \in 0..335
    BY <1>0 DEF DaysBeforeMonth
  <2> QED
    BY <2>1, <2>2
<1>7. DaysBeforeMonth(y, a) <= DaysBeforeMonth(y, b)
  BY <1>0 DEF DaysBeforeMonth
<1>8. DayNumber(start) <= DayNumber(end)
  <2> HIDE DEF start, end
  <2> DEFINE base == DaysBeforeYear(y)
             from == DaysBeforeMonth(y, a)
             to == DaysBeforeMonth(y, b)
             length == MonthDays(y, b)
  <2>1. base \in Int
    BY <1>3
  <2>2. from \in Int /\ to \in Int /\ from <= to
    BY <1>6, <1>7
  <2>3. length \in Int /\ 1 <= length
    BY <1>2
  <2>4. DayNumber(start) = base + from + 1 /\ DayNumber(end) = base + to + length
    BY <1>4, <1>5
  <2> HIDE DEF base, from, to, length
  <2> QED
    BY <2>1, <2>2, <2>3, <2>4
<1>9. ASSUME b < 12 PROVE DayNumber(end) + 1 = DayNumber(<<y, b + 1, 1>>)
  <2>1. DaysBeforeMonth(y, b + 1) = DaysBeforeMonth(y, b) + MonthDays(y, b)
    BY <1>0, <1>9, MonthSizes
  <2>2. DayNumber(<<y, b + 1, 1>>) = DaysBeforeYear(y) + DaysBeforeMonth(y, b + 1) + 1
    BY DEF DayNumber
  <2> QED
    BY <2>1, <2>2, <1>2, <1>3, <1>5, <1>6
<1>10. ASSUME b = 12 PROVE DayNumber(end) + 1 = DayNumber(<<y + 1, 1, 1>>)
  <2>1. MonthDays(y, 12) = 31
    BY DEF MonthDays
  <2>2. DaysBeforeMonth(y, 12) + 31 = 365 + (IF IsLeap(y) THEN 1 ELSE 0)
    BY <1>0, MonthSizes
  <2>3. DaysBeforeMonth(y + 1, 1) = 0
    BY <1>0, MonthSizes
  <2>4. DayNumber(<<y + 1, 1, 1>>) = DaysBeforeYear(y + 1) + DaysBeforeMonth(y + 1, 1) + 1
    BY DEF DayNumber
  <2>5. DayNumber(<<y, 12, 31>>) = DaysBeforeYear(y) + DaysBeforeMonth(y, 12) + 31
    BY DEF DayNumber
  <2>6. DaysBeforeMonth(y, 12) \in 0..335
    BY <1>0, MonthSizes, SMTT(30)
  <2>7. DayNumber(<<y, 12, 31>>) + 1 = DayNumber(<<y + 1, 1, 1>>)
    BY <2>2, <2>3, <2>4, <2>5, <2>6, <1>3
  <2> QED
    BY <1>10, <2>1, <2>7
<1>11. IsDate(start) /\ IsDate(end)
  BY <1>0, <1>2 DEF IsDate
<1> QED
  BY <1>1, <1>8, <1>9, <1>10, <1>11

\* the range of the rule that applies, and what that says of the question
LEMMA FirstRule ==
  ASSUME NEW q, NEW now
  PROVE  LET r == ParseTimeRange(q, now)
             p == q.words \cap PeriodWords
             y == now[1]
             m == now[2]
             k == (m - 1) \div 3
             Other(word, range, other) == IF word \in q.words THEN [range EXCEPT !.against = other] ELSE range
         IN \/ r = NoRange /\ p = {} /\ q.days = NoDays
            \/ "first_half" \in p /\ r = Months(ExtractYear(q, y), 1, 6)
            \/ "second_half" \in p /\ r = Months(ExtractYear(q, y), 7, 12)
            \/ "this_year" \in p /\ r = Other("yoy", Months(y, 1, 12), YoyRange(Months(y, 1, 12)))
            \/ "last_year" \in p /\ r = Months(y - 1, 1, 12)
            \/ "this_month" \in p /\ r = Other("mom", Months(y, m, m), MomRange(Months(y, m, m)))
            \/ "last_month" \in p /\ r = IF m = 1 THEN Months(y - 1, 12, 12) ELSE Months(y, m - 1, m - 1)
            \/ "this_quarter" \in p /\ r = Months(y, 3 * k + 1, 3 * k + 3)
            \/ "last_quarter" \in p
                 /\ r = IF k = 0 THEN Months(y - 1, 10, 12) ELSE Months(y, 3 * (k - 1) + 1, 3 * (k - 1) + 3)
            \/ p = {} /\ q.days # NoDays /\ r = Dates(DaysBefore(now, q.days - 1), now)
            \/ p = {} /\ q.days = NoDays /\ q.year \in 2000..(y + 1) /\ r = Months(q.year, 1, 12)
            \/ p = {} /\ q.days = NoDays
                 /\ r = [Dates(<<y, 1, 1>>, now) EXCEPT !.against = YoyRange(Dates(<<y, 1, 1>>, now))]
<1> DEFINE rules == TimeRules(q, now)
           p == q.words \cap PeriodWords
           fits == {i \in DOMAIN rules : rules[i].when}
<1>1. DOMAIN rules = 1..11
  BY DEF TimeRules
<1>11. rules[1].when <=> "first_half" \in p
  BY Zenon DEF TimeRules, PeriodWords
<1>12. rules[2].when <=> "second_half" \in p
  BY Zenon DEF TimeRules, PeriodWords
<1>13. rules[3].when <=> "this_year" \in p
  BY Zenon DEF TimeRules, PeriodWords
<1>14. rules[4].when <=> "last_year" \in p
  BY Zenon DEF TimeRules, PeriodWords
<1>15. rules[5].when <=> "this_month" \in p
  BY Zenon DEF TimeRules, PeriodWords
<1>16. rules[6].when <=> "last_month" \in p
  BY Zenon DEF TimeRules, PeriodWords
<1>17. rules[7].when <=> "this_quarter" \in p
  BY Zenon DEF TimeRules, PeriodWords
<1>18. rules[8].when <=> "last_quarter" \in p
  BY Zenon DEF TimeRules, PeriodWords
<1>19. rules[9].when <=> q.days # NoDays
  BY Zenon DEF TimeRules, PeriodWords
<1>20. rules[10].when => q.year \in 2000..(now[1] + 1)
  <2> DEFINE known == q.year \in 2000..(now[1] + 1)
  <2>1. rules[10] = [when |-> known, range |-> Months(q.year, 1, 12)]
    BY DEF TimeRules
  <2>2. rules[10].when = known
    <3> HIDE DEF known, rules
    <3> QED
      BY <2>1
  <2> HIDE DEF known, rules
  <2>3. rules[10].when => known
    BY <2>2
  <2> QED
    BY <2>3 DEF known
<1> DEFINE y == now[1]
           m == now[2]
           k == (m - 1) \div 3
           Other(word, range, other) == IF word \in q.words THEN [range EXCEPT !.against = other] ELSE range
<1>21. rules[1].range = Months(ExtractYear(q, y), 1, 6)
  BY DEF TimeRules
<1>22. rules[2].range = Months(ExtractYear(q, y), 7, 12)
  BY DEF TimeRules
<1>23. rules[3].range = Other("yoy", Months(y, 1, 12), YoyRange(Months(y, 1, 12)))
  BY DEF TimeRules
<1>24. rules[4].range = Months(y - 1, 1, 12)
  BY DEF TimeRules
<1>25. rules[5].range = Other("mom", Months(y, m, m), MomRange(Months(y, m, m)))
  BY DEF TimeRules
<1>26. rules[6].range = IF m = 1 THEN Months(y - 1, 12, 12) ELSE Months(y, m - 1, m - 1)
  BY DEF TimeRules
<1>27. rules[7].range = Months(y, 3 * k + 1, 3 * k + 3)
  BY DEF TimeRules
<1>28. rules[8].range = IF k = 0 THEN Months(y - 1, 10, 12) ELSE Months(y, 3 * (k - 1) + 1, 3 * (k - 1) + 3)
  BY DEF TimeRules
<1>29. rules[9].range = Dates(DaysBefore(now, q.days - 1), now)
  BY DEF TimeRules
<1>30. rules[10].range = Months(q.year, 1, 12)
  BY DEF TimeRules
<1>31. rules[11].range = [Dates(<<y, 1, 1>>, now) EXCEPT !.against = YoyRange(Dates(<<y, 1, 1>>, now))]
  BY DEF TimeRules
<1> DEFINE r == ParseTimeRange(q, now)
           c == CHOOSE i \in fits : \A j \in fits : i <= j
<1>40. r = IF fits = {} THEN NoRange ELSE rules[c].range
  BY DEF ParseTimeRange
<1>41. fits \in SUBSET (1..11)
  BY <1>1
<1>42. fits # {} => c \in fits /\ \A j \in fits : c <= j
  <2> HIDE DEF fits
  <2>1. ASSUME fits # {} PROVE \E i \in fits : \A j \in fits : i <= j
    BY <2>1, <1>41, LeastOf
  <2> QED
    BY <2>1
<1>43. \A j \in 1..11 : rules[j].when <=> j \in fits
  BY <1>1
<1>44. rules[11].when <=> "yoy" \in q.words
  BY Zenon DEF TimeRules
<1>45. p = {} <=> (\A j \in 1..8 : ~rules[j].when)
  <2>1. p = {} <=> /\ "first_half" \notin p /\ "second_half" \notin p /\ "this_year" \notin p
                   /\ "last_year" \notin p /\ "this_month" \notin p /\ "last_month" \notin p
                   /\ "this_quarter" \notin p /\ "last_quarter" \notin p
    BY DEF PeriodWords
  <2> HIDE DEF rules, p
  <2>2. (\A j \in 1..8 : ~rules[j].when) <=>
          /\ ~rules[1].when /\ ~rules[2].when /\ ~rules[3].when /\ ~rules[4].when
          /\ ~rules[5].when /\ ~rules[6].when /\ ~rules[7].when /\ ~rules[8].when
    OBVIOUS
  <2> QED
    BY <2>1, <2>2, <1>11, <1>12, <1>13, <1>14, <1>15, <1>16, <1>17, <1>18
<1> HIDE DEF rules, fits, c, r, p, y, m, k, Other
<1>46. CASE fits = {}
  <2>1. p = {} /\ q.days = NoDays
    BY <1>46, <1>43, <1>45, <1>19
  <2>2. r = NoRange
    BY <1>46, <1>40
  <2> QED
    BY <2>1, <2>2 DEF r, p
<1>47. CASE fits # {}
  <2>1. c \in 1..11 /\ rules[c].when /\ r = rules[c].range
    BY <1>40, <1>41, <1>42, <1>43, <1>47
  <2>2. \A j \in 1..11 : j < c => ~rules[j].when
    BY <1>41, <1>42, <1>43, <1>47, <2>1
  <2>3. c > 8 => p = {}
    BY <1>45, <2>1, <2>2
  <2>4. c > 9 => q.days = NoDays
    BY <1>19, <2>1, <2>2
  <2>5. CASE c = 1
    BY <2>1, <2>5, <1>11, <1>21 DEF r, p, y
  <2>6. CASE c = 2
    BY <2>1, <2>6, <1>12, <1>22 DEF r, p, y
  <2>7. CASE c = 3
    BY <2>1, <2>7, <1>13, <1>23 DEF r, p, y, Other
  <2>8. CASE c = 4
    BY <2>1, <2>8, <1>14, <1>24 DEF r, p, y
  <2>9. CASE c = 5
    BY <2>1, <2>9, <1>15, <1>25 DEF r, p, y, m, Other
  <2>10. CASE c = 6
    BY <2>1, <2>10, <1>16, <1>26 DEF r, p, y, m
  <2>11. CASE c = 7
    BY <2>1, <2>11, <1>17, <1>27 DEF r, p, y, m, k
  <2>12. CASE c = 8
    BY <2>1, <2>12, <1>18, <1>28 DEF r, p, y, m, k
  <2>13. CASE c = 9
    BY <2>1, <2>13, <2>3, <1>19, <1>29 DEF r, p
  <2>14. CASE c = 10
    <3>1. rules[10].when /\ r = rules[10].range
      BY <2>1, <2>14
    <3>2. q.year \in 2000..(now[1] + 1)
      BY <3>1, <1>20
    <3>3. p = {} /\ q.days = NoDays
      BY <2>3, <2>4, <2>14
    <3> QED
      BY <3>1, <3>2, <3>3, <1>30 DEF r, p, y
  <2>15. CASE c = 11
    BY <2>1, <2>15, <2>3, <2>4, <1>31 DEF r, p, y
  <2> QED
    BY <2>1, <2>5, <2>6, <2>7, <2>8, <2>9, <2>10, <2>11, <2>12, <2>13, <2>14, <2>15
<1> QED
  BY <1>46, <1>47

\* a day the calendar has a year before and a year after
Clock(y, m, o) == y \in 2..9998 /\ m \in 1..12 /\ o \in 1..MonthDays(y, m)

LEMMA ClockDay ==
  ASSUME NEW y, NEW m, NEW o, Clock(y, m, o)
  PROVE  /\ Day(<<y, m, o>>)
         /\ IsDate(<<y, m, o>>)
         /\ DayNumber(<<y, m, o>>) \in Nat \ {0}
         /\ DayNumber(<<y, m, o>>) <= DaysBeforeYear(9999)
<1>1. y \in Int /\ 1 < y /\ y \in 1..9999 /\ m \in 1..12 /\ o \in 1..MonthDays(y, m)
  BY DEF Clock
<1>2. MonthDays(y, m) \in 28..31
  BY <1>1, MonthSizes
<1>3. o \in 1..31
  BY <1>1, <1>2
<1>4. Day(<<y, m, o>>)
  BY <1>1, <1>3 DEF Day
<1>5. IsDate(<<y, m, o>>)
  BY <1>1 DEF IsDate
<1>6. DayNumber(<<y, m, o>>) \in Int /\ DaysBeforeYear(y) < DayNumber(<<y, m, o>>)
        /\ DayNumber(<<y, m, o>>) <= DaysBeforeYear(y + 1)
  BY <1>4, NumberOfDay
<1>7. DayNumber(<<y, m, o>>) \in Nat \ {0}
  <2>1. DaysBeforeYear(1) + 365 <= DaysBeforeYear(y)
    BY <1>1, YearsGrow
  <2>2. DaysBeforeYear(1) = 0
    BY DEF DaysBeforeYear
  <2>3. DaysBeforeYear(y) \in Int
    BY <1>1, YearDays
  <2> QED
    BY <1>6, <2>1, <2>2, <2>3
<1>8. DayNumber(<<y, m, o>>) <= DaysBeforeYear(9999)
  <2>1. CASE y = 9998
    BY <1>6, <2>1
  <2>2. CASE y # 9998
    <3> DEFINE z == y + 1
    <3>1. z \in Int /\ z < 9999
      BY <1>1, <2>2 DEF Clock
    <3>2. DayNumber(<<y, m, o>>) <= DaysBeforeYear(z)
      BY <1>6
    <3> HIDE DEF z
    <3>3. DaysBeforeYear(z) + 365 <= DaysBeforeYear(9999)
      BY <3>1, YearsGrow
    <3>4. DaysBeforeYear(z) \in Int /\ DaysBeforeYear(9999) \in Int
      BY <3>1, YearDays
    <3> QED
      BY <1>6, <3>2, <3>3, <3>4
  <2> QED
    BY <2>1, <2>2
<1> QED
  BY <1>4, <1>5, <1>7, <1>8

\* the days of the years from 1 to 9999 are the dates
LEMMA DayIsDate ==
  ASSUME NEW d, Day(d), 1 <= d[1], DayNumber(d) <= DaysBeforeYear(9999) + 1
  PROVE  IsDate(d)
<1>1. PICK y \in Int, m \in 1..12, o \in 1..31 : d = <<y, m, o>>
  BY DEF Day
<1>2. o \in 1..MonthDays(y, m) /\ 1 <= y
  BY <1>1 DEF Day
<1>3. DaysBeforeYear(y) < DayNumber(d) /\ DayNumber(d) \in Int
  <2>1. DaysBeforeYear(d[1]) < DayNumber(d) /\ DayNumber(d) \in Int
    BY NumberOfDay
  <2> QED
    BY <1>1, <2>1
<1>4. ASSUME 9999 < y PROVE FALSE
  <2>1. DaysBeforeYear(9999) + 365 <= DaysBeforeYear(y)
    BY <1>4, YearsGrow
  <2>2. DaysBeforeYear(9999) \in Int /\ DaysBeforeYear(y) \in Int
    BY YearDays
  <2> QED
    BY <1>3, <2>1, <2>2
<1>5. y \in 1..9999
  BY <1>2, <1>4
<1> QED
  BY <1>1, <1>2, <1>5 DEF IsDate

\* what comes of the days before a day
LEMMA BackFrom ==
  ASSUME NEW y, NEW m, NEW o, Clock(y, m, o), NEW n \in Nat
  PROVE  LET now == <<y, m, o>>
             back == DaysBefore(now, n - 1)
         IN /\ n <= DayNumber(now) => IsDate(back) /\ DayNumber(back) = DayNumber(now) - n + 1
            /\ n > DayNumber(now) => back = NoDay
<1> DEFINE today == DayNumber(<<y, m, o>>)
<1>1. today \in Nat \ {0} /\ today <= DaysBeforeYear(9999)
  BY ClockDay
<1>2. DaysBefore(<<y, m, o>>, n - 1) = IF today > n - 1 THEN DayOf(today - (n - 1)) ELSE NoDay
  BY DEF DaysBefore
<1> HIDE DEF today
<1>3. ASSUME n <= today
      PROVE  /\ IsDate(DaysBefore(<<y, m, o>>, n - 1))
             /\ DayNumber(DaysBefore(<<y, m, o>>, n - 1)) = today - n + 1
  <2>1. PICK k : k = today - (n - 1)
    OBVIOUS
  <2>2. k \in Nat \ {0} /\ k <= DaysBeforeYear(9999) + 1
    <3>1. DaysBeforeYear(9999) \in Int
      BY YearDays
    <3> QED
      BY <1>1, <1>3, <2>1, <3>1
  <2>3. PICK d : d = DayOf(k)
    OBVIOUS
  <2>4. Day(DayOf(k)) /\ DayNumber(DayOf(k)) = k /\ DayOf(k)[1] >= 1
    BY <2>2, DayOfNumber
  <2>5. Day(d) /\ DayNumber(d) = k /\ 1 <= d[1]
    <3>1. DayOf(k)[1] \in Int
      BY <2>4 DEF Day
    <3> QED
      BY <2>3, <2>4, <3>1
  <2>6. IsDate(d)
    BY <2>2, <2>5, DayIsDate
  <2>7. DaysBefore(<<y, m, o>>, n - 1) = d
    BY <1>1, <1>2, <1>3, <2>1, <2>3
  <2> QED
    BY <1>1, <2>1, <2>5, <2>6, <2>7
<1>4. ASSUME n > today PROVE DaysBefore(<<y, m, o>>, n - 1) = NoDay
  BY <1>1, <1>2, <1>4
<1> QED
  BY <1>3, <1>4 DEF today

\* a past month or quarter ends on the eve of the present one
Eves(p, end, y, m) ==
  /\ p = {"last_month"} => DayNumber(end) + 1 = DayNumber(<<y, m, 1>>)
  /\ p = {"last_quarter"} => DayNumber(end) + 1 = DayNumber(<<y, 3 * ((m - 1) \div 3) + 1, 1>>)

LEMMA PlainRange ==
  ASSUME NEW q, q.days \in Nat \cup {NoDays}, NEW y, NEW m, NEW o, Clock(y, m, o),
         NEW p, p = q.words \cap PeriodWords, p # {} \/ q.days = NoDays,
         NEW k, NEW a, NEW b, Span(k, a, b),
         Eves(p, <<k, b, MonthDays(k, b)>>, y, m)
  PROVE  SoundRange(Months(k, a, b), q, <<y, m, o>>)
<1> DEFINE start == <<k, a, 1>>
           end == <<k, b, MonthDays(k, b)>>
           r == [start |-> start, end |-> end, against |-> <<>>]
<1>2. Months(k, a, b) = r
  BY MonthsRange
<1>3. DayNumber(start) <= DayNumber(end)
  BY MonthsRange
<1>4. IsDate(start) /\ IsDate(end)
  BY MonthsRange
<1>5. DayNumber(<<y, m, o>>) \in Nat \ {0}
  BY ClockDay
<1>6. NoDays = -1
  BY DEF NoDays
<1> HIDE DEF start, end
<1>7. r.start = start /\ r.end = end /\ r.against = <<>>
  OBVIOUS
<1>8. ~Raises(r)
  BY <1>4, <1>7 DEF Raises
<1>9. ~(p = {} /\ q.days > DayNumber(<<y, m, o>>))
  BY <1>5, <1>6
<1> HIDE DEF r
<1>10. SoundRange(r, q, <<y, m, o>>)
  <2>1. Eves(p, end, y, m)
    BY DEF end
  <2> QED
    BY <1>3, <1>7, <1>8, <1>9, <2>1 DEF SoundRange, Eves
<1> QED
  BY <1>2, <1>10

\* a month is compared with the one before it, any other period with the year before
Follows(p, start, from, to) ==
  /\ "this_month" \in p => DayNumber(to) + 1 = DayNumber(start)
  /\ "this_month" \notin p => DayNumber(start) - DayNumber(from) \in {365, 366}

LEMMA ComparedRange ==
  ASSUME NEW q, q.days \in Nat \cup {NoDays}, NEW y, NEW m, NEW o, Clock(y, m, o),
         NEW p, p = q.words \cap PeriodWords, "this_year" \in p \/ "this_month" \in p,
         NEW k, NEW a, NEW b, Span(k, a, b), NEW k2, NEW a2, NEW b2, Span(k2, a2, b2),
         NEW r, r = [start |-> <<k, a, 1>>, end |-> <<k, b, MonthDays(k, b)>>,
                     against |-> <<<<k2, a2, 1>>, <<k2, b2, MonthDays(k2, b2)>>>>],
         ~(a = 1 /\ b = 2),
         Follows(p, <<k, a, 1>>, <<k2, a2, 1>>, <<k2, b2, MonthDays(k2, b2)>>)
  PROVE  SoundRange(r, q, <<y, m, o>>)
<1> DEFINE start == <<k, a, 1>>
           end == <<k, b, MonthDays(k, b)>>
           from == <<k2, a2, 1>>
           to == <<k2, b2, MonthDays(k2, b2)>>
<1>1. IsDate(start) /\ IsDate(end) /\ DayNumber(start) <= DayNumber(end)
  BY MonthsRange
<1>2. IsDate(from) /\ IsDate(to) /\ DayNumber(from) <= DayNumber(to)
  BY MonthsRange
<1>3. start[2] = a /\ end[2] = b
  OBVIOUS
<1>4. r.start = start /\ r.end = end /\ r.against[1] = from /\ r.against[2] = to
  OBVIOUS
<1> HIDE DEF start, end, from, to
<1>5. ~Raises(r)
  BY <1>1, <1>2, <1>4 DEF Raises
<1>6. ~(r.start[2] = 1 /\ r.end[2] = 2)
  BY <1>3, <1>4
<1>7. p # {} /\ p # {"last_month"} /\ p # {"last_quarter"}
  OBVIOUS
<1>8. Follows(p, start, from, to)
  BY DEF start, from, to
<1> QED
  BY <1>1, <1>2, <1>4, <1>5, <1>6, <1>7, <1>8 DEF SoundRange, Follows

LEMMA LastDays ==
  ASSUME NEW q, q.days \in Nat \cup {NoDays}, q.days # NoDays, NEW y, NEW m, NEW o, Clock(y, m, o),
         q.words \cap PeriodWords = {}
  PROVE  SoundRange(Dates(DaysBefore(<<y, m, o>>, q.days - 1), <<y, m, o>>), q, <<y, m, o>>)
<1>1. PICK n : n = q.days
  OBVIOUS
<1>2. n \in Nat
  BY <1>1
<1>3. PICK now : now = <<y, m, o>>
  OBVIOUS
<1>4. PICK back : back = DaysBefore(now, n - 1)
  OBVIOUS
<1>5. IsDate(now) /\ DayNumber(now) \in Nat \ {0}
  BY <1>3, ClockDay
<1>6. n <= DayNumber(now) => IsDate(back) /\ DayNumber(back) = DayNumber(now) - n + 1
  BY <1>2, <1>3, <1>4, BackFrom
<1>7. n > DayNumber(now) => back = NoDay
  BY <1>2, <1>3, <1>4, BackFrom
<1>8. ~IsDate(NoDay)
  BY DEF IsDate, NoDay
<1>9. PICK r : r = Dates(back, now)
  OBVIOUS
<1>10. r.start = back /\ r.end = now /\ r.against = <<>>
  BY <1>9 DEF Dates
<1>11. r # NoRange
  <2>1. NoRange.end = <<>>
    BY DEF NoRange
  <2>2. now # <<>>
    BY <1>3
  <2> QED
    BY <1>10, <2>1, <2>2
<1>12. Raises(r) <=> n > DayNumber(now)
  <2>1. Raises(r) <=> ~IsDate(back)
    BY <1>5, <1>10, <1>11 DEF Raises
  <2>2. IsDate(back) <=> n <= DayNumber(now)
    BY <1>2, <1>5, <1>6, <1>7, <1>8
  <2> QED
    BY <1>2, <1>5, <2>1, <2>2
<1>13. SoundRange(r, q, now)
  <2>1. ~Raises(r) => DayNumber(back) = DayNumber(now) - n + 1
    BY <1>2, <1>5, <1>6, <1>12
  <2>2. ~Raises(r) /\ n # 0 => DayNumber(back) <= DayNumber(now)
    BY <1>2, <1>5, <2>1
  <2>3. ~Raises(r) => DayNumber(now) - DayNumber(back) = n - 1
    BY <1>2, <1>5, <2>1
  <2> QED
    BY <1>1, <1>10, <1>12, <2>2, <2>3 DEF SoundRange
<1> QED
  BY <1>1, <1>3, <1>4, <1>9, <1>13

LEMMA LeapYears ==
  ASSUME NEW z \in Int, IsLeap(z + 1)
  PROVE  ~IsLeap(z)
<1> QED
  BY DEF IsLeap

LEMMA NewYears ==
  ASSUME NEW z \in Int
  PROVE  DayNumber(<<z + 1, 1, 1>>) - DayNumber(<<z, 1, 1>>) \in {365, 366}
<1>1. PICK y : y = z + 1
  OBVIOUS
<1>2. DaysBeforeYear(y) = DaysBeforeYear(z) + 365 + (IF IsLeap(z) THEN 1 ELSE 0) /\ DaysBeforeYear(z) \in Int
  BY <1>1, YearDays
<1>3. DaysBeforeMonth(y, 1) = 0 /\ DaysBeforeMonth(z, 1) = 0
  BY DEF DaysBeforeMonth
<1>4. DaysBeforeYear(y) \in Int
  BY <1>2
<1>5. DayNumber(<<y, 1, 1>>) = DaysBeforeYear(y) + 1 /\ DayNumber(<<z, 1, 1>>) = DaysBeforeYear(z) + 1
  BY <1>2, <1>3, <1>4 DEF DayNumber
<1> QED
  BY <1>1, <1>2, <1>5

(* Month n of year z comes right before month m of year y.                  *)
MonthBefore(z, n, y, m) ==
  \/ m = 1 /\ n = 12 /\ z \in 1..9997 /\ y = z + 1
  \/ m \in 2..12 /\ n = m - 1 /\ z = y /\ y \in 2..9998

LEMMA EveOfMonth ==
  ASSUME NEW z, NEW n, NEW y, NEW m, MonthBefore(z, n, y, m)
  PROVE  Span(z, n, n) /\ DayNumber(<<z, n, MonthDays(z, n)>>) + 1 = DayNumber(<<y, m, 1>>)
<1>1. Span(z, n, n)
  BY DEF MonthBefore, Span
<1>2. /\ n < 12 => DayNumber(<<z, n, MonthDays(z, n)>>) + 1 = DayNumber(<<z, n + 1, 1>>)
      /\ n = 12 => DayNumber(<<z, n, MonthDays(z, n)>>) + 1 = DayNumber(<<z + 1, 1, 1>>)
  BY <1>1, MonthsRange
<1>3. CASE m = 1 /\ n = 12 /\ y = z + 1
  BY <1>1, <1>2, <1>3
<1>4. CASE n < 12 /\ n + 1 = m /\ z = y
  BY <1>1, <1>2, <1>4
<1>5. (m = 1 /\ n = 12 /\ y = z + 1) \/ (n < 12 /\ n + 1 = m /\ z = y)
  BY DEF MonthBefore
<1> QED
  BY <1>3, <1>4, <1>5

LEMMA YearToDate ==
  ASSUME NEW q, q.days = NoDays, NEW y, NEW m, NEW o, Clock(y, m, o), q.words \cap PeriodWords = {}
  PROVE  SoundRange([start |-> <<y, 1, 1>>, end |-> <<y, m, o>>,
                     against |-> <<<<y - 1, 1, 1>>, <<y - 1, m, o>>>>], q, <<y, m, o>>)
<1>1. y \in 2..9998 /\ m \in 1..12 /\ o \in 1..MonthDays(y, m)
  BY DEF Clock
<1>2. PICK now : now = <<y, m, o>>
  OBVIOUS
<1>3. PICK first : first = <<y, 1, 1>>
  OBVIOUS
<1>4. PICK from : from = <<y - 1, 1, 1>>
  OBVIOUS
<1>5. PICK to : to = <<y - 1, m, o>>
  OBVIOUS
<1>6. IsDate(now) /\ DayNumber(now) \in Nat \ {0}
  BY <1>2, ClockDay
<1>7. IsDate(first) /\ IsDate(from)
  BY <1>1, <1>3, <1>4 DEF IsDate, MonthDays
<1>8. IsDate(to) <=> ~(m = 2 /\ o = 29)
  <2>1. PICK z : z = y - 1
    OBVIOUS
  <2>2. z \in Int /\ z \in 1..9999 /\ y = z + 1
    BY <1>1, <2>1
  <2>3. to = <<z, m, o>>
    BY <1>5, <2>1, SMTT(30)
  <2>4. IsDate(to) <=> o \in 1..MonthDays(z, m)
    BY <1>1, <2>2, <2>3 DEF IsDate
  <2>5. CASE m # 2
    <3>1. MonthDays(z, m) = MonthDays(y, m)
      BY <1>1, <2>5 DEF MonthDays
    <3> QED
      BY <1>1, <2>4, <2>5, <3>1
  <2>6. CASE m = 2
    <3>1. IsLeap(y) => ~IsLeap(z)
      BY <2>2, LeapYears
    <3>2. MonthDays(y, 2) = (IF IsLeap(y) THEN 29 ELSE 28) /\ MonthDays(z, 2) = (IF IsLeap(z) THEN 29 ELSE 28)
      BY DEF MonthDays
    <3> QED
      BY <1>1, <2>4, <2>6, <3>1, <3>2
  <2> QED
    BY <2>5, <2>6
<1>9. DayNumber(first) <= DayNumber(now)
  BY <1>1, <1>2, <1>3 DEF DayNumber, DaysBeforeYear, DaysBeforeMonth
<1>10. DayNumber(from) <= DayNumber(to)
  BY <1>1, <1>4, <1>5 DEF DayNumber, DaysBeforeYear, DaysBeforeMonth
<1>11. DayNumber(first) - DayNumber(from) \in {365, 366}
  <2>1. PICK z : z = y - 1
    OBVIOUS
  <2>2. z \in Int /\ y = z + 1
    BY <1>1, <2>1
  <2>3. DayNumber(<<y, 1, 1>>) - DayNumber(<<z, 1, 1>>) \in {365, 366}
    BY <2>2, NewYears
  <2> QED
    BY <1>3, <1>4, <2>1, <2>3
<1>12. PICK r : r = [start |-> first, end |-> now, against |-> <<from, to>>]
  OBVIOUS
<1>13. r.start = first /\ r.end = now /\ r.against[1] = from /\ r.against[2] = to /\ r.against # <<>>
  BY <1>12
<1>14. Raises(r) <=> m = 2 /\ o = 29
  BY <1>6, <1>7, <1>8, <1>13 DEF Raises
<1>15. r.start[2] = 1 /\ r.end[2] = m /\ r.end[3] = o
  BY <1>2, <1>3, <1>13
<1>16. ~(q.days > DayNumber(now))
  BY <1>6 DEF NoDays
<1>17. SoundRange(r, q, now)
  <2> DEFINE p == q.words \cap PeriodWords
  <2>1. p = {}
    OBVIOUS
  <2> HIDE DEF p
  <2>2. Raises(r) <=> \/ r.against # <<>> /\ r.start[2] = 1 /\ r.end[2] = 2 /\ r.end[3] = 29
                      \/ p = {} /\ q.days > DayNumber(now)
    BY <1>13, <1>14, <1>15, <1>16
  <2>3. r # NoRange /\ ~Raises(r) =>
          /\ q.days # 0 => DayNumber(r.start) <= DayNumber(r.end)
          /\ p = {"last_month"} => DayNumber(r.end) + 1 = DayNumber(<<now[1], now[2], 1>>)
          /\ p = {"last_quarter"} => DayNumber(r.end) + 1 = DayNumber(<<now[1], 3 * ((now[2] - 1) \div 3) + 1, 1>>)
          /\ p = {} /\ q.days # NoDays => DayNumber(now) - DayNumber(r.start) = q.days - 1 /\ r.end = now
    BY <1>9, <1>13, <2>1
  <2>4. /\ DayNumber(r.against[1]) <= DayNumber(r.against[2])
        /\ "this_month" \notin p /\ DayNumber(r.start) - DayNumber(r.against[1]) \in {365, 366}
    BY <1>10, <1>11, <1>13, <2>1
  <2> QED
    BY <2>2, <2>3, <2>4 DEF SoundRange, p
<1> QED
  BY <1>2, <1>3, <1>4, <1>5, <1>12, <1>17

(* Whatever the words, the year and the number of days of a question.       *)
LEMMA RangeFits ==
  ASSUME NEW q, q.days \in Nat \cup {NoDays}, NEW y, NEW m, NEW o, Clock(y, m, o)
  PROVE  RangeSound(q, <<y, m, o>>)
<1>1. PICK now : now = <<y, m, o>>
  OBVIOUS
<1>2. PICK p : p = q.words \cap PeriodWords
  OBVIOUS
<1>3. PICK r : r = ParseTimeRange(q, now)
  OBVIOUS
<1>4. PICK k : k = (m - 1) \div 3
  OBVIOUS
<1>5. y \in 2..9998 /\ m \in 1..12
  BY DEF Clock
<1>6. \/ r = NoRange /\ p = {} /\ q.days = NoDays
      \/ "first_half" \in p /\ r = Months(ExtractYear(q, y), 1, 6)
      \/ "second_half" \in p /\ r = Months(ExtractYear(q, y), 7, 12)
      \/ "this_year" \in p /\ r = Months(y, 1, 12)
      \/ "this_year" \in p /\ r = [Months(y, 1, 12) EXCEPT !.against = YoyRange(Months(y, 1, 12))]
      \/ "last_year" \in p /\ r = Months(y - 1, 1, 12)
      \/ "this_month" \in p /\ r = Months(y, m, m)
      \/ "this_month" \in p /\ r = [Months(y, m, m) EXCEPT !.against = MomRange(Months(y, m, m))]
      \/ "last_month" \in p /\ r = IF m = 1 THEN Months(y - 1, 12, 12) ELSE Months(y, m - 1, m - 1)
      \/ "this_quarter" \in p /\ r = Months(y, 3 * k + 1, 3 * k + 3)
      \/ "last_quarter" \in p
           /\ r = IF k = 0 THEN Months(y - 1, 10, 12) ELSE Months(y, 3 * (k - 1) + 1, 3 * (k - 1) + 3)
      \/ p = {} /\ q.days # NoDays /\ r = Dates(DaysBefore(now, q.days - 1), now)
      \/ p = {} /\ q.days = NoDays /\ q.year \in 2000..(y + 1) /\ r = Months(q.year, 1, 12)
      \/ p = {} /\ q.days = NoDays
           /\ r = [Dates(<<y, 1, 1>>, now) EXCEPT !.against = YoyRange(Dates(<<y, 1, 1>>, now))]
  BY <1>1, <1>2, <1>3, <1>4, FirstRule
<1> DEFINE Sound == SoundRange(r, q, <<y, m, o>>)
<1>7. ASSUME NEW j, NEW a, NEW b, Span(j, a, b), p # {}, p # {"last_month"}, p # {"last_quarter"},
             r = Months(j, a, b)
      PROVE  Sound
  <2>1. Eves(p, <<j, b, MonthDays(j, b)>>, y, m)
    BY <1>7 DEF Eves
  <2> QED
    BY <1>2, <1>7, <2>1, PlainRange
<1>8. Sound
  <2>1. CASE r = NoRange /\ p = {} /\ q.days = NoDays
    <3>1. r.against = <<>> /\ ~Raises(r)
      BY <2>1 DEF NoRange, Raises
    <3>2. ~(q.days > DayNumber(<<y, m, o>>))
      <4>1. DayNumber(<<y, m, o>>) \in Nat
        BY ClockDay
      <4> QED
        BY <2>1, <4>1 DEF NoDays
    <3> QED
      BY <2>1, <3>1, <3>2 DEF SoundRange
  <2>2. CASE "first_half" \in p /\ r = Months(ExtractYear(q, y), 1, 6)
    <3>1. PICK j : j = ExtractYear(q, y)
      BY SMTT(30)
    <3>2. j \in 1..9999
      BY <1>5, <3>1 DEF ExtractYear
    <3>3. Span(j, 1, 6)
      BY <3>2 DEF Span
    <3>4. p # {} /\ p # {"last_month"} /\ p # {"last_quarter"} /\ r = Months(j, 1, 6)
      BY <2>2, <3>1
    <3> QED
      BY <1>7, <3>3, <3>4
  <2>3. CASE "second_half" \in p /\ r = Months(ExtractYear(q, y), 7, 12)
    <3>1. PICK j : j = ExtractYear(q, y)
      OBVIOUS
    <3>2. j \in 1..9999
      BY <1>5, <3>1 DEF ExtractYear
    <3>3. Span(j, 7, 12)
      BY <3>2 DEF Span
    <3>4. p # {} /\ p # {"last_month"} /\ p # {"last_quarter"} /\ r = Months(j, 7, 12)
      BY <2>3, <3>1
    <3> QED
      BY <1>7, <3>3, <3>4
  <2>4. CASE "this_year" \in p /\ r = Months(y, 1, 12)
    <3>1. Span(y, 1, 12)
      BY <1>5 DEF Span
    <3>2. p # {} /\ p # {"last_month"} /\ p # {"last_quarter"}
      BY <2>4
    <3> QED
      BY <2>4, <1>7, <3>1, <3>2
  <2>5. CASE "this_year" \in p /\ r = [Months(y, 1, 12) EXCEPT !.against = YoyRange(Months(y, 1, 12))]
    <3>1. PICK z : z = y - 1
      OBVIOUS
    <3>2. z \in Int /\ z \in 1..9999 /\ y = z + 1 /\ y \in 1..9999
      BY <1>5, <3>1, SMTT(30)
    <3>3. Span(y, 1, 12) /\ Span(z, 1, 12)
      BY <3>2, SMTT(30) DEF Span
    <3>4. MonthDays(y, 12) = 31 /\ MonthDays(z, 12) = 31
      BY DEF MonthDays
    <3>5. r = [start |-> <<y, 1, 1>>, end |-> <<y, 12, MonthDays(y, 12)>>,
               against |-> <<<<z, 1, 1>>, <<z, 12, MonthDays(z, 12)>>>>]
      <4>1. Months(y, 1, 12) = [start |-> <<y, 1, 1>>, end |-> <<y, 12, 31>>, against |-> <<>>]
        BY <3>4 DEF Months, Dates
      <4>2. YoyRange(Months(y, 1, 12)) = <<<<z, 1, 1>>, <<z, 12, 31>>>>
        BY <3>1, <4>1 DEF YoyRange
      <4> QED
        BY <2>5, <3>4, <4>1, <4>2
    <3>6. DayNumber(<<z, 12, MonthDays(z, 12)>>) + 1 = DayNumber(<<y, 1, 1>>)
      <4>1. MonthBefore(z, 12, y, 1)
        BY <1>5, <3>1, SMTT(30) DEF MonthBefore
      <4> QED
        BY <4>1, EveOfMonth
    <3>7. DayNumber(<<y, 1, 1>>) - DayNumber(<<z, 1, 1>>) \in {365, 366}
      BY <3>2, NewYears
    <3>8. Follows(p, <<y, 1, 1>>, <<z, 1, 1>>, <<z, 12, MonthDays(z, 12)>>)
      BY <3>6, <3>7 DEF Follows
    <3> QED
      BY <1>2, <2>5, <3>3, <3>5, <3>8, ComparedRange, SMTT(30)
  <2>6. CASE "last_year" \in p /\ r = Months(y - 1, 1, 12)
    <3>1. Span(y - 1, 1, 12)
      BY <1>5 DEF Span
    <3>2. p # {} /\ p # {"last_month"} /\ p # {"last_quarter"}
      BY <2>6
    <3> QED
      BY <2>6, <1>7, <3>1, <3>2
  <2>7. CASE "this_month" \in p /\ r = Months(y, m, m)
    <3>1. Span(y, m, m)
      BY <1>5 DEF Span
    <3>2. p # {} /\ p # {"last_month"} /\ p # {"last_quarter"}
      BY <2>7
    <3> QED
      BY <2>7, <1>7, <3>1, <3>2
  <2>8. CASE "this_month" \in p /\ r = [Months(y, m, m) EXCEPT !.against = MomRange(Months(y, m, m))]
    <3>1. PICK z : z = IF m = 1 THEN y - 1 ELSE y
      OBVIOUS
    <3>2. PICK n : n = IF m = 1 THEN 12 ELSE m - 1
      OBVIOUS
    <3>3. Span(y, m, m) /\ Span(z, n, n)
      BY <1>5, <3>1, <3>2 DEF Span
    <3>4. r = [start |-> <<y, m, 1>>, end |-> <<y, m, MonthDays(y, m)>>,
               against |-> <<<<z, n, 1>>, <<z, n, MonthDays(z, n)>>>>]
      <4>1. Months(y, m, m) = [start |-> <<y, m, 1>>, end |-> <<y, m, MonthDays(y, m)>>, against |-> <<>>]
        BY DEF Months, Dates
      <4>2. MomRange(Months(y, m, m)) = <<<<z, n, 1>>, <<z, n, MonthDays(z, n)>>>>
        BY <3>1, <3>2, <4>1 DEF MomRange
      <4> QED
        BY <2>8, <4>1, <4>2
    <3>5. DayNumber(<<z, n, MonthDays(z, n)>>) + 1 = DayNumber(<<y, m, 1>>)
      <4>1. MonthBefore(z, n, y, m)
        BY <1>5, <3>1, <3>2 DEF MonthBefore
      <4> QED
        BY <4>1, EveOfMonth, SMTT(30)
    <3>6. Follows(p, <<y, m, 1>>, <<z, n, 1>>, <<z, n, MonthDays(z, n)>>)
      BY <2>8, <3>5 DEF Follows
    <3>7. ~(m = 1 /\ m = 2)
      BY <1>5
    <3> QED
      BY <1>2, <2>8, <3>3, <3>4, <3>6, <3>7, ComparedRange
  <2>9. CASE "last_month" \in p /\ r = IF m = 1 THEN Months(y - 1, 12, 12) ELSE Months(y, m - 1, m - 1)
    <3>1. PICK z : z = IF m = 1 THEN y - 1 ELSE y
      OBVIOUS
    <3>2. PICK n : n = IF m = 1 THEN 12 ELSE m - 1
      OBVIOUS
    <3>3. Span(z, n, n)
      BY <1>5, <3>1, <3>2 DEF Span
    <3>4. r = Months(z, n, n)
      BY <2>9, <3>1, <3>2
    <3>5. DayNumber(<<z, n, MonthDays(z, n)>>) + 1 = DayNumber(<<y, m, 1>>)
      <4>1. MonthBefore(z, n, y, m)
        BY <1>5, <3>1, <3>2 DEF MonthBefore
      <4> QED
        BY <4>1, EveOfMonth
    <3>6. Eves(p, <<z, n, MonthDays(z, n)>>, y, m)
      BY <2>9, <3>5 DEF Eves
    <3>7. p # {}
      BY <2>9
    <3> QED
      BY <1>2, <3>3, <3>4, <3>6, <3>7, PlainRange
  <2>10. CASE "this_quarter" \in p /\ r = Months(y, 3 * k + 1, 3 * k + 3)
    <3>1. k \in 0..3
      BY <1>4, <1>5
    <3>2. Span(y, 3 * k + 1, 3 * k + 3)
      BY <1>5, <3>1 DEF Span
    <3>3. p # {} /\ p # {"last_month"} /\ p # {"last_quarter"}
      BY <2>10
    <3> QED
      BY <2>10, <1>7, <3>2, <3>3
  <2>11. CASE "last_quarter" \in p
           /\ r = IF k = 0 THEN Months(y - 1, 10, 12) ELSE Months(y, 3 * (k - 1) + 1, 3 * (k - 1) + 3)
    <3>1. PICK z : z = IF k = 0 THEN y - 1 ELSE y
      OBVIOUS
    <3>2. PICK a : a = IF k = 0 THEN 10 ELSE 3 * (k - 1) + 1
      OBVIOUS
    <3>3. PICK b : b = IF k = 0 THEN 12 ELSE 3 * (k - 1) + 3
      OBVIOUS
    <3>4. PICK n : n = 3 * k + 1
      OBVIOUS
    <3>5. k \in 0..3
      BY <1>4, <1>5
    <3>6. Span(z, a, b)
      BY <1>5, <3>1, <3>2, <3>3, <3>5 DEF Span
    <3>7. r = Months(z, a, b)
      BY <2>11, <3>1, <3>2, <3>3
    <3>8. DayNumber(<<z, b, MonthDays(z, b)>>) + 1 = DayNumber(<<y, n, 1>>)
      <4>1. MonthBefore(z, b, y, n)
        BY <1>5, <3>1, <3>3, <3>4, <3>5 DEF MonthBefore
      <4> QED
        BY <4>1, EveOfMonth, SMTT(30)
    <3>9. Eves(p, <<z, b, MonthDays(z, b)>>, y, m)
      BY <1>4, <2>11, <3>4, <3>8 DEF Eves
    <3>10. p # {}
      BY <2>11
    <3> QED
      BY <1>2, <3>6, <3>7, <3>9, <3>10, PlainRange
  <2>12. CASE p = {} /\ q.days # NoDays /\ r = Dates(DaysBefore(now, q.days - 1), now)
    <3>1. SoundRange(Dates(DaysBefore(<<y, m, o>>, q.days - 1), <<y, m, o>>), q, <<y, m, o>>)
      BY <1>2, <2>12, LastDays
    <3> QED
      BY <1>1, <2>12, <3>1
  <2>13. CASE p = {} /\ q.days = NoDays /\ q.year \in 2000..(y + 1) /\ r = Months(q.year, 1, 12)
    <3>1. PICK j : j = q.year
      OBVIOUS
    <3>2. Span(j, 1, 12)
      <4>1. j \in 2000..(y + 1)
        BY <2>13, <3>1
      <4>2. y \in Int /\ y <= 9998
        BY <1>5
      <4>3. j \in Int /\ 2000 <= j /\ j <= y + 1
        BY <4>1, <4>2
      <4>4. j \in 1..9999
        BY <4>2, <4>3
      <4> QED
        BY <4>4 DEF Span
    <3>3. Eves(p, <<j, 12, MonthDays(j, 12)>>, y, m)
      BY <2>13 DEF Eves
    <3>4. SoundRange(Months(j, 1, 12), q, <<y, m, o>>)
      BY <1>2, <2>13, <3>2, <3>3, PlainRange
    <3> QED
      BY <2>13, <3>1, <3>4
  <2>14. CASE p = {} /\ q.days = NoDays
           /\ r = [Dates(<<y, 1, 1>>, now) EXCEPT !.against = YoyRange(Dates(<<y, 1, 1>>, now))]
    <3>1. SoundRange([start |-> <<y, 1, 1>>, end |-> <<y, m, o>>,
                     against |-> <<<<y - 1, 1, 1>>, <<y - 1, m, o>>>>], q, <<y, m, o>>)
      BY <1>2, <2>14, YearToDate
    <3>2. r = [start |-> <<y, 1, 1>>, end |-> <<y, m, o>>,
                     against |-> <<<<y - 1, 1, 1>>, <<y - 1, m, o>>>>]
      BY <1>1, <2>14 DEF Dates, YoyRange
    <3> QED
      BY <3>1, <3>2
  <2> QED
    BY <1>6, <2>1, <2>2, <2>3, <2>4, <2>5, <2>6, <2>7, <2>8, <2>9, <2>10, <2>11, <2>12, <2>13, <2>14
<1> QED
  BY <1>1, <1>3, <1>8 DEF RangeSound

(* Time ranges: see RangesSound (domain/router.py).                         *)
THEOREM TimeRangesSound == AnswerSpec => []RangesSound
<1>1. Arguments => RangesSound
  <2> SUFFICES ASSUME Arguments, request.op = "route"
               PROVE  RangeSound(request.question, request.now)
    BY DEF RangesSound
  <2>1. request.question \in Questions /\ request.now \in Days
    BY DEF Arguments
  <2>2. PICK q : q = request.question
    OBVIOUS
  <2>3. q.days \in Nat \cup {NoDays}
    BY <2>1, <2>2, QuestionsAssumption
  <2>4. PICK now : now = request.now
    BY SMTT(30)
  <2>5. IsDate(now) /\ now \in (2..9998) \X (1..12) \X (1..31)
    <3>1. now \in Days
      BY <2>1, <2>4
    <3> QED
      BY <3>1, DaysAssumption, SMTT(30)
  <2>6. PICK y, m, o : /\ now = <<y, m, o>>
                       /\ y \in 2..9998 /\ m \in 1..12
    <3>1. now = <<now[1], now[2], now[3]>> /\ now[1] \in 2..9998 /\ now[2] \in 1..12
      BY <2>5, SMTT(30)
    <3> QED
      BY <3>1, SMTT(30)
  <2>7. Clock(y, m, o)
    BY <2>5, <2>6 DEF IsDate, Clock
  <2>8. RangeSound(q, <<y, m, o>>)
    BY <2>3, <2>7, RangeFits
  <2> QED
    BY <2>2, <2>4, <2>6, <2>8
<1> QED
  BY <1>1, ArgumentsInvariance, PTL
=============================================================================
