----------------------- MODULE MetricLifecycle_proofs -----------------------
(***************************************************************************)
(* Theorems about MetricLifecycle, for every set of metrics, queries,      *)
(* contents and concurrent requests and every bound on version numbers.    *)
(***************************************************************************)
EXTENDS MetricLifecycle, TLAPS

(***************************************************************************)
(* The inductive invariant.  PublishExclusive is not inductive by itself:  *)
(* it rests on what a publish in flight knows of the committed numbers     *)
(* (InFlight).  All numbers below its own are committed, and once its row  *)
(* is inserted its own is not - so two publishes of one metric past the    *)
(* INSERT would have to hold the same number, which the unique key forbids.*)
(***************************************************************************)
InFlight ==
  \A r \in Request : pub[r] # Idle /\ pub[r].at # "read" =>
    /\ pub[r].number \in 1..MaxVersion
    /\ \A k \in 1..(pub[r].number - 1) : k \in NumbersOf(versions, pub[r].metric)
    /\ HoldsVersion(r) => pub[r].number \notin NumbersOf(versions, pub[r].metric)
    /\ pub[r].at \in {"pointed", "flushed", "marked"} /\ ~pub[r].hasActive
         => active[pub[r].metric] = 0

RollbackTargets ==
  \A r \in Request : edit[r] # Idle /\ edit[r].op = "rollback" =>
    edit[r].to \in NumbersOf(versions, edit[r].metric)

Core ==
  /\ VersionNumbersContiguous
  /\ ActivePointsAtVersion
  /\ PublishExclusive
  /\ InFlight

IInv == TypeOK /\ Core /\ RollbackTargets
-----------------------------------------------------------------------------
(* What each kind of request holds, from its op.                            *)

LEMMA EditFields ==
  ASSUME NEW e \in EditTx
  PROVE  /\ e.op = "transition" => e.metric \in Metric /\ e.to \in Status
         /\ e.op = "rollback" => e.metric \in Metric /\ e.to \in Nat \ {0}
         /\ e.op = "deprecate" => e.metric \in Metric
         /\ e.op = "seed" => e.metric \in Metric /\ e.content \in Content
         /\ e.op = "verify" => e.query \in Query /\ e.seen \in [Metric -> Nat]
         /\ e.op \in {"invalidate", "re_validate"} => e.query \in Query /\ e.writes \in BOOLEAN
<1>1. CASE e \in [op : {"transition"}, metric : Metric, to : Status]
  BY <1>1
<1>2. CASE e \in [op : {"rollback"}, metric : Metric, to : Nat \ {0}]
  BY <1>2
<1>3. CASE e \in [op : {"deprecate"}, metric : Metric]
  BY <1>3
<1>4. CASE e \in [op : {"seed"}, metric : Metric, content : Content]
  BY <1>4
<1>5. CASE e \in [op : {"verify"}, query : Query, seen : [Metric -> Nat]]
  BY <1>5
<1>6. CASE e \in [op : {"invalidate", "re_validate"}, query : Query, writes : BOOLEAN]
  BY <1>6
<1>. QED
  BY <1>1, <1>2, <1>3, <1>4, <1>5, <1>6 DEF EditTx

LEMMA StartType ==
  ASSUME TypeOK, NEW r \in Request, NEW tx \in EditTx, Start(r, tx)
  PROVE  TypeOK'
BY DEF TypeOK, Start, tables

(* A step of a publish that leaves the tables alone and stores a            *)
(* well-typed record, or frees the slot, keeps the types.                   *)
LEMMA PubType ==
  ASSUME TypeOK, NEW r \in Request, NEW tx \in PublishTx \cup {Idle},
         pub' = [pub EXCEPT ![r] = tx], UNCHANGED <<tables, edit>>
  PROVE  TypeOK'
BY DEF TypeOK, tables

LEMMA BeginType ==
  ASSUME TypeOK, NEW r \in Request, Begin(r)
  PROVE  TypeOK'
<1>1. ASSUME NEW m \in Metric, NEW to \in Targets, BeginTransition(r, m, to)
      PROVE  TypeOK'
  <2>1. [op |-> "transition", metric |-> m, to |-> to] \in EditTx
    BY TargetsAssumption DEF EditTx
  <2>. QED  BY <1>1, <2>1, StartType DEF BeginTransition
<1>2. ASSUME NEW m \in Metric, NEW require \in RequireFlags, NEW run \in BOOLEAN,
             BeginPublish(r, m, require, run)
      PROVE  TypeOK'
  <2>. DEFINE tx == [at |-> "read", metric |-> m, content |-> draft[m], run |-> run,
                     number |-> 0, hasActive |-> FALSE, marked |-> {}]
  <2>1. tx \in PublishTx
    BY DEF PublishTx, Stage, TypeOK
  <2>2. pub' = [pub EXCEPT ![r] = tx] /\ UNCHANGED <<tables, edit>>
    BY <1>2 DEF BeginPublish, OpenPublish
  <2>. QED  BY <2>1, <2>2, PubType
<1>3. ASSUME NEW m \in Metric, NEW n \in 1..MaxVersion, BeginRollback(r, m, n)
      PROVE  TypeOK'
  <2>1. [op |-> "rollback", metric |-> m, to |-> n] \in EditTx
    BY MaxVersionAssumption DEF EditTx
  <2>. QED  BY <1>3, <2>1, StartType DEF BeginRollback
<1>4. ASSUME NEW m \in Metric, BeginDeprecate(r, m)
      PROVE  TypeOK'
  <2>1. [op |-> "deprecate", metric |-> m] \in EditTx
    BY DEF EditTx
  <2>. QED  BY <1>4, <2>1, StartType DEF BeginDeprecate
<1>5. ASSUME NEW m \in Metric, NEW c \in Content, BeginSeed(r, m, c)
      PROVE  TypeOK'
  <2>1. [op |-> "seed", metric |-> m, content |-> c] \in EditTx
    BY DEF EditTx
  <2>. QED  BY <1>5, <2>1, StartType DEF BeginSeed
<1>6. ASSUME NEW q \in Query, BeginVerify(r, q)
      PROVE  TypeOK'
  <2>1. [op |-> "verify", query |-> q, seen |-> active] \in EditTx
    BY DEF EditTx, TypeOK
  <2>. QED  BY <1>6, <2>1, StartType DEF BeginVerify
<1>7. ASSUME NEW q \in Query, BeginInvalidate(r, q)
      PROVE  TypeOK'
  <2>1. [op |-> "invalidate", query |-> q, writes |-> qstatus[q] # "INVALID"] \in EditTx
    BY DEF EditTx
  <2>. QED  BY <1>7, <2>1, StartType DEF BeginInvalidate
<1>8. ASSUME NEW q \in Query, NEW passes \in BOOLEAN, BeginRevalidate(r, q, passes)
      PROVE  TypeOK'
  <2>1. [op |-> "re_validate", query |-> q, writes |-> passes /\ qstatus[q] # "DRAFT"]
          \in EditTx
    BY DEF EditTx
  <2>. QED  BY <1>8, <2>1, StartType DEF BeginRevalidate
<1>. QED
  BY <1>1, <1>2, <1>3, <1>4, <1>5, <1>6, <1>7, <1>8 DEF Begin

LEMMA PublishType ==
  ASSUME TypeOK, InFlight, NEW r \in Request, PublishStep(r)
  PROVE  TypeOK'
<1>. DEFINE tx == pub[r]
<1>0. pub[r] # Idle => tx \in PublishTx
  BY DEF TypeOK
<1>1. CASE NumberVersion(r)
  <2>1. PICK n \in 0..(MaxVersion - 1) :
          pub' = [pub EXCEPT ![r] = [tx EXCEPT !.at = "numbered", !.number = n + 1]]
    BY <1>1 DEF NumberVersion
  <2>2. n + 1 \in Nat /\ tx \in PublishTx
    BY <1>0, <1>1, MaxVersionAssumption DEF NumberVersion
  <2>3. [tx EXCEPT !.at = "numbered", !.number = n + 1] \in PublishTx
    BY <2>2 DEF PublishTx, Stage
  <2>. QED  BY <1>1, <2>1, <2>3, PubType DEF NumberVersion
<1>2. CASE InsertVersion(r)
  <2>1. [tx EXCEPT !.at = "inserted"] \in PublishTx
    BY <1>0, <1>2 DEF InsertVersion, PublishTx, Stage
  <2>. QED  BY <1>2, <2>1, PubType DEF InsertVersion
<1>3. CASE ReadPointer(r)
  <2>1. [tx EXCEPT !.at = "pointed", !.hasActive = active[tx.metric] # 0] \in PublishTx
    BY <1>0, <1>3 DEF ReadPointer, PublishTx, Stage
  <2>. QED  BY <1>3, <2>1, PubType DEF ReadPointer
<1>4. CASE FlushPublish(r)
  <2>1. [tx EXCEPT !.at = "flushed"] \in PublishTx
    BY <1>0, <1>4 DEF FlushPublish, PublishTx, Stage
  <2>. QED  BY <1>4, <2>1, PubType DEF FlushPublish
<1>5. CASE MarkDependents(r)
  <2>. DEFINE marked == {q \in Query : qstatus[q] = "VERIFIED" /\ tx.metric \in Deps[q]}
  <2>1. [tx EXCEPT !.at = "marked", !.marked = marked] \in PublishTx
    BY <1>0, <1>5 DEF MarkDependents, PublishTx, Stage
  <2>. QED  BY <1>5, <2>1, PubType DEF MarkDependents
<1>6. CASE CommitPublish(r)
  <2>1. tx \in PublishTx /\ tx.number \in 1..MaxVersion
    BY <1>0, <1>6 DEF CommitPublish, InFlight
  <2>2. tx.metric \in Metric /\ tx.content \in Content /\ tx.run \in BOOLEAN
        /\ tx.number \in Nat \ {0}
    BY <2>1, MaxVersionAssumption DEF PublishTx
  <2>3. [metric |-> tx.metric, number |-> tx.number,
         content |-> tx.content, run |-> tx.run] \in Version
    BY <2>2 DEF Version
  <2>4. versions' \subseteq Version
    BY <1>6, <2>3 DEF CommitPublish, CommitTables, TypeOK
  <2>5. /\ status' \in [Metric -> Status]
        /\ active' \in [Metric -> Nat]
        /\ qstatus' \in [Query -> QueryStatus]
        /\ pub' \in [Request -> PublishTx \cup {Idle}]
    BY <1>6, <2>2 DEF CommitPublish, CommitTables, TypeOK, Status, QueryStatus
  <2>. QED  BY <1>6, <2>4, <2>5 DEF CommitPublish, CommitTables, TypeOK
<1>. QED
  BY <1>1, <1>2, <1>3, <1>4, <1>5, <1>6 DEF PublishStep

LEMMA EditType ==
  ASSUME TypeOK, NEW r \in Request, EditStep(r)
  PROVE  TypeOK'
<1>. DEFINE e == edit[r]
<1>0. e # Idle => e \in EditTx
  BY DEF TypeOK
<1>1. CASE CommitTransition(r)
  <2>1. e.metric \in Metric /\ e.to \in Status
    BY <1>0, <1>1, EditFields DEF CommitTransition
  <2>. QED  BY <1>1, <2>1 DEF CommitTransition, Finish, TypeOK
<1>2. CASE CommitRollback(r)
  <2>1. e.metric \in Metric /\ e.to \in Nat \ {0}
    BY <1>0, <1>2, EditFields DEF CommitRollback
  <2>. QED  BY <1>2, <2>1 DEF CommitRollback, Finish, TypeOK
<1>3. CASE CommitDeprecate(r)
  BY <1>3 DEF CommitDeprecate, Finish, TypeOK, Status
<1>4. CASE CommitSeed(r)
  <2>1. e.metric \in Metric /\ e.content \in Content
    BY <1>0, <1>4, EditFields DEF CommitSeed
  <2>. QED  BY <1>4, <2>1 DEF CommitSeed, Finish, TypeOK
<1>5. CASE CommitVerify(r)
  <2>1. e.query \in Query /\ e.seen \in [Metric -> Nat]
    BY <1>0, <1>5, EditFields DEF CommitVerify
  <2>. QED  BY <1>5, <2>1 DEF CommitVerify, Finish, TypeOK, QueryStatus
<1>6. CASE CommitInvalidate(r)
  BY <1>6 DEF CommitInvalidate, CommitQueryStatus, Finish, TypeOK, QueryStatus
<1>7. CASE CommitRevalidate(r)
  BY <1>7 DEF CommitRevalidate, CommitQueryStatus, Finish, TypeOK, QueryStatus
<1>. QED
  BY <1>1, <1>2, <1>3, <1>4, <1>5, <1>6, <1>7 DEF EditStep

LEMMA TypeStep ==
  ASSUME TypeOK, InFlight, [Next]_vars
  PROVE  TypeOK'
<1>1. ASSUME NEW r \in Request, Abort(r) PROVE TypeOK'
  BY <1>1 DEF Abort, TypeOK, tables
<1>2. ASSUME NEW q \in Query, NEW checked \in BOOLEAN, AddDraft(q, checked) PROVE TypeOK'
  BY <1>2 DEF AddDraft, TypeOK, QueryStatus
<1>3. CASE UNCHANGED vars
  BY <1>3 DEF vars, TypeOK
<1>. QED
  BY <1>1, <1>2, <1>3, BeginType, PublishType, EditType DEF Next
-----------------------------------------------------------------------------
(* The other conjuncts.  Only CommitPublish and CommitRollback write the    *)
(* version and pointer rows, and only publish steps and aborts write pub.   *)

LEMMA CoreFrame ==
  ASSUME Core, UNCHANGED <<versions, active, pub>>
  PROVE  Core'
<1>1. VersionNumbersContiguous' /\ ActivePointsAtVersion'
  BY DEF Core, VersionNumbersContiguous, ActivePointsAtVersion, NumbersOf
<1>2. PublishExclusive'
  BY DEF Core, PublishExclusive, HoldsVersion
<1>3. InFlight'
  BY DEF Core, InFlight, HoldsVersion, NumbersOf
<1>. QED  BY <1>1, <1>2, <1>3 DEF Core

HeldStages == {"inserted", "pointed", "flushed", "marked"}

(* A publish step that writes no table: what the new record of slot r must  *)
(* satisfy for the invariant to hold again.                                  *)
LEMMA SlotStep ==
  ASSUME TypeOK, Core, NEW r \in Request, NEW tx,
         pub' = [pub EXCEPT ![r] = tx], UNCHANGED <<versions, active>>,
         tx # Idle /\ tx.at # "read" =>
           /\ tx.number \in 1..MaxVersion
           /\ \A k \in 1..(tx.number - 1) : k \in NumbersOf(versions, tx.metric)
           /\ tx.at \in HeldStages => tx.number \notin NumbersOf(versions, tx.metric)
           /\ tx.at \in {"pointed", "flushed", "marked"} /\ ~tx.hasActive
                => active[tx.metric] = 0,
         tx # Idle /\ tx.at \in HeldStages =>
           \A s \in Request \ {r} : HoldsVersion(s) => pub[s].metric # tx.metric
  PROVE  Core'
<1>1. VersionNumbersContiguous' /\ ActivePointsAtVersion'
  BY DEF Core, VersionNumbersContiguous, ActivePointsAtVersion, NumbersOf
<1>2. pub'[r] = tx /\ \A s \in Request \ {r} : pub'[s] = pub[s]
  BY DEF TypeOK
<1>3. \A s \in Request \ {r} : HoldsVersion(s)' <=> HoldsVersion(s)
  BY <1>2 DEF HoldsVersion
<1>4. HoldsVersion(r)' <=> tx # Idle /\ tx.at \in HeldStages
  BY <1>2 DEF HoldsVersion, HeldStages
<1>5. PublishExclusive'
  <2>1. SUFFICES ASSUME NEW s \in Request, NEW t \in Request, HoldsVersion(s)', HoldsVersion(t)',
                        pub'[s].metric = pub'[t].metric
                 PROVE  s = t
    BY DEF PublishExclusive
  <2>2. CASE s = r \/ t = r
    BY <1>2, <1>3, <1>4, <2>1, <2>2
  <2>3. CASE s # r /\ t # r
    BY <1>2, <1>3, <2>1, <2>3 DEF Core, PublishExclusive
  <2>. QED  BY <2>2, <2>3
<1>6. InFlight'
  <2>1. SUFFICES ASSUME NEW s \in Request, pub'[s] # Idle, pub'[s].at # "read"
                 PROVE  /\ pub'[s].number \in 1..MaxVersion
                        /\ \A k \in 1..(pub'[s].number - 1) :
                             k \in NumbersOf(versions, pub'[s].metric)
                        /\ HoldsVersion(s)' =>
                             pub'[s].number \notin NumbersOf(versions, pub'[s].metric)
                        /\ pub'[s].at \in {"pointed", "flushed", "marked"} /\ ~pub'[s].hasActive
                             => active[pub'[s].metric] = 0
    BY DEF InFlight, NumbersOf
  <2>2. CASE s = r
    BY <1>2, <1>4, <2>1, <2>2
  <2>3. CASE s # r
    BY <1>2, <1>3, <2>1, <2>3 DEF Core, InFlight
  <2>. QED  BY <2>2, <2>3
<1>. QED  BY <1>1, <1>5, <1>6 DEF Core

(* A number that is the latest of a metric has all its predecessors.         *)
LEMMA LatestIsCount ==
  ASSUME TypeOK, VersionNumbersContiguous, NEW m \in Metric, NEW n \in Nat, IsLatest(m, n)
  PROVE  \A k \in 1..n : k \in NumbersOf(versions, m)
<1>1. CASE n = 0
  BY <1>1
<1>2. CASE n \in NumbersOf(versions, m)
  <2>1. PICK v \in versions : v.metric = m /\ v.number = n
    BY <1>2 DEF NumbersOf
  <2>2. \A k \in 1..(n - 1) : k \in NumbersOf(versions, m)
    BY <2>1 DEF VersionNumbersContiguous
  <2>. QED  BY <1>2, <2>2
<1>. QED  BY <1>1, <1>2 DEF IsLatest

LEMMA NumberVersionCore ==
  ASSUME TypeOK, Core, NEW r \in Request, NumberVersion(r)
  PROVE  Core'
<1>. DEFINE old == pub[r]
<1>1. PICK n \in 0..(MaxVersion - 1) :
        /\ IsLatest(old.metric, n)
        /\ pub' = [pub EXCEPT ![r] = [old EXCEPT !.at = "numbered", !.number = n + 1]]
  BY DEF NumberVersion
<1>. DEFINE tx == [old EXCEPT !.at = "numbered", !.number = n + 1]
<1>2. old \in PublishTx /\ n \in Nat /\ n + 1 \in 1..MaxVersion /\ (n + 1) - 1 = n
  BY <1>1, MaxVersionAssumption DEF TypeOK, NumberVersion
<1>3. tx.at = "numbered" /\ tx.number = n + 1 /\ tx.metric = old.metric /\ old.metric \in Metric
  BY <1>2 DEF PublishTx
<1>4. \A k \in 1..n : k \in NumbersOf(versions, old.metric)
  BY <1>1, <1>2, <1>3, LatestIsCount DEF Core
<1>. HIDE DEF tx
<1>. QED
  BY <1>1, <1>2, <1>3, <1>4, SlotStep DEF NumberVersion, tables, HeldStages, tx

(* The mutual exclusion.  r and another publish s of the metric past its     *)
(* INSERT: s has every number below its own committed and its own not, and   *)
(* so has r, whose number is not the one of s; neither can be the smaller.   *)
LEMMA InsertVersionCore ==
  ASSUME TypeOK, Core, NEW r \in Request, InsertVersion(r)
  PROVE  Core'
<1>. DEFINE old == pub[r]
            nums == NumbersOf(versions, old.metric)
            tx == [old EXCEPT !.at = "inserted"]
<1>1. CASE old.number \in nums
  <2>1. pub' = [pub EXCEPT ![r] = Idle]
    BY <1>1 DEF InsertVersion
  <2>. QED  BY <2>1, SlotStep DEF InsertVersion, tables
<1>2. CASE old.number \notin nums
  <2>1. pub' = [pub EXCEPT ![r] = tx]
    BY <1>2 DEF InsertVersion
  <2>2. old \in PublishTx /\ old # Idle /\ old.at = "numbered"
    BY DEF InsertVersion, TypeOK
  <2>3. /\ old.number \in 1..MaxVersion
        /\ \A k \in 1..(old.number - 1) : k \in nums
    BY <2>2 DEF Core, InFlight
  <2>4. tx.at = "inserted" /\ tx.number = old.number /\ tx.metric = old.metric
    BY <2>2 DEF PublishTx
  <2>5. ASSUME NEW s \in Request \ {r}, HoldsVersion(s), pub[s].metric = old.metric
        PROVE  FALSE
    <3>1. /\ pub[s].number \in 1..MaxVersion
          /\ \A k \in 1..(pub[s].number - 1) : k \in nums
          /\ pub[s].number \notin nums
      BY <2>5 DEF Core, InFlight, HoldsVersion
    <3>2. pub[s].number # old.number
      BY <2>5 DEF InsertVersion, KeyLocked
    <3>3. pub[s].number < old.number \/ old.number < pub[s].number
      BY <2>3, <3>1, <3>2
    <3>4. pub[s].number \in 1..(old.number - 1) \/ old.number \in 1..(pub[s].number - 1)
      BY <2>3, <3>1, <3>3, MaxVersionAssumption
    <3>. QED  BY <1>2, <2>3, <3>1, <3>4
  <2>. HIDE DEF tx
  <2>. QED
    BY <1>2, <2>1, <2>3, <2>4, <2>5, SlotStep, ZenonT(60) DEF InsertVersion, tables
<1>. QED  BY <1>1, <1>2

(* ReadPointer, FlushPublish and MarkDependents keep the number and the lock. *)
LEMMA HolderStepCore ==
  ASSUME TypeOK, Core, NEW r \in Request,
         ReadPointer(r) \/ FlushPublish(r) \/ MarkDependents(r)
  PROVE  Core'
<1>. DEFINE old == pub[r]
<1>0. UNCHANGED <<versions, active>>
  BY DEF ReadPointer, FlushPublish, MarkDependents, tables
<1>1. /\ old # Idle /\ old \in PublishTx /\ HoldsVersion(r)
      /\ old.number \in 1..MaxVersion
      /\ \A k \in 1..(old.number - 1) : k \in NumbersOf(versions, old.metric)
      /\ old.number \notin NumbersOf(versions, old.metric)
      /\ old.at \in {"pointed", "flushed", "marked"} /\ ~old.hasActive => active[old.metric] = 0
  BY DEF ReadPointer, FlushPublish, MarkDependents, TypeOK, Core, InFlight, HoldsVersion
<1>2. \A s \in Request \ {r} : HoldsVersion(s) => pub[s].metric # old.metric
  BY <1>1 DEF Core, PublishExclusive
<1>3. ASSUME NEW tx, tx.number = old.number, tx.metric = old.metric,
             tx.at \in HeldStages,
             tx.at \in {"pointed", "flushed", "marked"} /\ ~tx.hasActive => active[old.metric] = 0,
             pub' = [pub EXCEPT ![r] = tx]
      PROVE  Core'
  BY <1>0, <1>1, <1>2, <1>3, SlotStep
<1>4. CASE ReadPointer(r)
  <2>. DEFINE tx == [old EXCEPT !.at = "pointed", !.hasActive = active[old.metric] # 0]
  <2>1. tx.number = old.number /\ tx.metric = old.metric /\ tx.at = "pointed"
        /\ (~tx.hasActive => active[old.metric] = 0)
    BY <1>1 DEF PublishTx
  <2>2. pub' = [pub EXCEPT ![r] = tx]
    BY <1>4 DEF ReadPointer
  <2>. HIDE DEF tx
  <2>. QED  BY <1>3, <2>1, <2>2 DEF HeldStages
<1>5. CASE FlushPublish(r)
  <2>. DEFINE tx == [old EXCEPT !.at = "flushed"]
  <2>1. tx.number = old.number /\ tx.metric = old.metric /\ tx.at = "flushed"
        /\ tx.hasActive = old.hasActive /\ old.at = "pointed"
    BY <1>1, <1>5 DEF PublishTx, FlushPublish
  <2>2. CASE PointerConflict(r)
    <3>1. pub' = [pub EXCEPT ![r] = Idle]
      BY <1>5, <2>2 DEF FlushPublish
    <3>. QED  BY <1>0, <3>1, SlotStep
  <2>3. CASE ~PointerConflict(r)
    <3>1. pub' = [pub EXCEPT ![r] = tx]
      BY <1>5, <2>3 DEF FlushPublish
    <3>. HIDE DEF tx
    <3>. QED  BY <1>1, <1>3, <2>1, <3>1 DEF HeldStages
  <2>. QED  BY <2>2, <2>3
<1>6. CASE MarkDependents(r)
  <2>. DEFINE marked == {q \in Query : qstatus[q] = "VERIFIED" /\ old.metric \in Deps[q]}
              tx == [old EXCEPT !.at = "marked", !.marked = marked]
  <2>1. tx.number = old.number /\ tx.metric = old.metric /\ tx.at = "marked"
        /\ tx.hasActive = old.hasActive /\ old.at = "flushed"
    BY <1>1, <1>6 DEF PublishTx, MarkDependents
  <2>2. pub' = [pub EXCEPT ![r] = tx]
    BY <1>6 DEF MarkDependents
  <2>. HIDE DEF tx
  <2>. QED  BY <1>1, <1>3, <2>1, <2>2 DEF HeldStages
<1>. QED  BY <1>4, <1>5, <1>6

(* What CommitPublish does to the numbers: those of its metric gain its own  *)
(* number, which is new and the highest; the others stay.                    *)
LEMMA CommitNumbers ==
  ASSUME TypeOK, Core, NEW r \in Request, CommitPublish(r)
  PROVE  LET tx == pub[r] IN
         /\ tx \in PublishTx
         /\ tx.number \in 1..MaxVersion
         /\ tx.number \notin NumbersOf(versions, tx.metric)
         /\ \A k \in 1..(tx.number - 1) : k \in NumbersOf(versions, tx.metric)
         /\ \A k \in NumbersOf(versions, tx.metric) : k < tx.number
         /\ NumbersOf(versions', tx.metric) = NumbersOf(versions, tx.metric) \cup {tx.number}
         /\ \A m \in Metric \ {tx.metric} : NumbersOf(versions', m) = NumbersOf(versions, m)
         /\ active' = [active EXCEPT ![tx.metric] = tx.number]
         /\ pub' = [pub EXCEPT ![r] = Idle]
<1>. DEFINE tx == pub[r]
            new == [metric |-> tx.metric, number |-> tx.number,
                    content |-> tx.content, run |-> tx.run]
<1>1. /\ tx \in PublishTx /\ HoldsVersion(r)
      /\ tx.number \in 1..MaxVersion
      /\ \A k \in 1..(tx.number - 1) : k \in NumbersOf(versions, tx.metric)
      /\ tx.number \notin NumbersOf(versions, tx.metric)
  BY DEF CommitPublish, TypeOK, Core, InFlight, HoldsVersion
<1>2. versions' = versions \cup {new}
  BY DEF CommitPublish, CommitTables
<1>3. new.metric = tx.metric /\ new.number = tx.number
  OBVIOUS
<1>. HIDE DEF new
<1>4. /\ NumbersOf(versions', tx.metric) = NumbersOf(versions, tx.metric) \cup {tx.number}
      /\ \A m \in Metric \ {tx.metric} : NumbersOf(versions', m) = NumbersOf(versions, m)
  BY <1>2, <1>3 DEF NumbersOf
<1>5. ASSUME NEW k \in NumbersOf(versions, tx.metric)
      PROVE  k < tx.number
  <2>1. PICK v \in versions : v.metric = tx.metric /\ v.number = k
    BY DEF NumbersOf
  <2>2. k \in Nat /\ tx.number \in Nat \ {0}
    BY <1>1, <2>1, MaxVersionAssumption DEF TypeOK, Version
  <2>3. SUFFICES ASSUME ~(k < tx.number) PROVE FALSE
    OBVIOUS
  <2>4. k # tx.number
    BY <1>1
  <2>5. tx.number \in 1..(k - 1)
    BY <2>2, <2>3, <2>4
  <2>6. tx.number \in NumbersOf(versions, tx.metric)
    BY <2>1, <2>5 DEF Core, VersionNumbersContiguous
  <2>. QED  BY <1>1, <2>6
<1>. QED  BY <1>1, <1>4, <1>5 DEF CommitPublish, CommitTables

LEMMA CommitPublishCore ==
  ASSUME TypeOK, Core, NEW r \in Request, CommitPublish(r)
  PROVE  Core'
<1>. DEFINE tx == pub[r]
            new == [metric |-> tx.metric, number |-> tx.number,
                    content |-> tx.content, run |-> tx.run]
<1>1. /\ tx \in PublishTx /\ HoldsVersion(r)
      /\ tx.number \in 1..MaxVersion
      /\ tx.number \notin NumbersOf(versions, tx.metric)
      /\ \A k \in 1..(tx.number - 1) : k \in NumbersOf(versions, tx.metric)
      /\ NumbersOf(versions', tx.metric) = NumbersOf(versions, tx.metric) \cup {tx.number}
      /\ \A m \in Metric \ {tx.metric} : NumbersOf(versions', m) = NumbersOf(versions, m)
      /\ active' = [active EXCEPT ![tx.metric] = tx.number]
      /\ pub' = [pub EXCEPT ![r] = Idle]
  BY CommitNumbers DEF CommitPublish, HoldsVersion
<1>2. tx.metric \in Metric /\ tx.number \in Nat \ {0}
  BY <1>1, MaxVersionAssumption DEF PublishTx
<1>3. versions' = versions \cup {new} /\ new.metric = tx.metric /\ new.number = tx.number
  BY DEF CommitPublish, CommitTables
<1>. HIDE DEF new
<1>4. \A m \in Metric : NumbersOf(versions, m) \subseteq NumbersOf(versions', m)
  BY <1>1
<1>5. VersionNumbersContiguous'
  <2>1. SUFFICES ASSUME NEW v \in versions'
                 PROVE  /\ \A k \in 1..(v.number - 1) : k \in NumbersOf(versions', v.metric)
                        /\ \A w \in versions' : w.metric = v.metric /\ w.number = v.number => w = v
    BY DEF VersionNumbersContiguous, NumbersOf
  <2>2. ASSUME NEW w \in versions, w.metric = tx.metric PROVE w.number # tx.number
    BY <1>1, <2>2 DEF NumbersOf
  <2>3. CASE v \in versions
    <3>1. v.metric \in Metric
      BY <2>3 DEF TypeOK, Version
    <3>2. \A k \in 1..(v.number - 1) : k \in NumbersOf(versions', v.metric)
      BY <1>4, <2>3, <3>1 DEF Core, VersionNumbersContiguous
    <3>3. \A w \in versions : w.metric = v.metric /\ w.number = v.number => w = v
      BY <2>3 DEF Core, VersionNumbersContiguous
    <3>. QED  BY <1>3, <2>2, <2>3, <3>2, <3>3
  <2>4. CASE v = new
    BY <1>1, <1>3, <2>2, <2>4
  <2>. QED  BY <1>3, <2>1, <2>3, <2>4
<1>6. ActivePointsAtVersion'
  BY <1>1, <1>2 DEF Core, ActivePointsAtVersion, TypeOK
<1>7. pub'[r] = Idle /\ \A s \in Request \ {r} : pub'[s] = pub[s]
  BY <1>1 DEF TypeOK
<1>8. PublishExclusive'
  BY <1>7 DEF Core, PublishExclusive, HoldsVersion
<1>9. InFlight'
  <2>1. SUFFICES ASSUME NEW s \in Request \ {r}, pub[s] # Idle, pub[s].at # "read"
                 PROVE  /\ pub[s].number \in 1..MaxVersion
                        /\ \A k \in 1..(pub[s].number - 1) :
                             k \in NumbersOf(versions', pub[s].metric)
                        /\ HoldsVersion(s) =>
                             pub[s].number \notin NumbersOf(versions', pub[s].metric)
                        /\ pub[s].at \in {"pointed", "flushed", "marked"} /\ ~pub[s].hasActive
                             => active'[pub[s].metric] = 0
    BY <1>7 DEF InFlight, HoldsVersion, NumbersOf
  <2>2. pub[s].metric \in Metric
    BY <2>1 DEF TypeOK, PublishTx
  <2>3. HoldsVersion(s) => pub[s].metric # tx.metric
    BY <1>1 DEF Core, PublishExclusive
  <2>4. pub[s].at \in {"pointed", "flushed", "marked"} => HoldsVersion(s)
    BY <2>1 DEF HoldsVersion
  <2>5. pub[s].metric # tx.metric => active'[pub[s].metric] = active[pub[s].metric]
    BY <1>1, <2>2 DEF TypeOK
  <2>. QED  BY <1>1, <1>4, <2>1, <2>2, <2>3, <2>4, <2>5 DEF Core, InFlight
<1>. QED  BY <1>5, <1>6, <1>8, <1>9 DEF Core

LEMMA CommitRollbackCore ==
  ASSUME IInv, NEW r \in Request, CommitRollback(r)
  PROVE  Core'
<1>. DEFINE m == edit[r].metric
<1>1. /\ active' = [active EXCEPT ![m] = edit[r].to]
      /\ UNCHANGED <<versions, pub>>
  BY DEF CommitRollback, Finish
<1>2. m \in Metric /\ edit[r].to \in NumbersOf(versions, m)
  BY EditFields DEF CommitRollback, IInv, TypeOK, RollbackTargets
<1>3. VersionNumbersContiguous' /\ PublishExclusive'
  BY <1>1 DEF IInv, Core, VersionNumbersContiguous, PublishExclusive, HoldsVersion, NumbersOf
<1>4. ActivePointsAtVersion'
  BY <1>1, <1>2 DEF IInv, Core, ActivePointsAtVersion, TypeOK, NumbersOf
<1>5. active[m] # 0
  <2>1. 0 \notin NumbersOf(versions, m)
    BY DEF IInv, TypeOK, Version, NumbersOf
  <2>. QED  BY <1>2, <2>1 DEF IInv, Core, ActivePointsAtVersion
<1>6. \A n \in Metric : active[n] = 0 => active'[n] = 0
  BY <1>1, <1>5 DEF IInv, TypeOK
<1>7. \A s \in Request : pub[s] # Idle => pub[s].metric \in Metric
  BY DEF IInv, TypeOK, PublishTx
<1>8. InFlight'
  BY <1>1, <1>6, <1>7 DEF IInv, Core, InFlight, HoldsVersion, NumbersOf
<1>. QED  BY <1>3, <1>4, <1>8 DEF Core

LEMMA CoreStep ==
  ASSUME IInv, [Next]_vars
  PROVE  Core'
<1>0. TypeOK /\ Core
  BY DEF IInv
<1>1. ASSUME NEW r \in Request, Begin(r) PROVE Core'
  <2>1. CASE \E m \in Metric, require \in RequireFlags, run \in BOOLEAN :
               BeginPublish(r, m, require, run)
    <3>1. PICK m \in Metric, run \in BOOLEAN : OpenPublish(r, m, run)
      BY <2>1 DEF BeginPublish
    <3>. DEFINE tx == [at |-> "read", metric |-> m, content |-> draft[m], run |-> run,
                       number |-> 0, hasActive |-> FALSE, marked |-> {}]
    <3>2. tx.at = "read" /\ pub' = [pub EXCEPT ![r] = tx] /\ UNCHANGED <<versions, active>>
      BY <3>1 DEF OpenPublish, tables
    <3>. HIDE DEF tx
    <3>. QED  BY <1>0, <3>2, SlotStep DEF HeldStages
  <2>2. CASE ~\E m \in Metric, require \in RequireFlags, run \in BOOLEAN :
               BeginPublish(r, m, require, run)
    <3>1. UNCHANGED <<versions, active, pub>>
      BY <1>1, <2>2 DEF Begin, BeginTransition, BeginRollback, BeginDeprecate, BeginSeed,
                        BeginVerify, BeginInvalidate, BeginRevalidate, Start, tables
    <3>. QED  BY <1>0, <3>1, CoreFrame
  <2>. QED  BY <2>1, <2>2
<1>2. ASSUME NEW r \in Request, PublishStep(r) PROVE Core'
  BY <1>0, <1>2, NumberVersionCore, InsertVersionCore, HolderStepCore, CommitPublishCore
     DEF PublishStep
<1>3. ASSUME NEW r \in Request, EditStep(r) PROVE Core'
  <2>1. CASE CommitRollback(r)
    BY <2>1, CommitRollbackCore
  <2>2. CASE ~CommitRollback(r)
    <3>1. UNCHANGED <<versions, active, pub>>
      BY <1>3, <2>2 DEF EditStep, CommitTransition, CommitDeprecate, CommitSeed, CommitVerify,
                        CommitInvalidate, CommitRevalidate, CommitQueryStatus, Finish
    <3>. QED  BY <1>0, <3>1, CoreFrame
  <2>. QED  BY <2>1, <2>2
<1>4. ASSUME NEW r \in Request, Abort(r) PROVE Core'
  BY <1>0, <1>4, SlotStep DEF Abort, tables
<1>5. ASSUME NEW q \in Query, NEW checked \in BOOLEAN, AddDraft(q, checked) PROVE Core'
  BY <1>0, <1>5, CoreFrame DEF AddDraft
<1>6. CASE UNCHANGED vars
  BY <1>0, <1>6, CoreFrame DEF vars
<1>. QED  BY <1>1, <1>2, <1>3, <1>4, <1>5, <1>6 DEF Next

(* A version a rollback has looked up is still there when it commits:       *)
(* version rows are only ever added.                                        *)
LEMMA RollbackTargetsStep ==
  ASSUME IInv, [Next]_vars
  PROVE  RollbackTargets'
<1>1. \A m : NumbersOf(versions, m) \subseteq NumbersOf(versions', m)
  <2>1. versions \subseteq versions'
    <3>1. ASSUME NEW r \in Request, Begin(r) PROVE versions' = versions
      BY <3>1 DEF Begin, BeginTransition, BeginPublish, OpenPublish, BeginRollback,
                  BeginDeprecate, BeginSeed, BeginVerify, BeginInvalidate, BeginRevalidate,
                  Start, tables
    <3>2. ASSUME NEW r \in Request, PublishStep(r) PROVE versions \subseteq versions'
      <4>1. CASE CommitPublish(r)
        BY <4>1 DEF CommitPublish, CommitTables
      <4>2. CASE ~CommitPublish(r)
        BY <3>2, <4>2 DEF PublishStep, NumberVersion, InsertVersion, ReadPointer, FlushPublish,
                          MarkDependents, tables
      <4>. QED  BY <4>1, <4>2
    <3>3. ASSUME NEW r \in Request, EditStep(r) PROVE versions' = versions
      BY <3>3 DEF EditStep, CommitTransition, CommitRollback, CommitDeprecate, CommitSeed,
                  CommitVerify, CommitInvalidate, CommitRevalidate, CommitQueryStatus
    <3>4. (\E r \in Request : Abort(r)) => versions' = versions
      BY DEF Abort, tables
    <3>5. (\E q \in Query, checked \in BOOLEAN : AddDraft(q, checked)) => versions' = versions
      BY DEF AddDraft
    <3>6. UNCHANGED vars => versions' = versions
      BY DEF vars
    <3>. QED  BY <3>1, <3>2, <3>3, <3>4, <3>5, <3>6 DEF Next
  <2>. QED  BY <2>1 DEF NumbersOf
<1>2. ASSUME NEW s \in Request, edit'[s] # Idle, edit'[s].op = "rollback", edit'[s] # edit[s]
      PROVE  edit'[s].to \in NumbersOf(versions, edit'[s].metric)
  <2>1. PICK r \in Request : Begin(r) \/ PublishStep(r) \/ EditStep(r) \/ Abort(r)
    BY <1>2 DEF Next, vars, AddDraft
  <2>2. ~PublishStep(r)
    BY <1>2 DEF PublishStep, NumberVersion, InsertVersion, ReadPointer, FlushPublish,
                MarkDependents, CommitPublish, CommitTables
  <2>3. ~EditStep(r) /\ ~Abort(r)
    BY <1>2 DEF EditStep, CommitTransition, CommitRollback, CommitDeprecate, CommitSeed,
                CommitVerify, CommitInvalidate, CommitRevalidate, CommitQueryStatus, Finish,
                Abort, IInv, TypeOK
  <2>4. \A tx : Start(r, tx) => s = r /\ edit'[s] = tx
    BY <1>2 DEF Start, IInv, TypeOK
  <2>5. \A m, require, run : ~BeginPublish(r, m, require, run)
    BY <1>2 DEF BeginPublish, OpenPublish
  <2>6. \A m, x : ~BeginTransition(r, m, x) /\ ~BeginDeprecate(r, m) /\ ~BeginSeed(r, m, x)
    BY <1>2, <2>4 DEF BeginTransition, BeginDeprecate, BeginSeed
  <2>7. \A q, x : ~BeginVerify(r, q) /\ ~BeginInvalidate(r, q) /\ ~BeginRevalidate(r, q, x)
    BY <1>2, <2>4 DEF BeginVerify, BeginInvalidate, BeginRevalidate
  <2>8. PICK m \in Metric, n \in 1..MaxVersion : BeginRollback(r, m, n)
    BY <2>1, <2>2, <2>3, <2>5, <2>6, <2>7 DEF Begin
  <2>. QED  BY <2>4, <2>8 DEF BeginRollback
<1>. QED  BY <1>1, <1>2 DEF IInv, RollbackTargets
-----------------------------------------------------------------------------
LEMMA Initially == Init => IInv
<1>. SUFFICES ASSUME Init PROVE IInv
  OBVIOUS
<1>1. TypeOK
  BY DEF Init, TypeOK, Status, QueryStatus
<1>2. Core
  BY DEF Init, Core, VersionNumbersContiguous, ActivePointsAtVersion, PublishExclusive,
         InFlight, HoldsVersion, NumbersOf
<1>3. RollbackTargets
  BY DEF Init, RollbackTargets
<1>. QED  BY <1>1, <1>2, <1>3 DEF IInv

(* The invariant the other theorems rest on.                                *)
THEOREM Invariance == Spec => []IInv
<1>1. IInv /\ [Next]_vars => IInv'
  BY TypeStep, CoreStep, RollbackTargetsStep DEF IInv, Core
<1>. QED  BY Initially, <1>1, PTL DEF Spec

(* Rows, and what requests keep between statements, always have their types. *)
THEOREM TypeCorrect == Spec => []TypeOK
<1>1. IInv => TypeOK
  BY DEF IInv
<1>. QED  BY Invariance, <1>1, PTL

(* Numbers are given 1, 2, 3, ... without a gap or a repetition, however     *)
(* many publishes overlap and abort (publish, uq_metric_version).            *)
THEOREM NumbersContiguous == Spec => []VersionNumbersContiguous
<1>1. IInv => VersionNumbersContiguous
  BY DEF IInv, Core
<1>. QED  BY Invariance, <1>1, PTL

(* The version pointer never dangles, whatever rollbacks and publishes race. *)
THEOREM PointerValid == Spec => []ActivePointsAtVersion
<1>1. IInv => ActivePointsAtVersion
  BY DEF IInv, Core
<1>. QED  BY Invariance, <1>1, PTL

(* publish has no lock, yet excludes itself per metric after its INSERT.     *)
THEOREM Exclusion == Spec => []PublishExclusive
<1>1. IInv => PublishExclusive
  BY DEF IInv, Core
<1>. QED  BY Invariance, <1>1, PTL

(* A publish that saw no pointer row never finds one when it inserts its own. *)
THEOREM NoPointerConflict == Spec => []PointerInsertSafe
<1>1. IInv => PointerInsertSafe
  BY DEF IInv, Core, InFlight, PointerInsertSafe, PointerConflict
<1>. QED  BY Invariance, <1>1, PTL
-----------------------------------------------------------------------------
(* Every other step leaves the version rows alone, and the pointers too      *)
(* unless it commits a rollback.                                             *)
LEMMA OtherSteps ==
  ASSUME [Next]_vars, \A r \in Request : ~CommitPublish(r)
  PROVE  /\ versions' = versions
         /\ (\A r \in Request : ~CommitRollback(r)) => active' = active
BY ZenonT(60) DEF Next, vars, tables, Begin, BeginTransition, BeginPublish, OpenPublish, BeginRollback,
       BeginDeprecate, BeginSeed, BeginVerify, BeginInvalidate, BeginRevalidate, Start,
       PublishStep, NumberVersion, InsertVersion, ReadPointer, FlushPublish, MarkDependents,
       EditStep, CommitTransition, CommitRollback, CommitDeprecate, CommitSeed,
       CommitVerify, CommitInvalidate, CommitRevalidate, CommitQueryStatus, Abort, AddDraft

(* A publish puts the newest version in force: nothing newer is overtaken.   *)
THEOREM NewestInForce == Spec => PublishIsNewest
<1>1. ASSUME IInv, [Next]_vars, NEW m \in Metric,
             NumbersOf(versions', m) # NumbersOf(versions, m)
      PROVE  \A k \in NumbersOf(versions', m) : k <= active'[m]
  <2>1. PICK r \in Request : CommitPublish(r)
    BY <1>1, OtherSteps DEF NumbersOf
  <2>. DEFINE tx == pub[r]
  <2>2. /\ tx.number \in 1..MaxVersion
        /\ \A k \in NumbersOf(versions, tx.metric) : k < tx.number
        /\ NumbersOf(versions', tx.metric) = NumbersOf(versions, tx.metric) \cup {tx.number}
        /\ \A n \in Metric \ {tx.metric} : NumbersOf(versions', n) = NumbersOf(versions, n)
        /\ active' = [active EXCEPT ![tx.metric] = tx.number]
    BY <1>1, <2>1, CommitNumbers DEF IInv
  <2>3. m = tx.metric /\ active'[m] = tx.number
    BY <1>1, <2>2 DEF IInv, TypeOK
  <2>4. \A k \in NumbersOf(versions, m) : k \in Nat
    BY <1>1 DEF NumbersOf, IInv, TypeOK, Version
  <2>. QED  BY <2>2, <2>3, <2>4
<1>2. IInv /\ [Next]_vars =>
        [\A m \in Metric : NumbersOf(versions', m) # NumbersOf(versions, m) =>
           \A k \in NumbersOf(versions', m) : k <= active'[m]]_vars
  BY <1>1
<1>. QED  BY Invariance, <1>2, PTL DEF Spec, PublishIsNewest

(* The interleaved requests implement the register of immutable versions:    *)
(* a publish takes effect at its commit, as if it had been one step.         *)
THEOREM Refinement == Spec => ImplementsRegister
<1>1. Init => Register!Init
  BY DEF Init, Register!Init
<1>2. ASSUME IInv, [Next]_vars PROVE [Register!Next]_(Register!vars)
  <2>1. ASSUME NEW r \in Request, CommitPublish(r) PROVE Register!Next
    <3>. DEFINE tx == pub[r]
    <3>1. /\ tx \in PublishTx
          /\ tx.number \in 1..MaxVersion
          /\ tx.number \notin NumbersOf(versions, tx.metric)
          /\ \A k \in 1..(tx.number - 1) : k \in NumbersOf(versions, tx.metric)
          /\ active' = [active EXCEPT ![tx.metric] = tx.number]
      BY <1>2, <2>1, CommitNumbers DEF IInv
    <3>2. tx.metric \in Metric /\ tx.content \in Content /\ tx.run \in BOOLEAN
      BY <3>1 DEF PublishTx
    <3>3. versions' = versions \cup
            {[metric |-> tx.metric, number |-> tx.number,
              content |-> tx.content, run |-> tx.run]}
      BY <2>1 DEF CommitPublish, CommitTables
    <3>4. Register!Publish(tx.metric)
      BY <3>1, <3>2, <3>3 DEF Register!Publish, Register!NumbersOf, NumbersOf
    <3>. QED  BY <3>2, <3>4 DEF Register!Next
  <2>2. ASSUME NEW r \in Request, CommitRollback(r) PROVE Register!Next
    <3>. DEFINE m == edit[r].metric
    <3>1. m \in Metric /\ edit[r].to \in NumbersOf(versions, m)
      BY <1>2, <2>2, EditFields DEF CommitRollback, IInv, TypeOK, RollbackTargets
    <3>2. 0 \notin NumbersOf(versions, m)
      BY <1>2 DEF IInv, TypeOK, Version, NumbersOf
    <3>3. active[m] # 0
      BY <1>2, <3>1, <3>2 DEF IInv, Core, ActivePointsAtVersion
    <3>4. Register!MovePointer(m)
      BY <2>2, <3>1, <3>3 DEF CommitRollback, Finish, Register!MovePointer,
                              Register!NumbersOf, NumbersOf
    <3>. QED  BY <3>1, <3>4 DEF Register!Next
  <2>3. CASE \A r \in Request : ~CommitPublish(r) /\ ~CommitRollback(r)
    <3>1. versions' = versions /\ active' = active
      BY <1>2, <2>3, OtherSteps
    <3>. QED  BY <3>1 DEF Register!vars
  <2>. QED  BY <2>1, <2>2, <2>3
<1>. QED
  BY Invariance, <1>1, <1>2, PTL DEF Spec, ImplementsRegister, Register!Spec
-----------------------------------------------------------------------------
(***************************************************************************)
(* Requests that do not meet.  The trust of a query and the agreement of a *)
(* published metric's row with its version are lost when requests on one   *)
(* metric overlap (the run lifecycle_stale_trust shows how for trust);     *)
(* nothing in the code forbids that.  They hold as long as requests stay   *)
(* Apart: those on unrelated metrics may interleave statement by           *)
(* statement, and all other requests too.                                  *)
(***************************************************************************)
(***************************************************************************)
(* What was read is then still so at the commit.  A metric is published at *)
(* most once: it leaves PUBLISHED for DEPRECATED only, and DEPRECATED      *)
(* never.  So a rollback finds the one version that is in force already.   *)
(***************************************************************************)
PubAgrees(r) ==
  pub[r] # Idle =>
    /\ edit[r] = Idle
    /\ status[pub[r].metric] = "TESTING"
    /\ pub[r].at = "marked" =>
         \A q \in Query : qstatus[q] = "VERIFIED" /\ pub[r].metric \in Deps[q] => q \in pub[r].marked

EditAgrees(r) ==
  edit[r] # Idle =>
    /\ edit[r].op \in {"transition", "seed"} => status[edit[r].metric] \in {"DRAFT", "TESTING"}
    /\ edit[r].op = "verify" => \A m \in Deps[edit[r].query] : edit[r].seen[m] = active[m]

SlotsAgree == \A r \in Request : PubAgrees(r) /\ EditAgrees(r)

PublishedOnce ==
  \A m \in Metric :
    /\ NumbersOf(versions, m) \subseteq {1}
    /\ status[m] \in {"DRAFT", "TESTING"} => NumbersOf(versions, m) = {}

AInv == SlotsAgree /\ PublishedOnce /\ TrustedQueriesFresh

LEMMA OthersElsewhere ==
  ASSUME SlotsAgree, Apart, NEW r \in Request, NEW s \in Request \ {r}, NEW m \in Changes(r)
  PROVE  /\ pub[s] # Idle => pub[s].metric # m
         /\ edit[s] # Idle /\ edit[s].op \in {"transition", "rollback", "deprecate", "seed"}
              => edit[s].metric # m
         /\ edit[s] # Idle /\ edit[s].op = "verify" => m \notin Deps[edit[s].query]
<1>1. m \notin Changes(s) /\ m \notin RestsOn(s)
  BY DEF Apart
<1>2. pub[s] # Idle => edit[s] = Idle
  BY DEF SlotsAgree, PubAgrees
<1>. QED  BY <1>1, <1>2 DEF Changes, RestsOn

(* A slot is not disturbed by what is written of another metric, nor by     *)
(* queries that lose their trust.                                           *)
LEMMA SlotFrame ==
  ASSUME TypeOK, SlotsAgree, NEW s \in Request, pub'[s] = pub[s], edit'[s] = edit[s], NEW m,
         \A n \in Metric : n # m => status'[n] = status[n] /\ active'[n] = active[n],
         \A q \in Query : qstatus'[q] = "VERIFIED" => qstatus[q] = "VERIFIED",
         pub[s] # Idle => pub[s].metric # m,
         edit[s] # Idle /\ edit[s].op \in {"transition", "seed"} => edit[s].metric # m,
         edit[s] # Idle /\ edit[s].op = "verify" => m \notin Deps[edit[s].query]
  PROVE  PubAgrees(s)' /\ EditAgrees(s)'
<1>1. PubAgrees(s) /\ EditAgrees(s)
  BY DEF SlotsAgree
<1>2. PubAgrees(s)'
  <2>1. pub[s] # Idle => pub[s].metric \in Metric
    BY DEF TypeOK, PublishTx
  <2>. QED  BY <1>1, <2>1 DEF PubAgrees
<1>3. EditAgrees(s)'
  <2>1. edit[s] # Idle /\ edit[s].op \in {"transition", "seed"} => edit[s].metric \in Metric
    BY EditFields DEF TypeOK
  <2>2. edit[s] # Idle /\ edit[s].op = "verify" => Deps[edit[s].query] \subseteq Metric
    BY EditFields, DepsAssumption DEF TypeOK
  <2>. QED  BY <1>1, <2>1, <2>2 DEF EditAgrees
<1>. QED  BY <1>2, <1>3

(* A step that writes no status, version or pointer and gives no query new   *)
(* trust disturbs none but the slots it writes.                              *)
LEMMA QuietStep ==
  ASSUME TypeOK, AInv, UNCHANGED <<status, versions, active, reviewed>>,
         \A q \in Query : qstatus'[q] = "VERIFIED" => qstatus[q] = "VERIFIED",
         \A s \in Request : \/ pub'[s] = pub[s] /\ edit'[s] = edit[s]
                            \/ PubAgrees(s)' /\ EditAgrees(s)'
  PROVE  AInv'
<1>1. ASSUME NEW s \in Request, pub'[s] = pub[s] /\ edit'[s] = edit[s]
      PROVE  PubAgrees(s)' /\ EditAgrees(s)'
  BY <1>1 DEF AInv, SlotsAgree, PubAgrees, EditAgrees
<1>2. SlotsAgree'
  BY <1>1 DEF SlotsAgree
<1>3. PublishedOnce' /\ TrustedQueriesFresh'
  BY DEF AInv, PublishedOnce, TrustedQueriesFresh, NumbersOf
<1>. QED  BY <1>2, <1>3 DEF AInv

LEMMA StartAgrees ==
  ASSUME TypeOK, AInv, NEW r \in Request, NEW tx \in EditTx, Start(r, tx),
         tx.op \in {"transition", "seed"} => status[tx.metric] \in {"DRAFT", "TESTING"},
         tx.op = "verify" => tx.seen = active
  PROVE  AInv'
<1>1. /\ edit'[r] = tx /\ pub'[r] = Idle
      /\ \A s \in Request \ {r} : pub'[s] = pub[s] /\ edit'[s] = edit[s]
      /\ UNCHANGED tables
  BY DEF Start, Free, TypeOK
<1>2. PubAgrees(r)'
  BY <1>1 DEF PubAgrees
<1>3. EditAgrees(r)'
  BY <1>1 DEF EditAgrees, tables
<1>. QED  BY <1>1, <1>2, <1>3, QuietStep DEF tables

LEMMA BeginAgrees ==
  ASSUME TypeOK, AInv, NEW r \in Request, Begin(r)
  PROVE  AInv'
<1>1. ASSUME NEW m \in Metric, NEW to \in Targets, BeginTransition(r, m, to)
      PROVE  AInv'
  <2>. DEFINE tx == [op |-> "transition", metric |-> m, to |-> to]
  <2>1. tx \in EditTx /\ tx.op = "transition" /\ tx.metric = m
    BY TargetsAssumption DEF EditTx
  <2>2. status[m] \in {"DRAFT", "TESTING"}
    BY <1>1 DEF BeginTransition, Allowed, TypeOK, Status
  <2>. QED  BY <1>1, <2>1, <2>2, StartAgrees DEF BeginTransition
<1>2. ASSUME NEW m \in Metric, NEW require \in RequireFlags, NEW run \in BOOLEAN,
             BeginPublish(r, m, require, run)
      PROVE  AInv'
  <2>. DEFINE tx == [at |-> "read", metric |-> m, content |-> draft[m], run |-> run,
                     number |-> 0, hasActive |-> FALSE, marked |-> {}]
  <2>1. /\ pub' = [pub EXCEPT ![r] = tx] /\ edit' = edit /\ edit[r] = Idle /\ UNCHANGED tables
        /\ tx.at = "read" /\ tx.metric = m /\ status[m] = "TESTING"
    BY <1>2 DEF BeginPublish, OpenPublish, Free
  <2>. HIDE DEF tx
  <2>2. pub'[r] = tx /\ \A s \in Request \ {r} : pub'[s] = pub[s]
    BY <2>1 DEF TypeOK
  <2>3. PubAgrees(r)'
    BY <2>1, <2>2 DEF PubAgrees, tables
  <2>4. EditAgrees(r)'
    BY <2>1 DEF EditAgrees
  <2>. QED  BY <2>1, <2>2, <2>3, <2>4, QuietStep DEF tables
<1>3. ASSUME NEW m \in Metric, NEW n \in 1..MaxVersion, BeginRollback(r, m, n)
      PROVE  AInv'
  <2>. DEFINE tx == [op |-> "rollback", metric |-> m, to |-> n]
  <2>1. tx \in EditTx /\ tx.op = "rollback"
    BY MaxVersionAssumption DEF EditTx
  <2>. QED  BY <1>3, <2>1, StartAgrees DEF BeginRollback
<1>4. ASSUME NEW m \in Metric, BeginDeprecate(r, m)
      PROVE  AInv'
  <2>. DEFINE tx == [op |-> "deprecate", metric |-> m]
  <2>1. tx \in EditTx /\ tx.op = "deprecate"
    BY DEF EditTx
  <2>. QED  BY <1>4, <2>1, StartAgrees DEF BeginDeprecate
<1>5. ASSUME NEW m \in Metric, NEW c \in Content, BeginSeed(r, m, c)
      PROVE  AInv'
  <2>. DEFINE tx == [op |-> "seed", metric |-> m, content |-> c]
  <2>1. tx \in EditTx /\ tx.op = "seed" /\ tx.metric = m
    BY DEF EditTx
  <2>. QED  BY <1>5, <2>1, StartAgrees DEF BeginSeed
<1>6. ASSUME NEW q \in Query, BeginVerify(r, q)
      PROVE  AInv'
  <2>. DEFINE tx == [op |-> "verify", query |-> q, seen |-> active]
  <2>1. tx \in EditTx /\ tx.op = "verify" /\ tx.seen = active
    BY DEF EditTx, TypeOK
  <2>. QED  BY <1>6, <2>1, StartAgrees DEF BeginVerify
<1>7. ASSUME NEW q \in Query, BeginInvalidate(r, q)
      PROVE  AInv'
  <2>. DEFINE tx == [op |-> "invalidate", query |-> q, writes |-> qstatus[q] # "INVALID"]
  <2>1. tx \in EditTx /\ tx.op = "invalidate"
    BY DEF EditTx
  <2>. QED  BY <1>7, <2>1, StartAgrees DEF BeginInvalidate
<1>8. ASSUME NEW q \in Query, NEW passes \in BOOLEAN, BeginRevalidate(r, q, passes)
      PROVE  AInv'
  <2>. DEFINE tx == [op |-> "re_validate", query |-> q,
                     writes |-> passes /\ qstatus[q] # "DRAFT"]
  <2>1. tx \in EditTx /\ tx.op = "re_validate"
    BY DEF EditTx
  <2>. QED  BY <1>8, <2>1, StartAgrees DEF BeginRevalidate
<1>. QED
  BY <1>1, <1>2, <1>3, <1>4, <1>5, <1>6, <1>7, <1>8 DEF Begin

(* A publish on its way keeps its metric; what it marks is all there is.     *)
LEMMA PublishAgrees ==
  ASSUME TypeOK, AInv, NEW r \in Request, PublishStep(r), ~CommitPublish(r)
  PROVE  AInv'
<1>. DEFINE old == pub[r]
<1>0. /\ old \in PublishTx /\ edit[r] = Idle /\ status[old.metric] = "TESTING"
      /\ UNCHANGED tables /\ edit' = edit
  BY DEF PublishStep, NumberVersion, InsertVersion, ReadPointer, FlushPublish, MarkDependents,
         TypeOK, AInv, SlotsAgree, PubAgrees
<1>1. EditAgrees(r)'
  BY <1>0 DEF EditAgrees
<1>2. ASSUME NEW tx, pub' = [pub EXCEPT ![r] = tx],
             tx # Idle => /\ tx.metric = old.metric
                          /\ tx.at = "marked" =>
                               \A q \in Query : qstatus[q] = "VERIFIED" /\ old.metric \in Deps[q]
                                  => q \in tx.marked
      PROVE  AInv'
  <2>1. pub'[r] = tx /\ \A s \in Request \ {r} : pub'[s] = pub[s]
    BY <1>2 DEF TypeOK
  <2>2. PubAgrees(r)'
    BY <1>0, <1>2, <2>1 DEF PubAgrees, tables
  <2>. QED  BY <1>0, <1>1, <2>1, <2>2, QuietStep DEF tables
<1>3. CASE NumberVersion(r)
  <2>1. PICK n \in 0..(MaxVersion - 1) :
          pub' = [pub EXCEPT ![r] = [old EXCEPT !.at = "numbered", !.number = n + 1]]
    BY <1>3 DEF NumberVersion
  <2>. DEFINE tx == [old EXCEPT !.at = "numbered", !.number = n + 1]
  <2>2. tx.metric = old.metric /\ tx.at = "numbered"
    BY <1>0 DEF PublishTx
  <2>. HIDE DEF tx
  <2>. QED  BY <1>2, <2>1, <2>2 DEF tx
<1>4. CASE InsertVersion(r)
  <2>. DEFINE tx == [old EXCEPT !.at = "inserted"]
  <2>1. tx.metric = old.metric /\ tx.at = "inserted"
    BY <1>0 DEF PublishTx
  <2>2. pub' = [pub EXCEPT ![r] = Idle] \/ pub' = [pub EXCEPT ![r] = tx]
    BY <1>4 DEF InsertVersion
  <2>. HIDE DEF tx
  <2>. QED  BY <1>2, <2>1, <2>2
<1>5. CASE ReadPointer(r)
  <2>. DEFINE tx == [old EXCEPT !.at = "pointed", !.hasActive = active[old.metric] # 0]
  <2>1. tx.metric = old.metric /\ tx.at = "pointed"
    BY <1>0 DEF PublishTx
  <2>2. pub' = [pub EXCEPT ![r] = tx]
    BY <1>5 DEF ReadPointer
  <2>. HIDE DEF tx
  <2>. QED  BY <1>2, <2>1, <2>2
<1>6. CASE FlushPublish(r)
  <2>. DEFINE tx == [old EXCEPT !.at = "flushed"]
  <2>1. tx.metric = old.metric /\ tx.at = "flushed"
    BY <1>0 DEF PublishTx
  <2>2. pub' = [pub EXCEPT ![r] = Idle] \/ pub' = [pub EXCEPT ![r] = tx]
    BY <1>6 DEF FlushPublish
  <2>. HIDE DEF tx
  <2>. QED  BY <1>2, <2>1, <2>2
<1>7. CASE MarkDependents(r)
  <2>. DEFINE marked == {q \in Query : qstatus[q] = "VERIFIED" /\ old.metric \in Deps[q]}
              tx == [old EXCEPT !.at = "marked", !.marked = marked]
  <2>1. tx.metric = old.metric /\ tx.marked = marked
    BY <1>0 DEF PublishTx
  <2>2. pub' = [pub EXCEPT ![r] = tx]
    BY <1>7 DEF MarkDependents
  <2>. HIDE DEF tx
  <2>. QED  BY <1>2, <2>1, <2>2
<1>. QED  BY <1>3, <1>4, <1>5, <1>6, <1>7 DEF PublishStep

(* The commit of a publish: its metric had no version, and gets number 1;    *)
(* every query that was trusted and depends on it is marked.                 *)
LEMMA CommitPublishAgrees ==
  ASSUME IInv, AInv, Apart, NEW r \in Request, CommitPublish(r)
  PROVE  AInv'
<1>. DEFINE tx == pub[r]
            m == tx.metric
<1>1. TypeOK /\ Core
  BY DEF IInv
<1>2. /\ tx \in PublishTx /\ tx # Idle /\ tx.at = "marked" /\ m \in Metric
      /\ tx.number \in 1..MaxVersion
      /\ \A k \in 1..(tx.number - 1) : k \in NumbersOf(versions, m)
      /\ NumbersOf(versions', m) = NumbersOf(versions, m) \cup {tx.number}
      /\ \A n \in Metric \ {m} : NumbersOf(versions', n) = NumbersOf(versions, n)
      /\ active' = [active EXCEPT ![m] = tx.number]
      /\ pub' = [pub EXCEPT ![r] = Idle]
  BY <1>1, CommitNumbers DEF CommitPublish, PublishTx
<1>3. /\ status' = [status EXCEPT ![m] = "PUBLISHED"]
      /\ qstatus' = [q \in Query |-> IF q \in tx.marked THEN "INVALID" ELSE qstatus[q]]
      /\ UNCHANGED <<reviewed, edit>>
  BY DEF CommitPublish, CommitTables
<1>4. /\ edit[r] = Idle /\ status[m] = "TESTING" /\ NumbersOf(versions, m) = {}
      /\ \A q \in Query : qstatus[q] = "VERIFIED" /\ m \in Deps[q] => q \in tx.marked
  BY <1>2 DEF AInv, SlotsAgree, PubAgrees, PublishedOnce
<1>5. tx.number = 1
  <2>1. 1 \notin 1..(tx.number - 1)
    BY <1>2, <1>4
  <2>. QED  BY <1>2, <2>1, MaxVersionAssumption
<1>6. /\ status'[m] = "PUBLISHED"
      /\ \A n \in Metric : n # m => status'[n] = status[n] /\ active'[n] = active[n]
      /\ \A q \in Query : qstatus'[q] = "VERIFIED" => qstatus[q] = "VERIFIED" /\ m \notin Deps[q]
  BY <1>1, <1>2, <1>3, <1>4 DEF TypeOK
<1>7. PublishedOnce'
  BY <1>2, <1>4, <1>5, <1>6 DEF AInv, PublishedOnce
<1>8. m \in Changes(r)
  BY <1>2 DEF Changes
<1>9. SlotsAgree'
  <2>1. PubAgrees(r)' /\ EditAgrees(r)'
    BY <1>1, <1>2, <1>3, <1>4 DEF PubAgrees, EditAgrees, TypeOK
  <2>2. ASSUME NEW s \in Request \ {r} PROVE PubAgrees(s)' /\ EditAgrees(s)'
    <3>1. pub'[s] = pub[s] /\ edit'[s] = edit[s]
      BY <1>1, <1>2, <1>3 DEF TypeOK
    <3>2. /\ pub[s] # Idle => pub[s].metric # m
          /\ edit[s] # Idle /\ edit[s].op \in {"transition", "rollback", "deprecate", "seed"}
               => edit[s].metric # m
          /\ edit[s] # Idle /\ edit[s].op = "verify" => m \notin Deps[edit[s].query]
      BY <1>8, OthersElsewhere DEF AInv
    <3>. QED  BY <1>1, <1>6, <3>1, <3>2, SlotFrame DEF AInv
  <2>. QED  BY <2>1, <2>2 DEF SlotsAgree
<1>10. TrustedQueriesFresh'
  <2>1. SUFFICES ASSUME NEW q \in Query, qstatus'[q] = "VERIFIED", NEW n \in Deps[q]
                 PROVE  reviewed[q][n] = active'[n]
    BY <1>3 DEF TrustedQueriesFresh
  <2>2. n \in Metric /\ n # m /\ qstatus[q] = "VERIFIED"
    BY <1>6, <2>1, DepsAssumption
  <2>. QED  BY <1>6, <2>2 DEF AInv, TrustedQueriesFresh
<1>. QED  BY <1>7, <1>9, <1>10 DEF AInv

(* A commit that writes the rows of one metric only, and no pointer.         *)
LEMMA StatusCommitAgrees ==
  ASSUME TypeOK, AInv, Apart, NEW r \in Request, NEW m \in Changes(r), NEW st,
         m \in Metric, edit[r] # Idle, status' = [status EXCEPT ![m] = st], Finish(r),
         UNCHANGED <<versions, active, qstatus, reviewed>>,
         st \in {"DRAFT", "TESTING"} => NumbersOf(versions, m) = {}
  PROVE  AInv'
<1>1. /\ status'[m] = st /\ \A n \in Metric : n # m => status'[n] = status[n]
      /\ edit'[r] = Idle /\ \A s \in Request \ {r} : edit'[s] = edit[s]
      /\ pub' = pub
  BY DEF TypeOK, Finish
<1>2. PublishedOnce'
  BY <1>1 DEF AInv, PublishedOnce, NumbersOf
<1>3. TrustedQueriesFresh'
  BY DEF AInv, TrustedQueriesFresh
<1>4. PubAgrees(r)' /\ EditAgrees(r)'
  BY <1>1 DEF PubAgrees, EditAgrees, AInv, SlotsAgree
<1>5. ASSUME NEW s \in Request \ {r} PROVE PubAgrees(s)' /\ EditAgrees(s)'
  <2>1. /\ pub[s] # Idle => pub[s].metric # m
        /\ edit[s] # Idle /\ edit[s].op \in {"transition", "rollback", "deprecate", "seed"}
             => edit[s].metric # m
        /\ edit[s] # Idle /\ edit[s].op = "verify" => m \notin Deps[edit[s].query]
    BY OthersElsewhere DEF AInv
  <2>. QED  BY <1>1, <2>1, SlotFrame DEF AInv
<1>6. SlotsAgree'
  BY <1>4, <1>5 DEF SlotsAgree
<1>. QED  BY <1>2, <1>3, <1>6 DEF AInv

LEMMA EditAgreesStep ==
  ASSUME IInv, AInv, Apart, NEW r \in Request, EditStep(r)
  PROVE  AInv'
<1>. DEFINE e == edit[r]
<1>0. TypeOK /\ (e # Idle => e \in EditTx /\ EditAgrees(r) /\ pub[r] = Idle)
  BY DEF IInv, TypeOK, AInv, SlotsAgree, PubAgrees
<1>1. ASSUME Finish(r), e # Idle
      PROVE  /\ PubAgrees(r)' /\ EditAgrees(r)'
             /\ pub' = pub /\ \A s \in Request \ {r} : edit'[s] = edit[s]
  BY <1>0, <1>1 DEF Finish, TypeOK, PubAgrees, EditAgrees
<1>2. CASE CommitTransition(r)
  <2>1. e # Idle /\ e.op = "transition" /\ e.metric \in Metric /\ e.metric \in Changes(r)
    BY <1>0, <1>2, EditFields DEF CommitTransition, Changes
  <2>2. NumbersOf(versions, e.metric) = {}
    BY <1>0, <2>1 DEF EditAgrees, AInv, PublishedOnce
  <2>. QED  BY <1>0, <1>2, <2>1, <2>2, StatusCommitAgrees DEF CommitTransition
<1>3. CASE CommitRollback(r)
  <2>1. e # Idle /\ e.metric \in Metric /\ e.to \in NumbersOf(versions, e.metric)
    BY <1>0, <1>3, EditFields DEF CommitRollback, IInv, RollbackTargets
  <2>2. e.to = 1 /\ active[e.metric] = 1
    BY <2>1 DEF AInv, PublishedOnce, IInv, Core, ActivePointsAtVersion
  <2>3. active' = active
    BY <1>0, <1>3, <2>1, <2>2 DEF CommitRollback, TypeOK
  <2>. QED  BY <1>0, <1>1, <1>3, <2>1, <2>3, QuietStep DEF CommitRollback
<1>4. CASE CommitDeprecate(r)
  <2>1. e # Idle /\ e.metric \in Metric /\ e.metric \in Changes(r)
    BY <1>0, <1>4, EditFields DEF CommitDeprecate, Changes
  <2>. QED  BY <1>0, <1>4, <2>1, StatusCommitAgrees DEF CommitDeprecate
<1>5. CASE CommitSeed(r)
  BY <1>0, <1>1, <1>5, QuietStep DEF CommitSeed
<1>6. CASE CommitInvalidate(r) \/ CommitRevalidate(r)
  <2>1. e # Idle /\ Finish(r) /\ UNCHANGED <<status, versions, active, reviewed>>
    BY <1>6 DEF CommitInvalidate, CommitRevalidate, CommitQueryStatus
  <2>2. \A q \in Query : qstatus'[q] = "VERIFIED" => qstatus[q] = "VERIFIED"
    BY <1>0, <1>6 DEF CommitInvalidate, CommitRevalidate, CommitQueryStatus, TypeOK
  <2>. QED  BY <1>0, <1>1, <2>1, <2>2, QuietStep
<1>7. CASE CommitVerify(r)
  <2>. DEFINE q0 == e.query
  <2>1. /\ e # Idle /\ e.op = "verify" /\ q0 \in Query /\ e.seen \in [Metric -> Nat]
        /\ \A m \in Deps[q0] : e.seen[m] = active[m]
    BY <1>0, <1>7, EditFields DEF CommitVerify, EditAgrees
  <2>2. /\ qstatus' = [qstatus EXCEPT ![q0] = "VERIFIED"]
        /\ reviewed' = [reviewed EXCEPT ![q0] = e.seen]
        /\ UNCHANGED <<status, versions, active>> /\ Finish(r)
    BY <1>7 DEF CommitVerify
  <2>3. TrustedQueriesFresh'
    BY <1>0, <2>1, <2>2 DEF TypeOK, AInv, TrustedQueriesFresh
  <2>4. PublishedOnce'
    BY <2>2 DEF AInv, PublishedOnce, NumbersOf
  <2>5. ASSUME NEW s \in Request \ {r} PROVE PubAgrees(s)' /\ EditAgrees(s)'
    <3>1. pub[s] # Idle => pub[s].metric \notin Deps[q0]
      BY <2>1 DEF Apart, Changes, RestsOn
    <3>2. pub'[s] = pub[s] /\ edit'[s] = edit[s]
      BY <1>1, <2>1, <2>2
    <3>3. \A q \in Query : q # q0 => qstatus'[q] = qstatus[q]
      BY <1>0, <2>2 DEF TypeOK
    <3>4. PubAgrees(s)'
      BY <2>2, <3>1, <3>2, <3>3 DEF PubAgrees, AInv, SlotsAgree
    <3>5. EditAgrees(s)'
      BY <2>2, <3>2 DEF EditAgrees, AInv, SlotsAgree
    <3>. QED  BY <3>4, <3>5
  <2>6. SlotsAgree'
    BY <1>1, <2>1, <2>2, <2>5 DEF SlotsAgree
  <2>. QED  BY <2>3, <2>4, <2>6 DEF AInv
<1>. QED
  BY <1>2, <1>3, <1>4, <1>5, <1>6, <1>7 DEF EditStep

LEMMA AgreesStep ==
  ASSUME IInv, AInv, Apart, [Next]_vars
  PROVE  AInv'
<1>0. TypeOK
  BY DEF IInv
<1>1. ASSUME NEW r \in Request, PublishStep(r) PROVE AInv'
  BY <1>0, <1>1, PublishAgrees, CommitPublishAgrees
<1>2. ASSUME NEW r \in Request, Abort(r) PROVE AInv'
  <2>1. PubAgrees(r)' /\ EditAgrees(r)'
    BY <1>0, <1>2 DEF Abort, PubAgrees, EditAgrees, TypeOK
  <2>2. \A s \in Request \ {r} : pub'[s] = pub[s] /\ edit'[s] = edit[s]
    BY <1>0, <1>2 DEF Abort, TypeOK
  <2>. QED  BY <1>0, <1>2, <2>1, <2>2, QuietStep DEF Abort, tables
<1>3. ASSUME NEW q \in Query, NEW checked \in BOOLEAN, AddDraft(q, checked) PROVE AInv'
  BY <1>0, <1>3, QuietStep DEF AddDraft, TypeOK
<1>4. CASE UNCHANGED vars
  BY <1>0, <1>4, QuietStep DEF vars
<1>. QED
  BY <1>0, <1>1, <1>2, <1>3, <1>4, BeginAgrees, EditAgreesStep DEF Next

LEMMA AgreesInitially == Init => AInv
BY DEF Init, AInv, SlotsAgree, PubAgrees, EditAgrees, PublishedOnce, TrustedQueriesFresh, NumbersOf

(* As long as requests do not meet, what they hold agrees with the tables.   *)
THEOREM ApartInvariance == Spec /\ []Apart => []AInv
<1>. QED  BY Invariance, AgreesInitially, AgreesStep, PTL DEF Spec

(* As long as requests do not meet, a verified query was reviewed against   *)
(* the versions in force: publish takes back the trust of its dependents    *)
(* (invalidate_dependent_queries) and rollback changes no pointer.          *)
THEOREM TrustKept == Spec => TrustKeptApart
<1>1. AInv => TrustedQueriesFresh
  BY DEF AInv
<1>. QED  BY ApartInvariance, <1>1, PTL DEF TrustKeptApart
-----------------------------------------------------------------------------
(* What a metric says, in its row, in its versions, and in the snapshot of a *)
(* publish on its way: all the same once there is a version, since only rows *)
(* without one are seeded.                                                   *)

VersionsShown  == \A v \in versions : draft[v.metric] = v.content
SnapshotsFresh == \A r \in Request : pub[r] # Idle => pub[r].content = draft[pub[r].metric]

LEMMA SameDraft ==
  ASSUME TypeOK, VersionsShown, SnapshotsFresh, draft' = draft, versions' = versions,
         \A s \in Request : \/ pub'[s] = pub[s] \/ pub'[s] = Idle
                            \/ pub'[s].content = draft[pub'[s].metric]
  PROVE  VersionsShown' /\ SnapshotsFresh'
BY DEF VersionsShown, SnapshotsFresh

LEMMA PublishShows ==
  ASSUME TypeOK, VersionsShown, SnapshotsFresh, NEW r \in Request, PublishStep(r)
  PROVE  VersionsShown' /\ SnapshotsFresh'
<1>. DEFINE old == pub[r]
<1>0. old \in PublishTx /\ old # Idle /\ draft' = draft /\ old.content = draft[old.metric]
  BY DEF PublishStep, NumberVersion, InsertVersion, ReadPointer, FlushPublish, MarkDependents,
         CommitPublish, CommitTables, tables, TypeOK, SnapshotsFresh
<1>1. ASSUME NEW tx, pub' = [pub EXCEPT ![r] = tx], versions' = versions,
             tx # Idle => tx.metric = old.metric /\ tx.content = old.content
      PROVE  VersionsShown' /\ SnapshotsFresh'
  <2>1. \A s \in Request : pub'[s] = pub[s] \/ pub'[s] = Idle \/ pub'[s].content = draft[pub'[s].metric]
    BY <1>0, <1>1 DEF TypeOK
  <2>. QED  BY <1>0, <1>1, <2>1, SameDraft
<1>2. CASE NumberVersion(r)
  <2>1. PICK n \in 0..(MaxVersion - 1) :
          pub' = [pub EXCEPT ![r] = [old EXCEPT !.at = "numbered", !.number = n + 1]]
    BY <1>2 DEF NumberVersion
  <2>. DEFINE tx == [old EXCEPT !.at = "numbered", !.number = n + 1]
  <2>2. tx.metric = old.metric /\ tx.content = old.content
    BY <1>0 DEF PublishTx
  <2>3. versions' = versions
    BY <1>2 DEF NumberVersion, tables
  <2>. HIDE DEF tx
  <2>. QED  BY <1>1, <2>1, <2>2, <2>3 DEF tx
<1>3. CASE InsertVersion(r)
  <2>. DEFINE tx == [old EXCEPT !.at = "inserted"]
  <2>1. tx.metric = old.metric /\ tx.content = old.content
    BY <1>0 DEF PublishTx
  <2>2. (pub' = [pub EXCEPT ![r] = Idle] \/ pub' = [pub EXCEPT ![r] = tx]) /\ versions' = versions
    BY <1>3 DEF InsertVersion, tables
  <2>. HIDE DEF tx
  <2>. QED  BY <1>1, <2>1, <2>2
<1>4. CASE ReadPointer(r)
  <2>. DEFINE tx == [old EXCEPT !.at = "pointed", !.hasActive = active[old.metric] # 0]
  <2>1. tx.metric = old.metric /\ tx.content = old.content
    BY <1>0 DEF PublishTx
  <2>2. pub' = [pub EXCEPT ![r] = tx] /\ versions' = versions
    BY <1>4 DEF ReadPointer, tables
  <2>. HIDE DEF tx
  <2>. QED  BY <1>1, <2>1, <2>2
<1>5. CASE FlushPublish(r)
  <2>. DEFINE tx == [old EXCEPT !.at = "flushed"]
  <2>1. tx.metric = old.metric /\ tx.content = old.content
    BY <1>0 DEF PublishTx
  <2>2. (pub' = [pub EXCEPT ![r] = Idle] \/ pub' = [pub EXCEPT ![r] = tx]) /\ versions' = versions
    BY <1>5 DEF FlushPublish, tables
  <2>. HIDE DEF tx
  <2>. QED  BY <1>1, <2>1, <2>2
<1>6. CASE MarkDependents(r)
  <2>. DEFINE marked == {q \in Query : qstatus[q] = "VERIFIED" /\ old.metric \in Deps[q]}
              tx == [old EXCEPT !.at = "marked", !.marked = marked]
  <2>1. tx.metric = old.metric /\ tx.content = old.content
    BY <1>0 DEF PublishTx
  <2>2. pub' = [pub EXCEPT ![r] = tx] /\ versions' = versions
    BY <1>6 DEF MarkDependents, tables
  <2>. HIDE DEF tx
  <2>. QED  BY <1>1, <2>1, <2>2
<1>7. CASE CommitPublish(r)
  <2>. DEFINE new == [metric |-> old.metric, number |-> old.number,
                      content |-> old.content, run |-> old.run]
  <2>1. pub' = [pub EXCEPT ![r] = Idle] /\ versions' = versions \cup {new}
    BY <1>7 DEF CommitPublish, CommitTables
  <2>2. new.content = draft[new.metric]
    BY <1>0
  <2>. HIDE DEF new
  <2>3. VersionsShown'
    BY <1>0, <2>1, <2>2 DEF VersionsShown
  <2>4. SnapshotsFresh'
    BY <1>0, <2>1 DEF SnapshotsFresh, TypeOK
  <2>. QED  BY <2>3, <2>4
<1>. QED  BY <1>2, <1>3, <1>4, <1>5, <1>6, <1>7 DEF PublishStep

(* A seed writes a row that has no version and that nobody is publishing.    *)
LEMMA SeedShows ==
  ASSUME TypeOK, AInv, Apart, VersionsShown, SnapshotsFresh, NEW r \in Request, CommitSeed(r)
  PROVE  VersionsShown' /\ SnapshotsFresh'
<1>. DEFINE m == edit[r].metric
<1>1. /\ edit[r] # Idle /\ edit[r].op = "seed"
      /\ status[m] \in {"DRAFT", "TESTING"} /\ m \in Metric /\ pub[r] = Idle
  BY EditFields DEF CommitSeed, AInv, SlotsAgree, EditAgrees, PubAgrees, TypeOK
<1>2. /\ \A n \in Metric \ {m} : draft'[n] = draft[n]
      /\ versions' = versions /\ pub' = pub
  BY DEF CommitSeed, Finish, TypeOK
<1>3. \A v \in versions : v.metric \in Metric \ {m}
  <2>1. NumbersOf(versions, m) = {}
    BY <1>1 DEF AInv, PublishedOnce
  <2>2. ASSUME NEW v \in versions PROVE v.metric \in Metric
    BY DEF TypeOK, Version
  <2>3. ASSUME NEW v \in versions, v.metric = m PROVE v.number \in NumbersOf(versions, m)
    BY <2>3 DEF NumbersOf
  <2>. QED  BY <2>1, <2>2, <2>3
<1>4. m \in Changes(r)
  BY <1>1 DEF Changes
<1>5. \A s \in Request : pub[s] # Idle => pub[s].metric \in Metric \ {m}
  <2>1. ASSUME NEW s \in Request, pub[s] # Idle PROVE pub[s].metric \in Metric \ {m}
    <3>1. pub[s].metric \in Metric
      BY <2>1 DEF TypeOK, PublishTx
    <3>2. s # r
      BY <1>1, <2>1
    <3>3. pub[s].metric # m
      BY <1>4, <2>1, <3>2, OthersElsewhere DEF AInv
    <3>. QED  BY <3>1, <3>3
  <2>. QED  BY <2>1
<1>. QED  BY <1>2, <1>3, <1>5 DEF VersionsShown, SnapshotsFresh

LEMMA ShownStep ==
  ASSUME IInv, AInv, Apart, VersionsShown, SnapshotsFresh, [Next]_vars
  PROVE  VersionsShown' /\ SnapshotsFresh'
<1>0. TypeOK
  BY DEF IInv
<1>1. ASSUME NEW r \in Request, NEW m \in Metric, NEW require \in RequireFlags, NEW run \in BOOLEAN,
             BeginPublish(r, m, require, run)
      PROVE  VersionsShown' /\ SnapshotsFresh'
  <2>. DEFINE tx == [at |-> "read", metric |-> m, content |-> draft[m], run |-> run,
                     number |-> 0, hasActive |-> FALSE, marked |-> {}]
  <2>1. pub' = [pub EXCEPT ![r] = tx] /\ draft' = draft /\ versions' = versions
    BY <1>1 DEF BeginPublish, OpenPublish, tables
  <2>2. tx.content = draft[tx.metric]
    OBVIOUS
  <2>. HIDE DEF tx
  <2>3. \A s \in Request : pub'[s] = pub[s] \/ pub'[s].content = draft[pub'[s].metric]
    BY <1>0, <2>1, <2>2 DEF TypeOK
  <2>. QED  BY <1>0, <2>1, <2>3, SameDraft
<1>2. ASSUME NEW r \in Request, PublishStep(r) PROVE VersionsShown' /\ SnapshotsFresh'
  BY <1>0, <1>2, PublishShows
<1>3. ASSUME NEW r \in Request, CommitSeed(r) PROVE VersionsShown' /\ SnapshotsFresh'
  BY <1>0, <1>3, SeedShows
<1>4. ASSUME NEW r \in Request, Abort(r) PROVE VersionsShown' /\ SnapshotsFresh'
  <2>1. draft' = draft /\ versions' = versions /\ \A s \in Request : pub'[s] = pub[s] \/ pub'[s] = Idle
    BY <1>0, <1>4 DEF Abort, tables, TypeOK
  <2>. QED  BY <1>0, <2>1, SameDraft
<1>5. ASSUME draft' = draft, versions' = versions, pub' = pub
      PROVE  VersionsShown' /\ SnapshotsFresh'
  BY <1>0, <1>5, SameDraft
<1>6. ASSUME NEW r \in Request, Begin(r), pub' = pub
      PROVE  draft' = draft /\ versions' = versions
  BY <1>6, ZenonT(60) DEF Begin, BeginTransition, BeginPublish, OpenPublish, BeginRollback, BeginDeprecate,
       BeginSeed, BeginVerify, BeginInvalidate, BeginRevalidate, Start, tables
<1>7. ASSUME NEW r \in Request, EditStep(r), ~CommitSeed(r)
      PROVE  draft' = draft /\ versions' = versions /\ pub' = pub
  BY <1>7 DEF EditStep, CommitTransition, CommitRollback, CommitDeprecate, CommitVerify,
       CommitInvalidate, CommitRevalidate, CommitQueryStatus, Finish
<1>8. ASSUME NEW r \in Request, Begin(r)
      PROVE  \/ pub' = pub
             \/ \E m \in Metric, require \in RequireFlags, run \in BOOLEAN :
                  BeginPublish(r, m, require, run)
  BY <1>8, ZenonT(60) DEF Begin, BeginTransition, BeginRollback, BeginDeprecate,
       BeginSeed, BeginVerify, BeginInvalidate, BeginRevalidate, Start
<1>9. ASSUME NEW q \in Query, NEW checked \in BOOLEAN, AddDraft(q, checked)
      PROVE  draft' = draft /\ versions' = versions /\ pub' = pub
  BY <1>9 DEF AddDraft
<1>10. CASE UNCHANGED vars
  BY <1>5, <1>10 DEF vars
<1>11. ASSUME NEW r \in Request, Begin(r) PROVE VersionsShown' /\ SnapshotsFresh'
  BY <1>1, <1>5, <1>6, <1>8, <1>11
<1>12. ASSUME NEW r \in Request, EditStep(r) PROVE VersionsShown' /\ SnapshotsFresh'
  BY <1>3, <1>5, <1>7, <1>12
<1>. QED
  BY <1>2, <1>4, <1>5, <1>9, <1>10, <1>11, <1>12 DEF Next

(* As long as requests do not meet, what the row of a published metric says  *)
(* is what its version says: publish read the row it snapshots when nobody   *)
(* was changing it, and what has a version is never seeded again.            *)
THEOREM ReleaseShown == Spec => ReleaseShownApart
<1>1. Init => VersionsShown /\ SnapshotsFresh
  BY DEF Init, VersionsShown, SnapshotsFresh
<1>2. IInv /\ AInv /\ Apart /\ (VersionsShown /\ SnapshotsFresh) /\ [Next]_vars
        => (VersionsShown /\ SnapshotsFresh)'
  BY ShownStep
<1>3. VersionsShown => ShownIsReleased
  BY DEF VersionsShown, ShownIsReleased
<1>. QED  BY Invariance, ApartInvariance, <1>1, <1>2, <1>3, PTL DEF Spec, ReleaseShownApart
=============================================================================
