------------------------------- MODULE Answering -------------------------------
(***************************************************************************)
(* From a question to what a model is shown or an operator inspects.       *)
(*                                                                         *)
(* Ask is the live path: scope, metrics, and the schema of the prompt      *)
(* (orchestrator/query.py, generation/v3_pipeline.py).  Route, Inspect and *)
(* Reply are the retrieval workbench (api/retrieval_workbench.py): the     *)
(* question is routed, its tables and columns are retrieved, its words are *)
(* linked, and the joins of its tables are completed.  The application     *)
(* state gives the workbench its retriever, linker and join graph; the     *)
(* application itself only sets them up when it is given them.             *)
(* Join and Build are calls of the join graph and the context builder with *)
(* arguments of their own.                                                 *)
(***************************************************************************)
EXTENDS Retrieval, Linking, PromptContext, JoinGraph, NovaCatalog

CONSTANTS
  Questions, Days,  \* the questions, and the days they are asked on
  Inspected,        \* the routed questions that are followed into retrieval
  Registry,         \* the loaded metrics
  Synonyms,         \* of dimensions
  GlossaryTerms,    \* of metrics and values
  NamesOf,          \* the words in the names of a table or column
  ForeignKeys,      \* the columns with foreign keys, as the metadata has them
  Relations,        \* rows of table_relationship, and the sets of them that may
  ActiveSets,       \* be active
  Parts, Budgets    \* what contexts are built of, and for which budgets

ASSUME QuestionsAssumption ==
  \A q \in Questions : q.days \in Nat \cup {NoDays} /\ q.year \in Nat

\* the days of a calendar that has a year before and a year after them
ASSUME DaysAssumption ==
  \A d \in Days : IsDate(d) /\ d \in (2..9998) \X (1..12) \X (1..31)

ASSUME JoinsAssumption ==
  /\ ForeignKeys \in Seq(Range(ForeignKeys)) /\ Relations \in Seq(Range(Relations))
  /\ ActiveSets \subseteq SUBSET (DOMAIN Relations)

\* make_table_doc_id: an id begins with the type of its document, so that it is
\* nobody's name
TableId(doc) == "table:1:public:" \o doc

ASSUME IdsAssumption ==
  \A doc, other \in Tables \cup Columns \cup Examples :
    TableId(doc) # other /\ (TableId(doc) = TableId(other) => doc = other)

ASSUME PartsAssumption ==
  /\ \A parts \in Parts : parts \in [tables : Nat, keys : Nat, ordinary : Nat, metrics : Nat,
                                    values : Nat, joins : Nat, examples : Nat]
  /\ Budgets \subseteq Nat

VARIABLES
  request, \* the last call, with its arguments and what it returned
  reply    \* what the workbench answered

allVars == <<vars, request, reply>>

None == [op |-> "none"]
MaxExamples == 2

Joins == GraphFromForeignKeys(ForeignKeys)
\* the tables whose names start with fact_
Facts == {"fact_order", "fact_order_item", "fact_payment", "fact_refund", "fact_refund_item",
          "fact_inventory_snapshot", "fact_inventory_movement", "fact_stocktake",
          "fact_stocktake_item", "fact_cost_ledger", "fact_expense_ledger", "fact_revenue_ledger",
          "fact_coupon_redemption", "fact_campaign_touch", "fact_marketing_spend"}

AnswerInit ==
  /\ Init
  /\ request = None
  /\ reply = None

\* a call that leaves the searches alone
Call(record) ==
  /\ request' = record
  /\ UNCHANGED <<vars, reply>>

Ask(q) ==
  LET scope == AssessScope(q.words, Registry)
  IN Call([op |-> "ask", status |-> scope.status,
           schema |-> IF scope.status = "PROCESSING"
                      THEN SchemaContext(q.words, MetricEntries(scope.metrics, Registry), Registry)
                      ELSE [tables |-> {}, columns |-> {}]])

RouteQuestion(q, now) == Call([op |-> "route", question |-> q, now |-> now])

Join(source, target) == Call([op |-> "join", source |-> source, target |-> target])

\* the same on a graph loaded from rows
JoinLoaded(active, source, target) ==
  Call([op |-> "load", active |-> active, source |-> source, target |-> target])

Build(parts, budget) == Call([op |-> "build", parts |-> parts, budget |-> budget])

\* an exception of the routing, a range that does not exist, ends the call
Inspect ==
  /\ request \in Inspected /\ reply = None
  /\ LET intent == Route(request.question, request.now)
     IN ~Raises(intent.range) /\ Retrieve(intent.domains)
  /\ UNCHANGED <<request, reply>>

\* the links a linker finds for the question in the retrieved context
Links(linker) ==
  LET intent == Route(request.question, request.now)
      tables == NamedTables(context.tables)
  IN IF linker = "schema"
     THEN SchemaLink(intent, tables, context.columns, NamesOf)
     ELSE SemanticLink(request.question.words, intent, tables, context.columns,
                       NamesOf, Registry, Synonyms, GlossaryTerms)

\* a table that only the vector index found has no name: its id stands for it
TableName(c) == IF c.full THEN c.doc ELSE TableId(c.doc)

Reply(linker) ==
  /\ stage = "context" /\ request.op = "route"
  /\ LET selected == [i \in DOMAIN context.tables |-> TableName(context.tables[i])]
     IN reply' =
          [op |-> "inspected",
           selected |-> selected,
           links |-> Links(linker),
           joins |-> CompleteSchema(Joins, selected, Facts)]
  /\ Done
  /\ UNCHANGED request

CallExamples(domains) ==
  /\ SearchExamples(domains)
  /\ UNCHANGED <<request, reply>>

\* the context goes to the value linker
CallValue(v) ==
  /\ LinkValue(v)
  /\ UNCHANGED <<request, reply>>

Finish ==
  /\ stage = "answered"
  /\ Done
  /\ UNCHANGED <<request, reply>>

\* the caller has what it asked for
Return ==
  /\ stage = "idle" /\ request # None
  /\ request' = None
  /\ reply' = None
  /\ UNCHANGED vars

\* one call at a time
Calls ==
  /\ stage = "idle" /\ request = None
  /\ \/ \E q \in Questions : Ask(q)
     \/ \E q \in Questions, now \in Days : RouteQuestion(q, now)
     \/ \E source, target \in DOMAIN Joins.out : Join(source, target)
     \/ \E active \in ActiveSets :
          \E source, target \in Nodes(Relations) : JoinLoaded(active, source, target)
     \/ \E parts \in Parts, budget \in Budgets : Build(parts, budget)
     \/ \E domains \in SUBSET {DomainOf[t] : t \in Tables} : CallExamples(domains)

AnswerNext ==
  \/ Calls
  \/ Inspect
  \/ \E linker \in {"schema", "semantic"} : Reply(linker)
  \/ \E v \in Values : CallValue(v)
  \/ SearchStep /\ UNCHANGED <<request, reply>>
  \/ Finish
  \/ Return

AnswerSpec == AnswerInit /\ [][AnswerNext]_allVars
-----------------------------------------------------------------------------
(* Whatever the question and the day: see RangeSound (domain/router.py).    *)
RangesSound ==
  request.op = "route" => RangeSound(request.question, request.now)

(* Between any two tables, of the catalog or of a graph with cycles,        *)
(* parallel joins and longer paths, exactly the shortest join paths of at   *)
(* most five joins are found (linking/join_graph.py:224).                   *)
JoinsShortest ==
  /\ request.op = "join" => FindsShortest(Joins, request.source, request.target, MaxDepth)
  /\ request.op = "load" => FindsShortest(LoadFromRecords(Relations, request.active),
                                         request.source, request.target, MaxDepth)

(* Unless a missing path is reported, the completed tables of a pair, and   *)
(* those of an inspected question, hang together by joins among them, and   *)
(* a table that has only its id for a name is never passed over             *)
(* (linking/join_graph.py:283, search/retrieval.py:66).                     *)
CompletionJoined ==
  /\ request.op = "join" => CompletionJoins(Joins, <<request.source, request.target>>, Facts)
  /\ reply.op = "inspected" =>
       /\ Len(reply.selected) > 1 => CompletionJoins(Joins, reply.selected, Facts)
       /\ Len(reply.selected) > 1 /\ ~reply.joins.clarify =>
            \A i \in DOMAIN reply.selected : reply.selected[i] \in DOMAIN Joins.out

(* Of an inspected question: see LinksMore (linking/semantic_linker.py).    *)
SemanticLinksMore ==
  stage = "context" /\ request.op = "route" =>
    LinksMore(Links("schema"), Links("semantic"), request.question.words)

(* A context is trimmed to its budget and no more than it asks for (see     *)
(* TrimmedRight), and what a search kept is within its budget but for keys. *)
(* Time fields are trimmed like others in both, although context.py:397 and *)
(* retrieval.py:10 list them with the keys.                                 *)
ContextTrimmed ==
  /\ request.op = "build" => TrimmedRight(request.parts, MaxExamples, request.budget)
  /\ BudgetKept

(* The prompt only shows tables the business database has: the columns a    *)
(* metric depends on are "the list of physical columns" (semantic/          *)
(* models.py:156, semantic/registry.py:70).                                 *)
PromptPhysical ==
  request.op = "ask" => request.schema.tables \subseteq TableNames
=============================================================================
