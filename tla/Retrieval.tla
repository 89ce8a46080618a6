------------------------------- MODULE Retrieval -------------------------------
(***************************************************************************)
(* Retrieval of the tables, columns, values and verified queries that a    *)
(* question needs (server/search, server/linking/value.py).                *)
(*                                                                         *)
(* One request at a time asks two routes, the full text index (OpenSearch, *)
(* "bm25") and the vector index (Milvus, "dense"), which answer in either  *)
(* order, run into their timeout or fail.  The two rankings are fused and  *)
(* reranked; a schema request does this for tables and then for columns,   *)
(* and trims what it kept to a token budget.                               *)
(*                                                                         *)
(* What an index answers is any ranking of the documents the filters let   *)
(* through.  A candidate is full when its payload is the whole document:   *)
(* Milvus returns no more of it than DEFAULT_OUTPUT_FIELDS, without names  *)
(* and without the flags of keys.  A score is a fraction <<n, d>>.         *)
(***************************************************************************)
EXTENDS Integers, Sequences, FiniteSets, Functions, Lists

CONSTANTS
  Tables, Columns, Examples, \* the indexed documents, by type
  TableOf,                   \* the table of a column
  Domains,                   \* the business domains
  DomainOf,                  \* that of a table or example
  Keys,                      \* the columns with is_primary_key or foreign_key_ref
  Reranker,                  \* whether a reranker is configured
  TopTables, TopColumns,     \* top_table_n, top_col_n
  TopValues, TopExamples,    \* the top_k of the two other searches
  Budget,                    \* token_budget
  RawScores,                 \* scores a route may give to a value's candidates
  Values                     \* what a filter may ask for: see LinkValue

ASSUME DocsAssumption == IsFiniteSet(Tables) /\ IsFiniteSet(Columns) /\ IsFiniteSet(Examples)
ASSUME KeysAssumption == Keys \subseteq Columns
ASSUME TopsAssumption ==
  /\ {TopTables, TopColumns, TopValues, TopExamples} \subseteq Nat \ {0}
  /\ Budget \in Nat
ASSUME ScoresAssumption == RawScores \subseteq Nat \X (Nat \ {0})

VARIABLES
  stage,   \* what is being searched for, or "idle", or "context": its result
  allowed, \* allowed_domains of the searches; none at all means no filter
  bm25,    \* the answer of each route, or Pending
  dense,
  merged,  \* what the search for examples returned
  context, \* SchemaContext: tables in order, columns as a set
  typed    \* the columns a value was linked to, with the evidence

vars == <<stage, allowed, bm25, dense, merged, context, typed>>

TokensPerTable == 20
TokensPerColumn == 15

\* answer, before one has come
Pending == [status |-> "PENDING", list |-> <<>>]
Failed == [status |-> "FAILED", list |-> <<>>]
Degraded == [status |-> "DEGRADED", list |-> <<>>]
Ok(list) == [status |-> "OK", list |-> list]
NoContext == [tables |-> <<>>, columns |-> {}]

Searching == stage \in {"tables", "columns", "values", "examples"}

Docs(list) == {list[i].doc : i \in DOMAIN list}
IsKey(c) == c.full /\ c.doc \in Keys
Take(list, n) == SubSeq(list, 1, IF n < Len(list) THEN n ELSE Len(list))
Domain(doc) == IF doc \in Columns THEN DomainOf[TableOf[doc]] ELSE DomainOf[doc]

\* the documents a search may return, and how many of them
Type == CASE stage = "tables" -> Tables
          [] stage = "examples" -> Examples
          [] OTHER -> Columns
TopK == CASE stage = "tables" -> 2 * TopTables
          [] stage = "columns" -> 2 * TopColumns
          [] stage = "values" -> TopValues
          [] OTHER -> TopExamples
Matching == {doc \in Type : allowed = {} \/ Domain(doc) \in allowed}

Above(s, t) == s[1] * t[2] > t[1] * s[2]

\* rankings, best first, of some of the documents, with falling scores
Rankings(docs, scores, full, n) ==
  UNION {{[i \in 1..k |-> [doc |-> r[i], full |-> full, score |-> s[i]]] :
            r \in Injection(1..k, docs),
            s \in {f \in [1..k -> scores] : \A i, j \in 1..k : i < j => ~Above(f[j], f[i])}} :
         k \in 0..(IF n < Cardinality(docs) THEN n ELSE Cardinality(docs))}

\* the scores of a route only matter where they are compared: see AcceptValues
Answers(full) ==
  {Ok(list) : list \in Rankings(Matching, IF stage = "values" THEN RawScores ELSE {<<1, 1>>},
                                full, TopK)}
-----------------------------------------------------------------------------
(* Reciprocal rank fusion: RRFFusion.fuse and _merge_and_fuse               *)
K == 60

RankIn(list, doc) ==
  IF doc \in Docs(list) THEN CHOOSE i \in DOMAIN list : list[i].doc = doc ELSE 0

\* mutant: a route that has not found the document counts as rank 0
ReciprocalAbsent(rank) == <<1, K + rank>>

Reciprocal(rank) == IF rank = 0 THEN <<0, 1>> ELSE <<1, K + rank>>
Plus(s, t) == <<s[1] * t[2] + t[1] * s[2], s[2] * t[2]>>

RRFScore(b, d, doc) == Plus(Reciprocal(RankIn(b, doc)), Reciprocal(RankIn(d, doc)))

\* the place of the i-th of a list after a stable sort, highest score first
PlaceByScore(list, i) ==
  Cardinality({j \in DOMAIN list :
    \/ Above(list[j].score, list[i].score)
    \/ ~Above(list[i].score, list[j].score) /\ j <= i})

SortByScore(list) ==
  [k \in DOMAIN list |-> list[CHOOSE i \in DOMAIN list : PlaceByScore(list, i) = k]]

\* a document both routes found is the candidate of the full text route
Fuse(b, d, k) ==
  LET all == b \o Selection(d, {i \in DOMAIN d : d[i].doc \notin Docs(b)})
  IN Take(SortByScore([i \in DOMAIN all |->
            [all[i] EXCEPT !.score = RRFScore(b, d, all[i].doc)]]), k)

\* a route that is DEGRADED (it ran into its timeout) counts as one that works
Merge(b, d, k) ==
  CASE b.status = "FAILED" /\ d.status = "FAILED" -> Failed
    [] b.status = "FAILED" /\ d.status # "FAILED" ->
         [status |-> "DEGRADED", list |-> Take(d.list, k)]
    [] b.status # "FAILED" /\ d.status = "FAILED" ->
         [status |-> "DEGRADED", list |-> Take(b.list, k)]
    [] OTHER -> Ok(Fuse(b.list, d.list, k))

Answered == bm25 # Pending /\ dense # Pending
Result == Merge(bm25, dense, TopK)
-----------------------------------------------------------------------------
(* Reranking, the columns of the kept tables, and the budget                *)

\* mutant: no required field comes back
EnsureNothing(ranked, all, n) == Take(ranked, n)

\* _ensure_required_fields: keys beyond the first n are appended
EnsureRequired(ranked, all, n) ==
  LET first == Take(ranked, n)
  IN first \o Selection(all, {i \in DOMAIN all : IsKey(all[i]) /\ all[i].doc \notin Docs(first)})

\* what the reranker may make of a list: its scores can be any
Reranked(list, n) ==
  IF Reranker /\ list # <<>>
  THEN {EnsureRequired([i \in DOMAIN list |-> list[p[i]]], list, n) :
          p \in Bijection(DOMAIN list, DOMAIN list)}
  ELSE {Take(list, n)}

Estimate(tables, columns) == TokensPerTable * tables + TokensPerColumn * columns

\* keys stay; the others, best first, while there is room
BudgetTrim(tables, columns) ==
  LET keys == {i \in DOMAIN columns : IsKey(columns[i])}
      protected == Selection(columns, keys)
      ordinary == Selection(columns, DOMAIN columns \ keys)
      rest == Budget - Estimate(Len(tables), Len(protected))
  IN Docs(protected) \cup Docs(Take(ordinary, IF rest < 0 THEN 0 ELSE rest \div TokensPerColumn))

KeptColumns(tables, columns) ==
  IF Estimate(Len(tables), Len(columns)) > Budget
  THEN BudgetTrim(tables, columns) ELSE Docs(columns)

\* the tables of a context whose name is known, and those of a column in them
NamedTables(tables) == {tables[i].doc : i \in {j \in DOMAIN tables : tables[j].full}}
InTables(c, tables) == c.full /\ TableOf[c.doc] \in NamedTables(tables)
-----------------------------------------------------------------------------
Init ==
  /\ stage = "idle"
  /\ allowed = {}
  /\ bm25 = Pending
  /\ dense = Pending
  /\ merged = Pending
  /\ context = NoContext
  /\ typed = {}

Search(next, domains) ==
  /\ stage' = next
  /\ allowed' = domains
  /\ bm25' = Pending
  /\ dense' = Pending

\* retrieve, with the domains the router found; none if it found none
Retrieve(domains) ==
  /\ stage = "idle"
  /\ Search("tables", domains)
  /\ UNCHANGED <<merged, context, typed>>

SearchExamples(domains) ==
  /\ stage = "idle"
  /\ Search("examples", domains)
  /\ UNCHANGED <<merged, context, typed>>

Bm25Answers ==
  /\ Searching /\ bm25 = Pending
  /\ bm25' \in Answers(TRUE)
  /\ UNCHANGED <<stage, allowed, dense, merged, context, typed>>

Bm25TimesOut ==
  /\ Searching /\ bm25 = Pending
  /\ bm25' = Degraded
  /\ UNCHANGED <<stage, allowed, dense, merged, context, typed>>

\* an error of the search for verified queries only degrades it
Bm25Fails ==
  /\ Searching /\ bm25 = Pending
  /\ bm25' = IF stage = "examples" THEN Degraded ELSE Failed
  /\ UNCHANGED <<stage, allowed, dense, merged, context, typed>>

DenseAnswers ==
  /\ Searching /\ dense = Pending
  /\ dense' \in Answers(FALSE)
  /\ UNCHANGED <<stage, allowed, bm25, merged, context, typed>>

DenseTimesOut ==
  /\ Searching /\ dense = Pending
  /\ dense' = Degraded
  /\ UNCHANGED <<stage, allowed, bm25, merged, context, typed>>

DenseFails ==
  /\ Searching /\ dense = Pending
  /\ dense' = IF stage = "examples" THEN Degraded ELSE Failed
  /\ UNCHANGED <<stage, allowed, bm25, merged, context, typed>>

\* the question could not be embedded: no timeout applies to this step
EmbeddingFails ==
  /\ Searching /\ dense = Pending
  /\ dense' = Failed
  /\ UNCHANGED <<stage, allowed, bm25, merged, context, typed>>

\* level 1: the tables, and the search for columns if there are any
KeepTables ==
  /\ stage = "tables" /\ Answered
  /\ \E tables \in Reranked(Result.list, TopTables) :
       IF tables = <<>>
       THEN /\ Search("context", {})
            /\ UNCHANGED context
       ELSE /\ Search("columns", allowed)
            /\ context' = [NoContext EXCEPT !.tables = tables]
  /\ UNCHANGED <<merged, typed>>

\* level 2: the columns of the tables that were kept
KeepColumns ==
  /\ stage = "columns" /\ Answered
  /\ LET found == Selection(Result.list,
                    {i \in DOMAIN Result.list : InTables(Result.list[i], context.tables)})
     IN \E columns \in Reranked(found, TopColumns) :
          context' = [context EXCEPT !.columns = KeptColumns(context.tables, columns)]
  /\ Search("context", {})
  /\ UNCHANGED <<merged, typed>>

KeepExamples ==
  /\ stage = "examples" /\ Answered
  /\ merged' = Result
  /\ Search("answered", {})
  /\ UNCHANGED <<context, typed>>

\* a value links to a column of the context whose name has one of its aliases
\* in it, or else to those that have it among their samples, or it is searched
LinkValue(v) ==
  /\ stage = "context" /\ context.tables # <<>>
  /\ LET aliased == {a \in v.aliases : a \cap context.columns # {}}
         Typed(columns, how) == {[column |-> c, evidence |-> how, named |-> TRUE] : c \in columns}
     IN CASE aliased # {} ->
               /\ \E f \in [aliased -> context.columns] :
                    /\ \A a \in aliased : f[a] \in a
                    /\ typed' = Typed({f[a] : a \in aliased}, "alias_dict")
               /\ Search("answered", {})
          [] aliased = {} /\ v.samples \cap context.columns # {} ->
               /\ typed' = Typed(v.samples \cap context.columns, "exact_sample_value")
               /\ Search("answered", {})
          [] OTHER ->
               /\ Search("values", {DomainOf[t] : t \in Docs(context.tables)})
               /\ UNCHANGED typed
  /\ UNCHANGED <<merged, context>>

\* confidence_threshold is 7/10
AcceptValues ==
  /\ stage = "values" /\ Answered
  /\ LET found == {i \in DOMAIN Result.list : ~Above(<<7, 10>>, Result.list[i].score)}
     IN typed' = {[column |-> Result.list[i].doc, evidence |-> "bm25_fuzzy",
                   named |-> Result.list[i].full] : i \in found}
  /\ Search("answered", {})
  /\ UNCHANGED <<merged, context>>

Done ==
  /\ stage \in {"context", "answered"}
  /\ Search("idle", {})
  /\ merged' = Pending
  /\ context' = NoContext
  /\ typed' = {}

\* every step of a search, once it was asked for
SearchStep ==
  \/ Bm25Answers \/ Bm25TimesOut \/ Bm25Fails
  \/ DenseAnswers \/ DenseTimesOut \/ DenseFails \/ EmbeddingFails
  \/ KeepTables \/ KeepColumns \/ KeepExamples
  \/ AcceptValues
-----------------------------------------------------------------------------
(* With a reranker, a key column that the search returned in full, of a     *)
(* table that was kept, is in the context, whatever its rank and however    *)
(* small the budget: joins need it (retrieval.py, reranker.py).  A key that *)
(* only Milvus found has neither name nor flag in its payload, and is       *)
(* dropped with the columns of other tables.                                *)
KeysKept ==
  [][stage = "columns" /\ stage' = "context" /\ Reranker =>
       \A i \in DOMAIN Result.list :
         IsKey(Result.list[i]) /\ InTables(Result.list[i], context.tables)
           => Result.list[i].doc \in context'.columns]_vars

(* The context only exceeds the budget by the tables and keys, which are    *)
(* never trimmed: as long as it holds any other column it is within it      *)
(* (retrieval.py:235).                                                      *)
BudgetKept ==
  context.columns \subseteq Keys
    \/ Estimate(Len(context.tables), Cardinality(context.columns)) <= Budget

(* However the two routes end, a document that neither ranks behind another *)
(* and one ranks before it comes first in what is merged, none comes twice, *)
(* and all that was found is there unless the limit is reached (fusion.py,  *)
(* hybrid.py: a route that timed out or failed has found nothing).          *)
Beats(list, a, b) == RankIn(list, a) # 0 /\ (RankIn(list, b) = 0 \/ RankIn(list, a) < RankIn(list, b))

FusedFairly ==
  Searching /\ Answered =>
    LET fused == Result.list
        found == Docs(bm25.list) \cup Docs(dense.list)
        Place(doc) == RankIn(fused, doc)
    IN /\ Cardinality(Docs(fused)) = Len(fused)
       /\ Len(fused) < TopK => Docs(fused) = found
       /\ \A a, b \in found :
            /\ Beats(bm25.list, a, b) \/ Beats(dense.list, a, b)
            /\ ~Beats(bm25.list, b, a) /\ ~Beats(dense.list, b, a)
            => Place(b) = 0 \/ (Place(a) # 0 /\ Place(a) < Place(b))
=============================================================================
