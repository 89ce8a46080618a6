----------------------------- MODULE PromptContext -----------------------------
(***************************************************************************)
(* What goes into the prompt of a question: the tables and columns that    *)
(* the generation pipeline shows the model (generation/v3_pipeline.py),    *)
(* and how a context is trimmed to its token budget                        *)
(* (generation/context.py).                                                *)
(*                                                                         *)
(* The registry is a sequence of metrics; columns are the pairs of table   *)
(* and column a metric depends on.  Of the whitelisted columns only those  *)
(* that refer to another table are told apart.                             *)
(***************************************************************************)
EXTENDS Routing

\* metrics offered when the question names none: the first of the sales domain
MaxHints == 5

\* _resolve_metric_entries
MetricEntries(metrics, registry) ==
  LET named == {i \in DOMAIN registry : registry[i].id \in metrics}
      hints == {i \in DOMAIN registry : registry[i].domain = "sales" /\ ~registry[i].sensitive}
  IN IF named # {} THEN named
     ELSE {i \in hints : Cardinality({k \in hints : k <= i}) <= MaxHints}

\* _build_v1_schema_context: of a table outside the selection, and outside the
\* whitelist, only the columns that metrics depend on are shown
SchemaContext(words, entries, registry) ==
  LET relevant == SelectRelevantTables(words)
      extra == UNION {registry[i].columns : i \in entries}
  IN [tables |-> relevant \cup {c[1] : c \in extra},
      columns |-> (UNION {{t} \X AllowedReferences[t] : t \in relevant}) \cup extra]

-----------------------------------------------------------------------------
(* SemanticContextBuilder, where only numbers of parts matter: a context    *)
(* counts its tables, its columns (keys and ordinary ones), metrics, links  *)
(* of values, join paths and examples.                                      *)
Weight == [tables |-> 20, keys |-> 15, ordinary |-> 15, metrics |-> 50, values |-> 10,
           joins |-> 15, examples |-> 80]

EstimateTokens(c) ==
  Weight.tables * c.tables + Weight.keys * (c.keys + c.ordinary) + Weight.metrics * c.metrics
    + Weight.values * c.values + Weight.joins * c.joins + Weight.examples * c.examples

\* the most examples, up to those there are, that leave the rest in the budget
TrimExamples(c, budget) ==
  LET fit == {n \in 0..c.examples : EstimateTokens([c EXCEPT !.examples = n]) <= budget}
  IN [c EXCEPT !.examples = IF fit = {} THEN 0 ELSE CHOOSE n \in fit : \A k \in fit : k <= n]

\* mutant: the links of values are forgotten in what the columns may not use
TrimColumnsShort(c, budget) ==
  LET rest == budget - EstimateTokens([c EXCEPT !.ordinary = 0, !.values = 0])
      room == IF rest < 0 THEN 0 ELSE rest \div Weight.ordinary
  IN [c EXCEPT !.ordinary = IF room < @ THEN room ELSE @]

\* keys stay; ordinary columns while there is room
TrimColumns(c, budget) ==
  LET rest == budget - EstimateTokens([c EXCEPT !.ordinary = 0])
      room == IF rest < 0 THEN 0 ELSE rest \div Weight.ordinary
  IN [c EXCEPT !.ordinary = IF room < @ THEN room ELSE @]

\* _apply_budget_trim, after the examples were cut to at most maxExamples
BuildContext(parts, maxExamples, budget) ==
  LET c == [parts EXCEPT !.examples = IF maxExamples < @ THEN maxExamples ELSE @]
  IN IF EstimateTokens(c) > budget THEN TrimColumns(TrimExamples(c, budget), budget) ELSE c

(* The parts that are never trimmed come through, the context is within its *)
(* budget as soon as they fit, and nothing that was trimmed could be put    *)
(* back.  Which kind goes first is left open, as the code's own texts       *)
(* differ: columns by context.py:18, examples by :375 and the code.         *)
TrimmedRight(parts, maxExamples, budget) ==
  LET c == BuildContext(parts, maxExamples, budget)
      fixed == [parts EXCEPT !.ordinary = 0, !.examples = 0]
      offered == IF maxExamples < parts.examples THEN maxExamples ELSE parts.examples
  IN /\ [c EXCEPT !.ordinary = 0, !.examples = 0] = fixed
     /\ EstimateTokens(fixed) <= budget => EstimateTokens(c) <= budget
     /\ c.ordinary < parts.ordinary => EstimateTokens([c EXCEPT !.ordinary = @ + 1]) > budget
     /\ c.examples < offered => EstimateTokens([c EXCEPT !.examples = @ + 1]) > budget
=============================================================================
