-------------------------------- MODULE Linking --------------------------------
(***************************************************************************)
(* Schema linking: what the metrics, dimensions and filters of a routed    *)
(* question stand for (linking/schema.py), and the linker that asks the    *)
(* semantic layer first (linking/semantic_linker.py).                      *)
(*                                                                         *)
(* names[d] are the words in the business or physical name of a table or   *)
(* column d of the context.  A link with several candidates takes one of   *)
(* them and is marked for clarification; confidences are percentages.      *)
(***************************************************************************)
EXTENDS Routing

Link(text, candidates, confidence) ==
  [text |-> text, candidates |-> candidates, confidence |-> confidence,
   ask |-> Cardinality(candidates) > 1]

LinkByName(text, docs, names, sure, unsure) ==
  LET named == {d \in docs : text \in names[d]}
  IN IF named = {} THEN {}
     ELSE {Link(text, named, IF Cardinality(named) = 1 THEN sure ELSE unsure)}

\* unlinked are the mentions of metrics that no link was found for
LinkResult(links, unlinked, prompts) ==
  [links |-> links, unlinked |-> unlinked,
   clarify |-> unlinked # {} \/ prompts # {} \/ \E l \in links : l.ask]

-----------------------------------------------------------------------------
(* SchemaLinker.  Its default map is the router's, which has already        *)
(* resolved these words.                                                    *)
DefaultMetricMap == KnownMetrics

LinkMetric(m) ==
  CASE m.metric # "none" -> {Link(m.text, {m.metric}, 95)}
    [] m.metric = "none" /\ m.text \in DOMAIN DefaultMetricMap ->
         {Link(m.text, {DefaultMetricMap[m.text]}, 90)}
    [] OTHER -> {}

SchemaLink(intent, tables, columns, names) ==
  LinkResult(
    (UNION {LinkMetric(m) : m \in intent.metrics})
      \cup (UNION {LinkByName(d, tables, names, 85, 50) : d \in intent.dimensions})
      \cup (UNION {LinkByName(f.concept, columns, names, 85, 50) : f \in intent.filters}),
    {m.text : m \in {n \in intent.metrics : LinkMetric(n) = {}}},
    {})

-----------------------------------------------------------------------------
(* SemanticSchemaLinker, over the registry of metrics, the synonyms of      *)
(* dimensions and a glossary of metrics and values.  Each is optional.      *)
FallbackMap == [
  sales_amount |-> "net_sales", net_sales_amount |-> "net_sales", sales_income |-> "net_sales",
  revenue |-> "net_sales", gmv |-> "net_sales", order_volume |-> "paid_order_count",
  paid_order_volume |-> "paid_order_count", volume |-> "sales_quantity",
  sales_quantity |-> "sales_quantity", customer_price |-> "average_order_value",
  refund_amount |-> "refunded_amount", refund_rate |-> "refund_rate",
  margin_rate |-> "gross_margin_rate", repurchase_rate |-> "repurchase_rate",
  stock |-> "inventory_available_quantity", roi |-> "roi"]

\* the metric registered under a word, if any: the last one with that label, and
\* otherwise the first with that synonym
Registered(text, registry) ==
  LET named == {i \in DOMAIN registry : text \in registry[i].names}
      labelled == {i \in named : registry[i].label = text}
  IN IF labelled # {} THEN {i \in labelled : \A k \in labelled : k <= i}
     ELSE {i \in named : \A k \in named : i <= k}

\* another metric of the same label, when the linked one is of another domain
CrossDomainConflict(i, primary, registry) ==
  /\ primary # "none"
  /\ registry[i].domain # primary
  /\ \E k \in DOMAIN registry : k # i /\ registry[k].label = registry[i].label

LinkMetricV3(m, primary, registry, glossary) ==
  LET found == Registered(m.text, registry)
      i == CHOOSE k \in found : TRUE
  IN CASE m.metric # "none" -> {Link(m.text, {m.metric}, 97)}
       [] m.metric = "none" /\ found # {} ->
            LET conflict == CrossDomainConflict(i, primary, registry)
            IN {[Link(m.text, {registry[i].id}, IF conflict THEN 65 ELSE 92)
                   EXCEPT !.ask = conflict]}
       [] m.metric = "none" /\ found = {} /\ m.text \in DOMAIN glossary.metrics ->
            {Link(m.text, {glossary.metrics[m.text]}, 88)}
       [] m.metric = "none" /\ found = {} /\ m.text \notin DOMAIN glossary.metrics
            /\ m.text \in DOMAIN FallbackMap -> {Link(m.text, {FallbackMap[m.text]}, 80)}
       [] OTHER -> {}

\* mutant: what the semantic layer does not know is not looked for in the context
LinkDimensionKnown(text, synonyms, tables, names) ==
  IF text \in DOMAIN synonyms THEN {Link(text, {synonyms[text]}, 90)} ELSE {}

LinkDimensionV3(text, synonyms, tables, names) ==
  IF text \in DOMAIN synonyms THEN {Link(text, {synonyms[text]}, 90)}
  ELSE LinkByName(text, tables, names, 82, 45)

LinkFilterV3(f, glossary, columns, names) ==
  (IF f.value \in DOMAIN glossary.values
   THEN {Link(f.value, {glossary.values[f.value]}, 92)} ELSE {})
    \cup LinkByName(f.concept, columns, names, 85, 48)

FiscalYearConflict(words) == words \cap {"fiscal_year", "finance_year"}

SemanticLink(words, intent, tables, columns, names, registry, synonyms, glossary) ==
  LET LinkOf(m) == LinkMetricV3(m, intent.primary, registry, glossary)
  IN LinkResult(
       (UNION {LinkOf(m) : m \in intent.metrics})
         \cup (UNION {LinkDimensionV3(d, synonyms, tables, names) : d \in intent.dimensions})
         \cup (UNION {LinkFilterV3(f, glossary, columns, names) : f \in intent.filters}),
       {m.text : m \in {n \in intent.metrics : LinkOf(n) = {}}},
       FiscalYearConflict(words))

(* The semantic linker falls back on all the schema linker does: it links   *)
(* every word that one links, leaves no other mention of a metric without a *)
(* link, and only asks back when that one would, or about the fiscal year   *)
(* (semantic_linker.py:3).                                                  *)
LinksMore(schema, semantic, words) ==
  /\ {l.text : l \in schema.links} \subseteq {l.text : l \in semantic.links}
  /\ semantic.unlinked \subseteq schema.unlinked
  /\ semantic.clarify => schema.clarify \/ FiscalYearConflict(words) # {}
=============================================================================
