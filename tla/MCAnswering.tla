------------------------------ MODULE MCAnswering ------------------------------
EXTENDS Answering, TLC

LOCAL INSTANCE SequencesExt

\* two tables of the catalog, with a key and two plain columns of theirs
MCTables == {"fact_order", "dim_store"}
MCColumns == {"store_id", "order_status", "store_name"}
MCExamples == {"q1"}
MCTableOf == "store_id" :> "fact_order" @@ "order_status" :> "fact_order"
               @@ "store_name" :> "dim_store"
MCDomainOf == "fact_order" :> "sales" @@ "dim_store" :> "store" @@ "q1" :> "sales"
MCNamesOf == "fact_order" :> {"order"} @@ "dim_store" :> {"store"}
               @@ "store_id" :> {"store"} @@ "order_status" :> {} @@ "store_name" :> {"store"}
MCRawScores == {<<1, 2>>, <<9, 10>>}
MCValues == {[aliases |-> {{"order_status"}, {"store_name"}}, samples |-> {}],
             [aliases |-> {}, samples |-> {"order_status"}]}

\* the first five metrics of the sales domain, and some that name other tables
Metric(id, domain, label, names, sensitive, columns) ==
  [id |-> id, domain |-> domain, label |-> label, names |-> names \cup {label},
   sensitive |-> sensitive, columns |-> columns]

MCRegistry == <<
  Metric("net_sales", "sales", "sales_amount", {"net_sales_amount", "revenue", "sales_income"},
    FALSE, {<<"fact_order_item", "net_amount">>, <<"fact_order", "order_status">>,
            <<"fact_order", "is_test">>, <<"fact_refund_item", "refund_amount">>,
            <<"fact_refund", "refund_status">>}),
  Metric("gross_paid_sales", "sales", "gross_sales", {}, FALSE,
    {<<"fact_order_item", "net_amount">>, <<"fact_order", "order_status">>}),
  Metric("paid_order_count", "sales", "paid_order_volume", {"order_volume"}, FALSE,
    {<<"fact_order", "id">>, <<"fact_order", "order_status">>}),
  Metric("sales_quantity", "sales", "sales_quantity", {"volume"}, FALSE,
    {<<"fact_order_item", "quantity">>, <<"fact_refund_item", "refund_quantity">>}),
  Metric("average_order_value", "sales", "customer_price", {}, FALSE,
    {<<"fact_order_item", "net_amount">>, <<"fact_refund_item", "refund_amount">>,
     <<"fact_order", "id">>}),
  Metric("refunded_amount", "sales", "refund_amount", {}, FALSE,
    {<<"fact_refund_item", "refund_amount">>, <<"fact_refund", "refund_status">>}),
  Metric("gross_profit", "finance", "margin", {}, TRUE,
    {<<"fact_order_item", "sku_id">>, <<"product_supplier_bridge", "purchase_unit_cost">>}),
  Metric("inbound_quantity", "inventory", "inbound", {}, FALSE,
    {<<"fact_inventory_transaction", "quantity">>}) >>

MCSynonyms == "category" :> "dim_category"
MCGlossary == [metrics |-> "performance" :> "net_sales", values |-> "east" :> "region_name"]

\* questions of at most two periods, with or without a year or a number of days
Periods == PeriodWords \cup {"yoy", "mom"}
TimeQuestions ==
  {[words |-> Question(w), year |-> y, days |-> d] :
     w \in {v \in SUBSET Periods : Cardinality(v) <= 2},
     y \in {NoYear, 1999, 2025}, d \in {NoDays, 0, 1, 7, 40, 800000}}
Ordinary(words) == [words |-> Question(words), year |-> NoYear, days |-> NoDays]
BusinessQuestions ==
  {Ordinary(w) : w \in {{}, {"region", "east"}, {"store", "sales_amount"}, {"store", "revenue"}, {"order", "income"},
     {"refund_amount", "city"}, {"performance", "category"}, {"margin", "brand", "fiscal_year"},
     {"inbound", "stock"}}}
MCQuestions == TimeQuestions \cup BusinessQuestions

MCDays == {<<2024, 2, 29>>, <<2025, 1, 31>>, <<2025, 12, 31>>, <<2026, 3, 31>>, <<2026, 9, 10>>}
MCInspected ==
  {[op |-> "route", question |-> Ordinary(w), now |-> <<2026, 9, 10>>] :
     w \in {{"performance", "category"}, {"store", "revenue"}, {"inbound", "stock"}}}
    \cup {[op |-> "route", question |-> Ordinary({"order", "yoy"}), now |-> <<2024, 2, 29>>]}

\* those of the whole catalog
MCForeignKeys ==
  FlattenSeq([i \in DOMAIN TABLES |->
    [k \in DOMAIN TABLES[i].columns |->
      [table |-> TABLES[i].name, column |-> TABLES[i].columns[k].name,
       ref |-> TABLES[i].columns[k].to]]])

\* a cycle, a parallel join, two paths of one length, and a chain longer than five
MCRelations == <<
  Relationship("a", "b", "many_to_one", "join"), Relationship("b", "a", "one_to_one", "join"),
  Relationship("a", "b", "many_to_many", "agg_join"), Relationship("a", "c", "many_to_one", "join"),
  Relationship("b", "d", "many_to_one", "bridge"), Relationship("c", "d", "many_to_one", "join"),
  Relationship("d", "e", "many_to_one", "join"), Relationship("e", "f", "many_to_one", "join"),
  Relationship("f", "g", "many_to_one", "join"), Relationship("c", "e", "many_to_one", "join"),
  Relationship("g", "h", "many_to_one", "join") >>
MCActiveSets == {(DOMAIN MCRelations) \ S : S \in {U \in SUBSET (DOMAIN MCRelations) : Cardinality(U) <= 2}}

MCParts == [tables : 0..2, keys : 0..2, ordinary : 0..3, metrics : 0..1, values : {0, 4},
            joins : 0..1, examples : 0..3]
=============================================================================
