------------------------------- MODULE SeedRules -------------------------------
(***************************************************************************)
(* The deterministic NovaRetail data (datasets/generator/model.py): the    *)
(* fixtures, the orders of a profile batch by batch, the order in which    *)
(* they are copied, and the gates a data set passes before its commit      *)
(* (datasets/generator/database.py).                                       *)
(*                                                                         *)
(* A row is its id, its foreign keys by column, and what the gates read.   *)
(* Times, codes and names no gate reads are left out.                      *)
(***************************************************************************)
EXTENDS NovaCatalog, Integers, FiniteSets, FiniteSetsExt, Functions

Null == 0   \* no row has this id

\* n rows with the ids 1..n
Rows(refs) == [i \in DOMAIN refs |-> [id |-> i, refs |-> refs[i]]]
Copy(table, rows) == [table |-> table, rows |-> rows]
Plain(table, n) == Copy(table, Rows([i \in 1..n |-> <<>>]))

Products ==
  [i \in 1..6 |-> [id |-> i, refs |-> [brand_id |-> 1, primary_category_id |-> 1],
                   product_name |-> IF i <= 2 THEN 1 ELSE i]]
Snapshots ==
  [i \in 1..12 |->
    [id |-> i, refs |-> [warehouse_id |-> IF i % 2 = 1 THEN 1 ELSE 2, sku_id |-> ((i - 1) % 6) + 1],
     on_hand |-> 100 + i, reserved |-> i % 5, available |-> 100 + i - (i % 5)]]

\* fixture_rows(), in the order of its dict
Fixture == <<
  Plain("dim_region", 2),
  Copy("dim_city", Rows([i \in 1..2 |-> [region_id |-> i]])),
  Copy("dim_store", Rows([i \in 1..3 |-> [city_id |-> IF i <= 2 THEN 1 ELSE 2]])),
  Copy("bridge_store_region_history",
       Rows([i \in 1..2 |-> [store_id |-> 2, region_id |-> 3 - i]])),
  Copy("dim_warehouse", Rows([i \in 1..2 |-> [city_id |-> i]])),
  Plain("dim_sales_channel", 2),
  Plain("dim_brand", 1),
  Copy("dim_category", Rows([i \in 1..1 |-> [parent_category_id |-> Null]])),
  Copy("dim_product", Products),
  Copy("dim_sku", Rows([i \in 1..6 |-> [product_id |-> i]])),
  Plain("dim_customer", 20),
  Plain("dim_membership_tier", 2),
  Copy("customer_membership_history",
       Rows([i \in 1..20 |-> [customer_id |-> i, tier_id |-> IF i > 5 THEN 1 ELSE 2]])),
  Plain("dim_marketing_channel", 1),
  Copy("dim_campaign", Rows([i \in 1..1 |-> [channel_id |-> 1]])),
  Copy("campaign_product_bridge",
       Rows([i \in 1..6 |-> [campaign_id |-> 1, product_id |-> i, category_id |-> Null]])),
  Copy("fact_campaign_touch",
       Rows([i \in 1..12 |-> [campaign_id |-> 1, customer_id |-> i, marketing_channel_id |-> 1]])),
  Copy("fact_inventory_snapshot", Snapshots),
  Copy("product_supplier_bridge", Rows([i \in 1..6 |-> [sku_id |-> i]])) >>

-----------------------------------------------------------------------------
(* A DatasetProfile: any seed and counts, with at least one line in an      *)
(* order and one order in a batch.                                          *)
Profile == [seed : Nat, orders : Nat, items : Nat \ {0}, batch : Nat \ {0}]

\* every entry of PROFILES is larger than this: the gates ask for a refund (the
\* first is of order 20), a guest (4), a test order (2), and two lines in an order
Ample(p) == p \in Profile /\ p.orders >= 20 /\ p.items >= 2

(* The rules for order o of profile p; line l of its items.                 *)
Cancelled(o) == o = 3 \/ o % 29 = 0
IsTest(o) == o = 2 \/ o % 101 = 0
Customer(p, o) == IF o = 4 \/ o % 17 = 0 THEN Null ELSE ((o + p.seed) % 20) + 1
Sku(p, o, l) == ((o + l + p.seed) % 6) + 1
Net(p, o, l) == 20 + Sku(p, o, l) - (IF (o + l) % 5 = 0 THEN 1 ELSE 0)
ExpectedAmount(p, o) == MapThenSumSet(LAMBDA l : Net(p, o, l), 1..p.items)
ItemId(p, o, l) == (o - 1) * p.items + l
RefundedLines(p) == 1..(IF p.items < 2 THEN p.items ELSE 2)
Refunded(o) == ~Cancelled(o) /\ o % 20 = 0

\* mutant: the refunds are numbered from 1 in every batch
RefundIdPerBatch(p, o) ==
  Cardinality({k \in (((o - 1) \div p.batch) * p.batch + 1)..o : Refunded(k)})

\* refund_id counts on from one batch to the next
RefundId(p, o) == Cardinality({k \in 1..o : Refunded(k)})

OrderRow(p, o) ==
  [id |-> o, amount |-> ExpectedAmount(p, o), cancelled |-> Cancelled(o), test |-> IsTest(o),
   refs |-> [customer_id |-> Customer(p, o), store_id |-> (o % 3) + 1, channel_id |-> (o % 2) + 1]]
ItemRow(p, o, l) ==
  [id |-> ItemId(p, o, l), net |-> Net(p, o, l),
   refs |-> [order_id |-> o, sku_id |-> Sku(p, o, l)]]
PaymentRow(o) == [id |-> o, refs |-> [order_id |-> o]]
RefundRow(p, o) ==
  [id |-> RefundId(p, o), refs |-> [order_id |-> o],
   amount |-> MapThenSumSet(LAMBDA l : Net(p, o, l), RefundedLines(p))]
RefundItemRow(p, o, l) ==
  [id |-> (RefundId(p, o) - 1) * 2 + l, amount |-> Net(p, o, l),
   refs |-> [refund_id |-> RefundId(p, o), order_item_id |-> ItemId(p, o, l)]]

NumBatches(p) == (p.orders + p.batch - 1) \div p.batch

\* the orders of batch b; the last batch may be shorter
Orders(p, b) == {o \in ((b - 1) * p.batch + 1)..(b * p.batch) : o <= p.orders}

\* the copies of batch b, in the order of seed_database
Batch(p, b) ==
  LET orders == Orders(p, b)
      refunds == {o \in orders : Refunded(o)}
  IN << Copy("fact_order", [o \in orders |-> OrderRow(p, o)]),
        Copy("fact_order_item", [i \in orders \X (1..p.items) |-> ItemRow(p, i[1], i[2])]),
        Copy("fact_payment", [o \in {o \in orders : ~Cancelled(o)} |-> PaymentRow(o)]),
        Copy("fact_refund", [o \in refunds |-> RefundRow(p, o)]),
        Copy("fact_refund_item",
             [i \in refunds \X RefundedLines(p) |-> RefundItemRow(p, i[1], i[2])]) >>

\* everything one run of the generator copies: the fixtures are chunk 0
Places(p) == ({0} \X DOMAIN Fixture) \cup ((1..NumBatches(p)) \X (1..5))
Copies(p) == [q \in Places(p) |-> IF q[1] = 0 THEN Fixture[q[2]] ELSE Batch(p, q[1])[q[2]]]
Precedes(q, r) == q[1] < r[1] \/ (q[1] = r[1] /\ q[2] < r[2])

-----------------------------------------------------------------------------
(* What PostgreSQL checks at the end of each COPY: new keys, and references *)
(* to rows that are there by then.  An empty batch is not copied, and has   *)
(* nothing to be refused.                                                   *)
Keys(copy) == {copy.rows[i].id : i \in DOMAIN copy.rows}
Of(copies, table) == {q \in DOMAIN copies : copies[q].table = table}

CopyAccepted(copies, q) ==
  LET table == copies[q].table
      rows == copies[q].rows
  IN /\ \A i, j \in DOMAIN rows : rows[i].id = rows[j].id => i = j
     /\ \A r \in Of(copies, table) : Precedes(r, q) => Keys(copies[r]) \cap Keys(copies[q]) = {}
     /\ \A c \in References(table) :
          LET known == UNION {Keys(copies[r]) : r \in {r \in Of(copies, c.to) : ~Precedes(q, r)}}
          IN \A i \in DOMAIN rows :
               \/ rows[i].refs[c.name] = Null /\ c.nullable
               \/ rows[i].refs[c.name] \in known

CopiesAccepted(copies) == \A q \in DOMAIN copies : CopyAccepted(copies, q)

(* validate_dataset: the gates, over the rows that were copied.             *)
Gates(p, copies) ==
  LET All(table) == UNION {Range(copies[q].rows) : q \in Of(copies, table)}
      orders == All("fact_order")
      items == All("fact_order_item")
      refunds == All("fact_refund")
      refundItems == All("fact_refund_item")
      ItemsOf(o) == {i \in items : i.refs.order_id = o}
      LinesOf(r) == {i \in refundItems : i.refs.refund_id = r}
      Paid(o) == \E q \in All("fact_payment") : q.refs.order_id = o.id
  IN /\ \A o \in orders : o.amount = MapThenSumSet(LAMBDA i : i.net, ItemsOf(o.id))
     /\ \A o \in orders : Paid(o) <=> ~o.cancelled
     /\ \A s \in All("fact_inventory_snapshot") : s.available = s.on_hand - s.reserved
     /\ \A r \in refunds : r.amount = MapThenSumSet(LAMBDA i : i.amount, LinesOf(r.id))
     /\ \E o \in orders : o.refs.customer_id = Null
     /\ \E o \in orders : o.test
     /\ \E a, b \in All("dim_product") : a.id # b.id /\ a.product_name = b.product_name
     /\ MapThenSumSet(LAMBDA r : Cardinality(ItemsOf(r.refs.order_id)) * Cardinality(LinesOf(r.id)),
                      refunds) > Cardinality(refundItems)
     /\ Cardinality(items) = p.orders * p.items
     /\ \A o \in orders : o.id = 1 => o.amount = ExpectedAmount(p, 1)
=============================================================================
