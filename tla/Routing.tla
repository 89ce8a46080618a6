-------------------------------- MODULE Routing --------------------------------
(***************************************************************************)
(* What a question is taken to ask for, without a model: the business      *)
(* domains and the time range it names (domain/router.py), the metrics and *)
(* tables of its prompt (domain/sales_scope.py).                           *)
(*                                                                         *)
(* A question is what the code can tell about it: the set of the known     *)
(* words that occur in it.  Words are translated; one that contains others *)
(* brings them along (Includes).  Weights are in tenths.                   *)
(***************************************************************************)
EXTENDS Integers, Sequences, FiniteSets

LOCAL INSTANCE FiniteSetsExt
LOCAL INSTANCE SequencesExt

-----------------------------------------------------------------------------
(* Dates are <<year, month, day>>.                                          *)
IsLeap(y) == y % 4 = 0 /\ (y % 100 # 0 \/ y % 400 = 0)

MonthDays(y, m) == CASE m = 2 -> IF IsLeap(y) THEN 29 ELSE 28
                     [] m \in {4, 6, 9, 11} -> 30
                     [] OTHER -> 31

IsDate(d) == d[1] \in 1..9999 /\ d[2] \in 1..12 /\ d[3] \in 1..MonthDays(d[1], d[2])

\* the days before a year, and in it before a month
DaysBeforeYear(y) == LET p == y - 1 IN 365 * p + p \div 4 - p \div 100 + p \div 400

DaysBeforeMonth(y, m) == <<0, 31, 59, 90, 120, 151, 181, 212, 243, 273, 304, 334>>[m]
                           + (IF m > 2 /\ IsLeap(y) THEN 1 ELSE 0)

\* the days up to a date from the first of the calendar, 1 January of the year 1
DayNumber(d) == DaysBeforeYear(d[1]) + DaysBeforeMonth(d[1], d[2]) + d[3]

DayOf(n) ==
  LET y == CHOOSE k \in (n \div 366)..(n \div 365 + 1) :
             DaysBeforeYear(k) < n /\ n <= DaysBeforeYear(k + 1)
      m == CHOOSE k \in 1..12 : n - DaysBeforeYear(y) - DaysBeforeMonth(y, k) \in 1..MonthDays(y, k)
  IN <<y, m, n - DaysBeforeYear(y) - DaysBeforeMonth(y, m)>>

\* now - timedelta(days = n), where n may be -1; no date is so far back (OverflowError)
NoDay == <<0, 0, 0>>
DaysBefore(d, n) == IF DayNumber(d) > n THEN DayOf(DayNumber(d) - n) ELSE NoDay

Dates(start, end) == [start |-> start, end |-> end, against |-> <<>>]
Months(y, from, to) == Dates(<<y, from, 1>>, <<y, to, MonthDays(y, to)>>)
NoRange == [start |-> <<>>, end |-> <<>>, against |-> <<>>]

\* _yoy_range: the same days of the year before, should they exist
YoyRange(range) == <<[range.start EXCEPT ![1] = @ - 1], [range.end EXCEPT ![1] = @ - 1]>>

\* mutant: January has no month before it
MomRangeSameYear(range) ==
  LET y == range.start[1]
      m == IF range.start[2] = 1 THEN 12 ELSE range.start[2] - 1
  IN <<<<y, m, 1>>, <<y, m, MonthDays(y, m)>>>>

MomRange(range) ==
  LET y == IF range.start[2] = 1 THEN range.start[1] - 1 ELSE range.start[1]
      m == IF range.start[2] = 1 THEN 12 ELSE range.start[2] - 1
  IN <<<<y, m, 1>>, <<y, m, MonthDays(y, m)>>>>

PeriodWords == {"first_half", "second_half", "this_year", "last_year", "this_month",
                "last_month", "this_quarter", "last_quarter"}
NoYear == 0 \* no four digits before the word for year
NoDays == -1 \* no "last N days"

ExtractYear(q, default) == IF q.year \in 2000..2100 THEN q.year ELSE default

\* the rules in the order they are tried: the first that applies decides
TimeRules(q, now) ==
  LET y == now[1]
      m == now[2]
      k == (m - 1) \div 3
      Has(word) == word \in q.words
      Rule(when, range) == [when |-> when, range |-> range]
      Quarter(year, n) == Months(year, 3 * n + 1, 3 * n + 3)
      With(word, range, other) == IF Has(word) THEN [range EXCEPT !.against = other] ELSE range
      thisYear == Months(y, 1, 12)
      thisMonth == Months(y, m, m)
      toDate == Dates(<<y, 1, 1>>, now)
  IN << Rule(Has("first_half"), Months(ExtractYear(q, y), 1, 6)),
        Rule(Has("second_half"), Months(ExtractYear(q, y), 7, 12)),
        Rule(Has("this_year"), With("yoy", thisYear, YoyRange(thisYear))),
        Rule(Has("last_year"), Months(y - 1, 1, 12)),
        Rule(Has("this_month"), With("mom", thisMonth, MomRange(thisMonth))),
        Rule(Has("last_month"),
             IF m = 1 THEN Months(y - 1, 12, 12) ELSE Months(y, m - 1, m - 1)),
        Rule(Has("this_quarter"), Quarter(y, k)),
        Rule(Has("last_quarter"), IF k = 0 THEN Quarter(y - 1, 3) ELSE Quarter(y, k - 1)),
        Rule(q.days # NoDays, Dates(DaysBefore(now, q.days - 1), now)),
        Rule(q.year \in 2000..(y + 1), Months(q.year, 1, 12)),
        Rule(Has("yoy"), [toDate EXCEPT !.against = YoyRange(toDate)]) >>

ParseTimeRange(q, now) ==
  LET rules == TimeRules(q, now)
      fits == {i \in DOMAIN rules : rules[i].when}
  IN IF fits = {} THEN NoRange ELSE rules[CHOOSE i \in fits : \A k \in fits : i <= k].range

\* date() and timedelta raise, and route with them, when there is no such day
Raises(range) == \/ range # NoRange /\ ~(IsDate(range.start) /\ IsDate(range.end))
                 \/ range.against # <<>> /\ ~(IsDate(range.against[1]) /\ IsDate(range.against[2]))

(* The first day of the range a question names is not after its last,       *)
(* unless it asks for the last 0 days; a past month or quarter ends on the  *)
(* eve of the present one, the last N days are N days, and the month or     *)
(* year to compare with lies directly before.  Routing only raises for the  *)
(* year to date on 29 February, which the year before lacks, and for more   *)
(* days than the calendar has had.                                          *)
SoundRange(r, q, now) ==
  LET periods == q.words \cap PeriodWords
      Eve(d) == DayNumber(r.end) + 1 = DayNumber(d)
  IN /\ Raises(r) <=> \/ r.against # <<>> /\ r.start[2] = 1 /\ r.end[2] = 2 /\ r.end[3] = 29
                      \/ periods = {} /\ q.days > DayNumber(now)
     /\ r # NoRange /\ ~Raises(r) =>
          /\ q.days # 0 => DayNumber(r.start) <= DayNumber(r.end)
          /\ periods = {"last_month"} => Eve(<<now[1], now[2], 1>>)
          /\ periods = {"last_quarter"} => Eve(<<now[1], 3 * ((now[2] - 1) \div 3) + 1, 1>>)
          /\ periods = {} /\ q.days # NoDays =>
               DayNumber(now) - DayNumber(r.start) = q.days - 1 /\ r.end = now
     /\ r.against # <<>> /\ ~Raises(r) =>
          LET first == DayNumber(r.against[1])
              last == DayNumber(r.against[2])
          IN /\ first <= last
             /\ "this_month" \in periods => last + 1 = DayNumber(r.start)
             /\ "this_month" \notin periods => DayNumber(r.start) - first \in {365, 366}

RangeSound(q, now) == SoundRange(ParseTimeRange(q, now), q, now)
-----------------------------------------------------------------------------
(* The business domains: the weights of the words found, by domain.         *)
DomainKeywords == [
  sales |-> [sales |-> 10, order |-> 10, volume |-> 9, sales_amount |-> 10, gmv |-> 9,
    net_sales |-> 10, payment |-> 8, refund |-> 7, customer_price |-> 8, paid_order |-> 9,
    apple_phone |-> 6, phone |-> 4, goods |-> 5, sku |-> 8, category |-> 5,
    order_volume |-> 10, sales_quantity |-> 9],
  product |-> [goods |-> 7, sku |-> 9, category |-> 8, brand |-> 9, product |-> 7,
    listing |-> 8, stock |-> 5, spec |-> 8],
  customer |-> [customer |-> 10, member |-> 9, user |-> 8, new_client |-> 9, old_client |-> 9,
    repurchase |-> 9, active_customer |-> 10, churn |-> 8],
  store |-> [store |-> 10, shop |-> 9, city |-> 7, region |-> 4, east |-> 5, south |-> 5,
    north |-> 5, west |-> 5],
  inventory |-> [stock |-> 10, warehouse |-> 10, stocktake |-> 10, replenish |-> 9,
    transfer |-> 9, stock_snapshot |-> 10, stock_ledger |-> 10],
  finance |-> [finance |-> 10, cost |-> 9, margin |-> 10, profit |-> 9, margin_rate |-> 10,
    revenue |-> 8, income |-> 7, period |-> 9],
  marketing |-> [marketing |-> 10, campaign |-> 7, coupon |-> 9, channel |-> 9,
    placement |-> 10, touch |-> 10, roi |-> 8, conversion |-> 7]]

\* the order of the dictionary, which decides between equal scores
DomainOrder ==
  <<"sales", "product", "customer", "store", "inventory", "finance", "marketing">>

RelatedDomains == [
  sales |-> {"product", "store"}, product |-> {"sales"}, customer |-> {"sales"},
  store |-> {"sales"}, finance |-> {"sales"}, marketing |-> {"sales", "customer"},
  inventory |-> {"product"}]

ScoreDomains(words) ==
  [d \in {e \in DOMAIN DomainKeywords : DOMAIN DomainKeywords[e] \cap words # {}} |->
     MapThenSumSet(LAMBDA w : DomainKeywords[d][w], DOMAIN DomainKeywords[d] \cap words)]

\* Scores are fractions.  A domain that goes with the primary one, and was not
\* named, joins with 60 % of its score, at most 1/2.
SelectPrimary(scores) ==
  LET best == {d \in DOMAIN scores : \A e \in DOMAIN scores : scores[e] <= scores[d]}
      primary == Head(SelectSeq(DomainOrder, LAMBDA d : d \in best))
      top == IF scores[primary] < 10 THEN 10 ELSE scores[primary]
      related == IF 6 * scores[primary] < 5 * top THEN <<6 * scores[primary], 10 * top>> ELSE <<1, 2>>
  IN IF DOMAIN scores = {} THEN [primary |-> "none", candidates |-> <<>>]
     ELSE [primary |-> primary,
           candidates |-> [d \in DOMAIN scores \cup RelatedDomains[primary] |->
             IF d \in DOMAIN scores THEN <<scores[d], top>> ELSE related]]

\* the metrics a question may mention; the second list has no metric of its own
KnownMetrics == [
  sales_amount |-> "net_sales", net_sales_amount |-> "net_sales", sales_income |-> "net_sales",
  gmv |-> "gmv", order_volume |-> "paid_order_count", paid_order_volume |-> "paid_order_count",
  volume |-> "sales_quantity", sales_quantity |-> "sales_quantity",
  customer_price |-> "average_order_value", refund_amount |-> "refunded_amount",
  refund_rate |-> "refund_rate", margin |-> "gross_margin", margin_rate |-> "gross_margin_rate",
  repurchase_rate |-> "repeat_purchase_rate", active_customer |-> "active_customer_count",
  new_customer |-> "new_customer_count", customer_count |-> "customer_count"]
AmbiguousMetrics == {"income", "revenue", "performance", "data", "indicator"}
VagueWords == {"performance", "situation", "how", "what_about", "in_what_way", "data"}

\* the longer words bring along the shorter ones they are written with
Includes == [
  sales_amount |-> {"sales"}, net_sales |-> {"sales"},
  net_sales_amount |-> {"net_sales", "sales_amount", "sales"},
  sales_income |-> {"sales", "income"}, sales_quantity |-> {"sales"},
  apple_phone |-> {"phone"}, paid_order |-> {"order"}, order_volume |-> {"order"},
  paid_order_volume |-> {"paid_order", "order_volume", "order"},
  refund_amount |-> {"refund"}, refund_rate |-> {"refund"}, margin_rate |-> {"margin"},
  repurchase_rate |-> {"repurchase"}, active_customer |-> {"customer"},
  new_customer |-> {"new_client", "customer"}, customer_count |-> {"customer"},
  stock_snapshot |-> {"stock"}, stock_ledger |-> {"stock"}, goods |-> {"item"},
  category |-> {"item"}, brand |-> {"item"}, product |-> {"item"}, coupon |-> {"voucher"},
  refund_reason |-> {"refund"}, order_detail |-> {"order", "detail"},
  payment_channel |-> {"pay", "channel"}, this_year |-> {"year"}, last_year |-> {"year"}, first_half |-> {"year"},
  second_half |-> {"year"}, this_month |-> {"month"}, last_month |-> {"month"}]

Question(words) == words \cup (UNION {Includes[w] : w \in words \cap DOMAIN Includes})

ExtractMetrics(words) ==
  {[text |-> w, metric |-> KnownMetrics[w]] : w \in words \cap DOMAIN KnownMetrics}
    \cup {[text |-> w, metric |-> "none"] : w \in words \cap AmbiguousMetrics}

LowConfidence == <<1, 4>>

CheckClarification(words) ==
  LET best == SelectPrimary(ScoreDomains(words))
      mentions == ExtractMetrics(words)
  IN \/ best.primary = "none"
     \/ /\ best.primary # "none"
        /\ best.candidates[best.primary][1] * LowConfidence[2]
             < LowConfidence[1] * best.candidates[best.primary][2]
     \/ mentions # {} /\ \A m \in mentions : m.metric = "none"
     \/ mentions = {} /\ words \cap VagueWords # {}

\* the dimensions a question may mention, and the regions it may filter by
KnownDimensions ==
  {"city", "region", "store", "category", "brand", "goods", "channel", "customer"}
RegionFilters == {"east", "south", "north", "west", "central", "northeast", "southwest", "northwest"}

\* route: the intent of question q, asked on the day now
Route(q, now) ==
  LET best == SelectPrimary(ScoreDomains(q.words))
  IN [primary |-> best.primary,
      domains |-> DOMAIN best.candidates,
      metrics |-> ExtractMetrics(q.words),
      dimensions |-> q.words \cap KnownDimensions,
      filters |-> {[concept |-> "region", value |-> w] : w \in q.words \cap RegionFilters},
      range |-> ParseTimeRange(q, now),
      clarify |-> CheckClarification(q.words)]
-----------------------------------------------------------------------------
(* The scope of the sales baseline: the tables of its whitelist, with those *)
(* of their whitelisted columns that refer to other tables, and the words   *)
(* that bring a table into the prompt.                                      *)
AllowedReferences == [
  dim_region |-> {}, dim_city |-> {"region_id"}, dim_store |-> {"city_id"},
  dim_sales_channel |-> {}, dim_category |-> {"parent_category_id"},
  dim_product |-> {"brand_id", "primary_category_id"}, dim_sku |-> {"product_id"},
  fact_order |-> {"channel_id", "store_id"}, fact_order_item |-> {"order_id", "sku_id"},
  fact_payment |-> {"order_id"}, fact_refund |-> {"order_id"},
  fact_refund_item |-> {"order_item_id", "refund_id"}, order_status_history |-> {"order_id"},
  order_coupon_bridge |-> {"coupon_id", "order_id", "redemption_id"},
  sales_daily_aggregate |-> {"sku_id", "store_id"}]

TableKeywords == [
  dim_region |-> {"region", "large_region"},
  dim_city |-> {"city", "province", "district"},
  dim_store |-> {"store", "shop", "flagship", "outlet"},
  dim_sales_channel |-> {"channel", "online", "offline", "live"},
  dim_category |-> {"category", "class"},
  dim_product |-> {"goods", "item", "spu"},
  dim_sku |-> {"sku", "spec", "colour", "size"},
  fact_order |-> {"order", "pay", "trade", "deal"},
  fact_order_item |-> {"detail", "discount", "after_discount", "tax"},
  fact_payment |-> {"payment", "pay_method", "payment_channel"},
  fact_refund |-> {"refund", "return"},
  fact_refund_item |-> {"refund_reason", "refund_detail"},
  order_status_history |-> {"status_change", "status_history", "flow"},
  order_coupon_bridge |-> {"voucher", "coupon", "redeem"},
  sales_daily_aggregate |-> {"daily", "total", "date", "month", "week", "year", "yoy", "mom"}]

AnchorTables == {"fact_order", "dim_store"}

\* without any further table the whole whitelist
SelectRelevantTables(words) ==
  LET matched == AnchorTables \cup
                   {t \in DOMAIN TableKeywords : TableKeywords[t] \cap words # {}}
  IN IF matched = AnchorTables THEN DOMAIN AllowedReferences ELSE matched

\* the metrics of the registry, a sequence of entries, whose label or synonyms occur
ResolveMetricIds(words, registry) ==
  {registry[i].id : i \in {k \in DOMAIN registry : registry[k].names \cap words # {}}}

AssessScope(words, registry) ==
  IF words \cap {"income", "revenue"} # {}
  THEN [status |-> "CLARIFICATION_REQUIRED", metrics |-> {}]
  ELSE [status |-> "PROCESSING", metrics |-> ResolveMetricIds(words, registry)]
=============================================================================
