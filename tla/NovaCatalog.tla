------------------------------ MODULE NovaCatalog ------------------------------
(***************************************************************************)
(* The declarative catalog of the NovaRetail business database             *)
(* (datasets/schema/catalog.py): its 56 tables by domain, and the foreign  *)
(* keys that their columns declare.  The business migration, the data      *)
(* generator and, once collected as metadata, the join graph rest on it.   *)
(* Every table has the single primary key id; the other columns matter to  *)
(* none of them and are left out.                                          *)
(***************************************************************************)
EXTENDS Sequences, Functions

\* a column with reference "<to>.id", and one that may also be NULL
Ref(name, to) == [name |-> name, to |-> to, nullable |-> FALSE]
Opt(name, to) == [name |-> name, to |-> to, nullable |-> TRUE]
Table(name, columns) == [name |-> name, columns |-> columns]

StoreTables == <<
  Table("dim_region", <<>>),
  Table("dim_city", <<Ref("region_id", "dim_region")>>),
  Table("dim_store", <<Ref("city_id", "dim_city")>>),
  Table("dim_warehouse", <<Ref("city_id", "dim_city")>>),
  Table("bridge_store_region_history", <<Ref("store_id", "dim_store"),
    Ref("region_id", "dim_region")>>),
  Table("dim_sales_channel", <<>>),
  Table("store_operating_calendar", <<Ref("store_id", "dim_store")>>),
  Table("store_target", <<Ref("store_id", "dim_store")>>) >>

ProductTables == <<
  Table("dim_brand", <<>>),
  Table("dim_category", <<Opt("parent_category_id", "dim_category")>>),
  Table("dim_product", <<Ref("brand_id", "dim_brand"),
    Ref("primary_category_id", "dim_category")>>),
  Table("dim_sku", <<Ref("product_id", "dim_product")>>),
  Table("product_category_history", <<Ref("product_id", "dim_product"),
    Ref("category_id", "dim_category")>>),
  Table("product_price_history", <<Ref("sku_id", "dim_sku")>>),
  Table("product_supplier_bridge", <<Ref("sku_id", "dim_sku")>>),
  Table("product_attribute_value", <<Ref("product_id", "dim_product")>>) >>

CustomerTables == <<
  Table("dim_customer", <<>>),
  Table("dim_membership_tier", <<>>),
  Table("customer_membership_history", <<Ref("customer_id", "dim_customer"),
    Ref("tier_id", "dim_membership_tier")>>),
  Table("dim_customer_tag", <<>>),
  Table("bridge_customer_tag", <<Ref("customer_id", "dim_customer"),
    Ref("tag_id", "dim_customer_tag")>>),
  Table("customer_address", <<Ref("customer_id", "dim_customer"), Ref("city_id", "dim_city")>>),
  Table("customer_consent", <<Ref("customer_id", "dim_customer")>>),
  Table("customer_identity_map", <<Ref("customer_id", "dim_customer")>>) >>

SalesTables == <<
  Table("fact_order", <<Opt("customer_id", "dim_customer"), Opt("store_id", "dim_store"),
    Ref("channel_id", "dim_sales_channel")>>),
  Table("fact_order_item", <<Ref("order_id", "fact_order"), Ref("sku_id", "dim_sku")>>),
  Table("fact_payment", <<Ref("order_id", "fact_order")>>),
  Table("fact_refund", <<Ref("order_id", "fact_order")>>),
  Table("fact_refund_item", <<Ref("refund_id", "fact_refund"),
    Ref("order_item_id", "fact_order_item")>>),
  Table("order_status_history", <<Ref("order_id", "fact_order")>>),
  Table("order_coupon_bridge", <<Ref("order_id", "fact_order"), Ref("coupon_id", "dim_coupon"),
    Opt("redemption_id", "fact_coupon_redemption")>>),
  Table("sales_daily_aggregate", <<Ref("store_id", "dim_store"), Ref("sku_id", "dim_sku")>>) >>

InventoryTables == <<
  Table("fact_inventory_movement", <<Ref("warehouse_id", "dim_warehouse"),
    Ref("sku_id", "dim_sku")>>),
  Table("fact_inventory_snapshot", <<Ref("warehouse_id", "dim_warehouse"),
    Ref("sku_id", "dim_sku")>>),
  Table("fact_stocktake", <<Ref("warehouse_id", "dim_warehouse")>>),
  Table("fact_stocktake_item", <<Ref("stocktake_id", "fact_stocktake"), Ref("sku_id", "dim_sku")>>),
  Table("inventory_reservation", <<Ref("order_item_id", "fact_order_item"),
    Ref("warehouse_id", "dim_warehouse"), Ref("sku_id", "dim_sku")>>),
  Table("inventory_transfer", <<Ref("from_warehouse_id", "dim_warehouse"),
    Ref("to_warehouse_id", "dim_warehouse")>>),
  Table("inventory_transfer_item", <<Ref("transfer_id", "inventory_transfer"),
    Ref("sku_id", "dim_sku")>>),
  Table("inventory_reorder_policy", <<Ref("warehouse_id", "dim_warehouse"),
    Ref("sku_id", "dim_sku")>>) >>

FinanceTables == <<
  Table("fact_revenue_ledger", <<Opt("order_id", "fact_order"),
    Ref("account_id", "dim_account"), Ref("cost_center_id", "dim_cost_center")>>),
  Table("fact_cost_ledger", <<Opt("order_item_id", "fact_order_item"),
    Opt("sku_id", "dim_sku"), Ref("account_id", "dim_account"),
    Ref("cost_center_id", "dim_cost_center")>>),
  Table("fact_expense_ledger", <<Ref("account_id", "dim_account"),
    Ref("cost_center_id", "dim_cost_center"), Opt("campaign_id", "dim_campaign")>>),
  Table("dim_account", <<Opt("parent_account_id", "dim_account")>>),
  Table("dim_cost_center", <<Opt("region_id", "dim_region"), Opt("store_id", "dim_store")>>),
  Table("currency_rate_daily", <<>>),
  Table("settlement_batch", <<Ref("channel_id", "dim_sales_channel")>>),
  Table("settlement_item", <<Ref("settlement_batch_id", "settlement_batch"),
    Opt("payment_id", "fact_payment"), Opt("refund_id", "fact_refund")>>) >>

MarketingTables == <<
  Table("dim_campaign", <<Ref("channel_id", "dim_marketing_channel")>>),
  Table("dim_marketing_channel", <<>>),
  Table("dim_coupon", <<>>),
  Table("campaign_product_bridge", <<Ref("campaign_id", "dim_campaign"),
    Opt("product_id", "dim_product"), Opt("category_id", "dim_category")>>),
  Table("campaign_customer_segment", <<Ref("campaign_id", "dim_campaign")>>),
  Table("fact_campaign_touch", <<Ref("campaign_id", "dim_campaign"),
    Ref("customer_id", "dim_customer"), Ref("marketing_channel_id", "dim_marketing_channel")>>),
  Table("fact_coupon_redemption", <<Ref("coupon_id", "dim_coupon"),
    Opt("customer_id", "dim_customer"), Opt("order_id", "fact_order")>>),
  Table("fact_marketing_spend", <<Ref("campaign_id", "dim_campaign"),
    Ref("marketing_channel_id", "dim_marketing_channel")>>) >>

TABLES ==
  StoreTables \o ProductTables \o CustomerTables \o SalesTables \o InventoryTables
    \o FinanceTables \o MarketingTables

TableNames == {t.name : t \in Range(TABLES)}

\* the columns of a table that have a reference
References(table) == Range((CHOOSE t \in Range(TABLES) : t.name = table).columns)
=============================================================================
