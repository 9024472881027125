---------------------------- MODULE MCMigrations ----------------------------
(* The tables whose rows meet a revision that could refuse them, with what  *)
(* they refer to.                                                           *)
EXTENDS Migrations

MCUsed ==
    {"users", "currencies", "cost_categories", "cost_shortcuts", "incomes",
     "exchange_rates", "cash_balances", "news_items"}

=============================================================================
