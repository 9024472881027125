------------------------------- MODULE Tables -------------------------------
(***************************************************************************)
(* The tables as the program declares them (infrastructure/database/       *)
(* tables.py): for every table its columns with type, nullability and      *)
(* server default, and beside them unique constraints, foreign keys and    *)
(* indexes.  Relationships and Python-side defaults leave no trace in the  *)
(* database and are left out.  Migrations reaches the same schema by its   *)
(* own way.                                                                *)
(***************************************************************************)

-----------------------------------------------------------------------------
(* Column types                                                            *)

Column(type) == [type |-> type, null |-> FALSE, default |-> "none"]

Nullable(column) == [column EXCEPT !.null = TRUE]

Default(column, value) == [column EXCEPT !.default = value]

Int   == Column(<<"integer">>)
Bool  == Column(<<"boolean">>)
Float == Column(<<"float">>)
Date  == Column(<<"date">>)
Json  == Column(<<"jsonb">>)
Bytes == Column(<<"bytea">>)

Text(length) == Column(<<"varchar", length>>)

Texts   == Column(<<"array", "varchar">>)
Numbers == Column(<<"array", "integer">>)

\* type_annotation_map: str is String(255).
Str == Text(255)

\* A literal of strings is kept as text as long as its longest member.
Literal(length) == Text(length)

Moment == Column(<<"timestamp">>)

Now == Default(Moment, "now")

-----------------------------------------------------------------------------
(* The tables                                                              *)

users ==
    [id |-> Int, name |-> Str, password_hash |-> Nullable(Str),
     show_equity |-> Default(Bool, "f"),
     cost_snippets |-> Nullable(Texts), income_snippets |-> Nullable(Texts),
     default_currency_id |-> Nullable(Int),
     default_cost_category_id |-> Nullable(Int),
     last_notification |-> Nullable(Str), notify_cost_threshold |-> Nullable(Int),
     monobank_api_key |-> Nullable(Str),
     news_filter_prompt |-> Nullable(Text(5000)),
     news_preference_profile |-> Nullable(Text(10000)),
     gc_retention_days |-> Default(Int, "3"),
     analyze_preferences |-> Default(Bool, "t"),
     timezone |-> Default(Text(50), "UTC")]

currencies == [id |-> Int, name |-> Str, sign |-> Text(1), equity |-> Int]

cost_categories == [id |-> Int, name |-> Str]

costs ==
    [id |-> Int, name |-> Text(100), value |-> Int,
     timestamp |-> Default(Date, "current_timestamp"),
     user_id |-> Int, category_id |-> Int, currency_id |-> Int]

incomes ==
    [id |-> Int, name |-> Text(100), value |-> Int,
     timestamp |-> Default(Date, "current_date"), source |-> Literal(7),
     user_id |-> Int, currency_id |-> Int]

exchanges ==
    [id |-> Int, from_value |-> Int, to_value |-> Int,
     timestamp |-> Default(Date, "current_date"),
     user_id |-> Int, from_currency_id |-> Int, to_currency_id |-> Int]

cost_shortcuts ==
    [id |-> Int, name |-> Text(100), value |-> Nullable(Int),
     timestamp |-> Default(Date, "current_timestamp"),
     ui_position_index |-> Nullable(Int),
     user_id |-> Int, currency_id |-> Int, category_id |-> Int]

http_request_logs ==
    [id |-> Int, ip_address |-> Text(45), method |-> Text(10), path |-> Text(500),
     status_code |-> Int, user_agent |-> Text(500), referer |-> Nullable(Text(500)),
     country |-> Nullable(Text(100)), city |-> Nullable(Text(100)),
     user_id |-> Nullable(Int), duration_ms |-> Int, created_at |-> Now,
     content_length |-> Nullable(Int)]

exchange_rates ==
    [id |-> Int, cc_from |-> Text(3), cc_to |-> Text(3), rate |-> Float,
     date |-> Date, source |-> Nullable(Default(Text(20), "nbu"))]

news_items ==
    [id |-> Int, user_id |-> Nullable(Int), title |-> Text(500),
     sources |-> Nullable(Texts),
     article_urls |-> Nullable(Column(<<"array", "varchar", 2048>>)),
     bookmarked |-> Default(Bool, "f"), reaction |-> Nullable(Text(10)),
     description |-> Text(5000), detailed_description |-> Nullable(Text(5000)),
     extended_description |-> Nullable(Text(5000)),
     human_feedback |-> Nullable(Text(5000)),
     needs_ai_analysis |-> Default(Bool, "f"), created_at |-> Now]

deleted_signals ==
    [id |-> Int, user_id |-> Int, title |-> Text(500),
     description |-> Nullable(Text(5000)), human_feedback |-> Nullable(Text(5000)),
     sources |-> Nullable(Texts), source_type |-> Text(20), created_at |-> Now]

jobs ==
    [id |-> Int, name |-> Str, job_type |-> Text(100),
     _metadata |-> Default(Json, "{}"), interval_minutes |-> Nullable(Int),
     is_active |-> Default(Bool, "t"), last_run_at |-> Nullable(Moment),
     next_run_at |-> Now, last_status |-> Nullable(Text(20)),
     last_error |-> Nullable(Text(1000)), run_count |-> Default(Int, "0"),
     created_at |-> Now, user_id |-> Int]

cash_balances ==
    [id |-> Int, currency_id |-> Int, balance |-> Default(Int, "0"), step |-> Int,
     created_at |-> Now, updated_at |-> Now]

analytics_ai ==
    [id |-> Int, pipeline_name |-> Str, trace_id |-> Text(12), agent_stats |-> Json,
     total_calls |-> Int, total_errors |-> Int, wall_time_s |-> Float,
     estimated_cost |-> Float, user_id |-> Nullable(Int), created_at |-> Now]

assets == [id |-> Int, name |-> Str, created_at |-> Now, updated_at |-> Now]

asset_fields ==
    [id |-> Int, asset_id |-> Int, key |-> Str, value |-> Str, created_at |-> Now]

asset_documents ==
    [id |-> Int, asset_id |-> Int, filename |-> Str, content_type |-> Str,
     data |-> Bytes, created_at |-> Now]

-----------------------------------------------------------------------------
(* The schema.  A unique constraint is <<table, label, columns>>, its name *)
(* without the prefix uq_<table>_; by the naming convention the label is   *)
(* the first column.  A key is <<table, column, target, on delete>>, an    *)
(* index <<table, column>>.                                                *)

Metadata ==
    [tables |->
        [users |-> users, currencies |-> currencies,
         cost_categories |-> cost_categories, costs |-> costs,
         incomes |-> incomes, exchanges |-> exchanges,
         cost_shortcuts |-> cost_shortcuts,
         http_request_logs |-> http_request_logs,
         exchange_rates |-> exchange_rates, news_items |-> news_items,
         deleted_signals |-> deleted_signals, jobs |-> jobs,
         cash_balances |-> cash_balances, analytics_ai |-> analytics_ai,
         assets |-> assets, asset_fields |-> asset_fields,
         asset_documents |-> asset_documents],
     uniques |->
        {<<"users", "name", {"name"}>>, <<"currencies", "name", {"name"}>>,
         <<"currencies", "sign", {"sign"}>>, <<"cost_categories", "name", {"name"}>>,
         <<"exchange_rates", "cc_from", {"cc_from", "cc_to", "date"}>>,
         <<"cash_balances", "currency_id", {"currency_id"}>>},
     keys |->
        {<<t, "user_id", "users", "RESTRICT">> :
            t \in {"costs", "incomes", "exchanges", "cost_shortcuts"}}
        \cup {<<t, "currency_id", "currencies", "RESTRICT">> :
            t \in {"costs", "incomes", "cost_shortcuts", "cash_balances"}}
        \cup {<<t, "category_id", "cost_categories", "RESTRICT">> :
            t \in {"costs", "cost_shortcuts"}}
        \cup {<<"exchanges", c, "currencies", "RESTRICT">> :
            c \in {"from_currency_id", "to_currency_id"}}
        \cup {<<"users", "default_currency_id", "currencies", "RESTRICT">>,
              <<"users", "default_cost_category_id", "cost_categories", "RESTRICT">>,
              <<"analytics_ai", "user_id", "users", "SET NULL">>}
        \cup {<<t, "user_id", "users", "CASCADE">> :
            t \in {"news_items", "deleted_signals", "jobs"}}
        \cup {<<t, "asset_id", "assets", "CASCADE">> :
            t \in {"asset_fields", "asset_documents"}},
     indexes |->
        {<<"incomes", "source">>, <<"analytics_ai", "created_at">>}
        \cup {<<"http_request_logs", c>> : c \in {"ip_address", "created_at"}}
        \cup {<<"deleted_signals", c>> : c \in {"user_id", "created_at"}}
        \cup {<<"news_items", c>> :
            c \in {"user_id", "reaction", "needs_ai_analysis", "created_at"}}]

=============================================================================
