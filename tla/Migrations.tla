----------------------------- MODULE Migrations -----------------------------
(***************************************************************************)
(* The revisions of the database (infrastructure/database/migrations),     *)
(* each with its upgrade and its downgrade as written, run on a database   *)
(* that the service of any of these revisions may have filled with rows.   *)
(* Alembic runs the revisions of one command in one transaction (env.py),  *)
(* and PostgreSQL's DDL is transactional: a command whose statement is     *)
(* refused changes nothing.                                                *)
(***************************************************************************)
EXTENDS Tables, Naturals, Sequences, TLC

CONSTANT Used   \* the tables the service writes to, in this model

VARIABLES
    revision,   \* the number of revisions applied (alembic_version)
    db          \* the schema, and what matters of the rows under it

vars == <<revision, db>>

-----------------------------------------------------------------------------
(* Statements                                                              *)

CreateTable(t, columns, uniques, keys) ==
    [kind |-> "create table", table |-> t, columns |-> columns,
     uniques |-> uniques, keys |-> keys]

DropTable(t) == [kind |-> "drop table", table |-> t]

AddColumn(t, c, column) ==
    [kind |-> "add column", table |-> t, name |-> c, column |-> column]

DropColumn(t, c) == [kind |-> "drop column", table |-> t, name |-> c]

AlterColumn(t, c, type) ==
    [kind |-> "alter column", table |-> t, name |-> c, type |-> type.type]

CreateUnique(t, label, columns) ==
    [kind |-> "create unique", table |-> t, label |-> label, columns |-> columns]

DropUnique(t, label) == [kind |-> "drop unique", table |-> t, label |-> label]

CreateKey(t, c, target, ondelete) ==
    [kind |-> "create key", table |-> t, name |-> c, target |-> target,
     ondelete |-> ondelete]

DropKey(t, c, target) ==
    [kind |-> "drop key", table |-> t, name |-> c, target |-> target]

CreateIndex(t, c) == [kind |-> "create index", table |-> t, name |-> c]

DropIndex(t, c) == [kind |-> "drop index", table |-> t, name |-> c]

\* UPDATE ... SET c = ROW_NUMBER(): every row of t gets a value.
Populate(t, c) == [kind |-> "populate", table |-> t, name |-> c]

-----------------------------------------------------------------------------
(* What PostgreSQL does with a statement.  d.filled are the tables with    *)
(* rows, d.repeated the <<table, columns>> on which two rows agree, d.long *)
(* the <<table, column, n>> with a text of more than n characters, d.unset *)
(* the <<table, column>> that some rows have no value for.                 *)

Has(d, t, c) == t \in DOMAIN d.tables /\ c \in DOMAIN d.tables[t]

\* A type converts to another by itself only towards text.
Converts(from, to) ==
    \/ from = to
    \/ from[1] = "varchar" /\ to[1] = "varchar"
    \/ from = Numbers.type /\ to = Texts.type

\* No text of the column is too long for the type.
Fits(d, t, c, type) ==
    \A n \in {l[3] : l \in {x \in d.long : <<x[1], x[2]>> = <<t, c>>}} : type[2] > n

Accepts(d, s) ==
    CASE s.kind = "create table" ->
            /\ s.table \notin DOMAIN d.tables
            /\ \A k \in s.keys : k[3] \in DOMAIN d.tables
      [] s.kind = "drop table" ->
            /\ s.table \in DOMAIN d.tables
            /\ \A k \in d.keys : k[3] = s.table => k[1] = s.table
      [] s.kind = "add column" ->
            /\ s.table \in DOMAIN d.tables /\ ~Has(d, s.table, s.name)
            /\ s.table \in d.filled => s.column.null \/ s.column.default # "none"
      [] s.kind = "alter column" ->
            /\ Has(d, s.table, s.name)
            /\ Converts(d.tables[s.table][s.name].type, s.type)
            /\ Fits(d, s.table, s.name, s.type)
      [] s.kind = "create unique" ->
            /\ \A c \in s.columns : Has(d, s.table, c)
            /\ \A u \in d.uniques : <<u[1], u[2]>> # <<s.table, s.label>>
            /\ <<s.table, s.columns>> \notin d.repeated
      [] s.kind = "drop unique" ->
            \E u \in d.uniques : <<u[1], u[2]>> = <<s.table, s.label>>
      [] s.kind = "create key" ->
            Has(d, s.table, s.name) /\ s.target \in DOMAIN d.tables
      [] s.kind = "drop key" ->
            \E k \in d.keys : <<k[1], k[2], k[3]>> = <<s.table, s.name, s.target>>
      [] s.kind = "create index" ->
            Has(d, s.table, s.name) /\ <<s.table, s.name>> \notin d.indexes
      [] s.kind = "drop index" -> <<s.table, s.name>> \in d.indexes
      [] OTHER -> Has(d, s.table, s.name)

\* A column leaves with every constraint and index it takes part in.
WithoutColumn(d, t, c) ==
    [d EXCEPT
        !.tables[t] = [x \in DOMAIN @ \ {c} |-> @[x]],
        !.uniques = {u \in @ : ~(u[1] = t /\ c \in u[3])},
        !.keys = {k \in @ : <<k[1], k[2]>> # <<t, c>>},
        !.indexes = @ \ {<<t, c>>},
        !.repeated = {r \in @ : ~(r[1] = t /\ c \in r[2])},
        !.long = {l \in @ : <<l[1], l[2]>> # <<t, c>>},
        !.unset = @ \ {<<t, c>>}]

WithoutTable(d, t) ==
    [d EXCEPT
        !.tables = [x \in DOMAIN @ \ {t} |-> @[x]],
        !.uniques = {u \in @ : u[1] # t},
        !.keys = {k \in @ : k[1] # t},
        !.indexes = {i \in @ : i[1] # t},
        !.filled = @ \ {t},
        !.repeated = {r \in @ : r[1] # t},
        !.long = {l \in @ : l[1] # t},
        !.unset = {n \in @ : n[1] # t}]

Executed(d, s) ==
    CASE s.kind = "create table" ->
            [d EXCEPT !.tables = @ @@ (s.table :> s.columns),
                      !.uniques = @ \cup {<<s.table, u[1], u[2]>> : u \in s.uniques},
                      !.keys = @ \cup s.keys]
      [] s.kind = "drop table" -> WithoutTable(d, s.table)
      [] s.kind = "add column" ->
            [d EXCEPT !.tables[s.table] = @ @@ (s.name :> s.column),
                      !.unset = IF s.table \in d.filled /\ s.column.default = "none"
                                THEN @ \cup {<<s.table, s.name>>} ELSE @]
      [] s.kind = "drop column" -> WithoutColumn(d, s.table, s.name)
      [] s.kind = "alter column" ->
            [d EXCEPT !.tables[s.table][s.name].type = s.type]
      [] s.kind = "create unique" ->
            [d EXCEPT !.uniques = @ \cup {<<s.table, s.label, s.columns>>}]
      [] s.kind = "drop unique" ->
            [d EXCEPT !.uniques = {u \in @ : <<u[1], u[2]>> # <<s.table, s.label>>}]
      [] s.kind = "create key" ->
            [d EXCEPT !.keys = @ \cup {<<s.table, s.name, s.target, s.ondelete>>}]
      [] s.kind = "drop key" ->
            [d EXCEPT !.keys =
                {k \in @ : <<k[1], k[2], k[3]>> # <<s.table, s.name, s.target>>}]
      [] s.kind = "create index" ->
            [d EXCEPT !.indexes = @ \cup {<<s.table, s.name>>}]
      [] s.kind = "drop index" ->
            [d EXCEPT !.indexes = @ \ {<<s.table, s.name>>}]
      [] OTHER -> [d EXCEPT !.unset = @ \ {<<s.table, s.name>>}]

\* The database after the first n statements of script.
After(d, script, n) ==
    LET after[i \in 0..n] ==
            IF i = 0 THEN d ELSE Executed(after[i - 1], script[i])
    IN  after[n]

Runs(d, script) ==
    \A n \in 1..Len(script) : Accepts(After(d, script, n - 1), script[n])

Outcome(d, script) == After(d, script, Len(script))

-----------------------------------------------------------------------------
(* The revisions, oldest first.                                            *)

References(t, columns, target) == {<<t, c, target, "RESTRICT">> : c \in columns}

Rev_e787ed8f47cb_up ==
    <<CreateTable("cost_categories", [id |-> Int, name |-> Str],
                  {<<"name", {"name"}>>}, {}),
      CreateTable("currencies", [id |-> Int, name |-> Str, sign |-> Text(1),
                                 equity |-> Int],
                  {<<"name", {"name"}>>, <<"sign", {"sign"}>>}, {}),
      CreateTable("users", [id |-> Int, name |-> Str, token |-> Str,
                            default_currency_id |-> Nullable(Int),
                            default_cost_category_id |-> Nullable(Int)],
                  {<<"name", {"name"}>>},
                  References("users", {"default_currency_id"}, "currencies")
                  \cup References("users", {"default_cost_category_id"},
                                  "cost_categories")),
      CreateTable("cost_shortcuts",
                  [id |-> Int, name |-> Text(100), value |-> Nullable(Int),
                   timestamp |-> Default(Date, "current_timestamp"),
                   currency_id |-> Int, category_id |-> Int, user_id |-> Int],
                  {}, References("cost_shortcuts", {"category_id"}, "cost_categories")
                      \cup References("cost_shortcuts", {"currency_id"}, "currencies")
                      \cup References("cost_shortcuts", {"user_id"}, "users")),
      CreateTable("costs",
                  [id |-> Int, name |-> Text(100), value |-> Int,
                   timestamp |-> Default(Date, "current_timestamp"),
                   currency_id |-> Int, category_id |-> Int, user_id |-> Int],
                  {}, References("costs", {"category_id"}, "cost_categories")
                      \cup References("costs", {"currency_id"}, "currencies")
                      \cup References("costs", {"user_id"}, "users")),
      CreateTable("exchanges",
                  [id |-> Int, from_value |-> Int, to_value |-> Int,
                   timestamp |-> Default(Date, "current_date"),
                   user_id |-> Int, from_currency_id |-> Int, to_currency_id |-> Int],
                  {}, References("exchanges", {"from_currency_id", "to_currency_id"},
                                 "currencies")
                      \cup References("exchanges", {"user_id"}, "users")),
      CreateTable("incomes",
                  [id |-> Int, name |-> Text(100), value |-> Int,
                   timestamp |-> Default(Date, "current_date"), source |-> Str,
                   user_id |-> Int, currency_id |-> Int],
                  {}, References("incomes", {"currency_id"}, "currencies")
                      \cup References("incomes", {"user_id"}, "users")),
      CreateIndex("incomes", "source")>>

Rev_e787ed8f47cb_down ==
    <<DropIndex("incomes", "source"), DropTable("incomes"), DropTable("exchanges"),
      DropTable("costs"), DropTable("cost_shortcuts"), DropTable("users"),
      DropTable("currencies"), DropTable("cost_categories")>>

Rev_cc52aac9ed5e ==
    [up |-> <<CreateUnique("users", "token", {"token"})>>,
     down |-> <<DropUnique("users", "token")>>]

Rev_79a0d6d194ca ==
    [up |-> <<AddColumn("users", "cost_snippets", Nullable(Numbers)),
              AddColumn("users", "income_snippets", Nullable(Numbers))>>,
     down |-> <<DropColumn("users", "income_snippets"),
                DropColumn("users", "cost_snippets")>>]

Rev_3ef6fd0f6aaf ==
    [up |-> <<AlterColumn("users", "cost_snippets", Texts),
              AlterColumn("users", "income_snippets", Texts)>>,
     down |-> <<AlterColumn("users", "income_snippets", Numbers),
                AlterColumn("users", "cost_snippets", Numbers)>>]

Rev_582ba7eac761 ==
    [up |-> <<AlterColumn("incomes", "source", Literal(7))>>,
     down |-> <<AlterColumn("incomes", "source", Str)>>]

\* Mutant: the downgrade is left empty, as the generator proposes it.
Rev_ea658b49d015_oneWay ==
    [up |-> <<AddColumn("users", "show_equity", Default(Bool, "f"))>>, down |-> <<>>]

Rev_ea658b49d015 ==
    [up |-> <<AddColumn("users", "show_equity", Default(Bool, "f"))>>,
     down |-> <<DropColumn("users", "show_equity")>>]

Rev_0a6050da347f ==
    [up |-> <<AddColumn("users", "last_notification", Nullable(Str)),
              AddColumn("users", "notify_cost_threshold", Nullable(Int))>>,
     down |-> <<DropColumn("users", "notify_cost_threshold"),
                DropColumn("users", "last_notification")>>]

Rev_b6f2c5d8783b ==
    [up |-> <<AddColumn("users", "monobank_api_key", Nullable(Str))>>,
     down |-> <<DropColumn("users", "monobank_api_key")>>]

Rev_e718179ea572 ==
    [up |-> <<AddColumn("cost_shortcuts", "ui_position_index", Nullable(Int)),
              Populate("cost_shortcuts", "ui_position_index")>>,
     down |-> <<DropColumn("cost_shortcuts", "ui_position_index")>>]

Rev_a125e6ac95d6 ==
    [up |-> <<AddColumn("users", "password_hash", Nullable(Str)),
              DropUnique("users", "token"), DropColumn("users", "token")>>,
     down |-> <<AddColumn("users", "token", Str),
                CreateUnique("users", "token", {"token"}),
                DropColumn("users", "password_hash")>>]

Rev_1637d76700ba ==
    [up |-> <<CreateTable("http_request_logs",
                  [id |-> Int, ip_address |-> Text(45), method |-> Text(10),
                   path |-> Text(500), status_code |-> Int, user_agent |-> Text(500),
                   referer |-> Nullable(Text(500)), country |-> Nullable(Text(100)),
                   city |-> Nullable(Text(100)), user_id |-> Nullable(Int),
                   duration_ms |-> Int, created_at |-> Now,
                   content_length |-> Nullable(Int)], {}, {}),
              CreateIndex("http_request_logs", "created_at"),
              CreateIndex("http_request_logs", "ip_address")>>,
     down |-> <<DropIndex("http_request_logs", "ip_address"),
                DropIndex("http_request_logs", "created_at"),
                DropTable("http_request_logs")>>]

Rev_2a3b4c5d6e7f ==
    [up |-> <<CreateTable("exchange_rates",
                  [id |-> Int, currency_code |-> Text(3), rate |-> Float,
                   exchange_date |-> Date],
                  {<<"code_date", {"currency_code", "exchange_date"}>>}, {})>>,
     down |-> <<DropTable("exchange_rates")>>]

\* Mutant: the constraint is dropped by the name the convention would give it.
Rev_fc447514f941_conventional ==
    [up |-> <<AddColumn("exchange_rates", "cc_from", Text(3)),
              AddColumn("exchange_rates", "cc_to", Text(3)),
              AddColumn("exchange_rates", "date", Date),
              DropUnique("exchange_rates", "currency_code"),
              CreateUnique("exchange_rates", "cc_from", {"cc_from", "cc_to", "date"}),
              DropColumn("exchange_rates", "currency_code"),
              DropColumn("exchange_rates", "exchange_date")>>,
     down |-> <<>>]

Rev_fc447514f941 ==
    [up |-> <<AddColumn("exchange_rates", "cc_from", Text(3)),
              AddColumn("exchange_rates", "cc_to", Text(3)),
              AddColumn("exchange_rates", "date", Date),
              DropUnique("exchange_rates", "code_date"),
              CreateUnique("exchange_rates", "cc_from", {"cc_from", "cc_to", "date"}),
              DropColumn("exchange_rates", "currency_code"),
              DropColumn("exchange_rates", "exchange_date")>>,
     down |-> <<AddColumn("exchange_rates", "exchange_date", Date),
                AddColumn("exchange_rates", "currency_code", Text(3)),
                DropUnique("exchange_rates", "cc_from"),
                CreateUnique("exchange_rates", "code_date",
                             {"currency_code", "exchange_date"}),
                DropColumn("exchange_rates", "date"),
                DropColumn("exchange_rates", "cc_to"),
                DropColumn("exchange_rates", "cc_from")>>]

\* The news, the analytics of the agents and the jobs ...
Rev_e265bfe32c8c_tables ==
    <<CreateTable("news_items",
          [id |-> Int, title |-> Text(500), sources |-> Nullable(Texts),
           article_urls |-> Nullable(Column(<<"array", "varchar", 2048>>)),
           bookmarked |-> Default(Bool, "f"), reaction |-> Nullable(Text(10)),
           description |-> Text(5000), detailed_description |-> Nullable(Text(5000)),
           extended_description |-> Nullable(Text(5000)),
           human_feedback |-> Nullable(Text(5000)),
           needs_ai_analysis |-> Default(Bool, "f"), created_at |-> Now], {}, {}),
      CreateIndex("news_items", "created_at"),
      CreateIndex("news_items", "needs_ai_analysis"),
      CreateIndex("news_items", "reaction"),
      CreateTable("analytics_ai",
          [id |-> Int, pipeline_name |-> Text(255), trace_id |-> Text(12),
           agent_stats |-> Json, total_calls |-> Int, total_errors |-> Int,
           wall_time_s |-> Float, estimated_cost |-> Float, user_id |-> Nullable(Int),
           created_at |-> Now],
          {}, {<<"analytics_ai", "user_id", "users", "SET NULL">>}),
      CreateIndex("analytics_ai", "created_at")>>

\* ... and the columns for them.
\* Mutant: the jobs are written down in the program, not in the database.
Rev_e265bfe32c8c_columns_jobless ==
    <<AddColumn("exchange_rates", "source", Nullable(Default(Text(20), "nbu"))),
      AddColumn("users", "news_filter_prompt", Nullable(Text(5000))),
      AddColumn("users", "news_preference_profile", Nullable(Text(10000))),
      AddColumn("users", "gc_retention_days", Default(Int, "3")),
      AddColumn("users", "analyze_preferences", Default(Bool, "t")),
      AddColumn("users", "timezone", Default(Text(50), "UTC"))>>

Rev_e265bfe32c8c_columns ==
    <<CreateTable("jobs",
          [id |-> Int, name |-> Str, job_type |-> Text(100),
           _metadata |-> Default(Json, "{}"), interval_minutes |-> Nullable(Int),
           is_active |-> Default(Bool, "t"), last_run_at |-> Nullable(Moment),
           next_run_at |-> Now, last_status |-> Nullable(Text(20)),
           last_error |-> Nullable(Text(1000)), run_count |-> Default(Int, "0"),
           created_at |-> Now, user_id |-> Int],
          {}, {<<"jobs", "user_id", "users", "CASCADE">>}),
      AddColumn("exchange_rates", "source", Nullable(Default(Text(20), "nbu"))),
      AddColumn("users", "news_filter_prompt", Nullable(Text(5000))),
      AddColumn("users", "news_preference_profile", Nullable(Text(10000))),
      AddColumn("users", "gc_retention_days", Default(Int, "3")),
      AddColumn("users", "analyze_preferences", Default(Bool, "t")),
      AddColumn("users", "timezone", Default(Text(50), "UTC"))>>

Rev_e265bfe32c8c_down ==
    <<DropColumn("users", "timezone"), DropColumn("users", "analyze_preferences"),
      DropColumn("users", "gc_retention_days"),
      DropColumn("users", "news_preference_profile"),
      DropColumn("users", "news_filter_prompt"),
      DropColumn("exchange_rates", "source"), DropTable("jobs"),
      DropIndex("analytics_ai", "created_at"), DropTable("analytics_ai"),
      DropIndex("news_items", "reaction"), DropIndex("news_items", "needs_ai_analysis"),
      DropIndex("news_items", "created_at"), DropTable("news_items")>>

Rev_f39f0c5d4c46 ==
    [up |-> <<CreateTable("cash_balances",
                  [id |-> Int, user_id |-> Int, currency_id |-> Int,
                   balance |-> Default(Int, "0"), step |-> Int, created_at |-> Now,
                   updated_at |-> Now],
                  {<<"user_id", {"user_id", "currency_id"}>>},
                  References("cash_balances", {"currency_id"}, "currencies")
                  \cup References("cash_balances", {"user_id"}, "users"))>>,
     down |-> <<DropTable("cash_balances")>>]

\* Mutant: the balances are thrown away and started again.
Rev_896bbba0f324_restart ==
    [up |-> <<DropTable("cash_balances"),
              CreateTable("cash_balances",
                  [id |-> Int, currency_id |-> Int, balance |-> Default(Int, "0"),
                   step |-> Int, created_at |-> Now, updated_at |-> Now],
                  {<<"currency_id", {"currency_id"}>>},
                  References("cash_balances", {"currency_id"}, "currencies"))>>,
     down |-> <<>>]

Rev_896bbba0f324 ==
    [up |-> <<DropUnique("cash_balances", "user_id"),
              CreateUnique("cash_balances", "currency_id", {"currency_id"}),
              DropKey("cash_balances", "user_id", "users"),
              DropColumn("cash_balances", "user_id")>>,
     down |-> <<AddColumn("cash_balances", "user_id", Int),
                CreateKey("cash_balances", "user_id", "users", "RESTRICT"),
                DropUnique("cash_balances", "currency_id"),
                CreateUnique("cash_balances", "user_id", {"user_id", "currency_id"})>>]

Rev_6100112aa980 ==
    [up |-> <<CreateTable("assets", [id |-> Int, name |-> Str, created_at |-> Now,
                                     updated_at |-> Now], {}, {}),
              CreateTable("asset_documents",
                  [id |-> Int, asset_id |-> Int, filename |-> Str,
                   content_type |-> Str, data |-> Bytes, created_at |-> Now],
                  {}, {<<"asset_documents", "asset_id", "assets", "CASCADE">>}),
              CreateTable("asset_fields",
                  [id |-> Int, asset_id |-> Int, key |-> Str, value |-> Str,
                   created_at |-> Now],
                  {}, {<<"asset_fields", "asset_id", "assets", "CASCADE">>})>>,
     down |-> <<DropTable("asset_fields"), DropTable("asset_documents"),
                DropTable("assets")>>]

Rev_917183cf8e5f ==
    [up |-> <<CreateTable("deleted_signals",
                  [id |-> Int, user_id |-> Int, title |-> Text(500),
                   description |-> Nullable(Text(5000)),
                   human_feedback |-> Nullable(Text(5000)),
                   sources |-> Nullable(Texts), source_type |-> Text(20),
                   created_at |-> Now],
                  {}, {<<"deleted_signals", "user_id", "users", "CASCADE">>}),
              CreateIndex("deleted_signals", "created_at"),
              CreateIndex("deleted_signals", "user_id"),
              AddColumn("news_items", "user_id", Nullable(Int)),
              CreateIndex("news_items", "user_id"),
              CreateKey("news_items", "user_id", "users", "CASCADE")>>,
     down |-> <<DropKey("news_items", "user_id", "users"),
                DropIndex("news_items", "user_id"),
                DropColumn("news_items", "user_id"),
                DropIndex("deleted_signals", "user_id"),
                DropIndex("deleted_signals", "created_at"),
                DropTable("deleted_signals")>>]

\* Each revision names the one it follows (down_revision): one line, one head.
Revisions ==
    <<[up |-> Rev_e787ed8f47cb_up, down |-> Rev_e787ed8f47cb_down],
      Rev_cc52aac9ed5e, Rev_79a0d6d194ca, Rev_3ef6fd0f6aaf, Rev_582ba7eac761,
      Rev_ea658b49d015, Rev_0a6050da347f, Rev_b6f2c5d8783b, Rev_e718179ea572,
      Rev_a125e6ac95d6, Rev_1637d76700ba, Rev_2a3b4c5d6e7f, Rev_fc447514f941,
      [up |-> Rev_e265bfe32c8c_tables \o Rev_e265bfe32c8c_columns,
       down |-> Rev_e265bfe32c8c_down],
      Rev_f39f0c5d4c46, Rev_896bbba0f324, Rev_6100112aa980, Rev_917183cf8e5f>>

Newest == Len(Revisions)

Identifiers ==
    <<"e787ed8f47cb", "cc52aac9ed5e", "79a0d6d194ca", "3ef6fd0f6aaf", "582ba7eac761",
      "ea658b49d015", "0a6050da347f", "b6f2c5d8783b", "e718179ea572", "a125e6ac95d6",
      "1637d76700ba", "2a3b4c5d6e7f", "fc447514f941", "e265bfe32c8c", "f39f0c5d4c46",
      "896bbba0f324", "6100112aa980", "917183cf8e5f">>

Empty ==
    [tables |-> <<>>, uniques |-> {}, keys |-> {}, indexes |-> {},
     filled |-> {}, repeated |-> {}, long |-> {}, unset |-> {}]

SchemaOf(d) ==
    [tables |-> d.tables, uniques |-> d.uniques, keys |-> d.keys,
     indexes |-> d.indexes]

\* The upgrades from revision m to revision n, as one script.
Script(m, n) ==
    LET script[i \in m..n] ==
            IF i = m THEN <<>> ELSE script[i - 1] \o Revisions[i].up
    IN  script[n]

SchemaAt == [n \in 0..Newest |-> SchemaOf(Outcome(Empty, Script(0, n)))]

-----------------------------------------------------------------------------
(* Steps                                                                   *)

Init == revision = 0 /\ db = Empty

\* alembic upgrade, to the newest revision there is at the time.
Upgrade ==
    \E n \in revision + 1 .. Newest :
        LET script == Script(revision, n)
        IN  /\ Runs(db, script)
            /\ db' = Outcome(db, script)
            /\ revision' = n

\* alembic downgrade -1.
Downgrade ==
    /\ revision > 0
    /\ Runs(db, Revisions[revision].down)
    /\ db' = Outcome(db, Revisions[revision].down)
    /\ revision' = revision - 1

\* The service writes the first rows of a table; what they must refer to
\* is there.
Fill ==
    \E t \in Used \cap DOMAIN db.tables :
        /\ t \notin db.filled
        /\ \A k \in db.keys :
              k[1] = t /\ k[3] \in Used /\ ~db.tables[t][k[2]].null => k[3] \in db.filled
        /\ db' = [db EXCEPT !.filled = @ \cup {t}]
        /\ UNCHANGED revision

\* What some revision will want to be unique.
Candidates == {<<"users", {"token"}>>, <<"cash_balances", {"currency_id"}>>}

\* Two rows come to agree where no constraint forbids it.
Repeat ==
    \E r \in Candidates :
        /\ r[1] \in db.filled /\ r \notin db.repeated
        /\ \A c \in r[2] : Has(db, r[1], c)
        /\ \A u \in db.uniques : ~(u[1] = r[1] /\ u[3] \subseteq r[2])
        /\ db' = [db EXCEPT !.repeated = @ \cup {r}]
        /\ UNCHANGED revision

\* What some revision will allow this many characters only.
ToBeShorter == {<<"incomes", "source", 7>>}

\* A longer text is stored while the column still takes it.
Lengthen ==
    \E l \in ToBeShorter :
        /\ l[1] \in db.filled /\ l \notin db.long
        /\ db.tables[l[1]][l[2]].type[2] > l[3]
        /\ db' = [db EXCEPT !.long = @ \cup {l}]
        /\ UNCHANGED revision

Next == Upgrade \/ Downgrade \/ Fill \/ Repeat \/ Lengthen

Spec == Init /\ [][Next]_vars

-----------------------------------------------------------------------------
(* Properties                                                              *)

\* Hand-written and generated revisions together end in the schema the
\* program declares: the same columns, types, defaults, constraints by name,
\* keys with what a delete does, and indexes.
HeadIsMetadata == revision = Newest => SchemaOf(db) = Metadata

\* A downgrade undoes its upgrade, whatever path led to a revision: names of
\* constraints and indexes included, so that every later statement finds what
\* it drops.
RevisionFixesSchema == SchemaOf(db) = SchemaAt[revision]

\* The rows that stop an upgrade: tokens given twice before they became
\* unique, sources of incomes longer than the four that became the only ones,
\* exchange rates stored before the rates had two currencies, and cash balances
\* of two users in one currency.
Obstacle(id) ==
    \/ id = "cc52aac9ed5e" /\ <<"users", {"token"}>> \in db.repeated
    \/ id = "582ba7eac761" /\ <<"incomes", "source", 7>> \in db.long
    \/ id = "fc447514f941" /\ "exchange_rates" \in db.filled
    \/ id = "896bbba0f324" /\ <<"cash_balances", {"currency_id"}>> \in db.repeated

\* What stops a downgrade: rows that need what the upgrade threw away (tokens,
\* the owner of a cash balance, the code of a rate), and the conversion of texts
\* to numbers, which PostgreSQL never does by itself.
Irreversible(id) ==
    \/ id = "3ef6fd0f6aaf"
    \/ id = "a125e6ac95d6" /\ "users" \in db.filled
    \/ id = "fc447514f941" /\ "exchange_rates" \in db.filled
    \/ id = "896bbba0f324" /\ "cash_balances" \in db.filled

\* A deployment or a rollback of the schema fails on these rows and on no others:
\* no revision relies on a table, a column or a constraint name that is not there.
StopsOnlyAtTheseRows ==
    /\ revision < Newest =>
        (Runs(db, Revisions[revision + 1].up) <=> ~Obstacle(Identifiers[revision + 1]))
    /\ revision > 0 =>
        (Runs(db, Revisions[revision].down) <=> ~Irreversible(Identifiers[revision]))

\* An upgrade of a database in use keeps every table and every column that
\* has rows, but for the tokens and the owners of cash balances; shortcuts older
\* than their positions get one with the column.
UpgradeKeepsRows ==
    [][revision' > revision =>
        /\ <<"cost_shortcuts", "ui_position_index">> \notin db'.unset
        /\ db.filled \subseteq db'.filled
        /\ \A t \in db.filled :
              {<<t, c>> : c \in DOMAIN db.tables[t] \ DOMAIN db'.tables[t]}
                  \subseteq {<<"users", "token">>, <<"cash_balances", "user_id">>}]_vars

=============================================================================
