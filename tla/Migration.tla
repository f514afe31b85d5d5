----------------------------- MODULE Migration -----------------------------
(***************************************************************************)
(* The SQLite migrations that run at every start, before anything is       *)
(* served (src/internal/database/database.go, Migrate).  They have no      *)
(* transaction around them: each statement is a step of its own, only the  *)
(* two rebuilds of api_keys are transactions, and after a failure, a crash *)
(* or an ordinary restart they begin again from the first statement, on    *)
(* whatever the database then is.                                          *)
(*                                                                         *)
(* A table is a set of columns and a function from ids to rows; a table    *)
(* that does not exist has no columns.  Columns nothing here tells apart,  *)
(* and the indexes that no statement trips over, are left out.  Serving is *)
(* cut down to the requests that touch what the migrations touch.          *)
(***************************************************************************)
EXTENDS Integers

CONSTANTS
    Subs, Keys, Names,  \* ids of subscriptions and keys, names of users
    Days,               \* daily request_logs tables, named by their day
    Seconds,            \* queue timeouts an admin may set
    Databases,          \* the databases earlier versions have left behind
    MaxCrashes,         \* bound: crashes and restarts
    MaxEdits            \* bound: requests that change something

ASSUME BoundsAssumption == MaxCrashes \in Nat /\ MaxEdits \in Nat /\ Seconds \subseteq Nat

VARIABLES
    accounts, subscriptions,  \* tables: the old name and the new
    apiKeys,                  \* table
    keyParent,                \* the table its foreign key refers to
    keyUnique,                \* its foreign key column is UNIQUE
    admin,                    \* table of the single user of old
    users,                    \* the names in table users
    usageLogs,                \* table usage_logs exists
    createdIndex,             \* idx_accounts_created_by exists
    logColumn,                \* account_id or subscription_id, of each daily table
    versions,                 \* schema_migrations
    foreignKeys,              \* PRAGMA foreign_keys of the only connection
    statement,                       \* the next statement of Migrate, or "serving"
    crashes, edits

keyVars == <<apiKeys, keyParent, keyUnique>>
userVars == <<admin, users>>
otherVars == <<usageLogs, logColumn>>
bounds == <<crashes, edits>>
databaseVars == <<accounts, subscriptions, keyVars, userVars, otherVars, createdIndex, versions,
                  foreignKeys, statement, bounds>>

Absent == [columns |-> {}, rows |-> <<>>]

Exists(t) == t.columns # {}
Has(t, c) == c \in t.columns

(* ALTER TABLE ... RENAME, ADD and DROP COLUMN, as the helpers call them *)
Rename(t, old, new) ==
    IF Has(t, new) \/ ~Has(t, old) THEN t
    ELSE [columns |-> (t.columns \ {old}) \union {new},
          rows |-> [i \in DOMAIN t.rows |->
                      [c \in (t.columns \ {old}) \union {new} |->
                         IF c = new THEN t.rows[i][old] ELSE t.rows[i][c]]]]

Ensure(t, new, default) ==
    IF ~Exists(t) \/ Has(t, new) THEN t
    ELSE [columns |-> t.columns \union {new},
          rows |-> [i \in DOMAIN t.rows |->
                      [c \in t.columns \union {new} |->
                         IF c = new THEN default ELSE t.rows[i][c]]]]

Drop(t, old) ==
    [columns |-> t.columns \ {old},
     rows |-> [i \in DOMAIN t.rows |-> [c \in t.columns \ {old} |-> t.rows[i][c]]]]

(* the table that holds the subscriptions *)
CurrentOf(old, new) == IF Exists(old) /\ DOMAIN new.rows = {} THEN old ELSE new

(* What the versions recorded in a database say of it. *)
InForce(db) ==
    /\ 3 \in db.versions => Has(CurrentOf(db.accounts, db.subscriptions), "timeout_seconds")
    /\ 4 \in db.versions =>
          LET t == CurrentOf(db.accounts, db.subscriptions)
          IN  /\ Has(t, "credentials_json") /\ Has(t, "proxy_url")
              /\ ~Has(t, "credentials_encrypted") /\ ~Has(t, "credential_key_id")
              /\ ~Has(db.admin, "totp_secret_enc")
    /\ 5 \in db.versions => ~db.keyUnique
    /\ 6 \in db.versions => db.users # {} \/ DOMAIN db.admin.rows = {}
    /\ 7 \in db.versions => ~db.usageLogs
    /\ 10 \in db.versions =>
          /\ ~Exists(db.accounts) /\ ~Has(db.subscriptions, "created_by")
          /\ Has(db.apiKeys, "subscription_id") /\ ~Has(db.apiKeys, "account_id")
          /\ \A d \in DOMAIN db.logColumn : db.logColumn[d] = "subscription_id"
    /\ 11 \in db.versions => Has(db.apiKeys, "user_id")

(* The databases of earlier versions: every row has a value in every column
   of its table; subscriptions are in one of the two tables, columns have the
   old name or the new one; only keys that refer to the old one are unique;
   and what is recorded as done has been done.                               *)
IsTable(t) ==
    /\ t = [columns |-> t.columns, rows |-> t.rows]
    /\ t.rows = [i \in DOMAIN t.rows |-> [c \in t.columns |-> t.rows[i][c]]]
    /\ ~Exists(t) => DOMAIN t.rows = {}

LeftBehind(db) ==
    /\ \A t \in {db.accounts, db.subscriptions, db.apiKeys, db.admin} : IsTable(t)
    /\ DOMAIN db.accounts.rows \subseteq Subs /\ DOMAIN db.subscriptions.rows \subseteq Subs
    /\ DOMAIN db.apiKeys.rows \subseteq Keys
    /\ DOMAIN db.admin.rows \subseteq Names /\ db.users \subseteq Names
    /\ Exists(db.accounts) => DOMAIN db.subscriptions.rows = {}
    /\ \A t \in {db.accounts, db.subscriptions} :
          ~(Has(t, "credentials_json") /\ Has(t, "credentials_encrypted"))
    /\ ~(Has(db.admin, "totp_secret") /\ Has(db.admin, "totp_secret_enc"))
    /\ Exists(db.apiKeys) =>
          /\ Has(db.apiKeys, "account_id") # Has(db.apiKeys, "subscription_id")
          /\ Exists(db.accounts) \/ db.keyParent = "subscriptions"
    /\ db.keyUnique => Has(db.apiKeys, "account_id")
    /\ db.logColumn \in [DOMAIN db.logColumn -> {"account_id", "subscription_id"}]
    /\ db.versions \subseteq (1..11) \ {8}
    /\ 11 \in db.versions => 10 \in db.versions
    /\ InForce(db)

ASSUME DatabasesAssumption == \A db \in Databases : LeftBehind(db)

Without(f, S) == [x \in DOMAIN f \ S |-> f[x]]

Go(next) == statement' = next

(* the last statement of a version: its row in schema_migrations *)
Record(at, v, next) ==
    /\ statement = at
    /\ versions' = versions \union {v}
    /\ Go(next)
    /\ UNCHANGED <<accounts, subscriptions, keyVars, userVars, otherVars, createdIndex,
                   foreignKeys, bounds>>

-----------------------------------------------------------------------------
(* the base schema *)

Pragmas ==
    /\ statement = "open"
    /\ foreignKeys' = TRUE
    /\ Go("create_subscriptions")
    /\ UNCHANGED <<accounts, subscriptions, keyVars, userVars, otherVars, createdIndex,
                   versions, bounds>>

SubscriptionColumns == {"credentials_json", "proxy_url", "timeout_seconds"}

(* CREATE TABLE IF NOT EXISTS; an empty users and an absent one look alike *)
CreateTables ==
    /\ \/ /\ statement = "create_subscriptions"
          /\ subscriptions' = IF Exists(subscriptions) THEN subscriptions
                              ELSE [columns |-> SubscriptionColumns, rows |-> <<>>]
          /\ Go("create_api_keys")
          /\ UNCHANGED <<keyVars, admin>>
       \/ /\ statement = "create_api_keys"
          /\ IF Exists(apiKeys) THEN UNCHANGED keyVars
             ELSE /\ apiKeys' = [columns |-> {"subscription_id", "user_id", "key_plaintext"},
                                 rows |-> <<>>]
                  /\ keyParent' = "subscriptions"
                  /\ keyUnique' = FALSE
          /\ Go("create_admin")
          /\ UNCHANGED <<subscriptions, admin>>
       \/ /\ statement = "create_admin"
          /\ admin' = IF Exists(admin) THEN admin
                      ELSE [columns |-> {"totp_secret"}, rows |-> <<>>]
          /\ Go("early_rename")
          /\ UNCHANGED <<subscriptions, keyVars>>
    /\ UNCHANGED <<accounts, users, otherVars, createdIndex, versions, foreignKeys, bounds>>

(* renameAccountsToSubscriptionsEarly makes room for the old table ... *)
DropEmptySubscriptions ==
    /\ statement = "early_rename"
    /\ IF Exists(accounts) /\ DOMAIN subscriptions.rows = {}
       THEN subscriptions' = Absent /\ Go("rename_accounts")
       ELSE UNCHANGED subscriptions /\ Go("timeout_column")
    /\ UNCHANGED <<accounts, keyVars, userVars, otherVars, createdIndex, versions, foreignKeys,
                   bounds>>

(* ... and renames it, which SQLite carries over to the foreign key *)
RenameAccounts ==
    /\ statement = "rename_accounts"
    /\ subscriptions' = accounts
    /\ accounts' = Absent
    /\ keyParent' = "subscriptions"
    /\ Go("timeout_column")
    /\ UNCHANGED <<apiKeys, keyUnique, userVars, otherVars, createdIndex, versions, foreignKeys,
                   bounds>>

-----------------------------------------------------------------------------
(* versions 1 to 4: the table of subscriptions *)

EnsureTimeout ==
    /\ statement = "timeout_column"
    /\ subscriptions' = Ensure(subscriptions, "timeout_seconds", 0)
    /\ Go("record_1")
    /\ UNCHANGED <<accounts, keyVars, userVars, otherVars, createdIndex, versions, foreignKeys,
                   bounds>>

ToSeconds(ms) == IF ms <= 0 THEN 0 ELSE (ms + 999) \div 1000

(* UPDATE ... WHERE concurrency_queue_timeout_seconds=0 *)
Converted(t) ==
    IF ~Has(t, "timeout_ms") THEN t
    ELSE [t EXCEPT !.rows =
            [i \in DOMAIN @ |->
               IF @[i]["timeout_seconds"] = 0
               THEN [@[i] EXCEPT !["timeout_seconds"] = ToSeconds(t.rows[i]["timeout_ms"])]
               ELSE @[i]]]

(* Mutant of ConvertTimeouts: done at every start. *)
ConvertAlways ==
    /\ statement = "convert_timeouts"
    /\ subscriptions' = Converted(subscriptions)
    /\ Go("record_3")
    /\ UNCHANGED <<accounts, keyVars, userVars, otherVars, createdIndex, versions, foreignKeys,
                   bounds>>

ConvertTimeouts ==
    /\ statement = "convert_timeouts"
    /\ IF 3 \in versions
       THEN UNCHANGED subscriptions /\ Go("version_4")
       ELSE subscriptions' = Converted(subscriptions) /\ Go("record_3")
    /\ UNCHANGED <<accounts, keyVars, userVars, otherVars, createdIndex, versions, foreignKeys,
                   bounds>>

(* the statements of version 4, each of them behind a look at the columns *)
Version4 ==
    /\ \/ /\ statement = "version_4"
          /\ Go(IF 4 \in versions THEN "version_5" ELSE "rename_credentials")
          /\ UNCHANGED <<subscriptions, admin>>
       \/ /\ statement = "rename_credentials"
          /\ subscriptions' = Rename(subscriptions, "credentials_encrypted", "credentials_json")
          /\ Go("ensure_credentials")
          /\ UNCHANGED admin
       \/ /\ statement = "ensure_credentials"
          /\ subscriptions' = Ensure(subscriptions, "credentials_json", "no_credentials")
          /\ Go("rename_proxy")
          /\ UNCHANGED admin
       \/ /\ statement = "rename_proxy"
          /\ subscriptions' = Rename(subscriptions, "proxy_url_encrypted", "proxy_url")
          /\ Go("ensure_proxy")
          /\ UNCHANGED admin
       \/ /\ statement = "ensure_proxy"
          /\ subscriptions' = Ensure(subscriptions, "proxy_url", "NULL")
          /\ Go("drop_key_id")
          /\ UNCHANGED admin
       \/ /\ statement = "drop_key_id"
          /\ subscriptions' = Drop(subscriptions, "credential_key_id")
          /\ Go("rename_totp")
          /\ UNCHANGED admin
       \/ /\ statement = "rename_totp"
          /\ admin' = Rename(admin, "totp_secret_enc", "totp_secret")
          /\ Go("record_4")
          /\ UNCHANGED subscriptions
    /\ UNCHANGED <<accounts, keyVars, users, otherVars, createdIndex, versions, foreignKeys,
                   bounds>>

-----------------------------------------------------------------------------
(* versions 5 to 9 *)

(* the column that refers to the subscription, under either name *)
ParentColumn(keys) == IF Has(keys, "account_id") THEN "account_id" ELSE "subscription_id"

(* the copy both rebuilds of api_keys make; neither knows user_id yet *)
Rebuilt(columns) ==
    [columns |-> columns,
     rows |-> [k \in DOMAIN apiKeys.rows |->
                 [c \in columns |->
                    IF c = "subscription_id" THEN apiKeys.rows[k][ParentColumn(apiKeys)]
                    ELSE IF Has(apiKeys, c) THEN apiKeys.rows[k][c] ELSE "NULL"]]]

(* rebuildAPIKeysWithoutAccountUnique.  Version 5 is recorded by the
   transaction of the rebuild itself.                                        *)
Version5 ==
    /\ \/ /\ statement = "version_5"
          /\ Go(IF 5 \in versions THEN "version_6"
                ELSE IF Has(apiKeys, "account_id") THEN "rebuild_keys_5" ELSE "record_5")
          /\ foreignKeys' = IF statement' = "rebuild_keys_5" THEN FALSE ELSE foreignKeys
          /\ UNCHANGED <<keyVars, versions>>
       \/ /\ statement = "rebuild_keys_5"
          /\ apiKeys' = Rebuilt({"subscription_id"} \union
                                 (apiKeys.columns \intersect {"key_plaintext"}))
          /\ keyUnique' = FALSE
          /\ keyParent' = IF Exists(subscriptions) THEN "subscriptions" ELSE "accounts"
          /\ versions' = versions \union {5}
          /\ Go("restore_checks_5")
          /\ UNCHANGED foreignKeys
       \/ /\ statement = "restore_checks_5"                    \* deferred
          /\ foreignKeys' = TRUE
          /\ Go("version_6")
          /\ UNCHANGED <<keyVars, versions>>
    /\ UNCHANGED <<accounts, subscriptions, userVars, otherVars, createdIndex, bounds>>

(* migrateUsersFromAdmin *)
CopyAdmin ==
    /\ statement = "version_6"
    /\ IF 6 \in versions
       THEN UNCHANGED users /\ Go("plaintext_column")
       ELSE users' = (IF users = {} THEN DOMAIN admin.rows ELSE users) /\ Go("record_6")
    /\ UNCHANGED <<accounts, subscriptions, keyVars, admin, otherVars, createdIndex, versions,
                   foreignKeys, bounds>>

EnsurePlaintext ==
    /\ statement = "plaintext_column"
    /\ apiKeys' = Ensure(apiKeys, "key_plaintext", "NULL")
    /\ Go("version_7")
    /\ UNCHANGED <<accounts, subscriptions, keyParent, keyUnique, userVars, otherVars,
                   createdIndex, versions, foreignKeys, bounds>>

DropUsageLogs ==
    /\ statement = "version_7"
    /\ IF 7 \in versions
       THEN UNCHANGED usageLogs /\ Go("record_9")
       ELSE usageLogs' = FALSE /\ Go("record_7")
    /\ UNCHANGED <<accounts, subscriptions, keyVars, userVars, logColumn, createdIndex,
                   versions, foreignKeys, bounds>>

-----------------------------------------------------------------------------
(* migrateAccountsToSubscriptions: version 10.  The early rename has left no
   table accounts with a row in it, so that the copy this function also has
   for two tables has nothing to do.                                         *)

(* Mutant of Version10: the version is recorded before its statements. *)
Version10Early ==
    /\ statement = "version_10"
    /\ Go(IF 10 \in versions THEN "version_11" ELSE "drop_created_by_index")
    /\ versions' = versions \union {10}
    /\ UNCHANGED <<accounts, subscriptions, keyVars, userVars, otherVars, createdIndex,
                   foreignKeys, bounds>>

Version10 ==
    /\ statement = "version_10"
    /\ Go(IF 10 \in versions THEN "version_11" ELSE "drop_created_by_index")
    /\ UNCHANGED <<accounts, subscriptions, keyVars, userVars, otherVars, createdIndex,
                   versions, foreignKeys, bounds>>

(* Mutant of DropCreatedByIndex: left out. *)
KeepCreatedByIndex ==
    /\ statement = "drop_created_by_index"
    /\ Go("drop_created_by")
    /\ UNCHANGED <<accounts, subscriptions, keyVars, userVars, otherVars, createdIndex,
                   versions, foreignKeys, bounds>>

DropCreatedByIndex ==
    /\ statement = "drop_created_by_index"
    /\ createdIndex' = FALSE
    /\ Go("drop_created_by")
    /\ UNCHANGED <<accounts, subscriptions, keyVars, userVars, otherVars, versions,
                   foreignKeys, bounds>>

(* SQLite refuses to drop a column that is indexed; Migrate then returns the
   error, the program exits and is started again                             *)
DropCreatedBy ==
    /\ statement = "drop_created_by"
    /\ IF Has(subscriptions, "created_by") /\ createdIndex
       THEN /\ foreignKeys' = FALSE /\ Go("open")
            /\ UNCHANGED subscriptions
       ELSE /\ subscriptions' = Drop(subscriptions, "created_by")
            /\ Go("version_10_keys")
            /\ UNCHANGED foreignKeys
    /\ UNCHANGED <<accounts, keyVars, userVars, otherVars, createdIndex, versions, bounds>>

(* Mutant of RebuildKeys10: the deferred PRAGMA is forgotten. *)
RebuildKeys10Unchecked ==
    /\ \/ /\ statement = "version_10_keys"
          /\ Go(IF Has(apiKeys, "account_id") THEN "rebuild_keys_10" ELSE "rename_log_columns")
          /\ foreignKeys' = IF statement' = "rebuild_keys_10" THEN FALSE ELSE foreignKeys
          /\ UNCHANGED keyVars
       \/ /\ statement = "rebuild_keys_10"
          /\ apiKeys' = Rebuilt({"subscription_id", "key_plaintext"})
          /\ keyUnique' = FALSE
          /\ keyParent' = "subscriptions"
          /\ Go("rename_log_columns")
          /\ UNCHANGED foreignKeys
    /\ UNCHANGED <<accounts, subscriptions, userVars, otherVars, createdIndex, versions, bounds>>

(* rebuildAPIKeysSubscriptionID *)
RebuildKeys10 ==
    /\ \/ /\ statement = "version_10_keys"
          /\ Go(IF Has(apiKeys, "account_id") THEN "rebuild_keys_10" ELSE "rename_log_columns")
          /\ foreignKeys' = IF statement' = "rebuild_keys_10" THEN FALSE ELSE foreignKeys
          /\ UNCHANGED keyVars
       \/ /\ statement = "rebuild_keys_10"
          /\ apiKeys' = Rebuilt({"subscription_id", "key_plaintext"})
          /\ keyUnique' = FALSE
          /\ keyParent' = "subscriptions"
          /\ Go("restore_checks_10")
          /\ UNCHANGED foreignKeys
       \/ /\ statement = "restore_checks_10"                   \* deferred
          /\ foreignKeys' = TRUE
          /\ Go("rename_log_columns")
          /\ UNCHANGED keyVars
    /\ UNCHANGED <<accounts, subscriptions, userVars, otherVars, createdIndex, versions, bounds>>

(* migrateRequestLogAccountColumns, table by table *)
RenameLogColumns ==
    /\ statement = "rename_log_columns"
    /\ \/ \E d \in DOMAIN logColumn :
            /\ logColumn[d] = "account_id"
            /\ logColumn' = [logColumn EXCEPT ![d] = "subscription_id"]
            /\ UNCHANGED statement
       \/ /\ \A d \in DOMAIN logColumn : logColumn[d] # "account_id"
          /\ Go("record_10")
          /\ UNCHANGED logColumn
    /\ UNCHANGED <<accounts, subscriptions, keyVars, userVars, usageLogs, createdIndex, versions,
                   foreignKeys, bounds>>

(* migrateAPIKeyUsers *)
EnsureKeyUser ==
    /\ statement = "version_11"
    /\ IF 11 \in versions
       THEN UNCHANGED apiKeys /\ Go("serving")
       ELSE apiKeys' = Ensure(apiKeys, "user_id", "NULL") /\ Go("record_11")
    /\ UNCHANGED <<accounts, subscriptions, keyParent, keyUnique, userVars, otherVars,
                   createdIndex, versions, foreignKeys, bounds>>

Records1To11 ==
    \/ Record("record_1", 1, "record_2") \/ Record("record_2", 2, "convert_timeouts")
    \/ Record("record_3", 3, "version_4") \/ Record("record_4", 4, "version_5")
    \/ Record("record_5", 5, "version_6") \/ Record("record_6", 6, "plaintext_column")
    \/ Record("record_7", 7, "record_9") \/ Record("record_9", 9, "version_10")
    \/ Record("record_10", 10, "version_11") \/ Record("record_11", 11, "serving")

-----------------------------------------------------------------------------
(* Serving *)

Edit ==
    /\ statement = "serving"
    /\ edits < MaxEdits
    /\ edits' = edits + 1
    /\ UNCHANGED <<accounts, keyParent, keyUnique, admin, otherVars, createdIndex, versions,
                   foreignKeys, statement, crashes>>

SetTimeout(s, n) ==
    /\ Edit
    /\ s \in DOMAIN subscriptions.rows
    /\ subscriptions' = [subscriptions EXCEPT !.rows[s]["timeout_seconds"] = n]
    /\ UNCHANGED <<apiKeys, users>>

(* DELETE, with the cascade SQLite performs if the foreign key is checked *)
DeleteSubscription(s) ==
    /\ Edit
    /\ s \in DOMAIN subscriptions.rows
    /\ foreignKeys => keyParent = "subscriptions"
    /\ subscriptions' = [subscriptions EXCEPT !.rows = Without(@, {s})]
    /\ apiKeys' = IF foreignKeys
                  THEN [apiKeys EXCEPT !.rows =
                          Without(@, {k \in DOMAIN @ : @[k]["subscription_id"] = s})]
                  ELSE apiKeys
    /\ UNCHANGED users

CreateKey(k, s) ==
    /\ Edit
    /\ k \notin DOMAIN apiKeys.rows /\ s \in DOMAIN subscriptions.rows
    /\ apiKeys' = [apiKeys EXCEPT !.rows =
                     [j \in DOMAIN @ \union {k} |->
                        IF j = k THEN [c \in apiKeys.columns |->
                                         CASE c = "subscription_id" -> s
                                           [] c = "key_plaintext" -> "kept"
                                           [] OTHER -> "NULL"]
                        ELSE @[j]]]
    /\ UNCHANGED <<subscriptions, users>>

CreateUser(u) ==
    /\ Edit
    /\ u \notin users
    /\ users' = users \union {u}
    /\ UNCHANGED <<subscriptions, apiKeys>>

DeleteUser(u) ==
    /\ Edit
    /\ u \in users /\ users # {u}
    /\ users' = users \ {u}
    /\ UNCHANGED <<subscriptions, apiKeys>>

(* The process ends, between two statements or while it serves; the next one
   opens a connection of its own.                                            *)
Crash ==
    /\ crashes < MaxCrashes
    /\ crashes' = crashes + 1
    /\ foreignKeys' = FALSE
    /\ Go("open")
    /\ UNCHANGED <<accounts, subscriptions, keyVars, userVars, otherVars, createdIndex, versions,
                   edits>>

-----------------------------------------------------------------------------
Opened ==
    /\ \E db \in Databases :
         /\ accounts = db.accounts /\ subscriptions = db.subscriptions
         /\ apiKeys = db.apiKeys
         /\ keyParent = db.keyParent /\ keyUnique = db.keyUnique
         /\ admin = db.admin /\ users = db.users
         /\ usageLogs = db.usageLogs /\ createdIndex = db.createdIndex
         /\ logColumn = db.logColumn
         /\ versions = db.versions
    /\ foreignKeys = FALSE
    /\ statement = "open"
    /\ crashes = 0 /\ edits = 0

Migrate ==
    \/ Pragmas \/ CreateTables \/ DropEmptySubscriptions \/ RenameAccounts \/ EnsureTimeout
    \/ ConvertTimeouts \/ Version4 \/ Version5 \/ CopyAdmin \/ EnsurePlaintext \/ DropUsageLogs
    \/ Version10 \/ DropCreatedByIndex \/ DropCreatedBy \/ RebuildKeys10 \/ RenameLogColumns
    \/ EnsureKeyUser \/ Records1To11

Serve ==
    \/ \E s \in Subs, n \in Seconds : SetTimeout(s, n)
    \/ \E s \in Subs : DeleteSubscription(s)
    \/ \E k \in Keys, s \in Subs : CreateKey(k, s)
    \/ \E u \in Names : CreateUser(u) \/ DeleteUser(u)

Step == Migrate \/ Serve \/ Crash

Upgrade == Opened /\ [][Step]_databaseVars

(* Migrate is straight-line code: while the process lives, it goes on. *)
FairUpgrade == Upgrade /\ WF_databaseVars(Migrate)

-----------------------------------------------------------------------------
(* What a reader of the database would make of it at any moment, in the words
   of the current version: the refinement mapping.                           *)

Current == CurrentOf(accounts, subscriptions)

Stored(t, i, new, old, default) ==
    IF Has(t, new) THEN t.rows[i][new] ELSE IF Has(t, old) THEN t.rows[i][old] ELSE default

Timeout(t, i, converted) ==
    LET set == IF Has(t, "timeout_seconds") THEN t.rows[i]["timeout_seconds"] ELSE 0
    IN  IF ~converted /\ set = 0 /\ Has(t, "timeout_ms")
        THEN ToSeconds(t.rows[i]["timeout_ms"]) ELSE set

Read(t, converted) ==
    [i \in DOMAIN t.rows |->
       [credentials |-> Stored(t, i, "credentials_json", "credentials_encrypted", "no_credentials"),
        proxy |-> Stored(t, i, "proxy_url", "proxy_url_encrypted", "NULL"),
        timeout |-> Timeout(t, i, converted)]]

Subscribed == Read(Current, 3 \in versions)

ReadKeys(t) ==
    [k \in DOMAIN t.rows |->
       [subscription |-> t.rows[k][ParentColumn(t)],
        plaintext |-> IF Has(t, "key_plaintext") THEN t.rows[k]["key_plaintext"] ELSE "NULL"]]

Issued == ReadKeys(apiKeys)

Accepted == IF 6 \in versions \/ users # {} THEN users ELSE DOMAIN admin.rows

Kept == INSTANCE Records WITH
            subscribed <- Subscribed, issued <- Issued, accepted <- Accepted

(* No upgrade, at whichever statement it is cut off and however often it is
   begun again, loses or alters a subscription, a key or a user, or overrides
   a setting made since: in the words of the current version the records
   change by served requests only.                                           *)
RecordsKept == Kept!Spec

-----------------------------------------------------------------------------
(* A version that is recorded is in force, between any two statements and
   after a crash there: it will not be looked at again.                      *)
RecordedVersionsHold ==
    InForce([accounts |-> accounts, subscriptions |-> subscriptions, apiKeys |-> apiKeys,
             keyUnique |-> keyUnique, admin |-> admin, users |-> users, usageLogs |-> usageLogs,
             logColumn |-> logColumn, versions |-> versions])

(* Nothing is served from half a migration: requests find every column they
   name, a subscription may have several keys, and the deletion of one takes
   its keys along.                                                           *)
ServesCurrentSchema ==
    statement = "serving" =>
        /\ versions = (1..11) \ {8}
        /\ SubscriptionColumns \subseteq subscriptions.columns
        /\ {"subscription_id", "user_id", "key_plaintext"} \subseteq apiKeys.columns
        /\ ~keyUnique /\ keyParent = "subscriptions" /\ foreignKeys

(* The migrations come to an end from every database an earlier version left
   behind, unless the process is ended time and again.                       *)
EventuallyServes == []<>(statement = "serving")

=============================================================================
