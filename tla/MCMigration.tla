---------------------------- MODULE MCMigration ----------------------------
(***************************************************************************)
(* Instances of Migration for TLC: the databases of earlier versions that  *)
(* database_test.go upgrades, with the values that matter to a conversion, *)
(* and the empty one.                                                      *)
(***************************************************************************)
EXTENDS Migration

CONSTANTS s1, s2, k1, k2, u1, u2

NewTable(columns, ids, value(_, _)) ==
    [columns |-> columns, rows |-> [i \in ids |-> [c \in columns |-> value(i, c)]]]

Fresh == [accounts |-> Absent, subscriptions |-> Absent, apiKeys |-> Absent,
          keyParent |-> "accounts", keyUnique |-> FALSE, admin |-> Absent, users |-> {},
          usageLogs |-> FALSE, createdIndex |-> FALSE, logColumn |-> <<>>, versions |-> {}]

Value(i, c) ==
    CASE c = "timeout_ms" -> IF i = s1 THEN 2500 ELSE 0
      [] c = "timeout_seconds" -> 0
      [] c \in {"account_id", "subscription_id"} -> s1
      [] c \in {"credentials_encrypted", "credentials_json"} -> "secret"
      [] c \in {"proxy_url_encrypted", "proxy_url"} -> "proxy"
      [] OTHER -> "kept"

(* encrypted names, milliseconds, one key for an account, one admin *)
First ==
    [Fresh EXCEPT
       !.accounts = NewTable({"credentials_encrypted", "credential_key_id",
                              "proxy_url_encrypted", "timeout_ms"}, {s1, s2}, Value),
       !.apiKeys = NewTable({"account_id"}, {k1}, Value),
       !.keyUnique = TRUE,
       !.admin = NewTable({"totp_secret_enc"}, {u1}, Value),
       !.usageLogs = TRUE]

Marked == [First EXCEPT !.versions = {1, 2}]

Bare == [Fresh EXCEPT !.accounts = NewTable({"name"}, {s1}, Value),
                      !.apiKeys = NewTable({"account_id"}, {k1}, Value),
                      !.keyUnique = TRUE]

(* the last version before the renaming; milliseconds are left behind, and
   somebody has since set the seconds back to 0                              *)
Ninth ==
    [Fresh EXCEPT
       !.accounts = NewTable({"credentials_json", "proxy_url", "timeout_ms", "timeout_seconds",
                              "created_by"}, {s1}, Value),
       !.apiKeys = NewTable({"account_id", "key_plaintext"}, {k1}, Value),
       !.admin = NewTable({"totp_secret"}, {u1}, Value),
       !.users = {u2},
       !.createdIndex = TRUE,
       !.logColumn = [d \in Days |-> "account_id"],
       !.versions = {1, 2, 3, 4, 5, 6, 7, 9}]

Unmarked == [Ninth EXCEPT !.versions = {}]

MCDatabases == {Fresh, First, Marked, Bare, Ninth, Unmarked}
=============================================================================
