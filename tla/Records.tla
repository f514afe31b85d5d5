------------------------------ MODULE Records ------------------------------
(***************************************************************************)
(* What the database promises its operator (docs/database.md, 5 and 6):    *)
(* the subscriptions, keys and users change by what somebody asks the      *)
(* server for, and by nothing else.  Upgrades, restarts and crashes in the *)
(* middle of an upgrade do not appear here: they must change nothing.      *)
(***************************************************************************)
EXTENDS Naturals

CONSTANTS
    Subs,       \* subscription ids
    Keys,       \* API key ids
    Names,      \* user names
    Seconds     \* the queue timeouts an admin may set

VARIABLES
    subscribed, \* subscription id -> [credentials, proxy, timeout]
    issued,     \* key id -> [subscription, plaintext]
    accepted    \* the names of the users

recordVars == <<subscribed, issued, accepted>>

Without(f, S) == [x \in DOMAIN f \ S |-> f[x]]

SetTimeout(s, n) ==
    /\ s \in DOMAIN subscribed
    /\ subscribed' = [subscribed EXCEPT ![s].timeout = n]
    /\ UNCHANGED <<issued, accepted>>

(* a subscription takes its keys with it *)
DeleteSubscription(s) ==
    /\ s \in DOMAIN subscribed
    /\ subscribed' = Without(subscribed, {s})
    /\ issued' = Without(issued, {k \in DOMAIN issued : issued[k].subscription = s})
    /\ UNCHANGED accepted

CreateKey(k, s) ==
    /\ k \notin DOMAIN issued /\ s \in DOMAIN subscribed
    /\ issued' = [j \in DOMAIN issued \union {k} |->
                     IF j = k THEN [subscription |-> s, plaintext |-> "kept"] ELSE issued[j]]
    /\ UNCHANGED <<subscribed, accepted>>

CreateUser(u) ==
    /\ u \notin accepted
    /\ accepted' = accepted \union {u}
    /\ UNCHANGED <<subscribed, issued>>

DeleteUser(u) ==
    /\ u \in accepted
    /\ accepted' = accepted \ {u}
    /\ UNCHANGED <<subscribed, issued>>

Request ==
    \/ \E s \in Subs, n \in Seconds : SetTimeout(s, n)
    \/ \E s \in Subs : DeleteSubscription(s)
    \/ \E k \in Keys, s \in Subs : CreateKey(k, s)
    \/ \E u \in Names : CreateUser(u) \/ DeleteUser(u)

(* whatever the database held when it was first opened *)
Held ==
    /\ DOMAIN subscribed \subseteq Subs
    /\ DOMAIN issued \subseteq Keys
    /\ accepted \subseteq Names

Spec == Held /\ [][Request]_recordVars
=============================================================================
