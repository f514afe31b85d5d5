---------------------------- MODULE ClientCache ----------------------------
(***************************************************************************)
(* The HTTP client of one subscription                                     *)
(* (src/internal/server/account_proxy.go).  A client is built for the      *)
(* proxy_url of the row as the caller resolved it and kept in              *)
(* Server.subscriptionClients until it is closed.  The admin handlers      *)
(* write the row first and close the client afterwards; a PUT whose        *)
(* credentials turn out invalid writes the row and never closes.           *)
(***************************************************************************)
EXTENDS Naturals

CONSTANTS
    Callers,    \* callers of clientForSubscription
    Admins,     \* admin handlers
    Proxies,    \* proxy_url values, the empty one included
    MaxWrites   \* bound: admin writes of the row

ASSUME WritesAssumption == MaxWrites \in Nat

VARIABLES
    exists,    \* is there a subscriptions row?
    proxy,     \* its proxy_url
    client,    \* Server.subscriptionClients entry: none, or a client
    built,     \* number of clients built, which names them
    callerPc, snap, inUse,   \* a caller: where it is, the proxy resolved, the client it got
    adminPc, writes,
    closes,    \* history: how often the entry was dropped
    raced,     \* history: was a client stored for a proxy that was no longer the row's?
    rejected   \* history: was a PUT answered 400 after it had written the row?

callerVars == <<callerPc, snap, inUse>>
rowVars == <<exists, proxy>>
cacheHistory == <<closes, raced, rejected>>
cacheVars == <<rowVars, client, built, callerVars, adminPc, writes, cacheHistory>>

NoClient == [id |-> 0, via |-> "none"]
Ids == Nat \ {0}

-----------------------------------------------------------------------------
Resolve(r) ==
    /\ callerPc[r] = "start"
    /\ exists
    /\ snap' = [snap EXCEPT ![r] = proxy]
    /\ callerPc' = [callerPc EXCEPT ![r] = "resolved"]
    /\ UNCHANGED <<rowVars, client, built, inUse, adminPc, writes, cacheHistory>>

(* clientForSubscription: Load ... *)
LoadClient(r) ==
    /\ callerPc[r] = "resolved"
    /\ inUse' = [inUse EXCEPT ![r] = client]
    /\ callerPc' = [callerPc EXCEPT ![r] = IF client = NoClient THEN "building" ELSE "using"]
    /\ UNCHANGED <<rowVars, client, built, snap, adminPc, writes, cacheHistory>>

(* Mutant of StoreClient: it replaces the one a racing request has stored. *)
StoreOver(r) ==
    /\ callerPc[r] = "building"
    /\ built' = built + 1
    /\ client' = [id |-> built', via |-> snap[r]]
    /\ raced' = (raced \/ ~exists \/ snap[r] # proxy)
    /\ inUse' = [inUse EXCEPT ![r] = client']
    /\ callerPc' = [callerPc EXCEPT ![r] = "using"]
    /\ UNCHANGED <<rowVars, snap, adminPc, writes, closes, rejected>>

(* ... or build one for the resolved proxy and LoadOrStore it *)
StoreClient(r) ==
    /\ callerPc[r] = "building"
    /\ built' = built + 1
    /\ \/ /\ client = NoClient
          /\ client' = [id |-> built', via |-> snap[r]]
          /\ raced' = (raced \/ ~exists \/ snap[r] # proxy)
       \/ /\ client # NoClient
          /\ UNCHANGED <<client, raced>>
    /\ inUse' = [inUse EXCEPT ![r] = client']
    /\ callerPc' = [callerPc EXCEPT ![r] = "using"]
    /\ UNCHANGED <<rowVars, snap, adminPc, writes, closes, rejected>>

(* the upstream calls of the request are over *)
EndRequest(r) ==
    /\ callerPc[r] = "using"
    /\ callerPc' = [callerPc EXCEPT ![r] = "done"]
    /\ UNCHANGED <<rowVars, client, built, snap, inUse, adminPc, writes, cacheHistory>>

-----------------------------------------------------------------------------
(* updateSubscription and updateSubscriptionProxy write the row first *)
WriteProxy(m, p) ==
    /\ adminPc[m] = "idle"
    /\ writes < MaxWrites
    /\ exists
    /\ proxy' = p
    /\ writes' = writes + 1
    /\ adminPc' = [adminPc EXCEPT ![m] = "written"]
    /\ UNCHANGED <<exists, client, built, callerVars, cacheHistory>>

DeleteRow(m) ==
    /\ adminPc[m] = "idle"
    /\ writes < MaxWrites
    /\ exists
    /\ exists' = FALSE
    /\ writes' = writes + 1
    /\ adminPc' = [adminPc EXCEPT ![m] = "deleted"]
    /\ UNCHANGED <<proxy, client, built, callerVars, cacheHistory>>

(* Mutant of CloseClient: idle connections are closed, the entry stays. *)
CloseConnectionsOnly(m) ==
    /\ adminPc[m] \in {"written", "deleted"}
    /\ closes' = closes + 1
    /\ adminPc' = [adminPc EXCEPT ![m] = "idle"]
    /\ UNCHANGED <<rowVars, client, built, callerVars, writes, raced, rejected>>

(* closeSubscriptionClient: the entry goes; whoever uses the client keeps it *)
CloseClient(m) ==
    /\ adminPc[m] \in {"written", "deleted"}
    /\ client' = NoClient
    /\ closes' = closes + 1
    /\ adminPc' = [adminPc EXCEPT ![m] = "idle"]
    /\ UNCHANGED <<rowVars, built, callerVars, writes, raced, rejected>>

(* the early return of updateSubscription on invalid credentials *)
RejectCredentials(m) ==
    /\ adminPc[m] = "written"
    /\ rejected' = TRUE
    /\ adminPc' = [adminPc EXCEPT ![m] = "idle"]
    /\ UNCHANGED <<rowVars, client, built, callerVars, writes, closes, raced>>

-----------------------------------------------------------------------------
CacheInit ==
    /\ exists = TRUE
    /\ proxy \in Proxies
    /\ client = NoClient
    /\ built = 0
    /\ callerPc = [r \in Callers |-> "start"]
    /\ snap = [r \in Callers |-> proxy]
    /\ inUse = [r \in Callers |-> NoClient]
    /\ adminPc = [m \in Admins |-> "idle"]
    /\ writes = 0
    /\ closes = 0
    /\ raced = FALSE
    /\ rejected = FALSE

CacheNext ==
    \/ \E r \in Callers : Resolve(r) \/ LoadClient(r) \/ StoreClient(r) \/ EndRequest(r)
    \/ \E m \in Admins, p \in Proxies : WriteProxy(m, p)
    \/ \E m \in Admins : DeleteRow(m) \/ CloseClient(m) \/ RejectCredentials(m)

CacheSpec == CacheInit /\ [][CacheNext]_cacheVars

-----------------------------------------------------------------------------
CacheTypeOK ==
    /\ exists \in BOOLEAN
    /\ proxy \in Proxies
    /\ client \in [id : Ids, via : Proxies] \union {NoClient}
    /\ built \in Nat
    /\ callerPc \in [Callers -> {"start", "resolved", "building", "using", "done"}]
    /\ snap \in [Callers -> Proxies]
    /\ inUse \in [Callers -> [id : Ids, via : Proxies] \union {NoClient}]
    /\ adminPc \in [Admins -> {"idle", "written", "deleted"}]
    /\ writes \in 0..MaxWrites
    /\ closes \in Nat
    /\ raced \in BOOLEAN
    /\ rejected \in BOOLEAN

(* docs/api.md:452, "changing the proxy closes the client; the next request
   rebuilds it": once the handlers have answered, the client that is kept is
   one for the proxy in the row, and a deleted subscription keeps none.      *)
ClientInForce ==
    (\A m \in Admins : adminPc[m] = "idle") /\ client # NoClient
        => exists /\ client.via = proxy

(* The order "row first, close afterwards" leaves exactly two ways to keep a
   client for an old proxy: a request that resolved before the write and
   stores after the close, and a PUT that returns early.                     *)
InForceUnlessRaced == raced \/ rejected \/ ClientInForce

(* README.md:148, one connection pool per account: requests that race to
   build the client share one, and only a close makes room for another.      *)
OnePool ==
    closes = 0 => \A r, q \in Callers :
        callerPc[r] = "using" /\ callerPc[q] = "using" => inUse[r].id = inUse[q].id

=============================================================================
