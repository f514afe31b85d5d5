------------------------------ MODULE PkceFlow ------------------------------
(***************************************************************************)
(* Claude and Codex logins by authorization code with PKCE                 *)
(* (src/internal/server/pkce_oauth.go, exchangeClaudeCode and              *)
(* exchangeCodexCode).  As in DeviceFlow a flow lives in a map under a     *)
(* mutex that is not held during the exchange and the insert; here the     *)
(* flag Finalizing covers both, it is cleared on every way back, and the   *)
(* tokens are never kept in the flow.  An authorization code buys tokens   *)
(* once, and only with the verifier of the flow it was issued for.         *)
(***************************************************************************)
EXTENDS Naturals, FiniteSets

CONSTANTS
    Flows,        \* flow ids, each started at most once
    Codes,        \* authorization codes; a user may obtain several for a flow
    Handlers,     \* goroutines serving exchanges
    MaxPending,   \* maxPendingPKCEOAuth
    MaxFaults,    \* bound: failing calls to the provider or the database
    MaxRestarts   \* bound: restarts of the process

ASSUME BoundsAssumption == MaxPending \in Nat /\ MaxFaults \in Nat /\ MaxRestarts \in Nat

None == "none"

ASSUME NilAssumption == None \notin Flows /\ None \notin Codes

VARIABLES
    started,     \* flows begun so far
    pending,     \* the keys of pkceOAuthFlows
    finalizing,  \* flows with Finalizing set
    expired,     \* flows whose ExpiresAt has come
    grantedTo,   \* provider: the flow a code was issued for
    valid,       \* provider: codes that have not been redeemed
    pc, flow, code,  \* where an exchange is, its flow and its code
    then,        \* what it does once Finalizing is cleared
    rows,        \* subscriptions inserted for the flow
    misread,     \* history: inserts reported as failed because the read-back failed
    faults, restarts

mapVars == <<started, pending, finalizing>>
provVars == <<grantedTo, valid>>
reqVars == <<pc, flow, code, then>>
dbVars == <<rows, misread>>
bounds == <<faults, restarts>>
vars == <<mapVars, expired, provVars, reqVars, dbVars, bounds>>

InExchange == {"redeem", "insert", "created", "clear", "drop"}

Exchanging(f) == {h \in Handlers : pc[h] \in InExchange /\ flow[h] = f}

Alive == pending \ expired       \* cleanupPKCEOAuthFlowsLocked leaves these

Go(h, p) == pc' = [pc EXCEPT ![h] = p]

(* setPKCEFinalizing(false) comes next, and p after it *)
ClearThen(h, p) == Go(h, "clear") /\ then' = [then EXCEPT ![h] = p]

Fault == faults < MaxFaults /\ faults' = faults + 1 /\ UNCHANGED restarts

-----------------------------------------------------------------------------
(* startPKCEOAuth: no provider is asked, the admin opens the URL himself *)
Start(f) ==
    /\ f \notin started
    /\ started' = started \union {f}
    /\ pending' = IF Cardinality(Alive) >= MaxPending THEN Alive ELSE Alive \union {f}
    /\ UNCHANGED <<finalizing, expired, provVars, reqVars, dbVars, bounds>>

(* Mutant of Exchange: Finalizing is not asked for. *)
ExchangeUnguarded(h, f, c) ==
    /\ pc[h] = "idle"
    /\ f \in Alive
    /\ pending' = Alive
    /\ flow' = [flow EXCEPT ![h] = f]
    /\ code' = [code EXCEPT ![h] = c]
    /\ finalizing' = finalizing \union {f}
    /\ Go(h, "redeem")
    /\ UNCHANGED <<started, expired, provVars, then, dbVars, bounds>>

(* the critical section of exchangePKCEOAuth: the flow is taken, unless it is
   unknown, foreign or expired (404), or being exchanged (202).  A code may
   come without its state, so it need not be one issued for this flow.       *)
Exchange(h, f, c) ==
    /\ pc[h] = "idle"
    /\ pending' = Alive
    /\ flow' = [flow EXCEPT ![h] = f]
    /\ code' = [code EXCEPT ![h] = c]
    /\ \/ /\ f \notin Alive \/ f \in finalizing
          /\ UNCHANGED <<pc, finalizing>>
       \/ /\ f \in Alive /\ f \notin finalizing
          /\ finalizing' = finalizing \union {f}
          /\ Go(h, "redeem")
    /\ UNCHANGED <<started, expired, provVars, then, dbVars, bounds>>

(* exchangePKCECode.  The provider redeems a valid code that was issued for
   this flow; the tokens it returns may lack the access token, or the account
   id a Codex subscription needs.                                            *)
Redeem(h) ==
    /\ pc[h] = "redeem"
    /\ \/ /\ code[h] \in valid /\ grantedTo[code[h]] = flow[h]
          /\ valid' = valid \ {code[h]}
          /\ UNCHANGED bounds
          /\ \/ Go(h, "insert") /\ UNCHANGED then
             \/ Go(h, "drop") /\ UNCHANGED then         \* no chatgpt_account_id
             \/ ClearThen(h, "idle")                    \* no access token
       \/ /\ code[h] \notin valid \/ grantedTo[code[h]] # flow[h]
          /\ ClearThen(h, "drop")                       \* invalid_grant
          /\ UNCHANGED <<valid, bounds>>
       \/ /\ Fault                                      \* no answer, or an error
          /\ ClearThen(h, "idle")
          /\ valid' \in {valid, valid \ {code[h]}}
    /\ UNCHANGED <<mapVars, expired, grantedTo, flow, code, dbVars>>

(* Mutant of Insert: Finalizing is cleared before the flow is removed, also
   after a success.                                                          *)
InsertThenClear(h) ==
    /\ pc[h] = "insert"
    /\ rows' = [rows EXCEPT ![flow[h]] = @ + 1]
    /\ ClearThen(h, "drop")
    /\ UNCHANGED <<mapVars, expired, provVars, flow, code, misread, bounds>>

(* CreateSubscription, which inserts the row and reads it back *)
Insert(h) ==
    /\ pc[h] = "insert"
    /\ \/ /\ rows' = [rows EXCEPT ![flow[h]] = @ + 1]
          /\ Go(h, "created")
          /\ UNCHANGED <<then, misread, bounds>>
       \/ /\ Fault
          /\ \/ UNCHANGED <<rows, misread>>
             \/ /\ rows' = [rows EXCEPT ![flow[h]] = @ + 1]
                /\ misread' = [misread EXCEPT ![flow[h]] = @ + 1]
          /\ ClearThen(h, "idle")
    /\ UNCHANGED <<mapVars, expired, provVars, flow, code>>

(* Mutant of Clear: only the way to the removal clears the flag. *)
ClearIfDropped(h) ==
    /\ pc[h] = "clear"
    /\ finalizing' = IF then[h] = "drop" THEN finalizing \ {flow[h]} ELSE finalizing
    /\ Go(h, then[h])
    /\ UNCHANGED <<started, pending, expired, provVars, flow, code, then, dbVars, bounds>>

(* setPKCEFinalizing(flow.ID, false) *)
Clear(h) ==
    /\ pc[h] = "clear"
    /\ finalizing' = IF flow[h] \in pending THEN finalizing \ {flow[h]} ELSE finalizing
    /\ Go(h, then[h])
    /\ UNCHANGED <<started, pending, expired, provVars, flow, code, then, dbVars, bounds>>

(* removePKCEOAuthFlow *)
Remove(h) ==
    /\ pc[h] \in {"created", "drop"}
    /\ pending' = pending \ {flow[h]}
    /\ Go(h, "idle")
    /\ UNCHANGED <<started, finalizing, expired, provVars, flow, code, then, dbVars, bounds>>

-----------------------------------------------------------------------------
(* the user logs in and is shown a code, more than once if he likes *)
Issue(f, c) ==
    /\ f \in started
    /\ grantedTo[c] = None
    /\ grantedTo' = [grantedTo EXCEPT ![c] = f]
    /\ valid' = valid \union {c}
    /\ UNCHANGED <<mapVars, expired, reqVars, dbVars, bounds>>

Expire(f) ==
    /\ f \in started \ expired
    /\ expired' = expired \union {f}
    /\ UNCHANGED <<mapVars, provVars, reqVars, dbVars, bounds>>

Restart ==
    /\ restarts < MaxRestarts
    /\ restarts' = restarts + 1
    /\ pending' = {} /\ finalizing' = {}
    /\ pc' = [h \in Handlers |-> "idle"]
    /\ UNCHANGED <<started, expired, provVars, flow, code, then, dbVars, faults>>

-----------------------------------------------------------------------------
Init ==
    /\ started = {} /\ pending = {} /\ finalizing = {} /\ expired = {}
    /\ grantedTo = [c \in Codes |-> None]
    /\ valid = {}
    /\ pc = [h \in Handlers |-> "idle"]
    /\ flow = [h \in Handlers |-> None]
    /\ code = [h \in Handlers |-> None]
    /\ then = [h \in Handlers |-> "idle"]
    /\ rows = [f \in Flows |-> 0]
    /\ misread = [f \in Flows |-> 0]
    /\ faults = 0 /\ restarts = 0

HandlerStep(h) == Redeem(h) \/ Insert(h) \/ Clear(h) \/ Remove(h)

Next ==
    \/ \E h \in Handlers : HandlerStep(h)
    \/ \E h \in Handlers, f \in Flows, c \in Codes : Exchange(h, f, c)
    \/ \E f \in Flows, c \in Codes : Issue(f, c)
    \/ \E f \in Flows : Start(f) \/ Expire(f)
    \/ Restart

Spec == Init /\ [][Next]_vars

(* handlers that have started run to their end *)
Fairness == \A h \in Handlers : WF_vars(HandlerStep(h))

FairSpec == Spec /\ Fairness

-----------------------------------------------------------------------------
TypeOK ==
    /\ started \subseteq Flows
    /\ pending \subseteq started /\ finalizing \subseteq started /\ expired \subseteq started
    /\ grantedTo \in [Codes -> Flows \union {None}]
    /\ valid \subseteq Codes
    /\ pc \in [Handlers -> {"idle"} \union InExchange]
    /\ flow \in [Handlers -> Flows \union {None}]
    /\ code \in [Handlers -> Codes \union {None}]
    /\ then \in [Handlers -> {"idle", "drop"}]
    /\ rows \in [Flows -> Nat]
    /\ misread \in [Flows -> Nat]
    /\ faults \in 0..MaxFaults
    /\ restarts \in 0..MaxRestarts

(* Whatever codes are pasted how often, and whichever exchange fails or
   outlives its flow, a login creates one subscription, unless an insert that
   took place was reported as failed.                                        *)
OneSubscription == \A f \in Flows : rows[f] <= 1 + misread[f]

(* Finalizing and the removal of the flow keep exchanges apart: at no time
   are two codes of one flow on their way to a subscription, also between the
   two critical sections that follow an invalid_grant.                       *)
OneExchange ==
    \A f \in Flows : \A h, k \in Exchanging(f) :
        pc[h] \in {"redeem", "insert"} /\ pc[k] \in {"redeem", "insert", "created"} => h = k

(* No way out of an exchange leaves its flow behind as "finalizing", a state
   in which every further exchange is turned away until the flow expires.    *)
NeverStuckFinalizing ==
    \A f \in Flows :
        f \in pending /\ f \in finalizing ~> f \notin pending \/ f \notin finalizing

=============================================================================
