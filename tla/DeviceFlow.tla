----------------------------- MODULE DeviceFlow -----------------------------
(***************************************************************************)
(* Grok logins with a device code (src/internal/server/grok_oauth.go).     *)
(* A flow lives in Server.grokOAuthFlows, under grokOAuthMu; the mutex is  *)
(* not held while the handler talks to xAI or to the database, so several  *)
(* polls of one flow, its expiry and a restart of the process interleave   *)
(* between the critical sections.  The flags Polling and Finalizing are    *)
(* what keeps the polls apart.                                             *)
(*                                                                         *)
(* The page that started the flow (web/admin.js) polls it, one request     *)
(* after the other, as long as the answer is 202; an error makes it forget *)
(* the flow.  Anybody else who knows the flow's id may poll it as well.    *)
(*                                                                         *)
(* xAI, the user in his browser, the clock and the outcome of a database   *)
(* call are the environment.                                               *)
(***************************************************************************)
EXTENDS Naturals, FiniteSets

CONSTANTS
    Flows,        \* flow ids, each started at most once
    Handlers,     \* goroutines serving polls
    MaxPending,   \* maxPendingGrokOAuth
    MaxFaults,    \* bound: failing calls to xAI or the database
    MaxRestarts   \* bound: restarts of the process

ASSUME BoundsAssumption == MaxPending \in Nat /\ MaxFaults \in Nat /\ MaxRestarts \in Nat

NoFlow == "none"

ASSUME NilAssumption == NoFlow \notin Flows

VARIABLES
    started,     \* flows begun so far
    pending,     \* the keys of grokOAuthFlows
    polling,     \* flows with Polling set
    finalizing,  \* flows with Finalizing set
    token,       \* flows with Token # nil
    rested,      \* flows whose NextPollAt has come
    expired,     \* flows whose ExpiresAt has come
    code,        \* xAI: what it knows of the flow's device code
    pc, flow,    \* where a poll is, and the flow it holds a pointer to
    reply,       \* xAI's answer to it
    page,        \* what the page that started the flow is doing
    byPage,      \* polls that serve such a page
    rows,        \* subscriptions inserted for the flow
    misread,     \* history: inserts reported as failed because the read-back failed
    lost,        \* history: flows whose token response never arrived
    broken,      \* history: flows with a failed call to xAI or the database
    died,        \* history: flows started before the last restart
    faults, restarts

flagVars == <<polling, finalizing, token>>
mapVars == <<started, pending, flagVars>>
clockVars == <<rested, expired>>
pollVars == <<pc, flow, reply>>
pageVars == <<page, byPage>>
dbVars == <<rows, misread>>
bounds == <<broken, died, faults, restarts>>
vars == <<mapVars, clockVars, code, pollVars, pageVars, dbVars, lost, bounds>>

Replies == {"none", "token", "pending", "slow_down", "access_denied", "expired_token", "failed"}
Codes == {"none", "open", "approved", "denied", "timeout", "consumed"}
Pages == {"none", "waiting", "asked", "done", "failed", "gone"}
InFinish == {"insert", "restore", "created"}

Asking(f) == {h \in Handlers : pc[h] \in {"asking", "answered"} /\ flow[h] = f}
Finishing(f) == {h \in Handlers : pc[h] \in InFinish /\ flow[h] = f}

Alive == pending \ expired       \* cleanupGrokOAuthFlowsLocked leaves these

Go(h, p) == pc' = [pc EXCEPT ![h] = p] /\ UNCHANGED pageVars

(* The handler answers; if it was the page that asked, this is where it goes:
   201 ends its polling, 202 lets it wait, an error makes it give up.        *)
Respond(h, next) ==
    /\ pc' = [pc EXCEPT ![h] = "idle"]
    /\ byPage' = byPage \ {h}
    /\ page' = [page EXCEPT ![flow[h]] = IF h \in byPage /\ @ = "asked" THEN next ELSE @]

Fault(f) ==
    /\ faults < MaxFaults
    /\ faults' = faults + 1
    /\ broken' = broken \union {f}
    /\ UNCHANGED <<died, restarts>>

-----------------------------------------------------------------------------
(* startGrokOAuthDevice: xAI has issued a device code; the flow is entered
   unless there are too many.                                                *)
Start(f) ==
    /\ f \notin started
    /\ started' = started \union {f}
    /\ code' = [code EXCEPT ![f] = "open"]
    /\ \/ /\ Cardinality(Alive) < MaxPending
          /\ pending' = Alive \union {f}
          /\ page' = [page EXCEPT ![f] = "waiting"]
       \/ /\ Cardinality(Alive) >= MaxPending
          /\ pending' = Alive
          /\ UNCHANGED page
    /\ UNCHANGED <<flagVars, clockVars, pollVars, byPage, dbVars, lost, bounds>>

(* Mutant of Poll: Polling is not set while the request is out. *)
PollUnflagged(h, f) ==
    /\ pc[h] = "idle"
    /\ pending' = Alive
    /\ flow' = [flow EXCEPT ![h] = f]
    /\ \/ /\ f \notin Alive \/ f \notin token \union rested
          /\ UNCHANGED <<pc, rested>>
       \/ /\ f \in Alive \intersect token
          /\ pc' = [pc EXCEPT ![h] = "finish"]
          /\ UNCHANGED rested
       \/ /\ f \in (Alive \intersect rested) \ token
          /\ rested' = rested \ {f}
          /\ pc' = [pc EXCEPT ![h] = "asking"]
    /\ UNCHANGED <<started, flagVars, expired, code, reply, dbVars, lost, bounds>>

(* the first critical section of pollGrokOAuthDevice *)
Poll(h, f) ==
    /\ pc[h] = "idle"
    /\ pending' = Alive
    /\ flow' = [flow EXCEPT ![h] = f]
    /\ \/ /\ f \notin Alive \/ (f \notin token /\ (f \in polling \/ f \notin rested))
          /\ UNCHANGED <<pc, polling, rested>>          \* 404, or 202 pending
       \/ /\ f \in Alive /\ f \in token
          /\ pc' = [pc EXCEPT ![h] = "finish"]
          /\ UNCHANGED <<polling, rested>>
       \/ /\ f \in Alive /\ f \notin token /\ f \notin polling /\ f \in rested
          /\ polling' = polling \union {f}
          /\ rested' = rested \ {f}
          /\ pc' = [pc EXCEPT ![h] = "asking"]
    /\ UNCHANGED <<started, finalizing, token, expired, code, reply, dbVars, lost, bounds>>

ClientPoll(h, f) == Poll(h, f) /\ UNCHANGED pageVars

(* pollGrokOAuth of the page: 404 makes it give up, 202 lets it wait *)
PagePoll(h, f) ==
    /\ page[f] = "waiting"
    /\ Poll(h, f)
    /\ \/ /\ pc'[h] # "idle"
          /\ page' = [page EXCEPT ![f] = "asked"]
          /\ byPage' = byPage \union {h}
       \/ /\ pc'[h] = "idle"
          /\ page' = [page EXCEPT ![f] = IF f \in Alive THEN "waiting" ELSE "failed"]
          /\ UNCHANGED byPage

(* cancelGrokOAuth; the page is closed; its request fails on the way *)
LeavePage(f) ==
    /\ page[f] \in {"waiting", "asked"}
    /\ page' = [page EXCEPT ![f] = "gone"]
    /\ UNCHANGED <<mapVars, clockVars, code, pollVars, byPage, dbVars, lost, bounds>>

(* xAI answers the token request *)
Answer(h) ==
    /\ pc[h] = "asking"
    /\ LET f == flow[h]
           says == CASE code[f] = "open" -> {"pending", "slow_down"}
                     [] code[f] = "approved" -> {"token"}
                     [] code[f] = "denied" -> {"access_denied"}
                     [] code[f] = "timeout" -> {"expired_token"}
                     [] code[f] = "consumed" -> {"failed"}
       IN  \/ /\ \E a \in says : reply' = [reply EXCEPT ![h] = a]
              /\ code' = [code EXCEPT ![f] = IF @ = "approved" THEN "consumed" ELSE @]
              /\ UNCHANGED <<lost, bounds>>
           \/ /\ Fault(f)                               \* the answer does not arrive
              /\ reply' = [reply EXCEPT ![h] = "failed"]
              /\ code' = [code EXCEPT ![f] = IF @ = "approved" THEN "consumed" ELSE @]
              /\ lost' = IF code[f] = "approved" THEN lost \union {f} ELSE lost
    /\ Go(h, "answered")
    /\ UNCHANGED <<mapVars, clockVars, flow, dbVars>>

(* the second critical section: Polling is cleared and a token stored at once *)
Receive(h) ==
    /\ pc[h] = "answered"
    /\ polling' = IF flow[h] \in pending THEN polling \ {flow[h]} ELSE polling
    /\ token' = IF reply[h] = "token" /\ flow[h] \in pending
                THEN token \union {flow[h]} ELSE token
    /\ \/ reply[h] = "token" /\ Go(h, "finish")
       \/ reply[h] = "slow_down" /\ Go(h, "slow_down")
       \/ reply[h] \in {"access_denied", "expired_token"} /\ Go(h, "remove")
       \/ reply[h] = "pending" /\ Respond(h, "waiting")
       \/ reply[h] = "failed" /\ Respond(h, "failed")
    /\ UNCHANGED <<started, pending, finalizing, clockVars, code, flow, reply, dbVars, lost,
                   bounds>>

(* slow_down has a critical section of its own *)
SlowDown(h) ==
    /\ pc[h] = "slow_down"
    /\ rested' = IF flow[h] \in pending THEN rested \ {flow[h]} ELSE rested
    /\ Respond(h, "waiting")
    /\ UNCHANGED <<mapVars, expired, code, flow, reply, dbVars, lost, bounds>>

(* removeGrokOAuthFlow: 403 or 410, 201 *)
Remove(h) ==
    /\ \/ pc[h] = "remove" /\ Respond(h, "failed")
       \/ pc[h] = "created" /\ Respond(h, "done")
    /\ pending' = pending \ {flow[h]}
    /\ UNCHANGED <<started, flagVars, clockVars, code, flow, reply, dbVars, lost, bounds>>

(* Mutant of Finish: Finalizing is set, but not asked for. *)
FinishUnguarded(h) ==
    /\ pc[h] = "finish"
    /\ flow[h] \in pending \intersect token
    /\ finalizing' = finalizing \union {flow[h]}
    /\ Go(h, "insert")
    /\ UNCHANGED <<started, pending, polling, token, clockVars, code, flow, reply, dbVars,
                   lost, bounds>>

(* finishGrokOAuthFlow: the guard, ... *)
Finish(h) ==
    /\ pc[h] = "finish"
    /\ \/ /\ flow[h] \in pending /\ flow[h] \in token /\ flow[h] \notin finalizing
          /\ finalizing' = finalizing \union {flow[h]}
          /\ Go(h, "insert")
       \/ /\ flow[h] \notin pending \/ flow[h] \notin token
          /\ Respond(h, "failed")                       \* 409
          /\ UNCHANGED finalizing
       \/ /\ flow[h] \in pending /\ flow[h] \in token /\ flow[h] \in finalizing
          /\ Respond(h, "waiting")                      \* 202 finalizing
          /\ UNCHANGED finalizing
    /\ UNCHANGED <<started, pending, polling, token, clockVars, code, flow, reply, dbVars,
                   lost, bounds>>

(* ... CreateSubscription, which inserts the row and reads it back, ...      *)
Insert(h) ==
    /\ pc[h] = "insert"
    /\ \/ /\ rows' = [rows EXCEPT ![flow[h]] = @ + 1]
          /\ Go(h, "created")
          /\ UNCHANGED <<misread, bounds>>
       \/ /\ Fault(flow[h])
          /\ Go(h, "restore")
          /\ UNCHANGED <<rows, misread>>
       \/ /\ Fault(flow[h])
          /\ rows' = [rows EXCEPT ![flow[h]] = @ + 1]
          /\ misread' = [misread EXCEPT ![flow[h]] = @ + 1]
          /\ Go(h, "restore")
    /\ UNCHANGED <<mapVars, clockVars, code, flow, reply, lost>>

(* Mutants of Restore: a failed insert ends the flow, or leaves Finalizing. *)
RestoreByRemoving(h) ==
    /\ pc[h] = "restore"
    /\ pending' = pending \ {flow[h]}
    /\ Respond(h, "failed")
    /\ UNCHANGED <<started, flagVars, clockVars, code, flow, reply, dbVars, lost, bounds>>

RestoreNothing(h) ==
    /\ pc[h] = "restore"
    /\ Respond(h, "failed")
    /\ UNCHANGED <<mapVars, clockVars, code, flow, reply, dbVars, lost, bounds>>

(* ... and the way back after an error: 500, "retry polling" *)
Restore(h) ==
    /\ pc[h] = "restore"
    /\ finalizing' = IF flow[h] \in pending THEN finalizing \ {flow[h]} ELSE finalizing
    /\ Respond(h, "failed")
    /\ UNCHANGED <<started, pending, polling, token, clockVars, code, flow, reply, dbVars,
                   lost, bounds>>

-----------------------------------------------------------------------------
(* the user in his browser, and xAI's own limit on the device code *)
Decide(f) ==
    /\ code[f] = "open"
    /\ \E d \in {"approved", "denied", "timeout"} : code' = [code EXCEPT ![f] = d]
    /\ UNCHANGED <<mapVars, clockVars, pollVars, pageVars, dbVars, lost, bounds>>

Rest(f) ==
    /\ f \in started \ rested
    /\ rested' = rested \union {f}
    /\ UNCHANGED <<mapVars, expired, code, pollVars, pageVars, dbVars, lost, bounds>>

Expire(f) ==
    /\ f \in started \ expired
    /\ expired' = expired \union {f}
    /\ UNCHANGED <<mapVars, rested, code, pollVars, pageVars, dbVars, lost, bounds>>

(* docs/api.md:756: the flows are in memory only.  A page whose request was
   under way gets an error.                                                  *)
Restart ==
    /\ restarts < MaxRestarts
    /\ restarts' = restarts + 1
    /\ died' = started
    /\ pending' = {} /\ polling' = {} /\ finalizing' = {} /\ token' = {}
    /\ pc' = [h \in Handlers |-> "idle"]
    /\ page' = [f \in Flows |-> IF page[f] = "asked" THEN "failed" ELSE page[f]]
    /\ byPage' = {}
    /\ UNCHANGED <<started, clockVars, code, flow, reply, dbVars, lost, broken, faults>>

-----------------------------------------------------------------------------
Init ==
    /\ started = {} /\ pending = {}
    /\ polling = {} /\ finalizing = {} /\ token = {}
    /\ rested = {} /\ expired = {}
    /\ code = [f \in Flows |-> "none"]
    /\ pc = [h \in Handlers |-> "idle"]
    /\ flow = [h \in Handlers |-> NoFlow]
    /\ reply = [h \in Handlers |-> "none"]
    /\ rows = [f \in Flows |-> 0]
    /\ misread = [f \in Flows |-> 0]
    /\ page = [f \in Flows |-> "none"]
    /\ byPage = {}
    /\ lost = {} /\ broken = {} /\ died = {}
    /\ faults = 0 /\ restarts = 0

HandlerStep(h) ==
    \/ Answer(h) \/ Receive(h) \/ SlowDown(h) \/ Remove(h)
    \/ Finish(h) \/ Insert(h) \/ Restore(h)

Next ==
    \/ \E h \in Handlers : HandlerStep(h)
    \/ \E h \in Handlers, f \in Flows : ClientPoll(h, f) \/ PagePoll(h, f)
    \/ \E f \in Flows : Start(f) \/ LeavePage(f) \/ Decide(f) \/ Rest(f) \/ Expire(f)
    \/ Restart

Spec == Init /\ [][Next]_vars

(* Started handlers run to their end, NextPollAt comes, and the page that
   started the flow polls it by its timer as long as it waits, that is while
   it is open and has had no error.  That anybody polls after that is not
   assumed.                                                                  *)
Fairness ==
    /\ \A h \in Handlers : WF_vars(HandlerStep(h))
    /\ \A f \in Flows : WF_vars(Rest(f))
    /\ \A f \in Flows : SF_vars((f \in rested \union token) /\ \E h \in Handlers : PagePoll(h, f))

FairSpec == Spec /\ Fairness

-----------------------------------------------------------------------------
TypeOK ==
    /\ started \subseteq Flows
    /\ pending \subseteq started
    /\ polling \subseteq started /\ finalizing \subseteq started /\ token \subseteq started
    /\ rested \subseteq started /\ expired \subseteq started
    /\ code \in [Flows -> Codes]
    /\ pc \in [Handlers -> {"idle", "asking", "answered", "slow_down", "remove", "finish"}
                           \union InFinish]
    /\ flow \in [Handlers -> Flows \union {NoFlow}]
    /\ reply \in [Handlers -> Replies]
    /\ rows \in [Flows -> Nat]
    /\ misread \in [Flows -> Nat]
    /\ page \in [Flows -> Pages]
    /\ byPage \subseteq Handlers
    /\ lost \subseteq Flows /\ broken \subseteq Flows /\ died \subseteq Flows
    /\ faults \in 0..MaxFaults
    /\ restarts \in 0..MaxRestarts

(* However many polls of a flow run at once, whatever expires or fails in
   between, a login creates one subscription; the only way to a second one is
   a first insert that was reported as failed.                               *)
OneSubscription == \A f \in Flows : rows[f] <= 1 + misread[f]

(* The token endpoint is asked by one poll at a time, and never again once it
   has handed out the token: the device code is good for one answer only.    *)
AskedOnceAtATime ==
    \A f \in Flows :
        /\ \A h, k \in Asking(f) : h = k
        /\ f \in pending \intersect token => Asking(f) = {}

(* A token xAI has handed out is not thrown away, whichever polls race: it is
   in the flow or on its way there until it has become a subscription, unless
   its response was lost, or the flow expired or died with the process.      *)
TokenKept ==
    \A f \in Flows :
        code[f] = "consumed" =>
            \/ rows[f] > 0
            \/ f \in pending \intersect token
            \/ f \in pending /\ \E h \in Asking(f) : reply[h] = "token" /\ pc[h] = "answered"
            \/ f \in lost \union expired \union died

Cause(f) ==
    \/ rows[f] > 0
    \/ f \in broken \union expired \union died
    \/ code[f] \in {"denied", "timeout"}

(* The page does not give up a login without a cause: however its polls race
   with those of others, it sees an error only if a call for this flow failed,
   the user or xAI turned the login down, it expired, died with the process, or
   has become a subscription by another poll.                                *)
PageFailsForCause == \A f \in Flows : page[f] = "failed" => Cause(f)

(* A login the user has approved becomes a subscription, unless its page stops
   polling (for one of the causes above or because the user leaves it) or the
   flow ends before.                                                         *)
ApprovedLoginCompletes ==
    \A f \in Flows :
        code[f] = "approved" /\ f \in pending /\ page[f] \in {"waiting", "asked"}
            ~> rows[f] > 0 \/ f \notin pending \/ page[f] \in {"failed", "gone"}

=============================================================================
