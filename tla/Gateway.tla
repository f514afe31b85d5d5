------------------------------ MODULE Gateway ------------------------------
(***************************************************************************)
(* A proxied request from its API key to its log entry                     *)
(* (src/internal/server/proxy.go, proxyHandler), with the parts it goes    *)
(* through put together: the concurrency slots of its account, the renewal *)
(* of the account's access token, the upstream call and its one retry, the *)
(* client that may go away at any point, and the process that is told to   *)
(* stop (src/cmd/server/main.go).                                          *)
(*                                                                         *)
(* The slots are the semaphore that Limiter is shown to implement.  The    *)
(* renewal is TokenRefresh without deletions and without the writers that  *)
(* bypass its mutex: of the mutex, of the second look under it and of the  *)
(* rotation of refresh tokens everything is kept.  How a rate limit comes  *)
(* to refuse a request is the matter of Admission.  The database answers   *)
(* every query until it is closed, unless the context of the query is done.*)
(***************************************************************************)
EXTENDS Naturals, Sequences, FiniteSets

CONSTANTS
    Accounts,   \* subscriptions, all of them with OAuth credentials
    Requests,   \* proxied requests, each handled by a goroutine of its own
    Limits,     \* concurrency limits an account may have, as acquire rounds them up
    MaxGrants,  \* bound: tokens the provider issues for an account
    MaxTouches  \* bound: settings updates of an account

ASSUME GrantsAssumption == MaxGrants \in Nat \ {0} /\ MaxTouches \in Nat
ASSUME LimitsAssumption == Limits \subseteq Nat \ {0}

VARIABLES
    holding, taken, settings, rebuilt,  \* the semaphore of each account
    stored,     \* the row: number of the grant its credentials are from
    current,    \* provider: the grant whose refresh token it accepts
    due,        \* clock: tokens up to this one are about to expire
    owner,      \* who holds the refresh mutex
    pc,         \* where a request's goroutine is
    acct,       \* the account its key belongs to
    cred,       \* the token it goes upstream with
    sent,       \* history: the tokens it has gone upstream with
    reply,      \* what has been written to the client
    gone,       \* the client has closed its connection
    logged,     \* the status in its log entry
    unstored,   \* history: a client left between the grant of a token and its store
    process,    \* where main is
    expired     \* history: the shutdown ran into its timeout

slotVars == <<holding, taken, settings, rebuilt>>
tokenVars == <<stored, current, due, owner>>
reqVars == <<pc, acct, cred, sent, reply, gone, logged>>
mainVars == <<process, expired, unstored>>
vars == <<slotVars, tokenVars, reqVars, mainVars>>

Nobody == "nobody"
NoAccount == "none"

ASSUME NobodyAssumption == Nobody \notin Requests /\ NoAccount \notin Accounts

Slots == INSTANCE Semaphore

(* the statuses told apart: success, a client that left, and any failure *)
Success == 200
ClientCanceled == 499
Failure == 500
NoStatus == 0
Statuses == {NoStatus, Success, ClientCanceled, Failure}

Locked == {"locked", "refreshing", "granted"}
Retrying(r) == sent[r] # <<>>

DatabaseOpen == process \in {"up", "draining"}
Running == process # "exited"

(* a query under the context of the request *)
QueryFails(r) == gone[r] \/ ~DatabaseOpen

Goto(r, place) == pc' = [pc EXCEPT ![r] = place]

(* apiError and return: the deferred calls follow *)
Fail(r) ==
    /\ reply' = [reply EXCEPT ![r] = Failure]
    /\ Goto(r, "return")

-----------------------------------------------------------------------------
(* From the key to the slot *)

Accept(r) ==
    /\ process = "up"
    /\ pc[r] = "new"
    /\ Goto(r, "key")
    /\ UNCHANGED <<slotVars, tokenVars, acct, cred, sent, reply, gone, logged, mainVars>>

(* ResolveAPIKey, the provider checks, and the credentials of the row *)
ResolveAPIKey(r) ==
    /\ Running
    /\ pc[r] = "key"
    /\ \/ /\ ~QueryFails(r)
          /\ \E a \in Accounts :
                /\ acct' = [acct EXCEPT ![r] = a]
                /\ cred' = [cred EXCEPT ![r] = stored[a]]
                /\ Goto(r, IF stored[a] <= due[a] THEN "lock" ELSE "rate")
          /\ UNCHANGED reply
       \/ /\ Fail(r)
          /\ UNCHANGED <<acct, cred>>
    /\ UNCHANGED <<slotVars, tokenVars, sent, gone, logged, mainVars>>

(* allowRate, the body and what is asked of it, and the upstream URL *)
CheckRequest(r) ==
    /\ Running
    /\ pc[r] = "rate"
    /\ \/ Goto(r, "queue") /\ UNCHANGED reply
       \/ Fail(r)
    /\ UNCHANGED <<slotVars, tokenVars, acct, cred, sent, gone, logged, mainVars>>

Acquire(r) ==
    /\ Running
    /\ pc[r] = "queue"
    /\ Slots!Enter(acct[r], r)
    /\ Goto(r, "client")
    /\ UNCHANGED <<tokenVars, acct, cred, sent, reply, gone, logged, mainVars>>

(* acquire gives up: the timer is answered 429, the context not at all *)
LeaveQueue(r) ==
    /\ Running
    /\ pc[r] = "queue"
    /\ \/ Fail(r)
       \/ gone[r] /\ Goto(r, "return") /\ UNCHANGED reply
    /\ UNCHANGED <<slotVars, tokenVars, acct, cred, sent, gone, logged, mainVars>>

-----------------------------------------------------------------------------
(* credentialsForRequest: before the slot if the token is due, and with the
   slot in hand after a 401                                                  *)

Lock(r) ==
    /\ Running
    /\ pc[r] = "lock"
    /\ owner[acct[r]] = Nobody
    /\ owner' = [owner EXCEPT ![acct[r]] = r]
    /\ Goto(r, "locked")
    /\ UNCHANGED <<slotVars, stored, current, due, acct, cred, sent, reply, gone,
                   logged, mainVars>>

Unlock(r) == owner' = [owner EXCEPT ![acct[r]] = Nobody]

AfterCredentials(r) == IF Retrying(r) THEN "call" ELSE "rate"

(* Mutant of Fresh: a forced refresh, too, goes by the expiry of the row. *)
FreshByExpiry(r) == stored[acct[r]] > due[acct[r]]

Fresh(r) ==
    LET a == acct[r]
    IN  IF Retrying(r) THEN stored[a] # cred[r] ELSE stored[a] > due[a]

Reread(r) ==
    /\ Running
    /\ pc[r] = "locked"
    /\ LET a == acct[r]
       IN  \/ /\ QueryFails(r)
              /\ Unlock(r)
              /\ Fail(r)
              /\ UNCHANGED cred
           \/ /\ ~QueryFails(r) /\ Fresh(r)
              /\ cred' = [cred EXCEPT ![r] = stored[a]]
              /\ Unlock(r)
              /\ Goto(r, AfterCredentials(r))
              /\ UNCHANGED reply
           \/ /\ ~QueryFails(r) /\ ~Fresh(r)
              /\ cred' = [cred EXCEPT ![r] = stored[a]]
              /\ Goto(r, "refreshing")
              /\ UNCHANGED <<owner, reply>>
    /\ UNCHANGED <<slotVars, stored, current, due, acct, sent, gone, logged, mainVars>>

(* The provider takes the refresh token and issues a new pair, or refuses;
   the call also fails if the client has gone or the provider is away.       *)
Refresh(r) ==
    /\ Running
    /\ pc[r] = "refreshing"
    /\ LET a == acct[r]
       IN  \/ /\ cred[r] = current[a] /\ current[a] < MaxGrants
              /\ current' = [current EXCEPT ![a] = @ + 1]
              /\ cred' = [cred EXCEPT ![r] = current[a] + 1]
              /\ Goto(r, "granted")
              /\ UNCHANGED <<owner, reply>>
           \/ /\ Unlock(r)
              /\ Fail(r)
              /\ UNCHANGED <<current, cred>>
    /\ UNCHANGED <<slotVars, stored, due, acct, sent, gone, logged, mainVars>>

(* UpdateSubscriptionCredentials *)
Store(r) ==
    /\ Running
    /\ pc[r] = "granted"
    /\ Unlock(r)
    /\ \/ /\ ~QueryFails(r)
          /\ stored' = [stored EXCEPT ![acct[r]] = cred[r]]
          /\ Goto(r, AfterCredentials(r))
          /\ UNCHANGED reply
       \/ /\ QueryFails(r)
          /\ Fail(r)
          /\ UNCHANGED stored
    /\ unstored' = (unstored \/ (gone[r] /\ DatabaseOpen))
    /\ UNCHANGED <<slotVars, current, due, acct, cred, sent, gone, logged, process, expired>>

-----------------------------------------------------------------------------
(* Upstream *)

ClientForSubscription(r) ==
    /\ Running
    /\ pc[r] = "client"
    /\ \/ Goto(r, "call") /\ UNCHANGED reply
       \/ Fail(r)
    /\ UNCHANGED <<slotVars, tokenVars, acct, cred, sent, gone, logged, mainVars>>

Call(r) ==
    /\ Running
    /\ pc[r] = "call"
    /\ sent' = [sent EXCEPT ![r] = Append(@, cred[r])]
    /\ Goto(r, "called")
    /\ UNCHANGED <<slotVars, tokenVars, acct, cred, reply, gone, logged, mainVars>>

(* Mutant of Respond: the slot is returned when the headers are there. *)
RespondAndRelease(r) ==
    /\ Running
    /\ pc[r] = "called"
    /\ \/ Fail(r) /\ UNCHANGED slotVars
       \/ \E status \in {Success, Failure} :
             /\ reply' = [reply EXCEPT ![r] = status]
             /\ Slots!Leave(acct[r], r)
             /\ Goto(r, "relay")
    /\ UNCHANGED <<tokenVars, acct, cred, sent, gone, logged, mainVars>>

(* What came of the call.  The first 401 is not relayed: its body is closed
   and the token renewed.                                                    *)
Respond(r) ==
    /\ Running
    /\ pc[r] = "called"
    /\ \/ /\ Fail(r)
       \/ /\ Len(sent[r]) = 1
          /\ Goto(r, "lock")
          /\ UNCHANGED reply
       \/ \E status \in {Success, Failure} :
             /\ reply' = [reply EXCEPT ![r] = status]
             /\ Goto(r, "relay")
    /\ UNCHANGED <<slotVars, tokenVars, acct, cred, sent, gone, logged, mainVars>>

(* The body is copied until it ends, breaks off or cannot be written. *)
Relay(r) ==
    /\ Running
    /\ pc[r] = "relay"
    /\ Goto(r, "return")
    /\ UNCHANGED <<slotVars, tokenVars, acct, cred, sent, reply, gone, logged, mainVars>>

-----------------------------------------------------------------------------
(* The deferred calls: the body is closed and the slot returned, if there is
   one, and the entry is written last.                                       *)

(* Mutant of Release: a request that failed upstream keeps its slot. *)
ReleaseUnlessFailed(r) ==
    /\ Running
    /\ pc[r] = "return"
    /\ IF reply[r] # Failure /\ (\E a \in Accounts : r \in holding[a])
       THEN Slots!Leave(acct[r], r)
       ELSE UNCHANGED slotVars
    /\ Goto(r, "log")
    /\ UNCHANGED <<tokenVars, acct, cred, sent, reply, gone, logged, mainVars>>

Release(r) ==
    /\ Running
    /\ pc[r] = "return"
    /\ IF \E a \in Accounts : r \in holding[a]
       THEN Slots!Leave(acct[r], r)
       ELSE UNCHANGED slotVars
    /\ Goto(r, "log")
    /\ UNCHANGED <<tokenVars, acct, cred, sent, reply, gone, logged, mainVars>>

(* Mutant of Status: without the rule for a client that left. *)
StatusWritten(r) == IF reply[r] = NoStatus THEN Success ELSE reply[r]

(* c.Writer.Status() is 200 as long as nothing has been written *)
Status(r) ==
    LET written == IF reply[r] = NoStatus THEN Success ELSE reply[r]
    IN  IF gone[r] /\ written < 400 THEN ClientCanceled ELSE written

RecordRequest(r) ==
    /\ Running
    /\ pc[r] = "log"
    /\ logged' = IF DatabaseOpen THEN [logged EXCEPT ![r] = Status(r)] ELSE logged
    /\ Goto(r, "ended")
    /\ acct' = [acct EXCEPT ![r] = NoAccount]
    /\ cred' = [cred EXCEPT ![r] = 0]
    /\ sent' = [sent EXCEPT ![r] = <<>>]
    /\ reply' = [reply EXCEPT ![r] = NoStatus]
    /\ gone' = [gone EXCEPT ![r] = FALSE]
    /\ UNCHANGED <<slotVars, tokenVars, mainVars>>

-----------------------------------------------------------------------------
(* Everybody else *)

Disconnect(r) ==
    /\ Running
    /\ pc[r] \notin {"new", "ended"}
    /\ ~gone[r]
    /\ gone' = [gone EXCEPT ![r] = TRUE]
    /\ UNCHANGED <<slotVars, tokenVars, pc, acct, cred, sent, reply, logged, mainVars>>

TimePasses(a) ==
    /\ due[a] < current[a]
    /\ due' = [due EXCEPT ![a] = current[a]]
    /\ UNCHANGED <<slotVars, stored, current, owner, reqVars, mainVars>>

(* an admin saves the settings: whatever the limiter makes of it *)
UpdateSettings(a) ==
    /\ Running
    /\ rebuilt[a] < MaxTouches
    /\ Slots!Touch(a)
    /\ UNCHANGED <<tokenVars, reqVars, mainVars>>

(* main: a signal, then http.Server.Shutdown, which waits for the handlers
   or for its timeout, and with it the deferred repo.Close; then the process
   ends, whoever is still running                                            *)
Signal ==
    /\ process = "up"
    /\ process' = "draining"
    /\ UNCHANGED <<slotVars, tokenVars, reqVars, expired, unstored>>

(* Mutant of Drained: Close in the place of Shutdown. *)
CloseAtOnce ==
    /\ process = "draining"
    /\ process' = "closed"
    /\ UNCHANGED <<slotVars, tokenVars, reqVars, expired, unstored>>

Drained ==
    /\ process = "draining"
    /\ \A r \in Requests : pc[r] \in {"new", "ended"}
    /\ process' = "closed"
    /\ UNCHANGED <<slotVars, tokenVars, reqVars, expired, unstored>>

ShutdownTimeout ==
    /\ process = "draining"
    /\ process' = "closed"
    /\ expired' = TRUE
    /\ UNCHANGED <<slotVars, tokenVars, reqVars, unstored>>

Exit ==
    /\ process = "closed"
    /\ process' = "exited"
    /\ UNCHANGED <<slotVars, tokenVars, reqVars, expired, unstored>>

-----------------------------------------------------------------------------
Init ==
    /\ Slots!Init
    /\ stored = [a \in Accounts |-> 1]
    /\ current = [a \in Accounts |-> 1]
    /\ due = [a \in Accounts |-> 0]
    /\ owner = [a \in Accounts |-> Nobody]
    /\ pc = [r \in Requests |-> "new"]
    /\ acct = [r \in Requests |-> NoAccount]
    /\ cred = [r \in Requests |-> 0]
    /\ sent = [r \in Requests |-> <<>>]
    /\ reply = [r \in Requests |-> NoStatus]
    /\ gone = [r \in Requests |-> FALSE]
    /\ logged = [r \in Requests |-> NoStatus]
    /\ process = "up"
    /\ expired = FALSE
    /\ unstored = FALSE

(* steps of the handler that nothing can block *)
HandlerStep(r) ==
    \/ ResolveAPIKey(r) \/ CheckRequest(r) \/ Reread(r) \/ Store(r)
    \/ ClientForSubscription(r) \/ Call(r) \/ Release(r) \/ RecordRequest(r)

(* steps that wait for the provider *)
ProviderStep(r) == Refresh(r) \/ Respond(r) \/ Relay(r)

MainStep == Signal \/ Drained \/ ShutdownTimeout \/ Exit

Next ==
    \/ \E r \in Requests :
          \/ Accept(r) \/ HandlerStep(r) \/ ProviderStep(r) \/ Lock(r) \/ Acquire(r)
          \/ LeaveQueue(r) \/ Disconnect(r)
    \/ \E a \in Accounts : TimePasses(a) \/ UpdateSettings(a)
    \/ MainStep

Spec == Init /\ [][Next]_vars

(* Goroutines run and the provider answers; the mutex and the channel go to
   each of those who keep waiting.  Nobody is assumed to give up: neither
   the queue timer nor the client.                                           *)
Fairness ==
    \A r \in Requests :
        /\ WF_vars(HandlerStep(r)) /\ WF_vars(ProviderStep(r))
        /\ SF_vars(Lock(r)) /\ SF_vars(Acquire(r))

FairSpec == Spec /\ Fairness

-----------------------------------------------------------------------------
TypeOK ==
    /\ holding \in [Accounts -> SUBSET Requests]
    /\ taken \in [Accounts -> Nat]
    /\ settings \in [Accounts -> SUBSET Limits]
    /\ rebuilt \in [Accounts -> 0..MaxTouches]
    /\ stored \in [Accounts -> 1..MaxGrants] /\ current \in [Accounts -> 1..MaxGrants]
    /\ due \in [Accounts -> 0..MaxGrants]
    /\ owner \in [Accounts -> Requests \union {Nobody}]
    /\ pc \in [Requests -> {"new", "key", "rate", "queue", "client", "lock", "call", "called",
                            "relay", "return", "log", "ended"} \union Locked]
    /\ acct \in [Requests -> Accounts \union {NoAccount}]
    /\ cred \in [Requests -> 0..MaxGrants]
    /\ sent \in [Requests -> Seq(1..MaxGrants)]
    /\ reply \in [Requests -> Statuses]
    /\ gone \in [Requests -> BOOLEAN]
    /\ logged \in [Requests -> Statuses]
    /\ process \in {"up", "draining", "closed", "exited"}
    /\ expired \in BOOLEAN /\ unstored \in BOOLEAN

Upstream(a) == {r \in Requests : acct[r] = a /\ pc[r] \in {"called", "relay"}}

(* The limit of an account counts what its provider sees: from the request
   line to the last byte of a stream, through a retry, there are never more
   calls open than the account has slots.                                    *)
UpstreamBound ==
    \A a \in Accounts, l \in Limits :
        settings[a] = {l} /\ rebuilt[a] = 0 => Cardinality(Upstream(a)) <= l

(* The entry of a request says what its client got: success only for an
   upstream response relayed to a client that was there to the end, 499 only
   for a client that left, and every other failure as it was answered.       *)
LoggedAsAnswered ==
    [][\A r \in Requests :
          logged'[r] # logged[r] =>
              /\ logged'[r] = Success => reply[r] = Success /\ ~gone[r]
              /\ logged'[r] = ClientCanceled => gone[r]
              /\ logged'[r] = Failure => reply[r] = Failure]_vars

(* A request goes upstream at most twice, and the second time with a token
   other than the one that was refused.                                      *)
RetriedWithAnother ==
    \A r \in Requests :
        /\ Len(sent[r]) <= 2
        /\ Len(sent[r]) = 2 => sent[r][1] # sent[r][2]

(* A shutdown that did not run into its timeout loses nothing: every request
   that was accepted has its entry, and every token that was bought is in the
   row, unless the client it was bought for had left.                        *)
CleanStopLosesNothing ==
    process = "exited" /\ ~expired =>
        /\ \A r \in Requests : pc[r] # "new" => logged[r] # NoStatus
        /\ \A a \in Accounts : stored[a] = current[a] \/ unstored

(* No request hangs: neither the one that waits for the refresh mutex with a
   slot in hand, nor those that wait for its slot, even if no client gives up
   and no timer fires.                                                       *)
EveryRequestEnds ==
    \A r \in Requests : pc[r] = "key" ~> pc[r] = "ended" \/ process = "exited"

=============================================================================
