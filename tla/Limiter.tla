------------------------------ MODULE Limiter ------------------------------
(***************************************************************************)
(* The per-subscription concurrency limiter of the gateway                 *)
(* (src/internal/server/server.go: acquire, limiterChannel,                *)
(* resetSubscriptionLimiter) under its callers: the proxy handler, which   *)
(* reads concurrency_limit once when it resolves the API key and asks for  *)
(* a slot much later, and the admin handlers, which write the row first    *)
(* and drop the limiter entry afterwards.                                  *)
(*                                                                         *)
(* A limiter is a buffered Go channel: a send takes a slot, a receive      *)
(* gives it back.  The release function returned by acquire closes over    *)
(* the channel the slot was taken from, not over the sync.Map entry, so a  *)
(* channel outlives its entry for as long as somebody holds or awaits one  *)
(* of its slots.                                                           *)
(***************************************************************************)
EXTENDS Naturals, FiniteSets

CONSTANTS
    Accounts,   \* subscription ids
    Requests,   \* proxied requests, each handled once by its own goroutine
    Admins,     \* admin handler goroutines
    Channels,   \* heap identities for channels
    Limits,     \* the concurrency_limit values an admin may write
    MaxWrites   \* bound: how many admin writes a behaviour contains

ASSUME LimitsAssumption == Limits \subseteq Nat \ {0}
ASSUME RequestsAssumption == IsFiniteSet(Requests)
ASSUME MaxWritesAssumption == MaxWrites \in Nat

NoRow == 0
NoChannel == "nil"
NoAccount == "none"

ASSUME NilAssumption == NoChannel \notin Channels /\ NoAccount \notin Accounts

VARIABLES
    row,        \* concurrency_limit of each subscriptions row, NoRow once deleted
    limiters,   \* Server.limiters: the channel installed for each account
    capacity,   \* make(chan struct{}, limit): 0 while the identity is unused
    used,       \* how many slots of a channel are taken
    pc,         \* where a request's goroutine is
    acct,       \* the account the request's key resolved to
    snap,       \* account.ConcurrencyLimit as it was when the key was resolved
    chan,       \* the channel limiterChannel returned, or the entry it will CAS
    adminPc,    \* where an admin handler is
    target,     \* the account an admin handler works on
    writes,     \* number of admin writes so far (bounded by MaxWrites)
    resets,     \* history: how often the entry of an account was dropped
    seen        \* history: every limit the row of an account has had

reqVars == <<pc, acct, snap, chan>>
adminVars == <<adminPc, target>>
vars == <<row, limiters, capacity, used, reqVars, adminVars, writes, resets, seen>>

-----------------------------------------------------------------------------
Holders(c) == {r \in Requests : pc[r] = "holding" /\ chan[r] = c}
InFlight(a) == {r \in Requests : pc[r] = "holding" /\ acct[r] = a}

Unused == {c \in Channels : capacity[c] = 0}

Ended == {"done", "rejected", "canceled"}

(* Mutant of Install: a channel with one slot too many. *)
InstallOneMore(r, a) ==
    /\ Unused # {}
    /\ LET c == CHOOSE u \in Unused : TRUE
       IN  /\ capacity' = [capacity EXCEPT ![c] = snap[r] + 1]
           /\ limiters' = [limiters EXCEPT ![a] = c]
           /\ chan' = [chan EXCEPT ![r] = c]
    /\ pc' = [pc EXCEPT ![r] = "acquire"]

(* install a new channel of the given capacity as the entry of account a *)
Install(r, a) ==
    /\ Unused # {}
    /\ LET c == CHOOSE u \in Unused : TRUE
       IN  /\ capacity' = [capacity EXCEPT ![c] = snap[r]]
           /\ limiters' = [limiters EXCEPT ![a] = c]
           /\ chan' = [chan EXCEPT ![r] = c]
    /\ pc' = [pc EXCEPT ![r] = "acquire"]

TakeSlot(r) ==
    /\ used[chan[r]] < capacity[chan[r]]
    /\ used' = [used EXCEPT ![chan[r]] = @ + 1]
    /\ pc' = [pc EXCEPT ![r] = "holding"]

-----------------------------------------------------------------------------
(* Requests *)

(* ResolveAPIKey joins the key with its subscription; the snapshot taken here
   is the one acquire uses after the credential refresh and body checks.     *)
ResolveAPIKey(r, a) ==
    /\ pc[r] = "start"
    /\ row[a] # NoRow
    /\ acct' = [acct EXCEPT ![r] = a]
    /\ snap' = [snap EXCEPT ![r] = row[a]]
    /\ pc' = [pc EXCEPT ![r] = "resolved"]
    /\ UNCHANGED <<row, limiters, capacity, used, chan, adminVars, writes, resets, seen>>

(* Mutant of LoadOrStore: Load and Store, which overwrites a limiter that a
   racing request has just installed.                                        *)
LoadThenStore(r) ==
    /\ pc[r] = "resolved"
    /\ Install(r, acct[r])
    /\ UNCHANGED <<row, used, acct, snap, adminVars, writes, resets, seen>>

(* limiterChannel, first half of the loop: LoadOrStore.  It stores a fresh
   channel if there is no entry, and otherwise uses the entry if its limit is
   the wanted one, or goes on to replace it.                                 *)
LoadOrStore(r) ==
    /\ pc[r] = "resolved"
    /\ LET a == acct[r]
       IN  \/ /\ limiters[a] = NoChannel
              /\ Install(r, a)
           \/ /\ limiters[a] # NoChannel
              /\ chan' = [chan EXCEPT ![r] = limiters[a]]
              /\ pc' = [pc EXCEPT ![r] = IF capacity[limiters[a]] = snap[r]
                                         THEN "acquire" ELSE "replace"]
              /\ UNCHANGED <<limiters, capacity>>
    /\ UNCHANGED <<row, used, acct, snap, adminVars, writes, resets, seen>>

(* limiterChannel, second half: CompareAndSwap, retried from LoadOrStore when
   the entry has changed since it was loaded.                                *)
CompareAndSwap(r) ==
    /\ pc[r] = "replace"
    /\ LET a == acct[r]
       IN  \/ /\ limiters[a] = chan[r]
              /\ Install(r, a)
           \/ /\ limiters[a] # chan[r]
              /\ pc' = [pc EXCEPT ![r] = "resolved"]
              /\ UNCHANGED <<limiters, capacity, chan>>
    /\ UNCHANGED <<row, used, acct, snap, adminVars, writes, resets, seen>>

(* acquire's first select, a send that does not block.  New and queueTimeout
   make the wait positive, so a full channel is always waited for.           *)
TryAcquire(r) ==
    /\ pc[r] = "acquire"
    /\ \/ TakeSlot(r)
       \/ /\ used[chan[r]] = capacity[chan[r]]
          /\ pc' = [pc EXCEPT ![r] = "waiting"]
          /\ UNCHANGED used
    /\ UNCHANGED <<row, limiters, capacity, acct, snap, chan, adminVars, writes, resets, seen>>

(* acquire's second select: the blocked send, the timer, or the context *)
Admit(r) ==
    /\ pc[r] = "waiting"
    /\ TakeSlot(r)
    /\ UNCHANGED <<row, limiters, capacity, acct, snap, chan, adminVars, writes, resets, seen>>

LeaveQueue(r) ==
    /\ pc[r] = "waiting"
    /\ \E outcome \in {"rejected", "canceled"} : pc' = [pc EXCEPT ![r] = outcome]
    /\ UNCHANGED <<row, limiters, capacity, used, acct, snap, chan, adminVars, writes, resets, seen>>

(* Mutants of Release: the slot is returned to the channel that is installed
   now, or not at all.                                                       *)
ReleaseInstalled(r) ==
    /\ pc[r] = "holding"
    /\ LET c == limiters[acct[r]]
       IN  IF c # NoChannel /\ used[c] > 0
           THEN used' = [used EXCEPT ![c] = @ - 1] ELSE UNCHANGED used
    /\ pc' = [pc EXCEPT ![r] = "done"]
    /\ UNCHANGED <<row, limiters, capacity, acct, snap, chan, adminVars, writes, resets, seen>>

ReleaseForgotten(r) ==
    /\ pc[r] = "holding"
    /\ pc' = [pc EXCEPT ![r] = "done"]
    /\ UNCHANGED <<row, limiters, capacity, used, acct, snap, chan, adminVars, writes, resets, seen>>

(* the deferred release: a receive from the channel the slot came from, which
   would block on an empty channel                                           *)
Release(r) ==
    /\ pc[r] = "holding"
    /\ used[chan[r]] > 0
    /\ used' = [used EXCEPT ![chan[r]] = @ - 1]
    /\ pc' = [pc EXCEPT ![r] = "done"]
    /\ UNCHANGED <<row, limiters, capacity, acct, snap, chan, adminVars, writes, resets, seen>>

-----------------------------------------------------------------------------
(* Admin handlers *)

(* updateSubscription commits the row before it touches the runtime state *)
UpdateRow(m, a, l) ==
    /\ adminPc[m] = "idle"
    /\ writes < MaxWrites
    /\ row[a] # NoRow
    /\ row' = [row EXCEPT ![a] = l]
    /\ seen' = [seen EXCEPT ![a] = @ \union {l}]
    /\ writes' = writes + 1
    /\ target' = [target EXCEPT ![m] = a]
    /\ adminPc' = [adminPc EXCEPT ![m] = "updated"]
    /\ UNCHANGED <<limiters, capacity, used, reqVars, resets>>

(* the credentials of the same PUT are rejected after the row was committed:
   the handler answers 400 and leaves the limiter alone                      *)
RejectCredentials(m) ==
    /\ adminPc[m] = "updated"
    /\ adminPc' = [adminPc EXCEPT ![m] = "idle"]
    /\ UNCHANGED <<row, limiters, capacity, used, reqVars, target, writes, resets, seen>>

DeleteRow(m, a) ==
    /\ adminPc[m] = "idle"
    /\ writes < MaxWrites
    /\ row[a] # NoRow
    /\ row' = [row EXCEPT ![a] = NoRow]
    /\ writes' = writes + 1
    /\ target' = [target EXCEPT ![m] = a]
    /\ adminPc' = [adminPc EXCEPT ![m] = "deleted"]
    /\ UNCHANGED <<limiters, capacity, used, reqVars, resets, seen>>

(* resetSubscriptionLimiter, the last step of an update and part of
   forgetSubscriptionRuntime after a delete                                  *)
ResetLimiter(m) ==
    /\ adminPc[m] \in {"updated", "deleted"}
    /\ limiters' = [limiters EXCEPT ![target[m]] = NoChannel]
    /\ resets' = [resets EXCEPT ![target[m]] = @ + 1]
    /\ adminPc' = [adminPc EXCEPT ![m] = "idle"]
    /\ UNCHANGED <<row, capacity, used, reqVars, target, writes, seen>>

-----------------------------------------------------------------------------
Init ==
    /\ row \in [Accounts -> Limits]
    /\ limiters = [a \in Accounts |-> NoChannel]
    /\ capacity = [c \in Channels |-> 0]
    /\ used = [c \in Channels |-> 0]
    /\ pc = [r \in Requests |-> "start"]
    /\ acct = [r \in Requests |-> NoAccount]
    /\ snap = [r \in Requests |-> 0]
    /\ chan = [r \in Requests |-> NoChannel]
    /\ adminPc = [m \in Admins |-> "idle"]
    /\ target = [m \in Admins |-> NoAccount]
    /\ writes = 0
    /\ resets = [a \in Accounts |-> 0]
    /\ seen = [a \in Accounts |-> {row[a]}]

RequestStep(r) ==
    \/ LoadOrStore(r) \/ CompareAndSwap(r) \/ TryAcquire(r)
    \/ Release(r)

Next ==
    \/ \E r \in Requests : RequestStep(r) \/ Admit(r) \/ LeaveQueue(r)
    \/ \E r \in Requests, a \in Accounts : ResolveAPIKey(r, a)
    \/ \E m \in Admins, a \in Accounts, l \in Limits : UpdateRow(m, a, l)
    \/ \E m \in Admins, a \in Accounts : DeleteRow(m, a)
    \/ \E m \in Admins : RejectCredentials(m) \/ ResetLimiter(m)

Spec == Init /\ [][Next]_vars

(* A goroutine that can run does run, and a request is eventually served by
   its upstream (Release).  The Go runtime hands a freed slot to a blocked
   sender in arrival order, which is stronger than the strong fairness of
   Admit.  Nothing is assumed of timers, cancellations or admins.            *)
Fairness ==
    /\ \A r \in Requests : WF_vars(RequestStep(r))
    /\ \A r \in Requests : SF_vars(Admit(r))

FairSpec == Spec /\ Fairness

-----------------------------------------------------------------------------
TypeOK ==
    /\ row \in [Accounts -> Limits \union {NoRow}]
    /\ limiters \in [Accounts -> Channels \union {NoChannel}]
    /\ capacity \in [Channels -> Limits \union {0}]
    /\ used \in [Channels -> Nat]
    /\ pc \in [Requests -> {"start", "resolved", "replace", "acquire", "waiting", "holding"}
                           \union Ended]
    /\ acct \in [Requests -> Accounts \union {NoAccount}]
    /\ snap \in [Requests -> Limits \union {0}]
    /\ chan \in [Requests -> Channels \union {NoChannel}]
    /\ adminPc \in [Admins -> {"idle", "updated", "deleted"}]
    /\ target \in [Admins -> Accounts \union {NoAccount}]
    /\ writes \in 0..MaxWrites
    /\ resets \in [Accounts -> Nat]
    /\ seen \in [Accounts -> SUBSET Limits]

(* Across every replacement of an entry, the slots taken from a channel are
   exactly the requests in flight on it, and never more than its capacity: no
   slot is lost or returned to another channel, so no release can block.     *)
SlotsMatchHolders ==
    \A c \in Channels :
        /\ used[c] = Cardinality(Holders(c))
        /\ used[c] <= capacity[c]

(* As long as the settings of a subscription are left alone, racing requests
   that create its limiter never exceed its limit, whatever happens to the
   other subscriptions.                                                      *)
QuietAccountBound ==
    \A a \in Accounts, l \in Limits :
        seen[a] = {l} /\ resets[a] = 0 => Cardinality(InFlight(a)) <= l

(* What a settings update that keeps the limit costs: each dropped entry
   admits at most one further full batch beside the requests in flight.      *)
RebuildBound ==
    \A a \in Accounts, l \in Limits :
        seen[a] = {l} => Cardinality(InFlight(a)) <= (1 + resets[a]) * l

(* The channels, replaced and dropped under their holders, are a semaphore to
   those who use them: a request takes a slot only while there is room for it
   and gives back the one it holds.                                          *)
Slots == INSTANCE Semaphore WITH
            holding <- [a \in Accounts |-> InFlight(a)],
            taken <- [a \in Accounts |-> Cardinality(InFlight(a))],
            settings <- seen, rebuilt <- resets

ActsAsSemaphore == Slots!Spec

(* A request that asked for a slot is eventually answered or given up, also
   when the channel it waits on is no longer the installed one and when other
   requests keep replacing the entry it compares with.                       *)
EveryRequestEnds ==
    \A r \in Requests : pc[r] = "resolved" ~> pc[r] \in Ended

=============================================================================
