----------------------------- MODULE Admission -----------------------------
(***************************************************************************)
(* Who is let through: API keys and the subscriptions they belong to       *)
(* (src/internal/server/apikeys.go, admin.go; CreateAPIKey .. DeleteAPIKey *)
(* of src/internal/repository/repository.go), the resolution of a key at   *)
(* the start of a proxied request, and the fixed-window counters of        *)
(* Server.allowRate.  Logins, OAuth starts and usage refreshes count with  *)
(* the same function, by names of their own and limits that never change.  *)
(*                                                                         *)
(* A tick of the clock is half a second: instants of a whole second are    *)
(* told from those with a fraction, which RFC3339Nano writes differently.  *)
(***************************************************************************)
EXTENDS Naturals, FiniteSets, Functions

CONSTANTS
    Subs,         \* subscriptions
    Keys,         \* ids of API keys; none is ever given out again
    Requests,     \* proxied requests
    Limits,       \* values of rpm_limit
    Expiries,     \* values of expires_at
    Window,       \* the window of allowRate, in ticks
    MaxClock,     \* bound: ticks
    MaxEdits,     \* bound: changes by admins, creations apart
    MaxRestarts   \* bound: restarts

ASSUME LimitsAssumption == Limits \subseteq Nat \ {0}
ASSUME ExpiriesAssumption == Expiries \subseteq 0..MaxClock
ASSUME WindowAssumption == Window \in Nat \ {0}
ASSUME BoundsAssumption == MaxClock \in Nat /\ MaxEdits \in Nat /\ MaxRestarts \in Nat
ASSUME RequestsAssumption == IsFiniteSet(Requests)

VARIABLES
    clock,     \* time.Now()
    subs,      \* the rows of subscriptions: whether they are enabled
    keys,      \* the rows of api_keys
    creating,  \* CreateAPIKey: the keys it is between its two statements for
    used,      \* the ids it has given out
    rates,     \* Server.rates, by the key they count for
    pc,        \* where a request is
    key,       \* the key it came with
    limit,     \* the limit of the key when it was resolved
    now,       \* allowRate: the clock it has read
    passed,    \* history: when, and in which window, allowRate let requests through
    boots,     \* history: restarts
    edits      \* history: changes by admins, creations apart

rowVars == <<subs, keys, creating, used, edits>>
requestVars == <<pc, key, limit, now, passed>>
vars == <<clock, rowVars, rates, requestVars, boots>>

Unlimited == 0           \* rpm_limit IS NULL
Never == MaxClock + 2    \* expires_at IS NULL
NoKey == "none"

ASSUME NoKeyAssumption == NoKey \notin Keys

(* A row of api_keys.  Its hash is told by how often the key was reset. *)
Row == [sub : Subs, hash : 0..MaxEdits, enabled : BOOLEAN,
        rpm : Limits \union {Unlimited}, expires : Expiries \union {Never}]

(* The order of the texts: "...:00Z" is after every "...:00.<fraction>Z". *)
Second(t) == t \div 2
Text(t) == 2 * Second(t) + (1 - (t % 2))

-----------------------------------------------------------------------------
(* Admins *)

Edit == edits < MaxEdits /\ edits' = edits + 1

Put(k, row) == keys' = [i \in DOMAIN keys \union {k} |-> IF i = k THEN row ELSE keys[i]]

(* CreateAPIKey: GetSubscription *)
BeginCreate(k, s) ==
    /\ k \notin used
    /\ s \in DOMAIN subs
    /\ creating' = creating \union {[id |-> k, sub |-> s]}
    /\ used' = used \union {k}
    /\ UNCHANGED <<clock, subs, keys, rates, requestVars, boots, edits>>

NewRow(s) == {row \in Row : row.sub = s /\ row.hash = 0 /\ row.enabled}

(* Mutant of InsertKey: no foreign key stands in the way. *)
InsertUnchecked(c) ==
    /\ creating' = creating \ {c}
    /\ \E row \in NewRow(c.sub) : Put(c.id, row)
    /\ UNCHANGED <<clock, subs, used, rates, requestVars, boots, edits>>

(* ... and INSERT, which fails if the subscription has gone in between *)
InsertKey(c) ==
    /\ creating' = creating \ {c}
    /\ \/ c.sub \in DOMAIN subs /\ \E row \in NewRow(c.sub) : Put(c.id, row)
       \/ UNCHANGED keys
    /\ UNCHANGED <<clock, subs, used, rates, requestVars, boots, edits>>

(* A PUT writes every field: one it leaves out is switched off or unlimited. *)
UpdateAPIKey(k) ==
    /\ Edit
    /\ \E row \in Row :
          /\ row.sub = keys[k].sub /\ row.hash = keys[k].hash
          /\ Put(k, row)
    /\ UNCHANGED <<clock, subs, creating, used, rates, requestVars, boots>>

ResetAPIKey(k) ==
    /\ Edit
    /\ Put(k, [keys[k] EXCEPT !.hash = @ + 1])
    /\ UNCHANGED <<clock, subs, creating, used, rates, requestVars, boots>>

DeleteAPIKey(k) ==
    /\ Edit
    /\ keys' = Restrict(keys, DOMAIN keys \ {k})
    /\ UNCHANGED <<clock, subs, creating, used, rates, requestVars, boots>>

SetSubscriptionEnabled(s) ==
    /\ Edit
    /\ subs' = [subs EXCEPT ![s] = ~@]
    /\ UNCHANGED <<clock, keys, creating, used, rates, requestVars, boots>>

(* ... ON DELETE CASCADE *)
DeleteSubscription(s) ==
    /\ Edit
    /\ subs' = Restrict(subs, DOMAIN subs \ {s})
    /\ keys' = Restrict(keys, {k \in DOMAIN keys : keys[k].sub # s})
    /\ UNCHANGED <<clock, creating, used, rates, requestVars, boots>>

-----------------------------------------------------------------------------
(* Requests *)

(* Mutant of InForce: expires_at is not looked at. *)
InForceAnyAge(k, hash) == keys[k].hash = hash /\ keys[k].enabled /\ subs[keys[k].sub]

InForce(k, hash) ==
    /\ keys[k].hash = hash /\ keys[k].enabled
    /\ subs[keys[k].sub]
    /\ keys[k].expires = Never \/ Text(keys[k].expires) > Text(clock)

(* A handler returns, and what it knew is gone. *)
Return(r, place) ==
    /\ pc' = [pc EXCEPT ![r] = place]
    /\ key' = [key EXCEPT ![r] = NoKey]
    /\ limit' = [limit EXCEPT ![r] = Unlimited]
    /\ now' = [now EXCEPT ![r] = 0]

(* by the hash of what the client presents, which may be that of no key *)
ResolveAPIKey(r) ==
    /\ pc[r] = "start"
    /\ \/ \E k \in DOMAIN keys, hash \in 0..MaxEdits :
             /\ InForce(k, hash)
             /\ pc' = [pc EXCEPT ![r] = "resolved"]
             /\ key' = [key EXCEPT ![r] = k]
             /\ limit' = [limit EXCEPT ![r] = keys[k].rpm]
             /\ UNCHANGED now
       \/ Return(r, "ended")
    /\ UNCHANGED <<clock, rowVars, rates, passed, boots>>

(* A proxied request is not counted if its key has no limit, or if it fails
   to get a token first, which may take it to the provider and back.         *)
Uncounted(r) ==
    /\ pc[r] = "resolved"
    /\ Return(r, "ended")
    /\ UNCHANGED <<clock, rowVars, rates, passed, boots>>

(* allowRate: the clock, before the mutex *)
ReadClock(r) ==
    /\ pc[r] = "resolved"
    /\ limit[r] # Unlimited
    /\ pc' = [pc EXCEPT ![r] = "read"]
    /\ now' = [now EXCEPT ![r] = clock]
    /\ UNCHANGED <<clock, rowVars, rates, key, limit, passed, boots>>

Over(window, t) == t >= window.started + Window

(* Mutant of State: a new window takes over the count of the last. *)
StateUncleared(r) ==
    IF key[r] \notin DOMAIN rates THEN [started |-> now[r], count |-> 0]
    ELSE IF Over(rates[key[r]], now[r]) THEN [rates[key[r]] EXCEPT !.started = now[r]]
    ELSE rates[key[r]]

(* the window a request is counted in *)
State(r) ==
    IF key[r] \in DOMAIN rates /\ ~Over(rates[key[r]], now[r])
    THEN rates[key[r]]
    ELSE [started |-> now[r], count |-> 0]

(* Mutant of Allowed: one more than the limit. *)
AllowedOneMore(r) == State(r).count <= limit[r]

Allowed(r) == State(r).count < limit[r]

SetRate(k, window) ==
    rates' = [i \in DOMAIN rates \union {k} |-> IF i = k THEN window ELSE rates[i]]

(* ... and the rest of allowRate, under the mutex *)
AllowRate(r) ==
    /\ pc[r] = "read"
    /\ \/ /\ Allowed(r)
          /\ SetRate(key[r], [State(r) EXCEPT !.count = @ + 1])
          /\ passed' = [q \in DOMAIN passed \union {r} |->
                          IF q = r THEN [at |-> clock, window |-> State(r).started,
                                         boot |-> boots]
                          ELSE passed[q]]
          /\ pc' = [pc EXCEPT ![r] = "passed"]
          /\ UNCHANGED <<key, limit, now>>
       \/ /\ ~Allowed(r)
          /\ SetRate(key[r], State(r))
          /\ Return(r, "refused")
          /\ UNCHANGED passed
    /\ UNCHANGED <<clock, rowVars, boots>>

-----------------------------------------------------------------------------
Tick ==
    /\ clock < MaxClock
    /\ clock' = clock + 1
    /\ UNCHANGED <<rowVars, rates, requestVars, boots>>

Ended == {"passed", "refused", "ended"}

(* The process is ended and started again: the counters are gone, and so is
   whoever was on the way.                                                   *)
Restart ==
    /\ boots < MaxRestarts
    /\ boots' = boots + 1
    /\ rates' = <<>>
    /\ creating' = {}
    /\ LET dies == {r \in Requests : pc[r] \in {"resolved", "read"}}
           Left(f, gone) == [r \in Requests |-> IF r \in dies THEN gone ELSE f[r]]
       IN  /\ pc' = Left(pc, "ended") /\ key' = Left(key, NoKey)
           /\ limit' = Left(limit, Unlimited) /\ now' = Left(now, 0)
    /\ UNCHANGED <<clock, subs, keys, used, edits, passed>>

Init ==
    /\ clock = 0
    /\ subs = [s \in Subs |-> TRUE]
    /\ keys = <<>>
    /\ creating = {}
    /\ used = {}
    /\ rates = <<>>
    /\ pc = [r \in Requests |-> "start"]
    /\ key = [r \in Requests |-> NoKey]
    /\ limit = [r \in Requests |-> Unlimited]
    /\ now = [r \in Requests |-> 0]
    /\ passed = <<>>
    /\ boots = 0
    /\ edits = 0

AdminStep ==
    \/ \E k \in Keys, s \in Subs : BeginCreate(k, s)
    \/ \E c \in creating : InsertKey(c)
    \/ \E k \in DOMAIN keys : UpdateAPIKey(k) \/ ResetAPIKey(k) \/ DeleteAPIKey(k)
    \/ \E s \in DOMAIN subs : SetSubscriptionEnabled(s) \/ DeleteSubscription(s)

RequestStep(r) ==
    ResolveAPIKey(r) \/ Uncounted(r) \/ ReadClock(r) \/ AllowRate(r)

Next ==
    \/ AdminStep
    \/ \E r \in Requests : RequestStep(r)
    \/ Tick
    \/ Restart

Spec == Init /\ [][Next]_vars

-----------------------------------------------------------------------------
Passed(k) == {r \in DOMAIN passed : key[r] = k}

(* A key never outlives its subscription: its creation may overlap the
   deletion of the other and still leaves no row that nothing would remove.  *)
NoOrphanKeys == \A k \in DOMAIN keys : keys[k].sub \in DOMAIN subs

TypeOK ==
    /\ clock \in 0..MaxClock /\ boots \in 0..MaxRestarts /\ edits \in 0..MaxEdits
    /\ DOMAIN subs \subseteq Subs /\ DOMAIN keys \subseteq used /\ used \subseteq Keys
    /\ \A s \in DOMAIN subs : subs[s] \in BOOLEAN
    /\ \A k \in DOMAIN keys : keys[k] \in Row
    /\ NoOrphanKeys
    /\ creating \subseteq [id : used, sub : Subs]
    /\ DOMAIN rates \subseteq Keys
    /\ \A n \in DOMAIN rates : rates[n] \in [started : 0..MaxClock, count : 1..Cardinality(Requests)]
    /\ pc \in [Requests -> Ended \union {"start", "resolved", "read"}]
    /\ key \in [Requests -> Keys \union {NoKey}]
    /\ limit \in [Requests -> Limits \union {Unlimited}]
    /\ now \in [Requests -> 0..MaxClock]
    /\ DOMAIN passed = {r \in Requests : pc[r] = "passed"}

(* Windows are fixed, so more than the limit may pass around the end of one,
   but less than twice the limit in any stretch of a window's length, whatever
   becomes of the limit meanwhile: whoever opened the first of two windows is
   a window away from the second.  Beside these are those who read the clock
   before the window they are counted in began.  A restart begins anew.      *)
LessThanTwice ==
    \A k \in Keys, t \in 0..MaxClock, b \in 0..boots :
        LET prompt == {r \in Passed(k) : /\ passed[r].boot = b
                                         /\ passed[r].window <= now[r]
                                         /\ now[r] \in t..(t + Window - 1)}
        IN  prompt # {} => \E r \in Passed(k) : Cardinality(prompt) < 2 * limit[r]

(* A request is refused for a cause that ends with the window: less than a
   window before it read the clock, as many as its limit were let through.
   So whoever waits for the Retry-After of the answer loses at most to others,
   and refusals do not prolong each other.                                   *)
RefusedForCause ==
    [][\A r \in Requests :
          pc[r] = "read" /\ pc'[r] = "refused" =>
              limit[r] <= Cardinality({q \in Passed(key[r]) :
                                          /\ passed[q].boot = boots
                                          /\ now[r] < passed[q].at + Window})]_vars

(* A key that expires is let in for the last time in the second it expires
   in, however its time and the clock are written.                           *)
ExpiryToTheSecond ==
    [][\A r \in Requests :
          pc[r] = "start" /\ pc'[r] = "resolved" /\ key'[r] \in DOMAIN keys =>
              LET expires == keys[key'[r]].expires
              IN  expires = Never \/ Second(clock) <= Second(expires)]_vars

=============================================================================
