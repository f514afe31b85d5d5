-------------------------- MODULE AdmissionProofs --------------------------
(***************************************************************************)
(* Proofs about who is let in: the API keys and the rate limiter           *)
(* (Admission), for any subscriptions, keys, requests, limits and length   *)
(* of the window, and the administration of users (AdminUsers), for any    *)
(* users, handlers and number of requests.                                 *)
(***************************************************************************)
EXTENDS Admission, AdminUsers, FiniteSetTheorems, TLAPS

USE LimitsAssumption, ExpiriesAssumption, WindowAssumption, BoundsAssumption, NoKeyAssumption

(* The rows: a key has the subscription it was created for, and its hash has
   been reset no more often than anything was edited.                        *)
KeyRows ==
    /\ \A k \in DOMAIN keys : keys[k] \in Row /\ keys[k].hash \in 0..edits
    /\ edits \in 0..MaxEdits

SubRows == DOMAIN subs \subseteq Subs /\ \A s \in DOMAIN subs : subs[s] \in BOOLEAN

IdsUsed ==
    /\ DOMAIN keys \subseteq used /\ used \subseteq Keys
    /\ creating \subseteq [id : used, sub : Subs]

Clocks == clock \in 0..MaxClock /\ boots \in 0..MaxRestarts

(* What a request knows at each place. *)
RequestTypes ==
    /\ pc \in [Requests -> Ended \union {"start", "resolved", "read"}]
    /\ key \in [Requests -> Keys \union {NoKey}]
    /\ limit \in [Requests -> Limits \union {Unlimited}]
    /\ now \in [Requests -> 0..MaxClock]
    /\ \A r \in Requests :
          /\ pc[r] \in {"resolved", "read", "passed"} => key[r] \in Keys
          /\ pc[r] \in {"read", "passed"} => limit[r] \in Limits
          /\ now[r] <= clock

WindowTypes ==
    /\ DOMAIN rates \subseteq Keys
    /\ \A k \in DOMAIN rates : rates[k] \in [started : 0..clock, count : Nat \ {0}]

PassedTypes ==
    /\ DOMAIN passed = {r \in Requests : pc[r] = "passed"}
    /\ \A r \in DOMAIN passed :
          passed[r] \in [at : 0..clock, window : 0..clock, boot : 0..boots]

Types ==
    /\ KeyRows /\ SubRows /\ IdsUsed /\ Clocks
    /\ RequestTypes /\ WindowTypes /\ PassedTypes

(* The requests that were counted for one key in one window. *)
Counted(p, owner, k, b, w) ==
    {q \in DOMAIN p : owner[q] = k /\ p[q].boot = b /\ p[q].window = w}

Members(k, b, w) == Counted(passed, key, k, b, w)

(* The windows of a key are fixed and do not overlap, and the one in memory
   is the last.                                                              *)
WindowsApart ==
    /\ \A p, q \in DOMAIN passed :
          key[p] = key[q] /\ passed[p].boot = passed[q].boot =>
              \/ passed[p].window = passed[q].window
              \/ passed[p].window + Window <= passed[q].window
              \/ passed[q].window + Window <= passed[p].window
    /\ \A q \in DOMAIN passed :
          passed[q].boot = boots =>
              /\ key[q] \in DOMAIN rates
              /\ \/ passed[q].window = rates[key[q]].started
                 \/ passed[q].window + Window <= rates[key[q]].started

(* The count in memory is the number of those counted in its window. *)
CountsMembers ==
    \A k \in DOMAIN rates :
        rates[k].count = Cardinality(Members(k, boots, rates[k].started))

(* A window was opened by one of its members, all of them read the clock
   before it was over and were let through after it began, and the last one
   counted still saw room for it.                                            *)
WindowsBounded ==
    \A q \in DOMAIN passed :
        LET M == Members(key[q], passed[q].boot, passed[q].window)
        IN  /\ \E o \in M : now[o] = passed[q].window
            /\ \E m \in M : Cardinality(M) <= limit[m]
            /\ now[q] < passed[q].window + Window
            /\ passed[q].window <= passed[q].at

Windows == WindowsApart /\ CountsMembers /\ WindowsBounded

IInv == Types /\ NoOrphanKeys /\ Windows

-----------------------------------------------------------------------------
(* Who is counted in a window *)

LEMMA CountedAgain ==
    ASSUME NEW p, NEW f, NEW g, \A q \in DOMAIN p : f[q] = g[q],
           NEW k, NEW b, NEW w
    PROVE  Counted(p, f, k, b, w) = Counted(p, g, k, b, w)
BY DEF Counted

LEMMA CountedOne ==
    ASSUME NEW r, r \notin DOMAIN passed, DOMAIN passed' = DOMAIN passed \union {r},
           \A q \in DOMAIN passed : passed'[q] = passed[q],
           NEW k, NEW b, NEW w
    PROVE  /\ key[r] = k /\ passed'[r].boot = b /\ passed'[r].window = w
                  => Counted(passed', key, k, b, w) = Members(k, b, w) \union {r}
           /\ ~(key[r] = k /\ passed'[r].boot = b /\ passed'[r].window = w)
                  => Counted(passed', key, k, b, w) = Members(k, b, w)
BY DEF Counted, Members

LEMMA MembersFinite ==
    ASSUME PassedTypes, NEW k, NEW b, NEW w
    PROVE  /\ IsFiniteSet(Members(k, b, w))
           /\ Cardinality(Members(k, b, w)) \in 0..Cardinality(Requests)
<1>1. Members(k, b, w) \subseteq Requests
  BY DEF PassedTypes, Members, Counted
<1> QED BY <1>1, RequestsAssumption, FS_Subset, FS_CardinalityType

-----------------------------------------------------------------------------
(* The types *)

LEMMA InitTypes == Init => Types /\ NoOrphanKeys
<1> SUFFICES ASSUME Init PROVE Types /\ NoOrphanKeys
  OBVIOUS
<1>1. KeyRows /\ SubRows /\ IdsUsed /\ Clocks /\ NoOrphanKeys
  BY DEF Init, KeyRows, SubRows, IdsUsed, Clocks, NoOrphanKeys
<1>2. RequestTypes
  BY DEF Init, RequestTypes, Ended, Clocks
<1>3. WindowTypes /\ PassedTypes
  BY DEF Init, WindowTypes, PassedTypes
<1> QED BY <1>1, <1>2, <1>3 DEF Types

LEMMA NextRows ==
    KeyRows /\ SubRows /\ IdsUsed /\ NoOrphanKeys /\ [Next]_vars
        => KeyRows' /\ SubRows' /\ IdsUsed' /\ NoOrphanKeys'
<1> SUFFICES ASSUME KeyRows, SubRows, IdsUsed, NoOrphanKeys, [Next]_vars
             PROVE  KeyRows' /\ SubRows' /\ IdsUsed' /\ NoOrphanKeys'
  OBVIOUS
<1> USE DEF KeyRows, SubRows, IdsUsed, NoOrphanKeys, Edit
<1>1. ASSUME NEW k \in Keys, NEW s \in Subs, BeginCreate(k, s)
      PROVE  KeyRows' /\ SubRows' /\ IdsUsed' /\ NoOrphanKeys'
  BY <1>1 DEF BeginCreate
<1>2. ASSUME NEW c \in creating, InsertKey(c)
      PROVE  KeyRows' /\ SubRows' /\ IdsUsed' /\ NoOrphanKeys'
  <2>1. CASE UNCHANGED keys
    BY <1>2, <2>1 DEF InsertKey
  <2>2. ASSUME c.sub \in DOMAIN subs, NEW row \in NewRow(c.sub), Put(c.id, row)
        PROVE  KeyRows' /\ NoOrphanKeys' /\ DOMAIN keys' \subseteq used
    <3>1. row \in Row /\ row.sub = c.sub /\ row.hash = 0 /\ c.id \in used
      BY <2>2 DEF NewRow
    <3> QED BY <1>2, <2>2, <3>1 DEF InsertKey, Put
  <2>3. creating' \subseteq creating /\ UNCHANGED <<subs, used, edits>>
    BY <1>2 DEF InsertKey
  <2> QED BY <1>2, <2>1, <2>2, <2>3 DEF InsertKey
<1>3. ASSUME NEW k \in DOMAIN keys, UpdateAPIKey(k)
      PROVE  KeyRows' /\ SubRows' /\ IdsUsed' /\ NoOrphanKeys'
  <2>1. PICK row \in Row : row.sub = keys[k].sub /\ row.hash = keys[k].hash /\ Put(k, row)
    BY <1>3 DEF UpdateAPIKey
  <2>2. DOMAIN keys' = DOMAIN keys /\ NoOrphanKeys'
    BY <1>3, <2>1 DEF UpdateAPIKey, Put
  <2>3. KeyRows'
    BY <1>3, <2>1 DEF UpdateAPIKey, Put
  <2> QED BY <1>3, <2>2, <2>3 DEF UpdateAPIKey
<1>4. ASSUME NEW k \in DOMAIN keys, ResetAPIKey(k)
      PROVE  KeyRows' /\ SubRows' /\ IdsUsed' /\ NoOrphanKeys'
  <2> DEFINE row == [keys[k] EXCEPT !.hash = @ + 1]
  <2>1. row \in Row /\ row.sub = keys[k].sub /\ row.hash = keys[k].hash + 1
    BY <1>4 DEF ResetAPIKey, Row
  <2> HIDE DEF row
  <2>2. Put(k, row) /\ edits' = edits + 1 /\ edits < MaxEdits
    BY <1>4 DEF ResetAPIKey, row
  <2>3. DOMAIN keys' = DOMAIN keys /\ NoOrphanKeys'
    BY <1>4, <2>1, <2>2 DEF ResetAPIKey, Put
  <2>4. \A i \in DOMAIN keys' : keys'[i] \in Row /\ keys'[i].hash \in 0..(edits + 1)
    BY <2>1, <2>2 DEF Put
  <2> QED BY <1>4, <2>2, <2>3, <2>4 DEF ResetAPIKey
<1>5. ASSUME NEW k \in DOMAIN keys, DeleteAPIKey(k)
      PROVE  KeyRows' /\ SubRows' /\ IdsUsed' /\ NoOrphanKeys'
  BY <1>5 DEF DeleteAPIKey, Restrict
<1>6. ASSUME NEW s \in DOMAIN subs, SetSubscriptionEnabled(s)
      PROVE  KeyRows' /\ SubRows' /\ IdsUsed' /\ NoOrphanKeys'
  <2>1. DOMAIN subs' = DOMAIN subs
    BY <1>6 DEF SetSubscriptionEnabled
  <2>2. \A t \in DOMAIN subs : subs'[t] \in BOOLEAN
    BY <1>6, Zenon DEF SetSubscriptionEnabled
  <2>3. UNCHANGED <<keys, creating, used>> /\ edits' \in 0..MaxEdits /\ edits' = edits + 1
    BY <1>6 DEF SetSubscriptionEnabled
  <2> QED BY <2>1, <2>2, <2>3
<1>7. ASSUME NEW s \in DOMAIN subs, DeleteSubscription(s)
      PROVE  KeyRows' /\ SubRows' /\ IdsUsed' /\ NoOrphanKeys'
  BY <1>7 DEF DeleteSubscription, Restrict
<1>8. ASSUME NEW r \in Requests, RequestStep(r) PROVE UNCHANGED rowVars
  BY <1>8 DEF RequestStep, ResolveAPIKey, Uncounted, ReadClock, AllowRate
<1>9. CASE Tick \/ UNCHANGED vars
  BY <1>9 DEF Tick, vars, rowVars
<1>10. CASE Restart
  BY <1>10 DEF Restart
<1>11. CASE UNCHANGED rowVars
  BY <1>11 DEF rowVars
<1> QED BY <1>1, <1>2, <1>3, <1>4, <1>5, <1>6, <1>7, <1>8, <1>9, <1>10, <1>11
        DEF Next, AdminStep

LEMMA NextClocks == Clocks /\ [Next]_vars => Clocks' /\ clock <= clock' /\ boots <= boots'
<1> SUFFICES ASSUME Clocks, [Next]_vars
             PROVE  Clocks' /\ clock <= clock' /\ boots <= boots'
  OBVIOUS
<1>1. CASE AdminStep
  <2>1. UNCHANGED <<clock, boots>>
    BY <1>1 DEF AdminStep, BeginCreate, InsertKey, UpdateAPIKey, ResetAPIKey, DeleteAPIKey,
                SetSubscriptionEnabled, DeleteSubscription
  <2> QED BY <2>1 DEF Clocks
<1>2. ASSUME NEW r \in Requests, RequestStep(r)
      PROVE  Clocks' /\ clock <= clock' /\ boots <= boots'
  BY <1>2 DEF RequestStep, ResolveAPIKey, Uncounted, ReadClock, AllowRate, Clocks
<1>3. CASE Tick \/ Restart \/ UNCHANGED vars
  BY <1>3 DEF Tick, Restart, vars, Clocks
<1> QED BY <1>1, <1>2, <1>3 DEF Next

LEMMA NextRequestTypes ==
    IdsUsed /\ KeyRows /\ Clocks /\ RequestTypes /\ [Next]_vars => RequestTypes'
<1> SUFFICES ASSUME IdsUsed, KeyRows, Clocks, RequestTypes, [Next]_vars
             PROVE  RequestTypes'
  OBVIOUS
<1> USE DEF RequestTypes, Ended, Unlimited, Return
<1>1. ASSUME NEW r \in Requests, ResolveAPIKey(r) PROVE RequestTypes'
  <2>1. CASE Return(r, "ended")
    BY <1>1, <2>1 DEF ResolveAPIKey, Clocks
  <2>2. ASSUME NEW k \in DOMAIN keys, pc' = [pc EXCEPT ![r] = "resolved"],
               key' = [key EXCEPT ![r] = k], limit' = [limit EXCEPT ![r] = keys[k].rpm],
               now' = now
        PROVE  RequestTypes'
    <3>1. k \in Keys /\ keys[k].rpm \in Limits \union {Unlimited}
      BY DEF IdsUsed, KeyRows, Row
    <3> QED BY <1>1, <2>2, <3>1 DEF ResolveAPIKey
  <2> QED BY <1>1, <2>1, <2>2 DEF ResolveAPIKey
<1>2. ASSUME NEW r \in Requests, Uncounted(r) PROVE RequestTypes'
  BY <1>2 DEF Uncounted, Clocks
<1>3. ASSUME NEW r \in Requests, ReadClock(r) PROVE RequestTypes'
  BY <1>3 DEF ReadClock, Clocks
<1>4. ASSUME NEW r \in Requests, AllowRate(r) PROVE RequestTypes'
  BY <1>4 DEF AllowRate, Clocks
<1>5. CASE Tick
  BY <1>5 DEF Tick, requestVars, Clocks
<1>6. CASE Restart
  BY <1>6 DEF Restart, Clocks
<1>7. CASE AdminStep \/ UNCHANGED vars
  <2>1. UNCHANGED <<pc, key, limit, now, clock>>
    BY <1>7 DEF AdminStep, BeginCreate, InsertKey, UpdateAPIKey, ResetAPIKey, DeleteAPIKey,
                SetSubscriptionEnabled, DeleteSubscription, requestVars, vars
  <2> QED BY <2>1
<1> QED BY <1>1, <1>2, <1>3, <1>4, <1>5, <1>6, <1>7 DEF Next, RequestStep

(* What allowRate makes of a request: it is refused in the window in memory,
   or counted in that window or in one of its own.                           *)
LEMMA CountedStep ==
    ASSUME Types, NEW r \in Requests, AllowRate(r)
    PROVE  /\ key[r] \in Keys /\ limit[r] \in Limits /\ r \notin DOMAIN passed
           /\ State(r) \in [started : 0..clock, count : Nat]
           /\ now[r] < State(r).started + Window
           /\ \/ /\ Allowed(r)
                 /\ pc' = [pc EXCEPT ![r] = "passed"] /\ UNCHANGED <<key, limit, now>>
                 /\ DOMAIN passed' = DOMAIN passed \union {r}
                 /\ \A q \in DOMAIN passed : passed'[q] = passed[q]
                 /\ passed'[r] = [at |-> clock, window |-> State(r).started, boot |-> boots]
                 /\ DOMAIN rates' = DOMAIN rates \union {key[r]}
                 /\ \A k \in DOMAIN rates \ {key[r]} : rates'[k] = rates[k]
                 /\ rates'[key[r]] = [started |-> State(r).started, count |-> State(r).count + 1]
              \/ /\ ~Allowed(r)
                 /\ Return(r, "refused") /\ passed' = passed
                 /\ key[r] \in DOMAIN rates /\ State(r) = rates[key[r]]
                 /\ DOMAIN rates' = DOMAIN rates
                 /\ \A k \in DOMAIN rates : rates'[k] = rates[k]
<1> USE DEF Types
<1>1. /\ pc[r] = "read" /\ key[r] \in Keys /\ limit[r] \in Limits /\ r \notin DOMAIN passed
      /\ now[r] \in 0..clock /\ now[r] \in Nat /\ limit[r] \in Nat \ {0}
  BY DEF AllowRate, RequestTypes, PassedTypes
<1>2. CASE key[r] \in DOMAIN rates /\ ~Over(rates[key[r]], now[r])
  <2>1. State(r) = rates[key[r]] /\ rates[key[r]] \in [started : 0..clock, count : Nat \ {0}]
    BY <1>2 DEF State, WindowTypes
  <2>2. now[r] < State(r).started + Window
    BY <1>1, <1>2, <2>1 DEF Over
  <2>3. CASE Allowed(r)
    BY <1>1, <1>2, <2>1, <2>2, <2>3 DEF AllowRate, SetRate
  <2>4. CASE ~Allowed(r)
    BY <1>1, <1>2, <2>1, <2>2, <2>4 DEF AllowRate, SetRate
  <2> QED BY <2>3, <2>4
<1>3. CASE ~(key[r] \in DOMAIN rates /\ ~Over(rates[key[r]], now[r]))
  <2>1. State(r) = [started |-> now[r], count |-> 0]
    BY <1>3 DEF State
  <2>2. Allowed(r) /\ now[r] < State(r).started + Window
    BY <1>1, <2>1 DEF Allowed
  <2> QED BY <1>1, <2>1, <2>2 DEF AllowRate, SetRate
<1> QED BY <1>2, <1>3

LEMMA NextWindowTypes == Types /\ [Next]_vars => WindowTypes' /\ PassedTypes'
<1> SUFFICES ASSUME Types, [Next]_vars PROVE WindowTypes' /\ PassedTypes'
  OBVIOUS
<1>0. clock \in Nat /\ boots \in Nat /\ clock' \in Nat /\ boots' \in Nat
      /\ clock <= clock' /\ boots <= boots'
  BY NextClocks DEF Types, Clocks
<1>1. ASSUME DOMAIN rates' \subseteq DOMAIN rates,
             \A k \in DOMAIN rates' : rates'[k] = rates[k]
      PROVE  WindowTypes'
  BY <1>0, <1>1 DEF Types, WindowTypes
<1>2. ASSUME passed' = passed, \A r \in Requests : pc'[r] = "passed" <=> pc[r] = "passed"
      PROVE  PassedTypes'
  BY <1>0, <1>2 DEF Types, PassedTypes
<1>3. ASSUME NEW r \in Requests, AllowRate(r) PROVE WindowTypes' /\ PassedTypes'
  <2>0. pc \in [Requests -> Ended \union {"start", "resolved", "read"}] /\ pc[r] = "read"
        /\ UNCHANGED <<clock, boots>>
    BY <1>3 DEF AllowRate, Types, RequestTypes
  <2>1. CASE Allowed(r)
    <3>0. /\ State(r) \in [started : 0..clock, count : Nat]
          /\ passed'[r] = [at |-> clock, window |-> State(r).started, boot |-> boots]
          /\ rates'[key[r]] = [started |-> State(r).started, count |-> State(r).count + 1]
      BY <1>3, <2>1, CountedStep, Zenon
    <3>1. /\ pc' = [pc EXCEPT ![r] = "passed"]
          /\ DOMAIN passed' = DOMAIN passed \union {r}
          /\ \A q \in DOMAIN passed : passed'[q] = passed[q]
      BY <1>3, <2>1, CountedStep, Zenon
    <3>2. PassedTypes'
      BY <1>0, <2>0, <3>0, <3>1 DEF Types, PassedTypes
    <3>3. /\ DOMAIN rates' = DOMAIN rates \union {key[r]} /\ key[r] \in Keys
          /\ \A k \in DOMAIN rates \ {key[r]} : rates'[k] = rates[k]
      BY <1>3, <2>1, CountedStep, Zenon
    <3> QED BY <1>0, <2>0, <3>0, <3>2, <3>3 DEF Types, WindowTypes
  <2>2. CASE ~Allowed(r)
    <3>1. /\ Return(r, "refused") /\ passed' = passed
          /\ DOMAIN rates' = DOMAIN rates /\ \A k \in DOMAIN rates : rates'[k] = rates[k]
      BY <1>3, <2>2, CountedStep
    <3> QED BY <1>1, <1>2, <2>0, <3>1 DEF Return
  <2> QED BY <2>1, <2>2
<1>4. ASSUME NEW r \in Requests, ResolveAPIKey(r) \/ Uncounted(r) \/ ReadClock(r)
      PROVE  WindowTypes' /\ PassedTypes'
  BY <1>1, <1>2, <1>4 DEF ResolveAPIKey, Uncounted, ReadClock, Return, Types, RequestTypes
<1>5. CASE Tick \/ AdminStep \/ UNCHANGED vars
  <2>1. UNCHANGED <<rates, pc, passed>>
    BY <1>5 DEF Tick, AdminStep, BeginCreate, InsertKey, UpdateAPIKey, ResetAPIKey,
                DeleteAPIKey, SetSubscriptionEnabled, DeleteSubscription, requestVars, vars
  <2> QED BY <1>1, <1>2, <2>1
<1>6. CASE Restart
  <2>1. PassedTypes'
    BY <1>2, <1>6 DEF Restart
  <2>2. WindowTypes'
    BY <1>6 DEF Restart, WindowTypes
  <2> QED BY <2>1, <2>2
<1> QED BY <1>3, <1>4, <1>5, <1>6 DEF Next, RequestStep

-----------------------------------------------------------------------------
(* The windows *)

(* Steps that count nobody change nothing of it. *)
LEMMA NobodyCounted ==
    ASSUME Windows, passed' = passed, boots' = boots,
           DOMAIN rates' = DOMAIN rates, \A k \in DOMAIN rates : rates'[k] = rates[k],
           \A q \in DOMAIN passed : key'[q] = key[q] /\ limit'[q] = limit[q] /\ now'[q] = now[q]
    PROVE  Windows'
<1>1. \A k, b, w : Counted(passed', key', k, b, w) = Counted(passed, key, k, b, w)
  <2> TAKE k, b, w
  <2>1. Counted(passed, key', k, b, w) = Counted(passed, key, k, b, w)
    BY CountedAgain
  <2> QED BY <2>1
<1> USE DEF Windows
<1>2. WindowsApart'
  BY DEF WindowsApart
<1>3. CountsMembers'
  BY <1>1 DEF CountsMembers, Members
<1>4. WindowsBounded'
  <2> SUFFICES ASSUME NEW q \in DOMAIN passed'
               PROVE  LET M == Members(key[q], passed[q].boot, passed[q].window)'
                      IN  /\ \E o \in M : now'[o] = passed'[q].window
                          /\ \E m \in M : Cardinality(M) <= limit'[m]
                          /\ now'[q] < passed'[q].window + Window
                          /\ passed'[q].window <= passed'[q].at
    BY DEF WindowsBounded
  <2> DEFINE M == Members(key[q], passed[q].boot, passed[q].window)
  <2>1. Members(key[q], passed[q].boot, passed[q].window)' = M /\ M \subseteq DOMAIN passed
    BY <1>1 DEF Members, Counted
  <2> QED BY <2>1 DEF WindowsBounded
<1> QED BY <1>2, <1>3, <1>4

(* The one that is counted comes into the window in memory, or opens one that
   is a window's length after every other of its key.                        *)
LEMMA JoinsWindow ==
    ASSUME Types, Windows, NEW r \in Requests, AllowRate(r)
    PROVE  /\ State(r).count = Cardinality(Members(key[r], boots, State(r).started))
           /\ Members(key[r], boots, State(r).started) = {} => now[r] = State(r).started
           /\ \A q \in DOMAIN passed :
                 key[q] = key[r] /\ passed[q].boot = boots =>
                    \/ passed[q].window = State(r).started
                    \/ passed[q].window + Window <= State(r).started
<1> USE DEF Types, Windows
<1> DEFINE M == Members(key[r], boots, State(r).started)
<1>1. /\ key[r] \in Keys /\ now[r] \in Nat
      /\ \A q \in DOMAIN passed : passed[q].window \in Nat
      /\ \A k \in DOMAIN rates : rates[k].started \in Nat /\ rates[k].count \in Nat \ {0}
  BY DEF AllowRate, RequestTypes, PassedTypes, WindowTypes, Clocks
<1>2. CASE key[r] \in DOMAIN rates /\ ~Over(rates[key[r]], now[r])
  <2>1. State(r) = rates[key[r]]
    BY <1>2 DEF State
  <2>2. State(r).count = Cardinality(M) /\ M # {}
    BY <1>1, <1>2, <2>1, FS_EmptySet DEF CountsMembers
  <2>3. \A q \in DOMAIN passed :
            key[q] = key[r] /\ passed[q].boot = boots =>
                \/ passed[q].window = State(r).started
                \/ passed[q].window + Window <= State(r).started
    BY <2>1 DEF WindowsApart
  <2> QED BY <2>2, <2>3
<1>3. CASE ~(key[r] \in DOMAIN rates /\ ~Over(rates[key[r]], now[r]))
  <2>1. State(r).started = now[r] /\ State(r).count = 0
    BY <1>3 DEF State
  <2>2. \A q \in DOMAIN passed :
            key[q] = key[r] /\ passed[q].boot = boots => passed[q].window + Window <= now[r]
    BY <1>1, <1>3 DEF WindowsApart, Over
  <2>3. M = {}
    <3> SUFFICES ASSUME NEW q \in M PROVE FALSE
      OBVIOUS
    <3>1. /\ q \in DOMAIN passed /\ key[q] = key[r]
          /\ passed[q].boot = boots /\ passed[q].window = now[r]
      BY <2>1 DEF Members, Counted
    <3> QED BY <1>1, <2>2, <3>1
  <2> QED BY <2>1, <2>2, <2>3, FS_EmptySet
<1> QED BY <1>2, <1>3

LEMMA OneCounted ==
    ASSUME Types, Windows, NEW r \in Requests, AllowRate(r), Allowed(r)
    PROVE  Windows'
<1> DEFINE w == State(r).started
           L == Members(key[r], boots, w)
<1>1. /\ key' = key /\ limit' = limit /\ now' = now /\ boots' = boots /\ clock' = clock
      /\ r \notin DOMAIN passed
      /\ DOMAIN passed' = DOMAIN passed \union {r}
      /\ \A q \in DOMAIN passed : passed'[q] = passed[q]
      /\ passed'[r] = [at |-> clock, window |-> w, boot |-> boots]
      /\ DOMAIN rates' = DOMAIN rates \union {key[r]}
      /\ \A k \in DOMAIN rates \ {key[r]} : rates'[k] = rates[k]
      /\ rates'[key[r]] = [started |-> w, count |-> State(r).count + 1]
  <2>1. boots' = boots /\ clock' = clock
    BY DEF AllowRate
  <2> QED BY <2>1, CountedStep, Zenon
<1>2. /\ State(r) \in [started : 0..clock, count : Nat]
      /\ limit[r] \in Nat /\ State(r).count < limit[r] /\ now[r] < w + Window
  <2>1. limit[r] \in Limits /\ State(r) \in [started : 0..clock, count : Nat]
        /\ now[r] < w + Window
    BY CountedStep, Zenon
  <2> QED BY <2>1 DEF Allowed
<1>3. /\ State(r).count = Cardinality(L) /\ (L = {} => now[r] = w)
      /\ \A q \in DOMAIN passed :
            key[q] = key[r] /\ passed[q].boot = boots =>
                passed[q].window = w \/ passed[q].window + Window <= w
  BY JoinsWindow, Zenon
<1> HIDE DEF w
<1>4. \A k, b, v : Counted(passed', key', k, b, v) =
          IF key[r] = k /\ boots = b /\ w = v THEN Members(k, b, v) \union {r}
          ELSE Members(k, b, v)
  <2> TAKE k, b, v
  <2>1. /\ r \notin DOMAIN passed /\ DOMAIN passed' = DOMAIN passed \union {r}
        /\ \A q \in DOMAIN passed : passed'[q] = passed[q]
    BY <1>1
  <2>2. /\ key[r] = k /\ passed'[r].boot = b /\ passed'[r].window = v
              => Counted(passed', key, k, b, v) = Members(k, b, v) \union {r}
        /\ ~(key[r] = k /\ passed'[r].boot = b /\ passed'[r].window = v)
              => Counted(passed', key, k, b, v) = Members(k, b, v)
    BY <2>1, CountedOne
  <2>3. passed'[r].boot = boots /\ passed'[r].window = w
    BY <1>1
  <2>4. key' = key
    BY <1>1
  <2> QED BY <2>2, <2>3, <2>4
<1>5. Cardinality(L \union {r}) = State(r).count + 1
  <2>1. PassedTypes
    BY DEF Types
  <2>2. IsFiniteSet(L)
    BY <2>1, MembersFinite
  <2>3. r \notin L
    BY <1>1 DEF Members, Counted
  <2> QED BY <1>3, <2>2, <2>3, FS_AddElement
<1>6. WindowsApart'
  BY <1>1, <1>3 DEF Windows, WindowsApart
<1>7. CountsMembers'
  <2>1. rates'[key[r]].count = Cardinality(Members(key[r], boots, rates[key[r]].started)')
    <3>1. Counted(passed', key', key[r], boots, w) = L \union {r}
      BY <1>4
    <3>2. rates'[key[r]].count = State(r).count + 1 /\ rates'[key[r]].started = w
      BY <1>1
    <3> QED BY <1>1, <1>5, <3>1, <3>2 DEF Members
  <2>2. ASSUME NEW k \in DOMAIN rates \ {key[r]}
        PROVE  rates'[k].count = Cardinality(Members(k, boots, rates[k].started)')
    BY <1>1, <1>4 DEF Windows, CountsMembers, Members
  <2> QED BY <1>1, <2>1, <2>2 DEF CountsMembers
<1>8. WindowsBounded'
  <2> SUFFICES ASSUME NEW q \in DOMAIN passed'
               PROVE  LET M == Counted(passed', key', key[q], passed'[q].boot, passed'[q].window)
                      IN  /\ \E o \in M : now[o] = passed'[q].window
                          /\ \E m \in M : Cardinality(M) <= limit[m]
                          /\ now[q] < passed'[q].window + Window
                          /\ passed'[q].window <= passed'[q].at
    BY <1>1 DEF WindowsBounded, Members
  <2>1. CASE key[q] = key[r] /\ passed'[q].boot = boots /\ passed'[q].window = w
    <3>1. Counted(passed', key', key[q], passed'[q].boot, passed'[q].window) = L \union {r}
      BY <1>4, <2>1
    <3>2. Cardinality(L \union {r}) <= limit[r]
      BY <1>2, <1>5
    <3>3. \E o \in L \union {r} : now[o] = w
      <4>1. CASE L = {}
        BY <1>3, <4>1
      <4>2. ASSUME NEW p \in L PROVE \E o \in L : now[o] = w
        <5>1. p \in DOMAIN passed /\ L = Members(key[p], passed[p].boot, passed[p].window)
              /\ passed[p].window = w
          BY <4>2 DEF Members, Counted
        <5> QED BY <5>1 DEF Windows, WindowsBounded
      <4> QED BY <4>1, <4>2
    <3>4. now[q] < w + Window /\ w <= passed'[q].at
      <4>1. CASE q = r
        BY <1>1, <1>2, <4>1 DEF w
      <4>2. CASE q # r
        BY <1>1, <2>1, <4>2 DEF Windows, WindowsBounded
      <4> QED BY <4>1, <4>2
    <3> QED BY <2>1, <3>1, <3>2, <3>3, <3>4
  <2>2. CASE ~(key[q] = key[r] /\ passed'[q].boot = boots /\ passed'[q].window = w)
    <3>1. q \in DOMAIN passed /\ passed'[q] = passed[q]
      BY <1>1, <2>2
    <3>2. Counted(passed', key', key[q], passed'[q].boot, passed'[q].window)
              = Members(key[q], passed[q].boot, passed[q].window)
      BY <1>4, <2>2, <3>1
    <3> QED BY <3>1, <3>2 DEF Windows, WindowsBounded
  <2> QED BY <2>1, <2>2
<1> QED BY <1>6, <1>7, <1>8 DEF Windows

LEMMA NextWindows == Types /\ Windows /\ [Next]_vars => Windows'
<1> SUFFICES ASSUME Types, Windows, [Next]_vars PROVE Windows'
  OBVIOUS
<1>1. ASSUME NEW r \in Requests, AllowRate(r) PROVE Windows'
  <2>1. CASE Allowed(r)
    BY <1>1, <2>1, OneCounted
  <2>2. CASE ~Allowed(r)
    <3>1. /\ Return(r, "refused") /\ passed' = passed /\ r \notin DOMAIN passed
          /\ DOMAIN rates' = DOMAIN rates
          /\ \A k \in DOMAIN rates : rates'[k] = rates[k]
      BY <1>1, <2>2, CountedStep, Zenon
    <3>2. boots' = boots
      BY <1>1 DEF AllowRate
    <3>3. \A q \in DOMAIN passed :
              key'[q] = key[q] /\ limit'[q] = limit[q] /\ now'[q] = now[q]
      BY <3>1 DEF Return, Types, RequestTypes, PassedTypes
    <3> QED BY <3>1, <3>2, <3>3, NobodyCounted
  <2> QED BY <2>1, <2>2
<1>2. ASSUME NEW r \in Requests, ResolveAPIKey(r) \/ Uncounted(r) \/ ReadClock(r)
      PROVE  Windows'
  <2>1. UNCHANGED <<passed, boots, rates>> /\ r \notin DOMAIN passed
    BY <1>2 DEF ResolveAPIKey, Uncounted, ReadClock, Types, PassedTypes
  <2>2. \A q \in DOMAIN passed :
            key'[q] = key[q] /\ limit'[q] = limit[q] /\ now'[q] = now[q]
    BY <1>2, <2>1 DEF ResolveAPIKey, Uncounted, ReadClock, Return, Types, RequestTypes,
                      PassedTypes
  <2> QED BY <2>1, <2>2, NobodyCounted
<1>3. CASE Tick \/ AdminStep \/ UNCHANGED vars
  <2>1. UNCHANGED <<rates, key, limit, now, passed, boots>>
    BY <1>3 DEF Tick, AdminStep, BeginCreate, InsertKey, UpdateAPIKey, ResetAPIKey,
                DeleteAPIKey, SetSubscriptionEnabled, DeleteSubscription, requestVars, vars
  <2> QED BY <2>1, NobodyCounted
<1>4. CASE Restart
  <2>1. /\ passed' = passed /\ boots' = boots + 1 /\ DOMAIN rates' = {}
        /\ \A q \in DOMAIN passed : passed[q].boot # boots'
    BY <1>4 DEF Restart, Types, PassedTypes, Clocks
  <2>2. \A q \in DOMAIN passed :
            key'[q] = key[q] /\ limit'[q] = limit[q] /\ now'[q] = now[q]
    BY <1>4 DEF Restart, Types, RequestTypes, PassedTypes
  <2>3. WindowsApart' /\ CountsMembers'
    BY <2>1, <2>2 DEF Windows, WindowsApart, CountsMembers
  <2>4. WindowsBounded'
    <3> SUFFICES ASSUME NEW q \in DOMAIN passed
                 PROVE  LET M == Counted(passed, key', key[q], passed[q].boot, passed[q].window)
                        IN  /\ \E o \in M : now'[o] = passed[q].window
                            /\ \E m \in M : Cardinality(M) <= limit'[m]
                            /\ now'[q] < passed[q].window + Window
                            /\ passed[q].window <= passed[q].at
      BY <2>1, <2>2 DEF WindowsBounded, Members
    <3> DEFINE M == Members(key[q], passed[q].boot, passed[q].window)
    <3>1. Counted(passed, key', key[q], passed[q].boot, passed[q].window) = M
      BY <2>2, CountedAgain DEF Members
    <3>2. M \subseteq DOMAIN passed
      BY DEF Members, Counted
    <3> QED BY <2>2, <3>1, <3>2 DEF Windows, WindowsBounded
  <2> QED BY <2>3, <2>4 DEF Windows
<1> QED BY <1>1, <1>2, <1>3, <1>4 DEF Next, RequestStep

LEMMA InitIInv == Init => IInv
<1> SUFFICES ASSUME Init PROVE IInv
  OBVIOUS
<1>1. DOMAIN passed = {} /\ DOMAIN rates = {}
  BY DEF Init
<1> QED BY <1>1, InitTypes DEF IInv, Windows, WindowsApart, CountsMembers, WindowsBounded

LEMMA NextIInv == IInv /\ [Next]_vars => IInv'
BY NextRows, NextClocks, NextRequestTypes, NextWindowTypes, NextWindows DEF IInv, Types

LEMMA Invariant == Spec => []IInv
BY InitIInv, NextIInv, PTL DEF Spec

-----------------------------------------------------------------------------
(* Every reachable state is well typed: keys belong to subscriptions that are
   there, through every overlap of creations and deletions.                  *)
THEOREM TypeCorrect == Spec => []TypeOK
<1>1. ASSUME IInv PROVE TypeOK
  <2> USE <1>1 DEF IInv, Types
  <2>1. ASSUME NEW k \in DOMAIN rates
        PROVE  rates[k] \in [started : 0..MaxClock, count : 1..Cardinality(Requests)]
    <3>1. rates[k] \in [started : 0..clock, count : Nat \ {0}] /\ clock \in 0..MaxClock
      BY DEF WindowTypes, Clocks
    <3>2. rates[k].count = Cardinality(Members(k, boots, rates[k].started))
      BY DEF Windows, CountsMembers
    <3>3. rates[k].count \in 0..Cardinality(Requests)
      BY <3>2, MembersFinite
    <3>4. Cardinality(Requests) \in Nat
      BY RequestsAssumption, FS_CardinalityType
    <3> QED BY <3>1, <3>3, <3>4
  <2>2. PassedTypes /\ RequestTypes /\ WindowTypes /\ Clocks /\ KeyRows /\ SubRows /\ IdsUsed
    OBVIOUS
  <2> QED BY <2>1, <2>2 DEF PassedTypes, RequestTypes, WindowTypes, Clocks, KeyRows, SubRows,
                           IdsUsed, TypeOK
<1> QED BY Invariant, <1>1, PTL

(* Two windows of one key meet in any stretch of a window's length at most,
   and the one that opened the first of two is not in the stretch: so less
   than twice the limit pass, whatever the limits, the lengths and the order. *)
THEOREM RateWithinTwice == Spec => []LessThanTwice
<1>1. ASSUME IInv PROVE LessThanTwice
  <2> SUFFICES ASSUME NEW k \in Keys, NEW t \in 0..MaxClock, NEW b \in 0..boots,
                      NEW P, P = {r \in Passed(k) : /\ passed[r].boot = b
                                                    /\ passed[r].window <= now[r]
                                                    /\ now[r] \in t..(t + Window - 1)},
                      NEW p \in P
               PROVE  \E r \in Passed(k) : Cardinality(P) < 2 * limit[r]
    BY DEF LessThanTwice
  <2> DEFINE M(q) == Members(k, b, passed[q].window)
  <2>1. ASSUME NEW q \in P
        PROVE  /\ q \in DOMAIN passed /\ key[q] = k /\ passed[q].boot = b
               /\ passed[q].window \in Nat /\ now[q] \in Nat
               /\ t < passed[q].window + Window /\ passed[q].window < t + Window
    BY <1>1 DEF IInv, Types, Windows, WindowsBounded, PassedTypes, RequestTypes, Passed, Clocks
  <2>2. ASSUME NEW q \in P
        PROVE  /\ IsFiniteSet(M(q)) /\ Cardinality(M(q)) \in Nat
               /\ q \in M(q) /\ M(q) \subseteq Passed(k)
               /\ \E o \in M(q) : now[o] = passed[q].window
               /\ \E m \in M(q) : Cardinality(M(q)) <= limit[m] /\ limit[m] \in Nat \ {0}
    <3>1. IsFiniteSet(M(q)) /\ Cardinality(M(q)) \in Nat
      BY <1>1, MembersFinite, FS_CardinalityType DEF IInv, Types
    <3>2. q \in M(q) /\ M(q) \subseteq Passed(k) /\ M(q) \subseteq DOMAIN passed
      BY <2>1 DEF Members, Counted, Passed
    <3>3. /\ \E o \in M(q) : now[o] = passed[q].window
          /\ \E m \in M(q) : Cardinality(M(q)) <= limit[m]
      BY <1>1, <2>1 DEF IInv, Windows, WindowsBounded
    <3>4. \A m \in DOMAIN passed : limit[m] \in Nat \ {0}
      BY <1>1 DEF IInv, Types, PassedTypes, RequestTypes
    <3> QED BY <3>1, <3>2, <3>3, <3>4
  <2>3. CASE \A q \in P : passed[q].window = passed[p].window
    <3>1. P \subseteq M(p)
      BY <2>1, <2>3 DEF Members, Counted
    <3>2. Cardinality(P) \in Nat /\ Cardinality(P) <= Cardinality(M(p))
      BY <2>2, <3>1, FS_Subset, FS_CardinalityType
    <3>3. PICK m \in M(p) : Cardinality(M(p)) <= limit[m] /\ limit[m] \in Nat \ {0}
      BY <2>2
    <3>4. Cardinality(P) < 2 * limit[m] /\ m \in Passed(k)
      BY <2>2, <3>2, <3>3
    <3> QED BY <3>4
  <2>4. CASE \E q \in P : passed[q].window # passed[p].window
    <3>1. PICK lo \in P, hi \in P : passed[lo].window + Window <= passed[hi].window
      BY <1>1, <2>1, <2>4 DEF IInv, Windows, WindowsApart
    <3>2. ASSUME NEW q \in P
          PROVE  passed[q].window = passed[lo].window \/ passed[q].window = passed[hi].window
      <4>1. \/ passed[q].window = passed[lo].window
            \/ passed[q].window + Window <= passed[lo].window
            \/ passed[lo].window + Window <= passed[q].window
        BY <1>1, <2>1 DEF IInv, Windows, WindowsApart
      <4>2. \/ passed[q].window = passed[hi].window
            \/ passed[q].window + Window <= passed[hi].window
            \/ passed[hi].window + Window <= passed[q].window
        BY <1>1, <2>1 DEF IInv, Windows, WindowsApart
      <4> QED BY <2>1, <3>1, <4>1, <4>2
    <3>3. PICK o \in M(lo) : now[o] = passed[lo].window
      BY <2>2
    <3>4. o \notin P
      BY <2>1, <3>1, <3>3
    <3> DEFINE first == M(lo) \ {o}
    <3>5. P \subseteq first \union M(hi)
      BY <2>1, <3>2, <3>4 DEF Members, Counted
    <3>6. /\ IsFiniteSet(first) /\ Cardinality(first) \in Nat
          /\ Cardinality(first) = Cardinality(M(lo)) - 1
      BY <2>2, <3>3, FS_RemoveElement, FS_CardinalityType
    <3>7. /\ IsFiniteSet(first \union M(hi)) /\ Cardinality(first \union M(hi)) \in Nat
          /\ Cardinality(first \union M(hi)) <= Cardinality(first) + Cardinality(M(hi))
      <4>1. IsFiniteSet(first) /\ IsFiniteSet(M(hi))
        BY <2>2, <3>6
      <4>2. /\ IsFiniteSet(first \union M(hi)) /\ IsFiniteSet(first \cap M(hi))
            /\ Cardinality(first \union M(hi)) =
                 Cardinality(first) + Cardinality(M(hi)) - Cardinality(first \cap M(hi))
        BY <4>1, FS_Union, FS_Intersection
      <4> HIDE DEF first, M
      <4> QED BY <4>1, <4>2, FS_CardinalityType
    <3>8. Cardinality(P) \in Nat /\ Cardinality(P) <= Cardinality(first \union M(hi))
      BY <3>5, <3>7, FS_Subset, FS_CardinalityType
    <3>9. PICK m \in M(lo) : Cardinality(M(lo)) <= limit[m] /\ limit[m] \in Nat \ {0}
      BY <2>2
    <3>10. PICK n \in M(hi) : Cardinality(M(hi)) <= limit[n] /\ limit[n] \in Nat \ {0}
      BY <2>2
    <3>11. /\ m \in Passed(k) /\ n \in Passed(k)
           /\ Cardinality(M(lo)) \in Nat /\ Cardinality(M(hi)) \in Nat
      BY <2>2
    <3> HIDE DEF first, M
    <3>12. Cardinality(P) < limit[m] + limit[n]
      BY <3>6, <3>7, <3>8, <3>9, <3>10, <3>11
    <3>13. Cardinality(P) < 2 * limit[n] \/ Cardinality(P) < 2 * limit[m]
      BY <3>8, <3>9, <3>10, <3>12
    <3> QED BY <3>11, <3>13
  <2> QED BY <2>3, <2>4
<1> QED BY Invariant, <1>1, PTL

(* Whoever is refused finds as many as its limit in the window it falls in,
   all of them let through less than a window before it read the clock.      *)
THEOREM RefusalHasCause == Spec => RefusedForCause
<1>1. ASSUME IInv, [Next]_vars, NEW r \in Requests, pc[r] = "read", pc'[r] = "refused"
      PROVE  limit[r] <= Cardinality({q \in Passed(key[r]) :
                                          /\ passed[q].boot = boots
                                          /\ now[r] < passed[q].at + Window})
  <2>0. Types /\ Windows
    BY <1>1 DEF IInv
  <2> DEFINE M == Members(key[r], boots, State(r).started)
             Recent == {q \in Passed(key[r]) :
                            passed[q].boot = boots /\ now[r] < passed[q].at + Window}
  <2>1. AllowRate(r)
    <3>1. ASSUME NEW q \in Requests, RequestStep(q) PROVE AllowRate(r)
      BY <1>1, <2>0, <3>1 DEF RequestStep, ResolveAPIKey, Uncounted, ReadClock, AllowRate,
                             Return, Types, RequestTypes
    <3>2. CASE AdminStep \/ Tick \/ UNCHANGED vars
      BY <1>1, <3>2 DEF AdminStep, BeginCreate, InsertKey, UpdateAPIKey, ResetAPIKey,
           DeleteAPIKey, SetSubscriptionEnabled, DeleteSubscription, Tick, requestVars, vars
    <3>3. CASE Restart
      BY <1>1, <3>3 DEF Restart
    <3> QED BY <1>1, <3>1, <3>2, <3>3 DEF Next
  <2>2. ~Allowed(r)
    BY <1>1, <2>0, <2>1 DEF AllowRate, Types, RequestTypes
  <2>3. /\ State(r) \in [started : 0..clock, count : Nat] /\ limit[r] \in Limits
        /\ now[r] < State(r).started + Window
    BY <2>0, <2>1, CountedStep, Zenon
  <2>4. limit[r] <= Cardinality(M)
    <3>1. State(r).count = Cardinality(M)
      BY <2>0, <2>1, JoinsWindow, Zenon
    <3>2. State(r).count \in Nat /\ limit[r] \in Nat
      BY <2>3
    <3>3. ~(State(r).count < limit[r])
      BY <2>2 DEF Allowed
    <3> QED BY <3>1, <3>2, <3>3
  <2>5. M \subseteq Recent
    <3> SUFFICES ASSUME NEW q \in M PROVE q \in Recent
      OBVIOUS
    <3>1. /\ q \in Passed(key[r]) /\ q \in DOMAIN passed /\ passed[q].boot = boots
          /\ passed[q].window = State(r).started
      BY DEF Members, Counted, Passed
    <3>2. passed[q].window <= passed[q].at
      BY <2>0, <3>1 DEF Windows, WindowsBounded
    <3>3. now[r] \in Nat /\ passed[q].at \in Nat /\ passed[q].window \in Nat
      BY <2>0, <3>1 DEF Types, RequestTypes, PassedTypes, Clocks
    <3> QED BY <2>3, <3>1, <3>2, <3>3
  <2>6. IsFiniteSet(Recent)
    <3>1. Recent \subseteq Requests
      BY <2>0 DEF Passed, Types, PassedTypes
    <3> QED BY <3>1, RequestsAssumption, FS_Subset
  <2>7. Cardinality(M) <= Cardinality(Recent) /\ Cardinality(M) \in Nat
        /\ Cardinality(Recent) \in Nat
    BY <2>5, <2>6, FS_Subset, FS_CardinalityType
  <2>8. limit[r] \in Nat
    BY <2>3
  <2> HIDE DEF M, Recent
  <2>9. limit[r] <= Cardinality(Recent)
    BY <2>4, <2>7, <2>8
  <2> QED BY <2>9 DEF Recent
<1>2. IInv /\ [Next]_vars
        => [\A r \in Requests : pc[r] = "read" /\ pc'[r] = "refused" =>
                limit[r] <= Cardinality({q \in Passed(key[r]) :
                                            /\ passed[q].boot = boots
                                            /\ now[r] < passed[q].at + Window})]_vars
  BY <1>1
<1> QED BY Invariant, <1>2, PTL DEF Spec, RefusedForCause

(* The comparison of texts lets no key in after the second it expires in. *)
LEMMA TextsInOrder ==
    ASSUME NEW e \in Nat, NEW c \in Nat, Text(e) > Text(c)
    PROVE  Second(c) <= Second(e)
BY DEF Text, Second

(* A request is let in by a key in its time, to the second. *)
THEOREM ExpiryHonoured == Spec => ExpiryToTheSecond
<1>1. ASSUME IInv, [Next]_vars, NEW r \in Requests, pc[r] = "start", pc'[r] = "resolved",
             key'[r] \in DOMAIN keys
      PROVE  LET expires == keys[key'[r]].expires
             IN  expires = Never \/ Second(clock) <= Second(expires)
  <2> USE DEF IInv, Types, RequestTypes
  <2>1. ResolveAPIKey(r)
    <3>1. ASSUME NEW q \in Requests, RequestStep(q) PROVE ResolveAPIKey(r)
      BY <1>1, <3>1 DEF RequestStep, ResolveAPIKey, Uncounted, ReadClock, AllowRate, Return
    <3>2. CASE AdminStep \/ Tick \/ UNCHANGED vars
      BY <1>1, <3>2 DEF AdminStep, BeginCreate, InsertKey, UpdateAPIKey, ResetAPIKey,
           DeleteAPIKey, SetSubscriptionEnabled, DeleteSubscription, Tick, requestVars, vars
    <3>3. CASE Restart
      BY <1>1, <3>3 DEF Restart
    <3> QED BY <1>1, <3>1, <3>2, <3>3 DEF Next
  <2>2. PICK k \in DOMAIN keys, hash \in 0..MaxEdits : InForce(k, hash) /\ key'[r] = k
    BY <1>1, <2>1 DEF ResolveAPIKey, Return
  <2>3. keys[k].expires \in Expiries \union {Never} /\ clock \in Nat
    BY <1>1 DEF KeyRows, Row, Clocks
  <2>4. CASE Text(keys[k].expires) > Text(clock) /\ keys[k].expires \in Expiries
    <3>1. \A e \in Expiries : e \in Nat
      BY ExpiriesAssumption
    <3>2. keys[k].expires \in Nat
      BY <2>4, <3>1
    <3> QED BY <2>2, <2>3, <2>4, <3>2, TextsInOrder
  <2> QED BY <2>2, <2>3, <2>4 DEF InForce
<1>2. IInv /\ [Next]_vars
        => [\A r \in Requests :
              pc[r] = "start" /\ pc'[r] = "resolved" /\ key'[r] \in DOMAIN keys =>
                LET expires == keys[key'[r]].expires
                IN  expires = Never \/ Second(clock) <= Second(expires)]_vars
  BY <1>1
<1> QED BY Invariant, <1>2, PTL DEF Spec, ExpiryToTheSecond

-----------------------------------------------------------------------------
(* The administration of users *)

(* Until two changes overlap, the one that is under way may rely on what it
   has read: the target still exists, and if the write takes an admin away
   then another one was counted.                                             *)
Alone ==
    /\ \A h, k \in Busy : h = k
    /\ \A h \in Busy :
        /\ users[target[h]] # NoUser
        /\ stage[h] = "write" =>
              ~Removes(op[h], users[target[h]]) \/ EnabledAdmins \ {target[h]} # {}

UserTypes ==
    /\ users \in [Users -> Records \union {NoUser}]
    /\ stage \in [Handlers -> {"idle", "read", "count", "write"}]
    /\ target \in [Handlers -> Users]
    /\ op \in [Handlers -> UpdateOps \union {DeleteOp}]
    /\ overlapped \in BOOLEAN

UsersInv == UserTypes /\ (overlapped \/ (SomeAdminRemains /\ Alone))

USE RootAssumption

LEMMA InitUsersInv == UsersInit => UsersInv
BY DEF UsersInit, UsersInv, UserTypes, SomeAdminRemains, Alone, Busy

LEMMA NextUsersInv == UsersInv /\ [UsersNext]_userVars => UsersInv'
<1> SUFFICES ASSUME UsersInv, [UsersNext]_userVars PROVE UsersInv'
  OBVIOUS
<1> USE DEF UsersInv, UserTypes
<1>1. ASSUME NEW h \in Handlers, NEW a \in Users, NEW t \in Users,
             NEW o \in UpdateOps \union {DeleteOp}, Authorize(h, a, t, o)
      PROVE  UsersInv'
  BY <1>1 DEF Authorize, SomeAdminRemains, Alone, Busy, EnabledAdmins
<1>2. ASSUME NEW a \in Users, NEW t \in Users, NEW role \in Roles, CreateUser(a, t, role)
      PROVE  UsersInv'
  BY <1>2 DEF CreateUser, SomeAdminRemains, Alone, Busy, EnabledAdmins, Records, NoUser, Roles
<1>3. ASSUME NEW h \in Handlers, ReadTarget(h) PROVE UsersInv'
  BY <1>3 DEF ReadTarget, SomeAdminRemains, Alone, Busy, EnabledAdmins
<1>4. ASSUME NEW h \in Handlers, CountAdmins(h) PROVE UsersInv'
  BY <1>4 DEF CountAdmins, SomeAdminRemains, Alone, Busy, EnabledAdmins
<1>5. ASSUME NEW h \in Handlers, Write(h) PROVE UsersInv'
  <2>1. UserTypes'
    BY <1>5 DEF Write, UpdateOps, DeleteOp, Records, NoUser
  <2>2. ASSUME ~overlapped PROVE SomeAdminRemains' /\ Alone'
    <3>1. Busy = {h} /\ Busy' = {}
      BY <1>5, <2>2 DEF Write, Alone, Busy
    <3>2. CASE EnabledAdmins \ {target[h]} # {}
      <4>1. PICK u \in EnabledAdmins : u # target[h]
        BY <3>2
      <4>2. u \in EnabledAdmins'
        BY <1>5, <4>1 DEF Write, EnabledAdmins
      <4> QED BY <3>1, <4>2 DEF SomeAdminRemains, Alone
    <3>3. CASE ~Removes(op[h], users[target[h]])
      <4>1. PICK u \in Users : users[u] = [role |-> "admin", enabled |-> TRUE]
        BY <2>2 DEF SomeAdminRemains, EnabledAdmins
      <4>2. CASE u # target[h]
        <5>1. u \in EnabledAdmins'
          BY <1>5, <4>1, <4>2 DEF Write, EnabledAdmins
        <5> QED BY <3>1, <5>1 DEF SomeAdminRemains, Alone
      <4>3. CASE u = target[h]
        <5>1. op[h].kind # "delete" /\ op[h].to.role = "admin" /\ op[h].to.enabled
          BY <3>3, <4>1, <4>3 DEF Removes
        <5>2. op[h] \in UpdateOps
          BY <5>1 DEF DeleteOp
        <5>3. op[h].to = [role |-> "admin", enabled |-> TRUE]
          BY <5>1, <5>2 DEF UpdateOps, Records
        <5>4. u \in EnabledAdmins'
          BY <1>5, <4>1, <4>3, <5>3 DEF Write, EnabledAdmins, NoUser
        <5> QED BY <3>1, <5>4 DEF SomeAdminRemains, Alone
      <4> QED BY <4>2, <4>3
    <3> QED BY <1>5, <2>2, <3>1, <3>2, <3>3 DEF Write, Alone, Busy
  <2> QED BY <1>5, <2>1, <2>2 DEF Write
<1>6. CASE RestartServer
  BY <1>6 DEF RestartServer, SomeAdminRemains, Alone, Busy, EnabledAdmins, Records, Roles, NoUser
<1>7. CASE UNCHANGED userVars
  BY <1>7 DEF userVars, SomeAdminRemains, Alone, Busy, EnabledAdmins
<1> QED BY <1>1, <1>2, <1>3, <1>4, <1>5, <1>6, <1>7 DEF UsersNext

OpsInBound == ops \in 0..MaxOps

LEMMA NextOps == OpsInBound /\ [UsersNext]_userVars => OpsInBound'
<1> SUFFICES ASSUME OpsInBound, [UsersNext]_userVars, ops' # ops PROVE OpsInBound'
  BY DEF OpsInBound
<1>1. ops' = ops + 1 /\ ops < MaxOps
  BY DEF UsersNext, userVars, Authorize, CreateUser, ReadTarget, CountAdmins, Write, RestartServer
<1> QED BY <1>1, OpsAssumption DEF OpsInBound

(* Every user is absent or has a role, and every handler is somewhere in
   between its statements.                                                   *)
THEOREM UsersTypeCorrect == UsersSpec => []UsersTypeOK
<1>1. UsersInit => OpsInBound
  BY OpsAssumption DEF UsersInit, OpsInBound
<1>2. UsersInv /\ OpsInBound => UsersTypeOK
  BY DEF UsersInv, UserTypes, OpsInBound, UsersTypeOK
<1> QED BY InitUsersInv, NextUsersInv, NextOps, <1>1, <1>2, PTL DEF UsersSpec

(* The last enabled admin is safe unless two changes overlap. *)
THEOREM LastAdminSafe == UsersSpec => []SafeUnlessOverlapped
<1>1. UsersInv => SafeUnlessOverlapped
  BY DEF UsersInv, SafeUnlessOverlapped
<1> QED BY InitUsersInv, NextUsersInv, <1>1, PTL DEF UsersSpec
=============================================================================
