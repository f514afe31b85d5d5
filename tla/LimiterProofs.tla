--------------------------- MODULE LimiterProofs ---------------------------
(***************************************************************************)
(* Proofs about Limiter, for every set of accounts, admins, channels and   *)
(* limits, any number of admin writes, and every finite set of requests.   *)
(***************************************************************************)
EXTENDS Limiter, FiniteSetTheorems, WellFoundedInduction, TLAPS

(* What the steps of a request may rely on: it knows its account and its
   snapshot once its key is resolved, a channel it has been given was made
   with the snapshot as its limit, and an entry it is about to replace, like
   every installed one, is a channel that was made.                          *)
ChannelsMade ==
    /\ \A r \in Requests :
        /\ pc[r] # "start" => acct[r] \in Accounts /\ snap[r] \in Limits
        /\ pc[r] \in {"acquire", "waiting", "holding"} =>
              chan[r] \in Channels /\ capacity[chan[r]] = snap[r]
        /\ pc[r] = "replace" => chan[r] \in Channels /\ capacity[chan[r]] # 0
    /\ \A a \in Accounts :
        limiters[a] # NoChannel => capacity[limiters[a]] # 0
    /\ \A m \in Admins :
        adminPc[m] # "idle" => target[m] \in Accounts

Inv == TypeOK /\ ChannelsMade

USE LimitsAssumption, RequestsAssumption, MaxWritesAssumption, NilAssumption

LEMMA InitInv == Init => Inv
BY DEF Init, Inv, TypeOK, ChannelsMade, NoRow, Ended

(* Install makes a channel out of an identity nobody has used. *)
LEMMA InstallFresh ==
    ASSUME NEW r \in Requests, NEW a \in Accounts, Install(r, a)
    PROVE  \E c \in Channels :
              /\ capacity[c] = 0
              /\ capacity' = [capacity EXCEPT ![c] = snap[r]]
              /\ limiters' = [limiters EXCEPT ![a] = c]
              /\ chan' = [chan EXCEPT ![r] = c]
              /\ pc' = [pc EXCEPT ![r] = "acquire"]
<1> DEFINE c == CHOOSE u \in Unused : TRUE
<1>1. c \in Unused
  BY DEF Install
<1>2. c \in Channels /\ capacity[c] = 0
  BY <1>1 DEF Unused
<1> QED BY <1>2 DEF Install

LEMMA InstallInv ==
    ASSUME Inv, NEW r \in Requests, pc[r] # "start", Install(r, acct[r]),
           UNCHANGED <<row, used, acct, snap, adminVars, writes, resets, seen>>
    PROVE  Inv'
<1> USE DEF Inv, TypeOK, ChannelsMade, NoRow, Ended, adminVars
<1>1. PICK c \in Channels :
          /\ capacity[c] = 0
          /\ capacity' = [capacity EXCEPT ![c] = snap[r]]
          /\ limiters' = [limiters EXCEPT ![acct[r]] = c]
          /\ chan' = [chan EXCEPT ![r] = c]
          /\ pc' = [pc EXCEPT ![r] = "acquire"]
  BY InstallFresh
<1>2. snap[r] \in Limits /\ snap[r] # 0
  OBVIOUS
<1>3. TypeOK'
  BY <1>1, <1>2
<1>4. ChannelsMade'
  <2>1. ASSUME NEW q \in Requests
        PROVE  /\ pc'[q] # "start" => acct'[q] \in Accounts /\ snap'[q] \in Limits
               /\ pc'[q] \in {"acquire", "waiting", "holding"} =>
                     chan'[q] \in Channels /\ capacity'[chan'[q]] = snap'[q]
               /\ pc'[q] = "replace" => chan'[q] \in Channels /\ capacity'[chan'[q]] # 0
    <3>1. CASE q = r
      BY <1>1, <1>2, <3>1
    <3>2. CASE q # r
      BY <1>1, <1>2, <3>2
    <3> QED BY <3>1, <3>2
  <2>2. ASSUME NEW b \in Accounts, limiters'[b] # NoChannel
        PROVE  capacity'[limiters'[b]] # 0
    BY <1>1, <1>2, <2>2
  <2> QED BY <2>1, <2>2
<1> QED BY <1>3, <1>4

LEMMA NextInv == Inv /\ [Next]_vars => Inv'
<1> SUFFICES ASSUME Inv, [Next]_vars PROVE Inv'
  OBVIOUS
<1> USE DEF Inv, TypeOK, ChannelsMade, NoRow, Ended, reqVars, adminVars
<1>1. ASSUME NEW r \in Requests, LoadOrStore(r) PROVE Inv'
  <2>1. CASE limiters[acct[r]] = NoChannel /\ Install(r, acct[r])
    BY <1>1, <2>1, InstallInv DEF LoadOrStore
  <2>2. CASE limiters[acct[r]] # NoChannel
    BY <1>1, <2>2 DEF LoadOrStore
  <2> QED BY <1>1, <2>1, <2>2 DEF LoadOrStore
<1>2. ASSUME NEW r \in Requests, CompareAndSwap(r) PROVE Inv'
  <2>1. CASE limiters[acct[r]] = chan[r] /\ Install(r, acct[r])
    BY <1>2, <2>1, InstallInv DEF CompareAndSwap
  <2>2. CASE limiters[acct[r]] # chan[r]
    BY <1>2, <2>2 DEF CompareAndSwap
  <2> QED BY <1>2, <2>1, <2>2 DEF CompareAndSwap
<1>3. ASSUME NEW r \in Requests, TryAcquire(r) PROVE Inv'
  BY <1>3 DEF TryAcquire, TakeSlot
<1>4. ASSUME NEW r \in Requests, Admit(r) PROVE Inv'
  BY <1>4 DEF Admit, TakeSlot
<1>5. ASSUME NEW r \in Requests, LeaveQueue(r) PROVE Inv'
  BY <1>5 DEF LeaveQueue
<1>6. ASSUME NEW r \in Requests, Release(r) PROVE Inv'
  BY <1>6 DEF Release
<1>7. ASSUME NEW r \in Requests, NEW a \in Accounts, ResolveAPIKey(r, a) PROVE Inv'
  BY <1>7 DEF ResolveAPIKey
<1>8. ASSUME NEW m \in Admins, NEW a \in Accounts, NEW l \in Limits, UpdateRow(m, a, l)
      PROVE Inv'
  BY <1>8 DEF UpdateRow
<1>9. ASSUME NEW m \in Admins, NEW a \in Accounts, DeleteRow(m, a) PROVE Inv'
  BY <1>9 DEF DeleteRow
<1>10. ASSUME NEW m \in Admins, RejectCredentials(m) PROVE Inv'
  BY <1>10 DEF RejectCredentials
<1>11. ASSUME NEW m \in Admins, ResetLimiter(m) PROVE Inv'
  BY <1>11 DEF ResetLimiter
<1>12. CASE UNCHANGED vars
  BY <1>12 DEF vars
<1> QED
  BY <1>1, <1>2, <1>3, <1>4, <1>5, <1>6, <1>7, <1>8, <1>9, <1>10, <1>11, <1>12
  DEF Next, RequestStep

(* Type correctness. *)
THEOREM TypeCorrect == Spec => []TypeOK
<1>1. Inv => TypeOK
  BY DEF Inv
<1> QED BY InitInv, NextInv, <1>1, PTL DEF Spec

-----------------------------------------------------------------------------
(* Capacities and slot counts are numbers. *)
LEMMA SlotNumbers ==
    ASSUME TypeOK
    PROVE  \A c \in Channels : used[c] \in Nat /\ capacity[c] \in Nat
<1> SUFFICES ASSUME NEW c \in Channels PROVE used[c] \in Nat /\ capacity[c] \in Nat
  OBVIOUS
<1>1. capacity[c] \in Limits \union {0} /\ used[c] \in Nat
  BY DEF TypeOK
<1>2. Limits \union {0} \subseteq Nat
  OBVIOUS
<1> QED BY <1>1, <1>2

LEMMA SlotNumbersPrime ==
    ASSUME TypeOK'
    PROVE  \A c \in Channels : capacity'[c] \in Nat
<1> SUFFICES ASSUME NEW c \in Channels PROVE capacity'[c] \in Nat
  OBVIOUS
<1>1. capacity'[c] \in Limits \union {0}
  BY DEF TypeOK
<1>2. Limits \union {0} \subseteq Nat
  OBVIOUS
<1> QED BY <1>1, <1>2

(* A step that takes no slot and returns none leaves the holders of every
   channel alone.                                                            *)
LEMMA HoldersUnchanged ==
    ASSUME UNCHANGED used,
           \A q \in Requests : pc'[q] = "holding" <=> pc[q] = "holding",
           \A q \in Requests : pc[q] = "holding" => chan'[q] = chan[q],
           SlotsMatchHolders,
           \A c \in Channels : capacity[c] <= capacity'[c],
           TypeOK, TypeOK'
    PROVE  SlotsMatchHolders'
<1> SUFFICES ASSUME NEW c \in Channels
             PROVE  used'[c] = Cardinality(Holders(c)') /\ used'[c] <= capacity'[c]
  BY DEF SlotsMatchHolders
<1>1. Holders(c)' = Holders(c)
  BY DEF Holders
<1>2. used[c] \in Nat /\ capacity[c] \in Nat /\ capacity'[c] \in Nat
  BY SlotNumbers, SlotNumbersPrime
<1>3. used[c] = Cardinality(Holders(c)) /\ used[c] <= capacity[c]
  BY DEF SlotsMatchHolders
<1>4. capacity[c] <= capacity'[c] /\ used'[c] = used[c]
  OBVIOUS
<1> QED BY <1>1, <1>2, <1>3, <1>4

(* TakeSlot adds the request to the holders of its channel. *)
LEMMA TakeSlotHolders ==
    ASSUME Inv, SlotsMatchHolders, NEW r \in Requests, TakeSlot(r),
           pc[r] \in {"acquire", "waiting"}, UNCHANGED <<chan, capacity>>
    PROVE  SlotsMatchHolders'
<1> SUFFICES ASSUME NEW c \in Channels
             PROVE  used'[c] = Cardinality(Holders(c)') /\ used'[c] <= capacity'[c]
  BY DEF SlotsMatchHolders
<1> USE DEF Inv, TypeOK, ChannelsMade, Ended
<1>1. IsFiniteSet(Holders(c)) /\ r \notin Holders(c)
  BY FS_Subset DEF Holders
<1>2. used[c] \in Nat /\ capacity[c] \in Nat
  BY SlotNumbers
<1>3. CASE c = chan[r]
  <2>1. Holders(c)' = Holders(c) \cup {r}
    BY <1>3 DEF Holders, TakeSlot
  <2>2. Cardinality(Holders(c)') = Cardinality(Holders(c)) + 1
    BY <2>1, <1>1, FS_AddElement
  <2>3. used'[c] = used[c] + 1 /\ used[c] < capacity[c]
    BY <1>3 DEF TakeSlot
  <2> QED BY <1>2, <2>2, <2>3 DEF SlotsMatchHolders
<1>4. CASE c # chan[r]
  <2>1. Holders(c)' = Holders(c)
    BY <1>4 DEF Holders, TakeSlot
  <2>2. used'[c] = used[c]
    BY <1>4 DEF TakeSlot
  <2> QED BY <2>1, <2>2 DEF SlotsMatchHolders
<1> QED BY <1>3, <1>4

LEMMA ReleaseHolders ==
    ASSUME Inv, SlotsMatchHolders, NEW r \in Requests, Release(r)
    PROVE  SlotsMatchHolders'
<1> SUFFICES ASSUME NEW c \in Channels
             PROVE  used'[c] = Cardinality(Holders(c)') /\ used'[c] <= capacity'[c]
  BY DEF SlotsMatchHolders
<1> USE DEF Inv, TypeOK, ChannelsMade, Ended
<1>1. IsFiniteSet(Holders(c))
  BY FS_Subset DEF Holders
<1>2. used[c] \in Nat /\ capacity[c] \in Nat
  BY SlotNumbers
<1>3. CASE c = chan[r]
  <2>1. Holders(c)' = Holders(c) \ {r} /\ r \in Holders(c)
    BY <1>3 DEF Holders, Release
  <2>2. Cardinality(Holders(c)') = Cardinality(Holders(c)) - 1
    BY <2>1, <1>1, FS_RemoveElement
  <2>3. used'[c] = used[c] - 1 /\ used[c] > 0
    BY <1>3 DEF Release
  <2> QED BY <1>2, <2>2, <2>3 DEF SlotsMatchHolders, Release
<1>4. CASE c # chan[r]
  <2>1. Holders(c)' = Holders(c)
    BY <1>4 DEF Holders, Release
  <2>2. used'[c] = used[c]
    BY <1>4 DEF Release
  <2> QED BY <2>1, <2>2 DEF SlotsMatchHolders, Release
<1> QED BY <1>3, <1>4

LEMMA InitSlots == Init => SlotsMatchHolders
<1> SUFFICES ASSUME Init, NEW c \in Channels
             PROVE  used[c] = Cardinality(Holders(c)) /\ used[c] <= capacity[c]
  BY DEF SlotsMatchHolders
<1>1. Holders(c) = {}
  BY DEF Init, Holders
<1> QED BY <1>1, FS_EmptySet DEF Init

LEMMA NextSlots == Inv /\ SlotsMatchHolders /\ [Next]_vars => SlotsMatchHolders'
<1> SUFFICES ASSUME Inv, SlotsMatchHolders, [Next]_vars PROVE SlotsMatchHolders'
  OBVIOUS
<1>0. TypeOK /\ TypeOK'
  BY NextInv DEF Inv
<1>1. ASSUME NEW r \in Requests, TakeSlot(r), pc[r] \in {"acquire", "waiting"},
             UNCHANGED <<chan, capacity>>
      PROVE  SlotsMatchHolders'
  BY <1>1, TakeSlotHolders
<1>2. ASSUME NEW r \in Requests, Release(r) PROVE SlotsMatchHolders'
  BY <1>2, ReleaseHolders
<1>3. ASSUME NEW r \in Requests, LoadOrStore(r) \/ CompareAndSwap(r),
             Install(r, acct[r])
      PROVE  SlotsMatchHolders'
  <2>1. PICK c \in Channels :
            /\ capacity[c] = 0
            /\ capacity' = [capacity EXCEPT ![c] = snap[r]]
            /\ limiters' = [limiters EXCEPT ![acct[r]] = c]
            /\ chan' = [chan EXCEPT ![r] = c]
            /\ pc' = [pc EXCEPT ![r] = "acquire"]
    BY <1>3, InstallFresh DEF LoadOrStore, CompareAndSwap, Inv, ChannelsMade
  <2>2. UNCHANGED used /\ pc[r] \in {"resolved", "replace"}
    BY <1>3 DEF LoadOrStore, CompareAndSwap
  <2>3. \A d \in Channels : capacity[d] <= capacity'[d]
    <3> SUFFICES ASSUME NEW d \in Channels PROVE capacity[d] <= capacity'[d]
      OBVIOUS
    <3>1. capacity[d] \in Nat /\ capacity'[d] \in Nat
      BY <1>0, SlotNumbers, SlotNumbersPrime
    <3>2. capacity'[d] = capacity[d] \/ capacity[d] = 0
      BY <1>0, <2>1 DEF TypeOK
    <3> QED BY <3>1, <3>2
  <2>4. \A q \in Requests : (pc'[q] = "holding" <=> pc[q] = "holding")
                            /\ (pc[q] = "holding" => chan'[q] = chan[q])
    BY <1>0, <2>1, <2>2 DEF TypeOK
  <2> QED BY <1>0, <2>2, <2>3, <2>4, HoldersUnchanged
<1>4. ASSUME UNCHANGED <<capacity, used>>,
             \A q \in Requests : pc'[q] = "holding" <=> pc[q] = "holding",
             \A q \in Requests : pc[q] = "holding" => chan'[q] = chan[q]
      PROVE  SlotsMatchHolders'
  <2>1. \A c \in Channels : capacity[c] <= capacity'[c]
    BY <1>0, <1>4, SlotNumbers
  <2> QED BY <1>0, <1>4, <2>1, HoldersUnchanged
<1>5. ASSUME NEW r \in Requests PROVE LoadOrStore(r) => SlotsMatchHolders'
  <2> SUFFICES ASSUME LoadOrStore(r), ~Install(r, acct[r]) PROVE SlotsMatchHolders'
    BY <1>3
  <2> QED BY <1>4, <1>0 DEF LoadOrStore, TypeOK
<1>6. ASSUME NEW r \in Requests PROVE CompareAndSwap(r) => SlotsMatchHolders'
  <2> SUFFICES ASSUME CompareAndSwap(r), ~Install(r, acct[r]) PROVE SlotsMatchHolders'
    BY <1>3
  <2> QED BY <1>4, <1>0 DEF CompareAndSwap, TypeOK
<1>7. ASSUME NEW r \in Requests PROVE TryAcquire(r) \/ Admit(r) => SlotsMatchHolders'
  BY <1>0, <1>1, <1>4 DEF TryAcquire, Admit, TypeOK
<1>8. ASSUME NEW r \in Requests PROVE LeaveQueue(r) => SlotsMatchHolders'
  BY <1>0, <1>4 DEF LeaveQueue, TypeOK
<1>9. ASSUME NEW r \in Requests, NEW a \in Accounts
      PROVE  ResolveAPIKey(r, a) => SlotsMatchHolders'
  BY <1>0, <1>4 DEF ResolveAPIKey, TypeOK
<1>10. ASSUME NEW m \in Admins
       PROVE  /\ \A a \in Accounts, l \in Limits : UpdateRow(m, a, l) => SlotsMatchHolders'
              /\ \A a \in Accounts : DeleteRow(m, a) => SlotsMatchHolders'
              /\ RejectCredentials(m) \/ ResetLimiter(m) => SlotsMatchHolders'
  BY <1>4 DEF UpdateRow, DeleteRow, RejectCredentials, ResetLimiter, reqVars
<1>11. CASE UNCHANGED vars
  BY <1>4, <1>11 DEF vars, reqVars
<1> QED
  BY <1>2, <1>5, <1>6, <1>7, <1>8, <1>9, <1>10, <1>11 DEF Next, RequestStep

(* No slot is lost, overbooked or returned to another channel. *)
THEOREM SlotsAccounted == Spec => []SlotsMatchHolders
<1>1. Init => Inv /\ SlotsMatchHolders
  BY InitInv, InitSlots
<1>2. Inv /\ SlotsMatchHolders /\ [Next]_vars => Inv' /\ SlotsMatchHolders'
  BY NextInv, NextSlots
<1> QED BY <1>1, <1>2, PTL DEF Spec

-----------------------------------------------------------------------------
(* While the settings of an account are untouched, all its requests carry the
   same snapshot, hence none of them replaces the entry and all of them use
   the one channel that is installed.                                        *)
Quiet(a, l) == seen[a] = {l} /\ resets[a] = 0

SnapshotsSeen ==
    /\ \A a \in Accounts : row[a] \in seen[a] \union {NoRow}
    /\ \A r \in Requests : pc[r] # "start" => snap[r] \in seen[acct[r]]

QuietChannel(a, l) ==
    /\ limiters[a] # NoChannel => capacity[limiters[a]] = l
    /\ \A r \in Requests : acct[r] = a =>
        /\ pc[r] # "replace"
        /\ pc[r] \in {"acquire", "waiting", "holding"} =>
              limiters[a] # NoChannel /\ chan[r] = limiters[a]

QuietInv == \A a \in Accounts, l \in Limits : Quiet(a, l) => QuietChannel(a, l)

LEMMA NextSeen == Inv /\ SnapshotsSeen /\ [Next]_vars => SnapshotsSeen'
<1> SUFFICES ASSUME Inv, SnapshotsSeen, [Next]_vars PROVE SnapshotsSeen'
  OBVIOUS
<1> USE DEF Inv, TypeOK, ChannelsMade, SnapshotsSeen, NoRow, reqVars
<1>1. ASSUME NEW r \in Requests, RequestStep(r) \/ Admit(r) \/ LeaveQueue(r)
      PROVE  SnapshotsSeen'
  BY <1>1 DEF RequestStep, LoadOrStore, CompareAndSwap, Install, TryAcquire, Admit,
              LeaveQueue, Release, TakeSlot
<1>2. ASSUME NEW r \in Requests, NEW a \in Accounts, ResolveAPIKey(r, a)
      PROVE  SnapshotsSeen'
  BY <1>2 DEF ResolveAPIKey
<1>3. ASSUME NEW m \in Admins, NEW a \in Accounts, NEW l \in Limits, UpdateRow(m, a, l)
      PROVE  SnapshotsSeen'
  BY <1>3 DEF UpdateRow
<1>4. ASSUME NEW m \in Admins, NEW a \in Accounts, DeleteRow(m, a)
      PROVE  SnapshotsSeen'
  BY <1>4 DEF DeleteRow
<1>5. ASSUME NEW m \in Admins, RejectCredentials(m) \/ ResetLimiter(m)
      PROVE  SnapshotsSeen'
  BY <1>5 DEF RejectCredentials, ResetLimiter
<1>6. CASE UNCHANGED vars
  BY <1>6 DEF vars
<1> QED BY <1>1, <1>2, <1>3, <1>4, <1>5, <1>6 DEF Next

LEMMA InitQuiet == Init => SnapshotsSeen /\ QuietInv
BY DEF Init, SnapshotsSeen, QuietInv, QuietChannel

LEMMA NextQuiet == Inv /\ SnapshotsSeen /\ QuietInv /\ [Next]_vars => QuietInv'
<1> SUFFICES ASSUME Inv, SnapshotsSeen, QuietInv, [Next]_vars,
                    NEW a \in Accounts, NEW l \in Limits, Quiet(a, l)'
             PROVE  QuietChannel(a, l)'
  BY DEF QuietInv
<1>0. Inv'
  BY NextInv
<1> USE DEF Inv, TypeOK, ChannelsMade, SnapshotsSeen, NoRow, reqVars, Quiet
<1>1. ASSUME NEW r \in Requests, LoadOrStore(r) PROVE QuietChannel(a, l)'
  <2>1. Quiet(a, l) /\ QuietChannel(a, l)
    BY <1>1 DEF LoadOrStore, QuietInv
  <2>2. CASE limiters[acct[r]] = NoChannel /\ Install(r, acct[r])
    <3>1. PICK c \in Channels :
              /\ capacity[c] = 0
              /\ capacity' = [capacity EXCEPT ![c] = snap[r]]
              /\ limiters' = [limiters EXCEPT ![acct[r]] = c]
              /\ chan' = [chan EXCEPT ![r] = c]
              /\ pc' = [pc EXCEPT ![r] = "acquire"]
      BY <1>1, <2>2, InstallFresh DEF LoadOrStore
    <3>2. acct[r] \in Accounts /\ snap[r] \in seen[acct[r]]
      BY <1>1 DEF LoadOrStore
    <3>3. CASE acct[r] = a
      BY <1>1, <2>1, <2>2, <3>1, <3>2, <3>3 DEF LoadOrStore, QuietChannel
    <3>4. CASE acct[r] # a
      BY <1>1, <2>1, <3>1, <3>2, <3>4 DEF LoadOrStore, QuietChannel
    <3> QED BY <3>3, <3>4
  <2>3. CASE limiters[acct[r]] # NoChannel
    BY <1>1, <2>1, <2>3 DEF LoadOrStore, QuietChannel
  <2> QED BY <1>1, <2>2, <2>3 DEF LoadOrStore
<1>2. ASSUME NEW r \in Requests, CompareAndSwap(r) PROVE QuietChannel(a, l)'
  <2>1. Quiet(a, l) /\ QuietChannel(a, l)
    BY <1>2 DEF CompareAndSwap, QuietInv
  <2>2. acct[r] # a /\ acct[r] \in Accounts
    BY <1>2, <2>1 DEF CompareAndSwap, QuietChannel
  <2>3. CASE Install(r, acct[r])
    <3>1. PICK c \in Channels :
              /\ capacity[c] = 0
              /\ capacity' = [capacity EXCEPT ![c] = snap[r]]
              /\ limiters' = [limiters EXCEPT ![acct[r]] = c]
              /\ chan' = [chan EXCEPT ![r] = c]
              /\ pc' = [pc EXCEPT ![r] = "acquire"]
      BY <1>2, <2>2, <2>3, InstallFresh
    <3> QED BY <1>2, <2>1, <2>2, <3>1 DEF CompareAndSwap, QuietChannel
  <2>4. CASE limiters[acct[r]] # chan[r]
    BY <1>2, <2>1, <2>2, <2>4 DEF CompareAndSwap, QuietChannel
  <2> QED BY <1>2, <2>3, <2>4 DEF CompareAndSwap
<1>3. ASSUME NEW r \in Requests,
             TryAcquire(r) \/ Release(r) \/ Admit(r) \/ LeaveQueue(r)
      PROVE  QuietChannel(a, l)'
  BY <1>3 DEF TryAcquire, Release, Admit, LeaveQueue, TakeSlot, QuietInv, QuietChannel
<1>4. ASSUME NEW r \in Requests, NEW b \in Accounts, ResolveAPIKey(r, b)
      PROVE  QuietChannel(a, l)'
  BY <1>4 DEF ResolveAPIKey, QuietInv, QuietChannel
<1>5. ASSUME NEW m \in Admins, NEW b \in Accounts, NEW k \in Limits, UpdateRow(m, b, k)
      PROVE  QuietChannel(a, l)'
  <2>1. Quiet(a, l)
    BY <1>5 DEF UpdateRow
  <2> QED BY <1>5, <2>1 DEF UpdateRow, QuietInv, QuietChannel
<1>6. ASSUME NEW m \in Admins, NEW b \in Accounts, DeleteRow(m, b)
      PROVE  QuietChannel(a, l)'
  BY <1>6 DEF DeleteRow, QuietInv, QuietChannel
<1>7. ASSUME NEW m \in Admins, RejectCredentials(m) \/ ResetLimiter(m)
      PROVE  QuietChannel(a, l)'
  BY <1>7 DEF RejectCredentials, ResetLimiter, QuietInv, QuietChannel
<1>8. CASE UNCHANGED vars
  BY <1>8 DEF vars, QuietInv, QuietChannel
<1> QED
  BY <1>1, <1>2, <1>3, <1>4, <1>5, <1>6, <1>7, <1>8 DEF Next, RequestStep

(* Racing requests that create the limiter of an account never exceed its
   limit while its settings are left alone.                                  *)
THEOREM QuietBound == Spec => []QuietAccountBound
<1> DEFINE IInv == Inv /\ SlotsMatchHolders /\ SnapshotsSeen /\ QuietInv
<1>1. Init => IInv
  BY InitInv, InitSlots, InitQuiet
<1>2. IInv /\ [Next]_vars => IInv'
  BY NextInv, NextSlots, NextSeen, NextQuiet
<1>3. IInv => QuietAccountBound
  <2> SUFFICES ASSUME IInv, NEW a \in Accounts, NEW l \in Limits, Quiet(a, l)
               PROVE  Cardinality(InFlight(a)) <= l
    BY DEF QuietAccountBound, Quiet
  <2>1. QuietChannel(a, l)
    BY DEF QuietInv
  <2>2. CASE limiters[a] = NoChannel
    <3>1. InFlight(a) = {}
      BY <2>1, <2>2 DEF QuietChannel, InFlight
    <3> QED BY <3>1, FS_EmptySet
  <2>3. CASE limiters[a] # NoChannel
    <3> DEFINE c == limiters[a]
    <3>1. c \in Channels /\ capacity[c] = l
      BY <2>1, <2>3 DEF QuietChannel, Inv, TypeOK
    <3>2. InFlight(a) \subseteq Holders(c) /\ IsFiniteSet(Holders(c))
      BY <2>1, FS_Subset DEF QuietChannel, InFlight, Holders
    <3>3. Cardinality(InFlight(a)) <= Cardinality(Holders(c))
      BY <3>2, FS_Subset
    <3>4. Cardinality(Holders(c)) = used[c] /\ used[c] <= l
      BY <3>1 DEF SlotsMatchHolders
    <3>5. Cardinality(InFlight(a)) \in Nat /\ used[c] \in Nat /\ l \in Nat
      BY <3>1, <3>2, FS_Subset, FS_CardinalityType, SlotNumbers DEF Inv
    <3> QED BY <3>3, <3>4, <3>5
  <2> QED BY <2>2, <2>3
<1> QED BY <1>1, <1>2, <1>3, PTL DEF Spec

-----------------------------------------------------------------------------
(* The limiter implements the semaphore. *)

LEMMA InitSemaphore == Init => Slots!Init
<1> SUFFICES ASSUME Init PROVE Slots!Init
  OBVIOUS
<1>1. \A a \in Accounts : InFlight(a) = {} /\ Cardinality(InFlight(a)) = 0
  BY FS_EmptySet DEF Init, InFlight
<1>2. row \in [Accounts -> Limits] /\ seen = [a \in Accounts |-> {row[a]}]
  BY DEF Init
<1> QED BY <1>1, <1>2 DEF Slots!Init, Init

(* A free slot of the channel of a quiet account is room under its limit. *)
LEMMA RoomForHolder ==
    ASSUME Inv, SlotsMatchHolders, QuietInv, NEW r \in Requests,
           pc[r] \in {"acquire", "waiting"}, used[chan[r]] < capacity[chan[r]],
           NEW l \in Limits, Quiet(acct[r], l)
    PROVE  Cardinality(InFlight(acct[r])) < l
<1> DEFINE a == acct[r]
           c == chan[r]
<1> USE DEF Inv, TypeOK, ChannelsMade, Ended
<1>1. a \in Accounts /\ c \in Channels
  OBVIOUS
<1>2. QuietChannel(a, l)
  BY <1>1 DEF QuietInv
<1>3. c = limiters[a] /\ capacity[c] = l
  BY <1>2 DEF QuietChannel
<1>4. InFlight(a) \subseteq Holders(c)
  BY <1>2, <1>3 DEF QuietChannel, InFlight, Holders
<1>5. IsFiniteSet(Holders(c))
  BY FS_Subset DEF Holders
<1>6. Cardinality(InFlight(a)) <= Cardinality(Holders(c)) /\ IsFiniteSet(InFlight(a))
  BY <1>4, <1>5, FS_Subset
<1>7. Cardinality(Holders(c)) = used[c]
  BY <1>1 DEF SlotsMatchHolders
<1>8. Cardinality(InFlight(a)) \in Nat /\ used[c] \in Nat /\ capacity[c] \in Nat
  BY <1>1, <1>6, FS_CardinalityType, SlotNumbers
<1> QED BY <1>3, <1>6, <1>7, <1>8

LEMMA InFlightFinite ==
    \A a \in Accounts : IsFiniteSet(InFlight(a)) /\ Cardinality(InFlight(a)) \in Nat
BY FS_Subset, FS_CardinalityType DEF InFlight

(* What the semaphore sees when one account's holders change. *)
LEMMA OneAccountMoves ==
    ASSUME NEW a \in Accounts, NEW S, NEW n,
           \A b \in Accounts \ {a} : InFlight(b)' = InFlight(b),
           InFlight(a)' = S, Cardinality(InFlight(a)') = n
    PROVE  /\ [b \in Accounts |-> InFlight(b)]'
                 = [[b \in Accounts |-> InFlight(b)] EXCEPT ![a] = S]
           /\ [b \in Accounts |-> Cardinality(InFlight(b))]'
                 = [[b \in Accounts |-> Cardinality(InFlight(b))] EXCEPT ![a] = n]
<1>1. [b \in Accounts |-> InFlight(b)]' = [b \in Accounts |-> InFlight(b)']
  OBVIOUS
<1>2. [b \in Accounts |-> InFlight(b)']
        = [b \in Accounts |-> IF b = a THEN S ELSE InFlight(b)]
  OBVIOUS
<1>3. [b \in Accounts |-> Cardinality(InFlight(b))]'
        = [b \in Accounts |-> Cardinality(InFlight(b)')]
  OBVIOUS
<1>4. [b \in Accounts |-> Cardinality(InFlight(b)')]
        = [b \in Accounts |-> IF b = a THEN n ELSE Cardinality(InFlight(b))]
  OBVIOUS
<1> QED BY <1>1, <1>2, <1>3, <1>4

LEMMA EnterStep ==
    ASSUME Inv, SlotsMatchHolders, QuietInv, NEW r \in Requests, TakeSlot(r),
           pc[r] \in {"acquire", "waiting"}, UNCHANGED <<acct, seen, resets>>
    PROVE  Slots!Enter(acct[r], r)
<1> USE DEF Inv, TypeOK, ChannelsMade, Ended
<1>1. acct[r] \in Accounts
  OBVIOUS
<1>2. \A b \in Accounts : r \notin InFlight(b)
  BY DEF InFlight
<1>3. Slots!Room(acct[r])
  <2>1. used[chan[r]] < capacity[chan[r]]
    BY DEF TakeSlot
  <2>2. ASSUME NEW l \in Limits, Quiet(acct[r], l)
        PROVE  Cardinality(InFlight(acct[r])) < l
    BY <2>1, <2>2, RoomForHolder
  <2> QED BY <1>1, <2>2 DEF Slots!Room, Quiet
<1>4. \A b \in Accounts : InFlight(b)' = IF b = acct[r] THEN InFlight(b) \union {r}
                                                      ELSE InFlight(b)
  BY DEF InFlight, TakeSlot
<1> HIDE DEF Inv, TypeOK, ChannelsMade
<1> PICK a \in Accounts : a = acct[r]
  BY <1>1
<1> DEFINE S == InFlight(a) \union {r}
           n == Cardinality(InFlight(a)) + 1
<1>5. Cardinality(S) = n
  BY <1>1, <1>2, InFlightFinite, FS_AddElement
<1>6. /\ [b \in Accounts |-> InFlight(b)]'
            = [[b \in Accounts |-> InFlight(b)] EXCEPT ![a] = S]
      /\ [b \in Accounts |-> Cardinality(InFlight(b))]'
            = [[b \in Accounts |-> Cardinality(InFlight(b))] EXCEPT ![a] = n]
  <2>1. InFlight(a)' = S /\ \A b \in Accounts \ {a} : InFlight(b)' = InFlight(b)
    BY <1>4
  <2> HIDE DEF n, S
  <2> QED BY <2>1, <1>5, OneAccountMoves
<1> QED BY <1>1, <1>2, <1>3, <1>6 DEF Slots!Enter

LEMMA LeaveStep ==
    ASSUME Inv, NEW r \in Requests, Release(r)
    PROVE  Slots!Leave(acct[r], r)
<1> USE DEF Inv, TypeOK, ChannelsMade, Ended
<1>1. acct[r] \in Accounts /\ r \in InFlight(acct[r])
  BY DEF Release, InFlight
<1>2. \A b \in Accounts : InFlight(b)' = IF b = acct[r] THEN InFlight(b) \ {r}
                                                      ELSE InFlight(b)
  BY DEF InFlight, Release
<1>3. UNCHANGED <<seen, resets>>
  BY DEF Release
<1> HIDE DEF Inv, TypeOK, ChannelsMade
<1> PICK a \in Accounts : a = acct[r]
  BY <1>1
<1> DEFINE S == InFlight(a) \ {r}
           n == Cardinality(InFlight(a)) - 1
<1>4. Cardinality(S) = n
  BY <1>1, InFlightFinite, FS_RemoveElement
<1>5. /\ [b \in Accounts |-> InFlight(b)]'
            = [[b \in Accounts |-> InFlight(b)] EXCEPT ![a] = S]
      /\ [b \in Accounts |-> Cardinality(InFlight(b))]'
            = [[b \in Accounts |-> Cardinality(InFlight(b))] EXCEPT ![a] = n]
  <2>1. InFlight(a)' = S /\ \A b \in Accounts \ {a} : InFlight(b)' = InFlight(b)
    BY <1>2
  <2> HIDE DEF n, S
  <2> QED BY <2>1, <1>4, OneAccountMoves
<1> QED BY <1>1, <1>3, <1>5 DEF Slots!Leave

LEMMA TouchStep ==
    ASSUME Inv, NEW a \in Accounts, UNCHANGED <<pc, acct>>,
           \/ \E l \in Limits : seen' = [seen EXCEPT ![a] = @ \union {l}] /\ UNCHANGED resets
           \/ resets' = [resets EXCEPT ![a] = @ + 1] /\ UNCHANGED seen
    PROVE  Slots!Touch(a)
<1> USE DEF Inv, TypeOK
<1>1. \A b \in Accounts : InFlight(b)' = InFlight(b)
  BY DEF InFlight
<1>2. \A b \in Accounts : Cardinality(InFlight(b))' = Cardinality(InFlight(b))
  BY <1>1
<1>3. seen'[a] \in SUBSET Limits /\ seen[a] \subseteq seen'[a]
      /\ seen' = [seen EXCEPT ![a] = seen'[a]]
  OBVIOUS
<1>4. resets'[a] \in {resets[a], resets[a] + 1} /\ resets' = [resets EXCEPT ![a] = resets'[a]]
  OBVIOUS
<1>5. UNCHANGED <<[b \in Accounts |-> InFlight(b)],
                  [b \in Accounts |-> Cardinality(InFlight(b))]>>
  BY <1>1, <1>2
<1> HIDE DEF Inv, TypeOK
<1> QED BY <1>3, <1>4, <1>5 DEF Slots!Touch

(* Every other step leaves the holders and the settings as they are. *)
LEMMA StutterStep ==
    ASSUME Inv, UNCHANGED <<seen, resets>>,
           \A r \in Requests : /\ pc'[r] = "holding" <=> pc[r] = "holding"
                               /\ pc[r] = "holding" => acct'[r] = acct[r]
    PROVE  UNCHANGED Slots!slotVars
<1>1. \A a \in Accounts : InFlight(a)' = InFlight(a)
  BY DEF InFlight
<1>2. \A a \in Accounts : Cardinality(InFlight(a))' = Cardinality(InFlight(a))
  BY <1>1
<1> QED BY <1>1, <1>2 DEF Slots!slotVars

LEMMA NextSemaphore ==
    Inv /\ SlotsMatchHolders /\ SnapshotsSeen /\ QuietInv /\ [Next]_vars
        => [Slots!Next]_(Slots!slotVars)
<1> SUFFICES ASSUME Inv, SlotsMatchHolders, SnapshotsSeen, QuietInv, [Next]_vars
             PROVE  Slots!Next \/ UNCHANGED Slots!slotVars
  OBVIOUS
<1>0. \A r \in Requests : pc[r] # "start" => acct[r] \in Accounts
  BY DEF Inv, ChannelsMade
<1> USE DEF Inv, TypeOK, reqVars, adminVars
<1>1. ASSUME NEW r \in Requests, LoadOrStore(r) \/ CompareAndSwap(r) \/ LeaveQueue(r)
      PROVE  UNCHANGED Slots!slotVars
  BY <1>1, StutterStep DEF LoadOrStore, CompareAndSwap, LeaveQueue, Install
<1>2. ASSUME NEW r \in Requests, TryAcquire(r) \/ Admit(r)
      PROVE  Slots!Next \/ UNCHANGED Slots!slotVars
  <2>1. CASE TakeSlot(r)
    BY <1>0, <1>2, <2>1, EnterStep DEF TryAcquire, Admit, Slots!Next
  <2>2. CASE ~TakeSlot(r)
    <3>1. /\ pc[r] = "acquire" /\ pc' = [pc EXCEPT ![r] = "waiting"]
          /\ UNCHANGED <<acct, seen, resets>>
      BY <1>2, <2>2 DEF TryAcquire, Admit
    <3>2. \A q \in Requests : pc'[q] = "holding" <=> pc[q] = "holding"
      BY <3>1
    <3> QED BY <3>1, <3>2, StutterStep
  <2> QED BY <2>1, <2>2
<1>3. ASSUME NEW r \in Requests, Release(r) PROVE Slots!Next
  BY <1>0, <1>3, LeaveStep DEF Release, Slots!Next
<1>4. ASSUME NEW r \in Requests, NEW a \in Accounts, ResolveAPIKey(r, a)
      PROVE  UNCHANGED Slots!slotVars
  BY <1>4, StutterStep DEF ResolveAPIKey
<1>5. ASSUME NEW m \in Admins, NEW a \in Accounts, NEW l \in Limits, UpdateRow(m, a, l)
      PROVE  Slots!Next
  BY <1>5, TouchStep DEF UpdateRow, Slots!Next
<1>6. ASSUME NEW m \in Admins,
             (\E a \in Accounts : DeleteRow(m, a)) \/ RejectCredentials(m)
      PROVE  UNCHANGED Slots!slotVars
  BY <1>6, StutterStep DEF DeleteRow, RejectCredentials
<1>7. ASSUME NEW m \in Admins, ResetLimiter(m) PROVE Slots!Next
  <2>1. target[m] \in Accounts
    BY <1>7 DEF ResetLimiter, ChannelsMade
  <2> QED BY <1>7, <2>1, TouchStep DEF ResetLimiter, Slots!Next
<1>8. CASE UNCHANGED vars
  BY <1>8, StutterStep DEF vars
<1> QED BY <1>1, <1>2, <1>3, <1>4, <1>5, <1>6, <1>7, <1>8 DEF Next, RequestStep

(* Whatever admins do to the entries, the limiter is the semaphore its
   callers take it for.                                                      *)
THEOREM ImplementsSemaphore == Spec => ActsAsSemaphore
<1> DEFINE IInv == Inv /\ SlotsMatchHolders /\ SnapshotsSeen /\ QuietInv
<1>1. Init => IInv
  BY InitInv, InitSlots, InitQuiet
<1>2. IInv /\ [Next]_vars => IInv'
  BY NextInv, NextSlots, NextSeen, NextQuiet
<1>3. Init => Slots!Init
  BY InitSemaphore
<1>4. IInv /\ [Next]_vars => [Slots!Next]_(Slots!slotVars)
  BY NextSemaphore
<1> QED BY <1>1, <1>2, <1>3, <1>4, PTL DEF Spec, ActsAsSemaphore, Slots!Spec

-----------------------------------------------------------------------------
(* What a rebuild of the limiter costs: while an account has had one limit
   only, a channel is made for it only when there is no entry, which each
   reset brings about once at most.  So the channels in use and the entry to
   come are at most one more than the resets, and each admits one batch.     *)
Using(r) == pc[r] \in {"acquire", "waiting", "holding"}

Users(a) == {r \in Requests : acct[r] = a /\ Using(r)}

Made(a) == {chan[r] : r \in Users(a)} \union ({limiters[a]} \ {NoChannel})

ToCome(a) == IF limiters[a] = NoChannel THEN 1 ELSE 0

OfOneLimit(a, l) ==
    /\ limiters[a] # NoChannel => capacity[limiters[a]] = l
    /\ \A r \in Requests : acct[r] = a => pc[r] # "replace"

BatchInv ==
    \A a \in Accounts, l \in Limits : seen[a] = {l} =>
        /\ OfOneLimit(a, l)
        /\ Cardinality(Made(a)) + ToCome(a) <= 1 + resets[a]

(* The channels of an account are finitely many. *)
LEMMA MadeFinite == \A a : IsFiniteSet(Made(a)) /\ Cardinality(Made(a)) \in Nat
<1> SUFFICES ASSUME NEW a PROVE IsFiniteSet(Made(a))
  BY FS_CardinalityType
<1> DEFINE used_ == {chan[r] : r \in Users(a)}
           f == [r \in Users(a) |-> chan[r]]
<1>1. IsFiniteSet(Users(a))
  BY FS_Subset DEF Users
<1>2. f \in Surjection(Users(a), used_)
  BY DEF Surjection
<1>3. IsFiniteSet(used_)
  <2> HIDE DEF f, used_
  <2> QED BY <1>1, <1>2, FS_Surjection
<1>4. IsFiniteSet({limiters[a]} \ {NoChannel})
  BY FS_Singleton, FS_Subset
<1> HIDE DEF used_, f
<1>5. IsFiniteSet(used_ \union ({limiters[a]} \ {NoChannel}))
  BY <1>3, <1>4, FS_Union
<1> QED BY <1>5 DEF Made, used_

LEMMA MadeFiniteNext == (\A a : IsFiniteSet(Made(a)) /\ Cardinality(Made(a)) \in Nat)'
BY MadeFinite, PTL

(* What a step may do to the channels of an account: leave some behind, make
   one where there was no entry, or drop the entry, which is counted.        *)
Bounded(a) ==
    \/ /\ Made(a)' \subseteq Made(a) /\ resets'[a] = resets[a]
       /\ limiters'[a] = NoChannel => limiters[a] = NoChannel
    \/ /\ \E c : Made(a)' \subseteq Made(a) \union {c}
       /\ limiters[a] = NoChannel /\ limiters'[a] # NoChannel /\ resets'[a] = resets[a]
    \/ Made(a)' \subseteq Made(a) /\ resets'[a] = resets[a] + 1

LEMMA BoundedSuffices ==
    ASSUME Inv, Inv', NEW a \in Accounts, Bounded(a),
           Cardinality(Made(a)) + ToCome(a) <= 1 + resets[a]
    PROVE  Cardinality(Made(a)') + ToCome(a)' <= 1 + resets'[a]
<1>1. /\ Cardinality(Made(a)) \in Nat /\ IsFiniteSet(Made(a))
      /\ Cardinality(Made(a)') \in Nat
  <2>1. (\A b : IsFiniteSet(Made(b)) /\ Cardinality(Made(b)) \in Nat)'
    BY MadeFiniteNext
  <2> QED BY <2>1, MadeFinite
<1>2. resets[a] \in Nat /\ resets'[a] \in Nat
  BY DEF Inv, TypeOK
<1>3. ASSUME Made(a)' \subseteq Made(a) PROVE Cardinality(Made(a)') <= Cardinality(Made(a))
  BY <1>1, <1>3, FS_Subset
<1>4. ASSUME NEW c, Made(a)' \subseteq Made(a) \union {c}
      PROVE  Cardinality(Made(a)') <= Cardinality(Made(a)) + 1
  <2>1. IsFiniteSet(Made(a) \union {c}) /\ Cardinality(Made(a) \union {c}) <= Cardinality(Made(a)) + 1
    <3>1. /\ IsFiniteSet(Made(a) \union {c})
          /\ Cardinality(Made(a) \union {c}) =
                IF c \in Made(a) THEN Cardinality(Made(a)) ELSE Cardinality(Made(a)) + 1
      BY <1>1, FS_AddElement, Zenon
    <3> QED BY <1>1, <3>1
  <2>2. Cardinality(Made(a)') <= Cardinality(Made(a) \union {c})
    BY <1>4, <2>1, FS_Subset
  <2>3. Cardinality(Made(a) \union {c}) \in Nat
    BY <2>1, FS_CardinalityType
  <2> QED BY <1>1, <2>1, <2>2, <2>3
<1> QED
  BY <1>1, <1>2, <1>3, <1>4 DEF Bounded, ToCome

LEMMA InitBatch == Init => BatchInv
<1> SUFFICES ASSUME Init, NEW a \in Accounts, NEW l \in Limits
             PROVE  OfOneLimit(a, l) /\ Cardinality(Made(a)) + ToCome(a) <= 1 + resets[a]
  BY DEF BatchInv
<1>1. Made(a) = {} /\ ToCome(a) = 1 /\ resets[a] = 0
  BY DEF Init, Made, Users, Using, ToCome
<1>2. OfOneLimit(a, l)
  BY DEF Init, OfOneLimit
<1> QED BY <1>1, <1>2, FS_EmptySet

LEMMA NextBatch == Inv /\ SnapshotsSeen /\ BatchInv /\ [Next]_vars => BatchInv'
<1> SUFFICES ASSUME Inv, SnapshotsSeen, BatchInv, [Next]_vars,
                    NEW a \in Accounts, NEW l \in Limits, seen'[a] = {l}
             PROVE  /\ OfOneLimit(a, l)'
                    /\ Cardinality(Made(a)') + ToCome(a)' <= 1 + resets'[a]
  BY DEF BatchInv
<1>0. Inv'
  BY NextInv
<1>1. ASSUME seen[a] = {l}, OfOneLimit(a, l)', Bounded(a)
      PROVE  /\ OfOneLimit(a, l)'
             /\ Cardinality(Made(a)') + ToCome(a)' <= 1 + resets'[a]
  BY <1>0, <1>1, BoundedSuffices DEF BatchInv
<1>2. ASSUME seen[a] = {l} PROVE OfOneLimit(a, l)
  BY <1>2 DEF BatchInv
<1> USE DEF Inv, TypeOK, ChannelsMade, SnapshotsSeen, NoRow, reqVars
<1>3. ASSUME NEW r \in Requests, NEW c \in Channels, acct[r] \in Accounts,
             acct[r] = a => limiters[a] = NoChannel,
             capacity[c] = 0, snap[r] \in seen[acct[r]],
             capacity' = [capacity EXCEPT ![c] = snap[r]],
             limiters' = [limiters EXCEPT ![acct[r]] = c],
             chan' = [chan EXCEPT ![r] = c],
             pc' = [pc EXCEPT ![r] = "acquire"],
             UNCHANGED <<row, used, acct, snap, adminVars, writes, resets, seen>>
      PROVE  seen[a] = {l} /\ OfOneLimit(a, l)' /\ Bounded(a)
  <2>1. seen[a] = {l} /\ OfOneLimit(a, l)
    BY <1>2, <1>3
  <2>2. CASE acct[r] = a
    <3>1. OfOneLimit(a, l)'
      BY <1>3, <2>1, <2>2 DEF OfOneLimit
    <3>2. Made(a)' \subseteq Made(a) \union {c}
      BY <1>3, <2>2 DEF Made, Users, Using
    <3>3. limiters[a] = NoChannel /\ limiters'[a] # NoChannel /\ resets'[a] = resets[a]
      BY <1>3, <2>2
    <3> QED BY <2>1, <3>1, <3>2, <3>3 DEF Bounded
  <2>3. CASE acct[r] # a
    <3>1. OfOneLimit(a, l)'
      BY <1>3, <2>1, <2>3 DEF OfOneLimit
    <3>2. Made(a)' \subseteq Made(a)
      BY <1>3, <2>3 DEF Made, Users, Using
    <3>3. limiters'[a] = limiters[a] /\ resets'[a] = resets[a]
      BY <1>3, <2>3
    <3> QED BY <2>1, <3>1, <3>2, <3>3 DEF Bounded
  <2> QED BY <2>2, <2>3
<1>4. ASSUME NEW r \in Requests, LoadOrStore(r)
      PROVE  seen[a] = {l} /\ OfOneLimit(a, l)' /\ Bounded(a)
  <2>1. seen[a] = {l} /\ OfOneLimit(a, l)
    BY <1>2, <1>4 DEF LoadOrStore
  <2>2. acct[r] \in Accounts /\ snap[r] \in seen[acct[r]]
    BY <1>4 DEF LoadOrStore
  <2>3. CASE limiters[acct[r]] = NoChannel /\ Install(r, acct[r])
    <3>1. PICK c \in Channels :
              /\ capacity[c] = 0
              /\ capacity' = [capacity EXCEPT ![c] = snap[r]]
              /\ limiters' = [limiters EXCEPT ![acct[r]] = c]
              /\ chan' = [chan EXCEPT ![r] = c]
              /\ pc' = [pc EXCEPT ![r] = "acquire"]
      BY <1>4, <2>2, <2>3, InstallFresh DEF LoadOrStore
    <3> QED BY <1>3, <1>4, <2>2, <2>3, <3>1 DEF LoadOrStore
  <2>4. CASE limiters[acct[r]] # NoChannel
    <3>1. OfOneLimit(a, l)'
      BY <1>4, <2>1, <2>2, <2>4 DEF LoadOrStore, OfOneLimit
    <3>2. Made(a)' \subseteq Made(a)
      BY <1>4, <2>2, <2>4 DEF LoadOrStore, Made, Users, Using
    <3>3. UNCHANGED <<limiters, resets>>
      BY <1>4, <2>4 DEF LoadOrStore
    <3> QED BY <2>1, <3>1, <3>2, <3>3 DEF Bounded
  <2> QED BY <1>4, <2>3, <2>4 DEF LoadOrStore
<1>5. ASSUME NEW r \in Requests, CompareAndSwap(r)
      PROVE  seen[a] = {l} /\ OfOneLimit(a, l)' /\ Bounded(a)
  <2>1. seen[a] = {l} /\ OfOneLimit(a, l)
    BY <1>2, <1>5 DEF CompareAndSwap
  <2>2. acct[r] # a /\ acct[r] \in Accounts /\ snap[r] \in seen[acct[r]]
    BY <1>5, <2>1 DEF CompareAndSwap, OfOneLimit
  <2>3. CASE Install(r, acct[r])
    <3>1. PICK c \in Channels :
              /\ capacity[c] = 0
              /\ capacity' = [capacity EXCEPT ![c] = snap[r]]
              /\ limiters' = [limiters EXCEPT ![acct[r]] = c]
              /\ chan' = [chan EXCEPT ![r] = c]
              /\ pc' = [pc EXCEPT ![r] = "acquire"]
      BY <1>5, <2>2, <2>3, InstallFresh
    <3> QED BY <1>3, <1>5, <2>2, <3>1 DEF CompareAndSwap
  <2>4. CASE limiters[acct[r]] # chan[r]
    <3>1. OfOneLimit(a, l)'
      BY <1>5, <2>1, <2>2, <2>4 DEF CompareAndSwap, OfOneLimit
    <3>2. Made(a)' \subseteq Made(a)
      BY <1>5, <2>2, <2>4 DEF CompareAndSwap, Made, Users, Using
    <3>3. UNCHANGED <<limiters, resets>>
      BY <1>5, <2>4 DEF CompareAndSwap
    <3> QED BY <2>1, <3>1, <3>2, <3>3 DEF Bounded
  <2> QED BY <1>5, <2>3, <2>4 DEF CompareAndSwap
<1>6. ASSUME NEW r \in Requests, TryAcquire(r) \/ Release(r) \/ Admit(r) \/ LeaveQueue(r)
      PROVE  seen[a] = {l} /\ OfOneLimit(a, l)' /\ Bounded(a)
  <2>1. /\ UNCHANGED <<limiters, resets, capacity, acct, chan, seen>>
        /\ Using(r) /\ \E at : pc' = [pc EXCEPT ![r] = at] /\ at # "replace"
    BY <1>6 DEF TryAcquire, Release, Admit, LeaveQueue, TakeSlot, Using
  <2>2. OfOneLimit(a, l)'
    BY <1>2, <2>1 DEF OfOneLimit
  <2>3. Users(a)' \subseteq Users(a)
    BY <2>1 DEF Users, Using
  <2>4. Made(a)' \subseteq Made(a)
    BY <2>1, <2>3 DEF Made
  <2> QED BY <2>1, <2>2, <2>4 DEF Bounded
<1>7. ASSUME NEW r \in Requests, NEW b \in Accounts, ResolveAPIKey(r, b)
      PROVE  seen[a] = {l} /\ OfOneLimit(a, l)' /\ Bounded(a)
  <2>1. OfOneLimit(a, l)'
    BY <1>2, <1>7 DEF ResolveAPIKey, OfOneLimit
  <2>2. Made(a)' \subseteq Made(a)
    BY <1>7 DEF ResolveAPIKey, Made, Users, Using
  <2> QED BY <1>7, <2>1, <2>2 DEF ResolveAPIKey, Bounded
<1>8. ASSUME UNCHANGED <<pc, acct, chan, limiters, capacity, resets>>, seen[a] = {l}
      PROVE  seen[a] = {l} /\ OfOneLimit(a, l)' /\ Bounded(a)
  BY <1>2, <1>8 DEF OfOneLimit, Bounded, Made, Users, Using
<1>9. ASSUME NEW m \in Admins, NEW b \in Accounts, NEW k \in Limits, UpdateRow(m, b, k)
      PROVE  seen[a] = {l} /\ OfOneLimit(a, l)' /\ Bounded(a)
  <2>1. seen[a] = {l}
    BY <1>9 DEF UpdateRow
  <2> QED BY <1>8, <1>9, <2>1 DEF UpdateRow
<1>10. ASSUME NEW m \in Admins, NEW b \in Accounts, DeleteRow(m, b)
       PROVE  seen[a] = {l} /\ OfOneLimit(a, l)' /\ Bounded(a)
  BY <1>8, <1>10 DEF DeleteRow
<1>11. ASSUME NEW m \in Admins, RejectCredentials(m)
       PROVE  seen[a] = {l} /\ OfOneLimit(a, l)' /\ Bounded(a)
  BY <1>8, <1>11 DEF RejectCredentials
<1>12. ASSUME NEW m \in Admins, ResetLimiter(m)
       PROVE  seen[a] = {l} /\ OfOneLimit(a, l)' /\ Bounded(a)
  <2>1. OfOneLimit(a, l)'
    BY <1>2, <1>12 DEF ResetLimiter, OfOneLimit
  <2>2. Made(a)' \subseteq Made(a)
    BY <1>12 DEF ResetLimiter, Made, Users, Using
  <2>3. CASE target[m] = a
    BY <1>12, <2>1, <2>2, <2>3 DEF ResetLimiter, Bounded
  <2>4. CASE target[m] # a
    BY <1>12, <2>1, <2>2, <2>4 DEF ResetLimiter, Bounded
  <2> QED BY <2>3, <2>4
<1>13. CASE UNCHANGED vars
  <2>1. UNCHANGED <<pc, acct, chan, limiters, capacity, resets, seen>>
    BY <1>13 DEF vars
  <2> QED BY <1>1, <1>8, <2>1
<1> QED
  BY <1>1, <1>4, <1>5, <1>6, <1>7, <1>9, <1>10, <1>11, <1>12, <1>13, <1>8 DEF Next, RequestStep

(* Every set of naturals that is not empty has a least element: induction in
   the form of a least counterexample.                                       *)
LEMMA Least == ASSUME NEW T \in SUBSET Nat, T # {} PROVE \E n \in T : \A m \in T : n <= m
<1> DEFINE Less == {ss \in Nat \X Nat : ss[1] < ss[2]}
<1>1. IsWellFoundedOn(Less, Nat)
  BY NatLessThanWellFounded DEF OpToRel
<1>2. PICK x \in T : \A y \in T : ~(<<y, x>> \in Less)
  <2> HIDE DEF Less
  <2> QED BY <1>1, WFMin
<1>3. \A y \in T : ~(y < x)
  BY <1>2
<1> QED BY <1>3

(* At most l for each of the channels is at most l times as many in all. *)
LEMMA BatchesAddUp ==
    ASSUME NEW S, IsFiniteSet(S), NEW f, NEW C, IsFiniteSet(C), NEW l \in Nat,
           \A r \in S : f[r] \in C,
           \A c \in C : Cardinality({r \in S : f[r] = c}) <= l
    PROVE  Cardinality(S) <= Cardinality(C) * l
<1> DEFINE On(c) == {r \in S : f[r] = c}
           In(D) == {r \in S : f[r] \in D}
           Odd == {n \in Nat : \E D \in SUBSET C :
                      Cardinality(D) = n /\ ~(Cardinality(In(D)) <= n * l)}
<1>1. \A D \in SUBSET C : IsFiniteSet(D) /\ Cardinality(D) \in Nat
  BY FS_Subset, FS_CardinalityType
<1>2. \A D : IsFiniteSet(In(D)) /\ Cardinality(In(D)) \in Nat
  BY FS_Subset, FS_CardinalityType
<1>3. \A c : IsFiniteSet(On(c)) /\ Cardinality(On(c)) \in Nat
  BY FS_Subset, FS_CardinalityType
<1>4. Odd = {}
  <2>1. SUFFICES ASSUME Odd # {} PROVE FALSE
    OBVIOUS
  <2>2. PICK n \in Odd : \A m \in Odd : n <= m
    <3> HIDE DEF Odd
    <3>1. Odd \in SUBSET Nat
      BY DEF Odd
    <3> QED BY <2>1, <3>1, Least
  <2>3. PICK D \in SUBSET C : Cardinality(D) = n /\ ~(Cardinality(In(D)) <= n * l)
    BY <2>2
  <2>4. n \in Nat
    BY <2>2
  <2>5. CASE D = {}
    <3>1. In(D) = {}
      BY <2>5
    <3>2. Cardinality(In(D)) = 0 /\ n = 0
      BY <2>3, <2>5, <3>1, FS_EmptySet
    <3> HIDE DEF In
    <3> QED BY <2>3, <3>2
  <2>6. CASE D # {}
    <3>1. PICK c \in D : TRUE
      BY <2>6
    <3> DEFINE E == D \ {c}
    <3>2. E \in SUBSET C /\ c \in C
      OBVIOUS
    <3>3. Cardinality(E) \in Nat /\ Cardinality(E) = n - 1
      <4>1. Cardinality(E) = Cardinality(D) - 1
        BY <1>1, <3>1, FS_RemoveElement
      <4> QED BY <1>1, <2>3, <3>2, <4>1
    <3>4. Cardinality(In(E)) <= (n - 1) * l
      <4>1. Cardinality(E) \notin Odd
        <5>1. ~(n <= Cardinality(E))
          BY <2>4, <3>3
        <5> HIDE DEF Odd
        <5> QED BY <2>2, <5>1
      <4> HIDE DEF E, In
      <4> QED BY <3>2, <3>3, <4>1
    <3>5. Cardinality(On(c)) <= l
      BY <3>2
    <3>6. In(D) = On(c) \union In(E) /\ On(c) \intersect In(E) = {}
      BY <3>1
    <3> HIDE DEF In, On, E, Odd
    <3>7. Cardinality(In(D)) = Cardinality(On(c)) + Cardinality(In(E))
      <4>1. /\ IsFiniteSet(On(c)) /\ Cardinality(On(c)) \in Nat
            /\ IsFiniteSet(In(E)) /\ Cardinality(In(E)) \in Nat
        BY <1>2, <1>3
      <4>2. Cardinality(On(c) \union In(E)) =
               Cardinality(On(c)) + Cardinality(In(E)) - Cardinality(On(c) \intersect In(E))
        BY <4>1, FS_Union, Zenon
      <4>3. Cardinality(On(c) \intersect In(E)) = 0
        BY <3>6, FS_EmptySet, Zenon
      <4> QED BY <3>6, <4>1, <4>2, <4>3
    <3>8. (n - 1) * l + l = n * l
      BY <2>4
    <3>9. (n - 1) * l \in Nat /\ n * l \in Nat
      BY <2>4, <3>3
    <3> QED BY <1>2, <1>3, <2>3, <3>4, <3>5, <3>7, <3>8, <3>9
  <2> QED BY <2>5, <2>6
<1>5. In(C) = S
  OBVIOUS
<1>6. Cardinality(C) \notin Odd
  BY <1>4
<1> QED
  <2>1. Cardinality(C) \in Nat /\ C \in SUBSET C
    BY <1>1
  <2> HIDE DEF In
  <2> QED BY <1>5, <1>6, <2>1

(* Whatever the limit, the requests, the resets and their order: a settings
   update that keeps the limit costs one further batch.                      *)
THEOREM RebuildCost == Spec => []RebuildBound
<1> DEFINE IInv == Inv /\ SlotsMatchHolders /\ SnapshotsSeen /\ BatchInv
<1>1. Init => IInv
  BY InitInv, InitSlots, InitQuiet, InitBatch
<1>2. IInv /\ [Next]_vars => IInv'
  BY NextInv, NextSlots, NextSeen, NextBatch
<1>3. IInv => RebuildBound
  <2> SUFFICES ASSUME IInv, NEW a \in Accounts, NEW l \in Limits, seen[a] = {l}
               PROVE  Cardinality(InFlight(a)) <= (1 + resets[a]) * l
    BY DEF RebuildBound
  <2>1. l \in Nat /\ resets[a] \in Nat
    BY DEF Inv, TypeOK
  <2>2. IsFiniteSet(InFlight(a))
    BY FS_Subset DEF InFlight
  <2>3. \A r \in InFlight(a) : chan[r] \in Made(a)
    BY DEF InFlight, Made, Users, Using
  <2>4. ASSUME NEW c \in Made(a) PROVE Cardinality({r \in InFlight(a) : chan[r] = c}) <= l
    <3> DEFINE S == {r \in InFlight(a) : chan[r] = c}
    <3>1. c \in Channels /\ capacity[c] = l
      <4>1. CASE c = limiters[a] /\ limiters[a] # NoChannel
        <5>1. OfOneLimit(a, l)
          BY DEF BatchInv
        <5> QED BY <4>1, <5>1 DEF OfOneLimit, Inv, TypeOK
      <4>2. CASE ~(c = limiters[a] /\ limiters[a] # NoChannel)
        <5>1. PICK r \in Requests : acct[r] = a /\ Using(r) /\ chan[r] = c
          BY <2>4, <4>2 DEF Made, Users
        <5>2. snap[r] \in seen[a]
          BY <5>1 DEF SnapshotsSeen, Using
        <5> QED BY <5>1, <5>2 DEF Inv, ChannelsMade, Using
      <4> QED BY <4>1, <4>2
    <3>2. S \subseteq Holders(c) /\ IsFiniteSet(Holders(c))
      BY FS_Subset DEF InFlight, Holders
    <3>3. Cardinality(S) <= Cardinality(Holders(c))
      BY <3>2, FS_Subset
    <3>4. Cardinality(Holders(c)) = used[c] /\ used[c] <= l
      BY <3>1 DEF SlotsMatchHolders
    <3>5. Cardinality(S) \in Nat /\ used[c] \in Nat
      BY <3>1, <3>2, FS_Subset, FS_CardinalityType, SlotNumbers DEF Inv
    <3> QED BY <2>1, <3>3, <3>4, <3>5
  <2>5. Cardinality(InFlight(a)) <= Cardinality(Made(a)) * l
    BY <2>1, <2>2, <2>3, <2>4, MadeFinite, BatchesAddUp
  <2>6. Cardinality(Made(a)) <= 1 + resets[a]
    <3>1. ToCome(a) \in Nat /\ Cardinality(Made(a)) + ToCome(a) <= 1 + resets[a]
      BY DEF BatchInv, ToCome
    <3> QED BY <2>1, <3>1, MadeFinite
  <2>7. ASSUME NEW m \in Nat, NEW n \in Nat, m <= n PROVE m * l <= n * l
    BY <2>1, <2>7
  <2>8. Cardinality(Made(a)) * l <= (1 + resets[a]) * l
    BY <2>1, <2>6, <2>7, MadeFinite
  <2>9. /\ Cardinality(Made(a)) * l \in Nat /\ (1 + resets[a]) * l \in Nat
        /\ Cardinality(InFlight(a)) \in Nat
    BY <2>1, <2>2, MadeFinite, FS_CardinalityType
  <2> HIDE DEF IInv
  <2> QED BY <2>5, <2>8, <2>9
<1> QED BY <1>1, <1>2, <1>3, PTL DEF Spec

=============================================================================
