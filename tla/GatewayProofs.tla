--------------------------- MODULE GatewayProofs ---------------------------
(***************************************************************************)
(* Proofs about a proxied request (Gateway), for any number of accounts,   *)
(* requests, limits, tokens and settings updates, and about the client it  *)
(* goes through (ClientCache), for any number of callers and admins.       *)
(***************************************************************************)
EXTENDS Gateway, ClientCache, FiniteSetTheorems, TLAPS

(* Where a request has an account and a token. *)
Active ==
    {"rate", "queue", "client", "lock", "call", "called", "relay"} \union Locked

(* Where a request has a slot of its account in any case. *)
Admitted == {"client", "call", "called", "relay"}

WithSlot(r) ==
    \/ pc[r] \in Admitted
    \/ Retrying(r) /\ pc[r] \in {"lock"} \union Locked

Places ==
    Active \union {"new", "key", "return", "log", "ended"}

PlaceTypes ==
    /\ pc \in [Requests -> Places]
    /\ acct \in [Requests -> Accounts \union {NoAccount}]

AnswerTypes ==
    /\ reply \in [Requests -> {NoStatus, Success, Failure}]
    /\ gone \in [Requests -> BOOLEAN]
    /\ logged \in [Requests -> Statuses]

GrantTypes ==
    /\ cred \in [Requests -> 0..MaxGrants]
    /\ stored \in [Accounts -> 1..MaxGrants]
    /\ current \in [Accounts -> 1..MaxGrants]

SentType == sent \in [Requests -> Seq(1..MaxGrants)]

OwnerType == owner \in [Accounts -> Requests \union {Nobody}]

SlotTypes ==
    /\ holding \in [Accounts -> SUBSET Requests]
    /\ taken \in [Accounts -> Nat]
    /\ settings \in [Accounts -> SUBSET Limits]
    /\ rebuilt \in [Accounts -> 0..MaxTouches]

MainTypes ==
    /\ due \in [Accounts -> 0..MaxGrants]
    /\ process \in {"up", "draining", "closed", "exited"}
    /\ expired \in BOOLEAN
    /\ unstored \in BOOLEAN

Types ==
    /\ PlaceTypes /\ AnswerTypes /\ GrantTypes /\ SentType /\ OwnerType
    /\ SlotTypes /\ MainTypes

Placed ==
    \A r \in Requests :
        pc[r] \in Active => acct[r] \in Accounts /\ cred[r] \in 1..MaxGrants

(* A slot is held where the code has it in hand, until the deferred release,
   and nowhere else.                                                         *)
SlotsHeld ==
    \A r \in Requests, a \in Accounts :
        /\ r \in holding[a] => acct[r] = a /\ (WithSlot(r) \/ pc[r] = "return")
        /\ WithSlot(r) /\ acct[r] = a => r \in holding[a]

(* The slots taken are counted, and an account nobody has touched stays
   within its limit.                                                         *)
SlotsCounted ==
    \A a \in Accounts :
        /\ IsFiniteSet(holding[a])
        /\ taken[a] = Cardinality(holding[a])
        /\ settings[a] # {}
        /\ \A l \in Limits : settings[a] = {l} /\ rebuilt[a] = 0 => taken[a] <= l

(* The mutex of an account belongs to the request in its critical section. *)
MutexHeld ==
    \A r \in Requests, a \in Accounts :
        owner[a] = r <=> pc[r] \in Locked /\ acct[r] = a

(* What has been sent at each place, and which token is going to be sent. *)
TokensSent ==
    \A r \in Requests :
        /\ Len(sent[r]) <= 2
        /\ pc[r] \in {"new", "key", "rate", "queue", "client"} => sent[r] = <<>>
        /\ pc[r] \in {"lock", "call"} \union Locked => Len(sent[r]) <= 1
        /\ pc[r] = "called" => Len(sent[r]) >= 1
        /\ pc[r] = "called" /\ Len(sent[r]) = 1 => cred[r] = sent[r][1]
        /\ pc[r] \in {"lock", "locked", "refreshing"} /\ Retrying(r) => cred[r] = sent[r][1]
        /\ pc[r] \in {"granted", "call"} /\ Retrying(r) => cred[r] # sent[r][1]
        /\ Len(sent[r]) = 2 => sent[r][1] # sent[r][2]

(* A token that is in no row yet is with the one request that bought it. *)
GrantsKept ==
    /\ \A r \in Requests : pc[r] = "granted" => cred[r] = current[acct[r]]
    /\ \A a \in Accounts :
          \/ stored[a] = current[a] \/ unstored \/ expired
          \/ \E r \in Requests : pc[r] = "granted" /\ acct[r] = a

(* The database is open as long as a request may need it, and a request that
   has ended has its entry, unless the shutdown ran into its timeout.        *)
DatabaseOutlives ==
    ~expired =>
        \A r \in Requests :
            /\ ~DatabaseOpen => pc[r] \in {"new", "ended"}
            /\ pc[r] = "ended" => logged[r] # NoStatus

(* Nobody gets to the log without an answer except a client that left. *)
Answered ==
    \A r \in Requests :
        /\ pc[r] = "relay" => reply[r] # NoStatus
        /\ pc[r] \in {"return", "log"} /\ reply[r] = NoStatus => gone[r]

IInv ==
    /\ Types /\ Placed /\ SlotsHeld /\ SlotsCounted /\ MutexHeld
    /\ TokensSent /\ GrantsKept /\ DatabaseOutlives /\ Answered

-----------------------------------------------------------------------------
(* One lemma for each conjunct: which of the others it needs, and what each
   action makes of it.                                                       *)

LEMMA NextPlaceTypes ==
    PlaceTypes /\ [Next]_vars => PlaceTypes'
<1> SUFFICES ASSUME PlaceTypes, [Next]_vars PROVE PlaceTypes'
  OBVIOUS
<1> USE DEF PlaceTypes, Places, Active, Locked, Goto, Fail, slotVars, tokenVars, reqVars,
            mainVars
<1>1. ASSUME NEW r \in Requests,
             \/ Accept(r) \/ CheckRequest(r) \/ LeaveQueue(r)
             \/ ClientForSubscription(r) \/ Relay(r)
      PROVE  PlaceTypes'
  BY <1>1 DEF Accept, CheckRequest, LeaveQueue, ClientForSubscription, Relay
<1>2. ASSUME NEW r \in Requests, ResolveAPIKey(r) PROVE PlaceTypes'
  BY <1>2 DEF ResolveAPIKey
<1>3. ASSUME NEW r \in Requests, Acquire(r) PROVE PlaceTypes'
  BY <1>3 DEF Acquire, Slots!Enter, Slots!Room
<1>4. ASSUME NEW r \in Requests, Lock(r) PROVE PlaceTypes'
  BY <1>4 DEF Lock
<1>5. ASSUME NEW r \in Requests, Reread(r) PROVE PlaceTypes'
  BY <1>5 DEF Reread, AfterCredentials, Fresh, Unlock
<1>6. ASSUME NEW r \in Requests, Refresh(r) PROVE PlaceTypes'
  BY <1>6 DEF Refresh, Unlock
<1>7. ASSUME NEW r \in Requests, Store(r) PROVE PlaceTypes'
  BY <1>7 DEF Store, AfterCredentials, Unlock
<1>8. ASSUME NEW r \in Requests, Call(r) PROVE PlaceTypes'
  BY <1>8 DEF Call
<1>9. ASSUME NEW r \in Requests, Respond(r) PROVE PlaceTypes'
  BY <1>9 DEF Respond
<1>10. ASSUME NEW r \in Requests, Release(r) PROVE PlaceTypes'
  BY <1>10 DEF Release, Slots!Leave
<1>11. ASSUME NEW r \in Requests, RecordRequest(r) PROVE PlaceTypes'
  BY <1>11 DEF RecordRequest, Status
<1>12. ASSUME NEW r \in Requests, Disconnect(r) PROVE PlaceTypes'
  BY <1>12 DEF Disconnect
<1>13. ASSUME NEW a \in Accounts, TimePasses(a) \/ UpdateSettings(a) PROVE PlaceTypes'
  BY <1>13 DEF TimePasses, UpdateSettings
<1>14. CASE MainStep \/ UNCHANGED vars
  BY <1>14 DEF MainStep, Signal, Drained, ShutdownTimeout, Exit, vars
<1> QED BY <1>1, <1>2, <1>3, <1>4, <1>5, <1>6, <1>7, <1>8, <1>9, <1>10, <1>11, <1>12,
           <1>13, <1>14 DEF Next, HandlerStep, ProviderStep

LEMMA NextAnswerTypes ==
    AnswerTypes /\ [Next]_vars => AnswerTypes'
<1> SUFFICES ASSUME AnswerTypes, [Next]_vars PROVE AnswerTypes'
  OBVIOUS
<1> USE DEF AnswerTypes, Statuses, NoStatus, Success, Failure, ClientCanceled, Goto, Fail,
            slotVars, tokenVars, reqVars, mainVars
<1>1. ASSUME NEW r \in Requests,
             \/ CheckRequest(r) \/ LeaveQueue(r) \/ ClientForSubscription(r)
      PROVE  AnswerTypes'
  BY <1>1 DEF CheckRequest, LeaveQueue, ClientForSubscription
<1>2. ASSUME NEW r \in Requests, ResolveAPIKey(r) PROVE AnswerTypes'
  BY <1>2 DEF ResolveAPIKey
<1>3. ASSUME NEW r \in Requests, Reread(r) PROVE AnswerTypes'
  BY <1>3 DEF Reread, AfterCredentials, Fresh, Unlock
<1>4. ASSUME NEW r \in Requests, Refresh(r) PROVE AnswerTypes'
  BY <1>4 DEF Refresh, Unlock
<1>5. ASSUME NEW r \in Requests, Store(r) PROVE AnswerTypes'
  BY <1>5 DEF Store, AfterCredentials, Unlock
<1>6. ASSUME NEW r \in Requests, Respond(r) PROVE AnswerTypes'
  BY <1>6 DEF Respond
<1>7. ASSUME NEW r \in Requests, RecordRequest(r) PROVE AnswerTypes'
  BY <1>7 DEF RecordRequest, Status
<1>8. ASSUME NEW r \in Requests, Disconnect(r) PROVE AnswerTypes'
  BY <1>8 DEF Disconnect
<1>9. ASSUME NEW r \in Requests,
             \/ Accept(r) \/ Relay(r) \/ Acquire(r) \/ Lock(r) \/ Call(r) \/ Release(r)
      PROVE  AnswerTypes'
  BY <1>9 DEF Accept, Relay, Acquire, Lock, Call, Release
<1>10. ASSUME NEW a \in Accounts, TimePasses(a) \/ UpdateSettings(a) PROVE AnswerTypes'
  BY <1>10 DEF TimePasses, UpdateSettings
<1>11. CASE MainStep \/ UNCHANGED vars
  BY <1>11 DEF MainStep, Signal, Drained, ShutdownTimeout, Exit, vars
<1> QED BY <1>1, <1>2, <1>3, <1>4, <1>5, <1>6, <1>7, <1>8, <1>9, <1>10, <1>11 DEF Next,
           HandlerStep, ProviderStep

LEMMA NextGrantTypes ==
    PlaceTypes /\ Placed /\ GrantTypes /\ [Next]_vars => GrantTypes'
<1> SUFFICES ASSUME PlaceTypes, Placed, GrantTypes, [Next]_vars PROVE GrantTypes'
  OBVIOUS
<1> USE GrantsAssumption
<1> USE DEF GrantTypes, PlaceTypes, Placed, Active, Locked, Goto, Fail, slotVars,
            tokenVars, reqVars, mainVars
<1>1. ASSUME NEW r \in Requests, ResolveAPIKey(r) PROVE GrantTypes'
  BY <1>1 DEF ResolveAPIKey
<1>2. ASSUME NEW r \in Requests, Reread(r) PROVE GrantTypes'
  BY <1>2 DEF Reread, AfterCredentials, Fresh, Unlock
<1>3. ASSUME NEW r \in Requests, Refresh(r) PROVE GrantTypes'
  BY <1>3 DEF Refresh, Unlock
<1>4. ASSUME NEW r \in Requests, Store(r) PROVE GrantTypes'
  BY <1>4 DEF Store, AfterCredentials, Unlock
<1>5. ASSUME NEW r \in Requests, RecordRequest(r) PROVE GrantTypes'
  BY <1>5 DEF RecordRequest, Status
<1>6. ASSUME NEW r \in Requests,
             \/ Accept(r) \/ CheckRequest(r) \/ LeaveQueue(r)
             \/ ClientForSubscription(r) \/ Relay(r) \/ Acquire(r) \/ Lock(r) \/ Call(r)
             \/ Respond(r) \/ Release(r) \/ Disconnect(r)
      PROVE  GrantTypes'
  BY <1>6 DEF Accept, CheckRequest, LeaveQueue, ClientForSubscription, Relay, Acquire,
     Lock, Call, Respond, Release, Disconnect
<1>7. ASSUME NEW a \in Accounts, TimePasses(a) \/ UpdateSettings(a) PROVE GrantTypes'
  BY <1>7 DEF TimePasses, UpdateSettings
<1>8. CASE MainStep \/ UNCHANGED vars
  BY <1>8 DEF MainStep, Signal, Drained, ShutdownTimeout, Exit, vars
<1> QED BY <1>1, <1>2, <1>3, <1>4, <1>5, <1>6, <1>7, <1>8 DEF Next, HandlerStep,
           ProviderStep

LEMMA NextSentType ==
    PlaceTypes /\ Placed /\ SentType /\ [Next]_vars => SentType'
<1> SUFFICES ASSUME PlaceTypes, Placed, SentType, [Next]_vars PROVE SentType'
  OBVIOUS
<1> USE DEF SentType, Placed, Active, Goto, Fail, slotVars, tokenVars, reqVars, mainVars
<1>1. ASSUME NEW r \in Requests, Call(r) PROVE SentType'
  BY <1>1 DEF Call
<1>2. ASSUME NEW r \in Requests, RecordRequest(r) PROVE SentType'
  BY <1>2 DEF RecordRequest, Status
<1>3. ASSUME NEW r \in Requests,
             \/ Accept(r) \/ CheckRequest(r) \/ LeaveQueue(r)
             \/ ClientForSubscription(r) \/ Relay(r) \/ ResolveAPIKey(r) \/ Acquire(r)
             \/ Lock(r) \/ Reread(r) \/ Refresh(r) \/ Store(r) \/ Respond(r)
             \/ Release(r) \/ Disconnect(r)
      PROVE  SentType'
  BY <1>3 DEF Accept, CheckRequest, LeaveQueue, ClientForSubscription, Relay,
     ResolveAPIKey, Acquire, Lock, Reread, Refresh, Store, Respond, Release, Disconnect
<1>4. ASSUME NEW a \in Accounts, TimePasses(a) \/ UpdateSettings(a) PROVE SentType'
  BY <1>4 DEF TimePasses, UpdateSettings
<1>5. CASE MainStep \/ UNCHANGED vars
  BY <1>5 DEF MainStep, Signal, Drained, ShutdownTimeout, Exit, vars
<1> QED BY <1>1, <1>2, <1>3, <1>4, <1>5 DEF Next, HandlerStep, ProviderStep

LEMMA NextOwnerType ==
    OwnerType /\ [Next]_vars => OwnerType'
<1> SUFFICES ASSUME OwnerType, [Next]_vars PROVE OwnerType'
  OBVIOUS
<1> USE DEF OwnerType, Goto, Fail, slotVars, tokenVars, reqVars, mainVars
<1>1. ASSUME NEW r \in Requests, Lock(r) PROVE OwnerType'
  BY <1>1 DEF Lock
<1>2. ASSUME NEW r \in Requests, Reread(r) PROVE OwnerType'
  BY <1>2 DEF Reread, AfterCredentials, Fresh, Unlock
<1>3. ASSUME NEW r \in Requests, Refresh(r) PROVE OwnerType'
  BY <1>3 DEF Refresh, Unlock
<1>4. ASSUME NEW r \in Requests, Store(r) PROVE OwnerType'
  BY <1>4 DEF Store, AfterCredentials, Unlock
<1>5. ASSUME NEW r \in Requests,
             \/ Accept(r) \/ CheckRequest(r) \/ LeaveQueue(r)
             \/ ClientForSubscription(r) \/ Relay(r) \/ ResolveAPIKey(r) \/ Acquire(r)
             \/ Call(r) \/ Respond(r) \/ Release(r) \/ RecordRequest(r) \/ Disconnect(r)
      PROVE  OwnerType'
  BY <1>5 DEF Accept, CheckRequest, LeaveQueue, ClientForSubscription, Relay,
     ResolveAPIKey, Acquire, Call, Respond, Release, RecordRequest, Disconnect
<1>6. ASSUME NEW a \in Accounts, TimePasses(a) \/ UpdateSettings(a) PROVE OwnerType'
  BY <1>6 DEF TimePasses, UpdateSettings
<1>7. CASE MainStep \/ UNCHANGED vars
  BY <1>7 DEF MainStep, Signal, Drained, ShutdownTimeout, Exit, vars
<1> QED BY <1>1, <1>2, <1>3, <1>4, <1>5, <1>6, <1>7 DEF Next, HandlerStep, ProviderStep

LEMMA NextSlotTypes ==
    PlaceTypes /\ SlotTypes /\ Placed /\ SlotsHeld /\ SlotsCounted /\ [Next]_vars =>
        SlotTypes'
<1> SUFFICES ASSUME PlaceTypes, SlotTypes, Placed, SlotsHeld, SlotsCounted, [Next]_vars
                    PROVE SlotTypes'
  OBVIOUS
<1> USE DEF PlaceTypes, SlotTypes, Placed, Active, Goto, Fail, slotVars, tokenVars,
            reqVars, mainVars
<1>1. ASSUME NEW r \in Requests, Acquire(r)
      PROVE  SlotTypes'
  BY <1>1 DEF Acquire, Slots!Enter
<1>2. ASSUME NEW r \in Requests, Release(r)
      PROVE  SlotTypes'
  <2>1. CASE \E a \in Accounts : r \in holding[a]
    <3>1. PICK a \in Accounts : a = acct[r] /\ Slots!Leave(a, r)
      BY <1>2, <2>1 DEF Release, SlotsHeld
    <3>2. taken[a] # 0
      BY <3>1, FS_EmptySet DEF Slots!Leave, SlotsCounted
    <3> QED BY <3>1, <3>2 DEF Slots!Leave
  <2>2. CASE ~\E a \in Accounts : r \in holding[a]
    BY <1>2, <2>2 DEF Release
  <2> QED BY <2>1, <2>2
<1>3. ASSUME NEW r \in Requests,
             \/ Accept(r) \/ CheckRequest(r) \/ LeaveQueue(r)
             \/ ClientForSubscription(r) \/ Relay(r) \/ ResolveAPIKey(r) \/ Lock(r)
             \/ Reread(r) \/ Refresh(r) \/ Store(r) \/ Call(r) \/ Respond(r)
             \/ RecordRequest(r) \/ Disconnect(r)
      PROVE  SlotTypes'
  BY <1>3 DEF Accept, CheckRequest, LeaveQueue, ClientForSubscription, Relay,
     ResolveAPIKey, Lock, Reread, Refresh, Store, Call, Respond, RecordRequest, Disconnect
<1>4. ASSUME NEW a \in Accounts, UpdateSettings(a)
      PROVE  SlotTypes'
  <2>1. PICK S \in SUBSET Limits, n \in {rebuilt[a], rebuilt[a] + 1} :
            settings' = [settings EXCEPT ![a] = S] /\ rebuilt' = [rebuilt EXCEPT ![a] = n]
    BY <1>4 DEF UpdateSettings, Slots!Touch
  <2>2. n \in 0..MaxTouches
    BY <1>4, <2>1, GrantsAssumption DEF UpdateSettings
  <2> QED BY <1>4, <2>1, <2>2 DEF UpdateSettings, Slots!Touch
<1>5. ASSUME NEW a \in Accounts, TimePasses(a) PROVE SlotTypes'
  BY <1>5 DEF TimePasses
<1>6. CASE MainStep \/ UNCHANGED vars
  BY <1>6 DEF MainStep, Signal, Drained, ShutdownTimeout, Exit, vars
<1> QED BY <1>1, <1>2, <1>3, <1>4, <1>5, <1>6 DEF Next, HandlerStep, ProviderStep

LEMMA NextMainTypes ==
    GrantTypes /\ MainTypes /\ [Next]_vars => MainTypes'
<1> SUFFICES ASSUME GrantTypes, MainTypes, [Next]_vars PROVE MainTypes'
  OBVIOUS
<1> USE DEF GrantTypes, MainTypes, Goto, Fail, slotVars, tokenVars, reqVars, mainVars
<1>1. ASSUME NEW r \in Requests, Store(r) PROVE MainTypes'
  BY <1>1 DEF Store, AfterCredentials, Unlock
<1>2. ASSUME NEW r \in Requests,
             \/ Accept(r) \/ CheckRequest(r) \/ LeaveQueue(r)
             \/ ClientForSubscription(r) \/ Relay(r) \/ ResolveAPIKey(r) \/ Acquire(r)
             \/ Lock(r) \/ Reread(r) \/ Refresh(r) \/ Call(r) \/ Respond(r)
             \/ Release(r) \/ RecordRequest(r) \/ Disconnect(r)
      PROVE  MainTypes'
  BY <1>2 DEF Accept, CheckRequest, LeaveQueue, ClientForSubscription, Relay,
     ResolveAPIKey, Acquire, Lock, Reread, Refresh, Call, Respond, Release, RecordRequest,
     Disconnect
<1>3. ASSUME NEW a \in Accounts, TimePasses(a) PROVE MainTypes'
  BY <1>3 DEF TimePasses
<1>4. ASSUME NEW a \in Accounts, UpdateSettings(a) PROVE MainTypes'
  BY <1>4 DEF UpdateSettings
<1>5. CASE MainStep \/ UNCHANGED vars
  BY <1>5 DEF MainStep, Signal, Drained, ShutdownTimeout, Exit, vars
<1> QED BY <1>1, <1>2, <1>3, <1>4, <1>5 DEF Next, HandlerStep, ProviderStep

LEMMA NextPlaced ==
    PlaceTypes /\ GrantTypes /\ Placed /\ [Next]_vars => Placed'
<1> SUFFICES ASSUME PlaceTypes, GrantTypes, Placed, [Next]_vars PROVE Placed'
  OBVIOUS
<1> USE DEF PlaceTypes, GrantTypes, Placed, Places, Active, Locked, Goto, Fail, slotVars,
            tokenVars, reqVars, mainVars
<1>1. ASSUME NEW r \in Requests,
             \/ Accept(r) \/ CheckRequest(r) \/ LeaveQueue(r)
             \/ ClientForSubscription(r) \/ Relay(r)
      PROVE  Placed'
  BY <1>1 DEF Accept, CheckRequest, LeaveQueue, ClientForSubscription, Relay
<1>2. ASSUME NEW r \in Requests, ResolveAPIKey(r) PROVE Placed'
  BY <1>2 DEF ResolveAPIKey
<1>3. ASSUME NEW r \in Requests, Acquire(r) PROVE Placed'
  BY <1>3 DEF Acquire, Slots!Enter, Slots!Room
<1>4. ASSUME NEW r \in Requests, Lock(r) PROVE Placed'
  BY <1>4 DEF Lock
<1>5. ASSUME NEW r \in Requests, Reread(r) PROVE Placed'
  BY <1>5 DEF Reread, AfterCredentials, Fresh, Unlock
<1>6. ASSUME NEW r \in Requests, Refresh(r)
      PROVE  Placed'
  <2>1. acct[r] \in Accounts /\ cred[r] \in 1..MaxGrants
    BY <1>6 DEF Refresh
  <2>2. CASE pc' = [pc EXCEPT ![r] = "return"] /\ cred' = cred
    BY <1>6, <2>2 DEF Refresh
  <2>3. CASE /\ pc' = [pc EXCEPT ![r] = "granted"]
             /\ cred' = [cred EXCEPT ![r] = current[acct[r]] + 1] /\ current[acct[r]] <
                 MaxGrants
    BY <1>6, <2>1, <2>3, GrantsAssumption DEF Refresh
  <2> QED BY <1>6, <2>2, <2>3 DEF Refresh
<1>7. ASSUME NEW r \in Requests, Store(r) PROVE Placed'
  BY <1>7 DEF Store, AfterCredentials, Unlock
<1>8. ASSUME NEW r \in Requests, Call(r) PROVE Placed'
  BY <1>8 DEF Call
<1>9. ASSUME NEW r \in Requests, Respond(r) PROVE Placed'
  BY <1>9 DEF Respond
<1>10. ASSUME NEW r \in Requests, Release(r) PROVE Placed'
  BY <1>10 DEF Release, Slots!Leave
<1>11. ASSUME NEW r \in Requests, RecordRequest(r) PROVE Placed'
  BY <1>11 DEF RecordRequest, Status
<1>12. ASSUME NEW r \in Requests, Disconnect(r) PROVE Placed'
  BY <1>12 DEF Disconnect
<1>13. ASSUME NEW a \in Accounts, TimePasses(a) \/ UpdateSettings(a) PROVE Placed'
  BY <1>13 DEF TimePasses, UpdateSettings
<1>14. CASE MainStep \/ UNCHANGED vars
  BY <1>14 DEF MainStep, Signal, Drained, ShutdownTimeout, Exit, vars
<1> QED BY <1>1, <1>2, <1>3, <1>4, <1>5, <1>6, <1>7, <1>8, <1>9, <1>10, <1>11, <1>12,
           <1>13, <1>14 DEF Next, HandlerStep, ProviderStep

LEMMA NextSlotsHeld ==
    PlaceTypes /\ SlotTypes /\ SentType /\ Placed /\ SlotsHeld /\ TokensSent /\
        [Next]_vars => SlotsHeld'
<1> SUFFICES ASSUME PlaceTypes, SlotTypes, SentType, Placed, SlotsHeld, TokensSent,
                    [Next]_vars PROVE SlotsHeld'
  OBVIOUS
<1> USE DEF PlaceTypes, SlotTypes, SentType, Placed, SlotsHeld, TokensSent, WithSlot,
            Admitted, Active, Locked, Retrying, Goto, Fail, slotVars, tokenVars, reqVars,
            mainVars
<1>1. ASSUME NEW r \in Requests, Accept(r) \/ CheckRequest(r) \/ LeaveQueue(r) \/
    ClientForSubscription(r) \/ Relay(r)
      PROVE  SlotsHeld'
  <2>1. \A q \in Requests \ {r} : pc'[q] = pc[q] /\ acct'[q] = acct[q] /\ sent'[q] =
      sent[q]
    BY <1>1 DEF Accept, CheckRequest, LeaveQueue, ClientForSubscription, Relay
  <2>2. holding' = holding
    BY <1>1 DEF Accept, CheckRequest, LeaveQueue, ClientForSubscription, Relay
  <2>3. \A a \in Accounts :
            /\ r \in holding[a] => acct'[r] = a /\ (WithSlot(r)' \/ pc'[r] = "return")
            /\ WithSlot(r)' /\ acct'[r] = a => r \in holding[a]
    BY <1>1 DEF Accept, CheckRequest, LeaveQueue, ClientForSubscription, Relay
  <2> QED BY <2>1, <2>2, <2>3
<1>2. ASSUME NEW r \in Requests, ResolveAPIKey(r)
      PROVE  SlotsHeld'
  <2>1. \A q \in Requests \ {r} : pc'[q] = pc[q] /\ acct'[q] = acct[q] /\ sent'[q] =
      sent[q]
    BY <1>2 DEF ResolveAPIKey
  <2>2. holding' = holding
    BY <1>2 DEF ResolveAPIKey
  <2>3. \A a \in Accounts :
            /\ r \in holding[a] => acct'[r] = a /\ (WithSlot(r)' \/ pc'[r] = "return")
            /\ WithSlot(r)' /\ acct'[r] = a => r \in holding[a]
    BY <1>2 DEF ResolveAPIKey
  <2> QED BY <2>1, <2>2, <2>3
<1>3. ASSUME NEW r \in Requests, Acquire(r) PROVE SlotsHeld'
  BY <1>3 DEF Acquire, Slots!Enter, Slots!Room
<1>4. ASSUME NEW r \in Requests, Lock(r) PROVE SlotsHeld'
  BY <1>4 DEF Lock
<1>5. ASSUME NEW r \in Requests, Reread(r)
      PROVE  SlotsHeld'
  <2>1. \A q \in Requests \ {r} : pc'[q] = pc[q] /\ acct'[q] = acct[q] /\ sent'[q] =
      sent[q]
    BY <1>5 DEF Reread, AfterCredentials, Unlock
  <2>2. holding' = holding
    BY <1>5 DEF Reread, AfterCredentials, Unlock
  <2>3. \A a \in Accounts :
            /\ r \in holding[a] => acct'[r] = a /\ (WithSlot(r)' \/ pc'[r] = "return")
            /\ WithSlot(r)' /\ acct'[r] = a => r \in holding[a]
    BY <1>5 DEF Reread, AfterCredentials, Unlock
  <2> QED BY <2>1, <2>2, <2>3
<1>6. ASSUME NEW r \in Requests, Refresh(r)
      PROVE  SlotsHeld'
  <2>1. \A q \in Requests \ {r} : pc'[q] = pc[q] /\ acct'[q] = acct[q] /\ sent'[q] =
      sent[q]
    BY <1>6 DEF Refresh
  <2>2. holding' = holding
    BY <1>6 DEF Refresh
  <2>3. \A a \in Accounts :
            /\ r \in holding[a] => acct'[r] = a /\ (WithSlot(r)' \/ pc'[r] = "return")
            /\ WithSlot(r)' /\ acct'[r] = a => r \in holding[a]
    BY <1>6 DEF Refresh
  <2> QED BY <2>1, <2>2, <2>3
<1>7. ASSUME NEW r \in Requests, Store(r)
      PROVE  SlotsHeld'
  <2>1. \A q \in Requests \ {r} : pc'[q] = pc[q] /\ acct'[q] = acct[q] /\ sent'[q] =
      sent[q]
    BY <1>7 DEF Store, AfterCredentials
  <2>2. holding' = holding
    BY <1>7 DEF Store, AfterCredentials
  <2>3. \A a \in Accounts :
            /\ r \in holding[a] => acct'[r] = a /\ (WithSlot(r)' \/ pc'[r] = "return")
            /\ WithSlot(r)' /\ acct'[r] = a => r \in holding[a]
    BY <1>7 DEF Store, AfterCredentials
  <2> QED BY <2>1, <2>2, <2>3
<1>8. ASSUME NEW r \in Requests, Call(r) PROVE SlotsHeld'
  BY <1>8 DEF Call
<1>9. ASSUME NEW r \in Requests, Respond(r)
      PROVE  SlotsHeld'
  <2>1. \A q \in Requests \ {r} : pc'[q] = pc[q] /\ acct'[q] = acct[q] /\ sent'[q] =
      sent[q]
    BY <1>9 DEF Respond
  <2>2. holding' = holding
    BY <1>9 DEF Respond
  <2>3. \A a \in Accounts :
            /\ r \in holding[a] => acct'[r] = a /\ (WithSlot(r)' \/ pc'[r] = "return")
            /\ WithSlot(r)' /\ acct'[r] = a => r \in holding[a]
    BY <1>9 DEF Respond
  <2> QED BY <2>1, <2>2, <2>3
<1>10. ASSUME NEW r \in Requests, Release(r)
      PROVE  SlotsHeld'
  <2>1. CASE \E a \in Accounts : r \in holding[a]
    <3>1. Slots!Leave(acct[r], r) /\ acct[r] \in Accounts
      BY <1>10, <2>1 DEF Release
    <3>2. \A a \in Accounts : r \notin holding'[a]
      BY <3>1 DEF Slots!Leave
    <3> QED BY <1>10, <3>1, <3>2 DEF Release, Slots!Leave
  <2>2. CASE ~\E a \in Accounts : r \in holding[a]
    BY <1>10, <2>2 DEF Release
  <2> QED BY <2>1, <2>2
<1>11. ASSUME NEW r \in Requests, RecordRequest(r) PROVE SlotsHeld'
  BY <1>11 DEF RecordRequest, Status
<1>12. ASSUME NEW r \in Requests, Disconnect(r) PROVE SlotsHeld'
  BY <1>12 DEF Disconnect
<1>13. ASSUME NEW a \in Accounts, TimePasses(a) \/ UpdateSettings(a) PROVE SlotsHeld'
  BY <1>13 DEF TimePasses, UpdateSettings, Slots!Touch
<1>14. CASE MainStep \/ UNCHANGED vars
  BY <1>14 DEF MainStep, Signal, Drained, ShutdownTimeout, Exit, vars
<1> QED BY <1>1, <1>2, <1>3, <1>4, <1>5, <1>6, <1>7, <1>8, <1>9, <1>10, <1>11, <1>12,
           <1>13, <1>14 DEF Next, HandlerStep, ProviderStep

LEMMA NextSlotsCounted ==
    PlaceTypes /\ SlotTypes /\ Placed /\ SlotsHeld /\ SlotsCounted /\ [Next]_vars =>
        SlotsCounted'
<1> SUFFICES ASSUME PlaceTypes, SlotTypes, Placed, SlotsHeld, SlotsCounted, [Next]_vars
                    PROVE SlotsCounted'
  OBVIOUS
<1> USE LimitsAssumption
<1> USE DEF PlaceTypes, SlotTypes, Placed, SlotsCounted, Active, Goto, Fail, slotVars,
            tokenVars, reqVars, mainVars
<1>1. ASSUME NEW r \in Requests, Acquire(r)
      PROVE  SlotsCounted'
  <2>1. PICK a \in Accounts : a = acct[r] /\ Slots!Enter(a, r)
    BY <1>1 DEF Acquire
  <2>2. /\ IsFiniteSet(holding[a] \union {r})
        /\ Cardinality(holding[a] \union {r}) = taken[a] + 1
    BY <2>1, FS_AddElement DEF Slots!Enter
  <2>3. \A l \in Limits : settings[a] = {l} /\ rebuilt[a] = 0 => taken[a] + 1 <= l
    BY <2>1 DEF Slots!Enter, Slots!Room
  <2> QED BY <2>1, <2>2, <2>3 DEF Slots!Enter
<1>2. ASSUME NEW r \in Requests, Release(r)
      PROVE  SlotsCounted'
  <2>1. CASE \E a \in Accounts : r \in holding[a]
    <3>1. PICK a \in Accounts : a = acct[r] /\ Slots!Leave(a, r)
      BY <1>2, <2>1 DEF Release, SlotsHeld
    <3>2. /\ IsFiniteSet(holding[a] \ {r})
          /\ Cardinality(holding[a] \ {r}) = taken[a] - 1
          /\ taken[a] - 1 < taken[a]
      BY <3>1, FS_RemoveElement DEF Slots!Leave
    <3> QED BY <3>1, <3>2 DEF Slots!Leave
  <2>2. CASE ~\E a \in Accounts : r \in holding[a]
    BY <1>2, <2>2 DEF Release
  <2> QED BY <2>1, <2>2
<1>3. ASSUME NEW r \in Requests,
             \/ Accept(r) \/ CheckRequest(r) \/ LeaveQueue(r)
             \/ ClientForSubscription(r) \/ Relay(r) \/ ResolveAPIKey(r) \/ Lock(r)
             \/ Reread(r) \/ Refresh(r) \/ Store(r) \/ Call(r) \/ Respond(r)
             \/ RecordRequest(r) \/ Disconnect(r)
      PROVE  SlotsCounted'
  BY <1>3 DEF Accept, CheckRequest, LeaveQueue, ClientForSubscription, Relay,
     ResolveAPIKey, Lock, Reread, Refresh, Store, Call, Respond, RecordRequest, Disconnect
<1>4. ASSUME NEW a \in Accounts, UpdateSettings(a) PROVE SlotsCounted'
  BY <1>4 DEF UpdateSettings, Slots!Touch
<1>5. ASSUME NEW a \in Accounts, TimePasses(a) PROVE SlotsCounted'
  BY <1>5 DEF TimePasses
<1>6. CASE MainStep \/ UNCHANGED vars
  BY <1>6 DEF MainStep, Signal, Drained, ShutdownTimeout, Exit, vars
<1> QED BY <1>1, <1>2, <1>3, <1>4, <1>5, <1>6 DEF Next, HandlerStep, ProviderStep

LEMMA NextMutexHeld ==
    PlaceTypes /\ OwnerType /\ Placed /\ MutexHeld /\ [Next]_vars => MutexHeld'
<1> SUFFICES ASSUME PlaceTypes, OwnerType, Placed, MutexHeld, [Next]_vars PROVE MutexHeld'
  OBVIOUS
<1> USE NobodyAssumption
<1> USE DEF PlaceTypes, OwnerType, Placed, MutexHeld, Active, Locked, Goto, Fail,
            slotVars, tokenVars, reqVars, mainVars
<1>1. ASSUME NEW r \in Requests,
             \/ Accept(r) \/ CheckRequest(r) \/ LeaveQueue(r)
             \/ ClientForSubscription(r) \/ Relay(r)
      PROVE  MutexHeld'
  BY <1>1 DEF Accept, CheckRequest, LeaveQueue, ClientForSubscription, Relay
<1>2. ASSUME NEW r \in Requests, ResolveAPIKey(r) PROVE MutexHeld'
  BY <1>2 DEF ResolveAPIKey
<1>3. ASSUME NEW r \in Requests, Acquire(r) PROVE MutexHeld'
  BY <1>3 DEF Acquire, Slots!Enter, Slots!Room
<1>4. ASSUME NEW r \in Requests, Lock(r) PROVE MutexHeld'
  BY <1>4 DEF Lock
<1>5. ASSUME NEW r \in Requests, Reread(r) PROVE MutexHeld'
  BY <1>5 DEF Reread, AfterCredentials, Fresh, Unlock
<1>6. ASSUME NEW r \in Requests, Refresh(r) PROVE MutexHeld'
  BY <1>6 DEF Refresh, Unlock
<1>7. ASSUME NEW r \in Requests, Store(r) PROVE MutexHeld'
  BY <1>7 DEF Store, AfterCredentials, Unlock
<1>8. ASSUME NEW r \in Requests, Call(r) PROVE MutexHeld'
  BY <1>8 DEF Call
<1>9. ASSUME NEW r \in Requests, Respond(r) PROVE MutexHeld'
  BY <1>9 DEF Respond
<1>10. ASSUME NEW r \in Requests, Release(r) PROVE MutexHeld'
  BY <1>10 DEF Release, Slots!Leave
<1>11. ASSUME NEW r \in Requests, RecordRequest(r) PROVE MutexHeld'
  BY <1>11 DEF RecordRequest, Status
<1>12. ASSUME NEW r \in Requests, Disconnect(r) PROVE MutexHeld'
  BY <1>12 DEF Disconnect
<1>13. ASSUME NEW a \in Accounts, TimePasses(a) \/ UpdateSettings(a) PROVE MutexHeld'
  BY <1>13 DEF TimePasses, UpdateSettings
<1>14. CASE MainStep \/ UNCHANGED vars
  BY <1>14 DEF MainStep, Signal, Drained, ShutdownTimeout, Exit, vars
<1> QED BY <1>1, <1>2, <1>3, <1>4, <1>5, <1>6, <1>7, <1>8, <1>9, <1>10, <1>11, <1>12,
           <1>13, <1>14 DEF Next, HandlerStep, ProviderStep

LEMMA NextTokensSent ==
    PlaceTypes /\ GrantTypes /\ SentType /\ Placed /\ TokensSent /\ [Next]_vars =>
        TokensSent'
<1> SUFFICES ASSUME PlaceTypes, GrantTypes, SentType, Placed, TokensSent, [Next]_vars
                    PROVE TokensSent'
  OBVIOUS
<1> USE DEF PlaceTypes, GrantTypes, SentType, Placed, TokensSent, Active, Locked,
            Retrying, Goto, Fail, slotVars, tokenVars, reqVars, mainVars
<1>1. ASSUME NEW r \in Requests,
             \/ Accept(r) \/ CheckRequest(r) \/ LeaveQueue(r)
             \/ ClientForSubscription(r) \/ Relay(r)
      PROVE  TokensSent'
  BY <1>1 DEF Accept, CheckRequest, LeaveQueue, ClientForSubscription, Relay
<1>2. ASSUME NEW r \in Requests, ResolveAPIKey(r) PROVE TokensSent'
  BY <1>2 DEF ResolveAPIKey
<1>3. ASSUME NEW r \in Requests, Acquire(r) PROVE TokensSent'
  BY <1>3 DEF Acquire, Slots!Enter, Slots!Room
<1>4. ASSUME NEW r \in Requests, Lock(r) PROVE TokensSent'
  BY <1>4 DEF Lock
<1>5. ASSUME NEW r \in Requests, Reread(r) PROVE TokensSent'
  BY <1>5 DEF Reread, AfterCredentials, Fresh, Unlock
<1>6. ASSUME NEW r \in Requests, Refresh(r) PROVE TokensSent'
  BY <1>6 DEF Refresh, Unlock
<1>7. ASSUME NEW r \in Requests, Store(r) PROVE TokensSent'
  BY <1>7 DEF Store, AfterCredentials, Unlock
<1>8. ASSUME NEW r \in Requests, Call(r) PROVE TokensSent'
  BY <1>8 DEF Call
<1>9. ASSUME NEW r \in Requests, Respond(r) PROVE TokensSent'
  BY <1>9 DEF Respond
<1>10. ASSUME NEW r \in Requests, Release(r) PROVE TokensSent'
  BY <1>10 DEF Release, Slots!Leave
<1>11. ASSUME NEW r \in Requests, RecordRequest(r) PROVE TokensSent'
  BY <1>11 DEF RecordRequest, Status
<1>12. ASSUME NEW r \in Requests, Disconnect(r) PROVE TokensSent'
  BY <1>12 DEF Disconnect
<1>13. ASSUME NEW a \in Accounts, TimePasses(a) \/ UpdateSettings(a) PROVE TokensSent'
  BY <1>13 DEF TimePasses, UpdateSettings
<1>14. CASE MainStep \/ UNCHANGED vars
  BY <1>14 DEF MainStep, Signal, Drained, ShutdownTimeout, Exit, vars
<1> QED BY <1>1, <1>2, <1>3, <1>4, <1>5, <1>6, <1>7, <1>8, <1>9, <1>10, <1>11, <1>12,
           <1>13, <1>14 DEF Next, HandlerStep, ProviderStep

LEMMA NextGrantsKept ==
    PlaceTypes /\ GrantTypes /\ Placed /\ MutexHeld /\ GrantsKept /\ DatabaseOutlives /\
        [Next]_vars => GrantsKept'
<1> SUFFICES ASSUME PlaceTypes, GrantTypes, Placed, MutexHeld, GrantsKept,
                    DatabaseOutlives, [Next]_vars PROVE GrantsKept'
  OBVIOUS
<1> USE DEF PlaceTypes, GrantTypes, Placed, MutexHeld, GrantsKept, DatabaseOutlives,
            DatabaseOpen, QueryFails, Active, Locked, Goto, Fail, slotVars, tokenVars,
            reqVars, mainVars
<1>1. ASSUME NEW r \in Requests,
             \/ Accept(r) \/ CheckRequest(r) \/ LeaveQueue(r)
             \/ ClientForSubscription(r) \/ Relay(r)
      PROVE  GrantsKept'
  BY <1>1 DEF Accept, CheckRequest, LeaveQueue, ClientForSubscription, Relay
<1>2. ASSUME NEW r \in Requests, ResolveAPIKey(r) PROVE GrantsKept'
  BY <1>2 DEF ResolveAPIKey
<1>3. ASSUME NEW r \in Requests, Acquire(r) PROVE GrantsKept'
  BY <1>3 DEF Acquire, Slots!Enter, Slots!Room
<1>4. ASSUME NEW r \in Requests, Lock(r) PROVE GrantsKept'
  BY <1>4 DEF Lock
<1>5. ASSUME NEW r \in Requests, Reread(r) PROVE GrantsKept'
  BY <1>5 DEF Reread, AfterCredentials, Fresh, Unlock
<1>6. ASSUME NEW r \in Requests, Refresh(r) PROVE GrantsKept'
  BY <1>6 DEF Refresh, Unlock
<1>7. ASSUME NEW r \in Requests, Store(r)
      PROVE  GrantsKept'
  <2>1. acct[r] \in Accounts /\ cred[r] = current[acct[r]] /\ pc'[r] # "granted"
    BY <1>7 DEF Store, AfterCredentials
  <2>2. \A q \in Requests \ {r} : pc'[q] = pc[q] /\ acct'[q] = acct[q] /\ cred'[q] =
      cred[q]
    BY <1>7 DEF Store, AfterCredentials
  <2>3. stored'[acct[r]] = current'[acct[r]] \/ unstored' \/ expired'
    <3>1. CASE ~QueryFails(r)
      BY <1>7, <2>1, <3>1 DEF Store
    <3>2. CASE gone[r] /\ DatabaseOpen
      BY <1>7, <3>2, Zenon DEF Store
    <3>3. CASE ~DatabaseOpen
      BY <1>7, <3>3 DEF Store
    <3> QED BY <3>1, <3>2, <3>3
  <2>4. \A a \in Accounts \ {acct[r]} : stored'[a] = stored[a] /\ current'[a] = current[a]
    BY <1>7 DEF Store
  <2>5. (unstored => unstored') /\ expired' = expired /\ current' = current
    BY <1>7 DEF Store
  <2> QED BY <2>1, <2>2, <2>3, <2>4, <2>5
<1>8. ASSUME NEW r \in Requests, Call(r) PROVE GrantsKept'
  BY <1>8 DEF Call
<1>9. ASSUME NEW r \in Requests, Respond(r) PROVE GrantsKept'
  BY <1>9 DEF Respond
<1>10. ASSUME NEW r \in Requests, Release(r) PROVE GrantsKept'
  BY <1>10 DEF Release, Slots!Leave
<1>11. ASSUME NEW r \in Requests, RecordRequest(r) PROVE GrantsKept'
  BY <1>11 DEF RecordRequest, Status
<1>12. ASSUME NEW r \in Requests, Disconnect(r) PROVE GrantsKept'
  BY <1>12 DEF Disconnect
<1>13. ASSUME NEW a \in Accounts, TimePasses(a) \/ UpdateSettings(a) PROVE GrantsKept'
  BY <1>13 DEF TimePasses, UpdateSettings
<1>14. CASE MainStep \/ UNCHANGED vars
  BY <1>14 DEF MainStep, Signal, Drained, ShutdownTimeout, Exit, vars
<1> QED BY <1>1, <1>2, <1>3, <1>4, <1>5, <1>6, <1>7, <1>8, <1>9, <1>10, <1>11, <1>12,
           <1>13, <1>14 DEF Next, HandlerStep, ProviderStep

LEMMA NextDatabaseOutlives ==
    PlaceTypes /\ AnswerTypes /\ DatabaseOutlives /\ [Next]_vars => DatabaseOutlives'
<1> SUFFICES ASSUME PlaceTypes, AnswerTypes, DatabaseOutlives, [Next]_vars PROVE
                    DatabaseOutlives'
  OBVIOUS
<1> USE DEF PlaceTypes, AnswerTypes, DatabaseOutlives, DatabaseOpen, NoStatus, Success,
            Failure, ClientCanceled, Goto, Fail, slotVars, tokenVars, reqVars, mainVars
<1>1. ASSUME NEW r \in Requests,
             \/ Accept(r) \/ CheckRequest(r) \/ LeaveQueue(r)
             \/ ClientForSubscription(r) \/ Relay(r)
      PROVE  DatabaseOutlives'
  BY <1>1 DEF Accept, CheckRequest, LeaveQueue, ClientForSubscription, Relay
<1>2. ASSUME NEW r \in Requests, ResolveAPIKey(r) PROVE DatabaseOutlives'
  BY <1>2 DEF ResolveAPIKey
<1>3. ASSUME NEW r \in Requests, Acquire(r) PROVE DatabaseOutlives'
  BY <1>3 DEF Acquire, Slots!Enter, Slots!Room
<1>4. ASSUME NEW r \in Requests, Lock(r) PROVE DatabaseOutlives'
  BY <1>4 DEF Lock
<1>5. ASSUME NEW r \in Requests, Reread(r) PROVE DatabaseOutlives'
  BY <1>5 DEF Reread, AfterCredentials, Fresh, Unlock
<1>6. ASSUME NEW r \in Requests, Refresh(r) PROVE DatabaseOutlives'
  BY <1>6 DEF Refresh, Unlock
<1>7. ASSUME NEW r \in Requests, Store(r) PROVE DatabaseOutlives'
  BY <1>7 DEF Store, AfterCredentials, Unlock
<1>8. ASSUME NEW r \in Requests, Call(r) PROVE DatabaseOutlives'
  BY <1>8 DEF Call
<1>9. ASSUME NEW r \in Requests, Respond(r) PROVE DatabaseOutlives'
  BY <1>9 DEF Respond
<1>10. ASSUME NEW r \in Requests, Release(r) PROVE DatabaseOutlives'
  BY <1>10 DEF Release, Slots!Leave
<1>11. ASSUME NEW r \in Requests, RecordRequest(r) PROVE DatabaseOutlives'
  BY <1>11 DEF RecordRequest, Status
<1>12. ASSUME NEW r \in Requests, Disconnect(r) PROVE DatabaseOutlives'
  BY <1>12 DEF Disconnect
<1>13. ASSUME NEW a \in Accounts, TimePasses(a) \/ UpdateSettings(a) PROVE
    DatabaseOutlives'
  BY <1>13 DEF TimePasses, UpdateSettings
<1>14. CASE MainStep \/ UNCHANGED vars
  BY <1>14 DEF MainStep, Signal, Drained, ShutdownTimeout, Exit, vars
<1> QED BY <1>1, <1>2, <1>3, <1>4, <1>5, <1>6, <1>7, <1>8, <1>9, <1>10, <1>11, <1>12,
           <1>13, <1>14 DEF Next, HandlerStep, ProviderStep

LEMMA NextAnswered ==
    PlaceTypes /\ AnswerTypes /\ Answered /\ [Next]_vars => Answered'
<1> SUFFICES ASSUME PlaceTypes, AnswerTypes, Answered, [Next]_vars PROVE Answered'
  OBVIOUS
<1> USE DEF PlaceTypes, AnswerTypes, Answered, NoStatus, Success, Failure, Goto, Fail,
            slotVars, tokenVars, reqVars, mainVars
<1>1. ASSUME NEW r \in Requests,
             \/ Accept(r) \/ CheckRequest(r) \/ LeaveQueue(r)
             \/ ClientForSubscription(r) \/ Relay(r)
      PROVE  Answered'
  BY <1>1 DEF Accept, CheckRequest, LeaveQueue, ClientForSubscription, Relay
<1>2. ASSUME NEW r \in Requests, ResolveAPIKey(r) PROVE Answered'
  BY <1>2 DEF ResolveAPIKey
<1>3. ASSUME NEW r \in Requests, Acquire(r) PROVE Answered'
  BY <1>3 DEF Acquire, Slots!Enter, Slots!Room
<1>4. ASSUME NEW r \in Requests, Lock(r) PROVE Answered'
  BY <1>4 DEF Lock
<1>5. ASSUME NEW r \in Requests, Reread(r) PROVE Answered'
  BY <1>5 DEF Reread, AfterCredentials, Fresh, Unlock
<1>6. ASSUME NEW r \in Requests, Refresh(r) PROVE Answered'
  BY <1>6 DEF Refresh, Unlock
<1>7. ASSUME NEW r \in Requests, Store(r) PROVE Answered'
  BY <1>7 DEF Store, AfterCredentials, Unlock
<1>8. ASSUME NEW r \in Requests, Call(r) PROVE Answered'
  BY <1>8 DEF Call
<1>9. ASSUME NEW r \in Requests, Respond(r) PROVE Answered'
  BY <1>9 DEF Respond
<1>10. ASSUME NEW r \in Requests, Release(r) PROVE Answered'
  BY <1>10 DEF Release, Slots!Leave
<1>11. ASSUME NEW r \in Requests, RecordRequest(r) PROVE Answered'
  BY <1>11 DEF RecordRequest, Status
<1>12. ASSUME NEW r \in Requests, Disconnect(r) PROVE Answered'
  BY <1>12 DEF Disconnect
<1>13. ASSUME NEW a \in Accounts, TimePasses(a) \/ UpdateSettings(a) PROVE Answered'
  BY <1>13 DEF TimePasses, UpdateSettings
<1>14. CASE MainStep \/ UNCHANGED vars
  BY <1>14 DEF MainStep, Signal, Drained, ShutdownTimeout, Exit, vars
<1> QED BY <1>1, <1>2, <1>3, <1>4, <1>5, <1>6, <1>7, <1>8, <1>9, <1>10, <1>11, <1>12,
           <1>13, <1>14 DEF Next, HandlerStep, ProviderStep

LEMMA InitIInv == Init => IInv
<1> SUFFICES ASSUME Init PROVE IInv
  OBVIOUS
<1> USE NobodyAssumption, GrantsAssumption, LimitsAssumption
<1> USE DEF Init, Slots!Init
<1>1. PlaceTypes /\ AnswerTypes /\ GrantTypes /\ OwnerType /\ MainTypes
  <2>1. PlaceTypes /\ OwnerType
    BY DEF PlaceTypes, Places, OwnerType
  <2>2. AnswerTypes
    BY DEF AnswerTypes, Statuses, NoStatus, Success, Failure, ClientCanceled
  <2>3. GrantTypes
    BY DEF GrantTypes
  <2>4. MainTypes
    <3>1. due \in [Accounts -> 0..MaxGrants]
      OBVIOUS
    <3>2. process \in {"up", "draining", "closed", "exited"}
      OBVIOUS
    <3>3. expired \in BOOLEAN /\ unstored \in BOOLEAN
      BY Zenon
    <3> QED BY <3>1, <3>2, <3>3 DEF MainTypes
  <2> QED BY <2>1, <2>2, <2>3, <2>4
<1>2. SentType /\ TokensSent
  BY DEF SentType, TokensSent, Locked
<1>3. SlotTypes
  BY DEF SlotTypes
<1>4. Placed /\ SlotsHeld /\ MutexHeld
  BY DEF Placed, Active, SlotsHeld, WithSlot, Admitted, MutexHeld, Locked
<1>5. SlotsCounted
  <2>1. PICK limit \in [Accounts -> Limits] : settings = [a \in Accounts |-> {limit[a]}]
    OBVIOUS
  <2> QED BY <2>1, FS_EmptySet DEF SlotsCounted
<1>6. GrantsKept /\ DatabaseOutlives /\ Answered
  BY DEF GrantsKept, DatabaseOutlives, DatabaseOpen, Answered
<1> QED BY <1>1, <1>2, <1>3, <1>4, <1>5, <1>6 DEF IInv, Types

LEMMA NextIInv == IInv /\ [Next]_vars => IInv'
<1> SUFFICES ASSUME IInv, [Next]_vars PROVE IInv'
  OBVIOUS
<1> USE DEF IInv, Types
<1>1. Types'
  BY NextPlaceTypes, NextAnswerTypes, NextGrantTypes, NextSentType, NextOwnerType,
     NextSlotTypes, NextMainTypes
<1>2. Placed' /\ SlotsHeld' /\ SlotsCounted' /\ MutexHeld'
  BY NextPlaced, NextSlotsHeld, NextSlotsCounted, NextMutexHeld
<1>3. TokensSent' /\ GrantsKept' /\ DatabaseOutlives' /\ Answered'
  BY NextTokensSent, NextGrantsKept, NextDatabaseOutlives, NextAnswered
<1> QED BY <1>1, <1>2, <1>3

LEMMA Invariant == Spec => []IInv
BY InitIInv, NextIInv, PTL DEF Spec

-----------------------------------------------------------------------------
(* Every reachable state of a proxied request is well typed. *)
THEOREM TypeCorrect == Spec => []TypeOK
<1>1. IInv => TypeOK
  BY DEF IInv, Types, PlaceTypes, Places, Active, AnswerTypes, GrantTypes, SentType,
         OwnerType, SlotTypes, MainTypes, TypeOK, Statuses, Locked
<1> QED BY Invariant, <1>1, PTL

(* An account whose settings are left alone never has more upstream calls
   open than its limit: a request goes upstream with a slot in hand and keeps
   it through the renewal, the retry and the whole stream.                   *)
THEOREM UpstreamWithinLimit == Spec => []UpstreamBound
<1>1. ASSUME IInv PROVE UpstreamBound
  <2> SUFFICES ASSUME NEW a \in Accounts, NEW l \in Limits,
                      settings[a] = {l}, rebuilt[a] = 0
               PROVE  Cardinality(Upstream(a)) <= l
    BY DEF UpstreamBound
  <2>1. Upstream(a) \subseteq holding[a]
    BY <1>1 DEF IInv, SlotsHeld, Upstream, WithSlot, Admitted
  <2>2. IsFiniteSet(holding[a]) /\ Cardinality(holding[a]) <= l
    BY <1>1 DEF IInv, SlotsCounted
  <2>3. /\ Cardinality(Upstream(a)) \in Nat /\ Cardinality(holding[a]) \in Nat
        /\ Cardinality(Upstream(a)) <= Cardinality(holding[a])
    BY <2>1, <2>2, FS_Subset, FS_CardinalityType
  <2> QED BY <2>2, <2>3, LimitsAssumption
<1> QED BY Invariant, <1>1, PTL

(* The retry after a 401 is the last attempt and has another token. *)
THEOREM RetryHasAnotherToken == Spec => []RetriedWithAnother
<1>1. IInv => RetriedWithAnother
  BY DEF IInv, TokensSent, RetriedWithAnother
<1> QED BY Invariant, <1>1, PTL

(* A shutdown in time loses neither an entry nor a token. *)
THEOREM CleanStop == Spec => []CleanStopLosesNothing
<1>1. ASSUME IInv, process = "exited", ~expired
      PROVE  /\ \A r \in Requests : pc[r] # "new" => logged[r] # NoStatus
             /\ \A a \in Accounts : stored[a] = current[a] \/ unstored
  <2>1. \A r \in Requests : pc[r] \in {"new", "ended"}
    BY <1>1 DEF IInv, DatabaseOutlives, DatabaseOpen
  <2>2. \A r \in Requests : pc[r] = "ended" => logged[r] # NoStatus
    BY <1>1 DEF IInv, DatabaseOutlives
  <2>3. \A a \in Accounts : stored[a] = current[a] \/ unstored
    BY <1>1, <2>1 DEF IInv, GrantsKept
  <2> QED BY <2>1, <2>2, <2>3
<1>2. IInv => CleanStopLosesNothing
  BY <1>1 DEF CleanStopLosesNothing
<1> QED BY Invariant, <1>2, PTL

(* The status in the log is the one the client was answered with, and 499
   stands only for a client that left.                                       *)
THEOREM HonestLog == Spec => LoggedAsAnswered
<1> DEFINE Honest(r) ==
        /\ logged'[r] = Success => reply[r] = Success /\ ~gone[r]
        /\ logged'[r] = ClientCanceled => gone[r]
        /\ logged'[r] = Failure => reply[r] = Failure
<1>1. ASSUME IInv, [Next]_vars, NEW q \in Requests, logged'[q] # logged[q]
      PROVE  Honest(q)
  <2>1. PICK r \in Requests : RecordRequest(r)
    BY <1>1 DEF Next, HandlerStep, ProviderStep, MainStep, vars, reqVars, mainVars, Accept,
         ResolveAPIKey, CheckRequest, Acquire, LeaveQueue, Lock, Reread, Refresh, Store,
         ClientForSubscription, Call, Respond, Relay, Release, Disconnect, TimePasses,
         UpdateSettings, Signal, Drained, ShutdownTimeout, Exit
  <2>2. q = r /\ logged'[q] = Status(q)
    BY <1>1, <2>1 DEF RecordRequest, IInv, Types, AnswerTypes
  <2>3. reply[q] \in {NoStatus, Success, Failure} /\ (reply[q] = NoStatus => gone[q])
    BY <1>1, <2>1, <2>2 DEF RecordRequest, IInv, Types, AnswerTypes, Answered
  <2> QED BY <2>2, <2>3 DEF Status, NoStatus, Success, Failure, ClientCanceled
<1>2. IInv /\ [Next]_vars => [\A r \in Requests : logged'[r] # logged[r] => Honest(r)]_vars
  BY <1>1
<1> QED BY Invariant, <1>2, PTL DEF Spec, LoggedAsAnswered

(* The refresh mutex of an account is held only inside its critical section:
   whoever has it waits neither for a slot nor for another mutex, so that the
   two locks a request may hold are always taken in one order.               *)
THEOREM HolderNeverQueues ==
    Spec => [](\A r \in Requests, a \in Accounts : owner[a] = r => pc[r] \in Locked)
<1>1. IInv => \A r \in Requests, a \in Accounts : owner[a] = r => pc[r] \in Locked
  BY DEF IInv, MutexHeld
<1> QED BY Invariant, <1>1, PTL

(* Whatever a request goes through, it uses the slots as the semaphore that
   the limiter implements allows: it enters an account once, leaves the one
   it entered, and the settings are all that an admin touches.               *)
THEOREM UsesSemaphore == Spec => Slots!Spec
<1>1. Init => Slots!Init
  BY DEF Init
<1>2. ASSUME IInv, [Next]_vars PROVE [Slots!Next]_slotVars
  <2>1. ASSUME NEW r \in Requests, Acquire(r) PROVE Slots!Next
    <3>1. acct[r] \in Accounts
      BY <1>2, <2>1 DEF Acquire, IInv, Placed, Active
    <3> QED BY <2>1, <3>1 DEF Acquire, Slots!Next
  <2>2. ASSUME NEW r \in Requests, Release(r) PROVE [Slots!Next]_slotVars
    <3>1. CASE \E a \in Accounts : r \in holding[a]
      <4>1. acct[r] \in Accounts
        BY <1>2, <3>1 DEF IInv, SlotsHeld
      <4> QED BY <2>2, <3>1, <4>1 DEF Release, Slots!Next
    <3>2. CASE ~\E a \in Accounts : r \in holding[a]
      BY <2>2, <3>2 DEF Release
    <3> QED BY <3>1, <3>2
  <2>3. ASSUME NEW a \in Accounts, UpdateSettings(a) PROVE Slots!Next
    BY <2>3 DEF UpdateSettings, Slots!Next
  <2>4. ASSUME NEW r \in Requests,
               \/ Accept(r) \/ ResolveAPIKey(r) \/ CheckRequest(r) \/ LeaveQueue(r)
               \/ Lock(r) \/ Reread(r) \/ Refresh(r) \/ Store(r) \/ ClientForSubscription(r)
               \/ Call(r) \/ Respond(r) \/ Relay(r) \/ RecordRequest(r) \/ Disconnect(r)
        PROVE  UNCHANGED slotVars
    BY <2>4 DEF Accept, ResolveAPIKey, CheckRequest, LeaveQueue, Lock, Reread, Refresh,
         Store, ClientForSubscription, Call, Respond, Relay, RecordRequest, Disconnect
  <2>5. ASSUME NEW a \in Accounts, TimePasses(a) PROVE UNCHANGED slotVars
    BY <2>5 DEF TimePasses
  <2>6. CASE MainStep \/ UNCHANGED vars
    BY <2>6 DEF MainStep, Signal, Drained, ShutdownTimeout, Exit, vars
  <2> QED BY <1>2, <2>1, <2>2, <2>3, <2>4, <2>5, <2>6 DEF Next, HandlerStep, ProviderStep
<1>3. IInv /\ [Next]_vars => [Slots!Next]_(Slots!slotVars)
  BY <1>2 DEF slotVars, Slots!slotVars
<1> QED BY Invariant, <1>1, <1>3, PTL DEF Spec, Slots!Spec

-----------------------------------------------------------------------------
(* The client of an account *)

CacheTypes ==
    /\ exists \in BOOLEAN
    /\ proxy \in Proxies
    /\ client \in [id : Ids, via : Proxies] \union {NoClient}
    /\ built \in Nat
    /\ callerPc \in [Callers -> {"start", "resolved", "building", "using", "done"}]
    /\ snap \in [Callers -> Proxies]
    /\ inUse \in [Callers -> [id : Ids, via : Proxies] \union {NoClient}]
    /\ adminPc \in [Admins -> {"idle", "written", "deleted"}]
    /\ closes \in Nat
    /\ raced \in BOOLEAN
    /\ rejected \in BOOLEAN

(* An entry that is out of date is one somebody is still going to close. *)
StaleIsPending ==
    raced \/ rejected \/ client = NoClient \/ (exists /\ client.via = proxy)
          \/ \E m \in Admins : adminPc[m] \in {"written", "deleted"}

(* Before the first close, whoever uses a client uses the installed one. *)
UsesInstalled ==
    closes = 0 => \A r \in Callers :
        callerPc[r] = "using" => client # NoClient /\ inUse[r] = client

CacheIInv == CacheTypes /\ StaleIsPending /\ UsesInstalled

LEMMA CacheInitIInv == CacheInit => CacheIInv
<1> SUFFICES ASSUME CacheInit PROVE CacheIInv
  OBVIOUS
<1>1. CacheTypes
  BY DEF CacheInit, CacheTypes
<1>2. StaleIsPending
  BY DEF CacheInit, StaleIsPending
<1>3. UsesInstalled
  BY DEF CacheInit, UsesInstalled
<1> QED BY <1>1, <1>2, <1>3 DEF CacheIInv

LEMMA CacheNextIInv == CacheIInv /\ [CacheNext]_cacheVars => CacheIInv'
<1> SUFFICES ASSUME CacheIInv, [CacheNext]_cacheVars PROVE CacheIInv'
  OBVIOUS
<1> USE DEF CacheIInv, CacheTypes, StaleIsPending, UsesInstalled, rowVars, callerVars,
            cacheHistory
<1>1. ASSUME NEW r \in Callers, Resolve(r) PROVE CacheIInv'
  BY <1>1 DEF Resolve
<1>2. ASSUME NEW r \in Callers, LoadClient(r) PROVE CacheIInv'
  BY <1>2 DEF LoadClient
<1>3. ASSUME NEW r \in Callers, StoreClient(r) PROVE CacheIInv'
  <2>1. CASE client = NoClient
    <3>1. client' = [id |-> built + 1, via |-> snap[r]] /\ built + 1 \in Ids
      BY <1>3, <2>1 DEF StoreClient, Ids
    <3>2. client' \in [id : Ids, via : Proxies] /\ client' # NoClient
      BY <3>1 DEF NoClient, Ids
    <3>3. CacheTypes'
      BY <1>3, <2>1, <3>2 DEF StoreClient
    <3>4. StaleIsPending'
      <4>1. CASE exists /\ snap[r] = proxy
        BY <1>3, <3>1, <4>1 DEF StoreClient
      <4>2. CASE ~exists \/ snap[r] # proxy
        BY <1>3, <2>1, <4>2 DEF StoreClient
      <4> QED BY <4>1, <4>2
    <3>5. UsesInstalled'
      BY <1>3, <2>1, <3>2 DEF StoreClient
    <3> QED BY <3>3, <3>4, <3>5
  <2>2. CASE client # NoClient
    BY <1>3, <2>2 DEF StoreClient
  <2> QED BY <2>1, <2>2
<1>4. ASSUME NEW r \in Callers, EndRequest(r) PROVE CacheIInv'
  BY <1>4 DEF EndRequest
<1>5. ASSUME NEW m \in Admins, NEW p \in Proxies, WriteProxy(m, p) PROVE CacheIInv'
  BY <1>5 DEF WriteProxy
<1>6. ASSUME NEW m \in Admins, DeleteRow(m) PROVE CacheIInv'
  BY <1>6 DEF DeleteRow
<1>7. ASSUME NEW m \in Admins, CloseClient(m) PROVE CacheIInv'
  BY <1>7 DEF CloseClient
<1>8. ASSUME NEW m \in Admins, RejectCredentials(m) PROVE CacheIInv'
  BY <1>8 DEF RejectCredentials
<1>9. CASE UNCHANGED cacheVars
  BY <1>9 DEF cacheVars
<1> QED BY <1>1, <1>2, <1>3, <1>4, <1>5, <1>6, <1>7, <1>8, <1>9 DEF CacheNext

WritesInBound == writes \in 0..MaxWrites

LEMMA NextWrites == WritesInBound /\ [CacheNext]_cacheVars => WritesInBound'
<1> SUFFICES ASSUME WritesInBound, [CacheNext]_cacheVars, writes' # writes
             PROVE  WritesInBound'
  BY DEF WritesInBound
<1>1. writes' = writes + 1 /\ writes < MaxWrites
  BY DEF CacheNext, cacheVars, Resolve, LoadClient, StoreClient, EndRequest, WriteProxy,
         DeleteRow, CloseClient, RejectCredentials
<1> QED BY <1>1, WritesAssumption DEF WritesInBound

(* The entry is a client built for some proxy, and so is whatever a request
   holds.                                                                    *)
THEOREM CacheTypeCorrect == CacheSpec => []CacheTypeOK
<1>1. CacheInit => WritesInBound
  BY WritesAssumption DEF CacheInit, WritesInBound
<1>2. CacheIInv /\ WritesInBound => CacheTypeOK
  BY DEF CacheIInv, CacheTypes, WritesInBound, CacheTypeOK
<1> QED BY CacheInitIInv, CacheNextIInv, NextWrites, <1>1, <1>2, PTL DEF CacheSpec

(* Only a late store or an early return keeps a client for an old proxy. *)
THEOREM StaleClientCauses == CacheSpec => []InForceUnlessRaced
<1>1. CacheIInv => InForceUnlessRaced
  BY DEF CacheIInv, StaleIsPending, InForceUnlessRaced, ClientInForce
<1> QED BY CacheInitIInv, CacheNextIInv, <1>1, PTL DEF CacheSpec

(* Until the client is closed, all callers share one. *)
THEOREM PoolShared == CacheSpec => []OnePool
<1>1. CacheIInv => OnePool
  BY DEF CacheIInv, UsesInstalled, OnePool
<1> QED BY CacheInitIInv, CacheNextIInv, <1>1, PTL DEF CacheSpec
=============================================================================
