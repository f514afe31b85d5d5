-------------------------- MODULE DeviceFlowProofs --------------------------
(***************************************************************************)
(* Proofs about device-code logins, for any number of flows and polls: a   *)
(* login creates one subscription, xAI is asked by one poll at a time, no  *)
(* token is thrown away, and no page gives up without a cause.             *)
(***************************************************************************)
EXTENDS DeviceFlow, TLAPS

Created(f) == \E h \in Handlers : pc[h] = "created" /\ flow[h] = f

Types ==
    /\ started \subseteq Flows
    /\ pending \subseteq started
    /\ pc \in [Handlers -> {"idle", "asking", "answered", "slow_down", "remove", "finish"}
                           \union InFinish]
    /\ flow \in [Handlers -> Flows \union {NoFlow}]
    /\ \A h \in Handlers : pc[h] # "idle" => flow[h] \in started
    /\ rows \in [Flows -> Nat]
    /\ misread \in [Flows -> Nat]

(* Finalizing admits one poll to the insert, and it stays set in the map for
   as long as that poll is there; a flow that has left the map is never
   entered again, so nobody follows.                                         *)
OneFinisher ==
    \A h \in Handlers : pc[h] \in InFinish =>
        /\ flow[h] \in pending => flow[h] \in finalizing
        /\ \A k \in Handlers : pc[k] \in InFinish /\ flow[k] = flow[h] => h = k

(* What has been inserted and not reported as failed: nothing as long as the
   flow can still be finished.                                               *)
RowsCounted ==
    /\ OneSubscription
    /\ \A f \in Flows : f \notin started => rows[f] <= misread[f]
    /\ \A f \in pending : ~Created(f) => rows[f] <= misread[f]
    /\ \A h \in Handlers : pc[h] \in {"insert", "restore"} => rows[flow[h]] <= misread[flow[h]]

RowsInv == Types /\ OneFinisher /\ RowsCounted

LEMMA RowsInit == Init => RowsInv
BY DEF Init, RowsInv, Types, OneFinisher, RowsCounted, OneSubscription, InFinish

LEMMA RowsNext == RowsInv /\ [Next]_vars => RowsInv'
<1> SUFFICES ASSUME RowsInv, [Next]_vars PROVE RowsInv'
  OBVIOUS
<1> USE NilAssumption DEF RowsInv, Types, InFinish, Alive, Go, Respond
<1>1. ASSUME NEW f \in Flows, Start(f) PROVE RowsInv'
  <2>1. \A h \in Handlers : pc[h] # "idle" => flow[h] # f
    BY <1>1 DEF Start
  <2>2. Types' /\ OneFinisher'
    BY <1>1, <2>1 DEF Start, flagVars, pollVars, dbVars, OneFinisher
  <2>3. RowsCounted'
    BY <1>1 DEF Start, flagVars, pollVars, dbVars, RowsCounted, OneSubscription, Created
  <2> QED BY <2>2, <2>3
<1>2. ASSUME NEW h \in Handlers, NEW f \in Flows, Poll(h, f) PROVE RowsInv'
  <2>1. /\ \A k \in Handlers : pc'[k] \in {"insert", "restore", "created"} =>
                pc[k] = pc'[k] /\ flow'[k] = flow[k]
        /\ \A k \in Handlers : pc[k] \in {"insert", "restore", "created"} =>
                pc'[k] = pc[k] /\ flow'[k] = flow[k]
    BY <1>2 DEF Poll
  <2>2. Types'
    BY <1>2 DEF Poll, dbVars
  <2>3. OneFinisher'
    BY <1>2, <2>1 DEF Poll, OneFinisher
  <2>4. RowsCounted'
    BY <1>2, <2>1 DEF Poll, RowsCounted, OneSubscription, Created, dbVars
  <2> QED BY <2>2, <2>3, <2>4
<1>3. ASSUME NEW h \in Handlers, Answer(h) \/ Receive(h) \/ SlowDown(h) PROVE RowsInv'
  <2>1. /\ UNCHANGED <<started, pending, finalizing, flow, rows, misread>>
        /\ pc[h] \notin InFinish \union {"idle"} /\ pc'[h] \notin InFinish
        /\ \E p \in {"idle", "answered", "slow_down", "remove", "finish"} :
              pc' = [pc EXCEPT ![h] = p]
    BY <1>3 DEF Answer, Receive, SlowDown, mapVars, flagVars, dbVars
  <2> QED BY <2>1 DEF OneFinisher, RowsCounted, OneSubscription, Created
<1>4. ASSUME NEW h \in Handlers, Remove(h) PROVE RowsInv'
  <2>1. OneFinisher'
    BY <1>4 DEF Remove, flagVars, OneFinisher
  <2>2. RowsCounted'
    BY <1>4 DEF Remove, RowsCounted, OneSubscription, Created, dbVars
  <2> QED BY <1>4, <2>1, <2>2 DEF Remove, dbVars
<1>5. ASSUME NEW h \in Handlers, Finish(h) PROVE RowsInv'
  <2>1. CASE pc'[h] = "insert"
    <3>1. flow[h] \in pending /\ flow[h] \notin finalizing
      BY <1>5, <2>1 DEF Finish
    <3>2. \A k \in Handlers : pc[k] \in InFinish => flow[k] # flow[h]
      BY <3>1 DEF OneFinisher
    <3>3. OneFinisher'
      BY <1>5, <2>1, <3>1, <3>2 DEF Finish, OneFinisher
    <3>4. RowsCounted'
      BY <1>5, <2>1, <3>1, <3>2 DEF Finish, RowsCounted, OneSubscription, Created, dbVars
    <3> QED BY <1>5, <2>1, <3>3, <3>4 DEF Finish, dbVars
  <2>2. CASE pc'[h] # "insert"
    <3>1. UNCHANGED <<started, pending, finalizing, flow, rows, misread>>
          /\ pc[h] = "finish" /\ pc' = [pc EXCEPT ![h] = "idle"]
      BY <1>5, <2>2 DEF Finish, dbVars
    <3> QED BY <3>1 DEF OneFinisher, RowsCounted, OneSubscription, Created
  <2> QED BY <2>1, <2>2
<1>6. ASSUME NEW h \in Handlers, Insert(h) PROVE RowsInv'
  <2>1. /\ UNCHANGED <<started, pending, finalizing, flow>>
        /\ pc[h] = "insert" /\ flow[h] \in Flows
        /\ rows[flow[h]] <= misread[flow[h]]
        /\ \E p \in {"created", "restore"} : pc' = [pc EXCEPT ![h] = p]
    BY <1>6 DEF Insert, mapVars, flagVars, RowsCounted
  <2>2. \A k \in Handlers : pc[k] \in InFinish /\ k # h => flow[k] # flow[h]
    BY <2>1 DEF OneFinisher
  <2>3. Types' /\ OneFinisher'
    <3>1. Types'
      BY <1>6, <2>1 DEF Insert
    <3> QED BY <2>1, <3>1 DEF OneFinisher
  <2>4. CASE pc'[h] = "created" /\ rows' = [rows EXCEPT ![flow[h]] = @ + 1]
             /\ UNCHANGED misread
    <3>1. \A g \in Flows : Created(g)' <=> Created(g) \/ g = flow[h]
      BY <2>1, <2>4 DEF Created
    <3> QED BY <2>1, <2>2, <2>3, <2>4, <3>1 DEF RowsCounted, OneSubscription
  <2>5. CASE pc'[h] = "restore" /\ UNCHANGED <<rows, misread>>
    BY <2>1, <2>3, <2>5 DEF RowsCounted, OneSubscription, Created
  <2>6. CASE pc'[h] = "restore" /\ rows' = [rows EXCEPT ![flow[h]] = @ + 1]
             /\ misread' = [misread EXCEPT ![flow[h]] = @ + 1]
    BY <2>1, <2>3, <2>6 DEF RowsCounted, OneSubscription, Created
  <2> QED BY <1>6, <2>1, <2>4, <2>5, <2>6 DEF Insert
<1>7. ASSUME NEW h \in Handlers, Restore(h) PROVE RowsInv'
  <2>1. OneFinisher'
    BY <1>7 DEF Restore, OneFinisher
  <2>2. RowsCounted'
    BY <1>7 DEF Restore, RowsCounted, OneSubscription, Created, dbVars
  <2> QED BY <1>7, <2>1, <2>2 DEF Restore, dbVars
<1>8. ASSUME NEW f \in Flows, LeavePage(f) \/ Decide(f) \/ Rest(f) \/ Expire(f) PROVE RowsInv'
  <2>1. UNCHANGED <<started, pending, finalizing, pc, flow, rows, misread>>
    BY <1>8 DEF LeavePage, Decide, Rest, Expire, mapVars, flagVars, pollVars, dbVars
  <2> QED BY <2>1 DEF OneFinisher, RowsCounted, OneSubscription, Created
<1>9. CASE Restart
  BY <1>9 DEF Restart, OneFinisher, RowsCounted, OneSubscription, Created, dbVars
<1>10. CASE UNCHANGED vars
  BY <1>10 DEF vars, mapVars, flagVars, pollVars, dbVars, OneFinisher, RowsCounted,
               OneSubscription, Created
<1> QED BY <1>1, <1>2, <1>3, <1>4, <1>5, <1>6, <1>7, <1>8, <1>9, <1>10
        DEF Next, HandlerStep, ClientPoll, PagePoll

(* One subscription per login, beyond the inserts reported as failed. *)
THEOREM LoginCreatesOne == Spec => []OneSubscription
<1>1. RowsInv => OneSubscription
  BY DEF RowsInv, RowsCounted
<1> QED BY RowsInit, RowsNext, <1>1, PTL DEF Spec

-----------------------------------------------------------------------------
(* Polling stays set while its poll is out, and no token is there yet. *)
OneAsker ==
    /\ \A h \in Handlers : pc[h] \in {"asking", "answered"} =>
          /\ flow[h] \in pending => flow[h] \in polling /\ flow[h] \notin token
          /\ \A k \in Handlers :
                pc[k] \in {"asking", "answered"} /\ flow[k] = flow[h] => h = k
    /\ token \subseteq started

AskInv == Types /\ OneAsker

LEMMA AskInit == Init => AskInv
BY RowsInit DEF RowsInv, Init, AskInv, OneAsker

LEMMA AskNext == RowsInv /\ AskInv /\ [Next]_vars => AskInv'
<1> SUFFICES ASSUME RowsInv, AskInv, [Next]_vars PROVE OneAsker'
  BY RowsNext DEF RowsInv, AskInv
<1> USE NilAssumption DEF AskInv, Types, InFinish, Alive, Go, Respond, OneAsker
<1>1. ASSUME NEW f \in Flows, Start(f) PROVE OneAsker'
  <2>1. \A h \in Handlers : pc[h] # "idle" => flow[h] # f
    BY <1>1 DEF Start
  <2> QED BY <1>1, <2>1 DEF Start, flagVars, pollVars
<1>2. ASSUME NEW h \in Handlers, NEW f \in Flows, Poll(h, f) PROVE OneAsker'
  BY <1>2 DEF Poll
<1>3. ASSUME NEW h \in Handlers, Answer(h) PROVE OneAsker'
  BY <1>3 DEF Answer, mapVars, flagVars
<1>4. ASSUME NEW h \in Handlers, Receive(h) PROVE OneAsker'
  <2>1. pc[h] = "answered" /\ pc'[h] \notin {"asking", "answered"}
        /\ \A k \in Handlers : k # h => pc'[k] = pc[k]
    BY <1>4 DEF Receive
  <2>2. UNCHANGED <<started, pending, flow>>
        /\ polling \ {flow[h]} \subseteq polling'
        /\ token' \subseteq token \union ({flow[h]} \intersect pending)
    BY <1>4 DEF Receive
  <2> QED BY <2>1, <2>2
<1>5. ASSUME NEW h \in Handlers,
             SlowDown(h) \/ Remove(h) \/ Finish(h) \/ Insert(h) \/ Restore(h)
      PROVE  OneAsker'
  <2>1. /\ UNCHANGED <<started, polling, token, flow>>
        /\ pending' \subseteq pending
        /\ pc[h] \notin {"asking", "answered"} /\ pc'[h] \notin {"asking", "answered"}
        /\ \A k \in Handlers : k # h => pc'[k] = pc[k]
    BY <1>5 DEF SlowDown, Remove, Finish, Insert, Restore, mapVars, flagVars
  <2> QED BY <2>1
<1>6. ASSUME NEW f \in Flows, LeavePage(f) \/ Decide(f) \/ Rest(f) \/ Expire(f) PROVE OneAsker'
  BY <1>6 DEF LeavePage, Decide, Rest, Expire, mapVars, flagVars, pollVars
<1>7. CASE Restart
  BY <1>7 DEF Restart
<1>8. CASE UNCHANGED vars
  BY <1>8 DEF vars, mapVars, flagVars, pollVars
<1> QED BY <1>1, <1>2, <1>3, <1>4, <1>5, <1>6, <1>7, <1>8
        DEF Next, HandlerStep, ClientPoll, PagePoll

(* One poll at a time asks xAI, and none once the token is there. *)
THEOREM AskedSafely == Spec => []AskedOnceAtATime
<1>1. AskInv => AskedOnceAtATime
  BY DEF AskInv, OneAsker, AskedOnceAtATime, Asking
<1> QED BY RowsInit, RowsNext, AskInit, AskNext, <1>1, PTL DEF Spec

-----------------------------------------------------------------------------
(* What TypeOK says beyond Types. *)
RestTypes ==
    /\ polling \subseteq started /\ finalizing \subseteq started /\ token \subseteq started
    /\ rested \subseteq started /\ expired \subseteq started
    /\ code \in [Flows -> Codes]
    /\ \A f \in Flows : f \notin started <=> code[f] = "none"
    /\ reply \in [Handlers -> Replies]
    /\ page \in [Flows -> Pages]
    /\ byPage \subseteq Handlers
    /\ lost \subseteq Flows /\ broken \subseteq Flows /\ died \subseteq Flows
    /\ faults \in 0..MaxFaults
    /\ restarts \in 0..MaxRestarts

LEMMA RestInit == Init => RestTypes
BY BoundsAssumption DEF Init, RestTypes, Codes, Replies, Pages

LEMMA RestNext == Types /\ RestTypes /\ [Next]_vars => RestTypes'
<1> SUFFICES ASSUME Types, RestTypes, [Next]_vars PROVE RestTypes'
  OBVIOUS
<1> USE NilAssumption, BoundsAssumption
    DEF Types, RestTypes, Codes, Replies, Pages, Alive, Go, Respond, Fault, mapVars,
        flagVars, clockVars, pollVars, pageVars, dbVars, bounds
<1>1. ASSUME NEW f \in Flows, Start(f) PROVE RestTypes'
  BY <1>1 DEF Start
<1>2. ASSUME NEW h \in Handlers, NEW f \in Flows, ClientPoll(h, f) \/ PagePoll(h, f)
      PROVE  RestTypes'
  <2>1. page' \in [Flows -> Pages] /\ byPage' \subseteq Handlers
    BY <1>2 DEF ClientPoll, PagePoll
  <2>2. Poll(h, f)
    BY <1>2 DEF ClientPoll, PagePoll
  <2> QED BY <2>1, <2>2 DEF Poll
<1>3. ASSUME NEW h \in Handlers, Answer(h) PROVE RestTypes'
  <2>1. /\ flow[h] \in started /\ flow[h] \in Flows
        /\ code[flow[h]] \in {"open", "approved", "denied", "timeout", "consumed"}
        /\ UNCHANGED <<started, flagVars, clockVars, died, restarts>>
    BY <1>3 DEF Answer
  <2>2. faults' \in 0..MaxFaults
    BY <1>3 DEF Answer
  <2>3. lost' \subseteq Flows
    BY <1>3, <2>1 DEF Answer
  <2>4. \E a \in Replies : reply' = [reply EXCEPT ![h] = a]
    BY <1>3, <2>1 DEF Answer
  <2>5. code' = [code EXCEPT ![flow[h]] = IF @ = "approved" THEN "consumed" ELSE @]
    BY <1>3 DEF Answer
  <2>6. code' \in [Flows -> Codes] /\ \A f \in Flows : f \notin started <=> code'[f] = "none"
    BY <2>1, <2>5
  <2>7. UNCHANGED <<page, byPage>> /\ broken' \subseteq Flows
    BY <1>3, <2>1 DEF Answer
  <2> QED BY <2>1, <2>2, <2>3, <2>4, <2>6, <2>7
<1>4. ASSUME NEW h \in Handlers, Receive(h) PROVE RestTypes'
  <2>1. flow[h] \in Flows /\ (UNCHANGED pageVars \/ Respond(h, "waiting") \/ Respond(h, "failed"))
    BY <1>4 DEF Receive
  <2>2. page' \in [Flows -> Pages] /\ byPage' \subseteq Handlers
    <3>1. CASE UNCHANGED pageVars
      BY <3>1
    <3>2. CASE Respond(h, "waiting") \/ Respond(h, "failed")
      <4>1. \E p \in Pages : page' = [page EXCEPT ![flow[h]] = p]
        BY <2>1, <3>2
      <4> QED BY <2>1, <3>2, <4>1
    <3> QED BY <2>1, <3>1, <3>2
  <2>3. polling' \subseteq started /\ token' \subseteq started
    BY <1>4 DEF Receive
  <2> QED BY <1>4, <2>2, <2>3 DEF Receive
<1>5. ASSUME NEW h \in Handlers, SlowDown(h) \/ Remove(h) PROVE RestTypes'
  BY <1>5 DEF SlowDown, Remove
<1>6. ASSUME NEW h \in Handlers, Finish(h) PROVE RestTypes'
  BY <1>6 DEF Finish
<1>7. ASSUME NEW h \in Handlers, Insert(h) PROVE RestTypes'
  BY <1>7 DEF Insert
<1>8. ASSUME NEW h \in Handlers, Restore(h) PROVE RestTypes'
  BY <1>8 DEF Restore
<1>9. ASSUME NEW f \in Flows, Decide(f) PROVE RestTypes'
  BY <1>9 DEF Decide
<1>10. ASSUME NEW f \in Flows, LeavePage(f) \/ Rest(f) \/ Expire(f) PROVE RestTypes'
  BY <1>10 DEF LeavePage, Rest, Expire
<1>11. CASE Restart
  BY <1>11 DEF Restart
<1>12. CASE UNCHANGED vars
  BY <1>12 DEF vars
<1> QED BY <1>1, <1>2, <1>3, <1>4, <1>5, <1>6, <1>7, <1>8, <1>9, <1>10, <1>11, <1>12
        DEF Next, HandlerStep, ClientPoll, PagePoll

(* The flags, the clocks and the map only hold flows that were started, and
   each poll is between two of its critical sections.                        *)
THEOREM TypeCorrect == Spec => []TypeOK
<1>1. RowsInv => Types
  BY DEF RowsInv
<1>2. Types /\ RestTypes => TypeOK
  BY DEF Types, RestTypes, TypeOK
<1> QED BY RowsInit, RowsNext, RestInit, RestNext, <1>1, <1>2, PTL DEF Spec

-----------------------------------------------------------------------------
(* Why a flow may be gone although its login was approved. *)
Ended(f) == rows[f] > 0 \/ f \in lost \union expired \union died

(* A poll that asks has its flow in the map, unless the flow has ended or the
   user has refused it; only a refusal or an inserted row removes a flow.    *)
Departures ==
    \A h \in Handlers :
        /\ pc[h] = "asking" =>
              flow[h] \in pending \/ Ended(flow[h]) \/ code[flow[h]] \in {"denied", "timeout"}
        /\ pc[h] = "answered" /\ reply[h] \in {"access_denied", "expired_token"} =>
              code[flow[h]] \in {"denied", "timeout"}
        /\ pc[h] = "remove" => code[flow[h]] \in {"denied", "timeout"}
        /\ pc[h] = "created" => rows[flow[h]] > 0

KeptInv == Departures /\ TokenKept

LEMMA KeptInit == Init => KeptInv
BY DEF Init, KeptInv, Departures, TokenKept

LEMMA KeptNext == Types /\ RestTypes /\ KeptInv /\ [Next]_vars => KeptInv'
<1> SUFFICES ASSUME Types, RestTypes, KeptInv, [Next]_vars PROVE KeptInv'
  OBVIOUS
<1> USE NilAssumption
    DEF Types, RestTypes, KeptInv, Departures, TokenKept, Ended, Asking, Codes, InFinish,
        Alive, Go, Respond, mapVars, flagVars, clockVars, pollVars, dbVars, bounds
<1>1. ASSUME NEW f \in Flows, Start(f) PROVE KeptInv'
  <2>1. /\ \A h \in Handlers : pc[h] # "idle" => flow[h] # f
        /\ pending \ expired \subseteq pending'
        /\ \A g \in Flows : g # f => code'[g] = code[g]
        /\ code'[f] = "open"
        /\ UNCHANGED <<flagVars, clockVars, pollVars, dbVars, lost, bounds>>
    BY <1>1 DEF Start
  <2> QED BY <2>1
<1>2. ASSUME NEW h \in Handlers, NEW f \in Flows, Poll(h, f) PROVE KeptInv'
  <2>1. /\ pending' = pending \ expired
        /\ pc[h] = "idle" /\ pc'[h] \in {"idle", "finish", "asking"}
        /\ pc'[h] = "asking" => flow'[h] \in pending'
        /\ \A k \in Handlers : k # h => pc'[k] = pc[k] /\ flow'[k] = flow[k]
        /\ UNCHANGED <<token, expired, code, reply, dbVars, lost, bounds>>
    BY <1>2 DEF Poll
  <2>2. Departures'
    BY <2>1
  <2>3. TokenKept'
    BY <2>1
  <2> QED BY <2>2, <2>3
<1>3. ASSUME NEW h \in Handlers, Answer(h) PROVE KeptInv'
  <2> DEFINE f == flow[h]
  <2>1. /\ pc[h] = "asking" /\ pc' = [pc EXCEPT ![h] = "answered"]
        /\ f \in Flows /\ code[f] \in {"open", "approved", "denied", "timeout", "consumed"}
        /\ code' = [code EXCEPT ![f] = IF @ = "approved" THEN "consumed" ELSE @]
        /\ \A k \in Handlers : k # h => reply'[k] = reply[k]
        /\ lost \subseteq lost'
        /\ UNCHANGED <<mapVars, clockVars, flow, dbVars, died>>
    BY <1>3 DEF Answer, Fault
  <2>2. code[f] = "approved" => reply'[h] = "token" \/ f \in lost'
    BY <1>3, <2>1 DEF Answer
  <2>3. reply'[h] \in {"access_denied", "expired_token"} => code[f] \in {"denied", "timeout"}
    BY <1>3, <2>1 DEF Answer
  <2>4. Departures'
    BY <2>1, <2>3
  <2>5. ASSUME NEW g \in Flows, code'[g] = "consumed" PROVE TokenKept!(g)'
    <3>1. CASE g # f \/ code[g] = "consumed"
      BY <2>1, <2>5, <3>1
    <3>2. CASE g = f /\ code[f] = "approved"
      BY <2>1, <2>2, <3>2
    <3> QED BY <2>1, <2>5, <3>1, <3>2
  <2> QED BY <2>4, <2>5
<1>4. ASSUME NEW h \in Handlers, Receive(h) PROVE KeptInv'
  <2>1. /\ pc[h] = "answered" /\ flow[h] \in Flows
        /\ pc' = [pc EXCEPT ![h] = pc'[h]]
        /\ pc'[h] \notin {"asking", "answered", "created"}
        /\ pc'[h] = "remove" => reply[h] \in {"access_denied", "expired_token"}
        /\ token \subseteq token'
        /\ reply[h] = "token" /\ flow[h] \in pending => flow[h] \in token'
        /\ UNCHANGED <<pending, expired, code, flow, reply, dbVars, lost, bounds>>
    BY <1>4 DEF Receive
  <2> QED BY <2>1
<1>5. ASSUME NEW h \in Handlers, SlowDown(h) \/ Finish(h) \/ Restore(h) PROVE KeptInv'
  <2>1. /\ pc[h] \notin {"asking", "answered"} /\ pc'[h] \in {"idle", "insert"}
        /\ \A k \in Handlers : k # h => pc'[k] = pc[k]
        /\ UNCHANGED <<pending, token, expired, code, flow, reply, dbVars, lost, bounds>>
    BY <1>5 DEF SlowDown, Finish, Restore
  <2> QED BY <2>1
<1>6. ASSUME NEW h \in Handlers, Remove(h) PROVE KeptInv'
  <2>1. /\ pc[h] \in {"remove", "created"} /\ flow[h] \in Flows
        /\ pending' = pending \ {flow[h]}
        /\ pc'[h] = "idle" /\ \A k \in Handlers : k # h => pc'[k] = pc[k]
        /\ UNCHANGED <<token, expired, code, flow, reply, dbVars, lost, bounds>>
    BY <1>6 DEF Remove
  <2>2. rows[flow[h]] > 0 \/ code[flow[h]] \in {"denied", "timeout"}
    BY <2>1
  <2> QED BY <2>1, <2>2
<1>7. ASSUME NEW h \in Handlers, Insert(h) PROVE KeptInv'
  <2>1. /\ pc[h] = "insert" /\ flow[h] \in Flows
        /\ pc'[h] \in {"created", "restore"}
        /\ \A k \in Handlers : k # h => pc'[k] = pc[k]
        /\ \A g \in Flows : rows'[g] >= rows[g]
        /\ pc'[h] = "created" => rows'[flow[h]] > 0
        /\ UNCHANGED <<mapVars, clockVars, code, flow, reply, lost, died>>
    BY <1>7 DEF Insert, Fault
  <2>2. \A g \in Flows : rows[g] > 0 => rows'[g] > 0
    BY <1>7, <2>1 DEF Insert
  <2> QED BY <2>1, <2>2
<1>8. ASSUME NEW f \in Flows, Decide(f) PROVE KeptInv'
  BY <1>8 DEF Decide
<1>9. ASSUME NEW f \in Flows, LeavePage(f) \/ Rest(f) \/ Expire(f) PROVE KeptInv'
  BY <1>9 DEF LeavePage, Rest, Expire
<1>10. CASE Restart
  BY <1>10 DEF Restart
<1>11. CASE UNCHANGED vars
  BY <1>11 DEF vars
<1> QED BY <1>1, <1>2, <1>3, <1>4, <1>5, <1>6, <1>7, <1>8, <1>9, <1>10, <1>11
        DEF Next, HandlerStep, ClientPoll, PagePoll

(* No token xAI has handed out is thrown away by a race of polls. *)
THEOREM TokensKept == Spec => []TokenKept
<1>1. RowsInv => Types
  BY DEF RowsInv
<1>2. KeptInv => TokenKept
  BY DEF KeptInv
<1> QED BY RowsInit, RowsNext, RestInit, RestNext, KeptInit, KeptNext, <1>1, <1>2, PTL
        DEF Spec
-----------------------------------------------------------------------------
(* A flow leaves the map, a poll fails to finish and xAI refuses an answer
   only for a cause, and no cause goes away.                                 *)
Caused ==
    /\ lost \subseteq broken /\ died \subseteq started
    /\ \A f \in Flows : page[f] # "none" => f \in started /\ (f \in pending \/ Cause(f))
    /\ \A h \in Handlers :
          /\ pc[h] # "idle" => flow[h] \in pending \/ Cause(flow[h])
          /\ pc[h] = "finish" /\ flow[h] \in pending => flow[h] \in token
          /\ pc[h] = "answered" /\ reply[h] = "failed" => Cause(flow[h])
          /\ pc[h] = "restore" => flow[h] \in broken

PageInv == Caused /\ PageFailsForCause

LEMMA PageInit == Init => PageInv
BY DEF Init, PageInv, Caused, PageFailsForCause, Cause

(* a step that takes no cause away *)
CausesStay == \A f \in Flows : Cause(f) => Cause(f)'

LEMMA PageNext ==
    Types /\ RestTypes /\ AskInv /\ KeptInv /\ PageInv /\ [Next]_vars => PageInv'
<1> SUFFICES ASSUME Types, RestTypes, AskInv, KeptInv, PageInv, [Next]_vars PROVE PageInv'
  OBVIOUS
<1> USE NilAssumption
    DEF Types, RestTypes, PageInv, Caused, PageFailsForCause, Cause, Codes, InFinish, Alive,
        Go, Respond, mapVars, flagVars, clockVars, pollVars, pageVars, dbVars, bounds
<1>0. \A h \in Handlers : pc[h] # "idle" => flow[h] \in Flows
  OBVIOUS
<1>1. ASSUME NEW f \in Flows, Start(f) PROVE PageInv'
  <2>1. /\ \A h \in Handlers : pc[h] # "idle" => flow[h] # f
        /\ f \notin started /\ started' = started \union {f}
        /\ pending \ expired \subseteq pending'
        /\ \A g \in Flows : g # f => code'[g] = code[g]
        /\ UNCHANGED <<token, expired, pc, flow, reply, rows, lost, broken, died>>
    BY <1>1 DEF Start
  <2>3. /\ \A g \in Flows : g # f => page'[g] = page[g]
        /\ page'[f] = page[f] \/ (page'[f] = "waiting" /\ f \in pending')
        /\ pending' \subseteq pending \union {f}
    BY <1>1 DEF Start
  <2>2. page[f] = "none" /\ code[f] = "none"
    BY <2>1
  <2>4. CausesStay
    BY <2>1, <2>2 DEF CausesStay
  <2> QED BY <1>0, <2>1, <2>2, <2>3, <2>4 DEF CausesStay
<1>2. ASSUME NEW h \in Handlers, NEW f \in Flows, ClientPoll(h, f) \/ PagePoll(h, f)
      PROVE  PageInv'
  <2>1. /\ pending' = pending \ expired
        /\ pc[h] = "idle" /\ pc'[h] \in {"idle", "finish", "asking"}
        /\ pc'[h] # "idle" => flow'[h] \in pending'
        /\ pc'[h] = "finish" => flow'[h] \in token
        /\ \A k \in Handlers : k # h => pc'[k] = pc[k] /\ flow'[k] = flow[k]
        /\ UNCHANGED <<started, token, expired, code, reply, rows, lost, broken, died>>
    BY <1>2 DEF ClientPoll, PagePoll, Poll
  <2>2. /\ \A g \in Flows : g # f => page'[g] = page[g]
        /\ page'[f] # page[f] => page[f] = "waiting"
        /\ page'[f] = "failed" => page[f] = "failed" \/ f \notin Alive
    BY <1>2 DEF ClientPoll, PagePoll
  <2> QED BY <1>0, <2>1, <2>2
<1>3. ASSUME NEW h \in Handlers, Answer(h) PROVE PageInv'
  <2> DEFINE f == flow[h]
  <2>1. /\ pc[h] = "asking" /\ pc' = [pc EXCEPT ![h] = "answered"]
        /\ f \in Flows /\ code[f] \in {"open", "approved", "denied", "timeout", "consumed"}
        /\ code' = [code EXCEPT ![f] = IF @ = "approved" THEN "consumed" ELSE @]
        /\ \A k \in Handlers : k # h => reply'[k] = reply[k]
        /\ UNCHANGED <<mapVars, clockVars, flow, dbVars, died, pageVars>>
    BY <1>0, <1>3 DEF Answer, Fault
  <2>2. broken \subseteq broken' /\ lost' \subseteq broken'
    BY <1>3, <2>1 DEF Answer, Fault
  <2>3. code[f] = "consumed" => Cause(f)
    BY <2>1 DEF KeptInv, TokenKept, AskInv, OneAsker, Asking
  <2>4. reply'[h] = "failed" => f \in broken' \/ code[f] = "consumed"
    BY <1>3, <2>1 DEF Answer, Fault
  <2>5. CausesStay
    BY <2>1, <2>2 DEF CausesStay
  <2> QED BY <1>0, <2>1, <2>2, <2>3, <2>4, <2>5 DEF CausesStay
<1>4. ASSUME NEW h \in Handlers, Receive(h) PROVE PageInv'
  <2>1. /\ pc[h] = "answered" /\ flow[h] \in Flows
        /\ \A k \in Handlers : k # h => pc'[k] = pc[k]
        /\ pc'[h] \notin {"answered", "restore"}
        /\ pc'[h] = "finish" => reply[h] = "token"
        /\ token \subseteq token'
        /\ reply[h] = "token" /\ flow[h] \in pending => flow[h] \in token'
        /\ UNCHANGED <<started, pending, expired, code, flow, reply, rows, lost, broken, died>>
    BY <1>0, <1>4 DEF Receive
  <2>2. \/ UNCHANGED page
        \/ Respond(h, "waiting")
        \/ reply[h] = "failed" /\ Respond(h, "failed")
    BY <1>4 DEF Receive
  <2>3. \A g \in Flows : /\ page'[g] # "none" => page[g] # "none"
                         /\ page'[g] = "failed" => page[g] = "failed" \/ Cause(g)
    BY <2>1, <2>2
  <2> QED BY <1>0, <2>1, <2>3
<1>5. ASSUME NEW h \in Handlers, SlowDown(h) \/ Finish(h) \/ Restore(h) PROVE PageInv'
  <2>1. /\ pc[h] \in {"slow_down", "finish", "restore"} /\ flow[h] \in Flows
        /\ \A k \in Handlers : k # h => pc'[k] = pc[k]
        /\ pc'[h] \in {"idle", "insert"}
        /\ UNCHANGED <<started, pending, token, expired, code, flow, reply, rows, lost,
                       broken, died>>
    BY <1>0, <1>5 DEF SlowDown, Finish, Restore
  <2>2. \/ UNCHANGED page
        \/ Respond(h, "waiting")
        \/ pc[h] = "restore" /\ Respond(h, "failed")
        \/ /\ pc[h] = "finish" /\ flow[h] \notin pending \intersect token
           /\ Respond(h, "failed")
    BY <1>5 DEF SlowDown, Finish, Restore
  <2>3. \A g \in Flows : /\ page'[g] # "none" => page[g] # "none"
                         /\ page'[g] = "failed" => page[g] = "failed" \/ Cause(g)
    BY <2>1, <2>2
  <2> QED BY <1>0, <2>1, <2>3
<1>6. ASSUME NEW h \in Handlers, Remove(h) PROVE PageInv'
  <2>1. /\ pc[h] \in {"remove", "created"} /\ flow[h] \in Flows
        /\ pending' = pending \ {flow[h]}
        /\ pc'[h] = "idle" /\ \A k \in Handlers : k # h => pc'[k] = pc[k]
        /\ UNCHANGED <<started, token, expired, code, flow, reply, rows, lost, broken, died>>
    BY <1>0, <1>6 DEF Remove
  <2>2. Cause(flow[h])
    BY <2>1 DEF KeptInv, Departures
  <2>3. \A g \in Flows : /\ page'[g] # "none" => page[g] # "none"
                         /\ page'[g] = "failed" => page[g] = "failed" \/ g = flow[h]
    BY <1>6, <2>1 DEF Remove
  <2> QED BY <1>0, <2>1, <2>2, <2>3
<1>7. ASSUME NEW h \in Handlers, Insert(h) PROVE PageInv'
  <2>1. /\ pc[h] = "insert" /\ flow[h] \in Flows
        /\ pc'[h] \in {"created", "restore"}
        /\ pc'[h] = "restore" => flow[h] \in broken'
        /\ broken \subseteq broken'
        /\ \A k \in Handlers : k # h => pc'[k] = pc[k]
        /\ UNCHANGED <<started, pending, token, expired, code, flow, reply, lost, died, page>>
    BY <1>0, <1>7 DEF Insert, Fault
  <2>2. \A g \in Flows : rows[g] > 0 => rows'[g] > 0
    BY <1>7, <2>1 DEF Insert
  <2> QED BY <1>0, <2>1, <2>2
<1>8. ASSUME NEW f \in Flows, Decide(f) PROVE PageInv'
  <2>1. /\ code[f] = "open"
        /\ \A g \in Flows : g # f => code'[g] = code[g]
        /\ UNCHANGED <<mapVars, clockVars, pollVars, pageVars, dbVars, lost, bounds>>
    BY <1>8 DEF Decide
  <2> QED BY <1>0, <2>1
<1>9. ASSUME NEW f \in Flows, LeavePage(f) \/ Rest(f) \/ Expire(f) PROVE PageInv'
  <2>1. /\ expired \subseteq expired'
        /\ \A g \in Flows : /\ page'[g] # "none" => page[g] # "none"
                            /\ page'[g] = "failed" => page[g] = "failed"
        /\ UNCHANGED <<started, pending, token, code, pc, flow, reply, rows, lost, broken, died>>
    BY <1>9 DEF LeavePage, Rest, Expire
  <2>2. CausesStay
    BY <2>1 DEF CausesStay
  <2> QED BY <1>0, <2>1, <2>2 DEF CausesStay
<1>10. CASE Restart
  <2>1. /\ died' = started
        /\ pc' = [h \in Handlers |-> "idle"]
        /\ \A g \in Flows : page'[g] # "none" => page[g] # "none"
        /\ UNCHANGED <<started, expired, code, flow, reply, rows, lost, broken>>
    BY <1>10 DEF Restart
  <2> QED BY <2>1
<1>11. CASE UNCHANGED vars
  BY <1>11 DEF vars
<1> QED BY <1>1, <1>2, <1>3, <1>4, <1>5, <1>6, <1>7, <1>8, <1>9, <1>10, <1>11
        DEF Next, HandlerStep

(* The page that started a login gives it up only for a cause: no race of its
   polls with those of others makes it see an error.                         *)
THEOREM PageGivesUpForCause == Spec => []PageFailsForCause
<1>1. RowsInv => Types
  BY DEF RowsInv
<1>2. PageInv => PageFailsForCause
  BY DEF PageInv
<1> QED BY RowsInit, RowsNext, AskInit, AskNext, RestInit, RestNext, KeptInit, KeptNext,
           PageInit, PageNext, <1>1, <1>2, PTL DEF Spec
=============================================================================
