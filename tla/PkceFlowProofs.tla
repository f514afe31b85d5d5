--------------------------- MODULE PkceFlowProofs ---------------------------
(***************************************************************************)
(* Proofs about logins by authorization code, for any number of flows,     *)
(* codes and exchanges.                                                    *)
(***************************************************************************)
EXTENDS PkceFlow, TLAPS

(* An exchange owns Finalizing from the guard until it clears the flag or
   the flow is gone.                                                         *)
Owning == {"redeem", "insert", "created", "clear"}

Created(f) == \E h \in Handlers : pc[h] = "created" /\ flow[h] = f

Types ==
    /\ started \subseteq Flows
    /\ pending \subseteq started
    /\ pc \in [Handlers -> {"idle"} \union InExchange]
    /\ flow \in [Handlers -> Flows \union {None}]
    /\ then \in [Handlers -> {"idle", "drop"}]
    /\ \A h \in Handlers : pc[h] # "idle" => flow[h] \in started
    /\ rows \in [Flows -> Nat]
    /\ misread \in [Flows -> Nat]

OneOwner ==
    \A h \in Handlers : pc[h] \in Owning =>
        /\ flow[h] \in pending => flow[h] \in finalizing
        /\ \A k \in Handlers : pc[k] \in Owning /\ flow[k] = flow[h] => h = k

RowsCounted ==
    /\ OneSubscription
    /\ \A f \in Flows : f \notin started => rows[f] <= misread[f]
    /\ \A f \in pending : ~Created(f) => rows[f] <= misread[f]
    /\ \A h \in Handlers :
          pc[h] \in Owning /\ pc[h] # "created" => rows[flow[h]] <= misread[flow[h]]

IInv == Types /\ OneOwner /\ RowsCounted

LEMMA InitIInv == Init => IInv
BY DEF Init, IInv, Types, OneOwner, RowsCounted, OneSubscription, InExchange, Owning

LEMMA NextIInv == IInv /\ [Next]_vars => IInv'
<1> SUFFICES ASSUME IInv, [Next]_vars PROVE IInv'
  OBVIOUS
<1> USE NilAssumption DEF IInv, Types, InExchange, Owning, Alive, Go, ClearThen
<1>1. ASSUME NEW f \in Flows, Start(f) PROVE IInv'
  <2>1. \A h \in Handlers : pc[h] # "idle" => flow[h] # f
    BY <1>1 DEF Start
  <2>2. Types' /\ OneOwner'
    BY <1>1, <2>1 DEF Start, reqVars, dbVars, OneOwner
  <2>3. RowsCounted'
    BY <1>1 DEF Start, reqVars, dbVars, RowsCounted, OneSubscription, Created
  <2> QED BY <2>2, <2>3
<1>2. ASSUME NEW h \in Handlers, NEW f \in Flows, NEW c \in Codes, Exchange(h, f, c)
      PROVE  IInv'
  <2>1. CASE f \notin Alive \/ f \in finalizing
    <3>1. /\ UNCHANGED <<started, finalizing, pc, then, rows, misread>>
          /\ pending' = Alive /\ pc[h] = "idle"
          /\ flow' = [flow EXCEPT ![h] = f]
      BY <1>2, <2>1 DEF Exchange, dbVars
    <3> QED BY <3>1 DEF OneOwner, RowsCounted, OneSubscription, Created
  <2>2. CASE f \in Alive /\ f \notin finalizing
    <3>1. \A k \in Handlers : pc[k] \in Owning => flow[k] # f
      BY <2>2 DEF OneOwner
    <3>2. /\ UNCHANGED <<started, then, rows, misread>>
          /\ pending' = Alive /\ finalizing' = finalizing \union {f}
          /\ pc[h] = "idle" /\ pc' = [pc EXCEPT ![h] = "redeem"]
          /\ flow' = [flow EXCEPT ![h] = f]
      BY <1>2, <2>2 DEF Exchange, dbVars
    <3>3. Types' /\ OneOwner'
      BY <2>2, <3>1, <3>2 DEF OneOwner
    <3>4. rows[f] <= misread[f]
      BY <2>2, <3>1 DEF RowsCounted, Created
    <3>5. RowsCounted'
      BY <3>1, <3>2, <3>4 DEF RowsCounted, OneSubscription, Created
    <3> QED BY <3>3, <3>5
  <2> QED BY <2>1, <2>2
<1>3. ASSUME NEW h \in Handlers, Redeem(h) PROVE IInv'
  <2>1. /\ UNCHANGED <<started, pending, finalizing, flow, rows, misread>>
        /\ pc[h] = "redeem"
        /\ \E p \in {"insert", "drop", "clear"} : pc' = [pc EXCEPT ![h] = p]
        /\ then' \in [Handlers -> {"idle", "drop"}]
    BY <1>3 DEF Redeem, mapVars, dbVars
  <2> QED BY <2>1 DEF OneOwner, RowsCounted, OneSubscription, Created
<1>4. ASSUME NEW h \in Handlers, Insert(h) PROVE IInv'
  <2>1. /\ UNCHANGED <<started, pending, finalizing, flow>>
        /\ pc[h] = "insert" /\ flow[h] \in Flows
        /\ rows[flow[h]] <= misread[flow[h]]
        /\ \E p \in {"created", "clear"} : pc' = [pc EXCEPT ![h] = p]
        /\ then' \in [Handlers -> {"idle", "drop"}]
    BY <1>4 DEF Insert, mapVars, RowsCounted
  <2>2. \A k \in Handlers : pc[k] \in Owning /\ k # h => flow[k] # flow[h]
    BY <2>1 DEF OneOwner
  <2>3. Types' /\ OneOwner'
    <3>1. rows' \in [Flows -> Nat] /\ misread' \in [Flows -> Nat]
      BY <1>4, <2>1 DEF Insert
    <3> QED BY <2>1, <3>1 DEF OneOwner
  <2>4. CASE pc'[h] = "created" /\ rows' = [rows EXCEPT ![flow[h]] = @ + 1]
             /\ UNCHANGED misread
    <3>1. \A g \in Flows : Created(g)' <=> Created(g) \/ g = flow[h]
      BY <2>1, <2>4 DEF Created
    <3> QED BY <2>1, <2>2, <2>3, <2>4, <3>1 DEF RowsCounted, OneSubscription
  <2>5. CASE pc'[h] = "clear" /\ UNCHANGED <<rows, misread>>
    BY <2>1, <2>3, <2>5 DEF RowsCounted, OneSubscription, Created
  <2>6. CASE pc'[h] = "clear" /\ rows' = [rows EXCEPT ![flow[h]] = @ + 1]
             /\ misread' = [misread EXCEPT ![flow[h]] = @ + 1]
    BY <2>1, <2>3, <2>6 DEF RowsCounted, OneSubscription, Created
  <2> QED BY <1>4, <2>1, <2>4, <2>5, <2>6 DEF Insert
<1>5. ASSUME NEW h \in Handlers, Clear(h) PROVE IInv'
  <2>1. /\ UNCHANGED <<started, pending, flow, then, rows, misread>>
        /\ pc[h] = "clear" /\ finalizing \ {flow[h]} \subseteq finalizing'
        /\ pc' = [pc EXCEPT ![h] = then[h]]
    BY <1>5 DEF Clear, dbVars
  <2> QED BY <2>1 DEF OneOwner, RowsCounted, OneSubscription, Created
<1>6. ASSUME NEW h \in Handlers, Remove(h) PROVE IInv'
  <2>1. OneOwner'
    BY <1>6 DEF Remove, OneOwner
  <2>2. RowsCounted'
    BY <1>6 DEF Remove, RowsCounted, OneSubscription, Created, dbVars
  <2> QED BY <1>6, <2>1, <2>2 DEF Remove, dbVars
<1>7. ASSUME NEW f \in Flows, Expire(f) \/ (\E c \in Codes : Issue(f, c)) PROVE IInv'
  <2>1. UNCHANGED <<mapVars, reqVars, dbVars>>
    BY <1>7 DEF Expire, Issue
  <2> QED BY <2>1 DEF mapVars, reqVars, dbVars, OneOwner, RowsCounted, OneSubscription, Created
<1>8. CASE Restart
  BY <1>8 DEF Restart, OneOwner, RowsCounted, OneSubscription, Created, dbVars
<1>9. CASE UNCHANGED vars
  BY <1>9 DEF vars, mapVars, reqVars, dbVars, OneOwner, RowsCounted, OneSubscription, Created
<1> QED BY <1>1, <1>2, <1>3, <1>4, <1>5, <1>6, <1>7, <1>8, <1>9 DEF Next, HandlerStep

-----------------------------------------------------------------------------
(* What TypeOK says beyond Types. *)
RestTypes ==
    /\ finalizing \subseteq started /\ expired \subseteq started
    /\ grantedTo \in [Codes -> Flows \union {None}]
    /\ valid \subseteq Codes
    /\ code \in [Handlers -> Codes \union {None}]
    /\ faults \in 0..MaxFaults
    /\ restarts \in 0..MaxRestarts

LEMMA RestInit == Init => RestTypes
BY BoundsAssumption DEF Init, RestTypes

LEMMA RestNext == Types /\ RestTypes /\ [Next]_vars => RestTypes'
<1> SUFFICES ASSUME Types, RestTypes, [Next]_vars PROVE RestTypes'
  OBVIOUS
<1> USE NilAssumption, BoundsAssumption
    DEF Types, RestTypes, Alive, Go, ClearThen, Fault, mapVars, provVars, reqVars, dbVars,
        bounds
<1>1. ASSUME NEW f \in Flows, Start(f) \/ Expire(f) PROVE RestTypes'
  BY <1>1 DEF Start, Expire
<1>2. ASSUME NEW h \in Handlers, NEW f \in Flows, NEW c \in Codes, Exchange(h, f, c)
      PROVE  RestTypes'
  BY <1>2 DEF Exchange
<1>3. ASSUME NEW h \in Handlers, Redeem(h) PROVE RestTypes'
  BY <1>3 DEF Redeem
<1>4. ASSUME NEW h \in Handlers, Insert(h) PROVE RestTypes'
  BY <1>4 DEF Insert
<1>5. ASSUME NEW h \in Handlers, Clear(h) \/ Remove(h) PROVE RestTypes'
  BY <1>5 DEF Clear, Remove
<1>6. ASSUME NEW f \in Flows, NEW c \in Codes, Issue(f, c) PROVE RestTypes'
  BY <1>6 DEF Issue
<1>7. CASE Restart
  BY <1>7 DEF Restart
<1>8. CASE UNCHANGED vars
  BY <1>8 DEF vars
<1> QED BY <1>1, <1>2, <1>3, <1>4, <1>5, <1>6, <1>7, <1>8 DEF Next, HandlerStep

(* The map and its flags only hold flows that were started, and each exchange
   is between two of its critical sections.                                  *)
THEOREM TypeCorrect == Spec => []TypeOK
<1>1. IInv => Types
  BY DEF IInv
<1>2. Types /\ RestTypes => TypeOK
  BY DEF Types, RestTypes, TypeOK
<1> QED BY InitIInv, NextIInv, RestInit, RestNext, <1>1, <1>2, PTL DEF Spec

-----------------------------------------------------------------------------
(* One subscription per login, beyond the inserts reported as failed. *)
THEOREM LoginCreatesOne == Spec => []OneSubscription
<1>1. IInv => OneSubscription
  BY DEF IInv, RowsCounted
<1> QED BY InitIInv, NextIInv, <1>1, PTL DEF Spec

(* No two codes of one flow are ever on their way to a subscription. *)
THEOREM ExchangesApart == Spec => []OneExchange
<1>1. IInv => OneExchange
  BY DEF IInv, OneOwner, OneExchange, Exchanging, Owning
<1> QED BY InitIInv, NextIInv, <1>1, PTL DEF Spec
=============================================================================
