--------------------------- MODULE DatabaseProofs ---------------------------
(***************************************************************************)
(* What is proved of the database: of a quota row in it (QuotaStore), for  *)
(* any actors, windows and bounds, and of the upgrade from whatever an     *)
(* earlier version has left behind (Migration), for any rows and bounds.   *)
(***************************************************************************)
EXTENDS QuotaStore, Migration, TLAPS

-----------------------------------------------------------------------------
(* What merging does to a quota: nothing is older afterwards, and what the
   report has is as new as the report.                                       *)
LEMMA MergeKeepsNewest ==
    ASSUME NEW q \in [Fields -> Nat], NEW seen, NEW t \in Nat,
           \A f \in Fields : q[f] <= t
    PROVE  /\ MergeHeaders(q, seen, t) \in [Fields -> 0..t]
           /\ MergeBody(q, seen, t) \in [Fields -> 0..t]
           /\ \A f \in Fields : /\ q[f] <= MergeHeaders(q, seen, t)[f]
                                /\ q[f] <= MergeBody(q, seen, t)[f]
           /\ \A f \in Fields \intersect seen : /\ MergeHeaders(q, seen, t)[f] = t
                                                /\ MergeBody(q, seen, t)[f] = t
BY SMT DEF MergeHeaders, MergeBody

(* The profile's tier only fills a gap. *)
LEMMA TierFillsGap ==
    ASSUME NEW t \in Nat, NEW q \in [Fields -> 0..t]
    PROVE  /\ WithTier(q, t) \in [Fields -> 0..t]
           /\ \A f \in Fields : q[f] <= WithTier(q, t)[f]
BY SMT DEF WithTier, Fields

-----------------------------------------------------------------------------
(* Steps preserve the types. *)
LEMMA TypeStep == TypeOK /\ [Next]_vars => TypeOK'
<1> SUFFICES ASSUME TypeOK, [Next]_vars PROVE TypeOK'
  OBVIOUS
<1> USE ClockAssumption
<1>0. MaxClock \in Nat /\ clock \in Nat /\ Unknown \in [Fields -> Times]
  BY DEF TypeOK, Times, Unknown
<1>1. ASSUME NEW r \in Requests, Resolve(r) PROVE TypeOK'
  BY <1>0, <1>1, SMT DEF Resolve, Begin, TypeOK, Times, rowVars, Actors
<1>2. ASSUME NEW r \in Requests, NEW seen \in SUBSET (Windows \union RateLimits), Headers(r, seen)
      PROVE  TypeOK'
  <2> DEFINE q == MergeHeaders(held[r], seen, clock + 1)
  <2>1. r \in Actors /\ held[r] \in [Fields -> Nat] /\ \A f \in Fields : held[r][f] <= clock + 1
    BY <1>0, SMT DEF TypeOK, Times, Actors
  <2>2. q \in [Fields -> 0..(clock + 1)]
    BY <1>0, <2>1, MergeKeepsNewest, SMT
  <2>3. clock' = clock + 1 /\ clock' \in 0..MaxClock /\ Times \subseteq Times'
    BY <1>0, <1>2, SMT DEF Headers, Times
  <2>4. [Fields -> Times] \subseteq [Fields -> Times']
    BY <2>3, Zenon
  <2>5. pc' \in [Actors -> {"idle", "asked", "answered"}]
        /\ held' \in [Actors -> [Fields -> Times']] /\ time' \in [Actors -> Times']
    <3> HIDE DEF q
    <3>1. Unknown \in [Fields -> Times'] /\ q \in [Fields -> Times'] /\ 0 \in Times' /\ clock + 1 \in Times'
      BY <1>0, <2>2, <2>3, <2>4, SMT DEF Times
    <3>2. held \in [Actors -> [Fields -> Times']] /\ time \in [Actors -> Times']
      BY <2>3, <2>4, SMT DEF TypeOK
    <3> QED
      BY <1>2, <2>1, <3>1, <3>2 DEF Headers, End, TypeOK, q
  <2> QED
    BY <1>2, <2>3, <2>4, <2>5 DEF Headers, TypeOK, rowVars, historyVars
<1>3. ASSUME NEW a \in Refreshers, BeginRefresh(a) PROVE TypeOK'
  BY <1>0, <1>3, SMT DEF BeginRefresh, Begin, TypeOK, Times, rowVars, Actors
<1>4. ASSUME NEW a \in Refreshers, NEW seen \in SUBSET (Fields \ RateLimits),
             NEW bare \in BOOLEAN, NEW profile \in BOOLEAN, Body(a, seen, bare, profile)
      PROVE  TypeOK'
  <2> DEFINE q == MergeBody(held[a], seen, clock + 1)
             p == IF profile THEN WithTier(q, clock + 1) ELSE q
  <2>1. a \in Actors /\ held[a] \in [Fields -> Nat] /\ \A f \in Fields : held[a][f] <= clock + 1
    BY <1>0, SMT DEF TypeOK, Times, Actors
  <2>2. q \in [Fields -> 0..(clock + 1)]
    BY <1>0, <2>1, MergeKeepsNewest, SMT
  <2>3. p \in [Fields -> 0..(clock + 1)]
    <3> HIDE DEF q
    <3> QED BY <1>0, <2>2, TierFillsGap, SMT
  <2>4. clock' = clock + 1 /\ clock' \in 0..MaxClock /\ Times \subseteq Times'
    BY <1>0, <1>4, SMT DEF Body, Times
  <2>5. [Fields -> Times] \subseteq [Fields -> Times']
    BY <2>4, Zenon
  <2>6. held' = [held EXCEPT ![a] = p] /\ p \in [Fields -> Times']
    BY <1>4, <2>3, <2>4 DEF Body, Times
  <2>7. held \in [Actors -> [Fields -> Times']]
    BY <2>5 DEF TypeOK
  <2>8. held' \in [Actors -> [Fields -> Times']]
    <3> HIDE DEF p
    <3> QED BY <2>1, <2>6, <2>7
  <2> QED
    BY <1>4, <2>4, <2>5, <2>8 DEF Body, TypeOK, rowVars, historyVars
<1>5. ASSUME NEW a \in Refreshers, StoreQuotaError(a) PROVE TypeOK'
  BY <1>0, <1>5, SMT DEF StoreQuotaError, End, TypeOK, Times, historyVars, Actors
<1>6. ASSUME NEW a \in Actors, Store(a) PROVE TypeOK'
  <2>1. Times' = Times /\ held[a] \in [Fields -> Times] /\ time[a] \in Times
    BY <1>6 DEF Store, TypeOK, Times
  <2>2. latest' \in [Fields -> Times]
    <3>1. \A f \in Fields : Larger(latest[f], held[a][f]) \in Times
      BY <2>1 DEF TypeOK, Larger
    <3> QED BY <1>6, <3>1, Zenon DEF Store
  <2>3. pc' \in [Actors -> {"idle", "asked", "answered"}]
        /\ held' \in [Actors -> [Fields -> Times]] /\ time' \in [Actors -> Times]
    <3>1. 0 \in Times
      BY <1>0, SMT DEF Times
    <3> QED BY <1>0, <1>6, <3>1 DEF Store, End, TypeOK
  <2>4. raced' \in BOOLEAN /\ behind' \subseteq Actors
    BY <1>6, Zenon DEF Store, TypeOK
  <2> QED
    BY <1>6, <2>1, <2>2, <2>3, <2>4 DEF Store, TypeOK
<1>7. ASSUME NEW a \in Actors, GiveUp(a) PROVE TypeOK'
  BY <1>0, <1>7, SMT DEF GiveUp, End, TypeOK, Times, rowVars, historyVars
<1>8. CASE UNCHANGED vars
  BY <1>8 DEF vars, rowVars, localVars, historyVars, TypeOK, Times
<1> QED
  BY <1>1, <1>2, <1>3, <1>4, <1>5, <1>6, <1>7, <1>8 DEF Next, RequestStep, RefreshStep

(* The initial states are well typed. *)
LEMMA InitTyped == Init => TypeOK
<1> SUFFICES ASSUME Init PROVE TypeOK
  OBVIOUS
<1>1. clock \in 0..MaxClock /\ 0 \in Times
  BY ClockAssumption, SMT DEF Init, Times
<1>2. Unknown \in [Fields -> Times]
  BY <1>1 DEF Unknown
<1> QED
  BY <1>1, <1>2 DEF Init, TypeOK

(* Every reachable state is well typed; no report, and no quota_checked_at,
   is ahead of the provider's.                                               *)
THEOREM TypeCorrect == Spec => []TypeOK
BY InitTyped, TypeStep, PTL DEF Spec

-----------------------------------------------------------------------------
(* An actor that is not behind holds the row as it is, and later something
   at least as new in every field; until a store while behind the row is
   then the newest of everything.                                            *)
MergeInv ==
    /\ LatestUnlessRaced
    /\ \A a \in Actors \ behind :
          /\ pc[a] = "asked" => held[a] = quota
          /\ pc[a] = "answered" => \A f \in Fields : quota[f] <= held[a][f]

(* Steps preserve MergeInv. *)
LEMMA MergeStep == TypeOK /\ MergeInv /\ [Next]_vars => MergeInv'
<1> SUFFICES ASSUME TypeOK, MergeInv, [Next]_vars PROVE MergeInv'
  OBVIOUS
<1> USE DEF MergeInv, LatestUnlessRaced, LatestKept
<1>0. clock \in Nat /\ quota \in [Fields -> Nat] /\ latest \in [Fields -> Nat]
      /\ held \in [Actors -> [Fields -> Nat]]
      /\ \A a \in Actors, f \in Fields : held[a][f] <= clock + 1
  BY ClockAssumption, SMT DEF TypeOK, Times
<1>a. DOMAIN pc = Actors /\ DOMAIN held = Actors
  BY DEF TypeOK
<1>1. ASSUME NEW a \in Actors, Begin(a), UNCHANGED <<quota, latest, raced>> PROVE MergeInv'
  BY <1>a, <1>1 DEF Begin
<1>2. ASSUME NEW r \in Requests, NEW seen \in SUBSET (Windows \union RateLimits), Headers(r, seen)
      PROVE  MergeInv'
  <2> DEFINE q == MergeHeaders(held[r], seen, clock + 1)
  <2>1. r \in Actors
    BY DEF Actors
  <2>2. \A f \in Fields : held[r][f] <= q[f]
    BY <1>0, <2>1, MergeKeepsNewest, SMT
  <2>3. r \notin behind => \A f \in Fields : quota[f] <= q[f]
    <3> HIDE DEF q
    <3> QED BY <1>2, <2>1, <2>2 DEF Headers
  <2> HIDE DEF q
  <2>4. UNCHANGED <<quota, latest, raced, behind>>
    BY <1>2 DEF Headers, rowVars, historyVars
  <2>5. CASE seen = {}
    BY <1>2, <1>a, <2>1, <2>4, <2>5 DEF Headers, End
  <2>6. CASE seen # {}
    <3>1. pc' = [pc EXCEPT ![r] = "answered"] /\ held' = [held EXCEPT ![r] = q]
      BY <1>2, <2>6 DEF Headers, q
    <3> QED BY <1>a, <2>1, <2>3, <2>4, <3>1
  <2> QED BY <2>5, <2>6
<1>3. ASSUME NEW a \in Refreshers, NEW seen \in SUBSET (Fields \ RateLimits),
             NEW bare \in BOOLEAN, NEW profile \in BOOLEAN, Body(a, seen, bare, profile)
      PROVE  MergeInv'
  <2> DEFINE q == MergeBody(held[a], seen, clock + 1)
             p == IF profile THEN WithTier(q, clock + 1) ELSE q
  <2>1. a \in Actors
    BY DEF Actors
  <2>2. q \in [Fields -> 0..(clock + 1)] /\ \A f \in Fields : held[a][f] <= q[f]
    BY <1>0, <2>1, MergeKeepsNewest, SMT
  <2>3. p \in [Fields -> 0..(clock + 1)] /\ \A f \in Fields : q[f] <= p[f]
    <3> HIDE DEF q
    <3> QED BY <1>0, <2>2, TierFillsGap, SMT
  <2>4. a \notin behind => \A f \in Fields : quota[f] <= p[f]
    <3> HIDE DEF q, p
    <3>1. a \notin behind => held[a] = quota
      BY <1>3, <2>1 DEF Body
    <3> QED BY <1>0, <2>1, <2>2, <2>3, <3>1, SMT
  <2>5. UNCHANGED <<quota, latest, raced, behind>>
        /\ pc' = [pc EXCEPT ![a] = "answered"] /\ held' = [held EXCEPT ![a] = p]
    BY <1>3 DEF Body, rowVars, historyVars
  <2> HIDE DEF p
  <2> QED BY <1>a, <2>1, <2>4, <2>5
<1>4. ASSUME NEW a \in Actors, Store(a) PROVE MergeInv'
  <2>1. \A b \in Actors \ behind' : pc'[b] = "idle"
    BY <1>4, <1>a DEF Store, End
  <2>2. raced' \/ quota' = latest'
    <3> SUFFICES ASSUME ~raced' PROVE quota' = latest'
      OBVIOUS
    <3>1. quota = latest /\ \A f \in Fields : quota[f] <= held[a][f]
      BY <1>4, Zenon DEF Store
    <3>2. \A f \in Fields : Larger(latest[f], held[a][f]) = held[a][f]
      BY <1>0, <3>1, SMT DEF Larger
    <3>3. latest' = [f \in Fields |-> held[a][f]]
      BY <1>4, <3>2, Zenon DEF Store
    <3>4. held[a] = [f \in Fields |-> held[a][f]]
      BY <1>0
    <3> QED BY <1>4, <3>3, <3>4 DEF Store
  <2> QED BY <2>1, <2>2
<1>5. ASSUME NEW a \in Actors, End(a), UNCHANGED <<quota, behind, latest, raced>> PROVE MergeInv'
  BY <1>a, <1>5 DEF End
<1>6. CASE UNCHANGED vars
  BY <1>6 DEF vars, rowVars, localVars, historyVars
<1>7. Actors = Requests \union Refreshers
  BY DEF Actors
<1> QED
  BY <1>1, <1>2, <1>3, <1>4, <1>5, <1>6, <1>7
  DEF Next, RequestStep, RefreshStep, Resolve, BeginRefresh, StoreQuotaError, GiveUp,
      rowVars, historyVars

(* LatestUnlessRaced: a report is lost only by a write whose quota was read
   before another write.                                                     *)
THEOREM LossNeedsRace == Spec => []LatestUnlessRaced
<1>1. Init => TypeOK /\ MergeInv
  BY InitTyped DEF Init, MergeInv, LatestUnlessRaced, LatestKept
<1> QED
  BY <1>1, TypeStep, MergeStep, PTL DEF Spec, MergeInv

-----------------------------------------------------------------------------
(* What a goroutine is about to store is as new, in some field, as the time
   of its check.                                                             *)
FreshInv ==
    blank \/ /\ \E f \in Fields : quota[f] >= checked
             /\ \A a \in Actors : pc[a] = "answered" => \E f \in Fields : held[a][f] >= time[a]

(* Steps preserve FreshInv. *)
LEMMA FreshStep == TypeOK /\ FreshInv /\ [Next]_vars => FreshInv'
<1> SUFFICES ASSUME TypeOK, FreshInv, [Next]_vars, ~blank' PROVE FreshInv'
  BY DEF FreshInv
<1> USE DEF FreshInv
<1>0. /\ clock \in Nat /\ time \in [Actors -> Nat] /\ \A a \in Actors : time[a] <= clock
      /\ held \in [Actors -> [Fields -> Nat]]
      /\ \A a \in Actors, f \in Fields : held[a][f] <= clock + 1
  BY ClockAssumption, SMT DEF TypeOK, Times
<1>a. DOMAIN pc = Actors /\ DOMAIN held = Actors /\ DOMAIN time = Actors
  BY DEF TypeOK
<1>1. ASSUME NEW a \in Actors, pc'[a] # "answered", UNCHANGED <<quota, checked, blank>>,
             \A b \in Actors \ {a} : UNCHANGED <<pc[b], held[b], time[b]>>
      PROVE  FreshInv'
  BY <1>1
<1>2. ASSUME NEW r \in Requests, NEW seen \in SUBSET (Windows \union RateLimits),
             seen # {}, Headers(r, seen)
      PROVE  FreshInv'
  <2>1. PICK f \in seen : TRUE
    BY <1>2
  <2>2. r \in Actors /\ f \in Fields
    BY DEF Actors, Fields
  <2>3. held'[r][f] = clock + 1 /\ time'[r] = clock + 1 /\ clock + 1 >= clock + 1
    <3>1. MergeHeaders(held[r], seen, clock + 1)[f] = clock + 1
      BY <1>0, <2>1, <2>2, MergeKeepsNewest, SMT
    <3> QED BY <1>0, <1>2, <1>a, <2>2, <3>1 DEF Headers
  <2>4. \A b \in Actors \ {r} : UNCHANGED <<pc[b], held[b], time[b]>>
    BY <1>2, <1>a, <2>2 DEF Headers
  <2> QED
    BY <1>2, <2>2, <2>3, <2>4 DEF Headers, rowVars
<1>3. ASSUME NEW a \in Refreshers, NEW seen \in SUBSET (Fields \ RateLimits),
             NEW bare \in BOOLEAN, NEW profile \in BOOLEAN, Body(a, seen, bare, profile)
      PROVE  FreshInv'
  <2> DEFINE q == MergeBody(held[a], seen, clock + 1)
             p == IF profile THEN WithTier(q, clock + 1) ELSE q
  <2>1. PICK f \in seen : TRUE
    BY <1>3 DEF Body
  <2>2. a \in Actors /\ f \in Fields
    BY DEF Actors
  <2>3. q \in [Fields -> 0..(clock + 1)] /\ q[f] = clock + 1
    BY <1>0, <2>1, <2>2, MergeKeepsNewest, SMT
  <2>4. p \in [Fields -> 0..(clock + 1)] /\ clock + 1 <= p[f]
    <3> HIDE DEF q
    <3> QED BY <1>0, <2>2, <2>3, TierFillsGap, SMT
  <2>5. held' = [held EXCEPT ![a] = p] /\ pc' = [pc EXCEPT ![a] = "answered"]
        /\ UNCHANGED <<quota, checked, time>> /\ ~blank
    BY <1>3 DEF Body, rowVars
  <2> HIDE DEF p
  <2>6. held'[a][f] >= time'[a]
    BY <1>0, <1>a, <2>2, <2>4, <2>5, SMT
  <2> QED
    BY <1>a, <2>2, <2>5, <2>6
<1>4. ASSUME NEW a \in Actors, Store(a) PROVE FreshInv'
  <2>1. \A b \in Actors \ {a} : UNCHANGED <<pc[b], held[b], time[b]>>
    BY <1>4, <1>a DEF Store, End
  <2>2. pc'[a] = "idle" /\ ~blank
    BY <1>4, <1>a DEF Store, End
  <2> QED
    BY <1>4, <2>1, <2>2 DEF Store
<1>5. ASSUME NEW a \in Actors, End(a) \/ Begin(a), UNCHANGED <<quota, checked, blank>>,
             \A b \in Actors \ {a} : UNCHANGED time[b]
      PROVE  FreshInv'
  BY <1>a, <1>5, <1>1 DEF End, Begin
<1>6. CASE UNCHANGED vars
  BY <1>6 DEF vars, rowVars, localVars
<1>7. \A r \in Requests : Resolve(r) => FreshInv'
  BY <1>5 DEF Resolve, rowVars, Actors
<1>8. \A a \in Refreshers : BeginRefresh(a) \/ StoreQuotaError(a) => FreshInv'
  BY <1>5, <1>a DEF BeginRefresh, StoreQuotaError, End, rowVars, Actors
<1>9. \A a \in Actors : GiveUp(a) => FreshInv'
  BY <1>5, <1>a DEF GiveUp, End, rowVars
<1>10. \A r \in Requests : Headers(r, {}) => FreshInv'
  BY <1>5, <1>a DEF Headers, End, rowVars, Actors
<1> QED
  BY <1>2, <1>3, <1>4, <1>6, <1>7, <1>8, <1>9, <1>10 DEF Next, RequestStep, RefreshStep

(* NeverClaimsFresher: quota_checked_at is not later than the newest report
   in the row.                                                               *)
THEOREM CheckedHonestly == Spec => []NeverClaimsFresher
<1>1. Init => TypeOK /\ FreshInv
  <2> SUFFICES ASSUME Init PROVE FreshInv
    BY InitTyped
  <2>1. "tier" \in Fields /\ quota["tier"] = 0 /\ checked = 0
    BY DEF Init, Unknown, Fields
  <2> QED BY <2>1 DEF Init, FreshInv
<1>2. FreshInv => NeverClaimsFresher
  BY DEF FreshInv, NeverClaimsFresher
<1> QED
  BY <1>1, <1>2, TypeStep, FreshStep, PTL DEF Spec

-----------------------------------------------------------------------------
(* Migration: what its statements make of a table. *)

(* A table is what its columns and its rows make it. *)
LEMMA TableMade ==
    ASSUME NEW t, NEW C, NEW R, t = [columns |-> C, rows |-> R],
           R = [i \in DOMAIN R |-> [c \in C |-> R[i][c]]],
           C # {} \/ DOMAIN R = {}
    PROVE  IsTable(t) /\ t.columns = C /\ t.rows = R
<1>1. t.columns = C /\ t.rows = R
  OBVIOUS
<1>2. t = [columns |-> t.columns, rows |-> t.rows]
  BY <1>1
<1>3. t.rows = [i \in DOMAIN t.rows |-> [c \in t.columns |-> t.rows[i][c]]]
  BY <1>1, Zenon
<1>4. ~Exists(t) => DOMAIN t.rows = {}
  BY <1>1 DEF Exists
<1>. QED BY <1>1, <1>2, <1>3, <1>4, Zenon DEF IsTable

(* CREATE TABLE. *)
LEMMA EmptyTable ==
    ASSUME NEW C, NEW t, t = [columns |-> C, rows |-> <<>>]
    PROVE  IsTable(t) /\ t.columns = C /\ DOMAIN t.rows = {}
<1>1. DOMAIN <<>> = {}
  OBVIOUS
<1>2. <<>> = [i \in DOMAIN <<>> |-> [c \in C |-> <<>>[i][c]]]
  BY <1>1
<1>3. t.columns = C /\ t.rows = <<>>
  OBVIOUS
<1>4. t = [columns |-> t.columns, rows |-> t.rows]
  BY <1>3, Zenon
<1>5. t.rows = [i \in DOMAIN t.rows |-> [c \in t.columns |-> t.rows[i][c]]]
  BY <1>2, <1>3, Zenon
<1>. QED BY <1>1, <1>3, <1>4, <1>5, Zenon DEF IsTable

(* Two tables with the same values are the same table. *)
LEMMA SameTable ==
    ASSUME NEW t, IsTable(t), NEW u, IsTable(u),
           t.columns = u.columns, DOMAIN t.rows = DOMAIN u.rows,
           \A i \in DOMAIN t.rows, c \in t.columns : t.rows[i][c] = u.rows[i][c]
    PROVE  t = u
<1>1. t.rows = u.rows
  BY DEF IsTable
<1>. QED BY <1>1, Zenon DEF IsTable

(* RENAME COLUMN, where it applies: the rows stay, and the values move to the new name. *)
LEMMA Renamed ==
    ASSUME NEW t, IsTable(t), NEW old, NEW new, old # new
    PROVE  /\ IsTable(Rename(t, old, new))
           /\ DOMAIN Rename(t, old, new).rows = DOMAIN t.rows
           /\ Exists(Rename(t, old, new)) <=> Exists(t)
           /\ Has(Rename(t, old, new), new) <=> Has(t, new) \/ Has(t, old)
           /\ Has(Rename(t, old, new), old) <=> Has(t, new) /\ Has(t, old)
           /\ \A c : c \notin {old, new} =>
                 (Has(Rename(t, old, new), c) <=> Has(t, c))
           /\ \A i \in DOMAIN t.rows, c \in t.columns \ {old} :
                 Rename(t, old, new).rows[i][c] = t.rows[i][c]
           /\ ~Has(t, new) /\ Has(t, old) =>
                 \A i \in DOMAIN t.rows : Rename(t, old, new).rows[i][new] = t.rows[i][old]
           /\ Has(t, new) => Rename(t, old, new) = t
<1>1. CASE Has(t, new) \/ ~Has(t, old)
  <2>1. Rename(t, old, new) = t
    BY <1>1, Zenon DEF Rename
  <2>. QED BY <2>1, <1>1 DEF Has
<1>2. CASE ~Has(t, new) /\ Has(t, old)
  <2> DEFINE C == (t.columns \ {old}) \union {new}
             R == [i \in DOMAIN t.rows |->
                     [c \in C |-> IF c = new THEN t.rows[i][old] ELSE t.rows[i][c]]]
  <2>1. Rename(t, old, new) = [columns |-> C, rows |-> R]
    BY <1>2, Zenon DEF Rename
  <2>2. /\ DOMAIN R = DOMAIN t.rows
        /\ \A i \in DOMAIN t.rows, c \in C :
              R[i][c] = IF c = new THEN t.rows[i][old] ELSE t.rows[i][c]
    OBVIOUS
  <2>3. R = [i \in DOMAIN R |-> [c \in C |-> R[i][c]]]
    OBVIOUS
  <2>4. C # {}
    OBVIOUS
  <2>5. new \in C /\ \A c : c \in C <=> (c \in t.columns /\ c # old) \/ c = new
    OBVIOUS
  <2>. HIDE DEF C, R
  <2>6. /\ IsTable(Rename(t, old, new))
        /\ Rename(t, old, new).columns = C /\ Rename(t, old, new).rows = R
    BY <2>1, <2>3, <2>4, TableMade
  <2>. QED BY <2>6, <2>2, <2>4, <2>5, <1>2 DEF Has, Exists
<1>. QED BY <1>1, <1>2

(* ADD COLUMN, where it applies: the rows stay, with the default in the new column. *)
LEMMA Ensured ==
    ASSUME NEW t, IsTable(t), NEW new, NEW default
    PROVE  /\ IsTable(Ensure(t, new, default))
           /\ DOMAIN Ensure(t, new, default).rows = DOMAIN t.rows
           /\ Exists(Ensure(t, new, default)) <=> Exists(t)
           /\ Has(Ensure(t, new, default), new) <=> Exists(t)
           /\ \A c : c # new => (Has(Ensure(t, new, default), c) <=> Has(t, c))
           /\ \A i \in DOMAIN t.rows, c \in t.columns :
                 Ensure(t, new, default).rows[i][c] = t.rows[i][c]
           /\ ~Has(t, new) =>
                 \A i \in DOMAIN t.rows : Ensure(t, new, default).rows[i][new] = default
           /\ Has(t, new) => Ensure(t, new, default) = t
<1>1. CASE ~Exists(t) \/ Has(t, new)
  <2>1. Ensure(t, new, default) = t
    BY <1>1, Zenon DEF Ensure
  <2>2. ~Exists(t) => DOMAIN t.rows = {} /\ t.columns = {}
    BY DEF IsTable, Exists
  <2>. QED BY <2>1, <2>2, <1>1 DEF Has, Exists
<1>2. CASE Exists(t) /\ ~Has(t, new)
  <2> DEFINE C == t.columns \union {new}
             R == [i \in DOMAIN t.rows |->
                     [c \in C |-> IF c = new THEN default ELSE t.rows[i][c]]]
  <2>1. Ensure(t, new, default) = [columns |-> C, rows |-> R]
    BY <1>2, Zenon DEF Ensure
  <2>2. /\ DOMAIN R = DOMAIN t.rows
        /\ \A i \in DOMAIN t.rows, c \in C :
              R[i][c] = IF c = new THEN default ELSE t.rows[i][c]
    OBVIOUS
  <2>3. R = [i \in DOMAIN R |-> [c \in C |-> R[i][c]]]
    OBVIOUS
  <2>4. C # {}
    OBVIOUS
  <2>5. new \in C /\ \A c : c \in C <=> c \in t.columns \/ c = new
    OBVIOUS
  <2>. HIDE DEF C, R
  <2>6. /\ IsTable(Ensure(t, new, default))
        /\ Ensure(t, new, default).columns = C /\ Ensure(t, new, default).rows = R
    BY <2>1, <2>3, <2>4, TableMade
  <2>. QED BY <2>6, <2>2, <2>4, <2>5, <1>2 DEF Has, Exists
<1>. QED BY <1>1, <1>2

(* DROP COLUMN: the rows and the other columns stay. *)
LEMMA Dropped ==
    ASSUME NEW t, IsTable(t), NEW old, NEW other \in t.columns, other # old
    PROVE  /\ IsTable(Drop(t, old))
           /\ DOMAIN Drop(t, old).rows = DOMAIN t.rows
           /\ \A c : Has(Drop(t, old), c) <=> Has(t, c) /\ c # old
           /\ \A i \in DOMAIN t.rows, c \in t.columns \ {old} :
                 Drop(t, old).rows[i][c] = t.rows[i][c]
<1> DEFINE C == t.columns \ {old}
           R == [i \in DOMAIN t.rows |-> [c \in C |-> t.rows[i][c]]]
<1>1. Drop(t, old) = [columns |-> C, rows |-> R]
  BY Zenon DEF Drop
<1>2. /\ DOMAIN R = DOMAIN t.rows
      /\ \A i \in DOMAIN t.rows, c \in C : R[i][c] = t.rows[i][c]
  OBVIOUS
<1>3. R = [i \in DOMAIN R |-> [c \in C |-> R[i][c]]]
  OBVIOUS
<1>4. other \in C /\ C # {}
  OBVIOUS
<1>5. \A c : c \in C <=> c \in t.columns /\ c # old
  OBVIOUS
<1>. HIDE DEF C, R
<1>6. IsTable(Drop(t, old)) /\ Drop(t, old).columns = C /\ Drop(t, old).rows = R
  BY <1>1, <1>3, <1>4, TableMade
<1>. QED BY <1>6, <1>2, <1>5 DEF Has, C

(* The UPDATE that turns milliseconds into seconds writes the seconds only ... *)
LEMMA ConvertedIs ==
    ASSUME NEW t, IsTable(t), Has(t, "timeout_seconds")
    PROVE  /\ IsTable(Converted(t))
           /\ Converted(t).columns = t.columns
           /\ DOMAIN Converted(t).rows = DOMAIN t.rows
           /\ \A i \in DOMAIN t.rows, c \in t.columns \ {"timeout_seconds"} :
                 Converted(t).rows[i][c] = t.rows[i][c]
           /\ \A i \in DOMAIN t.rows :
                 Converted(t).rows[i]["timeout_seconds"] =
                    IF Has(t, "timeout_ms") /\ t.rows[i]["timeout_seconds"] = 0
                    THEN ToSeconds(t.rows[i]["timeout_ms"]) ELSE t.rows[i]["timeout_seconds"]
<1>1. CASE ~Has(t, "timeout_ms")
  <2>1. Converted(t) = t
    BY <1>1, Zenon DEF Converted
  <2>. QED BY <2>1, <1>1
<1>2. CASE Has(t, "timeout_ms")
  <2> DEFINE C == t.columns
             R == [i \in DOMAIN t.rows |->
                     IF t.rows[i]["timeout_seconds"] = 0
                     THEN [t.rows[i] EXCEPT !["timeout_seconds"] =
                             ToSeconds(t.rows[i]["timeout_ms"])]
                     ELSE t.rows[i]]
  <2>0. /\ t = [columns |-> t.columns, rows |-> t.rows]
        /\ \A i \in DOMAIN t.rows : t.rows[i] = [c \in t.columns |-> t.rows[i][c]]
    BY DEF IsTable
  <2>1. Converted(t) = [columns |-> C, rows |-> R]
    BY <1>2, <2>0 DEF Converted
  <2>2. DOMAIN R = DOMAIN t.rows
    OBVIOUS
  <2>3. ASSUME NEW i \in DOMAIN t.rows
        PROVE  /\ R[i] = [c \in C |-> R[i][c]]
               /\ \A c \in C \ {"timeout_seconds"} : R[i][c] = t.rows[i][c]
               /\ R[i]["timeout_seconds"] =
                    IF t.rows[i]["timeout_seconds"] = 0
                    THEN ToSeconds(t.rows[i]["timeout_ms"]) ELSE t.rows[i]["timeout_seconds"]
    <3> DEFINE r == t.rows[i]
               n == ToSeconds(t.rows[i]["timeout_ms"])
    <3>1. R[i] = IF r["timeout_seconds"] = 0 THEN [r EXCEPT !["timeout_seconds"] = n] ELSE r
      OBVIOUS
    <3>2. r = [c \in C |-> r[c]] /\ "timeout_seconds" \in C
      BY <2>0 DEF Has
    <3>. HIDE DEF r, n, R, C
    <3>3. /\ R[i] = [c \in C |-> R[i][c]]
          /\ \A c \in C \ {"timeout_seconds"} : R[i][c] = r[c]
          /\ R[i]["timeout_seconds"] = IF r["timeout_seconds"] = 0 THEN n ELSE r["timeout_seconds"]
      BY <3>1, <3>2
    <3>. QED BY <3>3 DEF r, n
  <2>4. R = [i \in DOMAIN R |-> [c \in C |-> R[i][c]]]
    <3>1. R = [i \in DOMAIN R |-> R[i]]
      OBVIOUS
    <3>. HIDE DEF R, C
    <3>. QED BY <2>2, <2>3, <3>1
  <2>5. C # {}
    BY DEF Has
  <2>. HIDE DEF C, R
  <2>6. IsTable(Converted(t)) /\ Converted(t).columns = C /\ Converted(t).rows = R
    BY <2>1, <2>4, <2>5, TableMade
  <2>. QED BY <2>6, <2>2, <2>3, <1>2 DEF C
<1>. QED BY <1>1, <1>2

(* ... and has nothing to do when it is run again. *)
LEMMA ConvertedOnce ==
    ASSUME NEW t, IsTable(t), Has(t, "timeout_seconds")
    PROVE  Converted(Converted(t)) = Converted(t)
<1> DEFINE u == Converted(t)
           w == Converted(Converted(t))
<1>1. /\ IsTable(u) /\ u.columns = t.columns /\ DOMAIN u.rows = DOMAIN t.rows
      /\ \A i \in DOMAIN t.rows, c \in t.columns \ {"timeout_seconds"} :
            u.rows[i][c] = t.rows[i][c]
      /\ \A i \in DOMAIN t.rows :
            u.rows[i]["timeout_seconds"] =
               IF Has(t, "timeout_ms") /\ t.rows[i]["timeout_seconds"] = 0
               THEN ToSeconds(t.rows[i]["timeout_ms"]) ELSE t.rows[i]["timeout_seconds"]
  BY ConvertedIs, Zenon
<1>2. Has(u, "timeout_seconds") /\ (Has(u, "timeout_ms") <=> Has(t, "timeout_ms"))
  BY <1>1 DEF Has
<1>3. /\ IsTable(w) /\ w.columns = u.columns /\ DOMAIN w.rows = DOMAIN u.rows
      /\ \A i \in DOMAIN u.rows, c \in u.columns \ {"timeout_seconds"} :
            w.rows[i][c] = u.rows[i][c]
      /\ \A i \in DOMAIN u.rows :
            w.rows[i]["timeout_seconds"] =
               IF Has(u, "timeout_ms") /\ u.rows[i]["timeout_seconds"] = 0
               THEN ToSeconds(u.rows[i]["timeout_ms"]) ELSE u.rows[i]["timeout_seconds"]
  BY <1>1, <1>2, ConvertedIs, Zenon
<1>. HIDE DEF u, w
<1>4. \A i \in DOMAIN u.rows : w.rows[i]["timeout_seconds"] = u.rows[i]["timeout_seconds"]
  BY <1>1, <1>2, <1>3 DEF Has
<1>5. \A i \in DOMAIN w.rows, c \in w.columns : w.rows[i][c] = u.rows[i][c]
  BY <1>3, <1>4
<1>6. w = u
  BY <1>1, <1>3, <1>5, SameTable
<1>. QED BY <1>6 DEF w, u

(* The copy of api_keys: the rows stay, the reference under its new name. *)
LEMMA RebuiltIs ==
    ASSUME NEW C, "subscription_id" \in C
    PROVE  /\ IsTable(Rebuilt(C))
           /\ Rebuilt(C).columns = C
           /\ DOMAIN Rebuilt(C).rows = DOMAIN apiKeys.rows
           /\ \A k \in DOMAIN apiKeys.rows :
                 /\ Rebuilt(C).rows[k]["subscription_id"] = apiKeys.rows[k][ParentColumn(apiKeys)]
                 /\ \A c \in C \ {"subscription_id"} :
                       Rebuilt(C).rows[k][c] =
                          IF Has(apiKeys, c) THEN apiKeys.rows[k][c] ELSE "NULL"
<1> DEFINE v(k, c) == IF c = "subscription_id" THEN apiKeys.rows[k][ParentColumn(apiKeys)]
                      ELSE IF Has(apiKeys, c) THEN apiKeys.rows[k][c] ELSE "NULL"
           R == [k \in DOMAIN apiKeys.rows |-> [c \in C |-> v(k, c)]]
<1>1. Rebuilt(C) = [columns |-> C, rows |-> R]
  BY Zenon DEF Rebuilt
<1>2. /\ \A k : v(k, "subscription_id") = apiKeys.rows[k][ParentColumn(apiKeys)]
      /\ \A k, c : c # "subscription_id" =>
            v(k, c) = IF Has(apiKeys, c) THEN apiKeys.rows[k][c] ELSE "NULL"
  OBVIOUS
<1>. HIDE DEF v
<1>3. DOMAIN R = DOMAIN apiKeys.rows /\ \A k \in DOMAIN R, c \in C : R[k][c] = v(k, c)
  OBVIOUS
<1>4. R = [k \in DOMAIN R |-> [c \in C |-> R[k][c]]]
  OBVIOUS
<1>. HIDE DEF R
<1>5. IsTable(Rebuilt(C)) /\ Rebuilt(C).columns = C /\ Rebuilt(C).rows = R
  BY <1>1, <1>4, TableMade
<1>. QED BY <1>2, <1>3, <1>5

(* One value of one row is set. *)
LEMMA TimeoutSet ==
    ASSUME NEW t, IsTable(t), NEW s \in DOMAIN t.rows, NEW n, NEW u,
           u = [columns |-> t.columns,
                rows |-> [t.rows EXCEPT ![s] = [@ EXCEPT !["timeout_seconds"] = n]]]
    PROVE  /\ IsTable(u)
           /\ u.columns = t.columns /\ DOMAIN u.rows = DOMAIN t.rows
           /\ \A i \in DOMAIN t.rows, c \in t.columns :
                 i # s \/ c # "timeout_seconds" => u.rows[i][c] = t.rows[i][c]
<1> DEFINE C == t.columns
           R == [t.rows EXCEPT ![s] = [@ EXCEPT !["timeout_seconds"] = n]]
<1>1. /\ t = [columns |-> C, rows |-> t.rows]
      /\ t.rows = [i \in DOMAIN t.rows |-> [c \in C |-> t.rows[i][c]]]
  BY Zenon DEF IsTable
<1>2. u = [columns |-> C, rows |-> R]
  BY <1>1
<1>3. DOMAIN R = DOMAIN t.rows /\ \A i \in DOMAIN t.rows : i # s => R[i] = t.rows[i]
  OBVIOUS
<1>4. R[s] = [t.rows[s] EXCEPT !["timeout_seconds"] = n]
  OBVIOUS
<1>5. \A i \in DOMAIN t.rows : t.rows[i] = [c \in C |-> t.rows[i][c]]
  BY <1>1
<1>6. /\ R[s] = [c \in C |-> R[s][c]]
      /\ \A c \in C : R[s][c] = IF c = "timeout_seconds" THEN n ELSE t.rows[s][c]
  <2>. HIDE DEF R, C
  <2>. QED BY <1>4, <1>5
<1>7. R = [i \in DOMAIN R |-> [c \in C |-> R[i][c]]]
  <2>1. R = [i \in DOMAIN R |-> R[i]]
    OBVIOUS
  <2>2. \A i \in DOMAIN R : R[i] = [c \in C |-> R[i][c]]
    <3>. HIDE DEF R, C
    <3>. QED BY <1>3, <1>5, <1>6
  <2>. HIDE DEF R, C
  <2>. QED BY <2>1, <2>2
<1>8. C # {} \/ DOMAIN R = {}
  BY DEF IsTable, Exists
<1>. HIDE DEF C, R
<1>9. IsTable(u) /\ u.columns = C /\ u.rows = R
  BY <1>2, <1>7, <1>8, TableMade, SMTT(30)
<1>. QED BY <1>3, <1>6, <1>9 DEF C

(* Rows are deleted. *)
LEMMA RowsTaken ==
    ASSUME NEW t, IsTable(t), NEW S, NEW u,
           u = [columns |-> t.columns, rows |-> Without(t.rows, S)]
    PROVE  /\ IsTable(u)
           /\ u.columns = t.columns /\ DOMAIN u.rows = DOMAIN t.rows \ S
           /\ \A i \in DOMAIN u.rows : u.rows[i] = t.rows[i]
<1> DEFINE C == t.columns
           R == [i \in DOMAIN t.rows \ S |-> t.rows[i]]
<1>1. /\ t = [columns |-> C, rows |-> t.rows]
      /\ t.rows = [i \in DOMAIN t.rows |-> [c \in C |-> t.rows[i][c]]]
  BY Zenon DEF IsTable
<1>2. u = [columns |-> C, rows |-> R]
  BY <1>1 DEF Without
<1>3. DOMAIN R = DOMAIN t.rows \ S /\ \A i \in DOMAIN R : R[i] = t.rows[i]
  OBVIOUS
<1>4. R = [i \in DOMAIN R |-> [c \in C |-> R[i][c]]]
  <2>1. \A i \in DOMAIN t.rows : t.rows[i] = [c \in C |-> t.rows[i][c]]
    BY <1>1
  <2>2. R = [i \in DOMAIN R |-> R[i]]
    OBVIOUS
  <2>. HIDE DEF R, C
  <2>. QED BY <2>1, <2>2, <1>3, ZenonT(30)
<1>5. C # {} \/ DOMAIN R = {}
  BY DEF IsTable, Exists
<1>. HIDE DEF C, R
<1>6. IsTable(u) /\ u.columns = C /\ u.rows = R
  BY <1>2, <1>4, <1>5, TableMade
<1>. QED BY <1>3, <1>6 DEF C

(* A row is inserted. *)
LEMMA RowAdded ==
    ASSUME NEW t, IsTable(t), NEW k, NEW r, Exists(t), r = [c \in t.columns |-> r[c]],
           NEW u, u = [columns |-> t.columns,
                       rows |-> [j \in DOMAIN t.rows \union {k} |->
                                   IF j = k THEN r ELSE t.rows[j]]]
    PROVE  /\ IsTable(u)
           /\ u.columns = t.columns /\ DOMAIN u.rows = DOMAIN t.rows \union {k}
           /\ u.rows[k] = r
           /\ \A i \in DOMAIN t.rows \ {k} : u.rows[i] = t.rows[i]
<1> DEFINE C == t.columns
           R == [j \in DOMAIN t.rows \union {k} |-> IF j = k THEN r ELSE t.rows[j]]
<1>1. /\ t = [columns |-> C, rows |-> t.rows]
      /\ t.rows = [i \in DOMAIN t.rows |-> [c \in C |-> t.rows[i][c]]]
  BY Zenon DEF IsTable
<1>2. u = [columns |-> C, rows |-> R]
  BY <1>1
<1>3. /\ DOMAIN R = DOMAIN t.rows \union {k} /\ R[k] = r
      /\ \A i \in DOMAIN t.rows \ {k} : R[i] = t.rows[i]
  OBVIOUS
<1>4. R = [i \in DOMAIN R |-> [c \in C |-> R[i][c]]]
  <2>1. \A i \in DOMAIN t.rows : t.rows[i] = [c \in C |-> t.rows[i][c]]
    BY <1>1
  <2>2. R = [i \in DOMAIN R |-> R[i]]
    OBVIOUS
  <2>3. \A i \in DOMAIN R : R[i] = [c \in C |-> R[i][c]]
    <3>. HIDE DEF R
    <3>. QED BY <2>1, <1>3
  <2>. HIDE DEF R, C
  <2>. QED BY <2>2, <2>3
<1>5. C # {}
  BY DEF Exists
<1>. HIDE DEF C, R
<1>6. IsTable(u) /\ u.columns = C /\ u.rows = R
  BY <1>2, <1>4, <1>5, TableMade
<1>. QED BY <1>3, <1>6 DEF C

-----------------------------------------------------------------------------
(* The inductive invariant: how far Migrate has come, and what the tables then
   look like.  The statements in their order, by the version's row they follow: *)
Done11 == {"serving"}
Done10 == {"version_11", "record_11"} \union Done11
Done9 == {"version_10", "drop_created_by_index", "drop_created_by", "version_10_keys",
          "rebuild_keys_10", "restore_checks_10", "rename_log_columns", "record_10"} \union Done10
Done7 == {"record_9"} \union Done9
WithPlaintext == {"version_7", "record_7"} \union Done7
Done6 == {"plaintext_column"} \union WithPlaintext
Done5 == {"restore_checks_5", "version_6", "record_6"} \union Done6
Done4 == {"version_5", "rebuild_keys_5", "record_5"} \union Done5
Done3 == {"version_4", "rename_credentials", "ensure_credentials", "rename_proxy",
          "ensure_proxy", "drop_key_id", "rename_totp", "record_4"} \union Done4
Done2 == {"convert_timeouts", "record_3"} \union Done3
Done1 == {"record_2"} \union Done2
WithTimeout == {"record_1"} \union Done1
Early == {"open", "create_subscriptions", "create_api_keys", "create_admin", "early_rename",
          "rename_accounts"}
Statements == Early \union {"timeout_column"} \union WithTimeout

(* every table is one, and nothing is recorded that Migrate does not know *)
Tables ==
    /\ IsTable(accounts) /\ IsTable(subscriptions) /\ IsTable(apiKeys) /\ IsTable(admin)
    /\ logColumn \in [DOMAIN logColumn -> {"account_id", "subscription_id"}]
    /\ versions \subseteq (1..11) \ {8}
    /\ statement \in Statements

(* until the early rename the old table may stand, and then holds the rows *)
OneTable ==
    /\ Exists(accounts) => statement \in Early /\ DOMAIN subscriptions.rows = {}
    /\ statement = "rename_accounts" => Exists(accounts)

(* the base schema is there once its statements are done *)
Created ==
    /\ statement \notin {"open", "create_subscriptions", "rename_accounts"} => Exists(subscriptions)
    /\ statement \notin {"open", "create_subscriptions", "create_api_keys"} => Exists(apiKeys)

(* a column that is renamed has one of its names *)
OneName ==
    /\ ~(Has(accounts, "credentials_json") /\ Has(accounts, "credentials_encrypted"))
    /\ ~(Has(subscriptions, "credentials_json") /\ Has(subscriptions, "credentials_encrypted"))
    /\ ~(Has(admin, "totp_secret") /\ Has(admin, "totp_secret_enc"))

(* api_keys refers to subscriptions under one name; the statements on it find
   and leave their columns                                                  *)
KeyColumns ==
    /\ Exists(apiKeys) => (Has(apiKeys, "account_id") <=> ~Has(apiKeys, "subscription_id"))
    /\ Exists(apiKeys) => Exists(accounts) \/ keyParent = "subscriptions"
    /\ keyUnique => Has(apiKeys, "account_id")
    /\ statement \in {"rebuild_keys_5", "rebuild_keys_10"} => Has(apiKeys, "account_id")
    /\ statement = "record_5" => ~Has(apiKeys, "account_id")
    /\ statement \in WithPlaintext => Has(apiKeys, "key_plaintext")
    /\ statement \in {"restore_checks_10", "rename_log_columns", "record_10"} =>
          Has(apiKeys, "subscription_id")
    /\ statement = "record_11" => Has(apiKeys, "user_id")

(* the work of versions 3, 4 and 10 on subscriptions, as far as it is done *)
SubscriptionsAt ==
    /\ statement \in WithTimeout => Has(subscriptions, "timeout_seconds")
    /\ statement = "record_3" => Converted(subscriptions) = subscriptions
    /\ statement \in {"ensure_credentials", "rename_proxy", "ensure_proxy", "drop_key_id",
                      "rename_totp", "record_4"} => ~Has(subscriptions, "credentials_encrypted")
    /\ statement \in {"rename_proxy", "ensure_proxy", "drop_key_id", "rename_totp", "record_4"} =>
          Has(subscriptions, "credentials_json")
    /\ statement = "ensure_proxy" =>
          Has(subscriptions, "proxy_url") \/ ~Has(subscriptions, "proxy_url_encrypted")
    /\ statement \in {"drop_key_id", "rename_totp", "record_4"} => Has(subscriptions, "proxy_url")
    /\ statement \in {"rename_totp", "record_4"} => ~Has(subscriptions, "credential_key_id")
    /\ statement \in {"version_10_keys", "rebuild_keys_10", "restore_checks_10",
                      "rename_log_columns", "record_10"} => ~Has(subscriptions, "created_by")

(* what the row of a version is about to claim is true; the checks are off
   within a rebuild only                                                    *)
OthersAt ==
    /\ statement = "record_4" => ~Has(admin, "totp_secret_enc")
    /\ statement = "record_6" => users # {} \/ DOMAIN admin.rows = {}
    /\ statement = "record_7" => ~usageLogs
    /\ statement = "record_10" => \A d \in DOMAIN logColumn : logColumn[d] = "subscription_id"
    /\ statement \notin {"open", "rebuild_keys_5", "restore_checks_5", "rebuild_keys_10",
                         "restore_checks_10"} => foreignKeys

(* a version is recorded once Migrate is past it *)
Recorded ==
    /\ statement \in Done1 => 1 \in versions
    /\ statement \in Done2 => 2 \in versions
    /\ statement \in Done3 => 3 \in versions
    /\ statement \in Done4 => 4 \in versions
    /\ statement \in Done5 => 5 \in versions
    /\ statement \in Done6 => 6 \in versions
    /\ statement \in Done7 => 7 \in versions
    /\ statement \in Done9 => 9 \in versions
    /\ statement \in Done10 => 10 \in versions
    /\ statement \in Done11 => 11 \in versions
    /\ 11 \in versions => 10 \in versions

MigrationInv ==
    /\ Tables /\ OneTable /\ Created /\ OneName /\ KeyColumns /\ SubscriptionsAt /\ OthersAt
    /\ Recorded /\ RecordedVersionsHold

(* From here on a step sees the invariant, not only its name. *)
USE DEF MigrationInv, Tables, OneTable, Created, OneName, KeyColumns, SubscriptionsAt, OthersAt,
        Recorded, RecordedVersionsHold, InForce, CurrentOf, Has, Exists, Go,
        Done1, Done2, Done3, Done4, Done5, Done6, Done7, Done9, Done10, Done11,
        WithPlaintext, WithTimeout, Early, Statements, keyVars, userVars, otherVars, bounds

-----------------------------------------------------------------------------
(* Steps preserve it, an action at a time. *)
LEMMA PragmasStep ==
    ASSUME MigrationInv, Pragmas
    PROVE  MigrationInv'
BY SMT DEF Pragmas

LEMMA CreateTablesStep ==
    ASSUME MigrationInv, CreateTables
    PROVE  MigrationInv'
<1> DEFINE New(C) == [columns |-> C, rows |-> <<>>]
           S == New(SubscriptionColumns)
           K == New({"subscription_id", "user_id", "key_plaintext"})
           A == New({"totp_secret"})
<1>1. /\ IsTable(S) /\ S.columns = SubscriptionColumns /\ DOMAIN S.rows = {}
      /\ IsTable(K) /\ K.columns = {"subscription_id", "user_id", "key_plaintext"}
      /\ DOMAIN K.rows = {}
      /\ IsTable(A) /\ A.columns = {"totp_secret"} /\ DOMAIN A.rows = {}
  BY EmptyTable
<1>2. /\ subscriptions' \in {subscriptions, S}
      /\ apiKeys' \in {apiKeys, K}
      /\ admin' \in {admin, A}
  BY Zenon DEF CreateTables
<1>. HIDE DEF S, K, A
<1>3. CASE statement = "create_subscriptions"
  <2>1. subscriptions' = IF Exists(subscriptions) THEN subscriptions ELSE S
    BY <1>3, Zenon DEF CreateTables, S
  <2>. QED BY <1>1, <1>3, <2>1, SMT DEF CreateTables, SubscriptionColumns
<1>4. CASE statement = "create_api_keys"
  <2>1. IF Exists(apiKeys) THEN UNCHANGED keyVars
        ELSE apiKeys' = K /\ keyParent' = "subscriptions" /\ keyUnique' = FALSE
    BY <1>4, SMT DEF CreateTables, K
  <2>. QED BY <1>1, <1>4, <2>1, SMT DEF CreateTables
<1>5. CASE statement = "create_admin"
  <2>1. admin' = IF Exists(admin) THEN admin ELSE A
    BY <1>5, SMT DEF CreateTables, A
  <2>. QED BY <1>1, <1>5, <2>1, SMT DEF CreateTables
<1>. QED BY <1>3, <1>4, <1>5, Zenon DEF CreateTables

LEMMA DropEmptyStep ==
    ASSUME MigrationInv, DropEmptySubscriptions
    PROVE  MigrationInv'
<1>1. IsTable(Absent) /\ Absent.columns = {} /\ DOMAIN Absent.rows = {}
  BY EmptyTable DEF Absent
<1>. QED BY <1>1, SMT DEF DropEmptySubscriptions

LEMMA RenameAccountsStep ==
    ASSUME MigrationInv, RenameAccounts
    PROVE  MigrationInv'
<1>1. IsTable(Absent) /\ Absent.columns = {} /\ DOMAIN Absent.rows = {}
  BY EmptyTable DEF Absent
<1>. QED BY <1>1, SMT DEF RenameAccounts

LEMMA EnsureTimeoutStep ==
    ASSUME MigrationInv, EnsureTimeout
    PROVE  MigrationInv'
<1> DEFINE t == Ensure(subscriptions, "timeout_seconds", 0)
<1>1. /\ IsTable(t) /\ DOMAIN t.rows = DOMAIN subscriptions.rows
      /\ Exists(t) <=> Exists(subscriptions)
      /\ Has(t, "timeout_seconds") <=> Exists(subscriptions)
      /\ \A c : c # "timeout_seconds" => (Has(t, c) <=> Has(subscriptions, c))
  BY Ensured
<1>. HIDE DEF t
<1>2. subscriptions' = t
  BY DEF EnsureTimeout, t
<1>. QED BY <1>1, <1>2, SMT DEF EnsureTimeout

LEMMA ConvertTimeoutsStep ==
    ASSUME MigrationInv, ConvertTimeouts
    PROVE  MigrationInv'
<1>1. /\ statement = "convert_timeouts"
      /\ IsTable(subscriptions) /\ Has(subscriptions, "timeout_seconds")
  BY DEF ConvertTimeouts
<1> DEFINE t == Converted(subscriptions)
<1>2. IsTable(t) /\ t.columns = subscriptions.columns /\ DOMAIN t.rows = DOMAIN subscriptions.rows
  BY <1>1, ConvertedIs
<1>3. Converted(t) = t
  BY <1>1, ConvertedOnce
<1>. HIDE DEF t
<1>4. \/ UNCHANGED subscriptions /\ Go("version_4") /\ 3 \in versions
      \/ subscriptions' = t /\ Go("record_3") /\ 3 \notin versions
  BY DEF ConvertTimeouts, t
<1>. QED BY <1>1, <1>2, <1>3, <1>4, SMT DEF ConvertTimeouts

LEMMA Version4Step ==
    ASSUME MigrationInv, Version4
    PROVE  MigrationInv'
<1>0. /\ IsTable(subscriptions) /\ IsTable(admin)
      /\ UNCHANGED <<accounts, keyVars, users, otherVars, versions, foreignKeys>>
  BY SMT DEF Version4
<1>1. CASE statement = "version_4"
  BY <1>0, <1>1, SMT DEF Version4
<1>2. CASE statement = "rename_credentials"
  <2> DEFINE t == Rename(subscriptions, "credentials_encrypted", "credentials_json")
  <2>1. /\ IsTable(t) /\ DOMAIN t.rows = DOMAIN subscriptions.rows
        /\ Exists(t) <=> Exists(subscriptions)
        /\ Has(t, "credentials_json") <=>
              Has(subscriptions, "credentials_json") \/ Has(subscriptions, "credentials_encrypted")
        /\ Has(t, "credentials_encrypted") <=>
              Has(subscriptions, "credentials_json") /\ Has(subscriptions, "credentials_encrypted")
        /\ \A c : c \notin {"credentials_encrypted", "credentials_json"} =>
              (Has(t, c) <=> Has(subscriptions, c))
    BY <1>0, Renamed
  <2>. HIDE DEF t
  <2>2. subscriptions' = t /\ statement' = "ensure_credentials" /\ UNCHANGED admin
    BY <1>2, SMT DEF Version4, t
  <2>. QED BY <1>0, <1>2, <2>1, <2>2, SMT
<1>3. CASE statement = "ensure_credentials"
  <2> DEFINE t == Ensure(subscriptions, "credentials_json", "no_credentials")
  <2>1. /\ IsTable(t) /\ DOMAIN t.rows = DOMAIN subscriptions.rows
        /\ Exists(t) <=> Exists(subscriptions)
        /\ Has(t, "credentials_json") <=> Exists(subscriptions)
        /\ \A c : c # "credentials_json" => (Has(t, c) <=> Has(subscriptions, c))
    BY <1>0, Ensured
  <2>. HIDE DEF t
  <2>2. subscriptions' = t /\ statement' = "rename_proxy" /\ UNCHANGED admin
    BY <1>3, SMT DEF Version4, t
  <2>. QED BY <1>0, <1>3, <2>1, <2>2, SMT
<1>4. CASE statement = "rename_proxy"
  <2> DEFINE t == Rename(subscriptions, "proxy_url_encrypted", "proxy_url")
  <2>1. /\ IsTable(t) /\ DOMAIN t.rows = DOMAIN subscriptions.rows
        /\ Exists(t) <=> Exists(subscriptions)
        /\ Has(t, "proxy_url") <=>
              Has(subscriptions, "proxy_url") \/ Has(subscriptions, "proxy_url_encrypted")
        /\ Has(t, "proxy_url_encrypted") <=>
              Has(subscriptions, "proxy_url") /\ Has(subscriptions, "proxy_url_encrypted")
        /\ \A c : c \notin {"proxy_url_encrypted", "proxy_url"} =>
              (Has(t, c) <=> Has(subscriptions, c))
    BY <1>0, Renamed
  <2>. HIDE DEF t
  <2>2. subscriptions' = t /\ statement' = "ensure_proxy" /\ UNCHANGED admin
    BY <1>4, SMT DEF Version4, t
  <2>. QED BY <1>0, <1>4, <2>1, <2>2, SMT
<1>5. CASE statement = "ensure_proxy"
  <2> DEFINE t == Ensure(subscriptions, "proxy_url", "NULL")
  <2>1. /\ IsTable(t) /\ DOMAIN t.rows = DOMAIN subscriptions.rows
        /\ Exists(t) <=> Exists(subscriptions)
        /\ Has(t, "proxy_url") <=> Exists(subscriptions)
        /\ \A c : c # "proxy_url" => (Has(t, c) <=> Has(subscriptions, c))
    BY <1>0, Ensured
  <2>. HIDE DEF t
  <2>2. subscriptions' = t /\ statement' = "drop_key_id" /\ UNCHANGED admin
    BY <1>5, SMT DEF Version4, t
  <2>. QED BY <1>0, <1>5, <2>1, <2>2, SMT
<1>6. CASE statement = "drop_key_id"
  <2> DEFINE t == Drop(subscriptions, "credential_key_id")
  <2>0. "timeout_seconds" \in subscriptions.columns
    BY <1>6
  <2>1. /\ IsTable(t) /\ DOMAIN t.rows = DOMAIN subscriptions.rows
        /\ \A c : Has(t, c) <=> Has(subscriptions, c) /\ c # "credential_key_id"
    BY <1>0, <2>0, Dropped
  <2>. HIDE DEF t
  <2>2. subscriptions' = t /\ statement' = "rename_totp" /\ UNCHANGED admin
    BY <1>6, SMT DEF Version4, t
  <2>. QED BY <1>0, <1>6, <2>1, <2>2, SMT
<1>7. CASE statement = "rename_totp"
  <2> DEFINE t == Rename(admin, "totp_secret_enc", "totp_secret")
  <2>1. /\ IsTable(t) /\ DOMAIN t.rows = DOMAIN admin.rows
        /\ Has(t, "totp_secret") <=> Has(admin, "totp_secret") \/ Has(admin, "totp_secret_enc")
        /\ Has(t, "totp_secret_enc") <=> Has(admin, "totp_secret") /\ Has(admin, "totp_secret_enc")
    BY <1>0, Renamed
  <2>. HIDE DEF t
  <2>2. admin' = t /\ statement' = "record_4" /\ UNCHANGED subscriptions
    BY <1>7, SMT DEF Version4, t
  <2>. QED BY <1>0, <1>7, <2>1, <2>2, SMT
<1>. QED BY <1>1, <1>2, <1>3, <1>4, <1>5, <1>6, <1>7, Zenon DEF Version4

LEMMA Version5Step ==
    ASSUME MigrationInv, Version5
    PROVE  MigrationInv'
<1> DEFINE C == {"subscription_id"} \union (apiKeys.columns \intersect {"key_plaintext"})
           t == Rebuilt(C)
<1>1. IsTable(t) /\ t.columns = C /\ DOMAIN t.rows = DOMAIN apiKeys.rows
  BY RebuiltIs
<1>. HIDE DEF t
<1>2. statement = "rebuild_keys_5" => apiKeys' = t
  BY SMT DEF Version5, t
<1>3. CASE statement = "version_5"
  <2>1. UNCHANGED <<accounts, subscriptions, keyVars, userVars, otherVars, versions>>
    BY <1>3, SMT DEF Version5
  <2>2. statement' = IF 5 \in versions THEN "version_6"
                     ELSE IF Has(apiKeys, "account_id") THEN "rebuild_keys_5" ELSE "record_5"
    BY <1>3, SMT DEF Version5
  <2>3. foreignKeys' = IF statement' = "rebuild_keys_5" THEN FALSE ELSE foreignKeys
    BY <1>3, Zenon DEF Version5
  <2>4. foreignKeys
    BY <1>3, SMT
  <2>5. statement' = "rebuild_keys_5" \/ foreignKeys'
    BY <2>3, <2>4, Zenon
  <2>. QED BY <2>1, <2>2, <2>5, <1>3, SMT
<1>4. CASE statement = "rebuild_keys_5"
  <2>1. /\ UNCHANGED <<accounts, subscriptions, userVars, otherVars>>
        /\ apiKeys' = t /\ ~keyUnique' /\ statement' = "restore_checks_5"
        /\ versions' = versions \union {5}
    BY <1>2, <1>4, SMT DEF Version5
  <2>2. keyParent' = "subscriptions"
    BY <1>4, SMT DEF Version5
  <2>3. /\ IsTable(t) /\ Has(t, "subscription_id") /\ ~Has(t, "account_id")
        /\ ~Has(t, "user_id")
    BY <1>1 DEF C
  <2>4. 10 \notin versions /\ 11 \notin versions
    BY <1>4
  <2>. HIDE DEF C
  <2>. QED BY <2>1, <2>2, <2>3, <2>4, <1>4, SMT
<1>5. CASE statement = "restore_checks_5"
  BY <1>5, SMT DEF Version5
<1>. QED BY <1>3, <1>4, <1>5, Zenon DEF Version5

LEMMA CopyAdminStep ==
    ASSUME MigrationInv, CopyAdmin
    PROVE  MigrationInv'
BY SMT DEF CopyAdmin

LEMMA EnsurePlaintextStep ==
    ASSUME MigrationInv, EnsurePlaintext
    PROVE  MigrationInv'
<1> DEFINE t == Ensure(apiKeys, "key_plaintext", "NULL")
<1>1. /\ IsTable(t) /\ DOMAIN t.rows = DOMAIN apiKeys.rows
      /\ Exists(t) <=> Exists(apiKeys)
      /\ Has(t, "key_plaintext") <=> Exists(apiKeys)
      /\ \A c : c # "key_plaintext" => (Has(t, c) <=> Has(apiKeys, c))
  BY Ensured
<1>. HIDE DEF t
<1>2. apiKeys' = t
  BY DEF EnsurePlaintext, t
<1>. QED BY <1>1, <1>2, SMT DEF EnsurePlaintext

LEMMA DropUsageLogsStep ==
    ASSUME MigrationInv, DropUsageLogs
    PROVE  MigrationInv'
BY SMT DEF DropUsageLogs

LEMMA Version10Step ==
    ASSUME MigrationInv, Version10
    PROVE  MigrationInv'
BY SMT DEF Version10

LEMMA DropCreatedByIndexStep ==
    ASSUME MigrationInv, DropCreatedByIndex
    PROVE  MigrationInv'
BY SMT DEF DropCreatedByIndex

LEMMA DropCreatedByStep ==
    ASSUME MigrationInv, DropCreatedBy
    PROVE  MigrationInv'
<1> DEFINE t == Drop(subscriptions, "created_by")
<1>1. /\ statement = "drop_created_by"
      /\ IsTable(subscriptions) /\ "timeout_seconds" \in subscriptions.columns
  BY DEF DropCreatedBy
<1>2. /\ IsTable(t) /\ DOMAIN t.rows = DOMAIN subscriptions.rows
      /\ \A c : Has(t, c) <=> Has(subscriptions, c) /\ c # "created_by"
  BY <1>1, Dropped
<1>. HIDE DEF t
<1>3. \/ foreignKeys' = FALSE /\ Go("open") /\ UNCHANGED subscriptions
      \/ subscriptions' = t /\ Go("version_10_keys") /\ UNCHANGED foreignKeys
  BY DEF DropCreatedBy, t
<1>4. /\ UNCHANGED <<accounts, keyVars, userVars, otherVars, versions>>
      /\ statement = "drop_created_by"
  BY SMT DEF DropCreatedBy
<1>5. CASE UNCHANGED subscriptions /\ Go("open")
  BY <1>4, <1>5, SMT
<1>6. CASE subscriptions' = t /\ Go("version_10_keys") /\ UNCHANGED foreignKeys
  BY <1>2, <1>4, <1>6, SMT
<1>. QED BY <1>3, <1>5, <1>6

LEMMA RebuildKeys10Step ==
    ASSUME MigrationInv, RebuildKeys10
    PROVE  MigrationInv'
<1> DEFINE C == {"subscription_id", "key_plaintext"}
           t == Rebuilt(C)
<1>1. IsTable(t) /\ t.columns = C /\ DOMAIN t.rows = DOMAIN apiKeys.rows
  BY RebuiltIs
<1>. HIDE DEF t
<1>2. statement = "rebuild_keys_10" => apiKeys' = t
  BY SMT DEF RebuildKeys10, t
<1>3. CASE statement = "version_10_keys"
  <2>1. UNCHANGED <<accounts, subscriptions, keyVars, userVars, otherVars, versions>>
    BY <1>3, SMT DEF RebuildKeys10
  <2>2. statement' = IF Has(apiKeys, "account_id") THEN "rebuild_keys_10" ELSE "rename_log_columns"
    BY <1>3, SMT DEF RebuildKeys10
  <2>3. foreignKeys' = IF statement' = "rebuild_keys_10" THEN FALSE ELSE foreignKeys
    BY <1>3, Zenon DEF RebuildKeys10
  <2>4. foreignKeys
    BY <1>3, SMT
  <2>5. statement' = "rebuild_keys_10" \/ foreignKeys'
    BY <2>3, <2>4, Zenon
  <2>. QED BY <2>1, <2>2, <2>5, <1>3, SMT
<1>4. CASE statement = "rebuild_keys_10"
  BY <1>1, <1>2, <1>4, SMT DEF RebuildKeys10
<1>5. CASE statement = "restore_checks_10"
  BY <1>5, SMT DEF RebuildKeys10
<1>. QED BY <1>3, <1>4, <1>5, Zenon DEF RebuildKeys10

LEMMA RenameLogColumnsStep ==
    ASSUME MigrationInv, RenameLogColumns
    PROVE  MigrationInv'
BY SMT DEF RenameLogColumns

LEMMA EnsureKeyUserStep ==
    ASSUME MigrationInv, EnsureKeyUser
    PROVE  MigrationInv'
<1> DEFINE t == Ensure(apiKeys, "user_id", "NULL")
<1>1. /\ IsTable(t) /\ DOMAIN t.rows = DOMAIN apiKeys.rows
      /\ Exists(t) <=> Exists(apiKeys)
      /\ Has(t, "user_id") <=> Exists(apiKeys)
      /\ \A c : c # "user_id" => (Has(t, c) <=> Has(apiKeys, c))
  BY Ensured
<1>. HIDE DEF t
<1>2. \/ UNCHANGED apiKeys /\ Go("serving") /\ 11 \in versions
      \/ apiKeys' = t /\ Go("record_11")
  BY DEF EnsureKeyUser, t
<1>. QED BY <1>1, <1>2, SMT DEF EnsureKeyUser

LEMMA RecordStep ==
    ASSUME MigrationInv, Records1To11
    PROVE  MigrationInv'
BY SMT DEF Records1To11, Record

LEMMA SetTimeoutStep ==
    ASSUME MigrationInv, NEW s \in Subs, NEW n \in Seconds, SetTimeout(s, n)
    PROVE  MigrationInv'
<1> DEFINE t == subscriptions
           u == [columns |-> t.columns,
                 rows |-> [t.rows EXCEPT ![s] = [@ EXCEPT !["timeout_seconds"] = n]]]
<1>0. IsTable(t) /\ s \in DOMAIN t.rows /\ t = [columns |-> t.columns, rows |-> t.rows]
  BY DEF SetTimeout, IsTable
<1>1. subscriptions' = u
  BY <1>0 DEF SetTimeout
<1>2. IsTable(u) /\ u.columns = t.columns /\ DOMAIN u.rows = DOMAIN t.rows
  BY <1>0, TimeoutSet
<1>. HIDE DEF u
<1>. QED BY <1>1, <1>2, SMT DEF SetTimeout, Edit

LEMMA DeleteSubscriptionStep ==
    ASSUME MigrationInv, NEW s \in Subs, DeleteSubscription(s)
    PROVE  MigrationInv'
<1> DEFINE t == subscriptions
           u == [columns |-> t.columns, rows |-> Without(t.rows, {s})]
           K == {k \in DOMAIN apiKeys.rows : apiKeys.rows[k]["subscription_id"] = s}
           v == [columns |-> apiKeys.columns, rows |-> Without(apiKeys.rows, K)]
<1>0. /\ IsTable(t) /\ t = [columns |-> t.columns, rows |-> t.rows]
      /\ IsTable(apiKeys) /\ apiKeys = [columns |-> apiKeys.columns, rows |-> apiKeys.rows]
  BY DEF IsTable
<1>1. subscriptions' = u
  BY <1>0 DEF DeleteSubscription
<1>2. apiKeys' = IF foreignKeys THEN v ELSE apiKeys
  BY <1>0 DEF DeleteSubscription
<1>3. IsTable(u) /\ u.columns = t.columns /\ DOMAIN u.rows \subseteq DOMAIN t.rows
  <2> DEFINE S == {s}
  <2>1. u = [columns |-> t.columns, rows |-> Without(t.rows, S)]
    OBVIOUS
  <2>. HIDE DEF S, u
  <2>2. IsTable(u) /\ u.columns = t.columns /\ DOMAIN u.rows = DOMAIN t.rows \ S
    <3>1. IsTable(t)
      BY <1>0
    <3>. HIDE DEF MigrationInv, t
    <3>. QED BY <3>1, <2>1, RowsTaken
  <2>. QED BY <2>2
<1>4. IsTable(v) /\ v.columns = apiKeys.columns
  BY <1>0, RowsTaken
<1>. HIDE DEF u, v
<1>5. IsTable(apiKeys') /\ apiKeys'.columns = apiKeys.columns
  BY <1>0, <1>2, <1>4
<1>. QED BY <1>1, <1>3, <1>5, SMT DEF DeleteSubscription, Edit

LEMMA CreateKeyStep ==
    ASSUME MigrationInv, NEW k \in Keys, NEW s \in Subs, CreateKey(k, s)
    PROVE  MigrationInv'
<1> DEFINE t == apiKeys
           r == [c \in t.columns |-> CASE c = "subscription_id" -> s
                                       [] c = "key_plaintext" -> "kept"
                                       [] OTHER -> "NULL"]
           u == [columns |-> t.columns,
                 rows |-> [j \in DOMAIN t.rows \union {k} |-> IF j = k THEN r ELSE t.rows[j]]]
<1>0. /\ IsTable(t) /\ t = [columns |-> t.columns, rows |-> t.rows]
      /\ Exists(t)
  <2>1. IsTable(t) /\ Exists(t)
    BY SMT DEF CreateKey, Edit
  <2>. QED BY <2>1, Zenon DEF IsTable
<1>1. r = [c \in t.columns |-> r[c]]
  OBVIOUS
<1>2. apiKeys' = [t EXCEPT !.rows = [j \in DOMAIN t.rows \union {k} |->
                                         IF j = k THEN r ELSE t.rows[j]]]
  BY Zenon DEF CreateKey
<1>. HIDE DEF r
<1>3. apiKeys' = u
  BY <1>0, <1>2
<1>4. IsTable(u) /\ u.columns = t.columns
  BY <1>0, <1>1, RowAdded, SMTT(30)
<1>. HIDE DEF u
<1>. QED BY <1>3, <1>4, SMT DEF CreateKey, Edit

LEMMA UserStep ==
    ASSUME MigrationInv, NEW u \in Names, CreateUser(u) \/ DeleteUser(u)
    PROVE  MigrationInv'
BY SMT DEF CreateUser, DeleteUser, Edit

LEMMA CrashStep ==
    ASSUME MigrationInv, Crash
    PROVE  MigrationInv'
BY SMT DEF Crash

(* It holds of every database that is opened. *)
LEMMA MigrationOpens == Opened => MigrationInv
<1> SUFFICES ASSUME Opened PROVE MigrationInv
  OBVIOUS
<1>1. PICK db \in Databases :
         /\ accounts = db.accounts /\ subscriptions = db.subscriptions
         /\ apiKeys = db.apiKeys
         /\ keyParent = db.keyParent /\ keyUnique = db.keyUnique
         /\ admin = db.admin /\ users = db.users
         /\ usageLogs = db.usageLogs /\ createdIndex = db.createdIndex
         /\ logColumn = db.logColumn
         /\ versions = db.versions
  BY DEF Opened
<1>2. LeftBehind(db)
  BY DatabasesAssumption
<1>3. statement = "open"
  BY DEF Opened
<1>. QED BY <1>1, <1>2, <1>3, SMT DEF LeftBehind

(* The three facts an inductive invariant rests on, put together. *)
LEMMA MigrationInvHolds == Upgrade => []MigrationInv
<1>1. MigrationInv /\ UNCHANGED databaseVars => MigrationInv'
  BY SMT DEF MigrationInv, databaseVars
<1>2. MigrationInv /\ Migrate => MigrationInv'
  <2>. HIDE DEF MigrationInv
  <2>. QED
    BY PragmasStep, CreateTablesStep, DropEmptyStep, RenameAccountsStep, EnsureTimeoutStep,
       ConvertTimeoutsStep, Version4Step, Version5Step, CopyAdminStep, EnsurePlaintextStep,
       DropUsageLogsStep, Version10Step, DropCreatedByIndexStep, DropCreatedByStep,
       RebuildKeys10Step, RenameLogColumnsStep, EnsureKeyUserStep, RecordStep, Zenon DEF Migrate
<1>3. MigrationInv /\ Serve => MigrationInv'
  <2>. HIDE DEF MigrationInv
  <2>. QED BY SetTimeoutStep, DeleteSubscriptionStep, CreateKeyStep, UserStep, Zenon DEF Serve
<1>. HIDE DEF MigrationInv
<1>4. MigrationInv /\ Crash => MigrationInv'
  BY CrashStep
<1>5. MigrationInv /\ [Step]_databaseVars => MigrationInv'
  BY <1>1, <1>2, <1>3, <1>4, Zenon DEF Step
<1>. QED BY <1>5, MigrationOpens, PTL DEF Upgrade

(* Whatever database an earlier version left behind, wherever the process is
   ended and however often: a version that schema_migrations records is in
   force, so that Migrate is right to skip it.                               *)
THEOREM VersionsHold == Upgrade => []RecordedVersionsHold
<1>1. MigrationInv => RecordedVersionsHold
  OBVIOUS
<1>. HIDE DEF MigrationInv
<1>. QED BY <1>1, MigrationInvHolds, PTL

(* The server never answers from half a migration: every column its queries
   name is there, the UNIQUE of old is gone, and deletions cascade.          *)
THEOREM SchemaServed == Upgrade => []ServesCurrentSchema
<1>1. MigrationInv => ServesCurrentSchema
  BY SMT DEF ServesCurrentSchema, SubscriptionColumns
<1>. HIDE DEF MigrationInv
<1>. QED BY <1>1, MigrationInvHolds, PTL

-----------------------------------------------------------------------------
(* What is read of two tables is the same if these values are. *)
SameSubscriptions(t, d, u, e) ==
    /\ DOMAIN u.rows = DOMAIN t.rows
    /\ \A i \in DOMAIN t.rows :
          /\ Stored(u, i, "credentials_json", "credentials_encrypted", "no_credentials") =
                Stored(t, i, "credentials_json", "credentials_encrypted", "no_credentials")
          /\ Stored(u, i, "proxy_url", "proxy_url_encrypted", "NULL") =
                Stored(t, i, "proxy_url", "proxy_url_encrypted", "NULL")
          /\ Timeout(u, i, e) = Timeout(t, i, d)

(* Only these values are read ... *)
LEMMA SameReading ==
    ASSUME NEW t, NEW u, NEW d, NEW e, SameSubscriptions(t, d, u, e)
    PROVE  Read(u, e) = Read(t, d)
BY Zenon DEF SameSubscriptions, Read

(* ... and none from a table without rows. *)
LEMMA ReadEmpty ==
    ASSUME NEW t, NEW u, NEW d, NEW e, DOMAIN t.rows = {}, DOMAIN u.rows = {}
    PROVE  Read(u, e) = Read(t, d)
BY SameReading DEF SameSubscriptions

(* No statement on the columns alters what is read of the subscriptions: adding the seconds, *)
LEMMA ReadTimeoutEnsured ==
    ASSUME NEW t, IsTable(t), NEW d \in BOOLEAN
    PROVE  Read(Ensure(t, "timeout_seconds", 0), d) = Read(t, d)
<1> DEFINE u == Ensure(t, "timeout_seconds", 0)
<1>1. /\ DOMAIN u.rows = DOMAIN t.rows /\ (Exists(u) <=> Exists(t))
      /\ (Has(u, "timeout_seconds") <=> Exists(t))
      /\ \A c : c # "timeout_seconds" => (Has(u, c) <=> Has(t, c))
      /\ \A i \in DOMAIN t.rows, c \in t.columns : u.rows[i][c] = t.rows[i][c]
      /\ ~Has(t, "timeout_seconds") => \A i \in DOMAIN t.rows : u.rows[i]["timeout_seconds"] = 0
  BY Ensured
<1>. HIDE DEF u
<1>2. ASSUME NEW i \in DOMAIN t.rows PROVE Exists(t)
  BY DEF IsTable
<1>3. SameSubscriptions(t, d, u, d)
  BY <1>1, <1>2 DEF SameSubscriptions, Stored, Timeout, Has
<1>. QED BY <1>3, SameReading DEF u

(* converting into them (which reading anticipates until the version is recorded), *)
LEMMA ReadConverted ==
    ASSUME NEW t, IsTable(t), Has(t, "timeout_seconds"), NEW d \in BOOLEAN, ~d
    PROVE  Read(Converted(t), d) = Read(t, d)
<1> DEFINE u == Converted(t)
<1>1. /\ u.columns = t.columns /\ DOMAIN u.rows = DOMAIN t.rows
      /\ \A i \in DOMAIN t.rows, c \in t.columns \ {"timeout_seconds"} :
            u.rows[i][c] = t.rows[i][c]
      /\ \A i \in DOMAIN t.rows :
            u.rows[i]["timeout_seconds"] =
               IF Has(t, "timeout_ms") /\ t.rows[i]["timeout_seconds"] = 0
               THEN ToSeconds(t.rows[i]["timeout_ms"]) ELSE t.rows[i]["timeout_seconds"]
  BY ConvertedIs
<1>. HIDE DEF u
<1>2. SameSubscriptions(t, d, u, d)
  BY <1>1 DEF SameSubscriptions, Stored, Timeout, Has
<1>. QED BY <1>2, SameReading DEF u

(* recording that (once there is nothing left to convert), *)
LEMMA ReadRecorded ==
    ASSUME NEW t, IsTable(t), Has(t, "timeout_seconds"), Converted(t) = t,
           NEW d \in BOOLEAN, NEW e \in BOOLEAN
    PROVE  Read(t, e) = Read(t, d)
<1>1. \A i \in DOMAIN t.rows :
         t.rows[i]["timeout_seconds"] =
            IF Has(t, "timeout_ms") /\ t.rows[i]["timeout_seconds"] = 0
            THEN ToSeconds(t.rows[i]["timeout_ms"]) ELSE t.rows[i]["timeout_seconds"]
  BY ConvertedIs
<1>2. SameSubscriptions(t, d, t, e)
  BY <1>1 DEF SameSubscriptions, Timeout
<1>. QED BY <1>2, SameReading

(* giving the credentials and the proxy their present names, *)
LEMMA CredentialsRenamed ==
    ASSUME NEW t, IsTable(t), NEW d \in BOOLEAN
    PROVE  Read(Rename(t, "credentials_encrypted", "credentials_json"), d) = Read(t, d)
<1> DEFINE old == "credentials_encrypted"
           new == "credentials_json"
           u == Rename(t, old, new)
<1>1. /\ DOMAIN u.rows = DOMAIN t.rows
      /\ Has(u, new) <=> Has(t, new) \/ Has(t, old)
      /\ Has(u, old) <=> Has(t, new) /\ Has(t, old)
      /\ \A c : c \notin {old, new} => (Has(u, c) <=> Has(t, c))
      /\ \A i \in DOMAIN t.rows, c \in t.columns \ {old} : u.rows[i][c] = t.rows[i][c]
      /\ ~Has(t, new) /\ Has(t, old) => \A i \in DOMAIN t.rows : u.rows[i][new] = t.rows[i][old]
      /\ Has(t, new) => u = t
  BY Renamed
<1>. HIDE DEF u
<1>2. SameSubscriptions(t, d, u, d)
  BY <1>1 DEF SameSubscriptions, Stored, Timeout, Has
<1>. QED BY <1>2, SameReading DEF u

LEMMA ProxyRenamed ==
    ASSUME NEW t, IsTable(t), NEW d \in BOOLEAN
    PROVE  Read(Rename(t, "proxy_url_encrypted", "proxy_url"), d) = Read(t, d)
<1> DEFINE old == "proxy_url_encrypted"
           new == "proxy_url"
           u == Rename(t, old, new)
<1>1. /\ DOMAIN u.rows = DOMAIN t.rows
      /\ Has(u, new) <=> Has(t, new) \/ Has(t, old)
      /\ Has(u, old) <=> Has(t, new) /\ Has(t, old)
      /\ \A c : c \notin {old, new} => (Has(u, c) <=> Has(t, c))
      /\ \A i \in DOMAIN t.rows, c \in t.columns \ {old} : u.rows[i][c] = t.rows[i][c]
      /\ ~Has(t, new) /\ Has(t, old) => \A i \in DOMAIN t.rows : u.rows[i][new] = t.rows[i][old]
      /\ Has(t, new) => u = t
  BY Renamed
<1>. HIDE DEF u
<1>2. SameSubscriptions(t, d, u, d)
  BY <1>1 DEF SameSubscriptions, Stored, Timeout, Has
<1>. QED BY <1>2, SameReading DEF u

(* adding either where no earlier name has it, *)
LEMMA CredentialsEnsured ==
    ASSUME NEW t, IsTable(t), NEW d \in BOOLEAN,
           Has(t, "credentials_json") \/ ~Has(t, "credentials_encrypted")
    PROVE  Read(Ensure(t, "credentials_json", "no_credentials"), d) = Read(t, d)
<1> DEFINE new == "credentials_json"
           u == Ensure(t, new, "no_credentials")
<1>1. /\ DOMAIN u.rows = DOMAIN t.rows
      /\ Has(u, new) <=> Exists(t)
      /\ \A c : c # new => (Has(u, c) <=> Has(t, c))
      /\ \A i \in DOMAIN t.rows, c \in t.columns : u.rows[i][c] = t.rows[i][c]
      /\ ~Has(t, new) => \A i \in DOMAIN t.rows : u.rows[i][new] = "no_credentials"
  BY Ensured
<1>. HIDE DEF u
<1>2. ASSUME NEW i \in DOMAIN t.rows PROVE Exists(t)
  BY DEF IsTable
<1>3. SameSubscriptions(t, d, u, d)
  BY <1>1, <1>2 DEF SameSubscriptions, Stored, Timeout, Has
<1>. QED BY <1>3, SameReading DEF u

LEMMA ProxyEnsured ==
    ASSUME NEW t, IsTable(t), NEW d \in BOOLEAN,
           Has(t, "proxy_url") \/ ~Has(t, "proxy_url_encrypted")
    PROVE  Read(Ensure(t, "proxy_url", "NULL"), d) = Read(t, d)
<1> DEFINE new == "proxy_url"
           u == Ensure(t, new, "NULL")
<1>1. /\ DOMAIN u.rows = DOMAIN t.rows
      /\ Has(u, new) <=> Exists(t)
      /\ \A c : c # new => (Has(u, c) <=> Has(t, c))
      /\ \A i \in DOMAIN t.rows, c \in t.columns : u.rows[i][c] = t.rows[i][c]
      /\ ~Has(t, new) => \A i \in DOMAIN t.rows : u.rows[i][new] = "NULL"
  BY Ensured
<1>. HIDE DEF u
<1>2. ASSUME NEW i \in DOMAIN t.rows PROVE Exists(t)
  BY DEF IsTable
<1>3. SameSubscriptions(t, d, u, d)
  BY <1>1, <1>2 DEF SameSubscriptions, Stored, Timeout, Has
<1>. QED BY <1>3, SameReading DEF u

(* or dropping a column nobody reads. *)
LEMMA ReadDropped ==
    ASSUME NEW t, IsTable(t), Has(t, "timeout_seconds"), NEW d \in BOOLEAN,
           NEW old \in {"credential_key_id", "created_by"}
    PROVE  Read(Drop(t, old), d) = Read(t, d)
<1> DEFINE u == Drop(t, old)
<1>0. "timeout_seconds" \in t.columns /\ "timeout_seconds" # old
  BY DEF Has
<1>1. /\ DOMAIN u.rows = DOMAIN t.rows
      /\ \A c : Has(u, c) <=> Has(t, c) /\ c # old
      /\ \A i \in DOMAIN t.rows, c \in t.columns \ {old} : u.rows[i][c] = t.rows[i][c]
  BY <1>0, Dropped
<1>. HIDE DEF u
<1>2. SameSubscriptions(t, d, u, d)
  BY <1>1 DEF SameSubscriptions, Stored, Timeout, Has
<1>. QED BY <1>2, SameReading DEF u
SameKeys(t, u) ==
    /\ DOMAIN u.rows = DOMAIN t.rows
    /\ \A k \in DOMAIN t.rows :
          /\ u.rows[k][ParentColumn(u)] = t.rows[k][ParentColumn(t)]
          /\ (IF Has(u, "key_plaintext") THEN u.rows[k]["key_plaintext"] ELSE "NULL") =
                IF Has(t, "key_plaintext") THEN t.rows[k]["key_plaintext"] ELSE "NULL"

(* The same of the keys: only these values are read, *)
LEMMA SameKeysRead ==
    ASSUME NEW t, NEW u, SameKeys(t, u)
    PROVE  ReadKeys(u) = ReadKeys(t)
BY Zenon DEF SameKeys, ReadKeys

(* none from a table without rows, *)
LEMMA KeysEmpty ==
    ASSUME NEW t, NEW u, DOMAIN t.rows = {}, DOMAIN u.rows = {}
    PROVE  ReadKeys(u) = ReadKeys(t)
BY SameKeysRead DEF SameKeys

(* adding a column alters none of them, *)
LEMMA KeysEnsured ==
    ASSUME NEW t, IsTable(t), Exists(t) => Has(t, "account_id") \/ Has(t, "subscription_id"),
           NEW new \in {"key_plaintext", "user_id"}
    PROVE  ReadKeys(Ensure(t, new, "NULL")) = ReadKeys(t)
<1> DEFINE u == Ensure(t, new, "NULL")
<1>1. /\ DOMAIN u.rows = DOMAIN t.rows
      /\ Has(u, new) <=> Exists(t)
      /\ \A c : c # new => (Has(u, c) <=> Has(t, c))
      /\ \A i \in DOMAIN t.rows, c \in t.columns : u.rows[i][c] = t.rows[i][c]
      /\ ~Has(t, new) => \A i \in DOMAIN t.rows : u.rows[i][new] = "NULL"
  BY Ensured
<1>. HIDE DEF u
<1>2. ASSUME NEW i \in DOMAIN t.rows PROVE Exists(t)
  BY DEF IsTable
<1>3. SameKeys(t, u)
  BY <1>1, <1>2 DEF SameKeys, ParentColumn, Has
<1>. QED BY <1>3, SameKeysRead DEF u

(* and a rebuild alters none if it takes key_plaintext along. *)
LEMMA KeysRebuilt ==
    ASSUME NEW C \in SUBSET {"subscription_id", "key_plaintext"}, "subscription_id" \in C,
           Has(apiKeys, "key_plaintext") => "key_plaintext" \in C
    PROVE  ReadKeys(Rebuilt(C)) = ReadKeys(apiKeys)
<1> DEFINE u == Rebuilt(C)
<1>1. /\ u.columns = C /\ DOMAIN u.rows = DOMAIN apiKeys.rows
      /\ \A k \in DOMAIN apiKeys.rows :
            /\ u.rows[k]["subscription_id"] = apiKeys.rows[k][ParentColumn(apiKeys)]
            /\ \A c \in C \ {"subscription_id"} :
                  u.rows[k][c] = IF Has(apiKeys, c) THEN apiKeys.rows[k][c] ELSE "NULL"
  BY RebuiltIs
<1>. HIDE DEF u
<1>2. ParentColumn(u) = "subscription_id"
  BY <1>1 DEF ParentColumn, Has
<1>3. SameKeys(apiKeys, u)
  BY <1>1, <1>2 DEF SameKeys, Has
<1>. QED BY <1>3, SameKeysRead DEF u

-----------------------------------------------------------------------------
(* The subscriptions are read from the two tables and whether version 3 is recorded. *)
LEMMA SubscribedUntouched ==
    ASSUME UNCHANGED <<accounts, subscriptions>>, (3 \in versions') <=> (3 \in versions)
    PROVE  Subscribed' = Subscribed
<1>1. (3 \in versions') = (3 \in versions)
  BY SMT
<1>. QED BY <1>1, Zenon DEF Subscribed, Current

(* The old table is gone once Migrate is past the early rename. *)
LEMMA CurrentSubscriptions ==
    ASSUME MigrationInv, statement \notin Early
    PROVE  ~Exists(accounts) /\ Current = subscriptions
BY SMT DEF Current

(* No statement of Migrate, and no crash, alters a subscription ... *)
LEMMA SubscribedKept ==
    ASSUME MigrationInv, Migrate \/ Crash
    PROVE  Subscribed' = Subscribed
<1> DEFINE done == 3 \in versions
<1>0. IsTable(subscriptions) /\ done \in BOOLEAN
  OBVIOUS
<1>1. ASSUME NEW u, subscriptions' = u, statement \notin Early, UNCHANGED accounts,
             UNCHANGED versions, Read(u, done) = Read(subscriptions, done)
      PROVE  Subscribed' = Subscribed
  <2>1. Current = subscriptions /\ Current' = u
    BY <1>1, CurrentSubscriptions DEF Current
  <2>2. done' = done
    BY <1>1
  <2>. QED BY <1>1, <2>1, <2>2, Zenon DEF Subscribed
<1>2. CASE Pragmas \/ CopyAdmin \/ EnsurePlaintext \/ DropUsageLogs \/ Version10
           \/ DropCreatedByIndex \/ RebuildKeys10 \/ RenameLogColumns \/ EnsureKeyUser \/ Crash
  <2>1. UNCHANGED <<accounts, subscriptions, versions>>
    BY <1>2, Zenon DEF Pragmas, CopyAdmin, EnsurePlaintext, DropUsageLogs, Version10,
           DropCreatedByIndex, RebuildKeys10, RenameLogColumns, EnsureKeyUser, Crash
  <2>. QED BY <2>1, SubscribedUntouched
<1>3. CASE Version5
  <2>1. UNCHANGED <<accounts, subscriptions>>
    BY <1>3, Zenon DEF Version5
  <2>2. versions' = versions \/ versions' = versions \union {5}
    BY <1>3, Zenon DEF Version5
  <2>. QED BY <2>1, <2>2, SubscribedUntouched
<1>4. CASE CreateTables
  <2>1. UNCHANGED <<accounts, versions>>
    BY <1>4, Zenon DEF CreateTables
  <2>2. CASE UNCHANGED subscriptions
    BY <2>1, <2>2, SubscribedUntouched
  <2>3. CASE ~UNCHANGED subscriptions
    <3> DEFINE S == [columns |-> SubscriptionColumns, rows |-> <<>>]
    <3>1. subscriptions' = S /\ ~Exists(subscriptions)
      BY <1>4, <2>3, Zenon DEF CreateTables
    <3>2. DOMAIN S.rows = {}
      BY EmptyTable
    <3>. HIDE DEF S
    <3>3. DOMAIN subscriptions.rows = {}
      BY <3>1, <1>0 DEF IsTable
    <3>4. \/ Current' = Current
          \/ DOMAIN Current.rows = {} /\ DOMAIN Current'.rows = {}
      BY <2>1, <3>1, <3>2, <3>3 DEF Current
    <3>5. done' = done
      BY <2>1
    <3>6. Read(Current', done) = Read(Current, done)
      BY <3>4, ReadEmpty
    <3>. QED BY <3>5, <3>6, Zenon DEF Subscribed
  <2>. QED BY <2>2, <2>3
<1>5. CASE DropEmptySubscriptions
  <2>1. DOMAIN Absent.rows = {}
    BY EmptyTable DEF Absent
  <2>2. Current' = Current /\ versions' = versions
    BY <1>5, <2>1, SMT DEF DropEmptySubscriptions, Current
  <2>. QED BY <2>2, Zenon DEF Subscribed
<1>6. CASE RenameAccounts
  <2>1. ~Exists(Absent)
    BY EmptyTable DEF Absent
  <2>2. Current' = Current /\ versions' = versions
    BY <1>6, <2>1, SMT DEF RenameAccounts, Current
  <2>. QED BY <2>2, Zenon DEF Subscribed
<1>7. CASE EnsureTimeout
  <2>1. Read(Ensure(subscriptions, "timeout_seconds", 0), done) = Read(subscriptions, done)
    BY <1>0, ReadTimeoutEnsured
  <2>2. statement \notin Early /\ UNCHANGED accounts /\ UNCHANGED versions
    BY <1>7, SMT DEF EnsureTimeout
  <2>. QED BY <1>7, <1>1, <2>1, <2>2, Zenon DEF EnsureTimeout
<1>8. CASE ConvertTimeouts
  <2>0. statement \notin Early /\ UNCHANGED accounts /\ UNCHANGED versions
        /\ Has(subscriptions, "timeout_seconds")
    BY <1>8, SMT DEF ConvertTimeouts
  <2>1. CASE done
    BY <2>0, <2>1, <1>8, SubscribedUntouched DEF ConvertTimeouts
  <2>2. CASE ~done
    <3>1. Read(Converted(subscriptions), done) = Read(subscriptions, done)
      BY <1>0, <2>0, <2>2, ReadConverted
    <3>2. subscriptions' = Converted(subscriptions)
      BY <1>8, <2>2, Zenon DEF ConvertTimeouts
    <3>. QED BY <1>1, <2>0, <3>1, <3>2, Zenon
  <2>. QED BY <2>1, <2>2
<1>9. CASE Version4
  <2>0. /\ statement \notin Early /\ UNCHANGED accounts /\ UNCHANGED versions
        /\ Has(subscriptions, "timeout_seconds")
    BY <1>9, SMT DEF Version4
  <2>1. CASE statement \in {"version_4", "rename_totp"}
    <3>1. UNCHANGED subscriptions
      BY <1>9, <2>1, SMT DEF Version4
    <3>. QED BY <2>0, <3>1, SubscribedUntouched
  <2>2. CASE statement = "rename_credentials"
    <3> DEFINE u == Rename(subscriptions, "credentials_encrypted", "credentials_json")
    <3>1. subscriptions' = u
      BY <1>9, <2>2, SMT DEF Version4
    <3>2. Read(u, done) = Read(subscriptions, done)
      BY <1>0, CredentialsRenamed
    <3>. QED BY <1>1, <2>0, <3>1, <3>2, Zenon
  <2>3. CASE statement = "ensure_credentials"
    <3> DEFINE u == Ensure(subscriptions, "credentials_json", "no_credentials")
    <3>1. subscriptions' = u
      BY <1>9, <2>3, SMT DEF Version4
    <3>2. ~Has(subscriptions, "credentials_encrypted")
      BY <2>3
    <3>3. Read(u, done) = Read(subscriptions, done)
      BY <1>0, <3>2, CredentialsEnsured
    <3>. QED BY <1>1, <2>0, <3>1, <3>3, Zenon
  <2>4. CASE statement = "rename_proxy"
    <3> DEFINE u == Rename(subscriptions, "proxy_url_encrypted", "proxy_url")
    <3>1. subscriptions' = u
      BY <1>9, <2>4, SMT DEF Version4
    <3>2. Read(u, done) = Read(subscriptions, done)
      BY <1>0, ProxyRenamed
    <3>. QED BY <1>1, <2>0, <3>1, <3>2, Zenon
  <2>5. CASE statement = "ensure_proxy"
    <3> DEFINE u == Ensure(subscriptions, "proxy_url", "NULL")
    <3>1. subscriptions' = u
      BY <1>9, <2>5, SMT DEF Version4
    <3>2. Has(subscriptions, "proxy_url") \/ ~Has(subscriptions, "proxy_url_encrypted")
      BY <2>5
    <3>3. Read(u, done) = Read(subscriptions, done)
      BY <1>0, <3>2, ProxyEnsured
    <3>. QED BY <1>1, <2>0, <3>1, <3>3, Zenon
  <2>6. CASE statement = "drop_key_id"
    <3> DEFINE u == Drop(subscriptions, "credential_key_id")
    <3>1. subscriptions' = u
      BY <1>9, <2>6, SMT DEF Version4
    <3>2. Read(u, done) = Read(subscriptions, done)
      BY <1>0, <2>0, ReadDropped
    <3>. QED BY <1>1, <2>0, <3>1, <3>2, Zenon
  <2>. QED BY <1>9, <2>1, <2>2, <2>3, <2>4, <2>5, <2>6 DEF Version4
<1>10. CASE DropCreatedBy
  <2>0. /\ statement \notin Early /\ UNCHANGED accounts /\ UNCHANGED versions
        /\ Has(subscriptions, "timeout_seconds")
    BY <1>10, SMT DEF DropCreatedBy
  <2>1. CASE UNCHANGED subscriptions
    BY <2>0, <2>1, SubscribedUntouched
  <2>2. CASE subscriptions' = Drop(subscriptions, "created_by")
    <3>1. Read(Drop(subscriptions, "created_by"), done) = Read(subscriptions, done)
      BY <1>0, <2>0, ReadDropped
    <3>. QED BY <1>1, <2>0, <2>2, <3>1, Zenon
  <2>. QED BY <1>10, <2>1, <2>2, Zenon DEF DropCreatedBy
<1>11. CASE Records1To11
  <2>1. UNCHANGED <<accounts, subscriptions>>
    BY <1>11, SMT DEF Records1To11, Record
  <2>2. CASE statement = "record_3"
    <3>1. versions' = versions \union {3}
      BY <1>11, <2>2, SMT DEF Records1To11, Record
    <3>2. statement \notin Early /\ Has(subscriptions, "timeout_seconds")
          /\ Converted(subscriptions) = subscriptions
      BY <2>2
    <3>3. Read(subscriptions, done') = Read(subscriptions, done)
      <4>1. done' \in BOOLEAN
        OBVIOUS
      <4>. QED BY <1>0, <3>2, <4>1, ReadRecorded
    <3>4. Current = subscriptions /\ Current' = subscriptions
      BY <2>1, <3>2, CurrentSubscriptions DEF Current
    <3>. QED BY <3>3, <3>4, Zenon DEF Subscribed
  <2>3. CASE statement # "record_3"
    <3>1. PICK v \in (1..11) \ {3} : versions' = versions \union {v}
      BY <1>11, <2>3, SMT DEF Records1To11, Record
    <3>. QED BY <2>1, <3>1, SubscribedUntouched
  <2>. QED BY <2>2, <2>3
<1>. QED
  BY <1>2, <1>3, <1>4, <1>5, <1>6, <1>7, <1>8, <1>9, <1>10, <1>11, Zenon DEF Migrate

(* ... or a key ... *)
LEMMA IssuedKept ==
    ASSUME MigrationInv, Migrate \/ Crash
    PROVE  Issued' = Issued
<1>0. /\ IsTable(apiKeys)
      /\ Exists(apiKeys) => Has(apiKeys, "account_id") \/ Has(apiKeys, "subscription_id")
  BY SMT
<1>1. CASE UNCHANGED apiKeys
  BY <1>1, Zenon DEF Issued
<1>2. CASE Pragmas \/ DropEmptySubscriptions \/ RenameAccounts \/ EnsureTimeout \/ ConvertTimeouts
           \/ Version4 \/ CopyAdmin \/ DropUsageLogs \/ Version10 \/ DropCreatedByIndex
           \/ DropCreatedBy \/ RenameLogColumns \/ Records1To11 \/ Crash
  <2>1. UNCHANGED apiKeys
    BY <1>2, SMT DEF Pragmas, DropEmptySubscriptions, RenameAccounts, EnsureTimeout, ConvertTimeouts,
           Version4, CopyAdmin, DropUsageLogs, Version10, DropCreatedByIndex, DropCreatedBy,
           RenameLogColumns, Records1To11, Record, Crash
  <2>. QED BY <1>1, <2>1
<1>3. CASE CreateTables
  <2> DEFINE K == [columns |-> {"subscription_id", "user_id", "key_plaintext"}, rows |-> <<>>]
  <2>1. UNCHANGED apiKeys \/ (~Exists(apiKeys) /\ apiKeys' = K)
    BY <1>3, SMT DEF CreateTables
  <2>2. DOMAIN K.rows = {}
    BY EmptyTable
  <2>. HIDE DEF K
  <2>3. ~Exists(apiKeys) => DOMAIN apiKeys.rows = {}
    BY <1>0 DEF IsTable
  <2>4. ~Exists(apiKeys) => ReadKeys(K) = ReadKeys(apiKeys)
    BY <2>2, <2>3, KeysEmpty
  <2>. QED BY <1>1, <2>1, <2>4, Zenon DEF Issued
<1>4. CASE Version5
  <2> DEFINE C == {"subscription_id"} \union (apiKeys.columns \intersect {"key_plaintext"})
  <2>1. UNCHANGED apiKeys \/ apiKeys' = Rebuilt(C)
    BY <1>4, Zenon DEF Version5, keyVars
  <2>2. ReadKeys(Rebuilt(C)) = ReadKeys(apiKeys)
    <3>1. C \in SUBSET {"subscription_id", "key_plaintext"} /\ "subscription_id" \in C
      OBVIOUS
    <3>2. Has(apiKeys, "key_plaintext") => "key_plaintext" \in C
      OBVIOUS
    <3>. HIDE DEF C
    <3>. QED BY <3>1, <3>2, KeysRebuilt
  <2>. QED BY <1>1, <2>1, <2>2, Zenon DEF Issued
<1>5. CASE RebuildKeys10
  <2> DEFINE C == {"subscription_id", "key_plaintext"}
  <2>1. UNCHANGED apiKeys \/ apiKeys' = Rebuilt(C)
    BY <1>5, Zenon DEF RebuildKeys10, keyVars
  <2>2. ReadKeys(Rebuilt(C)) = ReadKeys(apiKeys)
    BY KeysRebuilt
  <2>. QED BY <1>1, <2>1, <2>2, Zenon DEF Issued
<1>6. CASE EnsurePlaintext
  <2>1. ReadKeys(Ensure(apiKeys, "key_plaintext", "NULL")) = ReadKeys(apiKeys)
    BY <1>0, KeysEnsured
  <2>. QED BY <1>6, <2>1, Zenon DEF EnsurePlaintext, Issued
<1>7. CASE EnsureKeyUser
  <2>1. ReadKeys(Ensure(apiKeys, "user_id", "NULL")) = ReadKeys(apiKeys)
    BY <1>0, KeysEnsured
  <2>2. UNCHANGED apiKeys \/ apiKeys' = Ensure(apiKeys, "user_id", "NULL")
    BY <1>7, Zenon DEF EnsureKeyUser
  <2>. QED BY <1>1, <2>1, <2>2, Zenon DEF Issued
<1>. QED BY <1>2, <1>3, <1>4, <1>5, <1>6, <1>7, Zenon DEF Migrate

(* ... or a user. *)
LEMMA AcceptedKept ==
    ASSUME MigrationInv, Migrate \/ Crash
    PROVE  Accepted' = Accepted
<1>0. IsTable(admin)
  OBVIOUS
<1>1. ASSUME users' = users, DOMAIN admin'.rows = DOMAIN admin.rows,
             (6 \in versions') <=> (6 \in versions)
      PROVE  Accepted' = Accepted
  BY <1>1, SMT DEF Accepted
<1>2. CASE Pragmas \/ DropEmptySubscriptions \/ RenameAccounts \/ EnsureTimeout \/ ConvertTimeouts
           \/ Version5 \/ EnsurePlaintext \/ DropUsageLogs \/ Version10 \/ DropCreatedByIndex
           \/ DropCreatedBy \/ RebuildKeys10 \/ RenameLogColumns \/ EnsureKeyUser \/ Crash
  <2>1. UNCHANGED <<users, admin>> /\ (UNCHANGED versions \/ versions' = versions \union {5})
    BY <1>2, Zenon DEF userVars, Pragmas, DropEmptySubscriptions, RenameAccounts, EnsureTimeout,
           ConvertTimeouts, Version5, EnsurePlaintext, DropUsageLogs, Version10,
           DropCreatedByIndex, DropCreatedBy, RebuildKeys10, RenameLogColumns, EnsureKeyUser, Crash
  <2>. QED BY <1>1, <2>1
<1>3. CASE CreateTables
  <2> DEFINE A == [columns |-> {"totp_secret"}, rows |-> <<>>]
  <2>1. /\ UNCHANGED <<users, versions>>
        /\ UNCHANGED admin \/ (~Exists(admin) /\ admin' = A)
    BY <1>3, SMT DEF CreateTables
  <2>2. DOMAIN A.rows = {}
    BY EmptyTable
  <2>. HIDE DEF A
  <2>3. ~Exists(admin) => DOMAIN admin.rows = {}
    BY <1>0 DEF IsTable
  <2>. QED BY <1>1, <2>1, <2>2, <2>3
<1>4. CASE Version4
  <2>1. /\ UNCHANGED <<users, versions>>
        /\ UNCHANGED admin \/ admin' = Rename(admin, "totp_secret_enc", "totp_secret")
    BY <1>4, SMT DEF Version4
  <2>2. DOMAIN Rename(admin, "totp_secret_enc", "totp_secret").rows = DOMAIN admin.rows
    BY <1>0, Renamed
  <2>. QED BY <1>1, <2>1, <2>2
<1>5. CASE CopyAdmin
  <2>1. UNCHANGED <<admin, versions>>
    BY <1>5, SMT DEF CopyAdmin
  <2>2. IF 6 \in versions THEN UNCHANGED users
        ELSE users' = IF users = {} THEN DOMAIN admin.rows ELSE users
    BY <1>5, SMT DEF CopyAdmin
  <2>. QED BY <2>1, <2>2, SMT DEF Accepted
<1>6. CASE Records1To11
  <2>1. UNCHANGED <<users, admin>>
    BY <1>6, SMT DEF Records1To11, Record
  <2>2. CASE statement = "record_6"
    <3>1. versions' = versions \union {6} /\ (users # {} \/ DOMAIN admin.rows = {})
      BY <1>6, <2>2, SMT DEF Records1To11, Record
    <3>. QED BY <2>1, <3>1, SMT DEF Accepted
  <2>3. CASE statement # "record_6"
    <3>1. PICK v \in (1..11) \ {6} : versions' = versions \union {v}
      BY <1>6, <2>3, SMT DEF Records1To11, Record
    <3>. QED BY <1>1, <2>1, <3>1
  <2>. QED BY <2>2, <2>3
<1>. QED BY <1>2, <1>3, <1>4, <1>5, <1>6, Zenon DEF Migrate

-----------------------------------------------------------------------------
(* What is served from: the tables under their present names, and checked references. *)
LEMMA InService ==
    ASSUME MigrationInv, statement = "serving"
    PROVE  /\ IsTable(subscriptions) /\ IsTable(apiKeys)
           /\ ~Exists(accounts) /\ Current = subscriptions
           /\ Has(subscriptions, "credentials_json") /\ Has(subscriptions, "proxy_url")
           /\ Has(subscriptions, "timeout_seconds")
           /\ Has(apiKeys, "subscription_id") /\ Has(apiKeys, "key_plaintext")
           /\ ~Has(apiKeys, "account_id")
           /\ foreignKeys
           /\ 3 \in versions /\ 6 \in versions
BY SMT DEF Current

(* There the values are read from the columns of the current version. *)
LEMMA ReadInService ==
    ASSUME NEW t, NEW d \in BOOLEAN, d,
           Has(t, "credentials_json"), Has(t, "proxy_url"), Has(t, "timeout_seconds")
    PROVE  Read(t, d) = [i \in DOMAIN t.rows |->
                           [credentials |-> t.rows[i]["credentials_json"],
                            proxy |-> t.rows[i]["proxy_url"],
                            timeout |-> t.rows[i]["timeout_seconds"]]]
<1>1. \A i : /\ Stored(t, i, "credentials_json", "credentials_encrypted", "no_credentials") =
                  t.rows[i]["credentials_json"]
             /\ Stored(t, i, "proxy_url", "proxy_url_encrypted", "NULL") = t.rows[i]["proxy_url"]
             /\ Timeout(t, i, d) = t.rows[i]["timeout_seconds"]
  BY DEF Stored, Timeout
<1>. QED BY <1>1, Zenon DEF Read

LEMMA KeysInService ==
    ASSUME NEW t, Has(t, "key_plaintext"), ~Has(t, "account_id")
    PROVE  ReadKeys(t) = [k \in DOMAIN t.rows |->
                            [subscription |-> t.rows[k]["subscription_id"],
                             plaintext |-> t.rows[k]["key_plaintext"]]]
BY Zenon DEF ReadKeys, ParentColumn

(* Each request does to the records what it was asked for, and nothing else. *)
LEMMA SetTimeoutServed ==
    ASSUME MigrationInv, NEW s \in Subs, NEW n \in Seconds, SetTimeout(s, n)
    PROVE  Kept!SetTimeout(s, n)
<1> DEFINE t == subscriptions
           u == [columns |-> t.columns,
                 rows |-> [t.rows EXCEPT ![s] = [@ EXCEPT !["timeout_seconds"] = n]]]
<1>1. /\ statement = "serving" /\ s \in DOMAIN t.rows
      /\ UNCHANGED <<accounts, apiKeys, users, admin, versions>>
  BY SMT DEF SetTimeout, Edit
<1>2. /\ IsTable(t)
      /\ Has(t, "credentials_json") /\ Has(t, "proxy_url") /\ Has(t, "timeout_seconds")
      /\ t = [columns |-> t.columns, rows |-> t.rows]
      /\ ~Exists(accounts) /\ Current = t /\ 3 \in versions
  BY <1>1, InService, Zenon DEF IsTable
<1>3. subscriptions' = u
  BY <1>2 DEF SetTimeout
<1>4. /\ u.columns = t.columns /\ DOMAIN u.rows = DOMAIN t.rows
      /\ \A i \in DOMAIN t.rows, c \in t.columns :
            i # s \/ c # "timeout_seconds" => u.rows[i][c] = t.rows[i][c]
  <2>1. u = [columns |-> t.columns,
             rows |-> [t.rows EXCEPT ![s] = [@ EXCEPT !["timeout_seconds"] = n]]]
    OBVIOUS
  <2>. HIDE DEF MigrationInv, t, u
  <2>. QED BY <1>1, <1>2, <2>1, TimeoutSet
<1>5. u.rows[s]["timeout_seconds"] = n
  <2> DEFINE r == t.rows[s]
  <2>1. u.rows[s] = [r EXCEPT !["timeout_seconds"] = n]
    BY <1>1
  <2>2. r = [c \in t.columns |-> r[c]]
    BY <1>1, <1>2 DEF IsTable
  <2>. HIDE DEF r, t, u, MigrationInv
  <2>3. [r EXCEPT !["timeout_seconds"] = n]["timeout_seconds"] = n
    BY <1>2, <2>2
  <2>. QED BY <2>1, <2>3
<1>. HIDE DEF u
<1>6. Current' = u /\ (3 \in versions)'
  BY <1>1, <1>2, <1>3 DEF Current
<1>7. Subscribed = [i \in DOMAIN t.rows |-> [credentials |-> t.rows[i]["credentials_json"],
                                              proxy |-> t.rows[i]["proxy_url"],
                                              timeout |-> t.rows[i]["timeout_seconds"]]]
  <2>1. Subscribed = Read(t, 3 \in versions)
    BY <1>2, Zenon DEF Subscribed
  <2>. HIDE DEF MigrationInv, t
  <2>. QED BY <1>2, <2>1, ReadInService
<1>8. Subscribed' = [i \in DOMAIN u.rows |-> [credentials |-> u.rows[i]["credentials_json"],
                                               proxy |-> u.rows[i]["proxy_url"],
                                               timeout |-> u.rows[i]["timeout_seconds"]]]
  <2>1. Has(u, "credentials_json") /\ Has(u, "proxy_url") /\ Has(u, "timeout_seconds")
    BY <1>2, <1>4
  <2>2. Subscribed' = Read(u, (3 \in versions)')
    BY <1>6, Zenon DEF Subscribed
  <2>. HIDE DEF MigrationInv
  <2>. QED BY <1>6, <2>1, <2>2, ReadInService
<1>9. Subscribed' = [Subscribed EXCEPT ![s].timeout = n]
  <2>1. ASSUME NEW i \in DOMAIN t.rows
        PROVE  /\ u.rows[i]["credentials_json"] = t.rows[i]["credentials_json"]
               /\ u.rows[i]["proxy_url"] = t.rows[i]["proxy_url"]
               /\ u.rows[i]["timeout_seconds"] =
                     IF i = s THEN n ELSE t.rows[i]["timeout_seconds"]
    BY <1>2, <1>4, <1>5
  <2>. HIDE DEF MigrationInv, t
  <2>. QED BY <1>1, <1>4, <1>7, <1>8, <2>1
<1>10. s \in DOMAIN Subscribed
  BY <1>1, <1>7
<1>11. Issued' = Issued /\ Accepted' = Accepted
  BY <1>1, Zenon DEF Issued, Accepted
<1>. QED BY <1>9, <1>10, <1>11, Zenon DEF Kept!SetTimeout

LEMMA DeleteSubscriptionServed ==
    ASSUME MigrationInv, NEW s \in Subs, DeleteSubscription(s)
    PROVE  Kept!DeleteSubscription(s)
<1> DEFINE t == subscriptions
           S == {s}
           K == {k \in DOMAIN apiKeys.rows : apiKeys.rows[k]["subscription_id"] = s}
           u == [columns |-> t.columns, rows |-> Without(t.rows, S)]
           v == [columns |-> apiKeys.columns, rows |-> Without(apiKeys.rows, K)]
<1>1. /\ statement = "serving" /\ s \in DOMAIN t.rows
      /\ UNCHANGED <<accounts, users, admin, versions>>
  BY SMT DEF DeleteSubscription, Edit
<1>2. /\ IsTable(t)
      /\ Has(t, "credentials_json") /\ Has(t, "proxy_url") /\ Has(t, "timeout_seconds")
      /\ t = [columns |-> t.columns, rows |-> t.rows]
      /\ ~Exists(accounts) /\ Current = t /\ 3 \in versions
  BY <1>1, InService, Zenon DEF IsTable
<1>3. /\ IsTable(apiKeys) /\ Has(apiKeys, "key_plaintext") /\ ~Has(apiKeys, "account_id")
      /\ apiKeys = [columns |-> apiKeys.columns, rows |-> apiKeys.rows]
      /\ foreignKeys
  BY <1>1, InService, Zenon DEF IsTable
<1>4. subscriptions' = u /\ apiKeys' = v
  BY <1>2, <1>3 DEF DeleteSubscription
<1>5. /\ u.columns = t.columns /\ DOMAIN u.rows = DOMAIN t.rows \ S
      /\ \A i \in DOMAIN u.rows : u.rows[i] = t.rows[i]
  <2>1. u = [columns |-> t.columns, rows |-> Without(t.rows, S)]
    OBVIOUS
  <2>. HIDE DEF MigrationInv, S, t, u
  <2>. QED BY <1>2, <2>1, RowsTaken
<1>6. /\ v.columns = apiKeys.columns /\ DOMAIN v.rows = DOMAIN apiKeys.rows \ K
      /\ \A k \in DOMAIN v.rows : v.rows[k] = apiKeys.rows[k]
  <2>1. v = [columns |-> apiKeys.columns, rows |-> Without(apiKeys.rows, K)]
    OBVIOUS
  <2>. HIDE DEF MigrationInv, K, v
  <2>. QED BY <1>3, <2>1, RowsTaken
<1>. HIDE DEF u, v
<1>7. Current' = u /\ (3 \in versions)'
  BY <1>1, <1>2, <1>4 DEF Current
<1>8. Subscribed = [i \in DOMAIN t.rows |-> [credentials |-> t.rows[i]["credentials_json"],
                                              proxy |-> t.rows[i]["proxy_url"],
                                              timeout |-> t.rows[i]["timeout_seconds"]]]
  <2>1. Subscribed = Read(t, 3 \in versions)
    BY <1>2, Zenon DEF Subscribed
  <2>. HIDE DEF MigrationInv, t
  <2>. QED BY <1>2, <2>1, ReadInService
<1>9. Subscribed' = [i \in DOMAIN u.rows |-> [credentials |-> u.rows[i]["credentials_json"],
                                               proxy |-> u.rows[i]["proxy_url"],
                                               timeout |-> u.rows[i]["timeout_seconds"]]]
  <2>1. Has(u, "credentials_json") /\ Has(u, "proxy_url") /\ Has(u, "timeout_seconds")
    BY <1>2, <1>5
  <2>2. Subscribed' = Read(u, (3 \in versions)')
    BY <1>7, Zenon DEF Subscribed
  <2>. HIDE DEF MigrationInv
  <2>. QED BY <1>7, <2>1, <2>2, ReadInService
<1>10. s \in DOMAIN Subscribed /\ Subscribed' = Kept!Without(Subscribed, {s})
  BY <1>1, <1>5, <1>8, <1>9 DEF Kept!Without
<1>11. Issued = [k \in DOMAIN apiKeys.rows |-> [subscription |-> apiKeys.rows[k]["subscription_id"],
                                                 plaintext |-> apiKeys.rows[k]["key_plaintext"]]]
  BY <1>3, KeysInService DEF Issued
<1>12. Issued' = [k \in DOMAIN v.rows |-> [subscription |-> v.rows[k]["subscription_id"],
                                            plaintext |-> v.rows[k]["key_plaintext"]]]
  <2>1. Has(v, "key_plaintext") /\ ~Has(v, "account_id")
    BY <1>3, <1>6
  <2>2. Issued' = ReadKeys(v)
    BY <1>4, Zenon DEF Issued
  <2>. QED BY <2>1, <2>2, KeysInService
<1>13. Issued' = Kept!Without(Issued, {k \in DOMAIN Issued : Issued[k].subscription = s})
  <2>1. {k \in DOMAIN Issued : Issued[k].subscription = s} = K
    BY <1>11
  <2>2. Kept!Without(Issued, K) = [k \in DOMAIN apiKeys.rows \ K |-> Issued[k]]
    BY <1>11 DEF Kept!Without
  <2>. HIDE DEF K
  <2>3. Issued' = [k \in DOMAIN apiKeys.rows \ K |-> Issued[k]]
    BY <1>6, <1>11, <1>12
  <2>. QED BY <2>1, <2>2, <2>3
<1>14. Accepted' = Accepted
  BY <1>1, Zenon DEF Accepted
<1>. QED BY <1>10, <1>13, <1>14, Zenon DEF Kept!DeleteSubscription

LEMMA CreateKeyServed ==
    ASSUME MigrationInv, NEW k \in Keys, NEW s \in Subs, CreateKey(k, s)
    PROVE  Kept!CreateKey(k, s)
<1> DEFINE t == apiKeys
           r == [c \in t.columns |-> CASE c = "subscription_id" -> s
                                       [] c = "key_plaintext" -> "kept"
                                       [] OTHER -> "NULL"]
           u == [columns |-> t.columns,
                 rows |-> [j \in DOMAIN t.rows \union {k} |-> IF j = k THEN r ELSE t.rows[j]]]
<1>1. /\ statement = "serving" /\ k \notin DOMAIN t.rows /\ s \in DOMAIN subscriptions.rows
      /\ UNCHANGED <<accounts, subscriptions, users, admin, versions>>
  BY SMT DEF CreateKey, Edit
<1>2. /\ IsTable(t) /\ Has(t, "subscription_id") /\ Has(t, "key_plaintext") /\ ~Has(t, "account_id")
      /\ t = [columns |-> t.columns, rows |-> t.rows]
      /\ Current = subscriptions
  BY <1>1, InService, Zenon DEF IsTable
<1>3. /\ r = [c \in t.columns |-> r[c]]
      /\ r["subscription_id"] = s /\ r["key_plaintext"] = "kept"
  BY <1>2
<1>4. apiKeys' = [t EXCEPT !.rows = [j \in DOMAIN t.rows \union {k} |->
                                         IF j = k THEN r ELSE t.rows[j]]]
  BY Zenon DEF CreateKey
<1>. HIDE DEF r
<1>5. apiKeys' = u
  BY <1>2, <1>4
<1>6. /\ u.columns = t.columns /\ DOMAIN u.rows = DOMAIN t.rows \union {k}
      /\ u.rows[k] = r
      /\ \A i \in DOMAIN t.rows \ {k} : u.rows[i] = t.rows[i]
  BY <1>2, <1>3, RowAdded
<1>. HIDE DEF u
<1>7. Issued = [j \in DOMAIN t.rows |-> [subscription |-> t.rows[j]["subscription_id"],
                                          plaintext |-> t.rows[j]["key_plaintext"]]]
  BY <1>2, KeysInService DEF Issued
<1>8. Issued' = [j \in DOMAIN u.rows |-> [subscription |-> u.rows[j]["subscription_id"],
                                           plaintext |-> u.rows[j]["key_plaintext"]]]
  <2>1. Has(u, "key_plaintext") /\ ~Has(u, "account_id")
    BY <1>2, <1>6
  <2>2. Issued' = ReadKeys(u)
    BY <1>5, Zenon DEF Issued
  <2>. QED BY <2>1, <2>2, KeysInService
<1>9. /\ k \notin DOMAIN Issued
      /\ Issued' = [j \in DOMAIN Issued \union {k} |->
                      IF j = k THEN [subscription |-> s, plaintext |-> "kept"] ELSE Issued[j]]
  BY <1>1, <1>3, <1>6, <1>7, <1>8
<1>10. s \in DOMAIN Subscribed
  BY <1>1, <1>2 DEF Subscribed, Read
<1>11. Subscribed' = Subscribed /\ Accepted' = Accepted
  BY <1>1, Zenon DEF Subscribed, Accepted, Current
<1>. QED BY <1>9, <1>10, <1>11, Zenon DEF Kept!CreateKey

LEMMA UserServed ==
    ASSUME MigrationInv, NEW u \in Names
    PROVE  /\ CreateUser(u) => Kept!CreateUser(u)
           /\ DeleteUser(u) => Kept!DeleteUser(u)
<1> SUFFICES ASSUME CreateUser(u) \/ DeleteUser(u)
             PROVE  /\ CreateUser(u) => Kept!CreateUser(u)
                    /\ DeleteUser(u) => Kept!DeleteUser(u)
  OBVIOUS
<1>1. /\ statement = "serving"
      /\ UNCHANGED <<accounts, subscriptions, apiKeys, versions>>
  BY SMT DEF CreateUser, DeleteUser, Edit
<1>2. Accepted = users /\ Accepted' = users'
  BY <1>1, InService DEF Accepted
<1>3. Subscribed' = Subscribed /\ Issued' = Issued
  BY <1>1, Zenon DEF Subscribed, Issued, Current
<1>. QED BY <1>2, <1>3, Zenon DEF CreateUser, DeleteUser, Kept!CreateUser, Kept!DeleteUser

(* What the database holds when it is first opened are subscriptions, keys and
   names like any other.                                                     *)
LEMMA HeldAtFirst == Opened => Kept!Held
<1> SUFFICES ASSUME Opened PROVE Kept!Held
  OBVIOUS
<1>1. PICK db \in Databases :
         /\ accounts = db.accounts /\ subscriptions = db.subscriptions
         /\ apiKeys = db.apiKeys /\ admin = db.admin /\ users = db.users
  BY DEF Opened
<1>2. /\ DOMAIN accounts.rows \subseteq Subs /\ DOMAIN subscriptions.rows \subseteq Subs
      /\ DOMAIN apiKeys.rows \subseteq Keys
      /\ DOMAIN admin.rows \subseteq Names /\ users \subseteq Names
  BY <1>1, DatabasesAssumption DEF LeftBehind
<1>3. DOMAIN Subscribed = DOMAIN Current.rows
  BY Zenon DEF Subscribed, Read
<1>4. DOMAIN Issued = DOMAIN apiKeys.rows
  BY Zenon DEF Issued, ReadKeys
<1>. QED BY <1>2, <1>3, <1>4 DEF Kept!Held, Accepted, Current

(* The refinement: no upgrade, at whichever statement it is cut off and however
   often it is begun again, loses or alters a subscription, a key or a user,
   or overrides a setting made since.                                        *)
THEOREM NothingLostInUpgrade == Upgrade => RecordsKept
<1>1. MigrationInv /\ (Migrate \/ Crash) => UNCHANGED Kept!recordVars
  BY SubscribedKept, IssuedKept, AcceptedKept DEF Kept!recordVars
<1>2. MigrationInv /\ Serve => Kept!Request
  BY SetTimeoutServed, DeleteSubscriptionServed, CreateKeyServed, UserServed, Zenon
     DEF Serve, Kept!Request
<1>3. UNCHANGED databaseVars => UNCHANGED Kept!recordVars
  <2> SUFFICES ASSUME UNCHANGED databaseVars PROVE UNCHANGED Kept!recordVars
    OBVIOUS
  <2>1. UNCHANGED <<accounts, subscriptions, apiKeys, admin, users, versions>>
    BY DEF databaseVars
  <2>. QED BY <2>1, Zenon DEF Kept!recordVars, Subscribed, Issued, Accepted, Current
<1>4. MigrationInv /\ [Step]_databaseVars => [Kept!Request]_(Kept!recordVars)
  BY <1>1, <1>2, <1>3, Zenon DEF Step
<1>. HIDE DEF MigrationInv
<1>. QED BY <1>4, HeldAtFirst, MigrationInvHolds, PTL DEF Upgrade, RecordsKept, Kept!Spec

=============================================================================
