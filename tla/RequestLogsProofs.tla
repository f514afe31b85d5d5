------------------------- MODULE RequestLogsProofs --------------------------
(***************************************************************************)
(* Safety of RequestLogs for any requests, readers, retention and clock.   *)
(***************************************************************************)
EXTENDS RequestLogs, FiniteSetTheorems, WellFoundedInduction, TLAPS

Types == TypeOK /\ \A r \in entries : pc[r] = "logged"

-----------------------------------------------------------------------------
(* A line of a report is well typed. *)
LEMMA LineTyped ==
    ASSUME TypeOK, NEW q \in Readers, NEW found \in SUBSET Requests, NEW x,
           x \in reader[q].names \union {Line(q, e) : e \in found}
    PROVE  <<x, Cardinality({e \in found : Line(q, e) = x})>>
              \in (Subs \union Users \union {Nobody}) \X (0..Cardinality(Requests))
<1>1. reader[q].names \subseteq Subs \union Users
  BY DEF TypeOK, ReaderStates
<1>2. \A e \in Requests : Line(q, e) \in Subs \union Users \union {Nobody}
  BY OwnersAssumption DEF Line, Caller
<1>3. x \in Subs \union Users \union {Nobody}
  BY <1>1, <1>2
<1>4. {e \in found : Line(q, e) = x} \in SUBSET Requests
  OBVIOUS
<1>5. Cardinality({e \in found : Line(q, e) = x}) \in 0..Cardinality(Requests)
  BY <1>4, FS_Subset, FS_CardinalityType, FiniteAssumption, SMT
<1> QED
  BY <1>3, <1>5

(* The one a reader that fails, or is gone, is left with. *)
LEMMA EndTyped ==
    ASSUME NEW at \in {"failed", "gone"}, NEW listed \in SUBSET Days
    PROVE  /\ [NoRead EXCEPT !.at = at] \in ReaderStates
           /\ [NoRead EXCEPT !.at = at, !.listed = listed] \in ReaderStates
<1> DEFINE r == [NoRead EXCEPT !.at = at]
<1>1. r \in ReaderStates
  <2>1. NoRead \in ReaderStates
    BY BoundsAssumption, SMT DEF NoRead, ReaderStates, Kinds, Ranges, Days
  <2> QED BY <2>1, SMT DEF ReaderStates
<1>2. [r EXCEPT !.listed = listed] \in ReaderStates
  <2> HIDE DEF r
  <2> QED BY <1>1, SMT DEF ReaderStates
<1> QED
  BY <1>1, <1>2

(* A step that changes one reader, and perhaps the tables' columns, preserves
   the types.                                                                *)
LEMMA OneReaderTyped ==
    ASSUME Types, NEW q \in Readers, NEW r \in ReaderStates,
           r.at \in {"alter", "index"} => r.table \in r.todo,
           reader' = [reader EXCEPT ![q] = r],
           must' \in [Readers -> SUBSET Requests],
           old' \subseteq old,
           UNCHANGED <<today, tables, entries, rowVars, requestVars, cleaner, bounds>>
    PROVE  Types'
BY DEF Types, TypeOK, DayOf, rowVars, requestVars, bounds

(* Failing, too, preserves them. *)
LEMMA FailTyped ==
    ASSUME Types, NEW q \in Readers, Fail(q),
           UNCHANGED <<today, rowVars, requestVars, cleaner, bounds>>
    PROVE  Types'
<1> DEFINE r == [NoRead EXCEPT !.at = "failed", !.listed = reader[q].listed]
<1>1. reader[q].listed \in SUBSET Days
  BY DEF Types, TypeOK, ReaderStates
<1>2. r \in ReaderStates /\ r.at = "failed"
  BY <1>1, EndTyped DEF NoRead
<1>3. must' \in [Readers -> SUBSET Requests] /\ reader' = [reader EXCEPT ![q] = r]
  BY DEF Fail, Types, TypeOK
<1> HIDE DEF r
<1> QED
  BY <1>2, <1>3, OneReaderTyped DEF Fail, tableVars

(* Steps preserve the types. *)
LEMMA TypeStep == Types /\ [Next]_vars => Types'
<1> SUFFICES ASSUME Types, [Next]_vars PROVE Types'
  OBVIOUS
<1> USE DEF Types
<1>0. LastDay \in Nat /\ MaxFaults \in Nat /\ MaxDeletes \in Nat /\ today \in Nat
  BY BoundsAssumption DEF TypeOK, Days
<1>1. ASSUME NEW r \in Requests, NEW moment \in Moments, Serve(r, moment) PROVE Types'
  BY <1>1, SMT DEF Serve, TypeOK, DayOf, tableVars, rowVars, readerVars, bounds
<1>2. ASSUME NEW r \in Requests, RecordRequest(r) PROVE Types'
  BY <1>2, SMT DEF RecordRequest, TypeOK, DayOf, rowVars, readerVars, bounds
<1>3. ASSUME NEW r \in Requests, RollBack(r) PROVE Types'
  BY <1>0, <1>3, SMT DEF RollBack, TypeOK, DayOf, tableVars, rowVars, readerVars
<1>4. CASE Wake
  BY <1>0, <1>4, SMT DEF Wake, TypeOK, DayOf, tableVars, rowVars, requestVars, readerVars, bounds
<1>5. CASE ListExpired
  <2> DEFINE days == {d \in tables : Expired(d, cleaner.date)}
  <2>1. days \in SUBSET Days /\ cleaner.date \in 0..today
    BY DEF TypeOK
  <2>2. cleaner' \in [at : {"asleep", "list", "drop"}, date : 0..today, expired : SUBSET Days]
    <3>1. cleaner' = [at |-> "drop", date |-> cleaner.date, expired |-> days]
      BY <1>5 DEF ListExpired
    <3> HIDE DEF days
    <3> QED BY <2>1, <3>1
  <2> QED
    BY <1>5, <2>2 DEF ListExpired, TypeOK, DayOf, tableVars, rowVars, requestVars, readerVars, bounds
<1>6. CASE DropTable
  BY <1>0, <1>6, SMT DEF DropTable, Asleep, TypeOK, DayOf, tableVars, rowVars, requestVars, readerVars, bounds
<1>7. CASE CleanupFails
  BY <1>0, <1>7, SMT DEF CleanupFails, Asleep, TypeOK, DayOf, tableVars, rowVars, requestVars, readerVars
<1>8. ASSUME NEW q \in Readers, NEW range \in Ranges, NEW kind \in Kinds, ListTables(q, kind, range)
      PROVE  Types'
  <2> DEFINE days == CASE kind = "list" -> tables
                       [] kind = "get" -> tables \intersect {range[1]}
                       [] OTHER -> TablesInRange(range)
             at == IF kind \in {"list", "get"} THEN "columns" ELSE "names"
             r0 == [NoRead EXCEPT !.at = at]
             r1 == [r0 EXCEPT !.kind = kind]
             r2 == [r1 EXCEPT !.range = range]
             r3 == [r2 EXCEPT !.listed = days]
             r == [r3 EXCEPT !.todo = days]
  <2>1. days \in SUBSET Days
    BY DEF TypeOK, TablesInRange
  <2>2. r \in ReaderStates /\ r.at = at
    <3> HIDE DEF days
    <3>1. NoRead \in ReaderStates
      BY BoundsAssumption, SMT DEF NoRead, ReaderStates, Kinds, Ranges, Days
    <3>2. r0 \in ReaderStates /\ r0.at = at
      BY <3>1, SMT DEF ReaderStates
    <3>3. r1 \in ReaderStates /\ r1.at = at
      <4> HIDE DEF r0
      <4> QED BY <3>2, SMT DEF ReaderStates
    <3>4. r2 \in ReaderStates /\ r2.at = at
      <4> HIDE DEF r1
      <4> QED BY <3>3, SMT DEF ReaderStates
    <3>5. r3 \in ReaderStates /\ r3.at = at
      <4> HIDE DEF r2
      <4> QED BY <2>1, <3>4, SMT DEF ReaderStates
    <3> HIDE DEF r3
    <3> QED BY <2>1, <3>5, SMT DEF ReaderStates
  <2>3. reader' = [reader EXCEPT ![q] = r]
    BY <1>8, Zenon DEF ListTables
  <2>4. must' \in [Readers -> SUBSET Requests]
    BY <1>8, SMT DEF ListTables, TypeOK
  <2> HIDE DEF r
  <2> QED
    BY <1>8, <2>2, <2>3, <2>4, OneReaderTyped DEF ListTables, tableVars
<1>9. ASSUME NEW q \in Readers, ListNames(q) PROVE Types'
  <2> DEFINE s == [reader[q] EXCEPT !.at = "columns"]
             n == IF reader[q].kind = "byUser" THEN users ELSE subs
             r == [s EXCEPT !.names = n]
  <2>1. s \in ReaderStates /\ s.at = "columns" /\ n \in SUBSET (Subs \union Users)
    <3>1. reader[q] \in ReaderStates /\ users \subseteq Users /\ subs \subseteq Subs
      BY DEF TypeOK
    <3>2. n \in SUBSET (Subs \union Users)
      BY <3>1, Zenon
    <3> QED BY <3>1, <3>2, SMT DEF ReaderStates
  <2>2. r \in ReaderStates /\ r.at = "columns"
    <3> HIDE DEF s, n
    <3> QED BY <2>1, SMT DEF ReaderStates
  <2>3. reader' = [reader EXCEPT ![q] = r]
    BY <1>9 DEF ListNames, TypeOK
  <2> HIDE DEF r
  <2>4. /\ must' \in [Readers -> SUBSET Requests] /\ old' \subseteq old
        /\ UNCHANGED <<today, tables, entries, rowVars, requestVars, cleaner, bounds>>
    BY <1>9 DEF ListNames, tableVars, TypeOK
  <2> QED
    BY <2>2, <2>3, <2>4, OneReaderTyped
<1>10. ASSUME NEW q \in Readers, ReadColumns(q) PROVE Types'
  <2>0. reader[q] \in ReaderStates
    BY DEF TypeOK
  <2>1. PICK d \in reader[q].todo :
            reader' = [reader EXCEPT ![q].table = d,
                          ![q].at = IF d \in old \/ d \notin tables THEN "alter" ELSE "index"]
    BY <1>10 DEF ReadColumns
  <2> DEFINE s == [reader[q] EXCEPT !.table = d]
             at == IF d \in old \/ d \notin tables THEN "alter" ELSE "index"
             r == [s EXCEPT !.at = at]
  <2>2. d \in Days
    BY <2>0 DEF ReaderStates
  <2>3. s \in ReaderStates /\ s.table \in s.todo
    BY <2>0, <2>2, SMT DEF ReaderStates
  <2>4. r \in ReaderStates /\ r.table \in r.todo
    <3> HIDE DEF s
    <3> QED BY <2>3, SMT DEF ReaderStates
  <2>5. reader' = [reader EXCEPT ![q] = r]
    BY <2>1 DEF TypeOK
  <2>6. /\ must' \in [Readers -> SUBSET Requests] /\ old' \subseteq old
        /\ UNCHANGED <<today, tables, entries, rowVars, requestVars, cleaner, bounds>>
    BY <1>10 DEF ReadColumns, tableVars, TypeOK
  <2> HIDE DEF r
  <2> QED
    BY <2>4, <2>5, <2>6, OneReaderTyped
<1>11. ASSUME NEW q \in Readers, AddColumns(q) PROVE Types'
  <2>1. CASE reader[q].table \in old
    <3> DEFINE r == [reader[q] EXCEPT !.at = "index"]
    <3>1. r \in ReaderStates /\ r.table \in r.todo
      <4>1. reader[q] \in ReaderStates /\ reader[q].table \in reader[q].todo
        BY <1>11 DEF AddColumns, TypeOK
      <4> QED BY <4>1, SMT DEF ReaderStates
    <3>2. reader' = [reader EXCEPT ![q] = r]
      BY <1>11, <2>1 DEF AddColumns, Go, TypeOK
    <3> HIDE DEF r
    <3>9. /\ must' \in [Readers -> SUBSET Requests] /\ old' \subseteq old
          /\ UNCHANGED <<today, tables, entries, rowVars, requestVars, cleaner, bounds>>
      BY <1>11, <2>1 DEF AddColumns, TypeOK
    <3> QED BY <3>1, <3>2, <3>9, OneReaderTyped
  <2> QED
    BY <1>11, <2>1, FailTyped DEF AddColumns
<1>12. ASSUME NEW q \in Readers, CreateIndex(q) PROVE Types'
  <2>1. CASE reader[q].table \in tables
    <3> DEFINE r0 == [reader[q] EXCEPT !.at = "columns"]
               r1 == [r0 EXCEPT !.table = 0]
               r == [r1 EXCEPT !.todo = reader[q].todo \ {reader[q].table}]
    <3>0. reader[q] \in ReaderStates
      BY DEF TypeOK
    <3>1. r0 \in ReaderStates /\ r0.at = "columns" /\ reader[q].todo \in SUBSET Days
      BY <3>0, SMT DEF ReaderStates
    <3>2. r1 \in ReaderStates /\ r1.at = "columns"
      <4> HIDE DEF r0
      <4> QED BY <3>1, SMT DEF ReaderStates
    <3>3. r \in ReaderStates /\ r.at = "columns"
      <4> HIDE DEF r1
      <4> QED BY <3>1, <3>2, SMT DEF ReaderStates
    <3>4. reader' = [reader EXCEPT ![q] = r]
      BY <1>12, <2>1, SMT DEF CreateIndex, TypeOK, ReaderStates
    <3> HIDE DEF r
    <3>9. /\ must' \in [Readers -> SUBSET Requests] /\ old' \subseteq old
          /\ UNCHANGED <<today, tables, entries, rowVars, requestVars, cleaner, bounds>>
      BY <1>12, <2>1 DEF CreateIndex, tableVars, TypeOK
    <3> QED BY <3>3, <3>4, <3>9, OneReaderTyped
  <2> QED
    BY <1>12, <2>1, FailTyped DEF CreateIndex
<1>13. ASSUME NEW q \in Readers, CountEntries(q) PROVE Types'
  <2>1. CASE reader[q].listed \subseteq tables
    <3> DEFINE r == [reader[q] EXCEPT !.at = "page"]
    <3>0. reader[q] \in ReaderStates
      BY DEF TypeOK
    <3>1. r \in ReaderStates /\ r.at = "page"
      BY <3>0, SMT DEF ReaderStates
    <3>2. reader' = [reader EXCEPT ![q] = r]
      BY <1>13, <2>1 DEF CountEntries, Go, TypeOK
    <3>3. must' \in [Readers -> SUBSET Requests]
      BY <1>13, <2>1, SMT DEF CountEntries, Matching, TypeOK
    <3> HIDE DEF r
    <3> QED BY <1>13, <2>1, <3>1, <3>2, <3>3, OneReaderTyped DEF CountEntries, tableVars
  <2> QED
    BY <1>13, <2>1, FailTyped DEF CountEntries
<1>14. ASSUME NEW q \in Readers, Query(q) PROVE Types'
  <2>1. CASE reader[q].listed \subseteq tables
    <3> DEFINE found == Matching(q, entries)
               keyed == {Line(q, e) : e \in found}
               lines == {<<x, Cardinality({e \in found : Line(q, e) = x})>> :
                            x \in reader[q].names \union keyed}
               r0 == [reader[q] EXCEPT !.at = "answered"]
               r1 == [r0 EXCEPT !.names = {}]
               r2 == [r1 EXCEPT !.found = found]
               r == [r2 EXCEPT !.lines = lines]
    <3>1. found \in SUBSET Requests
      BY DEF Matching, TypeOK
    <3>2. lines \in SUBSET ((Subs \union Users \union {Nobody}) \X (0..Cardinality(Requests)))
      <4> HIDE DEF found
      <4> TypeOK
        OBVIOUS
      <4> SUFFICES ASSUME NEW x \in reader[q].names \union keyed
                   PROVE  <<x, Cardinality({e \in found : Line(q, e) = x})>>
                             \in (Subs \union Users \union {Nobody}) \X (0..Cardinality(Requests))
        OBVIOUS
      <4> QED BY <3>1, LineTyped
    <3> HIDE DEF lines, found
    <3>0. reader[q] \in ReaderStates
      BY DEF TypeOK
    <3>3. r0 \in ReaderStates /\ r0.at = "answered"
      BY <3>0, SMT DEF ReaderStates
    <3>4. r1 \in ReaderStates /\ r1.at = "answered"
      <4> HIDE DEF r0
      <4> QED BY <3>3, SMT DEF ReaderStates
    <3>5. r2 \in ReaderStates /\ r2.at = "answered"
      <4> HIDE DEF r1
      <4> QED BY <3>1, <3>4, SMT DEF ReaderStates
    <3>6. r \in ReaderStates /\ r.at = "answered"
      <4> HIDE DEF r2
      <4> QED BY <3>2, <3>5, SMT DEF ReaderStates
    <3>7. reader' = [reader EXCEPT ![q].at = "answered", ![q].names = {}, ![q].found = found, ![q].lines = lines]
      BY <1>14, <2>1, Zenon DEF Query, found, lines
    <3>8. reader' = [reader EXCEPT ![q] = r]
      <4>1. reader \in [Readers -> ReaderStates]
        BY DEF TypeOK
      <4> QED BY <3>7, <4>1, Zenon
    <3> HIDE DEF r
    <3>9. /\ must' \in [Readers -> SUBSET Requests] /\ old' \subseteq old
          /\ UNCHANGED <<today, tables, entries, rowVars, requestVars, cleaner, bounds>>
      BY <1>14, <2>1 DEF Query, tableVars, TypeOK
    <3> QED BY <3>6, <3>8, <3>9, OneReaderTyped
  <2> QED
    BY <1>14, <2>1, FailTyped DEF Query
<1>15. ASSUME NEW s \in Subs, DeleteSubscription(s) PROVE Types'
  BY <1>0, <1>15, SMT DEF DeleteSubscription, Delete, TypeOK, DayOf, tableVars, requestVars, readerVars
<1>16. ASSUME NEW r \in Requests, DeleteKey(r) PROVE Types'
  BY <1>0, <1>16, SMT DEF DeleteKey, Delete, TypeOK, DayOf, tableVars, requestVars, readerVars
<1>17. ASSUME NEW u \in Users, DeleteUser(u) PROVE Types'
  BY <1>0, <1>17, SMT DEF DeleteUser, Delete, TypeOK, DayOf, tableVars, requestVars, readerVars
<1>18. CASE NextDay
  BY <1>0, <1>18, SMT DEF NextDay, TypeOK, Days, DayOf, tableVars, rowVars, requestVars, readerVars, bounds
<1>19. CASE Restart
  <2>1. [NoRead EXCEPT !.at = "gone"] \in ReaderStates /\ [NoRead EXCEPT !.at = "gone"].at = "gone"
    BY EndTyped DEF NoRead
  <2>2. reader' \in [Readers -> ReaderStates]
        /\ \A q \in Readers : reader'[q].at \in {"alter", "index"} => reader'[q].table \in reader'[q].todo
    BY <1>19, <2>1, SMT DEF Restart, TypeOK
  <2> QED
    <3>1. pc' \in [Requests -> {"idle", "running", "logged", "lost"}]
          /\ \A r \in entries' : pc'[r] = "logged"
      BY <1>19, SMT DEF Restart, TypeOK, tableVars
    <3>2. cleaner' \in [at : {"asleep", "list", "drop"}, date : 0..today', expired : SUBSET Days]
      BY <1>0, <1>19, SMT DEF Restart, Asleep
    <3>3. faults' \in 0..MaxFaults
      BY <1>0, <1>19, SMT DEF Restart, TypeOK
    <3> QED
      BY <1>19, <2>2, <3>1, <3>2, <3>3 DEF Restart, TypeOK, DayOf, tableVars, rowVars
<1>20. CASE UNCHANGED vars
  BY <1>20 DEF vars, tableVars, rowVars, requestVars, readerVars, bounds, TypeOK, DayOf
<1> QED
  BY <1>1, <1>2, <1>3, <1>4, <1>5, <1>6, <1>7, <1>8, <1>9, <1>10, <1>11, <1>12, <1>13, <1>14,
     <1>15, <1>16, <1>17, <1>18, <1>19, <1>20
     DEF Next, RequestStep, CleanerStep, ReaderStep

(* The initial states are well typed. *)
LEMMA InitTyped == Init => Types
BY BoundsAssumption, OwnersAssumption, SMT
   DEF Init, Asleep, NoRead, Types, TypeOK, ReaderStates, Days, Moments, Kinds, Ranges, DayOf

(* Every reachable state is well typed; every entry lies in a table there is,
   and readers only look at tables they have listed.                         *)
THEOREM TypeCorrect == Spec => []TypeOK
<1>1. Types => TypeOK
  BY DEF Types
<1> QED
  BY <1>1, InitTyped, TypeStep, PTL DEF Spec

-----------------------------------------------------------------------------
(* Time only goes on, and a logged entry stays as it was written. *)
Steady ==
    /\ today \in Nat /\ today' \in Nat /\ today <= today'
    /\ \A r \in Requests : pc[r] = "logged" => pc'[r] = "logged" /\ DayOf(r)' = DayOf(r)
                                             /\ start'[r] = start[r]

(* Every step is steady. *)
LEMMA StepSteady == Types /\ [Next]_vars => Steady
<1> SUFFICES ASSUME Types, [Next]_vars PROVE Steady
  OBVIOUS
<1>0. today \in Nat
  BY DEF Types, TypeOK, Days
<1>1. ASSUME NEW r \in Requests, RequestStep(r) PROVE Steady
  BY <1>0, <1>1, SMT DEF RequestStep, Serve, RecordRequest, RollBack, Steady, DayOf, Types, TypeOK
<1>2. CASE CleanerStep \/ CleanupFails
  BY <1>0, <1>2, SMT DEF CleanerStep, Wake, ListExpired, DropTable, CleanupFails, Steady, DayOf, requestVars
<1>3. ASSUME NEW q \in Readers,
             \/ ReaderStep(q)
             \/ \E range \in Ranges, kind \in Kinds : ListTables(q, kind, range)
      PROVE  Steady
  <2>1. UNCHANGED <<today, pc, start>>
    BY <1>3, Zenon DEF ReaderStep, ListTables, ListNames, ReadColumns, AddColumns, CreateIndex,
                       CountEntries, Query, requestVars
  <2> QED BY <1>0, <2>1 DEF Steady, DayOf
<1>4. CASE \/ \E s \in Subs : DeleteSubscription(s)
           \/ \E r \in Requests : DeleteKey(r)
           \/ \E u \in Users : DeleteUser(u)
  BY <1>0, <1>4, SMT DEF DeleteSubscription, DeleteKey, DeleteUser, Delete, Steady, DayOf, requestVars
<1>5. CASE NextDay
  BY <1>0, <1>5, SMT DEF NextDay, Steady, DayOf, requestVars
<1>6. CASE Restart
  BY <1>0, <1>6, SMT DEF Restart, Steady, DayOf, Types, TypeOK
<1>7. CASE UNCHANGED vars
  BY <1>0, <1>7, SMT DEF vars, requestVars, Steady, DayOf
<1> QED
  BY <1>1, <1>2, <1>3, <1>4, <1>5, <1>6, <1>7 DEF Next

(* What is expired stays so. *)
LEMMA ExpiredStays ==
    ASSUME NEW t \in Nat, NEW u \in Nat, t <= u, NEW d \in Nat, Expired(d, t)
    PROVE  Expired(d, u)
BY BoundsAssumption, SMT DEF Expired

-----------------------------------------------------------------------------
(* The cleanup only drops what has expired, also when midnight passes
   between its list and its drops; so a day a reader has listed either still
   has its table or has expired.                                             *)
CleanupInv ==
    /\ \A d \in cleaner.expired : Expired(d, today)
    /\ RetainedKept

(* Steps preserve CleanupInv. *)
LEMMA CleanupStep == Types /\ CleanupInv /\ [Next]_vars => CleanupInv'
<1> SUFFICES ASSUME Types, CleanupInv, [Next]_vars PROVE CleanupInv'
  OBVIOUS
<1> USE DEF CleanupInv
<1>0. Steady /\ Days \subseteq Nat /\ tables \subseteq Days /\ cleaner.expired \subseteq Days
  BY StepSteady DEF Types, TypeOK, Days
<1>1. \A d \in cleaner.expired : Expired(d, today')
  BY <1>0, ExpiredStays DEF Steady
<1>2. \A r \in Requests : pc[r] = "logged" => r \in entries \/ Expired(DayOf(r), today')
  <2> SUFFICES ASSUME NEW r \in Requests, Expired(DayOf(r), today) PROVE Expired(DayOf(r), today')
    BY DEF RetainedKept
  <2>1. DayOf(r) \in Nat
    BY <1>0 DEF Types, TypeOK, DayOf
  <2> QED
    BY <1>0, <2>1, ExpiredStays DEF Steady
<1>3. ASSUME UNCHANGED <<pc, start, entries>>, cleaner' \in {cleaner, Asleep} PROVE CleanupInv'
  BY <1>1, <1>2, <1>3 DEF RetainedKept, DayOf, Asleep
<1>4. ASSUME NEW r \in Requests, RequestStep(r) PROVE CleanupInv'
  <2>1. pc \in [Requests -> {"idle", "running", "logged", "lost"}] /\ start \in [Requests -> [day : Days, moment : Moments, known : BOOLEAN]]
    BY DEF Types, TypeOK
  <2>2. ASSUME NEW moment \in Moments, Serve(r, moment) PROVE CleanupInv'
    <3>1. \A e \in Requests : pc'[e] = "logged" => pc[e] = "logged" /\ start'[e] = start[e]
      BY <2>1, <2>2, SMT DEF Serve
    <3> QED
      BY <1>1, <1>2, <2>2, <3>1 DEF Serve, RetainedKept, DayOf, tableVars
  <2>3. CASE RecordRequest(r)
    BY <1>1, <1>2, <2>1, <2>3 DEF RecordRequest, RetainedKept, DayOf
  <2>4. CASE RollBack(r)
    BY <1>1, <1>2, <2>1, <2>4 DEF RollBack, RetainedKept, DayOf, tableVars
  <2> QED
    BY <1>4, <2>2, <2>3, <2>4 DEF RequestStep
<1>5. CASE Wake
  BY <1>1, <1>2, <1>5 DEF Wake, RetainedKept, DayOf, requestVars, tableVars
<1>6. CASE ListExpired
  <2>1. cleaner.date \in Nat /\ cleaner.date <= today'
    BY <1>0, SMT DEF Types, TypeOK, Steady
  <2>2. \A d \in tables : Expired(d, cleaner.date) => Expired(d, today')
    BY <1>0, <2>1, ExpiredStays DEF Steady
  <2>3. cleaner'.expired = {d \in tables : Expired(d, cleaner.date)}
    BY <1>6 DEF ListExpired
  <2> QED
    BY <1>2, <1>6, <2>2, <2>3 DEF ListExpired, RetainedKept, DayOf, requestVars, tableVars
<1>7. CASE DropTable
  <2>1. CASE cleaner.expired = {} /\ cleaner' = Asleep /\ UNCHANGED tableVars
    BY <1>3, <1>7, <2>1 DEF DropTable, requestVars, tableVars
  <2>2. ASSUME NEW d \in cleaner.expired,
               cleaner' = [cleaner EXCEPT !.expired = @ \ {d}],
               entries' = {r \in entries : DayOf(r) # d}
        PROVE  CleanupInv'
    <3>1. cleaner'.expired \subseteq cleaner.expired
      BY <2>2 DEF Types, TypeOK
    <3>2. \A r \in entries : r \notin entries' => Expired(DayOf(r), today')
      BY <1>1, <2>2
    <3>3. UNCHANGED <<pc, start>>
      BY <1>7 DEF DropTable, requestVars
    <3> QED
      BY <1>1, <1>2, <3>1, <3>2, <3>3 DEF RetainedKept, DayOf
  <2> QED
    BY <1>7, <2>1, <2>2 DEF DropTable
<1>8. CASE CleanupFails
  BY <1>3, <1>8 DEF CleanupFails, tableVars, requestVars
<1>9. ASSUME NEW q \in Readers,
             \/ ReaderStep(q)
             \/ \E range \in Ranges, kind \in Kinds : ListTables(q, kind, range)
      PROVE  CleanupInv'
  <2>1. UNCHANGED <<pc, start, entries, cleaner>>
    BY <1>9, Zenon DEF ReaderStep, ListTables, ListNames, ReadColumns, AddColumns, CreateIndex,
                       CountEntries, Query, Fail, tableVars, requestVars
  <2> QED BY <1>3, <2>1
<1>10. CASE \/ \E s \in Subs : DeleteSubscription(s)
            \/ \E r \in Requests : DeleteKey(r)
            \/ \E u \in Users : DeleteUser(u)
            \/ NextDay
            \/ UNCHANGED vars
  <2>1. UNCHANGED <<pc, start, entries, cleaner>>
    BY <1>10 DEF DeleteSubscription, DeleteKey, DeleteUser, Delete, NextDay, vars, tableVars, requestVars
  <2> QED BY <1>3, <2>1
<1>11. CASE Restart
  <2>1. \A r \in Requests : pc'[r] = "logged" => pc[r] = "logged"
    BY <1>11, SMT DEF Restart
  <2> QED
    BY <1>2, <1>11, <2>1 DEF Restart, Asleep, RetainedKept, DayOf, tableVars
<1> QED
  BY <1>4, <1>5, <1>6, <1>7, <1>8, <1>9, <1>10, <1>11 DEF Next, CleanerStep

(* The initial states satisfy it: what is logged is there. *)
LEMMA InitCleanup == Init => CleanupInv
BY DEF Init, Asleep, CleanupInv, RetainedKept

(* No entry is lost before its day expires, whatever requests, cleanup,
   readers and administrators do between midnights, faults and restarts.     *)
THEOREM NothingLostEarly == Spec => []RetainedKept
<1>1. Init => Types /\ CleanupInv
  BY InitTyped, InitCleanup
<1>2. (Types /\ CleanupInv) /\ [Next]_vars => (Types /\ CleanupInv)'
  BY TypeStep, CleanupStep
<1>3. CleanupInv => RetainedKept
  BY DEF CleanupInv
<1> QED
  BY <1>1, <1>2, <1>3, PTL DEF Spec

-----------------------------------------------------------------------------
(* A reader fails over a table that is gone, hence expired, or over columns
   that someone else adds, which only the table of an older version lacks.   *)
Cause(d) == Expired(d, today) \/ (Upgraded /\ d = 1)

ReaderCause(q) ==
    /\ reader[q].todo \subseteq reader[q].listed
    /\ \A d \in reader[q].listed : d \in tables \/ Expired(d, today)
    /\ reader[q].at = "alter" => Cause(reader[q].table)
    /\ reader[q].at = "failed" => \E d \in reader[q].listed : Cause(d)

CauseInv ==
    /\ \A d \in old : d = 1 /\ Upgraded
    /\ \A q \in Readers : ReaderCause(q)

(* Tables go only when they have expired, and lose their lack of columns. *)
TablesSteady ==
    /\ old' \subseteq old
    /\ \A d \in tables : d \in tables' \/ Expired(d, today')

(* A cause stays one. *)
LEMMA CauseStays ==
    ASSUME Types, Steady
    PROVE  /\ Upgraded => Upgraded'
           /\ \A d \in Days : /\ Expired(d, today) => Expired(d, today')
                              /\ Cause(d) => Cause(d)'
<1>1. Upgraded => Upgraded'
  BY OwnersAssumption DEF Upgraded, Steady
<1>2. \A d \in Days : Expired(d, today) => Expired(d, today')
  BY ExpiredStays DEF Steady, Days
<1> QED
  BY <1>1, <1>2 DEF Cause

(* A reader's step moves no other. *)
LEMMA OthersStay ==
    ASSUME Types, NEW p \in Readers, ReaderStep(p), NEW q \in Readers \ {p}
    PROVE  reader'[q] = reader[q] /\ must'[q] = must[q]
<1> reader \in [Readers -> ReaderStates] /\ must \in [Readers -> SUBSET Requests]
  BY DEF Types, TypeOK
<1>0. CASE Fail(p)
  BY <1>0, SMT DEF Fail, ReaderStates
<1>1. CASE ListNames(p)
  BY <1>1, SMT DEF ListNames, ReaderStates
<1>2. CASE ReadColumns(p)
  <2>1. PICK d \in reader[p].todo :
            reader' = [reader EXCEPT ![p].table = d,
                          ![p].at = IF d \in old \/ d \notin tables THEN "alter" ELSE "index"]
    BY <1>2 DEF ReadColumns
  <2> QED BY <1>2, <2>1, SMT DEF ReadColumns, ReaderStates
<1>3. CASE AddColumns(p)
  <2>1. ASSUME Go(p, "index"), UNCHANGED must PROVE reader'[q] = reader[q] /\ must'[q] = must[q]
    BY <2>1, SMT DEF Go, ReaderStates
  <2> QED BY <1>0, <1>3, <2>1 DEF AddColumns
<1>4. CASE CreateIndex(p)
  <2>1. CASE reader[p].table \in tables
    BY <1>4, <2>1, SMT DEF CreateIndex, ReaderStates
  <2> QED BY <1>0, <1>4, <2>1 DEF CreateIndex
<1>5. CASE CountEntries(p)
  <2>1. CASE reader[p].listed \subseteq tables
    BY <1>5, <2>1, SMT DEF CountEntries, Go, ReaderStates
  <2> QED BY <1>0, <1>5, <2>1 DEF CountEntries
<1>6. CASE Query(p)
  <2>2. ASSUME UNCHANGED must, NEW found, NEW lines,
               reader' = [reader EXCEPT ![p].at = "answered", ![p].names = {},
                                        ![p].found = found, ![p].lines = lines]
        PROVE  reader'[q] = reader[q] /\ must'[q] = must[q]
    BY <2>2, SMT DEF ReaderStates
  <2> QED
    BY <1>0, <1>6, <2>2, Zenon DEF Query
<1> QED
  BY <1>1, <1>2, <1>3, <1>4, <1>5, <1>6 DEF ReaderStep

(* A reader that does not move keeps its causes. *)
LEMMA ReaderStays ==
    ASSUME Types, Steady, TablesSteady, NEW q \in Readers, ReaderCause(q), reader'[q] = reader[q]
    PROVE  ReaderCause(q)'
<1>1. reader[q].listed \subseteq Days /\ reader[q].table \in Days \union {0}
  BY DEF Types, TypeOK, ReaderStates
<1>2. reader[q].at = "alter" => reader[q].table \in Days
  BY DEF Types, TypeOK, ReaderStates
<1> QED
  BY <1>1, <1>2, CauseStays DEF ReaderCause, TablesSteady

(* All steps are steady in what becomes of tables. *)
LEMMA StepTablesSteady == Types /\ CleanupInv /\ [Next]_vars => TablesSteady
<1> SUFFICES ASSUME Types, CleanupInv, [Next]_vars PROVE TablesSteady
  OBVIOUS
<1>1. ASSUME NEW r \in Requests, RequestStep(r) PROVE TablesSteady
  BY <1>1 DEF RequestStep, Serve, RecordRequest, RollBack, tableVars, TablesSteady
<1>2. CASE DropTable
  BY <1>2 DEF DropTable, tableVars, TablesSteady, CleanupInv
<1>3. ASSUME NEW q \in Readers, ReaderStep(q) PROVE TablesSteady
  BY <1>3, Zenon DEF ReaderStep, ListNames, ReadColumns, AddColumns, CreateIndex,
                     CountEntries, Query, Fail, tableVars, TablesSteady
<1>4. ASSUME UNCHANGED tableVars PROVE TablesSteady
  BY <1>4 DEF tableVars, TablesSteady
<1>5. CASE Wake \/ ListExpired \/ CleanupFails
  BY <1>4, <1>5 DEF Wake, ListExpired, CleanupFails
<1>6. ASSUME NEW q \in Readers, NEW range \in Ranges, NEW kind \in Kinds, ListTables(q, kind, range)
      PROVE  TablesSteady
  BY <1>4, <1>6 DEF ListTables
<1>7. CASE \/ \E s \in Subs : DeleteSubscription(s)
           \/ \E r \in Requests : DeleteKey(r)
           \/ \E u \in Users : DeleteUser(u)
           \/ NextDay \/ Restart
           \/ UNCHANGED vars
  BY <1>4, <1>7 DEF DeleteSubscription, DeleteKey, DeleteUser, Delete, NextDay, Restart, vars
<1> QED
  BY <1>1, <1>2, <1>3, <1>5, <1>6, <1>7 DEF Next, CleanerStep

(* Steps preserve CauseInv. *)
LEMMA CauseStep == Types /\ CleanupInv /\ CauseInv /\ [Next]_vars => CauseInv'
<1> SUFFICES ASSUME Types, CleanupInv, CauseInv, [Next]_vars PROVE CauseInv'
  OBVIOUS
<1>0. Steady /\ TablesSteady
  BY StepSteady, StepTablesSteady
<1>1. \A d \in old' : d = 1 /\ Upgraded'
  BY <1>0, CauseStays DEF CauseInv, TablesSteady
<1>2. SUFFICES ASSUME NEW q \in Readers PROVE ReaderCause(q)'
  BY <1>1 DEF CauseInv
<1>3. ReaderCause(q) /\ reader \in [Readers -> ReaderStates] /\ reader[q] \in ReaderStates
  BY DEF CauseInv, Types, TypeOK
<1>4. reader[q].listed \subseteq Days /\ \A d \in Days : Cause(d) => Cause(d)'
  BY <1>0, <1>3, CauseStays DEF ReaderStates
<1>5. \A d \in reader[q].listed : d \in tables' \/ Expired(d, today')
  BY <1>0, <1>3, <1>4, CauseStays DEF ReaderCause, TablesSteady
<1>6. ASSUME Fail(q), \E d \in reader[q].listed : Cause(d) PROVE ReaderCause(q)'
  <2>1. reader'[q].at = "failed" /\ reader'[q].listed = reader[q].listed /\ reader'[q].todo = {}
    BY <1>3, <1>6, SMT DEF Fail, NoRead
  <2>2. \E d \in reader[q].listed : Cause(d)'
    BY <1>4, <1>6
  <2> QED
    BY <1>5, <2>1, <2>2 DEF ReaderCause
<1>7. ASSUME reader'[q].listed = reader[q].listed, reader'[q].todo \subseteq reader[q].todo,
             reader'[q].at \notin {"alter", "failed"}
      PROVE  ReaderCause(q)'
  BY <1>3, <1>5, <1>7 DEF ReaderCause
<1>8. \A d \in reader[q].listed : d \notin tables => Cause(d)
  BY <1>3 DEF ReaderCause, Cause
<1>10. ASSUME NEW range \in Ranges, NEW kind \in Kinds, ListTables(q, kind, range)
       PROVE  ReaderCause(q)'
  <2> DEFINE days == CASE kind = "list" -> tables
                       [] kind = "get" -> tables \intersect {range[1]}
                       [] OTHER -> TablesInRange(range)
  <2>1. days \subseteq tables /\ tables' = tables
    BY <1>10 DEF ListTables, TablesInRange, tableVars
  <2> DEFINE at == IF kind \in {"list", "get"} THEN "columns" ELSE "names"
  <2>2. reader' = [reader EXCEPT ![q] =
            [NoRead EXCEPT !.at = at, !.kind = kind, !.range = range, !.listed = days, !.todo = days]]
    BY <1>10, Zenon DEF ListTables
  <2>3. reader'[q].listed = days /\ reader'[q].todo = days /\ reader'[q].at = at
    <3> HIDE DEF days, at
    <3> QED BY <1>3, <2>2, SMT DEF NoRead
  <2> QED
    BY <2>1, <2>3 DEF ReaderCause
<1>11. CASE ListNames(q)
  <2>1. reader'[q].listed = reader[q].listed /\ reader'[q].todo = reader[q].todo /\ reader'[q].at = "columns"
    BY <1>3, <1>11, SMT DEF ListNames, ReaderStates
  <2> QED BY <1>7, <2>1
<1>12. CASE ReadColumns(q)
  <2>1. PICK d \in reader[q].todo :
            reader' = [reader EXCEPT ![q].table = d,
                          ![q].at = IF d \in old \/ d \notin tables THEN "alter" ELSE "index"]
    BY <1>12 DEF ReadColumns
  <2>2. /\ reader'[q].listed = reader[q].listed /\ reader'[q].todo = reader[q].todo
        /\ reader'[q].table = d
        /\ reader'[q].at = IF d \in old \/ d \notin tables THEN "alter" ELSE "index"
    BY <1>3, <2>1, SMT DEF ReaderStates
  <2>3. d \in reader[q].listed /\ d \in Days
    BY <1>3, <1>4 DEF ReaderCause
  <2>4. d \in old \/ d \notin tables => Cause(d)'
    BY <1>4, <1>8, <2>3 DEF CauseInv, Cause
  <2> QED
    BY <1>3, <1>5, <2>2, <2>4 DEF ReaderCause
<1>13. CASE AddColumns(q)
  <2>1. reader[q].table \in reader[q].todo /\ reader[q].table \in reader[q].listed
    BY <1>3, <1>13 DEF AddColumns, Types, TypeOK, ReaderCause
  <2>2. CASE reader[q].table \in old
    <3>1. reader'[q].listed = reader[q].listed /\ reader'[q].todo = reader[q].todo /\ reader'[q].at = "index"
      BY <1>3, <1>13, <2>2, SMT DEF AddColumns, Go, ReaderStates
    <3> QED BY <1>7, <3>1
  <2>3. CASE reader[q].table \notin old
    BY <1>3, <1>6, <1>13, <2>1, <2>3 DEF AddColumns, ReaderCause
  <2> QED BY <2>2, <2>3
<1>14. CASE CreateIndex(q)
  <2>1. reader[q].table \in reader[q].listed
    BY <1>3, <1>14 DEF CreateIndex, Types, TypeOK, ReaderCause
  <2>2. CASE reader[q].table \in tables
    <3>1. reader'[q].listed = reader[q].listed /\ reader'[q].todo \subseteq reader[q].todo /\ reader'[q].at = "columns"
      BY <1>3, <1>14, <2>2, SMT DEF CreateIndex, ReaderStates
    <3> QED BY <1>7, <3>1
  <2>3. CASE reader[q].table \notin tables
    BY <1>6, <1>8, <1>14, <2>1, <2>3 DEF CreateIndex
  <2> QED BY <2>2, <2>3
<1>15. CASE CountEntries(q)
  <2>1. CASE reader[q].listed \subseteq tables
    <3>1. reader'[q].listed = reader[q].listed /\ reader'[q].todo = reader[q].todo /\ reader'[q].at = "page"
      BY <1>3, <1>15, <2>1, SMT DEF CountEntries, Go, ReaderStates
    <3> QED BY <1>7, <3>1
  <2>2. CASE ~(reader[q].listed \subseteq tables)
    BY <1>6, <1>8, <1>15, <2>2 DEF CountEntries
  <2> QED BY <2>1, <2>2
<1>16. CASE Query(q)
  <2>1. CASE reader[q].listed \subseteq tables
    <3>1. PICK found, lines : reader' = [reader EXCEPT ![q].at = "answered", ![q].names = {},
                                                       ![q].found = found, ![q].lines = lines]
      BY <1>16, <2>1, Zenon DEF Query
    <3>2. reader'[q].listed = reader[q].listed /\ reader'[q].todo = reader[q].todo /\ reader'[q].at = "answered"
      BY <1>3, <3>1, SMT DEF ReaderStates
    <3> QED BY <1>7, <3>2
  <2>2. CASE ~(reader[q].listed \subseteq tables)
    BY <1>6, <1>8, <1>16, <2>2 DEF Query
  <2> QED BY <2>1, <2>2
<1>17. ASSUME reader'[q] = reader[q] PROVE ReaderCause(q)'
  BY <1>0, <1>3, <1>17, ReaderStays
<1>18. ASSUME NEW p \in Readers \ {q}, ReaderStep(p) PROVE ReaderCause(q)'
  <2>1. reader'[q] = reader[q]
    BY <1>3, <1>18, OthersStay
  <2> QED BY <1>17, <2>1
<1>19. ASSUME NEW p \in Readers \ {q}, NEW range \in Ranges, NEW kind \in Kinds, ListTables(p, kind, range)
       PROVE  ReaderCause(q)'
  <2>1. reader'[q] = reader[q]
    BY <1>3, <1>19, Zenon DEF ListTables
  <2> QED BY <1>17, <2>1
<1>20. CASE Restart
  <2>1. CASE reader'[q] = reader[q]
    BY <1>17, <2>1
  <2>2. CASE reader'[q] = [NoRead EXCEPT !.at = "gone"]
    <3>1. reader'[q].at = "gone" /\ reader'[q].listed = {} /\ reader'[q].todo = {}
      BY <2>2, SMT DEF NoRead
    <3> QED BY <3>1 DEF ReaderCause
  <2> QED BY <1>20, <2>1, <2>2 DEF Restart
<1>21. CASE \/ \E r \in Requests : RequestStep(r)
            \/ CleanerStep \/ CleanupFails
            \/ \E s \in Subs : DeleteSubscription(s)
            \/ \E r \in Requests : DeleteKey(r)
            \/ \E u \in Users : DeleteUser(u)
            \/ NextDay
            \/ UNCHANGED vars
  <2>1. UNCHANGED reader
    BY <1>21, Zenon DEF RequestStep, Serve, RecordRequest, RollBack, CleanerStep, Wake, ListExpired, DropTable,
              CleanupFails, DeleteSubscription, DeleteKey, DeleteUser, Delete, NextDay, vars, readerVars
  <2> QED BY <1>17, <2>1
<1> QED
  BY <1>10, <1>11, <1>12, <1>13, <1>14, <1>15, <1>16, <1>18, <1>19, <1>20, <1>21
     DEF Next, ReaderStep

(* The initial states satisfy it. *)
LEMMA InitCause == Init => CauseInv
<1> SUFFICES ASSUME Init PROVE CauseInv
  OBVIOUS
<1>1. \A d \in old : d = 1 /\ Upgraded
  BY OwnersAssumption, SMT DEF Init, Upgraded
<1>2. \A q \in Readers : reader[q].at = "idle" /\ reader[q].listed = {} /\ reader[q].todo = {}
  BY SMT DEF Init, NoRead
<1> QED
  BY <1>1, <1>2 DEF CauseInv, ReaderCause

(* A listing or report fails only over a table that expired while it ran, or
   over the columns of a table of an older version.                          *)
THEOREM FailuresExplained == Spec => []FailsForCause
<1>1. Init => Types /\ CleanupInv /\ CauseInv
  BY InitTyped, InitCleanup, InitCause
<1>2. (Types /\ CleanupInv /\ CauseInv) /\ [Next]_vars => (Types /\ CleanupInv /\ CauseInv)'
  BY TypeStep, CleanupStep, CauseStep
<1>3. CauseInv => FailsForCause
  BY DEF CauseInv, ReaderCause, Cause, FailsForCause
<1> QED
  BY <1>1, <1>2, <1>3, PTL DEF Spec

-----------------------------------------------------------------------------
(* What an answer must have lies, until the query, in the tables the reader
   has listed and is asked for.  Then it may be missing if it has expired, or
   if it is of the first second of a report's range; and a report has nothing
   else but entries of the first second after its range.                     *)
Due(q, e) ==
    /\ pc[e] = "logged"
    /\ DayOf(e) \in reader[q].listed
    /\ reader[q].kind \in Reports => Asked(e, reader[q].range)

Missing(q, e) ==
    \/ Expired(DayOf(e), today)
    \/ reader[q].kind \in Reports /\ OnEdge(e, reader[q].range[1])

Surplus(q, e) == ~Asked(e, reader[q].range) /\ ~OnEdge(e, reader[q].range[2] + 1)

ReaderAnswer(q) ==
    /\ reader[q].at \in {"names", "columns", "alter", "index", "page"} =>
          \A e \in must[q] : Due(q, e)
    /\ reader[q].at = "answered" =>
          /\ \A e \in must[q] : pc[e] = "logged" /\ (e \in reader[q].found \/ Missing(q, e))
          /\ \A e \in reader[q].found :
                pc[e] = "logged" /\ (reader[q].kind \in Reports => ~Surplus(q, e))
    /\ reader[q].at = "failed" => must[q] = {}

AnswerInv == \A q \in Readers : ReaderAnswer(q)

(* The order of the texts and the calendar: but for the first seconds of two
   days, the filter takes the entries of the days it is asked for.           *)
LEMMA CountedAsked ==
    ASSUME NEW e \in Requests, NEW range \in Ranges,
           start[e].day \in Days, start[e].moment \in Moments
    PROVE  /\ Asked(e, range) => Counted(e, range) \/ OnEdge(e, range[1])
           /\ Counted(e, range) => Asked(e, range) \/ OnEdge(e, range[2] + 1)
<1> DEFINE a == range[1]
           b == range[2]
           d == start[e].day
<1>1. a \in Nat /\ b \in Nat /\ d \in Nat /\ a <= b
  BY DEF Ranges, Days
<1>2. CASE start[e].moment = "later"
  <2>1. Counted(e, range) <=> 3 * a + 1 <= 3 * d + 2 /\ 3 * d + 2 < 3 * (b + 1) + 1 /\ start[e].known
    BY <1>2 DEF Counted, Text, Midnight
  <2>2. 3 * a + 1 <= 3 * d + 2 /\ 3 * d + 2 < 3 * (b + 1) + 1 <=> a <= d /\ d <= b
    BY <1>1, SMT
  <2> QED BY <1>1, <2>1, <2>2 DEF Asked, DayOf
<1>3. CASE start[e].moment = "first"
  <2>1. Counted(e, range) <=> 3 * a + 1 <= 3 * d + 0 /\ 3 * d + 0 < 3 * (b + 1) + 1 /\ start[e].known
    BY <1>3 DEF Counted, Text, Midnight
  <2>2. 3 * a + 1 <= 3 * d + 0 /\ 3 * d + 0 < 3 * (b + 1) + 1 <=> a < d /\ d <= b + 1
    BY <1>1, SMT
  <2> QED BY <1>1, <1>3, <2>1, <2>2 DEF Asked, OnEdge, DayOf
<1> QED BY <1>2, <1>3 DEF Moments

(* What is due stays so while the reader only moves on. *)
LEMMA DueStays ==
    ASSUME Types, Steady, NEW q \in Readers, NEW e \in Requests, Due(q, e),
           reader'[q].listed = reader[q].listed, reader'[q].kind = reader[q].kind,
           reader'[q].range = reader[q].range
    PROVE  Due(q, e)'
BY DEF Due, Steady, Asked, DayOf

(* Steps preserve AnswerInv. *)
LEMMA AnswerStep == Types /\ CleanupInv /\ AnswerInv /\ [Next]_vars => AnswerInv'
<1> SUFFICES ASSUME Types, CleanupInv, AnswerInv, [Next]_vars, NEW q \in Readers
             PROVE  ReaderAnswer(q)'
  BY DEF AnswerInv
<1>0. Steady
  BY StepSteady
<1>1. ReaderAnswer(q) /\ reader \in [Readers -> ReaderStates] /\ reader[q] \in ReaderStates
      /\ must \in [Readers -> SUBSET Requests] /\ must[q] \subseteq Requests
  BY DEF AnswerInv, Types, TypeOK
<1>2. \A e \in Requests : Expired(DayOf(e), today) => Expired(DayOf(e), today')
  <2>1. \A e \in Requests : DayOf(e) \in Nat
    BY DEF Types, TypeOK, DayOf, Days
  <2> QED
    BY <1>0, <2>1, ExpiredStays DEF Steady
<1>3. ASSUME reader'[q] = reader[q], must'[q] = must[q] PROVE ReaderAnswer(q)'
  <2>1. \A e \in must[q] : Due(q, e) => Due(q, e)'
    BY <1>0, <1>1, <1>3, DueStays
  <2>2. \A e \in Requests : pc[e] = "logged" => pc'[e] = "logged" /\ start'[e] = start[e]
    BY <1>0 DEF Steady
  <2>3. \A e \in Requests : pc[e] = "logged" /\ Missing(q, e) => Missing(q, e)'
    BY <1>2, <1>3, <2>2 DEF Missing, OnEdge, DayOf, Expired
  <2>4. \A e \in Requests : pc[e] = "logged" /\ ~Surplus(q, e) => ~Surplus(q, e)'
    BY <1>3, <2>2 DEF Surplus, Asked, OnEdge, DayOf
  <2>5. reader[q].found \subseteq Requests
    BY <1>1 DEF ReaderStates
  <2> QED
    BY <1>1, <1>3, <2>1, <2>2, <2>3, <2>4, <2>5 DEF ReaderAnswer
<1>4. ASSUME Fail(q) PROVE ReaderAnswer(q)'
  <2>1. reader'[q].at = "failed" /\ must'[q] = {}
    BY <1>1, <1>4, SMT DEF Fail, NoRead
  <2> QED BY <2>1 DEF ReaderAnswer
<1>5. ASSUME reader'[q].listed = reader[q].listed, reader'[q].kind = reader[q].kind,
             reader'[q].range = reader[q].range, must'[q] = must[q],
             reader[q].at \in {"names", "columns", "alter", "index", "page"},
             reader'[q].at \notin {"answered", "failed"}
      PROVE  ReaderAnswer(q)'
  <2>1. \A e \in must[q] : Due(q, e)'
    BY <1>0, <1>1, <1>5, DueStays DEF ReaderAnswer
  <2> QED
    BY <1>5, <2>1 DEF ReaderAnswer
<1>10. ASSUME NEW range \in Ranges, NEW kind \in Kinds, ListTables(q, kind, range)
       PROVE  ReaderAnswer(q)'
  <2> DEFINE days == CASE kind = "list" -> tables
                       [] kind = "get" -> tables \intersect {range[1]}
                       [] OTHER -> TablesInRange(range)
             at == IF kind \in {"list", "get"} THEN "columns" ELSE "names"
             due == {e \in entries : CASE kind = "list" -> TRUE
                                      [] kind = "get" -> DayOf(e) = range[1]
                                      [] OTHER -> Asked(e, range)}
  <2>1. reader' = [reader EXCEPT ![q] =
            [NoRead EXCEPT !.at = at, !.kind = kind, !.range = range, !.listed = days, !.todo = days]]
    BY <1>10, Zenon DEF ListTables
  <2>2. must'[q] = due
    BY <1>1, <1>10, Zenon DEF ListTables
  <2>3. /\ reader'[q].listed = days /\ reader'[q].at = at
        /\ reader'[q].kind = kind /\ reader'[q].range = range
    <3> HIDE DEF days, at
    <3> QED BY <1>1, <2>1, SMT DEF NoRead
  <2>4. \A e \in due : pc[e] = "logged" /\ DayOf(e) \in tables /\ e \in Requests
    BY DEF Types, TypeOK
  <2>5. \A e \in due : DayOf(e) \in days /\ (kind \in Reports => Asked(e, range))
    <3> SUFFICES ASSUME NEW e \in due PROVE DayOf(e) \in days /\ (kind \in Reports => Asked(e, range))
      OBVIOUS
    <3>1. CASE kind \in {"list", "get"}
      BY <2>4, <3>1, SMT DEF Reports
    <3>2. CASE kind \in Reports
      <4>1. Asked(e, range) /\ days = TablesInRange(range)
        BY <3>2, Zenon DEF Reports
      <4>2. range[1] \in Nat /\ range[2] \in Nat /\ DayOf(e) \in tables
        BY <2>4 DEF Ranges, Days
      <4> QED
        BY <4>1, <4>2, SMT DEF Asked, TablesInRange
    <3> QED
      BY <3>1, <3>2 DEF Kinds, Reports
  <2>6. UNCHANGED <<pc, start>>
    BY <1>10 DEF ListTables, requestVars
  <2>7. \A e \in must'[q] : Due(q, e)'
    <3> HIDE DEF due, days
    <3> QED BY <2>2, <2>3, <2>4, <2>5, <2>6 DEF Due, Asked, DayOf
  <2>8. reader'[q].at \in {"columns", "names"}
    BY <2>3
  <2> QED
    BY <2>7, <2>8 DEF ReaderAnswer
<1>11. CASE ListNames(q)
  <2>1. /\ reader'[q].listed = reader[q].listed /\ reader'[q].kind = reader[q].kind
        /\ reader'[q].range = reader[q].range /\ reader'[q].at = "columns" /\ reader[q].at = "names"
    BY <1>1, <1>11, SMT DEF ListNames, ReaderStates
  <2> QED BY <1>5, <1>11, <2>1 DEF ListNames
<1>12. CASE ReadColumns(q)
  <2>1. PICK d \in reader[q].todo :
            reader' = [reader EXCEPT ![q].table = d,
                          ![q].at = IF d \in old \/ d \notin tables THEN "alter" ELSE "index"]
    BY <1>12 DEF ReadColumns
  <2>2. /\ reader'[q].listed = reader[q].listed /\ reader'[q].kind = reader[q].kind
        /\ reader'[q].range = reader[q].range /\ reader'[q].at \in {"alter", "index"}
    BY <1>1, <2>1, SMT DEF ReaderStates
  <2> QED BY <1>5, <1>12, <2>2 DEF ReadColumns
<1>13. CASE AddColumns(q)
  <2>1. CASE reader[q].table \in old
    <3>1. /\ reader'[q].listed = reader[q].listed /\ reader'[q].kind = reader[q].kind
          /\ reader'[q].range = reader[q].range /\ reader'[q].at = "index"
      BY <1>1, <1>13, <2>1, SMT DEF AddColumns, Go, ReaderStates
    <3> QED BY <1>5, <1>13, <2>1, <3>1 DEF AddColumns
  <2> QED BY <1>4, <1>13, <2>1 DEF AddColumns
<1>14. CASE CreateIndex(q)
  <2>1. CASE reader[q].table \in tables
    <3>1. /\ reader'[q].listed = reader[q].listed /\ reader'[q].kind = reader[q].kind
          /\ reader'[q].range = reader[q].range /\ reader'[q].at = "columns"
      BY <1>1, <1>14, <2>1, SMT DEF CreateIndex, ReaderStates
    <3> QED BY <1>5, <1>14, <2>1, <3>1 DEF CreateIndex
  <2> QED BY <1>4, <1>14, <2>1 DEF CreateIndex
<1>15. CASE CountEntries(q)
  <2>1. CASE reader[q].listed \subseteq tables
    <3>1. /\ reader'[q].listed = reader[q].listed /\ reader'[q].kind = reader[q].kind
          /\ reader'[q].range = reader[q].range /\ reader'[q].at = "page" /\ reader[q].kind = "list"
          /\ must'[q] = must[q] \union Matching(q, entries)
      BY <1>1, <1>15, <2>1, SMT DEF CountEntries, Go, ReaderStates
    <3>2. \A e \in Matching(q, entries) : e \in Requests /\ Due(q, e)
      BY <3>1 DEF Matching, Due, Reports, Types, TypeOK
    <3>3. \A e \in must[q] : Due(q, e)
      BY <1>1, <1>15 DEF ReaderAnswer, CountEntries
    <3>4. \A e \in must'[q] : Due(q, e)'
      BY <1>0, <1>1, <3>1, <3>2, <3>3, DueStays
    <3> QED BY <3>1, <3>4 DEF ReaderAnswer
  <2> QED BY <1>4, <1>15, <2>1 DEF CountEntries
<1>16. CASE Query(q)
  <2>1. CASE reader[q].listed \subseteq tables
    <3>1. PICK lines : reader' = [reader EXCEPT ![q].at = "answered", ![q].names = {},
                                      ![q].found = Matching(q, entries), ![q].lines = lines]
      BY <1>16, <2>1, Zenon DEF Query
    <3>0. /\ reader[q].range \in Ranges
          /\ \A e \in Requests : Asked(e, reader[q].range) =>
                Counted(e, reader[q].range) \/ OnEdge(e, reader[q].range[1])
          /\ \A e \in Requests : Counted(e, reader[q].range) =>
                Asked(e, reader[q].range) \/ OnEdge(e, reader[q].range[2] + 1)
      <4>1. \A e \in Requests : start[e].day \in Days /\ start[e].moment \in Moments
        BY DEF Types, TypeOK
      <4> QED BY <1>1, <4>1, CountedAsked DEF ReaderStates
    <3>2. /\ reader'[q].at = "answered" /\ reader'[q].found = Matching(q, entries)
          /\ reader'[q].kind = reader[q].kind /\ reader'[q].range = reader[q].range
      BY <1>1, <3>1, SMT DEF ReaderStates
    <3>3. must' = must /\ UNCHANGED <<pc, start, today>>
      BY <1>16, <2>1 DEF Query, requestVars
    <3>4. \A e \in must[q] : Due(q, e)
      BY <1>1, <1>16 DEF ReaderAnswer, Query
    <3>5. \A e \in must[q] : e \in Matching(q, entries) \/ Missing(q, e)
      BY <1>1, <3>0, <3>4 DEF Due, Matching, Missing, CleanupInv, RetainedKept
    <3>6. \A e \in Matching(q, entries) : pc[e] = "logged" /\ (reader[q].kind \in Reports => ~Surplus(q, e))
      BY <3>0 DEF Matching, Surplus, Types, TypeOK
    <3>7. /\ \A e \in Requests : Missing(q, e) <=> Missing(q, e)'
          /\ \A e \in Requests : Surplus(q, e) <=> Surplus(q, e)'
      BY <3>2, <3>3, Zenon DEF Missing, Surplus, Asked, OnEdge, DayOf, Expired
    <3>8. Matching(q, entries) \subseteq Requests
      BY DEF Matching, Types, TypeOK
    <3> QED BY <1>1, <3>2, <3>3, <3>4, <3>5, <3>6, <3>7, <3>8 DEF ReaderAnswer, Due
  <2> QED BY <1>4, <1>16, <2>1 DEF Query
<1>17. ASSUME NEW p \in Readers \ {q}, ReaderStep(p) PROVE ReaderAnswer(q)'
  BY <1>3, <1>17, OthersStay
<1>18. ASSUME NEW p \in Readers \ {q}, NEW range \in Ranges, NEW kind \in Kinds, ListTables(p, kind, range)
       PROVE  ReaderAnswer(q)'
  <2>1. reader'[q] = reader[q] /\ must'[q] = must[q]
    BY <1>1, <1>18, Zenon DEF ListTables
  <2> QED BY <1>3, <2>1
<1>19. CASE Restart
  <2>1. CASE reader'[q] = reader[q]
    BY <1>3, <1>19, <2>1 DEF Restart
  <2>2. CASE reader'[q] = [NoRead EXCEPT !.at = "gone"]
    <3>1. reader'[q].at = "gone"
      BY <2>2, SMT DEF NoRead
    <3> QED BY <3>1 DEF ReaderAnswer
  <2> QED BY <1>19, <2>1, <2>2 DEF Restart
<1>20. CASE \/ \E r \in Requests : RequestStep(r)
            \/ CleanerStep \/ CleanupFails
            \/ \E s \in Subs : DeleteSubscription(s)
            \/ \E r \in Requests : DeleteKey(r)
            \/ \E u \in Users : DeleteUser(u)
            \/ NextDay
            \/ UNCHANGED vars
  <2>1. UNCHANGED <<reader, must>>
    BY <1>20, Zenon DEF RequestStep, Serve, RecordRequest, RollBack, CleanerStep, Wake, ListExpired, DropTable,
              CleanupFails, DeleteSubscription, DeleteKey, DeleteUser, Delete, NextDay, vars, readerVars
  <2> QED BY <1>3, <2>1
<1> QED
  BY <1>10, <1>11, <1>12, <1>13, <1>14, <1>15, <1>16, <1>17, <1>18, <1>19, <1>20
     DEF Next, ReaderStep

(* The initial states satisfy it: no reader has begun. *)
LEMMA InitAnswer == Init => AnswerInv
<1> SUFFICES ASSUME Init PROVE AnswerInv
  OBVIOUS
<1>1. \A q \in Readers : reader[q].at = "idle"
  BY SMT DEF Init, NoRead
<1> QED
  BY <1>1 DEF AnswerInv, ReaderAnswer

(* Every listing, lookup and report that answers has all the entries of what
   it is asked for that were there when it began and are still retained, and a
   report has no others, but for the first second of "from" and of the day
   after "to".                                                               *)
THEOREM NothingLeftOut == Spec => []AnswersComplete
<1>1. Init => Types /\ CleanupInv /\ AnswerInv
  BY InitTyped, InitCleanup, InitAnswer
<1>2. (Types /\ CleanupInv /\ AnswerInv) /\ [Next]_vars => (Types /\ CleanupInv /\ AnswerInv)'
  BY TypeStep, CleanupStep, AnswerStep
<1>3. AnswerInv => AnswersComplete
  BY DEF AnswerInv, ReaderAnswer, AnswersComplete, Missing, Surplus
<1> QED
  BY <1>1, <1>2, <1>3, PTL DEF Spec

-----------------------------------------------------------------------------
(* The sum a report is checked with is a fold, a recursive function over the
   subsets of its lines: Follows is the equation that defines it.            *)
Pick(s) == CHOOSE x \in s : TRUE
Follows(h, s) == IF s = {} THEN 0 ELSE Pick(s)[2] + h[s \ {Pick(s)}]
Sums(h, S) == h = [s \in SUBSET S |-> Follows(h, s)]

(* The sum is the value of a function that satisfies the equation. *)
LEMMA TotalChosen == ASSUME NEW S PROVE Total(S) = (CHOOSE h : Sums(h, S))[S]
<1>1. Total(S) = (CHOOSE h : h = [s \in SUBSET S |-> IF s = {} THEN 0 ELSE LET x == CHOOSE x \in s : TRUE IN x[2] + h[s \ {x}]])[S]
  BY DEF Total, MapThenSumSet, MapThenFoldSet
<1> QED BY <1>1 DEF Sums, Follows, Pick

(* Every set of naturals that is not empty has a least element: induction in
   the form of a least counterexample.                                       *)
LEMMA Least == ASSUME NEW T \in SUBSET Nat, T # {} PROVE \E n \in T : \A m \in T : n <= m
<1> DEFINE Less == {ss \in Nat \X Nat : ss[1] < ss[2]}
<1>1. IsWellFoundedOn(Less, Nat)
  BY NatLessThanWellFounded DEF OpToRel
<1>2. PICK x \in T : \A y \in T : ~(<<y, x>> \in Less)
  <2> HIDE DEF Less
  <2> QED BY <1>1, WFMin
<1>3. \A y \in T : ~(y < x)
  BY <1>2
<1> QED BY <1>3

(* There is such a function for every finite set of lines, built up by the
   size of the subsets.                                                      *)
LEMMA SumsExist ==
    ASSUME NEW S, IsFiniteSet(S), \A x \in S : x[2] \in Nat
    PROVE  \E h : Sums(h, S)
<1> DEFINE Upto(h, n) == \A s \in SUBSET S : Cardinality(s) <= n => h[s] = Follows(h, s)
           Short == {n \in Nat : ~ \E h \in [SUBSET S -> Nat] : Upto(h, n)}
<1>1. \A s \in SUBSET S : IsFiniteSet(s) /\ Cardinality(s) \in Nat
  BY FS_Subset, FS_CardinalityType
<1>2. \A s \in SUBSET S : s # {} =>
         /\ Pick(s) \in s /\ s \ {Pick(s)} \in SUBSET S
         /\ Cardinality(s) \in Nat \ {0}
         /\ Cardinality(s \ {Pick(s)}) = Cardinality(s) - 1
  <2> SUFFICES ASSUME NEW s \in SUBSET S, s # {}
               PROVE  /\ Pick(s) \in s /\ s \ {Pick(s)} \in SUBSET S
                      /\ Cardinality(s) \in Nat \ {0}
                      /\ Cardinality(s \ {Pick(s)}) = Cardinality(s) - 1
    OBVIOUS
  <2>1. Pick(s) \in s
    BY DEF Pick
  <2>2. Cardinality(s \ {Pick(s)}) = Cardinality(s) - 1
    BY <1>1, <2>1, FS_RemoveElement
  <2>3. Cardinality(s) # 0
    BY <1>1, FS_EmptySet
  <2> QED BY <1>1, <2>1, <2>2, <2>3
<1>3. Cardinality({}) = 0
  BY FS_EmptySet
<1>4. ASSUME NEW g \in [SUBSET S -> Nat], NEW s \in SUBSET S
      PROVE  Follows(g, s) \in Nat
  BY <1>2 DEF Follows
<1>5. Short = {}
  <2>1. SUFFICES ASSUME Short # {} PROVE FALSE
    OBVIOUS
  <2>2. PICK n \in Short : \A m \in Short : n <= m
    <3> HIDE DEF Short
    <3>1. Short \in SUBSET Nat
      BY DEF Short
    <3> QED BY <2>1, <3>1, Least
  <2>3. CASE n = 0
    <3> DEFINE h == [s \in SUBSET S |-> 0]
    <3>1. h \in [SUBSET S -> Nat]
      OBVIOUS
    <3>2. ASSUME NEW s \in SUBSET S, Cardinality(s) <= 0 PROVE h[s] = Follows(h, s)
      <4>1. ~(Cardinality(s) \in Nat \ {0})
        BY <3>2
      <4>2. s = {}
        <5> HIDE DEF h, Upto
        <5> QED BY <1>2, <4>1
      <4> QED BY <4>2 DEF Follows
    <3>3. Upto(h, 0)
      BY <3>2
    <3> HIDE DEF h, Upto
    <3> QED BY <2>2, <2>3, <3>1, <3>3
  <2>4. CASE n # 0
    <3>1. n \in Nat /\ n - 1 \in Nat /\ n - 1 \notin Short
      <4>1. n \in Nat /\ n - 1 \in Nat /\ ~(n <= n - 1)
        BY <2>2, <2>4
      <4> HIDE DEF Short
      <4> QED BY <2>2, <4>1
    <3>2. PICK g \in [SUBSET S -> Nat] : Upto(g, n - 1)
      BY <3>1
    <3> DEFINE h == [s \in SUBSET S |-> IF Cardinality(s) <= n - 1 THEN g[s] ELSE Follows(g, s)]
    <3>3. h \in [SUBSET S -> Nat]
      BY <1>4
    <3>4. ASSUME NEW s \in SUBSET S, Cardinality(s) <= n PROVE h[s] = Follows(h, s)
      <4>1. h[s] = Follows(g, s)
        BY <3>2
      <4>2. CASE s = {}
        BY <4>1, <4>2 DEF Follows
      <4>3. CASE s # {}
        <5>1. s \ {Pick(s)} \in SUBSET S /\ Cardinality(s \ {Pick(s)}) <= n - 1
          BY <1>1, <1>2, <3>1, <3>4, <4>3
        <5>2. h[s \ {Pick(s)}] = g[s \ {Pick(s)}]
          BY <5>1
        <5> HIDE DEF h
        <5> QED BY <4>1, <4>3, <5>2 DEF Follows
      <4> QED BY <4>2, <4>3
    <3>5. Upto(h, n)
      BY <3>4
    <3> HIDE DEF h, Upto
    <3> QED BY <2>2, <3>3, <3>5
  <2> QED BY <2>3, <2>4
<1>6. PICK h \in [SUBSET S -> Nat] : Upto(h, Cardinality(S))
  BY <1>1, <1>5
<1>7. \A s \in SUBSET S : h[s] = Follows(h, s)
  BY <1>6, FS_Subset
<1>8. h = [s \in SUBSET S |-> h[s]]
  OBVIOUS
<1> QED BY <1>7, <1>8 DEF Sums

(* A line for every x in X, with the number of those found that belong to it:
   the sum is the number of all that were found, by the size of the subsets
   of lines, as no two lines share one.                                      *)
LEMMA LinesAddUp ==
    ASSUME NEW found, IsFiniteSet(found), NEW line, NEW X, IsFiniteSet(X),
           \A e \in found : line[e] \in X
    PROVE  Total({<<x, Cardinality({e \in found : line[e] = x})>> : x \in X})
              = Cardinality(found)
<1> DEFINE Of(x) == {e \in found : line[e] = x}
           L == {<<x, Cardinality(Of(x))>> : x \in X}
           In(s) == {e \in found : \E l \in s : l[1] = line[e]}
<1>1. \A x : IsFiniteSet(Of(x)) /\ Cardinality(Of(x)) \in Nat
  BY FS_Subset, FS_CardinalityType
<1>2. IsFiniteSet(L)
  <2> DEFINE f == [x \in X |-> <<x, Cardinality(Of(x))>>]
  <2>1. f \in Surjection(X, L)
    BY DEF Surjection
  <2> HIDE DEF f, L
  <2> QED BY <2>1, FS_Surjection
<1>3. \A l \in L : l[1] \in X /\ l[2] = Cardinality(Of(l[1])) /\ l = <<l[1], l[2]>>
  <2>1. ASSUME NEW x \in X, NEW l, l = <<x, Cardinality(Of(x))>>
        PROVE  l[1] \in X /\ l[2] = Cardinality(Of(l[1])) /\ l = <<l[1], l[2]>>
    <3> HIDE DEF Of
    <3>1. l[1] = x
      BY <2>1
    <3> QED BY <2>1, <3>1
  <2> HIDE DEF Of
  <2> QED BY <2>1
<1>4. \A l \in L : l[2] \in Nat
  BY <1>1, <1>3
<1>5. PICK h : Sums(h, L)
  <2> HIDE DEF L
  <2> QED BY <1>2, <1>4, SumsExist
<1> DEFINE H == CHOOSE g : Sums(g, L)
<1>6. Sums(H, L)
  BY <1>5
<1>7. Total(L) = H[L]
  <2> HIDE DEF L
  <2> QED BY TotalChosen
<1> HIDE DEF H, L, Of
<1> DEFINE Odd == {n \in Nat : \E s \in SUBSET L : Cardinality(s) = n /\ H[s] # Cardinality(In(s))}
<1>8. \A s \in SUBSET L : IsFiniteSet(s) /\ Cardinality(s) \in Nat
  BY <1>2, FS_Subset, FS_CardinalityType
<1>9. \A s : IsFiniteSet(In(s)) /\ Cardinality(In(s)) \in Nat
  BY FS_Subset, FS_CardinalityType
<1>10. Odd = {}
  <2>1. SUFFICES ASSUME Odd # {} PROVE FALSE
    OBVIOUS
  <2>2. PICK n \in Odd : \A m \in Odd : n <= m
    <3> HIDE DEF Odd
    <3>1. Odd \in SUBSET Nat
      BY DEF Odd
    <3> QED BY <2>1, <3>1, Least
  <2>3. PICK s \in SUBSET L : Cardinality(s) = n /\ H[s] # Cardinality(In(s))
    BY <2>2
  <2>4. H[s] = Follows(H, s)
    BY <1>6 DEF Sums
  <2>5. CASE s = {}
    <3>1. In(s) = {}
      BY <2>5
    <3> QED BY <2>3, <2>4, <2>5, <3>1, FS_EmptySet DEF Follows
  <2>6. CASE s # {}
    <3> DEFINE p == Pick(s)
               t == s \ {p}
    <3>1. p \in s /\ p \in L /\ t \in SUBSET L
      BY <2>6 DEF Pick
    <3>2. Cardinality(t) \in Nat /\ Cardinality(t) < n
      <4>1. Cardinality(t) = Cardinality(s) - 1
        BY <1>8, <3>1, FS_RemoveElement
      <4> QED BY <1>8, <2>3, <3>1, <4>1
    <3>3. H[t] = Cardinality(In(t))
      <4>1. n \in Nat
        BY <2>2
      <4>2. Cardinality(t) \notin Odd
        <5>1. ~(n <= Cardinality(t))
          BY <3>2, <4>1
        <5> HIDE DEF Odd
        <5> QED BY <2>2, <5>1
      <4> HIDE DEF t, In
      <4> QED BY <3>1, <3>2, <4>1, <4>2
    <3>4. H[s] = Cardinality(Of(p[1])) + Cardinality(In(t))
      BY <1>3, <2>4, <2>6, <3>1, <3>3 DEF Follows
    <3>5. In(s) = Of(p[1]) \union In(t)
      BY <3>1 DEF Of
    <3>6. Of(p[1]) \intersect In(t) = {}
      <4>1. SUFFICES ASSUME NEW e \in Of(p[1]), e \in In(t) PROVE FALSE
        OBVIOUS
      <4>2. PICK l \in t : l[1] = line[e]
        BY <4>1
      <4>3. l[1] = p[1]
        BY <4>1, <4>2 DEF Of
      <4>4. l = p
        BY <1>3, <3>1, <4>3
      <4> QED BY <4>4
    <3>7. Cardinality(In(s)) = Cardinality(Of(p[1])) + Cardinality(In(t))
      <4>1. Cardinality(Of(p[1])) \in Nat /\ Cardinality(In(t)) \in Nat
        BY <1>1, <1>9
      <4>2. IsFiniteSet(Of(p[1])) /\ IsFiniteSet(In(t))
        BY <1>1, <1>9
      <4> HIDE DEF In, t, p
      <4> QED BY <3>5, <3>6, <4>1, <4>2, FS_Union, FS_EmptySet
    <3> QED BY <2>3, <3>4, <3>7
  <2> QED BY <2>5, <2>6
<1>11. In(L) = found
  <2>1. ASSUME NEW e \in found PROVE \E l \in L : l[1] = line[e]
    <3> DEFINE l == <<line[e], Cardinality(Of(line[e]))>>
    <3>1. l \in L /\ l[1] = line[e]
      BY <2>1 DEF L
    <3> HIDE DEF l
    <3> QED BY <3>1
  <2> QED BY <2>1
<1>12. H[L] = Cardinality(In(L))
  BY <1>8, <1>10
<1> QED BY <1>7, <1>11, <1>12 DEF L, Of

-----------------------------------------------------------------------------
(* The lines of a report that has been answered add up. *)
AddsUp(q) ==
    reader[q].at = "answered" /\ reader[q].kind \in Reports =>
        Total(reader[q].lines) = Cardinality(reader[q].found)

(* The answer of a report has a line for each subscription or user it listed
   and for each an entry belongs to, so that every entry has its line.       *)
LEMMA QueryAddsUp ==
    ASSUME Types, NEW q \in Readers, Query(q), reader[q].listed \subseteq tables
    PROVE  AddsUp(q)'
<1> DEFINE found == Matching(q, entries)
           X == reader[q].names \union {Line(q, e) : e \in found}
           lines == {<<x, Cardinality({e \in found : Line(q, e) = x})>> : x \in X}
           line == [e \in found |-> Line(q, e)]
<1>1. reader' = [reader EXCEPT ![q].at = "answered", ![q].names = {},
                               ![q].found = found, ![q].lines = lines]
  BY Zenon DEF Query
<1>2. found \in SUBSET Requests
  BY DEF Types, TypeOK, Matching
<1>3. IsFiniteSet(found)
  BY <1>2, FS_Subset, FiniteAssumption
<1>4. IsFiniteSet(X)
  <2>1. reader[q].names \in SUBSET (Subs \union Users)
    BY DEF Types, TypeOK, ReaderStates
  <2>2. IsFiniteSet(reader[q].names)
    <3>1. IsFiniteSet(Subs \union Users)
      BY FiniteAssumption, FS_Union
    <3> QED BY <2>1, <3>1, FS_Subset
  <2> DEFINE keyed == {Line(q, e) : e \in found}
  <2>3. IsFiniteSet(keyed)
    <3>1. line \in Surjection(found, keyed)
      BY DEF Surjection
    <3> HIDE DEF line, keyed, found
    <3> QED BY <1>3, <3>1, FS_Surjection
  <2> HIDE DEF keyed
  <2>4. IsFiniteSet(reader[q].names \union keyed)
    BY <2>2, <2>3, FS_Union
  <2> QED BY <2>4 DEF keyed
<1>5. Total({<<x, Cardinality({e \in found : line[e] = x})>> : x \in X}) = Cardinality(found)
  <2>1. \A e \in found : line[e] \in X
    OBVIOUS
  <2> HIDE DEF line, X, found
  <2> QED BY <1>3, <1>4, <2>1, LinesAddUp
<1>6. {<<x, Cardinality({e \in found : line[e] = x})>> : x \in X} = lines
  <2>1. \A x : {e \in found : line[e] = x} = {e \in found : Line(q, e) = x}
    OBVIOUS
  <2> HIDE DEF X, found, line
  <2> QED BY <2>1
<1>7. reader'[q].lines = lines /\ reader'[q].found = found
  <2> HIDE DEF lines, found
  <2> QED BY <1>1, SMT DEF Types, TypeOK, ReaderStates
<1> HIDE DEF lines, found, line
<1> QED BY <1>5, <1>6, <1>7 DEF AddsUp

LEMMA AddUpStep == Types /\ ReportsAddUp /\ [Next]_vars => ReportsAddUp'
<1> SUFFICES ASSUME Types, ReportsAddUp, [Next]_vars, NEW q \in Readers PROVE AddsUp(q)'
  BY DEF ReportsAddUp, AddsUp
<1>1. AddsUp(q) /\ reader \in [Readers -> ReaderStates]
  BY DEF ReportsAddUp, AddsUp, Types, TypeOK
<1>2. ASSUME reader'[q] = reader[q] PROVE AddsUp(q)'
  BY <1>1, <1>2 DEF AddsUp
<1>3. ASSUME reader'[q].at # "answered" PROVE AddsUp(q)'
  BY <1>3 DEF AddsUp
<1>4. ASSUME Fail(q) PROVE AddsUp(q)'
  <2>1. reader'[q].at = "failed"
    BY <1>1, <1>4, SMT DEF Fail, NoRead
  <2> QED BY <1>3, <2>1
<1>5. ASSUME NEW range \in Ranges, NEW kind \in Kinds, ListTables(q, kind, range)
      PROVE  AddsUp(q)'
  <2> DEFINE at == IF kind \in {"list", "get"} THEN "columns" ELSE "names"
  <2>1. PICK days : reader' = [reader EXCEPT ![q] =
            [NoRead EXCEPT !.at = at, !.kind = kind, !.range = range, !.listed = days, !.todo = days]]
    BY <1>5, Zenon DEF ListTables
  <2>2. reader'[q].at = at
    <3> HIDE DEF at
    <3> QED BY <1>1, <2>1, SMT DEF NoRead
  <2> QED BY <1>3, <2>2
<1>6. CASE ListNames(q)
  <2>1. reader'[q].at = "columns"
    BY <1>1, <1>6, SMT DEF ListNames, ReaderStates
  <2> QED BY <1>3, <2>1
<1>7. CASE ReadColumns(q)
  <2>1. PICK d \in reader[q].todo :
            reader' = [reader EXCEPT ![q].table = d,
                          ![q].at = IF d \in old \/ d \notin tables THEN "alter" ELSE "index"]
    BY <1>7 DEF ReadColumns
  <2>2. reader'[q].at \in {"alter", "index"}
    BY <1>1, <2>1, SMT DEF ReaderStates
  <2> QED BY <1>3, <2>2
<1>8. CASE AddColumns(q)
  <2>1. ASSUME Go(q, "index") PROVE AddsUp(q)'
    <3>1. reader'[q].at = "index"
      BY <1>1, <2>1, SMT DEF Go, ReaderStates
    <3> QED BY <1>3, <3>1
  <2> QED BY <1>4, <1>8, <2>1 DEF AddColumns
<1>9. CASE CreateIndex(q)
  <2>1. CASE reader[q].table \in tables
    <3>1. reader'[q].at = "columns"
      BY <1>1, <1>9, <2>1, SMT DEF CreateIndex, ReaderStates
    <3> QED BY <1>3, <3>1
  <2> QED BY <1>4, <1>9, <2>1 DEF CreateIndex
<1>10. CASE CountEntries(q)
  <2>1. ASSUME Go(q, "page") PROVE AddsUp(q)'
    <3>1. reader'[q].at = "page"
      BY <1>1, <2>1, SMT DEF Go, ReaderStates
    <3> QED BY <1>3, <3>1
  <2> QED BY <1>4, <1>10, <2>1 DEF CountEntries
<1>11. CASE Query(q)
  <2>1. CASE ~(reader[q].listed \subseteq tables)
    BY <1>4, <1>11, <2>1 DEF Query
  <2> QED BY <1>11, <2>1, QueryAddsUp
<1>12. ASSUME NEW p \in Readers \ {q}, ReaderStep(p) PROVE AddsUp(q)'
  BY <1>2, <1>12, OthersStay
<1>13. ASSUME NEW p \in Readers \ {q}, NEW range \in Ranges, NEW kind \in Kinds, ListTables(p, kind, range)
       PROVE  AddsUp(q)'
  <2>1. reader'[q] = reader[q]
    BY <1>1, <1>13, Zenon DEF ListTables
  <2> QED BY <1>2, <2>1
<1>14. CASE Restart
  <2>1. CASE reader'[q] = [NoRead EXCEPT !.at = "gone"]
    <3>1. reader'[q].at = "gone"
      BY <2>1, SMT DEF NoRead
    <3> QED BY <1>3, <3>1
  <2> QED BY <1>2, <1>14, <2>1 DEF Restart
<1>15. CASE \/ \E r \in Requests : RequestStep(r)
            \/ CleanerStep \/ CleanupFails
            \/ \E s \in Subs : DeleteSubscription(s)
            \/ \E r \in Requests : DeleteKey(r)
            \/ \E u \in Users : DeleteUser(u)
            \/ NextDay
            \/ UNCHANGED vars
  <2>1. UNCHANGED reader
    BY <1>15, Zenon DEF RequestStep, Serve, RecordRequest, RollBack, CleanerStep, Wake, ListExpired, DropTable,
              CleanupFails, DeleteSubscription, DeleteKey, DeleteUser, Delete, NextDay, vars, readerVars
  <2> QED BY <1>2, <2>1
<1> QED
  BY <1>5, <1>6, <1>7, <1>8, <1>9, <1>10, <1>11, <1>12, <1>13, <1>14, <1>15
     DEF Next, ReaderStep

(* The lines of every usage report add up to its total, however many entries,
   subscriptions and users there are, and whichever of them are deleted
   before or while it is made.                                               *)
THEOREM ReportTotals == Spec => []ReportsAddUp
<1>1. Init => Types /\ ReportsAddUp
  <2> SUFFICES ASSUME Init PROVE ReportsAddUp
    BY InitTyped
  <2>1. \A q \in Readers : reader[q].at = "idle"
    BY SMT DEF Init, NoRead
  <2> QED BY <2>1 DEF ReportsAddUp
<1>2. (Types /\ ReportsAddUp) /\ [Next]_vars => (Types /\ ReportsAddUp)'
  BY TypeStep, AddUpStep
<1> QED
  BY <1>1, <1>2, PTL DEF Spec

=============================================================================
