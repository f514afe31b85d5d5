---------------------------- MODULE RequestLogs -----------------------------
(***************************************************************************)
(* The request logs (src/internal/repository/request_logs.go): one table   *)
(* per local day.  A request writes its entry when it ends, into the table *)
(* of the day it began; an hourly goroutine drops the tables older than    *)
(* the retention; listings and usage reports first collect table names,    *)
(* then add columns an older version did not have, then query: separate    *)
(* statements, between which the other three go on.                        *)
(*                                                                         *)
(* A table is its day, an entry its request.  Instants are compared by the *)
(* database as RFC3339Nano text, see Text.                                 *)
(***************************************************************************)
EXTENDS Naturals, FiniteSets, FiniteSetsExt

CONSTANTS
    Requests,     \* proxied requests, each logged at most once
    Readers,      \* goroutines that serve a listing or a report, each once
    Subs, Users,  \* ids of subscriptions and users that exist at first
    SubOf,        \* a request's subscription
    UserOf,       \* the user its key was issued to
    Legacy,       \* entries an older version wrote on day 1
    LastDay,      \* bound on the clock
    Retention,    \* RequestLogRetentionDays
    MaxFaults,    \* bound: failing statements and restarts of the process
    MaxDeletes    \* bound: subscriptions, users and keys deleted

ASSUME BoundsAssumption ==
    /\ LastDay \in Nat \ {0} /\ Retention \in Nat \ {0}
    /\ MaxFaults \in Nat /\ MaxDeletes \in Nat
ASSUME OwnersAssumption ==
    Legacy \in (SUBSET Requests) \ {{}} /\ SubOf \in [Requests -> Subs] /\ UserOf \in [Requests -> Users]

ASSUME FiniteAssumption == IsFiniteSet(Requests) /\ IsFiniteSet(Subs) /\ IsFiniteSet(Users)

Nobody == "nobody"
ASSUME NobodyAssumption == Nobody \notin Users

Days == 1..LastDay
Moments == {"first", "later"}   \* within a second of midnight, or not
Kinds == {"list", "get", "bySubscription", "byUser"}
Reports == {"bySubscription", "byUser"}
Ranges == {range \in Days \X Days : range[1] <= range[2]}   \* from, to


(* a listing has no range, a single entry a single day *)
RangeKinds(range) ==
    Reports \union (IF range[1] = range[2] THEN {"get"} ELSE {})
            \union (IF range = <<1, 1>> THEN {"list"} ELSE {})

VARIABLES
    today,       \* the local date
    tables,      \* days whose table exists
    old,         \* those that lack columns
    entries,     \* requests with an entry
    subs, users, keys, \* rows there are; a key is named by the request it serves
    pc,          \* of a request
    start,       \* when it began
    cleaner,     \* the cleanup goroutine: where it is, its date, what it drops
    reader,      \* where each reader is, and its locals
    must,        \* history: entries a reader's answer must have if they are kept
    faults, deletes

tableVars == <<tables, old, entries>>
rowVars == <<subs, users, keys>>
requestVars == <<pc, start>>
readerVars == <<reader, must>>
bounds == <<faults, deletes>>
vars == <<today, tableVars, rowVars, requestVars, cleaner, readerVars, bounds>>

DayOf(r) == start[r].day

(* Is day d before the oldest retained date on date t? *)
Expired(d, t) == d + Retention <= t

(* The order of the texts: "...00:00:00Z", a midnight, is after all
   "...00:00:00.<fraction>Z" of the second it begins, as '.' < 'Z'.          *)
Text(instant) == 3 * instant.day + (IF instant.moment = "first" THEN 0 ELSE 2)
Midnight(d) == 3 * d + 1

(* Mutant of TablesInRange: the day of since is left out. *)
TablesAfterSince(range) == {d \in tables : range[1] < d /\ d <= range[2] + 1}

(* requestLogTablesInRange, with until the midnight after range[2] *)
TablesInRange(range) == {d \in tables : range[1] <= d /\ d <= range[2] + 1}

(* started_at >= since AND started_at < until AND subscription_id IS NOT NULL *)
Counted(r, range) ==
    /\ Midnight(range[1]) <= Text(start[r])
    /\ Text(start[r]) < Midnight(range[2] + 1)
    /\ start[r].known

(* What a report is asked for: docs/api.md:658, the local calendar days from
   "from" to "to", both included.                                            *)
Asked(r, range) == DayOf(r) \in range[1]..range[2] /\ start[r].known

(* COALESCE(l.user_id, k.user_id) *)
Caller(r) == IF r \notin Legacy \/ r \in keys THEN UserOf[r] ELSE Nobody

-----------------------------------------------------------------------------
(* A request *)

(* The handler starts; with a key that is not valid it is answered 401 and
   logged without a subscription.                                            *)
Serve(r, moment) ==
    /\ pc[r] = "idle"
    /\ start' = [start EXCEPT ![r] = [day |-> today, moment |-> moment, known |-> r \in keys]]
    /\ pc' = [pc EXCEPT ![r] = "running"]
    /\ UNCHANGED <<today, tableVars, rowVars, cleaner, readerVars, bounds>>

(* RecordRequest: table, columns and entry in one transaction *)
RecordRequest(r) ==
    /\ pc[r] = "running"
    /\ tables' = tables \union {DayOf(r)}
    /\ old' = old \ {DayOf(r)}
    /\ entries' = entries \union {r}
    /\ pc' = [pc EXCEPT ![r] = "logged"]
    /\ UNCHANGED <<today, rowVars, start, cleaner, readerVars, bounds>>

(* It fails or runs into its five seconds, and is rolled back. *)
RollBack(r) ==
    /\ pc[r] = "running" /\ faults < MaxFaults
    /\ faults' = faults + 1
    /\ pc' = [pc EXCEPT ![r] = "lost"]
    /\ UNCHANGED <<today, tableVars, rowVars, start, cleaner, readerVars, deletes>>

-----------------------------------------------------------------------------
(* The cleanup goroutine *)

Asleep == [at |-> "asleep", date |-> 0, expired |-> {}]

(* the timer of the hour fires *)
Wake ==
    /\ cleaner.at = "asleep"
    /\ cleaner' = [at |-> "list", date |-> today, expired |-> {}]
    /\ UNCHANGED <<today, tableVars, rowVars, requestVars, readerVars, bounds>>

(* Mutant of ListExpired: the oldest retained day counts as expired. *)
ListOneMore ==
    /\ cleaner.at = "list"
    /\ cleaner' = [at |-> "drop", date |-> cleaner.date,
                   expired |-> {d \in tables : Expired(d, cleaner.date + 1)}]
    /\ UNCHANGED <<today, tableVars, rowVars, requestVars, readerVars, bounds>>

ListExpired ==
    /\ cleaner.at = "list"
    /\ cleaner' = [at |-> "drop", date |-> cleaner.date,
                   expired |-> {d \in tables : Expired(d, cleaner.date)}]
    /\ UNCHANGED <<today, tableVars, rowVars, requestVars, readerVars, bounds>>

(* one DROP TABLE, in the order of their names; then sleep again *)
DropTable ==
    /\ cleaner.at = "drop"
    /\ \/ /\ cleaner.expired = {}
          /\ cleaner' = Asleep
          /\ UNCHANGED tableVars
       \/ \E d \in cleaner.expired :
             /\ \A e \in cleaner.expired : d <= e
             /\ cleaner' = [cleaner EXCEPT !.expired = @ \ {d}]
             /\ tables' = tables \ {d}
             /\ old' = old \ {d}
             /\ entries' = {r \in entries : DayOf(r) # d}
    /\ UNCHANGED <<today, rowVars, requestVars, readerVars, bounds>>

(* Mutant of CleanupFails: the error ends the goroutine. *)
CleanupDies ==
    /\ cleaner.at \in {"list", "drop"} /\ faults < MaxFaults
    /\ faults' = faults + 1
    /\ cleaner' = [Asleep EXCEPT !.at = "dead"]
    /\ UNCHANGED <<today, tableVars, rowVars, requestVars, readerVars, deletes>>

(* An error is logged; what is left is for the next hour. *)
CleanupFails ==
    /\ cleaner.at \in {"list", "drop"} /\ faults < MaxFaults
    /\ faults' = faults + 1
    /\ cleaner' = Asleep
    /\ UNCHANGED <<today, tableVars, rowVars, requestVars, readerVars, deletes>>

-----------------------------------------------------------------------------
(* A reader *)

NoRead == [at |-> "idle", kind |-> "list", range |-> <<1, 1>>, listed |-> {},
           todo |-> {}, table |-> 0, names |-> {}, found |-> {}, lines |-> {}]

Go(q, to) == reader' = [reader EXCEPT ![q].at = to]
Fail(q) ==
    /\ reader' = [reader EXCEPT ![q] = [NoRead EXCEPT !.at = "failed", !.listed = reader[q].listed]]
    /\ must' = [must EXCEPT ![q] = {}]
    /\ UNCHANGED tableVars

(* the query itself, over the tables listed *)
Matching(q, of) ==
    LET r == reader[q] IN
    {e \in of : /\ DayOf(e) \in r.listed
                /\ r.kind \in Reports => Counted(e, r.range)}

(* requestLogTables, or TableExists of the one day of getRequestLog; what is
   there and in the range must be in the answer                              *)
ListTables(q, kind, range) ==
    /\ reader[q].at = "idle"
    /\ LET days == CASE kind = "list" -> tables
                     [] kind = "get" -> tables \intersect {range[1]}
                     [] OTHER -> TablesInRange(range)
       IN  reader' = [reader EXCEPT ![q] =
              [NoRead EXCEPT !.at = IF kind \in {"list", "get"} THEN "columns" ELSE "names",
                             !.kind = kind, !.range = range,
                             !.listed = days, !.todo = days]]
    /\ must' = [must EXCEPT ![q] =
          {e \in entries : CASE kind = "list" -> TRUE
                             [] kind = "get" -> DayOf(e) = range[1]
                             [] OTHER -> Asked(e, range)}]
    /\ UNCHANGED <<today, tableVars, rowVars, requestVars, cleaner, bounds>>

(* ListSubscriptions or ListUsers, whose rows get a line each *)
ListNames(q) ==
    /\ reader[q].at = "names"
    /\ reader' = [reader EXCEPT ![q].at = "columns",
          ![q].names = IF reader[q].kind = "byUser" THEN users ELSE subs]
    /\ UNCHANGED <<today, tableVars, rowVars, requestVars, cleaner, must, bounds>>

(* ensureRequestLogColumns of the next table, the newest first *)
ReadColumns(q) ==
    /\ reader[q].at = "columns"
    /\ \E d \in reader[q].todo :
          /\ \A e \in reader[q].todo : e <= d
          /\ reader' = [reader EXCEPT ![q].table = d,
                ![q].at = IF d \in old \/ d \notin tables THEN "alter" ELSE "index"]
    /\ UNCHANGED <<today, tableVars, rowVars, requestVars, cleaner, must, bounds>>

(* ALTER TABLE ... ADD COLUMN fails if the table is gone or someone else has
   added the column since.                                                   *)
AddColumns(q) ==
    /\ reader[q].at = "alter"
    /\ IF reader[q].table \in old
       THEN /\ Go(q, "index")
            /\ old' = old \ {reader[q].table}
            /\ UNCHANGED <<tables, entries, must>>
       ELSE Fail(q)
    /\ UNCHANGED <<today, rowVars, requestVars, cleaner, bounds>>

(* CREATE INDEX IF NOT EXISTS, which ends a table's turn *)
CreateIndex(q) ==
    /\ reader[q].at = "index"
    /\ IF reader[q].table \in tables
       THEN /\ reader' = [reader EXCEPT ![q].at = "columns", ![q].table = 0,
                                        ![q].todo = @ \ {reader[q].table}]
            /\ UNCHANGED <<tableVars, must>>
       ELSE Fail(q)
    /\ UNCHANGED <<today, rowVars, requestVars, cleaner, bounds>>

(* the total of a listing: the page that follows must cover it *)
CountEntries(q) ==
    /\ reader[q].at = "columns" /\ reader[q].todo = {}
    /\ reader[q].kind = "list"
    /\ IF reader[q].listed \subseteq tables
       THEN /\ Go(q, "page")
            /\ must' = [must EXCEPT ![q] = @ \union Matching(q, entries)]
            /\ UNCHANGED tableVars
       ELSE Fail(q)
    /\ UNCHANGED <<today, rowVars, requestVars, cleaner, bounds>>

(* the line an entry is summed up in *)
Line(q, e) == IF reader[q].kind = "byUser" THEN Caller(e) ELSE SubOf[e]

(* Mutant of Query: lines only for those that still exist. *)
QueryNoOrphans(q) ==
    /\ \/ reader[q].at = "page"
       \/ reader[q].at = "columns" /\ reader[q].todo = {} /\ reader[q].kind # "list"
    /\ IF reader[q].listed \subseteq tables
       THEN /\ LET found == Matching(q, entries) IN
               reader' = [reader EXCEPT ![q].at = "answered", ![q].names = {}, ![q].found = found,
                  ![q].lines = {<<x, Cardinality({e \in found : Line(q, e) = x})>> :
                                   x \in reader[q].names}]
            /\ UNCHANGED <<tableVars, must>>
       ELSE Fail(q)
    /\ UNCHANGED <<today, rowVars, requestVars, cleaner, bounds>>

(* The last SELECT: the page of a listing, one entry, or the sums of a report
   with lines also for those that exist no longer and for nobody.  (Lines of
   users without any usage are left out of the answer.)                      *)
Query(q) ==
    /\ \/ reader[q].at = "page"
       \/ reader[q].at = "columns" /\ reader[q].todo = {} /\ reader[q].kind # "list"
    /\ IF reader[q].listed \subseteq tables
       THEN /\ LET found == Matching(q, entries)
                   keyed == {Line(q, e) : e \in found}
               IN  reader' = [reader EXCEPT ![q].at = "answered", ![q].names = {}, ![q].found = found,
                      ![q].lines = {<<x, Cardinality({e \in found : Line(q, e) = x})>> :
                                       x \in reader[q].names \union keyed}]
            /\ UNCHANGED <<tableVars, must>>
       ELSE Fail(q)
    /\ UNCHANGED <<today, rowVars, requestVars, cleaner, bounds>>

-----------------------------------------------------------------------------
(* Administration, the clock and crashes *)

Delete ==
    /\ deletes < MaxDeletes
    /\ deletes' = deletes + 1
    /\ UNCHANGED <<today, tableVars, requestVars, cleaner, readerVars, faults>>

(* a subscription takes its keys with it, a user does not *)
DeleteSubscription(s) ==
    /\ s \in subs
    /\ subs' = subs \ {s}
    /\ keys' = {r \in keys : SubOf[r] # s}
    /\ Delete /\ UNCHANGED users

DeleteUser(u) ==
    /\ u \in users
    /\ users' = users \ {u}
    /\ Delete /\ UNCHANGED <<subs, keys>>

DeleteKey(r) ==
    /\ r \in keys
    /\ keys' = keys \ {r}
    /\ Delete /\ UNCHANGED <<subs, users>>

NextDay ==
    /\ today < LastDay
    /\ today' = today + 1
    /\ UNCHANGED <<tableVars, rowVars, requestVars, cleaner, readerVars, bounds>>

(* The process dies: entries of running requests are lost, readers get no
   answer, the cleanup starts anew.                                          *)
Restart ==
    /\ faults < MaxFaults
    /\ faults' = faults + 1
    /\ pc' = [r \in Requests |-> IF pc[r] = "running" THEN "lost" ELSE pc[r]]
    /\ cleaner' = Asleep
    /\ reader' = [q \in Readers |-> IF reader[q].at \in {"idle", "answered", "failed"}
                                    THEN reader[q] ELSE [NoRead EXCEPT !.at = "gone"]]
    /\ UNCHANGED <<today, tableVars, rowVars, start, must, deletes>>

(* a new database, or one whose last table an older version has written *)
Init ==
    /\ today = 1
    /\ tables \in {{}, {1}} /\ old \in SUBSET tables
    /\ entries = IF old = {} THEN {} ELSE Legacy
    /\ subs = Subs /\ users = Users /\ keys = Requests
    /\ pc = [r \in Requests |-> IF r \in entries THEN "logged"
                                ELSE IF r \in Legacy THEN "lost" ELSE "idle"]
    /\ start = [r \in Requests |-> [day |-> 1, moment |-> "later", known |-> TRUE]]
    /\ cleaner = Asleep
    /\ reader = [q \in Readers |-> NoRead]
    /\ must = [q \in Readers |-> {}]
    /\ faults = 0 /\ deletes = 0

RequestStep(r) ==
    \/ \E moment \in Moments : Serve(r, moment)
    \/ RecordRequest(r)
    \/ RollBack(r)

CleanerStep == Wake \/ ListExpired \/ DropTable

ReaderStep(q) ==
    \/ ListNames(q)
    \/ ReadColumns(q) \/ AddColumns(q) \/ CreateIndex(q)
    \/ CountEntries(q) \/ Query(q)

Next ==
    \/ \E r \in Requests : RequestStep(r)
    \/ CleanerStep \/ CleanupFails
    \/ \E q \in Readers, range \in Ranges, kind \in Kinds :
          kind \in RangeKinds(range) /\ ListTables(q, kind, range)
    \/ \E q \in Readers : ReaderStep(q)
    \/ \E s \in Subs : DeleteSubscription(s)
    \/ \E r \in Requests : DeleteKey(r)
    \/ \E u \in Users : DeleteUser(u)
    \/ NextDay \/ Restart

Spec == Init /\ [][Next]_vars

(* The cleanup goroutine runs: its timer fires and its statements return. *)
FairSpec == Spec /\ WF_vars(CleanerStep)

-----------------------------------------------------------------------------
ReaderStates ==
    [at : {"idle", "names", "columns", "alter", "index", "page", "answered", "failed", "gone"},
     kind : Kinds, range : Ranges, listed : SUBSET Days, todo : SUBSET Days,
     table : Days \union {0}, names : SUBSET (Subs \union Users),
     found : SUBSET Requests,
     lines : SUBSET ((Subs \union Users \union {Nobody}) \X (0..Cardinality(Requests)))]

(* Types; an entry lies in a table that exists, and a reader is at one of
   the tables it still has to look at.                                       *)
TypeOK ==
    /\ today \in Days
    /\ tables \subseteq Days /\ old \subseteq tables
    /\ entries \subseteq {r \in Requests : DayOf(r) \in tables}
    /\ subs \subseteq Subs /\ users \subseteq Users /\ keys \subseteq Requests
    /\ pc \in [Requests -> {"idle", "running", "logged", "lost"}]
    /\ start \in [Requests -> [day : Days, moment : Moments, known : BOOLEAN]]
    /\ cleaner \in [at : {"asleep", "list", "drop"}, date : 0..today, expired : SUBSET Days]
    /\ reader \in [Readers -> ReaderStates]
    /\ \A q \in Readers : reader[q].at \in {"alter", "index"} => reader[q].table \in reader[q].todo
    /\ must \in [Readers -> SUBSET Requests]
    /\ faults \in 0..MaxFaults /\ deletes \in 0..MaxDeletes

(* README.md:152: an entry that was logged is there for Retention days, the
   day it is of included, whatever the cleanup does across midnights.        *)
RetainedKept ==
    \A r \in Requests : pc[r] = "logged" => r \in entries \/ Expired(DayOf(r), today)

(* An entry of the second that day d begins with.  Its text sorts before that
   of the midnight it follows, so a report takes it for one of the day before. *)
OnEdge(e, d) == DayOf(e) = d /\ start[e].moment = "first" /\ start[e].known

(* A listing has every entry that was there when it began and is kept when it
   ends, and its page what its total has counted.  A report has every such entry
   of the days it is asked for and none of another day (docs/api.md:658), but
   for the first second of "from" and of the day after "to".                 *)
AnswersComplete ==
    \A q \in Readers : reader[q].at = "answered" =>
        LET r == reader[q] IN
        /\ \A e \in must[q] : \/ e \in r.found
                              \/ Expired(DayOf(e), today)
                              \/ r.kind \in Reports /\ OnEdge(e, r.range[1])
        /\ r.kind \in Reports =>
              \A e \in r.found : Asked(e, r.range) \/ OnEdge(e, r.range[2] + 1)

(* Was there a table of an older version, of day 1? *)
Upgraded == \E r \in Legacy : pc[r] = "logged"

(* A listing or report fails only for a table that has expired meanwhile, or
   while the table of an older version gets its columns from someone else.   *)
FailsForCause ==
    \A q \in Readers : reader[q].at = "failed" =>
        \E d \in reader[q].listed : Expired(d, today) \/ (Upgraded /\ d = 1)

(* the sum over the lines, each a name and its number of requests *)
Total(lines) == MapThenSumSet(LAMBDA line : line[2], lines)

(* The lines of a usage report add up to its totals, also for entries of
   subscriptions, users and keys deleted before or during the report.        *)
ReportsAddUp ==
    \A q \in Readers :
        reader[q].at = "answered" /\ reader[q].kind \in Reports =>
            Total(reader[q].lines) = Cardinality(reader[q].found)

(* README.md:152, the hourly check: an expired table goes, also one that a
   request that ends late creates anew, despite errors and restarts.         *)
ExpiredDropped == \A d \in Days : (d \in tables /\ Expired(d, today)) ~> d \notin tables

=============================================================================
