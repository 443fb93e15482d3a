------------------------------- MODULE Traffic -------------------------------
(***************************************************************************)
(* The road-restriction ingestion: three kinds of run share the tables     *)
(* restriction_zones, road_incidents and road_segments, and one            *)
(* transaction-scoped advisory lock of PostgreSQL.                         *)
(*                                                                         *)
(*  - a DATEX run (DatexTrafficConnector.execute) fetches a snapshot and   *)
(*    replaces the previous one;                                           *)
(*  - an eTraffic run (DgtEtrafficConnector.execute) does the same for its *)
(*    own source and takes every DATEX row down;                           *)
(*  - an enrichment run (enrich_pending_routes) redraws along the road the *)
(*    restrictions that only have their two end points.                    *)
(*                                                                         *)
(* A run is one database transaction: it works on work[p] and its commit   *)
(* installs it.  Between two steps of a run come the awaits of the code:   *)
(* HTTP calls to the feeds and to the road services, one record at a time. *)
(***************************************************************************)
EXTENDS Integers, FiniteSets

CONSTANTS
    Datex,        \* DATEX situation records (deduplication hashes)
    Etraffic,     \* eTraffic records (deduplication hashes)
    Matchable,    \* DATEX records with a road and two distinct end points
    Enrichable,   \* DATEX records with a road, announced by two points
    MaxLines,     \* most lines a matched road geometry has
    BatchLimit,   \* restrictions an enrichment run takes (10 in worker.py)
    DatexRuns,    \* concurrent DATEX runs: Celery task, manual endpoint
    EtrafficRuns, \* concurrent eTraffic runs
    EnrichRuns,   \* concurrent enrichment runs
    NoRun         \* nobody holds the advisory lock

Runs == DatexRuns \cup EtrafficRuns \cup EnrichRuns

ASSUME RecordsAssumption == Matchable \subseteq Datex /\ Enrichable \subseteq Datex
ASSUME MaxLinesAssumption == MaxLines \in Nat \ {0}
ASSUME BatchLimitAssumption == BatchLimit \in Nat \ {0}
ASSUME NoRunAssumption == NoRun \notin Runs
ASSUME RunKindsAssumption ==
    /\ DatexRuns \cap EtrafficRuns = {}
    /\ DatexRuns \cap EnrichRuns = {}
    /\ EtrafficRuns \cap EnrichRuns = {}
ASSUME SourcesAssumption == Datex \cap Etraffic = {}

VARIABLES
    tables,     \* committed rows
    lock,       \* run that holds the advisory lock
    pc,         \* where each run is
    work,       \* rows as the open transaction of each run sees them
    feed,       \* DATEX snapshot a run has fetched: validity per record
    listed,     \* eTraffic snapshot a run has fetched
    todo,       \* records a run has still to persist or redraw
    result,     \* how each run ended, "none" while it is under way
    published   \* observer: the last complete snapshots, as fetched

vars == <<tables, lock, pc, work, feed, listed, todo, result, published>>

(***************************************************************************)
(* Rows                                                                    *)
(***************************************************************************)

(* expires_at of a row: no row, NULL, a time to come, a time gone by.       *)
Validity == {"absent", "never", "future", "past"}

Shown(validity) == validity \in {"never", "future"}

Expired(validity) == IF validity = "absent" THEN "absent" ELSE "past"

(* lines = 0: the two DATEX end points ("nap_datex_coordinates").           *)
Zone == [expires : Validity, lines : 0..MaxLines]

(* matched: original_metadata carries a road-matching geometry_strategy.    *)
Incident == [expires : Validity, matched : BOOLEAN]

(* route: the geometry follows the road; matched: as in Incident.           *)
Segment == [expires : Validity, route : BOOLEAN, matched : BOOLEAN]

Tables == [zone : [Datex -> Zone],
           incident : [Datex -> Incident],
           segment : [Datex -> [1..MaxLines -> Segment]],
           etraffic : [Etraffic -> Validity]]

EmptyTables ==
    [zone |-> [d \in Datex |-> [expires |-> "absent", lines |-> 0]],
     incident |-> [d \in Datex |-> [expires |-> "absent", matched |-> FALSE]],
     segment |-> [d \in Datex |-> [i \in 1..MaxLines |->
                     [expires |-> "absent", route |-> FALSE, matched |-> FALSE]]],
     etraffic |-> [e \in Etraffic |-> "absent"]]

NoFeed == [d \in Datex |-> "absent"]

(* Records a run works through.                                             *)
Records(p) == IF p \in EtrafficRuns THEN Etraffic ELSE Datex

InTransaction(p) == pc[p] \in {"fetching", "persisting"}

TypeOK ==
    /\ tables \in Tables
    /\ lock \in Runs \cup {NoRun}
    /\ pc \in [Runs -> {"idle", "fetching", "persisting", "failing"}]
    /\ work \in [Runs -> Tables]
    /\ feed \in [Runs -> [Datex -> Validity]]
    /\ listed \in [Runs -> SUBSET Etraffic]
    /\ todo \in [Runs -> SUBSET (Datex \cup Etraffic)]
    /\ \A p \in Runs : todo[p] \subseteq Records(p)
    /\ result \in [Runs -> {"none", "completed", "failed", "skipped_locked", "lost"}]
    /\ published \in [datex : [Datex -> Validity], etraffic : SUBSET Etraffic]

Init ==
    /\ tables = EmptyTables
    /\ lock = NoRun
    /\ pc = [p \in Runs |-> "idle"]
    /\ work = [p \in Runs |-> EmptyTables]
    /\ feed = [p \in Runs |-> NoFeed]
    /\ listed = [p \in Runs |-> {}]
    /\ todo = [p \in Runs |-> {}]
    /\ result = [p \in Runs |-> "none"]
    /\ published = [datex |-> NoFeed, etraffic |-> {}]

(***************************************************************************)
(* What the statements of a run do to the rows                             *)
(***************************************************************************)

FaultExpireKeepsIncidents(db, snapshot) ==
    [db EXCEPT
       !.zone = [d \in Datex |->
           IF snapshot[d] # "absent" THEN db.zone[d]
           ELSE [db.zone[d] EXCEPT !.expires = Expired(@)]],
       !.segment = [d \in Datex |-> [i \in 1..MaxLines |->
           [db.segment[d][i] EXCEPT !.expires = Expired(@)]]]]

(* Zones and incidents the snapshot does not mention expire, and every      *)
(* segment of the source does.                                              *)
ExpireStaleRecords(db, snapshot) ==
    [zone |-> [d \in Datex |->
        IF snapshot[d] # "absent" THEN db.zone[d]
        ELSE [expires |-> Expired(db.zone[d].expires), lines |-> db.zone[d].lines]],
     incident |-> [d \in Datex |->
        IF snapshot[d] # "absent" THEN db.incident[d]
        ELSE [expires |-> Expired(db.incident[d].expires),
              matched |-> db.incident[d].matched]],
     segment |-> [d \in Datex |-> [i \in 1..MaxLines |->
        [expires |-> Expired(db.segment[d][i].expires),
         route |-> db.segment[d][i].route,
         matched |-> db.segment[d][i].matched]]],
     etraffic |-> db.etraffic]

FaultAppendLines(row, end, lines) ==
    IF row.expires = "absent"
    THEN [expires |-> end, lines |-> lines]
    ELSE [expires |-> "never", lines |-> row.lines + lines]

FaultFlattenRoute(row, end, lines) ==
    IF row.expires = "absent"
    THEN [expires |-> end, lines |-> lines]
    ELSE [expires |-> "never", lines |-> lines]

(* A record seen for the first time gets its announced end; a record seen   *)
(* again loses its end, and keeps its geometry unless a road was matched.   *)
PersistedZone(row, end, lines) ==
    IF row.expires = "absent"
    THEN [expires |-> end, lines |-> lines]
    ELSE [expires |-> "never", lines |-> IF lines > 0 THEN lines ELSE row.lines]

PersistedIncident(row, end, lines) ==
    [expires |-> IF row.expires = "absent" THEN end ELSE "never",
     matched |-> lines > 0]

(* One segment per line of the record, which has a single straight line     *)
(* when no road was matched; rows beyond the last line expire.              *)
PersistedSegments(rows, end, lines) ==
    [i \in 1..MaxLines |->
        IF i > (IF lines = 0 THEN 1 ELSE lines)
        THEN [expires |-> Expired(rows[i].expires),
              route |-> rows[i].route, matched |-> rows[i].matched]
        ELSE [expires |-> IF rows[i].expires = "absent" THEN end ELSE "never",
              route |-> lines > 0 \/ rows[i].route,
              matched |-> lines > 0]]

(* One turn of the loop over the records of a DATEX snapshot.               *)
PersistRecord(db, d, end, lines) ==
    [zone |-> [db.zone EXCEPT ![d] = PersistedZone(db.zone[d], end, lines)],
     incident |-> [db.incident EXCEPT ![d] = PersistedIncident(db.incident[d], end, lines)],
     segment |-> [db.segment EXCEPT ![d] = PersistedSegments(db.segment[d], end, lines)],
     etraffic |-> db.etraffic]

FaultKeepFallbackDatex(db, snapshot) ==
    [db EXCEPT !.etraffic = [e \in Etraffic |->
        IF e \in snapshot THEN db.etraffic[e] ELSE Expired(db.etraffic[e])]]

FaultKeepOwnRows(db, snapshot) == ExpireStaleRecords(db, NoFeed)

(* An eTraffic run expires every DATEX row, which it calls the fallback,    *)
(* and the rows of its own source that the snapshot does not mention.       *)
ExpireFallbackDatex(db, snapshot) ==
    [zone |-> [d \in Datex |->
        [expires |-> Expired(db.zone[d].expires), lines |-> db.zone[d].lines]],
     incident |-> [d \in Datex |->
        [expires |-> Expired(db.incident[d].expires),
         matched |-> db.incident[d].matched]],
     segment |-> [d \in Datex |-> [i \in 1..MaxLines |->
        [expires |-> Expired(db.segment[d][i].expires),
         route |-> db.segment[d][i].route,
         matched |-> db.segment[d][i].matched]]],
     etraffic |-> [e \in Etraffic |->
        IF e \in snapshot THEN db.etraffic[e] ELSE Expired(db.etraffic[e])]]

(* Rows of an eTraffic record, new or seen again: they never have an end.   *)
(* Its zone, incident and segments always move together, so one validity    *)
(* stands for the three tables.                                             *)
PersistEtraffic(db, e) ==
    [zone |-> db.zone, incident |-> db.incident, segment |-> db.segment,
     etraffic |-> [db.etraffic EXCEPT ![e] = "never"]]

(* Restrictions an enrichment run looks for: with a road, in force without  *)
(* an end and still drawn through their two end points.                     *)
Pending(db) ==
    {d \in Enrichable : db.zone[d].expires = "never" /\ db.zone[d].lines = 0}

(* Redrawing updates the zone with all the matched lines, and the first     *)
(* segment with the first of them.  Without a match only the counters in    *)
(* the metadata change.                                                     *)
RedrawRecord(db, d, lines) ==
    IF lines = 0 THEN db
    ELSE [zone |-> [db.zone EXCEPT ![d] =
                       [expires |-> db.zone[d].expires, lines |-> lines]],
          incident |-> db.incident,
          segment |-> [db.segment EXCEPT ![d] = [i \in 1..MaxLines |->
              IF i = 1 /\ db.segment[d][1].expires # "absent"
              THEN [expires |-> db.segment[d][1].expires,
                    route |-> TRUE, matched |-> TRUE]
              ELSE db.segment[d][i]]],
          etraffic |-> db.etraffic]

(* The announced end of DATEX record d goes by, wherever it was written.    *)
Lapsed(validity) == IF validity = "future" THEN "past" ELSE validity

LapseRows(db, d) ==
    [zone |-> [db.zone EXCEPT ![d] =
        [expires |-> Lapsed(db.zone[d].expires), lines |-> db.zone[d].lines]],
     incident |-> [db.incident EXCEPT ![d] =
        [expires |-> Lapsed(db.incident[d].expires),
         matched |-> db.incident[d].matched]],
     segment |-> [db.segment EXCEPT ![d] = [i \in 1..MaxLines |->
        [expires |-> Lapsed(db.segment[d][i].expires),
         route |-> db.segment[d][i].route,
         matched |-> db.segment[d][i].matched]]],
     etraffic |-> db.etraffic]

(* Lines the road-matching services answer for a record: none when the      *)
(* record cannot be matched, and possibly none for any other record, since  *)
(* the services time out, are throttled or run out of budget.               *)
MatchedLines(d) == IF d \in Matchable THEN 0..MaxLines ELSE {0}

(***************************************************************************)
(* Runs                                                                    *)
(***************************************************************************)

FaultAcquireWithoutLock(p) ==
    /\ pc[p] = "idle"
    /\ lock' = p
    /\ pc' = [pc EXCEPT ![p] = "fetching"]
    /\ result' = [result EXCEPT ![p] = "none"]
    /\ UNCHANGED <<tables, work, feed, listed, todo, published>>

(* pg_try_advisory_xact_lock answers true.                                  *)
Acquire(p) ==
    /\ pc[p] = "idle"
    /\ lock = NoRun
    /\ lock' = p
    /\ pc' = [pc EXCEPT ![p] = "fetching"]
    /\ result' = [result EXCEPT ![p] = "none"]
    /\ UNCHANGED <<tables, work, feed, listed, todo, published>>

(* It answers false: the run ends at once, "skipped_locked" or with nothing *)
(* selected, and nobody retries it before the next beat.                    *)
Skip(p) ==
    /\ pc[p] = "idle"
    /\ lock # NoRun
    /\ result' = [result EXCEPT ![p] = "skipped_locked"]
    /\ UNCHANGED <<tables, lock, pc, work, feed, listed, todo, published>>

(* The feeds answered and passed validate and normalize with at least one   *)
(* record; persist has written the run row and expired the stale records.   *)
FetchDatex(p) ==
    /\ p \in DatexRuns
    /\ pc[p] = "fetching"
    /\ \E snapshot \in [Datex -> Validity] \ {NoFeed} :
          /\ feed' = [feed EXCEPT ![p] = snapshot]
          /\ todo' = [todo EXCEPT ![p] = {d \in Datex : snapshot[d] # "absent"}]
          /\ work' = [work EXCEPT ![p] = ExpireStaleRecords(tables, snapshot)]
    /\ pc' = [pc EXCEPT ![p] = "persisting"]
    /\ UNCHANGED <<tables, lock, listed, result, published>>

(* The record is matched to a road, awaiting the services, and written.     *)
PersistDatexRecord(p) ==
    /\ p \in DatexRuns
    /\ pc[p] = "persisting"
    /\ \E d \in todo[p] : \E lines \in MatchedLines(d) :
          /\ work' = [work EXCEPT ![p] = PersistRecord(work[p], d, feed[p][d], lines)]
          /\ todo' = [todo EXCEPT ![p] = todo[p] \ {d}]
    /\ UNCHANGED <<tables, lock, pc, feed, listed, result, published>>

FetchEtraffic(p) ==
    /\ p \in EtrafficRuns
    /\ pc[p] = "fetching"
    /\ \E snapshot \in (SUBSET Etraffic) \ {{}} :
          /\ listed' = [listed EXCEPT ![p] = snapshot]
          /\ todo' = [todo EXCEPT ![p] = snapshot]
          /\ work' = [work EXCEPT ![p] = ExpireFallbackDatex(tables, snapshot)]
    /\ pc' = [pc EXCEPT ![p] = "persisting"]
    /\ UNCHANGED <<tables, lock, feed, result, published>>

PersistEtrafficRecord(p) ==
    /\ p \in EtrafficRuns
    /\ pc[p] = "persisting"
    /\ \E e \in todo[p] :
          /\ work' = [work EXCEPT ![p] = PersistEtraffic(work[p], e)]
          /\ todo' = [todo EXCEPT ![p] = todo[p] \ {e}]
    /\ UNCHANGED <<tables, lock, pc, feed, listed, result, published>>

(* The select of an enrichment run: a full batch of pending restrictions,   *)
(* or all of them when there are fewer.  Which ones go first is the         *)
(* business of the retry counters, left open here.                          *)
SelectPending(p) ==
    /\ p \in EnrichRuns
    /\ pc[p] = "fetching"
    /\ \E batch \in SUBSET Pending(tables) :
          /\ \/ Cardinality(batch) = BatchLimit
             \/ batch = Pending(tables) /\ Cardinality(batch) < BatchLimit
          /\ todo' = [todo EXCEPT ![p] = batch]
    /\ work' = [work EXCEPT ![p] = tables]
    /\ pc' = [pc EXCEPT ![p] = "persisting"]
    /\ UNCHANGED <<tables, lock, feed, listed, result, published>>

RedrawPendingRecord(p) ==
    /\ p \in EnrichRuns
    /\ pc[p] = "persisting"
    /\ \E d \in todo[p] : \E lines \in MatchedLines(d) :
          /\ work' = [work EXCEPT ![p] = RedrawRecord(work[p], d, lines)]
          /\ todo' = [todo EXCEPT ![p] = todo[p] \ {d}]
    /\ UNCHANGED <<tables, lock, pc, feed, listed, result, published>>

(* What a run that ends its transaction forgets.                            *)
EndTransaction(p) ==
    /\ lock' = NoRun
    /\ work' = [work EXCEPT ![p] = EmptyTables]
    /\ feed' = [feed EXCEPT ![p] = NoFeed]
    /\ listed' = [listed EXCEPT ![p] = {}]
    /\ todo' = [todo EXCEPT ![p] = {}]

ShownEtraffic(db) == {e \in Etraffic : Shown(db.etraffic[e])}

(* The run is marked completed and the transaction commits.                 *)
Commit(p) ==
    /\ pc[p] = "persisting"
    /\ todo[p] = {}
    /\ tables' = work[p]
    /\ EndTransaction(p)
    /\ pc' = [pc EXCEPT ![p] = "idle"]
    /\ result' = [result EXCEPT ![p] = "completed"]
    /\ published' =
          IF p \in DatexRuns THEN [published EXCEPT !.datex = feed[p]]
          ELSE IF p \in EtrafficRuns
               THEN [datex |-> NoFeed, etraffic |-> listed[p]]
               ELSE published

FaultFailWithoutRollback(p) ==
    /\ p \in DatexRuns \cup EtrafficRuns
    /\ pc[p] \in {"fetching", "persisting"}
    /\ tables' = IF pc[p] = "persisting" THEN work[p] ELSE tables
    /\ EndTransaction(p)
    /\ pc' = [pc EXCEPT ![p] = "failing"]
    /\ UNCHANGED <<result, published>>

FaultFailHoldsLock(p) ==
    /\ p \in DatexRuns \cup EtrafficRuns
    /\ pc[p] \in {"fetching", "persisting"}
    /\ pc' = [pc EXCEPT ![p] = "failing"]
    /\ UNCHANGED <<tables, lock, work, feed, listed, todo, result, published>>

(* Any exception of fetch, validate, normalize or persist, an empty         *)
(* snapshot included, rolls the transaction back, which releases the lock.  *)
Fail(p) ==
    /\ p \in DatexRuns \cup EtrafficRuns
    /\ InTransaction(p)
    /\ EndTransaction(p)
    /\ pc' = [pc EXCEPT ![p] = "failing"]
    /\ UNCHANGED <<tables, result, published>>

(* record_failure, without the lock: the raw payload goes to the dead       *)
(* letters and a FAILED run is committed.                                   *)
RecordFailure(p) ==
    /\ pc[p] = "failing"
    /\ pc' = [pc EXCEPT ![p] = "idle"]
    /\ result' = [result EXCEPT ![p] = "failed"]
    /\ UNCHANGED <<tables, lock, work, feed, listed, todo, published>>

(* The worker is killed, or an exception escapes (record_failure itself, or *)
(* anything in an enrichment run, which has no handler): the session closes *)
(* and the server rolls the open transaction back.                          *)
Lose(p) ==
    /\ pc[p] # "idle"
    /\ IF InTransaction(p) THEN EndTransaction(p)
                           ELSE UNCHANGED <<lock, work, feed, listed, todo>>
    /\ pc' = [pc EXCEPT ![p] = "idle"]
    /\ result' = [result EXCEPT ![p] = "lost"]
    /\ UNCHANGED <<tables, published>>

(* Time passes over the announced end of record d.                          *)
Lapse(d) ==
    /\ tables' = LapseRows(tables, d)
    /\ work' = [p \in Runs |-> LapseRows(work[p], d)]
    /\ feed' = [p \in Runs |-> [feed[p] EXCEPT ![d] = Lapsed(@)]]
    /\ published' = [published EXCEPT !.datex[d] = Lapsed(@)]
    /\ UNCHANGED <<lock, pc, listed, todo, result>>

(* One step of a run that has started.                                      *)
Step(p) ==
    \/ FetchDatex(p) \/ PersistDatexRecord(p)
    \/ FetchEtraffic(p) \/ PersistEtrafficRecord(p)
    \/ SelectPending(p) \/ RedrawPendingRecord(p)
    \/ Commit(p) \/ Fail(p) \/ RecordFailure(p) \/ Lose(p)

Next ==
    \/ \E p \in Runs : Acquire(p) \/ Skip(p) \/ Step(p)
    \/ \E d \in Datex : Lapse(d)

Spec == Init /\ [][Next]_vars

(* A started run keeps running: every await of the code has a timeout and   *)
(* its failure is a step.  Nothing makes a run start or get the lock.       *)
Fairness == \A p \in Runs : WF_vars(Step(p))

FairSpec == Spec /\ Fairness
(***************************************************************************)
(* Properties                                                              *)
(***************************************************************************)

(* The restrictions in force are those of the last complete DATEX snapshot: *)
(* one it does not mention is hidden, one it announces as running is shown. *)
(* A snapshot that was overtaken, failed or was interrupted leaves no trace *)
(* (execute and persist of datex.py and etraffic.py, locks.py).             *)
SnapshotExact ==
    \A d \in Datex :
        /\ published.datex[d] = "absent" => ~Shown(tables.zone[d].expires)
        /\ Shown(published.datex[d]) => Shown(tables.zone[d].expires)

(* The three tables tell the same story: a zone is in force exactly when    *)
(* its incident and its first road segment are.                             *)
TablesAgree ==
    \A d \in Datex :
        /\ Shown(tables.zone[d].expires) <=> Shown(tables.incident[d].expires)
        /\ Shown(tables.zone[d].expires) <=> Shown(tables.segment[d][1].expires)

(* The eTraffic rows in force are the records of the last complete eTraffic *)
(* snapshot, as it was fetched: those it does not list any more are taken   *)
(* down, those it lists are written or kept, and no run of another kind     *)
(* takes any of them down (persist and _expire_stale_source_records of      *)
(* etraffic.py).                                                            *)
EtrafficExact == ShownEtraffic(tables) = published.etraffic

(***************************************************************************)
(* Why SnapshotExact, TablesAgree and EtrafficExact hold: the lock keeps    *)
(* every other run out of the tables while a run works on its copy, and the *)
(* copy already tracks the snapshot of the run for the records it has done. *)
(***************************************************************************)

(* The lock is held by the run whose transaction is open.                   *)
LockOwner == \A p \in Runs : InTransaction(p) <=> lock = p

(* A row with this validity is right for a record announced so, and still   *)
(* is when the announced end passes for both.                               *)
Tracks(validity, announced) ==
    /\ announced = "absent" => ~Shown(validity)
    /\ announced = "future" => Shown(validity)
    /\ announced = "never" => validity = "never"

BoardTracked ==
    \A d \in Datex : Tracks(tables.zone[d].expires, published.datex[d])

(* The rows of d exist together; zone and incident have the same end.  A    *)
(* zone that does not exist yet has no route.                               *)
SameRows(db, d) ==
    /\ db.zone[d].expires = "absent" => db.zone[d].lines = 0
    /\ db.zone[d].expires = db.incident[d].expires
    /\ (db.zone[d].expires = "absent") <=> (db.segment[d][1].expires = "absent")

SameSegment(db, d) == db.zone[d].expires = db.segment[d][1].expires

RowsAgree == \A d \in Datex : SameRows(tables, d) /\ SameSegment(tables, d)

DatexInFlight(p) ==
    /\ todo[p] \subseteq {d \in Datex : feed[p][d] # "absent"}
    /\ \E d \in Datex : feed[p][d] # "absent"
    /\ \A d \in Datex : d \notin todo[p] =>
          Tracks(work[p].zone[d].expires, feed[p][d])
    /\ work[p].etraffic = tables.etraffic

EtrafficInFlight(p) ==
    /\ listed[p] # {}
    /\ ShownEtraffic(work[p]) \cup todo[p] = listed[p]
    /\ \A d \in Datex : /\ ~Shown(work[p].zone[d].expires)
                       /\ work[p].zone[d].lines = tables.zone[d].lines

EnrichInFlight(p) ==
    /\ todo[p] \subseteq {d \in Datex : tables.zone[d].expires = "never"}
    /\ \A d \in Datex :
          /\ work[p].zone[d].expires = tables.zone[d].expires
          /\ work[p].zone[d].lines > 0 =>
                tables.zone[d].lines > 0 \/ tables.zone[d].expires = "never"
          /\ SameSegment(work[p], d)
    /\ work[p].etraffic = tables.etraffic

InFlight(p) ==
    /\ p \in DatexRuns => DatexInFlight(p)
    /\ p \in EtrafficRuns => EtrafficInFlight(p)
    /\ p \in EnrichRuns => EnrichInFlight(p)
    /\ \A d \in Datex :
          /\ SameRows(work[p], d)
          /\ d \notin todo[p] => SameSegment(work[p], d)
          /\ tables.zone[d].lines > 0 => work[p].zone[d].lines > 0

(* The inductive invariant of the proofs (TrafficProofs).                   *)
IInv ==
    /\ TypeOK
    /\ LockOwner
    /\ BoardTracked
    /\ RowsAgree
    /\ EtrafficExact
    /\ \A p \in Runs : pc[p] = "persisting" => InFlight(p)

(* A restriction drawn along its road is never drawn straight again, however *)
(* the road services fail (comment of _reactivate_existing).                *)
RouteNeverFlattened ==
    [][\A d \in Datex : tables.zone[d].lines > 0 => tables'.zone[d].lines > 0]_vars

(* Only a run that ends "completed" changes rows; the rest is time passing. *)
(* A run that fails, is skipped or is lost changes none.                    *)
OnlyCompletedRunsWrite ==
    [][tables' # tables =>
         \/ \E p \in Runs : pc[p] = "persisting" /\ pc'[p] = "idle"
                             /\ result'[p] = "completed"
         \/ \E d \in Datex : tables' = LapseRows(tables, d)]_vars

(* What the readers of the API see is the board of TrafficBoard.            *)
ShownZones(db) == {d \in Datex : Shown(db.zone[d].expires)}

Board == INSTANCE TrafficBoard WITH
    announced <- published.datex,
    shown <- ShownZones(tables) \cup ShownEtraffic(tables),
    routed <- {d \in Datex : tables.zone[d].lines > 0}

ImplementsBoard == Board!Spec

(* The lock is never held for good, whoever fails or dies while holding it. *)
LockReleased == []<>(lock = NoRun)

(* Segments of d that readers see along the road.                           *)
ShownRoute(db, d) ==
    {i \in 1..MaxLines : Shown(db.segment[d][i].expires) /\ db.segment[d][i].route}

(* "A transient failure in the road-matching services must not flatten an   *)
(* already enriched road route" (datex.py:1046): as long as a restriction   *)
(* stays in force with its route, the segments of the route stay in force.  *)
RouteSegmentsKept ==
    [][\A d \in Datex :
         /\ Shown(tables.zone[d].expires) /\ Shown(tables'.zone[d].expires)
         /\ tables.zone[d].lines = tables'.zone[d].lines
         /\ pc' # pc
         => ShownRoute(tables, d) \subseteq ShownRoute(tables', d)]_vars
=============================================================================
