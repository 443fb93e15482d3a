---------------------------- MODULE TrafficProofs ----------------------------
(***************************************************************************)
(* Proofs about Traffic, for any number of records, runs and lines.        *)
(***************************************************************************)
EXTENDS Traffic, TLAPS

(***************************************************************************)
(* What the statements of a run yield are tables again.                    *)
(***************************************************************************)

(* Rows put together column by column are tables.                           *)
LEMMA RowsType ==
    ASSUME NEW db \in Tables
    PROVE  /\ db.zone \in [Datex -> Zone]
           /\ db.incident \in [Datex -> Incident]
           /\ db.segment \in [Datex -> [1..MaxLines -> Segment]]
           /\ db.etraffic \in [Etraffic -> Validity]
           /\ \A d \in Datex : /\ db.zone[d].expires \in Validity
                               /\ db.zone[d].lines \in 0..MaxLines
                               /\ db.incident[d].expires \in Validity
                               /\ db.incident[d].matched \in BOOLEAN
           /\ \A d \in Datex : \A i \in 1..MaxLines :
                 /\ db.segment[d][i].expires \in Validity
                 /\ db.segment[d][i].route \in BOOLEAN
                 /\ db.segment[d][i].matched \in BOOLEAN
BY DEF Tables, Zone, Incident, Segment

(* The empty tables of the initial state.                                   *)
LEMMA EmptyTablesType == EmptyTables \in Tables
BY MaxLinesAssumption
   DEF EmptyTables, Tables, Zone, Incident, Segment, Validity

(* Expiring what a DATEX snapshot does not mention (_expire_stale_records). *)
LEMMA ExpireStaleRecordsType ==
    ASSUME NEW db \in Tables, NEW snapshot
    PROVE  ExpireStaleRecords(db, snapshot) \in Tables
<1> DEFINE new == ExpireStaleRecords(db, snapshot)
<1>0. \A v \in Validity : Expired(v) \in Validity
  BY DEF Expired, Validity
<1>1. new.zone \in [Datex -> Zone]
  BY <1>0, RowsType DEF ExpireStaleRecords, Zone
<1>2. new.incident \in [Datex -> Incident]
  BY <1>0, RowsType DEF ExpireStaleRecords, Incident
<1>3. new.segment \in [Datex -> [1..MaxLines -> Segment]]
  BY <1>0, RowsType DEF ExpireStaleRecords, Segment
<1>4. new.etraffic \in [Etraffic -> Validity]
  BY RowsType DEF ExpireStaleRecords
<1> QED
  BY <1>1, <1>2, <1>3, <1>4 DEF ExpireStaleRecords, Tables

(* Taking every DATEX row down (the eTraffic connector).                    *)
LEMMA ExpireFallbackDatexType ==
    ASSUME NEW db \in Tables, NEW snapshot
    PROVE  ExpireFallbackDatex(db, snapshot) \in Tables
<1> DEFINE new == ExpireFallbackDatex(db, snapshot)
<1>0. \A v \in Validity : Expired(v) \in Validity
  BY DEF Expired, Validity
<1>1. new.zone \in [Datex -> Zone]
  BY <1>0, RowsType DEF ExpireFallbackDatex, Zone
<1>2. new.incident \in [Datex -> Incident]
  BY <1>0, RowsType DEF ExpireFallbackDatex, Incident
<1>3. new.segment \in [Datex -> [1..MaxLines -> Segment]]
  BY <1>0, RowsType DEF ExpireFallbackDatex, Segment
<1>4. new.etraffic \in [Etraffic -> Validity]
  BY <1>0, RowsType DEF ExpireFallbackDatex
<1> QED
  BY <1>1, <1>2, <1>3, <1>4 DEF ExpireFallbackDatex, Tables

(* Writing one DATEX record with the lines the road services answered.      *)
LEMMA PersistRecordType ==
    ASSUME NEW db \in Tables, NEW d \in Datex, NEW end \in Validity,
           NEW lines \in 0..MaxLines
    PROVE  PersistRecord(db, d, end, lines) \in Tables
<1> DEFINE new == PersistRecord(db, d, end, lines)
<1>0. \A v \in Validity : Expired(v) \in Validity
  BY DEF Expired, Validity
<1>1. new.zone \in [Datex -> Zone]
  <2>1. PersistedZone(db.zone[d], end, lines) \in Zone
    BY RowsType DEF PersistedZone, Zone, Validity
  <2> QED BY <2>1, RowsType DEF PersistRecord
<1>2. new.incident \in [Datex -> Incident]
  <2>1. PersistedIncident(db.incident[d], end, lines) \in Incident
    BY RowsType DEF PersistedIncident, Incident, Validity
  <2> QED BY <2>1, RowsType DEF PersistRecord
<1>3. new.segment \in [Datex -> [1..MaxLines -> Segment]]
  <2>1. PersistedSegments(db.segment[d], end, lines) \in [1..MaxLines -> Segment]
    <3>1. "never" \in Validity
      BY DEF Validity
    <3> QED BY <1>0, <3>1, RowsType DEF PersistedSegments, Segment
  <2> QED BY <2>1, RowsType DEF PersistRecord
<1>4. new.etraffic \in [Etraffic -> Validity]
  BY RowsType DEF PersistRecord
<1> QED
  BY <1>1, <1>2, <1>3, <1>4 DEF PersistRecord, Tables

(* Writing one eTraffic record.                                             *)
LEMMA PersistEtrafficType ==
    ASSUME NEW db \in Tables, NEW e \in Etraffic
    PROVE  PersistEtraffic(db, e) \in Tables
BY DEF PersistEtraffic, Tables, Validity

(* Redrawing one pending restriction (enrich_pending_routes).               *)
LEMMA RedrawRecordType ==
    ASSUME NEW db \in Tables, NEW d \in Datex, NEW lines \in 0..MaxLines
    PROVE  RedrawRecord(db, d, lines) \in Tables
<1> DEFINE new == RedrawRecord(db, d, lines)
<1>1. CASE lines = 0
  BY <1>1 DEF RedrawRecord
<1>2. CASE lines # 0
  <2>1. new.zone \in [Datex -> Zone]
    BY <1>2, RowsType DEF RedrawRecord, Zone
  <2>2. new.segment \in [Datex -> [1..MaxLines -> Segment]]
    <3>1. \A s \in Segment :
            [expires |-> s.expires, route |-> TRUE, matched |-> TRUE] \in Segment
      BY DEF Segment
    <3> QED BY <1>2, <3>1, RowsType, MaxLinesAssumption DEF RedrawRecord
  <2>3. /\ new.incident \in [Datex -> Incident]
        /\ new.etraffic \in [Etraffic -> Validity]
    BY <1>2, RowsType DEF RedrawRecord
  <2> QED BY <1>2, <2>1, <2>2, <2>3 DEF RedrawRecord, Tables
<1> QED BY <1>1, <1>2

(* Time going by.                                                           *)
LEMMA LapseRowsType ==
    ASSUME NEW db \in Tables, NEW d \in Datex
    PROVE  LapseRows(db, d) \in Tables
<1> DEFINE new == LapseRows(db, d)
<1>0. \A v \in Validity : Lapsed(v) \in Validity
  BY DEF Lapsed, Validity
<1>1. new.zone \in [Datex -> Zone]
  BY <1>0, RowsType DEF LapseRows, Zone
<1>2. new.incident \in [Datex -> Incident]
  BY <1>0, RowsType DEF LapseRows, Incident
<1>3. new.segment \in [Datex -> [1..MaxLines -> Segment]]
  BY <1>0, RowsType DEF LapseRows, Segment
<1>4. new.etraffic \in [Etraffic -> Validity]
  BY RowsType DEF LapseRows
<1> QED
  BY <1>1, <1>2, <1>3, <1>4 DEF LapseRows, Tables

(* A road match has at most MaxLines lines, none when it fails.             *)
LEMMA MatchedLinesType ==
    ASSUME NEW d
    PROVE  MatchedLines(d) \subseteq 0..MaxLines
BY MaxLinesAssumption DEF MatchedLines

(* What a run that ends its transaction leaves behind.                      *)
LEMMA EndTransactionType ==
    ASSUME TypeOK, NEW p \in Runs, EndTransaction(p)
    PROVE  /\ lock' \in Runs \cup {NoRun}
           /\ work' \in [Runs -> Tables]
           /\ feed' \in [Runs -> [Datex -> Validity]]
           /\ listed' \in [Runs -> SUBSET Etraffic]
           /\ todo' \in [Runs -> SUBSET (Datex \cup Etraffic)]
           /\ \A q \in Runs : todo'[q] \subseteq Records(q)
<1>1. NoFeed \in [Datex -> Validity]
  BY DEF NoFeed, Validity
<1> QED
  BY <1>1, EmptyTablesType DEF EndTransaction, TypeOK

(* A run commits what it wrote, or its snapshot goes to the observer.       *)
LEMMA PublishedType ==
    ASSUME TypeOK, NEW p \in Runs
    PROVE  /\ [published EXCEPT !.datex = feed[p]]
                 \in [datex : [Datex -> Validity], etraffic : SUBSET Etraffic]
           /\ [datex |-> NoFeed, etraffic |-> listed[p]]
                 \in [datex : [Datex -> Validity], etraffic : SUBSET Etraffic]
BY DEF TypeOK, NoFeed, Validity

(* Every step yields well-typed rows, locks, snapshots and results.         *)
LEMMA StepTypeOK ==
    ASSUME TypeOK, [Next]_vars
    PROVE  TypeOK'
<1> USE DEF TypeOK
<1>1. ASSUME NEW p \in Runs, Acquire(p) PROVE TypeOK'
  BY <1>1 DEF Acquire
<1>2. ASSUME NEW p \in Runs, Skip(p) PROVE TypeOK'
  BY <1>2 DEF Skip
<1>3. ASSUME NEW p \in Runs, FetchDatex(p) PROVE TypeOK'
  <2>1. PICK snapshot \in [Datex -> Validity] \ {NoFeed} :
          /\ feed' = [feed EXCEPT ![p] = snapshot]
          /\ todo' = [todo EXCEPT ![p] = {d \in Datex : snapshot[d] # "absent"}]
          /\ work' = [work EXCEPT ![p] = ExpireStaleRecords(tables, snapshot)]
    BY <1>3 DEF FetchDatex
  <2>2. ExpireStaleRecords(tables, snapshot) \in Tables
    BY ExpireStaleRecordsType
  <2>3. p \in DatexRuns /\ Records(p) = Datex
    BY <1>3, RunKindsAssumption DEF FetchDatex, Records
  <2> QED BY <1>3, <2>1, <2>2, <2>3 DEF FetchDatex
<1>4. ASSUME NEW p \in Runs, PersistDatexRecord(p) PROVE TypeOK'
  <2>1. p \in DatexRuns /\ Records(p) = Datex
    BY <1>4, RunKindsAssumption DEF PersistDatexRecord, Records
  <2>2. PICK d \in todo[p] : \E lines \in MatchedLines(d) :
          /\ work' = [work EXCEPT ![p] = PersistRecord(work[p], d, feed[p][d], lines)]
          /\ todo' = [todo EXCEPT ![p] = todo[p] \ {d}]
    BY <1>4 DEF PersistDatexRecord
  <2>3. PICK lines \in MatchedLines(d) :
          /\ work' = [work EXCEPT ![p] = PersistRecord(work[p], d, feed[p][d], lines)]
          /\ todo' = [todo EXCEPT ![p] = todo[p] \ {d}]
    BY <2>2
  <2>4. PersistRecord(work[p], d, feed[p][d], lines) \in Tables
    BY <2>1, PersistRecordType, MatchedLinesType
  <2> QED BY <1>4, <2>3, <2>4 DEF PersistDatexRecord
<1>5. ASSUME NEW p \in Runs, FetchEtraffic(p) PROVE TypeOK'
  <2>1. p \in EtrafficRuns /\ Records(p) = Etraffic
    BY <1>5 DEF FetchEtraffic, Records
  <2>2. PICK snapshot \in SUBSET Etraffic :
          /\ listed' = [listed EXCEPT ![p] = snapshot]
          /\ todo' = [todo EXCEPT ![p] = snapshot]
          /\ work' = [work EXCEPT ![p] = ExpireFallbackDatex(tables, snapshot)]
    BY <1>5 DEF FetchEtraffic
  <2>3. ExpireFallbackDatex(tables, snapshot) \in Tables
    BY ExpireFallbackDatexType
  <2> QED BY <1>5, <2>1, <2>2, <2>3 DEF FetchEtraffic
<1>6. ASSUME NEW p \in Runs, PersistEtrafficRecord(p) PROVE TypeOK'
  <2>1. p \in EtrafficRuns /\ Records(p) = Etraffic
    BY <1>6 DEF PersistEtrafficRecord, Records
  <2>2. PICK e \in todo[p] :
          /\ work' = [work EXCEPT ![p] = PersistEtraffic(work[p], e)]
          /\ todo' = [todo EXCEPT ![p] = todo[p] \ {e}]
    BY <1>6 DEF PersistEtrafficRecord
  <2>3. PersistEtraffic(work[p], e) \in Tables
    BY <2>1, PersistEtrafficType
  <2> QED BY <1>6, <2>2, <2>3 DEF PersistEtrafficRecord
<1>7. ASSUME NEW p \in Runs, SelectPending(p) PROVE TypeOK'
  <2>1. p \in EnrichRuns /\ Records(p) = Datex
    BY <1>7, RunKindsAssumption DEF SelectPending, Records
  <2>2. PICK batch \in SUBSET Pending(tables) : todo' = [todo EXCEPT ![p] = batch]
    BY <1>7 DEF SelectPending
  <2>3. batch \subseteq Datex
    BY RecordsAssumption DEF Pending
  <2> QED BY <1>7, <2>1, <2>2, <2>3 DEF SelectPending
<1>8. ASSUME NEW p \in Runs, RedrawPendingRecord(p) PROVE TypeOK'
  <2>1. p \in EnrichRuns /\ Records(p) = Datex
    BY <1>8, RunKindsAssumption DEF RedrawPendingRecord, Records
  <2>2. PICK d \in todo[p] : \E lines \in MatchedLines(d) :
          /\ work' = [work EXCEPT ![p] = RedrawRecord(work[p], d, lines)]
          /\ todo' = [todo EXCEPT ![p] = todo[p] \ {d}]
    BY <1>8 DEF RedrawPendingRecord
  <2>3. PICK lines \in MatchedLines(d) :
          work' = [work EXCEPT ![p] = RedrawRecord(work[p], d, lines)]
    BY <2>2
  <2>4. RedrawRecord(work[p], d, lines) \in Tables
    BY <2>1, RedrawRecordType, MatchedLinesType
  <2> QED BY <1>8, <2>2, <2>3, <2>4 DEF RedrawPendingRecord
<1>9. ASSUME NEW p \in Runs, Commit(p) PROVE TypeOK'
  <2>1. work[p] \in Tables
    OBVIOUS
  <2>2. published' \in [datex : [Datex -> Validity], etraffic : SUBSET Etraffic]
    BY <1>9, PublishedType DEF Commit
  <2> QED BY <1>9, <2>1, <2>2, EndTransactionType DEF Commit
<1>10. ASSUME NEW p \in Runs, Fail(p) PROVE TypeOK'
  BY <1>10, EndTransactionType DEF Fail
<1>11. ASSUME NEW p \in Runs, RecordFailure(p) PROVE TypeOK'
  BY <1>11 DEF RecordFailure
<1>12. ASSUME NEW p \in Runs, Lose(p) PROVE TypeOK'
  <2>1. CASE InTransaction(p)
    BY <1>12, <2>1, EndTransactionType DEF Lose
  <2>2. CASE ~InTransaction(p)
    BY <1>12, <2>2 DEF Lose
  <2> QED BY <2>1, <2>2
<1>13. ASSUME NEW d \in Datex, Lapse(d) PROVE TypeOK'
  <2>1. \A v \in Validity : Lapsed(v) \in Validity
    BY DEF Lapsed, Validity
  <2>2. tables' \in Tables /\ work' \in [Runs -> Tables]
    BY <1>13, LapseRowsType DEF Lapse
  <2>3. feed' \in [Runs -> [Datex -> Validity]]
    BY <1>13, <2>1 DEF Lapse
  <2>4. published' \in [datex : [Datex -> Validity], etraffic : SUBSET Etraffic]
    BY <1>13, <2>1 DEF Lapse
  <2> QED BY <1>13, <2>2, <2>3, <2>4 DEF Lapse
<1>14. ASSUME UNCHANGED vars PROVE TypeOK'
  BY <1>14 DEF vars, Records
<1> QED
  BY <1>1, <1>2, <1>3, <1>4, <1>5, <1>6, <1>7, <1>8, <1>9, <1>10, <1>11, <1>12,
     <1>13, <1>14 DEF Next, Step

(* At first there are no rows and nobody is at work.                        *)
LEMMA InitTypeOK == Init => TypeOK
<1> SUFFICES ASSUME Init PROVE TypeOK
  OBVIOUS
<1>1. NoFeed \in [Datex -> Validity]
  BY DEF NoFeed, Validity
<1> QED BY <1>1, EmptyTablesType DEF Init, TypeOK

(* Rows, locks, snapshots and results always have their types: in           *)
(* particular a restriction never has more lines than a match can give.     *)
THEOREM TypeCorrect == Spec => []TypeOK
<1>1. TypeOK /\ [Next]_vars => TypeOK'
  BY StepTypeOK
<1> QED BY InitTypeOK, <1>1, PTL DEF Spec

(***************************************************************************)
(* The lock.                                                               *)
(***************************************************************************)

(* A run that ends its transaction gives back a lock it holds.              *)
LEMMA ReleaseLockOwner ==
    ASSUME TypeOK, LockOwner, NEW p \in Runs, InTransaction(p), lock' = NoRun,
           NEW place \in {"idle", "failing"}, pc' = [pc EXCEPT ![p] = place]
    PROVE  LockOwner'
BY NoRunAssumption DEF TypeOK, LockOwner, InTransaction

(* Every step leaves the lock with the run that has a transaction.          *)
LEMMA StepLockOwner ==
    ASSUME TypeOK, LockOwner, [Next]_vars
    PROVE  LockOwner'
<1>1. ASSUME NEW p \in Runs, Acquire(p) PROVE LockOwner'
  BY <1>1, NoRunAssumption DEF Acquire, TypeOK, LockOwner, InTransaction
<1>2. ASSUME NEW p \in Runs, pc[p] = "fetching",
             pc' = [pc EXCEPT ![p] = "persisting"], UNCHANGED lock
      PROVE  LockOwner'
  BY <1>2 DEF TypeOK, LockOwner, InTransaction
<1>3. ASSUME UNCHANGED <<pc, lock>> PROVE LockOwner'
  BY <1>3 DEF LockOwner, InTransaction
<1>4. ASSUME NEW p \in Runs, Commit(p) PROVE LockOwner'
  BY <1>4, ReleaseLockOwner DEF Commit, EndTransaction, InTransaction
<1>5. ASSUME NEW p \in Runs, Fail(p) PROVE LockOwner'
  BY <1>5, ReleaseLockOwner DEF Fail, EndTransaction
<1>6. ASSUME NEW p \in Runs, RecordFailure(p) PROVE LockOwner'
  BY <1>6 DEF RecordFailure, TypeOK, LockOwner, InTransaction
<1>7. ASSUME NEW p \in Runs, Lose(p) PROVE LockOwner'
  <2>1. CASE InTransaction(p)
    BY <1>7, <2>1, ReleaseLockOwner DEF Lose, EndTransaction
  <2>2. CASE ~InTransaction(p)
    BY <1>7, <2>2 DEF Lose, TypeOK, LockOwner, InTransaction
  <2> QED BY <2>1, <2>2
<1>8. ASSUME NEW p \in Runs, Step(p) PROVE LockOwner'
  <2>1. CASE FetchDatex(p)
    BY <1>2, <2>1 DEF FetchDatex
  <2>2. CASE FetchEtraffic(p)
    BY <1>2, <2>2 DEF FetchEtraffic
  <2>3. CASE SelectPending(p)
    BY <1>2, <2>3 DEF SelectPending
  <2>4. CASE PersistDatexRecord(p)
    BY <1>3, <2>4 DEF PersistDatexRecord
  <2>5. CASE PersistEtrafficRecord(p)
    BY <1>3, <2>5 DEF PersistEtrafficRecord
  <2>6. CASE RedrawPendingRecord(p)
    BY <1>3, <2>6 DEF RedrawPendingRecord
  <2> QED
    BY <1>4, <1>5, <1>6, <1>7, <1>8, <2>1, <2>2, <2>3, <2>4, <2>5, <2>6 DEF Step
<1>9. ASSUME NEW p \in Runs, Skip(p) PROVE LockOwner'
  BY <1>3, <1>9 DEF Skip
<1>10. ASSUME NEW d \in Datex, Lapse(d) PROVE LockOwner'
  BY <1>3, <1>10 DEF Lapse
<1> QED
  BY <1>1, <1>3, <1>8, <1>9, <1>10 DEF Next, vars

(* While one run works on its copy of the rows, no other does: the lock of  *)
(* locks.py is held by exactly the runs with an open transaction.           *)
THEOREM LockCorrect == Spec => []LockOwner
<1>1. Init => LockOwner
  BY NoRunAssumption DEF Init, LockOwner, InTransaction
<1>2. TypeOK /\ LockOwner /\ [Next]_vars => LockOwner'
  BY StepLockOwner
<1> QED BY <1>1, <1>2, TypeCorrect, PTL DEF Spec

(***************************************************************************)
(* The invariant behind the board.                                         *)
(***************************************************************************)

(* The run that holds the lock is the only one that persists.               *)
LEMMA OnlyPersister ==
    ASSUME LockOwner, NEW p \in Runs, InTransaction(p),
           NEW q \in Runs, pc[q] = "persisting"
    PROVE  q = p
BY DEF LockOwner, InTransaction

(* A step that changes no rows, snapshots or lists of records, and starts   *)
(* no transaction, keeps the invariant.                                     *)
LEMMA QuietStep ==
    ASSUME IInv, TypeOK', LockOwner',
           UNCHANGED <<tables, work, feed, listed, todo, published>>,
           \A q \in Runs : pc'[q] = "persisting" => pc[q] = "persisting"
    PROVE  IInv'
BY DEF IInv, BoardTracked, RowsAgree, EtrafficExact, ShownEtraffic, InFlight,
       DatexInFlight, EtrafficInFlight, EnrichInFlight, SameRows, SameSegment

(* A rollback keeps the invariant: nobody is left in a transaction.         *)
LEMMA RollbackStep ==
    ASSUME IInv, TypeOK', LockOwner', NEW p \in Runs, InTransaction(p),
           UNCHANGED <<tables, published>>,
           NEW place \in {"idle", "failing"}, pc' = [pc EXCEPT ![p] = place]
    PROVE  IInv'
<1>1. \A q \in Runs : pc'[q] # "persisting"
  BY OnlyPersister DEF IInv, TypeOK
<1> QED
  BY <1>1 DEF IInv, BoardTracked, RowsAgree, EtrafficExact, ShownEtraffic,
              SameRows, SameSegment

(* What expiring, persisting, redrawing and time do to one row.             *)
LEMMA ExpireStaleRows ==
    ASSUME NEW db \in Tables, NEW snapshot \in [Datex -> Validity], NEW d \in Datex,
           SameRows(db, d)
    PROVE  LET new == ExpireStaleRecords(db, snapshot) IN
           /\ SameRows(new, d)
           /\ snapshot[d] = "absent" =>
                 SameSegment(new, d) /\ ~Shown(new.zone[d].expires)
           /\ new.zone[d].lines = db.zone[d].lines
           /\ new.etraffic = db.etraffic
BY MaxLinesAssumption
   DEF ExpireStaleRecords, SameRows, SameSegment, Shown, Expired

(* An eTraffic run takes all rows of a DATEX record down together.          *)
LEMMA ExpireFallbackRows ==
    ASSUME NEW db \in Tables, NEW snapshot, NEW d \in Datex, SameRows(db, d)
    PROVE  LET new == ExpireFallbackDatex(db, snapshot) IN
           /\ SameRows(new, d)
           /\ SameSegment(new, d)
           /\ ~Shown(new.zone[d].expires)
           /\ new.zone[d].lines = db.zone[d].lines
BY MaxLinesAssumption
   DEF ExpireFallbackDatex, SameRows, SameSegment, Shown, Expired

(* Writing a record leaves its three rows in force together.                *)
LEMMA PersistRows ==
    ASSUME NEW db \in Tables, NEW d \in Datex, NEW end \in Validity \ {"absent"},
           NEW lines \in 0..MaxLines, SameRows(db, d)
    PROVE  LET new == PersistRecord(db, d, end, lines) IN
           /\ SameRows(new, d)
           /\ SameSegment(new, d)
           /\ Tracks(new.zone[d].expires, end)
           /\ db.zone[d].lines > 0 => new.zone[d].lines > 0
           /\ \A o \in Datex \ {d} : /\ new.zone[o] = db.zone[o]
                                     /\ new.incident[o] = db.incident[o]
                                     /\ new.segment[o] = db.segment[o]
           /\ new.etraffic = db.etraffic
<1> DEFINE new == PersistRecord(db, d, end, lines)
<1>1. /\ new.zone[d] = PersistedZone(db.zone[d], end, lines)
      /\ new.incident[d] = PersistedIncident(db.incident[d], end, lines)
      /\ new.segment[d] = PersistedSegments(db.segment[d], end, lines)
  BY RowsType DEF PersistRecord
<1>2. /\ 1 \in 1..MaxLines
      /\ ~(1 > (IF lines = 0 THEN 1 ELSE lines))
  BY MaxLinesAssumption
<1>3. new.segment[d][1].expires =
          IF db.segment[d][1].expires = "absent" THEN end ELSE "never"
  BY <1>1, <1>2 DEF PersistedSegments
<1>4. /\ new.zone[d].expires =
            IF db.zone[d].expires = "absent" THEN end ELSE "never"
      /\ new.zone[d].lines =
            IF db.zone[d].expires = "absent" \/ lines > 0 THEN lines
            ELSE db.zone[d].lines
      /\ new.incident[d].expires =
            IF db.incident[d].expires = "absent" THEN end ELSE "never"
  BY <1>1 DEF PersistedZone, PersistedIncident
<1>5. /\ SameRows(new, d)
      /\ SameSegment(new, d)
      /\ Tracks(new.zone[d].expires, end)
  BY <1>3, <1>4, RowsType DEF SameRows, SameSegment, Tracks, Shown
<1>6. db.zone[d].lines > 0 => new.zone[d].lines > 0
  BY <1>4, RowsType, MaxLinesAssumption DEF SameRows
<1>7. \A o \in Datex \ {d} : /\ new.zone[o] = db.zone[o]
                             /\ new.incident[o] = db.incident[o]
                             /\ new.segment[o] = db.segment[o]
  BY RowsType DEF PersistRecord
<1>8. new.etraffic = db.etraffic
  BY DEF PersistRecord
<1> QED
  BY <1>5, <1>6, <1>7, <1>8

(* Redrawing a pending record leaves its rows in force as they were.        *)
LEMMA RedrawRows ==
    ASSUME NEW db \in Tables, NEW d \in Datex, NEW lines \in 0..MaxLines,
           SameRows(db, d), SameSegment(db, d), db.zone[d].expires = "never"
    PROVE  LET new == RedrawRecord(db, d, lines) IN
           /\ SameRows(new, d)
           /\ SameSegment(new, d)
           /\ db.zone[d].lines > 0 => new.zone[d].lines > 0
           /\ new.zone[d].expires = db.zone[d].expires
           /\ \A o \in Datex \ {d} : /\ new.zone[o] = db.zone[o]
                                     /\ new.incident[o] = db.incident[o]
                                     /\ new.segment[o] = db.segment[o]
           /\ new.etraffic = db.etraffic
<1> DEFINE new == RedrawRecord(db, d, lines)
<1>1. CASE lines = 0
  BY <1>1 DEF RedrawRecord
<1>2. CASE lines # 0
  <2>1. /\ new.zone[d].expires = db.zone[d].expires
        /\ new.zone[d].lines = lines
        /\ new.incident = db.incident
        /\ new.etraffic = db.etraffic
    BY <1>2, RowsType DEF RedrawRecord
  <2>2. new.segment[d][1].expires = db.segment[d][1].expires
    BY <1>2, RowsType, MaxLinesAssumption DEF RedrawRecord
  <2>3. \A o \in Datex \ {d} : /\ new.zone[o] = db.zone[o]
                               /\ new.segment[o] = db.segment[o]
    BY <1>2, RowsType DEF RedrawRecord
  <2>4. lines > 0
    BY <1>2, MaxLinesAssumption
  <2>5. SameRows(new, d) /\ SameSegment(new, d)
    BY <2>1, <2>2 DEF SameRows, SameSegment
  <2> QED
    BY <2>1, <2>3, <2>4, <2>5
<1> QED BY <1>1, <1>2

(* What the end of d does to every row.                                     *)
LEMMA LapsedRows ==
    ASSUME NEW db \in Tables, NEW d \in Datex, NEW o \in Datex
    PROVE  LET new == LapseRows(db, d) IN
           /\ new.zone[o].expires = IF o = d THEN Lapsed(db.zone[o].expires)
                                    ELSE db.zone[o].expires
           /\ new.zone[o].lines = db.zone[o].lines
           /\ new.incident[o].expires = IF o = d THEN Lapsed(db.incident[o].expires)
                                        ELSE db.incident[o].expires
           /\ new.segment[o][1].expires =
                 IF o = d THEN Lapsed(db.segment[o][1].expires)
                 ELSE db.segment[o][1].expires
           /\ new.etraffic = db.etraffic
BY RowsType, MaxLinesAssumption DEF LapseRows

(* The end of d goes by for the rows as for the announcement.               *)
LEMMA LapsedTracks ==
    ASSUME NEW v \in Validity, NEW a \in Validity, Tracks(v, a)
    PROVE  Tracks(Lapsed(v), Lapsed(a))
BY DEF Tracks, Shown, Lapsed, Validity

(* A step by which run p, the only one at work, changes nothing but its own *)
(* copy keeps the invariant if the copy is as it should be.                 *)
LEMMA WorkStep ==
    ASSUME IInv, TypeOK', LockOwner', NEW p \in Runs, lock = p,
           UNCHANGED <<tables, lock, published>>, InFlight(p)'
    PROVE  IInv'
<1>1. \A q \in Runs : pc'[q] = "persisting" => q = p
  BY DEF LockOwner, InTransaction
<1> QED
  BY <1>1 DEF IInv, BoardTracked, RowsAgree, EtrafficExact, ShownEtraffic,
              SameRows, SameSegment

(* A fetched DATEX snapshot expires what it does not mention.               *)
LEMMA FetchDatexStep ==
    ASSUME IInv, TypeOK', LockOwner', NEW p \in Runs, FetchDatex(p)
    PROVE  IInv'
<1>1. p \in DatexRuns /\ p \notin EtrafficRuns /\ p \notin EnrichRuns
  BY RunKindsAssumption DEF FetchDatex
<1>2. PICK snapshot \in [Datex -> Validity] \ {NoFeed} :
        /\ feed' = [feed EXCEPT ![p] = snapshot]
        /\ todo' = [todo EXCEPT ![p] = {d \in Datex : snapshot[d] # "absent"}]
        /\ work' = [work EXCEPT ![p] = ExpireStaleRecords(tables, snapshot)]
  BY DEF FetchDatex
<1>3. /\ feed'[p] = snapshot
      /\ todo'[p] = {d \in Datex : snapshot[d] # "absent"}
      /\ work'[p] = ExpireStaleRecords(tables, snapshot)
      /\ tables' = tables
  BY <1>2 DEF IInv, TypeOK, FetchDatex
<1>4. \E d \in Datex : snapshot[d] # "absent"
  <2>1. SUFFICES ASSUME \A d \in Datex : snapshot[d] = "absent" PROVE FALSE
    OBVIOUS
  <2>2. snapshot = NoFeed
    BY <2>1 DEF NoFeed
  <2> QED BY <2>2
<1>5. \A d \in Datex :
        /\ SameRows(work'[p], d)
        /\ snapshot[d] = "absent" =>
              SameSegment(work'[p], d) /\ ~Shown(work'[p].zone[d].expires)
        /\ work'[p].zone[d].lines = tables.zone[d].lines
        /\ work'[p].etraffic = tables.etraffic
  <2>1. tables \in Tables /\ \A d \in Datex : SameRows(tables, d)
    BY DEF IInv, TypeOK, RowsAgree
  <2> QED BY <1>3, <2>1, ExpireStaleRows
<1>6. work'[p].etraffic = tables'.etraffic
  BY <1>3 DEF ExpireStaleRecords
<1>7. DatexInFlight(p)'
  BY <1>3, <1>4, <1>5, <1>6 DEF DatexInFlight, Tracks
<1>8. InFlight(p)'
  BY <1>1, <1>3, <1>5, <1>7 DEF InFlight, SameRows, SameSegment
<1>9. lock = p
  BY DEF FetchDatex, IInv, LockOwner, InTransaction
<1> QED
  BY <1>8, <1>9, WorkStep DEF FetchDatex

(* A fetched eTraffic snapshot does so for both sources.                    *)
LEMMA FetchEtrafficStep ==
    ASSUME IInv, TypeOK', LockOwner', NEW p \in Runs, FetchEtraffic(p)
    PROVE  IInv'
<1>1. p \in EtrafficRuns /\ p \notin DatexRuns /\ p \notin EnrichRuns
  BY RunKindsAssumption DEF FetchEtraffic
<1>2. PICK snapshot \in (SUBSET Etraffic) \ {{}} :
        /\ listed' = [listed EXCEPT ![p] = snapshot]
        /\ todo' = [todo EXCEPT ![p] = snapshot]
        /\ work' = [work EXCEPT ![p] = ExpireFallbackDatex(tables, snapshot)]
  BY DEF FetchEtraffic
<1>3. /\ todo'[p] = snapshot /\ listed'[p] = snapshot
      /\ work'[p] = ExpireFallbackDatex(tables, snapshot)
      /\ tables' = tables
  BY <1>2 DEF IInv, TypeOK, FetchEtraffic
<1>4. \A d \in Datex :
        /\ SameRows(work'[p], d)
        /\ SameSegment(work'[p], d)
        /\ ~Shown(work'[p].zone[d].expires)
        /\ work'[p].zone[d].lines = tables.zone[d].lines
  BY <1>3, ExpireFallbackRows DEF IInv, TypeOK, RowsAgree
<1>5. ShownEtraffic(work'[p]) \subseteq snapshot
  BY <1>3 DEF ShownEtraffic, ExpireFallbackDatex, Expired, Shown
<1>6. EtrafficInFlight(p)'
  BY <1>2, <1>3, <1>4, <1>5 DEF EtrafficInFlight, ShownEtraffic
<1>7. InFlight(p)'
  BY <1>1, <1>3, <1>4, <1>6 DEF InFlight, SameRows, SameSegment
<1>8. lock = p
  BY DEF FetchEtraffic, IInv, LockOwner, InTransaction
<1> QED
  BY <1>7, <1>8, WorkStep DEF FetchEtraffic

(* An enrichment run starts from the committed rows.                        *)
LEMMA SelectPendingStep ==
    ASSUME IInv, TypeOK', LockOwner', NEW p \in Runs, SelectPending(p)
    PROVE  IInv'
<1>1. p \in EnrichRuns /\ p \notin DatexRuns /\ p \notin EtrafficRuns
  BY RunKindsAssumption DEF SelectPending
<1>2. PICK batch \in SUBSET Pending(tables) : todo' = [todo EXCEPT ![p] = batch]
  BY DEF SelectPending
<1>3. /\ todo'[p] = batch
      /\ work'[p] = tables
      /\ tables' = tables
  BY <1>2 DEF IInv, TypeOK, SelectPending
<1>4. \A d \in batch : d \in Datex /\ tables.zone[d].expires = "never"
  BY RecordsAssumption DEF Pending
<1>5. EnrichInFlight(p)'
  BY <1>3, <1>4 DEF EnrichInFlight, IInv, RowsAgree, SameSegment
<1>6. InFlight(p)'
  BY <1>1, <1>3, <1>5 DEF InFlight, IInv, RowsAgree, SameRows, SameSegment
<1>7. lock = p
  BY DEF SelectPending, IInv, LockOwner, InTransaction
<1> QED
  BY <1>6, <1>7, WorkStep DEF SelectPending

(* Writing one DATEX record keeps what the run has in hand.                 *)
LEMMA PersistDatexRecordStep ==
    ASSUME IInv, TypeOK', LockOwner', NEW p \in Runs, PersistDatexRecord(p)
    PROVE  IInv'
<1>1. p \in DatexRuns /\ p \notin EtrafficRuns /\ p \notin EnrichRuns
  BY RunKindsAssumption DEF PersistDatexRecord
<1>2. PICK d \in todo[p] : \E lines \in MatchedLines(d) :
        /\ work' = [work EXCEPT ![p] = PersistRecord(work[p], d, feed[p][d], lines)]
        /\ todo' = [todo EXCEPT ![p] = todo[p] \ {d}]
  BY DEF PersistDatexRecord
<1>3. PICK lines \in MatchedLines(d) :
        /\ work' = [work EXCEPT ![p] = PersistRecord(work[p], d, feed[p][d], lines)]
        /\ todo' = [todo EXCEPT ![p] = todo[p] \ {d}]
  BY <1>2
<1>4. /\ work'[p] = PersistRecord(work[p], d, feed[p][d], lines)
      /\ todo'[p] = todo[p] \ {d}
      /\ feed'[p] = feed[p]
      /\ tables' = tables
  BY <1>3 DEF IInv, TypeOK, PersistDatexRecord
<1>5. /\ work[p] \in Tables
      /\ feed[p] \in [Datex -> Validity]
      /\ lines \in 0..MaxLines
  BY MatchedLinesType DEF IInv, TypeOK
<1>6. DatexInFlight(p) /\ InFlight(p)
  BY <1>1 DEF IInv, InFlight, PersistDatexRecord
<1>7. d \in Datex /\ feed[p][d] \in Validity \ {"absent"}
  BY <1>5, <1>6 DEF DatexInFlight
<1>8. SameRows(work[p], d)
  BY <1>6, <1>7 DEF InFlight
<1>9. /\ SameRows(work'[p], d)
      /\ SameSegment(work'[p], d)
      /\ Tracks(work'[p].zone[d].expires, feed[p][d])
      /\ work[p].zone[d].lines > 0 => work'[p].zone[d].lines > 0
      /\ \A o \in Datex \ {d} : /\ work'[p].zone[o] = work[p].zone[o]
                                /\ work'[p].incident[o] = work[p].incident[o]
                                /\ work'[p].segment[o] = work[p].segment[o]
      /\ work'[p].etraffic = work[p].etraffic
  BY <1>4, <1>5, <1>7, <1>8, PersistRows
<1>10. DatexInFlight(p)'
  <2>1. \A o \in Datex : o \notin todo'[p] => Tracks(work'[p].zone[o].expires, feed'[p][o])
    BY <1>4, <1>6, <1>9 DEF DatexInFlight
  <2> QED BY <1>4, <1>6, <1>9, <2>1 DEF DatexInFlight
<1>11. \A o \in Datex :
         /\ SameRows(work'[p], o)
         /\ o \notin todo'[p] => SameSegment(work'[p], o)
         /\ tables'.zone[o].lines > 0 => work'[p].zone[o].lines > 0
  <2>1. TAKE o \in Datex
  <2>2. CASE o = d
    BY <1>4, <1>6, <1>7, <1>9, <2>2 DEF InFlight
  <2>3. CASE o # d
    BY <1>4, <1>6, <1>9, <2>3 DEF InFlight, SameRows, SameSegment
  <2> QED BY <2>2, <2>3
<1>12. InFlight(p)'
  BY <1>1, <1>10, <1>11 DEF InFlight, SameRows, SameSegment
<1>13. lock = p
  BY DEF PersistDatexRecord, IInv, LockOwner, InTransaction
<1> QED
  BY <1>12, <1>13, WorkStep DEF PersistDatexRecord

(* Writing one eTraffic record does, too.                                   *)
LEMMA PersistEtrafficRecordStep ==
    ASSUME IInv, TypeOK', LockOwner', NEW p \in Runs, PersistEtrafficRecord(p)
    PROVE  IInv'
<1>1. p \in EtrafficRuns /\ p \notin DatexRuns /\ p \notin EnrichRuns
  BY RunKindsAssumption DEF PersistEtrafficRecord
<1>2. PICK e \in todo[p] :
        /\ work' = [work EXCEPT ![p] = PersistEtraffic(work[p], e)]
        /\ todo' = [todo EXCEPT ![p] = todo[p] \ {e}]
  BY DEF PersistEtrafficRecord
<1>3. /\ work'[p] = PersistEtraffic(work[p], e)
      /\ todo'[p] = todo[p] \ {e} /\ listed'[p] = listed[p]
      /\ tables' = tables
  BY <1>2 DEF IInv, TypeOK, PersistEtrafficRecord
<1>4. e \in Etraffic /\ e \notin Datex
  BY <1>1, SourcesAssumption DEF IInv, TypeOK, Records
<1>5. /\ work'[p].zone = work[p].zone
      /\ work'[p].incident = work[p].incident
      /\ work'[p].segment = work[p].segment
      /\ work'[p].etraffic = [work[p].etraffic EXCEPT ![e] = "never"]
  BY <1>3 DEF PersistEtraffic
<1>6. ShownEtraffic(work'[p]) = ShownEtraffic(work[p]) \cup {e}
  <2>1. work[p].etraffic \in [Etraffic -> Validity]
    BY RowsType DEF IInv, TypeOK
  <2> QED BY <1>4, <1>5, <2>1 DEF ShownEtraffic, Shown
<1>7. EtrafficInFlight(p) /\ InFlight(p)
  BY <1>1 DEF IInv, InFlight, PersistEtrafficRecord
<1>8. EtrafficInFlight(p)'
  <2>1. \A d \in Datex : /\ ~Shown(work'[p].zone[d].expires)
                         /\ work'[p].zone[d].lines = tables'.zone[d].lines
    BY <1>3, <1>5, <1>7 DEF EtrafficInFlight
  <2>2. ShownEtraffic(work'[p]) \cup todo'[p] = listed'[p] /\ listed'[p] # {}
    BY <1>2, <1>3, <1>6, <1>7 DEF EtrafficInFlight
  <2> QED BY <2>1, <2>2 DEF EtrafficInFlight, ShownEtraffic
<1>9. InFlight(p)'
  BY <1>1, <1>3, <1>4, <1>5, <1>7, <1>8 DEF InFlight, SameRows, SameSegment
<1>10. lock = p
  BY DEF PersistEtrafficRecord, IInv, LockOwner, InTransaction
<1> QED
  BY <1>9, <1>10, WorkStep DEF PersistEtrafficRecord

(* And so does redrawing one pending restriction.                           *)
LEMMA RedrawPendingRecordStep ==
    ASSUME IInv, TypeOK', LockOwner', NEW p \in Runs, RedrawPendingRecord(p)
    PROVE  IInv'
<1>1. p \in EnrichRuns /\ p \notin DatexRuns /\ p \notin EtrafficRuns
  BY RunKindsAssumption DEF RedrawPendingRecord
<1>2. PICK d \in todo[p] : \E lines \in MatchedLines(d) :
        /\ work' = [work EXCEPT ![p] = RedrawRecord(work[p], d, lines)]
        /\ todo' = [todo EXCEPT ![p] = todo[p] \ {d}]
  BY DEF RedrawPendingRecord
<1>3. PICK lines \in MatchedLines(d) :
        /\ work' = [work EXCEPT ![p] = RedrawRecord(work[p], d, lines)]
        /\ todo' = [todo EXCEPT ![p] = todo[p] \ {d}]
  BY <1>2
<1>4. /\ work'[p] = RedrawRecord(work[p], d, lines)
      /\ todo'[p] = todo[p] \ {d}
      /\ tables' = tables
  BY <1>3 DEF IInv, TypeOK, RedrawPendingRecord
<1>5. work[p] \in Tables /\ lines \in 0..MaxLines
  BY MatchedLinesType DEF IInv, TypeOK
<1>6. EnrichInFlight(p) /\ InFlight(p)
  BY <1>1 DEF IInv, InFlight, RedrawPendingRecord
<1>7. d \in Datex /\ tables.zone[d].expires = "never"
  BY <1>6 DEF EnrichInFlight
<1>8. /\ SameRows(work[p], d)
      /\ SameSegment(work[p], d)
      /\ work[p].zone[d].expires = "never"
  BY <1>6, <1>7 DEF EnrichInFlight, InFlight
<1>9. /\ SameRows(work'[p], d)
      /\ SameSegment(work'[p], d)
      /\ work[p].zone[d].lines > 0 => work'[p].zone[d].lines > 0
      /\ work'[p].zone[d].expires = work[p].zone[d].expires
      /\ \A o \in Datex \ {d} : /\ work'[p].zone[o] = work[p].zone[o]
                                /\ work'[p].incident[o] = work[p].incident[o]
                                /\ work'[p].segment[o] = work[p].segment[o]
      /\ work'[p].etraffic = work[p].etraffic
  BY <1>4, <1>5, <1>7, <1>8, RedrawRows
<1>10. \A o \in Datex :
         /\ SameRows(work'[p], o)
         /\ SameSegment(work'[p], o)
         /\ tables'.zone[o].lines > 0 => work'[p].zone[o].lines > 0
         /\ work'[p].zone[o].expires = tables'.zone[o].expires
         /\ work'[p].zone[o].lines > 0 =>
               tables'.zone[o].lines > 0 \/ tables'.zone[o].expires = "never"
  <2>1. TAKE o \in Datex
  <2>2. CASE o = d
    BY <1>4, <1>6, <1>7, <1>9, <2>2 DEF InFlight, EnrichInFlight
  <2>3. CASE o # d
    BY <1>4, <1>6, <1>9, <2>3 DEF InFlight, EnrichInFlight, SameRows, SameSegment
  <2> QED BY <2>2, <2>3
<1>11. EnrichInFlight(p)'
  BY <1>4, <1>6, <1>9, <1>10 DEF EnrichInFlight, SameSegment
<1>12. InFlight(p)'
  BY <1>1, <1>10, <1>11 DEF InFlight, SameRows, SameSegment
<1>13. lock = p
  BY DEF RedrawPendingRecord, IInv, LockOwner, InTransaction
<1> QED
  BY <1>12, <1>13, WorkStep DEF RedrawPendingRecord

(* A commit puts up what the invariant says the run has in hand.            *)
LEMMA CommitStep ==
    ASSUME IInv, TypeOK', LockOwner', NEW p \in Runs, Commit(p)
    PROVE  IInv'
<1>1. /\ InTransaction(p)
      /\ todo[p] = {}
      /\ tables' = work[p]
      /\ InFlight(p)
  BY DEF Commit, InTransaction, IInv
<1>2. \A q \in Runs : pc'[q] # "persisting"
  BY <1>1, OnlyPersister DEF Commit, IInv, TypeOK
<1>3. RowsAgree'
  BY <1>1 DEF RowsAgree, InFlight, SameRows, SameSegment
<1>4. published \in [datex : [Datex -> Validity], etraffic : SUBSET Etraffic]
  BY DEF IInv, TypeOK
<1>5. BoardTracked' /\ EtrafficExact'
  <2>1. CASE p \in DatexRuns
    <3>1. published'.datex = feed[p] /\ published'.etraffic = published.etraffic
      BY <1>4, <2>1 DEF Commit
    <3>2. DatexInFlight(p)
      BY <1>1, <2>1 DEF InFlight
    <3>3. BoardTracked'
      BY <1>1, <3>1, <3>2 DEF BoardTracked, DatexInFlight
    <3>4. EtrafficExact'
      BY <1>1, <3>1, <3>2 DEF EtrafficExact, ShownEtraffic, DatexInFlight, IInv
    <3> QED BY <3>3, <3>4
  <2>2. CASE p \in EtrafficRuns
    <3>1. /\ published'.datex = NoFeed
          /\ published'.etraffic = listed[p]
      BY <2>2, RunKindsAssumption DEF Commit
    <3>2. EtrafficInFlight(p)
      BY <1>1, <2>2 DEF InFlight
    <3>3. BoardTracked'
      BY <1>1, <3>1, <3>2 DEF BoardTracked, EtrafficInFlight, NoFeed, Tracks
    <3>4. EtrafficExact'
      BY <1>1, <3>1, <3>2 DEF EtrafficExact, EtrafficInFlight, ShownEtraffic
    <3> QED BY <3>3, <3>4
  <2>3. CASE p \in EnrichRuns
    <3>1. published' = published
      BY <2>3, RunKindsAssumption DEF Commit
    <3>2. EnrichInFlight(p)
      BY <1>1, <2>3 DEF InFlight
    <3>3. BoardTracked'
      BY <1>1, <3>1, <3>2 DEF BoardTracked, EnrichInFlight, IInv
    <3>4. EtrafficExact'
      BY <1>1, <3>1, <3>2 DEF EtrafficExact, ShownEtraffic, EnrichInFlight, IInv
    <3> QED BY <3>3, <3>4
  <2> QED BY <2>1, <2>2, <2>3 DEF Runs
<1> QED
  BY <1>2, <1>3, <1>5 DEF IInv

(* One run at work when the announced end of d goes by.                     *)
LEMMA LapseInFlight ==
    ASSUME IInv, TypeOK', NEW d \in Datex, Lapse(d), NEW p \in Runs,
           pc[p] = "persisting"
    PROVE  InFlight(p)'
<1>1. /\ tables \in Tables
      /\ work[p] \in Tables
      /\ feed[p] \in [Datex -> Validity]
      /\ InFlight(p)
  BY DEF IInv, TypeOK
<1>2. /\ tables' = LapseRows(tables, d)
      /\ work'[p] = LapseRows(work[p], d)
      /\ feed'[p] = [feed[p] EXCEPT ![d] = Lapsed(feed[p][d])]
      /\ todo'[p] = todo[p] /\ listed'[p] = listed[p]
  BY DEF Lapse
<1>3. \A o \in Datex :
        /\ tables'.zone[o].expires =
              IF o = d THEN Lapsed(tables.zone[o].expires) ELSE tables.zone[o].expires
        /\ tables'.zone[o].lines = tables.zone[o].lines
        /\ work'[p].zone[o].expires =
              IF o = d THEN Lapsed(work[p].zone[o].expires) ELSE work[p].zone[o].expires
        /\ work'[p].zone[o].lines = work[p].zone[o].lines
        /\ work'[p].incident[o].expires =
              IF o = d THEN Lapsed(work[p].incident[o].expires)
              ELSE work[p].incident[o].expires
        /\ work'[p].segment[o][1].expires =
              IF o = d THEN Lapsed(work[p].segment[o][1].expires)
              ELSE work[p].segment[o][1].expires
        /\ feed'[p][o] = IF o = d THEN Lapsed(feed[p][o]) ELSE feed[p][o]
  BY <1>1, <1>2, LapsedRows
<1>4. tables'.etraffic = tables.etraffic /\ work'[p].etraffic = work[p].etraffic
  BY <1>2 DEF LapseRows
<1>5. \A v \in Validity : /\ Lapsed(v) = "absent" <=> v = "absent"
                          /\ Shown(Lapsed(v)) => Shown(v)
                          /\ v = "never" => Lapsed(v) = "never"
  BY DEF Lapsed, Shown, Validity
<1>6. \A o \in Datex : /\ tables.zone[o].expires \in Validity
                       /\ work[p].zone[o].expires \in Validity
                       /\ work[p].segment[o][1].expires \in Validity
                       /\ feed[p][o] \in Validity
  BY <1>1, RowsType, MaxLinesAssumption
<1>7. \A o \in Datex :
        /\ SameRows(work'[p], o)
        /\ SameSegment(work[p], o) => SameSegment(work'[p], o)
        /\ tables'.zone[o].lines > 0 => work'[p].zone[o].lines > 0
  BY <1>1, <1>3, <1>5, <1>6 DEF InFlight, SameRows, SameSegment
<1>8. ASSUME p \in DatexRuns PROVE DatexInFlight(p)'
  <2>1. DatexInFlight(p)
    BY <1>1, <1>8 DEF InFlight
  <2>2. \A o \in Datex : feed'[p][o] = "absent" <=> feed[p][o] = "absent"
    BY <1>3, <1>5, <1>6
  <2>3. \A o \in Datex : o \notin todo'[p] => Tracks(work'[p].zone[o].expires, feed'[p][o])
    BY <1>2, <1>3, <1>6, <2>1, LapsedTracks DEF DatexInFlight
  <2> QED BY <1>2, <1>4, <2>1, <2>2, <2>3 DEF DatexInFlight
<1>9. ASSUME p \in EtrafficRuns PROVE EtrafficInFlight(p)'
  <2>1. EtrafficInFlight(p)
    BY <1>1, <1>9 DEF InFlight
  <2> QED BY <1>2, <1>3, <1>4, <1>5, <1>6, <2>1 DEF EtrafficInFlight, ShownEtraffic
<1>10. ASSUME p \in EnrichRuns PROVE EnrichInFlight(p)'
  <2>1. EnrichInFlight(p)
    BY <1>1, <1>10 DEF InFlight
  <2>2. \A o \in Datex : SameSegment(work'[p], o)
    BY <1>7, <2>1 DEF EnrichInFlight
  <2>3. \A o \in Datex :
          /\ work'[p].zone[o].expires = tables'.zone[o].expires
          /\ tables.zone[o].expires = "never" => tables'.zone[o].expires = "never"
    BY <1>3, <1>5, <1>6, <2>1 DEF EnrichInFlight
  <2> QED
    BY <1>2, <1>3, <1>4, <2>1, <2>2, <2>3 DEF EnrichInFlight, SameSegment
<1> QED
  BY <1>1, <1>2, <1>7, <1>8, <1>9, <1>10 DEF InFlight, SameRows, SameSegment

(* An announced end goes by for rows, open transactions and observer alike. *)
LEMMA LapseStep ==
    ASSUME IInv, TypeOK', LockOwner', NEW d \in Datex, Lapse(d)
    PROVE  IInv'
<1>1. /\ tables \in Tables
      /\ published \in [datex : [Datex -> Validity], etraffic : SUBSET Etraffic]
  BY DEF IInv, TypeOK
<1>2. /\ tables' = LapseRows(tables, d)
      /\ published'.datex = [published.datex EXCEPT ![d] = Lapsed(published.datex[d])]
      /\ published'.etraffic = published.etraffic
  BY <1>1 DEF Lapse
<1>3. \A o \in Datex :
        /\ tables'.zone[o].expires =
              IF o = d THEN Lapsed(tables.zone[o].expires) ELSE tables.zone[o].expires
        /\ tables'.zone[o].lines = tables.zone[o].lines
        /\ tables'.incident[o].expires =
              IF o = d THEN Lapsed(tables.incident[o].expires)
              ELSE tables.incident[o].expires
        /\ tables'.segment[o][1].expires =
              IF o = d THEN Lapsed(tables.segment[o][1].expires)
              ELSE tables.segment[o][1].expires
        /\ published'.datex[o] =
              IF o = d THEN Lapsed(published.datex[o]) ELSE published.datex[o]
        /\ tables.zone[o].expires \in Validity
        /\ published.datex[o] \in Validity
  BY <1>1, <1>2, LapsedRows, RowsType
<1>4. BoardTracked'
  BY <1>3, LapsedTracks DEF IInv, BoardTracked
<1>5. \A v \in Validity : Lapsed(v) = "absent" <=> v = "absent"
  BY DEF Lapsed, Validity
<1>6. \A o \in Datex : tables.segment[o][1].expires \in Validity
  BY <1>1, RowsType, MaxLinesAssumption
<1>7. RowsAgree'
  BY <1>3, <1>5, <1>6 DEF IInv, RowsAgree, SameRows, SameSegment
<1>8. EtrafficExact'
  BY <1>2 DEF IInv, EtrafficExact, ShownEtraffic, LapseRows
<1>9. \A p \in Runs : pc'[p] = "persisting" => InFlight(p)'
  BY LapseInFlight DEF Lapse
<1> QED
  BY <1>4, <1>7, <1>8, <1>9 DEF IInv

(* At first nothing is published and nothing is shown.                      *)
LEMMA InitIInv == Init => IInv
<1> SUFFICES ASSUME Init PROVE IInv
  OBVIOUS
<1>1. TypeOK
  BY InitTypeOK
<1>2. LockOwner
  BY NoRunAssumption DEF Init, LockOwner, InTransaction
<1>3. BoardTracked
  BY DEF Init, BoardTracked, Tracks, Shown, NoFeed, EmptyTables
<1>4. RowsAgree
  BY MaxLinesAssumption DEF Init, RowsAgree, SameRows, SameSegment, EmptyTables
<1>5. EtrafficExact
  BY DEF Init, EtrafficExact, ShownEtraffic, Shown, EmptyTables
<1> QED
  BY <1>1, <1>2, <1>3, <1>4, <1>5 DEF IInv, Init

(* Every step keeps the invariant.                                          *)
LEMMA StepIInv ==
    ASSUME IInv, [Next]_vars
    PROVE  IInv'
<1>1. TypeOK' /\ LockOwner'
  BY StepTypeOK, StepLockOwner DEF IInv
<1>2. ASSUME NEW p \in Runs, Acquire(p) PROVE IInv'
  BY <1>1, <1>2, QuietStep DEF Acquire, IInv, TypeOK
<1>3. ASSUME NEW p \in Runs, Skip(p) PROVE IInv'
  BY <1>1, <1>3, QuietStep DEF Skip
<1>4. ASSUME NEW p \in Runs, Step(p) PROVE IInv'
  <2>1. CASE FetchDatex(p)
    BY <1>1, <2>1, FetchDatexStep
  <2>2. CASE PersistDatexRecord(p)
    BY <1>1, <2>2, PersistDatexRecordStep
  <2>3. CASE FetchEtraffic(p)
    BY <1>1, <2>3, FetchEtrafficStep
  <2>4. CASE PersistEtrafficRecord(p)
    BY <1>1, <2>4, PersistEtrafficRecordStep
  <2>5. CASE SelectPending(p)
    BY <1>1, <2>5, SelectPendingStep
  <2>6. CASE RedrawPendingRecord(p)
    BY <1>1, <2>6, RedrawPendingRecordStep
  <2>7. CASE Commit(p)
    BY <1>1, <2>7, CommitStep
  <2>8. CASE Fail(p)
    BY <1>1, <2>8, RollbackStep DEF Fail
  <2>9. CASE RecordFailure(p)
    BY <1>1, <2>9, QuietStep DEF RecordFailure, IInv, TypeOK
  <2>10. CASE Lose(p)
    <3>1. CASE InTransaction(p)
      BY <1>1, <2>10, <3>1, RollbackStep DEF Lose
    <3>2. CASE ~InTransaction(p)
      BY <1>1, <2>10, <3>2, QuietStep DEF Lose, IInv, TypeOK
    <3> QED BY <3>1, <3>2
  <2> QED
    BY <1>4, <2>1, <2>2, <2>3, <2>4, <2>5, <2>6, <2>7, <2>8, <2>9, <2>10 DEF Step
<1>5. ASSUME NEW d \in Datex, Lapse(d) PROVE IInv'
  BY <1>1, <1>5, LapseStep
<1>6. ASSUME UNCHANGED vars PROVE IInv'
  BY <1>1, <1>6, QuietStep DEF vars
<1> QED
  BY <1>2, <1>3, <1>4, <1>5, <1>6 DEF Next

(* The inductive invariant: the lock, the board and what a run at work has  *)
(* in hand.                                                                 *)
THEOREM InvariantCorrect == Spec => []IInv
<1>1. IInv /\ [Next]_vars => IInv'
  BY StepIInv
<1> QED BY InitIInv, <1>1, PTL DEF Spec

(* Readers see the last complete DATEX snapshot, whatever overlaps, fails   *)
(* or dies: what it announces as running is shown, what it leaves out is    *)
(* hidden.                                                                  *)
THEOREM SnapshotCorrect == Spec => []SnapshotExact
<1>1. IInv => SnapshotExact
  BY DEF IInv, BoardTracked, Tracks, SnapshotExact, Shown
<1> QED BY <1>1, InvariantCorrect, PTL

(* Zones, incidents and first segments are in force together.               *)
THEOREM TablesCorrect == Spec => []TablesAgree
<1>1. IInv => TablesAgree
  BY DEF IInv, RowsAgree, SameRows, SameSegment, TablesAgree
<1> QED BY <1>1, InvariantCorrect, PTL

(* Readers see the last complete eTraffic snapshot as it was fetched: all   *)
(* of its records and no other.                                             *)
THEOREM EtrafficCorrect == Spec => []EtrafficExact
<1>1. IInv => EtrafficExact
  BY DEF IInv
<1> QED BY <1>1, InvariantCorrect, PTL

(* Tables change only when a run commits its copy or when an end passes.    *)
LEMMA TablesStep ==
    ASSUME IInv, [Next]_vars
    PROVE  \/ tables' = tables
           \/ \E p \in Runs : Commit(p)
           \/ \E d \in Datex : Lapse(d)
BY DEF Next, Step, vars, Acquire, Skip, FetchDatex, PersistDatexRecord, FetchEtraffic,
       PersistEtrafficRecord, SelectPending, RedrawPendingRecord, Fail, RecordFailure,
       Lose

(* A restriction drawn along its road is never drawn straight again, for    *)
(* any answers of the road services and any interleaving of runs.           *)
THEOREM RoutesCorrect == Spec => RouteNeverFlattened
<1>1. ASSUME IInv, [Next]_vars
      PROVE  \A d \in Datex : tables.zone[d].lines > 0 => tables'.zone[d].lines > 0
  <2>1. CASE tables' = tables
    BY <2>1
  <2>2. ASSUME NEW p \in Runs, Commit(p)
        PROVE  \A d \in Datex : tables.zone[d].lines > 0 => tables'.zone[d].lines > 0
    BY <1>1, <2>2 DEF Commit, IInv, InFlight
  <2>3. ASSUME NEW e \in Datex, Lapse(e)
        PROVE  \A d \in Datex : tables.zone[d].lines > 0 => tables'.zone[d].lines > 0
    BY <1>1, <2>3, LapsedRows DEF Lapse, IInv, TypeOK
  <2> QED BY <1>1, <2>1, <2>2, <2>3, TablesStep
<1>2. IInv /\ [Next]_vars =>
        [\A d \in Datex : tables.zone[d].lines > 0 => tables'.zone[d].lines > 0]_vars
  BY <1>1
<1> QED BY <1>2, InvariantCorrect, PTL DEF Spec, RouteNeverFlattened

(* Only a run that ends "completed", or time, changes rows: a run that      *)
(* fails, is skipped or dies leaves none of its work behind.                *)
THEOREM WritesCorrect == Spec => OnlyCompletedRunsWrite
<1>1. ASSUME IInv, [Next]_vars
      PROVE  tables' # tables =>
               \/ \E p \in Runs : pc[p] = "persisting" /\ pc'[p] = "idle"
                                  /\ result'[p] = "completed"
               \/ \E d \in Datex : tables' = LapseRows(tables, d)
  <2>1. ASSUME NEW p \in Runs, Commit(p)
        PROVE  pc[p] = "persisting" /\ pc'[p] = "idle" /\ result'[p] = "completed"
    BY <1>1, <2>1 DEF Commit, IInv, TypeOK
  <2>2. ASSUME NEW d \in Datex, Lapse(d) PROVE tables' = LapseRows(tables, d)
    BY <2>2 DEF Lapse
  <2> QED BY <1>1, <2>1, <2>2, TablesStep
<1>2. IInv /\ [Next]_vars =>
        [tables' # tables =>
           \/ \E p \in Runs : pc[p] = "persisting" /\ pc'[p] = "idle"
                              /\ result'[p] = "completed"
           \/ \E d \in Datex : tables' = LapseRows(tables, d)]_vars
  BY <1>1
<1> QED BY <1>2, InvariantCorrect, PTL DEF Spec, OnlyCompletedRunsWrite

(***************************************************************************)
(* The board readers see is the board of TrafficBoard.                     *)
(***************************************************************************)

ShownBoard == ShownZones(tables) \cup ShownEtraffic(tables)

RoutedBoard == {d \in Datex : tables.zone[d].lines > 0}

(* At first the board is empty.                                             *)
LEMMA BoardInit == Init => Board!Init
BY DEF Init, Board!Init, ShownZones, ShownEtraffic, Shown, EmptyTables, NoFeed

(* The commit of a DATEX run puts a whole snapshot up.                      *)
LEMMA DatexCommitPublishes ==
    ASSUME IInv, IInv', NEW p \in DatexRuns, Commit(p)
    PROVE  Board!PublishDatex
<1>1. p \in Runs
  BY DEF Runs
<1>2. /\ tables' = work[p]
      /\ todo[p] = {}
      /\ published'.datex = feed[p]
      /\ feed[p] \in [Datex -> Validity]
      /\ DatexInFlight(p)
      /\ \A d \in Datex : tables.zone[d].lines > 0 => tables'.zone[d].lines > 0
  BY <1>1 DEF Commit, IInv, TypeOK, InFlight
<1>3. \A d \in Datex : Tracks(tables'.zone[d].expires, feed[p][d])
  BY <1>2 DEF DatexInFlight
<1>4. ShownEtraffic(tables)' = ShownEtraffic(tables)
  BY <1>2 DEF ShownEtraffic, DatexInFlight
<1>5. ShownBoard' \cap Etraffic = ShownBoard \cap Etraffic
  BY <1>4, SourcesAssumption DEF ShownBoard, ShownZones, ShownEtraffic
<1>6. ShownBoard' \subseteq Datex \cup Etraffic
  BY DEF ShownBoard, ShownZones, ShownEtraffic
<1>7. \A d \in Datex : /\ feed[p][d] \in Board!Running => d \in ShownBoard'
                       /\ feed[p][d] = "absent" => d \notin ShownBoard'
  BY <1>3, SourcesAssumption
     DEF Board!Running, ShownBoard, ShownZones, ShownEtraffic, Tracks, Shown
<1>8. RoutedBoard \subseteq RoutedBoard' /\ RoutedBoard' \subseteq Datex
  BY <1>2 DEF RoutedBoard
<1>9. feed[p] \in [Datex -> Board!Validity] /\ \E d \in Datex : feed[p][d] # "absent"
  BY <1>2 DEF DatexInFlight, Validity, Board!Validity
<1> QED
  BY <1>2, <1>5, <1>6, <1>7, <1>8, <1>9
     DEF Board!PublishDatex, ShownBoard, RoutedBoard

(* The commit of an eTraffic run takes the whole board.                     *)
LEMMA EtrafficCommitPublishes ==
    ASSUME IInv, IInv', NEW p \in EtrafficRuns, Commit(p)
    PROVE  Board!PublishEtraffic
<1>1. p \in Runs /\ p \notin DatexRuns
  BY RunKindsAssumption DEF Runs
<1>2. /\ tables' = work[p]
      /\ todo[p] = {}
      /\ published'.datex = NoFeed
      /\ EtrafficInFlight(p)
  BY <1>1 DEF Commit, IInv, InFlight
<1>3. ShownBoard' = ShownEtraffic(work[p]) /\ ShownEtraffic(work[p]) # {}
  BY <1>2 DEF ShownBoard, ShownZones, ShownEtraffic, EtrafficInFlight
<1>4. RoutedBoard' = RoutedBoard
  BY <1>2 DEF RoutedBoard, EtrafficInFlight
<1>5. ShownEtraffic(work[p]) \in SUBSET Etraffic
  BY DEF ShownEtraffic
<1> QED
  BY <1>2, <1>3, <1>4, <1>5
     DEF Board!PublishEtraffic, ShownBoard, RoutedBoard, NoFeed

(* The commit of an enrichment run only redraws restrictions in force.      *)
LEMMA EnrichCommitRedraws ==
    ASSUME IInv, IInv', NEW p \in EnrichRuns, Commit(p)
    PROVE  Board!Redraw
<1>1. p \in Runs /\ p \notin DatexRuns /\ p \notin EtrafficRuns
  BY RunKindsAssumption DEF Runs
<1>2. /\ tables' = work[p]
      /\ published' = published
      /\ EnrichInFlight(p)
      /\ \A d \in Datex : tables.zone[d].lines > 0 => tables'.zone[d].lines > 0
  BY <1>1 DEF Commit, IInv, InFlight
<1>3. ShownBoard' = ShownBoard
  BY <1>2 DEF ShownBoard, ShownZones, ShownEtraffic, EnrichInFlight
<1>4. RoutedBoard \subseteq RoutedBoard'
  BY <1>2 DEF RoutedBoard
<1>5. RoutedBoard' \subseteq RoutedBoard \cup (ShownBoard \cap Datex)
  BY <1>2 DEF RoutedBoard, ShownBoard, ShownZones, Shown, EnrichInFlight
<1> QED
  BY <1>2, <1>3, <1>4, <1>5 DEF Board!Redraw, ShownBoard, RoutedBoard

(* Time takes a restriction off the board only at its announced end.        *)
LEMMA LapseEndsOne ==
    ASSUME IInv, IInv', NEW d \in Datex, Lapse(d)
    PROVE  Board!EndPasses
<1>1. /\ tables \in Tables
      /\ published \in [datex : [Datex -> Validity], etraffic : SUBSET Etraffic]
  BY DEF IInv, TypeOK
<1>2. /\ tables' = LapseRows(tables, d)
      /\ published'.datex = [published.datex EXCEPT ![d] = Lapsed(published.datex[d])]
  BY <1>1 DEF Lapse
<1>3. \A o \in Datex :
        /\ tables'.zone[o].expires =
              IF o = d THEN Lapsed(tables.zone[o].expires) ELSE tables.zone[o].expires
        /\ tables'.zone[o].lines = tables.zone[o].lines
  BY <1>1, <1>2, LapsedRows
<1>4. RoutedBoard' = RoutedBoard
  BY <1>3 DEF RoutedBoard
<1>5. ShownEtraffic(tables)' = ShownEtraffic(tables)
  BY <1>2 DEF ShownEtraffic, LapseRows
<1>6. ShownBoard' \in {ShownBoard, ShownBoard \ {d}}
  BY <1>3, <1>5, SourcesAssumption
     DEF ShownBoard, ShownZones, ShownEtraffic, Shown, Lapsed
<1>7. CASE published.datex[d] = "never"
  <2>1. tables.zone[d].expires = "never"
    BY <1>7 DEF IInv, BoardTracked, Tracks
  <2>2. ShownBoard' = ShownBoard
    BY <1>3, <1>5, <2>1 DEF ShownBoard, ShownZones, Lapsed
  <2>3. published'.datex = published.datex
    BY <1>1, <1>2, <1>7 DEF Lapsed
  <2> QED
    BY <1>4, <2>2, <2>3 DEF Board!EndPasses, ShownBoard, RoutedBoard
<1>8. CASE published.datex[d] = "future"
  <2>1. published'.datex = [published.datex EXCEPT ![d] = "past"]
    BY <1>2, <1>8 DEF Lapsed
  <2> QED
    BY <1>4, <1>6, <1>8, <2>1 DEF Board!EndPasses, ShownBoard, RoutedBoard
<1>9. CASE published.datex[d] \notin {"never", "future"}
  <2>1. published'.datex = published.datex
    BY <1>1, <1>2, <1>9 DEF Lapsed
  <2> QED
    BY <1>4, <1>6, <1>9, <2>1 DEF Board!EndPasses, ShownBoard, RoutedBoard
<1> QED BY <1>7, <1>8, <1>9

(* Every other step is invisible.                                           *)
LEMMA BoardStutters ==
    ASSUME IInv, [Next]_vars,
           ~\E p \in Runs : Commit(p), ~\E d \in Datex : Lapse(d)
    PROVE  UNCHANGED Board!boardVars
<1>1. tables' = tables
  BY TablesStep
<1>2. published' = published
  BY DEF Next, Step, vars, Acquire, Skip, FetchDatex, PersistDatexRecord,
         FetchEtraffic, PersistEtrafficRecord, SelectPending, RedrawPendingRecord,
         Fail, RecordFailure, Lose
<1> QED
  BY <1>1, <1>2 DEF Board!boardVars, ShownZones, ShownEtraffic

(* The ingestion implements the board: whole snapshots replace one another, *)
(* drawings only improve, and nothing else but time changes what is shown.  *)
THEOREM BoardCorrect == Spec => ImplementsBoard
<1>1. ASSUME IInv, IInv', [Next]_vars PROVE [Board!Next]_Board!boardVars
  <2>1. ASSUME NEW p \in Runs, Commit(p) PROVE Board!Next
    BY <1>1, <2>1, DatexCommitPublishes, EtrafficCommitPublishes,
       EnrichCommitRedraws DEF Runs, Board!Next
  <2>2. ASSUME NEW d \in Datex, Lapse(d) PROVE Board!Next
    BY <1>1, <2>2, LapseEndsOne DEF Board!Next
  <2> QED BY <1>1, <2>1, <2>2, BoardStutters
<1>2. IInv /\ IInv' /\ [Next]_vars => [Board!Next]_Board!boardVars
  BY <1>1
<1> QED
  BY <1>2, BoardInit, InvariantCorrect, PTL DEF Spec, ImplementsBoard, Board!Spec
=============================================================================
