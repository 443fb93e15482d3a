----------------------------- MODULE Connectors -----------------------------
(***************************************************************************)
(* The skeleton that the other ingestion connectors share: fetch the       *)
(* requests of the provider one after the other, with retries; refuse what *)
(* cannot be parsed; get or create the row of the source, whose name is    *)
(* unique; keep the raw payload in the object store; write a STARTED run   *)
(* row; insert the records whose digest the table does not hold; complete  *)
(* the run row and commit.  A failure goes to record_failure, after a      *)
(* rollback in some connectors and in the transaction that failed in the   *)
(* others.  The emergency OSINT connector differs: it commits its STARTED  *)
(* run row before it fetches, tolerates sources that fail, and the service *)
(* it calls commits what it ingests.  Runs of a connector may overlap, the *)
(* database and the object store may go away at any moment, and the        *)
(* database may refuse what a run writes.                                  *)
(***************************************************************************)
EXTENDS Integers, FiniteSets

CONSTANTS
    Runs,          \* executions that may overlap: Celery task, manual endpoint
    Record,        \* what the provider may publish: [item, says]
    Editions,      \* what it may say of an item
    Core,          \* what an edition says once some of its fields are left out
    Requests,      \* requests a fetch makes, per connector
    MaxRetries,    \* attempts per request
    Budget,        \* features an IGN run keeps at most (max_features)
    MaxParameters  \* arguments a statement may carry (asyncpg)

Connectors == {"aemet", "alerts", "plans", "ign", "osm", "osint"}

ASSUME RequestsAssumption == Requests \in [Connectors -> Nat \ {0}]
ASSUME RecordAssumption == \A r \in Record : r.says \in Editions
ASSUME CoreAssumption == Core \in [Editions -> Editions]
ASSUME BoundsAssumption == MaxRetries \in Nat \ {0} /\ Budget \in Nat /\ MaxParameters \in Nat

VARIABLES
    kind,     \* the connector the runs belong to
    up,       \* what answers: the database, the object store
    source,   \* the row of the source is committed
    stored,   \* committed records
    ledger,   \* committed run rows of the last execution of each run
    pc,       \* where each run is
    work,     \* what its fetch has so far
    txn,      \* its open transaction
    outcome,  \* how the last execution ended
    outage,   \* observer: something was away during the run
    early,    \* observer: the source did not exist when the run began
    refused   \* observer: the database has refused what the run wrote

vars == <<kind, up, source, stored, ledger, pc, work, txn, outcome, outage, early, refused>>

(* Connectors that call rollback before record_failure.                     *)
RollsBack == {"alerts", "plans", "osint"}

(* Connectors whose digest leaves fields out: the issue time of a forecast, *)
(* the geometry of a road, the tags of a way that are not retained.         *)
Loose == {"aemet", "ign", "osm"}

(* deduplication_hash                                                       *)
Digest(r) == <<r.item, IF kind \in Loose THEN Core[r.says] ELSE r.says>>

Digests(records) == {Digest(r) : r \in records}

Statuses == {"STARTED", "COMPLETED", "PARTIAL", "FAILED"}

Places == {"idle", "targeting", "sourcing", "inserting", "opening", "fetching", "validating",
           "storing", "checking", "ingesting", "committing", "failing", "recreating"}

(* asked: requests answered; attempt: at the next one; failures: a source   *)
(* of an OSINT run has failed; batch: the records fetched.                  *)
Work == [asked : Nat, attempt : Nat, failures : BOOLEAN, batch : SUBSET Record]

(* session: no statement yet, a transaction, or one that was lost and that  *)
(* only a rollback ends; creating: it has inserted the source; started: a   *)
(* STARTED run row; added: records.                                         *)
Transaction == [session : {"fresh", "open", "broken"}, creating : BOOLEAN,
                started : BOOLEAN, added : SUBSET Record]

NoWork == [asked |-> 0, attempt |-> 1, failures |-> FALSE, batch |-> {}]

Nothing(session) == [session |-> session, creating |-> FALSE, started |-> FALSE, added |-> {}]

TypeOK ==
    /\ kind \in Connectors
    /\ up \in [{"database", "store"} -> BOOLEAN]
    /\ source \in BOOLEAN
    /\ stored \subseteq Record
    /\ ledger \in [Runs -> SUBSET Statuses]
    /\ pc \in [Runs -> Places]
    /\ work \in [Runs -> Work]
    /\ \A p \in Runs : work[p].asked <= Requests[kind] /\ work[p].attempt \in 1..MaxRetries
    /\ txn \in [Runs -> Transaction]
    /\ outcome \in [Runs -> {"none", "completed", "partial", "failed", "raised", "killed"}]
    /\ outage \in [Runs -> BOOLEAN]
    /\ early \in [Runs -> BOOLEAN]
    /\ refused \in [Runs -> BOOLEAN]

Init ==
    /\ kind \in Connectors
    /\ up = [s \in {"database", "store"} |-> TRUE]
    /\ source = FALSE
    /\ stored = {}
    /\ ledger = [p \in Runs |-> {}]
    /\ pc = [p \in Runs |-> "idle"]
    /\ work = [p \in Runs |-> NoWork]
    /\ txn = [p \in Runs |-> Nothing("fresh")]
    /\ outcome = [p \in Runs |-> "none"]
    /\ outage = [p \in Runs |-> FALSE]
    /\ early = [p \in Runs |-> FALSE]
    /\ refused = [p \in Runs |-> FALSE]

(* The database or the object store goes away or comes back.  Transactions  *)
(* do not outlive the database.                                             *)
Switch(service) ==
    /\ up' = [up EXCEPT ![service] = ~up[service]]
    /\ outage' = IF up[service]
                 THEN [p \in Runs |-> outage[p] \/ pc[p] # "idle"]
                 ELSE outage
    /\ txn' = IF service = "database" /\ up[service]
              THEN [p \in Runs |-> IF txn[p].session = "fresh" THEN txn[p] ELSE Nothing("broken")]
              ELSE txn
    /\ UNCHANGED <<kind, source, stored, ledger, pc, work, outcome, early, refused>>

(* Where execute goes first: IGN looks for the roads of the open traffic    *)
(* restrictions, OSINT for its source, the others to the provider.          *)
Entry == CASE kind = "ign" -> "targeting" [] kind = "osint" -> "sourcing" [] OTHER -> "fetching"

(* The task or the endpoint calls execute.                                  *)
Start(p) ==
    /\ pc[p] = "idle"
    /\ pc' = [pc EXCEPT ![p] = Entry]
    /\ ledger' = [ledger EXCEPT ![p] = {}]
    /\ outcome' = [outcome EXCEPT ![p] = "none"]
    /\ outage' = [outage EXCEPT ![p] = ~(up["database"] /\ up["store"])]
    /\ early' = [early EXCEPT ![p] = ~source]
    /\ refused' = [refused EXCEPT ![p] = FALSE]
    /\ UNCHANGED <<kind, up, source, stored, work, txn>>

(* A run moves on: nothing of the tables changes.                           *)
Goto(p, place) ==
    /\ pc' = [pc EXCEPT ![p] = place]
    /\ UNCHANGED <<kind, up, source, stored, ledger, outcome, outage, early, refused>>

(* A statement of the run would find no transaction to belong to.           *)
Cut(p) == txn[p].session = "broken" \/ ~up["database"]

(* The transaction that record_failure finds: after a rollback, or not.     *)
FaultForgetsRollback(p, session) == IF session = "broken" THEN Nothing("broken") ELSE txn[p]

Handed(p, session) ==
    IF kind \in RollsBack THEN Nothing("fresh")
    ELSE IF session = "broken" THEN Nothing("broken")
    ELSE txn[p]

(* An exception reaches the handler of execute.                             *)
Raise(p, session) ==
    /\ Goto(p, "failing")
    /\ txn' = [txn EXCEPT ![p] = Handed(p, session)]
    /\ UNCHANGED work

(* A statement finds no database.  The first one of a session may fail to   *)
(* connect, which leaves the session as it was.                             *)
DatabaseFails(p) ==
    /\ pc[p] \in {"targeting", "sourcing", "inserting", "checking", "ingesting", "committing"}
    /\ kind = "osint" => pc[p] \in {"ingesting", "committing"}
    /\ Cut(p)
    /\ \E session \in {"broken", txn[p].session} : Raise(p, session)

(* The open restrictions of the DATEX connector, whose roads IGN asks for.  *)
Target(p) ==
    /\ pc[p] = "targeting"
    /\ ~Cut(p)
    /\ txn' = [txn EXCEPT ![p].session = "open"]
    /\ Goto(p, "fetching")
    /\ UNCHANGED work

AfterFetch == IF kind = "osint" THEN "ingesting" ELSE "validating"

(* IGN keeps the first feature of each identifier and stops at its budget.  *)
Kept(batch, found) ==
    kind = "ign" =>
        /\ Cardinality(batch \cup found) <= Budget
        /\ \A a, b \in batch \cup found : a.item = b.item => a = b

(* The provider answers a request with whatever it says now.                *)
Answer(p) ==
    /\ pc[p] = "fetching"
    /\ \E found \in SUBSET (Record \ work[p].batch) :
          LET batch == work[p].batch \cup found
              full == kind = "ign" /\ Cardinality(batch) = Budget
              asked == IF full THEN Requests[kind] ELSE work[p].asked + 1
          IN
          /\ Kept(work[p].batch, found)
          /\ work' = [work EXCEPT ![p].asked = asked, ![p].attempt = 1, ![p].batch = batch]
          /\ Goto(p, IF asked = Requests[kind] THEN AfterFetch ELSE "fetching")
    /\ UNCHANGED txn

FaultAttempts(p) ==
    /\ pc[p] = "fetching"
    /\ kind # "osint"
    /\ work[p].attempt <= MaxRetries
    /\ work' = [work EXCEPT ![p].attempt = work[p].attempt + 1]
    /\ Goto(p, "fetching")
    /\ UNCHANGED txn

FaultRetry(p) ==
    /\ pc[p] = "fetching"
    /\ kind # "osint"
    /\ work' = [work EXCEPT ![p].attempt = 1 + (work[p].attempt % MaxRetries)]
    /\ Goto(p, "fetching")
    /\ UNCHANGED txn

(* A timeout: another attempt, after a pause.                               *)
Retry(p) ==
    /\ pc[p] = "fetching"
    /\ kind # "osint"
    /\ work[p].attempt < MaxRetries
    /\ work' = [work EXCEPT ![p].attempt = work[p].attempt + 1]
    /\ Goto(p, "fetching")
    /\ UNCHANGED txn

(* The last attempt, an HTTP error status or a missing key: what the other  *)
(* requests returned is dropped with the run.                               *)
GiveUp(p) ==
    /\ pc[p] = "fetching"
    /\ kind # "osint"
    /\ Raise(p, txn[p].session)

(* A source of an OSINT run fails: the run goes on without it.              *)
SkipSource(p) ==
    /\ pc[p] = "fetching"
    /\ kind = "osint"
    /\ work' = [work EXCEPT ![p].asked = work[p].asked + 1, ![p].failures = TRUE]
    /\ Goto(p, IF work[p].asked + 1 = Requests[kind] THEN AfterFetch ELSE "fetching")
    /\ UNCHANGED txn

(* deduplicate: one record of each digest.                                  *)
Deduplicated(records) ==
    {unique \in SUBSET records :
        /\ Digests(unique) = Digests(records)
        /\ Cardinality(unique) = Cardinality(Digests(records))}

Validate(p) ==
    /\ pc[p] = "validating"
    /\ \E unique \in Deduplicated(work[p].batch) : work' = [work EXCEPT ![p].batch = unique]
    /\ Goto(p, "sourcing")
    /\ UNCHANGED txn

(* validate or normalize refuses the answer; of an OSINT run, an answer no  *)
(* handler of a source expects.                                             *)
Reject(p) ==
    /\ \/ pc[p] = "validating"
       \/ pc[p] = "fetching" /\ kind = "osint"
    /\ Raise(p, txn[p].session)

AfterSource == IF kind = "osint" THEN "opening" ELSE "storing"

(* The SELECT of the source by its name.                                    *)
FindSource(p) ==
    /\ pc[p] = "sourcing"
    /\ ~Cut(p)
    /\ txn' = [txn EXCEPT ![p].session = "open"]
    /\ Goto(p, IF source THEN AfterSource ELSE "inserting")
    /\ UNCHANGED work

(* An INSERT waits for the transaction that has inserted the same name.     *)
Unclaimed(p) == \A q \in Runs \ {p} : ~txn[q].creating

InsertSource(p) ==
    /\ pc[p] = "inserting"
    /\ ~Cut(p)
    /\ ~source
    /\ Unclaimed(p)
    /\ txn' = [txn EXCEPT ![p].creating = TRUE]
    /\ Goto(p, AfterSource)
    /\ UNCHANGED work

(* The source, once another run has committed it, cannot be inserted again. *)
SourceExists(p) ==
    /\ pc[p] = "inserting"
    /\ kind # "osint"
    /\ ~Cut(p)
    /\ source
    /\ Raise(p, "broken")

(* put_text_object                                                          *)
StoreRaw(p) ==
    /\ pc[p] = "storing"
    /\ up["store"]
    /\ Goto(p, "checking")
    /\ UNCHANGED <<work, txn>>

StoreFails(p) ==
    /\ pc[p] = "storing"
    /\ ~up["store"]
    /\ Raise(p, txn[p].session)

(* The records that the SELECT of their digests does not find.              *)
Absent(p) == {r \in work[p].batch : Digest(r) \notin Digests(stored)}

(* The flush of the STARTED run row, the SELECT of the digests, the rows.   *)
Insert(p) ==
    /\ pc[p] = "checking"
    /\ ~Cut(p)
    /\ Cardinality(work[p].batch) <= MaxParameters
    /\ txn' = [txn EXCEPT ![p].started = TRUE, ![p].added = Absent(p)]
    /\ Goto(p, "committing")
    /\ UNCHANGED work

FaultNoRollback(p) ==
    /\ pc[p] = "checking"
    /\ ~Cut(p)
    /\ Cardinality(work[p].batch) > MaxParameters
    /\ txn' = [txn EXCEPT ![p].started = TRUE]
    /\ Goto(p, "failing")
    /\ UNCHANGED work

FaultAddsFirst(p) ==
    /\ pc[p] = "checking"
    /\ ~Cut(p)
    /\ Cardinality(work[p].batch) > MaxParameters
    /\ txn' = [txn EXCEPT ![p] = IF kind \in RollsBack THEN Nothing("fresh")
                                 ELSE [txn[p] EXCEPT !.started = TRUE, !.added = work[p].batch]]
    /\ Goto(p, "failing")
    /\ UNCHANGED work

(* The driver refuses a SELECT of more digests than arguments: the STARTED  *)
(* row is flushed and the transaction goes on.                              *)
TooManyDigests(p) ==
    /\ pc[p] = "checking"
    /\ ~Cut(p)
    /\ Cardinality(work[p].batch) > MaxParameters
    /\ txn' = [txn EXCEPT ![p] = IF kind \in RollsBack THEN Nothing("fresh")
                                 ELSE [txn[p] EXCEPT !.started = TRUE]]
    /\ Goto(p, "failing")
    /\ UNCHANGED work

(* The database refuses what a run writes: a text too long for its column,  *)
(* a NUL in a payload, a deadlock, at the flush of the run row, at that of  *)
(* the records or at the commit.  Only a rollback ends such a transaction.  *)
(* (The FAILED row of record_failure quotes the error and is accepted.)     *)
Refused(p) ==
    /\ pc[p] \in {"checking", "committing"}
    /\ ~Cut(p)
    /\ pc' = [pc EXCEPT ![p] = "failing"]
    /\ txn' = [txn EXCEPT ![p] = Handed(p, "broken")]
    /\ refused' = [refused EXCEPT ![p] = TRUE]
    /\ UNCHANGED <<kind, up, source, stored, ledger, work, outcome, outage, early>>

(* execute ends and its session closes.                                     *)
End(p, answer) ==
    /\ pc' = [pc EXCEPT ![p] = "idle"]
    /\ work' = [work EXCEPT ![p] = NoWork]
    /\ txn' = [txn EXCEPT ![p] = Nothing("fresh")]
    /\ outcome' = [outcome EXCEPT ![p] = answer]
    /\ UNCHANGED <<kind, up, outage, early, refused>>

(* The commit of OSINT's STARTED row, and of the source with it.            *)
OpenRun(p) ==
    /\ pc[p] = "opening"
    /\ ~Cut(p)
    /\ pc' = [pc EXCEPT ![p] = "fetching"]
    /\ source' = TRUE
    /\ ledger' = [ledger EXCEPT ![p] = {"STARTED"}]
    /\ txn' = [txn EXCEPT ![p] = Nothing("fresh")]
    /\ UNCHANGED <<kind, up, stored, work, outcome, outage, early, refused>>

(* EmergencyOsintService.ingest commits what it keeps (module Osint).       *)
Ingest(p) ==
    /\ pc[p] = "ingesting"
    /\ ~Cut(p)
    /\ pc' = [pc EXCEPT ![p] = "committing"]
    /\ stored' = stored \cup work[p].batch
    /\ UNCHANGED <<kind, up, source, ledger, work, txn, outcome, outage, early, refused>>

IngestFails(p) == pc[p] = "ingesting" /\ Raise(p, "broken")

(* The status of a run that has come to its end.                            *)
Status(p) ==
    IF ~work[p].failures THEN "COMPLETED" ELSE IF work[p].batch = {} THEN "FAILED" ELSE "PARTIAL"

AnswerOf(status) ==
    [COMPLETED |-> "completed", PARTIAL |-> "partial", FAILED |-> "failed"][status]

Commit(p) ==
    /\ pc[p] = "committing"
    /\ ~Cut(p)
    /\ source' = TRUE
    /\ stored' = stored \cup txn[p].added
    /\ ledger' = [ledger EXCEPT ![p] = {Status(p)}]
    /\ End(p, AnswerOf(Status(p)))

(* record_failure keeps the whole answer of the provider as a dead letter.  *)
DeadLetterFails(p) == kind # "osint" /\ work[p].asked = Requests[kind] /\ ~up["store"]

(* It selects the source once more, and inserts it if it finds none.        *)
Recreate(p) ==
    /\ pc[p] = "failing"
    /\ ~Cut(p)
    /\ ~DeadLetterFails(p)
    /\ ~source /\ ~txn[p].creating
    /\ txn' = [txn EXCEPT ![p].session = "open"]
    /\ Goto(p, "recreating")
    /\ UNCHANGED work

(* A FAILED row, and the commit of whatever the session still holds.  OSINT *)
(* turns its STARTED row into FAILED and raises again.                      *)
RecordFailure(p) ==
    /\ \/ /\ pc[p] = "failing"
          /\ source \/ txn[p].creating
          /\ ~DeadLetterFails(p)
       \/ pc[p] = "recreating" /\ ~source /\ Unclaimed(p)
    /\ ~Cut(p)
    /\ source' = TRUE
    /\ stored' = stored \cup txn[p].added
    /\ ledger' = [ledger EXCEPT ![p] = {"FAILED"} \cup
                                       (IF txn[p].started THEN {"STARTED"} ELSE {})]
    /\ End(p, "failed")

(* What record_failure raises, nobody catches: the session was not rolled   *)
(* back, the store or the database is away, another run made the source.    *)
(* OSINT has no handler before it has committed its run row.                *)
Escapes(p) ==
    /\ \/ pc[p] = "failing" /\ (Cut(p) \/ DeadLetterFails(p))
       \/ pc[p] = "recreating" /\ (Cut(p) \/ source)
       \/ kind = "osint" /\ pc[p] \in {"sourcing", "inserting", "opening"} /\ Cut(p)
       \/ kind = "osint" /\ pc[p] = "inserting" /\ source
    /\ UNCHANGED <<source, stored, ledger>>
    /\ End(p, "raised")

(* The worker is killed, or the client of the endpoint goes away: what was  *)
(* not committed is rolled back.                                            *)
Kill(p) ==
    /\ pc[p] # "idle"
    /\ UNCHANGED <<source, stored, ledger>>
    /\ End(p, "killed")

Step(p) ==
    \/ Target(p) \/ Answer(p) \/ Retry(p) \/ GiveUp(p) \/ SkipSource(p)
    \/ Validate(p) \/ Reject(p)
    \/ FindSource(p) \/ InsertSource(p) \/ SourceExists(p)
    \/ StoreRaw(p) \/ StoreFails(p)
    \/ Insert(p) \/ TooManyDigests(p) \/ DatabaseFails(p) \/ Refused(p)
    \/ OpenRun(p) \/ Ingest(p) \/ IngestFails(p)
    \/ Commit(p) \/ Recreate(p) \/ RecordFailure(p) \/ Escapes(p)

Next ==
    \/ \E p \in Runs : Start(p) \/ Step(p) \/ Kill(p)
    \/ \E service \in DOMAIN up : Switch(service)

Spec == Init /\ [][Next]_vars

(* A worker goes on with the run it holds; the clients of the providers,    *)
(* the store and the database have timeouts; and PostgreSQL serves the      *)
(* transactions that wait for a name in the order of their arrival.         *)
FairSpec ==
    /\ Spec
    /\ \A p \in Runs : WF_vars(Step(p)) /\ SF_vars(pc[p] \in {"inserting", "recreating"} /\ Step(p))
-----------------------------------------------------------------------------
(* What a connector takes for stored of what it was told: the same item     *)
(* saying the same, at least in the fields its digest looks at.             *)
Says(records, r) ==
    \E s \in records :
        /\ s.item = r.item
        /\ IF kind \in Loose THEN Core[s.says] = Core[r.says] ELSE s.says = r.says

(* Between runs the run rows tell what happened: exactly one final row for  *)
(* a run that says how it ended, and none for a run that vanished.  A row   *)
(* stays STARTED only where OSINT vanished after opening its run, or beside *)
(* FAILED where a connector that does not roll back had more digests than   *)
(* one statement takes.                                                     *)
RunRowsTellTruth ==
    \A p \in Runs : pc[p] = "idle" =>
        LET final == ledger[p] \ {"STARTED"} IN
        /\ outcome[p] = "completed" <=> final = {"COMPLETED"}
        /\ outcome[p] = "partial" <=> final = {"PARTIAL"}
        /\ outcome[p] = "failed" <=> final = {"FAILED"}
        /\ "STARTED" \in ledger[p] =>
              \/ kind = "osint" /\ outcome[p] \in {"raised", "killed"}
              \/ kind \notin RollsBack /\ outcome[p] = "failed"

(* A run that ends without a final row and was not killed met an outage,    *)
(* began before the source existed and lost the race to create it, or had a *)
(* write refused in a connector that does not roll back before it records   *)
(* its failure (AEMET's, IGN's, OSM's).  In the connectors that roll back   *)
(* nothing the database refuses is silent.                                  *)
SilentRunsExplained ==
    \A p \in Runs : outcome[p] = "raised" =>
        outage[p] \/ early[p] \/ (refused[p] /\ kind \notin RollsBack)

(* A run stores what it was told if and only if it says so: one that ends   *)
(* as completed or partial leaves every record of its batch in the tables,  *)
(* and one that does not adds nothing, although the connectors that do not  *)
(* roll back commit what the session of the failed run still holds.  (What  *)
(* OSINT ingests is committed before its run ends.)                         *)
RunsStoreWhatTheySay ==
    [][\A p \in Runs : pc[p] # "idle" /\ pc'[p] = "idle" =>
           IF outcome'[p] \in {"completed", "partial"}
           THEN \A r \in work[p].batch : Says(stored', r)
           ELSE kind # "osint" => stored' = stored]_vars

(* Every run ends, whatever the provider, the store and the database do: a  *)
(* connector is never stuck in its attempts or behind another run.          *)
RunsEnd == \A p \in Runs : []<>(pc[p] = "idle")
=============================================================================
