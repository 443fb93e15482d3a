-------------------------------- MODULE Firms --------------------------------
(***************************************************************************)
(* NASA FIRMS ingestion: runs that fetch the configured satellite sources, *)
(* append the detections the table does not hold yet and reconcile them,   *)
(* all in one transaction.  There is no lock and no unique constraint, and *)
(* a failure is recorded in the transaction that failed.                   *)
(***************************************************************************)
EXTENDS Integers, FiniteSets

CONSTANTS
    Detections,  \* satellite detections (deduplication hashes)
    Scheduled,   \* runs through execute: Celery task, manual endpoint
    Reprocess,   \* runs through execute_raw with a CSV in hand
    Sources,     \* number of configured satellite sources
    MaxRetries   \* attempts per source

Runs == Scheduled \cup Reprocess

ASSUME SourcesAssumption == Sources \in Nat \ {0}
ASSUME RetriesAssumption == MaxRetries \in Nat \ {0}
ASSUME KindsAssumption == Scheduled \cap Reprocess = {}
ASSUME RunsAssumption == IsFiniteSet(Runs)

VARIABLES
    stored,    \* committed rows per detection
    ledger,    \* committed run rows of the last execution of each run
    pc,        \* where each run is
    fetched,   \* sources a run has fetched
    attempt,   \* attempt at the source a run is fetching
    payload,   \* detections of the CSV of a run
    added,     \* detections inserted by the open transaction of a run
    started,   \* the open transaction holds a STARTED run row
    aborted,   \* PostgreSQL refuses any further statement of the transaction
    nested,    \* record_failure was called by execute_raw inside execute
    outcome,   \* status a run has answered with
    wrote      \* observer: the last execution of a run had begun to write

vars == <<stored, ledger, pc, fetched, attempt, payload, added, started, aborted,
          nested, outcome, wrote>>

Outcomes == {"none", "completed", "failed", "lost"}

TypeOK ==
    /\ stored \in [Detections -> Nat]
    /\ ledger \in [Runs -> SUBSET {"STARTED", "COMPLETED", "FAILED"}]
    /\ pc \in [Runs -> {"idle", "fetching", "checking", "reconciling", "committing",
                        "failing"}]
    /\ fetched \in [Runs -> 0..Sources]
    /\ attempt \in [Runs -> 1..MaxRetries]
    /\ payload \in [Runs -> SUBSET Detections]
    /\ added \in [Runs -> SUBSET Detections]
    /\ started \in [Runs -> BOOLEAN]
    /\ aborted \in [Runs -> BOOLEAN]
    /\ nested \in [Runs -> BOOLEAN]
    /\ outcome \in [Runs -> Outcomes]
    /\ wrote \in [Runs -> BOOLEAN]

Init ==
    /\ stored = [d \in Detections |-> 0]
    /\ ledger = [p \in Runs |-> {}]
    /\ pc = [p \in Runs |-> "idle"]
    /\ fetched = [p \in Runs |-> 0]
    /\ attempt = [p \in Runs |-> 1]
    /\ payload = [p \in Runs |-> {}]
    /\ added = [p \in Runs |-> {}]
    /\ started = [p \in Runs |-> FALSE]
    /\ aborted = [p \in Runs |-> FALSE]
    /\ nested = [p \in Runs |-> FALSE]
    /\ outcome = [p \in Runs |-> "none"]
    /\ wrote = [p \in Runs |-> FALSE]

Present == {d \in Detections : stored[d] > 0}

(* Rows after a transaction that inserted these detections commits.         *)
Inserted(rows) ==
    [d \in Detections |-> IF d \in rows THEN stored[d] + 1 ELSE stored[d]]

(* A new run forgets the last one.                                          *)
Start(p) ==
    /\ pc[p] = "idle"
    /\ IF p \in Reprocess
       THEN \E csv \in SUBSET Detections :
               /\ pc' = [pc EXCEPT ![p] = "checking"]
               /\ payload' = [payload EXCEPT ![p] = csv]
       ELSE /\ pc' = [pc EXCEPT ![p] = "fetching"]
            /\ payload' = [payload EXCEPT ![p] = {}]
    /\ fetched' = [fetched EXCEPT ![p] = 0]
    /\ attempt' = [attempt EXCEPT ![p] = 1]
    /\ ledger' = [ledger EXCEPT ![p] = {}]
    /\ outcome' = [outcome EXCEPT ![p] = "none"]
    /\ wrote' = [wrote EXCEPT ![p] = FALSE]
    /\ UNCHANGED <<stored, added, started, aborted, nested>>

(* Mutant: one source more than there are.                                  *)
FaultFetchOneMore(p) ==
    /\ pc[p] = "fetching"
    /\ fetched' = [fetched EXCEPT ![p] = fetched[p] + 1]
    /\ attempt' = [attempt EXCEPT ![p] = 1]
    /\ UNCHANGED payload
    /\ pc' = IF fetched[p] = Sources THEN [pc EXCEPT ![p] = "checking"] ELSE pc
    /\ UNCHANGED <<stored, ledger, added, started, wrote, aborted, nested,
                   outcome>>

(* One source answers; the last one completes the merged CSV.               *)
FetchSource(p) ==
    /\ pc[p] = "fetching"
    /\ fetched' = [fetched EXCEPT ![p] = fetched[p] + 1]
    /\ attempt' = [attempt EXCEPT ![p] = 1]
    /\ \E rows \in SUBSET Detections :
          payload' = [payload EXCEPT ![p] = payload[p] \cup rows]
    /\ pc' = IF fetched[p] + 1 = Sources THEN [pc EXCEPT ![p] = "checking"] ELSE pc
    /\ UNCHANGED <<stored, ledger, added, started, wrote, aborted, nested,
                   outcome>>

FaultRetryUnbounded(p) ==
    /\ pc[p] = "fetching"
    /\ attempt[p] <= MaxRetries
    /\ attempt' = [attempt EXCEPT ![p] = attempt[p] + 1]
    /\ UNCHANGED <<stored, ledger, pc, fetched, payload, added, started, wrote,
                   aborted, nested, outcome>>

FaultRetryForever(p) ==
    /\ pc[p] = "fetching"
    /\ attempt' = [attempt EXCEPT ![p] = 1 + (attempt[p] % MaxRetries)]
    /\ UNCHANGED <<stored, ledger, pc, fetched, payload, added, started, wrote,
                   aborted, nested, outcome>>

(* A timeout or an HTTP error: another attempt, after a pause.              *)
RetrySource(p) ==
    /\ pc[p] = "fetching"
    /\ attempt[p] < MaxRetries
    /\ attempt' = [attempt EXCEPT ![p] = attempt[p] + 1]
    /\ UNCHANGED <<stored, ledger, pc, fetched, payload, added, started, wrote,
                   aborted, nested, outcome>>

(* The last attempt fails and with it the run: nothing of the sources that  *)
(* did answer is used.  The handler is the one of execute.                  *)
GiveUp(p) ==
    /\ pc[p] = "fetching"
    /\ attempt[p] = MaxRetries
    /\ pc' = [pc EXCEPT ![p] = "failing"]
    /\ nested' = [nested EXCEPT ![p] = FALSE]
    /\ UNCHANGED <<stored, ledger, fetched, attempt, payload, added, started, wrote,
                   aborted, outcome>>

(* An exception inside execute_raw: its own handler records the failure,    *)
(* with the transaction as it is.                                           *)
RaiseInRaw(p) ==
    /\ pc' = [pc EXCEPT ![p] = "failing"]
    /\ nested' = [nested EXCEPT ![p] = p \in Scheduled]

(* validate, normalize or the store of the raw CSV refuse it.               *)
RejectPayload(p) ==
    /\ pc[p] = "checking"
    /\ RaiseInRaw(p)
    /\ UNCHANGED <<stored, ledger, fetched, attempt, payload, added, started, wrote,
                   aborted, outcome>>

FaultPersistIgnoresTable(p) ==
    /\ pc[p] = "checking"
    /\ pc' = [pc EXCEPT ![p] = "reconciling"]
    /\ started' = [started EXCEPT ![p] = TRUE]
    /\ wrote' = [wrote EXCEPT ![p] = TRUE]
    /\ added' = [added EXCEPT ![p] = payload[p]]
    /\ UNCHANGED <<stored, ledger, fetched, attempt, payload, aborted, nested, outcome>>

FaultPersistSkipsOthersWork(p) ==
    /\ pc[p] = "checking"
    /\ pc' = [pc EXCEPT ![p] = "reconciling"]
    /\ started' = [started EXCEPT ![p] = TRUE]
    /\ wrote' = [wrote EXCEPT ![p] = TRUE]
    /\ added' = [added EXCEPT
          ![p] = payload[p] \ (Present \cup UNION {added[q] : q \in Runs})]
    /\ UNCHANGED <<stored, ledger, fetched, attempt, payload, aborted, nested, outcome>>

(* Mutant: the run row comes after everything else.                         *)
FaultPersistStartsLate(p) ==
    /\ pc[p] = "checking"
    /\ pc' = [pc EXCEPT ![p] = "reconciling"]
    /\ wrote' = [wrote EXCEPT ![p] = TRUE]
    /\ added' = [added EXCEPT ![p] = payload[p] \ Present]
    /\ UNCHANGED <<stored, ledger, fetched, attempt, payload, started, aborted, nested,
                   outcome>>

(* persist up to its flush: the run row is STARTED, the hashes the table    *)
(* already holds are read, and the other detections are inserted.           *)
Persist(p) ==
    /\ pc[p] = "checking"
    /\ pc' = [pc EXCEPT ![p] = "reconciling"]
    /\ started' = [started EXCEPT ![p] = TRUE]
    /\ wrote' = [wrote EXCEPT ![p] = TRUE]
    /\ added' = [added EXCEPT ![p] = payload[p] \ Present]
    /\ UNCHANGED <<stored, ledger, fetched, attempt, payload, aborted, nested, outcome>>

(* reconcile_recent_fires over all recent evidence, in the same transaction. *)
Reconcile(p) ==
    /\ pc[p] = "reconciling"
    /\ pc' = [pc EXCEPT ![p] = "committing"]
    /\ UNCHANGED <<stored, ledger, fetched, attempt, payload, added, started, wrote,
                   aborted, nested, outcome>>

(* A statement of persist or of the reconciliation fails: an error of the   *)
(* database (a deadlock, say) aborts the transaction, any other leaves it   *)
(* open with what it has written.                                           *)
PersistRaises(p) ==
    /\ pc[p] \in {"checking", "reconciling", "committing"}
    /\ \/ pc[p] = "reconciling" /\ UNCHANGED aborted
       \/ aborted' = [aborted EXCEPT ![p] = TRUE]
    /\ RaiseInRaw(p)
    /\ UNCHANGED <<stored, ledger, fetched, attempt, payload, added, started, wrote, outcome>>

(* The run ends and its session closes.                                     *)
Close(p, answer) ==
    /\ pc' = [pc EXCEPT ![p] = "idle"]
    /\ added' = [added EXCEPT ![p] = {}]
    /\ started' = [started EXCEPT ![p] = FALSE]
    /\ aborted' = [aborted EXCEPT ![p] = FALSE]
    /\ nested' = [nested EXCEPT ![p] = FALSE]
    /\ outcome' = [outcome EXCEPT ![p] = answer]

Commit(p) ==
    /\ pc[p] = "committing"
    /\ stored' = Inserted(added[p])
    /\ ledger' = [ledger EXCEPT ![p] = {"COMPLETED"}]
    /\ Close(p, "completed")
    /\ UNCHANGED <<fetched, attempt, payload, wrote>>

(* record_failure adds a FAILED row and commits, without a rollback: what   *)
(* the failed run had inserted stays, next to its STARTED row.              *)
RecordFailure(p) ==
    /\ pc[p] = "failing"
    /\ ~aborted[p]
    /\ stored' = Inserted(added[p])
    /\ ledger' = [ledger EXCEPT
          ![p] = {"FAILED"} \cup (IF started[p] THEN {"STARTED"} ELSE {})]
    /\ Close(p, "failed")
    /\ UNCHANGED <<fetched, attempt, payload, wrote>>

(* record_failure itself raises, as it always does in an aborted            *)
(* transaction: inside execute the outer handler calls it once more.        *)
RecordFailureRaises(p) ==
    /\ pc[p] = "failing"
    /\ nested[p]
    /\ nested' = [nested EXCEPT ![p] = FALSE]
    /\ \/ UNCHANGED aborted
       \/ aborted' = [aborted EXCEPT ![p] = TRUE]
    /\ UNCHANGED <<stored, ledger, pc, fetched, attempt, payload, added, started, wrote,
                   outcome>>

(* The worker is killed, or record_failure raises with nobody to catch it:  *)
(* everything the run wrote is rolled back, and no run row tells of it.     *)
Lose(p) ==
    /\ pc[p] # "idle"
    /\ Close(p, "lost")
    /\ UNCHANGED <<stored, ledger, fetched, attempt, payload, wrote>>

Step(p) ==
    \/ FetchSource(p) \/ RetrySource(p) \/ GiveUp(p)
    \/ RejectPayload(p) \/ Persist(p) \/ Reconcile(p) \/ PersistRaises(p)
    \/ Commit(p) \/ RecordFailure(p) \/ RecordFailureRaises(p) \/ Lose(p)

Next == \E p \in Runs : Start(p) \/ Step(p)

Spec == Init /\ [][Next]_vars

FairSpec == Spec /\ \A p \in Runs : WF_vars(Step(p))

(***************************************************************************)
(* Properties                                                              *)
(***************************************************************************)

(* A run that answers "completed" has every detection of its CSV in the     *)
(* table, those it skipped because another run had them included: a row     *)
(* that a run sees is committed and stays (persist, _existing_hashes).      *)
CompletedRunStored ==
    \A p \in Runs : outcome[p] = "completed" => payload[p] \subseteq Present

(* The run rows tell what the run answered: COMPLETED alone; FAILED, with   *)
(* the STARTED row of the failed transaction beside it exactly when the run *)
(* had begun to write; or no row, if it was lost (persist and               *)
(* record_failure, which commits what the failed transaction holds).        *)
LedgerTruthful ==
    \A p \in Runs : pc[p] = "idle" =>
        /\ outcome[p] = "completed" <=> "COMPLETED" \in ledger[p]
        /\ outcome[p] = "failed" <=> "FAILED" \in ledger[p]
        /\ outcome[p] = "lost" => ledger[p] = {}
        /\ "STARTED" \in ledger[p] <=> outcome[p] = "failed" /\ wrote[p]

(* A detection is inserted again only by a run that read the table before   *)
(* the other insertion was committed: rows of d never outnumber the runs    *)
(* that can overlap, whatever the number of executions.                     *)
DuplicatesAreOverlaps ==
    \A d \in Detections :
        stored[d] + Cardinality({p \in Runs : d \in added[p]}) <= Cardinality(Runs)

(* A run under way has not answered and left no run row; it fetches as long *)
(* as a source is missing; what it has found in its CSV is in the table or  *)
(* in its own transaction once it has written (persist up to its flush),    *)
(* and its STARTED row is in that transaction from then on.                 *)
InHand ==
    \A p \in Runs :
        /\ pc[p] = "idle" => ~started[p]
        /\ pc[p] # "idle" => started[p] = wrote[p]
        /\ pc[p] = "fetching" => fetched[p] < Sources
        /\ pc[p] # "idle" => outcome[p] = "none" /\ ledger[p] = {}
        /\ pc[p] \in {"reconciling", "committing"} => payload[p] \subseteq Present \cup added[p]

(* The inductive invariant of the proofs: what completed runs have stored   *)
(* and what their run rows tell follows from what runs under way have in    *)
(* hand.                                                                    *)
IInv == TypeOK /\ InHand /\ CompletedRunStored /\ LedgerTruthful /\ DuplicatesAreOverlaps

(* Every run that starts ends: the retries of a source are bounded and the  *)
(* handlers do not call each other for ever.                                *)
RunsEnd == \A p \in Runs : pc[p] # "idle" ~> pc[p] = "idle"
=============================================================================
