----------------------------- MODULE FirmsProofs -----------------------------
(***************************************************************************)
(* Proofs about Firms, for any number of detections, sources, retries and  *)
(* overlapping runs.                                                       *)
(***************************************************************************)
EXTENDS Firms, FiniteSetTheorems, TLAPS

(* The runs whose open transaction has inserted d.                          *)
Inserters(d) == {p \in Runs : d \in added[p]}

(***************************************************************************)
(* Types                                                                   *)
(***************************************************************************)

(* A run that ends leaves well-typed rows and a well-typed answer.          *)
LEMMA CloseType ==
    ASSUME TypeOK, NEW p \in Runs, NEW answer \in Outcomes, Close(p, answer),
           UNCHANGED <<fetched, attempt, payload, wrote>>,
           stored' \in [Detections -> Nat],
           ledger' \in [Runs -> SUBSET {"STARTED", "COMPLETED", "FAILED"}]
    PROVE  TypeOK'
BY DEF TypeOK, Close

(* A transaction that commits leaves a number of rows per detection.        *)
LEMMA InsertedType ==
    ASSUME TypeOK, NEW rows
    PROVE  Inserted(rows) \in [Detections -> Nat]
BY DEF TypeOK, Inserted

(* A run that raises goes to the handler that is to catch it.               *)
LEMMA RaiseType ==
    ASSUME TypeOK, NEW p \in Runs, RaiseInRaw(p)
    PROVE  /\ pc' \in [Runs -> {"idle", "fetching", "checking", "reconciling",
                               "committing", "failing"}]
           /\ nested' \in [Runs -> BOOLEAN]
<1>1. pc' = [pc EXCEPT ![p] = "failing"]
  BY DEF RaiseInRaw
<1>2. nested' = [nested EXCEPT ![p] = (p \in Scheduled)]
  BY DEF RaiseInRaw
<1>3. (p \in Scheduled) \in BOOLEAN
  OBVIOUS
<1>4. nested \in [Runs -> BOOLEAN]
  BY DEF TypeOK
<1>5. nested' \in [Runs -> BOOLEAN]
  BY <1>2, <1>3, <1>4, Zenon
<1> QED BY <1>1, <1>5 DEF TypeOK

(* Every step keeps the types.                                              *)
LEMMA StepType ==
    ASSUME TypeOK, InHand, NEW p \in Runs, Start(p) \/ Step(p)
    PROVE  TypeOK'
<1>1. ASSUME Start(p) PROVE TypeOK'
  <2>1. PICK csv \in SUBSET Detections :
            /\ pc' = [pc EXCEPT ![p] = IF p \in Reprocess THEN "checking" ELSE "fetching"]
            /\ payload' = [payload EXCEPT ![p] = csv]
    BY <1>1 DEF Start
  <2> QED BY <1>1, <2>1, RetriesAssumption, SourcesAssumption DEF Start, TypeOK, Outcomes
<1>2. ASSUME FetchSource(p) PROVE TypeOK'
  <2>1. PICK rows \in SUBSET Detections : payload' = [payload EXCEPT ![p] = payload[p] \cup rows]
    BY <1>2 DEF FetchSource
  <2>2. payload' \in [Runs -> SUBSET Detections]
    BY <2>1 DEF TypeOK
  <2>3. fetched' \in [Runs -> 0..Sources]
    BY <1>2, SourcesAssumption DEF FetchSource, TypeOK, InHand
  <2>4. attempt' \in [Runs -> 1..MaxRetries]
    BY <1>2, RetriesAssumption DEF FetchSource, TypeOK
  <2>5. pc' \in [Runs -> {"idle", "fetching", "checking", "reconciling", "committing",
                        "failing"}]
    BY <1>2 DEF FetchSource, TypeOK
  <2> QED BY <1>2, <2>2, <2>3, <2>4, <2>5 DEF FetchSource, TypeOK
<1>3. ASSUME RetrySource(p) PROVE TypeOK'
  BY <1>3, RetriesAssumption DEF RetrySource, TypeOK
<1>4. ASSUME GiveUp(p) \/ Reconcile(p) PROVE TypeOK'
  BY <1>4 DEF GiveUp, Reconcile, TypeOK
<1>5. ASSUME Persist(p) PROVE TypeOK'
  BY <1>5 DEF Persist, TypeOK
<1>6. ASSUME RejectPayload(p) \/ PersistRaises(p) PROVE TypeOK'
  <2>1. aborted' \in [Runs -> BOOLEAN]
    BY <1>6 DEF RejectPayload, PersistRaises, TypeOK
  <2> QED BY <1>6, <2>1, RaiseType DEF RejectPayload, PersistRaises, TypeOK
<1>7. ASSUME RecordFailureRaises(p) PROVE TypeOK'
  <2>1. aborted' \in [Runs -> BOOLEAN] /\ nested' \in [Runs -> BOOLEAN]
    BY <1>7 DEF RecordFailureRaises, TypeOK
  <2> QED BY <1>7, <2>1 DEF RecordFailureRaises, TypeOK
<1>8. ASSUME Commit(p) PROVE TypeOK'
  <2>1. ledger' \in [Runs -> SUBSET {"STARTED", "COMPLETED", "FAILED"}]
    BY <1>8 DEF Commit, TypeOK
  <2> QED BY <1>8, <2>1, CloseType, InsertedType DEF Commit, Outcomes
<1>9. ASSUME RecordFailure(p) PROVE TypeOK'
  <2>1. ledger' \in [Runs -> SUBSET {"STARTED", "COMPLETED", "FAILED"}]
    BY <1>9 DEF RecordFailure, TypeOK
  <2> QED BY <1>9, <2>1, CloseType, InsertedType DEF RecordFailure, Outcomes
<1>10. ASSUME Lose(p) PROVE TypeOK'
  BY <1>10, CloseType DEF Lose, Outcomes, TypeOK
<1> QED BY <1>1, <1>2, <1>3, <1>4, <1>5, <1>6, <1>7, <1>8, <1>9, <1>10
    DEF Step

(***************************************************************************)
(* What runs have in hand                                                  *)
(***************************************************************************)

(* The table only grows: committed detections stay.                         *)
LEMMA PresentGrows ==
    ASSUME TypeOK, NEW rows, stored' = Inserted(rows)
    PROVE  /\ Present \subseteq Present'
           /\ rows \cap Detections \subseteq Present'
BY DEF TypeOK, Present, Inserted

(* A step of a run that neither writes to the table nor ends the run.       *)
LEMMA QuietStep ==
    ASSUME IInv, TypeOK', NEW p \in Runs,
           pc'[p] # "idle", outcome'[p] = "none", ledger'[p] = {}, started'[p] = wrote'[p],
           pc'[p] = "fetching" => fetched'[p] < Sources,
           pc'[p] \in {"reconciling", "committing"} => payload'[p] \subseteq Present \cup added'[p],
           UNCHANGED stored,
           \A q \in Runs \ {p} : /\ pc'[q] = pc[q] /\ outcome'[q] = outcome[q]
                                 /\ ledger'[q] = ledger[q] /\ payload'[q] = payload[q]
                                 /\ added'[q] = added[q] /\ fetched'[q] = fetched[q]
                                 /\ started'[q] = started[q] /\ wrote'[q] = wrote[q]
    PROVE  InHand' /\ CompletedRunStored' /\ LedgerTruthful'
<1>1. Present' = Present
  BY DEF Present
<1> QED BY <1>1 DEF IInv, InHand, CompletedRunStored, LedgerTruthful

(* A step by which a run ends, with an answer that its run rows bear out.   *)
LEMMA EndingStep ==
    ASSUME IInv, TypeOK', NEW p \in Runs, NEW answer, Close(p, answer),
           Present \subseteq Present',
           answer = "completed" => payload[p] \subseteq Present',
           UNCHANGED <<payload, fetched, wrote>>,
           \A q \in Runs \ {p} : ledger'[q] = ledger[q],
           /\ answer = "completed" <=> "COMPLETED" \in ledger'[p]
           /\ answer = "failed" <=> "FAILED" \in ledger'[p]
           /\ answer = "lost" => ledger'[p] = {}
           /\ "STARTED" \in ledger'[p] <=> answer = "failed" /\ wrote[p]
    PROVE  InHand' /\ CompletedRunStored' /\ LedgerTruthful'
<1>1. /\ pc'[p] = "idle" /\ outcome'[p] = answer /\ ~started'[p]
      /\ \A q \in Runs \ {p} : /\ pc'[q] = pc[q] /\ outcome'[q] = outcome[q]
                               /\ added'[q] = added[q] /\ started'[q] = started[q]
  BY DEF Close, IInv, TypeOK
<1>2. InHand'
  BY <1>1 DEF IInv, InHand
<1>3. CompletedRunStored'
  BY <1>1 DEF IInv, CompletedRunStored
<1>4. LedgerTruthful'
  BY <1>1 DEF IInv, LedgerTruthful
<1> QED BY <1>2, <1>3, <1>4

(* Every step keeps what runs have in hand, have stored and have told.      *)
LEMMA StepInHand ==
    ASSUME IInv, TypeOK', NEW p \in Runs, Start(p) \/ Step(p)
    PROVE  InHand' /\ CompletedRunStored' /\ LedgerTruthful'
<1> USE DEF IInv
<1>0. /\ pc[p] = "idle" => ~started[p]
      /\ pc[p] # "idle" =>
            outcome[p] = "none" /\ ledger[p] = {} /\ started[p] = wrote[p]
  BY DEF InHand
<1>1. ASSUME Start(p) PROVE InHand' /\ CompletedRunStored' /\ LedgerTruthful'
  <2>1. started'[p] = wrote'[p]
    BY <1>0, <1>1 DEF Start, TypeOK
  <2>2. pc'[p] \in {"checking", "fetching"} /\ \A q \in Runs \ {p} : pc'[q] = pc[q]
    BY <1>1 DEF Start, TypeOK
  <2>3. \A q \in Runs \ {p} : payload'[q] = payload[q]
    BY <1>1 DEF Start, TypeOK
  <2>4. outcome'[p] = "none" /\ ledger'[p] = {} /\ fetched'[p] < Sources
    BY <1>1, SourcesAssumption DEF Start, TypeOK
  <2>5. /\ \A q \in Runs \ {p} : /\ outcome'[q] = outcome[q] /\ ledger'[q] = ledger[q]
                                /\ fetched'[q] = fetched[q] /\ wrote'[q] = wrote[q]
        /\ UNCHANGED <<stored, added, started>>
    BY <1>1 DEF Start, TypeOK
  <2> QED BY <2>1, <2>2, <2>3, <2>4, <2>5, QuietStep
<1>2. ASSUME RetrySource(p) \/ GiveUp(p) \/ RejectPayload(p) \/ PersistRaises(p)
             \/ RecordFailureRaises(p)
      PROVE InHand' /\ CompletedRunStored' /\ LedgerTruthful'
  <2>1. pc[p] = "fetching" => fetched[p] < Sources
    BY DEF InHand
  <2> QED BY <1>0, <1>2, <2>1, QuietStep DEF RetrySource, GiveUp, RejectPayload,
     PersistRaises, RecordFailureRaises, RaiseInRaw, TypeOK
<1>3. ASSUME FetchSource(p) PROVE InHand' /\ CompletedRunStored' /\ LedgerTruthful'
  <2>1. pc'[p] = "fetching" => fetched'[p] < Sources
    BY <1>3, SourcesAssumption DEF FetchSource, InHand, TypeOK
  <2>2. /\ pc'[p] \in {"fetching", "checking"}
        /\ \A q \in Runs \ {p} : pc'[q] = pc[q] /\ payload'[q] = payload[q]
    BY <1>3 DEF FetchSource, TypeOK
  <2> QED BY <1>0, <1>3, <2>1, <2>2, QuietStep DEF FetchSource, TypeOK
<1>4. ASSUME Persist(p) PROVE InHand' /\ CompletedRunStored' /\ LedgerTruthful'
  BY <1>0, <1>4, QuietStep DEF Persist, TypeOK
<1>5. ASSUME Reconcile(p) PROVE InHand' /\ CompletedRunStored' /\ LedgerTruthful'
  <2>1. payload[p] \subseteq Present \cup added[p]
    BY <1>5 DEF Reconcile, InHand
  <2> QED BY <1>0, <1>5, <2>1, QuietStep DEF Reconcile, TypeOK
<1>6. ASSUME Commit(p) PROVE InHand' /\ CompletedRunStored' /\ LedgerTruthful'
  <2>1. payload[p] \subseteq Present \cup added[p] /\ added[p] \subseteq Detections
    BY <1>6 DEF Commit, InHand, TypeOK
  <2>2. Present \subseteq Present' /\ added[p] \subseteq Present'
    BY <1>6, <2>1, PresentGrows DEF Commit
  <2>3. ledger'[p] = {"COMPLETED"} /\ \A q \in Runs \ {p} : ledger'[q] = ledger[q]
    BY <1>6 DEF Commit, TypeOK
  <2> QED BY <1>6, <2>1, <2>2, <2>3, EndingStep DEF Commit
<1>7. ASSUME RecordFailure(p) PROVE InHand' /\ CompletedRunStored' /\ LedgerTruthful'
  <2>1. Present \subseteq Present'
    BY <1>7, PresentGrows DEF RecordFailure
  <2>2. /\ ledger'[p] = {"FAILED"} \cup (IF started[p] THEN {"STARTED"} ELSE {})
        /\ \A q \in Runs \ {p} : ledger'[q] = ledger[q]
        /\ started[p] = wrote[p]
    BY <1>0, <1>7 DEF RecordFailure, TypeOK
  <2> QED BY <1>7, <2>1, <2>2, EndingStep DEF RecordFailure
<1>8. ASSUME Lose(p) PROVE InHand' /\ CompletedRunStored' /\ LedgerTruthful'
  <2>1. ledger'[p] = {}
    BY <1>0, <1>8 DEF Lose
  <2>2. Present' = Present
    BY <1>8 DEF Lose, Present
  <2> QED BY <1>8, <2>1, <2>2, EndingStep DEF Lose
<1> QED BY <1>1, <1>2, <1>4, <1>5, <1>6, <1>7, <1>8, <1>3 DEF Step

(***************************************************************************)
(* Repeated rows                                                           *)
(***************************************************************************)

(* Insertions under way are those of some of the runs.                      *)
LEMMA InsertersFinite ==
    ASSUME NEW S \in SUBSET Runs
    PROVE  /\ IsFiniteSet(S) /\ Cardinality(S) \in Nat
           /\ Cardinality(Runs) \in Nat /\ Cardinality(S) <= Cardinality(Runs)
BY RunsAssumption, FS_Subset, FS_CardinalityType

(* What is no longer being inserted, or not more than before, adds nothing. *)
LEMMA FewerInserters ==
    ASSUME IInv, TypeOK', UNCHANGED stored,
           \A q \in Runs : added'[q] \subseteq added[q]
    PROVE  DuplicatesAreOverlaps'
<1> SUFFICES ASSUME NEW d \in Detections
             PROVE  stored'[d] + Cardinality(Inserters(d)') <= Cardinality(Runs)
  BY DEF DuplicatesAreOverlaps, Inserters
<1>1. Inserters(d)' \subseteq Inserters(d) /\ Inserters(d) \in SUBSET Runs
  BY DEF Inserters
<1>2. Cardinality(Inserters(d)') <= Cardinality(Inserters(d))
  BY <1>1, InsertersFinite, FS_Subset
<1>3. Inserters(d)' \in SUBSET Runs
  BY DEF Inserters
<1>4. stored[d] + Cardinality(Inserters(d)) <= Cardinality(Runs)
  BY DEF IInv, DuplicatesAreOverlaps, Inserters
<1>5. stored[d] \in Nat
  BY DEF IInv, TypeOK
<1> QED BY <1>1, <1>2, <1>3, <1>4, <1>5, InsertersFinite

(* The rows of p move from its transaction to the table.                    *)
LEMMA InsertersCommit ==
    ASSUME IInv, TypeOK', NEW p \in Runs, stored' = Inserted(added[p]),
           added' = [added EXCEPT ![p] = {}]
    PROVE  DuplicatesAreOverlaps'
<1> SUFFICES ASSUME NEW d \in Detections
             PROVE  stored'[d] + Cardinality(Inserters(d)') <= Cardinality(Runs)
  BY DEF DuplicatesAreOverlaps, Inserters
<1>1. Inserters(d)' = Inserters(d) \ {p} /\ Inserters(d) \in SUBSET Runs
  BY DEF Inserters, IInv, TypeOK
<1>2. stored[d] + Cardinality(Inserters(d)) <= Cardinality(Runs)
  BY DEF IInv, DuplicatesAreOverlaps, Inserters
<1>3. stored[d] \in Nat
  BY DEF IInv, TypeOK
<1>4. CASE d \in added[p]
  <2>1. p \in Inserters(d) /\ stored'[d] = stored[d] + 1
    BY <1>4 DEF Inserters, Inserted
  <2>2. Cardinality(Inserters(d) \ {p}) = Cardinality(Inserters(d)) - 1
    BY <1>1, <2>1, InsertersFinite, FS_RemoveElement
  <2> QED BY <1>1, <1>2, <1>3, <2>1, <2>2, InsertersFinite
<1>5. CASE d \notin added[p]
  <2>1. Inserters(d)' = Inserters(d) /\ stored'[d] = stored[d]
    BY <1>1, <1>5 DEF Inserters, Inserted
  <2> QED BY <1>2, <2>1
<1> QED BY <1>4, <1>5

(* A run only inserts what it has not found in the table.                   *)
LEMMA InsertersPersist ==
    ASSUME IInv, TypeOK', NEW p \in Runs, Persist(p)
    PROVE  DuplicatesAreOverlaps'
<1> SUFFICES ASSUME NEW d \in Detections
             PROVE  stored'[d] + Cardinality(Inserters(d)') <= Cardinality(Runs)
  BY DEF DuplicatesAreOverlaps, Inserters
<1>1. Inserters(d)' \in SUBSET Runs /\ Inserters(d) \in SUBSET Runs
  BY DEF Inserters
<1>2. stored[d] \in Nat /\ stored'[d] = stored[d]
  BY DEF Persist, IInv, TypeOK
<1>3. CASE stored[d] = 0
  BY <1>1, <1>2, <1>3, InsertersFinite
<1>4. CASE stored[d] # 0
  <2>1. d \in Present
    BY <1>2, <1>4 DEF Present
  <2>2. Inserters(d)' \subseteq Inserters(d)
    BY <2>1 DEF Inserters, Persist, IInv, TypeOK
  <2>3. Cardinality(Inserters(d)') <= Cardinality(Inserters(d))
    BY <1>1, <2>2, InsertersFinite, FS_Subset
  <2>4. stored[d] + Cardinality(Inserters(d)) <= Cardinality(Runs)
    BY DEF IInv, DuplicatesAreOverlaps, Inserters
  <2> QED BY <1>1, <1>2, <2>3, <2>4, InsertersFinite
<1> QED BY <1>3, <1>4

(* Every step keeps the number of rows below that of the runs.              *)
LEMMA StepDuplicates ==
    ASSUME IInv, TypeOK', NEW p \in Runs, Start(p) \/ Step(p)
    PROVE  DuplicatesAreOverlaps'
<1>1. ASSUME Persist(p) PROVE DuplicatesAreOverlaps'
  BY <1>1, InsertersPersist
<1>2. ASSUME Commit(p) \/ RecordFailure(p) PROVE DuplicatesAreOverlaps'
  BY <1>2, InsertersCommit DEF Commit, RecordFailure, Close
<1>3. ASSUME Lose(p) PROVE DuplicatesAreOverlaps'
  BY <1>3, FewerInserters DEF Lose, Close, IInv, TypeOK
<1>4. ASSUME \/ Start(p) \/ FetchSource(p) \/ RetrySource(p) \/ GiveUp(p)
             \/ RejectPayload(p) \/ Reconcile(p) \/ PersistRaises(p)
             \/ RecordFailureRaises(p)
      PROVE  DuplicatesAreOverlaps'
  BY <1>4, FewerInserters DEF Start, FetchSource, RetrySource, GiveUp, RejectPayload,
     RaiseInRaw, Reconcile, PersistRaises, RecordFailureRaises
<1> QED BY <1>1, <1>2, <1>3, <1>4 DEF Step

(***************************************************************************)
(* The theorems                                                            *)
(***************************************************************************)

(* At first nothing is stored, told or under way.                           *)
LEMMA InitIInv == Init => IInv
<1> SUFFICES ASSUME Init PROVE IInv
  OBVIOUS
<1>1. TypeOK
  BY SourcesAssumption, RetriesAssumption DEF Init, TypeOK, Outcomes
<1>2. InHand /\ CompletedRunStored /\ LedgerTruthful
  BY DEF Init, InHand, CompletedRunStored, LedgerTruthful
<1>3. ASSUME NEW d \in Detections
      PROVE  stored[d] + Cardinality(Inserters(d)) <= Cardinality(Runs)
  <2>1. Inserters(d) \in SUBSET Runs /\ stored[d] = 0
    BY <1>3 DEF Init, Inserters
  <2> QED BY <2>1, InsertersFinite
<1> QED BY <1>1, <1>2, <1>3 DEF IInv, DuplicatesAreOverlaps, Inserters

(* Every step keeps the invariant.                                          *)
LEMMA StepIInv == IInv /\ [Next]_vars => IInv'
<1> SUFFICES ASSUME IInv, [Next]_vars PROVE IInv'
  OBVIOUS
<1>1. ASSUME NEW p \in Runs, Start(p) \/ Step(p)
      PROVE  IInv'
  <2>1. TypeOK'
    BY <1>1, StepType DEF IInv
  <2> QED BY <1>1, <2>1, StepInHand, StepDuplicates DEF IInv
<1>2. CASE UNCHANGED vars
  BY <1>2 DEF vars, IInv, TypeOK, InHand, CompletedRunStored, LedgerTruthful,
     DuplicatesAreOverlaps, Present
<1> QED BY <1>1, <1>2 DEF Next

(* The inductive invariant holds in every execution.                        *)
THEOREM InvariantCorrect == Spec => []IInv
BY InitIInv, StepIInv, PTL DEF Spec

(* The rows, run rows and transactions keep their shape; no run works on    *)
(* detections or attempts it does not have.                                 *)
THEOREM TypeCorrect == Spec => []TypeOK
<1>1. IInv => TypeOK
  BY DEF IInv
<1> QED BY <1>1, InvariantCorrect, PTL

(* A run that answers "completed" has every detection of its CSV in the     *)
(* table, whatever other runs did meanwhile (persist, _existing_hashes).    *)
THEOREM StoredCorrect == Spec => []CompletedRunStored
<1>1. IInv => CompletedRunStored
  BY DEF IInv
<1> QED BY <1>1, InvariantCorrect, PTL

(* The run rows tell what the run answered, and whether a failed run had    *)
(* begun to write (persist, record_failure, execute).                       *)
THEOREM LedgerCorrect == Spec => []LedgerTruthful
<1>1. IInv => LedgerTruthful
  BY DEF IInv
<1> QED BY <1>1, InvariantCorrect, PTL

(* A detection has at most as many rows as there are runs that can overlap, *)
(* however many executions there have been (_existing_hashes).              *)
THEOREM DuplicatesCorrect == Spec => []DuplicatesAreOverlaps
<1>1. IInv => DuplicatesAreOverlaps
  BY DEF IInv
<1> QED BY <1>1, InvariantCorrect, PTL
=============================================================================
