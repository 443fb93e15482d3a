-------------------------- MODULE ConnectorsProofs --------------------------
(***************************************************************************)
(* Proofs about Connectors, for any runs, records, requests and bounds.    *)
(***************************************************************************)
EXTENDS Connectors, TLAPS

(* What is known of a run that is at place with the fetch w and the         *)
(* transaction t.                                                           *)
Sound(place, w, t) ==
    /\ w.asked <= Requests[kind] /\ w.attempt \in 1..MaxRetries
    /\ place = "idle" => w = NoWork /\ t = Nothing("fresh")
    /\ place = "fetching" => w.asked < Requests[kind]
    /\ place = "targeting" => w.asked = 0
    /\ kind = "osint" /\ place \in {"sourcing", "inserting", "opening"} => w.asked = 0
    /\ place \in {"validating", "storing", "checking"} => kind # "osint"
    /\ place \in {"opening", "ingesting"} => kind = "osint"
    /\ w.failures => kind = "osint"

(* Its transaction: one that has not begun or was lost holds nothing, and   *)
(* none is open without the database; a run row and records are there       *)
(* between their INSERT and the commit, or, the run row alone, in the       *)
(* failure of a connector that does not roll back.                          *)
Clean(place, t) ==
    /\ t.session \in {"fresh", "broken"} => t = Nothing(t.session)
    /\ t.session = "open" => up["database"]
    /\ place \in {"inserting", "opening", "storing", "checking"} => t.session # "fresh"
    /\ place = "committing" /\ kind # "osint" => t.session # "fresh"
    /\ place # "committing" => t.added = {}
    /\ t.started => place \in {"committing", "failing", "recreating"}
    /\ place \in {"failing", "recreating"} /\ t.started => kind \notin RollsBack
    /\ kind = "osint" => t.added = {} /\ ~t.started

(* A run about to commit has stored its batch, or is about to.              *)
Complete(place, w, t) ==
    place = "committing" /\ t.session # "broken" =>
        \A r \in w.batch : Digest(r) \in Digests(stored \cup t.added)

(* A run that may vanish has met an outage, raced for the source, or been   *)
(* refused in a connector that does not roll back.                          *)
Warned(p) == outage[p] \/ early[p] \/ (refused[p] /\ kind \notin RollsBack)

Excused(p, place, t) ==
    /\ place # "idle" =>
          /\ t.session = "broken" => Warned(p)
          /\ ~up["database"] \/ ~up["store"] => outage[p]
          /\ ~source => early[p]
    /\ place \in {"inserting", "recreating"} => early[p]

Fits(p, place, w, t) ==
    Sound(place, w, t) /\ Clean(place, t) /\ Complete(place, w, t) /\ Excused(p, place, t)

(* Run rows: none while a run is under way, but OSINT's.                    *)
Rows(p) ==
    /\ pc[p] # "idle" => ledger[p] = {} \/ (kind = "osint" /\ ledger[p] = {"STARTED"})
    /\ pc[p] = "idle" =>
          LET final == ledger[p] \ {"STARTED"} IN
          /\ outcome[p] = "completed" <=> final = {"COMPLETED"}
          /\ outcome[p] = "partial" <=> final = {"PARTIAL"}
          /\ outcome[p] = "failed" <=> final = {"FAILED"}
          /\ "STARTED" \in ledger[p] =>
                \/ kind = "osint" /\ outcome[p] \in {"raised", "killed"}
                \/ kind \notin RollsBack /\ outcome[p] = "failed"
    /\ outcome[p] = "raised" => Warned(p)

Types ==
    /\ kind \in Connectors
    /\ up \in [{"database", "store"} -> BOOLEAN]
    /\ source \in BOOLEAN
    /\ stored \subseteq Record
    /\ ledger \in [Runs -> SUBSET Statuses]
    /\ pc \in [Runs -> Places]
    /\ work \in [Runs -> Work]
    /\ txn \in [Runs -> Transaction]
    /\ outcome \in [Runs -> {"none", "completed", "partial", "failed", "raised", "killed"}]
    /\ outage \in [Runs -> BOOLEAN]
    /\ early \in [Runs -> BOOLEAN]
    /\ refused \in [Runs -> BOOLEAN]

RunInv(p) == Fits(p, pc[p], work[p], txn[p]) /\ Rows(p)

CInv == Types /\ \A p \in Runs : RunInv(p)

(* A run that moves on to a sound place keeps everything.                   *)
LEMMA Moves ==
    ASSUME CInv, NEW p \in Runs, NEW place \in Places \ {"idle"}, NEW w \in Work, NEW t \in Transaction,
           pc[p] # "idle", Goto(p, place), work' = [work EXCEPT ![p] = w], txn' = [txn EXCEPT ![p] = t],
           Fits(p, place, w, t)
    PROVE  CInv'
<1>1. Types'
  BY DEF CInv, Types, Goto
<1>2. /\ UNCHANGED <<kind, up, source, stored, ledger, outcome, outage, early, refused>>
      /\ pc' = [pc EXCEPT ![p] = place]
  BY DEF Goto
<1>3. ASSUME NEW q \in Runs PROVE RunInv(q)'
  <2>1. RunInv(q)
    BY DEF CInv
  <2>2. CASE q = p
    <3>1. pc'[q] = place /\ work'[q] = w /\ txn'[q] = t
      BY <1>2, <2>2 DEF CInv, Types
    <3>2. Fits(q, place, w, t)'
      BY <1>2, <2>2 DEF Fits, Sound, Clean, Complete, Excused, Warned, Digests, Digest
    <3>3. Rows(q)'
      BY <1>2, <2>1, <2>2, <3>1 DEF RunInv, Rows, Warned
    <3> QED BY <3>1, <3>2, <3>3 DEF RunInv
  <2>3. CASE q # p
    <3>1. pc'[q] = pc[q] /\ work'[q] = work[q] /\ txn'[q] = txn[q]
      BY <1>2, <2>3 DEF CInv, Types
    <3> QED BY <1>2, <2>1, <3>1 DEF RunInv, Fits, Sound, Clean, Complete, Excused, Warned, Digests, Digest, Rows
  <2> QED BY <2>2, <2>3
<1> QED BY <1>1, <1>3 DEF CInv

(* What is known of every run.                                              *)
LEMMA Known ==
    ASSUME CInv, NEW p \in Runs
    PROVE  /\ work[p] \in Work /\ txn[p] \in Transaction /\ pc[p] \in Places
           /\ Fits(p, pc[p], work[p], txn[p]) /\ Rows(p)
           /\ Requests[kind] \in Nat \ {0} /\ MaxRetries \in Nat \ {0}
           /\ work[p].asked \in Nat /\ work[p].attempt \in Nat /\ work[p].batch \subseteq Record
BY RequestsAssumption, BoundsAssumption DEF CInv, Types, RunInv, Work

LEMMA NothingFits ==
    ASSUME NEW session \in {"fresh", "open", "broken"}
    PROVE  /\ Nothing(session) \in Transaction
           /\ Nothing(session).session = session /\ Nothing(session).added = {}
           /\ ~Nothing(session).started /\ ~Nothing(session).creating
BY DEF Nothing, Transaction

(* An exception reaches the handler, with a session that was lost or not.   *)
LEMMA Raises ==
    ASSUME CInv, NEW p \in Runs, pc[p] # "idle", UNCHANGED work,
           NEW session, Raise(p, session),
           session = "broken" => Warned(p) \/ kind \in RollsBack,
           kind \in RollsBack \/ session = "broken" \/ txn[p].added = {}
    PROVE  CInv'
<1> DEFINE t == IF kind \in RollsBack THEN Nothing("fresh")
                ELSE IF session = "broken" THEN Nothing("broken") ELSE txn[p]
<1>1. Goto(p, "failing") /\ txn' = [txn EXCEPT ![p] = t] /\ work' = [work EXCEPT ![p] = work[p]]
  BY DEF Raise, Handed, CInv, Types
<1>2. t \in {Nothing("fresh"), Nothing("broken"), txn[p]} /\ t \in Transaction
  BY NothingFits, Known
<1>3. \/ t = Nothing("fresh")
      \/ kind \notin RollsBack /\ t = Nothing("broken") /\ Warned(p)
      \/ kind \notin RollsBack /\ t = txn[p] /\ txn[p].added = {}
  <2>1. CASE kind \in RollsBack
    BY <2>1
  <2>2. CASE kind \notin RollsBack /\ session = "broken"
    BY <2>2
  <2>3. CASE kind \notin RollsBack /\ session # "broken"
    BY <2>3
  <2> QED BY <2>1, <2>2, <2>3
<1> HIDE DEF t
<1>4. Sound("failing", work[p], t)
  BY Known DEF Fits, Sound
<1>5. kind = "osint" => kind \in RollsBack
  BY DEF RollsBack
<1>6. Clean("failing", t)
  <2>1. CASE t = Nothing("fresh")
    BY <2>1, NothingFits DEF Clean
  <2>2. CASE kind \notin RollsBack /\ t = Nothing("broken")
    BY <2>2, NothingFits DEF Clean
  <2>3. CASE kind \notin RollsBack /\ t = txn[p] /\ txn[p].added = {}
    <3>1. Clean(pc[p], txn[p])
      BY Known DEF Fits
    <3> QED BY <1>5, <2>3, <3>1 DEF Clean
  <2> QED BY <1>3, <2>1, <2>2, <2>3
<1>7. Complete("failing", work[p], t)
  BY DEF Complete
<1>8. Excused(p, "failing", t)
  <2>1. Excused(p, pc[p], txn[p])
    BY Known DEF Fits
  <2>2. t.session = "broken" => Warned(p)
    BY <1>3, <2>1, NothingFits DEF Excused
  <2> QED BY <2>1, <2>2 DEF Excused
<1> QED BY <1>1, <1>2, <1>4, <1>6, <1>7, <1>8, Moves, Known DEF Fits, Places

(* The runs that a step does not touch.                                     *)
LEMMA Others ==
    ASSUME CInv, NEW q \in Runs, UNCHANGED <<kind, up>>,
           pc'[q] = pc[q], work'[q] = work[q], txn'[q] = txn[q],
           outcome'[q] = outcome[q], ledger'[q] = ledger[q],
           outage'[q] = outage[q], early'[q] = early[q], refused'[q] = refused[q]
    PROVE  Sound(pc[q], work[q], txn[q])' /\ Clean(pc[q], txn[q])' /\ Rows(q)'
<1>1. Sound(pc[q], work[q], txn[q]) /\ Clean(pc[q], txn[q]) /\ Rows(q)
  BY Known DEF Fits
<1>2. Sound(pc[q], work[q], txn[q])'
  BY <1>1 DEF Sound
<1>3. Clean(pc[q], txn[q])'
  BY <1>1 DEF Clean
<1>4. Rows(q)'
  BY <1>1 DEF Rows, Warned
<1> QED BY <1>2, <1>3, <1>4

(* A run ends: the others keep what they have, the source and the records   *)
(* only come to be, and its row tells what happened.                        *)
LEMMA Ends ==
    ASSUME CInv, NEW p \in Runs, pc[p] # "idle",
           NEW answer \in {"completed", "partial", "failed", "raised", "killed"}, End(p, answer),
           source' \in BOOLEAN, source => source', stored \subseteq stored', stored' \subseteq Record,
           NEW rows \in SUBSET Statuses, ledger' = [ledger EXCEPT ![p] = rows],
           answer = "completed" <=> rows \ {"STARTED"} = {"COMPLETED"},
           answer = "partial" <=> rows \ {"STARTED"} = {"PARTIAL"},
           answer = "failed" <=> rows \ {"STARTED"} = {"FAILED"},
           "STARTED" \in rows => \/ kind = "osint" /\ answer \in {"raised", "killed"}
                                 \/ kind \notin RollsBack /\ answer = "failed",
           answer = "raised" => Warned(p)
    PROVE  CInv'
<1>1. /\ UNCHANGED <<kind, up, outage, early, refused>>
      /\ pc' = [pc EXCEPT ![p] = "idle"] /\ work' = [work EXCEPT ![p] = NoWork]
      /\ txn' = [txn EXCEPT ![p] = Nothing("fresh")] /\ outcome' = [outcome EXCEPT ![p] = answer]
  BY DEF End
<1>2. NoWork \in Work /\ Nothing("fresh") \in Transaction
  BY NothingFits DEF NoWork, Work
<1>3. Types'
  BY <1>1, <1>2 DEF CInv, Types, Places
<1>4. ASSUME NEW q \in Runs PROVE RunInv(q)'
  <2>1. CASE q = p
    <3>1. /\ pc'[q] = "idle" /\ work'[q] = NoWork /\ txn'[q] = Nothing("fresh")
          /\ outcome'[q] = answer /\ ledger'[q] = rows
      BY <1>1, <2>1 DEF CInv, Types
    <3>2. Rows(q)'
      BY <1>1, <2>1, <3>1 DEF Rows, Warned
    <3>3. Fits(q, "idle", NoWork, Nothing("fresh"))'
      <4>1. Sound("idle", NoWork, Nothing("fresh"))'
        BY <1>1, Known DEF Sound, NoWork
      <4>2. Clean("idle", Nothing("fresh"))'
        BY NothingFits DEF Clean
      <4> QED BY <4>1, <4>2 DEF Fits, Complete, Excused
    <3> QED BY <3>1, <3>2, <3>3 DEF RunInv
  <2>2. CASE q # p
    <3>1. /\ pc'[q] = pc[q] /\ work'[q] = work[q] /\ txn'[q] = txn[q]
          /\ outcome'[q] = outcome[q] /\ ledger'[q] = ledger[q]
      BY <1>1, <2>2 DEF CInv, Types
    <3>2. Sound(pc[q], work[q], txn[q])' /\ Clean(pc[q], txn[q])' /\ Rows(q)'
      BY <1>1, <3>1, Others
    <3>3. Complete(pc[q], work[q], txn[q])'
      BY <1>1, <3>1, Known DEF Fits, Complete, Digests, Digest
    <3>4. Excused(q, pc[q], txn[q])'
      <4>1. Excused(q, pc[q], txn[q])
        BY Known DEF Fits
      <4>2. ~source' => ~source
        BY Zenon
      <4>3. pc[q] # "idle" /\ ~source' => early[q]
        BY <4>1, <4>2, Zenon DEF Excused
      <4>4. /\ pc[q] # "idle" =>
                 /\ txn[q].session = "broken" => Warned(q)
                 /\ ~up["database"] \/ ~up["store"] => outage[q]
            /\ pc[q] \in {"inserting", "recreating"} => early[q]
        BY <4>1 DEF Excused
      <4> QED BY <1>1, <3>1, <4>3, <4>4 DEF Excused, Warned
    <3> QED BY <3>1, <3>2, <3>3, <3>4 DEF RunInv, Fits
  <2> QED BY <2>1, <2>2
<1> QED BY <1>3, <1>4 DEF CInv

(* A step that changes where a run is and its transaction.                  *)
LEMMA MovesTxn ==
    ASSUME CInv, NEW p \in Runs, NEW place \in Places \ {"idle"}, NEW t \in Transaction,
           pc[p] # "idle", Goto(p, place), UNCHANGED work, txn' = [txn EXCEPT ![p] = t],
           Sound(place, work[p], t), Clean(place, t), Complete(place, work[p], t), Excused(p, place, t)
    PROVE  CInv'
<1>1. work' = [work EXCEPT ![p] = work[p]]
  BY DEF CInv, Types
<1> QED BY <1>1, Moves, Known DEF Fits

(* A step that changes where a run is and its fetch.                        *)
LEMMA MovesWork ==
    ASSUME CInv, NEW p \in Runs, NEW place \in Places \ {"idle", "committing"}, NEW w \in Work,
           pc[p] # "idle", Goto(p, place), UNCHANGED txn, work' = [work EXCEPT ![p] = w],
           Sound(place, w, txn[p]), Clean(place, txn[p]), Excused(p, place, txn[p])
    PROVE  CInv'
<1>1. txn' = [txn EXCEPT ![p] = txn[p]]
  BY DEF CInv, Types
<1>2. Complete(place, w, txn[p])
  BY DEF Complete
<1> QED BY <1>1, <1>2, Moves, Known DEF Fits

(* A statement that succeeds opens the transaction.                         *)
LEMMA Opened ==
    ASSUME CInv, NEW p \in Runs, pc[p] # "idle", ~Cut(p)
    PROVE  LET t == [txn[p] EXCEPT !.session = "open"] IN
           /\ t \in Transaction /\ t.session = "open"
           /\ t.started = txn[p].started /\ t.added = txn[p].added
           /\ txn[p].session # "broken" /\ up["database"]
           /\ [txn EXCEPT ![p].session = "open"] = [txn EXCEPT ![p] = t]
<1>1. txn[p] \in Transaction
  BY Known
<1> QED BY <1>1 DEF Transaction, Cut

LEMMA TargetKeeps ==
    ASSUME CInv, NEW p \in Runs, Target(p)
    PROVE  CInv'
<1> DEFINE t == [txn[p] EXCEPT !.session = "open"]
<1>1. /\ pc[p] = "targeting" /\ ~Cut(p) /\ Goto(p, "fetching") /\ UNCHANGED work
      /\ txn' = [txn EXCEPT ![p].session = "open"]
  BY DEF Target
<1>2. /\ t \in Transaction /\ t.session = "open" /\ t.started = txn[p].started /\ t.added = txn[p].added
      /\ up["database"] /\ txn' = [txn EXCEPT ![p] = t]
  BY <1>1, Opened
<1> HIDE DEF t
<1>3. Sound(pc[p], work[p], txn[p]) /\ Clean(pc[p], txn[p]) /\ Excused(p, pc[p], txn[p])
  BY Known DEF Fits
<1>4. Sound("fetching", work[p], t)
  BY <1>1, <1>3, Known DEF Sound
<1>5. Clean("fetching", t)
  BY <1>1, <1>2, <1>3 DEF Clean
<1>6. Complete("fetching", work[p], t) /\ Excused(p, "fetching", t)
  BY <1>1, <1>2, <1>3 DEF Complete, Excused
<1> QED BY <1>1, <1>2, <1>4, <1>5, <1>6, MovesTxn DEF Places

LEMMA AnswerKeeps ==
    ASSUME CInv, NEW p \in Runs, Answer(p)
    PROVE  CInv'
<1>1. pc[p] = "fetching" /\ UNCHANGED txn
  BY DEF Answer
<1>2. PICK found \in SUBSET (Record \ work[p].batch), asked \in {Requests[kind], work[p].asked + 1} :
          /\ work' = [work EXCEPT ![p].asked = asked, ![p].attempt = 1,
                                  ![p].batch = work[p].batch \cup found]
          /\ Goto(p, IF asked = Requests[kind] THEN AfterFetch ELSE "fetching")
  BY DEF Answer
<1> DEFINE w == [work[p] EXCEPT !.asked = asked, !.attempt = 1, !.batch = work[p].batch \cup found]
           place == IF asked = Requests[kind] THEN AfterFetch ELSE "fetching"
<1>3. Sound(pc[p], work[p], txn[p]) /\ Clean(pc[p], txn[p]) /\ Excused(p, pc[p], txn[p])
  BY Known DEF Fits
<1>4. asked \in Nat /\ asked <= Requests[kind]
  BY <1>1, <1>3, Known DEF Sound
<1>5. /\ w \in Work /\ w.asked = asked /\ w.attempt = 1 /\ w.failures = work[p].failures
  BY <1>4, Known DEF Work
<1>6. work' = [work EXCEPT ![p] = w]
  BY <1>2 DEF CInv, Types, Work
<1> HIDE DEF w
<1>7. place \in {"ingesting", "validating", "fetching"}
      /\ (place = "ingesting" => kind = "osint") /\ (place = "validating" => kind # "osint")
      /\ (place = "fetching" => asked # Requests[kind])
  BY DEF AfterFetch
<1>8. Goto(p, place)
  BY <1>2
<1> HIDE DEF place
<1>9. Sound(place, w, txn[p])
  BY <1>3, <1>4, <1>5, <1>7, Known DEF Sound
<1>10. Clean(place, txn[p])
  BY <1>1, <1>3, <1>7 DEF Clean
<1>11. Excused(p, place, txn[p])
  BY <1>1, <1>3, <1>7 DEF Excused
<1> QED BY <1>1, <1>5, <1>6, <1>7, <1>8, <1>9, <1>10, <1>11, MovesWork DEF Places

LEMMA RetryKeeps ==
    ASSUME CInv, NEW p \in Runs, Retry(p)
    PROVE  CInv'
<1> DEFINE w == [work[p] EXCEPT !.attempt = work[p].attempt + 1]
<1>1. /\ pc[p] = "fetching" /\ UNCHANGED txn /\ work[p].attempt < MaxRetries /\ Goto(p, "fetching")
      /\ work' = [work EXCEPT ![p].attempt = work[p].attempt + 1]
  BY DEF Retry
<1>2. Sound(pc[p], work[p], txn[p]) /\ Clean(pc[p], txn[p]) /\ Excused(p, pc[p], txn[p])
  BY Known DEF Fits
<1>3. /\ w \in Work /\ w.attempt = work[p].attempt + 1
      /\ w.asked = work[p].asked /\ w.failures = work[p].failures
  BY Known DEF Work
<1>4. work' = [work EXCEPT ![p] = w]
  BY <1>1 DEF CInv, Types, Work
<1> HIDE DEF w
<1>5. Sound("fetching", w, txn[p])
  BY <1>1, <1>2, <1>3, Known DEF Sound
<1> QED BY <1>1, <1>2, <1>3, <1>4, <1>5, MovesWork DEF Places

LEMMA SkipSourceKeeps ==
    ASSUME CInv, NEW p \in Runs, SkipSource(p)
    PROVE  CInv'
<1> DEFINE place == IF work[p].asked + 1 = Requests[kind] THEN AfterFetch ELSE "fetching"
<1>1. /\ pc[p] = "fetching" /\ UNCHANGED txn /\ kind = "osint" /\ Goto(p, place)
      /\ work' = [work EXCEPT ![p].asked = work[p].asked + 1, ![p].failures = TRUE]
  BY DEF SkipSource
<1>2. Sound(pc[p], work[p], txn[p]) /\ Clean(pc[p], txn[p]) /\ Excused(p, pc[p], txn[p])
  BY Known DEF Fits
<1>3. PICK a \in Nat, b \in BOOLEAN :
          a = work[p].asked + 1 /\ work' = [work EXCEPT ![p].asked = a, ![p].failures = b]
  <2>1. work[p].asked + 1 \in Nat
    BY Known
  <2> QED BY <1>1, <2>1, Zenon
<1> DEFINE w == [work[p] EXCEPT !.asked = a, !.failures = b]
<1>4. /\ w \in Work /\ w.attempt = work[p].attempt /\ w.asked = work[p].asked + 1
      /\ work' = [work EXCEPT ![p] = w]
  <2>1. work \in [Runs -> Work] /\ work[p] \in Work
    BY DEF CInv, Types
  <2>2. work' = [work EXCEPT ![p] = w]
    BY <1>3, <2>1 DEF Work
  <2>3. w \in Work /\ w.attempt = work[p].attempt /\ w.asked = work[p].asked + 1
    BY <1>3, <2>1 DEF Work
  <2> QED BY <2>2, <2>3
<1> HIDE DEF w
<1>5. /\ place \in {"ingesting", "fetching"}
      /\ (place = "fetching" => work[p].asked + 1 # Requests[kind])
  BY <1>1 DEF AfterFetch
<1> HIDE DEF place
<1>6. Sound(place, w, txn[p])
  BY <1>1, <1>2, <1>4, <1>5, Known DEF Sound
<1>7. Clean(place, txn[p]) /\ Excused(p, place, txn[p])
  BY <1>1, <1>2, <1>5 DEF Clean, Excused
<1> QED BY <1>1, <1>4, <1>5, <1>6, <1>7, MovesWork DEF Places

LEMMA ValidateKeeps ==
    ASSUME CInv, NEW p \in Runs, Validate(p)
    PROVE  CInv'
<1>1. /\ pc[p] = "validating" /\ UNCHANGED txn /\ Goto(p, "sourcing")
  BY DEF Validate
<1>2. PICK unique \in SUBSET work[p].batch : work' = [work EXCEPT ![p].batch = unique]
  BY DEF Validate, Deduplicated
<1> DEFINE w == [work[p] EXCEPT !.batch = unique]
<1>3. Sound(pc[p], work[p], txn[p]) /\ Clean(pc[p], txn[p]) /\ Excused(p, pc[p], txn[p])
  BY Known DEF Fits
<1>4. /\ w \in Work /\ w.attempt = work[p].attempt /\ w.asked = work[p].asked
      /\ w.failures = work[p].failures
  BY Known DEF Work
<1>5. work' = [work EXCEPT ![p] = w]
  BY <1>2 DEF CInv, Types, Work
<1> HIDE DEF w
<1>6. Sound("sourcing", w, txn[p])
  BY <1>1, <1>3, <1>4 DEF Sound
<1>7. Clean("sourcing", txn[p]) /\ Excused(p, "sourcing", txn[p])
  BY <1>1, <1>3 DEF Clean, Excused
<1> QED BY <1>1, <1>4, <1>5, <1>6, <1>7, MovesWork DEF Places

(* Failures of the fetch, of its validation and of the object store.        *)
LEMMA FetchFailsKeeps ==
    ASSUME CInv, NEW p \in Runs, GiveUp(p) \/ Reject(p) \/ StoreFails(p)
    PROVE  CInv'
<1>1. pc[p] \in {"fetching", "validating", "storing"} /\ Raise(p, txn[p].session) /\ UNCHANGED work
  BY DEF GiveUp, Reject, StoreFails, Raise
<1>2. txn[p].added = {} /\ (txn[p].session = "broken" => Warned(p))
  BY <1>1, Known DEF Fits, Clean, Excused
<1> QED BY <1>1, <1>2, Raises

LEMMA SourceExistsKeeps ==
    ASSUME CInv, NEW p \in Runs, SourceExists(p) \/ IngestFails(p)
    PROVE  CInv'
<1>1. pc[p] \in {"inserting", "ingesting"} /\ Raise(p, "broken") /\ UNCHANGED work
  BY DEF SourceExists, IngestFails, Raise
<1>2. Warned(p) \/ kind \in RollsBack
  BY <1>1, Known DEF Fits, Sound, Excused, Warned, RollsBack
<1> QED BY <1>1, <1>2, Raises

LEMMA DatabaseFailsKeeps ==
    ASSUME CInv, NEW p \in Runs, DatabaseFails(p)
    PROVE  CInv'
<1>1. PICK session \in {"broken", txn[p].session} : Raise(p, session)
  BY DEF DatabaseFails
<1>2. pc[p] # "idle" /\ UNCHANGED work /\ Cut(p)
  BY <1>1 DEF DatabaseFails, Raise
<1>3. Clean(pc[p], txn[p]) /\ Excused(p, pc[p], txn[p]) /\ txn[p] \in Transaction
  BY Known DEF Fits
<1>4. Warned(p)
  BY <1>2, <1>3 DEF Cut, Excused, Warned
<1>5. txn[p].added = {}
  <2>1. txn[p].session \in {"fresh", "broken"}
    BY <1>2, <1>3 DEF Cut, Clean, Transaction
  <2> QED BY <1>3, <2>1, NothingFits DEF Clean
<1> QED BY <1>1, <1>2, <1>4, <1>5, Raises

LEMMA FindSourceKeeps ==
    ASSUME CInv, NEW p \in Runs, FindSource(p)
    PROVE  CInv'
<1> DEFINE t == [txn[p] EXCEPT !.session = "open"]
           place == IF source THEN AfterSource ELSE "inserting"
<1>1. /\ pc[p] = "sourcing" /\ ~Cut(p) /\ Goto(p, place) /\ UNCHANGED work
      /\ txn' = [txn EXCEPT ![p].session = "open"]
  BY DEF FindSource
<1>2. /\ t \in Transaction /\ t.session = "open" /\ t.started = txn[p].started /\ t.added = txn[p].added
      /\ up["database"] /\ txn' = [txn EXCEPT ![p] = t]
  BY <1>1, Opened
<1> HIDE DEF t
<1>3. Sound(pc[p], work[p], txn[p]) /\ Clean(pc[p], txn[p]) /\ Excused(p, pc[p], txn[p])
  BY Known DEF Fits
<1>4. /\ place \in {"opening", "storing", "inserting"}
      /\ (place = "opening" => kind = "osint") /\ (place = "storing" => kind # "osint")
  BY DEF AfterSource
<1>5. place = "inserting" => ~source
  BY DEF AfterSource
<1> HIDE DEF place
<1>6. Sound(place, work[p], t)
  BY <1>1, <1>3, <1>4 DEF Sound
<1>7. Clean(place, t)
  BY <1>1, <1>2, <1>3, <1>4 DEF Clean
<1>8. Complete(place, work[p], t)
  BY <1>4 DEF Complete
<1>9. Excused(p, place, t)
  <2>1. pc[p] # "idle" /\ pc[p] = "sourcing"
    BY <1>1
  <2>2. (~source => early[p]) /\ (~up["database"] \/ ~up["store"] => outage[p])
    BY <1>3, <2>1 DEF Excused
  <2>3. place = "inserting" => early[p]
    BY <1>5, <2>2, Zenon
  <2>4. t.session # "broken" /\ place # "recreating"
    BY <1>2, <1>4
  <2> QED BY <2>2, <2>3, <2>4, Zenon DEF Excused
<1> QED BY <1>1, <1>2, <1>4, <1>6, <1>7, <1>8, <1>9, MovesTxn DEF Places

LEMMA InsertSourceKeeps ==
    ASSUME CInv, NEW p \in Runs, InsertSource(p)
    PROVE  CInv'
<1>1. /\ pc[p] = "inserting" /\ ~Cut(p) /\ Goto(p, AfterSource) /\ UNCHANGED work
      /\ txn' = [txn EXCEPT ![p].creating = TRUE]
  BY DEF InsertSource
<1>2. PICK b \in BOOLEAN : txn' = [txn EXCEPT ![p].creating = b]
  BY <1>1, Zenon
<1> DEFINE t == [txn[p] EXCEPT !.creating = b]
<1>3. txn \in [Runs -> Transaction] /\ txn[p] \in Transaction
  BY DEF CInv, Types
<1>4. txn' = [txn EXCEPT ![p] = t]
  BY <1>2, <1>3 DEF Transaction
<1>5. t \in Transaction /\ t.session = txn[p].session /\ t.started = txn[p].started /\ t.added = txn[p].added
  BY <1>3 DEF Transaction
<1> HIDE DEF t
<1>6. Sound(pc[p], work[p], txn[p]) /\ Clean(pc[p], txn[p]) /\ Excused(p, pc[p], txn[p])
  BY Known DEF Fits
<1>7. t.session = "open"
  BY <1>1, <1>3, <1>5, <1>6 DEF Clean, Cut, Transaction
<1>8. /\ AfterSource \in {"opening", "storing"}
      /\ (AfterSource = "opening" => kind = "osint") /\ (AfterSource = "storing" => kind # "osint")
  BY DEF AfterSource
<1>9. Sound(AfterSource, work[p], t)
  BY <1>1, <1>6, <1>8 DEF Sound
<1>10. Clean(AfterSource, t)
  BY <1>1, <1>5, <1>6, <1>7, <1>8 DEF Clean
<1>11. Complete(AfterSource, work[p], t) /\ Excused(p, AfterSource, t)
  BY <1>1, <1>6, <1>7, <1>8 DEF Complete, Excused
<1> QED BY <1>1, <1>4, <1>5, <1>8, <1>9, <1>10, <1>11, MovesTxn DEF Places

LEMMA StoreRawKeeps ==
    ASSUME CInv, NEW p \in Runs, StoreRaw(p)
    PROVE  CInv'
<1>1. pc[p] = "storing" /\ Goto(p, "checking") /\ UNCHANGED work /\ txn' = [txn EXCEPT ![p] = txn[p]]
  BY DEF StoreRaw, CInv, Types
<1>2. Sound(pc[p], work[p], txn[p]) /\ Clean(pc[p], txn[p]) /\ Excused(p, pc[p], txn[p])
  BY Known DEF Fits
<1>3. Sound("checking", work[p], txn[p]) /\ Complete("checking", work[p], txn[p])
  BY <1>1, <1>2 DEF Sound, Complete
<1>4. Clean("checking", txn[p]) /\ Excused(p, "checking", txn[p])
  BY <1>1, <1>2 DEF Clean, Excused
<1> QED BY <1>1, <1>3, <1>4, MovesTxn, Known DEF Places

(* The INSERT leaves no digest of the batch out.                            *)
LEMMA InsertKeeps ==
    ASSUME CInv, NEW p \in Runs, Insert(p)
    PROVE  CInv'
<1>1. /\ pc[p] = "checking" /\ ~Cut(p) /\ Goto(p, "committing") /\ UNCHANGED work
      /\ txn' = [txn EXCEPT ![p].started = TRUE, ![p].added = Absent(p)]
  BY DEF Insert
<1>2. PICK b \in BOOLEAN, added \in SUBSET Record :
          /\ added = Absent(p)
          /\ txn' = [txn EXCEPT ![p].started = b, ![p].added = added]
  <2>1. Absent(p) \in SUBSET Record
    BY Known DEF Absent
  <2> QED BY <1>1, <2>1, Zenon
<1> DEFINE t == [txn[p] EXCEPT !.started = b, !.added = added]
<1>3. txn \in [Runs -> Transaction] /\ txn[p] \in Transaction
  BY DEF CInv, Types
<1>4. txn' = [txn EXCEPT ![p] = t]
  BY <1>2, <1>3 DEF Transaction
<1>5. t \in Transaction /\ t.session = txn[p].session /\ t.added = added
  BY <1>3 DEF Transaction
<1> HIDE DEF t
<1>6. Sound(pc[p], work[p], txn[p]) /\ Clean(pc[p], txn[p]) /\ Excused(p, pc[p], txn[p])
  BY Known DEF Fits
<1>7. t.session = "open" /\ up["database"] /\ kind # "osint"
  BY <1>1, <1>3, <1>5, <1>6 DEF Clean, Cut, Transaction, Sound
<1>8. Sound("committing", work[p], t)
  BY <1>1, <1>6 DEF Sound
<1>9. Clean("committing", t)
  BY <1>7 DEF Clean
<1>10. Complete("committing", work[p], t)
  BY <1>2, <1>5 DEF Complete, Absent, Digests
<1>11. Excused(p, "committing", t)
  BY <1>1, <1>6, <1>7 DEF Excused
<1> QED BY <1>1, <1>4, <1>5, <1>8, <1>9, <1>10, <1>11, MovesTxn DEF Places

LEMMA TooManyDigestsKeeps ==
    ASSUME CInv, NEW p \in Runs, TooManyDigests(p)
    PROVE  CInv'
<1>1. /\ pc[p] = "checking" /\ ~Cut(p) /\ Goto(p, "failing") /\ UNCHANGED work
  BY DEF TooManyDigests
<1>2. Sound(pc[p], work[p], txn[p]) /\ Clean(pc[p], txn[p]) /\ Excused(p, pc[p], txn[p])
  BY Known DEF Fits
<1>3. txn \in [Runs -> Transaction] /\ txn[p] \in Transaction
  BY DEF CInv, Types
<1>4. /\ kind # "osint" /\ txn[p].session = "open" /\ txn[p].added = {} /\ up["database"]
  BY <1>1, <1>2, <1>3 DEF Clean, Cut, Transaction, Sound
<1>5. PICK t \in Transaction :
          /\ txn' = [txn EXCEPT ![p] = t]
          /\ \/ t = Nothing("fresh")
             \/ kind \notin RollsBack /\ t.session = "open" /\ t.added = {}
  <2>1. CASE kind \in RollsBack
    <3>1. txn' = [txn EXCEPT ![p] = Nothing("fresh")]
      BY <2>1 DEF TooManyDigests
    <3> QED BY <3>1, NothingFits
  <2>2. CASE kind \notin RollsBack
    <3>1. txn' = [txn EXCEPT ![p] = [txn[p] EXCEPT !.started = TRUE]]
      BY <2>2, Zenon DEF TooManyDigests
    <3>2. PICK b \in BOOLEAN : txn' = [txn EXCEPT ![p] = [txn[p] EXCEPT !.started = b]]
      BY <3>1, Zenon
    <3>3. /\ [txn[p] EXCEPT !.started = b] \in Transaction
          /\ [txn[p] EXCEPT !.started = b].session = "open"
          /\ [txn[p] EXCEPT !.started = b].added = {}
      BY <1>3, <1>4 DEF Transaction
    <3> QED BY <2>2, <3>2, <3>3
  <2> QED BY <2>1, <2>2
<1>6. Sound("failing", work[p], t) /\ Complete("failing", work[p], t)
  BY <1>1, <1>2 DEF Sound, Complete
<1>7. Clean("failing", t)
  <2>1. CASE t = Nothing("fresh")
    BY <2>1, NothingFits DEF Clean
  <2>2. CASE kind \notin RollsBack /\ t.session = "open" /\ t.added = {}
    BY <1>4, <2>2 DEF Clean
  <2> QED BY <1>5, <2>1, <2>2
<1>8. Excused(p, "failing", t)
  <2>1. t.session # "broken"
    BY <1>5, NothingFits
  <2> QED BY <1>1, <1>2, <2>1 DEF Excused
<1> QED BY <1>1, <1>5, <1>6, <1>7, <1>8, MovesTxn DEF Places

(* What the database refuses is lost with its transaction.                  *)
LEMMA RefusedKeeps ==
    ASSUME CInv, NEW p \in Runs, Refused(p)
    PROVE  CInv'
<1>1. /\ pc[p] \in {"checking", "committing"} /\ pc' = [pc EXCEPT ![p] = "failing"]
      /\ txn' = [txn EXCEPT ![p] = Handed(p, "broken")] /\ refused' = [refused EXCEPT ![p] = TRUE]
      /\ UNCHANGED <<kind, up, source, stored, ledger, work, outcome, outage, early>>
  BY DEF Refused
<1>2. PICK t \in Transaction :
          /\ txn' = [txn EXCEPT ![p] = t]
          /\ \/ t = Nothing("fresh")
             \/ kind \notin RollsBack /\ t = Nothing("broken")
  BY <1>1, NothingFits DEF Handed
<1>3. \A q \in Runs : (refused[q] => refused'[q]) /\ (q # p => refused'[q] = refused[q])
  BY <1>1 DEF CInv, Types
<1>4. refused'[p]
  BY <1>1 DEF CInv, Types
<1>5. Types'
  BY <1>1, <1>2 DEF CInv, Types, Places
<1>6. ASSUME NEW q \in Runs PROVE RunInv(q)'
  <2>1. CASE q = p
    <3>1. pc'[q] = "failing" /\ work'[q] = work[p] /\ txn'[q] = t
      BY <1>1, <1>2, <2>1 DEF CInv, Types
    <3>2. Sound(pc[p], work[p], txn[p]) /\ Excused(p, pc[p], txn[p]) /\ Rows(p)
      BY Known DEF Fits
    <3>3. Sound("failing", work[p], t)'
      BY <1>1, <3>2 DEF Sound
    <3>4. Clean("failing", t)' /\ Complete("failing", work[p], t)'
      BY <1>2, NothingFits DEF Clean, Complete
    <3>5. t.session = "broken" => Warned(p)'
      BY <1>1, <1>2, <1>4, NothingFits DEF Warned
    <3>6. Excused(p, "failing", t)'
      BY <1>1, <3>2, <3>5 DEF Excused
    <3>7. Rows(q)'
      <4>1. Warned(p) => Warned(p)'
        BY <1>1, <1>3 DEF Warned
      <4> QED BY <1>1, <2>1, <3>1, <3>2, <4>1 DEF Rows
    <3> QED BY <2>1, <3>1, <3>3, <3>4, <3>6, <3>7 DEF RunInv, Fits
  <2>2. CASE q # p
    <3>1. /\ pc'[q] = pc[q] /\ work'[q] = work[q] /\ txn'[q] = txn[q]
          /\ outcome'[q] = outcome[q] /\ ledger'[q] = ledger[q]
          /\ outage'[q] = outage[q] /\ early'[q] = early[q] /\ refused'[q] = refused[q]
      BY <1>1, <1>2, <1>3, <2>2 DEF CInv, Types
    <3>2. Sound(pc[q], work[q], txn[q])' /\ Clean(pc[q], txn[q])' /\ Rows(q)'
      BY <1>1, <3>1, Others
    <3>3. Complete(pc[q], work[q], txn[q])' /\ Excused(q, pc[q], txn[q])'
      BY <1>1, <3>1, Known DEF Fits, Complete, Digests, Digest, Excused, Warned
    <3> QED BY <3>1, <3>2, <3>3 DEF RunInv, Fits
  <2> QED BY <2>1, <2>2
<1> QED BY <1>5, <1>6 DEF CInv

LEMMA RecreateKeeps ==
    ASSUME CInv, NEW p \in Runs, Recreate(p)
    PROVE  CInv'
<1> DEFINE t == [txn[p] EXCEPT !.session = "open"]
<1>1. /\ pc[p] = "failing" /\ ~Cut(p) /\ ~source /\ Goto(p, "recreating") /\ UNCHANGED work
      /\ txn' = [txn EXCEPT ![p].session = "open"]
  BY DEF Recreate
<1>2. /\ t \in Transaction /\ t.session = "open" /\ t.started = txn[p].started /\ t.added = txn[p].added
      /\ up["database"] /\ txn' = [txn EXCEPT ![p] = t]
  BY <1>1, Opened
<1> HIDE DEF t
<1>3. Sound(pc[p], work[p], txn[p]) /\ Clean(pc[p], txn[p]) /\ Excused(p, pc[p], txn[p])
  BY Known DEF Fits
<1>4. Sound("recreating", work[p], t) /\ Complete("recreating", work[p], t)
  BY <1>1, <1>3 DEF Sound, Complete
<1>5. Clean("recreating", t)
  BY <1>1, <1>2, <1>3 DEF Clean
<1>6. Excused(p, "recreating", t)
  <2>1. pc[p] # "idle"
    BY <1>1
  <2>2. (~source => early[p]) /\ (~up["database"] \/ ~up["store"] => outage[p])
    BY <1>3, <2>1 DEF Excused
  <2>3. early[p]
    BY <1>1, <2>2, Zenon
  <2> QED BY <1>2, <2>2, <2>3 DEF Excused
<1> QED BY <1>1, <1>2, <1>4, <1>5, <1>6, MovesTxn DEF Places

(* A commit of OSINT while it goes on: its own place and tables change, the *)
(* others keep theirs.                                                      *)
LEMMA OpenRunKeeps ==
    ASSUME CInv, NEW p \in Runs, OpenRun(p)
    PROVE  CInv'
<1>1. /\ pc[p] = "opening" /\ ~Cut(p)
      /\ pc' = [pc EXCEPT ![p] = "fetching"]
      /\ ledger' = [ledger EXCEPT ![p] = {"STARTED"}]
      /\ txn' = [txn EXCEPT ![p] = Nothing("fresh")]
      /\ UNCHANGED <<kind, up, stored, work, outcome, outage, early, refused>>
  BY DEF OpenRun
<1>2. source' /\ source' \in BOOLEAN
  BY Zenon DEF OpenRun
<1>3. Types'
  BY <1>1, <1>2, NothingFits DEF CInv, Types, Places, Statuses
<1>4. ASSUME NEW q \in Runs PROVE RunInv(q)'
  <2>1. CASE q = p
    <3>1. /\ pc'[q] = "fetching" /\ work'[q] = work[p] /\ txn'[q] = Nothing("fresh")
          /\ outcome'[q] = outcome[p] /\ ledger'[q] = {"STARTED"}
      BY <1>1, <2>1 DEF CInv, Types
    <3>2. Sound(pc[p], work[p], txn[p]) /\ Excused(p, pc[p], txn[p]) /\ Rows(p)
      BY Known DEF Fits
    <3>3. Sound("fetching", work[p], Nothing("fresh"))'
      BY <1>1, <3>2, Known DEF Sound
    <3>4. Clean("fetching", Nothing("fresh"))' /\ Complete("fetching", work[p], Nothing("fresh"))'
      BY NothingFits DEF Clean, Complete
    <3>5. Excused(p, "fetching", Nothing("fresh"))'
      <4>1. ~up'["database"] \/ ~up'["store"] => outage'[p]
        BY <1>1, <3>2 DEF Excused
      <4>2. Nothing("fresh").session # "broken"
        BY NothingFits
      <4> QED BY <1>2, <4>1, <4>2, Zenon DEF Excused
    <3>6. kind = "osint"
      BY <1>1, <3>2 DEF Sound
    <3>7. Rows(q)'
      BY <1>1, <2>1, <3>1, <3>2, <3>6 DEF Rows, Warned
    <3> QED BY <2>1, <3>1, <3>3, <3>4, <3>5, <3>7 DEF RunInv, Fits
  <2>2. CASE q # p
    <3>1. /\ pc'[q] = pc[q] /\ work'[q] = work[q] /\ txn'[q] = txn[q]
          /\ outcome'[q] = outcome[q] /\ ledger'[q] = ledger[q]
      BY <1>1, <2>2 DEF CInv, Types
    <3>2. Sound(pc[q], work[q], txn[q])' /\ Clean(pc[q], txn[q])' /\ Rows(q)'
      BY <1>1, <3>1, Others
    <3>3. Complete(pc[q], work[q], txn[q])'
      BY <1>1, <3>1, Known DEF Fits, Complete, Digests, Digest
    <3>4. Excused(q, pc[q], txn[q])'
      <4>1. Excused(q, pc[q], txn[q])
        BY Known DEF Fits
      <4>2. /\ pc[q] # "idle" =>
                 /\ txn[q].session = "broken" => Warned(q)
                 /\ ~up["database"] \/ ~up["store"] => outage[q]
            /\ pc[q] \in {"inserting", "recreating"} => early[q]
        BY <4>1 DEF Excused
      <4>3. /\ pc[q] # "idle" =>
                 /\ txn[q].session = "broken" => Warned(q)'
                 /\ ~up'["database"] \/ ~up'["store"] => outage'[q]
            /\ pc[q] \in {"inserting", "recreating"} => early'[q]
        BY <1>1, <4>2 DEF Warned
      <4> QED BY <1>2, <3>1, <4>3, Zenon DEF Excused
    <3> QED BY <3>1, <3>2, <3>3, <3>4 DEF RunInv, Fits
  <2> QED BY <2>1, <2>2
<1> QED BY <1>3, <1>4 DEF CInv

LEMMA IngestKeeps ==
    ASSUME CInv, NEW p \in Runs, Ingest(p)
    PROVE  CInv'
<1>1. /\ pc[p] = "ingesting" /\ ~Cut(p)
      /\ pc' = [pc EXCEPT ![p] = "committing"]
      /\ stored' = stored \cup work[p].batch
      /\ UNCHANGED <<kind, up, source, ledger, work, txn, outcome, outage, early, refused>>
  BY DEF Ingest
<1>2. Types'
  BY <1>1, Known DEF CInv, Types, Places
<1>3. ASSUME NEW q \in Runs PROVE RunInv(q)'
  <2>1. CASE q = p
    <3>1. pc'[q] = "committing" /\ work'[q] = work[p] /\ txn'[q] = txn[p]
      BY <1>1, <2>1 DEF CInv, Types
    <3>2. Sound(pc[p], work[p], txn[p]) /\ Clean(pc[p], txn[p]) /\ Excused(p, pc[p], txn[p]) /\ Rows(p)
      BY Known DEF Fits
    <3>3. Sound("committing", work[p], txn[p])' /\ Rows(q)'
      BY <1>1, <2>1, <3>1, <3>2 DEF Sound, Rows, Warned
    <3>4. Clean("committing", txn[p])' /\ Excused(p, "committing", txn[p])'
      BY <1>1, <3>2 DEF Clean, Excused, Sound, Warned
    <3>5. Complete("committing", work[p], txn[p])'
      BY <1>1 DEF Complete, Digests, Digest
    <3> QED BY <2>1, <3>1, <3>3, <3>4, <3>5 DEF RunInv, Fits
  <2>2. CASE q # p
    <3>1. pc'[q] = pc[q] /\ work'[q] = work[q] /\ txn'[q] = txn[q]
      BY <1>1, <2>2 DEF CInv, Types
    <3>2. Sound(pc[q], work[q], txn[q])' /\ Clean(pc[q], txn[q])' /\ Rows(q)'
      BY <1>1, <3>1, Others
    <3>3. Complete(pc[q], work[q], txn[q])' /\ Excused(q, pc[q], txn[q])'
      BY <1>1, <3>1, Known DEF Fits, Complete, Digests, Digest, Excused, Warned
    <3> QED BY <3>1, <3>2, <3>3 DEF RunInv, Fits
  <2> QED BY <2>1, <2>2
<1> QED BY <1>2, <1>3 DEF CInv

LEMMA CommitKeeps ==
    ASSUME CInv, NEW p \in Runs, Commit(p)
    PROVE  CInv'
<1>1. /\ pc[p] = "committing" /\ stored' = stored \cup txn[p].added
      /\ ledger' = [ledger EXCEPT ![p] = {Status(p)}] /\ End(p, AnswerOf(Status(p)))
  BY DEF Commit
<1>2. source' \in BOOLEAN /\ (source => source')
  BY Zenon DEF Commit
<1>3. stored' \subseteq Record
  BY <1>1, Known DEF CInv, Types, Transaction
<1>4. \/ Status(p) = "COMPLETED" /\ AnswerOf(Status(p)) = "completed"
      \/ Status(p) = "FAILED" /\ AnswerOf(Status(p)) = "failed"
      \/ Status(p) = "PARTIAL" /\ AnswerOf(Status(p)) = "partial"
  BY DEF Status, AnswerOf
<1> QED BY <1>1, <1>2, <1>3, <1>4, Ends DEF Statuses

LEMMA RecordFailureKeeps ==
    ASSUME CInv, NEW p \in Runs, RecordFailure(p)
    PROVE  CInv'
<1> DEFINE rows == {"FAILED"} \cup (IF txn[p].started THEN {"STARTED"} ELSE {})
<1>1. /\ pc[p] \in {"failing", "recreating"} /\ stored' = stored \cup txn[p].added
      /\ ledger' = [ledger EXCEPT ![p] = rows] /\ End(p, "failed")
  BY DEF RecordFailure
<1>2. source' \in BOOLEAN /\ (source => source')
  BY Zenon DEF RecordFailure
<1>3. stored' \subseteq Record
  BY <1>1, Known DEF CInv, Types, Transaction
<1>4. Clean(pc[p], txn[p])
  BY Known DEF Fits
<1>5. rows \in SUBSET Statuses /\ ("STARTED" \in rows => txn[p].started)
  BY DEF Statuses
<1>6. rows \ {"STARTED"} = {"FAILED"}
  OBVIOUS
<1>7. "STARTED" \in rows => kind \notin RollsBack
  BY <1>1, <1>4, <1>5 DEF Clean
<1> HIDE DEF rows
<1> QED BY <1>1, <1>2, <1>3, <1>5, <1>6, <1>7, Ends

LEMMA VanishesKeeps ==
    ASSUME CInv, NEW p \in Runs, Escapes(p) \/ Kill(p)
    PROVE  CInv'
<1>1. PICK answer \in {"raised", "killed"} :
          pc[p] # "idle" /\ UNCHANGED <<source, stored, ledger>> /\ End(p, answer)
                         /\ (answer = "raised" => Escapes(p))
  <2>1. CASE Escapes(p)
    <3>1. pc[p] # "idle" /\ UNCHANGED <<source, stored, ledger>> /\ End(p, "raised")
      BY <2>1 DEF Escapes
    <3> QED BY <2>1, <3>1, Zenon
  <2>2. CASE Kill(p)
    <3>1. pc[p] # "idle" /\ UNCHANGED <<source, stored, ledger>> /\ End(p, "killed")
      BY <2>2 DEF Kill
    <3> QED BY <3>1
  <2> QED BY <2>1, <2>2
<1>2. Rows(p) /\ Excused(p, pc[p], txn[p]) /\ ledger[p] \in SUBSET Statuses
  BY Known DEF Fits, CInv, Types
<1>3. ledger' = [ledger EXCEPT ![p] = ledger[p]] /\ source' \in BOOLEAN /\ stored' \subseteq Record
  BY <1>1 DEF CInv, Types
<1>4. ledger[p] = {} \/ (kind = "osint" /\ ledger[p] = {"STARTED"})
  BY <1>1, <1>2 DEF Rows
<1>5. ASSUME Escapes(p) PROVE Warned(p)
  <2>1. CASE pc[p] = "inserting" \/ pc[p] = "recreating"
    BY <1>2, <2>1 DEF Excused, Warned
  <2>2. CASE Cut(p) \/ DeadLetterFails(p)
    BY <1>1, <1>2, <2>2 DEF Excused, Warned, Cut, DeadLetterFails
  <2> QED BY <1>5, <2>1, <2>2 DEF Escapes
<1>6. ledger[p] \ {"STARTED"} = {}
  BY <1>4
<1>7. "STARTED" \in ledger[p] => kind = "osint"
  BY <1>4
<1>8. source => source'
  BY <1>1, Zenon
<1>9. /\ answer \in {"completed", "partial", "failed", "raised", "killed"}
      /\ answer # "completed" /\ answer # "partial" /\ answer # "failed"
  OBVIOUS
<1> DEFINE rows == ledger[p]
<1>10. rows \in SUBSET Statuses /\ ledger' = [ledger EXCEPT ![p] = rows]
  BY <1>2, <1>3
<1>11. /\ answer = "completed" <=> rows \ {"STARTED"} = {"COMPLETED"}
       /\ answer = "partial" <=> rows \ {"STARTED"} = {"PARTIAL"}
       /\ answer = "failed" <=> rows \ {"STARTED"} = {"FAILED"}
  BY <1>6, <1>9
<1>12. "STARTED" \in rows => \/ kind = "osint" /\ answer \in {"raised", "killed"}
                             \/ kind \notin RollsBack /\ answer = "failed"
  BY <1>7
<1>13. answer = "raised" => Warned(p)
  BY <1>1, <1>5
<1>14. stored \subseteq stored'
  BY <1>1
<1> HIDE DEF rows
<1> QED BY <1>1, <1>3, <1>8, <1>9, <1>10, <1>11, <1>12, <1>13, <1>14, Ends

LEMMA StartKeeps ==
    ASSUME CInv, NEW p \in Runs, Start(p)
    PROVE  CInv'
<1>1. /\ pc[p] = "idle" /\ pc' = [pc EXCEPT ![p] = Entry]
      /\ ledger' = [ledger EXCEPT ![p] = {}] /\ outcome' = [outcome EXCEPT ![p] = "none"]
      /\ refused' = [refused EXCEPT ![p] = FALSE]
      /\ UNCHANGED <<kind, up, source, stored, work, txn>>
  BY DEF Start
<1>2. PICK away \in BOOLEAN, unmade \in BOOLEAN :
          /\ outage' = [outage EXCEPT ![p] = away] /\ early' = [early EXCEPT ![p] = unmade]
          /\ (~up["database"] \/ ~up["store"] => away) /\ (~source => unmade)
  <2>1. /\ outage' = [outage EXCEPT ![p] = ~(up["database"] /\ up["store"])]
        /\ early' = [early EXCEPT ![p] = ~source]
    BY DEF Start
  <2>2. (~(up["database"] /\ up["store"])) \in BOOLEAN
    BY Zenon
  <2>3. (~source) \in BOOLEAN
    BY Zenon
  <2> QED BY <2>1, <2>2, <2>3, Zenon
<1>3. PICK place \in {"targeting", "sourcing", "fetching"} :
          place = Entry /\ (place = "sourcing" => kind = "osint")
  BY DEF Entry
<1>4. pc' = [pc EXCEPT ![p] = place]
  BY <1>1, <1>3
<1>5. Types'
  BY <1>1, <1>2, <1>4 DEF CInv, Types, Places
<1>6. ASSUME NEW q \in Runs PROVE RunInv(q)'
  <2>1. CASE q = p
    <3>1. Sound("idle", work[p], txn[p])
      BY <1>1, Known DEF Fits
    <3>2. work[p] = NoWork /\ txn[p] = Nothing("fresh")
      BY <3>1 DEF Sound
    <3>3. /\ pc'[q] = place /\ work'[q] = NoWork /\ txn'[q] = Nothing("fresh")
          /\ outcome'[q] = "none" /\ ledger'[q] = {} /\ outage'[q] = away /\ early'[q] = unmade
      BY <1>1, <1>2, <1>4, <2>1, <3>2 DEF CInv, Types
    <3>4. Sound(place, NoWork, Nothing("fresh"))'
      BY <1>1, <1>3, Known DEF Sound, NoWork
    <3>5. Clean(place, Nothing("fresh"))'
      BY <1>1, <1>3, NothingFits DEF Clean
    <3>6. Complete(place, NoWork, Nothing("fresh"))'
      BY <1>3 DEF Complete
    <3>7. Excused(q, place, Nothing("fresh"))'
      <4>1. /\ Nothing("fresh").session # "broken" /\ place # "inserting" /\ place # "recreating"
        BY <1>3, NothingFits
      <4>2. ~up'["database"] \/ ~up'["store"] => outage'[q]
        BY <1>1, <1>2, <3>3
      <4>3. source' = source
        BY <1>1
      <4>4. ~source' => early'[q]
        BY <1>2, <3>3, <4>3, Zenon
      <4> QED BY <4>1, <4>2, <4>4, Zenon DEF Excused
    <3>8. Rows(q)'
      BY <1>3, <3>3 DEF Rows
    <3> QED BY <3>3, <3>4, <3>5, <3>6, <3>7, <3>8 DEF RunInv, Fits
  <2>2. CASE q # p
    <3>1. /\ pc'[q] = pc[q] /\ work'[q] = work[q] /\ txn'[q] = txn[q]
          /\ outcome'[q] = outcome[q] /\ ledger'[q] = ledger[q]
          /\ outage'[q] = outage[q] /\ early'[q] = early[q] /\ refused'[q] = refused[q]
      BY <1>1, <1>2, <1>4, <2>2 DEF CInv, Types
    <3>2. Sound(pc[q], work[q], txn[q])' /\ Clean(pc[q], txn[q])' /\ Rows(q)'
      BY <1>1, <3>1, Others
    <3>3. Complete(pc[q], work[q], txn[q])' /\ Excused(q, pc[q], txn[q])'
      BY <1>1, <3>1, Known DEF Fits, Complete, Digests, Digest, Excused, Warned
    <3> QED BY <3>1, <3>2, <3>3 DEF RunInv, Fits
  <2> QED BY <2>1, <2>2
<1> QED BY <1>5, <1>6 DEF CInv

(* Away: the transactions of the database are lost, and every run under way *)
(* is warned.  Back: nothing open was left behind.                          *)
LEMMA SwitchKeeps ==
    ASSUME CInv, NEW service \in {"database", "store"}, Switch(service)
    PROVE  CInv'
<1>1. UNCHANGED <<kind, source, stored, ledger, pc, work, outcome, early, refused>>
  BY DEF Switch
<1>2. /\ up' \in [{"database", "store"} -> BOOLEAN]
      /\ up[service] => ~up'[service]
      /\ \A other \in {"database", "store"} \ {service} : up'[other] = up[other]
  <2>1. up' = [up EXCEPT ![service] = ~up[service]]
    BY DEF Switch
  <2>2. (~up[service]) \in BOOLEAN
    BY Zenon
  <2>3. PICK b \in BOOLEAN : up' = [up EXCEPT ![service] = b] /\ (up[service] => ~b)
    BY <2>1, <2>2, Zenon
  <2>4. up \in [{"database", "store"} -> BOOLEAN]
    BY DEF CInv, Types
  <2> QED BY <2>3, <2>4
<1>3. /\ outage' \in [Runs -> BOOLEAN]
      /\ \A q \in Runs : (outage[q] => outage'[q]) /\ (up[service] /\ pc[q] # "idle" => outage'[q])
  <2>1. CASE up[service]
    <3>1. outage' = [q \in Runs |-> outage[q] \/ pc[q] # "idle"]
      BY <2>1, Zenon DEF Switch
    <3>2. \A q \in Runs : (outage[q] \/ pc[q] # "idle") \in BOOLEAN
      BY Zenon
    <3> QED BY <3>1, <3>2, Zenon
  <2>2. CASE ~up[service]
    <3>1. outage' = outage
      BY <2>2, Zenon DEF Switch
    <3> QED BY <2>2, <3>1 DEF CInv, Types
  <2> QED BY <2>1, <2>2
<1>4. ASSUME NEW q \in Runs
      PROVE  \/ txn'[q] = txn[q] /\ (service = "database" /\ up[service] => txn[q].session = "fresh")
             \/ /\ service = "database" /\ up[service] /\ pc[q] # "idle"
                /\ txn[q].session # "fresh" /\ txn'[q] = Nothing("broken")
  <2>1. CASE service = "database" /\ up[service]
    <3>1. txn' = [r \in Runs |-> IF txn[r].session = "fresh" THEN txn[r] ELSE Nothing("broken")]
      BY <2>1, Zenon DEF Switch
    <3>2. pc[q] = "idle" => txn[q].session = "fresh"
      BY Known, NothingFits DEF Fits, Sound
    <3> QED BY <2>1, <3>1, <3>2
  <2>2. CASE ~(service = "database" /\ up[service])
    <3>1. txn' = txn
      BY <2>2, Zenon DEF Switch
    <3> QED BY <2>2, <3>1
  <2> QED BY <2>1, <2>2
<1>5. txn' \in [Runs -> Transaction]
  <2>1. CASE service = "database" /\ up[service]
    <3>1. txn' = [r \in Runs |-> IF txn[r].session = "fresh" THEN txn[r] ELSE Nothing("broken")]
      BY <2>1, Zenon DEF Switch
    <3> QED BY <3>1, NothingFits DEF CInv, Types
  <2>2. CASE ~(service = "database" /\ up[service])
    <3>1. txn' = txn
      BY <2>2, Zenon DEF Switch
    <3> QED BY <3>1 DEF CInv, Types
  <2> QED BY <2>1, <2>2
<1>6. Types'
  BY <1>1, <1>2, <1>3, <1>5 DEF CInv, Types
<1>7. ASSUME NEW q \in Runs PROVE RunInv(q)'
  <2>1. Sound(pc[q], work[q], txn[q]) /\ Clean(pc[q], txn[q]) /\ Excused(q, pc[q], txn[q]) /\ Rows(q)
    BY Known DEF Fits
  <2>2. Warned(q) => Warned(q)'
    BY <1>1, <1>3 DEF Warned
  <2>3. Rows(q)'
    BY <1>1, <2>1, <2>2 DEF Rows
  <2>4. pc[q] # "idle" => (~up'["database"] \/ ~up'["store"] => outage'[q])
    <3>1. CASE pc[q] # "idle" /\ up[service]
      BY <1>3, <3>1
    <3>2. CASE pc[q] # "idle" /\ ~up[service]
      BY <1>3, <2>1, <3>2 DEF Excused
    <3> QED BY <3>1, <3>2
  <2>5. CASE txn'[q] = txn[q] /\ (service = "database" /\ up[service] => txn[q].session = "fresh")
    <3>1. Sound(pc[q], work[q], txn[q])' /\ Complete(pc[q], work[q], txn[q])'
      BY <1>1, <2>5, Known DEF Fits, Sound, Complete, Digests, Digest
    <3>2. txn[q].session = "open" => up'["database"]
      BY <1>2, <2>1, <2>5 DEF Clean
    <3>3. Clean(pc[q], txn[q])'
      BY <1>1, <2>1, <2>5, <3>2 DEF Clean
    <3>4. Excused(q, pc[q], txn[q])'
      BY <1>1, <2>1, <2>2, <2>4, <2>5 DEF Excused
    <3> QED BY <2>3, <3>1, <3>3, <3>4 DEF RunInv, Fits
  <2>6. CASE /\ service = "database" /\ up[service] /\ pc[q] # "idle"
             /\ txn[q].session # "fresh" /\ txn'[q] = Nothing("broken")
    <3>1. Sound(pc[q], work[q], txn[q])'
      BY <1>1, <2>1, <2>6 DEF Sound
    <3>2. Clean(pc[q], txn[q])' /\ Complete(pc[q], work[q], txn[q])'
      BY <2>6, NothingFits DEF Clean, Complete
    <3>3. Warned(q)'
      BY <1>3, <2>6 DEF Warned
    <3>4. Excused(q, pc[q], txn[q])'
      BY <1>1, <2>1, <2>4, <3>3 DEF Excused
    <3> QED BY <2>3, <3>1, <3>2, <3>4 DEF RunInv, Fits
  <2> QED BY <1>4, <2>5, <2>6
<1> QED BY <1>6, <1>7 DEF CInv

LEMMA StartsWell == Init => CInv
<1> SUFFICES ASSUME Init PROVE CInv
  OBVIOUS
<1>1. /\ kind \in Connectors /\ stored = {}
      /\ ledger = [p \in Runs |-> {}] /\ pc = [p \in Runs |-> "idle"] /\ work = [p \in Runs |-> NoWork]
      /\ txn = [p \in Runs |-> Nothing("fresh")] /\ outcome = [p \in Runs |-> "none"]
  BY DEF Init
<1>2. /\ up \in [{"database", "store"} -> BOOLEAN] /\ source \in BOOLEAN
      /\ outage \in [Runs -> BOOLEAN] /\ early \in [Runs -> BOOLEAN] /\ refused \in [Runs -> BOOLEAN]
  BY Zenon DEF Init
<1>3. NoWork \in Work
  BY DEF NoWork, Work
<1>4. Types
  BY <1>1, <1>2, <1>3, NothingFits DEF Types, Places
<1>5. ASSUME NEW p \in Runs PROVE RunInv(p)
  <2>1. /\ pc[p] = "idle" /\ work[p] = NoWork /\ txn[p] = Nothing("fresh")
        /\ outcome[p] = "none" /\ ledger[p] = {}
    BY <1>1
  <2>2. Sound("idle", NoWork, Nothing("fresh"))
    BY <1>1, RequestsAssumption, BoundsAssumption DEF Sound, NoWork
  <2>3. Clean("idle", Nothing("fresh")) /\ Excused(p, "idle", Nothing("fresh"))
    BY NothingFits DEF Clean, Excused
  <2>4. Rows(p) /\ Complete("idle", NoWork, Nothing("fresh"))
    BY <2>1 DEF Rows, Complete
  <2> QED BY <2>1, <2>2, <2>3, <2>4 DEF RunInv, Fits
<1> QED BY <1>4, <1>5 DEF CInv

LEMMA StepKeeps == CInv /\ [Next]_vars => CInv'
<1> SUFFICES ASSUME CInv, [Next]_vars PROVE CInv'
  OBVIOUS
<1>1. ASSUME NEW p \in Runs, Step(p) PROVE CInv'
  <2>1. CASE Target(p) \/ Answer(p) \/ Retry(p) \/ SkipSource(p) \/ Validate(p)
    BY <2>1, TargetKeeps, AnswerKeeps, RetryKeeps, SkipSourceKeeps, ValidateKeeps
  <2>2. CASE GiveUp(p) \/ Reject(p) \/ StoreFails(p) \/ SourceExists(p) \/ IngestFails(p) \/ DatabaseFails(p)
    BY <2>2, FetchFailsKeeps, SourceExistsKeeps, DatabaseFailsKeeps
  <2>3. CASE \/ FindSource(p) \/ InsertSource(p) \/ StoreRaw(p) \/ Insert(p)
             \/ TooManyDigests(p) \/ Refused(p) \/ Recreate(p)
    BY <2>3, FindSourceKeeps, InsertSourceKeeps, StoreRawKeeps, InsertKeeps, TooManyDigestsKeeps,
       RefusedKeeps, RecreateKeeps
  <2>4. CASE OpenRun(p) \/ Ingest(p) \/ Commit(p) \/ RecordFailure(p) \/ Escapes(p)
    BY <2>4, OpenRunKeeps, IngestKeeps, CommitKeeps, RecordFailureKeeps, VanishesKeeps
  <2> QED BY <1>1, <2>1, <2>2, <2>3, <2>4 DEF Step
<1>2. ASSUME NEW p \in Runs, Start(p) \/ Kill(p) PROVE CInv'
  BY <1>2, StartKeeps, VanishesKeeps
<1>3. ASSUME NEW service \in DOMAIN up, Switch(service) PROVE CInv'
  <2>1. DOMAIN up = {"database", "store"}
    BY DEF CInv, Types
  <2> QED BY <1>3, <2>1, SwitchKeeps
<1>4. CASE UNCHANGED vars
  <2>1. UNCHANGED <<kind, up, source, stored, ledger, pc, work, txn, outcome, outage, early, refused>>
    BY <1>4 DEF vars
  <2>2. Types'
    BY <2>1 DEF CInv, Types
  <2>3. ASSUME NEW q \in Runs PROVE RunInv(q)'
    <3>1. RunInv(q)
      BY DEF CInv
    <3> QED BY <2>1, <3>1 DEF RunInv, Fits, Sound, Clean, Complete, Excused, Warned, Digests, Digest, Rows
  <2> QED BY <2>2, <2>3 DEF CInv
<1> QED BY <1>1, <1>2, <1>3, <1>4 DEF Next

LEMMA AlwaysCInv == Spec => []CInv
<1> QED BY StartsWell, StepKeeps, PTL DEF Spec

(* Whatever fails and whenever, a run row says what became of its run: the  *)
(* state of record_run, complete_run and record_failure is never left half  *)
(* told, but for the two cases the property names.                          *)
THEOREM RunRowsHold == Spec => []RunRowsTellTruth
<1>1. CInv => RunRowsTellTruth
  BY DEF CInv, RunInv, Rows, RunRowsTellTruth
<1> QED BY <1>1, AlwaysCInv, PTL

(* A run vanishes only in an outage, in the race for its source, or, in the *)
(* connectors that do not roll back, when a write was refused.              *)
THEOREM SilentRunsHold == Spec => []SilentRunsExplained
<1>1. CInv => SilentRunsExplained
  BY DEF CInv, RunInv, Rows, Warned, SilentRunsExplained
<1> QED BY <1>1, AlwaysCInv, PTL

(* The types of the states, for any number of runs and any outages.         *)
THEOREM ConnectorTypes == Spec => []TypeOK
<1>1. CInv => TypeOK
  BY DEF CInv, Types, RunInv, Fits, Sound, TypeOK
<1> QED BY <1>1, AlwaysCInv, PTL

(* Four actions end a run, and only their own.                              *)
LEMMA WhoEnds ==
    ASSUME CInv, [Next]_vars, NEW p \in Runs, pc[p] # "idle", pc'[p] = "idle"
    PROVE  Commit(p) \/ RecordFailure(p) \/ Escapes(p) \/ Kill(p)
<1>1. pc \in [Runs -> Places]
  BY DEF CInv, Types
<1>2. ASSUME NEW q \in Runs, NEW place, place # "idle", pc' = [pc EXCEPT ![q] = place] PROVE FALSE
  BY <1>1, <1>2
<1>3. ASSUME NEW q \in Runs, Commit(q) \/ RecordFailure(q) \/ Escapes(q) \/ Kill(q) PROVE q = p
  <2>1. pc' = [pc EXCEPT ![q] = "idle"]
    BY <1>3 DEF Commit, RecordFailure, Escapes, Kill, End
  <2> QED BY <1>1, <2>1
<1>4. ASSUME NEW q \in Runs, Start(q) PROVE FALSE
  <2>1. pc' = [pc EXCEPT ![q] = Entry] /\ Entry # "idle"
    BY <1>4 DEF Start, Entry
  <2> QED BY <1>2, <2>1
<1>5. ASSUME NEW q \in Runs, Target(q) \/ Retry(q) \/ Validate(q) \/ InsertSource(q) \/ StoreRaw(q)
      PROVE  FALSE
  <2>1. \E place \in {"fetching", "sourcing", "checking", "opening", "storing"} :
           pc' = [pc EXCEPT ![q] = place]
    BY <1>5 DEF Target, Retry, Validate, InsertSource, StoreRaw, Goto, AfterSource
  <2> QED BY <1>2, <2>1
<1>6. ASSUME NEW q \in Runs, Answer(q) \/ SkipSource(q) \/ FindSource(q) PROVE FALSE
  <2>1. AfterFetch \in {"ingesting", "validating"} /\ AfterSource \in {"opening", "storing"}
    BY DEF AfterFetch, AfterSource
  <2>2. CASE Answer(q)
    <3>1. PICK place \in {AfterFetch, "fetching"} : pc' = [pc EXCEPT ![q] = place]
      BY <2>2 DEF Answer, Goto
    <3> QED BY <1>2, <2>1, <3>1
  <2>3. CASE SkipSource(q)
    <3>1. PICK place \in {AfterFetch, "fetching"} : pc' = [pc EXCEPT ![q] = place]
      BY <2>3 DEF SkipSource, Goto
    <3> QED BY <1>2, <2>1, <3>1
  <2>4. CASE FindSource(q)
    <3>1. PICK place \in {AfterSource, "inserting"} : pc' = [pc EXCEPT ![q] = place]
      BY <2>4 DEF FindSource, Goto
    <3> QED BY <1>2, <2>1, <3>1
  <2> QED BY <1>6, <2>2, <2>3, <2>4
<1>7. ASSUME NEW q \in Runs,
             \/ GiveUp(q) \/ Reject(q) \/ StoreFails(q) \/ SourceExists(q) \/ IngestFails(q)
             \/ DatabaseFails(q) \/ TooManyDigests(q) \/ Refused(q) \/ Insert(q) \/ Recreate(q)
      PROVE  FALSE
  <2>1. \E place \in {"failing", "committing", "recreating"} : pc' = [pc EXCEPT ![q] = place]
    BY <1>7 DEF GiveUp, Reject, StoreFails, SourceExists, IngestFails, DatabaseFails, TooManyDigests,
                Refused, Insert, Recreate, Raise, Goto
  <2> QED BY <1>2, <2>1
<1>8. ASSUME NEW q \in Runs, OpenRun(q) \/ Ingest(q) PROVE FALSE
  <2>1. \E place \in {"fetching", "committing"} : pc' = [pc EXCEPT ![q] = place]
    BY <1>8 DEF OpenRun, Ingest
  <2> QED BY <1>2, <2>1
<1>9. ASSUME NEW service, Switch(service) PROVE FALSE
  BY <1>9 DEF Switch
<1>10. ASSUME UNCHANGED vars PROVE FALSE
  BY <1>10 DEF vars
<1> QED BY <1>3, <1>4, <1>5, <1>6, <1>7, <1>8, <1>9, <1>10 DEF Next, Step

(* What a run says it stored is in the tables, and a run that says it       *)
(* failed has added nothing: the digests of the batch are those found by    *)
(* the SELECT and those inserted, and no failure leaves records behind.     *)
THEOREM RunsStoreHolds == Spec => RunsStoreWhatTheySay
<1>1. ASSUME CInv, [Next]_vars, NEW p \in Runs, pc[p] # "idle", pc'[p] = "idle"
      PROVE  IF outcome'[p] \in {"completed", "partial"}
             THEN \A r \in work[p].batch : Says(stored', r)
             ELSE kind # "osint" => stored' = stored
  <2>1. outcome \in [Runs -> {"none", "completed", "partial", "failed", "raised", "killed"}]
    BY <1>1 DEF CInv, Types
  <2>2. Sound(pc[p], work[p], txn[p]) /\ Clean(pc[p], txn[p]) /\ Complete(pc[p], work[p], txn[p])
    BY <1>1, Known DEF Fits
  <2>3. CASE Commit(p)
    <3>1. /\ pc[p] = "committing" /\ txn[p].session # "broken" /\ stored' = stored \cup txn[p].added
          /\ outcome'[p] = AnswerOf(Status(p))
      BY <2>1, <2>3 DEF Commit, End, Cut
    <3>2. ASSUME NEW r \in work[p].batch PROVE Says(stored', r)
      <4>1. PICK s \in stored' : Digest(s) = Digest(r)
        BY <2>2, <3>1 DEF Complete, Digests
      <4>2. kind' = kind
        BY <2>3 DEF Commit, End
      <4> QED BY <4>1, <4>2 DEF Digest, Says, Loose
    <3>3. outcome'[p] \notin {"completed", "partial"} => kind = "osint"
      BY <2>2, <3>1 DEF Status, AnswerOf, Sound
    <3> QED BY <3>2, <3>3
  <2>4. CASE RecordFailure(p)
    <3>1. outcome'[p] = "failed" /\ stored' = stored \cup txn[p].added /\ pc[p] # "committing"
      BY <2>1, <2>4 DEF RecordFailure, End
    <3> QED BY <2>2, <3>1 DEF Clean
  <2>5. CASE Escapes(p) \/ Kill(p)
    <3>1. outcome'[p] \in {"raised", "killed"} /\ stored' = stored
      BY <2>1, <2>5 DEF Escapes, Kill, End
    <3> QED BY <3>1
  <2> QED BY <1>1, <2>3, <2>4, <2>5, WhoEnds
<1>2. CInv /\ [Next]_vars =>
          [\A p \in Runs : pc[p] # "idle" /\ pc'[p] = "idle" =>
               IF outcome'[p] \in {"completed", "partial"}
               THEN \A r \in work[p].batch : Says(stored', r)
               ELSE kind # "osint" => stored' = stored]_vars
  BY <1>1
<1> QED BY <1>2, AlwaysCInv, PTL DEF Spec, RunsStoreWhatTheySay
=============================================================================
