------------------------ MODULE ReconciliationProofs ------------------------
(***************************************************************************)
(* Proofs about Reconciliation, for finitely many fires, any detections,   *)
(* any map and any overlap of the runs.                                    *)
(***************************************************************************)
EXTENDS Reconciliation, Induction, FiniteSetTheorems, TLAPS

(* The rows as a transaction sees them.                                     *)
Rows == [perimeter : [Fires -> Perimeters], merged : [Fires -> Owners],
         detection : [Detections -> DetectionRows]]

(* Nothing in these rows is owned by a hidden incident.                     *)
Sound(db) ==
    /\ \A f \in Fires : db.merged[db.perimeter[f].owner] = NoIncident
    /\ \A d \in Detections :
        db.detection[d].owner # NoIncident =>
            db.merged[db.detection[d].owner] = NoIncident

(* Lists of perimeters and EFFIS news concern fires of the model.           *)
Lists == UNION {[D -> Readings] : D \in SUBSET Fires}

News == UNION {[D -> Records] : D \in SUBSET Fires}

(* An EFFIS run hides nobody, so that nothing can be owned by the hidden.   *)
LEMMA PersistEffisSound ==
    ASSUME NEW db \in Rows, NEW news \in News
    PROVE  PersistEffis(db, news) \in Rows /\ Sound(PersistEffis(db, news))
<1> DEFINE new == PersistEffis(db, news)
<1>1. PICK D \in SUBSET Fires : news \in [D -> Records]
  BY DEF News
<1>2. new.perimeter \in [Fires -> Perimeters]
  BY <1>1 DEF PersistEffis, Rows, Perimeters, Records
<1>3. new.merged = [f \in Fires |-> NoIncident]
  BY DEF PersistEffis, Rows
<1>4. new.detection = db.detection
  BY DEF PersistEffis, Rows
<1>5. new \in Rows
  BY <1>2, <1>3, <1>4 DEF PersistEffis, Rows, Owners
<1>6. \A i \in Owners : i # NoIncident => new.merged[i] = NoIncident
  BY <1>3 DEF Owners
<1>7. \A f \in Fires : new.perimeter[f].owner \in Fires
  BY <1>2 DEF Perimeters
<1>8. \A d \in Detections : new.detection[d].owner \in Owners
  BY <1>5 DEF Rows, DetectionRows
<1> QED BY <1>3, <1>5, <1>6, <1>7, <1>8 DEF Sound

(* Undoing the merges of the listed fires hides nobody either: what they    *)
(* owned is owned by incidents that are shown now.                          *)
LEMMA ResetSound ==
    ASSUME NEW db \in Rows, Sound(db), NEW seen \in Lists
    PROVE  /\ Reset(db, seen) \in Rows
           /\ Sound(Reset(db, seen))
           /\ \A f \in DOMAIN seen : Reset(db, seen).merged[f] = NoIncident
<1> DEFINE new == Reset(db, seen)
<1>1. PICK D \in SUBSET Fires : seen \in [D -> Readings]
  BY DEF Lists
<1>2. new.merged = [f \in Fires |-> IF f \in D THEN NoIncident ELSE db.merged[f]]
  BY <1>1 DEF Reset, Rows
<1>3. new.perimeter = [f \in Fires |-> IF f \in D /\ seen[f].moved
                                        THEN [db.perimeter[f] EXCEPT !.owner = f]
                                        ELSE db.perimeter[f]]
  BY <1>1 DEF Reset, Rows
<1>4. new.detection = db.detection
  BY DEF Reset, Rows
<1>5. new.merged \in [Fires -> Owners]
  BY <1>2 DEF Rows, Owners
<1>6. new.perimeter \in [Fires -> Perimeters]
  <2> SUFFICES ASSUME NEW f \in Fires PROVE new.perimeter[f] \in Perimeters
    BY <1>3
  <2>1. db.perimeter[f] \in Perimeters
    BY DEF Rows
  <2>2. [db.perimeter[f] EXCEPT !.owner = f] \in Perimeters
    BY <2>1 DEF Perimeters
  <2> QED BY <1>3, <2>1, <2>2
<1>7. new \in Rows
  BY <1>4, <1>5, <1>6 DEF Reset, Rows
<1>8. ASSUME NEW i \in Fires, db.merged[i] = NoIncident
      PROVE  new.merged[i] = NoIncident
  BY <1>2, <1>8
<1>9. \A f \in Fires : new.merged[new.perimeter[f].owner] = NoIncident
  <2> SUFFICES ASSUME NEW f \in Fires
               PROVE  new.merged[new.perimeter[f].owner] = NoIncident
    OBVIOUS
  <2>1. db.perimeter[f] \in Perimeters /\ db.perimeter[f].owner \in Fires
    BY DEF Rows, Perimeters
  <2>2. CASE f \in D /\ seen[f].moved
    <3>1. new.perimeter[f].owner = f
      BY <1>3, <2>1, <2>2 DEF Perimeters
    <3> QED BY <1>2, <2>2, <3>1
  <2>3. CASE ~(f \in D /\ seen[f].moved)
    <3>1. new.perimeter[f].owner = db.perimeter[f].owner
      BY <1>3, <2>3
    <3> QED BY <1>8, <2>1, <3>1 DEF Sound
  <2> QED BY <2>2, <2>3
<1>10. \A d \in Detections : db.detection[d].owner \in Fires \cup {NoIncident}
  BY DEF Rows, DetectionRows, Owners
<1>11. Sound(new)
  BY <1>4, <1>8, <1>9, <1>10 DEF Sound
<1> QED BY <1>1, <1>2, <1>7, <1>11

(* The leader of a group leads itself: it is one of those it leads.         *)
LEMMA LeadersLead ==
    ASSUME NEW db, NEW seen, NEW tags, NEW lead \in Groupings(db, seen, tags)
    PROVE  /\ lead \in [DOMAIN seen -> DOMAIN seen]
           /\ \A f \in DOMAIN seen : lead[lead[f]] = lead[f]
<1>1. PICK root : lead \in Leaders(seen, Groups(DOMAIN seen, root))
  BY DEF Groupings
<1>2. ASSUME NEW f \in DOMAIN seen
      PROVE  lead[lead[f]] = lead[f]
  <2> DEFINE group == {g \in DOMAIN seen : root[g] = root[f]}
  <2>1. group \in Groups(DOMAIN seen, root) /\ f \in group
    BY DEF Groups
  <2>2. PICK primary \in group : \A g \in group : lead[g] = primary
    BY <1>1, <2>1 DEF Leaders
  <2> QED BY <2>1, <2>2
<1> QED BY <1>1, <1>2 DEF Leaders

(* What a group owns goes to its leader, who is shown.                      *)
LEMMA MergeSound ==
    ASSUME NEW db \in Rows, Sound(db),
           NEW listed \in SUBSET Fires, NEW lead \in [listed -> listed],
           \A f \in listed : lead[lead[f]] = lead[f],
           \A f \in listed : db.merged[f] = NoIncident
    PROVE  /\ Merge(db, lead) \in Rows
           /\ Sound(Merge(db, lead))
           /\ \A f \in listed : Merge(db, lead).merged[lead[f]] = NoIncident
<1> DEFINE new == Merge(db, lead)
           heir(i) == IF i \in listed THEN lead[i] ELSE i
           duplicate(f) == f \in listed /\ lead[f] # f
<1>1. new.merged = [f \in Fires |-> IF duplicate(f) THEN lead[f] ELSE db.merged[f]]
  BY DEF Merge
<1>2. new.perimeter = [f \in Fires |-> [db.perimeter[f] EXCEPT
                          !.owner = IF duplicate(f) THEN lead[f] ELSE heir(@)]]
  BY DEF Merge
<1>3. new.detection = [d \in Detections |-> [db.detection[d] EXCEPT !.owner = heir(@)]]
  BY DEF Merge
<1>4. \A f \in listed : lead[f] \in Fires /\ ~duplicate(lead[f])
  OBVIOUS
<1>5. new.merged \in [Fires -> Owners]
  BY <1>1 DEF Rows, Owners
<1>6. \A f \in listed : new.merged[lead[f]] = NoIncident
  BY <1>1, <1>4
<1>7. ASSUME NEW i \in Fires, db.merged[i] = NoIncident
      PROVE  heir(i) \in Fires /\ new.merged[heir(i)] = NoIncident
  <2>1. CASE i \in listed
    BY <1>4, <1>6, <2>1
  <2>2. CASE i \notin listed
    BY <1>1, <1>7, <2>2
  <2> QED BY <2>1, <2>2
<1>8. ASSUME NEW f \in Fires
      PROVE  /\ new.perimeter[f] \in Perimeters
             /\ new.merged[new.perimeter[f].owner] = NoIncident
  <2> DEFINE old == db.perimeter[f]
             owner == IF duplicate(f) THEN lead[f] ELSE heir(old.owner)
  <2>1. old \in Perimeters /\ old.owner \in Fires
    BY DEF Rows, Perimeters
  <2>2. db.merged[old.owner] = NoIncident
    BY DEF Sound
  <2>3. owner \in Fires /\ new.merged[owner] = NoIncident
    BY <1>4, <1>6, <1>7, <2>1, <2>2
  <2>4. new.perimeter[f] = [old EXCEPT !.owner = owner]
    BY <1>2
  <2>5. new.perimeter[f] \in Perimeters /\ new.perimeter[f].owner = owner
    BY <2>1, <2>3, <2>4 DEF Perimeters
  <2> QED BY <2>3, <2>5
<1>9. ASSUME NEW d \in Detections
      PROVE  /\ new.detection[d] \in DetectionRows
             /\ \/ new.detection[d].owner = NoIncident
                \/ new.merged[new.detection[d].owner] = NoIncident
  <2> DEFINE old == db.detection[d]
  <2>1. old \in DetectionRows /\ old.owner \in Owners
    BY DEF Rows, DetectionRows
  <2>2. new.detection[d] = [old EXCEPT !.owner = heir(old.owner)]
    BY <1>3
  <2>3. CASE old.owner = NoIncident
    <3>1. heir(old.owner) = NoIncident
      BY <2>3, NoIncidentAssumption
    <3> QED BY <2>1, <2>2, <3>1 DEF DetectionRows, Owners
  <2>4. CASE old.owner # NoIncident
    <3>1. old.owner \in Fires /\ db.merged[old.owner] = NoIncident
      BY <2>1, <2>4 DEF Owners, Sound
    <3>2. heir(old.owner) \in Fires /\ new.merged[heir(old.owner)] = NoIncident
      BY <1>7, <3>1
    <3>3. new.detection[d] \in DetectionRows /\ new.detection[d].owner = heir(old.owner)
      BY <2>1, <2>2, <3>2 DEF DetectionRows, Owners
    <3> QED BY <3>2, <3>3
  <2> QED BY <2>3, <2>4
<1>10. new \in Rows
  <2>1. new.perimeter \in [Fires -> Perimeters]
    BY <1>2, <1>8
  <2>2. new.detection \in [Detections -> DetectionRows]
    BY <1>3, <1>9
  <2>3. new = [perimeter |-> new.perimeter, merged |-> new.merged,
               detection |-> new.detection]
    BY DEF Merge
  <2> HIDE DEF new
  <2> QED BY <1>5, <2>1, <2>2, <2>3 DEF Rows
<1>11. Sound(new)
  BY <1>8, <1>9 DEF Sound
<1> QED BY <1>6, <1>10, <1>11

(* A new link leads to a leader, who is shown.                              *)
LEMMA LinksSound ==
    ASSUME NEW db \in Rows, Sound(db), NEW seen \in Lists,
           NEW lead \in [DOMAIN seen -> DOMAIN seen],
           \A f \in DOMAIN seen : db.merged[lead[f]] = NoIncident,
           NEW new \in Links(db, seen, lead)
    PROVE  new \in Rows /\ Sound(new)
<1>1. DOMAIN seen \subseteq Fires
  BY DEF Lists
<1>2. PICK linked \in [Detections -> UNION {LinkedRows(db, seen, lead, d) : d \in Detections}] :
          /\ new = [db EXCEPT !.detection = linked]
          /\ \A d \in Detections : linked[d] \in LinkedRows(db, seen, lead, d)
  BY DEF Links
<1>3. new.perimeter = db.perimeter /\ new.merged = db.merged /\ new.detection = linked
  BY <1>2 DEF Rows
<1>4. ASSUME NEW d \in Detections
      PROVE  /\ linked[d] \in DetectionRows
             /\ \/ linked[d].owner = NoIncident
                \/ db.merged[linked[d].owner] = NoIncident
  <2>1. db.detection[d] \in DetectionRows
    BY DEF Rows
  <2>2. CASE linked[d] = db.detection[d]
    BY <2>1, <2>2 DEF Sound
  <2>3. CASE \E f \in DOMAIN seen : linked[d] = [db.detection[d] EXCEPT !.owner = lead[f]]
    <3>1. PICK f \in DOMAIN seen : linked[d] = [db.detection[d] EXCEPT !.owner = lead[f]]
      BY <2>3
    <3>2. lead[f] \in Fires
      BY <1>1
    <3>3. linked[d] \in DetectionRows /\ linked[d].owner = lead[f]
      BY <2>1, <3>1, <3>2 DEF DetectionRows, Owners
    <3> QED BY <3>3
  <2> QED BY <1>2, <2>2, <2>3 DEF LinkedRows, Covering
<1>5. linked \in [Detections -> DetectionRows]
  BY <1>4
<1>6. new \in Rows
  BY <1>2, <1>5 DEF Rows
<1> QED BY <1>3, <1>4, <1>6 DEF Sound

(* Inserted detections belong to nobody yet, or to whom they belonged.      *)
LEMMA InsertSound ==
    ASSUME NEW db \in Rows, Sound(db), today \in Days, NEW new
    PROVE  Insert(db, new) \in Rows /\ Sound(Insert(db, new))
<1> DEFINE rows == Insert(db, new)
<1>1. rows.detection = [d \in Detections |->
                          IF d \in new
                          THEN [db.detection[d] EXCEPT !.stored = TRUE, !.day = today]
                          ELSE db.detection[d]]
  BY DEF Insert, Rows
<1>2. rows.perimeter = db.perimeter /\ rows.merged = db.merged
  BY DEF Insert, Rows
<1>3. ASSUME NEW d \in Detections
      PROVE  /\ rows.detection[d] \in DetectionRows
             /\ rows.detection[d].owner = db.detection[d].owner
  <2>1. db.detection[d] \in DetectionRows
    BY DEF Rows
  <2> QED BY <1>1, <2>1 DEF DetectionRows
<1>4. rows.detection \in [Detections -> DetectionRows]
  BY <1>1, <1>3
<1>5. rows \in Rows
  BY <1>4 DEF Insert, Rows
<1> QED BY <1>2, <1>3, <1>5 DEF Sound

(* The variables are rows, and HiddenOwnsNothing is what Sound says of      *)
(* them.                                                                    *)
LEMMA StoreRows ==
    ASSUME TypeOK
    PROVE  Store \in Rows /\ (Sound(Store) <=> HiddenOwnsNothing)
BY DEF Store, Rows, TypeOK, Sound, HiddenOwnsNothing

(* What a run has written before it reconciles keeps both.                  *)
LEMMA WrittenSound ==
    ASSUME TypeOK, HiddenOwnsNothing, NEW r \in Runs, NEW db \in Written(r)
    PROVE  db \in Rows /\ Sound(db)
<1>1. Store \in Rows /\ Sound(Store)
  BY StoreRows
<1>2. CASE r = "effis"
  <2>1. job[r].news \in News
    BY DEF TypeOK, Jobs, News
  <2> QED BY <1>1, <1>2, <2>1, PersistEffisSound DEF Written
<1>3. CASE r = "firms"
  <2>1. today \in Days
    BY DEF TypeOK
  <2>2. PICK new : db = Insert(Store, new)
    BY <1>3 DEF Written
  <2> QED BY <1>1, <2>1, <2>2, InsertSound
<1>4. CASE r = "osint"
  BY <1>1, <1>4 DEF Written
<1> QED BY <1>2, <1>3, <1>4 DEF Runs

(* The stages of a reconciliation: taken back, merged, linked.              *)
LEMMA StagesSound ==
    ASSUME NEW db \in Rows, Sound(db), NEW seen \in Lists, NEW tags,
           NEW lead \in Groupings(Reset(db, seen), seen, tags)
    PROVE  /\ Merge(Reset(db, seen), lead) \in Rows
           /\ Sound(Merge(Reset(db, seen), lead))
           /\ \A new \in Links(Merge(Reset(db, seen), lead), seen, lead) :
                  new \in Rows /\ Sound(new)
<1> DEFINE reset == Reset(db, seen)
           merge == Merge(reset, lead)
<1>1. DOMAIN seen \in SUBSET Fires
  BY DEF Lists
<1>2. /\ reset \in Rows
      /\ Sound(reset)
      /\ \A f \in DOMAIN seen : reset.merged[f] = NoIncident
  BY ResetSound
<1>3. /\ lead \in [DOMAIN seen -> DOMAIN seen]
      /\ \A f \in DOMAIN seen : lead[lead[f]] = lead[f]
  BY LeadersLead
<1> HIDE DEF reset
<1>4. /\ merge \in Rows
      /\ Sound(merge)
      /\ \A f \in DOMAIN seen : merge.merged[lead[f]] = NoIncident
  BY <1>1, <1>2, <1>3, MergeSound
<1> HIDE DEF merge
<1>5. \A new \in Links(merge, seen, lead) : new \in Rows /\ Sound(new)
  BY <1>3, <1>4, LinksSound
<1> QED BY <1>4, <1>5 DEF reset, merge

(* What a run has in its memory is a list of perimeters.                    *)
LEMMA ListTyped ==
    ASSUME NEW db \in Rows
    PROVE  List(db) \in Lists
<1>1. Recent(db, today) \in SUBSET Fires
  BY DEF Recent, Stored
<1>2. ASSUME NEW f \in Recent(db, today)
      PROVE  List(db)[f] \in Readings
  <2>1. db.perimeter[f] \in Perimeters
    BY <1>1 DEF Rows
  <2> QED BY <2>1 DEF List, Readings, Perimeters
<1>3. List(db) \in [Recent(db, today) -> Readings]
  BY <1>2 DEF List
<1> QED BY <1>1, <1>3 DEF Lists

(* No rows are a list, and no news.                                         *)
LEMMA NoRowsTyped == NoRows \in Lists /\ NoRows \in News /\ Idle \in Jobs
<1>1. NoRows \in [{} -> Readings] /\ NoRows \in [{} -> Records]
  BY DEF NoRows
<1>2. NoRows \in Lists /\ NoRows \in News
  BY <1>1 DEF Lists, News
<1> QED BY <1>2 DEF Idle, Jobs, Lists, News

(* The rows a run leaves behind are the variables of the next state.        *)
LEMMA BecomesTyped ==
    ASSUME NEW db \in Rows, Sound(db), Becomes(db)
    PROVE  /\ perimeter' \in [Fires -> Perimeters]
           /\ merged' \in [Fires -> Owners]
           /\ detection' \in [Detections -> DetectionRows]
           /\ HiddenOwnsNothing'
BY DEF Becomes, Rows, Sound, HiddenOwnsNothing

(* A run that starts keeps news and a list in memory, and writes nothing.   *)
LEMMA BeginKeeps ==
    ASSUME TypeOK, HiddenOwnsNothing, NEW r \in Runs, NEW news \in News,
           NEW db \in Rows, Begin(r, news, db)
    PROVE  TypeOK' /\ HiddenOwnsNothing'
<1>1. [open |-> TRUE, news |-> news, seen |-> List(db)] \in Jobs
  BY ListTyped DEF Jobs, Lists, News
<1>2. job' \in [Runs -> Jobs]
  BY <1>1 DEF Begin, TypeOK
<1> QED BY <1>2 DEF Begin, TypeOK, HiddenOwnsNothing

(* A run that finishes writes sound rows.                                   *)
LEMMA FinishKeeps ==
    ASSUME TypeOK, HiddenOwnsNothing, NEW r \in Runs, NEW tags \in SUBSET Fires,
           Finish(r, tags)
    PROVE  TypeOK' /\ HiddenOwnsNothing'
<1>1. PICK db \in Written(r) :
          /\ \E new \in Reconciled(db, job[r].seen, tags) : Becomes(new)
          /\ settled' = (job[r].seen = List(db))
  BY DEF Finish
<1>2. PICK new \in Reconciled(db, job[r].seen, tags) : Becomes(new)
  BY <1>1
<1>3. db \in Rows /\ Sound(db)
  BY WrittenSound
<1>4. job[r].seen \in Lists
  BY DEF TypeOK, Jobs, Lists
<1>5. PICK lead \in Groupings(Reset(db, job[r].seen), job[r].seen, tags) :
          new \in Links(Merge(Reset(db, job[r].seen), lead), job[r].seen, lead)
  BY <1>2 DEF Reconciled
<1>6. new \in Rows /\ Sound(new)
  BY <1>3, <1>4, <1>5, StagesSound
<1>7. /\ perimeter' \in [Fires -> Perimeters]
      /\ merged' \in [Fires -> Owners]
      /\ detection' \in [Detections -> DetectionRows]
      /\ HiddenOwnsNothing'
  BY <1>2, <1>6, BecomesTyped
<1>8. job' \in [Runs -> Jobs]
  BY NoRowsTyped DEF Finish, TypeOK
<1>9. today' \in Days /\ tagged' \in SUBSET Fires /\ settled' \in BOOLEAN
  BY <1>1 DEF Finish, TypeOK
<1> QED BY <1>7, <1>8, <1>9 DEF TypeOK

(* A FIRMS run that fails leaves one of the stages behind.                  *)
LEMMA FailFirmsKeeps ==
    ASSUME TypeOK, HiddenOwnsNothing, FailFirms
    PROVE  TypeOK' /\ HiddenOwnsNothing'
<1> DEFINE seen == job["firms"].seen
<1>1. PICK db \in Written("firms") :
          \E part \in {db, Reset(db, seen)} \cup
                      {Merge(Reset(db, seen), lead) :
                          lead \in Groupings(Reset(db, seen), seen, tagged)} :
              Becomes(part)
  BY DEF FailFirms
<1>2. PICK part : /\ Becomes(part)
                  /\ \/ part = db
                     \/ part = Reset(db, seen)
                     \/ \E lead \in Groupings(Reset(db, seen), seen, tagged) :
                            part = Merge(Reset(db, seen), lead)
  BY <1>1
<1>3. db \in Rows /\ Sound(db)
  BY WrittenSound DEF Runs
<1>4. seen \in Lists
  BY DEF TypeOK, Jobs, Lists, Runs
<1>5. part \in Rows /\ Sound(part)
  BY <1>2, <1>3, <1>4, ResetSound, StagesSound
<1>6. /\ perimeter' \in [Fires -> Perimeters]
      /\ merged' \in [Fires -> Owners]
      /\ detection' \in [Detections -> DetectionRows]
      /\ HiddenOwnsNothing'
  BY <1>2, <1>5, BecomesTyped
<1>7. job' \in [Runs -> Jobs]
  BY NoRowsTyped DEF FailFirms, TypeOK
<1>8. today' \in Days /\ tagged' \in SUBSET Fires /\ settled' \in BOOLEAN
  BY DEF FailFirms, TypeOK
<1> QED BY <1>6, <1>7, <1>8 DEF TypeOK

(* What EFFIS publishes is news about fires of the model.                   *)
LEMMA NewsTyped ==
    ASSUME TypeOK, NEW changed \in SUBSET Fires, NEW shape \in Publications
    PROVE  [f \in changed |-> [shape |-> shape[f], observed |-> Date(f)]] \in News
<1>1. ASSUME NEW f \in changed
      PROVE  [shape |-> shape[f], observed |-> Date(f)] \in Records
  <2>1. shape[f] \in SUBSET Cells
    BY DEF Publications
  <2>2. perimeter[f].observed \in Days /\ today \in Days
    BY DEF TypeOK, Perimeters
  <2> QED BY <2>1, <2>2 DEF Records, Date
<1>2. [f \in changed |-> [shape |-> shape[f], observed |-> Date(f)]]
          \in [changed -> Records]
  BY <1>1
<1> QED BY <1>2 DEF News

(* At first nothing is hidden.                                              *)
LEMMA InitKeeps == Init => TypeOK /\ HiddenOwnsNothing
<1> SUFFICES ASSUME Init PROVE TypeOK /\ HiddenOwnsNothing
  OBVIOUS
<1>1. today \in Days /\ 0 \in Days
  BY DaysAssumption DEF Init, Days
<1>2. perimeter \in [Fires -> Perimeters]
  BY <1>1 DEF Init, Perimeters
<1>3. detection \in [Detections -> DetectionRows]
  BY <1>1 DEF Init, DetectionRows, Owners
<1>4. job \in [Runs -> Jobs]
  BY NoRowsTyped DEF Init
<1>5. merged \in [Fires -> Owners] /\ tagged \in SUBSET Fires /\ settled \in BOOLEAN
  BY DEF Init, Owners
<1>6. HiddenOwnsNothing
  BY DEF Init, HiddenOwnsNothing
<1> QED BY <1>1, <1>2, <1>3, <1>4, <1>5, <1>6 DEF TypeOK

(* Every step keeps the type and HiddenOwnsNothing: the two together are    *)
(* inductive, whatever the other runs have done since a list was read.      *)
LEMMA StepKeeps == TypeOK /\ HiddenOwnsNothing /\ [Next]_vars => (TypeOK /\ HiddenOwnsNothing)'
<1> SUFFICES ASSUME TypeOK, HiddenOwnsNothing, [Next]_vars
             PROVE  TypeOK' /\ HiddenOwnsNothing'
  OBVIOUS
<1>1. CASE BeginEffis
  <2>1. PICK changed \in SUBSET Fires, shape \in Publications :
            LET news == [f \in changed |-> [shape |-> shape[f], observed |-> Date(f)]]
            IN  Begin("effis", news, PersistEffis(Store, news))
    BY <1>1 DEF BeginEffis
  <2> DEFINE news == [f \in changed |-> [shape |-> shape[f], observed |-> Date(f)]]
  <2>2. news \in News
    BY NewsTyped
  <2>3. Begin("effis", news, PersistEffis(Store, news))
    BY <2>1
  <2> HIDE DEF news
  <2>4. PersistEffis(Store, news) \in Rows
    BY <2>2, StoreRows, PersistEffisSound
  <2> QED BY <2>2, <2>3, <2>4, BeginKeeps DEF Runs
<1>2. CASE BeginFirms \/ BeginOsint
  BY <1>2, StoreRows, NoRowsTyped, BeginKeeps DEF BeginFirms, BeginOsint, Runs
<1>3. CASE FinishEffis \/ FinishFirms
  <2>1. tagged \in SUBSET Fires
    BY DEF TypeOK
  <2> QED BY <1>3, <2>1, FinishKeeps DEF FinishEffis, FinishFirms, Runs
<1>4. CASE FinishOsint
  <2>1. PICK tags \in TagSets : Finish("osint", tags)
    BY <1>4 DEF FinishOsint
  <2> QED BY <2>1, TagSetsAssumption, FinishKeeps DEF Runs
<1>5. CASE \E r \in Runs : RollBack(r)
  <2>1. job' \in [Runs -> Jobs]
    BY <1>5, NoRowsTyped DEF RollBack, TypeOK
  <2> QED BY <1>5, <2>1 DEF RollBack, TypeOK, HiddenOwnsNothing
<1>6. CASE FailFirms
  BY <1>6, FailFirmsKeeps
<1>7. CASE Tick
  <2>1. today' \in Days
    BY <1>7, DaysAssumption DEF Tick, TypeOK, Days
  <2> QED BY <1>7, <2>1 DEF Tick, TypeOK, HiddenOwnsNothing
<1>8. CASE UNCHANGED vars
  BY <1>8 DEF vars, TypeOK, HiddenOwnsNothing
<1> QED BY <1>1, <1>2, <1>3, <1>4, <1>5, <1>6, <1>7, <1>8 DEF Next

(* The rows stay well-formed: in particular a perimeter never loses its     *)
(* incident (fire_perimeters.incident_id), and what a run has in memory     *)
(* concerns known fires.                                                    *)
THEOREM TypeCorrect == Spec => []TypeOK
<1>1. Spec => [](TypeOK /\ HiddenOwnsNothing)
  BY InitKeeps, StepKeeps, PTL DEF Spec
<1> QED BY <1>1, PTL

(* No perimeter and no detection is ever owned by a hidden incident,        *)
(* whichever runs overlap, whatever list they work on and wherever FIRMS    *)
(* fails (CanonicalFireReconciler.reconcile_recent, record_failure).        *)
THEOREM HiddenCorrect == Spec => []HiddenOwnsNothing
<1>1. Spec => [](TypeOK /\ HiddenOwnsNothing)
  BY InitKeeps, StepKeeps, PTL DEF Spec
<1> QED BY <1>1, PTL

(* The map of some rows: where the fires and the detections are, and when.  *)
(* No statement of a reconciliation changes it.                             *)
SameMap(old, new) ==
    /\ \A f \in Fires :
        /\ new.perimeter[f].shape = old.perimeter[f].shape
        /\ new.perimeter[f].observed = old.perimeter[f].observed
    /\ \A d \in Detections :
        /\ new.detection[d].stored = old.detection[d].stored
        /\ new.detection[d].day = old.detection[d].day

(* Taking merges back and merging only change who owns what.                *)
LEMMA MergeKeepsMap ==
    ASSUME NEW db \in Rows, NEW seen, NEW lead
    PROVE  SameMap(db, Merge(Reset(db, seen), lead))
<1> DEFINE reset == Reset(db, seen)
           merge == Merge(reset, lead)
           heir(i) == IF i \in DOMAIN lead THEN lead[i] ELSE i
           duplicate(f) == f \in DOMAIN lead /\ lead[f] # f
<1>1. /\ reset.perimeter = [f \in Fires |-> IF f \in DOMAIN seen /\ seen[f].moved
                                            THEN [db.perimeter[f] EXCEPT !.owner = f]
                                            ELSE db.perimeter[f]]
      /\ reset.detection = db.detection
  BY DEF Reset, Rows
<1>2. /\ merge.perimeter = [f \in Fires |-> [reset.perimeter[f] EXCEPT
                              !.owner = IF duplicate(f) THEN lead[f] ELSE heir(@)]]
      /\ merge.detection = [d \in Detections |-> [reset.detection[d] EXCEPT
                              !.owner = heir(@)]]
  BY DEF Merge
<1> HIDE DEF reset, merge, heir, duplicate
<1>3. ASSUME NEW f \in Fires
      PROVE  /\ merge.perimeter[f].shape = db.perimeter[f].shape
             /\ merge.perimeter[f].observed = db.perimeter[f].observed
  <2>1. db.perimeter[f] \in Perimeters
    BY DEF Rows
  <2>2. /\ reset.perimeter[f] \in [shape : SUBSET Cells, observed : Days, owner : Fires]
        /\ reset.perimeter[f].shape = db.perimeter[f].shape
        /\ reset.perimeter[f].observed = db.perimeter[f].observed
    BY <1>1, <2>1 DEF Perimeters
  <2> QED BY <1>2, <2>2
<1>4. ASSUME NEW d \in Detections
      PROVE  /\ merge.detection[d].stored = db.detection[d].stored
             /\ merge.detection[d].day = db.detection[d].day
  <2>1. db.detection[d] \in DetectionRows
    BY DEF Rows
  <2> QED BY <1>1, <1>2, <2>1 DEF DetectionRows
<1> QED BY <1>3, <1>4 DEF SameMap, reset, merge

(* Linking changes owners too, and leaves no covered detection without one: *)
(* the leader of a listed fire is a fire.                                   *)
LEMMA LinksCover ==
    ASSUME NEW db \in Rows, NEW seen \in Lists,
           NEW lead \in [DOMAIN seen -> DOMAIN seen], NEW new \in Links(db, seen, lead)
    PROVE  /\ SameMap(db, new)
           /\ \A d \in Detections :
                  Covering(db, seen, d) # {} => new.detection[d].owner # NoIncident
<1>1. DOMAIN seen \subseteq Fires
  BY DEF Lists
<1>2. PICK linked \in [Detections -> UNION {LinkedRows(db, seen, lead, d) : d \in Detections}] :
          /\ new = [db EXCEPT !.detection = linked]
          /\ \A d \in Detections : linked[d] \in LinkedRows(db, seen, lead, d)
  BY DEF Links
<1>3. new.perimeter = db.perimeter /\ new.detection = linked
  BY <1>2 DEF Rows
<1>4. ASSUME NEW d \in Detections
      PROVE  /\ linked[d].stored = db.detection[d].stored
             /\ linked[d].day = db.detection[d].day
             /\ Covering(db, seen, d) # {} => linked[d].owner # NoIncident
  <2>1. db.detection[d] \in DetectionRows
    BY DEF Rows
  <2>2. CASE db.detection[d].owner = NoIncident /\ Covering(db, seen, d) # {}
    <3>1. PICK f \in Covering(db, seen, d) :
              linked[d] = [db.detection[d] EXCEPT !.owner = lead[f]]
      BY <1>2, <2>2 DEF LinkedRows
    <3>2. lead[f] \in Fires
      BY <1>1 DEF Covering
    <3>3. linked[d].owner = lead[f]
      BY <2>1, <3>1 DEF DetectionRows
    <3> QED BY <2>1, <3>1, <3>2, <3>3, NoIncidentAssumption DEF DetectionRows
  <2>3. CASE ~(db.detection[d].owner = NoIncident /\ Covering(db, seen, d) # {})
    <3>1. linked[d] = db.detection[d]
      BY <1>2, <2>3 DEF LinkedRows
    <3> QED BY <2>3, <3>1
  <2> QED BY <2>2, <2>3
<1> QED BY <1>3, <1>4 DEF SameMap

(* The list, and what its perimeters cover, is read off the map.            *)
LEMMA CoveringFollowsMap ==
    ASSUME NEW old, NEW new, SameMap(old, new), NEW d \in Detections
    PROVE  Covering(new, List(new), d) = Covering(old, List(old), d)
<1>1. Recent(new, today) = Recent(old, today)
  BY DEF Recent, Stored, SameMap
<1>2. Recent(old, today) \subseteq Fires
  BY DEF Recent, Stored
<1>3. /\ DOMAIN List(new) = Recent(old, today)
      /\ DOMAIN List(old) = Recent(old, today)
      /\ \A f \in Recent(old, today) : List(new)[f].observed = List(old)[f].observed
  BY <1>1, <1>2 DEF List, SameMap
<1> QED BY <1>2, <1>3 DEF Covering, SameMap

(* A listed perimeter covers the same detections however the list came to   *)
(* be, if the map is the same.                                              *)
LEMMA CoveringOnMap ==
    ASSUME NEW old, NEW new, SameMap(old, new), NEW seen \in Lists, NEW d \in Detections
    PROVE  Covering(new, seen, d) = Covering(old, seen, d)
<1>1. DOMAIN seen \subseteq Fires
  BY DEF Lists
<1> QED BY <1>1 DEF Covering, SameMap

(* A reconciliation whose list is true links everything that is covered.    *)
LEMMA ReconciledCovers ==
    ASSUME NEW db \in Rows, Sound(db), NEW tags,
           NEW new \in Reconciled(db, List(db), tags), NEW d \in Detections,
           Covering(new, List(new), d) # {}
    PROVE  new.detection[d].owner # NoIncident
<1> DEFINE seen == List(db)
<1>1. seen \in Lists
  BY ListTyped
<1>2. PICK lead \in Groupings(Reset(db, seen), seen, tags) :
          new \in Links(Merge(Reset(db, seen), lead), seen, lead)
  BY DEF Reconciled
<1> DEFINE merge == Merge(Reset(db, seen), lead)
<1>3. merge \in Rows
  BY <1>1, StagesSound
<1>4. lead \in [DOMAIN seen -> DOMAIN seen]
  BY LeadersLead
<1>5. SameMap(db, merge)
  BY MergeKeepsMap
<1>6. new \in Links(merge, seen, lead)
  BY <1>2
<1> HIDE DEF merge
<1>7. /\ SameMap(merge, new)
      /\ Covering(merge, seen, d) # {} => new.detection[d].owner # NoIncident
  BY <1>1, <1>3, <1>4, <1>6, LinksCover
<1>8. SameMap(db, new)
  BY <1>5, <1>7 DEF SameMap
<1>9. Covering(new, List(new), d) = Covering(db, seen, d)
  BY <1>8, CoveringFollowsMap
<1>10. Covering(merge, seen, d) = Covering(db, seen, d)
  BY <1>1, <1>5, CoveringOnMap
<1> QED BY <1>7, <1>9, <1>10

(* Every run keeps CoveredIsLinked: it ends with a list that was true, or   *)
(* promises nothing.                                                        *)
LEMMA StepCovers ==
    ASSUME TypeOK, HiddenOwnsNothing, CoveredIsLinked, [Next]_vars
    PROVE  CoveredIsLinked'
<1>1. ASSUME NEW r \in Runs, NEW tags, Finish(r, tags)
      PROVE  CoveredIsLinked'
  <2>1. PICK db \in Written(r) :
            /\ \E new \in Reconciled(db, job[r].seen, tags) : Becomes(new)
            /\ settled' = (job[r].seen = List(db))
    BY <1>1 DEF Finish
  <2>2. PICK new \in Reconciled(db, job[r].seen, tags) : Becomes(new)
    BY <2>1
  <2>3. db \in Rows /\ Sound(db)
    BY WrittenSound
  <2>4. today' = today
    BY <1>1 DEF Finish
  <2> SUFFICES ASSUME settled', NEW d \in Detections,
                      Covering(Store, List(Store), d)' # {}
               PROVE  detection'[d].owner # NoIncident
    BY DEF CoveredIsLinked
  <2>5. new \in Reconciled(db, List(db), tags)
    BY <2>1, <2>2
  <2>6. Covering(Store, List(Store), d)' = Covering(new, List(new), d)
    BY <2>2, <2>4 DEF Becomes, Covering, List, Recent, Stored, Store
  <2>7. new.detection[d].owner # NoIncident
    BY <2>3, <2>5, <2>6, ReconciledCovers
  <2> QED BY <2>2, <2>7 DEF Becomes
<1>2. CASE UNCHANGED <<today, perimeter, merged, detection, settled>>
  BY <1>2 DEF CoveredIsLinked, Covering, List, Recent, Stored, Store
<1>3. CASE settled' = FALSE
  BY <1>3 DEF CoveredIsLinked
<1>4. CASE BeginEffis \/ BeginFirms \/ BeginOsint
  BY <1>2, <1>4 DEF BeginEffis, BeginFirms, BeginOsint, Begin
<1>5. CASE FinishEffis \/ FinishFirms \/ FinishOsint
  BY <1>1, <1>5 DEF FinishEffis, FinishFirms, FinishOsint, Runs
<1>6. CASE \E r \in Runs : RollBack(r)
  BY <1>2, <1>6 DEF RollBack
<1>7. CASE FailFirms \/ Tick
  BY <1>3, <1>7 DEF FailFirms, Tick
<1>8. CASE UNCHANGED vars
  BY <1>2, <1>8 DEF vars
<1> QED BY <1>4, <1>5, <1>6, <1>7, <1>8 DEF Next

(* After a run whose list was true, no detection that falls upon a recent   *)
(* perimeter is without an incident, however the perimeters were grouped    *)
(* and whatever ran before (_link_firms).                                   *)
THEOREM CoveredCorrect == Spec => []CoveredIsLinked
<1>1. Init => CoveredIsLinked
  <2> SUFFICES ASSUME Init, NEW d \in Detections
               PROVE  Covering(Store, List(Store), d) = {}
    BY DEF CoveredIsLinked
  <2>1. detection[d].stored = FALSE
    BY DEF Init
  <2>2. Store.detection = detection
    BY DEF Store
  <2> QED BY <2>1, <2>2 DEF Covering
<1>2. TypeOK /\ HiddenOwnsNothing /\ CoveredIsLinked /\ [Next]_vars => CoveredIsLinked'
  BY StepCovers
<1> QED BY <1>1, <1>2, InitKeeps, StepKeeps, PTL DEF Spec

(***************************************************************************)
(* The union-find of _group_adjacent_effis                                 *)
(***************************************************************************)

(* A pair is the two elements of the sequence it is taken apart as.         *)
LEMMA PairTakenApart ==
    ASSUME NEW a, NEW b, a # b
    PROVE  {SetToSeq({a, b})[1], SetToSeq({a, b})[2]} = {a, b}
<1> DEFINE pair == {a, b}
<1>1. Cardinality(pair) = 2
  <2>1. IsFiniteSet({a}) /\ Cardinality({a}) = 1
    BY FS_Singleton
  <2>2. Cardinality({a} \cup {b}) = 2
    BY <2>1, FS_AddElement
  <2>3. {a} \cup {b} = pair
    OBVIOUS
  <2> QED BY <2>2, <2>3
<1> DEFINE Takes(s) == s \in [1..2 -> pair] /\ IsInjective(s)
<1>2. \E s : Takes(s)
  <2> DEFINE s == [i \in 1..2 |-> IF i = 1 THEN a ELSE b]
  <2>1. s \in [1..2 -> pair] /\ s[1] = a /\ s[2] = b
    OBVIOUS
  <2>2. IsInjective(s)
    BY DEF IsInjective
  <2> HIDE DEF s
  <2> QED BY <2>1, <2>2
<1>3. SetToSeq(pair) = CHOOSE s \in [1..2 -> pair] : IsInjective(s)
  BY <1>1 DEF SetToSeq
<1>4. Takes(SetToSeq(pair))
  <2> HIDE DEF pair
  <2> QED BY <1>2, <1>3
<1> DEFINE s == SetToSeq(pair)
<1>5. s[1] \in pair /\ s[2] \in pair
  BY <1>4
<1>6. s[1] # s[2]
  BY <1>4 DEF IsInjective
<1> HIDE DEF s
<1>7. {s[1], s[2]} = pair
  BY <1>5, <1>6
<1> QED BY <1>7 DEF s

(* The root of every listed perimeter, a listed one.                        *)
Roots(listed) == [listed -> listed]

(* A set of perimeters has the roots of its own members and no others.      *)
Respects(listed, root, chosen) == \A f \in listed : root[f] \in chosen <=> f \in chosen

(* Pairs of different perimeters of the list.                               *)
PairsIn(listed) == {pair \in SUBSET listed : \E a, b \in listed : a # b /\ pair = {a, b}}

(* Uniting a pair gives both the same root, parts nothing that was united,  *)
(* and leaves a set that holds both or none with its own roots.             *)
LEMMA UniteJoins ==
    ASSUME NEW listed, NEW root \in Roots(listed),
           NEW a \in listed, NEW b \in listed, a # b,
           NEW next, next = Unite(root, {a, b})
    PROVE  /\ next \in Roots(listed)
           /\ next[a] = next[b]
           /\ \A f, g \in listed : root[f] = root[g] => next[f] = next[g]
           /\ \A chosen : (a \in chosen <=> b \in chosen) /\ Respects(listed, root, chosen)
                             => Respects(listed, next, chosen)
<1> DEFINE s == SetToSeq({a, b})
<1>1. {s[1], s[2]} = {a, b}
  BY PairTakenApart
<1>2. next = [f \in listed |-> IF root[f] = root[s[2]] THEN root[s[1]] ELSE root[f]]
  BY DEF Unite, Roots
<1> HIDE DEF s
<1>3. (s[1] = a /\ s[2] = b) \/ (s[1] = b /\ s[2] = a)
  BY <1>1
<1>4. next \in Roots(listed) /\ next[a] = next[b]
  BY <1>2, <1>3 DEF Roots
<1>5. \A f, g \in listed : root[f] = root[g] => next[f] = next[g]
  BY <1>2 DEF Roots
<1>6. ASSUME NEW chosen, a \in chosen <=> b \in chosen, Respects(listed, root, chosen)
      PROVE  Respects(listed, next, chosen)
  <2>1. root[s[1]] \in chosen <=> root[s[2]] \in chosen
    BY <1>3, <1>6 DEF Respects
  <2> QED BY <1>2, <1>6, <2>1 DEF Roots, Respects
<1> QED BY <1>4, <1>5, <1>6

(* The roots are what their recursive definition says.                      *)
LEMMA RootsDefined ==
    ASSUME NEW listed, NEW pairs \in SUBSET PairsIn(listed), NEW order \in Seq(pairs),
           NEW root, root = RootsAfter(listed, order)
    PROVE  /\ root \in [0..Len(order) -> Roots(listed)]
           /\ root[0] = [f \in listed |-> f]
           /\ \A n \in 1..Len(order) : root[n] = Unite(root[n - 1], order[n])
<1> DEFINE X == Roots(listed)
           N == Len(order)
           start == [f \in listed |-> f]
           step == [n \in 1..N |-> [r \in X |-> Unite(r, order[n])]]
           Values(v) == v = [n \in 0..N |-> IF n = 0 THEN start
                                            ELSE Unite(v[n - 1], order[n])]
<1>1. N \in Nat /\ order \in [1..N -> PairsIn(listed)]
  OBVIOUS
<1> HIDE DEF N
<1>2. \A n \in 1..N, r \in X : Unite(r, order[n]) \in X
  <2> SUFFICES ASSUME NEW n \in 1..N, NEW r \in X PROVE Unite(r, order[n]) \in X
    OBVIOUS
  <2>1. PICK a \in listed, b \in listed : a # b /\ order[n] = {a, b}
    BY <1>1 DEF PairsIn
  <2>2. Unite(r, {a, b}) \in X
    BY <2>1, UniteJoins
  <2> QED BY <2>1, <2>2
<1>3. step \in Steps(X, N) /\ start \in X
  BY <1>2 DEF Steps, Roots
<1>4. PICK v : v \in Walks(X, start, N, step)
  <2> HIDE DEF step, X, start
  <2> QED BY <1>1, <1>3, StepsExist
<1>5. Values(v)
  <2>1. /\ v \in [0..N -> X] /\ v[0] = start
        /\ \A n \in 1..N : v[n] = step[n][v[n - 1]]
    <3> HIDE DEF step, X, start
    <3> QED BY <1>4 DEF Walks
  <2>2. ASSUME NEW n \in 0..N, n # 0 PROVE v[n] = Unite(v[n - 1], order[n])
    <3>1. n \in 1..N /\ n - 1 \in 0..N
      BY <1>1, <2>2
    <3>2. v[n - 1] \in X
      BY <2>1, <3>1
    <3>3. v[n] = step[n][v[n - 1]]
      BY <2>1, <3>1
    <3> HIDE DEF X
    <3> QED BY <3>1, <3>2, <3>3
  <2>3. \A n \in 0..N : v[n] = IF n = 0 THEN start ELSE Unite(v[n - 1], order[n])
    BY <2>1, <2>2
  <2> HIDE DEF start, X
  <2> QED BY <2>1, <2>3
<1>6. root = CHOOSE w : Values(w)
  BY DEF RootsAfter, N
<1>7. Values(root)
  <2> HIDE DEF Values
  <2> QED BY <1>5, <1>6
<1>8. root[0] = start /\ \A n \in 1..N : root[n] = Unite(root[n - 1], order[n])
  <2> HIDE DEF start
  <2>1. DOMAIN root = 0..N
    BY <1>7
  <2>2. \A n \in 0..N : root[n] = IF n = 0 THEN start ELSE Unite(root[n - 1], order[n])
    BY <1>7
  <2> QED BY <1>1, <2>2
<1>9. root \in [0..N -> X]
  <2> DEFINE S == {n \in Nat : n <= N => root[n] \in X}
  <2> HIDE DEF X, start
  <2>1. 0 \in S
    BY <1>3, <1>8
  <2>2. ASSUME NEW n \in Nat, n \in S PROVE n + 1 \in S
    <3> SUFFICES ASSUME n + 1 <= N PROVE root[n + 1] \in X
      OBVIOUS
    <3>1. n + 1 \in 1..N /\ (n + 1) - 1 = n /\ root[n] \in X
      BY <1>1, <2>2
    <3>2. root[n + 1] = Unite(root[n], order[n + 1])
      BY <1>8, <3>1
    <3> QED BY <1>2, <3>1, <3>2
  <2>3. Nat \subseteq S
    <3> HIDE DEF S
    <3> QED BY <2>1, <2>2, NatSetInduction
  <2>4. \A n \in 0..N : root[n] \in X
    BY <2>3
  <2>5. root = [n \in 0..N |-> IF n = 0 THEN start ELSE Unite(root[n - 1], order[n])]
    BY <1>7
  <2> QED BY <2>4, <2>5
<1> QED BY <1>8, <1>9 DEF N

(* An order of the elements of a finite set goes through all of them.       *)
LEMMA OrderCovers ==
    ASSUME NEW S, IsFiniteSet(S), NEW order \in SetToSeqs(S)
    PROVE  /\ Cardinality(S) \in Nat
           /\ order \in [1..Cardinality(S) -> S]
           /\ \A x \in S : \E n \in 1..Cardinality(S) : order[n] = x
<1> DEFINE N == Cardinality(S)
<1>1. N \in Nat
  BY FS_CardinalityType
<1>2. order \in [1..N -> S] /\ \A i, j \in 1..N : i # j => order[i] # order[j]
  BY DEF SetToSeqs
<1> HIDE DEF N
<1>3. order \in Injection(1..N, S)
  BY <1>2 DEF Injection, IsInjective
<1>4. Cardinality(1..N) = N
  BY <1>1, FS_Interval
<1>5. order \in Surjection(1..N, S)
  BY <1>3, <1>4, FS_Injection DEF N
<1> QED BY <1>1, <1>2, <1>5 DEF N, Surjection

(* A set of perimeters that every pair is inside or outside of.             *)
Closed(pairs, chosen) ==
    \A pair \in pairs : pair \cap chosen # {} => pair \subseteq chosen

(* Perimeters have the same root exactly when a chain of pairs joins them.  *)
RootsOfChains(listed, pairs, root) ==
    /\ root \in Roots(listed)
    /\ \A f, g \in listed : root[f] = root[g] <=> Joined(listed, pairs, f, g)

(* In whatever order the pairs are united, two perimeters end up under the  *)
(* same root exactly when a chain of pairs joins them.                      *)
LEMMA RootsJoin ==
    ASSUME NEW listed, NEW pairs, IsFiniteSet(pairs), NEW order \in SetToSeqs(pairs),
           pairs \in SUBSET PairsIn(listed), NEW root, root = GroupRoots(listed, order)
    PROVE  RootsOfChains(listed, pairs, root)
<1> DEFINE N == Cardinality(pairs)
<1>1. /\ N \in Nat /\ N = Len(order) /\ order \in Seq(pairs)
      /\ order \in [1..N -> pairs]
      /\ \A pair \in pairs : \E n \in 1..N : order[n] = pair
  BY OrderCovers
<1>2. PICK roots : roots = RootsAfter(listed, order)
  OBVIOUS
<1> HIDE DEF N
<1>3. /\ roots \in [0..N -> Roots(listed)]
      /\ roots[0] = [f \in listed |-> f]
      /\ \A n \in 1..N : roots[n] = Unite(roots[n - 1], order[n])
  <2>1. /\ roots \in [0..Len(order) -> Roots(listed)]
        /\ roots[0] = [f \in listed |-> f]
        /\ \A n \in 1..Len(order) : roots[n] = Unite(roots[n - 1], order[n])
    <3>1. order \in Seq(pairs)
      BY <1>1
    <3> QED BY <1>2, <3>1, RootsDefined
  <2> QED BY <1>1, <2>1
<1> DEFINE Together(n) == \A m \in 1..n : \A f, g \in order[m] : roots[n][f] = roots[n][g]
           Inside(n) == \A chosen \in SUBSET listed :
                            Closed(pairs, chosen) => Respects(listed, roots[n], chosen)
           S == {n \in Nat : n <= N => Together(n) /\ Inside(n)}
<1>4. 0 \in S
  BY <1>3 DEF Roots, Respects
<1>5. ASSUME NEW n \in Nat, n \in S PROVE n + 1 \in S
  <2> SUFFICES ASSUME n + 1 <= N PROVE Together(n + 1) /\ Inside(n + 1)
    OBVIOUS
  <2>1. n + 1 \in 1..N /\ (n + 1) - 1 = n /\ n \in 0..N
    BY <1>1
  <2>2. Together(n) /\ Inside(n)
    BY <1>1, <1>5
  <2> DEFINE old == roots[n]
             next == roots[n + 1]
  <2>3. old \in Roots(listed)
    BY <1>3, <2>1
  <2>4. PICK a \in listed, b \in listed : a # b /\ order[n + 1] = {a, b}
    BY <1>1, <2>1 DEF PairsIn
  <2>5. next = Unite(old, {a, b})
    BY <1>3, <2>1, <2>4
  <2> HIDE DEF old, next
  <2>6. /\ next[a] = next[b]
        /\ \A f, g \in listed : old[f] = old[g] => next[f] = next[g]
    BY <2>3, <2>4, <2>5, UniteJoins
  <2>7. ASSUME NEW chosen, a \in chosen <=> b \in chosen, Respects(listed, old, chosen)
        PROVE  Respects(listed, next, chosen)
    BY <2>3, <2>4, <2>5, <2>7, UniteJoins
  <2>8. ASSUME NEW m \in 1..(n + 1), NEW f \in order[m], NEW g \in order[m]
        PROVE  next[f] = next[g]
    <3>1. CASE m \in 1..n
      <4>1. m \in 1..N
        BY <1>1, <2>1, <3>1
      <4>2. f \in listed /\ g \in listed
        BY <1>1, <4>1 DEF PairsIn
      <4>3. old[f] = old[g]
        BY <2>2, <3>1 DEF old
      <4> QED BY <2>6, <4>2, <4>3
    <3>2. CASE m = n + 1
      BY <2>4, <2>6, <3>2
    <3> QED BY <3>1, <3>2
  <2>9. ASSUME NEW chosen \in SUBSET listed, Closed(pairs, chosen)
        PROVE  Respects(listed, next, chosen)
    <3>1. {a, b} \in pairs
      <4>1. order[n + 1] \in pairs
        BY <1>1, <2>1
      <4> QED BY <2>4, <4>1
    <3>2. a \in chosen <=> b \in chosen
      BY <2>9, <3>1 DEF Closed
    <3>3. Respects(listed, old, chosen)
      BY <2>2, <2>9 DEF old
    <3> QED BY <2>7, <3>2, <3>3
  <2> QED BY <2>8, <2>9 DEF next
<1>6. N \in S
  <2> HIDE DEF S
  <2> QED BY <1>1, <1>4, <1>5, NatSetInduction
<1>7. root = roots[N]
  BY <1>1, <1>2 DEF GroupRoots
<1>8. root \in Roots(listed)
  BY <1>1, <1>3, <1>7
<1>9. Together(N) /\ Inside(N)
  BY <1>1, <1>6
<1>10. ASSUME NEW f \in listed, NEW g \in listed, root[f] = root[g]
       PROVE  Joined(listed, pairs, f, g)
  BY <1>7, <1>9, <1>10 DEF Joined, Closed, Respects
<1>11. ASSUME NEW f \in listed, NEW g \in listed, Joined(listed, pairs, f, g)
       PROVE  root[f] = root[g]
  <2> DEFINE chosen == {h \in listed : root[h] = root[f]}
  <2>1. ASSUME NEW pair \in pairs, pair \cap chosen # {} PROVE pair \subseteq chosen
    <3>1. PICK m \in 1..N : order[m] = pair
      BY <1>1
    <3>2. pair \subseteq listed
      BY DEF PairsIn
    <3>3. \A h, i \in pair : root[h] = root[i]
      BY <1>7, <1>9, <3>1
    <3> QED BY <2>1, <3>2, <3>3
  <2>2. g \in chosen
    BY <1>11, <2>1 DEF Joined
  <2> QED BY <2>2
<1> QED BY <1>8, <1>10, <1>11 DEF RootsOfChains

(***************************************************************************)
(* The groups of a run whose list is true                                  *)
(***************************************************************************)

(* The pairs of a list are of its own fires, and finitely many.             *)
LEMMA PairsTyped ==
    ASSUME NEW db, NEW seen \in Lists, NEW tags
    PROVE  /\ Pairs(db, seen, tags) \in SUBSET PairsIn(DOMAIN seen)
           /\ IsFiniteSet(Pairs(db, seen, tags))
<1> DEFINE listed == DOMAIN seen
           pairs == Pairs(db, seen, tags)
<1>1. pairs \in SUBSET PairsIn(listed)
  BY DEF Pairs, PairsIn
<1>2. listed \in SUBSET Fires
  BY DEF Lists
<1>3. IsFiniteSet(SUBSET listed)
  BY <1>2, FiresAssumption, FS_Subset, FS_SUBSET
<1>4. pairs \in SUBSET (SUBSET listed)
  BY <1>1 DEF PairsIn
<1>5. IsFiniteSet(pairs)
  BY <1>3, <1>4, FS_Subset
<1> QED BY <1>1, <1>5

(* Two listed fires have the same leader exactly when a chain of pairs      *)
(* joins them, in whatever order the pairs were taken.                      *)
LEMMA LeadersJoin ==
    ASSUME NEW db, NEW seen \in Lists, NEW tags, NEW lead \in Groupings(db, seen, tags),
           NEW f \in DOMAIN seen, NEW g \in DOMAIN seen
    PROVE  lead[f] = lead[g] <=> Joined(DOMAIN seen, Pairs(db, seen, tags), f, g)
<1> DEFINE listed == DOMAIN seen
           pairs == Pairs(db, seen, tags)
<1>1. PICK order \in SetToSeqs(pairs) :
          lead \in Leaders(seen, Groups(listed, GroupRoots(listed, order)))
  BY DEF Groupings
<1>2. PICK root : root = GroupRoots(listed, order)
  OBVIOUS
<1>3. pairs \in SUBSET PairsIn(listed) /\ IsFiniteSet(pairs)
  BY PairsTyped
<1> HIDE DEF listed, pairs
<1>4. f \in listed /\ g \in listed
  BY DEF listed
<1>5. root[f] = root[g] <=> Joined(listed, pairs, f, g)
  <2>1. RootsOfChains(listed, pairs, root)
    BY <1>1, <1>2, <1>3, RootsJoin
  <2> QED BY <1>4, <2>1 DEF RootsOfChains
<1>6. ASSUME NEW h \in listed
      PROVE  /\ root[lead[h]] = root[h]
             /\ \A i \in listed : root[i] = root[h] => lead[i] = lead[h]
  <2> DEFINE group == {i \in listed : root[i] = root[h]}
  <2>1. group \in Groups(listed, root) /\ h \in group
    BY DEF Groups
  <2>2. PICK primary \in group : \A i \in group : lead[i] = primary
    BY <1>1, <1>2, <2>1 DEF Leaders
  <2> QED BY <2>1, <2>2
<1>7. lead[f] = lead[g] <=> root[f] = root[g]
  BY <1>4, <1>6
<1> QED BY <1>5, <1>7 DEF listed, pairs

(* Which perimeters belong together is read off the map.                    *)
LEMMA PairsFollowMap ==
    ASSUME NEW old, NEW new, SameMap(old, new), NEW seen1, NEW seen2, NEW tags,
           DOMAIN seen1 \subseteq Fires, DOMAIN seen2 = DOMAIN seen1,
           \A f \in DOMAIN seen1 : /\ seen2[f].shape = seen1[f].shape
                                   /\ seen2[f].observed = seen1[f].observed
    PROVE  Pairs(new, seen2, tags) = Pairs(old, seen1, tags)
<1>1. ASSUME NEW f \in DOMAIN seen1, NEW g \in DOMAIN seen1
      PROVE  Belong(new, seen2, tags, f, g) <=> Belong(old, seen1, tags, f, g)
  <2>1. /\ new.perimeter[f].shape = old.perimeter[f].shape
        /\ new.perimeter[g].shape = old.perimeter[g].shape
    BY DEF SameMap
  <2> QED BY <2>1 DEF Belong
<1> QED BY <1>1 DEF Pairs

(* The list is read off the map too, up to which perimeters have moved.     *)
LEMMA ListFollowsMap ==
    ASSUME NEW old, NEW new, SameMap(old, new)
    PROVE  /\ DOMAIN List(old) \subseteq Fires
           /\ DOMAIN List(new) = DOMAIN List(old)
           /\ \A f \in DOMAIN List(old) :
                  /\ List(new)[f].shape = List(old)[f].shape
                  /\ List(new)[f].observed = List(old)[f].observed
                  /\ List(old)[f].moved = (old.perimeter[f].owner # f)
                  /\ List(new)[f].moved = (new.perimeter[f].owner # f)
<1>1. Recent(new, today) = Recent(old, today)
  BY DEF Recent, Stored, SameMap
<1>2. Recent(old, today) \subseteq Fires
  BY DEF Recent, Stored
<1>3. DOMAIN List(new) = Recent(old, today) /\ DOMAIN List(old) = Recent(old, today)
  BY <1>1 DEF List
<1>4. ASSUME NEW f \in Recent(old, today)
      PROVE  /\ List(old)[f].shape = old.perimeter[f].shape
             /\ List(old)[f].observed = old.perimeter[f].observed
             /\ List(old)[f].moved = (old.perimeter[f].owner # f)
             /\ List(new)[f].shape = new.perimeter[f].shape
             /\ List(new)[f].observed = new.perimeter[f].observed
             /\ List(new)[f].moved = (new.perimeter[f].owner # f)
  BY <1>1 DEF List
<1> QED BY <1>2, <1>3, <1>4 DEF SameMap

(* A run takes every perimeter of a true list back to its own incident.     *)
LEMMA ResetTakesBack ==
    ASSUME NEW db \in Rows, NEW f \in DOMAIN List(db)
    PROVE  /\ Reset(db, List(db)) \in Rows
           /\ Reset(db, List(db)).perimeter[f].owner = f
           /\ Reset(db, List(db)).merged[f] = NoIncident
<1> DEFINE seen == List(db)
           reset == Reset(db, seen)
<1>1. seen \in Lists
  BY ListTyped
<1>2. f \in Fires /\ seen[f].moved = (db.perimeter[f].owner # f)
  BY DEF List, Recent, Stored
<1> HIDE DEF seen
<1>3. reset \in Rows
  <2>1. reset.merged = [i \in Fires |-> IF i \in DOMAIN seen THEN NoIncident ELSE db.merged[i]]
    BY DEF Reset, Rows
  <2>2. reset.merged \in [Fires -> Owners]
    BY <2>1 DEF Rows, Owners
  <2>3. reset.perimeter = [i \in Fires |-> IF i \in DOMAIN seen /\ seen[i].moved
                                           THEN [db.perimeter[i] EXCEPT !.owner = i]
                                           ELSE db.perimeter[i]]
    BY DEF Reset, Rows
  <2>4. \A i \in Fires : /\ db.perimeter[i] \in Perimeters
                         /\ [db.perimeter[i] EXCEPT !.owner = i] \in Perimeters
    BY DEF Rows, Perimeters
  <2>5. reset.perimeter \in [Fires -> Perimeters]
    BY <2>3, <2>4
  <2> QED BY <2>2, <2>5 DEF Reset, Rows
<1>4. db.perimeter[f] \in Perimeters
  BY <1>2 DEF Rows
<1>5. reset.perimeter[f] = IF f \in DOMAIN seen /\ seen[f].moved
                           THEN [db.perimeter[f] EXCEPT !.owner = f] ELSE db.perimeter[f]
  BY <1>2 DEF Reset, Rows
<1>6. reset.perimeter[f].owner = f
  BY <1>2, <1>4, <1>5 DEF seen, Perimeters
<1>7. reset.merged[f] = NoIncident
  BY <1>2 DEF Reset, Rows, seen
<1> QED BY <1>3, <1>6, <1>7 DEF seen

(* Merging gives a listed perimeter that is with its own incident to the    *)
(* leader, and hides that incident behind the leader unless it leads.       *)
LEMMA MergeFollowsLeader ==
    ASSUME NEW db \in Rows, NEW listed \in SUBSET Fires, NEW lead \in [listed -> listed],
           NEW f \in listed, db.perimeter[f].owner = f, db.merged[f] = NoIncident
    PROVE  /\ Merge(db, lead).perimeter[f].owner = lead[f]
           /\ Merge(db, lead).merged[f] = IF lead[f] # f THEN lead[f] ELSE NoIncident
<1>1. db.perimeter[f] \in [shape : SUBSET Cells, observed : Days, owner : Fires]
  BY DEF Rows, Perimeters
<1>2. Merge(db, lead).perimeter[f] = [db.perimeter[f] EXCEPT !.owner = lead[f]]
  BY DEF Merge
<1>3. Merge(db, lead).merged[f] = IF lead[f] # f THEN lead[f] ELSE NoIncident
  BY DEF Merge
<1> QED BY <1>1, <1>2, <1>3

(* What GroupsFollowTheMap says of some rows.                               *)
Grouped(db, tags) ==
    \A f, g \in DOMAIN List(db) :
        /\ (db.perimeter[f].owner = db.perimeter[g].owner)
               <=> Joined(DOMAIN List(db), Pairs(db, List(db), tags), f, g)
        /\ db.merged[f] = (IF List(db)[f].moved THEN db.perimeter[f].owner ELSE NoIncident)

(* A reconciliation whose list is true leaves the groups of the map behind. *)
LEMMA ReconciledGroups ==
    ASSUME NEW db \in Rows, Sound(db), NEW tags,
           NEW new \in Reconciled(db, List(db), tags)
    PROVE  Grouped(new, tags)
<1> DEFINE seen == List(db)
           reset == Reset(db, seen)
<1>1. seen \in Lists
  BY ListTyped
<1>2. PICK lead \in Groupings(reset, seen, tags) : new \in Links(Merge(reset, lead), seen, lead)
  BY DEF Reconciled
<1> DEFINE merge == Merge(reset, lead)
<1>3. lead \in [DOMAIN seen -> DOMAIN seen]
  BY LeadersLead
<1>4. DOMAIN seen \in SUBSET Fires
  BY <1>1 DEF Lists
<1>5. merge \in Rows
  BY <1>1, StagesSound
<1>6. SameMap(db, merge)
  BY MergeKeepsMap
<1>7. /\ SameMap(merge, new)
      /\ new.perimeter = merge.perimeter
      /\ new.merged = merge.merged
  <2> HIDE DEF merge, seen
  <2>1. new \in Links(merge, seen, lead)
    BY <1>2 DEF merge, seen
  <2>2. SameMap(merge, new)
    BY <1>1, <1>3, <1>5, <2>1, LinksCover
  <2> QED BY <1>5, <2>1, <2>2 DEF Links, Rows
<1>8. SameMap(db, new)
  BY <1>6, <1>7 DEF SameMap
<1>9. ASSUME NEW f \in DOMAIN seen
      PROVE  /\ new.perimeter[f].owner = lead[f]
             /\ new.merged[f] = IF lead[f] # f THEN lead[f] ELSE NoIncident
  <2>1. /\ reset \in Rows
        /\ reset.perimeter[f].owner = f
        /\ reset.merged[f] = NoIncident
    BY ResetTakesBack
  <2> HIDE DEF reset, seen
  <2>2. /\ merge.perimeter[f].owner = lead[f]
        /\ merge.merged[f] = IF lead[f] # f THEN lead[f] ELSE NoIncident
    BY <1>3, <1>4, <2>1, MergeFollowsLeader
  <2> QED BY <1>7, <2>2
<1>10. Pairs(new, List(new), tags) = Pairs(reset, seen, tags)
  <2>1. SameMap(db, reset)
    <3>1. \A f \in Fires : db.perimeter[f] \in Perimeters
      BY DEF Rows
    <3>2. \A f \in Fires : \/ reset.perimeter[f] = db.perimeter[f]
                           \/ reset.perimeter[f] = [db.perimeter[f] EXCEPT !.owner = f]
      BY DEF Reset, Rows
    <3>3. reset.detection = db.detection
      BY DEF Reset, Rows
    <3> HIDE DEF reset
    <3> QED BY <3>1, <3>2, <3>3 DEF SameMap, Perimeters
  <2> HIDE DEF reset
  <2>2. SameMap(reset, new)
    BY <1>8, <2>1 DEF SameMap
  <2>3. /\ DOMAIN seen \subseteq Fires
        /\ DOMAIN List(new) = DOMAIN seen
        /\ \A f \in DOMAIN seen : /\ List(new)[f].shape = seen[f].shape
                                  /\ List(new)[f].observed = seen[f].observed
    BY <1>8, ListFollowsMap
  <2> QED BY <2>2, <2>3, PairsFollowMap
<1>11. /\ DOMAIN List(new) = DOMAIN seen
       /\ \A f \in DOMAIN seen : List(new)[f].moved = (new.perimeter[f].owner # f)
  BY <1>8, ListFollowsMap
<1>12. \A f, g \in DOMAIN seen :
           lead[f] = lead[g] <=> Joined(DOMAIN seen, Pairs(reset, seen, tags), f, g)
  BY <1>1, LeadersJoin
<1> HIDE DEF seen, reset, merge
<1>13. ASSUME NEW f \in DOMAIN seen
       PROVE  new.merged[f] =
                  (IF List(new)[f].moved THEN new.perimeter[f].owner ELSE NoIncident)
  <2>1. List(new)[f].moved <=> lead[f] # f
    BY <1>9, <1>11
  <2> QED BY <1>9, <2>1
<1>14. ASSUME NEW f \in DOMAIN seen, NEW g \in DOMAIN seen
       PROVE  (new.perimeter[f].owner = new.perimeter[g].owner)
                  <=> Joined(DOMAIN seen, Pairs(reset, seen, tags), f, g)
  BY <1>9, <1>12
<1> QED BY <1>10, <1>11, <1>13, <1>14, Zenon DEF Grouped

(* GroupsFollowTheMap is kept by every run in the same way as               *)
(* CoveredIsLinked.                                                         *)
LEMMA StepGroups ==
    ASSUME TypeOK, HiddenOwnsNothing, GroupsFollowTheMap, [Next]_vars
    PROVE  GroupsFollowTheMap'
<1>1. ASSUME NEW r \in Runs, NEW tags, Finish(r, tags)
      PROVE  GroupsFollowTheMap'
  <2>1. PICK db \in Written(r) :
            /\ \E new \in Reconciled(db, job[r].seen, tags) : Becomes(new)
            /\ settled' = (job[r].seen = List(db))
    BY <1>1 DEF Finish
  <2>2. PICK new \in Reconciled(db, job[r].seen, tags) : Becomes(new)
    BY <2>1
  <2>3. db \in Rows /\ Sound(db)
    BY WrittenSound
  <2>4. today' = today /\ tagged' = tags
    BY <1>1 DEF Finish
  <2> SUFFICES ASSUME settled' PROVE GroupsFollowTheMap'
    BY DEF GroupsFollowTheMap
  <2>5. new \in Reconciled(db, List(db), tags)
    BY <2>1, <2>2
  <2>6. Grouped(new, tags)
    BY <2>3, <2>5, ReconciledGroups
  <2>7. /\ perimeter' = new.perimeter
        /\ merged' = new.merged
    BY <2>2 DEF Becomes
  <2>8. List(Store)' = List(new)
    BY <2>2, <2>4 DEF Becomes, List, Recent, Stored, Store
  <2>9. Pairs(Store, List(Store), tagged)' = Pairs(new, List(new), tags)
    BY <2>4, <2>7, <2>8 DEF Pairs, Belong, Store
  <2> QED BY <2>6, <2>7, <2>8, <2>9 DEF GroupsFollowTheMap, Grouped
<1>2. CASE UNCHANGED <<today, perimeter, merged, tagged, settled>>
  <2>1. List(Store)' = List(Store)
    BY <1>2 DEF List, Recent, Stored, Store
  <2>2. Pairs(Store, List(Store), tagged)' = Pairs(Store, List(Store), tagged)
    BY <1>2, <2>1 DEF Pairs, Belong, Store
  <2> QED BY <1>2, <2>1, <2>2 DEF GroupsFollowTheMap
<1>3. CASE settled' = FALSE
  BY <1>3 DEF GroupsFollowTheMap
<1>4. CASE BeginEffis \/ BeginFirms \/ BeginOsint
  BY <1>2, <1>4 DEF BeginEffis, BeginFirms, BeginOsint, Begin
<1>5. CASE FinishEffis \/ FinishFirms \/ FinishOsint
  BY <1>1, <1>5 DEF FinishEffis, FinishFirms, FinishOsint, Runs
<1>6. CASE \E r \in Runs : RollBack(r)
  BY <1>2, <1>6 DEF RollBack
<1>7. CASE FailFirms \/ Tick
  BY <1>3, <1>7 DEF FailFirms, Tick
<1>8. CASE UNCHANGED vars
  BY <1>2, <1>8 DEF vars
<1> QED BY <1>4, <1>5, <1>6, <1>7, <1>8 DEF Next

(* After a run whose list was true, two recent perimeters have the same     *)
(* incident exactly when a chain of neighbours joins them, and the other    *)
(* incidents are hidden behind that one: whatever the order of the pairs,   *)
(* the earlier merges and the failures (_group_adjacent_effis,              *)
(* _reset_recent_merges, _merge_incident).                                  *)
THEOREM GroupsCorrect == Spec => []GroupsFollowTheMap
<1>1. Init => GroupsFollowTheMap
  <2> SUFFICES ASSUME Init PROVE DOMAIN List(Store) = {}
    BY DEF GroupsFollowTheMap
  <2>1. \A f \in Fires : Store.perimeter[f].shape = {}
    BY DEF Init, Store
  <2> QED BY <2>1 DEF List, Recent, Stored
<1>2. TypeOK /\ HiddenOwnsNothing /\ GroupsFollowTheMap /\ [Next]_vars => GroupsFollowTheMap'
  BY StepGroups
<1> QED BY <1>1, <1>2, InitKeeps, StepKeeps, PTL DEF Spec

(***************************************************************************)
(* The chains of merged incidents                                          *)
(***************************************************************************)

(* What MergesLeadSomewhere says of merged.                                 *)
Ending(links) == \A circle \in (SUBSET Fires) \ {{}} : \E f \in circle : links[f] \notin circle

(* Whoever is not hidden leads nowhere: hiding fewer incidents leaves the   *)
(* chains without a circle.                                                 *)
LEMMA FewerLinksEnd ==
    ASSUME NEW links \in [Fires -> Owners], Ending(links), NEW fewer,
           \A f \in Fires : fewer[f] \in {links[f], NoIncident}
    PROVE  Ending(fewer)
<1> SUFFICES ASSUME NEW circle \in (SUBSET Fires) \ {{}}
             PROVE  \E f \in circle : fewer[f] \notin circle
  BY DEF Ending
<1>1. PICK f \in circle : links[f] \notin circle
  BY DEF Ending
<1>2. f \in Fires /\ NoIncident \notin circle
  BY NoIncidentAssumption
<1> QED BY <1>1, <1>2

(* A merge adds links from shown incidents to shown ones that lead: the     *)
(* chains it makes longer end one step later.                               *)
LEMMA MergeEnds ==
    ASSUME NEW db \in Rows, Ending(db.merged),
           NEW listed \in SUBSET Fires, NEW lead \in [listed -> listed],
           \A f \in listed : lead[lead[f]] = lead[f],
           \A f \in listed : db.merged[f] = NoIncident
    PROVE  Ending(Merge(db, lead).merged)
<1> DEFINE links == Merge(db, lead).merged
<1>1. links = [f \in Fires |-> IF f \in listed /\ lead[f] # f THEN lead[f] ELSE db.merged[f]]
  BY DEF Merge
<1> HIDE DEF links
<1> SUFFICES ASSUME NEW circle \in (SUBSET Fires) \ {{}}
             PROVE  \E f \in circle : links[f] \notin circle
  BY DEF Ending, links
<1>2. NoIncident \notin circle
  BY NoIncidentAssumption
<1>3. CASE circle \cap listed = {}
  <2>1. PICK f \in circle : db.merged[f] \notin circle
    BY DEF Ending
  <2> QED BY <1>1, <1>3, <2>1
<1>4. CASE circle \cap listed # {}
  <2>1. PICK f \in circle : f \in listed
    BY <1>4
  <2>2. CASE lead[f] \notin circle
    BY <1>1, <1>2, <2>1, <2>2
  <2>3. CASE lead[f] \in circle
    <3>1. lead[f] \in listed /\ lead[lead[f]] = lead[f]
      BY <2>1
    <3>2. links[lead[f]] = NoIncident
      BY <1>1, <3>1
    <3> QED BY <1>2, <2>3, <3>2
  <2> QED BY <2>2, <2>3
<1> QED BY <1>3, <1>4

(* The stages of a reconciliation keep the chains without a circle, also    *)
(* if what was read is no longer true.                                      *)
LEMMA StagesEnd ==
    ASSUME NEW db \in Rows, Sound(db), Ending(db.merged), NEW seen \in Lists, NEW tags
    PROVE  /\ Ending(Reset(db, seen).merged)
           /\ \A lead \in Groupings(Reset(db, seen), seen, tags) :
                  /\ Ending(Merge(Reset(db, seen), lead).merged)
                  /\ \A new \in Links(Merge(Reset(db, seen), lead), seen, lead) :
                         Ending(new.merged)
<1> DEFINE reset == Reset(db, seen)
<1>1. DOMAIN seen \in SUBSET Fires
  BY DEF Lists
<1>2. reset \in Rows /\ \A f \in DOMAIN seen : reset.merged[f] = NoIncident
  BY ResetSound
<1>3. Ending(reset.merged)
  <2>1. db.merged \in [Fires -> Owners]
    BY DEF Rows
  <2>2. \A f \in Fires : reset.merged[f] \in {db.merged[f], NoIncident}
    BY DEF Reset, Rows
  <2> HIDE DEF reset
  <2> QED BY <2>1, <2>2, FewerLinksEnd
<1>4. ASSUME NEW lead \in Groupings(reset, seen, tags)
      PROVE  /\ Ending(Merge(reset, lead).merged)
             /\ \A new \in Links(Merge(reset, lead), seen, lead) : Ending(new.merged)
  <2>1. /\ lead \in [DOMAIN seen -> DOMAIN seen]
        /\ \A f \in DOMAIN seen : lead[lead[f]] = lead[f]
    BY LeadersLead
  <2> DEFINE merge == Merge(reset, lead)
  <2>2. merge \in Rows
    BY StagesSound
  <2> HIDE DEF reset
  <2>3. Ending(merge.merged)
    BY <1>1, <1>2, <1>3, <2>1, MergeEnds
  <2> HIDE DEF merge
  <2>4. \A new \in Links(merge, seen, lead) : new.merged = merge.merged
    BY <2>2 DEF Links, Rows
  <2> QED BY <2>3, <2>4 DEF merge
<1> QED BY <1>3, <1>4

(* What a run has written before it reconciles hides nobody anew.           *)
LEMMA WrittenEnds ==
    ASSUME TypeOK, MergesLeadSomewhere, NEW r \in Runs, NEW db \in Written(r)
    PROVE  Ending(db.merged)
<1>1. Store \in Rows /\ Store.merged = merged /\ merged \in [Fires -> Owners]
  BY StoreRows DEF Store, TypeOK
<1>2. Ending(merged)
  BY DEF MergesLeadSomewhere, Ending
<1>3. CASE r = "effis"
  <2>1. db.merged = [f \in Fires |-> NoIncident]
    BY <1>1, <1>3 DEF Written, PersistEffis, Rows
  <2> QED BY <1>1, <1>2, <2>1, FewerLinksEnd
<1>4. CASE r # "effis"
  <2>1. db.merged = merged
    BY <1>1, <1>4 DEF Written, Insert, Rows
  <2> QED BY <1>2, <2>1
<1> QED BY <1>3, <1>4

(* Every step keeps the chains without a circle.                            *)
LEMMA StepEnds ==
    ASSUME TypeOK, HiddenOwnsNothing, MergesLeadSomewhere, [Next]_vars
    PROVE  MergesLeadSomewhere'
<1>1. ASSUME NEW r \in Runs, NEW db \in Written(r), NEW new, Becomes(new),
             NEW tags, NEW seen \in Lists,
             \/ new = db
             \/ new = Reset(db, seen)
             \/ \E lead \in Groupings(Reset(db, seen), seen, tags) :
                    \/ new = Merge(Reset(db, seen), lead)
                    \/ new \in Links(Merge(Reset(db, seen), lead), seen, lead)
      PROVE  MergesLeadSomewhere'
  <2>1. db \in Rows /\ Sound(db) /\ Ending(db.merged)
    BY WrittenSound, WrittenEnds
  <2>2. Ending(new.merged)
    BY <1>1, <2>1, StagesEnd
  <2>3. merged' = new.merged
    BY <1>1 DEF Becomes
  <2> QED BY <2>2, <2>3 DEF MergesLeadSomewhere, Ending
<1>2. ASSUME NEW r \in Runs, NEW tags, Finish(r, tags)
      PROVE  MergesLeadSomewhere'
  <2>1. PICK db \in Written(r) : \E new \in Reconciled(db, job[r].seen, tags) : Becomes(new)
    BY <1>2 DEF Finish
  <2>2. PICK new \in Reconciled(db, job[r].seen, tags) : Becomes(new)
    BY <2>1
  <2>3. job[r].seen \in Lists
    BY DEF TypeOK, Jobs, Lists
  <2>4. \E lead \in Groupings(Reset(db, job[r].seen), job[r].seen, tags) :
            new \in Links(Merge(Reset(db, job[r].seen), lead), job[r].seen, lead)
    BY <2>2 DEF Reconciled
  <2> QED BY <1>1, <2>2, <2>3, <2>4
<1>3. CASE FailFirms
  <2> DEFINE seen == job["firms"].seen
  <2>1. PICK db \in Written("firms") :
            \E part \in {db, Reset(db, seen)} \cup
                        {Merge(Reset(db, seen), lead) :
                            lead \in Groupings(Reset(db, seen), seen, tagged)} :
                Becomes(part)
    BY <1>3 DEF FailFirms
  <2>2. PICK part : /\ Becomes(part)
                    /\ \/ part = db
                       \/ part = Reset(db, seen)
                       \/ \E lead \in Groupings(Reset(db, seen), seen, tagged) :
                              part = Merge(Reset(db, seen), lead)
    BY <2>1
  <2>3. seen \in Lists /\ "firms" \in Runs
    BY DEF TypeOK, Jobs, Lists, Runs
  <2> HIDE DEF seen
  <2> QED BY <1>1, <2>2, <2>3
<1>4. CASE merged' = merged
  BY <1>4 DEF MergesLeadSomewhere
<1>5. CASE FinishEffis \/ FinishFirms \/ FinishOsint
  BY <1>2, <1>5 DEF FinishEffis, FinishFirms, FinishOsint, Runs
<1>6. CASE BeginEffis \/ BeginFirms \/ BeginOsint \/ Tick \/ UNCHANGED vars
  BY <1>4, <1>6 DEF BeginEffis, BeginFirms, BeginOsint, Begin, Tick, vars
<1>7. CASE \E r \in Runs : RollBack(r)
  BY <1>4, <1>7 DEF RollBack
<1> QED BY <1>3, <1>5, <1>6, <1>7 DEF Next

(* merged_into never leads round in a circle, although every run writes     *)
(* only the links of its own list, runs overlap, and a FIRMS run may fail   *)
(* between two of its statements (_merge_incident).                         *)
THEOREM MergesCorrect == Spec => []MergesLeadSomewhere
<1>1. Init => MergesLeadSomewhere
  <2> SUFFICES ASSUME Init, NEW circle \in (SUBSET Fires) \ {{}}
               PROVE  \E f \in circle : merged[f] \notin circle
    BY DEF MergesLeadSomewhere
  <2>1. PICK f \in circle : TRUE
    OBVIOUS
  <2>2. merged[f] = NoIncident
    BY DEF Init
  <2> QED BY <2>2, NoIncidentAssumption
<1>2. TypeOK /\ HiddenOwnsNothing /\ MergesLeadSomewhere /\ [Next]_vars
          => MergesLeadSomewhere'
  BY StepEnds
<1> QED BY <1>1, <1>2, InitKeeps, StepKeeps, PTL DEF Spec
=============================================================================
