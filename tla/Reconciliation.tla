--------------------------- MODULE Reconciliation ---------------------------
(***************************************************************************)
(* Canonical fires: every EFFIS, FIRMS and OSINT run ends by reconciling   *)
(* the recent EFFIS perimeters (CanonicalFireReconciler.reconcile_recent). *)
(* It takes the merges of the previous run back, groups the perimeters     *)
(* that are near in space and time, hides all incidents of a group but     *)
(* that of the largest perimeter, gives that one everything the others     *)
(* own, and links the satellite detections the perimeters cover.           *)
(*                                                                         *)
(* The three connectors run in transactions of their own, without a lock.  *)
(* Each reads the list of recent perimeters first (BeginX) and writes      *)
(* later (FinishX).  From its first write on it holds the row locks of the *)
(* incidents, which all the others write too, so that the writes of two    *)
(* runs come one after the other, but one of them may be working on a list *)
(* that is no longer true.                                                 *)
(*                                                                         *)
(* A fire f stands for an EFFIS record, its perimeter row and its incident *)
(* row, whose external ids derive from one another.  The map is a line of  *)
(* cells, a shape a set of them, the area of a shape their number; all     *)
(* fires are in one province.                                              *)
(***************************************************************************)
EXTENDS Integers, FiniteSets, SequencesExt

CONSTANTS
    Fires,       \* EFFIS records, by external id
    Detections,  \* satellite detections, by hash
    Cells,       \* places of the map
    Place,       \* where each detection lies
    Shapes,      \* what the perimeter of each fire may cover
    TagSets,     \* sets of fires whose publications share a hashtag
    Window,      \* days a perimeter is recent (MATCH_WINDOW)
    GroupDays,   \* days between perimeters of one fire (effis_group_reasons)
    Before,      \* days a detection may precede its fire (_link_firms)
    GroupReach,  \* cells between perimeters of one fire, at most
    LinkReach,   \* cells between a detection and its perimeter, at most
    MaxDay,      \* bound: days the model runs
    MaxOpen,     \* bound: transactions open at the same time
    MaxCrowd,    \* bound: fires there may be for a run to start beside another
    NoIncident   \* no incident: merged_into absent, incident_id NULL

Runs == {"effis", "firms", "osint"}

Days == 0..MaxDay

Owners == Fires \cup {NoIncident}

ASSUME FiresAssumption == IsFiniteSet(Fires)
ASSUME NoIncidentAssumption == NoIncident \notin Fires
ASSUME CellsAssumption == Cells \subseteq Int
ASSUME ShapesAssumption == Shapes \in [Fires -> SUBSET ((SUBSET Cells) \ {{}})]
ASSUME PlaceAssumption == Place \in [Detections -> Cells]
ASSUME TagSetsAssumption == {} \in TagSets /\ TagSets \subseteq SUBSET Fires
ASSUME DaysAssumption == {Window, GroupDays, Before, MaxDay} \subseteq Nat

VARIABLES
    today,      \* the day it is
    perimeter,  \* fire_perimeters: what it covers, since when, its incident
    merged,     \* original_metadata.merged_into of the incident of a fire
    detection,  \* fire_detections: whether stored, when, its incident
    tagged,     \* fires whose publications share a hashtag
    job,        \* the open transaction of each run
    settled     \* observer: the last change was a run whose list was true

vars == <<today, perimeter, merged, detection, tagged, job, settled>>

(* A perimeter that covers nothing is a row that does not exist.            *)
Perimeters == [shape : SUBSET Cells, observed : Days, owner : Fires]

DetectionRows == [stored : BOOLEAN, day : Days, owner : Owners]

(* What EFFIS says of a fire.                                               *)
Records == [shape : SUBSET Cells, observed : Days]

(* A perimeter in the memory of a run: moved if another incident owned it.  *)
Readings == [shape : SUBSET Cells, observed : Days, moved : BOOLEAN]

(* news: EFFIS records that change a row; seen: the list of perimeters.     *)
Jobs == [open : BOOLEAN,
         news : UNION {[D -> Records] : D \in SUBSET Fires},
         seen : UNION {[D -> Readings] : D \in SUBSET Fires}]

NoRows == [f \in {} |-> f]

Idle == [open |-> FALSE, news |-> NoRows, seen |-> NoRows]

TypeOK ==
    /\ today \in Days
    /\ perimeter \in [Fires -> Perimeters]
    /\ merged \in [Fires -> Owners]
    /\ detection \in [Detections -> DetectionRows]
    /\ tagged \in SUBSET Fires
    /\ job \in [Runs -> Jobs]
    /\ settled \in BOOLEAN

Init ==
    /\ today = 0
    /\ perimeter = [f \in Fires |-> [shape |-> {}, observed |-> 0, owner |-> f]]
    /\ merged = [f \in Fires |-> NoIncident]
    /\ detection = [d \in Detections |->
                        [stored |-> FALSE, day |-> 0, owner |-> NoIncident]]
    /\ tagged = {}
    /\ job = [r \in Runs |-> Idle]
    /\ settled = TRUE

(***************************************************************************)
(* What a transaction does to the rows, one operator per statement         *)
(***************************************************************************)

Store == [perimeter |-> perimeter, merged |-> merged, detection |-> detection]

Stored(db) == {f \in Fires : db.perimeter[f].shape # {}}

(* The perimeters observed since the cutoff.                                *)
Recent(db, day) == {f \in Stored(db) : db.perimeter[f].observed >= day - Window}

(* EFFIS publishes its whole history: every known incident is written anew  *)
(* without merged_into and hidden, but only a changed perimeter goes back   *)
(* to its own incident.                                                     *)
PersistEffis(db, news) ==
    [db EXCEPT
        !.merged = [f \in Fires |-> NoIncident],
        !.perimeter = [f \in Fires |->
            IF f \in DOMAIN news
            THEN [shape |-> news[f].shape, observed |-> news[f].observed, owner |-> f]
            ELSE @[f]]]

(* Mutant: merged_into of the previous run stays.                           *)
FaultResetKeepsMerges(db, seen) ==
    [db EXCEPT !.perimeter = [f \in Fires |->
        IF f \in DOMAIN seen /\ seen[f].moved THEN [@[f] EXCEPT !.owner = f] ELSE @[f]]]

(* Every listed fire is an incident of its own again.  A perimeter row is   *)
(* only written when the owner this run has read is another.                *)
Reset(db, seen) ==
    [db EXCEPT
        !.merged = [f \in Fires |-> IF f \in DOMAIN seen THEN NoIncident ELSE @[f]],
        !.perimeter = [f \in Fires |->
            IF f \in DOMAIN seen /\ seen[f].moved THEN [@[f] EXCEPT !.owner = f]
            ELSE @[f]]]

(***************************************************************************)
(* Which perimeters belong together                                        *)
(***************************************************************************)

Area(shape) == Cardinality(shape)

Distance(a, b) == IF a < b THEN b - a ELSE a - b

(* ST_DWithin between two shapes.                                           *)
Within(shape1, shape2, cells) ==
    \E a \in shape1, b \in shape2 : Distance(a, b) <= cells

(* Large fires reach further; touching ones always belong together.         *)
Neighborhood(area) ==
    LET reach == IF area \div 2 < 1 THEN 1 ELSE area \div 2
    IN  IF reach < GroupReach THEN reach ELSE GroupReach

(* effis_group_reasons is not empty.  Where the shapes are now comes from a *)
(* query of this run, their area and day from the list it read before.      *)
Belong(db, seen, tags, f, g) ==
    /\ Distance(seen[f].observed, seen[g].observed) <= GroupDays
    /\ LET shape1 == db.perimeter[f].shape
           shape2 == db.perimeter[g].shape
       IN  \/ Within(shape1, shape2,
                     Neighborhood(Area(seen[f].shape) + Area(seen[g].shape)))
           \/ {f, g} \subseteq tags /\ Within(shape1, shape2, GroupReach)

(* candidate_pairs with a reason to group them.                             *)
Pairs(db, seen, tags) ==
    UNION {{{f, g} : g \in {h \in DOMAIN seen \ {f} : Belong(db, seen, tags, f, h)}} :
              f \in DOMAIN seen}

(* Mutant: the second perimeter itself goes under the root, not its root.   *)
FaultUniteMember(root, pair) ==
    [root EXCEPT ![SetToSeq(pair)[2]] = root[SetToSeq(pair)[1]]]

(* One pair of the union-find: the root of the second goes under that of    *)
(* the first.  root is what find returns for every fire.                    *)
Unite(root, pair) ==
    LET first == root[SetToSeq(pair)[1]]
        second == root[SetToSeq(pair)[2]]
    IN  [f \in DOMAIN root |-> IF root[f] = second THEN first ELSE root[f]]

(* The roots once the first n pairs, in some order, are united.             *)
RootsAfter(listed, order) ==
    LET root[n \in 0..Len(order)] ==
            IF n = 0 THEN [f \in listed |-> f] ELSE Unite(root[n - 1], order[n])
    IN  root

GroupRoots(listed, order) == RootsAfter(listed, order)[Len(order)]

(* The order in which the members of a group are sorted: area, then day.    *)
Precedes(f, g, seen) ==
    \/ Area(seen[f].shape) > Area(seen[g].shape)
    \/ /\ Area(seen[f].shape) = Area(seen[g].shape)
       /\ seen[f].observed >= seen[g].observed

(* The members of every root.                                               *)
Groups(listed, root) == {{g \in listed : root[g] = root[f]} : f \in listed}

(* members[0] of every group leads it; equals may come in any order.        *)
Leaders(seen, groups) ==
    {lead \in [DOMAIN seen -> DOMAIN seen] :
        \A group \in groups : \E primary \in group :
            \A f \in group : lead[f] = primary /\ Precedes(primary, f, seen)}

(* _group_adjacent_effis: the leaders, with the pairs taken in any order.   *)
Groupings(db, seen, tags) ==
    LET orders == SetToSeqs(Pairs(db, seen, tags))
        partitions == {Groups(DOMAIN seen, GroupRoots(DOMAIN seen, order)) :
                          order \in orders}
    IN  UNION {Leaders(seen, groups) : groups \in partitions}

(***************************************************************************)
(* Merging and linking                                                     *)
(***************************************************************************)

(* Mutant: the perimeters of a duplicate lose their incident.               *)
FaultMergeDetaches(db, lead) ==
    LET duplicates == {f \in DOMAIN lead : lead[f] # f}
    IN  [db EXCEPT
            !.perimeter = [f \in Fires |->
                IF f \in duplicates THEN [@[f] EXCEPT !.owner = NoIncident] ELSE @[f]],
            !.merged = [f \in Fires |-> IF f \in duplicates THEN lead[f] ELSE @[f]]]

(* Mutant: only the perimeters of a duplicate move, not its detections.     *)
FaultMergePerimetersOnly(db, lead) ==
    LET heir(i) == IF i \in DOMAIN lead THEN lead[i] ELSE i
        duplicate(f) == f \in DOMAIN lead /\ lead[f] # f
    IN  [db EXCEPT
            !.perimeter = [f \in Fires |->
                [@[f] EXCEPT !.owner = IF duplicate(f) THEN lead[f] ELSE heir(@)]],
            !.merged = [f \in Fires |-> IF duplicate(f) THEN lead[f] ELSE @[f]]]

(* Everything the incidents of a group own goes to its leader.              *)
Merge(db, lead) ==
    LET heir(i) == IF i \in DOMAIN lead THEN lead[i] ELSE i
        duplicate(f) == f \in DOMAIN lead /\ lead[f] # f
    IN  [perimeter |-> [f \in Fires |->
            [db.perimeter[f] EXCEPT
                !.owner = IF duplicate(f) THEN lead[f] ELSE heir(@)]],
         merged |-> [f \in Fires |-> IF duplicate(f) THEN lead[f] ELSE db.merged[f]],
         detection |-> [d \in Detections |->
            [db.detection[d] EXCEPT !.owner = heir(@)]]]

(* The listed perimeters a detection falls upon.                            *)
Covering(db, seen, d) ==
    {f \in DOMAIN seen :
        /\ db.detection[d].stored
        /\ db.detection[d].day >= seen[f].observed - Before
        /\ db.detection[d].day <= seen[f].observed + Window
        /\ Within({Place[d]}, db.perimeter[f].shape, LinkReach)}

(* Mutant: only the largest perimeter of a group is looked at.              *)
FaultLinksOfPrimary(db, seen, lead) ==
    LET hits(d) == {f \in Covering(db, seen, d) : lead[f] = f}
    IN  {[db EXCEPT !.detection = [d \in Detections |->
            IF db.detection[d].owner = NoIncident /\ hits(d) # {}
            THEN [@[d] EXCEPT !.owner = CHOOSE f \in hits(d) : TRUE] ELSE @[d]]]}

(* What a detection becomes: if it has no incident, that of a perimeter     *)
(* which covers it, the first one of the list to do so.                     *)
LinkedRows(db, seen, lead, d) ==
    IF db.detection[d].owner = NoIncident /\ Covering(db, seen, d) # {}
    THEN {[db.detection[d] EXCEPT !.owner = lead[f]] : f \in Covering(db, seen, d)}
    ELSE {db.detection[d]}

(* _link_firms for every perimeter of the list.                             *)
Links(db, seen, lead) ==
    LET rows == [Detections -> UNION {LinkedRows(db, seen, lead, d) : d \in Detections}]
    IN  {[db EXCEPT !.detection = linked] :
            linked \in {choice \in rows :
                \A d \in Detections : choice[d] \in LinkedRows(db, seen, lead, d)}}

(* What a whole reconciliation may leave behind.                            *)
Reconciled(db, seen, tags) ==
    LET reset == Reset(db, seen)
    IN  UNION {Links(Merge(reset, lead), seen, lead) : lead \in Groupings(reset, seen, tags)}

(***************************************************************************)
(* The runs                                                                *)
(***************************************************************************)

Becomes(db) ==
    /\ perimeter' = db.perimeter
    /\ merged' = db.merged
    /\ detection' = db.detection

(* The list of recent perimeters, as a run reads it into memory.            *)
List(db) ==
    [f \in Recent(db, today) |->
        [shape |-> db.perimeter[f].shape, observed |-> db.perimeter[f].observed,
         moved |-> db.perimeter[f].owner # f]]

Others == {other \in Runs : job[other].open}

(* A run of the connector starts its reconciliation: it reads the list.     *)
Begin(r, news, db) ==
    /\ ~job[r].open
    /\ Cardinality(Others) < MaxOpen
    /\ Others # {} =>
        Cardinality(Stored(db) \cup UNION {DOMAIN job[o].news : o \in Others}) <= MaxCrowd
    /\ job' = [job EXCEPT ![r] = [open |-> TRUE, news |-> news, seen |-> List(db)]]
    /\ UNCHANGED <<today, perimeter, merged, detection, tagged, settled>>

(* The shapes EFFIS may publish for all fires.                              *)
Publications ==
    {shape \in [Fires -> SUBSET Cells] : \A f \in Fires : shape[f] \in Shapes[f]}

(* A new fire is of today, a known one keeps its date.                      *)
Date(f) == IF f \in Stored(Store) THEN perimeter[f].observed ELSE today

(* An EFFIS run has written what changed: new fires, and known ones with    *)
(* another geometry or LASTUPDATE.                                          *)
BeginEffis ==
    \E changed \in SUBSET Fires, shape \in Publications :
        LET news == [f \in changed |-> [shape |-> shape[f], observed |-> Date(f)]]
        IN  Begin("effis", news, PersistEffis(Store, news))

BeginFirms == Begin("firms", NoRows, Store)

BeginOsint == Begin("osint", NoRows, Store)

(* Detections of today are inserted before the reconciliation.              *)
Insert(db, new) ==
    [db EXCEPT !.detection = [d \in Detections |->
        IF d \in new THEN [@[d] EXCEPT !.stored = TRUE, !.day = today] ELSE @[d]]]

(* What a run has written of its own when the reconciliation writes.        *)
Written(r) ==
    CASE r = "effis" -> {PersistEffis(Store, job[r].news)}
      [] r = "firms" -> {Insert(Store, new) :
                            new \in SUBSET {d \in Detections : ~detection[d].stored}}
      [] OTHER -> {Store}

(* An EFFIS run has updated every known incident before it reads the list:  *)
(* the others wait for its end with their first write.                      *)
Unlocked(r) == r = "effis" \/ ~job["effis"].open \/ job[r].seen = NoRows

(* The run reconciles the fires of its list and commits.                    *)
Finish(r, tags) ==
    /\ job[r].open
    /\ Unlocked(r)
    /\ \E db \in Written(r) :
        /\ \E new \in Reconciled(db, job[r].seen, tags) : Becomes(new)
        /\ settled' = (job[r].seen = List(db))
    /\ tagged' = tags
    /\ job' = [job EXCEPT ![r] = Idle]
    /\ UNCHANGED today

FinishEffis == Finish("effis", tagged)

FinishFirms == Finish("firms", tagged)

(* An OSINT run has ingested publications: other fires may share a hashtag. *)
FinishOsint == \E tags \in TagSets : Finish("osint", tags)

(* A run that fails, or whose worker is killed, is rolled back.             *)
RollBack(r) ==
    /\ job[r].open
    /\ job' = [job EXCEPT ![r] = Idle]
    /\ UNCHANGED <<today, perimeter, merged, detection, tagged, settled>>

(* FIRMS records a failure with a commit: a part of the work stays.         *)
FailFirms ==
    /\ job["firms"].open
    /\ Unlocked("firms")
    /\ \E db \in Written("firms") :
        LET seen == job["firms"].seen
            reset == Reset(db, seen)
        IN  \E part \in {db, reset} \cup {Merge(reset, lead) : lead \in Groupings(reset, seen, tagged)} :
                Becomes(part)
    /\ settled' = FALSE
    /\ job' = [job EXCEPT !["firms"] = Idle]
    /\ UNCHANGED <<today, tagged>>

(* The days go by; perimeters leave the window.                             *)
Tick ==
    /\ today < MaxDay
    /\ today' = today + 1
    /\ settled' = FALSE
    /\ UNCHANGED <<perimeter, merged, detection, tagged, job>>

Next ==
    \/ BeginEffis \/ BeginFirms \/ BeginOsint
    \/ FinishEffis \/ FinishFirms \/ FinishOsint
    \/ \E r \in Runs : RollBack(r)
    \/ FailFirms
    \/ Tick

Spec == Init /\ [][Next]_vars

(***************************************************************************)
(* Properties                                                              *)
(***************************************************************************)

(* A hidden incident owns nothing: every perimeter, and every detection     *)
(* that is linked at all, is reachable from an incident that is shown,      *)
(* also when runs overlap, fail half-way or work on an outdated list.       *)
HiddenOwnsNothing ==
    /\ \A f \in Fires : merged[perimeter[f].owner] = NoIncident
    /\ \A d \in Detections :
        detection[d].owner # NoIncident => merged[detection[d].owner] = NoIncident

(* A chain of pairs joins f and g: there are no perimeters, f among them    *)
(* and g not, such that every pair is inside or outside.                    *)
Joined(listed, pairs, f, g) ==
    \A chosen \in SUBSET listed :
        f \in chosen /\ (\A pair \in pairs : pair \cap chosen # {} => pair \subseteq chosen)
        => g \in chosen

(* Once a run with a true list has ended, two recent perimeters have the    *)
(* same incident exactly when a chain of neighbours joins them: the groups  *)
(* depend on the perimeters of now, not on earlier merges, failures or the  *)
(* order of the pairs, and the others are hidden behind the incident that   *)
(* has their perimeter.                                                     *)
GroupsFollowTheMap ==
    LET list == List(Store)
        pairs == Pairs(Store, list, tagged)
    IN  settled => \A f, g \in DOMAIN list :
            /\ (perimeter[f].owner = perimeter[g].owner) <=> Joined(DOMAIN list, pairs, f, g)
            /\ merged[f] = (IF list[f].moved THEN perimeter[f].owner ELSE NoIncident)

(* Once a run with a true list has ended, no detection that falls upon a    *)
(* recent perimeter is left without an incident.                            *)
CoveredIsLinked ==
    settled => \A d \in Detections :
        Covering(Store, List(Store), d) # {} => detection[d].owner # NoIncident

(* merged_into never leads round in a circle, nor from one hidden incident  *)
(* to the next for ever: whoever follows it comes to an incident that is    *)
(* shown, although each run only writes the links of its own list.          *)
MergesLeadSomewhere ==
    \A circle \in (SUBSET Fires) \ {{}} : \E f \in circle : merged[f] \notin circle

(* Every execution rebuilds the recent links from scratch so that none      *)
(* outlives its reason (docs/integrations/emergency-osint.md:68): after a   *)
(* run with a true list, a detection of a recent fire falls upon a          *)
(* perimeter of that fire.                                                  *)
LinksRebuilt ==
    settled => \A d \in Detections :
        detection[d].owner \in Recent(Store, today) =>
            \E f \in Covering(Store, List(Store), d) :
                perimeter[f].owner = detection[d].owner

(* The EFFIS ingestion is idempotent per identifier                         *)
(* (docs/integrations/effis.md:42): a snapshot that repeats a perimeter     *)
(* which is no longer recent leaves its incident as it was.                 *)
RepeatChangesNothing ==
    [][\A f \in Fires \ Recent(Store, today) :
        perimeter'[f] = perimeter[f] => merged'[f] = merged[f]]_vars
=============================================================================
