------------------------------- MODULE Osint -------------------------------
(***************************************************************************)
(* Emergency publications and the incidents they tell of.                  *)
(*                                                                         *)
(* A run of the OSINT connector, or a normalized ingestion, goes through   *)
(* the publications it was given one after the other (ingest): it finds or *)
(* creates the incident of each and moves that incident to the state the   *)
(* publication tells of, also for publications stored long ago.  Then it   *)
(* reconciles them with the recent EFFIS fires and commits.  EFFIS and     *)
(* FIRMS runs reconcile too.  A reviewer accepts or rejects a publication  *)
(* at any moment, and nothing else happens then.                           *)
(*                                                                         *)
(* A run is one transaction and one step here; Reconciliation has runs     *)
(* that overlap, and the merging of near perimeters.  The fires of this    *)
(* module are too far from one another to be merged.                       *)
(***************************************************************************)
EXTENDS Integers, FiniteSets, SequencesExt

CONSTANTS
    Publications,  \* publications, by deduplication hash
    Fires,         \* EFFIS records
    Places,        \* municipalities
    Tags,          \* hashtags of fires (#IF...)
    MaxIncidents,  \* bound: OSINT incidents there may be
    MaxDay,        \* bound: days the model runs
    MaxRejected,   \* bound: publications rejected at the same time
    Reviewed,      \* bound: publications a reviewer looks at
    MaxFeed,       \* bound: publications a run is given
    Dates,         \* the date each carries; NULL: none, that of its fetch counts
    Page,          \* external_id: the editions of one page have the same
    Mentions,      \* municipalities its title and text name
    Regions,       \* what it names before an arrow: "Barcelona -> Cardona"
    Hints,         \* locations its source gives with it
    Hashtags,      \* hashtags of its text
    TagPlace,      \* the municipality each hashtag is named after
    Events,        \* <<title, text>>: the event each of them tells of
    Risks,         \* <<title, text>>: the risk each of them names
    Fiery,         \* publications whose text has a word for fire
    Summaries,     \* publications that list several incidents, by arrows
    Alike,         \* pairs of publications whose titles share two words
    Shaped,        \* publications whose source gives a geometry
    Distance,      \* <<a, f>>: how far an area is from the perimeter of f
    Spelled,       \* municipalities whose names are in its text, as words or not
    Provinces,     \* <<p, f>>: its text has the name of the province of f
    Observed,      \* observed_at of each perimeter
    Commune,       \* its municipality
    Window,        \* days of MATCH_WINDOW
    Reopen,        \* days an incident may precede a publication it takes
    Close,         \* days up to which the time counts twice (time_3d)
    Nothing        \* NULL

Days == 0..MaxDay

Incidents == 1..MaxIncidents

Owners == Incidents \cup Fires \cup {Nothing}

Statuses == {"reported", "active", "controlled"}

(* EVENT_RULES: nothing of them, an alert of a risk, that something is over *)
(* (action_state "ended"), or news of any other kind.                       *)
EventTypes == {"none", "alert", "end", "news"}

(* RISK_RULES: a wildfire, another hazard, or nothing of them.              *)
RiskTypes == {"wildfire", "hazard", "other"}

(* What a geometry is made of: the boundaries of municipalities, or what    *)
(* the source of a publication gives.                                       *)
Areas == Places \cup Publications

(* Up to 1 m, 5 km or 15 km; beyond, or without a geometry.                 *)
Distances == {"inside", "near", "around", "far"}

ASSUME NothingAssumption == Nothing \notin Nat \cup Fires \cup Publications
ASSUME DistinctAssumption == \A f \in Fires : f \notin Nat
ASSUME FiniteAssumption == IsFiniteSet(Fires) /\ IsFiniteSet(Publications)
ASSUME DatesAssumption == Dates \in [Publications -> Days \cup {Nothing}]
ASSUME LocationsAssumption ==
    /\ {Mentions, Regions, Hints, Spelled} \subseteq [Publications -> SUBSET Places]
    /\ TagPlace \in [Tags -> Places]
ASSUME HashtagsAssumption == Hashtags \in [Publications -> SUBSET Tags]
ASSUME EventsAssumption ==
    /\ Events \in [Publications -> EventTypes \X EventTypes]
    /\ Risks \in [Publications -> RiskTypes \X RiskTypes]
    /\ Summaries \subseteq Publications /\ Fiery \subseteq Publications
ASSUME AlikeAssumption == Alike \subseteq Publications \X Publications
ASSUME DistanceAssumption ==
    /\ Distance \in [Areas \X Fires -> Distances]
    /\ Shaped \subseteq Publications /\ Provinces \subseteq Publications \X Fires
ASSUME FiresAssumption ==
    Observed \in [Fires -> Days] /\ Commune \in [Fires -> Places]
ASSUME NumbersAssumption ==
    {Window, Reopen, Close, MaxDay, MaxRejected, MaxIncidents, MaxFeed} \subseteq Nat

VARIABLES
    today,        \* the day it is
    publication,  \* emergency_publications: incident_id, locations, geometry, published_at
    rejected,     \* publications a reviewer rejected
    incident,     \* the OSINT incidents, in the order of their creation
    fire,         \* the incidents of the EFFIS records known
    settled       \* observer: the last step was a run that reconciled

vars == <<today, publication, rejected, incident, fire, settled>>

(* An OSINT incident has the locations, the risk, the summary and the state *)
(* of the publication that last moved it (told).                            *)
IncidentRows == [founder : Publications, told : Publications,
                 places : SUBSET Places, observed : Days, hidden : BOOLEAN]

FireRows == [told : Publications \cup {Nothing}, status : Statuses,
             observed : Days, places : SUBSET Places, tags : SUBSET Tags]

TypeOK ==
    /\ today \in Days
    /\ DOMAIN publication \subseteq Publications
    /\ \A p \in DOMAIN publication :
           /\ publication[p].places \subseteq Places
           /\ publication[p].area \subseteq Areas
           /\ publication[p].published \in Days
           /\ publication[p].owner \in DOMAIN incident \cup Fires \cup {Nothing}
    /\ rejected \subseteq DOMAIN publication
    /\ incident \in Seq(IncidentRows) /\ Len(incident) <= MaxIncidents
    /\ DOMAIN fire \subseteq Fires
    /\ \A f \in DOMAIN fire : fire[f] \in FireRows
    /\ settled \in BOOLEAN

NoRows == [x \in {} |-> x]

Init ==
    /\ today = 0
    /\ publication = NoRows
    /\ rejected = {}
    /\ incident = <<>>
    /\ fire = NoRows
    /\ settled = TRUE

Store == [publication |-> publication, incident |-> incident, fire |-> fire]

Stored(db) == DOMAIN db.publication

Owner(p, db) == db.publication[p].owner

Locations(p, db) == db.publication[p].places

Area(p, db) == db.publication[p].area

Published(p, db) == db.publication[p].published

(***************************************************************************)
(* What a publication says                                                 *)
(***************************************************************************)

(* A hashtag of a fire is news of a wildfire by itself.                     *)
TextEvent(p) ==
    IF Events[p][2] = "none" /\ Hashtags[p] # {} THEN "news" ELSE Events[p][2]

TextRisk(p) == IF Hashtags[p] # {} THEN "wildfire" ELSE Risks[p][2]

Risk(p) == IF Risks[p][1] # "other" THEN Risks[p][1] ELSE TextRisk(p)

(* The title decides; the text only if it says more than that there is a    *)
(* risk.  A summary of wildfires is news, whatever it says has ended.       *)
Event(p) ==
    LET said == IF Events[p][1] # "none" THEN Events[p][1]
                ELSE IF TextEvent(p) = "alert" THEN "none" ELSE TextEvent(p)
    IN IF said # "none" /\ p \in Summaries /\ Risk(p) = "wildfire" THEN "news" ELSE said

Discarded == {p \in Publications : Event(p) = "none"}

(* What a reconciliation takes for news of a wildfire.                      *)
Wildfires ==
    {p \in Publications \ Discarded :
        Risk(p) = "wildfire" \/ p \in Fiery \/ Hashtags[p] # {}}

Endings == {p \in Publications : Event(p) = "end"}

(* The municipalities a text is about: those it names, but for what stands  *)
(* before an arrow, or what the source says when it names none; and what    *)
(* its hashtags are named after.  The list of names is fetched from IGN:    *)
(* without an answer there is only what the source says.                    *)
Discovered(p) ==
    LET named == Mentions[p] \ Regions[p]
    IN (IF named # {} THEN named ELSE Hints[p]) \cup {TagPlace[t] : t \in Hashtags[p]}

Resolved(p, answered) == IF answered THEN Discovered(p) ELSE Hints[p]

(* Its geometry is that of its source, or the boundaries of its locations,  *)
(* for which IGN is asked again: there is none if it does not answer.       *)
Drawn(p, places) == IF p \in Shaped THEN {{p}} ELSE {places, {}}

(***************************************************************************)
(* Ingestion of one publication                                            *)
(***************************************************************************)

(* published_at of a publication that is read on a day.  Days stand for      *)
(* instants: pages without a date have that of the fetch, all those of one  *)
(* source the same, and a date without an hour counts as its midnight.      *)
ReadAt(p, day) == IF Dates[p] = Nothing THEN day ELSE Dates[p]

StatusToldBy(p) == IF p \in Endings THEN "controlled" ELSE "active"

Later(a, b) == IF a < b THEN b ELSE a

IsSummary(i, db) == i \in DOMAIN db.incident /\ db.incident[i].founder \in Summaries

Row(i, db) == IF i \in Fires THEN db.fire[i] ELSE db.incident[i]

(* An EFFIS fire that nothing is told of has no risk type: "other".         *)
RiskOf(i, db) == IF Row(i, db).told = Nothing THEN "other" ELSE Risk(Row(i, db).told)

(* Mutant: a summary is taken for an incident like any other.               *)
FaultCandidatesSummaries(p, day, db) ==
    {i \in DOMAIN db.incident \cup DOMAIN db.fire :
        /\ RiskOf(i, db) = Risk(p)
        /\ Row(i, db).observed >= ReadAt(p, day) - Reopen}

(* Same risk type and recent enough.  Nobody asks whether it is hidden.     *)
Candidates(p, day, db) ==
    {i \in DOMAIN db.incident \cup DOMAIN db.fire :
        /\ ~IsSummary(i, db)
        /\ RiskOf(i, db) = Risk(p)
        /\ Row(i, db).observed >= ReadAt(p, day) - Reopen}

(* By a common municipality or, for a publication that names none, by two   *)
(* words of the titles.                                                     *)
Matching(p, places, day, db) ==
    {i \in Candidates(p, day, db) :
        \/ places \cap Row(i, db).places # {}
        \/ places = {} /\ <<p, Row(i, db).told>> \in Alike}

(* The latest of them, whichever of equals; none if there is none.  For a   *)
(* summary, the incident of an edition of its page.                         *)
FoundIncidents(p, places, day, db) ==
    LET matching == Matching(p, places, day, db)
    IN IF p \in Summaries
       THEN {i \in DOMAIN db.incident :
                IsSummary(i, db) /\ Page[db.incident[i].founder] = Page[p]}
       ELSE {i \in matching : \A j \in matching : Row(j, db).observed <= Row(i, db).observed}

(* Mutant: the new incident is not added to the session.                    *)
FaultCreateForgets(p, places, day, db) == db

Create(p, places, day, db) ==
    [db EXCEPT !.incident =
        Append(@, [founder |-> p, told |-> p, places |-> places,
                   observed |-> ReadAt(p, day), hidden |-> FALSE])]

(* _apply_transition: the incident becomes what the publication tells.      *)
Told(row, p, db) ==
    [row EXCEPT !.told = p, !.places = Locations(p, db),
                !.observed = Later(@, Published(p, db))]

Transition(p, i, db) ==
    IF i \in Fires
    THEN [db EXCEPT !.fire[i] =
             [Told(@, p, db) EXCEPT !.status = StatusToldBy(p)]]
    ELSE [db EXCEPT !.incident[i] = Told(@, p, db)]

(* A stored publication keeps the time it was first read at.                *)
WithRow(p, places, area, i, day, db) ==
    LET published == IF p \in Stored(db) THEN Published(p, db) ELSE ReadAt(p, day)
    IN [db EXCEPT !.publication = [q \in DOMAIN @ \cup {p} |->
           IF q = p
           THEN [owner |-> i, places |-> places, area |-> area, published |-> published]
           ELSE @[q]]]

(* A stored publication of an EFFIS fire stays with it; any other finds its *)
(* incident anew and moves it, each time it is in a feed.                   *)
Kept(p, db) == p \in Stored(db) /\ Owner(p, db) \in Fires /\ p \notin Summaries

(* The locations and the geometry of a stored publication change if the     *)
(* list of names is at hand.                                                *)
NewPlaces(p, answered, db) ==
    IF p \in Stored(db) /\ ~answered THEN Locations(p, db) ELSE Resolved(p, answered)

NewAreas(p, answered, db) ==
    IF p \in Stored(db) /\ ~answered THEN {Area(p, db)} ELSE Drawn(p, Resolved(p, answered))

(* The states the ingestion of p may lead to.                               *)
IngestOne(p, answered, day, db) ==
    LET places == Resolved(p, answered)
        kept == NewPlaces(p, answered, db)
        areas == NewAreas(p, answered, db)
        found == FoundIncidents(p, places, day, db)
    IN IF p \in Discarded THEN {db}
       ELSE IF Kept(p, db) THEN {WithRow(p, kept, area, Owner(p, db), day, db) : area \in areas}
       ELSE IF found # {}
       THEN {Transition(p, i, WithRow(p, kept, area, i, day, db)) : i \in found, area \in areas}
       ELSE LET i == Len(db.incident) + 1
                made == Create(p, places, day, db)
            IN {Transition(p, i, WithRow(p, kept, area, i, day, made)) : area \in areas}

(* The states the ingestion of a feed may lead to.  The list of names is    *)
(* fetched once: a run that has it for a publication has it for the rest.   *)
Ingested(feed, first, day, db) ==
    LET after[n \in 0..Len(feed)] ==
            IF n = 0 THEN {db}
            ELSE UNION {IngestOne(feed[n], n >= first, day, d) : d \in after[n - 1]}
    IN after[Len(feed)]

(***************************************************************************)
(* Reconciliation with the recent EFFIS fires                              *)
(***************************************************************************)

RecentFires(db, day) == {f \in DOMAIN db.fire : Observed[f] >= day - Window}

Apart(a, b) == Later(a, b) - (IF a < b THEN a ELSE b)

TimeApart(p, f, db) == Apart(Published(p, db), Observed[f])

InTime(p, f, db) == TimeApart(p, f, db) <= Window

(* How far the nearest part of its geometry is.                             *)
Proximity(p, f, db) ==
    LET distances == {Distance[<<a, f>>] : a \in Area(p, db)}
    IN IF "inside" \in distances THEN "inside"
       ELSE IF "near" \in distances THEN "near"
       ELSE IF "around" \in distances THEN "around" ELSE "far"

(* What score_fire_match finds for a link, and the points of each.          *)
SharesTag(p, f, db) == Hashtags[p] \cap db.fire[f].tags # {}

SharesPlace(p, f, db) == Locations(p, db) \cap db.fire[f].places # {}

NamesCommune(p, f, db) == Commune[f] \in Locations(p, db)

(* The name may be that of another place, in part or in a list of places.   *)
SpellsCommune(p, f, db) == Commune[f] \in Spelled[p] \ Locations(p, db)

Score(p, f, db) ==
    (IF SharesTag(p, f, db) THEN 100 ELSE 0)
    + (IF SharesPlace(p, f, db) THEN 70 ELSE 0)
    + (IF NamesCommune(p, f, db) THEN 70 ELSE IF SpellsCommune(p, f, db) THEN 45 ELSE 0)
    + (CASE Proximity(p, f, db) = "inside" -> 50
         [] Proximity(p, f, db) = "near" -> 45
         [] Proximity(p, f, db) = "around" -> 40
         [] OTHER -> 0)
    + (IF <<p, f>> \in Provinces THEN 10 ELSE 0)

TimePoints(p, f, db) == IF TimeApart(p, f, db) <= Close THEN 20 ELSE 10

Points(p, f, db) == Score(p, f, db) + TimePoints(p, f, db)

(* Points are not enough: one kind of evidence has to be strong by itself,  *)
(* or a hashtag of any fire has to go with the name or with 15 km.          *)
IsFireMatch(p, f, db) ==
    /\ InTime(p, f, db)
    /\ Points(p, f, db) >= 60
    /\ \/ SharesTag(p, f, db) \/ SharesPlace(p, f, db) \/ NamesCommune(p, f, db)
       \/ Proximity(p, f, db) \in {"inside", "near"}
       \/ Hashtags[p] # {} /\ (SpellsCommune(p, f, db) \/ Proximity(p, f, db) = "around")

(* The list of recent perimeters: the place of each, the latest first,      *)
(* those of one date in any order, which both passes go by.                 *)
Lists(rows) ==
    {place \in [rows -> 1..Cardinality(rows)] :
        \A f, g \in rows : /\ place[f] = place[g] => f = g
                           /\ Observed[f] > Observed[g] => place[f] < place[g]}

(* The fire with the best score, the first in the list of equals.           *)
BestFire(p, list, db) ==
    LET matching == {f \in DOMAIN list : IsFireMatch(p, f, db)}
        best == {f \in matching :
                    \A g \in matching : Points(p, g, db) <= Points(p, f, db)}
    IN IF matching = {} THEN Nothing
       ELSE CHOOSE f \in best : \A g \in best : list[f] <= list[g]

(* What both passes look at: recent, not rejected, about one wildfire.      *)
Assignable(db, day) ==
    {p \in Stored(db) \ (rejected \cup Summaries) :
        p \in Wildfires /\ Published(p, db) >= day - Window}

(* First pass (only_unassigned): publications without an incident that      *)
(* match no fire stay without one.  Second pass: one that matches none is   *)
(* taken away from an EFFIS incident, and left with any other.              *)
SecondChoice(p, list, db) ==
    LET best == BestFire(p, list, db)
    IN IF best # Nothing THEN best
       ELSE IF Owner(p, db) \in Fires THEN Nothing ELSE Owner(p, db)

WithOwners(g, db) ==
    [db EXCEPT !.publication = [p \in DOMAIN @ |->
        IF p \in DOMAIN g THEN [@[p] EXCEPT !.owner = g[p]] ELSE @[p]]]

AssignFirst(list, day, db) ==
    LET ps == {p \in Assignable(db, day) : Owner(p, db) = Nothing}
    IN WithOwners([p \in ps |-> BestFire(p, list, db)], db)

(* Mutant: the second pass looks at publications without incident only.     *)
FaultAssignUnassigned(list, day, db) == AssignFirst(list, day, db)

AssignSecond(list, day, db) ==
    WithOwners([p \in Assignable(db, day) |-> SecondChoice(p, list, db)], db)

LetGo(rows, db) ==
    WithOwners([p \in {q \in Stored(db) : Owner(q, db) \in rows} |-> Nothing], db)

(* Mutant: hashtags and locations of the previous run stay.                 *)
FaultResetKeepsEvidence(rows, db) == LetGo(rows, db)

(* Hashtags and locations of the recent fires are forgotten, and all their  *)
(* publications let go, also those no pass will look at.                    *)
Reset(rows, db) ==
    [LetGo(rows, db) EXCEPT !.fire = [f \in DOMAIN @ |->
        IF f \in rows THEN [@[f] EXCEPT !.places = {}, !.tags = {}] ELSE @[f]]]

(* What a fire may say: publications it has that nobody rejected.           *)
Evidence(f, db) == {p \in Stored(db) \ rejected : Owner(p, db) = f}

(* Mutant: the order of the publications is the opposite.                   *)
FaultLatestIsOldest(ps, db) ==
    {p \in ps : \A q \in ps : Published(p, db) <= Published(q, db)}

(* The first of order_by(published_at.desc()) may be any of these.          *)
LatestOf(ps, db) == {p \in ps : \A q \in ps : Published(q, db) <= Published(p, db)}

(* The publication each fire is told by, or NULL.                           *)
Speakers(rows, db) ==
    {latest \in [rows -> Stored(db) \cup {Nothing}] :
        \A f \in rows :
            IF Evidence(f, db) = {} THEN latest[f] = Nothing
            ELSE latest[f] \in LatestOf(Evidence(f, db), db)}

(* _refresh_canonical: it says what its latest publication says and has the *)
(* hashtags and locations of all of them, besides those it had.             *)
Refreshed(f, latest, db) ==
    LET ps == Evidence(f, db)
        tags == UNION {Hashtags[p] : p \in ps}
        places == UNION {Locations(p, db) : p \in ps}
        row == db.fire[f]
    IN IF latest = Nothing
       THEN [row EXCEPT !.told = Nothing, !.status = "reported", !.observed = Observed[f]]
       ELSE [told |-> latest, status |-> StatusToldBy(latest),
             observed |-> Later(Observed[f], Published(latest, db)),
             places |-> row.places \cup places, tags |-> row.tags \cup tags]

(* Which of equal publications tells of a fire is chosen anew in the second *)
(* pass, and nothing in between looks at it.                                *)
RefreshFirst(rows, db) ==
    LET latest == CHOOSE g \in Speakers(rows, db) : TRUE
    IN [db EXCEPT !.fire = [f \in DOMAIN @ |->
           IF f \in rows THEN Refreshed(f, latest[f], db) ELSE @[f]]]

(* _refresh_canonical_group adds the municipality.                          *)
RefreshSecond(rows, latest, db) ==
    [db EXCEPT !.fire = [f \in DOMAIN @ |->
        IF f \in rows
        THEN [Refreshed(f, latest[f], db) EXCEPT !.places = @ \cup {Commune[f]}]
        ELSE @[f]]]

(* Nothing ever clears the flag.                                            *)
HideEmpty(db) ==
    [db EXCEPT !.incident = [i \in DOMAIN @ |->
        IF \A p \in Stored(db) : Owner(p, db) # i
        THEN [@[i] EXCEPT !.hidden = TRUE]
        ELSE @[i]]]

(* The states both passes may lead to.                                      *)
Linked(rows, day, db) ==
    LET first(list) == RefreshFirst(rows, AssignFirst(list, day, Reset(rows, db)))
    IN {AssignSecond(list, day, first(list)) : list \in Lists(rows)}

(* Mutant: empty incidents are hidden before the passes empty more.         *)
FaultHideEarly(day, db) ==
    LET rows == RecentFires(db, day)
    IN UNION {{RefreshSecond(rows, latest, linked) : latest \in Speakers(rows, linked)} :
                 linked \in Linked(rows, day, HideEmpty(db))}

(* The states reconcile_recent may lead to.                                 *)
Reconciled(day, db) ==
    LET rows == RecentFires(db, day)
    IN UNION {{HideEmpty(RefreshSecond(rows, latest, linked)) :
                  latest \in Speakers(rows, linked)} :
                 linked \in Linked(rows, day, db)}

(***************************************************************************)
(* Steps                                                                   *)
(***************************************************************************)

Becomes(db) ==
    /\ publication' = db.publication
    /\ incident' = db.incident
    /\ fire' = db.fire

(* What the sources may list: any part of what there is, in any order.      *)
Feeds ==
    LET there == {p \in Publications : ReadAt(p, today) <= today}
    IN UNION {SetToSeqs(ps) : ps \in {qs \in SUBSET there : Cardinality(qs) <= MaxFeed}}

Ingestions ==
    UNION {UNION {Ingested(feed, first, today, Store) : first \in 1..(Len(feed) + 1)} :
              feed \in Feeds}

(* Without publications it does what a FIRMS run does here.                 *)
OsintRun ==
    /\ \E db \in Ingestions :
          /\ Len(db.incident) <= MaxIncidents
          /\ \E done \in Reconciled(today, db) : Becomes(done)
    /\ settled' = TRUE
    /\ UNCHANGED <<today, rejected>>

(* EFFIS lists its whole history: it writes every fire it knows anew, and   *)
(* keeps hashtags and locations.                                            *)
EffisWrites(news, db) ==
    [db EXCEPT !.fire = [f \in DOMAIN @ \cup news |->
        IF f \in DOMAIN @
        THEN [@[f] EXCEPT !.told = Nothing, !.observed = Observed[f]]
        ELSE [told |-> Nothing, status |-> "reported", observed |-> Observed[f],
              places |-> {}, tags |-> {}]]]

EffisRun ==
    /\ \E news \in SUBSET {f \in Fires \ DOMAIN fire : Observed[f] <= today} :
          /\ DOMAIN fire \cup news # {}
          /\ \E done \in Reconciled(today, EffisWrites(news, Store)) : Becomes(done)
    /\ settled' = TRUE
    /\ UNCHANGED <<today, rejected>>

(* review_emergency_osint_publication: the row, and nothing that follows.   *)
Review ==
    /\ \E p \in DOMAIN publication \cap Reviewed :
          rejected' \in {rejected \cup {p}, rejected \ {p}} \ {rejected}
    /\ Cardinality(rejected') <= MaxRejected
    /\ settled' = FALSE
    /\ UNCHANGED <<today, publication, incident, fire>>

Tick ==
    /\ today < MaxDay
    /\ today' = today + 1
    /\ settled' = FALSE
    /\ UNCHANGED <<publication, rejected, incident, fire>>

Next == OsintRun \/ EffisRun \/ Review \/ Tick

Spec == Init /\ [][Next]_vars

(***************************************************************************)
(* Properties                                                              *)
(***************************************************************************)

RecentNow == RecentFires(Store, today)

(* It names the municipality of the fire, or lies on its perimeter.         *)
Named(p, f, db) ==
    /\ InTime(p, f, db)
    /\ Commune[f] \in Locations(p, db) \/ Proximity(p, f, db) = "inside"

(* It is about the fire whatever other publications say.  Besides those     *)
(* that name it: with 5 km, or a hashtag of any fire and either 15 km or    *)
(* the name in the text, one thing more is enough, be it the days, the      *)
(* province, or name and place together.                                    *)
IsAbout(p, f, db) ==
    \/ Named(p, f, db)
    \/ /\ InTime(p, f, db)
       /\ \/ Proximity(p, f, db) = "near"
          \/ Hashtags[p] # {} /\ (Commune[f] \in Spelled[p] \/ Proximity(p, f, db) = "around")
       /\ \/ TimeApart(p, f, db) <= Close
          \/ <<p, f>> \in Provinces
          \/ Commune[f] \in Spelled[p] /\ Proximity(p, f, db) \in {"near", "around"}

(* After a run, a publication of a recent fire is about that fire, or has a *)
(* hashtag or a place in common with one nobody rejected that is: hashtags  *)
(* and locations spread one step from what is known, and no link holds      *)
(* itself up from run to run ("reconstrueix les associacions recents des de *)
(* zero").  It may be about the fire by 5 km and some days alone, though    *)
(* "la proximitat o la provincia per si soles no son suficients"            *)
(* (docs/integrations/emergency-osint.md:64), and the other publication may *)
(* itself have gone to another fire.                                        *)
LinksAreGrounded ==
    settled =>
        \A f \in RecentNow : \A p \in Evidence(f, Store) :
            \E q \in Assignable(Store, today) :
                /\ IsAbout(q, f, Store)
                /\ \/ q = p
                   \/ Hashtags[p] \cap Hashtags[q] # {}
                   \/ publication[p].places \cap publication[q].places # {}

(* After a run, a recent publication about a wildfire that names the place  *)
(* of a recent fire belongs to one, whatever incident it had before.        *)
NamedAreLinked ==
    settled =>
        \A p \in Assignable(Store, today) :
            (\E f \in RecentNow : Named(p, f, Store)) => publication[p].owner \in RecentNow

(* After a run, a recent fire tells what the last of its publications says, *)
(* or one of the last if several have the same time: it is controlled if    *)
(* that one says that it ended, active if not.  It is reported if it has no *)
(* publication, and a rejected one is not on it.                            *)
FiresSayWhatIsKnown ==
    settled =>
        \A f \in RecentNow :
            LET ps == {p \in DOMAIN publication : publication[p].owner = f}
                last == {p \in ps : \A q \in ps :
                            publication[q].published <= publication[p].published}
            IN /\ ps \cap rejected = {}
               /\ ps = {} => fire[f].told = Nothing /\ fire[f].status = "reported"
               /\ ps # {} => /\ fire[f].told \in last
                             /\ fire[f].status = IF fire[f].told \in Endings
                                                 THEN "controlled" ELSE "active"

(* After a run, an OSINT incident all of whose publications went to fires   *)
(* or to others is not shown as one of its own.                             *)
ShownIncidentsAreTold ==
    settled =>
        \A i \in DOMAIN incident :
            ~incident[i].hidden => \E p \in DOMAIN publication : publication[p].owner = i

(* A summary of several incidents is an incident by itself: what is told    *)
(* there are the editions of its page, all of them, and nothing else.       *)
SummariesStayApart ==
    \A p \in Summaries \cap DOMAIN publication :
        /\ publication[p].owner \in Incidents
        /\ \A q \in DOMAIN publication :
               publication[q].owner = publication[p].owner
                   <=> q \in Summaries /\ Page[q] = Page[p]

(* What readers see: GET /civil/osint/incidents lists what is not hidden.   *)
Visible(i) == i \in DOMAIN fire \/ (i \in DOMAIN incident /\ ~incident[i].hidden)

(* After a run, every recent publication nobody rejected is seen, with a    *)
(* fire or as an incident of its own: "Les publicacions no vinculades a un  *)
(* incendi es mostren en blau" (docs/integrations/emergency-osint.md:57).   *)
PublicationsAreShown ==
    settled =>
        \A p \in DOMAIN publication \ rejected :
            publication[p].published >= today - Window => Visible(publication[p].owner)
=============================================================================
