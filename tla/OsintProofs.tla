---------------------------- MODULE OsintProofs ----------------------------
(***************************************************************************)
(* Proofs about Osint, for any publications and finitely many fires, and   *)
(* whatever the publications say.                                          *)
(***************************************************************************)
EXTENDS Osint, Induction, FiniteSetTheorems, SequenceTheorems, TLAPS

(* The tables, as a run sees them.                                          *)
PublicationRows ==
    [owner : Nat \cup Fires \cup {Nothing}, places : SUBSET Places, area : SUBSET Areas,
     published : Days]

PublicationTables == UNION {[S -> PublicationRows] : S \in SUBSET Publications}

FireTables == UNION {[S -> FireRows] : S \in SUBSET Fires}

Stores == [publication : PublicationTables, incident : Seq(IncidentRows), fire : FireTables]

Tables(pub, inc, fires) == [publication |-> pub, incident |-> inc, fire |-> fires]

(* The incident of a summary, and of which page.                            *)
OfPage(i, p, db) == IsSummary(i, db) /\ Page[db.incident[i].founder] = Page[p]

OnePerPage(inc) ==
    \A i, j \in DOMAIN inc :
        /\ inc[i].founder \in Summaries /\ inc[j].founder \in Summaries
        /\ Page[inc[i].founder] = Page[inc[j].founder]
        => i = j

(* A publication belongs to nothing, to a fire or to an incident there is;  *)
(* a summary to the incident of its page, and nothing else does.            *)
Sound(db) ==
    /\ \A p \in Stored(db) : Owner(p, db) \in DOMAIN db.incident \cup Fires \cup {Nothing}
    /\ \A p \in Stored(db) \cap Summaries : OfPage(Owner(p, db), p, db)
    /\ \A p \in Stored(db) : IsSummary(Owner(p, db), db) => p \in Summaries
    /\ OnePerPage(db.incident)

(* Where and when a publication says it is.                                 *)
SameText(p, new, db) ==
    /\ Locations(p, new) = Locations(p, db)
    /\ Area(p, new) = Area(p, db)
    /\ Published(p, new) = Published(p, db)

(* Sound tables that still have the publications of S.                      *)
Good(S) == {db \in Stores : Sound(db) /\ S \subseteq Stored(db)}

(* What tables of this kind consist of.                                     *)
LEMMA StoreParts ==
    ASSUME NEW db \in Stores
    PROVE  /\ Stored(db) \subseteq Publications
           /\ db.publication \in [Stored(db) -> PublicationRows]
           /\ \A p \in Stored(db) : /\ Owner(p, db) \in Nat \cup Fires \cup {Nothing}
                                    /\ Locations(p, db) \subseteq Places
                                    /\ Area(p, db) \subseteq Areas
                                    /\ Published(p, db) \in Days
           /\ db.incident \in Seq(IncidentRows)
           /\ DOMAIN db.fire \subseteq Fires
           /\ db.fire \in [DOMAIN db.fire -> FireRows]
           /\ db = Tables(db.publication, db.incident, db.fire)
<1>1. /\ db.publication \in PublicationTables
      /\ db.incident \in Seq(IncidentRows)
      /\ db.fire \in FireTables
      /\ db = Tables(db.publication, db.incident, db.fire)
  BY DEF Stores, Tables
<1>2. PICK S \in SUBSET Publications : db.publication \in [S -> PublicationRows]
  BY <1>1 DEF PublicationTables
<1>3. PICK F \in SUBSET Fires : db.fire \in [F -> FireRows]
  BY <1>1 DEF FireTables
<1>4. Stored(db) = S /\ DOMAIN db.fire = F
  BY <1>2, <1>3 DEF Stored
<1>5. ASSUME NEW p \in Stored(db)
      PROVE  /\ Owner(p, db) \in Nat \cup Fires \cup {Nothing}
             /\ Locations(p, db) \subseteq Places /\ Area(p, db) \subseteq Areas
             /\ Published(p, db) \in Days
  <2>1. db.publication[p] \in PublicationRows
    BY <1>2, <1>4
  <2> QED BY <2>1 DEF PublicationRows, Owner, Locations, Area, Published
<1> QED BY <1>1, <1>2, <1>3, <1>4, <1>5

(* And tables made of such parts.                                           *)
Consists(db, S, pub, inc, fires) ==
    /\ db \in Stores
    /\ db.publication = pub /\ db.incident = inc /\ db.fire = fires
    /\ Stored(db) = S

LEMMA StoreMade ==
    ASSUME NEW S \in SUBSET Publications, NEW pub \in [S -> PublicationRows],
           NEW inc \in Seq(IncidentRows),
           NEW F \in SUBSET Fires, NEW fires \in [F -> FireRows],
           NEW db, db = Tables(pub, inc, fires)
    PROVE  Consists(db, S, pub, inc, fires)
<1>1. pub \in PublicationTables /\ fires \in FireTables
  BY DEF PublicationTables, FireTables
<1> QED BY <1>1 DEF Consists, Stores, Stored, Tables

(* Incidents, fires and NULL are different things.                          *)
LEMMA Distinct ==
    ASSUME NEW db \in Stores
    PROVE  /\ \A i \in DOMAIN db.incident : i \in Nat /\ i \notin Fires /\ i # Nothing
           /\ Nothing \notin Fires
           /\ DOMAIN db.incident = 1..Len(db.incident)
<1>1. db.incident \in Seq(IncidentRows)
  BY StoreParts
<1>2. DOMAIN db.incident = 1..Len(db.incident) /\ Len(db.incident) \in Nat
  BY <1>1, LenProperties
<1> QED BY <1>2, NothingAssumption, DistinctAssumption

(* Publications that are no summaries may be given to fires, or to nothing. *)
MayBeGiven(P, g, db) ==
    /\ P \subseteq Stored(db) \ Summaries
    /\ g \in [P -> Nat \cup Fires \cup {Nothing}]
    /\ \A p \in P : g[p] \in Fires \cup {Nothing} \/ g[p] = Owner(p, db)

Given(S, new, P, g, db) ==
    /\ new \in Good(S)
    /\ new.incident = db.incident /\ new.fire = db.fire
    /\ Stored(new) = Stored(db)
    /\ \A p \in Stored(db) : /\ SameText(p, new, db)
                             /\ Owner(p, new) = IF p \in P THEN g[p] ELSE Owner(p, db)

LEMMA OwnersChange ==
    ASSUME NEW S, NEW db \in Good(S), NEW P, NEW g, MayBeGiven(P, g, db),
           NEW new, new = WithOwners(g, db)
    PROVE  Given(S, new, P, g, db)
<1>0. /\ P \subseteq Stored(db) \ Summaries
      /\ g \in [P -> Nat \cup Fires \cup {Nothing}]
      /\ \A p \in P : g[p] \in Fires \cup {Nothing} \/ g[p] = Owner(p, db)
  BY DEF MayBeGiven
<1>1. db \in Stores /\ Sound(db) /\ S \subseteq Stored(db)
  BY DEF Good
<1> DEFINE pub == [p \in Stored(db) |-> IF p \in P THEN [db.publication[p] EXCEPT !.owner = g[p]]
                                        ELSE db.publication[p]]
<1>2. new = Tables(pub, db.incident, db.fire)
  <2>1. DOMAIN g = P
    BY <1>0
  <2>2. db = Tables(db.publication, db.incident, db.fire)
    BY <1>1, StoreParts
  <2>3. new = [db EXCEPT !.publication = pub]
    BY <2>1 DEF WithOwners, Stored
  <2> HIDE DEF pub
  <2> QED BY <2>2, <2>3 DEF Tables
<1>3. ASSUME NEW p \in Stored(db)
      PROVE  /\ pub[p] \in PublicationRows
             /\ pub[p].places = Locations(p, db) /\ pub[p].area = Area(p, db)
             /\ pub[p].published = Published(p, db)
             /\ pub[p].owner = IF p \in P THEN g[p] ELSE Owner(p, db)
  <2>1. db.publication[p] \in PublicationRows
    BY <1>1, StoreParts
  <2>2. p \in P => g[p] \in Nat \cup Fires \cup {Nothing}
    BY <1>0
  <2> QED BY <2>1, <2>2 DEF PublicationRows, Owner, Locations, Area, Published
<1>4. pub \in [Stored(db) -> PublicationRows]
  BY <1>3
<1>5. /\ new \in Stores /\ new.publication = pub
      /\ new.incident = db.incident /\ new.fire = db.fire
      /\ Stored(new) = Stored(db)
  <2> HIDE DEF pub
  <2>1. /\ Stored(db) \in SUBSET Publications /\ db.incident \in Seq(IncidentRows)
        /\ DOMAIN db.fire \in SUBSET Fires /\ db.fire \in [DOMAIN db.fire -> FireRows]
    BY <1>1, StoreParts
  <2>2. Consists(new, Stored(db), pub, db.incident, db.fire)
    BY <1>2, <1>4, <2>1, StoreMade
  <2> QED BY <2>2 DEF Consists
<1>6. \A p \in Stored(db) : /\ SameText(p, new, db)
                            /\ Owner(p, new) = IF p \in P THEN g[p] ELSE Owner(p, db)
  <2> HIDE DEF pub
  <2> QED BY <1>3, <1>5 DEF SameText, Locations, Area, Published, Owner
<1>7. ASSUME NEW p \in Stored(db)
      PROVE  Owner(p, new) \in Fires \cup {Nothing} \/ Owner(p, new) = Owner(p, db)
  BY <1>0, <1>6
<1>8. Sound(new)
  <2>1. \A p \in Stored(new) : Owner(p, new) \in DOMAIN new.incident \cup Fires \cup {Nothing}
    BY <1>1, <1>5, <1>7 DEF Sound
  <2>2. ASSUME NEW p \in Stored(new) \cap Summaries
        PROVE  OfPage(Owner(p, new), p, new)
    <3>1. Owner(p, new) = Owner(p, db)
      BY <1>0, <1>5, <1>6
    <3> QED BY <1>1, <1>5, <3>1 DEF Sound, OfPage, IsSummary
  <2>3. ASSUME NEW p \in Stored(new), IsSummary(Owner(p, new), new)
        PROVE  p \in Summaries
    <3>1. Owner(p, new) = Owner(p, db)
      BY <1>5, <1>7, <2>3, Distinct DEF IsSummary
    <3> QED BY <1>1, <1>5, <2>3, <3>1 DEF Sound, IsSummary
  <2> QED BY <1>1, <1>5, <2>1, <2>2, <2>3 DEF Sound
<1> QED BY <1>1, <1>5, <1>6, <1>8 DEF Good, Given

(* What the fires say may change without any publication changing hands.    *)
LEMMA FiresChange ==
    ASSUME NEW S, NEW db \in Good(S),
           NEW F \in SUBSET Fires, NEW fires \in [F -> FireRows],
           NEW new, new = [db EXCEPT !.fire = fires]
    PROVE  /\ new \in Good(S)
           /\ new.incident = db.incident /\ new.fire = fires
           /\ Stored(new) = Stored(db)
           /\ \A p \in Stored(db) : /\ SameText(p, new, db)
                                    /\ Owner(p, new) = Owner(p, db)
<1>1. db \in Stores /\ Sound(db) /\ S \subseteq Stored(db)
  BY DEF Good
<1>2. new = Tables(db.publication, db.incident, fires)
  <2>1. db = Tables(db.publication, db.incident, db.fire)
    BY <1>1, StoreParts
  <2> QED BY <2>1 DEF Tables
<1>3. /\ new \in Stores /\ new.publication = db.publication
      /\ new.incident = db.incident /\ new.fire = fires /\ Stored(new) = Stored(db)
  <2>1. /\ Stored(db) \in SUBSET Publications /\ db.incident \in Seq(IncidentRows)
        /\ db.publication \in [Stored(db) -> PublicationRows]
    BY <1>1, StoreParts
  <2>2. Consists(new, Stored(db), db.publication, db.incident, fires)
    BY <1>2, <2>1, StoreMade
  <2> QED BY <2>2 DEF Consists
<1>4. \A p \in Stored(db) : SameText(p, new, db) /\ Owner(p, new) = Owner(p, db)
  BY <1>3 DEF SameText, Locations, Area, Published, Owner
<1>5. Sound(new)
  BY <1>1, <1>3, <1>4 DEF Sound, OfPage, IsSummary
<1> QED BY <1>1, <1>3, <1>4, <1>5 DEF Good

(***************************************************************************)
(* Ingestion                                                               *)
(***************************************************************************)

(* Whatever IGN answers, a publication is about municipalities.             *)
LEMMA ResolvedPlaces ==
    ASSUME NEW p \in Publications, NEW answered \in BOOLEAN
    PROVE  Resolved(p, answered) \subseteq Places
<1>1. Mentions[p] \subseteq Places /\ Hints[p] \subseteq Places
  BY LocationsAssumption
<1>2. \A t \in Hashtags[p] : TagPlace[t] \in Places
  BY LocationsAssumption, HashtagsAssumption
<1> QED BY <1>1, <1>2 DEF Resolved, Discovered

(* And its geometry is made of areas.                                       *)
LEMMA DrawnAreas ==
    ASSUME NEW p \in Publications, NEW answered \in BOOLEAN, NEW db \in Stores,
           NEW area \in NewAreas(p, answered, db)
    PROVE  area \in SUBSET Areas
<1>1. CASE p \in Stored(db) /\ ~answered
  BY <1>1, StoreParts DEF NewAreas
<1>2. CASE ~(p \in Stored(db) /\ ~answered)
  <2>1. area \in Drawn(p, Resolved(p, answered))
    BY <1>2 DEF NewAreas
  <2> QED BY <2>1, ResolvedPlaces DEF Drawn, Areas
<1> QED BY <1>1, <1>2

(* The time of a fetch is no other than today.                              *)
LEMMA ReadInTime ==
    ASSUME NEW p \in Publications, NEW day \in Days
    PROVE  ReadAt(p, day) \in Days
BY DatesAssumption DEF ReadAt

(* Where a publication may be told: an incident of a summary is for the     *)
(* editions of its page alone.                                              *)
Fits(p, i, db) ==
    /\ i \in DOMAIN db.incident \cup Fires
    /\ p \in Summaries => OfPage(i, p, db)
    /\ IsSummary(i, db) => p \in Summaries

(* Writing the row of a publication.                                        *)
LEMMA RowKept ==
    ASSUME NEW S, NEW db \in Good(S), NEW p \in Publications, NEW places \in SUBSET Places,
           NEW area \in SUBSET Areas, NEW day \in Days, NEW i, Fits(p, i, db),
           NEW new, new = WithRow(p, places, area, i, day, db)
    PROVE  /\ new \in Good(S)
           /\ new.incident = db.incident /\ new.fire = db.fire
           /\ p \in Stored(new)
<1>1. db \in Stores /\ Sound(db) /\ S \subseteq Stored(db)
  BY DEF Good
<1> DEFINE T == Stored(db) \cup {p}
           published == IF p \in Stored(db) THEN Published(p, db) ELSE ReadAt(p, day)
           row == [owner |-> i, places |-> places, area |-> area, published |-> published]
           pub == [q \in T |-> IF q = p THEN row ELSE db.publication[q]]
<1>2. new = Tables(pub, db.incident, db.fire)
  <2>1. db = Tables(db.publication, db.incident, db.fire)
    BY <1>1, StoreParts
  <2>2. new = [db EXCEPT !.publication = pub]
    BY DEF WithRow, Stored
  <2> HIDE DEF pub
  <2> QED BY <2>1, <2>2 DEF Tables
<1>3. pub \in [T -> PublicationRows]
  <2>1. row \in PublicationRows
    <3>1. published \in Days
      BY <1>1, ReadInTime, StoreParts
    <3> HIDE DEF published
    <3> QED BY <1>1, <3>1, Distinct DEF Fits, PublicationRows
  <2>2. \A q \in Stored(db) : db.publication[q] \in PublicationRows
    BY <1>1, StoreParts
  <2> HIDE DEF row
  <2> QED BY <2>1, <2>2
<1>4. /\ new \in Stores /\ new.publication = pub
      /\ new.incident = db.incident /\ new.fire = db.fire
      /\ Stored(new) = T
  <2> HIDE DEF pub
  <2>1. /\ T \in SUBSET Publications /\ db.incident \in Seq(IncidentRows)
        /\ DOMAIN db.fire \in SUBSET Fires /\ db.fire \in [DOMAIN db.fire -> FireRows]
    BY <1>1, StoreParts
  <2> HIDE DEF T
  <2>2. Consists(new, T, pub, db.incident, db.fire)
    BY <1>2, <1>3, <2>1, StoreMade
  <2> QED BY <2>2 DEF Consists
<1>5. Owner(p, new) = i /\ \A q \in Stored(db) \ {p} : Owner(q, new) = Owner(q, db)
  BY <1>4 DEF Owner
<1>6. Sound(new)
  <2>1. ASSUME NEW q \in Stored(new)
        PROVE  Owner(q, new) \in DOMAIN new.incident \cup Fires \cup {Nothing}
    BY <1>1, <1>4, <1>5 DEF Sound, Fits
  <2>2. ASSUME NEW q \in Stored(new) \cap Summaries
        PROVE  OfPage(Owner(q, new), q, new)
    BY <1>1, <1>4, <1>5 DEF Sound, Fits, OfPage, IsSummary
  <2>3. ASSUME NEW q \in Stored(new), IsSummary(Owner(q, new), new)
        PROVE  q \in Summaries
    <3>1. CASE q = p
      BY <1>4, <1>5, <2>3, <3>1 DEF Fits, IsSummary
    <3>2. CASE q # p
      <4>1. q \in Stored(db) /\ Owner(q, new) = Owner(q, db)
        BY <1>4, <1>5, <3>2
      <4> QED BY <1>1, <1>4, <2>3, <4>1 DEF Sound, IsSummary
    <3> QED BY <3>1, <3>2
  <2> QED BY <1>1, <1>4, <2>1, <2>2, <2>3 DEF Sound
<1>7. S \subseteq Stored(new) /\ p \in Stored(new)
  BY <1>1, <1>4
<1> QED BY <1>4, <1>6, <1>7 DEF Good

(* Changing what OSINT incidents and fires say, not who founded them.       *)
LEMMA IncidentsChange ==
    ASSUME NEW S, NEW db \in Good(S), NEW inc \in Seq(IncidentRows),
           DOMAIN db.incident \subseteq DOMAIN inc,
           \A i \in DOMAIN db.incident : inc[i].founder = db.incident[i].founder,
           OnePerPage(inc),
           NEW new, new = [db EXCEPT !.incident = inc]
    PROVE  /\ new \in Good(S)
           /\ new.publication = db.publication
           /\ new.incident = inc /\ new.fire = db.fire
           /\ Stored(new) = Stored(db)
<1>1. db \in Stores /\ Sound(db) /\ S \subseteq Stored(db)
  BY DEF Good
<1>2. new = Tables(db.publication, inc, db.fire)
  <2>1. db = Tables(db.publication, db.incident, db.fire)
    BY <1>1, StoreParts
  <2> QED BY <2>1 DEF Tables
<1>3. /\ new \in Stores /\ new.publication = db.publication
      /\ new.incident = inc /\ new.fire = db.fire /\ Stored(new) = Stored(db)
  <2>1. /\ Stored(db) \in SUBSET Publications
        /\ db.publication \in [Stored(db) -> PublicationRows]
        /\ DOMAIN db.fire \in SUBSET Fires /\ db.fire \in [DOMAIN db.fire -> FireRows]
    BY <1>1, StoreParts
  <2>2. Consists(new, Stored(db), db.publication, inc, db.fire)
    BY <1>2, <2>1, StoreMade
  <2> QED BY <2>2 DEF Consists
<1>4. ASSUME NEW p \in Stored(db)
      PROVE  /\ Owner(p, new) = Owner(p, db)
             /\ Owner(p, db) \in DOMAIN inc => \/ Owner(p, db) \in DOMAIN db.incident
  <2>1. Owner(p, db) \in DOMAIN db.incident \cup Fires \cup {Nothing}
    BY <1>1 DEF Sound
  <2>2. \A i \in DOMAIN inc : i \in Nat
    <3>1. DOMAIN inc = 1..Len(inc) /\ Len(inc) \in Nat
      BY LenProperties
    <3> QED BY <3>1
  <2> QED BY <1>3, <2>1, <2>2, NothingAssumption, DistinctAssumption DEF Owner
<1>5. Sound(new)
  <2>1. \A p \in Stored(new) : Owner(p, new) \in DOMAIN new.incident \cup Fires \cup {Nothing}
    BY <1>1, <1>3, <1>4 DEF Sound
  <2>2. ASSUME NEW p \in Stored(new) \cap Summaries
        PROVE  OfPage(Owner(p, new), p, new)
    BY <1>1, <1>3, <1>4 DEF Sound, OfPage, IsSummary
  <2>3. ASSUME NEW p \in Stored(new), IsSummary(Owner(p, new), new)
        PROVE  p \in Summaries
    BY <1>1, <1>3, <1>4, <2>3 DEF Sound, IsSummary
  <2> QED BY <1>3, <2>1, <2>2, <2>3 DEF Sound
<1> QED BY <1>1, <1>3, <1>5 DEF Good

(* A new incident is the last one, founded by its publication.              *)
LEMMA CreateKept ==
    ASSUME NEW S, NEW db \in Good(S), NEW p \in Publications, NEW places \in SUBSET Places,
           NEW day \in Days, p \in Summaries => \A i \in DOMAIN db.incident : ~OfPage(i, p, db),
           NEW new, new = Create(p, places, day, db)
    PROVE  /\ new \in Good(S)
           /\ Len(db.incident) + 1 \in DOMAIN new.incident
           /\ new.incident[Len(db.incident) + 1].founder = p
<1> DEFINE row == [founder |-> p, told |-> p, places |-> places,
                   observed |-> ReadAt(p, day), hidden |-> FALSE]
           inc == Append(db.incident, row)
<1>1. db.incident \in Seq(IncidentRows) /\ DOMAIN db.incident = 1..Len(db.incident)
  BY StoreParts, Distinct DEF Good
<1>2. row \in IncidentRows /\ row.founder = p
  BY ReadInTime DEF IncidentRows
<1> HIDE DEF row
<1>3. /\ inc \in Seq(IncidentRows) /\ Len(inc) = Len(db.incident) + 1
      /\ DOMAIN inc = 1..(Len(db.incident) + 1)
      /\ inc[Len(db.incident) + 1] = row
      /\ \A i \in 1..Len(db.incident) : inc[i] = db.incident[i]
  BY <1>1, <1>2
<1>4. new = [db EXCEPT !.incident = inc]
  BY DEF Create, row
<1> HIDE DEF inc
<1>5. /\ DOMAIN db.incident \subseteq DOMAIN inc
      /\ \A i \in DOMAIN db.incident : inc[i].founder = db.incident[i].founder
      /\ Len(db.incident) + 1 \in DOMAIN inc
  BY <1>1, <1>3
<1>6. OnePerPage(inc)
  <2> SUFFICES ASSUME NEW i \in DOMAIN inc, NEW j \in DOMAIN inc,
                      inc[i].founder \in Summaries, inc[j].founder \in Summaries,
                      Page[inc[i].founder] = Page[inc[j].founder]
               PROVE  i = j
    BY DEF OnePerPage
  <2> DEFINE last == Len(db.incident) + 1
  <2>1. /\ i = last \/ i \in DOMAIN db.incident
        /\ j = last \/ j \in DOMAIN db.incident
        /\ inc[last].founder = p
    BY <1>1, <1>2, <1>3
  <2> HIDE DEF last
  <2>2. CASE i \in DOMAIN db.incident /\ j \in DOMAIN db.incident
    <3>1. OnePerPage(db.incident)
      BY DEF Good, Sound
    <3> QED BY <1>5, <2>2, <3>1 DEF OnePerPage
  <2>3. CASE i = last /\ j \in DOMAIN db.incident
    BY <1>5, <2>1, <2>3 DEF OfPage, IsSummary
  <2>4. CASE j = last /\ i \in DOMAIN db.incident
    BY <1>5, <2>1, <2>4 DEF OfPage, IsSummary
  <2> QED BY <2>1, <2>2, <2>3, <2>4
<1>7. new \in Good(S) /\ new.incident = inc
  BY <1>3, <1>4, <1>5, <1>6, IncidentsChange
<1> QED BY <1>2, <1>3, <1>5, <1>7

(* What a publication moves still says something of the same kind.          *)
LEMMA TransitionKept ==
    ASSUME NEW S, NEW db \in Good(S), NEW p \in Stored(db),
           NEW i \in DOMAIN db.incident \cup DOMAIN db.fire,
           NEW new, new = Transition(p, i, db)
    PROVE  new \in Good(S)
<1>1. db \in Stores
  BY DEF Good
<1>2. /\ p \in Publications /\ Locations(p, db) \in SUBSET Places
      /\ Published(p, db) \in Days
      /\ db.incident \in Seq(IncidentRows) /\ DOMAIN db.incident = 1..Len(db.incident)
      /\ DOMAIN db.fire \in SUBSET Fires /\ db.fire \in [DOMAIN db.fire -> FireRows]
  BY <1>1, StoreParts, Distinct
<1>3. \A d \in Days : Later(d, Published(p, db)) \in Days
  BY <1>2 DEF Later
<1>4. CASE i \in Fires
  <2>1. i \in DOMAIN db.fire
    BY <1>1, <1>4, Distinct
  <2> DEFINE row == [Told(db.fire[i], p, db) EXCEPT !.status = StatusToldBy(p)]
             fires == [db.fire EXCEPT ![i] = row]
  <2>2. row \in FireRows
    <3>1. db.fire[i] \in FireRows
      BY <1>2, <2>1
    <3>2. StatusToldBy(p) \in Statuses
      BY DEF StatusToldBy, Statuses
    <3> QED BY <1>2, <1>3, <3>1, <3>2 DEF FireRows, Told
  <2>3. new = [db EXCEPT !.fire = fires]
    BY <1>4 DEF Transition
  <2> HIDE DEF row
  <2>4. fires \in [DOMAIN db.fire -> FireRows]
    BY <1>2, <2>2
  <2> HIDE DEF fires
  <2> QED BY <1>2, <2>3, <2>4, FiresChange
<1>5. CASE i \notin Fires
  <2>1. i \in DOMAIN db.incident
    BY <1>2, <1>5
  <2> DEFINE row == Told(db.incident[i], p, db)
             inc == [db.incident EXCEPT ![i] = row]
  <2>2. row \in IncidentRows /\ row.founder = db.incident[i].founder
    <3>1. db.incident[i] \in IncidentRows
      BY <1>2, <2>1
    <3> QED BY <1>2, <1>3, <3>1 DEF IncidentRows, Told
  <2>3. new = [db EXCEPT !.incident = inc]
    BY <1>5 DEF Transition
  <2> HIDE DEF row
  <2>4. inc \in Seq(IncidentRows) /\ DOMAIN inc = DOMAIN db.incident
    BY <1>2, <2>1, <2>2, ExceptSeq
  <2>5. \A j \in DOMAIN db.incident : inc[j].founder = db.incident[j].founder
    BY <2>1, <2>2
  <2> HIDE DEF inc
  <2>6. OnePerPage(inc)
    BY <2>4, <2>5 DEF Good, Sound, OnePerPage
  <2> QED BY <2>3, <2>4, <2>5, <2>6, IncidentsChange
<1> QED BY <1>4, <1>5

(* The publication of a feed keeps the tables sound.                        *)
LEMMA IngestOneKept ==
    ASSUME NEW S, NEW db \in Good(S), NEW p \in Publications, NEW answered \in BOOLEAN,
           NEW day \in Days, NEW new \in IngestOne(p, answered, day, db)
    PROVE  new \in Good(S)
<1> DEFINE places == Resolved(p, answered)
           kept == NewPlaces(p, answered, db)
           areas == NewAreas(p, answered, db)
           found == FoundIncidents(p, places, day, db)
<1>1. db \in Stores /\ Sound(db)
  BY DEF Good
<1>2. /\ places \in SUBSET Places /\ kept \in SUBSET Places
      /\ \A area \in areas : area \in SUBSET Areas
  <2>1. places \in SUBSET Places /\ kept \in SUBSET Places
    BY <1>1, ResolvedPlaces, StoreParts DEF NewPlaces
  <2> QED BY <1>1, <2>1, DrawnAreas
<1>3. CASE p \in Discarded
  BY <1>3 DEF IngestOne
<1>4. CASE p \notin Discarded /\ Kept(p, db)
  <2>1. Fits(p, Owner(p, db), db)
    BY <1>1, <1>4, Distinct DEF Kept, Fits, IsSummary
  <2>2. PICK area \in areas : new = WithRow(p, kept, area, Owner(p, db), day, db)
    BY <1>4 DEF IngestOne
  <2> HIDE DEF kept, areas
  <2> QED BY <1>2, <2>1, <2>2, RowKept
<1>5. CASE p \notin Discarded /\ ~Kept(p, db) /\ found # {}
  <2>1. PICK i \in found, area \in areas :
            new = Transition(p, i, WithRow(p, kept, area, i, day, db))
    BY <1>5 DEF IngestOne
  <2>2. i \in DOMAIN db.incident \cup DOMAIN db.fire /\ Fits(p, i, db)
    <3>1. CASE p \in Summaries
      BY <3>1 DEF FoundIncidents, Fits, OfPage
    <3>2. CASE p \notin Summaries
      <4>1. i \in Candidates(p, day, db)
        BY <3>2 DEF FoundIncidents, Matching
      <4>2. i \in DOMAIN db.incident \cup DOMAIN db.fire /\ ~IsSummary(i, db)
        BY <4>1 DEF Candidates
      <4>3. DOMAIN db.fire \subseteq Fires
        BY <1>1, StoreParts
      <4> QED BY <3>2, <4>2, <4>3 DEF Fits
    <3> QED BY <3>1, <3>2
  <2> DEFINE with == WithRow(p, kept, area, i, day, db)
  <2> HIDE DEF kept, areas, found
  <2>3. /\ with \in Good(S) /\ p \in Stored(with)
        /\ i \in DOMAIN with.incident \cup DOMAIN with.fire
    BY <1>2, <2>2, RowKept
  <2>4. new = Transition(p, i, with)
    BY <2>1
  <2> HIDE DEF with
  <2> QED BY <2>3, <2>4, TransitionKept
<1>6. CASE p \notin Discarded /\ ~Kept(p, db) /\ found = {}
  <2> DEFINE i == Len(db.incident) + 1
             made == Create(p, places, day, db)
  <2>1. PICK area \in areas : new = Transition(p, i, WithRow(p, kept, area, i, day, made))
    BY <1>6 DEF IngestOne
  <2> DEFINE with == WithRow(p, kept, area, i, day, made)
  <2>2. p \in Summaries => \A j \in DOMAIN db.incident : ~OfPage(j, p, db)
    BY <1>6 DEF FoundIncidents, OfPage
  <2> HIDE DEF kept, areas, found
  <2>3. /\ made \in Good(S)
        /\ i \in DOMAIN made.incident /\ made.incident[i].founder = p
    BY <1>2, <2>2, CreateKept
  <2>4. Fits(p, i, made)
    BY <2>3 DEF Fits, OfPage, IsSummary
  <2> HIDE DEF made, i
  <2>5. with \in Good(S) /\ p \in Stored(with) /\ i \in DOMAIN with.incident
    BY <1>2, <2>3, <2>4, RowKept
  <2>6. new = Transition(p, i, with)
    BY <2>1
  <2> HIDE DEF with
  <2> QED BY <2>5, <2>6, TransitionKept
<1> QED BY <1>3, <1>4, <1>5, <1>6

(* The tables that the ingestion of p may make of some of ds.               *)
Onward(p, answered, day, ds) == UNION {IngestOne(p, answered, day, d) : d \in ds}

(* And so does a feed, however long and in whatever order.                  *)
LEMMA IngestedKept ==
    ASSUME NEW S, NEW db \in Good(S), NEW feed \in Seq(Publications),
           NEW first \in Nat, NEW day \in Days, NEW new \in Ingested(feed, first, day, db)
    PROVE  new \in Good(S)
<1> DEFINE X == SUBSET Good(S)
           N == Len(feed)
           step == [n \in 1..N |-> [ds \in X |-> Onward(feed[n], n >= first, day, ds)]]
           Values(v) == v = [n \in 0..N |-> IF n = 0 THEN {db} ELSE Onward(feed[n], n >= first, day, v[n - 1])]
           after == CHOOSE v : Values(v)
<1>1. N \in Nat /\ feed \in [1..N -> Publications]
  OBVIOUS
<1>2. new \in after[N]
  BY DEF Ingested, Onward
<1> HIDE DEF N
<1>3. \A n \in 1..N, ds \in X : Onward(feed[n], n >= first, day, ds) \in X
  <2> SUFFICES ASSUME NEW n \in 1..N, NEW ds \in X, NEW d \in Onward(feed[n], n >= first, day, ds)
               PROVE  d \in Good(S)
    OBVIOUS
  <2>1. feed[n] \in Publications
    BY <1>1
  <2>2. PICK old \in ds : d \in IngestOne(feed[n], n >= first, day, old)
    BY DEF Onward
  <2>3. (n >= first) \in BOOLEAN
    OBVIOUS
  <2> QED BY <2>1, <2>2, <2>3, IngestOneKept
<1>4. step \in Steps(X, N) /\ {db} \in X
  BY <1>3 DEF Steps
<1>5. PICK v : v \in Walks(X, {db}, N, step)
  <2> HIDE DEF step, X
  <2> QED BY <1>1, <1>4, StepsExist
<1>6. Values(v)
  <2>1. /\ v \in [0..N -> X] /\ v[0] = {db}
        /\ \A n \in 1..N : v[n] = step[n][v[n - 1]]
    <3> HIDE DEF step, X
    <3> QED BY <1>5 DEF Walks
  <2>2. ASSUME NEW n \in 0..N, n # 0 PROVE v[n] = Onward(feed[n], n >= first, day, v[n - 1])
    <3>1. n \in 1..N /\ n - 1 \in 0..N
      BY <1>1, <2>2
    <3>2. v[n - 1] \in X
      BY <2>1, <3>1
    <3>3. v[n] = step[n][v[n - 1]]
      BY <2>1, <3>1
    <3> HIDE DEF X
    <3> QED BY <3>1, <3>2, <3>3
  <2>3. \A n \in 0..N : v[n] = IF n = 0 THEN {db} ELSE Onward(feed[n], n >= first, day, v[n - 1])
    BY <2>1, <2>2
  <2> HIDE DEF X
  <2> QED BY <2>1, <2>3
<1>7. Values(after)
  <2> HIDE DEF Values
  <2> QED BY <1>6
<1> HIDE DEF after
<1>8. after[0] = {db} /\ \A n \in 1..N : after[n] = Onward(feed[n], n >= first, day, after[n - 1])
  <2>1. \A n \in 0..N : after[n] = IF n = 0 THEN {db} ELSE Onward(feed[n], n >= first, day, after[n - 1])
    BY <1>7
  <2> QED BY <1>1, <2>1
<1> DEFINE R == {n \in Nat : n <= N => after[n] \in X}
<1>9. 0 \in R
  BY <1>4, <1>8
<1>10. ASSUME NEW n \in Nat, n \in R PROVE n + 1 \in R
  <2> SUFFICES ASSUME n + 1 <= N PROVE after[n + 1] \in X
    OBVIOUS
  <2>1. n + 1 \in 1..N /\ (n + 1) - 1 = n /\ after[n] \in X
    BY <1>1, <1>10
  <2> HIDE DEF X
  <2> QED BY <1>3, <1>8, <2>1
<1>11. N \in R
  <2> HIDE DEF R
  <2> QED BY <1>1, <1>9, <1>10, NatSetInduction
<1> QED BY <1>1, <1>2, <1>11

(* What a run is given is a sequence of publications.                       *)
LEMMA FeedsAreSequences ==
    ASSUME NEW feed \in Feeds
    PROVE  feed \in Seq(Publications)
<1>1. PICK s \in SUBSET Publications : feed \in SetToSeqs(s)
  BY DEF Feeds
<1>2. Cardinality(s) \in Nat
  BY FS_Subset, FS_CardinalityType, FiniteAssumption
<1>3. feed \in [1..Cardinality(s) -> s]
  BY <1>1 DEF SetToSeqs
<1> QED BY <1>2, <1>3, SeqDef

(* EFFIS writes its fires and nothing else.                                 *)
LEMMA EffisWritesKept ==
    ASSUME NEW S, NEW db \in Good(S), NEW news \in SUBSET Fires,
           NEW new, new = EffisWrites(news, db)
    PROVE  new \in Good(S) /\ new.incident = db.incident
<1> DEFINE F == DOMAIN db.fire \cup news
           row(f) == IF f \in DOMAIN db.fire
                     THEN [db.fire[f] EXCEPT !.told = Nothing, !.observed = Observed[f]]
                     ELSE [told |-> Nothing, status |-> "reported", observed |-> Observed[f],
                           places |-> {}, tags |-> {}]
           fires == [f \in F |-> row(f)]
<1>1. DOMAIN db.fire \subseteq Fires /\ db.fire \in [DOMAIN db.fire -> FireRows]
  BY StoreParts DEF Good
<1>2. ASSUME NEW f \in F PROVE row(f) \in FireRows
  <2>1. Observed[f] \in Days
    BY <1>1, FiresAssumption
  <2>2. CASE f \in DOMAIN db.fire
    <3>1. db.fire[f] \in FireRows
      BY <1>1, <2>2
    <3> QED BY <2>1, <2>2, <3>1 DEF FireRows
  <2>3. CASE f \notin DOMAIN db.fire
    BY <2>1, <2>3 DEF FireRows, Statuses
  <2> QED BY <2>2, <2>3
<1>3. F \in SUBSET Fires
  BY <1>1
<1>4. new = [db EXCEPT !.fire = fires]
  BY DEF EffisWrites
<1>5. fires \in [F -> FireRows]
  <2> HIDE DEF row, F
  <2> QED BY <1>2
<1> HIDE DEF fires, F
<1> QED BY <1>3, <1>4, <1>5, FiresChange

(***************************************************************************)
(* The best fire and the latest publication                                *)
(***************************************************************************)

(* Some element has the least value.                                        *)
LEMMA LeastExists ==
    ASSUME NEW S, S # {}, NEW v \in [S -> Nat]
    PROVE  \E x \in S : \A y \in S : v[x] <= v[y]
<1> DEFINE R == OpToRel(<, Nat)
           T == {n \in Nat : \E x \in S : v[x] = n}
<1>1. IsWellFoundedOn(R, Nat)
  BY NatLessThanWellFounded
<1>2. \A m, n \in Nat : m < n => <<m, n>> \in R
  BY DEF OpToRel
<1> HIDE DEF R
<1>3. T # {} /\ T \subseteq Nat
  OBVIOUS
<1>4. PICK least \in T : \A n \in T : <<n, least>> \notin R
  <2> HIDE DEF T
  <2> QED BY <1>1, <1>3, WFMin
<1>5. PICK x \in S : v[x] = least
  BY <1>4
<1>6. ASSUME NEW y \in S PROVE v[x] <= v[y]
  <2>1. v[y] \in T /\ v[y] \in Nat /\ v[x] \in Nat
    OBVIOUS
  <2>2. ~(v[y] < v[x])
    BY <1>2, <1>4, <1>5, <2>1
  <2> QED BY <2>1, <2>2
<1> QED BY <1>6

(* And some the greatest, if there is a bound.                              *)
LEMMA GreatestExists ==
    ASSUME NEW S, S # {}, NEW N \in Nat, NEW v \in [S -> 0..N]
    PROVE  \E x \in S : \A y \in S : v[y] <= v[x]
<1> DEFINE w == [x \in S |-> N - v[x]]
<1>1. w \in [S -> Nat]
  OBVIOUS
<1>2. PICK x \in S : \A y \in S : w[x] <= w[y]
  <2> HIDE DEF w
  <2> QED BY <1>1, LeastExists
<1>3. \A y \in S : v[y] <= v[x]
  <2> TAKE y \in S
  <2>1. w[x] <= w[y]
    BY <1>2
  <2> QED BY <2>1
<1> QED BY <1>3

(* Some publications have a latest, or several.                             *)
LEMMA LatestExists ==
    ASSUME NEW db \in Stores, NEW ps \in SUBSET Stored(db), ps # {}
    PROVE  \E p : p \in LatestOf(ps, db)
<1> DEFINE v == [p \in ps |-> Published(p, db)]
<1>1. MaxDay \in Nat /\ \A p \in ps : Published(p, db) \in 0..MaxDay
  BY NumbersAssumption, StoreParts DEF Days
<1>2. v \in [ps -> 0..MaxDay]
  BY <1>1
<1>3. \E p \in ps : \A q \in ps : v[q] <= v[p]
  <2> HIDE DEF v
  <2> QED BY <1>1, <1>2, GreatestExists
<1>4. \E p \in ps : \A q \in ps : Published(q, db) <= Published(p, db)
  BY <1>3
<1> QED BY <1>4 DEF LatestOf

(* What a fire is told by: one of them, if there is any.                    *)
Speaks(latest, f, db) ==
    IF Evidence(f, db) = {} THEN latest = Nothing
    ELSE latest \in LatestOf(Evidence(f, db), db)

LEMMA SpeakersExist ==
    ASSUME NEW db \in Stores, NEW rows
    PROVE  \E latest : latest \in Speakers(rows, db)
<1> DEFINE latest == [f \in rows |->
                IF Evidence(f, db) = {} THEN Nothing
                ELSE CHOOSE p : p \in LatestOf(Evidence(f, db), db)]
<1>1. ASSUME NEW f \in rows
      PROVE  Speaks(latest[f], f, db) /\ latest[f] \in Stored(db) \cup {Nothing}
  <2>1. CASE Evidence(f, db) = {}
    BY <2>1 DEF Speaks
  <2>2. CASE Evidence(f, db) # {}
    <3>1. Evidence(f, db) \in SUBSET Stored(db)
      BY DEF Evidence
    <3>2. \E p : p \in LatestOf(Evidence(f, db), db)
      BY <2>2, <3>1, LatestExists
    <3>3. latest[f] \in LatestOf(Evidence(f, db), db)
      BY <2>2, <3>2
    <3>4. latest[f] \in Stored(db)
      BY <3>1, <3>3 DEF LatestOf
    <3> QED BY <2>2, <3>3, <3>4 DEF Speaks
  <2> QED BY <2>1, <2>2
<1>2. latest \in [rows -> Stored(db) \cup {Nothing}]
  BY <1>1
<1> HIDE DEF latest
<1>3. latest \in Speakers(rows, db)
  BY <1>1, <1>2 DEF Speakers, Speaks
<1> QED BY <1>3

(* Hashtags, places, municipality and perimeter, and the time.              *)
LEMMA PointsBounded ==
    ASSUME NEW p, NEW f, NEW db
    PROVE  Points(p, f, db) \in 0..320
BY DEF Points, Score, TimePoints

(* What BestFire chooses: nothing, if no fire matches, or a fire such that  *)
(* all that match have fewer points, or as many and come later.             *)
IsBest(b, p, list, db) ==
    \/ /\ b = Nothing
       /\ \A f \in DOMAIN list : ~IsFireMatch(p, f, db)
    \/ /\ b \in DOMAIN list
       /\ IsFireMatch(p, b, db)
       /\ \A g \in DOMAIN list :
              IsFireMatch(p, g, db) =>
                  /\ Points(p, g, db) <= Points(p, b, db)
                  /\ Points(p, g, db) = Points(p, b, db) => list[b] <= list[g]

LEMMA BestFireIsBest ==
    ASSUME NEW p, NEW db, NEW rows \in SUBSET Fires, NEW list \in Lists(rows)
    PROVE  IsBest(BestFire(p, list, db), p, list, db)
<1> DEFINE matching == {f \in DOMAIN list : IsFireMatch(p, f, db)}
           best == {f \in matching :
                       \A g \in matching : Points(p, g, db) <= Points(p, f, db)}
           v == [f \in matching |-> Points(p, f, db)]
           place == [f \in best |-> list[f]]
           b == CHOOSE f \in best : \A g \in best : list[f] <= list[g]
<1>1. CASE matching = {}
  BY <1>1 DEF BestFire, IsBest
<1>2. CASE matching # {}
  <2>1. BestFire(p, list, db) = b
    BY <1>2 DEF BestFire
  <2>2. v \in [matching -> 0..320]
    BY PointsBounded
  <2>3. \E f \in matching : \A g \in matching : v[g] <= v[f]
    <3>1. PICK N \in Nat : N = 320
      OBVIOUS
    <3>2. v \in [matching -> 0..N]
      BY <2>2, <3>1
    <3> HIDE DEF v, matching
    <3> QED BY <1>2, <3>2, GreatestExists
  <2>4. best # {}
    <3>1. PICK f \in matching : \A g \in matching : v[g] <= v[f]
      BY <2>3
    <3>2. \A g \in matching : Points(p, g, db) <= Points(p, f, db)
      BY <3>1
    <3> HIDE DEF matching
    <3> QED BY <3>2
  <2>5. place \in [best -> Nat]
    <3>1. list \in [rows -> 1..Cardinality(rows)] /\ Cardinality(rows) \in Nat
      <4>1. Cardinality(rows) \in Nat
        BY FS_Subset, FS_CardinalityType, FiniteAssumption
      <4> QED BY <4>1 DEF Lists
    <3> QED BY <3>1
  <2>6. \E f \in best : \A g \in best : place[f] <= place[g]
    <3> HIDE DEF place, best
    <3> QED BY <2>4, <2>5, LeastExists
  <2>7. \E f \in best : \A g \in best : list[f] <= list[g]
    <3>1. PICK f \in best : \A g \in best : place[f] <= place[g]
      BY <2>6
    <3>2. \A g \in best : list[f] <= list[g]
      <4> TAKE g \in best
      <4>1. place[f] <= place[g] /\ place[f] = list[f] /\ place[g] = list[g]
        <5> HIDE DEF best
        <5> QED BY <3>1
      <4> QED BY <4>1
    <3> HIDE DEF best
    <3> QED BY <3>2
  <2>8. b \in best /\ \A g \in best : list[b] <= list[g]
    <3> HIDE DEF best
    <3> QED BY <2>7
  <2> HIDE DEF b
  <2>9. \A g \in matching : Points(p, g, db) <= Points(p, b, db) /\ b \in matching
    BY <2>8
  <2>10. ASSUME NEW g \in matching, Points(p, g, db) = Points(p, b, db)
         PROVE  list[b] <= list[g]
    <3>1. g \in best
      BY <2>9, <2>10
    <3> HIDE DEF best
    <3> QED BY <2>8, <3>1
  <2> QED BY <2>1, <2>8, <2>9, <2>10 DEF IsBest
<1> QED BY <1>1, <1>2

(***************************************************************************)
(* The stages of a reconciliation                                          *)
(***************************************************************************)

(* What no stage changes: which publications and fires there are, the       *)
(* locations of the former and how many incidents.                          *)
Same(new, db) ==
    /\ Stored(new) = Stored(db)
    /\ \A p \in Stored(db) : SameText(p, new, db)
    /\ DOMAIN new.fire = DOMAIN db.fire
    /\ Len(new.incident) = Len(db.incident)

(* Publications of the recent fires are let go.                             *)
LEMMA LetGoMeans ==
    ASSUME NEW S, NEW db \in Good(S), NEW rows \in SUBSET Fires, NEW new, new = LetGo(rows, db)
    PROVE  /\ new \in Good(S) /\ Same(new, db) /\ new.fire = db.fire
           /\ \A p \in Stored(db) : Owner(p, new) \notin rows
<1> DEFINE P == {q \in Stored(db) : Owner(q, db) \in rows}
           g == [p \in P |-> Nothing]
<1>1. db \in Stores /\ Sound(db)
  BY DEF Good
<1>2. P \subseteq Stored(db) \ Summaries
  <2> SUFFICES ASSUME NEW q \in P, q \in Summaries PROVE FALSE
    OBVIOUS
  <2>1. Owner(q, db) \in DOMAIN db.incident
    BY <1>1 DEF Sound, OfPage, IsSummary
  <2> QED BY <1>1, <2>1, Distinct
<1>3. new = WithOwners(g, db) /\ g \in [P -> Nat \cup Fires \cup {Nothing}]
  BY DEF LetGo
<1>4. \A p \in P : g[p] = Nothing
  OBVIOUS
<1>5. \A p \in Stored(db) : p \in P <=> Owner(p, db) \in rows
  OBVIOUS
<1> HIDE DEF P, g
<1>6. Given(S, new, P, g, db)
  <2>1. MayBeGiven(P, g, db)
    BY <1>2, <1>3, <1>4 DEF MayBeGiven
  <2> QED BY <1>2, <1>3, <1>4, <2>1, OwnersChange
<1>7. Nothing \notin rows
  BY NothingAssumption
<1> QED BY <1>4, <1>5, <1>6, <1>7 DEF Same, Given

(* And the fires forget hashtags and places.                                *)
LEMMA ResetMeans ==
    ASSUME NEW S, NEW db \in Good(S), NEW rows \in SUBSET Fires, rows \subseteq DOMAIN db.fire,
           NEW new, new = Reset(rows, db)
    PROVE  /\ new \in Good(S) /\ Same(new, db)
           /\ \A p \in Stored(db) : Owner(p, new) \notin rows
           /\ \A f \in rows : new.fire[f].tags = {} /\ new.fire[f].places = {}
<1> DEFINE free == LetGo(rows, db)
           fires == [f \in DOMAIN free.fire |->
                       IF f \in rows THEN [free.fire[f] EXCEPT !.places = {}, !.tags = {}]
                       ELSE free.fire[f]]
<1>1. new = [free EXCEPT !.fire = fires]
  BY DEF Reset
<1>2. /\ free \in Good(S) /\ Same(free, db) /\ free.fire = db.fire
      /\ \A p \in Stored(db) : Owner(p, free) \notin rows
  BY LetGoMeans
<1> HIDE DEF free
<1>3. DOMAIN free.fire \in SUBSET Fires /\ free.fire \in [DOMAIN free.fire -> FireRows]
  BY <1>2, StoreParts DEF Good
<1>4. /\ fires \in [DOMAIN free.fire -> FireRows]
      /\ \A f \in rows : fires[f].tags = {} /\ fires[f].places = {}
  BY <1>2, <1>3 DEF FireRows
<1> HIDE DEF fires
<1>5. /\ new \in Good(S)
      /\ new.incident = free.incident /\ new.fire = fires
      /\ Stored(new) = Stored(free)
      /\ \A p \in Stored(free) : /\ SameText(p, new, free)
                                 /\ Owner(p, new) = Owner(p, free)
  BY <1>1, <1>2, <1>3, <1>4, FiresChange
<1>6. Same(new, db)
  BY <1>2, <1>4, <1>5 DEF Same, SameText
<1> QED BY <1>2, <1>4, <1>5, <1>6 DEF Same

(* The first pass gives fires to publications that have no incident.        *)
AssignedFirst(S, new, list, day, db) ==
    /\ new \in Good(S) /\ Same(new, db) /\ new.fire = db.fire
    /\ \A p \in Stored(db) :
           Owner(p, new) = IF p \in Assignable(db, day) /\ Owner(p, db) = Nothing
                           THEN BestFire(p, list, db) ELSE Owner(p, db)

LEMMA AssignFirstMeans ==
    ASSUME NEW S, NEW db \in Good(S), NEW day, NEW rows \in SUBSET Fires,
           NEW list \in Lists(rows), NEW new, new = AssignFirst(list, day, db)
    PROVE  AssignedFirst(S, new, list, day, db)
<1> DEFINE P == {p \in Assignable(db, day) : Owner(p, db) = Nothing}
           g == [p \in P |-> BestFire(p, list, db)]
<1>1. \A p : BestFire(p, list, db) \in Fires \cup {Nothing}
  <2> TAKE p
  <2>1. IsBest(BestFire(p, list, db), p, list, db)
    BY BestFireIsBest
  <2>2. DOMAIN list = rows
    BY DEF Lists
  <2> QED BY <2>1, <2>2 DEF IsBest
<1>2. P \subseteq Stored(db) \ Summaries
  BY DEF Assignable
<1>3. new = WithOwners(g, db) /\ g \in [P -> Nat \cup Fires \cup {Nothing}]
  BY <1>1 DEF AssignFirst
<1>4. \A p \in P : g[p] = BestFire(p, list, db)
  OBVIOUS
<1>5. \A p : p \in P <=> p \in Assignable(db, day) /\ Owner(p, db) = Nothing
  OBVIOUS
<1> HIDE DEF P, g
<1>6. \A p \in P : g[p] \in Fires \cup {Nothing} \/ g[p] = Owner(p, db)
  BY <1>1, <1>4
<1>7. Given(S, new, P, g, db)
  <2>1. MayBeGiven(P, g, db)
    BY <1>2, <1>3, <1>6 DEF MayBeGiven
  <2> QED BY <1>2, <1>3, <1>6, <2>1, OwnersChange
<1> QED BY <1>4, <1>5, <1>7 DEF Same, Given, AssignedFirst

(* The second takes away what matches no fire.                              *)
LEMMA AssignSecondMeans ==
    ASSUME NEW S, NEW db \in Good(S), NEW day, NEW rows \in SUBSET Fires,
           NEW list \in Lists(rows), NEW new, new = AssignSecond(list, day, db)
    PROVE  /\ new \in Good(S) /\ Same(new, db) /\ new.fire = db.fire
           /\ \A p \in Stored(db) :
                  Owner(p, new) = IF p \in Assignable(db, day)
                                  THEN SecondChoice(p, list, db) ELSE Owner(p, db)
<1> DEFINE P == Assignable(db, day)
           g == [p \in P |-> SecondChoice(p, list, db)]
<1>1. \A p : BestFire(p, list, db) \in Fires \cup {Nothing}
  <2> TAKE p
  <2>1. IsBest(BestFire(p, list, db), p, list, db)
    BY BestFireIsBest
  <2>2. DOMAIN list = rows
    BY DEF Lists
  <2> QED BY <2>1, <2>2 DEF IsBest
<1>2. P \subseteq Stored(db) \ Summaries
  BY DEF Assignable
<1>3. \A p \in P : g[p] = SecondChoice(p, list, db)
  OBVIOUS
<1>4. \A p \in P : g[p] \in Fires \cup {Nothing} \/ g[p] = Owner(p, db)
  BY <1>1 DEF SecondChoice
<1>5. g \in [P -> Nat \cup Fires \cup {Nothing}]
  <2>1. \A p \in P : Owner(p, db) \in Nat \cup Fires \cup {Nothing}
    BY <1>2, StoreParts DEF Good
  <2>2. \A p \in P : g[p] \in Nat \cup Fires \cup {Nothing}
    BY <1>4, <2>1
  <2> HIDE DEF P
  <2> QED BY <2>2
<1>6. new = WithOwners(g, db)
  BY DEF AssignSecond
<1> HIDE DEF P, g
<1>7. Given(S, new, P, g, db)
  <2>1. MayBeGiven(P, g, db)
    BY <1>2, <1>4, <1>5, <1>6 DEF MayBeGiven
  <2> QED BY <1>2, <1>4, <1>5, <1>6, <2>1, OwnersChange
<1> QED BY <1>3, <1>7 DEF Same, Given, P

(* A refreshed fire has what its publications say besides what it had, and  *)
(* tells what the latest of them says.                                      *)
Says(row, old, ps, last, tags, places, f) ==
    /\ row.tags = old.tags \cup tags
    /\ row.places \subseteq old.places \cup places \cup {Commune[f]}
    /\ ps = {} => row.told = Nothing /\ row.status = "reported"
    /\ ps # {} => row.told \in last /\ row.status = StatusToldBy(row.told)

RefreshedSays(row, f, db) ==
    Says(row, db.fire[f], Evidence(f, db), LatestOf(Evidence(f, db), db),
         UNION {Hashtags[p] : p \in Evidence(f, db)},
         UNION {Locations(p, db) : p \in Evidence(f, db)}, f)

LEMMA RefreshedMeans ==
    ASSUME NEW S, NEW db \in Good(S), NEW f \in DOMAIN db.fire,
           NEW latest, Speaks(latest, f, db)
    PROVE  LET row == Refreshed(f, latest, db)
               wide == [row EXCEPT !.places = @ \cup {Commune[f]}]
           IN /\ row \in FireRows /\ RefreshedSays(row, f, db)
              /\ row.places = db.fire[f].places \cup
                                  UNION {Locations(p, db) : p \in Evidence(f, db)}
              /\ wide \in FireRows /\ RefreshedSays(wide, f, db)
<1> DEFINE row == Refreshed(f, latest, db)
           wide == [row EXCEPT !.places = @ \cup {Commune[f]}]
           ps == Evidence(f, db)
           last == LatestOf(ps, db)
           tags == UNION {Hashtags[p] : p \in ps}
           places == UNION {Locations(p, db) : p \in ps}
           old == db.fire[f]
<1>1. /\ f \in Fires /\ old \in FireRows
      /\ ps \subseteq Publications
      /\ \A p \in ps : Locations(p, db) \subseteq Places /\ Published(p, db) \in Days
  BY StoreParts DEF Good, Evidence
<1>2. /\ Observed[f] \in Days /\ Commune[f] \in Places
      /\ tags \subseteq Tags /\ places \subseteq Places
  BY <1>1, FiresAssumption, HashtagsAssumption
<1>3. ps = {} => tags = {} /\ places = {}
  OBVIOUS
<1>4. IF ps = {} THEN latest = Nothing ELSE latest \in last /\ latest \in ps
  BY DEF Speaks, LatestOf
<1>5. ps # {} => /\ latest \in Publications /\ latest # Nothing
                 /\ Later(Observed[f], Published(latest, db)) \in Days
  BY <1>1, <1>2, <1>4, NothingAssumption DEF Later
<1>6. \A p : StatusToldBy(p) \in Statuses
  BY DEF StatusToldBy, Statuses
<1>7. row = IF latest = Nothing
            THEN [old EXCEPT !.told = Nothing, !.status = "reported", !.observed = Observed[f]]
            ELSE [told |-> latest, status |-> StatusToldBy(latest),
                  observed |-> Later(Observed[f], Published(latest, db)),
                  places |-> old.places \cup places, tags |-> old.tags \cup tags]
  BY DEF Refreshed
<1> HIDE DEF row, tags, places, old, ps, last
<1>8. /\ row \in FireRows
      /\ row.tags = old.tags \cup tags /\ row.places = old.places \cup places
      /\ ps = {} => row.told = Nothing /\ row.status = "reported"
      /\ ps # {} => row.told \in last /\ row.status = StatusToldBy(row.told)
  BY <1>1, <1>2, <1>3, <1>4, <1>5, <1>6, <1>7 DEF FireRows, Statuses
<1>9. /\ wide \in FireRows
      /\ wide.tags = row.tags /\ wide.places = row.places \cup {Commune[f]}
      /\ wide.status = row.status /\ wide.told = row.told
  BY <1>2, <1>8 DEF FireRows
<1> HIDE DEF wide
<1>10. RefreshedSays(row, f, db) /\ RefreshedSays(wide, f, db)
  <2>1. Says(row, old, ps, last, tags, places, f)
    BY <1>8 DEF Says
  <2>2. Says(wide, old, ps, last, tags, places, f)
    BY <1>8, <1>9 DEF Says
  <2> QED BY <2>1, <2>2 DEF RefreshedSays, tags, places, old, ps, last
<1> QED BY <1>8, <1>9, <1>10 DEF wide, row, places, old, ps

LEMMA RefreshFirstMeans ==
    ASSUME NEW S, NEW db \in Good(S), NEW rows \in SUBSET Fires, rows \subseteq DOMAIN db.fire,
           NEW new, new = RefreshFirst(rows, db)
    PROVE  /\ new \in Good(S) /\ Same(new, db)
           /\ \A p \in Stored(db) : Owner(p, new) = Owner(p, db)
           /\ \A f \in rows :
                  /\ RefreshedSays(new.fire[f], f, db)
                  /\ new.fire[f].places = db.fire[f].places \cup
                                             UNION {Locations(p, db) : p \in Evidence(f, db)}
<1> DEFINE F == DOMAIN db.fire
           latest == CHOOSE g \in Speakers(rows, db) : TRUE
           fires == [f \in F |-> IF f \in rows THEN Refreshed(f, latest[f], db) ELSE db.fire[f]]
<1>1. F \in SUBSET Fires /\ db.fire \in [F -> FireRows]
  BY StoreParts DEF Good
<1>2. latest \in Speakers(rows, db)
  BY SpeakersExist DEF Good
<1>3. new = [db EXCEPT !.fire = fires]
  BY DEF RefreshFirst
<1> HIDE DEF latest
<1>4. ASSUME NEW f \in F, f \in rows
      PROVE  /\ Refreshed(f, latest[f], db) \in FireRows
             /\ RefreshedSays(Refreshed(f, latest[f], db), f, db)
             /\ Refreshed(f, latest[f], db).places =
                    db.fire[f].places \cup UNION {Locations(p, db) : p \in Evidence(f, db)}
  <2>1. Speaks(latest[f], f, db)
    BY <1>2, <1>4 DEF Speakers, Speaks
  <2> QED BY <2>1, RefreshedMeans
<1>5. fires \in [F -> FireRows] /\ \A f \in rows : fires[f] = Refreshed(f, latest[f], db)
  BY <1>1, <1>4
<1> HIDE DEF fires
<1>6. /\ new \in Good(S)
      /\ new.incident = db.incident /\ new.fire = fires
      /\ Stored(new) = Stored(db)
      /\ \A p \in Stored(db) : /\ SameText(p, new, db)
                               /\ Owner(p, new) = Owner(p, db)
  BY <1>1, <1>3, <1>5, FiresChange
<1>7. Same(new, db)
  BY <1>5, <1>6 DEF Same
<1>8. \A f \in rows : new.fire[f] = Refreshed(f, latest[f], db) /\ f \in F
  BY <1>5, <1>6
<1> HIDE DEF F
<1> QED BY <1>4, <1>6, <1>7, <1>8

LEMMA RefreshSecondMeans ==
    ASSUME NEW S, NEW db \in Good(S), NEW rows \in SUBSET Fires, rows \subseteq DOMAIN db.fire,
           NEW latest \in Speakers(rows, db), NEW new, new = RefreshSecond(rows, latest, db)
    PROVE  /\ new \in Good(S) /\ Same(new, db)
           /\ \A p \in Stored(db) : Owner(p, new) = Owner(p, db)
           /\ \A f \in rows : RefreshedSays(new.fire[f], f, db)
<1> DEFINE F == DOMAIN db.fire
           wide(f) == [Refreshed(f, latest[f], db) EXCEPT !.places = @ \cup {Commune[f]}]
           fires == [f \in F |-> IF f \in rows THEN wide(f) ELSE db.fire[f]]
<1>1. F \in SUBSET Fires /\ db.fire \in [F -> FireRows]
  BY StoreParts DEF Good
<1>2. ASSUME NEW f \in F, f \in rows
      PROVE  wide(f) \in FireRows /\ RefreshedSays(wide(f), f, db)
  <2>1. Speaks(latest[f], f, db)
    BY <1>2 DEF Speakers, Speaks
  <2> QED BY <2>1, RefreshedMeans
<1>3. new = [db EXCEPT !.fire = fires]
  BY DEF RefreshSecond
<1> HIDE DEF wide
<1>4. fires \in [F -> FireRows] /\ \A f \in rows : fires[f] = wide(f)
  BY <1>1, <1>2
<1> HIDE DEF fires
<1>5. /\ new \in Good(S)
      /\ new.incident = db.incident /\ new.fire = fires
      /\ Stored(new) = Stored(db)
      /\ \A p \in Stored(db) : /\ SameText(p, new, db)
                               /\ Owner(p, new) = Owner(p, db)
  BY <1>1, <1>3, <1>4, FiresChange
<1>6. Same(new, db)
  BY <1>4, <1>5 DEF Same
<1>7. \A f \in rows : new.fire[f] = wide(f) /\ f \in F
  BY <1>4, <1>5
<1> HIDE DEF F
<1> QED BY <1>2, <1>5, <1>6, <1>7

(* What is hidden last is every incident without a publication.             *)
ShownAreTold(db) ==
    \A i \in DOMAIN db.incident :
        ~db.incident[i].hidden => \E p \in Stored(db) : Owner(p, db) = i

LEMMA HideEmptyMeans ==
    ASSUME NEW S, NEW db \in Good(S), NEW new, new = HideEmpty(db)
    PROVE  /\ new \in Good(S) /\ Same(new, db) /\ new.fire = db.fire
           /\ \A p \in Stored(db) : Owner(p, new) = Owner(p, db)
           /\ ShownAreTold(new)
<1> DEFINE N == Len(db.incident)
           empty(i) == \A p \in Stored(db) : Owner(p, db) # i
           inc == [i \in DOMAIN db.incident |->
                     IF empty(i) THEN [db.incident[i] EXCEPT !.hidden = TRUE]
                     ELSE db.incident[i]]
<1>1. /\ db.incident \in Seq(IncidentRows) /\ N \in Nat
      /\ DOMAIN db.incident = 1..N
  <2>1. db.incident \in Seq(IncidentRows) /\ DOMAIN db.incident = 1..N
    BY StoreParts, Distinct DEF Good
  <2> QED BY <2>1, LenProperties
<1>2. new = [db EXCEPT !.incident = inc]
  BY DEF HideEmpty
<1>3. ASSUME NEW i \in 1..N
      PROVE  /\ inc[i] \in IncidentRows
             /\ inc[i].founder = db.incident[i].founder
             /\ empty(i) => inc[i].hidden
  <2>1. db.incident[i] \in IncidentRows
    BY <1>1
  <2>2. inc[i] = IF empty(i) THEN [db.incident[i] EXCEPT !.hidden = TRUE] ELSE db.incident[i]
    BY <1>1
  <2> HIDE DEF inc, empty
  <2> QED BY <2>1, <2>2 DEF IncidentRows
<1> HIDE DEF empty
<1>4. inc \in [1..N -> IncidentRows]
  BY <1>1, <1>3
<1>5. inc \in Seq(IncidentRows) /\ DOMAIN inc = 1..N /\ Len(inc) = N
  <2> HIDE DEF inc, N
  <2>1. inc \in Seq(IncidentRows)
    BY <1>1, <1>4, SeqDef
  <2> QED BY <1>1, <1>4, <2>1, LenProperties
<1> HIDE DEF inc
<1>6. /\ new \in Good(S) /\ new.publication = db.publication
      /\ new.incident = inc /\ new.fire = db.fire /\ Stored(new) = Stored(db)
  <2>1. DOMAIN db.incident \subseteq DOMAIN inc
    BY <1>1, <1>5
  <2>2. \A i \in DOMAIN db.incident : inc[i].founder = db.incident[i].founder
    BY <1>1, <1>3
  <2>3. OnePerPage(inc)
    BY <1>1, <1>5, <2>2 DEF Good, Sound, OnePerPage
  <2> QED BY <1>2, <1>5, <2>1, <2>2, <2>3, IncidentsChange
<1>7. \A p \in Stored(db) : Owner(p, new) = Owner(p, db) /\ SameText(p, new, db)
  BY <1>6 DEF Owner, SameText, Locations, Area, Published
<1>8. ShownAreTold(new)
  <2> SUFFICES ASSUME NEW i \in 1..N, ~inc[i].hidden
               PROVE  \E p \in Stored(new) : Owner(p, new) = i
    BY <1>5, <1>6 DEF ShownAreTold
  <2>1. ~empty(i)
    BY <1>3
  <2> QED BY <1>6, <1>7, <2>1 DEF empty
<1> QED BY <1>5, <1>6, <1>7, <1>8 DEF Same

(***************************************************************************)
(* What holds once the stages are through                                  *)
(***************************************************************************)

(* The evidence there is for a link, and whether the points are enough.     *)
LEMMA MatchMeans ==
    ASSUME NEW p, NEW f, NEW db, IsFireMatch(p, f, db)
    PROVE  \/ IsAbout(p, f, db)
           \/ Hashtags[p] \cap db.fire[f].tags # {}
           \/ Locations(p, db) \cap db.fire[f].places # {}
<1> SUFFICES ASSUME ~SharesTag(p, f, db), ~SharesPlace(p, f, db), ~NamesCommune(p, f, db),
                    Proximity(p, f, db) # "inside"
             PROVE  IsAbout(p, f, db)
  BY DEF IsFireMatch, IsAbout, Named, SharesTag, SharesPlace, NamesCommune
<1>1. /\ InTime(p, f, db)
      /\ \/ Proximity(p, f, db) = "near"
         \/ Hashtags[p] # {} /\ (SpellsCommune(p, f, db) \/ Proximity(p, f, db) = "around")
  BY DEF IsFireMatch
<1>2. \/ TimeApart(p, f, db) <= Close
      \/ <<p, f>> \in Provinces
      \/ SpellsCommune(p, f, db) /\ Proximity(p, f, db) \in {"near", "around"}
  BY DEF IsFireMatch, Points, TimePoints, Score
<1> QED BY <1>1, <1>2 DEF IsAbout, SpellsCommune

(* A publication that names the place matches.                              *)
LEMMA NamedMatch ==
    ASSUME NEW p, NEW f, NEW db, Named(p, f, db)
    PROVE  IsFireMatch(p, f, db)
<1>1. Points(p, f, db) >= 60
  BY DEF Points, Score, TimePoints, Named, NamesCommune
<1> QED BY <1>1 DEF IsFireMatch, Named, NamesCommune

(* The fires have neither hashtags nor places.                              *)
Cleared(rows, db) == \A f \in rows : db.fire[f].tags = {} /\ db.fire[f].places = {}

(* The properties of this module, of any tables, day and rejected ones.     *)
Held(f, db, out) == {p \in Stored(db) \ out : Owner(p, db) = f}

AssignableIn(db, day, out) ==
    {p \in Stored(db) \ (out \cup Summaries) :
        p \in Wildfires /\ Published(p, db) >= day - Window}

Ground(p, q, f, db) ==
    /\ IsAbout(q, f, db)
    /\ \/ q = p
       \/ Hashtags[p] \cap Hashtags[q] # {}
       \/ Locations(p, db) \cap Locations(q, db) # {}

GroundedIn(db, day, out) ==
    \A f \in RecentFires(db, day) : \A p \in Held(f, db, out) :
        \E q \in AssignableIn(db, day, out) : Ground(p, q, f, db)

LinkedIn(db, day, out) ==
    \A p \in AssignableIn(db, day, out) :
        (\E f \in RecentFires(db, day) : Named(p, f, db))
            => Owner(p, db) \in RecentFires(db, day)

TellsOf(row, ps, out, db) ==
    LET last == {p \in ps : \A q \in ps : Published(q, db) <= Published(p, db)}
    IN /\ ps \cap out = {}
       /\ ps = {} => row.told = Nothing /\ row.status = "reported"
       /\ ps # {} => /\ row.told \in last
                     /\ row.status = IF row.told \in Endings THEN "controlled" ELSE "active"

KnownIn(db, day, out) ==
    \A f \in RecentFires(db, day) :
        TellsOf(db.fire[f], {p \in Stored(db) : Owner(p, db) = f}, out, db)

Settled(db, day, out) ==
    GroundedIn(db, day, out) /\ LinkedIn(db, day, out) /\ KnownIn(db, day, out)
        /\ ShownAreTold(db)

(* A publication has a fire after the first pass because it is about it.    *)
FirstLinks(rows, day, old, new) ==
    \A p \in Stored(old) :
        Owner(p, new) \in rows =>
            p \in Assignable(old, day) /\ IsAbout(p, Owner(p, new), old)

LEMMA FirstPassLinks ==
    ASSUME NEW S, NEW old \in Good(S), NEW day, NEW rows \in SUBSET Fires,
           NEW list \in Lists(rows),
           \A p \in Stored(old) : Owner(p, old) \notin rows,
           Cleared(rows, old),
           NEW new, new = AssignFirst(list, day, old)
    PROVE  FirstLinks(rows, day, old, new)
<1> SUFFICES ASSUME NEW p \in Stored(old), Owner(p, new) \in rows
             PROVE  p \in Assignable(old, day) /\ IsAbout(p, Owner(p, new), old)
  BY DEF FirstLinks
<1>1. p \in Assignable(old, day) /\ Owner(p, new) = BestFire(p, list, old)
  <2>1. Owner(p, new) = IF p \in Assignable(old, day) /\ Owner(p, old) = Nothing
                        THEN BestFire(p, list, old) ELSE Owner(p, old)
    <3>1. AssignedFirst(S, new, list, day, old)
      BY AssignFirstMeans
    <3> QED BY <3>1 DEF AssignedFirst
  <2> QED BY <2>1
<1>2. IsBest(Owner(p, new), p, list, old)
  BY <1>1, BestFireIsBest
<1>3. IsFireMatch(p, Owner(p, new), old)
  <2>1. Nothing \notin rows
    BY NothingAssumption
  <2> QED BY <1>2, <2>1 DEF IsBest
<1>4. IsAbout(p, Owner(p, new), old)
  BY <1>3, MatchMeans DEF Cleared
<1> QED BY <1>1, <1>4

(* After the second pass the fires have publications that are about them,   *)
(* and others that share a hashtag or a place with one that is.             *)
SecondLinks(rows, day, old, new) ==
    \A p \in Stored(old) :
        /\ Owner(p, new) \in rows =>
              /\ p \in Assignable(old, day)
              /\ \E q \in Assignable(old, day) : Ground(p, q, Owner(p, new), old)
        /\ p \in Assignable(old, day) /\ (\E f \in rows : Named(p, f, old))
              => Owner(p, new) \in rows

(* What is told of a publication does not depend on who has it.             *)
LEMMA AboutSame ==
    ASSUME NEW p, NEW f, NEW new, NEW old, SameText(p, new, old)
    PROVE  /\ Named(p, f, new) <=> Named(p, f, old)
           /\ IsAbout(p, f, new) <=> IsAbout(p, f, old)
BY DEF SameText, IsAbout, Named, InTime, TimeApart, Proximity

LEMMA SecondPassLinks ==
    ASSUME NEW S, NEW old \in Good(S), NEW day, NEW rows \in SUBSET Fires,
           NEW list \in Lists(rows), rows \subseteq DOMAIN old.fire,
           \A p \in Stored(old) : Owner(p, old) \notin rows,
           Cleared(rows, old),
           NEW mid, mid = AssignFirst(list, day, old),
           NEW seen, seen = RefreshFirst(rows, mid),
           NEW new, new = AssignSecond(list, day, seen)
    PROVE  SecondLinks(rows, day, old, new)
<1>1. /\ mid \in Good(S) /\ Same(mid, old) /\ mid.fire = old.fire
      /\ FirstLinks(rows, day, old, mid)
  <2>1. mid \in Good(S) /\ Same(mid, old) /\ mid.fire = old.fire
    <3>1. AssignedFirst(S, mid, list, day, old)
      BY AssignFirstMeans
    <3> QED BY <3>1 DEF AssignedFirst
  <2>2. FirstLinks(rows, day, old, mid)
    BY FirstPassLinks
  <2> QED BY <2>1, <2>2
<1>2. /\ seen \in Good(S) /\ Same(seen, mid)
      /\ \A p \in Stored(mid) : Owner(p, seen) = Owner(p, mid)
      /\ \A f \in rows :
            /\ RefreshedSays(seen.fire[f], f, mid)
            /\ seen.fire[f].places = mid.fire[f].places \cup
                                        UNION {Locations(p, mid) : p \in Evidence(f, mid)}
  BY <1>1, RefreshFirstMeans DEF Same
<1>3. ASSUME NEW f \in rows
      PROVE  /\ seen.fire[f].tags = UNION {Hashtags[p] : p \in Evidence(f, mid)}
             /\ seen.fire[f].places = UNION {Locations(p, mid) : p \in Evidence(f, mid)}
  BY <1>1, <1>2 DEF RefreshedSays, Says, Cleared
<1>4. \A p \in Stored(old) : /\ SameText(p, seen, old) /\ SameText(p, mid, old)
                             /\ Locations(p, seen) = Locations(p, old)
                             /\ Locations(p, mid) = Locations(p, old)
  BY <1>1, <1>2 DEF Same, SameText
<1>5. /\ Stored(seen) = Stored(old) /\ Stored(mid) = Stored(old)
      /\ Assignable(seen, day) = Assignable(old, day)
  BY <1>1, <1>2 DEF Same, SameText, Assignable
<1>6. ASSUME NEW p \in Stored(old)
      PROVE  Owner(p, new) = IF p \in Assignable(old, day)
                             THEN SecondChoice(p, list, seen) ELSE Owner(p, mid)
  BY <1>2, <1>5, AssignSecondMeans
<1>7. \A p : IsBest(BestFire(p, list, seen), p, list, seen)
  BY BestFireIsBest
<1>8. Nothing \notin rows /\ DOMAIN list = rows
  BY NothingAssumption DEF Lists
<1>9. ASSUME NEW p \in Stored(old), Owner(p, new) \in rows
      PROVE  /\ p \in Assignable(old, day)
             /\ \E q \in Assignable(old, day) : Ground(p, q, Owner(p, new), old)
  <2> DEFINE f == Owner(p, new)
  <2>1. p \in Assignable(old, day)
    BY <1>1, <1>6, <1>9 DEF FirstLinks
  <2>2. f = BestFire(p, list, seen)
    <3>1. f = SecondChoice(p, list, seen)
      BY <1>6, <2>1
    <3>2. CASE BestFire(p, list, seen) # Nothing
      BY <3>1, <3>2 DEF SecondChoice
    <3>3. CASE BestFire(p, list, seen) = Nothing
      <4>1. f = Owner(p, seen) /\ Owner(p, seen) \notin Fires
        BY <1>8, <1>9, <3>1, <3>3 DEF SecondChoice
      <4> QED BY <1>9, <4>1
    <3> QED BY <3>2, <3>3
  <2>3. IsFireMatch(p, f, seen)
    BY <1>7, <1>8, <1>9, <2>2 DEF IsBest
  <2>4. CASE IsAbout(p, f, seen)
    <3>1. IsAbout(p, f, old)
      BY <1>4, <2>4, AboutSame
    <3> QED BY <2>1, <3>1 DEF Ground
  <2>5. ASSUME NEW q \in Evidence(f, mid),
               \/ Hashtags[p] \cap Hashtags[q] # {}
               \/ Locations(p, old) \cap Locations(q, old) # {}
        PROVE  \E h \in Assignable(old, day) : Ground(p, h, f, old)
    <3>1. q \in Stored(old) /\ Owner(q, mid) = f
      BY <1>5 DEF Evidence
    <3>2. q \in Assignable(old, day) /\ IsAbout(q, f, old)
      BY <1>1, <1>9, <3>1 DEF FirstLinks
    <3>3. Ground(p, q, f, old)
      BY <2>5, <3>2 DEF Ground
    <3> QED BY <3>2, <3>3
  <2>6. CASE Hashtags[p] \cap seen.fire[f].tags # {}
    <3>1. PICK q \in Evidence(f, mid) : Hashtags[p] \cap Hashtags[q] # {}
      BY <1>3, <1>9, <2>6
    <3> QED BY <2>1, <2>5, <3>1
  <2>7. CASE Locations(p, seen) \cap seen.fire[f].places # {}
    <3>1. PICK q \in Evidence(f, mid) : Locations(p, old) \cap Locations(q, mid) # {}
      BY <1>3, <1>4, <1>9, <2>7
    <3>2. Locations(q, mid) = Locations(q, old)
      BY <1>4, <1>5 DEF Evidence
    <3> QED BY <2>1, <2>5, <3>1, <3>2
  <2> HIDE DEF f
  <2> QED BY <2>3, <2>4, <2>6, <2>7, MatchMeans
<1>10. ASSUME NEW p \in Stored(old), p \in Assignable(old, day),
              NEW f \in rows, Named(p, f, old)
       PROVE  Owner(p, new) \in rows
  <2>1. Named(p, f, seen)
    BY <1>4, <1>10, AboutSame
  <2>2. IsFireMatch(p, f, seen)
    BY <2>1, NamedMatch
  <2>3. BestFire(p, list, seen) \in rows
    BY <1>7, <1>8, <2>2 DEF IsBest
  <2> QED BY <1>6, <1>8, <1>10, <2>3 DEF SecondChoice
<1> QED BY <1>9, <1>10 DEF SecondLinks

(* What the second pass leaves is what a reconciliation ends with, but for  *)
(* what fires say and what is hidden.                                       *)
LEMMA SettledAfterPasses ==
    ASSUME NEW S, NEW day, NEW rows \in SUBSET Fires,
           NEW old \in Good(S), NEW linked \in Good(S), NEW new \in Good(S),
           Same(linked, old), Same(new, linked),
           SecondLinks(rows, day, old, linked),
           rows = RecentFires(new, day),
           \A p \in Stored(linked) : Owner(p, new) = Owner(p, linked),
           \A f \in rows : RefreshedSays(new.fire[f], f, linked)
    PROVE  /\ GroundedIn(new, day, rejected)
           /\ LinkedIn(new, day, rejected)
           /\ KnownIn(new, day, rejected)
<1>1. /\ Stored(linked) = Stored(old) /\ Stored(new) = Stored(old)
      /\ \A p \in Stored(old) : /\ Owner(p, new) = Owner(p, linked)
                                /\ SameText(p, new, old) /\ SameText(p, new, linked)
                                /\ Locations(p, new) = Locations(p, old)
  BY DEF Same, SameText
<1>2. Assignable(old, day) = AssignableIn(new, day, rejected)
  BY <1>1 DEF Assignable, AssignableIn, SameText
<1>3. ASSUME NEW p \in Stored(old)
      PROVE  /\ Owner(p, new) \in rows =>
                   /\ p \in Assignable(old, day)
                   /\ \E q \in Assignable(old, day) : Ground(p, q, Owner(p, new), old)
             /\ p \in Assignable(old, day) /\ (\E f \in rows : Named(p, f, old))
                   => Owner(p, new) \in rows
  BY <1>1 DEF SecondLinks
<1>4. ASSUME NEW p \in Stored(old), NEW f
      PROVE  /\ Named(p, f, new) <=> Named(p, f, old)
             /\ IsAbout(p, f, new) <=> IsAbout(p, f, old)
  BY <1>1, AboutSame
<1>5. GroundedIn(new, day, rejected)
  <2> SUFFICES ASSUME NEW f \in rows, NEW p \in Held(f, new, rejected)
               PROVE  \E q \in AssignableIn(new, day, rejected) : Ground(p, q, f, new)
    BY DEF GroundedIn
  <2>1. p \in Stored(old) /\ Owner(p, new) = f
    BY <1>1 DEF Held
  <2>2. PICK q \in Assignable(old, day) : Ground(p, q, f, old)
    BY <1>3, <2>1
  <2>3. q \in Stored(old)
    BY DEF Assignable
  <2>4. Ground(p, q, f, new)
    BY <1>1, <1>4, <2>1, <2>2, <2>3 DEF Ground
  <2> QED BY <1>2, <2>4
<1>6. LinkedIn(new, day, rejected)
  <2> SUFFICES ASSUME NEW p \in AssignableIn(new, day, rejected),
                      NEW f \in rows, Named(p, f, new)
               PROVE  Owner(p, new) \in rows
    BY DEF LinkedIn
  <2>1. p \in Assignable(old, day) /\ p \in Stored(old)
    BY <1>2 DEF Assignable
  <2>2. Named(p, f, old)
    BY <1>4, <2>1
  <2> QED BY <1>3, <2>1, <2>2
<1>7. KnownIn(new, day, rejected)
  <2> SUFFICES ASSUME NEW f \in rows
               PROVE  TellsOf(new.fire[f], {p \in Stored(new) : Owner(p, new) = f},
                              rejected, new)
    BY DEF KnownIn
  <2> DEFINE ps == {p \in Stored(new) : Owner(p, new) = f}
             last == {p \in ps : \A q \in ps : Published(q, new) <= Published(p, new)}
             row == new.fire[f]
  <2>1. ps \cap rejected = {}
    <3>1. ps \subseteq Assignable(old, day)
      BY <1>1, <1>3
    <3> QED BY <1>1, <3>1 DEF Assignable
  <2>2. ps = Evidence(f, linked)
    <3>1. \A p \in Stored(old) : Owner(p, new) = f => p \notin rejected
      BY <1>1, <2>1
    <3> QED BY <1>1, <3>1 DEF Evidence
  <2>3. LatestOf(ps, linked) = last
    <3>1. \A p \in ps : Published(p, new) = Published(p, linked)
      BY <1>1 DEF SameText
    <3> HIDE DEF ps
    <3> QED BY <3>1 DEF LatestOf
  <2>4. /\ ps = {} => row.told = Nothing /\ row.status = "reported"
        /\ ps # {} => row.told \in last /\ row.status = StatusToldBy(row.told)
    <3>1. Says(row, linked.fire[f], ps, last, UNION {Hashtags[p] : p \in ps},
               UNION {Locations(p, linked) : p \in ps}, f)
      BY <2>2, <2>3 DEF RefreshedSays
    <3> HIDE DEF row, ps, last
    <3> QED BY <3>1 DEF Says
  <2> HIDE DEF row
  <2>5. ps # {} => row.status = IF row.told \in Endings THEN "controlled" ELSE "active"
    BY <2>4 DEF StatusToldBy
  <2> QED BY <2>1, <2>4, <2>5 DEF TellsOf, row
<1> QED BY <1>5, <1>6, <1>7

(* Whatever a reconciliation finds, it leaves everything settled.           *)
LEMMA ReconciledMeans ==
    ASSUME NEW S, NEW db \in Good(S), NEW day, NEW new \in Reconciled(day, db)
    PROVE  /\ new \in Good(S)
           /\ Len(new.incident) = Len(db.incident)
           /\ Settled(new, day, rejected)
<1> DEFINE rows == RecentFires(db, day)
           reset == Reset(rows, db)
<1>1. rows \in SUBSET Fires /\ rows \subseteq DOMAIN db.fire
  <2>1. DOMAIN db.fire \subseteq Fires
    BY StoreParts DEF Good
  <2> QED BY <2>1 DEF RecentFires
<1>2. PICK end \in Linked(rows, day, db) :
          \E latest \in Speakers(rows, end) : new = HideEmpty(RefreshSecond(rows, latest, end))
  BY DEF Reconciled
<1>2a. PICK latest \in Speakers(rows, end) : new = HideEmpty(RefreshSecond(rows, latest, end))
  BY <1>2
<1>2b. PICK list \in Lists(rows) :
          end = AssignSecond(list, day, RefreshFirst(rows, AssignFirst(list, day, reset)))
  BY DEF Linked
<1> DEFINE mid == AssignFirst(list, day, reset)
           seen == RefreshFirst(rows, mid)
           linked == AssignSecond(list, day, seen)
           told == RefreshSecond(rows, latest, linked)
<1>3. /\ reset \in Good(S) /\ Same(reset, db)
      /\ \A p \in Stored(reset) : Owner(p, reset) \notin rows
      /\ Cleared(rows, reset)
  <2> HIDE DEF rows
  <2> QED BY <1>1, ResetMeans DEF Same, Cleared
<1>4. rows = RecentFires(reset, day) /\ rows \subseteq DOMAIN reset.fire
  BY <1>3 DEF RecentFires, Same
<1>5. new = HideEmpty(told) /\ latest \in Speakers(rows, linked)
  BY <1>2a, <1>2b
<1> HIDE DEF rows, reset
<1>6. mid \in Good(S) /\ Same(mid, reset)
  <2>1. AssignedFirst(S, mid, list, day, reset)
    BY <1>1, <1>3, AssignFirstMeans
  <2> QED BY <2>1 DEF AssignedFirst
<1>7. SecondLinks(rows, day, reset, linked)
  BY <1>1, <1>3, <1>4, SecondPassLinks
<1>8. seen \in Good(S) /\ Same(seen, mid)
  <2>1. rows \subseteq DOMAIN mid.fire
    BY <1>4, <1>6 DEF Same
  <2> HIDE DEF mid
  <2> QED BY <1>1, <1>6, <2>1, RefreshFirstMeans
<1>9. linked \in Good(S) /\ Same(linked, seen)
  <2> HIDE DEF seen
  <2> QED BY <1>1, <1>8, AssignSecondMeans
<1>10. /\ told \in Good(S) /\ Same(told, linked)
       /\ \A p \in Stored(linked) : Owner(p, told) = Owner(p, linked)
       /\ \A f \in rows : RefreshedSays(told.fire[f], f, linked)
  <2>1. rows \subseteq DOMAIN linked.fire
    BY <1>4, <1>6, <1>8, <1>9 DEF Same
  <2> HIDE DEF linked
  <2> QED BY <1>1, <1>5, <1>9, <2>1, RefreshSecondMeans
<1> HIDE DEF mid, seen, linked, told
<1>11. /\ new \in Good(S) /\ Same(new, told) /\ new.fire = told.fire
       /\ \A p \in Stored(told) : Owner(p, new) = Owner(p, told)
       /\ ShownAreTold(new)
  BY <1>5, <1>10, HideEmptyMeans
<1>12. /\ Same(linked, reset) /\ Same(new, linked) /\ Same(new, db)
  BY <1>3, <1>6, <1>8, <1>9, <1>10, <1>11 DEF Same, SameText
<1>13. /\ \A p \in Stored(linked) : Owner(p, new) = Owner(p, linked)
       /\ \A f \in rows : RefreshedSays(new.fire[f], f, linked)
       /\ rows = RecentFires(new, day)
  <2>1. \A p \in Stored(linked) : Owner(p, new) = Owner(p, linked)
    BY <1>10, <1>11 DEF Same
  <2>2. rows = RecentFires(new, day)
    BY <1>4, <1>12 DEF Same, RecentFires
  <2> QED BY <1>10, <1>11, <2>1, <2>2
<1>14. /\ GroundedIn(new, day, rejected)
       /\ LinkedIn(new, day, rejected)
       /\ KnownIn(new, day, rejected)
  BY <1>1, <1>3, <1>7, <1>9, <1>11, <1>12, <1>13, SettledAfterPasses
<1> QED BY <1>11, <1>12, <1>14 DEF Settled, Same

(***************************************************************************)
(* The specification                                                       *)
(***************************************************************************)

(* What every state satisfies: sound tables that have what was rejected,    *)
(* settled if nothing happened since the last run.                          *)
Fine(db, day, out, done) ==
    /\ db \in Good(out)
    /\ Len(db.incident) <= MaxIncidents
    /\ day \in Days
    /\ done \in BOOLEAN
    /\ done = TRUE => Settled(db, day, out)

IInv == Fine(Store, today, rejected, settled)

(* A run that commits what a reconciliation ends with leaves such a state.  *)
LEMMA RunIsFine ==
    ASSUME today \in Days, NEW db \in Good(rejected), Len(db.incident) <= MaxIncidents,
           NEW done \in Reconciled(today, db), Becomes(done),
           settled' = TRUE, UNCHANGED <<today, rejected>>
    PROVE  Fine(Store, today, rejected, settled)'
<1>1. /\ done \in Good(rejected) /\ Len(done.incident) = Len(db.incident)
      /\ Settled(done, today, rejected)
  BY ReconciledMeans
<1>2. done = Tables(done.publication, done.incident, done.fire)
  BY <1>1, StoreParts DEF Good
<1>3. Store' = done
  BY <1>2 DEF Store, Becomes, Tables
<1>4. Fine(done, today, rejected, TRUE)
  BY <1>1 DEF Fine
<1>5. today' = today /\ rejected' = rejected /\ settled' = TRUE
  OBVIOUS
<1> QED BY <1>3, <1>4, <1>5

(* Nothing is known at first.                                               *)
LEMMA InitIsFine == Init => IInv
<1> SUFFICES ASSUME Init PROVE Fine(Store, today, rejected, settled)
  BY DEF IInv
<1>1. /\ today = 0 /\ rejected = {} /\ settled = TRUE
      /\ publication = NoRows /\ incident = <<>> /\ fire = NoRows
  BY DEF Init
<1>2. Store = Tables(NoRows, <<>>, NoRows)
  BY <1>1 DEF Store, Tables
<1>3. NoRows \in [{} -> PublicationRows] /\ NoRows \in [{} -> FireRows]
  BY DEF NoRows
<1>4. <<>> \in Seq(IncidentRows) /\ Len(<<>>) = 0 /\ DOMAIN <<>> = {}
  OBVIOUS
<1>5. Consists(Store, {}, NoRows, <<>>, NoRows)
  <2>1. {} \in SUBSET Publications /\ {} \in SUBSET Fires
    OBVIOUS
  <2> QED BY <1>2, <1>3, <1>4, <2>1, StoreMade
<1>6. /\ Store \in Stores /\ Stored(Store) = {} /\ Store.incident = <<>>
      /\ DOMAIN Store.fire = {}
  BY <1>3, <1>5 DEF Consists
<1>7. Store \in Good(rejected)
  <2>1. OnePerPage(Store.incident)
    BY <1>6 DEF OnePerPage
  <2>2. Sound(Store)
    BY <1>6, <2>1 DEF Sound
  <2> QED BY <1>1, <1>6, <2>2 DEF Good
<1>8. Settled(Store, today, rejected)
  <2>1. RecentFires(Store, today) = {}
    BY <1>6 DEF RecentFires
  <2>2. AssignableIn(Store, today, rejected) = {}
    BY <1>6 DEF AssignableIn
  <2>3. ShownAreTold(Store)
    BY <1>4, <1>6 DEF ShownAreTold
  <2> QED BY <2>1, <2>2, <2>3 DEF Settled, GroundedIn, LinkedIn, KnownIn
<1>9. today \in Days /\ Len(Store.incident) <= MaxIncidents
  BY <1>1, <1>4, <1>6, NumbersAssumption DEF Days
<1> QED BY <1>1, <1>7, <1>8, <1>9 DEF Fine

(* A review, or a day that passes, leaves the tables as they are.           *)
LEMMA UnsettledIsFine ==
    ASSUME IInv, UNCHANGED <<publication, incident, fire>>, settled' = FALSE,
           today' \in Days, rejected' \subseteq DOMAIN publication
    PROVE  IInv'
<1>1. Store \in Good(rejected) /\ Len(Store.incident) <= MaxIncidents
  BY DEF IInv, Fine
<1>2. Store' = Store
  BY DEF Store
<1>3. Store \in Good(rejected')
  BY <1>1 DEF Good, Stored, Store
<1>4. Fine(Store, today', rejected', FALSE)
  BY <1>1, <1>3 DEF Fine
<1>5. Fine(Store', today', rejected', settled')
  BY <1>2, <1>4
<1> QED BY <1>5 DEF IInv

LEMMA StepIsFine == IInv /\ [Next]_vars => IInv'
<1> SUFFICES ASSUME IInv, [Next]_vars PROVE IInv'
  OBVIOUS
<1>1. /\ Store \in Good(rejected) /\ Len(Store.incident) <= MaxIncidents
      /\ today \in Days /\ rejected \subseteq DOMAIN publication
  BY DEF IInv, Fine, Good, Stored, Store
<1>2. CASE OsintRun
  <2>1. PICK db \in Ingestions : /\ Len(db.incident) <= MaxIncidents
                                 /\ \E done \in Reconciled(today, db) : Becomes(done)
    BY <1>2 DEF OsintRun
  <2>2. PICK feed \in Feeds : \E first \in 1..(Len(feed) + 1) :
                                  db \in Ingested(feed, first, today, Store)
    BY DEF Ingestions
  <2>3. db \in Good(rejected)
    <3>1. feed \in Seq(Publications)
      BY FeedsAreSequences
    <3>2. PICK first \in 1..(Len(feed) + 1) : db \in Ingested(feed, first, today, Store)
      BY <2>2
    <3> QED BY <1>1, <3>1, <3>2, IngestedKept
  <2>4. PICK done \in Reconciled(today, db) : Becomes(done)
    BY <2>1
  <2>5. settled' = TRUE /\ UNCHANGED <<today, rejected>>
    BY <1>2 DEF OsintRun
  <2>6. Fine(Store, today, rejected, settled)'
    BY <1>1, <2>1, <2>3, <2>4, <2>5, RunIsFine
  <2> QED BY <2>6 DEF IInv
<1>3. CASE EffisRun
  <2>1. PICK news \in SUBSET {f \in Fires \ DOMAIN fire : Observed[f] <= today} :
            \E done \in Reconciled(today, EffisWrites(news, Store)) : Becomes(done)
    BY <1>3 DEF EffisRun
  <2> DEFINE db == EffisWrites(news, Store)
  <2>2. db \in Good(rejected) /\ Len(db.incident) <= MaxIncidents
    <3>1. news \in SUBSET Fires
      OBVIOUS
    <3>2. db \in Good(rejected) /\ db.incident = Store.incident
      BY <1>1, <3>1, EffisWritesKept
    <3> QED BY <1>1, <3>2
  <2>3. PICK done \in Reconciled(today, db) : Becomes(done)
    BY <2>1
  <2>4. settled' = TRUE /\ UNCHANGED <<today, rejected>>
    BY <1>3 DEF EffisRun
  <2> HIDE DEF db
  <2>5. Fine(Store, today, rejected, settled)'
    BY <1>1, <2>2, <2>3, <2>4, RunIsFine
  <2> QED BY <2>5 DEF IInv
<1>4. CASE Review
  <2>1. PICK p \in DOMAIN publication \cap Reviewed :
            rejected' \in {rejected \cup {p}, rejected \ {p}} \ {rejected}
    BY <1>4 DEF Review
  <2>2. rejected' \subseteq DOMAIN publication
    BY <1>1, <2>1
  <2>3. today' \in Days /\ settled' = FALSE /\ UNCHANGED <<publication, incident, fire>>
    BY <1>1, <1>4 DEF Review
  <2> QED BY <2>2, <2>3, UnsettledIsFine
<1>5. CASE Tick
  <2>1. today' \in Days
    BY <1>1, <1>5, NumbersAssumption DEF Tick, Days
  <2>2. /\ settled' = FALSE /\ UNCHANGED <<publication, incident, fire>>
        /\ rejected' \subseteq DOMAIN publication
    BY <1>1, <1>5 DEF Tick
  <2> QED BY <2>1, <2>2, UnsettledIsFine
<1>6. CASE UNCHANGED vars
  <2>1. /\ Store' = Store
        /\ today' = today /\ rejected' = rejected /\ settled' = settled
    BY <1>6 DEF vars, Store
  <2>2. Fine(Store', today', rejected', settled')
    BY <2>1 DEF IInv
  <2> QED BY <2>2 DEF IInv
<1> QED BY <1>2, <1>3, <1>4, <1>5, <1>6 DEF Next

LEMMA AlwaysFine == Spec => []IInv
BY InitIsFine, StepIsFine, PTL DEF Spec

(* The rows have the types of their columns; a publication belongs to an    *)
(* incident there is, and only publications there are were rejected.        *)
THEOREM TypesCorrect == Spec => []TypeOK
<1>1. IInv => TypeOK
  <2> SUFFICES ASSUME IInv PROVE TypeOK
    OBVIOUS
  <2>1. /\ Store \in Stores /\ Sound(Store) /\ rejected \subseteq DOMAIN publication
        /\ Len(incident) <= MaxIncidents /\ today \in Days /\ settled \in BOOLEAN
    BY DEF IInv, Fine, Good, Stored, Store
  <2>2. /\ Store.publication = publication /\ Store.incident = incident /\ Store.fire = fire
    BY DEF Store
  <2>3. /\ DOMAIN publication \subseteq Publications
        /\ \A p \in DOMAIN publication :
               /\ publication[p].places \subseteq Places /\ publication[p].area \subseteq Areas
               /\ publication[p].published \in Days
        /\ incident \in Seq(IncidentRows)
        /\ DOMAIN fire \subseteq Fires /\ \A f \in DOMAIN fire : fire[f] \in FireRows
    BY <2>1, <2>2, StoreParts DEF Stored, Locations, Area, Published
  <2>4. \A p \in DOMAIN publication :
            publication[p].owner \in DOMAIN incident \cup Fires \cup {Nothing}
    BY <2>1, <2>2 DEF Sound, Stored, Owner
  <2> QED BY <2>1, <2>3, <2>4 DEF TypeOK
<1> QED BY <1>1, AlwaysFine, PTL

(* No link between a publication and a recent fire outlives what grounds    *)
(* it: after a run there is evidence for each that no other link is.        *)
THEOREM LinksCorrect == Spec => []LinksAreGrounded
<1>1. IInv => LinksAreGrounded
  <2> SUFFICES ASSUME IInv, settled, NEW f \in RecentNow, NEW p \in Evidence(f, Store)
               PROVE  \E q \in Assignable(Store, today) :
                          /\ IsAbout(q, f, Store)
                          /\ \/ q = p
                             \/ Hashtags[p] \cap Hashtags[q] # {}
                             \/ publication[p].places \cap publication[q].places # {}
    BY DEF LinksAreGrounded
  <2>1. settled = TRUE
    BY DEF IInv, Fine
  <2>2. GroundedIn(Store, today, rejected)
    BY <2>1 DEF IInv, Fine, Settled
  <2>3. PICK q \in AssignableIn(Store, today, rejected) : Ground(p, q, f, Store)
    BY <2>2 DEF GroundedIn, RecentNow, Evidence, Held
  <2>4. \A r : Locations(r, Store) = publication[r].places
    BY DEF Locations, Store
  <2> QED BY <2>3, <2>4 DEF Assignable, AssignableIn, Ground
<1> QED BY <1>1, AlwaysFine, PTL

(* Whatever a publication belonged to before, once it names the place of a  *)
(* recent fire it belongs to a recent fire.                                 *)
THEOREM NamesCorrect == Spec => []NamedAreLinked
<1>1. IInv => NamedAreLinked
  <2> SUFFICES ASSUME IInv, settled, NEW p \in Assignable(Store, today),
                      NEW f \in RecentNow, Named(p, f, Store)
               PROVE  publication[p].owner \in RecentNow
    BY DEF NamedAreLinked
  <2>1. settled = TRUE
    BY DEF IInv, Fine
  <2>2. LinkedIn(Store, today, rejected)
    BY <2>1 DEF IInv, Fine, Settled
  <2>3. Owner(p, Store) = publication[p].owner
    BY DEF Owner, Store
  <2>4. p \in AssignableIn(Store, today, rejected)
    BY DEF Assignable, AssignableIn
  <2> QED BY <2>2, <2>3, <2>4 DEF LinkedIn, RecentNow
<1> QED BY <1>1, AlwaysFine, PTL

(* A recent fire says what the last publication about it says that nobody   *)
(* rejected, one of the last if there are several, and nothing else.        *)
THEOREM FiresCorrect == Spec => []FiresSayWhatIsKnown
<1>1. IInv => FiresSayWhatIsKnown
  <2> SUFFICES ASSUME IInv, settled, NEW f \in RecentNow
               PROVE  TellsOf(fire[f], {p \in DOMAIN publication : publication[p].owner = f},
                              rejected, Store)
    BY DEF FiresSayWhatIsKnown, TellsOf, Published, Store
  <2>1. settled = TRUE
    BY DEF IInv, Fine
  <2>2. KnownIn(Store, today, rejected)
    BY <2>1 DEF IInv, Fine, Settled
  <2>3. TellsOf(Store.fire[f], {p \in Stored(Store) : Owner(p, Store) = f}, rejected, Store)
    BY <2>2 DEF KnownIn, RecentNow
  <2>4. /\ Store.fire = fire /\ Stored(Store) = DOMAIN publication
        /\ \A p : Owner(p, Store) = publication[p].owner
    BY DEF Store, Stored, Owner
  <2> QED BY <2>3, <2>4
<1> QED BY <1>1, AlwaysFine, PTL

(* No incident that lost its publications is shown.                         *)
THEOREM ShownCorrect == Spec => []ShownIncidentsAreTold
<1>1. IInv => ShownIncidentsAreTold
  <2> SUFFICES ASSUME IInv, settled, NEW i \in DOMAIN incident, ~incident[i].hidden
               PROVE  \E p \in DOMAIN publication : publication[p].owner = i
    BY DEF ShownIncidentsAreTold
  <2>1. settled = TRUE
    BY DEF IInv, Fine
  <2>2. ShownAreTold(Store)
    BY <2>1 DEF IInv, Fine, Settled
  <2>3. /\ Store.incident = incident /\ Stored(Store) = DOMAIN publication
        /\ \A p : Owner(p, Store) = publication[p].owner
    BY DEF Store, Stored, Owner
  <2> QED BY <2>2, <2>3 DEF ShownAreTold
<1> QED BY <1>1, AlwaysFine, PTL

(* The incident of a summary is for all the editions of its page, and for   *)
(* nothing else.                                                            *)
THEOREM SummariesCorrect == Spec => []SummariesStayApart
<1>1. IInv => SummariesStayApart
  <2> SUFFICES ASSUME IInv, NEW p \in Summaries \cap DOMAIN publication
               PROVE  /\ publication[p].owner \in Incidents
                      /\ \A q \in DOMAIN publication :
                            publication[q].owner = publication[p].owner
                                <=> q \in Summaries /\ Page[q] = Page[p]
    BY DEF SummariesStayApart
  <2>1. Store \in Stores /\ Sound(Store) /\ Len(Store.incident) <= MaxIncidents
    BY DEF IInv, Fine, Good
  <2>2. /\ Stored(Store) = DOMAIN publication
        /\ \A q : Owner(q, Store) = publication[q].owner
    BY DEF Store, Stored, Owner
  <2> DEFINE i == Owner(p, Store)
  <2>3. OfPage(i, p, Store) /\ i \in DOMAIN Store.incident
    BY <2>1, <2>2 DEF Sound, OfPage, IsSummary
  <2>4. i \in 1..Len(Store.incident) /\ Len(Store.incident) \in Nat
    <3>1. Store.incident \in Seq(IncidentRows) /\ DOMAIN Store.incident = 1..Len(Store.incident)
      BY <2>1, StoreParts, Distinct
    <3> QED BY <2>3, <3>1, LenProperties
  <2>5. i \in Incidents
    BY <2>1, <2>4, NumbersAssumption DEF Incidents
  <2>6. ASSUME NEW q \in DOMAIN publication, Owner(q, Store) = i
        PROVE  q \in Summaries /\ Page[q] = Page[p]
    <3>1. q \in Summaries
      BY <2>1, <2>2, <2>3, <2>6 DEF Sound, OfPage
    <3>2. OfPage(i, q, Store)
      BY <2>1, <2>2, <2>6, <3>1 DEF Sound
    <3> QED BY <2>3, <3>1, <3>2 DEF OfPage
  <2>7. ASSUME NEW q \in DOMAIN publication, q \in Summaries, Page[q] = Page[p]
        PROVE  Owner(q, Store) = i
    <3>1. OfPage(Owner(q, Store), q, Store)
      BY <2>1, <2>2, <2>7 DEF Sound
    <3>2. OnePerPage(Store.incident)
      BY <2>1 DEF Sound
    <3> QED BY <2>3, <2>7, <3>1, <3>2 DEF OnePerPage, OfPage, IsSummary
  <2> QED BY <2>2, <2>5, <2>6, <2>7
<1> QED BY <1>1, AlwaysFine, PTL
=============================================================================
