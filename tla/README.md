# Verification of Incendis Forestals

TLA+ models of the ingestion side of this platform and of what it serves: what
the connectors, the registries and the reconciliation do to the database when
they overlap, fail, are retried or die, and what the quality pipeline and the
civil API then make of it. The reference is the code under `src/`; paths below
are relative to `apps/api/app/` unless they say otherwise.

## The system

| component | state it keeps | operations | interacts through |
|---|---|---|---|
| Road restrictions: `ingestion/datex.py`, `etraffic.py`, `locks.py` | `restriction_zones`, `road_incidents`, `road_segments` of two sources | DATEX run, eTraffic run, route enrichment | one PostgreSQL advisory lock; an eTraffic run takes DATEX rows down |
| FIRMS: `ingestion/firms.py` | `fire_detections`, run rows | execute, execute_raw (reprocess), record_failure | calls the reconciliation in its transaction |
| EFFIS: `ingestion/effis.py` | `incidents` and `fire_perimeters` of the source | execute, persist, record_failure | calls the reconciliation in its transaction |
| OSINT: `ingestion/osint.py`, review routes | `emergency_publications`, OSINT incidents, `incident_versions`, run rows | execute, ingest, transition of an incident, review | creates and changes incidents; calls the reconciliation |
| Reconciliation: `ingestion/incident_reconciliation.py` | links between perimeters, detections, publications and incidents; `original_metadata` | assign, group, merge, link, refresh, hide | rewrites what EFFIS, FIRMS and OSINT wrote |
| ES-Alert: `ingestion/es_alert.py`, `api/routes/internal_ingestion.py` | `restriction_zones` of the source | sync of a snapshot | authenticated requests of a provider |
| Proteccio Civil, AEMET, AEMET CAP, IGN, OSM connectors | notices, observations, roads, run rows, `data_sources` | the same execute / persist / record_failure skeleton | the unique name of a source; the object store |
| Quality: `services/quality.py` | confidence assessments, observation links, conflicts | run, trace | reads every table; its scores are served by the civil API |
| Civil API: `api/routes/civil.py` | Redis counters and cached bodies | rate limit, cached responses, lists | reads what is in force: `expires_at IS NULL OR expires_at > now()` |
| Workers: `src/workers/` | - | Celery tasks every 1 to 1440 minutes | start the runs above |
| Web client: `src/apps/web/` | view state | requests to the civil API | - |

What is hard here: runs of the same connector may overlap, since a task, its
next beat and a manual endpoint start them independently; each is one long
database transaction with many awaits; only the traffic connectors take a lock;
almost nothing is unique in the schema; failures are handled connector by
connector, with or without a rollback; and late, partial or repeated snapshots
are the normal case. PROJECT.json lists the hazards at the line where each one
bites, with the properties that cover it.

What must hold, per component: road restrictions are those of the last complete
snapshot and never lose a drawn route; FIRMS runs lose no detection and their
run rows tell the truth; an ES-Alert snapshot is applied as a whole; the groups
of perimeters depend on the map alone and nothing is owned by a hidden
incident; a fire's links rest on evidence and its state is that of its last
publication; a run that says it completed stored what it fetched, and one that
failed stored nothing; two runs of a connector do not insert the same thing
twice (most can: nothing is unique); near detections are linked, and confidence
is not gained by ageing; a client is limited per minute and never for ever, and
no cached page outlives the incident it shows for long.

## Modules

| module | models | state ↔ code | actions ↔ code |
|---|---|---|---|
| `TrafficBoard` | what the road ingestion promises readers | `announced`: the last DATEX snapshot; `shown`, `routed`: restrictions in force, and along a road | a whole snapshot replaces the previous one, a drawing improves, an announced end goes by |
| `Traffic` | `datex.py`, `etraffic.py`, `locks.py` | `tables` are the committed rows of the three tables, `work[p]` what the open transaction of run p sees, `lock` the advisory lock; `feed[p]`, `listed[p]`: the DATEX and the eTraffic snapshot run p has fetched; `published`, what the last completed runs had fetched, is an observer | `Acquire`/`Skip` the lock; `FetchDatex`, `FetchEtraffic`, `SelectPending`: fetch and first writes; `Persist...Record`, `RedrawPendingRecord`: one turn of the loop with its awaits; `Commit`, `Fail`, `RecordFailure`, `Lose` |
| `Firms` | `firms.py` | `stored` rows per hash, `ledger` run rows, `added`, `started`, `aborted`: the open transaction; `wrote` is an observer | one action per step of `execute`, `execute_raw`, `persist`, `record_failure` |
| `EsAlertBoard` | what the registry promises | `until`: one end of validity per alert; `offered`: the snapshots under consideration | a snapshot is offered, dropped, or applied as a whole |
| `EsAlert` | `es_alert.py`, the sync endpoint | `zone` rows with primary keys, `writes[p]` the rows a request has written and so locks, `known[p]` what its SELECT returned; `overtaken`, `shared` are observers | `Receive`, `ExpireStale` (UPDATE), `ReadExisting` (SELECT), `WriteAlerts` (flush), `Commit`, `Abort` |
| `Reconciliation` | perimeters and detections in `incident_reconciliation.py`, and the writes of `effis.py` and `firms.py` around it | `perimeter`, `merged` (`original_metadata.merged_into`), `detection`; `job[r]`: the list of perimeters and the EFFIS news in the memory of run r; `settled` is an observer | `BeginX`: the first SELECT of `reconcile_recent`; `FinishX`: `Reset`, `Groupings`, `Merge`, `Links` and the commit; `RollBack`; `FailFirms`: the commit of `record_failure` |
| `Osint` | `osint.py`, the review routes, and publications in `incident_reconciliation.py` | `publication`, `incident`, `fire`, `rejected`; `settled` is an observer | `OsintRun`: `ingest` of each publication, new or seen before (`IngestOne`: `_find_or_create_incident`, the transition), then `Reconciled` (`Score` and `IsFireMatch` are `score_fire_match` and `is_fire_match`); `EffisRun`: the same reconciliation; `Review`; `Tick` |
| `Connectors` | `proteccio_civil.py`, `aemet.py`, `aemet_alerts.py`, `ign.py`, `osm.py`, and the run of `osint.py` | `source`, `stored`, `ledger`: committed rows; `work[p]`: what the fetch has; `txn[p]`: the open transaction; `up`: database and object store; `outage`, `early`, `refused` are observers | one action per step of `execute`, `persist`, `get_or_create_source`, `record_failure`; `Refused`: the database takes a flush or the commit for invalid (a text longer than its column, a NUL, a deadlock); `Kill` (the worker dies), `Switch` (a service goes or comes back) |
| `Quality` | `services/quality.py` | `table` records in insertion order, assessments, links per ordered pair, the stage and task of each execution, an hour clock; `Served`: the confidence the civil API shows, the record's own until it is assessed | `Arrive`, `Wait`; `Begin`, `Assess`, `Group`, `Link`, `FinishRun`: the loops of `run`; `Raise` (two rows where one is expected), `Abort` |
| `Portal` | rate limit, cache and lists of `api/routes/civil.py` | `counter`, `cache`: Redis; `req`: requests in flight; `hidden`; `copy`: what clients keep; `since`, `admitted`, `trouble`, `slowest` are observers | `Admit`/`Refuse` (incr), `Expire`, `Read` (the query), `Serve`/`Miss`, `Store`, `Drop`; `Hide`, `Show`: the reconciliation; `RedisAway`, `RedisBack`, `Tick` |

`MCTraffic`, `MCFirms`, `MCEsAlert`, `MCReconciliation`, `MCOsint`,
`MCConnectors` and `MCServing` (`Quality` and `Portal`, one at a time) give the
constants of small instances; `scenario` in three of them chooses between
instances that would be too large together. `TrafficProofs`, `FirmsProofs`,
`EsAlertProofs`, `ReconciliationProofs`, `OsintProofs`, `ConnectorsProofs` and
`ServingProofs` (`Quality`, `Portal`, and the two side by side) hold the proofs;
`Induction` holds the induction over sequences of steps that two of them use.
Definitions whose names begin with `Fault` are plausible
bugs; each property is violated when one of them takes the place of the code's
operator (PROJECT.json, "mutants").

How a transaction is modelled differs with what decides its correctness. In
`Traffic` the advisory lock does, so a run works on a copy. In `Firms` and
`Connectors` reads of committed rows matter, and in `Connectors` whether a session is still
usable after an error. In `EsAlert` and `Reconciliation` PostgreSQL's row locks
do: an open transaction keeps the rows it wrote, a statement that meets
them waits (its action is not enabled), and then sees what was committed. In
`Reconciliation` all three connectors write incidents that the others write
too, from their first write until they commit, so the writes of a run are one
step, `FinishX`. Its list was read in an earlier step and may be old by then;
an EFFIS run writes all its incidents before it reads, and keeps the others
from writing (`Unlocked`). `Osint` takes a run for one step and looks at
long sequences of runs and reviews instead. In `Quality` what a run read in an
earlier step and what another has committed since are both looked at, record by record.

## Runs

| run | bounds | shows |
|---|---|---|
| `traffic` | scenario "snapshots": two DATEX records, one eTraffic record, one run of each kind; "overlap": two DATEX runs of one record, one of each other kind; "etraffic": two eTraffic records and one DATEX record, one run of each kind; fairness | readers see `TrafficBoard`; the rows of each source in force are those of the snapshot its last completed run fetched; zone, incident and segment agree; a drawn route is never flattened; only completed runs write; the lock is given back; `IInv` |
| `traffic_segments` | two lines per match | **violated**: a failure of the road services takes the second segment down while the zone keeps the route |
| `firms_overlap` | a task of two sources, a CSV, two detections, two attempts, fairness | completed runs lose nothing, run rows tell what a run answered and, when it failed, whether it had begun to write, repetitions come from overlaps only, runs end |
| `esalert` | scenario "serial": two alerts, one request at a time; "overlap": one alert that can be drawn, two requests, two keys; three instants | each snapshot is taken by the board (`EsAlertBoard`) as a whole or not at all, unless another request overtook it; one row per alert, unless two overlapping requests listed it; a complete snapshot ends what it does not list, except what the other committed meanwhile |
| `esalert_mass` | one alert, one request | **violated**: alerts that run but cannot be drawn end all others, without the confirmation |
| `reconciliation` | three fires on three cells, one detection, three days, two transactions open | nothing is owned by the hidden; groups and links follow the map; `merged_into` never goes round |
| `reconciliation_links` | the same | **violated**: a redrawn perimeter keeps detections it no longer covers |
| `reconciliation_repeat` | the same | **violated**: a snapshot that says nothing new shows merged fires of older groups again |
| `osint` | two fires, two publications, one of them undated, and two editions of a page of summaries; two publications in a run, two OSINT incidents, three days, one publication rejected at a time | links rest on evidence; a publication that names a recent fire's place or lies on its perimeter is with a recent fire; fires say what the last publication says, or one of the last; no empty incident is shown; a summary has the editions of its page, and nothing else |
| `osint_shown` | the same | **violated**: a publication that nobody rejected is shown nowhere |
| `connectors` | two overlapping runs of each of six connectors, once each; two items, one in two editions; two attempts; outages of either service, writes refused | run rows tell the truth; a silent end has a cause; what completes is stored and what fails stores nothing; every run ends |
| `serving` | scenarios "quality": five records, two executions; "pages" and "limit": one incident, one list, one client, two requests | near detections are linked, by one row unless runs overlap; the confidence served of an assessed record never rises; no copy shows an incident that has been hidden for longer than two cache times and the slowest page; a client gets its limit in every minute and no more |

Why these bounds are enough. Two records are one that a snapshot mentions and
one it does not; two runs of a kind are the task and the manual endpoint; two
lines are the first segment and the others. Two sources make one that has
answered and one that gives up; two detections make a CSV that holds one of
them. `MaxTime` 3 gives a snapshot from before, an end after it and an instant
after that. In `Reconciliation` three fires on a line are the smallest chain
whose ends are no neighbours; fire 1 may grow over the cell of fire 2 and the
detection, which changes leaders, groups and links. A window of one day in
three makes perimeters leave it. `MaxDay` bounds the days, `MaxOpen` the
transactions open at a time, and `MaxCrowd` the fires there may be when a
run starts beside another: with three fires runs do not overlap, with two they
do, each with each other connector. The pairs of the union-find are taken in
every order.

In `Osint` the publications are chosen to disagree. `p1` names the place of the
one fire, spells that of the other, and brings a geometry of its own within 5 km
of the later fire and 15 km of the first; `p2` has no date, only a hashtag of the
first place, whose boundaries are within 5 km of the later fire too, and the
news that the fire ended; `s1` and `s2` are editions of one page, with different
texts, hashtags and risks. A run is given up to `MaxFeed` of them, in any
order, each again and again in later runs; IGN's list of names may be missing
for the first of them or for all, and the boundaries of any. A reviewer looks at
`p1` (`Reviewed`), on which the links of `p2` rest; no fire ever has a summary. Two
publications of one day have the same time, and either may count as the last.
`Window` and `Reopen` are a day out of three, so that publications and fires
leave both; `Close` is 0, so that some times count twice and some do not.
In
`Connectors` three records are one that is new, one that is known and one that
another edition of a known item makes (`Core`: the digests of AEMET, IGN and OSM
leave fields out); a SELECT may carry one digest (`MaxParameters`) and an IGN
run keep one feature (`Budget`), so that a batch is at its limit and beyond; alerts, IGN
and OSINT make two requests, of which the first may answer and the second not.
In `Quality` of three detections two are near each other, the third is later and
too far from the first, and an execution takes the two newest (`RunLimit`): a
pair may be seen, missed or seen the other way round. In `Portal`
the cache lasts a minute of two ticks, a counter three (the 70 seconds of the
code), and the clock runs two minutes and a half, so that a copy may reach the bound
only by way of a page that was a tick on its way (without the slowest page in
the bound the run is violated); the limit is two and a client asks
at most once more per minute; a page is sent within a tick of its reading.
In `Quality` the records' own confidence lies on either side of their scores.

Abstractions of `Reconciliation`. A fire is an EFFIS record with its perimeter and
incident, since their identifiers derive from one another. The province filter
is left out: all fires are in one. The date of a fire stays the one it was first
observed. EFFIS publishes its whole history, so each run writes every known
incident. One EFFIS run is open at a time (one task a day). Publications appear
as `tagged`, the fires that a hashtag may join. Equal leaders come in any order.

Abstractions of `Osint`. The fires are too far from one another to
be grouped, and a FIRMS run is an OSINT run without publications. What a text
says is given by constants: the events and risks the rules find in title and
text, the municipalities it names, the words it spells, its hashtags, whether
two titles have two words in common. Of a geometry there is what the score
asks for: how far from each perimeter it is. It is what the source gives, or the
boundaries of the locations when IGN answers, and is drawn anew with them
when the publication is seen again. Instants are days.

Abstractions of the others. In `Connectors` a commit whose
acknowledgement is lost counts as failed, the row of a failure, which quotes the
error, is taken for one the database accepts, and `stored` is a set, so that
repetitions by overlapping runs are not counted (`Firms` counts them). In
`Quality` scores are ten-thousandths and never rounded, a record
does not change once inserted, and one is inserted at a time. `Portal` leaves out sorting and paging; detail
routes are not filtered by `hidden` in the code and not modelled.

Fairness. `traffic` and `firms_overlap` assume weak fairness of the steps
of a run that has started (`Step(p)`), never of starting one: the event loop
resumes a coroutine whose await has ended, every HTTP call has a timeout, and a
worker that dies is a step too (`Lose`). No fairness is needed of the feeds: a
call that never answers well ends in a failure. `Connectors` adds strong
fairness of the two steps that wait for the name of a source another
transaction is inserting, since PostgreSQL serves such waiters in turn; with
each run executed once, as in `MCConnectors`, nobody can be overtaken for ever
and weak fairness is enough. Nothing is assumed of `EsAlert`,
`Reconciliation`, `Osint`, `Quality` and `Portal`, which state no liveness: they
wait for requests, tasks and clients that may never come.

## Proofs

TLAPS proves, for every value of the constants that satisfies the named
assumptions (a record has a finite number of lines at least one, runs are of one
kind, there is at least one source, one attempt, one request and one alert,
runs, fires and publications are finitely many, an OSINT incident is no fire,
shapes lie on the map, a counter of the portal lives longer than the minute it
counts, the facts of a record are of their types and its id its own):

- `TrafficProofs`: types, the lock, `SnapshotExact`, `TablesAgree`,
  `EtrafficExact`, `RouteNeverFlattened`, `OnlyCompletedRunsWrite`, and that
  `Traffic` implements `TrafficBoard`. The argument is the invariant `IInv`:
  `SnapshotExact` says what readers see, but a commit installs a copy written
  many steps before, so the invariant says what the copy of a run in its
  transaction looks like for the records it has and has not yet
  persisted (`InFlight`; of an eTraffic run, that the rows in force and the records left
  are the snapshot it fetched), that only the holder of the lock has such a copy
  (`LockOwner`), and that the rows of a restriction are in force together.
- `FirmsProofs`: types, `CompletedRunStored`, `LedgerTruthful` and
  `DuplicatesAreOverlaps`. `IInv` adds `InHand`: what a run that has written
  found is in the table or in its own transaction, and that a run under way has a
  run row in its transaction if and only if it has begun to write, from which `LedgerTruthful` follows. Rows are never deleted, so it
  stays true while others commit. Repetitions are bounded since a run inserts
  only what it found missing: the rows of a detection and the transactions that
  are inserting it together never outnumber the runs.
- `EsAlertProofs`: for any number of overlapping requests. Types and
  `CompleteEndsOthers`: the property is about a commit; the invariant `EInv`
  says of a request from its UPDATE on that the rows its commit would leave are
  ended, save those another request committed meanwhile (`Ending`).
  `OneRowUnlessShared` needs `RInv`: no row is written by two open requests
  (`Locked`), what a request writes stays the row of its alert (`Held`), what
  its SELECT found, or found missing, is still so unless a request that lists
  the alert too has come between (`Looked`), it inserts one row of an alert at
  most (`Inserted`), and alerts in two open requests count as shared (`Listed`). `AppliedAsAWhole` is the
  refinement of `EsAlertBoard`, step by step: `BInv` says of a request nobody
  has overtaken what it has half written (`Half`), that its SELECT is still
  true (`Fresh`) and what it is about to commit (`Full`), so that its commit is
  the board's step and all other steps stutter. With a single request the
  exceptions are empty, and `BoardCorrect` is the whole refinement.
- `ReconciliationProofs`: types and `HiddenOwnsNothing`, which are inductive
  together. Taking merges back shows incidents and hides none; the leader of a
  group leads itself, so that what a group owns goes to an incident that is
  shown; a link goes to a leader. None of this looks at how old the list is, so
  overlaps and half-done runs do no harm. `CoveredIsLinked` rests on the
  two: taking back, merging and linking change who owns what and never the map
  (`SameMap`), so that a run whose list was true links by the perimeters that
  its commit leaves, and the leader a link goes to is a fire.
  `GroupsFollowTheMap` is about what a recursive function, the union-find,
  leaves of all pairs in any order: a set of fires that every pair
  taken lies inside or outside of holds the root of each of its members
  (`Closed`, `Respects`), and the two fires of a pair taken have one root from
  then on. Hence the roots are those of the chains, and a run whose list was
  true leaves them as the owners. `MergesLeadSomewhere`: of
  any set of fires one is merged into nothing of the set. Taking merges back
  leaves fewer links; of the fires a merge touches, the leader is merged into
  nothing; and a set it touches none of is as it was.
- `OsintProofs`: all six invariants of `Osint`, by one inductive invariant,
  `IInv`. Between runs the tables are well typed and `Sound`: a
  publication belongs to nothing, a fire or an incident there is, and the
  incident a summary founded is its own. After a run they are `Settled`, which
  is what the four properties of a settled store say. A run goes through a
  sequence of publications (`Induction`) and then through the stages of
  the reconciliation, each of which says what it gives to whom and what it
  leaves (`Given`, `Same`). The reset empties the hashtags and places of recent
  fires, so that the first pass links by what a publication says and where it lies alone (`Cleared`, `IsAbout`); what
  it links stays with a recent fire in the second pass, because its fire has all of its
  hashtags and places. The other
  links of the second pass share something with a publication of the first.
  Nothing is assumed of the dates: which of several last publications a fire
  quotes is left open, and the properties hold for each.
- `ConnectorsProofs`: types, `RunRowsTellTruth`, `SilentRunsExplained` and
  `RunsStoreWhatTheySay`. A run row tells at its end what was prepared many steps before: `CInv`
  says of every place in the code what fits there, of the session
  (`Sound`), of the rows not yet committed (`Clean`, `Complete`) and of the outages and refused writes that
  excuse a silent end (`Excused`), and of the run rows what they may say (`Rows`).
- `ServingProofs`, of `Quality`: types, `ConfidenceOnlyFades` and `CompletedRunLinks`. The first needs
  that each part of a score falls with age (`ValueFades`) and that an assessment
  was the score of its hour (`ScoresAreTrue`), and says nothing of a record's first
  assessment, which may be above the confidence the record came with; the second that what a run has
  gone through is linked, or will be by its commit (`Handled`), that links only
  go from the earlier detection to the later (`OneWay`), and that until two
  runs overlap no pair has two rows or is about to (`InTurn`). The
  types say more than types: a committed score is of a stored record, of a past
  hour, and within the cap of its provenance (`Recorded`).
- `ServingProofs`, of `Portal`: types, `CopiesFade` and `LimitIsPerMinute`. A hidden incident
  may be in a request in flight, in the cache or in a copy, and each inherits the
  age of the previous (`InFlight`, `InCache`, `InCopies`). A counter counts what was admitted while Redis
  answers (`NeverAhead`, `NeverBehind`) because it outlives its minute (`CountersLast`).
  `ServingTypes` puts the two side by side, as the run does.

Every safety property of a passing run is proved. Only model-checked:
liveness (`LockReleased`, and `RunsEnd` of `Firms` and `Connectors`), since
ENABLED and fairness are out of the prover's reach, and the properties the
code violates. Two things make the proofs of recursion possible without the
library's induction theorems, which take an operator: recursive functions
instead of recursive operators in the models, and induction over a *set* of
numbers, which follows from the least element of a well-founded order
(`NatSetInduction`).

## Where code and documents disagree

The violated runs each check a sentence of a document or a comment; PROJECT.json
quotes them under "findings". Met on the way, without a run of their own:

- `ingestion/datex.py:340` redraws only the first segment of an enriched
  restriction, while `docs/current-state.md:126-127` says zone and segments are updated together;
- `ingestion/datex.py:1075` writes `nap_datex_coordinates` into the metadata of a
  segment that keeps its route when no road service answers, while
  `docs/runbooks/ingestion.md:70` takes that strategy for a straight line;
- two ES-Alert requests that overlap and list the same new alert insert it
  twice (of snapshots that list an alert once only these do, `OneRowUnlessShared`), while
  `docs/architecture/data-flow.md:40` says that locks keep two processes off
  the same source;
- two FIRMS runs that overlap insert the same detection twice, while
  `PlaDimplementacio.md:465` asks that no duplicate be inserted twice
  (`DuplicatesAreOverlaps` says how many there can be);
- a publication within 5 km of a perimeter is linked to its fire if it is not
  more than three days from it, whatever it says
  (`ingestion/incident_reconciliation.py:153-155`, `:165-179`, and the test
  `test_incident_reconciliation.py:206-219`), while
  `docs/integrations/emergency-osint.md:62-64` says that proximity or province
  alone are not enough (`LinksAreGrounded` says what is);
- a run of the connectors may end without any run row (`SilentRunsExplained`
  says when: also when AEMET's, IGN's or OSM's has a write refused, since
  `ingestion/aemet.py:230`, `ign.py:190` and `osm.py:165` do not roll back before they record
  it), while `docs/runbooks/ingestion.md:90` says that it has to end
  `failed` or `partial`;
- `docs/domain/conflict-resolution.md` describes a conflict of two incidents on
  one road segment; each connector gives every incident a segment of its own, so
  that the detector (`services/quality.py:279`) finds none in what they insert.

## Not modelled

The content of feeds, CSV, Shapefile and CAP, geometry beyond which cells are
near, wording of texts, counters and fields no decision depends on. HTTP and the
broker appear as failures of the steps that call them. The geospatial and
prediction workers are placeholders without behaviour. The live aircraft and the
search of municipalities put an external service behind the cache that `Portal`
models. Of EFFIS the run rows, of OSINT the versions of an incident
and two runs that overlap while they ingest. The queue of the route
enrichment is served in any order by `SelectPending`; its order and its
counters of attempts are left out. The web client renders what the civil API
answers; the copy of a page it keeps is in `Portal`. PROJECT.json says it for
each component, and for each hazard no property covers.

## Plan

1. `Traffic`, `TrafficBoard`; 2. `Firms`; 3. `EsAlert`, `EsAlertBoard`: done, with proofs.
4. `Reconciliation`; 5. `Osint`: done, with proofs.
6. `Connectors`, `Quality`, `Portal`: done, with proofs.
7. Left: the queue of the route enrichment (who is served by the batches, and
   whether everybody is in the end: three restrictions, a batch of one, with
   counters of attempts); OSINT and EFFIS runs that overlap with one of their
   own kind; segments by their `external_id` (`ingestion/datex.py:1066`) and the
   two ways to redraw them (`:340`); the order of ES-Alert snapshots
   (`ingestion/es_alert.py:46`).
