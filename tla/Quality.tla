------------------------------- MODULE Quality -------------------------------
(***************************************************************************)
(* The quality pipeline: POST /internal/quality/run scores the newest      *)
(* records of each table, links the detections that are near each other in *)
(* space and time, and commits both at its end.  Nothing keeps two runs    *)
(* apart, and records arrive while a run is under way.  The portal serves  *)
(* the last assessment of each record and, before there is one, the        *)
(* confidence its connector gave it.                                       *)
(*                                                                         *)
(* Times are hours; shares of a score are percents, weighted sums are in   *)
(* ten thousandths.  The rounding of floats is left out.                   *)
(***************************************************************************)
EXTENDS Integers, Sequences, FiniteSetsExt, Functions

CONSTANTS
    Resource,   \* records the connectors may insert
    Facts,      \* what is known of each, see FactsAssumption
    NoTime,     \* a time, or a confidence, that is not given
    RunLimit,   \* records a run takes of each table (limit)
    Reach,      \* max_distance_meters, in units of place
    Apart,      \* max_minutes_apart, in hours
    Executions, \* requests that run the pipeline
    Waits,      \* hours that may pass at once
    MaxHour     \* bound of the clock

(* RESOURCE_MODELS, in its order.                                           *)
Models == <<"fire_detection", "incident", "road_segment", "road_incident",
            "weather_observation", "weather_forecast">>

Kinds == Range(Models)

Provenances == {"official", "observed", "estimated", "unverified"}

ASSUME NoTimeAssumption == NoTime \notin Int

ASSUME FactsAssumption ==
    Facts \in [Resource ->
        [kind : Kinds, id : Nat, place : Int, provenance : Provenances,
         observed : Int \cup {NoTime}, published : Int \cup {NoTime}, received : Int \cup {NoTime},
         located : BOOLEAN, inputs : 0..5, reliability : 0..100, own : 0..10000 \cup {NoTime}]]

ASSUME IdsAssumption ==
    \A x, y \in Resource : Facts[x].id = Facts[y].id => x = y

ASSUME QualityBoundsAssumption ==
    /\ RunLimit \in Nat \ {0} /\ Reach \in Nat /\ Apart \in Nat
    /\ Waits \subseteq Nat \ {0} /\ MaxHour \in Nat

VARIABLES
    hour,        \* the clock
    table,       \* records in the order of created_at
    assessments, \* committed rows: [of, at, value, category]
    links,       \* committed rows per ordered pair of detections
    stage,       \* where each execution is
    task,        \* what its transaction has read and added
    shared       \* observer: two executions have been under way at once

qualityVars == <<hour, table, assessments, links, stage, task, shared>>

Pairs == {p \in Resource \X Resource : p[1] # p[2]}

Stages == {"idle", "assessing", "linking", "completed", "raised"}

NoTask == [kinds |-> {}, scored |-> {}, candidates |-> {}, todo |-> {}, added |-> {}]

----------------------------------------------------------------------------
(* ConfidenceScorer.                                                        *)

(* The score of the first band that holds x, of bands <<upper end, score>>  *)
(* whose scores fall as their ends grow.                                    *)
Banded(bands, worst, x) == Max({worst} \cup {b[2] : b \in {c \in bands : x <= c[1]}})

Age(f, at) == IF f.observed = NoTime THEN NoTime ELSE at - f.observed

Freshness(age) ==
    IF age = NoTime THEN 45 ELSE Banded({<<1, 100>>, <<6, 85>>, <<24, 65>>, <<72, 35>>}, 15, age)

Delay(f) ==
    LET since == IF f.published # NoTime THEN f.published ELSE f.observed
    IN  IF f.received = NoTime \/ since = NoTime THEN NoTime ELSE Max({0, f.received - since})

Punctuality(delay) ==
    IF delay = NoTime THEN 75 ELSE Banded({<<1, 100>>, <<6, 75>>, <<24, 45>>}, 20, delay)

Officiality == [official |-> 100, observed |-> 65, estimated |-> 45, unverified |-> 25]

Cap == [official |-> 10000, observed |-> 8800, estimated |-> 7900, unverified |-> 5500]

(* A source without a score, or with a score of zero, counts as one half.   *)
Authority(f) == IF f.reliability = 0 THEN 50 ELSE f.reliability

FaultCapped(provenance, value) == Max({0, value})

Capped(provenance, value) == Max({0, Min({Cap[provenance], value})})

(* The score before it is capped.                                           *)
Weighted(f, at) ==
    20 * Authority(f) + 20 * Officiality[f.provenance]
    + 20 * Freshness(Age(f, at)) + 10 * Punctuality(Delay(f))
    + 15 * (IF f.located THEN 100 ELSE 0) + 10 * (20 * f.inputs) + 5 * 100

Penalty(f) ==
    (IF f.located THEN 0 ELSE 3500) + (IF f.provenance = "unverified" THEN 1500 ELSE 0)

Value(f, at) == Capped(f.provenance, Weighted(f, at) - Penalty(f))

Category(value) ==
    CASE value >= 8000 -> "high"
      [] value \in 5500..7999 -> "medium"
      [] value \in 3000..5499 -> "low"
      [] OTHER -> "very_low"

Assessment(x, at) ==
    [of |-> x, at |-> at, value |-> Value(Facts[x], at), category |-> Category(Value(Facts[x], at))]

(* The assessments of a record that the portal may take for its last one.   *)
FaultLastAssessment(x) ==
    LET mine == {a \in assessments : a.of = x}
    IN  {a \in mine : \A b \in mine : a.at <= b.at}

LastAssessment(x) ==
    LET mine == {a \in assessments : a.of = x}
    IN  {a \in mine : \A b \in mine : b.at <= a.at}

Assessed(x) == \E a \in assessments : a.of = x

(* The confidence it serves: its own, until it is assessed.                 *)
Served(x) == IF Assessed(x) THEN {a.value : a \in LastAssessment(x)} ELSE {Facts[x].own}

----------------------------------------------------------------------------
(* DetectionGroupingService.                                                *)

(* first comes before second in the order of the candidates.                *)
FaultBefore(f, g) == f.observed <= g.observed /\ f # g

Before(f, g) == f.observed < g.observed \/ (f.observed = g.observed /\ f.id < g.id)

Near(f, g) ==
    /\ NoTime \notin {f.observed, g.observed}
    /\ g.observed - f.observed <= Apart
    /\ Max({f.place - g.place, g.place - f.place}) <= Reach

Candidates(window) ==
    {p \in Pairs : /\ {p[1], p[2]} \subseteq window
                   /\ Near(Facts[p[1]], Facts[p[2]])
                   /\ Before(Facts[p[1]], Facts[p[2]])}

Rows(p) == links[p] + links[<<p[2], p[1]>>]

----------------------------------------------------------------------------
(* The tables a run goes through, without those no connector fills.         *)
Tables == {Facts[x].kind : x \in Resource}

First(kinds) == Models[Min({i \in DOMAIN Models : Models[i] \in kinds})]

OfKind(k) == {x \in Range(table) : Facts[x].kind = k}

Created(x) == CHOOSE i \in DOMAIN table : table[i] = x

(* The newest records of a table by created_at.                             *)
NewestCreated(k) ==
    {x \in OfKind(k) : Cardinality({y \in OfKind(k) : Created(y) > Created(x)}) < RunLimit}

(* The newest detections by observed_at.  PostgreSQL puts those without a   *)
(* time first, and the order of equal times is open.                        *)
Observed(x) == IF Facts[x].observed = NoTime THEN MaxHour + 1 ELSE Facts[x].observed

NewestObserved ==
    LET rows == OfKind("fire_detection")
    IN  {w \in SUBSET rows :
            /\ Cardinality(w) = Min({RunLimit, Cardinality(rows)})
            /\ \A x \in w, y \in rows \ w : Observed(x) >= Observed(y)}

----------------------------------------------------------------------------
QualityInit ==
    /\ hour = 0
    /\ table = <<>>
    /\ assessments = {}
    /\ links = [p \in Pairs |-> 0]
    /\ stage = [e \in Executions |-> "idle"]
    /\ task = [e \in Executions |-> NoTask]
    /\ shared = FALSE

UnderWay(e) == stage[e] \in {"assessing", "linking"}

(* A connector commits a record.                                            *)
Arrive(x) ==
    /\ x \notin Range(table)
    /\ table' = Append(table, x)
    /\ UNCHANGED <<hour, assessments, links, stage, task, shared>>

Wait ==
    /\ \E h \in Waits : hour + h <= MaxHour /\ hour' = hour + h
    /\ UNCHANGED <<table, assessments, links, stage, task, shared>>

Begin(e) ==
    /\ ~UnderWay(e)
    /\ stage' = [stage EXCEPT ![e] = "assessing"]
    /\ task' = [task EXCEPT ![e] = [NoTask EXCEPT !.kinds = Tables]]
    /\ shared' = (shared \/ \E d \in Executions \ {e} : UnderWay(d))
    /\ UNCHANGED <<hour, table, assessments, links>>

(* The SELECT of one table and the scores of what it returns.               *)
Assess(e) ==
    /\ stage[e] = "assessing" /\ task[e].kinds # {}
    /\ LET kind == First(task[e].kinds)
       IN  task' = [task EXCEPT ![e] = [@ EXCEPT
              !.kinds = task[e].kinds \ {kind},
              !.scored = task[e].scored \cup {Assessment(x, hour) : x \in NewestCreated(kind)}]]
    /\ UNCHANGED <<hour, table, assessments, links, stage, shared>>

(* The SELECT of the detections, and the pairs that are candidates.         *)
Group(e) ==
    /\ stage[e] = "assessing"
    /\ task[e].kinds = {}
    /\ \E window \in NewestObserved :
          task' = [task EXCEPT ![e] = [@ EXCEPT !.candidates = Candidates(window),
                                                !.todo = Candidates(window)]]
    /\ stage' = [stage EXCEPT ![e] = "linking"]
    /\ UNCHANGED <<hour, table, assessments, links, shared>>

(* _link_exists of one pair: a SELECT that takes at most one row.           *)
LinkExists(p) == links[p] = 1

TooManyRows(p) == links[p] > 1

Link(e) ==
    /\ stage[e] = "linking"
    /\ \E p \in task[e].todo :
          /\ ~TooManyRows(p)
          /\ task' = [task EXCEPT ![e] = [@ EXCEPT
                !.todo = task[e].todo \ {p},
                !.added = task[e].added \cup (IF LinkExists(p) THEN {} ELSE {p})]]
    /\ UNCHANGED <<hour, table, assessments, links, stage, shared>>

(* MultipleResultsFound, a lost connection or the end of the process: the   *)
(* transaction is rolled back.                                              *)
Raise(e) ==
    /\ stage[e] = "linking"
    /\ \E p \in task[e].todo : TooManyRows(p)
    /\ stage' = [stage EXCEPT ![e] = "raised"]
    /\ task' = [task EXCEPT ![e] = NoTask]
    /\ UNCHANGED <<hour, table, assessments, links, shared>>

Abort(e) ==
    /\ UnderWay(e)
    /\ stage' = [stage EXCEPT ![e] = "idle"]
    /\ task' = [task EXCEPT ![e] = NoTask]
    /\ UNCHANGED <<hour, table, assessments, links, shared>>

FinishRun(e) ==
    /\ stage[e] = "linking" /\ task[e].todo = {}
    /\ assessments' = assessments \cup task[e].scored
    /\ links' = [p \in Pairs |-> IF p \in task[e].added THEN links[p] + 1 ELSE links[p]]
    /\ stage' = [stage EXCEPT ![e] = "completed"]
    /\ task' = [task EXCEPT ![e] = [NoTask EXCEPT !.candidates = task[e].candidates]]
    /\ UNCHANGED <<hour, table, shared>>

QualityNext ==
    \/ \E x \in Resource : Arrive(x)
    \/ Wait
    \/ \E e \in Executions :
          \/ Begin(e) \/ Assess(e) \/ Group(e) \/ Link(e)
          \/ Raise(e) \/ Abort(e) \/ FinishRun(e)

QualitySpec == QualityInit /\ [][QualityNext]_qualityVars

----------------------------------------------------------------------------
Scores == [of : Resource, at : Int, value : Int, category : {"high", "medium", "low", "very_low"}]

QualityTypeOK ==
    /\ hour \in 0..MaxHour
    /\ table \in Seq(Resource) /\ IsInjective(table)
    /\ assessments \subseteq Scores
    /\ \A a \in assessments :
          /\ a.of \in Range(table) /\ a.at \in 0..hour
          /\ a.value \in 0..Cap[Facts[a.of].provenance]
    /\ links \in [Pairs -> Nat]
    /\ stage \in [Executions -> Stages]
    /\ task \in [Executions -> [kinds : SUBSET Kinds, scored : SUBSET Scores,
                                candidates : SUBSET Pairs, todo : SUBSET Pairs, added : SUBSET Pairs]]
    /\ \A e \in Executions : task[e].todo \cup task[e].added \subseteq task[e].candidates
    /\ shared \in BOOLEAN

(* A run that completes leaves every pair of near detections it saw linked, *)
(* by one row unless two runs were under way at once; and only then can a   *)
(* later run stop at a pair with two rows.                                  *)
CompletedRunLinks ==
    /\ \A e \in Executions : stage[e] = "completed" =>
          \A p \in task[e].candidates : Rows(p) >= 1 /\ (~shared => Rows(p) = 1)
    /\ ~shared => \A e \in Executions : stage[e] # "raised"

(* From its first assessment on, the confidence served of a record whose    *)
(* data stay the same never rises, nor goes back to the record's own, in    *)
(* whatever order the runs that score it commit.  (The first assessment     *)
(* itself may raise it.)                                                    *)
ConfidenceOnlyFades ==
    [][\A x \in Resource : Assessed(x) =>
           \A served \in Served(x), next \in Served(x)' : next <= served]_qualityVars
=============================================================================
