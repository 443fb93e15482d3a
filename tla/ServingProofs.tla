--------------------------- MODULE ServingProofs ---------------------------
(***************************************************************************)
(* Proofs about Quality and Portal, for any records, limits, executions,   *)
(* clients, requests, lists and incidents, and about the two of them side  *)
(* by side.                                                                *)
(***************************************************************************)
EXTENDS MCServing, TLAPS

(***************************************************************************)
(* Scores                                                                  *)
(***************************************************************************)

FactRecord ==
    [kind : Kinds, id : Nat, place : Int, provenance : Provenances,
     observed : Int \cup {NoTime}, published : Int \cup {NoTime}, received : Int \cup {NoTime},
     located : BOOLEAN, inputs : 0..5, reliability : 0..100, own : 0..10000 \cup {NoTime}]

LEMMA FactsTyped ==
    ASSUME NEW x \in Resource
    PROVE  Facts[x] \in FactRecord
<1>1. Facts \in [Resource -> FactRecord]
  BY FactsAssumption DEF FactRecord
<1> QED BY <1>1

(* Max and Min of two numbers.                                              *)
LEMMA MaxOfTwo ==
    ASSUME NEW a \in Int, NEW b \in Int
    PROVE  Max({a, b}) = IF a <= b THEN b ELSE a
<1>1. \E x \in {a, b} : \A y \in {a, b} : x >= y
  OBVIOUS
<1>2. Max({a, b}) \in {a, b} /\ \A y \in {a, b} : Max({a, b}) >= y
  BY <1>1 DEF Max
<1> QED BY <1>2

LEMMA MinOfTwo ==
    ASSUME NEW a \in Int, NEW b \in Int
    PROVE  Min({a, b}) = IF a <= b THEN a ELSE b
<1>1. \E x \in {a, b} : \A y \in {a, b} : x <= y
  OBVIOUS
<1>2. Min({a, b}) \in {a, b} /\ \A y \in {a, b} : Min({a, b}) <= y
  BY <1>1 DEF Min
<1> QED BY <1>2

(* The largest of a set is known by what it exceeds.                        *)
LEMMA MaxIs ==
    ASSUME NEW S \in SUBSET Int, NEW m \in S, \A y \in S : m >= y
    PROVE  Max(S) = m
<1>1. \E x \in S : \A y \in S : x >= y
  OBVIOUS
<1>2. Max(S) \in S /\ \A y \in S : Max(S) >= y
  BY <1>1, Zenon DEF Max
<1>3. Max(S) >= m /\ m >= Max(S) /\ Max(S) \in Int /\ m \in Int
  BY <1>2
<1> QED BY <1>3

(* The bands of freshness, as they are read.                                *)
LEMMA FreshnessBands ==
    ASSUME NEW x \in Int
    PROVE  Freshness(x) = IF x <= 1 THEN 100 ELSE IF x <= 6 THEN 85 ELSE IF x <= 24 THEN 65
                          ELSE IF x <= 72 THEN 35 ELSE 15
<1> DEFINE bands == {<<1, 100>>, <<6, 85>>, <<24, 65>>, <<72, 35>>}
           S == {15} \cup {b[2] : b \in {c \in bands : x <= c[1]}}
<1>1. x # NoTime
  BY NoTimeAssumption
<1>2. Freshness(x) = Max(S)
  BY <1>1 DEF Freshness, Banded
<1>3. \A y : y \in S <=> \/ y = 15
                         \/ y = 100 /\ x <= 1
                         \/ y = 85 /\ x <= 6
                         \/ y = 65 /\ x <= 24
                         \/ y = 35 /\ x <= 72
  <2>1. \A c : c \in {d \in bands : x <= d[1]} <=>
            \/ c = <<1, 100>> /\ x <= 1
            \/ c = <<6, 85>> /\ x <= 6
            \/ c = <<24, 65>> /\ x <= 24
            \/ c = <<72, 35>> /\ x <= 72
    OBVIOUS
  <2>2. \A y : y \in S <=> y = 15 \/ \E c : c \in {d \in bands : x <= d[1]} /\ y = c[2]
    OBVIOUS
  <2>3. <<1, 100>>[2] = 100 /\ <<6, 85>>[2] = 85 /\ <<24, 65>>[2] = 65 /\ <<72, 35>>[2] = 35
    OBVIOUS
  <2> HIDE DEF S, bands
  <2>4. ASSUME NEW y \in S
        PROVE  \/ y = 15
               \/ y = 100 /\ x <= 1
               \/ y = 85 /\ x <= 6
               \/ y = 65 /\ x <= 24
               \/ y = 35 /\ x <= 72
    <3>1. CASE \E c : c \in {d \in bands : x <= d[1]} /\ y = c[2]
      <4>1. PICK c : c \in {d \in bands : x <= d[1]} /\ y = c[2]
        BY <3>1
      <4>2. \/ c = <<1, 100>> /\ x <= 1
            \/ c = <<6, 85>> /\ x <= 6
            \/ c = <<24, 65>> /\ x <= 24
            \/ c = <<72, 35>> /\ x <= 72
        BY <2>1, <4>1
      <4> QED BY <2>3, <4>1, <4>2
    <3> QED BY <2>2, <2>4, <3>1
  <2>5. 15 \in S
    BY <2>2
  <2>6. x <= 1 => 100 \in S
    <3>1. SUFFICES ASSUME x <= 1 PROVE 100 \in S
      OBVIOUS
    <3>2. <<1, 100>> \in {d \in bands : x <= d[1]}
      BY <2>1, <3>1
    <3> QED BY <2>2, <2>3, <3>2
  <2>7. x <= 6 => 85 \in S
    <3>1. SUFFICES ASSUME x <= 6 PROVE 85 \in S
      OBVIOUS
    <3>2. <<6, 85>> \in {d \in bands : x <= d[1]}
      BY <2>1, <3>1
    <3> QED BY <2>2, <2>3, <3>2
  <2>8. x <= 24 => 65 \in S
    <3>1. SUFFICES ASSUME x <= 24 PROVE 65 \in S
      OBVIOUS
    <3>2. <<24, 65>> \in {d \in bands : x <= d[1]}
      BY <2>1, <3>1
    <3> QED BY <2>2, <2>3, <3>2
  <2>9. x <= 72 => 35 \in S
    <3>1. SUFFICES ASSUME x <= 72 PROVE 35 \in S
      OBVIOUS
    <3>2. <<72, 35>> \in {d \in bands : x <= d[1]}
      BY <2>1, <3>1
    <3> QED BY <2>2, <2>3, <3>2
  <2> QED BY <2>4, <2>5, <2>6, <2>7, <2>8, <2>9
<1> HIDE DEF S
<1>4. S \in SUBSET Int
  BY <1>3
<1> DEFINE m == IF x <= 1 THEN 100 ELSE IF x <= 6 THEN 85 ELSE IF x <= 24 THEN 65
                ELSE IF x <= 72 THEN 35 ELSE 15
<1>5. m \in S /\ \A y \in S : m >= y
  BY <1>3
<1> QED BY <1>2, <1>4, <1>5, MaxIs

LEMMA PunctualityBands ==
    ASSUME NEW x \in Int
    PROVE  Punctuality(x) = IF x <= 1 THEN 100 ELSE IF x <= 6 THEN 75 ELSE IF x <= 24 THEN 45 ELSE 20
<1> DEFINE bands == {<<1, 100>>, <<6, 75>>, <<24, 45>>}
           S == {20} \cup {b[2] : b \in {c \in bands : x <= c[1]}}
<1>1. x # NoTime
  BY NoTimeAssumption
<1>2. Punctuality(x) = Max(S)
  BY <1>1 DEF Punctuality, Banded
<1>3. \A y : y \in S <=> \/ y = 20
                         \/ y = 100 /\ x <= 1
                         \/ y = 75 /\ x <= 6
                         \/ y = 45 /\ x <= 24
  <2>1. \A c : c \in {d \in bands : x <= d[1]} <=>
            \/ c = <<1, 100>> /\ x <= 1
            \/ c = <<6, 75>> /\ x <= 6
            \/ c = <<24, 45>> /\ x <= 24
    OBVIOUS
  <2>2. \A y : y \in S <=> y = 20 \/ \E c : c \in {d \in bands : x <= d[1]} /\ y = c[2]
    OBVIOUS
  <2>3. <<1, 100>>[2] = 100 /\ <<6, 75>>[2] = 75 /\ <<24, 45>>[2] = 45
    OBVIOUS
  <2> HIDE DEF S, bands
  <2>4. ASSUME NEW y \in S
        PROVE  \/ y = 20
               \/ y = 100 /\ x <= 1
               \/ y = 75 /\ x <= 6
               \/ y = 45 /\ x <= 24
    <3>1. CASE \E c : c \in {d \in bands : x <= d[1]} /\ y = c[2]
      <4>1. PICK c : c \in {d \in bands : x <= d[1]} /\ y = c[2]
        BY <3>1
      <4>2. \/ c = <<1, 100>> /\ x <= 1
            \/ c = <<6, 75>> /\ x <= 6
            \/ c = <<24, 45>> /\ x <= 24
        BY <2>1, <4>1
      <4> QED BY <2>3, <4>1, <4>2
    <3> QED BY <2>2, <2>4, <3>1
  <2>5. 20 \in S
    BY <2>2
  <2>6. x <= 1 => 100 \in S
    <3>1. SUFFICES ASSUME x <= 1 PROVE 100 \in S
      OBVIOUS
    <3>2. <<1, 100>> \in {d \in bands : x <= d[1]}
      BY <2>1, <3>1
    <3> QED BY <2>2, <2>3, <3>2
  <2>7. x <= 6 => 75 \in S
    <3>1. SUFFICES ASSUME x <= 6 PROVE 75 \in S
      OBVIOUS
    <3>2. <<6, 75>> \in {d \in bands : x <= d[1]}
      BY <2>1, <3>1
    <3> QED BY <2>2, <2>3, <3>2
  <2>8. x <= 24 => 45 \in S
    <3>1. SUFFICES ASSUME x <= 24 PROVE 45 \in S
      OBVIOUS
    <3>2. <<24, 45>> \in {d \in bands : x <= d[1]}
      BY <2>1, <3>1
    <3> QED BY <2>2, <2>3, <3>2
  <2> QED BY <2>4, <2>5, <2>6, <2>7, <2>8
<1> HIDE DEF S
<1>4. S \in SUBSET Int
  BY <1>3
<1> DEFINE m == IF x <= 1 THEN 100 ELSE IF x <= 6 THEN 75 ELSE IF x <= 24 THEN 45 ELSE 20
<1>5. m \in S /\ \A y \in S : m >= y
  BY <1>3
<1> QED BY <1>2, <1>4, <1>5, MaxIs

(* Freshness only falls as time passes.                                     *)
LEMMA FreshnessFades ==
    ASSUME NEW f \in FactRecord, NEW s \in Int, NEW t \in Int, s <= t
    PROVE  /\ Freshness(Age(f, s)) \in 0..100 /\ Freshness(Age(f, t)) \in 0..100
           /\ Freshness(Age(f, t)) <= Freshness(Age(f, s))
<1>1. CASE f.observed = NoTime
  BY <1>1 DEF Age, Freshness
<1>2. CASE f.observed # NoTime
  <2>1. f.observed \in Int
    BY <1>2 DEF FactRecord
  <2>2. /\ Age(f, s) = s - f.observed /\ Age(f, t) = t - f.observed
        /\ Age(f, s) \in Int /\ Age(f, t) \in Int /\ Age(f, s) <= Age(f, t)
    BY <1>2, <2>1 DEF Age
  <2> HIDE DEF Age
  <2> QED BY <2>2, FreshnessBands
<1> QED BY <1>1, <1>2

LEMMA PunctualityType ==
    ASSUME NEW f \in FactRecord
    PROVE  Punctuality(Delay(f)) \in 0..100
<1> DEFINE told == IF f.published # NoTime THEN f.published ELSE f.observed
<1>1. f.received \in Int \cup {NoTime} /\ told \in Int \cup {NoTime}
  BY DEF FactRecord
<1>2. CASE f.received = NoTime \/ told = NoTime
  <2>1. Delay(f) = NoTime
    BY <1>2 DEF Delay
  <2> QED BY <2>1 DEF Punctuality
<1>3. CASE ~(f.received = NoTime \/ told = NoTime)
  <2>1. Delay(f) = Max({0, f.received - told})
    BY <1>3 DEF Delay
  <2>2. f.received - told \in Int
    BY <1>1, <1>3
  <2>3. Delay(f) \in Int
    BY <2>1, <2>2, MaxOfTwo
  <2> QED BY <2>3, PunctualityBands
<1> QED BY <1>2, <1>3

(* A score lies between zero and the cap of its provenance, and is lower    *)
(* when what it is made from is lower.                                      *)
LEMMA CappedType ==
    ASSUME NEW p \in Provenances, NEW v \in Int, NEW w \in Int, w <= v
    PROVE  /\ Cap[p] \in Nat
           /\ Capped(p, v) \in 0..Cap[p] /\ Capped(p, w) \in 0..Cap[p]
           /\ Capped(p, w) <= Capped(p, v)
<1>1. Cap[p] \in Nat
  BY DEF Provenances, Cap
<1>2. ASSUME NEW u \in Int
      PROVE  Capped(p, u) = IF Cap[p] <= u THEN Cap[p] ELSE IF 0 <= u THEN u ELSE 0
  <2>1. Min({Cap[p], u}) = IF Cap[p] <= u THEN Cap[p] ELSE u
    BY <1>1, MinOfTwo
  <2>2. Min({Cap[p], u}) \in Int
    BY <1>1, <2>1
  <2> QED BY <1>1, <2>1, <2>2, MaxOfTwo DEF Capped
<1> QED BY <1>1, <1>2

LEMMA ValueFades ==
    ASSUME NEW f \in FactRecord, NEW s \in Int, NEW t \in Int, s <= t
    PROVE  /\ Value(f, s) \in 0..Cap[f.provenance]
           /\ Value(f, t) <= Value(f, s)
<1>1. /\ f.provenance \in Provenances /\ f.inputs \in Int /\ Authority(f) \in Int
      /\ f.located \in BOOLEAN
  BY DEF FactRecord, Authority
<1>2. Officiality[f.provenance] \in Int
  BY <1>1 DEF Provenances, Officiality
<1>3. Punctuality(Delay(f)) \in Int
  BY PunctualityType
<1>4. /\ Freshness(Age(f, s)) \in Int /\ Freshness(Age(f, t)) \in Int
      /\ Freshness(Age(f, t)) <= Freshness(Age(f, s))
  BY FreshnessFades
<1>5. Weighted(f, s) \in Int /\ Weighted(f, t) \in Int /\ Weighted(f, t) <= Weighted(f, s)
  BY <1>1, <1>2, <1>3, <1>4 DEF Weighted
<1>6. Penalty(f) \in Int
  BY DEF Penalty
<1> DEFINE v == Weighted(f, s) - Penalty(f)
           w == Weighted(f, t) - Penalty(f)
<1>7. v \in Int /\ w \in Int /\ w <= v
  BY <1>5, <1>6
<1>8. Value(f, s) = Capped(f.provenance, v) /\ Value(f, t) = Capped(f.provenance, w)
  BY DEF Value
<1> HIDE DEF v, w
<1> QED BY <1>1, <1>7, <1>8, CappedType

(***************************************************************************)
(* The confidence served                                                   *)
(***************************************************************************)

(* Every assessment, committed or not, is the score its record has at the   *)
(* time it names.                                                           *)
Scored(a) == a.of \in Resource /\ a.at \in Int /\ a.value = Value(Facts[a.of], a.at)

Tasks ==
    [Executions -> [kinds : SUBSET Kinds, scored : SUBSET Scores,
                    candidates : SUBSET Pairs, todo : SUBSET Pairs, added : SUBSET Pairs]]

ScoresAreTrue ==
    /\ hour \in Int
    /\ table \in Seq(Resource)
    /\ task \in Tasks
    /\ \A a \in assessments : Scored(a)
    /\ \A e \in Executions : \A a \in task[e].scored : Scored(a)

LEMMA AssessmentScored ==
    ASSUME NEW x \in Resource, NEW at \in Int
    PROVE  Assessment(x, at) \in Scores /\ Scored(Assessment(x, at))
<1>1. Facts[x] \in FactRecord
  BY FactsTyped
<1>2. Value(Facts[x], at) \in 0..Cap[Facts[x].provenance] /\ Cap[Facts[x].provenance] \in Nat
  <2>1. Facts[x].provenance \in Provenances
    BY <1>1 DEF FactRecord
  <2>2. Cap[Facts[x].provenance] \in Nat
    BY <2>1 DEF Provenances, Cap
  <2> QED BY <1>1, <2>2, ValueFades
<1>3. Value(Facts[x], at) \in Int
  BY <1>2
<1>4. Category(Value(Facts[x], at)) \in {"high", "medium", "low", "very_low"}
  <2> DEFINE v == Value(Facts[x], at)
  <2> HIDE DEF v
  <2>1. v \in Int => Category(v) \in {"high", "medium", "low", "very_low"}
    BY DEF Category
  <2> QED BY <1>3, <2>1 DEF v
<1> QED BY <1>3, <1>4 DEF Assessment, Scores, Scored

LEMMA NewestAreRecords ==
    ASSUME table \in Seq(Resource), NEW k
    PROVE  NewestCreated(k) \subseteq Resource /\ NewestObserved \subseteq SUBSET Resource
<1>1. Range(table) \subseteq Resource
  BY DEF Range
<1> QED BY <1>1 DEF NewestCreated, NewestObserved, OfKind

LEMMA TasksInit == [e \in Executions |-> NoTask] \in Tasks
BY DEF NoTask, Tasks

(* Every step makes well-typed tasks, and scores what it scores truly.      *)
LEMMA ScoresStep ==
    ASSUME ScoresAreTrue, QualityNext
    PROVE  ScoresAreTrue'
<1> USE DEF ScoresAreTrue
<1>1. ASSUME NEW x \in Resource, Arrive(x) PROVE ScoresAreTrue'
  <2>1. table' \in Seq(Resource)
    BY <1>1 DEF Arrive
  <2> QED BY <1>1, <2>1 DEF Arrive, Scored
<1>2. CASE Wait
  <2>1. hour' \in Int
    BY <1>2, QualityBoundsAssumption DEF Wait
  <2> QED BY <1>2, <2>1 DEF Wait
<1>3. ASSUME NEW e \in Executions, NEW new, task' = [task EXCEPT ![e] = new],
             new \in [kinds : SUBSET Kinds, scored : SUBSET Scores,
                      candidates : SUBSET Pairs, todo : SUBSET Pairs, added : SUBSET Pairs],
             \A a \in new.scored : Scored(a)
      PROVE  /\ task' \in Tasks
             /\ \A d \in Executions : \A a \in task'[d].scored : Scored(a)
  <2>1. task' \in Tasks
    BY <1>3 DEF Tasks
  <2>2. \A d \in Executions : task'[d] = IF d = e THEN new ELSE task[d]
    BY <1>3 DEF Tasks
  <2> QED BY <1>3, <2>1, <2>2
<1>4. \A a : Scored(a)' <=> Scored(a)
  BY DEF Scored
<1>5. ASSUME NEW e \in Executions, Begin(e) PROVE ScoresAreTrue'
  <2> DEFINE new == [NoTask EXCEPT !.kinds = Tables]
  <2>1. task' = [task EXCEPT ![e] = new] /\ UNCHANGED <<hour, table, assessments>>
    BY <1>5 DEF Begin
  <2>2. Tables \subseteq Kinds
    BY FactsAssumption DEF Tables
  <2>3. /\ new \in [kinds : SUBSET Kinds, scored : SUBSET Scores,
                    candidates : SUBSET Pairs, todo : SUBSET Pairs, added : SUBSET Pairs]
        /\ new.scored = {}
    BY <2>2 DEF NoTask
  <2> HIDE DEF new
  <2>4. /\ task' \in Tasks
        /\ \A d \in Executions : \A a \in task'[d].scored : Scored(a)
    BY <1>3, <2>1, <2>3
  <2> QED BY <1>4, <2>1, <2>4
<1>6. ASSUME NEW e \in Executions, Assess(e) PROVE ScoresAreTrue'
  <2> DEFINE more == {Assessment(x, hour) : x \in NewestCreated(First(task[e].kinds))}
             new == [task[e] EXCEPT !.kinds = task[e].kinds \ {First(task[e].kinds)},
                                    !.scored = task[e].scored \cup more]
  <2>1. task' = [task EXCEPT ![e] = new] /\ UNCHANGED <<hour, table, assessments>>
    BY <1>6, Zenon DEF Assess
  <2>2. NewestCreated(First(task[e].kinds)) \subseteq Resource
    BY NewestAreRecords
  <2>3. more \subseteq Scores /\ \A a \in more : Scored(a)
    BY <2>2, AssessmentScored
  <2> HIDE DEF more
  <2>4. /\ new \in [kinds : SUBSET Kinds, scored : SUBSET Scores,
                    candidates : SUBSET Pairs, todo : SUBSET Pairs, added : SUBSET Pairs]
        /\ new.scored = task[e].scored \cup more
    BY <2>3 DEF Tasks
  <2> HIDE DEF new
  <2>5. /\ task' \in Tasks
        /\ \A d \in Executions : \A a \in task'[d].scored : Scored(a)
    BY <1>3, <2>1, <2>3, <2>4
  <2> QED BY <1>4, <2>1, <2>5
<1>7. ASSUME NEW e \in Executions, Group(e) PROVE ScoresAreTrue'
  <2>1. PICK window \in NewestObserved :
            task' = [task EXCEPT ![e] = [@ EXCEPT !.candidates = Candidates(window),
                                                  !.todo = Candidates(window)]]
    BY <1>7 DEF Group
  <2> DEFINE new == [task[e] EXCEPT !.candidates = Candidates(window), !.todo = Candidates(window)]
  <2>2. Candidates(window) \subseteq Pairs
    BY DEF Candidates
  <2>3. /\ new \in [kinds : SUBSET Kinds, scored : SUBSET Scores,
                    candidates : SUBSET Pairs, todo : SUBSET Pairs, added : SUBSET Pairs]
        /\ new.scored = task[e].scored
    BY <2>2 DEF Tasks
  <2>4. task' = [task EXCEPT ![e] = new] /\ UNCHANGED <<hour, table, assessments>>
    BY <1>7, <2>1, Zenon DEF Group
  <2> HIDE DEF new
  <2>5. /\ task' \in Tasks
        /\ \A d \in Executions : \A a \in task'[d].scored : Scored(a)
    BY <1>3, <2>3, <2>4
  <2> QED BY <1>4, <2>4, <2>5
<1>8. ASSUME NEW e \in Executions, Link(e) PROVE ScoresAreTrue'
  <2>1. PICK p \in task[e].todo :
            task' = [task EXCEPT ![e] = [@ EXCEPT !.todo = task[e].todo \ {p},
                          !.added = task[e].added \cup (IF LinkExists(p) THEN {} ELSE {p})]]
    BY <1>8 DEF Link
  <2> DEFINE grown == task[e].added \cup (IF LinkExists(p) THEN {} ELSE {p})
             new == [task[e] EXCEPT !.todo = task[e].todo \ {p}, !.added = grown]
  <2>2. grown \subseteq Pairs
    BY DEF Tasks
  <2>4. task' = [task EXCEPT ![e] = new] /\ UNCHANGED <<hour, table, assessments>>
    BY <1>8, <2>1, Zenon DEF Link
  <2> HIDE DEF grown
  <2>3. /\ new \in [kinds : SUBSET Kinds, scored : SUBSET Scores,
                    candidates : SUBSET Pairs, todo : SUBSET Pairs, added : SUBSET Pairs]
        /\ new.scored = task[e].scored
    BY <2>2 DEF Tasks
  <2> HIDE DEF new
  <2>5. /\ task' \in Tasks
        /\ \A d \in Executions : \A a \in task'[d].scored : Scored(a)
    BY <1>3, <2>3, <2>4
  <2> QED BY <1>4, <2>4, <2>5
<1>9. ASSUME NEW e \in Executions, Raise(e) \/ Abort(e) PROVE ScoresAreTrue'
  <2>1. task' = [task EXCEPT ![e] = NoTask] /\ UNCHANGED <<hour, table, assessments>>
    BY <1>9 DEF Raise, Abort
  <2>2. /\ NoTask \in [kinds : SUBSET Kinds, scored : SUBSET Scores,
                       candidates : SUBSET Pairs, todo : SUBSET Pairs, added : SUBSET Pairs]
        /\ NoTask.scored = {}
    BY DEF NoTask
  <2>3. /\ task' \in Tasks
        /\ \A d \in Executions : \A a \in task'[d].scored : Scored(a)
    BY <1>3, <2>1, <2>2
  <2> QED BY <1>4, <2>1, <2>3
<1>10. ASSUME NEW e \in Executions, FinishRun(e) PROVE ScoresAreTrue'
  <2> DEFINE new == [NoTask EXCEPT !.candidates = task[e].candidates]
  <2>1. /\ task' = [task EXCEPT ![e] = new] /\ UNCHANGED <<hour, table>>
        /\ assessments' = assessments \cup task[e].scored
    BY <1>10 DEF FinishRun
  <2>2. /\ new \in [kinds : SUBSET Kinds, scored : SUBSET Scores,
                    candidates : SUBSET Pairs, todo : SUBSET Pairs, added : SUBSET Pairs]
        /\ new.scored = {}
    BY DEF NoTask, Tasks
  <2> HIDE DEF new
  <2>3. /\ task' \in Tasks
        /\ \A d \in Executions : \A a \in task'[d].scored : Scored(a)
    BY <1>3, <2>1, <2>2
  <2> QED BY <1>4, <2>1, <2>3
<1> QED BY <1>1, <1>2, <1>5, <1>6, <1>7, <1>8, <1>9, <1>10 DEF QualityNext

(* Committed assessments stay.                                              *)
LEMMA AssessmentsStay ==
    ASSUME QualityNext
    PROVE  assessments \subseteq assessments'
BY DEF QualityNext, Arrive, Wait, Begin, Assess, Group, Link, Raise, Abort, FinishRun

(* The body of ConfidenceOnlyFades.                                         *)
Fades ==
    \A x \in Resource :
        Assessed(x) => \A served \in Served(x), next \in Served(x)' : next <= served

LEMMA LastFades ==
    ASSUME ScoresAreTrue, ScoresAreTrue', assessments \subseteq assessments'
    PROVE  Fades
<1>1. SUFFICES ASSUME NEW x \in Resource, Assessed(x), NEW served \in Served(x), NEW next \in Served(x)'
               PROVE  next <= served
  BY DEF Fades
<1>2. PICK a \in LastAssessment(x) : served = a.value
  BY <1>1 DEF Served
<1>3. Assessed(x)'
  BY <1>1 DEF Assessed
<1>4. PICK b \in LastAssessment(x)' : next = b.value
  BY <1>1, <1>3 DEF Served
<1>5. a \in assessments /\ a.of = x /\ b \in assessments' /\ b.of = x /\ a.at <= b.at
  BY DEF LastAssessment
<1>6. Scored(a) /\ Scored(b)
  BY <1>5 DEF ScoresAreTrue, Scored
<1>7. Facts[x] \in FactRecord
  BY FactsTyped
<1>8. Value(Facts[x], b.at) <= Value(Facts[x], a.at)
  BY <1>5, <1>6, <1>7, ValueFades DEF Scored
<1> QED BY <1>2, <1>4, <1>5, <1>6, <1>8 DEF Scored

(* For any facts, limits and number of executions, the confidence served of *)
(* an assessed record whose data stay the same never rises, nor goes back   *)
(* to the record's own.                                                     *)
THEOREM ConfidenceFades == QualitySpec => ConfidenceOnlyFades
<1>1. ASSUME QualityInit PROVE ScoresAreTrue
  <2>1. hour \in Int /\ table \in Seq(Resource) /\ assessments = {}
    BY <1>1 DEF QualityInit
  <2>2. task = [e \in Executions |-> NoTask] /\ NoTask.scored = {}
    BY <1>1 DEF QualityInit, NoTask
  <2> QED BY <2>1, <2>2, TasksInit DEF ScoresAreTrue
<1>2. ASSUME ScoresAreTrue, UNCHANGED qualityVars PROVE ScoresAreTrue'
  BY <1>2 DEF ScoresAreTrue, qualityVars, Scored
<1>3. ScoresAreTrue /\ [QualityNext]_qualityVars => ScoresAreTrue'
  BY <1>2, ScoresStep
<1>4. ScoresAreTrue /\ ScoresAreTrue' /\ [QualityNext]_qualityVars => [Fades]_qualityVars
  BY LastFades, AssessmentsStay
<1>5. QualitySpec => [][Fades]_qualityVars
  BY <1>1, <1>3, <1>4, PTL DEF QualitySpec
<1> QED BY <1>5 DEF ConfidenceOnlyFades, Fades

(***************************************************************************)
(* Links                                                                   *)
(***************************************************************************)

(* The first detection of a pair comes before the second.                   *)
Ordered(p) ==
    /\ NoTime \notin {Facts[p[1]].observed, Facts[p[2]].observed}
    /\ Before(Facts[p[1]], Facts[p[2]])

LinkTypes ==
    /\ task \in Tasks
    /\ links \in [Pairs -> Nat]
    /\ stage \in [Executions -> Stages]
    /\ \A e \in Executions :
          /\ task[e].todo \cup task[e].added \subseteq task[e].candidates
          /\ stage[e] # "linking" => task[e].added = {}

OneWay ==
    /\ \A p \in Pairs : links[p] > 0 => Ordered(p)
    /\ \A e \in Executions : \A p \in task[e].candidates : Ordered(p)

(* What a run has gone through is linked, or will be when it commits.       *)
Handled ==
    \A e \in Executions : \A p \in task[e].candidates :
        /\ stage[e] = "linking" => p \in task[e].todo \/ p \in task[e].added \/ links[p] > 0
        /\ stage[e] = "completed" => links[p] > 0

(* Runs that have never overlapped.                                         *)
InTurn ==
    /\ \A d, e \in Executions : UnderWay(d) /\ UnderWay(e) => d = e
    /\ \A p \in Pairs : links[p] <= 1
    /\ \A e \in Executions : stage[e] # "raised" /\ \A p \in task[e].added : links[p] = 0

LinksKept == LinkTypes /\ OneWay /\ Handled /\ (~shared => InTurn)

(* A pair is ordered one way only.                                          *)
LEMMA OrderedOnce ==
    ASSUME NEW p \in Pairs, Ordered(p)
    PROVE  <<p[2], p[1]>> \in Pairs /\ ~Ordered(<<p[2], p[1]>>)
<1>1. p[1] \in Resource /\ p[2] \in Resource /\ p[1] # p[2]
  BY DEF Pairs
<1>2. Facts[p[1]] \in FactRecord /\ Facts[p[2]] \in FactRecord
  BY <1>1, FactsTyped
<1>3. /\ Facts[p[1]].observed \in Int /\ Facts[p[2]].observed \in Int
      /\ Facts[p[1]].id \in Int /\ Facts[p[2]].id \in Int
  <2>1. ASSUME NEW f \in FactRecord
        PROVE  f.id \in Nat /\ f.observed \in Int \cup {NoTime}
    BY DEF FactRecord
  <2>2. NoTime \notin {Facts[p[1]].observed, Facts[p[2]].observed}
    BY DEF Ordered
  <2> QED BY <1>2, <2>1, <2>2
<1>4. <<p[2], p[1]>> \in Pairs
  BY <1>1 DEF Pairs
<1>5. ~Before(Facts[p[2]], Facts[p[1]])
  BY <1>3 DEF Ordered, Before
<1> QED BY <1>4, <1>5 DEF Ordered

LEMMA CandidatesOrdered ==
    ASSUME NEW window
    PROVE  Candidates(window) \subseteq Pairs /\ \A p \in Candidates(window) : Ordered(p)
BY DEF Candidates, Near, Ordered

(* What each step makes of the tasks.                                       *)
LEMMA TaskOf ==
    ASSUME task \in Tasks, NEW e \in Executions, NEW new, task' = [task EXCEPT ![e] = new]
    PROVE  task'[e] = new /\ \A d \in Executions : d # e => task'[d] = task[d]
BY DEF Tasks

LEMMA StageOf ==
    ASSUME stage \in [Executions -> Stages], NEW e \in Executions, NEW new, stage' = [stage EXCEPT ![e] = new]
    PROVE  stage'[e] = new /\ \A d \in Executions : d # e => stage'[d] = stage[d]
OBVIOUS

(* A step of one execution that commits nothing keeps the links, if it      *)
(* does right by its own task.                                              *)
LEMMA OwnStep ==
    ASSUME LinksKept, task' \in Tasks, links' = links, stage' \in [Executions -> Stages],
           NEW e \in Executions,
           \A d \in Executions : d # e => task'[d] = task[d] /\ stage'[d] = stage[d],
           task'[e].todo \cup task'[e].added \subseteq task'[e].candidates,
           stage'[e] # "linking" => task'[e].added = {},
           \A p \in task'[e].candidates :
               /\ Ordered(p)
               /\ stage'[e] = "linking" => p \in task'[e].todo \/ p \in task'[e].added \/ links[p] > 0
               /\ stage'[e] # "completed"
    PROVE  LinkTypes' /\ OneWay' /\ Handled'
<1> USE DEF LinksKept
<1>1. LinkTypes'
  <2>1. ASSUME NEW d \in Executions
        PROVE  /\ task'[d].todo \cup task'[d].added \subseteq task'[d].candidates
               /\ stage'[d] # "linking" => task'[d].added = {}
    <3>1. CASE d = e
      BY <3>1
    <3>2. CASE d # e
      BY <3>2 DEF LinkTypes
    <3> QED BY <3>1, <3>2
  <2> QED BY <2>1 DEF LinkTypes
<1>2. \A p : Ordered(p)' <=> Ordered(p)
  BY DEF Ordered
<1>3. OneWay'
  <2>1. ASSUME NEW d \in Executions, NEW p \in task'[d].candidates PROVE Ordered(p)
    <3>1. CASE d = e
      BY <2>1, <3>1
    <3>2. CASE d # e
      BY <2>1, <3>2 DEF OneWay
    <3> QED BY <3>1, <3>2
  <2> QED BY <1>2, <2>1 DEF OneWay
<1>4. Handled'
  <2>1. ASSUME NEW d \in Executions, NEW p \in task'[d].candidates
        PROVE  /\ stage'[d] = "linking" => p \in task'[d].todo \/ p \in task'[d].added \/ links[p] > 0
               /\ stage'[d] = "completed" => links[p] > 0
    <3>1. CASE d = e
      BY <2>1, <3>1
    <3>2. CASE d # e
      BY <2>1, <3>2 DEF Handled
    <3> QED BY <3>1, <3>2
  <2> QED BY <2>1 DEF Handled
<1> QED BY <1>1, <1>3, <1>4

(* The same of runs in turn.                                                *)
LEMMA OwnTurn ==
    ASSUME InTurn, links' = links, NEW e \in Executions,
           \A d \in Executions : d # e => task'[d] = task[d] /\ stage'[d] = stage[d],
           UnderWay(e)' => UnderWay(e) \/ \A d \in Executions \ {e} : ~UnderWay(d),
           stage'[e] # "raised",
           \A p \in task'[e].added : links[p] = 0
    PROVE  InTurn'
<1>1. ASSUME NEW c \in Executions, NEW d \in Executions, UnderWay(c)', UnderWay(d)' PROVE c = d
  <2>1. \A x \in Executions : x # e => (UnderWay(x)' <=> UnderWay(x))
    BY DEF UnderWay
  <2> QED BY <1>1, <2>1 DEF InTurn
<1>2. ASSUME NEW d \in Executions
      PROVE  stage'[d] # "raised" /\ \A p \in task'[d].added : links[p] = 0
  <2>1. CASE d = e
    BY <2>1
  <2>2. CASE d # e
    BY <2>2 DEF InTurn
  <2> QED BY <2>1, <2>2
<1>3. \A p \in Pairs : links'[p] <= 1
  BY DEF InTurn
<1> QED BY <1>1, <1>2, <1>3 DEF InTurn

(* A step that leaves runs and links alone.                                 *)
LEMMA LinksSame ==
    ASSUME LinksKept, UNCHANGED <<links, stage, task, shared>>
    PROVE  LinksKept'
<1>1. LinkTypes' /\ OneWay' /\ Handled'
  BY DEF LinksKept, LinkTypes, OneWay, Handled, Ordered
<1>2. InTurn => InTurn'
  BY DEF InTurn, UnderWay
<1>3. ~shared => InTurn
  BY DEF LinksKept
<1>4. shared' <=> shared
  BY Zenon
<1> QED BY <1>1, <1>2, <1>3, <1>4, Zenon DEF LinksKept

LEMMA LinksStep ==
    ASSUME LinksKept, task' \in Tasks, QualityNext
    PROVE  LinksKept'
<1>0. /\ task \in Tasks /\ stage \in [Executions -> Stages] /\ links \in [Pairs -> Nat]
      /\ \A e \in Executions : task[e].candidates \in SUBSET Pairs
  BY DEF LinksKept, LinkTypes, Tasks
<1>1. ~shared => InTurn
  BY DEF LinksKept
<1>2. ASSUME LinkTypes' /\ OneWay' /\ Handled', (shared' <=> shared), InTurn => InTurn'
      PROVE  LinksKept'
  BY <1>1, <1>2, Zenon DEF LinksKept
<1>3. ASSUME NEW x \in Resource, Arrive(x) PROVE LinksKept'
  BY <1>3, LinksSame DEF Arrive
<1>4. CASE Wait
  BY <1>4, LinksSame DEF Wait
<1>5. ASSUME NEW e \in Executions, Begin(e) PROVE LinksKept'
  <2> DEFINE new == [NoTask EXCEPT !.kinds = Tables]
  <2>1. /\ stage' = [stage EXCEPT ![e] = "assessing"] /\ task' = [task EXCEPT ![e] = new]
        /\ links' = links
    BY <1>5 DEF Begin
  <2>2. new.todo = {} /\ new.added = {} /\ new.candidates = {}
    BY DEF NoTask
  <2> HIDE DEF new
  <2>3. /\ task'[e] = new /\ stage'[e] = "assessing"
        /\ \A d \in Executions : d # e => task'[d] = task[d] /\ stage'[d] = stage[d]
        /\ stage' \in [Executions -> Stages]
    BY <1>0, <2>1, TaskOf, StageOf DEF Stages
  <2>4. LinkTypes' /\ OneWay' /\ Handled'
    BY <2>1, <2>2, <2>3, OwnStep
  <2>5. ASSUME ~shared' PROVE InTurn'
    <3>1. ~shared /\ ~\E d \in Executions \ {e} : UnderWay(d)
      BY <1>5, <2>5, Zenon DEF Begin
    <3>2. InTurn
      BY <1>1, <3>1, Zenon
    <3>3. \A d \in Executions \ {e} : ~UnderWay(d)
      BY <3>1
    <3> QED BY <2>1, <2>2, <2>3, <3>2, <3>3, OwnTurn
  <2> QED BY <2>4, <2>5, Zenon DEF LinksKept
<1>6. ASSUME NEW e \in Executions, Assess(e) PROVE LinksKept'
  <2> DEFINE k == First(task[e].kinds)
             more == {Assessment(x, hour) : x \in NewestCreated(k)}
             new == [task[e] EXCEPT !.kinds = task[e].kinds \ {k}, !.scored = task[e].scored \cup more]
  <2>1. /\ task' = [task EXCEPT ![e] = new] /\ links' = links /\ stage' = stage
        /\ stage[e] = "assessing"
    BY <1>6, Zenon DEF Assess
  <2> HIDE DEF k, more
  <2>2. new.todo = task[e].todo /\ new.added = task[e].added /\ new.candidates = task[e].candidates
    BY <1>0 DEF Tasks
  <2> HIDE DEF new
  <2>3. /\ task'[e] = new
        /\ \A d \in Executions : d # e => task'[d] = task[d]
    BY <1>0, <2>1, TaskOf
  <2>4. /\ task[e].todo \cup task[e].added \subseteq task[e].candidates
        /\ task[e].added = {}
        /\ \A p \in task[e].candidates : Ordered(p)
    BY <2>1 DEF LinksKept, LinkTypes, OneWay
  <2>5. LinkTypes' /\ OneWay' /\ Handled'
    BY <1>0, <2>1, <2>2, <2>3, <2>4, OwnStep
  <2>6. shared' <=> shared
    BY <1>6, Zenon DEF Assess
  <2>7. InTurn => InTurn'
    BY <2>1, <2>2, <2>3, <2>4, OwnTurn DEF UnderWay
  <2> QED BY <1>2, <2>5, <2>6, <2>7
<1>7. ASSUME NEW e \in Executions, Group(e) PROVE LinksKept'
  <2>1. PICK window \in NewestObserved :
            task' = [task EXCEPT ![e] = [@ EXCEPT !.candidates = Candidates(window),
                                                  !.todo = Candidates(window)]]
    BY <1>7 DEF Group
  <2> DEFINE pairs == Candidates(window)
             new == [task[e] EXCEPT !.candidates = pairs, !.todo = pairs]
  <2>2. task' = [task EXCEPT ![e] = new]
    BY <2>1, Zenon
  <2>3. links' = links /\ stage' = [stage EXCEPT ![e] = "linking"] /\ stage[e] = "assessing"
    BY <1>7 DEF Group
  <2>4. pairs \subseteq Pairs /\ \A p \in pairs : Ordered(p)
    BY CandidatesOrdered
  <2> HIDE DEF pairs
  <2>5. new.todo = pairs /\ new.candidates = pairs /\ new.added = task[e].added
    BY <1>0 DEF Tasks
  <2> HIDE DEF new
  <2>6. task[e].added = {}
    BY <2>3 DEF LinksKept, LinkTypes
  <2>7. /\ task'[e] = new /\ stage'[e] = "linking"
        /\ \A d \in Executions : d # e => task'[d] = task[d] /\ stage'[d] = stage[d]
        /\ stage' \in [Executions -> Stages]
    BY <1>0, <2>2, <2>3, TaskOf, StageOf DEF Stages
  <2>8. LinkTypes' /\ OneWay' /\ Handled'
    BY <2>3, <2>4, <2>5, <2>6, <2>7, OwnStep
  <2>9. shared' <=> shared
    BY <1>7, Zenon DEF Group
  <2>10. InTurn => InTurn'
    BY <2>3, <2>5, <2>6, <2>7, OwnTurn DEF UnderWay
  <2> QED BY <1>2, <2>8, <2>9, <2>10
<1>8. ASSUME NEW e \in Executions, Link(e) PROVE LinksKept'
  <2>1. PICK p \in task[e].todo :
            /\ ~TooManyRows(p)
            /\ task' = [task EXCEPT ![e] = [@ EXCEPT !.todo = task[e].todo \ {p},
                          !.added = task[e].added \cup (IF LinkExists(p) THEN {} ELSE {p})]]
    BY <1>8 DEF Link
  <2> DEFINE left == task[e].todo \ {p}
             grown == task[e].added \cup (IF LinkExists(p) THEN {} ELSE {p})
             new == [task[e] EXCEPT !.todo = left, !.added = grown]
  <2>2. task' = [task EXCEPT ![e] = new]
    BY <2>1, Zenon
  <2>3. links' = links /\ stage' = stage /\ stage[e] = "linking"
    BY <1>8 DEF Link
  <2>4. p \in Pairs /\ p \in task[e].candidates /\ links[p] \in Nat
    BY <1>0, <2>1 DEF LinksKept, LinkTypes
  <2>5. links[p] > 0 => LinkExists(p)
    BY <2>1, <2>4 DEF LinkExists, TooManyRows
  <2>6. LinkExists(p) => links[p] > 0
    BY DEF LinkExists
  <2>7. /\ LinkExists(p) => grown = task[e].added
        /\ ~LinkExists(p) => grown = task[e].added \cup {p}
    OBVIOUS
  <2> HIDE DEF left, grown
  <2>8. new.todo = left /\ new.added = grown /\ new.candidates = task[e].candidates
    BY <1>0 DEF Tasks
  <2> HIDE DEF new
  <2>9. /\ task'[e] = new
        /\ \A d \in Executions : d # e => task'[d] = task[d]
    BY <1>0, <2>2, TaskOf
  <2>10. task[e].todo \cup task[e].added \subseteq task[e].candidates
    BY DEF LinksKept, LinkTypes
  <2>11. left \cup grown \subseteq task[e].candidates
    BY <2>4, <2>7, <2>10 DEF left
  <2>12. ASSUME NEW q \in task[e].candidates
         PROVE  Ordered(q) /\ (q \in left \/ q \in grown \/ links[q] > 0)
    <3>1. Ordered(q) /\ (q \in task[e].todo \/ q \in task[e].added \/ links[q] > 0)
      BY <2>3 DEF LinksKept, OneWay, Handled
    <3> QED BY <2>6, <2>7, <3>1 DEF left
  <2>13. LinkTypes' /\ OneWay' /\ Handled'
    BY <1>0, <2>3, <2>8, <2>9, <2>11, <2>12, OwnStep
  <2>14. shared' <=> shared
    BY <1>8, Zenon DEF Link
  <2>15. ASSUME InTurn PROVE InTurn'
    <3>1. \A q \in task[e].added : links[q] = 0
      BY <2>15 DEF InTurn
    <3>2. \A q \in grown : links[q] = 0
      BY <2>4, <2>5, <2>7, <3>1
    <3> QED BY <2>3, <2>8, <2>9, <2>15, <3>2, OwnTurn DEF UnderWay
  <2> QED BY <1>2, <2>13, <2>14, <2>15
<1>9. ASSUME NEW e \in Executions, NEW to \in {"idle", "raised"},
             stage' = [stage EXCEPT ![e] = to], task' = [task EXCEPT ![e] = NoTask],
             links' = links
      PROVE  /\ LinkTypes' /\ OneWay' /\ Handled'
             /\ to = "idle" /\ InTurn => InTurn'
  <2>1. NoTask.todo = {} /\ NoTask.added = {} /\ NoTask.candidates = {}
    BY DEF NoTask
  <2>2. /\ task'[e] = NoTask /\ stage'[e] = to
        /\ \A d \in Executions : d # e => task'[d] = task[d] /\ stage'[d] = stage[d]
        /\ stage' \in [Executions -> Stages]
    BY <1>0, <1>9, TaskOf, StageOf DEF Stages
  <2>3. LinkTypes' /\ OneWay' /\ Handled'
    BY <1>9, <2>1, <2>2, OwnStep
  <2>4. to = "idle" /\ InTurn => InTurn'
    BY <1>9, <2>1, <2>2, OwnTurn DEF UnderWay
  <2> QED BY <2>3, <2>4
<1>10. ASSUME NEW e \in Executions, Raise(e) PROVE LinksKept'
  <2>1. LinkTypes' /\ OneWay' /\ Handled'
    BY <1>9, <1>10 DEF Raise
  <2>2. shared' <=> shared
    BY <1>10, Zenon DEF Raise
  <2>3. ~InTurn
    <3>1. PICK p \in task[e].todo : TooManyRows(p)
      BY <1>10 DEF Raise
    <3>2. p \in Pairs /\ links[p] \in Nat
      BY <1>0, <3>1 DEF LinksKept, LinkTypes
    <3> QED BY <3>1, <3>2 DEF InTurn, TooManyRows
  <2> QED BY <1>2, <2>1, <2>2, <2>3
<1>11. ASSUME NEW e \in Executions, Abort(e) PROVE LinksKept'
  <2>1. LinkTypes' /\ OneWay' /\ Handled' /\ (InTurn => InTurn')
    BY <1>9, <1>11 DEF Abort
  <2>2. shared' <=> shared
    BY <1>11, Zenon DEF Abort
  <2> QED BY <1>2, <2>1, <2>2
<1>12. ASSUME NEW e \in Executions, FinishRun(e) PROVE LinksKept'
  <2> DEFINE new == [NoTask EXCEPT !.candidates = task[e].candidates]
  <2>1. /\ task' = [task EXCEPT ![e] = new] /\ stage' = [stage EXCEPT ![e] = "completed"]
        /\ links' = [p \in Pairs |-> IF p \in task[e].added THEN links[p] + 1 ELSE links[p]]
        /\ stage[e] = "linking" /\ task[e].todo = {}
    BY <1>12 DEF FinishRun
  <2>2. new.todo = {} /\ new.added = {} /\ new.candidates = task[e].candidates
    BY DEF NoTask
  <2> HIDE DEF new
  <2>3. /\ task'[e] = new /\ stage'[e] = "completed"
        /\ \A d \in Executions : d # e => task'[d] = task[d] /\ stage'[d] = stage[d]
        /\ stage' \in [Executions -> Stages]
    BY <1>0, <2>1, TaskOf, StageOf DEF Stages
  <2>4. \A p \in Pairs : /\ links[p] \in Nat
                         /\ links'[p] = IF p \in task[e].added THEN links[p] + 1 ELSE links[p]
    BY <1>0, <2>1
  <2>5. links' \in [Pairs -> Nat]
    BY <1>0, <2>1
  <2>6. LinkTypes'
    <3>1. ASSUME NEW d \in Executions
          PROVE  /\ task'[d].todo \cup task'[d].added \subseteq task'[d].candidates
                 /\ stage'[d] # "linking" => task'[d].added = {}
      <4>1. CASE d = e
        BY <2>2, <2>3, <4>1
      <4>2. CASE d # e
        BY <2>3, <4>2 DEF LinksKept, LinkTypes
      <4> QED BY <4>1, <4>2
    <3> QED BY <2>3, <2>5, <3>1 DEF LinkTypes
  <2>7. \A p : Ordered(p)' <=> Ordered(p)
    BY DEF Ordered
  <2>8. \A p \in task[e].added : p \in task[e].candidates /\ Ordered(p)
    BY DEF LinksKept, LinkTypes, OneWay
  <2>9. OneWay'
    <3>1. ASSUME NEW p \in Pairs, links'[p] > 0 PROVE Ordered(p)
      <4>1. links[p] > 0 \/ p \in task[e].added
        BY <2>4, <3>1
      <4> QED BY <2>8, <4>1 DEF LinksKept, OneWay
    <3>2. ASSUME NEW d \in Executions, NEW p \in task'[d].candidates PROVE Ordered(p)
      <4>1. task'[d].candidates = task[d].candidates
        BY <2>2, <2>3
      <4> QED BY <3>2, <4>1 DEF LinksKept, OneWay
    <3> QED BY <2>7, <3>1, <3>2 DEF OneWay
  <2>10. Handled'
    <3>1. ASSUME NEW d \in Executions, NEW p \in task'[d].candidates
          PROVE  /\ stage'[d] = "linking" => p \in task'[d].todo \/ p \in task'[d].added \/ links'[p] > 0
                 /\ stage'[d] = "completed" => links'[p] > 0
      <4>1. task'[d].candidates = task[d].candidates
        BY <2>2, <2>3
      <4>2. p \in Pairs /\ p \in task[d].candidates
        BY <1>0, <3>1, <4>1
      <4>3. links[p] > 0 => links'[p] > 0
        BY <2>4, <4>2
      <4>4. CASE d = e
        <5>1. p \in task[e].added \/ links[p] > 0
          BY <2>1, <4>2, <4>4 DEF LinksKept, Handled
        <5>2. links'[p] > 0
          BY <2>4, <4>2, <5>1
        <5> QED BY <2>3, <4>4, <5>2
      <4>5. CASE d # e
        BY <2>3, <4>2, <4>3, <4>5 DEF LinksKept, Handled
      <4> QED BY <4>4, <4>5
    <3> QED BY <3>1 DEF Handled
  <2>11. ASSUME InTurn PROVE InTurn'
    <3>1. \A d \in Executions : d # e => ~UnderWay(d)
      BY <2>1, <2>11 DEF InTurn, UnderWay
    <3>2. \A d \in Executions : ~UnderWay(d)'
      BY <2>3, <3>1 DEF UnderWay
    <3>3. \A p \in Pairs : links'[p] <= 1
      BY <2>4, <2>11 DEF InTurn
    <3>4. ASSUME NEW d \in Executions PROVE stage'[d] # "raised" /\ task'[d].added = {}
      <4>1. CASE d = e
        BY <2>2, <2>3, <4>1
      <4>2. CASE d # e
        <5>1. stage[d] # "linking" /\ stage[d] # "raised"
          BY <2>11, <3>1, <4>2 DEF InTurn, UnderWay
        <5>2. task[d].added = {}
          BY <5>1 DEF LinksKept, LinkTypes
        <5> QED BY <2>3, <4>2, <5>1, <5>2
      <4> QED BY <4>1, <4>2
    <3> QED BY <3>2, <3>3, <3>4 DEF InTurn
  <2>12. shared' <=> shared
    BY <1>12, Zenon DEF FinishRun
  <2> QED BY <1>2, <2>6, <2>9, <2>10, <2>11, <2>12
<1> QED BY <1>3, <1>4, <1>5, <1>6, <1>7, <1>8, <1>10, <1>11, <1>12 DEF QualityNext

LEMMA LinksEnough ==
    ASSUME LinksKept
    PROVE  CompletedRunLinks
<1>1. ~shared => InTurn
  BY DEF LinksKept
<1>2. ASSUME NEW e \in Executions, stage[e] = "completed", NEW p \in task[e].candidates
      PROVE  Rows(p) >= 1 /\ (InTurn => Rows(p) = 1)
  <2>1. p \in Pairs /\ links[p] > 0 /\ Ordered(p)
    BY <1>2 DEF LinksKept, LinkTypes, Tasks, Handled, OneWay
  <2>2. <<p[2], p[1]>> \in Pairs /\ ~Ordered(<<p[2], p[1]>>)
    BY <2>1, OrderedOnce
  <2>3. links[p] \in Nat /\ links[<<p[2], p[1]>>] \in Nat /\ ~(links[<<p[2], p[1]>>] > 0)
    BY <2>1, <2>2 DEF LinksKept, LinkTypes, OneWay
  <2>4. InTurn => links[p] <= 1
    BY <2>1 DEF InTurn
  <2> QED BY <2>1, <2>3, <2>4 DEF Rows
<1>3. InTurn => \A e \in Executions : stage[e] # "raised"
  BY DEF InTurn
<1> QED BY <1>1, <1>2, <1>3 DEF CompletedRunLinks

LEMMA ScoresInit ==
    ASSUME QualityInit
    PROVE  ScoresAreTrue /\ LinksKept
<1>1. hour \in Int /\ table \in Seq(Resource) /\ assessments = {}
  BY DEF QualityInit
<1>2. task = [e \in Executions |-> NoTask] /\ NoTask.scored = {}
      /\ NoTask.todo = {} /\ NoTask.added = {} /\ NoTask.candidates = {}
  BY DEF QualityInit, NoTask
<1>3. ScoresAreTrue
  BY <1>1, <1>2, TasksInit DEF ScoresAreTrue
<1>4. links \in [Pairs -> Nat] /\ \A p \in Pairs : links[p] = 0
  BY DEF QualityInit
<1>5. stage \in [Executions -> Stages] /\ \A e \in Executions : stage[e] = "idle"
  BY DEF QualityInit, Stages
<1>6. LinkTypes /\ OneWay /\ Handled /\ InTurn
  BY <1>2, <1>3, <1>4, <1>5 DEF ScoresAreTrue, LinkTypes, OneWay, Handled, InTurn, UnderWay
<1> QED BY <1>3, <1>6 DEF LinksKept

(***************************************************************************)
(* The types of the pipeline, and its links                                *)
(***************************************************************************)

(* An assessment is of a stored record and of an hour that has passed.      *)
Known(a) == a.of \in Range(table) /\ a.at \in 0..hour

(* Whatever is scored is known, and a record is stored once.                *)
Recorded ==
    /\ hour \in 0..MaxHour
    /\ IsInjective(table)
    /\ assessments \subseteq Scores
    /\ \A a \in assessments : Known(a)
    /\ \A e \in Executions : \A a \in task[e].scored : Known(a)

(* Nothing known is forgotten while hours pass and records arrive.          *)
LEMMA KnownStays ==
    ASSUME hour \in Int, hour' \in Int, hour <= hour', Range(table) \subseteq Range(table'),
           NEW a, Known(a)
    PROVE  Known(a)'
BY DEF Known

(* A record that arrives is new.                                            *)
LEMMA ArrivalRecorded ==
    ASSUME ScoresAreTrue, Recorded, NEW x \in Resource, Arrive(x)
    PROVE  Recorded'
<1>1. /\ table \in Seq(Resource) /\ table' = Append(table, x) /\ x \notin Range(table)
      /\ UNCHANGED <<hour, assessments, task>>
  BY DEF ScoresAreTrue, Arrive
<1>2. /\ DOMAIN table' = 1 .. Len(table) + 1 /\ DOMAIN table = 1 .. Len(table)
      /\ \A i \in DOMAIN table : i \in DOMAIN table' /\ table'[i] = table[i]
      /\ table'[Len(table) + 1] = x /\ Len(table) \in Nat
  BY <1>1
<1>3. Range(table) \subseteq Range(table')
  BY <1>2 DEF Range
<1>4. \A i \in DOMAIN table : table[i] # x
  BY <1>1 DEF Range
<1>5. IsInjective(table')
  <2>1. ASSUME NEW i \in DOMAIN table', NEW j \in DOMAIN table', table'[i] = table'[j]
        PROVE  i = j
    <3>1. /\ i \in DOMAIN table \/ i = Len(table) + 1
          /\ j \in DOMAIN table \/ j = Len(table) + 1
      BY <1>2
    <3>2. \A k, l \in DOMAIN table : table[k] = table[l] => k = l
      BY DEF Recorded, IsInjective
    <3> QED BY <1>2, <1>4, <2>1, <3>1, <3>2
  <2> QED BY <2>1 DEF IsInjective
<1>6. hour \in Int /\ hour' \in Int /\ hour <= hour'
  BY <1>1 DEF ScoresAreTrue
<1>7. \A a : Known(a) => Known(a)'
  BY <1>3, <1>6, KnownStays
<1> QED BY <1>1, <1>5, <1>7 DEF Recorded

(* A step of one execution keeps what is recorded, if what it scores is     *)
(* known.                                                                   *)
LEMMA OwnRecorded ==
    ASSUME ScoresAreTrue, Recorded, UNCHANGED <<hour, table>>,
           NEW e \in Executions, NEW new, task' = [task EXCEPT ![e] = new],
           \A a \in new.scored : Known(a),
           assessments' \subseteq assessments \cup task[e].scored
    PROVE  Recorded'
<1>1. \A a : Known(a)' <=> Known(a)
  BY DEF Known
<1>2. task[e].scored \subseteq Scores
  BY DEF ScoresAreTrue, Tasks
<1>3. task \in Tasks
  BY DEF ScoresAreTrue
<1>4. task'[e] = new /\ \A d \in Executions : d # e => task'[d] = task[d]
  BY <1>3, TaskOf
<1>5. ASSUME NEW d \in Executions, NEW a \in task'[d].scored PROVE Known(a)
  <2>1. CASE d = e
    BY <1>4, <1>5, <2>1
  <2>2. CASE d # e
    BY <1>4, <1>5, <2>2 DEF Recorded
  <2> QED BY <2>1, <2>2
<1> QED BY <1>1, <1>2, <1>5 DEF Recorded

LEMMA RecordedStep ==
    ASSUME ScoresAreTrue, Recorded, QualityNext
    PROVE  Recorded'
<1>0. task \in Tasks /\ hour \in Int /\ table \in Seq(Resource) /\ Range(table) \subseteq Resource
  BY DEF ScoresAreTrue, Range
<1>1. ASSUME NEW x \in Resource, Arrive(x) PROVE Recorded'
  BY <1>1, ArrivalRecorded
<1>2. CASE Wait
  <2>1. PICK h \in Waits : hour + h <= MaxHour /\ hour' = hour + h
    BY <1>2 DEF Wait
  <2>2. hour' \in 0..MaxHour /\ hour <= hour'
    BY <1>0, <2>1, QualityBoundsAssumption DEF Recorded
  <2>3. UNCHANGED <<table, assessments, task>>
    BY <1>2 DEF Wait
  <2>4. hour' \in Int /\ Range(table) \subseteq Range(table')
    BY <2>2, <2>3
  <2>5. \A a : Known(a) => Known(a)'
    BY <1>0, <2>2, <2>4, KnownStays
  <2> QED BY <2>2, <2>3, <2>5 DEF Recorded
<1>3. ASSUME NEW e \in Executions, Begin(e) PROVE Recorded'
  <2> DEFINE new == [NoTask EXCEPT !.kinds = Tables]
  <2>1. /\ task' = [task EXCEPT ![e] = new] /\ UNCHANGED <<hour, table>>
        /\ assessments' = assessments
    BY <1>3 DEF Begin
  <2>2. new.scored = {}
    BY DEF NoTask
  <2> HIDE DEF new
  <2> QED BY <2>1, <2>2, OwnRecorded
<1>4. ASSUME NEW e \in Executions, Assess(e) PROVE Recorded'
  <2> DEFINE k == First(task[e].kinds)
             more == {Assessment(x, hour) : x \in NewestCreated(k)}
             new == [task[e] EXCEPT !.kinds = task[e].kinds \ {k}, !.scored = task[e].scored \cup more]
  <2>1. /\ task' = [task EXCEPT ![e] = new] /\ UNCHANGED <<hour, table>>
        /\ assessments' = assessments
    BY <1>4, Zenon DEF Assess
  <2> HIDE DEF k
  <2>2. \A a \in more : Known(a)
    <3>1. NewestCreated(k) \subseteq Range(table)
      BY DEF NewestCreated, OfKind
    <3>2. hour \in 0..hour
      BY DEF Recorded
    <3> QED BY <3>1, <3>2 DEF Known, Assessment
  <2> HIDE DEF more
  <2>3. new.scored = task[e].scored \cup more
    BY <1>0 DEF Tasks
  <2>4. \A a \in new.scored : Known(a)
    BY <2>2, <2>3 DEF Recorded
  <2> HIDE DEF new
  <2> QED BY <2>1, <2>4, OwnRecorded
<1>5. ASSUME NEW e \in Executions, NEW new, task' = [task EXCEPT ![e] = new],
             new.scored = task[e].scored, UNCHANGED <<hour, table, assessments>>
      PROVE  Recorded'
  <2>1. \A a \in new.scored : Known(a)
    BY <1>5 DEF Recorded
  <2> QED BY <1>5, <2>1, OwnRecorded
<1>6. ASSUME NEW e \in Executions, Group(e) PROVE Recorded'
  <2>1. PICK window \in NewestObserved :
            task' = [task EXCEPT ![e] = [@ EXCEPT !.candidates = Candidates(window),
                                                  !.todo = Candidates(window)]]
    BY <1>6 DEF Group
  <2> DEFINE new == [task[e] EXCEPT !.candidates = Candidates(window), !.todo = Candidates(window)]
  <2>2. task' = [task EXCEPT ![e] = new] /\ UNCHANGED <<hour, table, assessments>>
    BY <1>6, <2>1, Zenon DEF Group
  <2>3. new.scored = task[e].scored
    BY <1>0 DEF Tasks
  <2> HIDE DEF new
  <2> QED BY <1>5, <2>2, <2>3
<1>7. ASSUME NEW e \in Executions, Link(e) PROVE Recorded'
  <2>1. PICK p \in task[e].todo :
            task' = [task EXCEPT ![e] = [@ EXCEPT !.todo = task[e].todo \ {p},
                          !.added = task[e].added \cup (IF LinkExists(p) THEN {} ELSE {p})]]
    BY <1>7 DEF Link
  <2> DEFINE grown == task[e].added \cup (IF LinkExists(p) THEN {} ELSE {p})
             new == [task[e] EXCEPT !.todo = task[e].todo \ {p}, !.added = grown]
  <2>2. task' = [task EXCEPT ![e] = new] /\ UNCHANGED <<hour, table, assessments>>
    BY <1>7, <2>1, Zenon DEF Link
  <2> HIDE DEF grown
  <2>3. new.scored = task[e].scored
    BY <1>0 DEF Tasks
  <2> HIDE DEF new
  <2> QED BY <1>5, <2>2, <2>3
<1>8. ASSUME NEW e \in Executions, Raise(e) \/ Abort(e) PROVE Recorded'
  <2>1. /\ task' = [task EXCEPT ![e] = NoTask] /\ UNCHANGED <<hour, table>>
        /\ assessments' = assessments /\ NoTask.scored = {}
    BY <1>8 DEF Raise, Abort, NoTask
  <2> QED BY <2>1, OwnRecorded
<1>9. ASSUME NEW e \in Executions, FinishRun(e) PROVE Recorded'
  <2> DEFINE new == [NoTask EXCEPT !.candidates = task[e].candidates]
  <2>1. /\ task' = [task EXCEPT ![e] = new] /\ UNCHANGED <<hour, table>>
        /\ assessments' = assessments \cup task[e].scored
    BY <1>9 DEF FinishRun
  <2>2. new.scored = {}
    BY DEF NoTask
  <2> HIDE DEF new
  <2> QED BY <2>1, <2>2, OwnRecorded
<1> QED BY <1>1, <1>2, <1>3, <1>4, <1>6, <1>7, <1>8, <1>9 DEF QualityNext

LEMMA SharedStep ==
    ASSUME shared \in BOOLEAN, QualityNext
    PROVE  shared' \in BOOLEAN
BY Zenon DEF QualityNext, Arrive, Wait, Begin, Assess, Group, Link, Raise, Abort, FinishRun

(* The inductive invariant of the pipeline.                                 *)
QualityKept == ScoresAreTrue /\ LinksKept /\ Recorded /\ shared \in BOOLEAN

LEMMA QualityKeptInit ==
    ASSUME QualityInit
    PROVE  QualityKept
<1>1. ScoresAreTrue /\ LinksKept
  BY ScoresInit
<1>2. Recorded
  <2>1. hour = 0 /\ table = <<>> /\ assessments = {} /\ task = [e \in Executions |-> NoTask]
    BY DEF QualityInit
  <2>2. 0 \in 0..MaxHour
    BY QualityBoundsAssumption
  <2>3. DOMAIN table = {}
    BY <2>1
  <2>4. NoTask.scored = {}
    BY DEF NoTask
  <2> QED BY <2>1, <2>2, <2>3, <2>4 DEF Recorded, IsInjective
<1>3. shared \in BOOLEAN
  BY Zenon DEF QualityInit
<1> QED BY <1>1, <1>2, <1>3 DEF QualityKept

LEMMA QualityKeptStep ==
    ASSUME QualityKept, QualityNext \/ UNCHANGED qualityVars
    PROVE  QualityKept'
<1>1. CASE QualityNext
  <2>1. ScoresAreTrue' /\ task' \in Tasks
    BY <1>1, ScoresStep DEF QualityKept, ScoresAreTrue
  <2>2. LinksKept'
    BY <1>1, <2>1, LinksStep DEF QualityKept
  <2>3. Recorded'
    BY <1>1, RecordedStep DEF QualityKept
  <2>4. shared' \in BOOLEAN
    BY <1>1, SharedStep DEF QualityKept
  <2> QED BY <2>1, <2>2, <2>3, <2>4 DEF QualityKept
<1>2. CASE UNCHANGED qualityVars
  <2>1. ScoresAreTrue'
    BY <1>2 DEF QualityKept, ScoresAreTrue, qualityVars, Scored
  <2>2. UNCHANGED <<links, stage, task, shared>>
    BY <1>2 DEF qualityVars
  <2>3. LinksKept'
    BY <2>2, LinksSame DEF QualityKept
  <2>4. Recorded'
    BY <1>2 DEF QualityKept, Recorded, qualityVars, Known
  <2>5. shared' \in BOOLEAN
    BY <1>2, Zenon DEF QualityKept, qualityVars
  <2> QED BY <2>1, <2>3, <2>4, <2>5 DEF QualityKept
<1> QED BY <1>1, <1>2

LEMMA QualityKeptEnough ==
    ASSUME QualityKept
    PROVE  QualityTypeOK
<1>1. ASSUME NEW a \in assessments
      PROVE  /\ a.of \in Range(table) /\ a.at \in 0..hour
             /\ a.value \in 0..Cap[Facts[a.of].provenance]
  <2>1. Known(a) /\ Scored(a)
    BY DEF QualityKept, Recorded, ScoresAreTrue
  <2>2. Facts[a.of] \in FactRecord
    BY <2>1, FactsTyped DEF Scored
  <2>3. Value(Facts[a.of], a.at) \in 0..Cap[Facts[a.of].provenance]
    <3>1. a.at \in Int /\ a.at <= a.at
      BY <2>1 DEF Scored, Scores
    <3> QED BY <2>2, <3>1, ValueFades
  <2> QED BY <2>1, <2>3 DEF Known, Scored
<1>2. \A e \in Executions : task[e].todo \cup task[e].added \subseteq task[e].candidates
  BY DEF QualityKept, LinksKept, LinkTypes
<1>3. hour \in 0..MaxHour /\ IsInjective(table) /\ assessments \subseteq Scores
  BY DEF QualityKept, Recorded
<1>4. /\ table \in Seq(Resource)
      /\ links \in [Pairs -> Nat] /\ stage \in [Executions -> Stages]
  BY DEF QualityKept, ScoresAreTrue, LinksKept, LinkTypes
<1>5. task \in [Executions -> [kinds : SUBSET Kinds, scored : SUBSET Scores,
                               candidates : SUBSET Pairs, todo : SUBSET Pairs, added : SUBSET Pairs]]
  BY DEF QualityKept, ScoresAreTrue, Tasks
<1>6. shared \in BOOLEAN
  BY DEF QualityKept
<1> QED BY <1>1, <1>2, <1>3, <1>4, <1>5, <1>6, Zenon DEF QualityTypeOK

(* The types of the pipeline, for any number of executions: every committed *)
(* score is of a stored record, of a past hour and within the cap of its    *)
(* provenance, and no run links a pair that was not its candidate.          *)
THEOREM QualityTypes == QualitySpec => []QualityTypeOK
<1>1. QualityKept /\ [QualityNext]_qualityVars => QualityKept'
  BY QualityKeptStep
<1> QED BY <1>1, QualityKeptInit, QualityKeptEnough, PTL DEF QualitySpec

(* For any number of executions, a run that completes leaves every pair of  *)
(* near detections it saw linked, by one row while no two runs overlap; and *)
(* until they do no run stops at a pair with two rows.                      *)
THEOREM CompletedRunsLink == QualitySpec => []CompletedRunLinks
<1>1. QualityKept /\ [QualityNext]_qualityVars => QualityKept'
  BY QualityKeptStep
<1>2. QualityKept => CompletedRunLinks
  BY LinksEnough DEF QualityKept
<1> QED BY <1>1, <1>2, QualityKeptInit, PTL DEF QualitySpec

(***************************************************************************)
(* Types                                                                   *)
(***************************************************************************)

(* A page is a body.                                                        *)
LEMMA PageType ==
    ASSUME PortalTypeOK, NEW q \in Query
    PROVE  Page(q) \in Bodies
BY MatchesAssumption DEF PortalTypeOK, Page, Bodies

(* A request that is not in flight is well typed.                           *)
LEMMA IdleType ==
    ASSUME PortalTypeOK
    PROVE  Idle \in [at : Places, client : Client, query : Query, key : Keys \cup {<<>>},
                     known : Bodies, body : Bodies, read : 0..tick]
<1>1. (CHOOSE c \in Client : TRUE) \in Client /\ (CHOOSE q \in Query : TRUE) \in Query
  BY ClientsAssumption
<1>2. NoBody \in Bodies
  BY DEF NoBody, Bodies
<1>3. 0 \in 0..tick
  BY DEF PortalTypeOK
<1> QED BY <1>1, <1>2, <1>3 DEF Idle, Places

(* The clock names a minute.                                                *)
LEMMA KeyType ==
    ASSUME PortalTypeOK, NEW c \in Client
    PROVE  /\ Key(c) \in Keys
           /\ tick \div Minute \in Nat
           /\ Minute * (tick \div Minute) <= tick
           /\ tick < Minute * (tick \div Minute) + Minute
<1>1. tick \in Nat /\ Minute \in Nat /\ Minute > 0
  BY TicksAssumption DEF PortalTypeOK
<1>2. /\ tick \div Minute \in Nat
      /\ Minute * (tick \div Minute) <= tick
      /\ tick < Minute * (tick \div Minute) + Minute
  BY <1>1
<1> QED BY <1>2 DEF Key, Keys

(* incr leaves counters.                                                    *)
LEMMA IncrementedType ==
    ASSUME PortalTypeOK, NEW c \in Client
    PROVE  /\ DOMAIN Incremented(c) = DOMAIN counter \cup {Key(c)}
           /\ DOMAIN Incremented(c) \subseteq Keys
           /\ Incremented(c) \in [DOMAIN Incremented(c) -> [count : Nat \ {0}, expires : Nat]]
           /\ \A k \in DOMAIN Incremented(c) : Incremented(c)[k].expires > tick
           /\ Incremented(c)[Key(c)].count = Count(c)
           /\ Count(c) \in Nat \ {0}
           /\ \A k \in DOMAIN counter : k # Key(c) => Incremented(c)[k] = counter[k]
           /\ Key(c) \in DOMAIN counter =>
                 Incremented(c)[Key(c)].expires = counter[Key(c)].expires
           /\ Key(c) \notin DOMAIN counter => Incremented(c)[Key(c)].expires = Never
<1>1. Key(c) \in Keys
  BY KeyType
<1>2. Never \in Nat /\ Never > tick
  BY TicksAssumption DEF PortalTypeOK, Never
<1>3. CASE Key(c) \in DOMAIN counter
  <2>1. counter[Key(c)] \in [count : Nat \ {0}, expires : Nat] /\ counter[Key(c)].expires > tick
    BY <1>3 DEF PortalTypeOK
  <2>2. Count(c) = counter[Key(c)].count + 1 /\ Count(c) # 1
    BY <1>3, <2>1 DEF Count
  <2>3. Incremented(c) = Put(counter, Key(c), [counter[Key(c)] EXCEPT !.count = @ + 1])
    BY <2>2 DEF Incremented
  <2>4. Incremented(c) = [x \in DOMAIN counter \cup {Key(c)} |->
            IF x = Key(c) THEN [counter[Key(c)] EXCEPT !.count = @ + 1] ELSE counter[x]]
    BY <2>3 DEF Put
  <2> QED BY <1>1, <1>3, <2>1, <2>2, <2>4 DEF PortalTypeOK
<1>4. CASE Key(c) \notin DOMAIN counter
  <2>1. Count(c) = 1
    BY <1>4 DEF Count
  <2>2. Incremented(c) = [x \in DOMAIN counter \cup {Key(c)} |->
            IF x = Key(c) THEN [count |-> 1, expires |-> Never] ELSE counter[x]]
    BY <2>1 DEF Incremented, Put
  <2> QED BY <1>1, <1>2, <1>4, <2>1, <2>2 DEF PortalTypeOK
<1> QED BY <1>3, <1>4

(* What expires is dropped, and the rest stays.                             *)
LEMMA AliveType ==
    ASSUME NEW f, NEW k
    PROVE  /\ DOMAIN Alive(f) = {x \in DOMAIN f : f[x].expires > tick + 1}
           /\ k \in DOMAIN Alive(f) => Alive(f)[k] = f[k]
BY DEF Alive, Restrict

LEMMA SlowerType ==
    ASSUME PortalTypeOK, NEW r \in Request
    PROVE  /\ Slower(r) \in 0..tick
           /\ Slower(r) >= slowest
           /\ Slower(r) >= tick - req[r].read
<1>1. slowest \in Int /\ tick - req[r].read \in Int /\ tick \in Nat
  BY DEF PortalTypeOK
<1>2. PICK x \in {slowest, tick - req[r].read} : \A y \in {slowest, tick - req[r].read} : x >= y
  BY <1>1
<1>3. /\ Slower(r) \in {slowest, tick - req[r].read}
      /\ \A y \in {slowest, tick - req[r].read} : Slower(r) >= y
  BY <1>2 DEF Slower, Max
<1> QED BY <1>1, <1>3 DEF PortalTypeOK

(* An answer leaves a copy and a free request.                              *)
LEMMA AnswerType ==
    ASSUME PortalTypeOK, NEW r \in Request, NEW b \in Bodies, Answer(r, b)
    PROVE  /\ copy' \in [Client -> [Query -> [body : Bodies, until : 0 .. tick + Ttl]]]
           /\ req' \in [Request -> [at : Places, client : Client, query : Query,
                            key : Keys \cup {<<>>}, known : Bodies, body : Bodies, read : 0..tick]]
<1>1. [body |-> b, until |-> tick + Ttl] \in [body : Bodies, until : 0 .. tick + Ttl]
  BY TicksAssumption DEF PortalTypeOK
<1>2. copy' = [copy EXCEPT ![req[r].client][req[r].query] = [body |-> b, until |-> tick + Ttl]]
  BY DEF Answer
<1>3. copy' \in [Client -> [Query -> [body : Bodies, until : 0 .. tick + Ttl]]]
  BY <1>1, <1>2 DEF PortalTypeOK
<1>4. req' = [req EXCEPT ![r] = Idle]
  BY DEF Answer
<1> QED BY <1>3, <1>4, IdleType DEF PortalTypeOK

(* Every step keeps the types.                                              *)
LEMMA PortalTypeStep ==
    ASSUME PortalTypeOK, PortalNext
    PROVE  PortalTypeOK'
<1> USE DEF PortalTypeOK
<1> DEFINE Req == [at : Places, client : Client, query : Query, key : Keys \cup {<<>>},
                   known : Bodies, body : Bodies, read : 0..tick]
<1>1. ASSUME NEW r \in Request, NEW c \in Client, NEW q \in Query, Admit(r, c, q) \/ Refuse(r, c, q)
      PROVE  PortalTypeOK'
  <2>1. counter' \in {counter, Incremented(c)}
    BY <1>1 DEF Admit, Refuse
  <2>2. Asked(c, q) \in Req
    <3>1. Idle \in Req
      BY IdleType
    <3>2. copy[c][q].body \in Bodies
      OBVIOUS
    <3> QED BY <3>1, <3>2 DEF Asked
  <2>3. [Asked(c, q) EXCEPT !.at = "expiring", !.key = Key(c)] \in Req
    BY <2>2, KeyType DEF Places
  <2>4. [Asked(c, q) EXCEPT !.at = "reading"] \in Req
    BY <2>2 DEF Places
  <2>5. [Idle EXCEPT !.client = c, !.at = "refused"] \in Req
    BY IdleType DEF Places
  <2>6. req' \in [Request -> Req]
    <3>1. PICK new \in Req : req' = [req EXCEPT ![r] = new]
      BY <1>1, <2>3, <2>4, <2>5 DEF Admit, Refuse
    <3> QED BY <3>1
  <2>7. admitted' \in [Client -> Nat]
    <3>1. admitted' = admitted \/ admitted' = [admitted EXCEPT ![c] = admitted[c] + 1]
      BY <1>1, Zenon DEF Admit, Refuse
    <3>2. admitted \in [Client -> Nat] /\ admitted[c] + 1 \in Nat
      OBVIOUS
    <3>3. [admitted EXCEPT ![c] = admitted[c] + 1] \in [Client -> Nat]
      BY <3>2
    <3>4. CASE admitted' = admitted
      BY <3>2, <3>4
    <3>5. CASE admitted' = [admitted EXCEPT ![c] = admitted[c] + 1]
      BY <3>3, <3>5
    <3> QED BY <3>1, <3>4, <3>5
  <2>8. UNCHANGED <<tick, hidden, changes, redis, cache, copy, since, trouble, slowest>>
    BY <1>1 DEF Admit, Refuse
  <2>9. /\ DOMAIN counter' \subseteq Keys
        /\ counter' \in [DOMAIN counter' -> [count : Nat \ {0}, expires : Nat]]
        /\ \A k \in DOMAIN counter' : counter'[k].expires > tick
    BY <2>1, IncrementedType
  <2> QED BY <2>6, <2>7, <2>8, <2>9
<1>2. ASSUME NEW r \in Request, Expire(r) PROVE PortalTypeOK'
  <2>1. counter' = counter \/ (req[r].key \in DOMAIN counter
           /\ counter' = [counter EXCEPT ![req[r].key].expires = tick + Expiry])
    BY <1>2 DEF Expire
  <2>2. /\ DOMAIN counter' \subseteq Keys
        /\ counter' \in [DOMAIN counter' -> [count : Nat \ {0}, expires : Nat]]
        /\ \A k \in DOMAIN counter' : counter'[k].expires > tick
    <3>1. CASE counter' = counter
      BY <3>1
    <3>2. CASE /\ req[r].key \in DOMAIN counter
               /\ counter' = [counter EXCEPT ![req[r].key].expires = tick + Expiry]
      <4>1. tick + Expiry \in Nat /\ tick + Expiry > tick
        BY TicksAssumption
      <4>2. counter[req[r].key] \in [count : Nat \ {0}, expires : Nat]
        BY <3>2
      <4>3. [counter[req[r].key] EXCEPT !.expires = tick + Expiry] \in [count : Nat \ {0}, expires : Nat]
        BY <4>1, <4>2
      <4>4. counter' = [counter EXCEPT ![req[r].key] = [counter[req[r].key] EXCEPT !.expires = tick + Expiry]]
        BY <3>2
      <4> QED BY <3>2, <4>1, <4>2, <4>3, <4>4
    <3> QED BY <2>1, <3>1, <3>2
  <2>3. req' \in [Request -> Req]
    <3>1. req' = [req EXCEPT ![r].at = "reading", ![r].key = <<>>]
      BY <1>2 DEF Expire
    <3>2. [req[r] EXCEPT !.at = "reading", !.key = <<>>] \in Req
      BY DEF Places
    <3>3. req' = [req EXCEPT ![r] = [req[r] EXCEPT !.at = "reading", !.key = <<>>]]
      BY <3>1
    <3> QED BY <3>2, <3>3
  <2> QED BY <1>2, <2>2, <2>3 DEF Expire
<1>3. ASSUME NEW r \in Request, Read(r) PROVE PortalTypeOK'
  <2>1. req' \in [Request -> Req]
    <3>1. req' = [req EXCEPT ![r].at = "looking", ![r].body = Page(req[r].query), ![r].read = tick]
      BY <1>3 DEF Read
    <3>2. Page(req[r].query) \in Bodies /\ tick \in 0..tick
      BY PageType
    <3>3. [req[r] EXCEPT !.at = "looking", !.body = Page(req[r].query), !.read = tick] \in Req
      BY <3>2 DEF Places
    <3>4. req' = [req EXCEPT ![r] =
              [req[r] EXCEPT !.at = "looking", !.body = Page(req[r].query), !.read = tick]]
      BY <3>1
    <3> QED BY <3>3, <3>4
  <2> QED BY <1>3, <2>1 DEF Read
<1>4. ASSUME NEW r \in Request, Serve(r) PROVE PortalTypeOK'
  <2>1. cache[req[r].query].body \in Bodies
    BY <1>4 DEF Serve, Hit
  <2> QED BY <1>4, <2>1, AnswerType DEF Serve
<1>5. ASSUME NEW r \in Request, Miss(r) PROVE PortalTypeOK'
  <2>1. req[r].body \in Bodies
    OBVIOUS
  <2>2. CASE req[r].known = req[r].body
    BY <1>5, <2>1, <2>2, AnswerType, SlowerType DEF Miss
  <2>3. CASE req[r].known # req[r].body
    <3>1. req' \in [Request -> Req]
      <4>1. req' = [req EXCEPT ![r] = [req[r] EXCEPT !.at = "storing"]]
        BY <1>5, <2>3 DEF Miss
      <4>2. [req[r] EXCEPT !.at = "storing"] \in Req
        BY DEF Places
      <4> QED BY <4>1, <4>2
    <3> QED BY <1>5, <2>3, <3>1 DEF Miss
  <2> QED BY <2>2, <2>3
<1>6. ASSUME NEW r \in Request, Store(r) PROVE PortalTypeOK'
  <2>1. req[r].body \in Bodies /\ req[r].query \in Query
    OBVIOUS
  <2>2. [body |-> req[r].body, expires |-> tick + Ttl] \in [body : Bodies, expires : tick + 1 .. tick + Ttl]
    BY <2>1, TicksAssumption
  <2>3. DOMAIN cache' \subseteq Query /\ cache' \in [DOMAIN cache' -> [body : Bodies, expires : tick + 1 .. tick + Ttl]]
    BY <1>6, <2>1, <2>2 DEF Store, Put
  <2> QED BY <1>6, <2>1, <2>3, AnswerType, SlowerType DEF Store
<1>7. ASSUME NEW r \in Request, Drop(r) PROVE PortalTypeOK'
  BY <1>7, IdleType DEF Drop
<1>8. ASSUME NEW i \in Incident, Hide(i) \/ Show(i) PROVE PortalTypeOK'
  BY <1>8, TicksAssumption DEF Hide, Show
<1>9. CASE RedisAway \/ RedisBack
  <2>1. redis' \in BOOLEAN /\ trouble' \in BOOLEAN
    BY <1>9, Zenon DEF RedisAway, RedisBack
  <2>2. changes' \in 0..MaxChanges
    BY <1>9, TicksAssumption DEF RedisAway, RedisBack
  <2>3. /\ counter' = counter \/ counter' = [k \in {} |-> 0]
        /\ cache' = cache \/ cache' = [q \in {} |-> 0]
        /\ UNCHANGED <<tick, hidden, req, copy, since, admitted, slowest>>
    BY <1>9, Zenon DEF RedisAway, RedisBack
  <2>4. /\ DOMAIN counter' \subseteq Keys
        /\ counter' \in [DOMAIN counter' -> [count : Nat \ {0}, expires : Nat]]
        /\ \A k \in DOMAIN counter' : counter'[k].expires > tick
    BY <2>3
  <2>5. DOMAIN cache' \subseteq Query /\ cache' \in [DOMAIN cache' -> [body : Bodies, expires : tick + 1 .. tick + Ttl]]
    BY <2>3
  <2> QED BY <2>1, <2>2, <2>3, <2>4, <2>5
<1>10. CASE Tick
  <2>1. /\ DOMAIN counter' \subseteq Keys
        /\ counter' \in [DOMAIN counter' -> [count : Nat \ {0}, expires : Nat]]
        /\ \A k \in DOMAIN counter' : counter'[k].expires > tick'
    BY <1>10 DEF Tick, Alive, Restrict
  <2>2. DOMAIN cache' \subseteq Query /\ cache' \in [DOMAIN cache' -> [body : Bodies, expires : tick' + 1 .. tick' + Ttl]]
    BY <1>10, TicksAssumption DEF Tick, Alive, Restrict
  <2>3. tick' \in 0..MaxTick /\ 0..tick \subseteq 0..tick' /\ 0..tick+Ttl \subseteq 0..tick'+Ttl
    BY <1>10, TicksAssumption DEF Tick
  <2>4. admitted' \in [Client -> Nat] /\ trouble' \in BOOLEAN
    <3>1. (admitted' = [c \in Client |-> 0] /\ trouble' = ~redis) \/ UNCHANGED <<admitted, trouble>>
      BY <1>10, Zenon DEF Tick
    <3>2. trouble' \in BOOLEAN
      BY <3>1, Zenon
    <3> QED BY <3>1, <3>2
  <2>5. UNCHANGED <<hidden, changes, redis, req, copy, since, slowest>>
    BY <1>10 DEF Tick
  <2>6. req' \in [Request -> [at : Places, client : Client, query : Query, key : Keys \cup {<<>>},
                              known : Bodies, body : Bodies, read : 0..tick']]
    BY <2>3, <2>5
  <2>7. copy' \in [Client -> [Query -> [body : Bodies, until : 0 .. tick' + Ttl]]]
    BY <2>3, <2>5
  <2> QED BY <2>1, <2>2, <2>3, <2>4, <2>5, <2>6, <2>7
<1> QED BY <1>1, <1>2, <1>3, <1>4, <1>5, <1>6, <1>7, <1>8, <1>9, <1>10 DEF PortalNext

LEMMA PortalTypeInit ==
    ASSUME PortalInit
    PROVE  PortalTypeOK
<1>1. tick = 0 /\ 0 \in 0..MaxTick /\ 0 \in 0..MaxChanges /\ 0 \in 0 .. 0 + Ttl
  BY TicksAssumption DEF PortalInit
<1>2. NoCopy \in [body : Bodies, until : 0 .. 0 + Ttl]
  BY <1>1 DEF NoCopy, NoBody, Bodies
<1>3. Idle \in [at : Places, client : Client, query : Query, key : Keys \cup {<<>>},
                known : Bodies, body : Bodies, read : 0..0]
  <2>1. (CHOOSE c \in Client : TRUE) \in Client /\ (CHOOSE q \in Query : TRUE) \in Query
    BY ClientsAssumption
  <2>2. NoBody \in Bodies
    BY DEF NoBody, Bodies
  <2> QED BY <2>1, <2>2 DEF Idle, Places
<1>4. /\ DOMAIN counter = {} /\ DOMAIN cache = {}
      /\ req = [r \in Request |-> Idle]
      /\ copy = [c \in Client |-> [q \in Query |-> NoCopy]]
  BY DEF PortalInit
<1>5. /\ DOMAIN counter \subseteq Keys
      /\ counter \in [DOMAIN counter -> [count : Nat \ {0}, expires : Nat]]
      /\ \A k \in DOMAIN counter : counter[k].expires > tick
      /\ DOMAIN cache \subseteq Query
      /\ cache \in [DOMAIN cache -> [body : Bodies, expires : tick + 1 .. tick + Ttl]]
  BY <1>4 DEF PortalInit
<1>6. redis \in BOOLEAN /\ trouble \in BOOLEAN
  BY Zenon DEF PortalInit
<1>7. /\ changes \in 0..MaxChanges /\ hidden \subseteq Incident /\ since \in [Incident -> 0..tick]
      /\ admitted \in [Client -> Nat] /\ slowest \in 0..tick
  BY <1>1 DEF PortalInit
<1> QED BY <1>1, <1>2, <1>3, <1>4, <1>5, <1>6, <1>7 DEF PortalTypeOK

(* The types of Portal hold for all values of the constants.                *)
THEOREM PortalTypes == PortalSpec => []PortalTypeOK
<1>1. ASSUME PortalTypeOK, UNCHANGED portalVars PROVE PortalTypeOK'
  BY <1>1 DEF PortalTypeOK, portalVars
<1>2. PortalTypeOK /\ [PortalNext]_portalVars => PortalTypeOK'
  BY <1>1, PortalTypeStep
<1> QED BY <1>2, PortalTypeInit, PTL DEF PortalSpec

(***************************************************************************)
(* How long a hidden incident lives on in copies                           *)
(***************************************************************************)

(* A page still unsent shows only incidents hidden since it was read.       *)
InFlight ==
    \A r \in Request : req[r].at \in {"looking", "storing"} =>
        \A i \in req[r].body.items \cap hidden : since[i] >= req[r].read

(* What Redis keeps was read at most the slowest page before it was stored. *)
InCache ==
    \A q \in DOMAIN cache : \A i \in cache[q].body.items \cap hidden :
        cache[q].expires <= since[i] + Ttl + slowest

(* A copy is made while the body it is made of has a tick to live, or when  *)
(* its page is sent, and lives for one cache time.                          *)
InCopies ==
    \A c \in Client, q \in Query : \A i \in copy[c][q].body.items \cap hidden :
        copy[c][q].until <= since[i] + 2 * Ttl + slowest - 1

Fading == InFlight /\ InCache /\ InCopies

(* A page just read shows nothing hidden.                                   *)
LEMMA PageShowsNothingHidden ==
    ASSUME NEW q
    PROVE  Page(q).items \cap hidden = {}
BY DEF Page

(* An answer whose hidden incidents are recent enough keeps the bound of    *)
(* copies.                                                                  *)
LEMMA AnswerFades ==
    ASSUME PortalTypeOK, InCopies, NEW r \in Request, NEW b \in Bodies, Answer(r, b),
           UNCHANGED <<hidden, since>>, slowest' \in Nat, slowest' >= slowest,
           \A i \in b.items \cap hidden : tick < since[i] + Ttl + slowest'
    PROVE  InCopies'
<1>1. copy' = [copy EXCEPT ![req[r].client][req[r].query] = [body |-> b, until |-> tick + Ttl]]
  BY DEF Answer
<1>2. req[r].client \in Client /\ req[r].query \in Query
  BY DEF PortalTypeOK
<1>3. SUFFICES ASSUME NEW c \in Client, NEW q \in Query, NEW i \in copy'[c][q].body.items \cap hidden
               PROVE  copy'[c][q].until <= since[i] + 2 * Ttl + slowest' - 1
  BY DEF InCopies
<1>4. tick \in Nat /\ Ttl \in Nat \ {0} /\ slowest \in Nat
  BY TicksAssumption DEF PortalTypeOK
<1>5. CASE c = req[r].client /\ q = req[r].query
  <2>1. copy'[c][q] = [body |-> b, until |-> tick + Ttl]
    BY <1>1, <1>2, <1>5 DEF PortalTypeOK
  <2>2. i \in Incident /\ since[i] \in Nat
    BY DEF PortalTypeOK
  <2>3. tick < since[i] + Ttl + slowest'
    BY <2>1, <1>3
  <2>4. copy'[c][q].until = tick + Ttl
    BY <2>1
  <2> QED BY <1>4, <2>2, <2>3, <2>4
<1>6. CASE ~(c = req[r].client /\ q = req[r].query)
  <2>1. copy'[c][q] = copy[c][q]
    BY <1>1, <1>2, <1>6 DEF PortalTypeOK
  <2>2. since[i] \in Nat /\ copy[c][q].until \in Nat
    <3>1. copy[c][q] \in [body : Bodies, until : 0 .. tick + Ttl]
      BY DEF PortalTypeOK
    <3> QED BY <1>3, <1>4, <3>1 DEF PortalTypeOK
  <2>3. copy[c][q].until <= since[i] + 2 * Ttl + slowest - 1
    BY <1>3, <2>1 DEF InCopies
  <2> QED BY <1>4, <2>1, <2>2, <2>3
<1> QED BY <1>5, <1>6

(* An answer leaves no page unsent for its request.                         *)
LEMMA AnswerSends ==
    ASSUME PortalTypeOK, InFlight, NEW r \in Request, NEW b, Answer(r, b), UNCHANGED <<hidden, since>>
    PROVE  InFlight'
<1>1. req' = [req EXCEPT ![r] = Idle] /\ Idle.at = "idle"
  BY DEF Answer, Idle
<1> QED BY <1>1 DEF InFlight, PortalTypeOK

(* Another request comes, goes or moves on: no page of another one changes. *)
LEMMA OthersFly ==
    ASSUME PortalTypeOK, InFlight, UNCHANGED <<hidden, since>>,
           NEW r \in Request, NEW new, req' = [req EXCEPT ![r] = new],
           new.at \in {"looking", "storing"} =>
               \A i \in new.body.items \cap hidden : since[i] >= new.read
    PROVE  InFlight'
<1>1. ASSUME NEW s \in Request, req'[s].at \in {"looking", "storing"}, NEW i \in req'[s].body.items \cap hidden
      PROVE  since[i] >= req'[s].read
  <2>1. CASE s = r
    BY <1>1, <2>1 DEF PortalTypeOK
  <2>2. CASE s # r
    BY <1>1, <2>2 DEF PortalTypeOK, InFlight
  <2> QED BY <2>1, <2>2
<1> QED BY <1>1 DEF InFlight

(* Every step keeps the bounds.                                             *)
LEMMA FadingStep ==
    ASSUME PortalTypeOK, Fading, PortalNext
    PROVE  Fading'
<1> USE DEF Fading
<1>0. PortalTypeOK'
  BY PortalTypeStep
<1>1. ASSUME NEW r \in Request, NEW c \in Client, NEW q \in Query, Admit(r, c, q) \/ Refuse(r, c, q)
      PROVE  Fading'
  <2>1. UNCHANGED <<hidden, since, cache, copy, slowest>>
    BY <1>1 DEF Admit, Refuse
  <2>2. InCache' /\ InCopies'
    BY <2>1 DEF InCache, InCopies
  <2>3. PICK new \in {[Asked(c, q) EXCEPT !.at = "expiring", !.key = Key(c)],
                      [Asked(c, q) EXCEPT !.at = "reading"],
                      [Idle EXCEPT !.client = c, !.at = "refused"]} : req' = [req EXCEPT ![r] = new]
    BY <1>1 DEF Admit, Refuse
  <2>4. new.at \in {"expiring", "reading", "refused"}
    BY <2>3 DEF Asked, Idle
  <2>5. InFlight'
    BY <2>1, <2>3, <2>4, OthersFly
  <2> QED BY <2>2, <2>5
<1>2. ASSUME NEW r \in Request, Expire(r) PROVE Fading'
  <2>1. UNCHANGED <<hidden, since, cache, copy, slowest>>
    BY <1>2 DEF Expire
  <2>2. InCache' /\ InCopies'
    BY <2>1 DEF InCache, InCopies
  <2>3. req' = [req EXCEPT ![r] = [req[r] EXCEPT !.at = "reading", !.key = <<>>]]
    BY <1>2 DEF Expire
  <2>4. [req[r] EXCEPT !.at = "reading", !.key = <<>>].at = "reading"
    BY DEF PortalTypeOK
  <2>5. InFlight'
    BY <2>1, <2>3, <2>4, OthersFly
  <2> QED BY <2>2, <2>5
<1>3. ASSUME NEW r \in Request, Read(r) PROVE Fading'
  <2>1. UNCHANGED <<hidden, since, cache, copy, slowest>>
    BY <1>3 DEF Read
  <2>2. InCache' /\ InCopies'
    BY <2>1 DEF InCache, InCopies
  <2> DEFINE new == [req[r] EXCEPT !.at = "looking", !.body = Page(req[r].query), !.read = tick]
  <2>3. req' = [req EXCEPT ![r] = new]
    BY <1>3 DEF Read
  <2>4. new.body = Page(req[r].query)
    BY DEF PortalTypeOK
  <2>5. new.body.items \cap hidden = {}
    BY <2>4, PageShowsNothingHidden
  <2> HIDE DEF new
  <2>6. InFlight'
    BY <2>1, <2>3, <2>5, OthersFly
  <2> QED BY <2>2, <2>6
<1>4. ASSUME NEW r \in Request, Serve(r) PROVE Fading'
  <2> DEFINE q == req[r].query
             b == cache[q].body
  <2>1. Answer(r, b) /\ UNCHANGED <<hidden, since, cache, slowest>> /\ q \in DOMAIN cache
    BY <1>4 DEF Serve, Hit
  <2>2. b \in Bodies /\ cache[q].expires \in tick + 1 .. tick + Ttl
    BY <2>1 DEF PortalTypeOK
  <2>3. tick \in Nat /\ Ttl \in Nat \ {0} /\ slowest \in Nat
    BY TicksAssumption DEF PortalTypeOK
  <2>4. ASSUME NEW i \in b.items \cap hidden PROVE tick < since[i] + Ttl + slowest
    <3>1. since[i] \in Nat
      BY DEF PortalTypeOK
    <3>2. cache[q].expires <= since[i] + Ttl + slowest
      BY <2>1 DEF InCache
    <3> QED BY <2>2, <2>3, <3>1, <3>2
  <2> HIDE DEF b
  <2>5. InCopies'
    BY <2>1, <2>2, <2>3, <2>4, AnswerFades
  <2>6. InFlight'
    BY <2>1, AnswerSends
  <2>7. InCache'
    BY <2>1 DEF InCache
  <2> QED BY <2>5, <2>6, <2>7
<1>5. ASSUME NEW r \in Request, req[r].at \in {"looking", "storing"}, Answer(r, req[r].body),
             slowest' = Slower(r), UNCHANGED <<hidden, since>>
      PROVE  InCopies' /\ InFlight' /\ slowest' \in Nat /\ slowest' >= slowest
  <2>1. tick \in Nat /\ Ttl \in Nat \ {0} /\ slowest \in Nat /\ req[r].read \in 0..tick /\ req[r].body \in Bodies
    BY TicksAssumption DEF PortalTypeOK
  <2>2. slowest' \in Nat /\ slowest' >= slowest /\ slowest' >= tick - req[r].read
    BY <1>5, <2>1, SlowerType
  <2>3. ASSUME NEW i \in req[r].body.items \cap hidden PROVE tick < since[i] + Ttl + slowest'
    <3>1. since[i] \in Nat
      BY DEF PortalTypeOK
    <3>2. since[i] >= req[r].read
      BY <1>5 DEF InFlight
    <3> QED BY <2>1, <2>2, <3>1, <3>2
  <2>4. InCopies'
    BY <1>5, <2>1, <2>2, <2>3, AnswerFades
  <2> QED BY <1>5, <2>2, <2>4, AnswerSends
<1>6. ASSUME NEW r \in Request, Miss(r) PROVE Fading'
  <2>1. UNCHANGED <<hidden, since, cache>> /\ req[r].at = "looking"
    BY <1>6 DEF Miss
  <2>2. CASE req[r].known = req[r].body
    <3>1. Answer(r, req[r].body) /\ slowest' = Slower(r)
      BY <1>6, <2>2 DEF Miss
    <3>2. InCopies' /\ InFlight' /\ slowest' \in Nat /\ slowest' >= slowest
      BY <1>5, <2>1, <3>1
    <3>3. ASSUME NEW q \in DOMAIN cache, NEW i \in cache[q].body.items \cap hidden
          PROVE  cache[q].expires <= since[i] + Ttl + slowest'
      <4>1. since[i] \in Nat /\ Ttl \in Nat \ {0} /\ slowest \in Nat /\ cache[q].expires \in Int
        BY TicksAssumption DEF PortalTypeOK
      <4>2. cache[q].expires <= since[i] + Ttl + slowest
        BY DEF InCache
      <4> QED BY <3>2, <4>1, <4>2
    <3> QED BY <2>1, <3>2, <3>3 DEF InCache
  <2>3. CASE req[r].known # req[r].body
    <3>1. UNCHANGED <<copy, slowest>> /\ req' = [req EXCEPT ![r] = [req[r] EXCEPT !.at = "storing"]]
      BY <1>6, <2>3 DEF Miss
    <3>2. \A i \in req[r].body.items \cap hidden : since[i] >= req[r].read
      BY <2>1 DEF InFlight
    <3>3. /\ [req[r] EXCEPT !.at = "storing"].body = req[r].body
          /\ [req[r] EXCEPT !.at = "storing"].read = req[r].read
      BY DEF PortalTypeOK
    <3>4. InFlight'
      BY <2>1, <3>1, <3>2, <3>3, OthersFly
    <3> QED BY <2>1, <3>1, <3>4 DEF InCache, InCopies
  <2> QED BY <2>2, <2>3
<1>7. ASSUME NEW r \in Request, Store(r) PROVE Fading'
  <2>1. /\ UNCHANGED <<hidden, since>> /\ req[r].at = "storing"
        /\ Answer(r, req[r].body) /\ slowest' = Slower(r)
    BY <1>7 DEF Store
  <2>2. InCopies' /\ InFlight' /\ slowest' \in Nat /\ slowest' >= slowest
    BY <1>5, <2>1
  <2>3. ASSUME NEW q \in DOMAIN cache', NEW i \in cache'[q].body.items \cap hidden
        PROVE  cache'[q].expires <= since[i] + Ttl + slowest'
    <3>1. i \in Incident /\ since[i] \in Nat /\ Ttl \in Nat \ {0} /\ slowest \in Nat /\ tick \in Nat
      BY TicksAssumption DEF PortalTypeOK
    <3>2. CASE q \in DOMAIN cache /\ cache'[q] = cache[q]
      <4>1. cache[q].expires \in Int
        BY <3>2 DEF PortalTypeOK
      <4>2. cache[q].expires <= since[i] + Ttl + slowest
        BY <2>3, <3>2 DEF InCache
      <4> QED BY <2>2, <3>1, <3>2, <4>1, <4>2
    <3>3. CASE cache'[q] = [body |-> req[r].body, expires |-> tick + Ttl]
      <4>1. since[i] >= req[r].read
        BY <2>1, <2>3, <3>3 DEF InFlight
      <4>2. slowest' >= tick - req[r].read /\ req[r].read \in 0..tick
        BY <2>1, SlowerType DEF PortalTypeOK
      <4> QED BY <2>2, <3>1, <3>3, <4>1, <4>2
    <3> QED BY <1>7, <2>3, <3>2, <3>3 DEF Store, Put
  <2> QED BY <2>1, <2>2, <2>3 DEF InCache
<1>8. ASSUME NEW r \in Request, Drop(r) PROVE Fading'
  <2>1. UNCHANGED <<hidden, since, cache, copy, slowest>> /\ req' = [req EXCEPT ![r] = Idle]
    BY <1>8 DEF Drop
  <2>2. Idle.at = "idle"
    BY DEF Idle
  <2>3. InFlight'
    BY <2>1, <2>2, OthersFly
  <2> QED BY <2>1, <2>3 DEF InCache, InCopies
<1>9. ASSUME NEW j \in Incident, Hide(j) PROVE Fading'
  <2>1. /\ UNCHANGED <<tick, req, cache, copy, slowest>>
        /\ hidden' = hidden \cup {j}
        /\ since' = [since EXCEPT ![j] = tick]
    BY <1>9 DEF Hide
  <2>2. tick \in Nat /\ Ttl \in Nat \ {0} /\ slowest \in Nat
    BY TicksAssumption DEF PortalTypeOK
  <2>3. ASSUME NEW i \in hidden', i \in Incident
        PROVE  (i = j /\ since'[i] = tick) \/ (i \in hidden /\ since'[i] = since[i])
    BY <2>1, <2>3 DEF PortalTypeOK
  <2>4. InFlight'
    <3>1. ASSUME NEW r \in Request, req[r].at \in {"looking", "storing"},
                 NEW i \in req[r].body.items \cap hidden'
          PROVE  since'[i] >= req[r].read
      <4>1. i \in Incident /\ req[r].read \in 0..tick
        BY <3>1, <2>1 DEF PortalTypeOK
      <4> QED BY <2>2, <2>3, <3>1, <4>1 DEF InFlight
    <3> QED BY <2>1, <3>1 DEF InFlight
  <2>5. InCache'
    <3>1. ASSUME NEW q \in DOMAIN cache, NEW i \in cache[q].body.items \cap hidden'
          PROVE  cache[q].expires <= since'[i] + Ttl + slowest
      <4>1. i \in Incident /\ cache[q].expires \in tick + 1 .. tick + Ttl
        BY <3>1, <2>1 DEF PortalTypeOK
      <4> QED BY <2>2, <2>3, <3>1, <4>1 DEF InCache
    <3> QED BY <2>1, <3>1 DEF InCache
  <2>6. InCopies'
    <3>1. ASSUME NEW c \in Client, NEW q \in Query, NEW i \in copy[c][q].body.items \cap hidden'
          PROVE  copy[c][q].until <= since'[i] + 2 * Ttl + slowest - 1
      <4>1. i \in Incident /\ copy[c][q].until \in 0 .. tick + Ttl
        BY <3>1, <2>1 DEF PortalTypeOK
      <4> QED BY <2>2, <2>3, <3>1, <4>1 DEF InCopies
    <3> QED BY <2>1, <3>1 DEF InCopies
  <2> QED BY <2>4, <2>5, <2>6
<1>10. ASSUME NEW j \in Incident, Show(j) PROVE Fading'
  <2>1. UNCHANGED <<since, req, cache, copy, slowest>> /\ hidden' = hidden \ {j}
    BY <1>10 DEF Show
  <2> QED BY <2>1 DEF InFlight, InCache, InCopies
<1>11. CASE RedisAway \/ RedisBack
  <2>1. /\ UNCHANGED <<hidden, since, req, copy, slowest>>
        /\ cache' = cache \/ cache' = [q \in {} |-> 0]
    BY <1>11 DEF RedisAway, RedisBack
  <2> QED BY <2>1 DEF InFlight, InCache, InCopies
<1>12. CASE Tick
  <2>1. UNCHANGED <<hidden, since, req, copy, slowest>> /\ cache' = Alive(cache)
    BY <1>12 DEF Tick
  <2>2. \A q \in DOMAIN cache' : q \in DOMAIN cache /\ cache'[q] = cache[q]
    BY <2>1 DEF Alive, Restrict
  <2> QED BY <2>1, <2>2 DEF InFlight, InCache, InCopies
<1> QED BY <1>1, <1>2, <1>3, <1>4, <1>6, <1>7, <1>8, <1>9, <1>10, <1>11, <1>12 DEF PortalNext

(* In every state the bounds give the property.                             *)
LEMMA FadingEnough ==
    ASSUME PortalTypeOK, Fading
    PROVE  CopiesFade
<1>1. SUFFICES ASSUME NEW c \in Client, NEW q \in Query, copy[c][q].until > tick,
                      NEW i \in copy[c][q].body.items \cap hidden
               PROVE  tick - since[i] <= 2 * (Ttl - 1) + slowest
  BY DEF CopiesFade
<1>2. tick \in Nat /\ Ttl \in Nat \ {0} /\ slowest \in Nat
  BY TicksAssumption DEF PortalTypeOK
<1>3. copy[c][q] \in [body : Bodies, until : 0 .. tick + Ttl]
  BY DEF PortalTypeOK
<1>4. copy[c][q].until \in Nat /\ since[i] \in Nat
  BY <1>2, <1>3 DEF PortalTypeOK
<1>5. copy[c][q].until <= since[i] + 2 * Ttl + slowest - 1
  BY <1>1 DEF Fading, InCopies
<1> QED BY <1>1, <1>2, <1>4, <1>5

(* However requests overlap and Redis fails, no copy that its client takes  *)
(* for fresh shows a merged or hidden incident for as long as twice the     *)
(* cache time and the slowest page.                                         *)
THEOREM CopiesFadeHolds == PortalSpec => []CopiesFade
<1>1. ASSUME PortalInit PROVE Fading
  <2>1. /\ DOMAIN cache = {}
        /\ req = [r \in Request |-> Idle]
        /\ copy = [c \in Client |-> [q \in Query |-> NoCopy]]
    BY <1>1 DEF PortalInit
  <2>2. Idle.at = "idle" /\ NoCopy.body.items = {}
    BY DEF Idle, NoCopy, NoBody
  <2> QED BY <2>1, <2>2 DEF Fading, InFlight, InCache, InCopies
<1>2. ASSUME Fading, UNCHANGED portalVars PROVE Fading'
  BY <1>2 DEF Fading, InFlight, InCache, InCopies, portalVars
<1>3. PortalTypeOK /\ Fading /\ [PortalNext]_portalVars => Fading'
  BY <1>2, FadingStep
<1>4. PortalTypeOK /\ Fading => CopiesFade
  BY FadingEnough
<1> QED BY <1>1, <1>3, <1>4, PortalTypes, PTL DEF PortalSpec

(***************************************************************************)
(* How many requests a client gets in a minute                             *)
(***************************************************************************)

Now == tick \div Minute

(* A counter is of this minute or an earlier one, and the one of this       *)
(* minute outlives it.                                                      *)
CountersLast ==
    /\ \A k \in DOMAIN counter : k[2] <= Now
    /\ \A c \in Client : Key(c) \in DOMAIN counter =>
          counter[Key(c)].expires >= Minute * Now + Expiry

(* The counter of this minute never says more than its client got, but for  *)
(* requests refused once the client had got the limit.                      *)
NeverAhead ==
    \A c \in Client : Key(c) \in DOMAIN counter =>
        \/ counter[Key(c)].count <= admitted[c]
        \/ RateLimit <= admitted[c]

(* While Redis answers, it never says less either.                          *)
NeverBehind ==
    ~trouble => /\ redis
                /\ \A c \in Client :
                      /\ admitted[c] <= RateLimit
                      /\ IF Key(c) \in DOMAIN counter
                         THEN admitted[c] <= counter[Key(c)].count
                         ELSE admitted[c] = 0

Counted == CountersLast /\ NeverAhead /\ NeverBehind

(* Products with a natural number grow with the other factor.               *)
LEMMA ProductsGrow ==
    ASSUME NEW m \in Nat, NEW a \in Int, NEW b \in Int, a <= b
    PROVE  m * a <= m * b
OBVIOUS

(* Division by m, as bounds and as a remainder.                             *)
LEMMA Division ==
    ASSUME NEW t \in Nat, NEW m \in Nat, m > 0
    PROVE  /\ t \div m \in Nat /\ m * (t \div m) <= t /\ t < m * (t \div m) + m
           /\ t % m = t - m * (t \div m)
<1>1. t \div m \in Nat /\ m * (t \div m) <= t /\ t < m * (t \div m) + m
  OBVIOUS
<1>2. t % m = t - m * (t \div m)
  OBVIOUS
<1> QED BY <1>1, <1>2

(* The next number has the same quotient, or the next one and no remainder. *)
LEMMA NextQuotient ==
    ASSUME NEW t \in Nat, NEW m \in Nat, m > 0
    PROVE  \/ (t + 1) % m = 0 /\ (t + 1) \div m = t \div m + 1
           \/ (t + 1) % m # 0 /\ (t + 1) \div m = t \div m
<1> DEFINE a == t \div m
           b == (t + 1) \div m
           r == (t + 1) % m
           ma == m * a
           mb == m * b
<1>1. a \in Nat /\ ma <= t /\ t < ma + m
  BY Division
<1>2. b \in Nat /\ mb <= t + 1 /\ t + 1 < mb + m /\ r = t + 1 - mb
  <2>1. t + 1 \in Nat
    OBVIOUS
  <2> QED BY <2>1, Division
<1>3. m * (a + 1) = ma + m /\ m * (b + 1) = mb + m /\ m * (a + 2) = ma + 2 * m /\ ma \in Int /\ mb \in Int
  BY <1>1, <1>2
<1>4. b < a => mb + m <= ma
  BY <1>1, <1>2, <1>3, ProductsGrow
<1>5. b > a + 1 => ma + 2 * m <= mb
  BY <1>1, <1>2, <1>3, ProductsGrow
<1>6. b = a + 1 => mb = ma + m
  BY <1>3
<1>7. b = a => mb = ma
  OBVIOUS
<1> HIDE DEF a, b, r, ma, mb
<1>8. b = a \/ b = a + 1
  BY <1>1, <1>2, <1>3, <1>4, <1>5
<1>9. b = a + 1 => r = 0
  BY <1>1, <1>2, <1>3, <1>6
<1>10. b = a => r # 0
  BY <1>1, <1>2, <1>3, <1>7
<1> QED BY <1>8, <1>9, <1>10 DEF a, b, r

(* The tick after the last one of a minute begins the next one, and no      *)
(* other does.                                                              *)
LEMMA MinutesPass ==
    ASSUME PortalTypeOK
    PROVE  \/ (tick + 1) % Minute = 0 /\ (tick + 1) \div Minute = Now + 1
           \/ (tick + 1) % Minute # 0 /\ (tick + 1) \div Minute = Now
<1>1. tick \in Nat /\ Minute \in Nat /\ Minute > 0
  BY TicksAssumption DEF PortalTypeOK
<1> QED BY <1>1, NextQuotient DEF Now

(* Nothing in a step changes what is counted, but that keys may go.         *)
LEMMA SameCount ==
    ASSUME PortalTypeOK, Counted, UNCHANGED <<tick, counter, admitted, redis, trouble>>
    PROVE  Counted'
BY DEF Counted, CountersLast, NeverAhead, NeverBehind, Now, Key

(* A counted request, let through or refused, keeps the count.              *)
LEMMA CountedRequest ==
    ASSUME PortalTypeOK, Counted, redis, NEW c \in Client, counter' = Incremented(c),
           UNCHANGED <<tick, redis, trouble>>,
           \/ Count(c) <= RateLimit /\ admitted' = [admitted EXCEPT ![c] = @ + 1]
           \/ Count(c) > RateLimit /\ admitted' = admitted
    PROVE  Counted'
<1>1. /\ RateLimit \in Nat \ {0} /\ tick \in Nat /\ Expiry \in Nat /\ Minute \in Nat
      /\ admitted[c] \in Nat /\ Now \in Nat /\ Minute * Now <= tick /\ Minute * Now \in Int
  <2>1. /\ RateLimit \in Nat \ {0} /\ tick \in Nat /\ Expiry \in Nat /\ Minute \in Nat
        /\ admitted[c] \in Nat
    BY TicksAssumption DEF PortalTypeOK
  <2>2. Now \in Nat /\ Minute * Now <= tick
    BY KeyType DEF Now
  <2>3. Minute * Now \in Int
    BY <2>1, <2>2
  <2> QED BY <2>1, <2>2, <2>3
<1>2. \A d \in Client : Key(d)' = Key(d)
  BY DEF Key
<1>3. Now' = Now
  BY DEF Now
<1>4. \A d \in Client : d # c => Key(d) # Key(c)
  BY DEF Key
<1>5. Key(c)[2] = Now
  BY DEF Key, Now
<1>6. Never >= Minute * Now + Expiry
  <2>1. tick <= MaxTick /\ MaxTick \in Nat /\ Ttl \in Nat /\ Minute * Now \in Int
    BY <1>1, TicksAssumption DEF PortalTypeOK
  <2> QED BY <1>1, <2>1 DEF Never
<1>7. CountersLast'
  <2>1. \A k \in DOMAIN counter' : k[2] <= Now
    <3>1. DOMAIN counter' = DOMAIN counter \cup {Key(c)}
      BY IncrementedType
    <3>2. \A k \in DOMAIN counter : k[2] <= Now
      BY DEF Counted, CountersLast
    <3> QED BY <1>1, <1>5, <3>1, <3>2
  <2>2. ASSUME NEW d \in Client, Key(d) \in DOMAIN counter'
        PROVE  counter'[Key(d)].expires >= Minute * Now + Expiry
    <3>1. CASE d = c /\ Key(c) \notin DOMAIN counter
      BY <1>6, <3>1, IncrementedType
    <3>2. CASE Key(d) \in DOMAIN counter
      <4>1. counter'[Key(d)].expires = counter[Key(d)].expires
        BY <1>4, <3>2, IncrementedType
      <4> QED BY <3>2, <4>1 DEF Counted, CountersLast
    <3>3. Key(d) \in DOMAIN counter \cup {Key(c)}
      BY <2>2, IncrementedType
    <3> QED BY <1>4, <3>1, <3>2, <3>3
  <2> QED BY <1>2, <1>3, <2>1, <2>2 DEF CountersLast
<1>8. counter'[Key(c)].count = Count(c) /\ Key(c) \in DOMAIN counter' /\ Count(c) \in Nat \ {0}
  BY IncrementedType
<1>9. Count(c) = IF Key(c) \in DOMAIN counter THEN counter[Key(c)].count + 1 ELSE 1
  BY DEF Count
<1>10. Key(c) \in DOMAIN counter => counter[Key(c)].count \in Nat
  BY DEF PortalTypeOK
<1>11. admitted'[c] = IF Count(c) <= RateLimit THEN admitted[c] + 1 ELSE admitted[c]
  BY <1>1, <1>8 DEF PortalTypeOK
<1>12. ASSUME NEW d \in Client, d # c
       PROVE  /\ admitted'[d] = admitted[d]
              /\ Key(d) \in DOMAIN counter' <=> Key(d) \in DOMAIN counter
              /\ Key(d) \in DOMAIN counter => counter'[Key(d)] = counter[Key(d)]
  BY <1>4, <1>12, IncrementedType DEF PortalTypeOK
<1>13. NeverAhead'
  <2>1. counter'[Key(c)].count <= admitted'[c] \/ RateLimit <= admitted'[c]
    <3>1. CASE Key(c) \in DOMAIN counter
      <4>1. counter[Key(c)].count <= admitted[c] \/ RateLimit <= admitted[c]
        BY <3>1 DEF Counted, NeverAhead
      <4> QED BY <1>1, <1>8, <1>9, <1>10, <1>11, <3>1, <4>1
    <3>2. CASE Key(c) \notin DOMAIN counter
      BY <1>1, <1>8, <1>9, <1>11, <3>2
    <3> QED BY <3>1, <3>2
  <2>2. ASSUME NEW d \in Client, Key(d) \in DOMAIN counter'
        PROVE  counter'[Key(d)].count <= admitted'[d] \/ RateLimit <= admitted'[d]
    <3>1. CASE d = c
      BY <2>1, <3>1
    <3>2. CASE d # c
      BY <1>12, <2>2, <3>2 DEF Counted, NeverAhead
    <3> QED BY <3>1, <3>2
  <2> QED BY <1>2, <2>2 DEF NeverAhead
<1>14. ASSUME ~trouble, NEW d \in Client
       PROVE  /\ admitted'[d] <= RateLimit
              /\ IF Key(d) \in DOMAIN counter'
                 THEN admitted'[d] <= counter'[Key(d)].count ELSE admitted'[d] = 0
  <2>1. /\ admitted[d] <= RateLimit
        /\ IF Key(d) \in DOMAIN counter THEN admitted[d] <= counter[Key(d)].count ELSE admitted[d] = 0
    BY <1>14 DEF Counted, NeverBehind
  <2>2. CASE d = c
    <3>1. CASE Key(c) \in DOMAIN counter
      BY <1>1, <1>8, <1>9, <1>10, <1>11, <2>1, <2>2, <3>1
    <3>2. CASE Key(c) \notin DOMAIN counter
      BY <1>1, <1>8, <1>9, <1>11, <2>1, <2>2, <3>2
    <3> QED BY <3>1, <3>2
  <2>3. CASE d # c
    BY <1>12, <2>1, <2>3
  <2> QED BY <2>2, <2>3
<1>15. NeverBehind'
  <2> SUFFICES ASSUME ~trouble'
               PROVE  /\ redis'
                      /\ \A d \in Client :
                            /\ admitted'[d] <= RateLimit
                            /\ IF Key(d)' \in DOMAIN counter'
                               THEN admitted'[d] <= counter'[Key(d)'].count
                               ELSE admitted'[d] = 0
    BY Zenon DEF NeverBehind
  <2>1. ~trouble /\ redis'
    BY Zenon
  <2> QED BY <1>2, <1>14, <2>1
<1> QED BY <1>7, <1>13, <1>15 DEF Counted

(* A tick keeps the counters of the minute, or begins a minute without any. *)
LEMMA CountedTick ==
    ASSUME PortalTypeOK, Counted, Tick
    PROVE  Counted'
<1>1. tick \in Nat /\ Minute \in Nat \ {0} /\ Expiry \in Nat /\ Expiry > Minute
  BY TicksAssumption DEF PortalTypeOK
<1>2. Now \in Nat /\ tick < Minute * Now + Minute /\ Minute * Now \in Int
  <2>1. Now \in Nat /\ tick < Minute * Now + Minute
    BY KeyType, ClientsAssumption DEF Now
  <2> QED BY <1>1, <2>1
<1>3. /\ tick' = tick + 1 /\ counter' = Alive(counter) /\ UNCHANGED redis
      /\ IF tick' % Minute = 0
         THEN admitted' = [c \in Client |-> 0] /\ trouble' = ~redis
         ELSE UNCHANGED <<admitted, trouble>>
  BY DEF Tick
<1>4. /\ DOMAIN counter' = {k \in DOMAIN counter : counter[k].expires > tick + 1}
      /\ \A k \in DOMAIN counter' : counter'[k] = counter[k]
  BY <1>3, AliveType
<1>5. Now' = (tick + 1) \div Minute /\ \A c \in Client : Key(c)' = <<c, Now'>> /\ Key(c) = <<c, Now>>
  BY <1>3 DEF Now, Key
<1>6. \A k \in DOMAIN counter : k \in Client \X Nat /\ k[2] <= Now
  BY DEF PortalTypeOK, Keys, Counted, CountersLast
<1>7. CASE tick' % Minute = 0
  <2>1. Now' = Now + 1
    BY <1>3, <1>5, <1>7, MinutesPass
  <2>2. \A c \in Client : Key(c)' \notin DOMAIN counter'
    <3>1. SUFFICES ASSUME NEW c \in Client, Key(c)' \in DOMAIN counter PROVE FALSE
      BY <1>4
    <3>2. Key(c)'[2] = Now + 1
      BY <1>5, <2>1
    <3> QED BY <1>2, <1>6, <3>1, <3>2
  <2>3. CountersLast'
    <3>1. \A k \in DOMAIN counter' : k[2] \in Nat /\ k[2] <= Now
      BY <1>4, <1>6
    <3> QED BY <1>2, <2>1, <2>2, <3>1 DEF CountersLast
  <2>4. NeverAhead'
    BY <2>2 DEF NeverAhead
  <2>5. NeverBehind'
    <3>1. (~trouble' => redis') /\ admitted' = [c \in Client |-> 0]
      BY <1>3, <1>7, Zenon
    <3>2. \A c \in Client : admitted'[c] = 0 /\ 0 <= RateLimit
      BY <3>1, TicksAssumption
    <3> QED BY <2>2, <3>1, <3>2 DEF NeverBehind
  <2> QED BY <2>3, <2>4, <2>5 DEF Counted
<1>8. CASE tick' % Minute # 0
  <2>1. Now' = Now
    BY <1>3, <1>5, <1>8, MinutesPass
  <2>2. \A c \in Client : Key(c)' = Key(c)
    BY <1>5, <2>1
  <2>3. ASSUME NEW c \in Client, Key(c) \in DOMAIN counter PROVE Key(c) \in DOMAIN counter'
    <3>1. counter[Key(c)].expires >= Minute * Now + Expiry
      BY <2>3 DEF Counted, CountersLast
    <3>2. counter[Key(c)].expires \in Nat
      BY <2>3 DEF PortalTypeOK
    <3>3. counter[Key(c)].expires > tick + 1
      BY <1>1, <1>2, <3>1, <3>2
    <3> QED BY <1>4, <2>3, <3>3
  <2>4. \A c \in Client : Key(c) \in DOMAIN counter' =>
            Key(c) \in DOMAIN counter /\ counter'[Key(c)] = counter[Key(c)]
    BY <1>4
  <2>5. CountersLast'
    <3>1. \A k \in DOMAIN counter' : k[2] <= Now
      BY <1>4, <1>6
    <3>2. \A c \in Client : Key(c) \in DOMAIN counter' =>
              counter'[Key(c)].expires >= Minute * Now + Expiry
      BY <2>4 DEF Counted, CountersLast
    <3> QED BY <2>1, <2>2, <3>1, <3>2 DEF CountersLast
  <2>6. admitted' = admitted /\ (trouble' <=> trouble) /\ (redis' <=> redis)
    BY <1>3, <1>8, Zenon
  <2>7. NeverAhead'
    BY <2>2, <2>4, <2>6 DEF Counted, NeverAhead
  <2>8. NeverBehind'
    <3> SUFFICES ASSUME ~trouble'
                 PROVE  /\ redis'
                        /\ \A c \in Client :
                              /\ admitted'[c] <= RateLimit
                              /\ IF Key(c)' \in DOMAIN counter'
                                 THEN admitted'[c] <= counter'[Key(c)'].count
                                 ELSE admitted'[c] = 0
      BY Zenon DEF NeverBehind
    <3>1. /\ redis
          /\ \A c \in Client :
                /\ admitted[c] <= RateLimit
                /\ IF Key(c) \in DOMAIN counter
                   THEN admitted[c] <= counter[Key(c)].count
                   ELSE admitted[c] = 0
      BY <2>6, Zenon DEF Counted, NeverBehind
    <3>2. redis'
      BY <2>6, <3>1, Zenon
    <3>3. ASSUME NEW c \in Client
          PROVE  /\ admitted'[c] <= RateLimit
                 /\ IF Key(c) \in DOMAIN counter'
                    THEN admitted'[c] <= counter'[Key(c)].count
                    ELSE admitted'[c] = 0
      BY <2>3, <2>4, <2>6, <3>1
    <3> QED BY <2>2, <3>2, <3>3
  <2> QED BY <2>5, <2>7, <2>8 DEF Counted
<1> QED BY <1>7, <1>8

(* Every step keeps the counts.                                             *)
LEMMA CountedStep ==
    ASSUME PortalTypeOK, Counted, PortalNext
    PROVE  Counted'
<1>1. ASSUME NEW r \in Request, NEW c \in Client, NEW q \in Query, Admit(r, c, q) \/ Refuse(r, c, q)
      PROVE  Counted'
  <2>1. UNCHANGED <<tick, redis, trouble>>
    BY <1>1 DEF Admit, Refuse
  <2>2. CASE redis
    <3>1. counter' = Incremented(c)
      BY <1>1, <2>2 DEF Admit, Refuse
    <3>2. \/ Count(c) <= RateLimit /\ admitted' = [admitted EXCEPT ![c] = @ + 1]
          \/ Count(c) > RateLimit /\ admitted' = admitted
      BY <1>1, <2>2 DEF Admit, Refuse
    <3> QED BY <2>1, <2>2, <3>1, <3>2, CountedRequest
  <2>3. CASE ~redis
    <3>1. counter' = counter /\ admitted' = [admitted EXCEPT ![c] = admitted[c] + 1]
      BY <1>1, <2>3 DEF Admit, Refuse
    <3>2. \A d \in Client : admitted[d] \in Nat /\ admitted'[d] \in {admitted[d], admitted[d] + 1}
      BY <3>1 DEF PortalTypeOK
    <3>3. \A k \in DOMAIN counter : counter[k].count \in Nat
      BY DEF PortalTypeOK
    <3>4. trouble /\ trouble'
      BY <2>1, <2>3, Zenon DEF Counted, NeverBehind
    <3>5. NeverBehind'
      BY <3>4, Zenon DEF NeverBehind
    <3>6. RateLimit \in Nat
      BY TicksAssumption
    <3>7. NeverAhead'
      <4>1. SUFFICES ASSUME NEW d \in Client, Key(d) \in DOMAIN counter
                     PROVE  counter[Key(d)].count <= admitted'[d] \/ RateLimit <= admitted'[d]
        BY <2>1, <3>1 DEF NeverAhead, Key
      <4>2. counter[Key(d)].count <= admitted[d] \/ RateLimit <= admitted[d]
        BY <4>1 DEF Counted, NeverAhead
      <4> QED BY <3>2, <3>3, <3>6, <4>1, <4>2
    <3>8. CountersLast'
      BY <2>1, <3>1 DEF Counted, CountersLast, Now, Key
    <3> QED BY <3>5, <3>7, <3>8 DEF Counted
  <2> QED BY <2>2, <2>3
<1>2. ASSUME NEW r \in Request, Expire(r) PROVE Counted'
  <2>1. UNCHANGED <<tick, redis, trouble, admitted>>
    BY <1>2 DEF Expire
  <2>2. /\ DOMAIN counter' = DOMAIN counter
        /\ \A k \in DOMAIN counter : /\ counter'[k].count = counter[k].count
                                     /\ counter'[k].expires \in {counter[k].expires, tick + Expiry}
    <3>1. CASE counter' = counter
      BY <3>1
    <3>2. CASE counter' = [counter EXCEPT ![req[r].key].expires = tick + Expiry]
      <4>1. \A k \in DOMAIN counter : counter[k] \in [count : Nat \ {0}, expires : Nat]
        BY DEF PortalTypeOK
      <4> QED BY <3>2, <4>1
    <3> QED BY <1>2, <3>1, <3>2 DEF Expire
  <2>3. Now \in Nat /\ Minute * Now <= tick /\ tick \in Nat /\ Minute * Now \in Int /\ Expiry \in Nat
    <3>1. Now \in Nat /\ Minute * Now <= tick
      BY KeyType, ClientsAssumption DEF Now
    <3> QED BY <3>1, TicksAssumption DEF PortalTypeOK
  <2>4. CountersLast'
    <3>1. \A c \in Client : Key(c) \in DOMAIN counter =>
              counter'[Key(c)].expires >= Minute * Now + Expiry
      BY <2>2, <2>3 DEF Counted, CountersLast
    <3>2. \A k \in DOMAIN counter : k[2] <= Now
      BY DEF Counted, CountersLast
    <3> QED BY <2>1, <2>2, <3>1, <3>2 DEF CountersLast, Now, Key
  <2>5. NeverAhead'
    BY <2>1, <2>2 DEF Counted, NeverAhead, Key
  <2>6. NeverBehind'
    <3> SUFFICES ASSUME ~trouble
                 PROVE  /\ redis
                        /\ \A c \in Client :
                              /\ admitted[c] <= RateLimit
                              /\ IF Key(c) \in DOMAIN counter
                                 THEN admitted[c] <= counter'[Key(c)].count
                                 ELSE admitted[c] = 0
      BY <2>1, <2>2 DEF NeverBehind, Key
    <3> QED BY <2>2 DEF Counted, NeverBehind
  <2> QED BY <2>4, <2>5, <2>6 DEF Counted
<1>3. ASSUME NEW r \in Request, Read(r) \/ Serve(r) \/ Miss(r) \/ Store(r) \/ Drop(r) PROVE Counted'
  BY <1>3, SameCount DEF Read, Serve, Miss, Store, Drop
<1>4. ASSUME NEW i \in Incident, Hide(i) \/ Show(i) PROVE Counted'
  BY <1>4, SameCount DEF Hide, Show
<1>5. CASE RedisAway \/ RedisBack
  <2>1. /\ UNCHANGED <<tick, admitted>>
        /\ counter' = counter \/ counter' = [k \in {} |-> 0]
    BY <1>5 DEF RedisAway, RedisBack
  <2>2. trouble'
    BY <1>5, Zenon DEF RedisAway, RedisBack, Counted, NeverBehind
  <2>3. NeverBehind'
    BY <2>2, Zenon DEF NeverBehind
  <2>4. CountersLast' /\ NeverAhead'
    BY <2>1 DEF Counted, CountersLast, NeverAhead, Now, Key
  <2> QED BY <2>3, <2>4 DEF Counted
<1>6. CASE Tick
  BY <1>6, CountedTick
<1> QED BY <1>1, <1>2, <1>3, <1>4, <1>5, <1>6 DEF PortalNext

(* The two halves of LimitIsPerMinute.                                      *)
Enforced == ~trouble => \A c \in Client : admitted[c] <= RateLimit

Earned ==
    \A r \in Request :
        req'[r].at = "refused" /\ req[r].at # "refused" => admitted[req'[r].client] >= RateLimit

(* A step refuses a request only if its client has got the limit.           *)
LEMMA RefusedEarned ==
    ASSUME PortalTypeOK, Counted, PortalNext
    PROVE  Earned
<1>0. SUFFICES ASSUME NEW s \in Request, req'[s].at = "refused", req[s].at # "refused"
               PROVE  admitted[req'[s].client] >= RateLimit
  BY DEF Earned
<1>1. ASSUME NEW r \in Request, NEW c \in Client, NEW q \in Query, Refuse(r, c, q)
      PROVE  admitted[req'[s].client] >= RateLimit
  <2>1. req' = [req EXCEPT ![r] = [Idle EXCEPT !.client = c, !.at = "refused"]]
    BY <1>1 DEF Refuse
  <2>2. s = r /\ req'[s].client = c
    BY <1>0, <2>1 DEF PortalTypeOK, Idle
  <2>3. Count(c) > RateLimit /\ RateLimit \in Nat \ {0} /\ admitted[c] \in Nat
    BY <1>1, TicksAssumption DEF Refuse, PortalTypeOK
  <2>4. Key(c) \in DOMAIN counter /\ counter[Key(c)].count + 1 > RateLimit
    BY <2>3 DEF Count
  <2>5. counter[Key(c)].count \in Nat
    BY <2>4 DEF PortalTypeOK
  <2>6. counter[Key(c)].count <= admitted[c] \/ RateLimit <= admitted[c]
    BY <2>4 DEF Counted, NeverAhead
  <2> QED BY <2>2, <2>3, <2>4, <2>5, <2>6
<1>2. ASSUME NEW r \in Request, NEW new, req' = [req EXCEPT ![r] = new], new.at # "refused"
      PROVE  FALSE
  BY <1>0, <1>2 DEF PortalTypeOK
<1>3. ASSUME NEW r \in Request, NEW c \in Client, NEW q \in Query, Admit(r, c, q)
      PROVE  FALSE
  <2>1. PICK new \in {[Asked(c, q) EXCEPT !.at = "expiring", !.key = Key(c)],
                      [Asked(c, q) EXCEPT !.at = "reading"]} : req' = [req EXCEPT ![r] = new]
    BY <1>3 DEF Admit
  <2>2. new.at # "refused"
    BY <2>1 DEF Asked, Idle
  <2> QED BY <1>2, <2>1, <2>2
<1>4. ASSUME NEW r \in Request, Expire(r) \/ Read(r) \/ Serve(r) \/ Miss(r) \/ Store(r) \/ Drop(r)
      PROVE  FALSE
  <2>1. Idle.at = "idle"
    BY DEF Idle
  <2>2. CASE req' = [req EXCEPT ![r] = Idle]
    BY <1>2, <2>1, <2>2
  <2>3. CASE Expire(r)
    <3>1. req' = [req EXCEPT ![r] = [req[r] EXCEPT !.at = "reading", !.key = <<>>]]
      BY <2>3 DEF Expire
    <3>2. [req[r] EXCEPT !.at = "reading", !.key = <<>>].at = "reading"
      BY DEF PortalTypeOK
    <3> QED BY <1>2, <3>1, <3>2
  <2>4. CASE Read(r)
    <3>1. req' = [req EXCEPT ![r] =
              [req[r] EXCEPT !.at = "looking", !.body = Page(req[r].query), !.read = tick]]
      BY <2>4 DEF Read
    <3>2. [req[r] EXCEPT !.at = "looking", !.body = Page(req[r].query), !.read = tick].at = "looking"
      BY DEF PortalTypeOK
    <3> QED BY <1>2, <3>1, <3>2
  <2>5. CASE Miss(r) /\ req[r].known # req[r].body
    <3>1. req' = [req EXCEPT ![r] = [req[r] EXCEPT !.at = "storing"]]
      BY <2>5 DEF Miss
    <3>2. [req[r] EXCEPT !.at = "storing"].at = "storing"
      BY DEF PortalTypeOK
    <3> QED BY <1>2, <3>1, <3>2
  <2> QED BY <1>4, <2>2, <2>3, <2>4, <2>5 DEF Serve, Miss, Store, Drop, Answer
<1>5. ASSUME NEW i \in Incident, Hide(i) \/ Show(i) PROVE FALSE
  BY <1>0, <1>5 DEF Hide, Show
<1>6. CASE RedisAway \/ RedisBack \/ Tick
  BY <1>0, <1>6 DEF RedisAway, RedisBack, Tick
<1> QED BY <1>1, <1>3, <1>4, <1>5, <1>6 DEF PortalNext

(* Whatever becomes of the expiry of its counters, no client gets more than *)
(* the limit in a minute in which Redis answers, and none is refused before *)
(* it has got as many.                                                      *)
THEOREM LimitHolds == PortalSpec => LimitIsPerMinute
<1>1. ASSUME PortalInit PROVE Counted
  <2>1. DOMAIN counter = {} /\ admitted = [c \in Client |-> 0] /\ redis = TRUE
    BY <1>1 DEF PortalInit
  <2>2. CountersLast /\ NeverAhead
    BY <2>1 DEF CountersLast, NeverAhead
  <2>3. \A c \in Client : admitted[c] = 0 /\ 0 <= RateLimit
    BY <2>1, TicksAssumption
  <2>4. NeverBehind
    BY <2>1, <2>3 DEF NeverBehind
  <2> QED BY <2>2, <2>4 DEF Counted
<1>2. ASSUME PortalTypeOK, Counted, UNCHANGED portalVars PROVE Counted'
  <2>1. UNCHANGED <<tick, counter, admitted, redis, trouble>>
    BY <1>2 DEF portalVars
  <2> QED BY <1>2, <2>1, SameCount
<1>3. PortalTypeOK /\ Counted /\ [PortalNext]_portalVars => Counted'
  BY <1>2, CountedStep
<1>4. PortalTypeOK /\ Counted => Enforced
  BY DEF Counted, NeverBehind, Enforced
<1>5. PortalTypeOK /\ Counted /\ [PortalNext]_portalVars => [Earned]_portalVars
  BY RefusedEarned
<1>6. PortalSpec => []Enforced /\ [][Earned]_portalVars
  BY <1>1, <1>3, <1>4, <1>5, PortalTypes, PTL DEF PortalSpec
<1> QED BY <1>6 DEF LimitIsPerMinute, Enforced, Earned

(***************************************************************************)
(* The two side by side                                                    *)
(***************************************************************************)

LEMMA ServingStep ==
    ASSUME QualityKept, PortalTypeOK, [MCNext]_mcVars
    PROVE  QualityKept' /\ PortalTypeOK'
<1>1. CASE MCNext
  <2>1. \/ QualityNext /\ UNCHANGED portalVars
        \/ PortalNext /\ UNCHANGED qualityVars
    BY <1>1, Zenon DEF MCNext
  <2>2. QualityKept'
    BY <2>1, QualityKeptStep
  <2>3. UNCHANGED portalVars => PortalTypeOK'
    BY DEF PortalTypeOK, portalVars
  <2>4. PortalTypeOK'
    BY <2>1, <2>3, PortalTypeStep
  <2> QED BY <2>2, <2>4
<1>2. CASE UNCHANGED mcVars
  <2>1. UNCHANGED qualityVars /\ UNCHANGED portalVars
    BY <1>2, Zenon DEF mcVars
  <2>2. QualityKept'
    BY <2>1, QualityKeptStep
  <2>3. PortalTypeOK'
    BY <2>1 DEF PortalTypeOK, portalVars
  <2> QED BY <2>2, <2>3
<1> QED BY <1>1, <1>2

(* The types of the pipeline and of the civil API, each keeping what is its *)
(* own while the other runs.                                                *)
THEOREM ServingTypes == MCSpec => []TypeOK
<1>1. MCInit => QualityKept /\ PortalTypeOK
  BY QualityKeptInit, PortalTypeInit DEF MCInit
<1>2. QualityKept /\ PortalTypeOK => TypeOK
  BY QualityKeptEnough DEF TypeOK
<1> QED BY <1>1, <1>2, ServingStep, PTL DEF MCSpec
=============================================================================
