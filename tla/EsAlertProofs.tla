---------------------------- MODULE EsAlertProofs ----------------------------
(***************************************************************************)
(* Proofs about EsAlert, for any alerts, requests, rows and instants.      *)
(***************************************************************************)
EXTENDS EsAlert, TLAPS

Places == {"idle", "expiring", "reading", "writing", "committing"}

(* What an open transaction may have written.                               *)
WriteSets == UNION {[S -> Zone] : S \in SUBSET Rows}

Known == [row : Rows \cup {NoRow}, expires : 0..MaxTime]

Types ==
    /\ zone \in [Rows -> Zone]
    /\ now \in Instants
    /\ pc \in [Requests -> Places]
    /\ payload \in [Requests -> Payload]
    /\ writes \in [Requests -> WriteSets]
    /\ known \in [Requests -> [Alerts -> Known]]
    /\ overtaken \in [Requests -> SUBSET Rows]
    /\ shared \in SUBSET Alerts

(* The rows as the commit of p would leave them now.                        *)
Result(p) == Over(writes[p], zone)

(* From its UPDATE on, a complete snapshot has ended what it does not list, *)
(* save the rows that others have committed since the request began.        *)
Ending(p) ==
    pc[p] \in {"reading", "writing", "committing"} /\ payload[p].complete =>
        \A r \in Rows \ overtaken[p] :
            Result(p)[r].used /\ Result(p)[r].id \notin Active(payload[p])
            => Result(p)[r].expires <= payload[p].generated

EInv == Types /\ \A p \in Requests : Ending(p)

LEMMA WriteSetTypes ==
    ASSUME NEW w \in WriteSets
    PROVE  DOMAIN w \subseteq Rows /\ \A r \in DOMAIN w : w[r] \in Zone
BY DEF WriteSets

LEMMA IsWriteSet ==
    ASSUME NEW S \in SUBSET Rows, NEW w \in [S -> Zone]
    PROVE  w \in WriteSets
BY DEF WriteSets

LEMMA OverZone ==
    ASSUME NEW w \in WriteSets, NEW z \in [Rows -> Zone]
    PROVE  /\ Over(w, z) \in [Rows -> Zone]
           /\ \A r \in Rows : Over(w, z)[r] = IF r \in DOMAIN w THEN w[r] ELSE z[r]
<1>1. DOMAIN w \cup DOMAIN z = Rows
  BY WriteSetTypes
<1> QED BY <1>1, WriteSetTypes DEF Over

LEMMA OverWrites ==
    ASSUME NEW v \in WriteSets, NEW w \in WriteSets
    PROVE  /\ Over(v, w) \in WriteSets
           /\ DOMAIN Over(v, w) = DOMAIN v \cup DOMAIN w
           /\ \A r \in DOMAIN v \cup DOMAIN w : Over(v, w)[r] = IF r \in DOMAIN v THEN v[r] ELSE w[r]
<1> DEFINE S == DOMAIN v \cup DOMAIN w
           f == [r \in S |-> IF r \in DOMAIN v THEN v[r] ELSE w[r]]
<1>1. Over(v, w) = f
  BY DEF Over
<1>2. S \in SUBSET Rows /\ f \in [S -> Zone]
  BY WriteSetTypes
<1>3. f \in WriteSets
  BY <1>2, IsWriteSet
<1> QED BY <1>1, <1>3

LEMMA InitialTypes ==
    /\ Unused \in Zone /\ ~Unused.used
    /\ EmptyPayload \in Payload
    /\ NoWrites \in WriteSets /\ DOMAIN NoWrites = {}
    /\ NothingKnown \in [Alerts -> Known]
<1>1. PICK b \in BOOLEAN : b = FALSE
  BY Zenon
<1>2. Unused = [used |-> b, id |-> CHOOSE a \in Alerts : TRUE, expires |-> 0]
  BY <1>1, Zenon DEF Unused
<1>3. (CHOOSE a \in Alerts : TRUE) \in Alerts
  BY AlertsAssumption
<1>4. Unused \in Zone /\ Unused.used = b
  BY <1>2, <1>3, TimeAssumption DEF Zone
<1>5. ~Unused.used
  BY <1>1, <1>4, Zenon
<1>6. NoWrites \in WriteSets /\ DOMAIN NoWrites = {}
  <2>1. NoWrites \in [{} -> Zone]
    BY DEF NoWrites
  <2> QED BY <2>1, IsWriteSet
<1>7. NothingKnown \in [Alerts -> Known]
  BY TimeAssumption DEF NothingKnown, Known
<1>8. EmptyPayload \in Payload
  <2>1. EmptyPayload = [generated |-> 1, complete |-> b, allowEmpty |-> b,
                        mentioned |-> {}, drawable |-> {}, until |-> [a \in Alerts |-> 1]]
    BY <1>1, Zenon DEF EmptyPayload
  <2>2. [a \in Alerts |-> 1] \in [Alerts -> Instants] /\ 1 \in Instants
    BY TimeAssumption DEF Instants
  <2> QED BY <2>1, <2>2 DEF Payload
<1> QED BY <1>4, <1>5, <1>6, <1>7, <1>8

(* A complete snapshot of a request takes effect with its UPDATE.           *)
LEMMA ExpireKeeps ==
    ASSUME EInv, NEW p \in Requests, ExpireStale(p)
    PROVE  EInv'
<1> DEFINE m == payload[p]
           w == [r \in Stale(m) |-> [zone[r] EXCEPT !.expires = m.generated]]
<1>1. /\ pc[p] = "expiring" /\ pc' = [pc EXCEPT ![p] = "reading"]
      /\ UNCHANGED <<zone, now, payload, known, overtaken, shared>>
  BY DEF ExpireStale
<1>2. m \in Payload /\ m.generated \in Instants /\ zone \in [Rows -> Zone]
  BY DEF EInv, Types, Payload
<1>3. /\ w \in WriteSets /\ DOMAIN w = Stale(m)
      /\ \A r \in Stale(m) : w[r].used = zone[r].used /\ w[r].id = zone[r].id /\ w[r].expires = m.generated
  <2>1. \A r \in Stale(m) : [zone[r] EXCEPT !.expires = m.generated] \in Zone
    BY <1>2, TimeAssumption DEF Stale, Zone, Instants
  <2>2. w \in [Stale(m) -> Zone] /\ Stale(m) \in SUBSET Rows
    BY <2>1 DEF Stale
  <2>3. ASSUME NEW r \in Stale(m)
        PROVE  w[r].used = zone[r].used /\ w[r].id = zone[r].id /\ w[r].expires = m.generated
    <3>1. zone[r] \in Zone /\ w[r] = [zone[r] EXCEPT !.expires = m.generated]
      BY <1>2 DEF Stale
    <3> QED BY <3>1 DEF Zone
  <2> QED BY <2>2, <2>3, IsWriteSet
<1>4. \/ m.complete /\ writes' = [writes EXCEPT ![p] = w]
      \/ ~m.complete /\ UNCHANGED writes
  <2>1. CASE m.complete
    BY <2>1, Zenon DEF ExpireStale
  <2>2. CASE ~m.complete
    BY <2>2, Zenon DEF ExpireStale
  <2> QED BY <2>1, <2>2
<1> HIDE DEF w
<1>5. Types'
  BY <1>1, <1>3, <1>4 DEF EInv, Types, Places
<1>6. ASSUME NEW q \in Requests PROVE Ending(q)'
  <2>1. CASE q = p
    <3>1. CASE m.complete
      <4>1. writes'[p] = w /\ zone' = zone /\ payload'[p] = m
        BY <1>1, <1>4, <3>1 DEF EInv, Types
      <4>2. ASSUME NEW r \in Rows, Result(p)'[r].used, Result(p)'[r].id \notin Active(m)
            PROVE  Result(p)'[r].expires <= m.generated
        <5>1. Result(p)'[r] = IF r \in DOMAIN w THEN w[r] ELSE zone[r]
          BY <1>2, <1>3, <4>1, OverZone DEF Result
        <5>2. CASE r \in Stale(m)
          BY <1>2, <1>3, <5>1, <5>2 DEF Instants
        <5>3. CASE r \notin Stale(m)
          <6>1. Result(p)'[r] = zone[r] /\ zone[r] \in Zone
            BY <1>2, <1>3, <5>1, <5>3
          <6> QED BY <1>2, <4>2, <5>3, <6>1 DEF Stale, Zone, Instants
        <5> QED BY <5>2, <5>3
      <4> QED BY <2>1, <4>1, <4>2 DEF Ending
    <3>2. CASE ~m.complete
      BY <1>1, <2>1, <3>2 DEF Ending
    <3> QED BY <3>1, <3>2
  <2>2. CASE q # p
    <3>1. /\ pc'[q] = pc[q] /\ payload'[q] = payload[q] /\ overtaken'[q] = overtaken[q]
          /\ writes'[q] = writes[q] /\ zone' = zone
      BY <1>1, <1>4, <2>2 DEF EInv, Types
    <3>2. Ending(q)
      BY DEF EInv
    <3> QED BY <3>1, <3>2 DEF Ending, Result
  <2> QED BY <2>1, <2>2
<1> QED BY <1>5, <1>6 DEF EInv

(* A step that leaves a request's rows and snapshot as they are.            *)
LEMMA Untouched ==
    ASSUME EInv, NEW q \in Requests, zone' = zone, pc'[q] = pc[q], payload'[q] = payload[q],
           writes'[q] = writes[q], overtaken'[q] = overtaken[q]
    PROVE  Ending(q)'
<1>1. Ending(q)
  BY DEF EInv
<1> QED BY <1>1 DEF Ending, Result

LEMMA ReceiveKeeps ==
    ASSUME EInv, NEW p \in Requests, Receive(p)
    PROVE  EInv'
<1>1. /\ pc' = [pc EXCEPT ![p] = "expiring"]
      /\ UNCHANGED <<zone, now, writes, known, overtaken>>
  BY DEF Receive
<1>2. PICK m \in Payload : payload' = [payload EXCEPT ![p] = m]
  BY DEF Receive
<1>3. Types'
  <2>1. shared' \in SUBSET Alerts
    BY DEF Receive, Active, Payload, EInv, Types
  <2> QED BY <1>1, <1>2, <2>1 DEF EInv, Types, Places
<1>4. ASSUME NEW q \in Requests PROVE Ending(q)'
  <2>1. CASE q = p
    BY <1>1, <2>1 DEF EInv, Types, Ending
  <2>2. CASE q # p
    BY <1>1, <1>2, <2>2, Untouched DEF EInv, Types
  <2> QED BY <2>1, <2>2
<1> QED BY <1>3, <1>4 DEF EInv

LEMMA ReadKeeps ==
    ASSUME EInv, NEW p \in Requests, ReadExisting(p)
    PROVE  EInv'
<1>1. /\ pc[p] = "reading" /\ pc' = [pc EXCEPT ![p] = "writing"]
      /\ UNCHANGED <<zone, now, payload, writes, overtaken, shared>>
  BY DEF ReadExisting
<1>2. PICK found \in [Alerts -> Rows \cup {NoRow}] :
          known' = [known EXCEPT ![p] = [a \in Alerts |->
                      [row |-> found[a],
                       expires |-> IF found[a] = NoRow THEN 0 ELSE zone[found[a]].expires]]]
  BY DEF ReadExisting
<1>3. ASSUME NEW a \in Alerts
      PROVE  [row |-> found[a], expires |-> IF found[a] = NoRow THEN 0 ELSE zone[found[a]].expires] \in Known
  <2>1. found[a] \in Rows => zone[found[a]].expires \in 0..MaxTime
    BY DEF EInv, Types, Zone
  <2>2. 0 \in 0..MaxTime
    BY TimeAssumption
  <2> QED BY <2>1, <2>2 DEF Known
<1>4. Types'
  BY <1>1, <1>2, <1>3 DEF EInv, Types, Places
<1>5. ASSUME NEW q \in Requests PROVE Ending(q)'
  <2>1. CASE q = p
    <3>1. Ending(p) /\ pc'[p] = "writing"
      BY <1>1 DEF EInv, Types
    <3> QED BY <1>1, <2>1, <3>1 DEF Ending, Result
  <2>2. CASE q # p
    BY <1>1, <2>2, Untouched DEF EInv, Types
  <2> QED BY <2>1, <2>2
<1> QED BY <1>4, <1>5 DEF EInv

(* What the flush of p writes over its UPDATE: rows of its own alerts.      *)
LEMMA Written ==
    ASSUME Types, NEW p \in Requests, pc[p] = "writing", WriteAlerts(p)
    PROVE  \E v \in WriteSets :
              /\ writes' = [writes EXCEPT ![p] = Over(v, writes[p])]
              /\ \A r \in DOMAIN v : v[r].id \in Active(payload[p])
<1>1. PICK fresh \in [Active(payload[p]) -> Rows] :
          LET written == {Target(p, a, fresh) : a \in Active(payload[p])} IN
          writes' = [writes EXCEPT ![p] =
              Over([r \in written |->
                       LET a == CHOOSE x \in Active(payload[p]) : Target(p, x, fresh) = r
                       IN [used |-> TRUE, id |-> a, expires |-> WrittenEnd(p, a, r)]],
                   writes[p])]
  BY DEF WriteAlerts
<1> DEFINE written == {Target(p, a, fresh) : a \in Active(payload[p])}
           owner(r) == CHOOSE x \in Active(payload[p]) : Target(p, x, fresh) = r
           v == [r \in written |-> [used |-> TRUE, id |-> owner(r), expires |-> WrittenEnd(p, owner(r), r)]]
<1>2. payload[p] \in Payload /\ Active(payload[p]) \subseteq Alerts
  BY DEF Types, Payload, Active
<1>3. ASSUME NEW a \in Active(payload[p]) PROVE Target(p, a, fresh) \in Rows
  <2>1. known[p][a].row \in Rows \cup {NoRow}
    BY <1>2 DEF Types, Known
  <2> QED BY <2>1 DEF Target
<1>4. ASSUME NEW r \in written PROVE owner(r) \in Active(payload[p]) /\ r \in Rows
  BY <1>3
<1>5. ASSUME NEW a \in Active(payload[p]), NEW r \in Rows PROVE WrittenEnd(p, a, r) \in 0..MaxTime
  <2>1. payload[p].until[a] \in 0..MaxTime
    BY <1>2 DEF Payload, Instants
  <2>2. zone[r].expires \in 0..MaxTime
    BY DEF Types, Zone
  <2> QED BY <2>1, <2>2 DEF WrittenEnd
<1>6. ASSUME NEW r \in written PROVE v[r] \in Zone /\ v[r].id \in Active(payload[p])
  <2>1. PICK b \in BOOLEAN : b = TRUE
    BY Zenon
  <2>2. v[r] = [used |-> b, id |-> owner(r), expires |-> WrittenEnd(p, owner(r), r)]
    BY <2>1, Zenon
  <2>3. owner(r) \in Active(payload[p]) /\ WrittenEnd(p, owner(r), r) \in 0..MaxTime
    BY <1>4, <1>5
  <2> HIDE DEF owner, v
  <2> QED BY <1>2, <2>2, <2>3 DEF Zone
<1>7. v \in WriteSets /\ DOMAIN v = written
  <2>1. written \in SUBSET Rows
    BY <1>4
  <2>2. DOMAIN v = written /\ v = [r \in written |-> v[r]]
    OBVIOUS
  <2> HIDE DEF v, written
  <2>3. v \in [written -> Zone]
    BY <1>6, <2>2
  <2> QED BY <2>1, <2>2, <2>3, IsWriteSet
<1>8. writes' = [writes EXCEPT ![p] = Over(v, writes[p])]
  BY <1>1, Zenon
<1> HIDE DEF v
<1> QED BY <1>6, <1>7, <1>8

LEMMA WriteKeeps ==
    ASSUME EInv, NEW p \in Requests, WriteAlerts(p)
    PROVE  EInv'
<1>1. /\ pc[p] = "writing" /\ pc' = [pc EXCEPT ![p] = "committing"]
      /\ UNCHANGED <<zone, now, payload, known, overtaken, shared>>
  BY DEF WriteAlerts
<1>2. PICK v \in WriteSets : /\ writes' = [writes EXCEPT ![p] = Over(v, writes[p])]
                             /\ \A r \in DOMAIN v : v[r].id \in Active(payload[p])
  BY <1>1, Written DEF EInv
<1>3. writes[p] \in WriteSets /\ zone \in [Rows -> Zone]
  BY DEF EInv, Types
<1> DEFINE w == Over(v, writes[p])
<1>4. /\ w \in WriteSets /\ DOMAIN w = DOMAIN v \cup DOMAIN writes[p]
      /\ \A r \in DOMAIN w : w[r] = IF r \in DOMAIN v THEN v[r] ELSE writes[p][r]
      /\ writes' = [writes EXCEPT ![p] = w]
  <2>1. /\ Over(v, writes[p]) \in WriteSets
        /\ DOMAIN Over(v, writes[p]) = DOMAIN v \cup DOMAIN writes[p]
        /\ \A r \in DOMAIN v \cup DOMAIN writes[p] :
              Over(v, writes[p])[r] = IF r \in DOMAIN v THEN v[r] ELSE writes[p][r]
    BY <1>3, OverWrites, Zenon
  <2>2. w = Over(v, writes[p])
    OBVIOUS
  <2> HIDE DEF w
  <2> QED BY <1>2, <2>1, <2>2
<1> HIDE DEF w
<1>5. Types'
  BY <1>1, <1>4 DEF EInv, Types, Places
<1>6. ASSUME NEW q \in Requests PROVE Ending(q)'
  <2>1. CASE q = p
    <3>1. writes'[p] = w
      BY <1>4 DEF EInv, Types
    <3>2. ASSUME NEW r \in Rows
          PROVE  Result(p)'[r].id \in Active(payload[p]) \/ Result(p)'[r] = Result(p)[r]
      <4>1. Result(p)[r] = IF r \in DOMAIN writes[p] THEN writes[p][r] ELSE zone[r]
        BY <1>3, OverZone DEF Result
      <4>2. Result(p)'[r] = IF r \in DOMAIN w THEN w[r] ELSE zone[r]
        BY <1>1, <1>3, <1>4, <3>1, OverZone DEF Result
      <4>3. CASE r \in DOMAIN v
        BY <1>2, <1>4, <4>2, <4>3
      <4>4. CASE r \notin DOMAIN v
        BY <1>4, <4>1, <4>2, <4>4
      <4> QED BY <4>3, <4>4
    <3>3. Ending(p) /\ pc'[p] = "committing"
      BY <1>1 DEF EInv, Types
    <3> QED BY <1>1, <2>1, <3>2, <3>3 DEF Ending
  <2>2. CASE q # p
    BY <1>1, <1>4, <2>2, Untouched DEF EInv, Types
  <2> QED BY <2>1, <2>2
<1> QED BY <1>5, <1>6 DEF EInv

(* A commit changes rows that others take for overtaken.                    *)
LEMMA CommitKeeps ==
    ASSUME EInv, NEW p \in Requests, Commit(p)
    PROVE  EInv'
<1>1. /\ pc[p] = "committing" /\ zone' = Over(writes[p], zone) /\ UNCHANGED <<now, shared>>
      /\ pc' = [pc EXCEPT ![p] = "idle"]
      /\ payload' = [payload EXCEPT ![p] = EmptyPayload]
      /\ writes' = [writes EXCEPT ![p] = NoWrites]
      /\ known' = [known EXCEPT ![p] = NothingKnown]
      /\ overtaken' = [q \in Requests |->
            IF q = p \/ pc[q] = "idle" THEN {} ELSE overtaken[q] \cup DOMAIN writes[p]]
  BY DEF Commit, Close
<1>2. writes[p] \in WriteSets /\ zone \in [Rows -> Zone] /\ DOMAIN writes[p] \subseteq Rows
  BY WriteSetTypes DEF EInv, Types
<1>3. Types'
  BY <1>1, <1>2, OverZone, InitialTypes DEF EInv, Types, Places
<1>4. ASSUME NEW q \in Requests PROVE Ending(q)'
  <2>1. CASE q = p
    BY <1>1, <2>1 DEF EInv, Types, Ending
  <2>2. CASE q # p /\ pc[q] # "idle"
    <3>1. /\ pc'[q] = pc[q] /\ payload'[q] = payload[q] /\ writes'[q] = writes[q]
          /\ overtaken'[q] = overtaken[q] \cup DOMAIN writes[p]
      BY <1>1, <2>2 DEF EInv, Types
    <3>2. ASSUME NEW r \in Rows \ overtaken'[q] PROVE Result(q)'[r] = Result(q)[r]
      <4>1. zone'[r] = zone[r] /\ zone' \in [Rows -> Zone]
        BY <1>1, <1>2, <3>1, OverZone
      <4>2. writes[q] \in WriteSets
        BY DEF EInv, Types
      <4> QED BY <1>2, <3>1, <4>1, <4>2, OverZone DEF Result
    <3>3. Ending(q)
      BY DEF EInv
    <3> QED BY <3>1, <3>2, <3>3 DEF Ending
  <2>3. CASE q # p /\ pc[q] = "idle"
    BY <1>1, <2>3 DEF EInv, Types, Ending
  <2> QED BY <2>1, <2>2, <2>3
<1> QED BY <1>3, <1>4 DEF EInv

LEMMA AbortKeeps ==
    ASSUME EInv, NEW p \in Requests, Abort(p)
    PROVE  EInv'
<1>1. /\ UNCHANGED <<zone, now, shared>>
      /\ pc' = [pc EXCEPT ![p] = "idle"]
      /\ payload' = [payload EXCEPT ![p] = EmptyPayload]
      /\ writes' = [writes EXCEPT ![p] = NoWrites]
      /\ known' = [known EXCEPT ![p] = NothingKnown]
      /\ overtaken' = [overtaken EXCEPT ![p] = {}]
  BY DEF Abort, Close
<1>2. Types'
  BY <1>1, InitialTypes DEF EInv, Types, Places
<1>3. ASSUME NEW q \in Requests PROVE Ending(q)'
  <2>1. CASE q = p
    BY <1>1, <2>1 DEF EInv, Types, Ending
  <2>2. CASE q # p
    BY <1>1, <2>2, Untouched DEF EInv, Types
  <2> QED BY <2>1, <2>2
<1> QED BY <1>2, <1>3 DEF EInv

LEMMA StartsWell == Init => EInv
<1> SUFFICES ASSUME Init PROVE EInv
  OBVIOUS
<1>1. Types
  BY InitialTypes, TimeAssumption DEF Init, Types, Places, Instants
<1>2. ASSUME NEW p \in Requests PROVE Ending(p)
  BY DEF Init, Ending
<1> QED BY <1>1, <1>2 DEF EInv

LEMMA StepKeeps == EInv /\ [Next]_vars => EInv'
<1> SUFFICES ASSUME EInv, [Next]_vars PROVE EInv'
  OBVIOUS
<1>1. ASSUME NEW p \in Requests,
             \/ Receive(p) \/ ExpireStale(p) \/ ReadExisting(p) \/ WriteAlerts(p)
             \/ Commit(p) \/ Abort(p)
      PROVE  EInv'
  BY <1>1, ReceiveKeeps, ExpireKeeps, ReadKeeps, WriteKeeps, CommitKeeps, AbortKeeps
<1>2. CASE Tick
  <2>1. now' \in Instants /\ UNCHANGED <<zone, pc, payload, writes, known, overtaken, shared>>
    BY <1>2, TimeAssumption DEF Tick, EInv, Types, Instants
  <2>2. Types'
    BY <2>1 DEF EInv, Types
  <2> QED BY <2>1, <2>2, Untouched DEF EInv
<1>3. CASE UNCHANGED vars
  <2>1. UNCHANGED <<zone, now, pc, payload, writes, known, overtaken, shared>>
    BY <1>3 DEF vars
  <2>2. Types'
    BY <2>1 DEF EInv, Types
  <2> QED BY <2>1, <2>2, Untouched DEF EInv
<1> QED BY <1>1, <1>2, <1>3 DEF Next

LEMMA AlwaysEInv == Spec => []EInv
<1> QED BY StartsWell, StepKeeps, PTL DEF Spec

(* The types of the registry, for any number of requests that overlap.      *)
THEOREM RegistryTypes == Spec => []TypeOK
<1>1. EInv => TypeOK
  <2> SUFFICES ASSUME EInv PROVE TypeOK
    OBVIOUS
  <2>1. \A p \in Requests : DOMAIN writes[p] \subseteq Rows /\ \A r \in DOMAIN writes[p] : writes[p][r] \in Zone
    BY WriteSetTypes DEF EInv, Types
  <2> QED BY <2>1 DEF EInv, Types, TypeOK, Places, Known
<1> QED BY <1>1, AlwaysEInv, PTL

(* However requests overlap, a complete snapshot ends what it does not      *)
(* list, except the rows that others committed meanwhile.                   *)
THEOREM CompleteEnds == Spec => CompleteEndsOthers
<1>1. EInv /\ [Next]_vars =>
        [\A p \in Requests :
           pc[p] = "committing" /\ pc'[p] = "idle" /\ zone' = Over(writes[p], zone)
           /\ payload[p].complete
           => \A r \in Rows \ overtaken[p] :
                zone'[r].used /\ zone'[r].id \notin Active(payload[p])
                => zone'[r].expires <= payload[p].generated]_vars
  BY DEF EInv, Ending, Result
<1> QED BY <1>1, AlwaysEInv, PTL DEF Spec, CompleteEndsOthers

(***************************************************************************)
(* Requests that overlap: whose rows are whose.                            *)
(***************************************************************************)

(* No row of the table belongs to a.                                        *)
NoRowOf(a) == \A r \in Rows : zone[r].used => zone[r].id # a

(* The row locks: no row is written by two open requests.                   *)
Locked == \A p, q \in Requests : p # q => DOMAIN writes[p] \cap DOMAIN writes[q] = {}

(* What a request writes stays the row of the same alert; before its flush  *)
(* it has inserted nothing.                                                 *)
Held(p) ==
    /\ pc[p] \in {"idle", "expiring"} => DOMAIN writes[p] = {}
    /\ pc[p] # "committing" => \A r \in DOMAIN writes[p] : zone[r].used
    /\ \A r \in DOMAIN writes[p] :
           writes[p][r].used /\ (zone[r].used => writes[p][r].id = zone[r].id)

(* What its SELECT found is still a row of the alert; if it found nothing,  *)
(* only a request that lists the alert too can have inserted one since.     *)
Looked(p) ==
    pc[p] = "writing" =>
        \A a \in Active(payload[p]) :
            \/ /\ known[p][a].row \in Rows
               /\ zone[known[p][a].row].used /\ zone[known[p][a].row].id = a
            \/ /\ known[p][a].row = NoRow
               /\ a \notin shared => NoRowOf(a)

(* It inserts at most one row of an alert, and only for alerts it lists.    *)
Inserted(p) ==
    \A r \in DOMAIN writes[p] : ~zone[r].used =>
        /\ writes[p][r].id \in Active(payload[p])
        /\ writes[p][r].id \notin shared => NoRowOf(writes[p][r].id)
        /\ \A s \in DOMAIN writes[p] :
               ~zone[s].used /\ writes[p][s].id = writes[p][r].id => s = r

(* Alerts that two open requests list are shared.                           *)
Listed ==
    \A p, q \in Requests : p # q => Active(payload[p]) \cap Active(payload[q]) \subseteq shared

RInv ==
    /\ EInv
    /\ Locked
    /\ Listed
    /\ \A p \in Requests : Held(p) /\ Looked(p) /\ Inserted(p)
    /\ OneRowUnlessShared

LEMMA NothingActive == Active(EmptyPayload) = {}
BY DEF Active, EmptyPayload

(* A request that does not move keeps what is its own while others share    *)
(* more alerts with it.                                                     *)
LEMMA OthersKeep ==
    ASSUME RInv, NEW q \in Requests, zone' = zone, pc'[q] = pc[q], payload'[q] = payload[q],
           writes'[q] = writes[q], known'[q] = known[q], shared \subseteq shared'
    PROVE  Held(q)' /\ Looked(q)' /\ Inserted(q)'
<1>1. Held(q) /\ Looked(q) /\ Inserted(q)
  BY DEF RInv
<1>2. Held(q)'
  BY <1>1 DEF Held
<1>3. Looked(q)'
  BY <1>1 DEF Looked, NoRowOf
<1>4. Inserted(q)'
  BY <1>1 DEF Inserted, NoRowOf
<1> QED BY <1>2, <1>3, <1>4

(* If the table stays as it is, so does what it says of the rows.           *)
LEMMA SameRows ==
    ASSUME RInv, zone' = zone, shared \subseteq shared'
    PROVE  OneRowUnlessShared'
BY DEF RInv, OneRowUnlessShared, OneRow, RowsOf

LEMMA RowsReceive ==
    ASSUME RInv, NEW p \in Requests, Receive(p)
    PROVE  RInv'
<1>1. /\ pc' = [pc EXCEPT ![p] = "expiring"]
      /\ UNCHANGED <<zone, now, writes, known, overtaken>>
  BY DEF Receive
<1>2. PICK m \in Payload :
          /\ payload' = [payload EXCEPT ![p] = m]
          /\ shared' = shared \cup
                UNION {Active(m) \cap Active(payload[q]) : q \in Requests \ {p}}
  BY DEF Receive
<1>3. Types
  BY DEF RInv, EInv
<1>4. EInv'
  BY ReceiveKeeps DEF RInv
<1>5. Locked'
  BY <1>1 DEF RInv, Locked
<1>6. ASSUME NEW q \in Requests PROVE Held(q)' /\ Looked(q)' /\ Inserted(q)'
  <2>1. CASE q = p
    <3>1. DOMAIN writes[p] = {}
      BY DEF RInv, Held, Receive
    <3> QED BY <1>1, <1>3, <2>1, <3>1 DEF Types, Held, Looked, Inserted
  <2>2. CASE q # p
    BY <1>1, <1>2, <1>3, <2>2, OthersKeep DEF Types
  <2> QED BY <2>1, <2>2
<1>7. Listed'
  <2> SUFFICES ASSUME NEW q \in Requests, NEW o \in Requests, q # o
               PROVE  Active(payload'[q]) \cap Active(payload'[o]) \subseteq shared'
    BY DEF Listed, Active
  <2>1. Active(payload[q]) \cap Active(payload[o]) \subseteq shared
    BY DEF RInv, Listed
  <2>2. \A i \in Requests : payload'[i] = IF i = p THEN m ELSE payload[i]
    BY <1>2, <1>3 DEF Types
  <2>3. CASE q # p /\ o # p
    BY <1>2, <2>1, <2>2, <2>3
  <2>4. CASE q = p
    BY <1>2, <2>2, <2>4
  <2>5. CASE o = p
    BY <1>2, <2>2, <2>5
  <2> QED BY <2>3, <2>4, <2>5
<1>8. OneRowUnlessShared'
  BY <1>1, <1>2, SameRows
<1> QED BY <1>4, <1>5, <1>6, <1>7, <1>8 DEF RInv

LEMMA RowsExpire ==
    ASSUME RInv, NEW p \in Requests, ExpireStale(p)
    PROVE  RInv'
<1> DEFINE m == payload[p]
           w == [r \in Stale(m) |-> [zone[r] EXCEPT !.expires = m.generated]]
<1>1. /\ pc[p] = "expiring" /\ pc' = [pc EXCEPT ![p] = "reading"]
      /\ UNCHANGED <<zone, now, payload, known, overtaken, shared>>
  BY DEF ExpireStale
<1>2. Types
  BY DEF RInv, EInv
<1>3. \/ writes' = [writes EXCEPT ![p] = w] /\ Stale(m) \cap LockedByOthers(p) = {}
      \/ writes' = writes
  <2>1. CASE m.complete
    BY <2>1, Zenon DEF ExpireStale
  <2>2. CASE ~m.complete
    BY <2>2, Zenon DEF ExpireStale
  <2> QED BY <2>1, <2>2
<1>4. DOMAIN w = Stale(m) /\ \A r \in Stale(m) : r \in Rows /\ zone[r].used /\ w[r].used /\ w[r].id = zone[r].id
  <2>1. ASSUME NEW r \in Stale(m) PROVE r \in Rows /\ zone[r].used /\ w[r].used /\ w[r].id = zone[r].id
    <3>1. zone[r] \in Zone /\ r \in Rows /\ zone[r].used /\ w[r] = [zone[r] EXCEPT !.expires = m.generated]
      BY <1>2 DEF Stale, Types
    <3>2. w[r].used = zone[r].used /\ w[r].id = zone[r].id
      BY <3>1 DEF Zone
    <3> HIDE DEF w
    <3> QED BY <3>1, <3>2
  <2> QED BY <2>1
<1>5. DOMAIN writes[p] = {}
  BY <1>1 DEF RInv, Held
<1> HIDE DEF w
<1>6. \/ writes'[p] = w /\ DOMAIN w \cap LockedByOthers(p) = {}
      \/ writes'[p] = writes[p]
  BY <1>2, <1>3, <1>4 DEF Types
<1>7. \A q \in Requests \ {p} : writes'[q] = writes[q] /\ pc'[q] = pc[q]
  BY <1>1, <1>2, <1>3 DEF Types
<1>8. EInv'
  BY ExpireKeeps DEF RInv
<1>9. Locked'
  <2>1. \A q \in Requests \ {p} : DOMAIN writes'[p] \cap DOMAIN writes'[q] = {}
    BY <1>5, <1>6, <1>7 DEF LockedByOthers
  <2> QED BY <1>7, <2>1 DEF RInv, Locked
<1>10. ASSUME NEW q \in Requests PROVE Held(q)' /\ Looked(q)' /\ Inserted(q)'
  <2>1. CASE q = p
    <3>1. pc'[p] = "reading" /\ zone' = zone
      BY <1>1, <1>2 DEF Types
    <3>2. \A r \in DOMAIN writes'[p] : /\ zone[r].used /\ writes'[p][r].used
                                       /\ writes'[p][r].id = zone[r].id
      BY <1>4, <1>5, <1>6
    <3> QED BY <2>1, <3>1, <3>2 DEF Held, Looked, Inserted
  <2>2. CASE q # p
    BY <1>1, <1>7, <2>2, OthersKeep
  <2> QED BY <2>1, <2>2
<1>11. Listed'
  BY <1>1 DEF RInv, Listed
<1>12. OneRowUnlessShared'
  BY <1>1, SameRows
<1> QED BY <1>8, <1>9, <1>10, <1>11, <1>12 DEF RInv

LEMMA RowsRead ==
    ASSUME RInv, NEW p \in Requests, ReadExisting(p)
    PROVE  RInv'
<1>1. /\ pc[p] = "reading" /\ pc' = [pc EXCEPT ![p] = "writing"]
      /\ UNCHANGED <<zone, now, payload, writes, overtaken, shared>>
  BY DEF ReadExisting
<1>2. Types
  BY DEF RInv, EInv
<1>3. PICK found \in [Alerts -> Rows \cup {NoRow}] :
          /\ \A a \in Alerts :
                LET own == {r \in Rows : zone[r].used /\ zone[r].id = a} IN
                IF a \in Active(payload[p]) /\ own # {} THEN found[a] \in own ELSE found[a] = NoRow
          /\ known' = [known EXCEPT ![p] = [a \in Alerts |->
                [row |-> found[a],
                 expires |-> IF found[a] = NoRow THEN 0 ELSE zone[found[a]].expires]]]
  BY DEF ReadExisting
<1>4. \A a \in Alerts : known'[p][a].row = found[a]
  BY <1>2, <1>3 DEF Types
<1>5. \A q \in Requests \ {p} : known'[q] = known[q] /\ pc'[q] = pc[q]
  BY <1>1, <1>2, <1>3 DEF Types
<1>6. EInv'
  BY ReadKeeps DEF RInv
<1>7. ASSUME NEW q \in Requests PROVE Held(q)' /\ Looked(q)' /\ Inserted(q)'
  <2>1. CASE q = p
    <3>1. ASSUME NEW a \in Active(payload[p])
          PROVE  \/ /\ found[a] \in Rows
                    /\ zone[found[a]].used /\ zone[found[a]].id = a
                 \/ /\ found[a] = NoRow /\ NoRowOf(a)
      <4>1. a \in Alerts
        BY <1>2 DEF Types, Payload, Active
      <4> QED BY <1>3, <4>1 DEF NoRowOf
    <3>2. Active(payload[p]) \subseteq Alerts
      BY <1>2 DEF Types, Payload, Active
    <3>3. Looked(p)'
      BY <1>1, <1>4, <3>1, <3>2 DEF Looked, NoRowOf
    <3>4. Held(p) /\ Inserted(p)
      BY DEF RInv
    <3>5. Held(p)' /\ Inserted(p)'
      BY <1>1, <1>2, <3>4 DEF Held, Inserted, NoRowOf, Types
    <3> QED BY <2>1, <3>3, <3>5
  <2>2. CASE q # p
    BY <1>1, <1>5, <2>2, OthersKeep
  <2> QED BY <2>1, <2>2
<1>8. Locked' /\ Listed'
  BY <1>1 DEF RInv, Locked, Listed
<1>9. OneRowUnlessShared'
  BY <1>1, SameRows
<1> QED BY <1>6, <1>7, <1>8, <1>9 DEF RInv

LEMMA RowsAbort ==
    ASSUME RInv, NEW p \in Requests, Abort(p)
    PROVE  RInv'
<1>1. /\ UNCHANGED <<zone, now, shared>>
      /\ pc' = [pc EXCEPT ![p] = "idle"]
      /\ payload' = [payload EXCEPT ![p] = EmptyPayload]
      /\ writes' = [writes EXCEPT ![p] = NoWrites]
      /\ known' = [known EXCEPT ![p] = NothingKnown]
  BY DEF Abort, Close
<1>2. Types
  BY DEF RInv, EInv
<1>3. /\ pc'[p] = "idle" /\ Active(payload'[p]) = {} /\ DOMAIN writes'[p] = {}
      /\ \A q \in Requests \ {p} : /\ pc'[q] = pc[q] /\ payload'[q] = payload[q]
                                   /\ writes'[q] = writes[q] /\ known'[q] = known[q]
  BY <1>1, <1>2, InitialTypes, NothingActive DEF Types
<1>4. EInv'
  BY AbortKeeps DEF RInv
<1>5. Locked' /\ Listed'
  BY <1>1, <1>3 DEF RInv, Locked, Listed
<1>6. ASSUME NEW q \in Requests PROVE Held(q)' /\ Looked(q)' /\ Inserted(q)'
  <2>1. CASE q = p
    BY <1>3, <2>1 DEF Held, Looked, Inserted
  <2>2. CASE q # p
    BY <1>1, <1>3, <2>2, OthersKeep
  <2> QED BY <2>1, <2>2
<1>7. OneRowUnlessShared'
  BY <1>1, SameRows
<1> QED BY <1>4, <1>5, <1>6, <1>7 DEF RInv

(* The flush gives each listed alert the row it has, or one that is nobody  *)
(* else's: to is the row of each alert, v what is written over the UPDATE.  *)
Flushes(p, to, v) ==
    /\ \A a, b \in Active(payload[p]) : to[a] = to[b] => a = b
    /\ \A a \in Active(payload[p]) :
          \/ /\ known[p][a].row # NoRow /\ to[a] = known[p][a].row
             /\ zone[to[a]].used /\ zone[to[a]].id = a
          \/ /\ known[p][a].row = NoRow /\ ~zone[to[a]].used
             /\ a \notin shared => NoRowOf(a)
    /\ \A a \in Active(payload[p]) : to[a] \notin LockedByOthers(p)
    /\ writes' = [writes EXCEPT ![p] = Over(v, writes[p])]
    /\ DOMAIN v = {to[a] : a \in Active(payload[p])}
    /\ \A a \in Active(payload[p]) :
          /\ v[to[a]].used /\ v[to[a]].id = a
          /\ v[to[a]].expires = WrittenEnd(p, a, to[a])

LEMMA Flush ==
    ASSUME RInv, NEW p \in Requests, WriteAlerts(p)
    PROVE  \E to \in [Active(payload[p]) -> Rows], v \in WriteSets : Flushes(p, to, v)
<1> DEFINE active == Active(payload[p])
<1>1. PICK fresh \in [active -> Rows] :
          LET written == {Target(p, a, fresh) : a \in active}
              free == {r \in Rows : ~zone[r].used} \ LockedByOthers(p)
          IN
          /\ \A a \in active : known[p][a].row = NoRow => fresh[a] \in free
          /\ \A a, b \in active : a # b => fresh[a] # fresh[b]
          /\ written \cap LockedByOthers(p) = {}
          /\ writes' = [writes EXCEPT ![p] =
                Over([r \in written |->
                         LET a == CHOOSE x \in active : Target(p, x, fresh) = r
                         IN [used |-> TRUE, id |-> a, expires |-> WrittenEnd(p, a, r)]],
                     writes[p])]
  BY Zenon DEF WriteAlerts
<1> DEFINE to == [a \in active |-> Target(p, a, fresh)]
<1>2. Types /\ payload[p] \in Payload /\ active \subseteq Alerts
  BY DEF RInv, EInv, Types, Payload, Active
<1>3. pc[p] = "writing" /\ Looked(p)
  BY DEF WriteAlerts, RInv
<1>4. ASSUME NEW a \in active
      PROVE  /\ to[a] \in Rows /\ to[a] = Target(p, a, fresh)
             /\ \/ /\ known[p][a].row # NoRow /\ to[a] = known[p][a].row
                   /\ zone[to[a]].used /\ zone[to[a]].id = a
                \/ /\ known[p][a].row = NoRow /\ to[a] = fresh[a] /\ ~zone[to[a]].used
                   /\ a \notin shared => NoRowOf(a)
  <2>1. fresh[a] \in Rows /\ (known[p][a].row = NoRow => ~zone[fresh[a]].used)
    BY <1>1
  <2>2. to[a] = Target(p, a, fresh)
    OBVIOUS
  <2> HIDE DEF to
  <2> QED BY <1>3, <2>1, <2>2, NoRowAssumption DEF Looked, Target
<1> HIDE DEF to
<1>5. ASSUME NEW a \in active, NEW b \in active, to[a] = to[b] PROVE a = b
  BY <1>1, <1>4, <1>5
<1>6. to \in [active -> Rows]
  BY <1>4 DEF to
<1> DEFINE written == {Target(p, a, fresh) : a \in active}
           owner(r) == CHOOSE x \in active : Target(p, x, fresh) = r
           v == [r \in written |-> [used |-> TRUE, id |-> owner(r), expires |-> WrittenEnd(p, owner(r), r)]]
<1>7. written = {to[a] : a \in active}
  BY <1>4
<1>8. \A a \in active : to[a] \notin LockedByOthers(p)
  BY <1>1, <1>7
<1>9. ASSUME NEW a \in active PROVE owner(to[a]) = a
  <2>1. owner(to[a]) \in active /\ Target(p, owner(to[a]), fresh) = to[a]
    BY <1>4
  <2> HIDE DEF owner
  <2> QED BY <1>4, <1>5, <2>1
<1>10. ASSUME NEW a \in active
       PROVE  v[to[a]] = [used |-> TRUE, id |-> a, expires |-> WrittenEnd(p, a, to[a])]
  <2>1. to[a] \in written
    BY <1>7
  <2>2. v[to[a]] = [used |-> TRUE, id |-> owner(to[a]), expires |-> WrittenEnd(p, owner(to[a]), to[a])]
    BY <2>1, Zenon
  <2> HIDE DEF owner, v
  <2> QED BY <1>9, <2>2, Zenon
<1>11. writes' = [writes EXCEPT ![p] = Over(v, writes[p])]
  BY <1>1, Zenon
<1>12. DOMAIN v = written /\ written \in SUBSET Rows
  BY <1>4, <1>7
<1> HIDE DEF v, written
<1>13. PICK b \in BOOLEAN : b = TRUE
  BY Zenon
<1>14. ASSUME NEW a \in active
       PROVE  v[to[a]] \in Zone /\ v[to[a]].used /\ v[to[a]].id = a /\ v[to[a]].expires = WrittenEnd(p, a, to[a])
  <2>1. v[to[a]] = [used |-> b, id |-> a, expires |-> WrittenEnd(p, a, to[a])]
    BY <1>10, <1>13, Zenon
  <2>2. WrittenEnd(p, a, to[a]) \in 0..MaxTime /\ a \in Alerts
    <3>1. payload[p].until[a] \in 0..MaxTime /\ a \in Alerts
      BY <1>2 DEF Payload, Instants
    <3>2. zone[to[a]].expires \in 0..MaxTime
      BY <1>2, <1>4 DEF Types, Zone
    <3> QED BY <3>1, <3>2 DEF WrittenEnd
  <2>3. v[to[a]] \in Zone /\ v[to[a]].used = b /\ v[to[a]].id = a /\ v[to[a]].expires = WrittenEnd(p, a, to[a])
    BY <2>1, <2>2 DEF Zone
  <2> QED BY <1>13, <2>3, Zenon
<1>15. v \in WriteSets
  <2>1. \A r \in written : v[r] \in Zone
    BY <1>7, <1>14
  <2>2. v \in [written -> Zone]
    <3>1. v = [r \in written |-> v[r]]
      BY <1>12 DEF v
    <3> QED BY <2>1, <3>1
  <2> QED BY <1>12, <2>2, IsWriteSet
<1>16. \A a, c \in active : to[a] = to[c] => a = c
  BY <1>5
<1>17. \A a \in active :
          \/ /\ known[p][a].row # NoRow /\ to[a] = known[p][a].row
             /\ zone[to[a]].used /\ zone[to[a]].id = a
          \/ /\ known[p][a].row = NoRow /\ ~zone[to[a]].used
             /\ a \notin shared => NoRowOf(a)
  BY <1>4
<1>18. /\ DOMAIN v = {to[a] : a \in active}
       /\ \A a \in active : v[to[a]].used /\ v[to[a]].id = a /\ v[to[a]].expires = WrittenEnd(p, a, to[a])
  BY <1>7, <1>12, <1>14
<1>19. to \in [Active(payload[p]) -> Rows] /\ v \in WriteSets
  BY <1>6, <1>15
<1>20. Flushes(p, to, v)
  BY <1>8, <1>11, <1>16, <1>17, <1>18, Zenon DEF Flushes
<1> HIDE DEF active, owner
<1> QED BY <1>19, <1>20, Zenon

(* The write set after the flush: what it wrote, over what the UPDATE did.  *)
LEMMA FlushedRows ==
    ASSUME Types, NEW p \in Requests, NEW v \in WriteSets,
           writes' = [writes EXCEPT ![p] = Over(v, writes[p])]
    PROVE  /\ DOMAIN writes'[p] = DOMAIN v \cup DOMAIN writes[p]
           /\ \A r \in DOMAIN v : writes'[p][r] = v[r]
           /\ \A r \in DOMAIN writes[p] : r \notin DOMAIN v => writes'[p][r] = writes[p][r]
           /\ \A q \in Requests \ {p} : writes'[q] = writes[q]
<1>1. writes[p] \in WriteSets
  BY DEF Types
<1>2. /\ DOMAIN Over(v, writes[p]) = DOMAIN v \cup DOMAIN writes[p]
      /\ \A r \in DOMAIN v \cup DOMAIN writes[p] :
            Over(v, writes[p])[r] = IF r \in DOMAIN v THEN v[r] ELSE writes[p][r]
  BY <1>1, OverWrites, Zenon
<1> DEFINE w == Over(v, writes[p])
<1>3. writes'[p] = w
  BY DEF Types
<1>4. DOMAIN w = DOMAIN v \cup DOMAIN writes[p]
      /\ \A r \in DOMAIN v \cup DOMAIN writes[p] : w[r] = IF r \in DOMAIN v THEN v[r] ELSE writes[p][r]
  BY <1>2
<1>5. \A q \in Requests \ {p} : writes'[q] = writes[q]
  BY DEF Types
<1> HIDE DEF w
<1> QED BY <1>3, <1>4, <1>5

LEMMA RowsWrite ==
    ASSUME RInv, NEW p \in Requests, WriteAlerts(p)
    PROVE  RInv'
<1> DEFINE active == Active(payload[p])
<1>1. /\ pc[p] = "writing" /\ pc' = [pc EXCEPT ![p] = "committing"]
      /\ UNCHANGED <<zone, now, payload, known, overtaken, shared>>
  BY DEF WriteAlerts
<1>2. Types
  BY DEF RInv, EInv
<1>3. PICK to \in [active -> Rows], v \in WriteSets : Flushes(p, to, v)
  BY Flush, Zenon
<1>4. /\ DOMAIN writes'[p] = DOMAIN v \cup DOMAIN writes[p]
      /\ \A r \in DOMAIN v : writes'[p][r] = v[r]
      /\ \A r \in DOMAIN writes[p] : r \notin DOMAIN v => writes'[p][r] = writes[p][r]
      /\ \A q \in Requests \ {p} : writes'[q] = writes[q]
  BY <1>2, <1>3, FlushedRows DEF Flushes
<1> HIDE DEF active
<1>5. /\ pc'[p] = "committing" /\ zone' = zone /\ payload' = payload
      /\ \A q \in Requests \ {p} : pc'[q] = pc[q]
  BY <1>1, <1>2 DEF Types
<1>6. EInv'
  BY WriteKeeps DEF RInv
<1>7. Locked'
  <2>1. ASSUME NEW q \in Requests \ {p} PROVE DOMAIN writes'[p] \cap DOMAIN writes'[q] = {}
    <3>1. DOMAIN v \cap DOMAIN writes[q] = {}
      BY <1>3 DEF LockedByOthers, Flushes, active
    <3>2. DOMAIN writes[p] \cap DOMAIN writes[q] = {}
      BY DEF RInv, Locked
    <3> QED BY <1>4, <3>1, <3>2
  <2> QED BY <1>4, <2>1 DEF RInv, Locked
<1>8. Held(p) /\ \A r \in DOMAIN writes[p] : zone[r].used
  BY <1>1 DEF RInv, Held
<1>9. Held(p)'
  <2>1. ASSUME NEW r \in DOMAIN writes'[p]
        PROVE  writes'[p][r].used /\ (zone[r].used => writes'[p][r].id = zone[r].id)
    <3>1. CASE r \in DOMAIN v
      <4>1. PICK a \in active : r = to[a]
        BY <1>3, <3>1 DEF Flushes, active
      <4> QED BY <1>3, <1>4, <3>1, <4>1 DEF Flushes, active
    <3>2. CASE r \notin DOMAIN v
      BY <1>4, <1>8, <2>1, <3>2 DEF Held
    <3> QED BY <3>1, <3>2
  <2> QED BY <1>5, <2>1 DEF Held
<1>10. Inserted(p)'
  <2>1. ASSUME NEW r \in DOMAIN writes'[p], ~zone[r].used
        PROVE  \E a \in active : /\ r = to[a] /\ writes'[p][r].id = a
                                 /\ a \notin shared => NoRowOf(a)
    <3>1. r \in DOMAIN v
      BY <1>4, <1>8, <2>1
    <3>2. PICK a \in active : r = to[a]
      BY <1>3, <3>1 DEF Flushes, active
    <3> QED BY <1>3, <1>4, <2>1, <3>1, <3>2 DEF Flushes, active
  <2>2. payload'[p] = payload[p] /\ zone' = zone /\ shared' = shared
    BY <1>1
  <2> QED BY <2>1, <2>2 DEF Inserted, NoRowOf, active
<1>11. ASSUME NEW q \in Requests PROVE Held(q)' /\ Looked(q)' /\ Inserted(q)'
  <2>1. CASE q = p
    BY <1>5, <1>9, <1>10, <2>1 DEF Looked
  <2>2. CASE q # p
    BY <1>1, <1>4, <1>5, <2>2, OthersKeep
  <2> QED BY <2>1, <2>2
<1>12. Listed'
  BY <1>1 DEF RInv, Listed
<1>13. OneRowUnlessShared'
  BY <1>1, SameRows
<1> QED BY <1>6, <1>7, <1>11, <1>12, <1>13 DEF RInv

(* What a commit leaves of each row: a used row stays the row of the same   *)
(* alert, and a new one belongs to an alert the request lists.              *)
LEMMA Committed ==
    ASSUME RInv, NEW p \in Requests, zone' = Over(writes[p], zone), NEW r \in Rows
    PROVE  /\ r \notin DOMAIN writes[p] => zone'[r] = zone[r]
           /\ r \in DOMAIN writes[p] => zone'[r] = writes[p][r]
           /\ zone[r].used => zone'[r].used /\ zone'[r].id = zone[r].id
           /\ zone'[r].used /\ ~zone[r].used =>
                 /\ r \in DOMAIN writes[p] /\ zone'[r].id \in Active(payload[p])
                 /\ zone'[r].id \notin shared => NoRowOf(zone'[r].id)
<1>1. writes[p] \in WriteSets /\ zone \in [Rows -> Zone]
  BY DEF RInv, EInv, Types
<1>2. zone'[r] = IF r \in DOMAIN writes[p] THEN writes[p][r] ELSE zone[r]
  BY <1>1, OverZone
<1>3. Held(p) /\ Inserted(p)
  BY DEF RInv
<1> QED BY <1>2, <1>3 DEF Held, Inserted

LEMMA RowsCommit ==
    ASSUME RInv, NEW p \in Requests, Commit(p)
    PROVE  RInv'
<1>1. /\ pc[p] = "committing" /\ zone' = Over(writes[p], zone) /\ UNCHANGED <<now, shared>>
      /\ pc' = [pc EXCEPT ![p] = "idle"]
      /\ payload' = [payload EXCEPT ![p] = EmptyPayload]
      /\ writes' = [writes EXCEPT ![p] = NoWrites]
      /\ known' = [known EXCEPT ![p] = NothingKnown]
  BY DEF Commit, Close
<1>2. Types
  BY DEF RInv, EInv
<1>3. /\ pc'[p] = "idle" /\ Active(payload'[p]) = {} /\ DOMAIN writes'[p] = {}
      /\ \A q \in Requests \ {p} : /\ pc'[q] = pc[q] /\ payload'[q] = payload[q]
                                   /\ writes'[q] = writes[q] /\ known'[q] = known[q]
  BY <1>1, <1>2, InitialTypes, NothingActive DEF Types
<1>4. EInv'
  BY CommitKeeps DEF RInv
<1>5. Locked' /\ Listed'
  BY <1>1, <1>3 DEF RInv, Locked, Listed
<1>6. \A r \in Rows :
         /\ r \notin DOMAIN writes[p] => zone'[r] = zone[r]
         /\ r \in DOMAIN writes[p] => zone'[r] = writes[p][r]
         /\ zone[r].used => zone'[r].used /\ zone'[r].id = zone[r].id
         /\ zone'[r].used /\ ~zone[r].used =>
               /\ r \in DOMAIN writes[p] /\ zone'[r].id \in Active(payload[p])
               /\ zone'[r].id \notin shared => NoRowOf(zone'[r].id)
  BY <1>1, Committed
<1>7. ASSUME NEW q \in Requests \ {p}, NEW a \in Active(payload[q]), a \notin shared, NoRowOf(a)
      PROVE  NoRowOf(a)'
  <2>1. a \notin Active(payload[p])
    BY <1>7 DEF RInv, Listed
  <2> QED BY <1>6, <1>7, <2>1 DEF NoRowOf
<1>8. ASSUME NEW q \in Requests \ {p} PROVE Held(q)' /\ Looked(q)' /\ Inserted(q)'
  <2>1. Held(q) /\ Looked(q) /\ Inserted(q) /\ DOMAIN writes[q] \cap DOMAIN writes[p] = {}
    BY DEF RInv, Locked
  <2>2. DOMAIN writes[q] \subseteq Rows
    BY <1>2, WriteSetTypes DEF Types
  <2>3. \A r \in DOMAIN writes[q] : zone'[r] = zone[r]
    BY <1>6, <2>1, <2>2
  <2>4. Held(q)'
    BY <1>3, <2>1, <2>3 DEF Held
  <2>5. Looked(q)'
    BY <1>1, <1>3, <1>6, <1>7, <2>1 DEF Looked
  <2>6. Inserted(q)'
    BY <1>1, <1>3, <1>7, <2>1, <2>3 DEF Inserted
  <2> QED BY <2>4, <2>5, <2>6
<1>9. Held(p)' /\ Looked(p)' /\ Inserted(p)'
  BY <1>3 DEF Held, Looked, Inserted
<1>10. OneRowUnlessShared'
  <2> SUFFICES ASSUME NEW a \in Alerts \ shared, NEW r \in Rows, NEW s \in Rows,
                      zone'[r].used, zone'[s].used, zone'[r].id = a, zone'[s].id = a
               PROVE  r = s
    BY <1>1 DEF OneRowUnlessShared, OneRow, RowsOf
  <2>1. CASE zone[r].used /\ zone[s].used
    <3>1. r \in RowsOf(a) /\ s \in RowsOf(a)
      BY <1>6, <2>1 DEF RowsOf
    <3> QED BY <3>1 DEF RInv, OneRowUnlessShared, OneRow
  <2>2. CASE ~zone[r].used
    <3>1. NoRowOf(a) /\ r \in DOMAIN writes[p] /\ writes[p][r].id = a
      BY <1>6, <2>2
    <3>2. ~zone[s].used
      BY <1>6, <3>1 DEF NoRowOf
    <3>3. s \in DOMAIN writes[p] /\ writes[p][s].id = a
      BY <1>6, <3>2
    <3> QED BY <2>2, <3>1, <3>2, <3>3 DEF RInv, Inserted
  <2>3. CASE ~zone[s].used
    <3>1. NoRowOf(a) /\ s \in DOMAIN writes[p] /\ writes[p][s].id = a
      BY <1>6, <2>3
    <3>2. ~zone[r].used
      BY <1>6, <3>1 DEF NoRowOf
    <3>3. r \in DOMAIN writes[p] /\ writes[p][r].id = a
      BY <1>6, <3>2
    <3> QED BY <2>3, <3>1, <3>2, <3>3 DEF RInv, Inserted
  <2> QED BY <2>1, <2>2, <2>3
<1>11. \A q \in Requests : Held(q)' /\ Looked(q)' /\ Inserted(q)'
  BY <1>8, <1>9
<1> QED BY <1>4, <1>5, <1>10, <1>11 DEF RInv

LEMMA RowsStart == Init => RInv
<1> SUFFICES ASSUME Init PROVE RInv
  OBVIOUS
<1>1. \A p \in Requests : pc[p] = "idle" /\ DOMAIN writes[p] = {} /\ Active(payload[p]) = {}
  BY InitialTypes, NothingActive DEF Init
<1>2. Locked /\ Listed /\ \A p \in Requests : Held(p) /\ Looked(p) /\ Inserted(p)
  BY <1>1 DEF Locked, Listed, Held, Looked, Inserted
<1>3. OneRowUnlessShared
  <2>1. \A r \in Rows : ~zone[r].used
    BY InitialTypes DEF Init
  <2> QED BY <2>1 DEF OneRowUnlessShared, OneRow, RowsOf
<1> QED BY <1>2, <1>3, StartsWell DEF RInv

LEMMA RowsStep == RInv /\ [Next]_vars => RInv'
<1> SUFFICES ASSUME RInv, [Next]_vars PROVE RInv'
  OBVIOUS
<1>1. ASSUME NEW p \in Requests,
             \/ Receive(p) \/ ExpireStale(p) \/ ReadExisting(p) \/ WriteAlerts(p)
             \/ Commit(p) \/ Abort(p)
      PROVE  RInv'
  BY <1>1, RowsReceive, RowsExpire, RowsRead, RowsWrite, RowsCommit, RowsAbort
<1>2. CASE Tick \/ UNCHANGED vars
  <2>1. UNCHANGED <<zone, pc, payload, writes, known, overtaken, shared>>
    BY <1>2 DEF Tick, vars
  <2>2. EInv'
    BY StepKeeps DEF RInv
  <2>3. \A q \in Requests : Held(q)' /\ Looked(q)' /\ Inserted(q)'
    BY <2>1, OthersKeep
  <2>4. Locked' /\ Listed' /\ OneRowUnlessShared'
    BY <2>1, SameRows DEF RInv, Locked, Listed
  <2> QED BY <2>2, <2>3, <2>4 DEF RInv
<1> QED BY <1>1, <1>2 DEF Next

LEMMA AlwaysRInv == Spec => []RInv
<1> QED BY RowsStart, RowsStep, PTL DEF Spec

(* An alert that no two overlapping requests have both listed has one row,  *)
(* however many requests there are and however they interleave.             *)
THEOREM OneRowCorrect == Spec => []OneRowUnlessShared
<1>1. RInv => OneRowUnlessShared
  BY DEF RInv
<1> QED BY <1>1, AlwaysRInv, PTL

(***************************************************************************)
(* The registry as the board of EsAlertBoard.                              *)
(***************************************************************************)

(* The end a row has once the snapshot m has ended what it does not list.   *)
CutEnd(m, row) ==
    IF m.complete /\ row.used /\ row.id \notin Active(m) /\ row.expires > m.generated
    THEN m.generated ELSE row.expires

(* After its UPDATE, the request has touched nothing but ends.              *)
Half(p) ==
    \A r \in Rows : /\ Result(p)[r].used <=> zone[r].used
                    /\ Result(p)[r].id = zone[r].id
                    /\ Result(p)[r].expires = CutEnd(payload[p], zone[r])

(* What its SELECT returned is still so.                                    *)
Fresh(p) ==
    \A a \in Active(payload[p]) :
        IF known[p][a].row = NoRow THEN NoRowOf(a)
        ELSE known[p][a].expires = zone[known[p][a].row].expires

(* What it is about to commit: listed alerts as announced, the others as    *)
(* they were or ended.                                                      *)
Full(p) ==
    /\ \A a \in Active(payload[p]) : \E r \in Rows :
          Result(p)[r].used /\ Result(p)[r].id = a /\ Result(p)[r].expires = payload[p].until[a]
    /\ \A r \in Rows :
          /\ Result(p)[r].used /\ Result(p)[r].id \notin Active(payload[p]) =>
                /\ zone[r].used /\ zone[r].id = Result(p)[r].id
                /\ Result(p)[r].expires = CutEnd(payload[p], zone[r])
          /\ zone[r].used /\ zone[r].id \notin Active(payload[p]) =>
                Result(p)[r].used /\ Result(p)[r].id = zone[r].id

(* A request nobody has overtaken takes its snapshot as a whole.            *)
Whole(p) ==
    overtaken[p] = {} =>
        /\ pc[p] \in {"reading", "writing"} => Half(p)
        /\ pc[p] = "writing" => Fresh(p)
        /\ pc[p] = "committing" => Full(p)

BInv == RInv /\ \A p \in Requests : Whole(p)

LEMMA StillWhole ==
    ASSUME NEW q \in Requests, Whole(q), zone' = zone, pc'[q] = pc[q], payload'[q] = payload[q],
           writes'[q] = writes[q], known'[q] = known[q], overtaken'[q] = overtaken[q]
    PROVE  Whole(q)'
<1>1. Half(q) => Half(q)'
  BY DEF Half, Result, CutEnd, Active
<1>2. Fresh(q) => Fresh(q)'
  BY DEF Fresh, NoRowOf
<1>3. Full(q) => Full(q)'
  BY DEF Full, Result, CutEnd
<1> QED BY <1>1, <1>2, <1>3 DEF Whole

LEMMA WholeExpire ==
    ASSUME BInv, NEW p \in Requests, ExpireStale(p)
    PROVE  Whole(p)'
<1> DEFINE m == payload[p]
           w == [r \in Stale(m) |-> [zone[r] EXCEPT !.expires = m.generated]]
<1>1. /\ pc[p] = "expiring" /\ pc' = [pc EXCEPT ![p] = "reading"]
      /\ UNCHANGED <<zone, now, payload, known, overtaken>>
  BY DEF ExpireStale
<1>2. Types /\ Types' /\ m \in Payload /\ zone \in [Rows -> Zone] /\ writes'[p] \in WriteSets
  BY ExpireKeeps DEF BInv, RInv, EInv, Types
<1>3. pc'[p] = "reading"
  BY <1>1, <1>2 DEF Types
<1>4. ASSUME NEW r \in Rows
      PROVE  /\ Result(p)'[r].used <=> zone[r].used
             /\ Result(p)'[r].id = zone[r].id
             /\ Result(p)'[r].expires = CutEnd(m, zone[r])
  <2>1. zone[r] \in Zone
    BY <1>2
  <2>2. Result(p)'[r] = IF r \in DOMAIN writes'[p] THEN writes'[p][r] ELSE zone[r]
    BY <1>1, <1>2, OverZone DEF Result
  <2>3. CASE m.complete
    <3>1. writes'[p] = w
      BY <1>2, <2>3, Zenon DEF ExpireStale, Types
    <3>2. CASE r \in Stale(m)
      <4>1. Result(p)'[r] = [zone[r] EXCEPT !.expires = m.generated]
        BY <2>2, <3>1, <3>2
      <4>2. Result(p)'[r].used = zone[r].used /\ Result(p)'[r].id = zone[r].id /\ Result(p)'[r].expires = m.generated
        BY <2>1, <4>1 DEF Zone
      <4> QED BY <2>3, <3>2, <4>2 DEF CutEnd, Stale
    <3>3. CASE r \notin Stale(m)
      BY <2>2, <2>3, <3>1, <3>3 DEF CutEnd, Stale
    <3> QED BY <3>2, <3>3
  <2>4. CASE ~m.complete
    <3>1. writes' = writes
      BY <2>4, Zenon DEF ExpireStale
    <3>2. DOMAIN writes[p] = {}
      BY <1>1 DEF BInv, RInv, Held
    <3> QED BY <2>2, <2>4, <3>1, <3>2 DEF CutEnd
  <2> QED BY <2>3, <2>4
<1>5. Half(p)'
  BY <1>1, <1>4 DEF Half, CutEnd
<1> QED BY <1>3, <1>5 DEF Whole

LEMMA WholeRead ==
    ASSUME BInv, NEW p \in Requests, ReadExisting(p)
    PROVE  Whole(p)'
<1>1. /\ pc[p] = "reading" /\ pc' = [pc EXCEPT ![p] = "writing"]
      /\ UNCHANGED <<zone, now, payload, writes, overtaken>>
  BY DEF ReadExisting
<1>2. Types /\ Active(payload[p]) \subseteq Alerts
  BY DEF BInv, RInv, EInv, Types, Payload, Active
<1>3. PICK found \in [Alerts -> Rows \cup {NoRow}] :
          /\ \A a \in Alerts :
                LET own == {r \in Rows : zone[r].used /\ zone[r].id = a} IN
                IF a \in Active(payload[p]) /\ own # {} THEN found[a] \in own ELSE found[a] = NoRow
          /\ known' = [known EXCEPT ![p] = [a \in Alerts |->
                [row |-> found[a],
                 expires |-> IF found[a] = NoRow THEN 0 ELSE zone[found[a]].expires]]]
  BY DEF ReadExisting
<1>4. ASSUME NEW a \in Active(payload[p])
      PROVE  /\ known'[p][a].row = found[a]
             /\ found[a] # NoRow => known'[p][a].expires = zone[found[a]].expires
             /\ found[a] = NoRow => NoRowOf(a)
  <2>1. known'[p][a] = [row |-> found[a],
                        expires |-> IF found[a] = NoRow THEN 0 ELSE zone[found[a]].expires]
    BY <1>2, <1>3 DEF Types
  <2>2. found[a] = NoRow => NoRowOf(a)
    BY <1>2, <1>3, NoRowAssumption DEF NoRowOf
  <2> QED BY <2>1, <2>2
<1>5. Fresh(p)'
  BY <1>1, <1>4 DEF Fresh, NoRowOf
<1>6. overtaken[p] = {} => Half(p)'
  BY <1>1 DEF BInv, Whole, Half, Result
<1>7. pc'[p] = "writing" /\ overtaken' = overtaken
  BY <1>1, <1>2 DEF Types
<1> QED BY <1>5, <1>6, <1>7 DEF Whole

LEMMA WholeWrite ==
    ASSUME BInv, NEW p \in Requests, WriteAlerts(p)
    PROVE  Whole(p)'
<1> DEFINE m == payload[p]
<1>1. /\ pc[p] = "writing" /\ pc' = [pc EXCEPT ![p] = "committing"]
      /\ UNCHANGED <<zone, now, payload, known, overtaken>>
  BY DEF WriteAlerts
<1>2. Types /\ Types' /\ m \in Payload /\ zone \in [Rows -> Zone]
      /\ writes[p] \in WriteSets /\ writes'[p] \in WriteSets
  BY WriteKeeps DEF BInv, RInv, EInv, Types
<1>3. PICK to \in [Active(m) -> Rows], v \in WriteSets : Flushes(p, to, v)
  BY Flush, Zenon DEF BInv
<1>4. /\ DOMAIN writes'[p] = DOMAIN v \cup DOMAIN writes[p]
      /\ \A r \in DOMAIN v : writes'[p][r] = v[r]
      /\ \A r \in DOMAIN writes[p] : r \notin DOMAIN v => writes'[p][r] = writes[p][r]
  <2>1. writes' = [writes EXCEPT ![p] = Over(v, writes[p])]
    BY <1>3 DEF Flushes
  <2> HIDE DEF m
  <2> QED BY <1>2, <2>1, FlushedRows
<1>5. SUFFICES ASSUME overtaken[p] = {} PROVE Full(p)'
  BY <1>1, <1>2 DEF Whole, Types
<1>6. Half(p) /\ Fresh(p)
  BY <1>1, <1>5 DEF BInv, Whole
<1>7. ASSUME NEW r \in Rows
      PROVE  IF r \in DOMAIN v THEN Result(p)'[r] = v[r] ELSE Result(p)'[r] = Result(p)[r]
  <2>1. Result(p)[r] = IF r \in DOMAIN writes[p] THEN writes[p][r] ELSE zone[r]
    BY <1>2, OverZone DEF Result
  <2>2. Result(p)'[r] = IF r \in DOMAIN writes'[p] THEN writes'[p][r] ELSE zone[r]
    BY <1>1, <1>2, OverZone DEF Result
  <2> QED BY <1>4, <2>1, <2>2
<1>8. ASSUME NEW a \in Active(m)
      PROVE  /\ to[a] \in Rows /\ Result(p)'[to[a]].used /\ Result(p)'[to[a]].id = a
             /\ Result(p)'[to[a]].expires = m.until[a]
             /\ zone[to[a]].used => zone[to[a]].id = a
  <2>1. to[a] \in Rows /\ to[a] \in DOMAIN v
    BY <1>3 DEF Flushes
  <2>2. Result(p)'[to[a]] = v[to[a]]
    BY <1>7, <2>1
  <2>3. WrittenEnd(p, a, to[a]) = m.until[a]
    BY <1>3, <1>6 DEF WrittenEnd, Fresh, Flushes
  <2>4. v[to[a]].used /\ v[to[a]].id = a /\ v[to[a]].expires = m.until[a]
    BY <1>3, <2>3 DEF Flushes
  <2> QED BY <1>3, <2>1, <2>2, <2>4 DEF Flushes
<1>9. ASSUME NEW r \in Rows
      PROVE  /\ Result(p)'[r].used /\ Result(p)'[r].id \notin Active(m) =>
                  /\ zone[r].used /\ zone[r].id = Result(p)'[r].id
                  /\ Result(p)'[r].expires = CutEnd(m, zone[r])
             /\ zone[r].used /\ zone[r].id \notin Active(m) =>
                  Result(p)'[r].used /\ Result(p)'[r].id = zone[r].id
  <2>1. CASE r \in DOMAIN v
    <3>1. PICK a \in Active(m) : r = to[a]
      BY <1>3, <2>1 DEF Flushes
    <3> QED BY <1>8, <3>1
  <2>2. CASE r \notin DOMAIN v
    BY <1>6, <1>7, <2>2 DEF Half
  <2> QED BY <2>1, <2>2
<1>10. payload' = payload /\ zone' = zone
  BY <1>1
<1> QED BY <1>8, <1>9, <1>10 DEF Full, CutEnd

(* A commit that writes nothing is as if it had not been; any other one     *)
(* overtakes the requests under way.                                        *)
LEMMA WholeCommit ==
    ASSUME BInv, NEW p \in Requests, Commit(p), NEW q \in Requests
    PROVE  Whole(q)'
<1>1. /\ zone' = Over(writes[p], zone)
      /\ pc' = [pc EXCEPT ![p] = "idle"]
      /\ payload' = [payload EXCEPT ![p] = EmptyPayload]
      /\ writes' = [writes EXCEPT ![p] = NoWrites]
      /\ known' = [known EXCEPT ![p] = NothingKnown]
      /\ overtaken' = [o \in Requests |->
            IF o = p \/ pc[o] = "idle" THEN {} ELSE overtaken[o] \cup DOMAIN writes[p]]
  BY DEF Commit, Close
<1>2. Types
  BY DEF BInv, RInv, EInv
<1>3. CASE q = p \/ pc[q] = "idle"
  <2>1. pc'[q] = "idle"
    BY <1>1, <1>2, <1>3 DEF Types
  <2> QED BY <2>1 DEF Whole
<1>4. CASE q # p /\ pc[q] # "idle" /\ DOMAIN writes[p] = {}
  <2>1. zone' = zone
    <3>1. writes[p] \in WriteSets /\ zone \in [Rows -> Zone]
      BY <1>2 DEF Types
    <3>2. zone' \in [Rows -> Zone] /\ \A r \in Rows : zone'[r] = zone[r]
      BY <1>1, <1>4, <3>1, OverZone
    <3> QED BY <3>1, <3>2
  <2>2. overtaken'[q] = overtaken[q]
    BY <1>1, <1>4
  <2> QED BY <1>1, <1>2, <1>4, <2>1, <2>2, StillWhole DEF BInv, Types
<1>5. CASE q # p /\ pc[q] # "idle" /\ DOMAIN writes[p] # {}
  <2>1. overtaken'[q] # {}
    BY <1>1, <1>5
  <2> QED BY <2>1 DEF Whole
<1> QED BY <1>3, <1>4, <1>5

LEMMA WholeStep == BInv /\ [Next]_vars => BInv'
<1> SUFFICES ASSUME BInv, [Next]_vars PROVE BInv'
  OBVIOUS
<1>1. RInv'
  BY RowsStep DEF BInv
<1>2. Types
  BY DEF BInv, RInv, EInv
<1>3. ASSUME NEW p \in Requests, ExpireStale(p) \/ ReadExisting(p) \/ WriteAlerts(p),
             NEW q \in Requests
      PROVE  Whole(q)'
  <2>1. CASE q = p
    BY <1>3, <2>1, WholeExpire, WholeRead, WholeWrite
  <2>2. CASE q # p
    <3>1. zone' = zone /\ payload' = payload /\ overtaken' = overtaken
      BY <1>3 DEF ExpireStale, ReadExisting, WriteAlerts
    <3>2. pc'[q] = pc[q] /\ known'[q] = known[q] /\ writes'[q] = writes[q]
      BY <1>2, <1>3, <2>2 DEF ExpireStale, ReadExisting, WriteAlerts, Types
    <3> QED BY <3>1, <3>2, StillWhole DEF BInv
  <2> QED BY <2>1, <2>2
<1>4. ASSUME NEW p \in Requests, Receive(p) \/ Abort(p), NEW q \in Requests
      PROVE  Whole(q)'
  <2>1. CASE q = p
    <3>1. pc'[p] \in {"idle", "expiring"}
      BY <1>2, <1>4 DEF Receive, Abort, Close, Types
    <3> QED BY <2>1, <3>1 DEF Whole
  <2>2. CASE q # p
    <3>1. /\ zone' = zone /\ pc'[q] = pc[q] /\ known'[q] = known[q] /\ writes'[q] = writes[q]
          /\ payload'[q] = payload[q] /\ overtaken'[q] = overtaken[q]
      BY <1>2, <1>4, <2>2 DEF Receive, Abort, Close, Types
    <3> QED BY <3>1, StillWhole DEF BInv
  <2> QED BY <2>1, <2>2
<1>5. ASSUME Tick \/ UNCHANGED vars, NEW q \in Requests PROVE Whole(q)'
  <2>1. UNCHANGED <<zone, pc, payload, writes, known, overtaken>>
    BY <1>5 DEF Tick, vars
  <2> QED BY <2>1, StillWhole DEF BInv
<1>6. \A q \in Requests : Whole(q)'
  BY <1>3, <1>4, <1>5, WholeCommit DEF Next
<1> QED BY <1>1, <1>6 DEF BInv

LEMMA AlwaysBInv == Spec => []BInv
<1>1. Init => BInv
  BY RowsStart DEF BInv, Whole, Init
<1> QED BY <1>1, WholeStep, PTL DEF Spec

(* The board shows the end of a row of the alert, if it has one.            *)
ShownEnd(a) ==
    /\ Ends[a] = 0 \/ \E r \in Rows : zone[r].used /\ zone[r].id = a /\ Ends[a] = zone[r].expires
    /\ \A r \in Rows : zone[r].used /\ zone[r].id = a => Ends[a] = zone[r].expires

(* What the board shows of the table, while each alert has one row.         *)
EndsShown == \A a \in Alerts : OneRow(a) => ShownEnd(a)

LEMMA EndOf == EndsShown
<1> SUFFICES ASSUME NEW a \in Alerts, OneRow(a) PROVE ShownEnd(a)
  BY DEF EndsShown
<1>1. CASE RowsOf(a) = {}
  BY <1>1 DEF Ends, RowsOf, ShownEnd
<1>2. CASE RowsOf(a) # {}
  <2> DEFINE r == CHOOSE x \in RowsOf(a) : TRUE
  <2>1. r \in RowsOf(a)
    BY <1>2
  <2>2. Ends[a] = zone[r].expires
    BY <1>2 DEF Ends
  <2> HIDE DEF r
  <2> QED BY <2>1, <2>2 DEF RowsOf, OneRow, ShownEnd
<1> QED BY <1>1, <1>2

(* The snapshot of a request, as the board knows it.                        *)
Offered(m) == [generated |-> m.generated, complete |-> m.complete, ends |-> Announced(m)]

LEMMA OffersAre == Offers = {Offered(payload[q]) : q \in {o \in Requests : pc[o] # "idle"}}
BY DEF Offers, Offered

LEMMA NextOffersAre == Offers' = {Offered(payload'[q]) : q \in {o \in Requests : pc'[o] # "idle"}}
BY DEF Offers, Offered, Announced, Active

LEMMA BoardStart == ASSUME Init PROVE Board!Init
<1>1. Ends = [a \in Alerts |-> 0]
  <2>1. \A a \in Alerts : RowsOf(a) = {}
    BY InitialTypes DEF Init, RowsOf
  <2> QED BY <2>1 DEF Ends
<1>2. Offers = {} /\ now = 1
  BY OffersAre DEF Init
<1> QED BY <1>1, <1>2 DEF Board!Init

LEMMA SameEnds == ASSUME zone' = zone PROVE Ends' = Ends
BY DEF Ends, RowsOf

(* A request that comes offers its snapshot.                                *)
LEMMA BoardOffer ==
    ASSUME Types, NEW p \in Requests, Receive(p)
    PROVE  Board!Offer \/ UNCHANGED Board!boardVars
<1>1. /\ pc[p] = "idle" /\ pc' = [pc EXCEPT ![p] = "expiring"] /\ UNCHANGED <<zone, now>>
  BY DEF Receive
<1>2. PICK m \in Payload : m.generated <= now /\ payload' = [payload EXCEPT ![p] = m]
  BY DEF Receive
<1>3. Offers' = Offers \cup {Offered(m)}
  <2>1. payload'[p] = m /\ pc'[p] # "idle"
    BY <1>1, <1>2 DEF Types
  <2>2. \A q \in Requests \ {p} : payload'[q] = payload[q] /\ pc'[q] = pc[q]
    BY <1>1, <1>2 DEF Types
  <2> QED BY <1>1, <2>1, <2>2, OffersAre, NextOffersAre
<1>4. Ends' = Ends /\ now' = now
  BY <1>1, SameEnds
<1>5. \A a \in Alerts : /\ Announced(m)[a] \in 0..MaxTime
                        /\ Announced(m)[a] # 0 => Announced(m)[a] > m.generated
  BY <1>2, TimeAssumption DEF Announced, Active, Payload, Instants
<1>6. /\ Offered(m) \in Board!Snapshot
      /\ Offered(m).ends = Announced(m) /\ Offered(m).generated = m.generated
  <2>1. Announced(m) \in [Alerts -> 0..MaxTime]
    BY <1>5 DEF Announced
  <2>2. m.generated \in 1..now /\ m.complete \in BOOLEAN
    BY <1>2 DEF Payload, Instants, Types
  <2> QED BY <2>1, <2>2 DEF Board!Snapshot, Offered
<1>7. CASE Offered(m) \in Offers
  <2>1. Offers' = Offers
    BY <1>3, <1>7
  <2> QED BY <1>4, <2>1 DEF Board!boardVars
<1>8. CASE Offered(m) \notin Offers
  <2>1. Offered(m) \in Offers' \ Offers
    BY <1>3, <1>8
  <2> QED BY <1>3, <1>4, <1>5, <1>6, <2>1 DEF Board!Offer
<1> QED BY <1>7, <1>8

(* A request that ends takes its snapshot back, unless another one offers   *)
(* the same.                                                                *)
LEMMA OfferEnds ==
    ASSUME Types, NEW p \in Requests, pc[p] # "idle",
           pc' = [pc EXCEPT ![p] = "idle"], payload' = [payload EXCEPT ![p] = EmptyPayload]
    PROVE  /\ Offered(payload[p]) \in Offers
           /\ Offers' \in {Offers, Offers \ {Offered(payload[p])}}
<1>1. pc'[p] = "idle" /\ \A q \in Requests \ {p} : payload'[q] = payload[q] /\ pc'[q] = pc[q]
  BY DEF Types
<1>2. Offers = Offers' \cup {Offered(payload[p])}
  BY <1>1, OffersAre, NextOffersAre
<1> QED BY <1>2

LEMMA BoardDrop ==
    ASSUME Types, NEW p \in Requests, pc[p] # "idle", zone' = zone, now' = now,
           pc' = [pc EXCEPT ![p] = "idle"], payload' = [payload EXCEPT ![p] = EmptyPayload]
    PROVE  Board!Drop \/ UNCHANGED Board!boardVars
<1>1. /\ Offered(payload[p]) \in Offers
      /\ Offers' \in {Offers, Offers \ {Offered(payload[p])}}
  BY OfferEnds
<1>2. Ends' = Ends
  BY SameEnds
<1> QED BY <1>1, <1>2 DEF Board!Drop, Board!boardVars

(* The commit of a request nobody has overtaken applies its snapshot as a   *)
(* whole.                                                                   *)
LEMMA BoardApply ==
    ASSUME BInv, NEW p \in Requests, Commit(p), overtaken[p] = {}, \A a \in Alerts : OneRow(a)'
    PROVE  Board!Apply
<1> DEFINE m == payload[p]
           s == Offered(m)
<1>1. /\ pc[p] = "committing" /\ zone' = Result(p) /\ now' = now
      /\ pc' = [pc EXCEPT ![p] = "idle"]
      /\ payload' = [payload EXCEPT ![p] = EmptyPayload]
  BY DEF Commit, Close, Result
<1>2. Types /\ m \in Payload
  BY DEF BInv, RInv, EInv, Types
<1>3. s \in Offers /\ Offers' \in {Offers, Offers \ {s}}
  BY <1>1, <1>2, OfferEnds
<1>4. Full(p)
  BY <1>1 DEF BInv, Whole
<1>5. ASSUME NEW a \in Alerts PROVE OneRow(a)
  <2>1. \A r \in Rows : zone[r].used => zone'[r].used /\ zone'[r].id = zone[r].id
    BY <1>1, Committed DEF BInv, Result
  <2> QED BY <2>1 DEF OneRow, RowsOf
<1> HIDE DEF m
<1>6. ASSUME NEW a \in Alerts
      PROVE  /\ Announced(m)[a] # 0 => Ends'[a] = Announced(m)[a]
             /\ Announced(m)[a] = 0 /\ m.complete /\ Ends[a] > m.generated => Ends'[a] = m.generated
             /\ Announced(m)[a] = 0 /\ ~(m.complete /\ Ends[a] > m.generated) => Ends'[a] = Ends[a]
  <2>1. m.until[a] # 0 /\ Announced(m)[a] = IF a \in Active(m) THEN m.until[a] ELSE 0
    BY <1>2 DEF Announced, Payload, Instants
  <2>2. /\ Ends'[a] = 0 \/ \E r \in Rows : zone'[r].used /\ zone'[r].id = a /\ Ends'[a] = zone'[r].expires
        /\ \A r \in Rows : zone'[r].used /\ zone'[r].id = a => Ends'[a] = zone'[r].expires
    <3>1. EndsShown'
      BY EndOf, PTL
    <3> QED BY <3>1 DEF EndsShown, ShownEnd
  <2>3. CASE a \in Active(m)
    <3>1. PICK r \in Rows : zone'[r].used /\ zone'[r].id = a /\ zone'[r].expires = m.until[a]
      BY <1>1, <1>4, <2>3 DEF Full, m
    <3> QED BY <2>1, <2>2, <2>3, <3>1
  <2>4. CASE a \notin Active(m) /\ \E r \in Rows : zone[r].used /\ zone[r].id = a
    <3>1. PICK r \in Rows : zone[r].used /\ zone[r].id = a
      BY <2>4
    <3>2. zone'[r].used /\ zone'[r].id = a /\ zone'[r].expires = CutEnd(m, zone[r])
      BY <1>1, <1>4, <2>4, <3>1 DEF Full, m
    <3>3. Ends[a] = zone[r].expires /\ Ends'[a] = CutEnd(m, zone[r])
      BY <1>5, <2>2, <3>1, <3>2, EndOf DEF EndsShown, ShownEnd
    <3> QED BY <2>1, <2>4, <3>1, <3>3 DEF CutEnd
  <2>5. CASE a \notin Active(m) /\ ~\E r \in Rows : zone[r].used /\ zone[r].id = a
    <3>1. ~\E r \in Rows : zone'[r].used /\ zone'[r].id = a
      BY <1>1, <1>4, <2>5 DEF Full, m
    <3>2. Ends[a] = 0 /\ Ends'[a] = 0
      BY <1>5, <2>2, <2>5, <3>1, EndOf DEF EndsShown, ShownEnd
    <3>3. ~(0 > m.generated)
      BY <1>2 DEF Payload, Instants, m
    <3> QED BY <2>1, <2>5, <3>2, <3>3
  <2> QED BY <2>3, <2>4, <2>5
<1>7. s.ends = Announced(m) /\ s.complete = m.complete /\ s.generated = m.generated
  BY DEF Offered
<1> HIDE DEF s
<1>8. Ends' = [a \in Alerts |->
                 CASE s.ends[a] # 0                                     -> s.ends[a]
                   [] s.ends[a] = 0 /\ s.complete /\ Ends[a] > s.generated -> s.generated
                   [] OTHER                                             -> Ends[a]]
  <2>1. Ends' = [a \in Alerts |-> Ends'[a]]
    BY DEF Ends
  <2>2. \A a \in Alerts : Ends'[a] =
                 CASE s.ends[a] # 0                                     -> s.ends[a]
                   [] s.ends[a] = 0 /\ s.complete /\ Ends[a] > s.generated -> s.generated
                   [] OTHER                                             -> Ends[a]
    BY <1>6, <1>7
  <2> QED BY <2>1, <2>2
<1> QED BY <1>1, <1>3, <1>8 DEF Board!Apply

LEMMA BoardStep ==
    ASSUME BInv, [Next]_vars, Undisturbed
    PROVE  [Board!Next]_(Board!boardVars)
<1>1. Types
  BY DEF BInv, RInv, EInv
<1>2. ASSUME NEW p \in Requests, Receive(p) PROVE [Board!Next]_(Board!boardVars)
  BY <1>1, <1>2, BoardOffer DEF Board!Next
<1>3. ASSUME NEW p \in Requests, Commit(p) PROVE [Board!Next]_(Board!boardVars)
  <2>1. /\ pc[p] # "idle" /\ pc' = [pc EXCEPT ![p] = "idle"] /\ pc'[p] # pc[p] /\ now' = now
        /\ payload' = [payload EXCEPT ![p] = EmptyPayload]
    BY <1>1, <1>3 DEF Commit, Close, Types
  <2>2. CASE zone' = zone
    BY <1>1, <2>1, <2>2, BoardDrop DEF Board!Next
  <2>3. CASE zone' # zone
    BY <1>3, <2>1, <2>3, BoardApply DEF Undisturbed, Board!Next
  <2> QED BY <2>2, <2>3
<1>4. ASSUME NEW p \in Requests, Abort(p) PROVE [Board!Next]_(Board!boardVars)
  <2>1. /\ pc[p] # "idle" /\ pc' = [pc EXCEPT ![p] = "idle"] /\ now' = now /\ zone' = zone
        /\ payload' = [payload EXCEPT ![p] = EmptyPayload]
    BY <1>4 DEF Abort, Close
  <2> QED BY <1>1, <2>1, BoardDrop DEF Board!Next
<1>5. ASSUME NEW p \in Requests, ExpireStale(p) \/ ReadExisting(p) \/ WriteAlerts(p)
      PROVE  [Board!Next]_(Board!boardVars)
  <2>1. UNCHANGED <<zone, now, payload>> /\ \A q \in Requests : pc'[q] = "idle" <=> pc[q] = "idle"
    BY <1>1, <1>5 DEF ExpireStale, ReadExisting, WriteAlerts, Types
  <2>2. Offers' = Offers /\ Ends' = Ends
    BY <2>1, OffersAre, NextOffersAre, SameEnds
  <2> QED BY <2>1, <2>2 DEF Board!boardVars
<1>6. CASE Tick
  <2>1. now' = now + 1 /\ UNCHANGED <<zone, pc, payload>>
    BY <1>6 DEF Tick
  <2>2. Offers' = Offers /\ Ends' = Ends
    BY <2>1, OffersAre, NextOffersAre, SameEnds
  <2> QED BY <2>1, <2>2 DEF Board!Next, Board!Tick
<1>7. CASE UNCHANGED vars
  <2>1. UNCHANGED <<zone, now, pc, payload>>
    BY <1>7 DEF vars
  <2>2. Offers' = Offers /\ Ends' = Ends
    BY <2>1, OffersAre, NextOffersAre, SameEnds
  <2> QED BY <2>1, <2>2 DEF Board!boardVars
<1> QED BY <1>2, <1>3, <1>4, <1>5, <1>6, <1>7 DEF Next

(* Whatever requests overlap, each step of the registry is a step of the    *)
(* board or none: a snapshot is applied as a whole or not at all, save by a *)
(* request that another one has overtaken, and while alerts have one row.   *)
THEOREM WholeCorrect == Spec => AppliedAsAWhole
<1>1. Init => Board!Init
  BY BoardStart
<1>2. BInv /\ [Next]_vars => [Undisturbed => [Board!Next]_(Board!boardVars)]_vars
  BY BoardStep
<1> QED BY <1>1, <1>2, AlwaysBInv, PTL DEF Spec, AppliedAsAWhole

(* A request on its own shares nothing and is never overtaken.              *)
Alone(q) == shared = {} /\ overtaken[q] = {}

LEMMA AloneStep ==
    ASSUME NEW q, Requests = {q}, BInv, Alone(q), [Next]_vars
    PROVE  Alone(q)' /\ Undisturbed
<1>1. BInv'
  BY WholeStep
<1>2. q \in Requests /\ Types /\ shared = {} /\ overtaken[q] = {}
  BY DEF BInv, RInv, EInv, Alone
<1>3. ASSUME Receive(q) PROVE Alone(q)'
  <2>1. overtaken' = overtaken
    BY <1>3 DEF Receive
  <2>2. PICK m \in Payload : shared' = shared \cup
            UNION {Active(m) \cap Active(payload[p]) : p \in Requests \ {q}}
    BY <1>3 DEF Receive
  <2>3. Requests \ {q} = {}
    OBVIOUS
  <2>4. shared' = {}
    BY <1>2, <2>2, <2>3
  <2> QED BY <1>2, <2>1, <2>4 DEF Alone
<1>4. ASSUME ExpireStale(q) \/ ReadExisting(q) \/ WriteAlerts(q) \/ Tick \/ UNCHANGED vars PROVE Alone(q)'
  <2>1. shared' = shared /\ overtaken' = overtaken
    BY <1>4 DEF ExpireStale, ReadExisting, WriteAlerts, Tick, vars
  <2> QED BY <1>2, <2>1 DEF Alone
<1>5. ASSUME Commit(q) PROVE Alone(q)'
  <2>1. shared' = shared /\ overtaken'[q] = {}
    BY <1>2, <1>5 DEF Commit
  <2> QED BY <1>2, <2>1 DEF Alone
<1>6. ASSUME Abort(q) PROVE Alone(q)'
  <2>1. shared' = shared /\ overtaken'[q] = {}
    BY <1>2, <1>6 DEF Abort, Types
  <2> QED BY <1>2, <2>1 DEF Alone
<1>7. Alone(q)'
  BY <1>3, <1>4, <1>5, <1>6 DEF Next
<1>8. \A a \in Alerts : OneRow(a)'
  BY <1>1, <1>7 DEF BInv, RInv, OneRowUnlessShared, Alone
<1> QED BY <1>2, <1>7, <1>8 DEF Undisturbed, Alone

(* With one request at a time the registry is the board, without exception. *)
THEOREM BoardCorrect ==
    ASSUME NEW q, Requests = {q}
    PROVE  Spec => ImplementsBoard
<1>1. Init => Board!Init /\ Alone(q)
  BY BoardStart DEF Init, Alone
<1>2. BInv /\ Alone(q) /\ [Next]_vars => Alone(q)' /\ [Board!Next]_(Board!boardVars)
  BY AloneStep, BoardStep
<1> QED BY <1>1, <1>2, AlwaysBInv, PTL DEF Spec, ImplementsBoard, Board!Spec
=============================================================================
