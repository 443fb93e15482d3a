------------------------------- MODULE EsAlert -------------------------------
(***************************************************************************)
(* The ES-Alert registry (EsAlertRegistry.sync): authenticated snapshots   *)
(* of an official provider update the rows of restriction_zones that       *)
(* belong to the source.  Each request is a transaction; two of them may   *)
(* overlap, since the adapter may retry a request that is still running.   *)
(* Rows written by an open transaction are locked until it ends, as        *)
(* PostgreSQL does; an insertion locks nothing another request looks for.  *)
(***************************************************************************)
EXTENDS Integers, FiniteSets

CONSTANTS
    Alerts,   \* official identifiers (external_id)
    Requests, \* requests that may overlap
    Rows,     \* primary keys
    NoRow,    \* no primary key
    MaxTime   \* last instant considered

ASSUME TimeAssumption == MaxTime \in Nat \ {0}
ASSUME NoRowAssumption == NoRow \notin Rows
ASSUME AlertsAssumption == Alerts # {}

VARIABLES
    zone,     \* committed rows: whose they are and when they expire
    now,      \* wall clock
    pc,       \* where each request is
    payload,  \* the snapshot of each request
    writes,   \* rows written by the open transaction of each request
    known,    \* the row each alert of the request already has, as it was read
    overtaken,\* observer: rows others committed since the request began
    shared    \* observer: alerts that two requests under way have listed

vars == <<zone, now, pc, payload, writes, known, overtaken, shared>>

Instants == 1..MaxTime

Zone == [used : BOOLEAN, id : Alerts, expires : 0..MaxTime]

Unused == [used |-> FALSE, id |-> CHOOSE a \in Alerts : TRUE, expires |-> 0]

(* mentioned: alerts that are not tests; drawable: those whose geometry is  *)
(* a polygon; until: their expires_at.                                      *)
Payload == [generated : Instants, complete : BOOLEAN, allowEmpty : BOOLEAN,
            mentioned : SUBSET Alerts, drawable : SUBSET Alerts,
            until : [Alerts -> Instants]]

(* What sync keeps of a payload: alerts still running when the snapshot was *)
(* generated, with a geometry that can be drawn.                            *)
Active(m) == {a \in m.mentioned \cap m.drawable : m.until[a] > m.generated}

NoWrites == [r \in {} |-> Unused]

(* The write set with the rows of new over those of old.                    *)
Over(new, old) ==
    [r \in DOMAIN new \cup DOMAIN old |-> IF r \in DOMAIN new THEN new[r] ELSE old[r]]

LockedByOthers(p) == UNION {DOMAIN writes[q] : q \in Requests \ {p}}

TypeOK ==
    /\ zone \in [Rows -> Zone]
    /\ now \in Instants
    /\ pc \in [Requests -> {"idle", "expiring", "reading", "writing", "committing"}]
    /\ \A p \in Requests :
          /\ pc[p] # "idle" => payload[p] \in Payload
          /\ DOMAIN writes[p] \subseteq Rows
          /\ \A r \in DOMAIN writes[p] : writes[p][r] \in Zone
          /\ known[p] \in [Alerts -> [row : Rows \cup {NoRow}, expires : 0..MaxTime]]
          /\ overtaken[p] \subseteq Rows
    /\ shared \subseteq Alerts

EmptyPayload == [generated |-> 1, complete |-> FALSE, allowEmpty |-> FALSE,
                 mentioned |-> {}, drawable |-> {}, until |-> [a \in Alerts |-> 1]]

NothingKnown == [a \in Alerts |-> [row |-> NoRow, expires |-> 0]]

Init ==
    /\ zone = [r \in Rows |-> Unused]
    /\ now = 1
    /\ pc = [p \in Requests |-> "idle"]
    /\ payload = [p \in Requests |-> EmptyPayload]
    /\ writes = [p \in Requests |-> NoWrites]
    /\ known = [p \in Requests |-> NothingKnown]
    /\ overtaken = [p \in Requests |-> {}]
    /\ shared = {}

(* The endpoint refuses a complete snapshot without a real alert, unless    *)
(* the provider confirms it.                                                *)
Accepted(m) == m.complete /\ m.mentioned = {} => m.allowEmpty

(* A snapshot arrives, generated now or earlier: it may be late, or sent    *)
(* again.                                                                   *)
Receive(p) ==
    /\ pc[p] = "idle"
    /\ \E m \in Payload :
          /\ m.generated <= now
          /\ m.drawable \subseteq m.mentioned
          /\ \A a \in Alerts \ m.mentioned : m.until[a] = 1
          /\ m.allowEmpty => m.complete /\ m.mentioned = {}
          /\ Accepted(m)
          /\ payload' = [payload EXCEPT ![p] = m]
          /\ shared' = shared \cup
                UNION {Active(m) \cap Active(payload[q]) : q \in Requests \ {p}}
    /\ pc' = [pc EXCEPT ![p] = "expiring"]
    /\ UNCHANGED <<zone, now, writes, known, overtaken>>

(* Rows in force that a complete snapshot does not list.                    *)
FaultStale(m) ==
    {r \in Rows : /\ zone[r].used
                  /\ zone[r].expires > now
                  /\ zone[r].id \notin Active(m)}

Stale(m) ==
    {r \in Rows : /\ zone[r].used
                  /\ zone[r].expires > m.generated
                  /\ zone[r].id \notin Active(m)}

FaultExpireStale(p) ==
    /\ pc[p] = "expiring"
    /\ IF payload[p].complete
       THEN LET rows == Stale(payload[p]) IN
            writes' = [writes EXCEPT ![p] =
                  [r \in rows |-> [zone[r] EXCEPT !.expires = zone[r].expires + 1]]]
       ELSE UNCHANGED writes
    /\ pc' = [pc EXCEPT ![p] = "reading"]
    /\ UNCHANGED <<zone, now, payload, known, overtaken, shared>>

(* The UPDATE of stale rows, which waits for rows other requests have       *)
(* written.                                                                 *)
ExpireStale(p) ==
    /\ pc[p] = "expiring"
    /\ IF payload[p].complete
       THEN LET rows == Stale(payload[p]) IN
            /\ rows \cap LockedByOthers(p) = {}
            /\ writes' = [writes EXCEPT ![p] =
                  [r \in rows |-> [zone[r] EXCEPT !.expires = payload[p].generated]]]
       ELSE UNCHANGED writes
    /\ pc' = [pc EXCEPT ![p] = "reading"]
    /\ UNCHANGED <<zone, now, payload, known, overtaken, shared>>

(* The SELECT of the rows the alerts already have; of several rows with the *)
(* same external_id the dictionary keeps one.                               *)
ReadExisting(p) ==
    /\ pc[p] = "reading"
    /\ \E found \in [Alerts -> Rows \cup {NoRow}] :
          /\ \A a \in Alerts :
                LET own == {r \in Rows : zone[r].used /\ zone[r].id = a} IN
                IF a \in Active(payload[p]) /\ own # {}
                THEN found[a] \in own
                ELSE found[a] = NoRow
          /\ known' = [known EXCEPT ![p] = [a \in Alerts |->
                [row |-> found[a],
                 expires |-> IF found[a] = NoRow THEN 0 ELSE zone[found[a]].expires]]]
    /\ pc' = [pc EXCEPT ![p] = "writing"]
    /\ UNCHANGED <<zone, now, payload, writes, overtaken, shared>>

FaultTarget(p, a, fresh) == fresh[a]

(* The row an alert is written to: the one it has, or a new one.            *)
Target(p, a, fresh) == IF known[p][a].row # NoRow THEN known[p][a].row ELSE fresh[a]

(* The expires_at that results.  The ORM sends the columns that differ from *)
(* what it read: an end equal to the one read is not written again, even if *)
(* another request has changed the row since.                               *)
WrittenEnd(p, a, row) ==
    IF known[p][a].row # NoRow /\ payload[p].until[a] = known[p][a].expires
    THEN zone[row].expires
    ELSE payload[p].until[a]

(* The flush: one row per alert of the snapshot, updated or inserted.       *)
WriteAlerts(p) ==
    /\ pc[p] = "writing"
    /\ \E fresh \in [Active(payload[p]) -> Rows] :
          LET written == {Target(p, a, fresh) : a \in Active(payload[p])}
              free == {r \in Rows : ~zone[r].used} \ LockedByOthers(p)
          IN
          /\ \A a \in Active(payload[p]) :
                known[p][a].row = NoRow => fresh[a] \in free
          /\ \A a, b \in Active(payload[p]) : a # b => fresh[a] # fresh[b]
          /\ written \cap LockedByOthers(p) = {}
          /\ writes' = [writes EXCEPT ![p] =
                Over([r \in written |->
                         LET a == CHOOSE x \in Active(payload[p]) : Target(p, x, fresh) = r
                         IN [used |-> TRUE, id |-> a, expires |-> WrittenEnd(p, a, r)]],
                     writes[p])]
    /\ pc' = [pc EXCEPT ![p] = "committing"]
    /\ UNCHANGED <<zone, now, payload, known, overtaken, shared>>

Close(p) ==
    /\ pc' = [pc EXCEPT ![p] = "idle"]
    /\ payload' = [payload EXCEPT ![p] = EmptyPayload]
    /\ writes' = [writes EXCEPT ![p] = NoWrites]
    /\ known' = [known EXCEPT ![p] = NothingKnown]

Commit(p) ==
    /\ pc[p] = "committing"
    /\ zone' = Over(writes[p], zone)
    /\ overtaken' = [q \in Requests |->
          IF q = p \/ pc[q] = "idle" THEN {} ELSE overtaken[q] \cup DOMAIN writes[p]]
    /\ Close(p)
    /\ UNCHANGED <<now, shared>>

(* The object store or the database fails, a deadlock is detected, the      *)
(* client goes away: the session closes without a commit.                   *)
FaultAbort(p) ==
    /\ pc[p] # "idle"
    /\ zone' = Over(writes[p], zone)
    /\ overtaken' = [q \in Requests |->
          IF q = p \/ pc[q] = "idle" THEN {} ELSE overtaken[q] \cup DOMAIN writes[p]]
    /\ Close(p)
    /\ UNCHANGED <<now, shared>>

Abort(p) ==
    /\ pc[p] # "idle"
    /\ overtaken' = [overtaken EXCEPT ![p] = {}]
    /\ Close(p)
    /\ UNCHANGED <<zone, now, shared>>

Tick ==
    /\ now < MaxTime
    /\ now' = now + 1
    /\ UNCHANGED <<zone, pc, payload, writes, known, overtaken, shared>>

Next ==
    \/ \E p \in Requests :
          \/ Receive(p) \/ ExpireStale(p) \/ ReadExisting(p) \/ WriteAlerts(p)
          \/ Commit(p) \/ Abort(p)
    \/ Tick

Spec == Init /\ [][Next]_vars

(***************************************************************************)
(* Properties                                                              *)
(***************************************************************************)

RowsOf(a) == {r \in Rows : zone[r].used /\ zone[r].id = a}

(* Alerts readers see.                                                      *)
Visible == {a \in Alerts : \E r \in RowsOf(a) : zone[r].expires > now}

(* No two rows of an alert.                                                 *)
OneRow(a) == \A r, s \in RowsOf(a) : r = s

(* An alert has one row, so that an update, or the end a complete snapshot  *)
(* puts to it, reaches what readers see (the dictionary existing of sync);  *)
(* unless two requests that overlapped both listed it: nothing keeps two    *)
(* processes off the same source.                                           *)
OneRowUnlessShared == \A a \in Alerts \ shared : OneRow(a)

(* The end readers see of each alert, and the snapshots under way.          *)
Ends ==
    [a \in Alerts |->
        IF RowsOf(a) = {} THEN 0 ELSE zone[CHOOSE r \in RowsOf(a) : TRUE].expires]

Announced(m) == [a \in Alerts |-> IF a \in Active(m) THEN m.until[a] ELSE 0]

Offers ==
    {[generated |-> payload[p].generated, complete |-> payload[p].complete,
      ends |-> Announced(payload[p])] : p \in {q \in Requests : pc[q] # "idle"}}

(* The rows as the board of EsAlertBoard.                                   *)
Board == INSTANCE EsAlertBoard WITH until <- Ends, offered <- Offers

ImplementsBoard == Board!Spec

(* Every alert has one row, and the request that changes rows was not       *)
(* overtaken by another.                                                    *)
Undisturbed ==
    /\ \A a \in Alerts : OneRow(a)'
    /\ zone' # zone => \A p \in Requests : pc'[p] # pc[p] => overtaken[p] = {}

(* A snapshot is applied as a whole or not at all, whatever other requests  *)
(* are under way: the registry is the board of EsAlertBoard, each step one  *)
(* of its steps or a stutter, save the commit of a request that another one *)
(* has overtaken, and once an alert has two rows.                           *)
AppliedAsAWhole ==
    /\ Board!Init
    /\ [][Undisturbed => [Board!Next]_(Board!boardVars)]_vars

(* A complete snapshot ends what it does not list: when it commits, such an *)
(* alert is over by the instant of the snapshot, unless a request that      *)
(* overlapped committed it meanwhile.                                       *)
CompleteEndsOthers ==
    [][\A p \in Requests :
         pc[p] = "committing" /\ pc'[p] = "idle" /\ zone' = Over(writes[p], zone)
         /\ payload[p].complete
         => \A r \in Rows \ overtaken[p] :
              zone'[r].used /\ zone'[r].id \notin Active(payload[p])
              => zone'[r].expires <= payload[p].generated]_vars

(* "Un snapshot complet buit requereix allow_empty_snapshot=true per evitar *)
(* una desactivacio massiva" (es-alert.md:18): a complete snapshot that     *)
(* still announces a running alert, but none the registry can draw, does    *)
(* not take every alert off.                                                *)
MassExpiryConfirmed ==
    [][\A p \in Requests :
         /\ pc[p] = "committing" /\ pc'[p] = "idle" /\ zone' # zone
         /\ \E a \in payload[p].mentioned : payload[p].until[a] > now
         /\ Visible # {}
         => \E r \in Rows : zone'[r].used /\ zone'[r].expires > now]_vars
=============================================================================
