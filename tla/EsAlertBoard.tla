---------------------------- MODULE EsAlertBoard ----------------------------
(***************************************************************************)
(* What the ES-Alert registry promises: one validity per alert, replaced   *)
(* or cut short by each snapshot as a whole or not at all.                 *)
(***************************************************************************)
EXTENDS Integers

CONSTANTS
    Alerts,   \* official identifiers
    MaxTime   \* last instant considered

VARIABLES
    until,    \* until[a]: end of the validity of a, 0 before its first notice
    offered,  \* the snapshots under consideration
    now       \* current instant

boardVars == <<until, offered, now>>

Init ==
    /\ until = [a \in Alerts |-> 0]
    /\ offered = {}
    /\ now = 1

(* ends[a] = 0: the snapshot does not list a as running.                    *)
Snapshot == [generated : 1..now, complete : BOOLEAN, ends : [Alerts -> 0..MaxTime]]

(* One more snapshot is offered.                                            *)
Offer ==
    /\ UNCHANGED <<until, now>>
    /\ \E s \in offered' \ offered :
          /\ s \in Snapshot
          /\ \A a \in Alerts : s.ends[a] # 0 => s.ends[a] > s.generated
          /\ offered' = offered \cup {s}

Drop ==
    /\ UNCHANGED <<until, now>>
    /\ \E s \in offered : offered' = offered \ {s}

(* Listed alerts get the end announced.  A complete snapshot ends the other *)
(* ones at its instant at the latest; a partial one leaves them alone.  A   *)
(* snapshot that was offered twice is still there.                          *)
Apply ==
    \E s \in offered :
        /\ until' = [a \in Alerts |->
              CASE s.ends[a] # 0                      -> s.ends[a]
                [] s.ends[a] = 0 /\ s.complete /\ until[a] > s.generated
                                                      -> s.generated
                [] OTHER                              -> until[a]]
        /\ offered' \in {offered, offered \ {s}}
        /\ UNCHANGED now

Tick == now' = now + 1 /\ UNCHANGED <<until, offered>>

Next == Offer \/ Drop \/ Apply \/ Tick

Spec == Init /\ [][Next]_boardVars
=============================================================================
