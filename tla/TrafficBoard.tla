---------------------------- MODULE TrafficBoard ----------------------------
(***************************************************************************)
(* What the traffic ingestion promises to the readers of the civil API,    *)
(* without transactions, locks or tables: a board that shows the last      *)
(* complete snapshot of each feed.  A snapshot is put up as a whole, it is *)
(* never partly replaced, and the drawing of a restriction is only ever    *)
(* improved: once it follows the road it never falls back to the straight  *)
(* line between the two end points that DATEX announces.                   *)
(***************************************************************************)
CONSTANTS
    Datex,      \* DATEX situation records (one per deduplication hash)
    Etraffic    \* eTraffic records

VARIABLES
    announced,  \* announced[d]: validity of d in the last complete DATEX snapshot
    shown,      \* restrictions readers see
    routed      \* DATEX restrictions drawn along the road

boardVars == <<announced, shown, routed>>

(* Validity of a row: absent, without an end, with an end still to come, or *)
(* ended.                                                                   *)
Validity == {"absent", "never", "future", "past"}

Running == {"never", "future"}

Init ==
    /\ announced = [d \in Datex |-> "absent"]
    /\ shown = {}
    /\ routed = {}

(* A complete DATEX snapshot replaces the previous one.  A record that the  *)
(* snapshot announces as running is shown; one it announces as ended may be *)
(* shown or not; one it does not mention is not shown.                      *)
PublishDatex ==
    \E feed \in [Datex -> Validity] :
        /\ \E d \in Datex : feed[d] # "absent"
        /\ announced' = feed
        /\ shown' \cap Etraffic = shown \cap Etraffic
        /\ shown' \subseteq Datex \cup Etraffic
        /\ \A d \in Datex :
              /\ feed[d] \in Running => d \in shown'
              /\ feed[d] = "absent" => d \notin shown'
        /\ routed \subseteq routed'
        /\ routed' \subseteq Datex

(* A complete eTraffic snapshot takes the whole board.                      *)
PublishEtraffic ==
    \E feed \in SUBSET Etraffic :
        /\ feed # {}
        /\ announced' = [d \in Datex |-> "absent"]
        /\ shown' = feed
        /\ UNCHANGED routed

(* Restrictions on the board are redrawn along the road.                    *)
Redraw ==
    /\ routed \subseteq routed'
    /\ routed' \subseteq routed \cup (shown \cap Datex)
    /\ UNCHANGED <<announced, shown>>

(* The announced end of a restriction passes.                               *)
EndPasses ==
    \E d \in Datex :
        /\ announced' \in {announced, [announced EXCEPT ![d] = "past"]}
        /\ announced[d] # "absent" \/ announced' = announced
        /\ shown' \in {shown, shown \ {d}}
        /\ announced[d] = "never" => UNCHANGED <<announced, shown>>
        /\ UNCHANGED routed

Next == PublishDatex \/ PublishEtraffic \/ Redraw \/ EndPasses

Spec == Init /\ [][Next]_boardVars
=============================================================================
