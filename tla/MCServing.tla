----------------------------- MODULE MCServing -----------------------------
(***************************************************************************)
(* The quality pipeline and the portal, one in each scenario.              *)
(*                                                                         *)
(* Quality: an unverified incident without a time, a forecast of a day to  *)
(* come, and three detections: two near each other and of one hour, the    *)
(* third later and too far from the first.  Two executions, each any       *)
(* number of times, of one row less than there are detections.             *)
(* A detection's own confidence is lower than its assessment, a forecast   *)
(* has none.  Portal: one incident without a date in a list, and two       *)
(* requests of a client.                                                   *)
(***************************************************************************)
EXTENDS Quality, Portal, TLC

CONSTANTS d1, d2, d3, forecast, incident, i1, all

VARIABLE scenario

mcVars == <<qualityVars, portalVars, scenario>>

Fact(kind, id, place, provenance, observed, located, reliability, own) ==
    [kind |-> kind, id |-> id, place |-> place, provenance |-> provenance,
     observed |-> observed, published |-> NoTime, received |-> 0,
     located |-> located, inputs |-> 4, reliability |-> reliability, own |-> own]

MCFacts ==
    (d1 :> Fact("fire_detection", 3, 0, "observed", -1, TRUE, 80, 4000)) @@
    (d2 :> Fact("fire_detection", 4, 1, "observed", -1, TRUE, 80, 4000)) @@
    (d3 :> Fact("fire_detection", 5, 2, "observed", 0, TRUE, 80, 8500)) @@
    (forecast :> Fact("weather_forecast", 1, 0, "estimated", 20, TRUE, 90, NoTime)) @@
    (incident :> Fact("incident", 2, 0, "unverified", NoTime, FALSE, 0, 8500))

MCMatches == [q \in Query |-> Incident]

(* Bounds.  Quality: detections arrive in the order of their ids, the other *)
(* records before any execution.  Portal: a client asks at most once more   *)
(* than it may in a minute, and a page is sent within a tick of its         *)
(* reading.  "limit" leaves out what follows the counting of a request, and *)
(* "pages" the refusals and the failures of expire.                         *)
Arriving ==
    /\ table' # table =>
          LET x == table'[Len(table')] IN \A y \in Range(table) : Facts[y].id < Facts[x].id
    /\ stage' # stage => {forecast, incident} \subseteq Range(table)

Asking ==
    /\ \A k \in DOMAIN counter' : counter'[k].count <= RateLimit + 1
    /\ \A client \in Client : admitted'[client] <= RateLimit + 1
    /\ \A r \in Request : req'[r].at \in {"looking", "storing"} => tick' <= req'[r].read + 1
    /\ scenario = "limit" => \A r \in Request : req'[r].at # "looking" /\ hidden' = hidden
    /\ scenario = "pages" =>
          /\ \A r \in Request : req[r].at = "expiring" => req'[r].at = "reading"
          /\ \A r \in Request : req'[r].at # "refused"

MCInit ==
    /\ QualityInit /\ PortalInit
    /\ scenario \in {"quality", "pages", "limit"}
    /\ scenario # "pages" => hidden = {}

MCNext ==
    \/ scenario = "quality" /\ QualityNext /\ Arriving /\ UNCHANGED <<portalVars, scenario>>
    \/ scenario \in {"pages", "limit"} /\ PortalNext /\ Asking /\ UNCHANGED <<qualityVars, scenario>>

MCSpec == MCInit /\ [][MCNext]_mcVars

Symmetric == Permutations(Executions) \cup Permutations(Request)

TypeOK == QualityTypeOK /\ PortalTypeOK
=============================================================================
