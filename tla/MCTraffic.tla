------------------------------ MODULE MCTraffic ------------------------------
(***************************************************************************)
(* Two DATEX records of which one can be matched to a road, two eTraffic   *)
(* records, and runs of every kind, in three scenarios: snapshots of both  *)
(* DATEX records, two DATEX runs (Celery task and manual endpoint) of one, *)
(* or snapshots of both eTraffic records beside DATEX runs of one.         *)
(***************************************************************************)
EXTENDS Traffic, TLC

CONSTANTS d1, d2, e1, e2, datex1, datex2

VARIABLE scenario

mcVars == <<vars, scenario>>

MCInit == Init /\ scenario \in {"snapshots", "overlap", "etraffic"}

(* Bounds on the runs that start and on what the feeds announce.  A run     *)
(* that is skipped changes nothing but its result.                          *)
Started ==
    /\ scenario # "overlap" => /\ pc'[datex2] = "idle"
                               /\ \A p \in Runs : result'[p] # "skipped_locked"
    /\ scenario # "snapshots" => \A p \in DatexRuns : feed'[p][d2] = "absent"
    /\ scenario # "etraffic" => \A p \in EtrafficRuns : e2 \notin listed'[p]

MCNext == Next /\ Started /\ UNCHANGED scenario

MCSpec == MCInit /\ [][MCNext]_mcVars /\ Fairness
=============================================================================
