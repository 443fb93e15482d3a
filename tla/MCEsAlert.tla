------------------------------ MODULE MCEsAlert ------------------------------
(***************************************************************************)
(* Two requests, in two scenarios: of two alerts one at a time, of one     *)
(* alert, which can be drawn, at any moment.                               *)
(***************************************************************************)
EXTENDS EsAlert, TLC

CONSTANTS a1, a2

VARIABLE scenario

mcVars == <<vars, scenario>>

MCInit == Init /\ scenario \in {"serial", "overlap"}

(* Bounds on what is asked of the registry; the rest is left as it is.      *)
Asked ==
    /\ scenario = "serial" => Cardinality({p \in Requests : pc'[p] # "idle"}) <= 1
    /\ scenario = "overlap" => \A p \in Requests :
           a2 \notin payload'[p].mentioned /\ payload'[p].drawable = payload'[p].mentioned

MCNext == Next /\ Asked /\ UNCHANGED scenario

MCSpec == MCInit /\ [][MCNext]_mcVars

(* Requests only differ by name, and so do primary keys.                    *)
Symmetry == Permutations(Rows) \cup Permutations(Requests)
=============================================================================
