---------------------------- MODULE MCConnectors ----------------------------
(* Two overlapping runs of each connector; a provider with two items, of    *)
(* one of which it may say two things that differ only in fields the loose  *)
(* digests leave out.  SELECTs that carry more than one digest are refused. *)
EXTENDS Connectors

CONSTANTS r1, r2, i1, i2

MCRecord == {[item |-> i1, says |-> 1], [item |-> i1, says |-> 2], [item |-> i2, says |-> 1]}

MCCore == [e \in Editions |-> 1]

MCRequests == [c \in Connectors |-> IF c \in {"aemet", "plans", "osm"} THEN 1 ELSE 2]

(* Bounds: each run is executed once; the database or the store, not both,  *)
(* goes away while some run is under way.  Weak fairness is then enough.    *)
MCNext ==
    \/ \E p \in Runs : (outcome[p] = "none" /\ Start(p)) \/ Step(p) \/ Kill(p)
    \/ \E service \in DOMAIN up :
          /\ up[service] => (\A s \in DOMAIN up : up[s]) /\ \E p \in Runs : pc[p] # "idle"
          /\ Switch(service)

MCSpec == Init /\ [][MCNext]_vars /\ \A p \in Runs : WF_vars(Step(p))
=============================================================================
