-------------------------- MODULE MCReconciliation --------------------------
(***************************************************************************)
(* Small instances of Reconciliation: three fires on a line of three       *)
(* cells, so that the outer two are neighbours of the middle one only, and *)
(* a perimeter may grow over two cells.                                    *)
(***************************************************************************)
EXTENDS Reconciliation

(* The map, and what each fire covers of it.                                *)
Line == 0..2
Patches == [f \in 1..3 |-> IF f = 1 THEN {{0}, {0, 1}} ELSE {{f - 1}}]

(* The only detection falls upon fire 2, and upon fire 1 when it has grown. *)
Middle == [d \in {1} |-> 1]

(* The publications give no hashtag to any fire, or the same one to all.    *)
Hashtags == {{}, 1..3}
=============================================================================
