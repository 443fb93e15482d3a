------------------------------- MODULE MCFirms -------------------------------
(***************************************************************************)
(* Small instances of Firms: two detections, a scheduled run of two        *)
(* sources and a reprocessed CSV that may overlap.                         *)
(***************************************************************************)
EXTENDS Firms, TLC

(* Detections only differ by name.                                          *)
DetectionSymmetry == Permutations(Detections)
=============================================================================
