--------------------------- MODULE MC_RoadVerdict ---------------------------
(* Answers of up to three roads, at distances on both sides of the limit. *)
EXTENDS RoadVerdict

MCDistance == 0..3
=============================================================================
