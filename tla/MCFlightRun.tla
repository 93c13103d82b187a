----------------------------- MODULE MCFlightRun -----------------------------
(***************************************************************************)
(* Small instances of FlightRun for TLC.  The unit is half a metre.        *)
(*                                                                         *)
(* As in make_swap_scenario the paths cross in an X: A goes right and up,  *)
(* B left and up, on the diagonals of a square.  The distance is measured  *)
(* along the coordinate in which the drones are further apart.             *)
(***************************************************************************)
EXTENDS FlightRun

Length == 4

Across(a, b) == LET d == (Length - a) - b IN IF d < 0 THEN -d ELSE d
Up(a, b) == IF a > b THEN a - b ELSE b - a

SwapGap(a, b) == IF Across(a, b) > Up(a, b) THEN Across(a, b) ELSE Up(a, b)
=============================================================================
