---------------------------- MODULE MCDemoFlight ----------------------------
(***************************************************************************)
(* A small instance of DemoFlight for TLC.  The drones fly towards each    *)
(* other on one line: the first cycle finds them within the distance of a  *)
(* conflict, which the agents may or may not resolve, and the second one   *)
(* within the trigger distance.                                            *)
(***************************************************************************)
EXTENDS DemoFlight

CONSTANTS n1, n2, n3

InOrder == <<n1, n2, n3>>

Length == 4

HeadOn(a, b) == IF a + b > Length THEN a + b - Length ELSE Length - a - b
=============================================================================
