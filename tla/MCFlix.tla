------------------------------- MODULE MCFlix -------------------------------
(***************************************************************************)
(* Small instances of Flix for TLC: a clock that is exact, and one whose   *)
(* floats are exact below 4 and even numbers from there on, with ties that *)
(* go to the multiple of 4 as IEEE 754 has it.  A pass of one unit then    *)
(* may last no time at all by the clock, or two units.                     *)
(***************************************************************************)
EXTENDS Flix

Exact(time) == time

Float(time) == IF time < 4 \/ time % 2 = 0 THEN time
               ELSE IF time % 4 = 1 THEN time - 1 ELSE time + 1

(* Full throttle is 2.  A command may be below off, and above full.        *)
OffToFull == 0..2
FromBelowToAbove == {-1, 0, 1, 2, 3}
=============================================================================
