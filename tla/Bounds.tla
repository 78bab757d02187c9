------------------------------- MODULE Bounds -------------------------------
(***************************************************************************)
(* A number held above or below another: max, min and clamp of the screen. *)
(***************************************************************************)
EXTENDS Integers

AtLeast(n, low) == IF n < low THEN low ELSE n
AtMost(n, high) == IF n > high THEN high ELSE n

=============================================================================
