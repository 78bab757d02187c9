------------------------------ MODULE MCLookups -------------------------------
(***************************************************************************)
(* Instances of Lookups for TLC.                                           *)
(***************************************************************************)
EXTENDS Lookups

CONSTANTS a, b, c

ThreeAddrs == {a, b, c}
=============================================================================
