-------------------------- MODULE MCGandivaAxiLite --------------------------
(* Words of one one-bit lane: the bridge treats all lanes alike, and the   *)
(* proofs hold for any set of them.                                        *)
EXTENDS GandivaAxiLite, Integers

MCByte  == 0 .. 1
OneLane == {0}
=============================================================================
