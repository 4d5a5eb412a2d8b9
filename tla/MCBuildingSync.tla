--------------------------- MODULE MCBuildingSync ---------------------------
(***************************************************************************)
(* Instances of BuildingSync for TLC: b1 is a building, b2 a facility; i   *)
(* is a space named only in b1's details, l only in the list of spaces, d  *)
(* in both.                                                                *)
(***************************************************************************)
EXTENDS BuildingSync

CONSTANTS b1, i, l, d

MCBuildingOf == [s \in Space |-> b1]
=============================================================================
