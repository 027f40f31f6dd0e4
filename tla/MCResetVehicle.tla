---------------------------- MODULE MCResetVehicle ----------------------------
(***************************************************************************)
(* Small instances of ResetVehicle for TLC.                                 *)
(***************************************************************************)
EXTENDS ResetVehicle, TLC

\* No route is told from another, unless it ends at the target.
Alike == Permutations(Route \ FinalRoute)

=============================================================================
