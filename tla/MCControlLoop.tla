---------------------------- MODULE MCControlLoop ----------------------------
(***************************************************************************)
(* Small instances of ControlLoop for TLC.                                  *)
(***************************************************************************)
EXTENDS ControlLoop

K(chassis, host, strategy, auto, faults, bound, configs) ==
  [chassis |-> chassis, host |-> host, strategy |-> strategy, auto |-> auto,
   faults |-> faults, orders |-> bound, configs |-> configs]

\* Every controller in every host; the faults are spread over them.
All == {K("unicycle", "module", "FLATNESS", TRUE, {}, 0, 1),
        K("unicycle", "module", "FLATNESS", TRUE, {"slot", "executor"}, 1, 0),
        K("unicycle", "node", "NMPC", TRUE, {"reference", "horizon"}, 1, 0),
        K("unicycle", "node", "FLATNESS", FALSE, {"executor"}, 2, 0),
        K("mecanum", "node", "FLATNESS", TRUE, {"executor"}, 2, 0)}

Nodes == {K("unicycle", "node", "FLATNESS", FALSE, {}, 3, 0)}

=============================================================================
