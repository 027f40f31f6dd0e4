------------------------------ MODULE MCRosEdge ------------------------------
(***************************************************************************)
(* Small instances of RosEdge for TLC.                                      *)
(***************************************************************************)
EXTENDS RosEdge

\* A grant is an event, the state of the vehicle is a state port.
Ports == [k \in {"grant", "state"} |-> IF k = "grant" THEN 1 ELSE 0]

L(messages, orders, outcomes, ticks) ==
  [messages |-> messages, orders |-> orders, outcomes |-> outcomes, ticks |-> ticks]

\* One brake after another; results; messages; deadlines; and a deadline while a message comes.
Lives == {L(0, 3, 0, 0), L(0, 0, 2, 0), L(2, 0, 0, 0), L(0, 0, 0, 2), L(1, 0, 0, 1)}

Orders == {L(0, 3, 0, 0)}

=============================================================================
