--------------------------- MODULE MecanumControl ---------------------------
(***************************************************************************)
(* The CONTROL modes of the mecanum vehicle (mecanum_ugv_controller.cpp) on *)
(* the record of UnicycleControl.  The rules of a turn are those of the     *)
(* unicycle but for the completions it has not; tracking computes its       *)
(* command from the newest velocity reference, and never waits for it.      *)
(***************************************************************************)
EXTENDS Integers, Permit

CONSTANTS StateTimeout, IdlePeriod

NoCommand == [valid |-> FALSE, drive |-> FALSE, age |-> 0, own |-> FALSE]
Driving   == [valid |-> TRUE, drive |-> TRUE, age |-> 0, own |-> TRUE]

\* setCommand.
SetCommand(c, command) ==
  [c EXCEPT !.command = IF RequiresZero(c.permit) THEN NoCommand ELSE command]

\* emitZero, and the zeros of Reset through its gate.
EmitZero(c) == [c EXCEPT !.command = NoCommand, !.twist = "zero"]
ResetZero(c, force) ==
  [c EXCEPT !.command = NoCommand, !.commandGate = FALSE,
            !.twist = IF force \/ c.commandGate THEN "zero" ELSE @]

\* A command goes out when its gate is open; between two, it is not even kept.
Emit(c, command) ==
  IF c.commandGate
  THEN [SetCommand(c, command) EXCEPT !.commandGate = FALSE, !.twist = "command"] ELSE c

PublishIdle(c) == IF c.idle = 0 THEN [c EXCEPT !.idle = IdlePeriod, !.twist = "zero"] ELSE c

\* Without a reference, zero on the wall cadence; with one, the tracking law.
TrackTick(c, sample) ==
  IF c.reference # "none" THEN Emit(c, Driving)
  ELSE IF sample = "wait" THEN c ELSE EmitZero(c)

\* The command of a Reset is kept at every tick, and goes out through the gate.
ResetTick(c, healthy) ==
  IF ~c.permit.active \/ ~healthy THEN ResetZero(c, FALSE)
  ELSE [SetCommand(c, [Driving EXCEPT !.drive = (c.permit.at = "Executing")])
          EXCEPT !.commandGate = FALSE, !.twist = IF c.commandGate THEN "command" ELSE @]

Tick(c, in) ==
  CASE c.mode \in {"SelfCheck", "Ready"} -> PublishIdle(c)
    [] c.mode = "Custom1" -> TrackTick(c, in.sample)
    [] c.mode = "Reset"   -> ResetTick(c, in.healthy)

Exit(c, p) ==
  CASE c.mode = "Custom1" -> EmitZero(c)
    [] c.mode = "Reset"   -> ResetZero([c EXCEPT !.permit = p], TRUE)
    [] OTHER -> c

Enter(c, mode, p) ==
  LET fresh == [c EXCEPT !.mode = mode, !.command = NoCommand,
                         !.idle = 0, !.commandGate = TRUE]
  IN  IF mode = "Reset" THEN ResetZero([fresh EXCEPT !.permit = p, !.ever = TRUE], TRUE)
      ELSE fresh

\* setWorldReference; it stays until the next one.
SetWorldReference(c) == [c EXCEPT !.reference = "now"]

-----------------------------------------------------------------------------
(* The rules.                                                               *)

Ordered(mode, order, lost, credit) ==
  CASE order = "Reset" /\ mode # "SelfCheck" -> IF credit THEN "Reset" ELSE "stay"
    [] order = "Custom1" /\ mode = "Ready" -> "Custom1"
    [] order # "Reset" /\ mode = "Custom1" /\ lost -> "SelfCheck"
    [] order = "Stop" /\ (mode = "Reset" \/ (mode = "Custom1" /\ ~lost)) -> "Ready"
    [] OTHER -> "stay"

Healed(mode, healthy) ==
  IF mode = "SelfCheck" /\ healthy THEN "Ready"
  ELSE IF mode # "SelfCheck" /\ ~healthy THEN "SelfCheck" ELSE "stay"

AutoStarts(c, in) ==
  /\ in.auto /\ in.healthy /\ c.reference # "none" /\ c.mode = "Ready"
  /\ ~c.ever /\ ~Pending(c.permit)

Refused(c, order) == order = "Custom1" /\ (Pending(c.permit) \/ c.permit.active)

Destination(c, t, in, order) ==
  LET input == IF order = "none" /\ AutoStarts(c, in) THEN "Custom1" ELSE order
      edge  == in.healthy # c.healthy
      first == IF input = "none" \/ Refused(t, input) THEN "stay"
               ELSE Ordered(t.mode, input, edge /\ ~in.healthy, in.credit)
      then  == IF first = "stay" /\ edge THEN Healed(t.mode, in.healthy) ELSE first
  IN  IF then = "stay" /\ t.mode = "Reset" /\ ~t.permit.active THEN "Ready" ELSE then

-----------------------------------------------------------------------------
(* What goes out.                                                           *)

\* The twist of the node: zero while the executor requires it.
CmdVel(c) ==
  IF RequiresZero(c.permit) \/ ~c.command.valid THEN NoCommand ELSE c.command

\* What the node sends for the last output of the turn, and for a zero that is owed.
NodeTwist(c) == IF c.twist = "zero" \/ NeedsZero(c.permit) THEN NoCommand ELSE CmdVel(c)

NextWake(c, pose) ==
  LET pace == CASE c.mode \in {"SelfCheck", "Ready"} -> c.idle
                [] c.mode = "Custom1" ->
                     IF c.reference # "none" /\ c.commandGate THEN 0 ELSE 1
                [] c.mode = "Reset" -> 1
      health == IF ~c.healthy THEN IdlePeriod
                ELSE IF pose > StateTimeout THEN 0 ELSE StateTimeout + 1 - pose
  IN  IF pace < health THEN pace ELSE health

=============================================================================
