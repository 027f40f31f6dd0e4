--------------------------- MODULE UnicycleControl ---------------------------
(***************************************************************************)
(* The CONTROL modes of the unicycle (unicycle_ugv_controller.cpp) as       *)
(* operators on a record: the alternatives SelfCheck, Ready, Custom1        *)
(* (tracking) and Reset, their ticks, the rules of one turn, the NMPC       *)
(* ticket and its completion, and the times the owner must call again.      *)
(*                                                                          *)
(* Time is counted in ticks of SolveTimeout; an age is saturated at MaxAge. *)
(* `idle' counts the ticks until the gate of the zeros opens; the other gates *)
(* are open when their period, at most a tick, has passed or they were reset. *)
(***************************************************************************)
EXTENDS Integers, Sequences, Permit

CONSTANTS
  SolveTimeout,   \* solve_timeout
  ResultTimeout,  \* result_timeout
  StateTimeout,   \* state_timeout
  IdlePeriod      \* the period of the idle zero, and of the status message

MaxAge == 1 + (IF SolveTimeout > ResultTimeout THEN SolveTimeout ELSE ResultTimeout)
Age    == 0..MaxAge
Mode   == {"SelfCheck", "Ready", "Custom1", "Reset"}
Order  == {"Custom1", "Stop", "Reset"}

\* What the command is (`own' marks a solve asked for in this stay in Custom1), and the
\* ticket of the solve in flight; `seq' is a number, compared for equality only.
NoCommand == [valid |-> FALSE, drive |-> FALSE, age |-> 0, own |-> FALSE]
NoTicket  == [seq |-> 0, age |-> 0]
Command   == [valid : BOOLEAN, drive : BOOLEAN, age : Age, own : BOOLEAN]

\* The controller.  `twist' and `solve' are the outputs of the turn: the last twist it
\* emitted, and the number of the solve it asked for.
Controller(Number) ==
  [mode : Mode, healthy : BOOLEAN, ever : BOOLEAN, ticket : [seq : Number, age : Age],
   command : Command, idle : 0..IdlePeriod, commandGate : BOOLEAN, solveGate : BOOLEAN,
   reference : {"none", "before", "now"},   \* the PVA: none, one of before Custom1, one of now
   permit : Permit, twist : {"none", "zero", "command"}, solve : Number]

NewController ==
  [mode |-> "SelfCheck", healthy |-> FALSE, ever |-> FALSE, ticket |-> NoTicket,
   command |-> NoCommand, idle |-> 0, commandGate |-> TRUE, solveGate |-> TRUE,
   reference |-> "none", permit |-> NewPermit, twist |-> "none", solve |-> 0]

-----------------------------------------------------------------------------
(* Commands and outputs.                                                    *)

CommandReady(c) == c.command.valid /\ c.command.age <= ResultTimeout

\* setCommand and clearCommand.
SetCommand(c, command) ==
  [c EXCEPT !.command = IF RequiresZero(c.permit) THEN NoCommand ELSE command]
ClearCommand(c) == [c EXCEPT !.command = NoCommand]

\* A zero through one of the gates: forced, or when its period has passed.
Zero(c, force) ==
  IF force \/ c.idle = 0
  THEN [c EXCEPT !.command = NoCommand, !.idle = IdlePeriod, !.twist = "zero"]
  ELSE ClearCommand(c)
ResetZero(c, force) ==
  [c EXCEPT !.command = NoCommand, !.commandGate = FALSE,
            !.twist = IF force \/ c.commandGate THEN "zero" ELSE @]

EmitZero(c, force) == Zero(c, force \/ c.command.valid)

EmitCommand(c) ==
  IF ~CommandReady(c) THEN EmitZero(c, FALSE)
  ELSE [c EXCEPT !.commandGate = FALSE, !.twist = IF c.commandGate THEN "command" ELSE @]

-----------------------------------------------------------------------------
(* The ticks.                                                               *)

PublishIdle(c) == IF c.idle = 0 THEN [c EXCEPT !.idle = IdlePeriod, !.twist = "zero"] ELSE c

\* FLATNESS: `sample' says whether this turn takes a sample, and whether the tracking law
\* has an answer to it.  Under a wall cadence a turn between two slots may do nothing.
FlatnessTick(c, sample) ==
  CASE c.reference = "none" \/ sample = "fail" -> EmitZero(c, FALSE)
    [] c.reference # "none" /\ sample = "same" -> EmitCommand(c)
    [] c.reference # "none" /\ sample = "wait" -> IF CommandReady(c) THEN EmitCommand(c) ELSE c
    [] c.reference # "none" /\ sample = "good" ->
         EmitCommand(SetCommand(c, [valid |-> TRUE, drive |-> TRUE, age |-> 0,
                                    own |-> c.reference = "now"]))

\* Mutant of Expired: a solve is waited for without end.
NeverExpired(c) == c

Expired(c) ==
  IF c.ticket.seq # 0 /\ c.ticket.age > SolveTimeout THEN [c EXCEPT !.ticket = NoTicket] ELSE c

\* NMPC: at most one solve in flight, asked for under the number `seq'.
NmpcTick(c, cached, seq) ==
  IF ~cached THEN EmitZero(Expired(c), FALSE)
  ELSE IF Expired(c).ticket.seq = 0 /\ c.solveGate
       THEN EmitCommand([c EXCEPT !.ticket = [seq |-> seq, age |-> 0],
                                  !.solveGate = FALSE, !.solve = seq])
       ELSE EmitCommand(Expired(c))

\* Reset: the executor has stepped.
ResetTick(c, healthy) ==
  IF ~c.permit.active \/ ~healthy THEN ResetZero(c, FALSE)
  ELSE [SetCommand(c, [valid |-> TRUE, drive |-> c.permit.at = "Executing",
                       age |-> 0, own |-> TRUE])
          EXCEPT !.commandGate = FALSE, !.twist = IF c.commandGate THEN "command" ELSE @]

\* What a turn reads, in: strategy, auto, healthy, cached (the NMPC reference is there),
\* sample, credit, and the next sequence number.
ReferenceReady(c, in) == IF in.strategy = "FLATNESS" THEN c.reference # "none" ELSE in.cached

Tick(c, in) ==
  CASE c.mode \in {"SelfCheck", "Ready"} -> PublishIdle(c)
    [] c.mode = "Custom1" /\ in.strategy = "FLATNESS" -> FlatnessTick(c, in.sample)
    [] c.mode = "Custom1" /\ in.strategy = "NMPC"     -> NmpcTick(c, in.cached, in.seq)
    [] c.mode = "Reset" -> ResetTick(c, in.healthy)

-----------------------------------------------------------------------------
(* Leaving and entering an alternative.                                     *)

\* p is the permit after the exit (abort and finish of a Reset).
Exit(c, p) ==
  CASE c.mode = "Custom1" ->
         [EmitZero(c, TRUE) EXCEPT !.reference = IF @ = "none" THEN "none" ELSE "before"]
    [] c.mode = "Reset"   -> ResetZero([c EXCEPT !.permit = p], TRUE)
    [] OTHER -> c

\* setWorldPva.
SetWorldPva(c) == [c EXCEPT !.reference = IF c.mode = "Custom1" THEN "now" ELSE "before"]

\* A new alternative: new gates, no ticket, no command, Custom1 no PVA of before; Reset installs its run (permit p).
Enter(c, mode, p) ==
  LET fresh == [ClearCommand(c) EXCEPT !.mode = mode, !.ticket = NoTicket,
                         !.idle = 0, !.commandGate = TRUE, !.solveGate = TRUE,
                         !.reference = IF mode = "Custom1" THEN "none" ELSE @]
  IN  IF mode = "Reset" THEN ResetZero([fresh EXCEPT !.permit = p, !.ever = TRUE], TRUE)
      ELSE fresh

-----------------------------------------------------------------------------
(* The rules.                                                               *)

\* The alternative an order leads to, "stay" for none.  `lost': health was lost in this
\* very turn.  `credit': the executor and the counter can take another Reset.
Ordered(mode, order, lost, credit) ==
  CASE mode = "SelfCheck" -> "stay"
    [] mode # "SelfCheck" /\ order = "Reset" -> IF credit THEN "Reset" ELSE "stay"
    [] mode = "Ready"   /\ order = "Custom1" -> "Custom1"
    [] mode = "Custom1" /\ order # "Reset" /\ lost -> "SelfCheck"
    [] mode \in {"Custom1", "Reset"} /\ order = "Stop" /\ ~(mode = "Custom1" /\ lost) -> "Ready"
    [] OTHER -> "stay"

\* Mutant of Healed: health found again does not leave SelfCheck in Ready's favour.
HealedOnLossOnly(mode, healthy) == IF mode # "SelfCheck" /\ ~healthy THEN "SelfCheck" ELSE "stay"

Healed(mode, healthy) ==
  IF mode = "SelfCheck" /\ healthy THEN "Ready"
  ELSE IF mode # "SelfCheck" /\ ~healthy THEN "SelfCheck" ELSE "stay"

\* Tracking that starts by itself, once the vehicle is ready and no Reset was ever begun.
AutoStarts(c, in) ==
  /\ in.auto /\ in.healthy /\ ReferenceReady(c, in) /\ c.mode = "Ready"
  /\ ~c.ever /\ ~Pending(c.permit)

Input(c, in, order) == IF order = "none" /\ AutoStarts(c, in) THEN "Custom1" ELSE order

\* Custom1 is refused under a Reset's permission.
Refused(c, order) == order = "Custom1" /\ (Pending(c.permit) \/ c.permit.active)

\* The alternative this turn leads to: the order's, then the health edge's, then the end
\* of a Reset; t is the controller after its tick.
Destination(c, t, in, order) ==
  LET input == Input(c, in, order)
      edge  == in.healthy # c.healthy
      first == IF input = "none" \/ Refused(t, input) THEN "stay"
               ELSE Ordered(t.mode, input, edge /\ ~in.healthy, in.credit)
      then  == IF first = "stay" /\ edge THEN Healed(t.mode, in.healthy) ELSE first
  IN  IF then = "stay" /\ t.mode = "Reset" /\ ~t.permit.active THEN "Ready" ELSE then

-----------------------------------------------------------------------------
(* Completions.                                                             *)

\* Mutant of Completed: any completion is taken for the one in flight.
CompletedAny(c, strategy, r) ==
  IF c.mode # "Custom1" \/ strategy # "NMPC" \/ c.ticket.seq = 0 THEN c
  ELSE LET d == [c EXCEPT !.ticket = NoTicket]
       IN  IF r.ok /\ r.age <= ResultTimeout
           THEN EmitCommand(SetCommand(d, [valid |-> TRUE, drive |-> TRUE,
                                           age |-> r.age, own |-> r.own]))
           ELSE IF CommandReady(d) THEN d ELSE EmitZero(d, FALSE)

\* One completion: the one in flight, in time, with a command that is still good.
Completed(c, strategy, r) ==
  IF c.mode # "Custom1" \/ strategy # "NMPC" \/ c.ticket.seq = 0 \/ r.seq # c.ticket.seq THEN c
  ELSE LET d == [c EXCEPT !.ticket = NoTicket]
       IN  IF c.ticket.age > SolveTimeout THEN d
           ELSE IF r.ok /\ r.age <= ResultTimeout
           THEN EmitCommand(SetCommand(d, [valid |-> TRUE, drive |-> TRUE,
                                           age |-> r.age, own |-> r.own]))
           ELSE IF CommandReady(d) THEN d ELSE EmitZero(d, FALSE)

\* All that were in the inbox when the turn began (at most MaxInbox are modelled).
MaxInbox == 3
AllCompleted(c, strategy, rs) ==
  LET one   == IF Len(rs) >= 1 THEN Completed(c, strategy, rs[1]) ELSE c
      two   == IF Len(rs) >= 2 THEN Completed(one, strategy, rs[2]) ELSE one
  IN  IF Len(rs) >= 3 THEN Completed(two, strategy, rs[3]) ELSE two

-----------------------------------------------------------------------------
(* What goes out.                                                           *)

\* cmdVel: what a published command is at the moment it is published.
CmdVel(c) ==
  IF RequiresZero(c.permit) \/ ~c.command.valid THEN NoCommand ELSE c.command

\* What a node sends for the last output of the turn, and for a zero that is owed.
NodeTwist(c) == IF c.twist = "zero" \/ NeedsZero(c.permit) THEN NoCommand ELSE CmdVel(c)

\* nextWake: the ticks until the owner must call again, at most.
Least(S) == CHOOSE n \in S : \A m \in S : n <= m
Left(limit, age) == IF age > limit THEN 0 ELSE limit + 1 - age

NextWake(c, in, pose) ==
  LET health   == IF c.healthy THEN {Left(StateTimeout, pose)} ELSE {}
      idle     == {c.idle}
      flatness == IF in.strategy = "FLATNESS" /\ c.reference # "none" THEN {1} ELSE {}
      nmpc     == IF in.strategy # "NMPC" \/ ~in.cached THEN {}
                  ELSE IF c.ticket.seq # 0 THEN {Left(SolveTimeout, c.ticket.age)}
                  ELSE {IF c.solveGate THEN 0 ELSE 1}
      command  == IF CommandReady(c)
                  THEN {IF c.commandGate THEN 0 ELSE 1, Left(ResultTimeout, c.command.age)}
                  ELSE idle
  IN  Least({IdlePeriod} \cup health \cup
              (CASE c.mode \in {"SelfCheck", "Ready"} -> idle
                 [] c.mode = "Custom1" -> flatness \cup nmpc \cup command
                 [] c.mode = "Reset"   -> {1}))

=============================================================================
