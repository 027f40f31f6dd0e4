---------------------------- MODULE ResetStation ----------------------------
(***************************************************************************)
(* The station without ROS (ugv_reset_safety/reset_coordinator.cpp): the    *)
(* vehicles' Session messages in, the planner's decisions and their         *)
(* repetitions out.  The station is a record, as the planner is.            *)
(*                                                                          *)
(* A Session arrives newer than every accepted one: the numbers of the      *)
(* publications are in the order of the channel (ResetSystem).              *)
(***************************************************************************)
EXTENDS ResetPlanner

CONSTANTS
  Expected  \* the declared scope: the vehicles without which nobody is admitted

ASSUME ExpectedAssumption == Expected \subseteq Vehicle

\* What a vehicle says of itself before it has asked for anything.
Quiet(pose, target) ==
  [session |-> 0, gen |-> 0, ack |-> 0, cert |-> FALSE, phase |-> "Idle",
   pose |-> pose, target |-> target, healthy |-> TRUE, valid |-> TRUE, placed |-> TRUE,
   moving |-> FALSE]

NoDecisionYet == [st |-> "None", session |-> 0, gen |-> 0, id |-> 0,
                  route |-> NoPlan, lim |-> 0, reason |-> "None"]

NewEntry == [heard |-> FALSE, s |-> Quiet(NoCell, NoCell), bad |-> FALSE,
             body |-> NoCell, moving |-> FALSE, last |-> NoDecisionYet]

NewStation ==
  [entry |-> [v \in Vehicle |-> NewEntry], pl |-> NewPlanner, scene |-> TRUE,
   sent |-> [v \in Vehicle |-> <<>>]]

\* Mutant of ScopeReady: whoever has spoken makes up the scope.
ScopeAnybody(st) == \E v \in Vehicle : st.entry[v].body # NoCell

\* Nobody is admitted before every expected vehicle has said where it is.
ScopeReady(st) == Expected # {} /\ \A v \in Expected : st.entry[v].body # NoCell

\* A Session, unless it is of an earlier request or another session of the same one.  Whether
\* it is valid and whether it tells a place are two things: a target that is not finite leaves
\* the pose as it is.
OnSession(st, v, s) ==
  LET e     == st.entry[v]
      old   == e.heard /\ (s.gen < e.s.gen \/ (s.gen = e.s.gen /\ s.session # e.s.session))
      other == e.heard /\ (s.session # e.s.session \/ s.gen # e.s.gen)
  IN  IF old THEN st
      ELSE [st EXCEPT !.entry[v] =
              [heard |-> TRUE, s |-> s, bad |-> ~s.valid,
               body |-> IF s.placed /\ s.healthy THEN s.pose ELSE e.body,
               moving |-> IF s.valid THEN s.moving ELSE e.moving,
               last |-> IF other THEN NoDecisionYet ELSE e.last]]

Outside(v) == Expected # {} /\ v \notin Expected

\* A vehicle as the planner is told of it.
Facts(st, v, lost) ==
  LET e     == st.entry[v]
      seen  == v \notin lost /\ ~e.bad /\ e.s.healthy
      phase == IF Outside(v) \/ e.bad THEN "Idle" ELSE e.s.phase
  IN  [session |-> e.s.session, gen |-> e.s.gen, ack |-> e.s.ack,
       available |-> seen, cert |-> e.s.cert /\ seen,
       pose |-> e.body, target |-> e.s.target, phase |-> phase,
       moving |-> phase \notin Taking /\ v \notin lost /\ e.moving]

TakesPart(st, v, lost) == st.entry[v].s.phase \in Taking /\ v \notin lost

\* A decision is published and remembered for its repetition.
Send(st, v, d) ==
  [st EXCEPT !.entry[v].last = d, !.sent[v] = Append(@, d)]

Bare(d) == [st |-> d.st, session |-> d.session, gen |-> d.gen, id |-> d.id,
            route |-> d.route, lim |-> d.lim, reason |-> d.reason]

\* A decision of the planner, unless the vehicle has asked for something else.
Pass(st, d) ==
  IF d.session = st.entry[d.vehicle].s.session /\ d.gen = st.entry[d.vehicle].s.gen
  THEN Send(st, d.vehicle, Bare(d)) ELSE st

\* What the planner has decided, one decision after the other.
Passed(st, ds) ==
  LET after[i \in 0..Len(ds)] == IF i = 0 THEN st ELSE Pass(after[i - 1], ds[i])
  IN  after[Len(ds)]

\* A decision of the station itself, under the planner's next number.
Own(st, v, state, reason) ==
  Send([st EXCEPT !.pl.body[v].next = @ + 1], v,
       [NoDecisionYet EXCEPT !.st = state, !.session = st.entry[v].s.session,
                             !.gen = st.entry[v].s.gen, !.id = st.pl.body[v].next,
                             !.reason = reason])

\* Nobody is admitted: who has stopped for it is told why.
LocalHold(st, v, lost) ==
  LET e   == st.entry[v]
      why == IF st.scene THEN "WaitingForPeer" ELSE "SceneUnavailable"
  IN  IF /\ st.pl.body[v].known /\ ~HasPlan(st.pl.body[v])
         /\ TakesPart(st, v, lost) /\ st.sent[v] = <<>> /\ e.s.cert /\ e.s.gen # 0
         /\ ~(e.last.st = "Hold" /\ e.last.reason = why)
      THEN Own(st, v, "Hold", why) ELSE st

\* Mutant of Repeat: the terminal Hold is not repeated.
RepeatToTakers(st, v, lost, now) ==
  LET e == st.entry[v]
  IN  IF v \in lost \/ st.sent[v] # <<>> \/ e.s.gen = 0 \/ e.last.st = "None" \/ v \notin now.refresh
      THEN st
      ELSE IF TakesPart(st, v, lost) \/ e.last.st = "Brake" THEN Send(st, v, e.last) ELSE st

\* The last decision again: to who takes part, and otherwise until it is answered.
Repeat(st, v, lost, now) ==
  LET e       == st.entry[v]
      pending == e.last.st = "Brake" \/ (e.last.st = "Hold" /\ e.s.ack # e.last.id)
      refused == e.last.st = "Reject" /\ e.last.reason = "BadSession"
  IN  CASE v \in lost \/ st.sent[v] # <<>> \/ e.s.gen = 0 -> st
        [] ~(v \in lost \/ st.sent[v] # <<>> \/ e.s.gen = 0) /\ (e.bad \/ Outside(v)) ->
             IF ~refused THEN Own(st, v, "Reject", "BadSession")
             ELSE IF v \in now.refresh THEN Send(st, v, e.last) ELSE st
        [] OTHER ->
             IF e.last.st # "None" /\ v \in now.refresh /\ (TakesPart(st, v, lost) \/ pending)
             THEN Send(st, v, e.last) ELSE st

\* Who waits while nobody is admitted, and who is told the same again.
Held(st, admit, lost) ==
  LET hold(s, v) == LocalHold(s, v, lost)
  IN  InOrder(hold, st, IF admit THEN {} ELSE Vehicle)
Repeated(st, lost, now) ==
  LET repeat(s, v) == Repeat(s, v, lost, now)
  IN  InOrder(repeat, st, {v \in Vehicle : st.entry[v].heard})

\* What the station makes of the planner after its step.
Begun(st, pl) ==
  [st EXCEPT !.pl = [pl EXCEPT !.out = <<>>], !.sent = [v \in Vehicle |-> <<>>]]
Decide(st, pl, admit, lost, now) ==
  Repeated(Held(Passed(Begun(st, pl), pl.out), admit, lost), lost, now)

\* The vehicles the planner is told of, and whether it may admit anybody.
Known(st)  == {v \in Vehicle : st.entry[v].heard /\ ~(st.entry[v].bad /\ st.entry[v].body = NoCell)}
Admits(st) == st.scene /\ ScopeReady(st)

\* One step of the station; `sent' is what it publishes.
StationTurn(st, lost, now) ==
  LET facts == [v \in Known(st) |-> Facts(st, v, lost)]
  IN  Decide(st, Update(st.pl, facts, Admits(st), now), Admits(st), lost, now)

=============================================================================
