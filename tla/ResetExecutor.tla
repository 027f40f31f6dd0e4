---------------------------- MODULE ResetExecutor ----------------------------
(***************************************************************************)
(* The vehicle's side of a Reset (ugv_reset_client/reset_executor.h): the   *)
(* permission transaction with the station, the progress of the session     *)
(* and the outcomes it owes.  One executor is a record; every operation of  *)
(* the class is an operator from a record to a record, so that the vehicle  *)
(* (ResetVehicle) and the whole system (ResetSystem) share one definition.  *)
(*                                                                          *)
(* Time is abstracted: `due' holds the deadlines that have passed, a step   *)
(* of time adds one, and an operation that re-arms a deadline removes it.   *)
(* A pose estimate is abstracted to `still': the newest pose was taken for  *)
(* the velocity estimate, and the estimate says stopped.                    *)
(***************************************************************************)
EXTENDS Integers

CONSTANTS
  Route,       \* frozen routes a GO may carry
  FinalRoute,  \* those that end at the vehicle's target (final_move)
  NoRoute,
  MaxLimit,    \* prefixes of a route are 0..MaxLimit, MaxLimit is the whole of it
  MaxGen       \* the largest request_generation the counter can hold

ASSUME RouteAssumption == FinalRoute \subseteq Route /\ NoRoute \notin Route
ASSUME LimitAssumption == MaxLimit \in Nat
ASSUME GenAssumption   == MaxGen \in Nat /\ MaxGen >= 3

-----------------------------------------------------------------------------
(* Messages.                                                                *)

Generation == 0..MaxGen
GrantState == {"Hold", "Go", "Brake", "Reject"}

\* The reasons that decide the outcome of a rejected session.
Reason == {"None", "BadSession", "NoRoute"}

\* A logical decision: everything of a ResetGrant but its publication number.
\* Only a GO carries a route and a limit.
Decision ==
  {d \in [st : GrantState, session : Nat, gen : Generation, id : Nat \ {0},
          route : Route \cup {NoRoute}, lim : 0..MaxLimit, reason : Reason] :
     IF d.st = "Go" THEN d.route \in Route ELSE d.route = NoRoute /\ d.lim = 0}

NoDecision ==
  [st |-> "Hold", session |-> 0, gen |-> 0, id |-> 0,
   route |-> NoRoute, lim |-> 0, reason |-> "None"]

\* What arrives: a decision under a publication number.  `ok' says that the
\* numbers are finite, the ttl positive, the vias at most 24 and a final goal
\* equal to the target.
Grant == [seq : Int, ok : BOOLEAN, d : Decision]

Outcome == {"Arrived", "Timeout", "Stopped", "RejectedNoTarget",
            "RejectedNoCoordinator", "RejectedByCoordinator", "Infeasible",
            "AbortedDeviation", "AbortedStalled", "AbortedCoordinatorLost",
            "AbortedUnhealthy"}

Result   == [session : Nat, outcome : Outcome]
NoResult == [session |-> 0, outcome |-> "None"]

-----------------------------------------------------------------------------
(* The executor.                                                            *)

Stage      == {"None", "AwaitBrake", "AwaitZero", "AwaitStopped", "AwaitGo",
               "Executing", "Complete"}
Progress   == {"Idle", "Requesting", "Waiting", "Moving", "Settling", "Done"}
Deadline   == {"timeout", "target", "coordinator", "ttl"}
Twist      == {"zero", "drive"}

\* The order of one permission transaction.
Rank(stage) ==
  CASE stage = "None" -> 0 [] stage = "AwaitBrake" -> 1 [] stage = "AwaitZero" -> 2
    [] stage = "AwaitStopped" -> 3 [] stage = "AwaitGo" -> 4
    [] stage \in {"Executing", "Complete"} -> 5

\* The permission: one of the alternatives of the variant, with what it owns.
Permission ==
  [at : Stage,
   certified : BOOLEAN, deferred : Decision \cup {NoDecision},     \* of AwaitGo
   route : Route \cup {NoRoute}, lim : 0..MaxLimit, cmd : Twist]   \* of Executing

\* permission().emplace<stage>().
Fresh(stage) ==
  [at |-> stage, certified |-> FALSE, deferred |-> NoDecision,
   route |-> NoRoute, lim |-> 0, cmd |-> "zero"]

Executor ==
  [run : BOOLEAN,            \* authority_ holds a Run (else a Retirement)
   prog : Progress, session : Nat,
   valid : BOOLEAN,          \* target_valid
   heard : BOOLEAN,
   perm : Permission,
   gen : Generation, brake : Nat, ack : Nat,
   last : Decision \cup {NoDecision}, seqIn : Int,
   fault : BOOLEAN, clockBad : BOOLEAN, still : BOOLEAN,
   result : Result \cup {NoResult}, previous : Result \cup {NoResult},
   due : SUBSET Deadline]

NewExecutor ==
  [run |-> FALSE, prog |-> "Idle", session |-> 0, valid |-> FALSE, heard |-> FALSE,
   perm |-> Fresh("None"),
   gen |-> 0, brake |-> 0, ack |-> 0, last |-> NoDecision, seqIn |-> -1,
   fault |-> FALSE, clockBad |-> FALSE, still |-> FALSE,
   result |-> NoResult, previous |-> NoResult, due |-> {}]

Active(e)            == e.run /\ e.prog # "Done"
Is(e, stage)         == e.perm.at = stage
PermissionPending(e) == e.perm.at \notin {"None", "Executing", "Complete"}
RequiresZero(e)      == e.fault \/ e.clockBad \/ PermissionPending(e)
StopCertified(e)     == Is(e, "AwaitGo") /\ e.perm.certified
ResultPending(e)     == e.result # NoResult \/ e.previous # NoResult

\* Mutants of RequestAuthority: the counter is not checked for its end; the old
\* acknowledgement survives.
RequestAuthorityWraps(e, terminal) ==
  [e EXCEPT !.perm = Fresh("AwaitBrake"), !.gen = @ + 1, !.brake = 0, !.ack = 0,
            !.due = @ \ {"ttl"}, !.prog = IF terminal THEN @ ELSE "Requesting"]
RequestAuthorityKeepsAck(e, terminal) ==
  [e EXCEPT !.perm = Fresh("AwaitBrake"), !.brake = 0, !.due = @ \ {"ttl"},
            !.gen = IF @ = MaxGen THEN @ ELSE @ + 1,
            !.fault = IF e.gen = MaxGen THEN TRUE ELSE @,
            !.prog = IF terminal THEN @ ELSE "Requesting"]

\* The ways an executor loses its authority to move all end here: a new
\* generation, nothing acknowledged.  The counter saturates into a fault.
RequestAuthority(e, terminal) ==
  [e EXCEPT !.perm = Fresh("AwaitBrake"), !.brake = 0, !.ack = 0, !.due = @ \ {"ttl"},
            !.gen = IF @ = MaxGen THEN @ ELSE @ + 1,
            !.fault = IF e.gen = MaxGen THEN TRUE ELSE @,
            !.prog = IF terminal THEN @ ELSE "Requesting"]

\* Mutant of End: the undelivered Result is overwritten.
EndOverwrites(e, outcome) ==
  IF ~Active(e) THEN e
  ELSE RequestAuthority(
         [e EXCEPT !.result = [session |-> e.session, outcome |-> outcome],
                   !.prog = "Done"], TRUE)

\* One Result; an undelivered one moves to the second place.
End(e, outcome) ==
  IF ~Active(e) THEN e
  ELSE RequestAuthority(
         [e EXCEPT !.previous = IF e.result # NoResult THEN e.result ELSE @,
                   !.result = [session |-> e.session, outcome |-> outcome],
                   !.prog = "Done"], TRUE)

\* The Run is gone; its permission transaction is retained.
Finish(e) ==
  IF ~e.run THEN e
  ELSE [(IF Is(e, "Executing") THEN RequestAuthority(e, TRUE) ELSE e)
          EXCEPT !.run = FALSE, !.prog = "Idle", !.valid = FALSE,
                 !.heard = FALSE, !.due = {}]

\* A new Run is refused when two outcomes would be owed, or the counter is near its end.
CanPrepare(e) ==
  /\ ~e.fault
  /\ e.gen < MaxGen - 2
  /\ e.previous = NoResult
  /\ ~(e.result # NoResult /\ Active(e))

\* Mutant of Install: the new Run goes on under the transaction the last one left.
InstallInPlace(e, session, valid) ==
  [Finish(End(e, "Stopped")) EXCEPT !.run = TRUE, !.session = session, !.valid = valid,
                                    !.prog = "Requesting"]

Install(e, session, valid) ==
  RequestAuthority(
    [Finish(End(e, "Stopped")) EXCEPT !.run = TRUE, !.session = session,
                                      !.valid = valid], FALSE)

SetSpec(e) ==
  IF e.perm.at \in {"None", "Complete"} THEN e ELSE RequestAuthority(e, ~Active(e))

PeekResult(e) == IF e.previous # NoResult THEN e.previous ELSE e.result

CommitResult(e) ==
  IF e.previous # NoResult THEN [e EXCEPT !.previous = NoResult]
                           ELSE [e EXCEPT !.result = NoResult]

-----------------------------------------------------------------------------
(* Observations.                                                            *)

ClockWentBack(e) ==
  [e EXCEPT !.clockBad = TRUE,
            !.perm.certified = IF Is(e, "AwaitGo") THEN FALSE ELSE @]

\* A pose newer than the last one: `still' is what the velocity estimate would
\* say with it.  Between a request and the zero publication, and on untrusted
\* evidence after it, the pose is not a sample and the estimate is out of date.
Observe(e, trusted, still) ==
  LET sampled ==
        /\ e.perm.at \notin {"AwaitBrake", "AwaitZero"}
        /\ e.perm.at \in {"AwaitStopped", "AwaitGo"} => trusted /\ ~e.clockBad
  IN  [e EXCEPT !.still = sampled /\ still]

Stopped(e, m) == m.healthy /\ m.outerZero /\ e.perm.cmd = "zero" /\ e.still

CausalStopped(e, m) == ~e.clockBad /\ m.trusted /\ Stopped(e, m)

\* Mutant of OnZeroPublished: the velocity estimate of before the zero is kept.
OnZeroPublishedKeepsEstimate(e, gen, brake) ==
  IF \/ ~Is(e, "AwaitZero") \/ e.clockBad \/ e.fault \/ e.perm.cmd # "zero"
     \/ gen # 0 /\ gen # e.gen
     \/ brake # 0 /\ brake # e.brake
  THEN e
  ELSE [e EXCEPT !.perm = Fresh("AwaitStopped")]

\* The actual publication of a zero command; a receipt may name the request it is for.
OnZeroPublished(e, gen, brake) ==
  IF \/ ~Is(e, "AwaitZero") \/ e.clockBad \/ e.fault \/ e.perm.cmd # "zero"
     \/ gen # 0 /\ gen # e.gen
     \/ brake # 0 /\ brake # e.brake
  THEN e
  ELSE [e EXCEPT !.perm = Fresh("AwaitStopped"), !.still = FALSE]

-----------------------------------------------------------------------------
(* Grants.                                                                  *)

\* The envelope: this session, this request, not an old publication, not an
\* older decision, and not a different decision under the last number.
Answers(e, g) ==
  /\ ~e.fault /\ ~Is(e, "None") /\ g.ok
  /\ g.d.session = e.session /\ g.d.gen = e.gen /\ e.gen # 0
  /\ g.seq > e.seqIn
  /\ g.d.id >= e.last.id
  /\ g.d.id = e.last.id => g.d = e.last

\* Mutant of Admits: a GO for the route in execution may shrink its prefix.
AdmitsShrunk(e, d) ==
  CASE d.st = "Go" /\ Is(e, "Executing") -> d.route = e.perm.route
    [] d.st = "Go" /\ ~Is(e, "Executing") ->
         /\ StopCertified(e) /\ Active(e) /\ d.id > e.brake
         /\ e.perm.deferred = NoDecision \/ e.perm.deferred.id = d.id
    [] d.st = "Hold" ->
         \/ Is(e, "Executing")
         \/ StopCertified(e) /\ d.id > e.brake
         \/ Is(e, "Complete") /\ ~Active(e) /\ d.id = e.ack
    [] OTHER -> TRUE

\* The state the decision needs.
Admits(e, d) ==
  CASE d.st = "Go" /\ Is(e, "Executing") -> d.route = e.perm.route /\ d.lim >= e.perm.lim
    [] d.st = "Go" /\ ~Is(e, "Executing") ->
         /\ StopCertified(e) /\ Active(e) /\ d.id > e.brake
         /\ e.perm.deferred = NoDecision \/ e.perm.deferred.id = d.id
    [] d.st = "Hold" ->
         \/ Is(e, "Executing")
         \/ StopCertified(e) /\ d.id > e.brake
         \/ Is(e, "Complete") /\ ~Active(e) /\ d.id = e.ack
    [] OTHER -> TRUE

\* Mutant of OnBrake: a brake in the middle of a route is answered in the old request.
OnBrakeInPlace(e, d) ==
  IF Is(e, "AwaitBrake") \/ d.id # e.brake
  THEN [e EXCEPT !.brake = d.id, !.ack = d.id, !.perm = Fresh("AwaitZero")]
  ELSE e

OnBrake(e, d) ==
  IF Is(e, "AwaitBrake")
  THEN [e EXCEPT !.brake = d.id, !.ack = d.id, !.perm = Fresh("AwaitZero")]
  ELSE IF d.id # e.brake THEN RequestAuthority(e, ~Active(e)) ELSE e

OnGo(e, d) ==
  IF Is(e, "Executing")
  THEN [e EXCEPT !.due = @ \ {"ttl"}, !.ack = d.id, !.perm.lim = d.lim]
  ELSE [e EXCEPT !.due = @ \ {"ttl"}, !.perm.deferred = d]

OnHold(e, d) ==
  IF ~Active(e) /\ Is(e, "AwaitGo")
  THEN [e EXCEPT !.ack = d.id, !.perm = Fresh("Complete")]
  ELSE e

OnReject(e, d) ==
  End(e, IF d.reason \in {"BadSession", "None"} THEN "RejectedByCoordinator"
                                                ELSE "Infeasible")

OnGrant(e, g) ==
  IF ~(Answers(e, g) /\ Admits(e, g.d)) THEN e
  ELSE LET h == [e EXCEPT !.seqIn = g.seq, !.last = g.d,
                          !.heard = @ \/ e.run,
                          !.due = @ \ {"coordinator"}]
       IN  CASE g.d.st = "Brake"  -> OnBrake(h, g.d)
             [] g.d.st = "Go"     -> OnGo(h, g.d)
             [] g.d.st = "Hold"   -> OnHold(h, g.d)
             [] g.d.st = "Reject" -> OnReject(h, g.d)

-----------------------------------------------------------------------------
(* The control turn.                                                        *)

\* (Re)certify the stop, then turn a deferred GO into motion.
Certify(e, m) ==
  LET c == CausalStopped(e, m)
  IN  CASE Is(e, "AwaitStopped") /\ c ->
             [e EXCEPT !.perm = [Fresh("AwaitGo") EXCEPT !.certified = TRUE]]
        [] Is(e, "AwaitGo") -> [e EXCEPT !.perm.certified = c]
        [] OTHER -> e

Start(e) ==
  LET go == e.perm.deferred
  IN  [e EXCEPT !.perm = [Fresh("Executing") EXCEPT !.route = go.route, !.lim = go.lim],
                !.ack = go.id, !.prog = "Waiting"]

Poll(e, m) ==
  IF e.fault THEN [e EXCEPT !.perm.cmd = "zero"]
  ELSE LET c == Certify(e, m)
       IN  IF StopCertified(c) /\ c.perm.deferred # NoDecision /\ Active(c) /\ "ttl" \notin c.due
           THEN Start(c) ELSE c

Held(e) ==
  [e EXCEPT !.prog = IF PermissionPending(e) \/ @ = "Requesting" THEN "Requesting"
                     ELSE "Waiting"]

\* What one tick of the route tracker reports: `none' when the control period
\* has not passed, the command and the phase it leads to otherwise, or the end
\* of the session or of the request.
TrackerTick ==
  [verdict : {"none", "follow", "deviated", "stalled", "arrived", "restop"},
   cmd : Twist, phase : {"Waiting", "Moving", "Settling"}]

\* What a tick may report of this executor.
Possible(e, t) ==
  /\ t.verdict = "arrived" => e.perm.route \in FinalRoute /\ e.still
  /\ t.verdict = "stalled" => e.perm.lim > 0
  /\ t.verdict = "restop"  => e.perm.lim = MaxLimit
  /\ t.verdict \notin {"none", "follow"} => t.cmd = "zero" /\ t.phase = "Waiting"
  /\ t.verdict = "none"    => t.cmd = e.perm.cmd
  /\ t.phase = "Settling"  => e.perm.route \in FinalRoute

Follow(e, m, t) ==
  LET f == [e EXCEPT !.perm.cmd = t.cmd, !.prog = t.phase]
  IN  CASE t.verdict = "deviated" -> End(e, "AbortedDeviation")
        [] t.verdict = "stalled"  -> End(e, "AbortedStalled")
        [] t.verdict = "arrived"  -> End(e, "Arrived")
        [] t.verdict = "restop" /\ Stopped(f, m) -> Held(RequestAuthority(e, FALSE))
        [] OTHER -> f

\* Mutant of Step: the session's own deadline is forgotten while permission is pending.
StepForgetsTimeout(e, m, t) ==
  LET p == Poll(e, m) IN
  IF ~Active(p) \/ p.fault THEN p
  ELSE IF ~Is(p, "Executing") THEN Held(p)
  ELSE IF "timeout" \in p.due THEN End(p, "Timeout")
  ELSE Follow(p, m, t)

\* Mutant of Step: a route that has been taken up is followed though its grant has lapsed.
StepIgnoresLapse(e, m, t) ==
  LET p == Poll(e, m) IN
  IF ~Active(p) \/ p.fault \/ ~m.healthy \/ ~Is(p, "Executing") THEN StepForgetsTimeout(e, m, t)
  ELSE IF "timeout" \in p.due THEN End(p, "Timeout")
  ELSE Follow(p, m, t)

\* The decisions of one turn, in the order of the code.
Step(e, m, t) ==
  LET p == Poll(e, m) IN
  IF ~Active(p) THEN p
  ELSE IF p.fault THEN End(p, "RejectedByCoordinator")
  ELSE IF "timeout" \in p.due THEN End(p, "Timeout")
  ELSE IF ~m.healthy THEN Held([p EXCEPT !.perm.cmd = "zero"])
  ELSE IF ~p.valid
       THEN IF "target" \in p.due THEN End(p, "RejectedNoTarget") ELSE Held(p)
  ELSE IF "coordinator" \in p.due
       THEN End(p, IF p.heard THEN "AbortedCoordinatorLost" ELSE "RejectedNoCoordinator")
  ELSE IF ~Is(p, "Executing") THEN Held(p)
  ELSE IF p.clockBad \/ "ttl" \in p.due THEN Held(RequestAuthority(p, FALSE))
  ELSE Follow(p, m, t)

\* The Session message, and the counter of its publications running out.
SessionOf(e) ==
  [session |-> e.session, gen |-> e.gen, ack |-> e.ack,
   cert |-> StopCertified(e), phase |-> e.prog]

MarkPublished(e, exhausted) == [e EXCEPT !.fault = @ \/ exhausted]

=============================================================================
