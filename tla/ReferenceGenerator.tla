-------------------------- MODULE ReferenceGenerator --------------------------
(***************************************************************************)
(* The generator of reference trajectories as operators on a record: the    *)
(* runtime (unicycle_reference_trajectory_runtime.cpp), its state machine   *)
(* SelfCheck, Ready, (Planning,) Active, the one request that waits and the *)
(* one trajectory that is retained, and the driver around it with the       *)
(* default request (reference_driver.cpp).                                  *)
(*                                                                          *)
(* A trajectory is known by the number of the request it answers, its kind  *)
(* the ticks until it has expired, and whether its flags are fatal to those  *)
(* who read it; what it looks like is left out.                             *)
(***************************************************************************)
EXTENDS Integers

CONSTANTS
  Requests,       \* how many requests are made: their numbers are 1..Requests
  Lives,          \* the ticks a trajectory can last, counted from its acceptance
  Contents,       \* what a request says
  Room,           \* the points a payload holds
  StatusPeriod,   \* 1 / status_rate
  ActivePeriod,   \* 1 / active_publish_rate
  Never           \* ticks no life and no period lasts: the life of a trajectory without a duration,
                  \* and a deadline that is not set

ASSUME PeriodsAssumption ==
  /\ Requests \in Nat /\ Never \in Nat /\ Lives \subseteq 1..(Never - 1)
  /\ StatusPeriod \in 1..(Never - 1) /\ ActivePeriod \in 1..(Never - 1)

\* Its flags have a fatal one; its samples are in order; the validator finds every number finite;
\* how many points or parameters it has, and how many times between them.
ASSUME ContentsAssumption ==
  /\ Contents \subseteq [fatal : BOOLEAN, ordered : BOOLEAN, finite : BOOLEAN,
                         points : Nat, times : Nat]
  /\ Room \in Nat

Default  == Requests + 1     \* the number of the default request
Numbers  == 0..Default       \* 0: none
Kinds    == {"analytic", "sampled", "polynomial"}
Left     == 0..Never

NoRequest   == [kind |-> "none", id |-> 0, left |-> Never, fatal |-> FALSE]
NoReference == NoRequest
DefaultRequest == [kind |-> "analytic", id |-> Default, left |-> Never, fatal |-> FALSE]

Generator ==
  [state : {"SelfCheck", "Ready", "Active"},
   request  : [kind : {"none", "analytic", "sampled", "waypoint"}, id : Numbers, left : Left,
               fatal : BOOLEAN],
   retained : [kind : {"none"} \cup Kinds, id : Numbers, left : Left, fatal : BOOLEAN],
   issued : BOOLEAN,                  \* the default request was accepted
   status : 0..StatusPeriod,          \* ticks until the gate of the status opens,
   publication : 0..ActivePeriod,     \* and the one of the trajectory
   told : BOOLEAN,                    \* the outputs of the update: a status,
   active : {"none"} \cup Kinds]      \* and the retained trajectory under its kind

\* reset, of the runtime and of the driver.
Restarted(g) ==
  [g EXCEPT !.state = "SelfCheck", !.request = NoRequest, !.retained = NoReference,
            !.issued = FALSE, !.told = FALSE, !.active = "none"]

NewGenerator ==
  [state |-> "SelfCheck", request |-> NoRequest, retained |-> NoReference, issued |-> FALSE,
   status |-> 0, publication |-> 0, told |-> FALSE, active |-> "none"]

-----------------------------------------------------------------------------
(* Requests.                                                                *)

\* toPlain: a payload's counts are within its arrays.
Plain(kind, c) == c.points <= Room /\ (kind = "waypoint" => c.times <= Room)

\* buildAnalyticEvaluator: every type has a curve, and what is missing its default.
AnalyticBuilt(c) == ~c.fatal /\ c.finite

\* buildSampledEvaluator.
SampledBuilt(c) == c.ordered /\ ~c.fatal /\ c.finite

\* buildWaypointProblem: flags and numbers are left to the planner.
WaypointBuilt(c) == c.points >= 2 /\ (c.times = 0 \/ c.times + 1 = c.points)

Evaluable(kind, c) ==
  CASE kind = "analytic" -> AnalyticBuilt(c)
    [] kind = "sampled"  -> SampledBuilt(c)
    [] kind = "waypoint" -> WaypointBuilt(c)

\* acceptAnalytic, acceptSampled, acceptWaypoint: one that cannot be evaluated leaves what
\* was there; one that can takes the place of the one that waits.
Accepted(g, request, evaluable) == IF evaluable THEN [g EXCEPT !.request = request] ELSE g

\* Mutant of Activated: the request is answered and stays.
ActivatedTwice(g) == [g EXCEPT !.retained = g.request]

\* activateRequest: an analytic or sampled request becomes the trajectory.
Activated(g) ==
  IF g.request.kind \in {"analytic", "sampled"}
  THEN [g EXCEPT !.retained = g.request, !.request = NoRequest] ELSE g

-----------------------------------------------------------------------------
(* The gates and the outputs.                                               *)

PublishStatus(g) ==
  IF g.status = 0 THEN [g EXCEPT !.status = StatusPeriod, !.told = TRUE] ELSE g

PublishTrajectory(g) ==
  IF g.publication = 0
  THEN [g EXCEPT !.publication = ActivePeriod, !.active = g.retained.kind] ELSE g

PublishActive(g) == PublishTrajectory(PublishStatus(g))

\* Ready begins with its status.
Readied(g) == PublishStatus([g EXCEPT !.state = "Ready", !.status = 0])

-----------------------------------------------------------------------------
(* The state machine.                                                       *)

\* planWaypoint and the state it leads to; a solution lasts `life' ticks and is published at
\* once, with the flags of its request.  Without one the trajectory of before is retained, and
\* followed no more.
Planned(g, solved, life) ==
  LET taken == [g EXCEPT !.request = NoRequest]
  IN  IF solved
      THEN PublishActive([taken EXCEPT !.state = "Active", !.status = 0, !.publication = 0,
                           !.retained = [kind |-> "polynomial", id |-> g.request.id,
                                         left |-> life, fatal |-> g.request.fatal]])
      ELSE [taken EXCEPT !.state = "SelfCheck"]

\* The first publication of an analytic or sampled trajectory comes after one period.
Begun(g) ==
  [Activated(g) EXCEPT !.state = "Active", !.status = StatusPeriod, !.publication = ActivePeriod]

\* activeExpired: the timeout is past.
Expired(g) == g.retained.left = 0

Continued(g) ==
  IF g.retained.kind = "none" THEN [g EXCEPT !.state = "SelfCheck"]
  ELSE IF Expired(g) THEN Readied(g)
  ELSE PublishActive(g)

\* One dispatch of Advance, and Planning with the one that follows it.
Advanced(g, solved, life) ==
  CASE g.state = "SelfCheck" -> Readied(g)
    [] g.state # "SelfCheck" /\ g.request.kind = "waypoint" -> Planned(g, solved, life)
    [] g.state = "Ready" /\ g.request.kind \in {"analytic", "sampled"} -> Begun(g)
    [] g.state = "Ready" /\ g.request.kind = "none" -> PublishStatus(g)
    [] g.state = "Active" /\ g.request.kind # "waypoint" -> Continued(Activated(g))

\* update of the driver: the runtime's, then the default request if it is due.
Updated(g, defaulted, solved, life) ==
  LET after == Advanced([g EXCEPT !.told = FALSE, !.active = "none"], solved, life)
  IN  IF defaulted /\ ~after.issued /\ after.state = "Ready"
      THEN [Accepted(after, DefaultRequest, TRUE) EXCEPT !.issued = TRUE] ELSE after

-----------------------------------------------------------------------------
(* Time.                                                                    *)

\* Mutant of NextDeadline: the end of the trajectory arms nothing, nor a restart.
NextDeadlineOfGates(g) ==
  CASE g.state = "Ready"  -> g.status
    [] g.state = "Active" -> IF g.status < g.publication THEN g.status ELSE g.publication
    [] OTHER -> Never

\* nextDeadline, in ticks from now.
NextDeadline(g) ==
  LET pace == IF g.status < g.publication THEN g.status ELSE g.publication
  IN  CASE g.request.kind # "none" \/ g.state = "SelfCheck" -> 0
        [] g.request.kind = "none" /\ g.state = "Ready" -> g.status
        [] g.request.kind = "none" /\ g.state = "Active" ->
             IF g.retained.left < pace THEN g.retained.left ELSE pace

Sooner(n) == IF n = Never THEN Never ELSE IF n = 0 THEN 0 ELSE n - 1

Older(g) ==
  [g EXCEPT !.request.left = Sooner(@), !.retained.left = Sooner(@),
            !.status = IF @ = 0 THEN 0 ELSE @ - 1,
            !.publication = IF @ = 0 THEN 0 ELSE @ - 1]

=============================================================================
