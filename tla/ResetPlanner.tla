---------------------------- MODULE ResetPlanner ----------------------------
(***************************************************************************)
(* The station's planner (ugv_reset_safety/reset_planner.cpp): who holds    *)
(* which part of which route, and the decisions that follow.  The planner   *)
(* is a record; sync and step are operators from a record to a record, so   *)
(* that ResetStation can put them between messages.                         *)
(*                                                                          *)
(* Geometry is abstracted to cells: a pose is the cell a body occupies, a   *)
(* route a path of neighbouring cells, a margin the distance between cells. *)
(* A limit is the number of cells granted; the hold margin is the last cell *)
(* before a conflict.  Time is abstracted: the intervals that have run out  *)
(* are the `now' of a step.                                                 *)
(***************************************************************************)
EXTENDS Integers, Sequences, FiniteSets

CONSTANTS
  Fleet,       \* the vehicles, in the order of their names
  Cell,
  Links,       \* pairs of neighbouring cells
  NoCell,
  Unlimited,   \* the limit of a whole route, no less than the number of cells
  MinPrefix,   \* cells of the shortest prefix worth a grant
  CycleReach,  \* cells a route must get to break a cycle of deferrals
  Patience,    \* cells of the longest route worth starting
  NoPlan

ASSUME CellAssumption      == IsFiniteSet(Cell)
ASSUME PrefixAssumption    == MinPrefix \in Nat /\ CycleReach \in Nat /\ Patience \in Nat
ASSUME UnlimitedAssumption == Unlimited \in Nat /\ Unlimited >= Cardinality(Cell)

Vehicle == {Fleet[i] : i \in DOMAIN Fleet}

\* Each vehicle once, for the code keeps them in a map.
ASSUME FleetAssumption ==
  Fleet \in Seq(Vehicle) /\ \A i, j \in DOMAIN Fleet : Fleet[i] = Fleet[j] => i = j

-----------------------------------------------------------------------------
(* Routes.                                                                  *)

Near(c, d) == <<c, d>> \in Links \/ <<d, c>> \in Links

\* Every path that repeats no cell.
Path ==
  UNION {{p \in [1..n -> Cell] : /\ \A i \in 1..(n - 1) : Near(p[i], p[i + 1])
                                 /\ \A i, j \in 1..n : p[i] = p[j] => i = j} :
         n \in 1..Cardinality(Cell)}

Cells(path) == {path[i] : i \in DOMAIN path}

Lesser(a, b)  == IF a < b THEN a ELSE b
Greater(a, b) == IF a < b THEN b ELSE a
Least(is)     == CHOOSE i \in is : \A j \in is : i <= j

\* The paths a search may find, and the one it finds first: the shortest.
Found(world, from, to) ==
  {p \in Path : p[1] = from /\ p[Len(p)] = to /\ Cells(p) \cap world = {}}
Shortest(paths) == CHOOSE p \in paths : \A q \in paths : Len(p) <= Len(q)

-----------------------------------------------------------------------------
(* The planner.                                                             *)

Phase  == {"Idle", "Requesting", "Waiting", "Moving", "Settling", "Done"}
Taking == {"Requesting", "Waiting", "Moving", "Settling"}

NewBody ==
  [known |-> FALSE, session |-> 0, gen |-> 0, phase |-> "Idle",
   pose |-> NoCell, target |-> NoCell, proof |-> NoCell,
   available |-> TRUE, uncontrolled |-> FALSE, rejected |-> FALSE,
   last |-> [st |-> "None", reason |-> "None", blockers |-> {}],
   blockers |-> {}, occupied |-> FALSE, noRoute |-> FALSE,
   at |-> "Unreserved", plan |-> NoPlan,
   cert |-> "Uncertified", brake |-> 0,
   budget |-> 0, grants |-> 0, next |-> 1]

NewPlanner ==
  [body |-> [v \in Vehicle |-> NewBody], world |-> {},
   changed |-> FALSE, dirty |-> TRUE, out |-> <<>>]

HasPlan(b)      == b.at # "Unreserved"
Retiring(b)     == b.at = "Retiring"
Granted(b)      == HasPlan(b) /\ ~Retiring(b)
Participates(b) == b.phase \in Taking
AwaitsStop(b)   == b.cert = "Awaiting"

\* A body that may be planned for: it takes part, its stop is certified, nothing is issued.
Plannable(b) ==
  Participates(b) /\ b.cert = "Certified" /\ ~HasPlan(b) /\ ~b.rejected
Waits(b) == Plannable(b) /\ b.phase \in {"Requesting", "Waiting"}

AnyMover(pl) == \E v \in Vehicle : Granted(pl.body[v])

\* The cells of a plan that are still reserved: what lies behind the cursor is given back.
Reserved(plan) ==
  {plan.route.path[i] : i \in plan.cursor..Lesser(plan.lim, Len(plan.route.path))}

\* All that is kept free for a body.
Holding(b) == {b.pose} \cup (IF HasPlan(b) THEN Reserved(b.plan) ELSE {})

Others(pl, v) == {o \in Vehicle \ {v} : pl.body[o].known}

Put(pl, v, b) == [pl EXCEPT !.body[v] = b]

\* One operation after another, for each vehicle of a set in the order of the names.
InOrder(op(_, _), pl, vs) ==
  LET after[i \in 0..Len(Fleet)] ==
        IF i = 0 THEN pl
        ELSE LET p == after[i - 1] IN IF Fleet[i] \in vs THEN op(p, Fleet[i]) ELSE p
  IN  after[Len(Fleet)]

-----------------------------------------------------------------------------
(* The verifier.                                                            *)

Standing(pl, v) == {o \in Others(pl, v) : ~HasPlan(pl.body[o])}
Frozen(pl, v)   == {o \in Others(pl, v) : Retiring(pl.body[o])}
Movers(pl, v)   == {o \in Others(pl, v) : Granted(pl.body[o])}

Holds(pl, vs, c) == {o \in vs : c \in Holding(pl.body[o])}

\* Mutant of Blocking: a reservation that is being retired is waited for like a mover.
BlockingParked(pl, v, c) == Holds(pl, Standing(pl, v), c)

\* What does not go away by waiting: a body that stands, a reservation that is being retired.
Blocking(pl, v, c) == Holds(pl, Standing(pl, v) \cup Frozen(pl, v), c)

\* The violation of a path that is blocked for good at some indices, and by movers at others:
\* the first of the former, wherever it is, and otherwise the first of the latter.
Violation(pl, v, path, hard, soft) ==
  CASE hard # {} ->
         LET c == path[Least(hard)]
         IN  [hard |-> TRUE, world |-> c \in pl.world, at |-> 0, blockers |-> Blocking(pl, v, c)]
    [] hard = {} /\ soft # {} ->
         [hard |-> FALSE, world |-> FALSE, at |-> Least(soft),
          blockers |-> Holds(pl, Movers(pl, v), path[Least(soft)])]
    [] OTHER -> [hard |-> FALSE, world |-> FALSE, at |-> 0, blockers |-> {}]

\* The first violation of a path from an index on.
FirstViolation(pl, v, path, from) ==
  LET rest == from..Len(path)
  IN  Violation(pl, v, path,
                {i \in rest : path[i] \in pl.world \/ Blocking(pl, v, path[i]) # {}},
                {i \in rest : Holds(pl, Movers(pl, v), path[i]) # {}})

\* The best of the paths found, whose violations are given: the first that is clear, or as
\* far as the first mover if that is worth a grant.
Candidate(violation, final) ==
  LET found == DOMAIN violation
      ok    == {p \in found : /\ ~violation[p].hard
                              /\ violation[p].at = 0 \/ violation[p].at - 1 >= MinPrefix}
      best  == Shortest(ok)
      to    == violation[best].at
  IN  IF ok = {}
      THEN [ok |-> FALSE, failed |-> found = {}, route |-> NoPlan, lim |-> Unlimited,
            blockers |-> IF found = {} THEN {} ELSE violation[Shortest(found)].blockers]
      ELSE [ok |-> TRUE, failed |-> FALSE, route |-> [path |-> best, final |-> final],
            lim |-> IF to = 0 THEN Unlimited ELSE to - 1, blockers |-> {}]

\* A route to a goal, verified against everybody.
PlanRoute(pl, v, goal, final) ==
  Candidate([p \in Found(pl.world, pl.body[v].pose, goal) |-> FirstViolation(pl, v, p, 1)], final)

-----------------------------------------------------------------------------
(* Decisions.  Their numbers are compared with those for the same vehicle   *)
(* only, so the one counter of the code is a counter for each vehicle.      *)

Decided(pl, v, st, reason, blockers) ==
  LET b == pl.body[v]
  IN  [pl EXCEPT
        !.body[v].last = [st |-> st, reason |-> reason, blockers |-> blockers],
        !.body[v].next = @ + 1,
        !.out = Append(@, [vehicle |-> v, st |-> st, session |-> b.session, gen |-> b.gen,
                           id |-> b.next, route |-> NoPlan, lim |-> 0, reason |-> reason])]

\* A GO carries the number of the plan, the reservation and the limit.
EmitGo(pl, v) ==
  LET b == pl.body[v]
      p == [Decided(pl, v, "Go", "None", {}) EXCEPT !.body[v].plan.id = b.next]
  IN  [p EXCEPT !.out[Len(p.out)].route = b.plan.route, !.out[Len(p.out)].lim = b.plan.lim]

\* The same Hold is not said twice.
EmitHold(pl, v, reason, blockers) ==
  LET said == [st |-> "Hold", reason |-> reason, blockers |-> blockers]
      p    == [pl EXCEPT !.body[v].blockers = blockers]
  IN  IF pl.body[v].last = said THEN p ELSE Decided(p, v, "Hold", reason, blockers)

Retire(b) == IF HasPlan(b) THEN [b EXCEPT !.at = "Retiring"] ELSE b

\* The permission ends, the reservation stays until the stop is certified for this brake.
EmitBrake(pl, v, reason, blockers) ==
  LET b == pl.body[v]
  IN  Decided(Put(pl, v, [Retire(b) EXCEPT !.cert = "Awaiting", !.brake = b.next]),
              v, "Brake", reason, blockers)

\* A refusal retires the reservation too, and leaves the certificate as it is.
EmitReject(pl, v, reason, blockers) ==
  Decided(Put(pl, v, [Retire(pl.body[v]) EXCEPT !.rejected = TRUE]),
          v, "Reject", reason, blockers)

\* A session has one route and two replacements.
InstallPlan(pl, v, cand) ==
  LET b == pl.body[v]
  IN  IF b.grants >= 3 THEN EmitReject(pl, v, "NoRoute", {})
      ELSE EmitGo(
             Put(pl, v,
                 [b EXCEPT !.at = "AwaitGo", !.grants = @ + 1, !.blockers = {}, !.noRoute = FALSE,
                           !.plan = [route |-> cand.route, lim |-> cand.lim, id |-> b.next,
                                     cursor |-> 1, session |-> b.session, gen |-> b.gen]]), v)

-----------------------------------------------------------------------------
(* Synchronisation with what the vehicles say.                              *)

\* A body reaches a corridor that is granted and not yet crossed.
InGrantedCorridor(pl, v) ==
  \E o \in Vehicle : Granted(pl.body[o]) /\ pl.body[v].pose \in Reserved(pl.body[o].plan)

\* Mutant of Moved: whoever drives has been granted a free way, so nobody is checked again.
MovedUnnoticed(pl, v, f, b) ==
  IF (f.available \/ ~b.known) /\ ~Granted(b) /\ f.pose # b.proof
  THEN Put(pl, v, [b EXCEPT !.pose = f.pose, !.proof = f.pose])
  ELSE Put(pl, v, IF f.available \/ ~b.known THEN [b EXCEPT !.pose = f.pose] ELSE b)

\* The pose a body was last checked at is not the one it reports: whoever has been
\* granted a way through it is checked again.
Moved(pl, v, f, b) ==
  IF (f.available \/ ~b.known) /\ ~Granted(b) /\ f.pose # b.proof
  THEN LET c == Put(pl, v, [b EXCEPT !.pose = f.pose, !.proof = f.pose])
           hit == InGrantedCorridor(c, v)
       IN  [c EXCEPT !.changed = @ \/ hit, !.dirty = @ \/ hit]
  ELSE Put(pl, v, IF f.available \/ ~b.known THEN [b EXCEPT !.pose = f.pose] ELSE b)

\* A new request is answered with a brake of its own.
NewRequest(pl, v, f) ==
  LET b == [pl.body[v] EXCEPT !.session = f.session, !.gen = f.gen, !.target = f.target,
                              !.rejected = FALSE, !.occupied = FALSE, !.noRoute = FALSE]
  IN  EmitBrake([Put(pl, v, b) EXCEPT !.dirty = TRUE], v, "Replan", {})

\* A vehicle that holds a route and does not take part in anything, or is not to be seen.
Deserted(pl, v, f) ==
  IF Granted(pl.body[v]) /\ (~f.available \/ ~Participates(pl.body[v]))
  THEN [EmitBrake(pl, v, "Replan", {}) EXCEPT !.dirty = TRUE] ELSE pl

\* Mutant of Stopped: any acknowledgement with a certificate retires the reservation.
StoppedByAny(pl, v, f, new) ==
  ~new /\ f.available /\ AwaitsStop(pl.body[v]) /\ f.cert

\* The vehicle certifies its stop for the very brake that is awaited.
Stopped(pl, v, f, new) ==
  ~new /\ f.available /\ AwaitsStop(pl.body[v]) /\ f.cert /\ f.ack = pl.body[v].brake

\* The only place where a reservation is given up.
Certified(pl, v, f) ==
  LET b == pl.body[v]
      r == Put(pl, v, [b EXCEPT !.at = "Unreserved", !.plan = NoPlan, !.cert = "Certified",
                                !.target = f.target, !.last = NewBody.last,
                                !.grants = IF b.budget # f.session THEN 0 ELSE @,
                                !.budget = f.session])
  IN  [(IF Participates(b) THEN r ELSE EmitHold(r, v, "None", {})) EXCEPT !.dirty = TRUE]

\* The vehicle follows the GO it was last sent.
Received(pl, v, f) ==
  LET b == pl.body[v]
  IN  IF /\ Granted(b) /\ ~f.cert /\ f.ack = b.plan.id
         /\ b.plan.session = f.session /\ b.plan.gen = f.gen
      THEN Put(pl, v, [b EXCEPT !.at = "GoReceived"]) ELSE pl

\* What is known of a vehicle whatever else its word means.
Noted(pl, v, f) ==
  [Moved(pl, v, f, pl.body[v]) EXCEPT
     !.body[v].known = TRUE, !.body[v].phase = f.phase, !.body[v].available = f.available,
     !.body[v].uncontrolled = f.moving \/ (f.phase = "Moving" /\ ~HasPlan(pl.body[v]))]

\* It may be the first word of a request, or of a vehicle.
Renewed(pl, v, f) ==
  LET b   == pl.body[v]
      new == f.gen > b.gen
      s   == Noted(pl, v, f)
  IN  CASE new -> NewRequest(s, v, f)
        [] ~new /\ ~b.known -> [s EXCEPT !.body[v].session = f.session,
                                         !.body[v].target = f.target]
        [] OTHER -> s

\* It may be the end of a reservation.
Relieved(pl, v, f, new) == IF Stopped(pl, v, f, new) THEN Certified(pl, v, f) ELSE pl

\* What one vehicle says, unless it is older than what is known.
Sync(pl, v, f) ==
  LET b   == pl.body[v]
      old == b.known /\ (f.gen < b.gen \/ (f.gen = b.gen /\ f.session # b.session))
      n   == Renewed(pl, v, f)
  IN  CASE old -> pl
        [] ~old /\ n.body[v].gen = 0 -> n
        [] OTHER -> Received(Relieved(Deserted(n, v, f), v, f, f.gen > b.gen), v, f)

-----------------------------------------------------------------------------
(* Movers.                                                                  *)

\* What lies behind a vehicle that follows its route is given back.
Advance(pl, v) ==
  LET b  == pl.body[v]
      at == {i \in b.plan.cursor..Len(b.plan.route.path) : b.plan.route.path[i] = b.pose}
  IN  IF b.at = "GoReceived" /\ at # {}
      THEN Put(pl, v, [b EXCEPT !.plan.cursor = CHOOSE i \in at : TRUE]) ELSE pl

\* A route whose rest has been checked: it is revoked if it is blocked for good, and extended
\* to the next conflict otherwise.
Extended(pl, v, viol) ==
  LET b    == pl.body[v]
      next == IF viol.at = 0 THEN Unlimited ELSE Greater(b.plan.lim, viol.at - 1)
  IN  IF viol.hard /\ (b.phase = "Waiting" \/ pl.changed)
      THEN [EmitBrake(pl, v, IF viol.world THEN "SceneChanged" ELSE "Replan", viol.blockers)
              EXCEPT !.dirty = TRUE]
      ELSE IF viol.hard \/ b.plan.lim >= Len(b.plan.route.path) \/ b.at # "GoReceived" THEN pl
      ELSE IF next > b.plan.lim
           THEN EmitGo(Put(pl, v, [b EXCEPT !.plan.lim = next, !.at = "AwaitGo"]), v)
      ELSE Put(pl, v, [b EXCEPT !.blockers = viol.blockers])

\* The rest of a route is checked again while it is open or the world has changed.
Extend(pl, v) ==
  LET b == pl.body[v]
  IN  IF Granted(b) /\ (b.plan.lim < Len(b.plan.route.path) \/ pl.changed)
      THEN Extended(pl, v, FirstViolation(pl, v, b.plan.route.path, b.plan.cursor)) ELSE pl

\* Who waits with a route is refused.
RefuseWaiting(pl) ==
  LET waits == {v \in Vehicle : Granted(pl.body[v]) /\ pl.body[v].phase = "Waiting"}
      refuse(p, v) == EmitReject(p, v, "Stalled", p.body[v].blockers)
  IN  InOrder(refuse, pl, waits)

AnyPlan(pl) == \E v \in Vehicle : HasPlan(pl.body[v])

\* Nobody has advanced for the time of a stall.
Stall(pl, late) ==
  IF late /\ AnyPlan(pl) THEN [RefuseWaiting(pl) EXCEPT !.dirty = TRUE] ELSE pl

Advanced(pl) == InOrder(Advance, pl, Vehicle)

\* Somebody has come further on its route since it was last looked at.
Progressed(pl) == Advanced(pl) # pl

Verified(pl) == [InOrder(Extend, pl, Vehicle) EXCEPT !.changed = FALSE]

UpdateMovers(pl, now) ==
  IF now.extend THEN Stall(Verified(Advanced(pl)), now.stall /\ ~Progressed(pl))
  ELSE Advanced(pl)

-----------------------------------------------------------------------------
(* Admission.                                                               *)

Overlap(pl, v, w) == pl.body[v].target = pl.body[w].target

\* Who takes part in nothing and sits on a vehicle's target.
Sitting(pl, v) ==
  {o \in Others(pl, v) : ~Participates(pl.body[o]) /\ pl.body[o].pose = pl.body[v].target}

\* A target in the world is refused at once, one that is sat on after a while.
CheckSession(pl, v, now) ==
  LET b       == pl.body[v]
      sitting == Sitting(pl, v)
      begun   == [pl EXCEPT !.body[v].occupied = TRUE]
  IN  CASE b.target \in pl.world -> EmitReject(pl, v, "GoalOccupied", {})
        [] b.target \notin pl.world /\ sitting = {} -> [pl EXCEPT !.body[v].occupied = FALSE]
        [] b.target \notin pl.world /\ sitting # {} ->
             IF b.occupied /\ now.settled THEN EmitReject(pl, v, "GoalOccupied", sitting)
             ELSE EmitHold(begun, v, "WaitingForPeer", sitting)

\* Two targets in one place: neither can be right, so both are refused.
Asking(pl)     == {v \in Vehicle : Participates(pl.body[v]) /\ ~pl.body[v].rejected}
Clashes(pl, v) == {w \in Asking(pl) \ {v} : Overlap(pl, v, w)}
Clashing(pl)   == {v \in Asking(pl) : Clashes(pl, v) # {} /\ ~HasPlan(pl.body[v])}
RefuseOverlaps(pl) ==
  LET refuse(p, v) == EmitReject(p, v, "GoalOccupied", Clashes(pl, v))
  IN  InOrder(refuse, pl, Clashing(pl))

\* The way a vehicle would take if it were alone.
StaticRoute(pl, v) ==
  LET found == Found(pl.world, pl.body[v].pose, pl.body[v].target)
  IN  IF found = {} THEN {pl.body[v].pose, pl.body[v].target} ELSE Cells(Shortest(found))

\* The vehicles that should go first: their way passes this one's target, or this
\* one's way passes where they start and theirs does not pass where this one starts.
Deferrers(pl, v, waiting) ==
  {w \in waiting \ {v} :
     \/ pl.body[v].target \in StaticRoute(pl, w)
     \/ /\ pl.body[w].pose \in StaticRoute(pl, v)
        /\ pl.body[v].pose \notin StaticRoute(pl, w)}

\* The pass so far, and the planner after an attempt to install a route.
Taken(a, v, pl) ==
  [a EXCEPT !.pl = pl, !.granted = @ + (IF HasPlan(pl.body[v]) THEN 1 ELSE 0)]

\* A vehicle with its candidate.  `held' are those that were tried and could not be planned.
Tried(a, v, wary, cand) ==
  IF ~cand.ok \/ (wary /\ cand.lim < Lesser(Len(cand.route.path), CycleReach))
  THEN [a EXCEPT !.held = @ \cup {v},
                 !.why[v] = [failed |-> cand.failed, blockers |-> cand.blockers]]
  ELSE IF Len(cand.route.path) > Patience
       THEN [a EXCEPT !.pl = EmitReject(@, v, "TooSlow", {})]
  ELSE Taken(a, v, InstallPlan(a.pl, v, cand))

\* One vehicle is tried.
Try(a, v, wary) == Tried(a, v, wary, PlanRoute(a.pl, v, a.pl.body[v].target, TRUE))

Busy(a) == a.granted > 0 \/ AnyMover(a.pl)

\* First those that defer to nobody.
FirstPass(pl, waiting, by) ==
  LET begin == [pl |-> pl, granted |-> 0, held |-> {},
                why |-> [v \in waiting |-> [failed |-> FALSE, blockers |-> {}]]]
      first(a, v) ==
        IF by[v] # {} THEN [a EXCEPT !.pl = EmitHold(@, v, "Precedence", by[v])]
                      ELSE Try(a, v, FALSE)
  IN  InOrder(first, begin, waiting)

\* Then, if nobody moves, everybody, and otherwise those in a cycle of deferrals.
SecondPass(a, waiting, inCycle) ==
  LET second(b, v) ==
        IF HasPlan(b.pl.body[v]) \/ b.pl.body[v].rejected \/ (Busy(b) /\ v \notin inCycle)
        THEN b ELSE Try(b, v, Busy(b))
  IN  IF Busy(a) /\ inCycle = {} THEN a ELSE InOrder(second, a, waiting)

Passes(pl, waiting) ==
  LET by      == [v \in waiting |-> Deferrers(pl, v, waiting)]
      inCycle == {v \in waiting : by[v] # {} /\ \A w \in by[v] : by[w] # {}}
  IN  SecondPass(FirstPass(pl, waiting, by), waiting, inCycle)

\* What one that could not be planned is told.
Explain(pl, v, why, now) ==
  LET p == [pl EXCEPT !.body[v].noRoute = why.failed]
  IN  CASE ~why.failed -> EmitHold(p, v, "WaitingForPeer", why.blockers)
        [] why.failed /\ pl.body[v].noRoute /\ now.lasting -> EmitReject(p, v, "NoRoute", {})
        [] OTHER -> EmitHold(p, v, "NoRoute", {})

Told(a, now) ==
  LET tell(p, v) ==
        IF HasPlan(p.body[v]) \/ p.body[v].rejected THEN p ELSE Explain(p, v, a.why[v], now)
  IN  [pl |-> InOrder(tell, a.pl, a.held), granted |-> a.granted]

\* Those that wait are held because of the ones that are loose.
HoldFor(pl, waiting, loose) ==
  LET wait(p, v) == EmitHold(p, v, "NonParticipantMoving", loose)
  IN  InOrder(wait, pl, waiting)

\* Nobody is admitted while a body moves that takes part in nothing.
AdmitChecked(pl, asked, now) ==
  LET waiting == {v \in asked : ~pl.body[v].rejected}
      loose   == {v \in Vehicle : pl.body[v].uncontrolled}
  IN  CASE waiting = {} -> [pl |-> pl, granted |-> 0]
        [] waiting # {} /\ loose # {} -> [pl |-> HoldFor(pl, waiting, loose), granted |-> 0]
        [] OTHER -> Told(Passes(pl, waiting), now)

\* The sessions of those that ask are checked.
Checked(pl, asked, now) ==
  LET check(p, v) == CheckSession(p, v, now)
  IN  InOrder(check, pl, asked)

\* The planner after an admission, and how many it admitted.
Admit(pl, now) ==
  LET asked == {v \in Vehicle : Waits(pl.body[v])}
  IN  AdmitChecked(RefuseOverlaps(Checked(pl, asked, now)), asked, now)

-----------------------------------------------------------------------------
(* Nobody moves and nobody can be planned.                                  *)

\* Where a vehicle may be put aside: a free cell that is nobody's place or target.
Asides(pl, v) ==
  {c \in Cell \ (pl.world \cup {pl.body[v].pose}) :
     \A o \in Others(pl, v) :
        c # pl.body[o].pose /\ (Participates(pl.body[o]) => c # pl.body[o].target)}

\* How many others could be planned if it stood there.
Score(pl, v, c) ==
  Cardinality({o \in Others(pl, v) :
                 /\ Participates(pl.body[o]) /\ ~pl.body[o].rejected
                 /\ PlanRoute([pl EXCEPT !.body[v].pose = c], o, pl.body[o].target, TRUE).ok})

\* A move aside, how it is planned, and how many it helps.
Move(pl, v, c) ==
  [vehicle |-> v, cand |-> PlanRoute(pl, v, c, FALSE), score |-> Score(pl, v, c)]
Moves(pl) ==
  UNION {{Move(pl, v, c) : c \in Asides(pl, v)} : v \in {w \in Vehicle : Plannable(pl.body[w])}}

\* Mutant of ParkingMoves: a move must help two others.
ParkingMovesForMany(pl) == {m \in Moves(pl) : m.cand.ok /\ m.score > 1}

\* The moves aside that help somebody.
ParkingMoves(pl) == {m \in Moves(pl) : m.cand.ok /\ m.score > 0}

\* Who is stuck, but for those that wait, directly or not, for a stop that is on its way.
Stuck(pl) ==
  LET stuck == {v \in Vehicle : Plannable(pl.body[v])}
      coming(o) == /\ Participates(pl.body[o]) /\ AwaitsStop(pl.body[o])
                   /\ pl.body[o].available /\ ~pl.body[o].uncontrolled
      waitsFor(v, o) == o \in pl.body[v].blockers
      excused == {D \in SUBSET stuck :
                    \A v \in stuck : (\E o \in Vehicle : waitsFor(v, o) /\ (coming(o) \/ o \in D))
                                      => v \in D}
  IN  stuck \ (CHOOSE D \in excused : \A E \in excused : D \subseteq E)

Deadlock(pl) ==
  LET stuck == Stuck(pl)
      refuse(p, v) ==
        EmitReject(p, v, "Deadlock", p.body[v].blockers \cup (stuck \ {v}))
  IN  InOrder(refuse, pl, stuck)

\* Who is held only for a while is not stuck.
Pending(pl) ==
  \E v \in Vehicle :
    LET b == pl.body[v]
    IN  Participates(b) /\ ~HasPlan(b) /\ ~b.rejected /\ (b.occupied \/ b.noRoute)

GiveUp(pl) == IF Pending(pl) THEN pl ELSE Deadlock(pl)

\* One that could not be put aside, for it has no grant left, helps nobody.
Parked(pl, v) == IF HasPlan(pl.body[v]) THEN pl ELSE GiveUp(pl)

\* Of the moves that help most the shortest is made.
Park(pl, moves) ==
  LET better(m, n) == \/ m.score > n.score
                      \/ /\ m.score = n.score
                         /\ Len(m.cand.route.path) <= Len(n.cand.route.path)
      best == CHOOSE m \in moves : \A n \in moves : better(m, n)
  IN  IF moves = {} THEN GiveUp(pl)
      ELSE Parked(InstallPlan(pl, best.vehicle, best.cand), best.vehicle)

\* One vehicle is put aside, or those that are stuck are refused.
Unblock(pl) ==
  IF /\ \E v \in Vehicle : Waits(pl.body[v]) /\ ~pl.body[v].uncontrolled
     /\ ~\E v \in Vehicle : pl.body[v].uncontrolled
  THEN Park(pl, ParkingMoves(pl)) ELSE pl

-----------------------------------------------------------------------------
(* One update.                                                              *)

\* Without the scene or the scope nobody keeps a permission, and nobody gets one.
Suspend(pl) ==
  LET brake(p, v) == EmitBrake(p, v, "SceneUnavailable", {})
  IN  InOrder(brake, pl, {v \in Vehicle : Granted(pl.body[v])})

Unblocked(a) == IF a.granted = 0 /\ ~AnyMover(a.pl) THEN Unblock(a.pl) ELSE a.pl

\* The waiting are looked at when something has changed, and from time to time.
Replan(pl, admit, now) ==
  CASE ~admit \/ (~pl.dirty /\ ~now.periodic) -> pl
    [] admit /\ (pl.dirty \/ now.periodic) /\ ~\E v \in Vehicle : Waits(pl.body[v]) ->
         [pl EXCEPT !.dirty = FALSE]
    [] OTHER -> Unblocked(Admit([pl EXCEPT !.dirty = FALSE], now))

\* The planner before it looks at the waiting.
Permitted(pl, admit)    == IF admit THEN pl ELSE Suspend(pl)
Carried(pl, admit, now) == UpdateMovers(Permitted(pl, admit), now)

PlannerStep(pl, admit, now) == Replan(Carried(pl, admit, now), admit, now)

\* What all the vehicles say.
Synced(pl, facts) ==
  LET said(p, v) == Sync(p, v, facts[v])
  IN  InOrder(said, [pl EXCEPT !.out = <<>>], DOMAIN facts)

\* What all the vehicles say, and the step; `out' is what it decides.
Update(pl, facts, admit, now) == PlannerStep(Synced(pl, facts), admit, now)

\* Whether that step tries to admit anybody, which is what last_replan is the time of.
Looks(pl, facts, admit, now) ==
  LET m == Carried(Synced(pl, facts), admit, now)
  IN  admit /\ (m.dirty \/ now.periodic) /\ \E v \in Vehicle : Waits(m.body[v])

\* Whether the time of a stall begins anew, which is what fleet_progress is kept for: somebody
\* has advanced, nobody could, or the stall is over.
BeginsAnew(pl, facts, admit, now) ==
  LET p == Permitted(Synced(pl, facts), admit)
  IN  Progressed(p) \/ ~AnyPlan(p) \/ (now.extend /\ now.stall)

\* The world is replaced.
SetWorld(pl, world) == [pl EXCEPT !.world = world, !.changed = TRUE, !.dirty = TRUE]

=============================================================================
