---------------------------- MODULE StationNode ----------------------------
(***************************************************************************)
(* The coordinator's node (ugv_reset_safety/reset_coordinator_node.cpp)     *)
(* around the station of ResetStation: one thread that sleeps until a       *)
(* message comes or a deadline does, the subscriptions, and the Scene that  *)
(* the world of the planner is taken from.                                  *)
(*                                                                          *)
(* Time is in ticks, and what the code keeps as a time is kept as an age,   *)
(* no further than any comparison looks.  A deadline of nextafter(t) is one *)
(* tick after t.  The loop is prompt: no time passes while it is due.       *)
(***************************************************************************)
EXTENDS ResetStation

CONSTANTS
  Floor,      \* 0.02 s between two steps that answer messages
  Extension, Replanning,   \* the planner's 0.2 s and 0.5 s
  StallAfter, \* its 10 s without an advance
  Refresh,    \* 0.4 s until a decision is repeated
  TimeToLive, \* 1.0 s, what a decision is good for
  LostAfter,  \* 3.0 s
  SceneLife,  \* 1.0 s, for which a state of the Scene is live
  Discovery, FleetBusy, FleetIdle,   \* 1.0 s, 0.2 s and 1.0 s
  Days,       \* the situations that are looked at
  MaxGen      \* bound on the requests of a vehicle

\* A snapshot defines the obstacles of the Scene: each is fixed at its place or moves in some
\* way.  A state tells where the moving ones are, and whether they move at the moment.
Obstacle  == [id : STRING, dynamic : BOOLEAN, motion : STRING, at : Cell]
Body      == [id : STRING, at : Cell, fast : BOOLEAN]
Snapshots == [epoch : Nat \ {0}, rev : Nat, ours : BOOLEAN, obstacles : Seq(Obstacle)]
States    == [epoch : Nat \ {0}, rev : Nat, ours : BOOLEAN, stamp : {"zero", "older", "newer"},
              bodies : Seq(Body)]

\* A situation: whether a Scene was authored, the snapshots and states it is told by, where
\* the vehicles stand and who asks for which target, which others are there, for how long a
\* vehicle may be silent, how many decisions it gets, and what may be odd.
ASSUME NodeAssumption ==
  /\ {Floor, Extension, Replanning, StallAfter, Refresh, TimeToLive, LostAfter, SceneLife, Discovery,
      FleetBusy, FleetIdle, MaxGen} \subseteq Nat \ {0}
  /\ Floor <= Extension /\ Refresh + Floor < TimeToLive /\ FleetBusy <= FleetIdle
  /\ \A d \in Days : d \in [authored : BOOLEAN,
                    snapshots : SUBSET Snapshots, states : SUBSET States,
                    origin : [Vehicle -> Cell],
                    goal : [Vehicle -> Cell], asks : SUBSET Vehicle, listed : SUBSET Vehicle,
                    silence : Nat, ids : Nat,
                    odd : SUBSET {"end", "unhealthy", "bad", "phase", "master", "drift"}]

VARIABLES
  day,
  st,       \* the station
  scene,    \* what is known of the Scene
  watched,  \* the vehicles whose Sessions are subscribed
  listed,   \* those whose topic the master knows
  event,    \* something has come since the last step
  called,   \* a callback has run since the loop went to sleep
  sleep,    \* until it wakes by itself
  age,      \* of the last step, extension, replanning, progress and state of the Scene
  heard, sent,   \* for each vehicle: since its last Session, since it was last sent anything
  discovery, fleet,  \* until the master is asked, until the fleet is published
  shown     \* who was lost when it last was

vars == <<day, st, scene, watched, listed, event, called, sleep, age, heard, sent,
          discovery, fleet, shown>>

Silence == LostAfter + FleetIdle + 1   \* no longer one is told apart
NoScene == [epoch |-> 0, rev |-> 0, ours |-> TRUE, obstacles |-> <<>>]
Ages    == [step |-> Floor, extension |-> Extension + 2, replan |-> Replanning + 2,
            progress |-> StallAfter + 2, scene |-> SceneLife + 2]

TypeOK ==
  /\ day \in Days
  /\ \A v \in Vehicle : st.entry[v].heard => v \in watched
  /\ scene.snap \in day.snapshots \cup {NoScene}
  /\ \A b \in scene.bodies : b.at \in Cell
  /\ {scene.parsed, scene.valid, scene.live, scene.pushed, event, called} \subseteq BOOLEAN
  /\ (scene.valid => scene.parsed) /\ (scene.live => day.authored)
  /\ st.scene = (scene.live \/ ~day.authored)
  /\ Expected \subseteq watched /\ watched \subseteq Expected \cup listed
  /\ sleep \in 0..Discovery
  /\ \A a \in DOMAIN Ages : age[a] \in 0..Ages[a]
  /\ heard \in [Vehicle -> 0..Silence] /\ sent \in [Vehicle -> 0..TimeToLive]
  /\ discovery \in 0..Discovery /\ fleet \in 0..FleetIdle /\ shown \subseteq watched

-----------------------------------------------------------------------------
(* The Scene.                                                               *)

\* validateObstacle: no name twice, a motion that is supported, and one that is what the flag
\* says.
Described(o, i) ==
  /\ \A j \in DOMAIN o : o[i].id = o[j].id => i = j
  /\ o[i].motion \in {"hold", "constant_twist", "ping_pong", "circle"}
  /\ o[i].dynamic = (o[i].motion # "hold")

\* prepare: a snapshot of another frame, or with an obstacle that is not as it should be, is
\* not read.
Readable(m) == m.ours /\ \A i \in DOMAIN m.obstacles : Described(m.obstacles, i)

Movable(m) == {m.obstacles[i].id : i \in {j \in DOMAIN m.obstacles : m.obstacles[j].dynamic}}

\* liveBodies: a state tells of every obstacle that moves, once, and of no other.
Fits(m, s) ==
  LET b == s.bodies
  IN  /\ \A i, j \in DOMAIN b : b[i].id = b[j].id => i = j
      /\ {b[i].id : i \in DOMAIN b} = Movable(m)

\* The bodies of a state, and with them those that never move.
LiveBodies(m, s) ==
  {s.bodies[i] : i \in DOMAIN s.bodies}
    \cup {[id |-> m.obstacles[i].id, at |-> m.obstacles[i].at, fast |-> FALSE] :
            i \in {j \in DOMAIN m.obstacles : ~m.obstacles[j].dynamic}}

\* projectPart: the place a body takes, and the room around it where it may be by the end of
\* the horizon.
Projected(b, extra) == {b.at} \cup {c \in Cell : extra /\ Near(b.at, c)}

\* projectBodies, without the envelope and with it.
Places(bodies)    == UNION {Projected(b, FALSE) : b \in bodies}
Occupancy(bodies) == UNION {Projected(b, b.fast) : b \in bodies}

NoState(m) ==
  [snap |-> m, parsed |-> Readable(m), valid |-> FALSE, live |-> FALSE, bodies |-> {},
   pushed |-> FALSE]

\* Mutant of Adopted: whether the world was pushed is not forgotten.
AdoptedPushed(m) == [NoState(m) EXCEPT !.live = scene.live, !.pushed = scene.pushed]

\* Another definition replaces all that was known.
Adopted(m) == [NoState(m) EXCEPT !.live = scene.live]

\* A snapshot: an older one and a repeated one are ignored, one that changes a revision is
\* not believed.
Snapshot(m) ==
  LET older == m.epoch = scene.snap.epoch /\ m.rev < scene.snap.rev
      same  == scene.parsed /\ m.epoch = scene.snap.epoch /\ m.rev = scene.snap.rev
  IN  /\ scene' = CASE older \/ (same /\ m = scene.snap) -> scene
                    [] ~older /\ same /\ m # scene.snap -> [scene EXCEPT !.valid = FALSE]
                    [] ~older /\ ~same -> Adopted(m)
      /\ event' = (event \/ (~older /\ ~same))
      /\ age' = IF older \/ same THEN age ELSE [age EXCEPT !.scene = SceneLife + 2]
      /\ called' = TRUE
      /\ UNCHANGED <<day, st, watched, listed, sleep, heard, sent, discovery, fleet, shown>>

\* The state is of the snapshot that was read, and newer than the last.
IsOurs(s) ==
  /\ scene.parsed /\ s.ours /\ s.stamp = "newer"
  /\ s.epoch = scene.snap.epoch /\ s.rev = scene.snap.rev

\* The world is pushed when a body has moved, and the first time.  How fast it moves is not
\* compared.
Displaced(bodies) ==
  LET poses(bs) == {<<b.id, b.at>> : b \in bs}
  IN  poses(bodies) # poses(scene.bodies) \/ ~scene.pushed

\* A state: one that does not fit its definition makes the Scene invalid until the next one.
State(s) ==
  LET bodies == LiveBodies(scene.snap, s)
      taken  == IsOurs(s) /\ Fits(scene.snap, s)
  IN  /\ called' = TRUE
      /\ scene' = CASE taken -> [scene EXCEPT !.valid = TRUE, !.pushed = TRUE, !.bodies = bodies]
                    [] IsOurs(s) /\ ~taken -> [scene EXCEPT !.valid = FALSE]
                    [] OTHER -> scene
      /\ age' = IF taken THEN [age EXCEPT !.scene = 0] ELSE age
      /\ IF taken /\ Displaced(bodies)
         THEN st' = [st EXCEPT !.pl = SetWorld(@, Occupancy(bodies))] /\ event' = TRUE
         ELSE UNCHANGED <<st, event>>
      /\ UNCHANGED <<day, watched, listed, sleep, heard, sent, discovery, fleet, shown>>

-----------------------------------------------------------------------------
(* The vehicles.                                                            *)

When(condition, x) == IF condition THEN {x} ELSE {}

\* A new request of a vehicle, which revokes all it held.
Again(s) == [s EXCEPT !.gen = @ + 1, !.ack = 0, !.cert = FALSE]

\* Its answer to a decision.
Answer(s, d) ==
  [s EXCEPT !.ack = d.id, !.cert = d.st # "Go",
            !.phase = IF @ \notin Taking THEN @ ELSE IF d.st = "Go" THEN "Moving" ELSE "Waiting"]

\* The places next to a vehicle where nobody is.
Beside(v) ==
  {c \in Cell : /\ Near(st.entry[v].s.pose, c)
                /\ \A o \in Vehicle : st.entry[o].s.pose # c}

\* What a vehicle says next: the same again, that it asks, its answer to the last decision,
\* how far it has come on its route, that it has ended, and what is odd: that it is pushed,
\* though it never asks for anything, too.
Utterances(v) ==
  LET e  == st.entry[v].s
      d  == st.entry[v].last
      go == d.st = "Go" /\ e.ack = d.id
      at == CHOOSE i \in DOMAIN d.route.path : d.route.path[i] = e.pose
  IN  IF ~st.entry[v].heard THEN {Quiet(day.origin[v], day.goal[v])}
      ELSE {e}
        \cup When(v \in day.asks /\ e.session = 0,
                  Again([e EXCEPT !.session = @ + 1, !.phase = "Requesting"]))
        \cup When(d.st \in {"Go", "Hold", "Brake"} /\ e.ack # d.id, Answer(e, d))
        \cup When(go /\ at < Lesser(d.lim, Len(d.route.path)),
                  [e EXCEPT !.pose = d.route.path[at + 1]])
        \cup When("end" \in day.odd /\ go /\ e.gen < MaxGen, Again([e EXCEPT !.phase = "Done"]))
        \cup When("unhealthy" \in day.odd, [e EXCEPT !.healthy = ~@])
        \cup When("bad" \in day.odd, [e EXCEPT !.valid = ~@])
        \cup When("bad" \in day.odd, [e EXCEPT !.valid = ~@, !.placed = ~@])
        \cup When("phase" \in day.odd, [e EXCEPT !.phase = "Unknown"])
        \cup (IF "drift" \in day.odd /\ v \notin day.asks
              THEN {[e EXCEPT !.pose = c] : c \in Beside(v)} ELSE {})

\* toSession: a phase that is none of the known ones is read as Idle.
ToSession(m) == [m EXCEPT !.phase = IF @ = "Unknown" THEN "Idle" ELSE @]

\* A Session is given to the station.
Session(v, m) ==
  /\ v \in watched /\ m \in Utterances(v)
  /\ st' = OnSession(st, v, ToSession(m))
  /\ heard' = [heard EXCEPT ![v] = 0]
  /\ sent' = IF st'.entry[v].last = NoDecisionYet THEN [sent EXCEPT ![v] = TimeToLive] ELSE sent
  /\ event' = TRUE /\ called' = TRUE
  /\ UNCHANGED <<day, scene, watched, listed, sleep, age, discovery, fleet, shown>>

\* A vehicle is there.
List(v) ==
  /\ v \in day.listed /\ v \notin listed
  /\ listed' = listed \cup {v}
  /\ UNCHANGED <<day, st, scene, watched, event, called, sleep, age, heard, sent, discovery,
                 fleet, shown>>

-----------------------------------------------------------------------------
(* The deadlines, in ticks from now; a deadline that has passed is at 0.    *)

Never == Discovery
Due(is) == LET i == {Never} \cup is IN CHOOSE n \in i : \A m \in i : n <= m
Until(period, past) == IF past > period THEN 0 ELSE period - past

Lost == {v \in Vehicle : st.entry[v].heard /\ heard[v] > LostAfter}

\* It holds a route and waits nevertheless: it may be refused for a stall.
Hesitates(b) == Granted(b) /\ b.phase = "Waiting"

\* Mutant of PlannerDeadline: who waits is left to the next message.
PlannerDeadlineOfOpen(s, a) ==
  Due({Until(Extension + 1, a.extension) :
         v \in {w \in Vehicle : LET b == s.pl.body[w]
                                IN  Granted(b) /\ b.plan.lim < Len(b.plan.route.path)}})

\* ResetPlanner::nextDeadline.  A stall is looked at when routes are.
PlannerDeadline(s, a) ==
  Due({Until(Extension + 1, a.extension) :
         v \in {w \in Vehicle :
                  LET b == s.pl.body[w]
                  IN  Granted(b) /\ (b.plan.lim < Len(b.plan.route.path) \/ s.pl.changed)}}
      \cup {Greater(Until(Extension + 1, a.extension), Until(StallAfter + 1, a.progress)) :
              v \in {w \in Vehicle : Hesitates(s.pl.body[w])}}
      \cup {Until(Replanning + 1, a.replan) :
              v \in {w \in Vehicle : Admits(s) /\ Waits(s.pl.body[w])}})

\* Mutant of Repeats: only what has not been answered is repeated.
RepeatsPending(s, v, lost) ==
  LET e == s.entry[v]
  IN  e.last.st = "Brake" \/ (e.last.st = "Hold" /\ e.s.ack # e.last.id)

\* Whose last decision has a deadline for its repetition.
Repeats(s, v, lost) ==
  LET e == s.entry[v]
  IN  \/ e.bad \/ Outside(v) \/ TakesPart(s, v, lost)
      \/ e.last.st = "Brake" \/ (e.last.st = "Hold" /\ e.s.ack # e.last.id)

\* Who was last told anything of the request it has.
Addressed(s) == {v \in Vehicle : s.entry[v].s.gen # 0 /\ s.entry[v].last.st # "None"}

\* Mutant of Deadline: the repetitions to a vehicle that is lost keep their deadline.
DeadlineOfLost(s, a, hs, ss) ==
  Due({PlannerDeadline(s, a)}
      \cup {Until(Refresh + 1, ss[v]) : v \in {w \in Addressed(s) : Repeats(s, w, {})}})

\* ResetCoordinator::nextDeadline.  A vehicle that is lost has no deadline any more: the loop
\* wakes when it is lost, but that is no reason for a step.
Deadline(s, a, hs, ss) ==
  LET here == {v \in Vehicle : s.entry[v].heard /\ hs[v] <= LostAfter}
  IN  Due({PlannerDeadline(s, a)}
          \cup {LostAfter + 1 - hs[v] : v \in here}
          \cup {Until(Refresh + 1, ss[v]) :
                  v \in {w \in here \cap Addressed(s) : Repeats(s, w, Vehicle \ here)}})

\* When the next step is due: after a message no sooner than the floor.
StepDue(ev, s, a, hs, ss) == IF ev THEN Until(Floor, a.step) ELSE Deadline(s, a, hs, ss)

\* What the loop sleeps until.
Wake(due, d, f, live, a) ==
  Due({due, d, f} \cup When(live, SceneLife + 1 - a.scene))

-----------------------------------------------------------------------------
(* A turn of the loop.                                                      *)

\* The vehicles that are subscribed after the master was asked, which may not answer.
Answers == {watched \cup listed} \cup When("master" \in day.odd, watched)

Live == scene.parsed /\ scene.valid /\ age.scene <= SceneLife

Now ==
  [extend |-> age.extension >= Extension, periodic |-> age.replan >= Replanning,
   stall |-> age.progress > StallAfter, settled |-> FALSE, lasting |-> FALSE,
   refresh |-> {v \in Vehicle : sent[v] >= Refresh}]

\* The station and the ages after a step, if there is one.
Stepped(s, steps) ==
  LET facts == [v \in Known(s) |-> Facts(s, v, Lost)]
      t     == StationTurn(s, Lost, Now)
  IN  IF steps
      THEN [st |-> [t EXCEPT !.sent = [v \in Vehicle |-> <<>>]],
            age |-> [age EXCEPT !.step = 0, !.extension = IF Now.extend THEN 0 ELSE @,
                                !.replan = IF Looks(s.pl, facts, Admits(s), Now) THEN 0 ELSE @,
                                !.progress =
                                  IF BeginsAnew(s.pl, facts, Admits(s), Now) THEN 0 ELSE @],
            sent |-> [v \in Vehicle |-> IF t.sent[v] # <<>> THEN 0 ELSE sent[v]]]
      ELSE [st |-> s, age |-> age, sent |-> sent]

\* ResetCoordinator::busy
Busily(s) == \E v \in Vehicle : s.entry[v].s.phase \in Taking \/ HasPlan(s.pl.body[v])

\* Mutant of Missing: who is lost is what the planner was last told.
MissingByPlanner == {v \in Vehicle : st.entry[v].heard /\ ~st.pl.body[v].available}

\* ResetCoordinator::fleet: whom it shows as lost.
Missing == Lost

PublishFleet ==
  /\ fleet' = IF Busily(st') THEN FleetBusy ELSE FleetIdle
  /\ shown' = Missing

Turn ==
  /\ called \/ sleep = 0
  /\ called' = FALSE
  /\ IF discovery = 0 THEN discovery' = Discovery /\ watched' \in Answers
                      ELSE UNCHANGED <<discovery, watched>>
  /\ LET live  == day.authored /\ Live
         ev    == event \/ live # scene.live
         s     == [st EXCEPT !.scene = live \/ ~day.authored]
         steps == StepDue(ev, s, age, heard, sent) = 0
         after == Stepped(s, steps)
     IN  /\ scene' = [scene EXCEPT !.live = live]
         /\ event' = (ev /\ ~steps)
         /\ st' = after.st /\ age' = after.age /\ sent' = after.sent
         /\ \A v \in Vehicle : st'.pl.body[v].next <= day.ids + 1
         /\ IF fleet = 0 THEN PublishFleet ELSE UNCHANGED <<fleet, shown>>
         /\ sleep' = Wake(StepDue(event', st', age', heard, sent'), discovery', fleet', live, age')
  /\ UNCHANGED <<day, listed, heard>>

\* The time without progress counts for the plans that there are.
Counted == DOMAIN age \ When(~AnyPlan(st.pl), "progress")

\* Time passes while the loop sleeps.
Tick ==
  /\ ~called /\ sleep > 0
  /\ \A v \in Vehicle : heard[v] < day.silence \/ heard[v] = Silence
  /\ sleep' = sleep - 1
  /\ age' = [a \in DOMAIN age |-> IF a \in Counted THEN Lesser(age[a] + 1, Ages[a]) ELSE age[a]]
  /\ heard' = [v \in Vehicle |-> IF st.entry[v].heard THEN Lesser(heard[v] + 1, Silence) ELSE 0]
  /\ sent' = [v \in Vehicle |-> Lesser(sent[v] + 1, TimeToLive)]
  /\ discovery' = Greater(discovery - 1, 0) /\ fleet' = Greater(fleet - 1, 0)
  /\ UNCHANGED <<day, st, scene, watched, listed, event, called, shown>>

Init ==
  /\ day \in Days
  /\ st = [NewStation EXCEPT !.scene = ~day.authored, !.pl = SetWorld(@, {})]
  /\ scene = NoState(NoScene)
  /\ watched = Expected /\ listed = {}
  /\ event = FALSE /\ called = TRUE /\ sleep = 0 /\ age = Ages
  /\ heard = [v \in Vehicle |-> 0] /\ sent = [v \in Vehicle |-> TimeToLive]
  /\ discovery = 0 /\ fleet = 0 /\ shown = {}

Next ==
  \/ \E m \in day.snapshots : Snapshot(m)
  \/ \E s \in day.states : State(s)
  \/ \E v \in Vehicle : List(v) \/ \E s \in Utterances(v) : Session(v, s)
  \/ Turn \/ Tick

Spec == Init /\ [][Next]_vars

-----------------------------------------------------------------------------
(* Properties.                                                              *)

\* A route is granted only while a state of the Scene is live, and in a world that has every
\* obstacle where that state has shown it and none that is not of its definition, whatever
\* snapshots and states have come since the last step, and in which order
\* (updateSceneAvailability, sceneState, scene; README of ugv_reset_safety, "absent or stale
\* scene data is not an empty scene").
PlansOnLiveScene ==
  [][\A v \in Vehicle :
       (st'.entry[v].last # st.entry[v].last /\ st'.entry[v].last.st = "Go" /\ day.authored)
         => /\ Live /\ Places(scene.bodies) \subseteq st'.pl.world
            /\ st'.pl.world \subseteq Occupancy({[b EXCEPT !.fast = TRUE] : b \in scene.bodies})]_vars

\* While a vehicle that takes part is there, what it was granted is repeated before its time
\* to live is over, even if nobody says anything (run, nextDeadline, step): a lease lapses
\* because a message is lost or the node is not there, and for no other reason.
RepeatedInTime ==
  \A v \in Vehicle \ Lost :
    LET e == st.entry[v]
    IN  (e.heard /\ ~event /\ e.s.gen # 0 /\ e.last.st # "None" /\ e.s.phase \in Taking)
          => sent[v] < TimeToLive

\* What only time can change is looked at in time, even if nobody says anything: a route that
\* is open in part, or whose world has changed, a vehicle that waits for a route while there
\* may be one, and one that waits with a route when nobody has advanced for the time of a
\* stall (nextDeadline of the planner, which the loop sleeps by); and a Scene whose states
\* have stopped is not live for longer than theirs (updateSceneAvailability).
NothingIsOverdue ==
  /\ (scene.live /\ ~called) => age.scene <= SceneLife + 1
  /\ ~event =>
       /\ \A v \in Vehicle :
            LET b == st.pl.body[v]
            IN  (Granted(b) /\ (st.pl.changed \/ b.plan.lim < Len(b.plan.route.path)))
                  => age.extension <= Extension + 1
       /\ (\E v \in Vehicle : Hesitates(st.pl.body[v]))
            => age.extension <= Extension + 1 \/ age.progress <= StallAfter + 1
       /\ (Admits(st) /\ \E v \in Vehicle : Waits(st.pl.body[v])) => age.replan <= Replanning + 1

\* Once a change has been looked at, no part of a route that is granted lies where an obstacle
\* is, or another body, or what is kept for one, wherever bodies that were told nothing have
\* drifted since the route was verified (sync, updateMovers).
RoutesAreClear ==
  ~st.pl.changed =>
    \A v \in Vehicle : Granted(st.pl.body[v]) =>
      LET kept == Reserved(st.pl.body[v].plan)
      IN  /\ kept \cap st.pl.world = {}
          /\ \A o \in Others(st.pl, v) : kept \cap Holding(st.pl.body[o]) = {}

\* A vehicle that is lost is shown as lost within a period of the fleet's publication,
\* though its loss is no reason for a step (run, publishFleet).
LossIsShown == \A v \in Lost : heard[v] > LostAfter + FleetIdle => v \in shown

\* No deadline is left in the past by the turn that it woke: the thread never spins (run;
\* every term of nextDeadline is one that step takes care of).
RestsAfterTurn == [][Turn => sleep' > 0]_vars

-----------------------------------------------------------------------------
(* What the documentation says, and the code does not do.                   *)

\* README of ugv_reset_safety: "Live Scene occupancy includes the configured 2 s ... motion
\* envelope".  A state whose bodies move faster than before and have not moved yet is not
\* pushed.
OccupancyIsPlanned ==
  [][\A v \in Vehicle :
       (st'.entry[v].last # st.entry[v].last /\ st'.entry[v].last.st = "Go" /\ day.authored)
         => Occupancy(scene.bodies) \subseteq st'.pl.world]_vars

=============================================================================
