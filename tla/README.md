# The ground-vehicle controllers and their coordinated Reset in TLA+

This directory is the verification project of the UGV controllers: models of the Reset executor inside its controller, of
the station's planner, coordinator and node, of a fleet that joins them by messages, of the control loop around the
executor, of the edge to ROS, of the reference generator, and of the route search; TLC runs over small instances; and
TLAPS proofs for every value of the constants.

Reading order: `ResetExecutor`, `ResetVehicle`, `ResetVehicleProofs` for one vehicle in a Reset; `ResetPlanner`,
`ResetStation`, `Leases`, `ResetSystem` for the fleet; `StationNode` for the station in time; `Permit`,
`UnicycleControl`, `MecanumControl`, `ControlLoop` for the controllers; `RosEdge`; `ReferenceGenerator`,
`ReferencePipeline`; `Polygons`, `RoutePath`.

## 1. The system

The repository holds the chassis controllers of two kinds of ground robots (unicycle, mecanum), a generator of reference
trajectories, and the *Reset*: a vehicle is driven from wherever it is to its `initialPose`, together with others that do
the same, without their meeting. A vehicle never moves in a Reset without a grant of the station; it is itself the only
publisher of its `cmd_vel`. Each part exists as a library and is hosted twice: as a module of a host that calls `step()`
on ports, or as a ROS node of its own.

| component | state it keeps | operations | status |
|---|---|---|---|
| Reset executor (`reset_executor.h`, `reset_protocol.h`) | the permission transaction `None -> AwaitBrake -> AwaitZero -> AwaitStopped -> AwaitGo -> Executing -> Complete`, the request generation, the acknowledged decision, a running session with its progress and deadlines, up to two Results | `observe`, `onGrant`, `onZeroPublished`, `poll`, `step`, `prepare/install`, `end/finish`, `setSpec`, `makeSession`, `markSessionPublished`, `peek/commitResult` | modelled |
| Route tracker and geometry (`reset_tracker.h`, `reset_route.h`) | where on the route it is, stall and tube timers | `step` | partly: what a tick may report |
| Unicycle controller (`unicycle_ugv_controller.cpp`) | the CONTROL alternative (SelfCheck, Ready, Custom1, Reset), the command and its age, the NMPC ticket, gates, the executor | `observeInputs`, `turn`, entries, exits, ticks, orders, health edges, completions, `nextWake` | modelled |
| NMPC execution (`nmpc_execution.cpp`) | one request with the worker, its answers | `handle`, `postResult`, stop | partly: the protocol |
| Mecanum controller and node | the same shape without a solver | `turn`, ticks, `nextWake`, the node's loop | modelled |
| Unicycle controller module, ROS node | ports and slots of the outputs, the wake time, life cycle | `step`, `start`, `stop`, `configure`; `run`, `updateOnce` | modelled; the node partly |
| ROS edge (`ugv_ros_edge.cpp`) | the connection, the newest samples it has seen, the wall timer, the queue of ROS callbacks | `step`, `start`, `stop`, `configure`, the callbacks | modelled |
| Reference generator (`unicycle_reference_trajectory_runtime.cpp`, `reference_driver.cpp`, module and node) | the request that waits, the trajectory retained, gates, the alarm | `accept`, `reset`, `update`, expiry, `step`, `configure` | modelled |
| Reference cache (`reference_cache.cpp`) | the trajectory tracked | `update`, `active` | partly: what it takes |
| Reset planner (`reset_planner.cpp`) | per vehicle: pose, target, phase, reservation (unreserved, GO sent, GO received, retiring), certificate (none, awaited for a brake, given), replan budget, last decision; the world | `sync`, `updateMovers`, `admit`, `park`, `deadlock`, `step`, `setWorld`, `nextDeadline` | partly: over cells |
| Reset coordinator (`reset_coordinator.cpp`) | the newest Session and the last decision of each vehicle, the scope, the scene | `onSession`, `step`, `setScene`, `setWorld`, `nextDeadline`, `busy`, `fleet` | modelled |
| Coordinator node, scope (`reset_coordinator_node.cpp`, `reset_scope.h`) | subscriptions, the Scene, the times of the last step and publication | `run`, `discover`, `session`, `scene`, `sceneState`, `publishFleet` | modelled |
| Route search, scene projection (`reset_path.cpp`, `scene_projection.h`) | none between calls | `planVisibilityPath`, `prepare`, `liveBodies`, `projectBodies` | partly: without motion envelopes |
| ROS conversions, tooling, integration tests | none that a property is about | | partly or not modelled |

### How they interact

    operator ---orders--> owner( module or node )[ controller[ executor[ tracker ] ] ] --cmd_vel--> edge --twist--> body
    references --cache--->       |   ^        ^          |  ^                                |
                     solver <----+   |        |  Session |  \-------- zero receipt ----------/
                                     | decisions         v
    scene --states--> node[ coordinator[ planner[ route search ] ] ]

- A vehicle publishes a *Session* at 5 Hz and at each change: generation, acknowledged decision, "my stop is certified",
  phase, pose, target. The station answers with *decisions* (BRAKE, GO, HOLD, REJECT), which it repeats every 0.4 s.
- A new request raises the generation. The station answers with a BRAKE of its own number; the vehicle acknowledges it,
  publishes a zero, learns from the edge's receipt that it was published for this very request and decision, waits for
  samples of rest that are younger than the zero, and then certifies its stop. Only that certificate, for that brake,
  lets the station give a reservation up (`sync`). Then comes a GO, with a route and the prefix that is free.
- The prefix is extended while the movers ahead give cells back, and is revoked by a BRAKE when something that will not
  go away is in the way. A revoked, lapsed, failed or finished permission asks again under a new generation, and is
  certified and retired like the first; at the end the station repeats a terminal HOLD until it is echoed.
- The owner calls the controller once for each order or else once for its inputs, publishes what the turn emitted, and
  sleeps until `nextWake`. The edge publishes what was committed and wakes it by a timer of its own when the clock of
  the host stands still. The station's loop sleeps until a message or the earliest of its deadlines.

### What is hard

Decisions and Sessions are lost, repeated and read late, and each end acts on an older picture of the other: a GO and
the BRAKE that revokes it cross; a heartbeat lapses in the turn in which the GO arrives; a receipt or a velocity sample
may stem from before the request; a Session the station decided on is replaced before the decision is passed. What is
reserved is known to the station only, what may still be driven to the vehicle only. Vehicles defer to one another,
some must step aside, and somebody has to decide that nobody can move. Inside a vehicle three threads and two clocks
meet: the owner's steps, the ROS callbacks, the NMPC worker; a simulated clock that stops, and the wall. Loops that
sleep until a deadline must have every deadline among those they sleep for, and none that stays in the past. Every such
place is listed with its line under `hazards` in PROJECT.json, with the properties that would notice it go wrong, or
the reason why none does.

### What makes each component correct

- Executor: a certificate is true while it stands; one generation is one transaction that only goes forward; one route
  is executed under it and its prefix only grows; an acknowledgement tells the stage; every Reset ends, with one Result.
- Controllers: a drive on the wire belongs to the mode, the state and the reference or solve of now; no edge of health is
  lost; a solve that is not answered does not stop tracking; a zero that is owed goes out.
- Edge: connected as configured; nothing of an old connection acts on a new one; what was committed goes out, once.
- Reference generator and cache: the last request rules; a trajectory that ended does not come back; nobody sleeps
  through it.
- Planner and coordinator: what a vehicle may still drive on is reserved for it, however it lost its permission, and for
  nobody else; reservations end; who can be helped is not refused and does not wait for ever.
- Node: routes are granted in the Scene of now; what only time changes is looked at in time, without spinning.
- Fleet: no two bodies in one place; every Reset arrives if nothing goes wrong.
- Route search: the route is the shortest, and "no route" is said only where there is none.

## 2. The modules

| module | lines of the code | what it is |
|---|---|---|
| `ResetExecutor` | `reset_executor.h`, the reports of `reset_tracker.h` | the executor as a record and one operator per method; no variables, so that a vehicle and a fleet both use it |
| `ResetVehicle` | the Reset part of the controller, the module's step, the edge | one vehicle: executor, command, the `cmd_vel` slot, edge, body; the station is any sequence of decisions |
| `Permit`, `PermitSystem` | what the controllers see of `reset_executor.h` | the permission transaction without its contents; `PermitSystem` is the specification that `ResetVehicle` implements |
| `UnicycleControl`, `MecanumControl` | `unicycle_ugv_controller.cpp`, `mecanum_ugv_controller.cpp` | the CONTROL regions as a record and one operator per handler |
| `ControlLoop` | `ugv_unicycle_controller.cpp`, the ROS nodes, `nmpc_execution.cpp` | a controller, its owner and the solver's worker, in time |
| `RosEdge` | `ugv_ros_edge.cpp`, `SeenSamples` of `module_support.h` | the edge, the ROS thread, the wall timer, and what the controller commits |
| `ReferenceGenerator` | `unicycle_reference_trajectory_runtime.cpp`, `reference_driver.cpp` | the generator as a record and one operator per method |
| `ReferencePipeline` | `ugv_unicycle_reference.cpp`, the generator's node, the cache | requests, generator, ports or topics, and the controller that tracks |
| `ResetPlanner` | `reset_planner.cpp` | the planner as a record and one operator per method; `Update` is `update()` |
| `ResetStation` | `reset_coordinator.cpp` | Sessions in, decisions out, around a planner |
| `StationNode` | `reset_coordinator_node.cpp`, `scene_projection.h` | the station's loop in time, its subscriptions, the Scene |
| `ResetSystem` | the module's step, the node's loop | a fleet: executors, bodies on cells, channels, one station |
| `Leases` | what `sync`, `firstViolation` and `onGrant` promise together | the abstract specification that `ResetSystem` implements |
| `Polygons`, `RoutePath` | `reset_path.cpp`, the clearance test of `reset_planner.cpp` | geometry in exact arithmetic; the search, one iteration a step |
| `MC...` | | instances for TLC |
| `...Proofs` | | theorems |

### ResetExecutor and ResetVehicle

`ex` is the executor: `perm` is the variant `Permission` with the fields of its alternatives (`at` names the
alternative, `certified` and `deferred` are `AwaitGo`'s, `route`, `lim`, `cmd` are `Executing`'s), `prog` the variant
`Progress` with "Idle" and "Done" for a run that is not there or has ended, `result` and `previous` the two places for
Results, `ack`, `brake`, `gen`, `last` the numbers of the code. Time is abstracted to `due`, the set of deadlines that
have passed (timeout, target, coordinator, heartbeat), and the samples to `still`, whether all samples since the
zero show rest. A decision is a record without its text; a route is a model value and a limit a small number.

Actions: `Turn` is `observeInputs` followed by `turn()`: it observes, polls and runs the Tick of the alternative the
controller is in (`ResetTurn`, `OtherTurn`), and writes `cmd_vel`. `BeginReset` is `prepareReset` with the `install`
and the entry of the Reset alternative, replacing a running one if there is one; `LeaveReset` its exit (Stop, or the
health module); `DeliverGrant` one grant the module reads; `ReadReceipt` the receipt port; `PublishSession`,
`PublishResult` the two outputs; `EdgePublish` the edge, which publishes the slot and pairs a zero with the newest
Session; `BodyMoves`, `BodyRests` the vehicle under the published twist. The order inside the module's step is not
fixed: the actions interleave freely, which contains the code's order and every other way the ports may be served.
`Elapse`, `ClockBack`, `SpecChange` are the environment; which of them happen is set by `Elapsing` and `Faults`.

### Permit, UnicycleControl, MecanumControl, ControlLoop

The control loop has to be explored with every state the executor can be in, but not with what its decisions say.
`Permit` keeps of the executor what a controller asks of it (is a run active, is a zero required, is one to be published,
is the clock or a counter out of order) and gives for each method the set of permits it may leave. That this loses
nothing is checked: `ResetVehicle` implements `PermitSystem` (`ImplementsPermit`).

The controllers are records: `mode`, the command with its age, the ticket of the solve in flight, the gates, the permit,
and `twist` and `solve` as the outputs of the turn. `Tick`, `Exit`, `Enter`, `Completed`, `Healed`, `Ordered`, `NextWake`
are the handlers; `Destination` is the order of rules in `turn()`. Time is counted in ticks of the solve timeout, and
ages are kept as far as any comparison looks. `ControlLoop!Turn` is one call of `turn()`: observe, tick, destination,
exit, entry, completions. A step of the owner is `Begin` (read the inputs), any number of `Grant` and `Receipt`, then
`Take` for each order or one `Update`, then `PublishModule` or `PublishNode`, which also asks for the next wake. The
worker answers at any moment (`Solved`), or never. The module stops, starts and is configured between steps. `Elapse`
is the clock, which does not pass the time the owner asked to be called. `kind` chooses one of the hosts and controllers
for a behaviour, with the faults that are possible in it.

### RosEdge

Three threads: the controller's steps (`Turn`, `CommitSession`, `CommitCommand`: only what its ports show), the edge's
step (`Begin`, `Publish`, `Certify`, `End`), the ROS thread (`Call`, `Finish`). Each is cut where another may come
between. `Disconnect` is the second half of `disconnect()`, after the ROS thread has been joined; `call` keeps the caller
waiting in between. `wired` is the configuration the connection was made with. `demand` is the wall deadline on the
controller's port, `timer` the one-shot of the steady timer, `armed` what the edge believes it armed. `shown` is the
history of the results topic. Orders come while the controller awaits a brake as well, and the port for receipts may
refuse one. `limit` chooses one of a few small lives, because all the ports at once are too many.

### ReferenceGenerator, ReferencePipeline

A trajectory is the number of its request, its kind, whether its flags are fatal, and the ticks until it has expired.
What a request says (`Contents`) is kept as far as somebody refuses it: counts too large for a payload (`Plain`),
samples out of order, numbers that are not finite, flags, times that do not fit the points (`Evaluable`), and again
the flags in the controller's cache (`Takes`). `Accepted`, `Restarted`, `Advanced`, `Updated`, `NextDeadline` are the
runtime's methods. A step of the module is `Collect`, a `Serve` for each
request in the order of `Before`, and `Update` with the commit and the alarm. The stamps of the three trajectory ports
are kept by their order only. `Read` is the module's side of the ports, `Deliver` the node's topics; `Replace` is a
controller that starts anew and finds what the ports or the latched topics keep.

### ResetPlanner and ResetStation

A pose is the cell a body occupies, a route a path of neighbouring cells, a limit the number of cells granted. Two
bodies conflict when they share a cell; `hold_margin` becomes "the last cell before a conflict". The search is its
contract: `Found` is every path that avoids the world, and the planner takes the shortest it can verify (`RoutePath` is
the search itself). What is kept
of the numerical code is every decision that depends on it: hard and soft violations and their order
(`FirstViolation`: standing bodies and reservations under retirement, then movers), the shortest useful prefix, cursors
that give cells back, precedence, the breaking of cycles of deferrals, parking moves and their score, the replan
budget, deadlock and stall. Intervals that have run out are the `now` of a step. Decision numbers are compared per
vehicle only, so the one counter is a counter per vehicle, which keeps the states of independent vehicles apart.

Not kept: shapes, samples, headings and margins, the escape certificates for bodies that start inside a margin of one
another, `TooSlow` by seconds (a length in cells), and texts.

### StationNode

The loop of the node in ticks. What the code keeps as a time is kept as an age. A `Turn` is one pass: discovery when it
is due, the availability of the Scene, a step when `StepDue`, the fleet's message, and the time until it wakes, which
`Tick` counts down and every callback (`Snapshot`, `State`, `Session`) ends. The times of the code are scaled down with
their order kept: floor 1, refresh 1, extension 1, replanning 2, time to live 3, loss after 4, a stall after 5; a deadline of
`nextafter(t)` is one tick after `t`. The time since somebody advanced (`fleet_progress`) is an age too, which counts
while there is a plan. The vehicles say what an executor may say (`Utterances`), and things it should not
(`odd`). `day` chooses a situation: a Scene replaced under a vehicle, definitions that change or cannot be read, an
unexpected vehicle on the target, Sessions that are not healthy, an invalid target or an invalid body, a body that is
pushed into a route that was granted, a phase nobody knows. The loop is prompt: no time
passes while it is due. So the properties say what the loop's deadlines are worth, not how fast the machine is.

### ResetSystem

A step of a vehicle is one step of its module: the first waiting decision, the receipt, the turn, the Session that is
due. A certified stop is taken for a stop here; that it is one is what `ResetVehicle` shows. Three reductions keep the
product of two executors and a planner within reach of TLC:

- *Eager reading.* A turn reads the decision that waits. A turn that leaves one unread is a turn that could have come
  before the station's step that sent it, since that step changes nothing else the turn sees.
- *Channels.* A channel keeps `Depth` messages in order, and a new message to a full channel loses the oldest; numbers
  of the publications make this what both ends see. A repetition of the message that is still on its way adds
  nothing. With a depth of 1 a late message is therefore an overwritten one; the lives in which the order of messages
  matters have a depth of 2.
- *Intervals.* Every step of the station has its update and refresh intervals run out (`Moments`): they only delay.
  `StationNode` is where they count.

`ahead` is what a body may still enter: the granted prefix while it executes, and what it had then until its stop is
certified. `Drive` moves it one cell. So a body may always go on to the end of the last prefix it was given, whatever
has been revoked since. A life (`Lives`) says where the vehicles start and want to go, the depth of the channels, what
may go wrong and how often: a lost message, a lapsed heartbeat, a Stop, a body out of its tube, a silent vehicle, a
scene that goes and comes, an obstacle put where nobody is.

### Leases

`at`, `may`, `held`: where a vehicle is, what it may still enter, what the station keeps free for it. The station may
rearrange what it keeps as long as nothing is kept twice and nothing is taken from a vehicle that is on it or may enter
it; a vehicle may take up or drop rights within what is kept. No message appears. `ResetSystem` maps `held` to the
planner's reservation (`Holding`) and `may` to `ahead`, and `ImplementsLeases` says that every step of the fleet is a
step of `Leases` or leaves it alone. It fails if the station frees anything a moment too early.

### Polygons, RoutePath

Points have integer coordinates and everything is compared without a division that rounds: quotients by their products,
distances by their squares. The code's epsilons (1e-9 and below) are zero. `Inflated` is the intersection of the moved
support lines; with a clearance it is exact for edges parallel to the axes, and the scenes with a body have only those.
`RoutePath` is `planVisibilityPath`: `Prepare` (validation, inflation, the free corners), one `Settle` for each
iteration of Dijkstra's loop, `Finish`. `Length` and `Tie` are parameters: in the runs a length is its root in
thousandths and the preference for the right is ten of those. A node goes by a name, `Start`, `Goal` or <<obstacle,
vertex>>, and names are in the order in which the code fills its vector, so that ties are decided as there.

## 3. The runs

Every run is in PROJECT.json with its properties; each property has a mutant of the code's definition (named next to the
original, "Mutant of ...") that makes TLC find it violated under the same configuration.

| run | what happens in it | properties | distinct states |
|---|---|---|---|
| `vehicle_motion` | one Reset and two routes under every order of late, repeated and contradictory decisions, lapsing grants, an exhausted publication counter | `AckNamesStage`, `TransactionMovesForward`, `DrivesAsGranted` | 0.22 million |
| `vehicle_evidence` | the certificate under untrusted stamps, a clock that jumps back and a changed description, past the last generation | `TypeOK`, `CertificateStands`, `ImplementsPermit` | 0.18 million |
| `vehicle_sessions` | two Resets, the second perhaps replacing the first, with or without a target, healthy or not | `OneResultEach`, `EveryResetReported` | 0.17 million |
| `system_follow` | two vehicles on a line, the second in the way of the first, one may leave its tube, nobody may advance for the time of a stall | `NoCollision`, `ImplementsLeases` | 0.14 million |
| `system_live` | a Reset past a bystander with one mishap of six kinds; two vehicles that trade places past a spur | `ImplementsLeases`, `EveryPermissionRetires`, `EveryResetArrives` | 43 thousand |
| `control` | five controllers in their hosts, with orders, stale states, solves that hang, a full slot, a failing executor, stops and reconfigurations | `DriveIsCurrent`, `LeavesSelfCheck`, `SolvingResumes`, `OwedZeroGoes` | 0.42 million |
| `reference` | two arrivals in all, requests of any kind and content or resets, into a module or a node that may be stopped, started, configured; a controller that reads late, switches, or is new | `LastRequestRules`, `SleepsInTime`, `CommittedLastWins`, `Ended`, `CacheFollows`, `ServesAgain` | 74 thousand |
| `edge` | commits, steps of the edge and callbacks interleaved, with stops, live configurations, failing connections | `ConnectedAsConfigured`, `CutIsClean`, `ResultsInOrder`, `WakesAreDue`, `BrakeIsProven`, `ResultsGoOut`, `DeadlinesWake` | 0.14 million |
| `node` | eleven situations of the Scene, the vehicles' Sessions, a body that is pushed about, and the ROS master | `RepeatedInTime`, `NothingIsOverdue`, `LossIsShown`, `RoutesAreClear`, `PlansOnLiveScene`, `RestsAfterTurn` | 0.31 million |
| `route` | scenes with no, one, two and four obstacles in every place, winding and overlap, and inputs that are refused | `RouteIsShortest`, `NoneOnlyIfNone`, `SettledIsLeast`, `ClearIsExact` | 8.6 thousand |
| `vehicle_lapse` (violation) | see section 6 | `LapsedGrantAborts` | |
| `system_refused` (violation) | see section 6 | `DeadlockNeverClears` | |

Configurations beside the runs, for a reader who wants to repeat them: `ControlLoop_types`, `Reference_types`,
`RosEdge_types`, `RoutePath_types`, `StationNode_types` check the type invariants, `RoutePath_types` the side on
which a route keeps (`KeepsRight`) besides; `ResetVehicle_target`,
`ControlLoop_still`, `RosEdge_configure`, `RosEdge_proof`, `Reference_first`, `Reference_stamps`, `StationNode_envelope`
show the remarks of section 6.

### What the properties say

*Certificates and transactions.* `CertificateStands` relates the Session that the station has to the truth at the vehicle,
from the moment it was sent until the vehicle answers something else. `AckNamesStage` is the reading rule the planner
relies on. `ImplementsLeases` is the central one for the fleet: the station never frees or gives away a cell a moving body
may still enter, through lost Sessions, revocations, replans, expired vehicles, scene losses. `NoCollision` is what this
is for. `DrivesAsGranted` is its counterpart at the vehicle: the route that was granted, as far as it was granted, and not
after the grant has lapsed, even if that is in the turn in which the GO is taken up. `EveryPermissionRetires` and `EveryResetArrives` are its other half: what is reserved is freed, and what can be
helped is helped.

*The loop around the executor.* `DriveIsCurrent`: a command that drives stems from the mode, the state and the solve of
now. `OwedZeroGoes`: a zero that the transaction waits for is emitted, whatever the outputs do. `SolvingResumes`: a solve
that is never answered does not keep the vehicle from tracking. `LeavesSelfCheck`: an edge of health is not lost when an
order takes the turn.

*The edge.* `BrakeIsProven` is about two threads: the receipt names the request its zero was published for.
`CutIsClean`, `ConnectedAsConfigured` and `WakesAreDue` say that nothing of an old connection reaches the new one,
`ResultsInOrder` and `ResultsGoOut` that no event is lost or repeated across connections.

*Time.* `SleepsInTime`, `RepeatedInTime`, `NothingIsOverdue`, `LossIsShown` catch a deadline that is missing among those
a loop sleeps for; `RestsAfterTurn` one that stays in the past.

*Drift.* `RoutesAreClear`: whatever bodies have been pushed to since a route was verified, and whatever has become of the
world, once a change has been looked at no part of a granted route lies in it; so a body's new place must be noticed
(`Moved`) and every route be looked at before the flag of a change is cleared. In the fleet's model no body moves without
a route; this is why the question is asked of the node.

*Routes.* `RouteIsShortest` compares the search with all walks over points of a grid and corners, judged by a test of
visibility that samples the segment; `NoneOnlyIfNone` with a flood over the grid; `ClearIsExact` the clearance test with
the distances of all pairs of edges. None of the three uses the predicate under test.

### The bounds, and why they are enough

- *Numbers of decisions and generations* (`MaxId`, `MaxGen`). Three generations are the least that has a first, a middle
  and a last; saturation then happens in the run. Three decision numbers make one that is old, one that is current and
  one that is new; the code compares them and does nothing else with them. `MaxLimit = 1` has a prefix that can grow.
- *Routes.* `vehicle_motion` has two that only their names tell apart (`Alike` is a symmetry), so a route could be changed.
- *Deadlines* are elements of a set: any of them may pass at any moment, so no bound on time hides an order. Each run
  lets those pass that its question is about.
- *Cells.* Four cells in a line with two vehicles have "behind", "in the way" and "clear"; the spur is the least graph
  with a place to step aside. `MinPrefix = 2` and `Patience = 4` are small against the code's, and reached.
- *Results and grants.* Two Resets in `vehicle_sessions` owe two Results at once; a third cannot be owed in that run, and
  `OneResultForEach` is what says it of any number of sessions. The runs hardly exercise the third grant of a session,
  after which its Reset ends without a route.
- *Arrivals.* Two in all in `reference`, resets included: the least with an order of arrival against an order of ports.
- *Mishaps.* One of each life's faults at any moment; with two the fleet runs pass no more interesting states but
  explore for hours. `vehicle_motion` has no such bound: its station is an arbitrary sequence of decisions.
- *Ticks.* The code's periods are scaled down so that their order is kept; ages stop at the largest age that is compared.
  `Never` stands for the alarm that is not set, and is one tick later than any deadline there can be.
- *Lives, days, kinds, limits.* Where all faults at once are too many, the first step chooses a situation and the faults
  that are possible in it. Every action happens in some situation, and each pair of faults whose interplay a hazard
  names is in one.
- *Coordinates* are integers in -3..8, lengths are in thousandths, so two ways that differ by less are one.

### Fairness

- `ResetVehicle`: the timeout passes, the module hands its Result out, and a vehicle whose timeout has passed takes a
  turn some time: the loop of the host calls it at least at `nextWake`. It may take turns of any other kind between.
- `ResetSystem`: a vehicle takes the turn that is due and drives while it may, the station listens when there is
  something. Nothing is assumed of the channels: what a message's loss does is healed by repetition.
- `ControlLoop`: a step that has begun ends, and begins if it is due. Strong fairness of `Elapse` and `Receipt`: these
  are possible again and again, not always, because steps lie between.
- `RosEdge`: weak fairness of each thread's steps; strong fairness of `Begin`, since a host's step waits while another
  call is being served, and of `CertifyIf(TRUE)`: the port for receipts may refuse one, and not every one.
- `ReferencePipeline`: steps that are due happen, time goes on, what was sent is read. The host may stop the module for
  ever and its properties except that case.
- `StationNode` needs none: its loop is prompt by construction and its properties are invariants over ages.

## 4. The proofs

| theorem | module | says |
|---|---|---|
| `Invariance`, `TypeCorrect`, `AcknowledgementNamesStage`, `CertificatesStand` | `ResetVehicleProofs` | the inductive invariant of one vehicle, and what follows from it |
| `TransactionsMoveForward`, `VehicleDrivesAsGranted` | `ResetVehicleProofs` | the two action properties |
| `LedgerHolds`, `OneResultForEach` | `ResetVehicleProofs` | every session ends in one Result, and they leave in order |
| `VehicleImplementsPermit` | `ResetVehicleProofs` | the vehicle implements the permit that the control loop is explored with |
| `ControlInvariance`, `ControlTypes` | `ControlProofs` | the inductive invariant of a controller in its host, and the bounds of the loop |
| `ControlLeavesSelfCheck`, `ControlDriveIsCurrent` | `ControlProofs` | the two safety properties of the control loop |
| `ReferenceInvariance`, `ReferenceTypes` | `ReferenceProofs` | the inductive invariant of the reference pipeline |
| `ReferenceSleepsInTime`, `ReferenceEnded` | `ReferenceProofs` | the alarm, and that no trajectory comes back |
| `ReferenceNewestRules`, `ReferenceOnlyDefaultDisplaces` | `ReferenceProofs` | which request rules, without a default request and with one |
| `ReferenceCommittedLastWins` | `ReferenceProofs` | what a controller tracks, while the clock runs |
| `NodeInvariance`, `NodeTypes` | `StationNodeProofs` | the inductive invariant of the station's loop in time, and its types, the planner's and the station's among them |
| `NodeRepeatsInTime`, `NodeIsNeverLate`, `NodeShowsLoss` | `StationNodeProofs` | every deadline is among those the loop sleeps for |
| `NodeNeverSpins` | `StationNodeProofs` | no deadline is left in the past |
| `NodePlansOnLiveScene` | `StationNodeProofs` | routes are granted only while the Scene is live, in the world it has shown |
| `FleetInvariance`, `FleetNeverCollides` | `ResetSystemProofs` | the inductive invariant of the fleet, and that no two bodies are in one cell |
| `FleetImplementsLeases` | `ResetSystemProofs` | the fleet implements the leases, step by step |
| `LeasesSound`, `LeasesExclude`, `FleetExcludes` | `ResetSystemProofs` | what leases are good for, and that the fleet has it from them |
| `EdgeConnectedAsConfigured`, `EdgeCutIsClean`, `EdgeResultsInOrder`, `EdgeWakesAreDue` | `RosEdgeProofs` | the four safety properties of the edge |
| `RouteTypeOK`, `RouteSettledIsLeast` | `RoutePathProofs` | the search's types and Dijkstra's invariant |
| `RouteSearchIsLeast` | `RoutePathProofs` | the route that is found costs no more than any other way over the nodes, and none is reported only where no way leads to the goal |

They hold for all values of the constants under the named assumptions of the modules: generations are at least three,
routes that end at the target are routes, the edge has a configuration and capacities are naturals, lengths between
points are naturals, the periods and timeouts of the control loop, of the pipeline and of the node are positive, `Never`
is later than every deadline of the generator, cells are finitely many and the fleet is a finite sequence with each vehicle once, as the coordinator's map has
it. The fleet's theorems assume besides that no two bodies begin in one cell (`OriginsAssumption`) and that the
station's scope is the fleet (`ScopeAssumption`): of a body it was not told to expect it can promise nothing. Of the
node's intervals two relations are assumed, which the code's values have: a repetition is due before the time to live is
over (0.4 s against 1 s), and the fleet's message comes no more seldom while there is a Reset (0.2 s) than otherwise
(1 s).

*One vehicle.* `Inv` is four parts. `TypeOK` alone is not inductive for the bound of the generation; `Acknowledged` ties the
alternative of the permission to the acknowledged number; `RestInv` says that while a permission is certified or waits
for its evidence the command, the slot and what the edge published are the zero of this request, and that samples counted
as rest were taken after it; `SaidInv` says that no Session on its way is ahead of the executor. `RestInv` is why
`CertificateStands` is not inductive by itself: between the zero in the slot and the certificate lie the edge's step,
the receipt and the body's stopping, and each has to hand on what the next relies on. There is
for each method a lemma of what it keeps; the theorem goes through the actions and, in each, the parts it disturbs.

*What it promises.* `Ledger` is an account: the Results that left, the one or two that wait in the executor, and the run
in progress add up to the sessions that began, in their order. `OneResultEach` is its first column; without the other
two a Result could be the second one of its session, and replacing a running Reset shows why both places are needed. The
refinement needs `Inv` of the vehicle: each of the executor's methods is matched with the permit's (`PermitOf`), and
that the permit may leave what the executor leaves follows from the executor's types and from `Acknowledged`. So
what is shown of `ControlLoop`, where the executor is a permit, is shown of the executor itself.

`VehicleDrivesAsGranted` rests on `Inv` and on `Ledger`, which says that who executes is in a run: a turn that ends in
`Executing` with a lapsed grant looked at the grant before the route, or followed none, and put the zero in the slot.

*The control loop.* `LeavesSelfCheck` is inductive together with the edge of health (`Found`). `DriveIsCurrent` is far from
it. The deadline the owner sleeps by was computed by an earlier step from the gates, ages and mode of then, and
since then the clock has passed, receipts have come and the worker has answered. `Called` says what
that deadline is still worth: no later than the gate of the twist (or, for a mecanum vehicle that tracks, than one
period), and before the estimate is too old. `Used` says that a turn in Reset closes the gate it went through, so that
no step of the owner ends with a gate that is open and a command that waits; `Owned` and `Tracking` that a drive,
wherever it is (in the controller, in the outputs, on the wire, in the answer of a solve), belongs to the mode that
asked for it; `Counted` that at most two solves are on their way, so that there is always a number nobody uses for
the next one and no late answer can be taken for it.

*The reference pipeline.* `TypeOK`, `Named` and `Dated` say which numbers and times there are, `Alarmed` that a sleeping module
has an alarm for no later than the generator's next deadline, `Ordered` and `Ruled` which of the waiting, the retained
and the ended trajectory is newest, and `Newest` what the ports show of that. Two theorems have a condition, because the
properties are false without it, and the pipelines of the run `reference` are chosen by it: `ReferenceNewestRules` is for pipelines that
serve requests in their order and have no default request (`Reference_first.cfg` shows how one is displaced;
`ReferenceOnlyDefaultDisplaces` says that by nothing else), `ReferenceCommittedLastWins` for a clock that runs
(`Reference_stamps.cfg` shows the tie of a clock that stands still).

*The station's node.* `TimeInv` says of each age what the remaining sleep still allows: age and sleep add up to no more than
the age's period, for the extension while a route is open in part or its world has changed, for the replanning while
somebody waits for a route, for the repetition while a vehicle takes part, for the Scene while it is live, and for the fleet's
message towards who has fallen silent. `Tick` moves one from the sleep to the ages and keeps the sum, a callback
ends the sleep, and a turn computes it anew from the ages: if a deadline were missing in `nextDeadline`, its sum would
not be bounded. But for this a turn's effect on planner and station must be known: which of them restarts which age,
and that after a step nobody waits whom an earlier deadline is for. `ResetStationProofs` has for each operator of the
planner and of the station, down to the single decision, what it leaves as it is and what shape it keeps. It assumes
nothing of the Sessions. The first attempt failed on `LossIsShown`: with a fleet's message that is less frequent during a Reset,
the loss of a vehicle would be shown too late, and the assumption on the two intervals names that.

*The world of a route.* `PlansOnLiveScene` relates what a turn tells a vehicle to messages of long before. `SceneInv` carries
it: a Scene that is valid was pushed, and what was pushed is the planner's world: it has the place of every body of the last state
that was believed and nothing beyond the room around those. The second half survives a state that is not pushed because
such a state shows the same places (`Displaced` compares ids and places, and of that only the places matter); it could not be
said of the exact occupancy, and `StationNode_envelope.cfg` shows why. Then the turn: `Bound` follows one
planner's step through all its operators, which leave the world as it is, and, if the station may not admit anybody,
add no GO to what is told. This needs that after `Suspend` nobody holds a grant (`SuspendBound`): the movers' part would
otherwise extend a route without a Scene. `NoNewGo` says the same of what the station makes of it: a repetition is
of the decision that was sent, and its own decisions are holds and rejections.

*The fleet.* `NoCollision` is a consequence of five things that no actor knows together, and `FleetInv` says them. For
each vehicle, of the plan the station has for it (`Suits`):

- `Rights`: the body is in a cell of the part of the route that is reserved, all it may still enter is the rest of this
  part or less, and without a plan it stands where it is kept a place and may enter nothing;
- `Trail`: the pose the planner has, the pose last heard, those of the Sessions on their way and the true one are in
  this order on the route, so that the planner may give back what lies behind the pose that it has;
- `DecisionOK`: every GO for the present request that is in a channel, was the last one sent, or waits in the executor
  for its stop, is a part of the plan (`Within`), and `Obeys` the same of what is executed; an older one is of an
  older request and will not be taken;
- `SessionOK`: a Session that certifies the stop which the planner awaits comes from a vehicle that has nothing ahead and
  is where the Session says: this is what the certificate is for, and the one place where a reservation shrinks to
  a cell;
- `Confirmed`: who has been seen at rest in its request is not driving on an order of before it.

Of all vehicles together (`Reserves`): what is kept for two of them is disjoint (`Apart`), and nobody has a plan before
everybody is known, since nothing can be kept for a vehicle that has not been heard. None of the parts is inductive
without the others. For example, a brake with a plan still held is safe only since the awaited number is new (`Obeys`,
last part), or a certificate for an earlier brake would free the corridor of a moving vehicle.

The proof follows the composition. Turns of the executor (`Follows`), moves of the body and losses are in
`ResetSystemProofs`; what a step of the station does to `Reserves` is in the second half of `ResetStationProofs`, for each
operator of the planner. A planner's step in which nobody's reservation changes is one lemma (`ReservesSame`); those in
which one does are three: a stop that is certified (`SyncReserves`), a route that grows, and a route that is installed;
the last two rest on `FirstViolation`, whose first index is the first cell that somebody else holds. `FleetStep` then
shows for each action both that `FleetInv` is kept and that the step is one of `Leases`.

*Leases.* The invariant is that what a vehicle is on or may enter is held, and that nothing is held twice. With the
refinement, `FleetExcludes` is more than `NoCollision`: where one vehicle may drive, no other one may.

*The edge.* `ConnectedAsConfigured` needs that a call in progress remembers how it will end (`Calls`): the property is
false between `disconnect` and `connect` and must be re-established by the second half of the call. `ResultsInOrder` is
proved from a count (`Counting`): what was shown, what is in the queue and what the port still has make up what was
committed. `EdgeWakesAreDue` rests on `TimerInv`: the timer has one callback at most, in the queue or still to come, and
it is the one of the deadline armed last, since arming and cancelling take the old one out of the queue.

*The route.* `SettledIsLeast` says that no visited node is farther from the start than an unvisited one. It is inductive
with the types because an improvement never goes below the distance of the node that is settled: costs are naturals.
`RouteSearchIsLeast` is the result of the search. `WayInv` carries it: the distance of every node that was reached is what
some way from the start has cost, which `previous` leads back over settled nodes; such a way stays what it is while other
nodes are settled, since what is settled is not improved any more, and a settled node hands its own way on to what it
improves (`SettleWays`). When the search ends, a settled node has offered each of its neighbours its distance and
the cost of the step (the second part of `SettledIsLeast`), so that along any way the distances are at most what the way
has cost until it leaves the settled nodes, and what it leaves to is no nearer than the goal (`WayCosts`, by the first
step at which this could fail). That nothing is left unsettled is `SomeCurrent`: among the nodes that can be reached one is
least in distance, then in name. Whether a way in the plane is ever shorter than the ways over the corners is not needed,
and not proved.

Only model-checked: liveness (`EveryResetReported`, `EveryPermissionRetires`, `EveryResetArrives`, `SolvingResumes`,
`OwedZeroGoes`, `CacheFollows`, `ServesAgain`, `ResultsGoOut`, `DeadlinesWake`, `BrakeIsProven`), which the prover does
not reach; that the corners are enough, so that what is least over the nodes is the shortest in the plane and the plane has no
route where the nodes have none (`RouteIsShortest`, `NoneOnlyIfNone`), which is a fact of real geometry; the side on which
a route keeps (`KeepsRight`); that granted routes are clear of what has drifted (`RoutesAreClear`); and the exactness of the clearance test (`ClearIsExact`).

## 5. What is not modelled

- The tracker's control law, the NMPC problem and its solver, the pose filter, interpolation and frames: numbers whose
  correctness is a matter of tolerances. What they report to the logic around them is modelled as a choice.
- The planner's sampled geometry: sweeps, headings, margins, escape certificates for bodies that start too close, the
  seconds in `TooSlow`. The planner's decisions are kept over cells. The stall interval passes in `node` and `system_follow`,
  where a vehicle that waits with a route is refused; two movers that block one another beyond the shortest prefix do not
  occur, since the graphs that TLC can explore are too small, nor do cycles of three vehicles.
- Motion envelopes of Scene bodies over time; `StationNode` says to which cells a body may come.
- Conversions between messages, payloads and plain structures, apart from the counts that they refuse.
- Parsing of configurations and parameters, logging, reports, launch files, scripts, the integration tests, generated
  solver code.

## 6. Where the text and the code differ

Two differences are checked by runs that expect a violation.

- `vehicle_lapse`: the comment at the head of `reset_executor.h` says that a lapsed grant aborts the session
  (`ABORTED_COORDINATOR_LOST`); the code asks again under a new generation.
- `system_refused`: the planner's comment says that a body out of its session can never certify a stop and so defers
  nobody; `sync` certifies such a stop, and a vehicle is refused as deadlocked one message before the reservation is freed.

Further remarks from modelling, each from the lines named:

- *Late target.* The log at entry says "it ends after 2 s unless a cached initialPose arrives first"
  (`unicycle_ugv_controller.cpp:162-163`); the executor freezes the target when the Reset begins and looks at no later
  one (`reset_executor.h:438`). `ResetVehicle_target.cfg`.
- *Orders in one spin of a ROS node.* `command_turn_` is one flag: after several orders in one spin the update that would
  publish the exit's zero of an earlier one is skipped (`unicycle_ugv_ros_node.cpp:72-76`, `140-142`), although the
  executor's comment has Reset leave "always to Ready with an exact zero command" (`reset_executor.h:16-18`).
  `ControlLoop_still.cfg`.
- *Default request.* A request that waits while the generator goes from SelfCheck to Ready is overwritten by the default
  analytic request (`reference_driver.cpp:31-35`), although "requests are served in the order of their commit stamps"
  (`ugv_modules/README.md:72`). `Reference_first.cfg`.
- *Equal stamps.* Under a clock that stands still, two trajectories committed at one instant are ordered by port, so the
  older may win (`ugv_unicycle_controller.cpp:416`). `Reference_stamps.cfg`. Likewise a request and a reset of one instant
  (`ugv_unicycle_reference.cpp:194-196`).
- *Two readers of flags.* A waypoint request whose flags are fatal is planned and becomes the active trajectory; the
  controller's cache refuses it and goes on with the one before (`unicycle_reference_trajectory_runtime.cpp:509-541`
  against `reference_cache.cpp:92-127`). `CommittedLastWins` and `CacheFollows` except it.
- *A duration of zero.* An analytic request without one is evaluated over 60 s and never expires
  (`unicycle_reference_trajectory_runtime.cpp:406` against `335-357`).
- *Reconfigured generator.* A live `configure` restarts it and wakes nobody (`ugv_unicycle_reference.cpp:105-113`): it is
  in SelfCheck until the alarm of before.
- *Failed plan.* A waypoint request that cannot be planned also ends the trajectory in progress
  (`unicycle_reference_trajectory_runtime.cpp:234-235`).
- *Latched topics.* The three topics of a node's active trajectory have no order among them; a controller that starts
  late may track an old one until the next publication.
- *Failed reconnection.* After a live `configure` whose connection throws, a later good one returns OK and leaves the
  edge without a connection (`ugv_ros_edge.cpp:371-382`). `RosEdge_configure.cfg`.
- *Receipts.* The edge pairs a zero with the newest Session it sees, not with the one of the same step
  (`ugv_ros_edge.cpp:797-822`), and the Session is committed first (`ugv_unicycle_controller.cpp:333-337`): a receipt may
  name a brake that was acknowledged after the zero it stands for was published. The protocol's text is "only to the
  exact accepted Brake ... after actual zero publication" (`reset_protocol.h:165-167`). The certificate is true all the
  same (`CertificateStands`), since the samples of rest have to be younger. `RosEdge_proof.cfg`.
- *Wall timer.* A reconnection while the host's clock is paused drops the armed timer, and nobody demands the deadline
  again before the controller's next step (`ugv_modules/README.md:103-105`).
- *Stopping the module* leaves its zero uncommitted (`ugv_unicycle_controller.cpp:287-301`), and an edge that reconnects
  publishes the newest `cmd_vel` there is.
- *A full deadline slot* is tried again at the next step only (`ugv_unicycle_controller.cpp:729-739`).
- *Scene.* A body that drifts slowly is compared with its last state, not with the world last given to the planner
  (`reset_coordinator_node.cpp:361-381`); a change of speed alone is not given to it at all, although "live Scene
  occupancy includes the configured 2 s ... motion envelope" (`ugv_reset_safety/README.md:88-89`,
  `StationNode_envelope.cfg`); a definition that changes at the same revision makes the Scene unavailable, and the
  next matching state makes it available again (`reset_coordinator_node.cpp:399-401`, `376`); a snapshot and its state
  that arrive before the same step do not revoke a held route by their revision (`ugv_reset_safety/README.md:84-85`);
  the Scene's age counts from receipt; `reject_resend` is configured and read by nobody.
- *Expired vehicles.* The end of a Session's time to live wakes the loop and makes no step of the planner
  (`reset_coordinator.cpp:273-275`, `reset_coordinator_node.cpp:185-207`).
- *Ties between detours.* The preference for the right is added on the first hop only. Detours of equal length that part
  later are decided by the order of the nodes, which depends on the winding, although the comment has them
  "independent of polygon winding" (`reset_path.cpp:226-229`).

## 7. What could come next

In this order: three vehicles in `ResetSystem` under symmetric lives, for cycles of deferral and for movers
that end in a stall because of one another; the escape certificates over cells with a margin; the motion envelopes as sets
of cells that grow; the proof of `RoutesAreClear`.
