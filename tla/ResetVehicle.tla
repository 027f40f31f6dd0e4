----------------------------- MODULE ResetVehicle -----------------------------
(***************************************************************************)
(* One vehicle during Resets: the executor inside the controller's turn,    *)
(* the cmd_vel slot and the edge that publishes it, and the body that       *)
(* follows what is published.  The station is any sequence of decisions:    *)
(* stale, repeated, reordered or lost.                                      *)
(***************************************************************************)
EXTENDS ResetExecutor, Sequences

CONSTANTS
  Sessions,     \* how many Resets the operator may request
  MaxId,        \* decision numbers are 1..MaxId
  Elapsing,     \* the deadlines that may pass, a subset of Deadline
  Faults        \* a subset of {"clock", "health", "trust", "spec", "counter", "target"}

ASSUME SessionsAssumption == Sessions \in Nat
ASSUME MaxIdAssumption    == MaxId \in Nat
ASSUME ElapsingAssumption == Elapsing \subseteq Deadline

VARIABLES
  ex,        \* the executor
  command,   \* the controller's command_, what its CONTROL state last asked for
  slot,      \* the cmd_vel output: its value, and whether the edge has published it
  port,      \* the Session last handed to the edge, but for its phase
  receipt,   \* the edge's zero-publication receipt: request, decision, whether it was read
  wire,      \* the twist last published to the vehicle
  moving,    \* the body moves
  target,    \* the controller has a reset target
  asked,     \* Resets requested so far
  delivered  \* the Results the controller has handed out, in order

vars == <<ex, command, slot, port, receipt, wire, moving, target, asked, delivered>>

NoReceipt == [gen |-> 0, ack |-> 0, fresh |-> FALSE]
NoPort    == [gen |-> 0, ack |-> 0, cert |-> FALSE]

TypeOK ==
  /\ ex \in Executor
  /\ command \in Twist /\ wire \in Twist /\ moving \in BOOLEAN /\ target \in BOOLEAN
  /\ slot \in [cmd : Twist, fresh : BOOLEAN]
  /\ port \in [gen : Generation, ack : Nat, cert : BOOLEAN]
  /\ receipt \in [gen : Generation, ack : Nat, fresh : BOOLEAN]
  /\ asked \in 0..Sessions
  /\ delivered \in Seq(Result)

Init ==
  /\ ex = NewExecutor
  /\ command = "zero" /\ wire = "zero" /\ moving = FALSE
  /\ slot = [cmd |-> "zero", fresh |-> FALSE]
  /\ port = NoPort /\ receipt = NoReceipt
  /\ target \in {TRUE, "target" \notin Faults}
  /\ asked = 0 /\ delivered = <<>>

-----------------------------------------------------------------------------
(* The controller.                                                          *)

\* setCommand / clearCommand: nothing but zero while the executor requires it.
Commanded(e, cmd) == IF RequiresZero(e) THEN "zero" ELSE cmd

Evidence(healthy, trusted) ==
  [healthy |-> healthy, trusted |-> trusted, outerZero |-> command = "zero"]

\* What a turn puts in the cmd_vel output.  Zero is forced while a zero
\* publication is owed; otherwise the 30 Hz output may or may not be due.
Output(e, cmd) ==
  \/ slot' = [cmd |-> Commanded(e, cmd), fresh |-> TRUE]
  \/ ~Is(e, "AwaitZero") /\ slot' = slot

\* The poses a turn may find: none newer, one that shows rest, one that does not.
Seen(e, pose, trusted) == IF pose = "old" THEN e ELSE Observe(e, trusted, pose = "rest")

\* What the tracker can report in this turn; a turn that does not execute asks nothing.
Ticks(p) ==
  IF Is(p, "Executing") THEN {t \in TrackerTick : Possible(p, t)}
  ELSE {[verdict |-> "none", cmd |-> "zero", phase |-> "Waiting"]}

\* A turn with a Reset running: Tick of the Reset alternative.  An ended session
\* leaves for Ready in the same turn, with a zero command.  The code polls when it observes
\* and again in step, on the same measurement: Poll of Poll is Poll.
ResetTurn(healthy, trusted, pose) ==
  /\ ex.run
  /\ LET m == Evidence(healthy, trusted)
         p == Poll(Seen(ex, pose, trusted), m)
     IN  \E t \in Ticks(p) :
           LET e == Step(p, m, t)
           IN  /\ ex' = IF e.prog = "Done" THEN Finish(e) ELSE e
               /\ command' = IF e.prog = "Done" THEN "zero" ELSE Commanded(e, e.perm.cmd)
               /\ Output(ex', command')
  /\ UNCHANGED <<port, receipt, wire, moving, target, asked, delivered>>

\* A turn of any other CONTROL alternative (Ready, Custom1), which may also leave
\* command_ as it is; what it publishes is zero while the executor requires it.
OtherTurn(healthy, trusted, pose) ==
  /\ ~ex.run
  /\ ex' = Poll(Seen(ex, pose, trusted), Evidence(healthy, trusted))
  /\ command' \in {command} \cup {Commanded(ex', cmd) : cmd \in Twist}
  /\ Output(ex', command')
  /\ UNCHANGED <<port, receipt, wire, moving, target, asked, delivered>>

Turn ==
  \E healthy, trusted \in BOOLEAN, pose \in {"old", "rest", "moving"} :
    /\ healthy \/ "health" \in Faults
    /\ trusted \/ "trust" \in Faults
    /\ pose = "rest" => ~moving
    /\ \/ ResetTurn(healthy, trusted, pose)
       \/ OtherTurn(healthy, trusted, pose)

\* The operator requests a Reset, possibly over a running one (whose exit runs first).
BeginReset ==
  /\ asked < Sessions
  /\ CanPrepare(ex)
  /\ ex' = Install(Finish(End(ex, "Stopped")), asked + 1, target)
  /\ asked' = asked + 1
  /\ command' = "zero"
  /\ Output(ex', "zero")
  /\ UNCHANGED <<port, receipt, wire, moving, target, delivered>>

\* Stop, or lost health: the controller ends the session and leaves Reset.
LeaveReset(outcome) ==
  /\ ex.run
  /\ ex' = Finish(End(ex, outcome))
  /\ command' = "zero"
  /\ Output(ex', "zero")
  /\ UNCHANGED <<port, receipt, wire, moving, target, asked, delivered>>

\* The operator's target arrives: the next Reset will have it, a running one keeps
\* what it began with.
TargetArrives ==
  /\ ~target /\ target' = TRUE
  /\ UNCHANGED <<ex, command, slot, port, receipt, wire, moving, asked, delivered>>

\* What a station that may be late, repeat itself or contradict itself, but never
\* invents a request, can have sent: decisions for the current or the last request.
Content ==
  {c \in [st : GrantState, route : Route \cup {NoRoute}, lim : 0..MaxLimit, reason : Reason] :
     /\ c.st = "Go" <=> c.route # NoRoute
     /\ c.st # "Go" => c.lim = 0
     /\ c.st = "Reject" <=> c.reason # "None"}
Requests ==
  {q \in {ex.session, ex.session - 1} \X {ex.gen, ex.gen - 1} :
     q[1] >= 0 /\ q[2] >= 1 /\ (q[2] = ex.gen => q[1] = ex.session)}
Sendable ==
  {[st |-> c.st, session |-> q[1], gen |-> q[2], id |-> id,
    route |-> c.route, lim |-> c.lim, reason |-> c.reason] :
     c \in Content, q \in Requests, id \in 1..MaxId}

\* A grant arrives under a new publication number (kept relative to the last
\* accepted one: an old number is dropped unread).
DeliverGrant ==
  /\ \E d \in Sendable :
       LET e == OnGrant([ex EXCEPT !.seqIn = 0], [seq |-> 1, ok |-> TRUE, d |-> d])
       IN  /\ ex' = [e EXCEPT !.seqIn = 0]
           /\ command' = Commanded(e, command)
  /\ UNCHANGED <<slot, port, receipt, wire, moving, target, asked, delivered>>

\* The controller reads the edge's receipt; a receipt for nothing is ignored.
ReadReceipt ==
  /\ receipt.fresh
  /\ receipt' = [receipt EXCEPT !.fresh = FALSE]
  /\ ex' = IF receipt.gen # 0 /\ receipt.ack # 0 /\ command = "zero"
           THEN OnZeroPublished(ex, receipt.gen, receipt.ack) ELSE ex
  /\ UNCHANGED <<command, slot, port, wire, moving, target, asked, delivered>>

\* The Session message is due when what it says has changed (or every 0.2 s).
Told(e) ==
  [gen |-> SessionOf(e).gen, ack |-> SessionOf(e).ack, cert |-> SessionOf(e).cert]
PublishSession(exhausted) ==
  /\ ~ex.fault /\ (exhausted \/ port # Told(ex))
  /\ exhausted => "counter" \in Faults
  /\ port' = Told(ex)
  /\ ex' = MarkPublished(ex, exhausted)
  /\ UNCHANGED <<command, slot, receipt, wire, moving, target, asked, delivered>>

\* A Result leaves, the older one first.
PublishResult ==
  /\ ResultPending(ex)
  /\ delivered' = Append(delivered, PeekResult(ex))
  /\ ex' = CommitResult(ex)
  /\ UNCHANGED <<command, slot, port, receipt, wire, moving, target, asked>>

-----------------------------------------------------------------------------
(* The edge, the body and the world.                                        *)

\* The edge publishes a new cmd_vel sample; after a zero it writes a receipt
\* for the newest Session it can see.
EdgePublish ==
  /\ slot.fresh
  /\ slot' = [slot EXCEPT !.fresh = FALSE]
  /\ wire' = slot.cmd
  /\ receipt' = IF slot.cmd = "zero" /\ port.gen # 0 /\ port.ack # 0
                THEN [gen |-> port.gen, ack |-> port.ack, fresh |-> TRUE] ELSE receipt
  /\ UNCHANGED <<ex, command, port, moving, target, asked, delivered>>

\* The body moves only under a driving twist; it comes to rest under any.
BodyMoves ==
  /\ wire = "drive" /\ ~moving /\ moving' = TRUE
  /\ UNCHANGED <<ex, command, slot, port, receipt, wire, target, asked, delivered>>
BodyRests ==
  /\ moving /\ moving' = FALSE
  /\ UNCHANGED <<ex, command, slot, port, receipt, wire, target, asked, delivered>>

\* A deadline of the running session passes.
Elapse(dl) ==
  /\ dl \in Elapsing \ ex.due
  /\ Active(ex)
  /\ dl = "target" => ~ex.valid
  /\ dl = "ttl" => Is(ex, "Executing") \/ ex.perm.deferred # NoDecision
  /\ ex' = [ex EXCEPT !.due = @ \cup {dl}]
  /\ UNCHANGED <<command, slot, port, receipt, wire, moving, target, asked, delivered>>

\* The ROS clock jumps back, or the declared vehicle changes.
ClockBack ==
  /\ "clock" \in Faults /\ ~ex.clockBad
  /\ ex' = ClockWentBack(ex)
  /\ UNCHANGED <<command, slot, port, receipt, wire, moving, target, asked, delivered>>
SpecChange ==
  /\ "spec" \in Faults
  /\ ex' = SetSpec(ex)
  /\ UNCHANGED <<command, slot, port, receipt, wire, moving, target, asked, delivered>>

Next ==
  \/ Turn
  \/ BeginReset
  \/ TargetArrives
  \/ \E outcome \in {"Stopped", "AbortedUnhealthy"} : LeaveReset(outcome)
  \/ DeliverGrant
  \/ ReadReceipt
  \/ \E exhausted \in BOOLEAN : PublishSession(exhausted)
  \/ PublishResult
  \/ EdgePublish
  \/ BodyMoves
  \/ BodyRests
  \/ \E dl \in Deadline : Elapse(dl)
  \/ ClockBack
  \/ SpecChange

Spec == Init /\ [][Next]_vars

\* The owner loop keeps turning once the timeout has passed (such a turn is never without
\* effect), the timeout passes on one of the two clocks, and the result queue has room again
\* and again.
LateTurn == "timeout" \in ex.due /\ Turn
FairSpec ==
  /\ Spec
  /\ []<>("timeout" \notin ex.due) \/ []<><<LateTurn>>_vars
  /\ WF_vars(Elapse("timeout")) /\ WF_vars(PublishResult)

-----------------------------------------------------------------------------
(* Properties.                                                              *)

AtRest == ~moving /\ wire = "zero" /\ slot.cmd = "zero" /\ command = "zero"

\* A stop certificate the station may be holding stays true until the vehicle
\* answers something else: as long as the last published Session certifies the
\* request and acknowledgement the executor still has, the body is at rest and
\* nothing on its way to the wheels can move it (reset_executor.h 299-307, 388-410).
CertificateStands ==
  (port.cert /\ port.gen = ex.gen /\ port.ack = ex.ack) => AtRest

\* A generation names one transaction, which only moves forward: whatever revokes
\* the permission (a brake, a lapsed grant, a new Reset, a changed vehicle) asks
\* under a new generation, or stops the executor for good (reset_executor.h 696-706).
TransactionMovesForward ==
  [][(ex'.gen = ex.gen /\ ~ex'.fault)
       => /\ Rank(ex'.perm.at) >= Rank(ex.perm.at)
          /\ ex.perm.at \in {"Executing", "Complete"} => ex'.perm.at = ex.perm.at]_vars

\* What the vehicle executes under one generation is one frozen route, and its
\* prefix only grows, whatever late or repeated GO arrives (reset_executor.h 320-338);
\* and once the grant has lapsed, be it in the very turn in which the vehicle sets out,
\* nothing but a zero goes out (reset_executor.h 402-407, 463-466).
DrivesAsGranted ==
  [][Is(ex', "Executing")
       => /\ Is(ex, "Executing") =>
               ex'.gen = ex.gen /\ ex'.perm.route = ex.perm.route /\ ex'.perm.lim >= ex.perm.lim
          /\ (ex'.valid /\ "ttl" \in ex'.due /\ slot' # slot /\ slot'.fresh)
               => slot'.cmd = "zero"]_vars

\* The acknowledgement names the stage of the transaction, which is all the station
\* learns of it: none, the brake until the route is taken up, then a later decision
\* (reset_executor.h 353-356, 372, 405, 696-699).
AckNamesStage ==
  CASE ex.perm.at \in {"None", "AwaitBrake"} -> ex.ack = 0 /\ ex.brake = 0
    [] ex.perm.at \in {"AwaitZero", "AwaitStopped", "AwaitGo"} -> ex.ack = ex.brake /\ ex.ack > 0
    [] ex.perm.at \in {"Executing", "Complete"} -> ex.ack > ex.brake /\ ex.brake > 0

\* Every Reset that is over has exactly one Result, delivered or still owed, and a
\* running one has none: neither a replacement, a Stop nor a late Reject loses or
\* repeats an outcome (reset_executor.h 268-276, 550-564, 813-831).
Owed(e) == IF e.previous # NoResult THEN <<e.previous, e.result>>
           ELSE IF e.result # NoResult THEN <<e.result>> ELSE <<>>
Outcomes == delivered \o Owed(ex)
OneResultEach ==
  LET over == IF Active(ex) THEN asked - 1 ELSE asked
  IN  /\ Len(Outcomes) = over
      /\ \A i \in DOMAIN Outcomes : Outcomes[i].session = i

\* Every Reset ends and its Result is handed out, if the owner keeps turning and
\* the timeout is armed.
EveryResetReported == \A s \in 1..Sessions : asked >= s ~> Len(delivered) >= s

\* All the controllers see of the executor is the transaction of Permit, whatever the
\* turns, grants, receipts and Resets do to it: motion starts from a stop that was asked
\* for, a zero is owed only for a brake, a Reset that ended leaves a permission to retire
\* (reset_executor.h 255-263).
AtOf(stage) ==
  CASE stage \in {"None", "Complete"} -> "Free"
    [] stage \in {"AwaitBrake", "AwaitStopped", "AwaitGo"} -> "Braking"
    [] stage = "AwaitZero" -> "Owed"
    [] stage = "Executing" -> "Executing"
PermitOf(e) ==
  [at |-> AtOf(e.perm.at), active |-> Active(e), bad |-> e.fault \/ e.clockBad]
Permits == INSTANCE PermitSystem WITH permit <- PermitOf(ex)
ImplementsPermit == Permits!PermitSpec

-----------------------------------------------------------------------------
(* What the comments say, and the code does not do.                          *)

\* reset_executor.h:10-11: "heartbeat lost   a grant lapses ... ABORTED_COORDINATOR_LOST".
LapsedGrantAborts ==
  [][(Is(ex, "Executing") /\ "ttl" \in ex.due /\ ~Is(ex', "Executing") /\ ex'.last = ex.last)
       => ~Active(ex')]_vars

\* unicycle_ugv_controller.cpp:161-163: a Reset entered without a goal "ends after
\* 2 s unless a cached initialPose arrives first".
LateTargetIsTaken ==
  [][(target /\ ex'.prog # ex.prog /\ ex.run)
       => ex'.result.outcome # "RejectedNoTarget" \/ ex'.result = ex.result]_vars

=============================================================================
