----------------------------- MODULE ControlLoop -----------------------------
(***************************************************************************)
(* A controller and the owner that calls it: the unicycle in its module     *)
(* (ugv_unicycle_controller.cpp) or in its ROS node, the mecanum vehicle in  *)
(* its node.  The owner reads the inputs, takes the operator's orders one    *)
(* turn each or else updates once, and publishes; the module can be stopped,*)
(* started and configured again.  The NMPC worker solves beside it.  Time    *)
(* passes between steps, and never past the deadline the owner was given.    *)
(***************************************************************************)
EXTENDS Integers, Sequences, Permit

CONSTANTS
  Kinds,          \* the controllers that are looked at, with their configuration
  SolveTimeout, ResultTimeout, StateTimeout, IdlePeriod

\* What can go wrong: the executor's clock or a counter, a slot of the bus that is full, a
\* horizon that cannot be sampled, a reference that ends.
Faults == {"executor", "slot", "horizon", "reference"}

U == INSTANCE UnicycleControl
M == INSTANCE MecanumControl

\* `orders' bounds the operator's orders in one step of the owner, `configs' the
\* configurations the module is given while it lives.
ASSUME KindsAssumption ==
  Kinds \subseteq [chassis : {"unicycle", "mecanum"}, host : {"module", "node"},
                   strategy : {"NMPC", "FLATNESS"}, auto : BOOLEAN,
                   faults : SUBSET Faults, orders : Nat, configs : Nat]

ASSUME TimesAssumption ==
  /\ SolveTimeout \in Nat \ {0} /\ ResultTimeout \in Nat \ {0}
  /\ StateTimeout \in Nat \ {0} /\ IdlePeriod \in Nat \ {0}

VARIABLES
  kind,     \* which controller this is, and its configuration
  phase,    \* of the owner: "stopped", "idle", or inside a step
  ctl,      \* the controller
  pose,     \* the age of the vehicle state; beyond StateTimeout, or outside the fence, unhealthy
  cached,   \* the NMPC reference cache is valid
  engine,   \* the NMPC execution: "none", "off" or "on"
  job,      \* the solve the worker has
  inbox,    \* completions posted since the last turn
  out,      \* the module's twist that waits for the output, and whether there is one
  wire,     \* the twist last published; a zero is `own' when it answers the owed brake
  orders,   \* the orders taken in the owner's last step
  wake      \* ticks until the deadline the owner was given

vars == <<kind, phase, ctl, pose, cached, engine, job, inbox, out, wire, orders, wake>>

Unicycle == kind.chassis = "unicycle"
Module   == kind.host = "module"
Solving  == Unicycle /\ kind.strategy = "NMPC"

Number   == 0..4
NoSolve  == [seq |-> 0, age |-> 0, own |-> FALSE]
Solve    == [seq : Number, age : U!Age, own : BOOLEAN]
Done     == [seq : Number, age : U!Age, own : BOOLEAN, ok : BOOLEAN]
NoTwist  == [fresh |-> FALSE, twist |-> U!NoCommand]
ZeroTwist == [fresh |-> TRUE, twist |-> U!NoCommand]
Sent(w)   == IF w.drive THEN w ELSE U!NoCommand

TypeOK ==
  /\ \E k \in Kinds : /\ kind.configs \in 0..k.configs
                     /\ kind = [k EXCEPT !.configs = kind.configs, !.strategy = kind.strategy]
  /\ kind.strategy \in {"NMPC", "FLATNESS"}
  /\ phase \in {"stopped", "idle", "open", "ordered", "updated"}
  /\ ctl \in U!Controller(Number)
  /\ pose \in 0..(StateTimeout + 1) /\ cached \in BOOLEAN
  /\ engine \in {"none", "off", "on"}
  /\ job \in Solve /\ inbox \in Seq(Done) /\ Len(inbox) <= U!MaxInbox
  /\ out \in [fresh : BOOLEAN, twist : U!Command] /\ wire \in U!Command
  /\ orders \in 0..kind.orders /\ wake \in 0..(IdlePeriod + StateTimeout + 1)

Init ==
  /\ kind \in Kinds
  /\ phase = (IF Module THEN "stopped" ELSE "idle")
  /\ ctl = U!NewController
  /\ pose = StateTimeout + 1 /\ cached = FALSE
  /\ engine = (IF ~Unicycle \/ kind.strategy # "NMPC" THEN "none"
               ELSE IF Module THEN "off" ELSE "on")
  /\ job = NoSolve /\ inbox = <<>> /\ out = NoTwist /\ wire = U!NoCommand
  /\ orders = 0 /\ wake = 0

-----------------------------------------------------------------------------
(* One turn of the controller.                                              *)

May(p) == p.bad => ctl.permit.bad \/ "executor" \in kind.faults

Healthy == pose <= StateTimeout
Inputs(sample, credit) ==
  [strategy |-> kind.strategy, auto |-> kind.auto, healthy |-> Healthy, cached |-> cached,
   sample |-> sample, credit |-> credit,
   seq |-> CHOOSE n \in Number \ {0} :
             n \notin {ctl.ticket.seq, job.seq} \cup {inbox[i].seq : i \in DOMAIN inbox}]

Ticked(c, in) == IF Unicycle THEN U!Tick(c, in) ELSE M!Tick(c, in)
Leads(c, t, in, order) ==
  IF Unicycle THEN U!Destination(c, t, in, order) ELSE M!Destination(c, t, in, order)
Left(t, p)        == IF Unicycle THEN U!Exit(t, p) ELSE M!Exit(t, p)
Entered(t, to, p) == IF Unicycle THEN U!Enter(t, to, p) ELSE M!Enter(t, to, p)

\* The permits an exit from Reset and an entry into it can leave.
AfterExit(t, to)     == IF t.mode # "Reset" \/ to = "stay" THEN {t.permit}
                        ELSE UNION {Finished(q) : q \in Ended(t.permit)}
AfterEntry(p, to)    == IF to = "Reset" THEN Installed(p) ELSE {p}
AfterStep(mode, p)   == IF mode = "Reset" THEN Stepped(p) ELSE {p}

\* What the turn may sample: a module has no wall cadence, and only tracking samples.
Sampled ==
  IF ctl.mode # "Custom1" \/ Solving THEN {"good"}
  ELSE {"good", "same", "fail"} \cup (IF Module THEN {} ELSE {"wait"})

\* After the turn the outputs of the controller are those this turn emitted.
Turn(order) ==
  \E p \in {q \in Observed(ctl.permit) : May(q)},
     sample \in Sampled, credit \in (IF order = "Reset" THEN BOOLEAN ELSE {TRUE}) :
  \E in \in {Inputs(sample, credit)}, q \in {r \in AfterStep(ctl.mode, p) : May(r)} :
  \E c \in {[ctl EXCEPT !.permit = p, !.twist = "none", !.solve = 0]} :
  \E t \in {Ticked([c EXCEPT !.permit = q], in)} :
  \E to \in {Leads(c, t, in, order)} :
  \E r \in {x \in AfterExit(t, to) : May(x)} :
  \E s \in {x \in AfterEntry(r, to) : May(x)} :
    ctl' = [(IF to # "stay" THEN Entered(Left(t, r), to, s)
             ELSE IF Unicycle THEN U!AllCompleted(t, kind.strategy, inbox) ELSE t)
              EXCEPT !.healthy = Healthy]

-----------------------------------------------------------------------------
(* The worker.                                                              *)

\* A solve asked for in a stay in Custom1 that is over is nobody's.
Own(j) == IF ctl.mode = "Custom1" /\ ctl'.mode # "Custom1" THEN [j EXCEPT !.own = FALSE] ELSE j

Failed(seq) == [seq |-> seq, age |-> 0, own |-> FALSE, ok |-> FALSE]

\* Whether there is a horizon for a request: sampled from the cache, stage by stage.
Horizons == IF "horizon" \in kind.faults THEN BOOLEAN ELSE {TRUE}

\* NmpcExecution::handle, for the solve the turn of c asked for: refused at once when there is
\* no horizon or the worker has a request.  j and b are what the worker and the inbox have.
Asked(c, j, b) ==
  \E horizon \in Horizons :
    IF c.solve = 0 \/ engine # "on" THEN job' = j /\ inbox' = b
    ELSE IF horizon /\ j.seq = 0
    THEN job' = [seq |-> c.solve, age |-> 0, own |-> c.mode = "Custom1"] /\ inbox' = b
    ELSE job' = j /\ inbox' = Append(b, Failed(c.solve))

\* The answer of the worker, computed or not.
Posted(ok) ==
  Append(inbox, IF ok THEN [seq |-> job.seq, age |-> job.age, own |-> job.own, ok |-> TRUE]
                ELSE Failed(job.seq))

\* The worker answers, at any moment of the owner.
Solved ==
  /\ engine = "on" /\ job.seq # 0 /\ Len(inbox) < U!MaxInbox
  /\ \E ok \in BOOLEAN : inbox' = Posted(ok)
  /\ job' = NoSolve
  /\ UNCHANGED <<kind, phase, ctl, pose, cached, engine, out, wire, orders, wake>>

-----------------------------------------------------------------------------
(* A step of the owner: inputs, grants, orders or an update, publication.   *)

\* A state: none that is new or good, one that is fresh, or one outside the fence.
States == {pose, 0, StateTimeout + 1}

\* The reference cache after the new messages: one that is rejected leaves what was there, and
\* what is there may end.
Caches ==
  {cached} \cup (IF ~Solving THEN {} ELSE IF "reference" \in kind.faults THEN BOOLEAN ELSE {TRUE})

\* Whether a finite PVA (mecanum: a velocity) arrives.
Told == IF Solving THEN {FALSE} ELSE BOOLEAN

\* New inputs, then observeInputs.
Begin ==
  /\ phase = "idle" /\ phase' = "open"
  /\ pose' \in States /\ cached' \in Caches
  /\ \E p \in {q \in Observed(ctl.permit) : May(q)}, told \in Told :
       LET c == [ctl EXCEPT !.permit = p]
       IN  ctl' = IF ~told THEN c
                  ELSE IF Unicycle THEN U!SetWorldPva(c) ELSE M!SetWorldReference(c)
  /\ orders' = 0
  /\ UNCHANGED <<kind, engine, job, inbox, out, wire, wake>>

\* A grant; the command is cleared when the executor now requires zero.
Grant ==
  /\ phase = "open" \/ (~Module /\ phase = "ordered")
  /\ \E p \in {q \in Granted(ctl.permit) : May(q)} :
       /\ ctl'  = [ctl EXCEPT !.permit = p,
                              !.command = IF RequiresZero(p) THEN U!NoCommand ELSE @]
       /\ wire' = IF NeedsZero(p) /\ ~NeedsZero(ctl.permit) THEN Sent(wire) ELSE wire
  /\ UNCHANGED <<kind, phase, pose, cached, engine, job, inbox, out, orders, wake>>

\* The receipt of the edge for a zero it published, under the generation and the brake of the
\* session it had (the node needs none).
Receipt ==
  /\ Module /\ phase = "open" /\ wire.own /\ ~wire.drive /\ ~ctl.command.drive
  /\ NeedsZero(ctl.permit)
  /\ ctl' = [ctl EXCEPT !.permit = Zeroed(@)] /\ wire' = Sent(wire)
  /\ UNCHANGED <<kind, phase, pose, cached, engine, job, inbox, out, orders, wake>>

\* dispatchOutputs: what the turn emitted replaces what was waiting.
Waiting(c) ==
  CASE c.twist = "none"    -> out
    [] c.twist = "zero"    -> ZeroTwist
    [] c.twist = "command" -> [fresh |-> TRUE, twist |-> U!CmdVel(c)]

\* The module dispatches the outputs of every turn at once, a node those of the last
\* turn of its spin.
AfterTurn ==
  IF Module THEN Asked(ctl', Own(job), <<>>) /\ out' = Waiting(ctl')
  ELSE job' = Own(job) /\ inbox' = <<>> /\ UNCHANGED out

Take(order) ==
  /\ phase \in {"open", "ordered"} /\ phase' = "ordered"
  /\ orders < kind.orders /\ orders' = orders + 1
  /\ Turn(order) /\ AfterTurn
  /\ UNCHANGED <<kind, pose, cached, engine, wire, wake>>

Update ==
  /\ phase = "open" /\ phase' = "updated"
  /\ Turn("none") /\ AfterTurn
  /\ UNCHANGED <<kind, pose, cached, engine, wire, orders, wake>>

\* The outputs of the last turn are not looked at again.
Dispatched(c) == [c EXCEPT !.twist = "none", !.solve = 0]

Wake(c) ==
  IF Unicycle THEN U!NextWake(c, Inputs("good", TRUE), pose) ELSE M!NextWake(c, pose)

\* schedule: what is left to send is tried again at the next tick at the latest.
Scheduled(left) == IF left /\ Wake(ctl) > 0 THEN 1 ELSE Wake(ctl)

\* The end of a module's step: a zero that is owed, then the slots, which may be full; a
\* twist that stays is tried again at once.  The edge answers a zero that is
\* sent under the session of the brake.
PublishModule ==
  /\ Module /\ phase \in {"ordered", "updated"} /\ phase' = "idle"
  /\ \E taken \in (IF "slot" \in kind.faults THEN BOOLEAN ELSE {TRUE}) :
     \E ready \in {IF NeedsZero(ctl.permit) THEN ZeroTwist ELSE out} :
       /\ wire' = IF ~ready.fresh \/ ~taken THEN wire
                  ELSE IF ready.twist.drive /\ ~RequiresZero(ctl.permit) THEN ready.twist
                  ELSE [U!NoCommand EXCEPT !.own = NeedsZero(ctl.permit)]
       /\ out'  = IF taken THEN NoTwist ELSE ready
       /\ wake' = Scheduled(out'.fresh)
  /\ ctl' = Dispatched(ctl)
  /\ UNCHANGED <<kind, pose, cached, engine, job, inbox, orders>>

\* The end of a node's spin: the outputs, and a zero that is owed; the executor hears of
\* every zero that is published.
PublishNode ==
  /\ ~Module /\ phase \in {"ordered", "updated"} /\ phase' = "idle"
  /\ LET twist == IF Unicycle THEN U!NodeTwist(ctl) ELSE M!NodeTwist(ctl)
         sent  == ctl.twist # "none" \/ NeedsZero(ctl.permit)
     IN  /\ wire' = IF sent THEN Sent(twist) ELSE wire
         /\ ctl'  = [Dispatched(ctl) EXCEPT !.permit = IF sent /\ ~twist.drive /\ ~ctl.command.drive
                                           THEN Zeroed(@) ELSE @]
         /\ wake' = Wake(ctl')
  /\ Asked(ctl, job, inbox)
  /\ UNCHANGED <<kind, pose, cached, engine, out, orders>>

-----------------------------------------------------------------------------
(* The host of the module.                                                  *)

Start ==
  /\ phase = "stopped" /\ phase' = "idle"
  /\ engine' = IF engine = "off" THEN "on" ELSE engine
  /\ wake' = 0
  /\ UNCHANGED <<kind, ctl, pose, cached, job, inbox, out, wire, orders>>

\* The worker is joined, so what it has is answered or dropped; the Reset is aborted; a
\* zero waits for the next step.  The CONTROL state stays.
Stop ==
  /\ Module /\ phase = "idle" /\ phase' = "stopped"
  /\ engine' = IF engine = "on" THEN "off" ELSE engine
  /\ job' = NoSolve
  /\ inbox' \in {inbox} \cup (IF job.seq # 0 THEN {Posted(TRUE), Posted(FALSE)} ELSE {})
  /\ \E p \in {q \in Ended(ctl.permit) : May(q)} :
       ctl' = [ctl EXCEPT !.permit = p, !.command = U!NoCommand]
  /\ out' = ZeroTwist
  /\ UNCHANGED <<kind, pose, cached, wire, orders, wake>>

\* A configuration the module takes; building the solver may fail after it has.
Configure ==
  /\ kind.configs > 0
  /\ Module /\ phase \in {"stopped", "idle"}
  /\ \E strategy \in {"NMPC", "FLATNESS"}, built \in BOOLEAN :
       /\ kind' = [kind EXCEPT !.strategy = strategy, !.configs = @ - 1]
       /\ engine' = IF strategy = "NMPC" /\ engine = "none" /\ built
                    THEN IF phase = "idle" THEN "on" ELSE "off" ELSE engine
  /\ \E p \in {q \in Respecified(ctl.permit) : May(q)} : ctl' = [ctl EXCEPT !.permit = p]
  /\ UNCHANGED <<phase, pose, cached, job, inbox, out, wire, orders, wake>>

-----------------------------------------------------------------------------
(* Time.                                                                    *)

Older(r) == [r EXCEPT !.age = IF @ = U!MaxAge THEN @ ELSE @ + 1]
Aged(r)  == IF r.valid THEN Older(r) ELSE r

\* Every period but the idle one is at most a tick.  Mecanum commands carry no age.
Elapse ==
  /\ phase \in {"idle", "stopped"}
  /\ phase = "idle" => wake > 0
  /\ pose' = IF pose > StateTimeout THEN pose ELSE pose + 1
  /\ ctl' = [ctl EXCEPT !.ticket  = IF @.seq = 0 THEN @ ELSE Older(@),
                        !.command = Aged(@), !.idle = IF @ = 0 THEN 0 ELSE @ - 1,
                        !.commandGate = TRUE, !.solveGate = TRUE]
  /\ job' = IF job.seq = 0 THEN job ELSE Older(job)
  /\ inbox' = [i \in DOMAIN inbox |-> IF inbox[i].ok THEN Older(inbox[i]) ELSE inbox[i]]
  /\ out' = [out EXCEPT !.twist = Aged(@)]
  /\ wire' = Aged(wire)
  /\ wake' = IF wake = 0 THEN 0 ELSE wake - 1
  /\ UNCHANGED <<kind, phase, cached, engine, orders>>

Next ==
  \/ Begin \/ Grant \/ Receipt
  \/ \E order \in U!Order : Take(order)
  \/ Update
  \/ PublishModule \/ PublishNode
  \/ Solved
  \/ Start \/ Stop \/ Configure
  \/ Elapse

Spec == Init /\ [][Next]_vars

\* The owner's loop goes on, deadlines come, and the edge answers a zero that is sent often
\* enough; nothing is assumed of the worker, the coordinator or the operator.  The phases say
\* when the steps of the owner are possible, which is cheaper to ask.
FairSpec ==
  /\ Spec
  /\ []<>(phase # "idle") \/ []<><<Begin>>_vars
  /\ []<>(phase # "open") \/ []<><<Update>>_vars
  /\ []<>(phase \notin {"ordered", "updated"}) \/ []<><<PublishModule \/ PublishNode>>_vars
  /\ SF_vars(Elapse) /\ SF_vars(Receipt)

-----------------------------------------------------------------------------
(* Properties.                                                              *)

\* The drive on the wire belongs to the present: the mode that drives, its own reference or
\* solve, a vehicle state that is still fresh, and (unicycle) a result still in time.
Current ==
  /\ ctl.mode \in {"Custom1", "Reset"} /\ (ctl.healthy => Healthy)
  /\ wire.own /\ (Unicycle => wire.age <= ResultTimeout)

\* Ticks until the gate opens of what the mode sends next, a zero or a command of its own.
Opens ==
  IF ctl.mode = "Reset" \/ (ctl.mode = "Custom1" /\ (~Unicycle \/ U!CommandReady(ctl)))
  THEN IF ctl.commandGate THEN 0 ELSE 1
  ELSE ctl.idle
Replaced == 0 < Opens /\ wake <= Opens /\ (ctl.command.drive => ctl.command.own)

\* Whenever the owner sleeps, a twist that drives is current, or waits in a slot to be
\* replaced, or the gate of the twist that replaces it opens no sooner than the owner is
\* called: no drive outlives its Stop, its state, its solve or its deadline by more than one
\* period, whatever the order of commands, grants, late solves and reconfigurations.
DriveIsCurrent ==
  (phase = "idle" /\ wake > 0 /\ wire.drive /\ ~out.fresh) => Current \/ Replaced

\* No edge of health is lost on the way out of SelfCheck: an operator's command in the very
\* turn that finds health again does not leave the vehicle there for good.
LeavesSelfCheck == phase = "idle" => (ctl.mode = "SelfCheck" => ~ctl.healthy)

\* A solve that is never answered (the worker hangs, or the request is lost between two turns
\* of one spin) does not stop tracking: its ticket is given up and another is asked for.
SolvingResumes ==
  (ctl.ticket.age > 0) ~> (ctl.ticket.age = 0 \/ phase = "stopped" \/ ~Solving)

\* A zero the executor owes the coordinator is sent and acknowledged in every mode, unless the
\* executor's clock or a counter is out of order, the slot is full or the module is stopped.
OwedZeroGoes ==
  NeedsZero(ctl.permit) ~>
    \/ ~NeedsZero(ctl.permit) \/ ctl.permit.bad \/ phase = "stopped"
    \/ phase = "idle" /\ out.fresh

\* What reset_executor.h says of the end of a Reset: "always to Ready with an exact zero
\* command".  When the owner sleeps in Ready, the twist it last sent does not drive.
ReadyIsStill == (phase = "idle" /\ wake > 0 /\ ctl.mode = "Ready" /\ ~out.fresh) => ~wire.drive

=============================================================================
