------------------------------- MODULE RosEdge -------------------------------
(***************************************************************************)
(* The ROS side of a vehicle (ugv_ros_edge.cpp): its connection, the steps   *)
(* that publish what the controller committed, the thread that runs the     *)
(* callbacks of ROS, the one timer that wakes a controller whose clock      *)
(* stands still; and as much of the controller's steps as shows on its      *)
(* ports.  The three of them run side by side on threads of their own; a     *)
(* step of this module is what no other of them can cut in two.             *)
(***************************************************************************)
EXTENDS Integers, SequencesExt

CONSTANTS
  Configs,      \* configurations of the edge
  Kinds,        \* the kinds of messages from ROS
  Depth,        \* of the port of each kind; 0: a state port, which keeps the newest
  Limits        \* bounds, one record for each of the lives that are looked at: how many messages
                \* arrive, orders and results the controller has, and ticks pass

ASSUME EdgeAssumption ==
  /\ Configs # {} /\ Configs \subseteq Nat \ {0}
  /\ Depth \in [Kinds -> Nat]
  /\ Limits \subseteq [messages : Nat, orders : Nat, outcomes : Nat, ticks : Nat]

VARIABLES
  limit,             \* one of the limits
  running, config,   \* the edge: started, and its configuration
  wired,             \* the configuration it is connected with, or Cutoff
  call,         \* the call that waits for the ROS thread to end: "stop", "reconnect" or "none"
  phase,        \* of its step
  cmd, session, demand,           \* ports of the controller: the newest sample, and whether seen
  results,      \* the event port of the results
  due,          \* something was committed since the last step of the edge began
  wire,         \* the velocity on the topic
  shown,        \* the results on the topic, in their order
  timer, armed, \* the deadline of the steady timer, and the one the edge last armed
  woken,        \* the wakes reached the controller
  receipt,      \* the port of the receipts
  inbox,        \* callbacks that wait for the ROS thread
  callback,     \* the one it runs
  ports,        \* what the output ports hold
  arrived, wall,
  ctl           \* the controller

edge    == <<limit, running, config, wired, call>>
timing  == <<timer, armed>>
ros     == <<inbox, callback, ports, arrived>>
outputs == <<cmd, session, demand, results>>
topics  == <<wire, shown>>
vars == <<edge, phase, outputs, due, topics, timing, woken, receipt, ros, wall, ctl>>

None   == -1     \* no deadline
Unset  == -2     \* no demand was seen
Cutoff == 0
conn   == wired # Cutoff    \* connected_
Idle   == [kind |-> "none", id |-> 0]
Wake   == [kind |-> "wake", id |-> 0]
Message == [kind : Kinds, id : 1..limit.messages]

TypeOK ==
  /\ limit \in Limits
  /\ running \in BOOLEAN /\ config \in Configs
  /\ wired \in Configs \cup {Cutoff} /\ call \in {"none", "stop", "reconnect"}
  /\ phase \in {"idle", "cmd", "receipt", "rest"}
  /\ cmd \in [v : {"zero", "drive"}, some : BOOLEAN, unread : BOOLEAN]
  /\ session \in [ack : 0..limit.orders]
  /\ demand \in [at : None..limit.ticks, some : BOOLEAN, unread : BOOLEAN]
  /\ results \in Seq(1..limit.outcomes) /\ Len(results) <= 4 /\ due \in BOOLEAN
  /\ wire \in {"zero", "drive"} /\ shown \in Seq(1..limit.outcomes)
  /\ timer \in None..limit.ticks /\ armed \in Unset..limit.ticks /\ woken \in BOOLEAN
  /\ receipt \in [ack : 0..limit.orders, unread : BOOLEAN]
  /\ \A i \in 1..Len(inbox) : inbox[i] \in Message \cup {Wake}
  /\ callback \in Message \cup {Wake, Idle}
  /\ \A k \in Kinds : Len(ports[k]) <= (IF Depth[k] = 0 THEN 1 ELSE Depth[k])
  /\ arrived \in 0..limit.messages /\ wall \in 0..limit.ticks
  /\ ctl \in [mode : {"drive", "await", "zeroed"}, n : 0..limit.orders, made : 0..limit.outcomes,
              at : {"idle", "session", "cmd"}]

Init ==
  /\ limit \in Limits
  /\ running = FALSE /\ wired = Cutoff
  /\ \E c \in Configs : config = c /\ \A d \in Configs : c <= d
  /\ call = "none" /\ phase = "idle"
  /\ cmd = [v |-> "zero", some |-> FALSE, unread |-> FALSE] /\ session = [ack |-> 0]
  /\ demand = [at |-> None, some |-> FALSE, unread |-> FALSE]
  /\ results = <<>> /\ due = FALSE /\ wire = "zero" /\ shown = <<>>
  /\ timer = None /\ armed = Unset /\ woken = FALSE
  /\ receipt = [ack |-> 0, unread |-> FALSE]
  /\ inbox = <<>> /\ callback = Idle /\ ports = [k \in Kinds |-> <<>>]
  /\ arrived = 0 /\ wall = 0
  /\ ctl = [mode |-> "drive", n |-> 0, made |-> 0, at |-> "idle"]

-----------------------------------------------------------------------------
(* The controller: a step commits its session, its result and then its      *)
(* command (step of ugv_unicycle_controller.cpp).                           *)

\* An order of the coordinator: a brake while it drives, another one before its zero is proven,
\* a route once it is stopped.  A receipt proves the zero of the newest brake only.
Turn ==
  /\ ctl.at = "idle"
  /\ LET proven == ctl.mode = "await" /\ receipt.unread /\ receipt.ack = ctl.n
     IN  \E order \in BOOLEAN :
           /\ order => ctl.n < limit.orders
           /\ ctl' = [ctl EXCEPT !.at = "session",
                        !.n = IF order THEN @ + 1 ELSE @,
                        !.mode = CASE order /\ @ = "zeroed" -> "drive"
                                   [] order /\ @ # "zeroed" -> "await"
                                   [] ~order /\ proven -> "zeroed"
                                   [] ~order /\ ~proven -> @]
  /\ receipt' = [receipt EXCEPT !.unread = FALSE] /\ woken' = FALSE
  /\ UNCHANGED <<edge, phase, outputs, due, topics, timing, ros, wall>>

\* The session, when it changed or its time has come, and a result if there is one and its port
\* takes it.
CommitSession ==
  /\ ctl.at = "session"
  /\ \E told \in BOOLEAN, new \in BOOLEAN :
       /\ session.ack # ctl.n => told
       /\ new => ctl.made < limit.outcomes /\ Len(results) < 4
       /\ session' = IF told THEN [ack |-> ctl.n] ELSE session
       /\ results' = IF new THEN Append(results, ctl.made + 1) ELSE results
       /\ due' = (due \/ told \/ new)
       /\ ctl' = [ctl EXCEPT !.at = "cmd", !.made = IF new THEN @ + 1 ELSE @]
  /\ UNCHANGED <<edge, phase, cmd, demand, topics, timing, woken, receipt, ros, wall>>

\* The command, if one waits, always so while a zero is owed; and the wall deadline when it is
\* another than before.
CommitCommand ==
  /\ ctl.at = "cmd" /\ ctl' = [ctl EXCEPT !.at = "idle"]
  /\ \E at \in {demand.at, None} \cup (wall + 1)..limit.ticks :
       /\ demand' = IF at = demand.at THEN demand
                    ELSE [at |-> at, some |-> TRUE, unread |-> TRUE]
       /\ \/ /\ ctl.mode # "await" /\ cmd' = cmd
             /\ due' = (due \/ at # demand.at)
          \/ /\ \E v \in (IF ctl.mode = "drive" THEN {"zero", "drive"} ELSE {"zero"}) :
                  cmd' = [v |-> v, some |-> TRUE, unread |-> TRUE]
             /\ due' = TRUE
  /\ UNCHANGED <<edge, phase, session, results, topics, timing, woken, receipt, ros, wall>>

-----------------------------------------------------------------------------
(* A step of the edge.                                                      *)

\* Mutant of Stopped: the callback of the timer stays in the queue.
StoppedLater(q) == q

\* What SteadyTimer::stop leaves in the queue, if there is a timer: not its callback, of which
\* there is one at most.  A callback that runs already goes on.
Stopped(q) == IF armed = Unset THEN q ELSE RemoveFirst(q, Wake)

\* armWallDeadline: the newest demand replaces the one before.
Begin ==
  /\ running /\ call = "none" /\ phase = "idle" /\ due /\ due' = FALSE
  /\ phase' = IF conn THEN "cmd" ELSE "idle"
  /\ IF conn /\ demand.unread
     THEN /\ demand' = [demand EXCEPT !.unread = FALSE]
          /\ armed' = demand.at
          /\ IF armed = demand.at THEN UNCHANGED <<timer, inbox>>
             ELSE timer' = demand.at /\ inbox' = Stopped(inbox)
     ELSE UNCHANGED <<demand, timing, inbox>>
  /\ UNCHANGED <<edge, cmd, session, results, topics, woken, receipt, callback, ports,
                 arrived, wall, ctl>>

\* Mutant of Fresh: a command that says what the topic says already is not published.
FreshIfNew == cmd.unread /\ cmd.v # wire

Fresh == cmd.unread

\* publishCmdVel: the newest command goes out,
Publish ==
  /\ phase = "cmd"
  /\ cmd' = [cmd EXCEPT !.unread = FALSE]
  /\ wire' = IF Fresh THEN cmd.v ELSE wire
  /\ phase' = IF Fresh /\ cmd.v = "zero" THEN "receipt" ELSE "rest"
  /\ UNCHANGED <<edge, session, demand, results, due, shown, timing, woken, receipt, ros,
                 wall, ctl>>

\* and a zero leaves a receipt under the session as it is then, if the port takes it.
CertifyIf(taken) ==
  /\ phase = "receipt" /\ phase' = "rest"
  /\ receipt' = IF session.ack = 0 \/ ~taken THEN receipt
                ELSE [ack |-> session.ack, unread |-> TRUE]
  /\ UNCHANGED <<edge, outputs, due, topics, timing, woken, ros, wall, ctl>>

Certify == \E taken \in BOOLEAN : CertifyIf(taken)

\* Mutant of Drained: one result a step.
DrainedOne(q) == IF q = <<>> THEN q ELSE <<Head(q)>>

\* publishResetResult takes every result there is.
Drained(q) == q

\* The other outputs; of those the results are events.
End ==
  /\ phase = "rest" /\ phase' = "idle"
  /\ shown' = shown \o Drained(results)
  /\ results' = SubSeq(results, Len(Drained(results)) + 1, Len(results))
  /\ UNCHANGED <<edge, cmd, session, demand, due, wire, timing, woken, receipt, ros, wall,
                 ctl>>

-----------------------------------------------------------------------------
(* The ROS thread, which runs one callback at a time while it is there.     *)

\* The one-shot is put on the queue when its time has come.
Fire ==
  /\ timer # None /\ wall >= timer
  /\ timer' = None /\ inbox' = Append(inbox, Wake)
  /\ UNCHANGED <<edge, phase, outputs, due, topics, armed, woken, receipt, callback, ports,
                 arrived, wall, ctl>>

Arrive(kind) ==
  /\ conn /\ arrived < limit.messages /\ arrived' = arrived + 1
  /\ inbox' = Append(inbox, [kind |-> kind, id |-> arrived + 1])
  /\ UNCHANGED <<edge, phase, outputs, due, topics, timing, woken, receipt, callback,
                 ports, wall, ctl>>

Call ==
  /\ conn /\ call = "none" /\ callback = Idle /\ inbox # <<>>
  /\ callback' = Head(inbox) /\ inbox' = Tail(inbox)
  /\ UNCHANGED <<edge, phase, outputs, due, topics, timing, woken, receipt, ports, arrived,
                 wall, ctl>>

\* The sample of a message on its port, unless it is refused, or the port has no room.
Forwarded(q, m) ==
  IF Depth[m.kind] = 0 THEN <<m.id>>
  ELSE IF Len(q) < Depth[m.kind] THEN Append(q, m.id) ELSE q

Finish ==
  /\ callback # Idle /\ callback' = Idle
  /\ IF callback = Wake THEN woken' = TRUE /\ UNCHANGED ports
     ELSE /\ UNCHANGED woken
          /\ \E fits \in BOOLEAN :
               ports' = IF fits THEN [ports EXCEPT ![callback.kind] = Forwarded(@, callback)]
                        ELSE ports
  /\ UNCHANGED <<edge, phase, outputs, due, topics, timing, receipt, inbox, arrived, wall,
                 ctl>>

\* A reader of the ports takes an event.
Take(k) ==
  /\ Depth[k] > 0 /\ ports[k] # <<>> /\ ports' = [ports EXCEPT ![k] = Tail(@)]
  /\ UNCHANGED <<edge, phase, outputs, due, topics, timing, woken, receipt, inbox, callback,
                 arrived, wall, ctl>>

-----------------------------------------------------------------------------
(* The calls of the host, between two steps.                                *)

Free == phase = "idle" /\ call = "none"

\* Mutant of Forgotten: what was seen over the connection before is not new.
ForgottenNot(port) == port

\* seen_.forget()
Forgotten(port) == [port EXCEPT !.unread = port.some]

\* connect: everything is new to it; or it throws, and is not connected.
Connected(c) ==
  \/ /\ wired' = c
     /\ cmd' = Forgotten(cmd) /\ demand' = Forgotten(demand)
  \/ /\ wired' = Cutoff
     /\ UNCHANGED <<cmd, demand>>

\* A start that fails leaves the instance stopped.
Start ==
  /\ Free /\ ~running /\ Connected(config) /\ running' = conn'
  /\ UNCHANGED <<limit, config, call, phase, session, results, due, topics, timing, woken, receipt,
                 ros, wall, ctl>>

\* disconnect begins: no timer, and none of its callbacks waits.
Cancelled == timer' = None /\ armed' = Unset /\ inbox' = Stopped(inbox)

\* Mutant of Reconnects: the connection is kept when the edge is configured anew.
ReconnectsNever(c) == FALSE

Reconnects(c) == conn /\ c # config

\* configure: another configuration of an edge that is connected reconnects it.
Configure(c) ==
  /\ Free /\ config' = c
  /\ IF Reconnects(c)
     THEN call' = "reconnect" /\ Cancelled
     ELSE UNCHANGED <<call, timing, inbox>>
  /\ UNCHANGED <<limit, running, wired, phase, outputs, due, topics, woken, receipt,
                 callback, ports, arrived, wall, ctl>>

Stop ==
  /\ Free /\ running /\ call' = "stop" /\ Cancelled
  /\ UNCHANGED <<limit, running, config, wired,  phase, outputs, due, topics,
                 woken, receipt, callback, ports, arrived, wall, ctl>>

\* Mutant of Cut: the results that wait are lost.
CutAll == wire' = "zero" /\ results' = <<>>

Cut == wire' = (IF conn THEN "zero" ELSE wire) /\ UNCHANGED results

\* Mutant of Joined: the thread is not waited for.
JoinedNot == TRUE

Joined == callback = Idle

\* disconnect goes on when the thread has ended: a zero, and the queue is cleared.
Disconnect ==
  /\ call # "none" /\ Joined
  /\ inbox' = <<>> /\ Cut
  /\ call' = "none"
  /\ IF call = "reconnect"
     THEN Connected(config) /\ UNCHANGED running
     ELSE /\ wired' = Cutoff /\ running' = FALSE
          /\ UNCHANGED <<cmd, demand>>
  /\ UNCHANGED <<limit, config, phase, session, due, shown, timing, woken, receipt, callback,
                 ports, arrived, wall, ctl>>

Tick ==
  /\ wall < limit.ticks /\ wall' = wall + 1
  /\ UNCHANGED <<edge, phase, outputs, due, topics, timing, woken, receipt, ros, ctl>>

Next ==
  \/ Turn \/ CommitSession \/ CommitCommand
  \/ Begin \/ Publish \/ Certify \/ End
  \/ Fire \/ Call \/ Finish
  \/ \E k \in Kinds : Arrive(k) \/ Take(k)
  \/ Start \/ Stop \/ Disconnect \/ Tick
  \/ \E c \in Configs : Configure(c)

Spec == Init /\ [][Next]_vars

\* Threads that can go on do, and so does the time of the wall; a host that is asked for calls
\* without end still does the steps that are due; a port does not refuse every receipt.
FairSpec ==
  /\ Spec
  /\ WF_vars(Turn) /\ WF_vars(CommitSession) /\ WF_vars(CommitCommand)
  /\ SF_vars(Begin) /\ WF_vars(Publish) /\ WF_vars(Certify) /\ SF_vars(CertifyIf(TRUE))
  /\ WF_vars(End)
  /\ WF_vars(Fire) /\ WF_vars(Call) /\ WF_vars(Finish) /\ WF_vars(Disconnect) /\ WF_vars(Tick)

-----------------------------------------------------------------------------
(* Properties.                                                              *)

\* Between two calls, what is connected is connected as the edge is configured, whichever
\* configurations, failed connections and restarts came before.
ConnectedAsConfigured == (conn /\ call = "none") => wired = config

\* While the edge is cut off, the last thing it said to the wheels was zero, and nothing of it
\* runs on the ROS thread, waits for it or will wake anybody (disconnect).
CutIsClean == ~conn => wire = "zero" /\ callback = Idle /\ inbox = <<>> /\ timer = None

\* Every result the controller's port took is on its topic or waits for it, once and in order,
\* through every reconnection.
ResultsInOrder == shown \o results = [i \in 1..ctl.made |-> i]

\* No callback of a deadline begins before the deadline that is demanded now, nor after it was
\* cancelled.
WakesAreDue == [][(callback' = Wake /\ callback # Wake) => armed # None /\ wall >= armed]_vars

\* A brake's zero is proven to the controller, however its commits and the steps of the edge
\* mingle.
BrakeIsProven == (ctl.mode = "await") ~> (ctl.mode # "await" \/ ~conn)

\* Every result there is goes out once the edge has a step to do, without another one coming.
ResultsGoOut == (conn /\ due /\ results # <<>>) ~> (results = <<>> \/ ~conn)

\* A deadline on the wall that stays demanded wakes the controller, also one that was demanded over
\* a connection that was replaced, once the edge has another step to do.
Deadlines == UNION {1..l.ticks : l \in Limits}

DeadlinesWake ==
  \A d \in Deadlines :
    (conn /\ due /\ demand.at = d /\ wall < d) ~> (woken \/ demand.at # d \/ call # "none" \/ ~conn)

\* What the documentation says and the code does not do.

\* The zero of a brake that is proven to the controller is the last thing that went out.
ProvenIsZero == ctl.mode = "zeroed" => wire = "zero"

\* A live configure that succeeds at once leaves the edge connected.
ConfiguredIsConnected ==
  [][\A c \in Configs : (running /\ Configure(c) /\ call' = "none") => conn']_vars

=============================================================================
