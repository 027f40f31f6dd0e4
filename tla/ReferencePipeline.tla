-------------------------- MODULE ReferencePipeline --------------------------
(***************************************************************************)
(* How a request of a trajectory becomes what the controller tracks: the    *)
(* event ports of the generator module and its steps, the alarm its host    *)
(* keeps (ugv_unicycle_reference.cpp), the three ports of the active        *)
(* trajectory, and the controller's side of them (readReferences of          *)
(* ugv_unicycle_controller.cpp and reference_cache.cpp); or the same as two *)
(* ROS nodes with a latched topic for each kind.                            *)
(*                                                                          *)
(* Time is counted in ticks.  A stamp is a number of the instants at which   *)
(* something was stamped; under a clock that stands still several steps     *)
(* happen at one instant.                                                   *)
(***************************************************************************)
EXTENDS ReferenceGenerator, FiniteSets

CONSTANTS
  Pipelines,      \* the pipelines that are looked at
  Depth           \* of an event port

ASSUME PipelinesAssumption ==
  /\ Pipelines \subseteq [host : {"module", "node"}, paused : BOOLEAN, default : BOOLEAN]
  /\ Depth \in Nat \ {0}

VARIABLES
  pipe,      \* which pipeline this is
  g,         \* the generator
  running, phase,   \* of the generator's owner: "idle", or "serving" inside a step
  alarm, armed,     \* ticks until the host's alarm, and until the one the module thinks it set
  woken,     \* a wake is pending
  waiting,   \* requests on the event ports
  serving,   \* requests the step has read
  made,      \* how many requests were made
  instant, fresh,   \* the newest stamp of a request, and whether time has passed since
  ports,     \* the newest trajectory of each kind, its stamp, and whether it was read
  same,      \* no time has passed since the last commit of a trajectory
  strategy, cache,  \* of the controller: whether it tracks trajectories, and the one it has
  last,             \* history: the newest order served, and whether it is a request that rules
  newest            \* history: the trajectory committed last

vars == <<pipe, g, running, phase, alarm, armed, woken, waiting, serving, made, instant, fresh,
          ports, same, strategy, cache, last, newest>>
owner      == <<running, phase, alarm, armed, woken>>
requests   == <<waiting, serving, made, instant, fresh>>
controller == <<strategy, cache>>

Request == [kind : {"analytic", "sampled", "waypoint", "reset"}, id : 1..Requests,
            at : 1..Requests]
Nothing == [kind |-> "none", id |-> 0]
Tracked == [kind : {"none"} \cup Kinds, id : Numbers]
Module  == pipe.host = "module"

TypeOK ==
  /\ pipe \in Pipelines /\ g \in Generator
  /\ running \in BOOLEAN /\ phase \in {"idle", "serving"}
  /\ alarm \in 0..Never /\ armed \in 0..Never /\ woken \in BOOLEAN
  /\ waiting \in SUBSET Request /\ serving \in SUBSET Request
  /\ made \in 0..Requests /\ instant \in 0..Requests /\ fresh \in BOOLEAN
  /\ ports \in [Kinds -> [id : Numbers, stamp : 0..3, unread : BOOLEAN, fatal : BOOLEAN]]
  /\ same \in BOOLEAN
  /\ strategy \in {"NMPC", "FLATNESS"} /\ cache \in Tracked
  /\ last \in [id : Numbers, rules : BOOLEAN] /\ newest \in Tracked

Init ==
  /\ pipe \in Pipelines
  /\ g = NewGenerator
  /\ running = ~Module /\ phase = "idle" /\ alarm = Never /\ armed = Never /\ woken = TRUE
  /\ waiting = {} /\ serving = {} /\ made = 0 /\ instant = 0 /\ fresh = TRUE
  /\ ports = [k \in Kinds |-> [id |-> 0, stamp |-> 0, unread |-> FALSE, fatal |-> FALSE]]
  /\ same = FALSE
  /\ strategy = "NMPC" /\ cache = Nothing
  /\ last = [id |-> 0, rules |-> FALSE] /\ newest = Nothing

-----------------------------------------------------------------------------
(* Requests.                                                                *)

\* A request reaches its port, or finds it full.  It has the stamp of its receipt.
Arrive(kind) ==
  /\ made < Requests /\ made' = made + 1
  /\ instant' = IF fresh \/ ~pipe.paused THEN instant + 1 ELSE instant
  /\ fresh' = FALSE
  /\ waiting' = IF Cardinality({x \in waiting : x.kind = kind}) < Depth
                THEN waiting \cup {[kind |-> kind, id |-> made + 1, at |-> instant']}
                ELSE waiting
  /\ UNCHANGED <<pipe, g, owner, serving, ports, same, controller, last, newest>>

Due == waiting # {} \/ alarm = 0 \/ woken

\* A step begins: collect.  An alarm that has rung is not set any more.
Collect ==
  /\ running /\ phase = "idle" /\ Due /\ phase' = "serving"
  /\ serving' = waiting /\ waiting' = {}
  /\ woken' = FALSE
  /\ alarm' = IF alarm = 0 THEN Never ELSE alarm
  /\ armed' = IF alarm = 0 THEN Never ELSE armed
  /\ UNCHANGED <<pipe, g, running, made, instant, fresh, ports, same, controller, last, newest>>

Port(x) == CASE x.kind = "analytic" -> 1 [] x.kind = "sampled" -> 2
             [] x.kind = "waypoint" -> 3 [] x.kind = "reset" -> 4

\* Mutant of Before: the requests are served port by port.
BeforeByPort(x, y) == Port(x) < Port(y) \/ (Port(x) = Port(y) /\ x.id < y.id)

\* The order of service: stamps, then ports, then the order on the port.  A node's callbacks
\* run in the order of arrival.
Before(x, y) ==
  IF ~Module THEN x.id < y.id
  ELSE \/ x.at < y.at
       \/ x.at = y.at /\ Port(x) < Port(y)
       \/ x.at = y.at /\ Port(x) = Port(y) /\ x.id < y.id

Later(x, rules) == IF x.id < last.id THEN last ELSE [id |-> x.id, rules |-> rules]

\* serve: a request of a module comes in a payload; how long it lasts is in it.
Serve(x) ==
  /\ phase = "serving" /\ x \in serving /\ \A y \in serving \ {x} : Before(x, y)
  /\ serving' = serving \ {x}
  /\ IF x.kind = "reset"
     THEN g' = Restarted(g) /\ last' = Later(x, FALSE)
     ELSE \E c \in Contents, life \in Lives \cup {Never} :
          LET evaluable == (Module => Plain(x.kind, c)) /\ Evaluable(x.kind, c)
              request   == [kind |-> x.kind, id |-> x.id, left |-> life, fatal |-> c.fatal]
          IN  g' = Accepted(g, request, evaluable) /\ last' = IF evaluable THEN Later(x, TRUE) ELSE last
  /\ UNCHANGED <<pipe, owner, waiting, made, instant, fresh, ports, same, controller, newest>>

-----------------------------------------------------------------------------
(* Trajectories.                                                            *)

\* The stamps of the ports, by their order, when k is committed now.
Stamped(k) ==
  LET top == CHOOSE n \in 0..3 : /\ \E j \in Kinds : ports[j].stamp = n
                                 /\ \A j \in Kinds : ports[j].stamp <= n
      raw == [j \in Kinds |-> IF j # k THEN ports[j].stamp
                              ELSE IF same /\ pipe.paused THEN top ELSE top + 1]
  IN  [j \in Kinds |-> Cardinality({raw[i] : i \in {i \in Kinds : raw[i] \in 1..raw[j]}})]

\* Mutant of Published: what was committed before is not committed again.
PublishedOnce(h) ==
  h.active # "none" /\ newest # [kind |-> h.active, id |-> h.retained.id]

Published(h) == h.active # "none"

\* publish: the trajectory is committed under its kind.
Commit(h) ==
  IF ~Published(h) THEN UNCHANGED <<ports, same, newest>>
  ELSE /\ LET stamp == Stamped(h.active)
          IN  ports' = [k \in Kinds |->
                 IF k = h.active
                 THEN [id |-> h.retained.id, stamp |-> stamp[k], unread |-> TRUE,
                       fatal |-> h.retained.fatal]
                 ELSE [ports[k] EXCEPT !.stamp = stamp[k]]]
       /\ same' = TRUE
       /\ newest' = [kind |-> h.active, id |-> h.retained.id]

\* The end of a step: the alarm is set when it is not already what it should be.  A node asks
\* for its deadline every time.
Schedule(d) ==
  IF d = 0 THEN alarm' = Never /\ armed' = Never /\ woken' = TRUE
  ELSE /\ armed' = d /\ UNCHANGED woken
       /\ alarm' = IF d # armed \/ ~Module THEN d ELSE alarm

Planning == g.state # "SelfCheck" /\ g.request.kind = "waypoint"

\* update, the outputs, and the next alarm.
Update ==
  /\ phase = "serving" /\ serving = {} /\ phase' = "idle"
  /\ \E solved \in (IF Planning THEN BOOLEAN ELSE {TRUE}),
        life \in (IF Planning THEN Lives \cup {Never} ELSE {Never}) :
       /\ g' = Updated(g, pipe.default, solved, life)
       /\ last' = IF solved THEN last ELSE [last EXCEPT !.rules = FALSE]
  /\ Commit(g') /\ Schedule(NextDeadline(g'))
  /\ UNCHANGED <<pipe, running, requests, controller>>

-----------------------------------------------------------------------------
(* The controller.                                                          *)

Kind(k) == CASE k = "analytic" -> 1 [] k = "polynomial" -> 2 [] k = "sampled" -> 3
Unread == {k \in Kinds : ports[k].unread}

\* Mutant of After: of two new trajectories the one of the later port is taken.
AfterByKind(j, k) == Kind(j) > Kind(k)

\* stable_sort by stamp; the ports are read in their order.
After(j, k) ==
  \/ ports[j].stamp > ports[k].stamp
  \/ ports[j].stamp = ports[k].stamp /\ Kind(j) > Kind(k)

\* buildAnalytic, fillPolynomial and fillSampled of the cache: what the generator sends is in
\* order and finite, so only flags are fatal.
Takes(k) == ~ports[k].fatal

\* readReferences: every new trajectory that is taken replaces the one before; the last one
\* stays.
Read ==
  /\ Module /\ strategy = "NMPC" /\ Unread # {}
  /\ LET taken == {k \in Unread : Takes(k)}
     IN  \/ taken = {} /\ UNCHANGED cache
         \/ \E k \in taken : /\ \A j \in taken \ {k} : After(k, j)
                             /\ cache' = [kind |-> k, id |-> ports[k].id]
  /\ ports' = [k \in Kinds |-> [ports[k] EXCEPT !.unread = FALSE]]
  /\ UNCHANGED <<pipe, g, owner, requests, same, strategy, last, newest>>

\* A node: the message of one topic, of whichever comes first.
Deliver(k) ==
  /\ ~Module /\ k \in Unread
  /\ cache' = IF Takes(k) THEN [kind |-> k, id |-> ports[k].id] ELSE cache
  /\ ports' = [ports EXCEPT ![k].unread = FALSE]
  /\ UNCHANGED <<pipe, g, owner, requests, same, strategy, last, newest>>

\* The controller module is configured for the other strategy; it reads no trajectories then.
Switch ==
  /\ Module /\ strategy' = (IF strategy = "NMPC" THEN "FLATNESS" ELSE "NMPC")
  /\ UNCHANGED <<pipe, g, owner, requests, ports, same, cache, last, newest>>

\* A new controller: it has seen nothing; the ports keep, the topics latch what was sent.
Replace ==
  /\ cache' = Nothing
  /\ ports' = [k \in Kinds |-> [ports[k] EXCEPT !.unread = (ports[k].stamp > 0)]]
  /\ UNCHANGED <<pipe, g, owner, requests, same, strategy, last, newest>>

-----------------------------------------------------------------------------
(* The host of the generator.                                               *)

\* Mutant of Start: the module believes in the alarm of before.
StartArmed ==
  /\ Module /\ ~running /\ running' = TRUE
  /\ UNCHANGED <<pipe, g, phase, alarm, woken, armed, requests, ports, same, controller,
                 last, newest>>

Start ==
  /\ Module /\ ~running /\ running' = TRUE
  /\ woken' = TRUE /\ armed' = Never
  /\ UNCHANGED <<pipe, g, phase, alarm, requests, ports, same, controller, last, newest>>

Stop ==
  /\ Module /\ running /\ phase = "idle" /\ running' = FALSE
  /\ alarm' = Never
  /\ UNCHANGED <<pipe, g, phase, armed, woken, requests, ports, same, controller, last, newest>>

\* A configuration that is taken restarts the generator; nothing is scheduled for it.
Configure ==
  /\ Module /\ phase = "idle"
  /\ g' = Restarted(g) /\ last' = [last EXCEPT !.rules = FALSE]
  /\ UNCHANGED <<pipe, owner, requests, ports, same, controller, newest>>

\* A host steps a module without delay.
Tick ==
  /\ phase = "idle" /\ (running => ~Due)
  /\ g' = Older(g)
  /\ alarm' = Sooner(alarm) /\ armed' = Sooner(armed)
  /\ fresh' = TRUE /\ same' = FALSE
  /\ UNCHANGED <<pipe, running, phase, woken, waiting, serving, made, instant, ports, controller,
                 last, newest>>

Next ==
  \/ \E kind \in {"analytic", "sampled", "waypoint", "reset"} : Arrive(kind)
  \/ Collect \/ Update
  \/ \E x \in serving : Serve(x)
  \/ Read \/ Switch \/ Replace
  \/ \E k \in Kinds : Deliver(k)
  \/ Start \/ Stop \/ Configure
  \/ Tick

Spec == Init /\ [][Next]_vars

\* Steps that are due happen and end, time goes on, what was sent is read.
FairSpec ==
  /\ Spec
  /\ WF_vars(Collect) /\ WF_vars(Update) /\ WF_vars(\E x \in serving : Serve(x)) /\ WF_vars(Tick)
  /\ WF_vars(Read) /\ \A k \in Kinds : WF_vars(Deliver(k))

-----------------------------------------------------------------------------
(* Properties.                                                              *)

\* Between two steps the newest request, by whatever port and in whatever state it came, waits or
\* is the retained trajectory, unless it could not be planned or the generator restarted since;
\* after a reset that is newer, no request of before it waits.
LastRequestRules ==
  phase = "idle" => IF last.rules THEN last.id \in {g.request.id, g.retained.id}
                    ELSE g.request.id \in {0, Default}

\* While the module sleeps, the host's alarm is set, and rings no later than the generator needs;
\* after a live configure, at least not later than it was going to ring.
SleepsInTime ==
  (running /\ phase = "idle" /\ ~Due) =>
    alarm # Never /\ (g.state # "SelfCheck" => alarm <= NextDeadline(g))

\* A controller that has read its ports has the trajectory committed last, unless its flags are
\* fatal, also one that is new or was switched to tracking long after the commits.
CommittedLastWins ==
  (Module /\ strategy = "NMPC" /\ Unread = {} /\ newest.id # 0 /\ Takes(newest.kind)) =>
    cache = newest

\* A trajectory that has ended, or gave way to a plan that failed, is not followed again.
Ended == [][(g.state # "Active" /\ g'.state = "Active") => g'.retained.id # g.retained.id]_vars

\* A controller comes to track the active trajectory, however the topics are reordered or
\* latched and whenever it began: it is published again every period.
CacheFollows ==
  \A n \in 1..Default :
    (g.state = "Active" /\ g.retained.id = n /\ ~g.retained.fatal) ~>
      (cache.id = n \/ g.state # "Active" \/ g.retained.id # n \/ ~running
        \/ strategy = "FLATNESS")

\* A generator that was restarted, by request or by configuration, or that failed to plan, serves
\* requests again.
ServesAgain == (g.state = "SelfCheck") ~> (g.state # "SelfCheck" \/ ~running)

=============================================================================
