--------------------------- MODULE ReferenceProofs ---------------------------
(***************************************************************************)
(* That a trajectory that has ended is not followed again, that the module  *)
(* sleeps no longer than it may, that the newest request rules, and that    *)
(* a controller has what was committed last: for every number of requests,  *)
(* every period, every life and every content.                              *)
(***************************************************************************)
EXTENDS ReferencePipeline, FiniteSetTheorems, TLAPS

-----------------------------------------------------------------------------
(* The invariant.                                                           *)

Pending == waiting \cup serving

\* Instants are counted no faster than requests, and there is one once time has been used.
Dated == instant <= made /\ (~fresh => instant >= 1)

\* Every request has a number of its own, and what was taken is not on a port any more.  The
\* default request is the generator's once it was issued.
Named ==
  /\ \A x \in Pending : x.id <= made
  /\ \A x, y \in Pending : x.id = y.id => x = y
  /\ waiting \cap serving = {}
  /\ g.request.kind = "none" <=> g.request.id = 0
  /\ g.retained.kind = "none" <=> g.retained.id = 0
  /\ g.request.kind # "none" => g.request.id # g.retained.id
  /\ \A n \in {g.request.id, g.retained.id} :
       /\ n <= made \/ n = Default
       /\ n = Default => g.issued
       /\ \A x \in Pending : x.id # n
  /\ g.request.kind = "waypoint" => g.request.id # Default

\* The module knows its host's alarm; asleep, it has set it for what comes next.
Alarmed ==
  /\ phase = "serving" => running
  /\ IF running THEN armed = alarm ELSE Module /\ alarm = Never
  /\ (running /\ phase = "idle" /\ ~woken) =>
       /\ alarm # Never
       /\ g.state # "SelfCheck" => g.request.kind = "none" /\ alarm <= NextDeadline(g)

\* Requests are served in the order they were made in.
InOrder == Module => ~pipe.paused

\* On the ports of a module whose clock runs every request has an instant of its own.
Ordered ==
  InOrder =>
    /\ Module => instant = made /\ \A x \in Pending : x.at = x.id
    /\ \A x \in serving, y \in waiting : x.id < y.id
    /\ last.id <= made /\ \A x \in Pending : last.id < x.id

\* The request that was served last and not undone is the one that waits or is retained, unless
\* the default request took its place; no other waits.
Ruled ==
  InOrder =>
    /\ last.rules => \/ last.id \in {g.request.id, g.retained.id}
                     \/ pipe.default /\ Default \in {g.request.id, g.retained.id}
    /\ g.request.id \notin {0, Default} => last.rules /\ last.id = g.request.id
    /\ ~pipe.default => Default \notin {g.request.id, g.retained.id}

\* The trajectory committed last has the newest stamp, is read when any is, and once read it is
\* what the controller has.
Newest ==
  (Module /\ ~pipe.paused) =>
    /\ \A k \in Kinds \ {newest.kind} :
         ports[k].stamp < (IF newest.kind = "none" THEN 1 ELSE ports[newest.kind].stamp)
    /\ \A k \in Kinds : ports[k].unread => newest.kind # "none" /\ ports[newest.kind].unread
    /\ newest.kind = "none" => newest.id = 0
    /\ newest.kind # "none" =>
         /\ ports[newest.kind].id = newest.id
         /\ (~ports[newest.kind].unread /\ Takes(newest.kind)) => cache = newest

Inv == TypeOK /\ Dated /\ Named /\ Alarmed /\ Ordered /\ Ruled /\ Newest

-----------------------------------------------------------------------------
(* The generator's operators.                                               *)

\* What an update does to the trajectories: r is what waits after the state machine, unless
\* the default request is issued and takes its place.
Waits(a, b, default, r) ==
  \/ b.request = r /\ b.issued = a.issued
  \/ default /\ ~a.issued /\ b.issued /\ b.request = DefaultRequest

Kept(a, b, default) ==
  /\ b.retained = a.retained /\ (b.state = "Active" => a.state = "Active")
  /\ Waits(a, b, default, a.request)

Taken(a, b, default) ==
  /\ a.request.kind # "none"
  /\ b.retained.id = a.request.id /\ b.retained.kind # "none"
  /\ Waits(a, b, default, NoRequest)

GivenUp(a, b, default) ==
  /\ b.retained = a.retained /\ b.state = "SelfCheck"
  /\ Waits(a, b, default, NoRequest)

Turned(a, b, default, solved) ==
  /\ b \in Generator /\ b.active \in {"none", b.retained.kind}
  /\ \/ Kept(a, b, default) /\ ~(a.state # "SelfCheck" /\ a.request.kind = "waypoint")
     \/ Taken(a, b, default) /\ (a.request.kind = "waypoint" => solved)
     \/ GivenUp(a, b, default) /\ ~solved

\* Only gates and outputs differ.
Outputs(a, b) ==
  /\ b \in Generator /\ b.state = a.state /\ b.request = a.request /\ b.retained = a.retained
  /\ b.issued = a.issued /\ b.active \in {a.active, a.retained.kind}

\* What the two trajectories of the generator are.
Requested == [kind : {"none", "analytic", "sampled", "waypoint"}, id : Numbers, left : Left,
              fatal : BOOLEAN]
Retained  == [kind : {"none"} \cup Kinds, id : Numbers, left : Left, fatal : BOOLEAN]

LEMMA StateSet ==
  ASSUME NEW a \in Generator, NEW v \in {"SelfCheck", "Ready", "Active"}, NEW b, b = [a EXCEPT !.state = v]
  PROVE  /\ b \in Generator /\ b.state = v
         /\ b.request = a.request /\ b.retained = a.retained /\ b.issued = a.issued /\ b.status = a.status
         /\ b.publication = a.publication /\ b.told = a.told /\ b.active = a.active
BY DEF Generator, Requested, Retained

LEMMA RequestSet ==
  ASSUME NEW a \in Generator, NEW v \in Requested, NEW b, b = [a EXCEPT !.request = v]
  PROVE  /\ b \in Generator /\ b.request = v
         /\ b.state = a.state /\ b.retained = a.retained /\ b.issued = a.issued /\ b.status = a.status
         /\ b.publication = a.publication /\ b.told = a.told /\ b.active = a.active
BY DEF Generator, Requested, Retained

LEMMA RetainedSet ==
  ASSUME NEW a \in Generator, NEW v \in Retained, NEW b, b = [a EXCEPT !.retained = v]
  PROVE  /\ b \in Generator /\ b.retained = v
         /\ b.state = a.state /\ b.request = a.request /\ b.issued = a.issued /\ b.status = a.status
         /\ b.publication = a.publication /\ b.told = a.told /\ b.active = a.active
BY DEF Generator, Requested, Retained

LEMMA IssuedSet ==
  ASSUME NEW a \in Generator, NEW v \in BOOLEAN, NEW b, b = [a EXCEPT !.issued = v]
  PROVE  /\ b \in Generator /\ b.issued = v
         /\ b.state = a.state /\ b.request = a.request /\ b.retained = a.retained /\ b.status = a.status
         /\ b.publication = a.publication /\ b.told = a.told /\ b.active = a.active
BY DEF Generator, Requested, Retained

LEMMA StatusSet ==
  ASSUME NEW a \in Generator, NEW v \in 0..StatusPeriod, NEW b, b = [a EXCEPT !.status = v]
  PROVE  /\ b \in Generator /\ b.status = v
         /\ b.state = a.state /\ b.request = a.request /\ b.retained = a.retained /\ b.issued = a.issued
         /\ b.publication = a.publication /\ b.told = a.told /\ b.active = a.active
BY DEF Generator, Requested, Retained

LEMMA PublicationSet ==
  ASSUME NEW a \in Generator, NEW v \in 0..ActivePeriod, NEW b, b = [a EXCEPT !.publication = v]
  PROVE  /\ b \in Generator /\ b.publication = v
         /\ b.state = a.state /\ b.request = a.request /\ b.retained = a.retained /\ b.issued = a.issued
         /\ b.status = a.status /\ b.told = a.told /\ b.active = a.active
BY DEF Generator, Requested, Retained

LEMMA ToldSet ==
  ASSUME NEW a \in Generator, NEW v \in BOOLEAN, NEW b, b = [a EXCEPT !.told = v]
  PROVE  /\ b \in Generator /\ b.told = v
         /\ b.state = a.state /\ b.request = a.request /\ b.retained = a.retained /\ b.issued = a.issued
         /\ b.status = a.status /\ b.publication = a.publication /\ b.active = a.active
BY DEF Generator, Requested, Retained

LEMMA ActiveSet ==
  ASSUME NEW a \in Generator, NEW v \in {"none"} \cup Kinds, NEW b, b = [a EXCEPT !.active = v]
  PROVE  /\ b \in Generator /\ b.active = v
         /\ b.state = a.state /\ b.request = a.request /\ b.retained = a.retained /\ b.issued = a.issued
         /\ b.status = a.status /\ b.publication = a.publication /\ b.told = a.told
BY DEF Generator, Requested, Retained

LEMMA StatusOutputs ==
  ASSUME NEW a \in Generator
  PROVE  Outputs(a, PublishStatus(a))
<1> DEFINE yes == TRUE
           b == [a EXCEPT !.status = StatusPeriod]
           c == [b EXCEPT !.told = yes]
<1>1. CASE a.status = 0
  <2>1. PublishStatus(a) = c
    BY <1>1 DEF PublishStatus
  <2>2. StatusPeriod \in 0..StatusPeriod /\ yes \in BOOLEAN
    BY PeriodsAssumption
  <2> HIDE DEF yes
  <2>3. /\ b \in Generator /\ b.state = a.state /\ b.request = a.request
        /\ b.retained = a.retained /\ b.issued = a.issued /\ b.active = a.active
    BY <2>2, StatusSet
  <2> HIDE DEF b
  <2>4. /\ c \in Generator /\ c.state = b.state /\ c.request = b.request
        /\ c.retained = b.retained /\ c.issued = b.issued /\ c.active = b.active
    BY <2>2, <2>3, ToldSet
  <2> HIDE DEF c
  <2> QED
    BY <2>1, <2>3, <2>4 DEF Outputs
<1>2. CASE a.status # 0
  BY <1>2 DEF PublishStatus, Outputs
<1> QED
  BY <1>1, <1>2

LEMMA TrajectoryOutputs ==
  ASSUME NEW a \in Generator
  PROVE  Outputs(a, PublishTrajectory(a))
<1> DEFINE b == [a EXCEPT !.publication = ActivePeriod]
           c == [b EXCEPT !.active = a.retained.kind]
<1>1. CASE a.publication = 0
  <2>1. PublishTrajectory(a) = c
    BY <1>1 DEF PublishTrajectory
  <2>2. ActivePeriod \in 0..ActivePeriod /\ a.retained.kind \in {"none"} \cup Kinds
    BY PeriodsAssumption DEF Generator
  <2>3. /\ b \in Generator /\ b.state = a.state /\ b.request = a.request
        /\ b.retained = a.retained /\ b.issued = a.issued
    BY <2>2, PublicationSet
  <2> HIDE DEF b
  <2>4. /\ c \in Generator /\ c.state = b.state /\ c.request = b.request
        /\ c.retained = b.retained /\ c.issued = b.issued /\ c.active = a.retained.kind
    BY <2>2, <2>3, ActiveSet
  <2> HIDE DEF c
  <2> QED
    BY <2>1, <2>3, <2>4 DEF Outputs
<1>2. CASE a.publication # 0
  BY <1>2 DEF PublishTrajectory, Outputs
<1> QED
  BY <1>1, <1>2

LEMMA ActiveOutputs ==
  ASSUME NEW a \in Generator
  PROVE  Outputs(a, PublishActive(a))
<1> DEFINE b == PublishStatus(a)
<1>1. Outputs(a, b)
  BY StatusOutputs
<1>2. b \in Generator
  BY <1>1 DEF Outputs
<1> HIDE DEF b
<1>3. Outputs(b, PublishTrajectory(b))
  BY <1>2, TrajectoryOutputs
<1>4. PublishActive(a) = PublishTrajectory(b)
  BY DEF PublishActive, b
<1> QED
  BY <1>1, <1>3, <1>4 DEF Outputs

LEMMA ReadiedOutputs ==
  ASSUME NEW a \in Generator
  PROVE  /\ Readied(a) \in Generator /\ Readied(a).state = "Ready"
         /\ Readied(a).request = a.request /\ Readied(a).retained = a.retained
         /\ Readied(a).issued = a.issued /\ Readied(a).active \in {a.active, a.retained.kind}
<1> DEFINE b == [a EXCEPT !.state = "Ready"]
           c == [b EXCEPT !.status = 0]
<1>1. 0 \in 0..StatusPeriod
  BY PeriodsAssumption
<1>2. /\ b \in Generator /\ b.state = "Ready" /\ b.request = a.request
      /\ b.retained = a.retained /\ b.issued = a.issued /\ b.active = a.active
  BY StateSet
<1>3. [a EXCEPT !.state = "Ready", !.status = 0] = c
  OBVIOUS
<1> HIDE DEF b
<1>4. /\ c \in Generator /\ c.state = b.state /\ c.request = b.request
      /\ c.retained = b.retained /\ c.issued = b.issued /\ c.active = b.active
  BY <1>1, <1>2, StatusSet
<1> HIDE DEF c
<1>5. Outputs(c, PublishStatus(c))
  BY <1>4, StatusOutputs
<1>6. Readied(a) = PublishStatus(c)
  BY <1>3 DEF Readied
<1> QED
  BY <1>2, <1>4, <1>5, <1>6 DEF Outputs

LEMMA NoRequestType == NoRequest \in Requested /\ NoRequest \in Retained
BY PeriodsAssumption DEF NoRequest, Requested, Retained, Numbers, Default, Left

LEMMA RestartedType ==
  ASSUME NEW a \in Generator
  PROVE  /\ Restarted(a) \in Generator /\ Restarted(a).state = "SelfCheck"
         /\ Restarted(a).request = NoRequest /\ Restarted(a).retained = NoRequest
<1> DEFINE no == FALSE
           b == [a EXCEPT !.state = "SelfCheck"]
           c == [b EXCEPT !.request = NoRequest]
           d == [c EXCEPT !.retained = NoRequest]
           e == [d EXCEPT !.issued = no]
           f == [e EXCEPT !.told = no]
           h == [f EXCEPT !.active = "none"]
<1>0. no \in BOOLEAN
  OBVIOUS
<1>1. Restarted(a) = h
  BY DEF Restarted, NoReference
<1> HIDE DEF no
<1>2. b \in Generator /\ b.state = "SelfCheck"
  BY StateSet
<1> HIDE DEF b
<1>3. c \in Generator /\ c.state = b.state /\ c.request = NoRequest
  BY <1>2, RequestSet, NoRequestType
<1> HIDE DEF c
<1>4. d \in Generator /\ d.state = c.state /\ d.request = c.request /\ d.retained = NoRequest
  BY <1>3, RetainedSet, NoRequestType
<1> HIDE DEF d
<1>5. e \in Generator /\ e.state = d.state /\ e.request = d.request /\ e.retained = d.retained
  BY <1>0, <1>4, IssuedSet
<1> HIDE DEF e
<1>6. f \in Generator /\ f.state = e.state /\ f.request = e.request /\ f.retained = e.retained
  BY <1>0, <1>5, ToldSet
<1> HIDE DEF f
<1>7. h \in Generator /\ h.state = f.state /\ h.request = f.request /\ h.retained = f.retained
  BY <1>6, ActiveSet
<1> HIDE DEF h
<1> QED
  BY <1>1, <1>2, <1>3, <1>4, <1>5, <1>6, <1>7

LEMMA ActivatedType ==
  ASSUME NEW a \in Generator
  PROVE  /\ Activated(a) \in Generator
         /\ Activated(a).state = a.state /\ Activated(a).issued = a.issued
         /\ Activated(a).active = a.active
         /\ \/ /\ a.request.kind \in {"analytic", "sampled"}
               /\ Activated(a).retained = a.request /\ Activated(a).request = NoRequest
            \/ /\ a.request.kind \in {"none", "waypoint"}
               /\ Activated(a).retained = a.retained /\ Activated(a).request = a.request
<1> DEFINE b == [a EXCEPT !.retained = a.request]
           c == [b EXCEPT !.request = NoRequest]
<1>1. a.request \in Requested
  BY DEF Generator, Requested
<1>2. CASE a.request.kind \in {"analytic", "sampled"}
  <2>1. Activated(a) = c
    BY <1>2 DEF Activated
  <2>2. a.request \in Retained
    BY <1>1, <1>2 DEF Requested, Retained, Kinds
  <2>3. /\ b \in Generator /\ b.state = a.state /\ b.retained = a.request
        /\ b.issued = a.issued /\ b.active = a.active
    BY <2>2, RetainedSet
  <2> HIDE DEF b
  <2>4. /\ c \in Generator /\ c.state = b.state /\ c.retained = b.retained
        /\ c.issued = b.issued /\ c.active = b.active /\ c.request = NoRequest
    BY <2>3, NoRequestType, RequestSet
  <2> HIDE DEF c
  <2> QED
    BY <1>2, <2>1, <2>3, <2>4
<1>3. CASE a.request.kind \notin {"analytic", "sampled"}
  BY <1>1, <1>3 DEF Activated, Requested
<1> QED
  BY <1>2, <1>3

LEMMA OlderType ==
  ASSUME NEW a \in Generator
  PROVE  /\ Older(a) \in Generator
         /\ Older(a).state = a.state /\ Older(a).issued = a.issued
         /\ Older(a).request = [a.request EXCEPT !.left = Sooner(@)]
         /\ Older(a).retained = [a.retained EXCEPT !.left = Sooner(@)]
         /\ Older(a).status = (IF a.status = 0 THEN 0 ELSE a.status - 1)
         /\ Older(a).publication = (IF a.publication = 0 THEN 0 ELSE a.publication - 1)
<1> DEFINE req == [a.request EXCEPT !.left = Sooner(@)]
           ret == [a.retained EXCEPT !.left = Sooner(@)]
           sta == IF a.status = 0 THEN 0 ELSE a.status - 1
           pub == IF a.publication = 0 THEN 0 ELSE a.publication - 1
           b == [a EXCEPT !.request = req]
           c == [b EXCEPT !.retained = ret]
           d == [c EXCEPT !.status = sta]
           e == [d EXCEPT !.publication = pub]
<1>1. a.request \in Requested /\ a.retained \in Retained
  BY DEF Generator, Requested, Retained
<1>2. req \in Requested
  BY <1>1, PeriodsAssumption DEF Requested, Left, Sooner
<1>3. ret \in Retained
  BY <1>1, PeriodsAssumption DEF Retained, Left, Sooner
<1>4. sta \in 0..StatusPeriod /\ pub \in 0..ActivePeriod
  BY PeriodsAssumption DEF Generator
<1>5. Older(a) = [a EXCEPT !.request = req, !.retained = ret, !.status = sta, !.publication = pub]
  BY DEF Older
<1> HIDE DEF req, ret, sta, pub
<1>6. Older(a) = e
  BY <1>5
<1>7. /\ b \in Generator /\ b.state = a.state /\ b.issued = a.issued /\ b.request = req
  BY <1>2, RequestSet
<1> HIDE DEF b
<1>8. /\ c \in Generator /\ c.state = b.state /\ c.issued = b.issued /\ c.request = b.request
      /\ c.retained = ret
  BY <1>3, <1>7, RetainedSet
<1> HIDE DEF c
<1>9. /\ d \in Generator /\ d.state = c.state /\ d.issued = c.issued /\ d.request = c.request
      /\ d.retained = c.retained /\ d.status = sta
  BY <1>4, <1>8, StatusSet
<1> HIDE DEF d
<1>10. /\ e \in Generator /\ e.state = d.state /\ e.issued = d.issued /\ e.request = d.request
       /\ e.retained = d.retained /\ e.status = d.status /\ e.publication = pub
  BY <1>4, <1>9, PublicationSet
<1> HIDE DEF e
<1> QED
  BY <1>6, <1>7, <1>8, <1>9, <1>10 DEF req, ret, sta, pub

\* A deadline comes nearer by the tick that passes, and no further.
LEMMA DeadlineNears ==
  ASSUME NEW a \in Generator, a.state # "SelfCheck", a.request.kind = "none"
  PROVE  /\ NextDeadline(a) \in 0..(Never - 1)
         /\ NextDeadline(Older(a)) >= Sooner(NextDeadline(a))
<1> DEFINE b == Older(a)
<1>1. /\ a.status \in 0..StatusPeriod /\ a.publication \in 0..ActivePeriod
      /\ a.retained.left \in 0..Never /\ a.state \in {"Ready", "Active"}
  BY DEF Generator, Left
<1>2. /\ b.state = a.state /\ b.request.kind = "none" /\ b.retained.left = Sooner(a.retained.left)
      /\ b.status = (IF a.status = 0 THEN 0 ELSE a.status - 1)
      /\ b.publication = (IF a.publication = 0 THEN 0 ELSE a.publication - 1)
  <2>1. a.request \in Requested /\ a.retained \in Retained
    BY DEF Generator, Requested, Retained
  <2>2. b.request = [a.request EXCEPT !.left = Sooner(@)]
    BY OlderType
  <2>3. b.retained = [a.retained EXCEPT !.left = Sooner(@)]
    BY OlderType
  <2>4. b.request.kind = a.request.kind
    BY <2>1, <2>2 DEF Requested
  <2>5. b.retained.left = Sooner(a.retained.left)
    BY <2>1, <2>3 DEF Retained
  <2> QED
    BY <2>4, <2>5, OlderType
<1> HIDE DEF b
<1>3. CASE a.state = "Ready"
  BY <1>1, <1>2, <1>3, PeriodsAssumption DEF NextDeadline, Sooner, b
<1>4. CASE a.state = "Active"
  <2>1. NextDeadline(a) = LET pace == IF a.status < a.publication THEN a.status ELSE a.publication
                          IN  IF a.retained.left < pace THEN a.retained.left ELSE pace
    BY <1>4 DEF NextDeadline
  <2>2. NextDeadline(b) = LET pace == IF b.status < b.publication THEN b.status ELSE b.publication
                          IN  IF b.retained.left < pace THEN b.retained.left ELSE pace
    BY <1>2, <1>4 DEF NextDeadline
  <2> QED
    BY <1>1, <1>2, <2>1, <2>2, PeriodsAssumption DEF Sooner, b
<1> QED
  BY <1>1, <1>3, <1>4

LEMMA PlannedTurned ==
  ASSUME NEW a \in Generator, a.active = "none", NEW solved \in BOOLEAN, NEW life \in Left,
         a.state # "SelfCheck", a.request.kind = "waypoint"
  PROVE  Turned(a, Planned(a, solved, life), FALSE, solved)
<1> DEFINE taken == [a EXCEPT !.request = NoRequest]
           new == [kind |-> "polynomial", id |-> a.request.id, left |-> life,
                   fatal |-> a.request.fatal]
           b == [taken EXCEPT !.state = "Active"]
           c == [b EXCEPT !.status = 0]
           d == [c EXCEPT !.publication = 0]
           e == [d EXCEPT !.retained = new]
           f == [taken EXCEPT !.state = "SelfCheck"]
<1>1. /\ taken \in Generator /\ taken.request = NoRequest /\ taken.retained = a.retained
      /\ taken.issued = a.issued /\ taken.active = "none"
  BY NoRequestType, RequestSet
<1>2. new \in Retained /\ new.id = a.request.id /\ new.kind = "polynomial"
  BY DEF Generator, Retained, Kinds
<1>3. CASE solved
  <2>1. Planned(a, solved, life) = PublishActive(e)
    BY <1>3 DEF Planned
  <2> HIDE DEF taken, new
  <2>2. /\ b \in Generator /\ b.state = "Active" /\ b.request = NoRequest
        /\ b.issued = a.issued /\ b.active = "none"
    BY <1>1, StateSet
  <2> HIDE DEF b
  <2>3. /\ c \in Generator /\ c.state = "Active" /\ c.request = NoRequest
        /\ c.issued = a.issued /\ c.active = "none"
    BY <2>2, StatusSet, PeriodsAssumption
  <2> HIDE DEF c
  <2>4. /\ d \in Generator /\ d.state = "Active" /\ d.request = NoRequest
        /\ d.issued = a.issued /\ d.active = "none"
    BY <2>3, PublicationSet, PeriodsAssumption
  <2> HIDE DEF d
  <2>5. /\ e \in Generator /\ e.state = "Active" /\ e.request = NoRequest
        /\ e.issued = a.issued /\ e.active = "none" /\ e.retained = new
    BY <1>2, <2>4, RetainedSet
  <2> HIDE DEF e
  <2>6. Outputs(e, PublishActive(e))
    BY <2>5, ActiveOutputs
  <2> QED
    BY <1>2, <1>3, <2>1, <2>5, <2>6 DEF Turned, Taken, Waits, Outputs
<1>4. CASE ~solved
  <2>1. Planned(a, solved, life) = f
    BY <1>4 DEF Planned
  <2> HIDE DEF taken
  <2>2. /\ f \in Generator /\ f.state = "SelfCheck" /\ f.request = NoRequest
        /\ f.issued = a.issued /\ f.active = "none" /\ f.retained = a.retained
    BY <1>1, StateSet
  <2> QED
    BY <1>4, <2>1, <2>2 DEF Turned, GivenUp, Waits
<1> QED
  BY <1>3, <1>4

LEMMA BegunTurned ==
  ASSUME NEW a \in Generator, a.active = "none", NEW solved \in BOOLEAN,
         a.request.kind \in {"analytic", "sampled"}
  PROVE  Turned(a, Begun(a), FALSE, solved)
<1> DEFINE b == Activated(a)
           c == [b EXCEPT !.state = "Active"]
           d == [c EXCEPT !.status = StatusPeriod]
           e == [d EXCEPT !.publication = ActivePeriod]
<1>1. /\ b \in Generator /\ b.issued = a.issued /\ b.active = "none"
      /\ b.retained = a.request /\ b.request = NoRequest
  BY ActivatedType
<1>2. Begun(a) = e
  BY DEF Begun
<1> HIDE DEF b
<1>3. /\ c \in Generator /\ c.state = "Active" /\ c.issued = a.issued /\ c.active = "none"
      /\ c.retained = a.request /\ c.request = NoRequest
  BY <1>1, StateSet
<1> HIDE DEF c
<1>4. /\ d \in Generator /\ d.state = "Active" /\ d.issued = a.issued /\ d.active = "none"
      /\ d.retained = a.request /\ d.request = NoRequest
  BY <1>3, StatusSet, PeriodsAssumption
<1> HIDE DEF d
<1>5. /\ e \in Generator /\ e.state = "Active" /\ e.issued = a.issued /\ e.active = "none"
      /\ e.retained = a.request /\ e.request = NoRequest
  BY <1>4, PublicationSet, PeriodsAssumption
<1> HIDE DEF e
<1> QED
  BY <1>2, <1>5 DEF Turned, Taken, Waits

LEMMA ContinuedTurned ==
  ASSUME NEW a \in Generator, a.active = "none", NEW solved \in BOOLEAN,
         a.state = "Active", a.request.kind # "waypoint"
  PROVE  Turned(a, Continued(Activated(a)), FALSE, solved)
<1> DEFINE b == Activated(a)
           c == Continued(b)
<1>1. /\ b \in Generator /\ b.state = "Active" /\ b.issued = a.issued /\ b.active = "none"
      /\ \/ /\ a.request.kind \in {"analytic", "sampled"}
            /\ b.retained = a.request /\ b.request = NoRequest
         \/ b.retained = a.retained /\ b.request = a.request
  BY ActivatedType
<1> HIDE DEF b
<1>2. /\ c \in Generator /\ c.issued = b.issued /\ c.request = b.request /\ c.retained = b.retained
      /\ c.active \in {"none", c.retained.kind}
  <2>1. CASE b.retained.kind = "none"
    BY <1>1, <2>1, StateSet DEF Continued
  <2>2. CASE b.retained.kind # "none" /\ Expired(b)
    BY <1>1, <2>2, ReadiedOutputs DEF Continued
  <2>3. CASE b.retained.kind # "none" /\ ~Expired(b)
    BY <1>1, <2>3, ActiveOutputs DEF Continued, Outputs
  <2> QED
    BY <2>1, <2>2, <2>3
<1> HIDE DEF c
<1>3. Turned(a, c, FALSE, solved)
  BY <1>1, <1>2 DEF Turned, Kept, Taken, Waits
<1> QED
  BY <1>3 DEF b, c

LEMMA AdvancedTurned ==
  ASSUME NEW a \in Generator, a.active = "none", NEW solved \in BOOLEAN, NEW life \in Left
  PROVE  Turned(a, Advanced(a, solved, life), FALSE, solved)
<1>1. /\ a.state \in {"SelfCheck", "Ready", "Active"}
      /\ a.request.kind \in {"none", "analytic", "sampled", "waypoint"}
  BY DEF Generator
<1>2. CASE a.state = "SelfCheck"
  <2>1. Advanced(a, solved, life) = Readied(a)
    BY <1>2 DEF Advanced
  <2> QED
    BY <1>2, <2>1, ReadiedOutputs DEF Turned, Kept, Waits
<1>3. CASE a.state # "SelfCheck" /\ a.request.kind = "waypoint"
  <2>1. Advanced(a, solved, life) = Planned(a, solved, life)
    BY <1>3 DEF Advanced
  <2> QED
    BY <1>3, <2>1, PlannedTurned
<1>4. CASE a.state = "Ready" /\ a.request.kind \in {"analytic", "sampled"}
  <2>1. Advanced(a, solved, life) = Begun(a)
    BY <1>4 DEF Advanced
  <2> QED
    BY <1>4, <2>1, BegunTurned
<1>5. CASE a.state = "Ready" /\ a.request.kind = "none"
  <2>1. Advanced(a, solved, life) = PublishStatus(a)
    BY <1>5 DEF Advanced
  <2> QED
    BY <1>5, <2>1, StatusOutputs DEF Turned, Kept, Waits, Outputs
<1>6. CASE a.state = "Active" /\ a.request.kind # "waypoint"
  <2>1. Advanced(a, solved, life) = Continued(Activated(a))
    BY <1>6 DEF Advanced
  <2> QED
    BY <1>6, <2>1, ContinuedTurned
<1> QED
  BY <1>1, <1>2, <1>3, <1>4, <1>5, <1>6

LEMMA UpdatedTurned ==
  ASSUME NEW a \in Generator, NEW default \in BOOLEAN, NEW solved \in BOOLEAN, NEW life \in Left
  PROVE  Turned(a, Updated(a, default, solved, life), default, solved)
<1> DEFINE no == FALSE
           yes == TRUE
           b == [a EXCEPT !.told = no]
           c == [b EXCEPT !.active = "none"]
           d == Advanced(c, solved, life)
           e == [d EXCEPT !.request = DefaultRequest]
           f == [e EXCEPT !.issued = yes]
<1>1. Updated(a, default, solved, life) =
        IF default /\ ~d.issued /\ d.state = "Ready" THEN f ELSE d
  BY DEF Updated, Accepted
<1>2. no \in BOOLEAN /\ yes \in BOOLEAN
  OBVIOUS
<1>0. yes = TRUE
  OBVIOUS
<1> HIDE DEF no, yes
<1>3. /\ b \in Generator /\ b.state = a.state /\ b.request = a.request
      /\ b.retained = a.retained /\ b.issued = a.issued
  BY <1>2, ToldSet
<1> HIDE DEF b
<1>4. /\ c \in Generator /\ c.state = a.state /\ c.request = a.request
      /\ c.retained = a.retained /\ c.issued = a.issued /\ c.active = "none"
  BY <1>3, ActiveSet DEF Kinds
<1> HIDE DEF c
<1>5. Turned(c, d, FALSE, solved)
  BY <1>4, AdvancedTurned
<1> HIDE DEF d
<1>6. Turned(a, d, default, solved)
  BY <1>4, <1>5 DEF Turned, Kept, Taken, GivenUp, Waits
<1>7. CASE default /\ ~d.issued /\ d.state = "Ready"
  <2>1. DefaultRequest \in Requested
    BY PeriodsAssumption DEF DefaultRequest, Requested, Numbers, Default, Left
  <2>2. d \in Generator
    BY <1>6 DEF Turned
  <2>3. /\ e \in Generator /\ e.state = d.state /\ e.request = DefaultRequest
        /\ e.retained = d.retained /\ e.active = d.active
    BY <2>1, <2>2, RequestSet
  <2> HIDE DEF e
  <2>4. /\ f \in Generator /\ f.state = d.state /\ f.request = DefaultRequest
        /\ f.retained = d.retained /\ f.active = d.active
    BY <1>2, <2>3, IssuedSet
  <2>5. f.issued = yes
    BY <1>2, <2>3, IssuedSet
  <2> HIDE DEF f
  <2>6. d.issued = a.issued
    BY <1>4, <1>5 DEF Turned, Kept, Taken, GivenUp, Waits
  <2>7. ~a.issued /\ f.issued
    BY <1>0, <1>7, <2>5, <2>6
  <2>8. Turned(a, f, default, solved)
    BY <1>6, <1>7, <2>4, <2>7 DEF Turned, Kept, Taken, GivenUp, Waits
  <2> QED
    BY <1>1, <1>7, <2>8
<1>8. CASE ~(default /\ ~d.issued /\ d.state = "Ready")
  BY <1>1, <1>6, <1>8
<1> QED
  BY <1>7, <1>8

-----------------------------------------------------------------------------
(* The stamps.                                                              *)

LEMMA OfThree ==
  ASSUME NEW a, NEW b, NEW c, NEW S \in SUBSET {a, b, c}
  PROVE  IsFiniteSet(S) /\ Cardinality(S) \in 0..3
<1>1. IsFiniteSet({a}) /\ Cardinality({a}) = 1
  BY FS_Singleton
<1>2. IsFiniteSet({a} \cup {b}) /\ Cardinality({a} \cup {b}) \in 1..2
  BY <1>1, FS_AddElement
<1>3. IsFiniteSet({a} \cup {b} \cup {c}) /\ Cardinality({a} \cup {b} \cup {c}) \in 1..3
  BY <1>2, FS_AddElement
<1>4. {a} \cup {b} \cup {c} = {a, b, c}
  OBVIOUS
<1>5. IsFiniteSet(S) /\ Cardinality(S) <= Cardinality({a, b, c})
  BY <1>3, <1>4, FS_Subset
<1>6. Cardinality(S) \in Nat
  BY <1>5, FS_CardinalityType
<1> QED
  BY <1>3, <1>4, <1>5, <1>6

\* The rank of a number among three.
Rank(raw, j) == Cardinality({raw[i] : i \in {i \in Kinds : raw[i] \in 1..raw[j]}})

LEMMA RankType ==
  ASSUME NEW raw \in [Kinds -> Nat], NEW j \in Kinds
  PROVE  Rank(raw, j) \in 0..3
<1>1. {raw[i] : i \in {i \in Kinds : raw[i] \in 1..raw[j]}} \in
        SUBSET {raw["analytic"], raw["sampled"], raw["polynomial"]}
  BY DEF Kinds
<1> QED
  BY <1>1, OfThree DEF Rank

LEMMA RankGrows ==
  ASSUME NEW raw \in [Kinds -> Nat], NEW j \in Kinds, NEW k \in Kinds, raw[j] < raw[k]
  PROVE  Rank(raw, j) < Rank(raw, k)
<1> DEFINE below(n) == {raw[i] : i \in {i \in Kinds : raw[i] \in 1..n}}
<1>1. below(raw[k]) \in SUBSET {raw["analytic"], raw["sampled"], raw["polynomial"]}
  BY DEF Kinds
<1>2. IsFiniteSet(below(raw[k])) /\ Cardinality(below(raw[k])) \in 0..3
  BY <1>1, OfThree
<1>3. below(raw[j]) \in SUBSET below(raw[k])
  BY DEF Kinds
<1>4. raw[k] \in below(raw[k]) /\ raw[k] \notin below(raw[j])
  BY DEF Kinds
<1>5. /\ Cardinality(below(raw[j])) <= Cardinality(below(raw[k]))
      /\ Cardinality(below(raw[j])) # Cardinality(below(raw[k]))
  <2> HIDE DEF below
  <2> QED
    BY <1>2, <1>3, <1>4, FS_Subset
<1>6. Cardinality(below(raw[j])) \in 0..3
  <2>1. below(raw[j]) \in SUBSET {raw["analytic"], raw["sampled"], raw["polynomial"]}
    BY DEF Kinds
  <2> QED
    BY <2>1, OfThree
<1> QED
  BY <1>2, <1>5, <1>6 DEF Rank

\* A stamp of now is newer than the others, unless the clock stands still.
LEMMA StampedNewest ==
  ASSUME TypeOK, NEW k \in Kinds
  PROVE  /\ Stamped(k) \in [Kinds -> 0..3]
         /\ ~pipe.paused => \A j \in Kinds \ {k} : Stamped(k)[j] < Stamped(k)[k]
<1> DEFINE top == CHOOSE n \in 0..3 : /\ \E j \in Kinds : ports[j].stamp = n
                                      /\ \A j \in Kinds : ports[j].stamp <= n
           raw == [j \in Kinds |-> IF j # k THEN ports[j].stamp
                                   ELSE IF same /\ pipe.paused THEN top ELSE top + 1]
<1>1. \A j \in Kinds : ports[j].stamp \in 0..3
  BY DEF TypeOK
<1>2. \E n \in 0..3 : /\ \E j \in Kinds : ports[j].stamp = n
                      /\ \A j \in Kinds : ports[j].stamp <= n
  BY <1>1 DEF Kinds
<1>3. top \in 0..3 /\ \A j \in Kinds : ports[j].stamp <= top
  BY <1>2
<1> HIDE DEF top
<1>4. raw \in [Kinds -> Nat]
  BY <1>1, <1>3
<1>5. ~pipe.paused => \A j \in Kinds \ {k} : raw[j] < raw[k]
  BY <1>1, <1>3
<1>6. Stamped(k) = [j \in Kinds |-> Rank(raw, j)]
  BY DEF Stamped, Rank, top
<1> HIDE DEF raw
<1> QED
  BY <1>4, <1>5, <1>6, RankType, RankGrows

-----------------------------------------------------------------------------
(* The steps.                                                               *)

LEMMA OlderNames ==
  ASSUME NEW a \in Generator
  PROVE  /\ Older(a).request.kind = a.request.kind /\ Older(a).request.id = a.request.id
         /\ Older(a).retained.kind = a.retained.kind /\ Older(a).retained.id = a.retained.id
<1>1. a.request \in Requested /\ a.retained \in Retained
  BY DEF Generator, Requested, Retained
<1>2. Older(a).request = [a.request EXCEPT !.left = Sooner(@)]
  BY OlderType
<1>3. Older(a).retained = [a.retained EXCEPT !.left = Sooner(@)]
  BY OlderType
<1>4. Older(a).request.kind = a.request.kind /\ Older(a).request.id = a.request.id
  BY <1>1, <1>2 DEF Requested
<1>5. Older(a).retained.kind = a.retained.kind /\ Older(a).retained.id = a.retained.id
  BY <1>1, <1>3 DEF Retained
<1> QED
  BY <1>4, <1>5

LEMMA NewGeneratorType == NewGenerator \in Generator
BY PeriodsAssumption, NoRequestType
   DEF NewGenerator, Generator, Requested, Retained, NoReference

LEMMA InitInv == Init => Inv
<1> SUFFICES ASSUME Init PROVE Inv
  OBVIOUS
<1> USE DEF Init
<1>1. pipe \in [host : {"module", "node"}, paused : BOOLEAN, default : BOOLEAN]
  BY PipelinesAssumption
<1>2. TypeOK
  <2>1. running \in BOOLEAN
    BY DEF Module
  <2>2. /\ woken \in BOOLEAN /\ fresh \in BOOLEAN /\ same \in BOOLEAN
    OBVIOUS
  <2>3. ports \in [Kinds -> [id : Numbers, stamp : 0..3, unread : BOOLEAN, fatal : BOOLEAN]]
    BY PeriodsAssumption DEF Numbers, Default
  <2>4. /\ pipe \in Pipelines /\ g \in Generator
        /\ alarm \in 0..Never /\ armed \in 0..Never /\ phase \in {"idle", "serving"}
        /\ waiting \in SUBSET Request /\ serving \in SUBSET Request
        /\ made \in 0..Requests /\ instant \in 0..Requests
        /\ strategy \in {"NMPC", "FLATNESS"}
    BY PeriodsAssumption, NewGeneratorType
  <2>5. cache \in Tracked /\ newest \in Tracked
    BY PeriodsAssumption DEF Nothing, Tracked, Numbers, Default
  <2>6. last \in [id : Numbers, rules : BOOLEAN]
    BY PeriodsAssumption DEF Numbers, Default
  <2> QED
    BY <2>1, <2>2, <2>3, <2>4, <2>5, <2>6 DEF TypeOK
<1>3. /\ g.request.kind = "none" /\ g.request.id = 0 /\ g.state = "SelfCheck"
      /\ g.retained.kind = "none" /\ g.retained.id = 0
  BY DEF NewGenerator, NoRequest, NoReference
<1>4. Dated
  BY DEF Dated
<1>5. Named
  BY <1>3, PeriodsAssumption DEF Named, Pending, Default
<1>6. Alarmed
  BY <1>1, <1>3 DEF Alarmed, Module
<1>7. Ordered /\ Ruled
  BY <1>3, PeriodsAssumption DEF Ordered, Ruled, Pending, Default
<1>8. Newest
  BY DEF Newest, Nothing, Kinds
<1> QED
  BY <1>2, <1>4, <1>5, <1>6, <1>7, <1>8 DEF Inv

\* What a part of the invariant does not speak of may change.
LEMMA DatedSame == Dated /\ UNCHANGED <<instant, made, fresh>> => Dated'
BY DEF Dated

LEMMA NamedSame == Named /\ UNCHANGED <<g, waiting, serving, made>> => Named'
BY DEF Named, Pending

LEMMA AlarmedSame == Alarmed /\ UNCHANGED <<pipe, g, owner>> => Alarmed'
BY DEF Alarmed, owner, Module

LEMMA OrderedSame ==
  Ordered /\ UNCHANGED <<pipe, waiting, serving, made, instant, last>> => Ordered'
BY DEF Ordered, InOrder, Module, Pending

LEMMA RuledSame == Ruled /\ UNCHANGED <<pipe, g, last>> => Ruled'
BY DEF Ruled, InOrder, Module

LEMMA NewestSame == Newest /\ UNCHANGED <<pipe, ports, cache, newest>> => Newest'
BY DEF Newest, Module, Takes

LEMMA ArriveStep ==
  ASSUME Inv, NEW kind \in {"analytic", "sampled", "waypoint", "reset"}, Arrive(kind)
  PROVE  Inv'
<1> DEFINE x == [kind |-> kind, id |-> made + 1, at |-> instant']
<1> USE DEF Inv
<1>1. /\ made \in 0..Requests /\ made < Requests /\ made' = made + 1 /\ Requests \in Nat
      /\ instant \in 0..Requests /\ instant <= made
      /\ instant' = (IF fresh \/ ~pipe.paused THEN instant + 1 ELSE instant) /\ fresh' = FALSE
      /\ waiting' \in {waiting, waiting \cup {x}}
      /\ waiting \subseteq Request /\ serving \subseteq Request
      /\ UNCHANGED <<pipe, g, owner, serving, ports, same, controller, last, newest>>
  BY PeriodsAssumption DEF Arrive, TypeOK, Dated
<1>2. instant' \in 1..made'
  BY <1>1 DEF Dated
<1>3. x \in Request /\ x.id = made + 1 /\ x.at = instant'
  BY <1>1, <1>2 DEF Request
<1> HIDE DEF x
<1>4. TypeOK'
  <2>1. made' \in 0..Requests /\ instant' \in 0..Requests
    BY <1>1, <1>2
  <2>2. fresh' \in BOOLEAN
    BY <1>1
  <2>3. waiting' \in SUBSET Request
    BY <1>1, <1>3
  <2> QED
    BY <1>1, <2>1, <2>2, <2>3 DEF TypeOK, owner, controller
<1>5. Dated'
  BY <1>1, <1>2 DEF Dated
<1>6. Named'
  <2>1. Pending' \subseteq Pending \cup {x}
    BY <1>1 DEF Pending
  <2>2. \A y \in Pending : y.id <= made /\ y.id \in Nat
    BY <1>1 DEF Named, Pending, Request
  <2>3. \A y \in Pending' : y.id <= made'
    BY <1>1, <1>3, <2>1, <2>2
  <2>4. \A y, z \in Pending' : y.id = z.id => y = z
    BY <1>1, <1>3, <2>1, <2>2 DEF Named
  <2>5. waiting' \cap serving' = {}
    BY <1>1, <1>3, <2>2 DEF Named, Pending
  <2>6. \A n \in {g.request.id, g.retained.id} : n # made + 1 /\ (n <= made' \/ n = Default)
    BY <1>1 DEF Named, Default, TypeOK, Generator, Numbers
  <2> QED
    BY <1>1, <1>3, <2>1, <2>3, <2>4, <2>5, <2>6 DEF Named
<1>7. Ordered'
  <2> SUFFICES ASSUME InOrder PROVE Ordered'
    BY <1>1 DEF Ordered, InOrder, Module
  <2>1. \A y \in Pending : y.id <= made /\ y.id \in Nat
    BY <1>1 DEF Named, Pending, Request
  <2>2. Module => instant' = made'
    BY <1>1 DEF Ordered, InOrder
  <2>3. \A y \in Pending' : y \in Pending \/ y = x
    BY <1>1 DEF Pending
  <2>4. last.id <= made /\ last.id \in Nat /\ \A y \in Pending : last.id < y.id
    BY PeriodsAssumption DEF Ordered, TypeOK, Numbers, Default
  <2>5. Module => \A y \in Pending' : y.at = y.id
    BY <1>1, <1>3, <2>2, <2>3 DEF Ordered
  <2>6. \A y \in serving, z \in waiting' : y.id < z.id
    BY <1>1, <1>3, <2>1 DEF Ordered, Pending
  <2>7. last.id <= made' /\ \A y \in Pending' : last.id < y.id
    BY <1>1, <1>3, <2>3, <2>4
  <2>8. pipe' = pipe /\ last' = last /\ serving' = serving
    BY <1>1
  <2> QED
    BY <2>2, <2>5, <2>6, <2>7, <2>8 DEF Ordered, Module
<1>8. Alarmed' /\ Ruled' /\ Newest'
  BY <1>1, AlarmedSame, RuledSame, NewestSame DEF controller
<1> QED
  BY <1>4, <1>5, <1>6, <1>7, <1>8

LEMMA CollectStep == Inv /\ Collect => Inv'
<1> SUFFICES ASSUME Inv, Collect PROVE Inv'
  OBVIOUS
<1> USE DEF Inv
<1>1. /\ running /\ phase = "idle" /\ phase' = "serving" /\ serving' = waiting /\ waiting' = {}
      /\ alarm' = (IF alarm = 0 THEN Never ELSE alarm)
      /\ armed' = (IF alarm = 0 THEN Never ELSE armed)
      /\ UNCHANGED <<pipe, g, running, made, instant, fresh, ports, same, controller, last, newest>>
  BY DEF Collect
<1>2. TypeOK'
  <2>1. woken' \in BOOLEAN
    BY DEF Collect
  <2>2. alarm' \in 0..Never /\ armed' \in 0..Never
    BY <1>1, PeriodsAssumption DEF TypeOK
  <2> QED
    BY <1>1, <2>1, <2>2 DEF TypeOK, controller
<1>3. Pending' \subseteq Pending
  BY <1>1 DEF Pending
<1>4. Named'
  BY <1>1, <1>3 DEF Named
<1>5. Alarmed'
  BY <1>1 DEF Alarmed, Module
<1>6. Ordered'
  BY <1>1, <1>3 DEF Ordered, InOrder, Module
<1>7. Dated' /\ Ruled' /\ Newest'
  BY <1>1, DatedSame, RuledSame, NewestSame DEF controller
<1> QED
  BY <1>2, <1>4, <1>5, <1>6, <1>7

\* The next request to be served is the oldest one, when they are served in order.
LEMMA OldestServed ==
  ASSUME Inv, InOrder, NEW x \in serving, \A y \in serving \ {x} : Before(x, y)
  PROVE  \A y \in Pending \ {x} : x.id < y.id
<1>1. ASSUME NEW y \in serving, y # x PROVE x.id < y.id
  <2>1. x \in Request /\ y \in Request /\ x.id # y.id
    BY <1>1 DEF Inv, TypeOK, Named, Pending
  <2>2. Before(x, y)
    BY <1>1
  <2>3. Module => x.at = x.id /\ y.at = y.id
    BY <1>1 DEF Inv, Ordered, Pending
  <2> QED
    BY <2>1, <2>2, <2>3 DEF Before, Request
<1>2. ASSUME NEW y \in waiting PROVE x.id < y.id
  BY <1>2 DEF Inv, Ordered
<1> QED
  BY <1>1, <1>2 DEF Pending

\* Serving x puts it in the place of the request that waited, or leaves everything, or restarts
\* the generator.
LEMMA ServeCases ==
  ASSUME Inv, NEW x \in serving, Serve(x)
  PROVE  /\ g' \in Generator /\ x \in Request /\ last' \in [id : Numbers, rules : BOOLEAN]
         /\ \/ /\ g'.state = "SelfCheck" /\ g'.request = NoRequest /\ g'.retained = NoRequest
               /\ last' = Later(x, FALSE)
            \/ /\ g' = g /\ last' = last
            \/ /\ g'.request.kind \in {"analytic", "sampled", "waypoint"} /\ g'.request.id = x.id
               /\ g'.retained = g.retained /\ g'.state = g.state /\ g'.issued = g.issued
               /\ last' = Later(x, TRUE)
<1>1. x \in Request /\ g \in Generator /\ last \in [id : Numbers, rules : BOOLEAN]
  BY DEF Inv, TypeOK
<1>2. x.id \in Numbers
  BY <1>1, PeriodsAssumption DEF Request, Numbers, Default
<1>3. Later(x, TRUE) \in [id : Numbers, rules : BOOLEAN]
  BY <1>1, <1>2 DEF Later
<1>4. Later(x, FALSE) \in [id : Numbers, rules : BOOLEAN]
  BY <1>1, <1>2 DEF Later
<1>5. CASE x.kind = "reset"
  BY <1>1, <1>4, <1>5, RestartedType DEF Serve
<1>6. CASE x.kind # "reset"
  <2>1. PICK c \in Contents, life \in Lives \cup {Never} :
          LET evaluable == (Module => Plain(x.kind, c)) /\ Evaluable(x.kind, c)
              request   == [kind |-> x.kind, id |-> x.id, left |-> life, fatal |-> c.fatal]
          IN  /\ g' = Accepted(g, request, evaluable)
              /\ last' = IF evaluable THEN Later(x, TRUE) ELSE last
    BY <1>6 DEF Serve
  <2> DEFINE evaluable == (Module => Plain(x.kind, c)) /\ Evaluable(x.kind, c)
             request   == [kind |-> x.kind, id |-> x.id, left |-> life, fatal |-> c.fatal]
  <2>2. c.fatal \in BOOLEAN /\ life \in Left
    BY ContentsAssumption, PeriodsAssumption DEF Left
  <2>3. x.kind \in {"analytic", "sampled", "waypoint"}
    BY <1>1, <1>6 DEF Request
  <2>4. request \in Requested /\ request.kind = x.kind /\ request.id = x.id
    BY <1>2, <2>2, <2>3 DEF Requested
  <2>5. CASE evaluable
    <3>1. g' = [g EXCEPT !.request = request] /\ last' = Later(x, TRUE)
      BY <2>1, <2>5 DEF Accepted
    <3> HIDE DEF request
    <3>2. /\ g' \in Generator /\ g'.request = request /\ g'.retained = g.retained
          /\ g'.state = g.state /\ g'.issued = g.issued
      BY <1>1, <2>4, <3>1, RequestSet
    <3> QED
      BY <1>1, <1>3, <2>3, <2>4, <3>1, <3>2
  <2>6. CASE ~evaluable
    <3>1. g' = g /\ last' = last
      BY <2>1, <2>6 DEF Accepted
    <3> QED
      BY <1>1, <3>1
  <2> QED
    BY <2>5, <2>6
<1> QED
  BY <1>5, <1>6

LEMMA ServeStep ==
  ASSUME Inv, NEW x \in serving, Serve(x)
  PROVE  Inv'
<1> USE DEF Inv
<1>1. /\ phase = "serving" /\ x \in serving /\ (\A y \in serving \ {x} : Before(x, y))
      /\ serving' = serving \ {x}
      /\ UNCHANGED <<pipe, owner, waiting, made, instant, fresh, ports, same, controller, newest>>
  BY DEF Serve
<1>2. /\ g' \in Generator /\ x \in Request /\ last' \in [id : Numbers, rules : BOOLEAN]
      /\ \/ /\ g'.state = "SelfCheck" /\ g'.request = NoRequest /\ g'.retained = NoRequest
            /\ last' = Later(x, FALSE)
         \/ /\ g' = g /\ last' = last
         \/ /\ g'.request.kind \in {"analytic", "sampled", "waypoint"} /\ g'.request.id = x.id
            /\ g'.retained = g.retained /\ g'.state = g.state /\ g'.issued = g.issued
            /\ last' = Later(x, TRUE)
  BY ServeCases
<1>3. TypeOK'
  BY <1>1, <1>2 DEF TypeOK, owner, controller
<1>4. x \in Pending /\ x \notin Pending' /\ Pending' \subseteq Pending
  BY <1>1 DEF Pending, Named
<1>5. /\ x.id \in Nat /\ x.id # 0 /\ x.id # Default /\ x.id <= made
      /\ \A y \in Pending' : y.id \in Nat /\ y.id # 0 /\ y.id # x.id /\ y.id # Default
  BY <1>1, <1>2, <1>4, PeriodsAssumption DEF Named, Pending, Request, Default, TypeOK
<1>6. NoRequest.kind = "none" /\ NoRequest.id = 0
  BY DEF NoRequest
<1>7. Named'
  <2>1. /\ \A y \in Pending' : y.id <= made'
        /\ \A y, z \in Pending' : y.id = z.id => y = z
        /\ waiting' \cap serving' = {}
    BY <1>1, <1>4 DEF Named
  <2>2. CASE g'.request = NoRequest /\ g'.retained = NoRequest
    BY <1>1, <1>5, <1>6, <2>1, <2>2, PeriodsAssumption DEF Named, Default, TypeOK
  <2>3. CASE g' = g
    BY <1>1, <1>4, <2>1, <2>3 DEF Named
  <2>4. CASE /\ g'.request.kind \in {"analytic", "sampled", "waypoint"} /\ g'.request.id = x.id
             /\ g'.retained = g.retained /\ g'.issued = g.issued
    <3>1. x.id # g.retained.id
      BY <1>4 DEF Named
    <3>2. \A y \in Pending' : y.id # g.retained.id
      BY <1>4 DEF Named
    <3> QED
      BY <1>1, <1>5, <2>1, <2>4, <3>1, <3>2 DEF Named
  <2> QED
    BY <1>2, <2>2, <2>3, <2>4
<1>8. Alarmed'
  BY <1>1 DEF Alarmed, owner, Module
<1>9. ASSUME InOrder
      PROVE  /\ \A y \in Pending' : x.id < y.id
             /\ Later(x, TRUE).id = x.id /\ Later(x, TRUE).rules
             /\ Later(x, FALSE).id = x.id /\ ~Later(x, FALSE).rules
  <2>1. \A y \in Pending' : x.id < y.id
    BY <1>1, <1>4, <1>9, OldestServed
  <2>2. last.id < x.id /\ last.id \in Nat
    BY <1>4, <1>9, PeriodsAssumption DEF Ordered, TypeOK, Numbers, Default
  <2> QED
    BY <1>5, <2>1, <2>2 DEF Later
<1>10. InOrder' <=> InOrder
  BY <1>1 DEF InOrder, Module
<1>11. Ordered'
  <2> SUFFICES ASSUME InOrder PROVE Ordered'
    BY <1>10 DEF Ordered
  <2>1. last' = last \/ last'.id = x.id
    BY <1>2, <1>9
  <2>2. last'.id <= made /\ \A y \in Pending' : last'.id < y.id
    BY <1>4, <1>5, <1>9, <2>1 DEF Ordered
  <2> QED
    BY <1>1, <1>4, <2>2 DEF Ordered, Module
<1>12. Ruled'
  <2> SUFFICES ASSUME InOrder PROVE Ruled'
    BY <1>10 DEF Ruled
  <2>1. CASE g'.request = NoRequest /\ g'.retained = NoRequest /\ last' = Later(x, FALSE)
    <3>1. ~last'.rules
      BY <1>9, <2>1
    <3>2. g'.request.id = 0 /\ g'.retained.id = 0 /\ Default # 0
      BY <1>6, <2>1, PeriodsAssumption DEF Default
    <3> QED
      BY <3>1, <3>2 DEF Ruled
  <2>2. CASE g' = g /\ last' = last
    BY <1>1, <2>2 DEF Ruled
  <2>3. CASE /\ g'.request.id = x.id /\ g'.retained = g.retained /\ last' = Later(x, TRUE)
    <3>1. last'.id = x.id /\ last'.rules
      BY <1>9, <2>3
    <3> QED
      BY <1>1, <1>5, <2>3, <3>1 DEF Ruled
  <2> QED
    BY <1>2, <2>1, <2>2, <2>3
<1>13. Dated' /\ Newest'
  BY <1>1, DatedSame, NewestSame DEF controller
<1> QED
  BY <1>3, <1>7, <1>8, <1>11, <1>12, <1>13

\* What is due at once wakes the module; otherwise the alarm is what the generator asked for.
LEMMA ScheduledInTime ==
  ASSUME TypeOK, running => armed = alarm, running, NEW d \in 0..(Never - 1), Schedule(d)
  PROVE  /\ alarm' \in 0..Never /\ armed' = alarm' /\ woken' \in BOOLEAN
         /\ ~woken' => alarm' = d /\ d # 0
<1>1. CASE d = 0
  BY <1>1, PeriodsAssumption DEF Schedule
<1>2. CASE d # 0
  BY <1>2, PeriodsAssumption DEF Schedule, TypeOK
<1> QED
  BY <1>1, <1>2

LEMMA DeadlineType ==
  ASSUME NEW a \in Generator
  PROVE  /\ NextDeadline(a) \in 0..(Never - 1)
         /\ NextDeadline(a) # 0 => a.state # "SelfCheck" /\ a.request.kind = "none"
<1>1. CASE a.request.kind # "none" \/ a.state = "SelfCheck"
  <2>1. NextDeadline(a) = 0
    BY <1>1 DEF NextDeadline
  <2> QED
    BY <2>1, PeriodsAssumption
<1>2. CASE ~(a.request.kind # "none" \/ a.state = "SelfCheck")
  BY <1>2, DeadlineNears
<1> QED
  BY <1>1, <1>2

\* A commit keeps the types; while the clock runs what is committed has the newest stamp.
LEMMA CommitNewest ==
  ASSUME TypeOK, Newest, NEW h \in Generator, h.active \in {"none", h.retained.kind}, Commit(h),
         UNCHANGED <<pipe, cache>>
  PROVE  /\ ports' \in [Kinds -> [id : Numbers, stamp : 0..3, unread : BOOLEAN, fatal : BOOLEAN]]
         /\ same' \in BOOLEAN /\ newest' \in Tracked
         /\ Newest'
<1>1. CASE ~Published(h)
  BY <1>1, NewestSame DEF Commit, TypeOK
<1>2. CASE Published(h)
  <2> DEFINE k == h.active
             stamp == Stamped(k)
             new(j) == [ports[j] EXCEPT !.stamp = stamp[j]]
             own == [id |-> h.retained.id, stamp |-> stamp[k], unread |-> TRUE,
                     fatal |-> h.retained.fatal]
  <2>1. k \in Kinds /\ h.retained.id \in Numbers /\ h.retained.fatal \in BOOLEAN
    BY <1>2 DEF Published, Generator
  <2>2. /\ stamp \in [Kinds -> 0..3]
        /\ ~pipe.paused => \A j \in Kinds \ {k} : stamp[j] < stamp[k]
    BY <2>1, StampedNewest
  <2>3. /\ ports' = [j \in Kinds |-> IF j = k THEN own ELSE new(j)]
        /\ newest' = [kind |-> k, id |-> h.retained.id]
    BY <1>2 DEF Commit
  <2>4. same' \in BOOLEAN
    BY <1>2 DEF Commit
  <2> HIDE DEF k, stamp
  <2>5. /\ own \in [id : Numbers, stamp : 0..3, unread : BOOLEAN, fatal : BOOLEAN]
        /\ own.id = h.retained.id /\ own.stamp = stamp[k] /\ own.unread
    BY <2>1, <2>2
  <2>6. \A j \in Kinds : /\ new(j) \in [id : Numbers, stamp : 0..3, unread : BOOLEAN, fatal : BOOLEAN]
                         /\ new(j).stamp = stamp[j]
    BY <2>2 DEF TypeOK
  <2> HIDE DEF own, new
  <2>7. ports' \in [Kinds -> [id : Numbers, stamp : 0..3, unread : BOOLEAN, fatal : BOOLEAN]]
    BY <2>3, <2>5, <2>6
  <2>8. newest' \in Tracked /\ newest'.kind = k /\ newest'.id = h.retained.id
    BY <2>1, <2>3 DEF Tracked
  <2>9. /\ ports'[k].id = newest'.id /\ ports'[k].unread /\ ports'[k].stamp = stamp[k]
        /\ \A j \in Kinds \ {k} : ports'[j].stamp = stamp[j]
    BY <2>1, <2>3, <2>5, <2>6, <2>8
  <2>10. k # "none"
    BY <2>1 DEF Kinds
  <2>11. Newest'
    BY <2>1, <2>2, <2>8, <2>9, <2>10 DEF Newest, Module
  <2> QED
    BY <2>4, <2>7, <2>8, <2>11
<1> QED
  BY <1>1, <1>2

LEMMA UpdateCases ==
  ASSUME Inv, Update
  PROVE  /\ g' \in Generator /\ g'.active \in {"none", g'.retained.kind}
         /\ \/ Kept(g, g', pipe.default) /\ last' = last
            \/ Taken(g, g', pipe.default) /\ last' = last
            \/ GivenUp(g, g', pipe.default) /\ last' = [last EXCEPT !.rules = FALSE]
<1>1. PICK solved \in (IF Planning THEN BOOLEAN ELSE {TRUE}),
           life \in (IF Planning THEN Lives \cup {Never} ELSE {Never}) :
        /\ g' = Updated(g, pipe.default, solved, life)
        /\ last' = IF solved THEN last ELSE [last EXCEPT !.rules = FALSE]
  BY DEF Update
<1>2. g \in Generator /\ pipe.default \in BOOLEAN
  BY PipelinesAssumption DEF Inv, TypeOK
<1>3. solved \in BOOLEAN
  BY <1>1
<1>4. life \in Left
  BY <1>1, PeriodsAssumption DEF Left
<1>5. Turned(g, g', pipe.default, solved)
  BY <1>1, <1>2, <1>3, <1>4, UpdatedTurned
<1>6. CASE solved
  <2>1. last' = last
    BY <1>1, <1>6
  <2> QED
    BY <1>5, <1>6, <2>1 DEF Turned
<1>7. CASE ~solved
  <2>1. last' = [last EXCEPT !.rules = FALSE]
    BY <1>1, <1>7
  <2>2. Planning
    BY <1>1, <1>7
  <2>3. GivenUp(g, g', pipe.default)
    BY <1>5, <1>7, <2>2 DEF Turned, Planning
  <2> QED
    BY <1>5, <2>1, <2>3 DEF Turned
<1> QED
  BY <1>6, <1>7

LEMMA UpdateStep == Inv /\ Update => Inv'
<1> SUFFICES ASSUME Inv, Update PROVE Inv'
  OBVIOUS
<1> USE DEF Inv
<1>1. /\ phase = "serving" /\ phase' = "idle" /\ Commit(g') /\ Schedule(NextDeadline(g'))
      /\ UNCHANGED <<pipe, running, requests, controller>>
  BY DEF Update
<1>2. /\ g' \in Generator /\ g'.active \in {"none", g'.retained.kind}
      /\ \/ Kept(g, g', pipe.default) /\ last' = last
         \/ Taken(g, g', pipe.default) /\ last' = last
         \/ GivenUp(g, g', pipe.default) /\ last' = [last EXCEPT !.rules = FALSE]
  BY UpdateCases
<1>3. running /\ armed = alarm
  BY <1>1 DEF Alarmed
<1>4. /\ NextDeadline(g') \in 0..(Never - 1)
      /\ NextDeadline(g') # 0 => g'.state # "SelfCheck" /\ g'.request.kind = "none"
  BY <1>2, DeadlineType
<1>5. /\ alarm' \in 0..Never /\ armed' = alarm' /\ woken' \in BOOLEAN
      /\ ~woken' => alarm' = NextDeadline(g') /\ NextDeadline(g') # 0
  BY <1>1, <1>3, <1>4, ScheduledInTime
<1>6. /\ ports' \in [Kinds -> [id : Numbers, stamp : 0..3, unread : BOOLEAN, fatal : BOOLEAN]]
      /\ same' \in BOOLEAN /\ newest' \in Tracked /\ Newest'
  BY <1>1, <1>2, CommitNewest DEF controller
<1>7. /\ last' \in [id : Numbers, rules : BOOLEAN] /\ last'.id = last.id
      /\ last' = [last EXCEPT !.rules = FALSE] => ~last'.rules
  BY <1>2 DEF TypeOK
<1>8. TypeOK'
  BY <1>1, <1>2, <1>5, <1>6, <1>7 DEF TypeOK, requests, controller
<1>9. Pending' = Pending /\ made' = made
  BY <1>1 DEF Pending, requests
<1>10. /\ NoRequest.kind = "none" /\ NoRequest.id = 0
       /\ DefaultRequest.kind = "analytic" /\ DefaultRequest.id = Default
       /\ Default \in Nat /\ Default # 0
  BY PeriodsAssumption DEF NoRequest, DefaultRequest, Default
<1>11. \A y \in Pending : y.id # 0 /\ y.id # Default
  BY PeriodsAssumption DEF TypeOK, Pending, Request, Default
<1>12. Named'
  <2>1. /\ \A y \in Pending' : y.id <= made'
        /\ \A y, z \in Pending' : y.id = z.id => y = z
        /\ waiting' \cap serving' = {}
    BY <1>1, <1>9 DEF Named, requests
  <2> DEFINE Fresh(a) == a = 0 \/ a = Default \/ (a <= made /\ \A y \in Pending : y.id # a)
  <2>2. /\ g.request.kind = "none" <=> g.request.id = 0
        /\ g.retained.kind = "none" <=> g.retained.id = 0
        /\ g.request.kind # "none" => g.request.id # g.retained.id
        /\ g.request.id = Default => g.issued
        /\ g.retained.id = Default => g.issued
        /\ g.request.kind = "waypoint" => g.request.id # Default
        /\ Fresh(g.request.id) /\ Fresh(g.retained.id)
    BY DEF Named
  <2>3. Fresh(0) /\ Fresh(Default)
    OBVIOUS
  <2> HIDE DEF Fresh
  <2>4. /\ g'.request.kind = "none" <=> g'.request.id = 0
        /\ g'.retained.kind = "none" <=> g'.retained.id = 0
        /\ g'.request.kind # "none" => g'.request.id # g'.retained.id
        /\ g'.request.id = Default => g'.issued
        /\ g'.retained.id = Default => g'.issued
        /\ g'.request.kind = "waypoint" => g'.request.id # Default
        /\ Fresh(g'.request.id) /\ Fresh(g'.retained.id)
    <3>1. CASE Kept(g, g', pipe.default)
      BY <1>10, <2>2, <2>3, <3>1 DEF Kept, Waits
    <3>2. CASE Taken(g, g', pipe.default)
      BY <1>10, <2>2, <2>3, <3>2 DEF Taken, Waits
    <3>3. CASE GivenUp(g, g', pipe.default)
      BY <1>10, <2>2, <2>3, <3>3 DEF GivenUp, Waits
    <3> QED
      BY <1>2, <3>1, <3>2, <3>3
  <2>5. \A n : Fresh(n) => (n <= made' \/ n = Default) /\ \A y \in Pending' : y.id # n
    BY <1>9, <1>11 DEF Fresh, TypeOK
  <2> QED
    BY <2>1, <2>4, <2>5 DEF Named
<1>13. Alarmed'
  <2>1. (~woken') => alarm' # Never /\ alarm' <= NextDeadline(g')
    BY <1>4, <1>5, PeriodsAssumption
  <2>2. (~woken') => g'.request.kind = "none"
    BY <1>4, <1>5
  <2> QED
    BY <1>1, <1>3, <1>4, <1>5, <2>1, <2>2 DEF Alarmed
<1>14. Ordered'
  BY <1>1, <1>7, <1>9 DEF Ordered, InOrder, Module, requests
<1>15. Ruled'
  <2> SUFFICES ASSUME InOrder PROVE Ruled'
    BY <1>1 DEF Ruled, InOrder, Module
  <2>1. pipe' = pipe
    BY <1>1
  <2>2. CASE Kept(g, g', pipe.default) /\ last' = last
    BY <1>10, <2>1, <2>2 DEF Ruled, Kept, Waits
  <2>3. CASE Taken(g, g', pipe.default) /\ last' = last
    BY <1>10, <2>1, <2>3 DEF Ruled, Named, Taken, Waits
  <2>4. CASE GivenUp(g, g', pipe.default) /\ last' = [last EXCEPT !.rules = FALSE]
    <3>1. ~last'.rules
      BY <1>7, <2>4
    <3> QED
      BY <1>10, <2>1, <2>4, <3>1 DEF Ruled, GivenUp, Waits
  <2> QED
    BY <1>2, <2>2, <2>3, <2>4
<1>16. Dated'
  BY <1>1, DatedSame DEF requests
<1> QED
  BY <1>6, <1>8, <1>12, <1>13, <1>14, <1>15, <1>16

\* Reading leaves what a port has but for its mark.
LEMMA PortsRead ==
  ASSUME TypeOK, NEW marks \in [Kinds -> BOOLEAN],
         ports' = [k \in Kinds |-> [ports[k] EXCEPT !.unread = marks[k]]]
  PROVE  /\ ports' \in [Kinds -> [id : Numbers, stamp : 0..3, unread : BOOLEAN, fatal : BOOLEAN]]
         /\ \A k \in Kinds : /\ ports'[k].id = ports[k].id /\ ports'[k].stamp = ports[k].stamp
                             /\ ports'[k].fatal = ports[k].fatal
                             /\ ports'[k].unread = marks[k]
BY DEF TypeOK

LEMMA ReadStep == Inv /\ Read => Inv'
<1> SUFFICES ASSUME Inv, Read PROVE Inv'
  OBVIOUS
<1> USE DEF Inv
<1> DEFINE taken == {k \in Unread : Takes(k)}
           marks == [k \in Kinds |-> FALSE]
<1>1. /\ Unread # {} /\ ports' = [k \in Kinds |-> [ports[k] EXCEPT !.unread = marks[k]]]
      /\ \/ taken = {} /\ UNCHANGED cache
         \/ \E k \in taken : /\ \A j \in taken \ {k} : After(k, j)
                             /\ cache' = [kind |-> k, id |-> ports[k].id]
      /\ UNCHANGED <<pipe, g, owner, requests, same, strategy, last, newest>>
  BY DEF Read
<1>2. marks \in [Kinds -> BOOLEAN] /\ \A k \in Kinds : ~marks[k]
  OBVIOUS
<1>3. taken \subseteq Unread /\ Unread \subseteq Kinds
  BY DEF Unread
<1> HIDE DEF marks
<1>4. /\ ports' \in [Kinds -> [id : Numbers, stamp : 0..3, unread : BOOLEAN, fatal : BOOLEAN]]
      /\ \A k \in Kinds : /\ ports'[k].id = ports[k].id /\ ports'[k].stamp = ports[k].stamp
                          /\ ports'[k].fatal = ports[k].fatal
                          /\ ~ports'[k].unread
  BY <1>1, <1>2, PortsRead
<1>5. cache' \in Tracked
  BY <1>1, <1>3 DEF TypeOK, Tracked
<1>6. TypeOK'
  BY <1>1, <1>4, <1>5 DEF TypeOK, owner, requests
<1>7. Newest'
  <2> SUFFICES ASSUME Module, ~pipe.paused PROVE Newest'
    BY <1>1 DEF Newest, Module
  <2>1. newest.kind \in Unread
    BY <1>1, <1>3 DEF Newest, Unread, TypeOK, Tracked
  <2>2. Takes(newest.kind) => cache' = newest
    <3> SUFFICES ASSUME Takes(newest.kind) PROVE cache' = newest
      OBVIOUS
    <3>1. newest.kind \in taken
      BY <2>1
    <3>2. PICK k \in taken : /\ \A j \in taken \ {k} : After(k, j)
                             /\ cache' = [kind |-> k, id |-> ports[k].id]
      BY <1>1, <3>1
    <3>3. k = newest.kind
      <4> SUFFICES ASSUME k # newest.kind PROVE FALSE
        OBVIOUS
      <4>1. ports[k].stamp < ports[newest.kind].stamp
        BY <1>3, <2>1 DEF Newest, Kinds
      <4>2. After(k, newest.kind)
        BY <3>1, <3>2
      <4> QED
        BY <1>3, <2>1, <4>1, <4>2 DEF After, TypeOK
    <3> QED
      BY <2>1, <3>2, <3>3 DEF Newest, TypeOK, Tracked, Unread, Kinds
  <2>3. newest.kind \in Kinds /\ newest' = newest /\ pipe' = pipe
    BY <1>1, <1>3, <2>1
  <2> QED
    BY <1>4, <2>2, <2>3 DEF Newest, Takes, Kinds
<1>8. Dated' /\ Named' /\ Alarmed' /\ Ordered' /\ Ruled'
  BY <1>1, DatedSame, NamedSame, AlarmedSame, OrderedSame, RuledSame DEF requests
<1> QED
  BY <1>6, <1>7, <1>8

LEMMA DeliverStep ==
  ASSUME Inv, NEW k \in Kinds, Deliver(k)
  PROVE  Inv'
<1> USE DEF Inv
<1>1. /\ ~Module /\ cache' = (IF Takes(k) THEN [kind |-> k, id |-> ports[k].id] ELSE cache)
      /\ ports' = [ports EXCEPT ![k].unread = FALSE]
      /\ UNCHANGED <<pipe, g, owner, requests, same, strategy, last, newest>>
  BY DEF Deliver
<1>2. ports' \in [Kinds -> [id : Numbers, stamp : 0..3, unread : BOOLEAN, fatal : BOOLEAN]]
  BY <1>1 DEF TypeOK
<1>3. cache' \in Tracked
  BY <1>1 DEF TypeOK, Tracked
<1>4. TypeOK'
  BY <1>1, <1>2, <1>3 DEF TypeOK, owner, requests
<1>5. Newest'
  BY <1>1 DEF Newest, Module
<1>6. Dated' /\ Named' /\ Alarmed' /\ Ordered' /\ Ruled'
  BY <1>1, DatedSame, NamedSame, AlarmedSame, OrderedSame, RuledSame DEF requests
<1> QED
  BY <1>4, <1>5, <1>6

LEMMA SwitchStep == Inv /\ Switch => Inv'
<1> SUFFICES ASSUME Inv, Switch PROVE Inv'
  OBVIOUS
<1> USE DEF Inv
<1>1. /\ strategy' \in {"NMPC", "FLATNESS"}
      /\ UNCHANGED <<pipe, g, owner, requests, ports, same, cache, last, newest>>
  BY DEF Switch
<1>2. TypeOK'
  BY <1>1 DEF TypeOK, owner, requests
<1> QED
  BY <1>1, <1>2, DatedSame, NamedSame, AlarmedSame, OrderedSame, RuledSame, NewestSame DEF requests

LEMMA ReplaceStep == Inv /\ Replace => Inv'
<1> SUFFICES ASSUME Inv, Replace PROVE Inv'
  OBVIOUS
<1> USE DEF Inv
<1> DEFINE marks == [k \in Kinds |-> ports[k].stamp > 0]
<1>1. /\ cache' = Nothing /\ ports' = [k \in Kinds |-> [ports[k] EXCEPT !.unread = marks[k]]]
      /\ UNCHANGED <<pipe, g, owner, requests, same, strategy, last, newest>>
  BY DEF Replace
<1>2. marks \in [Kinds -> BOOLEAN]
  BY DEF TypeOK
<1>3. \A k \in Kinds : marks[k] <=> ports[k].stamp > 0
  OBVIOUS
<1> HIDE DEF marks
<1>4. /\ ports' \in [Kinds -> [id : Numbers, stamp : 0..3, unread : BOOLEAN, fatal : BOOLEAN]]
      /\ \A k \in Kinds : /\ ports'[k].id = ports[k].id /\ ports'[k].stamp = ports[k].stamp
                          /\ ports'[k].fatal = ports[k].fatal
                          /\ ports'[k].unread = marks[k]
  BY <1>1, <1>2, PortsRead
<1>5. cache' \in Tracked
  BY <1>1, PeriodsAssumption DEF Nothing, Tracked, Numbers, Default
<1>6. TypeOK'
  BY <1>1, <1>4, <1>5 DEF TypeOK, owner, requests
<1>7. Newest'
  <2> SUFFICES ASSUME Module, ~pipe.paused PROVE Newest'
    BY <1>1 DEF Newest, Module
  <2>1. newest' = newest /\ pipe' = pipe /\ newest.kind \in {"none"} \cup Kinds
    BY <1>1 DEF TypeOK, Tracked
  <2>2. \A k \in Kinds : ports[k].stamp \in 0..3
    BY DEF TypeOK
  <2>3. CASE newest.kind = "none"
    <3>1. \A k \in Kinds : ports[k].stamp = 0
      BY <2>2, <2>3 DEF Newest, Kinds
    <3> QED
      BY <1>3, <1>4, <2>1, <2>3, <3>1 DEF Newest
  <2>4. CASE newest.kind \in Kinds
    <3>1. ports[newest.kind].stamp > 0 /\ newest.kind # "none"
      <4>1. PICK k \in Kinds : k # newest.kind
        BY DEF Kinds
      <4> QED
        BY <2>2, <2>4, <4>1 DEF Newest, Kinds
    <3>2. ports'[newest.kind].unread
      BY <1>3, <1>4, <2>4, <3>1
    <3> QED
      BY <1>4, <2>1, <2>4, <3>1, <3>2 DEF Newest
  <2> QED
    BY <2>1, <2>3, <2>4
<1>8. Dated' /\ Named' /\ Alarmed' /\ Ordered' /\ Ruled'
  BY <1>1, DatedSame, NamedSame, AlarmedSame, OrderedSame, RuledSame DEF requests
<1> QED
  BY <1>6, <1>7, <1>8

LEMMA HostStep == Inv /\ (Start \/ Stop) => Inv'
<1> SUFFICES ASSUME Inv, Start \/ Stop PROVE Inv'
  OBVIOUS
<1> USE DEF Inv
<1>1. UNCHANGED <<pipe, g, phase, requests, ports, same, controller, last, newest>>
  BY DEF Start, Stop
<1>2. TypeOK' /\ Alarmed'
  <2>1. CASE Start
    <3>1. running' \in BOOLEAN /\ woken' \in BOOLEAN
      BY <2>1 DEF Start
    <3>2. armed' = Never /\ alarm' = alarm /\ alarm = Never /\ running' /\ woken'
      BY <2>1 DEF Start, Alarmed
    <3>3. armed' \in 0..Never /\ alarm' \in 0..Never
      BY <3>2, PeriodsAssumption
    <3>4. TypeOK'
      BY <1>1, <3>1, <3>3 DEF TypeOK, requests, controller
    <3> QED
      BY <1>1, <3>2, <3>4 DEF Alarmed, Module
  <2>2. CASE Stop
    <3>1. running' \in BOOLEAN
      BY <2>2 DEF Stop
    <3>2. alarm' \in 0..Never
      BY <2>2, PeriodsAssumption DEF Stop
    <3>3. UNCHANGED <<armed, woken>>
      BY <2>2 DEF Stop
    <3>4. TypeOK'
      BY <1>1, <3>1, <3>2, <3>3 DEF TypeOK, requests, controller
    <3> QED
      BY <1>1, <2>2, <3>4 DEF Alarmed, Module, Stop
  <2> QED
    BY <2>1, <2>2
<1> QED
  BY <1>1, <1>2, DatedSame, NamedSame, OrderedSame, RuledSame, NewestSame DEF requests, controller

LEMMA ConfigureStep == Inv /\ Configure => Inv'
<1> SUFFICES ASSUME Inv, Configure PROVE Inv'
  OBVIOUS
<1> USE DEF Inv
<1>1. /\ phase = "idle" /\ g' = Restarted(g) /\ last' = [last EXCEPT !.rules = FALSE]
      /\ UNCHANGED <<pipe, owner, requests, ports, same, controller, newest>>
  BY DEF Configure
<1>2. /\ g' \in Generator /\ g'.state = "SelfCheck"
      /\ g'.request = NoRequest /\ g'.retained = NoRequest
  BY <1>1, RestartedType DEF TypeOK
<1>3. NoRequest.kind = "none" /\ NoRequest.id = 0 /\ Default # 0
  BY PeriodsAssumption DEF NoRequest, Default
<1>4. last' \in [id : Numbers, rules : BOOLEAN] /\ last'.id = last.id /\ ~last'.rules
  BY <1>1 DEF TypeOK
<1>5. TypeOK'
  BY <1>1, <1>2, <1>4 DEF TypeOK, owner, requests, controller
<1>6. Named'
  <2>1. Pending' = Pending /\ made' = made /\ made \in Nat /\ waiting' = waiting /\ serving' = serving
    BY <1>1 DEF Pending, requests, TypeOK
  <2>2. \A y \in Pending : y.id # 0
    BY DEF Pending, TypeOK, Request
  <2> QED
    BY <1>2, <1>3, <2>1, <2>2 DEF Named
<1>7. Alarmed'
  BY <1>1, <1>2 DEF Alarmed, Module, owner
<1>8. Ordered'
  BY <1>1, <1>4 DEF Ordered, InOrder, Module, Pending, requests
<1>9. Ruled'
  BY <1>1, <1>2, <1>3, <1>4 DEF Ruled, InOrder, Module
<1>10. Dated' /\ Newest'
  BY <1>1, DatedSame, NewestSame DEF requests, controller
<1> QED
  BY <1>5, <1>6, <1>7, <1>8, <1>9, <1>10

LEMMA TickStep == Inv /\ Tick => Inv'
<1> SUFFICES ASSUME Inv, Tick PROVE Inv'
  OBVIOUS
<1> USE DEF Inv
<1>1. /\ phase = "idle" /\ (running => ~Due) /\ g' = Older(g)
      /\ alarm' = Sooner(alarm) /\ armed' = Sooner(armed) /\ fresh' = TRUE /\ same' = FALSE
      /\ UNCHANGED <<pipe, running, phase, woken, waiting, serving, made, instant, ports,
                     controller, last, newest>>
  BY DEF Tick
<1>2. g \in Generator
  BY DEF TypeOK
<1>3. /\ g' \in Generator /\ g'.state = g.state /\ g'.issued = g.issued
      /\ g'.request.kind = g.request.kind /\ g'.request.id = g.request.id
      /\ g'.retained.kind = g.retained.kind /\ g'.retained.id = g.retained.id
  BY <1>1, <1>2, OlderType, OlderNames
<1>4. alarm' \in 0..Never /\ armed' \in 0..Never
  BY <1>1, PeriodsAssumption DEF TypeOK, Sooner
<1>5. TypeOK'
  <2>1. fresh' \in BOOLEAN /\ same' \in BOOLEAN
    BY <1>1
  <2> QED
    BY <1>1, <1>3, <1>4, <2>1 DEF TypeOK, controller
<1>6. Dated'
  BY <1>1 DEF Dated
<1>7. Named'
  BY <1>1, <1>3 DEF Named, Pending
<1>8. Alarmed'
  <2>1. CASE running /\ ~woken
    <3>1. alarm # Never /\ alarm # 0 /\ alarm \in 0..Never
      BY <1>1, <2>1 DEF Alarmed, Due, TypeOK
    <3>2. alarm' = alarm - 1 /\ armed' = alarm'
      BY <1>1, <2>1, <3>1 DEF Alarmed, Sooner
    <3>3. ASSUME g'.state # "SelfCheck"
          PROVE  g'.request.kind = "none" /\ alarm' <= NextDeadline(g')
      <4>1. g.state # "SelfCheck" /\ g.request.kind = "none" /\ alarm <= NextDeadline(g)
        BY <1>1, <1>3, <2>1, <3>3 DEF Alarmed
      <4>2. /\ NextDeadline(g) \in 0..(Never - 1)
            /\ NextDeadline(g') >= Sooner(NextDeadline(g))
        BY <1>1, <1>2, <4>1, DeadlineNears
      <4>3. NextDeadline(g') \in 0..(Never - 1)
        BY <1>3, DeadlineType
      <4> QED
        BY <1>3, <3>1, <3>2, <4>1, <4>2, <4>3, PeriodsAssumption DEF Sooner
    <3> QED
      BY <1>1, <2>1, <3>1, <3>2, <3>3, PeriodsAssumption DEF Alarmed, Module
  <2>2. CASE running /\ woken
    BY <1>1, <2>2 DEF Due
  <2>3. CASE ~running
    BY <1>1, <2>3 DEF Alarmed, Sooner, Module
  <2> QED
    BY <2>1, <2>2, <2>3
<1>9. Ruled'
  BY <1>1, <1>3 DEF Ruled, InOrder, Module
<1>10. Ordered' /\ Newest'
  BY <1>1, OrderedSame, NewestSame DEF controller
<1> QED
  BY <1>5, <1>6, <1>7, <1>8, <1>9, <1>10

LEMMA NextStep == Inv /\ [Next]_vars => Inv'
<1> SUFFICES ASSUME Inv, [Next]_vars PROVE Inv'
  OBVIOUS
<1>1. CASE UNCHANGED vars
  <2>1. TypeOK'
    BY <1>1 DEF Inv, TypeOK, vars
  <2> QED
    BY <1>1, <2>1, DatedSame, NamedSame, AlarmedSame, OrderedSame, RuledSame, NewestSame
       DEF Inv, vars, owner
<1> QED
  BY <1>1, ArriveStep, CollectStep, UpdateStep, ServeStep, ReadStep, SwitchStep, ReplaceStep,
     DeliverStep, HostStep, ConfigureStep, TickStep DEF Next

\* The generator becomes Active by a request, which has a number of its own.
LEMMA EndedStep ==
  ASSUME Inv, [Next]_vars, g.state # "Active", g'.state = "Active"
  PROVE  g'.retained.id # g.retained.id
<1>1. g \in Generator
  BY DEF Inv, TypeOK
<1>2. CASE Update
  <2>1. \/ Kept(g, g', pipe.default)
        \/ Taken(g, g', pipe.default)
        \/ GivenUp(g, g', pipe.default)
    BY <1>2, UpdateCases
  <2>2. Taken(g, g', pipe.default)
    BY <2>1 DEF Kept, GivenUp
  <2> QED
    BY <2>2 DEF Taken, Inv, Named
<1>3. ASSUME NEW x \in serving, Serve(x) PROVE FALSE
  <2>1. g'.state = "SelfCheck" \/ g' = g \/ g'.state = g.state
    BY <1>3, ServeCases
  <2> QED
    BY <2>1
<1>4. CASE Tick
  BY <1>1, <1>4, OlderType DEF Tick
<1>5. CASE Configure
  BY <1>1, <1>5, RestartedType DEF Configure
<1>6. CASE UNCHANGED g
  BY <1>6
<1>7. CASE \E kind \in {"analytic", "sampled", "waypoint", "reset"} : Arrive(kind)
  BY <1>6, <1>7 DEF Arrive
<1>8. CASE Collect \/ Read \/ Switch \/ Replace \/ Start \/ Stop
  BY <1>6, <1>8 DEF Collect, Read, Switch, Replace, Start, Stop
<1>9. CASE \E k \in Kinds : Deliver(k)
  BY <1>6, <1>9 DEF Deliver
<1> QED
  BY <1>2, <1>3, <1>4, <1>5, <1>6, <1>7, <1>8, <1>9 DEF Next, vars

-----------------------------------------------------------------------------
(* The theorems.                                                            *)

\* The invariant holds in every state of every pipeline.
THEOREM ReferenceInvariance == Spec => []Inv
<1> QED
  BY InitInv, NextStep, PTL DEF Spec

\* Every variable keeps its type; in particular three stamps are enough to order the ports.
THEOREM ReferenceTypes == Spec => []TypeOK
<1>1. Inv => TypeOK
  BY DEF Inv
<1> QED
  BY <1>1, ReferenceInvariance, PTL

\* A module that sleeps has its host's alarm set, for no later than the generator needs it
\* (scheduleNext of ugv_unicycle_reference.cpp, whatever starts, stops and configurations come).
THEOREM ReferenceSleepsInTime == Spec => []SleepsInTime
<1>1. Inv => SleepsInTime
  BY DEF Inv, Alarmed, SleepsInTime, Due
<1> QED
  BY <1>1, ReferenceInvariance, PTL

\* What has ended is not followed again: no trajectory becomes active that was retained before
\* (activateRequest and the driver's default request), also under a clock that stands still.
THEOREM ReferenceEnded == Spec => Ended
<1>1. Inv /\ [Next]_vars =>
        [(g.state # "Active" /\ g'.state = "Active") => g'.retained.id # g.retained.id]_vars
  BY EndedStep
<1> QED
  BY <1>1, ReferenceInvariance, PTL DEF Spec, Ended

\* Where requests are served in the order they were made in, and no default request is
\* configured, the newest request rules (accept* of the runtime, collect of the module).
THEOREM ReferenceNewestRules == Spec => []((InOrder /\ ~pipe.default) => LastRequestRules)
<1>1. Inv => ((InOrder /\ ~pipe.default) => LastRequestRules)
  BY DEF Inv, Ruled, LastRequestRules
<1> QED
  BY <1>1, ReferenceInvariance, PTL

\* The default request takes the place of at most one: whatever rules is waiting, retained, or
\* has given way to the default request, which waits or is retained instead (update of
\* reference_driver.cpp).
THEOREM ReferenceOnlyDefaultDisplaces ==
  Spec => []((InOrder /\ last.rules) =>
                {last.id, Default} \cap {g.request.id, g.retained.id} # {})
<1>1. Inv => ((InOrder /\ last.rules) =>
                 {last.id, Default} \cap {g.request.id, g.retained.id} # {})
  BY DEF Inv, Ruled
<1> QED
  BY <1>1, ReferenceInvariance, PTL

\* While the clock runs, a controller that has read its ports has what was committed last, unless
\* that is fatal to it (readReferences of ugv_unicycle_controller.cpp).
THEOREM ReferenceCommittedLastWins == Spec => [](~pipe.paused => CommittedLastWins)
<1>1. Inv => (~pipe.paused => CommittedLastWins)
  <2> SUFFICES ASSUME Inv, ~pipe.paused, Module, Unread = {}, newest.id # 0, Takes(newest.kind)
               PROVE  cache = newest
    BY DEF CommittedLastWins
  <2>1. newest.kind \in Kinds /\ newest.kind # "none"
    BY DEF Inv, Newest, TypeOK, Tracked
  <2>2. ~ports[newest.kind].unread
    BY <2>1 DEF Unread
  <2> QED
    BY <2>1, <2>2 DEF Inv, Newest
<1> QED
  BY <1>1, ReferenceInvariance, PTL

=============================================================================
