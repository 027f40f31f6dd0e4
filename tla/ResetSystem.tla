----------------------------- MODULE ResetSystem -----------------------------
(***************************************************************************)
(* The fleet: a vehicle is the executor of ResetExecutor and a body on the  *)
(* cells, the station is that of ResetStation, and between them are         *)
(* channels that lose and delay.  What ResetVehicle shows of one vehicle is *)
(* taken for granted here: a certified stop is a stop, and the zero a brake *)
(* asks for is published in one step.  Bodies keep to the granted prefix of *)
(* a route, but may go on to its end after they have lost it.               *)
(***************************************************************************)
EXTENDS ResetStation

CONSTANTS
  Lives,        \* the situations that are looked at
  MaxGen, MaxId,
  Moments       \* the intervals that may have run out at a step of the station

\* A situation: where the vehicles are and where a Reset takes them, how many Resets the
\* operator asks of each, the messages a channel keeps (the oldest are lost first), what may
\* go wrong, and how often.
ASSUME LivesAssumption ==
  Lives \subseteq [origin : [Vehicle -> Cell], goal : [Vehicle -> Cell],
                  calls : [Vehicle -> Nat], depth : Nat \ {0}, mishaps : Nat,
                  faults : SUBSET {"loss", "lapse", "stop", "tube", "silence", "scene",
                                   "world"}]

\* No two bodies begin in one place, and the scope is the whole fleet.
ASSUME OriginsAssumption ==
  \A l \in Lives : \A v, w \in Vehicle : l.origin[v] = l.origin[w] => v = w
ASSUME ScopeAssumption == Expected = Vehicle

Route == [path : Path, final : BOOLEAN]
V == INSTANCE ResetExecutor WITH
       FinalRoute <- {r \in Route : r.final}, NoRoute <- NoPlan, MaxLimit <- Unlimited

VARIABLES
  life,   \* the situation
  ex,     \* the executor of each vehicle
  pos,    \* the cell of each body
  ahead,  \* the cells a body may still enter, in order
  up,     \* Session messages on their way
  down,   \* decisions on their way
  lost,   \* the vehicles the station has not heard of for too long
  st,     \* the station
  mishaps \* faults so far

vars == <<life, ex, pos, ahead, up, down, lost, st, mishaps>>

Init ==
  /\ life \in Lives
  /\ ex = [v \in Vehicle |-> V!NewExecutor]
  /\ pos = life.origin
  /\ ahead = [v \in Vehicle |-> <<>>]
  /\ up = [v \in Vehicle |-> <<>>] /\ down = [v \in Vehicle |-> <<>>]
  /\ lost = {}
  /\ st = NewStation
  /\ mishaps = 0

\* The fault f happens; "none" is no fault.
Mishap(f) ==
  /\ f \in life.faults \cup {"none"}
  /\ mishaps' = mishaps + (IF f = "none" THEN 0 ELSE 1)
  /\ mishaps' <= life.mishaps

-----------------------------------------------------------------------------
(* The channels.  Publication numbers let nothing overtake: what is read is  *)
(* read in order, and a full channel loses its oldest message.              *)

Kept(q)     == SubSeq(q, Greater(1, Len(q) - life.depth + 1), Len(q))
After(q, i) == SubSeq(q, i + 1, Len(q))
Newest(q)   == q[Len(q)]

\* A message is lost.
Lose(v) ==
  /\ Mishap("loss")
  /\ \/ up[v] # <<>> /\ up' = [up EXCEPT ![v] = Tail(@)] /\ UNCHANGED down
     \/ down[v] # <<>> /\ down' = [down EXCEPT ![v] = Tail(@)] /\ UNCHANGED up
  /\ UNCHANGED <<life, ex, pos, ahead, lost, st>>

-----------------------------------------------------------------------------
(* The vehicles.                                                            *)

Healthy == [healthy |-> TRUE, trusted |-> TRUE, outerZero |-> TRUE]

Index(v, e) == CHOOSE i \in DOMAIN e.perm.route.path : e.perm.route.path[i] = pos[v]
Reach(e)    == Lesser(e.perm.lim, Len(e.perm.route.path))

\* Results leave at once, and every turn finds a pose of its own.
Settled(e) ==
  [e EXCEPT !.result = V!NoResult, !.previous = V!NoResult, !.still = FALSE, !.due = {}]

\* What a vehicle may still enter is the prefix it executes; without one it is what it
\* had, until its stop is certified.
Ahead(v, e) ==
  CASE V!Is(e, "Executing") -> SubSeq(e.perm.route.path, Index(v, e) + 1, Reach(e))
    [] V!StopCertified(e) -> <<>>
    [] OTHER -> ahead[v]

Says(v, e) ==
  LET s == V!SessionOf(e)
  IN  [Quiet(pos[v], life.goal[v]) EXCEPT !.session = s.session, !.gen = s.gen, !.ack = s.ack,
                                     !.cert = s.cert, !.phase = s.phase]

\* A Session is due when it says something new, and again and again until it is heard.
Publishes(v, s) ==
  IF v \in lost \/ (IF up[v] = <<>> THEN st.entry[v].s ELSE Newest(up[v])) # s
  THEN Kept(Append(up[v], s)) ELSE up[v]

\* What the tracker reports where the body is; `settling' is whether it still corrects its
\* heading at the goal, `off' whether it has left the tube of the route.  A vehicle settles
\* for longer than a Session takes to be due, so it says that it does before it arrives.
Tick(v, e, settling, off) ==
  LET path == e.perm.route.path
      i    == Index(v, e)
      t(verdict, cmd, phase) == [verdict |-> verdict, cmd |-> cmd, phase |-> phase]
  IN  CASE ~V!Is(e, "Executing") -> t("none", "zero", "Waiting")
        [] V!Is(e, "Executing") /\ i < Reach(e) ->
             IF off THEN t("deviated", "zero", "Waiting") ELSE t("follow", "drive", "Moving")
        [] V!Is(e, "Executing") /\ i >= Reach(e) ->
             CASE i < Len(path) -> t("follow", "zero", "Waiting")
               [] i = Len(path) /\ ~e.perm.route.final -> t("restop", "zero", "Waiting")
               [] i = Len(path) /\ e.perm.route.final ->
                    IF settling \/ e.prog # "Settling"
                    THEN t("follow", "zero", "Settling") ELSE t("arrived", "zero", "Waiting")

\* What the operator may have asked for by the end of a turn.
Orders(v, e, stop) ==
  IF stop THEN {V!Finish(V!End(e, "Stopped")) : x \in {y \in {1} : e.run}}
  ELSE {e} \cup {V!Install(e, e.session + 1, TRUE) :
                   x \in {y \in {1} : e.session < life.calls[v] /\ V!CanPrepare(e)}}

\* What one step of the vehicle's module can come to: it reads what has come, a decision
\* and the receipt of the zero it published, turns its controller, and publishes a Session
\* that is due.  A session that has ended leaves Reset in the same turn.  A turn that leaves
\* a decision unread is one that comes before the station's step that sent it.
Turned(v, settling, f) ==
  LET e == ex[v]
      i == Lesser(1, Len(down[v]))
      g == IF i = 0 THEN e
           ELSE [V!OnGrant([e EXCEPT !.seqIn = 0], [seq |-> 1, ok |-> TRUE, d |-> down[v][i]])
                   EXCEPT !.seqIn = 0]
      z == IF V!Is(e, "AwaitZero") THEN V!OnZeroPublished(g, e.gen, e.brake) ELSE g
      o == V!Observe([z EXCEPT !.due = IF f = "lapse" THEN {"ttl"} ELSE {}], TRUE, TRUE)
      p == V!Poll(o, Healthy)
      t == V!Step(o, Healthy, Tick(v, p, settling, f = "tube"))
      n == IF t.prog = "Done" THEN V!Finish(t) ELSE t
      can == /\ f = "lapse" => V!Is(g, "Executing")
             /\ f = "tube" => V!Is(p, "Executing") /\ Index(v, p) < Reach(p)
  IN  {[ex |-> Settled(m), ahead |-> Ahead(v, m), up |-> Publishes(v, Says(v, m)),
        down |-> After(down[v], i)] : m \in IF can THEN Orders(v, n, f = "stop") ELSE {}}

VehicleTurn(v, settling, f) ==
  /\ UNCHANGED <<life, pos, lost, st>>
  /\ Mishap(f)
  /\ \E n \in Turned(v, settling, f) :
       /\ ex' = [ex EXCEPT ![v] = n.ex] /\ ahead' = [ahead EXCEPT ![v] = n.ahead]
       /\ up' = [up EXCEPT ![v] = n.up] /\ down' = [down EXCEPT ![v] = n.down]

VehicleStep(v) ==
  \E settling \in BOOLEAN, f \in {"none", "lapse", "stop", "tube"} : VehicleTurn(v, settling, f)

\* The body moves on.
Drive(v) ==
  /\ ahead[v] # <<>>
  /\ pos' = [pos EXCEPT ![v] = Head(ahead[v])]
  /\ ahead' = [ahead EXCEPT ![v] = Tail(@)]
  /\ UNCHANGED <<life, ex, up, down, lost, st, mishaps>>

-----------------------------------------------------------------------------
(* The station.                                                             *)

\* A repetition of what is on its way adds nothing to it.
Added(q, ds) ==
  Kept(IF q # <<>> /\ ds # <<>> /\ Newest(q) = ds[1] THEN q \o Tail(ds) ELSE q \o ds)

\* A step of the node that hears what has come of the vehicles `heard', the step's outcome s.
AfterStep(is, heard, s) ==
  [st |-> [s EXCEPT !.sent = [v \in Vehicle |-> <<>>]], lost |-> lost \ heard,
   up |-> [v \in Vehicle |-> After(up[v], is[v])],
   down |-> [v \in Vehicle |-> Added(down[v], s.sent[v])]]

\* The node hears what has come of some vehicles, and then makes a step.
Heard(now, is) ==
  LET hear(s, v) == IF is[v] = 0 THEN s ELSE OnSession(s, v, up[v][is[v]])
      heard == {v \in Vehicle : is[v] # 0}
  IN  AfterStep(is, heard, StationTurn(InOrder(hear, st, Vehicle), lost \ heard, now))

InBounds(h) == \A v \in Vehicle : h.st.pl.body[v].next <= MaxId + 1

StationHears(now, is) ==
  /\ UNCHANGED <<life, ex, pos, ahead, mishaps>>
  /\ \E h \in {Heard(now, is)} :
       /\ InBounds(h)
       /\ st' = h.st /\ lost' = h.lost /\ up' = h.up /\ down' = h.down

StationStep ==
  \E now \in Moments, is \in [Vehicle -> 0..1] :
    (\A v \in Vehicle : is[v] <= Len(up[v])) /\ StationHears(now, is)

\* The step of a station that hears all that has come.
All == [v \in Vehicle |-> Lesser(1, Len(up[v]))]
StationListens == \E now \in Moments : StationHears(now, All)

\* A vehicle has not been heard of for too long.
Silence(v) ==
  /\ v \notin lost /\ st.entry[v].heard
  /\ Mishap("silence")
  /\ lost' = lost \cup {v}
  /\ UNCHANGED <<life, ex, pos, ahead, up, down, st>>

\* The Scene is no longer live, or is again.
SceneChange ==
  /\ "scene" \in life.faults /\ Mishap(IF st.scene THEN "scene" ELSE "none")
  /\ st' = [st EXCEPT !.scene = ~@]
  /\ UNCHANGED <<life, ex, pos, ahead, up, down, lost>>

\* Something is put in a place that no body is in or may still enter.
WorldChange(c) ==
  /\ c \notin st.pl.world
  /\ \A v \in Vehicle : c \notin {pos[v]} \cup Cells(ahead[v])
  /\ Mishap("world")
  /\ st' = [st EXCEPT !.pl = SetWorld(@, @.world \cup {c})]
  /\ UNCHANGED <<life, ex, pos, ahead, up, down, lost>>

Next ==
  \/ \E v \in Vehicle : VehicleStep(v) \/ Drive(v) \/ Lose(v) \/ Silence(v)
  \/ StationStep
  \/ SceneChange
  \/ \E c \in Cell : WorldChange(c)

Spec == Init /\ [][Next]_vars

\* Vehicles and station keep turning, the station hears what has come, a body that may
\* move does, and a heading is corrected in the end.  The predicates say when such a step
\* changes anything.
TurnDue(v) ==
  \E n \in Turned(v, FALSE, "none") :
    n # [ex |-> ex[v], ahead |-> ahead[v], up |-> up[v], down |-> down[v]]
ListenDue ==
  \E now \in Moments : \E h \in {Heard(now, All)} :
    InBounds(h) /\ h # [st |-> st, lost |-> lost, up |-> up, down |-> down]
FairSpec ==
  /\ Spec
  /\ \A v \in Vehicle : /\ []<>~TurnDue(v) \/ []<><<VehicleTurn(v, FALSE, "none")>>_vars
                        /\ WF_vars(Drive(v))
  /\ []<>~ListenDue \/ []<><<StationListens>>_vars

-----------------------------------------------------------------------------
(* Properties.                                                              *)

\* No two bodies are ever in one place.
NoCollision == \A v, w \in Vehicle : v # w => pos[v] # pos[w]

\* What the station keeps free and what a vehicle may still enter, two things that no part
\* of the system knows both of, are leases (reset_planner.cpp sync, updateMovers;
\* reset_executor.h onGrant): whatever a vehicle has lost, ignored or not yet heard of, its
\* rights are kept free for it, and for nobody else.
L == INSTANCE Leases WITH
       Place <- Cell, at <- pos, may <- [v \in Vehicle |-> Cells(ahead[v])],
       held <- [v \in Vehicle |-> IF st.pl.body[v].known THEN Holding(st.pl.body[v])
                                                         ELSE {pos[v]}]
ImplementsLeases == L!Spec

\* When a Reset has ended, however it did, its permission is retired in the end: the
\* vehicle has echoed the terminal Hold and the station keeps no more than its place free
\* (README of ugv_reset_safety, "Causal permission retirement").
Over(v) ==
  V!Is(ex[v], "Complete") /\ ~HasPlan(st.pl.body[v])
EveryPermissionRetires ==
  \A v \in Vehicle : (ex[v].session > 0 /\ ~ex[v].run) ~> Over(v)

\* Nobody waits for ever, nobody is refused, and no repetition of a late message undoes
\* anything: if no message is lost, all that ask for a Reset arrive.
EveryResetArrives ==
  (\A v \in Vehicle : ex[v].session = 1)
    ~> (\A v \in Vehicle : pos[v] = life.goal[v] /\ ~ex[v].run /\ Over(v))

-----------------------------------------------------------------------------
(* What a comment says, and the code does not do.                           *)

\* reset_planner.cpp:1924-1929: who waits for the stop of a vehicle that takes part in
\* nothing is refused as deadlocked, because such a stop can never be certified.
DeadlockNeverClears ==
  [][\A v, o \in Vehicle :
       LET b == st.pl.body[v]
       IN  (b.rejected /\ b.last.reason = "Deadlock" /\ o \in b.last.blockers
              /\ AwaitsStop(st.pl.body[o]))
             => st'.pl.body[o].cert # "Certified"]_vars

=============================================================================
