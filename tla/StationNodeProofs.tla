-------------------------- MODULE StationNodeProofs --------------------------
(***************************************************************************)
(* The coordinator's node never sleeps past what is due and grants routes   *)
(* in no other world than the last one that it was shown, for every fleet,  *)
(* every graph of cells, all the intervals and every situation.             *)
(***************************************************************************)
EXTENDS StationNode, ResetStationProofs

-----------------------------------------------------------------------------
(* Deadlines.                                                                *)

LEMMA DueIs ==
  ASSUME NEW is, is \subseteq Nat
  PROVE  /\ Due(is) \in Nat /\ Due(is) <= Discovery /\ Due(is) \in is \cup {Discovery}
         /\ \A n \in is : Due(is) <= n
<1> DEFINE S == {Never} \cup is
<1>1. Discovery \in Nat /\ Never = Discovery
  BY NodeAssumption DEF Never
<1>2. S \subseteq Nat /\ S # {}
  BY <1>1
<1>3. \E m \in S : \A k \in S : m <= k
  BY <1>2, LeastNumber
<1>4. Due(is) = CHOOSE n \in S : \A m \in S : n <= m
  BY DEF Due
<1>5. Due(is) \in S /\ \A m \in S : Due(is) <= m
  BY <1>3, <1>4
<1> QED
  BY <1>1, <1>2, <1>5

LEMMA UntilIs ==
  ASSUME NEW period \in Nat, NEW past \in Nat
  PROVE  /\ Until(period, past) \in Nat
         /\ Until(period, past) > 0 <=> past < period
         /\ past < period => past + Until(period, past) = period
BY DEF Until

\* How long the loop sleeps, if no message comes.
Rest == IF called THEN 0 ELSE sleep

\* A route that may be extended, and a vehicle that may be admitted.
Open(s, v) ==
  LET b == s.pl.body[v]
  IN  Granted(b) /\ (b.plan.lim < Len(b.plan.route.path) \/ s.pl.changed)
AsksFor(s, v) == Admits(s) /\ Waits(s.pl.body[v])

\* It takes part, it is there, and it has been told something of its request.
Addressee(s, v) ==
  LET e == s.entry[v]
  IN  e.heard /\ e.s.gen # 0 /\ e.last.st # "None" /\ e.s.phase \in Taking

\* The loop wakes before anything that only time can change is due.
TimeInv ==
  /\ called \/ sleep <= fleet
  /\ scene.live /\ ~called => age.scene + sleep <= SceneLife + 1
  /\ \A v \in Vehicle :
       /\ st.entry[v].heard \/ heard[v] = 0
       /\ v \in shown \/ heard[v] + fleet <= LostAfter + FleetIdle
       /\ ~event =>
            /\ Open(st, v) => age.extension + Rest <= Extension + 1
            /\ AsksFor(st, v) => age.replan + Rest <= Replanning + 1
            /\ Hesitates(st.pl.body[v])
                 => \/ age.extension + Rest <= Extension + 1
                    \/ age.progress + Rest <= StallAfter + 1
            /\ v \notin Lost /\ Addressee(st, v) => sent[v] + Rest <= Refresh + 1

LEMMA PlannerDeadlineIs ==
  ASSUME NEW s, NEW a, a.extension \in Nat, a.replan \in Nat, a.progress \in Nat
  PROVE  LET d == PlannerDeadline(s, a)
             e == Until(Extension + 1, a.extension)
             r == Until(Replanning + 1, a.replan)
             x == Greater(e, Until(StallAfter + 1, a.progress))
         IN  /\ d \in Nat
             /\ \A v \in Vehicle : /\ (Open(s, v) => d <= e) /\ (AsksFor(s, v) => d <= r)
                                   /\ (Hesitates(s.pl.body[v]) => d <= x)
             /\ e > 0 /\ (\A v \in Vehicle : AsksFor(s, v) => r > 0) => d > 0
<1> DEFINE e == Until(Extension + 1, a.extension)
           r == Until(Replanning + 1, a.replan)
           y == Until(StallAfter + 1, a.progress)
           x == Greater(e, y)
           E == {w \in Vehicle : Open(s, w)}
           R == {w \in Vehicle : AsksFor(s, w)}
           H == {w \in Vehicle : Hesitates(s.pl.body[w])}
           is == {e : v \in E} \cup {x : v \in H} \cup {r : v \in R}
<1>1. e \in Nat /\ r \in Nat /\ y \in Nat /\ Discovery \in Nat \ {0}
  <2>1. /\ Extension + 1 \in Nat /\ Replanning + 1 \in Nat /\ StallAfter + 1 \in Nat
        /\ Discovery \in Nat \ {0}
    BY NodeAssumption
  <2> QED
    BY <2>1, UntilIs
<1>2. PlannerDeadline(s, a) = Due(is)
  BY DEF PlannerDeadline, Open, AsksFor
<1> HIDE DEF e, r, y
<1>3. x \in Nat /\ x >= e
  BY <1>1 DEF Greater
<1> HIDE DEF x
<1>4. /\ is \subseteq Nat
      /\ \A v \in Vehicle : /\ (Open(s, v) => e \in is) /\ (AsksFor(s, v) => r \in is)
                            /\ (Hesitates(s.pl.body[v]) => x \in is)
  BY <1>1, <1>3
<1>5. e > 0 /\ (\A v \in Vehicle : AsksFor(s, v) => r > 0) => \A i \in is : i > 0
  BY <1>1, <1>3
<1>6. /\ Due(is) \in Nat /\ Due(is) \in is \cup {Discovery}
      /\ \A n \in is : Due(is) <= n
  BY <1>4, DueIs
<1> HIDE DEF is
<1>7. \A v \in Vehicle : /\ (Open(s, v) => Due(is) <= e) /\ (AsksFor(s, v) => Due(is) <= r)
                         /\ (Hesitates(s.pl.body[v]) => Due(is) <= x)
  BY <1>4, <1>6
<1>8. e > 0 /\ (\A v \in Vehicle : AsksFor(s, v) => r > 0) => Due(is) > 0
  BY <1>1, <1>5, <1>6
<1> QED
  BY <1>2, <1>6, <1>7, <1>8 DEF e, r, x, y

\* Whose last decision is repeated.
IsRepeated(s, v, hs) ==
  /\ v \in Vehicle /\ s.entry[v].heard /\ hs[v] <= LostAfter
  /\ s.entry[v].s.gen # 0 /\ s.entry[v].last.st # "None"
  /\ Repeats(s, v, {w \in Vehicle : ~(s.entry[w].heard /\ hs[w] <= LostAfter)})

LEMMA DeadlineIs ==
  ASSUME NEW s, NEW a, a.extension \in Nat, a.replan \in Nat, a.progress \in Nat, NEW hs, NEW ss,
         \A v \in Vehicle : hs[v] \in Nat /\ ss[v] \in Nat
  PROVE  LET d == Deadline(s, a, hs, ss)
             p == PlannerDeadline(s, a)
         IN  /\ d \in Nat /\ d <= p
             /\ \A v : IsRepeated(s, v, hs) => d <= Until(Refresh + 1, ss[v])
             /\ p > 0 /\ (\A v : IsRepeated(s, v, hs) => Until(Refresh + 1, ss[v]) > 0) => d > 0
<1> DEFINE p == PlannerDeadline(s, a)
           here == {v \in Vehicle : s.entry[v].heard /\ hs[v] <= LostAfter}
           A == here \cap Addressed(s)
           R == {w \in A : Repeats(s, w, Vehicle \ here)}
           L == {LostAfter + 1 - hs[v] : v \in here}
           T == {Until(Refresh + 1, ss[v]) : v \in R}
           is == {p} \cup L \cup T
<1>1. p \in Nat
  BY PlannerDeadlineIs
<1>2. \A v : v \in R <=> IsRepeated(s, v, hs)
  <2>1. Vehicle \ here = {w \in Vehicle : ~(s.entry[w].heard /\ hs[w] <= LostAfter)}
    OBVIOUS
  <2> QED
    BY <2>1 DEF IsRepeated, Addressed
<1>3. Deadline(s, a, hs, ss) = Due(is)
  BY DEF Deadline
<1>4. L \subseteq Nat \ {0}
  <2>1. LostAfter \in Nat
    BY NodeAssumption
  <2>2. \A v \in here : hs[v] \in Nat /\ hs[v] <= LostAfter
    OBVIOUS
  <2> HIDE DEF here
  <2>3. \A v \in here : LostAfter + 1 - hs[v] \in Nat \ {0}
    BY <2>1, <2>2
  <2> QED
    BY <2>3
<1>5. \A v \in R : v \in Vehicle /\ Until(Refresh + 1, ss[v]) \in Nat
  <2>1. Refresh + 1 \in Nat
    BY NodeAssumption
  <2>2. R \subseteq Vehicle
    OBVIOUS
  <2> HIDE DEF R
  <2> QED
    BY <2>1, <2>2, UntilIs
<1>6. R \subseteq Vehicle
  OBVIOUS
<1> HIDE DEF p, L, R, here
<1>7. T \subseteq Nat
  BY <1>5
<1>8. is \subseteq Nat /\ p \in is /\ T \subseteq is /\ L \subseteq is
  BY <1>1, <1>4, <1>7
<1>9. \A v \in R : Until(Refresh + 1, ss[v]) \in is
  BY <1>8
<1>10. p > 0 /\ (\A v \in R : Until(Refresh + 1, ss[v]) > 0) => \A i \in is : i > 0
  <2>1. \A i \in L : i > 0
    BY <1>4
  <2> QED
    BY <2>1
<1>11. Discovery \in Nat \ {0}
  BY NodeAssumption
<1>12. /\ Due(is) \in Nat /\ Due(is) \in is \cup {Discovery}
       /\ \A n \in is : Due(is) <= n
  BY <1>8, DueIs
<1> HIDE DEF is, T
<1>13. Due(is) <= p /\ \A v : IsRepeated(s, v, hs) => Due(is) <= Until(Refresh + 1, ss[v])
  BY <1>2, <1>8, <1>9, <1>12
<1>14. p > 0 /\ (\A v : IsRepeated(s, v, hs) => Until(Refresh + 1, ss[v]) > 0) => Due(is) > 0
  BY <1>2, <1>10, <1>11, <1>12
<1> QED
  BY <1>3, <1>12, <1>13, <1>14 DEF p

LEMMA WakeIs ==
  ASSUME NEW due \in Nat, NEW d \in Nat, NEW f \in Nat, NEW live, NEW a,
         live => a.scene \in 0..(SceneLife + 1)
  PROVE  LET w == Wake(due, d, f, live, a)
         IN  /\ w \in 0..Discovery /\ w <= due /\ w <= d /\ w <= f
             /\ live => w <= SceneLife + 1 - a.scene
             /\ due > 0 /\ d > 0 /\ f > 0 /\ (live => a.scene <= SceneLife) => w > 0
<1> DEFINE l == When(live, SceneLife + 1 - a.scene)
           is == {due, d, f} \cup l
<1>1. SceneLife \in Nat /\ Discovery \in Nat \ {0}
  BY NodeAssumption
<1>2. l = IF live THEN {SceneLife + 1 - a.scene} ELSE {}
  BY DEF When
<1> HIDE DEF l
<1>3. is \subseteq Nat
  BY <1>1, <1>2
<1>4. Wake(due, d, f, live, a) = Due(is)
  BY DEF Wake, l
<1>5. /\ Due(is) \in Nat /\ Due(is) <= Discovery /\ Due(is) \in is \cup {Discovery}
      /\ \A n \in is : Due(is) <= n
  BY <1>3, DueIs
<1> DEFINE w == Due(is)
<1>6. w \in 0..Discovery /\ w <= due /\ w <= d /\ w <= f
  BY <1>1, <1>5
<1>7. live => w <= SceneLife + 1 - a.scene
  BY <1>2, <1>5
<1>8. ASSUME due > 0, d > 0, f > 0, live => a.scene <= SceneLife PROVE w > 0
  <2>1. \A i \in is \cup {Discovery} : i > 0
    BY <1>1, <1>2, <1>8
  <2> HIDE DEF is
  <2> QED
    BY <1>5, <2>1
<1> HIDE DEF w
<1> QED
  BY <1>4, <1>6, <1>7, <1>8 DEF w

-----------------------------------------------------------------------------
(* The inductive invariant.                                                  *)

AgeFields   == {"step", "extension", "replan", "progress", "scene"}
SceneFields == {"snap", "parsed", "valid", "live", "bodies", "pushed"}

NodeShaped == StationShaped(st) /\ DOMAIN age = AgeFields /\ DOMAIN scene = SceneFields

NodeInv == TypeOK /\ NodeShaped /\ TimeInv

LEMMA Intervals ==
  /\ Floor \in Nat \ {0} /\ Extension \in Nat \ {0} /\ Replanning \in Nat \ {0}
  /\ StallAfter \in Nat \ {0}
  /\ Refresh \in Nat \ {0} /\ TimeToLive \in Nat \ {0} /\ LostAfter \in Nat \ {0}
  /\ SceneLife \in Nat \ {0} /\ Discovery \in Nat \ {0} /\ FleetBusy \in Nat \ {0}
  /\ FleetIdle \in Nat \ {0} /\ FleetBusy <= FleetIdle /\ Refresh + 1 < TimeToLive
  /\ Silence = LostAfter + FleetIdle + 1
BY NodeAssumption DEF Silence

LEMMA AgesAre ==
  /\ DOMAIN Ages = AgeFields /\ Ages.step = Floor /\ Ages.extension = Extension + 2
  /\ Ages.replan = Replanning + 2 /\ Ages.progress = StallAfter + 2
  /\ Ages.scene = SceneLife + 2
BY DEF Ages, AgeFields

LEMMA NodeStarts == Init => NodeInv
<1> SUFFICES ASSUME Init PROVE NodeInv
  OBVIOUS
<1>1. StationShaped(st) /\ st.scene = ~day.authored /\ (\A v \in Vehicle : st.entry[v] = NewEntry)
      /\ st.pl.body = NewPlanner.body
  <2> DEFINE p == SetWorld(NewPlanner, {})
  <2>1. Shaped(p) /\ p.body = NewPlanner.body
    BY NewShaped DEF Shaped, SetWorld, PlannerFields
  <2>2. st = [entry |-> [v \in Vehicle |-> NewEntry], pl |-> p, scene |-> ~day.authored,
              sent |-> [v \in Vehicle |-> <<>>]]
    BY DEF Init, NewStation
  <2>3. DOMAIN NewEntry = EntryFields
    BY DEF NewEntry, EntryFields
  <2>4. Listed(<<>>)
    BY DEF Listed
  <2> HIDE DEF p
  <2> QED
    BY <2>1, <2>2, <2>3, <2>4 DEF StationShaped, StationFields
<1>2. \A v \in Vehicle : ~st.entry[v].heard
  BY <1>1 DEF NewEntry
<1>3. \A v \in Vehicle : /\ ~Granted(st.pl.body[v]) /\ ~Waits(st.pl.body[v])
                         /\ ~Hesitates(st.pl.body[v])
  <2>1. \A v \in Vehicle : st.pl.body[v] = NewBody
    BY <1>1 DEF NewPlanner
  <2>2. ~Granted(NewBody) /\ ~Waits(NewBody) /\ ~Hesitates(NewBody)
    BY DEF NewBody, Granted, HasPlan, Waits, Plannable, Hesitates
  <2> QED
    BY <2>1, <2>2
<1>4. NodeShaped
  BY <1>1, AgesAre DEF NodeShaped, Init, NoState, SceneFields
<1>5. day \in Days /\ day.authored \in BOOLEAN
  BY NodeAssumption DEF Init
<1>6. TypeOK
  <2>1. /\ scene.snap = NoScene /\ scene.parsed = TRUE /\ scene.valid = FALSE /\ scene.live = FALSE
        /\ scene.bodies = {} /\ scene.pushed = FALSE
    <3>1. Readable(NoScene) = TRUE
      BY DEF Readable, NoScene
    <3>2. scene = NoState(NoScene)
      BY DEF Init
    <3> QED
      BY <3>1, <3>2 DEF NoState
  <2>2. \A a \in DOMAIN Ages : age[a] \in 0..Ages[a]
    BY AgesAre, Intervals DEF Init, AgeFields
  <2>3. heard \in [Vehicle -> 0..Silence] /\ sent \in [Vehicle -> 0..TimeToLive]
    BY Intervals DEF Init
  <2>4. sleep \in 0..Discovery /\ discovery \in 0..Discovery /\ fleet \in 0..FleetIdle
    BY Intervals DEF Init
  <2> QED
    BY <1>1, <1>2, <1>5, <2>1, <2>2, <2>3, <2>4 DEF TypeOK, Init
<1>7. TimeInv
  BY <1>2, <1>3, Intervals DEF TimeInv, Init, Open, AsksFor, Addressee
<1> QED
  BY <1>4, <1>6, <1>7 DEF NodeInv

LEMMA TickKeeps == NodeInv /\ Tick => NodeInv'
<1> SUFFICES ASSUME NodeInv, Tick PROVE NodeInv'
  OBVIOUS
<1> USE DEF NodeInv
<1>1. /\ ~called /\ ~called' /\ sleep \in Nat \ {0} /\ sleep' = sleep - 1
      /\ UNCHANGED <<day, st, scene, watched, listed, event, called, shown>>
  BY Intervals DEF Tick, TypeOK
<1>2. /\ DOMAIN age' = AgeFields
      /\ \A a \in AgeFields : /\ age[a] \in 0..Ages[a]
                             /\ age'[a] \in {age[a], Lesser(age[a] + 1, Ages[a])}
  BY AgesAre DEF Tick, TypeOK, NodeShaped
<1>3. \A a \in AgeFields : age'[a] \in 0..Ages[a] /\ age'[a] <= age[a] + 1
  <2> SUFFICES ASSUME NEW a \in AgeFields
               PROVE  age'[a] \in 0..Ages[a] /\ age'[a] <= age[a] + 1
    OBVIOUS
  <2>1. Ages[a] \in Nat
    BY AgesAre, Intervals DEF AgeFields
  <2> QED
    BY <1>2, <2>1 DEF Lesser
<1>4. \A v \in Vehicle :
        /\ heard[v] \in 0..Silence /\ sent[v] \in 0..TimeToLive
        /\ heard'[v] = IF st.entry[v].heard THEN Lesser(heard[v] + 1, Silence) ELSE 0
        /\ sent'[v] = Lesser(sent[v] + 1, TimeToLive)
  BY DEF Tick, TypeOK
<1>5. \A v \in Vehicle :
        /\ heard'[v] \in 0..Silence /\ sent'[v] \in 0..TimeToLive
        /\ heard'[v] <= heard[v] + 1 /\ sent'[v] <= sent[v] + 1
        /\ st.entry[v].heard => heard[v] <= heard'[v]
        /\ st.entry[v].heard \/ heard'[v] = 0
  BY <1>4, Intervals DEF Lesser
<1>6. /\ heard' \in [Vehicle -> 0..Silence] /\ sent' \in [Vehicle -> 0..TimeToLive]
  BY <1>5 DEF Tick
<1>7. discovery' \in 0..Discovery /\ fleet' \in 0..FleetIdle
  BY Intervals DEF Tick, TypeOK, Greater
<1>8. TypeOK'
  <2>1. \A a \in DOMAIN Ages : age'[a] \in 0..Ages[a]
    BY <1>3, AgesAre
  <2>2. sleep' \in 0..Discovery
    BY <1>1, Intervals DEF TypeOK
  <2> HIDE DEF NodeInv
  <2>3. TypeOK
    BY DEF NodeInv
  <2> QED
    BY <1>1, <1>6, <1>7, <2>1, <2>2, <2>3 DEF TypeOK, Ages
<1>9. NodeShaped'
  BY <1>1, <1>2 DEF NodeShaped
<1>10. fleet \in Nat \ {0} /\ fleet' = fleet - 1 /\ sleep' <= fleet'
  BY <1>1, Intervals DEF TimeInv, Tick, TypeOK, Greater
<1>11. Rest' = Rest - 1 /\ Rest = sleep
  BY <1>1 DEF Rest
<1>12. TimeInv'
  <2>1. scene.live => age.scene + sleep <= SceneLife + 1
    BY <1>1 DEF TimeInv
  <2>2. /\ age'.scene <= age.scene + 1 /\ age'.extension <= age.extension + 1
        /\ age'.replan <= age.replan + 1 /\ age'.progress <= age.progress + 1
        /\ {age.scene, age'.scene, age.extension, age'.extension, age.replan, age'.replan,
            age.progress, age'.progress} \subseteq Nat
    <3>1. Ages.scene \in Nat /\ Ages.extension \in Nat /\ Ages.replan \in Nat /\ Ages.progress \in Nat
      BY AgesAre, Intervals
    <3> QED
      BY <1>2, <1>3, <3>1 DEF AgeFields
  <2>3. scene'.live => age'.scene + sleep' <= SceneLife + 1
    BY <1>1, <2>1, <2>2, Intervals
  <2>4. ASSUME NEW v \in Vehicle
        PROVE  /\ st'.entry[v].heard \/ heard'[v] = 0
               /\ v \in shown' \/ heard'[v] + fleet' <= LostAfter + FleetIdle
    <3>1. v \in shown \/ heard[v] + fleet <= LostAfter + FleetIdle
      BY DEF TimeInv
    <3> QED
      BY <1>1, <1>5, <1>4, <1>10, <3>1, Intervals
  <2>5. ASSUME NEW v \in Vehicle, ~event'
        PROVE  /\ Open(st', v) => age'.extension + Rest' <= Extension + 1
               /\ AsksFor(st', v) => age'.replan + Rest' <= Replanning + 1
               /\ Hesitates(st'.pl.body[v])
                    => \/ age'.extension + Rest' <= Extension + 1
                       \/ age'.progress + Rest' <= StallAfter + 1
               /\ v \notin Lost' /\ Addressee(st', v) => sent'[v] + Rest' <= Refresh + 1
    <3>1. /\ Open(st, v) => age.extension + Rest <= Extension + 1
          /\ AsksFor(st, v) => age.replan + Rest <= Replanning + 1
          /\ Hesitates(st.pl.body[v])
               => \/ age.extension + Rest <= Extension + 1
                  \/ age.progress + Rest <= StallAfter + 1
          /\ v \notin Lost /\ Addressee(st, v) => sent[v] + Rest <= Refresh + 1
      BY <1>1, <2>5 DEF TimeInv
    <3>2. v \in Lost => v \in Lost'
      BY <1>1, <1>4, <1>5, Intervals DEF Lost
    <3>3. Rest \in Nat \ {0}
      BY <1>1, <1>11
    <3> QED
      BY <1>1, <1>4, <1>5, <1>11, <2>2, <3>1, <3>2, <3>3, Intervals
  <2> QED
    BY <1>10, <2>3, <2>4, <2>5 DEF TimeInv
<1> QED
  BY <1>8, <1>9, <1>12

LEMMA ListKeeps ==
  ASSUME NodeInv, NEW v \in Vehicle, List(v)
  PROVE  NodeInv'
<1>1. /\ UNCHANGED <<day, st, scene, watched, event, called, sleep, age, heard, sent, discovery,
                    fleet, shown>>
      /\ listed \subseteq listed'
  BY DEF List
<1>2. TypeOK'
  BY <1>1 DEF NodeInv, TypeOK
<1>3. NodeShaped' /\ TimeInv'
  BY <1>1 DEF NodeInv, NodeShaped, TimeInv, Rest, Lost
<1> QED
  BY <1>2, <1>3 DEF NodeInv

LEMMA SessionKeeps ==
  ASSUME NodeInv, NEW v \in Vehicle, NEW m, Session(v, m)
  PROVE  NodeInv'
<1> USE DEF NodeInv
<1>1. /\ v \in watched /\ event' /\ called' /\ event' = TRUE /\ called' = TRUE
      /\ UNCHANGED <<day, scene, watched, listed, sleep, age, discovery, fleet, shown>>
      /\ heard' = [heard EXCEPT ![v] = 0]
  BY DEF Session
<1>2. /\ StationShaped(st') /\ st'.scene = st.scene
      /\ st'.entry[v].heard \/ st' = st
      /\ \A w \in Vehicle \ {v} : st'.entry[w] = st.entry[w]
  <2> DEFINE s == ToSession(m)
  <2>1. st' = OnSession(st, v, s)
    BY DEF Session
  <2> HIDE DEF s
  <2> QED
    BY <2>1, SessionShaped DEF NodeShaped
<1>3. NodeShaped'
  BY <1>1, <1>2 DEF NodeShaped
<1>4. sent' \in [Vehicle -> 0..TimeToLive] /\ heard' \in [Vehicle -> 0..Silence]
  <2>1. sent \in [Vehicle -> 0..TimeToLive] /\ heard \in [Vehicle -> 0..Silence]
    BY DEF TypeOK
  <2>2. sent' \in {[sent EXCEPT ![v] = TimeToLive], sent}
    BY DEF Session
  <2> QED
    BY <1>1, <2>1, <2>2, Intervals
<1>5. \A w \in Vehicle : st'.entry[w].heard => w \in watched'
  BY <1>1, <1>2 DEF TypeOK
<1>6. TypeOK'
  <2> HIDE DEF NodeInv
  <2>1. TypeOK
    BY DEF NodeInv
  <2> QED
    BY <1>1, <1>2, <1>4, <1>5, <2>1 DEF TypeOK, Ages
<1>7. TimeInv'
  <2>1. ASSUME NEW w \in Vehicle
        PROVE  /\ st'.entry[w].heard \/ heard'[w] = 0
               /\ w \in shown' \/ heard'[w] + fleet' <= LostAfter + FleetIdle
    <3>1. /\ st.entry[w].heard \/ heard[w] = 0
          /\ w \in shown \/ heard[w] + fleet <= LostAfter + FleetIdle
          /\ heard \in [Vehicle -> 0..Silence] /\ fleet \in 0..FleetIdle
      BY DEF TimeInv, TypeOK
    <3>2. CASE w = v
      BY <1>1, <3>1, <3>2, Intervals
    <3>3. CASE w # v
      BY <1>1, <1>2, <3>1, <3>3
    <3> QED
      BY <3>2, <3>3
  <2> QED
    BY <1>1, <2>1 DEF TimeInv
<1> QED
  BY <1>3, <1>6, <1>7

\* What is known of the Scene.
SceneOK(s) ==
  /\ DOMAIN s = SceneFields /\ s.snap \in day.snapshots \cup {NoScene}
  /\ \A b \in s.bodies : b.at \in Cell
  /\ s.parsed \in BOOLEAN /\ s.valid \in BOOLEAN /\ s.live \in BOOLEAN /\ s.pushed \in BOOLEAN
  /\ s.valid => s.parsed

LEMMA SceneIs == NodeInv => SceneOK(scene)
BY DEF NodeInv, NodeShaped, TypeOK, SceneOK

\* A message of the Scene: it is new to the node, or nothing but the scene changes.
LEMMA SceneKeeps ==
  ASSUME NodeInv, SceneOK(scene'), scene'.live = scene.live, called' = TRUE, event' \in BOOLEAN,
         event => event',
         StationShaped(st'), st'.scene = st.scene, st'.entry = st.entry,
         event' \/ st' = st,
         DOMAIN age' = AgeFields, age'.scene \in 0..(SceneLife + 2),
         \A a \in AgeFields \ {"scene"} : age'[a] = age[a],
         UNCHANGED <<day, watched, listed, sleep, heard, sent, discovery, fleet, shown>>
  PROVE  NodeInv'
<1>1. TypeOK /\ NodeShaped /\ TimeInv
  BY DEF NodeInv
<1>2. \A a \in DOMAIN Ages : age'[a] \in 0..Ages[a]
  BY <1>1, AgesAre DEF TypeOK, AgeFields
<1>3. TypeOK'
  BY <1>1, <1>2 DEF TypeOK, SceneOK, Ages
<1>4. NodeShaped'
  BY DEF NodeShaped, SceneOK
<1>5. TimeInv'
  <2>1. ASSUME NEW v \in Vehicle, ~event'
        PROVE  /\ Open(st', v) => age'.extension + Rest' <= Extension + 1
               /\ AsksFor(st', v) => age'.replan + Rest' <= Replanning + 1
               /\ Hesitates(st'.pl.body[v])
                    => \/ age'.extension + Rest' <= Extension + 1
                       \/ age'.progress + Rest' <= StallAfter + 1
               /\ v \notin Lost' /\ Addressee(st', v) => sent'[v] + Rest' <= Refresh + 1
    <3>1. /\ Open(st, v) => age.extension + Rest <= Extension + 1
          /\ AsksFor(st, v) => age.replan + Rest <= Replanning + 1
          /\ Hesitates(st.pl.body[v])
               => \/ age.extension + Rest <= Extension + 1
                  \/ age.progress + Rest <= StallAfter + 1
          /\ v \notin Lost /\ Addressee(st, v) => sent[v] + Rest <= Refresh + 1
      BY <1>1, <2>1 DEF TimeInv
    <3>2. st' = st /\ Lost' = Lost
      BY <2>1 DEF Lost
    <3>3. Rest' = 0 /\ Rest \in Nat
      BY <1>1, Intervals DEF Rest, TypeOK
    <3>4. /\ age'.extension = age.extension /\ age'.replan = age.replan
          /\ age'.progress = age.progress
      BY DEF AgeFields
    <3>5. age.extension \in Nat /\ age.replan \in Nat /\ age.progress \in Nat /\ sent[v] \in Nat
      <4>1. /\ age.extension \in 0..Ages.extension /\ age.replan \in 0..Ages.replan
            /\ age.progress \in 0..Ages.progress
        BY <1>1, AgesAre DEF TypeOK, AgeFields
      <4>2. sent[v] \in 0..TimeToLive
        BY <1>1 DEF TypeOK
      <4> QED
        BY <4>1, <4>2
    <3> QED
      BY <3>1, <3>2, <3>3, <3>4, <3>5, Intervals
  <2>2. \A v \in Vehicle :
           /\ st'.entry[v].heard \/ heard'[v] = 0
           /\ v \in shown' \/ heard'[v] + fleet' <= LostAfter + FleetIdle
    BY <1>1 DEF TimeInv
  <2> QED
    BY <2>1, <2>2 DEF TimeInv
<1> QED
  BY <1>3, <1>4, <1>5 DEF NodeInv

LEMMA SnapshotKeeps ==
  ASSUME NodeInv, NEW m \in day.snapshots, Snapshot(m)
  PROVE  NodeInv'
<1> DEFINE older == m.epoch = scene.snap.epoch /\ m.rev < scene.snap.rev
           same  == scene.parsed /\ m.epoch = scene.snap.epoch /\ m.rev = scene.snap.rev
           x     == ~older /\ ~same
           z     == Adopted(m)
           y     == [scene EXCEPT !.valid = FALSE]
<1>1. /\ event' = (event \/ x) /\ called' = TRUE /\ scene' \in {scene, y, z}
      /\ age' \in {age, [age EXCEPT !.scene = SceneLife + 2]}
      /\ UNCHANGED <<day, st, watched, listed, sleep, heard, sent, discovery, fleet, shown>>
  BY DEF Snapshot
<1> HIDE DEF older, same
<1>2. SceneOK(scene) /\ event \in BOOLEAN
  BY SceneIs DEF NodeInv, TypeOK
<1>3. SceneOK(y) /\ y.live = scene.live
  BY <1>2 DEF SceneOK, SceneFields
<1>4. SceneOK(z) /\ z.live = scene.live
  <2> DEFINE r == Readable(m)
  <2>1. r \in BOOLEAN
    BY DEF Readable
  <2> HIDE DEF r
  <2>2. z = [[snap |-> m, parsed |-> r, valid |-> FALSE, live |-> FALSE, bodies |-> {},
              pushed |-> FALSE] EXCEPT !.live = scene.live]
    BY DEF Adopted, NoState, r
  <2> HIDE DEF z
  <2> QED
    BY <1>2, <2>1, <2>2 DEF SceneOK, SceneFields
<1> HIDE DEF x, y, z
<1>5. /\ DOMAIN age' = AgeFields /\ age'.scene \in 0..(SceneLife + 2)
      /\ \A a \in AgeFields \ {"scene"} : age'[a] = age[a]
  <2>1. DOMAIN age = AgeFields /\ age.scene \in 0..(SceneLife + 2)
    BY AgesAre DEF NodeInv, TypeOK, NodeShaped, AgeFields
  <2> QED
    BY <1>1, <2>1, Intervals DEF AgeFields
<1>6. scene'.live = scene.live /\ SceneOK(scene')
  BY <1>1, <1>2, <1>3, <1>4 DEF SceneOK
<1>7. event' \in BOOLEAN /\ (event => event') /\ StationShaped(st')
  BY <1>1, <1>2 DEF x, NodeInv, NodeShaped
<1> QED
  BY <1>1, <1>5, <1>6, <1>7, SceneKeeps

\* Where the bodies of a state are.
LEMMA BodiesAre ==
  ASSUME NodeInv, NEW s \in day.states
  PROVE  \A b \in LiveBodies(scene.snap, s) : b.at \in Cell
<1> DEFINE m == scene.snap
<1>1. s.bodies \in Seq(Body)
  <2>1. day \in Days /\ day.states \subseteq States
    BY NodeAssumption DEF NodeInv, TypeOK
  <2> QED
    BY <2>1 DEF States
<1>2. m.obstacles \in Seq(Obstacle)
  <2>1. day \in Days /\ day.snapshots \subseteq Snapshots /\ m \in day.snapshots \cup {NoScene}
    BY NodeAssumption DEF NodeInv, TypeOK
  <2>2. NoScene.obstacles = <<>> /\ <<>> \in Seq(Obstacle)
    BY DEF NoScene
  <2> QED
    BY <2>1, <2>2 DEF Snapshots
<1> HIDE DEF m
<1>3. \A b \in LiveBodies(m, s) :
        \/ \E i \in DOMAIN s.bodies : b = s.bodies[i]
        \/ \E i \in DOMAIN m.obstacles : b.at = m.obstacles[i].at
  BY DEF LiveBodies
<1>4. \A i \in DOMAIN s.bodies : s.bodies[i].at \in Cell
  <2>1. \A i \in DOMAIN s.bodies : s.bodies[i] \in Body
    BY <1>1
  <2> QED
    BY <2>1 DEF Body
<1>5. \A i \in DOMAIN m.obstacles : m.obstacles[i].at \in Cell
  <2>1. \A i \in DOMAIN m.obstacles : m.obstacles[i] \in Obstacle
    BY <1>2
  <2> QED
    BY <2>1 DEF Obstacle
<1> QED
  BY <1>3, <1>4, <1>5 DEF m

LEMMA StateKeeps ==
  ASSUME NodeInv, NEW s \in day.states, State(s)
  PROVE  NodeInv'
<1> DEFINE bodies == LiveBodies(scene.snap, s)
           taken  == IsOurs(s) /\ Fits(scene.snap, s)
           a      == [scene EXCEPT !.valid = TRUE, !.pushed = TRUE, !.bodies = bodies]
           i      == [scene EXCEPT !.valid = FALSE]
           w      == SetWorld(st.pl, Occupancy(bodies))
           t      == [st EXCEPT !.pl = w]
<1>1. /\ called' = TRUE /\ (scene' \in {scene, i} \/ (taken /\ scene' = a))
      /\ age' \in {age, [age EXCEPT !.scene = 0]}
      /\ \/ st' = t /\ event' = TRUE
         \/ st' = st /\ event' = event
      /\ UNCHANGED <<day, watched, listed, sleep, heard, sent, discovery, fleet, shown>>
  BY DEF State
<1>2. taken => scene.parsed
  BY DEF IsOurs
<1>3. \A b \in bodies : b.at \in Cell
  BY BodiesAre
<1>4. SceneOK(scene) /\ event \in BOOLEAN /\ Shaped(st.pl) /\ StationShaped(st)
  BY SceneIs DEF NodeInv, TypeOK, NodeShaped, StationShaped
<1>5. Shaped(w)
  BY <1>4 DEF Shaped, SetWorld, PlannerFields
<1> HIDE DEF bodies, taken, w
<1>6. SceneOK(i) /\ i.live = scene.live
  BY <1>4 DEF SceneOK, SceneFields
<1>7. (scene.parsed => SceneOK(a)) /\ a.live = scene.live
  BY <1>3, <1>4 DEF SceneOK, SceneFields
<1> HIDE DEF a, i
<1>8. StationShaped(t) /\ t.scene = st.scene /\ t.entry = st.entry
  BY <1>4, <1>5 DEF StationShaped, StationFields
<1> HIDE DEF t
<1>9. /\ DOMAIN age' = AgeFields /\ age'.scene \in 0..(SceneLife + 2)
      /\ \A f \in AgeFields \ {"scene"} : age'[f] = age[f]
  <2>1. DOMAIN age = AgeFields /\ age.scene \in 0..(SceneLife + 2)
    BY AgesAre DEF NodeInv, TypeOK, NodeShaped, AgeFields
  <2> QED
    BY <1>1, <2>1, Intervals DEF AgeFields
<1>10. scene'.live = scene.live /\ SceneOK(scene')
  BY <1>1, <1>2, <1>4, <1>6, <1>7
<1> QED
  BY <1>1, <1>4, <1>8, <1>9, <1>10, SceneKeeps

-----------------------------------------------------------------------------
(* A turn of the loop.                                                       *)

LEMMA NumberedSame ==
  ASSUME NEW p, NEW q, Numbered(p, q), NEW v \in Vehicle
  PROVE  Waits(q.body[v]) => Waits(p.body[v])
<1>1. \A f \in BodyFields \ {"next"} : q.body[v][f] = p.body[v][f]
  BY DEF Numbered
<1>2. /\ q.body[v].phase = p.body[v].phase /\ q.body[v].cert = p.body[v].cert
      /\ q.body[v].at = p.body[v].at /\ q.body[v].rejected = p.body[v].rejected
  BY <1>1 DEF BodyFields
<1> QED
  BY <1>2 DEF Waits, Plannable, Participates, HasPlan

\* After a step nothing that has a deadline is overdue.
LEMMA SteppedIs ==
  ASSUME NodeInv, NEW s, StationShaped(s)
  PROVE  LET a == Stepped(s, TRUE) IN
         /\ StationShaped(a.st) /\ a.st.scene = s.scene
         /\ \A v \in Vehicle :
              /\ a.st.entry[v].heard = s.entry[v].heard
              /\ AsksFor(a.st, v) => a.age.replan <= Replanning
              /\ a.st.entry[v].heard /\ v \notin Lost /\ a.st.entry[v].s.gen # 0
                   /\ a.st.entry[v].last.st # "None" /\ Repeats(a.st, v, Lost)
                   => a.sent[v] <= Refresh
         /\ a.sent \in [Vehicle -> 0..TimeToLive] /\ DOMAIN a.age = AgeFields
         /\ a.age.scene = age.scene /\ a.age.step = 0 /\ a.age.extension \in 0..Extension
         /\ a.age.replan \in 0..(Replanning + 2) /\ a.age.progress \in 0..(StallAfter + 2)
<1> DEFINE lost  == Lost
           now   == Now
           facts == [v \in Known(s) |-> Facts(s, v, lost)]
           pl    == Update(s.pl, facts, Admits(s), now)
           t     == StationTurn(s, lost, now)
           u     == [t EXCEPT !.sent = [v \in Vehicle |-> <<>>]]
           look  == Looks(s.pl, facts, Admits(s), now)
           anew  == BeginsAnew(s.pl, facts, Admits(s), now)
           g     == [age EXCEPT !.step = 0, !.extension = IF now.extend THEN 0 ELSE @,
                                !.replan = IF look THEN 0 ELSE @,
                                !.progress = IF anew THEN 0 ELSE @]
           k     == [v \in Vehicle |-> IF t.sent[v] # <<>> THEN 0 ELSE sent[v]]
           a     == Stepped(s, TRUE)
<1>1. a = [st |-> u, age |-> g, sent |-> k]
  BY DEF Stepped
<1>2. /\ StationShaped(t) /\ t.scene = s.scene /\ Shaped(pl) /\ Numbered(pl, t.pl)
      /\ \A v \in Vehicle :
           /\ \A f \in EntryFields \ {"last"} : t.entry[v][f] = s.entry[v][f]
           /\ t.entry[v].heard /\ Owed(t, v, lost, now) => t.sent[v] # <<>>
  BY TurnSpoken
<1>3. Admits(s) /\ now.periodic /\ ~look => \A v \in Vehicle : ~Waits(pl.body[v])
  BY NobodyWaits DEF StationShaped
<1>4. /\ now.extend = (age.extension >= Extension) /\ now.periodic = (age.replan >= Replanning)
      /\ now.refresh = {v \in Vehicle : sent[v] >= Refresh}
  BY DEF Now
<1> HIDE DEF facts, pl, t, look, anew, now
<1>5. /\ StationShaped(u) /\ u.scene = s.scene /\ u.entry = t.entry /\ u.pl = t.pl
  <2>1. Listed(<<>>)
    BY DEF Listed
  <2> QED
    BY <1>2, <2>1 DEF StationShaped, StationFields
<1> HIDE DEF u
<1>6. /\ DOMAIN age = AgeFields /\ age.scene \in 0..(SceneLife + 2)
      /\ age.extension \in 0..(Extension + 2) /\ age.replan \in 0..(Replanning + 2)
      /\ age.progress \in 0..(StallAfter + 2)
      /\ \A v \in Vehicle : sent[v] \in 0..TimeToLive
  BY AgesAre DEF NodeInv, TypeOK, NodeShaped, AgeFields
<1>7. /\ DOMAIN g = AgeFields /\ g.step = 0 /\ g.scene = age.scene
      /\ g.extension = IF now.extend THEN 0 ELSE age.extension
      /\ g.replan = IF look THEN 0 ELSE age.replan
      /\ g.progress = IF anew THEN 0 ELSE age.progress
  BY <1>6 DEF AgeFields
<1> HIDE DEF g
<1>8. g.extension \in 0..Extension
  <2>0. Extension \in Nat /\ age.extension \in 0..(Extension + 2)
    BY <1>6, Intervals
  <2>1. age.extension \in Nat /\ Extension \in Nat
    BY <2>0
  <2>2. CASE age.extension >= Extension
    <3>1. now.extend
      BY <1>4, <2>2
    <3>2. g.extension = 0
      BY <1>7, <3>1
    <3> QED
      BY <2>1, <3>2
  <2>3. CASE ~(age.extension >= Extension)
    <3>1. ~now.extend
      BY <1>4, <2>3
    <3>2. g.extension = age.extension
      BY <1>7, <3>1
    <3> QED
      BY <2>1, <2>3, <3>2
  <2> QED
    BY <2>2, <2>3
<1>9. g.replan \in 0..(Replanning + 2) /\ g.progress \in 0..(StallAfter + 2)
  BY <1>6, <1>7, Intervals
<1>10. Admits(u) => Admits(s)
  <2>1. \A v \in Vehicle : u.entry[v].body = s.entry[v].body
    BY <1>2, <1>5 DEF EntryFields
  <2> QED
    BY <1>5, <2>1, ExpectedAssumption DEF Admits, ScopeReady
<1>11. ASSUME NEW v \in Vehicle, AsksFor(u, v) PROVE g.replan <= Replanning
  <2>1. Waits(pl.body[v])
    BY <1>2, <1>5, <1>11, NumberedSame DEF AsksFor
  <2>2. Admits(s)
    BY <1>10, <1>11 DEF AsksFor
  <2>3. look \/ ~now.periodic
    BY <1>3, <2>1, <2>2
  <2>4. age.replan \in Nat /\ Replanning \in Nat
    BY <1>6, Intervals
  <2>5. CASE look
    BY <1>7, <2>4, <2>5
  <2>6. CASE ~look
    <3>1. ~(age.replan >= Replanning) /\ g.replan = age.replan
      BY <1>4, <1>7, <2>3, <2>6
    <3> QED
      BY <2>4, <3>1
  <2> QED
    BY <2>5, <2>6
<1>12. \A v \in Vehicle : k[v] = IF t.sent[v] # <<>> THEN 0 ELSE sent[v]
  OBVIOUS
<1>13. k = [v \in Vehicle |-> k[v]]
  OBVIOUS
<1> HIDE DEF k
<1>14. ASSUME NEW v \in Vehicle, u.entry[v].heard, v \notin lost, u.entry[v].s.gen # 0,
              u.entry[v].last.st # "None", Repeats(u, v, lost)
       PROVE  k[v] <= Refresh
  <2>1. CASE v \in now.refresh
    <3>1. Owed(t, v, lost, now)
      BY <1>5, <1>14, <2>1 DEF Owed, Repeats, TakesPart
    <3>2. t.sent[v] # <<>>
      BY <1>2, <1>5, <1>14, <3>1
    <3> QED
      BY <1>12, <3>2, Intervals
  <2>2. CASE v \notin now.refresh
    <3>1. ~(sent[v] >= Refresh)
      BY <1>4, <2>2
    <3>2. k[v] = 0 \/ k[v] = sent[v]
      BY <1>12
    <3>3. sent[v] \in Nat /\ Refresh \in Nat
      BY <1>6, Intervals
    <3> QED
      BY <3>1, <3>2, <3>3
  <2> QED
    BY <2>1, <2>2
<1>15. \A v \in Vehicle : u.entry[v].heard = s.entry[v].heard /\ k[v] \in 0..TimeToLive
  <2>1. \A v \in Vehicle : u.entry[v].heard = s.entry[v].heard
    BY <1>2, <1>5 DEF EntryFields
  <2>2. \A v \in Vehicle : k[v] = 0 \/ k[v] = sent[v]
    BY <1>12
  <2>3. \A v \in Vehicle : k[v] \in 0..TimeToLive
    BY <1>6, <2>2, Intervals
  <2> QED
    BY <2>1, <2>3
<1> HIDE DEF a
<1>16. a.st = u /\ a.age = g /\ a.sent = k
  BY <1>1
<1>17. k \in [Vehicle -> 0..TimeToLive]
  BY <1>13, <1>15
<1> QED
  BY <1>5, <1>7, <1>8, <1>9, <1>11, <1>14, <1>15, <1>16, <1>17 DEF a

\* What a turn does, but for how long the loop sleeps then.
LEMMA TurnIs ==
  ASSUME NodeInv, Turn
  PROVE  /\ StationShaped(st') /\ event' \in BOOLEAN /\ called' = FALSE
         /\ SceneOK(scene') /\ st'.scene = (scene'.live \/ ~day.authored)
         /\ scene'.live => day.authored /\ age'.scene <= SceneLife
         /\ UNCHANGED <<day, listed, heard>>
         /\ discovery' \in 1..Discovery /\ watched \subseteq watched'
         /\ watched' \subseteq Expected \cup listed
         /\ fleet' \in 1..FleetIdle
         /\ (fleet' = fleet /\ shown' = shown) \/ shown' = Lost
         /\ \A v \in Vehicle : st'.entry[v].heard = st.entry[v].heard
         /\ sent' \in [Vehicle -> 0..TimeToLive]
         /\ DOMAIN age' = AgeFields /\ \A f \in AgeFields : age'[f] \in 0..Ages[f]
         /\ StepDue(event', st', age', heard, sent') \in Nat \ {0}
         /\ sleep' = Wake(StepDue(event', st', age', heard, sent'), discovery', fleet',
                          scene'.live, age')
<1> DEFINE live  == day.authored /\ Live
           ev    == event \/ live # scene.live
           s     == [st EXCEPT !.scene = live \/ ~day.authored]
           steps == StepDue(ev, s, age, heard, sent) = 0
           after == Stepped(s, steps)
<1>1. /\ called' = FALSE /\ UNCHANGED <<day, listed, heard>>
      /\ scene' = [scene EXCEPT !.live = live] /\ event' = (ev /\ ~steps)
      /\ st' = after.st /\ age' = after.age /\ sent' = after.sent
      /\ sleep' = Wake(StepDue(event', st', age', heard, sent'), discovery', fleet', live, age')
  BY DEF Turn
<1>2. discovery' \in 1..Discovery /\ watched \subseteq watched' /\ watched' \subseteq Expected \cup listed
  <2>1. /\ discovery \in 0..Discovery /\ watched \subseteq Expected \cup listed
    BY DEF NodeInv, TypeOK
  <2>2. CASE discovery = 0
    <3>1. discovery' = Discovery /\ watched' \in Answers
      BY <2>2 DEF Turn
    <3>2. watched' \in {watched \cup listed, watched}
      BY <3>1 DEF Answers, When
    <3> QED
      BY <2>1, <3>1, <3>2, Intervals
  <2>3. CASE discovery # 0
    <3>1. discovery' = discovery /\ watched' = watched
      BY <2>3 DEF Turn
    <3> QED
      BY <2>1, <2>3, <3>1, Intervals
  <2> QED
    BY <2>2, <2>3
<1>3. fleet' \in 1..FleetIdle /\ ((fleet' = fleet /\ shown' = shown) \/ shown' = Lost)
  <2>1. fleet \in 0..FleetIdle
    BY DEF NodeInv, TypeOK
  <2>2. CASE fleet = 0
    <3>1. fleet' \in {FleetBusy, FleetIdle} /\ shown' = Lost
      BY <2>2 DEF Turn, PublishFleet, Missing
    <3> QED
      BY <3>1, Intervals
  <2>3. CASE fleet # 0
    <3>1. fleet' = fleet /\ shown' = shown
      BY <2>3 DEF Turn
    <3> QED
      BY <2>1, <2>3, <3>1, Intervals
  <2> QED
    BY <2>2, <2>3
<1>4. StationShaped(st) /\ SceneOK(scene) /\ event \in BOOLEAN /\ DOMAIN age = AgeFields
      /\ sent \in [Vehicle -> 0..TimeToLive]
  BY SceneIs DEF NodeInv, TypeOK, NodeShaped
<1>5. \A f \in AgeFields : age[f] \in 0..Ages[f]
  BY AgesAre DEF NodeInv, TypeOK
<1>6. live \in BOOLEAN /\ (live => day.authored /\ age.scene <= SceneLife)
  <2>1. day.authored \in BOOLEAN
    BY NodeAssumption DEF NodeInv, TypeOK
  <2> QED
    BY <2>1 DEF Live
<1>7. ev \in BOOLEAN /\ steps \in BOOLEAN
  BY <1>4
<1> HIDE DEF live
<1>8. SceneOK(scene') /\ scene'.live = live
  BY <1>1, <1>4, <1>6 DEF SceneOK, SceneFields
<1>9. StationShaped(s) /\ s.scene = (live \/ ~day.authored) /\ s.entry = st.entry
  BY <1>4 DEF StationShaped, StationFields
<1> HIDE DEF ev, s
<1>10. /\ age.extension \in Nat /\ age.replan \in Nat /\ age.progress \in Nat /\ age.step \in Nat
       /\ \A v \in Vehicle : heard[v] \in Nat /\ sent[v] \in Nat
  <2>1. /\ age.extension \in 0..Ages.extension /\ age.replan \in 0..Ages.replan
        /\ age.progress \in 0..Ages.progress /\ age.step \in 0..Ages.step
    BY <1>5 DEF AgeFields
  <2>2. \A v \in Vehicle : heard[v] \in 0..Silence /\ sent[v] \in 0..TimeToLive
    BY DEF NodeInv, TypeOK
  <2> QED
    BY <2>1, <2>2
<1>11. CASE ~steps
  <2>1. after = [st |-> s, age |-> age, sent |-> sent]
    BY <1>11 DEF Stepped
  <2>2. st' = s /\ age' = age /\ sent' = sent /\ event' = ev
    BY <1>1, <1>7, <1>11, <2>1
  <2> DEFINE d == StepDue(ev, s, age, heard, sent)
  <2>3. d # 0 /\ StepDue(event', st', age', heard, sent') = d
    BY <1>11, <2>2
  <2>4. d \in Nat
    <3>1. Until(Floor, age.step) \in Nat
      BY <1>10, Intervals, UntilIs
    <3>2. Deadline(s, age, heard, sent) \in Nat
      BY <1>10, DeadlineIs
    <3> QED
      BY <3>1, <3>2 DEF StepDue
  <2> HIDE DEF d
  <2>5. \A v \in Vehicle : st'.entry[v].heard = st.entry[v].heard
    BY <1>9, <2>2
  <2>6. StepDue(event', st', age', heard, sent') \in Nat \ {0}
    BY <2>3, <2>4
  <2> QED
    BY <1>1, <1>2, <1>3, <1>4, <1>5, <1>6, <1>7, <1>8, <1>9, <2>2, <2>5, <2>6
<1>12. CASE steps
  <2> DEFINE z == Stepped(s, TRUE)
  <2>1. after = z
    BY <1>12 DEF Stepped
  <2>2. st' = z.st /\ age' = z.age /\ sent' = z.sent /\ event' = FALSE
    BY <1>1, <1>12, <2>1
  <2>3. /\ StationShaped(st') /\ st'.scene = s.scene
        /\ \A v \in Vehicle :
             /\ st'.entry[v].heard = s.entry[v].heard
             /\ AsksFor(st', v) => age'.replan <= Replanning
             /\ st'.entry[v].heard /\ v \notin Lost /\ st'.entry[v].s.gen # 0
                  /\ st'.entry[v].last.st # "None" /\ Repeats(st', v, Lost)
                  => sent'[v] <= Refresh
        /\ sent' \in [Vehicle -> 0..TimeToLive] /\ DOMAIN age' = AgeFields
        /\ age'.scene = age.scene /\ age'.step = 0 /\ age'.extension \in 0..Extension
        /\ age'.replan \in 0..(Replanning + 2) /\ age'.progress \in 0..(StallAfter + 2)
    <3> HIDE DEF z
    <3> QED
      BY <1>9, <2>2, SteppedIs DEF z
  <2> HIDE DEF z
  <2>4. \A f \in AgeFields : age'[f] \in 0..Ages[f]
    <3>1. age.scene \in 0..Ages.scene
      BY <1>5 DEF AgeFields
    <3> QED
      BY <2>3, <3>1, AgesAre, Intervals DEF AgeFields
  <2> DEFINE p == PlannerDeadline(st', age')
             d == Deadline(st', age', heard, sent')
  <2>5. age'.extension \in Nat /\ age'.replan \in Nat /\ age'.progress \in Nat
    BY <2>3
  <2>6. Until(Extension + 1, age'.extension) > 0
    <3>1. Extension + 1 \in Nat /\ age'.extension < Extension + 1
      BY <2>3, Intervals
    <3> QED
      BY <2>5, <3>1, UntilIs
  <2>7. ASSUME NEW v \in Vehicle, AsksFor(st', v) PROVE Until(Replanning + 1, age'.replan) > 0
    <3>1. age'.replan <= Replanning
      BY <2>3, <2>7
    <3> QED
      BY <2>5, <3>1, Intervals, UntilIs
  <2>8. p \in Nat /\ p > 0
    BY <2>5, <2>6, <2>7, PlannerDeadlineIs
  <2>9. \A v \in Vehicle : heard[v] \in Nat /\ sent'[v] \in Nat
    <3>1. \A v \in Vehicle : sent'[v] \in 0..TimeToLive
      BY <2>3
    <3> QED
      BY <1>10, <3>1
  <2>10. ASSUME NEW v, IsRepeated(st', v, heard) PROVE Until(Refresh + 1, sent'[v]) > 0
    <3>1. /\ v \in Vehicle /\ st'.entry[v].heard /\ heard[v] <= LostAfter
          /\ st'.entry[v].s.gen # 0 /\ st'.entry[v].last.st # "None"
      BY <2>10 DEF IsRepeated
    <3>2. v \notin Lost
      BY <1>10, <3>1, Intervals DEF Lost
    <3>3. Repeats(st', v, Lost)
      BY <2>10, <3>2 DEF IsRepeated, Repeats, TakesPart
    <3>4. sent'[v] <= Refresh
      BY <2>3, <3>1, <3>2, <3>3
    <3> QED
      BY <2>9, <3>1, <3>4, Intervals, UntilIs
  <2>11. d \in Nat /\ d > 0
    <3>1. /\ d \in Nat
          /\ p > 0 /\ (\A v : IsRepeated(st', v, heard) => Until(Refresh + 1, sent'[v]) > 0) => d > 0
      BY <2>5, <2>9, DeadlineIs
    <3> HIDE DEF p, d
    <3> QED
      BY <2>8, <2>10, <3>1
  <2>12. StepDue(event', st', age', heard, sent') = d
    BY <2>2 DEF StepDue
  <2> HIDE DEF p, d
  <2>13. StepDue(event', st', age', heard, sent') \in Nat \ {0}
    BY <2>11, <2>12
  <2>14. age'.scene = age.scene /\ event' = FALSE /\ st'.scene = s.scene
    BY <2>2, <2>3
  <2>15. \A v \in Vehicle : st'.entry[v].heard = st.entry[v].heard
    BY <1>9, <2>3
  <2> QED
    BY <1>1, <1>2, <1>3, <1>6, <1>8, <1>9, <2>3, <2>4, <2>13, <2>14, <2>15
<1> QED
  BY <1>11, <1>12

\* Who sleeps no longer than until then is not late.
LEMMA UntilThen ==
  ASSUME NEW per \in Nat, NEW past \in Nat, NEW d \in Nat \ {0}, d <= Until(per, past), NEW n \in 0..d
  PROVE  past + n <= per
BY DEF Until

LEMMA TurnKeeps == NodeInv /\ Turn => NodeInv' /\ sleep' > 0
<1> SUFFICES ASSUME NodeInv, Turn PROVE NodeInv' /\ sleep' > 0
  OBVIOUS
<1> DEFINE d == StepDue(event', st', age', heard, sent')
           live == scene'.live
<1>1. /\ StationShaped(st') /\ event' \in BOOLEAN /\ called' = FALSE
      /\ SceneOK(scene') /\ st'.scene = (live \/ ~day.authored)
      /\ live => day.authored /\ age'.scene <= SceneLife
      /\ UNCHANGED <<day, listed, heard>>
      /\ discovery' \in 1..Discovery /\ watched \subseteq watched'
      /\ watched' \subseteq Expected \cup listed
      /\ fleet' \in 1..FleetIdle
      /\ (fleet' = fleet /\ shown' = shown) \/ shown' = Lost
      /\ \A v \in Vehicle : st'.entry[v].heard = st.entry[v].heard
      /\ sent' \in [Vehicle -> 0..TimeToLive]
      /\ DOMAIN age' = AgeFields /\ \A f \in AgeFields : age'[f] \in 0..Ages[f]
      /\ d \in Nat \ {0}
      /\ sleep' = Wake(d, discovery', fleet', live, age')
  BY TurnIs
<1>2. TypeOK /\ TimeInv
  BY DEF NodeInv
<1> HIDE DEF live
<1>3. /\ age'.scene \in Nat /\ age'.extension \in Nat /\ age'.replan \in Nat
      /\ age'.progress \in Nat /\ age'.step \in Nat
      /\ (\A v \in Vehicle : heard[v] \in Nat /\ sent'[v] \in Nat)
  <2>1. /\ age'.scene \in 0..Ages.scene /\ age'.extension \in 0..Ages.extension
        /\ age'.replan \in 0..Ages.replan /\ age'.progress \in 0..Ages.progress
        /\ age'.step \in 0..Ages.step
    BY <1>1 DEF AgeFields
  <2>2. \A v \in Vehicle : heard[v] \in 0..Silence /\ sent'[v] \in 0..TimeToLive
    BY <1>1, <1>2 DEF TypeOK
  <2> QED
    BY <2>1, <2>2
<1>4. /\ sleep' \in 0..Discovery /\ sleep' > 0 /\ sleep' <= d /\ sleep' <= fleet'
      /\ live => sleep' <= SceneLife + 1 - age'.scene
  <2> HIDE DEF d
  <2>1. d \in Nat /\ discovery' \in Nat /\ fleet' \in Nat /\ d > 0 /\ discovery' > 0 /\ fleet' > 0
    BY <1>1
  <2>2. live => age'.scene \in 0..(SceneLife + 1) /\ age'.scene <= SceneLife
    BY <1>1, <1>3, Intervals
  <2> QED
    BY <1>1, <2>1, <2>2, WakeIs
<1>5. NodeShaped'
  BY <1>1 DEF NodeShaped, SceneOK
<1>6. TypeOK'
  <2>1. \A v \in Vehicle : st'.entry[v].heard => v \in watched'
    BY <1>1, <1>2 DEF TypeOK
  <2>2. shown' \subseteq watched'
    <3>1. shown \subseteq watched /\ Lost \subseteq watched
      BY <1>2 DEF TypeOK, Lost
    <3> QED
      BY <1>1, <3>1
  <2>3. \A a \in DOMAIN Ages : age'[a] \in 0..Ages[a]
    BY <1>1, AgesAre
  <2>4. Expected \subseteq watched' /\ watched' \subseteq Expected \cup listed'
    BY <1>1, <1>2 DEF TypeOK
  <2>5. discovery' \in 0..Discovery /\ fleet' \in 0..FleetIdle
    BY <1>1
  <2>6. day' \in Days /\ heard' \in [Vehicle -> 0..Silence]
    BY <1>1, <1>2 DEF TypeOK
  <2>7. /\ scene'.snap \in day'.snapshots \cup {NoScene}
        /\ \A b \in scene'.bodies : b.at \in Cell
        /\ {scene'.parsed, scene'.valid, scene'.live, scene'.pushed, event', called'} \subseteq BOOLEAN
        /\ scene'.valid => scene'.parsed
    BY <1>1 DEF SceneOK
  <2>8. (scene'.live => day'.authored) /\ st'.scene = (scene'.live \/ ~day'.authored)
    BY <1>1 DEF live
  <2> QED
    BY <1>1, <1>4, <2>1, <2>2, <2>3, <2>4, <2>5, <2>6, <2>7, <2>8 DEF TypeOK, Ages
<1>7. TimeInv'
  <2>1. scene'.live => age'.scene + sleep' <= SceneLife + 1
    BY <1>3, <1>4, Intervals DEF live
  <2>2. ASSUME NEW v \in Vehicle
        PROVE  /\ st'.entry[v].heard \/ heard'[v] = 0
               /\ v \in shown' \/ heard'[v] + fleet' <= LostAfter + FleetIdle
    <3>1. /\ st.entry[v].heard \/ heard[v] = 0
          /\ v \in shown \/ heard[v] + fleet <= LostAfter + FleetIdle
      BY <1>2 DEF TimeInv
    <3>2. v \notin Lost => heard[v] <= LostAfter
      BY <1>3, <3>1, Intervals DEF Lost
    <3>3. v \in shown' \/ heard'[v] + fleet' <= LostAfter + FleetIdle
      BY <1>1, <1>3, <3>1, <3>2, Intervals
    <3> QED
      BY <1>1, <3>1, <3>3
  <2>3. ASSUME NEW v \in Vehicle, ~event'
        PROVE  /\ Open(st', v) => age'.extension + Rest' <= Extension + 1
               /\ AsksFor(st', v) => age'.replan + Rest' <= Replanning + 1
               /\ Hesitates(st'.pl.body[v])
                    => \/ age'.extension + Rest' <= Extension + 1
                       \/ age'.progress + Rest' <= StallAfter + 1
               /\ v \notin Lost' /\ Addressee(st', v) => sent'[v] + Rest' <= Refresh + 1
    <3> DEFINE p == PlannerDeadline(st', age')
    <3>1. Rest' = sleep'
      BY <1>1 DEF Rest
    <3>2. d = Deadline(st', age', heard, sent')
      BY <1>1, <2>3 DEF StepDue
    <3>3. d <= p /\ \A w : IsRepeated(st', w, heard) => d <= Until(Refresh + 1, sent'[w])
      BY <1>3, <3>2, DeadlineIs
    <3>4. p \in Nat /\ (Open(st', v) => p <= Until(Extension + 1, age'.extension))
          /\ (AsksFor(st', v) => p <= Until(Replanning + 1, age'.replan))
          /\ (Hesitates(st'.pl.body[v]) => p <= Greater(Until(Extension + 1, age'.extension),
                                                        Until(StallAfter + 1, age'.progress)))
      BY <1>3, PlannerDeadlineIs
    <3> HIDE DEF d, p
    <3>5. ASSUME NEW per \in Nat, NEW past \in Nat, d <= Until(per, past)
          PROVE  past + sleep' <= per
      <4>1. d \in Nat \ {0}
        BY <1>1
      <4>2. sleep' \in 0..d
        BY <1>4, <4>1, Intervals
      <4> QED
        BY <3>5, <4>1, <4>2, UntilThen
    <3>6. /\ Extension + 1 \in Nat /\ Replanning + 1 \in Nat /\ Refresh + 1 \in Nat
          /\ StallAfter + 1 \in Nat
      BY Intervals
    <3>7. d \in Nat
      BY <1>1
    <3>8. Open(st', v) => age'.extension + sleep' <= Extension + 1
      <4>1. Until(Extension + 1, age'.extension) \in Nat
        BY <1>3, <3>6, UntilIs
      <4>2. Open(st', v) => d <= Until(Extension + 1, age'.extension)
        BY <3>3, <3>4, <3>7, <4>1
      <4> QED
        BY <1>3, <3>5, <3>6, <4>2
    <3>9. AsksFor(st', v) => age'.replan + sleep' <= Replanning + 1
      <4>1. Until(Replanning + 1, age'.replan) \in Nat
        BY <1>3, <3>6, UntilIs
      <4>2. AsksFor(st', v) => d <= Until(Replanning + 1, age'.replan)
        BY <3>3, <3>4, <3>7, <4>1
      <4> QED
        BY <1>3, <3>5, <3>6, <4>2
    <3>10. ASSUME v \notin Lost', Addressee(st', v) PROVE sent'[v] + sleep' <= Refresh + 1
      <4>1. heard[v] <= LostAfter /\ st'.entry[v].heard
        BY <1>1, <1>3, <3>10, Intervals DEF Lost, Addressee
      <4>2. IsRepeated(st', v, heard)
        BY <3>10, <4>1 DEF IsRepeated, Repeats, TakesPart, Addressee
      <4>3. d <= Until(Refresh + 1, sent'[v])
        BY <3>3, <4>2
      <4> QED
        BY <1>3, <3>5, <3>6, <4>3
    <3>11. ASSUME Hesitates(st'.pl.body[v])
           PROVE  \/ age'.extension + sleep' <= Extension + 1
                  \/ age'.progress + sleep' <= StallAfter + 1
      <4> DEFINE e == Until(Extension + 1, age'.extension)
                 x == Until(StallAfter + 1, age'.progress)
      <4>1. e \in Nat /\ x \in Nat
        BY <1>3, <3>6, UntilIs
      <4>2. d <= Greater(e, x)
        <5>1. p <= Greater(e, x)
          BY <3>4, <3>11
        <5> HIDE DEF e, x
        <5> QED
          BY <3>3, <3>4, <3>7, <4>1, <5>1 DEF Greater
      <4>3. d <= e \/ d <= x
        <5> HIDE DEF e, x
        <5> QED
          BY <4>2 DEF Greater
      <4> QED
        BY <1>3, <3>5, <3>6, <4>3
    <3> QED
      BY <3>1, <3>8, <3>9, <3>10, <3>11
  <2> QED
    BY <1>4, <2>1, <2>2, <2>3 DEF TimeInv
<1> QED
  BY <1>4, <1>5, <1>6, <1>7 DEF NodeInv

LEMMA NodeKeeps == NodeInv /\ [Next]_vars => NodeInv' /\ (Turn => sleep' > 0)
<1> SUFFICES ASSUME NodeInv, [Next]_vars PROVE NodeInv' /\ (Turn => sleep' > 0)
  OBVIOUS
<1>1. ASSUME NEW m \in day.snapshots, Snapshot(m) PROVE NodeInv'
  BY <1>1, SnapshotKeeps
<1>2. ASSUME NEW s \in day.states, State(s) PROVE NodeInv'
  BY <1>2, StateKeeps
<1>3. ASSUME NEW v \in Vehicle, List(v) PROVE NodeInv'
  BY <1>3, ListKeeps
<1>4. ASSUME NEW v \in Vehicle, NEW s, Session(v, s) PROVE NodeInv'
  BY <1>4, SessionKeeps
<1>5. CASE UNCHANGED vars
  <2>1. Rest' = Rest /\ Lost' = Lost
    BY <1>5 DEF vars, Rest, Lost
  <2>2. TypeOK /\ NodeShaped /\ TimeInv
    BY DEF NodeInv
  <2>3. TypeOK'
    BY <1>5, <2>2 DEF vars, TypeOK
  <2>4. NodeShaped'
    BY <1>5, <2>2 DEF vars, NodeShaped
  <2>5. UNCHANGED <<st, scene, event, called, sleep, age, heard, sent, fleet, shown>>
    BY <1>5 DEF vars
  <2>6. TimeInv'
    <3>1. /\ called' \/ sleep' <= fleet'
          /\ scene'.live /\ ~called' => age'.scene + sleep' <= SceneLife + 1
      BY <2>2, <2>5 DEF TimeInv
    <3>2. ASSUME NEW v \in Vehicle
          PROVE  /\ st'.entry[v].heard \/ heard'[v] = 0
                 /\ v \in shown' \/ heard'[v] + fleet' <= LostAfter + FleetIdle
                 /\ ~event' =>
                      /\ Open(st', v) => age'.extension + Rest' <= Extension + 1
                      /\ AsksFor(st', v) => age'.replan + Rest' <= Replanning + 1
                      /\ Hesitates(st'.pl.body[v])
                           => \/ age'.extension + Rest' <= Extension + 1
                              \/ age'.progress + Rest' <= StallAfter + 1
                      /\ v \notin Lost' /\ Addressee(st', v) => sent'[v] + Rest' <= Refresh + 1
      BY <2>1, <2>2, <2>5, Zenon DEF TimeInv
    <3> QED
      BY <3>1, <3>2 DEF TimeInv
  <2> QED
    BY <2>3, <2>4, <2>6, TurnKeeps DEF NodeInv
<1>6. Turn => NodeInv' /\ sleep' > 0
  BY TurnKeeps
<1>7. Tick => NodeInv'
  BY TickKeeps
<1> QED
  BY <1>1, <1>2, <1>3, <1>4, <1>5, <1>6, <1>7 DEF Next

-----------------------------------------------------------------------------
(* The world of a route.                                                     *)

\* A planner in world w, that has told nobody to go if it is mute.
Bound(pl, w, mute) == Shaped(pl) /\ pl.world = w /\ (mute => NoGo(pl))

LEMMA PutBound ==
  ASSUME NEW w, NEW mute, NEW pl, Bound(pl, w, mute), NEW v \in Vehicle, NEW c,
         DOMAIN c = BodyFields, c.next \in Nat
  PROVE  Bound(Put(pl, v, c), w, mute)
<1>1. Shaped(Put(pl, v, c))
  BY PutShaped DEF Bound
<1>2. Put(pl, v, c).world = pl.world /\ Put(pl, v, c).out = pl.out
  BY DEF Bound, Put, Shaped, PlannerFields
<1> QED
  BY <1>1, <1>2 DEF Bound, NoGo

LEMMA DirtyBound ==
  ASSUME NEW w, NEW mute, NEW pl, Bound(pl, w, mute), NEW x
  PROVE  Bound([pl EXCEPT !.dirty = x], w, mute)
<1> DEFINE d == [pl EXCEPT !.dirty = x]
<1>1. Shaped(d)
  BY FlagsShaped DEF Bound
<1>2. d.world = pl.world /\ d.out = pl.out
  BY DEF Bound, Shaped, PlannerFields
<1> QED
  BY <1>1, <1>2 DEF Bound, NoGo

LEMMA ChangedBound ==
  ASSUME NEW w, NEW mute, NEW pl, Bound(pl, w, mute), NEW x
  PROVE  Bound([pl EXCEPT !.changed = x], w, mute)
<1> DEFINE d == [pl EXCEPT !.changed = x]
<1>1. Shaped(d)
  BY FlagsShaped DEF Bound
<1>2. d.world = pl.world /\ d.out = pl.out
  BY DEF Bound, Shaped, PlannerFields
<1> QED
  BY <1>1, <1>2 DEF Bound, NoGo

LEMMA FreshBound ==
  ASSUME NEW w, NEW mute, NEW pl, Bound(pl, w, mute)
  PROVE  Bound(Fresh(pl), w, TRUE)
<1>1. Shaped(Fresh(pl)) /\ NoGo(Fresh(pl))
  BY FlagsShaped, FlagsSame DEF Bound, Fresh
<1>2. Fresh(pl).world = pl.world
  BY DEF Bound, Shaped, PlannerFields, Fresh
<1> QED
  BY <1>1, <1>2 DEF Bound

LEMMA RestedBound ==
  ASSUME NEW w, NEW mute, NEW pl, Bound(pl, w, mute)
  PROVE  Bound(Rested(pl), w, mute) /\ Bound(Looked(pl), w, mute)
BY ChangedBound, DirtyBound DEF Rested, Looked

LEMMA DecidedWorld ==
  ASSUME NEW pl, Shaped(pl), NEW v \in Vehicle, NEW told, NEW reason, NEW blockers
  PROVE  Decided(pl, v, told, reason, blockers).world = pl.world
BY DEF Decided, Shaped, PlannerFields

\* Whatever a vehicle is told but to go.
LEMMA ToldBound ==
  ASSUME NEW w, NEW mute, NEW pl, Bound(pl, w, mute), NEW v \in Vehicle, NEW reason, NEW blockers
  PROVE  /\ Bound(EmitHold(pl, v, reason, blockers), w, mute)
         /\ Bound(EmitReject(pl, v, reason, blockers), w, mute)
         /\ Bound(EmitBrake(pl, v, reason, blockers), w, mute)
<1>1. /\ SameReservations(pl, EmitHold(pl, v, reason, blockers))
      /\ SameReservations(pl, EmitReject(pl, v, reason, blockers))
      /\ SameReservations(pl, EmitBrake(pl, v, reason, blockers))
  BY HoldSame, RejectSame, BrakeSame DEF Bound
<1>2. ASSUME NEW p, Shaped(p), NEW told PROVE Decided(p, v, told, reason, blockers).world = p.world
  BY <1>2, DecidedWorld
<1>3. EmitHold(pl, v, reason, blockers).world = w
  <2> DEFINE p == [pl EXCEPT !.body[v].blockers = blockers]
  <2>1. EmitHold(pl, v, reason, blockers) \in {p, Decided(p, v, "Hold", reason, blockers)}
    BY DEF EmitHold
  <2>2. Shaped(p) /\ p.world = w
    BY DEF Bound, Shaped, PlannerFields, BodyFields
  <2> HIDE DEF p
  <2> QED
    BY <1>2, <2>1, <2>2
<1>4. /\ EmitReject(pl, v, reason, blockers).world = w
      /\ EmitBrake(pl, v, reason, blockers).world = w
  <2> DEFINE b == pl.body[v]
             c == [Retire(b) EXCEPT !.rejected = TRUE]
             d == [Retire(b) EXCEPT !.cert = "Awaiting", !.brake = b.next]
             p == Put(pl, v, c)
             q == Put(pl, v, d)
  <2>1. /\ EmitReject(pl, v, reason, blockers) = Decided(p, v, "Reject", reason, blockers)
        /\ EmitBrake(pl, v, reason, blockers) = Decided(q, v, "Brake", reason, blockers)
    BY DEF EmitReject, EmitBrake
  <2>2. /\ DOMAIN c = BodyFields /\ c.next \in Nat /\ DOMAIN d = BodyFields /\ d.next \in Nat
    <3>1. /\ DOMAIN Retire(b) = BodyFields
          /\ \A f \in BodyFields \ {"at"} : Retire(b)[f] = b[f]
      BY RetireIs DEF Bound, Shaped
    <3> HIDE DEF b
    <3>2. b.next \in Nat
      BY DEF b, Bound, Shaped
    <3> QED
      BY <3>1, <3>2 DEF BodyFields
  <2> HIDE DEF c, d
  <2>3. Bound(p, w, mute) /\ Bound(q, w, mute)
    BY <2>2, PutBound
  <2> HIDE DEF p, q
  <2> QED
    BY <1>2, <2>1, <2>3 DEF Bound
<1> QED
  BY <1>1, <1>3, <1>4, NoGoSame DEF Bound, SameReservations

LEMMA GoBound ==
  ASSUME NEW w, NEW pl, Bound(pl, w, FALSE), NEW v \in Vehicle
  PROVE  Bound(EmitGo(pl, v), w, FALSE)
<1> DEFINE b == pl.body[v]
           p == Decided(pl, v, "Go", "None", {})
           g == [p EXCEPT !.body[v].plan.id = b.next]
<1>1. Shaped(p) /\ p.world = w
  BY DecidedShaped, DecidedWorld DEF Bound
<1> HIDE DEF p
<1>2. g.world = w /\ DOMAIN g = PlannerFields
  BY <1>1 DEF Shaped, PlannerFields
<1>3. EmitGo(pl, v) = [g EXCEPT !.out[Len(g.out)].route = b.plan.route,
                                !.out[Len(g.out)].lim = b.plan.lim]
  <2>1. g.out = p.out
    BY <1>1 DEF Shaped, PlannerFields
  <2> HIDE DEF g
  <2>2. EmitGo(pl, v) = [g EXCEPT !.out[Len(p.out)].route = b.plan.route,
                                  !.out[Len(p.out)].lim = b.plan.lim]
    BY DEF EmitGo, p, g
  <2> QED
    BY <2>1, <2>2
<1>4. EmitGo(pl, v).world = w
  <2> HIDE DEF g, b
  <2>1. \A n, x, y : [g EXCEPT !.out[n].route = x, !.out[n].lim = y].world = g.world
    BY <1>2 DEF PlannerFields
  <2> QED
    BY <1>2, <1>3, <2>1
<1> QED
  BY <1>4, GoShaped DEF Bound

LEMMA InstallBound ==
  ASSUME NEW w, NEW pl, Bound(pl, w, FALSE), NEW v \in Vehicle, NEW cand
  PROVE  Bound(InstallPlan(pl, v, cand), w, FALSE)
<1> DEFINE b == pl.body[v]
           plan == [route |-> cand.route, lim |-> cand.lim, id |-> b.next,
                    cursor |-> 1, session |-> b.session, gen |-> b.gen]
           c == [b EXCEPT !.at = "AwaitGo", !.grants = @ + 1, !.blockers = {}, !.noRoute = FALSE,
                          !.plan = plan]
<1>1. DOMAIN c = BodyFields /\ c.next \in Nat
  BY DEF Bound, Shaped, BodyFields
<1>2. InstallPlan(pl, v, cand) \in {EmitReject(pl, v, "NoRoute", {}), EmitGo(Put(pl, v, c), v)}
  BY DEF InstallPlan
<1> HIDE DEF c
<1>3. Bound(Put(pl, v, c), w, FALSE)
  BY <1>1, PutBound
<1> QED
  BY <1>2, <1>3, GoBound, ToldBound

LEMMA BoundAlong ==
  ASSUME NEW w, NEW mute, NEW r, Bound(r[0], w, mute),
         \A i \in 1..Len(Fleet) : Bound(r[i - 1], w, mute) => Bound(r[i], w, mute)
  PROVE  Bound(r[Len(Fleet)], w, mute)
<1> DEFINE S == {k \in 0..Len(Fleet) : Bound(r[k], w, mute)}
<1>1. 0 \in S
  BY FleetMember
<1>2. ASSUME NEW i \in 1..Len(Fleet), i - 1 \in S PROVE i \in S
  BY <1>2, FleetMember
<1> HIDE DEF S
<1>3. Len(Fleet) \in S
  BY <1>1, <1>2, FleetInduction
<1> QED
  BY <1>3 DEF S

-----------------------------------------------------------------------------
(* What the vehicles say.                                                    *)

LEMMA RequestBound ==
  ASSUME NEW w, NEW mute, NEW p, Bound(p, w, mute), NEW v \in Vehicle, NEW f
  PROVE  Bound(NewRequest(p, v, f), w, mute)
<1> DEFINE b == [p.body[v] EXCEPT !.session = f.session, !.gen = f.gen, !.target = f.target,
                              !.rejected = FALSE, !.occupied = FALSE, !.noRoute = FALSE]
           g == Put(p, v, b)
           e == [g EXCEPT !.dirty = TRUE]
<1>1. NewRequest(p, v, f) = EmitBrake(e, v, "Replan", {})
  BY DEF NewRequest
<1>2. DOMAIN b = BodyFields /\ b.next \in Nat
  BY DEF Bound, Shaped, BodyFields
<1> HIDE DEF b
<1>3. Bound(g, w, mute)
  BY <1>2, PutBound
<1> HIDE DEF g
<1>4. Bound(e, w, mute)
  BY <1>3, DirtyBound
<1> HIDE DEF e
<1> QED
  BY <1>1, <1>4, ToldBound

LEMMA CertifiedBound ==
  ASSUME NEW w, NEW mute, NEW p, Bound(p, w, mute), NEW v \in Vehicle, NEW f
  PROVE  Bound(Certified(p, v, f), w, mute)
<1> DEFINE b == p.body[v]
           e == [b EXCEPT !.at = "Unreserved", !.plan = NoPlan, !.cert = "Certified",
                          !.target = f.target, !.last = NewBody.last,
                          !.grants = IF b.budget # f.session THEN 0 ELSE @,
                          !.budget = f.session]
           r == Put(p, v, e)
           q == IF Participates(b) THEN r ELSE EmitHold(r, v, "None", {})
<1>1. DOMAIN e = BodyFields /\ e.next \in Nat
  BY DEF Bound, Shaped, BodyFields
<1>2. Certified(p, v, f) = [q EXCEPT !.dirty = TRUE]
  BY DEF Certified
<1> HIDE DEF e
<1>3. Bound(r, w, mute)
  BY <1>1, PutBound
<1> HIDE DEF r
<1>4. Bound(q, w, mute)
  BY <1>3, ToldBound
<1> HIDE DEF q
<1> QED
  BY <1>2, <1>4, DirtyBound

LEMMA MovedBound ==
  ASSUME NEW w, NEW mute, NEW pl, Bound(pl, w, mute), NEW v \in Vehicle, NEW f
  PROVE  Bound(Moved(pl, v, f, pl.body[v]), w, mute)
<1> DEFINE b == pl.body[v]
           e == [b EXCEPT !.pose = f.pose, !.proof = f.pose]
           g == IF f.available \/ ~b.known THEN [b EXCEPT !.pose = f.pose] ELSE b
           p == Put(pl, v, e)
           hit == InGrantedCorridor(p, v)
           h == [p EXCEPT !.changed = @ \/ hit, !.dirty = @ \/ hit]
<1>1. DOMAIN e = BodyFields /\ e.next \in Nat /\ DOMAIN g = BodyFields /\ g.next \in Nat
  BY DEF Bound, Shaped, BodyFields
<1>2. Moved(pl, v, f, b) \in {h, Put(pl, v, g)}
  BY DEF Moved
<1> HIDE DEF e, g
<1>3. Bound(p, w, mute) /\ Bound(Put(pl, v, g), w, mute)
  BY <1>1, PutBound
<1> HIDE DEF p
<1>4. Bound(h, w, mute)
  <2> DEFINE x == p.changed \/ hit
             y == p.dirty \/ hit
             k == [p EXCEPT !.changed = x]
  <2> HIDE DEF hit
  <2>1. h = [k EXCEPT !.dirty = y]
    BY <1>3 DEF Bound, Shaped, PlannerFields
  <2> HIDE DEF x, y
  <2>2. Bound(k, w, mute)
    BY <1>3, ChangedBound
  <2> HIDE DEF k
  <2> QED
    BY <2>1, <2>2, DirtyBound
<1> QED
  BY <1>2, <1>3, <1>4

LEMMA NotedBound ==
  ASSUME NEW w, NEW mute, NEW p, Bound(p, w, mute), NEW v \in Vehicle,
         NEW x1, NEW x2, NEW x3, NEW x4
  PROVE  Bound([p EXCEPT !.body[v].known = x1, !.body[v].phase = x2,
                         !.body[v].available = x3, !.body[v].uncontrolled = x4], w, mute)
<1> DEFINE q == [p EXCEPT !.body[v].known = x1, !.body[v].phase = x2,
                          !.body[v].available = x3, !.body[v].uncontrolled = x4]
<1>1. Shaped(q)
  BY FieldsShaped DEF Bound
<1>2. q.world = p.world /\ q.out = p.out
  BY DEF Bound, Shaped, PlannerFields
<1> QED
  BY <1>1, <1>2 DEF Bound, NoGo

LEMMA FirstWordBound ==
  ASSUME NEW w, NEW mute, NEW p, Bound(p, w, mute), NEW v \in Vehicle, NEW x1, NEW x2
  PROVE  Bound([p EXCEPT !.body[v].session = x1, !.body[v].target = x2], w, mute)
<1> DEFINE r == [p EXCEPT !.body[v].session = x1, !.body[v].target = x2]
<1>1. Shaped(r)
  BY FieldsShaped DEF Bound
<1>2. r.world = p.world /\ r.out = p.out
  BY DEF Bound, Shaped, PlannerFields
<1> QED
  BY <1>1, <1>2 DEF Bound, NoGo

LEMMA SyncBound ==
  ASSUME NEW w, NEW mute, NEW pl, Bound(pl, w, mute), NEW v \in Vehicle, NEW f
  PROVE  Bound(Sync(pl, v, f), w, mute)
<1> DEFINE m == Moved(pl, v, f, pl.body[v])
           s == Noted(pl, v, f)
           i == [s EXCEPT !.body[v].session = f.session, !.body[v].target = f.target]
           n == Renewed(pl, v, f)
           d == Deserted(n, v, f)
           c == Relieved(d, v, f, f.gen > pl.body[v].gen)
<1>1. Bound(m, w, mute)
  BY MovedBound
<1>2. Bound(s, w, mute)
  <2> DEFINE u == f.moving \/ (f.phase = "Moving" /\ ~HasPlan(pl.body[v]))
  <2>1. s = [m EXCEPT !.body[v].known = TRUE, !.body[v].phase = f.phase,
                      !.body[v].available = f.available, !.body[v].uncontrolled = u]
    BY DEF Noted
  <2> HIDE DEF m, u, s
  <2> QED
    BY <1>1, <2>1, NotedBound
<1>3. n \in {NewRequest(s, v, f), i, s}
  BY DEF Renewed
<1>4. Sync(pl, v, f) \in {pl, n, Received(c, v, f)}
  BY DEF Sync
<1> HIDE DEF m, s
<1>5. Bound(n, w, mute)
  <2>1. Bound(i, w, mute)
    BY <1>2, FirstWordBound
  <2>2. Bound(NewRequest(s, v, f), w, mute)
    BY <1>2, RequestBound
  <2> HIDE DEF i
  <2> QED
    BY <1>2, <1>3, <2>1, <2>2
<1> HIDE DEF n
<1>6. Bound(d, w, mute)
  <2> DEFINE z == EmitBrake(n, v, "Replan", {})
  <2>1. d \in {[z EXCEPT !.dirty = TRUE], n}
    BY DEF Deserted
  <2>2. Bound(z, w, mute)
    BY <1>5, ToldBound
  <2> HIDE DEF z, d
  <2> QED
    BY <1>5, <2>1, <2>2, DirtyBound
<1> HIDE DEF d
<1>7. Bound(c, w, mute)
  BY <1>6, CertifiedBound DEF Relieved
<1> HIDE DEF c
<1>8. Bound(Received(c, v, f), w, mute)
  <2> DEFINE e == [c.body[v] EXCEPT !.at = "GoReceived"]
  <2>1. DOMAIN e = BodyFields /\ e.next \in Nat
    BY <1>7 DEF Bound, Shaped, BodyFields
  <2>2. Received(c, v, f) \in {Put(c, v, e), c}
    BY DEF Received
  <2> HIDE DEF e
  <2> QED
    BY <1>7, <2>1, <2>2, PutBound
<1> QED
  BY <1>4, <1>5, <1>8

LEMMA SyncedBound ==
  ASSUME NEW w, NEW pl, Bound(pl, w, FALSE), NEW facts
  PROVE  Bound(Synced(pl, facts), w, TRUE)
<1>1. PICK r : /\ r[0] = Fresh(pl) /\ Synced(pl, facts) = r[Len(Fleet)]
               /\ \A i \in 1..Len(Fleet) :
                    r[i] = IF Fleet[i] \in DOMAIN facts
                           THEN Sync(r[i - 1], Fleet[i], facts[Fleet[i]]) ELSE r[i - 1]
  BY SyncedSteps
<1>2. Bound(r[0], w, TRUE)
  BY <1>1, FreshBound
<1>3. ASSUME NEW i \in 1..Len(Fleet), Bound(r[i - 1], w, TRUE) PROVE Bound(r[i], w, TRUE)
  BY <1>1, <1>3, SyncBound, FleetMember
<1> QED
  BY <1>1, <1>2, <1>3, BoundAlong

-----------------------------------------------------------------------------
(* Movers.                                                                   *)

LEMMA AdvanceBound ==
  ASSUME NEW w, NEW mute, NEW pl, Bound(pl, w, mute), NEW v \in Vehicle
  PROVE  Bound(Advance(pl, v), w, mute)
<1> DEFINE b  == pl.body[v]
           at == {i \in b.plan.cursor..Len(b.plan.route.path) : b.plan.route.path[i] = b.pose}
           x  == CHOOSE i \in at : TRUE
           c  == [b EXCEPT !.plan.cursor = x]
<1>1. Advance(pl, v) \in {pl, Put(pl, v, c)}
  BY DEF Advance
<1> HIDE DEF x
<1>2. DOMAIN c = BodyFields /\ c.next \in Nat
  BY DEF Bound, Shaped, BodyFields
<1> HIDE DEF c
<1> QED
  BY <1>1, <1>2, PutBound

LEMMA ExtendBound ==
  ASSUME NEW w, NEW pl, Bound(pl, w, FALSE), NEW v \in Vehicle
  PROVE  Bound(Extend(pl, v), w, FALSE)
<1> DEFINE viol == FirstViolation(pl, v, pl.body[v].plan.route.path, pl.body[v].plan.cursor)
<1>1. ASSUME NEW k PROVE Bound(Extended(pl, v, k), w, FALSE)
  <2> DEFINE b    == pl.body[v]
             next == IF k.at = 0 THEN Unlimited ELSE Greater(b.plan.lim, k.at - 1)
             z == EmitBrake(pl, v, IF k.world THEN "SceneChanged" ELSE "Replan", k.blockers)
             c == [b EXCEPT !.plan.lim = next, !.at = "AwaitGo"]
             d == [b EXCEPT !.blockers = k.blockers]
  <2>1. Extended(pl, v, k) \in {[z EXCEPT !.dirty = TRUE], pl, EmitGo(Put(pl, v, c), v), Put(pl, v, d)}
    BY DEF Extended
  <2> HIDE DEF next
  <2>2. DOMAIN c = BodyFields /\ c.next \in Nat /\ DOMAIN d = BodyFields /\ d.next \in Nat
    BY DEF Bound, Shaped, BodyFields
  <2> HIDE DEF c, d
  <2>3. Bound(z, w, FALSE)
    BY ToldBound
  <2> HIDE DEF z
  <2>4. Bound(Put(pl, v, c), w, FALSE) /\ Bound(Put(pl, v, d), w, FALSE)
    BY <2>2, PutBound
  <2>5. Bound([z EXCEPT !.dirty = TRUE], w, FALSE)
    BY <2>3, DirtyBound
  <2>6. Bound(EmitGo(Put(pl, v, c), v), w, FALSE)
    BY <2>4, GoBound
  <2> QED
    BY <2>1, <2>4, <2>5, <2>6
<1>2. Extend(pl, v) \in {Extended(pl, v, viol), pl}
  BY DEF Extend
<1> QED
  BY <1>1, <1>2

LEMMA RefuseWaitingBound ==
  ASSUME NEW w, NEW mute, NEW pl, Bound(pl, w, mute), NEW now
  PROVE  Bound(Stall(pl, now), w, mute)
<1>1. PICK r : /\ r[0] = pl /\ RefuseWaiting(pl) = r[Len(Fleet)]
               /\ \A i \in 1..Len(Fleet) :
                    r[i] = IF Fleet[i] \in {v \in Vehicle : Granted(pl.body[v])
                                                            /\ pl.body[v].phase = "Waiting"}
                           THEN EmitReject(r[i - 1], Fleet[i], "Stalled",
                                           r[i - 1].body[Fleet[i]].blockers)
                           ELSE r[i - 1]
  BY RefuseWaitingSteps
<1>2. ASSUME NEW i \in 1..Len(Fleet), Bound(r[i - 1], w, mute) PROVE Bound(r[i], w, mute)
  BY <1>1, <1>2, ToldBound, FleetMember
<1> DEFINE q == RefuseWaiting(pl)
<1>3. Bound(q, w, mute)
  BY <1>1, <1>2, BoundAlong
<1>4. Stall(pl, now) \in {[q EXCEPT !.dirty = TRUE], pl}
  BY DEF Stall
<1> HIDE DEF q
<1> QED
  BY <1>3, <1>4, DirtyBound

LEMMA MoversBound ==
  ASSUME NEW w, NEW pl, Bound(pl, w, FALSE), NEW now
  PROVE  Bound(UpdateMovers(pl, now), w, FALSE)
<1> DEFINE a == Advanced(pl)
           e == Verified(a)
           late == now.stall /\ ~Progressed(pl)
<1>1. Bound(a, w, FALSE)
  <2>1. PICK r : /\ r[0] = pl /\ a = r[Len(Fleet)]
                 /\ \A i \in 1..Len(Fleet) :
                      r[i] = IF Fleet[i] \in Vehicle THEN Advance(r[i - 1], Fleet[i])
                             ELSE r[i - 1]
    BY AdvancedSteps
  <2>2. ASSUME NEW i \in 1..Len(Fleet), Bound(r[i - 1], w, FALSE) PROVE Bound(r[i], w, FALSE)
    BY <2>1, <2>2, AdvanceBound, FleetMember
  <2> QED
    BY <2>1, <2>2, BoundAlong
<1> HIDE DEF a
<1>2. Bound(e, w, FALSE)
  <2>1. PICK r : /\ r[0] = a /\ e = Rested(r[Len(Fleet)])
                 /\ \A i \in 1..Len(Fleet) :
                      r[i] = IF Fleet[i] \in Vehicle THEN Extend(r[i - 1], Fleet[i])
                             ELSE r[i - 1]
    BY VerifiedSteps
  <2>2. ASSUME NEW i \in 1..Len(Fleet), Bound(r[i - 1], w, FALSE) PROVE Bound(r[i], w, FALSE)
    BY <2>1, <2>2, ExtendBound, FleetMember
  <2>3. Bound(r[Len(Fleet)], w, FALSE)
    BY <1>1, <2>1, <2>2, BoundAlong
  <2> QED
    BY <2>1, <2>3, RestedBound
<1> HIDE DEF e
<1>3. UpdateMovers(pl, now) \in {Stall(e, late), a}
  BY DEF UpdateMovers, e, a
<1> QED
  BY <1>1, <1>2, <1>3, RefuseWaitingBound

-----------------------------------------------------------------------------
(* Without the scene nobody is told to go.                                   *)

NobodyGranted(pl) == \A v \in Vehicle : ~Granted(pl.body[v])

LEMMA SuspendBound ==
  ASSUME NEW w, NEW pl, Bound(pl, w, TRUE)
  PROVE  Bound(Suspend(pl), w, TRUE) /\ NobodyGranted(Suspend(pl))
<1> DEFINE n == Len(Fleet)
           G == {v \in Vehicle : Granted(pl.body[v])}
<1>1. PICK r : /\ r[0] = pl /\ Suspend(pl) = r[n]
               /\ \A i \in 1..n :
                    r[i] = IF Fleet[i] \in G
                           THEN EmitBrake(r[i - 1], Fleet[i], "SceneUnavailable", {})
                           ELSE r[i - 1]
  BY SuspendSteps
<1>2. n \in Nat /\ \A i \in 1..n : Fleet[i] \in Vehicle
  BY FleetMember
<1> HIDE DEF n
<1>3. ASSUME NEW v \in Vehicle, ~Granted(pl.body[v]) PROVE v \notin G
  BY <1>3
<1> HIDE DEF G
<1> DEFINE P(k) == /\ Bound(r[k], w, TRUE) /\ SameReservations(pl, r[k])
                   /\ \A j \in 1..k : ~Granted(r[k].body[Fleet[j]])
           S == {k \in 0..n : P(k)}
<1>4. 0 \in S
  <2>1. SameReservations(pl, pl)
    BY SameItself DEF Bound
  <2>2. Bound(r[0], w, TRUE) /\ SameReservations(pl, r[0])
    BY <1>1, <2>1
  <2> DEFINE Q == Bound(r[0], w, TRUE) /\ SameReservations(pl, r[0])
  <2>4. P(0) <=> Q /\ \A j \in 1..0 : ~Granted(r[0].body[Fleet[j]])
    OBVIOUS
  <2>5. Q
    BY <2>2
  <2>6. \A j \in 1..0 : FALSE
    OBVIOUS
  <2>3. P(0)
    <3> HIDE DEF Q, P
    <3> QED
      BY <2>4, <2>5, <2>6
  <2> HIDE DEF P
  <2> QED
    BY <1>2, <2>3
<1>5. ASSUME NEW i \in 1..n, i - 1 \in S PROVE i \in S
  <2> DEFINE p == r[i - 1]
             v == Fleet[i]
             q == EmitBrake(p, v, "SceneUnavailable", {})
  <2>1. /\ Bound(p, w, TRUE) /\ SameReservations(pl, p) /\ v \in Vehicle
        /\ \A j \in 1..(i - 1) : ~Granted(p.body[Fleet[j]])
    BY <1>2, <1>5
  <2>2. Bound(q, w, TRUE)
    BY <2>1, ToldBound
  <2>3. /\ SameReservations(p, q) /\ ~Granted(q.body[v])
        /\ \A u \in Vehicle \ {v} : q.body[u] = p.body[u]
    BY <2>1, BrakeSame DEF Bound
  <2>4. r[i] = IF v \in G THEN q ELSE p
    BY <1>1
  <2>5. SameReservations(pl, q)
    BY <2>1, <2>3, SameAgain DEF Bound
  <2> HIDE DEF p, q
  <2>6. Bound(r[i], w, TRUE) /\ SameReservations(pl, r[i])
    BY <2>1, <2>2, <2>4, <2>5
  <2>7. ~Granted(r[i].body[v])
    <3>1. CASE v \in G
      BY <2>3, <2>4, <3>1
    <3>2. CASE v \notin G
      BY <1>3, <2>1, <2>6, <3>2 DEF G, SameReservations, SameReservation
    <3> QED
      BY <3>1, <3>2
  <2>8. ASSUME NEW j \in 1..i PROVE ~Granted(r[i].body[Fleet[j]])
    <3>1. CASE Fleet[j] = v
      BY <2>7, <3>1
    <3>2. CASE Fleet[j] # v
      <4>1. j \in 1..(i - 1) /\ Fleet[j] \in Vehicle
        BY <1>2, <3>2
      <4> QED
        BY <2>1, <2>3, <2>4, <3>2, <4>1
    <3> QED
      BY <3>1, <3>2
  <2>9. P(i)
    BY <2>6, <2>8
  <2> HIDE DEF P
  <2> QED
    BY <1>2, <2>9
<1>6. n \in S
  <2> HIDE DEF S
  <2> QED
    BY <1>4, <1>5, FleetInduction DEF n
<1>7. ASSUME NEW v \in Vehicle PROVE ~Granted(r[n].body[v])
  <2>1. PICK j \in 1..n : v = Fleet[j]
    BY FleetAssumption DEF Vehicle, n
  <2> QED
    BY <1>6, <2>1
<1> QED
  BY <1>1, <1>6, <1>7 DEF NobodyGranted

\* With nobody granted no route is followed or extended.
LEMMA RestBound ==
  ASSUME NEW w, NEW pl, Bound(pl, w, TRUE), NobodyGranted(pl), NEW now
  PROVE  Bound(UpdateMovers(pl, now), w, TRUE)
<1> DEFINE a == Advanced(pl)
           e == Verified(pl)
           late == now.stall /\ ~Progressed(pl)
<1>1. a = pl
  <2>1. PICK r : /\ r[0] = pl /\ a = r[Len(Fleet)]
                 /\ \A i \in 1..Len(Fleet) :
                      r[i] = IF Fleet[i] \in Vehicle THEN Advance(r[i - 1], Fleet[i])
                             ELSE r[i - 1]
    BY AdvancedSteps
  <2>2. ASSUME NEW v \in Vehicle PROVE Advance(pl, v) = pl
    <3>1. pl.body[v].at # "GoReceived"
      BY DEF NobodyGranted, Granted, HasPlan, Retiring
    <3> QED
      BY <3>1 DEF Advance
  <2> DEFINE S == {k \in 0..Len(Fleet) : r[k] = pl}
  <2>3. 0 \in S
    BY <2>1, FleetMember
  <2>4. ASSUME NEW i \in 1..Len(Fleet), i - 1 \in S PROVE i \in S
    BY <2>1, <2>2, <2>4, FleetMember
  <2> HIDE DEF S
  <2>5. Len(Fleet) \in S
    BY <2>3, <2>4, FleetInduction
  <2> QED
    BY <2>1, <2>5 DEF S
<1>2. e = Rested(pl)
  <2>1. PICK r : /\ r[0] = pl /\ e = Rested(r[Len(Fleet)])
                 /\ \A i \in 1..Len(Fleet) :
                      r[i] = IF Fleet[i] \in Vehicle THEN Extend(r[i - 1], Fleet[i])
                             ELSE r[i - 1]
    BY VerifiedSteps
  <2>2. ASSUME NEW v \in Vehicle PROVE Extend(pl, v) = pl
    BY DEF NobodyGranted, Extend
  <2> DEFINE S == {k \in 0..Len(Fleet) : r[k] = pl}
  <2>3. 0 \in S
    BY <2>1, FleetMember
  <2>4. ASSUME NEW i \in 1..Len(Fleet), i - 1 \in S PROVE i \in S
    BY <2>1, <2>2, <2>4, FleetMember
  <2> HIDE DEF S
  <2>5. Len(Fleet) \in S
    BY <2>3, <2>4, FleetInduction
  <2> QED
    BY <2>1, <2>5 DEF S
<1> HIDE DEF a, e
<1>3. Bound(e, w, TRUE)
  BY <1>2, RestedBound
<1>4. UpdateMovers(pl, now) \in {Stall(e, late), a}
  BY <1>1 DEF UpdateMovers, e, a
<1> QED
  BY <1>1, <1>3, <1>4, RefuseWaitingBound

LEMMA IdleBound ==
  ASSUME NEW w, NEW pl, Bound(pl, w, FALSE), NEW facts, NEW now
  PROVE  Bound(Update(pl, facts, FALSE, now), w, TRUE)
<1> DEFINE y == Synced(pl, facts)
           u == Suspend(y)
           c == UpdateMovers(u, now)
<1>1. Bound(y, w, TRUE)
  BY SyncedBound
<1> HIDE DEF y
<1>2. Bound(u, w, TRUE) /\ NobodyGranted(u)
  BY <1>1, SuspendBound
<1> HIDE DEF u
<1>3. Bound(c, w, TRUE)
  BY <1>2, RestBound
<1>4. Update(pl, facts, FALSE, now) = Replan(c, FALSE, now)
  BY DEF Update, PlannerStep, Carried, Permitted, c, u, y
<1> HIDE DEF c
<1>5. Replan(c, FALSE, now) = c
  BY DEF Replan
<1> QED
  BY <1>3, <1>4, <1>5

-----------------------------------------------------------------------------
(* Admission.                                                                *)

LEMMA HoldForBound ==
  ASSUME NEW w, NEW mute, NEW pl, Bound(pl, w, mute), NEW waiting, NEW loose
  PROVE  Bound(HoldFor(pl, waiting, loose), w, mute)
<1>1. PICK r : /\ r[0] = pl /\ HoldFor(pl, waiting, loose) = r[Len(Fleet)]
               /\ \A i \in 1..Len(Fleet) :
                    r[i] = IF Fleet[i] \in waiting THEN Still(r[i - 1], Fleet[i], loose)
                           ELSE r[i - 1]
  BY HoldForSteps
<1>2. ASSUME NEW i \in 1..Len(Fleet), Bound(r[i - 1], w, mute) PROVE Bound(r[i], w, mute)
  BY <1>1, <1>2, ToldBound, FleetMember DEF Still
<1> QED
  BY <1>1, <1>2, BoundAlong

LEMMA FlagsBound ==
  ASSUME NEW w, NEW mute, NEW pl, Bound(pl, w, mute), NEW v \in Vehicle, NEW x
  PROVE  /\ Bound([pl EXCEPT !.body[v].occupied = x], w, mute)
         /\ Bound([pl EXCEPT !.body[v].noRoute = x], w, mute)
<1> DEFINE o == [pl EXCEPT !.body[v].occupied = x]
           r == [pl EXCEPT !.body[v].noRoute = x]
<1>1. Shaped(o) /\ Shaped(r)
  BY FlagsCalm DEF Bound, Calm, SameReservations
<1>2. o.world = pl.world /\ o.out = pl.out /\ r.world = pl.world /\ r.out = pl.out
  BY DEF Bound, Shaped, PlannerFields
<1> QED
  BY <1>1, <1>2 DEF Bound, NoGo

LEMMA CheckedBound ==
  ASSUME NEW w, NEW mute, NEW pl, Bound(pl, w, mute), NEW asked, NEW now
  PROVE  Bound(Checked(pl, asked, now), w, mute)
<1>1. PICK r : /\ r[0] = pl /\ Checked(pl, asked, now) = r[Len(Fleet)]
               /\ \A i \in 1..Len(Fleet) :
                    r[i] = IF Fleet[i] \in asked
                           THEN CheckSession(r[i - 1], Fleet[i], now) ELSE r[i - 1]
  BY CheckedSteps
<1>2. ASSUME NEW p, Bound(p, w, mute), NEW v \in Vehicle
      PROVE  Bound(CheckSession(p, v, now), w, mute)
  <2> DEFINE sitting == Sitting(p, v)
             begun   == [p EXCEPT !.body[v].occupied = TRUE]
             freed   == [p EXCEPT !.body[v].occupied = FALSE]
  <2>1. CheckSession(p, v, now) \in
          {EmitReject(p, v, "GoalOccupied", {}), freed,
           EmitReject(p, v, "GoalOccupied", sitting),
           EmitHold(begun, v, "WaitingForPeer", sitting)}
    BY DEF CheckSession
  <2>2. Bound(begun, w, mute) /\ Bound(freed, w, mute)
    BY <1>2, FlagsBound
  <2> HIDE DEF begun, freed, sitting
  <2> QED
    BY <1>2, <2>1, <2>2, ToldBound
<1>3. ASSUME NEW i \in 1..Len(Fleet), Bound(r[i - 1], w, mute) PROVE Bound(r[i], w, mute)
  BY <1>1, <1>2, <1>3, FleetMember
<1> QED
  BY <1>1, <1>3, BoundAlong

LEMMA RefuseOverlapsBound ==
  ASSUME NEW w, NEW mute, NEW pl, Bound(pl, w, mute)
  PROVE  Bound(RefuseOverlaps(pl), w, mute)
<1>1. PICK r : /\ r[0] = pl /\ RefuseOverlaps(pl) = r[Len(Fleet)]
               /\ \A i \in 1..Len(Fleet) :
                    r[i] = IF Fleet[i] \in Clashing(pl)
                           THEN EmitReject(r[i - 1], Fleet[i], "GoalOccupied",
                                           Clashes(pl, Fleet[i]))
                           ELSE r[i - 1]
  BY RefuseOverlapsSteps
<1>2. ASSUME NEW i \in 1..Len(Fleet), Bound(r[i - 1], w, mute) PROVE Bound(r[i], w, mute)
  BY <1>1, <1>2, ToldBound, FleetMember
<1> QED
  BY <1>1, <1>2, BoundAlong

\* A pass over the waiting in world w.
PassBound(a, w) == PassShaped(a) /\ Bound(a.pl, w, FALSE)

LEMMA PutPassBound ==
  ASSUME NEW w, NEW a, PassBound(a, w), NEW pl, Bound(pl, w, FALSE), NEW v
  PROVE  PassBound([a EXCEPT !.pl = pl], w) /\ PassBound(Taken(a, v, pl), w)
<1>1. PassShaped([a EXCEPT !.pl = pl]) /\ PassShaped(Taken(a, v, pl))
  BY PutPass DEF PassBound, Bound
<1>2. [a EXCEPT !.pl = pl].pl = pl
  BY DEF PassBound, PassShaped, PassFields
<1>3. Taken(a, v, pl).pl = pl
  <2> DEFINE d == a.granted + (IF HasPlan(pl.body[v]) THEN 1 ELSE 0)
  <2>1. Taken(a, v, pl) = [a EXCEPT !.pl = pl, !.granted = d]
    BY DEF Taken
  <2> HIDE DEF d
  <2> QED
    BY <2>1 DEF PassBound, PassShaped, PassFields
<1> QED
  BY <1>1, <1>2, <1>3 DEF PassBound

LEMMA TryBound ==
  ASSUME NEW w, NEW a, PassBound(a, w), NEW v \in Vehicle, NEW wary
  PROVE  PassBound(Try(a, v, wary), w)
<1>1. ASSUME NEW cand PROVE PassBound(Tried(a, v, wary, cand), w)
  <2> DEFINE y == [failed |-> cand.failed, blockers |-> cand.blockers]
             h == [a EXCEPT !.held = @ \cup {v}, !.why[v] = y]
             q == EmitReject(a.pl, v, "TooSlow", {})
             i == InstallPlan(a.pl, v, cand)
  <2>1. Tried(a, v, wary, cand) \in {h, [a EXCEPT !.pl = q], Taken(a, v, i)}
    BY DEF Tried
  <2> HIDE DEF y
  <2>2. PassBound(h, w)
    BY DEF PassBound, PassShaped, PassFields
  <2>3. Bound(q, w, FALSE) /\ Bound(i, w, FALSE)
    BY ToldBound, InstallBound DEF PassBound
  <2> HIDE DEF h, q, i
  <2>4. PassBound([a EXCEPT !.pl = q], w)
    BY <2>3, PutPassBound
  <2>5. PassBound(Taken(a, v, i), w)
    BY <2>3, PutPassBound
  <2> QED
    BY <2>1, <2>2, <2>4, <2>5
<1> QED
  BY <1>1 DEF Try

LEMMA PassesBound ==
  ASSUME NEW w, NEW pl, Bound(pl, w, FALSE), NEW waiting
  PROVE  PassBound(Passes(pl, waiting), w)
<1>1. ASSUME NEW by PROVE PassBound(FirstPass(pl, waiting, by), w)
  <2>1. PICK r : /\ r[0] = NewPass(pl, waiting) /\ FirstPass(pl, waiting, by) = r[Len(Fleet)]
                 /\ \A i \in 1..Len(Fleet) :
                      r[i] = IF Fleet[i] \in waiting THEN FirstTry(r[i - 1], Fleet[i], by)
                                                     ELSE r[i - 1]
    BY FirstPassSteps, SMTT(30)
  <2> DEFINE S == {i \in 0..Len(Fleet) : PassBound(r[i], w)}
  <2>2. PassBound(NewPass(pl, waiting), w)
    BY DEF Bound, PassBound, PassShaped, NewPass, PassFields
  <2>3. 0 \in S
    BY <2>1, <2>2, FleetMember
  <2>4. ASSUME NEW a, PassBound(a, w), NEW v \in Vehicle PROVE PassBound(FirstTry(a, v, by), w)
    <3> DEFINE h == EmitHold(a.pl, v, "Precedence", by[v])
    <3>1. FirstTry(a, v, by) \in {[a EXCEPT !.pl = h], Try(a, v, FALSE)}
      BY DEF FirstTry
    <3>2. Bound(h, w, FALSE)
      BY <2>4, ToldBound DEF PassBound
    <3> HIDE DEF h
    <3>3. PassBound([a EXCEPT !.pl = h], w)
      BY <2>4, <3>2, PutPassBound
    <3>4. PassBound(Try(a, v, FALSE), w)
      BY <2>4, TryBound
    <3> QED
      BY <3>1, <3>3, <3>4
  <2>5. ASSUME NEW i \in 1..Len(Fleet), i - 1 \in S PROVE i \in S
    <3>1. PassBound(r[i - 1], w) /\ i \in 0..Len(Fleet) /\ Fleet[i] \in Vehicle
      BY <2>5, FleetMember
    <3>2. PassBound(r[i], w)
      BY <2>1, <2>4, <3>1
    <3> QED
      BY <3>1, <3>2
  <2>6. Len(Fleet) \in S
    <3> HIDE DEF S
    <3> QED
      BY <2>3, <2>5, FleetInduction
  <2> QED
    BY <2>1, <2>6
<1>2. ASSUME NEW a, PassBound(a, w), NEW inCycle PROVE PassBound(SecondPass(a, waiting, inCycle), w)
  <2>1. PICK r : /\ r[0] = a /\ SecondPass(a, waiting, inCycle) \in {a, r[Len(Fleet)]}
                 /\ \A i \in 1..Len(Fleet) :
                      r[i] = IF Fleet[i] \in waiting THEN SecondTry(r[i - 1], Fleet[i], inCycle)
                                                     ELSE r[i - 1]
    BY SecondPassSteps
  <2> DEFINE S == {i \in 0..Len(Fleet) : PassBound(r[i], w)}
  <2>3. 0 \in S
    BY <1>2, <2>1, FleetMember
  <2>4. ASSUME NEW b, PassBound(b, w), NEW v \in Vehicle PROVE PassBound(SecondTry(b, v, inCycle), w)
    <3>1. SecondTry(b, v, inCycle) \in {b, Try(b, v, Busy(b))}
      BY DEF SecondTry
    <3> QED
      BY <2>4, <3>1, TryBound
  <2>5. ASSUME NEW i \in 1..Len(Fleet), i - 1 \in S PROVE i \in S
    <3>1. PassBound(r[i - 1], w) /\ i \in 0..Len(Fleet) /\ Fleet[i] \in Vehicle
      BY <2>5, FleetMember
    <3>2. PassBound(r[i], w)
      BY <2>1, <2>4, <3>1
    <3> QED
      BY <3>1, <3>2
  <2>6. Len(Fleet) \in S
    <3> HIDE DEF S
    <3> QED
      BY <2>3, <2>5, FleetInduction
  <2> QED
    BY <1>2, <2>1, <2>6
<1> QED
  BY <1>1, <1>2 DEF Passes

LEMMA ToldAllBound ==
  ASSUME NEW w, NEW mute, NEW a, Bound(a.pl, w, mute), NEW now
  PROVE  Bound(Told(a, now).pl, w, mute)
<1>1. PICK r : /\ r[0] = a.pl /\ Told(a, now) = [pl |-> r[Len(Fleet)], granted |-> a.granted]
               /\ \A i \in 1..Len(Fleet) :
                    r[i] = IF Fleet[i] \in a.held THEN Tell(r[i - 1], Fleet[i], a.why, now)
                           ELSE r[i - 1]
  BY ToldSteps
<1>2. ASSUME NEW p, Bound(p, w, mute), NEW v \in Vehicle, NEW y
      PROVE  Bound(Explain(p, v, y, now), w, mute)
  <2> DEFINE x == y.failed
             m == [p EXCEPT !.body[v].noRoute = x]
  <2>1. Explain(p, v, y, now) \in
          {EmitHold(m, v, "WaitingForPeer", y.blockers), EmitReject(m, v, "NoRoute", {}),
           EmitHold(m, v, "NoRoute", {})}
    BY DEF Explain
  <2> HIDE DEF x
  <2>2. Bound(m, w, mute)
    BY <1>2, FlagsBound
  <2> HIDE DEF m
  <2> QED
    BY <2>1, <2>2, ToldBound
<1>3. ASSUME NEW i \in 1..Len(Fleet), Bound(r[i - 1], w, mute) PROVE Bound(r[i], w, mute)
  BY <1>1, <1>2, <1>3, FleetMember DEF Tell
<1>4. Bound(r[Len(Fleet)], w, mute)
  BY <1>1, <1>3, BoundAlong
<1> QED
  BY <1>1, <1>4

LEMMA AdmitBound ==
  ASSUME NEW w, NEW pl, Bound(pl, w, FALSE), NEW now
  PROVE  Bound(Admit(pl, now).pl, w, FALSE)
<1>1. ASSUME NEW p, Bound(p, w, FALSE), NEW asked PROVE Bound(AdmitChecked(p, asked, now).pl, w, FALSE)
  <2> DEFINE waiting == {v \in asked : ~p.body[v].rejected}
             loose   == {v \in Vehicle : p.body[v].uncontrolled}
             h       == HoldFor(p, waiting, loose)
  <2>1. AdmitChecked(p, asked, now) \in
          {[pl |-> p, granted |-> 0], [pl |-> h, granted |-> 0], Told(Passes(p, waiting), now)}
    BY DEF AdmitChecked
  <2> HIDE DEF waiting, loose
  <2>2. Bound(h, w, FALSE)
    BY <1>1, HoldForBound
  <2> HIDE DEF h
  <2> DEFINE a == Passes(p, waiting)
  <2>3. PassBound(a, w)
    BY <1>1, PassesBound
  <2> HIDE DEF a
  <2>4. Bound(Told(a, now).pl, w, FALSE)
    <3>1. Bound(a.pl, w, FALSE)
      BY <2>3 DEF PassBound
    <3> QED
      BY <3>1, ToldAllBound
  <2> DEFINE z == AdmitChecked(p, asked, now)
  <2>5. z \in {[pl |-> p, granted |-> 0], [pl |-> h, granted |-> 0], Told(a, now)}
    BY <2>1 DEF a
  <2> HIDE DEF z
  <2>6. z.pl \in {p, h, Told(a, now).pl}
    BY <2>5
  <2>7. Bound(z.pl, w, FALSE)
    BY <1>1, <2>2, <2>4, <2>6
  <2> QED
    BY <2>7 DEF z
<1> DEFINE asked == {v \in Vehicle : Waits(pl.body[v])}
<1>2. Admit(pl, now) = AdmitChecked(RefuseOverlaps(Checked(pl, asked, now)), asked, now)
  BY DEF Admit
<1> HIDE DEF asked
<1>3. Bound(RefuseOverlaps(Checked(pl, asked, now)), w, FALSE)
  BY CheckedBound, RefuseOverlapsBound
<1> QED
  BY <1>1, <1>2, <1>3

LEMMA UnblockBound ==
  ASSUME NEW w, NEW pl, Bound(pl, w, FALSE)
  PROVE  Bound(Unblock(pl), w, FALSE)
<1>1. ASSUME NEW p, Bound(p, w, FALSE) PROVE Bound(GiveUp(p), w, FALSE)
  <2>0. PICK stuck : stuck = Stuck(p)
    OBVIOUS
  <2>1. PICK r : /\ r[0] = p /\ Deadlock(p) = r[Len(Fleet)]
                 /\ \A i \in 1..Len(Fleet) :
                      r[i] = IF Fleet[i] \in stuck
                             THEN Blame(r[i - 1], Fleet[i], stuck) ELSE r[i - 1]
    BY <2>0, DeadlockSteps
  <2>2. ASSUME NEW i \in 1..Len(Fleet), Bound(r[i - 1], w, FALSE) PROVE Bound(r[i], w, FALSE)
    <3> DEFINE x == r[i - 1].body[Fleet[i]].blockers \cup (stuck \ {Fleet[i]})
               q == EmitReject(r[i - 1], Fleet[i], "Deadlock", x)
    <3>1. r[i] \in {q, r[i - 1]}
      BY <2>1 DEF Blame
    <3> HIDE DEF x
    <3>2. Bound(q, w, FALSE)
      BY <2>2, ToldBound, FleetMember
    <3> QED
      BY <2>2, <3>1, <3>2
  <2>3. Bound(Deadlock(p), w, FALSE)
    BY <1>1, <2>1, <2>2, BoundAlong
  <2> QED
    BY <1>1, <2>3 DEF GiveUp
<1>2. Bound(Park(pl, ParkingMoves(pl)), w, FALSE)
  <2> DEFINE moves == ParkingMoves(pl)
             best == CHOOSE m \in moves : \A n \in moves : Better(m, n)
             q == InstallPlan(pl, best.vehicle, best.cand)
  <2>1. Park(pl, moves) = IF moves = {} THEN GiveUp(pl) ELSE Parked(q, best.vehicle)
    BY DEF Park, Better
  <2>2. moves # {} => best \in moves
    BY BestMove
  <2>3. moves # {} => best.vehicle \in Vehicle
    BY <2>2, MoveIs
  <2> HIDE DEF best, moves
  <2>4. moves # {} => Bound(q, w, FALSE)
    BY <2>3, InstallBound
  <2> HIDE DEF q
  <2>5. Parked(q, best.vehicle) \in {q, GiveUp(q)}
    BY DEF Parked
  <2> QED
    BY <1>1, <2>1, <2>4, <2>5 DEF moves
<1> QED
  BY <1>2 DEF Unblock

\* Whatever a planner does, it is for the same world.
LEMMA UpdateBound ==
  ASSUME NEW w, NEW pl, Bound(pl, w, FALSE), NEW facts, NEW now
  PROVE  Bound(Update(pl, facts, TRUE, now), w, FALSE)
<1> DEFINE y == Synced(pl, facts)
           c == UpdateMovers(y, now)
           s == Looked(c)
           a == Admit(s, now)
<1>1. Bound(y, w, FALSE)
  BY SyncedBound DEF Bound
<1>2. Update(pl, facts, TRUE, now) = Replan(c, TRUE, now)
  BY DEF Update, PlannerStep, Carried, Permitted
<1> HIDE DEF y
<1>3. Bound(c, w, FALSE)
  BY <1>1, MoversBound
<1> HIDE DEF c
<1>4. Bound(s, w, FALSE)
  BY <1>3, RestedBound
<1>5. Replan(c, TRUE, now) \in {c, s, Unblocked(a)}
  BY DEF Replan, Looked
<1> HIDE DEF s
<1>6. Bound(a.pl, w, FALSE)
  BY <1>4, AdmitBound
<1> HIDE DEF a
<1>7. Bound(Unblock(a.pl), w, FALSE)
  BY <1>6, UnblockBound
<1>8. Unblocked(a) \in {Unblock(a.pl), a.pl}
  BY DEF Unblocked
<1> QED
  BY <1>2, <1>3, <1>4, <1>5, <1>6, <1>7, <1>8

-----------------------------------------------------------------------------
(* What the station hands on of it.                                          *)

\* Nobody was told anew to go.
NoNewGo(s, t) == \A v \in Vehicle : t.entry[v].last = s.entry[v].last \/ t.entry[v].last.st # "Go"

LEMMA SendNoNewGo ==
  ASSUME NEW s, StationShaped(s), NEW v, NEW d, v \in Vehicle => d = s.entry[v].last \/ d.st # "Go"
  PROVE  NoNewGo(s, Send(s, v, d))
<1> DEFINE t == Send(s, v, d)
           q == Append(s.sent[v], d)
<1>1. \A w \in Vehicle : t.entry[w] = IF w = v THEN [s.entry[v] EXCEPT !.last = d] ELSE s.entry[w]
  BY DEF StationShaped, Send, StationFields
<1>2. \A w \in Vehicle : DOMAIN s.entry[w] = EntryFields
  BY DEF StationShaped
<1> HIDE DEF t
<1>3. \A w \in Vehicle : t.entry[w].last = IF w = v THEN d ELSE s.entry[w].last
  BY <1>1, <1>2 DEF EntryFields
<1> QED
  BY <1>3 DEF NoNewGo, t

LEMMA OwnNoNewGo ==
  ASSUME NEW s, StationShaped(s), NEW v \in Vehicle, NEW state, state # "Go", NEW reason
  PROVE  NoNewGo(s, Own(s, v, state, reason))
<1> DEFINE p == [s EXCEPT !.pl.body[v].next = @ + 1]
           d == [NoDecisionYet EXCEPT !.st = state, !.session = s.entry[v].s.session,
                             !.gen = s.entry[v].s.gen, !.id = s.pl.body[v].next,
                             !.reason = reason]
<1>1. Own(s, v, state, reason) = Send(p, v, d)
  BY DEF Own
<1>2. d.st # "Go"
  BY DEF NoDecisionYet
<1> HIDE DEF d
<1>3. p.entry = s.entry /\ p.sent = s.sent /\ DOMAIN p = StationFields /\ p.pl = [s.pl EXCEPT !.body[v].next = @ + 1]
  BY DEF StationShaped, StationFields
<1> HIDE DEF p
<1>4. StationShaped(p)
  <2> DEFINE b == [s.pl.body[v] EXCEPT !.next = @ + 1]
             l == [s.pl EXCEPT !.body[v] = b]
  <2>1. DOMAIN b = BodyFields /\ b.next \in Nat
    BY DEF StationShaped, Shaped, BodyFields
  <2>2. p.pl = l
    BY <1>3 DEF StationShaped, Shaped, PlannerFields
  <2> HIDE DEF b
  <2>3. Shaped(l)
    BY <2>1 DEF StationShaped, Shaped, PlannerFields
  <2> HIDE DEF l
  <2> QED
    BY <1>3, <2>2, <2>3 DEF StationShaped
<1>5. NoNewGo(p, Send(p, v, d))
  BY <1>2, <1>4, SendNoNewGo
<1> QED
  BY <1>1, <1>3, <1>5 DEF NoNewGo

\* Step by step.
LEMMA NoNewGoAlong ==
  ASSUME NEW s, NEW n \in Nat, NEW r, r[0] = s, StationShaped(s),
         \A k \in 0..(n - 1) :
           StationShaped(r[k]) => StationShaped(r[k + 1]) /\ NoNewGo(r[k], r[k + 1])
  PROVE  NoNewGo(s, r[n])
<1> DEFINE P(k) == StationShaped(r[k]) /\ NoNewGo(s, r[k])
           S == {k \in 0..n : P(k)}
<1>1. P(0)
  BY DEF NoNewGo
<1>2. ASSUME NEW k \in 0..(n - 1), P(k) PROVE P(k + 1)
  <2>1. StationShaped(r[k + 1]) /\ NoNewGo(r[k], r[k + 1])
    BY <1>2
  <2> QED
    BY <1>2, <2>1 DEF NoNewGo
<1> HIDE DEF P
<1>3. 0 \in S
  BY <1>1
<1>4. \A k \in 0..(n - 1) : k \in S => k + 1 \in S
  BY <1>2
<1> HIDE DEF S
<1>5. \A k \in 0..n : k \in S
  BY <1>3, <1>4, InductUpTo
<1>6. n \in S
  BY <1>5
<1> QED
  BY <1>6 DEF S, P

\* Who only hands on decisions of a planner that told nobody to go.
LEMMA PassedNoNewGo ==
  ASSUME NEW s, StationShaped(s), NEW ds, Listed(ds), \A i \in 1..Len(ds) : ds[i].st # "Go"
  PROVE  NoNewGo(s, Passed(s, ds))
<1> DEFINE n == Len(ds)
<1>1. PICK r : /\ r[0] = s /\ Passed(s, ds) = r[n]
               /\ \A i \in 1..n : r[i] = Pass(r[i - 1], ds[i])
  BY PassedSteps
<1>2. n \in Nat
  BY DEF Listed
<1>3. \A i \in 1..n : ds[i].st # "Go"
  OBVIOUS
<1> HIDE DEF n
<1>4. ASSUME NEW p, StationShaped(p), NEW d, d.st # "Go"
      PROVE  StationShaped(Pass(p, d)) /\ NoNewGo(p, Pass(p, d))
  <2> DEFINE b == Bare(d)
             q == Send(p, d.vehicle, b)
  <2>1. Pass(p, d) \in {q, p}
    BY DEF Pass
  <2>2. b.st # "Go"
    BY <1>4 DEF Bare
  <2> HIDE DEF b
  <2>3. NoNewGo(p, q)
    BY <1>4, <2>2, SendNoNewGo
  <2> HIDE DEF q
  <2>4. NoNewGo(p, p)
    BY DEF NoNewGo
  <2> QED
    BY <1>4, <2>1, <2>3, <2>4, PassSpoken DEF Spoken
<1>5. ASSUME NEW k \in 0..(n - 1), StationShaped(r[k])
      PROVE  StationShaped(r[k + 1]) /\ NoNewGo(r[k], r[k + 1])
  <2>1. k + 1 \in 1..n /\ (k + 1) - 1 = k
    BY <1>2
  <2>2. r[k + 1] = Pass(r[k], ds[k + 1]) /\ ds[k + 1].st # "Go"
    BY <1>1, <1>3, <2>1
  <2> QED
    BY <1>4, <1>5, <2>2
<1> QED
  BY <1>1, <1>2, <1>5, NoNewGoAlong

LEMMA HeldNoNewGo ==
  ASSUME NEW s, StationShaped(s), NEW admit, NEW lost
  PROVE  NoNewGo(s, Held(s, admit, lost))
<1> DEFINE n == Len(Fleet)
           X == IF admit THEN {} ELSE Vehicle
<1>1. PICK r : /\ r[0] = s /\ Held(s, admit, lost) = r[n]
               /\ \A i \in 1..n :
                    r[i] = IF Fleet[i] \in X THEN LocalHold(r[i - 1], Fleet[i], lost) ELSE r[i - 1]
  BY HeldSteps
<1>2. n \in Nat /\ \A i \in 1..n : Fleet[i] \in Vehicle
  BY FleetMember
<1> HIDE DEF n, X
<1>3. ASSUME NEW p, StationShaped(p), NEW v \in Vehicle
      PROVE  LET q == LocalHold(p, v, lost) IN StationShaped(q) /\ NoNewGo(p, q)
  <2> DEFINE why == IF p.scene THEN "WaitingForPeer" ELSE "SceneUnavailable"
             o   == Own(p, v, "Hold", why)
  <2>1. LocalHold(p, v, lost) \in {o, p}
    BY DEF LocalHold
  <2> HIDE DEF why
  <2>2. NoNewGo(p, o)
    BY <1>3, OwnNoNewGo
  <2> HIDE DEF o
  <2>3. NoNewGo(p, p)
    BY DEF NoNewGo
  <2> QED
    BY <1>3, <2>1, <2>2, <2>3, LocalHoldSpoken DEF Spoken
<1>4. ASSUME NEW k \in 0..(n - 1), StationShaped(r[k])
      PROVE  StationShaped(r[k + 1]) /\ NoNewGo(r[k], r[k + 1])
  <2>1. k + 1 \in 1..n /\ (k + 1) - 1 = k
    BY <1>2
  <2>2. r[k + 1] \in {LocalHold(r[k], Fleet[k + 1], lost), r[k]} /\ Fleet[k + 1] \in Vehicle
    BY <1>1, <1>2, <2>1
  <2>3. NoNewGo(r[k], r[k])
    BY DEF NoNewGo
  <2> QED
    BY <1>3, <1>4, <2>2, <2>3
<1> QED
  BY <1>1, <1>2, <1>4, NoNewGoAlong

LEMMA RepeatedNoNewGo ==
  ASSUME NEW s, StationShaped(s), NEW lost, NEW now
  PROVE  NoNewGo(s, Repeated(s, lost, now))
<1> DEFINE n == Len(Fleet)
           H == {w \in Vehicle : s.entry[w].heard}
<1>1. PICK r : /\ r[0] = s /\ Repeated(s, lost, now) = r[n]
               /\ \A i \in 1..n :
                    r[i] = IF Fleet[i] \in H THEN Repeat(r[i - 1], Fleet[i], lost, now) ELSE r[i - 1]
  BY RepeatedSteps
<1>2. n \in Nat /\ \A i \in 1..n : Fleet[i] \in Vehicle
  BY FleetMember
<1> HIDE DEF n, H
<1>3. ASSUME NEW p, StationShaped(p), NEW v \in Vehicle
      PROVE  LET q == Repeat(p, v, lost, now) IN StationShaped(q) /\ NoNewGo(p, q)
  <2> DEFINE d == p.entry[v].last
             o == Own(p, v, "Reject", "BadSession")
             u == Send(p, v, d)
  <2>1. Repeat(p, v, lost, now) \in {p, o, u}
    BY DEF Repeat
  <2>2. NoNewGo(p, o)
    BY <1>3, OwnNoNewGo
  <2>3. NoNewGo(p, u)
    BY <1>3, SendNoNewGo
  <2> HIDE DEF o, u
  <2>4. NoNewGo(p, p)
    BY DEF NoNewGo
  <2> QED
    BY <1>3, <2>1, <2>2, <2>3, <2>4, RepeatSpoken DEF Spoken
<1>4. ASSUME NEW k \in 0..(n - 1), StationShaped(r[k])
      PROVE  StationShaped(r[k + 1]) /\ NoNewGo(r[k], r[k + 1])
  <2>1. k + 1 \in 1..n /\ (k + 1) - 1 = k
    BY <1>2
  <2>2. r[k + 1] \in {Repeat(r[k], Fleet[k + 1], lost, now), r[k]} /\ Fleet[k + 1] \in Vehicle
    BY <1>1, <1>2, <2>1
  <2>3. NoNewGo(r[k], r[k])
    BY DEF NoNewGo
  <2> QED
    BY <1>3, <1>4, <2>2, <2>3
<1> QED
  BY <1>1, <1>2, <1>4, NoNewGoAlong

\* A step of the station is for the world it finds, and while it may not admit anybody it tells
\* nobody anew to go.
LEMMA TurnBound ==
  ASSUME NEW s, StationShaped(s), NEW lost, NEW now
  PROVE  LET t == StationTurn(s, lost, now)
         IN  t.pl.world = s.pl.world /\ (~Admits(s) => NoNewGo(s, t))
<1> DEFINE facts == [v \in Known(s) |-> Facts(s, v, lost)]
           admit == Admits(s)
           pl    == Update(s.pl, facts, admit, now)
           t     == StationTurn(s, lost, now)
<1>1. /\ Numbered(pl, t.pl)
      /\ Shaped(pl)
  BY TurnSpoken
<1>2. Bound(s.pl, s.pl.world, FALSE)
  BY DEF Bound, StationShaped
<1>3. admit \in BOOLEAN
  BY DEF Admits
<1> HIDE DEF facts
<1>4. CASE admit
  <2>1. admit = TRUE
    BY <1>3, <1>4
  <2> HIDE DEF admit
  <2>2. pl = Update(s.pl, facts, TRUE, now)
    BY <2>1
  <2>3. Bound(pl, s.pl.world, FALSE)
    <3>1. Bound(Update(s.pl, facts, TRUE, now), s.pl.world, FALSE)
      BY <1>2, UpdateBound
    <3> HIDE DEF pl
    <3> QED
      BY <2>2, <3>1
  <2> HIDE DEF pl, t
  <2> QED
    BY <1>1, <1>4, <2>3 DEF Bound, Numbered, admit, t
<1>5. CASE ~admit
  <2>1. admit = FALSE
    BY <1>3, <1>5
  <2>2. t = Repeated(Held(Passed(Begun(s, pl), pl.out), admit, lost), lost, now)
    BY DEF StationTurn, Decide, facts
  <2> HIDE DEF admit
  <2>3. pl = Update(s.pl, facts, FALSE, now)
    BY <2>1
  <2>4. Bound(pl, s.pl.world, TRUE)
    <3>1. Bound(Update(s.pl, facts, FALSE, now), s.pl.world, TRUE)
      BY <1>2, IdleBound
    <3> HIDE DEF pl
    <3> QED
      BY <2>3, <3>1
  <2> HIDE DEF pl, t
  <2> DEFINE b == Begun(s, pl)
             p == Passed(b, pl.out)
             h == Held(p, admit, lost)
  <2>5. StationShaped(b) /\ b.entry = s.entry
    <3> DEFINE o == [pl EXCEPT !.out = <<>>]
    <3>1. Shaped(o)
      BY <1>1, FlagsShaped
    <3>2. b = [s EXCEPT !.pl = o, !.sent = [v \in Vehicle |-> <<>>]] /\ Listed(<<>>)
      BY DEF Begun, Listed
    <3> HIDE DEF o, b
    <3> QED
      BY <3>1, <3>2 DEF StationShaped, StationFields
  <2> HIDE DEF b
  <2>6. Listed(pl.out) /\ \A i \in 1..Len(pl.out) : pl.out[i].st # "Go"
    BY <1>1, <2>4 DEF Bound, NoGo, Shaped
  <2>7. NoNewGo(b, p) /\ StationShaped(p)
    BY <2>5, <2>6, PassedNoNewGo, PassedSpoken DEF Spoken
  <2> HIDE DEF p
  <2>8. NoNewGo(p, h) /\ StationShaped(h)
    BY <2>7, HeldNoNewGo, HeldSpoken DEF Spoken
  <2> HIDE DEF h
  <2>9. NoNewGo(h, t)
    BY <2>2, <2>8, RepeatedNoNewGo DEF h, p, b
  <2>10. NoNewGo(s, t)
    BY <2>5, <2>7, <2>8, <2>9 DEF NoNewGo
  <2> QED
    BY <1>1, <2>4, <2>10 DEF Bound, Numbered, t
<1> QED
  BY <1>4, <1>5

-----------------------------------------------------------------------------
(* The world of the planner and the Scene.                                   *)

\* All obstacles with the room around them.
Reached(bodies) == Occupancy({[b EXCEPT !.fast = TRUE] : b \in bodies})

\* What is valid was pushed, and what was pushed is the world: each obstacle of the last state
\* that was believed is in it where that state has shown it, and nothing is but those and the
\* room around them.
SceneInv ==
  /\ scene.valid => scene.pushed
  /\ \A b \in scene.bodies : DOMAIN b = {"id", "at", "fast"} /\ b.at \in Cell
  /\ day.authored /\ scene.pushed =>
       Places(scene.bodies) \subseteq st.pl.world /\ st.pl.world \subseteq Reached(scene.bodies)

\* Where bodies are, whatever they are called and however fast they are.
RoomOf(A)    == A \cup {c \in Cell : \E a \in A : Near(a, c)}

LEMMA PlacesAre ==
  ASSUME NEW bs, \A b \in bs : DOMAIN b = {"id", "at", "fast"} /\ b.at \in Cell
  PROVE  LET A == {b.at : b \in bs}
         IN  /\ Places(bs) = A
             /\ Reached(bs) = RoomOf(A)
             /\ A \subseteq Occupancy(bs) /\ Occupancy(bs) \subseteq RoomOf(A)
<1> DEFINE A == {b.at : b \in bs}
<1>1. \A b : /\ Projected(b, FALSE) = {b.at}
             /\ Projected(b, TRUE) = {b.at} \cup {c \in Cell : Near(b.at, c)}
  BY DEF Projected
<1>2. Places(bs) = A
  <2>1. Places(bs) = UNION {{b.at} : b \in bs}
    BY <1>1 DEF Places
  <2> QED
    BY <2>1
<1>3. A \subseteq Occupancy(bs) /\ Occupancy(bs) \subseteq RoomOf(A)
  <2>1. \A b : /\ b.at \in Projected(b, b.fast)
               /\ \A c \in Projected(b, b.fast) : c = b.at \/ (c \in Cell /\ Near(b.at, c))
    BY DEF Projected
  <2>2. \A c : c \in Occupancy(bs) <=> \E b \in bs : c \in Projected(b, b.fast)
    BY DEF Occupancy
  <2>3. \A c : c \in RoomOf(A) <=> \E b \in bs : c = b.at \/ (c \in Cell /\ Near(b.at, c))
    BY DEF RoomOf
  <2>4. \A c \in A : \E b \in bs : c = b.at
    OBVIOUS
  <2> HIDE DEF A
  <2> QED
    BY <2>1, <2>2, <2>3, <2>4
<1> DEFINE F(b) == [b EXCEPT !.fast = TRUE]
           fs   == {F(b) : b \in bs}
<1>4. \A b \in bs : F(b).fast = TRUE /\ F(b).at = b.at
  OBVIOUS
<1> HIDE DEF F
<1>5. Occupancy(fs) = UNION {Projected(F(b), TRUE) : b \in bs}
  <2>1. \A f \in fs : f.fast = TRUE
    BY <1>4
  <2> QED
    BY <1>4 DEF Occupancy
<1>6. \A b \in bs : Projected(F(b), TRUE) = {b.at} \cup {c \in Cell : Near(b.at, c)}
  BY <1>1, <1>4
<1>7. Occupancy(fs) = RoomOf(A)
  <2>1. \A c : c \in Occupancy(fs) <=> \E b \in bs : c \in Projected(F(b), TRUE)
    BY <1>5
  <2>2. \A c : c \in Occupancy(fs) <=> \E b \in bs : c = b.at \/ (c \in Cell /\ Near(b.at, c))
    BY <1>6, <2>1
  <2>3. \A c : c \in RoomOf(A) <=> \E b \in bs : c = b.at \/ (c \in Cell /\ Near(b.at, c))
    BY DEF RoomOf
  <2> QED
    BY <2>2, <2>3
<1>8. Reached(bs) = Occupancy(fs)
  BY DEF Reached, F
<1> QED
  BY <1>2, <1>3, <1>7, <1>8

LEMMA SceneStarts == Init => SceneInv
<1> SUFFICES ASSUME Init PROVE SceneInv
  OBVIOUS
<1>1. scene.valid = FALSE /\ scene.pushed = FALSE /\ scene.bodies = {}
  BY DEF Init, NoState
<1> QED
  BY <1>1 DEF SceneInv

\* The world is the planner's, and the Scene changes with the messages of it alone.
LEMMA SceneSame ==
  ASSUME SceneInv, day' = day, scene'.valid = scene.valid, scene'.pushed = scene.pushed,
         scene'.bodies = scene.bodies, st'.pl.world = st.pl.world
  PROVE  SceneInv'
<1>1. Places(scene'.bodies) = Places(scene.bodies) /\ Reached(scene'.bodies) = Reached(scene.bodies)
  OBVIOUS
<1> QED
  BY <1>1 DEF SceneInv

LEMMA SnapshotKeepsScene ==
  ASSUME NodeInv, SceneInv, NEW m \in day.snapshots, Snapshot(m)
  PROVE  SceneInv'
<1> DEFINE y == [scene EXCEPT !.valid = FALSE]
           z == Adopted(m)
<1>1. scene' \in {scene, y, z} /\ UNCHANGED <<day, st>>
  BY DEF Snapshot
<1>2. SceneOK(scene)
  BY SceneIs
<1>3. y.valid = FALSE /\ y.pushed = scene.pushed /\ y.bodies = scene.bodies
  BY <1>2 DEF SceneOK, SceneFields
<1>4. z.valid = FALSE /\ z.pushed = FALSE /\ z.bodies = {}
  BY DEF Adopted, NoState
<1> HIDE DEF y, z
<1>5. CASE scene' = scene
  BY <1>1, <1>5, SceneSame
<1>6. CASE scene' = z
  BY <1>1, <1>4, <1>6 DEF SceneInv
<1>7. CASE scene' = y
  BY <1>1, <1>3, <1>7 DEF SceneInv, Places, Reached
<1> QED
  BY <1>1, <1>5, <1>6, <1>7

\* What the bodies of a state are.
LEMMA BodiesKnown ==
  ASSUME NodeInv, NEW s \in day.states
  PROVE  \A b \in LiveBodies(scene.snap, s) : DOMAIN b = {"id", "at", "fast"} /\ b.at \in Cell
<1> DEFINE m == scene.snap
           B == LiveBodies(m, s)
<1>1. \A b \in B : b.at \in Cell
  BY BodiesAre
<1>2. s.bodies \in Seq(Body)
  <2>1. day \in Days /\ day.states \subseteq States
    BY NodeAssumption DEF NodeInv, TypeOK
  <2> QED
    BY <2>1 DEF States
<1> HIDE DEF m
<1>3. \A i \in DOMAIN s.bodies : s.bodies[i] \in Body
  BY <1>2
<1>4. \A i \in DOMAIN s.bodies : DOMAIN s.bodies[i] = {"id", "at", "fast"}
  BY <1>3 DEF Body
<1>5. ASSUME NEW b \in B PROVE DOMAIN b = {"id", "at", "fast"}
  <2>1. \/ \E i \in DOMAIN s.bodies : b = s.bodies[i]
        \/ \E i \in DOMAIN m.obstacles :
             b = [id |-> m.obstacles[i].id, at |-> m.obstacles[i].at, fast |-> FALSE]
    BY <1>5 DEF LiveBodies
  <2> QED
    BY <1>4, <2>1
<1> HIDE DEF B
<1> QED
  BY <1>1, <1>5 DEF B, m

LEMMA StateKeepsScene ==
  ASSUME NodeInv, SceneInv, NEW s \in day.states, State(s)
  PROVE  SceneInv'
<1> DEFINE bodies == LiveBodies(scene.snap, s)
           taken  == IsOurs(s) /\ Fits(scene.snap, s)
           moved  == Displaced(bodies)
           a      == [scene EXCEPT !.valid = TRUE, !.pushed = TRUE, !.bodies = bodies]
           i      == [scene EXCEPT !.valid = FALSE]
           o      == Occupancy(bodies)
           w      == SetWorld(st.pl, o)
           t      == [st EXCEPT !.pl = w]
           D(b)   == DOMAIN b = {"id", "at", "fast"} /\ b.at \in Cell
<1>0. /\ scene' = CASE taken -> a [] IsOurs(s) /\ ~taken -> i [] OTHER -> scene
      /\ IF taken /\ moved THEN st' = t /\ event' = TRUE ELSE UNCHANGED <<st, event>>
      /\ day' = day
  BY DEF State
<1>2. moved <=> {<<b.id, b.at>> : b \in bodies} # {<<b.id, b.at>> : b \in scene.bodies} \/ ~scene.pushed
  BY DEF Displaced
<1>3. \A b \in bodies : D(b)
  BY BodiesKnown
<1>4. SceneOK(scene) /\ Shaped(st.pl) /\ StationShaped(st) /\ \A b \in scene.bodies : D(b)
  BY SceneIs DEF NodeInv, NodeShaped, StationShaped, SceneInv
<1> HIDE DEF bodies, taken, moved, o
<1>1. /\ taken => scene' = a
      /\ ~taken => scene' \in {scene, i}
      /\ taken /\ moved => st' = t
      /\ ~(taken /\ moved) => st' = st
      /\ day' = day
  <2> HIDE DEF a, i, t
  <2> QED
    BY <1>0
<1>5. t.pl.world = o
  BY <1>4 DEF StationShaped, StationFields, Shaped, SetWorld, PlannerFields
<1>6. /\ a.valid = TRUE /\ a.pushed = TRUE /\ a.bodies = bodies
      /\ i.valid = FALSE /\ i.pushed = scene.pushed /\ i.bodies = scene.bodies
  BY <1>4 DEF SceneOK, SceneFields
<1> HIDE DEF a, i, t, w
<1>7. CASE ~taken
  <2>1. st' = st /\ day' = day /\ scene'.pushed = scene.pushed /\ scene'.bodies = scene.bodies
        /\ (scene'.valid => scene.valid)
    BY <1>1, <1>6, <1>7
  <2>2. Places(scene'.bodies) = Places(scene.bodies) /\ Reached(scene'.bodies) = Reached(scene.bodies)
    BY <2>1
  <2> QED
    BY <2>1, <2>2 DEF SceneInv
<1>8. CASE taken /\ moved
  <2>1. scene' = a /\ st'.pl.world = o
    BY <1>1, <1>5, <1>8
  <2>2. Places(bodies) \subseteq o /\ o \subseteq Reached(bodies)
    <3> HIDE DEF D
    <3> QED
      BY <1>3, PlacesAre DEF D, o
  <2>3. Places(scene'.bodies) = Places(bodies) /\ Reached(scene'.bodies) = Reached(bodies)
    BY <1>6, <2>1
  <2> QED
    BY <1>3, <1>6, <2>1, <2>2, <2>3 DEF SceneInv
<1>9. CASE taken /\ ~moved
  <2>1. scene' = a /\ st' = st /\ scene.pushed /\ day' = day
    BY <1>1, <1>2, <1>9
  <2>2. {b.at : b \in bodies} = {b.at : b \in scene.bodies}
    <3>1. {<<b.id, b.at>> : b \in bodies} = {<<b.id, b.at>> : b \in scene.bodies}
      BY <1>2, <1>9
    <3>2. ASSUME NEW A, NEW B, {<<b.id, b.at>> : b \in A} = {<<b.id, b.at>> : b \in B}, NEW b \in A
          PROVE  b.at \in {c.at : c \in B}
      <4>1. <<b.id, b.at>> \in {<<c.id, c.at>> : c \in B}
        BY <3>2
      <4>2. PICK c \in B : <<b.id, b.at>> = <<c.id, c.at>>
        BY <4>1
      <4> QED
        BY <4>2
    <3>3. \A b \in bodies : b.at \in {c.at : c \in scene.bodies}
      BY <3>1, <3>2
    <3>4. \A b \in scene.bodies : b.at \in {c.at : c \in bodies}
      BY <3>1, <3>2
    <3> QED
      BY <3>3, <3>4
  <2>3. Places(bodies) = Places(scene.bodies) /\ Reached(bodies) = Reached(scene.bodies)
    <3>1. Places(bodies) = {b.at : b \in bodies} /\ Reached(bodies) = RoomOf({b.at : b \in bodies})
      BY <1>3, PlacesAre
    <3>2. /\ Places(scene.bodies) = {b.at : b \in scene.bodies}
          /\ Reached(scene.bodies) = RoomOf({b.at : b \in scene.bodies})
      BY <1>4, PlacesAre
    <3> QED
      BY <2>2, <3>1, <3>2
  <2>4. Places(scene'.bodies) = Places(bodies) /\ Reached(scene'.bodies) = Reached(bodies)
    BY <1>6, <2>1
  <2> QED
    BY <1>3, <1>6, <2>1, <2>3, <2>4 DEF SceneInv
<1> QED
  BY <1>7, <1>8, <1>9

\* A turn of the loop leaves the world as it is, and while the Scene is not live it tells nobody
\* anew to go.
LEMMA TurnPlans ==
  ASSUME NodeInv, Turn
  PROVE  /\ day' = day /\ scene'.valid = scene.valid /\ scene'.pushed = scene.pushed
         /\ scene'.bodies = scene.bodies /\ st'.pl.world = st.pl.world
         /\ day.authored /\ ~Live => NoNewGo(st, st')
<1> DEFINE live  == day.authored /\ Live
           ev    == event \/ live # scene.live
           s     == [st EXCEPT !.scene = live \/ ~day.authored]
           steps == StepDue(ev, s, age, heard, sent) = 0
           after == Stepped(s, steps)
           t     == StationTurn(s, Lost, Now)
           u     == [t EXCEPT !.sent = [v \in Vehicle |-> <<>>]]
<1>1. day' = day /\ scene' = [scene EXCEPT !.live = live] /\ st' = after.st
  BY DEF Turn
<1>2. after.st = IF steps THEN u ELSE s
  BY DEF Stepped
<1> HIDE DEF steps, after
<1>3. SceneOK(scene) /\ StationShaped(st)
  BY SceneIs DEF NodeInv, NodeShaped
<1>4. /\ StationShaped(s) /\ s.pl = st.pl /\ s.entry = st.entry
      /\ day.authored /\ ~Live => ~s.scene
  BY <1>3 DEF StationShaped, StationFields
<1> HIDE DEF s
<1>5. /\ t.pl.world = s.pl.world /\ (~Admits(s) => NoNewGo(s, t)) /\ StationShaped(t)
  <2>1. t.pl.world = s.pl.world /\ (~Admits(s) => NoNewGo(s, t))
    BY <1>4, TurnBound
  <2>2. StationShaped(t)
    BY <1>4, TurnSpoken
  <2> QED
    BY <2>1, <2>2
<1> HIDE DEF t
<1>6. u.pl = t.pl /\ u.entry = t.entry
  BY <1>5 DEF StationShaped, StationFields
<1> HIDE DEF u
<1>7. st'.pl.world = st.pl.world
  BY <1>1, <1>2, <1>4, <1>5, <1>6
<1>8. day.authored /\ ~Live => NoNewGo(st, st')
  <2> SUFFICES ASSUME day.authored, ~Live PROVE NoNewGo(st, st')
    OBVIOUS
  <2>1. ~Admits(s)
    BY <1>4 DEF Admits
  <2>2. NoNewGo(s, t)
    BY <1>5, <2>1
  <2>3. st' \in {u, s}
    BY <1>1, <1>2
  <2>4. st'.entry = t.entry \/ st'.entry = st.entry
    BY <1>4, <1>6, <2>3
  <2> QED
    BY <1>4, <2>2, <2>4 DEF NoNewGo
<1>9. scene'.valid = scene.valid /\ scene'.pushed = scene.pushed /\ scene'.bodies = scene.bodies
  <2> HIDE DEF live
  <2> QED
    BY <1>1, <1>3 DEF SceneOK, SceneFields
<1> QED
  BY <1>1, <1>7, <1>8, <1>9

\* The other actions tell nobody to go, and leave the world and the Scene as they are.
LEMMA OthersPlan ==
  ASSUME NodeInv, NEW v, NEW m, (v \in Vehicle /\ Session(v, m)) \/ List(v) \/ Tick \/ UNCHANGED vars
  PROVE  UNCHANGED <<day, scene>> /\ st'.pl = st.pl /\ NoNewGo(st, st')
<1>1. CASE v \in Vehicle /\ Session(v, m)
  <2> DEFINE x == ToSession(m)
             e == st.entry[v]
             n == [heard |-> TRUE, s |-> x, bad |-> ~x.valid,
                   body |-> IF x.placed /\ x.healthy THEN x.pose ELSE e.body,
                   moving |-> IF x.valid THEN x.moving ELSE e.moving,
                   last |-> IF e.heard /\ (x.session # e.s.session \/ x.gen # e.s.gen)
                            THEN NoDecisionYet ELSE e.last]
             u == [st EXCEPT !.entry[v] = n]
  <2>1. st' = OnSession(st, v, x) /\ UNCHANGED <<day, scene>>
    BY <1>1 DEF Session
  <2>2. StationShaped(st)
    BY DEF NodeInv, NodeShaped
  <2> HIDE DEF x
  <2>3. st' \in {st, u}
    BY <2>1 DEF OnSession
  <2>4. n.last \in {NoDecisionYet, e.last}
    OBVIOUS
  <2> HIDE DEF n
  <2>5. u.pl = st.pl /\ u.entry[v] = n /\ \A w \in Vehicle \ {v} : u.entry[w] = st.entry[w]
    BY <1>1, <2>2 DEF StationShaped, StationFields
  <2> HIDE DEF u
  <2>6. NoNewGo(st, u)
    BY <2>4, <2>5 DEF NoNewGo, NoDecisionYet
  <2> QED
    BY <2>1, <2>3, <2>5, <2>6 DEF NoNewGo
<1>2. CASE List(v) \/ Tick \/ UNCHANGED vars
  BY <1>2 DEF List, Tick, vars, NoNewGo
<1> QED
  BY <1>1, <1>2

LEMMA SceneKeepsTelling ==
  ASSUME NodeInv, (\E m \in day.snapshots : Snapshot(m)) \/ (\E s \in day.states : State(s))
  PROVE  NoNewGo(st, st')
<1>1. CASE \E m \in day.snapshots : Snapshot(m)
  BY <1>1 DEF Snapshot, NoNewGo
<1>2. CASE \E s \in day.states : State(s)
  <2>1. PICK s \in day.states : State(s)
    BY <1>2
  <2> DEFINE w == SetWorld(st.pl, Occupancy(LiveBodies(scene.snap, s)))
  <2>2. st' \in {[st EXCEPT !.pl = w], st}
    BY <2>1 DEF State
  <2>3. StationShaped(st)
    BY DEF NodeInv, NodeShaped
  <2> HIDE DEF w
  <2>4. st'.entry = st.entry
    BY <2>2, <2>3 DEF StationShaped, StationFields
  <2> QED
    BY <2>4 DEF NoNewGo
<1> QED
  BY <1>1, <1>2

LEMMA NextPlans ==
  ASSUME NodeInv, SceneInv, [Next]_vars
  PROVE  /\ SceneInv'
         /\ NoNewGo(st, st') \/ ((day.authored => Live) /\ st'.pl.world = st.pl.world)
<1>1. CASE (\E m \in day.snapshots : Snapshot(m)) \/ (\E s \in day.states : State(s))
  <2>1. SceneInv'
    BY <1>1, SnapshotKeepsScene, StateKeepsScene
  <2> QED
    BY <1>1, <2>1, SceneKeepsTelling
<1>2. CASE Turn
  <2>1. SceneInv'
    BY <1>2, TurnPlans, SceneSame
  <2> QED
    BY <1>2, <2>1, TurnPlans
<1>3. ASSUME NEW v, NEW m, (v \in Vehicle /\ Session(v, m)) \/ List(v) \/ Tick \/ UNCHANGED vars
      PROVE  SceneInv' /\ NoNewGo(st, st')
  <2>1. UNCHANGED <<day, scene>> /\ st'.pl = st.pl /\ NoNewGo(st, st')
    BY <1>3, OthersPlan
  <2> QED
    BY <2>1, SceneSame
<1>4. CASE \E v \in Vehicle : List(v) \/ \E m \in Utterances(v) : Session(v, m)
  BY <1>3, <1>4
<1>5. CASE Tick \/ UNCHANGED vars
  BY <1>3, <1>5
<1> QED
  BY <1>1, <1>2, <1>4, <1>5 DEF Next

-----------------------------------------------------------------------------
(* Theorems.                                                                 *)

\* The inductive invariant of the node's loop: what is left of its sleep and each age add up to
\* no more than the age's period (run, nextDeadline).
THEOREM NodeInvariance == Spec => []NodeInv
<1>1. Init => NodeInv
  BY NodeStarts
<1>2. NodeInv /\ [Next]_vars => NodeInv'
  BY NodeKeeps
<1> QED
  BY <1>1, <1>2, PTL DEF Spec

\* The type invariant of the node.
THEOREM NodeTypes == Spec => []TypeOK
<1>1. NodeInv => TypeOK
  BY DEF NodeInv
<1> QED
  BY <1>1, NodeInvariance, PTL

\* What a vehicle was granted is repeated before its time to live is over (run, nextDeadline,
\* step).
THEOREM NodeRepeatsInTime == Spec => []RepeatedInTime
<1>1. NodeInv => RepeatedInTime
  <2> SUFFICES ASSUME NodeInv, NEW v \in Vehicle \ Lost, ~event, Addressee(st, v)
               PROVE  sent[v] < TimeToLive
    BY DEF RepeatedInTime, Addressee
  <2>1. sent[v] + Rest <= Refresh + 1
    BY DEF NodeInv, TimeInv
  <2>2. sent[v] \in Nat /\ Rest \in Nat
    <3>1. sent[v] \in 0..TimeToLive /\ sleep \in 0..Discovery
      BY DEF NodeInv, TypeOK
    <3> QED
      BY <3>1, Intervals DEF Rest
  <2> QED
    BY <2>1, <2>2, Intervals
<1> QED
  BY <1>1, NodeInvariance, PTL

\* What only time can change is looked at in time (ResetPlanner::nextDeadline,
\* updateSceneAvailability).
THEOREM NodeIsNeverLate == Spec => []NothingIsOverdue
<1>1. NodeInv => NothingIsOverdue
  <2> SUFFICES ASSUME NodeInv PROVE NothingIsOverdue
    OBVIOUS
  <2>1. /\ sleep \in Nat /\ Rest \in Nat /\ age.scene \in Nat /\ age.extension \in Nat
        /\ age.replan \in Nat /\ age.progress \in Nat
    <3>1. /\ sleep \in 0..Discovery /\ age.scene \in 0..Ages.scene
          /\ age.extension \in 0..Ages.extension /\ age.replan \in 0..Ages.replan
          /\ age.progress \in 0..Ages.progress
      BY AgesAre DEF NodeInv, TypeOK, AgeFields
    <3> QED
      BY <3>1 DEF Rest
  <2>2. scene.live /\ ~called => age.scene <= SceneLife + 1
    BY <2>1, Intervals DEF NodeInv, TimeInv
  <2>3. ASSUME ~event, NEW v \in Vehicle
        PROVE  /\ Open(st, v) => age.extension <= Extension + 1
               /\ AsksFor(st, v) => age.replan <= Replanning + 1
               /\ Hesitates(st.pl.body[v])
                    => age.extension <= Extension + 1 \/ age.progress <= StallAfter + 1
    <3>1. /\ Open(st, v) => age.extension + Rest <= Extension + 1
          /\ AsksFor(st, v) => age.replan + Rest <= Replanning + 1
          /\ Hesitates(st.pl.body[v])
               => \/ age.extension + Rest <= Extension + 1
                  \/ age.progress + Rest <= StallAfter + 1
      BY <2>3 DEF NodeInv, TimeInv
    <3> QED
      BY <2>1, <3>1, Intervals
  <2> QED
    BY <2>2, <2>3 DEF NothingIsOverdue, Open, AsksFor
<1> QED
  BY <1>1, NodeInvariance, PTL

\* Who is lost is shown as lost within a period of the fleet's publication (publishFleet).
THEOREM NodeShowsLoss == Spec => []LossIsShown
<1>1. NodeInv => LossIsShown
  <2> SUFFICES ASSUME NodeInv, NEW v \in Lost, heard[v] > LostAfter + FleetIdle PROVE v \in shown
    BY DEF LossIsShown
  <2>1. v \in shown \/ heard[v] + fleet <= LostAfter + FleetIdle
    BY DEF NodeInv, TimeInv, Lost
  <2>2. heard[v] \in 0..Silence /\ fleet \in 0..FleetIdle
    BY DEF NodeInv, TypeOK, Lost
  <2> QED
    BY <2>1, <2>2, Intervals
<1> QED
  BY <1>1, NodeInvariance, PTL

\* No deadline is left in the past by the turn that it woke (run).
THEOREM NodeNeverSpins == Spec => RestsAfterTurn
<1>1. NodeInv /\ [Next]_vars => [Turn => sleep' > 0]_vars
  BY NodeKeeps
<1> QED
  BY <1>1, NodeInvariance, PTL DEF RestsAfterTurn, Spec

\* Routes are granted only while the Scene is live, and in the world that it has shown
\* (updateSceneAvailability, sceneState, scene).
THEOREM NodePlansOnLiveScene == Spec => PlansOnLiveScene
<1> DEFINE A == \A v \in Vehicle :
                  (st'.entry[v].last # st.entry[v].last /\ st'.entry[v].last.st = "Go" /\ day.authored)
                    => /\ Live /\ Places(scene.bodies) \subseteq st'.pl.world
                       /\ st'.pl.world \subseteq Occupancy({[b EXCEPT !.fast = TRUE] : b \in scene.bodies})
<1>1. NodeInv /\ SceneInv /\ [Next]_vars => A
  <2> SUFFICES ASSUME NodeInv, SceneInv, [Next]_vars, NEW v \in Vehicle,
                      st'.entry[v].last # st.entry[v].last, st'.entry[v].last.st = "Go", day.authored
               PROVE  /\ Live /\ Places(scene.bodies) \subseteq st'.pl.world
                      /\ st'.pl.world \subseteq Reached(scene.bodies)
    BY DEF Reached
  <2>1. Live /\ st'.pl.world = st.pl.world
    BY NextPlans DEF NoNewGo
  <2> QED
    BY <2>1 DEF SceneInv, Live
<1>2. Init => SceneInv
  BY SceneStarts
<1>3. NodeInv /\ SceneInv /\ [Next]_vars => SceneInv'
  BY NextPlans
<1> HIDE DEF A
<1>4. NodeInv /\ SceneInv /\ [Next]_vars => [A]_vars
  BY <1>1
<1>5. Spec => [][A]_vars
  BY <1>2, <1>3, <1>4, NodeInvariance, PTL DEF Spec
<1> QED
  BY <1>5 DEF PlansOnLiveScene, A

==============================================================================
