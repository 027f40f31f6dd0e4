---------------------------- MODULE RosEdgeProofs ----------------------------
(***************************************************************************)
(* What the ROS side of a vehicle never does, for every set of              *)
(* configurations and message kinds and every bound: its connection is the  *)
(* one it is configured for, it leaves nothing behind when it is cut off,   *)
(* it loses, doubles and reorders no result, and wakes nobody too soon.     *)
(***************************************************************************)
EXTENDS RosEdge, SequenceTheorems, TLAPS

-----------------------------------------------------------------------------
(* The connection.                                                          *)

LEMMA ConnectedStep == ConnectedAsConfigured /\ [Next]_vars => ConnectedAsConfigured'
<1> SUFFICES ASSUME ConnectedAsConfigured, [Next]_vars PROVE ConnectedAsConfigured'
  OBVIOUS
<1> USE DEF ConnectedAsConfigured, conn
<1>1. ASSUME UNCHANGED <<wired, config, call>> PROVE ConnectedAsConfigured'
  BY <1>1
<1>2. CASE Start
  BY <1>2 DEF Start, Free, Connected
<1>3. CASE Stop
  BY <1>3 DEF Stop
<1>4. CASE Disconnect
  BY <1>4 DEF Disconnect, Connected
<1>5. ASSUME NEW c \in Configs, Configure(c) PROVE ConnectedAsConfigured'
  BY <1>5 DEF Configure, Free, Reconnects
<1>6. CASE UNCHANGED vars
  BY <1>1, <1>6 DEF vars, edge
<1>7. CASE Turn \/ CommitSession \/ CommitCommand
  BY <1>1, <1>7 DEF Turn, CommitSession, CommitCommand, edge
<1>8. CASE Begin \/ Publish \/ Certify \/ End
  BY <1>1, <1>8 DEF Begin, Publish, Certify, CertifyIf, End, edge
<1>9. CASE Fire \/ Call \/ Finish \/ Tick
  BY <1>1, <1>9 DEF Fire, Call, Finish, Tick, edge
<1>10. ASSUME NEW k \in Kinds, Arrive(k) \/ Take(k) PROVE ConnectedAsConfigured'
  BY <1>1, <1>10 DEF Arrive, Take, edge
<1>11. QED
  BY <1>2, <1>3, <1>4, <1>5, <1>6, <1>7, <1>8, <1>9, <1>10 DEF Next

\* Between two calls of the host the edge is connected as it is configured, whatever calls were
\* made and whichever connections failed (configure and connect of ugv_ros_edge.cpp).
THEOREM EdgeConnectedAsConfigured == Spec => []ConnectedAsConfigured
<1>1. Init => ConnectedAsConfigured
  BY DEF Init, ConnectedAsConfigured, conn
<1>2. QED
  BY <1>1, ConnectedStep, PTL DEF Spec

-----------------------------------------------------------------------------
(* Cut off.                                                                 *)

\* A step that has begun publishes over a connection; while a call waits for the thread no step
\* runs and no timer is armed; only an edge that runs is connected, and only one that is connected
\* has had a timer.
Calls ==
  /\ phase # "idle" => conn
  /\ call # "none" => phase = "idle" /\ timer = None /\ running
  /\ conn => running
  /\ ~conn => armed = Unset
  /\ call # "none" => armed = Unset

CutInv == Calls /\ CutIsClean

LEMMA CutStep == CutInv /\ [Next]_vars => CutInv'
<1> SUFFICES ASSUME CutInv, [Next]_vars PROVE CutInv'
  OBVIOUS
<1> USE DEF CutInv, Calls, CutIsClean, conn
<1>1. CASE Start
  BY <1>1 DEF Start, Free, Connected, topics, timing, ros
<1>2. CASE Stop
  BY <1>2 DEF Stop, Free, Cancelled, Stopped, topics
<1>3. CASE Disconnect
  BY <1>3 DEF Disconnect, Joined, Connected, Cut, timing
<1>4. ASSUME NEW c \in Configs, Configure(c) PROVE CutInv'
  BY <1>4 DEF Configure, Free, Reconnects, Cancelled, topics, timing
<1>5. CASE UNCHANGED vars
  BY <1>5 DEF vars, edge, topics, timing, ros
<1>6. CASE Turn \/ CommitSession \/ CommitCommand
  BY <1>6 DEF Turn, CommitSession, CommitCommand, edge, topics, timing, ros
<1>7. CASE Begin
  BY <1>7 DEF Begin, edge, topics, timing
<1>8. CASE Publish \/ Certify \/ End
  BY <1>8 DEF Publish, Certify, CertifyIf, End, edge, topics, timing, ros
<1>9. CASE Fire \/ Call \/ Finish \/ Tick
  BY <1>9 DEF Fire, Call, Finish, Tick, edge, topics, timing, ros
<1>10. ASSUME NEW k \in Kinds, Arrive(k) \/ Take(k) PROVE CutInv'
  BY <1>10 DEF Arrive, Take, edge, topics, timing
<1>11. QED
  BY <1>1, <1>2, <1>3, <1>4, <1>5, <1>6, <1>7, <1>8, <1>9, <1>10 DEF Next

\* An edge that is cut off said zero last, and has no callback running, waiting or still to come
\* (disconnect of ugv_ros_edge.cpp, whatever step or message it fell between).
THEOREM EdgeCutIsClean == Spec => []CutIsClean
<1>1. Init => CutInv
  BY DEF Init, CutInv, Calls, CutIsClean, conn
<1>2. QED
  BY <1>1, CutStep, PTL DEF Spec, CutInv

-----------------------------------------------------------------------------
(* The results.                                                             *)

Counting(n) == [i \in 1..n |-> i]

ResultsInv ==
  /\ shown \in Seq(Nat) /\ results \in Seq(Nat)
  /\ ctl = [mode |-> ctl.mode, n |-> ctl.n, made |-> ctl.made, at |-> ctl.at]
  /\ ctl.made \in Nat
  /\ shown \o results = Counting(ctl.made)

LEMMA CountingNext ==
  ASSUME NEW n \in Nat
  PROVE  Counting(n) \in Seq(Nat) /\ Append(Counting(n), n + 1) = Counting(n + 1)
<1>1. Counting(n) \in Seq(Nat) /\ Len(Counting(n)) = n
  BY DEF Counting
<1>2. Append(Counting(n), n + 1) \in Seq(Nat) /\ Len(Append(Counting(n), n + 1)) = n + 1
  BY <1>1, AppendProperties
<1>3. \A i \in 1..(n + 1) : Append(Counting(n), n + 1)[i] = i
  BY <1>1, AppendProperties DEF Counting
<1>4. Counting(n + 1) \in Seq(Nat) /\ Len(Counting(n + 1)) = n + 1
  BY DEF Counting
<1>5. QED
  BY <1>1, <1>2, <1>3, <1>4, SeqEqual DEF Counting

LEMMA AppendLast ==
  ASSUME NEW s \in Seq(Nat), NEW t \in Seq(Nat), NEW n \in Nat
  PROVE  s \o Append(t, n) = Append(s \o t, n)
<1>1. <<n>> \in Seq(Nat) /\ s \o t \in Seq(Nat)
  OBVIOUS
<1>2. QED
  BY <1>1, AppendIsConcat, ConcatAssociative

LEMMA ResultsStep == ResultsInv /\ [Next]_vars => ResultsInv'
<1> SUFFICES ASSUME ResultsInv, [Next]_vars PROVE ResultsInv'
  OBVIOUS
<1>1. ASSUME shown' = shown, results' = results, ctl' = ctl PROVE ResultsInv'
  BY <1>1 DEF ResultsInv
<1>2. CASE Turn
  BY <1>2 DEF Turn, ResultsInv, outputs, topics
<1>3. CASE CommitSession
  <2>1. shown' = shown
    BY <1>3 DEF CommitSession, topics
  <2>2. PICK new \in BOOLEAN :
          /\ results' = IF new THEN Append(results, ctl.made + 1) ELSE results
          /\ ctl' = [ctl EXCEPT !.at = "cmd", !.made = IF new THEN @ + 1 ELSE @]
    BY <1>3 DEF CommitSession
  <2>3. CASE new
    <3>1. ctl.made \in Nat /\ ctl'.made = ctl.made + 1
      BY <2>2, <2>3 DEF ResultsInv
    <3>2. shown \in Seq(Nat) /\ results \in Seq(Nat) /\ shown \o results = Counting(ctl.made)
      BY DEF ResultsInv
    <3>3. ctl.made + 1 \in Nat
      BY <3>1
    <3>4. shown \o Append(results, ctl.made + 1) = Append(shown \o results, ctl.made + 1)
      BY <3>2, <3>3, AppendLast
    <3>5. Append(Counting(ctl.made), ctl.made + 1) = Counting(ctl.made + 1)
      BY <3>1, CountingNext
    <3>6. results' \in Seq(Nat)
      BY <2>2, <2>3, <3>2, <3>3, AppendProperties
    <3>7. shown' \o results' = Counting(ctl'.made)
      BY <2>1, <2>2, <2>3, <3>1, <3>2, <3>4, <3>5
    <3>8. ctl' = [mode |-> ctl'.mode, n |-> ctl'.n, made |-> ctl'.made, at |-> ctl'.at]
      BY <2>2 DEF ResultsInv
    <3>9. QED
      BY <2>1, <3>1, <3>2, <3>3, <3>6, <3>7, <3>8 DEF ResultsInv
  <2>4. CASE ~new
    BY <2>1, <2>2, <2>4 DEF ResultsInv
  <2>5. QED
    BY <2>3, <2>4
<1>4. CASE CommitCommand
  BY <1>4 DEF CommitCommand, ResultsInv, topics
<1>5. CASE End
  <2>1. shown' = shown \o results /\ results' = SubSeq(results, Len(results) + 1, Len(results))
    BY <1>5 DEF End, Drained
  <2>2. ctl' = ctl
    BY <1>5 DEF End
  <2>3. results' = <<>>
    BY <2>1, SubSeqEmpty DEF ResultsInv
  <2>4. shown' \in Seq(Nat) /\ shown' \o <<>> = shown'
    BY <2>1, ConcatProperties, ConcatEmptySeq DEF ResultsInv
  <2>5. QED
    BY <2>1, <2>2, <2>3, <2>4 DEF ResultsInv
<1>6. CASE Begin \/ Publish \/ Certify
  BY <1>1, <1>6 DEF Begin, Publish, Certify, CertifyIf, outputs, topics
<1>7. CASE Fire \/ Call \/ Finish \/ Tick
  BY <1>1, <1>7 DEF Fire, Call, Finish, Tick, outputs, topics
<1>8. CASE Start \/ Stop \/ Disconnect
  BY <1>1, <1>8 DEF Start, Stop, Disconnect, Cut, outputs, topics
<1>9. ASSUME NEW c \in Configs, Configure(c) PROVE ResultsInv'
  BY <1>1, <1>9 DEF Configure, outputs, topics
<1>10. ASSUME NEW k \in Kinds, Arrive(k) \/ Take(k) PROVE ResultsInv'
  BY <1>1, <1>10 DEF Arrive, Take, outputs, topics
<1>11. CASE UNCHANGED vars
  BY <1>1, <1>11 DEF vars, outputs, topics
<1>12. QED
  BY <1>2, <1>3, <1>4, <1>5, <1>6, <1>7, <1>8, <1>9, <1>10, <1>11 DEF Next

\* Every result the port took is published or waits to be, once and in its order, however
\* connections come and go between (publishResetResult and disconnect of ugv_ros_edge.cpp).
THEOREM EdgeResultsInOrder == Spec => []ResultsInOrder
<1>1. Init => ResultsInv
  BY DEF Init, ResultsInv, Counting
<1>2. ResultsInv => ResultsInOrder
  BY DEF ResultsInv, ResultsInOrder, Counting
<1>3. QED
  BY <1>1, <1>2, ResultsStep, PTL DEF Spec

-----------------------------------------------------------------------------
(* The timer.                                                               *)

Letter == [kind : Kinds \cup {"wake"}, id : Nat]
HasWake(q) == \E i \in DOMAIN q : q[i] = Wake

\* The timer has one callback at most, in the queue or still to come, and it is the one of the
\* deadline that was armed last.
TimerInv ==
  /\ wall \in Nat /\ arrived \in Nat
  /\ demand \in [at : Nat \cup {None}, some : BOOLEAN, unread : BOOLEAN]
  /\ timer \in Nat \cup {None} /\ armed \in Nat \cup {None, Unset}
  /\ inbox \in Seq(Letter)
  /\ \A i, j \in DOMAIN inbox : (inbox[i] = Wake /\ inbox[j] = Wake) => i = j
  /\ timer # None => armed = timer /\ ~HasWake(inbox)
  /\ HasWake(inbox) => armed \in Nat /\ armed <= wall /\ timer = None

\* A stopped timer leaves no callback in a queue that has one at most.
LEMMA RemovedWake ==
  ASSUME NEW q \in Seq(Letter), \A i, j \in DOMAIN q : (q[i] = Wake /\ q[j] = Wake) => i = j
  PROVE  RemoveFirst(q, Wake) \in Seq(Letter) /\ ~HasWake(RemoveFirst(q, Wake))
<1>1. CASE ~\E i \in 1..Len(q) : q[i] = Wake
  BY <1>1 DEF RemoveFirst, HasWake
<1>2. CASE \E i \in 1..Len(q) : q[i] = Wake
  <2>1. PICK m \in 1..Len(q) : q[m] = Wake
    BY <1>2
  <2>2. {i \in 1..Len(q) : q[i] = Wake} = {m}
    BY <2>1
  <2>3. SelectInSeq(q, LAMBDA v : v = Wake) = m
    <3> DEFINE I == {i \in 1..Len(q) : q[i] = Wake}
    <3>1. Min(I) = m
      BY <2>2 DEF Min
    <3> QED
      BY <3>1, <2>1 DEF SelectInSeq
  <2> DEFINE s == SubSeq(q, 1, m - 1)
             t == SubSeq(q, m + 1, Len(q))
             r == s \o t
  <2>4. RemoveFirst(q, Wake) = r
    BY <1>2, <2>3 DEF RemoveFirst, RemoveAt
  <2>5. /\ s \in Seq(Letter) /\ Len(s) = m - 1 /\ \A i \in 1..(m - 1) : s[i] = q[i]
        /\ t \in Seq(Letter) /\ Len(t) = Len(q) - m
        /\ \A i \in 1..(Len(q) - m) : t[i] = q[m + i]
    <3>1. m \in Int /\ Len(q) \in Nat /\ m - 1 \in Int /\ m + 1 \in Int
      OBVIOUS
    <3>2. (\A i \in 1..(m - 1) : q[i] \in Letter) /\ (\A i \in (m + 1)..Len(q) : q[i] \in Letter)
      BY <3>1
    <3>3. /\ s \in Seq(Letter) /\ Len(s) = (IF 1 <= m - 1 THEN m - 1 - 1 + 1 ELSE 0)
          /\ \A i \in 1..(m - 1 - 1 + 1) : s[i] = q[1 + i - 1]
      BY <3>1, <3>2, SubSeqProperties
    <3>4. /\ t \in Seq(Letter)
          /\ Len(t) = (IF m + 1 <= Len(q) THEN Len(q) - (m + 1) + 1 ELSE 0)
          /\ \A i \in 1..(Len(q) - (m + 1) + 1) : t[i] = q[m + 1 + i - 1]
      BY <3>1, <3>2, SubSeqProperties
    <3> HIDE DEF s, t
    <3>5. 1 <= m /\ m <= Len(q) /\ Len(s) = m - 1 /\ Len(t) = Len(q) - m
      BY <3>1, <3>3, <3>4
    <3>6. \A i \in 1..(m - 1) : s[i] = q[i]
      <4> SUFFICES ASSUME NEW i \in 1..(m - 1) PROVE s[i] = q[i]
        OBVIOUS
      <4>1. s[i] = q[1 + i - 1] /\ 1 + i - 1 = i
        BY <3>1, <3>3
      <4> QED
        BY <4>1
    <3>7. \A i \in 1..(Len(q) - m) : t[i] = q[m + i]
      <4> SUFFICES ASSUME NEW i \in 1..(Len(q) - m) PROVE t[i] = q[m + i]
        OBVIOUS
      <4>1. t[i] = q[m + 1 + i - 1] /\ m + 1 + i - 1 = m + i
        BY <3>1, <3>4
      <4> QED
        BY <4>1
    <3> QED
      BY <3>3, <3>4, <3>5, <3>6, <3>7
  <2> HIDE DEF s, t
  <2>6. r \in Seq(Letter) /\ Len(r) = Len(q) - 1
    BY <2>5, ConcatProperties
  <2>7. \A i \in 1..(Len(q) - 1) : r[i] = IF i < m THEN q[i] ELSE q[i + 1]
    <3>1. \A i \in 1..(Len(s) + Len(t)) : r[i] = IF i <= Len(s) THEN s[i] ELSE t[i - Len(s)]
      BY <2>5, ConcatProperties
    <3> HIDE DEF r
    <3> SUFFICES ASSUME NEW i \in 1..(Len(q) - 1)
                 PROVE  r[i] = IF i < m THEN q[i] ELSE q[i + 1]
      OBVIOUS
    <3>5. Len(s) = m - 1 /\ Len(t) = Len(q) - m /\ m \in Int /\ Len(q) \in Int
      BY <2>5
    <3>6. i \in 1..(Len(s) + Len(t))
      BY <3>5
    <3>2. r[i] = IF i <= Len(s) THEN s[i] ELSE t[i - Len(s)]
      BY <3>1, <3>6
    <3>3. CASE i < m
      <4>1. i \in 1..(m - 1) /\ i <= Len(s)
        BY <2>5, <3>3
      <4> QED
        BY <2>5, <3>2, <3>3, <4>1
    <3>4. CASE ~(i < m)
      <4>1. ~(i <= Len(s)) /\ i - Len(s) = i - m + 1 /\ i - m + 1 \in 1..(Len(q) - m)
        BY <2>5, <3>4
      <4>2. t[i - m + 1] = q[m + (i - m + 1)] /\ m + (i - m + 1) = i + 1
        BY <2>5, <4>1
      <4> QED
        BY <3>2, <3>4, <4>1, <4>2
    <3> QED
      BY <3>3, <3>4
  <2> HIDE DEF r
  <2>9. \A i \in 1..(Len(q) - 1) : r[i] # Wake
    <3> SUFFICES ASSUME NEW i \in 1..(Len(q) - 1)
                 PROVE  r[i] # Wake
      OBVIOUS
    <3>1. i \in 1..Len(q) /\ i + 1 \in 1..Len(q)
      OBVIOUS
    <3> QED
      BY <3>1, <2>1, <2>7
  <2> QED
    BY <2>4, <2>6, <2>9 DEF HasWake
<1> QED
  BY <1>1, <1>2

LEMMA StoppedWake ==
  ASSUME TimerInv
  PROVE  Stopped(inbox) \in Seq(Letter) /\ ~HasWake(Stopped(inbox))
<1>1. CASE armed = Unset
  BY <1>1 DEF Stopped, TimerInv, Unset
<1>2. CASE armed # Unset
  BY <1>2, RemovedWake DEF Stopped, TimerInv
<1> QED
  BY <1>1, <1>2

LEMMA TimerStep == TimerInv /\ [Next]_vars => TimerInv'
<1> SUFFICES ASSUME TimerInv, [Next]_vars PROVE TimerInv'
  OBVIOUS
<1> USE DEF None, Unset
<1>1. ASSUME UNCHANGED <<wall, arrived, demand, timer, armed, inbox>> PROVE TimerInv'
  BY <1>1 DEF TimerInv, HasWake
<1>2. CASE CommitCommand
  <2>1. UNCHANGED <<wall, arrived, timer, armed, inbox>>
    BY <1>2 DEF CommitCommand, timing, ros
  <2>2. demand' \in [at : Nat \cup {None}, some : BOOLEAN, unread : BOOLEAN]
    <3>1. PICK at \in {demand.at, None} \cup (wall + 1)..limit.ticks :
            demand' = IF at = demand.at THEN demand
                      ELSE [at |-> at, some |-> TRUE, unread |-> TRUE]
      BY <1>2 DEF CommitCommand
    <3>2. at \in Nat \cup {None}
      BY DEF TimerInv
    <3> QED
      BY <3>1, <3>2 DEF TimerInv
  <2> QED
    BY <2>1, <2>2 DEF TimerInv, HasWake
<1>3. CASE Begin
  <2>1. UNCHANGED <<wall, arrived>>
    BY <1>3 DEF Begin
  <2>2. CASE conn /\ demand.unread
    <3>1. demand' = [demand EXCEPT !.unread = FALSE] /\ armed' = demand.at
      BY <1>3, <2>2 DEF Begin
    <3>2. demand' \in [at : Nat \cup {None}, some : BOOLEAN, unread : BOOLEAN]
      BY <3>1 DEF TimerInv
    <3>3. armed' \in Nat \cup {None}
      BY <3>1 DEF TimerInv
    <3>4. CASE armed = demand.at
      <4>1. UNCHANGED <<timer, inbox, armed>>
        BY <1>3, <2>2, <3>1, <3>4 DEF Begin
      <4> QED
        BY <2>1, <3>2, <4>1 DEF TimerInv, HasWake
    <3>5. CASE armed # demand.at
      <4>1. timer' = demand.at /\ inbox' = Stopped(inbox)
        BY <1>3, <2>2, <3>5 DEF Begin
      <4>2. inbox' \in Seq(Letter) /\ ~HasWake(inbox')
        BY <4>1, StoppedWake
      <4> QED
        BY <2>1, <3>1, <3>2, <3>3, <4>1, <4>2 DEF TimerInv, HasWake
    <3> QED
      BY <3>4, <3>5
  <2>3. CASE ~(conn /\ demand.unread)
    BY <1>1, <1>3, <2>1, <2>3 DEF Begin, timing
  <2> QED
    BY <2>2, <2>3
<1>4. CASE Fire
  <2>1. /\ timer # None /\ wall >= timer /\ timer' = None /\ inbox' = Append(inbox, Wake)
        /\ UNCHANGED <<wall, arrived, demand, armed>>
    BY <1>4 DEF Fire, outputs
  <2>2. Wake \in Letter
    BY DEF Wake, Letter
  <2>3. /\ inbox' \in Seq(Letter) /\ Len(inbox') = Len(inbox) + 1
        /\ \A i \in 1..Len(inbox) : inbox'[i] # Wake
    BY <2>1, <2>2 DEF TimerInv, HasWake
  <2> QED
    BY <2>1, <2>3 DEF TimerInv, HasWake
<1>5. ASSUME NEW k \in Kinds, Arrive(k) PROVE TimerInv'
  <2> DEFINE m == [kind |-> k, id |-> arrived + 1]
  <2>1. inbox' = Append(inbox, m) /\ arrived' = arrived + 1 /\ UNCHANGED <<wall, demand, timer, armed>>
    BY <1>5 DEF Arrive, outputs, timing
  <2>2. m \in Letter /\ m # Wake
    BY DEF TimerInv, Letter, Wake
  <2>3. /\ inbox' \in Seq(Letter) /\ Len(inbox') = Len(inbox) + 1
        /\ \A i \in 1..Len(inbox) : inbox'[i] = inbox[i]
        /\ inbox'[Len(inbox) + 1] # Wake
    BY <2>1, <2>2 DEF TimerInv
  <2>4. \A i \in DOMAIN inbox' : inbox'[i] = Wake => i \in DOMAIN inbox /\ inbox[i] = Wake
    BY <2>3 DEF TimerInv
  <2> QED
    BY <2>1, <2>3, <2>4 DEF TimerInv, HasWake
<1>6. CASE Call
  <2>1. inbox # <<>> /\ inbox' = Tail(inbox) /\ UNCHANGED <<wall, arrived, demand, timer, armed>>
    BY <1>6 DEF Call, outputs, timing
  <2>2. /\ inbox' \in Seq(Letter) /\ Len(inbox') = Len(inbox) - 1
        /\ \A i \in 1..(Len(inbox) - 1) : inbox'[i] = inbox[i + 1]
    BY <2>1 DEF TimerInv
  <2>3. \A i \in DOMAIN inbox' : i + 1 \in DOMAIN inbox /\ inbox'[i] = inbox[i + 1]
    BY <2>2 DEF TimerInv
  <2>4. \A i, j \in DOMAIN inbox' : (inbox'[i] = Wake /\ inbox'[j] = Wake) => i = j
    BY <2>2, <2>3 DEF TimerInv
  <2>5. HasWake(inbox') => HasWake(inbox)
    BY <2>3 DEF HasWake
  <2> QED
    BY <2>1, <2>2, <2>4, <2>5 DEF TimerInv
<1>7. CASE Start
  <2>1. UNCHANGED <<wall, arrived, timer, armed, inbox>>
    BY <1>7 DEF Start, timing, ros
  <2>2. demand' \in {demand, Forgotten(demand)}
    BY <1>7 DEF Start, Connected
  <2>3. demand' \in [at : Nat \cup {None}, some : BOOLEAN, unread : BOOLEAN]
    BY <2>2 DEF TimerInv, Forgotten
  <2> QED
    BY <2>1, <2>3 DEF TimerInv, HasWake
<1>8. CASE Disconnect
  <2>1. UNCHANGED <<wall, arrived, timer, armed>> /\ inbox' = <<>>
    BY <1>8 DEF Disconnect, timing
  <2>2. demand' \in {demand, Forgotten(demand)}
    BY <1>8 DEF Disconnect, Connected
  <2>3. demand' \in [at : Nat \cup {None}, some : BOOLEAN, unread : BOOLEAN]
    BY <2>2 DEF TimerInv, Forgotten
  <2> QED
    BY <2>1, <2>3 DEF TimerInv, HasWake
<1>9. ASSUME Cancelled, UNCHANGED <<wall, arrived, demand>> PROVE TimerInv'
  <2>1. inbox' \in Seq(Letter) /\ ~HasWake(inbox')
    BY <1>9, StoppedWake DEF Cancelled
  <2> QED
    BY <1>9, <2>1 DEF Cancelled, TimerInv, HasWake
<1>10. CASE Stop
  BY <1>9, <1>10 DEF Stop, outputs
<1>11. ASSUME NEW c \in Configs, Configure(c) PROVE TimerInv'
  BY <1>1, <1>9, <1>11 DEF Configure, outputs, timing
<1>12. CASE Turn \/ CommitSession
  BY <1>1, <1>12 DEF Turn, CommitSession, outputs, timing, ros
<1>13. CASE Publish \/ Certify \/ End
  BY <1>1, <1>13 DEF Publish, Certify, CertifyIf, End, outputs, timing, ros
<1>14. CASE Finish
  BY <1>1, <1>14 DEF Finish, outputs, timing
<1>15. ASSUME NEW k \in Kinds, Take(k) PROVE TimerInv'
  BY <1>1, <1>15 DEF Take, outputs, timing
<1>16. CASE Tick
  BY <1>16 DEF Tick, outputs, timing, ros, TimerInv, HasWake
<1>17. CASE UNCHANGED vars
  BY <1>1, <1>17 DEF vars, outputs, timing, ros
<1>18. QED
  BY <1>2, <1>3, <1>4, <1>5, <1>6, <1>7, <1>8, <1>10, <1>11, <1>12, <1>13, <1>14, <1>15, <1>16, <1>17
     DEF Next

\* The callback of the timer begins no sooner than the deadline that was armed last, and not
\* after that was cancelled, wherever it was replaced, and whichever connection it was
\* demanded over (armWallDeadline and disconnect of ugv_ros_edge.cpp).
THEOREM EdgeWakesAreDue == Spec => WakesAreDue
<1>1. Init => TimerInv
  BY DEF Init, TimerInv, HasWake, None, Unset
<1>2. TimerInv /\ [Next]_vars =>
        [(callback' = Wake /\ callback # Wake) => armed # None /\ wall >= armed]_vars
  <2> SUFFICES ASSUME TimerInv, Next, callback' = Wake, callback # Wake
               PROVE  armed # None /\ wall >= armed
    BY DEF vars, ros
  <2>1. CASE Call
    <3>1. inbox # <<>> /\ Head(inbox) = Wake
      BY <2>1 DEF Call
    <3>2. HasWake(inbox)
      BY <3>1 DEF TimerInv, HasWake
    <3> QED
      BY <3>2 DEF TimerInv, None
  <2>2. CASE ~Call
    <3>1. callback' \in {callback, Idle}
      BY <2>2 DEF Next, Turn, CommitSession, CommitCommand, Begin, Publish, Certify, CertifyIf, End, Fire,
                  Finish, Arrive, Take, Start, Stop, Disconnect, Tick, Configure, ros
    <3> QED
      BY <3>1 DEF Idle, Wake
  <2> QED
    BY <2>1, <2>2
<1>3. QED
  BY <1>1, <1>2, TimerStep, PTL DEF Spec, WakesAreDue

=============================================================================
