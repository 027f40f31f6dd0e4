------------------------ MODULE ResetVehicleProofs -------------------------
(***************************************************************************)
(* The safety of one vehicle, for every station and every value of the     *)
(* constants.  First what every operation of the executor preserves: its   *)
(* type, what an acknowledgement means, and that a request generation only *)
(* moves forward.  Then the vehicle around it.  Then what it promises      *)
(* outwards: each Reset has one Result, and all that the controllers see   *)
(* of the executor is the transaction of Permit.                           *)
(***************************************************************************)
EXTENDS ResetVehicle, TLAPS

-----------------------------------------------------------------------------
(* What is preserved.                                                       *)

\* What the acknowledgement, the answered brake and the deferred GO say of each other.
Acknowledged(e) ==
  /\ e.perm.at \in {"None", "AwaitBrake"} => e.ack = 0 /\ e.brake = 0
  /\ e.perm.at \in {"AwaitZero", "AwaitStopped", "AwaitGo"} => e.ack = e.brake /\ e.brake > 0
  /\ e.perm.at \in {"Executing", "Complete"} => e.ack > e.brake /\ e.brake > 0
  /\ e.ack <= e.last.id
  /\ e.perm.deferred # NoDecision =>
       /\ e.perm.at = "AwaitGo"
       /\ e.brake < e.perm.deferred.id /\ e.perm.deferred.id <= e.last.id

Good(e) == e \in Executor /\ Acknowledged(e)

\* In one generation the transaction moves forward, with the brake it began with,
\* or is lost for good; a fault stops it where it is.
Forward(e, f) ==
  /\ Rank(e.perm.at) <= Rank(f.perm.at)
  /\ e.perm.at \in {"Executing", "Complete"} => f.perm.at = e.perm.at
  /\ e.perm.at \notin {"None", "AwaitBrake"} => f.brake = e.brake
  /\ e.fault => f.perm.at = e.perm.at
Follows(e, f) ==
  /\ e.gen <= f.gen
  /\ e.fault => f.fault
  /\ f.gen = e.gen => (f.fault /\ f.perm.at = "AwaitBrake") \/ Forward(e, f)

\* An executor that goes on executing has the same route and no less of it.
Frozen(e, f) ==
  (Is(e, "Executing") /\ Is(f, "Executing")) =>
     f.gen = e.gen /\ f.perm.route = e.perm.route /\ f.perm.lim >= e.perm.lim

\* The stages that promise rest, and the one that moves, are kept, never entered.
Promising == {"AwaitZero", "AwaitStopped", "AwaitGo"}
Kept(e, f) ==
  /\ f.perm.at \in Promising =>
       f.perm.at = e.perm.at /\ f.gen = e.gen /\ f.brake = e.brake /\ f.still = e.still
  /\ Is(f, "Executing") => Is(e, "Executing")

-----------------------------------------------------------------------------
(* Types.                                                                   *)

\* The order of what may follow within a generation is transitive.
LEMMA FollowsTrans ==
  ASSUME NEW e \in Executor, NEW f \in Executor, NEW g \in Executor,
         Follows(e, f), Follows(f, g)
  PROVE  Follows(e, g)
BY GenAssumption DEF Follows, Forward, Rank, Executor, Permission, Stage, Generation

\* What the last decision of an executor is: a decision, or none, with an id.
LEMMA LastFields ==
  ASSUME NEW d \in Decision \cup {NoDecision}
  PROVE  /\ d.st \in GrantState /\ d.id \in Nat /\ d.gen \in Generation
         /\ d.route \in Route \cup {NoRoute} /\ d.lim \in 0..MaxLimit
         /\ d \in Decision => d.id > 0
         /\ (d # NoDecision /\ d.st = "Go") => d.route \in Route
BY LimitAssumption, GenAssumption DEF Decision, NoDecision, GrantState, Generation

\* The fields of a permission, and the records that owning them gives.
LEMMA PermFields ==
  ASSUME NEW e \in Executor
  PROVE  /\ e.perm \in Permission /\ e.perm.at \in Stage
         /\ e.last.id \in Nat /\ e.perm.deferred.id \in Nat
         /\ e.perm.deferred \in Decision \cup {NoDecision}
         /\ e.brake \in Nat /\ e.ack \in Nat /\ e.gen \in 0..MaxGen
<1>1. e.perm \in Permission /\ e.last \in Decision \cup {NoDecision}
      /\ e.brake \in Nat /\ e.ack \in Nat /\ e.gen \in 0..MaxGen
  BY DEF Executor, Generation
<1>2. e.perm.at \in Stage /\ e.perm.deferred \in Decision \cup {NoDecision}
  BY <1>1 DEF Permission
<1> QED BY <1>1, <1>2, LastFields

\* A permission just entered is a permission.
LEMMA FreshType == ASSUME NEW s \in Stage PROVE Fresh(s) \in Permission
BY LimitAssumption DEF Fresh, Permission, Twist, Stage

\* One lemma for each field: an executor with the field replaced is an executor,
\* and the other fields are what they were.
LEMMA PutRun == ASSUME NEW e \in Executor, NEW v \in BOOLEAN
  PROVE [e EXCEPT !.run = v] \in Executor
BY DEF Executor
\* The same for `prog'.
LEMMA PutProg == ASSUME NEW e \in Executor, NEW v \in Progress
  PROVE [e EXCEPT !.prog = v] \in Executor
BY DEF Executor
\* The same for `session'.
LEMMA PutSession == ASSUME NEW e \in Executor, NEW v \in Nat
  PROVE [e EXCEPT !.session = v] \in Executor
BY DEF Executor
\* The same for `valid'.
LEMMA PutValid == ASSUME NEW e \in Executor, NEW v \in BOOLEAN
  PROVE [e EXCEPT !.valid = v] \in Executor
BY DEF Executor
\* The same for `heard'.
LEMMA PutHeard == ASSUME NEW e \in Executor, NEW v \in BOOLEAN
  PROVE [e EXCEPT !.heard = v] \in Executor
BY DEF Executor
\* The same for `perm'.
LEMMA PutPerm == ASSUME NEW e \in Executor, NEW v \in Permission
  PROVE [e EXCEPT !.perm = v] \in Executor
BY DEF Executor
\* The same for `gen'.
LEMMA PutGen == ASSUME NEW e \in Executor, NEW v \in Generation
  PROVE [e EXCEPT !.gen = v] \in Executor
BY DEF Executor
\* The same for `brake'.
LEMMA PutBrake == ASSUME NEW e \in Executor, NEW v \in Nat
  PROVE [e EXCEPT !.brake = v] \in Executor
BY DEF Executor
\* The same for `ack'.
LEMMA PutAck == ASSUME NEW e \in Executor, NEW v \in Nat
  PROVE [e EXCEPT !.ack = v] \in Executor
BY DEF Executor
\* The same for `last'.
LEMMA PutLast == ASSUME NEW e \in Executor, NEW v \in Decision \cup {NoDecision}
  PROVE [e EXCEPT !.last = v] \in Executor
BY DEF Executor
\* The same for `seqIn'.
LEMMA PutSeqIn == ASSUME NEW e \in Executor, NEW v \in Int
  PROVE [e EXCEPT !.seqIn = v] \in Executor
BY DEF Executor
\* The same for `fault'.
LEMMA PutFault == ASSUME NEW e \in Executor, NEW v \in BOOLEAN
  PROVE [e EXCEPT !.fault = v] \in Executor
BY DEF Executor
\* The same for `clockBad'.
LEMMA PutClockBad == ASSUME NEW e \in Executor, NEW v \in BOOLEAN
  PROVE [e EXCEPT !.clockBad = v] \in Executor
BY DEF Executor
\* The same for `still'.
LEMMA PutStill == ASSUME NEW e \in Executor, NEW v \in BOOLEAN
  PROVE [e EXCEPT !.still = v] \in Executor
BY DEF Executor
\* The same for `result'.
LEMMA PutResult == ASSUME NEW e \in Executor, NEW v \in Result \cup {NoResult}
  PROVE [e EXCEPT !.result = v] \in Executor
BY DEF Executor
\* The same for `previous'.
LEMMA PutPrevious == ASSUME NEW e \in Executor, NEW v \in Result \cup {NoResult}
  PROVE [e EXCEPT !.previous = v] \in Executor
BY DEF Executor
\* The same for `due'.
LEMMA PutDue == ASSUME NEW e \in Executor, NEW v \in SUBSET Deadline
  PROVE [e EXCEPT !.due = v] \in Executor
BY DEF Executor

\* Asking again leaves an executor.
LEMMA RequestAuthorityType ==
  ASSUME NEW e \in Executor, NEW terminal \in BOOLEAN
  PROVE  RequestAuthority(e, terminal) \in Executor
<1> DEFINE e1 == [e EXCEPT !.perm = Fresh("AwaitBrake")]
           e2 == [e1 EXCEPT !.brake = 0]
           e3 == [e2 EXCEPT !.ack = 0]
           e4 == [e3 EXCEPT !.due = e.due \ {"ttl"}]
           e5 == [e4 EXCEPT !.gen = IF e.gen = MaxGen THEN e.gen ELSE e.gen + 1]
           e6 == [e5 EXCEPT !.fault = IF e.gen = MaxGen THEN TRUE ELSE e.fault]
           e7 == [e6 EXCEPT !.prog = IF terminal THEN e.prog ELSE "Requesting"]
<1> HIDE DEF e1, e2, e3, e4, e5, e6
<1>1. e1 \in Executor
  BY FreshType, PutPerm DEF e1, Stage
<1>2. e2 \in Executor
  BY <1>1, PutBrake DEF e2
<1>3. e3 \in Executor
  BY <1>2, PutAck DEF e3
<1>4. e4 \in Executor
  BY <1>3, PutDue DEF e4, Executor
<1>5. e5 \in Executor
  BY <1>4, PutGen, GenAssumption DEF e5, Executor, Generation
<1>6. e6 \in Executor
  <2>1. (IF e.gen = MaxGen THEN TRUE ELSE e.fault) \in BOOLEAN
    BY DEF Executor
  <2> QED BY <1>5, <2>1, PutFault DEF e6
<1>7. e7 \in Executor
  <2>1. (IF terminal THEN e.prog ELSE "Requesting") \in Progress
    BY DEF Executor, Progress
  <2> QED BY <1>6, <2>1, PutProg
<1>8. RequestAuthority(e, terminal) = e7
  BY DEF RequestAuthority, e1, e2, e3, e4, e5, e6
<1> QED BY <1>7, <1>8

\* What asking again sets: a new generation or a fault, and nothing acknowledged.
LEMMA RequestAuthorityFields ==
  ASSUME NEW e \in Executor, NEW terminal \in BOOLEAN,
         NEW f, f = RequestAuthority(e, terminal)
  PROVE  /\ f.perm = Fresh("AwaitBrake") /\ f.brake = 0 /\ f.ack = 0
         /\ f.gen = (IF e.gen = MaxGen THEN e.gen ELSE e.gen + 1)
         /\ f.fault = (IF e.gen = MaxGen THEN TRUE ELSE e.fault)
BY DEF RequestAuthority, Executor

\* To ask again is safe from anywhere.
LEMMA RequestAuthorityGood ==
  ASSUME NEW e \in Executor, NEW terminal \in BOOLEAN,
         NEW f, f = RequestAuthority(e, terminal)
  PROVE  Good(f) /\ Follows(e, f) /\ f.perm.at = "AwaitBrake"
<1>1. f \in Executor
  BY RequestAuthorityType
<1>2. /\ f.perm.at = "AwaitBrake" /\ f.perm.deferred = NoDecision
      /\ f.ack = 0 /\ f.brake = 0
      /\ f.gen = (IF e.gen = MaxGen THEN e.gen ELSE e.gen + 1)
      /\ f.fault = (IF e.gen = MaxGen THEN TRUE ELSE e.fault)
  <2>1. f.perm = Fresh("AwaitBrake")
    BY RequestAuthorityFields
  <2>2. f.perm.at = "AwaitBrake" /\ f.perm.deferred = NoDecision
    BY <2>1 DEF Fresh
  <2> QED BY <2>2, RequestAuthorityFields
<1>3. Acknowledged(f)
  BY <1>1, <1>2, PermFields DEF Acknowledged
<1>4. Follows(e, f)
  BY <1>2, PermFields, GenAssumption DEF Follows
<1> QED BY <1>1, <1>2, <1>3, <1>4 DEF Good

-----------------------------------------------------------------------------
(* The end of a session, its replacement, a changed vehicle.                *)

\* What every operation but the grant, the receipt and the certification does.
Safe(e, f) == Good(f) /\ Follows(e, f) /\ Frozen(e, f) /\ Kept(e, f)

\* Only fields outside the permission transaction change.
LEMMA AsideSafe ==
  ASSUME NEW e, Good(e), NEW f \in Executor,
         f.perm.at = e.perm.at, f.perm.deferred = e.perm.deferred,
         f.perm.route = e.perm.route, f.perm.lim = e.perm.lim,
         f.gen = e.gen, f.brake = e.brake, f.ack = e.ack, f.still = e.still,
         e.last.id <= f.last.id, e.fault => f.fault
  PROVE  Safe(e, f)
<1>1. e \in Executor
  BY DEF Good
<1>2. Good(f)
  BY <1>1, PermFields DEF Good, Acknowledged
<1>3. Follows(e, f)
  BY <1>1, PermFields DEF Follows, Forward, Rank, Stage
<1>4. Frozen(e, f)
  <2>1. e.perm.lim \in Int
    BY <1>1, PermFields, LimitAssumption DEF Permission
  <2> QED BY <2>1 DEF Frozen
<1> QED BY <1>2, <1>3, <1>4 DEF Safe, Kept, Is

\* Asking again follows what was there: the generation is new.
LEMMA RequestAuthoritySafe ==
  ASSUME NEW e \in Executor, NEW terminal \in BOOLEAN,
         NEW f, f = RequestAuthority(e, terminal)
  PROVE  Safe(e, f)
BY RequestAuthorityGood DEF Safe, Frozen, Kept, Is, Promising

\* An operation that first changes fields aside and then asks again.
LEMMA SafeTrans ==
  ASSUME NEW e, NEW f, NEW g, Good(e), Safe(e, f), Safe(f, g)
  PROVE  Safe(e, g)
<1>1. Good(g) /\ Follows(e, g) /\ Kept(e, g)
  BY FollowsTrans DEF Safe, Good, Kept
<1>2. Frozen(e, g)
  <2>1. /\ e.perm.lim \in Int /\ f.perm.lim \in Int /\ g.perm.lim \in Int
    BY PermFields, LimitAssumption DEF Permission, Safe, Good
  <2> QED BY <2>1 DEF Safe, Frozen, Kept
<1> QED BY <1>1, <1>2 DEF Safe

\* Doing nothing is safe.
LEMMA SafeRefl == ASSUME NEW e, Good(e) PROVE Safe(e, e)
BY AsideSafe, PermFields DEF Good

\* Ending a session (End) is safe, whether or not one is running.
LEMMA EndSafe ==
  ASSUME NEW e, Good(e), NEW outcome \in Outcome, NEW f, f = End(e, outcome)
  PROVE  Safe(e, f) /\ (Active(e) => f.perm.at = "AwaitBrake")
<1>1. CASE ~Active(e)
  BY <1>1, SafeRefl DEF End
<1>2. CASE Active(e)
  <2> DEFINE p  == IF e.result # NoResult THEN e.result ELSE e.previous
             o  == [session |-> e.session, outcome |-> outcome]
             e1 == [e EXCEPT !.previous = p]
             e2 == [e1 EXCEPT !.result = o]
             g  == [e2 EXCEPT !.prog = "Done"]
  <2>1. e \in Executor
    BY DEF Good
  <2>2. p \in Result \cup {NoResult} /\ o \in Result
    BY <2>1 DEF Executor, Result
  <2>3. f = RequestAuthority(g, TRUE)
    BY <1>2 DEF End
  <2>4. g.perm = e.perm /\ g.gen = e.gen /\ g.brake = e.brake /\ g.ack = e.ack
        /\ g.last = e.last /\ g.still = e.still /\ g.fault = e.fault
    BY <2>1 DEF Executor
  <2>5. e.last.id \in Nat
    BY <2>1, PermFields
  <2> HIDE DEF p, o, e1, e2
  <2>6. e1 \in Executor
    BY <2>1, <2>2, PutPrevious DEF e1
  <2>7. e2 \in Executor
    BY <2>6, <2>2, PutResult DEF e2
  <2>8. g \in Executor
    BY <2>7, PutProg DEF Progress
  <2> HIDE DEF g
  <2>9. Safe(e, g)
    BY <2>4, <2>5, <2>8, AsideSafe
  <2>10. Safe(g, f) /\ f.perm.at = "AwaitBrake"
    BY <2>3, <2>8, RequestAuthoritySafe, RequestAuthorityGood
  <2> QED BY <2>9, <2>10, SafeTrans
<1> QED BY <1>1, <1>2

\* Destroying the Run (Finish) is safe: a route in execution is given up first.
LEMMA FinishSafe ==
  ASSUME NEW e, Good(e), NEW f, f = Finish(e)
  PROVE  Safe(e, f)
<1>1. CASE ~e.run
  BY <1>1, SafeRefl DEF Finish
<1>2. CASE e.run
  <2> DEFINE g  == IF Is(e, "Executing") THEN RequestAuthority(e, TRUE) ELSE e
             g1 == [g EXCEPT !.run = FALSE]
             g2 == [g1 EXCEPT !.prog = "Idle"]
             g3 == [g2 EXCEPT !.valid = FALSE]
             g4 == [g3 EXCEPT !.heard = FALSE]
             g5 == [g4 EXCEPT !.due = {}]
  <2>1. Safe(e, g)
    BY RequestAuthoritySafe, SafeRefl DEF Good
  <2>2. f = g5
    BY <1>2 DEF Finish
  <2> HIDE DEF g
  <2>3. g \in Executor /\ Good(g) /\ g.last.id \in Nat
    BY <2>1, PermFields DEF Safe, Good
  <2>4. /\ g5.perm = g.perm /\ g5.gen = g.gen /\ g5.brake = g.brake /\ g5.ack = g.ack
        /\ g5.last = g.last /\ g5.still = g.still /\ g5.fault = g.fault
    BY <2>3 DEF Executor
  <2> HIDE DEF g1, g2, g3, g4
  <2>5. g1 \in Executor
    BY <2>3, PutRun DEF g1
  <2>6. g2 \in Executor
    BY <2>5, PutProg DEF g2, Progress
  <2>7. g3 \in Executor
    BY <2>6, PutValid DEF g3
  <2>8. g4 \in Executor
    BY <2>7, PutHeard DEF g4
  <2>9. g5 \in Executor
    BY <2>8, PutDue
  <2> HIDE DEF g5
  <2>10. Safe(g, g5)
    BY <2>3, <2>4, <2>9, AsideSafe
  <2> QED BY <2>1, <2>2, <2>10, SafeTrans
<1> QED BY <1>1, <1>2

\* A new Run, over a running one or none, begins a new transaction.
LEMMA InstallSafe ==
  ASSUME NEW e, Good(e), NEW session \in Nat, NEW valid \in BOOLEAN,
         NEW f, f = Install(e, session, valid)
  PROVE  Safe(e, f) /\ f.perm.at = "AwaitBrake"
<1> DEFINE a  == End(e, "Stopped")
           b  == Finish(a)
           b1 == [b EXCEPT !.run = TRUE]
           b2 == [b1 EXCEPT !.session = session]
           b3 == [b2 EXCEPT !.valid = valid]
<1>1. f = RequestAuthority(b3, FALSE)
  BY DEF Install
<1>2. Safe(e, a)
  BY EndSafe DEF Outcome
<1> HIDE DEF a
<1>3. Safe(a, b)
  BY <1>2, FinishSafe DEF Safe
<1> HIDE DEF b
<1>4. b \in Executor /\ Good(b) /\ b.last.id \in Nat
  BY <1>3, PermFields DEF Safe, Good
<1>5. /\ b3.perm = b.perm /\ b3.gen = b.gen /\ b3.brake = b.brake /\ b3.ack = b.ack
      /\ b3.last = b.last /\ b3.still = b.still /\ b3.fault = b.fault
  BY <1>4 DEF Executor
<1> HIDE DEF b1, b2
<1>6. b1 \in Executor
  BY <1>4, PutRun DEF b1
<1>7. b2 \in Executor
  BY <1>6, PutSession DEF b2
<1>8. b3 \in Executor
  BY <1>7, PutValid
<1> HIDE DEF b3
<1>9. Safe(b, b3)
  BY <1>4, <1>5, <1>8, AsideSafe
<1>10. Safe(b3, f) /\ f.perm.at = "AwaitBrake"
  BY <1>1, <1>8, RequestAuthoritySafe, RequestAuthorityGood
<1>11. Safe(e, b)
  BY <1>2, <1>3, SafeTrans
<1>12. Safe(e, b3)
  BY <1>9, <1>11, SafeTrans
<1> QED BY <1>10, <1>12, SafeTrans

\* A changed vehicle description asks again unless nothing is asked.
LEMMA SetSpecSafe ==
  ASSUME NEW e, Good(e), NEW f, f = SetSpec(e)
  PROVE  Safe(e, f)
<1>1. e \in Executor
  BY DEF Good
<1>2. (~Active(e)) \in BOOLEAN
  OBVIOUS
<1> QED BY <1>1, <1>2, SafeRefl, RequestAuthoritySafe DEF SetSpec

\* Handing out a Result changes nothing of the transaction.
LEMMA CommitResultSafe ==
  ASSUME NEW e, Good(e), NEW f, f = CommitResult(e)
  PROVE  Safe(e, f)
<1>1. e \in Executor /\ e.last.id \in Nat
  BY PermFields DEF Good
<1>2. f \in Executor
  BY <1>1, PutPrevious, PutResult DEF CommitResult
<1>3. /\ f.perm = e.perm /\ f.gen = e.gen /\ f.brake = e.brake /\ f.ack = e.ack
      /\ f.last = e.last /\ f.still = e.still /\ f.fault = e.fault
  BY <1>1 DEF CommitResult, Executor
<1> QED BY <1>1, <1>2, <1>3, AsideSafe

\* Publishing the Session changes nothing but, at the end of the counter, the fault.
LEMMA MarkPublishedSafe ==
  ASSUME NEW e, Good(e), NEW exhausted \in BOOLEAN, NEW f, f = MarkPublished(e, exhausted)
  PROVE  Safe(e, f)
<1>1. e \in Executor /\ e.last.id \in Nat
  BY PermFields DEF Good
<1>2. (e.fault \/ exhausted) \in BOOLEAN
  OBVIOUS
<1>3. f \in Executor
  BY <1>1, <1>2, PutFault DEF MarkPublished
<1>4. /\ f.perm = e.perm /\ f.gen = e.gen /\ f.brake = e.brake /\ f.ack = e.ack
      /\ f.last = e.last /\ f.still = e.still
  BY <1>1 DEF MarkPublished, Executor
<1>5. e.fault => f.fault
  BY <1>1 DEF MarkPublished, Executor
<1> QED BY <1>1, <1>3, <1>4, <1>5, AsideSafe

\* Time passes.
LEMMA ElapseSafe ==
  ASSUME NEW e, Good(e), NEW due \in SUBSET Deadline
  PROVE  Safe(e, [e EXCEPT !.due = due])
<1> DEFINE f == [e EXCEPT !.due = due]
<1>1. e \in Executor /\ e.last.id \in Nat
  BY PermFields DEF Good
<1>2. f \in Executor
  BY <1>1, PutDue
<1>3. /\ f.perm = e.perm /\ f.gen = e.gen /\ f.brake = e.brake /\ f.ack = e.ack
      /\ f.last = e.last /\ f.still = e.still /\ f.fault = e.fault
  BY <1>1 DEF Executor
<1> HIDE DEF f
<1>4. Safe(e, f)
  BY <1>1, <1>2, <1>3, AsideSafe
<1> QED BY <1>4 DEF f

-----------------------------------------------------------------------------
(* Observations, receipts and the clock.                                    *)

\* A clock that jumps back takes the certificate away and no more.
LEMMA ClockWentBackSafe ==
  ASSUME NEW e, Good(e), NEW f, f = ClockWentBack(e)
  PROVE  Safe(e, f)
<1> DEFINE p  == [e.perm EXCEPT !.certified = IF Is(e, "AwaitGo") THEN FALSE ELSE e.perm.certified]
           e1 == [e EXCEPT !.clockBad = TRUE]
           e2 == [e1 EXCEPT !.perm = p]
<1>1. e \in Executor /\ e.last.id \in Nat /\ e.perm \in Permission
  BY PermFields DEF Good
<1>2. /\ p \in Permission /\ p.at = e.perm.at /\ p.deferred = e.perm.deferred
      /\ p.route = e.perm.route /\ p.lim = e.perm.lim
  <2>1. (IF Is(e, "AwaitGo") THEN FALSE ELSE e.perm.certified) \in BOOLEAN
    BY <1>1 DEF Permission
  <2> QED BY <1>1, <2>1 DEF Permission
<1> HIDE DEF p
<1>3. f = e2
  BY <1>1 DEF ClockWentBack, Executor, p
<1>4. /\ e2.perm = p /\ e2.gen = e.gen /\ e2.brake = e.brake /\ e2.ack = e.ack
      /\ e2.last = e.last /\ e2.still = e.still /\ e2.fault = e.fault
  BY <1>1 DEF Executor
<1> HIDE DEF e1
<1>5. e1 \in Executor
  BY <1>1, PutClockBad DEF e1
<1>6. e2 \in Executor
  BY <1>2, <1>5, PutPerm
<1> HIDE DEF e2
<1>7. Safe(e, e2)
  BY <1>1, <1>2, <1>4, <1>6, AsideSafe
<1> QED BY <1>3, <1>7

\* An operation that does not enter or leave a stage, but may renew the estimate.
Steady(e, f) ==
  /\ Good(f) /\ Follows(e, f) /\ Frozen(e, f)
  /\ f.perm.at = e.perm.at /\ f.gen = e.gen /\ f.brake = e.brake

\* A pose changes the estimate and no more.
LEMMA ObserveSteady ==
  ASSUME NEW e, Good(e), NEW trusted \in BOOLEAN, NEW still \in BOOLEAN,
         NEW f, f = Observe(e, trusted, still)
  PROVE  Steady(e, f) /\ f.perm = e.perm /\ (f.still => still)
<1> DEFINE v == /\ e.perm.at \notin {"AwaitBrake", "AwaitZero"}
                /\ e.perm.at \in {"AwaitStopped", "AwaitGo"} => trusted /\ ~e.clockBad
                /\ still
           g == [e EXCEPT !.still = v]
<1>1. e \in Executor /\ e.last.id \in Nat /\ e.perm.lim \in Int
  BY PermFields, LimitAssumption DEF Good, Permission
<1>2. f = g
  BY DEF Observe
<1>3. v \in BOOLEAN /\ (v => still)
  OBVIOUS
<1> HIDE DEF v
<1>4. g \in Executor
  BY <1>1, <1>3, PutStill
<1>5. /\ g.perm = e.perm /\ g.gen = e.gen /\ g.brake = e.brake /\ g.ack = e.ack
      /\ g.last = e.last /\ g.fault = e.fault /\ g.still = v
  BY <1>1 DEF Executor
<1> HIDE DEF g
<1>6. Acknowledged(g)
  BY <1>5 DEF Good, Acknowledged
<1>7. Follows(e, g)
  BY <1>1, <1>5, PermFields DEF Follows, Forward, Rank, Stage
<1>8. Frozen(e, g)
  BY <1>1, <1>5 DEF Frozen
<1> QED BY <1>2, <1>3, <1>4, <1>5, <1>6, <1>7, <1>8 DEF Steady, Good

\* The receipt of a zero moves AwaitZero, and nothing else, to AwaitStopped.
LEMMA OnZeroPublishedGood ==
  ASSUME NEW e, Good(e), NEW gen \in Nat, NEW brake \in Nat, gen # 0, brake # 0,
         NEW f, f = OnZeroPublished(e, gen, brake)
  PROVE  /\ Good(f) /\ Follows(e, f) /\ Frozen(e, f)
         /\ \/ f = e
            \/ /\ e.perm.at = "AwaitZero" /\ gen = e.gen /\ brake = e.brake
               /\ f.perm.at = "AwaitStopped" /\ ~f.still /\ f.gen = e.gen
               /\ f.brake = e.brake /\ f.ack = e.ack
<1> DEFINE e1 == [e EXCEPT !.perm = Fresh("AwaitStopped")]
           e2 == [e1 EXCEPT !.still = FALSE]
<1>1. e \in Executor /\ Acknowledged(e)
  BY DEF Good
<1>2. CASE f = e
  BY <1>2, SafeRefl DEF Safe
<1>3. CASE f # e
  <2>1. /\ e.perm.at = "AwaitZero" /\ ~e.fault /\ gen = e.gen /\ brake = e.brake
        /\ f = e2
    BY <1>3 DEF OnZeroPublished, Is
  <2>2. /\ e2.perm = Fresh("AwaitStopped") /\ e2.gen = e.gen /\ e2.brake = e.brake
        /\ e2.ack = e.ack /\ e2.last = e.last /\ e2.fault = e.fault /\ e2.still = FALSE
    BY <1>1 DEF Executor
  <2>3. e2.perm.at = "AwaitStopped" /\ e2.perm.deferred = NoDecision
    BY <2>2 DEF Fresh
  <2> HIDE DEF e1
  <2>4. e1 \in Executor
    BY <1>1, FreshType, PutPerm DEF e1, Stage
  <2>5. e2 \in Executor
    BY <2>4, PutStill
  <2> HIDE DEF e2
  <2>6. Acknowledged(e2)
    BY <1>1, <2>1, <2>2, <2>3 DEF Acknowledged
  <2>7. Follows(e, e2) /\ Frozen(e, e2)
    BY <1>1, <2>1, <2>2, <2>3, PermFields DEF Follows, Forward, Rank, Frozen, Is
  <2> QED BY <2>1, <2>2, <2>3, <2>5, <2>6, <2>7 DEF Good
<1> QED BY <1>2, <1>3

-----------------------------------------------------------------------------
(* Grants.                                                                  *)

\* The state after the envelope of a grant has been accepted.
Received(e, g) ==
  [e EXCEPT !.seqIn = g.seq, !.last = g.d, !.heard = @ \/ e.run,
            !.due = @ \ {"coordinator"}]

\* Recording that a decision was received changes nothing of the transaction.
LEMMA ReceivedSafe ==
  ASSUME NEW e, Good(e), NEW g \in Grant, e.last.id <= g.d.id,
         NEW h, h = Received(e, g)
  PROVE  /\ Safe(e, h) /\ h.last = g.d /\ h.perm = e.perm /\ h.gen = e.gen
         /\ h.brake = e.brake /\ h.ack = e.ack /\ h.fault = e.fault
         /\ h.run = e.run /\ h.prog = e.prog
<1> DEFINE e1 == [e EXCEPT !.seqIn = g.seq]
           e2 == [e1 EXCEPT !.last = g.d]
           e3 == [e2 EXCEPT !.heard = e.heard \/ e.run]
           e4 == [e3 EXCEPT !.due = e.due \ {"coordinator"}]
<1>1. /\ e \in Executor /\ e.last.id \in Nat
      /\ (e.heard \/ e.run) \in BOOLEAN /\ e.due \ {"coordinator"} \in SUBSET Deadline
  BY PermFields DEF Good, Executor
<1>2. g.seq \in Int /\ g.d \in Decision
  BY DEF Grant
<1>3. h = e4
  BY DEF Received
<1>4. /\ e4.perm = e.perm /\ e4.gen = e.gen /\ e4.brake = e.brake /\ e4.ack = e.ack
      /\ e4.last = g.d /\ e4.still = e.still /\ e4.fault = e.fault
      /\ e4.run = e.run /\ e4.prog = e.prog
  BY <1>1 DEF Executor
<1> HIDE DEF e1, e2, e3
<1>5. e1 \in Executor
  BY <1>1, <1>2, PutSeqIn DEF e1
<1>6. e2 \in Executor
  BY <1>2, <1>5, PutLast DEF e2
<1>7. e3 \in Executor
  BY <1>1, <1>6, PutHeard DEF e3
<1>8. e4 \in Executor
  BY <1>1, <1>7, PutDue
<1> HIDE DEF e4
<1>9. Safe(e, e4)
  BY <1>1, <1>4, <1>8, AsideSafe
<1> QED BY <1>3, <1>4, <1>9

\* A brake is answered once, by an executor that has just asked; another asks again.
LEMMA OnBrakeGood ==
  ASSUME NEW e, Good(e), NEW d \in Decision, e.last = d, ~e.fault,
         NEW f, f = OnBrake(e, d)
  PROVE  \/ Safe(e, f)
         \/ /\ Good(f) /\ Follows(e, f) /\ Frozen(e, f)
            /\ e.perm.at = "AwaitBrake" /\ f.perm.at = "AwaitZero" /\ f.gen = e.gen
<1>1. e \in Executor /\ d.id \in Nat /\ d.id > 0
  BY LastFields DEF Good
<1>2. CASE Is(e, "AwaitBrake")
  <2> DEFINE e1 == [e EXCEPT !.brake = d.id]
             e2 == [e1 EXCEPT !.ack = d.id]
             e3 == [e2 EXCEPT !.perm = Fresh("AwaitZero")]
  <2>1. f = e3
    BY <1>2 DEF OnBrake
  <2>2. /\ e3.perm = Fresh("AwaitZero") /\ e3.gen = e.gen /\ e3.brake = d.id /\ e3.ack = d.id
        /\ e3.last = d /\ e3.fault = e.fault
    BY <1>1 DEF Executor
  <2>3. e3.perm.at = "AwaitZero" /\ e3.perm.deferred = NoDecision
    BY <2>2 DEF Fresh
  <2> HIDE DEF e1, e2
  <2>4. e1 \in Executor
    BY <1>1, PutBrake DEF e1
  <2>5. e2 \in Executor
    BY <1>1, <2>4, PutAck DEF e2
  <2>6. e3 \in Executor
    BY <2>5, FreshType, PutPerm DEF Stage
  <2> HIDE DEF e3
  <2>7. Acknowledged(e3)
    BY <1>1, <2>2, <2>3 DEF Acknowledged
  <2>8. Follows(e, e3) /\ Frozen(e, e3)
    BY <1>1, <1>2, <2>2, <2>3, PermFields DEF Follows, Forward, Rank, Frozen, Is
  <2> QED BY <1>2, <2>1, <2>2, <2>3, <2>6, <2>7, <2>8 DEF Good, Is
<1>3. CASE ~Is(e, "AwaitBrake")
  <2>1. (~Active(e)) \in BOOLEAN
    OBVIOUS
  <2> QED BY <1>1, <1>3, <2>1, SafeRefl, RequestAuthoritySafe DEF OnBrake
<1> QED BY <1>2, <1>3

\* A GO extends the route in execution, or waits beside a certified stop.
LEMMA OnGoSafe ==
  ASSUME NEW e, Good(e), NEW d \in Decision, e.last = d, d.id > e.brake,
         IF Is(e, "Executing") THEN d.lim >= e.perm.lim ELSE Is(e, "AwaitGo"),
         NEW f, f = OnGo(e, d)
  PROVE  Safe(e, f)
<1> DEFINE p  == IF Is(e, "Executing") THEN [e.perm EXCEPT !.lim = d.lim]
                                       ELSE [e.perm EXCEPT !.deferred = d]
           a  == IF Is(e, "Executing") THEN d.id ELSE e.ack
           e1 == [e EXCEPT !.due = e.due \ {"ttl"}]
           e2 == [e1 EXCEPT !.ack = a]
           e3 == [e2 EXCEPT !.perm = p]
<1>1. /\ e \in Executor /\ Acknowledged(e) /\ e.perm \in Permission
      /\ d.id \in Nat /\ d.id > 0 /\ d.lim \in 0..MaxLimit
      /\ e.due \ {"ttl"} \in SUBSET Deadline /\ e.ack \in Nat /\ e.brake \in Nat
  BY LastFields, PermFields DEF Good, Executor
<1>2. /\ p \in Permission /\ p.at = e.perm.at /\ p.route = e.perm.route
      /\ Is(e, "Executing") => p.lim = d.lim /\ p.deferred = e.perm.deferred
      /\ ~Is(e, "Executing") => p.lim = e.perm.lim /\ p.deferred = d
  BY <1>1 DEF Permission
<1> HIDE DEF p
<1>3. f = e3
  <2>1. CASE Is(e, "Executing")
    BY <1>1, <2>1 DEF OnGo, Executor, p
  <2>2. CASE ~Is(e, "Executing")
    BY <1>1, <2>2 DEF OnGo, Executor, p
  <2> QED BY <2>1, <2>2
<1>4. a \in Nat
  BY <1>1
<1>5. /\ e3.perm = p /\ e3.gen = e.gen /\ e3.brake = e.brake /\ e3.ack = a
      /\ e3.last = d /\ e3.still = e.still /\ e3.fault = e.fault
  BY <1>1 DEF Executor
<1> HIDE DEF e1, e2
<1>6. e1 \in Executor
  BY <1>1, PutDue DEF e1
<1>7. e2 \in Executor
  BY <1>4, <1>6, PutAck DEF e2
<1>8. e3 \in Executor
  BY <1>2, <1>7, PutPerm
<1> HIDE DEF e3
<1>9. Acknowledged(e3)
  BY <1>1, <1>2, <1>5 DEF Acknowledged, Is
<1>10. Follows(e, e3)
  BY <1>1, <1>2, <1>5, PermFields DEF Follows, Forward, Rank, Stage
<1>11. Frozen(e, e3) /\ Kept(e, e3)
  BY <1>2, <1>5 DEF Frozen, Kept, Is
<1> QED BY <1>3, <1>8, <1>9, <1>10, <1>11 DEF Safe, Good

\* The terminal hold retires a certified stop that nothing wants to use.
LEMMA OnHoldSafe ==
  ASSUME NEW e, Good(e), NEW d \in Decision, e.last = d, ~e.fault,
         Is(e, "AwaitGo") => d.id > e.brake,
         NEW f, f = OnHold(e, d)
  PROVE  Safe(e, f)
<1>1. e \in Executor /\ d.id \in Nat
  BY LastFields DEF Good
<1>2. CASE ~(~Active(e) /\ Is(e, "AwaitGo"))
  BY <1>2, SafeRefl DEF OnHold
<1>3. CASE ~Active(e) /\ Is(e, "AwaitGo")
  <2> DEFINE e1 == [e EXCEPT !.ack = d.id]
             e2 == [e1 EXCEPT !.perm = Fresh("Complete")]
  <2>1. f = e2
    BY <1>3 DEF OnHold
  <2>2. /\ e2.perm = Fresh("Complete") /\ e2.gen = e.gen /\ e2.brake = e.brake /\ e2.ack = d.id
        /\ e2.last = d /\ e2.fault = e.fault
    BY <1>1 DEF Executor
  <2>3. e2.perm.at = "Complete" /\ e2.perm.deferred = NoDecision
    BY <2>2 DEF Fresh
  <2> HIDE DEF e1
  <2>4. e1 \in Executor
    BY <1>1, PutAck DEF e1
  <2>5. e2 \in Executor
    BY <2>4, FreshType, PutPerm DEF Stage
  <2> HIDE DEF e2
  <2>6. Acknowledged(e2)
    BY <1>1, <1>3, <2>2, <2>3, PermFields DEF Good, Acknowledged, Is
  <2>7. Follows(e, e2) /\ Frozen(e, e2) /\ Kept(e, e2)
    BY <1>1, <1>3, <2>2, <2>3, PermFields
    DEF Follows, Forward, Rank, Frozen, Kept, Promising, Is
  <2> QED BY <2>1, <2>5, <2>6, <2>7 DEF Safe, Good
<1> QED BY <1>2, <1>3

\* Whatever the station sends, however late and in whatever order.
LEMMA OnGrantGood ==
  ASSUME NEW e, Good(e), NEW g \in Grant, NEW f, f = OnGrant(e, g)
  PROVE  \/ Safe(e, f)
         \/ /\ Good(f) /\ Follows(e, f) /\ Frozen(e, f)
            /\ ~e.fault /\ e.perm.at = "AwaitBrake"
            /\ f.perm.at = "AwaitZero" /\ f.gen = e.gen
<1>1. CASE ~(Answers(e, g) /\ Admits(e, g.d))
  BY <1>1, SafeRefl DEF OnGrant
<1>2. CASE Answers(e, g) /\ Admits(e, g.d)
  <2> DEFINE h == Received(e, g)
             d == g.d
  <2>1. /\ d \in Decision /\ d.id >= e.last.id /\ ~e.fault
    BY <1>2 DEF Answers, Grant
  <2>2. /\ e \in Executor /\ e.last.id \in Nat /\ d.id \in Nat /\ d.st \in GrantState
        /\ e.ack \in Nat /\ e.brake \in Nat /\ Acknowledged(e)
    BY <2>1, LastFields, PermFields DEF Good
  <2>3. /\ Safe(e, h) /\ h.last = d /\ h.perm = e.perm /\ h.gen = e.gen
        /\ h.brake = e.brake /\ h.ack = e.ack /\ h.fault = e.fault
        /\ h.run = e.run /\ h.prog = e.prog
    BY <2>1, <2>2, ReceivedSafe
  <2>4. /\ d.st = "Brake"  => f = OnBrake(h, d)
        /\ d.st = "Go"     => f = OnGo(h, d)
        /\ d.st = "Hold"   => f = OnHold(h, d)
        /\ d.st = "Reject" => f = OnReject(h, d)
    BY <1>2 DEF OnGrant, Received
  <2> HIDE DEF h
  <2>5. Good(h)
    BY <2>3 DEF Safe
  <2>6. CASE d.st = "Brake"
    <3>1. \/ Safe(h, f)
          \/ /\ Good(f) /\ Follows(h, f) /\ Frozen(h, f)
             /\ h.perm.at = "AwaitBrake" /\ f.perm.at = "AwaitZero" /\ f.gen = h.gen
      BY <2>1, <2>3, <2>4, <2>5, <2>6, OnBrakeGood
    <3>2. CASE Safe(h, f)
      BY <2>3, <3>2, SafeTrans
    <3>3. CASE /\ Good(f) /\ Follows(h, f) /\ Frozen(h, f)
               /\ h.perm.at = "AwaitBrake" /\ f.perm.at = "AwaitZero" /\ f.gen = h.gen
      <4>1. Follows(e, f)
        BY <2>2, <2>3, <2>5, <3>3, FollowsTrans DEF Safe, Good
      <4>2. Frozen(e, f)
        BY <2>3, <3>3 DEF Frozen, Is
      <4> QED BY <2>1, <2>3, <3>3, <4>1, <4>2
    <3> QED BY <3>1, <3>2, <3>3
  <2>7. CASE d.st = "Go"
    <3>1. IF Is(h, "Executing") THEN d.lim >= h.perm.lim ELSE Is(h, "AwaitGo")
      BY <1>2, <2>3, <2>7 DEF Admits, StopCertified, Is
    <3>2. Is(h, "Executing") => d.id > h.brake
      BY <2>1, <2>2, <2>3 DEF Acknowledged, Is
    <3>3. ~Is(h, "Executing") => d.id > h.brake
      BY <1>2, <2>3, <2>7, <3>1 DEF Admits, Is
    <3>4. Safe(h, f)
      BY <2>1, <2>3, <2>4, <2>5, <2>7, <3>1, <3>2, <3>3, OnGoSafe
    <3> QED BY <2>3, <3>4, SafeTrans
  <2>8. CASE d.st = "Hold"
    <3>1. Is(h, "AwaitGo") => d.id > h.brake
      BY <1>2, <2>3, <2>8 DEF Admits, StopCertified, Is
    <3>2. Safe(h, f)
      BY <2>1, <2>3, <2>4, <2>5, <2>8, <3>1, OnHoldSafe
    <3> QED BY <2>3, <3>2, SafeTrans
  <2>9. CASE d.st = "Reject"
    <3>1. Safe(h, f)
      BY <2>4, <2>5, <2>9, EndSafe DEF OnReject, Outcome
    <3> QED BY <2>3, <3>1, SafeTrans
  <2> QED BY <2>2, <2>6, <2>7, <2>8, <2>9 DEF GrantState
<1> QED BY <1>1, <1>2

-----------------------------------------------------------------------------
(* The control turn.                                                        *)

\* What a turn does before its decisions: it certifies a stop, and takes up a GO.
Polled(e, f) ==
  /\ Good(f) /\ Follows(e, f) /\ Frozen(e, f)
  /\ f.gen = e.gen /\ f.brake = e.brake /\ f.still = e.still /\ f.fault = e.fault
  /\ f.perm.at = "AwaitZero" => e.perm.at = "AwaitZero"
  /\ f.perm.at = "AwaitStopped" => e.perm.at = "AwaitStopped"
  /\ f.perm.at = "AwaitGo" =>
       e.perm.at = "AwaitGo" \/ (e.perm.at = "AwaitStopped" /\ e.still)
  /\ e.perm.at \in {"None", "AwaitBrake", "Executing"} => f.perm.at = e.perm.at

\* Only the owned fields of the permission change, and not the stage.
LEMMA PermAside ==
  ASSUME NEW e, Good(e), NEW p \in Permission,
         p.at = e.perm.at, p.deferred = e.perm.deferred,
         p.route = e.perm.route, p.lim = e.perm.lim,
         NEW f, f = [e EXCEPT !.perm = p]
  PROVE  /\ Safe(e, f) /\ f.gen = e.gen /\ f.brake = e.brake /\ f.still = e.still
         /\ f.fault = e.fault /\ f.perm = p /\ f.run = e.run /\ f.prog = e.prog
<1> DEFINE g == [e EXCEPT !.perm = p]
<1>1. e \in Executor /\ e.last.id \in Nat
  BY PermFields DEF Good
<1>2. g \in Executor
  BY <1>1, PutPerm
<1>3. /\ g.perm = p /\ g.gen = e.gen /\ g.brake = e.brake /\ g.ack = e.ack
      /\ g.last = e.last /\ g.still = e.still /\ g.fault = e.fault
      /\ g.run = e.run /\ g.prog = e.prog
  BY <1>1 DEF Executor
<1>4. f = g
  OBVIOUS
<1> HIDE DEF g
<1>5. Safe(e, g)
  BY <1>1, <1>2, <1>3, AsideSafe
<1> QED BY <1>3, <1>4, <1>5

\* What is safe is also what a poll may do.
LEMMA SafePolled ==
  ASSUME NEW e, NEW f, Good(e), Safe(e, f), f.gen = e.gen, f.brake = e.brake,
         f.still = e.still, f.fault = e.fault, f.perm.at = e.perm.at
  PROVE  Polled(e, f)
BY DEF Safe, Polled

\* A certificate is given in AwaitStopped or AwaitGo, on evidence of rest.
LEMMA CertifyPolled ==
  ASSUME NEW e, Good(e), ~e.fault, NEW m, NEW f, f = Certify(e, m)
  PROVE  Polled(e, f)
<1>1. e \in Executor /\ Acknowledged(e) /\ e.perm \in Permission /\ e.last.id \in Nat
  BY PermFields DEF Good
<1>2. CausalStopped(e, m) \in BOOLEAN /\ (CausalStopped(e, m) => e.still)
  BY DEF CausalStopped, Stopped
<1>3. CASE Is(e, "AwaitStopped") /\ CausalStopped(e, m)
  <2> DEFINE p  == [Fresh("AwaitGo") EXCEPT !.certified = TRUE]
             e1 == [e EXCEPT !.perm = p]
  <2>1. f = e1
    BY <1>3 DEF Certify, Is
  <2>2. p \in Permission /\ p.at = "AwaitGo" /\ p.deferred = NoDecision
    BY FreshType DEF Permission, Fresh, Stage
  <2> HIDE DEF p
  <2>3. /\ e1.perm = p /\ e1.gen = e.gen /\ e1.brake = e.brake /\ e1.ack = e.ack
        /\ e1.last = e.last /\ e1.fault = e.fault /\ e1.still = e.still
    BY <1>1 DEF Executor
  <2>4. e1 \in Executor
    BY <1>1, <2>2, PutPerm
  <2> HIDE DEF e1
  <2>5. Acknowledged(e1)
    BY <1>1, <1>3, <2>2, <2>3 DEF Acknowledged, Is
  <2>6. Follows(e, e1) /\ Frozen(e, e1)
    BY <1>1, <1>3, <2>2, <2>3, PermFields DEF Follows, Forward, Rank, Frozen, Is
  <2> QED BY <1>2, <1>3, <2>1, <2>2, <2>3, <2>4, <2>5, <2>6 DEF Polled, Good, Is
<1>4. CASE Is(e, "AwaitGo")
  <2> DEFINE p == [e.perm EXCEPT !.certified = CausalStopped(e, m)]
  <2>1. f = [e EXCEPT !.perm = p]
    BY <1>4 DEF Certify, Is
  <2>2. /\ p \in Permission /\ p.at = e.perm.at /\ p.deferred = e.perm.deferred
        /\ p.route = e.perm.route /\ p.lim = e.perm.lim
    BY <1>1, <1>2 DEF Permission
  <2> HIDE DEF p
  <2> QED BY <2>1, <2>2, PermAside, SafePolled
<1>5. CASE ~(Is(e, "AwaitStopped") /\ CausalStopped(e, m)) /\ ~Is(e, "AwaitGo")
  <2>1. f = e
    BY <1>5 DEF Certify
  <2> QED BY <2>1, SafeRefl, SafePolled
<1> QED BY <1>3, <1>4, <1>5

\* A deferred GO is taken up from a certified stop, under its own number.
LEMMA StartGood ==
  ASSUME NEW e, Good(e), ~e.fault, Is(e, "AwaitGo"), e.perm.deferred # NoDecision,
         NEW f, f = Start(e)
  PROVE  /\ Good(f) /\ Follows(e, f) /\ Frozen(e, f) /\ f.perm.at = "Executing"
         /\ f.gen = e.gen /\ f.brake = e.brake /\ f.still = e.still /\ f.fault = e.fault
<1> DEFINE go == e.perm.deferred
           p1 == [Fresh("Executing") EXCEPT !.route = go.route]
           p2 == [p1 EXCEPT !.lim = go.lim]
           e1 == [e EXCEPT !.perm = p2]
           e2 == [e1 EXCEPT !.ack = go.id]
           e3 == [e2 EXCEPT !.prog = "Waiting"]
<1>1. /\ e \in Executor /\ Acknowledged(e) /\ e.perm \in Permission
      /\ go.id \in Nat /\ go.lim \in 0..MaxLimit /\ go.route \in Route \cup {NoRoute}
      /\ e.brake \in Nat /\ e.last.id \in Nat
  BY LastFields, PermFields DEF Good
<1>2. go.id > e.brake /\ go.id <= e.last.id /\ e.brake > 0
  BY <1>1 DEF Acknowledged, Is
<1>3. f = e3
  BY DEF Start
<1> HIDE DEF go
<1>4. p2 \in Permission /\ p2.at = "Executing" /\ p2.deferred = NoDecision
  <2>1. p1 \in Permission /\ p1.at = "Executing" /\ p1.deferred = NoDecision
    BY <1>1, FreshType DEF Permission, Fresh, Stage
  <2> QED BY <1>1, <2>1 DEF Permission
<1> HIDE DEF p1, p2
<1>5. /\ e3.perm = p2 /\ e3.gen = e.gen /\ e3.brake = e.brake /\ e3.ack = go.id
      /\ e3.last = e.last /\ e3.fault = e.fault /\ e3.still = e.still
  BY <1>1 DEF Executor
<1> HIDE DEF e1, e2
<1>6. e1 \in Executor
  BY <1>1, <1>4, PutPerm DEF e1
<1>7. e2 \in Executor
  BY <1>1, <1>6, PutAck DEF e2
<1>8. e3 \in Executor
  BY <1>7, PutProg DEF Progress
<1> HIDE DEF e3
<1>9. Acknowledged(e3)
  BY <1>2, <1>4, <1>5 DEF Acknowledged
<1>10. Follows(e, e3) /\ Frozen(e, e3)
  BY <1>1, <1>4, <1>5, PermFields DEF Follows, Forward, Rank, Frozen, Is
<1> QED BY <1>3, <1>4, <1>5, <1>8, <1>9, <1>10 DEF Good

\* A faulted executor commands zero.
LEMMA ZeroSafe ==
  ASSUME NEW e, Good(e), NEW cmd \in Twist, NEW f, f = [e EXCEPT !.perm.cmd = cmd]
  PROVE  /\ Safe(e, f) /\ f.gen = e.gen /\ f.brake = e.brake /\ f.still = e.still
         /\ f.fault = e.fault /\ f.perm.at = e.perm.at /\ f.run = e.run /\ f.prog = e.prog
<1> DEFINE p == [e.perm EXCEPT !.cmd = cmd]
<1>1. e \in Executor /\ e.perm \in Permission
  BY PermFields DEF Good
<1> DEFINE g == [e EXCEPT !.perm = p]
<1>2. f = g
  OBVIOUS
<1>3. /\ p \in Permission /\ p.at = e.perm.at /\ p.deferred = e.perm.deferred
      /\ p.route = e.perm.route /\ p.lim = e.perm.lim
  BY <1>1 DEF Permission
<1> HIDE DEF p
<1>4. /\ Safe(e, g) /\ g.gen = e.gen /\ g.brake = e.brake /\ g.still = e.still
      /\ g.fault = e.fault /\ g.perm = p /\ g.run = e.run /\ g.prog = e.prog
  BY <1>3, PermAside
<1> HIDE DEF g
<1> QED BY <1>2, <1>3, <1>4

\* A poll certifies, starts, or stands still.
LEMMA PollPolled ==
  ASSUME NEW e, Good(e), NEW m, NEW f, f = Poll(e, m)
  PROVE  Polled(e, f)
<1>1. CASE e.fault
  <2>1. f = [e EXCEPT !.perm.cmd = "zero"]
    BY <1>1 DEF Poll
  <2> QED BY <2>1, ZeroSafe, SafePolled DEF Twist
<1>2. CASE ~e.fault
  <2> DEFINE c == Certify(e, m)
  <2>1. Polled(e, c)
    BY <1>2, CertifyPolled
  <2>2. f = c \/ (f = Start(c) /\ Is(c, "AwaitGo") /\ c.perm.deferred # NoDecision)
    BY <1>2 DEF Poll, StopCertified
  <2> HIDE DEF c
  <2>3. CASE f = c
    BY <2>1, <2>3
  <2>4. CASE f = Start(c) /\ Is(c, "AwaitGo") /\ c.perm.deferred # NoDecision
    <3>1. Good(c) /\ ~c.fault /\ c.gen = e.gen /\ c.brake = e.brake /\ c.still = e.still
          /\ c.fault = e.fault
      BY <1>2, <2>1 DEF Polled
    <3>2. /\ Good(f) /\ Follows(c, f) /\ Frozen(c, f) /\ f.perm.at = "Executing"
          /\ f.gen = c.gen /\ f.brake = c.brake /\ f.still = c.still /\ f.fault = c.fault
      BY <2>4, <3>1, StartGood
    <3>3. Follows(e, f)
      BY <2>1, <3>1, <3>2, FollowsTrans DEF Polled, Good
    <3>4. ~Is(e, "Executing") /\ e.perm.at \notin {"None", "AwaitBrake"}
      BY <2>1, <2>4 DEF Polled, Is
    <3> QED BY <3>1, <3>2, <3>3, <3>4 DEF Polled, Frozen
  <2> QED BY <2>2, <2>3, <2>4
<1> QED BY <1>1, <1>2

\* Waiting for the station changes the reported progress only.
LEMMA HeldSafe ==
  ASSUME NEW e, Good(e), NEW f, f = Held(e)
  PROVE  Safe(e, f)
<1> DEFINE q == IF PermissionPending(e) \/ e.prog = "Requesting" THEN "Requesting" ELSE "Waiting"
           g == [e EXCEPT !.prog = q]
<1>1. e \in Executor /\ e.last.id \in Nat /\ q \in Progress
  BY PermFields DEF Good, Progress
<1>2. f = g
  BY DEF Held
<1> HIDE DEF q
<1>3. /\ g.perm = e.perm /\ g.gen = e.gen /\ g.brake = e.brake /\ g.ack = e.ack
      /\ g.last = e.last /\ g.still = e.still /\ g.fault = e.fault
  BY <1>1 DEF Executor
<1>4. g \in Executor
  BY <1>1, PutProg
<1> HIDE DEF g
<1>5. Safe(e, g)
  BY <1>1, <1>3, <1>4, AsideSafe
<1> QED BY <1>2, <1>5

\* Following the route ends it, gives it up or keeps it.
LEMMA FollowSafe ==
  ASSUME NEW e, Good(e), NEW m, NEW t \in TrackerTick, NEW f, f = Follow(e, m, t)
  PROVE  Safe(e, f)
<1> DEFINE e1 == [e EXCEPT !.perm.cmd = t.cmd]
           e2 == [e1 EXCEPT !.prog = t.phase]
           g  == RequestAuthority(e, FALSE)
<1>1. t.cmd \in Twist /\ t.phase \in Progress /\ e \in Executor
  BY DEF TrackerTick, Progress, Good
<1>2. \/ f = End(e, "AbortedDeviation") \/ f = End(e, "AbortedStalled")
      \/ f = End(e, "Arrived") \/ f = Held(g) \/ f = e2
  BY DEF Follow
<1>3. Safe(e, e2)
  <2> HIDE DEF e1
  <2>1. Safe(e, e1)
    BY <1>1, ZeroSafe DEF e1
  <2>2. Good(e1) /\ e1 \in Executor /\ e1.last.id \in Nat
    BY <2>1, PermFields DEF Safe, Good
  <2>3. /\ e2.perm = e1.perm /\ e2.gen = e1.gen /\ e2.brake = e1.brake /\ e2.ack = e1.ack
        /\ e2.last = e1.last /\ e2.still = e1.still /\ e2.fault = e1.fault
    BY <2>2 DEF Executor
  <2>4. e2 \in Executor
    BY <1>1, <2>2, PutProg
  <2> HIDE DEF e2
  <2>5. Safe(e1, e2)
    BY <2>2, <2>3, <2>4, AsideSafe
  <2> QED BY <2>1, <2>5, SafeTrans
<1> HIDE DEF e1, e2
<1>4. Safe(e, g)
  BY <1>1, RequestAuthoritySafe
<1> HIDE DEF g
<1>5. Safe(e, Held(g))
  <2>1. Safe(g, Held(g))
    BY <1>4, HeldSafe DEF Safe
  <2> QED BY <1>4, <2>1, SafeTrans
<1>6. \A o \in Outcome : Safe(e, End(e, o))
  BY EndSafe
<1> QED BY <1>2, <1>3, <1>5, <1>6 DEF Outcome

\* The decisions of a turn, after its poll.
LEMMA StepSafe ==
  ASSUME NEW e, NEW m, NEW t \in TrackerTick, NEW p, p = Poll(e, m), Good(p),
         NEW f, f = Step(e, m, t)
  PROVE  Safe(p, f)
<1> DEFINE z == [p EXCEPT !.perm.cmd = "zero"]
           g == RequestAuthority(p, FALSE)
<1>1. \/ f = p \/ (\E o \in Outcome : f = End(p, o)) \/ f = Held(z) \/ f = Held(p)
      \/ f = Held(g) \/ f = Follow(p, m, t)
  BY DEF Step, Outcome
<1>2. Safe(p, z)
  BY ZeroSafe DEF Twist
<1>3. Safe(p, g)
  BY RequestAuthoritySafe DEF Good
<1> HIDE DEF z, g
<1>4. Safe(p, Held(z)) /\ Safe(p, Held(g)) /\ Safe(p, Held(p))
  <2>1. Safe(z, Held(z)) /\ Safe(g, Held(g)) /\ Safe(p, Held(p))
    BY <1>2, <1>3, HeldSafe DEF Safe
  <2> QED BY <1>2, <1>3, <2>1, SafeTrans
<1> QED BY <1>1, <1>4, SafeRefl, EndSafe, FollowSafe

-----------------------------------------------------------------------------
(* The inductive invariant.                                                 *)

\* What the stages that promise rest know of the world around the executor.
RestInv ==
  /\ ex.perm.at \in Promising => command = "zero"
  /\ ex.perm.at \in {"AwaitStopped", "AwaitGo"} => wire = "zero" /\ slot.cmd = "zero"
  /\ (ex.perm.at = "AwaitStopped" /\ ex.still) => ~moving
  /\ ex.perm.at = "AwaitGo" => ~moving
  /\ (ex.perm.at = "AwaitZero" /\ receipt.gen = ex.gen /\ receipt.ack = ex.brake)
       => wire = "zero" /\ slot.cmd = "zero"

\* The executor has given up for good.
Lost(e) == e.fault /\ e.perm.at = "AwaitBrake"

\* What has been said under a generation is not ahead of the executor.
Behind(said, e) ==
  /\ said.gen <= e.gen
  /\ (said.gen = e.gen /\ said.ack # 0) => Lost(e) \/ e.perm.at \notin {"None", "AwaitBrake"}
SaidInv ==
  /\ Behind(port, ex) /\ Behind(receipt, ex)
  /\ port.cert => port.ack > 0
  /\ (port.cert /\ port.gen = ex.gen) =>
       Lost(ex) \/ (ex.perm.at \in {"AwaitGo", "Executing", "Complete"} /\ port.ack = ex.brake)

Inv == TypeOK /\ Acknowledged(ex) /\ RestInv /\ SaidInv

\* The properties the runs check follow from it.
LEMMA InvTypes ==
  ASSUME Inv
  PROVE  /\ Good(ex) /\ ex \in Executor /\ ex.perm.at \in Stage /\ ex.perm.cmd \in Twist
         /\ ex.brake \in Nat /\ ex.ack \in Nat /\ ex.gen \in 0..MaxGen
         /\ port \in [gen : Generation, ack : Nat, cert : BOOLEAN]
         /\ receipt \in [gen : Generation, ack : Nat, fresh : BOOLEAN]
         /\ slot \in [cmd : Twist, fresh : BOOLEAN]
<1>1. Good(ex) /\ ex \in Executor
  BY DEF Inv, TypeOK, Good
<1>2. ex.perm.at \in Stage /\ ex.perm.cmd \in Twist
  BY <1>1, PermFields DEF Permission
<1> QED BY <1>1, <1>2, PermFields DEF Inv, TypeOK

\* The invariant gives AckNamesStage: the acknowledgement of each stage.
LEMMA InvAck == Inv => AckNamesStage
<1> SUFFICES ASSUME Inv PROVE AckNamesStage
  OBVIOUS
<1>1. ex.perm.at \in Stage /\ Acknowledged(ex)
  BY InvTypes DEF Inv
<1> QED BY <1>1 DEF AckNamesStage, Acknowledged, Stage

\* The invariant gives CertificateStands: what a published certificate says is so.
LEMMA InvCertificate == Inv => CertificateStands
<1> SUFFICES ASSUME Inv, port.cert, port.gen = ex.gen, port.ack = ex.ack PROVE AtRest
  BY DEF CertificateStands
<1>1. /\ ex.ack \in Nat /\ ex.brake \in Nat /\ Acknowledged(ex) /\ SaidInv /\ RestInv
  BY InvTypes DEF Inv
<1>2. ~Lost(ex)
  BY <1>1 DEF Lost, Acknowledged, SaidInv
<1>3. ex.perm.at = "AwaitGo"
  BY <1>1, <1>2 DEF Acknowledged, SaidInv
<1> QED BY <1>1, <1>3 DEF RestInv, AtRest, Promising

\* A step in which the executor only moves forward keeps what has been said of it.
LEMMA BehindCarries ==
  ASSUME NEW e \in Executor, NEW f \in Executor, Follows(e, f),
         NEW said, said.gen \in Nat, Behind(said, e)
  PROVE  Behind(said, f)
<1>1. /\ e.gen \in Nat /\ f.gen \in Nat /\ e.perm.at \in Stage /\ f.perm.at \in Stage
  BY PermFields
<1> QED BY <1>1 DEF Behind, Follows, Forward, Lost, Rank, Stage

\* The same for the whole of what has been said: port and receipt.
LEMMA SaidCarries ==
  ASSUME Inv, ex' \in Executor, Follows(ex, ex'),
         Behind(receipt, ex)' \/ receipt' = receipt, port' = port
  PROVE  SaidInv'
<1>1. /\ ex \in Executor /\ port.gen \in Nat /\ receipt.gen \in Nat /\ SaidInv
      /\ ex.gen \in Nat /\ ex'.gen \in Nat /\ ex.perm.at \in Stage /\ ex'.perm.at \in Stage
  BY InvTypes, PermFields DEF Inv, Generation
<1>2. Behind(port, ex')
  BY <1>1, BehindCarries DEF SaidInv
<1>3. Behind(receipt, ex)'
  BY <1>1, BehindCarries DEF SaidInv
<1>4. (port.cert /\ port.gen = ex'.gen) =>
        Lost(ex') \/ (ex'.perm.at \in {"AwaitGo", "Executing", "Complete"} /\ port.ack = ex'.brake)
  <2> SUFFICES ASSUME port.cert, port.gen = ex'.gen, ~Lost(ex')
               PROVE  ex'.perm.at \in {"AwaitGo", "Executing", "Complete"} /\ port.ack = ex'.brake
    OBVIOUS
  <2>1. ex'.gen = ex.gen
    BY <1>1 DEF SaidInv, Behind, Follows
  <2>2. Forward(ex, ex')
    BY <2>1 DEF Follows, Lost
  <2>3. ~Lost(ex)
    BY <2>1, <2>2 DEF Lost, Follows, Forward
  <2>4. ex.perm.at \in {"AwaitGo", "Executing", "Complete"} /\ port.ack = ex.brake
    BY <1>1, <2>1, <2>3 DEF SaidInv
  <2> QED BY <1>1, <2>2, <2>4 DEF Forward, Rank, Stage
<1> QED BY <1>1, <1>2, <1>3, <1>4 DEF SaidInv

\* An operation that enters no stage that promises rest, while the world stands still.
LEMMA RestCarries ==
  ASSUME Inv, Kept(ex, ex'), wire' = wire, moving' = moving, receipt' = receipt,
         command' \in {command, "zero"}, slot'.cmd \in {slot.cmd, "zero"}
  PROVE  RestInv'
BY DEF Inv, RestInv, Kept, Promising

\* What every step preserves: the invariant, and the order of the transaction.
Preserved == Inv' /\ Follows(ex, ex') /\ Frozen(ex, ex')

\* A step that changes the executor by a safe operation, and the outputs as a
\* controller may, preserves the invariant.
LEMMA SafeStep ==
  ASSUME Inv, TypeOK', Safe(ex, ex'), UNCHANGED <<wire, moving, receipt, port>>,
         command' \in {command, "zero"}, slot'.cmd \in {slot.cmd, "zero"}
  PROVE  Preserved
<1>1. ex' \in Executor /\ Acknowledged(ex)' /\ Kept(ex, ex')
  BY DEF Safe, Good
<1>2. SaidInv'
  BY <1>1, SaidCarries DEF Safe
<1>3. RestInv'
  BY <1>1, RestCarries
<1> QED BY <1>1, <1>2, <1>3 DEF Preserved, Inv, Safe

-----------------------------------------------------------------------------
(* The steps of the world, the operator and the channels.                   *)

\* What a turn puts in the output is zero or what the executor allows.
LEMMA OutputSlot ==
  ASSUME NEW e, NEW cmd \in Twist, Output(e, cmd), slot.cmd \in Twist,
         slot \in [cmd : Twist, fresh : BOOLEAN]
  PROVE  /\ slot' \in [cmd : Twist, fresh : BOOLEAN]
         /\ slot'.cmd \in {slot.cmd, cmd, "zero"}
         /\ RequiresZero(e) => slot'.cmd \in {slot.cmd, "zero"}
         /\ Is(e, "AwaitZero") => slot'.cmd = "zero"
<1>1. Commanded(e, cmd) \in {cmd, "zero"} /\ Commanded(e, cmd) \in Twist
  BY DEF Commanded, Twist
<1>2. RequiresZero(e) => Commanded(e, cmd) = "zero"
  BY DEF Commanded
<1>3. Is(e, "AwaitZero") => RequiresZero(e)
  BY DEF Is, RequiresZero, PermissionPending
<1>4. CASE slot' = [cmd |-> Commanded(e, cmd), fresh |-> TRUE]
  <2>1. slot'.cmd = Commanded(e, cmd) /\ slot' \in [cmd : Twist, fresh : BOOLEAN]
    BY <1>1, <1>4
  <2> QED BY <1>1, <1>2, <1>3, <2>1
<1>5. CASE ~Is(e, "AwaitZero") /\ slot' = slot
  BY <1>5
<1> QED BY <1>4, <1>5 DEF Output

\* A Reset begins, with or without one running.
LEMMA BeginResetStep == ASSUME Inv, BeginReset PROVE Preserved
<1>1. /\ Good(ex) /\ asked \in 0..Sessions /\ target \in BOOLEAN
      /\ slot \in [cmd : Twist, fresh : BOOLEAN] /\ slot.cmd \in Twist
  BY InvTypes DEF Inv, TypeOK
<1> DEFINE a == End(ex, "Stopped")
           b == Finish(a)
<1>2. Safe(ex, a)
  BY <1>1, EndSafe DEF Outcome
<1> HIDE DEF a
<1>3. Safe(a, b)
  BY <1>2, FinishSafe DEF Safe
<1>4. Safe(ex, b) /\ Good(b)
  BY <1>1, <1>2, <1>3, SafeTrans DEF Safe
<1>5. ex' = Install(b, asked + 1, target) /\ asked + 1 \in Nat
  BY <1>1, SessionsAssumption DEF BeginReset, a
<1> HIDE DEF b
<1>6. Safe(b, ex')
  BY <1>1, <1>4, <1>5, InstallSafe
<1>7. Safe(ex, ex')
  BY <1>1, <1>4, <1>6, SafeTrans
<1>8. slot' \in [cmd : Twist, fresh : BOOLEAN] /\ slot'.cmd \in {slot.cmd, "zero"}
  BY <1>1, OutputSlot DEF BeginReset, Twist
<1>9. TypeOK'
  BY <1>1, <1>7, <1>8, SessionsAssumption DEF BeginReset, Inv, TypeOK, Safe, Good, Twist
<1> QED BY <1>7, <1>8, <1>9, SafeStep DEF BeginReset

\* Stop, or lost health.
LEMMA LeaveResetStep ==
  ASSUME Inv, NEW outcome \in Outcome, LeaveReset(outcome)
  PROVE  Preserved
<1>1. /\ Good(ex) /\ slot \in [cmd : Twist, fresh : BOOLEAN] /\ slot.cmd \in Twist
  BY InvTypes
<1> DEFINE a == End(ex, outcome)
<1>2. Safe(ex, a)
  BY <1>1, EndSafe
<1>3. ex' = Finish(a)
  BY DEF LeaveReset
<1> HIDE DEF a
<1>4. Safe(ex, ex')
  BY <1>1, <1>2, <1>3, FinishSafe, SafeTrans DEF Safe
<1>5. slot' \in [cmd : Twist, fresh : BOOLEAN] /\ slot'.cmd \in {slot.cmd, "zero"}
  BY <1>1, OutputSlot DEF LeaveReset, Twist
<1>6. TypeOK'
  BY <1>4, <1>5 DEF LeaveReset, Inv, TypeOK, Safe, Good, Twist
<1> QED BY <1>4, <1>5, <1>6, SafeStep DEF LeaveReset

\* A target arrives.
LEMMA TargetArrivesStep == ASSUME Inv, TargetArrives PROVE Preserved
<1>1. Safe(ex, ex')
  BY InvTypes, SafeRefl DEF TargetArrives
<1>2. TypeOK'
  BY DEF TargetArrives, Inv, TypeOK
<1> QED BY <1>1, <1>2, SafeStep DEF TargetArrives

\* A deadline passes.
LEMMA ElapseStep == ASSUME Inv, NEW dl \in Deadline, Elapse(dl) PROVE Preserved
<1>1. Good(ex) /\ ex.due \cup {dl} \in SUBSET Deadline
  BY InvTypes DEF Executor
<1>2. Safe(ex, ex')
  BY <1>1, ElapseSafe DEF Elapse
<1>3. TypeOK'
  BY <1>2 DEF Elapse, Inv, TypeOK, Safe, Good
<1> QED BY <1>2, <1>3, SafeStep DEF Elapse

\* The clock jumps back.
LEMMA ClockBackStep == ASSUME Inv, ClockBack PROVE Preserved
<1>1. Safe(ex, ex')
  BY InvTypes, ClockWentBackSafe DEF ClockBack
<1>2. TypeOK'
  BY <1>1 DEF ClockBack, Inv, TypeOK, Safe, Good
<1> QED BY <1>1, <1>2, SafeStep DEF ClockBack

\* The declared vehicle changes.
LEMMA SpecChangeStep == ASSUME Inv, SpecChange PROVE Preserved
<1>1. Safe(ex, ex')
  BY InvTypes, SetSpecSafe DEF SpecChange
<1>2. TypeOK'
  BY <1>1 DEF SpecChange, Inv, TypeOK, Safe, Good
<1> QED BY <1>1, <1>2, SafeStep DEF SpecChange

\* A Result is handed out.
LEMMA PublishResultStep == ASSUME Inv, PublishResult PROVE Preserved
<1>1. Safe(ex, ex')
  BY InvTypes, CommitResultSafe DEF PublishResult
<1>2. PeekResult(ex) \in Result
  BY InvTypes DEF PublishResult, ResultPending, PeekResult, Executor
<1>3. TypeOK'
  BY <1>1, <1>2 DEF PublishResult, Inv, TypeOK, Safe, Good
<1> QED BY <1>1, <1>3, SafeStep DEF PublishResult

\* The body starts to move or comes to rest.
LEMMA BodyStep == ASSUME Inv, BodyMoves \/ BodyRests PROVE Preserved
<1>1. Safe(ex, ex')
  BY InvTypes, SafeRefl DEF BodyMoves, BodyRests
<1>2. TypeOK'
  BY DEF BodyMoves, BodyRests, Inv, TypeOK
<1>3. RestInv'
  BY DEF BodyMoves, BodyRests, Inv, RestInv, Twist
<1>4. SaidInv'
  BY <1>1, SaidCarries DEF BodyMoves, BodyRests, Safe, Good
<1> QED BY <1>1, <1>2, <1>3, <1>4 DEF Preserved, Inv, Safe, Good

\* The edge publishes a command, and writes a receipt for a zero.
LEMMA EdgePublishStep == ASSUME Inv, EdgePublish PROVE Preserved
<1>1. /\ slot \in [cmd : Twist, fresh : BOOLEAN] /\ slot.cmd \in Twist
      /\ port \in [gen : Generation, ack : Nat, cert : BOOLEAN]
      /\ receipt \in [gen : Generation, ack : Nat, fresh : BOOLEAN]
  BY InvTypes
<1>2. Safe(ex, ex')
  BY InvTypes, SafeRefl DEF EdgePublish
<1>3. /\ slot' \in [cmd : Twist, fresh : BOOLEAN] /\ slot'.cmd = slot.cmd
      /\ receipt' \in [gen : Generation, ack : Nat, fresh : BOOLEAN]
      /\ receipt' = receipt \/ (slot.cmd = "zero" /\ receipt'.gen = port.gen /\ receipt'.ack = port.ack)
  BY <1>1 DEF EdgePublish
<1>4. TypeOK'
  BY <1>1, <1>3 DEF EdgePublish, Inv, TypeOK
<1>5. RestInv'
  BY <1>3 DEF EdgePublish, Inv, RestInv, Promising
<1>6. SaidInv'
  <2>1. Behind(receipt, ex)' \/ receipt' = receipt
    BY <1>3 DEF EdgePublish, Inv, SaidInv, Behind
  <2> QED BY <1>2, <2>1, SaidCarries DEF EdgePublish, Safe, Good
<1> QED BY <1>2, <1>4, <1>5, <1>6 DEF Preserved, Inv, Safe, Good

\* A Session goes to the edge: what it says is the executor's.
LEMMA PublishSessionStep ==
  ASSUME Inv, NEW exhausted \in BOOLEAN, PublishSession(exhausted)
  PROVE  Preserved
<1>1. /\ Good(ex) /\ ex \in Executor /\ ex.gen \in Generation /\ ex.ack \in Nat
      /\ ex.perm.at \in Stage /\ ex.brake \in Nat /\ Acknowledged(ex)
      /\ ex'  \in Executor /\ port' = Told(ex)
  BY InvTypes, MarkPublishedSafe DEF PublishSession, Inv, Safe, Good, Generation
<1>2. /\ Safe(ex, ex') /\ ex'.perm = ex.perm /\ ex'.gen = ex.gen /\ ex'.brake = ex.brake
      /\ ex'.ack = ex.ack
  <2>1. /\ ex'.perm = ex.perm /\ ex'.gen = ex.gen /\ ex'.brake = ex.brake /\ ex'.ack = ex.ack
    BY <1>1 DEF PublishSession, MarkPublished, Executor
  <2> QED BY <1>1, <2>1, MarkPublishedSafe DEF PublishSession
<1>3. /\ port'.gen = ex.gen /\ port'.ack = ex.ack /\ port'.cert = StopCertified(ex)
      /\ port' \in [gen : Generation, ack : Nat, cert : BOOLEAN]
  <2>1. StopCertified(ex) \in BOOLEAN
    BY DEF StopCertified
  <2> QED BY <1>1, <2>1 DEF Told, SessionOf
<1>4. TypeOK'
  BY <1>1, <1>3 DEF PublishSession, Inv, TypeOK
<1>5. RestInv'
  BY <1>2, RestCarries DEF PublishSession, Safe
<1>6. SaidInv'
  <2>1. Behind(receipt, ex')
    BY <1>1, <1>2, InvTypes, BehindCarries DEF Inv, SaidInv, Safe, Good, Generation
  <2>2. Behind(port', ex')
    BY <1>1, <1>2, <1>3 DEF Behind, Acknowledged, Generation
  <2>3. StopCertified(ex) => ex.perm.at = "AwaitGo"
    BY DEF StopCertified, Is
  <2>4. port'.cert => port'.ack > 0 /\ ex'.perm.at = "AwaitGo" /\ port'.ack = ex'.brake
    BY <1>1, <1>2, <1>3, <2>3 DEF Acknowledged
  <2>5. receipt' = receipt
    BY DEF PublishSession
  <2> QED BY <2>1, <2>2, <2>4, <2>5 DEF SaidInv
<1> QED BY <1>2, <1>4, <1>5, <1>6 DEF Preserved, Inv, Safe, Good

-----------------------------------------------------------------------------
(* The controller's turn, the grants and the receipts.                      *)

\* The poses a turn observes change the estimate only.
LEMMA SeenSteady ==
  ASSUME NEW e, Good(e), NEW pose, NEW trusted \in BOOLEAN, NEW f, f = Seen(e, pose, trusted)
  PROVE  Steady(e, f) /\ f.perm = e.perm /\ (f.still => e.still \/ pose = "rest")
<1>1. CASE pose = "old"
  <2>1. f = e
    BY <1>1 DEF Seen
  <2>2. Safe(e, e)
    BY SafeRefl
  <2> QED BY <2>1, <2>2 DEF Steady, Safe
<1>2. CASE pose # "old"
  <2>1. (pose = "rest") \in BOOLEAN
    OBVIOUS
  <2> QED BY <1>2, <2>1, ObserveSteady DEF Seen
<1> QED BY <1>1, <1>2

\* What a turn does to the executor, whichever alternative runs.
Turned(rest) ==
  /\ Good(ex') /\ Follows(ex, ex') /\ Frozen(ex, ex')
  /\ ex'.perm.at \in Promising => ex'.gen = ex.gen /\ ex'.brake = ex.brake
  /\ ex'.perm.at = "AwaitZero" => ex.perm.at = "AwaitZero"
  /\ ex'.perm.at = "AwaitStopped" => ex.perm.at = "AwaitStopped" /\ (ex'.still => ex.still \/ rest)
  /\ ex'.perm.at = "AwaitGo" =>
       ex.perm.at = "AwaitGo" \/ (ex.perm.at = "AwaitStopped" /\ (ex.still \/ rest))

\* A polled executor, from an invariant state, is a turned one.
LEMMA PolledTurned ==
  ASSUME Good(ex), NEW s, NEW p, Steady(ex, s), s.perm = ex.perm, Polled(s, p), Safe(p, ex'),
         NEW rest, s.still => ex.still \/ rest
  PROVE  Turned(rest)
<1>1. /\ ex \in Executor /\ s \in Executor /\ p \in Executor /\ ex' \in Executor
      /\ Good(s) /\ Good(p) /\ Good(ex')
  BY DEF Good, Steady, Polled, Safe
<1>2. Follows(ex, p)
  BY <1>1, FollowsTrans DEF Steady, Polled
<1>3. Follows(ex, ex')
  BY <1>1, <1>2, FollowsTrans DEF Safe
<1>4. Frozen(ex, ex')
  <2>1. ex.perm.lim \in Int /\ s.perm.lim \in Int /\ p.perm.lim \in Int /\ ex'.perm.lim \in Int
    BY <1>1, PermFields, LimitAssumption DEF Permission
  <2>2. Is(p, "Executing") /\ Is(ex, "Executing") =>
          p.gen = ex.gen /\ p.perm.route = ex.perm.route /\ p.perm.lim >= ex.perm.lim
    BY DEF Steady, Polled, Frozen, Is
  <2> QED BY <2>1, <2>2 DEF Safe, Frozen, Kept, Is
<1> QED BY <1>1, <1>3, <1>4 DEF Turned, Steady, Polled, Safe, Kept, Promising

\* Once the executor has turned, all a turn may put in the outputs is what it may.
LEMMA TurnedStep ==
  ASSUME Inv, NEW rest, rest => ~moving, Turned(rest),
         command' \in Twist, command' \in {command, "zero"} \/ ~RequiresZero(ex'),
         Output(ex', command'),
         UNCHANGED <<port, receipt, wire, moving, target, asked, delivered>>
  PROVE  Preserved
<1>1. /\ slot \in [cmd : Twist, fresh : BOOLEAN] /\ slot.cmd \in Twist
      /\ ex \in Executor /\ ex' \in Executor /\ Acknowledged(ex)'
  BY InvTypes DEF Turned, Good
<1>2. /\ slot' \in [cmd : Twist, fresh : BOOLEAN]
      /\ RequiresZero(ex') => slot'.cmd \in {slot.cmd, "zero"}
      /\ Is(ex', "AwaitZero") => slot'.cmd = "zero"
  BY <1>1, OutputSlot
<1>3. ex'.perm.at \in Promising => RequiresZero(ex')
  BY DEF Promising, RequiresZero, PermissionPending
<1>4. TypeOK'
  BY <1>1, <1>2 DEF Inv, TypeOK
<1>5. RestInv'
  BY <1>2, <1>3 DEF Inv, RestInv, Turned, Promising, Is
<1>6. SaidInv'
  BY <1>1, SaidCarries DEF Turned
<1> QED BY <1>1, <1>4, <1>5, <1>6 DEF Preserved, Inv, Turned

\* The inputs of a turn are polled when they are observed, and again by the Reset.
LEMMA PolledTwice ==
  ASSUME NEW s, NEW p, NEW q, Good(s), Polled(s, p), Polled(p, q)
  PROVE  Polled(s, q)
<1>1. /\ s \in Executor /\ p \in Executor /\ q \in Executor
      /\ Good(p) /\ Good(q)
  BY DEF Good, Polled
<1>2. Follows(s, q)
  BY <1>1, FollowsTrans DEF Polled
<1>3. Frozen(s, q)
  <2>1. s.perm.lim \in Int /\ p.perm.lim \in Int /\ q.perm.lim \in Int
    BY <1>1, PermFields, LimitAssumption DEF Permission
  <2>2. Is(s, "Executing") => Is(p, "Executing")
    BY DEF Polled, Is
  <2> QED BY <2>1, <2>2 DEF Polled, Frozen
<1> QED BY <1>1, <1>2, <1>3 DEF Polled

\* A turn with a Reset running.
LEMMA ResetTurnStep ==
  ASSUME Inv, NEW healthy \in BOOLEAN, NEW trusted \in BOOLEAN, NEW pose,
         pose = "rest" => ~moving, ResetTurn(healthy, trusted, pose)
  PROVE  Preserved
<1> DEFINE m == Evidence(healthy, trusted)
           s == Seen(ex, pose, trusted)
           p == Poll(s, m)
<1>1. PICK t \in Ticks(p) :
        LET e == Step(p, m, t) IN
        /\ ex' = IF e.prog = "Done" THEN Finish(e) ELSE e
        /\ command' = IF e.prog = "Done" THEN "zero" ELSE Commanded(e, e.perm.cmd)
        /\ Output(ex', command')
  BY DEF ResetTurn
<1>2. t \in TrackerTick
  BY DEF Ticks, TrackerTick, Twist
<1> DEFINE q == Poll(p, m)
           e == Step(p, m, t)
<1>3. Good(ex)
  BY InvTypes
<1>4. Steady(ex, s) /\ s.perm = ex.perm /\ (s.still => ex.still \/ pose = "rest")
  BY <1>3, SeenSteady
<1> HIDE DEF s, m
<1>5. Polled(s, p)
  BY <1>4, PollPolled DEF Steady
<1> HIDE DEF p
<1>6. Polled(p, q)
  BY <1>5, PollPolled DEF Polled
<1>7. Polled(s, q) /\ Good(q)
  BY <1>4, <1>5, <1>6, PolledTwice DEF Steady, Polled
<1>8. Safe(q, e)
  BY <1>2, <1>7, StepSafe
<1>9. /\ ex' = (IF e.prog = "Done" THEN Finish(e) ELSE e)
      /\ command' = (IF e.prog = "Done" THEN "zero" ELSE Commanded(e, e.perm.cmd))
      /\ Output(ex', command')
  BY <1>1
<1> HIDE DEF e, q
<1>10. Safe(q, ex')
  BY <1>7, <1>8, <1>9, FinishSafe, SafeTrans DEF Safe
<1>11. Turned(pose = "rest")
  <2>1. (pose = "rest") \in BOOLEAN
    OBVIOUS
  <2> QED BY <1>3, <1>4, <1>7, <1>10, <2>1, PolledTurned
<1>12. /\ command' \in Twist
       /\ command' \in {command, "zero"} \/ ~RequiresZero(ex')
  <2>1. e.perm.cmd \in Twist
    BY <1>8, PermFields DEF Safe, Good, Permission
  <2> QED BY <1>9, <2>1 DEF Commanded, Twist
<1>13. UNCHANGED <<port, receipt, wire, moving, target, asked, delivered>>
  BY DEF ResetTurn
<1> QED BY <1>9, <1>11, <1>12, <1>13, TurnedStep

\* A turn of any other alternative.
LEMMA OtherTurnStep ==
  ASSUME Inv, NEW healthy \in BOOLEAN, NEW trusted \in BOOLEAN, NEW pose,
         pose = "rest" => ~moving, OtherTurn(healthy, trusted, pose)
  PROVE  Preserved
<1> DEFINE m == Evidence(healthy, trusted)
           s == Seen(ex, pose, trusted)
<1>1. Good(ex)
  BY InvTypes
<1>2. Steady(ex, s) /\ s.perm = ex.perm /\ (s.still => ex.still \/ pose = "rest")
  BY <1>1, SeenSteady
<1>3. ex' = Poll(s, m)
  BY DEF OtherTurn
<1> HIDE DEF s, m
<1>4. Polled(s, ex')
  BY <1>2, <1>3, PollPolled DEF Steady
<1>5. Safe(ex', ex')
  BY <1>4, SafeRefl DEF Polled
<1>6. Turned(pose = "rest")
  <2>1. (pose = "rest") \in BOOLEAN
    OBVIOUS
  <2> QED BY <1>1, <1>2, <1>4, <1>5, <2>1, PolledTurned
<1>7. /\ command' \in Twist
      /\ command' \in {command, "zero"} \/ ~RequiresZero(ex')
  <2>1. command' = command \/ \E cmd \in Twist : command' = Commanded(ex', cmd)
    BY DEF OtherTurn
  <2> QED BY <2>1 DEF Commanded, Twist, Inv, TypeOK
<1>8. /\ Output(ex', command')
      /\ UNCHANGED <<port, receipt, wire, moving, target, asked, delivered>>
  BY DEF OtherTurn
<1> QED BY <1>6, <1>7, <1>8, TurnedStep

\* A turn.
LEMMA TurnStep == ASSUME Inv, Turn PROVE Preserved
BY ResetTurnStep, OtherTurnStep DEF Turn

\* Every decision the station can have sent is one the executor understands.
LEMMA SendableType == ASSUME Inv, NEW d \in Sendable PROVE d \in Decision
<1>1. PICK c \in Content, q \in Requests, id \in 1..MaxId :
        d = [st |-> c.st, session |-> q[1], gen |-> q[2], id |-> id,
             route |-> c.route, lim |-> c.lim, reason |-> c.reason]
  BY DEF Sendable
<1>2. /\ c.st \in GrantState /\ c.route \in Route \cup {NoRoute} /\ c.lim \in 0..MaxLimit
      /\ c.reason \in Reason /\ (c.st = "Go" <=> c.route # NoRoute) /\ (c.st # "Go" => c.lim = 0)
  BY DEF Content
<1>3. q[1] \in Nat /\ q[2] \in Generation
  <2>1. ex.session \in Nat /\ ex.gen \in 0..MaxGen
    BY InvTypes DEF Executor, Generation
  <2>2. q[1] \in {ex.session, ex.session - 1} /\ q[2] \in {ex.gen, ex.gen - 1} /\ q[1] >= 0 /\ q[2] >= 1
    BY DEF Requests
  <2> QED BY <2>1, <2>2, GenAssumption DEF Generation
<1>4. id \in Nat \ {0}
  BY MaxIdAssumption
<1> QED BY <1>1, <1>2, <1>3, <1>4, RouteAssumption DEF Decision

\* A grant arrives.
LEMMA DeliverGrantStep == ASSUME Inv, DeliverGrant PROVE Preserved
<1>1. PICK d \in Sendable :
        LET e == OnGrant([ex EXCEPT !.seqIn = 0], [seq |-> 1, ok |-> TRUE, d |-> d]) IN
        /\ ex' = [e EXCEPT !.seqIn = 0]
        /\ command' = Commanded(e, command)
  BY DEF DeliverGrant
<1> DEFINE a == [ex EXCEPT !.seqIn = 0]
           g == [seq |-> 1, ok |-> TRUE, d |-> d]
           e == OnGrant(a, g)
<1>2. Good(ex) /\ ex \in Executor /\ ex.last.id \in Nat /\ Acknowledged(ex)
  BY InvTypes, PermFields DEF Good
<1>3. g \in Grant
  BY SendableType DEF Grant
<1>4. /\ Safe(ex, a) /\ a.fault = ex.fault /\ a.perm = ex.perm /\ a.gen = ex.gen
  <2>1. a \in Executor
    BY <1>2, PutSeqIn
  <2>2. /\ a.perm = ex.perm /\ a.gen = ex.gen /\ a.brake = ex.brake /\ a.ack = ex.ack
        /\ a.last = ex.last /\ a.still = ex.still /\ a.fault = ex.fault
    BY <1>2 DEF Executor
  <2> HIDE DEF a
  <2> QED BY <1>2, <2>1, <2>2, AsideSafe
<1> HIDE DEF a, g
<1>5. \/ Safe(a, e)
      \/ /\ Good(e) /\ Follows(a, e) /\ Frozen(a, e)
         /\ ~a.fault /\ a.perm.at = "AwaitBrake" /\ e.perm.at = "AwaitZero" /\ e.gen = a.gen
  BY <1>3, <1>4, OnGrantGood DEF Safe
<1>6. ex' = [e EXCEPT !.seqIn = 0] /\ command' = Commanded(e, command)
  BY <1>1 DEF a, g
<1> HIDE DEF e
<1>7. Good(e) /\ e \in Executor /\ e.last.id \in Nat
  BY <1>5, PermFields DEF Safe, Good
<1>8. /\ Safe(e, ex') /\ ex'.perm = e.perm /\ ex'.gen = e.gen
  <2> DEFINE f == [e EXCEPT !.seqIn = 0]
  <2>1. f \in Executor
    BY <1>7, PutSeqIn
  <2>2. /\ f.perm = e.perm /\ f.gen = e.gen /\ f.brake = e.brake /\ f.ack = e.ack
        /\ f.last = e.last /\ f.still = e.still /\ f.fault = e.fault
    BY <1>7 DEF Executor
  <2>3. ex' = f
    BY <1>6
  <2> HIDE DEF f
  <2> QED BY <1>7, <2>1, <2>2, <2>3, AsideSafe
<1>9. command' \in {command, "zero"} /\ (PermissionPending(e) => command' = "zero")
  BY <1>6 DEF Commanded, RequiresZero
<1>10. TypeOK'
  BY <1>8, <1>9 DEF DeliverGrant, Inv, TypeOK, Twist, Safe, Good
<1>11. CASE Safe(a, e)
  <2>1. Safe(ex, ex')
    BY <1>2, <1>4, <1>8, <1>11, SafeTrans DEF Safe
  <2> QED BY <1>9, <1>10, <2>1, SafeStep DEF DeliverGrant
<1>12. CASE /\ Good(e) /\ Follows(a, e) /\ Frozen(a, e)
            /\ ~a.fault /\ a.perm.at = "AwaitBrake" /\ e.perm.at = "AwaitZero" /\ e.gen = a.gen
  <2>1. /\ ex'.perm.at = "AwaitZero" /\ ex.perm.at = "AwaitBrake" /\ ~ex.fault
        /\ ex'.gen = ex.gen /\ ex' \in Executor /\ Acknowledged(ex)'
    BY <1>4, <1>8, <1>12 DEF Safe, Good
  <2>2. Follows(ex, ex')
    <3>1. a \in Executor
      BY <1>4 DEF Safe, Good
    <3>2. Follows(ex, e)
      BY <1>2, <1>4, <1>7, <1>12, <3>1, FollowsTrans DEF Safe
    <3> QED BY <1>2, <1>7, <1>8, <2>1, <3>2, FollowsTrans DEF Safe
  <2>3. Frozen(ex, ex')
    BY <2>1 DEF Frozen, Is
  <2>4. command' = "zero"
    BY <1>9, <1>12 DEF PermissionPending
  <2>5. ex'.brake > 0 /\ ex'.brake \in Nat
    BY <2>1, PermFields DEF Acknowledged
  <2>6. receipt.gen = ex'.gen => receipt.ack = 0
    BY <2>1 DEF Inv, SaidInv, Behind, Lost
  <2>7. RestInv'
    BY <2>1, <2>4, <2>5, <2>6 DEF DeliverGrant, RestInv
  <2>8. SaidInv'
    BY <2>1, <2>2, SaidCarries DEF DeliverGrant
  <2> QED BY <1>10, <2>1, <2>2, <2>3, <2>7, <2>8 DEF Preserved, Inv
<1> QED BY <1>5, <1>11, <1>12

\* The controller reads the edge's receipt of a zero.
LEMMA ReadReceiptStep == ASSUME Inv, ReadReceipt PROVE Preserved
<1>1. /\ Good(ex) /\ receipt \in [gen : Generation, ack : Nat, fresh : BOOLEAN]
      /\ receipt.gen \in Nat /\ receipt.ack \in Nat
  BY InvTypes DEF Generation
<1>2. /\ receipt'.gen = receipt.gen /\ receipt'.ack = receipt.ack
      /\ receipt' \in [gen : Generation, ack : Nat, fresh : BOOLEAN]
  BY <1>1 DEF ReadReceipt
<1>3. /\ Good(ex') /\ Follows(ex, ex') /\ Frozen(ex, ex')
      /\ \/ ex' = ex
         \/ /\ command = "zero" /\ ex.perm.at = "AwaitZero"
            /\ receipt.gen = ex.gen /\ receipt.ack = ex.brake
            /\ ex'.perm.at = "AwaitStopped" /\ ~ex'.still
  <2>1. CASE receipt.gen # 0 /\ receipt.ack # 0 /\ command = "zero"
    BY <1>1, <2>1, OnZeroPublishedGood DEF ReadReceipt
  <2>2. CASE ~(receipt.gen # 0 /\ receipt.ack # 0 /\ command = "zero")
    BY <1>1, <2>2, SafeRefl DEF ReadReceipt, Safe
  <2> QED BY <2>1, <2>2
<1>4. TypeOK'
  BY <1>2, <1>3 DEF ReadReceipt, Inv, TypeOK, Good
<1>5. RestInv'
  BY <1>2, <1>3 DEF ReadReceipt, Inv, RestInv, Promising
<1>6. Behind(receipt, ex)'
  <2>1. Behind(receipt, ex')
    BY <1>1, <1>3, BehindCarries DEF Inv, SaidInv, Good
  <2> QED BY <1>2, <2>1 DEF Behind
<1>7. SaidInv'
  BY <1>3, <1>6, SaidCarries DEF ReadReceipt, Good
<1> QED BY <1>3, <1>4, <1>5, <1>7 DEF Preserved, Inv, Good

-----------------------------------------------------------------------------
(* The theorems.                                                            *)

\* The initial states.
LEMMA InitInv == ASSUME Init PROVE Inv
<1>1. NewExecutor \in Executor
  <2>1. Fresh("None") \in Permission
    BY FreshType DEF Stage
  <2> QED BY <2>1, GenAssumption DEF NewExecutor, Executor, Progress, Generation
<1>2. /\ ex.perm = Fresh("None") /\ ex.ack = 0 /\ ex.brake = 0 /\ ex.gen = 0
      /\ ex.last = NoDecision /\ ex.perm.at = "None" /\ ex.perm.deferred = NoDecision
      /\ NoDecision.id = 0
  BY DEF Init, NewExecutor, Fresh, NoDecision
<1>3. TypeOK
  <2>1. 0 \in Generation /\ 0 \in 0..Sessions /\ <<>> \in Seq(Result)
    BY GenAssumption, SessionsAssumption DEF Generation
  <2>2. NoPort \in [gen : Generation, ack : Nat, cert : BOOLEAN]
    BY <2>1 DEF NoPort
  <2>3. NoReceipt \in [gen : Generation, ack : Nat, fresh : BOOLEAN]
    BY <2>1 DEF NoReceipt
  <2>4. target \in BOOLEAN
    BY DEF Init
  <2> QED BY <1>1, <2>1, <2>2, <2>3, <2>4 DEF Init, TypeOK, Twist
<1>4. Acknowledged(ex)
  BY <1>2 DEF Acknowledged
<1>5. RestInv
  BY <1>2 DEF RestInv, Promising
<1>6. SaidInv
  BY <1>2 DEF SaidInv, Behind, Init, NoPort, NoReceipt
<1> QED BY <1>3, <1>4, <1>5, <1>6 DEF Inv

\* Every step, one case per action.
LEMMA NextStep == ASSUME Inv, [Next]_vars PROVE Preserved
<1>1. CASE Turn
  BY <1>1, TurnStep
<1>2. CASE BeginReset
  BY <1>2, BeginResetStep
<1>3. CASE TargetArrives
  BY <1>3, TargetArrivesStep
<1>4. ASSUME NEW outcome \in {"Stopped", "AbortedUnhealthy"}, LeaveReset(outcome) PROVE Preserved
  <2>1. outcome \in Outcome
    BY DEF Outcome
  <2> QED BY <1>4, <2>1, LeaveResetStep
<1>5. CASE DeliverGrant
  BY <1>5, DeliverGrantStep
<1>6. CASE ReadReceipt
  BY <1>6, ReadReceiptStep
<1>7. ASSUME NEW exhausted \in BOOLEAN, PublishSession(exhausted) PROVE Preserved
  BY <1>7, PublishSessionStep
<1>8. CASE PublishResult
  BY <1>8, PublishResultStep
<1>9. CASE EdgePublish
  BY <1>9, EdgePublishStep
<1>10. CASE BodyMoves \/ BodyRests
  BY <1>10, BodyStep
<1>11. ASSUME NEW dl \in Deadline, Elapse(dl) PROVE Preserved
  BY <1>11, ElapseStep
<1>12. CASE ClockBack
  BY <1>12, ClockBackStep
<1>13. CASE SpecChange
  BY <1>13, SpecChangeStep
<1>14. CASE UNCHANGED vars
  <2>1. Safe(ex, ex')
    BY <1>14, InvTypes, SafeRefl DEF vars
  <2>2. TypeOK'
    BY <1>14 DEF vars, Inv, TypeOK
  <2> QED BY <1>14, <2>1, <2>2, SafeStep DEF vars
<1> QED BY <1>1, <1>2, <1>3, <1>4, <1>5, <1>6, <1>7, <1>8, <1>9, <1>10, <1>11, <1>12, <1>13, <1>14
        DEF Next

\* The invariant holds in every state of every vehicle, whatever its station sends.
THEOREM Invariance == Spec => []Inv
<1>1. Init => Inv
  BY InitInv
<1>2. Inv /\ [Next]_vars => Inv'
  BY NextStep DEF Preserved
<1> QED BY <1>1, <1>2, PTL DEF Spec

\* Every variable keeps its type.
THEOREM TypeCorrect == Spec => []TypeOK
<1>1. Inv => TypeOK
  BY DEF Inv
<1> QED BY <1>1, Invariance, PTL

\* The acknowledgement in a Session names the stage of the transaction, whatever
\* grants, receipts, lapses and faults the executor has been through
\* (reset_executor.h 309-386, 696-706).
THEOREM AcknowledgementNamesStage == Spec => []AckNamesStage
BY InvAck, Invariance, PTL

\* A stop certificate the station may be holding stays true until the vehicle answers
\* something else (reset_executor.h 299-307, 388-410).
THEOREM CertificatesStand == Spec => []CertificateStands
BY InvCertificate, Invariance, PTL

\* A generation names one transaction, which only moves forward (reset_executor.h 696-706).
THEOREM TransactionsMoveForward == Spec => TransactionMovesForward
<1> DEFINE Moves == /\ Rank(ex'.perm.at) >= Rank(ex.perm.at)
                    /\ ex.perm.at \in {"Executing", "Complete"} => ex'.perm.at = ex.perm.at
<1>1. ASSUME Inv, [Next]_vars, ex'.gen = ex.gen, ~ex'.fault PROVE Moves
  <2>1. Preserved
    BY <1>1, NextStep
  <2>2. Forward(ex, ex')
    BY <1>1, <2>1 DEF Preserved, Follows
  <2>3. ex \in Executor /\ ex' \in Executor
    BY <1>1, <2>1 DEF Preserved, Inv, TypeOK
  <2>4. ex.perm.at \in Stage /\ ex'.perm.at \in Stage
    BY <2>3, PermFields
  <2> QED BY <2>2, <2>4 DEF Forward, Rank, Stage
<1>2. Inv /\ [Next]_vars => [(ex'.gen = ex.gen /\ ~ex'.fault) => Moves]_vars
  BY <1>1
<1> QED BY <1>2, Invariance, PTL DEF Spec, TransactionMovesForward

-----------------------------------------------------------------------------
(* What an operation does to the outcomes owed and to the permission seen.  *)

\* The Reset goes on as it was, or not at all, and the outcomes owed are the same.
Keeps(e, f) ==
  /\ Active(f) <=> Active(e)
  /\ f.session = e.session /\ f.result = e.result /\ f.previous = e.previous

\* A running Reset is over, with its outcome in the first place.
Closes(e, f) ==
  /\ Active(e) /\ ~Active(f) /\ f.session = e.session
  /\ f.previous = IF e.result # NoResult THEN e.result ELSE e.previous
  /\ f.result \in Result /\ f.result.session = e.session

Reports(e, f) == Keeps(e, f) \/ Closes(e, f)

\* The executor as its owner sees it, stage by stage.
LEMMA PermitFields ==
  ASSUME NEW e
  PROVE  /\ PermitOf(e).at = AtOf(e.perm.at)
         /\ PermitOf(e).active = Active(e) /\ PermitOf(e).bad = (e.fault \/ e.clockBad)
BY DEF PermitOf
\* Where each stage is.
LEMMA Places ==
  /\ AtOf("None") = "Free" /\ AtOf("Complete") = "Free"
  /\ AtOf("AwaitBrake") = "Braking" /\ AtOf("AwaitStopped") = "Braking"
  /\ AtOf("AwaitGo") = "Braking"
  /\ AtOf("AwaitZero") = "Owed" /\ AtOf("Executing") = "Executing"
BY DEF AtOf

\* Replacing one field of a permission's record.
LEMMA PutAt ==
  ASSUME NEW a, NEW b, NEW c, NEW x, NEW p, p = [at |-> a, active |-> b, bad |-> c]
  PROVE  [p EXCEPT !.at = x] = [at |-> x, active |-> b, bad |-> c]
OBVIOUS
\* The same for `active'.
LEMMA PutActive ==
  ASSUME NEW a, NEW b, NEW c, NEW x, NEW p, p = [at |-> a, active |-> b, bad |-> c]
  PROVE  [p EXCEPT !.active = x] = [at |-> a, active |-> x, bad |-> c]
OBVIOUS
\* The same for `bad'.
LEMMA PutBad ==
  ASSUME NEW a, NEW b, NEW c, NEW x, NEW p, p = [at |-> a, active |-> b, bad |-> c]
  PROVE  [p EXCEPT !.bad = x] = [at |-> a, active |-> b, bad |-> x]
OBVIOUS
\* A permission as its owner sees it is a record of three fields.
Shaped(p) == p = [at |-> p.at, active |-> p.active, bad |-> p.bad]

\* Every permission seen is such a record.
LEMMA PermitShaped == ASSUME NEW e PROVE Shaped(PermitOf(e))
<1> DEFINE at  == AtOf(e.perm.at)
           bad == e.fault \/ e.clockBad
           up  == Active(e)
           p   == PermitOf(e)
<1>1. p = [at |-> at, active |-> up, bad |-> bad]
  BY Zenon DEF PermitOf
<1> HIDE DEF at, bad, up, p
<1>2. p = [at |-> p.at, active |-> p.active, bad |-> p.bad]
  BY <1>1
<1> QED BY <1>2 DEF p, Shaped

\* Two such records that differ in some of the fields only.
LEMMA ShapedDiffer ==
  ASSUME NEW p, Shaped(p), NEW q, Shaped(q)
  PROVE  /\ (q.active = p.active /\ q.bad = p.bad) => q = [p EXCEPT !.at = q.at]
         /\ (q.at = p.at /\ q.active = p.active) => q = [p EXCEPT !.bad = q.bad]
         /\ q.active = p.active => q = [p EXCEPT !.at = q.at, !.bad = q.bad]
         /\ (q.at = p.at /\ q.bad = p.bad) => q = [p EXCEPT !.active = q.active]
         /\ (q.at = p.at /\ q.active = p.active /\ q.bad = p.bad) => q = p
<1> DEFINE a == p.at
           b == p.active
           c == p.bad
           x == q.at
           y == q.active
           z == q.bad
<1>1. p = [at |-> a, active |-> b, bad |-> c] /\ q = [at |-> x, active |-> y, bad |-> z]
  BY DEF Shaped
<1> HIDE DEF a, b, c, x, y, z
<1>2. [p EXCEPT !.at = x] = [at |-> x, active |-> b, bad |-> c]
  BY <1>1, PutAt
<1>3. [p EXCEPT !.bad = z] = [at |-> a, active |-> b, bad |-> z]
  BY <1>1, PutBad
<1>4. [p EXCEPT !.at = x, !.bad = z] = [at |-> x, active |-> b, bad |-> z]
  <2> DEFINE r == [p EXCEPT !.at = x]
  <2>1. [p EXCEPT !.at = x, !.bad = z] = [r EXCEPT !.bad = z]
    OBVIOUS
  <2>2. r = [at |-> x, active |-> b, bad |-> c]
    BY <1>2
  <2> HIDE DEF r
  <2> QED BY <2>1, <2>2, PutBad
<1>5. [p EXCEPT !.active = y] = [at |-> a, active |-> y, bad |-> c]
  BY <1>1, PutActive
<1>6. /\ (y = b /\ z = c) => q = [p EXCEPT !.at = x]
      /\ (x = a /\ y = b) => q = [p EXCEPT !.bad = z]
      /\ y = b => q = [p EXCEPT !.at = x, !.bad = z]
      /\ (x = a /\ z = c) => q = [p EXCEPT !.active = y]
      /\ (x = a /\ y = b /\ z = c) => q = p
  BY <1>1, <1>2, <1>3, <1>4, <1>5
<1> QED BY <1>6 DEF a, b, c, x, y, z

\* What a new request looks like.
LEMMA ShapedRequested ==
  ASSUME NEW p, Shaped(p), NEW q, Shaped(q),
         q.at = "Braking", q.active = p.active, q.bad = p.bad \/ q.bad = TRUE
  PROVE  q \in Permits!Requested(p)
<1>1. CASE q.bad = p.bad
  <2>1. q = [p EXCEPT !.at = "Braking"]
    BY <1>1, ShapedDiffer
  <2> QED BY <2>1 DEF Permits!Requested
<1>2. CASE q.bad = TRUE
  <2>1. q = [p EXCEPT !.at = q.at, !.bad = q.bad]
    BY <1>2, ShapedDiffer
  <2>2. q = [p EXCEPT !.at = "Braking", !.bad = TRUE]
    BY <1>2, <2>1
  <2> QED BY <2>2 DEF Permits!Requested
<1> QED BY <1>1, <1>2

\* Asking again, of a Reset that is over or of one that is not.
LEMMA RequestPromise ==
  ASSUME NEW e \in Executor, NEW terminal \in BOOLEAN, Active(e) \/ terminal,
         NEW f, f = RequestAuthority(e, terminal)
  PROVE  Keeps(e, f) /\ PermitOf(f) \in Permits!Requested(PermitOf(e))
<1>1. /\ f.run = e.run /\ f.prog = (IF terminal THEN e.prog ELSE "Requesting")
      /\ f.session = e.session /\ f.result = e.result /\ f.previous = e.previous
      /\ f.clockBad = e.clockBad
  BY DEF RequestAuthority, Executor
<1>2. f.perm.at = "AwaitBrake" /\ f.fault = (IF e.gen = MaxGen THEN TRUE ELSE e.fault)
  <2>1. f.perm = Fresh("AwaitBrake") /\ f.fault = (IF e.gen = MaxGen THEN TRUE ELSE e.fault)
    BY RequestAuthorityFields
  <2> QED BY <2>1 DEF Fresh
<1>3. Active(f) <=> Active(e)
  BY <1>1 DEF Active
<1>4. Active(f) = Active(e)
  BY <1>3 DEF Active
<1>5. PermitOf(f).at = "Braking" /\ PermitOf(f).active = PermitOf(e).active
  BY <1>2, <1>4, PermitFields, Places
<1>6. PermitOf(f).bad = PermitOf(e).bad \/ PermitOf(f).bad = TRUE
  <2>1. CASE e.gen = MaxGen
    <3>1. (f.fault \/ f.clockBad) = TRUE
      BY <1>2, <2>1
    <3> QED BY <3>1, PermitFields
  <2>2. CASE e.gen # MaxGen
    <3>1. f.fault = e.fault /\ f.clockBad = e.clockBad
      BY <1>1, <1>2, <2>2
    <3> QED BY <3>1, PermitFields
  <2> QED BY <2>1, <2>2
<1>7. PermitOf(f) \in Permits!Requested(PermitOf(e))
  BY <1>5, <1>6, PermitShaped, ShapedRequested
<1> QED BY <1>1, <1>3, <1>7 DEF Keeps

\* Nothing the owner sees changes.
Same(e, f) == Keeps(e, f) /\ PermitOf(f) = PermitOf(e)

\* It is enough that the session, the outcomes, the stage and the faults are the same.
LEMMA SameIf ==
  ASSUME NEW e, NEW f, f.run = e.run, f.prog = "Done" <=> e.prog = "Done",
         f.session = e.session, f.result = e.result, f.previous = e.previous,
         \/ f.perm.at = e.perm.at
         \/ {e.perm.at, f.perm.at} \subseteq {"AwaitBrake", "AwaitStopped", "AwaitGo"},
         f.fault = e.fault, f.clockBad = e.clockBad
  PROVE  Same(e, f)
<1>1. Active(f) = Active(e)
  BY DEF Active
<1>2. PermitOf(f).active = PermitOf(e).active /\ PermitOf(f).bad = PermitOf(e).bad
  BY <1>1, PermitFields
<1>3. PermitOf(f).at = PermitOf(e).at
  <2>1. CASE f.perm.at = e.perm.at
    BY <2>1, PermitFields
  <2>2. CASE {e.perm.at, f.perm.at} \subseteq {"AwaitBrake", "AwaitStopped", "AwaitGo"}
    BY <2>2, PermitFields, Places
  <2> QED BY <2>1, <2>2
<1>4. PermitOf(f) = PermitOf(e)
  BY <1>2, <1>3, PermitShaped, ShapedDiffer
<1> QED BY <1>1, <1>4 DEF Same, Keeps

\* What a Reset that ended looks like.
LEMMA ShapedEnded ==
  ASSUME NEW p, Shaped(p), NEW q, Shaped(q), p.active = TRUE, q.active = FALSE,
         q.at = "Braking", q.bad = p.bad \/ q.bad = TRUE
  PROVE  q \in Permits!Ended(p)
<1> DEFINE a == q.at
           u == p.active
           b == q.bad
           r == [at |-> a, active |-> u, bad |-> b]
<1> HIDE DEF a, u, b
<1>1. r.at = a /\ r.active = u /\ r.bad = b
  OBVIOUS
<1> HIDE DEF r
<1>2. Shaped(r)
  BY <1>1 DEF Shaped, r
<1>3. r \in Permits!Requested(p)
  BY <1>1, <1>2, ShapedRequested DEF a, u, b
<1>4. q = [r EXCEPT !.active = q.active]
  BY <1>1, <1>2, ShapedDiffer DEF a, b
<1>5. q = [r EXCEPT !.active = FALSE]
  BY <1>4
<1> QED BY <1>3, <1>5 DEF Permits!Ended

\* What a Reset that began looks like.
LEMMA ShapedInstalled ==
  ASSUME NEW p, Shaped(p), NEW q, Shaped(q), q.active = TRUE,
         q.at = "Braking", q.bad = p.bad \/ q.bad = TRUE
  PROVE  q \in Permits!Installed(p)
<1> DEFINE a == q.at
           u == p.active
           b == q.bad
           r == [at |-> a, active |-> u, bad |-> b]
<1> HIDE DEF a, u, b
<1>1. r.at = a /\ r.active = u /\ r.bad = b
  OBVIOUS
<1> HIDE DEF r
<1>2. Shaped(r)
  BY <1>1 DEF Shaped, r
<1>3. r \in Permits!Requested(p)
  BY <1>1, <1>2, ShapedRequested DEF a, u, b
<1>4. q = [r EXCEPT !.active = q.active]
  BY <1>1, <1>2, ShapedDiffer DEF a, b
<1>5. q = [r EXCEPT !.active = TRUE]
  BY <1>4
<1> QED BY <1>3, <1>5 DEF Permits!Installed

\* A Reset ends with one outcome; one that is over already is left alone.
LEMMA EndPromise ==
  ASSUME NEW e \in Executor, NEW outcome \in Outcome, NEW f, f = End(e, outcome)
  PROVE  /\ Reports(e, f) /\ ~Active(f) /\ PermitOf(f) \in Permits!Ended(PermitOf(e))
         /\ f.run = e.run
<1>1. CASE ~Active(e)
  <2>1. f = e /\ PermitOf(e).active = FALSE
    BY <1>1, PermitFields DEF End
  <2> QED BY <1>1, <2>1 DEF Reports, Keeps, Permits!Ended
<1>2. CASE Active(e)
  <2> DEFINE p  == IF e.result # NoResult THEN e.result ELSE e.previous
             o  == [session |-> e.session, outcome |-> outcome]
             e1 == [e EXCEPT !.previous = p]
             e2 == [e1 EXCEPT !.result = o]
             g  == [e2 EXCEPT !.prog = "Done"]
  <2>1. p \in Result \cup {NoResult} /\ o \in Result /\ o.session = e.session
    BY DEF Executor, Result
  <2>2. f = RequestAuthority(g, TRUE)
    BY <1>2 DEF End
  <2>3. /\ g.perm = e.perm /\ g.fault = e.fault /\ g.clockBad = e.clockBad /\ g.run = e.run
        /\ g.prog = "Done" /\ g.session = e.session /\ g.result = o /\ g.previous = p
    BY DEF Executor
  <2> HIDE DEF p, o, e1, e2
  <2>4. e1 \in Executor
    BY <2>1, PutPrevious DEF e1
  <2>5. e2 \in Executor
    BY <2>1, <2>4, PutResult DEF e2
  <2>6. g \in Executor
    BY <2>5, PutProg DEF Progress
  <2> HIDE DEF g
  <2>7. Keeps(g, f) /\ PermitOf(f) \in Permits!Requested(PermitOf(g))
    BY <2>2, <2>6, RequestPromise
  <2>8. ~Active(g) /\ ~Active(f) /\ f.session = e.session /\ f.result = o /\ f.previous = p
    BY <2>3, <2>7 DEF Keeps, Active
  <2>9. Closes(e, f)
    BY <1>2, <2>1, <2>8 DEF Closes, p
  <2>10. f.run = e.run /\ f.clockBad = e.clockBad /\ (f.fault = e.fault \/ f.fault = TRUE)
         /\ f.perm.at = "AwaitBrake"
    <3>1. f.run = g.run /\ f.clockBad = g.clockBad
      BY <2>2, <2>6 DEF RequestAuthority, Executor
    <3>2. f.fault = (IF g.gen = MaxGen THEN TRUE ELSE g.fault) /\ f.perm = Fresh("AwaitBrake")
      BY <2>2, <2>6, RequestAuthorityFields
    <3>3. f.fault = g.fault \/ f.fault = TRUE
      BY <3>2
    <3>4. f.perm.at = "AwaitBrake"
      BY <3>2 DEF Fresh
    <3> QED BY <2>3, <3>1, <3>3, <3>4
  <2>11. PermitOf(f).bad = PermitOf(e).bad \/ PermitOf(f).bad = TRUE
    <3>1. CASE f.fault = e.fault
      BY <2>10, <3>1, PermitFields
    <3>2. CASE f.fault = TRUE
      <4>1. (f.fault \/ f.clockBad) = TRUE
        BY <3>2
      <4> QED BY <4>1, PermitFields
    <3> QED BY <2>10, <3>1, <3>2
  <2>12. /\ PermitOf(f).at = "Braking" /\ PermitOf(f).active = FALSE
         /\ PermitOf(e).active = TRUE
    <3>1. Active(f) = FALSE /\ Active(e) = TRUE
      BY <1>2, <2>8 DEF Active
    <3> QED BY <2>10, <3>1, PermitFields, Places
  <2>13. PermitOf(f) \in Permits!Ended(PermitOf(e))
    BY <2>11, <2>12, PermitShaped, ShapedEnded
  <2> QED BY <2>8, <2>9, <2>10, <2>13 DEF Reports
<1> QED BY <1>1, <1>2

\* What is destroyed when its Reset is over keeps its outcomes, and does not move.
LEMMA FinishPromise ==
  ASSUME NEW e, Good(e), ~Active(e), ~Is(e, "Executing"), NEW f, f = Finish(e)
  PROVE  Same(e, f) /\ ~f.run
<1>1. CASE ~e.run
  <2>1. f = e
    BY <1>1 DEF Finish
  <2> QED BY <1>1, <2>1 DEF Same, Keeps
<1>2. CASE e.run
  <2>1. e \in Executor /\ e.prog = "Done"
    BY <1>2 DEF Good, Active
  <2>2. f = [e EXCEPT !.run = FALSE, !.prog = "Idle", !.valid = FALSE, !.heard = FALSE, !.due = {}]
    BY <1>2 DEF Finish
  <2>3. /\ f.run = FALSE /\ f.session = e.session /\ f.result = e.result
        /\ f.previous = e.previous /\ f.perm = e.perm /\ f.fault = e.fault
        /\ f.clockBad = e.clockBad
    BY <2>1, <2>2 DEF Executor
  <2>4. Active(f) = Active(e)
    BY <2>1, <2>3 DEF Active
  <2>5. PermitOf(f).active = PermitOf(e).active /\ PermitOf(f).bad = PermitOf(e).bad
        /\ PermitOf(f).at = PermitOf(e).at
    BY <2>3, <2>4, PermitFields
  <2>6. PermitOf(f) = PermitOf(e)
    BY <2>5, PermitShaped, ShapedDiffer
  <2> QED BY <2>3, <2>4, <2>6 DEF Same, Keeps
<1> QED BY <1>1, <1>2

-----------------------------------------------------------------------------
(* The operations of a turn.                                                *)

\* The reported progress changes, of a Reset that goes on.
LEMMA ProgSame ==
  ASSUME NEW e \in Executor, NEW q, q # "Done", Active(e), NEW f, f = [e EXCEPT !.prog = q]
  PROVE  Same(e, f)
<1>1. /\ f.run = e.run /\ f.prog = q /\ f.session = e.session /\ f.result = e.result
      /\ f.previous = e.previous /\ f.perm = e.perm /\ f.fault = e.fault
      /\ f.clockBad = e.clockBad
  BY DEF Executor
<1> QED BY <1>1, SameIf DEF Active

\* The permission changes what it owns, or goes on within the braking.
LEMMA PermSame ==
  ASSUME NEW e \in Executor, NEW p,
         p.at = e.perm.at \/ {e.perm.at, p.at} \subseteq {"AwaitBrake", "AwaitStopped", "AwaitGo"},
         NEW f, f = [e EXCEPT !.perm = p]
  PROVE  /\ Same(e, f) /\ f.perm = p /\ f.run = e.run /\ f.prog = e.prog
         /\ f.fault = e.fault /\ f.clockBad = e.clockBad
<1>1. /\ f.run = e.run /\ f.prog = e.prog /\ f.session = e.session /\ f.result = e.result
      /\ f.previous = e.previous /\ f.perm = p /\ f.fault = e.fault
      /\ f.clockBad = e.clockBad
  BY DEF Executor
<1> QED BY <1>1, SameIf

\* A certificate is given or taken away while braking, and never by a clock gone back.
LEMMA CertifyPromise ==
  ASSUME NEW e \in Executor, NEW m, NEW f, f = Certify(e, m)
  PROVE  /\ Same(e, f) /\ f.fault = e.fault /\ f.clockBad = e.clockBad
         /\ f.run = e.run /\ f.prog = e.prog
         /\ StopCertified(f) => ~f.clockBad
<1>1. e.perm \in Permission
  BY PermFields
<1>2. CASE Is(e, "AwaitStopped") /\ CausalStopped(e, m)
  <2> DEFINE p == [Fresh("AwaitGo") EXCEPT !.certified = TRUE]
  <2>1. f = [e EXCEPT !.perm = p]
    BY <1>2 DEF Certify, Is
  <2>2. p.at = "AwaitGo" /\ ~e.clockBad
    BY <1>2 DEF Fresh, CausalStopped
  <2> HIDE DEF p
  <2> QED BY <1>2, <2>1, <2>2, PermSame DEF Is
<1>3. CASE Is(e, "AwaitGo")
  <2> DEFINE p == [e.perm EXCEPT !.certified = CausalStopped(e, m)]
  <2>1. f = [e EXCEPT !.perm = p]
    BY <1>3 DEF Certify, Is
  <2>2. p.at = e.perm.at /\ (p.certified => ~e.clockBad)
    BY <1>1 DEF Permission, CausalStopped
  <2> HIDE DEF p
  <2>3. /\ Same(e, f) /\ f.perm = p /\ f.run = e.run /\ f.prog = e.prog
        /\ f.fault = e.fault /\ f.clockBad = e.clockBad
    BY <2>1, <2>2, PermSame
  <2> QED BY <2>2, <2>3 DEF StopCertified
<1>4. CASE ~(Is(e, "AwaitStopped") /\ CausalStopped(e, m)) /\ ~Is(e, "AwaitGo")
  <2>1. f = e
    BY <1>4 DEF Certify
  <2>2. Same(e, e)
    BY DEF Same, Keeps
  <2> QED BY <1>4, <2>1, <2>2 DEF StopCertified
<1> QED BY <1>2, <1>3, <1>4

\* What a poll may do to the permission: a deferred GO of an active Reset starts.
MayStart(p, q) ==
  \/ q = p
  \/ p.at = "Braking" /\ p.active /\ ~p.bad /\ q = [p EXCEPT !.at = "Executing"]

\* A GO that is taken up.
LEMMA StartPromise ==
  ASSUME NEW e \in Executor, Active(e), Is(e, "AwaitGo"), ~e.fault, ~e.clockBad,
         NEW f, f = Start(e)
  PROVE  Keeps(e, f) /\ MayStart(PermitOf(e), PermitOf(f))
<1> DEFINE p == [Fresh("Executing") EXCEPT !.route = e.perm.deferred.route,
                                           !.lim = e.perm.deferred.lim]
<1>1. p.at = "Executing"
  BY DEF Fresh
<1>2. f = [e EXCEPT !.perm = p, !.ack = e.perm.deferred.id, !.prog = "Waiting"]
  BY DEF Start
<1> HIDE DEF p
<1>3. /\ f.run = e.run /\ f.prog = "Waiting" /\ f.session = e.session /\ f.result = e.result
      /\ f.previous = e.previous /\ f.perm = p /\ f.fault = e.fault
      /\ f.clockBad = e.clockBad
  BY <1>2 DEF Executor
<1>4. Active(f) = Active(e) /\ Active(e) = TRUE
  BY <1>3 DEF Active
<1>5. /\ PermitOf(f).at = "Executing" /\ PermitOf(f).active = PermitOf(e).active
      /\ PermitOf(f).bad = PermitOf(e).bad
      /\ PermitOf(e).at = "Braking" /\ PermitOf(e).active = TRUE
  BY <1>1, <1>3, <1>4, PermitFields, Places DEF Is
<1>6. ~PermitOf(e).bad
  BY PermitFields
<1>7. PermitOf(f) = [PermitOf(e) EXCEPT !.at = PermitOf(f).at]
  BY <1>5, PermitShaped, ShapedDiffer
<1>8. PermitOf(f) = [PermitOf(e) EXCEPT !.at = "Executing"]
  BY <1>5, <1>7
<1> QED BY <1>3, <1>4, <1>5, <1>6, <1>8 DEF Keeps, MayStart

\* A poll certifies, starts, or stands still.
LEMMA PollPromise ==
  ASSUME NEW e \in Executor, NEW m, NEW f, f = Poll(e, m), Good(e)
  PROVE  Keeps(e, f) /\ MayStart(PermitOf(e), PermitOf(f))
<1>1. CASE e.fault
  <2> DEFINE p == [e.perm EXCEPT !.cmd = "zero"]
  <2>1. f = [e EXCEPT !.perm = p]
    BY <1>1 DEF Poll
  <2>2. p.at = e.perm.at
    BY PermFields DEF Permission
  <2> HIDE DEF p
  <2>3. Same(e, f)
    BY <2>1, <2>2, PermSame
  <2> QED BY <2>3 DEF Same, MayStart
<1>2. CASE ~e.fault
  <2> DEFINE c == Certify(e, m)
  <2>1. /\ Same(e, c) /\ c.fault = e.fault /\ (StopCertified(c) => ~c.clockBad)
        /\ c \in Executor
    BY <1>2, CertifyPromise, CertifyPolled DEF Polled, Good
  <2>2. \/ f = c
        \/ f = Start(c) /\ StopCertified(c) /\ Active(c)
    BY <1>2 DEF Poll
  <2> HIDE DEF c
  <2>3. CASE f = c
    BY <2>1, <2>3 DEF Same, MayStart
  <2>4. CASE f = Start(c) /\ StopCertified(c) /\ Active(c)
    <3>1. Keeps(c, f) /\ MayStart(PermitOf(c), PermitOf(f))
      BY <1>2, <2>1, <2>4, StartPromise DEF StopCertified
    <3> QED BY <2>1, <3>1 DEF Same, Keeps
  <2> QED BY <2>2, <2>3, <2>4
<1> QED BY <1>1, <1>2

\* Following the route: the Reset goes on, asks again or ends.
LEMMA FollowPromise ==
  ASSUME NEW e, Good(e), Active(e), NEW m, NEW t \in TrackerTick, NEW f, f = Follow(e, m, t)
  PROVE  Reports(e, f) /\ PermitOf(f) \in Permits!Stepped(PermitOf(e))
<1> DEFINE e1 == [e EXCEPT !.perm.cmd = t.cmd]
           e2 == [e1 EXCEPT !.prog = t.phase]
           g  == RequestAuthority(e, FALSE)
<1>1. t.cmd \in Twist /\ t.phase # "Done" /\ t.phase \in Progress /\ e \in Executor
  BY DEF TrackerTick, Progress, Good
<1>2. PermitOf(e).active
  BY PermitFields
<1>3. \/ \E o \in Outcome : f = End(e, o)
      \/ f = Held(g) \/ f = e2
  BY DEF Follow, Outcome
<1>4. Same(e, e2)
  <2>1. e1 \in Executor /\ Same(e, e1)
    <3> DEFINE p == [e.perm EXCEPT !.cmd = t.cmd]
    <3>1. e1 = [e EXCEPT !.perm = p]
      OBVIOUS
    <3>2. p.at = e.perm.at
      BY <1>1, PermFields DEF Permission
    <3> HIDE DEF p
    <3>3. Same(e, e1)
      BY <1>1, <3>1, <3>2, PermSame
    <3>4. e1 \in Executor
      BY <1>1, ZeroSafe DEF Safe, Good
    <3> QED BY <3>3, <3>4
  <2> HIDE DEF e1
  <2>2. Same(e1, e2)
    BY <1>1, <2>1, ProgSame DEF Same, Keeps
  <2> QED BY <2>1, <2>2 DEF Same, Keeps
<1> HIDE DEF e1, e2
<1>5. Keeps(e, g) /\ PermitOf(g) \in Permits!Requested(PermitOf(e)) /\ g \in Executor
  BY <1>1, RequestPromise, RequestAuthorityType
<1> HIDE DEF g
<1>6. Same(g, Held(g))
  BY <1>5, ProgSame DEF Held, Keeps
<1>7. CASE f = e2
  BY <1>2, <1>4, <1>7 DEF Same, Reports, Permits!Stepped
<1>8. CASE f = Held(g)
  BY <1>2, <1>5, <1>6, <1>8 DEF Same, Keeps, Reports, Permits!Stepped
<1>9. ASSUME NEW o \in Outcome, f = End(e, o) PROVE Reports(e, f) /\ PermitOf(f) \in Permits!Stepped(PermitOf(e))
  BY <1>1, <1>2, <1>9, EndPromise DEF Permits!Stepped
<1> QED BY <1>3, <1>7, <1>8, <1>9

\* The decisions of a turn, after its poll.
LEMMA StepPromise ==
  ASSUME NEW e, NEW m, NEW t \in TrackerTick, NEW p, p = Poll(e, m), Good(p),
         NEW f, f = Step(e, m, t)
  PROVE  Reports(p, f) /\ PermitOf(f) \in Permits!Stepped(PermitOf(p))
<1> DEFINE z == [p EXCEPT !.perm.cmd = "zero"]
           g == RequestAuthority(p, FALSE)
<1>1. \/ f = p
      \/ /\ Active(p)
         /\ \/ \E o \in Outcome : f = End(p, o)
            \/ f = Held(z) \/ f = Held(p) \/ f = Held(g) \/ f = Follow(p, m, t)
  BY DEF Step, Outcome
<1>2. p \in Executor
  BY DEF Good
<1>3. CASE f = p
  BY <1>3, PermitFields DEF Reports, Keeps, Permits!Stepped
<1>4. CASE Active(p)
  <2>1. PermitOf(p).active
    BY <1>4, PermitFields
  <2>2. Same(p, z) /\ z \in Executor
    <3> DEFINE r == [p.perm EXCEPT !.cmd = "zero"]
    <3>1. z = [p EXCEPT !.perm = r]
      OBVIOUS
    <3>2. r.at = p.perm.at
      BY <1>2, PermFields DEF Permission
    <3> HIDE DEF r
    <3>3. Same(p, z)
      BY <1>2, <3>1, <3>2, PermSame
    <3>4. z \in Executor
      BY ZeroSafe DEF Safe, Good, Twist
    <3> QED BY <3>3, <3>4
  <2>3. Keeps(p, g) /\ PermitOf(g) \in Permits!Requested(PermitOf(p)) /\ g \in Executor
    BY <1>2, <1>4, RequestPromise, RequestAuthorityType
  <2> HIDE DEF z, g
  <2>4. Same(p, Held(p)) /\ Same(z, Held(z)) /\ Same(g, Held(g))
    BY <1>2, <1>4, <2>2, <2>3, ProgSame DEF Held, Same, Keeps
  <2>5. CASE f = Held(p) \/ f = Held(z)
    BY <2>1, <2>2, <2>4, <2>5 DEF Same, Keeps, Reports, Permits!Stepped
  <2>6. CASE f = Held(g)
    BY <2>1, <2>3, <2>4, <2>6 DEF Same, Keeps, Reports, Permits!Stepped
  <2>7. ASSUME NEW o \in Outcome, f = End(p, o)
        PROVE  Reports(p, f) /\ PermitOf(f) \in Permits!Stepped(PermitOf(p))
    BY <1>2, <2>1, <2>7, EndPromise DEF Permits!Stepped
  <2>8. CASE f = Follow(p, m, t)
    BY <1>4, <2>8, FollowPromise
  <2> QED BY <1>1, <1>3, <2>5, <2>6, <2>7, <2>8
<1> QED BY <1>1, <1>3, <1>4

-----------------------------------------------------------------------------
(* Observations, grants, the declared vehicle, a new Reset.                 *)

\* What a pose, a clock gone back or a spent counter changes.
LEMMA ObservePromise ==
  ASSUME NEW e \in Executor, NEW trusted, NEW still, NEW f, f = Observe(e, trusted, still)
  PROVE  Same(e, f)
<1>1. \E v : f = [e EXCEPT !.still = v]
  BY DEF Observe
<1>2. PICK v : f = [e EXCEPT !.still = v]
  BY <1>1
<1>3. /\ f.run = e.run /\ f.prog = e.prog /\ f.session = e.session /\ f.result = e.result
      /\ f.previous = e.previous /\ f.perm = e.perm /\ f.fault = e.fault
      /\ f.clockBad = e.clockBad
  BY <1>2 DEF Executor
<1> QED BY <1>3, SameIf

\* The executor that lost its clock or its counter is bad, and nothing else.
LEMMA BadPromise ==
  ASSUME NEW e, NEW f, f.run = e.run, f.prog = e.prog, f.session = e.session,
         f.result = e.result, f.previous = e.previous, f.perm.at = e.perm.at,
         f.fault \/ f.clockBad
  PROVE  Keeps(e, f) /\ PermitOf(f) \in Permits!Observed(PermitOf(e))
<1>1. Active(f) = Active(e) /\ (f.fault \/ f.clockBad) = TRUE
  BY DEF Active
<1>2. /\ PermitOf(f).at = PermitOf(e).at /\ PermitOf(f).active = PermitOf(e).active
      /\ PermitOf(f).bad = TRUE
  BY <1>1, PermitFields
<1>3. PermitOf(f) = [PermitOf(e) EXCEPT !.bad = PermitOf(f).bad]
  BY <1>2, PermitShaped, ShapedDiffer
<1>4. PermitOf(f) = [PermitOf(e) EXCEPT !.bad = TRUE]
  BY <1>2, <1>3
<1> QED BY <1>1, <1>4 DEF Keeps, Permits!Observed

\* The permission enters another stage, of the same Reset.
LEMMA EnterPromise ==
  ASSUME NEW e, NEW f, f.run = e.run, f.prog = e.prog, f.session = e.session,
         f.result = e.result, f.previous = e.previous, f.fault = e.fault,
         f.clockBad = e.clockBad
  PROVE  Keeps(e, f) /\ PermitOf(f) = [PermitOf(e) EXCEPT !.at = AtOf(f.perm.at)]
<1>1. Active(f) = Active(e)
  BY DEF Active
<1>2. PermitOf(f).active = PermitOf(e).active
  BY <1>1, PermitFields
<1>3. PermitOf(f).bad = PermitOf(e).bad
  BY PermitFields
<1>4. PermitOf(f).at = AtOf(f.perm.at)
  BY PermitFields
<1>5. PermitOf(f) = [PermitOf(e) EXCEPT !.at = PermitOf(f).at]
  BY <1>2, <1>3, PermitShaped, ShapedDiffer
<1> QED BY <1>1, <1>4, <1>5 DEF Keeps

\* A zero that was published.
LEMMA OnZeroPublishedPromise ==
  ASSUME NEW e \in Executor, NEW gen, NEW brake, NEW f, f = OnZeroPublished(e, gen, brake)
  PROVE  /\ Keeps(e, f)
         /\ PermitOf(f) = PermitOf(e) \/ PermitOf(f) = Permits!Zeroed(PermitOf(e))
<1>1. \/ f = e
      \/ /\ f = [e EXCEPT !.perm = Fresh("AwaitStopped"), !.still = FALSE]
         /\ Is(e, "AwaitZero") /\ ~e.clockBad /\ ~e.fault
  BY DEF OnZeroPublished
<1>2. CASE f = e
  BY <1>2 DEF Keeps
<1>3. CASE /\ f = [e EXCEPT !.perm = Fresh("AwaitStopped"), !.still = FALSE]
           /\ Is(e, "AwaitZero") /\ ~e.clockBad /\ ~e.fault
  <2>1. /\ f.run = e.run /\ f.prog = e.prog /\ f.session = e.session /\ f.result = e.result
        /\ f.previous = e.previous /\ f.perm = Fresh("AwaitStopped") /\ f.fault = e.fault
        /\ f.clockBad = e.clockBad
    BY <1>3 DEF Executor
  <2>2. f.perm.at = "AwaitStopped"
    BY <2>1 DEF Fresh
  <2>3. Keeps(e, f) /\ PermitOf(f) = [PermitOf(e) EXCEPT !.at = AtOf(f.perm.at)]
    BY <2>1, EnterPromise
  <2>4. AtOf(f.perm.at) = "Braking" /\ PermitOf(e).at = "Owed"
    BY <1>3, <2>2, PermitFields, Places DEF Is
  <2>5. ~PermitOf(e).bad
    BY <1>3, PermitFields
  <2> QED BY <2>3, <2>4, <2>5 DEF Permits!Zeroed
<1> QED BY <1>1, <1>2, <1>3

\* A declared vehicle that changed.
LEMMA SetSpecPromise ==
  ASSUME NEW e \in Executor, NEW f, f = SetSpec(e)
  PROVE  Keeps(e, f) /\ PermitOf(f) \in Permits!Respecified(PermitOf(e))
<1>1. CASE e.perm.at \in {"None", "Complete"}
  <2>1. f = e /\ PermitOf(e).at = "Free"
    BY <1>1, PermitFields, Places DEF SetSpec
  <2> QED BY <2>1 DEF Keeps, Permits!Respecified
<1>2. CASE e.perm.at \notin {"None", "Complete"}
  <2>1. PermitOf(e).at # "Free"
    BY <1>2, PermFields, PermitFields, Places DEF Stage
  <2>2. f = RequestAuthority(e, ~Active(e)) /\ (~Active(e)) \in BOOLEAN
    BY <1>2 DEF SetSpec
  <2>3. Keeps(e, f) /\ PermitOf(f) \in Permits!Requested(PermitOf(e))
    BY <2>2, RequestPromise
  <2> QED BY <2>1, <2>3 DEF Permits!Respecified
<1> QED BY <1>1, <1>2

\* A new Run, on an executor whose last Run is gone.
LEMMA InstallPromise ==
  ASSUME NEW e, Good(e), ~e.run, NEW session \in Nat, NEW valid \in BOOLEAN,
         NEW f, f = Install(e, session, valid)
  PROVE  /\ Active(f) /\ f.session = session /\ f.result = e.result /\ f.previous = e.previous
         /\ PermitOf(f) \in Permits!Installed(PermitOf(e))
<1> DEFINE b1 == [e EXCEPT !.run = TRUE]
           b2 == [b1 EXCEPT !.session = session]
           b3 == [b2 EXCEPT !.valid = valid]
<1>1. Finish(End(e, "Stopped")) = e
  BY DEF Finish, End, Active
<1>2. f = RequestAuthority(b3, FALSE)
  BY <1>1 DEF Install
<1>3. e \in Executor
  BY DEF Good
<1>4. /\ b3.run = TRUE /\ b3.session = session /\ b3.result = e.result
      /\ b3.previous = e.previous /\ b3.fault = e.fault /\ b3.clockBad = e.clockBad
      /\ b3.gen = e.gen
  BY <1>3 DEF Executor
<1> HIDE DEF b1, b2
<1>5. b1 \in Executor
  BY <1>3, PutRun DEF b1
<1>6. b2 \in Executor
  BY <1>5, PutSession DEF b2
<1>7. b3 \in Executor
  BY <1>6, PutValid
<1> HIDE DEF b3
<1>8. /\ f.run = TRUE /\ f.prog = "Requesting" /\ f.session = session /\ f.result = e.result
      /\ f.previous = e.previous /\ f.clockBad = e.clockBad
  BY <1>2, <1>4, <1>7 DEF RequestAuthority, Executor
<1>9. f.perm.at = "AwaitBrake" /\ (f.fault = e.fault \/ f.fault = TRUE)
  <2>1. f.perm = Fresh("AwaitBrake") /\ f.fault = (IF b3.gen = MaxGen THEN TRUE ELSE b3.fault)
    BY <1>2, <1>7, RequestAuthorityFields
  <2>2. f.perm.at = "AwaitBrake"
    BY <2>1 DEF Fresh
  <2>3. f.fault = b3.fault \/ f.fault = TRUE
    BY <2>1
  <2> QED BY <1>4, <2>2, <2>3
<1>10. Active(f) = TRUE
  BY <1>8 DEF Active
<1>11. PermitOf(f).bad = PermitOf(e).bad \/ PermitOf(f).bad = TRUE
  <2>1. CASE f.fault = e.fault
    BY <1>8, <2>1, PermitFields
  <2>2. CASE f.fault = TRUE
    <3>1. (f.fault \/ f.clockBad) = TRUE
      BY <2>2
    <3> QED BY <3>1, PermitFields
  <2> QED BY <1>9, <2>1, <2>2
<1>12. PermitOf(f).at = "Braking" /\ PermitOf(f).active = TRUE
  BY <1>9, <1>10, PermitFields, Places
<1>13. PermitOf(f) \in Permits!Installed(PermitOf(e))
  BY <1>11, <1>12, PermitShaped, ShapedInstalled
<1> QED BY <1>8, <1>10, <1>13

\* What a grant that is taken leaves of the envelope.
LEMMA ReceivedPromise ==
  ASSUME NEW e \in Executor, NEW g, NEW f, f = Received(e, g)
  PROVE  Same(e, f) /\ f.perm = e.perm
<1>1. /\ f.run = e.run /\ f.prog = e.prog /\ f.session = e.session /\ f.result = e.result
      /\ f.previous = e.previous /\ f.perm = e.perm /\ f.fault = e.fault
      /\ f.clockBad = e.clockBad
  BY DEF Executor, Received
<1> QED BY <1>1, SameIf

\* Whatever the station sends.
LEMMA OnGrantPromise ==
  ASSUME NEW e, Good(e), NEW g \in Grant, NEW f, f = OnGrant(e, g)
  PROVE  Reports(e, f) /\ PermitOf(f) \in Permits!Granted(PermitOf(e))
<1>1. CASE ~(Answers(e, g) /\ Admits(e, g.d))
  BY <1>1 DEF OnGrant, Reports, Keeps, Permits!Granted
<1>2. CASE Answers(e, g) /\ Admits(e, g.d)
  <2> DEFINE h == Received(e, g)
             d == g.d
             p == PermitOf(e)
  <2>1. /\ d \in Decision /\ d.id >= e.last.id /\ ~e.fault /\ e \in Executor
        /\ d.st \in GrantState
    BY <1>2, LastFields DEF Answers, Grant, Good
  <2>2. Same(e, h) /\ h.perm = e.perm /\ h \in Executor /\ p = PermitOf(h)
    BY <2>1, ReceivedPromise, ReceivedSafe, PermFields, LastFields DEF Safe, Good, Same
  <2>3. /\ d.st = "Brake"  => f = OnBrake(h, d)
        /\ d.st = "Go"     => f = OnGo(h, d)
        /\ d.st = "Hold"   => f = OnHold(h, d)
        /\ d.st = "Reject" => f = OnReject(h, d)
    BY <1>2 DEF OnGrant, Received
  <2> HIDE DEF h, p
  <2>4. ASSUME Reports(h, f), PermitOf(f) \in Permits!Granted(PermitOf(h))
        PROVE  Reports(e, f) /\ PermitOf(f) \in Permits!Granted(PermitOf(e))
    BY <2>2, <2>4 DEF Same, Reports, Keeps, Closes
  <2>5. CASE f = h
    BY <2>4, <2>5 DEF Reports, Keeps, Permits!Granted
  <2>6. CASE d.st = "Brake"
    <3>1. CASE Is(h, "AwaitBrake")
      <4>1. f = [h EXCEPT !.brake = d.id, !.ack = d.id, !.perm = Fresh("AwaitZero")]
        BY <2>3, <2>6, <3>1 DEF OnBrake
      <4>2. /\ f.run = h.run /\ f.prog = h.prog /\ f.session = h.session
            /\ f.result = h.result /\ f.previous = h.previous /\ f.fault = h.fault
            /\ f.clockBad = h.clockBad /\ f.perm = Fresh("AwaitZero")
        BY <2>2, <4>1 DEF Executor
      <4>3. f.perm.at = "AwaitZero"
        BY <4>2 DEF Fresh
      <4>4. Keeps(h, f) /\ PermitOf(f) = [PermitOf(h) EXCEPT !.at = AtOf("AwaitZero")]
        BY <4>2, <4>3, EnterPromise
      <4>5. PermitOf(h).at = "Braking"
        BY <3>1, PermitFields, Places DEF Is
      <4>6. PermitOf(f) = [PermitOf(h) EXCEPT !.at = "Owed"]
        BY <4>4, Places
      <4> QED BY <2>4, <4>4, <4>5, <4>6 DEF Reports, Permits!Granted
    <3>2. CASE ~Is(h, "AwaitBrake") /\ d.id # h.brake
      <4>1. f = RequestAuthority(h, ~Active(h)) /\ (~Active(h)) \in BOOLEAN
        BY <2>3, <2>6, <3>2 DEF OnBrake
      <4> QED BY <2>2, <2>4, <4>1, RequestPromise DEF Reports, Permits!Granted
    <3>3. CASE ~Is(h, "AwaitBrake") /\ d.id = h.brake
      BY <2>3, <2>5, <2>6, <3>3 DEF OnBrake
    <3> QED BY <3>1, <3>2, <3>3
  <2>7. CASE d.st = "Go"
    <3>1. /\ f.run = h.run /\ f.prog = h.prog /\ f.session = h.session /\ f.result = h.result
          /\ f.previous = h.previous /\ f.fault = h.fault /\ f.clockBad = h.clockBad
          /\ f.perm.at = h.perm.at
      <4> DEFINE q == IF Is(h, "Executing") THEN [h.perm EXCEPT !.lim = d.lim]
                      ELSE [h.perm EXCEPT !.deferred = d]
      <4>1. q.at = h.perm.at
        BY <2>2, PermFields DEF Permission
      <4>2. \/ f = [h EXCEPT !.due = @ \ {"ttl"}, !.ack = d.id, !.perm = q]
            \/ f = [h EXCEPT !.due = @ \ {"ttl"}, !.perm = q]
        BY <2>3, <2>7 DEF OnGo
      <4> HIDE DEF q
      <4> QED BY <2>2, <4>1, <4>2 DEF Executor
    <3>2. Same(h, f)
      BY <3>1, SameIf
    <3> QED BY <2>4, <3>2 DEF Same, Reports, Permits!Granted
  <2>8. CASE d.st = "Hold"
    <3>1. CASE ~Active(h) /\ Is(h, "AwaitGo")
      <4>1. f = [h EXCEPT !.ack = d.id, !.perm = Fresh("Complete")]
        BY <2>3, <2>8, <3>1 DEF OnHold
      <4>2. /\ f.run = h.run /\ f.prog = h.prog /\ f.session = h.session
            /\ f.result = h.result /\ f.previous = h.previous /\ f.fault = h.fault
            /\ f.clockBad = h.clockBad /\ f.perm = Fresh("Complete")
        BY <2>2, <4>1 DEF Executor
      <4>3. f.perm.at = "Complete"
        BY <4>2 DEF Fresh
      <4>4. Keeps(h, f) /\ PermitOf(f) = [PermitOf(h) EXCEPT !.at = AtOf("Complete")]
        BY <4>2, <4>3, EnterPromise
      <4>5. PermitOf(h).at = "Braking" /\ ~PermitOf(h).active
        BY <3>1, PermitFields, Places DEF Is
      <4>6. PermitOf(f) = [PermitOf(h) EXCEPT !.at = "Free"]
        BY <4>4, Places
      <4> QED BY <2>4, <4>4, <4>5, <4>6 DEF Reports, Permits!Granted
    <3>2. CASE ~(~Active(h) /\ Is(h, "AwaitGo"))
      BY <2>3, <2>5, <2>8, <3>2 DEF OnHold
    <3> QED BY <3>1, <3>2
  <2>9. CASE d.st = "Reject"
    <3>1. \E o \in Outcome : f = End(h, o)
      BY <2>3, <2>9 DEF OnReject, Outcome
    <3>2. Reports(h, f) /\ PermitOf(f) \in Permits!Ended(PermitOf(h))
      BY <2>2, <3>1, EndPromise
    <3> QED BY <2>4, <3>2 DEF Permits!Granted
  <2> QED BY <2>1, <2>6, <2>7, <2>8, <2>9 DEF GrantState
<1> QED BY <1>1, <1>2

-----------------------------------------------------------------------------
(* The outcomes of a vehicle.                                               *)

\* The two places fill from the first, and a running Reset leaves the second free.
Queue(e) ==
  /\ e.previous # NoResult => e.result # NoResult
  /\ Active(e) => e.previous = NoResult

\* A list of outcomes is one for each of the first n Resets, in order.
Numbered(s, n) == Len(s) = n /\ \A i \in DOMAIN s : s[i].session = i

\* NoResult is not an outcome, and what is owed is a list of outcomes.
LEMMA OwedType ==
  ASSUME NEW e \in Executor, Queue(e)
  PROVE  /\ NoResult \notin Result /\ Owed(e) \in Seq(Result)
         /\ e.result # NoResult => e.result \in Result
         /\ e.previous # NoResult => e.previous \in Result
<1>1. NoResult \notin Result
  BY DEF NoResult, Result, Outcome
<1>2. /\ e.result # NoResult => e.result \in Result
      /\ e.previous # NoResult => e.previous \in Result
  BY DEF Executor
<1>3. Owed(e) \in Seq(Result)
  BY <1>2 DEF Owed, Queue
<1> QED BY <1>1, <1>2, <1>3

\* Appending to a list of results.
LEMMA NumberedAppend ==
  ASSUME NEW s \in Seq(Result), NEW n \in Nat, Numbered(s, n),
         NEW r \in Result, r.session = n + 1
  PROVE  Numbered(Append(s, r), n + 1)
BY DEF Numbered

\* An ending appends one outcome to those delivered and owed.
LEMMA OwedCloses ==
  ASSUME NEW e \in Executor, NEW f \in Executor, Queue(e), Closes(e, f), NEW d \in Seq(Result)
  PROVE  Queue(f) /\ d \o Owed(f) = Append(d \o Owed(e), f.result)
<1>1. /\ e.previous = NoResult /\ f.result \in Result /\ f.result # NoResult /\ ~Active(f)
      /\ f.previous = (IF e.result # NoResult THEN e.result ELSE e.previous)
  BY OwedType DEF Closes, Queue
<1>2. CASE e.result = NoResult
  <2>1. Owed(e) = <<>> /\ Owed(f) = <<f.result>>
    BY <1>1, <1>2 DEF Owed
  <2>2. d \o <<f.result>> = Append(d \o <<>>, f.result)
    BY <1>1
  <2> QED BY <1>1, <1>2, <2>1, <2>2 DEF Queue
<1>3. CASE e.result # NoResult
  <2>1. Owed(e) = <<e.result>> /\ Owed(f) = <<e.result, f.result>>
    BY <1>1, <1>3 DEF Owed
  <2>2. e.result \in Result
    BY <1>3, OwedType
  <2> DEFINE a == e.result
             b == f.result
  <2>3. a \in Result /\ b \in Result
    BY <1>1, <2>2
  <2> HIDE DEF a, b
  <2>4. d \o <<a, b>> = Append(d \o <<a>>, b)
    BY <2>3
  <2> QED BY <1>1, <1>3, <2>1, <2>4 DEF Queue, a, b
<1> QED BY <1>2, <1>3

\* Handing out the older outcome keeps the list of all of them.
LEMMA OwedHandsOut ==
  ASSUME NEW e \in Executor, Queue(e), ResultPending(e), NEW d \in Seq(Result),
         NEW f, f = CommitResult(e)
  PROVE  /\ Queue(f) /\ (Active(f) <=> Active(e)) /\ f.session = e.session
         /\ PermitOf(f) = PermitOf(e)
         /\ Append(d, PeekResult(e)) \o Owed(f) = d \o Owed(e)
<1>1. /\ f.run = e.run /\ f.prog = e.prog /\ f.session = e.session /\ f.perm = e.perm
      /\ f.fault = e.fault /\ f.clockBad = e.clockBad
      /\ f.previous = NoResult
      /\ f.result = IF e.previous # NoResult THEN e.result ELSE NoResult
  BY DEF CommitResult, Executor
<1>2. Active(f) = Active(e)
  BY <1>1 DEF Active
<1>3. PermitOf(f) = PermitOf(e)
  <2>1. PermitOf(f).at = PermitOf(e).at /\ PermitOf(f).active = PermitOf(e).active
    BY <1>1, <1>2, PermitFields
  <2>2. PermitOf(f).bad = PermitOf(e).bad
    BY <1>1, PermitFields
  <2> QED BY <2>1, <2>2, PermitShaped, ShapedDiffer
<1>4. Queue(f)
  BY <1>1 DEF Queue
<1> DEFINE a == e.previous
           b == e.result
<1>5. CASE e.previous # NoResult
  <2>1. Owed(e) = <<a, b>> /\ Owed(f) = <<b>> /\ PeekResult(e) = a
    BY <1>1, <1>5 DEF Owed, PeekResult, Queue
  <2>2. a \in Result /\ b \in Result
    BY <1>5, OwedType DEF Queue
  <2> HIDE DEF a, b
  <2>3. Append(d, a) \o <<b>> = d \o <<a, b>>
    BY <2>2
  <2> QED BY <1>1, <1>2, <1>3, <1>4, <2>1, <2>3
<1>6. CASE e.previous = NoResult
  <2>1. Owed(e) = <<b>> /\ Owed(f) = <<>> /\ PeekResult(e) = b /\ b \in Result
    BY <1>1, <1>6, OwedType DEF Owed, PeekResult, ResultPending
  <2> HIDE DEF a, b
  <2>2. Append(d, b) \o <<>> = d \o <<b>>
    BY <2>1
  <2> QED BY <1>1, <1>2, <1>3, <1>4, <2>1, <2>2
<1> QED BY <1>5, <1>6

\* Only an active Reset moves.
Moves(p) == p.at = "Executing" => p.active

\* The fields of a permission with one of them replaced.
LEMMA ShapedFields ==
  ASSUME NEW p, Shaped(p), NEW v
  PROVE  /\ [p EXCEPT !.at = v].at = v /\ [p EXCEPT !.at = v].active = p.active
         /\ [p EXCEPT !.active = v].at = p.at /\ [p EXCEPT !.active = v].active = v
         /\ [p EXCEPT !.bad = v].at = p.at /\ [p EXCEPT !.bad = v].active = p.active
         /\ Shaped([p EXCEPT !.at = v]) /\ Shaped([p EXCEPT !.active = v])
         /\ Shaped([p EXCEPT !.bad = v])
<1> DEFINE a == p.at
           b == p.active
           c == p.bad
           r == [p EXCEPT !.at = v]
           s == [p EXCEPT !.active = v]
           t == [p EXCEPT !.bad = v]
<1>1. p = [at |-> a, active |-> b, bad |-> c]
  BY DEF Shaped
<1> HIDE DEF a, b, c
<1>2. r = [at |-> v, active |-> b, bad |-> c]
  BY <1>1, PutAt
<1>3. s = [at |-> a, active |-> v, bad |-> c]
  BY <1>1, PutActive
<1>4. t = [at |-> a, active |-> b, bad |-> v]
  BY <1>1, PutBad
<1>5. a = p.at /\ b = p.active
  BY DEF a, b
<1> HIDE DEF r, s, t
<1>6. r.at = v /\ r.active = p.active /\ Shaped(r)
  BY <1>2, <1>5 DEF Shaped
<1>7. s.at = p.at /\ s.active = v /\ Shaped(s)
  BY <1>3, <1>5 DEF Shaped
<1>8. t.at = p.at /\ t.active = p.active /\ Shaped(t)
  BY <1>4, <1>5 DEF Shaped
<1> QED BY <1>6, <1>7, <1>8 DEF r, s, t

\* A new request does not move.
LEMMA RequestedStill ==
  ASSUME NEW p, Shaped(p), NEW q \in Permits!Requested(p)
  PROVE  Shaped(q) /\ q.at = "Braking" /\ q.active = p.active
<1> DEFINE r == [p EXCEPT !.at = "Braking"]
<1>1. Shaped(r) /\ r.at = "Braking" /\ r.active = p.active
  BY ShapedFields
<1> DEFINE yes == TRUE
           s   == [r EXCEPT !.bad = yes]
<1>2. [p EXCEPT !.at = "Braking", !.bad = TRUE] = s
  OBVIOUS
<1>3. q = r \/ q = s
  BY <1>2 DEF Permits!Requested
<1> HIDE DEF r, yes
<1>4. Shaped(s) /\ s.at = "Braking" /\ s.active = p.active
  BY <1>1, ShapedFields
<1> HIDE DEF s
<1> QED BY <1>1, <1>3, <1>4

\* Nor does a Reset that ended or one that began.
LEMMA EndedStill ==
  ASSUME NEW p, Shaped(p), NEW q
  PROVE  /\ q \in Permits!Ended(p) => q = p \/ q.at = "Braking"
         /\ q \in Permits!Installed(p) => q.at = "Braking"
<1>1. ASSUME NEW r \in Permits!Requested(p)
      PROVE  [r EXCEPT !.active = FALSE].at = "Braking" /\ [r EXCEPT !.active = TRUE].at = "Braking"
  BY RequestedStill, ShapedFields
<1> QED BY <1>1 DEF Permits!Ended, Permits!Installed

\* No operation lets an executor move whose Reset is not active.
LEMMA MovesOn ==
  ASSUME NEW p, Shaped(p), Moves(p), NEW q
  PROVE  /\ MayStart(p, q) => Moves(q)
         /\ q \in Permits!Requested(p) => Moves(q)
         /\ q \in Permits!Ended(p) => Moves(q)
         /\ q \in Permits!Installed(p) => Moves(q)
         /\ q \in Permits!Stepped(p) => Moves(q)
         /\ q \in Permits!Granted(p) => Moves(q)
         /\ q \in Permits!Respecified(p) => Moves(q)
         /\ q = Permits!Zeroed(p) => Moves(q)
         /\ q \in Permits!Observed(p) => Moves(q)
<1>1. q \in Permits!Requested(p) => Moves(q)
  BY RequestedStill DEF Moves
<1>2. q \in Permits!Ended(p) => Moves(q)
  BY EndedStill DEF Moves
<1>3. q \in Permits!Installed(p) => Moves(q)
  BY EndedStill DEF Moves
<1> DEFINE go   == [p EXCEPT !.at = "Executing"]
           owed == [p EXCEPT !.at = "Owed"]
           free == [p EXCEPT !.at = "Free"]
           yes  == TRUE
           lost == [p EXCEPT !.bad = yes]
<1>4. /\ go.active = p.active /\ owed.at = "Owed" /\ free.at = "Free"
  BY ShapedFields
<1>5. lost = [p EXCEPT !.bad = TRUE]
  OBVIOUS
<1> HIDE DEF go, owed, free, yes
<1>6. lost.at = p.at /\ lost.active = p.active
  BY ShapedFields
<1> HIDE DEF lost
<1>7. MayStart(p, q) => Moves(q)
  <2>1. MayStart(p, q) => q = p \/ (p.active /\ q = go)
    BY DEF MayStart, go
  <2> QED BY <1>4, <2>1 DEF Moves
<1>8. q \in Permits!Stepped(p) => Moves(q)
  BY <1>1, <1>2 DEF Permits!Stepped
<1>9. q \in Permits!Granted(p) => Moves(q)
  <2>1. q \in Permits!Granted(p) =>
          q = p \/ q \in Permits!Requested(p) \/ q \in Permits!Ended(p) \/ q = owed \/ q = free
    BY DEF Permits!Granted, owed, free
  <2> QED BY <1>1, <1>2, <1>4, <2>1 DEF Moves
<1>10. q \in Permits!Respecified(p) => Moves(q)
  BY <1>1 DEF Permits!Respecified
<1>11. q = Permits!Zeroed(p) => Moves(q)
  BY ShapedFields DEF Permits!Zeroed, Moves
<1>12. q \in Permits!Observed(p) => Moves(q)
  <2>1. q \in Permits!Observed(p) => q = p \/ q = lost \/ (p.active /\ q = go)
    BY <1>5 DEF Permits!Observed, go
  <2> QED BY <1>4, <1>6, <2>1 DEF Moves
<1> QED BY <1>1, <1>2, <1>3, <1>7, <1>8, <1>9, <1>10, <1>11, <1>12

-----------------------------------------------------------------------------
(* The steps of the vehicle.                                                *)

\* What holds between the executor, the Resets asked for and the Results handed out.
Over   == IF Active(ex) THEN asked - 1 ELSE asked
Ledger ==
  /\ ex.session = asked /\ Queue(ex) /\ Moves(PermitOf(ex))
  /\ Numbered(Outcomes, Over)

\* It is what the runs check of the outcomes.
LEMMA LedgerOutcomes == Ledger => OneResultEach
BY DEF Ledger, Numbered, OneResultEach, Over

\* What each step of the vehicle keeps and does.
Promised == Ledger' /\ [Permits!PermitNext]_(PermitOf(ex))

\* A step that reports at most one outcome keeps the ledger.
LEMMA LedgerReports ==
  ASSUME Inv, Inv', Ledger, Reports(ex, ex'), Moves(PermitOf(ex')),
         asked' = asked, delivered' = delivered
  PROVE  Ledger'
<1>1. /\ ex \in Executor /\ ex' \in Executor /\ delivered \in Seq(Result)
      /\ asked \in Nat /\ Queue(ex) /\ Owed(ex) \in Seq(Result)
  BY OwedType, SessionsAssumption DEF Inv, TypeOK, Ledger
<1>2. CASE Keeps(ex, ex')
  <2>1. Owed(ex') = Owed(ex) /\ Queue(ex')
    BY <1>1, <1>2 DEF Keeps, Owed, Queue
  <2>2. Outcomes' = Outcomes /\ Over' = Over
    BY <1>2, <2>1 DEF Keeps, Outcomes, Over
  <2> QED BY <1>2, <2>1, <2>2 DEF Keeps, Ledger
<1>3. CASE Closes(ex, ex')
  <2>1. Queue(ex') /\ delivered \o Owed(ex') = Append(delivered \o Owed(ex), ex'.result)
    BY <1>1, <1>3, OwedCloses
  <2>2. Outcomes' = Append(Outcomes, ex'.result) /\ Outcomes \in Seq(Result)
    BY <1>1, <2>1 DEF Outcomes
  <2>3. Over = asked - 1 /\ Over' = asked /\ Over \in Nat
    <3>1. Over = asked - 1 /\ Over' = asked
      BY <1>3 DEF Closes, Over
    <3>2. Len(Outcomes) \in Nat
      BY <2>2
    <3> QED BY <3>1, <3>2 DEF Ledger, Numbered
  <2>4. ex'.result \in Result /\ ex'.result.session = Over + 1 /\ ex'.session = asked'
    BY <1>1, <1>3, <2>3 DEF Closes, Ledger
  <2>5. Numbered(Append(Outcomes, ex'.result), Over + 1)
    BY <2>2, <2>3, <2>4, NumberedAppend DEF Ledger
  <2>6. Over' = Over + 1
    BY <1>1, <2>3
  <2> QED BY <2>1, <2>2, <2>4, <2>5, <2>6 DEF Ledger
<1> QED BY <1>2, <1>3 DEF Reports

\* A step the owner does not see.
LEMMA SameStep ==
  ASSUME Inv, Inv', Ledger, Same(ex, ex'), asked' = asked, delivered' = delivered
  PROVE  Promised
<1>1. Moves(PermitOf(ex')) /\ PermitOf(ex') = PermitOf(ex)
  BY DEF Same, Ledger
<1>2. Ledger'
  BY <1>1, LedgerReports DEF Same, Reports
<1> QED BY <1>1, <1>2 DEF Promised

\* A polled executor that is polled again has started at most once.
LEMMA MayStartTwice ==
  ASSUME NEW p, Shaped(p), NEW q, NEW r, MayStart(p, q), MayStart(q, r)
  PROVE  MayStart(p, r)
<1>1. CASE q = p
  BY <1>1
<1>2. CASE q # p
  <2>1. q = [p EXCEPT !.at = "Executing"]
    BY <1>2 DEF MayStart
  <2>2. q.at = "Executing"
    BY <2>1, ShapedFields
  <2>3. r = q
    BY <2>2 DEF MayStart
  <2> QED BY <2>3
<1> QED BY <1>1, <1>2

\* The poses a turn may find.
LEMMA SeenSame ==
  ASSUME NEW e \in Executor, NEW pose, NEW trusted, NEW f, f = Seen(e, pose, trusted)
  PROVE  Same(e, f)
<1>1. Same(e, e)
  BY DEF Same, Keeps
<1> QED BY <1>1, ObservePromise DEF Seen

\* A turn with a Reset running.
LEMMA ResetTurnPromise ==
  ASSUME Inv, Inv', Ledger, NEW healthy \in BOOLEAN, NEW trusted \in BOOLEAN, NEW pose,
         ResetTurn(healthy, trusted, pose)
  PROVE  Promised
<1> DEFINE m == Evidence(healthy, trusted)
           s == Seen(ex, pose, trusted)
           p == Poll(s, m)
<1>1. PICK t \in Ticks(p) :
        ex' = LET e == Step(p, m, t) IN IF e.prog = "Done" THEN Finish(e) ELSE e
  BY DEF ResetTurn
<1>2. t \in TrackerTick
  BY DEF Ticks, TrackerTick, Twist
<1> DEFINE q == Poll(p, m)
           e == Step(p, m, t)
<1>3. Good(ex) /\ ex \in Executor /\ Shaped(PermitOf(ex)) /\ Moves(PermitOf(ex))
  BY InvTypes, PermitShaped DEF Ledger
<1>4. Same(ex, s) /\ Good(s) /\ s \in Executor
  BY <1>3, SeenSame, SeenSteady DEF Steady, Good
<1> HIDE DEF s, m
<1>5. Keeps(s, p) /\ MayStart(PermitOf(s), PermitOf(p)) /\ Good(p) /\ p \in Executor
  BY <1>4, PollPolled, PollPromise DEF Polled, Good
<1> HIDE DEF p
<1>6. Keeps(p, q) /\ MayStart(PermitOf(p), PermitOf(q)) /\ Good(q) /\ q \in Executor
  BY <1>5, PollPolled, PollPromise DEF Polled, Good
<1>7. Reports(q, e) /\ PermitOf(e) \in Permits!Stepped(PermitOf(q)) /\ Good(e)
  BY <1>2, <1>6, StepPromise, StepSafe DEF Safe
<1>8. ex' = IF e.prog = "Done" THEN Finish(e) ELSE e
  BY <1>1
<1> HIDE DEF e, q
<1>9. Keeps(ex, q) /\ MayStart(PermitOf(ex), PermitOf(q))
  <2>1. PermitOf(s) = PermitOf(ex)
    BY <1>4 DEF Same
  <2>2. MayStart(PermitOf(ex), PermitOf(q))
    BY <1>3, <1>5, <1>6, <2>1, MayStartTwice
  <2> QED BY <1>4, <1>5, <1>6, <2>2 DEF Same, Keeps
<1>10. Moves(PermitOf(q)) /\ Moves(PermitOf(e))
  BY <1>3, <1>7, <1>9, MovesOn, PermitShaped
<1>11. Same(e, ex')
  <2>1. CASE e.prog = "Done"
    <3>1. ~Active(e) /\ PermitOf(e).active = Active(e)
      BY <2>1, PermitFields DEF Active
    <3>2. ~Is(e, "Executing")
      BY <1>10, <3>1, PermitFields, Places DEF Moves, Is
    <3> QED BY <1>7, <1>8, <2>1, <3>1, <3>2, FinishPromise
  <2>2. CASE e.prog # "Done"
    BY <1>8, <2>2 DEF Same, Keeps
  <2> QED BY <2>1, <2>2
<1>12. Reports(ex, ex') /\ PermitOf(ex') = PermitOf(e)
  BY <1>7, <1>9, <1>11 DEF Same, Reports, Keeps, Closes
<1>13. Ledger'
  BY <1>10, <1>12, LedgerReports DEF ResetTurn
<1>14. Permits!PermitNext
  <2>1. PermitOf(q) \in Permits!Observed(PermitOf(ex))
    BY <1>9 DEF MayStart, Permits!Observed
  <2>2. PermitOf(ex') \in UNION {Permits!Stepped(r) : r \in Permits!Observed(PermitOf(ex))}
    BY <1>7, <1>12, <2>1
  <2> QED BY <2>2 DEF Permits!PermitNext
<1> QED BY <1>13, <1>14 DEF Promised

\* A turn of any other alternative.
LEMMA OtherTurnPromise ==
  ASSUME Inv, Inv', Ledger, NEW healthy \in BOOLEAN, NEW trusted \in BOOLEAN, NEW pose,
         OtherTurn(healthy, trusted, pose)
  PROVE  Promised
<1> DEFINE m == Evidence(healthy, trusted)
           s == Seen(ex, pose, trusted)
<1>1. ex' = Poll(s, m)
  BY DEF OtherTurn
<1>2. Good(ex) /\ ex \in Executor /\ Shaped(PermitOf(ex)) /\ Moves(PermitOf(ex))
  BY InvTypes, PermitShaped DEF Ledger
<1>3. Same(ex, s) /\ Good(s) /\ s \in Executor
  BY <1>2, SeenSame, SeenSteady DEF Steady, Good
<1> HIDE DEF s, m
<1>4. Keeps(s, ex') /\ MayStart(PermitOf(s), PermitOf(ex'))
  BY <1>1, <1>3, PollPromise
<1>5. Keeps(ex, ex') /\ MayStart(PermitOf(ex), PermitOf(ex'))
  BY <1>3, <1>4 DEF Same, Keeps
<1>6. Ledger'
  BY <1>2, <1>5, MovesOn, LedgerReports DEF Reports, OtherTurn
<1>7. PermitOf(ex') \in Permits!Observed(PermitOf(ex))
  BY <1>5 DEF MayStart, Permits!Observed
<1>8. Permits!PermitNext
  BY <1>7 DEF Permits!PermitNext
<1> QED BY <1>6, <1>8 DEF Promised

\* A turn.
LEMMA TurnPromise == ASSUME Inv, Inv', Ledger, Turn PROVE Promised
BY ResetTurnPromise, OtherTurnPromise DEF Turn

\* What an ended and destroyed Run leaves.
LEMMA GonePromise ==
  ASSUME Inv, Ledger, NEW outcome \in Outcome,
         NEW a, a = End(ex, outcome), NEW b, b = Finish(a)
  PROVE  /\ Reports(ex, b) /\ ~b.run /\ ~Active(b) /\ Good(b) /\ Moves(PermitOf(b))
         /\ PermitOf(b) \in UNION {Permits!Finished(q) : q \in Permits!Ended(PermitOf(ex))}
<1>1. Good(ex) /\ ex \in Executor /\ Shaped(PermitOf(ex)) /\ Moves(PermitOf(ex))
  BY InvTypes, PermitShaped DEF Ledger
<1>2. /\ Reports(ex, a) /\ ~Active(a) /\ PermitOf(a) \in Permits!Ended(PermitOf(ex)) /\ Good(a)
  BY <1>1, EndPromise, EndSafe DEF Safe
<1>3. Moves(PermitOf(a))
  BY <1>1, <1>2, MovesOn
<1>4. ~Is(a, "Executing") /\ PermitOf(a).at # "Executing"
  <2>1. PermitOf(a).active = Active(a)
    BY PermitFields
  <2>2. PermitOf(a).at # "Executing"
    BY <1>2, <1>3, <2>1 DEF Moves
  <2> QED BY <2>2, PermitFields, Places DEF Is
<1>5. Same(a, b) /\ ~b.run /\ Good(b)
  BY <1>2, <1>4, FinishPromise, FinishSafe DEF Safe
<1>6. PermitOf(b) \in Permits!Finished(PermitOf(a))
  BY <1>4, <1>5 DEF Same, Permits!Finished
<1> QED BY <1>2, <1>3, <1>5, <1>6 DEF Same, Reports, Keeps, Closes

\* Stop, or lost health.
LEMMA LeaveResetPromise ==
  ASSUME Inv, Inv', Ledger, NEW outcome \in Outcome, LeaveReset(outcome)
  PROVE  Promised
<1>1. /\ Reports(ex, ex') /\ Moves(PermitOf(ex'))
      /\ PermitOf(ex') \in UNION {Permits!Finished(q) : q \in Permits!Ended(PermitOf(ex))}
  BY GonePromise DEF LeaveReset
<1>2. Ledger'
  BY <1>1, LedgerReports DEF LeaveReset
<1>3. Permits!PermitNext
  BY <1>1 DEF Permits!PermitNext
<1> QED BY <1>2, <1>3 DEF Promised

\* A Reset begins, with or without one running.
LEMMA BeginResetPromise == ASSUME Inv, Inv', Ledger, BeginReset PROVE Promised
<1> DEFINE a == End(ex, "Stopped")
           b == Finish(a)
<1>1. /\ ex' = Install(b, asked + 1, target) /\ asked' = asked + 1 /\ delivered' = delivered
      /\ CanPrepare(ex)
  BY DEF BeginReset
<1>2. /\ Reports(ex, b) /\ ~b.run /\ ~Active(b) /\ Good(b) /\ Moves(PermitOf(b))
      /\ PermitOf(b) \in UNION {Permits!Finished(q) : q \in Permits!Ended(PermitOf(ex))}
  BY GonePromise DEF Outcome
<1> HIDE DEF a, b
<1>3. asked \in Nat /\ asked + 1 \in Nat /\ target \in BOOLEAN /\ delivered \in Seq(Result)
  BY SessionsAssumption DEF Inv, TypeOK
<1>4. /\ Active(ex') /\ ex'.session = asked + 1 /\ ex'.result = b.result
      /\ ex'.previous = b.previous
      /\ PermitOf(ex') \in Permits!Installed(PermitOf(b))
  BY <1>1, <1>2, <1>3, InstallPromise
<1>5. ex \in Executor /\ b \in Executor /\ Queue(ex) /\ Owed(ex) \in Seq(Result)
  BY <1>2, OwedType DEF Inv, TypeOK, Ledger, Good
<1>6. Owed(ex') = Owed(b)
  BY <1>4 DEF Owed
<1>7. Numbered(Outcomes', asked) /\ ex'.previous = NoResult
  <2>1. CASE Keeps(ex, b)
    <3>1. Owed(b) = Owed(ex) /\ ~Active(ex)
      BY <1>2, <2>1 DEF Keeps, Owed
    <3>2. Outcomes' = Outcomes /\ Over = asked
      BY <1>1, <1>6, <3>1 DEF Outcomes, Over
    <3> QED BY <1>1, <1>4, <2>1, <3>2 DEF Ledger, Keeps, CanPrepare
  <2>2. CASE Closes(ex, b)
    <3>1. delivered \o Owed(b) = Append(delivered \o Owed(ex), b.result)
      BY <1>3, <1>5, <2>2, OwedCloses
    <3>2. Outcomes' = Append(Outcomes, b.result) /\ Outcomes \in Seq(Result)
      BY <1>1, <1>3, <1>5, <1>6, <3>1 DEF Outcomes
    <3>3. Over = asked - 1 /\ Over \in Nat
      <4>1. Over = asked - 1
        BY <2>2 DEF Closes, Over
      <4>2. Len(Outcomes) \in Nat
        BY <3>2
      <4> QED BY <4>1, <4>2 DEF Ledger, Numbered
    <3>4. b.result \in Result /\ b.result.session = Over + 1 /\ Over + 1 = asked
      BY <1>3, <2>2, <3>3 DEF Closes, Ledger
    <3>5. Numbered(Append(Outcomes, b.result), asked)
      BY <3>2, <3>3, <3>4, NumberedAppend DEF Ledger
    <3>6. b.previous = NoResult
      BY <1>1, <2>2 DEF Closes, CanPrepare
    <3> QED BY <1>4, <3>2, <3>5, <3>6
  <2> QED BY <1>2, <2>1, <2>2 DEF Reports
<1>8. Ledger'
  <2>1. Over' = asked
    BY <1>1, <1>3, <1>4 DEF Over
  <2>2. Moves(PermitOf(ex'))
    BY <1>2, <1>4, MovesOn, PermitShaped
  <2> QED BY <1>1, <1>4, <1>7, <2>1, <2>2 DEF Ledger, Queue
<1>9. Permits!PermitNext
  <2>1. PermitOf(ex') \in Permits!Replaced(PermitOf(ex))
    BY <1>2, <1>4 DEF Permits!Replaced
  <2> QED BY <2>1 DEF Permits!PermitNext
<1> QED BY <1>8, <1>9 DEF Promised

\* A grant arrives.
LEMMA DeliverGrantPromise == ASSUME Inv, Inv', Ledger, DeliverGrant PROVE Promised
<1>1. PICK d \in Sendable :
        ex' = [OnGrant([ex EXCEPT !.seqIn = 0], [seq |-> 1, ok |-> TRUE, d |-> d])
                 EXCEPT !.seqIn = 0]
  BY DEF DeliverGrant
<1> DEFINE a == [ex EXCEPT !.seqIn = 0]
           g == [seq |-> 1, ok |-> TRUE, d |-> d]
           e == OnGrant(a, g)
<1>2. Good(ex) /\ ex \in Executor /\ Shaped(PermitOf(ex)) /\ Moves(PermitOf(ex))
      /\ ex.last.id \in Nat
  BY InvTypes, PermitShaped, PermFields DEF Ledger
<1>3. g \in Grant
  BY SendableType DEF Grant
<1>4. Same(ex, a) /\ Good(a)
  <2>1. a \in Executor
    BY <1>2, PutSeqIn
  <2>2. /\ a.perm = ex.perm /\ a.gen = ex.gen /\ a.brake = ex.brake /\ a.ack = ex.ack
        /\ a.last = ex.last /\ a.still = ex.still /\ a.fault = ex.fault
        /\ a.run = ex.run /\ a.prog = ex.prog /\ a.session = ex.session
        /\ a.result = ex.result /\ a.previous = ex.previous /\ a.clockBad = ex.clockBad
    BY <1>2 DEF Executor
  <2> HIDE DEF a
  <2>3. Good(a)
    BY <1>2, <2>1, <2>2, AsideSafe DEF Safe
  <2> QED BY <2>2, <2>3, SameIf
<1> HIDE DEF a, g
<1>5. Reports(a, e) /\ PermitOf(e) \in Permits!Granted(PermitOf(a)) /\ e \in Executor
  BY <1>3, <1>4, OnGrantPromise, OnGrantGood DEF Safe, Good
<1>6. ex' = [e EXCEPT !.seqIn = 0]
  BY <1>1 DEF a, g
<1> HIDE DEF e
<1>7. Same(e, ex')
  <2> DEFINE f == [e EXCEPT !.seqIn = 0]
  <2>1. /\ f.perm = e.perm /\ f.fault = e.fault /\ f.run = e.run /\ f.prog = e.prog
        /\ f.session = e.session /\ f.result = e.result /\ f.previous = e.previous
        /\ f.clockBad = e.clockBad
    BY <1>5 DEF Executor
  <2> HIDE DEF f
  <2>2. Same(e, f)
    BY <2>1, SameIf
  <2> QED BY <1>6, <2>2 DEF f
<1>8. Reports(ex, ex') /\ PermitOf(ex') \in Permits!Granted(PermitOf(ex))
  BY <1>4, <1>5, <1>7 DEF Same, Reports, Keeps, Closes
<1>9. Ledger'
  BY <1>2, <1>8, MovesOn, LedgerReports DEF DeliverGrant
<1>10. Permits!PermitNext
  BY <1>8 DEF Permits!PermitNext
<1> QED BY <1>9, <1>10 DEF Promised

\* The controller reads the edge's receipt of a zero.
LEMMA ReadReceiptPromise == ASSUME Inv, Inv', Ledger, ReadReceipt PROVE Promised
<1>1. Good(ex) /\ ex \in Executor /\ Shaped(PermitOf(ex)) /\ Moves(PermitOf(ex))
  BY InvTypes, PermitShaped DEF Ledger
<1>2. \/ ex' = ex
      \/ ex' = OnZeroPublished(ex, receipt.gen, receipt.ack)
  BY DEF ReadReceipt
<1>3. Keeps(ex, ex') /\ (PermitOf(ex') = PermitOf(ex) \/ PermitOf(ex') = Permits!Zeroed(PermitOf(ex)))
  <2>1. CASE ex' = ex
    BY <2>1 DEF Keeps
  <2>2. CASE ex' = OnZeroPublished(ex, receipt.gen, receipt.ack)
    BY <1>1, <2>2, OnZeroPublishedPromise
  <2> QED BY <1>2, <2>1, <2>2
<1>4. Moves(PermitOf(ex'))
  BY <1>1, <1>3, MovesOn
<1>5. Ledger'
  BY <1>3, <1>4, LedgerReports DEF Reports, ReadReceipt
<1>6. [Permits!PermitNext]_(PermitOf(ex))
  BY <1>3 DEF Permits!PermitNext
<1> QED BY <1>5, <1>6 DEF Promised

\* A step after which the executor looks lost, and otherwise as before.
LEMMA LostStep ==
  ASSUME Inv, Inv', Ledger, Keeps(ex, ex'), asked' = asked, delivered' = delivered,
         PermitOf(ex') \in Permits!Observed(PermitOf(ex))
  PROVE  Promised
<1>1. Ledger'
  BY MovesOn, PermitShaped, LedgerReports DEF Ledger, Reports
<1>2. Permits!PermitNext
  BY DEF Permits!PermitNext
<1> QED BY <1>1, <1>2 DEF Promised

\* A Session goes to the edge; its counter may be at its end.
LEMMA PublishSessionPromise ==
  ASSUME Inv, Inv', Ledger, NEW exhausted \in BOOLEAN, PublishSession(exhausted)
  PROVE  Promised
<1>1. ex \in Executor
  BY InvTypes
<1>2. /\ ex' = [ex EXCEPT !.fault = ex.fault \/ exhausted]
      /\ asked' = asked /\ delivered' = delivered
  BY DEF PublishSession, MarkPublished
<1>3. /\ ex'.run = ex.run /\ ex'.prog = ex.prog /\ ex'.session = ex.session
      /\ ex'.result = ex.result /\ ex'.previous = ex.previous /\ ex'.perm = ex.perm
      /\ ex'.clockBad = ex.clockBad /\ ex'.fault = (ex.fault \/ exhausted)
  BY <1>1, <1>2 DEF Executor
<1>4. CASE exhausted
  <2>1. ex'.fault \/ ex'.clockBad
    BY <1>3, <1>4
  <2> QED BY <1>2, <1>3, <2>1, BadPromise, LostStep
<1>5. CASE ~exhausted
  <2>1. ex'.fault = ex.fault
    <3>1. ex.fault \in BOOLEAN
      BY <1>1 DEF Executor
    <3> QED BY <1>3, <1>5, <3>1
  <2>2. Same(ex, ex')
    BY <1>3, <2>1, SameIf
  <2> QED BY <1>2, <2>2, SameStep
<1> QED BY <1>4, <1>5

\* A Result is handed out.
LEMMA PublishResultPromise == ASSUME Inv, Inv', Ledger, PublishResult PROVE Promised
<1>1. ex \in Executor /\ Queue(ex) /\ delivered \in Seq(Result)
  BY InvTypes DEF Inv, TypeOK, Ledger
<1>2. /\ Queue(ex') /\ (Active(ex') <=> Active(ex)) /\ ex'.session = ex.session
      /\ PermitOf(ex') = PermitOf(ex)
      /\ Append(delivered, PeekResult(ex)) \o Owed(ex') = delivered \o Owed(ex)
  BY <1>1, OwedHandsOut DEF PublishResult
<1>3. Outcomes' = Outcomes /\ Over' = Over
  BY <1>2 DEF PublishResult, Outcomes, Over
<1> QED BY <1>2, <1>3 DEF PublishResult, Promised, Ledger

\* A deadline passes.
LEMMA ElapsePromise ==
  ASSUME Inv, Inv', Ledger, NEW dl \in Deadline, Elapse(dl) PROVE Promised
<1>1. ex \in Executor
  BY InvTypes
<1>2. /\ ex'.run = ex.run /\ ex'.prog = ex.prog /\ ex'.session = ex.session
      /\ ex'.result = ex.result /\ ex'.previous = ex.previous /\ ex'.perm = ex.perm
      /\ ex'.clockBad = ex.clockBad /\ ex'.fault = ex.fault
  BY <1>1 DEF Elapse, Executor
<1> QED BY <1>2, SameIf, SameStep DEF Elapse

\* The clock jumps back.
LEMMA ClockBackPromise == ASSUME Inv, Inv', Ledger, ClockBack PROVE Promised
<1>1. ex \in Executor /\ ex.perm \in Permission
  BY InvTypes, PermFields
<1> DEFINE c == IF Is(ex, "AwaitGo") THEN FALSE ELSE ex.perm.certified
           p == [ex.perm EXCEPT !.certified = c]
<1>2. ex' = [ex EXCEPT !.clockBad = TRUE, !.perm = p]
  BY DEF ClockBack, ClockWentBack
<1>3. p.at = ex.perm.at
  BY <1>1 DEF Permission
<1> HIDE DEF p
<1>4. /\ ex'.run = ex.run /\ ex'.prog = ex.prog /\ ex'.session = ex.session
      /\ ex'.result = ex.result /\ ex'.previous = ex.previous /\ ex'.perm = p
      /\ ex'.clockBad = TRUE
  BY <1>1, <1>2 DEF Executor
<1>5. Keeps(ex, ex') /\ PermitOf(ex') \in Permits!Observed(PermitOf(ex))
  BY <1>3, <1>4, BadPromise
<1> QED BY <1>5, LostStep DEF ClockBack

\* The declared vehicle changes.
LEMMA SpecChangePromise == ASSUME Inv, Inv', Ledger, SpecChange PROVE Promised
<1>1. ex \in Executor /\ Shaped(PermitOf(ex)) /\ Moves(PermitOf(ex))
  BY InvTypes, PermitShaped DEF Ledger
<1>2. Keeps(ex, ex') /\ PermitOf(ex') \in Permits!Respecified(PermitOf(ex))
  BY <1>1, SetSpecPromise DEF SpecChange
<1>3. Ledger'
  BY <1>1, <1>2, MovesOn, LedgerReports DEF Reports, SpecChange
<1>4. Permits!PermitNext
  BY <1>2 DEF Permits!PermitNext
<1> QED BY <1>3, <1>4 DEF Promised

\* Steps that leave the executor and the outcomes alone.
LEMMA AsidePromise ==
  ASSUME Inv, Inv', Ledger, UNCHANGED <<ex, asked, delivered>>
  PROVE  Promised
<1>1. Same(ex, ex')
  BY DEF Same, Keeps
<1> QED BY <1>1, SameStep

-----------------------------------------------------------------------------
(* The theorems.                                                            *)

\* The initial states owe nothing and look new.
LEMMA InitPromise == ASSUME Init PROVE Ledger /\ Permits!PermitInit
<1>1. /\ ex = NewExecutor /\ asked = 0 /\ delivered = <<>>
  BY DEF Init
<1>2. /\ ex.run = FALSE /\ ex.session = 0 /\ ex.result = NoResult /\ ex.previous = NoResult
      /\ ex.fault = FALSE /\ ex.clockBad = FALSE /\ ex.perm.at = "None"
  BY <1>1 DEF NewExecutor, Fresh
<1>3. Active(ex) = FALSE /\ Owed(ex) = <<>> /\ Queue(ex)
  BY <1>2 DEF Active, Owed, Queue
<1>4. Numbered(Outcomes, Over)
  BY <1>1, <1>3 DEF Outcomes, Over, Numbered
<1>5. PermitOf(ex) = Permits!NewPermit
  BY <1>2, <1>3, Places DEF PermitOf, Permits!NewPermit
<1>6. Moves(PermitOf(ex))
  BY <1>2, PermitFields, Places DEF Moves
<1> QED BY <1>1, <1>2, <1>3, <1>4, <1>5, <1>6 DEF Ledger, Permits!PermitInit

\* Every step, one case per action.
LEMMA NextPromise == ASSUME Inv, Ledger, [Next]_vars PROVE Promised
<1>1. Inv'
  BY NextStep DEF Preserved
<1>2. CASE Turn
  BY <1>1, <1>2, TurnPromise
<1>3. CASE BeginReset
  BY <1>1, <1>3, BeginResetPromise
<1>4. ASSUME NEW outcome \in {"Stopped", "AbortedUnhealthy"}, LeaveReset(outcome) PROVE Promised
  BY <1>1, <1>4, LeaveResetPromise DEF Outcome
<1>5. CASE DeliverGrant
  BY <1>1, <1>5, DeliverGrantPromise
<1>6. CASE ReadReceipt
  BY <1>1, <1>6, ReadReceiptPromise
<1>7. ASSUME NEW exhausted \in BOOLEAN, PublishSession(exhausted) PROVE Promised
  BY <1>1, <1>7, PublishSessionPromise
<1>8. CASE PublishResult
  BY <1>1, <1>8, PublishResultPromise
<1>9. CASE TargetArrives \/ EdgePublish \/ BodyMoves \/ BodyRests \/ UNCHANGED vars
  BY <1>1, <1>9, AsidePromise DEF TargetArrives, EdgePublish, BodyMoves, BodyRests, vars
<1>10. ASSUME NEW dl \in Deadline, Elapse(dl) PROVE Promised
  BY <1>1, <1>10, ElapsePromise
<1>11. CASE ClockBack
  BY <1>1, <1>11, ClockBackPromise
<1>12. CASE SpecChange
  BY <1>1, <1>12, SpecChangePromise
<1> QED BY <1>2, <1>3, <1>4, <1>5, <1>6, <1>7, <1>8, <1>9, <1>10, <1>11, <1>12 DEF Next

\* The outcomes owed, the session and the permission belong together in every state.
THEOREM LedgerHolds == Spec => [](Inv /\ Ledger)
<1>1. Init => Inv /\ Ledger
  BY InitInv, InitPromise
<1>2. Inv /\ Ledger /\ [Next]_vars => Inv' /\ Ledger'
  BY NextStep, NextPromise DEF Preserved, Promised
<1> QED BY <1>1, <1>2, PTL DEF Spec

\* Every Reset that is over has exactly one Result, delivered or still owed, and a
\* running one has none (reset_executor.h 268-276, 550-564, 813-831).
THEOREM OneResultForEach == Spec => []OneResultEach
BY LedgerHolds, LedgerOutcomes, PTL

\* The executor is the transaction its owners see: each step of the vehicle is one of
\* the operations of Permit on what they see of it, or changes nothing they see
\* (reset_executor.h 255-263).
THEOREM VehicleImplementsPermit == Spec => ImplementsPermit
<1>1. Init => Permits!PermitInit
  BY InitPromise
<1>2. Inv /\ Ledger /\ [Next]_vars => [Permits!PermitNext]_(PermitOf(ex))
  BY NextPromise DEF Promised
<1> QED BY <1>1, <1>2, LedgerHolds, PTL DEF Spec, ImplementsPermit, Permits!PermitSpec

-----------------------------------------------------------------------------
(* What goes out while the grant has lapsed.                                *)

\* Whoever has to ask again, or is over, does not execute.
LEMMA EndedStands ==
  ASSUME NEW p \in Executor, Active(p), NEW o
  PROVE  ~Is(End(p, o), "Executing")
<1> DEFINE r == [p EXCEPT !.previous = IF p.result # NoResult THEN p.result ELSE @,
                          !.result = [session |-> p.session, outcome |-> o], !.prog = "Done"]
<1>1. End(p, o) = RequestAuthority(r, TRUE)
  BY DEF End
<1>2. r = [r EXCEPT !.prog = "Done"] /\ DOMAIN r = DOMAIN p /\ "perm" \in DOMAIN r
  BY DEF Executor
<1> HIDE DEF r
<1>3. RequestAuthority(r, TRUE).perm = Fresh("AwaitBrake")
  BY <1>2 DEF RequestAuthority
<1>4. End(p, o).perm = Fresh("AwaitBrake")
  BY ONLY <1>1, <1>3
<1>5. Fresh("AwaitBrake").at = "AwaitBrake"
  BY DEF Fresh
<1> QED BY ONLY <1>4, <1>5 DEF Is

\* What goes on executing after the decisions of a turn, with a target and a lapsed grant,
\* has a zero for its command.
LEMMA LapsedStops ==
  ASSUME NEW e, NEW m, NEW t \in TrackerTick, NEW p \in Executor, p = Poll(e, m),
         NEW f, f = Step(e, m, t), Is(f, "Executing"), Active(f), f.valid, "ttl" \in f.due
  PROVE  f.perm.cmd = "zero"
<1> DEFINE g == RequestAuthority(p, FALSE)
           z == [p EXCEPT !.perm.cmd = "zero"]
<1>1. Active(p)
  <2>1. ~Active(p) => f = p
    BY Zenon DEF Step
  <2> QED BY <2>1
<1>2. \A o \in Outcome : f # End(p, o)
  BY <1>1, EndedStands
<1>3. f # Held(g)
  <2>1. g \in Executor /\ g.perm = Fresh("AwaitBrake")
    BY RequestAuthorityFields, RequestAuthorityType
  <2> HIDE DEF g
  <2>2. Held(g).perm = g.perm
    BY <2>1 DEF Held, Executor
  <2> QED BY <2>1, <2>2 DEF Is, Fresh
<1>4. ~p.fault /\ "timeout" \notin p.due
  BY <1>1, <1>2 DEF Step, Outcome
<1>5. CASE ~m.healthy
  <2>1. f = Held(z)
    BY <1>1, <1>4, <1>5 DEF Step
  <2>2. z \in Executor /\ z.perm.cmd = "zero"
    BY DEF Executor, Permission, Twist
  <2> HIDE DEF z
  <2>3. Held(z).perm = z.perm
    BY <2>2 DEF Held, Executor
  <2> QED BY <2>1, <2>2, <2>3
<1>6. CASE m.healthy
  <2>1. Held(p).valid = p.valid /\ Held(p).perm = p.perm
    BY DEF Held, Executor
  <2>2. p.valid
    BY <1>1, <1>2, <1>4, <1>6, <2>1 DEF Step, Outcome
  <2>3. "coordinator" \notin p.due
    BY <1>1, <1>2, <1>4, <1>6, <2>2 DEF Step, Outcome
  <2>4. Is(p, "Executing")
    BY <1>1, <1>4, <1>6, <2>1, <2>2, <2>3 DEF Step, Is
  <2>5. "ttl" \notin p.due
    BY <1>1, <1>3, <1>4, <1>6, <2>2, <2>3, <2>4 DEF Step
  <2>6. f = Follow(p, m, t)
    BY <1>1, <1>3, <1>4, <1>6, <2>2, <2>3, <2>4, <2>5 DEF Step
  <2> DEFINE w == [p EXCEPT !.perm.cmd = t.cmd, !.prog = t.phase]
  <2>7. w.due = p.due
    BY DEF Executor
  <2>8. f = w
    BY <1>2, <1>3, <2>6 DEF Follow, Outcome
  <2> QED BY <2>5, <2>7, <2>8
<1> QED BY <1>5, <1>6

\* A turn with a Reset running puts nothing but a zero out under a lapsed grant.
LEMMA LapsedTurn ==
  ASSUME Inv, Inv', Ledger', NEW healthy \in BOOLEAN, NEW trusted \in BOOLEAN, NEW pose,
         ResetTurn(healthy, trusted, pose), Is(ex', "Executing"), ex'.valid, "ttl" \in ex'.due,
         slot' # slot
  PROVE  slot'.cmd = "zero"
<1> DEFINE m == Evidence(healthy, trusted)
           s == Seen(ex, pose, trusted)
           p == Poll(s, m)
<1>1. PICK t \in Ticks(p) :
        LET e == Step(p, m, t) IN
        /\ ex' = IF e.prog = "Done" THEN Finish(e) ELSE e
        /\ command' = IF e.prog = "Done" THEN "zero" ELSE Commanded(e, e.perm.cmd)
        /\ Output(ex', command')
  BY DEF ResetTurn
<1>2. t \in TrackerTick
  BY DEF Ticks, TrackerTick, Twist
<1> DEFINE q == Poll(p, m)
           e == Step(p, m, t)
<1>3. Good(q)
  <2>1. Good(ex)
    BY InvTypes
  <2>2. Good(s)
    BY <2>1, SeenSteady DEF Steady
  <2> HIDE DEF s, m
  <2>3. Good(p)
    BY <2>2, PollPolled DEF Polled
  <2> HIDE DEF p
  <2> QED BY <2>3, PollPolled DEF Polled
<1>4. /\ ex' = (IF e.prog = "Done" THEN Finish(e) ELSE e)
      /\ command' = (IF e.prog = "Done" THEN "zero" ELSE Commanded(e, e.perm.cmd))
      /\ Output(ex', command')
  BY <1>1
<1>5. Active(ex')
  BY PermitFields, Places DEF Ledger, Moves, Is
<1>6. (e.prog # "Done" /\ ex' = e) => e.perm.cmd = "zero"
  BY <1>2, <1>3, <1>5, LapsedStops DEF Good
<1> HIDE DEF e
<1>7. command' = "zero"
  BY <1>4, <1>6 DEF Commanded
<1> QED BY <1>4, <1>7 DEF Output, Commanded

\* What is executed under one generation is one frozen route, whose prefix only grows
\* (reset_executor.h 320-338), and nothing but a zero goes out once the grant has lapsed
\* (reset_executor.h 402-407, 463-466).
THEOREM VehicleDrivesAsGranted == Spec => DrivesAsGranted
<1> DEFINE Late == Is(ex', "Executing") /\ ex'.valid /\ "ttl" \in ex'.due /\ slot' # slot
                   /\ slot'.fresh
<1>1. ASSUME Inv, Ledger, Next, Late PROVE slot'.cmd = "zero"
  <2>1. Inv' /\ Ledger'
    BY <1>1, NextStep, NextPromise DEF Preserved, Promised
  <2>2. Active(ex')
    BY <1>1, <2>1, PermitFields, Places DEF Ledger, Moves, Is
  <2>3. CASE Turn
    <3>1. PICK healthy \in BOOLEAN, trusted \in BOOLEAN, pose \in {"old", "rest", "moving"} :
            ResetTurn(healthy, trusted, pose) \/ OtherTurn(healthy, trusted, pose)
      BY <2>3 DEF Turn
    <3>2. CASE ResetTurn(healthy, trusted, pose)
      BY <1>1, <2>1, <3>2, LapsedTurn
    <3>3. CASE OtherTurn(healthy, trusted, pose)
      <4> DEFINE s == Seen(ex, pose, trusted)
                 m == Evidence(healthy, trusted)
      <4>1. ~Active(ex) /\ ex' = Poll(s, m)
        BY <3>3 DEF OtherTurn, Active
      <4>2. Good(ex)
        BY <1>1, InvTypes
      <4>3. Same(ex, s) /\ Good(s)
        BY <4>2, SeenSame, SeenSteady DEF Steady, Good
      <4> HIDE DEF s, m
      <4>4. Keeps(s, ex')
        BY <4>1, <4>3, PollPromise DEF Good
      <4> QED BY <2>2, <4>1, <4>3, <4>4 DEF Same, Keeps
    <3> QED BY <3>1, <3>2, <3>3
  <2>4. CASE BeginReset \/ (\E outcome \in {"Stopped", "AbortedUnhealthy"} : LeaveReset(outcome))
    BY <1>1, <2>4 DEF BeginReset, LeaveReset, Output, Commanded
  <2>5. CASE EdgePublish
    BY <1>1, <2>5, InvTypes DEF EdgePublish
  <2>6. CASE ~(Turn \/ BeginReset \/ EdgePublish
               \/ (\E outcome \in {"Stopped", "AbortedUnhealthy"} : LeaveReset(outcome)))
    BY <1>1, <2>6 DEF Next, TargetArrives, DeliverGrant, ReadReceipt, PublishSession,
          PublishResult, BodyMoves, BodyRests, Elapse, ClockBack, SpecChange
  <2> QED BY <2>3, <2>4, <2>5, <2>6
<1>2. Inv /\ [Next]_vars => Frozen(ex, ex')
  BY NextStep DEF Preserved
<1>3. Inv /\ Ledger /\ [Next]_vars =>
        [Is(ex', "Executing")
           => /\ Is(ex, "Executing") =>
                   ex'.gen = ex.gen /\ ex'.perm.route = ex.perm.route /\ ex'.perm.lim >= ex.perm.lim
              /\ (ex'.valid /\ "ttl" \in ex'.due /\ slot' # slot /\ slot'.fresh)
                   => slot'.cmd = "zero"]_vars
  BY <1>1, <1>2 DEF Frozen
<1> QED BY <1>3, LedgerHolds, PTL DEF Spec, DrivesAsGranted

=============================================================================
