-------------------------- MODULE ResetSystemProofs --------------------------
(***************************************************************************)
(* No two vehicles meet, for every fleet, every graph of cells, every        *)
(* situation and every schedule: the fleet implements the leases, and leases *)
(* exclude.                                                                  *)
(*                                                                           *)
(* The invariant (FleetInv) says of each vehicle what the station relies on  *)
(* (ResetStationProofs, Suits): which Sessions, decisions and permissions    *)
(* there may be, in a channel or in the executor, beside what is planned for *)
(* it.  Lemmas about values say that a turn of the executor (Follows), a     *)
(* move of the body, a loss and a step of the station (Serves) keep it; the  *)
(* lemmas about steps put them together.                                     *)
(***************************************************************************)
EXTENDS ResetSystem, ResetStationProofs

-----------------------------------------------------------------------------
(* The executor: what a turn does to it while the plan of its vehicle stays  *)
(* what it is.                                                               *)

ExFields ==
  {"run", "prog", "session", "valid", "heard", "perm", "gen", "brake", "ack", "last", "seqIn",
   "fault", "clockBad", "still", "result", "previous", "due"}
PermFields == {"at", "certified", "deferred", "route", "lim", "cmd"}

\* What is deferred is a GO.
Minded(e) ==
  /\ DOMAIN e = ExFields /\ DOMAIN e.perm = PermFields /\ e.fault \in BOOLEAN
  /\ e.perm.deferred = V!NoDecision \/ e.perm.deferred.st = "Go"

\* What is permitted is within the plan b.
Bounded(b, e) ==
  /\ e.perm.at = "Executing" =>
       /\ HasPlan(b) /\ b.plan.gen = e.gen /\ b.plan.route = e.perm.route
       /\ e.perm.lim \in Nat /\ e.perm.lim <= b.plan.lim
  /\ e.perm.deferred.st = "Go" =>
       /\ e.perm.deferred.id \in Nat /\ e.perm.deferred.id < b.next
       /\ e.perm.deferred.gen = e.gen /\ Within(b, e.perm.deferred)

\* The executor a has become e in a turn.
Follows(b, a, e) ==
  /\ Minded(e) /\ Bounded(b, e)
  /\ a.gen \in Nat /\ e.gen \in Nat /\ a.gen <= e.gen
  /\ b.next \in Nat /\ e.brake \in Nat /\ e.ack \in Nat /\ e.brake < b.next /\ e.ack < b.next
  /\ e.fault => e.perm.at = "AwaitBrake"
  /\ e.perm.at \in {"AwaitZero", "AwaitStopped", "AwaitGo"} => e.ack = e.brake
  /\ (e.gen = a.gen /\ ~e.fault)
       => ~a.fault /\ (a.perm.at \in Stood => e.perm.at \in Stood /\ e.brake = a.brake)

\* A change of what is no part of a permission.
LEMMA SameFollows ==
  ASSUME NEW b, NEW a, NEW e, Follows(b, a, e), NEW q, DOMAIN q = ExFields, q.perm = e.perm,
         q.gen = e.gen, q.brake = e.brake, q.ack = e.ack, q.fault = e.fault
  PROVE  Follows(b, a, q)
BY DEF Follows, Minded, Bounded

\* A permission of the same kind that allows the same.
LEMMA PermFollows ==
  ASSUME NEW b, NEW a, NEW e, Follows(b, a, e), NEW q, DOMAIN q = ExFields,
         DOMAIN q.perm = PermFields, q.perm.at = e.perm.at, q.perm.deferred = e.perm.deferred,
         q.perm.route = e.perm.route, q.perm.lim = e.perm.lim,
         q.gen = e.gen, q.brake = e.brake, q.ack = e.ack, q.fault = e.fault
  PROVE  Follows(b, a, q)
BY DEF Follows, Minded, Bounded

LEMMA FreshIs ==
  ASSUME NEW s, NEW p, p = V!Fresh(s)
  PROVE  /\ DOMAIN p = PermFields /\ p.at = s /\ p.deferred = V!NoDecision
         /\ p.deferred.st = "Hold" /\ p.certified = FALSE
BY DEF V!Fresh, V!NoDecision, PermFields

\* A permission that is new, of the same request or the next one.
LEMMA AfreshFollows ==
  ASSUME NEW b, NEW a, NEW e, Follows(b, a, e), NEW q, NEW s, q.perm = V!Fresh(s),
         DOMAIN q = ExFields, s \in {"AwaitBrake", "AwaitZero", "AwaitStopped", "AwaitGo", "Complete"},
         q.gen \in Nat, e.gen <= q.gen, q.fault \in BOOLEAN,
         q.brake \in Nat, q.ack \in Nat, q.brake < b.next, q.ack < b.next,
         q.fault => s = "AwaitBrake",
         s \in {"AwaitZero", "AwaitStopped", "AwaitGo"} => q.ack = q.brake,
         (q.gen = e.gen /\ ~q.fault)
           => ~e.fault /\ (e.perm.at \in Stood => s \in Stood /\ q.brake = e.brake)
  PROVE  Follows(b, a, q)
<1>1. /\ DOMAIN q.perm = PermFields /\ q.perm.at = s /\ q.perm.deferred = V!NoDecision
      /\ q.perm.deferred.st = "Hold"
  BY FreshIs
<1>2. Minded(q) /\ Bounded(b, q)
  BY <1>1 DEF Minded, Bounded
<1>3. (q.gen = a.gen /\ ~q.fault)
        => ~a.fault /\ (a.perm.at \in Stood => q.perm.at \in Stood /\ q.brake = a.brake)
  <2> HAVE q.gen = a.gen /\ ~q.fault
  <2>1. e.gen = a.gen /\ q.gen = e.gen
    BY DEF Follows
  <2>2. ~e.fault /\ (e.perm.at \in Stood => s \in Stood /\ q.brake = e.brake)
    BY <2>1
  <2> QED
    BY <1>1, <2>1, <2>2 DEF Follows
<1>4. a.gen <= q.gen
  BY DEF Follows
<1> QED
  BY <1>1, <1>2, <1>3, <1>4 DEF Follows

\* Whoever asks again has no permission.
LEMMA AuthorityFollows ==
  ASSUME NEW b, NEW a, NEW e, Follows(b, a, e), NEW terminal,
         NEW q, q = V!RequestAuthority(e, terminal)
  PROVE  Follows(b, a, q)
<1>1. /\ DOMAIN q = ExFields /\ q.perm = V!Fresh("AwaitBrake") /\ q.brake = 0 /\ q.ack = 0
      /\ q.gen = IF e.gen = MaxGen THEN e.gen ELSE e.gen + 1
      /\ q.fault = IF e.gen = MaxGen THEN TRUE ELSE e.fault
  BY DEF V!RequestAuthority, Follows, Minded, ExFields
<1>2. /\ e.gen \in Nat /\ e.fault \in BOOLEAN /\ b.next \in Nat /\ 0 < b.next
  BY DEF Follows, Minded
<1>3. /\ q.gen \in Nat /\ e.gen <= q.gen /\ q.fault \in BOOLEAN
      /\ ~(q.gen = e.gen /\ ~q.fault)
  <2>1. CASE e.gen = MaxGen
    BY <1>1, <1>2, <2>1
  <2>2. CASE e.gen # MaxGen
    <3>1. q.gen = e.gen + 1 /\ q.fault = e.fault
      BY <1>1, <2>2
    <3> QED
      BY <1>2, <3>1
  <2> QED
    BY <2>1, <2>2
<1> DEFINE s == "AwaitBrake"
<1>4. /\ q.perm = V!Fresh(s) /\ DOMAIN q = ExFields
      /\ s \in {"AwaitBrake", "AwaitZero", "AwaitStopped", "AwaitGo", "Complete"}
      /\ q.brake \in Nat /\ q.ack \in Nat /\ q.brake < b.next /\ q.ack < b.next
      /\ q.fault => s = "AwaitBrake"
      /\ s \in {"AwaitZero", "AwaitStopped", "AwaitGo"} => q.ack = q.brake
  BY <1>1, <1>2
<1>5. (q.gen = e.gen /\ ~q.fault)
        => ~e.fault /\ (e.perm.at \in Stood => s \in Stood /\ q.brake = e.brake)
  BY <1>3
<1> HIDE DEF s
<1> QED
  BY ONLY <1>3, <1>4, <1>5, AfreshFollows, Follows(b, a, e)

LEMMA EndFollows ==
  ASSUME NEW b, NEW a, NEW e, Follows(b, a, e), NEW outcome, NEW q, q = V!End(e, outcome)
  PROVE  Follows(b, a, q)
<1> DEFINE x1 == IF e.result # V!NoResult THEN e.result ELSE e.previous
           x2 == [session |-> e.session, outcome |-> outcome]
           f  == [e EXCEPT !.previous = x1, !.result = x2, !.prog = "Done"]
           r  == V!RequestAuthority(f, TRUE)
<1>1. q \in {e, r}
  BY DEF V!End
<1> HIDE DEF x1, x2
<1>2. Follows(b, a, f)
  <2>1. /\ DOMAIN f = ExFields /\ f.perm = e.perm /\ f.gen = e.gen /\ f.brake = e.brake
        /\ f.ack = e.ack /\ f.fault = e.fault
    BY DEF Follows, Minded, ExFields
  <2> HIDE DEF f
  <2> QED
    BY <2>1, SameFollows
<1> HIDE DEF f
<1>3. Follows(b, a, r)
  BY <1>2, AuthorityFollows
<1> QED
  BY <1>1, <1>3

LEMMA FinishFollows ==
  ASSUME NEW b, NEW a, NEW e, Follows(b, a, e), NEW q, q = V!Finish(e)
  PROVE  Follows(b, a, q)
<1> DEFINE r == V!RequestAuthority(e, TRUE)
           Gone(d) == [d EXCEPT !.run = FALSE, !.prog = "Idle", !.valid = FALSE,
                                !.heard = FALSE, !.due = {}]
<1>1. q \in {e, Gone(e), Gone(r)}
  BY DEF V!Finish
<1>2. ASSUME NEW d, Follows(b, a, d) PROVE Follows(b, a, Gone(d))
  <2> DEFINE f == Gone(d)
  <2>1. /\ DOMAIN f = ExFields /\ f.perm = d.perm /\ f.gen = d.gen /\ f.brake = d.brake
        /\ f.ack = d.ack /\ f.fault = d.fault
    BY <1>2 DEF Follows, Minded, ExFields
  <2> HIDE DEF f
  <2>2. Follows(b, a, f)
    BY <1>2, <2>1, SameFollows
  <2> QED
    BY <2>2 DEF f
<1>3. Follows(b, a, r)
  BY AuthorityFollows
<1> HIDE DEF r, Gone
<1> QED
  BY <1>1, <1>2, <1>3

LEMMA InstallFollows ==
  ASSUME NEW b, NEW a, NEW e, Follows(b, a, e), NEW session, NEW valid,
         NEW q, q = V!Install(e, session, valid)
  PROVE  Follows(b, a, q)
<1> DEFINE n == V!End(e, "Stopped")
           d == V!Finish(n)
           f == [d EXCEPT !.run = TRUE, !.session = session, !.valid = valid]
<1>1. q = V!RequestAuthority(f, FALSE)
  BY DEF V!Install
<1>2. Follows(b, a, n)
  BY EndFollows
<1> HIDE DEF n
<1>3. Follows(b, a, d)
  BY <1>2, FinishFollows
<1> HIDE DEF d
<1>4. Follows(b, a, f)
  <2>1. /\ DOMAIN f = ExFields /\ f.perm = d.perm /\ f.gen = d.gen /\ f.brake = d.brake
        /\ f.ack = d.ack /\ f.fault = d.fault
    BY <1>3 DEF Follows, Minded, ExFields
  <2> HIDE DEF f
  <2> QED
    BY <1>3, <2>1, SameFollows
<1> HIDE DEF f
<1> QED
  BY <1>1, <1>4, AuthorityFollows

LEMMA ZeroFollows ==
  ASSUME NEW b, NEW a, NEW e, Follows(b, a, e), NEW gen, NEW brake,
         NEW q, q = V!OnZeroPublished(e, gen, brake)
  PROVE  Follows(b, a, q)
<1> DEFINE r == [e EXCEPT !.perm = V!Fresh("AwaitStopped"), !.still = FALSE]
<1>1. q = e \/ (q = r /\ e.perm.at = "AwaitZero" /\ ~e.fault)
  BY DEF V!OnZeroPublished, V!Is
<1>2. ASSUME e.perm.at = "AwaitZero", ~e.fault PROVE Follows(b, a, r)
  <2> DEFINE s == "AwaitStopped"
  <2>1. /\ r.perm = V!Fresh(s) /\ DOMAIN r = ExFields /\ r.gen = e.gen /\ r.brake = e.brake
        /\ r.ack = e.ack /\ r.fault = e.fault
    BY DEF Follows, Minded, ExFields
  <2> HIDE DEF r
  <2>2. /\ s \in {"AwaitBrake", "AwaitZero", "AwaitStopped", "AwaitGo", "Complete"}
        /\ r.gen \in Nat /\ e.gen <= r.gen /\ r.fault \in BOOLEAN
        /\ r.brake \in Nat /\ r.ack \in Nat /\ r.brake < b.next /\ r.ack < b.next
        /\ r.fault => s = "AwaitBrake"
        /\ s \in {"AwaitZero", "AwaitStopped", "AwaitGo"} => r.ack = r.brake
    BY <1>2, <2>1 DEF Follows, Minded
  <2>3. (r.gen = e.gen /\ ~r.fault)
          => ~e.fault /\ (e.perm.at \in Stood => s \in Stood /\ r.brake = e.brake)
    BY <1>2 DEF Stood
  <2> HIDE DEF s
  <2> QED
    BY ONLY <2>1, <2>2, <2>3, AfreshFollows, Follows(b, a, e)
<1> HIDE DEF r
<1> QED
  BY <1>1, <1>2

LEMMA ObserveFollows ==
  ASSUME NEW b, NEW a, NEW e, Follows(b, a, e), NEW x, NEW y, NEW q,
         q = V!Observe(e, x, y)
  PROVE  Follows(b, a, q)
<1>1. \E z : q = [e EXCEPT !.still = z]
  BY DEF V!Observe
<1>2. /\ DOMAIN q = ExFields /\ q.perm = e.perm /\ q.gen = e.gen /\ q.brake = e.brake
      /\ q.ack = e.ack /\ q.fault = e.fault
  BY <1>1 DEF Follows, Minded, ExFields
<1> QED
  BY <1>2, SameFollows

\* A decision that is within the plan is taken up.
LEMMA GrantFollows ==
  ASSUME NEW b, NEW a, NEW e, Follows(b, a, e), NEW d, d.st \in Restraint \cup {"Go"},
         d.id \in Nat, d.id < b.next, d.st = "Go" /\ d.gen = e.gen => Within(b, d),
         NEW g, g.d = d, NEW q, q = V!OnGrant(e, g)
  PROVE  Follows(b, a, q)
<1> DEFINE x1 == e.heard \/ e.run
           x2 == e.due \ {"coordinator"}
           h  == [e EXCEPT !.seqIn = g.seq, !.last = d, !.heard = x1, !.due = x2]
<1>0. q = e \/ (/\ V!Answers(e, g) /\ V!Admits(e, d)
                /\ q = CASE d.st = "Brake"  -> V!OnBrake(h, d)
                         [] d.st = "Go"     -> V!OnGo(h, d)
                         [] d.st = "Hold"   -> V!OnHold(h, d)
                         [] d.st = "Reject" -> V!OnReject(h, d))
  BY DEF V!OnGrant
<1>1. /\ DOMAIN h = ExFields /\ h.perm = e.perm /\ h.gen = e.gen /\ h.brake = e.brake
      /\ h.ack = e.ack /\ h.fault = e.fault
  BY DEF Follows, Minded, ExFields
<1> HIDE DEF h
<1>2. Follows(b, a, h)
  BY <1>1, SameFollows
<1>3. ASSUME V!Answers(e, g), V!Admits(e, d) PROVE ~h.fault /\ d.gen = h.gen
  BY <1>1, <1>3 DEF V!Answers
<1>4. CASE q = e
  BY <1>4
<1>5. CASE /\ V!Answers(e, g) /\ V!Admits(e, d) /\ d.st = "Brake" /\ q = V!OnBrake(h, d)
  <2> DEFINE r == [h EXCEPT !.brake = d.id, !.ack = d.id, !.perm = V!Fresh("AwaitZero")]
             n == V!RequestAuthority(h, ~V!Active(h))
  <2>1. (q = r /\ h.perm.at = "AwaitBrake") \/ q \in {n, h}
    BY <1>5 DEF V!OnBrake, V!Is
  <2>2. Follows(b, a, n)
    BY <1>2, AuthorityFollows
  <2>3. ASSUME h.perm.at = "AwaitBrake" PROVE Follows(b, a, r)
    <3> DEFINE s == "AwaitZero"
    <3>1. /\ r.perm = V!Fresh(s) /\ DOMAIN r = ExFields /\ r.gen = h.gen /\ r.brake = d.id
          /\ r.ack = d.id /\ r.fault = h.fault
      BY <1>1 DEF ExFields
    <3> HIDE DEF r
    <3>2. /\ s \in {"AwaitBrake", "AwaitZero", "AwaitStopped", "AwaitGo", "Complete"}
          /\ r.gen \in Nat /\ h.gen <= r.gen /\ r.fault \in BOOLEAN
          /\ r.brake \in Nat /\ r.ack \in Nat /\ r.brake < b.next /\ r.ack < b.next
          /\ r.fault => s = "AwaitBrake"
          /\ s \in {"AwaitZero", "AwaitStopped", "AwaitGo"} => r.ack = r.brake
      BY <1>2, <1>3, <1>5, <3>1 DEF Follows, Minded
    <3>3. (r.gen = h.gen /\ ~r.fault)
            => ~h.fault /\ (h.perm.at \in Stood => s \in Stood /\ r.brake = h.brake)
      BY <2>3, <3>1 DEF Stood
    <3> HIDE DEF s
    <3> QED
      BY ONLY <1>2, <3>1, <3>2, <3>3, AfreshFollows
  <2> HIDE DEF n, r
  <2> QED
    BY <1>2, <2>1, <2>2, <2>3
<1>6. CASE /\ V!Answers(e, g) /\ V!Admits(e, d) /\ d.st = "Go" /\ q = V!OnGo(h, d)
  <2>0. Within(b, d) /\ d.gen = h.gen /\ ~h.fault
    BY <1>1, <1>3, <1>6
  <2>1. CASE h.perm.at = "Executing"
    <3> DEFINE x3 == h.due \ {"ttl"}
    <3>1. q = [h EXCEPT !.due = x3, !.ack = d.id, !.perm.lim = d.lim]
      BY <1>6, <2>1 DEF V!OnGo, V!Is
    <3> HIDE DEF x3
    <3>2. /\ DOMAIN q = ExFields /\ q.gen = h.gen /\ q.brake = h.brake /\ q.ack = d.id
          /\ q.fault = h.fault /\ DOMAIN q.perm = PermFields
          /\ q.perm.at = h.perm.at /\ q.perm.deferred = h.perm.deferred
          /\ q.perm.route = h.perm.route /\ q.perm.lim = d.lim
      BY <1>2, <3>1 DEF Follows, Minded, ExFields, PermFields
    <3>3. Bounded(b, q)
      BY <1>2, <2>0, <2>1, <3>2 DEF Follows, Bounded, Within
    <3>4. Minded(q)
      BY <1>2, <3>2 DEF Follows, Minded
    <3> QED
      BY <1>2, <2>1, <3>2, <3>3, <3>4 DEF Follows
  <2>2. CASE h.perm.at # "Executing"
    <3> DEFINE x3 == h.due \ {"ttl"}
    <3>1. q = [h EXCEPT !.due = x3, !.perm.deferred = d]
      BY <1>6, <2>2 DEF V!OnGo, V!Is
    <3> HIDE DEF x3
    <3>2. /\ DOMAIN q = ExFields /\ q.gen = h.gen /\ q.brake = h.brake /\ q.ack = h.ack
          /\ q.fault = h.fault /\ DOMAIN q.perm = PermFields
          /\ q.perm.at = h.perm.at /\ q.perm.deferred = d
      BY <1>2, <3>1 DEF Follows, Minded, ExFields, PermFields
    <3>3. Bounded(b, q)
      BY <2>0, <2>2, <3>2 DEF Bounded
    <3>4. Minded(q)
      BY <1>2, <1>6, <3>2 DEF Follows, Minded
    <3> QED
      BY <1>2, <2>2, <3>2, <3>3, <3>4 DEF Follows
  <2> QED
    BY <2>1, <2>2
<1>7. CASE /\ V!Answers(e, g) /\ V!Admits(e, d) /\ d.st = "Hold" /\ q = V!OnHold(h, d)
  <2> DEFINE r == [h EXCEPT !.ack = d.id, !.perm = V!Fresh("Complete")]
  <2>1. (q = r /\ h.perm.at = "AwaitGo") \/ q = h
    BY <1>7 DEF V!OnHold, V!Is
  <2>2. ASSUME h.perm.at = "AwaitGo" PROVE Follows(b, a, r)
    <3> DEFINE s == "Complete"
    <3>1. /\ r.perm = V!Fresh(s) /\ DOMAIN r = ExFields /\ r.gen = h.gen /\ r.brake = h.brake
          /\ r.ack = d.id /\ r.fault = h.fault
      BY <1>1 DEF ExFields
    <3> HIDE DEF r
    <3>2. /\ s \in {"AwaitBrake", "AwaitZero", "AwaitStopped", "AwaitGo", "Complete"}
          /\ r.gen \in Nat /\ h.gen <= r.gen /\ r.fault \in BOOLEAN
          /\ r.brake \in Nat /\ r.ack \in Nat /\ r.brake < b.next /\ r.ack < b.next
          /\ r.fault => s = "AwaitBrake"
          /\ s \in {"AwaitZero", "AwaitStopped", "AwaitGo"} => r.ack = r.brake
      BY <1>2, <1>3, <1>7, <3>1 DEF Follows, Minded
    <3>3. (r.gen = h.gen /\ ~r.fault)
            => ~h.fault /\ (h.perm.at \in Stood => s \in Stood /\ r.brake = h.brake)
      BY <2>2, <3>1 DEF Stood
    <3> HIDE DEF s
    <3> QED
      BY ONLY <1>2, <3>1, <3>2, <3>3, AfreshFollows
  <2> HIDE DEF r
  <2> QED
    BY <1>2, <2>1, <2>2
<1>8. CASE /\ V!Answers(e, g) /\ V!Admits(e, d) /\ d.st = "Reject" /\ q = V!OnReject(h, d)
  <2>1. \E o : q = V!End(h, o)
    BY <1>8 DEF V!OnReject
  <2> QED
    BY <1>2, <2>1, EndFollows
<1>9. CASE V!Answers(e, g) /\ V!Admits(e, d) /\ q # e
  <2>1. CASE d.st = "Brake"
    BY <1>0, <1>5, <1>9, <2>1
  <2>2. CASE d.st = "Go"
    BY <1>0, <1>6, <1>9, <2>2
  <2>3. CASE d.st = "Hold"
    BY <1>0, <1>7, <1>9, <2>3
  <2>4. CASE d.st = "Reject"
    BY <1>0, <1>8, <1>9, <2>4
  <2> QED
    BY <2>1, <2>2, <2>3, <2>4 DEF Restraint
<1> QED
  BY <1>0, <1>4, <1>9

\* A stop is certified, and then certified again.
LEMMA CertifyFollows ==
  ASSUME NEW b, NEW a, NEW e, Follows(b, a, e), ~e.fault, NEW m, NEW q, q = V!Certify(e, m)
  PROVE  Follows(b, a, q)
<1> DEFINE c == V!CausalStopped(e, m)
           p == [V!Fresh("AwaitGo") EXCEPT !.certified = TRUE]
           r == [e EXCEPT !.perm = p]
           s == [e EXCEPT !.perm.certified = c]
<1>1. (q = r /\ e.perm.at = "AwaitStopped") \/ q \in {s, e}
  BY DEF V!Certify, V!Is
<1> HIDE DEF c
<1>2. Follows(b, a, s)
  <2>1. /\ DOMAIN s = ExFields /\ s.gen = e.gen /\ s.brake = e.brake /\ s.ack = e.ack
        /\ s.fault = e.fault /\ DOMAIN s.perm = PermFields
        /\ s.perm.at = e.perm.at /\ s.perm.deferred = e.perm.deferred
        /\ s.perm.route = e.perm.route /\ s.perm.lim = e.perm.lim
    BY DEF Follows, Minded, ExFields, PermFields
  <2> HIDE DEF s
  <2> QED
    BY <2>1, PermFollows
<1>3. ASSUME e.perm.at = "AwaitStopped" PROVE Follows(b, a, r)
  <2>1. /\ DOMAIN p = PermFields /\ p.at = "AwaitGo" /\ p.deferred = V!NoDecision
        /\ p.deferred.st = "Hold"
    BY DEF V!Fresh, V!NoDecision, PermFields
  <2> HIDE DEF p
  <2>2. /\ DOMAIN r = ExFields /\ r.gen = e.gen /\ r.brake = e.brake /\ r.ack = e.ack
        /\ r.fault = e.fault /\ r.perm = p
    BY DEF Follows, Minded, ExFields
  <2> HIDE DEF r
  <2>3. Minded(r) /\ Bounded(b, r)
    BY <2>1, <2>2 DEF Minded, Bounded, Follows
  <2> QED
    BY <1>3, <2>1, <2>2, <2>3 DEF Follows, Stood
<1> HIDE DEF r, s
<1> QED
  BY <1>1, <1>2, <1>3

\* What was deferred is started.
LEMMA StartFollows ==
  ASSUME NEW b, NEW a, NEW e, Follows(b, a, e), ~e.fault, e.perm.at = "AwaitGo",
         e.perm.deferred # V!NoDecision, NEW q, q = V!Start(e)
  PROVE  Follows(b, a, q)
<1> DEFINE go == e.perm.deferred
           p  == [V!Fresh("Executing") EXCEPT !.route = go.route, !.lim = go.lim]
<1>1. q = [e EXCEPT !.perm = p, !.ack = go.id, !.prog = "Waiting"]
  BY DEF V!Start
<1>2. /\ go.id \in Nat /\ go.id < b.next /\ go.gen = e.gen /\ Within(b, go)
  BY DEF Follows, Minded, Bounded
<1> HIDE DEF go
<1>3. /\ DOMAIN p = PermFields /\ p.at = "Executing" /\ p.deferred = V!NoDecision
      /\ p.deferred.st = "Hold" /\ p.route = go.route /\ p.lim = go.lim
  BY DEF V!Fresh, V!NoDecision, PermFields
<1> HIDE DEF p
<1>4. /\ DOMAIN q = ExFields /\ q.gen = e.gen /\ q.brake = e.brake /\ q.ack = go.id
      /\ q.fault = e.fault /\ q.perm = p
  BY <1>1 DEF Follows, Minded, ExFields
<1>5. Minded(q)
  BY <1>3, <1>4 DEF Minded, Follows
<1>6. Bounded(b, q)
  BY <1>2, <1>3, <1>4 DEF Bounded, Within
<1> QED
  BY <1>2, <1>3, <1>4, <1>5, <1>6 DEF Follows, Stood

LEMMA PollFollows ==
  ASSUME NEW b, NEW a, NEW e, Follows(b, a, e), NEW m, NEW q, q = V!Poll(e, m)
  PROVE  Follows(b, a, q)
<1> DEFINE c == V!Certify(e, m)
           z == [e EXCEPT !.perm.cmd = "zero"]
           s == V!Start(c)
<1>1. \/ e.fault /\ q = z
      \/ ~e.fault /\ q = c
      \/ ~e.fault /\ q = s /\ V!StopCertified(c) /\ c.perm.deferred # V!NoDecision
  BY DEF V!Poll
<1>2. ASSUME e.fault PROVE Follows(b, a, z)
  <2>1. /\ DOMAIN z = ExFields /\ z.gen = e.gen /\ z.brake = e.brake /\ z.ack = e.ack
        /\ z.fault = e.fault /\ DOMAIN z.perm = PermFields
        /\ z.perm.at = e.perm.at /\ z.perm.deferred = e.perm.deferred
        /\ z.perm.route = e.perm.route /\ z.perm.lim = e.perm.lim
    BY DEF Follows, Minded, ExFields, PermFields
  <2> HIDE DEF z
  <2> QED
    BY <2>1, PermFollows
<1>3. ASSUME ~e.fault PROVE Follows(b, a, c) /\ c.fault = e.fault
  <2>1. Follows(b, a, c)
    BY <1>3, CertifyFollows
  <2>2. c.fault = e.fault
    <3> DEFINE x == V!CausalStopped(e, m)
               p == [V!Fresh("AwaitGo") EXCEPT !.certified = TRUE]
    <3>1. c \in {[e EXCEPT !.perm = p], [e EXCEPT !.perm.certified = x], e}
      BY DEF V!Certify
    <3> HIDE DEF x, p, c
    <3> QED
      BY <3>1 DEF Follows, Minded, ExFields
  <2> QED
    BY <2>1, <2>2
<1> HIDE DEF c, z
<1>4. ASSUME ~e.fault, V!StopCertified(c), c.perm.deferred # V!NoDecision
      PROVE  Follows(b, a, s)
  BY <1>3, <1>4, StartFollows DEF V!StopCertified, V!Is
<1> HIDE DEF s
<1> QED
  BY <1>1, <1>2, <1>3, <1>4

LEMMA HeldFollows ==
  ASSUME NEW b, NEW a, NEW e, Follows(b, a, e), NEW q, q = V!Held(e)
  PROVE  Follows(b, a, q)
<1>1. \E x : q = [e EXCEPT !.prog = x]
  BY DEF V!Held
<1>2. /\ DOMAIN q = ExFields /\ q.perm = e.perm /\ q.gen = e.gen /\ q.brake = e.brake
      /\ q.ack = e.ack /\ q.fault = e.fault
  BY <1>1 DEF Follows, Minded, ExFields
<1> QED
  BY <1>2, SameFollows

LEMMA FollowFollows ==
  ASSUME NEW b, NEW a, NEW e, Follows(b, a, e), NEW m, NEW t, NEW q, q = V!Follow(e, m, t)
  PROVE  Follows(b, a, q)
<1> DEFINE x1 == t.cmd
           x2 == t.phase
           f == [e EXCEPT !.perm.cmd = x1, !.prog = x2]
           r == V!RequestAuthority(e, FALSE)
           h == V!Held(r)
<1>1. (\E o : q = V!End(e, o)) \/ q \in {f, h}
  BY DEF V!Follow
<1>2. Follows(b, a, f)
  <2> HIDE DEF x1, x2
  <2>1. /\ DOMAIN f = ExFields /\ f.gen = e.gen /\ f.brake = e.brake /\ f.ack = e.ack
        /\ f.fault = e.fault /\ DOMAIN f.perm = PermFields
        /\ f.perm.at = e.perm.at /\ f.perm.deferred = e.perm.deferred
        /\ f.perm.route = e.perm.route /\ f.perm.lim = e.perm.lim
    BY DEF Follows, Minded, ExFields, PermFields
  <2> HIDE DEF f
  <2> QED
    BY <2>1, PermFollows
<1> HIDE DEF f
<1>3. Follows(b, a, r)
  BY AuthorityFollows
<1> HIDE DEF r
<1>4. Follows(b, a, h)
  BY <1>3, HeldFollows
<1> HIDE DEF h
<1>5. ASSUME NEW o PROVE Follows(b, a, V!End(e, o))
  BY EndFollows
<1> QED
  BY <1>1, <1>2, <1>4, <1>5

LEMMA StepFollows ==
  ASSUME NEW b, NEW a, NEW e, Follows(b, a, e), NEW m, NEW t, NEW q, q = V!Step(e, m, t)
  PROVE  Follows(b, a, q)
<1> DEFINE p == V!Poll(e, m)
           z == [p EXCEPT !.perm.cmd = "zero"]
           hz == V!Held(z)
           hp == V!Held(p)
           r == V!RequestAuthority(p, FALSE)
           hr == V!Held(r)
           f == V!Follow(p, m, t)
<1>1. (\E o : q = V!End(p, o)) \/ q \in {p, hz, hp, hr, f}
  BY DEF V!Step
<1>2. Follows(b, a, p)
  BY PollFollows
<1> HIDE DEF p
<1>3. Follows(b, a, z)
  <2>1. /\ DOMAIN z = ExFields /\ z.gen = p.gen /\ z.brake = p.brake /\ z.ack = p.ack
        /\ z.fault = p.fault /\ DOMAIN z.perm = PermFields
        /\ z.perm.at = p.perm.at /\ z.perm.deferred = p.perm.deferred
        /\ z.perm.route = p.perm.route /\ z.perm.lim = p.perm.lim
    BY <1>2 DEF Follows, Minded, ExFields, PermFields
  <2> HIDE DEF z
  <2> QED
    BY <1>2, <2>1, PermFollows
<1> HIDE DEF z
<1>4. Follows(b, a, r)
  BY <1>2, AuthorityFollows
<1> HIDE DEF r
<1>5. Follows(b, a, hz) /\ Follows(b, a, hp) /\ Follows(b, a, hr)
  BY <1>2, <1>3, <1>4, HeldFollows
<1>6. Follows(b, a, f)
  BY <1>2, FollowFollows
<1> HIDE DEF hz, hp, hr, f
<1>7. ASSUME NEW o PROVE Follows(b, a, V!End(p, o))
  BY <1>2, EndFollows
<1> QED
  BY <1>1, <1>2, <1>5, <1>6, <1>7

LEMMA SettledFollows ==
  ASSUME NEW b, NEW a, NEW e, Follows(b, a, e), NEW q, q = Settled(e)
  PROVE  Follows(b, a, q)
<1>1. /\ DOMAIN q = ExFields /\ q.perm = e.perm /\ q.gen = e.gen /\ q.brake = e.brake
      /\ q.ack = e.ack /\ q.fault = e.fault
  BY DEF Settled, Follows, Minded, ExFields
<1> QED
  BY <1>1, SameFollows

\* What a decision on its way may do to the executor.
Heedful(b, e, ds) ==
  /\ Listed(ds)
  /\ \A i \in DOMAIN ds : LET d == ds[i] IN
       /\ d.st \in Restraint \cup {"Go"} /\ d.id \in Nat /\ d.id < b.next
       /\ d.st = "Go" /\ d.gen = e.gen => Within(b, d)

\* What a turn of the vehicle makes of it once it has become m.
Outcome(v, m) ==
  [ex |-> Settled(m), ahead |-> Ahead(v, m), up |-> Publishes(v, Says(v, m)),
   down |-> After(down[v], Lesser(1, Len(down[v])))]

\* Whatever a turn does, what it permits is within the plan of the vehicle
\* (reset_executor.h onGrant, step).
LEMMA TurnedFollows ==
  ASSUME NEW v, NEW b, Follows(b, ex[v], ex[v]), Heedful(b, ex[v], down[v]),
         NEW settling, NEW f, NEW n \in Turned(v, settling, f)
  PROVE  \E m : Follows(b, ex[v], m) /\ n = Outcome(v, m)
<1> DEFINE e == ex[v]
           i == Lesser(1, Len(down[v]))
           c == [e EXCEPT !.seqIn = 0]
           k == V!OnGrant(c, [seq |-> 1, ok |-> TRUE, d |-> down[v][i]])
           gr == [k EXCEPT !.seqIn = 0]
           g == IF i = 0 THEN e ELSE gr
           zr == V!OnZeroPublished(g, e.gen, e.brake)
           z == IF V!Is(e, "AwaitZero") THEN zr ELSE g
           y == [z EXCEPT !.due = IF f = "lapse" THEN {"ttl"} ELSE {}]
           o == V!Observe(y, TRUE, TRUE)
           p == V!Poll(o, Healthy)
           t == V!Step(o, Healthy, Tick(v, p, settling, f = "tube"))
           tf == V!Finish(t)
           w == IF t.prog = "Done" THEN tf ELSE t
           en == V!Finish(V!End(w, "Stopped"))
           ins == V!Install(w, w.session + 1, TRUE)
           can == /\ f = "lapse" => V!Is(g, "Executing")
                  /\ f = "tube" => V!Is(p, "Executing") /\ Index(v, p) < Reach(p)
<1>1. PICK m \in Orders(v, w, f = "stop") : n = Outcome(v, m)
  <2>1. n \in {Outcome(v, m) : m \in IF can THEN Orders(v, w, f = "stop") ELSE {}}
    BY Zenon DEF Turned, Outcome
  <2> QED
    BY <2>1
<1>2. m \in {w, en, ins}
  <2>1. m \in Orders(v, w, f = "stop")
    BY <1>1
  <2> HIDE DEF w
  <2> QED
    BY <2>1 DEF Orders
<1>3. Follows(b, e, g)
  <2>1. CASE i = 0
    BY <2>1
  <2>2. CASE i # 0
    <3>1. i = 1 /\ 1 \in DOMAIN down[v]
      <4> DEFINE l == Len(down[v])
      <4>1. l \in Nat /\ DOMAIN down[v] = 1..l
        BY DEF Heedful, Listed
      <4> HIDE DEF l
      <4>2. i = Lesser(1, l)
        BY DEF l
      <4> HIDE DEF i
      <4>3. l >= 1 /\ i = 1
        BY <2>2, <4>1, <4>2 DEF Lesser
      <4> QED
        BY <4>1, <4>3
    <3>2. Follows(b, e, c) /\ c.gen = e.gen
      <4>1. /\ DOMAIN c = ExFields /\ c.perm = e.perm /\ c.gen = e.gen /\ c.brake = e.brake
            /\ c.ack = e.ack /\ c.fault = e.fault
        BY DEF Follows, Minded, ExFields
      <4> HIDE DEF c
      <4> QED
        BY <4>1, SameFollows
    <3>3. Follows(b, e, k)
      <4> DEFINE d == down[v][1]
                 x == [seq |-> 1, ok |-> TRUE, d |-> d]
      <4>1. /\ d.st \in Restraint \cup {"Go"} /\ d.id \in Nat /\ d.id < b.next
            /\ d.st = "Go" /\ d.gen = c.gen => Within(b, d)
        BY <3>1, <3>2 DEF Heedful
      <4>2. k = V!OnGrant(c, x) /\ x.d = d
        BY <3>1
      <4> HIDE DEF d, c, x, k
      <4> QED
        BY ONLY <3>2, <4>1, <4>2, GrantFollows
    <3> HIDE DEF k
    <3>4. /\ DOMAIN gr = ExFields /\ gr.perm = k.perm /\ gr.gen = k.gen /\ gr.brake = k.brake
          /\ gr.ack = k.ack /\ gr.fault = k.fault
      BY <3>3 DEF Follows, Minded, ExFields
    <3> HIDE DEF gr
    <3>5. Follows(b, e, gr)
      BY <3>3, <3>4, SameFollows
    <3> QED
      BY <2>2, <3>5
  <2> QED
    BY <2>1, <2>2
<1> HIDE DEF g
<1>4. Follows(b, e, z)
  <2>1. Follows(b, e, zr)
    BY <1>3, ZeroFollows
  <2> QED
    BY <1>3, <2>1
<1> HIDE DEF z
<1>5. Follows(b, e, o)
  <2>1. /\ DOMAIN y = ExFields /\ y.perm = z.perm /\ y.gen = z.gen /\ y.brake = z.brake
        /\ y.ack = z.ack /\ y.fault = z.fault
    BY <1>4 DEF Follows, Minded, ExFields
  <2> HIDE DEF y
  <2>2. Follows(b, e, y)
    BY <1>4, <2>1, SameFollows
  <2> QED
    BY <2>2, ObserveFollows
<1> HIDE DEF o
<1>6. Follows(b, e, t)
  BY <1>5, StepFollows
<1> HIDE DEF t
<1>7. Follows(b, e, w)
  <2>1. Follows(b, e, tf)
    BY <1>6, FinishFollows
  <2> QED
    BY <1>6, <2>1
<1> HIDE DEF w
<1>8. Follows(b, e, en)
  <2> DEFINE q == V!End(w, "Stopped")
  <2>1. Follows(b, e, q)
    BY <1>7, EndFollows
  <2>2. en = V!Finish(q)
    OBVIOUS
  <2> HIDE DEF q, en
  <2> QED
    BY <2>1, <2>2, FinishFollows
<1>9. Follows(b, e, ins)
  BY <1>7, InstallFollows
<1> HIDE DEF en, ins
<1> QED
  BY <1>1, <1>2, <1>7, <1>8, <1>9

-----------------------------------------------------------------------------
(* What the turn of a vehicle, or the way of its body, does to what the      *)
(* station relies on.  x is the vehicle before, y after it.                  *)

\* The Session s that an executor e would say now.
Tells(x, e, s) ==
  /\ s.valid /\ s.placed /\ s.healthy /\ s.gen = e.gen /\ s.ack = e.ack /\ s.pose = x.pos
  /\ s.cert => e.perm.at = "AwaitGo"

\* Some of the last Sessions are still on their way, and perhaps a new one behind them.
Adds(x, y, s) ==
  \E k \in Nat : \A i \in DOMAIN y.up :
    /\ i \in Nat
    /\ \/ i + k \in DOMAIN x.up /\ y.up[i] = x.up[i + k]
       \/ y.up[i] = s /\ \A j \in DOMAIN y.up : j <= i

\* The cells a body may still enter.
Goes(x, y, s) ==
  LET e == y.e
      path == e.perm.route.path
      i == CHOOSE i \in DOMAIN path : path[i] = x.pos
  IN  \/ e.perm.at = "Executing" /\ y.ahead = SubSeq(path, i + 1, Lesser(e.perm.lim, Len(path)))
      \/ e.perm.at # "Executing" /\ y.ahead = <<>>
      \/ e.perm.at # "Executing" /\ ~s.cert /\ y.ahead = x.ahead

LEMMA TurnTrail ==
  ASSUME NEW x, NEW b, Suits(x, b), NEW y, NEW s, Tells(x, y.e, s), Adds(x, y, s),
         y.pos = x.pos, y.heard = x.heard, y.s = x.s, y.body = x.body
  PROVE  Trail(y, b)
<1>1. Before(b, x.pos, x.pos)
  <2>1. CASE HasPlan(b)
    <3>1. PICK i \in Way(b) : x.pos = b.plan.route.path[i]
      BY <2>1 DEF Suits, Rights
    <3>2. i <= i
      BY <2>1, <3>1 DEF Way
    <3> QED
      BY <2>1, <3>1, <3>2 DEF Before
  <2>2. CASE ~HasPlan(b)
    BY <2>2 DEF Before
  <2> QED
    BY <2>1, <2>2
<1>2. PICK k \in Nat : \A i \in DOMAIN y.up :
        /\ i \in Nat
        /\ \/ i + k \in DOMAIN x.up /\ y.up[i] = x.up[i + k]
           \/ y.up[i] = s /\ \A j \in DOMAIN y.up : j <= i
  BY DEF Adds
<1>3. Trail(x, b) /\ s.pose = x.pos
  BY DEF Suits, Tells
<1>4. \A i \in DOMAIN y.up : Before(b, y.up[i].pose, y.pos)
  BY <1>1, <1>2, <1>3 DEF Trail
<1>5. ASSUME NEW i \in DOMAIN y.up, NEW j \in DOMAIN y.up, i < j
      PROVE  Before(b, y.up[i].pose, y.up[j].pose)
  <2>1. i + k \in DOMAIN x.up /\ y.up[i] = x.up[i + k] /\ i \in Nat /\ j \in Nat
    BY <1>2, <1>5
  <2>2. CASE j + k \in DOMAIN x.up /\ y.up[j] = x.up[j + k]
    <3>1. i + k < j + k
      BY <1>5, <2>1
    <3> QED
      BY <1>3, <2>1, <2>2, <3>1 DEF Trail
  <2>3. CASE y.up[j] = s
    BY <1>3, <2>1, <2>3 DEF Trail
  <2> QED
    BY <1>2, <2>2, <2>3
<1>6. y.heard => /\ y.body = y.s.pose /\ Before(b, y.body, y.pos)
                 /\ \A i \in DOMAIN y.up : Before(b, y.body, y.up[i].pose)
  BY <1>2, <1>3 DEF Trail
<1>7. b.known => /\ y.heard /\ Before(b, b.pose, y.body) /\ Before(b, b.pose, y.pos)
                 /\ \A i \in DOMAIN y.up : Before(b, b.pose, y.up[i].pose)
  BY <1>2, <1>3 DEF Trail
<1>8. (~y.heard => y.body = NoCell) /\ (~b.known => ~HasPlan(b) /\ b.gen = 0)
  BY <1>3 DEF Trail
<1> QED
  BY <1>4, <1>5, <1>6, <1>7, <1>8 DEF Trail

LEMMA TurnObeys ==
  ASSUME NEW x, NEW b, Suits(x, b), NEW y, Follows(b, x.e, y.e), NEW s, Tells(x, y.e, s),
         y.s = x.s, Adds(x, y, s)
  PROVE  /\ \A t \in Sessions(y) : t = s \/ t \in Sessions(x)
         /\ Obeys(y, b)
         /\ b.gen = y.e.gen => b.gen = x.e.gen
<1>1. ASSUME NEW t \in Sessions(y) PROVE t = s \/ t \in Sessions(x)
  BY DEF Adds, Sessions
<1> DEFINE a == x.e
           e == y.e
<1>2. /\ Obeys(x, b) /\ BodyOK(b)
      /\ \A t \in Sessions(x) : t.gen \in Nat /\ t.gen <= a.gen
  BY DEF Suits, SessionOK
<1>3. /\ Minded(e) /\ Bounded(b, e) /\ a.gen \in Nat /\ e.gen \in Nat /\ a.gen <= e.gen
      /\ b.next \in Nat /\ e.brake \in Nat /\ e.ack \in Nat /\ e.brake < b.next /\ e.ack < b.next
      /\ e.fault => e.perm.at = "AwaitBrake"
      /\ e.perm.at \in {"AwaitZero", "AwaitStopped", "AwaitGo"} => e.ack = e.brake
      /\ (e.gen = a.gen /\ ~e.fault)
           => ~a.fault /\ (a.perm.at \in Stood => e.perm.at \in Stood /\ e.brake = a.brake)
  BY DEF Follows
<1>4. b.gen \in Nat /\ b.gen <= a.gen /\ b.gen <= e.gen
  BY <1>2, <1>3 DEF Obeys, BodyOK
<1>5. HasPlan(b) => b.plan.gen \in Nat /\ b.plan.gen <= b.gen
  BY <1>2 DEF BodyOK
<1>6. s.cert => e.perm.at = "AwaitGo"
  BY DEF Tells
<1>7. b.gen = e.gen => b.gen = a.gen
  BY <1>3, <1>4
<1>8. Confirmed(y, b) => e.fault \/ e.perm.at \in Stood
  <2> SUFFICES ASSUME Confirmed(y, b), ~e.fault, ~s.cert PROVE e.perm.at \in Stood
    BY <1>6 DEF Stood
  <2>1. /\ e.gen = a.gen
        /\ \/ b.cert = "Certified" /\ b.gen = e.gen
           \/ HasPlan(b) /\ b.plan.gen = e.gen
           \/ \E t \in Sessions(x) : t.cert /\ t.gen = e.gen
    <3>1. CASE b.cert = "Certified" /\ b.gen = e.gen
      BY <1>7, <3>1
    <3>2. CASE HasPlan(b) /\ b.plan.gen = e.gen
      BY <1>3, <1>4, <1>5, <3>2
    <3>3. CASE \E t \in Sessions(y) : t.cert /\ t.gen = e.gen
      <4>1. PICK t \in Sessions(y) : t.cert /\ t.gen = e.gen
        BY <3>3
      <4>2. t \in Sessions(x)
        BY <1>1, <4>1
      <4>3. e.gen = a.gen
        BY <1>2, <1>3, <4>1, <4>2
      <4> QED
        BY <4>1, <4>2, <4>3
    <3> QED
      BY <3>1, <3>2, <3>3 DEF Confirmed
  <2>2. Confirmed(x, b)
    BY <2>1 DEF Confirmed
  <2>3. a.fault \/ a.perm.at \in Stood
    BY <1>2, <2>2 DEF Obeys
  <2> QED
    BY <1>3, <2>1, <2>3
<1>9. (AwaitsStop(b) /\ HasPlan(b) /\ b.plan.gen = b.gen /\ b.gen = e.gen /\ ~e.fault)
        => e.brake # b.brake
  <2> HAVE AwaitsStop(b) /\ HasPlan(b) /\ b.plan.gen = b.gen /\ b.gen = e.gen /\ ~e.fault
  <2>1. e.gen = a.gen /\ ~a.fault
    BY <1>3, <1>7
  <2>2. Confirmed(x, b)
    BY <2>1 DEF Confirmed
  <2>3. a.perm.at \in Stood /\ a.brake # b.brake
    BY <1>2, <2>1, <2>2 DEF Obeys
  <2> QED
    BY <1>3, <2>1, <2>3
<1>10. Obeys(y, b)
  BY <1>3, <1>4, <1>8, <1>9 DEF Obeys, Bounded
<1> QED
  BY <1>1, <1>7, <1>10

LEMMA TurnRights ==
  ASSUME NEW x, NEW b, Suits(x, b), NEW y, Bounded(b, y.e), NEW s, Goes(x, y, s), y.pos = x.pos
  PROVE  Rights(y, b)
<1> DEFINE e == y.e
           path == e.perm.route.path
           c == CHOOSE i \in DOMAIN path : path[i] = x.pos
           r == Lesser(e.perm.lim, Len(path))
<1>1. x.ahead \in Seq(Cell) /\ <<>> \in Seq(Cell) /\ Len(<<>>) = 0
  BY DEF Suits, Rights
<1>2. CASE e.perm.at = "Executing" /\ y.ahead = SubSeq(path, c + 1, r)
  <2>1. /\ HasPlan(b) /\ b.plan.route.path = path /\ e.perm.lim \in Nat /\ e.perm.lim <= b.plan.lim
        /\ b.plan.lim \in Nat /\ path \in Path
    BY <1>2 DEF Bounded, Suits, BodyOK
  <2>2. PICK i \in Way(b) : x.pos = path[i]
    BY <2>1 DEF Suits, Rights
  <2>3. /\ path \in Seq(Cell) /\ DOMAIN path = 1..Len(path) /\ Len(path) \in Nat
        /\ \A j, k \in DOMAIN path : path[j] = path[k] => j = k
    BY <2>1, PathIs
  <2> HIDE DEF path
  <2>4. i \in Nat /\ i >= 1 /\ i <= Limit(b) /\ i <= Len(path)
    <3>1. b.plan.cursor \in Nat \ {0} /\ Limit(b) = Lesser(b.plan.lim, Len(path))
      BY <2>1 DEF Suits, BodyOK, Limit
    <3> QED
      BY <2>1, <2>3, <3>1 DEF Way, Lesser
  <2>5. i \in DOMAIN path
    BY <2>3, <2>4
  <2>6. c = i
    BY <2>2, <2>3, <2>5
  <2>7. r \in Nat /\ r <= Limit(b) /\ r <= Len(path)
    BY <2>1, <2>3 DEF Limit, Lesser
  <2> HIDE DEF r, c
  <2>8. /\ y.ahead \in Seq(Cell) /\ Len(y.ahead) = IF i + 1 <= r THEN r - (i + 1) + 1 ELSE 0
        /\ \A j \in 1..Len(y.ahead) : y.ahead[j] = path[i + j]
    <3> DEFINE q == SubSeq(path, i + 1, r)
    <3>1. \A j \in (i + 1)..r : path[j] \in Cell
      BY <2>3, <2>4, <2>7
    <3>2. i + 1 \in Int /\ r \in Int
      BY <2>4, <2>7
    <3>3. /\ q \in Seq(Cell) /\ Len(q) = IF i + 1 <= r THEN r - (i + 1) + 1 ELSE 0
          /\ \A j \in 1..r - (i + 1) + 1 : q[j] = path[(i + 1) + j - 1]
      BY <3>1, <3>2, SubSeqProperties
    <3>4. y.ahead = q
      BY <1>2, <2>6
    <3> HIDE DEF q
    <3>5. ASSUME NEW j \in 1..Len(q) PROVE q[j] = path[i + j]
      <4>1. j \in 1..r - (i + 1) + 1 /\ (i + 1) + j - 1 = i + j
        BY <2>4, <2>7, <3>3
      <4> QED
        BY <3>3, <4>1
    <3> QED
      BY <3>3, <3>4, <3>5
  <2>9. i + Len(y.ahead) <= Limit(b)
    BY <2>4, <2>7, <2>8
  <2> QED
    BY <2>1, <2>2, <2>8, <2>9 DEF Rights
<1>3. CASE y.ahead = <<>>
  <2>1. CASE HasPlan(b)
    <3>1. PICK i \in Way(b) : x.pos = b.plan.route.path[i] /\ i + Len(x.ahead) <= Limit(b)
      BY <2>1 DEF Suits, Rights
    <3>2. i + 0 <= Limit(b)
      <4>1. /\ b.plan.cursor \in Nat /\ Limit(b) \in Nat
        <5>1. /\ b.plan.cursor \in Nat /\ b.plan.lim \in Nat /\ b.plan.route.path \in Path
          BY <2>1 DEF Suits, BodyOK
        <5>2. Len(b.plan.route.path) \in Nat
          BY <5>1, PathIs
        <5> QED
          BY <5>1, <5>2 DEF Limit, Lesser
      <4> QED
        BY <4>1 DEF Way
    <3> QED
      BY <1>1, <1>3, <2>1, <3>1, <3>2 DEF Rights
  <2> QED
    BY <1>1, <1>3, <2>1 DEF Rights
<1>4. CASE y.ahead = x.ahead
  BY <1>4 DEF Suits, Rights
<1> QED
  BY <1>2, <1>3, <1>4 DEF Goes

\* A turn of a vehicle (ugv_reset_client/reset_executor.h).
LEMMA TurnSuits ==
  ASSUME NEW x, NEW b, Suits(x, b), NEW y, Follows(b, x.e, y.e), NEW s, Tells(x, y.e, s),
         Adds(x, y, s), Goes(x, y, s), y.pos = x.pos, y.heard = x.heard, y.s = x.s,
         y.body = x.body, \A d \in y.ds : d \in x.ds
  PROVE  Suits(y, b) /\ KeptFree(y, b) = KeptFree(x, b)
<1> DEFINE a == x.e
           e == y.e
<1>1. /\ \A t \in Sessions(y) : t = s \/ t \in Sessions(x)
      /\ Obeys(y, b)
      /\ b.gen = e.gen => b.gen = a.gen
  BY TurnObeys
<1>2. Trail(y, b)
  BY TurnTrail
<1>3. Bounded(b, e) /\ Rights(y, b)
  BY TurnRights DEF Follows
<1>4. /\ a.gen \in Nat /\ e.gen \in Nat /\ a.gen <= e.gen /\ b.gen \in Nat /\ b.gen <= a.gen
      /\ e.ack \in Nat /\ e.ack < b.next /\ b.next \in Nat
      /\ HasPlan(b) => b.plan.gen \in Nat /\ b.plan.gen <= b.gen
  BY DEF Follows, Suits, Obeys, BodyOK
<1>5. ASSUME NEW d \in y.ds PROVE DecisionOK(y, b, d)
  <2>1. DecisionOK(x, b, d)
    BY DEF Suits
  <2>2. ASSUME d.st = "Go"
        PROVE  d.gen \in Nat /\ d.gen <= e.gen /\ (d.gen = e.gen => Within(b, d))
    <3>1. d.gen \in Nat /\ d.gen <= a.gen /\ (d.gen = a.gen => Within(b, d))
      BY <2>1, <2>2 DEF DecisionOK
    <3> HIDE DEF a, e
    <3> QED
      BY <1>4, <3>1
  <2> QED
    BY <2>1, <2>2 DEF DecisionOK
<1>6. ASSUME NEW t \in Sessions(y) PROVE SessionOK(y, b, t)
  <2>1. CASE t \in Sessions(x)
    <3>1. SessionOK(x, b, t)
      BY <2>1 DEF Suits
    <3>2. t.valid /\ t.placed /\ t.healthy /\ t.gen \in Nat /\ t.ack \in Nat /\ t.ack < b.next /\ t.gen <= a.gen
      BY <3>1 DEF SessionOK
    <3>3. t.gen <= e.gen
      BY <1>4, <3>2
    <3>4. ASSUME t.cert, AwaitsStop(b), t.gen = b.gen, t.ack = b.brake
          PROVE  y.ahead = <<>> /\ y.pos = t.pose /\ (HasPlan(b) => b.plan.gen # e.gen)
      <4>1. x.ahead = <<>> /\ x.pos = t.pose /\ (HasPlan(b) => b.plan.gen # a.gen)
        BY <3>1, <3>4 DEF SessionOK
      <4>2. HasPlan(b) => b.plan.gen # e.gen
        BY <1>4, <4>1
      <4>3. e.perm.at # "Executing"
        BY <1>3, <4>2 DEF Bounded
      <4>4. y.ahead = <<>>
        BY <4>1, <4>3 DEF Goes
      <4> QED
        BY <4>1, <4>2, <4>4
    <3> QED
      BY <3>2, <3>3, <3>4 DEF SessionOK
  <2>2. CASE t = s
    <3>1. /\ s.valid /\ s.placed /\ s.healthy /\ s.gen = e.gen /\ s.ack = e.ack /\ s.pose = x.pos
          /\ s.cert => e.perm.at = "AwaitGo"
      BY DEF Tells
    <3>2. s.gen \in Nat /\ s.ack \in Nat /\ s.ack < b.next /\ s.gen <= e.gen
      BY <1>4, <3>1
    <3>3. ASSUME s.cert, AwaitsStop(b), s.gen = b.gen, s.ack = b.brake
          PROVE  y.ahead = <<>> /\ y.pos = s.pose /\ (HasPlan(b) => b.plan.gen # e.gen)
      <4>1. e.perm.at = "AwaitGo"
        BY <3>1, <3>3
      <4>2. y.ahead = <<>>
        BY <3>3, <4>1 DEF Goes
      <4>3. ASSUME HasPlan(b), b.plan.gen = e.gen PROVE FALSE
        <5>1. b.plan.gen = b.gen /\ b.gen = e.gen
          BY <3>1, <3>3, <4>3
        <5>2. ~e.fault /\ e.ack = e.brake
          BY <4>1 DEF Follows
        <5> QED
          BY <1>1, <3>1, <3>3, <4>3, <5>1, <5>2 DEF Obeys
      <4> QED
        BY <3>1, <4>2, <4>3
    <3> QED
      BY <3>1, <3>2, <3>3, <2>2 DEF SessionOK
  <2> QED
    BY <1>1, <2>1, <2>2
<1>7. BodyOK(b)
  BY DEF Suits
<1>8. KeptFree(y, b) = KeptFree(x, b)
  BY DEF KeptFree
<1> QED
  BY <1>1, <1>2, <1>3, <1>5, <1>6, <1>7, <1>8 DEF Suits

\* The body moves on by a cell.
LEMMA DriveSuits ==
  ASSUME NEW x, NEW b, Suits(x, b), Len(x.ahead) >= 1, NEW y, y.e = x.e, y.pos = x.ahead[1],
         y.ahead \in Seq(Cell), Len(y.ahead) = Len(x.ahead) - 1,
         \A j \in 1..Len(y.ahead) : y.ahead[j] = x.ahead[j + 1],
         y.up = x.up, y.heard = x.heard, y.s = x.s, y.body = x.body, y.ds = x.ds
  PROVE  Suits(y, b) /\ KeptFree(y, b) = KeptFree(x, b)
<1> DEFINE path == b.plan.route.path
           n == Len(x.ahead)
<1>1. HasPlan(b) /\ n \in Nat /\ n >= 1
  BY DEF Suits, Rights
<1>2. PICK i \in Way(b) : /\ x.pos = path[i] /\ i + n <= Limit(b)
                          /\ \A j \in 1..n : x.ahead[j] = path[i + j]
  BY <1>1 DEF Suits, Rights
<1>3. /\ BodyOK(b) /\ Obeys(x, b) /\ Trail(x, b)
      /\ \A t \in Sessions(x) : SessionOK(x, b, t)
      /\ \A d \in x.ds : DecisionOK(x, b, d)
  BY DEF Suits
<1>4. /\ path \in Path /\ b.plan.lim \in Nat /\ b.plan.cursor \in Nat /\ b.plan.cursor >= 1
  BY <1>1, <1>3 DEF BodyOK
<1>5. /\ DOMAIN path = 1..Len(path) /\ Len(path) \in Nat
      /\ \A j, k \in 1..Len(path) : path[j] = path[k] => j = k
  BY <1>4, PathIs
<1> HIDE DEF path, n
<1>6. Limit(b) \in Nat /\ Limit(b) <= Len(path) /\ Way(b) = b.plan.cursor..Limit(b)
  BY <1>4, <1>5 DEF Limit, Way, Lesser, path
<1>7. i \in Nat /\ i + 1 \in Way(b) /\ Way(b) \subseteq 1..Len(path)
  BY <1>1, <1>2, <1>4, <1>5, <1>6
<1>8. y.pos = path[i + 1]
  BY <1>1, <1>2
<1>9. ASSUME NEW c, Before(b, c, x.pos) PROVE Before(b, c, y.pos)
  <2>1. PICK k, j \in Way(b) : k <= j /\ path[k] = c /\ path[j] = x.pos
    BY <1>1, <1>9 DEF Before, path
  <2>2. j = i
    BY <1>2, <1>5, <1>7, <2>1
  <2>3. k <= i + 1
    BY <1>7, <2>1, <2>2
  <2> QED
    BY <1>1, <1>7, <1>8, <2>1, <2>3 DEF Before, path
<1>10. Trail(y, b)
  BY <1>3, <1>9 DEF Trail
<1>11. Sessions(y) = Sessions(x)
  BY DEF Sessions
<1>12. Obeys(y, b)
  BY <1>3, <1>11 DEF Obeys, Confirmed
<1>13. \A t \in Sessions(y) : SessionOK(y, b, t)
  <2>1. x.ahead # <<>>
    BY <1>1 DEF n
  <2> QED
    BY <1>3, <1>11, <2>1 DEF SessionOK
<1>14. \A d \in y.ds : DecisionOK(y, b, d)
  BY <1>3 DEF DecisionOK
<1>15. Rights(y, b)
  <2>1. (i + 1) + Len(y.ahead) <= Limit(b)
    <3>1. Len(y.ahead) = n - 1
      BY DEF n
    <3>2. i \in Nat /\ n \in Nat /\ Limit(b) \in Nat /\ i + n <= Limit(b)
      BY <1>1, <1>2, <1>6, <1>7
    <3> QED
      BY ONLY <3>1, <3>2
  <2>2. ASSUME NEW j \in 1..Len(y.ahead) PROVE y.ahead[j] = path[(i + 1) + j]
    <3>1. j \in Nat /\ j + 1 \in 1..n /\ i + (j + 1) = (i + 1) + j
      BY <1>1, <1>7 DEF n
    <3> QED
      BY <1>2, <3>1
  <2> QED
    BY <1>1, <1>7, <1>8, <2>1, <2>2 DEF Rights, path
<1>16. KeptFree(y, b) = KeptFree(x, b)
  <2>1. b.known = TRUE
    BY <1>1, <1>3 DEF Trail, BodyOK
  <2> QED
    BY <2>1 DEF KeptFree
<1> QED
  BY <1>3, <1>10, <1>12, <1>13, <1>14, <1>15, <1>16 DEF Suits

\* Messages are lost: the oldest Sessions, or decisions.
LEMMA LoseSuits ==
  ASSUME NEW x, NEW b, Suits(x, b), NEW y, y.e = x.e, y.pos = x.pos, y.ahead = x.ahead,
         y.heard = x.heard, y.s = x.s, y.body = x.body, \A d \in y.ds : d \in x.ds,
         NEW k \in Nat, \A i \in DOMAIN y.up : i \in Nat /\ i + k \in DOMAIN x.up /\ y.up[i] = x.up[i + k]
  PROVE  Suits(y, b) /\ KeptFree(y, b) = KeptFree(x, b)
<1>1. \A t \in Sessions(y) : t \in Sessions(x)
  BY DEF Sessions
<1>2. /\ BodyOK(b) /\ Obeys(x, b) /\ Trail(x, b) /\ Rights(x, b)
      /\ \A t \in Sessions(x) : SessionOK(x, b, t)
      /\ \A d \in x.ds : DecisionOK(x, b, d)
  BY DEF Suits
<1>3. Trail(y, b)
  <2>1. ASSUME NEW i \in DOMAIN y.up, NEW j \in DOMAIN y.up, i < j
        PROVE  Before(b, y.up[i].pose, y.up[j].pose)
    <3>1. i + k < j + k
      BY <2>1
    <3> QED
      BY <1>2, <3>1 DEF Trail
  <2> QED
    BY <1>2, <2>1 DEF Trail
<1>4. Obeys(y, b)
  <2>1. Confirmed(y, b) => Confirmed(x, b)
    BY <1>1 DEF Confirmed
  <2> QED
    BY <1>2, <2>1 DEF Obeys
<1>5. Rights(y, b) /\ \A t \in Sessions(y) : SessionOK(y, b, t)
  BY <1>1, <1>2 DEF Rights, SessionOK
<1>6. \A d \in y.ds : DecisionOK(y, b, d)
  BY <1>2 DEF DecisionOK
<1>7. KeptFree(y, b) = KeptFree(x, b)
  BY DEF KeptFree
<1> QED
  BY <1>2, <1>3, <1>4, <1>5, <1>6, <1>7 DEF Suits

\* Where a vehicle is and may go is kept free for it.
LEMMA RightsKept ==
  ASSUME NEW x, NEW b, Suits(x, b)
  PROVE  x.pos \in KeptFree(x, b) /\ Cells(x.ahead) \subseteq KeptFree(x, b)
<1>1. /\ BodyOK(b) /\ Trail(x, b) /\ Rights(x, b)
  BY DEF Suits
<1>2. CASE HasPlan(b)
  <2> DEFINE path == b.plan.route.path
  <2>1. b.known = TRUE
    BY <1>1, <1>2 DEF Trail, BodyOK
  <2>2. PICK i \in Way(b) : /\ x.pos = path[i] /\ i + Len(x.ahead) <= Limit(b)
                            /\ \A j \in 1..Len(x.ahead) : x.ahead[j] = path[i + j]
    BY <1>1, <1>2 DEF Rights
  <2>3. b.plan.cursor \in Nat /\ Limit(b) \in Nat /\ x.ahead \in Seq(Cell)
    <3>1. /\ b.plan.cursor \in Nat /\ b.plan.lim \in Nat /\ path \in Path /\ x.ahead \in Seq(Cell)
      BY <1>1, <1>2 DEF BodyOK, Rights
    <3>2. Len(path) \in Nat
      BY <3>1, PathIs
    <3> QED
      BY <3>1, <3>2 DEF Limit, Lesser
  <2>4. ASSUME NEW j \in 1..Len(x.ahead) PROVE i + j \in Way(b)
    <3>1. Len(x.ahead) \in Nat
      BY <2>3
    <3> QED
      BY <2>2, <2>3, <3>1 DEF Way
  <2>5. \A k \in Way(b) : path[k] \in Reserved(b.plan)
    BY DEF Reserved, Way, Limit
  <2>6. DOMAIN x.ahead = 1..Len(x.ahead)
    BY <2>3
  <2> HIDE DEF path
  <2>7. x.pos \in Reserved(b.plan) /\ Cells(x.ahead) \subseteq Reserved(b.plan)
    BY <2>2, <2>4, <2>5, <2>6 DEF Cells
  <2> QED
    BY <1>2, <2>1, <2>7 DEF KeptFree, Holding
<1>3. CASE ~HasPlan(b)
  <2>1. Cells(x.ahead) = {}
    BY <1>1, <1>3 DEF Rights, Cells
  <2>2. b.known => b.pose = x.pos
    BY <1>1, <1>3 DEF Trail, Before
  <2> QED
    BY <2>1, <2>2 DEF KeptFree, Holding
<1> QED
  BY <1>2, <1>3

-----------------------------------------------------------------------------
(* The fleet.                                                                *)

\* The vehicles W and the station st between two steps.
Stands(W, s) ==
  /\ WorldShaped(W) /\ Serves(W, s)
  /\ \A v \in Vehicle : Minded(W[v].e) /\ Speaks(W[v].down) /\ s.sent[v] = <<>>

\* What is kept free for a vehicle.
Leased(W, s, v) == KeptFree(Seen(W, s)[v], s.pl.body[v])

LEMMA OneStands ==
  ASSUME NEW W, NEW s, Stands(W, s), NEW v \in Vehicle,
         NEW U, \A w \in Vehicle \ {v} : U[w] = W[w], DOMAIN U[v] = WorldFields,
         Listed(U[v].up), Listed(U[v].down), Minded(U[v].e), Speaks(U[v].down),
         Suits(Seen(U, s)[v], s.pl.body[v]), Leased(U, s, v) = Leased(W, s, v)
  PROVE  Stands(U, s) /\ \A w \in Vehicle : Leased(U, s, w) = Leased(W, s, w)
<1> DEFINE X == Seen(W, s)
           Y == Seen(U, s)
<1>1. \A w \in Vehicle \ {v} : Y[w] = X[w]
  BY DEF Seen
<1>2. Serves(W, s)
  BY DEF Stands
<1>3. /\ StationShaped(s) /\ Reserves(X, s.pl) /\ \A w \in Vehicle : Speaks(s.sent[w])
      /\ \A w \in Vehicle : Suits(X[w], s.pl.body[w])
  BY <1>2 DEF Serves, Reserves
<1> HIDE DEF X, Y
<1>4. \A w \in Vehicle : /\ Suits(Y[w], s.pl.body[w])
                         /\ KeptFree(Y[w], s.pl.body[w]) = KeptFree(X[w], s.pl.body[w])
  BY <1>1, <1>3 DEF X, Y, Leased
<1>5. Reserves(Y, s.pl)
  BY <1>3, <1>4, ViewReserves
<1>6. Serves(U, s)
  BY <1>3, <1>5 DEF Serves, Y
<1>7. WorldShaped(U) /\ \A w \in Vehicle : Minded(U[w].e) /\ Speaks(U[w].down) /\ s.sent[w] = <<>>
  <2>1. ASSUME NEW w \in Vehicle
        PROVE  /\ DOMAIN U[w] = WorldFields /\ Listed(U[w].up) /\ Listed(U[w].down)
               /\ Minded(U[w].e) /\ Speaks(U[w].down) /\ s.sent[w] = <<>>
    BY DEF Stands, WorldShaped
  <2> QED
    BY <2>1 DEF WorldShaped
<1> QED
  BY <1>4, <1>6, <1>7 DEF Stands, Leased, X, Y

\* The rest of a queue.
LEMMA SuffixIs ==
  ASSUME NEW q, Listed(q), NEW k \in Nat, k <= Len(q), NEW r, r = SubSeq(q, k + 1, Len(q))
  PROVE  /\ Listed(r) /\ DOMAIN r = 1..(Len(q) - k) /\ Len(q) \in Nat
         /\ \A i \in DOMAIN r : i + k \in DOMAIN q /\ r[i] = q[i + k]
<1> DEFINE S == {q[i] : i \in DOMAIN q}
           n == Len(q)
<1>1. q \in Seq(S)
  BY DEF Listed
<1> HIDE DEF S
<1>2. n \in Nat /\ DOMAIN q = 1..n /\ \A i \in (k + 1)..n : q[i] \in S
  BY <1>1
<1>3. k <= n /\ r = SubSeq(q, k + 1, n)
  OBVIOUS
<1> HIDE DEF n
<1>4. /\ r \in Seq(S) /\ Len(r) = IF k + 1 <= n THEN n - (k + 1) + 1 ELSE 0
      /\ \A i \in 1..n - (k + 1) + 1 : r[i] = q[(k + 1) + i - 1]
  <2>1. k + 1 \in Int /\ n \in Int
    BY <1>2
  <2> QED
    BY <1>2, <1>3, <2>1, SubSeqProperties
<1>5. Len(r) = n - k
  <2>1. CASE k + 1 <= n
    BY <1>2, <1>4, <2>1
  <2>2. CASE ~(k + 1 <= n)
    <3>1. k = n
      BY <1>2, <1>3, <2>2
    <3> QED
      BY <1>2, <1>4, <2>2, <3>1
  <2> QED
    BY <2>1, <2>2
<1>6. DOMAIN r = 1..(n - k) /\ Listed(r)
  <2> HIDE DEF S
  <2>1. r \in Seq(S)
    BY <1>4
  <2>2. DOMAIN r = 1..Len(r) /\ r \in Seq({r[i] : i \in DOMAIN r})
    BY ONLY <2>1
  <2> QED
    BY <1>5, <2>2 DEF Listed
<1>7. ASSUME NEW i \in 1..(n - k) PROVE i + k \in DOMAIN q /\ r[i] = q[i + k]
  <2>1. i \in 1..n - (k + 1) + 1 /\ (k + 1) + i - 1 = i + k /\ i + k \in 1..n
    BY <1>2, <1>3
  <2> QED
    BY <1>2, <1>4, <2>1
<1> QED
  BY <1>2, <1>6, <1>7 DEF n

LEMMA AfterIs ==
  ASSUME NEW q, Listed(q), NEW r, NEW i, i = 0 \/ (i = 1 /\ Len(q) >= 1), r = After(q, i)
  PROVE  /\ Listed(r) /\ Values(r) \subseteq Values(q) /\ (Speaks(q) => Speaks(r))
         /\ r = IF i = 0 THEN q ELSE SubSeq(q, i + 1, Len(q))
<1> DEFINE S == {q[k] : k \in DOMAIN q}
           n == Len(q)
<1>1. q \in Seq(S) /\ n \in Nat
  BY DEF Listed
<1>2. i \in Nat /\ i <= n /\ r = SubSeq(q, i + 1, n)
  BY <1>1 DEF After
<1> HIDE DEF S
<1>3. /\ Listed(r)
      /\ \A k \in DOMAIN r : k + i \in DOMAIN q /\ r[k] = q[k + i]
  BY <1>2, SuffixIs
<1>4. Values(r) \subseteq Values(q) /\ (Speaks(q) => Speaks(r))
  BY <1>3 DEF Values, Speaks
<1>5. i = 0 => r = q
  <2> HAVE i = 0
  <2>1. DOMAIN r = 1..(n - i) /\ \A k \in DOMAIN r : r[k] = q[k + i]
    BY <1>2, SuffixIs
  <2>2. DOMAIN r = DOMAIN q /\ \A k \in DOMAIN q : r[k] = q[k]
    BY <1>1, <2>1
  <2>3. r \in Seq({r[k] : k \in DOMAIN r})
    BY <1>3 DEF Listed
  <2> QED
    BY <1>1, <2>2, <2>3
<1> QED
  BY <1>2, <1>3, <1>4, <1>5

World ==
  [v \in Vehicle |->
     [e |-> ex[v], pos |-> pos[v], ahead |-> ahead[v], up |-> up[v], down |-> down[v]]]

\* The invariant of the fleet.
FleetInv ==
  /\ life \in Lives
  /\ DOMAIN ex = Vehicle /\ DOMAIN ahead = Vehicle /\ DOMAIN up = Vehicle /\ DOMAIN down = Vehicle
  /\ pos \in [Vehicle -> Cell]
  /\ Stands(World, st)

\* What a channel keeps are the last messages.
LEMMA KeptIs ==
  ASSUME life.depth \in Nat \ {0}, NEW q, Listed(q), NEW r, r = Kept(q)
  PROVE  Listed(r) /\ \E k \in Nat : /\ DOMAIN r = 1..(Len(q) - k)
                                     /\ \A i \in DOMAIN r : i + k \in DOMAIN q /\ r[i] = q[i + k]
<1> DEFINE n == Len(q)
           g == Greater(1, n - life.depth + 1)
           k == g - 1
<1>1. n \in Nat
  BY DEF Listed
<1> HIDE DEF n
<1>2. g \in Nat /\ g >= 1 /\ g - 1 <= n
  <2>1. CASE n - life.depth + 1 > 1
    BY <1>1, <2>1 DEF Greater
  <2>2. CASE ~(n - life.depth + 1 > 1)
    <3>1. g = 1
      BY <1>1, <2>2 DEF Greater
    <3> QED
      BY <1>1, <3>1
  <2> QED
    BY <2>1, <2>2
<1>3. r = SubSeq(q, g, Len(q))
  BY DEF Kept, n
<1> HIDE DEF g
<1>4. k \in Nat /\ k <= Len(q) /\ r = SubSeq(q, k + 1, Len(q))
  <2>1. k \in Nat /\ k <= n /\ k + 1 = g
    BY <1>1, <1>2
  <2> QED
    BY <1>3, <2>1 DEF n
<1> HIDE DEF k
<1>5. /\ Listed(r) /\ DOMAIN r = 1..(Len(q) - k)
      /\ \A i \in DOMAIN r : i + k \in DOMAIN q /\ r[i] = q[i + k]
  BY ONLY <1>4, Listed(q), SuffixIs
<1> QED
  BY <1>4, <1>5

LEMMA PublishesIs ==
  ASSUME life.depth \in Nat \ {0}, NEW v, Listed(up[v]), NEW s, NEW r, r = Publishes(v, s)
  PROVE  /\ Listed(r)
         /\ \E k \in Nat : \A i \in DOMAIN r :
              /\ i \in Nat
              /\ \/ i + k \in DOMAIN up[v] /\ r[i] = up[v][i + k]
                 \/ r[i] = s /\ \A j \in DOMAIN r : j <= i
<1> DEFINE q == up[v]
           p == Append(q, s)
           n == Len(q)
<1>1. r \in {q, Kept(p)}
  BY DEF Publishes
<1>2. /\ Listed(p) /\ n \in Nat /\ Len(p) = n + 1 /\ DOMAIN q = 1..n /\ DOMAIN p = 1..(n + 1)
      /\ \A i \in 1..n : p[i] = q[i]
      /\ p[n + 1] = s
  BY AppendListed
<1> HIDE DEF p, n
<1>3. CASE r = q
  <2> HIDE DEF q
  <2>1. Listed(q)
    BY DEF q
  <2>2. 0 \in Nat /\ \A i \in DOMAIN r : i \in Nat /\ i + 0 \in DOMAIN q /\ r[i] = q[i + 0]
    BY <1>2, <1>3
  <2> QED
    BY <1>3, <2>1, <2>2 DEF q
<1>4. CASE r = Kept(p)
  <2>1. Listed(r) /\ \E k \in Nat : /\ DOMAIN r = 1..(Len(p) - k)
                                    /\ \A i \in DOMAIN r : i + k \in DOMAIN p /\ r[i] = p[i + k]
    <3>1. Listed(p)
      BY <1>2
    <3> QED
      BY ONLY life.depth \in Nat \ {0}, <3>1, <1>4, KeptIs
  <2>2. PICK k \in Nat : /\ DOMAIN r = 1..(Len(p) - k)
                         /\ \A i \in DOMAIN r : i + k \in DOMAIN p /\ r[i] = p[i + k]
    BY <2>1
  <2> HIDE DEF q
  <2>3. ASSUME NEW i \in DOMAIN r
        PROVE  /\ i \in Nat
               /\ \/ i + k \in DOMAIN q /\ r[i] = q[i + k]
                  \/ r[i] = s /\ \A j \in DOMAIN r : j <= i
    <3>1. i \in Nat /\ i + k \in 1..(n + 1) /\ r[i] = p[i + k]
      BY <1>2, <2>2
    <3>2. CASE i + k \in 1..n
      BY <1>2, <3>1, <3>2
    <3>3. CASE i + k = n + 1
      <4>1. \A j \in DOMAIN r : j \in 1..(n + 1 - k)
        BY <1>2, <2>2
      <4>2. i = n + 1 - k
        BY <1>2, <3>1, <3>3
      <4>3. \A j \in DOMAIN r : j <= i
        BY <1>2, <4>1, <4>2
      <4> QED
        BY <1>2, <3>1, <3>3, <4>3
    <3> QED
      BY <1>2, <3>1, <3>2, <3>3
  <2> QED
    BY <2>1, <2>3 DEF q
<1> QED
  BY <1>1, <1>3, <1>4

\* What a vehicle that suits its plan may be told, and follows.
LEMMA SuitsFollows ==
  ASSUME NEW x, NEW b, Suits(x, b), Minded(x.e), NEW q, Listed(q), Speaks(q),
         \A i \in DOMAIN q : q[i] \in x.ds
  PROVE  Follows(b, x.e, x.e) /\ Heedful(b, x.e, q)
<1>1. Obeys(x, b) /\ BodyOK(b)
  BY DEF Suits
<1>2. Bounded(b, x.e)
  BY <1>1 DEF Obeys, Bounded
<1>3. Follows(b, x.e, x.e)
  BY <1>1, <1>2 DEF Follows, Obeys, BodyOK
<1>4. \A i \in DOMAIN q : DecisionOK(x, b, q[i]) /\ q[i].st # "None"
  BY DEF Suits, Speaks
<1>5. Heedful(b, x.e, q)
  BY <1>4 DEF Heedful, DecisionOK
<1> QED
  BY <1>3, <1>5

\* What the vehicle says, publishes and may still enter after a turn that n tells of.
TurnOK(v, n, s) ==
  LET path == n.ex.perm.route.path
      i == CHOOSE i \in DOMAIN path : path[i] = pos[v]
  IN  /\ n.up = Publishes(v, s) /\ n.down = After(down[v], Lesser(1, Len(down[v])))
      /\ s.valid /\ s.placed /\ s.healthy /\ s.gen = n.ex.gen /\ s.ack = n.ex.ack /\ s.pose = pos[v]
      /\ s.cert => n.ex.perm.at = "AwaitGo"
      /\ \/ n.ex.perm.at = "Executing"
            /\ n.ahead = SubSeq(path, i + 1, Lesser(n.ex.perm.lim, Len(path)))
         \/ n.ex.perm.at # "Executing" /\ n.ahead = <<>>
         \/ n.ex.perm.at # "Executing" /\ ~s.cert /\ n.ahead = ahead[v]

LEMMA OutcomeIs ==
  ASSUME NEW v, NEW m, NEW n, n = Outcome(v, m), Minded(m)
  PROVE  n.ex = Settled(m) /\ TurnOK(v, n, Says(v, m))
<1> DEFINE s == Says(v, m)
           e == Settled(m)
<1>1. /\ n.ex = e /\ n.ahead = Ahead(v, m) /\ n.up = Publishes(v, s)
      /\ n.down = After(down[v], Lesser(1, Len(down[v])))
  BY DEF Outcome
<1>2. e.perm = m.perm /\ e.gen = m.gen /\ e.ack = m.ack
  BY DEF Settled, Minded, ExFields
<1>3. /\ s.valid = TRUE /\ s.placed = TRUE /\ s.healthy = TRUE /\ s.gen = m.gen /\ s.ack = m.ack /\ s.pose = pos[v]
      /\ s.cert = V!StopCertified(m)
  BY DEF Says, Quiet, V!SessionOf
<1> HIDE DEF s, e
<1>4. s.cert => m.perm.at = "AwaitGo"
  BY <1>3 DEF V!StopCertified, V!Is
<1> DEFINE path == m.perm.route.path
           i == CHOOSE i \in DOMAIN path : path[i] = pos[v]
<1>5. \/ m.perm.at = "Executing" /\ n.ahead = SubSeq(path, i + 1, Lesser(m.perm.lim, Len(path)))
      \/ m.perm.at # "Executing" /\ n.ahead = <<>>
      \/ m.perm.at # "Executing" /\ ~s.cert /\ n.ahead = ahead[v]
  <2>1. CASE m.perm.at = "Executing"
    <3>1. Ahead(v, m) = SubSeq(m.perm.route.path, Index(v, m) + 1, Reach(m))
      BY <2>1 DEF Ahead, V!Is, V!StopCertified
    <3> QED
      BY <1>1, <2>1, <3>1 DEF Index, Reach
  <2>2. CASE m.perm.at # "Executing" /\ V!StopCertified(m)
    BY <1>1, <2>2 DEF Ahead, V!Is
  <2>3. CASE m.perm.at # "Executing" /\ ~V!StopCertified(m)
    BY <1>1, <1>3, <2>3 DEF Ahead, V!Is
  <2> QED
    BY <2>1, <2>2, <2>3
<1> HIDE DEF i, path
<1>6. \/ e.perm.at = "Executing" /\ n.ahead = SubSeq(path, i + 1, Lesser(e.perm.lim, Len(path)))
      \/ e.perm.at # "Executing" /\ n.ahead = <<>>
      \/ e.perm.at # "Executing" /\ ~s.cert /\ n.ahead = ahead[v]
  BY <1>2, <1>5
<1> QED
  BY <1>1, <1>2, <1>3, <1>4, <1>6 DEF s, e, i, path, TurnOK

\* A turn of a vehicle leaves what is kept free, and stays within it
\* (reset_executor.h onGrant, step).
LEMMA TurnStands ==
  ASSUME FleetInv, NEW v \in Vehicle, NEW settling, NEW f, VehicleTurn(v, settling, f)
  PROVE  FleetInv' /\ \A w \in Vehicle : Leased(World', st', w) = Leased(World, st, w)
<1> DEFINE W == World
           U == World'
           X == Seen(W, st)
           Y == Seen(U, st)
           b == st.pl.body[v]
<1>1. PICK n \in Turned(v, settling, f) :
        /\ ex' = [ex EXCEPT ![v] = n.ex] /\ ahead' = [ahead EXCEPT ![v] = n.ahead]
        /\ up' = [up EXCEPT ![v] = n.up] /\ down' = [down EXCEPT ![v] = n.down]
  BY DEF VehicleTurn
<1>2. life' = life /\ pos' = pos /\ st' = st
  BY DEF VehicleTurn
<1>3. /\ life.depth \in Nat \ {0} /\ Stands(W, st)
      /\ DOMAIN ex = Vehicle /\ DOMAIN ahead = Vehicle /\ DOMAIN up = Vehicle /\ DOMAIN down = Vehicle
  BY LivesAssumption DEF FleetInv
<1>4. /\ \A w \in Vehicle \ {v} : U[w] = W[w]
      /\ DOMAIN U[v] = WorldFields
      /\ U[v].e = n.ex /\ U[v].pos = pos[v] /\ U[v].ahead = n.ahead
      /\ U[v].up = n.up /\ U[v].down = n.down
  BY <1>1, <1>2, <1>3 DEF World, WorldFields
<1>5. /\ W[v].e = ex[v] /\ W[v].pos = pos[v] /\ W[v].ahead = ahead[v]
      /\ W[v].up = up[v] /\ W[v].down = down[v]
  BY DEF World
<1>6. /\ Listed(up[v]) /\ Listed(down[v]) /\ Speaks(down[v]) /\ Minded(ex[v])
      /\ st.sent[v] = <<>> /\ Suits(X[v], b)
  BY <1>3, <1>5 DEF Stands, WorldShaped, Serves, Reserves
<1> HIDE DEF W, U
<1>7. /\ X[v].e = ex[v] /\ X[v].pos = pos[v] /\ X[v].ahead = ahead[v] /\ X[v].up = up[v]
      /\ X[v].ds = {st.entry[v].last} \cup Values(down[v]) \cup Values(st.sent[v])
      /\ X[v].heard = st.entry[v].heard /\ X[v].s = st.entry[v].s /\ X[v].body = st.entry[v].body
  BY <1>5 DEF Seen
<1>8. /\ Y[v].e = n.ex /\ Y[v].pos = pos[v] /\ Y[v].ahead = n.ahead /\ Y[v].up = n.up
      /\ Y[v].ds = {st.entry[v].last} \cup Values(n.down) \cup Values(st.sent[v])
      /\ Y[v].heard = st.entry[v].heard /\ Y[v].s = st.entry[v].s /\ Y[v].body = st.entry[v].body
  BY <1>4 DEF Seen
<1> HIDE DEF X, Y, b
<1>9. Follows(b, ex[v], ex[v]) /\ Heedful(b, ex[v], down[v])
  <2>1. \A i \in DOMAIN down[v] : down[v][i] \in X[v].ds
    BY <1>7 DEF Values
  <2> DEFINE x == X[v]
             q == down[v]
  <2>2. /\ Suits(x, b) /\ Minded(x.e) /\ Listed(q) /\ Speaks(q)
        /\ \A i \in DOMAIN q : q[i] \in x.ds
    BY <1>6, <1>7, <2>1
  <2> HIDE DEF x, q
  <2>3. Follows(b, x.e, x.e) /\ Heedful(b, x.e, q)
    BY ONLY <2>2, SuitsFollows
  <2> QED
    BY <1>7, <2>3 DEF x, q
<1>10. PICK m : Follows(b, ex[v], m) /\ n = Outcome(v, m)
  <2>1. n \in Turned(v, settling, f)
    BY <1>1
  <2> QED
    BY ONLY <1>9, <2>1, TurnedFollows DEF b
<1> DEFINE s == Says(v, m)
<1>11. Minded(m) /\ n.ex = Settled(m) /\ TurnOK(v, n, s)
  <2>1. n = Outcome(v, m) /\ Minded(m)
    BY <1>10 DEF Follows
  <2>2. n.ex = Settled(m) /\ TurnOK(v, n, Says(v, m))
    BY ONLY <2>1, OutcomeIs
  <2> QED
    BY <2>1, <2>2
<1> HIDE DEF s
<1>12. Tells(X[v], Y[v].e, s) /\ Goes(X[v], Y[v], s)
  BY <1>7, <1>8, <1>11 DEF Tells, Goes, TurnOK
<1>13. Follows(b, X[v].e, Y[v].e) /\ Minded(n.ex)
  <2>1. Follows(b, ex[v], n.ex)
    BY <1>10, <1>11, SettledFollows
  <2> QED
    BY <1>7, <1>8, <2>1 DEF Follows
<1>14. Listed(n.up) /\ Adds(X[v], Y[v], s)
  <2>1. /\ Listed(n.up)
        /\ \E k \in Nat : \A i \in DOMAIN n.up :
              /\ i \in Nat
              /\ \/ i + k \in DOMAIN up[v] /\ n.up[i] = up[v][i + k]
                 \/ n.up[i] = s /\ \A j \in DOMAIN n.up : j <= i
    <3> DEFINE r == n.up
    <3>1. life.depth \in Nat \ {0} /\ Listed(up[v]) /\ r = Publishes(v, s)
      BY <1>3, <1>6, <1>11 DEF TurnOK
    <3> HIDE DEF r
    <3>2. /\ Listed(r)
          /\ \E k \in Nat : \A i \in DOMAIN r :
               /\ i \in Nat
               /\ \/ i + k \in DOMAIN up[v] /\ r[i] = up[v][i + k]
                  \/ r[i] = s /\ \A j \in DOMAIN r : j <= i
      BY ONLY <3>1, PublishesIs
    <3> QED
      BY <3>2 DEF r
  <2> QED
    BY <1>7, <1>8, <2>1 DEF Adds
<1>15. /\ Listed(n.down) /\ Values(n.down) \subseteq Values(down[v]) /\ Speaks(n.down)
  <2> DEFINE i == Lesser(1, Len(down[v]))
  <2>1. i = 0 \/ (i = 1 /\ Len(down[v]) >= 1)
    <3> DEFINE l == Len(down[v])
    <3>1. l \in Nat
      BY <1>6 DEF Listed
    <3> HIDE DEF l
    <3>2. Lesser(1, l) = 0 \/ (Lesser(1, l) = 1 /\ l >= 1)
      BY <3>1 DEF Lesser
    <3> QED
      BY <3>2 DEF l
  <2>2. n.down = After(down[v], i)
    BY <1>11 DEF TurnOK
  <2> HIDE DEF i
  <2> QED
    BY <1>6, <2>1, <2>2, AfterIs
<1>16. Suits(Y[v], b) /\ KeptFree(Y[v], b) = KeptFree(X[v], b)
  <2> DEFINE x == X[v]
             y == Y[v]
  <2>1. /\ Suits(x, b) /\ Follows(b, x.e, y.e) /\ Tells(x, y.e, s) /\ Adds(x, y, s) /\ Goes(x, y, s)
    BY <1>6, <1>12, <1>13, <1>14
  <2>2. /\ y.pos = x.pos /\ y.heard = x.heard /\ y.s = x.s /\ y.body = x.body
        /\ \A d \in y.ds : d \in x.ds
    BY <1>7, <1>8, <1>15
  <2> HIDE DEF x, y
  <2>3. Suits(y, b) /\ KeptFree(y, b) = KeptFree(x, b)
    BY ONLY <2>1, <2>2, TurnSuits
  <2> QED
    BY <2>3 DEF x, y
<1>17. Stands(U, st) /\ \A w \in Vehicle : Leased(U, st, w) = Leased(W, st, w)
  <2>1. /\ \A w \in Vehicle \ {v} : U[w] = W[w]
        /\ DOMAIN U[v] = WorldFields /\ Listed(U[v].up) /\ Listed(U[v].down)
        /\ Minded(U[v].e) /\ Speaks(U[v].down)
    BY <1>4, <1>13, <1>14, <1>15
  <2>2. Suits(Seen(U, st)[v], st.pl.body[v]) /\ Leased(U, st, v) = Leased(W, st, v)
    BY <1>16 DEF Leased, X, Y, b
  <2> DEFINE t == st
  <2>3. /\ Stands(W, t) /\ v \in Vehicle
        /\ Suits(Seen(U, t)[v], t.pl.body[v]) /\ Leased(U, t, v) = Leased(W, t, v)
    BY <1>3, <2>2
  <2> HIDE DEF t
  <2>4. Stands(U, t) /\ \A w \in Vehicle : Leased(U, t, w) = Leased(W, t, w)
    BY ONLY <2>1, <2>3, OneStands
  <2> QED
    BY <2>4 DEF t
<1>18. DOMAIN ex' = Vehicle /\ DOMAIN ahead' = Vehicle /\ DOMAIN up' = Vehicle /\ DOMAIN down' = Vehicle
  BY <1>1, <1>3
<1> QED
  BY <1>2, <1>17, <1>18 DEF FleetInv, U, W

\* The queue but for its first message.
LEMMA TailIs ==
  ASSUME NEW q, Listed(q), q # <<>>, NEW r, r = Tail(q)
  PROVE  /\ Listed(r) /\ Len(q) \in Nat /\ Len(q) >= 1
         /\ \A i \in DOMAIN r : i \in Nat /\ i + 1 \in DOMAIN q /\ r[i] = q[i + 1]
<1> DEFINE S == {q[i] : i \in DOMAIN q}
<1>1. q \in Seq(S)
  BY DEF Listed
<1> HIDE DEF S
<1>2. Len(q) \in Nat /\ Len(q) >= 1 /\ DOMAIN q = 1..Len(q)
  BY <1>1
<1>3. /\ r \in Seq(S) /\ Len(r) = Len(q) - 1
      /\ \A i \in 1..(Len(q) - 1) : r[i] = q[i + 1]
  BY <1>1, <1>2
<1>4. DOMAIN r = 1..(Len(q) - 1) /\ Listed(r)
  <2>1. r \in Seq(S)
    BY <1>3
  <2>2. DOMAIN r = 1..Len(r) /\ r \in Seq({r[i] : i \in DOMAIN r})
    BY ONLY <2>1
  <2> QED
    BY <1>3, <2>2 DEF Listed
<1>5. ASSUME NEW i \in 1..(Len(q) - 1) PROVE i \in Nat /\ i + 1 \in DOMAIN q
  BY <1>2
<1> QED
  BY <1>2, <1>3, <1>4, <1>5

\* The body goes only where a place is kept free for it.
LEMMA DriveStands ==
  ASSUME FleetInv, NEW v \in Vehicle, Drive(v)
  PROVE  FleetInv' /\ \A w \in Vehicle : Leased(World', st', w) = Leased(World, st, w)
<1> DEFINE W == World
           U == World'
           X == Seen(W, st)
           Y == Seen(U, st)
           b == st.pl.body[v]
           q == ahead[v]
<1>1. /\ q # <<>> /\ pos' = [pos EXCEPT ![v] = Head(q)] /\ ahead' = [ahead EXCEPT ![v] = Tail(q)]
      /\ life' = life /\ ex' = ex /\ up' = up /\ down' = down /\ st' = st
  BY DEF Drive
<1>2. /\ Stands(W, st) /\ DOMAIN ex = Vehicle /\ DOMAIN ahead = Vehicle
      /\ DOMAIN up = Vehicle /\ DOMAIN down = Vehicle /\ pos \in [Vehicle -> Cell] /\ life \in Lives
  BY DEF FleetInv
<1>3. /\ \A w \in Vehicle \ {v} : U[w] = W[w]
      /\ DOMAIN U[v] = WorldFields
      /\ U[v].e = ex[v] /\ U[v].pos = Head(q) /\ U[v].ahead = Tail(q)
      /\ U[v].up = up[v] /\ U[v].down = down[v]
  BY <1>1, <1>2 DEF World, WorldFields
<1>4. /\ W[v].e = ex[v] /\ W[v].pos = pos[v] /\ W[v].ahead = q
      /\ W[v].up = up[v] /\ W[v].down = down[v]
  BY DEF World
<1>5. /\ Listed(up[v]) /\ Listed(down[v]) /\ Speaks(down[v]) /\ Minded(ex[v]) /\ Suits(X[v], b)
  BY <1>2, <1>4 DEF Stands, WorldShaped, Serves, Reserves
<1> HIDE DEF W, U
<1>6. /\ X[v].e = ex[v] /\ X[v].pos = pos[v] /\ X[v].ahead = q /\ X[v].up = up[v]
      /\ X[v].ds = {st.entry[v].last} \cup Values(down[v]) \cup Values(st.sent[v])
      /\ X[v].heard = st.entry[v].heard /\ X[v].s = st.entry[v].s /\ X[v].body = st.entry[v].body
  BY <1>4 DEF Seen
<1>7. /\ Y[v].e = ex[v] /\ Y[v].pos = Head(q) /\ Y[v].ahead = Tail(q) /\ Y[v].up = up[v]
      /\ Y[v].ds = {st.entry[v].last} \cup Values(down[v]) \cup Values(st.sent[v])
      /\ Y[v].heard = st.entry[v].heard /\ Y[v].s = st.entry[v].s /\ Y[v].body = st.entry[v].body
  BY <1>3 DEF Seen
<1> HIDE DEF X, Y, b
<1>8. q \in Seq(Cell)
  BY <1>5, <1>6 DEF Suits, Rights
<1>9. Suits(Y[v], b) /\ KeptFree(Y[v], b) = KeptFree(X[v], b)
  <2> DEFINE x == X[v]
             y == Y[v]
             r == Tail(q)
  <2>1. /\ Len(q) >= 1 /\ r \in Seq(Cell) /\ Len(r) = Len(q) - 1 /\ Head(q) = q[1]
        /\ \A j \in 1..Len(r) : r[j] = q[j + 1]
    BY <1>1, <1>8
  <2>2. /\ Suits(x, b) /\ Len(x.ahead) >= 1 /\ y.e = x.e /\ y.pos = x.ahead[1]
        /\ y.ahead \in Seq(Cell) /\ Len(y.ahead) = Len(x.ahead) - 1
        /\ \A j \in 1..Len(y.ahead) : y.ahead[j] = x.ahead[j + 1]
    BY <1>5, <1>6, <1>7, <2>1
  <2>3. y.up = x.up /\ y.heard = x.heard /\ y.s = x.s /\ y.body = x.body /\ y.ds = x.ds
    BY <1>6, <1>7
  <2> HIDE DEF x, y
  <2>4. Suits(y, b) /\ KeptFree(y, b) = KeptFree(x, b)
    BY ONLY <2>2, <2>3, DriveSuits
  <2> QED
    BY <2>4 DEF x, y
<1>10. Stands(U, st) /\ \A w \in Vehicle : Leased(U, st, w) = Leased(W, st, w)
  <2>1. /\ \A w \in Vehicle \ {v} : U[w] = W[w]
        /\ DOMAIN U[v] = WorldFields /\ Listed(U[v].up) /\ Listed(U[v].down)
        /\ Minded(U[v].e) /\ Speaks(U[v].down)
    BY <1>3, <1>5
  <2> DEFINE t == st
  <2>2. Suits(Seen(U, t)[v], t.pl.body[v]) /\ Leased(U, t, v) = Leased(W, t, v)
    BY <1>9 DEF Leased, X, Y, b
  <2>3. Stands(W, t) /\ v \in Vehicle
    BY <1>2
  <2> HIDE DEF t
  <2>4. Stands(U, t) /\ \A w \in Vehicle : Leased(U, t, w) = Leased(W, t, w)
    BY ONLY <2>1, <2>2, <2>3, OneStands
  <2> QED
    BY <2>4 DEF t
<1>11. DOMAIN ahead' = Vehicle /\ pos' \in [Vehicle -> Cell]
  <2>1. Head(q) \in Cell
    BY <1>1, <1>8
  <2> QED
    BY <1>1, <1>2, <2>1
<1> QED
  BY <1>1, <1>2, <1>10, <1>11 DEF FleetInv, U, W

\* A message that is lost takes nothing from anybody.
LEMMA LoseStands ==
  ASSUME FleetInv, NEW v \in Vehicle, Lose(v)
  PROVE  FleetInv' /\ \A w \in Vehicle : Leased(World', st', w) = Leased(World, st, w)
<1> DEFINE W == World
           U == World'
           X == Seen(W, st)
           Y == Seen(U, st)
           b == st.pl.body[v]
<1>1. /\ \/ up[v] # <<>> /\ up' = [up EXCEPT ![v] = Tail(up[v])] /\ down' = down
         \/ down[v] # <<>> /\ down' = [down EXCEPT ![v] = Tail(down[v])] /\ up' = up
      /\ life' = life /\ ex' = ex /\ pos' = pos /\ ahead' = ahead /\ st' = st
  BY DEF Lose
<1>2. /\ Stands(W, st) /\ DOMAIN ex = Vehicle /\ DOMAIN ahead = Vehicle
      /\ DOMAIN up = Vehicle /\ DOMAIN down = Vehicle /\ pos \in [Vehicle -> Cell] /\ life \in Lives
  BY DEF FleetInv
<1> DEFINE nu == up'[v]
           nd == down'[v]
<1>3. /\ \A w \in Vehicle \ {v} : U[w] = W[w]
      /\ DOMAIN U[v] = WorldFields
      /\ U[v].e = ex[v] /\ U[v].pos = pos[v] /\ U[v].ahead = ahead[v]
      /\ U[v].up = nu /\ U[v].down = nd
  BY <1>1, <1>2 DEF World, WorldFields
<1>4. /\ W[v].e = ex[v] /\ W[v].pos = pos[v] /\ W[v].ahead = ahead[v]
      /\ W[v].up = up[v] /\ W[v].down = down[v]
  BY DEF World
<1>5. /\ Listed(up[v]) /\ Listed(down[v]) /\ Speaks(down[v]) /\ Minded(ex[v]) /\ Suits(X[v], b)
  BY <1>2, <1>4 DEF Stands, WorldShaped, Serves, Reserves
<1> HIDE DEF W, U
<1>6. /\ X[v].e = ex[v] /\ X[v].pos = pos[v] /\ X[v].ahead = ahead[v] /\ X[v].up = up[v]
      /\ X[v].ds = {st.entry[v].last} \cup Values(down[v]) \cup Values(st.sent[v])
      /\ X[v].heard = st.entry[v].heard /\ X[v].s = st.entry[v].s /\ X[v].body = st.entry[v].body
  BY <1>4 DEF Seen
<1>7. /\ Y[v].e = ex[v] /\ Y[v].pos = pos[v] /\ Y[v].ahead = ahead[v] /\ Y[v].up = nu
      /\ Y[v].ds = {st.entry[v].last} \cup Values(nd) \cup Values(st.sent[v])
      /\ Y[v].heard = st.entry[v].heard /\ Y[v].s = st.entry[v].s /\ Y[v].body = st.entry[v].body
  BY <1>3 DEF Seen
<1>8. /\ nu = up[v] \/ (up[v] # <<>> /\ nu = Tail(up[v]))
      /\ nd = down[v] \/ (down[v] # <<>> /\ nd = Tail(down[v]))
  BY <1>1, <1>2
<1> HIDE DEF X, Y, b, nu, nd
<1>9. /\ Listed(nu)
      /\ \E k \in Nat : \A i \in DOMAIN nu :
           i \in Nat /\ i + k \in DOMAIN up[v] /\ nu[i] = up[v][i + k]
  <2>1. CASE nu = up[v]
    <3>1. \A i \in DOMAIN nu : i \in Nat /\ i + 0 = i
      BY <1>5, <2>1 DEF Listed
    <3> QED
      BY <1>5, <2>1, <3>1
  <2>2. CASE up[v] # <<>> /\ nu = Tail(up[v])
    BY <1>5, <2>2, TailIs
  <2> QED
    BY <1>8, <2>1, <2>2
<1>10. Listed(nd) /\ Values(nd) \subseteq Values(down[v]) /\ Speaks(nd)
  <2>1. CASE nd = down[v]
    BY <1>5, <2>1
  <2>2. CASE down[v] # <<>> /\ nd = Tail(down[v])
    <3>1. Listed(nd) /\ \A i \in DOMAIN nd : i + 1 \in DOMAIN down[v] /\ nd[i] = down[v][i + 1]
      BY <1>5, <2>2, TailIs
    <3> QED
      BY <1>5, <3>1 DEF Values, Speaks
  <2> QED
    BY <1>8, <2>1, <2>2
<1>11. Suits(Y[v], b) /\ KeptFree(Y[v], b) = KeptFree(X[v], b)
  <2> DEFINE x == X[v]
             y == Y[v]
  <2>1. /\ Suits(x, b) /\ y.e = x.e /\ y.pos = x.pos /\ y.ahead = x.ahead
        /\ y.heard = x.heard /\ y.s = x.s /\ y.body = x.body /\ \A d \in y.ds : d \in x.ds
    BY <1>5, <1>6, <1>7, <1>10
  <2>2. PICK k \in Nat : \A i \in DOMAIN y.up :
          i \in Nat /\ i + k \in DOMAIN x.up /\ y.up[i] = x.up[i + k]
    BY <1>6, <1>7, <1>9
  <2> HIDE DEF x, y
  <2>3. Suits(y, b) /\ KeptFree(y, b) = KeptFree(x, b)
    BY ONLY <2>1, <2>2, LoseSuits
  <2> QED
    BY <2>3 DEF x, y
<1>12. Stands(U, st) /\ \A w \in Vehicle : Leased(U, st, w) = Leased(W, st, w)
  <2>1. /\ \A w \in Vehicle \ {v} : U[w] = W[w]
        /\ DOMAIN U[v] = WorldFields /\ Listed(U[v].up) /\ Listed(U[v].down)
        /\ Minded(U[v].e) /\ Speaks(U[v].down)
    BY <1>3, <1>5, <1>9, <1>10
  <2> DEFINE t == st
  <2>2. Suits(Seen(U, t)[v], t.pl.body[v]) /\ Leased(U, t, v) = Leased(W, t, v)
    BY <1>11 DEF Leased, X, Y, b
  <2>3. Stands(W, t) /\ v \in Vehicle
    BY <1>2
  <2> HIDE DEF t
  <2>4. Stands(U, t) /\ \A w \in Vehicle : Leased(U, t, w) = Leased(W, t, w)
    BY ONLY <2>1, <2>2, <2>3, OneStands
  <2> QED
    BY <2>4 DEF t
<1>13. DOMAIN up' = Vehicle /\ DOMAIN down' = Vehicle
  BY <1>1, <1>2
<1> QED
  BY <1>1, <1>2, <1>12, <1>13 DEF FleetInv, U, W

\* The world and the Scene are no part of what is kept free.
LEMMA AsideStands ==
  ASSUME NEW W, NEW s, Stands(W, s), NEW t, DOMAIN t = StationFields, t.entry = s.entry,
         t.sent = s.sent, DOMAIN t.pl = PlannerFields, t.pl.body = s.pl.body, t.pl.out = s.pl.out
  PROVE  Stands(W, t) /\ \A v \in Vehicle : Leased(W, t, v) = Leased(W, s, v)
<1>1. Serves(W, s)
  BY DEF Stands
<1>2. StationShaped(s) /\ Reserves(Seen(W, s), s.pl)
  BY <1>1 DEF Serves
<1>3. Seen(W, t) = Seen(W, s)
  BY DEF Seen
<1>4. StationShaped(t)
  BY <1>2 DEF StationShaped, Shaped
<1>5. Reserves(Seen(W, t), t.pl)
  <2> DEFINE X == Seen(W, s)
  <2> HIDE DEF X
  <2>1. Reserves(X, s.pl)
    BY <1>2 DEF X
  <2>2. Shaped(t.pl) /\ OutOK(t.pl) /\ Apart(X, t.pl) /\ AllKnown(s.pl) = AllKnown(t.pl)
    BY <1>4, <2>1 DEF StationShaped, Reserves, OutOK, Proper, Apart, AllKnown
  <2>3. Reserves(X, t.pl)
    BY <2>1, <2>2 DEF Reserves
  <2> QED
    BY <1>3, <2>3 DEF X
<1>6. Serves(W, t)
  BY <1>1, <1>4, <1>5 DEF Serves
<1> QED
  BY <1>3, <1>6 DEF Stands, Leased

LEMMA ConcatIs ==
  ASSUME NEW p, NEW q, Listed(p), Listed(q), NEW r, r = p \o q
  PROVE  Listed(r) /\ Values(r) \subseteq Values(p) \cup Values(q)
<1> DEFINE S == Values(p) \cup Values(q)
<1>1. p \in Seq(S) /\ q \in Seq(S)
  <2>1. p \in Seq(Values(p)) /\ q \in Seq(Values(q))
    BY DEF Listed, Values
  <2> HIDE DEF S
  <2>2. Values(p) \subseteq S /\ Values(q) \subseteq S
    BY DEF S
  <2> QED
    BY <2>1, <2>2
<1> HIDE DEF S
<1>2. r \in Seq(S)
  BY <1>1
<1>3. r \in Seq({r[i] : i \in DOMAIN r}) /\ \A i \in DOMAIN r : r[i] \in S
  BY ONLY <1>2
<1> QED
  BY <1>3 DEF Listed, Values, S

LEMMA SpeaksIs ==
  ASSUME NEW q, NEW p, NEW r, Speaks(p), Speaks(q), Values(r) \subseteq Values(p) \cup Values(q)
  PROVE  Speaks(r)
BY DEF Speaks, Values

\* What a channel holds after something was sent.
LEMMA AddedIs ==
  ASSUME life.depth \in Nat \ {0}, NEW q, Listed(q), NEW ds, Listed(ds), NEW r, r = Added(q, ds)
  PROVE  Listed(r) /\ Values(r) \subseteq Values(q) \cup Values(ds)
<1> DEFINE same == q # <<>> /\ ds # <<>> /\ Newest(q) = ds[1]
           t == Tail(ds)
           c == IF same THEN q \o t ELSE q \o ds
<1>1. r = Kept(c)
  BY DEF Added
<1> HIDE DEF same
<1>2. Listed(c) /\ Values(c) \subseteq Values(q) \cup Values(ds)
  <2>1. CASE same
    <3>1. ds # <<>>
      BY <2>1 DEF same
    <3>2. Listed(t) /\ \A i \in DOMAIN t : i + 1 \in DOMAIN ds /\ t[i] = ds[i + 1]
      BY <3>1, TailIs
    <3>3. Values(t) \subseteq Values(ds)
      BY <3>2 DEF Values
    <3>4. c = q \o t
      BY <2>1
    <3> HIDE DEF t, c
    <3>5. Listed(c) /\ Values(c) \subseteq Values(q) \cup Values(t)
      BY ONLY Listed(q), <3>2, <3>4, ConcatIs
    <3> QED
      BY <3>3, <3>5
  <2>2. CASE ~same
    <3>1. c = q \o ds
      BY <2>2
    <3> HIDE DEF c
    <3> QED
      BY ONLY Listed(q), Listed(ds), <3>1, ConcatIs
  <2> QED
    BY <2>1, <2>2
<1> HIDE DEF c
<1>3. Listed(r) /\ \E k \in Nat : /\ DOMAIN r = 1..(Len(c) - k)
                                  /\ \A i \in DOMAIN r : i + k \in DOMAIN c /\ r[i] = c[i + k]
  BY ONLY life.depth \in Nat \ {0}, <1>1, <1>2, KeptIs
<1>4. Values(r) \subseteq Values(c)
  BY <1>3 DEF Values
<1> QED
  BY <1>2, <1>3, <1>4

\* A step of the station keeps free where every vehicle is and may go, and nothing twice
\* (reset_planner.cpp sync, updateMovers, planWaiting).
LEMMA HearsStands ==
  ASSUME FleetInv, NEW now, NEW is \in [Vehicle -> 0..1],
         \A v \in Vehicle : is[v] <= Len(up[v]), StationHears(now, is)
  PROVE  FleetInv'
<1> DEFINE W == World
           U == World'
           heard == {v \in Vehicle : is[v] # 0}
           a == HearAll(st, up, is)
           s == StationTurn(a, lost \ heard, now)
           t == [s EXCEPT !.sent = [v \in Vehicle |-> <<>>]]
           C == [v \in Vehicle |-> Cut(W[v], is[v])]
<1>1. /\ st' = t /\ up' = [v \in Vehicle |-> After(up[v], is[v])]
      /\ down' = [v \in Vehicle |-> Added(down[v], s.sent[v])]
      /\ life' = life /\ ex' = ex /\ pos' = pos /\ ahead' = ahead
  <2>1. Heard(now, is) = AfterStep(is, heard, s)
    BY DEF Heard, HearAll
  <2> DEFINE h == AfterStep(is, heard, s)
  <2>2. /\ st' = h.st /\ up' = h.up /\ down' = h.down
        /\ life' = life /\ ex' = ex /\ pos' = pos /\ ahead' = ahead
    BY <2>1 DEF StationHears
  <2> HIDE DEF s
  <2> QED
    BY <2>2 DEF AfterStep
<1>2. /\ Stands(W, st) /\ life.depth \in Nat \ {0} /\ DOMAIN ex = Vehicle /\ DOMAIN ahead = Vehicle
      /\ pos \in [Vehicle -> Cell] /\ life \in Lives
  BY LivesAssumption DEF FleetInv
<1>3. WorldShaped(W) /\ Serves(W, st) /\ \A v \in Vehicle : Minded(W[v].e) /\ Speaks(W[v].down)
  BY <1>2 DEF Stands
<1>4. ASSUME NEW v \in Vehicle
      PROVE  /\ DOMAIN W[v] = WorldFields /\ Listed(W[v].up) /\ Listed(W[v].down)
             /\ Minded(W[v].e) /\ Speaks(W[v].down)
             /\ W[v].up = up[v] /\ W[v].down = down[v]
             /\ is[v] = 0 \/ (is[v] = 1 /\ Len(up[v]) >= 1)
  <2>1. DOMAIN W[v] = WorldFields /\ Listed(W[v].up) /\ Listed(W[v].down)
    BY <1>3 DEF WorldShaped
  <2>2. W[v].up = up[v] /\ W[v].down = down[v]
    BY DEF World
  <2>3. is[v] = 0 \/ (is[v] = 1 /\ Len(up[v]) >= 1)
    <3>1. is[v] \in {0, 1} /\ is[v] <= Len(up[v])
      OBVIOUS
    <3> QED
      BY <3>1
  <2> QED
    BY <1>3, <2>1, <2>2, <2>3
<1>5. ASSUME NEW v \in Vehicle
      PROVE  /\ U[v].e = W[v].e /\ U[v].pos = W[v].pos /\ U[v].ahead = W[v].ahead
             /\ U[v].up = After(up[v], is[v]) /\ U[v].down = Added(down[v], s.sent[v])
             /\ DOMAIN U[v] = WorldFields
  <2> HIDE DEF s
  <2> QED
    BY <1>1 DEF World, WorldFields
<1> HIDE DEF W, U
<1>6. Serves(C, a)
  <2> DEFINE ups == up
             z == st
  <2>1. /\ WorldShaped(W) /\ Serves(W, z) /\ \A v \in Vehicle : W[v].up = ups[v]
        /\ \A v \in Vehicle : is[v] = 0 \/ (is[v] = 1 /\ Len(ups[v]) >= 1)
        /\ a = HearAll(z, ups, is) /\ \A v \in Vehicle : C[v] = Cut(W[v], is[v])
    BY <1>3, <1>4
  <2> HIDE DEF a, C, ups, z
  <2> QED
    BY ONLY <2>1, HearAllServes
<1>7. ASSUME NEW v \in Vehicle
      PROVE  /\ C[v].e = W[v].e /\ C[v].pos = W[v].pos /\ C[v].ahead = W[v].ahead
             /\ C[v].down = W[v].down
             /\ C[v].up = IF is[v] = 0 THEN up[v] ELSE SubSeq(up[v], is[v] + 1, Len(up[v]))
  BY <1>4 DEF Cut, WorldFields
<1> HIDE DEF C, a
<1>8. Serves(C, s)
  <2>1. Expected = Vehicle
    BY ScopeAssumption
  <2> DEFINE l == lost \ heard
  <2>2. s = StationTurn(a, l, now)
    OBVIOUS
  <2> HIDE DEF s, l
  <2> QED
    BY ONLY <1>6, <2>1, <2>2, TurnServes
<1> HIDE DEF s
<1>9. \A v \in Vehicle : Listed(s.sent[v]) /\ Speaks(s.sent[v])
  BY <1>8 DEF Serves, StationShaped
<1>10. ASSUME NEW v \in Vehicle
       PROVE  /\ U[v].up = C[v].up /\ Listed(U[v].up)
              /\ Listed(U[v].down) /\ Speaks(U[v].down)
              /\ Values(U[v].down) \subseteq Values(C[v].down) \cup Values(s.sent[v])
  <2>1. U[v].up = C[v].up /\ Listed(U[v].up)
    <3> DEFINE q == up[v]
               r == After(q, is[v])
               i == is[v]
    <3>1. Listed(q) /\ (i = 0 \/ (i = 1 /\ Len(q) >= 1))
      BY <1>4
    <3>2. r = After(q, i)
      OBVIOUS
    <3>3. Listed(r) /\ r = IF i = 0 THEN q ELSE SubSeq(q, i + 1, Len(q))
      <4> HIDE DEF q, r, i
      <4> QED
        BY ONLY <3>1, <3>2, AfterIs
    <3> QED
      BY <1>5, <1>7, <3>3
  <2>2. Listed(U[v].down) /\ Values(U[v].down) \subseteq Values(down[v]) \cup Values(s.sent[v])
    <3> DEFINE q == down[v]
               ds == s.sent[v]
               r == U[v].down
    <3>1. life.depth \in Nat \ {0} /\ Listed(q) /\ Listed(ds) /\ r = Added(q, ds)
      BY <1>2, <1>4, <1>5, <1>9
    <3> HIDE DEF q, ds, r
    <3>2. Listed(r) /\ Values(r) \subseteq Values(q) \cup Values(ds)
      BY ONLY <3>1, AddedIs
    <3> QED
      BY <3>2 DEF q, ds, r
  <2>3. Speaks(U[v].down)
    <3>1. Speaks(down[v]) /\ Speaks(s.sent[v])
      BY <1>4, <1>9
    <3> QED
      BY <2>2, <3>1, SpeaksIs
  <2> QED
    BY <1>4, <1>7, <2>1, <2>2, <2>3
<1>11. Serves(U, t)
  <2>1. \A v \in Vehicle :
           /\ U[v].e = C[v].e /\ U[v].pos = C[v].pos /\ U[v].ahead = C[v].ahead
           /\ U[v].up = C[v].up
           /\ Values(U[v].down) \subseteq Values(C[v].down) \cup Values(s.sent[v])
    BY <1>5, <1>7, <1>10
  <2> QED
    BY ONLY <1>8, <2>1, AfterServes
<1>12. Stands(U, t)
  <2>1. \A v \in Vehicle : t.sent[v] = <<>>
    <3>1. StationShaped(s)
      BY <1>8 DEF Serves
    <3> QED
      BY <3>1 DEF StationShaped, StationFields
  <2>2. WorldShaped(U) /\ \A v \in Vehicle : Minded(U[v].e) /\ Speaks(U[v].down)
    BY <1>4, <1>5, <1>10 DEF WorldShaped
  <2> QED
    BY <1>11, <2>1, <2>2 DEF Stands
<1>13. DOMAIN up' = Vehicle /\ DOMAIN down' = Vehicle
  BY <1>1
<1> QED
  BY <1>1, <1>2, <1>12, <1>13 DEF FleetInv, U

\* Of a fleet that stands, what is kept free for a vehicle are cells, kept for nobody else,
\* and it is and may go nowhere else.
LEMMA StandsLeases ==
  ASSUME NEW W, NEW s, Stands(W, s), \A v \in Vehicle : W[v].pos \in Cell
  PROVE  /\ \A v \in Vehicle :
              /\ W[v].pos \in Leased(W, s, v) /\ Cells(W[v].ahead) \subseteq Leased(W, s, v)
              /\ Leased(W, s, v) \subseteq Cell
              /\ Leased(W, s, v) = IF s.pl.body[v].known THEN Holding(s.pl.body[v])
                                                         ELSE {W[v].pos}
         /\ \A v, w \in Vehicle : v # w => Leased(W, s, v) \cap Leased(W, s, w) = {}
<1> DEFINE X == Seen(W, s)
<1>1. Serves(W, s)
  BY DEF Stands
<1>2. Reserves(X, s.pl)
  BY <1>1 DEF Serves
<1>3. ASSUME NEW v \in Vehicle
      PROVE  Suits(X[v], s.pl.body[v]) /\ X[v].pos = W[v].pos /\ X[v].ahead = W[v].ahead
  BY <1>2 DEF Reserves, Seen
<1> HIDE DEF X
<1>4. ASSUME NEW v \in Vehicle
      PROVE  /\ W[v].pos \in Leased(W, s, v) /\ Cells(W[v].ahead) \subseteq Leased(W, s, v)
             /\ Leased(W, s, v) \subseteq Cell
             /\ Leased(W, s, v) = IF s.pl.body[v].known THEN Holding(s.pl.body[v])
                                                        ELSE {W[v].pos}
  <2> DEFINE x == X[v]
             b == s.pl.body[v]
  <2>1. Suits(x, b) /\ x.pos = W[v].pos /\ x.ahead = W[v].ahead
    BY <1>3
  <2>2. Leased(W, s, v) = KeptFree(x, b)
    BY DEF Leased, X
  <2> HIDE DEF x, b
  <2>3. x.pos \in KeptFree(x, b) /\ Cells(x.ahead) \subseteq KeptFree(x, b)
    BY <2>1, RightsKept
  <2>4. BodyOK(b) /\ Trail(x, b)
    BY <2>1 DEF Suits
  <2>5. KeptFree(x, b) \subseteq Cell
    <3>1. CASE b.known /\ HasPlan(b)
      <4> DEFINE path == b.plan.route.path
      <4>1. /\ path \in Path /\ b.plan.cursor \in Nat /\ b.plan.cursor >= 1 /\ b.plan.lim \in Nat
        BY <2>4, <3>1 DEF BodyOK
      <4>2. Len(path) \in Nat /\ \A i \in 1..Len(path) : path[i] \in Cell
        BY <4>1, PathIs
      <4> HIDE DEF path
      <4>3. Way(b) \subseteq 1..Len(path) /\ Limit(b) = Lesser(b.plan.lim, Len(path))
        BY <4>1, <4>2 DEF Way, Limit, Lesser, path
      <4>4. Reserved(b.plan) \subseteq Cell
        BY <4>2, <4>3 DEF Reserved, Way, Limit, path
      <4>5. PICK i, j \in Way(b) : path[i] = b.pose
        BY <2>4, <3>1 DEF Trail, Before, path
      <4>6. b.pose \in Cell
        BY <4>2, <4>3, <4>5
      <4> QED
        BY <3>1, <4>4, <4>6 DEF KeptFree, Holding
    <3>2. CASE b.known /\ ~HasPlan(b)
      <4>1. b.pose = x.pos
        BY <2>4, <3>2 DEF Trail, Before
      <4> QED
        BY <2>1, <3>2, <4>1 DEF KeptFree, Holding
    <3>3. CASE ~b.known
      BY <2>1, <3>3 DEF KeptFree
    <3> QED
      BY <3>1, <3>2, <3>3
  <2> QED
    BY <2>1, <2>2, <2>3, <2>5 DEF KeptFree, b
<1>5. \A v, w \in Vehicle : v # w => Leased(W, s, v) \cap Leased(W, s, w) = {}
  BY <1>2 DEF Reserves, Apart, Leased, X
<1> QED
  BY <1>4, <1>5

\* In the beginning nothing is planned, and every body stands where it is.
LEMMA InitStands ==
  ASSUME Init
  PROVE  FleetInv
<1> DEFINE W == World
           X == Seen(W, NewStation)
           e == V!NewExecutor
           b == NewBody
<1>1. /\ life \in Lives /\ ex = [v \in Vehicle |-> e] /\ pos = life.origin
      /\ ahead = [v \in Vehicle |-> <<>>] /\ up = [v \in Vehicle |-> <<>>]
      /\ down = [v \in Vehicle |-> <<>>] /\ st = NewStation
  BY DEF Init
<1>2. pos \in [Vehicle -> Cell] /\ \A v, w \in Vehicle : pos[v] = pos[w] => v = w
  BY <1>1, LivesAssumption, OriginsAssumption
<1>3. Listed(<<>>) /\ Speaks(<<>>) /\ Values(<<>>) = {}
  BY DEF Listed, Speaks, Values
<1>4. ASSUME NEW v \in Vehicle
      PROVE  /\ W[v].e = e /\ W[v].pos = pos[v] /\ W[v].ahead = <<>> /\ W[v].up = <<>>
             /\ W[v].down = <<>> /\ DOMAIN W[v] = WorldFields
  <2> HIDE DEF e
  <2> QED
    BY <1>1 DEF World, WorldFields
<1> HIDE DEF W
<1>5. WorldShaped(W)
  BY <1>3, <1>4 DEF WorldShaped
<1>6. /\ Minded(e) /\ e.gen = 0 /\ e.brake = 0 /\ e.ack = 0 /\ e.fault = FALSE
      /\ e.perm.at = "None" /\ e.perm.deferred.st = "Hold"
  BY DEF Minded, V!NewExecutor, V!Fresh, V!NoDecision, ExFields, PermFields
<1> HIDE DEF e
<1>7. /\ StationShaped(NewStation) /\ NewStation.pl = NewPlanner
      /\ \A v \in Vehicle : NewStation.sent[v] = <<>> /\ NewStation.entry[v] = NewEntry
  BY <1>3, NewShaped DEF StationShaped, NewStation, NewEntry, StationFields, EntryFields
<1>8. ASSUME NEW v \in Vehicle
      PROVE  /\ X[v].e = e /\ X[v].pos = pos[v] /\ X[v].ahead = <<>> /\ X[v].up = <<>>
             /\ X[v].heard = FALSE /\ X[v].s = Quiet(NoCell, NoCell) /\ X[v].body = NoCell
             /\ X[v].ds = {NoDecisionYet}
  BY <1>3, <1>4, <1>7 DEF Seen, NewEntry
<1> HIDE DEF X
<1>9. /\ b.known = FALSE /\ b.gen = 0 /\ b.next = 1 /\ b.brake = 0 /\ b.cert = "Uncertified"
      /\ ~HasPlan(b) /\ ~AwaitsStop(b) /\ ~Granted(b)
  BY DEF NewBody, HasPlan, AwaitsStop, Granted
<1> HIDE DEF b
<1>10. ASSUME NEW v \in Vehicle PROVE Suits(X[v], b)
  <2> DEFINE x == X[v]
             q == Quiet(NoCell, NoCell)
  <2>1. /\ q.valid = TRUE /\ q.placed = TRUE /\ q.healthy = TRUE /\ q.gen = 0 /\ q.ack = 0 /\ q.cert = FALSE
    BY DEF Quiet
  <2>2. /\ x.e = e /\ x.ahead = <<>> /\ x.up = <<>> /\ x.heard = FALSE /\ x.s = q
        /\ x.body = NoCell /\ x.ds = {NoDecisionYet}
    BY <1>8
  <2> HIDE DEF x, q
  <2>3. Sessions(x) = {q} /\ DOMAIN x.up = {}
    BY <2>2 DEF Sessions
  <2>4. BodyOK(b)
    <3>1. b.gen \in Nat /\ b.next \in Nat /\ b.brake \in Nat /\ b.brake < b.next
      BY <1>9
    <3>2. ~HasPlan(b) /\ b.known \in BOOLEAN
      BY <1>9, Zenon
    <3> QED
      BY ONLY <3>1, <3>2 DEF BodyOK
  <2>5. Obeys(x, b)
    BY <1>6, <1>9, <2>1, <2>2, <2>3 DEF Obeys, Confirmed
  <2>6. Trail(x, b)
    BY <1>9, <2>2, <2>3 DEF Trail
  <2>7. Rights(x, b)
    BY <1>9, <2>2 DEF Rights
  <2>8. \A d \in x.ds : DecisionOK(x, b, d)
    BY <1>9, <2>2 DEF DecisionOK, NoDecisionYet
  <2>9. \A s \in Sessions(x) : SessionOK(x, b, s)
    BY <1>6, <1>9, <2>1, <2>2, <2>3 DEF SessionOK
  <2> QED
    BY <2>4, <2>5, <2>6, <2>7, <2>8, <2>9 DEF Suits, x
<1>11. /\ \A v \in Vehicle : NewPlanner.body[v] = b
       /\ NewPlanner.out = <<>>
  BY DEF NewPlanner, b
<1>12. Reserves(X, NewPlanner)
  <2>1. Shaped(NewPlanner) /\ OutOK(NewPlanner)
    BY <1>11, NewShaped DEF OutOK
  <2>2. Apart(X, NewPlanner)
    <3> SUFFICES ASSUME NEW v \in Vehicle, NEW w \in Vehicle, v # w
                 PROVE  KeptFree(X[v], NewPlanner.body[v]) \cap KeptFree(X[w], NewPlanner.body[w]) = {}
      BY DEF Apart
    <3>1. NewPlanner.body[v] = b /\ NewPlanner.body[w] = b /\ b.known = FALSE
      BY <1>9, <1>11
    <3>2. KeptFree(X[v], b) = {pos[v]} /\ KeptFree(X[w], b) = {pos[w]}
      BY <1>8, <3>1 DEF KeptFree
    <3>3. pos[v] # pos[w]
      BY <1>2
    <3> QED
      BY <3>1, <3>2, <3>3
  <2> QED
    BY <1>9, <1>10, <1>11, <2>1, <2>2 DEF Reserves
<1>13. Serves(W, NewStation)
  BY <1>3, <1>7, <1>12 DEF Serves, X
<1>14. Stands(W, st)
  BY <1>1, <1>3, <1>4, <1>5, <1>6, <1>7, <1>13 DEF Stands
<1> QED
  BY <1>1, <1>2, <1>14 DEF FleetInv, W

\* What a vehicle may enter, and what is kept free for it.
May  == [v \in Vehicle |-> Cells(ahead[v])]
Free == [v \in Vehicle |-> IF st.pl.body[v].known THEN Holding(st.pl.body[v]) ELSE {pos[v]}]

\* Everybody is, and may go, where places are kept for it, and none is kept twice.
LeasesOK ==
  /\ pos \in [Vehicle -> Cell]
  /\ \A v \in Vehicle :
       /\ Free[v] = Leased(World, st, v) /\ Free[v] \subseteq Cell
       /\ pos[v] \in Free[v] /\ May[v] = Cells(ahead[v]) /\ May[v] \subseteq Free[v]
  /\ \A v, w \in Vehicle : v # w => Free[v] \cap Free[w] = {}

LEMMA InvLeases == FleetInv => LeasesOK
<1> HAVE FleetInv
<1> DEFINE W == World
           s == st
<1>1. Stands(W, s) /\ pos \in [Vehicle -> Cell]
  BY DEF FleetInv
<1>2. \A v \in Vehicle : W[v].pos = pos[v] /\ W[v].ahead = ahead[v]
  BY DEF World
<1> HIDE DEF W, s
<1>3. Stands(W, s) /\ \A v \in Vehicle : W[v].pos \in Cell
  BY <1>1, <1>2
<1>4. /\ \A v \in Vehicle :
           /\ W[v].pos \in Leased(W, s, v) /\ Cells(W[v].ahead) \subseteq Leased(W, s, v)
           /\ Leased(W, s, v) \subseteq Cell
           /\ Leased(W, s, v) = IF s.pl.body[v].known THEN Holding(s.pl.body[v]) ELSE {W[v].pos}
      /\ \A v, w \in Vehicle : v # w => Leased(W, s, v) \cap Leased(W, s, w) = {}
  BY ONLY <1>3, StandsLeases
<1>5. \A v \in Vehicle : Free[v] = Leased(W, s, v)
  BY <1>2, <1>4 DEF Free, s
<1>6. \A v \in Vehicle : May[v] = Cells(ahead[v])
  BY DEF May
<1> QED
  BY <1>1, <1>2, <1>4, <1>5, <1>6 DEF W, s, LeasesOK

LEMMA InvLeasesNext == FleetInv' => LeasesOK'
BY InvLeases, PTL

LEMMA AheadIs ==
  ASSUME FleetInv, NEW v \in Vehicle
  PROVE  ahead[v] \in Seq(Cell)
<1> DEFINE X == Seen(World, st)
<1>1. Suits(X[v], st.pl.body[v])
  BY DEF FleetInv, Stands, Serves, Reserves
<1>2. X[v].ahead = ahead[v]
  BY DEF Seen, World
<1> QED
  BY <1>1, <1>2 DEF Suits, Rights

\* Every step of the fleet is a step of the leases, or changes nothing of them.
LEMMA FleetStep ==
  FleetInv /\ [Next]_vars => FleetInv' /\ [L!Next]_(L!vars)
<1> SUFFICES ASSUME FleetInv, [Next]_vars PROVE FleetInv' /\ [L!Next]_(L!vars)
  OBVIOUS
<1>1. LeasesOK
  BY InvLeases
<1> DEFINE Stays == pos' = pos /\ May' = May /\ Free' = Free
<1>2. Stays => [L!Next]_(L!vars)
  BY DEF L!vars, May, Free
<1>3. ASSUME FleetInv', \A w \in Vehicle : Leased(World', st', w) = Leased(World, st, w)
      PROVE  Free' = Free
  <2>1. LeasesOK'
    BY <1>3, InvLeasesNext
  <2>2. \A w \in Vehicle : Free'[w] = Free[w]
    BY <1>1, <1>3, <2>1 DEF LeasesOK
  <2> QED
    BY <2>2 DEF Free
<1>4. ASSUME NEW v \in Vehicle, VehicleStep(v) PROVE FleetInv' /\ [L!Next]_(L!vars)
  <2>1. PICK settling \in BOOLEAN, f \in {"none", "lapse", "stop", "tube"} : VehicleTurn(v, settling, f)
    BY <1>4 DEF VehicleStep
  <2>2. FleetInv' /\ \A w \in Vehicle : Leased(World', st', w) = Leased(World, st, w)
    BY <2>1, TurnStands
  <2>3. LeasesOK' /\ Free' = Free
    BY <1>3, <2>2, InvLeasesNext
  <2>4. PICK n : ahead' = [ahead EXCEPT ![v] = n]
    BY <2>1 DEF VehicleTurn
  <2>5. pos' = pos
    BY <2>1 DEF VehicleTurn
  <2> DEFINE s == Cells(ahead'[v])
  <2>6. s \in SUBSET Free[v]
    BY <2>3 DEF LeasesOK
  <2>7. May' = [May EXCEPT ![v] = s]
    BY <2>4 DEF May, FleetInv
  <2> HIDE DEF s
  <2>8. L!TakeUp(v)
    BY <2>3, <2>5, <2>6, <2>7 DEF L!TakeUp, May, Free
  <2> QED
    BY <2>2, <2>8 DEF L!Next
<1>5. ASSUME NEW v \in Vehicle, Drive(v) PROVE FleetInv' /\ [L!Next]_(L!vars)
  <2>1. FleetInv' /\ \A w \in Vehicle : Leased(World', st', w) = Leased(World, st, w)
    BY <1>5, DriveStands
  <2>2. LeasesOK' /\ Free' = Free
    BY <1>3, <2>1, InvLeasesNext
  <2> DEFINE q == ahead[v]
             c == Head(q)
             s == Cells(Tail(q))
  <2>3. q # <<>> /\ pos' = [pos EXCEPT ![v] = c] /\ ahead' = [ahead EXCEPT ![v] = Tail(q)]
    BY <1>5 DEF Drive
  <2>4. c \in Cells(q) /\ s \subseteq Cells(q)
    <3>1. q \in Seq(Cell)
      BY AheadIs
    <3> HIDE DEF q
    <3>2. Len(q) \in Nat /\ Len(q) >= 1 /\ DOMAIN q = 1..Len(q) /\ Head(q) = q[1]
      BY <2>3, <3>1
    <3>3. Listed(q)
      BY <3>1 DEF Listed
    <3>4. \A i \in DOMAIN Tail(q) : i + 1 \in DOMAIN q /\ Tail(q)[i] = q[i + 1]
      BY ONLY <2>3, <3>3, TailIs
    <3> QED
      BY <3>2, <3>4 DEF Cells
  <2>5. c \in May[v] /\ s \in SUBSET May[v]
    BY <1>1, <2>4 DEF LeasesOK
  <2>6. May' = [May EXCEPT ![v] = s]
    BY <2>3 DEF May, FleetInv
  <2> HIDE DEF s, c
  <2>7. L!Enter(v)
    BY <2>2, <2>3, <2>5, <2>6 DEF L!Enter, May, Free
  <2> QED
    BY <2>1, <2>7 DEF L!Next
<1>6. ASSUME NEW v \in Vehicle, Lose(v) PROVE FleetInv' /\ [L!Next]_(L!vars)
  <2>1. FleetInv' /\ \A w \in Vehicle : Leased(World', st', w) = Leased(World, st, w)
    BY <1>6, LoseStands
  <2>2. pos' = pos /\ ahead' = ahead
    BY <1>6 DEF Lose
  <2> QED
    BY <1>2, <1>3, <2>1, <2>2 DEF May
<1>7. ASSUME NEW v \in Vehicle, Silence(v) PROVE FleetInv' /\ [L!Next]_(L!vars)
  <2>1. /\ life' = life /\ ex' = ex /\ pos' = pos /\ ahead' = ahead /\ up' = up
        /\ down' = down /\ st' = st
    BY <1>7 DEF Silence
  <2> QED
    BY <1>2, <2>1 DEF FleetInv, World, May, Free
<1>8. ASSUME StationStep PROVE FleetInv' /\ [L!Next]_(L!vars)
  <2>1. PICK now \in Moments, is \in [Vehicle -> 0..1] :
          (\A v \in Vehicle : is[v] <= Len(up[v])) /\ StationHears(now, is)
    BY <1>8 DEF StationStep
  <2>2. FleetInv'
    BY <2>1, HearsStands
  <2>3. LeasesOK'
    BY <2>2, InvLeasesNext
  <2>4. pos' = pos /\ ahead' = ahead
    BY <2>1 DEF StationHears
  <2>5. May' = May
    BY <2>4 DEF May
  <2>6. Free' \in [Vehicle -> SUBSET Cell]
    <3>1. \A v \in Vehicle : Free'[v] \in SUBSET Cell
      BY <2>3 DEF LeasesOK
    <3> QED
      BY <3>1 DEF Free
  <2>7. L!Lease
    <3>1. \A v, w \in Vehicle : v # w => Free'[v] \cap Free'[w] = {}
      BY <2>3 DEF LeasesOK
    <3>2. \A v \in Vehicle : {pos[v]} \cup May[v] \subseteq Free'[v]
      BY <2>3, <2>4, <2>5 DEF LeasesOK
    <3> QED
      BY ONLY <2>4, <2>5, <2>6, <3>1, <3>2, Zenon DEF L!Lease, L!Disjoint, May, Free
  <2> QED
    BY <2>2, <2>7 DEF L!Next
<1>9. ASSUME NEW t, st' = t, DOMAIN t = StationFields, t.entry = st.entry, t.sent = st.sent,
             DOMAIN t.pl = PlannerFields, t.pl.body = st.pl.body, t.pl.out = st.pl.out,
             life' = life, ex' = ex, pos' = pos, ahead' = ahead, up' = up, down' = down
      PROVE  FleetInv' /\ [L!Next]_(L!vars)
  <2> DEFINE W == World
             s == st
  <2>1. Stands(W, s) /\ World' = W
    BY <1>9 DEF FleetInv, World
  <2> HIDE DEF W
  <2>2. Stands(W, t)
    <3>1. /\ DOMAIN t = StationFields /\ t.entry = s.entry /\ t.sent = s.sent
          /\ DOMAIN t.pl = PlannerFields /\ t.pl.body = s.pl.body /\ t.pl.out = s.pl.out
      BY <1>9
    <3> HIDE DEF s
    <3> QED
      BY ONLY <2>1, <3>1, AsideStands
  <2>3. FleetInv'
    BY <1>9, <2>1, <2>2 DEF FleetInv
  <2> QED
    BY <1>2, <1>9, <2>3 DEF May, Free
<1>10. StationShaped(st)
  BY DEF FleetInv, Stands, Serves
<1>11. ASSUME SceneChange PROVE FleetInv' /\ [L!Next]_(L!vars)
  <2> DEFINE t == [st EXCEPT !.scene = ~st.scene]
  <2>1. /\ st' = t /\ life' = life /\ ex' = ex /\ pos' = pos /\ ahead' = ahead /\ up' = up
        /\ down' = down
    BY <1>11 DEF SceneChange
  <2>2. /\ DOMAIN t = StationFields /\ t.entry = st.entry /\ t.sent = st.sent /\ t.pl = st.pl
        /\ DOMAIN st.pl = PlannerFields
    BY <1>10 DEF StationShaped, StationFields, Shaped
  <2> HIDE DEF t
  <2> QED
    BY <1>9, <2>1, <2>2
<1>12. ASSUME NEW c \in Cell, WorldChange(c) PROVE FleetInv' /\ [L!Next]_(L!vars)
  <2> DEFINE t == [st EXCEPT !.pl = SetWorld(st.pl, st.pl.world \cup {c})]
  <2>1. /\ st' = t /\ life' = life /\ ex' = ex /\ pos' = pos /\ ahead' = ahead /\ up' = up
        /\ down' = down
    BY <1>12 DEF WorldChange
  <2>2. /\ DOMAIN t = StationFields /\ t.entry = st.entry /\ t.sent = st.sent
        /\ DOMAIN t.pl = PlannerFields /\ t.pl.body = st.pl.body /\ t.pl.out = st.pl.out
    BY <1>10 DEF StationShaped, StationFields, Shaped, SetWorld, PlannerFields
  <2> HIDE DEF t
  <2> QED
    BY <1>9, <2>1, <2>2
<1>13. ASSUME UNCHANGED vars PROVE FleetInv' /\ [L!Next]_(L!vars)
  BY <1>2, <1>13 DEF vars, FleetInv, World, May, Free
<1> QED
  BY <1>4, <1>5, <1>6, <1>7, <1>8, <1>11, <1>12, <1>13 DEF Next

\* The invariant of the fleet (reset_planner.cpp, reset_coordinator.cpp, reset_executor.h):
\* what the station keeps free for a vehicle contains the vehicle, all it may still enter and
\* all that a message on its way, or a permission that waits for its stop, may make it enter.
THEOREM FleetInvariance == Spec => []FleetInv
<1>1. Init => FleetInv
  BY InitStands
<1>2. FleetInv /\ [Next]_vars => FleetInv'
  BY FleetStep
<1> QED
  BY <1>1, <1>2, PTL DEF Spec

\* No two bodies are ever in one place, for every fleet, every world and every schedule,
\* whatever messages are lost or late (ResetSystem's NoCollision).
THEOREM FleetNeverCollides == Spec => []NoCollision
<1>1. LeasesOK => NoCollision
  BY DEF LeasesOK, NoCollision
<1>2. FleetInv => NoCollision
  BY <1>1, InvLeases
<1> QED
  BY <1>2, FleetInvariance, PTL

\* The fleet implements the leases.
THEOREM FleetImplementsLeases == Spec => ImplementsLeases
<1>1. Init => L!Init
  <2> SUFFICES ASSUME Init PROVE L!Init
    OBVIOUS
  <2>1. LeasesOK
    BY InitStands, InvLeases
  <2>2. ahead = [v \in Vehicle |-> <<>>] /\ st = NewStation
    BY DEF Init
  <2>3. May = [v \in Vehicle |-> {}]
    BY <2>2 DEF May, Cells
  <2>4. Free = [v \in Vehicle |-> {pos[v]}]
    BY <2>2 DEF Free, NewStation, NewPlanner, NewBody
  <2> QED
    BY <2>1, <2>3, <2>4 DEF L!Init, L!Disjoint, LeasesOK, May, Free
<1>2. FleetInv /\ [Next]_vars => [L!Next]_(L!vars)
  BY FleetStep
<1> QED
  BY <1>1, <1>2, FleetInvariance, PTL DEF Spec, ImplementsLeases, L!Spec

-----------------------------------------------------------------------------
(* What leases are good for.                                                 *)

\* No step of the leases takes a place from a vehicle that is in it or may enter it
\* (reset_planner.cpp sync: the only place where a reservation is given up).
LEMMA LeaseStep ==
  L!TypeOK /\ L!Sound /\ [L!Next]_(L!vars) => L!TypeOK' /\ L!Sound'
<1> SUFFICES ASSUME L!TypeOK, L!Sound, [L!Next]_(L!vars) PROVE L!TypeOK' /\ L!Sound'
  OBVIOUS
<1> DEFINE m == May
           f == Free
<1>1. /\ pos \in [Vehicle -> Cell] /\ m \in [Vehicle -> SUBSET Cell]
      /\ f \in [Vehicle -> SUBSET Cell]
      /\ \A v, w \in Vehicle : v # w => f[v] \cap f[w] = {}
      /\ \A v \in Vehicle : {pos[v]} \cup m[v] \subseteq f[v]
  BY DEF L!TypeOK, L!Sound, L!Disjoint, May, Free
<1>2. ASSUME pos' \in [Vehicle -> Cell], m' \in [Vehicle -> SUBSET Cell],
             f' \in [Vehicle -> SUBSET Cell],
             \A v, w \in Vehicle : v # w => f'[v] \cap f'[w] = {},
             \A v \in Vehicle : {pos'[v]} \cup m'[v] \subseteq f'[v]
      PROVE  L!TypeOK' /\ L!Sound'
  BY <1>2 DEF L!TypeOK, L!Sound, L!Disjoint, May, Free
<1>3. CASE L!Lease
  <2>1. /\ f' \in [Vehicle -> SUBSET Cell]
        /\ \A v, w \in Vehicle : v # w => f'[v] \cap f'[w] = {}
        /\ \A v \in Vehicle : {pos[v]} \cup m[v] \subseteq f'[v]
        /\ pos' = pos /\ m' = m
    BY <1>3 DEF L!Lease, L!Disjoint, May, Free
  <2> HIDE DEF m, f
  <2> QED
    BY <1>1, <1>2, <2>1
<1>4. ASSUME NEW v \in Vehicle, L!TakeUp(v) PROVE L!TypeOK' /\ L!Sound'
  <2>1. PICK s \in SUBSET f[v] : m' = [m EXCEPT ![v] = s]
    BY <1>4 DEF L!TakeUp, May, Free
  <2>2. pos' = pos /\ f' = f
    BY <1>4 DEF L!TakeUp, May, Free
  <2> HIDE DEF m, f
  <2>3. \A w \in Vehicle : {pos'[w]} \cup m'[w] \subseteq f'[w]
    BY <1>1, <2>1, <2>2
  <2>4. m' \in [Vehicle -> SUBSET Cell]
    BY <1>1, <2>1
  <2> QED
    BY <1>1, <1>2, <2>2, <2>3, <2>4
<1>5. ASSUME NEW v \in Vehicle, L!Enter(v) PROVE L!TypeOK' /\ L!Sound'
  <2>1. PICK p \in m[v] : pos' = [pos EXCEPT ![v] = p]
    BY <1>5 DEF L!Enter, May, Free
  <2>2. PICK s \in SUBSET m[v] : m' = [m EXCEPT ![v] = s]
    BY <1>5 DEF L!Enter, May, Free
  <2>3. f' = f
    BY <1>5 DEF L!Enter, May, Free
  <2> HIDE DEF m, f
  <2>4. \A w \in Vehicle : {pos'[w]} \cup m'[w] \subseteq f'[w]
    BY <1>1, <2>1, <2>2, <2>3
  <2>5. pos' \in [Vehicle -> Cell] /\ m' \in [Vehicle -> SUBSET Cell]
    BY <1>1, <2>1, <2>2
  <2> QED
    BY <1>1, <1>2, <2>3, <2>4, <2>5
<1>6. CASE UNCHANGED L!vars
  <2>1. pos' = pos /\ m' = m /\ f' = f
    BY <1>6 DEF L!vars, May, Free
  <2> HIDE DEF m, f
  <2> QED
    BY <1>1, <1>2, <2>1
<1> QED
  BY <1>3, <1>4, <1>5, <1>6 DEF L!Next

\* The invariant of the leases: every vehicle is, and may only go, where a place is kept for
\* it and for nobody else.
THEOREM LeasesSound == L!Spec => [](L!TypeOK /\ L!Sound)
<1>1. L!Init => L!TypeOK /\ L!Sound
  <2> SUFFICES ASSUME L!Init PROVE L!TypeOK /\ L!Sound
    OBVIOUS
  <2> DEFINE m == May
             f == Free
  <2>1. /\ pos \in [Vehicle -> Cell] /\ m = [v \in Vehicle |-> {}]
        /\ f = [v \in Vehicle |-> {pos[v]}]
        /\ \A v, w \in Vehicle : v # w => f[v] \cap f[w] = {}
    BY DEF L!Init, L!Disjoint, May, Free
  <2> HIDE DEF m, f
  <2>2. /\ m \in [Vehicle -> SUBSET Cell] /\ f \in [Vehicle -> SUBSET Cell]
        /\ \A v \in Vehicle : {pos[v]} \cup m[v] \subseteq f[v]
    BY <2>1
  <2> QED
    BY <2>1, <2>2 DEF m, f, L!TypeOK, L!Sound, L!Disjoint, May, Free
<1> QED
  BY <1>1, LeaseStep, PTL DEF L!Spec

\* Whatever is leased to whom and however late rights are taken up or given up, no two
\* vehicles meet and none may go where another is or may go.
THEOREM LeasesExclude == L!Spec => []L!Exclusion
<1>1. L!TypeOK /\ L!Sound => L!Exclusion
  BY DEF L!TypeOK, L!Sound, L!Disjoint, L!Exclusion
<1> QED
  BY <1>1, LeasesSound, PTL

\* Nor does it happen to the vehicles: where one is or may still drive (reset_executor.h
\* driveTracked), another neither is nor may drive.
THEOREM FleetExcludes == Spec => []L!Exclusion
<1> QED
  BY FleetImplementsLeases, LeasesExclude, PTL DEF ImplementsLeases

=============================================================================
