-------------------------- MODULE ResetStationProofs --------------------------
(***************************************************************************)
(* What a step of the planner and of the station leaves as it is, what shape *)
(* it has afterwards, and that it keeps what vehicles are promised: lemmas,  *)
(* one for each operator of the model, for every fleet, every graph of cells *)
(* and whatever the vehicles say.  They are about values and no behaviour, so *)
(* that each module that composes the station can use them.                  *)
(*                                                                           *)
(* The first half is about shapes (Shaped, StationShaped).  The second is what *)
(* the station relies on of a vehicle (Suits), what all the plans together   *)
(* keep free (Reserves), and that a step of the station in which it hears some *)
(* vehicles and sends decisions keeps both (Serves).                         *)
(*                                                                           *)
(* Many operators serve the vehicles one after the other (InOrder).  The     *)
(* lemmas named ...Steps name the values in between, so that what each step  *)
(* keeps is kept by the round; they have the same proof, since a lemma with an *)
(* operator for the step as its parameter cannot be cited for one of them.   *)
(***************************************************************************)
EXTENDS ResetStation, WellFoundedInduction, FiniteSetTheorems,
        SequenceTheorems, TLAPS

-----------------------------------------------------------------------------
(* Induction, and sequences of anything.                                     *)

LEMMA LeastNumber ==
  ASSUME NEW S, S \subseteq Nat, S # {}
  PROVE  \E m \in S : \A k \in S : m <= k
<1> DEFINE R == {ss \in Nat \X Nat : ss[1] < ss[2]}
<1>1. IsWellFoundedOn(R, Nat)
  BY NatLessThanWellFounded DEF OpToRel
<1> HIDE DEF R
<1>2. PICK m \in S : \A k \in S : <<k, m>> \notin R
  BY <1>1, WFMin
<1>3. \A k \in S : ~(k < m)
  BY <1>2 DEF R
<1> QED
  BY <1>3

LEMMA InductUpTo ==
  ASSUME NEW n \in Nat, NEW S, 0 \in S, \A k \in 0..(n - 1) : k \in S => k + 1 \in S
  PROVE  \A k \in 0..n : k \in S
<1>1. SUFFICES ASSUME (0..n) \ S # {} PROVE FALSE
  OBVIOUS
<1>2. PICK m \in (0..n) \ S : \A k \in (0..n) \ S : m <= k
  <2>1. (0..n) \ S \subseteq Nat
    OBVIOUS
  <2> QED
    BY <1>1, <2>1, LeastNumber
<1>3. m # 0 /\ m - 1 \in 0..(n - 1) /\ m - 1 \in 0..n
  BY <1>2
<1>4. m - 1 \in S
  BY <1>2, <1>3
<1> QED
  BY <1>2, <1>3, <1>4

\* A sequence, whatever its elements are.
Listed(q) == q \in Seq({q[i] : i \in DOMAIN q})

LEMMA AppendListed ==
  ASSUME NEW q, Listed(q), NEW x
  PROVE  /\ Listed(Append(q, x)) /\ Len(q) \in Nat /\ Len(Append(q, x)) = Len(q) + 1
         /\ DOMAIN q = 1..Len(q) /\ DOMAIN Append(q, x) = 1..(Len(q) + 1)
         /\ \A i \in 1..Len(q) : Append(q, x)[i] = q[i]
         /\ Append(q, x)[Len(q) + 1] = x
<1> DEFINE S == {q[i] : i \in DOMAIN q} \cup {x}
           r == Append(q, x)
<1>1. q \in Seq(S)
  BY DEF Listed
<1>2. /\ r \in Seq(S) /\ Len(q) \in Nat /\ Len(r) = Len(q) + 1
      /\ DOMAIN q = 1..Len(q) /\ DOMAIN r = 1..(Len(q) + 1)
      /\ \A i \in 1..Len(q) : r[i] = q[i]
      /\ r[Len(q) + 1] = x
  BY <1>1
<1> HIDE DEF r
<1>3. r \in Seq({r[i] : i \in DOMAIN r})
  BY <1>2
<1> QED
  BY <1>2, <1>3 DEF Listed, r

-----------------------------------------------------------------------------
(* Changes that leave the reservations as they are.                          *)

BodyFields ==
  {"known", "session", "gen", "phase", "pose", "target", "proof", "available", "uncontrolled",
   "rejected", "last", "blockers", "occupied", "noRoute", "at", "plan", "cert", "brake",
   "budget", "grants", "next"}
PlanFields == {"route", "lim", "id", "cursor", "session", "gen"}
PlannerFields == {"body", "world", "changed", "dirty", "out"}

Shaped(pl) ==
  /\ DOMAIN pl = PlannerFields /\ DOMAIN pl.body = Vehicle /\ Listed(pl.out)
  /\ \A v \in Vehicle : DOMAIN pl.body[v] = BodyFields /\ pl.body[v].next \in Nat

\* The number of the last GO is no part of what is reserved.
SamePlan(p, q) ==
  \/ q = p
  \/ /\ DOMAIN p = PlanFields /\ DOMAIN q = PlanFields
     /\ q.route = p.route /\ q.lim = p.lim /\ q.gen = p.gen /\ q.cursor = p.cursor

\* What makes up the reservation of a body is as it was, and a brake that is new has a number
\* that is.
SameReservation(b, c) ==
  /\ c.known = b.known /\ c.gen = b.gen /\ c.pose = b.pose
  /\ SamePlan(b.plan, c.plan)
  /\ (HasPlan(c) <=> HasPlan(b)) /\ (Granted(c) => Granted(b))
  /\ c.next \in Nat /\ b.next <= c.next
  /\ \/ c.cert = b.cert /\ c.brake = b.brake
     \/ c.cert = "Awaiting" /\ c.brake \in Nat /\ b.next <= c.brake /\ c.brake < c.next

Restraint == {"Hold", "Brake", "Reject"}

\* A planner that has told some vehicles something, and none to go.
TellsNoGo(pl, q) ==
  \A i \in DOMAIN q.out :
    \/ i \in DOMAIN pl.out /\ q.out[i] = pl.out[i]
    \/ LET d == q.out[i]
       IN d.vehicle \in Vehicle /\ d.st \in Restraint /\ d.id \in Nat /\ d.id < q.body[d.vehicle].next

SameReservations(pl, q) ==
  Shaped(q) /\ TellsNoGo(pl, q) /\ \A v \in Vehicle : SameReservation(pl.body[v], q.body[v])

LEMMA SameItself ==
  ASSUME NEW pl, Shaped(pl)
  PROVE  SameReservations(pl, pl)
BY DEF SameReservations, SameReservation, SamePlan, TellsNoGo, Shaped

LEMMA SameAgain ==
  ASSUME NEW pl, NEW p, NEW q, Shaped(pl), SameReservations(pl, p), SameReservations(p, q)
  PROVE  SameReservations(pl, q)
<1>1. ASSUME NEW v \in Vehicle PROVE SameReservation(pl.body[v], q.body[v])
  <2>1. SameReservation(pl.body[v], p.body[v]) /\ SameReservation(p.body[v], q.body[v])
    BY DEF SameReservations
  <2>2. pl.body[v].next \in Nat
    BY DEF Shaped
  <2> QED
    BY <2>1, <2>2 DEF SameReservation, SamePlan
<1>2. TellsNoGo(pl, q)
  <2> SUFFICES ASSUME NEW i \in DOMAIN q.out
               PROVE  \/ i \in DOMAIN pl.out /\ q.out[i] = pl.out[i]
                      \/ LET d == q.out[i]
                         IN d.vehicle \in Vehicle /\ d.st \in Restraint /\ d.id \in Nat
                              /\ d.id < q.body[d.vehicle].next
    BY DEF TellsNoGo
  <2> DEFINE d == q.out[i]
  <2>1. CASE i \in DOMAIN p.out /\ d = p.out[i]
    <3>1. CASE i \in DOMAIN pl.out /\ d = pl.out[i]
      BY <3>1
    <3>2. CASE d.vehicle \in Vehicle /\ d.st \in Restraint /\ d.id \in Nat /\ d.id < p.body[d.vehicle].next
      <4>1. p.body[d.vehicle].next <= q.body[d.vehicle].next /\ p.body[d.vehicle].next \in Nat
            /\ q.body[d.vehicle].next \in Nat
        BY <3>2 DEF SameReservations, SameReservation, Shaped
      <4> HIDE DEF d
      <4> QED
        BY <3>2, <4>1 DEF d
    <3> QED
      BY <2>1, <3>1, <3>2 DEF SameReservations, TellsNoGo
  <2>2. CASE d.vehicle \in Vehicle /\ d.st \in Restraint /\ d.id \in Nat /\ d.id < q.body[d.vehicle].next
    BY <2>2
  <2> QED
    BY <2>1, <2>2 DEF SameReservations, TellsNoGo
<1> QED
  BY <1>1, <1>2 DEF SameReservations

\* A field that is no part of the reservation.
Aside == BodyFields \ {"known", "gen", "pose", "plan", "at", "cert", "brake", "next"}

\* The body of v is c, and nothing is said.
Changed(pl, q, v, c) ==
  /\ DOMAIN q = PlannerFields /\ DOMAIN q.body = Vehicle /\ q.body[v] = c /\ q.out = pl.out
  /\ \A w \in Vehicle \ {v} : q.body[w] = pl.body[w]

LEMMA ChangedSame ==
  ASSUME NEW pl, Shaped(pl), NEW v \in Vehicle, NEW c, NEW q, Changed(pl, q, v, c),
         DOMAIN c = BodyFields, SameReservation(pl.body[v], c)
  PROVE  SameReservations(pl, q)
BY DEF SameReservations, TellsNoGo, Shaped, Changed, SameReservation, SamePlan

LEMMA DecidedIs ==
  ASSUME NEW pl, Shaped(pl), NEW v \in Vehicle, NEW st, NEW reason, NEW blockers
  PROVE  LET q == Decided(pl, v, st, reason, blockers) IN
         /\ DOMAIN q = PlannerFields /\ DOMAIN q.body = Vehicle /\ DOMAIN q.body[v] = BodyFields
         /\ \A w \in Vehicle \ {v} : q.body[w] = pl.body[w]
         /\ \A f \in BodyFields \ {"last", "next"} : q.body[v][f] = pl.body[v][f]
         /\ q.body[v].next = pl.body[v].next + 1
         /\ q.world = pl.world /\ q.changed = pl.changed /\ q.dirty = pl.dirty
         /\ q.out = Append(pl.out, [vehicle |-> v, st |-> st, session |-> pl.body[v].session,
                                    gen |-> pl.body[v].gen, id |-> pl.body[v].next,
                                    route |-> NoPlan, lim |-> 0, reason |-> reason])
BY DEF Decided, Shaped, BodyFields, PlannerFields

LEMMA DecidedBody ==
  ASSUME NEW pl, Shaped(pl), NEW v \in Vehicle, NEW st, NEW reason, NEW blockers
  PROVE  LET q == Decided(pl, v, st, reason, blockers) IN
         /\ \A f \in BodyFields \ {"last", "next"} : q.body[v][f] = pl.body[v][f]
         /\ q.body[v].next = pl.body[v].next + 1
         /\ \A w \in Vehicle \ {v} : q.body[w] = pl.body[w]
BY DEF Decided, Shaped, BodyFields, PlannerFields

LEMMA DecidedSame ==
  ASSUME NEW pl, Shaped(pl), NEW v \in Vehicle, NEW st \in Restraint, NEW reason, NEW blockers
  PROVE  SameReservations(pl, Decided(pl, v, st, reason, blockers))
<1> DEFINE q == Decided(pl, v, st, reason, blockers)
           d == [vehicle |-> v, st |-> st, session |-> pl.body[v].session,
                 gen |-> pl.body[v].gen, id |-> pl.body[v].next,
                 route |-> NoPlan, lim |-> 0, reason |-> reason]
<1>1. /\ DOMAIN q = PlannerFields /\ DOMAIN q.body = Vehicle /\ DOMAIN q.body[v] = BodyFields
      /\ \A w \in Vehicle \ {v} : q.body[w] = pl.body[w]
      /\ \A f \in BodyFields \ {"last", "next"} : q.body[v][f] = pl.body[v][f]
      /\ q.body[v].next = pl.body[v].next + 1
      /\ q.out = Append(pl.out, d)
  BY DecidedIs
<1>2. d.vehicle = v /\ d.st = st /\ d.id = pl.body[v].next
  OBVIOUS
<1> HIDE DEF q, d
<1>3. pl.body[v].next \in Nat
  BY DEF Shaped
<1>4. \A w \in Vehicle : SameReservation(pl.body[w], q.body[w]) /\ DOMAIN q.body[w] = BodyFields
  <2>1. SameReservation(pl.body[v], q.body[v])
    <3>1. /\ q.body[v].known = pl.body[v].known /\ q.body[v].gen = pl.body[v].gen
          /\ q.body[v].pose = pl.body[v].pose /\ q.body[v].plan = pl.body[v].plan
          /\ q.body[v].at = pl.body[v].at /\ q.body[v].cert = pl.body[v].cert
          /\ q.body[v].brake = pl.body[v].brake
      BY <1>1 DEF BodyFields
    <3> QED
      BY <1>1, <1>3, <3>1 DEF SameReservation, SamePlan, HasPlan, Granted, Retiring
  <2>2. \A w \in Vehicle \ {v} : SameReservation(pl.body[w], q.body[w])
    BY <1>1 DEF SameReservation, SamePlan, Shaped
  <2> QED
    BY <1>1, <2>1, <2>2 DEF Shaped
<1>5. /\ Listed(q.out) /\ DOMAIN q.out = 1..(Len(pl.out) + 1) /\ DOMAIN pl.out = 1..Len(pl.out)
      /\ Len(pl.out) \in Nat
      /\ \A i \in 1..Len(pl.out) : q.out[i] = pl.out[i]
      /\ q.out[Len(pl.out) + 1] = d
  BY <1>1, AppendListed DEF Shaped
<1>6. TellsNoGo(pl, q)
  <2>1. d.id < q.body[d.vehicle].next /\ d.id \in Nat
    BY <1>1, <1>2, <1>3
  <2> QED
    BY <1>2, <1>5, <2>1 DEF TellsNoGo
<1> QED
  BY <1>1, <1>4, <1>5, <1>6 DEF SameReservations, Shaped, SameReservation, q

LEMMA PutChanged ==
  ASSUME NEW pl, Shaped(pl), NEW v \in Vehicle, NEW c
  PROVE  Changed(pl, Put(pl, v, c), v, c)
BY DEF Changed, Put, Shaped, PlannerFields

LEMMA HoldSame ==
  ASSUME NEW pl, Shaped(pl), NEW v \in Vehicle, NEW reason, NEW blockers
  PROVE  SameReservations(pl, EmitHold(pl, v, reason, blockers))
<1> DEFINE p == [pl EXCEPT !.body[v].blockers = blockers]
           c == [pl.body[v] EXCEPT !.blockers = blockers]
<1>1. Changed(pl, p, v, c)
  BY DEF Changed, Shaped, PlannerFields
<1>2. DOMAIN c = BodyFields /\ SameReservation(pl.body[v], c)
  BY DEF Shaped, SameReservation, SamePlan, BodyFields, HasPlan, Granted, Retiring
<1> HIDE DEF c
<1>3. SameReservations(pl, p)
  BY <1>1, <1>2, ChangedSame
<1>4. EmitHold(pl, v, reason, blockers) \in {p, Decided(p, v, "Hold", reason, blockers)}
  BY DEF EmitHold
<1> HIDE DEF p
<1>5. Shaped(p)
  BY <1>3 DEF SameReservations
<1>6. SameReservations(p, Decided(p, v, "Hold", reason, blockers))
  BY <1>5, DecidedSame DEF Restraint
<1> QED
  BY <1>3, <1>4, <1>6, SameAgain

LEMMA RetireIs ==
  ASSUME NEW b, DOMAIN b = BodyFields
  PROVE  /\ DOMAIN Retire(b) = BodyFields
         /\ \A f \in BodyFields \ {"at"} : Retire(b)[f] = b[f]
         /\ (HasPlan(Retire(b)) <=> HasPlan(b)) /\ ~Granted(Retire(b))
<1>1. CASE HasPlan(b)
  BY <1>1 DEF Retire, HasPlan, Granted, Retiring, BodyFields
<1>2. CASE ~HasPlan(b)
  BY <1>2 DEF Retire, HasPlan, Granted, Retiring, BodyFields
<1> QED
  BY <1>1, <1>2

LEMMA RejectSame ==
  ASSUME NEW pl, Shaped(pl), NEW v \in Vehicle, NEW reason, NEW blockers
  PROVE  SameReservations(pl, EmitReject(pl, v, reason, blockers))
<1> DEFINE r == Retire(pl.body[v])
           c == [r EXCEPT !.rejected = TRUE]
           p == Put(pl, v, c)
<1>1. /\ DOMAIN r = BodyFields /\ \A f \in BodyFields \ {"at"} : r[f] = pl.body[v][f]
      /\ (HasPlan(r) <=> HasPlan(pl.body[v])) /\ ~Granted(r)
  BY RetireIs DEF Shaped
<1> HIDE DEF r
<1>2. DOMAIN c = BodyFields /\ SameReservation(pl.body[v], c)
  <2>1. /\ DOMAIN c = BodyFields /\ c.at = r.at
        /\ \A f \in BodyFields \ {"at", "rejected"} : c[f] = pl.body[v][f]
    BY <1>1 DEF BodyFields
  <2> HIDE DEF c
  <2> QED
    BY <1>1, <2>1 DEF Shaped, SameReservation, SamePlan, BodyFields, HasPlan, Granted, Retiring
<1>3. Changed(pl, p, v, c)
  BY PutChanged
<1> HIDE DEF c
<1>4. SameReservations(pl, p)
  BY <1>2, <1>3, ChangedSame
<1>5. EmitReject(pl, v, reason, blockers) = Decided(p, v, "Reject", reason, blockers)
  BY DEF EmitReject, p, c, r
<1> HIDE DEF p
<1>6. Shaped(p)
  BY <1>4 DEF SameReservations
<1>7. SameReservations(p, Decided(p, v, "Reject", reason, blockers))
  BY <1>6, DecidedSame DEF Restraint
<1> QED
  BY <1>4, <1>5, <1>7, SameAgain

\* A brake: its number is new.
LEMMA BrakeSame ==
  ASSUME NEW pl, Shaped(pl), NEW v \in Vehicle, NEW reason, NEW blockers
  PROVE  /\ SameReservations(pl, EmitBrake(pl, v, reason, blockers))
         /\ AwaitsStop(EmitBrake(pl, v, reason, blockers).body[v])
         /\ ~Granted(EmitBrake(pl, v, reason, blockers).body[v])
         /\ EmitBrake(pl, v, reason, blockers).body[v].brake = pl.body[v].next
         /\ \A w \in Vehicle \ {v} :
              EmitBrake(pl, v, reason, blockers).body[w] = pl.body[w]
<1> DEFINE b == pl.body[v]
           r == Retire(b)
           c == [r EXCEPT !.cert = "Awaiting", !.brake = b.next]
           p == Put(pl, v, c)
           q == EmitBrake(pl, v, reason, blockers)
           k == b.next
<1>1. /\ DOMAIN r = BodyFields /\ \A f \in BodyFields \ {"at"} : r[f] = b[f]
      /\ (HasPlan(r) <=> HasPlan(b)) /\ ~Granted(r)
  BY RetireIs DEF Shaped
<1>2. k \in Nat
  BY DEF Shaped
<1> HIDE DEF r, k
<1>3. /\ DOMAIN c = BodyFields /\ c.at = r.at /\ c.cert = "Awaiting" /\ c.brake = k
      /\ \A f \in BodyFields \ {"at", "cert", "brake"} : c[f] = b[f]
  BY <1>1 DEF BodyFields, k
<1> HIDE DEF c
<1>4. p.body[v] = c /\ Shaped(p) /\ p.out = pl.out /\ \A w \in Vehicle \ {v} : p.body[w] = pl.body[w]
  <2>1. Changed(pl, p, v, c)
    BY PutChanged
  <2> QED
    BY <1>3, <2>1 DEF Changed, Shaped, BodyFields
<1>5. q = Decided(p, v, "Brake", reason, blockers)
  BY DEF EmitBrake, p, c, r, k
<1> HIDE DEF p, q
<1>6. /\ SameReservations(p, q)
      /\ q.body[v].next = k + 1 /\ q.body[v].cert = "Awaiting" /\ q.body[v].brake = k
      /\ \A w \in Vehicle \ {v} : q.body[w] = p.body[w]
  <2>1. SameReservations(p, q)
    BY <1>4, <1>5, DecidedSame DEF Restraint
  <2>2. /\ \A f \in BodyFields \ {"last", "next"} : q.body[v][f] = c[f]
        /\ q.body[v].next = c.next + 1
        /\ \A w \in Vehicle \ {v} : q.body[w] = p.body[w]
    <3>1. Shaped(p) /\ q = Decided(p, v, "Brake", reason, blockers)
      BY <1>4, <1>5
    <3>2. /\ \A f \in BodyFields \ {"last", "next"} : q.body[v][f] = p.body[v][f]
          /\ q.body[v].next = p.body[v].next + 1
          /\ \A w \in Vehicle \ {v} : q.body[w] = p.body[w]
      BY <3>1, DecidedBody
    <3> QED
      BY <1>4, <3>2
  <2>3. c.next = k
    BY <1>3 DEF BodyFields, k
  <2> QED
    BY <1>3, <2>1, <2>2, <2>3 DEF BodyFields
<1>7. SameReservation(b, q.body[v]) /\ ~Granted(q.body[v])
  <2>1. SameReservation(c, q.body[v])
    BY <1>4, <1>6 DEF SameReservations
  <2>2. /\ c.known = b.known /\ c.gen = b.gen /\ c.pose = b.pose /\ c.plan = b.plan
        /\ (HasPlan(c) <=> HasPlan(b)) /\ ~Granted(c)
    BY <1>1, <1>3 DEF BodyFields, HasPlan, Granted, Retiring
  <2> HIDE DEF b
  <2>3. /\ q.body[v].known = b.known /\ q.body[v].gen = b.gen /\ q.body[v].pose = b.pose
        /\ SamePlan(b.plan, q.body[v].plan) /\ (HasPlan(q.body[v]) <=> HasPlan(b))
        /\ ~Granted(q.body[v])
    BY <2>1, <2>2 DEF SameReservation
  <2>4. b.next = k
    BY DEF k, b
  <2> QED
    BY <1>2, <1>6, <2>3, <2>4 DEF SameReservation
<1>8. \A w \in Vehicle : SameReservation(pl.body[w], q.body[w])
  <2>1. \A w \in Vehicle \ {v} : q.body[w] = pl.body[w]
    BY <1>4, <1>6
  <2> QED
    BY <1>7, <2>1 DEF SameReservation, SamePlan, Shaped
<1>9. TellsNoGo(pl, q)
  BY <1>4, <1>6 DEF SameReservations, TellsNoGo
<1> QED
  <2>1. SameReservations(pl, q)
    BY <1>6, <1>8, <1>9 DEF SameReservations
  <2>2. AwaitsStop(q.body[v]) /\ q.body[v].brake = pl.body[v].next /\ ~Granted(q.body[v])
    BY <1>6, <1>7 DEF AwaitsStop, k
  <2>3. \A w \in Vehicle \ {v} : q.body[w] = pl.body[w]
    BY <1>4, <1>6
  <2> QED
    BY <2>1, <2>2, <2>3 DEF q

-----------------------------------------------------------------------------
(* Whatever it is told, the planner stays a planner.                         *)

LEMMA PutShaped ==
  ASSUME NEW pl, Shaped(pl), NEW v \in Vehicle, NEW c, DOMAIN c = BodyFields, c.next \in Nat
  PROVE  Shaped(Put(pl, v, c)) /\ Put(pl, v, c).body[v] = c
BY DEF Put, Shaped, PlannerFields

LEMMA FlagsShaped ==
  ASSUME NEW pl, Shaped(pl), NEW x
  PROVE  /\ Shaped([pl EXCEPT !.dirty = x]) /\ Shaped([pl EXCEPT !.changed = x])
         /\ Shaped([pl EXCEPT !.world = x]) /\ Shaped([pl EXCEPT !.out = <<>>])
<1>1. Shaped([pl EXCEPT !.dirty = x])
  BY DEF Shaped, PlannerFields
<1>2. Shaped([pl EXCEPT !.changed = x])
  BY DEF Shaped, PlannerFields
<1>3. Shaped([pl EXCEPT !.world = x])
  BY DEF Shaped, PlannerFields
<1>4. Listed(<<>>)
  BY DEF Listed
<1>5. Shaped([pl EXCEPT !.out = <<>>])
  BY <1>4 DEF Shaped, PlannerFields
<1> QED
  BY <1>1, <1>2, <1>3, <1>5

LEMMA DecidedShaped ==
  ASSUME NEW pl, Shaped(pl), NEW v \in Vehicle, NEW st, NEW reason, NEW blockers
  PROVE  Shaped(Decided(pl, v, st, reason, blockers))
<1> DEFINE q == Decided(pl, v, st, reason, blockers)
           d == [vehicle |-> v, st |-> st, session |-> pl.body[v].session,
                 gen |-> pl.body[v].gen, id |-> pl.body[v].next,
                 route |-> NoPlan, lim |-> 0, reason |-> reason]
<1>1. /\ DOMAIN q = PlannerFields /\ DOMAIN q.body = Vehicle /\ DOMAIN q.body[v] = BodyFields
      /\ \A w \in Vehicle \ {v} : q.body[w] = pl.body[w]
      /\ q.body[v].next = pl.body[v].next + 1
      /\ q.out = Append(pl.out, d)
  BY DecidedIs
<1> HIDE DEF q, d
<1>2. Listed(q.out)
  BY <1>1, AppendListed DEF Shaped
<1>3. Shaped(q)
  BY <1>1, <1>2 DEF Shaped
<1> QED
  BY <1>3 DEF q

LEMMA HoldShaped ==
  ASSUME NEW pl, Shaped(pl), NEW v \in Vehicle, NEW reason, NEW blockers
  PROVE  /\ Shaped(EmitHold(pl, v, reason, blockers))
         /\ Shaped(EmitReject(pl, v, reason, blockers))
         /\ Shaped(EmitBrake(pl, v, reason, blockers))
BY HoldSame, RejectSame, BrakeSame DEF SameReservations

LEMMA GoShaped ==
  ASSUME NEW pl, Shaped(pl), NEW v \in Vehicle
  PROVE  Shaped(EmitGo(pl, v))
<1> DEFINE b == pl.body[v]
           p == Decided(pl, v, "Go", "None", {})
           g == [p EXCEPT !.body[v].plan.id = b.next]
           n == Len(p.out)
           h == [g EXCEPT !.out[n].route = b.plan.route]
           q == [h EXCEPT !.out[n].lim = b.plan.lim]
<1>1. Shaped(p)
  BY DecidedShaped
<1> HIDE DEF p
<1>2. Shaped(g) /\ Len(g.out) = n /\ n \in Nat
  <2>1. n \in Nat
    BY <1>1 DEF Shaped, Listed
  <2> QED
    BY <1>1, <2>1 DEF Shaped, PlannerFields, BodyFields
<1>3. EmitGo(pl, v) = q
  <2>1. Len(g.out) = n
    BY <1>2
  <2> QED
    BY <2>1 DEF EmitGo, p
<1> HIDE DEF g, n
<1>4. ASSUME NEW s, Listed(s), NEW t, DOMAIN t = DOMAIN s, t = [i \in DOMAIN t |-> t[i]]
      PROVE  Listed(t)
  <2> DEFINE S == {t[i] : i \in DOMAIN t}
  <2>1. DOMAIN s = 1..Len(s) /\ Len(s) \in Nat
    BY <1>4 DEF Listed
  <2>2. t \in [1..Len(s) -> S]
    BY <1>4, <2>1
  <2> HIDE DEF S
  <2>3. t \in Seq(S)
    BY <2>1, <2>2
  <2> QED
    BY <2>3 DEF S, Listed
<1>5. Shaped(h)
  <2> DEFINE l == b.plan.route
             o == [g.out EXCEPT ![n].route = l]
  <2> HIDE DEF l
  <2>1. DOMAIN h = PlannerFields /\ h.body = g.body /\ h.out = o
    BY <1>2 DEF Shaped, PlannerFields, l
  <2>2. DOMAIN o = DOMAIN g.out /\ o = [i \in DOMAIN o |-> o[i]]
    OBVIOUS
  <2> HIDE DEF o, h
  <2>3. Listed(o)
    BY <1>2, <1>4, <2>2 DEF Shaped
  <2> QED
    BY <1>2, <2>1, <2>3 DEF Shaped
<1> HIDE DEF h
<1>6. Shaped(q)
  <2> DEFINE l == b.plan.lim
             o == [h.out EXCEPT ![n].lim = l]
  <2> HIDE DEF l
  <2>1. DOMAIN q = PlannerFields /\ q.body = h.body /\ q.out = o
    BY <1>5 DEF Shaped, PlannerFields, l
  <2>2. DOMAIN o = DOMAIN h.out /\ o = [i \in DOMAIN o |-> o[i]]
    OBVIOUS
  <2> HIDE DEF o, q
  <2>3. Listed(o)
    BY <1>4, <1>5, <2>2 DEF Shaped
  <2> QED
    BY <1>5, <2>1, <2>3 DEF Shaped
<1> QED
  BY <1>3, <1>6

LEMMA InstallShaped ==
  ASSUME NEW pl, Shaped(pl), NEW v \in Vehicle, NEW cand
  PROVE  Shaped(InstallPlan(pl, v, cand))
<1> DEFINE b == pl.body[v]
           plan == [route |-> cand.route, lim |-> cand.lim, id |-> b.next,
                    cursor |-> 1, session |-> b.session, gen |-> b.gen]
           c == [b EXCEPT !.at = "AwaitGo", !.grants = @ + 1, !.blockers = {}, !.noRoute = FALSE,
                          !.plan = plan]
<1>1. DOMAIN c = BodyFields /\ c.next \in Nat
  BY DEF Shaped, BodyFields
<1>2. InstallPlan(pl, v, cand) \in {EmitReject(pl, v, "NoRoute", {}), EmitGo(Put(pl, v, c), v)}
  BY DEF InstallPlan
<1> HIDE DEF c
<1>3. Shaped(Put(pl, v, c))
  BY <1>1, PutShaped
<1> QED
  BY <1>2, <1>3, GoShaped, HoldShaped

LEMMA FleetMember == Len(Fleet) \in Nat /\ \A i \in 1..Len(Fleet) : Fleet[i] \in Vehicle
  BY FleetAssumption DEF Vehicle

LEMMA ShapedAlong ==
  ASSUME NEW r, Shaped(r[0]), \A i \in 1..Len(Fleet) : Shaped(r[i - 1]) => Shaped(r[i])
  PROVE  Shaped(r[Len(Fleet)])
<1> DEFINE n == Len(Fleet)
           S == {k \in 0..n : Shaped(r[k])}
<1>1. n \in Nat /\ \A i \in 1..n : Shaped(r[i - 1]) => Shaped(r[i])
  BY FleetMember
<1> HIDE DEF n
<1>2. 0 \in S
  BY <1>1
<1>3. ASSUME NEW k \in 0..(n - 1), k \in S PROVE k + 1 \in S
  <2>1. k + 1 \in 1..n /\ (k + 1) - 1 = k /\ k + 1 \in 0..n
    BY <1>1
  <2>2. Shaped(r[(k + 1) - 1]) => Shaped(r[k + 1])
    BY <1>1, <2>1
  <2>3. Shaped(r[k])
    BY <1>3
  <2> QED
    BY <2>1, <2>2, <2>3
<1>4. n \in S
  <2> HIDE DEF S
  <2>1. \A k \in 0..n : k \in S
    BY <1>1, <1>2, <1>3, InductUpTo
  <2> QED
    BY <1>1, <2>1
<1> QED
  BY <1>4 DEF n

LEMMA FieldsShaped ==
  ASSUME NEW p, Shaped(p), NEW v \in Vehicle, NEW x1, NEW x2, NEW x3, NEW x4
  PROVE  /\ Shaped([p EXCEPT !.body[v].known = x1, !.body[v].phase = x2,
                             !.body[v].available = x3, !.body[v].uncontrolled = x4])
         /\ Shaped([p EXCEPT !.body[v].session = x1, !.body[v].target = x2])
<1>1. Shaped([p EXCEPT !.body[v].known = x1, !.body[v].phase = x2,
                             !.body[v].available = x3, !.body[v].uncontrolled = x4])
  BY DEF Shaped, PlannerFields, BodyFields
<1>2. Shaped([p EXCEPT !.body[v].session = x1, !.body[v].target = x2])
  BY DEF Shaped, PlannerFields, BodyFields
<1> QED
  BY <1>1, <1>2

LEMMA RequestShaped ==
  ASSUME NEW p, Shaped(p), NEW v \in Vehicle, NEW f
  PROVE  Shaped(NewRequest(p, v, f))
<1> DEFINE b == [p.body[v] EXCEPT !.session = f.session, !.gen = f.gen, !.target = f.target,
                              !.rejected = FALSE, !.occupied = FALSE, !.noRoute = FALSE]
           g == Put(p, v, b)
           e == [g EXCEPT !.dirty = TRUE]
<1>1. NewRequest(p, v, f) = EmitBrake(e, v, "Replan", {})
  BY DEF NewRequest
<1>2. DOMAIN b = BodyFields /\ b.next \in Nat
  BY DEF Shaped, BodyFields
<1> HIDE DEF b
<1>3. Shaped(g)
  BY <1>2, PutShaped
<1> HIDE DEF g
<1>4. Shaped(e)
  BY <1>3, FlagsShaped
<1> HIDE DEF e
<1> QED
  BY <1>1, <1>4, HoldShaped

LEMMA CertifiedShaped ==
  ASSUME NEW p, Shaped(p), NEW v \in Vehicle, NEW f
  PROVE  Shaped(Certified(p, v, f))
<1> DEFINE b == p.body[v]
           e == [b EXCEPT !.at = "Unreserved", !.plan = NoPlan, !.cert = "Certified",
                          !.target = f.target, !.last = NewBody.last,
                          !.grants = IF b.budget # f.session THEN 0 ELSE @,
                          !.budget = f.session]
           r == Put(p, v, e)
           q == IF Participates(b) THEN r ELSE EmitHold(r, v, "None", {})
<1>1. DOMAIN e = BodyFields /\ e.next \in Nat
  BY DEF Shaped, BodyFields
<1>2. Certified(p, v, f) = [q EXCEPT !.dirty = TRUE]
  BY DEF Certified
<1> HIDE DEF e
<1>3. Shaped(r)
  BY <1>1, PutShaped
<1> HIDE DEF r
<1>4. Shaped(q)
  BY <1>3, HoldShaped
<1> HIDE DEF q
<1>5. Shaped([q EXCEPT !.dirty = TRUE])
  BY <1>4, FlagsShaped
<1> QED
  BY <1>2, <1>5

LEMMA SyncShaped ==
  ASSUME NEW pl, Shaped(pl), NEW v \in Vehicle, NEW f
  PROVE  Shaped(Sync(pl, v, f))
<1> DEFINE b   == pl.body[v]
           new == f.gen > b.gen
           m   == Moved(pl, v, f, b)
           s   == [m EXCEPT !.body[v].known = TRUE, !.body[v].phase = f.phase,
                            !.body[v].available = f.available,
                            !.body[v].uncontrolled =
                               f.moving \/ (f.phase = "Moving" /\ ~HasPlan(b))]
           i   == [s EXCEPT !.body[v].session = f.session, !.body[v].target = f.target]
           n   == CASE new -> NewRequest(s, v, f)
                    [] ~new /\ ~b.known -> i
                    [] OTHER -> s
           d   == Deserted(n, v, f)
           c   == IF Stopped(d, v, f, new) THEN Certified(d, v, f) ELSE d
<1>1. Shaped(m)
  <2> DEFINE e == [b EXCEPT !.pose = f.pose, !.proof = f.pose]
             g == IF f.available \/ ~b.known THEN [b EXCEPT !.pose = f.pose] ELSE b
             p == Put(pl, v, e)
             hit == InGrantedCorridor(p, v)
             h == [p EXCEPT !.changed = @ \/ hit, !.dirty = @ \/ hit]
  <2>1. DOMAIN e = BodyFields /\ e.next \in Nat /\ DOMAIN g = BodyFields /\ g.next \in Nat
    BY DEF Shaped, BodyFields
  <2>3. m \in {h, Put(pl, v, g)}
    BY DEF Moved
  <2> HIDE DEF e, g
  <2>2. Shaped(p) /\ Shaped(Put(pl, v, g))
    BY <2>1, PutShaped
  <2> HIDE DEF p
  <2>4. Shaped(h)
    <3> DEFINE x == p.changed \/ hit
               y == p.dirty \/ hit
    <3> HIDE DEF hit
    <3>1. h = [[p EXCEPT !.changed = x] EXCEPT !.dirty = y]
      BY <2>2 DEF Shaped, PlannerFields
    <3> HIDE DEF x, y
    <3> QED
      BY <2>2, <3>1, FlagsShaped
  <2> QED
    BY <2>2, <2>3, <2>4
<1>2. Shaped(s) /\ Shaped(i)
  <2> HIDE DEF m
  <2>1. Shaped(s)
    BY <1>1, FieldsShaped
  <2> HIDE DEF s
  <2> QED
    BY <2>1, FieldsShaped
<1>3. n \in {NewRequest(s, v, f), i, s}
  OBVIOUS
<1>9. Sync(pl, v, f) \in {pl, n, Received(c, v, f)}
  BY DEF Sync, Noted, Renewed, Relieved
<1> HIDE DEF m, s, i
<1>4. Shaped(n)
  BY <1>2, <1>3, RequestShaped
<1> HIDE DEF n
<1>5. Shaped(d)
  <2> DEFINE z == EmitBrake(n, v, "Replan", {})
  <2>1. d \in {[z EXCEPT !.dirty = TRUE], n}
    BY DEF Deserted
  <2>2. Shaped(z)
    BY <1>4, HoldShaped
  <2> HIDE DEF z, d
  <2>3. Shaped([z EXCEPT !.dirty = TRUE])
    BY <2>2, FlagsShaped
  <2> QED
    BY <1>4, <2>1, <2>3
<1> HIDE DEF d
<1>7. Shaped(c)
  BY <1>5, CertifiedShaped
<1> HIDE DEF c
<1>8. Shaped(Received(c, v, f))
  <2> DEFINE e == [c.body[v] EXCEPT !.at = "GoReceived"]
  <2>1. DOMAIN e = BodyFields /\ e.next \in Nat
    BY <1>7 DEF Shaped, BodyFields
  <2>2. Received(c, v, f) \in {Put(c, v, e), c}
    BY DEF Received
  <2> HIDE DEF e
  <2> QED
    BY <1>7, <2>1, <2>2, PutShaped
<1> QED
  BY <1>4, <1>8, <1>9

\* The planner that has not decided anything yet.
Fresh(pl) == [pl EXCEPT !.out = <<>>]

LEMMA SyncedSteps ==
  ASSUME NEW pl, NEW facts
  PROVE  \E r : /\ r[0] = Fresh(pl) /\ Synced(pl, facts) = r[Len(Fleet)]
               /\ \A i \in 1..Len(Fleet) :
                    r[i] = IF Fleet[i] \in DOMAIN facts
                           THEN Sync(r[i - 1], Fleet[i], facts[Fleet[i]]) ELSE r[i - 1]
<1> DEFINE n == Len(Fleet)
           B == Fresh(pl)
           F(p, i) == IF Fleet[i] \in DOMAIN facts THEN Sync(p, Fleet[i], facts[Fleet[i]]) ELSE p
           G(r, i) == IF i = 0 THEN B ELSE F(r[i - 1], i)
           A == {k \in 0..n : \E f : f = [i \in 0..k |-> G(f, i)]}
           r == CHOOSE f : f = [i \in 0..n |-> G(f, i)]
<1>1. n \in Nat
  BY FleetAssumption
<1>2. Synced(pl, facts) = r[n]
  BY DEF Synced, InOrder, Fresh
<1> HIDE DEF F, B, n
<1>3. 0 \in A
  <2> DEFINE f == [i \in 0..0 |-> B]
  <2>1. f = [i \in 0..0 |-> G(f, i)]
    OBVIOUS
  <2> HIDE DEF f, G
  <2> QED
    BY <1>1, <2>1
<1>4. ASSUME NEW k \in 0..(n - 1), k \in A PROVE k + 1 \in A
  <2>1. PICK f : f = [i \in 0..k |-> G(f, i)]
    BY <1>4
  <2> DEFINE g == [i \in 0..(k + 1) |-> IF i <= k THEN f[i] ELSE G(f, i)]
  <2>2. \A i \in 0..k : g[i] = f[i] /\ f[i] = G(f, i)
    BY <1>1, <2>1
  <2>3. \A i \in 0..(k + 1) : g[i] = G(g, i)
    <3>1. g[k + 1] = G(f, k + 1) /\ g[k] = f[k]
      BY <1>1
    <3> HIDE DEF g
    <3> QED
      BY <1>1, <2>2, <3>1
  <2>4. g = [i \in 0..(k + 1) |-> g[i]]
    OBVIOUS
  <2> HIDE DEF g, G
  <2>5. g = [i \in 0..(k + 1) |-> G(g, i)]
    BY <2>3, <2>4
  <2> QED
    BY <1>1, <2>5
<1>5. n \in A
  <2> HIDE DEF A
  <2> QED
    BY <1>1, <1>3, <1>4, InductUpTo
<1>6. r = [i \in 0..n |-> G(r, i)]
  <2> HIDE DEF G
  <2> QED
    BY <1>5
<1> HIDE DEF r
<1>7. r[0] = B /\ \A i \in 1..n : r[i] = F(r[i - 1], i)
  BY <1>1, <1>6
<1> QED
  BY <1>2, <1>7 DEF B, F, n

LEMMA SyncedShaped ==
  ASSUME NEW pl, Shaped(pl), NEW facts
  PROVE  Shaped(Synced(pl, facts))
<1>1. PICK r : /\ r[0] = Fresh(pl) /\ Synced(pl, facts) = r[Len(Fleet)]
               /\ \A i \in 1..Len(Fleet) :
                    r[i] = IF Fleet[i] \in DOMAIN facts
                           THEN Sync(r[i - 1], Fleet[i], facts[Fleet[i]]) ELSE r[i - 1]
  BY SyncedSteps
<1>2. ASSUME NEW i \in 1..Len(Fleet), Shaped(r[i - 1]) PROVE Shaped(r[i])
  BY <1>1, <1>2, SyncShaped, FleetMember
<1>3. Shaped(Fresh(pl))
  BY FlagsShaped DEF Fresh
<1> QED
  BY <1>1, <1>2, <1>3, ShapedAlong

LEMMA AdvanceShaped ==
  ASSUME NEW pl, Shaped(pl), NEW v \in Vehicle
  PROVE  Shaped(Advance(pl, v))
<1> DEFINE b  == pl.body[v]
           at == {i \in b.plan.cursor..Len(b.plan.route.path) : b.plan.route.path[i] = b.pose}
           x  == CHOOSE i \in at : TRUE
           c  == [b EXCEPT !.plan.cursor = x]
<1>1. Advance(pl, v) \in {pl, Put(pl, v, c)}
  BY DEF Advance
<1> HIDE DEF x
<1>2. DOMAIN c = BodyFields /\ c.next \in Nat
  BY DEF Shaped, BodyFields
<1> HIDE DEF c
<1> QED
  BY <1>1, <1>2, PutShaped

LEMMA ExtendShaped ==
  ASSUME NEW pl, Shaped(pl), NEW v \in Vehicle
  PROVE  Shaped(Extend(pl, v))
<1> DEFINE viol == FirstViolation(pl, v, pl.body[v].plan.route.path, pl.body[v].plan.cursor)
<1>1. ASSUME NEW w PROVE Shaped(Extended(pl, v, w))
  <2> DEFINE b    == pl.body[v]
             next == IF w.at = 0 THEN Unlimited ELSE Greater(b.plan.lim, w.at - 1)
             z == EmitBrake(pl, v, IF w.world THEN "SceneChanged" ELSE "Replan", w.blockers)
             c == [b EXCEPT !.plan.lim = next, !.at = "AwaitGo"]
             d == [b EXCEPT !.blockers = w.blockers]
  <2>1. Extended(pl, v, w) \in {[z EXCEPT !.dirty = TRUE], pl, EmitGo(Put(pl, v, c), v), Put(pl, v, d)}
    BY DEF Extended
  <2> HIDE DEF next
  <2>2. DOMAIN c = BodyFields /\ c.next \in Nat /\ DOMAIN d = BodyFields /\ d.next \in Nat
    BY DEF Shaped, BodyFields
  <2> HIDE DEF c, d
  <2>3. Shaped(z)
    BY HoldShaped
  <2> HIDE DEF z
  <2>4. Shaped([z EXCEPT !.dirty = TRUE])
    BY <2>3, FlagsShaped
  <2>5. Shaped(Put(pl, v, c)) /\ Shaped(Put(pl, v, d))
    BY <2>2, PutShaped
  <2>6. Shaped(EmitGo(Put(pl, v, c), v))
    BY <2>5, GoShaped
  <2> QED
    BY <2>1, <2>4, <2>5, <2>6
<1>2. Extend(pl, v) \in {Extended(pl, v, viol), pl}
  BY DEF Extend
<1> QED
  BY <1>1, <1>2

\* The world has been looked at.
Rested(pl) == [pl EXCEPT !.changed = FALSE]

LEMMA AdvancedSteps ==
  ASSUME NEW pl
  PROVE  \E r : /\ r[0] = pl /\ Advanced(pl) = r[Len(Fleet)]
               /\ \A i \in 1..Len(Fleet) :
                    r[i] = IF Fleet[i] \in Vehicle THEN Advance(r[i - 1], Fleet[i]) ELSE r[i - 1]
<1> DEFINE n == Len(Fleet)
           B == pl
           F(p, i) == IF Fleet[i] \in Vehicle THEN Advance(p, Fleet[i]) ELSE p
           G(r, i) == IF i = 0 THEN B ELSE F(r[i - 1], i)
           A == {k \in 0..n : \E f : f = [i \in 0..k |-> G(f, i)]}
           r == CHOOSE f : f = [i \in 0..n |-> G(f, i)]
<1>1. n \in Nat
  BY FleetAssumption
<1>2. Advanced(pl) = r[n]
  BY DEF Advanced, InOrder
<1> HIDE DEF F, B, n
<1>3. 0 \in A
  <2> DEFINE f == [i \in 0..0 |-> B]
  <2>1. f = [i \in 0..0 |-> G(f, i)]
    OBVIOUS
  <2> HIDE DEF f, G
  <2> QED
    BY <1>1, <2>1
<1>4. ASSUME NEW k \in 0..(n - 1), k \in A PROVE k + 1 \in A
  <2>1. PICK f : f = [i \in 0..k |-> G(f, i)]
    BY <1>4
  <2> DEFINE g == [i \in 0..(k + 1) |-> IF i <= k THEN f[i] ELSE G(f, i)]
  <2>2. \A i \in 0..k : g[i] = f[i] /\ f[i] = G(f, i)
    BY <1>1, <2>1
  <2>3. \A i \in 0..(k + 1) : g[i] = G(g, i)
    <3>1. g[k + 1] = G(f, k + 1) /\ g[k] = f[k]
      BY <1>1
    <3> HIDE DEF g
    <3> QED
      BY <1>1, <2>2, <3>1
  <2>4. g = [i \in 0..(k + 1) |-> g[i]]
    OBVIOUS
  <2> HIDE DEF g, G
  <2>5. g = [i \in 0..(k + 1) |-> G(g, i)]
    BY <2>3, <2>4
  <2> QED
    BY <1>1, <2>5
<1>5. n \in A
  <2> HIDE DEF A
  <2> QED
    BY <1>1, <1>3, <1>4, InductUpTo
<1>6. r = [i \in 0..n |-> G(r, i)]
  <2> HIDE DEF G
  <2> QED
    BY <1>5
<1> HIDE DEF r
<1>7. r[0] = B /\ \A i \in 1..n : r[i] = F(r[i - 1], i)
  BY <1>1, <1>6
<1> QED
  BY <1>2, <1>7 DEF B, F, n

LEMMA AdvancedShaped ==
  ASSUME NEW pl, Shaped(pl)
  PROVE  Shaped(Advanced(pl))
<1>1. PICK r : /\ r[0] = pl /\ Advanced(pl) = r[Len(Fleet)]
               /\ \A i \in 1..Len(Fleet) :
                    r[i] = IF Fleet[i] \in Vehicle THEN Advance(r[i - 1], Fleet[i]) ELSE r[i - 1]
  BY AdvancedSteps
<1>2. ASSUME NEW i \in 1..Len(Fleet), Shaped(r[i - 1]) PROVE Shaped(r[i])
  BY <1>1, <1>2, AdvanceShaped, FleetMember
<1> QED
  BY <1>1, <1>2, ShapedAlong

LEMMA VerifiedSteps ==
  ASSUME NEW pl
  PROVE  \E r : /\ r[0] = pl /\ Verified(pl) = Rested(r[Len(Fleet)])
               /\ \A i \in 1..Len(Fleet) :
                    r[i] = IF Fleet[i] \in Vehicle THEN Extend(r[i - 1], Fleet[i]) ELSE r[i - 1]
<1> DEFINE n == Len(Fleet)
           B == pl
           F(p, i) == IF Fleet[i] \in Vehicle THEN Extend(p, Fleet[i]) ELSE p
           G(r, i) == IF i = 0 THEN B ELSE F(r[i - 1], i)
           A == {k \in 0..n : \E f : f = [i \in 0..k |-> G(f, i)]}
           r == CHOOSE f : f = [i \in 0..n |-> G(f, i)]
<1>1. n \in Nat
  BY FleetAssumption
<1>2. Verified(pl) = Rested(r[n])
  BY DEF Verified, InOrder, Rested
<1> HIDE DEF F, B, n
<1>3. 0 \in A
  <2> DEFINE f == [i \in 0..0 |-> B]
  <2>1. f = [i \in 0..0 |-> G(f, i)]
    OBVIOUS
  <2> HIDE DEF f, G
  <2> QED
    BY <1>1, <2>1
<1>4. ASSUME NEW k \in 0..(n - 1), k \in A PROVE k + 1 \in A
  <2>1. PICK f : f = [i \in 0..k |-> G(f, i)]
    BY <1>4
  <2> DEFINE g == [i \in 0..(k + 1) |-> IF i <= k THEN f[i] ELSE G(f, i)]
  <2>2. \A i \in 0..k : g[i] = f[i] /\ f[i] = G(f, i)
    BY <1>1, <2>1
  <2>3. \A i \in 0..(k + 1) : g[i] = G(g, i)
    <3>1. g[k + 1] = G(f, k + 1) /\ g[k] = f[k]
      BY <1>1
    <3> HIDE DEF g
    <3> QED
      BY <1>1, <2>2, <3>1
  <2>4. g = [i \in 0..(k + 1) |-> g[i]]
    OBVIOUS
  <2> HIDE DEF g, G
  <2>5. g = [i \in 0..(k + 1) |-> G(g, i)]
    BY <2>3, <2>4
  <2> QED
    BY <1>1, <2>5
<1>5. n \in A
  <2> HIDE DEF A
  <2> QED
    BY <1>1, <1>3, <1>4, InductUpTo
<1>6. r = [i \in 0..n |-> G(r, i)]
  <2> HIDE DEF G
  <2> QED
    BY <1>5
<1> HIDE DEF r
<1>7. r[0] = B /\ \A i \in 1..n : r[i] = F(r[i - 1], i)
  BY <1>1, <1>6
<1> QED
  BY <1>2, <1>7 DEF B, F, n

LEMMA VerifiedShaped ==
  ASSUME NEW pl, Shaped(pl)
  PROVE  Shaped(Verified(pl))
<1>1. PICK r : /\ r[0] = pl /\ Verified(pl) = Rested(r[Len(Fleet)])
               /\ \A i \in 1..Len(Fleet) :
                    r[i] = IF Fleet[i] \in Vehicle THEN Extend(r[i - 1], Fleet[i]) ELSE r[i - 1]
  BY VerifiedSteps
<1>2. ASSUME NEW i \in 1..Len(Fleet), Shaped(r[i - 1]) PROVE Shaped(r[i])
  BY <1>1, <1>2, ExtendShaped, FleetMember
<1>3. Shaped(r[Len(Fleet)])
  BY <1>1, <1>2, ShapedAlong
<1> DEFINE q == r[Len(Fleet)]
<1> HIDE DEF q
<1>4. Shaped(q)
  BY <1>3 DEF q
<1>5. Shaped(Rested(q))
  BY <1>4, FlagsShaped DEF Rested
<1> QED
  BY <1>1, <1>5 DEF q

LEMMA RefuseWaitingSteps ==
  ASSUME NEW pl
  PROVE  \E r : /\ r[0] = pl /\ RefuseWaiting(pl) = r[Len(Fleet)]
               /\ \A i \in 1..Len(Fleet) :
                    r[i] = IF Fleet[i] \in {v \in Vehicle : Granted(pl.body[v]) /\ pl.body[v].phase = "Waiting"}
                           THEN EmitReject(r[i - 1], Fleet[i], "Stalled", r[i - 1].body[Fleet[i]].blockers) ELSE r[i - 1]
<1> DEFINE n == Len(Fleet)
           B == pl
           F(p, i) == IF Fleet[i] \in {v \in Vehicle : Granted(pl.body[v]) /\ pl.body[v].phase = "Waiting"}
                      THEN EmitReject(p, Fleet[i], "Stalled", p.body[Fleet[i]].blockers) ELSE p
           G(r, i) == IF i = 0 THEN B ELSE F(r[i - 1], i)
           A == {k \in 0..n : \E f : f = [i \in 0..k |-> G(f, i)]}
           r == CHOOSE f : f = [i \in 0..n |-> G(f, i)]
<1>1. n \in Nat
  BY FleetAssumption
<1>2. RefuseWaiting(pl) = r[n]
  BY DEF RefuseWaiting, InOrder
<1> HIDE DEF F, B, n
<1>3. 0 \in A
  <2> DEFINE f == [i \in 0..0 |-> B]
  <2>1. f = [i \in 0..0 |-> G(f, i)]
    OBVIOUS
  <2> HIDE DEF f, G
  <2> QED
    BY <1>1, <2>1
<1>4. ASSUME NEW k \in 0..(n - 1), k \in A PROVE k + 1 \in A
  <2>1. PICK f : f = [i \in 0..k |-> G(f, i)]
    BY <1>4
  <2> DEFINE g == [i \in 0..(k + 1) |-> IF i <= k THEN f[i] ELSE G(f, i)]
  <2>2. \A i \in 0..k : g[i] = f[i] /\ f[i] = G(f, i)
    BY <1>1, <2>1
  <2>3. \A i \in 0..(k + 1) : g[i] = G(g, i)
    <3>1. g[k + 1] = G(f, k + 1) /\ g[k] = f[k]
      BY <1>1
    <3> HIDE DEF g
    <3> QED
      BY <1>1, <2>2, <3>1
  <2>4. g = [i \in 0..(k + 1) |-> g[i]]
    OBVIOUS
  <2> HIDE DEF g, G
  <2>5. g = [i \in 0..(k + 1) |-> G(g, i)]
    BY <2>3, <2>4
  <2> QED
    BY <1>1, <2>5
<1>5. n \in A
  <2> HIDE DEF A
  <2> QED
    BY <1>1, <1>3, <1>4, InductUpTo
<1>6. r = [i \in 0..n |-> G(r, i)]
  <2> HIDE DEF G
  <2> QED
    BY <1>5
<1> HIDE DEF r
<1>7. r[0] = B /\ \A i \in 1..n : r[i] = F(r[i - 1], i)
  BY <1>1, <1>6
<1> QED
  BY <1>2, <1>7 DEF B, F, n

LEMMA RefuseWaitingShaped ==
  ASSUME NEW pl, Shaped(pl)
  PROVE  Shaped(RefuseWaiting(pl))
<1>1. PICK r : /\ r[0] = pl /\ RefuseWaiting(pl) = r[Len(Fleet)]
               /\ \A i \in 1..Len(Fleet) :
                    r[i] = IF Fleet[i] \in {v \in Vehicle : Granted(pl.body[v]) /\ pl.body[v].phase = "Waiting"}
                           THEN EmitReject(r[i - 1], Fleet[i], "Stalled", r[i - 1].body[Fleet[i]].blockers) ELSE r[i - 1]
  BY RefuseWaitingSteps
<1>2. ASSUME NEW i \in 1..Len(Fleet), Shaped(r[i - 1]) PROVE Shaped(r[i])
  BY <1>1, <1>2, HoldShaped, FleetMember
<1> QED
  BY <1>1, <1>2, ShapedAlong

LEMMA SuspendSteps ==
  ASSUME NEW pl
  PROVE  \E r : /\ r[0] = pl /\ Suspend(pl) = r[Len(Fleet)]
               /\ \A i \in 1..Len(Fleet) :
                    r[i] = IF Fleet[i] \in {v \in Vehicle : Granted(pl.body[v])}
                           THEN EmitBrake(r[i - 1], Fleet[i], "SceneUnavailable", {}) ELSE r[i - 1]
<1> DEFINE n == Len(Fleet)
           B == pl
           F(p, i) == IF Fleet[i] \in {v \in Vehicle : Granted(pl.body[v])}
                      THEN EmitBrake(p, Fleet[i], "SceneUnavailable", {}) ELSE p
           G(r, i) == IF i = 0 THEN B ELSE F(r[i - 1], i)
           A == {k \in 0..n : \E f : f = [i \in 0..k |-> G(f, i)]}
           r == CHOOSE f : f = [i \in 0..n |-> G(f, i)]
<1>1. n \in Nat
  BY FleetAssumption
<1>2. Suspend(pl) = r[n]
  BY DEF Suspend, InOrder
<1> HIDE DEF F, B, n
<1>3. 0 \in A
  <2> DEFINE f == [i \in 0..0 |-> B]
  <2>1. f = [i \in 0..0 |-> G(f, i)]
    OBVIOUS
  <2> HIDE DEF f, G
  <2> QED
    BY <1>1, <2>1
<1>4. ASSUME NEW k \in 0..(n - 1), k \in A PROVE k + 1 \in A
  <2>1. PICK f : f = [i \in 0..k |-> G(f, i)]
    BY <1>4
  <2> DEFINE g == [i \in 0..(k + 1) |-> IF i <= k THEN f[i] ELSE G(f, i)]
  <2>2. \A i \in 0..k : g[i] = f[i] /\ f[i] = G(f, i)
    BY <1>1, <2>1
  <2>3. \A i \in 0..(k + 1) : g[i] = G(g, i)
    <3>1. g[k + 1] = G(f, k + 1) /\ g[k] = f[k]
      BY <1>1
    <3> HIDE DEF g
    <3> QED
      BY <1>1, <2>2, <3>1
  <2>4. g = [i \in 0..(k + 1) |-> g[i]]
    OBVIOUS
  <2> HIDE DEF g, G
  <2>5. g = [i \in 0..(k + 1) |-> G(g, i)]
    BY <2>3, <2>4
  <2> QED
    BY <1>1, <2>5
<1>5. n \in A
  <2> HIDE DEF A
  <2> QED
    BY <1>1, <1>3, <1>4, InductUpTo
<1>6. r = [i \in 0..n |-> G(r, i)]
  <2> HIDE DEF G
  <2> QED
    BY <1>5
<1> HIDE DEF r
<1>7. r[0] = B /\ \A i \in 1..n : r[i] = F(r[i - 1], i)
  BY <1>1, <1>6
<1> QED
  BY <1>2, <1>7 DEF B, F, n

LEMMA SuspendShaped ==
  ASSUME NEW pl, Shaped(pl)
  PROVE  Shaped(Suspend(pl))
<1>1. PICK r : /\ r[0] = pl /\ Suspend(pl) = r[Len(Fleet)]
               /\ \A i \in 1..Len(Fleet) :
                    r[i] = IF Fleet[i] \in {v \in Vehicle : Granted(pl.body[v])}
                           THEN EmitBrake(r[i - 1], Fleet[i], "SceneUnavailable", {}) ELSE r[i - 1]
  BY SuspendSteps
<1>2. ASSUME NEW i \in 1..Len(Fleet), Shaped(r[i - 1]) PROVE Shaped(r[i])
  BY <1>1, <1>2, HoldShaped, FleetMember
<1> QED
  BY <1>1, <1>2, ShapedAlong

\* One that waits is told for whom.
Still(pl, v, loose) == EmitHold(pl, v, "NonParticipantMoving", loose)

LEMMA HoldForSteps ==
  ASSUME NEW pl, NEW waiting, NEW loose
  PROVE  \E r : /\ r[0] = pl /\ HoldFor(pl, waiting, loose) = r[Len(Fleet)]
               /\ \A i \in 1..Len(Fleet) :
                    r[i] = IF Fleet[i] \in waiting
                           THEN Still(r[i - 1], Fleet[i], loose) ELSE r[i - 1]
<1> DEFINE n == Len(Fleet)
           B == pl
           F(p, i) == IF Fleet[i] \in waiting THEN Still(p, Fleet[i], loose) ELSE p
           G(r, i) == IF i = 0 THEN B ELSE F(r[i - 1], i)
           A == {k \in 0..n : \E f : f = [i \in 0..k |-> G(f, i)]}
           r == CHOOSE f : f = [i \in 0..n |-> G(f, i)]
<1>1. n \in Nat
  BY FleetAssumption
<1>2. HoldFor(pl, waiting, loose) = r[n]
  BY DEF HoldFor, InOrder, Still
<1> HIDE DEF F, B, n
<1>3. 0 \in A
  <2> DEFINE f == [i \in 0..0 |-> B]
  <2>1. f = [i \in 0..0 |-> G(f, i)]
    OBVIOUS
  <2> HIDE DEF f, G
  <2> QED
    BY <1>1, <2>1
<1>4. ASSUME NEW k \in 0..(n - 1), k \in A PROVE k + 1 \in A
  <2>1. PICK f : f = [i \in 0..k |-> G(f, i)]
    BY <1>4
  <2> DEFINE g == [i \in 0..(k + 1) |-> IF i <= k THEN f[i] ELSE G(f, i)]
  <2>2. \A i \in 0..k : g[i] = f[i] /\ f[i] = G(f, i)
    BY <1>1, <2>1
  <2>3. \A i \in 0..(k + 1) : g[i] = G(g, i)
    <3>1. g[k + 1] = G(f, k + 1) /\ g[k] = f[k]
      BY <1>1
    <3> HIDE DEF g
    <3> QED
      BY <1>1, <2>2, <3>1
  <2>4. g = [i \in 0..(k + 1) |-> g[i]]
    OBVIOUS
  <2> HIDE DEF g, G
  <2>5. g = [i \in 0..(k + 1) |-> G(g, i)]
    BY <2>3, <2>4
  <2> QED
    BY <1>1, <2>5
<1>5. n \in A
  <2> HIDE DEF A
  <2> QED
    BY <1>1, <1>3, <1>4, InductUpTo
<1>6. r = [i \in 0..n |-> G(r, i)]
  <2> HIDE DEF G
  <2> QED
    BY <1>5
<1> HIDE DEF r
<1>7. r[0] = B /\ \A i \in 1..n : r[i] = F(r[i - 1], i)
  BY <1>1, <1>6
<1> QED
  BY <1>2, <1>7 DEF B, F, n

LEMMA HoldForShaped ==
  ASSUME NEW pl, Shaped(pl), NEW waiting, NEW loose
  PROVE  Shaped(HoldFor(pl, waiting, loose))
<1>1. PICK r : /\ r[0] = pl /\ HoldFor(pl, waiting, loose) = r[Len(Fleet)]
               /\ \A i \in 1..Len(Fleet) :
                    r[i] = IF Fleet[i] \in waiting
                           THEN Still(r[i - 1], Fleet[i], loose) ELSE r[i - 1]
  BY HoldForSteps
<1>2. ASSUME NEW i \in 1..Len(Fleet), Shaped(r[i - 1]) PROVE Shaped(r[i])
  BY <1>1, <1>2, HoldShaped, FleetMember DEF Still
<1> QED
  BY <1>1, <1>2, ShapedAlong

LEMMA CheckShaped ==
  ASSUME NEW pl, Shaped(pl), NEW v \in Vehicle, NEW now
  PROVE  Shaped(CheckSession(pl, v, now))
<1> DEFINE sitting == Sitting(pl, v)
           begun   == [pl EXCEPT !.body[v].occupied = TRUE]
           freed   == [pl EXCEPT !.body[v].occupied = FALSE]
<1>1. CheckSession(pl, v, now) \in
        {EmitReject(pl, v, "GoalOccupied", {}), freed, EmitReject(pl, v, "GoalOccupied", sitting),
         EmitHold(begun, v, "WaitingForPeer", sitting)}
  BY DEF CheckSession
<1>2. Shaped(begun) /\ Shaped(freed)
  BY DEF Shaped, PlannerFields, BodyFields
<1> HIDE DEF begun, freed, sitting
<1> QED
  BY <1>1, <1>2, HoldShaped

LEMMA CheckedSteps ==
  ASSUME NEW pl, NEW asked, NEW now
  PROVE  \E r : /\ r[0] = pl /\ Checked(pl, asked, now) = r[Len(Fleet)]
               /\ \A i \in 1..Len(Fleet) :
                    r[i] = IF Fleet[i] \in asked
                           THEN CheckSession(r[i - 1], Fleet[i], now) ELSE r[i - 1]
<1> DEFINE n == Len(Fleet)
           B == pl
           F(p, i) == IF Fleet[i] \in asked THEN CheckSession(p, Fleet[i], now) ELSE p
           G(r, i) == IF i = 0 THEN B ELSE F(r[i - 1], i)
           A == {k \in 0..n : \E f : f = [i \in 0..k |-> G(f, i)]}
           r == CHOOSE f : f = [i \in 0..n |-> G(f, i)]
<1>1. n \in Nat
  BY FleetAssumption
<1>2. Checked(pl, asked, now) = r[n]
  BY DEF Checked, InOrder
<1> HIDE DEF F, B, n
<1>3. 0 \in A
  <2> DEFINE f == [i \in 0..0 |-> B]
  <2>1. f = [i \in 0..0 |-> G(f, i)]
    OBVIOUS
  <2> HIDE DEF f, G
  <2> QED
    BY <1>1, <2>1
<1>4. ASSUME NEW k \in 0..(n - 1), k \in A PROVE k + 1 \in A
  <2>1. PICK f : f = [i \in 0..k |-> G(f, i)]
    BY <1>4
  <2> DEFINE g == [i \in 0..(k + 1) |-> IF i <= k THEN f[i] ELSE G(f, i)]
  <2>2. \A i \in 0..k : g[i] = f[i] /\ f[i] = G(f, i)
    BY <1>1, <2>1
  <2>3. \A i \in 0..(k + 1) : g[i] = G(g, i)
    <3>1. g[k + 1] = G(f, k + 1) /\ g[k] = f[k]
      BY <1>1
    <3> HIDE DEF g
    <3> QED
      BY <1>1, <2>2, <3>1
  <2>4. g = [i \in 0..(k + 1) |-> g[i]]
    OBVIOUS
  <2> HIDE DEF g, G
  <2>5. g = [i \in 0..(k + 1) |-> G(g, i)]
    BY <2>3, <2>4
  <2> QED
    BY <1>1, <2>5
<1>5. n \in A
  <2> HIDE DEF A
  <2> QED
    BY <1>1, <1>3, <1>4, InductUpTo
<1>6. r = [i \in 0..n |-> G(r, i)]
  <2> HIDE DEF G
  <2> QED
    BY <1>5
<1> HIDE DEF r
<1>7. r[0] = B /\ \A i \in 1..n : r[i] = F(r[i - 1], i)
  BY <1>1, <1>6
<1> QED
  BY <1>2, <1>7 DEF B, F, n

LEMMA CheckedShaped ==
  ASSUME NEW pl, Shaped(pl), NEW asked, NEW now
  PROVE  Shaped(Checked(pl, asked, now))
<1>1. PICK r : /\ r[0] = pl /\ Checked(pl, asked, now) = r[Len(Fleet)]
               /\ \A i \in 1..Len(Fleet) :
                    r[i] = IF Fleet[i] \in asked
                           THEN CheckSession(r[i - 1], Fleet[i], now) ELSE r[i - 1]
  BY CheckedSteps
<1>2. ASSUME NEW i \in 1..Len(Fleet), Shaped(r[i - 1]) PROVE Shaped(r[i])
  BY <1>1, <1>2, CheckShaped, FleetMember
<1> QED
  BY <1>1, <1>2, ShapedAlong

LEMMA FleetInduction ==
  ASSUME NEW S, 0 \in S, \A i \in 1..Len(Fleet) : i - 1 \in S => i \in S
  PROVE  Len(Fleet) \in S
<1> DEFINE n == Len(Fleet)
<1>1. n \in Nat /\ \A i \in 1..n : i - 1 \in S => i \in S
  BY FleetMember
<1> HIDE DEF n
<1>2. ASSUME NEW k \in 0..(n - 1), k \in S PROVE k + 1 \in S
  <2>1. k + 1 \in 1..n /\ (k + 1) - 1 = k
    BY <1>1
  <2> QED
    BY <1>1, <1>2, <2>1
<1>3. \A k \in 0..n : k \in S
  BY <1>1, <1>2, InductUpTo
<1> QED
  BY <1>1, <1>3 DEF n

LEMMA RefuseOverlapsSteps ==
  ASSUME NEW pl
  PROVE  \E r : /\ r[0] = pl /\ RefuseOverlaps(pl) = r[Len(Fleet)]
               /\ \A i \in 1..Len(Fleet) :
                    r[i] = IF Fleet[i] \in Clashing(pl)
                           THEN EmitReject(r[i - 1], Fleet[i], "GoalOccupied", Clashes(pl, Fleet[i])) ELSE r[i - 1]
<1> DEFINE n == Len(Fleet)
           B == pl
           F(p, i) == IF Fleet[i] \in Clashing(pl)
                      THEN EmitReject(p, Fleet[i], "GoalOccupied", Clashes(pl, Fleet[i])) ELSE p
           G(r, i) == IF i = 0 THEN B ELSE F(r[i - 1], i)
           A == {k \in 0..n : \E f : f = [i \in 0..k |-> G(f, i)]}
           r == CHOOSE f : f = [i \in 0..n |-> G(f, i)]
<1>1. n \in Nat
  BY FleetAssumption
<1>2. RefuseOverlaps(pl) = r[n]
  BY DEF RefuseOverlaps, InOrder
<1> HIDE DEF F, B, n
<1>3. 0 \in A
  <2> DEFINE f == [i \in 0..0 |-> B]
  <2>1. f = [i \in 0..0 |-> G(f, i)]
    OBVIOUS
  <2> HIDE DEF f, G
  <2> QED
    BY <1>1, <2>1
<1>4. ASSUME NEW k \in 0..(n - 1), k \in A PROVE k + 1 \in A
  <2>1. PICK f : f = [i \in 0..k |-> G(f, i)]
    BY <1>4
  <2> DEFINE g == [i \in 0..(k + 1) |-> IF i <= k THEN f[i] ELSE G(f, i)]
  <2>2. \A i \in 0..k : g[i] = f[i] /\ f[i] = G(f, i)
    BY <1>1, <2>1
  <2>3. \A i \in 0..(k + 1) : g[i] = G(g, i)
    <3>1. g[k + 1] = G(f, k + 1) /\ g[k] = f[k]
      BY <1>1
    <3> HIDE DEF g
    <3> QED
      BY <1>1, <2>2, <3>1
  <2>4. g = [i \in 0..(k + 1) |-> g[i]]
    OBVIOUS
  <2> HIDE DEF g, G
  <2>5. g = [i \in 0..(k + 1) |-> G(g, i)]
    BY <2>3, <2>4
  <2> QED
    BY <1>1, <2>5
<1>5. n \in A
  <2> HIDE DEF A
  <2> QED
    BY <1>1, <1>3, <1>4, InductUpTo
<1>6. r = [i \in 0..n |-> G(r, i)]
  <2> HIDE DEF G
  <2> QED
    BY <1>5
<1> HIDE DEF r
<1>7. r[0] = B /\ \A i \in 1..n : r[i] = F(r[i - 1], i)
  BY <1>1, <1>6
<1> QED
  BY <1>2, <1>7 DEF B, F, n

LEMMA RefuseOverlapsShaped ==
  ASSUME NEW pl, Shaped(pl)
  PROVE  Shaped(RefuseOverlaps(pl))
<1>1. PICK r : /\ r[0] = pl /\ RefuseOverlaps(pl) = r[Len(Fleet)]
               /\ \A i \in 1..Len(Fleet) :
                    r[i] = IF Fleet[i] \in Clashing(pl)
                           THEN EmitReject(r[i - 1], Fleet[i], "GoalOccupied", Clashes(pl, Fleet[i]))
                           ELSE r[i - 1]
  BY RefuseOverlapsSteps
<1>2. ASSUME NEW i \in 1..Len(Fleet), Shaped(r[i - 1]) PROVE Shaped(r[i])
  BY <1>1, <1>2, HoldShaped, FleetMember
<1> QED
  BY <1>1, <1>2, ShapedAlong

-----------------------------------------------------------------------------
(* The passes over the waiting.                                              *)

PassFields == {"pl", "granted", "held", "why"}
PassShaped(a) == DOMAIN a = PassFields /\ Shaped(a.pl) /\ a.granted \in Nat

LEMMA PutPass ==
  ASSUME NEW a, PassShaped(a), NEW pl, Shaped(pl), NEW v
  PROVE  PassShaped([a EXCEPT !.pl = pl]) /\ PassShaped(Taken(a, v, pl))
<1>1. PassShaped([a EXCEPT !.pl = pl])
  BY DEF PassShaped, PassFields
<1>2. PassShaped(Taken(a, v, pl))
  <2> DEFINE d == IF HasPlan(pl.body[v]) THEN 1 ELSE 0
  <2>1. d \in Nat
    OBVIOUS
  <2>2. Taken(a, v, pl) = [a EXCEPT !.pl = pl, !.granted = @ + d]
    BY DEF Taken
  <2> HIDE DEF d
  <2> QED
    BY <2>1, <2>2 DEF PassShaped, PassFields
<1> QED
  BY <1>1, <1>2

LEMMA TryShaped ==
  ASSUME NEW a, PassShaped(a), NEW v \in Vehicle, NEW wary
  PROVE  PassShaped(Try(a, v, wary))
<1>1. ASSUME NEW cand PROVE PassShaped(Tried(a, v, wary, cand))
  <2> DEFINE w == [failed |-> cand.failed, blockers |-> cand.blockers]
             h == [a EXCEPT !.held = @ \cup {v}, !.why[v] = w]
             q == EmitReject(a.pl, v, "TooSlow", {})
             i == InstallPlan(a.pl, v, cand)
  <2>1. Tried(a, v, wary, cand) \in {h, [a EXCEPT !.pl = q], Taken(a, v, i)}
    BY DEF Tried
  <2> HIDE DEF w
  <2>2. PassShaped(h)
    BY DEF PassShaped, PassFields
  <2>3. Shaped(q) /\ Shaped(i)
    BY HoldShaped, InstallShaped DEF PassShaped
  <2> HIDE DEF h, q, i
  <2>4. PassShaped([a EXCEPT !.pl = q])
    BY <2>3, PutPass
  <2>5. PassShaped(Taken(a, v, i))
    BY <2>3, PutPass
  <2> QED
    BY <2>1, <2>2, <2>4, <2>5
<1> QED
  BY <1>1 DEF Try

\* A first and a second attempt.
FirstTry(a, v, by) ==
  IF by[v] # {} THEN [a EXCEPT !.pl = EmitHold(@, v, "Precedence", by[v])] ELSE Try(a, v, FALSE)
SecondTry(a, v, inCycle) ==
  IF HasPlan(a.pl.body[v]) \/ a.pl.body[v].rejected \/ (Busy(a) /\ v \notin inCycle)
  THEN a ELSE Try(a, v, Busy(a))
NewPass(pl, waiting) ==
  [pl |-> pl, granted |-> 0, held |-> {},
   why |-> [v \in waiting |-> [failed |-> FALSE, blockers |-> {}]]]

LEMMA FirstPassSteps ==
  ASSUME NEW pl, NEW waiting, NEW by
  PROVE  \E r : /\ r[0] = NewPass(pl, waiting) /\ FirstPass(pl, waiting, by) = r[Len(Fleet)]
               /\ \A i \in 1..Len(Fleet) :
                    r[i] = IF Fleet[i] \in waiting
                           THEN FirstTry(r[i - 1], Fleet[i], by) ELSE r[i - 1]
<1> DEFINE n == Len(Fleet)
           B == NewPass(pl, waiting)
           F(p, i) == IF Fleet[i] \in waiting THEN FirstTry(p, Fleet[i], by) ELSE p
           G(r, i) == IF i = 0 THEN B ELSE F(r[i - 1], i)
           A == {k \in 0..n : \E f : f = [i \in 0..k |-> G(f, i)]}
           r == CHOOSE f : f = [i \in 0..n |-> G(f, i)]
<1>1. n \in Nat
  BY FleetAssumption
<1>2. FirstPass(pl, waiting, by) = r[n]
  BY DEF FirstPass, InOrder, FirstTry, NewPass
<1> HIDE DEF F, B, n
<1>3. 0 \in A
  <2> DEFINE f == [i \in 0..0 |-> B]
  <2>1. f = [i \in 0..0 |-> G(f, i)]
    OBVIOUS
  <2> HIDE DEF f, G
  <2> QED
    BY <1>1, <2>1
<1>4. ASSUME NEW k \in 0..(n - 1), k \in A PROVE k + 1 \in A
  <2>1. PICK f : f = [i \in 0..k |-> G(f, i)]
    BY <1>4
  <2> DEFINE g == [i \in 0..(k + 1) |-> IF i <= k THEN f[i] ELSE G(f, i)]
  <2>2. \A i \in 0..k : g[i] = f[i] /\ f[i] = G(f, i)
    BY <1>1, <2>1
  <2>3. \A i \in 0..(k + 1) : g[i] = G(g, i)
    <3>1. g[k + 1] = G(f, k + 1) /\ g[k] = f[k]
      BY <1>1
    <3> HIDE DEF g
    <3> QED
      BY <1>1, <2>2, <3>1
  <2>4. g = [i \in 0..(k + 1) |-> g[i]]
    OBVIOUS
  <2> HIDE DEF g, G
  <2>5. g = [i \in 0..(k + 1) |-> G(g, i)]
    BY <2>3, <2>4
  <2> QED
    BY <1>1, <2>5
<1>5. n \in A
  <2> HIDE DEF A
  <2> QED
    BY <1>1, <1>3, <1>4, InductUpTo
<1>6. r = [i \in 0..n |-> G(r, i)]
  <2> HIDE DEF G
  <2> QED
    BY <1>5
<1> HIDE DEF r
<1>7. r[0] = B /\ \A i \in 1..n : r[i] = F(r[i - 1], i)
  BY <1>1, <1>6
<1> QED
  BY <1>2, <1>7 DEF B, F, n

LEMMA SecondPassSteps ==
  ASSUME NEW a, NEW waiting, NEW inCycle
  PROVE  \E r : /\ r[0] = a /\ SecondPass(a, waiting, inCycle) \in {a, r[Len(Fleet)]}
               /\ \A i \in 1..Len(Fleet) :
                    r[i] = IF Fleet[i] \in waiting
                           THEN SecondTry(r[i - 1], Fleet[i], inCycle) ELSE r[i - 1]
<1> DEFINE n == Len(Fleet)
           B == a
           F(p, i) == IF Fleet[i] \in waiting THEN SecondTry(p, Fleet[i], inCycle) ELSE p
           G(r, i) == IF i = 0 THEN B ELSE F(r[i - 1], i)
           A == {k \in 0..n : \E f : f = [i \in 0..k |-> G(f, i)]}
           r == CHOOSE f : f = [i \in 0..n |-> G(f, i)]
<1>1. n \in Nat
  BY FleetAssumption
<1>2. SecondPass(a, waiting, inCycle) \in {a, r[n]}
  BY DEF SecondPass, InOrder, SecondTry
<1> HIDE DEF F, B, n
<1>3. 0 \in A
  <2> DEFINE f == [i \in 0..0 |-> B]
  <2>1. f = [i \in 0..0 |-> G(f, i)]
    OBVIOUS
  <2> HIDE DEF f, G
  <2> QED
    BY <1>1, <2>1
<1>4. ASSUME NEW k \in 0..(n - 1), k \in A PROVE k + 1 \in A
  <2>1. PICK f : f = [i \in 0..k |-> G(f, i)]
    BY <1>4
  <2> DEFINE g == [i \in 0..(k + 1) |-> IF i <= k THEN f[i] ELSE G(f, i)]
  <2>2. \A i \in 0..k : g[i] = f[i] /\ f[i] = G(f, i)
    BY <1>1, <2>1
  <2>3. \A i \in 0..(k + 1) : g[i] = G(g, i)
    <3>1. g[k + 1] = G(f, k + 1) /\ g[k] = f[k]
      BY <1>1
    <3> HIDE DEF g
    <3> QED
      BY <1>1, <2>2, <3>1
  <2>4. g = [i \in 0..(k + 1) |-> g[i]]
    OBVIOUS
  <2> HIDE DEF g, G
  <2>5. g = [i \in 0..(k + 1) |-> G(g, i)]
    BY <2>3, <2>4
  <2> QED
    BY <1>1, <2>5
<1>5. n \in A
  <2> HIDE DEF A
  <2> QED
    BY <1>1, <1>3, <1>4, InductUpTo
<1>6. r = [i \in 0..n |-> G(r, i)]
  <2> HIDE DEF G
  <2> QED
    BY <1>5
<1> HIDE DEF r
<1>7. r[0] = B /\ \A i \in 1..n : r[i] = F(r[i - 1], i)
  BY <1>1, <1>6
<1> QED
  BY <1>2, <1>7 DEF B, F, n

LEMMA PassesShaped ==
  ASSUME NEW pl, Shaped(pl), NEW waiting
  PROVE  PassShaped(Passes(pl, waiting))
<1>1. ASSUME NEW by PROVE PassShaped(FirstPass(pl, waiting, by))
  <2>1. PICK r : /\ r[0] = NewPass(pl, waiting) /\ FirstPass(pl, waiting, by) = r[Len(Fleet)]
                 /\ \A i \in 1..Len(Fleet) :
                      r[i] = IF Fleet[i] \in waiting THEN FirstTry(r[i - 1], Fleet[i], by)
                                                     ELSE r[i - 1]
    BY FirstPassSteps, SMTT(30)
  <2> DEFINE S == {i \in 0..Len(Fleet) : PassShaped(r[i])}
  <2>2. PassShaped(NewPass(pl, waiting))
    BY DEF PassShaped, NewPass, PassFields
  <2>3. 0 \in S
    BY <2>1, <2>2, FleetMember
  <2>4. ASSUME NEW a, PassShaped(a), NEW v \in Vehicle PROVE PassShaped(FirstTry(a, v, by))
    <3> DEFINE h == EmitHold(a.pl, v, "Precedence", by[v])
    <3>1. FirstTry(a, v, by) \in {[a EXCEPT !.pl = h], Try(a, v, FALSE)}
      BY DEF FirstTry
    <3>2. Shaped(h)
      BY <2>4, HoldShaped DEF PassShaped
    <3> HIDE DEF h
    <3>3. PassShaped([a EXCEPT !.pl = h])
      BY <2>4, <3>2, PutPass
    <3>4. PassShaped(Try(a, v, FALSE))
      BY <2>4, TryShaped
    <3> QED
      BY <3>1, <3>3, <3>4
  <2>5. ASSUME NEW i \in 1..Len(Fleet), i - 1 \in S PROVE i \in S
    <3>1. PassShaped(r[i - 1]) /\ i \in 0..Len(Fleet) /\ Fleet[i] \in Vehicle
      BY <2>5, FleetMember
    <3>2. PassShaped(r[i])
      BY <2>1, <2>4, <3>1
    <3> QED
      BY <3>1, <3>2
  <2>6. Len(Fleet) \in S
    <3> HIDE DEF S
    <3> QED
      BY <2>3, <2>5, FleetInduction
  <2> QED
    BY <2>1, <2>6
<1>2. ASSUME NEW a, PassShaped(a), NEW inCycle PROVE PassShaped(SecondPass(a, waiting, inCycle))
  <2>1. PICK r : /\ r[0] = a /\ SecondPass(a, waiting, inCycle) \in {a, r[Len(Fleet)]}
                 /\ \A i \in 1..Len(Fleet) :
                      r[i] = IF Fleet[i] \in waiting THEN SecondTry(r[i - 1], Fleet[i], inCycle)
                                                     ELSE r[i - 1]
    BY SecondPassSteps
  <2> DEFINE S == {i \in 0..Len(Fleet) : PassShaped(r[i])}
  <2>3. 0 \in S
    BY <1>2, <2>1, FleetMember
  <2>4. ASSUME NEW b, PassShaped(b), NEW v \in Vehicle PROVE PassShaped(SecondTry(b, v, inCycle))
    <3>1. SecondTry(b, v, inCycle) \in {b, Try(b, v, Busy(b))}
      BY DEF SecondTry
    <3> QED
      BY <2>4, <3>1, TryShaped
  <2>5. ASSUME NEW i \in 1..Len(Fleet), i - 1 \in S PROVE i \in S
    <3>1. PassShaped(r[i - 1]) /\ i \in 0..Len(Fleet) /\ Fleet[i] \in Vehicle
      BY <2>5, FleetMember
    <3>2. PassShaped(r[i])
      BY <2>1, <2>4, <3>1
    <3> QED
      BY <3>1, <3>2
  <2>6. Len(Fleet) \in S
    <3> HIDE DEF S
    <3> QED
      BY <2>3, <2>5, FleetInduction
  <2> QED
    BY <1>2, <2>1, <2>6
<1> QED
  BY <1>1, <1>2 DEF Passes

\* What one of those that were tried is told.
Tell(pl, v, why, now) ==
  IF HasPlan(pl.body[v]) \/ pl.body[v].rejected THEN pl ELSE Explain(pl, v, why[v], now)

LEMMA TellShaped ==
  ASSUME NEW pl, Shaped(pl), NEW v \in Vehicle, NEW why, NEW now
  PROVE  Shaped(Tell(pl, v, why, now))
<1>1. ASSUME NEW w PROVE Shaped(Explain(pl, v, w, now))
  <2> DEFINE x == w.failed
             p == [pl EXCEPT !.body[v].noRoute = x]
  <2>1. Explain(pl, v, w, now) \in
          {EmitHold(p, v, "WaitingForPeer", w.blockers), EmitReject(p, v, "NoRoute", {}),
           EmitHold(p, v, "NoRoute", {})}
    BY DEF Explain
  <2> HIDE DEF x
  <2>2. Shaped(p)
    BY DEF Shaped, PlannerFields, BodyFields
  <2> HIDE DEF p
  <2> QED
    BY <2>1, <2>2, HoldShaped
<1> QED
  BY <1>1 DEF Tell

LEMMA ToldSteps ==
  ASSUME NEW a, NEW now
  PROVE  \E r : /\ r[0] = a.pl /\ Told(a, now) = [pl |-> r[Len(Fleet)], granted |-> a.granted]
               /\ \A i \in 1..Len(Fleet) :
                    r[i] = IF Fleet[i] \in a.held
                           THEN Tell(r[i - 1], Fleet[i], a.why, now) ELSE r[i - 1]
<1> DEFINE n == Len(Fleet)
           B == a.pl
           F(p, i) == IF Fleet[i] \in a.held THEN Tell(p, Fleet[i], a.why, now) ELSE p
           G(r, i) == IF i = 0 THEN B ELSE F(r[i - 1], i)
           A == {k \in 0..n : \E f : f = [i \in 0..k |-> G(f, i)]}
           r == CHOOSE f : f = [i \in 0..n |-> G(f, i)]
<1>1. n \in Nat
  BY FleetAssumption
<1>2. Told(a, now) = [pl |-> r[n], granted |-> a.granted]
  BY DEF Told, InOrder, Tell
<1> HIDE DEF F, B, n
<1>3. 0 \in A
  <2> DEFINE f == [i \in 0..0 |-> B]
  <2>1. f = [i \in 0..0 |-> G(f, i)]
    OBVIOUS
  <2> HIDE DEF f, G
  <2> QED
    BY <1>1, <2>1
<1>4. ASSUME NEW k \in 0..(n - 1), k \in A PROVE k + 1 \in A
  <2>1. PICK f : f = [i \in 0..k |-> G(f, i)]
    BY <1>4
  <2> DEFINE g == [i \in 0..(k + 1) |-> IF i <= k THEN f[i] ELSE G(f, i)]
  <2>2. \A i \in 0..k : g[i] = f[i] /\ f[i] = G(f, i)
    BY <1>1, <2>1
  <2>3. \A i \in 0..(k + 1) : g[i] = G(g, i)
    <3>1. g[k + 1] = G(f, k + 1) /\ g[k] = f[k]
      BY <1>1
    <3> HIDE DEF g
    <3> QED
      BY <1>1, <2>2, <3>1
  <2>4. g = [i \in 0..(k + 1) |-> g[i]]
    OBVIOUS
  <2> HIDE DEF g, G
  <2>5. g = [i \in 0..(k + 1) |-> G(g, i)]
    BY <2>3, <2>4
  <2> QED
    BY <1>1, <2>5
<1>5. n \in A
  <2> HIDE DEF A
  <2> QED
    BY <1>1, <1>3, <1>4, InductUpTo
<1>6. r = [i \in 0..n |-> G(r, i)]
  <2> HIDE DEF G
  <2> QED
    BY <1>5
<1> HIDE DEF r
<1>7. r[0] = B /\ \A i \in 1..n : r[i] = F(r[i - 1], i)
  BY <1>1, <1>6
<1> QED
  BY <1>2, <1>7 DEF B, F, n

LEMMA ToldShaped ==
  ASSUME NEW a, PassShaped(a), NEW now
  PROVE  Shaped(Told(a, now).pl)
<1>1. PICK r : /\ r[0] = a.pl /\ Told(a, now) = [pl |-> r[Len(Fleet)], granted |-> a.granted]
               /\ \A i \in 1..Len(Fleet) :
                    r[i] = IF Fleet[i] \in a.held
                           THEN Tell(r[i - 1], Fleet[i], a.why, now) ELSE r[i - 1]
  BY ToldSteps
<1>2. ASSUME NEW i \in 1..Len(Fleet), Shaped(r[i - 1]) PROVE Shaped(r[i])
  BY <1>1, <1>2, TellShaped, FleetMember
<1>3. Shaped(r[Len(Fleet)])
  BY <1>1, <1>2, ShapedAlong DEF PassShaped
<1> QED
  BY <1>1, <1>3

LEMMA AdmitShaped ==
  ASSUME NEW pl, Shaped(pl), NEW now
  PROVE  Shaped(Admit(pl, now).pl)
<1>1. ASSUME NEW p, Shaped(p), NEW asked PROVE Shaped(AdmitChecked(p, asked, now).pl)
  <2> DEFINE waiting == {v \in asked : ~p.body[v].rejected}
             loose   == {v \in Vehicle : p.body[v].uncontrolled}
             h       == HoldFor(p, waiting, loose)
  <2>1. AdmitChecked(p, asked, now) \in
          {[pl |-> p, granted |-> 0], [pl |-> h, granted |-> 0], Told(Passes(p, waiting), now)}
    BY DEF AdmitChecked
  <2> HIDE DEF waiting, loose
  <2>2. Shaped(h)
    BY <1>1, HoldForShaped
  <2> HIDE DEF h
  <2>3. Shaped(Told(Passes(p, waiting), now).pl)
    BY <1>1, PassesShaped, ToldShaped
  <2> QED
    BY <1>1, <2>1, <2>2, <2>3
<1> DEFINE asked == {v \in Vehicle : Waits(pl.body[v])}
<1>2. Admit(pl, now) = AdmitChecked(RefuseOverlaps(Checked(pl, asked, now)), asked, now)
  BY DEF Admit
<1> HIDE DEF asked
<1>3. Shaped(RefuseOverlaps(Checked(pl, asked, now)))
  BY CheckedShaped, RefuseOverlapsShaped
<1> QED
  BY <1>1, <1>2, <1>3

-----------------------------------------------------------------------------
(* Candidates and moves aside.                                               *)

LEMMA LeastIn ==
  ASSUME NEW S, S \subseteq Nat, S # {}
  PROVE  Least(S) \in S /\ \A k \in S : Least(S) <= k
BY LeastNumber DEF Least

LEMMA PathIs ==
  ASSUME NEW p \in Path
  PROVE  /\ p \in Seq(Cell) /\ Len(p) \in Nat \ {0} /\ DOMAIN p = 1..Len(p)
         /\ \A i \in 1..Len(p) : p[i] \in Cell
         /\ \A i, j \in 1..Len(p) : p[i] = p[j] => i = j
<1>1. Cardinality(Cell) \in Nat
  BY CellAssumption, FS_CardinalityType
<1>2. PICK n \in 1..Cardinality(Cell) :
        p \in [1..n -> Cell] /\ \A i, j \in 1..n : p[i] = p[j] => i = j
  BY DEF Path
<1>3. n \in Nat \ {0}
  BY <1>1
<1>4. p \in Seq(Cell) /\ Len(p) = n
  BY <1>2, <1>3
<1> QED
  BY <1>2, <1>3, <1>4

LEMMA ShortestIn ==
  ASSUME NEW paths, paths \subseteq Path, paths # {}
  PROVE  Shortest(paths) \in paths
<1> DEFINE S == {Len(p) : p \in paths}
<1>1. S \subseteq Nat /\ S # {}
  BY PathIs
<1>2. PICK m \in S : \A k \in S : m <= k
  BY <1>1, LeastNumber
<1>3. \E p \in paths : \A q \in paths : Len(p) <= Len(q)
  BY <1>2
<1> QED
  BY <1>3 DEF Shortest

\* The path p as a route that was found, and how far it may be granted.
Planned(pl, v, p, final, c) ==
  LET viol == FirstViolation(pl, v, p, 1)
  IN  /\ c.route = [path |-> p, final |-> final] /\ ~viol.hard
      /\ \/ viol.at = 0 /\ c.lim = Unlimited
         \/ viol.at # 0 /\ viol.at - 1 >= MinPrefix /\ c.lim = viol.at - 1

LEMMA PlanRouteIs ==
  ASSUME NEW pl, NEW v, NEW goal, NEW final
  PROVE  LET c == PlanRoute(pl, v, goal, final) IN
         c.ok => \E p \in Found(pl.world, pl.body[v].pose, goal) : Planned(pl, v, p, final, c)
<1> DEFINE F == Found(pl.world, pl.body[v].pose, goal)
           V == [p \in F |-> FirstViolation(pl, v, p, 1)]
           ok == {p \in F : ~V[p].hard /\ (V[p].at = 0 \/ V[p].at - 1 >= MinPrefix)}
           best == Shortest(ok)
           c == PlanRoute(pl, v, goal, final)
<1>1. F \subseteq Path
  BY DEF Found
<1>2. ok # {} => best \in ok
  <2>1. ok \subseteq Path
    BY <1>1
  <2> HIDE DEF ok
  <2> QED
    BY <2>1, ShortestIn
<1>3. c = Candidate(V, final) /\ DOMAIN V = F
  BY DEF PlanRoute
<1> HIDE DEF V, F
<1>4. c.ok => /\ ok # {}
              /\ c.route = [path |-> best, final |-> final]
              /\ c.lim = IF V[best].at = 0 THEN Unlimited ELSE V[best].at - 1
  <2> HIDE DEF c
  <2> QED
    BY <1>3 DEF Candidate
<1>5. \A p \in F : V[p] = FirstViolation(pl, v, p, 1)
  BY DEF V, F
<1> HIDE DEF best, c
<1>6. ASSUME c.ok PROVE \E p \in F : Planned(pl, v, p, final, c)
  <2>1. best \in ok
    BY <1>2, <1>4, <1>6
  <2>2. best \in F /\ ~V[best].hard /\ (V[best].at = 0 \/ V[best].at - 1 >= MinPrefix)
    BY <2>1
  <2> QED
    BY <1>4, <1>5, <1>6, <2>2 DEF Planned
<1> QED
  BY <1>6 DEF F, c

Better(m, n) ==
  \/ m.score > n.score
  \/ m.score = n.score /\ Len(m.cand.route.path) <= Len(n.cand.route.path)

LEMMA MoveIs ==
  ASSUME NEW pl, NEW m \in ParkingMoves(pl)
  PROVE  /\ m.vehicle \in Vehicle /\ Plannable(pl.body[m.vehicle])
         /\ \E c \in Cell : m.cand = PlanRoute(pl, m.vehicle, c, FALSE)
         /\ m.cand.ok /\ m.cand.route.path \in Path
         /\ m.score \in 0..Cardinality(Vehicle) /\ IsFiniteSet(Vehicle)
<1>1. m \in Moves(pl) /\ m.cand.ok
  BY DEF ParkingMoves
<1>2. PICK v \in Vehicle, c \in Cell : Plannable(pl.body[v]) /\ m = Move(pl, v, c)
  BY <1>1 DEF Moves, Asides
<1>3. m.vehicle = v /\ m.cand = PlanRoute(pl, v, c, FALSE) /\ m.score = Score(pl, v, c)
  BY <1>2 DEF Move
<1>4. IsFiniteSet(Vehicle)
  <2>1. IsFiniteSet(1..Len(Fleet)) /\ DOMAIN Fleet = 1..Len(Fleet)
    BY FleetAssumption, FS_Interval
  <2>2. Fleet \in Surjection(1..Len(Fleet), Vehicle)
    BY <2>1, FleetAssumption DEF Vehicle, Surjection
  <2> QED
    BY <2>1, <2>2, FS_Surjection
<1>5. Score(pl, v, c) \in 0..Cardinality(Vehicle)
  <2> DEFINE S == {o \in Others(pl, v) :
                 /\ Participates(pl.body[o]) /\ ~pl.body[o].rejected
                 /\ PlanRoute([pl EXCEPT !.body[v].pose = c], o, pl.body[o].target, TRUE).ok}
  <2>1. S \subseteq Vehicle
    BY DEF Others
  <2>2. Score(pl, v, c) = Cardinality(S)
    BY DEF Score
  <2> HIDE DEF S
  <2>3. IsFiniteSet(S) /\ Cardinality(S) <= Cardinality(Vehicle)
    BY <1>4, <2>1, FS_Subset
  <2> QED
    BY <1>4, <2>2, <2>3, FS_CardinalityType
<1>6. m.cand.route.path \in Path
  <2> DEFINE k == PlanRoute(pl, v, c, FALSE)
  <2>1. k.ok => \E p \in Found(pl.world, pl.body[v].pose, c) : Planned(pl, v, p, FALSE, k)
    BY PlanRouteIs
  <2>2. k.ok /\ m.cand = k
    BY <1>1, <1>3
  <2> HIDE DEF k
  <2>3. PICK p \in Found(pl.world, pl.body[v].pose, c) : k.route = [path |-> p, final |-> FALSE]
    BY <2>1, <2>2 DEF Planned
  <2>4. p \in Path
    BY DEF Found
  <2> QED
    BY <2>2, <2>3, <2>4
<1> QED
  BY <1>1, <1>2, <1>3, <1>4, <1>5, <1>6

LEMMA BestMove ==
  ASSUME NEW pl, ParkingMoves(pl) # {}
  PROVE  (CHOOSE m \in ParkingMoves(pl) : \A n \in ParkingMoves(pl) : Better(m, n))
           \in ParkingMoves(pl)
<1> DEFINE M == ParkingMoves(pl)
           k == Cardinality(Vehicle)
           S == {k - m.score : m \in M}
<1>1. k \in Nat /\ \A m \in M : m.score \in 0..k /\ Len(m.cand.route.path) \in Nat
  BY MoveIs, FS_CardinalityType, PathIs
<1> HIDE DEF M, k
<1>2. S \subseteq Nat /\ S # {}
  BY <1>1 DEF M
<1>3. PICK s \in S : \A t \in S : s <= t
  BY <1>2, LeastNumber
<1> DEFINE T == {m \in M : k - m.score = s}
           L == {Len(m.cand.route.path) : m \in T}
<1>4. L \subseteq Nat /\ L # {}
  BY <1>1, <1>3
<1>5. PICK l \in L : \A t \in L : l <= t
  BY <1>4, LeastNumber
<1>6. PICK m \in T : Len(m.cand.route.path) = l
  BY <1>5
<1>7. ASSUME NEW n \in M PROVE Better(m, n)
  <2>1. k - m.score <= k - n.score
    BY <1>3, <1>6
  <2>2. CASE n.score = m.score
    <3>1. n \in T
      BY <1>6, <2>2
    <3> QED
      BY <1>5, <1>6, <2>2, <3>1 DEF Better
  <2>3. CASE n.score # m.score
    BY <1>1, <1>6, <2>1, <2>3 DEF Better
  <2> QED
    BY <2>2, <2>3
<1>8. m \in M
  BY <1>6
<1> HIDE DEF T, L, S
<1> QED
  BY <1>7, <1>8 DEF M

\* One that is stuck is refused.
Blame(pl, v, stuck) ==
  EmitReject(pl, v, "Deadlock", pl.body[v].blockers \cup (stuck \ {v}))

LEMMA BlameShaped ==
  ASSUME NEW pl, Shaped(pl), NEW v \in Vehicle, NEW stuck
  PROVE  Shaped(Blame(pl, v, stuck))
<1> DEFINE who == pl.body[v].blockers \cup (stuck \ {v})
<1>1. Blame(pl, v, stuck) = EmitReject(pl, v, "Deadlock", who)
  BY DEF Blame
<1> HIDE DEF who
<1> QED
  BY <1>1, HoldShaped

LEMMA DeadlockSteps ==
  ASSUME NEW pl, NEW stuck, stuck = Stuck(pl)
  PROVE  \E r : /\ r[0] = pl /\ Deadlock(pl) = r[Len(Fleet)]
               /\ \A i \in 1..Len(Fleet) :
                    r[i] = IF Fleet[i] \in stuck THEN Blame(r[i - 1], Fleet[i], stuck) ELSE r[i - 1]
<1> DEFINE n == Len(Fleet)
           B == pl
           F(p, i) == IF Fleet[i] \in stuck THEN Blame(p, Fleet[i], stuck) ELSE p
           G(r, i) == IF i = 0 THEN B ELSE F(r[i - 1], i)
           A == {k \in 0..n : \E f : f = [i \in 0..k |-> G(f, i)]}
           r == CHOOSE f : f = [i \in 0..n |-> G(f, i)]
<1>1. n \in Nat
  BY FleetAssumption
<1>2. Deadlock(pl) = r[n]
  BY DEF Deadlock, InOrder, Blame
<1> HIDE DEF F, B, n
<1>3. 0 \in A
  <2> DEFINE f == [i \in 0..0 |-> B]
  <2>1. f = [i \in 0..0 |-> G(f, i)]
    OBVIOUS
  <2> HIDE DEF f, G
  <2> QED
    BY <1>1, <2>1
<1>4. ASSUME NEW k \in 0..(n - 1), k \in A PROVE k + 1 \in A
  <2>1. PICK f : f = [i \in 0..k |-> G(f, i)]
    BY <1>4
  <2> DEFINE g == [i \in 0..(k + 1) |-> IF i <= k THEN f[i] ELSE G(f, i)]
  <2>2. \A i \in 0..k : g[i] = f[i] /\ f[i] = G(f, i)
    BY <1>1, <2>1
  <2>3. \A i \in 0..(k + 1) : g[i] = G(g, i)
    <3>1. g[k + 1] = G(f, k + 1) /\ g[k] = f[k]
      BY <1>1
    <3> HIDE DEF g
    <3> QED
      BY <1>1, <2>2, <3>1
  <2>4. g = [i \in 0..(k + 1) |-> g[i]]
    OBVIOUS
  <2> HIDE DEF g, G
  <2>5. g = [i \in 0..(k + 1) |-> G(g, i)]
    BY <2>3, <2>4
  <2> QED
    BY <1>1, <2>5
<1>5. n \in A
  <2> HIDE DEF A
  <2> QED
    BY <1>1, <1>3, <1>4, InductUpTo
<1>6. r = [i \in 0..n |-> G(r, i)]
  <2> HIDE DEF G
  <2> QED
    BY <1>5
<1> HIDE DEF r
<1>7. r[0] = B /\ \A i \in 1..n : r[i] = F(r[i - 1], i)
  BY <1>1, <1>6
<1> QED
  BY <1>2, <1>7 DEF B, F, n

LEMMA UnblockShaped ==
  ASSUME NEW pl, Shaped(pl)
  PROVE  Shaped(Unblock(pl))
<1>1. ASSUME NEW p, Shaped(p) PROVE Shaped(GiveUp(p))
  <2>0. PICK stuck : stuck = Stuck(p)
    OBVIOUS
  <2>1. PICK r : /\ r[0] = p /\ Deadlock(p) = r[Len(Fleet)]
                 /\ \A i \in 1..Len(Fleet) :
                      r[i] = IF Fleet[i] \in stuck
                             THEN Blame(r[i - 1], Fleet[i], stuck) ELSE r[i - 1]
    BY <2>0, DeadlockSteps
  <2>2. ASSUME NEW i \in 1..Len(Fleet), Shaped(r[i - 1]) PROVE Shaped(r[i])
    BY <2>1, <2>2, BlameShaped, FleetMember
  <2>3. Shaped(Deadlock(p))
    BY <1>1, <2>1, <2>2, ShapedAlong
  <2> QED
    BY <1>1, <2>3 DEF GiveUp
<1>2. Shaped(Park(pl, ParkingMoves(pl)))
  <2> DEFINE moves == ParkingMoves(pl)
             best == CHOOSE m \in moves : \A n \in moves : Better(m, n)
             q == InstallPlan(pl, best.vehicle, best.cand)
  <2>1. Park(pl, moves) = IF moves = {} THEN GiveUp(pl) ELSE Parked(q, best.vehicle)
    BY DEF Park, Better
  <2>2. moves # {} => best \in moves
    BY BestMove
  <2>3. moves # {} => best.vehicle \in Vehicle
    BY <2>2, MoveIs
  <2> HIDE DEF best, moves
  <2>4. moves # {} => Shaped(q)
    BY <2>3, InstallShaped
  <2> HIDE DEF q
  <2>5. Parked(q, best.vehicle) \in {q, GiveUp(q)}
    BY DEF Parked
  <2> QED
    BY <1>1, <2>1, <2>4, <2>5 DEF moves
<1> QED
  BY <1>2 DEF Unblock

-----------------------------------------------------------------------------
(* One update.                                                               *)

LEMMA MoversShaped ==
  ASSUME NEW pl, Shaped(pl), NEW now
  PROVE  Shaped(UpdateMovers(pl, now))
<1> DEFINE a == Advanced(pl)
           e == Verified(a)
           w == RefuseWaiting(e)
           late == now.stall /\ ~Progressed(pl)
<1>1. Shaped(a)
  BY AdvancedShaped
<1> HIDE DEF a
<1>2. Shaped(e)
  BY <1>1, VerifiedShaped
<1> HIDE DEF e
<1>3. Shaped(w)
  BY <1>2, RefuseWaitingShaped
<1> HIDE DEF w
<1>4. Shaped([w EXCEPT !.dirty = TRUE])
  BY <1>3, FlagsShaped
<1>5. Stall(e, late) \in {[w EXCEPT !.dirty = TRUE], e}
  BY DEF Stall, w
<1>6. UpdateMovers(pl, now) \in {Stall(e, late), a}
  BY DEF UpdateMovers, e, a
<1> QED
  BY <1>1, <1>2, <1>4, <1>5, <1>6

\* Who waits has been looked at.
Looked(pl) == [pl EXCEPT !.dirty = FALSE]

LEMMA ReplanShaped ==
  ASSUME NEW pl, Shaped(pl), NEW admit, NEW now
  PROVE  Shaped(Replan(pl, admit, now))
<1> DEFINE s == Looked(pl)
           a == Admit(s, now)
<1>1. Shaped(s)
  BY FlagsShaped DEF Looked
<1>2. Replan(pl, admit, now) \in {pl, s, Unblocked(a)}
  BY DEF Replan, Looked
<1> HIDE DEF s
<1>3. Shaped(a.pl)
  BY <1>1, AdmitShaped
<1> HIDE DEF a
<1>4. Unblocked(a) \in {Unblock(a.pl), a.pl}
  BY DEF Unblocked
<1>5. Shaped(Unblock(a.pl))
  BY <1>3, UnblockShaped
<1> QED
  BY <1>1, <1>2, <1>3, <1>4, <1>5

LEMMA UpdateShaped ==
  ASSUME NEW pl, Shaped(pl), NEW facts, NEW admit, NEW now
  PROVE  /\ Shaped(Carried(Synced(pl, facts), admit, now))
         /\ Shaped(Update(pl, facts, admit, now))
<1> DEFINE y == Synced(pl, facts)
           u == Suspend(y)
           z == IF admit THEN y ELSE u
           c == Carried(y, admit, now)
<1>1. Shaped(y)
  BY SyncedShaped
<1> HIDE DEF y
<1>2. Shaped(u)
  BY <1>1, SuspendShaped
<1> HIDE DEF u
<1>3. Shaped(z)
  BY <1>1, <1>2
<1>4. c = UpdateMovers(z, now)
  BY DEF Carried, Permitted, u
<1> HIDE DEF z
<1>5. Shaped(c)
  BY <1>3, <1>4, MoversShaped
<1>6. Update(pl, facts, admit, now) = Replan(c, admit, now)
  BY DEF Update, PlannerStep, c, y
<1> HIDE DEF c
<1>7. Shaped(Update(pl, facts, admit, now))
  BY <1>5, <1>6, ReplanShaped
<1> QED
  BY <1>5, <1>7 DEF c, y

LEMMA NewShaped == Shaped(NewPlanner)
<1>1. Listed(<<>>)
  BY DEF Listed
<1> QED
  BY <1>1 DEF Shaped, NewPlanner, NewBody, BodyFields, PlannerFields

LEMMA NobodyWaits ==
  ASSUME NEW pl, Shaped(pl), NEW facts, NEW admit, NEW now,
         admit, now.periodic, ~Looks(pl, facts, admit, now)
  PROVE  \A v \in Vehicle : ~Waits(Update(pl, facts, admit, now).body[v])
<1> DEFINE c == Carried(Synced(pl, facts), admit, now)
<1>1. Shaped(c)
  BY UpdateShaped
<1>2. \A v \in Vehicle : ~Waits(c.body[v])
  BY DEF Looks, c
<1>3. Update(pl, facts, admit, now) = Replan(c, admit, now)
  BY DEF Update, PlannerStep
<1> HIDE DEF c
<1>4. Replan(c, admit, now) = [c EXCEPT !.dirty = FALSE]
  BY <1>2 DEF Replan
<1>5. Replan(c, admit, now).body = c.body
  BY <1>1, <1>4 DEF Shaped, PlannerFields
<1> QED
  BY <1>2, <1>3, <1>5

-----------------------------------------------------------------------------
(* What the station says, and what it leaves as it is.                       *)

StationFields == {"entry", "pl", "scene", "sent"}
EntryFields   == {"heard", "s", "bad", "body", "moving", "last"}

StationShaped(st) ==
  /\ DOMAIN st = StationFields /\ Shaped(st.pl)
  /\ DOMAIN st.entry = Vehicle /\ DOMAIN st.sent = Vehicle
  /\ \A v \in Vehicle : DOMAIN st.entry[v] = EntryFields /\ Listed(st.sent[v])

\* A planner whose vehicles may have had some more numbers, and no more.
Numbered(p, q) ==
  /\ q.changed = p.changed /\ q.world = p.world
  /\ \A v \in Vehicle : \A f \in BodyFields \ {"next"} : q.body[v][f] = p.body[v][f]

\* What is known of the vehicles is as it was, and whoever was not told anything was last told
\* what it was.
Spoken(st, t) ==
  /\ StationShaped(t) /\ t.scene = st.scene /\ Numbered(st.pl, t.pl)
  /\ \A v \in Vehicle :
       /\ \A f \in EntryFields \ {"last"} : t.entry[v][f] = st.entry[v][f]
       /\ t.sent[v] = <<>> => st.sent[v] = <<>> /\ t.entry[v].last = st.entry[v].last

LEMMA SpokenItself ==
  ASSUME NEW st, StationShaped(st)
  PROVE  Spoken(st, st)
BY DEF Spoken, Numbered

LEMMA SpokenAgain ==
  ASSUME NEW st, NEW t, NEW u, Spoken(st, t), Spoken(t, u)
  PROVE  Spoken(st, u)
BY DEF Spoken, Numbered

LEMMA SendSpoken ==
  ASSUME NEW st, StationShaped(st), NEW v, NEW d
  PROVE  /\ Spoken(st, Send(st, v, d))
         /\ v \in Vehicle => Send(st, v, d).sent[v] # <<>>
<1> DEFINE t == Send(st, v, d)
           q == Append(st.sent[v], d)
<1>1. v \in Vehicle => Listed(q) /\ q # <<>>
  <2> HAVE v \in Vehicle
  <2>1. Listed(st.sent[v])
    BY DEF StationShaped
  <2>2. Listed(q) /\ Len(q) = Len(st.sent[v]) + 1 /\ Len(st.sent[v]) \in Nat
    BY <2>1, AppendListed
  <2> HIDE DEF q
  <2>3. q # <<>>
    BY <2>2
  <2> QED
    BY <2>2, <2>3
<1>2. /\ DOMAIN t = StationFields /\ t.pl = st.pl /\ t.scene = st.scene
      /\ DOMAIN t.entry = Vehicle /\ DOMAIN t.sent = Vehicle
      /\ \A w \in Vehicle :
           /\ DOMAIN t.entry[w] = EntryFields
           /\ \A f \in EntryFields \ {"last"} : t.entry[w][f] = st.entry[w][f]
           /\ w # v => t.entry[w] = st.entry[w]
           /\ t.sent[w] = IF w = v THEN q ELSE st.sent[w]
  BY DEF StationShaped, Send, StationFields, EntryFields
<1> HIDE DEF t, q
<1> QED
  BY <1>1, <1>2 DEF Spoken, StationShaped, Numbered, t

LEMMA OwnSpoken ==
  ASSUME NEW st, StationShaped(st), NEW v \in Vehicle, NEW state, NEW reason
  PROVE  Spoken(st, Own(st, v, state, reason)) /\ Own(st, v, state, reason).sent[v] # <<>>
<1> DEFINE s == [st EXCEPT !.pl.body[v].next = @ + 1]
           d == [NoDecisionYet EXCEPT !.st = state, !.session = st.entry[v].s.session,
                             !.gen = st.entry[v].s.gen, !.id = st.pl.body[v].next,
                             !.reason = reason]
           b == [st.pl.body[v] EXCEPT !.next = @ + 1]
           p == [st.pl EXCEPT !.body[v] = b]
<1>1. Own(st, v, state, reason) = Send(s, v, d)
  BY DEF Own
<1> HIDE DEF d
<1>2. /\ DOMAIN b = BodyFields /\ b.next \in Nat
      /\ \A f \in BodyFields \ {"next"} : b[f] = st.pl.body[v][f]
  BY DEF StationShaped, Shaped, BodyFields
<1>3. s = [st EXCEPT !.pl = p]
  BY DEF StationShaped, Shaped, StationFields, PlannerFields
<1> HIDE DEF s, b
<1>4. Shaped(p) /\ Numbered(st.pl, p)
  BY <1>2 DEF StationShaped, Shaped, Numbered, PlannerFields
<1> HIDE DEF p
<1>5. StationShaped(s) /\ Spoken(st, s)
  BY <1>3, <1>4 DEF StationShaped, StationFields, Spoken
<1> QED
  BY <1>1, <1>5, SendSpoken, SpokenAgain

LEMMA PassSpoken ==
  ASSUME NEW st, StationShaped(st), NEW d
  PROVE  Spoken(st, Pass(st, d))
<1> DEFINE b == Bare(d)
<1>1. Pass(st, d) \in {Send(st, d.vehicle, b), st}
  BY DEF Pass
<1> HIDE DEF b
<1> QED
  BY <1>1, SendSpoken, SpokenItself

LEMMA PassedSteps ==
  ASSUME NEW st, NEW ds, Listed(ds)
  PROVE  \E r : /\ r[0] = st /\ Passed(st, ds) = r[Len(ds)]
                /\ \A i \in 1..Len(ds) : r[i] = Pass(r[i - 1], ds[i])
<1> DEFINE n == Len(ds)
           F(p, i) == Pass(p, ds[i])
           G(r, i) == IF i = 0 THEN st ELSE F(r[i - 1], i)
           A == {k \in 0..n : \E f : f = [i \in 0..k |-> G(f, i)]}
           r == CHOOSE f : f = [i \in 0..n |-> G(f, i)]
<1>1. n \in Nat
  BY DEF Listed
<1>2. Passed(st, ds) = r[n]
  BY DEF Passed
<1> HIDE DEF F, n
<1>3. 0 \in A
  <2> DEFINE f == [i \in 0..0 |-> st]
  <2>1. f = [i \in 0..0 |-> G(f, i)]
    OBVIOUS
  <2> HIDE DEF f, G
  <2> QED
    BY <1>1, <2>1
<1>4. ASSUME NEW k \in 0..(n - 1), k \in A PROVE k + 1 \in A
  <2>1. PICK f : f = [i \in 0..k |-> G(f, i)]
    BY <1>4
  <2> DEFINE g == [i \in 0..(k + 1) |-> IF i <= k THEN f[i] ELSE G(f, i)]
  <2>2. \A i \in 0..k : g[i] = f[i] /\ f[i] = G(f, i)
    BY <1>1, <2>1
  <2>3. \A i \in 0..(k + 1) : g[i] = G(g, i)
    <3>1. g[k + 1] = G(f, k + 1) /\ g[k] = f[k]
      BY <1>1
    <3> HIDE DEF g
    <3> QED
      BY <1>1, <2>2, <3>1
  <2>4. g = [i \in 0..(k + 1) |-> g[i]]
    OBVIOUS
  <2> HIDE DEF g, G
  <2>5. g = [i \in 0..(k + 1) |-> G(g, i)]
    BY <2>3, <2>4
  <2> QED
    BY <1>1, <2>5
<1>5. n \in A
  <2> HIDE DEF A
  <2> QED
    BY <1>1, <1>3, <1>4, InductUpTo
<1>6. r = [i \in 0..n |-> G(r, i)]
  <2> HIDE DEF G
  <2> QED
    BY <1>5
<1> HIDE DEF r
<1>7. r[0] = st /\ \A i \in 1..n : r[i] = F(r[i - 1], i)
  BY <1>1, <1>6
<1> QED
  BY <1>2, <1>7 DEF F, n

LEMMA PassedSpoken ==
  ASSUME NEW st, StationShaped(st), NEW ds, Listed(ds)
  PROVE  Spoken(st, Passed(st, ds))
<1> DEFINE n == Len(ds)
<1>1. PICK r : /\ r[0] = st /\ Passed(st, ds) = r[n]
               /\ \A i \in 1..n : r[i] = Pass(r[i - 1], ds[i])
  BY PassedSteps
<1> DEFINE S == {k \in 0..n : Spoken(st, r[k])}
<1>2. n \in Nat
  BY DEF Listed
<1> HIDE DEF n
<1>3. 0 \in S
  BY <1>1, <1>2, SpokenItself
<1>4. ASSUME NEW k \in 0..(n - 1), k \in S PROVE k + 1 \in S
  <2>1. k + 1 \in 1..n /\ (k + 1) - 1 = k /\ k + 1 \in 0..n
    BY <1>2
  <2>2. r[k + 1] = Pass(r[k], ds[k + 1])
    BY <1>1, <2>1
  <2>3. Spoken(st, r[k]) /\ StationShaped(r[k])
    BY <1>4 DEF Spoken
  <2>4. Spoken(r[k], r[k + 1])
    BY <2>2, <2>3, PassSpoken
  <2> QED
    BY <2>1, <2>3, <2>4, SpokenAgain
<1>5. n \in S
  <2> HIDE DEF S
  <2>1. \A k \in 0..n : k \in S
    BY <1>2, <1>3, <1>4, InductUpTo
  <2> QED
    BY <1>2, <2>1
<1> QED
  BY <1>1, <1>5

LEMMA LocalHoldSpoken ==
  ASSUME NEW st, StationShaped(st), NEW v \in Vehicle, NEW lost
  PROVE  Spoken(st, LocalHold(st, v, lost))
<1> DEFINE why == IF st.scene THEN "WaitingForPeer" ELSE "SceneUnavailable"
<1>1. LocalHold(st, v, lost) \in {Own(st, v, "Hold", why), st}
  BY DEF LocalHold
<1> HIDE DEF why
<1> QED
  BY <1>1, OwnSpoken, SpokenItself

\* Its last decision is due again, and nothing has been said to it.
Owed(st, v, lost, now) ==
  LET e == st.entry[v]
  IN  /\ v \notin lost /\ e.s.gen # 0 /\ e.last.st # "None" /\ v \in now.refresh
      /\ \/ e.bad \/ Outside(v) \/ TakesPart(st, v, lost)
         \/ e.last.st = "Brake" \/ (e.last.st = "Hold" /\ e.s.ack # e.last.id)

LEMMA RepeatSpoken ==
  ASSUME NEW st, StationShaped(st), NEW v \in Vehicle, NEW lost, NEW now
  PROVE  /\ Spoken(st, Repeat(st, v, lost, now))
         /\ Owed(st, v, lost, now) => Repeat(st, v, lost, now).sent[v] # <<>>
<1> DEFINE d == st.entry[v].last
           o == Own(st, v, "Reject", "BadSession")
           s == Send(st, v, d)
           t == Repeat(st, v, lost, now)
<1>1. t \in {st, o, s}
  BY DEF Repeat
<1>2. ASSUME Owed(st, v, lost, now), st.sent[v] = <<>> PROVE t \in {o, s}
  <2>1. CASE st.entry[v].bad \/ Outside(v)
    BY <1>2, <2>1 DEF Repeat, Owed
  <2>2. CASE ~(st.entry[v].bad \/ Outside(v))
    BY <1>2, <2>2 DEF Repeat, Owed
  <2> QED
    BY <2>1, <2>2
<1>3. Spoken(st, o) /\ o.sent[v] # <<>>
  BY OwnSpoken
<1> HIDE DEF o, d
<1>4. Spoken(st, s) /\ s.sent[v] # <<>>
  BY SendSpoken
<1> HIDE DEF s
<1>5. Spoken(st, t)
  BY <1>1, <1>3, <1>4, SpokenItself
<1>6. ASSUME Owed(st, v, lost, now) PROVE t.sent[v] # <<>>
  <2>1. CASE st.sent[v] = <<>>
    BY <1>2, <1>3, <1>4, <1>6, <2>1
  <2>2. CASE st.sent[v] # <<>>
    BY <1>5, <2>2 DEF Spoken
  <2> QED
    BY <2>1, <2>2
<1> QED
  BY <1>5, <1>6

LEMMA HeldSteps ==
  ASSUME NEW st, NEW admit, NEW lost
  PROVE  \E r : /\ r[0] = st /\ Held(st, admit, lost) = r[Len(Fleet)]
               /\ \A i \in 1..Len(Fleet) :
                    r[i] = IF Fleet[i] \in (IF admit THEN {} ELSE Vehicle) THEN LocalHold(r[i - 1], Fleet[i], lost) ELSE r[i - 1]
<1> DEFINE n == Len(Fleet)
           B == st
           F(p, i) == IF Fleet[i] \in (IF admit THEN {} ELSE Vehicle) THEN LocalHold(p, Fleet[i], lost) ELSE p
           G(r, i) == IF i = 0 THEN B ELSE F(r[i - 1], i)
           A == {k \in 0..n : \E f : f = [i \in 0..k |-> G(f, i)]}
           r == CHOOSE f : f = [i \in 0..n |-> G(f, i)]
<1>1. n \in Nat
  BY FleetAssumption
<1>2. Held(st, admit, lost) = r[n]
  BY DEF Held, InOrder
<1> HIDE DEF F, B, n
<1>3. 0 \in A
  <2> DEFINE f == [i \in 0..0 |-> B]
  <2>1. f = [i \in 0..0 |-> G(f, i)]
    OBVIOUS
  <2> HIDE DEF f, G
  <2> QED
    BY <1>1, <2>1
<1>4. ASSUME NEW k \in 0..(n - 1), k \in A PROVE k + 1 \in A
  <2>1. PICK f : f = [i \in 0..k |-> G(f, i)]
    BY <1>4
  <2> DEFINE g == [i \in 0..(k + 1) |-> IF i <= k THEN f[i] ELSE G(f, i)]
  <2>2. \A i \in 0..k : g[i] = f[i] /\ f[i] = G(f, i)
    BY <1>1, <2>1
  <2>3. \A i \in 0..(k + 1) : g[i] = G(g, i)
    <3>1. g[k + 1] = G(f, k + 1) /\ g[k] = f[k]
      BY <1>1
    <3> HIDE DEF g
    <3> QED
      BY <1>1, <2>2, <3>1
  <2>4. g = [i \in 0..(k + 1) |-> g[i]]
    OBVIOUS
  <2> HIDE DEF g, G
  <2>5. g = [i \in 0..(k + 1) |-> G(g, i)]
    BY <2>3, <2>4
  <2> QED
    BY <1>1, <2>5
<1>5. n \in A
  <2> HIDE DEF A
  <2> QED
    BY <1>1, <1>3, <1>4, InductUpTo
<1>6. r = [i \in 0..n |-> G(r, i)]
  <2> HIDE DEF G
  <2> QED
    BY <1>5
<1> HIDE DEF r
<1>7. r[0] = B /\ \A i \in 1..n : r[i] = F(r[i - 1], i)
  BY <1>1, <1>6
<1> QED
  BY <1>2, <1>7 DEF B, F, n

LEMMA RepeatedSteps ==
  ASSUME NEW st, NEW lost, NEW now
  PROVE  \E r : /\ r[0] = st /\ Repeated(st, lost, now) = r[Len(Fleet)]
               /\ \A i \in 1..Len(Fleet) :
                    r[i] = IF Fleet[i] \in {w \in Vehicle : st.entry[w].heard}
                           THEN Repeat(r[i - 1], Fleet[i], lost, now) ELSE r[i - 1]
<1> DEFINE n == Len(Fleet)
           B == st
           F(p, i) == IF Fleet[i] \in {w \in Vehicle : st.entry[w].heard}
                      THEN Repeat(p, Fleet[i], lost, now) ELSE p
           G(r, i) == IF i = 0 THEN B ELSE F(r[i - 1], i)
           A == {k \in 0..n : \E f : f = [i \in 0..k |-> G(f, i)]}
           r == CHOOSE f : f = [i \in 0..n |-> G(f, i)]
<1>1. n \in Nat
  BY FleetAssumption
<1>2. Repeated(st, lost, now) = r[n]
  BY DEF Repeated, InOrder
<1> HIDE DEF F, B, n
<1>3. 0 \in A
  <2> DEFINE f == [i \in 0..0 |-> B]
  <2>1. f = [i \in 0..0 |-> G(f, i)]
    OBVIOUS
  <2> HIDE DEF f, G
  <2> QED
    BY <1>1, <2>1
<1>4. ASSUME NEW k \in 0..(n - 1), k \in A PROVE k + 1 \in A
  <2>1. PICK f : f = [i \in 0..k |-> G(f, i)]
    BY <1>4
  <2> DEFINE g == [i \in 0..(k + 1) |-> IF i <= k THEN f[i] ELSE G(f, i)]
  <2>2. \A i \in 0..k : g[i] = f[i] /\ f[i] = G(f, i)
    BY <1>1, <2>1
  <2>3. \A i \in 0..(k + 1) : g[i] = G(g, i)
    <3>1. g[k + 1] = G(f, k + 1) /\ g[k] = f[k]
      BY <1>1
    <3> HIDE DEF g
    <3> QED
      BY <1>1, <2>2, <3>1
  <2>4. g = [i \in 0..(k + 1) |-> g[i]]
    OBVIOUS
  <2> HIDE DEF g, G
  <2>5. g = [i \in 0..(k + 1) |-> G(g, i)]
    BY <2>3, <2>4
  <2> QED
    BY <1>1, <2>5
<1>5. n \in A
  <2> HIDE DEF A
  <2> QED
    BY <1>1, <1>3, <1>4, InductUpTo
<1>6. r = [i \in 0..n |-> G(r, i)]
  <2> HIDE DEF G
  <2> QED
    BY <1>5
<1> HIDE DEF r
<1>7. r[0] = B /\ \A i \in 1..n : r[i] = F(r[i - 1], i)
  BY <1>1, <1>6
<1> QED
  BY <1>2, <1>7 DEF B, F, n

LEMMA HeldSpoken ==
  ASSUME NEW st, StationShaped(st), NEW admit, NEW lost
  PROVE  Spoken(st, Held(st, admit, lost))
<1>1. PICK r : /\ r[0] = st /\ Held(st, admit, lost) = r[Len(Fleet)]
               /\ \A i \in 1..Len(Fleet) :
                    r[i] = IF Fleet[i] \in (IF admit THEN {} ELSE Vehicle)
                           THEN LocalHold(r[i - 1], Fleet[i], lost) ELSE r[i - 1]
  BY HeldSteps
<1> DEFINE S == {k \in 0..Len(Fleet) : Spoken(st, r[k])}
<1>2. 0 \in S
  BY <1>1, SpokenItself, FleetMember
<1>3. ASSUME NEW i \in 1..Len(Fleet), i - 1 \in S PROVE i \in S
  <2>1. Spoken(st, r[i - 1]) /\ StationShaped(r[i - 1]) /\ Fleet[i] \in Vehicle
    BY <1>3, FleetMember DEF Spoken
  <2>2. r[i] \in {LocalHold(r[i - 1], Fleet[i], lost), r[i - 1]}
    BY <1>1
  <2>3. Spoken(r[i - 1], LocalHold(r[i - 1], Fleet[i], lost))
    BY <2>1, LocalHoldSpoken
  <2>4. Spoken(st, r[i])
    BY <2>1, <2>2, <2>3, SpokenAgain
  <2> QED
    BY <2>4, FleetMember
<1> HIDE DEF S
<1>4. Len(Fleet) \in S
  BY <1>2, <1>3, FleetInduction
<1> QED
  BY <1>1, <1>4 DEF S

\* Whoever is there and is owed something gets it.
LEMMA RepeatedSpoken ==
  ASSUME NEW st, StationShaped(st), NEW lost, NEW now
  PROVE  /\ Spoken(st, Repeated(st, lost, now))
         /\ \A v \in Vehicle :
              st.entry[v].heard /\ Owed(st, v, lost, now) => Repeated(st, lost, now).sent[v] # <<>>
<1> DEFINE H == {w \in Vehicle : st.entry[w].heard}
           n == Len(Fleet)
<1>1. PICK r : /\ r[0] = st /\ Repeated(st, lost, now) = r[n]
               /\ \A i \in 1..n :
                    r[i] = IF Fleet[i] \in H
                           THEN Repeat(r[i - 1], Fleet[i], lost, now) ELSE r[i - 1]
  BY RepeatedSteps
<1> HIDE DEF H
<1> DEFINE P(k) == \A j \in 1..k : LET v == Fleet[j] IN
                     v \in H /\ Owed(st, v, lost, now) => r[k].sent[v] # <<>>
           S == {k \in 0..n : Spoken(st, r[k]) /\ P(k)}
<1>2. n \in Nat /\ \A i \in 1..n : Fleet[i] \in Vehicle
  BY FleetMember
<1> HIDE DEF n
<1>3. 0 \in S
  BY <1>1, <1>2, SpokenItself
<1>4. ASSUME NEW i \in 1..n, i - 1 \in S PROVE i \in S
  <2> DEFINE p == r[i - 1]
             q == r[i]
             v == Fleet[i]
             z == Repeat(p, v, lost, now)
  <2>1. Spoken(st, p) /\ StationShaped(p) /\ v \in Vehicle /\ P(i - 1)
    BY <1>2, <1>4 DEF Spoken
  <2>2. q = IF v \in H THEN z ELSE p
    BY <1>1
  <2>3. Spoken(p, z) /\ (Owed(p, v, lost, now) => z.sent[v] # <<>>)
    BY <2>1, RepeatSpoken
  <2>4. Spoken(p, q)
    BY <2>1, <2>2, <2>3, SpokenItself
  <2>5. Spoken(st, q)
    BY <2>1, <2>4, SpokenAgain
  <2>6. ASSUME v \in H, Owed(st, v, lost, now) PROVE q.sent[v] # <<>>
    <3>1. CASE p.sent[v] # <<>>
      BY <2>1, <2>4, <3>1 DEF Spoken
    <3>2. CASE p.sent[v] = <<>>
      <4>1. /\ p.entry[v].last = st.entry[v].last /\ p.entry[v].s = st.entry[v].s
            /\ p.entry[v].bad = st.entry[v].bad
        BY <2>1, <3>2 DEF Spoken, EntryFields
      <4>2. Owed(p, v, lost, now)
        BY <2>6, <4>1 DEF Owed, TakesPart
      <4> QED
        BY <2>2, <2>3, <2>6, <4>2
    <3> QED
      BY <3>1, <3>2
  <2>7. P(i)
    <3> SUFFICES ASSUME NEW j \in 1..i, Fleet[j] \in H, Owed(st, Fleet[j], lost, now)
                 PROVE  q.sent[Fleet[j]] # <<>>
      OBVIOUS
    <3>1. CASE j = i
      BY <2>6, <3>1
    <3>2. CASE j # i
      <4>1. j \in 1..(i - 1) /\ Fleet[j] \in Vehicle
        BY <1>2, <3>2
      <4>2. p.sent[Fleet[j]] # <<>>
        BY <2>1, <4>1
      <4> QED
        BY <2>4, <4>1, <4>2 DEF Spoken
    <3> QED
      BY <3>1, <3>2
  <2> HIDE DEF P
  <2> QED
    BY <1>2, <2>5, <2>7
<1>5. n \in S
  <2> HIDE DEF S
  <2> QED
    BY <1>3, <1>4, FleetInduction DEF n
<1>6. ASSUME NEW v \in Vehicle, st.entry[v].heard, Owed(st, v, lost, now) PROVE r[n].sent[v] # <<>>
  <2>1. PICK j \in 1..n : v = Fleet[j]
    BY FleetAssumption DEF Vehicle, n
  <2>2. v \in H
    BY <1>6 DEF H
  <2> QED
    BY <1>5, <1>6, <2>1, <2>2
<1> QED
  BY <1>1, <1>5, <1>6

\* The station after a step: the planner has gone on, what is known of the vehicles has not
\* changed, and nobody who is there is owed anything.
LEMMA TurnSpoken ==
  ASSUME NEW st, StationShaped(st), NEW lost, NEW now
  PROVE  LET facts == [v \in Known(st) |-> Facts(st, v, lost)]
             pl    == Update(st.pl, facts, Admits(st), now)
             t     == StationTurn(st, lost, now)
         IN  /\ StationShaped(t) /\ t.scene = st.scene /\ Shaped(pl) /\ Numbered(pl, t.pl)
             /\ \A v \in Vehicle :
                  /\ \A f \in EntryFields \ {"last"} : t.entry[v][f] = st.entry[v][f]
                  /\ t.sent[v] = <<>> => t.entry[v].last = st.entry[v].last
                  /\ t.entry[v].heard /\ Owed(t, v, lost, now) => t.sent[v] # <<>>
<1> DEFINE facts == [v \in Known(st) |-> Facts(st, v, lost)]
           admit == Admits(st)
           pl    == Update(st.pl, facts, admit, now)
           b     == Begun(st, pl)
           p     == Passed(b, pl.out)
           h     == Held(p, admit, lost)
           t     == StationTurn(st, lost, now)
<1>1. t = Repeated(h, lost, now)
  BY DEF StationTurn, Decide
<1>2. Shaped(pl)
  BY UpdateShaped DEF StationShaped
<1> HIDE DEF facts, admit, pl, t
<1>3. /\ StationShaped(b) /\ b.scene = st.scene /\ Numbered(pl, b.pl) /\ b.entry = st.entry
  <2> DEFINE o == [pl EXCEPT !.out = <<>>]
  <2>1. Shaped(o) /\ Numbered(pl, o)
    BY <1>2, FlagsShaped DEF Numbered, Shaped, PlannerFields
  <2>2. b = [st EXCEPT !.pl = o, !.sent = [v \in Vehicle |-> <<>>]] /\ Listed(<<>>)
    BY DEF Begun, Listed
  <2> HIDE DEF o, b
  <2> QED
    BY <2>1, <2>2 DEF StationShaped, StationFields
<1> HIDE DEF b
<1>4. Spoken(b, p) /\ StationShaped(p)
  BY <1>2, <1>3, PassedSpoken DEF Shaped, Spoken
<1> HIDE DEF p
<1>5. Spoken(p, h) /\ StationShaped(h)
  BY <1>4, HeldSpoken DEF Spoken
<1> HIDE DEF h
<1>6. /\ Spoken(h, t)
      /\ \A v \in Vehicle : h.entry[v].heard /\ Owed(h, v, lost, now) => t.sent[v] # <<>>
  BY <1>1, <1>5, RepeatedSpoken
<1>7. Spoken(b, t)
  BY <1>4, <1>5, <1>6, SpokenAgain
<1>8. StationShaped(t) /\ t.scene = st.scene /\ Numbered(pl, t.pl)
  BY <1>3, <1>7 DEF Spoken, Numbered
<1>9. ASSUME NEW v \in Vehicle
      PROVE  /\ \A f \in EntryFields \ {"last"} : t.entry[v][f] = st.entry[v][f]
             /\ t.sent[v] = <<>> => t.entry[v].last = st.entry[v].last
             /\ t.entry[v].heard /\ Owed(t, v, lost, now) => t.sent[v] # <<>>
  <2>1. /\ \A f \in EntryFields \ {"last"} : t.entry[v][f] = st.entry[v][f]
        /\ t.sent[v] = <<>> => t.entry[v].last = st.entry[v].last
    BY <1>3, <1>7 DEF Spoken
  <2>2. ASSUME t.entry[v].heard, Owed(t, v, lost, now), t.sent[v] = <<>> PROVE FALSE
    <3>1. /\ h.entry[v].last = t.entry[v].last /\ h.entry[v].s = t.entry[v].s
          /\ h.entry[v].bad = t.entry[v].bad /\ h.entry[v].heard = t.entry[v].heard
      BY <1>6, <2>2 DEF Spoken, EntryFields
    <3>2. Owed(h, v, lost, now)
      BY <2>2, <3>1 DEF Owed, TakesPart
    <3> QED
      BY <1>6, <2>2, <3>1, <3>2
  <2> QED
    BY <2>1, <2>2
<1> QED
  BY <1>2, <1>8, <1>9 DEF pl, facts, admit, t

LEMMA SessionShaped ==
  ASSUME NEW st, StationShaped(st), NEW v \in Vehicle, NEW s
  PROVE  LET t == OnSession(st, v, s) IN
         /\ StationShaped(t) /\ t.pl = st.pl /\ t.scene = st.scene
         /\ t.entry[v].heard \/ t = st
         /\ \A w \in Vehicle \ {v} : t.entry[w] = st.entry[w]
<1> DEFINE e     == st.entry[v]
           other == e.heard /\ (s.session # e.s.session \/ s.gen # e.s.gen)
           n == [heard |-> TRUE, s |-> s, bad |-> ~s.valid,
                 body |-> IF s.placed /\ s.healthy THEN s.pose ELSE e.body,
                 moving |-> IF s.valid THEN s.moving ELSE e.moving,
                 last |-> IF other THEN NoDecisionYet ELSE e.last]
           t == OnSession(st, v, s)
           u == [st EXCEPT !.entry[v] = n]
<1>1. t \in {st, u}
  BY DEF OnSession
<1>2. DOMAIN n = EntryFields /\ n.heard
  BY DEF EntryFields
<1> HIDE DEF n, t
<1>3. StationShaped(u) /\ u.pl = st.pl /\ u.scene = st.scene /\ u.entry[v].heard
      /\ \A w \in Vehicle \ {v} : u.entry[w] = st.entry[w]
  BY <1>2 DEF StationShaped, StationFields
<1> HIDE DEF u
<1> QED
  BY <1>1, <1>3 DEF t

-----------------------------------------------------------------------------
(* What the station relies on.  x is one vehicle without the planner: its    *)
(* executor e, the cell pos of its body and the cells ahead of it, whether   *)
(* and what of it was heard (heard, the Session s, the place body), the      *)
(* Sessions up that are on their way, and the decisions ds that it was sent. *)

\* The last index of a plan that is reserved, and what is left of it.
Limit(b) == Lesser(b.plan.lim, Len(b.plan.route.path))
Way(b)   == b.plan.cursor..Limit(b)

BodyOK(b) ==
  /\ b.known \in BOOLEAN /\ b.gen \in Nat
  /\ b.next \in Nat /\ b.brake \in Nat /\ b.brake < b.next
  /\ HasPlan(b) =>
       /\ DOMAIN b.plan = PlanFields /\ b.plan.route.path \in Path
       /\ b.plan.lim \in Nat /\ b.plan.gen \in Nat /\ b.plan.gen <= b.gen
       /\ Granted(b) => b.plan.gen = b.gen
       /\ b.plan.cursor \in Nat \ {0} /\ b.plan.cursor <= Limit(b)

\* A vehicle that was in c was or will be in d.
Before(b, c, d) ==
  IF HasPlan(b)
  THEN \E i, j \in Way(b) : i <= j /\ b.plan.route.path[i] = c /\ b.plan.route.path[j] = d
  ELSE c = d

\* What a GO permits is reserved.
Within(b, d) ==
  /\ HasPlan(b) /\ b.plan.gen = d.gen /\ b.plan.route = d.route
  /\ d.lim \in Nat /\ d.lim <= b.plan.lim

Sessions(x) == {x.s} \cup {x.up[i] : i \in DOMAIN x.up}

\* The alternatives of a permission after its stop was certified.
Stood == {"AwaitGo", "Executing", "Complete"}

\* A decision that the vehicle may still follow is within its plan.
DecisionOK(x, b, d) ==
  /\ d.st \in Restraint \cup {"Go", "None"} /\ d.id \in Nat /\ d.id < b.next
  /\ d.st = "Go" => d.gen \in Nat /\ d.gen <= x.e.gen /\ (d.gen = x.e.gen => Within(b, d))

\* Somebody knows that the vehicle has stood still in its present request.
Confirmed(x, b) ==
  \/ b.cert = "Certified" /\ b.gen = x.e.gen
  \/ HasPlan(b) /\ b.plan.gen = x.e.gen
  \/ \E s \in Sessions(x) : s.cert /\ s.gen = x.e.gen

\* What is executed, or will be, is within the plan, and a brake that is awaited was not
\* acknowledged under a permission that is still held.
Obeys(x, b) ==
  LET e == x.e
  IN  /\ e.gen \in Nat /\ e.brake \in Nat /\ e.ack \in Nat
      /\ b.gen <= e.gen /\ e.brake < b.next /\ e.ack < b.next
      /\ e.fault => e.perm.at = "AwaitBrake"
      /\ e.perm.at \in {"AwaitZero", "AwaitStopped", "AwaitGo"} => e.ack = e.brake
      /\ e.perm.at = "Executing" =>
           /\ HasPlan(b) /\ b.plan.gen = e.gen /\ b.plan.route = e.perm.route
           /\ e.perm.lim \in Nat /\ e.perm.lim <= b.plan.lim
      /\ e.perm.deferred.st = "Go" =>
           /\ e.perm.deferred.id \in Nat /\ e.perm.deferred.id < b.next
           /\ e.perm.deferred.gen = e.gen /\ Within(b, e.perm.deferred)
      /\ Confirmed(x, b) => e.fault \/ e.perm.at \in Stood
      /\ (AwaitsStop(b) /\ HasPlan(b) /\ b.plan.gen = b.gen /\ b.gen = e.gen /\ ~e.fault)
           => e.brake # b.brake

\* A Session that certifies the stop that is awaited speaks of a body that stands, and of a
\* vehicle that has lost the plan.
SessionOK(x, b, s) ==
  /\ s.valid /\ s.placed /\ s.healthy
  /\ s.gen \in Nat /\ s.ack \in Nat /\ s.gen <= x.e.gen /\ s.ack < b.next
  /\ (s.cert /\ AwaitsStop(b) /\ s.gen = b.gen /\ s.ack = b.brake)
       => x.ahead = <<>> /\ x.pos = s.pose /\ (HasPlan(b) => b.plan.gen # x.e.gen)

\* What is known, what was heard, what is on its way and where the body is come in this order
\* along the route.
Trail(x, b) ==
  /\ \A i \in DOMAIN x.up : Before(b, x.up[i].pose, x.pos)
  /\ \A i, j \in DOMAIN x.up : i < j => Before(b, x.up[i].pose, x.up[j].pose)
  /\ x.heard => /\ x.body = x.s.pose /\ Before(b, x.body, x.pos)
                /\ \A i \in DOMAIN x.up : Before(b, x.body, x.up[i].pose)
  /\ b.known => /\ x.heard /\ Before(b, b.pose, x.body) /\ Before(b, b.pose, x.pos)
                /\ \A i \in DOMAIN x.up : Before(b, b.pose, x.up[i].pose)
  /\ ~x.heard => x.body = NoCell
  /\ ~b.known => ~HasPlan(b) /\ b.gen = 0

\* The body is on what is reserved, and may go no further.
Rights(x, b) ==
  /\ x.ahead \in Seq(Cell)
  /\ IF HasPlan(b)
     THEN \E i \in Way(b) :
            /\ x.pos = b.plan.route.path[i] /\ i + Len(x.ahead) <= Limit(b)
            /\ \A j \in 1..Len(x.ahead) : x.ahead[j] = b.plan.route.path[i + j]
     ELSE x.ahead = <<>>

Suits(x, b) ==
  /\ BodyOK(b) /\ Obeys(x, b) /\ Trail(x, b) /\ Rights(x, b)
  /\ \A d \in x.ds : DecisionOK(x, b, d)
  /\ \A s \in Sessions(x) : SessionOK(x, b, s)

\* What is kept free for a vehicle.
KeptFree(x, b) == IF b.known THEN Holding(b) ELSE {x.pos}

\* What the planner has just decided.
Proper(pl, d) ==
  /\ d.vehicle \in Vehicle /\ d.st \in Restraint \cup {"Go"}
  /\ d.id \in Nat /\ d.id < pl.body[d.vehicle].next
  /\ d.st = "Go" => Within(pl.body[d.vehicle], d)

OutOK(pl) == \A i \in DOMAIN pl.out : Proper(pl, pl.out[i])

Apart(X, pl) ==
  \A v, w \in Vehicle :
    v # w => KeptFree(X[v], pl.body[v]) \cap KeptFree(X[w], pl.body[w]) = {}

AllKnown(pl) == \A v \in Vehicle : pl.body[v].known

\* The planner keeps its promise to the vehicles X.
Reserves(X, pl) ==
  /\ Shaped(pl) /\ OutOK(pl)
  /\ \A v \in Vehicle : Suits(X[v], pl.body[v])
  /\ Apart(X, pl)
  /\ (\E v \in Vehicle : HasPlan(pl.body[v])) => AllKnown(pl)

LEMMA SuitsSame ==
  ASSUME NEW x, NEW b, NEW c, Suits(x, b), SameReservation(b, c)
  PROVE  Suits(x, c) /\ KeptFree(x, c) = KeptFree(x, b)
<1> USE DEF SameReservation, SamePlan
<1>1. b.next \in Nat /\ c.next \in Nat /\ b.next <= c.next
  BY DEF Suits, BodyOK
<1>2. /\ Limit(c) = Limit(b) /\ Way(c) = Way(b)
      /\ \A p, q : Before(c, p, q) <=> Before(b, p, q)
      /\ \A d : Within(c, d) <=> Within(b, d)
  BY DEF Limit, Way, Before, Within
<1>3. BodyOK(c)
  BY <1>2 DEF Suits, BodyOK
<1>4. \A d \in x.ds : DecisionOK(x, c, d)
  BY <1>1, <1>2 DEF Suits, DecisionOK
<1>5. \A s \in Sessions(x) : SessionOK(x, c, s)
  <2> SUFFICES ASSUME NEW s \in Sessions(x) PROVE SessionOK(x, c, s)
    OBVIOUS
  <2>1. SessionOK(x, b, s)
    BY DEF Suits
  <2>2. s.gen \in Nat /\ s.ack \in Nat /\ s.gen <= x.e.gen /\ s.ack < c.next
    BY <1>1, <2>1 DEF SessionOK
  <2>3. ASSUME s.cert, AwaitsStop(c), s.gen = c.gen, s.ack = c.brake
        PROVE  AwaitsStop(b) /\ s.gen = b.gen /\ s.ack = b.brake
    BY <1>1, <2>1, <2>3 DEF SessionOK, AwaitsStop
  <2> QED
    BY <2>1, <2>2, <2>3 DEF SessionOK
<1>6. Trail(x, c)
  BY <1>2 DEF Suits, Trail
<1>7. Rights(x, c)
  BY <1>2 DEF Suits, Rights
<1>8. Obeys(x, c)
  <2>1. Obeys(x, b)
    BY DEF Suits
  <2>2. Confirmed(x, c) => Confirmed(x, b)
    BY DEF Confirmed
  <2>3. /\ x.e.brake \in Nat /\ x.e.brake < b.next /\ x.e.brake < c.next
        /\ x.e.ack \in Nat /\ x.e.ack < c.next
    BY <1>1, <2>1 DEF Obeys
  <2>4. (AwaitsStop(c) /\ HasPlan(c) /\ c.plan.gen = c.gen /\ c.gen = x.e.gen /\ ~x.e.fault)
           => x.e.brake # c.brake
    <3>1. CASE c.cert = b.cert /\ c.brake = b.brake
      BY <2>1, <3>1 DEF Obeys, AwaitsStop
    <3>2. CASE c.brake \in Nat /\ b.next <= c.brake
      BY <1>1, <2>3, <3>2
    <3> QED
      BY <3>1, <3>2
  <2>5. x.e.perm.deferred.st = "Go" =>
           /\ x.e.perm.deferred.id \in Nat /\ x.e.perm.deferred.id < c.next
           /\ x.e.perm.deferred.gen = x.e.gen /\ Within(c, x.e.perm.deferred)
    BY <1>1, <1>2, <2>1 DEF Obeys
  <2>6. x.e.perm.at = "Executing" =>
           /\ HasPlan(c) /\ c.plan.gen = x.e.gen /\ c.plan.route = x.e.perm.route
           /\ x.e.perm.lim \in Nat /\ x.e.perm.lim <= c.plan.lim
    BY <2>1 DEF Obeys
  <2> QED
    BY <2>1, <2>2, <2>3, <2>4, <2>5, <2>6 DEF Obeys
<1>9. KeptFree(x, c) = KeptFree(x, b)
  BY DEF KeptFree, Holding, Reserved
<1> QED
  BY <1>3, <1>4, <1>5, <1>6, <1>7, <1>8, <1>9 DEF Suits

LEMMA ProperSame ==
  ASSUME NEW pl, NEW q, NEW d, Proper(pl, d),
         \A v \in Vehicle :
           SameReservation(pl.body[v], q.body[v]) /\ pl.body[v].next \in Nat
  PROVE  Proper(q, d)
<1> DEFINE b == pl.body[d.vehicle]
           c == q.body[d.vehicle]
<1>1. /\ d.vehicle \in Vehicle /\ d.st \in Restraint \cup {"Go"}
      /\ d.id \in Nat /\ d.id < b.next /\ b.next \in Nat /\ SameReservation(b, c)
      /\ d.st = "Go" => Within(b, d)
  BY DEF Proper
<1> HIDE DEF b, c
<1>2. d.id < c.next
  BY <1>1 DEF SameReservation
<1>3. d.st = "Go" => Within(c, d)
  BY <1>1 DEF SameReservation, SamePlan, Within
<1> QED
  BY <1>1, <1>2, <1>3 DEF Proper, c

LEMMA ReservesSame ==
  ASSUME NEW X, NEW pl, NEW q, Reserves(X, pl), SameReservations(pl, q)
  PROVE  Reserves(X, q)
<1>1. \A v \in Vehicle : /\ SameReservation(pl.body[v], q.body[v]) /\ Suits(X[v], pl.body[v])
                         /\ pl.body[v].next \in Nat
  BY DEF Reserves, SameReservations, Shaped
<1>2. \A v \in Vehicle : /\ Suits(X[v], q.body[v])
                         /\ KeptFree(X[v], q.body[v]) = KeptFree(X[v], pl.body[v])
                         /\ (HasPlan(q.body[v]) <=> HasPlan(pl.body[v]))
                         /\ q.body[v].known = pl.body[v].known
  BY <1>1, SuitsSame DEF SameReservation
<1>3. OutOK(q)
  <2> SUFFICES ASSUME NEW i \in DOMAIN q.out PROVE Proper(q, q.out[i])
    BY DEF OutOK
  <2>1. CASE i \in DOMAIN pl.out /\ q.out[i] = pl.out[i]
    <3>1. Proper(pl, pl.out[i])
      BY <2>1 DEF Reserves, OutOK
    <3> QED
      BY <1>1, <2>1, <3>1, ProperSame
  <2>2. CASE ~(i \in DOMAIN pl.out /\ q.out[i] = pl.out[i])
    BY <2>2 DEF SameReservations, TellsNoGo, Proper, Restraint
  <2> QED
    BY <2>1, <2>2
<1>4. Apart(X, q)
  BY <1>2 DEF Reserves, Apart
<1> QED
  BY <1>2, <1>3, <1>4 DEF Reserves, AllKnown, SameReservations

\* What the limit of a GO that was just sent is.
LEMMA GoIs ==
  ASSUME NEW pl, Shaped(pl), NEW v \in Vehicle, DOMAIN pl.body[v].plan = PlanFields,
         HasPlan(pl.body[v])
  PROVE  LET q == EmitGo(pl, v)
             n == Len(pl.out) + 1
         IN  /\ Shaped(q)
             /\ \A w \in Vehicle \ {v} : q.body[w] = pl.body[w]
             /\ SameReservation(pl.body[v], q.body[v])
             /\ DOMAIN q.out = 1..n /\ DOMAIN pl.out = 1..(n - 1) /\ n \in Nat \ {0}
             /\ \A i \in 1..(n - 1) : q.out[i] = pl.out[i]
             /\ q.out[n].vehicle = v /\ q.out[n].st = "Go" /\ q.out[n].id = pl.body[v].next
             /\ q.out[n].route = pl.body[v].plan.route /\ q.out[n].lim = pl.body[v].plan.lim
             /\ q.out[n].gen = pl.body[v].gen /\ q.body[v].next = pl.body[v].next + 1
<1> DEFINE b == pl.body[v]
           n == Len(pl.out) + 1
           d == [vehicle |-> v, st |-> "Go", session |-> b.session, gen |-> b.gen, id |-> b.next,
                 route |-> NoPlan, lim |-> 0, reason |-> "None"]
           p == Decided(pl, v, "Go", "None", {})
           g == [p EXCEPT !.body[v].plan.id = b.next]
           q == EmitGo(pl, v)
<1>1. /\ DOMAIN p = PlannerFields /\ DOMAIN p.body = Vehicle /\ DOMAIN p.body[v] = BodyFields
      /\ \A w \in Vehicle \ {v} : p.body[w] = pl.body[w]
      /\ \A f \in BodyFields \ {"last", "next"} : p.body[v][f] = b[f]
      /\ p.body[v].next = b.next + 1
      /\ p.out = Append(pl.out, d)
  BY DecidedIs
<1>2. /\ Listed(p.out) /\ DOMAIN p.out = 1..n /\ DOMAIN pl.out = 1..(n - 1) /\ n \in Nat \ {0}
      /\ Len(p.out) = n
      /\ \A i \in 1..(n - 1) : p.out[i] = pl.out[i]
      /\ p.out[n] = d
  <2> HIDE DEF p, d
  <2> QED
    BY <1>1, AppendListed DEF Shaped
<1>3. /\ g.out = p.out /\ DOMAIN g = PlannerFields /\ DOMAIN g.body = Vehicle
      /\ \A w \in Vehicle \ {v} : g.body[w] = p.body[w]
      /\ DOMAIN g.body[v] = BodyFields
      /\ \A f \in BodyFields \ {"plan"} : g.body[v][f] = p.body[v][f]
      /\ g.body[v].plan = [p.body[v].plan EXCEPT !.id = b.next]
  <2> HIDE DEF p
  <2> QED
    BY <1>1 DEF PlannerFields, BodyFields
<1>4. q = [g EXCEPT !.out[n].route = b.plan.route, !.out[n].lim = b.plan.lim]
  <2>1. Len(g.out) = n
    BY <1>2, <1>3
  <2> QED
    BY <2>1 DEF EmitGo
<1> HIDE DEF p, g
<1>5. /\ DOMAIN d = {"vehicle", "st", "session", "gen", "id", "route", "lim", "reason"}
      /\ d.vehicle = v /\ d.st = "Go" /\ d.gen = b.gen /\ d.id = b.next
  OBVIOUS
<1> HIDE DEF d, n
<1>6. /\ DOMAIN q = PlannerFields /\ q.body = g.body
      /\ DOMAIN q.out = 1..n /\ q.out = [i \in 1..n |-> q.out[i]]
      /\ \A i \in 1..(n - 1) : q.out[i] = p.out[i]
      /\ q.out[n].vehicle = v /\ q.out[n].st = "Go" /\ q.out[n].gen = b.gen
      /\ q.out[n].id = b.next
      /\ q.out[n].route = b.plan.route /\ q.out[n].lim = b.plan.lim
  <2> DEFINE t == b.plan.route
             l == b.plan.lim
             o == p.out
             o1 == [o EXCEPT ![n].route = t]
             o2 == [o1 EXCEPT ![n].lim = l]
             d1 == [d EXCEPT !.route = t]
             d2 == [d1 EXCEPT !.lim = l]
             g1 == [g EXCEPT !.out[n].route = t]
  <2>0. q = [g1 EXCEPT !.out[n].lim = l]
    BY <1>4
  <2>1. g1.out = o1 /\ DOMAIN g1 = PlannerFields /\ g1.body = g.body
    <3> HIDE DEF t
    <3> QED
      BY <1>3 DEF PlannerFields
  <2> HIDE DEF g1
  <2>2. n \in 1..n /\ DOMAIN o = 1..n /\ o[n] = d /\ \A i \in 1..(n - 1) : i \in 1..n /\ i # n
    BY <1>2
  <2>3. d2.vehicle = v /\ d2.st = "Go" /\ d2.gen = b.gen /\ d2.id = b.next /\ d2.route = t /\ d2.lim = l
    BY <1>5
  <2> HIDE DEF t, l, o
  <2>4. DOMAIN o1 = 1..n /\ o1[n] = d1 /\ \A i \in 1..(n - 1) : o1[i] = o[i]
    BY <2>2
  <2> HIDE DEF o1, d1
  <2>7. o2 = [i \in 1..n |-> o2[i]]
    BY <2>4
  <2>5. DOMAIN o2 = 1..n /\ o2[n] = d2 /\ \A i \in 1..(n - 1) : o2[i] = o[i]
    BY <2>2, <2>4
  <2> HIDE DEF o2, d2
  <2>6. DOMAIN q = PlannerFields /\ q.body = g.body /\ q.out = o2
    BY <2>0, <2>1 DEF PlannerFields, o2, o1, d1, d2
  <2> HIDE DEF q
  <2> QED
    BY <2>3, <2>5, <2>6, <2>7 DEF t, l, o
<1> HIDE DEF q
<1>7. Listed(q.out)
  <2> DEFINE o == q.out
             S == {o[i] : i \in DOMAIN o}
  <2>2. o \in [1..n -> S] /\ n \in Nat
    BY <1>2, <1>6
  <2> HIDE DEF o, S
  <2>3. o \in Seq(S)
    BY <2>2
  <2>1. q.out \in Seq({q.out[i] : i \in DOMAIN q.out})
    BY <2>3 DEF o, S
  <2> QED
    BY <2>1 DEF Listed
<1>8. /\ \A w \in Vehicle \ {v} : q.body[w] = pl.body[w]
      /\ DOMAIN q.body[v] = BodyFields /\ q.body[v].next = b.next + 1
      /\ \A f \in BodyFields \ {"last", "next", "plan"} : q.body[v][f] = b[f]
      /\ q.body[v].plan = [b.plan EXCEPT !.id = b.next]
  BY <1>1, <1>3, <1>6 DEF BodyFields
<1>9. SamePlan(b.plan, q.body[v].plan)
  BY <1>8 DEF SamePlan, PlanFields
<1>10. SameReservation(b, q.body[v])
  <2>1. /\ q.body[v].known = b.known /\ q.body[v].gen = b.gen /\ q.body[v].pose = b.pose
        /\ q.body[v].at = b.at /\ q.body[v].cert = b.cert /\ q.body[v].brake = b.brake
    BY <1>8 DEF BodyFields
  <2>2. b.next \in Nat
    BY DEF Shaped
  <2> QED
    BY <1>8, <1>9, <2>1, <2>2 DEF SameReservation, HasPlan, Granted, Retiring
<1>11. Shaped(q)
  BY <1>6, <1>7, <1>8, <1>3 DEF Shaped
<1> QED
  BY <1>2, <1>6, <1>8, <1>10, <1>11 DEF n, q

\* A GO for the plan that is held may be sent at any time.
LEMMA GoReserves ==
  ASSUME NEW X, NEW pl, Reserves(X, pl), NEW v \in Vehicle, Granted(pl.body[v])
  PROVE  /\ Reserves(X, EmitGo(pl, v))
         /\ \A w \in Vehicle : SameReservation(pl.body[w], EmitGo(pl, v).body[w])
<1> DEFINE q == EmitGo(pl, v)
           n == Len(pl.out) + 1
           d == q.out[n]
<1>1. /\ Shaped(pl) /\ BodyOK(pl.body[v]) /\ HasPlan(pl.body[v])
      /\ DOMAIN pl.body[v].plan = PlanFields
      /\ pl.body[v].plan.gen = pl.body[v].gen /\ pl.body[v].plan.lim \in Nat
      /\ \A w \in Vehicle : pl.body[w].next \in Nat
  BY DEF Reserves, Suits, BodyOK, Granted, Shaped
<1>2. /\ Shaped(q)
      /\ \A w \in Vehicle \ {v} : q.body[w] = pl.body[w]
      /\ SameReservation(pl.body[v], q.body[v])
      /\ DOMAIN q.out = 1..n /\ DOMAIN pl.out = 1..(n - 1) /\ n \in Nat \ {0}
      /\ \A i \in 1..(n - 1) : q.out[i] = pl.out[i]
      /\ d.vehicle = v /\ d.st = "Go" /\ d.id = pl.body[v].next
      /\ d.route = pl.body[v].plan.route /\ d.lim = pl.body[v].plan.lim
      /\ d.gen = pl.body[v].gen /\ q.body[v].next = pl.body[v].next + 1
  BY <1>1, GoIs, Zenon
<1> HIDE DEF q, n, d
<1>3. \A w \in Vehicle : SameReservation(pl.body[w], q.body[w])
  <2>1. \A w \in Vehicle \ {v} : SameReservation(pl.body[w], q.body[w])
    BY <1>1, <1>2 DEF SameReservation, SamePlan
  <2> QED
    BY <1>2, <2>1
<1>4. \A w \in Vehicle : /\ Suits(X[w], q.body[w])
                         /\ KeptFree(X[w], q.body[w]) = KeptFree(X[w], pl.body[w])
                         /\ (HasPlan(q.body[w]) <=> HasPlan(pl.body[w]))
                         /\ q.body[w].known = pl.body[w].known
  BY <1>3, SuitsSame DEF SameReservation, Reserves
<1>5. OutOK(q)
  <2>1. Proper(q, d)
    <3>1. d.id \in Nat /\ d.id < q.body[d.vehicle].next
      BY <1>1, <1>2
    <3>2. Within(q.body[d.vehicle], d)
      BY <1>1, <1>2 DEF Within, SameReservation, SamePlan
    <3> QED
      BY <1>2, <3>1, <3>2 DEF Proper
  <2>2. ASSUME NEW i \in 1..n, i # n PROVE Proper(q, q.out[i])
    <3>1. q.out[i] = pl.out[i] /\ i \in DOMAIN pl.out
      BY <1>2, <2>2
    <3>2. Proper(pl, pl.out[i])
      BY <3>1 DEF Reserves, OutOK
    <3> QED
      BY <1>1, <1>3, <3>1, <3>2, ProperSame
  <2> QED
    BY <1>2, <2>1, <2>2 DEF OutOK, d
<1>6. Apart(X, q)
  BY <1>4 DEF Reserves, Apart
<1>7. Reserves(X, q)
  BY <1>2, <1>4, <1>5, <1>6 DEF Reserves, AllKnown
<1> QED
  BY <1>3, <1>7 DEF q

-----------------------------------------------------------------------------
(* Changes of a reservation.                                                 *)

NoGo(pl) == \A i \in DOMAIN pl.out : pl.out[i].st # "Go"

\* One body is changed, and nobody is told to go.
LEMMA ToldReserves ==
  ASSUME NEW X, NEW pl, Reserves(X, pl), NEW v \in Vehicle, NEW q, Shaped(q), TellsNoGo(pl, q),
         \A w \in Vehicle \ {v} : q.body[w] = pl.body[w],
         Suits(X[v], q.body[v]), pl.body[v].next <= q.body[v].next,
         (\A d : Within(pl.body[v], d) => Within(q.body[v], d)) \/ NoGo(pl),
         \A w \in Vehicle \ {v} :
           KeptFree(X[v], q.body[v]) \cap KeptFree(X[w], pl.body[w]) = {},
         HasPlan(q.body[v]) => AllKnown(pl), pl.body[v].known => q.body[v].known
  PROVE  Reserves(X, q)
<1>2. \A w \in Vehicle : Suits(X[w], q.body[w])
  BY DEF Reserves
<1>3. Apart(X, q)
  <2> SUFFICES ASSUME NEW u \in Vehicle, NEW w \in Vehicle, u # w
               PROVE  KeptFree(X[u], q.body[u]) \cap KeptFree(X[w], q.body[w]) = {}
    BY DEF Apart
  <2>1. CASE u = v
    BY <2>1
  <2>2. CASE w = v
    BY <2>2
  <2>3. CASE u # v /\ w # v
    BY <2>3 DEF Reserves, Apart
  <2> QED
    BY <2>1, <2>2, <2>3
<1>4. (\E w \in Vehicle : HasPlan(q.body[w])) => AllKnown(q)
  BY DEF Reserves, AllKnown
<1>5. OutOK(q)
  <2> SUFFICES ASSUME NEW i \in DOMAIN q.out PROVE Proper(q, q.out[i])
    BY DEF OutOK
  <2>1. CASE ~(i \in DOMAIN pl.out /\ q.out[i] = pl.out[i])
    BY <2>1 DEF TellsNoGo, Proper, Restraint
  <2>2. CASE i \in DOMAIN pl.out /\ q.out[i] = pl.out[i]
    <3> DEFINE d == pl.out[i]
    <3>1. Proper(pl, d)
      BY <2>2 DEF Reserves, OutOK
    <3>2. NoGo(pl) => d.st # "Go"
      BY <2>2 DEF NoGo
    <3> HIDE DEF d
    <3>3. CASE d.vehicle # v
      <4>1. q.body[d.vehicle] = pl.body[d.vehicle]
        BY <3>1, <3>3 DEF Proper
      <4> QED
        BY <2>2, <3>1, <4>1 DEF Proper, d
    <3>4. CASE d.vehicle = v
      <4>1. pl.body[v].next \in Nat /\ q.body[v].next \in Nat
        BY DEF Reserves, Suits, BodyOK
      <4>2. d.id < q.body[v].next /\ d.id \in Nat
        BY <3>1, <3>4, <4>1 DEF Proper
      <4>3. d.st = "Go" => Within(q.body[v], d)
        BY <3>1, <3>2, <3>4 DEF Proper
      <4> QED
        BY <2>2, <3>1, <3>4, <4>2, <4>3 DEF Proper, d
    <3> QED
      BY <3>3, <3>4
  <2> QED
    BY <2>1, <2>2
<1> QED
  BY <1>2, <1>3, <1>4, <1>5 DEF Reserves

LEMMA ChangedReserves ==
  ASSUME NEW X, NEW pl, Reserves(X, pl), NEW v \in Vehicle, NEW c, NEW q,
         Changed(pl, q, v, c), DOMAIN c = BodyFields, Suits(X[v], c),
         pl.body[v].next <= c.next,
         (\A d : Within(pl.body[v], d) => Within(c, d)) \/ NoGo(pl),
         \A w \in Vehicle \ {v} : KeptFree(X[v], c) \cap KeptFree(X[w], pl.body[w]) = {},
         HasPlan(c) => AllKnown(pl), pl.body[v].known => c.known
  PROVE  Reserves(X, q)
<1>1. Shaped(q) /\ TellsNoGo(pl, q)
  BY DEF Changed, Reserves, Shaped, Suits, BodyOK, TellsNoGo
<1>2. q.body[v] = c /\ \A w \in Vehicle \ {v} : q.body[w] = pl.body[w]
  BY DEF Changed
<1> QED
  BY <1>1, <1>2, ToldReserves

\* A plan that goes as far or farther.
LEMMA SuitsLonger ==
  ASSUME NEW x, NEW b, NEW c, Suits(x, b), BodyOK(c), Trail(x, c), Rights(x, c),
         HasPlan(b), HasPlan(c),
         c.known = b.known, c.gen = b.gen, c.next = b.next, c.cert = b.cert, c.brake = b.brake,
         c.plan.route = b.plan.route, c.plan.gen = b.plan.gen, b.plan.lim <= c.plan.lim
  PROVE  Suits(x, c) /\ \A d : Within(b, d) => Within(c, d)
<1>1. \A d : Within(b, d) => Within(c, d)
  BY DEF Within, Suits, BodyOK
<1>2. \A d \in x.ds : DecisionOK(x, c, d)
  BY <1>1 DEF Suits, DecisionOK
<1>3. \A s \in Sessions(x) : SessionOK(x, c, s)
  BY DEF Suits, SessionOK, AwaitsStop
<1>4. Obeys(x, c)
  <2>1. Obeys(x, b) /\ b.plan.lim \in Nat /\ c.plan.lim \in Nat
    BY DEF Suits, BodyOK
  <2>2. Confirmed(x, c) => Confirmed(x, b)
    BY DEF Confirmed
  <2>3. x.e.perm.deferred.st = "Go" =>
           /\ x.e.perm.deferred.id \in Nat /\ x.e.perm.deferred.id < c.next
           /\ x.e.perm.deferred.gen = x.e.gen /\ Within(c, x.e.perm.deferred)
    BY <1>1, <2>1 DEF Obeys
  <2>4. x.e.perm.at = "Executing" =>
           /\ HasPlan(c) /\ c.plan.gen = x.e.gen /\ c.plan.route = x.e.perm.route
           /\ x.e.perm.lim \in Nat /\ x.e.perm.lim <= c.plan.lim
    BY <2>1 DEF Obeys
  <2> QED
    BY <2>1, <2>2, <2>3, <2>4 DEF Obeys, AwaitsStop
<1> QED
  BY <1>1, <1>2, <1>3, <1>4 DEF Suits

-----------------------------------------------------------------------------
(* What the vehicles say.                                                    *)

\* What the planner is told of a vehicle.
Heeds(x, f) ==
  /\ x.heard /\ f.gen = x.s.gen /\ f.ack = x.s.ack /\ f.pose = x.body
  /\ f.cert => x.s.cert

\* Nothing but the place of a body is new.
LEMMA PlacedSuits ==
  ASSUME NEW x, NEW b, NEW c, Suits(x, b), x.heard,
         c.known = TRUE, c.gen = b.gen, c.next = b.next, c.brake = b.brake, c.cert = b.cert,
         c.at = b.at, c.plan = b.plan,
         c.pose \in {b.pose, x.body}, b.known \/ c.pose = x.body
  PROVE  /\ Suits(x, c) /\ KeptFree(x, c) \subseteq KeptFree(x, b)
         /\ \A d : Within(b, d) => Within(c, d)
<1>1. /\ (HasPlan(c) <=> HasPlan(b)) /\ (Granted(c) <=> Granted(b))
      /\ (AwaitsStop(c) <=> AwaitsStop(b))
      /\ Limit(c) = Limit(b) /\ Way(c) = Way(b)
  BY DEF HasPlan, Granted, Retiring, AwaitsStop, Limit, Way
<1>2. /\ \A p, q : Before(c, p, q) <=> Before(b, p, q)
      /\ \A d : Within(c, d) <=> Within(b, d)
  BY <1>1 DEF Before, Within
<1>3. BodyOK(c)
  BY <1>1 DEF Suits, BodyOK
<1>4. \A d \in x.ds : DecisionOK(x, c, d)
  BY <1>2 DEF Suits, DecisionOK
<1>5. \A s \in Sessions(x) : SessionOK(x, c, s)
  BY <1>1 DEF Suits, SessionOK
<1>6. Rights(x, c)
  BY <1>1 DEF Suits, Rights
<1>7. Obeys(x, c)
  <2>1. Obeys(x, b) /\ (Confirmed(x, c) => Confirmed(x, b))
    BY <1>1 DEF Suits, Confirmed
  <2> QED
    BY <1>1, <1>2, <2>1 DEF Obeys
<1>8. Trail(x, b)
  BY DEF Suits
<1>10. Before(b, x.body, x.body)
  BY <1>8 DEF Trail, Before, Way, Limit, Suits, BodyOK
<1>11. ASSUME ~b.known PROVE c.pose = x.pos /\ x.pos = x.body /\ ~HasPlan(b)
  BY <1>8, <1>11 DEF Trail, Before
<1>12. Trail(x, c)
  <2>1. CASE b.known
    <3>1. CASE c.pose = b.pose
      BY <1>2, <1>8, <2>1, <3>1 DEF Trail
    <3>2. CASE c.pose = x.body
      BY <1>2, <1>8, <1>10, <2>1, <3>2 DEF Trail
    <3> QED
      BY <3>1, <3>2
  <2>2. CASE ~b.known
    BY <1>2, <1>8, <1>10, <1>11, <2>2 DEF Trail
  <2> QED
    BY <2>1, <2>2
<1>13. KeptFree(x, c) \subseteq KeptFree(x, b)
  <2>1. CASE b.known /\ HasPlan(b)
    <3>1. x.body \in Reserved(b.plan)
      BY <1>8, <2>1 DEF Trail, Before, Reserved, Way, Limit
    <3> QED
      BY <1>1, <2>1, <3>1 DEF KeptFree, Holding
  <2>2. CASE b.known /\ ~HasPlan(b)
    <3>1. c.pose = b.pose
      BY <1>8, <2>2 DEF Trail, Before
    <3> QED
      BY <1>1, <2>2, <3>1 DEF KeptFree, Holding
  <2>3. CASE ~b.known
    BY <1>1, <1>11, <2>3 DEF KeptFree, Holding
  <2> QED
    BY <2>1, <2>2, <2>3
<1> QED
  BY <1>2, <1>3, <1>4, <1>5, <1>6, <1>7, <1>12, <1>13 DEF Suits

\* A request that is new is answered with a brake that is.
LEMMA RequestSuits ==
  ASSUME NEW x, NEW b, NEW c, Suits(x, b), b.known, c.known = b.known,
         c.gen = x.s.gen, c.gen > b.gen, c.cert = "Awaiting", c.brake \in Nat,
         b.next <= c.brake, c.brake < c.next, c.next \in Nat, ~Granted(c),
         HasPlan(c) <=> HasPlan(b), SamePlan(b.plan, c.plan), c.pose = b.pose
  PROVE  /\ Suits(x, c) /\ KeptFree(x, c) = KeptFree(x, b)
         /\ \A d : Within(b, d) => Within(c, d)
<1> USE DEF SamePlan
<1>1. Limit(c) = Limit(b) /\ Way(c) = Way(b)
  BY DEF Limit, Way
<1>2. /\ \A p, q : Before(c, p, q) <=> Before(b, p, q)
      /\ \A d : Within(c, d) <=> Within(b, d)
  BY <1>1 DEF Before, Within
<1>3. b.next \in Nat /\ b.gen \in Nat
  BY DEF Suits, BodyOK
<1>4. x.s \in Sessions(x) /\ c.gen \in Nat /\ c.gen <= x.e.gen
  BY DEF Sessions, Suits, SessionOK
<1>5. HasPlan(c) => c.plan.gen \in Nat /\ c.plan.gen < c.gen
  BY <1>3, <1>4 DEF Suits, BodyOK
<1>6. BodyOK(c)
  <2>1. c.known \in BOOLEAN /\ c.brake \in Nat /\ c.next \in Nat /\ c.brake < c.next
    BY <1>3 DEF Suits, BodyOK
  <2> QED
    BY <1>1, <1>4, <1>5, <2>1 DEF Suits, BodyOK
<1>7. \A d \in x.ds : DecisionOK(x, c, d)
  BY <1>2, <1>3 DEF Suits, DecisionOK
<1>8. \A s \in Sessions(x) : SessionOK(x, c, s)
  <2> SUFFICES ASSUME NEW s \in Sessions(x) PROVE SessionOK(x, c, s)
    OBVIOUS
  <2>1. SessionOK(x, b, s)
    BY DEF Suits
  <2>2. s.ack # c.brake /\ s.ack < c.next
    BY <1>3, <2>1 DEF SessionOK
  <2> QED
    BY <2>1, <2>2 DEF SessionOK
<1>9. Rights(x, c)
  BY <1>1 DEF Suits, Rights
<1>10. Trail(x, c)
  BY <1>2 DEF Suits, Trail
<1>11. Obeys(x, c)
  <2>1. Obeys(x, b)
    BY DEF Suits
  <2>2. Confirmed(x, c) => Confirmed(x, b)
    BY DEF Confirmed
  <2>3. /\ x.e.brake \in Nat /\ x.e.brake < c.next /\ x.e.ack \in Nat /\ x.e.ack < c.next
        /\ x.e.gen \in Nat
    BY <1>3, <2>1 DEF Obeys
  <2>4. x.e.perm.deferred.st = "Go" =>
           /\ x.e.perm.deferred.id \in Nat /\ x.e.perm.deferred.id < c.next
           /\ x.e.perm.deferred.gen = x.e.gen /\ Within(c, x.e.perm.deferred)
    BY <1>2, <1>3, <2>1 DEF Obeys
  <2>5. x.e.perm.at = "Executing" =>
           /\ HasPlan(c) /\ c.plan.gen = x.e.gen /\ c.plan.route = x.e.perm.route
           /\ x.e.perm.lim \in Nat /\ x.e.perm.lim <= c.plan.lim
    BY <2>1 DEF Obeys
  <2>6. HasPlan(c) => c.plan.gen # c.gen
    BY <1>4, <1>5
  <2>7. Confirmed(x, c) => x.e.fault \/ x.e.perm.at \in Stood
    BY <2>1, <2>2 DEF Obeys
  <2> QED
    BY <1>4, <2>1, <2>3, <2>4, <2>5, <2>6, <2>7 DEF Obeys
<1>12. KeptFree(x, c) = KeptFree(x, b)
  BY DEF KeptFree, Holding, Reserved
<1> QED
  BY <1>2, <1>6, <1>7, <1>8, <1>9, <1>10, <1>11, <1>12 DEF Suits

\* A stop that is certified for the brake that is awaited: the reservation is given up.
LEMMA CertifiedSuits ==
  ASSUME NEW x, NEW b, NEW c, Suits(x, b), b.known, x.heard, b.pose = x.body,
         AwaitsStop(b), x.s.cert, x.s.gen = b.gen, x.s.ack = b.brake,
         c.known = b.known, c.gen = b.gen, c.cert = "Certified", c.brake = b.brake,
         c.next = b.next, ~HasPlan(c), c.pose = b.pose
  PROVE  Suits(x, c) /\ KeptFree(x, c) \subseteq KeptFree(x, b)
<1>1. x.s \in Sessions(x) /\ SessionOK(x, b, x.s)
  BY DEF Sessions, Suits
<1>2. x.ahead = <<>> /\ x.pos = x.s.pose /\ (HasPlan(b) => b.plan.gen # x.e.gen)
  BY <1>1 DEF SessionOK
<1>3. Trail(x, b) /\ x.body = x.pos
  BY <1>2 DEF Suits, Trail
<1>4. \A i \in DOMAIN x.up : x.up[i].pose = x.pos
  <2> SUFFICES ASSUME NEW i \in DOMAIN x.up PROVE x.up[i].pose = x.pos
    OBVIOUS
  <2>1. Before(b, x.up[i].pose, x.pos) /\ Before(b, x.pos, x.up[i].pose)
    BY <1>3 DEF Trail
  <2>2. CASE HasPlan(b)
    <3> DEFINE p == b.plan.route.path
    <3>1. PICK i1, j1 \in Way(b) : i1 <= j1 /\ p[i1] = x.up[i].pose /\ p[j1] = x.pos
      BY <2>1, <2>2 DEF Before
    <3>2. PICK i2, j2 \in Way(b) : i2 <= j2 /\ p[i2] = x.pos /\ p[j2] = x.up[i].pose
      BY <2>1, <2>2 DEF Before
    <3>3. p \in Path
      BY <2>2 DEF Suits, BodyOK
    <3>4. /\ Len(p) \in Nat /\ Way(b) \subseteq 1..Len(p)
          /\ \A m, n \in 1..Len(p) : p[m] = p[n] => m = n
      <4>1. Len(p) \in Nat \ {0} /\ \A m, n \in 1..Len(p) : p[m] = p[n] => m = n
        BY <3>3, PathIs
      <4>2. b.plan.cursor \in Nat \ {0} /\ b.plan.lim \in Nat
        BY <2>2 DEF Suits, BodyOK
      <4> QED
        BY <4>1, <4>2 DEF Way, Limit, Lesser
    <3> HIDE DEF p
    <3>5. i1 = j2 /\ j1 = i2
      BY <3>1, <3>2, <3>4
    <3>6. i1 = j1
      BY <3>1, <3>2, <3>4, <3>5
    <3> QED
      BY <3>1, <3>6
  <2>3. CASE ~HasPlan(b)
    BY <2>1, <2>3 DEF Before
  <2> QED
    BY <2>2, <2>3
<1>5. BodyOK(c)
  BY DEF Suits, BodyOK
<1>6. Obeys(x, b) /\ \A d : d.gen = x.e.gen => ~Within(b, d)
  BY <1>2 DEF Suits, Within
<1>7. \A d \in x.ds : DecisionOK(x, c, d)
  BY <1>6 DEF Suits, DecisionOK
<1>8. \A s \in Sessions(x) : SessionOK(x, c, s)
  BY DEF Suits, SessionOK, AwaitsStop
<1>9. Rights(x, c)
  BY <1>2 DEF Suits, Rights
<1>10. Trail(x, c)
  BY <1>2, <1>3, <1>4 DEF Trail, Before
<1>11. Obeys(x, c)
  <2>1. Confirmed(x, c) => Confirmed(x, b)
    <3>1. b.gen = x.e.gen => Confirmed(x, b)
      BY <1>1 DEF Confirmed
    <3> QED
      BY <3>1 DEF Confirmed
  <2>2. ~AwaitsStop(c)
    BY DEF AwaitsStop
  <2>3. x.e.perm.deferred.st # "Go" /\ x.e.perm.at # "Executing"
    BY <1>2, <1>6 DEF Obeys
  <2>4. Confirmed(x, c) => x.e.fault \/ x.e.perm.at \in Stood
    BY <1>6, <2>1 DEF Obeys
  <2> QED
    BY <1>6, <2>2, <2>3, <2>4 DEF Obeys
<1>12. KeptFree(x, c) \subseteq KeptFree(x, b)
  BY DEF KeptFree, Holding
<1> QED
  BY <1>5, <1>7, <1>8, <1>9, <1>10, <1>11, <1>12 DEF Suits

LEMMA FlagsSame ==
  ASSUME NEW pl, Shaped(pl), NEW x
  PROVE  /\ SameReservations(pl, [pl EXCEPT !.dirty = x])
         /\ SameReservations(pl, [pl EXCEPT !.changed = x])
         /\ SameReservations(pl, Fresh(pl)) /\ NoGo(Fresh(pl))
         /\ SameReservations(pl, Looked(pl)) /\ SameReservations(pl, Rested(pl))
<1>1. /\ Shaped([pl EXCEPT !.dirty = x]) /\ Shaped([pl EXCEPT !.changed = x])
      /\ Shaped(Fresh(pl)) /\ Shaped([pl EXCEPT !.dirty = FALSE])
      /\ Shaped([pl EXCEPT !.changed = FALSE])
  BY FlagsShaped DEF Fresh
<1> USE DEF SameReservations, SameReservation, SamePlan, TellsNoGo, Shaped, PlannerFields
<1>2. SameReservations(pl, [pl EXCEPT !.dirty = x])
  BY <1>1
<1>3. SameReservations(pl, [pl EXCEPT !.changed = x])
  BY <1>1
<1>4. SameReservations(pl, Fresh(pl)) /\ NoGo(Fresh(pl))
  BY <1>1 DEF Fresh, NoGo
<1>5. SameReservations(pl, Looked(pl))
  BY <1>1 DEF Looked
<1>6. SameReservations(pl, Rested(pl))
  BY <1>1 DEF Rested
<1> QED
  BY <1>2, <1>3, <1>4, <1>5, <1>6

LEMMA NoGoSame ==
  ASSUME NEW pl, NEW q, NoGo(pl), TellsNoGo(pl, q)
  PROVE  NoGo(q)
BY DEF NoGo, TellsNoGo, Restraint

\* The body of v is another one, and the others are what they were.
Replaced(pl, q, v) ==
  /\ Shaped(q) /\ q.out = pl.out
  /\ \A w \in Vehicle \ {v} : q.body[w] = pl.body[w]

Placed(pl, m, v, f) ==
  /\ Replaced(pl, m, v)
  /\ \A i \in BodyFields \ {"pose", "proof"} : m.body[v][i] = pl.body[v][i]
  /\ m.body[v].pose \in {pl.body[v].pose, f.pose}
  /\ f.available \/ ~pl.body[v].known => m.body[v].pose = f.pose

LEMMA MovedIs ==
  ASSUME NEW pl, Shaped(pl), NEW v \in Vehicle, NEW f, NEW m, m = Moved(pl, v, f, pl.body[v])
  PROVE  Placed(pl, m, v, f)
<1> USE DEF Placed
<1> DEFINE b == pl.body[v]
           e == [b EXCEPT !.pose = f.pose, !.proof = f.pose]
           g == IF f.available \/ ~b.known THEN [b EXCEPT !.pose = f.pose] ELSE b
           p == Put(pl, v, e)
           hit == InGrantedCorridor(p, v)
           h == [p EXCEPT !.changed = @ \/ hit, !.dirty = @ \/ hit]
<1>1. /\ DOMAIN e = BodyFields /\ e.next \in Nat /\ DOMAIN g = BodyFields /\ g.next \in Nat
      /\ e.pose = f.pose /\ g.pose \in {b.pose, f.pose}
      /\ f.available \/ ~b.known => g.pose = f.pose
      /\ \A i \in BodyFields \ {"pose", "proof"} : e[i] = b[i] /\ g[i] = b[i]
  BY DEF Shaped, BodyFields
<1>2. \/ m = h /\ (f.available \/ ~b.known)
      \/ m = Put(pl, v, g)
  BY DEF Moved
<1> HIDE DEF e, g
<1>3. Changed(pl, p, v, e) /\ Changed(pl, Put(pl, v, g), v, g)
  BY PutChanged
<1>4. Shaped(p) /\ Shaped(Put(pl, v, g))
  BY <1>1, PutShaped
<1> HIDE DEF p
<1>5. h.body = p.body /\ h.out = p.out /\ Shaped(h)
  <2> DEFINE y == p.changed \/ hit
             z == p.dirty \/ hit
  <2> HIDE DEF hit
  <2>1. h = [[p EXCEPT !.changed = y] EXCEPT !.dirty = z]
    BY <1>4 DEF Shaped, PlannerFields
  <2> HIDE DEF y, z
  <2>2. Shaped(h)
    BY <1>4, <2>1, FlagsShaped
  <2> QED
    BY <1>4, <2>1, <2>2 DEF Shaped, PlannerFields
<1> HIDE DEF h
<1> QED
  BY <1>1, <1>2, <1>3, <1>4, <1>5 DEF Replaced, Changed

Marked(m, v, x1, x2, x3) ==
  [m EXCEPT !.body[v].known = TRUE, !.body[v].phase = x1, !.body[v].available = x2,
            !.body[v].uncontrolled = x3]

Sighted(m, s, v, available) ==
  /\ Replaced(m, s, v) /\ s.body[v].known /\ s.body[v].available = available
  /\ \A i \in BodyFields \ {"known", "phase", "available", "uncontrolled"} :
       s.body[v][i] = m.body[v][i]

LEMMA MarkedIs ==
  ASSUME NEW m, Shaped(m), NEW v \in Vehicle, NEW x1, NEW x2, NEW x3, NEW s,
         s = Marked(m, v, x1, x2, x3)
  PROVE  Sighted(m, s, v, x2)
<1>1. Shaped(s)
  BY FieldsShaped DEF Marked
<1>2. s.out = m.out /\ \A w \in Vehicle \ {v} : s.body[w] = m.body[w]
  BY DEF Marked, Shaped, PlannerFields
<1>3. s.body[v].known = TRUE /\ s.body[v].available = x2
  BY DEF Marked, Shaped, PlannerFields, BodyFields
<1>4. ASSUME NEW i \in BodyFields \ {"known", "phase", "available", "uncontrolled"}
      PROVE  s.body[v][i] = m.body[v][i]
  BY DEF Marked, Shaped, PlannerFields
<1> QED
  BY <1>1, <1>2, <1>3, <1>4 DEF Replaced, Sighted

LEMMA RequestReserves ==
  ASSUME NEW X, NEW p, Reserves(X, p), NoGo(p), NEW v \in Vehicle, NEW f, Heeds(X[v], f),
         p.body[v].known, f.gen > p.body[v].gen, NEW q, q = NewRequest(p, v, f)
  PROVE  /\ Reserves(X, q) /\ NoGo(q)
         /\ \A w \in Vehicle : q.body[w].known = p.body[w].known
<1> DEFINE b == p.body[v]
           e == [b EXCEPT !.session = f.session, !.gen = f.gen, !.target = f.target,
                          !.rejected = FALSE, !.occupied = FALSE, !.noRoute = FALSE]
           g == Put(p, v, e)
           h == [g EXCEPT !.dirty = TRUE]
<1>0. Shaped(p)
  BY DEF Reserves
<1>1. q = EmitBrake(h, v, "Replan", {})
  BY DEF NewRequest
<1>2. /\ DOMAIN e = BodyFields /\ e.next \in Nat /\ e.gen = f.gen
      /\ e.known = b.known /\ e.pose = b.pose /\ e.plan = b.plan /\ e.at = b.at
      /\ e.next = b.next
  BY <1>0 DEF Shaped, BodyFields
<1> HIDE DEF e
<1>3. Changed(p, g, v, e) /\ Shaped(g)
  BY <1>0, <1>2, PutChanged, PutShaped
<1> HIDE DEF g
<1>4. /\ Shaped(h) /\ h.out = p.out /\ h.body[v] = e
      /\ \A w \in Vehicle \ {v} : h.body[w] = p.body[w]
  BY <1>3, FlagsShaped DEF Changed, Shaped, PlannerFields
<1> HIDE DEF h
<1>5. /\ SameReservations(h, q) /\ AwaitsStop(q.body[v]) /\ ~Granted(q.body[v])
      /\ q.body[v].brake = e.next
      /\ \A w \in Vehicle \ {v} : q.body[w] = h.body[w]
  BY <1>1, <1>4, BrakeSame
<1>6. SameReservation(e, q.body[v])
  BY <1>4, <1>5 DEF SameReservations
<1>7. TellsNoGo(p, q) /\ Shaped(q)
  BY <1>4, <1>5 DEF SameReservations, TellsNoGo
<1>8. NoGo(q)
  BY <1>7, NoGoSame
<1> DEFINE c == q.body[v]
<1>9. /\ c.known = b.known /\ c.gen = f.gen /\ c.cert = "Awaiting" /\ c.brake \in Nat
      /\ b.next <= c.brake /\ c.next \in Nat /\ b.next <= c.next
      /\ ~Granted(c) /\ (HasPlan(c) <=> HasPlan(b)) /\ SamePlan(b.plan, c.plan)
      /\ c.pose = b.pose
  BY <1>2, <1>5, <1>6 DEF SameReservation, AwaitsStop, HasPlan
<1>10. c.brake < c.next
  <2>1. b.brake \in Nat /\ b.brake < b.next /\ b.next \in Nat
    BY DEF Reserves, Suits, BodyOK
  <2>2. /\ c.next \in Nat
        /\ \/ c.cert = e.cert /\ c.brake = e.brake
           \/ c.cert = "Awaiting" /\ c.brake \in Nat /\ c.brake < c.next
    BY <1>6 DEF SameReservation
  <2>3. e.brake = b.brake
    BY <1>0 DEF e, Shaped, BodyFields
  <2> QED
    BY <1>9, <2>1, <2>2, <2>3
<1> HIDE DEF c
<1>11. /\ Suits(X[v], c) /\ KeptFree(X[v], c) = KeptFree(X[v], b)
       /\ \A d : Within(b, d) => Within(c, d)
  <2>1. Suits(X[v], b) /\ c.gen = X[v].s.gen /\ c.gen > b.gen
    BY <1>9 DEF Reserves, Heeds
  <2> QED
    BY <1>9, <1>10, <2>1, RequestSuits
<1>12. \A w \in Vehicle \ {v} : q.body[w] = p.body[w]
  BY <1>4, <1>5
<1>13. \A w \in Vehicle \ {v} : KeptFree(X[v], c) \cap KeptFree(X[w], p.body[w]) = {}
  BY <1>11 DEF Reserves, Apart
<1>14. HasPlan(c) => AllKnown(p)
  <2>1. (\E w \in Vehicle : HasPlan(p.body[w])) => AllKnown(p)
    BY DEF Reserves
  <2> QED
    BY <1>9, <2>1
<1>15. Reserves(X, q)
  <2>1. /\ Suits(X[v], q.body[v]) /\ p.body[v].next <= q.body[v].next
        /\ HasPlan(q.body[v]) => AllKnown(p)
        /\ p.body[v].known => q.body[v].known
        /\ \A d : Within(p.body[v], d) => Within(q.body[v], d)
    BY <1>9, <1>11, <1>14 DEF c
  <2>2. \A w \in Vehicle \ {v} :
          KeptFree(X[v], q.body[v]) \cap KeptFree(X[w], p.body[w]) = {}
    BY <1>13 DEF c
  <2> QED
    BY <1>7, <1>12, <2>1, <2>2, ToldReserves
<1> QED
  BY <1>8, <1>9, <1>12, <1>15 DEF c

LEMMA DesertedReserves ==
  ASSUME NEW X, NEW p, Reserves(X, p), NoGo(p), NEW v \in Vehicle, NEW f,
         NEW q, q = Deserted(p, v, f)
  PROVE  /\ Reserves(X, q) /\ NoGo(q)
         /\ \A w \in Vehicle : SameReservation(p.body[w], q.body[w])
<1> DEFINE z == EmitBrake(p, v, "Replan", {})
           y == [z EXCEPT !.dirty = TRUE]
<1>1. q \in {y, p}
  BY DEF Deserted
<1>2. Shaped(p)
  BY DEF Reserves
<1>3. SameReservations(p, z)
  BY <1>2, BrakeSame
<1> HIDE DEF z
<1>4. SameReservations(z, y)
  BY <1>3, FlagsSame DEF SameReservations
<1>5. SameReservations(p, y) /\ SameReservations(p, p)
  BY <1>2, <1>3, <1>4, SameAgain, SameItself
<1> HIDE DEF y
<1>6. SameReservations(p, q)
  BY <1>1, <1>5
<1>7. Reserves(X, q)
  BY <1>6, ReservesSame
<1> QED
  BY <1>6, <1>7, NoGoSame DEF SameReservations

LEMMA CertifiedReserves ==
  ASSUME NEW X, NEW p, Reserves(X, p), NoGo(p), NEW v \in Vehicle, NEW f, Heeds(X[v], f),
         p.body[v].known, p.body[v].pose = X[v].body, f.gen = p.body[v].gen,
         f.cert, AwaitsStop(p.body[v]), f.ack = p.body[v].brake,
         NEW q, q = Certified(p, v, f)
  PROVE  /\ Reserves(X, q) /\ NoGo(q)
         /\ \A w \in Vehicle : q.body[w].known = p.body[w].known
<1> DEFINE b == p.body[v]
           e == [b EXCEPT !.at = "Unreserved", !.plan = NoPlan, !.cert = "Certified",
                          !.target = f.target, !.last = NewBody.last,
                          !.grants = IF b.budget # f.session THEN 0 ELSE @,
                          !.budget = f.session]
           r == Put(p, v, e)
           h == EmitHold(r, v, "None", {})
           g == IF Participates(b) THEN r ELSE h
<1>0. Shaped(p)
  BY DEF Reserves
<1>1. /\ DOMAIN e = BodyFields /\ e.known = b.known /\ e.gen = b.gen /\ e.cert = "Certified"
      /\ e.brake = b.brake /\ e.next = b.next /\ e.at = "Unreserved" /\ e.pose = b.pose
  BY <1>0 DEF Shaped, BodyFields
<1>2. q = [g EXCEPT !.dirty = TRUE]
  BY DEF Certified
<1> HIDE DEF e
<1>3. Changed(p, r, v, e)
  BY <1>0, PutChanged
<1> HIDE DEF r
<1>4. Suits(X[v], e) /\ KeptFree(X[v], e) \subseteq KeptFree(X[v], b) /\ ~HasPlan(e)
  <2>1. /\ Suits(X[v], b) /\ ~HasPlan(e) /\ X[v].s.cert /\ X[v].s.gen = b.gen
        /\ X[v].s.ack = b.brake /\ X[v].heard
    BY <1>1 DEF Reserves, Heeds, HasPlan
  <2> QED
    BY <1>1, <2>1, CertifiedSuits
<1>5. Reserves(X, r) /\ NoGo(r)
  <2>1. \A w \in Vehicle \ {v} : KeptFree(X[v], e) \cap KeptFree(X[w], p.body[w]) = {}
    BY <1>4 DEF Reserves, Apart
  <2>2. b.next \in Nat
    BY <1>0 DEF Shaped
  <2>3. /\ Suits(X[v], e) /\ p.body[v].next <= e.next
        /\ (HasPlan(e) => AllKnown(p)) /\ (p.body[v].known => e.known)
        /\ (\A d : Within(p.body[v], d) => Within(e, d)) \/ NoGo(p)
    BY <1>1, <1>4, <2>2
  <2>4. Reserves(X, r)
    BY <1>1, <1>3, <2>1, <2>3, ChangedReserves
  <2> QED
    BY <1>3, <2>4 DEF NoGo, Changed
<1>6. Shaped(r)
  BY <1>5 DEF Reserves
<1>7. SameReservations(r, h) /\ SameReservations(r, r)
  BY <1>6, HoldSame, SameItself
<1> HIDE DEF h
<1>8. SameReservations(r, g)
  BY <1>7
<1> HIDE DEF g
<1>9. SameReservations(g, q)
  BY <1>2, <1>8, FlagsSame DEF SameReservations
<1>10. SameReservations(r, q)
  BY <1>6, <1>8, <1>9, SameAgain
<1>11. Reserves(X, q)
  BY <1>5, <1>10, ReservesSame
<1>12. NoGo(q)
  BY <1>5, <1>10, NoGoSame DEF SameReservations
<1>13. \A w \in Vehicle : q.body[w].known = r.body[w].known
  BY <1>10 DEF SameReservations, SameReservation
<1> QED
  BY <1>1, <1>3, <1>11, <1>12, <1>13 DEF Changed

LEMMA ReceivedReserves ==
  ASSUME NEW X, NEW p, Reserves(X, p), NoGo(p), NEW v \in Vehicle, NEW f,
         NEW q, q = Received(p, v, f)
  PROVE  /\ Reserves(X, q) /\ NoGo(q)
         /\ \A w \in Vehicle : SameReservation(p.body[w], q.body[w])
<1> DEFINE b == p.body[v]
           e == [b EXCEPT !.at = "GoReceived"]
           r == Put(p, v, e)
<1>0. Shaped(p)
  BY DEF Reserves
<1>1. q = p \/ (q = r /\ Granted(b))
  BY DEF Received
<1>2. /\ DOMAIN e = BodyFields /\ e.next = b.next /\ e.next \in Nat /\ e.at = "GoReceived"
      /\ \A i \in BodyFields \ {"at"} : e[i] = b[i]
  BY <1>0 DEF Shaped, BodyFields
<1> HIDE DEF e
<1>3. Granted(b) => SameReservation(b, e)
  BY <1>2 DEF SameReservation, SamePlan, HasPlan, Granted, Retiring, BodyFields
<1>4. Changed(p, r, v, e)
  BY <1>0, PutChanged
<1> HIDE DEF r
<1>5. SameReservations(p, q)
  BY <1>0, <1>1, <1>2, <1>3, <1>4, ChangedSame, SameItself
<1>6. Reserves(X, q)
  BY <1>5, ReservesSame
<1> QED
  BY <1>5, <1>6, NoGoSame DEF SameReservations

\* What a vehicle says leaves the promises to it kept, for the planner has not told it to go in
\* the meantime.
LEMMA SyncReserves ==
  ASSUME NEW X, NEW pl, Reserves(X, pl), NoGo(pl), NEW v \in Vehicle, NEW f, Heeds(X[v], f),
         NEW q, q = Sync(pl, v, f)
  PROVE  /\ Reserves(X, q) /\ NoGo(q) /\ q.body[v].known
         /\ \A w \in Vehicle : pl.body[w].known => q.body[w].known
<1> DEFINE b   == pl.body[v]
           new == f.gen > b.gen
           old == b.known /\ (f.gen < b.gen \/ (f.gen = b.gen /\ f.session # b.session))
           m   == Moved(pl, v, f, b)
           u   == f.moving \/ (f.phase = "Moving" /\ ~HasPlan(b))
           s   == Marked(m, v, f.phase, f.available, u)
           i   == [s EXCEPT !.body[v].session = f.session, !.body[v].target = f.target]
           n   == CASE new -> NewRequest(s, v, f)
                    [] ~new /\ ~b.known -> i
                    [] OTHER -> s
           d   == Deserted(n, v, f)
           c   == IF Stopped(d, v, f, new) THEN Certified(d, v, f) ELSE d
<1>1. /\ Shaped(pl) /\ Suits(X[v], b) /\ b.next \in Nat /\ b.gen \in Nat /\ f.gen \in Nat
      /\ b.known \in BOOLEAN /\ (~b.known => b.gen = 0)
  <2>1. Shaped(pl) /\ Suits(X[v], b)
    BY DEF Reserves
  <2>2. X[v].s.gen \in Nat
    BY <2>1 DEF Suits, SessionOK, Sessions
  <2> QED
    BY <2>1, <2>2 DEF Suits, BodyOK, Trail, Heeds
<1>2. /\ old => q = pl
      /\ ~old /\ n.body[v].gen = 0 => q = n
      /\ ~old /\ n.body[v].gen # 0 => q = Received(c, v, f)
  <2>1. q = CASE old -> pl [] ~old /\ n.body[v].gen = 0 -> n [] OTHER -> Received(c, v, f)
    BY DEF Sync, Noted, Renewed, Relieved, Marked
  <2> HIDE DEF old, n, c
  <2> QED
    BY <2>1
<1> HIDE DEF u
<1>3. /\ Replaced(pl, m, v)
      /\ \A k \in BodyFields \ {"pose", "proof"} : m.body[v][k] = b[k]
      /\ m.body[v].pose \in {b.pose, f.pose}
      /\ f.available \/ ~b.known => m.body[v].pose = f.pose
  <2>1. m = Moved(pl, v, f, pl.body[v])
    OBVIOUS
  <2> HIDE DEF m
  <2>2. Placed(pl, m, v, f)
    BY <1>1, <2>1, MovedIs
  <2> QED
    BY <2>2 DEF Placed
<1> HIDE DEF m
<1>4. Sighted(m, s, v, f.available)
  <2>1. Shaped(m)
    BY <1>3 DEF Replaced
  <2> DEFINE x1 == f.phase
             x2 == f.available
  <2>2. s = Marked(m, v, x1, x2, u)
    OBVIOUS
  <2> HIDE DEF s, x1, x2
  <2>3. Sighted(m, s, v, x2)
    BY <2>1, <2>2, MarkedIs
  <2> QED
    BY <2>3 DEF x2
<1>5. n \in {NewRequest(s, v, f), i, s} /\ (new => n = NewRequest(s, v, f))
      /\ (~new => n \in {i, s})
  OBVIOUS
<1> HIDE DEF s
<1>6. /\ Shaped(s) /\ s.out = pl.out /\ \A w \in Vehicle \ {v} : s.body[w] = pl.body[w]
      /\ s.body[v].known /\ s.body[v].known \in BOOLEAN
      /\ \A k \in BodyFields \ {"known", "phase", "available", "uncontrolled", "pose", "proof"} :
           s.body[v][k] = b[k]
      /\ s.body[v].pose \in {b.pose, f.pose}
      /\ f.available \/ ~b.known => s.body[v].pose = f.pose
  BY <1>3, <1>4 DEF Replaced, BodyFields, Sighted
<1> DEFINE a == s.body[v]
<1>7. /\ a.gen = b.gen /\ a.next = b.next /\ a.brake = b.brake /\ a.cert = b.cert /\ a.at = b.at
      /\ a.plan = b.plan /\ a.known = TRUE
  BY <1>6 DEF BodyFields
<1>8. /\ Suits(X[v], a) /\ KeptFree(X[v], a) \subseteq KeptFree(X[v], b)
      /\ \A e : Within(b, e) => Within(a, e)
  <2>1. X[v].heard /\ a.pose \in {b.pose, X[v].body} /\ (b.known \/ a.pose = X[v].body)
    BY <1>1, <1>6 DEF Heeds
  <2> HIDE DEF a, b
  <2> QED
    BY <1>1, <1>7, <2>1, PlacedSuits
<1>9. Reserves(X, s) /\ NoGo(s)
  <2>1. TellsNoGo(pl, s)
    BY <1>6 DEF TellsNoGo
  <2>2. \A w \in Vehicle \ {v} : KeptFree(X[v], s.body[v]) \cap KeptFree(X[w], pl.body[w]) = {}
    BY <1>8 DEF Reserves, Apart
  <2>3. HasPlan(s.body[v]) => AllKnown(pl)
    <3>1. (\E w \in Vehicle : HasPlan(pl.body[w])) => AllKnown(pl)
      BY DEF Reserves
    <3> QED
      BY <1>7, <3>1 DEF HasPlan
  <2>4. Suits(X[v], s.body[v]) /\ pl.body[v].next <= s.body[v].next
        /\ (\A e : Within(pl.body[v], e) => Within(s.body[v], e))
        /\ (pl.body[v].known => s.body[v].known)
    BY <1>1, <1>7, <1>8
  <2>5. Reserves(X, s)
    BY <1>6, <2>1, <2>2, <2>3, <2>4, ToldReserves
  <2> QED
    BY <2>1, <2>5, NoGoSame
<1>10. SameReservations(s, i) /\ i.body[v].gen = b.gen
  <2>1. Shaped(i)
    BY <1>6, FieldsShaped
  <2>2. /\ i.out = s.out /\ \A w \in Vehicle \ {v} : i.body[w] = s.body[w]
    BY <1>6 DEF Shaped, PlannerFields
  <2>3. ASSUME NEW k \in BodyFields \ {"session", "target"} PROVE i.body[v][k] = a[k]
    BY <1>6 DEF Shaped, PlannerFields
  <2> HIDE DEF i
  <2>4. SameReservation(a, i.body[v]) /\ i.body[v].gen = b.gen
    <3>1. a.next \in Nat
      BY <1>1, <1>7
    <3> HIDE DEF a
    <3> QED
      BY <1>7, <2>3, <3>1
         DEF SameReservation, SamePlan, HasPlan, Granted, Retiring, BodyFields
  <2>5. \A w \in Vehicle \ {v} : SameReservation(s.body[w], i.body[w])
    BY <1>6, <2>2 DEF SameReservation, SamePlan, Shaped
  <2>6. TellsNoGo(s, i)
    BY <2>2 DEF TellsNoGo
  <2>7. \A w \in Vehicle : SameReservation(s.body[w], i.body[w])
    BY <2>4, <2>5
  <2>8. i.body[v].gen = b.gen
    BY <2>4
  <2>9. SameReservations(s, i)
    BY <2>1, <2>6, <2>7 DEF SameReservations
  <2> QED
    BY <2>8, <2>9
<1>11. Reserves(X, i) /\ NoGo(i)
  <2> HIDE DEF i
  <2>1. Reserves(X, i)
    BY <1>9, <1>10, ReservesSame
  <2> QED
    BY <1>9, <1>10, <2>1, NoGoSame DEF SameReservations
<1>12. \A w \in Vehicle : i.body[w].known = s.body[w].known
  <2> HIDE DEF i
  <2> QED
    BY <1>10 DEF SameReservations, SameReservation
<1>13. i.body[v].pose = s.body[v].pose
  <2> HIDE DEF i
  <2> QED
    BY <1>10 DEF SameReservations, SameReservation
<1> HIDE DEF i, n
<1>14. /\ Reserves(X, n) /\ NoGo(n)
       /\ \A w \in Vehicle : n.body[w].known = s.body[w].known
  <2>1. CASE new
    <3>1. s.body[v].known /\ f.gen > s.body[v].gen
      BY <1>7, <2>1
    <3> QED
      BY <1>5, <1>9, <2>1, <3>1, RequestReserves
  <2>2. CASE ~new
    BY <1>5, <1>9, <1>11, <1>12, <2>2
  <2> QED
    BY <2>1, <2>2
<1>15. ~new => n.body[v].gen = b.gen /\ n.body[v].pose = s.body[v].pose
  BY <1>5, <1>7, <1>10, <1>13
<1>16. /\ Reserves(X, d) /\ NoGo(d)
       /\ \A w \in Vehicle : SameReservation(n.body[w], d.body[w])
  BY <1>14, DesertedReserves
<1> HIDE DEF d
<1>17. /\ d.body[v].gen = n.body[v].gen /\ d.body[v].pose = n.body[v].pose
       /\ \A w \in Vehicle : d.body[w].known = n.body[w].known
  BY <1>16 DEF SameReservation
<1>18. n.body[v].known /\ \A w \in Vehicle : pl.body[w].known => n.body[w].known
  BY <1>6, <1>14
<1>19. CASE old
  BY <1>2, <1>19
<1>20. CASE ~old /\ n.body[v].gen = 0
  BY <1>2, <1>14, <1>18, <1>20
<1>21. CASE ~old /\ n.body[v].gen # 0
  <2>1. q = Received(c, v, f)
    BY <1>2, <1>21
  <2>2. /\ Reserves(X, c) /\ NoGo(c)
        /\ \A w \in Vehicle : c.body[w].known = d.body[w].known
    <3>1. CASE ~Stopped(d, v, f, new)
      BY <1>16, <3>1
    <3>2. CASE Stopped(d, v, f, new)
      <4>1. ~new /\ f.available /\ AwaitsStop(d.body[v]) /\ f.cert /\ f.ack = d.body[v].brake
        BY <3>2 DEF Stopped
      <4>2. b.gen # 0 /\ b.known /\ f.gen = b.gen
        BY <1>1, <1>15, <1>21, <4>1
      <4>3. d.body[v].known /\ d.body[v].pose = X[v].body /\ f.gen = d.body[v].gen
        BY <1>6, <1>15, <1>17, <1>18, <4>1, <4>2 DEF Heeds
      <4>4. c = Certified(d, v, f)
        BY <3>2
      <4> HIDE DEF c
      <4> QED
        BY <1>16, <4>1, <4>3, <4>4, CertifiedReserves
    <3> QED
      BY <3>1, <3>2
  <2> HIDE DEF c
  <2>3. /\ Reserves(X, q) /\ NoGo(q)
        /\ \A w \in Vehicle : SameReservation(c.body[w], q.body[w])
    BY <2>1, <2>2, ReceivedReserves
  <2>4. \A w \in Vehicle : q.body[w].known = c.body[w].known
    BY <2>3 DEF SameReservation
  <2> QED
    BY <1>17, <1>18, <2>2, <2>3, <2>4
<1> QED
  BY <1>19, <1>20, <1>21

\* What all the vehicles say leaves the promises kept, and who has spoken is known.
LEMMA SyncedReserves ==
  ASSUME NEW X, NEW pl, Reserves(X, pl), NEW facts, DOMAIN facts \subseteq Vehicle,
         \A v \in DOMAIN facts : Heeds(X[v], facts[v]), NEW q, q = Synced(pl, facts)
  PROVE  /\ Reserves(X, q) /\ NoGo(q)
         /\ \A v \in Vehicle : pl.body[v].known \/ v \in DOMAIN facts => q.body[v].known
<1>1. PICK r : /\ r[0] = Fresh(pl) /\ Synced(pl, facts) = r[Len(Fleet)]
               /\ \A i \in 1..Len(Fleet) :
                    r[i] = IF Fleet[i] \in DOMAIN facts
                           THEN Sync(r[i - 1], Fleet[i], facts[Fleet[i]]) ELSE r[i - 1]
  BY SyncedSteps
<1> DEFINE OK(p) == /\ Reserves(X, p) /\ NoGo(p)
                    /\ \A v \in Vehicle : pl.body[v].known => p.body[v].known
           Said(p, k) == \A j \in 1..k : Fleet[j] \in DOMAIN facts => p.body[Fleet[j]].known
           S == {k \in 0..Len(Fleet) : OK(r[k]) /\ Said(r[k], k)}
<1>2. 0 \in S
  <2>1. SameReservations(pl, Fresh(pl)) /\ NoGo(Fresh(pl))
    BY FlagsSame DEF Reserves
  <2>2. Reserves(X, Fresh(pl))
    BY <2>1, ReservesSame
  <2>3. \A v \in Vehicle : pl.body[v].known => Fresh(pl).body[v].known
    BY <2>1 DEF SameReservations, SameReservation
  <2>4. Len(Fleet) \in Nat
    BY FleetMember
  <2> QED
    BY <1>1, <2>1, <2>2, <2>3, <2>4
<1>3. ASSUME NEW i \in 1..Len(Fleet), i - 1 \in S PROVE i \in S
  <2> DEFINE p == r[i - 1]
             v == Fleet[i]
  <2>1. OK(p) /\ Said(p, i - 1)
    BY <1>3
  <2>2. v \in Vehicle /\ i \in 0..Len(Fleet)
        /\ \A j \in 1..(i - 1) : Fleet[j] \in Vehicle
    BY FleetMember
  <2>3. CASE v \in DOMAIN facts
    <3>1. r[i] = Sync(p, v, facts[v])
      BY <1>1, <2>3
    <3> DEFINE x == facts[v]
               t == r[i]
    <3>4. Heeds(X[v], x)
      BY <2>3
    <3>5. t = Sync(p, v, x)
      BY <3>1
    <3> HIDE DEF x, t, p, v
    <3>2. /\ Reserves(X, t) /\ NoGo(t) /\ t.body[v].known
          /\ \A w \in Vehicle : p.body[w].known => t.body[w].known
      BY <2>1, <2>2, <3>4, <3>5, SyncReserves
    <3>3. OK(t)
      BY <2>1, <3>2
    <3>6. Said(t, i)
      <4> SUFFICES ASSUME NEW j \in 1..i, Fleet[j] \in DOMAIN facts
                   PROVE  t.body[Fleet[j]].known
        OBVIOUS
      <4>1. CASE j = i
        BY <3>2, <4>1 DEF v
      <4>2. CASE j # i
        <5>1. j \in 1..(i - 1)
          BY <4>2
        <5> QED
          BY <2>1, <2>2, <3>2, <5>1
      <4> QED
        BY <4>1, <4>2
    <3> QED
      BY <2>2, <3>3, <3>6 DEF t
  <2>4. CASE v \notin DOMAIN facts
    <3>1. r[i] = p
      BY <1>1, <2>4
    <3> HIDE DEF p
    <3>2. Said(r[i], i)
      <4> SUFFICES ASSUME NEW j \in 1..i, Fleet[j] \in DOMAIN facts
                   PROVE  p.body[Fleet[j]].known
        BY <3>1
      <4>1. j # i
        BY <2>4
      <4>2. j \in 1..(i - 1)
        BY <4>1
      <4> QED
        BY <2>1, <4>2
    <3>3. OK(r[i])
      BY <2>1, <3>1
    <3> QED
      BY <2>2, <3>2, <3>3
  <2> QED
    BY <2>3, <2>4
<1> HIDE DEF S
<1>4. Len(Fleet) \in S
  BY <1>2, <1>3, FleetInduction
<1>5. OK(q) /\ Said(q, Len(Fleet))
  BY <1>1, <1>4 DEF S
<1>6. \A v \in DOMAIN facts : q.body[v].known
  <2> SUFFICES ASSUME NEW v \in DOMAIN facts PROVE q.body[v].known
    OBVIOUS
  <2>1. PICK i \in DOMAIN Fleet : v = Fleet[i]
    BY DEF Vehicle
  <2>2. i \in 1..Len(Fleet)
    BY <2>1, FleetAssumption
  <2> QED
    BY <1>5, <2>1, <2>2
<1> QED
  BY <1>5, <1>6

-----------------------------------------------------------------------------
(* What changes no reservation.                                              *)

\* One thing after another for the vehicles.
LEMMA SameAlong ==
  ASSUME NEW r, Shaped(r[0]),
         \A i \in 1..Len(Fleet) : Shaped(r[i - 1]) => SameReservations(r[i - 1], r[i])
  PROVE  SameReservations(r[0], r[Len(Fleet)])
<1> DEFINE S == {k \in 0..Len(Fleet) : SameReservations(r[0], r[k])}
<1>1. 0 \in S
  BY SameItself, FleetMember
<1>2. ASSUME NEW i \in 1..Len(Fleet), i - 1 \in S PROVE i \in S
  <2>1. SameReservations(r[0], r[i - 1])
    BY <1>2
  <2>2. SameReservations(r[i - 1], r[i])
    BY <2>1 DEF SameReservations
  <2>3. SameReservations(r[0], r[i])
    BY <2>1, <2>2, SameAgain
  <2> QED
    BY <2>3, FleetMember
<1> HIDE DEF S
<1>3. Len(Fleet) \in S
  BY <1>1, <1>2, FleetInduction
<1> QED
  BY <1>3 DEF S

\* Nobody awaits another stop either.
Calm(pl, q) ==
  SameReservations(pl, q) /\ \A v \in Vehicle : q.body[v].cert = pl.body[v].cert

LEMMA CalmAgain ==
  ASSUME NEW pl, NEW p, NEW q, Shaped(pl), Calm(pl, p), Calm(p, q)
  PROVE  Calm(pl, q)
BY SameAgain DEF Calm

LEMMA CalmAlong ==
  ASSUME NEW r, Shaped(r[0]),
         \A i \in 1..Len(Fleet) : Shaped(r[i - 1]) => Calm(r[i - 1], r[i])
  PROVE  Calm(r[0], r[Len(Fleet)])
<1> DEFINE S == {k \in 0..Len(Fleet) : Calm(r[0], r[k])}
<1>1. 0 \in S
  BY SameItself, FleetMember DEF Calm
<1>2. ASSUME NEW i \in 1..Len(Fleet), i - 1 \in S PROVE i \in S
  <2>1. Calm(r[0], r[i - 1])
    BY <1>2
  <2>2. Calm(r[i - 1], r[i])
    BY <2>1 DEF SameReservations, Calm
  <2>3. Calm(r[0], r[i])
    BY <2>1, <2>2, CalmAgain
  <2> QED
    BY <2>3, FleetMember
<1> HIDE DEF S
<1>3. Len(Fleet) \in S
  BY <1>1, <1>2, FleetInduction
<1> QED
  BY <1>3 DEF S

LEMMA HoldCalm ==
  ASSUME NEW pl, Shaped(pl), NEW v \in Vehicle, NEW reason, NEW blockers
  PROVE  Calm(pl, EmitHold(pl, v, reason, blockers))
<1> DEFINE p == [pl EXCEPT !.body[v].blockers = blockers]
           d == Decided(p, v, "Hold", reason, blockers)
<1>1. SameReservations(pl, EmitHold(pl, v, reason, blockers))
  BY HoldSame
<1>2. EmitHold(pl, v, reason, blockers) \in {p, d}
  BY DEF EmitHold
<1>3. Shaped(p) /\ \A w \in Vehicle : p.body[w].cert = pl.body[w].cert
  BY DEF Shaped, PlannerFields, BodyFields
<1> HIDE DEF p
<1>4. /\ \A f \in BodyFields \ {"last", "next"} : d.body[v][f] = p.body[v][f]
      /\ \A w \in Vehicle \ {v} : d.body[w] = p.body[w]
  BY <1>3, DecidedBody
<1> HIDE DEF d
<1>5. \A w \in Vehicle : d.body[w].cert = pl.body[w].cert
  BY <1>3, <1>4 DEF BodyFields
<1> QED
  BY <1>1, <1>2, <1>3, <1>5 DEF Calm

LEMMA RejectCalm ==
  ASSUME NEW pl, Shaped(pl), NEW v \in Vehicle, NEW reason, NEW blockers
  PROVE  Calm(pl, EmitReject(pl, v, reason, blockers))
<1> DEFINE r == Retire(pl.body[v])
           c == [r EXCEPT !.rejected = TRUE]
           p == Put(pl, v, c)
           d == Decided(p, v, "Reject", reason, blockers)
<1>1. SameReservations(pl, EmitReject(pl, v, reason, blockers))
  BY RejectSame
<1>2. EmitReject(pl, v, reason, blockers) = d
  BY DEF EmitReject
<1>3. DOMAIN r = BodyFields /\ \A f \in BodyFields \ {"at"} : r[f] = pl.body[v][f]
  BY RetireIs DEF Shaped
<1> HIDE DEF r
<1>4. DOMAIN c = BodyFields /\ c.cert = pl.body[v].cert /\ c.next \in Nat
  BY <1>3 DEF BodyFields, Shaped
<1>5. Changed(pl, p, v, c) /\ Shaped(p)
  <2> HIDE DEF c
  <2> QED
    BY <1>4, PutChanged, PutShaped
<1> HIDE DEF c, p
<1>6. /\ \A f \in BodyFields \ {"last", "next"} : d.body[v][f] = p.body[v][f]
      /\ \A w \in Vehicle \ {v} : d.body[w] = p.body[w]
  BY <1>5, DecidedBody
<1> HIDE DEF d
<1>7. \A w \in Vehicle : d.body[w].cert = pl.body[w].cert
  BY <1>4, <1>5, <1>6 DEF BodyFields, Changed
<1> QED
  BY <1>1, <1>2, <1>7 DEF Calm

LEMMA ChangedCalm ==
  ASSUME NEW pl, Shaped(pl), NEW v \in Vehicle, NEW c, NEW q, Changed(pl, q, v, c),
         DOMAIN c = BodyFields, SameReservation(pl.body[v], c), c.cert = pl.body[v].cert
  PROVE  Calm(pl, q)
BY ChangedSame DEF Calm, Changed

LEMMA FlagsCalm ==
  ASSUME NEW pl, Shaped(pl), NEW v \in Vehicle, NEW x
  PROVE  /\ Calm(pl, [pl EXCEPT !.dirty = x]) /\ Calm(pl, Looked(pl)) /\ Calm(pl, Rested(pl))
         /\ Calm(pl, [pl EXCEPT !.body[v].occupied = x])
         /\ Calm(pl, [pl EXCEPT !.body[v].noRoute = x])
         /\ Calm(pl, [pl EXCEPT !.body[v].blockers = x])
<1>1. Calm(pl, [pl EXCEPT !.dirty = x]) /\ Calm(pl, Looked(pl)) /\ Calm(pl, Rested(pl))
  BY FlagsSame DEF Calm, Shaped, PlannerFields, Looked, Rested
<1> DEFINE c1 == [pl.body[v] EXCEPT !.occupied = x]
           c2 == [pl.body[v] EXCEPT !.noRoute = x]
           c3 == [pl.body[v] EXCEPT !.blockers = x]
           q1 == [pl EXCEPT !.body[v].occupied = x]
           q2 == [pl EXCEPT !.body[v].noRoute = x]
           q3 == [pl EXCEPT !.body[v].blockers = x]
<1>2. /\ DOMAIN c1 = BodyFields /\ SameReservation(pl.body[v], c1)
      /\ DOMAIN c2 = BodyFields /\ SameReservation(pl.body[v], c2)
      /\ DOMAIN c3 = BodyFields /\ SameReservation(pl.body[v], c3)
      /\ c1.cert = pl.body[v].cert /\ c2.cert = pl.body[v].cert /\ c3.cert = pl.body[v].cert
  BY DEF Shaped, SameReservation, SamePlan, BodyFields, HasPlan, Granted, Retiring
<1>3. Changed(pl, q1, v, c1) /\ Changed(pl, q2, v, c2) /\ Changed(pl, q3, v, c3)
  BY DEF Changed, Shaped, PlannerFields
<1>4. Calm(pl, q1) /\ Calm(pl, q2) /\ Calm(pl, q3)
  <2> HIDE DEF c1, c2, c3, q1, q2, q3
  <2> QED
    BY <1>2, <1>3, ChangedCalm
<1> QED
  BY <1>1, <1>4

\* Permissions are ended, and reservations stay.
LEMMA SuspendSame ==
  ASSUME NEW pl, Shaped(pl)
  PROVE  SameReservations(pl, Suspend(pl))
<1>1. PICK r : /\ r[0] = pl /\ Suspend(pl) = r[Len(Fleet)]
               /\ \A i \in 1..Len(Fleet) :
                    r[i] = IF Fleet[i] \in {v \in Vehicle : Granted(pl.body[v])}
                           THEN EmitBrake(r[i - 1], Fleet[i], "SceneUnavailable", {})
                           ELSE r[i - 1]
  BY SuspendSteps
<1>2. ASSUME NEW i \in 1..Len(Fleet), Shaped(r[i - 1])
      PROVE  SameReservations(r[i - 1], r[i])
  BY <1>1, <1>2, FleetMember, BrakeSame, SameItself
<1> QED
  BY <1>1, <1>2, SameAlong

LEMMA RefuseWaitingCalm ==
  ASSUME NEW pl, Shaped(pl)
  PROVE  Calm(pl, RefuseWaiting(pl))
<1>1. PICK r : /\ r[0] = pl /\ RefuseWaiting(pl) = r[Len(Fleet)]
               /\ \A i \in 1..Len(Fleet) :
                    r[i] = IF Fleet[i] \in {v \in Vehicle : Granted(pl.body[v])
                                                            /\ pl.body[v].phase = "Waiting"}
                           THEN EmitReject(r[i - 1], Fleet[i], "Stalled",
                                           r[i - 1].body[Fleet[i]].blockers)
                           ELSE r[i - 1]
  BY RefuseWaitingSteps
<1>2. ASSUME NEW i \in 1..Len(Fleet), Shaped(r[i - 1])
      PROVE  Calm(r[i - 1], r[i])
  BY <1>1, <1>2, FleetMember, RejectCalm, SameItself DEF Calm
<1> QED
  BY <1>1, <1>2, CalmAlong

LEMMA HoldForCalm ==
  ASSUME NEW pl, Shaped(pl), NEW waiting, NEW loose
  PROVE  Calm(pl, HoldFor(pl, waiting, loose))
<1>1. PICK r : /\ r[0] = pl /\ HoldFor(pl, waiting, loose) = r[Len(Fleet)]
               /\ \A i \in 1..Len(Fleet) :
                    r[i] = IF Fleet[i] \in waiting THEN Still(r[i - 1], Fleet[i], loose)
                           ELSE r[i - 1]
  BY HoldForSteps
<1>2. ASSUME NEW i \in 1..Len(Fleet), Shaped(r[i - 1])
      PROVE  Calm(r[i - 1], r[i])
  BY <1>1, <1>2, FleetMember, HoldCalm, SameItself DEF Calm, Still
<1> QED
  BY <1>1, <1>2, CalmAlong

LEMMA RefuseOverlapsCalm ==
  ASSUME NEW pl, Shaped(pl)
  PROVE  Calm(pl, RefuseOverlaps(pl))
<1>1. PICK r : /\ r[0] = pl /\ RefuseOverlaps(pl) = r[Len(Fleet)]
               /\ \A i \in 1..Len(Fleet) :
                    r[i] = IF Fleet[i] \in Clashing(pl)
                           THEN EmitReject(r[i - 1], Fleet[i], "GoalOccupied",
                                           Clashes(pl, Fleet[i]))
                           ELSE r[i - 1]
  BY RefuseOverlapsSteps
<1>2. ASSUME NEW i \in 1..Len(Fleet), Shaped(r[i - 1])
      PROVE  Calm(r[i - 1], r[i])
  BY <1>1, <1>2, FleetMember, RejectCalm, SameItself DEF Calm
<1> QED
  BY <1>1, <1>2, CalmAlong

LEMMA CheckedCalm ==
  ASSUME NEW pl, Shaped(pl), NEW asked, NEW now
  PROVE  Calm(pl, Checked(pl, asked, now))
<1>1. PICK r : /\ r[0] = pl /\ Checked(pl, asked, now) = r[Len(Fleet)]
               /\ \A i \in 1..Len(Fleet) :
                    r[i] = IF Fleet[i] \in asked
                           THEN CheckSession(r[i - 1], Fleet[i], now) ELSE r[i - 1]
  BY CheckedSteps
<1>2. ASSUME NEW p, Shaped(p), NEW v \in Vehicle
      PROVE  Calm(p, CheckSession(p, v, now))
  <2> DEFINE sitting == Sitting(p, v)
             begun   == [p EXCEPT !.body[v].occupied = TRUE]
             freed   == [p EXCEPT !.body[v].occupied = FALSE]
  <2>1. CheckSession(p, v, now) \in
          {EmitReject(p, v, "GoalOccupied", {}), freed,
           EmitReject(p, v, "GoalOccupied", sitting),
           EmitHold(begun, v, "WaitingForPeer", sitting)}
    BY DEF CheckSession
  <2>2. Calm(p, begun) /\ Calm(p, freed)
    BY <1>2, FlagsCalm
  <2> HIDE DEF begun, freed, sitting
  <2>3. Shaped(begun)
    BY <2>2 DEF Calm, SameReservations
  <2>4. Calm(p, EmitHold(begun, v, "WaitingForPeer", sitting))
    BY <1>2, <2>2, <2>3, HoldCalm, CalmAgain
  <2> QED
    BY <1>2, <2>1, <2>2, <2>4, RejectCalm
<1>3. ASSUME NEW i \in 1..Len(Fleet), Shaped(r[i - 1])
      PROVE  Calm(r[i - 1], r[i])
  BY <1>1, <1>2, <1>3, FleetMember, SameItself DEF Calm
<1> QED
  BY <1>1, <1>3, CalmAlong

LEMMA ToldCalm ==
  ASSUME NEW a, Shaped(a.pl), NEW now
  PROVE  Calm(a.pl, Told(a, now).pl)
<1>1. PICK r : /\ r[0] = a.pl /\ Told(a, now) = [pl |-> r[Len(Fleet)], granted |-> a.granted]
               /\ \A i \in 1..Len(Fleet) :
                    r[i] = IF Fleet[i] \in a.held THEN Tell(r[i - 1], Fleet[i], a.why, now)
                           ELSE r[i - 1]
  BY ToldSteps
<1>2. ASSUME NEW p, Shaped(p), NEW v \in Vehicle, NEW w
      PROVE  Calm(p, Explain(p, v, w, now))
  <2> DEFINE x == w.failed
             m == [p EXCEPT !.body[v].noRoute = x]
  <2>1. Explain(p, v, w, now) \in
          {EmitHold(m, v, "WaitingForPeer", w.blockers), EmitReject(m, v, "NoRoute", {}),
           EmitHold(m, v, "NoRoute", {})}
    BY DEF Explain
  <2> HIDE DEF x
  <2>2. Calm(p, m)
    BY <1>2, FlagsCalm
  <2> HIDE DEF m
  <2>3. Shaped(m)
    BY <2>2 DEF Calm, SameReservations
  <2>4. Calm(p, EmitHold(m, v, "WaitingForPeer", w.blockers))
    BY <1>2, <2>2, <2>3, HoldCalm, CalmAgain
  <2>5. Calm(p, EmitReject(m, v, "NoRoute", {}))
    BY <1>2, <2>2, <2>3, RejectCalm, CalmAgain
  <2>6. Calm(p, EmitHold(m, v, "NoRoute", {}))
    BY <1>2, <2>2, <2>3, HoldCalm, CalmAgain
  <2> QED
    BY <2>1, <2>4, <2>5, <2>6
<1>3. ASSUME NEW p, Shaped(p), NEW v \in Vehicle
      PROVE  Calm(p, Tell(p, v, a.why, now))
  BY <1>2, <1>3, SameItself DEF Tell, Calm
<1>4. ASSUME NEW i \in 1..Len(Fleet), Shaped(r[i - 1])
      PROVE  Calm(r[i - 1], r[i])
  BY <1>1, <1>3, <1>4, FleetMember, SameItself DEF Calm
<1>5. Calm(a.pl, r[Len(Fleet)])
  BY <1>1, <1>4, CalmAlong
<1> QED
  BY <1>1, <1>5

LEMMA GiveUpCalm ==
  ASSUME NEW pl, Shaped(pl)
  PROVE  Calm(pl, GiveUp(pl))
<1> DEFINE stuck == Stuck(pl)
<1>1. PICK r : /\ r[0] = pl /\ Deadlock(pl) = r[Len(Fleet)]
               /\ \A i \in 1..Len(Fleet) :
                    r[i] = IF Fleet[i] \in stuck THEN Blame(r[i - 1], Fleet[i], stuck)
                           ELSE r[i - 1]
  BY DeadlockSteps
<1> HIDE DEF stuck
<1>2. ASSUME NEW i \in 1..Len(Fleet), Shaped(r[i - 1])
      PROVE  Calm(r[i - 1], r[i])
  <2> DEFINE p == r[i - 1]
             v == Fleet[i]
  <2>1. ASSUME NEW x PROVE Calm(p, EmitReject(p, v, "Deadlock", x))
    BY <1>2, FleetMember, RejectCalm
  <2>2. Calm(p, Blame(p, v, stuck)) /\ Calm(p, p)
    BY <1>2, <2>1, SameItself DEF Blame, Calm
  <2> QED
    BY <1>1, <2>2
<1>3. Calm(pl, Deadlock(pl))
  BY <1>1, <1>2, CalmAlong
<1> QED
  BY <1>3, SameItself DEF GiveUp, Calm

-----------------------------------------------------------------------------
(* A plan that is followed, and that goes farther.                           *)

\* A planner that keeps its promises, and knows whom it knew.
Keeps(X, pl, q) ==
  Reserves(X, q) /\ \A v \in Vehicle : q.body[v].known = pl.body[v].known

LEMMA KeepsSame ==
  ASSUME NEW X, NEW pl, NEW q, Reserves(X, pl), SameReservations(pl, q)
  PROVE  Keeps(X, pl, q)
BY ReservesSame DEF Keeps, SameReservations, SameReservation

\* What lies behind the place that is known is given back.
LEMMA AdvancedSuits ==
  ASSUME NEW x, NEW b, NEW c, Suits(x, b), HasPlan(b), b.known,
         NEW k \in Nat, b.plan.cursor <= k, k <= Len(b.plan.route.path),
         b.plan.route.path[k] = b.pose,
         HasPlan(c), Granted(c) => Granted(b), c.known = b.known, c.gen = b.gen,
         c.pose = b.pose, c.next = b.next, c.cert = b.cert, c.brake = b.brake,
         DOMAIN c.plan = PlanFields, c.plan.route = b.plan.route, c.plan.lim = b.plan.lim,
         c.plan.gen = b.plan.gen, c.plan.cursor = k
  PROVE  /\ Suits(x, c) /\ KeptFree(x, c) \subseteq KeptFree(x, b)
         /\ \A d : Within(b, d) => Within(c, d)
<1> DEFINE p == b.plan.route.path
<1>1. /\ p \in Path /\ Len(p) \in Nat \ {0} /\ \A i, j \in 1..Len(p) : p[i] = p[j] => i = j
      /\ b.plan.lim \in Nat /\ b.plan.cursor \in Nat \ {0}
  BY PathIs DEF Suits, BodyOK
<1>2. /\ Limit(c) = Limit(b) /\ Limit(b) \in Nat /\ Limit(b) <= Len(p)
      /\ Way(b) \subseteq 1..Len(p) /\ Way(c) = k..Limit(b) /\ Way(b) = b.plan.cursor..Limit(b)
  BY <1>1 DEF Limit, Way, Lesser
<1> HIDE DEF p
<1>3. ASSUME NEW y, Before(b, b.pose, y)
      PROVE  \E j \in Way(c) : p[j] = y /\ k \in Way(c)
  <2>1. PICK i, j \in Way(b) : i <= j /\ p[i] = b.pose /\ p[j] = y
    BY <1>3 DEF Before, p
  <2>2. i = k
    <3>1. k \in 1..Len(p) /\ i \in 1..Len(p) /\ p[i] = p[k]
      BY <1>1, <1>2, <2>1 DEF p
    <3> QED
      BY <1>1, <3>1
  <2> QED
    BY <1>1, <1>2, <2>1, <2>2
<1>4. ASSUME NEW y, NEW z, Before(b, b.pose, y), Before(b, y, z) PROVE Before(c, y, z)
  <2>1. PICK j \in Way(c) : p[j] = y
    BY <1>3, <1>4
  <2>2. PICK i, m \in Way(b) : i <= m /\ p[i] = y /\ p[m] = z
    BY <1>4 DEF Before, p
  <2>3. i = j
    <3>1. j \in 1..Len(p) /\ i \in 1..Len(p)
      BY <1>1, <1>2, <2>1, <2>2
    <3> QED
      BY <1>1, <2>1, <2>2, <3>1
  <2>4. m \in Way(c)
    BY <1>1, <1>2, <2>2, <2>3
  <2> QED
    BY <2>1, <2>2, <2>3, <2>4 DEF Before, p
<1>5. ASSUME NEW y, Before(b, b.pose, y) PROVE Before(c, c.pose, y)
  <2>1. PICK j \in Way(c) : p[j] = y /\ k \in Way(c)
    BY <1>3, <1>5
  <2> QED
    BY <1>2, <2>1 DEF Before, p
<1>6. /\ x.heard /\ Before(b, b.pose, x.body) /\ Before(b, b.pose, x.pos)
      /\ \A i \in DOMAIN x.up : Before(b, b.pose, x.up[i].pose)
  BY DEF Suits, Trail
<1>7. Trail(x, c)
  <2>1. \A i \in DOMAIN x.up : Before(c, x.up[i].pose, x.pos)
    BY <1>4, <1>6 DEF Suits, Trail
  <2>2. \A i, j \in DOMAIN x.up : i < j => Before(c, x.up[i].pose, x.up[j].pose)
    BY <1>4, <1>6 DEF Suits, Trail
  <2>3. /\ x.body = x.s.pose /\ Before(c, x.body, x.pos)
        /\ \A i \in DOMAIN x.up : Before(c, x.body, x.up[i].pose)
    BY <1>4, <1>6 DEF Suits, Trail
  <2>4. /\ Before(c, c.pose, x.body) /\ Before(c, c.pose, x.pos)
        /\ \A i \in DOMAIN x.up : Before(c, c.pose, x.up[i].pose)
    BY <1>5, <1>6
  <2> QED
    BY <1>6, <2>1, <2>2, <2>3, <2>4 DEF Trail
<1>8. Rights(x, c)
  <2>1. PICK i \in Way(b) :
            /\ x.pos = p[i] /\ i + Len(x.ahead) <= Limit(b)
            /\ \A j \in 1..Len(x.ahead) : x.ahead[j] = p[i + j]
    BY DEF Suits, Rights, p
  <2>2. PICK j \in Way(c) : p[j] = x.pos
    BY <1>3, <1>6
  <2>3. i = j
    <3>1. j \in 1..Len(p) /\ i \in 1..Len(p)
      BY <1>1, <1>2, <2>1, <2>2
    <3> QED
      BY <1>1, <2>1, <2>2, <3>1
  <2> QED
    BY <1>2, <2>1, <2>2, <2>3 DEF Suits, Rights, p
<1>9. k <= Limit(b) /\ k \in Nat \ {0}
  <2>1. k \in Way(c)
    BY <1>3, <1>6
  <2> QED
    BY <1>1, <1>2, <2>1
<1>10. BodyOK(c)
  BY <1>1, <1>2, <1>9 DEF Suits, BodyOK, p
<1>11. Suits(x, c) /\ \A d : Within(b, d) => Within(c, d)
  <2>1. b.plan.lim <= c.plan.lim
    BY <1>1
  <2> QED
    BY <1>7, <1>8, <1>10, <2>1, SuitsLonger
<1>12. Reserved(c.plan) \subseteq Reserved(b.plan)
  <2>1. \A i \in k..Limit(b) : i \in b.plan.cursor..Limit(b)
    BY <1>1, <1>2
  <2> QED
    BY <2>1 DEF Reserved, Limit
<1>13. KeptFree(x, c) \subseteq KeptFree(x, b)
  BY <1>12 DEF KeptFree, Holding
<1> QED
  BY <1>11, <1>13

LEMMA AdvanceKeeps ==
  ASSUME NEW X, NEW pl, Reserves(X, pl), NEW v \in Vehicle, NEW q, q = Advance(pl, v)
  PROVE  Keeps(X, pl, q)
<1> DEFINE b  == pl.body[v]
           at == {i \in b.plan.cursor..Len(b.plan.route.path) : b.plan.route.path[i] = b.pose}
           k  == CHOOSE i \in at : TRUE
           c  == [b EXCEPT !.plan.cursor = k]
<1>1. CASE ~(b.at = "GoReceived" /\ at # {})
  <2>1. q = pl
    BY <1>1 DEF Advance
  <2> QED
    BY <2>1 DEF Keeps
<1>2. CASE b.at = "GoReceived" /\ at # {}
  <2>1. q = Put(pl, v, c)
    BY <1>2 DEF Advance
  <2>2. k \in at
    BY <1>2
  <2>3. /\ Shaped(pl) /\ Suits(X[v], b) /\ HasPlan(b) /\ DOMAIN b.plan = PlanFields
        /\ b.plan.cursor \in Nat /\ Len(b.plan.route.path) \in Nat /\ DOMAIN b = BodyFields
        /\ b.known /\ AllKnown(pl)
    <3>1. HasPlan(b) /\ Suits(X[v], b) /\ Shaped(pl)
      BY <1>2 DEF HasPlan, Reserves
    <3>2. b.plan.route.path \in Path /\ DOMAIN b.plan = PlanFields /\ b.plan.cursor \in Nat
      BY <3>1 DEF Suits, BodyOK
    <3>3. AllKnown(pl)
      BY <3>1 DEF Reserves
    <3> QED
      BY <3>1, <3>2, <3>3, PathIs DEF Shaped, AllKnown
  <2> HIDE DEF k, b
  <2>4. /\ k \in Nat /\ b.plan.cursor <= k /\ k <= Len(b.plan.route.path)
        /\ b.plan.route.path[k] = b.pose
    BY <2>2, <2>3
  <2> HIDE DEF at
  <2> USE DEF b
  <2>5. /\ DOMAIN c = BodyFields /\ \A f \in BodyFields \ {"plan"} : c[f] = b[f]
        /\ c.plan = [b.plan EXCEPT !.cursor = k]
    BY <2>3 DEF BodyFields
  <2> HIDE DEF c
  <2>6. /\ DOMAIN c.plan = PlanFields /\ c.plan.route = b.plan.route
        /\ c.plan.lim = b.plan.lim /\ c.plan.gen = b.plan.gen /\ c.plan.cursor = k
    BY <2>3, <2>5 DEF PlanFields
  <2>7. /\ HasPlan(c) /\ (Granted(c) => Granted(b)) /\ c.known = b.known /\ c.gen = b.gen
        /\ c.pose = b.pose /\ c.next = b.next /\ c.cert = b.cert /\ c.brake = b.brake
    BY <2>3, <2>5 DEF BodyFields, HasPlan, Granted, Retiring
  <2>8. /\ Suits(X[v], c) /\ KeptFree(X[v], c) \subseteq KeptFree(X[v], b)
        /\ \A d : Within(b, d) => Within(c, d)
    <3> DEFINE x == X[v]
    <3> HIDE DEF x, b
    <3> QED
      BY <2>3, <2>4, <2>6, <2>7, AdvancedSuits DEF x
  <2>9. Changed(pl, q, v, c)
    BY <2>1, <2>3, PutChanged
  <2>10. \A w \in Vehicle \ {v} : KeptFree(X[v], c) \cap KeptFree(X[w], pl.body[w]) = {}
    BY <2>8 DEF Reserves, Apart
  <2>11. pl.body[v].next <= c.next
    BY <2>3, <2>7 DEF Shaped
  <2>12. Reserves(X, q)
    BY <2>3, <2>5, <2>7, <2>8, <2>9, <2>10, <2>11, ChangedReserves
  <2> QED
    BY <2>7, <2>9, <2>12 DEF Keeps, Changed
<1> QED
  BY <1>1, <1>2

\* Up to the first violation that is soft, a path is free of everybody else.
LEMMA ClearIs ==
  ASSUME NEW pl, AllKnown(pl), NEW v \in Vehicle, NEW path, NEW n \in Nat, Len(path) = n,
         NEW from \in Nat \ {0}, NEW viol, viol = FirstViolation(pl, v, path, from), ~viol.hard
  PROVE  /\ viol.at = 0 \/ viol.at \in from..n
         /\ \A i \in from..n : viol.at = 0 \/ i < viol.at =>
              \A w \in Vehicle \ {v} : path[i] \notin Holding(pl.body[w])
<1> DEFINE rest == from..n
           hard == {i \in rest : path[i] \in pl.world \/ Blocking(pl, v, path[i]) # {}}
           soft == {i \in rest : Holds(pl, Movers(pl, v), path[i]) # {}}
<1>1. viol = Violation(pl, v, path, hard, soft)
  BY DEF FirstViolation
<1>2. ASSUME NEW i \in rest, i \notin hard, i \notin soft, NEW w \in Vehicle \ {v}
      PROVE  path[i] \notin Holding(pl.body[w])
  <2>1. w \in Standing(pl, v) \cup Frozen(pl, v) \cup Movers(pl, v)
    BY DEF AllKnown, Standing, Frozen, Movers, Others, Granted
  <2>2. /\ w \in Standing(pl, v) \cup Frozen(pl, v) => path[i] \notin Holding(pl.body[w])
        /\ w \in Movers(pl, v) => path[i] \notin Holding(pl.body[w])
    BY <1>2 DEF Blocking, Holds
  <2> QED
    BY <2>1, <2>2
<1> HIDE DEF hard, soft
<1>3. hard = {}
  BY <1>1 DEF Violation
<1>4. CASE soft = {}
  <2>1. viol.at = 0
    BY <1>1, <1>3, <1>4 DEF Violation
  <2> QED
    BY <1>2, <1>3, <1>4, <2>1
<1>5. CASE soft # {}
  <2>1. viol.at = Least(soft)
    BY <1>1, <1>3, <1>5 DEF Violation
  <2>2. soft \subseteq rest /\ rest \subseteq Nat
    BY DEF soft
  <2>3. Least(soft) \in soft /\ \A k \in soft : Least(soft) <= k
    BY <1>5, <2>2, LeastIn
  <2>5. Least(soft) \in Nat \ {0} /\ rest \subseteq Nat \ {0}
    <3>1. rest \subseteq Nat \ {0}
      OBVIOUS
    <3> HIDE DEF rest
    <3> QED
      BY <2>2, <2>3, <3>1
  <2> HIDE DEF rest
  <2>4. ASSUME NEW i \in rest, viol.at = 0 \/ i < viol.at PROVE i \notin soft
    <3> DEFINE l == Least(soft)
    <3>1. l \in Nat \ {0} /\ i \in Nat /\ i < l /\ \A k \in soft : l <= k
      BY <2>1, <2>3, <2>4, <2>5
    <3> HIDE DEF l
    <3> QED
      BY <3>1
  <2> QED
    BY <1>2, <1>3, <2>1, <2>2, <2>3, <2>4 DEF rest
<1> QED
  BY <1>4, <1>5

\* Where that violation is somebody else keeps a place.
LEMMA BlockedIs ==
  ASSUME NEW pl, NEW v \in Vehicle, NEW path, NEW n \in Nat, Len(path) = n,
         NEW from \in Nat \ {0}, NEW viol, viol = FirstViolation(pl, v, path, from),
         ~viol.hard, viol.at # 0
  PROVE  \E w \in Vehicle \ {v} : pl.body[w].known /\ path[viol.at] \in Holding(pl.body[w])
<1> DEFINE rest == from..n
           hard == {i \in rest : path[i] \in pl.world \/ Blocking(pl, v, path[i]) # {}}
           soft == {i \in rest : Holds(pl, Movers(pl, v), path[i]) # {}}
<1>1. viol = Violation(pl, v, path, hard, soft)
  BY DEF FirstViolation
<1>2. ASSUME NEW i \in soft
      PROVE  \E w \in Vehicle \ {v} : pl.body[w].known /\ path[i] \in Holding(pl.body[w])
  BY <1>2 DEF Holds, Movers, Others
<1>3. soft \subseteq rest /\ rest \subseteq Nat
  OBVIOUS
<1> HIDE DEF hard, soft
<1>4. hard = {} /\ soft # {}
  BY <1>1 DEF Violation
<1>5. viol.at = Least(soft)
  BY <1>1, <1>4 DEF Violation
<1>6. Least(soft) \in soft
  BY <1>3, <1>4, LeastIn
<1> QED
  BY <1>2, <1>5, <1>6

\* A plan with a limit that lies farther off.
LEMMA FartherSuits ==
  ASSUME NEW x, NEW b, NEW c, Suits(x, b), Granted(b), HasPlan(c), c.known = b.known,
         c.gen = b.gen, c.pose = b.pose, c.next = b.next, c.cert = b.cert, c.brake = b.brake,
         DOMAIN c.plan = PlanFields, c.plan.route = b.plan.route, c.plan.gen = b.plan.gen,
         c.plan.cursor = b.plan.cursor, c.plan.lim \in Nat, b.plan.lim <= c.plan.lim
  PROVE  Suits(x, c) /\ \A d : Within(b, d) => Within(c, d)
<1> DEFINE p == b.plan.route.path
<1>1. /\ HasPlan(b) /\ Len(p) \in Nat /\ b.plan.lim \in Nat /\ b.plan.cursor \in Nat \ {0}
      /\ b.plan.cursor <= Limit(b)
  BY PathIs DEF Suits, BodyOK, Granted
<1>2. /\ Limit(b) \in Nat /\ Limit(c) \in Nat /\ Limit(b) <= Limit(c) /\ Way(b) \subseteq Way(c)
      /\ b.plan.cursor <= Limit(c)
  <2>1. Limit(b) \in Nat /\ Limit(c) \in Nat /\ Limit(b) <= Limit(c)
    BY <1>1 DEF Limit, Lesser
  <2>2. Way(b) = b.plan.cursor..Limit(b) /\ Way(c) = b.plan.cursor..Limit(c)
    BY DEF Way
  <2> QED
    BY <1>1, <2>1, <2>2
<1>3. \A y, z : Before(b, y, z) => Before(c, y, z)
  BY <1>1, <1>2 DEF Before
<1>4. BodyOK(c)
  BY <1>1, <1>2 DEF Suits, BodyOK
<1>5. Trail(x, c)
  BY <1>1, <1>3 DEF Suits, Trail
<1>6. Rights(x, c)
  <2>1. /\ x.ahead \in Seq(Cell)
        /\ \E i \in Way(b) :
            /\ x.pos = p[i] /\ i + Len(x.ahead) <= Limit(b)
            /\ \A j \in 1..Len(x.ahead) : x.ahead[j] = p[i + j]
    BY <1>1 DEF Suits, Rights
  <2>2. PICK i \in Way(b) :
            /\ x.pos = p[i] /\ i + Len(x.ahead) <= Limit(b)
            /\ \A j \in 1..Len(x.ahead) : x.ahead[j] = p[i + j]
    BY <2>1
  <2>3. Len(x.ahead) \in Nat /\ i \in Int
    BY <1>1, <1>2, <2>1 DEF Way
  <2>4. i + Len(x.ahead) <= Limit(c) /\ i \in Way(c)
    BY <1>2, <2>2, <2>3
  <2> QED
    BY <2>1, <2>2, <2>4 DEF Rights
<1> QED
  BY <1>1, <1>4, <1>5, <1>6, SuitsLonger

\* A plan as far as the next conflict keeps nothing that is kept for anybody else.
LEMMA GrantedKept ==
  ASSUME NEW pl, NEW X, Reserves(X, pl), AllKnown(pl), NEW v \in Vehicle, NEW path,
         NEW n \in Nat, Len(path) = n, NEW from \in Nat \ {0}, NEW viol,
         viol = FirstViolation(pl, v, path, from), ~viol.hard,
         NEW c, c.known, HasPlan(c), c.pose = pl.body[v].pose, c.plan.route.path = path,
         c.plan.cursor = from, c.plan.lim \in Nat, viol.at = 0 \/ c.plan.lim < viol.at,
         NEW w \in Vehicle \ {v}
  PROVE  KeptFree(X[v], c) \cap KeptFree(X[w], pl.body[w]) = {}
<1> DEFINE b == pl.body[v]
<1>2. /\ KeptFree(X[w], pl.body[w]) = Holding(pl.body[w]) /\ KeptFree(X[v], c) = Holding(c)
      /\ b.pose \notin Holding(pl.body[w])
  <2>1. /\ KeptFree(X[w], pl.body[w]) = Holding(pl.body[w]) /\ KeptFree(X[v], c) = Holding(c)
        /\ KeptFree(X[v], b) = Holding(b)
    BY DEF KeptFree, AllKnown
  <2>2. KeptFree(X[v], b) \cap KeptFree(X[w], pl.body[w]) = {}
    BY DEF Reserves, Apart
  <2> QED
    BY <2>1, <2>2 DEF Holding
<1>3. Holding(c) = {b.pose} \cup {path[i] : i \in from..Lesser(c.plan.lim, n)}
  BY DEF Holding, Reserved
<1>4. ASSUME NEW i \in from..Lesser(c.plan.lim, n) PROVE path[i] \notin Holding(pl.body[w])
  <2>1. i \in from..n /\ i <= c.plan.lim
    BY DEF Lesser
  <2>2. viol.at = 0 \/ viol.at \in from..n
    BY ClearIs
  <2>3. viol.at = 0 \/ i < viol.at
    BY <2>1, <2>2
  <2> QED
    BY <2>1, <2>3, ClearIs
<1> QED
  BY <1>2, <1>3, <1>4

LEMMA KeepsAgain ==
  ASSUME NEW X, NEW pl, NEW p, NEW q, Keeps(X, pl, p), Keeps(X, p, q)
  PROVE  Keeps(X, pl, q)
BY DEF Keeps

LEMMA KeepsAlong ==
  ASSUME NEW X, NEW r, Reserves(X, r[0]),
         \A i \in 1..Len(Fleet) : Reserves(X, r[i - 1]) => Keeps(X, r[i - 1], r[i])
  PROVE  Keeps(X, r[0], r[Len(Fleet)])
<1> DEFINE S == {k \in 0..Len(Fleet) : Keeps(X, r[0], r[k])}
<1>1. 0 \in S
  BY FleetMember DEF Keeps
<1>2. ASSUME NEW i \in 1..Len(Fleet), i - 1 \in S PROVE i \in S
  <2>1. Keeps(X, r[0], r[i - 1])
    BY <1>2
  <2>2. Keeps(X, r[i - 1], r[i])
    BY <2>1 DEF Keeps
  <2>3. Keeps(X, r[0], r[i])
    BY <2>1, <2>2, KeepsAgain
  <2> QED
    BY <2>3, FleetMember
<1> HIDE DEF S
<1>3. Len(Fleet) \in S
  BY <1>1, <1>2, FleetInduction
<1> QED
  BY <1>3 DEF S

\* A route is granted as far as the next conflict.
LEMMA ExtendedKeeps ==
  ASSUME NEW X, NEW pl, Reserves(X, pl), NEW v \in Vehicle, Granted(pl.body[v]),
         NEW b, b = pl.body[v], NEW viol,
         viol = FirstViolation(pl, v, b.plan.route.path, b.plan.cursor),
         NEW q, q = Extended(pl, v, viol)
  PROVE  Keeps(X, pl, q)
<1> DEFINE next == IF viol.at = 0 THEN Unlimited ELSE Greater(b.plan.lim, viol.at - 1)
           reason == IF viol.world THEN "SceneChanged" ELSE "Replan"
           h  == EmitBrake(pl, v, reason, viol.blockers)
           q1 == [h EXCEPT !.dirty = TRUE]
           c  == [b EXCEPT !.plan.lim = next, !.at = "AwaitGo"]
           p  == Put(pl, v, c)
           s  == viol.blockers
           e  == [b EXCEPT !.blockers = s]
           q4 == Put(pl, v, e)
<1>1. /\ Shaped(pl) /\ Suits(X[v], b) /\ HasPlan(b) /\ AllKnown(pl) /\ DOMAIN b = BodyFields
      /\ DOMAIN b.plan = PlanFields /\ b.plan.lim \in Nat /\ b.plan.cursor \in Nat \ {0}
      /\ b.plan.route.path \in Path /\ b.next \in Nat
  <2>1. Shaped(pl) /\ Suits(X[v], b) /\ HasPlan(b) /\ AllKnown(pl)
    BY DEF Reserves, Granted
  <2> QED
    BY <2>1 DEF Suits, BodyOK, Shaped
<1>2. CASE viol.hard /\ (b.phase = "Waiting" \/ pl.changed)
  <2>1. q = q1
    BY <1>2 DEF Extended
  <2> HIDE DEF reason
  <2>2. SameReservations(pl, h)
    BY <1>1, BrakeSame
  <2> HIDE DEF h
  <2>3. SameReservations(h, q1)
    BY <2>2, FlagsSame DEF SameReservations
  <2>4. SameReservations(pl, q1)
    BY <1>1, <2>2, <2>3, SameAgain
  <2> QED
    BY <2>1, <2>4, KeepsSame
<1>3. CASE /\ ~(viol.hard /\ (b.phase = "Waiting" \/ pl.changed))
           /\ viol.hard \/ b.plan.lim >= Len(b.plan.route.path) \/ b.at # "GoReceived"
  <2>1. q = pl
    BY <1>3 DEF Extended
  <2> QED
    BY <2>1 DEF Keeps
<1>4. CASE /\ ~viol.hard /\ b.at = "GoReceived" /\ ~(b.plan.lim >= Len(b.plan.route.path))
           /\ next > b.plan.lim
  <2>1. q = EmitGo(p, v)
    BY <1>4 DEF Extended
  <2>2. next \in Nat /\ (viol.at = 0 \/ next < viol.at)
    <3>1. Len(b.plan.route.path) \in Nat
      BY <1>1, PathIs
    <3>2. viol.at = 0 \/ viol.at \in b.plan.cursor..Len(b.plan.route.path)
      BY <1>1, <1>4, <3>1, ClearIs
    <3>3. next > b.plan.lim
      BY <1>4
    <3>4. CASE viol.at = 0
      BY <3>4, UnlimitedAssumption
    <3>5. CASE viol.at # 0
      <4>1. viol.at \in Nat /\ next = Greater(b.plan.lim, viol.at - 1)
        BY <1>1, <3>1, <3>2, <3>5
      <4> HIDE DEF next
      <4> QED
        <5> DEFINE l == b.plan.lim
                   k == viol.at
        <5>1. k \in Nat /\ k # 0 /\ l \in Nat /\ next = Greater(l, k - 1) /\ next > l
          BY <1>1, <3>3, <3>5, <4>1
        <5> HIDE DEF k, l
        <5>2. next \in Nat /\ next < k
          BY <5>1 DEF Greater
        <5> QED
          BY <5>2 DEF k
    <3> QED
      BY <3>4, <3>5
  <2> HIDE DEF next
  <2>3. /\ DOMAIN c = BodyFields /\ \A f \in BodyFields \ {"plan", "at"} : c[f] = b[f]
        /\ c.plan = [b.plan EXCEPT !.lim = next] /\ c.at = "AwaitGo"
    BY <1>1 DEF BodyFields
  <2> HIDE DEF c
  <2>4. /\ DOMAIN c.plan = PlanFields /\ c.plan.route = b.plan.route /\ c.plan.lim = next
        /\ c.plan.gen = b.plan.gen /\ c.plan.cursor = b.plan.cursor
    BY <1>1, <2>3 DEF PlanFields
  <2>5. /\ HasPlan(c) /\ Granted(c) /\ c.known = b.known /\ c.gen = b.gen
        /\ c.pose = b.pose /\ c.next = b.next /\ c.cert = b.cert /\ c.brake = b.brake
    BY <2>3 DEF BodyFields, HasPlan, Granted, Retiring
  <2>6. Suits(X[v], c) /\ \A d : Within(b, d) => Within(c, d)
    <3> DEFINE x == X[v]
    <3>1. c.plan.lim \in Nat /\ b.plan.lim <= c.plan.lim
      <4>1. next > b.plan.lim
        BY <1>4
      <4> QED
        BY <1>1, <2>2, <2>4, <4>1
    <3> HIDE DEF x
    <3> QED
      BY <1>1, <2>4, <2>5, <3>1, FartherSuits DEF x
  <2>7. \A w \in Vehicle \ {v} : KeptFree(X[v], c) \cap KeptFree(X[w], pl.body[w]) = {}
    <3>1. c.plan.lim \in Nat /\ (viol.at = 0 \/ c.plan.lim < viol.at)
      BY <2>2, <2>4
    <3>2. HasPlan(c) /\ ~viol.hard
      BY <1>4, <2>5
    <3> SUFFICES ASSUME NEW w \in Vehicle \ {v}
                 PROVE  KeptFree(X[v], c) \cap KeptFree(X[w], pl.body[w]) = {}
      OBVIOUS
    <3> DEFINE path == b.plan.route.path
               n == Len(path)
               from == b.plan.cursor
    <3>3. /\ c.known /\ c.pose = pl.body[v].pose /\ c.plan.route.path = path
          /\ c.plan.cursor = from /\ AllKnown(pl) /\ n \in Nat /\ Len(path) = n
          /\ from \in Nat \ {0} /\ viol = FirstViolation(pl, v, path, from)
      BY <1>1, <2>4, <2>5, PathIs DEF AllKnown
    <3> HIDE DEF path, n, from
    <3> QED
      BY <3>1, <3>2, <3>3, GrantedKept
  <2>8. Changed(pl, p, v, c)
    BY <1>1, PutChanged
  <2>9. Reserves(X, p)
    <3>1. pl.body[v].next <= c.next
      BY <1>1, <2>5
    <3> HIDE DEF p
    <3> QED
      BY <1>1, <2>3, <2>5, <2>6, <2>7, <2>8, <3>1, ChangedReserves
  <2>10. /\ Granted(p.body[v]) /\ \A w \in Vehicle : p.body[w].known = pl.body[w].known
    BY <2>5, <2>8 DEF Changed
  <2> HIDE DEF p
  <2>11. Reserves(X, EmitGo(p, v)) /\ SameReservations(p, p)
         /\ \A w \in Vehicle : SameReservation(p.body[w], EmitGo(p, v).body[w])
    BY <2>9, <2>10, GoReserves, SameItself DEF Reserves
  <2> QED
    BY <2>1, <2>10, <2>11 DEF Keeps, SameReservation
<1>5. CASE /\ ~viol.hard /\ b.at = "GoReceived" /\ ~(b.plan.lim >= Len(b.plan.route.path))
           /\ ~(next > b.plan.lim)
  <2>1. q = q4
    BY <1>5 DEF Extended
  <2> HIDE DEF s
  <2>2. DOMAIN e = BodyFields /\ SameReservation(b, e)
    BY <1>1 DEF SameReservation, SamePlan, BodyFields, HasPlan, Granted, Retiring
  <2> HIDE DEF e
  <2>3. Changed(pl, q4, v, e)
    BY <1>1, PutChanged
  <2> HIDE DEF q4
  <2>4. SameReservations(pl, q4)
    BY <1>1, <2>2, <2>3, ChangedSame
  <2> QED
    BY <2>1, <2>4, KeepsSame
<1> QED
  BY <1>2, <1>3, <1>4, <1>5

LEMMA ExtendKeeps ==
  ASSUME NEW X, NEW pl, Reserves(X, pl), NEW v \in Vehicle, NEW q, q = Extend(pl, v)
  PROVE  Keeps(X, pl, q)
<1> DEFINE b == pl.body[v]
           viol == FirstViolation(pl, v, b.plan.route.path, b.plan.cursor)
           t == Granted(b) /\ (b.plan.lim < Len(b.plan.route.path) \/ pl.changed)
<1>1. q = IF t THEN Extended(pl, v, viol) ELSE pl
  BY DEF Extend
<1>2. CASE t
  <2>1. Granted(b)
    BY <1>2
  <2>2. q = Extended(pl, v, viol)
    BY <1>1, <1>2
  <2> HIDE DEF viol, t
  <2>3. viol = FirstViolation(pl, v, b.plan.route.path, b.plan.cursor)
    BY DEF viol
  <2> QED
    BY <2>1, <2>2, <2>3, ExtendedKeeps
<1>3. CASE ~t
  BY <1>1, <1>3 DEF Keeps
<1> QED
  BY <1>2, <1>3

\* The plans that are under way are followed, extended or revoked.
LEMMA CarriedKeeps ==
  ASSUME NEW X, NEW pl, Reserves(X, pl), NEW admit, NEW now
  PROVE  Keeps(X, pl, Carried(pl, admit, now))
<1> DEFINE s == IF admit THEN pl ELSE Suspend(pl)
           a == Advanced(s)
           m == Verified(a)
           late == now.stall /\ ~Progressed(s)
           u == Stall(m, late)
<1>0. Carried(pl, admit, now) = IF now.extend THEN u ELSE a
  BY DEF Carried, Permitted, UpdateMovers
<1>1. Keeps(X, pl, s)
  <2>1. Keeps(X, pl, Suspend(pl))
    BY SuspendSame, KeepsSame DEF Reserves
  <2> QED
    BY <2>1 DEF Keeps
<1> HIDE DEF s
<1>2. Keeps(X, s, a)
  <2>1. PICK r : /\ r[0] = s /\ Advanced(s) = r[Len(Fleet)]
                 /\ \A i \in 1..Len(Fleet) :
                      r[i] = IF Fleet[i] \in Vehicle THEN Advance(r[i - 1], Fleet[i])
                             ELSE r[i - 1]
    BY AdvancedSteps
  <2>2. ASSUME NEW i \in 1..Len(Fleet), Reserves(X, r[i - 1]) PROVE Keeps(X, r[i - 1], r[i])
    BY <2>1, <2>2, FleetMember, AdvanceKeeps
  <2> QED
    BY <1>1, <2>1, <2>2, KeepsAlong DEF Keeps
<1> HIDE DEF a
<1>3. Keeps(X, a, m)
  <2>1. PICK r : /\ r[0] = a /\ Verified(a) = Rested(r[Len(Fleet)])
                 /\ \A i \in 1..Len(Fleet) :
                      r[i] = IF Fleet[i] \in Vehicle THEN Extend(r[i - 1], Fleet[i])
                             ELSE r[i - 1]
    BY VerifiedSteps
  <2>2. ASSUME NEW i \in 1..Len(Fleet), Reserves(X, r[i - 1]) PROVE Keeps(X, r[i - 1], r[i])
    BY <2>1, <2>2, FleetMember, ExtendKeeps
  <2> DEFINE e == r[Len(Fleet)]
  <2>3. Keeps(X, a, e)
    BY <1>2, <2>1, <2>2, KeepsAlong DEF Keeps
  <2> HIDE DEF e
  <2>4. SameReservations(e, Rested(e))
    BY <2>3, FlagsSame DEF Keeps, Reserves
  <2>5. Keeps(X, e, Rested(e))
    BY <2>3, <2>4, KeepsSame DEF Keeps
  <2>6. Keeps(X, a, Rested(e))
    BY <2>3, <2>5, KeepsAgain
  <2> QED
    BY <2>1, <2>6 DEF e
<1> HIDE DEF m
<1>4. Keeps(X, m, u)
  <2> DEFINE w == RefuseWaiting(m)
             d == [w EXCEPT !.dirty = TRUE]
  <2>1. Reserves(X, m) /\ Shaped(m)
    BY <1>3 DEF Keeps, Reserves
  <2>2. SameReservations(m, w)
    BY <2>1, RefuseWaitingCalm DEF Calm
  <2> HIDE DEF w
  <2>3. SameReservations(w, d)
    BY <2>2, FlagsSame DEF SameReservations
  <2>4. SameReservations(m, d) /\ SameReservations(m, m)
    BY <2>1, <2>2, <2>3, SameAgain, SameItself
  <2>5. u \in {d, m}
    BY DEF Stall, w
  <2> HIDE DEF d, u
  <2>6. Keeps(X, m, d) /\ Keeps(X, m, m)
    BY <2>1, <2>4, KeepsSame
  <2> QED
    BY <2>5, <2>6
<1> HIDE DEF u
<1>5. Keeps(X, pl, a) /\ Keeps(X, pl, u)
  BY <1>1, <1>2, <1>3, <1>4, KeepsAgain
<1> QED
  BY <1>0, <1>5

-----------------------------------------------------------------------------
(* A plan that is new.                                                       *)

\* A vehicle that stands, with a plan that begins where it is.
LEMMA PlannedSuits ==
  ASSUME NEW x, NEW b, NEW c, Suits(x, b), b.known, ~HasPlan(b), b.cert = "Certified",
         Granted(c), c.known = b.known, c.gen = b.gen, c.pose = b.pose, c.next = b.next,
         c.cert = b.cert, c.brake = b.brake,
         DOMAIN c.plan = PlanFields, c.plan.route.path \in Path,
         c.plan.route.path[1] = b.pose, c.plan.gen = b.gen, c.plan.cursor = 1,
         c.plan.lim \in Nat \ {0}
  PROVE  Suits(x, c) /\ \A d : Within(b, d) => Within(c, d)
<1> DEFINE p == c.plan.route.path
<1>1. /\ HasPlan(c) /\ ~AwaitsStop(c) /\ ~AwaitsStop(b) /\ Len(p) \in Nat \ {0}
      /\ b.gen \in Nat
  BY PathIs DEF Granted, AwaitsStop, Suits, BodyOK
<1>2. /\ Limit(c) \in Nat /\ 1 <= Limit(c) /\ Way(c) = 1..Limit(c) /\ 1 \in Way(c)
  BY <1>1 DEF Limit, Way, Lesser
<1>3. BodyOK(c)
  BY <1>1, <1>2 DEF Suits, BodyOK
<1>4. Before(c, b.pose, b.pose)
  BY <1>1, <1>2 DEF Before
<1>5. /\ x.heard /\ b.pose = x.body /\ b.pose = x.pos
      /\ \A i \in DOMAIN x.up : x.up[i].pose = b.pose
  BY DEF Suits, Trail, Before
<1>6. Trail(x, c)
  BY <1>1, <1>4, <1>5 DEF Suits, Trail
<1>7. Rights(x, c)
  <2>1. x.ahead = <<>> /\ x.ahead \in Seq(Cell)
    BY DEF Suits, Rights
  <2>2. Len(x.ahead) = 0
    BY <2>1
  <2>3. 1 + Len(x.ahead) <= Limit(c) /\ 1..Len(x.ahead) = {}
    BY <1>2, <2>2
  <2> QED
    BY <1>1, <1>2, <1>5, <2>1, <2>3 DEF Rights
<1>8. Obeys(x, c)
  <2>1. Obeys(x, b)
    BY DEF Suits
  <2>2. Confirmed(x, c) => Confirmed(x, b)
    BY DEF Confirmed
  <2>3. x.e.perm.at # "Executing" /\ x.e.perm.deferred.st # "Go"
    BY <2>1 DEF Obeys, Within
  <2> QED
    BY <1>1, <2>1, <2>2, <2>3 DEF Obeys
<1>9. \A d \in x.ds : DecisionOK(x, c, d)
  BY DEF Suits, DecisionOK, Within
<1>10. \A s \in Sessions(x) : SessionOK(x, c, s)
  BY <1>1 DEF Suits, SessionOK
<1>11. Suits(x, c)
  BY <1>3, <1>6, <1>7, <1>8, <1>9, <1>10 DEF Suits
<1> QED
  BY <1>11 DEF Within

\* A vehicle was tried: it may have a plan now, and nobody else has one that had none.
Tries(X, p, q, v) ==
  /\ Keeps(X, p, q)
  /\ \A w \in Vehicle :
       /\ HasPlan(p.body[w]) => HasPlan(q.body[w])
       /\ HasPlan(q.body[w]) \/ q.body[w].cert = p.body[w].cert
       /\ w # v => (HasPlan(q.body[w]) <=> HasPlan(p.body[w]))

LEMMA CalmTries ==
  ASSUME NEW X, NEW p, NEW q, Reserves(X, p), Calm(p, q), NEW v
  PROVE  Tries(X, p, q, v)
BY KeepsSame DEF Tries, Calm, SameReservations, SameReservation

LEMMA GoOthers ==
  ASSUME NEW pl, Shaped(pl), NEW v \in Vehicle, DOMAIN pl.body[v].plan = PlanFields,
         HasPlan(pl.body[v])
  PROVE  \A w \in Vehicle \ {v} : EmitGo(pl, v).body[w] = pl.body[w]
<1> DEFINE q == EmitGo(pl, v)
           n == Len(pl.out) + 1
<1>1. /\ Shaped(q)
      /\ \A w \in Vehicle \ {v} : q.body[w] = pl.body[w]
      /\ SameReservation(pl.body[v], q.body[v])
      /\ DOMAIN q.out = 1..n /\ DOMAIN pl.out = 1..(n - 1) /\ n \in Nat \ {0}
  BY GoIs, Zenon
<1> QED
  BY <1>1

LEMMA InstallTries ==
  ASSUME NEW X, NEW pl, Reserves(X, pl), AllKnown(pl), NEW v \in Vehicle,
         ~HasPlan(pl.body[v]), pl.body[v].cert = "Certified",
         NEW goal, NEW final, NEW cand, cand = PlanRoute(pl, v, goal, final), cand.ok,
         NEW q, q = InstallPlan(pl, v, cand)
  PROVE  Tries(X, pl, q, v)
<1> DEFINE b    == pl.body[v]
           plan == [route |-> cand.route, lim |-> cand.lim, id |-> b.next,
                    cursor |-> 1, session |-> b.session, gen |-> b.gen]
           c    == [b EXCEPT !.at = "AwaitGo", !.grants = @ + 1, !.blockers = {},
                             !.noRoute = FALSE, !.plan = plan]
           m    == Put(pl, v, c)
           r    == EmitReject(pl, v, "NoRoute", {})
           g    == EmitGo(m, v)
<1>1. q \in {r, g}
  BY DEF InstallPlan
<1>2. Shaped(pl) /\ Suits(X[v], b) /\ DOMAIN b = BodyFields /\ b.known /\ b.next \in Nat
  BY DEF Reserves, Shaped, AllKnown
<1>3. Tries(X, pl, r, v)
  BY <1>2, RejectCalm, CalmTries
<1> HIDE DEF r
<1>4. PICK path \in Found(pl.world, pl.body[v].pose, goal) : Planned(pl, v, path, final, cand)
  BY PlanRouteIs
<1>5. /\ path \in Path /\ path[1] = b.pose /\ Len(path) \in Nat \ {0}
      /\ cand.route.path = path
  BY <1>4, PathIs DEF Found, Planned
<1> DEFINE viol == FirstViolation(pl, v, path, 1)
           n == Len(path)
<1>6. ~viol.hard /\ (viol.at = 0 \/ cand.lim < viol.at) /\ cand.lim \in Nat \ {0}
  <2>1. ~viol.hard /\ \/ viol.at = 0 /\ cand.lim = Unlimited
                      \/ viol.at # 0 /\ cand.lim = viol.at - 1
    BY <1>4 DEF Planned
  <2>2. CASE viol.at = 0
    <3>1. Cardinality(Cell) \in Nat
      BY CellAssumption, FS_CardinalityType
    <3>2. Cardinality(Cell) # 0
      <4>1. b.pose \in Cell
        BY <1>5, PathIs
      <4> QED
        BY <4>1, CellAssumption, FS_EmptySet
    <3> QED
      BY <2>1, <2>2, <3>1, <3>2, UnlimitedAssumption
  <2>3. CASE viol.at # 0
    <3> DEFINE k == viol.at
    <3>0. 1 \in Nat \ {0} /\ n \in Nat /\ viol = FirstViolation(pl, v, path, 1) /\ Len(path) = n
      BY <1>5
    <3> HIDE DEF viol, n
    <3>1. k \in 1..n
      BY <2>1, <2>3, <3>0, ClearIs
    <3>2. PICK w \in Vehicle \ {v} : pl.body[w].known /\ path[k] \in Holding(pl.body[w])
      BY <2>1, <2>3, <3>0, BlockedIs
    <3>3. b.pose \notin Holding(pl.body[w])
      <4>1. KeptFree(X[v], b) \cap KeptFree(X[w], pl.body[w]) = {}
        BY DEF Reserves, Apart
      <4> QED
        BY <1>2, <3>2, <4>1 DEF KeptFree, Holding
    <3>4. k # 1
      BY <1>5, <3>2, <3>3
    <3>5. cand.lim = k - 1 /\ ~viol.hard
      BY <2>1, <2>3
    <3> HIDE DEF k
    <3>6. cand.lim \in Nat \ {0} /\ cand.lim < k
      BY <3>0, <3>1, <3>4, <3>5
    <3> QED
      BY <3>5, <3>6 DEF k
  <2> QED
    BY <2>2, <2>3
<1>7. /\ DOMAIN plan = PlanFields /\ plan.route = cand.route /\ plan.lim = cand.lim
      /\ plan.gen = b.gen /\ plan.cursor = 1
  BY DEF PlanFields
<1> HIDE DEF plan
<1>8. /\ DOMAIN c = BodyFields /\ c.plan = plan /\ c.at = "AwaitGo"
      /\ \A f \in BodyFields \ {"at", "grants", "blockers", "noRoute", "plan"} : c[f] = b[f]
  BY <1>2 DEF BodyFields
<1> HIDE DEF c
<1>9. /\ Granted(c) /\ HasPlan(c) /\ c.known = b.known /\ c.gen = b.gen /\ c.pose = b.pose
      /\ c.next = b.next /\ c.cert = b.cert /\ c.brake = b.brake
  BY <1>8 DEF BodyFields, Granted, HasPlan, Retiring
<1>10. Suits(X[v], c) /\ \A d : Within(b, d) => Within(c, d)
  <2> DEFINE x == X[v]
  <2>1. /\ DOMAIN c.plan = PlanFields /\ c.plan.route.path \in Path
        /\ c.plan.route.path[1] = b.pose /\ c.plan.gen = b.gen /\ c.plan.cursor = 1
        /\ c.plan.lim \in Nat \ {0}
    BY <1>5, <1>6, <1>7, <1>8
  <2> HIDE DEF x
  <2> QED
    BY <1>2, <1>9, <2>1, PlannedSuits DEF x
<1>11. ASSUME NEW w \in Vehicle \ {v}
       PROVE  KeptFree(X[v], c) \cap KeptFree(X[w], pl.body[w]) = {}
  <2> DEFINE from == 1
  <2>1. /\ c.known /\ c.plan.route.path = path /\ c.plan.cursor = from
        /\ c.plan.lim \in Nat /\ (viol.at = 0 \/ c.plan.lim < viol.at)
    BY <1>2, <1>5, <1>6, <1>7, <1>8, <1>9
  <2>2. from \in Nat \ {0} /\ n \in Nat /\ viol = FirstViolation(pl, v, path, from) /\ Len(path) = n
    BY <1>5
  <2>3. ~viol.hard /\ HasPlan(c) /\ c.pose = pl.body[v].pose
    BY <1>6, <1>9
  <2>4. AllKnown(pl) /\ Reserves(X, pl)
    OBVIOUS
  <2> HIDE DEF viol, n, b, from, c
  <2> QED
    BY ONLY <2>1, <2>2, <2>3, <2>4, GrantedKept, v \in Vehicle, w \in Vehicle \ {v}
<1>12. Changed(pl, m, v, c)
  BY <1>2, PutChanged
<1> HIDE DEF m
<1>13. Reserves(X, m)
  <2>1. pl.body[v].next <= c.next
    BY <1>2, <1>9
  <2> QED
    BY <1>2, <1>8, <1>9, <1>10, <1>11, <1>12, <2>1, ChangedReserves
<1>14. /\ Granted(m.body[v]) /\ m.body[v] = c
       /\ \A w \in Vehicle \ {v} : m.body[w] = pl.body[w]
  BY <1>9, <1>12 DEF Changed
<1>15. /\ Reserves(X, g) /\ \A w \in Vehicle : SameReservation(m.body[w], g.body[w])
  BY <1>13, <1>14, GoReserves
<1>16. \A w \in Vehicle \ {v} : g.body[w] = m.body[w]
  <2>1. Shaped(m) /\ DOMAIN m.body[v].plan = PlanFields /\ HasPlan(m.body[v])
    BY <1>7, <1>8, <1>9, <1>13, <1>14 DEF Reserves
  <2> QED
    BY <2>1, GoOthers
<1> HIDE DEF g
<1>17. Tries(X, pl, g, v)
  <2>1. \A w \in Vehicle : g.body[w].known = pl.body[w].known
    BY <1>9, <1>14, <1>15 DEF SameReservation
  <2>2. HasPlan(g.body[v])
    BY <1>9, <1>14, <1>15 DEF SameReservation
  <2>3. \A w \in Vehicle \ {v} : g.body[w] = pl.body[w]
    BY <1>14, <1>16
  <2> QED
    BY <1>15, <2>1, <2>2, <2>3 DEF Tries, Keeps
<1> QED
  BY <1>1, <1>3, <1>17

-----------------------------------------------------------------------------
(* The passes over the waiting.                                              *)

LEMMA TryTries ==
  ASSUME NEW X, NEW a, PassShaped(a), Reserves(X, a.pl), AllKnown(a.pl), NEW v \in Vehicle,
         ~HasPlan(a.pl.body[v]), a.pl.body[v].cert = "Certified", NEW wary,
         NEW b, b = Try(a, v, wary)
  PROVE  Tries(X, a.pl, b.pl, v)
<1> DEFINE cand == PlanRoute(a.pl, v, a.pl.body[v].target, TRUE)
           w == [failed |-> cand.failed, blockers |-> cand.blockers]
           h == [a EXCEPT !.held = @ \cup {v}, !.why[v] = w]
           q == EmitReject(a.pl, v, "TooSlow", {})
           i == InstallPlan(a.pl, v, cand)
           t == Taken(a, v, i)
<1>1. b \in {h, [a EXCEPT !.pl = q]} \/ (b = t /\ cand.ok)
  BY DEF Try, Tried
<1>2. cand.ok => Tries(X, a.pl, i, v)
  BY InstallTries
<1>3. Shaped(a.pl) /\ DOMAIN a = PassFields
  BY DEF PassShaped
<1>4. Tries(X, a.pl, q, v)
  BY <1>3, RejectCalm, CalmTries
<1>5. Tries(X, a.pl, a.pl, v)
  BY DEF Tries, Keeps
<1> HIDE DEF w, q, i
<1>6. h.pl = a.pl /\ [a EXCEPT !.pl = q].pl = q
  BY <1>3 DEF PassFields
<1>7. t.pl = i
  <2> DEFINE n == a.granted + (IF HasPlan(i.body[v]) THEN 1 ELSE 0)
  <2>1. t = [a EXCEPT !.pl = i, !.granted = n]
    BY DEF Taken
  <2> HIDE DEF n, t
  <2> QED
    BY <1>3, <2>1 DEF PassFields
<1> HIDE DEF h, t, cand
<1> QED
  BY <1>1, <1>2, <1>4, <1>5, <1>6, <1>7

\* The waiting can be planned, or have been.
Undecided(X, p, waiting) ==
  /\ Reserves(X, p) /\ AllKnown(p)
  /\ \A w \in waiting : HasPlan(p.body[w]) \/ p.body[w].cert = "Certified"

LEMMA TriesOpen ==
  ASSUME NEW X, NEW p, NEW q, NEW waiting, waiting \subseteq Vehicle, Undecided(X, p, waiting),
         NEW v \in Vehicle, Tries(X, p, q, v)
  PROVE  Undecided(X, q, waiting) /\ Keeps(X, p, q)
<1>1. Keeps(X, p, q) /\ AllKnown(q)
  BY DEF Tries, Keeps, Undecided, AllKnown
<1>2. ASSUME NEW w \in waiting PROVE HasPlan(q.body[w]) \/ q.body[w].cert = "Certified"
  BY DEF Tries, Undecided
<1> QED
  BY <1>1, <1>2 DEF Undecided, Keeps

LEMMA FirstTryTries ==
  ASSUME NEW X, NEW a, PassShaped(a), NEW waiting, waiting \subseteq Vehicle,
         Undecided(X, a.pl, waiting), NEW v \in waiting, ~HasPlan(a.pl.body[v]), NEW by,
         NEW b, b = FirstTry(a, v, by)
  PROVE  PassShaped(b) /\ Tries(X, a.pl, b.pl, v)
<1>0. /\ Shaped(a.pl) /\ DOMAIN a = PassFields /\ v \in Vehicle /\ Reserves(X, a.pl)
      /\ AllKnown(a.pl) /\ a.pl.body[v].cert = "Certified"
  BY DEF PassShaped, Undecided
<1> DEFINE h == EmitHold(a.pl, v, "Precedence", by[v])
           t == Try(a, v, FALSE)
<1>1. b \in {[a EXCEPT !.pl = h], t}
  BY DEF FirstTry
<1>2. Calm(a.pl, h)
  BY <1>0, HoldCalm
<1> HIDE DEF h
<1>3. Tries(X, a.pl, h, v) /\ Shaped(h)
  BY <1>0, <1>2, CalmTries DEF Calm, SameReservations
<1>4. PassShaped([a EXCEPT !.pl = h]) /\ [a EXCEPT !.pl = h].pl = h
  BY <1>0, <1>3, PutPass DEF PassFields
<1>5. PassShaped(t)
  BY <1>0, TryShaped
<1>6. Tries(X, a.pl, t.pl, v)
  BY <1>0, TryTries
<1> HIDE DEF t
<1> QED
  BY <1>1, <1>3, <1>4, <1>5, <1>6

LEMMA SecondTryTries ==
  ASSUME NEW X, NEW a, PassShaped(a), NEW waiting, waiting \subseteq Vehicle,
         Undecided(X, a.pl, waiting), NEW v \in waiting, NEW inCycle,
         NEW b, b = SecondTry(a, v, inCycle)
  PROVE  PassShaped(b) /\ Tries(X, a.pl, b.pl, v)
<1>0. v \in Vehicle /\ Reserves(X, a.pl) /\ AllKnown(a.pl)
  BY DEF Undecided
<1> DEFINE busy == Busy(a)
           t == Try(a, v, busy)
<1>1. b = a \/ (b = t /\ ~HasPlan(a.pl.body[v]))
  BY DEF SecondTry
<1> HIDE DEF busy
<1>2. Tries(X, a.pl, a.pl, v)
  BY <1>0 DEF Tries, Keeps
<1>3. PassShaped(t)
  BY <1>0, TryShaped
<1>4. ASSUME ~HasPlan(a.pl.body[v]) PROVE Tries(X, a.pl, t.pl, v)
  <2>1. a.pl.body[v].cert = "Certified"
    BY <1>4 DEF Undecided
  <2> QED
    BY <1>0, <1>4, <2>1, TryTries
<1> HIDE DEF t
<1> QED
  BY <1>1, <1>2, <1>3, <1>4

\* A pass so far.
PassOpen(X, p, a, waiting) == PassShaped(a) /\ Undecided(X, a.pl, waiting) /\ Keeps(X, p, a.pl)

LEMMA PassesKeep ==
  ASSUME NEW X, NEW pl, NEW waiting, waiting \subseteq Vehicle, Undecided(X, pl, waiting),
         \A w \in waiting : ~HasPlan(pl.body[w]), NEW a, a = Passes(pl, waiting)
  PROVE  PassShaped(a) /\ Keeps(X, pl, a.pl)
<1>1. ASSUME NEW by, NEW f, f = FirstPass(pl, waiting, by) PROVE PassOpen(X, pl, f, waiting)
  <2>1. PICK r : /\ r[0] = NewPass(pl, waiting) /\ FirstPass(pl, waiting, by) = r[Len(Fleet)]
                 /\ \A i \in 1..Len(Fleet) :
                      r[i] = IF Fleet[i] \in waiting THEN FirstTry(r[i - 1], Fleet[i], by)
                                                     ELSE r[i - 1]
    BY FirstPassSteps, SMTT(30)
  <2> DEFINE Fresher(i) == \A j \in (i + 1)..Len(Fleet) :
                             Fleet[j] \in waiting => ~HasPlan(r[i].pl.body[Fleet[j]])
             S == {i \in 0..Len(Fleet) : PassOpen(X, pl, r[i], waiting) /\ Fresher(i)}
  <2>2. PassShaped(NewPass(pl, waiting)) /\ NewPass(pl, waiting).pl = pl
    BY DEF PassShaped, NewPass, PassFields, Undecided, Reserves
  <2>3. 0 \in S
    <3>1. Keeps(X, pl, pl)
      BY DEF Keeps, Undecided
    <3>2. Fresher(0)
      BY <2>1, <2>2, FleetMember
    <3> QED
      BY <2>1, <2>2, <3>1, <3>2, FleetMember DEF PassOpen
  <2>5. ASSUME NEW i \in 1..Len(Fleet), i - 1 \in S PROVE i \in S
    <3> DEFINE b == r[i - 1]
               c == r[i]
               v == Fleet[i]
    <3>1. PassOpen(X, pl, b, waiting) /\ i \in 0..Len(Fleet) /\ v \in Vehicle /\ i \in Nat \ {0}
          /\ Len(Fleet) \in Nat
      BY <2>5, FleetMember
    <3>2. \A j \in i..Len(Fleet) : Fleet[j] \in waiting => ~HasPlan(b.pl.body[Fleet[j]])
      BY <2>5
    <3>3. CASE v \notin waiting
      <4>1. c = b
        BY <2>1, <3>3
      <4>2. Fresher(i)
        BY <3>1, <3>2, <4>1
      <4> QED
        BY <3>1, <4>1, <4>2
    <3>4. CASE v \in waiting
      <4>1. c = FirstTry(b, v, by) /\ ~HasPlan(b.pl.body[v])
        BY <2>1, <3>1, <3>2, <3>4
      <4>2. PassShaped(b) /\ Undecided(X, b.pl, waiting) /\ Keeps(X, pl, b.pl)
        BY <3>1 DEF PassOpen
      <4> HIDE DEF b, c, v
      <4>3. PassShaped(c) /\ Tries(X, b.pl, c.pl, v)
        BY <3>4, <4>1, <4>2, FirstTryTries
      <4>4. PassOpen(X, pl, c, waiting)
        BY <3>1, <4>2, <4>3, TriesOpen, KeepsAgain DEF PassOpen
      <4>5. ASSUME NEW j \in (i + 1)..Len(Fleet), Fleet[j] \in waiting
            PROVE  ~HasPlan(c.pl.body[Fleet[j]])
        <5>1. j \in DOMAIN Fleet /\ i \in DOMAIN Fleet /\ i # j /\ j \in i..Len(Fleet)
          BY <3>1, FleetAssumption
        <5>2. Fleet[j] # v /\ Fleet[j] \in Vehicle
          BY <5>1, FleetAssumption DEF v, Vehicle
        <5>3. ~HasPlan(b.pl.body[Fleet[j]])
          BY <3>2, <4>5, <5>1
        <5> QED
          BY <4>3, <5>2, <5>3 DEF Tries
      <4> QED
        BY <3>1, <4>4, <4>5 DEF c
    <3> QED
      BY <3>3, <3>4
  <2>6. Len(Fleet) \in S
    <3> HIDE DEF S
    <3> QED
      BY <2>3, <2>5, FleetInduction
  <2> QED
    BY <1>1, <2>1, <2>6
<1>2. ASSUME NEW f, PassOpen(X, pl, f, waiting), NEW inCycle,
             NEW b, b = SecondPass(f, waiting, inCycle)
      PROVE  PassOpen(X, pl, b, waiting)
  <2>1. PICK r : /\ r[0] = f /\ SecondPass(f, waiting, inCycle) \in {f, r[Len(Fleet)]}
                 /\ \A i \in 1..Len(Fleet) :
                      r[i] = IF Fleet[i] \in waiting THEN SecondTry(r[i - 1], Fleet[i], inCycle)
                                                     ELSE r[i - 1]
    BY SecondPassSteps
  <2> DEFINE S == {i \in 0..Len(Fleet) : PassOpen(X, pl, r[i], waiting)}
  <2>3. 0 \in S
    BY <1>2, <2>1, FleetMember
  <2>5. ASSUME NEW i \in 1..Len(Fleet), i - 1 \in S PROVE i \in S
    <3> DEFINE d == r[i - 1]
               c == r[i]
               v == Fleet[i]
    <3>1. PassOpen(X, pl, d, waiting) /\ i \in 0..Len(Fleet) /\ v \in Vehicle
      BY <2>5, FleetMember
    <3>2. c = IF v \in waiting THEN SecondTry(d, v, inCycle) ELSE d
      BY <2>1
    <3>3. PassShaped(d) /\ Undecided(X, d.pl, waiting) /\ Keeps(X, pl, d.pl)
      BY <3>1 DEF PassOpen
    <3> HIDE DEF d, c, v
    <3>4. ASSUME v \in waiting PROVE PassOpen(X, pl, c, waiting)
      <4>1. PassShaped(c) /\ Tries(X, d.pl, c.pl, v)
        BY <3>2, <3>3, <3>4, SecondTryTries
      <4> QED
        BY <3>1, <3>3, <4>1, TriesOpen, KeepsAgain DEF PassOpen
    <3>5. PassOpen(X, pl, c, waiting)
      BY <3>1, <3>2, <3>4
    <3> QED
      BY <3>1, <3>5 DEF c
  <2>6. Len(Fleet) \in S
    <3> HIDE DEF S
    <3> QED
      BY <2>3, <2>5, FleetInduction
  <2> QED
    BY <1>2, <2>1, <2>6
<1> DEFINE by == [v \in waiting |-> Deferrers(pl, v, waiting)]
           inCycle == {v \in waiting : by[v] # {} /\ \A w \in by[v] : by[w] # {}}
           f == FirstPass(pl, waiting, by)
<1>3. a = SecondPass(f, waiting, inCycle)
  BY DEF Passes
<1> HIDE DEF by, inCycle
<1>4. PassOpen(X, pl, f, waiting)
  BY <1>1
<1> HIDE DEF f
<1>5. PassOpen(X, pl, a, waiting)
  BY <1>2, <1>3, <1>4
<1> QED
  BY <1>5 DEF PassOpen

\* The waiting are admitted.
LEMMA AdmitCheckedKeeps ==
  ASSUME NEW X, NEW pl, Reserves(X, pl), AllKnown(pl), NEW asked, asked \subseteq Vehicle,
         \A v \in asked : pl.body[v].cert = "Certified" /\ ~HasPlan(pl.body[v]), NEW now,
         NEW a, a = AdmitChecked(pl, asked, now)
  PROVE  Keeps(X, pl, a.pl)
<1> DEFINE waiting == {v \in asked : ~pl.body[v].rejected}
           loose   == {v \in Vehicle : pl.body[v].uncontrolled}
           h       == HoldFor(pl, waiting, loose)
           f       == Passes(pl, waiting)
           t       == Told(f, now)
<1>1. a \in {[pl |-> pl, granted |-> 0], [pl |-> h, granted |-> 0], t}
  BY DEF AdmitChecked
<1>2. /\ waiting \subseteq Vehicle /\ \A w \in waiting : ~HasPlan(pl.body[w])
      /\ \A w \in waiting : pl.body[w].cert = "Certified"
  OBVIOUS
<1> HIDE DEF waiting, loose
<1>3. Keeps(X, pl, pl)
  BY DEF Keeps
<1>4. Keeps(X, pl, h)
  <2>1. Calm(pl, h)
    BY HoldForCalm DEF Reserves
  <2> HIDE DEF h
  <2> QED
    BY <2>1, KeepsSame DEF Calm
<1> HIDE DEF h
<1>5. PassShaped(f) /\ Keeps(X, pl, f.pl)
  <2>1. Undecided(X, pl, waiting)
    BY <1>2 DEF Undecided
  <2> QED
    BY <1>2, <2>1, PassesKeep
<1> HIDE DEF f
<1>6. Keeps(X, pl, t.pl)
  <2>1. Calm(f.pl, t.pl)
    BY <1>5, ToldCalm DEF PassShaped
  <2> HIDE DEF t
  <2>2. Keeps(X, f.pl, t.pl)
    BY <1>5, <2>1, KeepsSame DEF Calm, Keeps
  <2> QED
    BY <1>5, <2>2, KeepsAgain
<1> HIDE DEF t
<1> QED
  BY <1>1, <1>3, <1>4, <1>6

LEMMA AdmitKeeps ==
  ASSUME NEW X, NEW pl, Reserves(X, pl), AllKnown(pl), NEW now, NEW a, a = Admit(pl, now)
  PROVE  Keeps(X, pl, a.pl)
<1> DEFINE asked == {v \in Vehicle : Waits(pl.body[v])}
           c == Checked(pl, asked, now)
           q == RefuseOverlaps(c)
<1>1. a = AdmitChecked(q, asked, now)
  BY DEF Admit
<1>2. /\ asked \subseteq Vehicle
      /\ \A v \in asked : pl.body[v].cert = "Certified" /\ ~HasPlan(pl.body[v])
  BY DEF Waits, Plannable
<1> HIDE DEF asked
<1>3. Calm(pl, c) /\ Shaped(pl)
  BY CheckedCalm DEF Reserves
<1> HIDE DEF c
<1>4. Calm(c, q)
  BY <1>3, RefuseOverlapsCalm DEF Calm, SameReservations
<1> HIDE DEF q
<1>5. Calm(pl, q)
  BY <1>3, <1>4, CalmAgain
<1>6. Keeps(X, pl, q)
  BY <1>5, KeepsSame DEF Calm
<1>7. /\ Reserves(X, q) /\ AllKnown(q)
      /\ \A v \in asked : q.body[v].cert = "Certified" /\ ~HasPlan(q.body[v])
  BY <1>2, <1>5, <1>6 DEF Keeps, AllKnown, Calm, SameReservations, SameReservation
<1>8. Keeps(X, q, a.pl)
  BY <1>1, <1>2, <1>7, AdmitCheckedKeeps
<1> QED
  BY <1>6, <1>8, KeepsAgain

\* One that is stuck is put aside, or those that are stuck are refused.
LEMMA UnblockKeeps ==
  ASSUME NEW X, NEW pl, Reserves(X, pl), AllKnown(pl), NEW u, u = Unblock(pl)
  PROVE  Keeps(X, pl, u)
<1>0. Shaped(pl) /\ Keeps(X, pl, pl)
  BY DEF Reserves, Keeps
<1>1. ASSUME NEW p, Reserves(X, p), NEW g, g = GiveUp(p) PROVE Keeps(X, p, g)
  <2>1. Calm(p, g)
    BY <1>1, GiveUpCalm DEF Reserves
  <2> QED
    BY <1>1, <2>1, KeepsSame DEF Calm
<1> DEFINE moves == ParkingMoves(pl)
           best == CHOOSE m \in moves : \A n \in moves : Better(m, n)
           v == best.vehicle
           cand == best.cand
           q == InstallPlan(pl, v, cand)
           k == Park(pl, moves)
<1>2. k = IF moves = {} THEN GiveUp(pl) ELSE Parked(q, v)
  BY DEF Park, Better
<1>3. moves # {} => best \in moves
  BY BestMove
<1>4. u \in {k, pl}
  BY DEF Unblock
<1> HIDE DEF best, k
<1>5. ASSUME moves # {} PROVE Keeps(X, pl, q)
  <2>1. /\ v \in Vehicle /\ Plannable(pl.body[v]) /\ cand.ok
        /\ \E c \in Cell : cand = PlanRoute(pl, v, c, FALSE)
    BY <1>3, <1>5, MoveIs
  <2>2. ~HasPlan(pl.body[v]) /\ pl.body[v].cert = "Certified"
    BY <2>1 DEF Plannable
  <2>3. PICK c : cand = PlanRoute(pl, v, c, FALSE)
    BY <2>1
  <2> HIDE DEF v, cand
  <2>4. Tries(X, pl, q, v)
    BY <2>1, <2>2, <2>3, InstallTries
  <2> QED
    BY <2>4 DEF Tries
<1> HIDE DEF q, v, moves
<1>6. Parked(q, v) \in {q, GiveUp(q)}
  BY DEF Parked
<1>7. ASSUME moves # {} PROVE Keeps(X, pl, GiveUp(q))
  <2>1. Keeps(X, pl, q)
    BY <1>5, <1>7
  <2>2. Keeps(X, q, GiveUp(q))
    BY <1>1, <2>1 DEF Keeps
  <2> QED
    BY <2>1, <2>2, KeepsAgain
<1>8. Keeps(X, pl, GiveUp(pl))
  BY <1>1
<1> QED
  BY <1>0, <1>2, <1>4, <1>5, <1>6, <1>7, <1>8

\* Nobody is planned for before the place of everybody is known.
LEMMA ReplanKeeps ==
  ASSUME NEW X, NEW pl, Reserves(X, pl), NEW admit, admit => AllKnown(pl), NEW now,
         NEW q, q = Replan(pl, admit, now)
  PROVE  Keeps(X, pl, q)
<1> DEFINE s == Looked(pl)
           a == Admit(s, now)
           u == Unblock(a.pl)
           w == Unblocked(a)
<1>1. q \in {pl, s} \/ (q = w /\ admit)
  BY DEF Replan, Looked
<1>2. Keeps(X, pl, pl)
  BY DEF Keeps
<1>3. Keeps(X, pl, s)
  <2>1. SameReservations(pl, s)
    BY FlagsSame DEF Reserves
  <2> HIDE DEF s
  <2> QED
    BY <2>1, KeepsSame
<1> HIDE DEF s
<1>4. w \in {u, a.pl}
  BY DEF Unblocked
<1> HIDE DEF a, u, w
<1>5. ASSUME admit PROVE Keeps(X, pl, a.pl) /\ Keeps(X, pl, u)
  <2>1. Reserves(X, s) /\ AllKnown(s)
    BY <1>3, <1>5 DEF Keeps, AllKnown
  <2>2. Keeps(X, s, a.pl)
    BY <2>1, AdmitKeeps DEF a
  <2>3. Reserves(X, a.pl) /\ AllKnown(a.pl)
    BY <2>1, <2>2 DEF Keeps, AllKnown
  <2>4. Keeps(X, a.pl, u)
    BY <2>3, UnblockKeeps DEF u
  <2> QED
    BY <1>3, <2>2, <2>4, KeepsAgain
<1> QED
  BY <1>1, <1>2, <1>3, <1>4, <1>5

\* An update keeps the promises to all of whom it is told what they say.
LEMMA UpdateReserves ==
  ASSUME NEW X, NEW pl, Reserves(X, pl), NEW facts, DOMAIN facts \subseteq Vehicle,
         \A v \in DOMAIN facts : Heeds(X[v], facts[v]), NEW admit,
         admit => \A v \in Vehicle : pl.body[v].known \/ v \in DOMAIN facts, NEW now,
         NEW q, q = Update(pl, facts, admit, now)
  PROVE  /\ Reserves(X, q)
         /\ \A v \in Vehicle : pl.body[v].known \/ v \in DOMAIN facts => q.body[v].known
<1> DEFINE y == Synced(pl, facts)
           c == Carried(y, admit, now)
<1>1. /\ Reserves(X, y)
      /\ \A v \in Vehicle : pl.body[v].known \/ v \in DOMAIN facts => y.body[v].known
  BY SyncedReserves
<1>2. q = Replan(c, admit, now)
  BY DEF Update, PlannerStep
<1> HIDE DEF y
<1>3. Keeps(X, y, c)
  BY <1>1, CarriedKeeps
<1> HIDE DEF c
<1>4. Reserves(X, c) /\ (admit => AllKnown(c))
  BY <1>1, <1>3 DEF Keeps, AllKnown
<1>5. Keeps(X, c, q)
  BY <1>2, <1>4, ReplanKeeps
<1> QED
  BY <1>1, <1>3, <1>5 DEF Keeps

-----------------------------------------------------------------------------
(* The station.                                                              *)

\* The vehicles W, each with its executor, its body and its channels, as station st has to
\* do with them.
Values(q) == {q[i] : i \in DOMAIN q}
Seen(W, st) ==
  [v \in Vehicle |->
     [e |-> W[v].e, pos |-> W[v].pos, ahead |-> W[v].ahead, up |-> W[v].up,
      heard |-> st.entry[v].heard, s |-> st.entry[v].s, body |-> st.entry[v].body,
      ds |-> {st.entry[v].last} \cup Values(W[v].down) \cup Values(st.sent[v])]]

\* Nothing is ever sent that says nothing.
Speaks(ds) == \A i \in DOMAIN ds : ds[i].st # "None"

Serves(W, st) ==
  /\ StationShaped(st) /\ Reserves(Seen(W, st), st.pl)
  /\ \A v \in Vehicle : Speaks(st.sent[v])

\* A vehicle but for what it was sent.
Like(x, y) ==
  /\ y.e = x.e /\ y.pos = x.pos /\ y.ahead = x.ahead /\ y.up = x.up
  /\ y.heard = x.heard /\ y.s = x.s /\ y.body = x.body

LEMMA LikeSuits ==
  ASSUME NEW x, NEW y, NEW b, Suits(x, b), Like(x, y), \A d \in y.ds : DecisionOK(x, b, d)
  PROVE  Suits(y, b) /\ KeptFree(y, b) = KeptFree(x, b)
<1>0. /\ y.e = x.e /\ y.pos = x.pos /\ y.ahead = x.ahead /\ y.up = x.up
      /\ y.heard = x.heard /\ y.s = x.s /\ y.body = x.body
  BY DEF Like
<1>1. Sessions(y) = Sessions(x)
  BY <1>0 DEF Sessions
<1>2. Obeys(y, b)
  BY <1>0, <1>1 DEF Suits, Obeys, Confirmed
<1>3. Trail(y, b)
  BY <1>0 DEF Suits, Trail
<1>4. Rights(y, b)
  BY <1>0 DEF Suits, Rights
<1>5. \A d \in y.ds : DecisionOK(y, b, d)
  BY <1>0 DEF DecisionOK
<1>6. \A s \in Sessions(y) : SessionOK(y, b, s)
  BY <1>0, <1>1 DEF Suits, SessionOK
<1>7. BodyOK(b)
  BY DEF Suits
<1>8. KeptFree(y, b) = KeptFree(x, b)
  BY <1>0 DEF KeptFree
<1> QED
  BY <1>2, <1>3, <1>4, <1>5, <1>6, <1>7, <1>8 DEF Suits

LEMMA ViewReserves ==
  ASSUME NEW X, NEW Y, NEW pl, Reserves(X, pl),
         \A v \in Vehicle : /\ Suits(Y[v], pl.body[v])
                            /\ KeptFree(Y[v], pl.body[v]) = KeptFree(X[v], pl.body[v])
  PROVE  Reserves(Y, pl)
BY DEF Reserves, Apart

\* Another station with the same planner that knows the same, and may have sent something more.
LEMMA SentServes ==
  ASSUME NEW W, NEW st, Serves(W, st), NEW t, StationShaped(t), t.pl = st.pl,
         \A v \in Vehicle :
           /\ t.entry[v].heard = st.entry[v].heard /\ t.entry[v].s = st.entry[v].s
           /\ t.entry[v].body = st.entry[v].body /\ Speaks(t.sent[v])
           /\ \A d \in Seen(W, t)[v].ds : DecisionOK(Seen(W, st)[v], st.pl.body[v], d)
  PROVE  Serves(W, t)
<1> DEFINE X == Seen(W, st)
           Y == Seen(W, t)
<1>1. ASSUME NEW v \in Vehicle
      PROVE  /\ Suits(Y[v], st.pl.body[v])
             /\ KeptFree(Y[v], st.pl.body[v]) = KeptFree(X[v], st.pl.body[v])
  <2>1. Like(X[v], Y[v])
    BY DEF Seen, Like
  <2>2. Suits(X[v], st.pl.body[v])
    BY DEF Serves, Reserves
  <2> HIDE DEF X, Y
  <2>3. \A d \in Y[v].ds : DecisionOK(X[v], st.pl.body[v], d)
    BY DEF X, Y
  <2> QED
    BY <2>1, <2>2, <2>3, LikeSuits
<1>2. Reserves(X, st.pl)
  BY DEF Serves
<1> HIDE DEF X, Y
<1>3. Reserves(Y, st.pl)
  BY <1>1, <1>2, ViewReserves
<1> QED
  BY <1>3 DEF Serves, Y

LEMMA SendServes ==
  ASSUME NEW W, NEW st, Serves(W, st), NEW v \in Vehicle, NEW d, d.st # "None",
         DecisionOK(Seen(W, st)[v], st.pl.body[v], d), NEW t, t = Send(st, v, d)
  PROVE  Serves(W, t) /\ t.pl = st.pl
<1> DEFINE q == Append(st.sent[v], d)
           X == Seen(W, st)
<1>1. StationShaped(st) /\ Listed(st.sent[v])
  BY DEF Serves, StationShaped
<1>2. StationShaped(t)
  BY <1>1, SendSpoken DEF Spoken
<1>3. t = [st EXCEPT !.entry[v].last = d, !.sent[v] = q]
  BY DEF Send
<1>4. \A x \in Values(q) : x = d \/ x \in Values(st.sent[v])
  <2>1. /\ DOMAIN q = 1..(Len(st.sent[v]) + 1) /\ DOMAIN st.sent[v] = 1..Len(st.sent[v])
        /\ Len(st.sent[v]) \in Nat /\ q[Len(st.sent[v]) + 1] = d
        /\ \A i \in 1..Len(st.sent[v]) : q[i] = st.sent[v][i]
    BY <1>1, AppendListed DEF Listed
  <2> HIDE DEF q
  <2> QED
    BY <2>1 DEF Values
<1> HIDE DEF q
<1>5. /\ t.pl = st.pl
      /\ \A w \in Vehicle :
           /\ t.entry[w].heard = st.entry[w].heard /\ t.entry[w].s = st.entry[w].s
           /\ t.entry[w].body = st.entry[w].body
           /\ w # v => t.entry[w].last = st.entry[w].last /\ t.sent[w] = st.sent[w]
      /\ t.entry[v].last = d /\ t.sent[v] = q
  BY <1>1, <1>3 DEF StationShaped, StationFields, EntryFields
<1>6. ASSUME NEW w \in Vehicle, NEW x \in Seen(W, t)[w].ds
      PROVE  DecisionOK(Seen(W, st)[w], st.pl.body[w], x)
  <2>1. x \in Seen(W, st)[w].ds \/ (w = v /\ x = d)
    BY <1>4, <1>5, <1>6 DEF Seen
  <2>2. Suits(Seen(W, st)[w], st.pl.body[w])
    BY DEF Serves, Reserves
  <2> QED
    BY <2>1, <2>2 DEF Suits
<1>7. ASSUME NEW w \in Vehicle PROVE Speaks(t.sent[w])
  <2>1. Speaks(st.sent[w]) /\ Speaks(st.sent[v])
    BY DEF Serves
  <2>2. CASE w # v
    BY <1>5, <2>1, <2>2
  <2>3. CASE w = v
    <3>1. \A x \in Values(q) : x.st # "None"
      BY <1>4, <2>1 DEF Speaks, Values
    <3>2. t.sent[w] = q
      BY <1>5, <2>3
    <3> QED
      BY <3>1, <3>2 DEF Speaks, Values
  <2> QED
    BY <2>2, <2>3
<1> QED
  BY <1>2, <1>5, <1>6, <1>7, SentServes

\* A decision of the planner is passed on.
LEMMA PassServes ==
  ASSUME NEW W, NEW st, Serves(W, st), NEW d, Proper(st.pl, d), NEW t, t = Pass(st, d)
  PROVE  Serves(W, t) /\ t.pl = st.pl
<1> DEFINE v == d.vehicle
           b == Bare(d)
           x == Seen(W, st)[v]
           c == st.pl.body[v]
<1>1. v \in Vehicle
  BY DEF Proper
<1>2. CASE ~(d.session = st.entry[v].s.session /\ d.gen = st.entry[v].s.gen)
  BY <1>2 DEF Pass
<1>3. CASE d.session = st.entry[v].s.session /\ d.gen = st.entry[v].s.gen
  <2>1. t = Send(st, v, b)
    BY <1>3 DEF Pass
  <2>2. Suits(x, c)
    BY <1>1 DEF Serves, Reserves
  <2>3. x.s = st.entry[v].s
    BY <1>1 DEF Seen
  <2>4. d.gen \in Nat /\ d.gen <= x.e.gen
    BY <1>3, <2>2, <2>3 DEF Suits, Sessions, SessionOK
  <2>5. /\ b.st = d.st /\ b.gen = d.gen /\ b.id = d.id /\ b.route = d.route /\ b.lim = d.lim
    BY DEF Bare
  <2>6. /\ d.st \in Restraint \cup {"Go"} /\ d.id \in Nat /\ d.id < c.next
        /\ d.st = "Go" => Within(c, d)
    BY DEF Proper
  <2> HIDE DEF b, x, c
  <2>7. DecisionOK(x, c, b)
    BY <2>4, <2>5, <2>6 DEF DecisionOK, Within
  <2>8. b.st # "None"
    BY <2>5, <2>6 DEF Restraint
  <2> QED
    BY <1>1, <2>1, <2>7, <2>8, SendServes DEF x, c
<1> QED
  BY <1>2, <1>3

LEMMA PassedServes ==
  ASSUME NEW W, NEW st, Serves(W, st), NEW ds, Listed(ds),
         \A i \in DOMAIN ds : Proper(st.pl, ds[i]), NEW t, t = Passed(st, ds)
  PROVE  Serves(W, t)
<1> DEFINE n == Len(ds)
<1>1. PICK r : /\ r[0] = st /\ Passed(st, ds) = r[n]
               /\ \A i \in 1..n : r[i] = Pass(r[i - 1], ds[i])
  BY PassedSteps
<1> DEFINE S == {k \in 0..n : Serves(W, r[k]) /\ r[k].pl = st.pl}
<1>2. n \in Nat /\ DOMAIN ds = 1..n
  BY DEF Listed
<1> HIDE DEF n
<1>3. 0 \in S
  BY <1>1, <1>2
<1>4. ASSUME NEW k \in 0..(n - 1), k \in S PROVE k + 1 \in S
  <2>1. k + 1 \in 1..n /\ (k + 1) - 1 = k /\ k + 1 \in 0..n
    BY <1>2
  <2>2. r[k + 1] = Pass(r[k], ds[k + 1]) /\ Proper(st.pl, ds[k + 1])
    BY <1>1, <1>2, <2>1
  <2>3. Serves(W, r[k]) /\ r[k].pl = st.pl
    BY <1>4
  <2>4. Serves(W, r[k + 1]) /\ r[k + 1].pl = st.pl
    BY <2>2, <2>3, PassServes
  <2> QED
    BY <2>1, <2>4
<1>5. n \in S
  <2> HIDE DEF S
  <2>1. \A k \in 0..n : k \in S
    BY <1>2, <1>3, <1>4, InductUpTo
  <2> QED
    BY <1>2, <2>1
<1> QED
  BY <1>1, <1>5

\* A decision of the station itself.
LEMMA OwnServes ==
  ASSUME NEW W, NEW st, Serves(W, st), NEW v \in Vehicle, NEW state \in Restraint, NEW reason,
         NEW t, t = Own(st, v, state, reason)
  PROVE  Serves(W, t)
<1> DEFINE k == st.pl.body[v].next
           s == [st EXCEPT !.pl.body[v].next = @ + 1]
           d == [NoDecisionYet EXCEPT !.st = state, !.session = st.entry[v].s.session,
                             !.gen = st.entry[v].s.gen, !.id = k, !.reason = reason]
           b == [st.pl.body[v] EXCEPT !.next = @ + 1]
           p == [st.pl EXCEPT !.body[v] = b]
<1>0. StationShaped(st) /\ Shaped(st.pl) /\ k \in Nat
  BY DEF Serves, StationShaped, Shaped
<1>1. t = Send(s, v, d)
  BY DEF Own
<1>2. d.st = state /\ d.id = k
  BY DEF NoDecisionYet
<1> HIDE DEF d
<1>3. /\ DOMAIN b = BodyFields /\ b.next = k + 1
      /\ \A f \in BodyFields \ {"next"} : b[f] = st.pl.body[v][f]
  BY <1>0 DEF Shaped, BodyFields
<1>4. s = [st EXCEPT !.pl = p]
  BY <1>0 DEF StationShaped, Shaped, StationFields, PlannerFields
<1>5. Changed(st.pl, p, v, b)
  BY <1>0, PutChanged DEF Put
<1> HIDE DEF s, b, p
<1>6. Calm(st.pl, p) /\ p.body[v] = b
  <2>1. SameReservation(st.pl.body[v], b) /\ b.cert = st.pl.body[v].cert
    BY <1>0, <1>3 DEF SameReservation, SamePlan, BodyFields, HasPlan, Granted, Retiring
  <2> QED
    BY <1>0, <1>3, <1>5, <2>1, ChangedCalm DEF Changed
<1>7. Reserves(Seen(W, st), p)
  BY <1>6, ReservesSame DEF Serves, Calm
<1>8. Serves(W, s)
  <2>1. /\ s.pl = p /\ s.entry = st.entry /\ s.sent = st.sent /\ StationShaped(s)
    BY <1>0, <1>4, <1>7 DEF StationShaped, StationFields, Reserves
  <2>2. Seen(W, s) = Seen(W, st)
    BY <2>1 DEF Seen
  <2> QED
    BY <1>7, <2>1, <2>2 DEF Serves
<1>9. DecisionOK(Seen(W, s)[v], s.pl.body[v], d) /\ d.st # "None"
  <2>1. s.pl.body[v].next = k + 1
    BY <1>0, <1>3, <1>4, <1>6 DEF StationShaped, StationFields
  <2> QED
    BY <1>0, <1>2, <2>1 DEF DecisionOK, Restraint
<1> QED
  BY <1>1, <1>8, <1>9, SendServes

LEMMA LocalHoldServes ==
  ASSUME NEW W, NEW st, Serves(W, st), NEW v \in Vehicle, NEW lost,
         NEW t, t = LocalHold(st, v, lost)
  PROVE  Serves(W, t)
<1> DEFINE why == IF st.scene THEN "WaitingForPeer" ELSE "SceneUnavailable"
           o == Own(st, v, "Hold", why)
<1>1. t \in {o, st}
  BY DEF LocalHold
<1> HIDE DEF why
<1>2. Serves(W, o)
  BY OwnServes DEF Restraint
<1> QED
  BY <1>1, <1>2

LEMMA RepeatServes ==
  ASSUME NEW W, NEW st, Serves(W, st), NEW v \in Vehicle, NEW lost, NEW now,
         NEW t, t = Repeat(st, v, lost, now)
  PROVE  Serves(W, t)
<1> DEFINE d == st.entry[v].last
           o == Own(st, v, "Reject", "BadSession")
           s == Send(st, v, d)
<1>1. t \in {st, o} \/ (t = s /\ d.st # "None")
  BY DEF Repeat
<1>2. Serves(W, o)
  BY OwnServes DEF Restraint
<1>3. ASSUME d.st # "None" PROVE Serves(W, s)
  <2>1. d \in Seen(W, st)[v].ds /\ Suits(Seen(W, st)[v], st.pl.body[v])
    BY DEF Seen, Serves, Reserves
  <2>2. DecisionOK(Seen(W, st)[v], st.pl.body[v], d)
    BY <2>1 DEF Suits
  <2> HIDE DEF d
  <2> QED
    BY <1>3, <2>2, SendServes
<1> HIDE DEF o, d, s
<1> QED
  BY <1>1, <1>2, <1>3

LEMMA ServesAlong ==
  ASSUME NEW W, NEW r, Serves(W, r[0]),
         \A i \in 1..Len(Fleet) : Serves(W, r[i - 1]) => Serves(W, r[i])
  PROVE  Serves(W, r[Len(Fleet)])
<1> DEFINE S == {k \in 0..Len(Fleet) : Serves(W, r[k])}
<1>1. 0 \in S
  BY FleetMember
<1>2. ASSUME NEW i \in 1..Len(Fleet), i - 1 \in S PROVE i \in S
  BY <1>2, FleetMember
<1> HIDE DEF S
<1>3. Len(Fleet) \in S
  BY <1>1, <1>2, FleetInduction
<1> QED
  BY <1>3 DEF S

LEMMA HeldServes ==
  ASSUME NEW W, NEW st, Serves(W, st), NEW admit, NEW lost, NEW t, t = Held(st, admit, lost)
  PROVE  Serves(W, t)
<1>1. PICK r : /\ r[0] = st /\ Held(st, admit, lost) = r[Len(Fleet)]
               /\ \A i \in 1..Len(Fleet) :
                    r[i] = IF Fleet[i] \in (IF admit THEN {} ELSE Vehicle)
                           THEN LocalHold(r[i - 1], Fleet[i], lost) ELSE r[i - 1]
  BY HeldSteps
<1>2. ASSUME NEW i \in 1..Len(Fleet), Serves(W, r[i - 1]) PROVE Serves(W, r[i])
  <2>1. r[i] \in {LocalHold(r[i - 1], Fleet[i], lost), r[i - 1]}
    BY <1>1
  <2> QED
    BY <1>2, <2>1, LocalHoldServes, FleetMember
<1> QED
  BY <1>1, <1>2, ServesAlong

LEMMA RepeatedServes ==
  ASSUME NEW W, NEW st, Serves(W, st), NEW lost, NEW now, NEW t, t = Repeated(st, lost, now)
  PROVE  Serves(W, t)
<1> DEFINE H == {w \in Vehicle : st.entry[w].heard}
<1>1. PICK r : /\ r[0] = st /\ Repeated(st, lost, now) = r[Len(Fleet)]
               /\ \A i \in 1..Len(Fleet) :
                    r[i] = IF Fleet[i] \in H THEN Repeat(r[i - 1], Fleet[i], lost, now)
                                             ELSE r[i - 1]
  BY RepeatedSteps
<1> HIDE DEF H
<1>2. ASSUME NEW i \in 1..Len(Fleet), Serves(W, r[i - 1]) PROVE Serves(W, r[i])
  <2>1. r[i] \in {Repeat(r[i - 1], Fleet[i], lost, now), r[i - 1]}
    BY <1>1
  <2> QED
    BY <1>2, <2>1, RepeatServes, FleetMember
<1> QED
  BY <1>1, <1>2, ServesAlong

LEMMA BegunServes ==
  ASSUME NEW W, NEW st, Serves(W, st), NEW pl, Reserves(Seen(W, st), pl),
         NEW t, t = Begun(st, pl)
  PROVE  /\ Serves(W, t)
         /\ \A v \in Vehicle : t.pl.body[v] = pl.body[v]
<1> DEFINE o == Fresh(pl)
           X == Seen(W, st)
<1>1. Shaped(pl) /\ StationShaped(st)
  BY DEF Reserves, Serves
<1>2. SameReservations(pl, o) /\ o.body = pl.body
  BY <1>1, FlagsSame DEF Fresh, Shaped, PlannerFields
<1>3. t = [st EXCEPT !.pl = o, !.sent = [v \in Vehicle |-> <<>>]]
  BY DEF Begun, Fresh
<1>4. Shaped(o)
  BY <1>2 DEF SameReservations
<1> HIDE DEF o
<1>5. /\ StationShaped(t) /\ t.pl = o /\ t.entry = st.entry
      /\ \A v \in Vehicle : t.sent[v] = <<>>
  <2>1. Listed(<<>>)
    BY DEF Listed
  <2> QED
    BY <1>1, <1>3, <1>4, <2>1 DEF StationShaped, StationFields
<1> DEFINE Y == Seen(W, t)
<1>6. ASSUME NEW v \in Vehicle
      PROVE  /\ Suits(Y[v], pl.body[v])
             /\ KeptFree(Y[v], pl.body[v]) = KeptFree(X[v], pl.body[v])
  <2>1. Like(X[v], Y[v]) /\ Y[v].ds \subseteq X[v].ds
    BY <1>5 DEF Seen, Like, Values
  <2>2. Suits(X[v], pl.body[v])
    BY DEF Reserves
  <2> HIDE DEF X, Y
  <2>3. \A d \in Y[v].ds : DecisionOK(X[v], pl.body[v], d)
    BY <2>1, <2>2 DEF Suits
  <2> QED
    BY <2>1, <2>2, <2>3, LikeSuits
<1> HIDE DEF X, Y
<1>7. Reserves(Y, pl)
  BY <1>6, ViewReserves DEF X
<1>8. Reserves(Y, o)
  BY <1>2, <1>7, ReservesSame
<1> QED
  BY <1>2, <1>5, <1>8 DEF Serves, Speaks, Y

\* A step of the station.
LEMMA TurnServes ==
  ASSUME NEW W, NEW st, Serves(W, st), Expected = Vehicle, NEW lost, NEW now,
         NEW t, t = StationTurn(st, lost, now)
  PROVE  Serves(W, t)
<1> DEFINE facts == [v \in Known(st) |-> Facts(st, v, lost)]
           admit == Admits(st)
           X     == Seen(W, st)
           pl    == Update(st.pl, facts, admit, now)
           b     == Begun(st, pl)
           p     == Passed(b, pl.out)
           h     == Held(p, admit, lost)
<1>1. t = Repeated(h, lost, now)
  BY DEF StationTurn, Decide
<1>2. DOMAIN facts \subseteq Vehicle
  BY DEF Known
<1>3. ASSUME NEW v \in DOMAIN facts PROVE Heeds(X[v], facts[v])
  <2>1. v \in Vehicle /\ st.entry[v].heard /\ facts[v] = Facts(st, v, lost)
    BY DEF Known
  <2>2. /\ X[v].heard = st.entry[v].heard /\ X[v].s = st.entry[v].s
        /\ X[v].body = st.entry[v].body
    BY <2>1 DEF Seen
  <2> QED
    BY <2>1, <2>2 DEF Heeds, Facts
<1>4. ASSUME admit, NEW v \in Vehicle PROVE v \in DOMAIN facts
  <2>1. st.entry[v].body # NoCell
    BY <1>4 DEF Admits, ScopeReady
  <2>2. Trail(X[v], st.pl.body[v])
    BY DEF Serves, Reserves, Suits
  <2>3. st.entry[v].heard
    BY <2>1, <2>2 DEF Trail, Seen
  <2> QED
    BY <2>1, <2>3 DEF Known
<1>5. Reserves(X, st.pl)
  BY DEF Serves
<1> HIDE DEF facts, admit, X
<1>6. Reserves(X, pl)
  BY <1>2, <1>3, <1>4, <1>5, UpdateReserves
<1> HIDE DEF pl
<1>7. Serves(W, b) /\ \A v \in Vehicle : b.pl.body[v] = pl.body[v]
  BY <1>6, BegunServes DEF X
<1>8. Listed(pl.out) /\ \A i \in DOMAIN pl.out : Proper(b.pl, pl.out[i])
  <2>1. Listed(pl.out) /\ OutOK(pl)
    BY <1>6 DEF Reserves, Shaped
  <2> QED
    BY <1>7, <2>1 DEF OutOK, Proper
<1> HIDE DEF b
<1>9. Serves(W, p)
  BY <1>7, <1>8, PassedServes
<1> HIDE DEF p
<1>10. Serves(W, h)
  BY <1>9, HeldServes
<1> HIDE DEF h
<1> QED
  BY <1>1, <1>10, RepeatedServes

-----------------------------------------------------------------------------
(* What comes in, and what goes out.                                         *)

\* The first of the Sessions on their way is heard, or dropped for it is of an earlier request.
LEMMA HeardSuits ==
  ASSUME NEW x, NEW y, NEW b, Suits(x, b), 1 \in DOMAIN x.up, DOMAIN x.up \subseteq Nat \ {0},
         DOMAIN y.up \subseteq Nat \ {0},
         \A i \in DOMAIN y.up : i + 1 \in DOMAIN x.up /\ y.up[i] = x.up[i + 1],
         y.e = x.e, y.pos = x.pos, y.ahead = x.ahead,
         \/ y.heard = x.heard /\ y.s = x.s /\ y.body = x.body
         \/ y.heard = TRUE /\ y.s = x.up[1] /\ y.body = x.up[1].pose,
         \A d \in y.ds : d \in x.ds \/ d = NoDecisionYet
  PROVE  Suits(y, b) /\ KeptFree(y, b) = KeptFree(x, b)
<1>1. Sessions(y) \subseteq Sessions(x)
  BY DEF Sessions
<1>2. Obeys(y, b)
  <2>1. Confirmed(y, b) => Confirmed(x, b)
    BY <1>1 DEF Confirmed
  <2> QED
    BY <2>1 DEF Suits, Obeys
<1>3. Trail(y, b)
  <2>0. Trail(x, b)
    BY DEF Suits
  <2>1. \A i \in DOMAIN y.up : Before(b, y.up[i].pose, y.pos)
    BY <2>0 DEF Trail
  <2>2. \A i, j \in DOMAIN y.up : i < j => Before(b, y.up[i].pose, y.up[j].pose)
    <3> SUFFICES ASSUME NEW i \in DOMAIN y.up, NEW j \in DOMAIN y.up, i < j
                 PROVE  Before(b, y.up[i].pose, y.up[j].pose)
      OBVIOUS
    <3>1. i + 1 \in DOMAIN x.up /\ j + 1 \in DOMAIN x.up /\ i + 1 < j + 1
      OBVIOUS
    <3>2. Before(b, x.up[i + 1].pose, x.up[j + 1].pose)
      BY <2>0, <3>1 DEF Trail
    <3> QED
      BY <3>2
  <2>3. ASSUME NEW i \in DOMAIN y.up
        PROVE  1 < i + 1 /\ i + 1 \in DOMAIN x.up /\ y.up[i] = x.up[i + 1]
    OBVIOUS
  <2>4. CASE y.heard = x.heard /\ y.s = x.s /\ y.body = x.body
    <3>1. y.heard => /\ y.body = y.s.pose /\ Before(b, y.body, y.pos)
                     /\ \A i \in DOMAIN y.up : Before(b, y.body, y.up[i].pose)
      BY <2>0, <2>3, <2>4 DEF Trail
    <3>2. b.known => /\ y.heard /\ Before(b, b.pose, y.body) /\ Before(b, b.pose, y.pos)
                     /\ \A i \in DOMAIN y.up : Before(b, b.pose, y.up[i].pose)
      BY <2>0, <2>3, <2>4 DEF Trail
    <3> QED
      BY <2>0, <2>1, <2>2, <2>4, <3>1, <3>2 DEF Trail
  <2>5. CASE y.heard = TRUE /\ y.s = x.up[1] /\ y.body = x.up[1].pose
    <3>1. /\ y.body = y.s.pose /\ Before(b, y.body, y.pos)
          /\ \A i \in DOMAIN y.up : Before(b, y.body, y.up[i].pose)
      BY <2>0, <2>3, <2>5 DEF Trail
    <3>2. b.known => /\ y.heard /\ Before(b, b.pose, y.body) /\ Before(b, b.pose, y.pos)
                     /\ \A i \in DOMAIN y.up : Before(b, b.pose, y.up[i].pose)
      BY <2>0, <2>3, <2>5 DEF Trail
    <3> QED
      BY <2>0, <2>1, <2>2, <2>5, <3>1, <3>2 DEF Trail
  <2> QED
    BY <2>4, <2>5
<1>4. Rights(y, b)
  BY DEF Suits, Rights
<1>5. \A d \in y.ds : DecisionOK(y, b, d)
  <2>1. DecisionOK(y, b, NoDecisionYet)
    <3>1. b.next \in Nat /\ 0 < b.next
      BY DEF Suits, BodyOK
    <3> QED
      BY <3>1 DEF DecisionOK, NoDecisionYet
  <2>2. \A d \in x.ds : DecisionOK(y, b, d)
    BY DEF Suits, DecisionOK
  <2> QED
    BY <2>1, <2>2
<1>6. \A s \in Sessions(y) : SessionOK(y, b, s)
  BY <1>1 DEF Suits, SessionOK
<1>7. BodyOK(b)
  BY DEF Suits
<1>8. KeptFree(y, b) = KeptFree(x, b)
  BY DEF KeptFree
<1> QED
  BY <1>2, <1>3, <1>4, <1>5, <1>6, <1>7, <1>8 DEF Suits

\* A vehicle with the rest of its Sessions.
Cut(w, n) == IF n = 0 THEN w ELSE [w EXCEPT !.up = SubSeq(@, n + 1, Len(@))]

WorldFields == {"e", "pos", "ahead", "up", "down"}
WorldShaped(W) ==
  \A v \in Vehicle : DOMAIN W[v] = WorldFields /\ Listed(W[v].up) /\ Listed(W[v].down)

LEMMA RestIs ==
  ASSUME NEW q, Listed(q), Len(q) >= 1
  PROVE  LET r == SubSeq(q, 2, Len(q)) IN
         /\ Listed(r) /\ DOMAIN r = 1..(Len(q) - 1) /\ DOMAIN q = 1..Len(q) /\ Len(q) \in Nat
         /\ \A i \in DOMAIN r : r[i] = q[i + 1]
<1> DEFINE S == {q[i] : i \in DOMAIN q}
           r == SubSeq(q, 2, Len(q))
<1>1. q \in Seq(S)
  BY DEF Listed
<1> HIDE DEF S
<1>2. /\ r \in Seq(S) /\ Len(q) \in Nat /\ DOMAIN q = 1..Len(q) /\ Len(r) = Len(q) - 1
      /\ \A i \in 1..(Len(q) - 1) : r[i] = q[i + 1]
  <2> DEFINE n == Len(q)
  <2>1. n \in Nat /\ DOMAIN q = 1..n /\ \A i \in 2..n : q[i] \in S
    BY <1>1
  <2> HIDE DEF n
  <2>2. 2 \in Int /\ n \in Int /\ n >= 1
    BY <2>1 DEF n
  <2>3. /\ SubSeq(q, 2, n) \in Seq(S)
        /\ Len(SubSeq(q, 2, n)) = IF 2 <= n THEN n - 2 + 1 ELSE 0
        /\ \A i \in 1..n - 2 + 1 : SubSeq(q, 2, n)[i] = q[2 + i - 1]
    BY <2>1, <2>2, SubSeqProperties
  <2> QED
    BY <2>1, <2>2, <2>3 DEF n
<1> HIDE DEF r
<1>3. DOMAIN r = 1..(Len(q) - 1) /\ Listed(r)
  BY <1>2 DEF Listed
<1> QED
  BY <1>2, <1>3 DEF r

\* One Session is heard.
LEMMA HearServes ==
  ASSUME NEW W, WorldShaped(W), NEW st, Serves(W, st), NEW v \in Vehicle, Len(W[v].up) >= 1,
         NEW U, \A w \in Vehicle \ {v} : U[w] = W[w], U[v] = Cut(W[v], 1),
         NEW t, t = OnSession(st, v, W[v].up[1])
  PROVE  Serves(U, t)
<1> DEFINE s == W[v].up[1]
           e == st.entry[v]
           old == e.heard /\ (s.gen < e.s.gen \/ (s.gen = e.s.gen /\ s.session # e.s.session))
           other == e.heard /\ (s.session # e.s.session \/ s.gen # e.s.gen)
           n == [heard |-> TRUE, s |-> s, bad |-> ~s.valid,
                 body |-> IF s.placed /\ s.healthy THEN s.pose ELSE e.body,
                 moving |-> IF s.valid THEN s.moving ELSE e.moving,
                 last |-> IF other THEN NoDecisionYet ELSE e.last]
           u == [st EXCEPT !.entry[v] = n]
           X == Seen(W, st)
           Y == Seen(U, t)
           b == st.pl.body[v]
           q == W[v].up
           r == SubSeq(q, 2, Len(q))
<1>0. /\ StationShaped(st) /\ Listed(q) /\ DOMAIN W[v] = WorldFields /\ Suits(X[v], b)
      /\ X[v].up = q
  BY DEF WorldShaped, Serves, Reserves, Seen
<1>1. t \in {st, u}
  BY DEF OnSession
<1>2. /\ Listed(r) /\ DOMAIN r = 1..(Len(q) - 1) /\ DOMAIN q = 1..Len(q) /\ Len(q) \in Nat
      /\ \A i \in DOMAIN r : r[i] = q[i + 1]
  BY <1>0, RestIs
<1>3. /\ U[v].up = r /\ U[v].e = W[v].e /\ U[v].pos = W[v].pos /\ U[v].ahead = W[v].ahead
      /\ U[v].down = W[v].down
  BY <1>0 DEF Cut, WorldFields
<1>4. s.valid /\ s.placed /\ s.healthy
  <2>1. s \in Sessions(X[v])
    BY <1>0, <1>2 DEF Sessions
  <2> QED
    BY <1>0, <2>1 DEF Suits, SessionOK
<1>5. /\ n.heard = TRUE /\ n.s = s /\ n.body = s.pose /\ n.last \in {NoDecisionYet, e.last}
      /\ DOMAIN n = EntryFields
  BY <1>4 DEF EntryFields
<1> HIDE DEF n
<1>6. /\ StationShaped(u) /\ u.pl = st.pl /\ u.sent = st.sent /\ u.entry[v] = n
      /\ \A w \in Vehicle \ {v} : u.entry[w] = st.entry[w]
  BY <1>0, <1>5 DEF StationShaped, StationFields
<1> HIDE DEF u
<1>7. /\ StationShaped(t) /\ t.pl = st.pl /\ t.sent = st.sent
      /\ \A w \in Vehicle \ {v} : t.entry[w] = st.entry[w]
      /\ t.entry[v] \in {e, n}
  BY <1>0, <1>1, <1>6
<1>8. /\ Y[v].up = r /\ Y[v].e = X[v].e /\ Y[v].pos = X[v].pos /\ Y[v].ahead = X[v].ahead
      /\ \/ Y[v].heard = X[v].heard /\ Y[v].s = X[v].s /\ Y[v].body = X[v].body
         \/ Y[v].heard = TRUE /\ Y[v].s = s /\ Y[v].body = s.pose
  BY <1>3, <1>5, <1>7 DEF Seen
<1>9. \A d \in Y[v].ds : d \in X[v].ds \/ d = NoDecisionYet
  <2>1. t.entry[v].last \in {NoDecisionYet, e.last}
    BY <1>5, <1>7
  <2> QED
    BY <1>3, <1>7, <2>1 DEF Seen
<1>10. Suits(Y[v], b) /\ KeptFree(Y[v], b) = KeptFree(X[v], b)
  <2> DEFINE x == X[v]
             y == Y[v]
  <2>1. /\ 1 \in DOMAIN x.up /\ DOMAIN x.up \subseteq Nat \ {0}
        /\ DOMAIN y.up \subseteq Nat \ {0} /\ s = x.up[1]
        /\ \A i \in DOMAIN y.up : i + 1 \in DOMAIN x.up /\ y.up[i] = x.up[i + 1]
    BY <1>0, <1>2, <1>8
  <2>2. /\ y.e = x.e /\ y.pos = x.pos /\ y.ahead = x.ahead
        /\ \/ y.heard = x.heard /\ y.s = x.s /\ y.body = x.body
           \/ y.heard = TRUE /\ y.s = x.up[1] /\ y.body = x.up[1].pose
        /\ \A d \in y.ds : d \in x.ds \/ d = NoDecisionYet
    BY <1>8, <1>9, <2>1
  <2>3. Suits(x, b)
    BY <1>0
  <2> HIDE DEF x, y, s, b
  <2>4. Suits(y, b) /\ KeptFree(y, b) = KeptFree(x, b)
    BY ONLY <2>1, <2>2, <2>3, HeardSuits
  <2> QED
    BY <2>4 DEF x, y
<1>11. ASSUME NEW w \in Vehicle \ {v} PROVE Y[w] = X[w]
  BY <1>7, <1>11 DEF Seen
<1>12. Reserves(X, st.pl)
  BY DEF Serves
<1> HIDE DEF X, Y, b
<1>13. Reserves(Y, st.pl)
  <2>1. \A w \in Vehicle : Suits(X[w], st.pl.body[w])
    BY <1>12 DEF Reserves
  <2>2. \A w \in Vehicle : /\ Suits(Y[w], st.pl.body[w])
                           /\ KeptFree(Y[w], st.pl.body[w]) = KeptFree(X[w], st.pl.body[w])
    BY <1>10, <1>11, <2>1 DEF b
  <2> QED
    BY <1>12, <2>2, ViewReserves
<1> QED
  BY <1>7, <1>13 DEF Serves, Y

\* What one of the vehicles said is heard, and what all did.
HearOne(st, v, ups, is) == IF is[v] = 0 THEN st ELSE OnSession(st, v, ups[v][is[v]])
HearAll(st, ups, is) ==
  LET hear(s, v) == IF is[v] = 0 THEN s ELSE OnSession(s, v, ups[v][is[v]])
  IN  InOrder(hear, st, Vehicle)

LEMMA HearSteps ==
  ASSUME NEW st, NEW ups, NEW is
  PROVE  \E r : /\ r[0] = st /\ HearAll(st, ups, is) = r[Len(Fleet)]
               /\ \A i \in 1..Len(Fleet) :
                    r[i] = IF Fleet[i] \in Vehicle
                           THEN HearOne(r[i - 1], Fleet[i], ups, is) ELSE r[i - 1]
<1> DEFINE n == Len(Fleet)
           B == st
           F(p, i) == IF Fleet[i] \in Vehicle THEN HearOne(p, Fleet[i], ups, is) ELSE p
           G(r, i) == IF i = 0 THEN B ELSE F(r[i - 1], i)
           A == {k \in 0..n : \E f : f = [i \in 0..k |-> G(f, i)]}
           r == CHOOSE f : f = [i \in 0..n |-> G(f, i)]
<1>1. n \in Nat
  BY FleetAssumption
<1>2. HearAll(st, ups, is) = r[n]
  BY DEF HearAll, InOrder, HearOne
<1> HIDE DEF F, B, n
<1>3. 0 \in A
  <2> DEFINE f == [i \in 0..0 |-> B]
  <2>1. f = [i \in 0..0 |-> G(f, i)]
    OBVIOUS
  <2> HIDE DEF f, G
  <2> QED
    BY <1>1, <2>1
<1>4. ASSUME NEW k \in 0..(n - 1), k \in A PROVE k + 1 \in A
  <2>1. PICK f : f = [i \in 0..k |-> G(f, i)]
    BY <1>4
  <2> DEFINE g == [i \in 0..(k + 1) |-> IF i <= k THEN f[i] ELSE G(f, i)]
  <2>2. \A i \in 0..k : g[i] = f[i] /\ f[i] = G(f, i)
    BY <1>1, <2>1
  <2>3. \A i \in 0..(k + 1) : g[i] = G(g, i)
    <3>1. g[k + 1] = G(f, k + 1) /\ g[k] = f[k]
      BY <1>1
    <3> HIDE DEF g
    <3> QED
      BY <1>1, <2>2, <3>1
  <2>4. g = [i \in 0..(k + 1) |-> g[i]]
    OBVIOUS
  <2> HIDE DEF g, G
  <2>5. g = [i \in 0..(k + 1) |-> G(g, i)]
    BY <2>3, <2>4
  <2> QED
    BY <1>1, <2>5
<1>5. n \in A
  <2> HIDE DEF A
  <2> QED
    BY <1>1, <1>3, <1>4, InductUpTo
<1>6. r = [i \in 0..n |-> G(r, i)]
  <2> HIDE DEF G
  <2> QED
    BY <1>5
<1> HIDE DEF r
<1>7. r[0] = B /\ \A i \in 1..n : r[i] = F(r[i - 1], i)
  BY <1>1, <1>6
<1> QED
  BY <1>2, <1>7 DEF B, F, n

LEMMA HearAllServes ==
  ASSUME NEW W, WorldShaped(W), NEW st, Serves(W, st), NEW ups,
         \A v \in Vehicle : W[v].up = ups[v], NEW is,
         \A v \in Vehicle : is[v] = 0 \/ (is[v] = 1 /\ Len(ups[v]) >= 1),
         NEW t, t = HearAll(st, ups, is),
         NEW U, \A v \in Vehicle : U[v] = Cut(W[v], is[v])
  PROVE  Serves(U, t)
<1>1. PICK r : /\ r[0] = st /\ HearAll(st, ups, is) = r[Len(Fleet)]
               /\ \A i \in 1..Len(Fleet) :
                    r[i] = IF Fleet[i] \in Vehicle
                           THEN HearOne(r[i - 1], Fleet[i], ups, is) ELSE r[i - 1]
  BY HearSteps
<1> DEFINE Past(k, v) == \E j \in 1..k : Fleet[j] = v
           Z(k) == [v \in Vehicle |-> IF Past(k, v) THEN Cut(W[v], is[v]) ELSE W[v]]
           S == {k \in 0..Len(Fleet) : Serves(Z(k), r[k])}
<1>2. ASSUME NEW Y, \A v \in Vehicle : Y[v] = W[v] PROVE Serves(Y, st)
  <2>1. Seen(Y, st) = Seen(W, st)
    BY <1>2 DEF Seen
  <2> QED
    BY <2>1 DEF Serves
<1>3. 0 \in S
  <2>1. \A v \in Vehicle : Z(0)[v] = W[v]
    OBVIOUS
  <2> HIDE DEF Z
  <2>2. Serves(Z(0), r[0])
    BY <1>1, <1>2, <2>1
  <2> QED
    BY <2>2, FleetMember
<1>4. ASSUME NEW i \in 1..Len(Fleet), i - 1 \in S PROVE i \in S
  <2> DEFINE v == Fleet[i]
             A == Z(i - 1)
             B == Z(i)
             s == r[i - 1]
             q == r[i]
  <2>1. /\ Len(Fleet) \in Nat /\ i \in Nat /\ i >= 1 /\ i <= Len(Fleet) /\ v \in Vehicle
        /\ DOMAIN Fleet = 1..Len(Fleet)
    BY FleetMember, FleetAssumption
  <2>2. Serves(A, s)
    BY <1>4
  <2>3. q = HearOne(s, v, ups, is)
    BY <1>1, <2>1
  <2>4. ~Past(i - 1, v) /\ Past(i, v)
    <3>1. ASSUME NEW j \in 1..(i - 1), Fleet[j] = Fleet[i] PROVE FALSE
      BY <2>1, <3>1, FleetAssumption
    <3>2. i \in 1..i
      BY <2>1
    <3> QED
      BY <3>1, <3>2
  <2>5. \A w \in Vehicle \ {v} : Past(i, w) <=> Past(i - 1, w)
    <3> SUFFICES ASSUME NEW w \in Vehicle \ {v} PROVE Past(i, w) <=> Past(i - 1, w)
      OBVIOUS
    <3>1. \A j \in 1..i : j = i \/ j \in 1..(i - 1)
      BY <2>1
    <3>2. 1..(i - 1) \subseteq 1..i
      BY <2>1
    <3> QED
      BY <3>1, <3>2
  <2> HIDE DEF Past
  <2>6. /\ A[v] = W[v] /\ B[v] = Cut(W[v], is[v])
        /\ \A w \in Vehicle \ {v} : B[w] = A[w]
        /\ \A w \in Vehicle : A[w] = W[w] \/ A[w] = Cut(W[w], is[w])
    BY <2>1, <2>4, <2>5
  <2> HIDE DEF A, B, s, q, Z
  <2>7. WorldShaped(A)
    <3> SUFFICES ASSUME NEW w \in Vehicle
                 PROVE  DOMAIN A[w] = WorldFields /\ Listed(A[w].up) /\ Listed(A[w].down)
      BY DEF WorldShaped
    <3>1. DOMAIN W[w] = WorldFields /\ Listed(W[w].up) /\ Listed(W[w].down)
      BY DEF WorldShaped
    <3>2. CASE A[w] = W[w]
      BY <3>1, <3>2
    <3>3. CASE A[w] = Cut(W[w], is[w]) /\ is[w] # 0
      <4> DEFINE z == SubSeq(W[w].up, 2, Len(W[w].up))
      <4>1. is[w] = 1 /\ Len(W[w].up) >= 1
        BY <3>3
      <4>2. Listed(z)
        BY <3>1, <4>1, RestIs
      <4>3. Cut(W[w], is[w]) = [W[w] EXCEPT !.up = z]
        BY <4>1 DEF Cut
      <4> HIDE DEF z
      <4> QED
        BY <3>1, <3>3, <4>2, <4>3 DEF WorldFields
    <3>4. CASE A[w] = Cut(W[w], is[w]) /\ is[w] = 0
      BY <3>1, <3>4 DEF Cut
    <3> QED
      BY <2>6, <3>2, <3>3, <3>4
  <2>8. CASE is[v] = 0
    <3>1. q = s
      BY <2>3, <2>8 DEF HearOne
    <3>2. \A w \in Vehicle : B[w] = A[w]
      BY <2>6, <2>8 DEF Cut
    <3>3. Seen(B, s) = Seen(A, s)
      BY <3>2 DEF Seen
    <3>4. Serves(B, s)
      BY <2>2, <3>3 DEF Serves
    <3> QED
      BY <2>1, <3>1, <3>4 DEF B, q
  <2>9. CASE is[v] # 0
    <3>1. is[v] = 1 /\ Len(A[v].up) >= 1 /\ A[v].up = ups[v]
      BY <2>1, <2>6, <2>9
    <3>2. q = OnSession(s, v, A[v].up[1])
      BY <2>3, <3>1 DEF HearOne
    <3>3. B[v] = Cut(A[v], 1)
      BY <2>6, <3>1
    <3>4. Serves(B, q)
      BY <2>1, <2>2, <2>6, <2>7, <3>1, <3>2, <3>3, HearServes
    <3> QED
      BY <2>1, <3>4 DEF B, q
  <2> QED
    BY <2>8, <2>9
<1>5. Len(Fleet) \in S
  <2> HIDE DEF S
  <2> QED
    BY <1>3, <1>4, FleetInduction
<1>6. \A v \in Vehicle : U[v] = Z(Len(Fleet))[v]
  BY FleetMember, FleetAssumption DEF Vehicle
<1>7. Serves(Z(Len(Fleet)), t)
  BY <1>1, <1>5
<1> HIDE DEF Z
<1>8. Seen(U, t) = Seen(Z(Len(Fleet)), t)
  BY <1>6 DEF Seen
<1> QED
  BY <1>7, <1>8 DEF Serves

\* What has been sent is on its way.
LEMMA AfterServes ==
  ASSUME NEW W, NEW st, Serves(W, st), NEW U,
         \A v \in Vehicle :
           /\ U[v].e = W[v].e /\ U[v].pos = W[v].pos /\ U[v].ahead = W[v].ahead
           /\ U[v].up = W[v].up
           /\ Values(U[v].down) \subseteq Values(W[v].down) \cup Values(st.sent[v]),
         NEW t, t = [st EXCEPT !.sent = [v \in Vehicle |-> <<>>]]
  PROVE  Serves(U, t) /\ t.pl = st.pl
<1> DEFINE X == Seen(W, st)
           Y == Seen(U, t)
<1>1. /\ StationShaped(t) /\ t.pl = st.pl /\ t.entry = st.entry
      /\ \A v \in Vehicle : t.sent[v] = <<>>
  <2>1. Listed(<<>>) /\ StationShaped(st)
    BY DEF Listed, Serves
  <2> QED
    BY <2>1 DEF StationShaped, StationFields
<1>2. ASSUME NEW v \in Vehicle
      PROVE  /\ Suits(Y[v], st.pl.body[v])
             /\ KeptFree(Y[v], st.pl.body[v]) = KeptFree(X[v], st.pl.body[v])
  <2>1. Like(X[v], Y[v])
    BY <1>1 DEF Seen, Like
  <2>2. Y[v].ds \subseteq X[v].ds
    BY <1>1 DEF Seen, Values
  <2>3. Suits(X[v], st.pl.body[v])
    BY DEF Serves, Reserves
  <2> HIDE DEF X, Y
  <2>4. \A d \in Y[v].ds : DecisionOK(X[v], st.pl.body[v], d)
    BY <2>2, <2>3 DEF Suits
  <2> QED
    BY <2>1, <2>3, <2>4, LikeSuits
<1>3. Reserves(X, st.pl)
  BY DEF Serves
<1> HIDE DEF X, Y
<1>4. Reserves(Y, st.pl)
  BY <1>2, <1>3, ViewReserves
<1> QED
  BY <1>1, <1>4 DEF Serves, Speaks, Y

=============================================================================
