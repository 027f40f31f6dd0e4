---------------------------- MODULE ControlProofs ----------------------------
(***************************************************************************)
(* That health found again always leads out of SelfCheck, and that the       *)
(* owner of a controller never sleeps past the gate of the twist that        *)
(* replaces a drive: for every controller, host and strategy, every timeout  *)
(* and period, and every bound on orders and configurations.                 *)
(***************************************************************************)
EXTENDS ControlLoop, TLAPS

-----------------------------------------------------------------------------
(* The invariant.                                                           *)

C == U!Controller(Number)

\* What the worker and the inbox have is at most two solves: the turn takes all that came, and
\* a node hears of a refused one when its spin ends.
Busy == IF job.seq = 0 THEN 0 ELSE 1
Counted ==
  /\ Len(inbox) + Busy <= 2
  /\ (~Module /\ phase \in {"ordered", "updated"}) => Len(inbox) + Busy <= 1

\* A drive was asked for by the mode that has it, wherever it is.
Own1(twist) == twist.drive => twist.own
Owned == Own1(ctl.command) /\ Own1(out.twist) /\ Own1(wire)

\* Only tracking has a solve in flight, and an answer to it is its own; the PVA it tracks was
\* received since it began.
Tracking ==
  /\ ctl.ticket.seq # 0 => ctl.mode = "Custom1" /\ Unicycle
  /\ ctl.ticket.seq # 0 =>
       /\ job.seq = ctl.ticket.seq => job.own
       /\ \A i \in DOMAIN inbox : (inbox[i].seq = ctl.ticket.seq /\ inbox[i].ok) => inbox[i].own
  /\ (Unicycle /\ ctl.mode = "Custom1") => ctl.reference # "before"

\* Health found leaves SelfCheck in the turn that finds it.
Found == ctl.mode = "SelfCheck" => ~ctl.healthy

\* A turn in Reset uses the gate.
Used == (phase \in {"ordered", "updated"} /\ ctl.mode = "Reset") => ~ctl.commandGate

\* The owner is called when the gate opens, but for a mecanum vehicle that tracks nothing, and
\* before the state is too old.
Called ==
  phase = "idle" =>
    /\ \/ wake <= Opens
       \/ ~Unicycle /\ ctl.mode = "Custom1" /\ wake <= 1
    /\ (ctl.healthy /\ wake > 0) => pose + wake <= StateTimeout + 1

Inv == TypeOK /\ Counted /\ Owned /\ Tracking /\ Found /\ Used /\ Called

-----------------------------------------------------------------------------
(* The record of the controller, one field at a time.                       *)

Ticket == [seq : Number, age : U!Age]

LEMMA PermitIs == U!Permit = Permit
BY DEF U!Permit, Permit, U!At, At

LEMMA SetMode ==
  ASSUME NEW c \in C, NEW v \in U!Mode, NEW d, d = [c EXCEPT !.mode = v]
  PROVE  /\ d \in C /\ d.mode = v
         /\ d.healthy = c.healthy /\ d.ever = c.ever /\ d.ticket = c.ticket /\ d.command = c.command
         /\ d.idle = c.idle /\ d.commandGate = c.commandGate /\ d.solveGate = c.solveGate /\ d.reference = c.reference
         /\ d.permit = c.permit /\ d.twist = c.twist /\ d.solve = c.solve
BY DEF C, U!Controller, Ticket

LEMMA SetHealthy ==
  ASSUME NEW c \in C, NEW v \in BOOLEAN, NEW d, d = [c EXCEPT !.healthy = v]
  PROVE  /\ d \in C /\ d.healthy = v
         /\ d.mode = c.mode /\ d.ever = c.ever /\ d.ticket = c.ticket /\ d.command = c.command
         /\ d.idle = c.idle /\ d.commandGate = c.commandGate /\ d.solveGate = c.solveGate /\ d.reference = c.reference
         /\ d.permit = c.permit /\ d.twist = c.twist /\ d.solve = c.solve
BY DEF C, U!Controller, Ticket

LEMMA SetEver ==
  ASSUME NEW c \in C, NEW v \in BOOLEAN, NEW d, d = [c EXCEPT !.ever = v]
  PROVE  /\ d \in C /\ d.ever = v
         /\ d.mode = c.mode /\ d.healthy = c.healthy /\ d.ticket = c.ticket /\ d.command = c.command
         /\ d.idle = c.idle /\ d.commandGate = c.commandGate /\ d.solveGate = c.solveGate /\ d.reference = c.reference
         /\ d.permit = c.permit /\ d.twist = c.twist /\ d.solve = c.solve
BY DEF C, U!Controller, Ticket

LEMMA SetTicket ==
  ASSUME NEW c \in C, NEW v \in Ticket, NEW d, d = [c EXCEPT !.ticket = v]
  PROVE  /\ d \in C /\ d.ticket = v
         /\ d.mode = c.mode /\ d.healthy = c.healthy /\ d.ever = c.ever /\ d.command = c.command
         /\ d.idle = c.idle /\ d.commandGate = c.commandGate /\ d.solveGate = c.solveGate /\ d.reference = c.reference
         /\ d.permit = c.permit /\ d.twist = c.twist /\ d.solve = c.solve
BY DEF C, U!Controller, Ticket

LEMMA SetCommand ==
  ASSUME NEW c \in C, NEW v \in U!Command, NEW d, d = [c EXCEPT !.command = v]
  PROVE  /\ d \in C /\ d.command = v
         /\ d.mode = c.mode /\ d.healthy = c.healthy /\ d.ever = c.ever /\ d.ticket = c.ticket
         /\ d.idle = c.idle /\ d.commandGate = c.commandGate /\ d.solveGate = c.solveGate /\ d.reference = c.reference
         /\ d.permit = c.permit /\ d.twist = c.twist /\ d.solve = c.solve
BY DEF C, U!Controller, Ticket

LEMMA SetIdle ==
  ASSUME NEW c \in C, NEW v \in 0..IdlePeriod, NEW d, d = [c EXCEPT !.idle = v]
  PROVE  /\ d \in C /\ d.idle = v
         /\ d.mode = c.mode /\ d.healthy = c.healthy /\ d.ever = c.ever /\ d.ticket = c.ticket
         /\ d.command = c.command /\ d.commandGate = c.commandGate /\ d.solveGate = c.solveGate /\ d.reference = c.reference
         /\ d.permit = c.permit /\ d.twist = c.twist /\ d.solve = c.solve
BY DEF C, U!Controller, Ticket

LEMMA SetCommandGate ==
  ASSUME NEW c \in C, NEW v \in BOOLEAN, NEW d, d = [c EXCEPT !.commandGate = v]
  PROVE  /\ d \in C /\ d.commandGate = v
         /\ d.mode = c.mode /\ d.healthy = c.healthy /\ d.ever = c.ever /\ d.ticket = c.ticket
         /\ d.command = c.command /\ d.idle = c.idle /\ d.solveGate = c.solveGate /\ d.reference = c.reference
         /\ d.permit = c.permit /\ d.twist = c.twist /\ d.solve = c.solve
BY DEF C, U!Controller, Ticket

LEMMA SetSolveGate ==
  ASSUME NEW c \in C, NEW v \in BOOLEAN, NEW d, d = [c EXCEPT !.solveGate = v]
  PROVE  /\ d \in C /\ d.solveGate = v
         /\ d.mode = c.mode /\ d.healthy = c.healthy /\ d.ever = c.ever /\ d.ticket = c.ticket
         /\ d.command = c.command /\ d.idle = c.idle /\ d.commandGate = c.commandGate /\ d.reference = c.reference
         /\ d.permit = c.permit /\ d.twist = c.twist /\ d.solve = c.solve
BY DEF C, U!Controller, Ticket

LEMMA SetReference ==
  ASSUME NEW c \in C, NEW v \in {"none", "before", "now"}, NEW d, d = [c EXCEPT !.reference = v]
  PROVE  /\ d \in C /\ d.reference = v
         /\ d.mode = c.mode /\ d.healthy = c.healthy /\ d.ever = c.ever /\ d.ticket = c.ticket
         /\ d.command = c.command /\ d.idle = c.idle /\ d.commandGate = c.commandGate /\ d.solveGate = c.solveGate
         /\ d.permit = c.permit /\ d.twist = c.twist /\ d.solve = c.solve
BY DEF C, U!Controller, Ticket

LEMMA SetPermit ==
  ASSUME NEW c \in C, NEW v \in Permit, NEW d, d = [c EXCEPT !.permit = v]
  PROVE  /\ d \in C /\ d.permit = v
         /\ d.mode = c.mode /\ d.healthy = c.healthy /\ d.ever = c.ever /\ d.ticket = c.ticket
         /\ d.command = c.command /\ d.idle = c.idle /\ d.commandGate = c.commandGate /\ d.solveGate = c.solveGate
         /\ d.reference = c.reference /\ d.twist = c.twist /\ d.solve = c.solve
BY PermitIs DEF C, U!Controller, Ticket

LEMMA SetTwist ==
  ASSUME NEW c \in C, NEW v \in {"none", "zero", "command"}, NEW d, d = [c EXCEPT !.twist = v]
  PROVE  /\ d \in C /\ d.twist = v
         /\ d.mode = c.mode /\ d.healthy = c.healthy /\ d.ever = c.ever /\ d.ticket = c.ticket
         /\ d.command = c.command /\ d.idle = c.idle /\ d.commandGate = c.commandGate /\ d.solveGate = c.solveGate
         /\ d.reference = c.reference /\ d.permit = c.permit /\ d.solve = c.solve
BY DEF C, U!Controller, Ticket

LEMMA SetSolve ==
  ASSUME NEW c \in C, NEW v \in Number, NEW d, d = [c EXCEPT !.solve = v]
  PROVE  /\ d \in C /\ d.solve = v
         /\ d.mode = c.mode /\ d.healthy = c.healthy /\ d.ever = c.ever /\ d.ticket = c.ticket
         /\ d.command = c.command /\ d.idle = c.idle /\ d.commandGate = c.commandGate /\ d.solveGate = c.solveGate
         /\ d.reference = c.reference /\ d.permit = c.permit /\ d.twist = c.twist
BY DEF C, U!Controller, Ticket

LEMMA Fields ==
  ASSUME NEW c \in C
  PROVE  /\ c.mode \in U!Mode /\ c.healthy \in BOOLEAN /\ c.ever \in BOOLEAN /\ c.ticket \in Ticket
         /\ c.command \in U!Command /\ c.idle \in 0..IdlePeriod /\ c.commandGate \in BOOLEAN
         /\ c.solveGate \in BOOLEAN /\ c.reference \in {"none", "before", "now"}
         /\ c.permit \in Permit /\ c.twist \in {"none", "zero", "command"} /\ c.solve \in Number
BY PermitIs DEF C, U!Controller, Ticket

LEMMA Zeros ==
  /\ U!NoCommand \in U!Command /\ ~U!NoCommand.drive /\ U!NoCommand.age = 0
  /\ M!NoCommand = U!NoCommand
  /\ U!NoTicket \in Ticket /\ U!NoTicket.seq = 0
BY TimesAssumption DEF U!NoCommand, U!Command, U!Age, U!MaxAge, M!NoCommand, U!NoTicket, Ticket, Number

-----------------------------------------------------------------------------
(* What a tick may do to the command and the outputs, and what it leaves.   *)

\* Only the command, its gates and the twist differ.
Emits(c, d) ==
  /\ d \in C /\ Own1(d.command)
  /\ d.mode = c.mode /\ d.healthy = c.healthy /\ d.ever = c.ever /\ d.ticket = c.ticket
  /\ d.solveGate = c.solveGate /\ d.reference = c.reference /\ d.permit = c.permit
  /\ d.solve = c.solve
  /\ ~c.commandGate => ~d.commandGate

LEMMA EmitsTwice ==
  ASSUME NEW c \in C, NEW d, NEW e, Emits(c, d), Emits(d, e)
  PROVE  Emits(c, e)
<1>1. ~c.commandGate => ~e.commandGate
  BY DEF Emits
<1> QED
  BY <1>1 DEF Emits

LEMMA ClearEmits ==
  ASSUME NEW c \in C
  PROVE  Emits(c, U!ClearCommand(c)) /\ U!ClearCommand(c).command = U!NoCommand
BY SetCommand, Zeros DEF U!ClearCommand, Emits, Own1

LEMMA ZeroEmits ==
  ASSUME NEW c \in C, NEW force \in BOOLEAN
  PROVE  Emits(c, U!Zero(c, force)) /\ U!Zero(c, force).command = U!NoCommand
<1> DEFINE d == [c EXCEPT !.command = U!NoCommand]
           e == [d EXCEPT !.idle = IdlePeriod]
           f == [e EXCEPT !.twist = "zero"]
<1>1. CASE force \/ c.idle = 0
  <2>1. U!Zero(c, force) = f
    BY <1>1 DEF U!Zero
  <2>2. Emits(c, d) /\ d.command = U!NoCommand
    BY SetCommand, Zeros DEF Emits, Own1
  <2> HIDE DEF d
  <2>3. Emits(d, e) /\ e.command = U!NoCommand
    BY <2>2, SetIdle, TimesAssumption DEF Emits
  <2> HIDE DEF e
  <2>4. Emits(e, f) /\ f.command = U!NoCommand
    BY <2>3, SetTwist DEF Emits
  <2> HIDE DEF f
  <2> QED
    BY <2>1, <2>2, <2>3, <2>4 DEF Emits
<1>2. CASE ~(force \/ c.idle = 0)
  BY <1>2, ClearEmits DEF U!Zero
<1> QED
  BY <1>1, <1>2

LEMMA ResetZeroEmits ==
  ASSUME NEW c \in C, NEW force \in BOOLEAN
  PROVE  /\ Emits(c, U!ResetZero(c, force)) /\ ~U!ResetZero(c, force).commandGate
         /\ U!ResetZero(c, force).command = U!NoCommand
<1> DEFINE t  == IF force \/ c.commandGate THEN "zero" ELSE c.twist
           no == FALSE
           d  == [c EXCEPT !.command = U!NoCommand]
           e  == [d EXCEPT !.commandGate = no]
           f  == [e EXCEPT !.twist = t]
<1>1. t \in {"none", "zero", "command"}
  BY Fields
<1>2. no \in BOOLEAN
  OBVIOUS
<1>3. ~no
  OBVIOUS
<1>4. U!ResetZero(c, force) = f
  BY DEF U!ResetZero
<1> HIDE DEF t, no
<1>5. Emits(c, d) /\ d.command = U!NoCommand
  BY SetCommand, Zeros DEF Emits, Own1
<1> HIDE DEF d
<1>6. d \in C
  BY <1>5 DEF Emits
<1>7. /\ e \in C /\ e.command = d.command /\ e.mode = d.mode /\ e.healthy = d.healthy /\ e.ever = d.ever
      /\ e.ticket = d.ticket /\ e.solveGate = d.solveGate /\ e.reference = d.reference
      /\ e.permit = d.permit /\ e.solve = d.solve
  BY <1>2, <1>6, SetCommandGate
<1>8. e.commandGate = no
  BY <1>2, <1>6, SetCommandGate
<1>9. ~e.commandGate
  BY <1>3, <1>8
<1> HIDE DEF e
<1>10. Emits(d, e)
  BY <1>5, <1>7, <1>9 DEF Emits
<1>11. Emits(e, f) /\ f.command = e.command /\ f.commandGate = e.commandGate
  BY <1>1, <1>7, <1>10, SetTwist DEF Emits
<1> HIDE DEF f
<1>12. Emits(c, f)
  BY <1>5, <1>6, <1>7, <1>10, <1>11, EmitsTwice
<1>13. ~f.commandGate
  BY <1>9, <1>11
<1>14. f.command = U!NoCommand
  BY <1>5, <1>7, <1>11
<1> QED
  BY <1>4, <1>12, <1>13, <1>14

LEMMA EmitZeroEmits ==
  ASSUME NEW c \in C, NEW force \in BOOLEAN
  PROVE  Emits(c, U!EmitZero(c, force)) /\ U!EmitZero(c, force).command = U!NoCommand
<1>1. (force \/ c.command.valid) \in BOOLEAN
  BY Fields DEF U!Command
<1> QED
  BY <1>1, ZeroEmits DEF U!EmitZero

LEMMA SetCommandEmits ==
  ASSUME NEW c \in C, NEW v \in U!Command, Own1(v)
  PROVE  Emits(c, U!SetCommand(c, v)) /\ U!SetCommand(c, v).commandGate = c.commandGate
<1> DEFINE w == IF U!RequiresZero(c.permit) THEN U!NoCommand ELSE v
<1>1. w \in U!Command /\ Own1(w)
  BY Zeros DEF Own1
<1>2. U!SetCommand(c, v) = [c EXCEPT !.command = w]
  BY DEF U!SetCommand
<1> HIDE DEF w
<1> QED
  BY <1>1, <1>2, SetCommand DEF Emits

LEMMA EmitCommandEmits ==
  ASSUME NEW c \in C, Own1(c.command)
  PROVE  Emits(c, U!EmitCommand(c))
<1> DEFINE t == IF c.commandGate THEN "command" ELSE c.twist
           no == FALSE
           d == [c EXCEPT !.commandGate = no]
           e == [d EXCEPT !.twist = t]
<1>1. CASE U!CommandReady(c)
  <2>1. t \in {"none", "zero", "command"}
    BY Fields
  <2>2. U!EmitCommand(c) = e
    BY <1>1 DEF U!EmitCommand
  <2>3. no \in BOOLEAN
    OBVIOUS
  <2>4. ~no
    OBVIOUS
  <2> HIDE DEF t, no
  <2>5. /\ d \in C /\ d.command = c.command /\ d.mode = c.mode /\ d.healthy = c.healthy
        /\ d.ever = c.ever
        /\ d.ticket = c.ticket /\ d.solveGate = c.solveGate /\ d.reference = c.reference
        /\ d.permit = c.permit /\ d.solve = c.solve
    BY <2>3, SetCommandGate
  <2>6. d.commandGate = no
    BY <2>3, SetCommandGate
  <2>7. ~d.commandGate
    BY <2>4, <2>6
  <2> HIDE DEF d
  <2>8. Emits(c, d)
    BY <2>5, <2>7 DEF Emits
  <2>9. Emits(d, e)
    BY <2>1, <2>5, SetTwist DEF Emits
  <2> HIDE DEF e
  <2> QED
    BY <2>2, <2>8, <2>9 DEF Emits
<1>2. CASE ~U!CommandReady(c)
  BY <1>2, EmitZeroEmits DEF U!EmitCommand
<1> QED
  BY <1>1, <1>2

LEMMA PublishIdleEmits ==
  ASSUME NEW c \in C, Own1(c.command)
  PROVE  Emits(c, U!PublishIdle(c)) /\ M!PublishIdle(c) = U!PublishIdle(c)
<1> DEFINE d == [c EXCEPT !.idle = IdlePeriod]
           e == [d EXCEPT !.twist = "zero"]
<1>1. CASE c.idle = 0
  <2>1. U!PublishIdle(c) = e /\ M!PublishIdle(c) = e
    BY <1>1 DEF U!PublishIdle, M!PublishIdle
  <2>2. Emits(c, d)
    BY SetIdle, TimesAssumption DEF Emits
  <2> HIDE DEF d
  <2>3. Emits(d, e)
    BY <2>2, SetTwist DEF Emits
  <2> HIDE DEF e
  <2> QED
    BY <2>1, <2>2, <2>3 DEF Emits
<1>2. CASE c.idle # 0
  BY <1>2 DEF U!PublishIdle, M!PublishIdle, Emits
<1> QED
  BY <1>1, <1>2

LEMMA DrivesEmit ==
  ASSUME NEW c \in C, NEW v \in U!Command, Own1(v)
  PROVE  Emits(c, U!EmitCommand(U!SetCommand(c, v)))
<1> DEFINE d == U!SetCommand(c, v)
<1>1. Emits(c, d)
  BY SetCommandEmits
<1> HIDE DEF d
<1>2. d \in C /\ Own1(d.command)
  BY <1>1 DEF Emits
<1>3. Emits(d, U!EmitCommand(d))
  BY <1>2, EmitCommandEmits
<1>4. Emits(c, U!EmitCommand(d))
  BY <1>1, <1>3, EmitsTwice
<1> QED
  BY <1>4 DEF d

\* The ticks of the unicycle.  Only tracking touches the ticket: it is dropped, or asks for
\* the solve `seq'.
Ticks(c, d, seq) ==
  /\ d \in C /\ Own1(d.command)
  /\ d.mode = c.mode /\ d.healthy = c.healthy /\ d.ever = c.ever
  /\ d.reference = c.reference /\ d.permit = c.permit
  /\ d.ticket = c.ticket \/ d.ticket.seq = 0 \/ (c.mode = "Custom1" /\ d.ticket.seq = seq)

LEMMA EmitsTicks ==
  ASSUME NEW c, NEW d, NEW e, NEW seq, Ticks(c, d, seq), Emits(d, e)
  PROVE  Ticks(c, e, seq)
BY DEF Ticks, Emits

LEMMA FlatnessTicks ==
  ASSUME NEW c \in C, Own1(c.command), c.reference # "before",
         NEW sample \in {"good", "same", "fail", "wait"}
  PROVE  Emits(c, U!FlatnessTick(c, sample))
<1> DEFINE v == [valid |-> TRUE, drive |-> TRUE, age |-> 0, own |-> c.reference = "now"]
           no == FALSE
<1>1. no \in BOOLEAN
  OBVIOUS
<1>2. CASE c.reference = "none" \/ sample = "fail"
  <2>1. U!FlatnessTick(c, sample) = U!EmitZero(c, no)
    BY <1>2 DEF U!FlatnessTick
  <2> HIDE DEF no
  <2> QED
    BY <1>1, <2>1, EmitZeroEmits
<1>3. CASE c.reference # "none" /\ sample = "same"
  <2>1. U!FlatnessTick(c, sample) = U!EmitCommand(c)
    BY <1>3 DEF U!FlatnessTick
  <2> QED
    BY <2>1, EmitCommandEmits
<1>4. CASE c.reference # "none" /\ sample = "wait"
  <2>1. U!FlatnessTick(c, sample) = IF U!CommandReady(c) THEN U!EmitCommand(c) ELSE c
    BY <1>4 DEF U!FlatnessTick
  <2>2. Emits(c, c)
    BY DEF Emits
  <2> QED
    BY <2>1, <2>2, EmitCommandEmits
<1>5. CASE c.reference # "none" /\ sample = "good"
  <2>1. U!FlatnessTick(c, sample) = U!EmitCommand(U!SetCommand(c, v))
    BY <1>5 DEF U!FlatnessTick
  <2>2. v \in U!Command
    BY TimesAssumption DEF U!Command, U!Age, U!MaxAge
  <2>3. v.own
    BY <1>5, Fields
  <2> HIDE DEF v
  <2> QED
    BY <2>1, <2>2, <2>3, DrivesEmit DEF Own1
<1> QED
  BY <1>2, <1>3, <1>4, <1>5

LEMMA ExpiredTicks ==
  ASSUME NEW c \in C, Own1(c.command), NEW seq
  PROVE  /\ Ticks(c, U!Expired(c), seq)
         /\ U!Expired(c).ticket = c.ticket \/ U!Expired(c).ticket.seq = 0
         /\ U!Expired(c).solve = c.solve /\ U!Expired(c).command = c.command
<1> DEFINE d == [c EXCEPT !.ticket = U!NoTicket]
<1>1. CASE U!Expired(c) = c
  BY <1>1 DEF Ticks
<1>2. CASE U!Expired(c) = d
  BY <1>2, Zeros, SetTicket DEF Ticks
<1> QED
  BY <1>1, <1>2 DEF U!Expired

LEMMA NmpcTicks ==
  ASSUME NEW c \in C, Own1(c.command), c.mode = "Custom1", NEW there \in BOOLEAN,
         NEW seq \in Number
  PROVE  Ticks(c, U!NmpcTick(c, there, seq), seq)
<1> DEFINE no == FALSE
           v == [seq |-> seq, age |-> 0]
           d == [c EXCEPT !.ticket = v]
           e == [d EXCEPT !.solveGate = no]
           f == [e EXCEPT !.solve = seq]
           x == U!Expired(c)
<1>1. Ticks(c, x, seq)
  BY ExpiredTicks
<1>2. x \in C /\ Own1(x.command)
  BY <1>1 DEF Ticks
<1>3. no \in BOOLEAN
  OBVIOUS
<1>4. CASE ~there
  <2>1. U!NmpcTick(c, there, seq) = U!EmitZero(x, no)
    BY <1>4 DEF U!NmpcTick
  <2> HIDE DEF x, no
  <2> QED
    BY <1>1, <1>2, <1>3, <2>1, EmitZeroEmits, EmitsTicks
<1>5. CASE there /\ x.ticket.seq = 0 /\ c.solveGate
  <2>1. U!NmpcTick(c, there, seq) = U!EmitCommand(f)
    BY <1>5 DEF U!NmpcTick
  <2>2. v \in Ticket /\ v.seq = seq
    BY TimesAssumption DEF Ticket, U!Age, U!MaxAge
  <2> HIDE DEF no, v, x
  <2>3. Ticks(c, d, seq) /\ d \in C /\ d.command = c.command
    BY <2>2, SetTicket DEF Ticks
  <2> HIDE DEF d
  <2>4. /\ e \in C /\ e.mode = d.mode /\ e.healthy = d.healthy /\ e.ever = d.ever
        /\ e.ticket = d.ticket /\ e.command = d.command /\ e.reference = d.reference
        /\ e.permit = d.permit
    BY <1>3, <2>3, SetSolveGate
  <2> HIDE DEF e
  <2>5. Ticks(c, e, seq) /\ e.command = d.command
    BY <2>3, <2>4 DEF Ticks
  <2>6. Ticks(c, f, seq) /\ f.command = c.command /\ f \in C
    BY <2>3, <2>4, <2>5, SetSolve DEF Ticks
  <2> HIDE DEF f
  <2>7. Emits(f, U!EmitCommand(f))
    BY <2>6, EmitCommandEmits
  <2> QED
    BY <2>1, <2>6, <2>7, EmitsTicks
<1>6. CASE there /\ ~(x.ticket.seq = 0 /\ c.solveGate)
  <2>1. U!NmpcTick(c, there, seq) = U!EmitCommand(x)
    BY <1>6 DEF U!NmpcTick
  <2> HIDE DEF x
  <2>2. Emits(x, U!EmitCommand(x))
    BY <1>2, EmitCommandEmits
  <2> QED
    BY <1>1, <2>1, <2>2, EmitsTicks
<1> QED
  BY <1>4, <1>5, <1>6

LEMMA SendEmits ==
  ASSUME NEW c \in C, NEW v \in U!Command, Own1(v)
  PROVE  LET d == [U!SetCommand(c, v) EXCEPT !.commandGate = FALSE,
                                              !.twist = IF c.commandGate THEN "command" ELSE @]
         IN  Emits(c, d) /\ ~d.commandGate
<1> DEFINE x  == U!SetCommand(c, v)
           t  == IF c.commandGate THEN "command" ELSE x.twist
           no == FALSE
           d  == [x EXCEPT !.commandGate = no]
           e  == [d EXCEPT !.twist = t]
           g  == [x EXCEPT !.commandGate = FALSE, !.twist = IF c.commandGate THEN "command" ELSE @]
<1>1. Emits(c, x)
  BY SetCommandEmits
<1>2. no \in BOOLEAN
  OBVIOUS
<1>3. ~no
  OBVIOUS
<1>4. g = e
  OBVIOUS
<1> HIDE DEF x, g
<1>5. x \in C /\ Own1(x.command)
  BY <1>1 DEF Emits
<1>6. t \in {"none", "zero", "command"}
  BY <1>5, Fields
<1> HIDE DEF t, no
<1>7. /\ d \in C /\ d.command = x.command /\ d.mode = x.mode /\ d.healthy = x.healthy /\ d.ever = x.ever
      /\ d.ticket = x.ticket /\ d.solveGate = x.solveGate /\ d.reference = x.reference
      /\ d.permit = x.permit /\ d.solve = x.solve
  BY <1>2, <1>5, SetCommandGate
<1>8. d.commandGate = no
  BY <1>2, <1>5, SetCommandGate
<1>9. ~d.commandGate
  BY <1>3, <1>8
<1> HIDE DEF d
<1>10. Emits(x, d)
  BY <1>5, <1>7, <1>9 DEF Emits
<1>11. Emits(d, e) /\ e.commandGate = d.commandGate
  BY <1>5, <1>6, <1>7, <1>10, SetTwist DEF Emits
<1> HIDE DEF e
<1>12. Emits(c, e)
  BY <1>1, <1>5, <1>7, <1>10, <1>11, EmitsTwice
<1>13. ~e.commandGate
  BY <1>9, <1>11
<1>14. Emits(c, g) /\ ~g.commandGate
  BY <1>4, <1>12, <1>13
<1> QED
  BY <1>14 DEF g, x

LEMMA ResetTicks ==
  ASSUME NEW c \in C, NEW healthy \in BOOLEAN
  PROVE  Emits(c, U!ResetTick(c, healthy)) /\ ~U!ResetTick(c, healthy).commandGate
<1> DEFINE no == FALSE
           v  == [valid |-> TRUE, drive |-> c.permit.at = "Executing", age |-> 0, own |-> TRUE]
           g  == [U!SetCommand(c, v) EXCEPT !.commandGate = FALSE,
                                              !.twist = IF c.commandGate THEN "command" ELSE @]
<1>1. no \in BOOLEAN
  OBVIOUS
<1>2. CASE ~c.permit.active \/ ~healthy
  <2>1. U!ResetTick(c, healthy) = U!ResetZero(c, no)
    BY <1>2 DEF U!ResetTick
  <2> HIDE DEF no
  <2> QED
    BY <1>1, <2>1, ResetZeroEmits
<1>3. CASE ~(~c.permit.active \/ ~healthy)
  <2>1. U!ResetTick(c, healthy) = g
    BY <1>3 DEF U!ResetTick
  <2>2. v \in U!Command
    BY TimesAssumption DEF U!Command, U!Age, U!MaxAge
  <2>3. v.own
    OBVIOUS
  <2> HIDE DEF v
  <2>4. Emits(c, g) /\ ~g.commandGate
    BY <2>2, <2>3, SendEmits DEF Own1
  <2> QED
    BY <2>1, <2>4
<1> QED
  BY <1>2, <1>3

LEMMA UnicycleTicks ==
  ASSUME NEW c \in C, Own1(c.command), c.mode = "Custom1" => c.reference # "before",
         NEW in, in.strategy \in {"NMPC", "FLATNESS"}, in.sample \in {"good", "same", "fail", "wait"},
         in.cached \in BOOLEAN, in.healthy \in BOOLEAN, in.seq \in Number
  PROVE  /\ Ticks(c, U!Tick(c, in), in.seq)
         /\ c.mode = "Reset" => ~U!Tick(c, in).commandGate
<1>1. Ticks(c, c, in.seq)
  BY DEF Ticks
<1>2. c.mode \in {"SelfCheck", "Ready", "Custom1", "Reset"}
  BY Fields DEF U!Mode
<1>3. CASE c.mode \in {"SelfCheck", "Ready"}
  <2>1. U!Tick(c, in) = U!PublishIdle(c)
    BY <1>3 DEF U!Tick
  <2>2. Emits(c, U!PublishIdle(c))
    BY PublishIdleEmits
  <2> QED
    BY <1>1, <1>3, <2>1, <2>2, EmitsTicks
<1>4. CASE c.mode = "Custom1" /\ in.strategy = "FLATNESS"
  <2>1. U!Tick(c, in) = U!FlatnessTick(c, in.sample)
    BY <1>4 DEF U!Tick
  <2>2. Emits(c, U!FlatnessTick(c, in.sample))
    BY <1>4, FlatnessTicks
  <2> QED
    BY <1>1, <1>4, <2>1, <2>2, EmitsTicks
<1>5. CASE c.mode = "Custom1" /\ in.strategy = "NMPC"
  <2>1. U!Tick(c, in) = U!NmpcTick(c, in.cached, in.seq)
    BY <1>5 DEF U!Tick
  <2> QED
    BY <1>5, <2>1, NmpcTicks
<1>6. CASE c.mode = "Reset"
  <2>1. U!Tick(c, in) = U!ResetTick(c, in.healthy)
    BY <1>6 DEF U!Tick
  <2>2. Emits(c, U!ResetTick(c, in.healthy)) /\ ~U!ResetTick(c, in.healthy).commandGate
    BY ResetTicks
  <2> QED
    BY <1>1, <2>1, <2>2, EmitsTicks
<1> QED
  BY <1>2, <1>3, <1>4, <1>5, <1>6

\* The ticks of the mecanum vehicle leave the ticket alone.
LEMMA MecanumTicks ==
  ASSUME NEW c \in C, Own1(c.command), NEW in, in.healthy \in BOOLEAN
  PROVE  /\ Emits(c, M!Tick(c, in))
         /\ c.mode = "Reset" => ~M!Tick(c, in).commandGate
<1> DEFINE no == FALSE
           g(v) == [U!SetCommand(c, v) EXCEPT !.commandGate = FALSE,
                                              !.twist = IF c.commandGate THEN "command" ELSE @]
<1>1. \A v : M!SetCommand(c, v) = U!SetCommand(c, v)
  BY Zeros DEF M!SetCommand, U!SetCommand, M!RequiresZero, U!RequiresZero, M!Pending, U!Pending
<1>2. \A x : M!ResetZero(c, x) = U!ResetZero(c, x)
  BY Zeros DEF M!ResetZero, U!ResetZero
<1>3. no \in BOOLEAN
  OBVIOUS
<1>4. c.mode \in {"SelfCheck", "Ready", "Custom1", "Reset"}
  BY Fields DEF U!Mode
<1>5. CASE c.mode \in {"SelfCheck", "Ready"}
  <2>1. M!Tick(c, in) = U!PublishIdle(c)
    BY <1>5, PublishIdleEmits DEF M!Tick
  <2> QED
    BY <1>5, <2>1, PublishIdleEmits
<1>6. CASE c.mode = "Custom1"
  <2>1. M!Tick(c, in) = M!TrackTick(c, in.sample)
    BY <1>6 DEF M!Tick
  <2>2. Emits(c, c)
    BY DEF Emits
  <2>3. Emits(c, M!EmitZero(c))
    <3> DEFINE d == [c EXCEPT !.command = U!NoCommand]
               e == [d EXCEPT !.twist = "zero"]
    <3>1. M!EmitZero(c) = e
      BY Zeros DEF M!EmitZero
    <3>2. Emits(c, d)
      BY SetCommand, Zeros DEF Emits, Own1
    <3> HIDE DEF d
    <3>3. d \in C /\ Own1(d.command)
      BY <3>2 DEF Emits
    <3>4. Emits(d, e)
      BY <3>3, SetTwist DEF Emits
    <3> HIDE DEF e
    <3> QED
      BY <3>1, <3>2, <3>4, EmitsTwice
  <2>4. Emits(c, M!Emit(c, M!Driving))
    <3>1. CASE c.commandGate
      <4> DEFINE v == M!Driving
      <4>1. M!Emit(c, v) = g(v)
        BY <1>1, <3>1 DEF M!Emit
      <4>2. v \in U!Command
        BY TimesAssumption DEF U!Command, U!Age, U!MaxAge, M!Driving
      <4>3. v.own
        BY DEF M!Driving
      <4> HIDE DEF v
      <4>4. Emits(c, g(v))
        BY <4>2, <4>3, SendEmits DEF Own1
      <4>5. Emits(c, M!Emit(c, v))
        BY <4>1, <4>4
      <4> QED
        BY <4>5 DEF v
    <3>2. CASE ~c.commandGate
      BY <2>2, <3>2 DEF M!Emit
    <3> QED
      BY <3>1, <3>2
  <2> QED
    BY <1>6, <2>1, <2>2, <2>3, <2>4 DEF M!TrackTick
<1>7. CASE c.mode = "Reset"
  <2>1. M!Tick(c, in) = M!ResetTick(c, in.healthy)
    BY <1>7 DEF M!Tick
  <2>2. CASE ~c.permit.active \/ ~in.healthy
    <3>1. M!ResetTick(c, in.healthy) = U!ResetZero(c, no)
      BY <1>2, <2>2 DEF M!ResetTick
    <3> HIDE DEF no
    <3> QED
      BY <1>3, <2>1, <3>1, ResetZeroEmits
  <2>3. CASE ~(~c.permit.active \/ ~in.healthy)
    <3> DEFINE v == [M!Driving EXCEPT !.drive = (c.permit.at = "Executing")]
    <3>1. M!ResetTick(c, in.healthy) =
            [M!SetCommand(c, v) EXCEPT !.commandGate = FALSE,
                                       !.twist = IF c.commandGate THEN "command" ELSE @]
      BY <2>3, Zenon DEF M!ResetTick
    <3>2. v \in U!Command
      <4> DEFINE x == (c.permit.at = "Executing")
                 w == [M!Driving EXCEPT !.drive = x]
      <4>1. x \in BOOLEAN
        OBVIOUS
      <4>2. v = w
        BY Zenon
      <4>3. M!Driving \in U!Command
        BY TimesAssumption DEF U!Command, U!Age, U!MaxAge, M!Driving
      <4> HIDE DEF x
      <4>4. w \in U!Command
        BY <4>1, <4>3 DEF U!Command
      <4> QED
        BY <4>2, <4>4
    <3>3. v.own
      BY DEF M!Driving
    <3> HIDE DEF v
    <3>4. Emits(c, g(v)) /\ ~g(v).commandGate
      BY <3>2, <3>3, SendEmits DEF Own1
    <3>5. M!ResetTick(c, in.healthy) = g(v)
      BY <1>1, <3>1
    <3> QED
      BY <2>1, <3>4, <3>5
  <2> QED
    BY <2>2, <2>3
<1> QED
  BY <1>4, <1>5, <1>6, <1>7


-----------------------------------------------------------------------------
(* Leaving and entering an alternative.                                     *)

LEMMA Reinstalls ==
  ASSUME NEW c \in C, NEW p \in Permit
  PROVE  LET d == [c EXCEPT !.permit = p, !.ever = TRUE]
         IN  /\ d \in C /\ d.mode = c.mode /\ d.ticket = c.ticket /\ d.reference = c.reference
             /\ d.command = c.command
<1> DEFINE yes == TRUE
           d == [c EXCEPT !.permit = p]
           e == [d EXCEPT !.ever = yes]
           g == [c EXCEPT !.permit = p, !.ever = TRUE]
<1>1. yes \in BOOLEAN
  OBVIOUS
<1>2. g = e
  OBVIOUS
<1> HIDE DEF yes, g
<1>3. /\ d \in C /\ d.mode = c.mode /\ d.ticket = c.ticket /\ d.reference = c.reference
      /\ d.command = c.command
  BY SetPermit
<1> HIDE DEF d
<1>4. /\ e \in C /\ e.mode = c.mode /\ e.ticket = c.ticket /\ e.reference = c.reference
      /\ e.command = c.command
  BY <1>1, <1>3, SetEver
<1> HIDE DEF e
<1>5. /\ g \in C /\ g.mode = c.mode /\ g.ticket = c.ticket /\ g.reference = c.reference
      /\ g.command = c.command
  BY <1>2, <1>4
<1> QED
  BY <1>5 DEF g

LEMMA UnicycleLeaves ==
  ASSUME NEW c \in C, Own1(c.command), NEW p \in Permit
  PROVE  U!Exit(c, p) \in C /\ Own1(U!Exit(c, p).command)
<1> DEFINE yes == TRUE
<1>1. yes \in BOOLEAN
  OBVIOUS
<1>2. CASE c.mode = "Custom1"
  <2> DEFINE d == U!EmitZero(c, yes)
             w == IF d.reference = "none" THEN "none" ELSE "before"
             e == [d EXCEPT !.reference = w]
  <2>1. U!Exit(c, p) = e
    BY <1>2 DEF U!Exit
  <2> HIDE DEF yes
  <2>2. Emits(c, d)
    BY <1>1, EmitZeroEmits
  <2> HIDE DEF d
  <2>3. w \in {"none", "before", "now"}
    OBVIOUS
  <2> HIDE DEF w
  <2>4. e \in C /\ e.command = d.command
    BY <2>2, <2>3, SetReference DEF Emits
  <2> HIDE DEF e
  <2> QED
    BY <2>1, <2>2, <2>4 DEF Emits
<1>3. CASE c.mode = "Reset"
  <2> DEFINE d == [c EXCEPT !.permit = p]
  <2>1. U!Exit(c, p) = U!ResetZero(d, yes)
    BY <1>3 DEF U!Exit
  <2>2. d \in C
    BY SetPermit
  <2> HIDE DEF d, yes
  <2>3. Emits(d, U!ResetZero(d, yes))
    BY <1>1, <2>2, ResetZeroEmits
  <2> QED
    BY <2>1, <2>3 DEF Emits
<1>4. CASE c.mode \notin {"Custom1", "Reset"}
  BY <1>4 DEF U!Exit
<1> QED
  BY <1>2, <1>3, <1>4

LEMMA MecanumLeaves ==
  ASSUME NEW c \in C, Own1(c.command), NEW p \in Permit
  PROVE  /\ M!Exit(c, p) \in C /\ Own1(M!Exit(c, p).command)
         /\ M!Exit(c, p).ticket = c.ticket
<1> DEFINE yes == TRUE
<1>1. yes \in BOOLEAN
  OBVIOUS
<1>2. CASE c.mode = "Custom1"
  <2> DEFINE d == [c EXCEPT !.command = U!NoCommand]
             e == [d EXCEPT !.twist = "zero"]
  <2>1. M!Exit(c, p) = e
    BY <1>2, Zeros DEF M!Exit, M!EmitZero
  <2>2. d \in C /\ d.command = U!NoCommand /\ d.ticket = c.ticket
    BY Zeros, SetCommand
  <2> HIDE DEF d
  <2>3. e \in C /\ e.command = U!NoCommand /\ e.ticket = c.ticket
    BY <2>2, SetTwist
  <2> HIDE DEF e
  <2> QED
    BY <2>1, <2>3, Zeros DEF Own1
<1>3. CASE c.mode = "Reset"
  <2> DEFINE d == [c EXCEPT !.permit = p]
  <2>1. M!ResetZero(d, yes) = U!ResetZero(d, yes)
    BY Zeros DEF M!ResetZero, U!ResetZero
  <2>2. M!Exit(c, p) = U!ResetZero(d, yes)
    BY <1>3, <2>1 DEF M!Exit
  <2>3. d \in C /\ d.ticket = c.ticket
    BY SetPermit
  <2> HIDE DEF d, yes
  <2>4. Emits(d, U!ResetZero(d, yes))
    BY <1>1, <2>3, ResetZeroEmits
  <2> QED
    BY <2>2, <2>3, <2>4 DEF Emits
<1>4. CASE c.mode \notin {"Custom1", "Reset"}
  BY <1>4 DEF M!Exit
<1> QED
  BY <1>2, <1>3, <1>4

\* A new alternative drives nothing, and one of the unicycle has no ticket and no PVA of before.
LEMMA UnicycleEnters ==
  ASSUME NEW c \in C, NEW to \in U!Mode, NEW p \in Permit
  PROVE  /\ U!Enter(c, to, p) \in C /\ Own1(U!Enter(c, to, p).command)
         /\ U!Enter(c, to, p).mode = to /\ U!Enter(c, to, p).ticket.seq = 0
         /\ to = "Custom1" => U!Enter(c, to, p).reference = "none"
         /\ to = "Reset" => ~U!Enter(c, to, p).commandGate
<1> DEFINE yes == TRUE
           a == U!ClearCommand(c)
           r == IF to = "Custom1" THEN "none" ELSE a.reference
           c1 == [a EXCEPT !.mode = to]
           c2 == [c1 EXCEPT !.ticket = U!NoTicket]
           c3 == [c2 EXCEPT !.idle = 0]
           c4 == [c3 EXCEPT !.commandGate = yes]
           c5 == [c4 EXCEPT !.solveGate = yes]
           c6 == [c5 EXCEPT !.reference = r]
           g == [c6 EXCEPT !.permit = p, !.ever = TRUE]
<1>1. yes \in BOOLEAN
  OBVIOUS
<1>2. U!Enter(c, to, p) = IF to = "Reset" THEN U!ResetZero(g, yes) ELSE c6
  BY DEF U!Enter
<1>3. Emits(c, a) /\ a.command = U!NoCommand
  BY ClearEmits
<1>4. r \in {"none", "before", "now"}
  BY <1>3, Fields DEF Emits
<1>5. to = "Custom1" => r = "none"
  OBVIOUS
<1>6. 0 \in 0..IdlePeriod
  BY TimesAssumption
<1> HIDE DEF yes, a, r
<1>7. c1 \in C /\ c1.mode = to /\ c1.command = U!NoCommand
  BY <1>3, SetMode DEF Emits
<1> HIDE DEF c1
<1>8. c2 \in C /\ c2.mode = to /\ c2.command = U!NoCommand /\ c2.ticket = U!NoTicket
  BY <1>7, Zeros, SetTicket
<1> HIDE DEF c2
<1>9. c3 \in C /\ c3.mode = to /\ c3.command = U!NoCommand /\ c3.ticket = U!NoTicket
  BY <1>6, <1>8, SetIdle
<1> HIDE DEF c3
<1>10. c4 \in C /\ c4.mode = to /\ c4.command = U!NoCommand /\ c4.ticket = U!NoTicket
  BY <1>1, <1>9, SetCommandGate
<1> HIDE DEF c4
<1>11. c5 \in C /\ c5.mode = to /\ c5.command = U!NoCommand /\ c5.ticket = U!NoTicket
  BY <1>1, <1>10, SetSolveGate
<1> HIDE DEF c5
<1>12. /\ c6 \in C /\ c6.mode = to /\ c6.command = U!NoCommand /\ c6.ticket = U!NoTicket
       /\ c6.reference = r
  BY <1>4, <1>11, SetReference
<1> HIDE DEF c6
<1>13. CASE to = "Reset"
  <2>1. g \in C /\ g.mode = to /\ g.ticket = U!NoTicket /\ g.reference = r
    BY <1>12, Reinstalls
  <2> HIDE DEF g
  <2>2. Emits(g, U!ResetZero(g, yes)) /\ ~U!ResetZero(g, yes).commandGate
    BY <1>1, <2>1, ResetZeroEmits
  <2> QED
    BY <1>2, <1>13, <2>1, <2>2, Zeros DEF Emits
<1>14. CASE to # "Reset"
  BY <1>2, <1>5, <1>12, <1>14, Zeros DEF Own1
<1> QED
  BY <1>13, <1>14

LEMMA MecanumEnters ==
  ASSUME NEW c \in C, NEW to \in U!Mode, NEW p \in Permit
  PROVE  /\ M!Enter(c, to, p) \in C /\ Own1(M!Enter(c, to, p).command)
         /\ M!Enter(c, to, p).mode = to /\ M!Enter(c, to, p).ticket = c.ticket
         /\ to = "Reset" => ~M!Enter(c, to, p).commandGate
<1> DEFINE yes == TRUE
           c1 == [c EXCEPT !.mode = to]
           c2 == [c1 EXCEPT !.command = U!NoCommand]
           c3 == [c2 EXCEPT !.idle = 0]
           c4 == [c3 EXCEPT !.commandGate = yes]
           g == [c4 EXCEPT !.permit = p, !.ever = TRUE]
<1>1. yes \in BOOLEAN
  OBVIOUS
<1>2. M!ResetZero(g, yes) = U!ResetZero(g, yes)
  BY Zeros DEF M!ResetZero, U!ResetZero
<1>3. M!Enter(c, to, p) = IF to = "Reset" THEN U!ResetZero(g, yes) ELSE c4
  BY <1>2, Zeros DEF M!Enter
<1>4. 0 \in 0..IdlePeriod
  BY TimesAssumption
<1> HIDE DEF yes
<1>5. c1 \in C /\ c1.mode = to /\ c1.ticket = c.ticket
  BY SetMode
<1> HIDE DEF c1
<1>6. c2 \in C /\ c2.mode = to /\ c2.command = U!NoCommand /\ c2.ticket = c.ticket
  BY <1>5, Zeros, SetCommand
<1> HIDE DEF c2
<1>7. c3 \in C /\ c3.mode = to /\ c3.command = U!NoCommand /\ c3.ticket = c.ticket
  BY <1>4, <1>6, SetIdle
<1> HIDE DEF c3
<1>8. c4 \in C /\ c4.mode = to /\ c4.command = U!NoCommand /\ c4.ticket = c.ticket
  BY <1>1, <1>7, SetCommandGate
<1> HIDE DEF c4
<1>9. CASE to = "Reset"
  <2>1. g \in C /\ g.mode = to /\ g.ticket = c.ticket
    BY <1>8, Reinstalls
  <2> HIDE DEF g
  <2>2. Emits(g, U!ResetZero(g, yes)) /\ ~U!ResetZero(g, yes).commandGate
    BY <1>1, <2>1, ResetZeroEmits
  <2> QED
    BY <1>3, <1>9, <2>1, <2>2 DEF Emits
<1>10. CASE to # "Reset"
  BY <1>3, <1>8, <1>10, Zeros DEF Own1
<1> QED
  BY <1>9, <1>10


-----------------------------------------------------------------------------
(* The rules.                                                               *)

Places == U!Mode \cup {"stay"}

LEMMA OrderedLeads ==
  ASSUME NEW mode \in U!Mode, NEW order, NEW lost \in BOOLEAN, NEW credit
  PROVE  /\ U!Ordered(mode, order, lost, credit) \in Places
         /\ U!Ordered(mode, order, lost, credit) = "SelfCheck" => lost
         /\ mode = "SelfCheck" => U!Ordered(mode, order, lost, credit) = "stay"
         /\ M!Ordered(mode, order, lost, credit) \in Places
         /\ M!Ordered(mode, order, lost, credit) = "SelfCheck" => lost
         /\ (mode = "SelfCheck" => M!Ordered(mode, order, lost, credit) = "stay")
<1>1. CASE mode = "SelfCheck"
  BY <1>1 DEF U!Ordered, M!Ordered, Places
<1>2. CASE mode # "SelfCheck" /\ order = "Reset"
  BY <1>2 DEF U!Ordered, M!Ordered, Places, U!Mode
<1>3. CASE mode # "SelfCheck" /\ order # "Reset"
  <2>1. U!Ordered(mode, order, lost, credit) =
          IF mode = "Ready" /\ order = "Custom1" THEN "Custom1"
          ELSE IF mode = "Custom1" /\ lost THEN "SelfCheck"
          ELSE IF mode \in {"Custom1", "Reset"} /\ order = "Stop" THEN "Ready" ELSE "stay"
    BY <1>3 DEF U!Ordered
  <2>2. M!Ordered(mode, order, lost, credit) =
          IF mode = "Ready" /\ order = "Custom1" THEN "Custom1"
          ELSE IF mode = "Custom1" /\ lost THEN "SelfCheck"
          ELSE IF mode \in {"Custom1", "Reset"} /\ order = "Stop" THEN "Ready" ELSE "stay"
    BY <1>3 DEF M!Ordered
  <2> QED
    BY <1>3, <2>1, <2>2 DEF Places, U!Mode
<1> QED
  BY <1>1, <1>2, <1>3

\* SelfCheck is entered only without health, and left in the turn that finds it.
Safe(c, in, to) ==
  /\ to \in Places
  /\ to = "SelfCheck" => ~in.healthy
  /\ (c.mode = "SelfCheck" /\ ~c.healthy /\ in.healthy) => to = "Ready"

LEMMA UnicycleLeads ==
  ASSUME NEW c, NEW t, t.mode \in U!Mode, t.mode = c.mode, NEW in, NEW order, in.healthy \in BOOLEAN,
         c.healthy \in BOOLEAN
  PROVE  Safe(c, in, U!Destination(c, t, in, order))
<1> DEFINE input == U!Input(c, in, order)
           edge  == in.healthy # c.healthy
           lost  == edge /\ ~in.healthy
           there == U!Ordered(t.mode, input, lost, in.credit)
           first == IF input = "none" \/ U!Refused(t, input) THEN "stay" ELSE there
           then  == IF first = "stay" /\ edge THEN U!Healed(t.mode, in.healthy) ELSE first
           last  == IF then = "stay" /\ t.mode = "Reset" /\ ~t.permit.active THEN "Ready" ELSE then
<1>1. U!Destination(c, t, in, order) = last
  BY DEF U!Destination
<1>2. lost \in BOOLEAN
  OBVIOUS
<1>3. lost => ~in.healthy
  OBVIOUS
<1> HIDE DEF input, lost
<1>4. /\ there \in Places
      /\ there = "SelfCheck" => lost
      /\ t.mode = "SelfCheck" => there = "stay"
  BY <1>2, OrderedLeads
<1> HIDE DEF there
<1>5. /\ first \in Places
      /\ first = "SelfCheck" => ~in.healthy
      /\ t.mode = "SelfCheck" => first = "stay"
  BY <1>3, <1>4 DEF Places
<1> HIDE DEF first
<1>6. /\ then \in Places
      /\ then = "SelfCheck" => ~in.healthy
      /\ (t.mode = "SelfCheck" /\ ~c.healthy /\ in.healthy) => then = "Ready"
  BY <1>5 DEF Places, U!Mode, U!Healed
<1> HIDE DEF then
<1> QED
  BY <1>1, <1>6 DEF Safe, Places, U!Mode

LEMMA MecanumLeads ==
  ASSUME NEW c, NEW t, t.mode \in U!Mode, t.mode = c.mode, NEW in, NEW order, in.healthy \in BOOLEAN,
         c.healthy \in BOOLEAN
  PROVE  Safe(c, in, M!Destination(c, t, in, order))
<1> DEFINE input == IF order = "none" /\ M!AutoStarts(c, in) THEN "Custom1" ELSE order
           edge  == in.healthy # c.healthy
           lost  == edge /\ ~in.healthy
           there == M!Ordered(t.mode, input, lost, in.credit)
           first == IF input = "none" \/ M!Refused(t, input) THEN "stay" ELSE there
           then  == IF first = "stay" /\ edge THEN M!Healed(t.mode, in.healthy) ELSE first
           last  == IF then = "stay" /\ t.mode = "Reset" /\ ~t.permit.active THEN "Ready" ELSE then
<1>1. M!Destination(c, t, in, order) = last
  BY DEF M!Destination
<1>2. lost \in BOOLEAN
  OBVIOUS
<1>3. lost => ~in.healthy
  OBVIOUS
<1> HIDE DEF input, lost
<1>4. /\ there \in Places
      /\ there = "SelfCheck" => lost
      /\ t.mode = "SelfCheck" => there = "stay"
  BY <1>2, OrderedLeads
<1> HIDE DEF there
<1>5. /\ first \in Places
      /\ first = "SelfCheck" => ~in.healthy
      /\ t.mode = "SelfCheck" => first = "stay"
  BY <1>3, <1>4 DEF Places
<1> HIDE DEF first
<1>6. /\ then \in Places
      /\ then = "SelfCheck" => ~in.healthy
      /\ (t.mode = "SelfCheck" /\ ~c.healthy /\ in.healthy) => then = "Ready"
  BY <1>5 DEF Places, U!Mode, M!Healed
<1> HIDE DEF then
<1> QED
  BY <1>1, <1>6 DEF Safe, Places, U!Mode

-----------------------------------------------------------------------------
(* Completions.                                                             *)

\* A completion closes the ticket or leaves it, and commands only by an answer of its own.
Completes(c, d) ==
  /\ d \in C /\ Own1(d.command)
  /\ d.mode = c.mode /\ d.reference = c.reference
  /\ d.ticket = c.ticket \/ d.ticket.seq = 0
  /\ ~c.commandGate => ~d.commandGate

Answers(c, r) == (c.ticket.seq # 0 /\ r.seq = c.ticket.seq /\ r.ok) => r.own

LEMMA EmitsCompletes ==
  ASSUME NEW c, NEW d, NEW e, Completes(c, d), Emits(d, e)
  PROVE  Completes(c, e)
<1>1. ~c.commandGate => ~e.commandGate
  BY DEF Completes, Emits
<1> QED
  BY <1>1 DEF Completes, Emits

LEMMA OneCompletes ==
  ASSUME NEW c \in C, Own1(c.command), NEW strategy, NEW r \in Done, Answers(c, r)
  PROVE  Completes(c, U!Completed(c, strategy, r))
<1> DEFINE d == [c EXCEPT !.ticket = U!NoTicket]
           v == [valid |-> TRUE, drive |-> TRUE, age |-> r.age, own |-> r.own]
           no == FALSE
<1>1. Completes(c, c)
  BY DEF Completes
<1>2. no \in BOOLEAN
  OBVIOUS
<1>3. Completes(c, d)
  BY Zeros, SetTicket DEF Completes
<1>4. CASE c.mode # "Custom1" \/ strategy # "NMPC" \/ c.ticket.seq = 0 \/ r.seq # c.ticket.seq
  <2>1. U!Completed(c, strategy, r) = c
    BY <1>4 DEF U!Completed
  <2> QED
    BY <1>1, <2>1
<1>5. CASE ~(c.mode # "Custom1" \/ strategy # "NMPC" \/ c.ticket.seq = 0 \/ r.seq # c.ticket.seq)
  <2>1. U!Completed(c, strategy, r) =
          IF c.ticket.age > SolveTimeout THEN d
          ELSE IF r.ok /\ r.age <= ResultTimeout THEN U!EmitCommand(U!SetCommand(d, v))
          ELSE IF U!CommandReady(d) THEN d ELSE U!EmitZero(d, no)
    BY <1>5 DEF U!Completed
  <2>2. d \in C /\ Own1(d.command)
    BY <1>3 DEF Completes
  <2>3. v \in U!Command /\ v.own = r.own
    BY DEF U!Command, Done
  <2> HIDE DEF d, v, no
  <2>4. r.ok => Emits(d, U!EmitCommand(U!SetCommand(d, v)))
    BY <1>5, <2>2, <2>3, DrivesEmit DEF Answers, Own1
  <2>5. Emits(d, U!EmitZero(d, no))
    BY <1>2, <2>2, EmitZeroEmits
  <2> QED
    BY <1>3, <2>1, <2>4, <2>5, EmitsCompletes
<1> QED
  BY <1>4, <1>5

LEMMA CompletesTwice ==
  ASSUME NEW c, NEW d, NEW e, Completes(c, d), Completes(d, e)
  PROVE  Completes(c, e)
<1>1. ~c.commandGate => ~e.commandGate
  BY DEF Completes
<1> QED
  BY <1>1 DEF Completes

LEMMA MoreCompletes ==
  ASSUME NEW c \in C, NEW d, Completes(c, d), NEW strategy, NEW r \in Done, Answers(c, r)
  PROVE  Completes(c, U!Completed(d, strategy, r))
<1>1. d \in C /\ Own1(d.command)
  BY DEF Completes
<1>2. Answers(d, r)
  BY DEF Completes, Answers
<1>3. Completes(d, U!Completed(d, strategy, r))
  BY <1>1, <1>2, OneCompletes
<1> QED
  BY <1>3, CompletesTwice

LEMMA AllComplete ==
  ASSUME NEW c \in C, Own1(c.command), NEW strategy, NEW rs \in Seq(Done),
         \A i \in DOMAIN rs : Answers(c, rs[i])
  PROVE  Completes(c, U!AllCompleted(c, strategy, rs))
<1> DEFINE one   == IF Len(rs) >= 1 THEN U!Completed(c, strategy, rs[1]) ELSE c
           two   == IF Len(rs) >= 2 THEN U!Completed(one, strategy, rs[2]) ELSE one
           three == IF Len(rs) >= 3 THEN U!Completed(two, strategy, rs[3]) ELSE two
<1>1. U!AllCompleted(c, strategy, rs) = three
  BY DEF U!AllCompleted
<1>2. \A i \in Nat \ {0} : i <= Len(rs) => rs[i] \in Done /\ Answers(c, rs[i])
  OBVIOUS
<1>3. Completes(c, c)
  BY DEF Completes
<1>4. Completes(c, one)
  BY <1>2, <1>3, MoreCompletes
<1> HIDE DEF one
<1>5. Completes(c, two)
  BY <1>2, <1>4, MoreCompletes
<1> HIDE DEF two
<1>6. Completes(c, three)
  BY <1>2, <1>5, MoreCompletes
<1> QED
  BY <1>1, <1>6


-----------------------------------------------------------------------------
(* Permits stay permits.                                                    *)

LEMMA PermitAt ==
  ASSUME NEW p \in Permit, NEW at \in At
  PROVE  [p EXCEPT !.at = at] \in Permit
BY DEF Permit

LEMMA PermitActive ==
  ASSUME NEW p \in Permit, NEW active \in BOOLEAN
  PROVE  [p EXCEPT !.active = active] \in Permit
BY DEF Permit

LEMMA PermitBad ==
  ASSUME NEW p \in Permit, NEW bad \in BOOLEAN
  PROVE  [p EXCEPT !.bad = bad] \in Permit
BY DEF Permit

LEMMA Requests ==
  ASSUME NEW p \in Permit
  PROVE  Requested(p) \subseteq Permit
<1> DEFINE yes == TRUE
           a == [p EXCEPT !.at = "Braking"]
           b == [a EXCEPT !.bad = yes]
<1>1. Requested(p) = {a, b}
  BY DEF Requested
<1>2. yes \in BOOLEAN
  OBVIOUS
<1> HIDE DEF yes
<1>3. a \in Permit
  BY PermitAt DEF At
<1> HIDE DEF a
<1>4. b \in Permit
  BY <1>2, <1>3, PermitBad
<1> QED
  BY <1>1, <1>3, <1>4

LEMMA Observes ==
  ASSUME NEW p \in Permit
  PROVE  Observed(p) \subseteq Permit
<1> DEFINE yes == TRUE
<1>1. yes \in BOOLEAN
  OBVIOUS
<1>2. Observed(p) \subseteq {p, [p EXCEPT !.bad = yes], [p EXCEPT !.at = "Executing"]}
  BY DEF Observed
<1> HIDE DEF yes
<1>3. [p EXCEPT !.bad = yes] \in Permit /\ [p EXCEPT !.at = "Executing"] \in Permit
  BY <1>1, PermitAt, PermitBad DEF At
<1> QED
  BY <1>2, <1>3

LEMMA Ends ==
  ASSUME NEW p \in Permit
  PROVE  /\ Ended(p) \subseteq Permit /\ Finished(p) \subseteq Permit
         /\ Installed(p) \subseteq Permit /\ Respecified(p) \subseteq Permit
         /\ Stepped(p) \subseteq Permit
<1> DEFINE yes == TRUE
           no == FALSE
<1>1. yes \in BOOLEAN /\ no \in BOOLEAN
  OBVIOUS
<1>2. Ended(p) \subseteq {p} \cup {[q EXCEPT !.active = no] : q \in Requested(p)}
  BY DEF Ended
<1>3. Installed(p) = {[q EXCEPT !.active = yes] : q \in Requested(p)}
  BY DEF Installed
<1> HIDE DEF yes, no
<1>4. \A q \in Permit : [q EXCEPT !.active = no] \in Permit /\ [q EXCEPT !.active = yes] \in Permit
  BY <1>1, PermitActive
<1>5. Ended(p) \subseteq Permit
  BY <1>2, <1>4, Requests
<1>6. Installed(p) \subseteq Permit
  BY <1>3, <1>4, Requests
<1> QED
  BY <1>5, <1>6, Requests DEF Finished, Respecified, Stepped

LEMMA Grants ==
  ASSUME NEW p \in Permit
  PROVE  Granted(p) \subseteq Permit
<1>1. [p EXCEPT !.at = "Owed"] \in Permit /\ [p EXCEPT !.at = "Free"] \in Permit
  BY PermitAt DEF At
<1> QED
  BY <1>1, Requests, Ends DEF Granted

LEMMA Acknowledges ==
  ASSUME NEW p \in Permit
  PROVE  Zeroed(p) \in Permit
BY PermitAt DEF Zeroed, At

-----------------------------------------------------------------------------
(* A turn.                                                                  *)

LEMMA FreshNumber ==
  ASSUME TypeOK, Counted, NEW sample, NEW credit
  PROVE  /\ Inputs(sample, credit).seq \in Number
         /\ Inputs(sample, credit).seq # job.seq
         /\ \A i \in DOMAIN inbox : inbox[i].seq # Inputs(sample, credit).seq
<1> DEFINE S == {ctl.ticket.seq, job.seq} \cup {inbox[i].seq : i \in DOMAIN inbox}
<1>1. \E n \in Number \ {0} : n \notin S
  <2>1. inbox \in Seq(Done) /\ Len(inbox) + Busy <= 2
    BY DEF TypeOK, Counted
  <2>2. DOMAIN inbox \subseteq {1, 2} /\ Len(inbox) \in Nat
    BY <2>1 DEF Busy
  <2>3. job.seq # 0 => DOMAIN inbox \subseteq {1}
    BY <2>1 DEF Busy
  <2> DEFINE a == ctl.ticket.seq
             b == job.seq
             x == inbox[1].seq
             y == inbox[2].seq
  <2>4. S \subseteq {a, b, x, y}
    BY <2>2
  <2>5. job.seq # 0 => S \subseteq {a, b, x}
    BY <2>3
  <2> HIDE DEF S
  <2>6. CASE job.seq = 0
    <3>1. \E n \in {1, 2, 3, 4} : n \notin {a, x, y}
      <4> HIDE DEF a, x, y
      <4> QED
        OBVIOUS
    <3> QED
      BY <2>4, <2>6, <3>1 DEF Number
  <2>7. CASE job.seq # 0
    <3>1. \E n \in {1, 2, 3, 4} : n \notin {a, b, x}
      <4> HIDE DEF a, b, x
      <4> QED
        OBVIOUS
    <3> QED
      BY <2>5, <2>7, <3>1 DEF Number
  <2> QED
    BY <2>6, <2>7
<1> DEFINE m == CHOOSE n \in Number \ {0} : n \notin S
<1>2. m \in Number \ {0} /\ m \notin S
  BY <1>1
<1>3. Inputs(sample, credit).seq = m
  BY DEF Inputs
<1> HIDE DEF m
<1> QED
  BY <1>2, <1>3


\* What a turn leaves, whatever it was told.
Turned ==
  /\ ctl' \in C /\ Own1(ctl'.command)
  /\ ctl'.healthy = Healthy
  /\ ctl'.mode = "SelfCheck" => ~Healthy
  /\ ctl'.mode = "Reset" => ~ctl'.commandGate
  /\ (Unicycle /\ ctl'.mode = "Custom1") => ctl'.reference # "before"
  /\ ctl'.ticket.seq # 0 => ctl'.mode = "Custom1" /\ Unicycle
  /\ (ctl'.ticket.seq # 0 /\ job.seq = ctl'.ticket.seq) => job.own

\* The tick of either vehicle, in a turn.
LEMMA TurnTicks ==
  ASSUME TypeOK, Counted, Owned, Tracking, NEW sample \in {"good", "same", "fail", "wait"}, NEW credit,
         NEW b \in C, b.mode = ctl.mode, b.healthy = ctl.healthy, b.ticket = ctl.ticket,
         b.command = ctl.command, b.reference = ctl.reference
  PROVE  LET in == Inputs(sample, credit)
             t  == Ticked(b, in)
         IN  /\ Ticks(b, t, in.seq)
             /\ ~Unicycle => t.ticket.seq = 0
             /\ t.ticket.seq # 0 => t.mode = "Custom1"
             /\ \A i \in DOMAIN inbox : Answers(t, inbox[i])
             /\ (t.ticket.seq # 0 /\ job.seq = t.ticket.seq) => job.own
             /\ t.mode = "Reset" => ~t.commandGate
<1> DEFINE in == Inputs(sample, credit)
           t  == Ticked(b, in)
<1>1. Own1(b.command)
  BY DEF Owned
<1>2. /\ in.sample = sample /\ in.strategy = kind.strategy
      /\ in.cached = cached /\ in.healthy = Healthy
  BY DEF Inputs
<1>3. in.sample \in {"good", "same", "fail", "wait"} /\ in.strategy \in {"NMPC", "FLATNESS"}
  BY <1>2 DEF TypeOK
<1>4. in.cached \in BOOLEAN
  BY <1>2 DEF TypeOK
<1>5. in.healthy \in BOOLEAN
  BY <1>2 DEF Healthy
<1>6. /\ in.seq \in Number /\ in.seq # job.seq
      /\ \A i \in DOMAIN inbox : inbox[i].seq # in.seq
  BY FreshNumber
<1>7. (Unicycle /\ b.mode = "Custom1") => b.reference # "before"
  BY DEF Tracking
<1> HIDE DEF in
<1>8. /\ Ticks(b, t, in.seq)
      /\ ~Unicycle => t.ticket = b.ticket
      /\ b.mode = "Reset" => ~t.commandGate
  <2>1. CASE Unicycle
    <3>1. t = U!Tick(b, in)
      BY <2>1 DEF Ticked
    <3> HIDE DEF t
    <3> QED
      BY <1>1, <1>3, <1>4, <1>5, <1>6, <1>7, <2>1, <3>1, UnicycleTicks
  <2>2. CASE ~Unicycle
    <3>1. t = M!Tick(b, in)
      BY <2>2 DEF Ticked
    <3> HIDE DEF t
    <3>2. Ticks(b, b, in.seq)
      BY <1>1 DEF Ticks
    <3>3. /\ Emits(b, t)
          /\ b.mode = "Reset" => ~t.commandGate
      BY <1>1, <1>5, <3>1, MecanumTicks
    <3> QED
      BY <2>2, <3>2, <3>3, EmitsTicks DEF Emits
  <2> QED
    BY <2>1, <2>2
<1> HIDE DEF t
<1>9. t.mode = b.mode
  BY <1>8 DEF Ticks
<1>10. t.ticket = ctl.ticket \/ t.ticket.seq = 0 \/ (t.mode = "Custom1" /\ t.ticket.seq = in.seq)
  BY <1>8, <1>9 DEF Ticks
<1>11. ~Unicycle => t.ticket.seq = 0
  BY <1>8 DEF Tracking
<1>12. t.ticket.seq # 0 => t.mode = "Custom1"
  BY <1>9, <1>10 DEF Tracking
<1>13. \A i \in DOMAIN inbox : Answers(t, inbox[i])
  <2> SUFFICES ASSUME NEW i \in DOMAIN inbox, t.ticket.seq # 0, inbox[i].seq = t.ticket.seq, inbox[i].ok
               PROVE  inbox[i].own
    BY DEF Answers
  <2>1. t.ticket = ctl.ticket
    BY <1>6, <1>10
  <2> QED
    BY <2>1 DEF Tracking
<1>14. (t.ticket.seq # 0 /\ job.seq = t.ticket.seq) => job.own
  <2> SUFFICES ASSUME t.ticket.seq # 0, job.seq = t.ticket.seq
               PROVE  job.own
    OBVIOUS
  <2>1. t.ticket = ctl.ticket
    BY <1>6, <1>10
  <2> QED
    BY <2>1 DEF Tracking
<1>15. t.mode = "Reset" => ~t.commandGate
  BY <1>8, <1>9
<1>16. /\ Ticks(b, t, in.seq)
       /\ ~Unicycle => t.ticket.seq = 0
       /\ t.ticket.seq # 0 => t.mode = "Custom1"
       /\ \A i \in DOMAIN inbox : Answers(t, inbox[i])
       /\ (t.ticket.seq # 0 /\ job.seq = t.ticket.seq) => job.own
       /\ t.mode = "Reset" => ~t.commandGate
  BY <1>8, <1>11, <1>12, <1>13, <1>14, <1>15
<1> QED
  BY <1>16, Zenon DEF t, in

\* The end of it: the alternative that is entered, or the completions of the one that stays.
Ends1(t, to, r, s) ==
  IF to # "stay" THEN Entered(Left(t, r), to, s)
  ELSE IF Unicycle THEN U!AllCompleted(t, kind.strategy, inbox) ELSE t

LEMMA TurnEnds ==
  ASSUME TypeOK, Tracking, NEW t \in C, Own1(t.command),
         ~Unicycle => t.ticket.seq = 0,
         t.ticket.seq # 0 => t.mode = "Custom1",
         \A i \in DOMAIN inbox : Answers(t, inbox[i]),
         (t.ticket.seq # 0 /\ job.seq = t.ticket.seq) => job.own,
         t.mode = "Reset" => ~t.commandGate,
         (Unicycle /\ t.mode = "Custom1") => t.reference # "before",
         NEW to \in Places, NEW r \in Permit, NEW s \in Permit
  PROVE  LET e == Ends1(t, to, r, s)
         IN  /\ e \in C /\ Own1(e.command)
             /\ e.mode = (IF to = "stay" THEN t.mode ELSE to)
             /\ e.mode = "Reset" => ~e.commandGate
             /\ (Unicycle /\ e.mode = "Custom1") => e.reference # "before"
             /\ e.ticket.seq # 0 => e.mode = "Custom1" /\ Unicycle
             /\ (e.ticket.seq # 0 /\ job.seq = e.ticket.seq) => job.own
<1>1. CASE to = "stay" /\ Unicycle
  <2>1. Ends1(t, to, r, s) = U!AllCompleted(t, kind.strategy, inbox)
    BY <1>1 DEF Ends1
  <2>2. inbox \in Seq(Done)
    BY DEF TypeOK
  <2>3. Completes(t, U!AllCompleted(t, kind.strategy, inbox))
    BY <2>2, AllComplete
  <2> QED
    BY <1>1, <2>1, <2>3 DEF Completes
<1>2. CASE to = "stay" /\ ~Unicycle
  BY <1>2 DEF Ends1
<1>3. CASE to # "stay" /\ Unicycle
  <2> DEFINE l == U!Exit(t, r)
  <2>1. Ends1(t, to, r, s) = U!Enter(l, to, s)
    BY <1>3 DEF Ends1, Entered, Left
  <2>2. l \in C
    BY UnicycleLeaves
  <2>3. to \in U!Mode
    BY <1>3 DEF Places
  <2> HIDE DEF l
  <2> QED
    BY <1>3, <2>1, <2>2, <2>3, UnicycleEnters
<1>4. CASE to # "stay" /\ ~Unicycle
  <2> DEFINE l == M!Exit(t, r)
  <2>1. Ends1(t, to, r, s) = M!Enter(l, to, s)
    BY <1>4 DEF Ends1, Entered, Left
  <2>2. l \in C /\ l.ticket = t.ticket
    BY MecanumLeaves
  <2>3. to \in U!Mode
    BY <1>4 DEF Places
  <2> HIDE DEF l
  <2> QED
    BY <1>4, <2>1, <2>2, <2>3, MecanumEnters
<1> QED
  BY <1>1, <1>2, <1>3, <1>4


LEMMA TurnStarts ==
  ASSUME NEW a \in C, NEW p \in Permit
  PROVE  LET c == [a EXCEPT !.permit = p, !.twist = "none", !.solve = 0]
         IN  /\ c \in C /\ c.mode = a.mode /\ c.healthy = a.healthy /\ c.ticket = a.ticket
             /\ c.command = a.command /\ c.reference = a.reference
<1> DEFINE c1 == [a EXCEPT !.permit = p]
           c2 == [c1 EXCEPT !.twist = "none"]
           c3 == [c2 EXCEPT !.solve = 0]
           c  == [a EXCEPT !.permit = p, !.twist = "none", !.solve = 0]
<1>1. c = c3
  OBVIOUS
<1> HIDE DEF c
<1>2. c1 \in C /\ c1.mode = a.mode /\ c1.healthy = a.healthy /\ c1.ticket = a.ticket
      /\ c1.command = a.command /\ c1.reference = a.reference
  BY SetPermit
<1> HIDE DEF c1
<1>3. c2 \in C /\ c2.mode = a.mode /\ c2.healthy = a.healthy /\ c2.ticket = a.ticket
      /\ c2.command = a.command /\ c2.reference = a.reference
  BY <1>2, SetTwist
<1> HIDE DEF c2
<1>4. c3 \in C /\ c3.mode = a.mode /\ c3.healthy = a.healthy /\ c3.ticket = a.ticket
      /\ c3.command = a.command /\ c3.reference = a.reference
  BY <1>3, SetSolve DEF Number
<1> HIDE DEF c3
<1>5. c \in C /\ c.mode = a.mode /\ c.healthy = a.healthy /\ c.ticket = a.ticket
      /\ c.command = a.command /\ c.reference = a.reference
  BY <1>1, <1>4
<1> QED
  BY <1>5 DEF c

\* A turn from what it starts with (c, and b after the step of a Reset) to what it ends with.
LEMMA TurnOf ==
  ASSUME TypeOK, Counted, Owned, Tracking, Found,
         NEW order, NEW sample \in {"good", "same", "fail", "wait"}, NEW credit,
         NEW c \in C, c.mode = ctl.mode, c.healthy = ctl.healthy,
         NEW b \in C, b.mode = ctl.mode, b.healthy = ctl.healthy, b.ticket = ctl.ticket,
         b.command = ctl.command, b.reference = ctl.reference,
         NEW t, t = Ticked(b, Inputs(sample, credit)),
         NEW to, to = Leads(c, t, Inputs(sample, credit), order),
         NEW r \in AfterExit(t, to), NEW s \in AfterEntry(r, to),
         NEW e, e = Ends1(t, to, r, s)
  PROVE  /\ e \in C /\ Own1(e.command)
         /\ e.mode = "SelfCheck" => ~Healthy
         /\ e.mode = "Reset" => ~e.commandGate
         /\ (Unicycle /\ e.mode = "Custom1") => e.reference # "before"
         /\ e.ticket.seq # 0 => e.mode = "Custom1" /\ Unicycle
         /\ (e.ticket.seq # 0 /\ job.seq = e.ticket.seq) => job.own
<1> DEFINE in == Inputs(sample, credit)
<1>1. ctl \in C
  BY DEF TypeOK, C
<1>2. ctl.healthy \in BOOLEAN /\ ctl.mode \in U!Mode
  BY <1>1, Fields
<1>3. /\ Ticks(b, t, in.seq)
      /\ ~Unicycle => t.ticket.seq = 0
      /\ t.ticket.seq # 0 => t.mode = "Custom1"
      /\ \A i \in DOMAIN inbox : Answers(t, inbox[i])
      /\ (t.ticket.seq # 0 /\ job.seq = t.ticket.seq) => job.own
      /\ t.mode = "Reset" => ~t.commandGate
  BY TurnTicks
<1>4. in.healthy = Healthy
  BY DEF Inputs
<1>5. to = Leads(c, t, in, order)
  OBVIOUS
<1> HIDE DEF in
<1>6. t \in C /\ Own1(t.command) /\ t.mode = ctl.mode /\ t.reference = ctl.reference
  BY <1>3 DEF Ticks
<1>7. t.permit \in Permit
  BY <1>6, Fields
<1>8. Healthy \in BOOLEAN
  BY DEF Healthy
<1>9. Safe(c, in, to)
  <2>1. in.healthy \in BOOLEAN /\ c.healthy \in BOOLEAN /\ t.mode \in U!Mode /\ t.mode = c.mode
    BY <1>2, <1>4, <1>6, <1>8
  <2>2. CASE Unicycle
    BY <1>5, <2>1, <2>2, UnicycleLeads DEF Leads
  <2>3. CASE ~Unicycle
    BY <1>5, <2>1, <2>3, MecanumLeads DEF Leads
  <2> QED
    BY <2>2, <2>3
<1>10. r \in Permit
  <2>1. \A x \in Permit : Ended(x) \subseteq Permit /\ Finished(x) \subseteq Permit
    BY Ends
  <2> QED
    BY <1>7, <2>1 DEF AfterExit
<1>11. s \in Permit
  BY <1>10, Ends DEF AfterEntry
<1>12. to \in Places
  BY <1>9 DEF Safe
<1>13. (Unicycle /\ t.mode = "Custom1") => t.reference # "before"
  BY <1>6 DEF Tracking
<1>14. /\ e \in C /\ Own1(e.command)
       /\ e.mode = (IF to = "stay" THEN t.mode ELSE to)
       /\ e.mode = "Reset" => ~e.commandGate
       /\ (Unicycle /\ e.mode = "Custom1") => e.reference # "before"
       /\ e.ticket.seq # 0 => e.mode = "Custom1" /\ Unicycle
       /\ (e.ticket.seq # 0 /\ job.seq = e.ticket.seq) => job.own
  BY <1>3, <1>6, <1>10, <1>11, <1>12, <1>13, TurnEnds
<1>15. to = "SelfCheck" => ~Healthy
  BY <1>4, <1>9 DEF Safe
<1>16. (to = "stay" /\ t.mode = "SelfCheck") => ~Healthy
  BY <1>2, <1>4, <1>6, <1>9 DEF Safe, Found
<1> QED
  BY <1>14, <1>15, <1>16

LEMMA TurnLeaves ==
  ASSUME TypeOK, Counted, Owned, Tracking, Found, NEW order, Turn(order)
  PROVE  Turned
<1>1. ctl \in C
  BY DEF TypeOK, C
<1>2. ctl.permit \in Permit
  BY <1>1, Fields
<1>3. PICK p \in {q \in Observed(ctl.permit) : May(q)}, sample \in Sampled,
           credit \in (IF order = "Reset" THEN BOOLEAN ELSE {TRUE}) :
        \E in \in {Inputs(sample, credit)}, q \in {r \in AfterStep(ctl.mode, p) : May(r)} :
        \E c \in {[ctl EXCEPT !.permit = p, !.twist = "none", !.solve = 0]} :
        \E t \in {Ticked([c EXCEPT !.permit = q], in)} :
        \E to \in {Leads(c, t, in, order)} :
        \E r \in {x \in AfterExit(t, to) : May(x)} :
        \E s \in {x \in AfterEntry(r, to) : May(x)} :
          ctl' = [Ends1(t, to, r, s) EXCEPT !.healthy = Healthy]
  BY DEF Turn, Ends1
<1>4. PICK in \in {Inputs(sample, credit)}, q \in {r \in AfterStep(ctl.mode, p) : May(r)} :
        \E c \in {[ctl EXCEPT !.permit = p, !.twist = "none", !.solve = 0]} :
        \E t \in {Ticked([c EXCEPT !.permit = q], in)} :
        \E to \in {Leads(c, t, in, order)} :
        \E r \in {x \in AfterExit(t, to) : May(x)} :
        \E s \in {x \in AfterEntry(r, to) : May(x)} :
          ctl' = [Ends1(t, to, r, s) EXCEPT !.healthy = Healthy]
  BY <1>3
<1> DEFINE c == [ctl EXCEPT !.permit = p, !.twist = "none", !.solve = 0]
           b == [c EXCEPT !.permit = q]
<1>5. \E t \in {Ticked(b, in)} :
        \E to \in {Leads(c, t, in, order)} :
        \E r \in {x \in AfterExit(t, to) : May(x)} :
        \E s \in {x \in AfterEntry(r, to) : May(x)} :
          ctl' = [Ends1(t, to, r, s) EXCEPT !.healthy = Healthy]
  BY <1>4
<1>6. p \in Permit
  BY <1>2, <1>3, Observes
<1>7. q \in Permit
  BY <1>4, <1>6, Ends DEF AfterStep
<1>8. sample \in {"good", "same", "fail", "wait"}
  BY <1>3 DEF Sampled
<1>9. /\ c \in C /\ c.mode = ctl.mode /\ c.healthy = ctl.healthy /\ c.ticket = ctl.ticket
      /\ c.command = ctl.command /\ c.reference = ctl.reference
  BY <1>1, <1>6, TurnStarts
<1> HIDE DEF c
<1>15. b \in C /\ b.mode = c.mode /\ b.healthy = c.healthy /\ b.ticket = c.ticket
       /\ b.command = c.command /\ b.reference = c.reference
  BY <1>7, <1>9, SetPermit
<1> HIDE DEF b
<1>10. PICK t \in {Ticked(b, in)} :
        \E to \in {Leads(c, t, in, order)} :
        \E r \in {x \in AfterExit(t, to) : May(x)} :
        \E s \in {x \in AfterEntry(r, to) : May(x)} :
          ctl' = [Ends1(t, to, r, s) EXCEPT !.healthy = Healthy]
  BY <1>5
<1>11. PICK to \in {Leads(c, t, in, order)} :
        \E r \in {x \in AfterExit(t, to) : May(x)} :
        \E s \in {x \in AfterEntry(r, to) : May(x)} :
          ctl' = [Ends1(t, to, r, s) EXCEPT !.healthy = Healthy]
  BY <1>10
<1>12. PICK r \in AfterExit(t, to) : \E s \in AfterEntry(r, to) :
          ctl' = [Ends1(t, to, r, s) EXCEPT !.healthy = Healthy]
  BY <1>11
<1>13. PICK s \in AfterEntry(r, to) : ctl' = [Ends1(t, to, r, s) EXCEPT !.healthy = Healthy]
  BY <1>12
<1> DEFINE e == Ends1(t, to, r, s)
           healthy == Healthy
           d == [e EXCEPT !.healthy = healthy]
<1>14. ctl' = d
  BY <1>13
<1>16. t = Ticked(b, Inputs(sample, credit)) /\ to = Leads(c, t, Inputs(sample, credit), order)
  BY <1>4, <1>10, <1>11
<1> HIDE DEF e, healthy
<1>17. /\ e \in C /\ Own1(e.command)
       /\ e.mode = "SelfCheck" => ~Healthy
       /\ e.mode = "Reset" => ~e.commandGate
       /\ (Unicycle /\ e.mode = "Custom1") => e.reference # "before"
       /\ e.ticket.seq # 0 => e.mode = "Custom1" /\ Unicycle
       /\ (e.ticket.seq # 0 /\ job.seq = e.ticket.seq) => job.own
  BY <1>8, <1>9, <1>12, <1>13, <1>15, <1>16, TurnOf DEF e
<1>18. healthy \in BOOLEAN
  BY DEF healthy, Healthy
<1>19. /\ d \in C /\ d.mode = e.mode /\ d.command = e.command /\ d.reference = e.reference
       /\ d.ticket = e.ticket
  BY <1>17, <1>18, SetHealthy
<1>20. d.healthy = healthy
  BY <1>17, <1>18, SetHealthy
<1>21. d.commandGate = e.commandGate
  BY <1>17, <1>18, SetHealthy
<1>22. d.healthy = Healthy
  BY <1>20 DEF healthy
<1> HIDE DEF d
<1>23. d.mode = "Reset" => ~d.commandGate
  BY <1>17, <1>19, <1>21
<1>24. /\ d \in C /\ Own1(d.command)
       /\ d.mode = "SelfCheck" => ~Healthy
       /\ (Unicycle /\ d.mode = "Custom1") => d.reference # "before"
       /\ d.ticket.seq # 0 => d.mode = "Custom1" /\ Unicycle
       /\ (d.ticket.seq # 0 /\ job.seq = d.ticket.seq) => job.own
  BY <1>17, <1>19
<1> QED
  BY <1>14, <1>22, <1>23, <1>24 DEF Turned


-----------------------------------------------------------------------------
(* When the owner calls again.                                              *)

HasLeast(S) == S \subseteq Nat /\ \E n \in S : \A m \in S : n <= m

LEMMA LeastOne ==
  ASSUME NEW n \in Nat
  PROVE  HasLeast({n})
BY DEF HasLeast

LEMMA LeastMore ==
  ASSUME NEW S, NEW T, HasLeast(S), T = {} \/ HasLeast(T)
  PROVE  HasLeast(S \cup T)
<1>1. CASE T = {}
  <2>1. S \cup T = S
    BY <1>1
  <2> QED
    BY <2>1
<1>2. CASE HasLeast(T)
  <2>1. PICK a \in S : \A m \in S : a <= m
    BY DEF HasLeast
  <2>2. PICK b \in T : \A m \in T : b <= m
    BY <1>2 DEF HasLeast
  <2>3. CASE a <= b
    BY <1>2, <2>1, <2>2, <2>3 DEF HasLeast
  <2>4. CASE b <= a
    BY <1>2, <2>1, <2>2, <2>4 DEF HasLeast
  <2> QED
    BY <1>2, <2>1, <2>2, <2>3, <2>4 DEF HasLeast
<1> QED
  BY <1>1, <1>2

LEMMA LeastIs ==
  ASSUME NEW S, HasLeast(S)
  PROVE  U!Least(S) \in S /\ U!Least(S) \in Nat /\ \A m \in S : U!Least(S) <= m
BY DEF HasLeast, U!Least

Opening(c) ==
  IF c.mode = "Reset" \/ (c.mode = "Custom1" /\ (~Unicycle \/ U!CommandReady(c)))
  THEN IF c.commandGate THEN 0 ELSE 1
  ELSE c.idle

LEMMA OpensIs == Opens = Opening(ctl)
BY DEF Opens, Opening

\* A call that comes in time: before the gate opens, but for a mecanum vehicle that tracks
\* nothing, and before the state is too old.
InTime(c, w) ==
  /\ w \in 0..IdlePeriod
  /\ \/ w <= Opening(c)
     \/ ~Unicycle /\ c.mode = "Custom1" /\ w <= 1
  /\ (c.healthy /\ w > 0) => pose + w <= StateTimeout + 1

LEMMA UnicycleCalls ==
  ASSUME TypeOK, Unicycle, NEW c \in C, c.mode = "Reset" => ~c.commandGate,
         NEW in, in.strategy \in {"NMPC", "FLATNESS"}
  PROVE  InTime(c, U!NextWake(c, in, pose))
<1> DEFINE health   == IF c.healthy THEN {U!Left(StateTimeout, pose)} ELSE {}
           idle     == {c.idle}
           flatness == IF in.strategy = "FLATNESS" /\ c.reference # "none" THEN {1} ELSE {}
           nmpc     == IF in.strategy # "NMPC" \/ ~in.cached THEN {}
                       ELSE IF c.ticket.seq # 0 THEN {U!Left(SolveTimeout, c.ticket.age)}
                       ELSE {IF c.solveGate THEN 0 ELSE 1}
           gate     == {IF c.commandGate THEN 0 ELSE 1}
           late     == {U!Left(ResultTimeout, c.command.age)}
           command  == IF U!CommandReady(c) THEN gate \cup late ELSE idle
           tracking == flatness \cup nmpc \cup command
           way      == CASE c.mode \in {"SelfCheck", "Ready"} -> idle
                         [] c.mode = "Custom1" -> tracking
                         [] c.mode = "Reset"   -> {1}
           all      == {IdlePeriod} \cup health \cup way
           w        == U!NextWake(c, in, pose)
<1>1. w = U!Least(all)
  <2>1. command = IF U!CommandReady(c)
                  THEN {IF c.commandGate THEN 0 ELSE 1, U!Left(ResultTimeout, c.command.age)}
                  ELSE idle
    OBVIOUS
  <2> QED
    BY <2>1, Zenon DEF U!NextWake
<1>2. c.idle \in Nat /\ c.mode \in {"SelfCheck", "Ready", "Custom1", "Reset"}
  BY Fields, TimesAssumption DEF U!Mode
<1>3. /\ U!Left(StateTimeout, pose) \in Nat
      /\ U!Left(SolveTimeout, c.ticket.age) \in Nat
      /\ U!Left(ResultTimeout, c.command.age) \in Nat
  <2>1. pose \in Nat
    BY TimesAssumption DEF TypeOK
  <2>2. c.ticket.age \in Nat /\ c.command.age \in Nat
    BY Fields, TimesAssumption DEF Ticket, U!Command, U!Age, U!MaxAge
  <2> QED
    BY <2>1, <2>2, TimesAssumption DEF U!Left
<1>4. HasLeast(idle) /\ HasLeast(gate) /\ HasLeast(late) /\ HasLeast({1}) /\ HasLeast({IdlePeriod})
  BY <1>2, <1>3, LeastOne, TimesAssumption
<1>5. health = {} \/ HasLeast(health)
  BY <1>3, LeastOne
<1>6. flatness = {} \/ HasLeast(flatness)
  BY LeastOne
<1>7. nmpc = {} \/ HasLeast(nmpc)
  BY <1>3, LeastOne
<1> HIDE DEF gate, late
<1>8. HasLeast(command)
  BY <1>4, LeastMore
<1>9. U!CommandReady(c) => gate \subseteq command
  OBVIOUS
<1>10. ~U!CommandReady(c) => command = idle
  OBVIOUS
<1> HIDE DEF idle, flatness, nmpc, command
<1>11. HasLeast(command \cup (flatness \cup nmpc))
  <2>1. flatness \cup nmpc = {} \/ HasLeast(flatness \cup nmpc)
    BY <1>6, <1>7, LeastMore
  <2> QED
    BY <1>8, <2>1, LeastMore
<1>12. tracking = command \cup (flatness \cup nmpc)
  OBVIOUS
<1>13. HasLeast(tracking)
  BY <1>11, <1>12
<1> HIDE DEF tracking
<1>14. /\ c.mode \in {"SelfCheck", "Ready"} => way = idle
       /\ c.mode = "Custom1" => way = tracking
       /\ c.mode = "Reset" => way = {1}
  OBVIOUS
<1>15. HasLeast(way)
  BY <1>2, <1>4, <1>13, <1>14
<1> HIDE DEF health, way
<1>16. HasLeast(all)
  <2>1. HasLeast({IdlePeriod} \cup health)
    BY <1>4, <1>5, LeastMore
  <2> QED
    BY <1>15, <2>1, LeastMore
<1> HIDE DEF w
<1>17. w \in Nat /\ \A m \in all : w <= m
  BY <1>1, <1>16, LeastIs
<1>18. w <= IdlePeriod /\ (\A m \in health : w <= m) /\ (\A m \in way : w <= m)
  BY <1>17
<1> HIDE DEF all
<1>19. w \in 0..IdlePeriod
  BY <1>17, <1>18, TimesAssumption
<1>20. w <= Opening(c)
  <2>1. CASE c.mode \in {"SelfCheck", "Ready"}
    BY <1>14, <1>18, <2>1 DEF Opening, idle
  <2>2. CASE c.mode = "Custom1" /\ U!CommandReady(c)
    BY <1>9, <1>12, <1>14, <1>18, <2>2 DEF Opening, gate
  <2>3. CASE c.mode = "Custom1" /\ ~U!CommandReady(c)
    BY <1>10, <1>12, <1>14, <1>18, <2>3 DEF Opening, idle
  <2>4. CASE c.mode = "Reset"
    BY <1>14, <1>18, <2>4 DEF Opening
  <2> QED
    BY <1>2, <2>1, <2>2, <2>3, <2>4
<1>21. (c.healthy /\ w > 0) => pose + w <= StateTimeout + 1
  BY <1>17, <1>18, TimesAssumption DEF health, U!Left, TypeOK
<1>22. InTime(c, w)
  BY <1>19, <1>20, <1>21 DEF InTime
<1> QED
  BY <1>22 DEF w

LEMMA MecanumCalls ==
  ASSUME TypeOK, ~Unicycle, NEW c \in C, c.mode = "Reset" => ~c.commandGate
  PROVE  InTime(c, M!NextWake(c, pose))
<1> DEFINE track  == IF c.reference # "none" /\ c.commandGate THEN 0 ELSE 1
           pace   == CASE c.mode \in {"SelfCheck", "Ready"} -> c.idle
                       [] c.mode = "Custom1" -> track
                       [] c.mode = "Reset" -> 1
           health == IF ~c.healthy THEN IdlePeriod
                     ELSE IF pose > StateTimeout THEN 0 ELSE StateTimeout + 1 - pose
           w      == IF pace < health THEN pace ELSE health
<1>1. M!NextWake(c, pose) = w
  BY Zenon DEF M!NextWake
<1>2. c.idle \in 0..IdlePeriod /\ c.mode \in {"SelfCheck", "Ready", "Custom1", "Reset"}
  BY Fields DEF U!Mode
<1>3. track \in {0, 1} /\ (track = 0 \/ ~c.commandGate \/ c.reference = "none")
  OBVIOUS
<1>4. /\ c.mode \in {"SelfCheck", "Ready"} => pace = c.idle
      /\ c.mode = "Custom1" => pace = track
      /\ c.mode = "Reset" => pace = 1
  OBVIOUS
<1> HIDE DEF track, pace
<1>5. pace \in 0..IdlePeriod
  BY <1>2, <1>3, <1>4, TimesAssumption
<1>6. health \in Nat /\ (c.healthy /\ health > 0 => pose + health = StateTimeout + 1)
  BY TimesAssumption DEF TypeOK
<1> HIDE DEF health
<1>7. w \in 0..IdlePeriod /\ w <= pace /\ w <= health
  BY <1>5, <1>6, TimesAssumption
<1> HIDE DEF w
<1>8. w <= Opening(c) \/ (c.mode = "Custom1" /\ w <= 1)
  BY <1>2, <1>3, <1>4, <1>7 DEF Opening
<1>9. (c.healthy /\ w > 0) => pose + w <= StateTimeout + 1
  BY <1>6, <1>7, TimesAssumption DEF TypeOK
<1>10. InTime(c, w)
  BY <1>7, <1>8, <1>9 DEF InTime
<1> QED
  BY <1>1, <1>10


-----------------------------------------------------------------------------
(* The worker and the inbox, and what goes out.                             *)

BusyOf(j) == IF j.seq = 0 THEN 0 ELSE 1

LEMMA SolveTypes ==
  /\ NoSolve \in Solve /\ NoSolve.seq = 0
  /\ \A seq \in Number : Failed(seq) \in Done /\ ~Failed(seq).ok
BY TimesAssumption DEF NoSolve, Solve, Failed, Done, Number, U!Age, U!MaxAge

LEMMA OwnKeeps ==
  ASSUME NEW j \in Solve
  PROVE  /\ Own(j) \in Solve /\ Own(j).seq = j.seq
         /\ ctl'.mode = "Custom1" => Own(j) = j
<1> DEFINE no == FALSE
           k == [j EXCEPT !.own = no]
<1>1. no \in BOOLEAN
  OBVIOUS
<1>2. Own(j) = (IF ctl.mode = "Custom1" /\ ctl'.mode # "Custom1" THEN k ELSE j)
  BY DEF Own
<1> HIDE DEF no
<1>3. k \in Solve /\ k.seq = j.seq
  BY <1>1 DEF Solve
<1> HIDE DEF k
<1> QED
  BY <1>2, <1>3

LEMMA AskedKeeps ==
  ASSUME NEW c, c.solve \in Number, NEW j \in Solve, NEW b \in Seq(Done), Asked(c, j, b)
  PROVE  /\ job' \in Solve /\ inbox' \in Seq(Done)
         /\ Len(inbox') + Busy' <= Len(b) + BusyOf(j) + 1
         /\ job' = j \/ (c.mode = "Custom1" => job'.own)
         /\ \A i \in DOMAIN inbox' : inbox'[i].ok => i \in DOMAIN b /\ inbox'[i] = b[i]
<1> DEFINE own == (c.mode = "Custom1")
           new == [seq |-> c.solve, age |-> 0, own |-> own]
           f   == Failed(c.solve)
           k   == Append(b, f)
<1>1. f \in Done /\ ~f.ok
  BY SolveTypes
<1>2. \/ job' = j /\ inbox' = b
      \/ c.solve # 0 /\ j.seq = 0 /\ job' = new /\ inbox' = b
      \/ job' = j /\ inbox' = k
  BY DEF Asked
<1>3. own \in BOOLEAN
  OBVIOUS
<1>4. own <=> c.mode = "Custom1"
  OBVIOUS
<1> HIDE DEF f, own
<1>5. new \in Solve
  BY <1>3, TimesAssumption DEF Solve, U!Age, U!MaxAge
<1>6. new.own <=> own
  OBVIOUS
<1>7. new.seq = c.solve
  OBVIOUS
<1> HIDE DEF new
<1>8. /\ k \in Seq(Done) /\ Len(k) = Len(b) + 1
      /\ \A i \in DOMAIN k : k[i].ok => i \in DOMAIN b /\ k[i] = b[i]
  BY <1>1
<1> HIDE DEF k
<1>9. CASE job' = j /\ inbox' = b
  BY <1>9 DEF Busy, BusyOf
<1>10. CASE c.solve # 0 /\ j.seq = 0 /\ job' = new /\ inbox' = b
  BY <1>4, <1>5, <1>6, <1>7, <1>10 DEF Busy, BusyOf
<1>11. CASE job' = j /\ inbox' = k
  BY <1>8, <1>11 DEF Busy, BusyOf
<1> QED
  BY <1>2, <1>9, <1>10, <1>11

Slot == [fresh : BOOLEAN, twist : U!Command]

LEMMA TwistTypes ==
  /\ NoTwist \in Slot /\ ZeroTwist \in Slot
  /\ Own1(NoTwist.twist) /\ Own1(ZeroTwist.twist)
BY Zeros DEF NoTwist, ZeroTwist, Slot, Own1

LEMMA CmdVelTypes ==
  ASSUME NEW c \in C, Own1(c.command)
  PROVE  /\ U!CmdVel(c) \in U!Command /\ Own1(U!CmdVel(c))
         /\ M!CmdVel(c) \in U!Command /\ Own1(M!CmdVel(c))
         /\ U!NodeTwist(c) \in U!Command /\ Own1(U!NodeTwist(c))
         /\ M!NodeTwist(c) \in U!Command /\ Own1(M!NodeTwist(c))
<1>1. c.command \in U!Command
  BY Fields
<1>2. /\ U!CmdVel(c) \in {U!NoCommand, c.command}
      /\ M!CmdVel(c) \in {U!NoCommand, c.command}
  BY Zeros DEF U!CmdVel, M!CmdVel
<1>3. /\ U!NodeTwist(c) \in {U!NoCommand, U!CmdVel(c)}
      /\ M!NodeTwist(c) \in {U!NoCommand, M!CmdVel(c)}
  BY Zeros DEF U!NodeTwist, M!NodeTwist
<1>4. U!NoCommand \in U!Command /\ Own1(U!NoCommand)
  BY Zeros DEF Own1
<1> QED
  BY <1>1, <1>2, <1>3, <1>4

LEMMA WaitingTypes ==
  ASSUME NEW c \in C, Own1(c.command), out \in Slot, Own1(out.twist)
  PROVE  Waiting(c) \in Slot /\ Own1(Waiting(c).twist)
<1> DEFINE yes == TRUE
           v == U!CmdVel(c)
           x == [fresh |-> yes, twist |-> v]
<1>1. c.twist \in {"none", "zero", "command"}
  BY Fields
<1>2. v \in U!Command /\ Own1(v)
  BY CmdVelTypes
<1>3. yes \in BOOLEAN
  OBVIOUS
<1>4. CASE c.twist = "none"
  BY <1>4 DEF Waiting
<1>5. CASE c.twist = "zero"
  BY <1>5, TwistTypes DEF Waiting
<1>6. CASE c.twist = "command"
  <2>1. Waiting(c) = x
    BY <1>6 DEF Waiting
  <2> HIDE DEF yes, v
  <2>2. x \in Slot /\ x.twist = v
    BY <1>2, <1>3 DEF Slot
  <2> QED
    BY <1>2, <2>1, <2>2
<1> QED
  BY <1>1, <1>4, <1>5, <1>6

LEMMA SentTypes ==
  ASSUME NEW w \in U!Command, Own1(w)
  PROVE  Sent(w) \in U!Command /\ Own1(Sent(w))
BY Zeros DEF Sent, Own1


-----------------------------------------------------------------------------
(* The invariant, action by action.                                         *)

KindOK == \E k \in Kinds : /\ kind.configs \in 0..k.configs
                           /\ kind = [k EXCEPT !.configs = kind.configs, !.strategy = kind.strategy]

LEMMA TypeParts ==
  TypeOK <=>
    /\ KindOK /\ kind.strategy \in {"NMPC", "FLATNESS"}
    /\ phase \in {"stopped", "idle", "open", "ordered", "updated"}
    /\ ctl \in C
    /\ pose \in 0..(StateTimeout + 1) /\ cached \in BOOLEAN
    /\ engine \in {"none", "off", "on"}
    /\ job \in Solve /\ inbox \in Seq(Done) /\ Len(inbox) <= U!MaxInbox
    /\ out \in Slot /\ wire \in U!Command
    /\ orders \in 0..kind.orders /\ wake \in 0..(IdlePeriod + StateTimeout + 1)
BY DEF TypeOK, KindOK, C, Slot

LEMMA KindFields ==
  ASSUME KindOK
  PROVE  kind.orders \in Nat /\ kind.configs \in Nat /\ kind.host \in {"module", "node"}
<1>1. PICK k \in Kinds : /\ kind.configs \in 0..k.configs
                         /\ kind = [k EXCEPT !.configs = kind.configs, !.strategy = kind.strategy]
  BY DEF KindOK
<1>2. k.orders \in Nat /\ k.configs \in Nat /\ k.host \in {"module", "node"} /\ kind.configs \in Nat
  BY <1>1, KindsAssumption
<1>3. kind.orders = k.orders /\ kind.host = k.host
  BY <1>1, KindsAssumption
<1> QED
  BY <1>2, <1>3

LEMMA InvInit == Init => Inv
<1> SUFFICES ASSUME Init
             PROVE  Inv
  OBVIOUS
<1>1. KindOK /\ kind.strategy \in {"NMPC", "FLATNESS"} /\ kind.orders \in Nat
  <2>1. kind.configs \in Nat /\ kind.strategy \in {"NMPC", "FLATNESS"} /\ kind.orders \in Nat
    BY KindsAssumption DEF Init
  <2>2. kind = [kind EXCEPT !.configs = kind.configs, !.strategy = kind.strategy]
    BY KindsAssumption DEF Init
  <2>3. kind \in Kinds
    BY DEF Init
  <2>4. kind.configs \in 0..kind.configs
    BY <2>1
  <2> QED
    BY <2>1, <2>2, <2>3, <2>4, Zenon DEF KindOK
<1>2. U!NewPermit \in U!Permit
  BY DEF U!NewPermit, U!Permit, U!At
<1>3. ctl \in C
  BY <1>2, Zeros, TimesAssumption
     DEF Init, U!NewController, C, U!Controller, U!Mode, Ticket, Number
<1>4. ctl.mode = "SelfCheck" /\ ctl.ticket = U!NoTicket /\ ctl.command = U!NoCommand
  BY DEF Init, U!NewController
<1>5. ~ctl.healthy
  BY DEF Init, U!NewController
<1>6. ctl.idle = 0
  BY DEF Init, U!NewController
<1>7. NoSolve \in Solve /\ NoSolve.seq = 0
  BY SolveTypes
<1>8. NoTwist \in Slot /\ Own1(NoTwist.twist) /\ Own1(U!NoCommand) /\ U!NoCommand \in U!Command
  BY TwistTypes, Zeros DEF Own1
<1>9. TypeOK
  <2>1. /\ phase \in {"stopped", "idle"} /\ pose = StateTimeout + 1 /\ ~cached
        /\ engine \in {"none", "off", "on"} /\ job = NoSolve /\ inbox = <<>>
        /\ out = NoTwist /\ wire = U!NoCommand /\ orders = 0 /\ wake = 0
    BY DEF Init
  <2>2. cached \in BOOLEAN
    BY DEF Init
  <2>3. /\ pose \in 0..(StateTimeout + 1) /\ inbox \in Seq(Done) /\ Len(inbox) <= U!MaxInbox
        /\ orders \in 0..kind.orders /\ wake \in 0..(IdlePeriod + StateTimeout + 1)
    BY <1>1, <2>1, TimesAssumption DEF U!MaxInbox
  <2> QED
    BY <1>1, <1>3, <1>7, <1>8, <2>1, <2>2, <2>3, TypeParts
<1>10. Counted
  BY <1>7 DEF Init, Counted, Busy
<1>11. Owned
  BY <1>4, <1>8 DEF Init, Owned
<1>12. Tracking
  BY <1>4, Zeros DEF Tracking
<1>13. Found /\ Used
  BY <1>4, <1>5 DEF Found, Used
<1>14. Called
  BY <1>4, <1>5, <1>6, OpensIs DEF Init, Called, Opening
<1> QED
  BY <1>9, <1>10, <1>11, <1>12, <1>13, <1>14 DEF Inv

LEMMA InvTurn ==
  ASSUME Inv, NEW order, Turn(order), AfterTurn, phase' \in {"ordered", "updated"},
         orders' \in 0..kind.orders, UNCHANGED <<kind, pose, cached, engine, wire, wake>>
  PROVE  Inv'
<1>1. /\ KindOK /\ kind.strategy \in {"NMPC", "FLATNESS"}
      /\ pose \in 0..(StateTimeout + 1) /\ cached \in BOOLEAN
      /\ engine \in {"none", "off", "on"} /\ job \in Solve /\ inbox \in Seq(Done)
      /\ out \in Slot /\ wire \in U!Command /\ wake \in 0..(IdlePeriod + StateTimeout + 1)
  BY TypeParts DEF Inv
<1>2. Turned
  BY TurnLeaves DEF Inv
<1>3. ctl' \in C /\ Own1(ctl'.command)
  BY <1>2 DEF Turned
<1> DEFINE j == Own(job)
<1>4. /\ j \in Solve /\ j.seq = job.seq
      /\ ctl'.mode = "Custom1" => j = job
  BY <1>1, OwnKeeps
<1>5. (ctl'.ticket.seq # 0 /\ j.seq = ctl'.ticket.seq) => j.own
  BY <1>2, <1>4 DEF Turned
<1>6. out \in Slot /\ Own1(out.twist)
  BY <1>1 DEF Inv, Owned
<1>7. Waiting(ctl') \in Slot /\ Own1(Waiting(ctl').twist)
  BY <1>3, <1>6, WaitingTypes
<1>8. out' \in Slot /\ Own1(out'.twist)
  BY <1>6, <1>7 DEF AfterTurn
<1>9. <<>> \in Seq(Done) /\ Len(<<>>) = 0 /\ DOMAIN <<>> = {}
  OBVIOUS
<1>10. ctl'.solve \in Number
  BY <1>3, Fields
<1> HIDE DEF j
<1>11. /\ job' \in Solve /\ inbox' \in Seq(Done)
       /\ Len(inbox') + Busy' <= 2
       /\ ~Module => Len(inbox') + Busy' <= 1
       /\ job' = j \/ (ctl'.mode = "Custom1" => job'.own)
       /\ \A i \in DOMAIN inbox' : ~inbox'[i].ok
  <2>1. BusyOf(j) \in {0, 1}
    BY DEF BusyOf
  <2>2. CASE Module
    <3>1. Asked(ctl', j, <<>>)
      BY <2>2 DEF AfterTurn, j
    <3>2. /\ job' \in Solve /\ inbox' \in Seq(Done)
          /\ Len(inbox') + Busy' <= Len(<<>>) + BusyOf(j) + 1
          /\ job' = j \/ (ctl'.mode = "Custom1" => job'.own)
          /\ \A i \in DOMAIN inbox' : inbox'[i].ok => i \in DOMAIN <<>> /\ inbox'[i] = <<>>[i]
      BY <1>4, <1>9, <1>10, <3>1, AskedKeeps
    <3>3. Len(inbox') \in Nat /\ Busy' \in {0, 1}
      BY <3>2 DEF Busy
    <3>4. Len(inbox') + Busy' <= 2
      BY <1>9, <2>1, <3>2, <3>3
    <3>5. \A i \in DOMAIN inbox' : ~inbox'[i].ok
      BY <3>2
    <3> QED
      BY <2>2, <3>2, <3>4, <3>5
  <2>3. CASE ~Module
    <3>1. job' = j /\ inbox' = <<>>
      BY <2>3 DEF AfterTurn, j
    <3>2. Busy' \in {0, 1}
      BY DEF Busy
    <3>3. /\ inbox' \in Seq(Done) /\ Len(inbox') = 0
          /\ \A i \in DOMAIN inbox' : ~inbox'[i].ok
      BY <1>9, <3>1
    <3>4. Len(inbox') + Busy' <= 1 /\ Len(inbox') + Busy' <= 2
      <4>1. Len(inbox') = 0
        BY <3>3
      <4> QED
        BY <4>1 DEF Busy
    <3>5. job' \in Solve
      BY <1>4, <3>1
    <3> QED
      BY <3>1, <3>3, <3>4, <3>5, Zenon
  <2> QED
    BY <2>2, <2>3
<1>12. Len(inbox') <= 3
  BY <1>11 DEF Busy
<1>13. TypeOK'
  <2>1. KindOK'
    BY <1>1 DEF KindOK
  <2> QED
    BY <1>1, <1>3, <1>8, <1>11, <1>12, <2>1 DEF TypeOK, KindOK, C, Slot, U!MaxInbox
<1>14. Counted'
  BY <1>11 DEF Counted, Module
<1>15. Owned'
  BY <1>3, <1>8 DEF Inv, Owned
<1>16. Tracking'
  <2>1. (ctl'.ticket.seq # 0 /\ job'.seq = ctl'.ticket.seq) => job'.own
    BY <1>2, <1>4, <1>5, <1>11 DEF Turned
  <2> QED
    BY <1>2, <1>11, <2>1 DEF Turned, Tracking, Unicycle
<1>17. Found'
  BY <1>2 DEF Turned, Found
<1>18. Used'
  BY <1>2 DEF Turned, Used
<1>19. Called'
  BY DEF Called
<1> QED
  BY <1>13, <1>14, <1>15, <1>16, <1>17, <1>18, <1>19 DEF Inv


\* A step that changes only the permit, the command or the PVA of the controller.
LEMMA InvKept ==
  ASSUME Inv, TypeOK', ctl' \in C, Own1(ctl'.command), Own1(wire'),
         ctl'.mode = ctl.mode, ctl'.healthy = ctl.healthy, ctl'.ticket = ctl.ticket,
         ctl'.idle = ctl.idle, ctl'.commandGate = ctl.commandGate,
         ctl'.mode = "Custom1" => (ctl'.reference = ctl.reference \/ ctl'.reference = "now"),
         kind'.chassis = kind.chassis, kind'.host = kind.host,
         job' = job, inbox' = inbox, out' = out, wake' = wake,
         phase' \in {"ordered", "updated"} => phase' = phase,
         phase' = "idle" => phase = "idle" /\ ctl'.command = ctl.command /\ pose' = pose
  PROVE  Inv'
<1>1. Counted'
  BY DEF Inv, Counted, Module, Busy
<1>2. Owned'
  BY DEF Inv, Owned
<1>3. Tracking'
  BY DEF Inv, Tracking, Unicycle
<1>4. Found'
  BY DEF Inv, Found
<1>5. Used'
  BY DEF Inv, Used
<1>6. Called'
  BY DEF Inv, Called, Opens, Unicycle, U!CommandReady
<1> QED
  BY <1>1, <1>2, <1>3, <1>4, <1>5, <1>6 DEF Inv

LEMMA InvBegin ==
  ASSUME Inv, Begin
  PROVE  Inv'
<1>1. ctl \in C /\ TypeOK /\ Own1(ctl.command) /\ Own1(wire)
  BY TypeParts DEF Inv, Owned
<1>2. PICK p \in {q \in Observed(ctl.permit) : May(q)}, told \in Told :
        LET c == [ctl EXCEPT !.permit = p]
        IN  ctl' = IF ~told THEN c
                   ELSE IF Unicycle THEN U!SetWorldPva(c) ELSE M!SetWorldReference(c)
  BY DEF Begin
<1>3. p \in Permit
  BY <1>1, <1>2, Fields, Observes
<1> DEFINE c == [ctl EXCEPT !.permit = p]
           v == IF Unicycle /\ c.mode # "Custom1" THEN "before" ELSE "now"
           d == [c EXCEPT !.reference = v]
<1>4. ctl' = c \/ ctl' = d
  BY <1>2 DEF U!SetWorldPva, M!SetWorldReference
<1>5. /\ c \in C /\ c.mode = ctl.mode /\ c.healthy = ctl.healthy /\ c.ticket = ctl.ticket
      /\ c.idle = ctl.idle /\ c.commandGate = ctl.commandGate /\ c.reference = ctl.reference
      /\ c.command = ctl.command
  BY <1>1, <1>3, SetPermit
<1>6. v \in {"none", "before", "now"} /\ (c.mode = "Custom1" => v = "now")
  OBVIOUS
<1> HIDE DEF c, v
<1>7. /\ d \in C /\ d.mode = ctl.mode /\ d.healthy = ctl.healthy /\ d.ticket = ctl.ticket
      /\ d.idle = ctl.idle /\ d.commandGate = ctl.commandGate /\ d.reference = v
      /\ d.command = ctl.command
  BY <1>5, <1>6, SetReference
<1> HIDE DEF d
<1>8. /\ ctl' \in C /\ ctl'.mode = ctl.mode /\ ctl'.healthy = ctl.healthy
      /\ ctl'.ticket = ctl.ticket /\ ctl'.idle = ctl.idle
      /\ ctl'.commandGate = ctl.commandGate /\ ctl'.command = ctl.command
      /\ ctl'.mode = "Custom1" => (ctl'.reference = ctl.reference \/ ctl'.reference = "now")
  BY <1>4, <1>5, <1>6, <1>7
<1>9. /\ phase' = "open" /\ orders' = 0
      /\ UNCHANGED <<kind, engine, job, inbox, out, wire, wake>>
  BY DEF Begin
<1>10. pose' \in 0..(StateTimeout + 1)
  BY <1>1, TimesAssumption DEF Begin, States, TypeOK
<1>11. cached' \in BOOLEAN
  BY <1>1 DEF Begin, Caches, TypeOK
<1>12. TypeOK'
  <2>1. KindOK /\ kind.orders \in Nat
    BY <1>1, TypeParts, KindFields
  <2>2. KindOK'
    BY <1>9, <2>1 DEF KindOK
  <2> QED
    <3>1. orders' \in 0..kind'.orders
      BY <1>9, <2>1
    <3>2. /\ kind'.strategy \in {"NMPC", "FLATNESS"} /\ phase' = "open"
          /\ engine' \in {"none", "off", "on"} /\ job' \in Solve /\ inbox' \in Seq(Done)
          /\ Len(inbox') <= U!MaxInbox /\ out' \in Slot /\ wire' \in U!Command
          /\ wake' \in 0..(IdlePeriod + StateTimeout + 1)
      BY <1>1, <1>9 DEF TypeOK, Slot
    <3> QED
      BY <1>8, <1>10, <1>11, <2>2, <3>1, <3>2 DEF TypeOK, KindOK, C, Slot
<1>13. Own1(ctl'.command) /\ Own1(wire')
  BY <1>1, <1>8, <1>9
<1> QED
  BY <1>8, <1>9, <1>12, <1>13, InvKept

LEMMA InvGrant ==
  ASSUME Inv, Grant
  PROVE  Inv'
<1>1. ctl \in C /\ TypeOK /\ Own1(ctl.command) /\ Own1(wire) /\ wire \in U!Command
  BY TypeParts DEF Inv, Owned
<1>2. PICK p \in {q \in Granted(ctl.permit) : May(q)} :
        /\ ctl'  = [ctl EXCEPT !.permit = p,
                               !.command = IF RequiresZero(p) THEN U!NoCommand ELSE @]
        /\ wire' = IF NeedsZero(p) /\ ~NeedsZero(ctl.permit) THEN Sent(wire) ELSE wire
  BY DEF Grant
<1>3. p \in Permit
  BY <1>1, <1>2, Fields, Grants
<1> DEFINE c == [ctl EXCEPT !.permit = p]
           v == IF RequiresZero(p) THEN U!NoCommand ELSE ctl.command
           d == [c EXCEPT !.command = v]
<1>4. ctl' = d
  BY <1>2
<1>5. /\ c \in C /\ c.mode = ctl.mode /\ c.healthy = ctl.healthy /\ c.ticket = ctl.ticket
      /\ c.idle = ctl.idle /\ c.commandGate = ctl.commandGate /\ c.reference = ctl.reference
  BY <1>1, <1>3, SetPermit
<1>6. v \in U!Command /\ Own1(v)
  BY <1>1, Zeros, Fields DEF Own1
<1> HIDE DEF c, v
<1>7. /\ d \in C /\ d.mode = ctl.mode /\ d.healthy = ctl.healthy /\ d.ticket = ctl.ticket
      /\ d.idle = ctl.idle /\ d.commandGate = ctl.commandGate /\ d.reference = ctl.reference
      /\ d.command = v
  BY <1>5, <1>6, SetCommand
<1> HIDE DEF d
<1>8. /\ phase' = phase /\ phase # "idle"
      /\ UNCHANGED <<kind, pose, cached, engine, job, inbox, out, orders, wake>>
  BY DEF Grant
<1>9. wire' \in U!Command /\ Own1(wire')
  BY <1>1, <1>2, SentTypes
<1>10. TypeOK'
  BY <1>1, <1>4, <1>7, <1>8, <1>9 DEF TypeOK, C
<1> QED
  BY <1>4, <1>6, <1>7, <1>8, <1>9, <1>10, InvKept

LEMMA InvReceipt ==
  ASSUME Inv, Receipt
  PROVE  Inv'
<1>1. ctl \in C /\ TypeOK /\ Own1(ctl.command) /\ Own1(wire) /\ wire \in U!Command
  BY TypeParts DEF Inv, Owned
<1> DEFINE p == Zeroed(ctl.permit)
           c == [ctl EXCEPT !.permit = p]
<1>2. ctl' = c
  BY DEF Receipt
<1>3. p \in Permit
  BY <1>1, Fields, Acknowledges
<1> HIDE DEF p
<1>4. /\ c \in C /\ c.mode = ctl.mode /\ c.healthy = ctl.healthy /\ c.ticket = ctl.ticket
      /\ c.idle = ctl.idle /\ c.commandGate = ctl.commandGate /\ c.reference = ctl.reference
      /\ c.command = ctl.command
  BY <1>1, <1>3, SetPermit
<1> HIDE DEF c
<1>5. /\ phase' = phase /\ phase = "open" /\ wire' = Sent(wire)
      /\ UNCHANGED <<kind, pose, cached, engine, job, inbox, out, orders, wake>>
  BY DEF Receipt
<1>6. wire' \in U!Command /\ Own1(wire')
  BY <1>1, <1>5, SentTypes
<1>7. TypeOK'
  BY <1>1, <1>2, <1>4, <1>5, <1>6 DEF TypeOK, C
<1> QED
  BY <1>1, <1>2, <1>4, <1>5, <1>6, <1>7, InvKept

LEMMA InvConfigure ==
  ASSUME Inv, Configure
  PROVE  Inv'
<1>1. /\ ctl \in C /\ TypeOK /\ Own1(ctl.command) /\ Own1(wire)
      /\ KindOK /\ engine \in {"none", "off", "on"}
  BY TypeParts DEF Inv, Owned
<1>2. PICK strategy \in {"NMPC", "FLATNESS"}, built \in BOOLEAN :
        /\ kind' = [kind EXCEPT !.strategy = strategy, !.configs = @ - 1]
        /\ engine' = IF strategy = "NMPC" /\ engine = "none" /\ built
                     THEN IF phase = "idle" THEN "on" ELSE "off" ELSE engine
  BY DEF Configure
<1>3. PICK p \in {q \in Respecified(ctl.permit) : May(q)} : ctl' = [ctl EXCEPT !.permit = p]
  BY DEF Configure
<1>4. p \in Permit
  BY <1>1, <1>3, Fields, Ends
<1> DEFINE c == [ctl EXCEPT !.permit = p]
<1>5. ctl' = c
  BY <1>3
<1>6. /\ c \in C /\ c.mode = ctl.mode /\ c.healthy = ctl.healthy /\ c.ticket = ctl.ticket
      /\ c.idle = ctl.idle /\ c.commandGate = ctl.commandGate /\ c.reference = ctl.reference
      /\ c.command = ctl.command
  BY <1>1, <1>4, SetPermit
<1> HIDE DEF c
<1>7. /\ kind.configs > 0 /\ phase \in {"stopped", "idle"}
      /\ UNCHANGED <<phase, pose, cached, job, inbox, out, wire, orders, wake>>
  BY DEF Configure
<1>8. engine' \in {"none", "off", "on"}
  BY <1>1, <1>2
<1>9. /\ KindOK' /\ kind'.strategy \in {"NMPC", "FLATNESS"}
      /\ kind'.orders = kind.orders /\ kind'.chassis = kind.chassis /\ kind'.host = kind.host
  <2>1. PICK k \in Kinds : /\ kind.configs \in 0..k.configs
                           /\ kind = [k EXCEPT !.configs = kind.configs, !.strategy = kind.strategy]
    BY <1>1 DEF KindOK
  <2>2. k \in [chassis : {"unicycle", "mecanum"}, host : {"module", "node"},
               strategy : {"NMPC", "FLATNESS"}, auto : BOOLEAN,
               faults : SUBSET Faults, orders : Nat, configs : Nat]
    BY KindsAssumption
  <2> DEFINE n == kind.configs - 1
  <2>3. n \in 0..k.configs
    BY <1>7, <2>1, <2>2
  <2>4. kind' = [kind EXCEPT !.strategy = strategy, !.configs = n]
    BY <1>2
  <2> HIDE DEF n
  <2>5. kind' = [k EXCEPT !.configs = n, !.strategy = strategy]
    BY <2>1, <2>2, <2>4
  <2>6. kind'.configs = n /\ kind'.strategy = strategy
    BY <2>2, <2>5
  <2>7. KindOK'
    BY <2>3, <2>5, <2>6 DEF KindOK
  <2>8. kind'.orders = k.orders /\ kind'.chassis = k.chassis /\ kind'.host = k.host
    BY <2>2, <2>5
  <2>9. kind.orders = k.orders /\ kind.chassis = k.chassis /\ kind.host = k.host
    BY <2>1, <2>2
  <2> QED
    BY <2>6, <2>7, <2>8, <2>9
<1>10. TypeOK'
  BY <1>1, <1>5, <1>6, <1>7, <1>8, <1>9 DEF TypeOK, KindOK, C
<1> QED
  BY <1>1, <1>5, <1>6, <1>7, <1>9, <1>10, InvKept


LEMMA WakeInTime ==
  ASSUME TypeOK, NEW c \in C, c.mode = "Reset" => ~c.commandGate
  PROVE  InTime(c, Wake(c))
<1> DEFINE in == Inputs("good", TRUE)
<1>1. in.strategy = kind.strategy
  BY DEF Inputs
<1>2. in.strategy \in {"NMPC", "FLATNESS"}
  BY <1>1 DEF TypeOK
<1>3. CASE Unicycle
  <2>1. Wake(c) = U!NextWake(c, in, pose)
    BY <1>3 DEF Wake
  <2> HIDE DEF in
  <2> QED
    BY <1>2, <1>3, <2>1, UnicycleCalls
<1>4. CASE ~Unicycle
  <2>1. Wake(c) = M!NextWake(c, pose)
    BY <1>4 DEF Wake
  <2> QED
    BY <1>4, <2>1, MecanumCalls
<1> QED
  BY <1>3, <1>4

LEMMA DispatchKeeps ==
  ASSUME NEW c \in C
  PROVE  /\ Dispatched(c) \in C /\ Dispatched(c).mode = c.mode
         /\ Dispatched(c).healthy = c.healthy /\ Dispatched(c).ticket = c.ticket
         /\ Dispatched(c).command = c.command /\ Dispatched(c).idle = c.idle
         /\ Dispatched(c).commandGate = c.commandGate /\ Dispatched(c).reference = c.reference
         /\ Dispatched(c).permit = c.permit
<1> DEFINE d == [c EXCEPT !.twist = "none"]
           e == [d EXCEPT !.solve = 0]
<1>1. Dispatched(c) = e
  BY DEF Dispatched
<1>2. /\ d \in C /\ d.mode = c.mode /\ d.healthy = c.healthy /\ d.ticket = c.ticket
      /\ d.command = c.command /\ d.idle = c.idle /\ d.commandGate = c.commandGate
      /\ d.reference = c.reference /\ d.permit = c.permit
  BY SetTwist
<1> HIDE DEF d
<1>3. /\ e \in C /\ e.mode = c.mode /\ e.healthy = c.healthy /\ e.ticket = c.ticket
      /\ e.command = c.command /\ e.idle = c.idle /\ e.commandGate = c.commandGate
      /\ e.reference = c.reference /\ e.permit = c.permit
  BY <1>2, SetSolve DEF Number
<1> HIDE DEF e
<1> QED
  BY <1>1, <1>3

\* The end of a step of the owner, which then sleeps until `wake'.
LEMMA InvPublish ==
  ASSUME Inv, phase \in {"ordered", "updated"}, phase' = "idle",
         ctl' \in C, ctl'.mode = ctl.mode, ctl'.healthy = ctl.healthy, ctl'.ticket = ctl.ticket,
         ctl'.command = ctl.command, ctl'.idle = ctl.idle, ctl'.commandGate = ctl.commandGate,
         ctl'.reference = ctl.reference,
         job' \in Solve, inbox' \in Seq(Done), Len(inbox') + Busy' <= 2,
         job' = job \/ (ctl.mode = "Custom1" => job'.own),
         \A i \in DOMAIN inbox' : inbox'[i].ok => i \in DOMAIN inbox /\ inbox'[i] = inbox[i],
         out' \in Slot, Own1(out'.twist), wire' \in U!Command, Own1(wire'),
         InTime(ctl, wake') \/ InTime(ctl', wake'),
         UNCHANGED <<kind, pose, cached, engine, orders>>
  PROVE  Inv'
<1>1. Own1(ctl'.command)
  BY DEF Inv, Owned
<1>2. Len(inbox') <= 2
  BY DEF Busy
<1>3. Opening(ctl') = Opening(ctl)
  BY DEF Opening, U!CommandReady
<1>4. InTime(ctl', wake')
  BY <1>3 DEF InTime
<1>5. wake' \in 0..(IdlePeriod + StateTimeout + 1)
  BY <1>4, TimesAssumption DEF InTime
<1>6. TypeOK'
  <2>1. TypeOK
    BY DEF Inv
  <2>2. /\ KindOK /\ kind.strategy \in {"NMPC", "FLATNESS"} /\ pose \in 0..(StateTimeout + 1)
        /\ cached \in BOOLEAN /\ engine \in {"none", "off", "on"} /\ orders \in 0..kind.orders
    BY <2>1, TypeParts
  <2>3. /\ KindOK' /\ kind'.strategy \in {"NMPC", "FLATNESS"} /\ pose' \in 0..(StateTimeout + 1)
        /\ engine' \in {"none", "off", "on"} /\ orders' \in 0..kind'.orders
    BY <2>2 DEF KindOK
  <2>4. cached' \in BOOLEAN
    BY <2>2
  <2>5. Len(inbox') <= U!MaxInbox
    BY <1>2 DEF U!MaxInbox
  <2> QED
    BY <1>5, <2>3, <2>4, <2>5 DEF TypeOK, KindOK, C, Slot
<1>7. Counted'
  BY DEF Counted
<1>8. Owned'
  BY <1>1 DEF Owned
<1>9. Tracking'
  <2>1. \A i \in DOMAIN inbox' : inbox'[i].ok => i \in DOMAIN inbox /\ inbox'[i] = inbox[i]
    OBVIOUS
  <2> QED
    BY <2>1 DEF Inv, Tracking, Unicycle
<1>10. Found'
  BY DEF Inv, Found
<1>11. Used'
  BY DEF Used
<1>12. Called'
  <2>1. Opens' = Opening(ctl')
    BY DEF Opens, Opening, Unicycle
  <2> QED
    BY <1>4, <2>1 DEF Called, InTime, Unicycle
<1> QED
  BY <1>6, <1>7, <1>8, <1>9, <1>10, <1>11, <1>12 DEF Inv

LEMMA InvPublishModule ==
  ASSUME Inv, PublishModule
  PROVE  Inv'
<1>1. /\ ctl \in C /\ TypeOK /\ Own1(ctl.command) /\ Own1(out.twist) /\ Own1(wire)
      /\ out \in Slot /\ wire \in U!Command /\ job \in Solve /\ inbox \in Seq(Done)
  BY TypeParts DEF Inv, Owned
<1>2. PICK taken \in (IF "slot" \in kind.faults THEN BOOLEAN ELSE {TRUE}),
           ready \in {IF NeedsZero(ctl.permit) THEN ZeroTwist ELSE out} :
        /\ wire' = IF ~ready.fresh \/ ~taken THEN wire
                   ELSE IF ready.twist.drive /\ ~RequiresZero(ctl.permit) THEN ready.twist
                   ELSE [U!NoCommand EXCEPT !.own = NeedsZero(ctl.permit)]
        /\ out'  = IF taken THEN NoTwist ELSE ready
        /\ wake' = Scheduled(out'.fresh)
  BY DEF PublishModule
<1>3. ready \in Slot /\ Own1(ready.twist)
  BY <1>1, <1>2, TwistTypes
<1>4. out' \in Slot /\ Own1(out'.twist)
  BY <1>2, <1>3, TwistTypes
<1> DEFINE owed == NeedsZero(ctl.permit)
           zero == [U!NoCommand EXCEPT !.own = owed]
<1>5. zero \in U!Command /\ Own1(zero)
  <2>1. owed \in BOOLEAN
    BY DEF NeedsZero
  <2> HIDE DEF owed
  <2>2. zero \in U!Command /\ zero.drive = U!NoCommand.drive
    BY <2>1, Zeros DEF U!Command
  <2> QED
    BY <2>2, Zeros DEF Own1
<1>6. wire' \in {wire, ready.twist, zero}
  BY <1>2
<1>7. wire' \in U!Command /\ Own1(wire')
  <2> HIDE DEF zero
  <2>1. ready.twist \in U!Command
    BY <1>3 DEF Slot
  <2> QED
    BY <1>1, <1>3, <1>5, <1>6, <2>1
<1>8. ctl.mode = "Reset" => ~ctl.commandGate
  BY DEF PublishModule, Inv, Used
<1>9. InTime(ctl, Wake(ctl))
  BY <1>1, <1>8, WakeInTime
<1>10. InTime(ctl, wake')
  <2>1. wake' = Wake(ctl) \/ (wake' = 1 /\ Wake(ctl) > 0)
    BY <1>2 DEF Scheduled
  <2>2. ctl.idle \in Nat
    BY <1>1, Fields, TimesAssumption
  <2>3. Opening(ctl) \in Nat
    BY <2>2 DEF Opening
  <2>4. pose \in Nat
    BY <1>1, TimesAssumption DEF TypeOK
  <2> QED
    BY <1>9, <2>1, <2>3, <2>4, TimesAssumption DEF InTime
<1>11. /\ phase \in {"ordered", "updated"} /\ phase' = "idle" /\ ctl' = Dispatched(ctl)
       /\ job' = job /\ inbox' = inbox
       /\ UNCHANGED <<kind, pose, cached, engine, orders>>
  BY DEF PublishModule
<1>12. Len(inbox') + Busy' <= 2
  BY <1>11 DEF Inv, Counted, Busy
<1>13. \A i \in DOMAIN inbox' : inbox'[i].ok => i \in DOMAIN inbox /\ inbox'[i] = inbox[i]
  BY <1>11
<1> QED
  BY <1>1, <1>4, <1>7, <1>10, <1>11, <1>12, <1>13, DispatchKeeps, InvPublish

LEMMA InvPublishNode ==
  ASSUME Inv, PublishNode
  PROVE  Inv'
<1>1. /\ ctl \in C /\ TypeOK /\ Own1(ctl.command) /\ Own1(out.twist) /\ Own1(wire)
      /\ out \in Slot /\ wire \in U!Command /\ job \in Solve /\ inbox \in Seq(Done)
  BY TypeParts DEF Inv, Owned
<1> DEFINE twist == IF Unicycle THEN U!NodeTwist(ctl) ELSE M!NodeTwist(ctl)
           sent  == ctl.twist # "none" \/ NeedsZero(ctl.permit)
           d     == Dispatched(ctl)
           p     == IF sent /\ ~twist.drive /\ ~ctl.command.drive THEN Zeroed(d.permit) ELSE d.permit
           e     == [d EXCEPT !.permit = p]
<1>2. /\ ~Module /\ phase \in {"ordered", "updated"} /\ phase' = "idle"
      /\ wire' = (IF sent THEN Sent(twist) ELSE wire)
      /\ ctl' = e /\ wake' = Wake(ctl') /\ Asked(ctl, job, inbox)
      /\ UNCHANGED <<kind, pose, cached, engine, out, orders>>
  BY DEF PublishNode
<1>3. twist \in U!Command /\ Own1(twist)
  BY <1>1, CmdVelTypes
<1> HIDE DEF twist
<1>4. wire' \in U!Command /\ Own1(wire')
  BY <1>1, <1>2, <1>3, SentTypes
<1>5. /\ d \in C /\ d.mode = ctl.mode /\ d.healthy = ctl.healthy /\ d.ticket = ctl.ticket
      /\ d.command = ctl.command /\ d.idle = ctl.idle /\ d.commandGate = ctl.commandGate
      /\ d.reference = ctl.reference
  BY <1>1, DispatchKeeps
<1> HIDE DEF d
<1>6. p \in Permit
  <2>1. d.permit \in Permit
    BY <1>5, Fields
  <2> QED
    BY <2>1, Acknowledges
<1> HIDE DEF p
<1>7. /\ e \in C /\ e.mode = ctl.mode /\ e.healthy = ctl.healthy /\ e.ticket = ctl.ticket
      /\ e.command = ctl.command /\ e.idle = ctl.idle /\ e.commandGate = ctl.commandGate
      /\ e.reference = ctl.reference
  BY <1>5, <1>6, SetPermit
<1> HIDE DEF e
<1>8. e.mode = "Reset" => ~e.commandGate
  BY <1>2, <1>7 DEF Inv, Used
<1>9. InTime(e, Wake(e))
  BY <1>1, <1>7, <1>8, WakeInTime
<1>10. InTime(ctl', wake')
  BY <1>2, <1>9
<1>11. ctl.solve \in Number
  BY <1>1, Fields
<1>12. /\ job' \in Solve /\ inbox' \in Seq(Done)
       /\ Len(inbox') + Busy' <= Len(inbox) + BusyOf(job) + 1
       /\ job' = job \/ (ctl.mode = "Custom1" => job'.own)
       /\ \A i \in DOMAIN inbox' : inbox'[i].ok => i \in DOMAIN inbox /\ inbox'[i] = inbox[i]
  BY <1>1, <1>2, <1>11, AskedKeeps
<1>13. Len(inbox') + Busy' <= 2
  <2>1. Len(inbox) + BusyOf(job) <= 1
    BY <1>2 DEF Inv, Counted, Busy, BusyOf
  <2>2. Len(inbox) \in Nat /\ Len(inbox') \in Nat
    BY <1>1, <1>12
  <2>3. BusyOf(job) \in {0, 1}
    BY DEF BusyOf
  <2>4. Busy' \in {0, 1}
    BY DEF Busy
  <2> QED
    BY <1>12, <2>1, <2>2, <2>3, <2>4
<1>14. out' \in Slot /\ Own1(out'.twist)
  BY <1>1, <1>2
<1> QED
  BY <1>2, <1>4, <1>7, <1>10, <1>12, <1>13, <1>14, InvPublish


LEMMA PostedKeeps ==
  ASSUME job \in Solve, inbox \in Seq(Done), NEW ok \in BOOLEAN
  PROVE  /\ Posted(ok) \in Seq(Done) /\ Len(Posted(ok)) = Len(inbox) + 1
         /\ \A i \in DOMAIN Posted(ok) :
              \/ i \in DOMAIN inbox /\ Posted(ok)[i] = inbox[i]
              \/ Posted(ok)[i].ok => Posted(ok)[i].seq = job.seq /\ (job.own => Posted(ok)[i].own)
<1> DEFINE yes == TRUE
           own == job.own
           x == [seq |-> job.seq, age |-> job.age, own |-> own, ok |-> yes]
           f == Failed(job.seq)
           a == IF ok THEN x ELSE f
           k == Append(inbox, a)
<1>1. Posted(ok) = k
  BY DEF Posted
<1>2. yes \in BOOLEAN
  OBVIOUS
<1>3. own \in BOOLEAN
  BY DEF Solve
<1>4. job.own => own
  OBVIOUS
<1>5. f \in Done /\ ~f.ok
  BY SolveTypes DEF Solve
<1> HIDE DEF yes, own, f
<1>6. x \in Done /\ x.seq = job.seq
  BY <1>2, <1>3 DEF Done, Solve
<1>7. own => x.own
  OBVIOUS
<1> HIDE DEF x
<1>8. a \in Done /\ (a.ok => a.seq = job.seq /\ (job.own => a.own))
  BY <1>4, <1>5, <1>6, <1>7
<1> HIDE DEF a
<1>9. /\ k \in Seq(Done) /\ Len(k) = Len(inbox) + 1
      /\ \A i \in DOMAIN k : (i \in DOMAIN inbox /\ k[i] = inbox[i]) \/ k[i] = a
  BY <1>8
<1> HIDE DEF k
<1> QED
  BY <1>1, <1>8, <1>9

LEMMA InvSolved ==
  ASSUME Inv, Solved
  PROVE  Inv'
<1>1. job \in Solve /\ inbox \in Seq(Done) /\ TypeOK
  BY TypeParts DEF Inv
<1>2. /\ job.seq # 0 /\ job' = NoSolve
      /\ UNCHANGED <<kind, phase, ctl, pose, cached, engine, out, wire, orders, wake>>
  BY DEF Solved
<1>3. PICK ok \in BOOLEAN : inbox' = Posted(ok)
  BY DEF Solved
<1>4. /\ inbox' \in Seq(Done) /\ Len(inbox') = Len(inbox) + 1
      /\ \A i \in DOMAIN inbox' :
           \/ i \in DOMAIN inbox /\ inbox'[i] = inbox[i]
           \/ inbox'[i].ok => inbox'[i].seq = job.seq /\ (job.own => inbox'[i].own)
  BY <1>1, <1>3, PostedKeeps
<1>5. Busy = 1 /\ Busy' = 0
  BY <1>2, SolveTypes DEF Busy
<1>6. Counted'
  BY <1>1, <1>2, <1>4, <1>5 DEF Inv, Counted, Module
<1>7. TypeOK'
  <2>1. Len(inbox') <= U!MaxInbox
    BY <1>1, <1>4, <1>5 DEF Inv, Counted, U!MaxInbox
  <2> QED
    BY <1>1, <1>2, <1>4, <2>1, SolveTypes DEF TypeOK, C
<1>8. Owned'
  BY <1>2 DEF Inv, Owned
<1>9. Tracking'
  <2>1. job'.seq = 0
    BY <1>2, SolveTypes
  <2>2. \A i \in DOMAIN inbox' : (ctl.ticket.seq # 0 /\ inbox'[i].seq = ctl.ticket.seq /\ inbox'[i].ok)
                                   => inbox'[i].own
    BY <1>4 DEF Inv, Tracking
  <2> QED
    BY <1>2, <2>1, <2>2 DEF Inv, Tracking, Unicycle
<1>10. Found' /\ Used'
  BY <1>2 DEF Inv, Found, Used
<1>11. Called'
  BY <1>2 DEF Inv, Called, Opens, Unicycle, U!CommandReady
<1> QED
  BY <1>6, <1>7, <1>8, <1>9, <1>10, <1>11 DEF Inv

LEMMA InvStart ==
  ASSUME Inv, Start
  PROVE  Inv'
<1>1. /\ phase' = "idle" /\ wake' = 0
      /\ engine' = (IF engine = "off" THEN "on" ELSE engine)
      /\ UNCHANGED <<kind, ctl, pose, cached, job, inbox, out, wire, orders>>
  BY DEF Start
<1>2. TypeOK /\ ctl \in C
  BY TypeParts DEF Inv
<1>3. TypeOK'
  <2>1. wake' \in 0..(IdlePeriod + StateTimeout + 1)
    BY <1>1, TimesAssumption
  <2>2. engine' \in {"none", "off", "on"}
    BY <1>1, <1>2 DEF TypeOK
  <2> QED
    BY <1>1, <1>2, <2>1, <2>2 DEF TypeOK, C
<1>4. Counted' /\ Owned' /\ Found' /\ Used'
  BY <1>1 DEF Inv, Counted, Module, Busy, Owned, Found, Used
<1>5. Tracking'
  BY <1>1 DEF Inv, Tracking, Unicycle
<1>6. Called'
  <2>1. ctl'.idle \in Nat
    BY <1>1, <1>2, Fields, TimesAssumption
  <2> QED
    BY <1>1, <2>1 DEF Called, Opens
<1> QED
  BY <1>3, <1>4, <1>5, <1>6 DEF Inv

LEMMA InvStop ==
  ASSUME Inv, Stop
  PROVE  Inv'
<1>1. ctl \in C /\ TypeOK /\ job \in Solve /\ inbox \in Seq(Done)
  BY TypeParts DEF Inv
<1>2. /\ phase' = "stopped" /\ job' = NoSolve /\ out' = ZeroTwist
      /\ engine' = (IF engine = "on" THEN "off" ELSE engine)
      /\ UNCHANGED <<kind, pose, cached, wire, orders, wake>>
  BY DEF Stop
<1>3. PICK p \in {q \in Ended(ctl.permit) : May(q)} :
        ctl' = [ctl EXCEPT !.permit = p, !.command = U!NoCommand]
  BY DEF Stop
<1>4. p \in Permit
  BY <1>1, <1>3, Fields, Ends
<1> DEFINE c == [ctl EXCEPT !.permit = p]
           d == [c EXCEPT !.command = U!NoCommand]
<1>5. ctl' = d
  BY <1>3
<1>6. /\ c \in C /\ c.mode = ctl.mode /\ c.healthy = ctl.healthy /\ c.ticket = ctl.ticket
      /\ c.reference = ctl.reference
  BY <1>1, <1>4, SetPermit
<1> HIDE DEF c
<1>7. /\ d \in C /\ d.mode = ctl.mode /\ d.healthy = ctl.healthy /\ d.ticket = ctl.ticket
      /\ d.reference = ctl.reference /\ d.command = U!NoCommand
  BY <1>6, Zeros, SetCommand
<1> HIDE DEF d
<1>8. \/ inbox' = inbox
      \/ job.seq # 0 /\ \E ok \in BOOLEAN : inbox' = Posted(ok)
  BY DEF Stop
<1>9. /\ inbox' \in Seq(Done)
      /\ Len(inbox') <= Len(inbox) + Busy
      /\ \A i \in DOMAIN inbox' :
           \/ i \in DOMAIN inbox /\ inbox'[i] = inbox[i]
           \/ inbox'[i].ok => inbox'[i].seq = job.seq /\ (job.own => inbox'[i].own)
  <2>1. CASE inbox' = inbox
    BY <1>1, <2>1 DEF Busy
  <2>2. CASE job.seq # 0 /\ \E ok \in BOOLEAN : inbox' = Posted(ok)
    <3>1. PICK ok \in BOOLEAN : inbox' = Posted(ok)
      BY <2>2
    <3>2. Busy = 1
      BY <2>2 DEF Busy
    <3> QED
      BY <1>1, <3>1, <3>2, PostedKeeps
  <2> QED
    BY <1>8, <2>1, <2>2
<1>10. Busy' = 0
  BY <1>2, SolveTypes DEF Busy
<1>11. Len(inbox') <= 2 /\ Len(inbox') \in Nat
  BY <1>1, <1>9 DEF Inv, Counted, Busy
<1>12. Counted'
  BY <1>2, <1>10, <1>11 DEF Counted
<1>13. TypeOK'
  <2>1. Len(inbox') <= U!MaxInbox
    BY <1>11 DEF U!MaxInbox
  <2> QED
    BY <1>1, <1>2, <1>5, <1>7, <1>9, <2>1, SolveTypes, TwistTypes DEF TypeOK, C, Slot
<1>14. Owned'
  BY <1>2, <1>5, <1>7, TwistTypes, Zeros DEF Inv, Owned, Own1
<1>15. Tracking'
  <2>1. job'.seq = 0
    BY <1>2, SolveTypes
  <2>2. \A i \in DOMAIN inbox' : (ctl.ticket.seq # 0 /\ inbox'[i].seq = ctl.ticket.seq /\ inbox'[i].ok)
                                   => inbox'[i].own
    BY <1>9 DEF Inv, Tracking
  <2> QED
    BY <1>2, <1>5, <1>7, <2>1, <2>2 DEF Inv, Tracking, Unicycle
<1>16. Found'
  BY <1>5, <1>7 DEF Inv, Found
<1>17. Used' /\ Called'
  BY <1>2 DEF Used, Called
<1> QED
  BY <1>12, <1>13, <1>14, <1>15, <1>16, <1>17 DEF Inv

-----------------------------------------------------------------------------
(* Time.                                                                    *)

LEMMA AgedTypes ==
  ASSUME NEW w \in U!Command
  PROVE  /\ Aged(w) \in U!Command /\ Aged(w).drive = w.drive /\ Aged(w).own = w.own
         /\ Aged(w).valid = w.valid /\ Aged(w).age >= w.age
<1> DEFINE age == IF w.age = U!MaxAge THEN w.age ELSE w.age + 1
           x == [w EXCEPT !.age = age]
<1>1. Aged(w) = (IF w.valid THEN x ELSE w)
  BY DEF Aged, Older
<1>2. w.age \in 0..U!MaxAge /\ U!MaxAge \in Nat
  BY TimesAssumption DEF U!Command, U!Age, U!MaxAge
<1>3. age \in 0..U!MaxAge /\ age >= w.age
  BY <1>2
<1> HIDE DEF age
<1>4. /\ x \in U!Command /\ x.drive = w.drive /\ x.own = w.own /\ x.age = age
  BY <1>3 DEF U!Command, U!Age
<1>5. x.valid = w.valid
  BY <1>3 DEF U!Command, U!Age
<1> HIDE DEF x
<1> QED
  BY <1>1, <1>2, <1>3, <1>4, <1>5

LEMMA OlderTypes ==
  /\ \A r \in Ticket : Older(r) \in Ticket /\ Older(r).seq = r.seq
  /\ \A r \in Solve : Older(r) \in Solve /\ Older(r).seq = r.seq /\ Older(r).own = r.own
  /\ \A r \in Done : /\ Older(r) \in Done /\ Older(r).seq = r.seq /\ Older(r).own = r.own
                     /\ Older(r).ok = r.ok
<1> DEFINE older(a) == IF a = U!MaxAge THEN a ELSE a + 1
<1>1. \A r : Older(r) = [r EXCEPT !.age = older(r.age)]
  BY DEF Older
<1>2. U!MaxAge \in Nat
  BY TimesAssumption DEF U!MaxAge
<1>3. \A a \in 0..U!MaxAge : older(a) \in 0..U!MaxAge
  BY <1>2
<1> HIDE DEF older
<1>4. \A r \in Ticket : Older(r) \in Ticket /\ Older(r).seq = r.seq
  BY <1>1, <1>3 DEF Ticket, U!Age
<1>5. \A r \in Solve : Older(r) \in Solve /\ Older(r).seq = r.seq
  BY <1>1, <1>3 DEF Solve, U!Age
<1>6. \A r \in Solve : Older(r).own = r.own
  BY <1>1 DEF Solve
<1>7. \A r \in Done : Older(r) \in Done /\ Older(r).seq = r.seq
  BY <1>1, <1>3 DEF Done, U!Age
<1>8. \A r \in Done : Older(r).own = r.own
  BY <1>1 DEF Done
<1>9. \A r \in Done : Older(r).ok = r.ok
  BY <1>1 DEF Done
<1> QED
  BY <1>4, <1>5, <1>6, <1>7, <1>8, <1>9


LEMMA ElapseKeeps ==
  ASSUME TypeOK, Elapse
  PROVE  /\ ctl' \in C /\ ctl'.mode = ctl.mode /\ ctl'.healthy = ctl.healthy
         /\ ctl'.ticket.seq = ctl.ticket.seq /\ ctl'.reference = ctl.reference
         /\ ctl'.command = Aged(ctl.command) /\ ctl'.commandGate
         /\ ctl'.idle = (IF ctl.idle = 0 THEN 0 ELSE ctl.idle - 1)
<1> DEFINE yes == TRUE
           tick == IF ctl.ticket.seq = 0 THEN ctl.ticket ELSE Older(ctl.ticket)
           aged == Aged(ctl.command)
           idle == IF ctl.idle = 0 THEN 0 ELSE ctl.idle - 1
           c1 == [ctl EXCEPT !.ticket = tick]
           c2 == [c1 EXCEPT !.command = aged]
           c3 == [c2 EXCEPT !.idle = idle]
           c4 == [c3 EXCEPT !.commandGate = yes]
           c5 == [c4 EXCEPT !.solveGate = yes]
<1>1. ctl' = c5
  BY DEF Elapse
<1>2. ctl \in C
  BY TypeParts
<1>3. yes \in BOOLEAN
  OBVIOUS
<1>4. tick \in Ticket /\ tick.seq = ctl.ticket.seq
  BY <1>2, Fields, OlderTypes
<1>5. aged \in U!Command
  BY <1>2, Fields, AgedTypes
<1>6. idle \in 0..IdlePeriod
  BY <1>2, Fields, TimesAssumption
<1>7. yes
  OBVIOUS
<1> HIDE DEF yes, tick, aged, idle
<1>8. c1 \in C /\ c1.mode = ctl.mode /\ c1.healthy = ctl.healthy /\ c1.ticket = tick
      /\ c1.reference = ctl.reference
  BY <1>2, <1>4, SetTicket
<1> HIDE DEF c1
<1>9. c2 \in C /\ c2.mode = ctl.mode /\ c2.healthy = ctl.healthy /\ c2.ticket = tick
      /\ c2.reference = ctl.reference /\ c2.command = aged
  BY <1>5, <1>8, SetCommand
<1> HIDE DEF c2
<1>10. c3 \in C /\ c3.mode = ctl.mode /\ c3.healthy = ctl.healthy /\ c3.ticket = tick
      /\ c3.reference = ctl.reference /\ c3.command = aged /\ c3.idle = idle
  BY <1>6, <1>9, SetIdle
<1> HIDE DEF c3
<1>11. c4 \in C /\ c4.mode = ctl.mode /\ c4.healthy = ctl.healthy /\ c4.ticket = tick
      /\ c4.reference = ctl.reference /\ c4.command = aged /\ c4.idle = idle
  BY <1>3, <1>10, SetCommandGate
<1>12. c4.commandGate = yes
  BY <1>3, <1>10, SetCommandGate
<1> HIDE DEF c4
<1>13. c5 \in C /\ c5.mode = ctl.mode /\ c5.healthy = ctl.healthy /\ c5.ticket = tick
      /\ c5.reference = ctl.reference /\ c5.command = aged /\ c5.idle = idle
  BY <1>3, <1>11, SetSolveGate
<1>14. c5.commandGate = c4.commandGate
  BY <1>3, <1>11, SetSolveGate
<1>15. c5.commandGate
  BY <1>7, <1>12, <1>14
<1> HIDE DEF c5
<1>16. /\ ctl' \in C /\ ctl'.mode = ctl.mode /\ ctl'.healthy = ctl.healthy
       /\ ctl'.ticket.seq = ctl.ticket.seq /\ ctl'.reference = ctl.reference
  BY <1>1, <1>4, <1>13
<1> QED
  BY <1>1, <1>13, <1>15, <1>16 DEF aged, idle

LEMMA InvElapse ==
  ASSUME Inv, Elapse
  PROVE  Inv'
<1>1. TypeOK /\ ctl \in C /\ job \in Solve /\ inbox \in Seq(Done) /\ Len(inbox) <= U!MaxInbox
      /\ out \in Slot /\ wire \in U!Command
  BY TypeParts DEF Inv
<1>2. /\ ctl' \in C /\ ctl'.mode = ctl.mode /\ ctl'.healthy = ctl.healthy
      /\ ctl'.ticket.seq = ctl.ticket.seq /\ ctl'.reference = ctl.reference
      /\ ctl'.command = Aged(ctl.command) /\ ctl'.commandGate
      /\ ctl'.idle = (IF ctl.idle = 0 THEN 0 ELSE ctl.idle - 1)
  BY <1>1, ElapseKeeps
<1>3. /\ phase \in {"idle", "stopped"} /\ phase' = phase
      /\ phase = "idle" => wake > 0
      /\ pose' = (IF pose > StateTimeout THEN pose ELSE pose + 1)
      /\ job' = (IF job.seq = 0 THEN job ELSE Older(job))
      /\ wire' = Aged(wire) /\ wake' = (IF wake = 0 THEN 0 ELSE wake - 1)
      /\ UNCHANGED <<kind, cached, engine, orders>>
  BY DEF Elapse
<1>4. inbox' = [i \in DOMAIN inbox |-> IF inbox[i].ok THEN Older(inbox[i]) ELSE inbox[i]]
  BY DEF Elapse
<1>5. /\ inbox' \in Seq(Done) /\ Len(inbox') = Len(inbox) /\ DOMAIN inbox' = DOMAIN inbox
      /\ \A i \in DOMAIN inbox :
           /\ inbox'[i].seq = inbox[i].seq
           /\ inbox'[i].ok => inbox[i].ok
           /\ inbox[i].own => inbox'[i].own
  <2>1. \A i \in DOMAIN inbox : inbox[i] \in Done /\ Older(inbox[i]) \in Done
    BY <1>1, OlderTypes
  <2>2. \A i \in DOMAIN inbox : inbox'[i] \in {inbox[i], Older(inbox[i])}
    BY <1>4
  <2>3. DOMAIN inbox' = DOMAIN inbox
    BY <1>4
  <2>4. \A i \in DOMAIN inbox :
           /\ inbox'[i].seq = inbox[i].seq
           /\ inbox'[i].ok => inbox[i].ok
           /\ inbox[i].own => inbox'[i].own
    <3> SUFFICES ASSUME NEW i \in DOMAIN inbox
                 PROVE  /\ inbox'[i].seq = inbox[i].seq
                        /\ inbox'[i].ok => inbox[i].ok
                        /\ inbox[i].own => inbox'[i].own
      OBVIOUS
    <3>1. CASE inbox'[i] = inbox[i]
      BY <3>1
    <3>2. CASE inbox'[i] = Older(inbox[i])
      <4>1. inbox'[i].seq = inbox[i].seq
        BY <2>1, <3>2, OlderTypes
      <4>2. inbox'[i].ok = inbox[i].ok
        BY <2>1, <3>2, OlderTypes
      <4>3. inbox'[i].own = inbox[i].own
        BY <2>1, <3>2, OlderTypes
      <4> QED
        BY <4>1, <4>2, <4>3
    <3> QED
      BY <2>2, <3>1, <3>2
  <2>5. inbox' \in Seq(Done) /\ Len(inbox') = Len(inbox)
    BY <1>1, <1>4, <2>1
  <2> QED
    BY <2>3, <2>4, <2>5
<1>6. /\ job' \in Solve /\ job'.seq = job.seq /\ (job.own => job'.own)
  <2>1. Older(job) \in Solve /\ Older(job).seq = job.seq
    BY <1>1, OlderTypes
  <2>2. Older(job).own = job.own
    BY <1>1, OlderTypes
  <2> QED
    BY <1>1, <1>3, <2>1, <2>2
<1>7. out' \in Slot /\ out'.twist = Aged(out.twist)
  <2> DEFINE w == Aged(out.twist)
             o == [out EXCEPT !.twist = w]
  <2>1. out' = o
    BY DEF Elapse
  <2>2. w \in U!Command
    BY <1>1, AgedTypes DEF Slot
  <2> HIDE DEF w
  <2>3. o \in Slot /\ o.twist = w
    BY <1>1, <2>2 DEF Slot
  <2> HIDE DEF o
  <2> QED
    BY <2>1, <2>3 DEF w
<1>8. wire' \in U!Command
  BY <1>1, <1>3, AgedTypes
<1>9. TypeOK'
  <2>1. /\ KindOK /\ kind.strategy \in {"NMPC", "FLATNESS"} /\ pose \in 0..(StateTimeout + 1)
        /\ engine \in {"none", "off", "on"} /\ orders \in 0..kind.orders
        /\ wake \in 0..(IdlePeriod + StateTimeout + 1)
    BY <1>1, TypeParts
  <2>2. cached' \in BOOLEAN
    BY <1>1, <1>3, TypeParts
  <2>3. /\ KindOK' /\ kind'.strategy \in {"NMPC", "FLATNESS"}
        /\ engine' \in {"none", "off", "on"} /\ orders' \in 0..kind'.orders
    BY <1>3, <2>1 DEF KindOK
  <2>4. pose' \in 0..(StateTimeout + 1) /\ wake' \in 0..(IdlePeriod + StateTimeout + 1)
    BY <1>3, <2>1, TimesAssumption
  <2>5. phase' \in {"stopped", "idle", "open", "ordered", "updated"} /\ Len(inbox') <= U!MaxInbox
    BY <1>1, <1>3, <1>5
  <2> QED
    BY <1>2, <1>5, <1>6, <1>7, <1>8, <2>2, <2>3, <2>4, <2>5 DEF TypeOK, KindOK, C, Slot
<1>10. Counted'
  BY <1>3, <1>5, <1>6 DEF Inv, Counted, Busy, Module
<1>11. Owned'
  <2>1. out.twist \in U!Command /\ ctl.command \in U!Command
    BY <1>1, Fields DEF Slot
  <2>2. \A w \in U!Command : Own1(w) => Own1(Aged(w))
    BY AgedTypes DEF Own1
  <2> QED
    BY <1>1, <1>2, <1>3, <1>7, <2>1, <2>2 DEF Inv, Owned
<1>12. Tracking'
  BY <1>2, <1>3, <1>5, <1>6 DEF Inv, Tracking, Unicycle
<1>13. Found'
  BY <1>2 DEF Inv, Found
<1>14. Used'
  BY <1>3 DEF Used
<1>15. Called'
  <2> SUFFICES ASSUME phase = "idle"
               PROVE  /\ \/ wake' <= Opening(ctl')
                         \/ ~Unicycle /\ ctl'.mode = "Custom1" /\ wake' <= 1
                      /\ (ctl'.healthy /\ wake' > 0) => pose' + wake' <= StateTimeout + 1
    BY <1>3, Zenon DEF Called, Opens, Opening, Unicycle
  <2>1. /\ \/ wake <= Opening(ctl)
           \/ ~Unicycle /\ ctl.mode = "Custom1" /\ wake <= 1
        /\ (ctl.healthy /\ wake > 0) => pose + wake <= StateTimeout + 1
    BY OpensIs DEF Inv, Called
  <2>2. wake \in Nat /\ pose \in Nat /\ ctl.idle \in Nat
    BY <1>1, Fields, TimesAssumption DEF TypeOK
  <2>3. wake' = wake - 1 /\ wake > 0
    BY <1>3, <2>2
  <2>4. (ctl'.healthy /\ wake' > 0) => pose' + wake' <= StateTimeout + 1
    <3> SUFFICES ASSUME ctl'.healthy, wake' > 0
                 PROVE  pose' + wake' <= StateTimeout + 1
      OBVIOUS
    <3>1. pose + wake <= StateTimeout + 1
      BY <1>2, <2>1, <2>3
    <3> QED
      BY <1>3, <2>2, <2>3, <3>1, TimesAssumption
  <2>5. CASE wake <= 1
    BY <1>2, <2>2, <2>3, <2>4, <2>5 DEF Opening
  <2>6. CASE wake > 1
    <3>1. wake <= Opening(ctl)
      BY <2>1, <2>2, <2>6
    <3>2. Opening(ctl) = ctl.idle
      BY <2>2, <2>6, <3>1 DEF Opening
    <3>3. ~(ctl.mode = "Reset" \/ (ctl.mode = "Custom1" /\ (~Unicycle \/ U!CommandReady(ctl))))
      BY <2>2, <2>6, <3>1 DEF Opening
    <3>4. U!CommandReady(ctl') => U!CommandReady(ctl)
      <4>1. ctl.command \in U!Command
        BY <1>1, Fields
      <4>2. /\ ctl'.command.age \in Nat /\ ctl.command.age \in Nat
            /\ ctl'.command.age >= ctl.command.age
        BY <1>2, <4>1, AgedTypes, TimesAssumption DEF U!Command, U!Age, U!MaxAge
      <4>3. ctl'.command.valid = ctl.command.valid
        BY <1>2, <4>1, AgedTypes
      <4> QED
        BY <4>2, <4>3, TimesAssumption DEF U!CommandReady
    <3>5. Opening(ctl') = ctl'.idle
      BY <1>2, <3>3, <3>4 DEF Opening
    <3>6. wake' <= ctl'.idle
      BY <1>2, <2>2, <2>3, <3>1, <3>2
    <3> QED
      BY <2>4, <3>5, <3>6
  <2> QED
    BY <2>2, <2>5, <2>6
<1> QED
  BY <1>9, <1>10, <1>11, <1>12, <1>13, <1>14, <1>15 DEF Inv

-----------------------------------------------------------------------------
(* The theorems.                                                            *)

\* The invariant holds of every controller in every host, whatever the timeouts, the periods
\* and the numbers of orders and configurations.
THEOREM ControlInvariance == Spec => []Inv
<1>1. Inv /\ [Next]_vars => Inv'
  <2> SUFFICES ASSUME Inv, [Next]_vars
               PROVE  Inv'
    OBVIOUS
  <2>1. CASE Begin
    BY <2>1, InvBegin
  <2>2. CASE Grant
    BY <2>2, InvGrant
  <2>3. CASE Receipt
    BY <2>3, InvReceipt
  <2>4. ASSUME NEW order \in U!Order, Take(order)
        PROVE  Inv'
    <3>1. KindOK
      BY TypeParts DEF Inv
    <3>2. kind.orders \in Nat /\ orders \in 0..kind.orders
      BY <3>1, KindFields DEF Inv, TypeOK
    <3>3. orders' \in 0..kind.orders
      BY <2>4, <3>2 DEF Take
    <3> QED
      BY <2>4, <3>3, InvTurn DEF Take
  <2>5. CASE Update
    <3>1. orders' \in 0..kind.orders
      BY <2>5 DEF Update, Inv, TypeOK
    <3> QED
      BY <2>5, <3>1, InvTurn DEF Update
  <2>6. CASE PublishModule
    BY <2>6, InvPublishModule
  <2>7. CASE PublishNode
    BY <2>7, InvPublishNode
  <2>8. CASE Solved
    BY <2>8, InvSolved
  <2>9. CASE Start
    BY <2>9, InvStart
  <2>10. CASE Stop
    BY <2>10, InvStop
  <2>11. CASE Configure
    BY <2>11, InvConfigure
  <2>12. CASE Elapse
    BY <2>12, InvElapse
  <2>13. CASE UNCHANGED vars
    <3>1. TypeOK' /\ Counted' /\ Owned'
      BY <2>13 DEF vars, Inv, TypeOK, Counted, Busy, Module, Owned
    <3>2. Tracking' /\ Found' /\ Used'
      BY <2>13 DEF vars, Inv, Tracking, Unicycle, Found, Used
    <3>3. Called'
      BY <2>13 DEF vars, Inv, Called, Opens, Unicycle, U!CommandReady
    <3> QED
      BY <3>1, <3>2, <3>3 DEF Inv
  <2> QED
    BY <2>1, <2>2, <2>3, <2>4, <2>5, <2>6, <2>7, <2>8, <2>9, <2>10, <2>11, <2>12, <2>13 DEF Next
<1> QED
  BY InvInit, <1>1, PTL DEF Spec

\* The state is always of its type: the inbox and the numbers of the solves never run over.
THEOREM ControlTypes == Spec => []TypeOK
<1>1. Inv => TypeOK
  BY DEF Inv
<1> QED
  BY ControlInvariance, <1>1, PTL

\* Health that is found again always leads out of SelfCheck, whatever is ordered in that turn.
THEOREM ControlLeavesSelfCheck == Spec => []LeavesSelfCheck
<1>1. Inv => LeavesSelfCheck
  BY DEF Inv, Found, LeavesSelfCheck
<1> QED
  BY ControlInvariance, <1>1, PTL

\* A drive on the wire is current, or the owner is called by the time the gate of the twist
\* that replaces it opens.
THEOREM ControlDriveIsCurrent == Spec => []DriveIsCurrent
<1>1. Inv => DriveIsCurrent
  <2> SUFFICES ASSUME Inv, phase = "idle", wake > 0, wire.drive, ~out.fresh
               PROVE  Current \/ Replaced
    BY DEF DriveIsCurrent
  <2>1. TypeOK /\ ctl \in C
    BY TypeParts DEF Inv
  <2>2. wake \in Nat /\ pose \in Nat /\ ctl.idle \in Nat
    BY <2>1, Fields, TimesAssumption DEF TypeOK
  <2>3. Opens \in Nat
    BY <2>2 DEF Opens
  <2>4. CASE wake <= Opens
    <3>1. 0 < Opens
      BY <2>2, <2>3, <2>4
    <3> QED
      BY <2>4, <3>1 DEF Inv, Owned, Own1, Replaced
  <2>5. CASE ~Unicycle /\ ctl.mode = "Custom1" /\ wake <= 1
    <3>1. wire.own
      BY DEF Inv, Owned, Own1
    <3>2. ctl.healthy => Healthy
      <4> SUFFICES ASSUME ctl.healthy
                   PROVE  pose <= StateTimeout
        BY DEF Healthy
      <4>1. pose + wake <= StateTimeout + 1
        BY DEF Inv, Called
      <4> QED
        BY <2>2, <4>1, TimesAssumption
    <3> QED
      BY <2>5, <3>1, <3>2 DEF Current
  <2> QED
    BY <2>4, <2>5 DEF Inv, Called
<1> QED
  BY ControlInvariance, <1>1, PTL

=============================================================================
