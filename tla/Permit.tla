------------------------------- MODULE Permit -------------------------------
(***************************************************************************)
(* What the reset executor promises the controllers that own it, and all    *)
(* they ask of it: is a permission pending, must the command be zero, is a  *)
(* zero publication owed, is a Reset active.  ResetVehicle implements it    *)
(* (PermitOf); the control modules are built on it.                         *)
(*                                                                          *)
(*   Free       no permission transaction (None, Complete)                  *)
(*   Braking    one is under way (AwaitBrake, AwaitStopped, AwaitGo)        *)
(*   Owed       it waits for a zero to be published (AwaitZero)             *)
(*   Executing  a GO is being followed                                      *)
(***************************************************************************)

At     == {"Free", "Braking", "Owed", "Executing"}
Permit == [at : At, active : BOOLEAN, bad : BOOLEAN]

NewPermit == [at |-> "Free", active |-> FALSE, bad |-> FALSE]

Pending(p)      == p.at \in {"Braking", "Owed"}
RequiresZero(p) == p.bad \/ Pending(p)
NeedsZero(p)    == p.at = "Owed"

\* A new request for authority; its counter may be at its end.
Requested(p) == {[p EXCEPT !.at = "Braking"], [p EXCEPT !.at = "Braking", !.bad = TRUE]}

\* observe, then poll: the clock may have gone back, a deferred GO may start.
Observed(p) ==
  {p, [p EXCEPT !.bad = TRUE]}
    \cup (IF p.at = "Braking" /\ p.active /\ ~p.bad THEN {[p EXCEPT !.at = "Executing"]} ELSE {})

\* abort, finish, install and a changed vehicle.
Ended(p)     == IF p.active THEN {[q EXCEPT !.active = FALSE] : q \in Requested(p)} ELSE {p}
Finished(p)  == IF p.at = "Executing" THEN Requested(p) ELSE {p}
Installed(p) == {[q EXCEPT !.active = TRUE] : q \in Requested(p)}
Respecified(p) == IF p.at = "Free" THEN {p} ELSE Requested(p)

\* A grant: ignored, a brake (a late one reopens a completed transaction), the terminal
\* Hold, or a Reject.
Granted(p) ==
  {p} \cup Requested(p) \cup Ended(p)
    \cup (IF p.at = "Braking" THEN {[p EXCEPT !.at = "Owed"]} ELSE {})
    \cup (IF p.at = "Braking" /\ ~p.active THEN {[p EXCEPT !.at = "Free"]} ELSE {})

\* Mutant of Zeroed: only a vehicle that is in a Reset acknowledges.
ZeroedActive(p) == IF p.at = "Owed" /\ p.active /\ ~p.bad THEN [p EXCEPT !.at = "Braking"] ELSE p

\* A zero was published.
Zeroed(p) == IF p.at = "Owed" /\ ~p.bad THEN [p EXCEPT !.at = "Braking"] ELSE p

\* One control step of an active Reset: it goes on, it asks for authority again, it ends.
Stepped(p) == IF p.active THEN {p} \cup Requested(p) \cup Ended(p) ELSE {p}

=============================================================================
