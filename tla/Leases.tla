-------------------------------- MODULE Leases --------------------------------
(***************************************************************************)
(* What the station and the vehicles promise together, without a message:   *)
(* places are leased.  The station keeps places for vehicles, a vehicle has  *)
(* rights to enter some of what is kept for it, and nothing is kept for one  *)
(* vehicle that another may still be in or enter.  ResetSystem implements    *)
(* it: what is kept is known to the station, a right to the vehicle, and     *)
(* neither knows both.                                                       *)
(***************************************************************************)
CONSTANTS Vehicle, Place

VARIABLES
  at,    \* where each vehicle is
  may,   \* what it may still enter
  held   \* what the station keeps free for it

vars == <<at, may, held>>

Disjoint(h) == \A v, w \in Vehicle : v # w => h[v] \cap h[w] = {}

Init ==
  /\ at \in [Vehicle -> Place]
  /\ may = [v \in Vehicle |-> {}]
  /\ held = [v \in Vehicle |-> {at[v]}]
  /\ Disjoint(held)

\* The station keeps other places, but none that is taken from a vehicle that is in it or
\* may enter it, and none twice.
Lease ==
  /\ held' \in [Vehicle -> SUBSET Place]
  /\ Disjoint(held')
  /\ \A v \in Vehicle : {at[v]} \cup may[v] \subseteq held'[v]
  /\ UNCHANGED <<at, may>>

\* A vehicle takes up, or gives up, rights to what is kept for it.
TakeUp(v) ==
  /\ \E s \in SUBSET held[v] : may' = [may EXCEPT ![v] = s]
  /\ UNCHANGED <<at, held>>

\* A vehicle enters a place it has a right to.
Enter(v) ==
  /\ \E p \in may[v] : at' = [at EXCEPT ![v] = p]
  /\ \E s \in SUBSET may[v] : may' = [may EXCEPT ![v] = s]
  /\ UNCHANGED held

Next == Lease \/ \E v \in Vehicle : TakeUp(v) \/ Enter(v)

Spec == Init /\ [][Next]_vars

-----------------------------------------------------------------------------
TypeOK ==
  /\ at \in [Vehicle -> Place]
  /\ may \in [Vehicle -> SUBSET Place]
  /\ held \in [Vehicle -> SUBSET Place]

\* Rights stay within what is kept, and what is kept is kept once.
Sound ==
  /\ Disjoint(held)
  /\ \A v \in Vehicle : {at[v]} \cup may[v] \subseteq held[v]

\* No two vehicles are in one place, and none may enter where another is or may go.
Exclusion ==
  \A v, w \in Vehicle : v # w => ({at[v]} \cup may[v]) \cap ({at[w]} \cup may[w]) = {}

=============================================================================
