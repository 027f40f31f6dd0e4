--------------------------- MODULE MCResetSystem ---------------------------
(***************************************************************************)
(* Small fleets for TLC.                                                    *)
(***************************************************************************)
EXTENDS ResetSystem, TLC

CONSTANTS v1, v2, c1, c2, c3, c4

Two == <<v1, v2>>

Line4 == {<<c1, c2>>, <<c2, c3>>, <<c3, c4>>}

Situation(origin, goal, calls, depth, most, faults) ==
  [origin |-> origin, goal |-> goal, calls |-> calls, depth |-> depth,
   mishaps |-> most, faults |-> faults]

Each  == [v \in Vehicle |-> 1]
First == [v \in Vehicle |-> IF v = v1 THEN 1 ELSE 0]

\* The second leaves the way of the first.
Following == Situation((v1 :> c1) @@ (v2 :> c3), (v1 :> c3) @@ (v2 :> c4), Each, 1, 1, {"tube"})

\* Both want the other's place, and one can step aside into the spur c4.
Spur       == {<<c1, c2>>, <<c2, c3>>, <<c2, c4>>}
Swapping(most, faults) ==
  Situation((v1 :> c1) @@ (v2 :> c3), (v1 :> c3) @@ (v2 :> c1), Each, 2, most, faults)

\* The second stands beside the way of the first.
Alone == Situation((v1 :> c1) @@ (v2 :> c4), (v1 :> c3) @@ (v2 :> c4), First, 1, 1,
                   {"lapse", "stop", "loss", "silence", "scene", "world"})

Follow == {Following}
Live   == {Alone, Swapping(0, {})}
Lossy  == {Swapping(1, {"loss"})}

Due(extend, periodic) ==
  [extend |-> extend, periodic |-> periodic, stall |-> FALSE, settled |-> FALSE,
   lasting |-> FALSE, refresh |-> Vehicle]

Always == {Due(TRUE, TRUE)}

\* It may also be that nobody has advanced for the time of a stall.
Stalling == Always \cup {[Due(TRUE, TRUE) EXCEPT !.stall = TRUE]}
=============================================================================
