--------------------------- MODULE MCStationNode ---------------------------
(***************************************************************************)
(* Small situations of the node for TLC.                                    *)
(***************************************************************************)
EXTENDS StationNode, TLC

CONSTANTS v1, v2, c1, c2, c3

Two  == <<v1, v2>>
Line == {<<c1, c2>>, <<c2, c3>>}

Snap(e, r, obstacles) == [epoch |-> e, rev |-> r, ours |-> TRUE, obstacles |-> obstacles]
Report(m, bodies) ==
  [epoch |-> m.epoch, rev |-> m.rev, ours |-> TRUE, stamp |-> "newer", bodies |-> bodies]
Wall(c)       == [id |-> "wall", dynamic |-> FALSE, motion |-> "hold", at |-> c]
Cart(motion)  == [id |-> "cart", dynamic |-> TRUE, motion |-> motion, at |-> c3]
At(c, fast)   == [id |-> "cart", at |-> c, fast |-> fast]

Day(authored, snapshots, states, target, asks, here, silence, ids, odd) ==
  [authored |-> authored, snapshots |-> snapshots, states |-> states,
   origin |-> (v1 :> c1) @@ (v2 :> c3), goal |-> (v1 :> target) @@ (v2 :> c3), asks |-> asks,
   listed |-> here, silence |-> silence, ids |-> ids, odd |-> odd]

First == Snap(1, 1, <<Cart("circle")>>)
Empty == Snap(2, 1, <<>>)

\* A Scene with a cart is replaced by one without, under a vehicle that asks for a Reset.
Seen ==
  Day(TRUE, {First, Empty}, {Report(First, <<At(c3, FALSE)>>), Report(Empty, <<>>)},
      c2, {v1}, {}, 1, 3, {})

\* The cart comes into the way of the vehicle, and goes on.
Crossed ==
  Day(TRUE, {First}, {Report(First, <<At(c3, FALSE)>>), Report(First, <<At(c2, FALSE)>>)},
      c2, {v1}, {}, 1, 3, {})

\* The cart begins to move faster.
Faster ==
  Day(TRUE, {First}, {Report(First, <<At(c3, FALSE)>>), Report(First, <<At(c3, TRUE)>>)},
      c2, {v1}, {}, 1, 2, {})

\* Definitions that change at the same revision, or cannot be read, and states that are not
\* of their definition, or old.
Redefined ==
  Day(TRUE,
      {First, Snap(1, 1, <<Cart("ping_pong")>>), Snap(1, 2, <<Cart("spiral")>>),
       Snap(1, 3, <<Cart("hold")>>), Snap(1, 4, <<Wall(c2), Wall(c3)>>),
       [Snap(2, 1, <<>>) EXCEPT !.ours = FALSE], Snap(2, 2, <<Cart("circle"), Wall(c2)>>)},
      {Report(First, <<At(c3, FALSE)>>), Report(First, <<>>),
       Report(First, <<At(c3, FALSE), At(c2, FALSE)>>),
       [Report(First, <<At(c2, TRUE)>>) EXCEPT !.stamp = "older"],
       [Report(First, <<At(c2, TRUE)>>) EXCEPT !.stamp = "zero"],
       [Report(First, <<At(c2, TRUE)>>) EXCEPT !.ours = FALSE],
       [Report(First, <<At(c2, TRUE)>>) EXCEPT !.epoch = 2, !.rev = 2]},
      c2, {}, {}, 1, 3, {})

\* A vehicle that nobody expects stands on the target; or falls silent there.
Blocked == Day(FALSE, {}, {}, c3, {v1}, {v2}, 3, 3, {"master"})
Left    == Day(FALSE, {}, {}, c3, {v1}, {v2}, Silence, 2, {"master"})

\* It is not there, and the other falls silent and ends and asks again; or is not always
\* healthy; or its Sessions are not always what they should be.
Odd    == Day(FALSE, {}, {}, c3, {v1}, {}, Silence, 4, {"end"})
Unwell == Day(FALSE, {}, {}, c3, {v1}, {}, Silence, 3, {"unhealthy"})
Faulty == Day(FALSE, {}, {}, c3, {v1}, {}, 1, 3, {"bad"})

\* A body that takes part in nothing is pushed into the way of another, and out of it.
Pushed == Day(FALSE, {}, {}, c2, {v1}, {v2}, 1, 3, {"drift"})

\* A vehicle that publishes a phase nobody knows.
Garbled == Day(FALSE, {}, {}, c2, {v1}, {}, 1, 3, {"phase"})

AllDays ==
  {Seen, Crossed, Faster, Redefined, Blocked, Left, Odd, Unwell, Faulty, Pushed, Garbled}
=============================================================================
