---------------------------- MODULE MCRoutePath ----------------------------
(***************************************************************************)
(* Small scenes for TLC.                                                    *)
(***************************************************************************)
EXTENDS RoutePath, TLC

Numbers == -3..8

\* Lengths in thousandths, by bisection.
Root(n) ==
  LET between[lo \in 0..16000, hi \in 0..16000] ==
        LET m == (lo + hi) \div 2
        IN  IF hi - lo <= 1 THEN lo
            ELSE IF m * m <= n THEN between[m, hi] ELSE between[lo, m]
  IN  between[0, 16000]
Thousandths(v) == Root(1000000 * (v[1] * v[1] + v[2] * v[2]))

Box(x, y, w, h) == <<<<x, y>>, <<x + w, y>>, <<x + w, y + h>>, <<x, y + h>>>>
Diamond(x, y)   == <<<<x - 1, y>>, <<x, y - 1>>, <<x + 1, y>>, <<x, y + 1>>>>
Turned(p, k)    == [i \in DOMAIN p |-> p[((i + k - 1) % Len(p)) + 1]]
Backward(p)     == [i \in DOMAIN p |-> p[Len(p) + 1 - i]]

Ask(start, goal, obstacles, fence, radius) ==
  [start |-> start, goal |-> goal, obstacles |-> obstacles, fence |-> fence, radius |-> radius,
   clearance |-> 0]

Windings(p) == {Turned(p, k) : k \in 0..3} \cup {Backward(p)}
Ends == {<<<<0, 3>>, <<6, 3>>>>, <<<<6, 3>>, <<0, 3>>>>, <<<<0, 2>>, <<6, 4>>>>, <<<<1, 0>>, <<5, 6>>>>}
Yard == <<-1, 7, -1, 7>>

\* One obstacle in the way, given in every way.
Single == {Ask(e[1], e[2], <<o>>, f, r) :
             e \in Ends, o \in Windings(Box(2, 2, 2, 2)) \cup Windings(Diamond(3, 3)),
             f \in {<<>>, Yard}, r \in {0}}

\* Two boxes, apart, touching or overlapping, for a point and for a body.
Pairs == {Ask(e[1], e[2], <<Box(2, y, 1, h), Box(x, z, 1, 2)>>, f, r) :
            e \in Ends \ {<<<<0, 2>>, <<6, 4>>>>}, y \in {-1, 1, 2}, h \in {2, 4}, x \in 2..4, z \in {0, 2, 4},
            f \in {<<>>, Yard}, r \in {0, 1}}

\* Bodies that face each other.
Facing == {Ask(<<-3, -3>>, <<-3, -2>>, <<o, t>>, <<>>, 0) :
             o \in {Diamond(2, 2), Box(1, 1, 2, 1), Box(1, 1, 6, 6), Box(4, -2, 1, 9),
                    <<<<0, 0>>, <<3, 1>>, <<1, 2>>>>},
             t \in {Box(x, y, 2, 1) : x \in 0..6, y \in 1..5} \cup {Box(0, 3, 8, 1)}
                   \cup {Diamond(x, y) : x \in 2..6, y \in {2, 3, 5, 6}}}

\* What is refused.
Odd == {Ask(<<0, 0>>, <<4, 0>>, o, f, r) :
          o \in {<<>>, <<<<<<1, 0>>, <<2, 0>>>>>>, <<<<<<1, 0>>, <<2, 0>>, <<3, 0>>>>>>,
                 <<<<<<1, 1>>, <<1, 1>>, <<2, 2>>, <<1, 2>>>>>>,
                 <<<<<<1, 1>>, <<3, 3>>, <<3, 1>>, <<1, 3>>>>>>,
                 <<<<<<1, -1>>, <<2, -1>>, <<3, -1>>, <<3, 1>>, <<1, 1>>>>>>,
                 <<Box(1, 1, 1, 1), Box(3, 1, 1, 1), Box(1, 3, 1, 1), Box(3, 3, 1, 1)>>},
          f \in {<<>>, <<0, 0, -2, 2>>, <<-3, 7, -3, 4>>}, r \in {-1, 0, 1}}

Scenes == Single \cup Pairs \cup Facing \cup Odd
=============================================================================
