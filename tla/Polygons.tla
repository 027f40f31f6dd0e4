------------------------------ MODULE Polygons ------------------------------
(***************************************************************************)
(* The plane geometry that routes are searched with                         *)
(* (ugv_reset_safety/reset_path.cpp) and bodies are kept apart with         *)
(* (reset_planner.cpp, separation to clearAtLeast), in exact arithmetic:    *)
(* points have integer coordinates, quotients are compared by their         *)
(* products, and the code's epsilons of 1e-9 and below are zero.            *)
(***************************************************************************)
EXTENDS Integers, Sequences, FiniteSets
LOCAL INSTANCE FiniteSetsExt

\* Vectors are pairs; a polygon is the sequence of its vertices.
Minus(a, b) == <<a[1] - b[1], a[2] - b[2]>>
Dot(a, b)   == a[1] * b[1] + a[2] * b[2]
Cross(a, b) == a[1] * b[2] - a[2] * b[1]
Square(n)   == n * n

Cyclic(p, i) == p[((i - 1) % Len(p)) + 1]
Edge(p, i)   == Minus(Cyclic(p, i + 1), Cyclic(p, i))

-----------------------------------------------------------------------------
(* normalizePolygon, inflate.                                               *)

Area(p) == FoldFunction(+, 0, [i \in DOMAIN p |-> Cross(p[i], Cyclic(p, i + 1))])

\* Counterclockwise.
Oriented(p) == IF Area(p) < 0 THEN [i \in DOMAIN p |-> p[Len(p) + 1 - i]] ELSE p

\* Whether a polygon is taken: it has an inside, and no vertex is on the outer side of an edge.
\* What is malformed is refused, not repaired.
Accepted(p) ==
  /\ Len(p) >= 3
  /\ \A i \in DOMAIN p : Edge(p, i) # <<0, 0>>
  /\ Area(p) # 0
  /\ LET q == Oriented(p)
     IN  \A i, j \in DOMAIN q : Cross(Edge(q, i), Minus(q[j], q[i])) >= 0

\* A polygon that is taken, without the vertices that are no corners.
Normalized(p) ==
  LET q == Oriented(p)
      corners == {i \in DOMAIN q : Cross(Edge(q, i - 1 + Len(q)), Edge(q, i)) # 0}
      at(k) == CHOOSE i \in corners : Cardinality({j \in corners : j < i}) = k - 1
  IN  [k \in 1..Cardinality(corners) |-> q[at(k)]]

\* The length of an edge that is parallel to an axis.
Along(e) == IF e[1] + e[2] < 0 THEN -(e[1] + e[2]) ELSE e[1] + e[2]

\* inflate: where the lines that support the edges meet when each is moved out by d.  It is
\* exact where d is zero or the edges are parallel to the axes.
Inflated(p, d) ==
  LET q == Normalized(p)
      normal == [i \in DOMAIN q |-> <<Edge(q, i)[2], -Edge(q, i)[1]>>]
      offset == [i \in DOMAIN q |->
                  Dot(normal[i], q[i]) + (IF d = 0 THEN 0 ELSE d * Along(Edge(q, i)))]
      before == [i \in DOMAIN q |-> IF i = 1 THEN Len(q) ELSE i - 1]
      vertex(m, b, n, c) == <<(b * n[2] - m[2] * c) \div Cross(m, n),
                              (m[1] * c - b * n[1]) \div Cross(m, n)>>
  IN  [i \in DOMAIN q |-> vertex(normal[before[i]], offset[before[i]], normal[i], offset[i])]

-----------------------------------------------------------------------------
(* insideInterior, inFence, entersInterior.                                 *)

InsideInterior(x, p) == \A i \in DOMAIN p : Cross(Edge(p, i), Minus(x, p[i])) > 0

\* A fence is <<xmin, xmax, ymin, ymax>>, or there is none.
InFence(x, fence, erosion) ==
  fence # <<>> => /\ fence[1] + erosion <= x[1] /\ x[1] <= fence[2] - erosion
                  /\ fence[3] + erosion <= x[2] /\ x[2] <= fence[4] - erosion

\* Mutant of EntersInterior: a segment along an edge is taken for one through the inside.
EntersOrTouches(a, b, p) ==
  LET initial == [i \in DOMAIN p |-> Cross(Edge(p, i), Minus(a, p[i]))]
      slope   == [i \in DOMAIN p |-> Cross(Edge(p, i), Minus(b, a))]
      lower == {<<0, 1>>} \cup {<<-initial[i], slope[i]>> : i \in {j \in DOMAIN p : slope[j] > 0}}
      upper == {<<1, 1>>} \cup {<<initial[i], -slope[i]>> : i \in {j \in DOMAIN p : slope[j] < 0}}
  IN  /\ \A i \in DOMAIN p : slope[i] = 0 => initial[i] >= 0
      /\ \A l \in lower, u \in upper : l[1] * u[2] < u[1] * l[2]

\* The segment from a to b is cut at the edges: what is left of it is inside.
EntersInterior(a, b, p) ==
  LET initial == [i \in DOMAIN p |-> Cross(Edge(p, i), Minus(a, p[i]))]
      slope   == [i \in DOMAIN p |-> Cross(Edge(p, i), Minus(b, a))]
      lower == {<<0, 1>>} \cup {<<-initial[i], slope[i]>> : i \in {j \in DOMAIN p : slope[j] > 0}}
      upper == {<<1, 1>>} \cup {<<initial[i], -slope[i]>> : i \in {j \in DOMAIN p : slope[j] < 0}}
  IN  /\ \A i \in DOMAIN p : slope[i] = 0 => initial[i] > 0
      /\ \A l \in lower, u \in upper : l[1] * u[2] < u[1] * l[2]

-----------------------------------------------------------------------------
(* How far bodies are apart (separation, exactDistance, clearAtLeast).      *)

Rectangle(p) ==
  Len(p) = 4 /\ \A i \in 1..4 : Dot(Edge(p, i), Edge(p, i + 1)) = 0

\* The axes of separation: the normals of the edges; a rectangle has two.
Axes(p) == {<<-Edge(p, i)[2], Edge(p, i)[1]>> : i \in (IF Rectangle(p) THEN {1, 2} ELSE DOMAIN p)}

\* The polygons are n apart along an axis, in units of its length.
Gap(n, p, q) ==
  LET shade(r) == {Dot(n, r[i]) : i \in DOMAIN r}
      gaps     == {Min(shade(q)) - Max(shade(p)), Min(shade(p)) - Max(shade(q))}
  IN  Max(gaps)

\* segmentDistance: x is at least `margin' away from the segment from a to b.
FarFrom(x, a, b, margin) ==
  LET e == Minus(b, a)
      t == Dot(Minus(x, a), e)
      far(v, w) == v >= Square(margin) * w
  IN  CASE t <= 0 -> far(Dot(Minus(x, a), Minus(x, a)), 1)
        [] t >= Dot(e, e) -> far(Dot(Minus(x, b), Minus(x, b)), 1)
        [] OTHER -> far(Square(Cross(e, Minus(x, a))), Dot(e, e))

\* exactDistance, of every vertex of one from every edge of the other.
Distant(p, q, margin) ==
  /\ \A i \in DOMAIN p, e \in DOMAIN q : FarFrom(p[i], q[e], Cyclic(q, e + 1), margin)
  /\ \A i \in DOMAIN q, e \in DOMAIN p : FarFrom(q[i], p[e], Cyclic(p, e + 1), margin)

\* Mutant of ClearAtLeast: where no axis has the margin, the polygons need not be apart.
ClearByDistance(p, q, margin) ==
  \/ \E n \in Axes(p) \cup Axes(q) :
       Gap(n, p, q) > 0 /\ Square(Gap(n, p, q)) >= Square(margin) * Dot(n, n)
  \/ Distant(p, q, margin)

\* clearAtLeast: an axis with a gap of the margin decides; with a smaller one the corners may
\* still be that far apart.
ClearAtLeast(p, q, margin) ==
  \E n \in Axes(p) \cup Axes(q) :
    /\ Gap(n, p, q) > 0
    /\ Square(Gap(n, p, q)) >= Square(margin) * Dot(n, n) \/ Distant(p, q, margin)

=============================================================================
