----------------------------- MODULE RoutePath -----------------------------
(***************************************************************************)
(* The route of the planner (ugv_reset_safety/reset_path.cpp,               *)
(* planVisibilityPath): the shortest polyline from start to goal for a disc *)
(* among convex obstacles and inside the fence, by Dijkstra's algorithm on  *)
(* the graph of what can see what.  One action is one iteration of its loop.*)
(***************************************************************************)
EXTENDS Polygons
LOCAL INSTANCE Functions

CONSTANTS
  Problems,   \* what is asked: see Problem
  Coordinate, \* the finite numbers
  Capacity,   \* the vertices there may be, 1024 in the code
  Length(_),  \* the length of a vector
  Tie         \* what a first step to the left costs, 1e-6 in the code

Point   == Coordinate \X Coordinate
Problem == [start : Point, goal : Point, obstacles : Seq(Seq(Point)), fence : Seq(Coordinate),
            radius : Coordinate, clearance : Coordinate]

ASSUME RouteAssumption ==
  /\ Problems \subseteq Problem /\ \A p \in Problems : Len(p.fence) \in {0, 4}
  /\ Coordinate \subseteq Int /\ Capacity \in Nat /\ Tie \in Nat
  /\ \A a, b \in Point : Length(Minus(b, a)) \in Nat

VARIABLES
  problem,
  phase,     \* "new", "search", and the result: "invalid", "blocked", "none" or "found"
  expanded,  \* the obstacles, each grown by the radius and the clearance
  nodes,     \* the start, the goal and the corners that are free, by name
  dist,      \* of each node from the start, Far where there is no way yet
  previous, visited

vars == <<problem, phase, expanded, nodes, dist, previous, visited>>

\* Names: of the ends, and <<i, k>> of the k-th vertex of the i-th obstacle.
Start   == <<0, 1>>
Goal    == <<0, 2>>
Nowhere == <<0, 0>>
Earlier(m, n) == m[1] < n[1] \/ (m[1] = n[1] /\ m[2] < n[2])

At(n) ==
  CASE n = Start -> problem.start
    [] n = Goal  -> problem.goal
    [] OTHER     -> expanded[n[1]][n[2]]

Far == -1
Closer(a, b) == a # Far /\ (b = Far \/ a < b)

TypeOK ==
  /\ problem \in Problems
  /\ phase \in {"new", "search", "invalid", "blocked", "none", "found"}
  /\ IF phase \in {"search", "none", "found"} THEN {Start, Goal} \subseteq nodes ELSE nodes = {}
  /\ \A n \in nodes : At(n) \in Point
  /\ dist \in [nodes -> Nat \cup {Far}] /\ previous \in [nodes -> nodes \cup {Nowhere}]
  /\ visited \in SUBSET nodes

-----------------------------------------------------------------------------

Expansion == problem.radius + problem.clearance

Vertices(p) == FoldFunction(LAMBDA o, n : n + Len(o), 2, p.obstacles)

Grown(p) == [i \in DOMAIN p.obstacles |-> Inflated(p.obstacles[i], p.radius + p.clearance)]

\* The input is not what the search can be asked.
Invalid(p) ==
  \/ p.radius < 0 \/ p.clearance < 0
  \/ p.fence # <<>> /\ (p.fence[1] >= p.fence[2] \/ p.fence[3] >= p.fence[4])
  \/ Vertices(p) > Capacity
  \/ \E i \in DOMAIN p.obstacles :
       \/ ~Accepted(p.obstacles[i])
       \/ \E k \in DOMAIN Grown(p)[i] : Grown(p)[i][k] \notin Point

Free(x, p, grown) ==
  /\ InFence(x, p.fence, p.radius + p.clearance)
  /\ \A i \in DOMAIN grown : ~InsideInterior(x, grown[i])

Vertex(grown) == UNION {{i} \X DOMAIN grown[i] : i \in DOMAIN grown}

\* Mutant of Corners: the last vertex of an obstacle is forgotten.
CornersButLast(p, grown) ==
  {n \in Vertex(grown) : n[2] < Len(grown[n[1]]) /\ Free(grown[n[1]][n[2]], p, grown)}

\* The corners a route may turn at.
Corners(p, grown) == {n \in Vertex(grown) : Free(grown[n[1]][n[2]], p, grown)}

\* Refused at once, or ready to search.
Prepare ==
  /\ phase = "new"
  /\ IF Invalid(problem)
     THEN phase' = "invalid" /\ UNCHANGED <<expanded, nodes, dist, previous, visited>>
     ELSE /\ expanded' = Grown(problem)
          /\ IF Free(problem.start, problem, expanded') /\ Free(problem.goal, problem, expanded')
             THEN /\ phase' = "search"
                  /\ nodes' = {Start, Goal} \cup Corners(problem, expanded')
                  /\ dist' = [n \in nodes' |-> IF n = Start THEN 0 ELSE Far]
                  /\ previous' = [n \in nodes' |-> Nowhere]
                  /\ visited' = {}
             ELSE phase' = "blocked" /\ UNCHANGED <<nodes, dist, previous, visited>>
  /\ UNCHANGED problem

Sees(m, n) == \A i \in DOMAIN expanded : ~EntersInterior(At(m), At(n), expanded[i])

\* What a step costs: its length, and from the start the tie if it is to the left.
Cost(m, n) ==
  Length(Minus(At(n), At(m)))
    + (IF m = Start /\ Cross(Minus(problem.goal, problem.start), Minus(At(n), problem.start)) > 0
       THEN Tie ELSE 0)

\* The nearest of those that were not visited, the first of them.
Current(n) ==
  /\ n \in nodes \ visited /\ dist[n] # Far
  /\ \A m \in nodes \ visited : ~Closer(dist[m], dist[n]) /\ (dist[m] = dist[n] => ~Earlier(m, n))

\* Mutant of Improves: only what was not reached before is improved; a nearer way to what was
\* reached is not taken.
ImprovesFarOnly(c, n) == n # c /\ Sees(c, n) /\ dist[n] = Far

Improves(c, n) ==
  n \notin visited \cup {c} /\ Closer(dist[c] + Cost(c, n), dist[n]) /\ Sees(c, n)

\* An iteration: the nearest node is settled, unless it is the goal.
Settle ==
  /\ phase = "search"
  /\ \E c \in nodes \ {Goal} :
       /\ Current(c)
       /\ visited' = visited \cup {c}
       /\ dist' = [n \in nodes |-> IF Improves(c, n) THEN dist[c] + Cost(c, n) ELSE dist[n]]
       /\ previous' = [n \in nodes |-> IF Improves(c, n) THEN c ELSE previous[n]]
  /\ UNCHANGED <<problem, phase, expanded, nodes>>

\* The goal is the nearest, or nothing else can be reached.
Finish ==
  /\ phase = "search"
  /\ Current(Goal) \/ \A n \in nodes : ~Current(n)
  /\ phase' = IF dist[Goal] = Far THEN "none" ELSE "found"
  /\ UNCHANGED <<problem, expanded, nodes, dist, previous, visited>>

\* The points of the route, back from the goal.
Route ==
  LET to[n \in nodes] == IF n = Start THEN <<At(n)>> ELSE Append(to[previous[n]], At(n))
  IN  to[Goal]

Init ==
  /\ problem \in Problems /\ phase = "new" /\ expanded = <<>>
  /\ nodes = {} /\ visited = {}
  /\ dist = [n \in nodes |-> Far] /\ previous = [n \in nodes |-> Nowhere]

Next == Prepare \/ Settle \/ Finish

Spec == Init /\ [][Next]_vars

-----------------------------------------------------------------------------
(* Properties.                                                              *)

\* A reference for what is grown: where it is, the obstacles are boxes.
Around(o) ==
  LET lo(k) == CHOOSE m \in {o[i][k] : i \in DOMAIN o} : \A i \in DOMAIN o : m <= o[i][k]
      hi(k) == CHOOSE m \in {o[i][k] : i \in DOMAIN o} : \A i \in DOMAIN o : m >= o[i][k]
      e     == Expansion
  IN  IF e = 0 THEN Oriented(o)
      ELSE <<<<lo(1) - e, lo(2) - e>>, <<hi(1) + e, lo(2) - e>>, <<hi(1) + e, hi(2) + e>>,
             <<lo(1) - e, hi(2) + e>>>>

\* A reference for what can be seen: a line parts the segment and the inside of the obstacle.
Clear(a, b) ==
  \A i \in DOMAIN problem.obstacles :
    LET o == Around(problem.obstacles[i])
        side(k) == Cross(Minus(b, a), Minus(o[k], a))
    IN  \/ \E k \in DOMAIN o : \A x \in {a, b} : Cross(Edge(o, k), Minus(x, o[k])) <= 0
        \/ a # b /\ ((\A k \in DOMAIN o : side(k) <= 0) \/ (\A k \in DOMAIN o : side(k) >= 0))

Stands(x) == InFence(x, problem.fence, Expansion) /\ Clear(x, x)

Walk == 40   \* more steps than a way around everything takes

Between(x, y) == Length(Minus(y, x))

\* A route that is found leads from the start to the goal, the body meets nothing on it, and no
\* way over at most two other points is shorter (but for the tie): what is searched is the
\* corners alone, and nothing is settled too early (planVisibilityPath; reset_path.h, "Shortest
\* polyline from start to goal").
RouteIsShortest ==
  phase = "found" =>
    LET route == Route
        s     == problem.start
        g     == problem.goal
        long  == FoldFunction(+, 0, [i \in 1..(Len(route) - 1) |-> Between(route[i], route[i + 1])])
        near  == {x \in Point : Between(s, x) + Between(x, g) < long /\ Stands(x)}
    IN  /\ route[1] = s /\ route[Len(route)] = g
        /\ \A i \in 1..(Len(route) - 1) : Clear(route[i], route[i + 1]) /\ Stands(route[i])
        /\ \A x, y \in near : Between(s, x) + Between(x, y) + Between(y, g) + Tie < long
                              => ~(Clear(s, x) /\ Clear(x, y) /\ Clear(y, g))

\* "No route" is said only where there is none: no way over points next to each other leads to
\* the goal.  The corners that are searched are enough, whatever overlaps and whatever the fence
\* cuts off.
NoneOnlyIfNone ==
  phase = "none" =>
    LET around(x) == {<<x[1] + 1, x[2]>>, <<x[1] - 1, x[2]>>, <<x[1], x[2] + 1>>, <<x[1], x[2] - 1>>}
        next(x)   == {y \in around(x) \cap Point : Stands(y) /\ Clear(x, y)}
        after[n \in 0..Walk] ==
          IF n = 0 THEN [all |-> {problem.start}, last |-> {problem.start}]
          ELSE LET b == after[n - 1]
                   c == UNION {next(x) : x \in b.last} \ b.all
               IN  [all |-> b.all \cup c, last |-> c]
    IN  problem.goal \notin after[Walk].all

\* Where a problem is its own mirror image, the route begins to the right of the goal or
\* straight: two robots that trade places choose different sides, and the order and the winding
\* of the vertices do not decide ("Break equal-length detours to the robot's right, independent
\* of polygon winding and the peer's opposite direction of travel").
KeepsRight ==
  LET p == problem
      mirror(x) == <<x[1], 2 * p.start[2] - x[2]>>
      corners(o) == {o[i] : i \in DOMAIN o}
      all == {corners(p.obstacles[i]) : i \in DOMAIN p.obstacles}
  IN  (/\ phase = "found" /\ p.start[2] = p.goal[2] /\ p.fence = <<>>
       /\ all = {{mirror(x) : x \in c} : c \in all})
        => Cross(Minus(p.goal, p.start), Minus(Route[2], p.start)) <= 0

\* The distances that are settled are those from the start and are never improved on again:
\* nothing that was not visited is nearer than what was, no step from a settled node makes any
\* node nearer than it is said to be, and every distance is that of a step from a settled node
\* that can be seen from it.
SettledIsLeast ==
  phase \in {"search", "none", "found"} =>
    /\ \A u \in visited : dist[u] # Far /\ \A n \in nodes \ visited : ~Closer(dist[n], dist[u])
    /\ \A u \in visited, n \in nodes \ {Start} :
         Sees(u, n) => ~Closer(dist[u] + Cost(u, n), dist[n])
    /\ \A n \in nodes \ {Start} : dist[n] # Far =>
         /\ previous[n] \in visited /\ Sees(previous[n], n)
         /\ dist[n] = dist[previous[n]] + Cost(previous[n], n)

\* A reference for two convex polygons: the differences of their vertices span a polygon that
\* has the origin outside it and no edge nearer to it than the margin.
Separate(p, q, margin) ==
  LET d == {Minus(p[i], q[j]) : i \in DOMAIN p, j \in DOMAIN q}
      edges == {e \in d \X d : e[1] # e[2] /\ \A x \in d : Cross(Minus(e[2], e[1]), Minus(x, e[1])) >= 0}
  IN  /\ \E e \in edges : Cross(Minus(e[2], e[1]), Minus(<<0, 0>>, e[1])) < 0
      /\ \A e \in edges : FarFrom(<<0, 0>>, e[1], e[2], margin)

\* Two bodies are said to be apart by a margin exactly if they are, whether an axis shows it or
\* corners face each other (separation, exactDistance, clearAtLeast).
ClearIsExact ==
  (phase = "new" /\ ~Invalid(problem)) =>
    \A i, j \in DOMAIN problem.obstacles : \A margin \in 1..3 :
      i < j =>
        LET p == Oriented(problem.obstacles[i])  q == Oriented(problem.obstacles[j])
        IN  ClearAtLeast(p, q, margin) <=> Separate(p, q, margin)

=============================================================================
