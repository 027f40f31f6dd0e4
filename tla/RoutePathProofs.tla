--------------------------- MODULE RoutePathProofs ---------------------------
(***************************************************************************)
(* The search is Dijkstra's, for every set of problems and every length of  *)
(* a step that is not negative: what is settled stays least, and the way    *)
(* that is found is the least of all ways over the nodes.                   *)
(***************************************************************************)
EXTENDS RoutePath, WellFoundedInduction, TLAPS

Inv == TypeOK /\ SettledIsLeast

-----------------------------------------------------------------------------
(* Distances.                                                               *)

Distance == Nat \cup {Far}

\* A node that was taken first is no farther than what is reached from a later one.
LEMMA CloserFacts ==
  ASSUME NEW a \in Nat, NEW b \in Distance, NEW c \in Nat
  PROVE  /\ ~Closer(a + c, a)
         /\ ~Closer(a, b) => ~Closer(a + c, b)
BY DEF Closer, Distance, Far

LEMMA CloserTrans ==
  ASSUME NEW a \in Distance, NEW b \in Distance, NEW c \in Distance
  PROVE  ~Closer(a, b) /\ ~Closer(b, c) => ~Closer(a, c)
BY DEF Closer, Distance, Far

LEMMA CostNat ==
  ASSUME TypeOK, NEW m \in nodes, NEW n \in nodes
  PROVE  Cost(m, n) \in Nat
<1>1. Length(Minus(At(n), At(m))) \in Nat
  BY RouteAssumption DEF TypeOK
<1>2. QED
  BY <1>1, RouteAssumption DEF Cost

-----------------------------------------------------------------------------
(* The steps.                                                               *)

LEMMA PrepareStep == Inv /\ Prepare => Inv'
<1> SUFFICES ASSUME Inv, Prepare PROVE Inv'
  OBVIOUS
<1> problem' = problem /\ problem \in Problem /\ phase = "new"
  BY RouteAssumption DEF Prepare, Inv, TypeOK
<1>1. CASE phase' = "search"
  <2>1. /\ ~Invalid(problem) /\ expanded' = Grown(problem)
        /\ nodes' = {Start, Goal} \cup Corners(problem, expanded')
        /\ dist' = [n \in nodes' |-> IF n = Start THEN 0 ELSE Far]
        /\ previous' = [n \in nodes' |-> Nowhere]
        /\ visited' = {}
    BY <1>1 DEF Prepare
  <2>2. \A n \in nodes' : At(n)' \in Point
    <3> SUFFICES ASSUME NEW n \in nodes', n # Start, n # Goal
                 PROVE  expanded'[n[1]][n[2]] \in Point
      BY DEF At, Problem
    <3>1. n \in Vertex(expanded')
      BY <2>1 DEF Corners
    <3>2. PICK i \in DOMAIN expanded' : n \in {i} \X DOMAIN expanded'[i]
      BY <3>1 DEF Vertex
    <3>3. n[1] \in DOMAIN problem.obstacles /\ n[2] \in DOMAIN Grown(problem)[n[1]]
      BY <2>1, <3>2 DEF Grown
    <3>4. QED
      BY <2>1, <3>3 DEF Invalid
  <2>3. TypeOK'
    BY <1>1, <2>1, <2>2 DEF Inv, TypeOK, Far
  <2>4. SettledIsLeast'
    BY <2>1 DEF SettledIsLeast, Far
  <2>5. QED
    BY <2>3, <2>4 DEF Inv
<1>2. CASE phase' # "search"
  <2>1. phase' \in {"invalid", "blocked"}
    BY <1>2 DEF Prepare
  <2>2. UNCHANGED <<nodes, dist, previous, visited>>
    BY <1>2 DEF Prepare
  <2>3. QED
    BY <2>1, <2>2 DEF Inv, TypeOK, SettledIsLeast
<1>3. QED
  BY <1>1, <1>2

\* What the search looks at does not change while it goes on.
LEMMA SameScene ==
  ASSUME UNCHANGED <<problem, expanded>>
  PROVE  /\ \A n : At(n)' = At(n)
         /\ \A m, n : Sees(m, n)' = Sees(m, n) /\ Cost(m, n)' = Cost(m, n)
BY DEF At, Sees, Cost

LEMMA SettleStep == Inv /\ Settle => Inv'
<1> SUFFICES ASSUME Inv, Settle PROVE Inv'
  OBVIOUS
<1>1. /\ UNCHANGED <<problem, phase, expanded, nodes>> /\ phase = "search"
      /\ Start \in nodes /\ visited \subseteq nodes
      /\ dist \in [nodes -> Distance] /\ previous \in [nodes -> nodes \cup {Nowhere}]
  BY DEF Settle, Inv, TypeOK, Distance
<1>2. PICK c \in nodes :
        /\ Current(c)
        /\ visited' = visited \cup {c}
        /\ dist' = [n \in nodes |-> IF Improves(c, n) THEN dist[c] + Cost(c, n) ELSE dist[n]]
        /\ previous' = [n \in nodes |-> IF Improves(c, n) THEN c ELSE previous[n]]
  BY DEF Settle
<1>3. /\ c \notin visited /\ dist[c] \in Nat
      /\ \A n \in nodes \ visited : ~Closer(dist[n], dist[c])
  BY <1>1, <1>2 DEF Current, Distance
<1>4. \A n \in nodes : Cost(c, n) \in Nat
  BY CostNat DEF Inv
<1>5. \A m, n : Sees(m, n)' = Sees(m, n) /\ Cost(m, n)' = Cost(m, n)
  BY <1>1, SameScene
<1>6. /\ \A u \in visited : dist[u] # Far /\ \A n \in nodes \ visited : ~Closer(dist[n], dist[u])
      /\ \A u \in visited, n \in nodes \ {Start} :
           Sees(u, n) => ~Closer(dist[u] + Cost(u, n), dist[n])
      /\ \A n \in nodes \ {Start} : dist[n] # Far =>
           /\ previous[n] \in visited /\ Sees(previous[n], n)
           /\ dist[n] = dist[previous[n]] + Cost(previous[n], n)
  BY <1>1 DEF Inv, SettledIsLeast
<1>7. \A n \in nodes : dist'[n] \in Distance
  BY <1>1, <1>2, <1>3, <1>4 DEF Distance
<1>8. \A u \in visited' : dist'[u] = dist[u] /\ dist[u] \in Nat
  BY <1>1, <1>2, <1>3, <1>6 DEF Improves, Distance
<1>9. \A n \in nodes : Improves(c, n) => n \notin visited' /\ dist'[n] = dist[c] + Cost(c, n)
  BY <1>2 DEF Improves
<1>10. TypeOK'
  <2>1. \A n \in nodes' : At(n)' \in Point
    BY <1>1, SameScene DEF Inv, TypeOK
  <2>2. dist' \in [nodes' -> Nat \cup {Far}]
    BY <1>1, <1>2, <1>7 DEF Distance
  <2>3. previous' \in [nodes' -> nodes' \cup {Nowhere}]
    BY <1>1, <1>2
  <2>4. QED
    BY <1>1, <1>2, <2>1, <2>2, <2>3 DEF Inv, TypeOK
\* A node that improves lies behind the one that is settled.
<1>11. \A u \in visited', n \in nodes \ visited' : ~Closer(dist'[n], dist'[u])
  <2> SUFFICES ASSUME NEW u \in visited', NEW n \in nodes \ visited' PROVE ~Closer(dist'[n], dist'[u])
    OBVIOUS
  <2>1. ~Closer(dist[n], dist[u]) /\ ~Closer(dist[c], dist[u])
    <3>1. CASE u = c
      BY <1>2, <1>3, <3>1 DEF Closer
    <3>2. CASE u \in visited
      BY <1>2, <1>3, <1>6, <3>2
    <3>3. QED
      BY <1>2, <3>1, <3>2
  <2>2. CASE Improves(c, n)
    <3>1. ~Closer(dist[c] + Cost(c, n), dist[u])
      BY <1>3, <1>4, <1>8, <2>1, CloserFacts DEF Distance
    <3>2. QED
      BY <1>8, <1>9, <2>2, <3>1
  <2>3. CASE ~Improves(c, n)
    BY <1>2, <1>8, <2>1, <2>3
  <2>4. QED
    BY <2>2, <2>3
<1>12. \A u \in visited', n \in nodes \ {Start} :
         Sees(u, n) => ~Closer(dist'[u] + Cost(u, n), dist'[n])
  <2> SUFFICES ASSUME NEW u \in visited', NEW n \in nodes \ {Start}, Sees(u, n)
               PROVE  ~Closer(dist'[u] + Cost(u, n), dist'[n])
    OBVIOUS
  <2>1. u \in nodes /\ dist[u] + Cost(u, n) \in Nat
    <3>1. u \in nodes
      BY <1>1, <1>2
    <3>2. dist[u] \in Nat /\ Cost(u, n) \in Nat
      BY <1>8, <3>1, CostNat DEF Inv
    <3>3. QED
      BY <3>1, <3>2
  <2>2. CASE Improves(c, n) /\ u = c
    BY <1>8, <1>9, <2>1, <2>2 DEF Closer
  <2>3. CASE Improves(c, n) /\ u # c
    <3>1. ~Closer(dist[u] + Cost(u, n), dist[n]) /\ Closer(dist[c] + Cost(c, n), dist[n])
      BY <1>2, <1>6, <2>3 DEF Improves
    <3>2. dist[n] \in Distance /\ dist[c] + Cost(c, n) \in Nat
      BY <1>1, <1>3, <1>4
    <3>3. ~Closer(dist[n], dist[c] + Cost(c, n))
      BY <3>1, <3>2 DEF Closer, Distance, Far
    <3>4. ~Closer(dist[u] + Cost(u, n), dist[c] + Cost(c, n))
      BY <2>1, <3>1, <3>2, <3>3, CloserTrans DEF Distance
    <3>5. QED
      BY <1>8, <1>9, <2>3, <3>4
  <2>4. CASE ~Improves(c, n) /\ u = c
    <3>1. ~Closer(dist[c] + Cost(c, n), dist[n])
      <4>1. CASE n = c
        BY <1>3, <1>4, <4>1, CloserFacts DEF Distance
      <4>2. CASE n \in visited
        <5>1. ~Closer(dist[c], dist[n]) /\ dist[n] \in Distance
          BY <1>1, <1>3, <1>6, <4>2
        <5>2. QED
          BY <1>3, <1>4, <5>1, CloserFacts
      <4>3. CASE n \notin visited \cup {c}
        BY <2>4, <4>3 DEF Improves
      <4>4. QED
        BY <4>1, <4>2, <4>3
    <3>2. QED
      BY <1>2, <1>8, <2>4, <3>1
  <2>5. CASE ~Improves(c, n) /\ u # c
    BY <1>2, <1>6, <1>8, <2>5
  <2>6. QED
    BY <2>2, <2>3, <2>4, <2>5
<1>13. \A n \in nodes \ {Start} : dist'[n] # Far =>
         /\ previous'[n] \in visited' /\ Sees(previous'[n], n)
         /\ dist'[n] = dist'[previous'[n]] + Cost(previous'[n], n)
  <2> SUFFICES ASSUME NEW n \in nodes \ {Start}, dist'[n] # Far
               PROVE  /\ previous'[n] \in visited' /\ Sees(previous'[n], n)
                      /\ dist'[n] = dist'[previous'[n]] + Cost(previous'[n], n)
    OBVIOUS
  <2>1. CASE Improves(c, n)
    <3>1. previous'[n] = c /\ c \in visited' /\ Sees(c, n)
      BY <1>2, <2>1 DEF Improves
    <3>2. dist'[n] = dist'[c] + Cost(c, n)
      BY <1>8, <1>9, <2>1, <3>1
    <3>3. QED
      BY <3>1, <3>2
  <2>2. CASE ~Improves(c, n)
    BY <1>2, <1>6, <1>8, <2>2
  <2>3. QED
    BY <2>1, <2>2
<1>14. SettledIsLeast'
  BY <1>1, <1>5, <1>8, <1>11, <1>12, <1>13 DEF SettledIsLeast, Far
<1>15. QED
  BY <1>10, <1>14 DEF Inv

LEMMA FinishStep == Inv /\ Finish => Inv'
<1> SUFFICES ASSUME Inv, Finish PROVE Inv'
  OBVIOUS
<1>1. /\ UNCHANGED <<problem, expanded, nodes, dist, previous, visited>>
      /\ phase = "search" /\ phase' \in {"none", "found"}
  BY DEF Finish
<1>2. QED
  BY <1>1, SameScene DEF Inv, TypeOK, SettledIsLeast

LEMMA RouteStep == Inv /\ [Next]_vars => Inv'
<1>1. Inv /\ UNCHANGED vars => Inv'
  BY SameScene DEF Inv, TypeOK, SettledIsLeast, vars
<1>2. QED
  BY <1>1, PrepareStep, SettleStep, FinishStep DEF Next

LEMMA RouteInv == Spec => []Inv
<1>1. Init => Inv
  BY DEF Init, Inv, TypeOK, SettledIsLeast
<1>2. QED
  BY <1>1, RouteStep, PTL DEF Spec

-----------------------------------------------------------------------------
(* Ways over the nodes.                                                      *)

LEMMA LeastNumber ==
  ASSUME NEW S, S \subseteq Nat, S # {}
  PROVE  \E m \in S : \A k \in S : m <= k
<1> DEFINE R == {ss \in Nat \X Nat : ss[1] < ss[2]}
<1>1. IsWellFoundedOn(R, Nat)
  BY NatLessThanWellFounded DEF OpToRel
<1> HIDE DEF R
<1>2. PICK m \in S : \A k \in S : <<k, m>> \notin R
  BY <1>1, WFMin
<1>3. \A k \in S : ~(k < m)
  BY <1>2 DEF R
<1> QED
  BY <1>3

LEMMA UpTo ==
  ASSUME NEW n \in Nat, NEW S, 0 \in S, \A i \in 1..n : i - 1 \in S => i \in S
  PROVE  \A i \in 0..n : i \in S
<1>1. SUFFICES ASSUME (0..n) \ S # {} PROVE FALSE
  OBVIOUS
<1>2. PICK m \in (0..n) \ S : \A i \in (0..n) \ S : m <= i
  <2>1. (0..n) \ S \subseteq Nat
    OBVIOUS
  <2> QED
    BY <1>1, <2>1, LeastNumber
<1>3. m \in 1..n /\ m - 1 \in 0..n
  BY <1>2
<1>4. m - 1 \in S
  BY <1>2, <1>3
<1> QED
  BY <1>2, <1>3, <1>4

\* A way of k steps from the start over w[0], ..., w[k], and what it has cost up to each.
Way(k, w, t) ==
  /\ w[0] = Start /\ t[0] = 0
  /\ \A i \in 0..k : w[i] \in nodes
  /\ \A i \in 1..k : Sees(w[i - 1], w[i]) /\ t[i] = t[i - 1] + Cost(w[i - 1], w[i])

\* It is what `previous' leads back, as Route does, over nodes that are settled.
Traced(k, w) ==
  \A i \in 1..k : w[i] # Start /\ w[i - 1] \in visited /\ previous[w[i]] = w[i - 1]

Reached(n) == \E k \in Nat : \E w, t : Way(k, w, t) /\ Traced(k, w) /\ w[k] = n /\ t[k] = dist[n]

\* The way that is found costs no more than any other way over the nodes, and where none is
\* found there is none.
SearchIsLeast ==
  /\ phase = "found" =>
       Reached(Goal) /\ \A k \in Nat : \A w, t : Way(k, w, t) /\ w[k] = Goal => dist[Goal] <= t[k]
  /\ phase = "none" => \A k \in Nat : \A w, t : Way(k, w, t) => w[k] # Goal

\* The distances are of ways, and the search ends with the goal or with nothing that is near.
WayInv ==
  phase \in {"search", "none", "found"} =>
    /\ nodes \subseteq Nat \X Nat
    /\ dist[Start] = 0 /\ Goal \notin visited
    /\ \A n \in nodes : dist[n] # Far => Reached(n)
    /\ phase = "found" => dist[Goal] # Far /\ \A n \in nodes \ visited : ~Closer(dist[n], dist[Goal])
    /\ phase = "none" => dist[Goal] = Far /\ \A n \in nodes \ visited : dist[n] = Far

\* While a node that was not visited can be reached, one of them is next.
LEMMA SomeCurrent ==
  ASSUME Inv, nodes \subseteq Nat \X Nat, phase = "search",
         NEW n \in nodes \ visited, dist[n] # Far
  PROVE  \E c \in nodes : Current(c)
<1> DEFINE U == {m \in nodes \ visited : dist[m] # Far}
           D == {dist[m] : m \in U}
<1>1. dist \in [nodes -> Distance]
  BY DEF Inv, TypeOK, Distance
<1>2. n \in U
  OBVIOUS
<1>3. D \subseteq Nat /\ D # {}
  BY <1>1, <1>2 DEF Distance
<1>4. PICK d \in D : \A e \in D : d <= e
  <2> HIDE DEF D
  <2> QED
    BY <1>3, LeastNumber
<1> DEFINE V == {m \in U : dist[m] = d}
           A == {m[1] : m \in V}
<1>5. V # {} /\ V \subseteq Nat \X Nat
  BY <1>4
<1>6. A \subseteq Nat /\ A # {}
  <2> HIDE DEF V
  <2> QED
    BY <1>5
<1>7. PICK a \in A : \A e \in A : a <= e
  <2> HIDE DEF A
  <2> QED
    BY <1>6, LeastNumber
<1> DEFINE W == {m \in V : m[1] = a}
           B == {m[2] : m \in W}
<1>8. W # {} /\ W \subseteq V
  <2> HIDE DEF V
  <2> QED
    BY <1>7
<1>9. B \subseteq Nat /\ B # {}
  <2> HIDE DEF V, W
  <2> QED
    BY <1>5, <1>8
<1>10. PICK b \in B : \A e \in B : b <= e
  <2> HIDE DEF B
  <2> QED
    BY <1>9, LeastNumber
<1>11. PICK c \in W : c[2] = b
  BY <1>10
<1>12. c \in nodes \ visited /\ dist[c] = d /\ c[1] = a /\ d \in Nat /\ a \in Nat /\ b \in Nat
  BY <1>3, <1>4, <1>6, <1>7, <1>9, <1>10, <1>11
<1>13. ASSUME NEW m \in nodes \ visited
       PROVE  ~Closer(dist[m], d) /\ (dist[m] = d => ~Earlier(m, c))
  <2>1. CASE dist[m] = Far
    BY <1>12, <2>1 DEF Closer, Far
  <2>2. CASE dist[m] # Far
    <3>1. m \in U /\ dist[m] \in Nat
      BY <1>1, <2>2 DEF Distance
    <3>2. d <= dist[m]
      BY <1>4, <3>1
    <3>3. ~Closer(dist[m], d)
      BY <1>12, <3>1, <3>2 DEF Closer, Far
    <3>4. ASSUME dist[m] = d PROVE ~Earlier(m, c)
      <4>1. m \in V /\ m[1] \in Nat /\ m[2] \in Nat
        BY <1>5, <3>1, <3>4
      <4>2. a <= m[1]
        BY <1>7, <4>1
      <4>3. m[1] = a => b <= m[2]
        BY <1>10, <4>1
      <4> QED
        BY <1>11, <1>12, <4>1, <4>2, <4>3 DEF Earlier
    <3> QED
      BY <3>3, <3>4
  <2> QED
    BY <2>1, <2>2
<1> QED
  BY <1>12, <1>13 DEF Current, Far

LEMMA NamesOf ==
  ASSUME Inv, Prepare, phase' = "search"
  PROVE  nodes' \subseteq Nat \X Nat
<1>1. /\ expanded' = Grown(problem) /\ nodes' = {Start, Goal} \cup Corners(problem, expanded')
  BY DEF Prepare
<1>2. problem.obstacles \in Seq(Seq(Point))
  BY RouteAssumption DEF Prepare, Inv, TypeOK, Problem
<1>3. ASSUME NEW o, NEW k \in DOMAIN Inflated(o, problem.radius + problem.clearance) PROVE k \in Nat
  <2>1. DOMAIN Inflated(o, problem.radius + problem.clearance) = DOMAIN Normalized(o)
    BY DEF Inflated
  <2>2. \A j \in DOMAIN Normalized(o) : j \in Nat
    BY DEF Normalized
  <2> QED
    BY <2>1, <2>2
<1>4. ASSUME NEW n \in Vertex(expanded') PROVE n \in Nat \X Nat
  <2>1. PICK i \in DOMAIN expanded' : n \in {i} \X DOMAIN expanded'[i]
    BY <1>4 DEF Vertex
  <2>2. i \in DOMAIN problem.obstacles
        /\ expanded'[i] = Inflated(problem.obstacles[i], problem.radius + problem.clearance)
    BY <1>1, <2>1 DEF Grown
  <2>3. i \in Nat
    BY <1>2, <2>2
  <2> QED
    BY <1>3, <2>1, <2>2, <2>3
<1> QED
  BY <1>1, <1>4 DEF Corners, Start, Goal

LEMMA SameWays ==
  ASSUME UNCHANGED <<problem, expanded, nodes, dist, previous, visited>>
  PROVE  \A n : Reached(n) => Reached(n)'
<1> SUFFICES ASSUME NEW n, Reached(n) PROVE Reached(n)'
  OBVIOUS
<1>1. PICK k \in Nat : \E w, t : Way(k, w, t) /\ Traced(k, w) /\ w[k] = n /\ t[k] = dist[n]
  BY DEF Reached
<1>2. PICK w, t : Way(k, w, t) /\ Traced(k, w) /\ w[k] = n /\ t[k] = dist[n]
  BY <1>1
<1>3. Way(k, w, t)' /\ Traced(k, w)' /\ t[k] = dist'[n]
  BY <1>2, SameScene DEF Way, Traced
<1> QED
  BY <1>2, <1>3 DEF Reached

LEMMA PrepareWays == Inv /\ WayInv /\ Prepare => WayInv'
<1> SUFFICES ASSUME Inv, WayInv, Prepare PROVE WayInv'
  OBVIOUS
<1>1. CASE phase' = "search"
  <2>1. /\ nodes' = {Start, Goal} \cup Corners(problem, expanded')
        /\ dist' = [n \in nodes' |-> IF n = Start THEN 0 ELSE Far]
        /\ visited' = {}
    BY <1>1 DEF Prepare
  <2>2. nodes' \subseteq Nat \X Nat
    BY <1>1, NamesOf
  <2>3. dist'[Start] = 0 /\ Start \in nodes' /\ \A n \in nodes' \ {Start} : dist'[n] = Far
    BY <2>1
  <2>4. Reached(Start)'
    <3> DEFINE w == [i \in 0..0 |-> Start]
               t == [i \in 0..0 |-> 0]
    <3>1. w[0] = Start /\ t[0] = 0
      OBVIOUS
    <3> HIDE DEF w, t
    <3>2. Way(0, w, t)' /\ Traced(0, w)'
      BY <2>3, <3>1 DEF Way, Traced
    <3>3. w[0] = Start /\ t[0] = dist'[Start]
      BY <2>3, <3>1
    <3> QED
      BY <3>2, <3>3 DEF Reached
  <2> QED
    BY <1>1, <2>1, <2>2, <2>3, <2>4 DEF WayInv
<1>2. CASE phase' # "search"
  BY <1>2 DEF Prepare, WayInv
<1> QED
  BY <1>1, <1>2

LEMMA SettleWays == Inv /\ WayInv /\ Settle => WayInv'
<1> SUFFICES ASSUME Inv, WayInv, Settle PROVE WayInv'
  OBVIOUS
<1>1. /\ UNCHANGED <<problem, phase, expanded, nodes>> /\ phase = "search"
      /\ Start \in nodes /\ visited \subseteq nodes
      /\ dist \in [nodes -> Distance] /\ previous \in [nodes -> nodes \cup {Nowhere}]
  BY DEF Settle, Inv, TypeOK, Distance
<1>2. PICK c \in nodes \ {Goal} :
        /\ Current(c)
        /\ visited' = visited \cup {c}
        /\ dist' = [n \in nodes |-> IF Improves(c, n) THEN dist[c] + Cost(c, n) ELSE dist[n]]
        /\ previous' = [n \in nodes |-> IF Improves(c, n) THEN c ELSE previous[n]]
  BY DEF Settle
<1>3. /\ c \notin visited /\ dist[c] \in Nat
      /\ \A n \in nodes : Cost(c, n) \in Nat
  BY <1>1, <1>2, CostNat DEF Current, Distance, Inv
<1>4. \A m, n : Sees(m, n)' = Sees(m, n) /\ Cost(m, n)' = Cost(m, n)
  BY <1>1, SameScene
<1>5. /\ nodes \subseteq Nat \X Nat /\ dist[Start] = 0 /\ Goal \notin visited
      /\ \A n \in nodes : dist[n] # Far => Reached(n)
  BY <1>1 DEF WayInv
<1>6. ~Improves(c, Start)
  <2>1. ~Closer(dist[c] + Cost(c, Start), 0)
    BY <1>1, <1>3 DEF Closer, Far
  <2> QED
    BY <1>5, <2>1 DEF Improves
<1>7. \A u \in visited \cup {c} : ~Improves(c, u)
  BY DEF Improves
<1>8. \A n \in nodes : ~Improves(c, n) => dist'[n] = dist[n] /\ previous'[n] = previous[n]
  BY <1>2
<1>9. \A n \in nodes : Improves(c, n) =>
        dist'[n] = dist[c] + Cost(c, n) /\ previous'[n] = c /\ Sees(c, n) /\ n # Start
  BY <1>2, <1>6 DEF Improves
\* A way stays what `previous' leads back while its end is not improved.
<1>10. ASSUME NEW k \in Nat, NEW w, NEW t, Way(k, w, t), Traced(k, w), ~Improves(c, w[k])
       PROVE  Way(k, w, t)' /\ Traced(k, w)'
  <2>1. Way(k, w, t)'
    BY <1>1, <1>4, <1>10 DEF Way
  <2>2. ASSUME NEW i \in 1..k PROVE w[i] # Start /\ w[i - 1] \in visited' /\ previous'[w[i]] = w[i - 1]
    <3>1. w[i] # Start /\ w[i - 1] \in visited /\ previous[w[i]] = w[i - 1] /\ w[i] \in nodes
      BY <1>10 DEF Traced, Way
    <3>2. ~Improves(c, w[i])
      <4>1. CASE i = k
        BY <1>10, <4>1
      <4>2. CASE i # k
        <5>1. i + 1 \in 1..k /\ (i + 1) - 1 = i
          BY <4>2
        <5>2. w[i] \in visited
          BY <1>10, <5>1 DEF Traced
        <5> QED
          BY <1>7, <5>2
      <4> QED
        BY <4>1, <4>2
    <3> QED
      BY <1>2, <1>8, <3>1, <3>2
  <2> QED
    BY <2>1, <2>2 DEF Traced
<1>11. ASSUME NEW n \in nodes, dist'[n] # Far PROVE Reached(n)'
  <2>1. CASE ~Improves(c, n)
    <3>1. dist'[n] = dist[n] /\ Reached(n)
      BY <1>5, <1>8, <1>11, <2>1
    <3>2. PICK k \in Nat : \E w, t : Way(k, w, t) /\ Traced(k, w) /\ w[k] = n /\ t[k] = dist[n]
      BY <3>1 DEF Reached
    <3>3. PICK w, t : Way(k, w, t) /\ Traced(k, w) /\ w[k] = n /\ t[k] = dist[n]
      BY <3>2
    <3>4. Way(k, w, t)' /\ Traced(k, w)' /\ w[k] = n /\ t[k] = dist'[n]
      BY <1>10, <2>1, <3>1, <3>3
    <3> QED
      BY <3>4 DEF Reached
  <2>2. CASE Improves(c, n)
    <3>1. Reached(c)
      BY <1>3, <1>5 DEF Far
    <3>2. PICK k \in Nat : \E w, t : Way(k, w, t) /\ Traced(k, w) /\ w[k] = c /\ t[k] = dist[c]
      BY <3>1 DEF Reached
    <3>3. PICK w, t : Way(k, w, t) /\ Traced(k, w) /\ w[k] = c /\ t[k] = dist[c]
      BY <3>2
    <3>4. Way(k, w, t)' /\ Traced(k, w)'
      BY <1>7, <1>10, <3>3
    <3>0. PICK z : z = dist'[n]
      OBVIOUS
    <3> DEFINE x == [i \in 0..(k + 1) |-> IF i <= k THEN w[i] ELSE n]
               y == [i \in 0..(k + 1) |-> IF i <= k THEN t[i] ELSE z]
    <3>5. /\ \A i \in 0..k : x[i] = w[i] /\ y[i] = t[i]
          /\ x[k + 1] = n /\ y[k + 1] = dist'[n]
      BY <3>0
    <3> HIDE DEF x, y
    <3>6. dist'[n] = dist[c] + Cost(c, n) /\ previous'[n] = c /\ Sees(c, n) /\ n # Start
      BY <1>9, <2>2
    <3>7. ASSUME NEW i \in 1..(k + 1)
          PROVE  /\ Sees(x[i - 1], x[i])' /\ y[i] = y[i - 1] + Cost(x[i - 1], x[i])'
                 /\ x[i] # Start /\ x[i - 1] \in visited' /\ previous'[x[i]] = x[i - 1]
      <4>1. CASE i = k + 1
        <5>1. x[i] = n /\ x[i - 1] = c /\ y[i] = dist'[n] /\ y[i - 1] = dist[c]
          BY <3>3, <3>5, <4>1
        <5> QED
          BY <1>2, <1>4, <3>6, <5>1
      <4>2. CASE i # k + 1
        <5>1. i \in 1..k /\ x[i] = w[i] /\ x[i - 1] = w[i - 1] /\ y[i] = t[i] /\ y[i - 1] = t[i - 1]
          BY <3>5, <4>2
        <5>2. /\ Sees(w[i - 1], w[i])' /\ t[i] = t[i - 1] + Cost(w[i - 1], w[i])'
              /\ w[i] # Start /\ w[i - 1] \in visited' /\ previous'[w[i]] = w[i - 1]
          BY <3>4, <5>1 DEF Way, Traced
        <5> QED
          BY <1>4, <5>1, <5>2
      <4> QED
        BY <4>1, <4>2
    <3>8. Way(k + 1, x, y)'
      <4>1. x[0] = Start /\ y[0] = 0
        BY <3>3, <3>5 DEF Way
      <4>2. \A i \in 0..(k + 1) : x[i] \in nodes'
        <5>1. \A i \in 0..k : w[i] \in nodes
          BY <3>3 DEF Way
        <5> QED
          BY <1>1, <3>5, <5>1
      <4> QED
        BY <3>7, <4>1, <4>2 DEF Way
    <3>9. Traced(k + 1, x)'
      BY <3>7 DEF Traced
    <3>10. k + 1 \in Nat /\ x[k + 1] = n /\ y[k + 1] = dist'[n]
      BY <3>5
    <3> QED
      BY <3>8, <3>9, <3>10 DEF Reached
  <2> QED
    BY <2>1, <2>2
<1>12. dist'[Start] = 0 /\ Goal \notin visited'
  BY <1>1, <1>2, <1>5, <1>6, <1>8
<1> QED
  BY <1>1, <1>5, <1>11, <1>12 DEF WayInv

LEMMA FinishWays == Inv /\ WayInv /\ Finish => WayInv'
<1> SUFFICES ASSUME Inv, WayInv, Finish PROVE WayInv'
  OBVIOUS
<1>1. /\ UNCHANGED <<problem, expanded, nodes, dist, previous, visited>> /\ phase = "search"
      /\ Current(Goal) \/ \A n \in nodes : ~Current(n)
      /\ phase' = IF dist[Goal] = Far THEN "none" ELSE "found"
  BY DEF Finish
<1>2. /\ nodes \subseteq Nat \X Nat /\ dist[Start] = 0 /\ Goal \notin visited /\ Goal \in nodes
      /\ \A n \in nodes : dist[n] # Far => Reached(n)
  BY <1>1 DEF WayInv, Inv, TypeOK
<1>3. \A n : Reached(n) => Reached(n)'
  BY <1>1, SameWays
<1>4. CASE dist[Goal] = Far
  <2>1. \A n \in nodes : ~Current(n)
    BY <1>1, <1>4 DEF Current
  <2>2. \A n \in nodes \ visited : dist[n] = Far
    BY <1>1, <1>2, <2>1, SomeCurrent
  <2> QED
    BY <1>1, <1>2, <1>3, <1>4, <2>2 DEF WayInv
<1>5. CASE dist[Goal] # Far
  <2>1. Current(Goal)
    BY <1>1, <1>2, <1>5, SomeCurrent
  <2>2. \A n \in nodes \ visited : ~Closer(dist[n], dist[Goal])
    BY <2>1 DEF Current
  <2> QED
    BY <1>1, <1>2, <1>3, <1>5, <2>2 DEF WayInv
<1> QED
  BY <1>4, <1>5

LEMMA WaySteps == Inv /\ WayInv /\ [Next]_vars => WayInv'
<1>1. Inv /\ WayInv /\ UNCHANGED vars => WayInv'
  <2> SUFFICES ASSUME Inv, WayInv, UNCHANGED vars PROVE WayInv'
    OBVIOUS
  <2>1. \A n : Reached(n) => Reached(n)'
    BY SameWays DEF vars
  <2> QED
    BY <2>1 DEF WayInv, vars
<1> QED
  BY <1>1, PrepareWays, SettleWays, FinishWays DEF Next

\* No way costs less than what its end is said to be, or than the goal if that has been found.
LEMMA WayCosts ==
  ASSUME Inv, WayInv, phase \in {"none", "found"},
         NEW k \in Nat, NEW w, NEW t, Way(k, w, t)
  PROVE  LET g == dist[Goal] IN
         \/ dist[w[k]] # Far /\ dist[w[k]] <= t[k]
         \/ g # Far /\ g <= t[k]
<1> DEFINE g == dist[Goal]
           P(i) == /\ t[i] \in Nat
                   /\ (dist[w[i]] # Far /\ dist[w[i]] <= t[i]) \/ (g # Far /\ g <= t[i])
           S == {i \in 0..k : P(i)}
<1>1. /\ {Start, Goal} \subseteq nodes /\ dist \in [nodes -> Distance]
  BY DEF Inv, TypeOK, Distance
<1>2. /\ dist[Start] = 0
      /\ phase = "found" => dist[Goal] # Far /\ \A n \in nodes \ visited : ~Closer(dist[n], dist[Goal])
      /\ phase = "none" => \A n \in nodes \ visited : dist[n] = Far
  BY DEF WayInv
<1>3. \A u \in visited, n \in nodes \ {Start} : Sees(u, n) => ~Closer(dist[u] + Cost(u, n), dist[n])
  BY DEF Inv, SettledIsLeast
<1>4. P(0)
  BY <1>2 DEF Way, Far
<1>5. ASSUME NEW i \in 1..k, P(i - 1) PROVE P(i)
  <2> DEFINE u == w[i - 1]
             n == w[i]
             q == Cost(u, n)
  <2>1. u \in nodes /\ n \in nodes /\ Sees(u, n) /\ t[i] = t[i - 1] + q
    BY DEF Way
  <2>2. q \in Nat
    BY <2>1, CostNat DEF Inv
  <2>3. dist[u] \in Distance /\ dist[n] \in Distance /\ g \in Distance
    BY <1>1, <2>1
  <2>4. t[i - 1] \in Nat /\ ((dist[u] # Far /\ dist[u] <= t[i - 1]) \/ (g # Far /\ g <= t[i - 1]))
    BY <1>5
  <2>5. CASE u \in visited
    <3>1. n # Start => ~Closer(dist[u] + q, dist[n])
      BY <1>3, <2>1, <2>5
    <3> HIDE DEF u, n, q, g
    <3> QED
      BY <1>2, <2>1, <2>2, <2>3, <2>4, <3>1 DEF Closer, Distance, Far, u, n
  <2>6. CASE u \notin visited
    <3>1. dist[u] = Far \/ (g # Far /\ ~Closer(dist[u], g))
      BY <1>2, <2>1, <2>6
    <3> HIDE DEF u, n, q, g
    <3> QED
      BY <2>1, <2>2, <2>3, <2>4, <3>1 DEF Closer, Distance, Far
  <2> QED
    BY <2>5, <2>6
<1> HIDE DEF P
<1>6. 0 \in S /\ \A i \in 1..k : i - 1 \in S => i \in S
  BY <1>4, <1>5
<1> HIDE DEF S
<1>7. k \in S
  BY <1>6, UpTo
<1> QED
  BY <1>7 DEF S, P

LEMMA WaysAreLeast == Inv /\ WayInv => SearchIsLeast
<1> SUFFICES ASSUME Inv, WayInv PROVE SearchIsLeast
  OBVIOUS
<1>1. CASE phase = "found"
  <2>1. dist[Goal] # Far /\ Reached(Goal)
    BY <1>1 DEF WayInv, Inv, TypeOK
  <2>2. ASSUME NEW k \in Nat, NEW w, NEW t, Way(k, w, t), w[k] = Goal PROVE dist[Goal] <= t[k]
    BY <1>1, <2>2, WayCosts
  <2> QED
    BY <1>1, <2>1, <2>2 DEF SearchIsLeast
<1>2. CASE phase = "none"
  <2>1. dist[Goal] = Far
    BY <1>2 DEF WayInv
  <2>2. ASSUME NEW k \in Nat, NEW w, NEW t, Way(k, w, t), w[k] = Goal PROVE FALSE
    BY <1>2, <2>1, <2>2, WayCosts
  <2> QED
    BY <1>2, <2>2 DEF SearchIsLeast
<1> QED
  BY <1>1, <1>2 DEF SearchIsLeast

-----------------------------------------------------------------------------

\* Every node of the search is a point there is, with a distance and a node it was reached from
\* (planVisibilityPath: nothing that was refused or ran over is searched).
THEOREM RouteTypeOK == Spec => []TypeOK
BY RouteInv, PTL DEF Inv

\* For every scene and every measure of length, what the search has settled is never improved
\* on: the first time the goal is the nearest its distance is final (planVisibilityPath).
THEOREM RouteSettledIsLeast == Spec => []SettledIsLeast
BY RouteInv, PTL DEF Inv

\* Whatever the scene and the measure of length: a route that is found is a way that the search
\* came, over nodes that see one another, it costs no more than any other such way, and "none"
\* is said only if no such way leads to the goal (planVisibilityPath; reset_path.h, "Shortest
\* polyline from start to goal", as far as the nodes are enough).
THEOREM RouteSearchIsLeast == Spec => []SearchIsLeast
<1>1. Init => WayInv
  BY DEF Init, WayInv
<1>2. Inv /\ WayInv /\ [Next]_vars => WayInv'
  BY WaySteps
<1>3. Spec => []WayInv
  BY <1>1, <1>2, RouteInv, PTL DEF Spec
<1> QED
  BY <1>3, RouteInv, WaysAreLeast, PTL

=============================================================================
