------------------------------- MODULE KdTree -------------------------------
(***************************************************************************)
(* The kd-trees over sea and land points: nanoflann's index as it is built *)
(* for a PointCloud, and searched with LonLatDistanceAdaptor of            *)
(* interpolation_utils.hpp, for the neighbours within a radius (velocity)  *)
(* or for the nearest point (beaching).                                    *)
(*                                                                         *)
(* A point is <<lon, lat>>, an integer in each; all squared distances are  *)
(* multiplied by Unit, so that a squared cosine is an integer.  A node of  *)
(* the tree is the set of its points, which are indices of the cloud.      *)
(***************************************************************************)
EXTENDS Integers, Sequences, FiniteSets, FiniteSetsExt

CONSTANTS
  HalfTurn,   \* pi
  Unit,       \* the cosine of the equator, squared
  CosSq,      \* CosSq[s]: the squared cosine of the latitude s / 2
  LeafMax,    \* leaf_max_size (10)
  Radius2,    \* the squared radius of a neighbour search
  FarAway     \* the greatest squared distance

Dims == {1, 2}

ASSUME KdAssumption ==
  /\ HalfTurn \in Nat \ {0} /\ Unit \in Nat \ {0} /\ LeafMax \in Nat \ {0}
  /\ Radius2 \in Nat /\ FarAway \in Nat
  /\ CosSq \in [-HalfTurn .. HalfTurn -> 0 .. Unit]

VARIABLES
  cloud,        \* the points
  todo,         \* nodes divideTree has still to divide, with their boxes
  cut,          \* the divided nodes: dimension, and the points of the left child
  query, goal,  \* what is searched: neighbours in the "radius", or the "nearest"
  open,         \* calls of searchLevel still to make
  found,        \* the neighbours found so far
  best          \* the distance of the nearest point so far

tree   == <<cloud, todo, cut>>
search == <<query, goal, open, found, best>>
kdVars == <<tree, search>>

Points == DOMAIN cloud

-----------------------------------------------------------------------------
(***************************************************************************)
(* Distances                                                               *)
(***************************************************************************)

Square(x) == x * x

\* Differences of longitude are taken the short way round, and longitudes of
\* queries brought into the range of the grid.
WrapDiff(x) == IF x < -HalfTurn THEN x + 2 * HalfTurn
               ELSE IF x > HalfTurn THEN x - 2 * HalfTurn ELSE x
WrapLon(x) == x - 2 * HalfTurn * ((x + HalfTurn - 1) \div (2 * HalfTurn))

\* evalMetric: what decides whether a point is a neighbour.
Metric(p, q) == CosSq[p[2] + q[2]] * Square(WrapDiff(p[1] - q[1])) + Unit * Square(p[2] - q[2])

\* accum_dist: what decides whether a branch is searched.  It knows nothing of
\* the latitude, hence has no cosine.
AccumDist(a, b, d) == Unit * Square(IF d = 1 THEN WrapDiff(a - b) ELSE a - b)

\* The distance on the map, without short ways round.
PlainDist(p, q) == Unit * (Square(p[1] - q[1]) + Square(p[2] - q[2]))

-----------------------------------------------------------------------------
(***************************************************************************)
(* Building                                                                *)
(***************************************************************************)

Along(S, d) == {cloud[i][d] : i \in S}
Low(S, d)   == Min(Along(S, d))
High(S, d)  == Max(Along(S, d))
BoxOf(S)    == [d \in Dims |-> <<Low(S, d), High(S, d)>>]

\* middleSplit_: of the sides of the box that are longest, the one along which
\* the points spread most, and the middle of that side or the nearest point.
Span(box, d)  == box[d][2] - box[d][1]
Widest(box)   == {d \in Dims : \A e \in Dims : Span(box, e) <= Span(box, d)}
Spread(S, d)  == High(S, d) - Low(S, d)
CutDim(S, box) ==
  CHOOSE d \in Widest(box) : \A e \in Widest(box) :
    Spread(S, e) < Spread(S, d) \/ (Spread(S, e) = Spread(S, d) /\ d <= e)
CutVal(S, box, d) ==
  LET middle == (box[d][1] + box[d][2]) \div 2
  IN  Min({Max({middle, Low(S, d)}), High(S, d)})

\* planeSplit puts smaller points to the left and greater ones to the right;
\* where the half is among equal ones, any of them may come first.
LeftSize(S, below, equal) ==
  LET half == Cardinality(S) \div 2 IN
  IF Cardinality(below) > half THEN Cardinality(below)
  ELSE IF Cardinality(below \cup equal) < half THEN Cardinality(below \cup equal)
  ELSE half
LeftParts(S, d, val) ==
  LET below == {i \in S : cloud[i][d] < val}
      equal == {i \in S : cloud[i][d] = val}
  IN  {below \cup E : E \in kSubset(LeftSize(S, below, equal) - Cardinality(below), equal)}

Node(S, box) == [pts |-> S, box |-> box]
Root         == IF cloud = <<>> THEN <<>> ELSE <<Node(Points, BoxOf(Points))>>
Children(S)  == [left |-> cut[S].left, right |-> S \ cut[S].left, dim |-> cut[S].dim]

NoTree ==
  /\ cloud = <<>> /\ todo = <<>> /\ cut = [S \in {} |-> {}]
  /\ query = <<0, 0>> /\ goal = "none" /\ open = <<>> /\ found = {} /\ best = FarAway

\* buildIndex; an empty cloud has no tree.
BuildIndex(c) ==
  /\ cloud' = c
  /\ todo' = Root'
  /\ cut' = [S \in {} |-> {}]
  /\ UNCHANGED search

\* divideTree: depth first, the left child before the right one.
MakeLeaf ==
  /\ todo # <<>> /\ Cardinality(Head(todo).pts) <= LeafMax
  /\ todo' = Tail(todo)
  /\ UNCHANGED <<cloud, cut, search>>

Split ==
  /\ todo # <<>> /\ Cardinality(Head(todo).pts) > LeafMax
  /\ LET S   == Head(todo).pts
         box == Head(todo).box
         d   == CutDim(S, box)
         val == CutVal(S, box, d)
     IN  \E L \in LeftParts(S, d, val) :
           /\ todo' = <<Node(L, [box EXCEPT ![d][2] = val]),
                        Node(S \ L, [box EXCEPT ![d][1] = val])>> \o Tail(todo)
           /\ cut' = [T \in DOMAIN cut \cup {S} |->
                        IF T = S THEN [dim |-> d, left |-> L] ELSE cut[T]]
  /\ UNCHANGED <<cloud, search>>

-----------------------------------------------------------------------------
(***************************************************************************)
(* Searching                                                               *)
(***************************************************************************)

\* computeInitialDistances: from the query to the box of all points.
InitialDist(q, d) ==
  IF q[d] < Low(Points, d) THEN AccumDist(q[d], Low(Points, d), d)
  ELSE IF q[d] > High(Points, d) THEN AccumDist(q[d], High(Points, d), d) ELSE 0

\* A call of searchLevel: a node, the distances it has at least in each
\* dimension, and whether it is called whatever they are.
Call(S, dists, must) == [pts |-> S, dists |-> dists, must |-> must]

FindNeighbors(q, g) ==
  /\ cloud # <<>> /\ todo = <<>> /\ open = <<>>
  /\ query' = q /\ goal' = g
  /\ open' = <<Call(Points, [d \in Dims |-> InitialDist(q, d)], TRUE)>>
  /\ found' = {} /\ best' = FarAway
  /\ UNCHANGED tree

\* computeNeighbors, and the tests for land and for the coastal band; where these
\* are called the longitude is already in range.
ComputeNeighbors(q) == FindNeighbors(<<WrapLon(q[1]), q[2]>>, "radius")
NearestPoint(q)     == WrapLon(q[1]) = q[1] /\ FindNeighbors(q, "nearest")

Worst   == IF goal = "radius" THEN Radius2 ELSE best
MinDist(call) == call.dists[1] + call.dists[2]
Called(call)  == call.must \/ MinDist(call) <= Worst

Skip ==
  /\ open # <<>> /\ ~Called(Head(open))
  /\ open' = Tail(open)
  /\ UNCHANGED <<tree, query, goal, found, best>>

ScanLeaf ==
  /\ open # <<>> /\ Called(Head(open)) /\ Head(open).pts \notin DOMAIN cut
  /\ LET dist == [i \in Head(open).pts |-> Metric(query, cloud[i])] IN
     IF goal = "radius"
     THEN found' = found \cup {i \in DOMAIN dist : dist[i] < Radius2} /\ UNCHANGED best
     ELSE best' = Min({best} \cup {dist[i] : i \in DOMAIN dist}) /\ UNCHANGED found
  /\ open' = Tail(open)
  /\ UNCHANGED <<tree, query, goal>>

\* The child on the query's side comes first; the other one is at least as far
\* away as the points on its near edge.
LeftFirst(S) ==
  LET c == Children(S) IN
  2 * query[c.dim] < High(c.left, c.dim) + Low(c.right, c.dim)
CutDistNear(S) ==
  LET c == Children(S) IN
  AccumDist(query[c.dim], IF LeftFirst(S) THEN High(c.right, c.dim) ELSE Low(c.left, c.dim), c.dim)
CutDist(S) ==
  LET c == Children(S) IN
  AccumDist(query[c.dim], IF LeftFirst(S) THEN Low(c.right, c.dim) ELSE High(c.left, c.dim), c.dim)

\* The distance along the cut replaces the one there was in this dimension.
FartherAdded(dists, d, dist) == [dists EXCEPT ![d] = @ + dist]
Farther(dists, d, dist)      == [dists EXCEPT ![d] = dist]

Descend ==
  /\ open # <<>> /\ Called(Head(open)) /\ Head(open).pts \in DOMAIN cut
  /\ LET S      == Head(open).pts
         c      == Children(S)
         dists  == Head(open).dists
         nearer == IF LeftFirst(S) THEN c.left ELSE c.right
     IN  open' = <<Call(nearer, dists, TRUE),
                   Call(S \ nearer, Farther(dists, c.dim, CutDist(S)), FALSE)>> \o Tail(open)
  /\ UNCHANGED <<tree, query, goal, found, best>>

KdStep == MakeLeaf \/ Split \/ Skip \/ ScanLeaf \/ Descend

-----------------------------------------------------------------------------
(***************************************************************************)
(* Properties                                                              *)
(***************************************************************************)

Searched(g) == goal = g /\ open = <<>>
Disc        == {i \in Points : Metric(query, cloud[i]) < Radius2}

\* Whichever branches are skipped, a radius search finds every point within the
\* radius on the map and nothing that is not within it in the metric; what is
\* only in the metric's disc, by the cosine or across the date line, may be
\* missed.
FindsTheDisc ==
  Searched("radius") =>
    /\ {i \in Points : PlainDist(query, cloud[i]) < Radius2} \subseteq found
    /\ found \subseteq Disc

\* A search for the nearest point returns the distance of some point, no farther
\* than any point is on the map.
NearestBetween ==
  Searched("nearest") =>
    /\ \E i \in Points : best = Metric(query, cloud[i])
    /\ \A i \in Points : best <= PlainDist(query, cloud[i])

\* "Longitude differences are wrapped into (-pi, pi] for continuity across the
\* dateline": the neighbours are those of the metric's disc.  (Violated: the
\* tree is divided along unwrapped longitudes.)
FindsAcrossTheDateline == Searched("radius") => found = Disc

=============================================================================
