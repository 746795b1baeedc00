--------------------------- MODULE MonthData_proofs --------------------------
(***************************************************************************)
(* Proofs about MonthData and the trees it builds.                         *)
(*                                                                         *)
(* The first part is about the search, KdSearch.  Whatever the cloud and   *)
(* however it was divided, it misses no point within the radius, and finds *)
(* one at most as far as the nearest.  The inductive invariant says that a *)
(* divided node has its points on the right sides (TreeInv), that the      *)
(* distances a call is given are bounds for its points (a part of Calls),  *)
(* and that a point has been dealt with or is still in a call to be made   *)
(* (Pending).                                                              *)
(*                                                                         *)
(* The second part is about the month.  Whatever reads fail, the map from  *)
(* times to files names the last file seen to have a time (SourceInv), and *)
(* the series of a sub-domain are what was read of those files (LoadInv);  *)
(* with the gaps they are complete below the index that the patching has   *)
(* reached (FillInv); clouds and splines are in the order of the sea       *)
(* points, the second sub-domain behind the first (CloudInv, SplineInv).   *)
(***************************************************************************)
EXTENDS MonthData, KdSearch, TLAPS, FiniteSetTheorems

\* Latitudes up to the poles; of longitudes nothing is required.
Latitudes == -(HalfTurn \div 2) .. HalfTurn \div 2
Positions == Int \X Latitudes

\* What is indexed and searched are positions.  FarAway is the greatest double,
\* which no distance of two positions reaches.
ArePositions ==
  /\ \A c \in Clouds : c \in Seq(Positions)
  /\ \A q \in Targets : q \in Positions
  /\ \A c \in Clouds, q \in Targets : \A i \in DOMAIN c : PlainDist(q, c[i]) < FarAway

\* Nodes still to be divided, and calls of searchLevel still to be made.
Boxes == [Dims -> Int \X Int]
Parts == {S \in SUBSET Points : S # {}}
Nodes == [pts : Parts, box : Boxes]
Calls == {c \in [pts : Parts, dists : [Dims -> Int], must : BOOLEAN] :
            \A d \in Dims : \A i \in c.pts :
              c.dists[d] <= Unit * Square(query[d] - cloud[i][d])}

\* L is a left child of S: not empty, not all, and on one side along d.
Divides(S, d, L) ==
  /\ S \subseteq Points /\ d \in Dims
  /\ L \subseteq S /\ L # {} /\ L # S
  /\ \A l \in L : \A r \in S \ L : cloud[l][d] <= cloud[r][d]

TreeInv ==
  /\ cloud = <<>> \/ cloud \in Clouds
  /\ cloud \in Seq(Positions)
  /\ todo \in Seq(Nodes)
  /\ \A S \in DOMAIN cut : Divides(S, cut[S].dim, cut[S].left)

\* Point i is still in a call to be made.
Pending(i) == \E k \in DOMAIN open : i \in open[k].pts

SearchInv ==
  /\ query \in Positions
  /\ goal \in {"none", "radius", "nearest"}
  /\ open \in Seq(Calls)
  /\ best \in Int
  /\ goal # "none" => cloud # <<>>
  /\ goal = "none" => open = <<>>

RadiusInv ==
  goal = "radius" =>
    /\ found \subseteq Disc
    /\ \A i \in Points : PlainDist(query, cloud[i]) < Radius2 => i \in found \/ Pending(i)

NearestInv ==
  goal = "nearest" =>
    /\ best = FarAway \/ \E i \in Points : best = Metric(query, cloud[i])
    /\ \A i \in Points : PlainDist(query, cloud[i]) < FarAway
    /\ \A i \in Points : best <= PlainDist(query, cloud[i]) \/ Pending(i)

KdInv == TreeInv /\ SearchInv /\ RadiusInv /\ NearestInv

-----------------------------------------------------------------------------
(***************************************************************************)
(* Arithmetic                                                              *)
(***************************************************************************)

\* Squares grow with the distance from zero.
LEMMA SquareGrows ==
  ASSUME NEW x \in Int, NEW y \in Int, -y <= x, x <= y
  PROVE  Square(x) \in Nat /\ Square(x) <= Square(y)
<1>1. x * x >= 0
  OBVIOUS
<1>2. x * x \in Int /\ y * y \in Int
  OBVIOUS
<1>3. (y - x) * (y + x) >= 0
  <2>1. y - x \in Nat /\ y + x \in Nat
    OBVIOUS
  <2>2. \A a, b \in Nat : a * b >= 0
    OBVIOUS
  <2>. QED  BY <2>1, <2>2
<1>4. (y - x) * (y + x) = y * y - x * x
  OBVIOUS
<1>. QED  BY <1>1, <1>2, <1>3, <1>4 DEF Square

LEMMA SquareEven ==
  ASSUME NEW x \in Int
  PROVE  Square(x) \in Nat /\ Square(-x) = Square(x)
BY DEF Square

\* Products grow with both factors.
LEMMA ProductGrows ==
  ASSUME NEW a \in Nat, NEW b \in Nat, NEW x \in Nat, NEW y \in Nat, a <= b, x <= y
  PROVE  a * x \in Nat /\ a * x <= b * y
<1>1. a * x \in Nat /\ a * y \in Nat /\ b * y \in Nat
  OBVIOUS
<1>2. a * (y - x) >= 0 /\ (b - a) * y >= 0
  <2>1. y - x \in Nat /\ b - a \in Nat
    OBVIOUS
  <2>2. \A p, q \in Nat : p * q >= 0
    OBVIOUS
  <2>. QED  BY <2>1, <2>2
<1>3. a * (y - x) = a * y - a * x /\ (b - a) * y = b * y - a * y
  OBVIOUS
<1>. QED  BY <1>1, <1>2, <1>3

\* The short way round is no longer than the way on the map.
LEMMA WrapShortens ==
  ASSUME NEW x \in Int
  PROVE  /\ WrapDiff(x) \in Int
         /\ Square(WrapDiff(x)) \in Nat /\ Square(x) \in Nat
         /\ Square(WrapDiff(x)) <= Square(x)
<1>1. HalfTurn \in Nat /\ HalfTurn > 0
  BY KdAssumption
<1>2. WrapDiff(x) \in Int
  BY <1>1 DEF WrapDiff
<1>3. CASE x >= 0
  <2>1. -x <= WrapDiff(x) /\ WrapDiff(x) <= x
    BY <1>1, <1>3 DEF WrapDiff
  <2>. QED  BY <1>2, <2>1, SquareGrows, SquareEven
<1>4. CASE x < 0
  <2>1. -(-x) <= WrapDiff(x) /\ WrapDiff(x) <= -x /\ -x \in Int
    BY <1>1, <1>4 DEF WrapDiff
  <2>2. Square(WrapDiff(x)) <= Square(-x) /\ Square(-x) = Square(x)
    BY <1>2, <2>1, SquareGrows, SquareEven
  <2>. QED  BY <1>2, <2>2, SquareEven
<1>. QED  BY <1>3, <1>4

\* A point is a pair of integers.
LEMMA Coordinates ==
  ASSUME NEW p \in Positions
  PROVE  /\ p[1] \in Int /\ p[2] \in Int
         /\ \A d \in Dims : p[d] \in Int
         /\ \A q \in Positions : p[2] + q[2] \in -HalfTurn .. HalfTurn
<1>1. HalfTurn \in Nat /\ HalfTurn \div 2 \in Nat /\ 2 * (HalfTurn \div 2) <= HalfTurn
  BY KdAssumption
<1>. QED  BY <1>1 DEF Positions, Latitudes, Dims

\* What the metric puts within a distance includes what the map does.
LEMMA MetricBelowPlain ==
  ASSUME NEW p \in Positions, NEW q \in Positions
  PROVE  /\ Metric(p, q) \in Nat /\ PlainDist(p, q) \in Nat
         /\ Metric(p, q) <= PlainDist(p, q)
         /\ PlainDist(p, q) = Unit * Square(p[1] - q[1]) + Unit * Square(p[2] - q[2])
<1> DEFINE x == p[1] - q[1]
           y == p[2] - q[2]
           c == CosSq[p[2] + q[2]]
<1>1. x \in Int /\ y \in Int
  BY Coordinates
<1>2. Unit \in Nat /\ c \in Nat /\ c <= Unit
  BY Coordinates, KdAssumption
<1>3. /\ Square(WrapDiff(x)) \in Nat /\ Square(x) \in Nat /\ Square(y) \in Nat
      /\ Square(WrapDiff(x)) <= Square(x)
  BY <1>1, WrapShortens, SquareEven
<1>. HIDE DEF x, y, c
<1>4. /\ c * Square(WrapDiff(x)) \in Nat /\ Unit * Square(x) \in Nat /\ Unit * Square(y) \in Nat
      /\ c * Square(WrapDiff(x)) <= Unit * Square(x)
  BY <1>2, <1>3, ProductGrows
<1>5. Unit * (Square(x) + Square(y)) = Unit * Square(x) + Unit * Square(y)
  BY <1>2, <1>3
<1>6. /\ Metric(p, q) = c * Square(WrapDiff(x)) + Unit * Square(y)
      /\ PlainDist(p, q) = Unit * (Square(x) + Square(y))
  BY DEF Metric, PlainDist, x, y, c
<1>7. PlainDist(p, q) = Unit * Square(p[1] - q[1]) + Unit * Square(p[2] - q[2])
  BY <1>5, <1>6 DEF x, y
<1>. QED  BY <1>4, <1>5, <1>6, <1>7

\* The distance to an edge on the way to a point is a bound for the point.
LEMMA EdgeIsBound ==
  ASSUME NEW a \in Int, NEW b \in Int, NEW c \in Int, NEW d \in Dims,
         (a <= b /\ b <= c) \/ (c <= b /\ b <= a)
  PROVE  /\ AccumDist(a, b, d) \in Int
         /\ AccumDist(a, b, d) <= Unit * Square(a - c)
<1> DEFINE w == IF d = 1 THEN WrapDiff(a - b) ELSE a - b
<1>1. a - b \in Int /\ a - c \in Int /\ c - a \in Int
  OBVIOUS
<1>2. Square(w) \in Nat /\ Square(w) <= Square(a - b)
  BY <1>1, WrapShortens, SquareEven
<1>3. Square(a - b) <= Square(a - c) /\ Square(a - c) \in Nat
  <2>1. CASE a <= b /\ b <= c
    <3>1. -(c - a) <= a - b /\ a - b <= c - a
      BY <2>1
    <3>2. -(c - a) = a - c
      OBVIOUS
    <3>. QED  BY <1>1, <3>1, <3>2, SquareGrows, SquareEven
  <2>2. CASE c <= b /\ b <= a
    <3>1. -(a - c) <= a - b /\ a - b <= a - c
      BY <2>2
    <3>. QED  BY <1>1, <3>1, SquareGrows, SquareEven
  <2>. QED  BY <2>1, <2>2
<1>4. Unit \in Nat
  BY KdAssumption
<1>5. Square(a - b) \in Nat /\ Square(w) <= Square(a - c)
  BY <1>1, <1>2, <1>3, SquareEven
<1>6. AccumDist(a, b, d) = Unit * Square(w)
  BY DEF AccumDist
<1>. HIDE DEF w
<1>. QED  BY <1>2, <1>3, <1>4, <1>5, <1>6, ProductGrows

-----------------------------------------------------------------------------
(***************************************************************************)
(* Least and greatest elements                                             *)
(***************************************************************************)

\* The elements below the least one are the fewest.
LEMMA MinExists ==
  ASSUME NEW S, IsFiniteSet(S), S # {}, S \subseteq Int
  PROVE  Min(S) \in S /\ \A y \in S : Min(S) <= y
<1> DEFINE Below(x) == {y \in S : y < x}
           T        == {Below(x) : x \in S}
           R        == StrictSubsetOrdering(S)
<1>1. T \subseteq FiniteSubsetsOf(S) /\ T # {}
  <2>1. \A x \in S : Below(x) \in SUBSET S /\ IsFiniteSet(Below(x))
    BY FS_Subset
  <2>. QED  BY <2>1 DEF FiniteSubsetsOf
<1>2. IsWellFoundedOn(R, FiniteSubsetsOf(S))
  BY FS_StrictSubsetOrderingWellFounded
<1>3. \E t \in T : \A u \in T : <<u, t>> \notin R
  <2>. HIDE DEF T, R
  <2>. QED  BY <1>1, <1>2, WFMin
<1>4. PICK x \in S : \A u \in T : <<u, Below(x)>> \notin R
  BY <1>3
<1>5. \A y \in S : x <= y
  <2>1. ASSUME NEW y \in S, y < x  PROVE FALSE
    <3>1. x \in Int /\ y \in Int
      OBVIOUS
    <3>2. Below(y) \subseteq Below(x)
      <4>. SUFFICES ASSUME NEW z \in S, z < y  PROVE z < x
        OBVIOUS
      <4>. QED  BY <2>1, <3>1
    <3>3. y \in Below(x) /\ y \notin Below(y)
      BY <2>1, <3>1
    <3>4. <<Below(y), Below(x)>> \in R
      BY <3>2, <3>3 DEF StrictSubsetOrdering
    <3>. QED  BY <1>4, <3>4
  <2>2. \A y \in S : x \in Int /\ y \in Int
    OBVIOUS
  <2>. QED  BY <2>1, <2>2
<1>. QED  BY <1>5 DEF Min

\* The greatest element is opposite to the least of the opposites.
LEMMA MaxExists ==
  ASSUME NEW S, IsFiniteSet(S), S # {}, S \subseteq Int
  PROVE  Max(S) \in S /\ \A y \in S : y <= Max(S)
<1> DEFINE T == {-x : x \in S}
           f == [x \in S |-> -x]
<1>1. IsFiniteSet(T)
  <2>1. f \in Surjection(S, T)
    BY DEF Surjection
  <2>. HIDE DEF T, f
  <2>. QED  BY <2>1, FS_Surjection
<1>2. T # {} /\ T \subseteq Int
  OBVIOUS
<1>3. Min(T) \in T /\ \A y \in T : Min(T) <= y
  <2>. HIDE DEF T
  <2>. QED  BY <1>1, <1>2, MinExists
<1>4. PICK x \in S : Min(T) = -x
  BY <1>3
<1>5. \A y \in S : -x <= -y
  BY <1>3, <1>4
<1>6. \A y \in S : x >= y
  BY <1>5
<1>. QED  BY <1>6 DEF Max

\* The edges of a node are coordinates of its points.
LEMMA Edges ==
  ASSUME cloud \in Seq(Positions), NEW S \in SUBSET Points, S # {}, NEW d \in Dims
  PROVE  /\ IsFiniteSet(S)
         /\ \A i \in S : cloud[i] \in Positions /\ cloud[i][d] \in Int
         /\ Low(S, d) \in Int /\ High(S, d) \in Int
         /\ \A i \in S : Low(S, d) <= cloud[i][d] /\ cloud[i][d] <= High(S, d)
         /\ \E i \in S : cloud[i][d] = Low(S, d)
         /\ \E i \in S : cloud[i][d] = High(S, d)
<1>1. Points = 1 .. Len(cloud) /\ Len(cloud) \in Nat
  BY DEF Points
<1>2. IsFiniteSet(S)
  <2>1. IsFiniteSet(1 .. Len(cloud))
    BY <1>1, FS_Interval
  <2>2. S \in SUBSET (1 .. Len(cloud))
    BY <1>1
  <2>. QED  BY <2>1, <2>2, FS_Subset
<1>3. \A i \in S : cloud[i] \in Positions /\ cloud[i][d] \in Int
  <2>1. \A i \in S : cloud[i] \in Positions
    BY <1>1
  <2>. QED  BY <2>1, Coordinates
<1> DEFINE f == [i \in S |-> cloud[i][d]]
<1>4. IsFiniteSet(Along(S, d)) /\ Along(S, d) # {} /\ Along(S, d) \subseteq Int
  <2>1. f \in Surjection(S, Along(S, d))
    BY DEF Surjection, Along
  <2>2. IsFiniteSet(Along(S, d))
    <3>. HIDE DEF f
    <3>. QED  BY <1>2, <2>1, FS_Surjection
  <2>. QED  BY <1>3, <2>2 DEF Along
<1>5. /\ Low(S, d) \in Along(S, d) /\ \A y \in Along(S, d) : Low(S, d) <= y
      /\ High(S, d) \in Along(S, d) /\ \A y \in Along(S, d) : y <= High(S, d)
  BY <1>4, MinExists, MaxExists DEF Low, High
<1>6. \A i \in S : cloud[i][d] \in Along(S, d)
  BY DEF Along
<1>. QED  BY <1>2, <1>3, <1>4, <1>5, <1>6 DEF Along

-----------------------------------------------------------------------------
(***************************************************************************)
(* Dividing a node                                                         *)
(***************************************************************************)

\* Of two dimensions one is preferred.
LEMMA CutDimIsDim ==
  ASSUME cloud \in Seq(Positions), NEW S \in SUBSET Points, S # {}, NEW box \in Boxes
  PROVE  CutDim(S, box) \in Dims
<1>1. 1 \in Dims /\ 2 \in Dims
  BY DEF Dims
<1>2. Span(box, 1) \in Int /\ Span(box, 2) \in Int
  BY <1>1 DEF Span, Boxes
<1>3. Spread(S, 1) \in Int /\ Spread(S, 2) \in Int
  <2>1. \A d \in Dims : Low(S, d) \in Int /\ High(S, d) \in Int
    BY Edges
  <2>. QED  BY <1>1, <2>1 DEF Spread
<1>4. \E d \in Widest(box) : \A e \in Widest(box) :
        Spread(S, e) < Spread(S, d) \/ (Spread(S, e) = Spread(S, d) /\ d <= e)
  <2>1. CASE Span(box, 1) < Span(box, 2)
    BY <1>2, <1>3, <2>1 DEF Widest, Dims
  <2>2. CASE Span(box, 2) < Span(box, 1)
    BY <1>2, <1>3, <2>2 DEF Widest, Dims
  <2>3. CASE Span(box, 1) = Span(box, 2)
    <3>1. Widest(box) = {1, 2}
      BY <1>2, <2>3 DEF Widest, Dims
    <3>. QED  BY <1>3, <3>1
  <2>. QED  BY <1>2, <2>1, <2>2, <2>3
<1>. QED  BY <1>4 DEF CutDim, Widest

\* The value to cut at lies between the edges.
LEMMA CutValInside ==
  ASSUME cloud \in Seq(Positions), NEW S \in SUBSET Points, S # {}, NEW box \in Boxes,
         NEW d \in Dims
  PROVE  /\ CutVal(S, box, d) \in Int
         /\ Low(S, d) <= CutVal(S, box, d) /\ CutVal(S, box, d) <= High(S, d)
<1> DEFINE m == (box[d][1] + box[d][2]) \div 2
           l == Low(S, d)
           h == High(S, d)
<1>1. m \in Int
  BY DEF Boxes
<1>2. l \in Int /\ h \in Int /\ l <= h
  BY Edges
<1>. HIDE DEF m, l, h
<1>3. \A x, y \in Int : IsFiniteSet({x, y})
  <2>. TAKE x \in Int, y \in Int
  <2>1. IsFiniteSet({x})
    BY FS_Singleton
  <2>2. IsFiniteSet({x} \cup {y})
    BY <2>1, FS_AddElement
  <2>3. {x} \cup {y} = {x, y}
    OBVIOUS
  <2>. QED  BY <2>2, <2>3
<1>4. Max({m, l}) \in {m, l} /\ l <= Max({m, l})
  <2>1. {m, l} \subseteq Int /\ {m, l} # {} /\ IsFiniteSet({m, l}) /\ l \in {m, l}
    BY <1>1, <1>2, <1>3
  <2>. QED  BY <2>1, MaxExists
<1>5. /\ Min({Max({m, l}), h}) \in {Max({m, l}), h}
      /\ Min({Max({m, l}), h}) <= h
  <2> DEFINE a == Max({m, l})
  <2>1. a \in Int
    BY <1>1, <1>2, <1>4
  <2>. HIDE DEF a
  <2>2. {a, h} \subseteq Int /\ {a, h} # {} /\ IsFiniteSet({a, h}) /\ h \in {a, h}
    BY <1>2, <1>3, <2>1
  <2>3. Min({a, h}) \in {a, h} /\ Min({a, h}) <= h
    BY <2>2, MinExists
  <2>. QED  BY <2>3 DEF a
<1>6. CutVal(S, box, d) = Min({Max({m, l}), h})
  BY DEF CutVal, m, l, h
<1>. QED  BY <1>1, <1>2, <1>4, <1>5, <1>6 DEF l, h

\* Neither child is empty, and the left one is on the lower side.
LEMMA PartsDivide ==
  ASSUME cloud \in Seq(Positions), NEW S \in SUBSET Points, NEW d \in Dims,
         Cardinality(S) > LeafMax, S # {},
         NEW val \in Int, Low(S, d) <= val, val <= High(S, d),
         NEW L \in LeftParts(S, d, val)
  PROVE  Divides(S, d, L)
<1> DEFINE below == {i \in S : cloud[i][d] < val}
           equal == {i \in S : cloud[i][d] = val}
           half  == Cardinality(S) \div 2
<1>1. PICK E \in kSubset(LeftSize(S, below, equal) - Cardinality(below), equal) :
        L = below \cup E
  BY DEF LeftParts
<1>2. E \subseteq equal /\ Cardinality(E) = LeftSize(S, below, equal) - Cardinality(below)
  BY <1>1 DEF kSubset
<1>3. IsFiniteSet(S) /\ \A i \in S : cloud[i][d] \in Int
  BY Edges
<1>4. /\ IsFiniteSet(below) /\ IsFiniteSet(equal) /\ IsFiniteSet(E) /\ IsFiniteSet(below \cup equal)
      /\ IsFiniteSet(L)
  <2>1. /\ below \in SUBSET S /\ equal \in SUBSET S /\ E \in SUBSET S
        /\ below \cup equal \in SUBSET S /\ L \in SUBSET S
    BY <1>1, <1>2
  <2>. QED  BY <1>3, <2>1, FS_Subset
<1>5. /\ Cardinality(S) \in Nat /\ Cardinality(below) \in Nat /\ Cardinality(equal) \in Nat
      /\ Cardinality(E) \in Nat /\ Cardinality(below \cup equal) \in Nat
  BY <1>3, <1>4, FS_CardinalityType
<1>6. Cardinality(L) = LeftSize(S, below, equal)
  <2>1. below \cap E = {} /\ Cardinality({}) = 0
    BY <1>2, <1>3, FS_EmptySet
  <2>2. Cardinality(L) = Cardinality(below) + Cardinality(E) - Cardinality(below \cap E)
    BY <1>1, <1>4, FS_Union
  <2>3. LeftSize(S, below, equal) \in Int
    BY <1>5 DEF LeftSize
  <2>4. Cardinality(L) = Cardinality(below) + Cardinality(E)
    <3>1. Cardinality(below \cap E) = 0
      BY <2>1, Zenon
    <3>. HIDE DEF below
    <3>. QED  BY <1>5, <2>2, <3>1
  <2>. HIDE DEF below, equal
  <2>. QED  BY <1>2, <1>5, <2>3, <2>4
<1>7. half \in Nat /\ half >= 1 /\ half < Cardinality(S)
  BY <1>5, KdAssumption
<1>8. Cardinality(below) < Cardinality(S)
  <2>1. PICK i \in S : cloud[i][d] = High(S, d)
    BY Edges
  <2>2. below \in SUBSET S /\ i \notin below
    BY <1>3, <2>1
  <2>. QED  BY <1>3, <1>5, <2>1, <2>2, FS_Subset
<1>9. Cardinality(below \cup equal) > 0
  <2>1. PICK i \in S : cloud[i][d] = Low(S, d)
    BY Edges
  <2>2. i \in below \cup equal
    BY <1>3, <2>1
  <2>. QED  BY <1>4, <1>5, <2>2, FS_EmptySet
<1>10. 0 < LeftSize(S, below, equal) /\ LeftSize(S, below, equal) < Cardinality(S)
  <2>. HIDE DEF half
  <2>1. LeftSize(S, below, equal) =
          IF Cardinality(below) > half THEN Cardinality(below)
          ELSE IF Cardinality(below \cup equal) < half THEN Cardinality(below \cup equal)
          ELSE half
    BY DEF LeftSize, half
  <2>. HIDE DEF below, equal
  <2>. QED  BY <1>5, <1>7, <1>8, <1>9, <2>1
<1>11. L # {} /\ L # S
  <2>1. 0 < Cardinality(L) /\ Cardinality(L) < Cardinality(S)
    BY <1>6, <1>10
  <2>2. Cardinality(L) # Cardinality({})
    BY <2>1, FS_EmptySet
  <2>3. L # {}
    BY <2>2, Zenon
  <2>4. L # S
    BY <1>5, <2>1
  <2>. QED  BY <2>3, <2>4
<1>12. ASSUME NEW l \in L, NEW r \in S \ L
       PROVE  cloud[l][d] <= cloud[r][d]
  <2>1. l \in S /\ cloud[l][d] \in Int /\ cloud[r][d] \in Int
    BY <1>1, <1>2, <1>3, <1>12
  <2>2. cloud[l][d] <= val
    BY <1>1, <1>2, <1>3, <1>12
  <2>3. ~(cloud[r][d] < val)
    BY <1>1, <1>12
  <2>. QED  BY <2>1, <2>2, <2>3
<1>. QED  BY <1>1, <1>2, <1>11, <1>12 DEF Divides

-----------------------------------------------------------------------------
(***************************************************************************)
(* Calls and the bounds they are given                                     *)
(***************************************************************************)

\* A point of a sequence of calls is in the first or in one of the others.
LEMMA InHeadOrTail ==
  ASSUME NEW C, NEW s \in Seq(C), s # <<>>, NEW i, NEW k \in DOMAIN s, i \in s[k].pts
  PROVE  i \in Head(s).pts \/ \E j \in DOMAIN Tail(s) : i \in Tail(s)[j].pts
<1>1. CASE k = 1
  BY <1>1
<1>2. CASE k # 1
  <2>1. k - 1 \in DOMAIN Tail(s) /\ Tail(s)[k - 1] = s[k]
    BY <1>2
  <2>. QED  BY <2>1
<1>. QED  BY <1>1, <1>2

LEMMA InPushed ==
  ASSUME NEW C, NEW s \in Seq(C), NEW a \in C, NEW b \in C, NEW i,
         i \in a.pts \/ i \in b.pts \/ \E j \in DOMAIN s : i \in s[j].pts
  PROVE  \E j \in DOMAIN (<<a, b>> \o s) : i \in (<<a, b>> \o s)[j].pts
<1> DEFINE t == <<a, b>> \o s
<1>1. Len(t) = Len(s) + 2 /\ DOMAIN t = 1 .. Len(t) /\ Len(s) \in Nat /\ DOMAIN s = 1 .. Len(s)
  OBVIOUS
<1>2. t[1] = a /\ t[2] = b /\ \A j \in DOMAIN s : t[j + 2] = s[j]
  OBVIOUS
<1>. HIDE DEF t
<1>3. 1 \in DOMAIN t /\ 2 \in DOMAIN t /\ \A j \in DOMAIN s : j + 2 \in DOMAIN t
  BY <1>1
<1>4. \E j \in DOMAIN t : i \in t[j].pts
  BY <1>2, <1>3
<1>. QED  BY <1>4 DEF t

\* The distance to the box of all points is a bound for each of them.
LEMMA InitialIsBound ==
  ASSUME cloud \in Seq(Positions), NEW q \in Positions, NEW d \in Dims, Points # {}
  PROVE  /\ InitialDist(q, d) \in Int
         /\ \A i \in Points : InitialDist(q, d) <= Unit * Square(q[d] - cloud[i][d])
<1>1. /\ Low(Points, d) \in Int /\ High(Points, d) \in Int
      /\ \A i \in Points : /\ cloud[i][d] \in Int
                           /\ Low(Points, d) <= cloud[i][d] /\ cloud[i][d] <= High(Points, d)
  BY Edges
<1>2. q[d] \in Int
  BY Coordinates
<1>3. CASE q[d] < Low(Points, d)
  <2>1. InitialDist(q, d) = AccumDist(q[d], Low(Points, d), d)
    BY <1>3 DEF InitialDist
  <2>2. \A i \in Points : q[d] <= Low(Points, d) /\ Low(Points, d) <= cloud[i][d]
    BY <1>1, <1>2, <1>3
  <2>. QED  BY <1>1, <1>2, <2>1, <2>2, EdgeIsBound
<1>4. CASE q[d] > High(Points, d)
  <2>1. InitialDist(q, d) = AccumDist(q[d], High(Points, d), d)
    <3>1. ~(q[d] < Low(Points, d))
      BY <1>1, <1>2, <1>4
    <3>. QED  BY <1>4, <3>1 DEF InitialDist
  <2>2. \A i \in Points : cloud[i][d] <= High(Points, d) /\ High(Points, d) <= q[d]
    BY <1>1, <1>2, <1>4
  <2>. QED  BY <1>1, <1>2, <2>1, <2>2, EdgeIsBound
<1>5. CASE ~(q[d] < Low(Points, d)) /\ ~(q[d] > High(Points, d))
  <2>1. InitialDist(q, d) = 0
    BY <1>5 DEF InitialDist
  <2>2. ASSUME NEW i \in Points
        PROVE  Unit * Square(q[d] - cloud[i][d]) \in Nat
    <3>1. q[d] - cloud[i][d] \in Int
      BY <1>1, <1>2
    <3>2. Square(q[d] - cloud[i][d]) \in Nat
      BY <3>1, SquareEven
    <3>3. Unit \in Nat
      BY KdAssumption
    <3>. QED  BY <3>2, <3>3, ProductGrows
  <2>. QED  BY <2>1, <2>2
<1>. QED  BY <1>3, <1>4, <1>5

\* A call's distances add up to a bound for the distance on the map.
LEMMA CallIsBound ==
  ASSUME cloud \in Seq(Positions), query \in Positions, NEW c \in Calls, NEW i \in c.pts
  PROVE  /\ i \in Points /\ MinDist(c) \in Int
         /\ Metric(query, cloud[i]) \in Nat /\ PlainDist(query, cloud[i]) \in Nat
         /\ Metric(query, cloud[i]) <= PlainDist(query, cloud[i])
         /\ MinDist(c) <= PlainDist(query, cloud[i])
<1>1. i \in Points /\ cloud[i] \in Positions
  <2>1. i \in Points
    BY DEF Calls, Parts
  <2>. QED  BY <2>1 DEF Points
<1>2. c.dists[1] \in Int /\ c.dists[2] \in Int
  BY DEF Calls, Dims
<1>3. /\ c.dists[1] <= Unit * Square(query[1] - cloud[i][1])
      /\ c.dists[2] <= Unit * Square(query[2] - cloud[i][2])
  BY DEF Calls, Dims
<1>4. /\ Unit * Square(query[1] - cloud[i][1]) \in Nat
      /\ Unit * Square(query[2] - cloud[i][2]) \in Nat
  <2>1. Unit \in Nat
    BY KdAssumption
  <2>2. /\ Square(query[1] - cloud[i][1]) \in Nat
        /\ Square(query[2] - cloud[i][2]) \in Nat
    <3>1. query[1] \in Int /\ query[2] \in Int
      BY Coordinates
    <3>2. cloud[i][1] \in Int /\ cloud[i][2] \in Int
      BY <1>1, Coordinates
    <3>3. query[1] - cloud[i][1] \in Int /\ query[2] - cloud[i][2] \in Int
      BY <3>1, <3>2
    <3>. QED  BY <3>3, SquareEven
  <2>. QED  BY <2>1, <2>2, ProductGrows
<1>5. /\ Metric(query, cloud[i]) \in Nat /\ PlainDist(query, cloud[i]) \in Nat
      /\ Metric(query, cloud[i]) <= PlainDist(query, cloud[i])
      /\ PlainDist(query, cloud[i])
           = Unit * Square(query[1] - cloud[i][1]) + Unit * Square(query[2] - cloud[i][2])
  BY <1>1, MetricBelowPlain
<1>6. MinDist(c) = c.dists[1] + c.dists[2]
  BY DEF MinDist
<1>. QED  BY <1>1, <1>2, <1>3, <1>4, <1>5, <1>6

\* The distance to the cut is a bound for the child that comes second.
LEMMA CutIsBound ==
  ASSUME cloud \in Seq(Positions), query \in Positions,
         NEW S, Divides(S, cut[S].dim, cut[S].left),
         NEW i \in IF LeftFirst(S) THEN S \ cut[S].left ELSE cut[S].left
  PROVE  /\ CutDist(S) \in Int
         /\ CutDist(S) <= Unit * Square(query[cut[S].dim] - cloud[i][cut[S].dim])
<1> DEFINE d == cut[S].dim
           L == cut[S].left
           R == S \ L
<1>1. /\ d \in Dims /\ L \in SUBSET Points /\ L # {} /\ R \in SUBSET Points /\ R # {}
      /\ \A l \in L : \A r \in R : cloud[l][d] <= cloud[r][d]
  BY DEF Divides
<1>2. Children(S).left = L /\ Children(S).right = R /\ Children(S).dim = d
  BY DEF Children
<1>. HIDE DEF d, L, R
<1>3. /\ High(L, d) \in Int /\ Low(R, d) \in Int
      /\ \A j \in L : cloud[j][d] \in Int /\ cloud[j][d] <= High(L, d)
      /\ \A j \in R : cloud[j][d] \in Int /\ Low(R, d) <= cloud[j][d]
  BY <1>1, Edges
<1>4. High(L, d) <= Low(R, d)
  <2>1. PICK l \in L : cloud[l][d] = High(L, d)
    BY <1>1, Edges
  <2>2. PICK r \in R : cloud[r][d] = Low(R, d)
    BY <1>1, Edges
  <2>. QED  BY <1>1, <2>1, <2>2
<1>5. query[d] \in Int
  BY <1>1, Coordinates
<1>6. LeftFirst(S) <=> 2 * query[d] < High(L, d) + Low(R, d)
  BY <1>2 DEF LeftFirst
<1>7. CutDist(S) = AccumDist(query[d], IF LeftFirst(S) THEN Low(R, d) ELSE High(L, d), d)
  BY <1>2 DEF CutDist
<1>8. CASE LeftFirst(S)
  <2>1. i \in R
    BY <1>8 DEF R, L
  <2>2. query[d] <= Low(R, d) /\ Low(R, d) <= cloud[i][d] /\ cloud[i][d] \in Int
    BY <1>3, <1>4, <1>5, <1>6, <1>8, <2>1
  <2>3. CutDist(S) = AccumDist(query[d], Low(R, d), d)
    BY <1>7, <1>8
  <2>4. CutDist(S) \in Int /\ CutDist(S) <= Unit * Square(query[d] - cloud[i][d])
    BY <1>1, <1>3, <1>5, <2>2, <2>3, EdgeIsBound
  <2>. QED  BY <2>4 DEF d
<1>9. CASE ~LeftFirst(S)
  <2>1. i \in L
    BY <1>9 DEF L
  <2>2. cloud[i][d] <= High(L, d) /\ High(L, d) <= query[d] /\ cloud[i][d] \in Int
    BY <1>3, <1>4, <1>5, <1>6, <1>9, <2>1
  <2>3. CutDist(S) = AccumDist(query[d], High(L, d), d)
    BY <1>7, <1>9
  <2>4. CutDist(S) \in Int /\ CutDist(S) <= Unit * Square(query[d] - cloud[i][d])
    BY <1>1, <1>3, <1>5, <2>2, <2>3, EdgeIsBound
  <2>. QED  BY <2>4 DEF d
<1>. QED  BY <1>8, <1>9

-----------------------------------------------------------------------------
(***************************************************************************)
(* The invariant is inductive                                              *)
(***************************************************************************)

LEMMA KdInitInv == KdInit => KdInv
<1>. SUFFICES ASSUME NoTree  PROVE KdInv
  BY DEF KdInit
<1>1. cloud \in Seq(Positions) /\ todo \in Seq(Nodes) /\ open \in Seq(Calls)
  BY DEF NoTree
<1>2. DOMAIN cut = {}
  BY DEF NoTree
<1>3. <<0, 0>> \in Positions /\ FarAway \in Int
  BY KdAssumption DEF Positions, Latitudes
<1>. QED  BY <1>1, <1>2, <1>3 DEF NoTree, KdInv, TreeInv, SearchInv, RadiusInv, NearestInv

LEMMA PointsExist ==
  cloud \in Seq(Positions) /\ cloud # <<>> => Points # {}
<1>. SUFFICES ASSUME cloud \in Seq(Positions), cloud # <<>>  PROVE 1 \in DOMAIN cloud
  BY DEF Points
<1>1. Len(cloud) \in Nat /\ Len(cloud) # 0 /\ DOMAIN cloud = 1 .. Len(cloud)
  OBVIOUS
<1>. QED  BY <1>1

\* The root is a node.
LEMMA RootIsNode == cloud \in Seq(Positions) => Root \in Seq(Nodes)
<1>. SUFFICES ASSUME cloud \in Seq(Positions), cloud # <<>>  PROVE Root \in Seq(Nodes)
  BY DEF Root
<1>1. Points \in SUBSET Points /\ Points # {} /\ Points \in Parts
  BY PointsExist DEF Parts
<1>2. BoxOf(Points) \in Boxes
  <2>1. \A d \in Dims : Low(Points, d) \in Int /\ High(Points, d) \in Int
    BY <1>1, Edges
  <2>. QED  BY <2>1 DEF BoxOf, Boxes
<1>3. Node(Points, BoxOf(Points)) \in Nodes
  BY <1>1, <1>2 DEF Node, Nodes
<1>. QED  BY <1>3 DEF Root

\* A cloud is indexed once, before anything is searched.
LEMMA BuildIndexInv ==
  ASSUME ArePositions, KdInv, cloud = <<>>, NEW c \in Clouds, BuildIndex(c)
  PROVE  KdInv'
<1>1. goal = "none" /\ open = <<>>
  BY DEF KdInv, SearchInv
<1>2. /\ cloud' = c /\ todo' = Root' /\ DOMAIN cut' = {}
      /\ query' = query /\ goal' = goal /\ open' = open /\ found' = found /\ best' = best
  BY DEF BuildIndex, search
<1>3. cloud' \in Seq(Positions)
  BY <1>2 DEF ArePositions
<1>4. todo' \in Seq(Nodes)'
  <2>1. (cloud \in Seq(Positions) => Root \in Seq(Nodes))'
    BY RootIsNode, PTL
  <2>. QED  BY <1>2, <1>3, <2>1
<1>5. TreeInv'
  BY <1>2, <1>3, <1>4 DEF TreeInv
<1>6. SearchInv'
  BY <1>1, <1>2 DEF KdInv, SearchInv
<1>. QED  BY <1>1, <1>2, <1>5, <1>6 DEF KdInv, RadiusInv, NearestInv

\* A search begins with one call for all points.
LEMMA FindNeighborsInv ==
  ASSUME KdInv, NEW q \in Positions, NEW g \in {"radius", "nearest"}, FindNeighbors(q, g),
         g = "nearest" => \A i \in Points : PlainDist(q, cloud[i]) < FarAway
  PROVE  KdInv'
<1> DEFINE call == Call(Points, [d \in Dims |-> InitialDist(q, d)], TRUE)
<1>1. /\ cloud # <<>> /\ cloud' = cloud /\ todo' = todo /\ cut' = cut
      /\ query' = q /\ goal' = g /\ open' = <<call>> /\ found' = {} /\ best' = FarAway
  BY DEF FindNeighbors, tree
<1>2. cloud \in Seq(Positions) /\ Points # {} /\ Points' = Points
  BY <1>1, PointsExist DEF KdInv, TreeInv, Points
<1>3. call \in Calls'
  <2>1. \A d \in Dims : /\ InitialDist(q, d) \in Int
                        /\ \A i \in Points :
                             InitialDist(q, d) <= Unit * Square(q[d] - cloud[i][d])
    BY <1>2, InitialIsBound
  <2>2. /\ call.pts = Points /\ call.dists = [d \in Dims |-> InitialDist(q, d)]
        /\ call.must = TRUE
        /\ call = [pts |-> call.pts, dists |-> call.dists, must |-> call.must]
    BY DEF Call
  <2>3. Points \in Parts /\ [d \in Dims |-> InitialDist(q, d)] \in [Dims -> Int]
    BY <1>2, <2>1 DEF Parts
  <2>. HIDE DEF call
  <2>5. call \in [pts : Parts, dists : [Dims -> Int], must : BOOLEAN]
    BY <2>2, <2>3
  <2>4. \A d \in Dims : \A i \in call.pts :
          call.dists[d] <= Unit * Square(query'[d] - cloud'[i][d])
    BY <1>1, <2>1, <2>2
  <2>. QED  BY <1>2, <2>4, <2>5 DEF Calls, Parts
<1>4. TreeInv'
  BY <1>1 DEF KdInv, TreeInv, Nodes, Parts, Divides, Points
<1>5. SearchInv'
  <2>. HIDE DEF call
  <2>. QED  BY <1>1, <1>3, KdAssumption DEF SearchInv
<1>6. \A i \in Points' : Pending(i)'
  <2>1. call.pts = Points
    BY DEF Call
  <2>. HIDE DEF call
  <2>2. \A i \in Points : 1 \in DOMAIN open' /\ i \in open'[1].pts
    BY <1>1, <2>1
  <2>. QED  BY <1>2, <2>2 DEF Pending
<1>7. RadiusInv'
  BY <1>1, <1>6 DEF RadiusInv
<1>8. NearestInv'
  BY <1>1, <1>2, <1>6 DEF NearestInv, PlainDist
<1>. QED  BY <1>4, <1>5, <1>7, <1>8 DEF KdInv

\* Whatever leaves the cloud, the query and the search alone keeps what was
\* found.
LEMMA SearchUntouched ==
  ASSUME KdInv, cloud' = cloud, UNCHANGED search
  PROVE  SearchInv' /\ RadiusInv' /\ NearestInv'
BY DEF KdInv, search, SearchInv, RadiusInv, NearestInv, Calls, Parts, Points, Disc, Pending,
       PlainDist, Metric

LEMMA MakeLeafInv ==
  ASSUME KdInv, MakeLeaf
  PROVE  KdInv'
<1>1. cloud' = cloud /\ cut' = cut /\ todo' = Tail(todo) /\ todo # <<>> /\ UNCHANGED search
  BY DEF MakeLeaf
<1>2. todo' \in Seq(Nodes)
  BY <1>1 DEF KdInv, TreeInv
<1>3. TreeInv'
  BY <1>1, <1>2 DEF KdInv, TreeInv, Nodes, Parts, Divides, Points
<1>. QED  BY <1>1, <1>3, SearchUntouched DEF KdInv

LEMMA SplitInv ==
  ASSUME KdInv, Split
  PROVE  KdInv'
<1> DEFINE S   == Head(todo).pts
           box == Head(todo).box
           d   == CutDim(S, box)
           val == CutVal(S, box, d)
           low(L)  == Node(L, [box EXCEPT ![d][2] = val])
           high(L) == Node(S \ L, [box EXCEPT ![d][1] = val])
<1>1. PICK L \in LeftParts(S, d, val) :
        /\ todo' = <<low(L), high(L)>> \o Tail(todo)
        /\ cut' = [T \in DOMAIN cut \cup {S} |->
                     IF T = S THEN [dim |-> d, left |-> L] ELSE cut[T]]
  BY DEF Split
<1>2. todo # <<>> /\ Cardinality(S) > LeafMax /\ cloud' = cloud /\ UNCHANGED search
  BY DEF Split
<1>3. cloud \in Seq(Positions) /\ todo \in Seq(Nodes) /\ Head(todo) \in Nodes
  BY <1>2 DEF KdInv, TreeInv
<1>4. S \in SUBSET Points /\ S # {} /\ box \in Boxes
  BY <1>3 DEF Nodes, Parts
<1>. HIDE DEF S, box
<1>5. d \in Dims
  BY <1>3, <1>4, CutDimIsDim
<1>. HIDE DEF d
<1>6. val \in Int /\ Low(S, d) <= val /\ val <= High(S, d)
  BY <1>3, <1>4, <1>5, CutValInside
<1>. HIDE DEF val
<1>7. Divides(S, d, L)
  BY <1>1, <1>2, <1>3, <1>4, <1>5, <1>6, PartsDivide
<1>8. low(L) \in Nodes /\ high(L) \in Nodes
  <2>1. L \in Parts /\ S \ L \in Parts
    BY <1>7 DEF Divides, Parts
  <2>2. [box EXCEPT ![d][2] = val] \in Boxes /\ [box EXCEPT ![d][1] = val] \in Boxes
    BY <1>4, <1>5, <1>6 DEF Boxes
  <2>. QED  BY <2>1, <2>2 DEF Node, Nodes
<1>9. todo' \in Seq(Nodes)
  <2>. HIDE DEF low, high
  <2>. QED  BY <1>1, <1>2, <1>3, <1>8
<1>10. \A T \in DOMAIN cut' : Divides(T, cut'[T].dim, cut'[T].left)
  <2>. TAKE T \in DOMAIN cut'
  <2>1. CASE T = S
    <3>1. cut'[T].dim = d /\ cut'[T].left = L
      BY <1>1, <2>1
    <3>. QED  BY <1>7, <2>1, <3>1
  <2>2. CASE T # S
    <3>1. T \in DOMAIN cut /\ cut'[T] = cut[T]
      BY <1>1, <2>2
    <3>. QED  BY <3>1 DEF KdInv, TreeInv
  <2>. QED  BY <2>1, <2>2
<1>11. TreeInv'
  <2>1. Nodes' = Nodes
    BY <1>2 DEF Nodes, Parts, Points
  <2>2. (\A T \in DOMAIN cut : Divides(T, cut[T].dim, cut[T].left))'
    BY <1>2, <1>10 DEF Divides, Points
  <2>. QED  BY <1>2, <1>3, <1>9, <2>1, <2>2 DEF KdInv, TreeInv
<1>. QED  BY <1>2, <1>11, SearchUntouched DEF KdInv

\* The calls that remain when the first one has been made or skipped.
LEMMA RestOfCalls ==
  ASSUME SearchInv, open # <<>>, cloud' = cloud, query' = query, open' = Tail(open)
  PROVE  /\ Head(open) \in Calls
         /\ open' \in Seq(Calls)'
         /\ \A i : Pending(i) => i \in Head(open).pts \/ Pending(i)'
<1>1. open \in Seq(Calls) /\ Calls' = Calls
  BY DEF SearchInv, Calls, Parts, Points
<1>2. Head(open) \in Calls /\ Tail(open) \in Seq(Calls)
  BY <1>1
<1>3. ASSUME NEW i, Pending(i)
      PROVE  i \in Head(open).pts \/ Pending(i)'
  <2>1. PICK k \in DOMAIN open : i \in open[k].pts
    BY <1>3 DEF Pending
  <2>2. i \in Head(open).pts \/ \E j \in DOMAIN Tail(open) : i \in Tail(open)[j].pts
    BY <1>1, <2>1, InHeadOrTail
  <2>. QED  BY <2>2 DEF Pending
<1>. QED  BY <1>1, <1>2, <1>3

\* A call is skipped only if its points are too far away.
LEMMA SkipInv ==
  ASSUME KdInv, Skip
  PROVE  KdInv'
<1>1. /\ open # <<>> /\ ~Called(Head(open)) /\ open' = Tail(open)
      /\ cloud' = cloud /\ todo' = todo /\ cut' = cut
      /\ query' = query /\ goal' = goal /\ found' = found /\ best' = best
  BY DEF Skip, tree
<1>2. cloud \in Seq(Positions) /\ query \in Positions /\ best \in Int /\ Points' = Points
  BY <1>1 DEF KdInv, TreeInv, SearchInv, Points
<1>3. /\ Head(open) \in Calls /\ open' \in Seq(Calls)'
      /\ \A i : Pending(i) => i \in Head(open).pts \/ Pending(i)'
  BY <1>1, RestOfCalls DEF KdInv
<1>4. ASSUME NEW i \in Head(open).pts
      PROVE  PlainDist(query, cloud[i]) \in Nat /\ PlainDist(query, cloud[i]) > Worst
  <2>1. /\ MinDist(Head(open)) \in Int /\ PlainDist(query, cloud[i]) \in Nat
        /\ MinDist(Head(open)) <= PlainDist(query, cloud[i])
    BY <1>2, <1>3, <1>4, CallIsBound
  <2>2. ~(MinDist(Head(open)) <= Worst)
    BY <1>1 DEF Called
  <2>3. Worst \in Int
    BY <1>2, KdAssumption DEF Worst
  <2>. QED  BY <2>1, <2>2, <2>3
<1>5. TreeInv'
  BY <1>1 DEF KdInv, TreeInv, Nodes, Parts, Divides, Points
<1>6. SearchInv'
  <2>1. goal # "none"
    BY <1>1 DEF KdInv, SearchInv
  <2>. QED  BY <1>1, <1>3, <2>1 DEF KdInv, SearchInv
<1>7. RadiusInv'
  <2>. SUFFICES ASSUME goal = "radius"  PROVE RadiusInv'
    BY <1>1 DEF RadiusInv
  <2>1. found' \subseteq Disc'
    BY <1>1 DEF KdInv, RadiusInv, Disc, Points, Metric
  <2>2. ASSUME NEW i \in Points, PlainDist(query, cloud[i]) < Radius2
        PROVE  i \in found \/ Pending(i)'
    <3>1. i \in found \/ Pending(i)
      BY <2>2 DEF KdInv, RadiusInv
    <3>2. i \notin Head(open).pts
      BY <1>4, <2>2, KdAssumption DEF Worst
    <3>. QED  BY <1>3, <3>1, <3>2
  <2>. QED  BY <1>1, <1>2, <2>1, <2>2 DEF RadiusInv, PlainDist
<1>8. NearestInv'
  <2>. SUFFICES ASSUME goal = "nearest"  PROVE NearestInv'
    BY <1>1 DEF NearestInv
  <2>1. ASSUME NEW i \in Points
        PROVE  best <= PlainDist(query, cloud[i]) \/ Pending(i)'
    <3>1. best <= PlainDist(query, cloud[i]) \/ Pending(i)
      BY DEF KdInv, NearestInv
    <3>2. i \in Head(open).pts => best <= PlainDist(query, cloud[i])
      BY <1>2, <1>4 DEF Worst
    <3>. QED  BY <1>3, <3>1, <3>2
  <2>. QED  BY <1>1, <1>2, <2>1 DEF KdInv, NearestInv, PlainDist, Metric
<1>. QED  BY <1>5, <1>6, <1>7, <1>8 DEF KdInv

\* A leaf deals with all its points.
LEMMA ScanLeafInv ==
  ASSUME KdInv, ScanLeaf
  PROVE  KdInv'
<1> DEFINE S    == Head(open).pts
           dist == [i \in S |-> Metric(query, cloud[i])]
           D    == {dist[i] : i \in DOMAIN dist}
<1>1. /\ open # <<>> /\ open' = Tail(open)
      /\ cloud' = cloud /\ todo' = todo /\ cut' = cut /\ query' = query /\ goal' = goal
  BY DEF ScanLeaf, tree
<1>2. IF goal = "radius"
      THEN found' = found \cup {i \in S : Metric(query, cloud[i]) < Radius2} /\ best' = best
      ELSE best' = Min({best} \cup D) /\ found' = found
  BY DEF ScanLeaf
<1>3. cloud \in Seq(Positions) /\ query \in Positions /\ best \in Int /\ Points' = Points
  BY <1>1 DEF KdInv, TreeInv, SearchInv, Points
<1>4. /\ Head(open) \in Calls /\ open' \in Seq(Calls)'
      /\ \A i : Pending(i) => i \in S \/ Pending(i)'
  BY <1>1, RestOfCalls DEF KdInv
<1>5. \A i \in S :
        /\ i \in Points
        /\ Metric(query, cloud[i]) \in Nat /\ PlainDist(query, cloud[i]) \in Nat
        /\ Metric(query, cloud[i]) <= PlainDist(query, cloud[i])
  BY <1>3, <1>4, CallIsBound
<1>6. S \in SUBSET Points /\ S # {}
  BY <1>4 DEF Calls, Parts
<1>7. goal # "none"
  BY <1>1 DEF KdInv, SearchInv
<1>8. TreeInv'
  BY <1>1 DEF KdInv, TreeInv, Nodes, Parts, Divides, Points
<1>. HIDE DEF S
<1>9. CASE goal = "radius"
  <2>1. found' = found \cup {i \in S : Metric(query, cloud[i]) < Radius2} /\ best' = best
    BY <1>2, <1>9
  <2>2. SearchInv'
    BY <1>1, <1>4, <1>7, <2>1 DEF KdInv, SearchInv
  <2>3. found' \subseteq Disc'
    BY <1>1, <1>5, <1>9, <2>1 DEF KdInv, RadiusInv, Disc, Points, Metric
  <2>4. ASSUME NEW i \in Points, PlainDist(query, cloud[i]) < Radius2
        PROVE  i \in found' \/ Pending(i)'
    <3>1. i \in found \/ Pending(i)
      BY <1>9, <2>4 DEF KdInv, RadiusInv
    <3>2. i \in S => Metric(query, cloud[i]) < Radius2
      BY <1>5, <2>4, KdAssumption
    <3>. QED  BY <1>4, <2>1, <3>1, <3>2
  <2>5. RadiusInv'
    BY <1>1, <1>3, <2>3, <2>4 DEF RadiusInv, PlainDist
  <2>6. NearestInv'
    BY <1>1, <1>9 DEF NearestInv
  <2>. QED  BY <1>8, <2>2, <2>5, <2>6 DEF KdInv
<1>10. CASE goal = "nearest"
  <2>1. best' = Min({best} \cup D) /\ found' = found
    BY <1>2, <1>10
  <2>2. D = {Metric(query, cloud[i]) : i \in S}
    OBVIOUS
  <2>3. IsFiniteSet({best} \cup D)
    <3>1. IsFiniteSet(S)
      <4>1. S # {} /\ 1 \in Dims
        BY <1>6 DEF Dims
      <4>. QED  BY <1>3, <1>6, <4>1, Edges
    <3>2. dist \in Surjection(S, D)
      BY DEF Surjection
    <3>3. IsFiniteSet(D)
      <4>. HIDE DEF dist, D
      <4>. QED  BY <3>1, <3>2, FS_Surjection
    <3>. HIDE DEF D
    <3>4. IsFiniteSet(D \cup {best}) /\ D \cup {best} = {best} \cup D
      BY <3>3, FS_AddElement
    <3>. QED  BY <3>4
  <2>. HIDE DEF dist, D
  <2>4. {best} \cup D \subseteq Int /\ {best} \cup D # {}
    BY <1>3, <1>5, <2>2
  <2>5. best' \in {best} \cup D /\ \A y \in {best} \cup D : best' <= y
    BY <2>1, <2>3, <2>4, MinExists
  <2>6. best' \in Int
    BY <2>4, <2>5
  <2>7. SearchInv'
    BY <1>1, <1>4, <1>7, <2>6 DEF KdInv, SearchInv
  <2>8. best' = FarAway \/ \E i \in Points : best' = Metric(query, cloud[i])
    <3>1. best' = best \/ \E i \in S : best' = Metric(query, cloud[i])
      BY <2>2, <2>5
    <3>2. best = FarAway \/ \E i \in Points : best = Metric(query, cloud[i])
      BY <1>10 DEF KdInv, NearestInv
    <3>. QED  BY <1>6, <3>1, <3>2
  <2>9. ASSUME NEW i \in Points
        PROVE  best' <= PlainDist(query, cloud[i]) \/ Pending(i)'
    <3>1. PlainDist(query, cloud[i]) \in Nat
      <4>1. cloud[i] \in Positions
        BY <1>3 DEF Points
      <4>. QED  BY <1>3, <4>1, MetricBelowPlain
    <3>2. best <= PlainDist(query, cloud[i]) \/ Pending(i)
      BY <1>10 DEF KdInv, NearestInv
    <3>3. CASE best <= PlainDist(query, cloud[i])
      <4>1. best' <= best
        BY <2>5
      <4>. QED  BY <1>3, <2>6, <3>1, <3>3, <4>1
    <3>4. CASE i \in S
      <4>1. best' <= Metric(query, cloud[i])
        BY <2>2, <2>5, <3>4
      <4>. QED  BY <1>5, <2>6, <3>4, <4>1
    <3>. QED  BY <1>4, <3>2, <3>3, <3>4
  <2>10. NearestInv'
    BY <1>1, <1>3, <1>10, <2>8, <2>9 DEF KdInv, NearestInv, PlainDist, Metric
  <2>11. RadiusInv'
    BY <1>1, <1>10 DEF RadiusInv
  <2>. QED  BY <1>8, <2>7, <2>10, <2>11 DEF KdInv
<1>. QED  BY <1>7, <1>9, <1>10 DEF KdInv, SearchInv

\* Both children are called in the place of their parent.
LEMMA DescendInv ==
  ASSUME KdInv, Descend
  PROVE  KdInv'
<1> DEFINE S      == Head(open).pts
           L      == cut[S].left
           d      == cut[S].dim
           dists  == Head(open).dists
           nearer == IF LeftFirst(S) THEN L ELSE S \ L
           first  == Call(nearer, dists, TRUE)
           second == Call(S \ nearer, Farther(dists, d, CutDist(S)), FALSE)
<1>1. /\ open # <<>> /\ S \in DOMAIN cut /\ open' = <<first, second>> \o Tail(open)
      /\ cloud' = cloud /\ todo' = todo /\ cut' = cut
      /\ query' = query /\ goal' = goal /\ found' = found /\ best' = best
  BY DEF Descend, Children, tree
<1>2. /\ cloud \in Seq(Positions) /\ query \in Positions /\ Points' = Points
      /\ Calls' = Calls /\ open \in Seq(Calls)
  BY <1>1 DEF KdInv, TreeInv, SearchInv, Points, Calls, Parts
<1>3. Head(open) \in Calls /\ Tail(open) \in Seq(Calls)
  BY <1>1, <1>2
<1>4. Divides(S, d, L)
  BY <1>1 DEF KdInv, TreeInv
<1>5. /\ S \in SUBSET Points /\ dists \in [Dims -> Int]
      /\ \A e \in Dims : \A i \in S : dists[e] <= Unit * Square(query[e] - cloud[i][e])
  BY <1>3 DEF Calls, Parts
<1>6. /\ nearer \in Parts /\ S \ nearer \in Parts /\ nearer \subseteq S /\ d \in Dims
      /\ \A i \in S : i \in nearer \/ i \in S \ nearer
  BY <1>4 DEF Divides, Parts
<1>7. S \ nearer = IF LeftFirst(S) THEN S \ L ELSE L
  BY <1>4 DEF Divides
<1>8. \A i \in S \ nearer :
        CutDist(S) \in Int /\ CutDist(S) <= Unit * Square(query[d] - cloud[i][d])
  BY <1>2, <1>4, <1>7, CutIsBound
<1>9. CutDist(S) \in Int
  BY <1>6, <1>8 DEF Parts
<1>. HIDE DEF S, L, d, dists, nearer
<1>10. first \in Calls
  <2>1. first = [pts |-> nearer, dists |-> dists, must |-> TRUE]
    BY DEF Call
  <2>. HIDE DEF first
  <2>2. first \in [pts : Parts, dists : [Dims -> Int], must : BOOLEAN]
    BY <1>5, <1>6, <2>1
  <2>3. first.pts = nearer /\ first.dists = dists
    BY <2>1
  <2>4. \A e \in Dims : \A i \in nearer : dists[e] <= Unit * Square(query[e] - cloud[i][e])
    BY <1>5, <1>6
  <2>. QED  BY <2>2, <2>3, <2>4 DEF Calls
<1>11. second \in Calls
  <2> DEFINE further == [dists EXCEPT ![d] = CutDist(S)]
  <2>1. second = [pts |-> S \ nearer, dists |-> further, must |-> FALSE]
    BY DEF Call, Farther
  <2>2. further \in [Dims -> Int]
    BY <1>5, <1>6, <1>9
  <2>3. \A e \in Dims : further[e] = IF e = d THEN CutDist(S) ELSE dists[e]
    BY <1>5
  <2>. HIDE DEF further, second
  <2>4. second \in [pts : Parts, dists : [Dims -> Int], must : BOOLEAN]
    BY <1>6, <2>1, <2>2
  <2>5. ASSUME NEW e \in Dims, NEW i \in S \ nearer
        PROVE  further[e] <= Unit * Square(query[e] - cloud[i][e])
    <3>1. CASE e = d
      BY <1>8, <2>3, <3>1
    <3>2. CASE e # d
      BY <1>5, <2>3, <3>2
    <3>. QED  BY <3>1, <3>2
  <2>6. second.pts = S \ nearer /\ second.dists = further
    BY <2>1
  <2>. QED  BY <2>4, <2>5, <2>6 DEF Calls
<1>12. first.pts = nearer /\ second.pts = S \ nearer
  BY DEF Call
<1>. HIDE DEF first, second
<1>13. open' \in Seq(Calls)
  BY <1>1, <1>3, <1>10, <1>11
<1>14. ASSUME NEW i, Pending(i)
       PROVE  Pending(i)'
  <2>1. PICK k \in DOMAIN open : i \in open[k].pts
    BY <1>14 DEF Pending
  <2>2. i \in S \/ \E j \in DOMAIN Tail(open) : i \in Tail(open)[j].pts
    BY <1>1, <1>2, <2>1, InHeadOrTail DEF S
  <2>3. i \in first.pts \/ i \in second.pts \/ \E j \in DOMAIN Tail(open) : i \in Tail(open)[j].pts
    BY <1>6, <1>12, <2>2
  <2>4. \E j \in DOMAIN (<<first, second>> \o Tail(open)) :
          i \in (<<first, second>> \o Tail(open))[j].pts
    BY <1>3, <1>10, <1>11, <2>3, InPushed
  <2>. QED  BY <1>1, <2>4 DEF Pending
<1>15. TreeInv'
  BY <1>1 DEF KdInv, TreeInv, Nodes, Parts, Divides, Points
<1>16. SearchInv'
  <2>1. goal # "none"
    BY <1>1 DEF KdInv, SearchInv
  <2>. QED  BY <1>1, <1>2, <1>13, <2>1 DEF KdInv, SearchInv
<1>17. RadiusInv'
  BY <1>1, <1>2, <1>14 DEF KdInv, RadiusInv, Disc, PlainDist, Metric
<1>18. NearestInv'
  BY <1>1, <1>2, <1>14 DEF KdInv, NearestInv, PlainDist, Metric
<1>. QED  BY <1>15, <1>16, <1>17, <1>18 DEF KdInv

\* Longitudes brought into range leave positions what they are.
LEMMA ComputeNeighborsInv ==
  ASSUME ArePositions, KdInv, NEW q \in Targets, ComputeNeighbors(q)
  PROVE  KdInv'
<1>1. q \in Positions
  BY DEF ArePositions
<1>2. <<WrapLon(q[1]), q[2]>> \in Positions
  <2>1. HalfTurn \in Nat /\ HalfTurn > 0 /\ q[1] \in Int /\ q[2] \in Latitudes
    BY <1>1, KdAssumption DEF Positions
  <2>2. WrapLon(q[1]) \in Int
    BY <2>1 DEF WrapLon
  <2>. QED  BY <2>1, <2>2 DEF Positions
<1>3. FindNeighbors(<<WrapLon(q[1]), q[2]>>, "radius")
  BY DEF ComputeNeighbors
<1>. QED  BY <1>2, <1>3, FindNeighborsInv

LEMMA NearestPointInv ==
  ASSUME ArePositions, KdInv, NEW q \in Targets, NearestPoint(q)
  PROVE  KdInv'
<1>1. q \in Positions
  BY DEF ArePositions
<1>2. FindNeighbors(q, "nearest")
  BY DEF NearestPoint
<1>3. \A i \in Points : PlainDist(q, cloud[i]) < FarAway
  <2>1. cloud \in Clouds
    BY <1>2 DEF FindNeighbors, KdInv, TreeInv
  <2>. QED  BY <2>1 DEF ArePositions, Points
<1>. QED  BY <1>1, <1>2, <1>3, FindNeighborsInv

LEMMA KdStutterInv ==
  ASSUME KdInv, UNCHANGED kdVars
  PROVE  KdInv'
<1>1. cloud' = cloud /\ todo' = todo /\ cut' = cut /\ UNCHANGED search
  BY DEF kdVars, tree
<1>2. TreeInv'
  BY <1>1 DEF KdInv, TreeInv, Nodes, Parts, Divides, Points
<1>. QED  BY <1>1, <1>2, SearchUntouched DEF KdInv

\* Points are on the right sides of the divided nodes, calls have true bounds,
\* and no point is forgotten before it has been dealt with, in every build and
\* every search.
THEOREM SearchInvariance == ArePositions => (KdSpec => []KdInv)
<1>. SUFFICES ASSUME ArePositions  PROVE KdSpec => []KdInv
  OBVIOUS
<1>1. KdInv /\ [KdNext]_kdVars => KdInv'
  <2>. SUFFICES ASSUME KdInv, [KdNext]_kdVars  PROVE KdInv'
    OBVIOUS
  <2>1. CASE cloud = <<>> /\ \E c \in Clouds : BuildIndex(c)
    BY <2>1, BuildIndexInv
  <2>2. CASE MakeLeaf
    BY <2>2, MakeLeafInv
  <2>3. CASE Split
    BY <2>3, SplitInv
  <2>4. CASE Skip
    BY <2>4, SkipInv
  <2>5. CASE ScanLeaf
    BY <2>5, ScanLeafInv
  <2>6. CASE Descend
    BY <2>6, DescendInv
  <2>7. CASE \E q \in Targets : ComputeNeighbors(q)
    BY <2>7, ComputeNeighborsInv
  <2>8. CASE \E q \in Targets : NearestPoint(q)
    BY <2>8, NearestPointInv
  <2>9. CASE UNCHANGED kdVars
    BY <2>9, KdStutterInv
  <2>. QED  BY <2>1, <2>2, <2>3, <2>4, <2>5, <2>6, <2>7, <2>8, <2>9 DEF KdNext, KdStep
<1>. QED  BY <1>1, KdInitInv, PTL DEF KdSpec

-----------------------------------------------------------------------------
(***************************************************************************)
(* Theorems                                                                *)
(***************************************************************************)

\* A radius search finds every point within the radius on the map, and none
\* that the metric does not put within it, however points are distributed and
\* branches are skipped.
THEOREM NoNeighborLost == ArePositions => (KdSpec => []FindsTheDisc)
<1>1. KdInv => FindsTheDisc
  <2>. SUFFICES ASSUME KdInv, goal = "radius", open = <<>>
                PROVE  /\ {i \in Points : PlainDist(query, cloud[i]) < Radius2} \subseteq found
                       /\ found \subseteq Disc
    BY DEF FindsTheDisc, Searched
  <2>1. \A i : ~Pending(i)
    BY DEF Pending
  <2>. QED  BY <2>1 DEF KdInv, RadiusInv
<1>. QED  BY <1>1, SearchInvariance, PTL

\* A search for the nearest point returns the distance of some point, and none
\* is nearer on the map.
THEOREM NearestFound == ArePositions => (KdSpec => []NearestBetween)
<1>1. KdInv => NearestBetween
  <2>. SUFFICES ASSUME KdInv, goal = "nearest", open = <<>>
                PROVE  /\ \E i \in Points : best = Metric(query, cloud[i])
                       /\ \A i \in Points : best <= PlainDist(query, cloud[i])
    BY DEF NearestBetween, Searched
  <2>1. \A i : ~Pending(i)
    BY DEF Pending
  <2>2. \A i \in Points : best <= PlainDist(query, cloud[i])
    BY <2>1 DEF KdInv, NearestInv
  <2>3. cloud \in Seq(Positions) /\ query \in Positions /\ Points # {} /\ best \in Int
    BY PointsExist DEF KdInv, TreeInv, SearchInv
  <2>4. best # FarAway
    <3>1. PICK i \in Points : TRUE
      BY <2>3
    <3>2. cloud[i] \in Positions
      BY <2>3, <3>1 DEF Points
    <3>3. PlainDist(query, cloud[i]) \in Nat
      BY <2>3, <3>2, MetricBelowPlain
    <3>4. PlainDist(query, cloud[i]) < FarAway /\ best <= PlainDist(query, cloud[i])
      BY <2>2, <3>1 DEF KdInv, NearestInv
    <3>. QED  BY <2>3, <3>3, <3>4, KdAssumption
  <2>. QED  BY <2>2, <2>4 DEF KdInv, NearestInv
<1>. QED  BY <1>1, SearchInvariance, PTL

-----------------------------------------------------------------------------
(***************************************************************************)
(* Archives                                                                *)
(***************************************************************************)

LEMMA DaysAre ==
  /\ IsFiniteSet(Days) /\ Days \subseteq Int /\ NoDay \notin Days /\ NoDay \in Int
  /\ FirstDay \in Days /\ \A n \in Days : FirstDay <= n
  /\ MonthDays + 1 \in Days /\ -1 \in Days
<1>1. IsFiniteSet(Days)
  BY MonthAssumption, FS_Interval DEF Days
<1>2. Days \subseteq Int /\ -1 \in Days /\ MonthDays + 1 \in Days /\ NoDay \notin Days /\ NoDay \in Int
  BY MonthAssumption DEF Days, NoDay
<1>. QED  BY <1>1, <1>2, MinExists DEF FirstDay

LEMMA FilesAre ==
  ASSUME AreArchives, archive \in DOMAIN Archives, NEW d \in Domains
  PROVE  /\ NumPoints(d) \in Nat
         /\ \A n \in Days : IsFile(File(d, n), NumPoints(d))
<1>1. Archives[archive].lon[d] \in Seq(Int) /\ Archives[archive].lat[d] \in Seq(Int)
  BY DEF AreArchives
<1>2. \A m, n \in Nat : m * n \in Nat
  OBVIOUS
<1>3. NumPoints(d) \in Nat
  <2>1. Len(Archives[archive].lon[d]) \in Nat /\ Len(Archives[archive].lat[d]) \in Nat
    BY <1>1
  <2>. QED  BY <1>2, <2>1 DEF NumPoints, Archive
<1>. QED  BY <1>3 DEF AreArchives, NumPoints, Archive, File

\* The times of a file in seconds: as many, as different, and numbers.
LEMMA TimesAre ==
  ASSUME NEW f, f.times \in Seq(Int),
         \A i, j \in DOMAIN f.times : f.times[i] = f.times[j] => i = j
  PROVE  /\ DOMAIN TimesOf(f) = 1 .. Len(f.times) /\ DOMAIN f.times = 1 .. Len(f.times)
         /\ Len(f.times) \in Nat
         /\ \A i \in DOMAIN TimesOf(f) : TimesOf(f)[i] \in Int
         /\ \A i, j \in DOMAIN TimesOf(f) : TimesOf(f)[i] = TimesOf(f)[j] => i = j
         /\ IsFiniteSet(ToSet(TimesOf(f))) /\ ToSet(TimesOf(f)) \subseteq Int
<1>1. Seconds(f.unit) \in {1, 3600, 86400}
  BY DEF Seconds
<1>2. DOMAIN f.times = 1 .. Len(f.times) /\ Len(f.times) \in Nat /\ \A i \in DOMAIN f.times : f.times[i] \in Int
  OBVIOUS
<1>3. DOMAIN TimesOf(f) = DOMAIN f.times /\ \A i \in DOMAIN f.times : TimesOf(f)[i] = f.times[i] * Seconds(f.unit)
  BY DEF TimesOf
<1>4. \A i \in DOMAIN f.times : TimesOf(f)[i] \in Int
  BY <1>1, <1>2, <1>3
<1>5. \A i, j \in DOMAIN f.times : TimesOf(f)[i] = TimesOf(f)[j] => i = j
  <2>1. \A x, y \in Int : x * Seconds(f.unit) = y * Seconds(f.unit) => x = y
    BY <1>1
  <2>. QED  BY <1>2, <1>3, <2>1
<1>6. IsFiniteSet(ToSet(TimesOf(f)))
  <2>1. IsFiniteSet(DOMAIN TimesOf(f))
    BY <1>2, <1>3, FS_Interval
  <2>2. TimesOf(f) \in Surjection(DOMAIN TimesOf(f), ToSet(TimesOf(f)))
    BY DEF Surjection, ToSet, TimesOf
  <2>. QED  BY <2>1, <2>2, FS_Surjection
<1>7. ToSet(TimesOf(f)) \subseteq Int
  BY <1>3, <1>4 DEF ToSet
<1>. QED  BY <1>2, <1>3, <1>4, <1>5, <1>6, <1>7

LEMMA AllTimesAre ==
  ASSUME AreArchives, archive \in DOMAIN Archives
  PROVE  /\ IsFiniteSet(AllTimes) /\ AllTimes \subseteq Int
         /\ \A d \in Domains, n \in Days : ToSet(TimesOf(File(d, n))) \subseteq AllTimes
<1> DEFINE All  == {ToSet(TimesOf(File(d, n))) : d \in Domains, n \in Days}
           Pick == [p \in Domains \X Days |-> ToSet(TimesOf(File(p[1], p[2])))]
<1>1. \A T \in All : IsFiniteSet(T) /\ T \subseteq Int
  <2>. SUFFICES ASSUME NEW d \in Domains, NEW n \in Days
                PROVE  IsFiniteSet(ToSet(TimesOf(File(d, n)))) /\ ToSet(TimesOf(File(d, n))) \subseteq Int
    OBVIOUS
  <2>1. IsFile(File(d, n), NumPoints(d))
    BY FilesAre
  <2>. QED  BY <2>1, TimesAre DEF IsFile
<1>2. IsFiniteSet(All)
  <2>1. IsFiniteSet(Domains)
    <3>1. IsFiniteSet({1}) /\ Domains = {1} \cup {2}
      BY FS_Singleton DEF Domains
    <3>. QED  BY <3>1, FS_AddElement
  <2>2. IsFiniteSet(Domains \X Days)
    BY <2>1, DaysAre, FS_Product
  <2>3. Pick \in Surjection(Domains \X Days, All)
    <3>1. Pick \in [Domains \X Days -> All]
      OBVIOUS
    <3>2. \A T \in All : \E p \in Domains \X Days : Pick[p] = T
      <4>. SUFFICES ASSUME NEW d \in Domains, NEW n \in Days
                    PROVE  \E p \in Domains \X Days : Pick[p] = ToSet(TimesOf(File(d, n)))
        OBVIOUS
      <4>1. <<d, n>> \in Domains \X Days /\ Pick[<<d, n>>] = ToSet(TimesOf(File(d, n)))
        OBVIOUS
      <4>. QED  BY <4>1
    <3>. HIDE DEF Pick, All
    <3>. QED  BY <3>1, <3>2 DEF Surjection
  <2>. HIDE DEF Pick, All
  <2>. QED  BY <2>2, <2>3, FS_Surjection
<1>3. AllTimes = UNION All
  BY DEF AllTimes
<1>4. IsFiniteSet(UNION All) /\ UNION All \subseteq Int
  <2>. HIDE DEF All
  <2>. QED  BY <1>1, <1>2, FS_UNION
<1>. QED  BY <1>3, <1>4

-----------------------------------------------------------------------------
(***************************************************************************)
(* Numbers in order                                                        *)
(***************************************************************************)

\* Of a set of n numbers there is just one of each rank up to n.
LEMMA Ranks ==
  ASSUME NEW S, IsFiniteSet(S), S \subseteq Int
  PROVE  /\ Cardinality(S) \in Nat
         /\ \A k \in S : Rank(k, S) \in 1 .. Cardinality(S)
         /\ \A k, m \in S : k < m => Rank(k, S) < Rank(m, S)
         /\ \A j \in 1 .. Cardinality(S) : \E k \in S : Rank(k, S) = j
<1> DEFINE Upto(k) == {i \in S : i <= k}
<1>1. Cardinality(S) \in Nat
  BY FS_CardinalityType
<1>2. \A k \in S : /\ IsFiniteSet(Upto(k)) /\ Cardinality(Upto(k)) \in Nat
                   /\ Cardinality(Upto(k)) <= Cardinality(S) /\ Rank(k, S) = Cardinality(Upto(k))
  <2>. SUFFICES ASSUME NEW k \in S
                PROVE  /\ IsFiniteSet(Upto(k)) /\ Cardinality(Upto(k)) \in Nat
                       /\ Cardinality(Upto(k)) <= Cardinality(S) /\ Rank(k, S) = Cardinality(Upto(k))
    OBVIOUS
  <2>1. Upto(k) \in SUBSET S /\ Rank(k, S) = Cardinality(Upto(k))
    BY DEF Rank
  <2>. HIDE DEF Upto
  <2>. QED  BY <2>1, FS_Subset, FS_CardinalityType
<1>3. \A k \in S : Rank(k, S) \in 1 .. Cardinality(S)
  <2>. SUFFICES ASSUME NEW k \in S  PROVE Rank(k, S) \in 1 .. Cardinality(S)
    OBVIOUS
  <2>1. k \in Upto(k)
    OBVIOUS
  <2>2. Cardinality(Upto(k)) # 0
    <3>. HIDE DEF Upto
    <3>. QED  BY <1>2, <2>1, FS_EmptySet
  <2>. HIDE DEF Upto
  <2>. QED  BY <1>1, <1>2, <2>2
<1>4. ASSUME NEW k \in S, NEW m \in S, k < m  PROVE Rank(k, S) < Rank(m, S)
  <2>1. Upto(k) \in SUBSET Upto(m) /\ m \in Upto(m) /\ m \notin Upto(k)
    <3>1. k \in Int /\ m \in Int /\ ~(m <= k) /\ m <= m
      BY <1>4
    <3>2. \A i \in S : i <= k => i <= m
      <4>1. \A i \in Int : i <= k => i <= m
        BY <1>4, <3>1
      <4>. QED  BY <4>1
    <3>. QED  BY <3>1, <3>2
  <2>. HIDE DEF Upto
  <2>2. Cardinality(Upto(k)) <= Cardinality(Upto(m)) /\ Cardinality(Upto(k)) # Cardinality(Upto(m))
    BY <1>2, <2>1, FS_Subset
  <2>. QED  BY <1>2, <2>2
<1>5. ASSUME NEW j \in 1 .. Cardinality(S)  PROVE \E k \in S : Rank(k, S) = j
  <2> DEFINE T == {k \in S : j <= Rank(k, S)}
  <2>1. IsFiniteSet(T) /\ T \subseteq Int
    <3>1. T \in SUBSET S
      OBVIOUS
    <3>. HIDE DEF T
    <3>. QED  BY <3>1, FS_Subset
  <2>2. T # {}
    <3>1. S # {}
      BY <1>1, FS_EmptySet
    <3>2. Max(S) \in S /\ \A i \in S : i <= Max(S)
      BY <3>1, MaxExists
    <3>3. Upto(Max(S)) = S
      BY <3>2
    <3>4. Rank(Max(S), S) = Cardinality(S)
      <4>. HIDE DEF Upto
      <4>. QED  BY <1>2, <3>2, <3>3
    <3>5. Max(S) \in T
      BY <1>1, <3>2, <3>4
    <3>. QED  BY <3>5
  <2>3. Min(T) \in T /\ \A i \in T : Min(T) <= i
    <3>. HIDE DEF T
    <3>. QED  BY <2>1, <2>2, MinExists
  <2> DEFINE k == Min(T)
             B == Upto(k) \ {k}
  <2>4. k \in S /\ j <= Rank(k, S) /\ k \in Int
    BY <2>3
  <2>5. IsFiniteSet(B) /\ Cardinality(B) = Rank(k, S) - 1
    <3>1. k \in Upto(k)
      <4>. HIDE DEF k
      <4>. QED  BY <2>4
    <3>. HIDE DEF Upto, k
    <3>. QED  BY <1>2, <2>4, <3>1, FS_RemoveElement
  <2>6. CASE B = {}
    <3>1. Rank(k, S) = 1
      <4>1. Cardinality(B) = 0
        BY <2>6, FS_EmptySet
      <4>2. Rank(k, S) \in Int
        BY <1>3, <2>4
      <4>. HIDE DEF k, B
      <4>. QED  BY <2>5, <4>1, <4>2
    <3>2. j = Rank(k, S)
      <4>. HIDE DEF k
      <4>. QED  BY <2>4, <3>1
    <3>. QED  BY <2>4, <3>2
  <2>7. CASE B # {}
    <3>1. B \subseteq Int
      OBVIOUS
    <3>2. Max(B) \in B /\ \A i \in B : i <= Max(B)
      <4>. HIDE DEF B
      <4>. QED  BY <2>5, <2>7, <3>1, MaxExists
    <3> DEFINE m == Max(B)
    <3>3. m \in S /\ m \in Int /\ m < k
      <4>1. m \in S /\ m <= k /\ m # k
        BY <3>2
      <4>. HIDE DEF m, k
      <4>. QED  BY <2>4, <4>1
    <3>4. m \notin T
      <4>. HIDE DEF T, m
      <4>. QED  BY <2>3, <2>4, <3>3
    <3>5. Upto(m) = B
      <4>1. \A i \in B : i <= m
        BY <3>2
      <4>2. \A i \in S : i <= m => i <= k /\ i # k
        <5>. HIDE DEF m, k
        <5>. QED  BY <2>4, <3>3
      <4>. HIDE DEF m, k
      <4>. QED  BY <4>1, <4>2
    <3>6. Rank(m, S) = Rank(k, S) - 1
      <4>. HIDE DEF Upto, B, m, k
      <4>. QED  BY <1>2, <2>5, <3>3, <3>5
    <3>7. Rank(m, S) < j
      <4>1. Rank(m, S) \in Int /\ j \in Int
        BY <1>3, <3>3
      <4>. HIDE DEF m
      <4>. QED  BY <3>3, <3>4, <4>1
    <3>8. Rank(k, S) = j
      <4>1. Rank(k, S) \in Int /\ j \in Int
        BY <1>3, <2>4
      <4>. HIDE DEF m, k
      <4>. QED  BY <2>4, <3>6, <3>7, <4>1
    <3>. QED  BY <2>4, <3>8
  <2>. QED  BY <2>6, <2>7
<1>. QED  BY <1>1, <1>3, <1>4, <1>5

\* The sequence has every number of the set at its rank.
LEMMA InOrderIs ==
  ASSUME NEW S, IsFiniteSet(S), S \subseteq Int
  PROVE  /\ Cardinality(S) \in Nat
         /\ InOrder(S) \in [1 .. Cardinality(S) -> S]
         /\ \A k \in S : Rank(k, S) \in 1 .. Cardinality(S) /\ InOrder(S)[Rank(k, S)] = k
         /\ \A j \in 1 .. Cardinality(S) : Rank(InOrder(S)[j], S) = j
<1>1. \A j \in 1 .. Cardinality(S) : InOrder(S)[j] \in S /\ Rank(InOrder(S)[j], S) = j
  <2>. TAKE j \in 1 .. Cardinality(S)
  <2>1. \E k \in S : Rank(k, S) = j
    BY Ranks
  <2>. QED  BY <2>1 DEF InOrder
<1>2. \A k, m \in S : Rank(k, S) = Rank(m, S) => k = m
  <2>. SUFFICES ASSUME NEW k \in S, NEW m \in S, Rank(k, S) = Rank(m, S)  PROVE k = m
    OBVIOUS
  <2>1. ~(k < m) /\ ~(m < k)
    <3>1. \A i \in S : Rank(i, S) \in Int
      <4>1. Cardinality(S) \in Nat /\ \A i \in S : Rank(i, S) \in 1 .. Cardinality(S)
        BY Ranks
      <4>. QED  BY <4>1
    <3>2. Rank(k, S) \in Int /\ ~(Rank(k, S) < Rank(m, S)) /\ ~(Rank(m, S) < Rank(k, S))
      BY <3>1
    <3>. QED  BY <3>2, Ranks
  <2>2. k \in Int /\ m \in Int
    OBVIOUS
  <2>. QED  BY <2>1, <2>2
<1>3. InOrder(S) = [j \in 1 .. Cardinality(S) |-> InOrder(S)[j]]
  BY DEF InOrder
<1>4. \A k \in S : Rank(k, S) \in 1 .. Cardinality(S)
  BY Ranks
<1>. QED  BY <1>1, <1>2, <1>3, <1>4, Ranks
-----------------------------------------------------------------------------
(***************************************************************************)
(* The inductive invariant                                                 *)
(***************************************************************************)

\* The days whose file the first pass could open and found to have time t.
Having(d, t) == {n \in seen[d] : t \in ToSet(TimesOf(File(d, n)))}
Latest(d, t) == IF Having(d, t) = {} THEN NoDay ELSE Max(Having(d, t))

Types ==
  /\ archive \in DOMAIN Archives
  /\ pc \in {"grid", "clouds", "scan", "load", "fill", "done", "built", "failed"}
  /\ sub \in Domains /\ day \in FirstDay .. MonthDays + 2
  /\ DOMAIN sea = Domains /\ \A d \in Domains : sea[d] \subseteq 1 .. NumPoints(d)
  /\ DOMAIN seen = Domains /\ \A d \in Domains : seen[d] \subseteq Days
  /\ DOMAIN got = Domains /\ DOMAIN source = Domains
  /\ DOMAIN series = Domains /\ \A d \in Domains : DOMAIN series[d] = Vars

\* Sub-domain d has still to be scanned, or has no series yet.
Fresh(d)    == got[d] = {} /\ \A v \in Vars : series[d][v] = <<>>
Untouched(d) == seen[d] = {} /\ Fresh(d)

\* One sub-domain after the other.
PhaseInv ==
  /\ pc \in {"grid", "clouds", "load"} => day = FirstDay
  /\ pc \in {"grid", "clouds"} => \A d \in Domains : Untouched(d)
  /\ pc = "clouds" => sub = 1
  /\ pc \in {"scan", "load"} /\ sub = 1 => Untouched(2)
  /\ pc = "scan" => Fresh(sub) /\ \A n \in seen[sub] : n < day
  /\ pc \in {"grid", "clouds", "scan", "load"} => start = 0
  /\ pc = "load" => unread \subseteq Known(sub)

\* Every time has the last of the files that have it.
SourceInv == \A d \in Domains : source[d] = [t \in AllTimes |-> Latest(d, t)]

\* What has been read of the series of sub-domain d.
Reading(d, v, j, i) ==
  IF AxisAt(d, i) \in got[d]
  THEN ValueIn(d, source[d][AxisAt(d, i)], v, AxisAt(d, i), SeaIndices(d)[j]) ELSE NaN
AsRead(d, v) == [j \in DOMAIN SeaIndices(d) |-> [i \in Indices(d) |-> Reading(d, v, j, i)]]

Loaded(d) ==
  \/ pc = "load" /\ d <= sub
  \/ pc = "scan" /\ d < sub
  \/ pc \in {"fill", "done", "built"}

LoadInv ==
  \A d \in Domains : Loaded(d) =>
    /\ Known(d) # {} /\ got[d] \subseteq Known(d)
    /\ \A t \in got[d] : Vars \subseteq DOMAIN File(d, source[d][t]).vars
    /\ \A v \in Vars : (IF pc \in {"scan", "load"} THEN series[d][v] ELSE raw[d][v]) = AsRead(d, v)

\* One series, of which the gaps below index s have been filled.
CompleteAt(y, x, i) ==
  CASE Behind(y, i) = {} /\ Ahead(y, i) = {} -> x[i] = 0
    [] Behind(y, i) = {} /\ Ahead(y, i) # {} -> x[i] = y[Min(Ahead(y, i))]
    [] Behind(y, i) # {} /\ Ahead(y, i) = {} -> x[i] = y[Max(Behind(y, i))]
    [] OTHER -> OnLine(y, x[i], i)
Partly(y, x, n, s) ==
  /\ s \in 0 .. n /\ (s = 0 \/ s = n \/ y[s] # NaN)
  /\ DOMAIN x = 0 .. n - 1
  /\ \A i \in 0 .. n - 1 : IF i < s THEN CompleteAt(y, x, i) ELSE x[i] = y[i]

FillInv ==
  pc = "fill" =>
    /\ gaps \subseteq UNION {{d} \X {v} \X DOMAIN raw[d][v] : d \in Domains, v \in Vars}
    /\ \A d \in Domains, v \in Vars : DOMAIN series[d][v] = DOMAIN raw[d][v]
    /\ \A d \in Domains, v \in Vars : \A j \in DOMAIN raw[d][v] :
         DOMAIN series[d][v][j] = Indices(d)
    /\ \A d \in Domains, v \in Vars : \A j \in DOMAIN raw[d][v] :
         IF <<d, v, j>> \notin gaps THEN Complete(raw[d][v][j], series[d][v][j])
         ELSE Partly(raw[d][v][j], series[d][v][j], N(d), IF <<d, v, j>> = Gap THEN start ELSE 0)

IInv == Types /\ PhaseInv /\ SourceInv /\ LoadInv

-----------------------------------------------------------------------------
(***************************************************************************)
(* What steps leave alone                                                  *)
(***************************************************************************)

LEMMA MaxIs ==
  ASSUME NEW S, S \subseteq Int, NEW x \in S, \A y \in S : y <= x
  PROVE  Max(S) = x
<1>1. x \in Int /\ \A y \in S : y \in Int /\ x >= y
  OBVIOUS
<1>2. \A z \in S : (\A y \in S : z >= y) => z = x
  BY <1>1
<1>. QED  BY <1>1, <1>2 DEF Max

LEMMA SameArchive ==
  ASSUME archive' = archive
  PROVE  /\ AllTimes' = AllTimes
         /\ \A d, n : File(d, n)' = File(d, n)
         /\ \A d : NumPoints(d)' = NumPoints(d)
         /\ \A d, n, v, t, k : ValueIn(d, n, v, t, k)' = ValueIn(d, n, v, t, k)
BY DEF AllTimes, File, NumPoints, ValueIn, Archive

LEMMA SameAxis ==
  ASSUME archive' = archive, NEW d, source'[d] = source[d]
  PROVE  /\ Known(d)' = Known(d) /\ N(d)' = N(d) /\ Indices(d)' = Indices(d)
         /\ \A i : AxisAt(d, i)' = AxisAt(d, i)
<1>1. Known(d)' = Known(d)
  BY SameArchive DEF Known
<1>2. N(d)' = N(d)
  BY <1>1 DEF N
<1>. QED  BY <1>1, <1>2 DEF Indices, AxisAt

LEMMA SameReading ==
  ASSUME archive' = archive, NEW d, source'[d] = source[d], sea'[d] = sea[d], got'[d] = got[d]
  PROVE  /\ SeaIndices(d)' = SeaIndices(d)
         /\ \A v : AsRead(d, v)' = AsRead(d, v)
<1>1. SeaIndices(d)' = SeaIndices(d)
  BY DEF SeaIndices
<1>2. \A v, j, i : Reading(d, v, j, i)' = Reading(d, v, j, i)
  BY <1>1, SameArchive, SameAxis DEF Reading
<1>. QED  BY <1>1, <1>2, SameAxis DEF AsRead

LEMMA SourcesKept ==
  ASSUME SourceInv, UNCHANGED <<archive, source, seen>>
  PROVE  SourceInv'
<1>1. \A d, t : Having(d, t)' = Having(d, t)
  BY SameArchive DEF Having
<1>2. \A d, t : Latest(d, t)' = Latest(d, t)
  BY <1>1 DEF Latest
<1>. QED  BY <1>2, SameArchive DEF SourceInv

LEMMA LoadedKept ==
  ASSUME IInv, UNCHANGED <<archive, sea, source, got>>,
         \A d \in Domains : Loaded(d)' => Loaded(d),
         \A d \in Domains : \A v \in Vars : Loaded(d)' =>
           (IF pc \in {"scan", "load"} THEN series[d][v] ELSE raw[d][v])' =
           (IF pc \in {"scan", "load"} THEN series[d][v] ELSE raw[d][v])
  PROVE  LoadInv'
<1>. SUFFICES ASSUME NEW d \in Domains, Loaded(d)'
              PROVE  /\ Known(d)' # {} /\ got'[d] \subseteq Known(d)'
                     /\ \A t \in got'[d] : Vars \subseteq DOMAIN (File(d, source[d][t]).vars)'
                     /\ \A v \in Vars : (IF pc \in {"scan", "load"} THEN series[d][v] ELSE raw[d][v])' = AsRead(d, v)'
  BY DEF LoadInv
<1>1. Loaded(d) /\ LoadInv
  BY DEF IInv
<1>2. Known(d)' = Known(d) /\ \A v : AsRead(d, v)' = AsRead(d, v)
  BY SameAxis, SameReading
<1>3. \A t : (File(d, source[d][t]).vars)' = File(d, source[d][t]).vars
  BY DEF File, Archive
<1>. QED  BY <1>1, <1>2, <1>3 DEF LoadInv
-----------------------------------------------------------------------------
(***************************************************************************)
(* Grids, clouds and the first pass                                        *)
(***************************************************************************)

LEMMA InitInv == AreArchives /\ Init => IInv
<1>. SUFFICES ASSUME AreArchives, Init  PROVE IInv
  OBVIOUS
<1>1. archive \in DOMAIN Archives /\ pc = "grid" /\ sub = 1 /\ day = FirstDay /\ start = 0
  BY DEF Init
<1>2. /\ DOMAIN sea = Domains /\ DOMAIN seen = Domains /\ DOMAIN got = Domains
      /\ \A d \in Domains : sea[d] = {} /\ seen[d] = {} /\ got[d] = {}
  BY DEF Init, Domains
<1>3. /\ DOMAIN source = Domains /\ DOMAIN series = Domains
      /\ \A d \in Domains : /\ source[d] = [t \in AllTimes |-> NoDay] /\ DOMAIN series[d] = Vars
                            /\ \A v \in Vars : series[d][v] = <<>>
  BY DEF Init
<1>4. FirstDay \in FirstDay .. MonthDays + 2
  BY DaysAre, MonthAssumption DEF Days
<1>5. Types
  BY <1>1, <1>2, <1>3, <1>4 DEF Types, Domains
<1>6. PhaseInv
  BY <1>1, <1>2, <1>3 DEF PhaseInv, Untouched, Fresh
<1>7. SourceInv
  BY <1>2, <1>3 DEF SourceInv, Having, Latest
<1>. QED  BY <1>1, <1>5, <1>6, <1>7 DEF IInv, LoadInv, Loaded

\* Where nothing has been loaded and nothing is filled there is less to say.
LEMMA NothingLoaded ==
  ASSUME Types', PhaseInv', SourceInv', pc' \in {"grid", "clouds", "failed"} \/ (pc' = "scan" /\ sub' = 1)
  PROVE  IInv'
<1>1. \A d \in Domains : ~Loaded(d)'
  BY DEF Loaded, Domains
<1>2. LoadInv'
  BY <1>1 DEF LoadInv
<1>. QED  BY <1>2 DEF IInv

LEMMA ReadGridInv ==
  ASSUME AreArchives, IInv, ReadGrid
  PROVE  IInv'
<1>1. /\ pc = "grid" /\ sub' = 3 - sub /\ archive' = archive
      /\ UNCHANGED <<day, source, series, start, seen, got>>
      /\ pc' \in {"grid", "clouds", "failed"} /\ (pc' = "clouds" => sub # 1)
  <2>1. pc = "grid" /\ sub' = 3 - sub
    BY DEF ReadGrid
  <2>2. UNCHANGED <<day, source, series, start, seen, got>>
    BY DEF ReadGrid, axes, filling, history
  <2>3. archive' = archive
    <3>1. \A w : Try(w) => archive' = archive
      BY DEF Try
    <3>. QED  BY <3>1 DEF ReadGrid
  <2>4. pc' \in {"grid", "clouds", "failed"} /\ (pc' = "clouds" => sub # 1)
    BY DEF ReadGrid
  <2>. QED  BY <2>1, <2>2, <2>3, <2>4
<1>2. Types /\ PhaseInv /\ SourceInv
  BY DEF IInv
<1>3. sub \in Domains /\ sub' \in Domains /\ (sub # 1 => sub' = 1)
  BY <1>1, <1>2 DEF Types, Domains
<1>4. DOMAIN sea' = Domains /\ \A d \in Domains : sea'[d] \subseteq 1 .. NumPoints(d)
  <2>1. CASE UNCHANGED sea
    BY <1>2, <2>1 DEF Types
  <2>2. CASE ~UNCHANGED sea
    <3>1. PICK r \in Readings(File(sub, FirstDay), {MaskVar}) :
            LET mask == SliceAt(File(sub, FirstDay), r, MaskVar, Min(ReadTimes(File(sub, FirstDay), r, MaskVar))) IN
            /\ Len(mask) = NumPoints(sub)
            /\ ReadTimes(File(sub, FirstDay), r, MaskVar) # {}
            /\ sea' = [sea EXCEPT ![sub] = {k \in DOMAIN mask : mask[k] # NaN}]
      BY <2>2 DEF ReadGrid
    <3> DEFINE f == File(sub, FirstDay)
               w == f.vars[MaskVar]
               T == ReadTimes(f, r, MaskVar)
               mask == SliceAt(f, r, MaskVar, Min(T))
               I == {i \in 1 .. r.slices[MaskVar] : TimesOf(f)[i] = Min(T)}
    <3>2. IsFile(f, NumPoints(sub))
      BY <1>2, <1>3, FilesAre, DaysAre DEF Types
    <3>3. /\ r.slices[MaskVar] \in 0 .. Len(f.times)
          /\ MaskVar \notin DOMAIN f.vars => r.slices[MaskVar] = 0
      BY <3>1 DEF Readings
    <3>4. Len(f.times) \in Nat /\ DOMAIN f.times = 1 .. Len(f.times)
          /\ DOMAIN TimesOf(f) = 1 .. Len(f.times) /\ \A i \in DOMAIN TimesOf(f) : TimesOf(f)[i] \in Int
      BY <3>2, TimesAre DEF IsFile
    <3>5. Max(I) \in DOMAIN f.times /\ MaskVar \in DOMAIN f.vars
      <4>1. T # {} /\ T = {TimesOf(f)[i] : i \in 1 .. r.slices[MaskVar]}
        BY <3>1 DEF ReadTimes
      <4>2. MaskVar \in DOMAIN f.vars
        BY <3>3, <4>1
      <4>3. IsFiniteSet(1 .. r.slices[MaskVar]) /\ 1 .. r.slices[MaskVar] \subseteq DOMAIN f.times
        <5>1. r.slices[MaskVar] \in Int /\ 1 .. r.slices[MaskVar] \subseteq 1 .. Len(f.times)
          <6>. HIDE DEF f
          <6>. QED  BY <3>3, <3>4
        <5>. QED  BY <3>4, <5>1, FS_Interval
      <4>4. T \subseteq Int
        BY <3>4, <4>1, <4>3
      <4>5. IsFiniteSet(T)
        <5> DEFINE g == [i \in 1 .. r.slices[MaskVar] |-> TimesOf(f)[i]]
        <5>1. g \in Surjection(1 .. r.slices[MaskVar], T)
          BY <4>1 DEF Surjection
        <5>. HIDE DEF g, T
        <5>. QED  BY <4>3, <5>1, FS_Surjection
      <4>6. Min(T) \in T
        <5>. HIDE DEF T
        <5>. QED  BY <4>1, <4>4, <4>5, MinExists
      <4>7. I # {} /\ I \in SUBSET (1 .. r.slices[MaskVar])
        <5>1. \E i \in 1 .. r.slices[MaskVar] : TimesOf(f)[i] = Min(T)
          <6>. HIDE DEF f
          <6>. QED  BY <4>1, <4>6
        <5>. HIDE DEF T, f
        <5>. QED  BY <5>1
      <4>8. IsFiniteSet(I) /\ I \subseteq Int
        <5>1. 1 .. r.slices[MaskVar] \subseteq Int
          OBVIOUS
        <5>. HIDE DEF I, T, f
        <5>. QED  BY <4>3, <4>7, <5>1, FS_Subset
      <4>9. Max(I) \in I
        <5>. HIDE DEF I
        <5>. QED  BY <4>7, <4>8, MaxExists
      <4>. QED  BY <4>2, <4>3, <4>7, <4>9
    <3>6. w.data[Max(I)] \in Seq(Int)
      <4>1. w.data \in Seq(Seq(Int)) /\ Len(w.data) = Len(f.times)
        BY <3>2, <3>5 DEF IsFile
      <4>. HIDE DEF w, f, I
      <4>. QED  BY <3>4, <3>5, <4>1
    <3>7. mask = [k \in DOMAIN w.data[Max(I)] |-> Unpacked(w, w.data[Max(I)][k])]
      BY DEF SliceAt
    <3>8. DOMAIN mask = 1 .. NumPoints(sub)
      <4>1. DOMAIN mask = 1 .. Len(w.data[Max(I)]) /\ Len(w.data[Max(I)]) \in Nat
        <5>. HIDE DEF w, I, mask
        <5>. QED  BY <3>6, <3>7
      <4>2. Len(mask) = Len(w.data[Max(I)])
        <5>. HIDE DEF w, I, mask
        <5>. QED  BY <4>1, <3>6, <3>7
      <4>. QED  BY <3>1, <4>1, <4>2
    <3>9. sea' = [sea EXCEPT ![sub] = {k \in DOMAIN mask : mask[k] # NaN}]
      BY <3>1
    <3>. HIDE DEF mask
    <3>. QED  BY <1>2, <1>3, <3>8, <3>9 DEF Types
  <2>. QED  BY <2>1, <2>2
<1>5. Types'
  BY <1>1, <1>2, <1>3, <1>4, SameArchive DEF Types
<1>6. PhaseInv'
  BY <1>1, <1>2, <1>3 DEF PhaseInv, Untouched, Fresh
<1>7. SourceInv'
  BY <1>1, <1>2, SourcesKept
<1>. QED  BY <1>1, <1>5, <1>6, <1>7, NothingLoaded

LEMMA BuildCloudsInv ==
  ASSUME IInv, BuildClouds
  PROVE  IInv'
<1>1. /\ pc = "clouds" /\ pc' \in {"failed", "scan"} /\ archive' = archive
      /\ UNCHANGED <<sub, sea, day, source, series, start, seen, got>>
  BY DEF BuildClouds, files, axes, filling, history
<1>2. Types /\ PhaseInv /\ SourceInv
  BY DEF IInv
<1>3. sub = 1 /\ \A d \in Domains : Untouched(d)
  BY <1>1, <1>2 DEF PhaseInv
<1>4. Types'
  BY <1>1, <1>2, SameArchive DEF Types
<1>5. PhaseInv'
  <2>1. \A d \in Domains : Untouched(d)' /\ Fresh(d)' /\ seen'[d] = {}
    BY <1>1, <1>3 DEF Untouched, Fresh
  <2>. QED  BY <1>1, <1>2, <1>3, <2>1 DEF PhaseInv, Domains
<1>6. SourceInv'
  BY <1>1, <1>2, SourcesKept
<1>. QED  BY <1>1, <1>3, <1>4, <1>5, <1>6, NothingLoaded

LEMMA ScanFileInv ==
  ASSUME IInv, ScanFile
  PROVE  IInv'
<1>1. /\ pc = "scan" /\ pc' = "scan" /\ day \in Days /\ day' = day + 1 /\ archive' = archive
      /\ UNCHANGED <<sub, sea, series, start, got, raw>>
  BY DEF ScanFile, Try, grids, filling
<1>2. Types /\ PhaseInv /\ SourceInv /\ LoadInv
  BY DEF IInv
<1>3. \/ UNCHANGED <<source, seen>>
      \/ /\ source' = [source EXCEPT ![sub] = [t \in AllTimes |-> SourceOf(t)]]
         /\ seen' = [seen EXCEPT ![sub] = @ \cup {day}]
  BY DEF ScanFile
<1>4. /\ DOMAIN source' = Domains /\ DOMAIN seen' = Domains
      /\ \A d \in Domains : seen'[d] \subseteq Days /\ seen'[d] \subseteq seen[d] \cup {day}
      /\ \A d \in Domains : d # sub => seen'[d] = seen[d] /\ source'[d] = source[d]
  BY <1>1, <1>2, <1>3 DEF Types
<1>5. FirstDay \in Int /\ FirstDay <= day /\ day + 1 \in FirstDay .. MonthDays + 2 /\ Days \subseteq Int
  BY <1>1, DaysAre, MonthAssumption DEF Days
<1>6. Types'
  BY <1>1, <1>2, <1>4, <1>5, SameArchive DEF Types
<1>7. PhaseInv'
  <2>1. Fresh(sub) /\ \A n \in seen[sub] : n < day
    BY <1>1, <1>2 DEF PhaseInv
  <2>2. Fresh(sub)'
    BY <1>1, <2>1 DEF Fresh
  <2>3. \A n \in seen'[sub] : n < day + 1
    <3>1. \A n \in seen'[sub] : n \in Int /\ (n < day \/ n = day)
      BY <1>2, <1>4, <1>5, <2>1 DEF Types
    <3>. QED  BY <1>1, <1>5, <3>1
  <2>4. sub = 1 => Untouched(2)'
    BY <1>1, <1>2, <1>4 DEF PhaseInv, Untouched, Fresh, Domains
  <2>. QED  BY <1>1, <1>2, <2>2, <2>3, <2>4 DEF PhaseInv
<1>8. SourceInv'
  <2>1. CASE UNCHANGED <<source, seen>>
    BY <1>1, <1>2, <2>1, SourcesKept
  <2>2. CASE /\ source' = [source EXCEPT ![sub] = [t \in AllTimes |-> SourceOf(t)]]
             /\ seen' = [seen EXCEPT ![sub] = @ \cup {day}]
    <3>. SUFFICES ASSUME NEW d \in Domains
                  PROVE  source'[d] = [t \in AllTimes |-> Latest(d, t)']
      BY <1>1, SameArchive DEF SourceInv
    <3>1. CASE d # sub
      <4>1. \A t : Having(d, t)' = Having(d, t)
        BY <1>1, <1>4, <3>1, SameArchive DEF Having
      <4>2. \A t : Latest(d, t)' = Latest(d, t)
        BY <4>1 DEF Latest
      <4>3. source[d] = [t \in AllTimes |-> Latest(d, t)]
        BY <1>2 DEF SourceInv
      <4>4. source'[d] = source[d]
        BY <1>4, <3>1
      <4>. QED  BY <4>2, <4>3, <4>4
    <3>2. CASE d = sub
      <4>1. source'[d] = [t \in AllTimes |-> SourceOf(t)] /\ seen'[d] = seen[d] \cup {day}
        BY <1>2, <2>2, <3>2 DEF Types
      <4>2. \A t \in AllTimes : SourceOf(t) = Latest(d, t)'
        <5>. TAKE t \in AllTimes
        <5>1. CASE t \in ToSet(TimesOf(File(d, day)))
          <6>1. Having(d, t)' = Having(d, t) \cup {day}
            BY <1>1, <4>1, <5>1, SameArchive DEF Having
          <6>2. Having(d, t)' \subseteq Int /\ \A n \in Having(d, t)' : n <= day
            <7>1. \A n \in seen[d] : n < day /\ n \in Int
              BY <1>1, <1>2, <1>5, <3>2 DEF PhaseInv, Types
            <7>. QED  BY <1>1, <1>5, <6>1, <7>1 DEF Having
          <6>3. Max(Having(d, t)') = day
            BY <6>1, <6>2, MaxIs
          <6>. QED  BY <3>2, <5>1, <6>1, <6>3 DEF SourceOf, Latest
        <5>2. CASE t \notin ToSet(TimesOf(File(d, day)))
          <6>1. Having(d, t)' = Having(d, t)
            BY <1>1, <4>1, <5>2, SameArchive DEF Having
          <6>2. Latest(d, t)' = Latest(d, t)
            BY <6>1 DEF Latest
          <6>3. source[d][t] = Latest(d, t)
            BY <1>2 DEF SourceInv
          <6>. QED  BY <3>2, <5>2, <6>2, <6>3 DEF SourceOf
        <5>. QED  BY <5>1, <5>2
      <4>. QED  BY <4>1, <4>2
    <3>. QED  BY <3>1, <3>2
  <2>. QED  BY <1>3, <2>1, <2>2
<1>9. LoadInv'
  <2>. SUFFICES ASSUME NEW d \in Domains, Loaded(d)'
                PROVE  /\ Known(d)' # {} /\ got'[d] \subseteq Known(d)'
                       /\ \A t \in got'[d] : Vars \subseteq DOMAIN (File(d, source[d][t]).vars)'
                       /\ \A v \in Vars : series'[d][v] = AsRead(d, v)'
    BY <1>1 DEF LoadInv
  <2>1. d < sub /\ d # sub
    BY <1>1, <1>2 DEF Loaded, Types, Domains
  <2>2. /\ Loaded(d) /\ Known(d)' = Known(d) /\ \A v : AsRead(d, v)' = AsRead(d, v)
        /\ \A t : (File(d, source[d][t]).vars)' = File(d, source[d][t]).vars
    BY <1>1, <1>4, <2>1, SameAxis, SameReading DEF Loaded, File, Archive
  <2>. QED  BY <1>1, <1>2, <2>2 DEF LoadInv
<1>. QED  BY <1>1, <1>6, <1>7, <1>8, <1>9 DEF IInv

LEMMA EndScanInv ==
  ASSUME IInv, EndScan
  PROVE  IInv'
<1>1. /\ pc = "scan" /\ day' = FirstDay /\ archive' = archive
      /\ UNCHANGED <<sub, sea, source, start, seen, got, raw>>
  BY DEF EndScan, files, grids, filling, history
<1>2. Types /\ PhaseInv /\ SourceInv /\ LoadInv
  BY DEF IInv
<1>3. SourceInv'
  BY <1>1, <1>2, SourcesKept
<1>4. FirstDay \in FirstDay .. MonthDays + 2
  BY DaysAre, MonthAssumption DEF Days
<1>5. CASE Known(sub) = {}
  <2>1. pc' = "failed" /\ UNCHANGED series
    BY <1>5 DEF EndScan
  <2>2. Types' /\ PhaseInv'
    BY <1>1, <1>2, <1>4, <2>1, SameArchive DEF Types, PhaseInv
  <2>. QED  BY <1>3, <2>1, <2>2, NothingLoaded
<1>6. CASE Known(sub) # {}
  <2>1. /\ pc' = "load" /\ unread' = Known(sub)
        /\ series' = [series EXCEPT ![sub] = [n \in Vars |->
             [j \in DOMAIN SeaIndices(sub) |-> [i \in Indices(sub) |-> NaN]]]]
    BY <1>6 DEF EndScan
  <2>2. /\ DOMAIN series' = Domains
        /\ \A d \in Domains : d # sub => series'[d] = series[d]
        /\ series'[sub] = [n \in Vars |-> [j \in DOMAIN SeaIndices(sub) |-> [i \in Indices(sub) |-> NaN]]]
    BY <1>2, <2>1 DEF Types
  <2>3. Types'
    BY <1>1, <1>2, <1>4, <2>1, <2>2, SameArchive DEF Types
  <2>4. \A d : Known(d)' = Known(d) /\ \A v : AsRead(d, v)' = AsRead(d, v)
    BY <1>1, SameAxis, SameReading
  <2>5. PhaseInv'
    <3>1. sub = 1 => Untouched(2)'
      BY <1>1, <1>2, <2>2 DEF PhaseInv, Untouched, Fresh, Domains
    <3>2. unread' \subseteq Known(sub)'
      BY <1>1, <2>1, <2>4
    <3>. QED  BY <1>1, <1>2, <2>1, <3>1, <3>2 DEF PhaseInv
  <2>6. LoadInv'
    <3>. SUFFICES ASSUME NEW d \in Domains, Loaded(d)'
                  PROVE  /\ Known(d) # {} /\ got[d] \subseteq Known(d)
                         /\ \A t \in got[d] : Vars \subseteq DOMAIN File(d, source[d][t]).vars
                         /\ \A v \in Vars : series'[d][v] = AsRead(d, v)
      <4>1. \A d, t : (File(d, source[d][t]).vars)' = File(d, source[d][t]).vars
        BY <1>1 DEF File, Archive
      <4>. QED  BY <1>1, <2>1, <2>4, <4>1 DEF LoadInv
    <3>1. CASE d = sub
      <4>1. got[d] = {}
        BY <1>1, <1>2, <3>1 DEF PhaseInv, Fresh
      <4>2. \A v \in Vars : AsRead(d, v) = [j \in DOMAIN SeaIndices(d) |-> [i \in Indices(d) |-> NaN]]
        BY <4>1 DEF AsRead, Reading
      <4>. QED  BY <1>6, <2>2, <3>1, <4>1, <4>2
    <3>2. CASE d # sub
      <4>1. Loaded(d)
        BY <1>1, <1>2, <2>1, <3>2 DEF Loaded, Types, Domains
      <4>. QED  BY <1>1, <1>2, <2>2, <3>2, <4>1 DEF LoadInv
    <3>. QED  BY <3>1, <3>2
  <2>. QED  BY <1>3, <2>1, <2>3, <2>5, <2>6 DEF IInv
<1>. QED  BY <1>5, <1>6
-----------------------------------------------------------------------------
(***************************************************************************)
(* The second pass                                                         *)
(***************************************************************************)

\* A known time is taken from the last file that could be opened and has it.
LEMMA SourceIs ==
  ASSUME Types, SourceInv, NEW d \in Domains, NEW t \in Known(d)
  PROVE  /\ t \in AllTimes /\ source[d][t] = LastSeen(d, t)
         /\ source[d][t] \in seen[d] /\ source[d][t] \in Days
         /\ t \in ToSet(TimesOf(File(d, source[d][t])))
<1>1. t \in AllTimes /\ source[d][t] # NoDay
  BY DEF Known
<1>2. source[d][t] = Latest(d, t)
  BY <1>1 DEF SourceInv
<1>3. Having(d, t) # {} /\ source[d][t] = Max(Having(d, t))
  BY <1>1, <1>2 DEF Latest
<1>4. Having(d, t) \in SUBSET Days
  BY DEF Having, Types
<1>5. IsFiniteSet(Having(d, t)) /\ Having(d, t) \subseteq Int
  BY <1>4, DaysAre, FS_Subset
<1>6. Max(Having(d, t)) \in Having(d, t)
  BY <1>3, <1>5, MaxExists
<1>. QED  BY <1>1, <1>3, <1>4, <1>6 DEF Having, LastSeen

LEMMA KnownAre ==
  ASSUME AreArchives, Types, NEW d \in Domains, Known(d) # {}
  PROVE  /\ IsFiniteSet(Known(d)) /\ Known(d) \subseteq Int
         /\ Min(Known(d)) \in Known(d) /\ Max(Known(d)) \in Known(d)
         /\ \A t \in Known(d) : Min(Known(d)) <= t /\ t <= Max(Known(d))
         /\ N(d) \in Nat /\ N(d) > 0 /\ Indices(d) \subseteq Int
         /\ \A i \in Indices(d) : AxisAt(d, i) \in Int
<1>1. IsFiniteSet(Known(d)) /\ Known(d) \subseteq Int
  <2>1. IsFiniteSet(AllTimes) /\ AllTimes \subseteq Int
    BY AllTimesAre DEF Types
  <2>2. Known(d) \in SUBSET AllTimes
    BY DEF Known
  <2>. QED  BY <2>1, <2>2, FS_Subset
<1>2. /\ Min(Known(d)) \in Known(d) /\ Max(Known(d)) \in Known(d)
      /\ \A t \in Known(d) : Min(Known(d)) <= t /\ t <= Max(Known(d))
  BY <1>1, MinExists, MaxExists
<1>3. N(d) \in Nat /\ N(d) > 0
  <2>1. \A a, b \in Int : a <= b => (b - a) \div Dt \in Nat
    BY MonthAssumption
  <2>2. (Max(Known(d)) - Min(Known(d))) \div Dt \in Nat
    BY <1>1, <1>2, <2>1
  <2>. QED  BY <2>2 DEF N
<1>4. Indices(d) \subseteq Int
  BY <1>3 DEF Indices
<1>5. \A i \in Indices(d) : AxisAt(d, i) \in Int
  <2>1. \A a, i \in Int : a + i * Dt \in Int
    BY MonthAssumption
  <2>. QED  BY <1>1, <1>2, <1>4, <2>1 DEF AxisAt
<1>. QED  BY <1>1, <1>2, <1>3, <1>4, <1>5

\* The value that stands for a missing one, in a byte or a wider type, is the one
\* the file marks as missing.
LEMMA UnpackedIs ==
  ASSUME NEW w, NEW x \in Int, w.bits = 8 => x \in -128 .. 127
  PROVE  Unpacked(w, x) = Value(w, x)
<1>1. CASE w.fill # <<>>
  BY <1>1 DEF Unpacked, Value, MissingRaw, MarkedMissing
<1>2. CASE w.fill = <<>> /\ w.missing # <<>>
  BY <1>2 DEF Unpacked, Value, MissingRaw, MarkedMissing
<1>3. CASE w.fill = <<>> /\ w.missing = <<>>
  <2>1. MissingRaw(w) = Narrowed(Fallback, w.bits)
    BY <1>3 DEF MissingRaw
  <2>2. MarkedMissing(w, x) <=> IF w.bits = 8 THEN (x + 30000) % 256 = 0 ELSE x + 30000 = 0
    BY <1>3 DEF MarkedMissing
  <2>3. Fallback \in Int /\ -30000 <= Fallback /\ Fallback <= -30000
    BY DEF Fallback
  <2>4. CASE w.bits = 8
    <3>1. MissingRaw(w) = ((Fallback + 128) % 256) - 128
      BY <2>1, <2>4 DEF Narrowed
    <3>2. (Fallback + 128) % 256 = 80
      BY <2>3
    <3>3. MissingRaw(w) = -48
      BY <3>1, <3>2
    <3>4. x \in Int /\ -128 <= x /\ x <= 127
      BY <2>4
    <3>5. x >= -48 => (x + 30000) % 256 = x + 48
      BY <3>4
    <3>6. x < -48 => (x + 30000) % 256 = x + 304
      BY <3>4
    <3>7. (x + 30000) % 256 = 0 <=> x = -48
      BY <3>4, <3>5, <3>6
    <3>. QED  BY <2>2, <2>4, <3>3, <3>7 DEF Unpacked, Value
  <2>5. CASE w.bits # 8
    <3>1. MissingRaw(w) = Fallback
      BY <2>1, <2>5 DEF Narrowed
    <3>2. x + 30000 = 0 <=> x = Fallback
      BY <2>3
    <3>. QED  BY <2>2, <2>5, <3>1, <3>2 DEF Unpacked, Value
  <2>. QED  BY <2>4, <2>5
<1>. QED  BY <1>1, <1>2, <1>3

\* However much of a file was read: what is handed out for a time is what the
\* file has for it.
LEMMA SliceIs ==
  ASSUME NEW f, NEW points \in Nat, IsFile(f, points), NEW r \in Readings(f, Vars), NEW v \in Vars,
         NEW t, HasSlice(f, r, v, t), NEW k \in 1 .. points
  PROVE  /\ v \in DOMAIN f.vars
         /\ SliceAt(f, r, v, t)[k] = ValueOf(f, v, t, k)
<1>1. r.slices[v] \in 0 .. Len(f.times) /\ (v \notin DOMAIN f.vars => r.slices[v] = 0)
  BY DEF Readings
<1>2. /\ Len(f.times) \in Nat /\ DOMAIN f.times = 1 .. Len(f.times) /\ DOMAIN TimesOf(f) = DOMAIN f.times
      /\ \A i, j \in DOMAIN f.times : TimesOf(f)[i] = TimesOf(f)[j] => i = j
  BY TimesAre DEF IsFile
<1>3. PICK i \in 1 .. r.slices[v] : TimesOf(f)[i] = t
  BY DEF HasSlice, ReadTimes
<1>4. i \in DOMAIN f.times /\ i \in Int /\ 1 .. r.slices[v] \subseteq DOMAIN f.times
  BY <1>1, <1>2, <1>3
<1>5. v \in DOMAIN f.vars
  BY <1>1, <1>3
<1>6. /\ {j \in 1 .. r.slices[v] : TimesOf(f)[j] = t} = {i}
      /\ {j \in DOMAIN f.times : TimesOf(f)[j] = t} = {i}
  BY <1>2, <1>3, <1>4
<1>7. Max({i}) = i
  BY <1>4, MaxIs
<1>8. /\ f.vars[v].data \in Seq(Seq(Int)) /\ Len(f.vars[v].data) = Len(f.times)
      /\ Len(f.vars[v].data[i]) = points
      /\ f.vars[v].bits = 8 => f.vars[v].data[i][k] \in -128 .. 127
  BY <1>4, <1>5 DEF IsFile
<1>9. /\ k \in DOMAIN f.vars[v].data[i] /\ f.vars[v].data[i][k] \in Int
      /\ SliceAt(f, r, v, t) = [l \in DOMAIN f.vars[v].data[i] |-> Unpacked(f.vars[v], f.vars[v].data[i][l])]
  <2> DEFINE data == f.vars[v].data
  <2>1. data \in Seq(Seq(Int)) /\ Len(data) = Len(f.times)
    BY <1>8
  <2>2. i \in 1 .. Len(data)
    BY <1>2, <1>4, <2>1
  <2>3. data[i] \in Seq(Int)
    <3>. HIDE DEF data
    <3>. QED  BY <2>1, <2>2
  <2>4. Len(data[i]) = points
    BY <1>8
  <2>5. k \in DOMAIN data[i] /\ data[i][k] \in Int
    <3>. HIDE DEF data
    <3>. QED  BY <2>3, <2>4
  <2>6. SliceAt(f, r, v, t) = [l \in DOMAIN data[i] |-> Unpacked(f.vars[v], data[i][l])]
    BY <1>6, <1>7 DEF SliceAt
  <2>. QED  BY <2>5, <2>6
<1>10. Unpacked(f.vars[v], f.vars[v].data[i][k]) = Value(f.vars[v], f.vars[v].data[i][k])
  BY <1>8, <1>9, UnpackedIs
<1>. QED  BY <1>5, <1>6, <1>7, <1>9, <1>10 DEF ValueOf

LEMMA SeaIndicesAre ==
  ASSUME AreArchives, Types, NEW d \in Domains
  PROVE  /\ NumPoints(d) \in Nat
         /\ \A j \in DOMAIN SeaIndices(d) : SeaIndices(d)[j] \in 1 .. NumPoints(d)
         /\ DOMAIN SeaIndices(d) = 1 .. Cardinality(sea[d]) /\ Cardinality(sea[d]) \in Nat
         /\ IsFiniteSet(sea[d]) /\ sea[d] \subseteq Int
<1>1. NumPoints(d) \in Nat /\ sea[d] \in SUBSET (1 .. NumPoints(d))
  BY FilesAre DEF Types
<1>2. IsFiniteSet(sea[d]) /\ sea[d] \subseteq Int
  <2>1. IsFiniteSet(1 .. NumPoints(d))
    BY <1>1, FS_Interval
  <2>. QED  BY <1>1, <2>1, FS_Subset
<1>3. SeaIndices(d) \in [1 .. Cardinality(sea[d]) -> sea[d]] /\ Cardinality(sea[d]) \in Nat
  BY <1>2, InOrderIs DEF SeaIndices
<1>. QED  BY <1>1, <1>2, <1>3

LEMMA LoadTimeInv ==
  ASSUME AreArchives, IInv, LoadTime
  PROVE  IInv'
<1> DEFINE t == Min(unread)
           f == File(sub, source[sub][t])
<1>1. /\ pc = "load" /\ pc' = "load" /\ unread # {} /\ unread' = unread \ {t} /\ archive' = archive
      /\ UNCHANGED <<sub, sea, day, source, start, seen, raw>>
  <2>1. /\ pc = "load" /\ pc' = "load" /\ unread # {} /\ unread' = unread \ {t}
        /\ UNCHANGED <<sub, sea, day, source, start, seen, raw>>
    BY DEF LoadTime, grids, filling
  <2>2. \A w : Try(w) => archive' = archive
    BY DEF Try
  <2>. QED  BY <2>1, <2>2 DEF LoadTime
<1>2. PICK r \in Readings(f, Vars) :
        /\ series' = [series EXCEPT ![sub] = Stored(f, r, t)]
        /\ got' = IF \A n \in Vars : HasSlice(f, r, n, t) THEN [got EXCEPT ![sub] = @ \cup {t}] ELSE got
  BY DEF LoadTime
<1>3. Types /\ PhaseInv /\ SourceInv /\ LoadInv
  BY DEF IInv
<1>4. sub \in Domains /\ Loaded(sub) /\ unread \subseteq Known(sub)
  BY <1>1, <1>3 DEF Types, PhaseInv, Loaded, Domains
<1>5. t \in unread /\ t \in Known(sub)
  <2>1. Known(sub) # {}
    BY <1>3, <1>4 DEF LoadInv
  <2>2. IsFiniteSet(Known(sub)) /\ Known(sub) \subseteq Int
    BY <1>3, <1>4, <2>1, KnownAre
  <2>3. IsFiniteSet(unread) /\ unread \subseteq Int
    <3>1. unread \in SUBSET Known(sub)
      BY <1>4
    <3>. QED  BY <2>2, <3>1, FS_Subset
  <2>4. t \in unread
    BY <1>1, <2>3, MinExists
  <2>. QED  BY <1>4, <2>4
<1>6. /\ source[sub][t] \in Days /\ NumPoints(sub) \in Nat /\ IsFile(f, NumPoints(sub))
  BY <1>3, <1>4, <1>5, SourceIs, FilesAre DEF Types
<1>. HIDE DEF t, f
<1>7. SourceInv'
  BY <1>1, <1>3, SourcesKept
<1>8. \A d : Known(d)' = Known(d) /\ N(d)' = N(d)
  BY <1>1, SameAxis
<1>9. /\ DOMAIN series' = Domains /\ DOMAIN series'[sub] = Vars
      /\ \A d \in Domains : d # sub => series'[d] = series[d] /\ got'[d] = got[d]
      /\ DOMAIN got' = Domains
  <2>1. DOMAIN Stored(f, r, t) = Vars
    BY <1>3, <1>4 DEF Stored, Types
  <2>. QED  BY <1>2, <1>3, <1>4, <2>1 DEF Types
<1>10. Types'
  BY <1>1, <1>3, <1>9, SameArchive DEF Types
<1>11. PhaseInv'
  <2>1. sub = 1 => Untouched(2)'
    BY <1>1, <1>3, <1>9 DEF PhaseInv, Untouched, Fresh, Domains
  <2>2. unread' \subseteq Known(sub)'
    BY <1>1, <1>4, <1>8
  <2>. QED  BY <1>1, <1>3, <2>1, <2>2 DEF PhaseInv
<1>12. LoadInv'
  <2>. SUFFICES ASSUME NEW d \in Domains, Loaded(d)'
                PROVE  /\ Known(d) # {} /\ got'[d] \subseteq Known(d)
                       /\ \A u \in got'[d] : Vars \subseteq DOMAIN File(d, source[d][u]).vars
                       /\ \A v \in Vars : series'[d][v] = AsRead(d, v)'
    <3>1. \A d, u : (File(d, source[d][u]).vars)' = File(d, source[d][u]).vars
      BY <1>1 DEF File, Archive
    <3>. QED  BY <1>1, <1>8, <3>1 DEF LoadInv
  <2>1. /\ Loaded(d) /\ Known(d) # {} /\ got[d] \subseteq Known(d)
        /\ \A u \in got[d] : Vars \subseteq DOMAIN File(d, source[d][u]).vars
        /\ \A v \in Vars : series[d][v] = AsRead(d, v)
    BY <1>1, <1>3 DEF Loaded, LoadInv
  <2>2. CASE got'[d] = got[d] /\ series'[d] = series[d]
    BY <1>1, <2>1, <2>2, SameReading
  <2>3. CASE d = sub /\ \A n \in Vars : HasSlice(f, r, n, t)
    <3>1. got'[d] = got[d] \cup {t} /\ \A v \in Vars : series'[d][v] = StoredAt(f, r, t, v)
      BY <1>2, <1>3, <2>3 DEF Types, Stored
    <3>2. /\ SeaIndices(d)' = SeaIndices(d) /\ Indices(d)' = Indices(d)
          /\ \A i : AxisAt(d, i)' = AxisAt(d, i)
      BY <1>1, SameAxis DEF SeaIndices
    <3>3. Vars \subseteq DOMAIN File(d, source[d][t]).vars
      <4>. SUFFICES ASSUME NEW v \in Vars  PROVE v \in DOMAIN f.vars
        BY <2>3 DEF f
      <4>1. HasSlice(f, r, v, t)
        BY <2>3
      <4>2. r.slices[v] \in 0 .. Len(f.times) /\ (v \notin DOMAIN f.vars => r.slices[v] = 0)
        BY <1>2 DEF Readings
      <4>. QED  BY <4>1, <4>2 DEF HasSlice, ReadTimes
    <3>4. ASSUME NEW v \in Vars  PROVE series'[d][v] = AsRead(d, v)'
      <4>1. DOMAIN series[d][v] = DOMAIN SeaIndices(d)
        BY <2>1 DEF AsRead
      <4>2. ASSUME NEW j \in DOMAIN SeaIndices(d), NEW i \in Indices(d)
            PROVE  (IF AxisAt(d, i) = t THEN SliceAt(f, r, v, t)[SeaIndices(d)[j]] ELSE series[d][v][j][i])
                   = Reading(d, v, j, i)'
        <5>1. Reading(d, v, j, i)' =
                IF AxisAt(d, i) \in got'[d]
                THEN ValueIn(d, source[d][AxisAt(d, i)], v, AxisAt(d, i), SeaIndices(d)[j]) ELSE NaN
          BY <1>1, <3>2, SameArchive DEF Reading
        <5>2. CASE AxisAt(d, i) = t
          <6>1. SeaIndices(d)[j] \in 1 .. NumPoints(d)
            BY <1>3, SeaIndicesAre
          <6>2. SliceAt(f, r, v, t)[SeaIndices(d)[j]] = ValueIn(d, source[d][t], v, t, SeaIndices(d)[j])
            <7>1. HasSlice(f, r, v, t) /\ SeaIndices(d)[j] \in 1 .. NumPoints(sub)
              BY <2>3, <6>1
            <7>2. SliceAt(f, r, v, t)[SeaIndices(d)[j]] = ValueOf(f, v, t, SeaIndices(d)[j])
              BY <1>2, <1>6, <7>1, SliceIs
            <7>. QED  BY <2>3, <7>2 DEF ValueIn, ValueOf, f
          <6>. QED  BY <3>1, <5>1, <5>2, <6>2
        <5>3. CASE AxisAt(d, i) # t
          <6>1. AsRead(d, v)[j][i] = Reading(d, v, j, i)
            BY DEF AsRead
          <6>2. series[d][v][j][i] = Reading(d, v, j, i)
            BY <2>1, <6>1
          <6>. QED  BY <3>1, <5>1, <5>3, <6>2 DEF Reading
        <5>. QED  BY <5>2, <5>3
      <4>3. series'[d][v] = [j \in DOMAIN SeaIndices(d) |-> [i \in Indices(d) |->
              IF AxisAt(d, i) = t THEN SliceAt(f, r, v, t)[SeaIndices(d)[j]] ELSE series[d][v][j][i]]]
        BY <2>3, <3>1, <4>1 DEF StoredAt
      <4>4. AsRead(d, v)' = [j \in DOMAIN SeaIndices(d) |-> [i \in Indices(d) |-> Reading(d, v, j, i)']]
        BY <3>2 DEF AsRead
      <4>. QED  BY <4>2, <4>3, <4>4
    <3>. QED  BY <1>5, <2>1, <2>3, <3>1, <3>3, <3>4
  <2>4. d # sub => got'[d] = got[d] /\ series'[d] = series[d]
    BY <1>9
  <2>5. ~(\A n \in Vars : HasSlice(f, r, n, t)) => got'[d] = got[d] /\ series'[d] = series[d]
    BY <1>2, <1>3 DEF Types, Stored
  <2>. QED  BY <2>2, <2>3, <2>4, <2>5
<1>. QED  BY <1>1, <1>7, <1>10, <1>11, <1>12 DEF IInv

LEMMA EndLoadInv ==
  ASSUME AreArchives, IInv, EndLoad
  PROVE  IInv'
<1>1. /\ pc = "load" /\ sub' = 3 - sub /\ archive' = archive
      /\ UNCHANGED <<sea, day, source, series, start, seen, got>>
  BY DEF EndLoad, files, grids, axes
<1>2. Types /\ PhaseInv /\ SourceInv /\ LoadInv
  BY DEF IInv
<1>3. SourceInv'
  BY <1>1, <1>2, SourcesKept
<1>4. CASE sub = 1
  <2>1. pc' = "scan" /\ sub' = 2
    BY <1>1, <1>4 DEF EndLoad
  <2>2. Types'
    BY <1>1, <1>2, <2>1, SameArchive DEF Types, Domains
  <2>3. PhaseInv'
    BY <1>1, <1>2, <1>4, <2>1 DEF PhaseInv, Untouched, Fresh
  <2>4. LoadInv'
    <3>1. \A d \in Domains : Loaded(d)' => Loaded(d)
      BY <1>1, <1>4, <2>1 DEF Loaded, Domains
    <3>. QED  BY <1>1, <2>1, <3>1, LoadedKept
  <2>. QED  BY <1>3, <2>1, <2>2, <2>3, <2>4 DEF IInv
<1>5. CASE sub # 1
  <2>1. /\ pc' = "fill" /\ raw' = series /\ sub = 2 /\ sub' = 1
        /\ gaps' = UNION {{d} \X {n} \X DOMAIN series[d][n] : d \in Domains, n \in Vars}
    BY <1>1, <1>2, <1>5 DEF EndLoad, Types, Domains
  <2>2. Types'
    BY <1>1, <1>2, <2>1, SameArchive DEF Types, Domains
  <2>3. PhaseInv'
    BY <2>1 DEF PhaseInv
  <2>4. \A d \in Domains : Loaded(d)
    BY <1>1, <2>1 DEF Loaded, Domains
  <2>5. LoadInv'
    BY <1>1, <2>1, <2>4, LoadedKept
  <2>. QED  BY <1>3, <2>2, <2>3, <2>5 DEF IInv
<1>. QED  BY <1>4, <1>5
-----------------------------------------------------------------------------
(***************************************************************************)
(* Filling a gap                                                           *)
(***************************************************************************)

LEMMA MinIs ==
  ASSUME NEW S, S \subseteq Int, NEW x \in S, \A y \in S : x <= y
  PROVE  Min(S) = x
<1>1. x \in Int /\ \A y \in S : y \in Int /\ x <= y
  OBVIOUS
<1>2. \A z \in S : (\A y \in S : z <= y) => z = x
  BY <1>1
<1>. QED  BY <1>1, <1>2 DEF Min

LEMMA Quotient ==
  ASSUME NEW a \in Int, NEW b \in Int, b > 0
  PROVE  /\ a \div b \in Int /\ a % b \in Int
         /\ 0 <= a % b /\ a % b < b /\ a = b * (a \div b) + (a % b)
OBVIOUS

LEMMA SmallProduct ==
  ASSUME NEW e \in Int, e > 0, NEW k \in Int, 0 <= e * k, e * k < e
  PROVE  k = 0
<1>1. ASSUME k > 0  PROVE e * k >= e
  <2>1. k - 1 \in Nat /\ e \in Nat
    BY <1>1
  <2>2. \A u, v \in Nat : u * v \in Nat
    OBVIOUS
  <2>3. e * (k - 1) \in Nat
    BY <2>1, <2>2
  <2>4. e * (k - 1) = e * k - e /\ e * k \in Int
    OBVIOUS
  <2>. QED  BY <2>3, <2>4
<1>2. k < 0 => e * k < 0
  OBVIOUS
<1>. QED  BY <1>1, <1>2

\* A multiple of e is divided by it without a rest.
LEMMA ExactQuotient ==
  ASSUME NEW e \in Int, e > 0, NEW p \in Int
  PROVE  (e * p) \div e = p
<1> DEFINE q == (e * p) \div e
           r == (e * p) % e
<1>1. e * p \in Int
  OBVIOUS
<1>2. q \in Int /\ r \in Int /\ 0 <= r /\ r < e /\ e * p = e * q + r
  BY <1>1, Quotient
<1>. HIDE DEF q, r
<1>3. e * (p - q) = e * p - e * q /\ e * q \in Int
  BY <1>2
<1>4. 0 <= e * (p - q) /\ e * (p - q) < e
  BY <1>1, <1>2, <1>3
<1>5. p - q = 0
  BY <1>2, <1>4, SmallProduct
<1>6. q = p
  BY <1>2, <1>5
<1>. QED  BY <1>6 DEF q

\* A value that was read is complete.
LEMMA CompleteWhereRead ==
  ASSUME NEW n \in Nat, NEW y, DOMAIN y = 0 .. n - 1, \A i \in 0 .. n - 1 : y[i] \in Int \cup {NaN},
         NEW x, NEW i \in 0 .. n - 1, y[i] # NaN, x[i] = y[i]
  PROVE  CompleteAt(y, x, i)
<1>1. /\ i \in Behind(y, i) /\ Behind(y, i) \subseteq Int /\ \A j \in Behind(y, i) : j <= i
      /\ i \in Ahead(y, i) /\ Ahead(y, i) \subseteq Int /\ \A j \in Ahead(y, i) : i <= j
  BY DEF Behind, Ahead
<1>2. Max(Behind(y, i)) = i /\ Min(Ahead(y, i)) = i
  BY <1>1, MaxIs, MinIs
<1>3. y[i] \in Int /\ (y[i] - y[i]) * (i - i) = (y[i] - y[i]) * (i - i)
  OBVIOUS
<1>4. OnLine(y, x[i], i)
  BY <1>2, <1>3 DEF OnLine
<1>. QED  BY <1>1, <1>4 DEF CompleteAt

\* The gap at hand of a series x that has been filled below index s.
Absent(x, n, s)  == {i \in 0 .. n - 1 : i >= s /\ x[i] = NaN}
Present(x, n, b) == {i \in 0 .. n - 1 : i > b /\ x[i] # NaN} \cup {n}
Patched(x, n, b, e) ==
  [i \in 0 .. n - 1 |-> IF b <= i /\ i < e THEN Filled(x, n, b, e, i) ELSE x[i]]

LEMMA GapIs ==
  ASSUME NEW n \in Nat, NEW y, NEW x, NEW s, Partly(y, x, n, s), Absent(x, n, s) # {},
         NEW b, b = Min(Absent(x, n, s)), NEW e, e = Min(Present(x, n, b))
  PROVE  /\ s \in Nat /\ b \in 0 .. n - 1 /\ e \in 0 .. n /\ s <= b /\ b < e
         /\ e # n => y[e] # NaN /\ x[e] = y[e]
         /\ b > 0 => s <= b - 1 /\ y[b - 1] # NaN /\ x[b - 1] = y[b - 1]
         /\ \A i \in 0 .. n - 1 : b <= i /\ i < e => y[i] = NaN
         /\ \A i \in 0 .. n - 1 : s <= i /\ i < b => y[i] # NaN /\ x[i] = y[i]
<1>1. /\ s \in Nat /\ s <= n /\ (s = 0 \/ s = n \/ y[s] # NaN)
      /\ \A i \in 0 .. n - 1 : ~(i < s) => x[i] = y[i]
  BY DEF Partly
<1>2. IsFiniteSet(0 .. n - 1) /\ 0 .. n - 1 \subseteq Int
  BY FS_Interval
<1>3. b \in Absent(x, n, s) /\ \A i \in Absent(x, n, s) : b <= i
  <2>1. Absent(x, n, s) \in SUBSET (0 .. n - 1)
    BY DEF Absent
  <2>2. IsFiniteSet(Absent(x, n, s)) /\ Absent(x, n, s) \subseteq Int
    BY <1>2, <2>1, FS_Subset
  <2>. QED  BY <2>2, MinExists
<1>4. b \in 0 .. n - 1 /\ s <= b /\ x[b] = NaN /\ y[b] = NaN
  BY <1>1, <1>3 DEF Absent
<1>5. e \in Present(x, n, b) /\ \A i \in Present(x, n, b) : e <= i
  <2> DEFINE P == {i \in 0 .. n - 1 : i > b /\ x[i] # NaN}
  <2>1. P \in SUBSET (0 .. n - 1) /\ Present(x, n, b) = P \cup {n}
    BY DEF Present
  <2>. HIDE DEF P
  <2>2. IsFiniteSet(P)
    BY <1>2, <2>1, FS_Subset
  <2>3. IsFiniteSet(Present(x, n, b)) /\ Present(x, n, b) \subseteq Int /\ Present(x, n, b) # {}
    BY <1>2, <2>1, <2>2, FS_AddElement
  <2>. QED  BY <2>3, MinExists
<1>6. e \in 0 .. n /\ b < e /\ (e # n => e \in 0 .. n - 1 /\ x[e] # NaN)
  BY <1>4, <1>5 DEF Present
<1>7. e # n => y[e] # NaN /\ x[e] = y[e]
  BY <1>1, <1>4, <1>6
<1>8. \A i \in 0 .. n - 1 : b <= i /\ i < e => y[i] = NaN
  <2>. SUFFICES ASSUME NEW i \in 0 .. n - 1, b <= i, i < e  PROVE y[i] = NaN
    OBVIOUS
  <2>1. x[i] = y[i]
    BY <1>1, <1>4
  <2>2. i # b => i > b /\ i \notin Present(x, n, b)
    BY <1>4, <1>5, <1>6
  <2>. QED  BY <1>4, <2>1, <2>2 DEF Present
<1>9. \A i \in 0 .. n - 1 : s <= i /\ i < b => y[i] # NaN /\ x[i] = y[i]
  <2>. SUFFICES ASSUME NEW i \in 0 .. n - 1, s <= i, i < b  PROVE y[i] # NaN /\ x[i] = y[i]
    OBVIOUS
  <2>1. i \notin Absent(x, n, s) /\ x[i] = y[i]
    BY <1>1, <1>3, <1>4
  <2>. QED  BY <1>1, <2>1 DEF Absent
<1>10. b > 0 => s <= b - 1 /\ y[b - 1] # NaN /\ x[b - 1] = y[b - 1]
  <2>. SUFFICES ASSUME b > 0  PROVE s <= b - 1 /\ b - 1 \in 0 .. n - 1
    BY <1>4, <1>9
  <2>1. s # b
    BY <1>1, <1>4
  <2>. QED  BY <1>1, <1>4, <2>1
<1>. QED  BY <1>1, <1>4, <1>6, <1>7, <1>8, <1>9, <1>10

\* Filling it completes the series below its end.
LEMMA Patching ==
  ASSUME NEW n \in Nat, NEW y, DOMAIN y = 0 .. n - 1, \A i \in 0 .. n - 1 : y[i] \in Int \cup {NaN},
         \A i, j \in 0 .. n - 1 : i < j /\ y[i] # NaN /\ y[j] # NaN => \E w \in Int : y[j] - y[i] = w * (j - i),
         NEW x, NEW s, Partly(y, x, n, s), Absent(x, n, s) # {},
         NEW b, b = Min(Absent(x, n, s)), NEW e, e = Min(Present(x, n, b))
  PROVE  Partly(y, Patched(x, n, b, e), n, e)
<1> DEFINE z == Patched(x, n, b, e)
<1>1. /\ s \in Nat /\ b \in 0 .. n - 1 /\ e \in 0 .. n /\ s <= b /\ b < e
      /\ e # n => y[e] # NaN /\ x[e] = y[e]
      /\ b > 0 => s <= b - 1 /\ y[b - 1] # NaN /\ x[b - 1] = y[b - 1]
      /\ \A i \in 0 .. n - 1 : b <= i /\ i < e => y[i] = NaN
      /\ \A i \in 0 .. n - 1 : s <= i /\ i < b => y[i] # NaN /\ x[i] = y[i]
  BY GapIs
<1>2. /\ DOMAIN z = 0 .. n - 1
      /\ \A i \in 0 .. n - 1 : z[i] = IF b <= i /\ i < e THEN Filled(x, n, b, e, i) ELSE x[i]
  BY DEF Patched
<1>. HIDE DEF z
<1>3. \A i \in 0 .. n - 1 : IF i < s THEN CompleteAt(y, x, i) ELSE x[i] = y[i]
  BY DEF Partly
<1>4. ASSUME NEW i \in 0 .. n - 1, ~(i < e)  PROVE z[i] = y[i]
  <2>1. ~(i < s) /\ z[i] = x[i]
    BY <1>1, <1>2, <1>4
  <2>. QED  BY <1>3, <2>1
<1>5. ASSUME NEW i \in 0 .. n - 1, i < s  PROVE CompleteAt(y, z, i)
  <2>1. z[i] = x[i]
    BY <1>1, <1>2, <1>5
  <2>2. CompleteAt(y, x, i)
    BY <1>3, <1>5
  <2>. QED  BY <2>1, <2>2 DEF CompleteAt
<1>6. ASSUME NEW i \in 0 .. n - 1, s <= i, i < b  PROVE CompleteAt(y, z, i)
  <2>1. z[i] = y[i] /\ y[i] # NaN
    BY <1>1, <1>2, <1>6
  <2>. QED  BY <2>1, CompleteWhereRead
<1>7. ASSUME NEW i \in 0 .. n - 1, b <= i, i < e  PROVE CompleteAt(y, z, i)
  <2>1. z[i] = Filled(x, n, b, e, i) /\ i \in Int /\ b \in Int /\ e \in Int
    BY <1>1, <1>2, <1>7
  <2>2. IF b > 0 THEN Behind(y, i) # {} /\ Max(Behind(y, i)) = b - 1 ELSE Behind(y, i) = {}
    <3>1. \A j \in Behind(y, i) : j \in Int /\ j < b
      <4>1. \A j \in 0 .. n - 1 : b <= j /\ j <= i => y[j] = NaN
        BY <1>1, <1>7, <2>1
      <4>. QED  BY <1>1, <4>1 DEF Behind
    <3>2. CASE b > 0
      <4>1. b - 1 \in Behind(y, i)
        BY <1>1, <1>7, <2>1, <3>2 DEF Behind
      <4>2. \A j \in Behind(y, i) : j <= b - 1
        BY <2>1, <3>1
      <4>3. Max(Behind(y, i)) = b - 1
        BY <3>1, <4>1, <4>2, MaxIs
      <4>. QED  BY <3>2, <4>1, <4>3
    <3>3. CASE ~(b > 0)
      <4>1. \A j \in Behind(y, i) : j \in 0 .. n - 1
        BY DEF Behind
      <4>. QED  BY <1>1, <3>1, <3>3, <4>1
    <3>. QED  BY <3>2, <3>3
  <2>3. IF e < n THEN Ahead(y, i) # {} /\ Min(Ahead(y, i)) = e ELSE Ahead(y, i) = {}
    <3>1. \A j \in Ahead(y, i) : j \in Int /\ e <= j /\ j < n
      <4>1. \A j \in 0 .. n - 1 : i <= j /\ j < e => y[j] = NaN
        BY <1>1, <1>7, <2>1
      <4>. QED  BY <1>1, <4>1 DEF Ahead
    <3>2. CASE e < n
      <4>1. e \in Ahead(y, i)
        BY <1>1, <1>7, <2>1, <3>2 DEF Ahead
      <4>2. Min(Ahead(y, i)) = e
        BY <3>1, <4>1, MinIs
      <4>. QED  BY <3>2, <4>1, <4>2
    <3>3. CASE ~(e < n)
      BY <1>1, <3>1, <3>3
    <3>. QED  BY <3>2, <3>3
  <2>4. CASE b > 0 /\ e < n
    <3> DEFINE l == b - 1
    <3>1. /\ l \in 0 .. n - 1 /\ e \in 0 .. n - 1 /\ l < e /\ y[l] # NaN /\ y[e] # NaN
          /\ x[l] = y[l] /\ x[e] = y[e] /\ y[l] \in Int /\ y[e] \in Int
      <4>1. l \in 0 .. n - 1 /\ e \in 0 .. n - 1 /\ l < e
        BY <1>1, <2>4
      <4>. QED  BY <1>1, <2>4, <4>1
    <3>2. Max(Behind(y, i)) = l /\ Min(Ahead(y, i)) = e
      BY <2>2, <2>3, <2>4
    <3>. HIDE DEF l
    <3>3. PICK w \in Int : y[e] - y[l] = w * (e - l)
      BY <3>1
    <3>4. z[i] = y[l] + ((y[e] - y[l]) * (i - l)) \div (e - l)
      BY <2>1, <2>4, <3>1 DEF Filled, BetweenFrom, l
    <3> DEFINE m == i - l
               k == e - l
    <3>5. m \in Int /\ k \in Int /\ k > 0
      BY <2>1, <3>1
    <3>6. y[e] - y[l] = w * k /\ z[i] = y[l] + ((y[e] - y[l]) * m) \div k
      BY <3>3, <3>4
    <3>7. (z[i] - y[l]) * k = (y[e] - y[l]) * m
      <4>. HIDE DEF m, k
      <4>1. w * m \in Int /\ (w * k) * m = k * (w * m)
        BY <3>5
      <4>2. (k * (w * m)) \div k = w * m
        BY <3>5, <4>1, ExactQuotient
      <4>3. z[i] = y[l] + w * m
        BY <3>6, <4>1, <4>2
      <4>4. z[i] - y[l] = w * m
        BY <3>1, <4>1, <4>3
      <4>5. (w * m) * k = (w * k) * m
        BY <3>5
      <4>. QED  BY <3>6, <4>4, <4>5
    <3>8. OnLine(y, z[i], i)
      <4>1. l # e
        BY <2>1, <3>1
      <4>. QED  BY <3>2, <3>7, <4>1 DEF OnLine
    <3>. QED  BY <2>2, <2>3, <2>4, <3>8 DEF CompleteAt
  <2>5. CASE ~(b > 0 /\ e < n)
    <3>1. b > 0 => z[i] = y[b - 1]
      BY <1>1, <2>1, <2>5 DEF Filled
    <3>2. ~(b > 0) /\ e < n => z[i] = y[e]
      BY <1>1, <2>1, <2>5 DEF Filled
    <3>3. ~(b > 0) /\ ~(e < n) => z[i] = 0
      BY <1>1, <2>1, <2>5 DEF Filled
    <3>. QED  BY <2>2, <2>3, <2>5, <3>1, <3>2, <3>3 DEF CompleteAt
  <2>. QED  BY <2>4, <2>5
<1>8. \A i \in 0 .. n - 1 : IF i < e THEN CompleteAt(y, z, i) ELSE z[i] = y[i]
  <2>. TAKE i \in 0 .. n - 1
  <2>1. i < s \/ (s <= i /\ i < b) \/ (b <= i /\ i < e) \/ ~(i < e)
    BY <1>1
  <2>. QED  BY <1>1, <1>4, <1>5, <1>6, <1>7, <2>1
<1>9. e = 0 \/ e = n \/ y[e] # NaN
  BY <1>1
<1>10. Partly(y, z, n, e)
  BY <1>1, <1>2, <1>8, <1>9 DEF Partly
<1>. QED  BY <1>10 DEF z

\* A series without a gap is complete.
LEMMA NothingAbsent ==
  ASSUME NEW n \in Nat, NEW y, DOMAIN y = 0 .. n - 1, \A i \in 0 .. n - 1 : y[i] \in Int \cup {NaN},
         NEW x, NEW s, Partly(y, x, n, s), Absent(x, n, s) = {}
  PROVE  Complete(y, x)
<1>1. \A i \in DOMAIN y : CompleteAt(y, x, i)
  <2>. TAKE i \in DOMAIN y
  <2>1. IF i < s THEN CompleteAt(y, x, i) ELSE x[i] = y[i]
    BY DEF Partly
  <2>2. CASE ~(i < s)
    <3>1. i >= s
      BY <2>2 DEF Partly
    <3>2. x[i] # NaN
      BY <3>1 DEF Absent
    <3>. QED  BY <2>1, <2>2, <3>2, CompleteWhereRead
  <2>. QED  BY <2>1, <2>2
<1>. QED  BY <1>1 DEF Complete, CompleteAt
\* The values that a file has are numbers, or missing.
LEMMA ValuesAre ==
  ASSUME NEW f, NEW points \in Nat, IsFile(f, points), NEW v \in DOMAIN f.vars,
         NEW t \in ToSet(TimesOf(f)), NEW k \in 1 .. points
  PROVE  ValueOf(f, v, t, k) \in Int \cup {NaN}
<1>1. /\ Len(f.times) \in Nat /\ DOMAIN f.times = 1 .. Len(f.times) /\ DOMAIN TimesOf(f) = DOMAIN f.times
      /\ \A i, j \in DOMAIN f.times : TimesOf(f)[i] = TimesOf(f)[j] => i = j
  BY TimesAre DEF IsFile
<1>2. PICK i \in DOMAIN f.times : TimesOf(f)[i] = t
  BY <1>1 DEF ToSet
<1>3. {j \in DOMAIN f.times : TimesOf(f)[j] = t} = {i}
  BY <1>1, <1>2
<1>4. Max({i}) = i
  <2>1. i \in Int
    BY <1>1
  <2>. QED  BY <2>1, MaxIs
<1>5. f.vars[v].data[i][k] \in Int /\ f.vars[v].scale \in Int /\ f.vars[v].offset \in Int
  <2>1. /\ f.vars[v].data \in Seq(Seq(Int)) /\ Len(f.vars[v].data) = Len(f.times)
        /\ Len(f.vars[v].data[i]) = points /\ f.vars[v].scale \in Int /\ f.vars[v].offset \in Int
    BY DEF IsFile
  <2>2. f.vars[v].data[i] \in Seq(Int)
    BY <1>1, <2>1
  <2>. QED  BY <2>1, <2>2
<1>6. f.vars[v].data[i][k] * f.vars[v].scale + f.vars[v].offset \in Int
  BY <1>5
<1>. QED  BY <1>3, <1>4, <1>6 DEF ValueOf, Value

\* A series as it was read.
LEMMA RawIs ==
  ASSUME AreArchives, ExactSlopes, IInv, pc \in {"fill", "done", "built"},
         NEW d \in Domains, NEW v \in Vars, NEW j \in DOMAIN raw[d][v]
  PROVE  /\ N(d) \in Nat /\ DOMAIN raw[d][v][j] = 0 .. N(d) - 1
         /\ \A i \in 0 .. N(d) - 1 : raw[d][v][j][i] \in Int \cup {NaN}
         /\ \A i, l \in 0 .. N(d) - 1 : i < l /\ raw[d][v][j][i] # NaN /\ raw[d][v][j][l] # NaN =>
              \E w \in Int : raw[d][v][j][l] - raw[d][v][j][i] = w * (l - i)
<1>1. Types /\ SourceInv /\ LoadInv /\ Loaded(d)
  BY DEF IInv, Loaded
<1>2. /\ Known(d) # {} /\ got[d] \subseteq Known(d) /\ raw[d][v] = AsRead(d, v)
      /\ \A t \in got[d] : v \in DOMAIN File(d, source[d][t]).vars
  BY <1>1 DEF LoadInv
<1>3. N(d) \in Nat /\ Min(Known(d)) \in Int /\ Indices(d) = 0 .. N(d) - 1
  BY <1>1, <1>2, KnownAre DEF Indices
<1> DEFINE k == SeaIndices(d)[j]
           F(t) == File(d, source[d][t])
<1>4. j \in DOMAIN SeaIndices(d) /\ k \in 1 .. NumPoints(d) /\ NumPoints(d) \in Nat
  <2>1. j \in DOMAIN SeaIndices(d)
    BY <1>2 DEF AsRead
  <2>. QED  BY <1>1, <2>1, SeaIndicesAre
<1>5. /\ DOMAIN raw[d][v][j] = 0 .. N(d) - 1
      /\ \A i \in 0 .. N(d) - 1 : raw[d][v][j][i] = Reading(d, v, j, i)
  BY <1>2, <1>3, <1>4 DEF AsRead
<1>6. ASSUME NEW i \in 0 .. N(d) - 1, AxisAt(d, i) \in got[d]
      PROVE  /\ source[d][AxisAt(d, i)] \in Days /\ AxisAt(d, i) \in ToSet(TimesOf(F(AxisAt(d, i))))
             /\ v \in DOMAIN F(AxisAt(d, i)).vars
             /\ raw[d][v][j][i] = ValueOf(F(AxisAt(d, i)), v, AxisAt(d, i), k)
  <2>1. AxisAt(d, i) \in Known(d)
    BY <1>2, <1>6
  <2>2. raw[d][v][j][i] = ValueIn(d, source[d][AxisAt(d, i)], v, AxisAt(d, i), k)
    BY <1>5, <1>6 DEF Reading
  <2>. QED  BY <1>1, <1>2, <1>6, <2>1, <2>2, SourceIs DEF ValueIn, ValueOf
<1>7. ASSUME NEW i \in 0 .. N(d) - 1  PROVE raw[d][v][j][i] \in Int \cup {NaN}
  <2>1. CASE AxisAt(d, i) \in got[d]
    <3>1. IsFile(F(AxisAt(d, i)), NumPoints(d))
      BY <1>1, <1>6, <2>1, FilesAre DEF Types
    <3>. QED  BY <1>4, <1>6, <2>1, <3>1, ValuesAre
  <2>2. CASE AxisAt(d, i) \notin got[d]
    BY <1>5, <2>2 DEF Reading
  <2>. QED  BY <2>1, <2>2
<1>8. ASSUME NEW i \in 0 .. N(d) - 1, NEW l \in 0 .. N(d) - 1, i < l,
             raw[d][v][j][i] # NaN, raw[d][v][j][l] # NaN
      PROVE  \E w \in Int : raw[d][v][j][l] - raw[d][v][j][i] = w * (l - i)
  <2> DEFINE s == AxisAt(d, i)
             t == AxisAt(d, l)
             x == raw[d][v][j][i]
             y == raw[d][v][j][l]
             e == l - i
  <2>1. s \in got[d] /\ t \in got[d]
    BY <1>5, <1>8 DEF Reading
  <2>2. x \in Int /\ y \in Int /\ i \in Int /\ l \in Int /\ e \in Int /\ e > 0
    BY <1>3, <1>7, <1>8
  <2>3. s \in Int /\ t \in Int /\ t - s = Dt * e
    <3>1. \A a, p, q \in Int : a + p * Dt \in Int /\ (a + q * Dt) - (a + p * Dt) = Dt * (q - p)
      BY MonthAssumption
    <3>. QED  BY <1>3, <2>2, <3>1 DEF AxisAt
  <2>4. s < t /\ (t - s) % Dt = 0 /\ (t - s) \div Dt = e
    <3>1. Dt \in Int /\ Dt > 0
      BY MonthAssumption
    <3>2. (Dt * e) \div Dt = e
      BY <2>2, <3>1, ExactQuotient
    <3>3. Dt * e \in Int /\ Dt * e > 0
      BY <2>2, <3>1
    <3>4. (Dt * e) % Dt = 0
      <4>1. (Dt * e) % Dt \in Int /\ Dt * e = Dt * ((Dt * e) \div Dt) + ((Dt * e) % Dt)
        BY <3>1, <3>3, Quotient
      <4>. QED  BY <3>2, <3>3, <4>1
    <3>. HIDE DEF s, t, e
    <3>. QED  BY <2>3, <3>2, <3>3, <3>4
  <2>5. /\ x = ValueOf(F(s), v, s, k) /\ y = ValueOf(F(t), v, t, k)
        /\ source[d][s] \in Days /\ source[d][t] \in Days
        /\ s \in ToSet(TimesOf(F(s))) /\ t \in ToSet(TimesOf(F(t)))
        /\ v \in DOMAIN F(s).vars /\ v \in DOMAIN F(t).vars
    BY <1>6, <2>1
  <2>6. (y - x) % e = 0
    <3>1. /\ F(s) = Archives[archive].files[d][source[d][s]]
          /\ F(t) = Archives[archive].files[d][source[d][t]]
          /\ k \in 1 .. Len(Archives[archive].lon[d]) * Len(Archives[archive].lat[d])
          /\ archive \in DOMAIN Archives
      BY <1>1, <1>4 DEF File, Archive, NumPoints, Types
    <3>2. x # NaN /\ y # NaN
      BY <1>8
    <3>. HIDE DEF s, t, x, y, e, k, F
    <3>3. \A m, n \in Days :
            LET f == Archives[archive].files[d][m]
                g == Archives[archive].files[d][n]
            IN  v \in DOMAIN f.vars /\ v \in DOMAIN g.vars
                /\ s \in ToSet(TimesOf(f)) /\ t \in ToSet(TimesOf(g))
                /\ ValueOf(f, v, s, k) # NaN /\ ValueOf(g, v, t, k) # NaN =>
                  (ValueOf(g, v, t, k) - ValueOf(f, v, s, k)) % e = 0
      BY <2>4, <3>1 DEF ExactSlopes
    <3>. QED  BY <2>5, <3>1, <3>2, <3>3
  <2>7. (y - x) \div e \in Int /\ y - x = ((y - x) \div e) * e
    <3>. HIDE DEF x, y, e
    <3>1. y - x \in Int
      BY <2>2
    <3>2. /\ (y - x) \div e \in Int /\ (y - x) % e \in Int
          /\ y - x = e * ((y - x) \div e) + ((y - x) % e)
      BY <2>2, <3>1, Quotient
    <3>. QED  BY <2>2, <2>6, <3>1, <3>2
  <2>. QED  BY <2>7
<1>. QED  BY <1>3, <1>5, <1>7, <1>8

\* After the last second pass all series are as they were read, none patched.
LEMMA EndLoadFills ==
  ASSUME AreArchives, IInv, EndLoad
  PROVE  FillInv'
<1>1. /\ pc = "load" /\ sub' = 3 - sub /\ archive' = archive
      /\ UNCHANGED <<sea, day, source, series, start, seen, got>>
  BY DEF EndLoad, files, grids, axes
<1>2. Types /\ PhaseInv /\ LoadInv
  BY DEF IInv
<1>3. SUFFICES ASSUME sub # 1  PROVE FillInv'
  BY DEF EndLoad, FillInv
<1>4. /\ pc' = "fill" /\ raw' = series /\ sub = 2
      /\ gaps' = UNION {{d} \X {n} \X DOMAIN series[d][n] : d \in Domains, n \in Vars}
  BY <1>1, <1>2, <1>3 DEF EndLoad, Types, Domains
<1>5. ASSUME NEW d \in Domains, NEW v \in Vars, NEW j \in DOMAIN series[d][v]
      PROVE  /\ <<d, v, j>> \in gaps'
             /\ DOMAIN series[d][v][j] = Indices(d)
             /\ Partly(series[d][v][j], series[d][v][j], N(d), 0)
  <2>1. <<d, v, j>> \in gaps'
    <3> DEFINE All == {{e} \X {n} \X DOMAIN series[e][n] : e \in Domains, n \in Vars}
               T   == {d} \X {v} \X DOMAIN series[d][v]
    <3>1. <<d, v, j>> \in T /\ T \in All
      OBVIOUS
    <3>2. gaps' = UNION All
      BY <1>4
    <3>. HIDE DEF All, T
    <3>. QED  BY <3>1, <3>2
  <2>2. Known(d) # {} /\ series[d][v] = AsRead(d, v)
    BY <1>1, <1>2, <1>4 DEF LoadInv, Loaded, Domains
  <2>3. N(d) \in Nat
    BY <1>2, <2>2, KnownAre
  <2>4. DOMAIN series[d][v][j] = Indices(d) /\ Indices(d) = 0 .. N(d) - 1
    BY <2>2 DEF AsRead, Indices
  <2>5. \A i \in 0 .. N(d) - 1 : ~(i < 0)
    BY <2>3
  <2>. QED  BY <2>1, <2>3, <2>4, <2>5 DEF Partly
<1>6. raw' = series /\ series' = series /\ start' = 0 /\ pc' = "fill"
  BY <1>1, <1>2, <1>4 DEF PhaseInv
<1>7. \A e : N(e)' = N(e) /\ Indices(e)' = Indices(e)
  BY <1>1, SameAxis
<1>8. \A d \in Domains, v \in Vars : \A j \in DOMAIN series[d][v] : DOMAIN series[d][v][j] = Indices(d)
  BY <1>5
<1>9. \A d \in Domains, v \in Vars : \A j \in DOMAIN series[d][v] :
        <<d, v, j>> \in gaps' /\ Partly(series[d][v][j], series[d][v][j], N(d), 0)
  BY <1>5
<1>10. gaps' \subseteq UNION {{d} \X {v} \X DOMAIN series[d][v] : d \in Domains, v \in Vars}
  BY <1>4
<1>. QED  BY <1>6, <1>7, <1>8, <1>9, <1>10 DEF FillInv

\* The series at hand.
LEMMA AtHand ==
  ASSUME AreArchives, ExactSlopes, IInv, FillInv, pc = "fill", gaps # {}
  PROVE  \E d \in Domains, v \in Vars : \E j \in DOMAIN raw[d][v] :
           /\ Gap = <<d, v, j>> /\ Gap \in gaps
           /\ Series = series[d][v][j] /\ j \in DOMAIN series[d][v]
           /\ Partly(raw[d][v][j], Series, N(d), start)
           /\ Missing = Absent(Series, N(d), start)
           /\ DOMAIN Series = 0 .. N(d) - 1 /\ Cardinality(DOMAIN Series) = N(d)
<1>1. Gap \in gaps
  BY DEF Gap
<1>2. Gap \in UNION {{d} \X {v} \X DOMAIN raw[d][v] : d \in Domains, v \in Vars}
  BY <1>1 DEF FillInv
<1>3. PICK d \in Domains, v \in Vars : Gap \in {d} \X {v} \X DOMAIN raw[d][v]
  BY <1>2
<1>4. PICK j \in DOMAIN raw[d][v] : Gap = <<d, v, j>>
  BY <1>3
<1>5. Series = series[d][v][j]
  BY <1>4 DEF Series
<1>6. j \in DOMAIN series[d][v] /\ Partly(raw[d][v][j], Series, N(d), start)
  BY <1>1, <1>4, <1>5 DEF FillInv
<1>7. DOMAIN Series = 0 .. N(d) - 1
  BY <1>6 DEF Partly
<1>8. Missing = Absent(Series, N(d), start)
  BY <1>7 DEF Missing, Absent
<1>9. N(d) \in Nat
  BY <1>4, RawIs
<1>10. Cardinality(0 .. N(d) - 1) = N(d)
  BY <1>9, FS_Interval
<1>. QED  BY <1>1, <1>4, <1>5, <1>6, <1>7, <1>8, <1>10

LEMMA FillGapInv ==
  ASSUME AreArchives, ExactSlopes, IInv, FillInv, FillGap
  PROVE  FillInv'
<1>1. /\ pc = "fill" /\ pc' = "fill" /\ gaps # {} /\ gaps' = gaps /\ Missing # {} /\ archive' = archive
      /\ UNCHANGED <<sub, sea, day, source, seen, got, raw>> /\ start' = GapEnd
      /\ series' = [series EXCEPT ![Gap[1]][Gap[2]][Gap[3]] = [i \in DOMAIN Series |->
           IF GapBegin <= i /\ i < GapEnd
           THEN Filled(Series, Cardinality(DOMAIN Series), GapBegin, GapEnd, i) ELSE Series[i]]]
  BY DEF FillGap, files, grids, axes, history
<1>0. gaps \subseteq UNION {{d} \X {v} \X DOMAIN raw[d][v] : d \in Domains, v \in Vars}
  BY <1>1 DEF FillInv
<1>2. PICK d \in Domains, v \in Vars : \E j \in DOMAIN raw[d][v] :
           /\ Gap = <<d, v, j>> /\ Gap \in gaps
           /\ Series = series[d][v][j] /\ j \in DOMAIN series[d][v]
           /\ Partly(raw[d][v][j], Series, N(d), start)
           /\ Missing = Absent(Series, N(d), start)
           /\ DOMAIN Series = 0 .. N(d) - 1 /\ Cardinality(DOMAIN Series) = N(d)
  BY <1>1, AtHand
<1>3. PICK j \in DOMAIN raw[d][v] :
           /\ Gap = <<d, v, j>> /\ Gap \in gaps
           /\ Series = series[d][v][j] /\ j \in DOMAIN series[d][v]
           /\ Partly(raw[d][v][j], Series, N(d), start)
           /\ Missing = Absent(Series, N(d), start)
           /\ DOMAIN Series = 0 .. N(d) - 1 /\ Cardinality(DOMAIN Series) = N(d)
  BY <1>2
<1>4. Types
  BY DEF IInv
<1> DEFINE y == raw[d][v][j]
           x == Series
           z == Patched(x, N(d), GapBegin, GapEnd)
<1>5. GapBegin = Min(Absent(x, N(d), start)) /\ GapEnd = Min(Present(x, N(d), GapBegin))
  BY <1>3 DEF GapBegin, GapEnd, Present
<1>6. Partly(y, z, N(d), GapEnd)
  <2>1. /\ N(d) \in Nat /\ DOMAIN y = 0 .. N(d) - 1
        /\ \A i \in 0 .. N(d) - 1 : y[i] \in Int \cup {NaN}
        /\ \A i, l \in 0 .. N(d) - 1 : i < l /\ y[i] # NaN /\ y[l] # NaN =>
             \E w \in Int : y[l] - y[i] = w * (l - i)
    BY <1>1, RawIs
  <2>2. Partly(y, x, N(d), start) /\ Absent(x, N(d), start) # {}
    BY <1>1, <1>3
  <2>. HIDE DEF x, y
  <2>. QED  BY <1>5, <2>1, <2>2, Patching
<1>7. series' = [series EXCEPT ![d][v][j] = z]
  BY <1>1, <1>3 DEF Patched
<1>. HIDE DEF x, y, z
<1>8. /\ DOMAIN series' = Domains
      /\ \A e \in Domains : DOMAIN series'[e] = Vars
      /\ \A e \in Domains, u \in Vars : DOMAIN series'[e][u] = DOMAIN series[e][u]
      /\ \A e \in Domains, u \in Vars : \A i \in DOMAIN series[e][u] :
           series'[e][u][i] = IF <<e, u, i>> = <<d, v, j>> THEN z ELSE series[e][u][i]
  <2>1. DOMAIN series = Domains /\ \A e \in Domains : DOMAIN series[e] = Vars
    BY <1>4 DEF Types
  <2>. QED  BY <1>3, <1>7, <2>1
<1>9. Gap' = Gap
  BY <1>1 DEF Gap
<1>10. \A e : N(e)' = N(e) /\ Indices(e)' = Indices(e)
  BY <1>1, SameAxis
<1>11. FillInv'
  <2>1. gaps' \subseteq UNION {{e} \X {u} \X DOMAIN raw'[e][u] : e \in Domains, u \in Vars}
    BY <1>0, <1>1
  <2>2. \A e \in Domains, u \in Vars : DOMAIN series'[e][u] = DOMAIN raw[e][u]
    BY <1>1, <1>8 DEF FillInv
  <2>3. ASSUME NEW e \in Domains, NEW u \in Vars, NEW i \in DOMAIN raw[e][u]
        PROVE  /\ DOMAIN series'[e][u][i] = Indices(e)
               /\ IF <<e, u, i>> \notin gaps THEN Complete(raw[e][u][i], series'[e][u][i])
                  ELSE Partly(raw[e][u][i], series'[e][u][i], N(e), IF <<e, u, i>> = Gap THEN start' ELSE 0)
    <3>1. CASE <<e, u, i>> = <<d, v, j>>
      <4>1. DOMAIN z = 0 .. N(d) - 1
        BY DEF z, Patched
      <4>. QED  BY <1>1, <1>3, <1>6, <1>8, <3>1, <4>1 DEF y, FillInv, Indices
    <3>2. CASE <<e, u, i>> # <<d, v, j>>
      BY <1>1, <1>3, <1>8, <3>2 DEF FillInv
    <3>. QED  BY <3>1, <3>2
  <2>4. \A e \in Domains, u \in Vars : \A i \in DOMAIN raw[e][u] :
          DOMAIN series'[e][u][i] = Indices(e)
    BY <2>3
  <2>5. \A e \in Domains, u \in Vars : \A i \in DOMAIN raw[e][u] :
          IF <<e, u, i>> \notin gaps THEN Complete(raw[e][u][i], series'[e][u][i])
          ELSE Partly(raw[e][u][i], series'[e][u][i], N(e), IF <<e, u, i>> = Gap THEN start' ELSE 0)
    BY <2>3
  <2>6. raw' = raw /\ gaps' = gaps
    BY <1>1
  <2>. QED  BY <1>9, <1>10, <2>1, <2>2, <2>4, <2>5, <2>6 DEF FillInv
<1>. QED  BY <1>11

LEMMA EndFillInv ==
  ASSUME AreArchives, ExactSlopes, IInv, FillInv, EndFill
  PROVE  FillInv'
<1>1. /\ pc = "fill" /\ pc' = "fill" /\ gaps # {} /\ gaps' = gaps \ {Gap} /\ Missing = {} /\ archive' = archive
      /\ UNCHANGED <<source, raw, series>> /\ start' = 0
  BY DEF EndFill, files, axes, history
<1>0. gaps \subseteq UNION {{d} \X {v} \X DOMAIN raw[d][v] : d \in Domains, v \in Vars}
  BY <1>1 DEF FillInv
<1>2. PICK d \in Domains, v \in Vars : \E j \in DOMAIN raw[d][v] :
           /\ Gap = <<d, v, j>> /\ Gap \in gaps
           /\ Series = series[d][v][j] /\ j \in DOMAIN series[d][v]
           /\ Partly(raw[d][v][j], Series, N(d), start)
           /\ Missing = Absent(Series, N(d), start)
           /\ DOMAIN Series = 0 .. N(d) - 1 /\ Cardinality(DOMAIN Series) = N(d)
  BY <1>1, AtHand
<1>3. PICK j \in DOMAIN raw[d][v] :
           /\ Gap = <<d, v, j>> /\ Gap \in gaps
           /\ Series = series[d][v][j]
           /\ Partly(raw[d][v][j], Series, N(d), start)
           /\ Missing = Absent(Series, N(d), start)
  BY <1>2
<1>4. Complete(raw[d][v][j], series[d][v][j])
  BY <1>1, <1>3, RawIs, NothingAbsent
<1>5. \A e : N(e)' = N(e) /\ Indices(e)' = Indices(e)
  BY <1>1, SameAxis
<1>6. ASSUME NEW e \in Domains, NEW u \in Vars, NEW i \in DOMAIN raw[e][u]
      PROVE  IF <<e, u, i>> \notin gaps' THEN Complete(raw[e][u][i], series[e][u][i])
             ELSE Partly(raw[e][u][i], series[e][u][i], N(e), IF <<e, u, i>> = Gap' THEN start' ELSE 0)
  <2>1. CASE <<e, u, i>> = Gap
    BY <1>1, <1>3, <1>4, <2>1
  <2>2. CASE <<e, u, i>> # Gap
    <3>1. IF <<e, u, i>> \notin gaps' THEN Complete(raw[e][u][i], series[e][u][i])
          ELSE Partly(raw[e][u][i], series[e][u][i], N(e), 0)
      BY <1>1, <2>2 DEF FillInv
    <3>. QED  BY <1>1, <3>1
  <2>. QED  BY <2>1, <2>2
<1>7. \A e \in Domains, u \in Vars : \A i \in DOMAIN raw[e][u] :
        IF <<e, u, i>> \notin gaps' THEN Complete(raw[e][u][i], series[e][u][i])
        ELSE Partly(raw[e][u][i], series[e][u][i], N(e), IF <<e, u, i>> = Gap' THEN start' ELSE 0)
  BY <1>6
<1>8. /\ \A e \in Domains, u \in Vars : DOMAIN series[e][u] = DOMAIN raw[e][u]
      /\ \A e \in Domains, u \in Vars : \A i \in DOMAIN raw[e][u] : DOMAIN series[e][u][i] = Indices(e)
  BY <1>1 DEF FillInv
<1>9. gaps' \subseteq UNION {{e} \X {u} \X DOMAIN raw'[e][u] : e \in Domains, u \in Vars}
  BY <1>0, <1>1
<1>10. raw' = raw /\ series' = series
  BY <1>1
<1>. QED  BY <1>5, <1>7, <1>8, <1>9, <1>10 DEF FillInv

-----------------------------------------------------------------------------
(***************************************************************************)
(* The theorems                                                            *)
(***************************************************************************)

LEMMA LaterInv ==
  ASSUME AreArchives, IInv, EndFill \/ JoinSplines \/ BuildKdTree
  PROVE  IInv'
<1>1. /\ pc \in {"fill", "done"} /\ pc' \in {"fill", "done", "built", "failed"} /\ archive' = archive
      /\ UNCHANGED <<sub, sea, day, source, series, seen, got, raw>>
  BY DEF EndFill, JoinSplines, BuildKdTree, files, grids, axes, history
<1>2. Types /\ SourceInv
  BY DEF IInv
<1>3. Types'
  BY <1>1, <1>2, SameArchive DEF Types
<1>4. PhaseInv'
  BY <1>1 DEF PhaseInv
<1>5. SourceInv'
  BY <1>1, <1>2, SourcesKept
<1>6. LoadInv'
  BY <1>1, LoadedKept DEF Loaded
<1>. QED  BY <1>3, <1>4, <1>5, <1>6 DEF IInv

\* The search in the trees, and steps that change nothing.
LEMMA MonthKept ==
  ASSUME UNCHANGED <<files, month>>
  PROVE  /\ IInv => IInv'
         /\ FillInv => FillInv'
<1>1. /\ archive' = archive
      /\ UNCHANGED <<pc, sub, sea, day, source, unread, series, gaps, start, seen, got, raw>>
  BY DEF files, month, grids, axes, filling, history
<1>2. ASSUME IInv  PROVE IInv'
  <2>1. Types'
    BY <1>1, <1>2, SameArchive DEF IInv, Types
  <2>2. PhaseInv'
    <3>1. \A d : Known(d)' = Known(d)
      BY <1>1, SameAxis
    <3>. QED  BY <1>1, <1>2, <3>1 DEF IInv, PhaseInv, Untouched, Fresh
  <2>3. SourceInv'
    BY <1>1, <1>2, SourcesKept DEF IInv
  <2>4. LoadInv'
    BY <1>1, <1>2, LoadedKept DEF Loaded
  <2>. QED  BY <2>1, <2>2, <2>3, <2>4 DEF IInv
<1>3. ASSUME FillInv  PROVE FillInv'
  <2>1. \A d : N(d)' = N(d) /\ Indices(d)' = Indices(d)
    BY <1>1, SameAxis
  <2>2. Gap' = Gap
    BY <1>1 DEF Gap
  <2>. QED  BY <1>1, <1>3, <2>1, <2>2 DEF FillInv
<1>. QED  BY <1>2, <1>3

\* Of the series of a sub-domain IInv says nothing when they are patched.
LEMMA FillGapKeeps ==
  ASSUME IInv, FillGap
  PROVE  IInv'
<1>1. /\ pc = "fill" /\ pc' = "fill" /\ archive' = archive
      /\ UNCHANGED <<sub, sea, day, source, seen, got, raw>>
      /\ \E F : series' = [series EXCEPT ![Gap[1]][Gap[2]][Gap[3]] = F]
  BY DEF FillGap, files, grids, axes, history
<1>2. Types /\ SourceInv
  BY DEF IInv
<1>3. DOMAIN series' = Domains /\ \A d \in Domains : DOMAIN series'[d] = Vars
  BY <1>1, <1>2 DEF Types
<1>4. Types'
  BY <1>1, <1>2, <1>3, SameArchive DEF Types
<1>5. PhaseInv'
  BY <1>1 DEF PhaseInv
<1>6. SourceInv'
  BY <1>1, <1>2, SourcesKept
<1>7. LoadInv'
  BY <1>1, LoadedKept DEF Loaded
<1>. QED  BY <1>4, <1>5, <1>6, <1>7 DEF IInv

LEMMA StepInv ==
  ASSUME AreArchives, IInv, [Next]_vars
  PROVE  IInv'
<1>1. CASE ReadGrid
  BY <1>1, ReadGridInv
<1>2. CASE BuildClouds
  BY <1>2, BuildCloudsInv
<1>3. CASE ScanFile
  BY <1>3, ScanFileInv
<1>4. CASE EndScan
  BY <1>4, EndScanInv
<1>5. CASE LoadTime
  BY <1>5, LoadTimeInv
<1>6. CASE EndLoad
  BY <1>6, EndLoadInv
<1>7. CASE FillGap
  BY <1>7, FillGapKeeps
<1>8. CASE EndFill \/ JoinSplines \/ BuildKdTree
  BY <1>8, LaterInv
<1>9. CASE UNCHANGED <<files, month>>
  BY <1>9, MonthKept
<1>10. FindPoints => UNCHANGED <<files, month>>
  BY DEF FindPoints
<1>11. UNCHANGED vars => UNCHANGED <<files, month>>
  BY DEF vars
<1>. QED  BY <1>1, <1>2, <1>3, <1>4, <1>5, <1>6, <1>7, <1>8, <1>9, <1>10, <1>11 DEF Next

\* Once all is loaded, every series holds what was read and was patched as far
\* as interpolateMissingData has come.
LEMMA StepFills ==
  ASSUME AreArchives, ExactSlopes, IInv, FillInv, [Next]_vars
  PROVE  FillInv'
<1>1. CASE ReadGrid \/ BuildClouds \/ ScanFile \/ EndScan \/ LoadTime \/ JoinSplines \/ BuildKdTree
  <2>1. pc' # "fill"
    BY <1>1 DEF ReadGrid, BuildClouds, ScanFile, EndScan, LoadTime, JoinSplines, BuildKdTree
  <2>. QED  BY <2>1 DEF FillInv
<1>2. CASE EndLoad
  BY <1>2, EndLoadFills
<1>3. CASE FillGap
  BY <1>3, FillGapInv
<1>4. CASE EndFill
  BY <1>4, EndFillInv
<1>5. CASE UNCHANGED <<files, month>>
  BY <1>5, MonthKept
<1>6. FindPoints => UNCHANGED <<files, month>>
  BY DEF FindPoints
<1>7. UNCHANGED vars => UNCHANGED <<files, month>>
  BY DEF vars
<1>. QED  BY <1>1, <1>2, <1>3, <1>4, <1>5, <1>6, <1>7 DEF Next

\* Whatever reads fail, and in whatever order sub-domains, files and times are
\* worked on: the map from times to files names the last file seen to have a
\* time, and the series of a sub-domain hold just what was read of those files.
THEOREM MonthInvariance == AreArchives => (Spec => []IInv)
<1>. SUFFICES ASSUME AreArchives  PROVE Spec => []IInv
  OBVIOUS
<1>1. Init => IInv
  BY InitInv
<1>2. IInv /\ [Next]_vars => IInv'
  BY StepInv
<1>. QED  BY <1>1, <1>2, PTL DEF Spec

\* In every archive a time has the values of one file in all variables and at
\* all points, the last file that the first pass saw to have it, or it is
\* missing in all (loadOneMonth, readAndStoreVariables).
THEOREM OneSource == AreArchives => (Spec => []OneSourcePerTime)
<1>. SUFFICES ASSUME AreArchives  PROVE Spec => []OneSourcePerTime
  OBVIOUS
<1>1. IInv => OneSourcePerTime
  <2>. SUFFICES ASSUME IInv, pc = "fill", NEW d \in Domains, NEW i \in Indices(d)
                PROVE  LET t == AxisAt(d, i)
                           points(v) == DOMAIN raw[d][v]
                       IN  \/ \A v \in Vars : \A j \in points(v) : raw[d][v][j][i] = NaN
                           \/ \A v \in Vars : \A j \in points(v) :
                                raw[d][v][j][i] = ValueIn(d, LastSeen(d, t), v, t, SeaIndices(d)[j])
    BY DEF OneSourcePerTime
  <2>1. Types /\ SourceInv /\ LoadInv /\ Loaded(d)
    BY DEF IInv, Loaded
  <2>2. got[d] \subseteq Known(d) /\ \A v \in Vars : raw[d][v] = AsRead(d, v)
    BY <2>1 DEF LoadInv
  <2>3. \A v \in Vars : \A j \in DOMAIN raw[d][v] : raw[d][v][j][i] = Reading(d, v, j, i)
    <3>. TAKE v \in Vars
    <3>. TAKE j \in DOMAIN raw[d][v]
    <3>1. j \in DOMAIN SeaIndices(d)
      BY <2>2 DEF AsRead
    <3>2. AsRead(d, v)[j][i] = Reading(d, v, j, i)
      BY <3>1 DEF AsRead
    <3>. QED  BY <2>2, <3>2
  <2>4. AxisAt(d, i) \in got[d] => source[d][AxisAt(d, i)] = LastSeen(d, AxisAt(d, i))
    BY <2>1, <2>2, SourceIs
  <2>. QED  BY <2>3, <2>4 DEF Reading
<1>. QED  BY <1>1, MonthInvariance, PTL

\* For a month of any length, whichever files were skipped in the first pass: the
\* axis of a sub-domain reaches over all times of the others, and beyond the end
\* of the month at which the outermost file could be read (of the day before or
\* two days after, which loadOneMonth reads as well), so that no look-up of a
\* velocity extrapolates there.
THEOREM AxisIsLongEnough == AreArchives /\ EndsAreDaily => (Spec => []AxisCovers)
<1>. SUFFICES ASSUME AreArchives, EndsAreDaily  PROVE Spec => []AxisCovers
  OBVIOUS
<1>1. IInv => AxisCovers
  <2>. SUFFICES ASSUME IInv, pc = "done", NEW d \in Domains
                PROVE  /\ \A n \in seen[d] : \A t \in ToSet(TimesOf(File(d, n))) :
                            AxisAt(d, 0) <= t /\ t < AxisAt(d, N(d) - 1) + Dt
                       /\ FirstDay \in seen[d] => AxisAt(d, 0) <= 0
                       /\ LastDay \in seen[d] => AxisAt(d, N(d) - 1) >= MonthDays * Day
    BY DEF AxisCovers
  <2>1. Types /\ SourceInv /\ LoadInv /\ Loaded(d)
    BY DEF IInv, Loaded
  <2>2. Known(d) # {}
    BY <2>1 DEF LoadInv
  <2>3. ASSUME NEW n \in seen[d], NEW t \in ToSet(TimesOf(File(d, n)))  PROVE t \in Known(d)
    <3>0. n \in Days /\ seen[d] \subseteq Days
      BY <2>1 DEF Types
    <3>1. t \in AllTimes
      BY <2>1, <3>0, AllTimesAre DEF Types
    <3>2. n \in Having(d, t)
      BY DEF Having
    <3>3. Having(d, t) \in SUBSET Days
      BY <3>0 DEF Having
    <3>4. IsFiniteSet(Having(d, t)) /\ Having(d, t) \subseteq Int
      BY <3>3, DaysAre, FS_Subset
    <3>5. Max(Having(d, t)) \in Having(d, t)
      BY <3>2, <3>4, MaxExists
    <3>6. source[d][t] # NoDay
      BY <2>1, <3>1, <3>2, <3>3, <3>5, DaysAre DEF SourceInv, Latest
    <3>. QED  BY <3>1, <3>6 DEF Known
  <2> DEFINE A == Min(Known(d))
             B == Max(Known(d))
             q == (B - A) \div Dt
  <2>4. /\ A \in Int /\ B \in Int /\ \A t \in Known(d) : A <= t /\ t <= B
        /\ Known(d) \subseteq Int
    BY <2>1, <2>2, KnownAre
  <2>5. /\ MonthDays \in Nat /\ Day \in Nat /\ Dt \in Nat /\ Dt > 0 /\ Dt <= Day
        /\ archive \in DOMAIN Archives
    BY <2>1, MonthAssumption DEF EndsAreDaily, Types
  <2>6. ASSUME FirstDay \in seen[d]  PROVE A <= 0
    <3>0. FirstDay = -1
      BY MonthAssumption, DaysAre DEF Days
    <3>1. PICK t \in ToSet(TimesOf(File(d, -1))) : t < (-1 + 1) * Day
      BY <2>5 DEF EndsAreDaily, File, Archive
    <3>2. t \in Known(d) /\ t \in Int
      BY <2>3, <2>4, <2>6, <3>0
    <3>3. t < 0
      BY <2>5, <3>1, <3>2
    <3>. HIDE DEF A
    <3>. QED  BY <2>4, <3>2, <3>3
  <2>7. ASSUME LastDay \in seen[d]  PROVE B >= (MonthDays + 1) * Day
    <3>0. LastDay = MonthDays + 1
      <4>1. \A n \in Days : n <= MonthDays + 1
        BY MonthAssumption DEF Days
      <4>. QED  BY <4>1, DaysAre, MaxIs DEF LastDay
    <3>1. PICK t \in ToSet(TimesOf(File(d, MonthDays + 1))) : (MonthDays + 1) * Day <= t
      BY <2>5 DEF EndsAreDaily, File, Archive
    <3>2. t \in Known(d) /\ t \in Int
      BY <2>3, <2>4, <2>7, <3>0
    <3>3. (MonthDays + 1) * Day \in Int
      BY <2>5
    <3>. HIDE DEF B
    <3>. QED  BY <2>4, <3>1, <3>2, <3>3
  <2>8. q \in Int /\ Dt * q > B - A - Dt
    <3>. HIDE DEF A, B
    <3>1. B - A \in Int /\ Dt \in Int
      BY <2>4, <2>5
    <3>2. q \in Int /\ (B - A) % Dt \in Int /\ (B - A) % Dt < Dt /\ B - A = Dt * q + ((B - A) % Dt)
      BY <2>5, <3>1, Quotient
    <3>3. Dt * q \in Int
      BY <3>1, <3>2
    <3>. QED  BY <3>1, <3>2, <3>3
  <2>9. AxisAt(d, 0) = A /\ AxisAt(d, N(d) - 1) = A + Dt * q
    <3>1. N(d) - 1 = q
      <4>1. N(d) = q + 1
        BY DEF N
      <4>. HIDE DEF q
      <4>. QED  BY <2>8, <4>1
    <3>2. AxisAt(d, 0) = A + 0 * Dt /\ AxisAt(d, N(d) - 1) = A + q * Dt
      BY <3>1 DEF AxisAt
    <3>3. 0 * Dt = 0 /\ q * Dt = Dt * q
      <4>. HIDE DEF q
      <4>. QED  BY <2>5, <2>8
    <3>. HIDE DEF A, q
    <3>. QED  BY <2>4, <3>2, <3>3
  <2>10. (MonthDays + 1) * Day = MonthDays * Day + Day /\ MonthDays * Day \in Int /\ Dt * q \in Int
    <3>. HIDE DEF q
    <3>. QED  BY <2>5, <2>8
  <2>11. ASSUME NEW n \in seen[d], NEW t \in ToSet(TimesOf(File(d, n)))
         PROVE  A <= t /\ t < A + Dt * q + Dt
    <3>1. t \in Known(d) /\ t \in Int /\ A <= t /\ t <= B
      BY <2>3, <2>4
    <3>. HIDE DEF A, B, q
    <3>. QED  BY <2>4, <2>5, <2>8, <2>10, <3>1
  <2>12. FirstDay \in seen[d] => AxisAt(d, 0) <= 0
    BY <2>6, <2>9
  <2>13. LastDay \in seen[d] => AxisAt(d, N(d) - 1) >= MonthDays * Day
    <3>. HIDE DEF A, B, q
    <3>. QED  BY <2>4, <2>5, <2>7, <2>8, <2>9, <2>10
  <2>14. ASSUME NEW n \in seen[d], NEW t \in ToSet(TimesOf(File(d, n)))
         PROVE  AxisAt(d, 0) <= t /\ t < AxisAt(d, N(d) - 1) + Dt
    <3>. HIDE DEF A, q
    <3>. QED  BY <2>9, <2>11
  <2>. QED  BY <2>12, <2>13, <2>14
<1>. QED  BY <1>1, MonthInvariance, PTL

LEMMA FillInvariance == AreArchives /\ ExactSlopes => (Spec => [](IInv /\ FillInv))
<1>. SUFFICES ASSUME AreArchives, ExactSlopes  PROVE Spec => [](IInv /\ FillInv)
  OBVIOUS
<1>1. Init => IInv /\ FillInv
  BY InitInv DEF Init, FillInv
<1>2. IInv /\ FillInv /\ [Next]_vars => (IInv /\ FillInv)'
  BY StepInv, StepFills
<1>. QED  BY <1>1, <1>2, PTL DEF Spec

\* However long the gaps of a series are and wherever they begin and end: when
\* interpolateMissingData is through, every value that was read is there still,
\* and every other one is on the line between its neighbours in the series as
\* it was read.
THEOREM GapsAreOnLines == AreArchives /\ ExactSlopes => (Spec => []GapsOnLines)
<1>. SUFFICES ASSUME AreArchives, ExactSlopes  PROVE Spec => []GapsOnLines
  OBVIOUS
<1>1. IInv /\ FillInv => GapsOnLines
  BY DEF FillInv, GapsOnLines
<1>. QED  BY <1>1, FillInvariance, PTL

-----------------------------------------------------------------------------
(***************************************************************************)
(* Points, series and splines                                              *)
(***************************************************************************)

CloudInv ==
  pc \in {"scan", "load", "fill", "done", "built"} =>
    sea_cloud = SeaPoints(1) \o SeaPoints(2) /\ land_cloud = LandPoints

SplineInv ==
  pc = "done" =>
    /\ spl = [n \in Vars |-> Joined(n)]
    /\ \A d \in Domains, v \in Vars : DOMAIN series[d][v] = DOMAIN raw[d][v]
    /\ \A d \in Domains, v \in Vars : \A j \in DOMAIN raw[d][v] :
         DOMAIN series[d][v][j] = Indices(d) /\ Complete(raw[d][v][j], series[d][v][j])

LEMMA SamePoints ==
  ASSUME archive' = archive, sea' = sea
  PROVE  (\A d : SeaPoints(d)' = SeaPoints(d)) /\ LandPoints' = LandPoints
<1>1. \A d, k : Position(d, k)' = Position(d, k)
  BY DEF Position, Archive
<1>2. \A d : SeaIndices(d)' = SeaIndices(d)
  BY DEF SeaIndices
<1>3. \A d : SeaPoints(d)' = SeaPoints(d)
  BY <1>1, <1>2 DEF SeaPoints
<1>4. Total' = Total /\ Marked' = Marked /\ \A i : GridOf(i)' = GridOf(i)
  BY SameArchive DEF Total, Marked, GridOf
<1>5. InOrder(1 .. Total \ Marked)' = InOrder(1 .. Total \ Marked)
  BY <1>4
<1>6. LandPoints' = LandPoints
  BY <1>1, <1>4, <1>5 DEF LandPoints
<1>. QED  BY <1>3, <1>6

LEMMA StepClouds ==
  ASSUME CloudInv, [Next]_vars
  PROVE  CloudInv'
<1>1. CASE ReadGrid
  BY <1>1 DEF ReadGrid, CloudInv
<1>2. CASE BuildClouds
  <2>1. archive' = archive /\ sea' = sea /\ sea_cloud' = SeaPoints(1) \o SeaPoints(2) /\ land_cloud' = LandPoints
    BY <1>2 DEF BuildClouds, files
  <2>2. SeaPoints(1)' = SeaPoints(1) /\ SeaPoints(2)' = SeaPoints(2) /\ LandPoints' = LandPoints
    BY <2>1, SamePoints
  <2>. QED  BY <2>1, <2>2 DEF CloudInv
<1>3. ASSUME archive' = archive, UNCHANGED grids,
             pc' \in {"scan", "load", "fill", "done", "built"} => pc \in {"scan", "load", "fill", "done", "built"}
      PROVE  CloudInv'
  <2>1. sea' = sea /\ sea_cloud' = sea_cloud /\ land_cloud' = land_cloud
    BY <1>3 DEF grids
  <2>2. SeaPoints(1)' = SeaPoints(1) /\ SeaPoints(2)' = SeaPoints(2) /\ LandPoints' = LandPoints
    BY <1>3, <2>1, SamePoints
  <2>. QED  BY <1>3, <2>1, <2>2 DEF CloudInv
<1>4. \A w : Try(w) => archive' = archive
  BY DEF Try
<1>5. CASE ScanFile \/ LoadTime
  <2>1. archive' = archive
    BY <1>4, <1>5 DEF ScanFile, LoadTime
  <2>2. UNCHANGED grids /\ pc' = pc
    BY <1>5 DEF ScanFile, LoadTime
  <2>. QED  BY <1>3, <2>1, <2>2
<1>6. CASE EndScan \/ EndLoad \/ FillGap \/ EndFill \/ JoinSplines \/ BuildKdTree
  <2>1. UNCHANGED <<archive, grids>> /\ pc \in {"scan", "load", "fill", "done", "built"}
    BY <1>6 DEF EndScan, EndLoad, FillGap, EndFill, JoinSplines, BuildKdTree, files
  <2>. QED  BY <1>3, <2>1
<1>7. CASE UNCHANGED <<files, month>>
  <2>1. UNCHANGED <<archive, grids, pc>>
    BY <1>7 DEF files, month
  <2>. QED  BY <1>3, <2>1
<1>8. (FindPoints => UNCHANGED <<files, month>>) /\ (UNCHANGED vars => UNCHANGED <<files, month>>)
  BY DEF FindPoints, vars
<1>. QED  BY <1>1, <1>2, <1>5, <1>6, <1>7, <1>8 DEF Next

LEMMA StepSplines ==
  ASSUME FillInv, SplineInv, [Next]_vars
  PROVE  SplineInv'
<1>1. CASE JoinSplines
  <2>1. SUFFICES ASSUME pc' = "done"  PROVE SplineInv'
    BY DEF SplineInv
  <2>2. pc = "fill" /\ gaps = {} /\ spl' = [n \in Vars |-> Joined(n)] /\ UNCHANGED <<archive, source, series, raw>>
    BY <1>1, <2>1 DEF JoinSplines, files, axes, history
  <2>3. \A d : Indices(d)' = Indices(d) /\ AxisAt(d, 0)' = AxisAt(d, 0)
    BY <2>2, SameAxis
  <2>4. \A n : Joined(n)' = Joined(n)
    <3>1. \A d, n : Splines(d, n)' = Splines(d, n)
      BY <2>2, <2>3 DEF Splines
    <3>. QED  BY <3>1 DEF Joined
  <2>5. /\ \A d \in Domains, v \in Vars : DOMAIN series[d][v] = DOMAIN raw[d][v]
        /\ \A d \in Domains, v \in Vars : \A j \in DOMAIN raw[d][v] :
             DOMAIN series[d][v][j] = Indices(d) /\ Complete(raw[d][v][j], series[d][v][j])
    BY <2>2 DEF FillInv
  <2>. QED  BY <2>2, <2>3, <2>4, <2>5 DEF SplineInv
<1>2. CASE UNCHANGED <<files, month>>
  <2>1. UNCHANGED <<archive, pc, source, series, spl, raw>>
    BY <1>2 DEF files, month, axes, history
  <2>2. \A d : Indices(d)' = Indices(d) /\ AxisAt(d, 0)' = AxisAt(d, 0)
    BY <2>1, SameAxis
  <2>3. \A n : Joined(n)' = Joined(n)
    <3>1. \A d, n : Splines(d, n)' = Splines(d, n)
      BY <2>1, <2>2 DEF Splines
    <3>. QED  BY <3>1 DEF Joined
  <2>. QED  BY <2>1, <2>2, <2>3 DEF SplineInv
<1>3. CASE ReadGrid \/ BuildClouds \/ ScanFile \/ EndScan \/ LoadTime \/ EndLoad \/ FillGap \/ EndFill
           \/ BuildKdTree
  <2>1. pc' # "done"
    BY <1>3 DEF ReadGrid, BuildClouds, ScanFile, EndScan, LoadTime, EndLoad, FillGap, EndFill, BuildKdTree
  <2>. QED  BY <2>1 DEF SplineInv
<1>4. (FindPoints => UNCHANGED <<files, month>>) /\ (UNCHANGED vars => UNCHANGED <<files, month>>)
  BY DEF FindPoints, vars
<1>. QED  BY <1>1, <1>2, <1>3, <1>4 DEF Next

\* Two sequences, one after the other.
LEMMA Appended ==
  ASSUME NEW m \in Nat, NEW n \in Nat, NEW s, NEW t,
         s = [i \in 1 .. m |-> s[i]], t = [i \in 1 .. n |-> t[i]]
  PROVE  /\ DOMAIN (s \o t) = 1 .. m + n /\ Len(s \o t) = m + n
         /\ \A i \in 1 .. m : (s \o t)[i] = s[i]
         /\ \A i \in 1 .. n : (s \o t)[m + i] = t[i]
<1> DEFINE S == {s[i] : i \in 1 .. m} \cup {t[i] : i \in 1 .. n}
<1>1. s \in [1 .. m -> S] /\ t \in [1 .. n -> S]
  OBVIOUS
<1>. HIDE DEF S
<1>2. s \in Seq(S) /\ t \in Seq(S) /\ Len(s) = m /\ Len(t) = n
  BY <1>1
<1>3. s \o t \in Seq(S) /\ Len(s \o t) = m + n
  BY <1>2
<1>4. DOMAIN (s \o t) = 1 .. m + n
  BY <1>3
<1>5. \A i \in 1 .. m : (s \o t)[i] = s[i]
  BY <1>2
<1>6. \A i \in 1 .. n : (s \o t)[m + i] = t[i]
  BY <1>2
<1>. QED  BY <1>3, <1>4, <1>5, <1>6

\* A value that was read is still in a series that is complete.
LEMMA KeptWhereRead ==
  ASSUME NEW n \in Nat, NEW y, DOMAIN y = 0 .. n - 1, \A i \in 0 .. n - 1 : y[i] \in Int \cup {NaN},
         NEW x, NEW i \in 0 .. n - 1, y[i] # NaN, Complete(y, x)
  PROVE  x[i] = y[i]
<1>1. /\ i \in Behind(y, i) /\ Behind(y, i) \subseteq Int /\ \A j \in Behind(y, i) : j <= i
      /\ i \in Ahead(y, i) /\ Ahead(y, i) \subseteq Int /\ \A j \in Ahead(y, i) : i <= j
  BY DEF Behind, Ahead
<1>2. Max(Behind(y, i)) = i /\ Min(Ahead(y, i)) = i
  BY <1>1, MaxIs, MinIs
<1>3. Behind(y, i) # {} /\ Ahead(y, i) # {}
  BY <1>1
<1>4. OnLine(y, x[i], i)
  BY <1>3 DEF Complete
<1>. QED  BY <1>2, <1>4 DEF OnLine

\* What a point of a sub-domain's sea has of series and splines.
LEMMA SeaAre ==
  ASSUME AreArchives, IInv, CloudInv, SplineInv, pc = "done", NEW d \in Domains
  PROVE  /\ Cardinality(sea[d]) \in Nat
         /\ DOMAIN SeaIndices(d) = 1 .. Cardinality(sea[d])
         /\ SeaPoints(d) = [j \in 1 .. Cardinality(sea[d]) |-> Position(d, SeaIndices(d)[j])]
         /\ \A v \in Vars : /\ DOMAIN raw[d][v] = 1 .. Cardinality(sea[d])
                            /\ Splines(d, v) = [j \in 1 .. Cardinality(sea[d]) |->
                                 [start |-> AxisAt(d, 0), values |-> series[d][v][j]]]
<1>1. Types /\ LoadInv /\ Loaded(d)
  BY DEF IInv, Loaded
<1>2. Cardinality(sea[d]) \in Nat /\ DOMAIN SeaIndices(d) = 1 .. Cardinality(sea[d])
  BY <1>1, SeaIndicesAre
<1>3. \A v \in Vars : raw[d][v] = AsRead(d, v) /\ DOMAIN series[d][v] = DOMAIN raw[d][v]
  BY <1>1 DEF LoadInv, SplineInv
<1>4. \A v \in Vars : DOMAIN raw[d][v] = 1 .. Cardinality(sea[d])
  BY <1>2, <1>3 DEF AsRead
<1>. QED  BY <1>2, <1>3, <1>4 DEF SeaPoints, Splines

\* Sea cloud and splines have the points of the one sub-domain and then those
\* of the other.
LEMMA CloudAndSplines ==
  ASSUME AreArchives, IInv, CloudInv, SplineInv, pc = "done"
  PROVE  LET m == Cardinality(sea[1])
             n == Cardinality(sea[2])
         IN  /\ m \in Nat /\ n \in Nat
             /\ DOMAIN sea_cloud = 1 .. m + n /\ Len(sea_cloud) = m + n
             /\ \A j \in 1 .. m : sea_cloud[j] = Position(1, SeaIndices(1)[j])
             /\ \A j \in 1 .. n : sea_cloud[m + j] = Position(2, SeaIndices(2)[j])
             /\ \A v \in Vars : /\ Len(spl[v]) = m + n
                                /\ \A j \in 1 .. m : spl[v][j] = Splines(1, v)[j]
                                /\ \A j \in 1 .. n : spl[v][m + j] = Splines(2, v)[j]
<1> DEFINE m == Cardinality(sea[1])
           n == Cardinality(sea[2])
<1>1. 1 \in Domains /\ 2 \in Domains
  BY DEF Domains
<1>2. /\ m \in Nat /\ n \in Nat
      /\ SeaPoints(1) = [j \in 1 .. m |-> Position(1, SeaIndices(1)[j])]
      /\ SeaPoints(2) = [j \in 1 .. n |-> Position(2, SeaIndices(2)[j])]
      /\ \A v \in Vars : /\ Splines(1, v) = [j \in 1 .. m |-> [start |-> AxisAt(1, 0), values |-> series[1][v][j]]]
                         /\ Splines(2, v) = [j \in 1 .. n |-> [start |-> AxisAt(2, 0), values |-> series[2][v][j]]]
  BY <1>1, SeaAre
<1>3. sea_cloud = SeaPoints(1) \o SeaPoints(2) /\ \A v \in Vars : spl[v] = Splines(1, v) \o Splines(2, v)
  BY DEF CloudInv, SplineInv, Joined
<1>. HIDE DEF m, n
<1>4. /\ DOMAIN sea_cloud = 1 .. m + n /\ Len(sea_cloud) = m + n
      /\ \A j \in 1 .. m : sea_cloud[j] = Position(1, SeaIndices(1)[j])
      /\ \A j \in 1 .. n : sea_cloud[m + j] = Position(2, SeaIndices(2)[j])
  <2> DEFINE s == SeaPoints(1)
             t == SeaPoints(2)
  <2>1. s = [i \in 1 .. m |-> s[i]] /\ t = [i \in 1 .. n |-> t[i]]
    BY <1>2
  <2>2. /\ \A j \in 1 .. m : s[j] = Position(1, SeaIndices(1)[j])
        /\ \A j \in 1 .. n : t[j] = Position(2, SeaIndices(2)[j])
    BY <1>2
  <2>3. sea_cloud = s \o t
    BY <1>3
  <2>. HIDE DEF s, t
  <2>4. /\ DOMAIN (s \o t) = 1 .. m + n /\ Len(s \o t) = m + n
        /\ \A i \in 1 .. m : (s \o t)[i] = s[i]
        /\ \A i \in 1 .. n : (s \o t)[m + i] = t[i]
    BY <1>2, <2>1, Appended
  <2>. QED  BY <2>2, <2>3, <2>4
<1>5. ASSUME NEW v \in Vars
      PROVE  /\ Len(spl[v]) = m + n
             /\ \A j \in 1 .. m : spl[v][j] = Splines(1, v)[j]
             /\ \A j \in 1 .. n : spl[v][m + j] = Splines(2, v)[j]
  <2> DEFINE s == Splines(1, v)
             t == Splines(2, v)
  <2>1. s = [i \in 1 .. m |-> s[i]] /\ t = [i \in 1 .. n |-> t[i]]
    BY <1>2
  <2>2. spl[v] = s \o t
    BY <1>3
  <2>. HIDE DEF s, t
  <2>3. /\ Len(s \o t) = m + n
        /\ \A i \in 1 .. m : (s \o t)[i] = s[i]
        /\ \A i \in 1 .. n : (s \o t)[m + i] = t[i]
    BY <1>2, <2>1, Appended
  <2>. QED  BY <2>2, <2>3 DEF s, t
<1>. QED  BY <1>2, <1>4, <1>5 DEF m, n

\* The spline of a point gives at each time that was read what the file has.
LEMMA SplineGives ==
  ASSUME AreArchives, ExactSlopes, IInv, CloudInv, SplineInv, pc = "done", NEW d \in Domains,
         NEW v \in Vars, NEW j \in 1 .. Cardinality(sea[d]), NEW t \in got[d], OnAxis(d, t),
         ValueIn(d, LastSeen(d, t), v, t, SeaIndices(d)[j]) # NaN
  PROVE  Gives(Splines(d, v)[j], t, ValueIn(d, LastSeen(d, t), v, t, SeaIndices(d)[j]))
<1> DEFINE x == ValueIn(d, LastSeen(d, t), v, t, SeaIndices(d)[j])
           y == raw[d][v][j]
<1>1. Types /\ SourceInv /\ LoadInv /\ Loaded(d)
  BY DEF IInv, Loaded
<1>2. got[d] \subseteq Known(d) /\ Known(d) # {} /\ raw[d][v] = AsRead(d, v)
  BY <1>1 DEF LoadInv
<1>3. source[d][t] = LastSeen(d, t)
  BY <1>1, <1>2, SourceIs
<1>4. PICK l \in Indices(d) : AxisAt(d, l) = t
  BY DEF OnAxis
<1>5. DOMAIN raw[d][v] = 1 .. Cardinality(sea[d]) /\ DOMAIN SeaIndices(d) = 1 .. Cardinality(sea[d])
  BY SeaAre
<1>6. y[l] = x
  <2>1. AsRead(d, v)[j][l] = Reading(d, v, j, l)
    BY <1>5 DEF AsRead
  <2>2. Reading(d, v, j, l) = x
    BY <1>3, <1>4 DEF Reading
  <2>. QED  BY <1>2, <2>1, <2>2
<1>7. /\ N(d) \in Nat /\ DOMAIN y = 0 .. N(d) - 1 /\ Indices(d) = 0 .. N(d) - 1
      /\ \A i \in 0 .. N(d) - 1 : y[i] \in Int \cup {NaN}
  BY <1>5, RawIs DEF Indices
<1>8. Complete(y, series[d][v][j]) /\ DOMAIN series[d][v][j] = Indices(d)
  BY <1>5 DEF SplineInv
<1>9. series[d][v][j][l] = x
  <2>1. y[l] # NaN /\ l \in 0 .. N(d) - 1
    BY <1>6, <1>7
  <2>. HIDE DEF x, y
  <2>. QED  BY <1>6, <1>7, <1>8, <2>1, KeptWhereRead
<1>10. Splines(d, v)[j] = [start |-> AxisAt(d, 0), values |-> series[d][v][j]]
  BY SeaAre
<1>11. (t - AxisAt(d, 0)) % Dt = 0 /\ (t - AxisAt(d, 0)) \div Dt = l
  <2>1. Min(Known(d)) \in Int /\ l \in Int /\ Dt \in Int /\ Dt > 0
    BY <1>1, <1>2, KnownAre, MonthAssumption
  <2>2. \A a \in Int : (a + l * Dt) - (a + 0 * Dt) = Dt * l
    BY <2>1
  <2>3. t - AxisAt(d, 0) = Dt * l
    BY <1>4, <2>1, <2>2 DEF AxisAt
  <2>4. Dt * l \in Int /\ (Dt * l) \div Dt = l
    BY <2>1, ExactQuotient
  <2>5. (Dt * l) % Dt \in Int /\ Dt * l = Dt * ((Dt * l) \div Dt) + ((Dt * l) % Dt)
    BY <2>1, <2>4, Quotient
  <2>6. (Dt * l) % Dt = 0
    BY <2>4, <2>5
  <2>. QED  BY <2>3, <2>4, <2>6
<1>. HIDE DEF x
<1>12. Gives([start |-> AxisAt(d, 0), values |-> series[d][v][j]], t, x)
  BY <1>8, <1>9, <1>11 DEF Gives
<1>. QED  BY <1>10, <1>12 DEF x

LEMMA SameSize ==
  ASSUME NEW S, IsFiniteSet(S), NEW T, NEW F \in [S -> T],
         \A a, b \in S : F[a] = F[b] => a = b, \A t \in T : \E s \in S : F[s] = t
  PROVE  Cardinality(S) = Cardinality(T)
<1>1. F \in Bijection(S, T)
  BY DEF Bijection, Injection, Surjection, IsInjective
<1>. QED  BY <1>1, FS_Bijection DEF ExistsBijection

LEMMA GridPointsAre ==
  /\ \A d \in Domains : \A k \in 1 .. NumPoints(d) : <<d, k>> \in GridPoints
  /\ \A g \in GridPoints : \E d \in Domains : \E k \in 1 .. NumPoints(d) : g = <<d, k>>
<1> DEFINE All == {{d} \X (1 .. NumPoints(d)) : d \in Domains}
<1>1. GridPoints = UNION All
  BY DEF GridPoints
<1>2. ASSUME NEW d \in Domains, NEW k \in 1 .. NumPoints(d)  PROVE <<d, k>> \in UNION All
  <2> DEFINE T == {d} \X (1 .. NumPoints(d))
  <2>1. T \in All /\ <<d, k>> \in T
    OBVIOUS
  <2>. HIDE DEF All, T
  <2>. QED  BY <2>1
<1>3. ASSUME NEW g \in UNION All  PROVE \E d \in Domains : \E k \in 1 .. NumPoints(d) : g = <<d, k>>
  <2>1. PICK d \in Domains : g \in {d} \X (1 .. NumPoints(d))
    OBVIOUS
  <2>. QED  BY <2>1
<1>. QED  BY <1>1, <1>2, <1>3

\* The sea points of a place are as many as its points of the sea cloud.
LEMMA SeaAtPlace ==
  ASSUME AreArchives, IInv, CloudInv, SplineInv, pc = "done", NEW p
  PROVE  Cardinality(Places(sea_cloud, p)) = Cardinality({g \in GridAt(p) : g[2] \in sea[g[1]]})
<1> DEFINE m == Cardinality(sea[1])
           n == Cardinality(sea[2])
           S == Places(sea_cloud, p)
           T == {g \in GridAt(p) : g[2] \in sea[g[1]]}
           F == [i \in S |-> IF i <= m THEN <<1, SeaIndices(1)[i]>> ELSE <<2, SeaIndices(2)[i - m]>>]
<1>1. 1 \in Domains /\ 2 \in Domains /\ \A d \in Domains : d = 1 \/ d = 2
  BY DEF Domains
<1>2. /\ m \in Nat /\ n \in Nat /\ DOMAIN sea_cloud = 1 .. m + n
      /\ \A j \in 1 .. m : sea_cloud[j] = Position(1, SeaIndices(1)[j])
      /\ \A j \in 1 .. n : sea_cloud[m + j] = Position(2, SeaIndices(2)[j])
  BY CloudAndSplines
<1>3. ASSUME NEW d \in Domains
      PROVE  /\ sea[d] \subseteq 1 .. NumPoints(d)
             /\ \A j \in 1 .. Cardinality(sea[d]) :
                  SeaIndices(d)[j] \in sea[d] /\ Rank(SeaIndices(d)[j], sea[d]) = j
             /\ \A k \in sea[d] : Rank(k, sea[d]) \in 1 .. Cardinality(sea[d])
                                  /\ SeaIndices(d)[Rank(k, sea[d])] = k
  <2>1. IsFiniteSet(sea[d]) /\ sea[d] \subseteq Int /\ sea[d] \subseteq 1 .. NumPoints(d)
    BY SeaIndicesAre DEF IInv, Types
  <2>. QED  BY <2>1, InOrderIs DEF SeaIndices
<1>. HIDE DEF m, n
<1>4. \A i \in 1 .. m + n : i \in 1 .. m \/ (~(i <= m) /\ i - m \in 1 .. n /\ m + (i - m) = i)
  BY <1>2
<1>5. \A i \in S : i \in 1 .. m + n /\ sea_cloud[i] = p
  BY <1>2 DEF Places
<1>6. IsFiniteSet(S)
  <2>1. S \in SUBSET (1 .. m + n)
    BY <1>5
  <2>2. IsFiniteSet(1 .. m + n)
    BY <1>2, FS_Interval
  <2>. QED  BY <2>1, <2>2, FS_Subset
<1>7. ASSUME NEW i \in S  PROVE F[i] \in T
  <2>1. CASE i \in 1 .. m
    <3> DEFINE k == SeaIndices(1)[i]
    <3>1. k \in sea[1] /\ k \in 1 .. NumPoints(1) /\ Position(1, k) = p /\ i <= m
      BY <1>1, <1>2, <1>3, <1>5, <2>1 DEF m
    <3>2. <<1, k>> \in GridPoints
      BY <1>1, <3>1, GridPointsAre
    <3>3. F[i] = <<1, k>>
      BY <3>1
    <3>. HIDE DEF k, F
    <3>. QED  BY <3>1, <3>2, <3>3 DEF GridAt
  <2>2. CASE ~(i <= m) /\ i - m \in 1 .. n /\ m + (i - m) = i
    <3> DEFINE k == SeaIndices(2)[i - m]
    <3>1. k \in sea[2] /\ k \in 1 .. NumPoints(2)
      BY <1>1, <1>3, <2>2 DEF n
    <3>2. Position(2, k) = p
      BY <1>2, <1>5, <2>2
    <3>3. <<2, k>> \in GridPoints
      BY <1>1, <3>1, GridPointsAre
    <3>4. F[i] = <<2, k>>
      BY <2>2
    <3>. HIDE DEF k, F
    <3>. QED  BY <3>1, <3>2, <3>3, <3>4 DEF GridAt
  <2>. QED  BY <1>4, <1>5, <2>1, <2>2
<1>8. ASSUME NEW a \in S, NEW b \in S, F[a] = F[b]  PROVE a = b
  <2>1. a \in Int /\ b \in Int /\ m \in Int
    BY <1>2, <1>5
  <2>2. CASE a \in 1 .. m /\ b \in 1 .. m
    <3>1. SeaIndices(1)[a] = SeaIndices(1)[b]
      BY <1>8, <2>1, <2>2
    <3>. QED  BY <1>1, <1>3, <2>2, <3>1 DEF m
  <2>3. CASE ~(a <= m) /\ ~(b <= m) /\ a - m \in 1 .. n /\ b - m \in 1 .. n
    <3>1. SeaIndices(2)[a - m] = SeaIndices(2)[b - m]
      BY <1>8, <2>3
    <3>2. a - m = b - m
      BY <1>1, <1>3, <2>3, <3>1 DEF n
    <3>. QED  BY <2>1, <3>2
  <2>4. ASSUME NEW c \in S, NEW e \in S, c <= m, ~(e <= m)  PROVE F[c] # F[e]
    <3>1. F[c] = <<1, SeaIndices(1)[c]>> /\ F[e] = <<2, SeaIndices(2)[e - m]>>
      BY <2>4
    <3>. HIDE DEF F
    <3>. QED  BY <3>1
  <2>5. (a \in 1 .. m <=> a <= m) /\ (b \in 1 .. m <=> b <= m)
    BY <1>2, <1>5
  <2>. HIDE DEF F, S
  <2>. QED  BY <1>4, <1>5, <1>8, <2>2, <2>3, <2>4, <2>5
<1>9. ASSUME NEW t \in T  PROVE \E s \in S : F[s] = t
  <2>1. PICK d \in Domains : \E k \in 1 .. NumPoints(d) : t = <<d, k>>
    BY GridPointsAre DEF GridAt
  <2>2. PICK k \in 1 .. NumPoints(d) : t = <<d, k>>
    BY <2>1
  <2>3. k \in sea[d] /\ Position(d, k) = p
    BY <2>2 DEF GridAt
  <2> DEFINE j == Rank(k, sea[d])
  <2>4. j \in 1 .. Cardinality(sea[d]) /\ SeaIndices(d)[j] = k
    BY <1>3, <2>3
  <2>. HIDE DEF j
  <2>5. CASE d = 1
    <3>1. j \in 1 .. m /\ j \in 1 .. m + n /\ j <= m
      BY <1>2, <2>4, <2>5 DEF m
    <3>2. sea_cloud[j] = p
      BY <1>2, <2>3, <2>4, <2>5, <3>1
    <3>3. j \in S
      BY <1>2, <3>1, <3>2 DEF Places
    <3>4. F[j] = t
      BY <2>2, <2>4, <2>5, <3>1, <3>3
    <3>. QED  BY <3>3, <3>4
  <2>6. CASE d = 2
    <3> DEFINE i == m + j
    <3>1. j \in 1 .. n /\ i \in 1 .. m + n /\ ~(i <= m) /\ i - m = j
      BY <1>2, <2>4, <2>6 DEF n
    <3>2. sea_cloud[i] = p
      BY <1>2, <2>3, <2>4, <2>6, <3>1
    <3>. HIDE DEF i
    <3>3. i \in S
      BY <1>2, <3>1, <3>2 DEF Places
    <3>4. F[i] = t
      BY <2>2, <2>4, <2>6, <3>1, <3>3
    <3>. QED  BY <3>3, <3>4
  <2>. QED  BY <1>1, <2>5, <2>6
<1>10. F \in [S -> T]
  <2>1. DOMAIN F = S /\ F = [i \in S |-> F[i]]
    OBVIOUS
  <2>. HIDE DEF F, S, T
  <2>. QED  BY <1>7, <2>1
<1>. HIDE DEF F, S, T
<1>11. Cardinality(S) = Cardinality(T)
  BY <1>6, <1>8, <1>9, <1>10, SameSize
<1>. QED  BY <1>11 DEF S, T

\* The same of the land: a point is marked as sea in the common count of both
\* grids just if it is one in its own.
LEMMA LandAtPlace ==
  ASSUME AreArchives, IInv, CloudInv, pc = "done", NEW p
  PROVE  Cardinality(Places(land_cloud, p)) = Cardinality({g \in GridAt(p) : g[2] \notin sea[g[1]]})
<1> DEFINE L == 1 .. Total \ Marked
           S == Places(land_cloud, p)
           T == {g \in GridAt(p) : g[2] \notin sea[g[1]]}
           F == [i \in S |-> GridOf(InOrder(L)[i])]
<1>1. 1 \in Domains /\ 2 \in Domains /\ \A d \in Domains : d = 1 \/ d = 2
  BY DEF Domains
<1>2. /\ NumPoints(1) \in Nat /\ NumPoints(2) \in Nat /\ Total = NumPoints(1) + NumPoints(2)
      /\ sea[1] \subseteq 1 .. NumPoints(1) /\ sea[2] \subseteq 1 .. NumPoints(2)
  BY <1>1, FilesAre DEF IInv, Types, Total
<1>3. IsFiniteSet(L) /\ L \subseteq Int
  <2>1. L \in SUBSET (1 .. Total) /\ IsFiniteSet(1 .. Total) /\ 1 .. Total \subseteq Int
    BY <1>2, FS_Interval
  <2>. HIDE DEF L
  <2>. QED  BY <2>1, FS_Subset
<1>4. /\ Cardinality(L) \in Nat
      /\ InOrder(L) \in [1 .. Cardinality(L) -> L]
      /\ \A k \in L : Rank(k, L) \in 1 .. Cardinality(L) /\ InOrder(L)[Rank(k, L)] = k
      /\ \A j \in 1 .. Cardinality(L) : Rank(InOrder(L)[j], L) = j
  <2>. HIDE DEF L
  <2>. QED  BY <1>3, InOrderIs
<1>5. land_cloud = [j \in 1 .. Cardinality(L) |->
                      Position(GridOf(InOrder(L)[j])[1], GridOf(InOrder(L)[j])[2])]
  BY <1>4 DEF CloudInv, LandPoints
<1>6. ASSUME NEW i \in L
      PROVE  \E d \in Domains : \E k \in 1 .. NumPoints(d) :
               GridOf(i) = <<d, k>> /\ k \notin sea[d] /\ i = (IF d = 1 THEN k ELSE k + NumPoints(1))
  <2>1. i \in Int /\ 1 <= i /\ i <= NumPoints(1) + NumPoints(2) /\ i \notin Marked
    BY <1>2
  <2>2. CASE i <= NumPoints(1)
    <3>1. i \in 1 .. NumPoints(1) /\ GridOf(i) = <<1, i>> /\ i \notin sea[1]
      BY <1>2, <2>1, <2>2 DEF GridOf, Marked
    <3>. QED  BY <1>1, <3>1
  <2>3. CASE ~(i <= NumPoints(1))
    <3> DEFINE k == i - NumPoints(1)
    <3>1. k \in 1 .. NumPoints(2) /\ GridOf(i) = <<2, k>> /\ i = k + NumPoints(1)
      BY <1>2, <2>1, <2>3 DEF GridOf
    <3>2. k \notin sea[2]
      BY <2>1, <3>1 DEF Marked
    <3>. HIDE DEF k
    <3>. QED  BY <1>1, <3>1, <3>2
  <2>. QED  BY <2>2, <2>3
<1>7. ASSUME NEW d \in Domains, NEW k \in 1 .. NumPoints(d), k \notin sea[d]
      PROVE  \E i \in L : GridOf(i) = <<d, k>>
  <2>1. CASE d = 1
    <3>1. k \in 1 .. Total /\ k <= NumPoints(1) /\ GridOf(k) = <<1, k>>
      BY <1>2, <2>1 DEF GridOf
    <3>2. \A l \in sea[2] : l + NumPoints(1) # k
      BY <1>2, <3>1
    <3>3. k \notin Marked
      BY <1>7, <2>1, <3>2 DEF Marked
    <3>. QED  BY <2>1, <3>1, <3>3
  <2>2. CASE d = 2
    <3> DEFINE i == k + NumPoints(1)
    <3>1. i \in 1 .. Total /\ ~(i <= NumPoints(1)) /\ i - NumPoints(1) = k
      BY <1>2, <2>2
    <3>2. i \notin sea[1] /\ \A l \in sea[2] : l + NumPoints(1) = i => l = k
      BY <1>2, <2>2, <3>1
    <3>. HIDE DEF i
    <3>3. i \notin Marked
      BY <1>7, <2>2, <3>2 DEF Marked
    <3>4. GridOf(i) = <<2, k>>
      BY <3>1 DEF GridOf
    <3>. QED  BY <2>2, <3>1, <3>3, <3>4
  <2>. QED  BY <1>1, <2>1, <2>2
<1>. HIDE DEF L
<1>8. ASSUME NEW i \in S
      PROVE  /\ i \in 1 .. Cardinality(L) /\ InOrder(L)[i] \in L
             /\ Position(GridOf(InOrder(L)[i])[1], GridOf(InOrder(L)[i])[2]) = p
  <2>1. i \in DOMAIN land_cloud /\ land_cloud[i] = p
    BY DEF Places
  <2>2. i \in 1 .. Cardinality(L)
    BY <1>5, <2>1
  <2>. QED  BY <1>4, <1>5, <2>1, <2>2
<1>9. IsFiniteSet(S)
  <2>1. S \in SUBSET (1 .. Cardinality(L))
    BY <1>8
  <2>2. IsFiniteSet(1 .. Cardinality(L))
    BY <1>4, FS_Interval
  <2>. QED  BY <2>1, <2>2, FS_Subset
<1>10. ASSUME NEW i \in S  PROVE F[i] \in T
  <2>0. PICK d \in Domains : \E k \in 1 .. NumPoints(d) : GridOf(InOrder(L)[i]) = <<d, k>> /\ k \notin sea[d]
    BY <1>6, <1>8
  <2>1. PICK k \in 1 .. NumPoints(d) : GridOf(InOrder(L)[i]) = <<d, k>> /\ k \notin sea[d]
    BY <2>0
  <2>2. <<d, k>> \in GridPoints /\ Position(d, k) = p
    BY <1>8, <2>1, GridPointsAre
  <2>3. F[i] = <<d, k>>
    BY <2>1
  <2>. HIDE DEF F
  <2>. QED  BY <2>1, <2>2, <2>3 DEF GridAt
<1>11. ASSUME NEW a \in S, NEW b \in S, F[a] = F[b]  PROVE a = b
  <2>1. GridOf(InOrder(L)[a]) = GridOf(InOrder(L)[b])
    BY <1>11
  <2>2. InOrder(L)[a] = InOrder(L)[b]
    <3>1. \A i, j \in L : GridOf(i) = GridOf(j) => i = j
      <4>. SUFFICES ASSUME NEW i \in L, NEW j \in L, GridOf(i) = GridOf(j)  PROVE i = j
        OBVIOUS
      <4>1. i = (IF GridOf(i)[1] = 1 THEN GridOf(i)[2] ELSE GridOf(i)[2] + NumPoints(1))
        BY <1>6
      <4>2. j = (IF GridOf(j)[1] = 1 THEN GridOf(j)[2] ELSE GridOf(j)[2] + NumPoints(1))
        BY <1>6
      <4>. QED  BY <4>1, <4>2
    <3>. QED  BY <1>8, <2>1, <3>1
  <2>. QED  BY <1>4, <1>8, <2>2
<1>12. ASSUME NEW t \in T  PROVE \E s \in S : F[s] = t
  <2>1. PICK d \in Domains : \E k \in 1 .. NumPoints(d) : t = <<d, k>>
    BY GridPointsAre DEF GridAt
  <2>2. PICK k \in 1 .. NumPoints(d) : t = <<d, k>>
    BY <2>1
  <2>3. k \notin sea[d] /\ Position(d, k) = p
    BY <2>2 DEF GridAt
  <2>4. PICK i \in L : GridOf(i) = t
    BY <1>7, <2>2, <2>3
  <2> DEFINE j == Rank(i, L)
  <2>5. j \in 1 .. Cardinality(L) /\ InOrder(L)[j] = i
    BY <1>4
  <2>. HIDE DEF j
  <2>6. land_cloud[j] = p /\ j \in DOMAIN land_cloud
    BY <1>5, <2>2, <2>3, <2>4, <2>5
  <2>7. j \in S
    BY <2>6 DEF Places
  <2>8. F[j] = t
    BY <2>4, <2>5, <2>7
  <2>. QED  BY <2>7, <2>8
<1>13. F \in [S -> T]
  <2>1. DOMAIN F = S /\ F = [i \in S |-> F[i]]
    OBVIOUS
  <2>. HIDE DEF F, S, T
  <2>. QED  BY <1>10, <2>1
<1>. HIDE DEF F, S, T
<1>14. Cardinality(S) = Cardinality(T)
  BY <1>9, <1>11, <1>12, <1>13, SameSize
<1>. QED  BY <1>14 DEF S, T

\* Whatever the sea masks and the axes of the two sub-domains are: as many
\* splines as points in the sea cloud, each with the values of the place its
\* point is at, on the axis of its own sub-domain, and every grid point in just
\* one of the clouds (loadOneMonth, createSplinesForSeaPoints, joinSplines).
THEOREM SplinesAreAligned == AreArchives /\ ExactSlopes => (Spec => []Aligned)
<1>. SUFFICES ASSUME AreArchives, ExactSlopes  PROVE Spec => []Aligned
  OBVIOUS
<1>1. Init => CloudInv /\ SplineInv
  BY DEF Init, CloudInv, SplineInv
<1>2. CloudInv /\ [Next]_vars => CloudInv'
  BY StepClouds
<1>3. FillInv /\ SplineInv /\ [Next]_vars => SplineInv'
  BY StepSplines
<1>4. IInv /\ CloudInv /\ SplineInv => Aligned
  <2>. SUFFICES ASSUME IInv, CloudInv, SplineInv, pc = "done"
                PROVE  /\ \A v \in Vars : Len(spl[v]) = Len(sea_cloud)
                       /\ \A i \in DOMAIN sea_cloud : \E g \in GridAt(sea_cloud[i]) :
                            \A v \in Vars : \A t \in got[g[1]] :
                              LET x == ValueIn(g[1], LastSeen(g[1], t), v, t, g[2])
                              IN  OnAxis(g[1], t) /\ x # NaN => Gives(spl[v][i], t, x)
    BY SeaAtPlace, LandAtPlace DEF Aligned
  <2> DEFINE m == Cardinality(sea[1])
             n == Cardinality(sea[2])
  <2>1. /\ m \in Nat /\ n \in Nat
        /\ DOMAIN sea_cloud = 1 .. m + n /\ Len(sea_cloud) = m + n
        /\ \A j \in 1 .. m : sea_cloud[j] = Position(1, SeaIndices(1)[j])
        /\ \A j \in 1 .. n : sea_cloud[m + j] = Position(2, SeaIndices(2)[j])
        /\ \A v \in Vars : /\ Len(spl[v]) = m + n
                           /\ \A j \in 1 .. m : spl[v][j] = Splines(1, v)[j]
                           /\ \A j \in 1 .. n : spl[v][m + j] = Splines(2, v)[j]
    BY CloudAndSplines
  <2>2. ASSUME NEW d \in Domains, NEW j \in 1 .. Cardinality(sea[d])
        PROVE  /\ <<d, SeaIndices(d)[j]>> \in GridAt(Position(d, SeaIndices(d)[j]))
               /\ \A v \in Vars : \A t \in got[d] :
                    LET x == ValueIn(d, LastSeen(d, t), v, t, SeaIndices(d)[j])
                    IN  OnAxis(d, t) /\ x # NaN => Gives(Splines(d, v)[j], t, x)
    <3>1. SeaIndices(d)[j] \in 1 .. NumPoints(d)
      BY SeaIndicesAre DEF IInv
    <3>. QED  BY <3>1, GridPointsAre, SplineGives DEF GridAt
  <2>3. ASSUME NEW i \in DOMAIN sea_cloud
        PROVE  \E d \in Domains : \E j \in 1 .. Cardinality(sea[d]) :
                 /\ sea_cloud[i] = Position(d, SeaIndices(d)[j])
                 /\ \A v \in Vars : spl[v][i] = Splines(d, v)[j]
    <3>1. i \in 1 .. m \/ (i - m \in 1 .. n /\ m + (i - m) = i)
      <4>. HIDE DEF m, n
      <4>. QED  BY <2>1
    <3>2. 1 \in Domains /\ 2 \in Domains
      BY DEF Domains
    <3>3. CASE i \in 1 .. m
      BY <2>1, <3>2, <3>3
    <3>4. CASE i - m \in 1 .. n /\ m + (i - m) = i
      <4> DEFINE j == i - m
      <4>1. sea_cloud[i] = Position(2, SeaIndices(2)[j]) /\ \A v \in Vars : spl[v][i] = Splines(2, v)[j]
        BY <2>1, <3>4
      <4>. QED  BY <3>2, <3>4, <4>1
    <3>. QED  BY <3>1, <3>3, <3>4
  <2>4. ASSUME NEW i \in DOMAIN sea_cloud
        PROVE  \E g \in GridAt(sea_cloud[i]) : \A v \in Vars : \A t \in got[g[1]] :
                 LET x == ValueIn(g[1], LastSeen(g[1], t), v, t, g[2])
                 IN  OnAxis(g[1], t) /\ x # NaN => Gives(spl[v][i], t, x)
    <3>1. PICK d \in Domains : \E j \in 1 .. Cardinality(sea[d]) :
                 /\ sea_cloud[i] = Position(d, SeaIndices(d)[j])
                 /\ \A v \in Vars : spl[v][i] = Splines(d, v)[j]
      BY <2>3
    <3>2. PICK j \in 1 .. Cardinality(sea[d]) :
                 /\ sea_cloud[i] = Position(d, SeaIndices(d)[j])
                 /\ \A v \in Vars : spl[v][i] = Splines(d, v)[j]
      BY <3>1
    <3> DEFINE g == <<d, SeaIndices(d)[j]>>
    <3>3. g[1] = d /\ g[2] = SeaIndices(d)[j] /\ g \in GridAt(sea_cloud[i])
      BY <2>2, <3>2
    <3>4. \A v \in Vars : \A t \in got[g[1]] :
            LET x == ValueIn(g[1], LastSeen(g[1], t), v, t, g[2])
            IN  OnAxis(g[1], t) /\ x # NaN => Gives(spl[v][i], t, x)
      BY <2>2, <3>2
    <3>. HIDE DEF g
    <3>. QED  BY <3>3, <3>4
  <2>. QED  BY <2>1, <2>4
<1>. QED  BY <1>1, <1>2, <1>3, <1>4, FillInvariance, PTL DEF Spec
=============================================================================
