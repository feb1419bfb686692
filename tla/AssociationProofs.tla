-------------------------- MODULE AssociationProofs ---------------------------
(***************************************************************************)
(* The solver of Assignment keeps its potentials below the costs and its   *)
(* tree and matching on edges where they meet; so the assignment it ends   *)
(* with is the cheapest, and the pairs that Association gives the tracker  *)
(* are what the tracker relies on.                                         *)
(***************************************************************************)
EXTENDS Association, Motion, Sums

AssociationSpec == AssociationInit /\ [][Associate]_associationVars

N == Cardinality(Side)

(* The rows so far each have a column of C, and no column has two.         *)
ColumnsTaken(C) ==
    /\ \A c, d \in C : p[c] = p[d] /\ p[c] # 0 => c = d
    /\ \A c \in C : p[c] <= i
    /\ \A r \in 1 .. i : \E c \in C : p[c] = r

SolverShape ==
    /\ N \in Nat /\ Side = 1 .. N
    /\ cost \in [Side -> [Side -> 0 .. Dearest]]
    /\ (N + 1) * Dearest < Inf
    /\ i \in 0 .. N
    /\ u \in [Columns -> Int] /\ v \in [Columns -> Int] /\ minv \in [Columns -> Int]
    /\ p \in [Columns -> Columns] /\ way \in [Columns -> Columns]
    /\ used \subseteq Columns /\ j0 \in Columns

(* Feasible, with what the potentials of free columns and rows are.        *)
Prices ==
    /\ \A r, c \in Side : Reduced(r, c) >= 0
    /\ \A c \in Side : p[c] # 0 => Reduced(p[c], c) = 0
    /\ \A c \in Side : p[c] = 0 => v[c] = 0
    /\ \A r \in Side : u[r] >= 0 /\ (r > i => u[r] = 0)

AtRow == ColumnsTaken(Side) /\ \A c \in Side : v[c] >= -(i * Dearest)

(* While a row is in hand its potential is all that has been added, which  *)
(* a free column bounds.                                                   *)
InRow ==
    /\ i >= 1 /\ u[i] <= Dearest
    /\ \A c \in Side : v[c] >= -((i - 1) * Dearest + u[i])
    /\ \A k \in used : p[k] # 0

(* The tree: its edges are free, and lead to the root.                     *)
FreeEdge(rank, k) == way[k] \in used /\ rank[way[k]] < rank[k] /\ Reduced(p[way[k]], k) = 0

(* The slack of a column outside, and the edge that has it.                *)
Nearest(j) ==
    /\ way[j] \in used /\ minv[j] = Reduced(p[way[j]], j)
    /\ \A k \in used : minv[j] <= Reduced(p[k], j)

AtScan ==
    /\ ColumnsTaken(Columns)
    /\ p[0] = i /\ 0 \in Tree /\ p[j0] # 0 /\ j0 \notin used
    /\ \/ used = {} /\ \A j \in Columns : minv[j] = Inf
       \/ \A j \in Outside : Nearest(j)
    /\ \E rank \in [Columns -> Nat] : \A k \in Tree \ {0} : FreeEdge(rank, k)

(* The part of the path that is left runs in the tree as it was.           *)
AtAugment ==
    /\ ColumnsTaken(Columns \ {j0})
    /\ \E rank \in [Columns -> Nat] :
          \A k \in Columns \ {0} :
              (k = j0 \/ (k \in used /\ rank[k] < rank[j0])) => FreeEdge(rank, k)

SolverInv ==
    at \in {"row", "scan", "augment"} =>
        /\ SolverShape /\ Prices
        /\ at = "row" => AtRow
        /\ at = "scan" => InRow /\ AtScan
        /\ at = "augment" => InRow /\ AtAugment
------------------------------------------------------------------------------
LEMMA ConstantsTypes ==
    /\ PAD_COST \in Nat /\ DEPTH_GATE_PENALTY \in Nat /\ Inf \in Nat
    /\ One \in Nat /\ One <= PAD_COST /\ Dearest \in Nat
BY CostsAssumption DEF Price, Dearest

(* Min of numbers is one of them and above none.                           *)
LEMMA MinIsLeast ==
    ASSUME NEW T, T \subseteq Nat, T # {}
    PROVE  Min(T) \in T /\ \A m \in T : Min(T) <= m
BY LeastNumber, Zenon DEF Min

LEMMA Shape ==
    ASSUME SolverShape
    PROVE  /\ 0 \notin Side /\ IsFiniteSet(Side)
           /\ \A c \in Side : c \in Nat /\ c # 0 /\ c \in Columns
           /\ \A c \in Columns : c \in Nat /\ (c # 0 => c \in Side)
           /\ \A c \in Columns : p[c] \in Nat /\ p[c] \in Columns /\ way[c] \in Columns
           /\ \A c \in Columns : u[c] \in Int /\ v[c] \in Int /\ minv[c] \in Int
           /\ \A r, c \in Side : cost[r][c] \in Int /\ 0 <= cost[r][c] /\ cost[r][c] <= Dearest
           /\ \A r, c \in Side : Reduced(r, c) \in Int
           /\ i \in Nat /\ i <= N
<1>1. Side = 1 .. N /\ N \in Nat  BY DEF SolverShape
<1>2. IsFiniteSet(Side)  BY <1>1, FS_Interval
<1>3. \A c \in Side : c \in Nat /\ c # 0 /\ c \in Columns  BY <1>1 DEF Columns
<1>4. \A c \in Columns : c \in Nat /\ (c # 0 => c \in Side)  BY <1>3 DEF Columns
<1>5. \A c \in Columns : p[c] \in Columns /\ way[c] \in Columns  BY DEF SolverShape
<1>6. \A c \in Columns : u[c] \in Int /\ v[c] \in Int /\ minv[c] \in Int  BY DEF SolverShape
<1>7. \A r, c \in Side : cost[r][c] \in 0 .. Dearest  BY DEF SolverShape
<1>8. \A r, c \in Side : cost[r][c] \in Int /\ 0 <= cost[r][c] /\ cost[r][c] <= Dearest
    BY <1>7, ConstantsTypes
<1>9. \A r, c \in Side : Reduced(r, c) \in Int  BY <1>3, <1>6, <1>8 DEF Reduced
<1>10. i \in Nat /\ i <= N  BY <1>1 DEF SolverShape
<1> QED BY <1>2, <1>3, <1>4, <1>5, <1>6, <1>8, <1>9, <1>10

(* While a row is in hand a column is still free.                          *)
LEMMA FreeColumn ==
    ASSUME SolverShape, ColumnsTaken(Columns), p[0] = i, i >= 1
    PROVE  \E f \in Side : p[f] = 0
<1> SUFFICES ASSUME \A f \in Side : p[f] # 0 PROVE FALSE
    OBVIOUS
<1> DEFINE g == [c \in Side |-> p[c]]
<1>1. \A c \in Side : p[c] \in 1 .. i - 1
    <2> SUFFICES ASSUME NEW c \in Side PROVE p[c] \in 1 .. i - 1
        OBVIOUS
    <2>1. c \in Columns /\ 0 \in Columns /\ c # 0  BY Shape DEF Columns
    <2>2. p[c] <= i /\ p[c] # i  BY <2>1 DEF ColumnsTaken
    <2>3. p[c] \in Nat /\ i \in Nat /\ p[c] # 0  BY <2>1, Shape
    <2> QED BY <2>2, <2>3
<1>2. g \in [Side -> 1 .. i - 1]  BY <1>1
<1>3. IsFiniteSet(1 .. i - 1) /\ Cardinality(1 .. i - 1) = i - 1
    <2> DEFINE k == i - 1
    <2>1. k \in Int /\ 1 \in Int /\ (1 > k => k = 0)  BY Shape
    <2> HIDE DEF k
    <2>2. IsFiniteSet(1 .. k) /\ Cardinality(1 .. k) = IF 1 > k THEN 0 ELSE k - 1 + 1
        BY <2>1, FS_Interval, Zenon
    <2>3. IsFiniteSet(1 .. k) /\ Cardinality(1 .. k) = k  BY <2>1, <2>2
    <2> QED BY <2>3 DEF k
<1>4. Cardinality(1 .. i - 1) < Cardinality(Side)
    <2>1. i - 1 < N  BY Shape DEF SolverShape
    <2> QED BY <1>3, <2>1 DEF N
<1>5. PICK x, y \in Side : x # y /\ g[x] = g[y]
    <2> HIDE DEF g
    <2> QED BY <1>2, <1>3, <1>4, Shape, FS_PigeonHole
<1>6. p[x] = p[y] /\ p[x] # 0 /\ x \in Columns /\ y \in Columns  BY <1>5, Shape
<1> QED BY <1>5, <1>6 DEF ColumnsTaken

(* No reduced cost reaches Inf.                                            *)
LEMMA ReducedBelowInf ==
    ASSUME SolverShape, Prices, InRow, NEW r \in Side, NEW c \in Side
    PROVE  Reduced(r, c) < Inf
<1> DEFINE A == (i - 1) * Dearest
           B == (N + 1) * Dearest
           D == Dearest
<1>1. i \in Nat /\ N \in Nat /\ i <= N /\ i >= 1 /\ D \in Nat  BY Shape, ConstantsTypes DEF SolverShape, InRow
<1>2. A \in Int /\ B \in Int /\ A + D + D <= B
    <2>1. A + D + D = (i + 1) * D  BY <1>1
    <2>2. (i + 1) * D <= (N + 1) * D
        <3> DEFINE e == N - i
        <3>1. e \in Nat /\ (N + 1) * D = (i + 1) * D + e * D  BY <1>1
        <3>2. e * D >= 0 /\ e * D \in Int  BY <3>1, <1>1
        <3>3. (i + 1) * D \in Int  BY <1>1
        <3> HIDE DEF e
        <3> QED BY <3>1, <3>2, <3>3
    <2> QED BY <1>1, <2>1, <2>2
<1>3. u[r] >= 0 /\ u[i] <= D /\ v[c] >= -(A + u[i])  BY DEF Prices, InRow
<1>4. u[r] \in Int /\ u[i] \in Int /\ v[c] \in Int
    <2>1. r \in Columns /\ c \in Columns /\ i \in Columns  BY Shape DEF Columns, SolverShape
    <2> QED BY <2>1, Shape
<1>5. cost[r][c] \in Int /\ cost[r][c] <= D  BY Shape
<1>6. B < Inf /\ Inf \in Int  BY ConstantsTypes DEF SolverShape
<1> HIDE DEF A, B, D
<1>7. cost[r][c] - u[r] - v[c] <= D - 0 + (A + D)  BY <1>1, <1>2, <1>3, <1>4, <1>5
<1> QED BY <1>1, <1>2, <1>4, <1>5, <1>6, <1>7 DEF Reduced

(* The tree has no free column, so there is one outside.                   *)
LEMMA TreeIsTaken ==
    ASSUME SolverShape, InRow, AtScan
    PROVE  /\ \A k \in Tree : k \in Columns /\ p[k] \in Side
           /\ Tree \subseteq Columns /\ Outside \subseteq Side /\ Outside \cap Tree = {}
           /\ \E f \in Outside : p[f] = 0
<1>1. \A k \in Tree : k \in Columns /\ p[k] # 0
    BY DEF Tree, InRow, AtScan, SolverShape
<1>2. \A k \in Tree : p[k] \in Side  BY <1>1, Shape
<1>3. PICK f \in Side : p[f] = 0  BY FreeColumn DEF AtScan, InRow
<1>4. f \in Outside  BY <1>1, <1>3 DEF Outside
<1> QED BY <1>1, <1>2, <1>3, <1>4 DEF Outside

(* The distance of a column outside the tree, with the column in hand.     *)
Measured(D, W, j) ==
    /\ W[j] \in Tree /\ D[j] = Reduced(p[W[j]], j)
    /\ \A k \in Tree : D[j] <= Reduced(p[k], j)

LEMMA DistancesRight ==
    ASSUME SolverShape, Prices, InRow, AtScan,
           NEW D, D = Dist, NEW W, W = [j \in Columns |-> IF j \in Shorter THEN j0 ELSE way[j]]
    PROVE  /\ \A j \in Outside : Measured(D, W, j)
           /\ \A j \in Tree : W[j] = way[j]
           /\ D \in [Columns -> Int] /\ W \in [Columns -> Columns]
<1>1. /\ \A k \in Tree : k \in Columns /\ p[k] \in Side
      /\ Tree \subseteq Columns /\ Outside \subseteq Side /\ Outside \cap Tree = {}
    BY TreeIsTaken
<1>2. \A j \in Outside : \A k \in Tree : Reduced(p[k], j) \in Int /\ Reduced(p[k], j) < Inf
    BY <1>1, Shape, ReducedBelowInf
<1>3. j0 \in Tree  BY DEF Tree
<1>4. \A j \in Outside : j \in Columns  BY <1>1, Shape
<1>5. ASSUME NEW j \in Outside PROVE Measured(D, W, j)
    <2> DEFINE R == Reduced(p[j0], j)
    <2>1. R \in Int /\ minv[j] \in Int  BY <1>2, <1>3, <1>4, Shape
    <2>2. (j \in Shorter) <=> R < minv[j]  BY DEF Shorter
    <2>3. D[j] = (IF j \in Shorter THEN R ELSE minv[j]) /\ W[j] = (IF j \in Shorter THEN j0 ELSE way[j])
        BY <1>4 DEF Dist
    <2>4. CASE used = {} /\ \A k \in Columns : minv[k] = Inf
        <3>1. minv[j] = Inf /\ R < Inf  BY <1>2, <1>3, <1>4, <2>4
        <3>2. j \in Shorter /\ D[j] = R /\ W[j] = j0  BY <2>2, <2>3, <3>1
        <3>3. \A k \in Tree : k = j0  BY <2>4 DEF Tree
        <3>4. \A k \in Tree : D[j] <= Reduced(p[k], j)  BY <2>1, <3>2, <3>3
        <3> QED BY <1>3, <3>2, <3>4 DEF Measured
    <2>5. CASE \A k \in Outside : Nearest(k)
        <3>1. /\ way[j] \in used /\ minv[j] = Reduced(p[way[j]], j)
              /\ \A k \in used : minv[j] <= Reduced(p[k], j)
            BY <2>5 DEF Nearest
        <3>2. way[j] \in Tree /\ \A k \in Tree : k = j0 \/ k \in used  BY <3>1 DEF Tree
        <3> HIDE DEF R
        <3>3. CASE j \in Shorter
            <4>1. D[j] = R /\ W[j] = j0 /\ R < minv[j]  BY <2>2, <2>3, <3>3
            <4>2. \A k \in used : R <= Reduced(p[k], j)
                <5>1. \A k \in used : k \in Tree  BY DEF Tree
                <5>2. \A k \in used : Reduced(p[k], j) \in Int  BY <1>2, <5>1
                <5> QED BY <2>1, <3>1, <4>1, <5>2
            <4>3. R <= Reduced(p[j0], j)  BY <2>1 DEF R
            <4> QED BY <1>3, <3>2, <4>1, <4>2, <4>3 DEF Measured, R
        <3>4. CASE j \notin Shorter
            <4>1. D[j] = minv[j] /\ W[j] = way[j] /\ minv[j] <= R  BY <2>1, <2>2, <2>3, <3>4
            <4> QED BY <3>1, <3>2, <4>1 DEF Measured, R
        <3> QED BY <3>3, <3>4
    <2> QED BY <2>4, <2>5 DEF AtScan
<1>6. ASSUME NEW j \in Tree PROVE W[j] = way[j]
    <2>1. j \notin Shorter /\ j \in Columns  BY <1>1 DEF Shorter
    <2> QED BY <2>1
<1>7. D \in [Columns -> Int]
    <2>1. \A j \in Columns : (IF j \in Shorter THEN Reduced(p[j0], j) ELSE minv[j]) \in Int
        <3>1. \A j \in Columns : j \in Shorter => j \in Outside  BY DEF Shorter
        <3> QED BY <1>2, <1>3, <3>1, Shape
    <2> QED BY <2>1 DEF Dist
<1>8. W \in [Columns -> Columns]
    <2>1. \A j \in Columns : (IF j \in Shorter THEN j0 ELSE way[j]) \in Columns  BY Shape DEF SolverShape
    <2> QED BY <2>1
<1> QED BY <1>5, <1>6, <1>7, <1>8
------------------------------------------------------------------------------
(* A turn of the loop, by what it does for the columns outside.            *)
Rooted(r) == \E j \in Tree : p[j] = r
Turned(delta, next) ==
    /\ used' = Tree /\ j0' = next
    /\ \A j \in Outside :
          /\ way'[j] \in Tree
          /\ minv'[j] = Reduced(p[way'[j]], j) - delta
          /\ delta <= Reduced(p[way'[j]], j)
          /\ \A k \in Tree : Reduced(p[way'[j]], j) <= Reduced(p[k], j)
    /\ Reduced(p[way'[next]], next) = delta
    /\ \A j \in Tree : way'[j] = way[j]
    /\ u' = [r \in Columns |-> IF Rooted(r) THEN u[r] + delta ELSE u[r]]
    /\ v' = [j \in Columns |-> IF j \in Tree THEN v[j] - delta ELSE v[j]]
    /\ way' \in [Columns -> Columns] /\ minv' \in [Columns -> Int]
    /\ at' = IF p[next] = 0 THEN "augment" ELSE "scan"
    /\ UNCHANGED <<cost, i, p>>

LEMMA ScanTurns ==
    ASSUME SolverShape, Prices, InRow, AtScan, Scan
    PROVE  \E delta \in Nat : \E next \in Outside : Turned(delta, next)
<1> DEFINE D == Dist
           W == [j \in Columns |-> IF j \in Shorter THEN j0 ELSE way[j]]
           far == {D[j] : j \in Outside}
           delta == Min(far)
           near == {j \in Outside : D[j] = delta}
           next == Min(near)
<1>1. /\ \A k \in Tree : k \in Columns /\ p[k] \in Side
      /\ Tree \subseteq Columns /\ Outside \subseteq Side
      /\ \E f \in Outside : TRUE
    BY TreeIsTaken
<1>2. /\ \A j \in Outside : Measured(D, W, j)
      /\ \A j \in Tree : W[j] = way[j]
      /\ D \in [Columns -> Int] /\ W \in [Columns -> Columns]
    BY DistancesRight
<1>3. /\ used' = Tree /\ j0' = next /\ way' = W
      /\ u' = [r \in Columns |-> IF Rooted(r) THEN u[r] + delta ELSE u[r]]
      /\ v' = [j \in Columns |-> IF j \in Tree THEN v[j] - delta ELSE v[j]]
      /\ minv' = [j \in Columns |-> IF j \in Tree THEN D[j] ELSE D[j] - delta]
      /\ at' = IF p[next] = 0 THEN "augment" ELSE "scan"
      /\ UNCHANGED <<cost, i, p>>
    BY Zenon DEF Scan, Rooted, Lowered
<1> HIDE DEF D, W
<1>4. \A j \in Outside : D[j] \in Nat
    <2> SUFFICES ASSUME NEW j \in Outside PROVE D[j] \in Nat
        OBVIOUS
    <2>1. W[j] \in Tree /\ D[j] = Reduced(p[W[j]], j)  BY <1>2 DEF Measured
    <2>2. p[W[j]] \in Side /\ j \in Side  BY <1>1, <2>1
    <2>3. Reduced(p[W[j]], j) \in Int /\ Reduced(p[W[j]], j) >= 0  BY <2>2, Shape DEF Prices
    <2> QED BY <2>1, <2>3
<1>5. far \subseteq Nat /\ far # {}
    <2>1. PICK f \in Outside : TRUE  BY <1>1
    <2>2. D[f] \in far  BY <2>1
    <2>3. far \subseteq Nat  BY <1>4
    <2> QED BY <2>2, <2>3
<1>6. delta \in far /\ \A m \in far : delta <= m
    <2> HIDE DEF far
    <2> QED BY <1>5, MinIsLeast
<1>7. delta \in Nat /\ \A j \in Outside : delta <= D[j]
    <2> HIDE DEF delta
    <2> QED BY <1>5, <1>6
<1>8. near \subseteq Nat /\ near # {}
    <2>1. PICK f \in Outside : delta = D[f]
        <3> HIDE DEF delta
        <3> QED BY <1>6
    <2> HIDE DEF delta
    <2>2. f \in near  BY <2>1
    <2>3. \A j \in near : j \in Nat  BY <1>1, Shape
    <2> QED BY <2>2, <2>3
<1>9. next \in near
    <2> HIDE DEF near
    <2> QED BY <1>8, MinIsLeast
<1> HIDE DEF far, delta, next
<1>10. next \in Outside /\ D[next] = delta  BY <1>9
<1> HIDE DEF near
<1>11. ASSUME NEW j \in Outside
       PROVE  /\ W[j] \in Tree
              /\ minv'[j] = Reduced(p[W[j]], j) - delta
              /\ delta <= Reduced(p[W[j]], j)
              /\ \A k \in Tree : Reduced(p[W[j]], j) <= Reduced(p[k], j)
    <2>1. /\ W[j] \in Tree /\ D[j] = Reduced(p[W[j]], j)
          /\ \A k \in Tree : D[j] <= Reduced(p[k], j)
        BY <1>2 DEF Measured
    <2>2. j \in Columns /\ j \notin Tree  BY <1>1, Shape DEF Outside
    <2>3. minv'[j] = D[j] - delta  BY <1>3, <2>2
    <2>4. delta <= D[j]  BY <1>7
    <2> QED BY <2>1, <2>3, <2>4
<1>12. Reduced(p[W[next]], next) = delta  BY <1>2, <1>10 DEF Measured
<1>13. minv' \in [Columns -> Int]
    <2>1. \A j \in Columns : (IF j \in Tree THEN D[j] ELSE D[j] - delta) \in Int  BY <1>2, <1>7
    <2> QED BY <1>3, <2>1
<1>14. Turned(delta, next)  BY <1>2, <1>3, <1>11, <1>12, <1>13, Zenon DEF Turned
<1> QED BY <1>7, <1>10, <1>14

(* What a turn does to the slack of an edge.                               *)
LEMMA SlackAfterTurn ==
    ASSUME SolverShape, InRow, AtScan, NEW delta \in Nat, NEW next \in Outside, Turned(delta, next),
           NEW r \in Side, NEW c \in Side
    PROVE  /\ Reduced(r, c)' \in Int /\ Reduced(r, c) \in Int
           /\ Rooted(r) /\ c \in Tree => Reduced(r, c)' = Reduced(r, c)
           /\ Rooted(r) /\ c \notin Tree => Reduced(r, c)' = Reduced(r, c) - delta
           /\ ~Rooted(r) /\ c \in Tree => Reduced(r, c)' = Reduced(r, c) + delta
           /\ ~Rooted(r) /\ c \notin Tree => Reduced(r, c)' = Reduced(r, c)
<1>1. r \in Columns /\ c \in Columns  BY Shape
<1>2. u[r] \in Int /\ v[c] \in Int /\ cost[r][c] \in Int  BY <1>1, Shape
<1>3. u'[r] = IF Rooted(r) THEN u[r] + delta ELSE u[r]  BY <1>1, Zenon DEF Turned
<1>4. v'[c] = IF c \in Tree THEN v[c] - delta ELSE v[c]  BY <1>1, Zenon DEF Turned
<1>5. Reduced(r, c)' = cost[r][c] - u'[r] - v'[c] /\ Reduced(r, c) = cost[r][c] - u[r] - v[c]
    BY DEF Turned, Reduced
<1> QED BY <1>2, <1>3, <1>4, <1>5

(* A row on the tree has its column there.                                 *)
LEMMA RootedColumn ==
    ASSUME SolverShape, InRow, AtScan
    PROVE  /\ \A k \in Tree : Rooted(p[k])
           /\ \A c \in Side : p[c] # 0 /\ Rooted(p[c]) => c \in Tree
<1>1. \A k \in Tree : Rooted(p[k])  BY DEF Rooted
<1>2. ASSUME NEW c \in Side, p[c] # 0, Rooted(p[c]) PROVE c \in Tree
    <2>1. PICK k \in Tree : p[k] = p[c]  BY <1>2 DEF Rooted
    <2>2. k \in Columns /\ c \in Columns  BY TreeIsTaken, Shape
    <2>3. k = c  BY <1>2, <2>1, <2>2 DEF AtScan, ColumnsTaken
    <2> QED BY <2>1, <2>3
<1> QED BY <1>1, <1>2

LEMMA ScanKeepsShape ==
    ASSUME SolverShape, InRow, AtScan, NEW delta \in Nat, NEW next \in Outside, Turned(delta, next)
    PROVE  SolverShape'
<1>1. /\ Tree \subseteq Columns /\ next \in Columns
    BY TreeIsTaken, Shape
<1>2. u' \in [Columns -> Int]
    <2>1. \A r \in Columns : (IF Rooted(r) THEN u[r] + delta ELSE u[r]) \in Int  BY Shape
    <2> QED BY <2>1 DEF Turned
<1>3. v' \in [Columns -> Int]
    <2>1. \A r \in Columns : (IF r \in Tree THEN v[r] - delta ELSE v[r]) \in Int  BY Shape
    <2> QED BY <2>1 DEF Turned
<1>4. way' \in [Columns -> Columns] /\ minv' \in [Columns -> Int] /\ used' = Tree /\ j0' = next
      /\ cost' = cost /\ i' = i /\ p' = p
    BY Zenon DEF Turned
<1> QED BY <1>1, <1>2, <1>3, <1>4 DEF SolverShape, Columns, Side, N

LEMMA ScanKeepsPrices ==
    ASSUME SolverShape, Prices, InRow, AtScan,
           NEW delta \in Nat, NEW next \in Outside, Turned(delta, next)
    PROVE  Prices'
<1>1. cost' = cost /\ i' = i /\ p' = p  BY Zenon DEF Turned
<1>2. Side' = Side  BY <1>1 DEF Side
<1>3. ASSUME NEW r \in Side, NEW c \in Side PROVE Reduced(r, c)' >= 0
    <2>1. Reduced(r, c) >= 0  BY DEF Prices
    <2>2. CASE Rooted(r) /\ c \notin Tree
        <3>1. PICK k \in Tree : p[k] = r  BY <2>2 DEF Rooted
        <3>2. c \in Outside  BY <2>2 DEF Outside
        <3>3. delta <= Reduced(p[way'[c]], c) /\ Reduced(p[way'[c]], c) <= Reduced(r, c) /\ way'[c] \in Tree
            BY <3>1, <3>2 DEF Turned
        <3>4. Reduced(p[way'[c]], c) \in Int  BY <3>3, TreeIsTaken, Shape
        <3>5. Reduced(r, c)' = Reduced(r, c) - delta /\ Reduced(r, c) \in Int  BY <2>2, SlackAfterTurn
        <3> QED BY <3>3, <3>4, <3>5
    <2>3. CASE ~(Rooted(r) /\ c \notin Tree)
        <3>1. Reduced(r, c) \in Int /\ (Reduced(r, c)' = Reduced(r, c) \/ Reduced(r, c)' = Reduced(r, c) + delta)
            BY <2>3, SlackAfterTurn
        <3> QED BY <2>1, <3>1
    <2> QED BY <2>2, <2>3
<1>4. ASSUME NEW c \in Side, p[c] # 0 PROVE Reduced(p[c], c)' = 0
    <2> DEFINE r == p[c]
    <2>1. r \in Side  BY <1>4, Shape
    <2>2. Rooted(r) <=> c \in Tree  BY <1>4, RootedColumn
    <2>3. Reduced(r, c) = 0  BY <1>4 DEF Prices
    <2>4. cost[r][c] - u'[r] - v'[c] = 0
        <3>1. \A q \in Side : (Rooted(q) <=> c \in Tree) => Reduced(q, c)' = Reduced(q, c)
            BY SlackAfterTurn
        <3>2. \A q \in Side : Reduced(q, c)' = cost[q][c] - u'[q] - v'[c]
            BY <1>1 DEF Reduced
        <3> HIDE DEF r
        <3> QED BY <2>1, <2>2, <2>3, <3>1, <3>2
    <2> QED BY <1>1, <2>4 DEF Reduced
<1>5. ASSUME NEW c \in Side, p[c] = 0 PROVE v'[c] = 0
    <2>1. c \notin Tree /\ c \in Columns
        <3>1. \A k \in Tree : p[k] # 0  BY TreeIsTaken, Shape
        <3> QED BY <1>5, <3>1, Shape
    <2>2. v'[c] = v[c]  BY <2>1, Zenon DEF Turned
    <2> QED BY <1>5, <2>2 DEF Prices
<1>6. ASSUME NEW r \in Side PROVE u'[r] >= 0 /\ (r > i => u'[r] = 0)
    <2>1. r \in Columns /\ u[r] \in Int /\ r \in Nat /\ i \in Nat  BY Shape
    <2>2. u'[r] = IF Rooted(r) THEN u[r] + delta ELSE u[r]  BY <2>1, Zenon DEF Turned
    <2>3. u[r] >= 0 /\ (r > i => u[r] = 0)  BY DEF Prices
    <2>4. Rooted(r) => ~(r > i)
        <3>1. \A k \in Tree : p[k] <= i /\ p[k] \in Nat  BY TreeIsTaken, Shape DEF AtScan, ColumnsTaken
        <3> QED BY <2>1, <3>1 DEF Rooted
    <2> QED BY <2>1, <2>2, <2>3, <2>4
<1>7. \A c \in Side' : p'[c] # 0 => Reduced(p[c], c)' = 0  BY <1>1, <1>2, <1>4
<1>8. \A r, c \in Side' : Reduced(r, c)' >= 0  BY <1>2, <1>3
<1>9. \A c \in Side' : p'[c] = 0 => v'[c] = 0  BY <1>1, <1>2, <1>5
<1>10. \A r \in Side' : u'[r] >= 0 /\ (r > i' => u'[r] = 0)  BY <1>1, <1>2, <1>6
<1> QED BY <1>7, <1>8, <1>9, <1>10 DEF Prices

LEMMA ScanKeepsInRow ==
    ASSUME SolverShape, Prices, InRow, AtScan,
           NEW delta \in Nat, NEW next \in Outside, Turned(delta, next)
    PROVE  InRow'
<1>1. cost' = cost /\ i' = i /\ p' = p /\ used' = Tree  BY Zenon DEF Turned
<1>2. Side' = Side  BY <1>1 DEF Side
<1>3. i \in Side /\ i \in Columns /\ i >= 1
    <2>1. i \in Nat /\ i <= N /\ i >= 1  BY Shape DEF InRow
    <2>2. Side = 1 .. N /\ N \in Nat  BY DEF SolverShape
    <2>3. i \in Side  BY <2>1, <2>2
    <2> QED BY <2>1, <2>3 DEF Columns
<1>4. u'[i] = u[i] + delta /\ u[i] \in Int
    <2>1. Rooted(i)
        <3>1. p[0] = i /\ 0 \in Tree  BY DEF AtScan
        <3> QED BY <3>1, Zenon DEF Rooted
    <2>2. u'[i] = IF Rooted(i) THEN u[i] + delta ELSE u[i]  BY <1>3, Zenon DEF Turned
    <2> QED BY <1>3, <2>1, <2>2, Shape
<1>5. u'[i] <= Dearest
    <2>1. PICK f \in Outside : p[f] = 0  BY TreeIsTaken
    <2>2. f \in Side  BY <2>1, TreeIsTaken
    <2>3. cost[i][f] - u'[i] - v'[f] >= 0 /\ v'[f] = 0
        <3>1. Prices'  BY ScanKeepsPrices
        <3>2. \A r, c \in Side' : Reduced(r, c)' >= 0  BY <3>1 DEF Prices
        <3>3. \A r, c \in Side : cost[r][c] - u'[r] - v'[c] >= 0  BY <1>1, <1>2, <3>2 DEF Reduced
        <3>4. v'[f] = 0  BY <1>1, <1>2, <2>1, <2>2, <3>1 DEF Prices
        <3> QED BY <1>3, <2>2, <3>3, <3>4
    <2>4. cost[i][f] \in Int /\ cost[i][f] <= Dearest  BY <1>3, <2>2, Shape
    <2> QED BY <1>4, <2>3, <2>4, ConstantsTypes
<1>6. ASSUME NEW c \in Side PROVE v'[c] >= -((i - 1) * Dearest + u'[i])
    <2> DEFINE A == (i - 1) * Dearest
    <2>1. c \in Columns /\ v[c] \in Int /\ A \in Int  BY Shape, ConstantsTypes
    <2>2. v'[c] = IF c \in Tree THEN v[c] - delta ELSE v[c]  BY <2>1, Zenon DEF Turned
    <2>3. v[c] >= -(A + u[i])  BY DEF InRow
    <2> HIDE DEF A
    <2>4. v'[c] >= -(A + u'[i])  BY <1>4, <2>1, <2>2, <2>3
    <2> QED BY <2>4 DEF A
<1>7. \A k \in used' : p'[k] # 0
    <2>1. \A k \in Tree : p[k] # 0  BY TreeIsTaken, Shape
    <2> QED BY <1>1, <2>1
<1> QED BY <1>1, <1>2, <1>3, <1>5, <1>6, <1>7 DEF InRow

(* The slack after a turn, written out.                                    *)
Slack(r, c) == cost[r][c] - u'[r] - v'[c]

LEMMA SlackWritten ==
    ASSUME SolverShape, InRow, AtScan, NEW delta \in Nat, NEW next \in Outside, Turned(delta, next)
    PROVE  \A k \in Tree : \A c \in Side :
               /\ p[k] \in Side /\ Reduced(p[k], c) \in Int
               /\ c \in Tree => Slack(p[k], c) = Reduced(p[k], c)
               /\ c \notin Tree => Slack(p[k], c) = Reduced(p[k], c) - delta
<1>1. cost' = cost  BY Zenon DEF Turned
<1>2. \A r, c \in Side : Slack(r, c) = Reduced(r, c)'  BY <1>1 DEF Slack, Reduced
<1>3. \A r, c \in Side :
          /\ Reduced(r, c) \in Int
          /\ Rooted(r) /\ c \in Tree => Slack(r, c) = Reduced(r, c)
          /\ Rooted(r) /\ c \notin Tree => Slack(r, c) = Reduced(r, c) - delta
    BY <1>2, SlackAfterTurn
<1>4. \A k \in Tree : p[k] \in Side /\ Rooted(p[k])  BY TreeIsTaken, RootedColumn
<1> QED BY <1>3, <1>4

LEMMA TreeGrows ==
    ASSUME SolverShape, InRow, AtScan, NEW delta \in Nat, NEW next \in Outside, Turned(delta, next)
    PROVE  \E rank \in [Columns -> Nat] : \A k \in (Tree \cup {next}) \ {0} :
               way'[k] \in Tree /\ rank[way'[k]] < rank[k] /\ Slack(p[way'[k]], k) = 0
<1>1. PICK rank \in [Columns -> Nat] : \A k \in Tree \ {0} : FreeEdge(rank, k)  BY DEF AtScan
<1>2. /\ Tree \subseteq Columns /\ Outside \subseteq Side /\ next \notin Tree
      /\ next \in Columns
    BY TreeIsTaken, Shape
<1>3. way'[next] \in Tree /\ Reduced(p[way'[next]], next) = delta /\ \A k \in Tree : way'[k] = way[k]
    BY Zenon DEF Turned
<1> DEFINE mine == [k \in Columns |-> IF k = next THEN rank[way'[next]] + 1 ELSE rank[k]]
<1>4. mine \in [Columns -> Nat] /\ mine[next] = rank[way'[next]] + 1 /\ \A k \in Tree : mine[k] = rank[k]
    BY <1>1, <1>2, <1>3
<1> HIDE DEF mine
<1>5. ASSUME NEW k \in Tree, k # 0
      PROVE  way'[k] \in Tree /\ mine[way'[k]] < mine[k] /\ Slack(p[way'[k]], k) = 0
    <2>1. way[k] \in used /\ rank[way[k]] < rank[k] /\ Reduced(p[way[k]], k) = 0  BY <1>1, <1>5 DEF FreeEdge
    <2>2. way[k] \in Tree /\ way'[k] = way[k]  BY <1>3, <2>1 DEF Tree
    <2>3. k \in Side  BY <1>2, <1>5, Shape
    <2>4. Slack(p[way[k]], k) = 0  BY <2>1, <2>2, <2>3, SlackWritten
    <2> QED BY <1>4, <2>1, <2>2, <2>4
<1>6. mine[way'[next]] < mine[next]  BY <1>1, <1>2, <1>3, <1>4
<1>7. Slack(p[way'[next]], next) = 0
    <2>1. next \in Side  BY <1>2
    <2>2. Slack(p[way'[next]], next) = Reduced(p[way'[next]], next) - delta
        BY <1>2, <1>3, <2>1, SlackWritten
    <2> QED BY <1>3, <2>2
<1> QED BY <1>3, <1>4, <1>5, <1>6, <1>7

LEMMA ScanGoesOn ==
    ASSUME SolverShape, InRow, AtScan,
           NEW delta \in Nat, NEW next \in Outside, Turned(delta, next), p[next] # 0
    PROVE  AtScan'
<1>1. cost' = cost /\ i' = i /\ p' = p /\ used' = Tree /\ j0' = next  BY Zenon DEF Turned
<1>2. Side' = Side /\ Columns' = Columns  BY <1>1 DEF Side, Columns
<1>3. ColumnsTaken(Columns)'  BY <1>1, <1>2 DEF AtScan, ColumnsTaken
<1>4. Tree' = Tree \cup {next}  BY <1>1 DEF Tree
<1>5. next \notin Tree  BY TreeIsTaken
<1>6. ASSUME NEW j \in Outside, j # next PROVE Nearest(j)'
    <2>1. /\ way'[j] \in Tree
          /\ minv'[j] = Reduced(p[way'[j]], j) - delta
          /\ \A k \in Tree : Reduced(p[way'[j]], j) <= Reduced(p[k], j)
        BY Zenon DEF Turned
    <2>2. j \in Side /\ j \notin Tree  BY TreeIsTaken
    <2>3. \A k \in Tree : p[k] \in Side /\ Reduced(p[k], j) \in Int /\ Slack(p[k], j) = Reduced(p[k], j) - delta
        BY <2>2, SlackWritten
    <2>4. minv'[j] = Slack(p[way'[j]], j)  BY <2>1, <2>3
    <2>5. \A k \in Tree : minv'[j] <= Slack(p[k], j)  BY <2>1, <2>3
    <2> QED BY <1>1, <2>1, <2>4, <2>5 DEF Nearest, Slack, Reduced
<1>7. \A j \in Outside' : Nearest(j)'
    <2>1. \A j \in Outside' : j \in Outside /\ j # next  BY <1>2, <1>4 DEF Outside
    <2> QED BY <1>6, <2>1
<1>8. \E rank \in [Columns -> Nat]' : \A k \in (Tree \ {0})' : FreeEdge(rank, k)'
    <2>1. PICK rank \in [Columns -> Nat] : \A k \in (Tree \cup {next}) \ {0} :
               way'[k] \in Tree /\ rank[way'[k]] < rank[k] /\ Slack(p[way'[k]], k) = 0
        BY TreeGrows
    <2>2. \A k \in (Tree \cup {next}) \ {0} : FreeEdge(rank, k)'  BY <1>1, <2>1 DEF FreeEdge, Slack, Reduced
    <2> QED BY <1>2, <1>4, <2>2
<1>9. p'[0] = i' /\ 0 \in Tree' /\ p'[j0'] # 0 /\ j0' \notin used'
    BY <1>1, <1>4, <1>5 DEF AtScan
<1> QED BY <1>3, <1>7, <1>8, <1>9 DEF AtScan

LEMMA ScanEnds ==
    ASSUME SolverShape, InRow, AtScan,
           NEW delta \in Nat, NEW next \in Outside, Turned(delta, next), p[next] = 0
    PROVE  AtAugment'
<1>1. cost' = cost /\ i' = i /\ p' = p /\ used' = Tree /\ j0' = next  BY Zenon DEF Turned
<1>2. Side' = Side /\ Columns' = Columns  BY <1>1 DEF Side, Columns
<1>3. ColumnsTaken(Columns \ {j0})'
    <2>1. \A r \in 1 .. i : \E c \in Columns \ {next} : p[c] = r
        <3> SUFFICES ASSUME NEW r \in 1 .. i PROVE \E c \in Columns \ {next} : p[c] = r
            OBVIOUS
        <3>1. PICK c \in Columns : p[c] = r  BY DEF AtScan, ColumnsTaken
        <3>2. r # 0  BY Shape
        <3> QED BY <3>1, <3>2
    <2> QED BY <1>1, <1>2, <2>1 DEF AtScan, ColumnsTaken
<1>4. PICK rank \in [Columns -> Nat] : \A k \in (Tree \cup {next}) \ {0} :
          way'[k] \in Tree /\ rank[way'[k]] < rank[k] /\ Slack(p[way'[k]], k) = 0
    BY TreeGrows
<1>5. \A k \in (Tree \cup {next}) \ {0} : FreeEdge(rank, k)'  BY <1>1, <1>4 DEF FreeEdge, Slack, Reduced
<1>6. \A k \in (Columns \ {0})' : (k = j0' \/ (k \in used' /\ rank[k] < rank[j0'])) => FreeEdge(rank, k)'
    BY <1>1, <1>2, <1>5
<1> QED BY <1>2, <1>3, <1>6 DEF AtAugment
------------------------------------------------------------------------------
(* A swap on the path keeps every row its column and every edge free.      *)
LEMMA AugmentKeeps ==
    ASSUME SolverShape, Prices, InRow, AtAugment, Augment
    PROVE  SolverShape' /\ Prices' /\ InRow' /\ AtAugment'
<1> DEFINE w == way[j0]
<1>1. PICK rank \in [Columns -> Nat] : \A k \in Columns \ {0} :
          (k = j0 \/ (k \in used /\ rank[k] < rank[j0])) => FreeEdge(rank, k)
    BY DEF AtAugment
<1>2. j0 \in Columns /\ j0 # 0 /\ j0 \in Side  BY Shape DEF SolverShape, Augment
<1>3. w \in used /\ rank[w] < rank[j0] /\ Reduced(p[w], j0) = 0  BY <1>1, <1>2 DEF FreeEdge
<1>4. w \in Columns /\ w # j0 /\ p[w] # 0 /\ p[w] \in Side
    <2>1. w \in Columns /\ p[w] # 0  BY <1>3 DEF SolverShape, InRow
    <2>2. rank[w] \in Nat /\ rank[j0] \in Nat  BY <1>1, <1>2, <2>1
    <2> QED BY <1>3, <2>1, <2>2, Shape
<1>5. /\ p' = [p EXCEPT ![j0] = p[w]] /\ j0' = w
      /\ cost' = cost /\ i' = i /\ u' = u /\ v' = v /\ way' = way /\ minv' = minv /\ used' = used
    BY DEF Augment
<1> HIDE DEF w
<1>6. Side' = Side /\ Columns' = Columns  BY <1>5 DEF Side, Columns
<1>7. p'[j0] = p[w] /\ \A c \in Columns : c # j0 => p'[c] = p[c]
    BY <1>2, <1>5 DEF SolverShape
<1>8. SolverShape'
    <2>1. p' \in [Columns -> Columns]  BY <1>4, <1>5, Shape DEF SolverShape
    <2> QED BY <1>4, <1>5, <1>6, <2>1 DEF SolverShape, N
<1>9. Prices'
    <2>1. \A c \in Side : p'[c] # 0 => Reduced(p'[c], c) = 0
        <3> SUFFICES ASSUME NEW c \in Side, p'[c] # 0 PROVE Reduced(p'[c], c) = 0
            OBVIOUS
        <3>1. CASE c = j0  BY <1>3, <1>7, <3>1
        <3>2. CASE c # j0  BY <1>7, <3>2, Shape DEF Prices
        <3> QED BY <3>1, <3>2
    <2>2. \A c \in Side : p'[c] = 0 => v[c] = 0
        <3>1. \A c \in Side : p'[c] = 0 => c # j0  BY <1>4, <1>7
        <3> QED BY <1>7, <3>1, Shape DEF Prices
    <2> QED BY <1>5, <1>6, <2>1, <2>2 DEF Prices, Reduced
<1>10. InRow'
    <2>1. \A k \in used : p'[k] # 0
        <3>1. used \subseteq Columns  BY DEF SolverShape
        <3> QED BY <1>4, <1>7, <3>1 DEF InRow
    <2> QED BY <1>5, <1>6, <2>1 DEF InRow
<1>11. ColumnsTaken(Columns \ {j0})'
    <2>1. /\ \A c, d \in Columns \ {j0} : p[c] = p[d] /\ p[c] # 0 => c = d
          /\ \A c \in Columns \ {j0} : p[c] <= i
          /\ \A r \in 1 .. i : \E c \in Columns \ {j0} : p[c] = r
        BY DEF AtAugment, ColumnsTaken
    <2>2. \A c, d \in Columns \ {w} : p'[c] = p'[d] /\ p'[c] # 0 => c = d
        <3> SUFFICES ASSUME NEW c \in Columns \ {w}, NEW d \in Columns \ {w}, p'[c] = p'[d], p'[c] # 0
                     PROVE  c = d
            OBVIOUS
        <3>1. CASE c = j0 /\ d # j0
            <4>1. p[d] = p[w] /\ d \in Columns \ {j0} /\ w \in Columns \ {j0}  BY <1>4, <1>7, <3>1
            <4> QED BY <1>4, <2>1, <4>1
        <3>2. CASE c # j0 /\ d = j0
            <4>1. p[c] = p[w] /\ c \in Columns \ {j0} /\ w \in Columns \ {j0}  BY <1>4, <1>7, <3>2
            <4> QED BY <1>4, <2>1, <4>1
        <3>3. CASE c # j0 /\ d # j0
            <4>1. p[c] = p[d] /\ p[c] # 0  BY <1>7, <3>3
            <4> QED BY <2>1, <3>3, <4>1
        <3> QED BY <3>1, <3>2, <3>3
    <2>3. \A c \in Columns \ {w} : p'[c] <= i  BY <1>4, <1>7, <2>1
    <2>4. \A r \in 1 .. i : \E c \in Columns \ {w} : p'[c] = r
        <3> SUFFICES ASSUME NEW r \in 1 .. i PROVE \E c \in Columns \ {w} : p'[c] = r
            OBVIOUS
        <3>1. PICK c \in Columns \ {j0} : p[c] = r  BY <2>1
        <3>2. CASE c = w  BY <1>2, <1>4, <1>7, <3>1, <3>2
        <3>3. CASE c # w  BY <1>7, <3>1, <3>3
        <3> QED BY <3>2, <3>3
    <2> QED BY <1>5, <1>6, <2>2, <2>3, <2>4 DEF ColumnsTaken
<1>12. \A k \in Columns \ {0} :
           (k = w \/ (k \in used /\ rank[k] < rank[w])) =>
               way[k] \in used /\ rank[way[k]] < rank[k] /\ Reduced(p'[way[k]], k) = 0
    <2> SUFFICES ASSUME NEW k \in Columns \ {0}, k = w \/ (k \in used /\ rank[k] < rank[w])
                 PROVE  way[k] \in used /\ rank[way[k]] < rank[k] /\ Reduced(p'[way[k]], k) = 0
        OBVIOUS
    <2>1. rank[k] \in Nat /\ rank[w] \in Nat /\ rank[j0] \in Nat  BY <1>1, <1>2, <1>4
    <2>2. k \in used /\ rank[k] < rank[j0]  BY <1>3, <2>1
    <2>3. way[k] \in used /\ rank[way[k]] < rank[k] /\ Reduced(p[way[k]], k) = 0  BY <1>1, <2>2 DEF FreeEdge
    <2>4. way[k] \in Columns /\ rank[way[k]] \in Nat  BY <1>1, <2>3 DEF SolverShape
    <2>5. way[k] # j0  BY <2>1, <2>2, <2>3, <2>4
    <2>6. p'[way[k]] = p[way[k]]  BY <1>7, <2>4, <2>5
    <2> QED BY <2>3, <2>6
<1>13. AtAugment'
    <2>1. \A k \in (Columns \ {0})' : (k = j0' \/ (k \in used' /\ rank[k] < rank[j0'])) => FreeEdge(rank, k)'
        BY <1>5, <1>6, <1>12 DEF FreeEdge, Reduced
    <2> QED BY <1>6, <1>11, <2>1 DEF AtAugment
<1> QED BY <1>8, <1>9, <1>10, <1>13

(* At the root the row in hand has its column.                             *)
LEMMA EndRowKeeps ==
    ASSUME SolverShape, Prices, InRow, AtAugment, EndRow
    PROVE  SolverShape' /\ Prices' /\ AtRow'
<1>1. /\ cost' = cost /\ i' = i /\ u' = u /\ v' = v /\ p' = p /\ way' = way /\ minv' = minv
      /\ used' = used /\ j0' = j0 /\ j0 = 0
    BY DEF EndRow
<1>2. Side' = Side /\ Columns' = Columns  BY <1>1 DEF Side, Columns
<1>3. SolverShape' /\ Prices'  BY <1>1, <1>2 DEF SolverShape, Prices, Reduced, N
<1>4. Columns \ {0} = Side  BY Shape DEF Columns
<1>5. ColumnsTaken(Side)  BY <1>1, <1>4 DEF AtAugment, ColumnsTaken
<1>6. \A c \in Side : v[c] >= -(i * Dearest)
    <2> DEFINE A == (i - 1) * Dearest
               B == i * Dearest
    <2>1. i \in Nat /\ Dearest \in Nat /\ i >= 1  BY Shape, ConstantsTypes DEF InRow
    <2>2. A \in Int /\ B \in Int /\ B = A + Dearest  BY <2>1
    <2>3. \A c \in Side : v[c] >= -(A + u[i])  BY DEF InRow
    <2>4. i \in Columns /\ u[i] \in Int /\ u[i] <= Dearest  BY Shape DEF InRow, SolverShape, Columns
    <2>5. \A c \in Side : v[c] \in Int  BY Shape
    <2> HIDE DEF A, B
    <2>6. \A c \in Side : v[c] >= -B  BY <2>1, <2>2, <2>3, <2>4, <2>5
    <2> QED BY <2>6 DEF B
<1> QED BY <1>1, <1>2, <1>3, <1>5, <1>6 DEF AtRow, ColumnsTaken

LEMMA BeginRowKeeps ==
    ASSUME SolverShape, Prices, AtRow, BeginRow
    PROVE  SolverShape' /\ Prices' /\ InRow' /\ AtScan'
<1>1. /\ i' = i + 1 /\ p' = [p EXCEPT ![0] = i'] /\ minv' = [j \in Columns |-> Inf] /\ used' = {} /\ j0' = 0
      /\ cost' = cost /\ u' = u /\ v' = v /\ way' = way /\ i < N
    BY DEF BeginRow, RowsLeft, N
<1>2. Side' = Side /\ Columns' = Columns  BY <1>1 DEF Side, Columns
<1>3. i' \in Nat /\ i' \in Side /\ i' \in Columns /\ 0 \in Columns /\ i \in Nat /\ i' # 0 /\ i' <= N /\ i' >= 1
    BY <1>1, Shape DEF SolverShape, Columns
<1>4. p'[0] = i' /\ \A c \in Side : p'[c] = p[c]
    BY <1>1, <1>3, Shape DEF SolverShape
<1>5. SolverShape'
    <2>1. p' \in [Columns -> Columns]  BY <1>1, <1>3 DEF SolverShape
    <2>2. minv' \in [Columns -> Int]  BY <1>1, ConstantsTypes
    <2>3. i' \in 0 .. N  BY <1>3, Shape DEF SolverShape
    <2> QED BY <1>1, <1>2, <1>3, <2>1, <2>2, <2>3 DEF SolverShape, N
<1>6. Prices'
    <2>1. \A r \in Side : u[r] >= 0 /\ (r > i' => u[r] = 0)
        <3>1. \A r \in Side : r \in Nat /\ (r > i' => r > i)  BY <1>1, <1>3, Shape
        <3> QED BY <3>1 DEF Prices
    <2> QED BY <1>1, <1>2, <1>4, <2>1 DEF Prices, Reduced
<1>7. InRow'
    <2>1. u[i'] = 0
        <3>1. i' > i  BY <1>1, <1>3
        <3> QED BY <1>3, <3>1 DEF Prices
    <2>2. \A c \in Side : v[c] >= -((i' - 1) * Dearest + u[i'])
        <3>1. i' - 1 = i /\ i * Dearest + u[i'] = i * Dearest  BY <1>1, <1>3, <2>1, ConstantsTypes
        <3> QED BY <3>1 DEF AtRow
    <2>3. u[i'] <= Dearest  BY <2>1, ConstantsTypes
    <2> QED BY <1>1, <1>2, <1>3, <2>2, <2>3 DEF InRow
<1>8. ColumnsTaken(Columns)'
    <2>1. /\ \A c, d \in Side : p[c] = p[d] /\ p[c] # 0 => c = d
          /\ \A c \in Side : p[c] <= i /\ p[c] \in Nat
          /\ \A r \in 1 .. i : \E c \in Side : p[c] = r
        BY Shape DEF AtRow, ColumnsTaken
    <2>2. \A c \in Columns : c = 0 \/ c \in Side  BY DEF Columns
    <2>3. \A c \in Side : p'[c] # i'
        <3>1. \A c \in Side : p[c] # i + 1  BY <1>3, <2>1
        <3> QED BY <1>1, <1>4, <3>1
    <2>4. \A c, d \in Columns : p'[c] = p'[d] /\ p'[c] # 0 => c = d  BY <1>4, <2>1, <2>2, <2>3
    <2>5. \A c \in Columns : p'[c] <= i'
        <3>1. \A c \in Side : p[c] <= i'  BY <1>1, <1>3, <2>1
        <3> QED BY <1>3, <1>4, <2>2, <3>1
    <2>6. \A r \in 1 .. i' : \E c \in Columns : p'[c] = r
        <3> SUFFICES ASSUME NEW r \in 1 .. i' PROVE \E c \in Columns : p'[c] = r
            OBVIOUS
        <3>1. CASE r = i'  BY <1>3, <1>4, <3>1
        <3>2. CASE r # i'
            <4>1. r \in 1 .. i  BY <1>1, <1>3, <3>2
            <4>2. PICK c \in Side : p[c] = r  BY <2>1, <4>1
            <4> QED BY <1>4, <4>2, Shape
        <3> QED BY <3>1, <3>2
    <2> QED BY <1>2, <2>4, <2>5, <2>6 DEF ColumnsTaken
<1>9. AtScan'
    <2>1. Tree' = {0}  BY <1>1 DEF Tree
    <2>2. PICK rank \in [Columns -> Nat] : TRUE
        <3>1. [j \in Columns |-> 0] \in [Columns -> Nat]  OBVIOUS
        <3> QED BY <3>1
    <2>3. \E k \in [Columns -> Nat]' : \A j \in (Tree \ {0})' : FreeEdge(k, j)'
        <3>1. \A j \in (Tree \ {0})' : FreeEdge(rank, j)'  BY <2>1
        <3> QED BY <1>2, <2>2, <3>1
    <2>4. used' = {} /\ \A j \in Columns' : minv'[j] = Inf  BY <1>1, <1>2
    <2>5. p'[0] = i' /\ 0 \in Tree' /\ p'[j0'] # 0 /\ j0' \notin used'  BY <1>1, <1>3, <1>4, <2>1
    <2> QED BY <1>8, <2>3, <2>4, <2>5 DEF AtScan
<1> QED BY <1>5, <1>6, <1>7, <1>9
------------------------------------------------------------------------------
(* The costs on their way to the solver: bounded, and what each step of    *)
(* the stage leaves of them.                                               *)
TableInv == stage \in DOMAIN Tables /\ pairs \in Tables[stage]

Plans == { <<>>, <<"gate">>, <<"momentum", "gate">>, <<"appearance", "momentum", "gate">>,
           <<"appearance", "gate">>, <<"centre", "gate">>, <<"abstain", "gate">> }
ToDo ==
    /\ todo \in Plans
    /\ stage = "reid" => todo \in {<<"abstain", "gate">>, <<"gate">>, <<>>}
    /\ stage # "reid" => todo # <<"abstain", "gate">>
    /\ at # "fuse" => todo = <<>>

MaxFused == IF todo = <<>> THEN Dearest ELSE IF todo = <<"gate">> THEN 2 * PAD_COST ELSE PAD_COST
CostsBounded == fused \in [Rows -> [Cols -> 0 .. MaxFused]]

BaseRow(r) == [c \in Cols |-> BaseCost("reid", pairs[r][c])]
Held(r, c) == IF LookAlikes(BaseRow(r)) THEN PAD_COST ELSE BaseRow(r)[c]
ReidCosts ==
    stage = "reid" => \A r \in Rows :
        /\ todo = <<"abstain", "gate">> => fused[r] = BaseRow(r)
        /\ todo = <<"gate">> => \A c \in Cols : fused[r][c] = Held(r, c)
        /\ todo = <<>> => \A c \in Cols :
              fused[r][c] = IF pairs[r][c].apart THEN Held(r, c) + PAD_COST ELSE Held(r, c)

ApartCosts ==
    todo = <<>> => \A r \in Rows : \A c \in Cols : pairs[r][c].apart => fused[r][c] >= Penalty

(* The table is a rectangle of pairs.                                      *)
LEMMA TableFacts ==
    ASSUME TableInv
    PROVE  /\ \E m \in Nat : Rows = 1 .. m /\ (m + 1) * Dearest < Inf
           /\ Rows # {} => \E n \in Nat : Cols = 1 .. n /\ (n + 1) * Dearest < Inf
           /\ \A r \in Rows : DOMAIN pairs[r] = Cols
           /\ \A r \in Rows : \A c \in Cols : pairs[r][c] \in PairType
           /\ stage = "reid" => \A r \in Rows : \A c \in Cols : pairs[r][c].embedding \in 0 .. PAD_COST - 1
           /\ stage \in DOMAIN Steps
<1>1. /\ stage \in DOMAIN Steps /\ IsTable(pairs)
      /\ stage = "reid" => \A r \in DOMAIN pairs : \A c \in DOMAIN pairs[r] : pairs[r][c].embedding \in 0 .. PAD_COST - 1
    BY CostsAssumption DEF TableInv
<1>2. /\ pairs \in Seq(Seq(PairType))
      /\ \A r \in DOMAIN pairs : DOMAIN pairs[r] = DOMAIN pairs[1] /\ (Len(pairs[r]) + 1) * Dearest < Inf
      /\ (Len(pairs) + 1) * Dearest < Inf
    BY <1>1 DEF IsTable
<1>3. Rows = 1 .. Len(pairs) /\ Len(pairs) \in Nat  BY <1>2 DEF Rows
<1>4. \A r \in Rows : DOMAIN pairs[r] = Cols  BY <1>2 DEF Rows, Cols
<1>5. \A r \in Rows : pairs[r] \in Seq(PairType)  BY <1>2, <1>3
<1>6. ASSUME Rows # {} PROVE \E n \in Nat : Cols = 1 .. n /\ (n + 1) * Dearest < Inf
    <2>1. 1 \in Rows  BY <1>3, <1>6
    <2>2. Cols = 1 .. Len(pairs[1]) /\ Len(pairs[1]) \in Nat  BY <1>4, <1>5, <2>1
    <2>3. (Len(pairs[1]) + 1) * Dearest < Inf  BY <1>2, <2>1 DEF Rows
    <2> QED BY <2>2, <2>3
<1>7. \A r \in Rows : \A c \in Cols : pairs[r][c] \in PairType
    <2> SUFFICES ASSUME NEW r \in Rows, NEW c \in Cols PROVE pairs[r][c] \in PairType
        OBVIOUS
    <2> DEFINE row == pairs[r]
    <2>1. row \in Seq(PairType) /\ c \in DOMAIN row  BY <1>4, <1>5
    <2> HIDE DEF row
    <2>2. row[c] \in PairType  BY <2>1
    <2> QED BY <2>2 DEF row
<1>8. stage = "reid" => \A r \in Rows : \A c \in Cols : pairs[r][c].embedding \in 0 .. PAD_COST - 1
    BY <1>1, <1>4 DEF Rows
<1> QED BY <1>1, <1>2, <1>3, <1>4, <1>6, <1>7, <1>8

LEMMA PairFacts ==
    ASSUME TableInv
    PROVE  \A r \in Rows : \A c \in Cols :
               /\ pairs[r][c].overlap \in Nat /\ pairs[r][c].overlap <= PAD_COST
               /\ pairs[r][c].centre \in Nat /\ pairs[r][c].centre <= PAD_COST
               /\ pairs[r][c].embedding # NoValue => pairs[r][c].embedding \in Nat /\ pairs[r][c].embedding <= PAD_COST
               /\ stage = "reid" => pairs[r][c].embedding \in Nat /\ pairs[r][c].embedding < PAD_COST
               /\ pairs[r][c].turn # NoValue => pairs[r][c].turn \in Nat /\ pairs[r][c].turn <= PAD_COST
               /\ pairs[r][c].apart \in BOOLEAN /\ pairs[r][c].kin \in BOOLEAN
<1> SUFFICES ASSUME NEW r \in Rows, NEW c \in Cols
             PROVE  /\ pairs[r][c].overlap \in Nat /\ pairs[r][c].overlap <= PAD_COST
                    /\ pairs[r][c].centre \in Nat /\ pairs[r][c].centre <= PAD_COST
                    /\ pairs[r][c].embedding # NoValue => pairs[r][c].embedding \in Nat /\ pairs[r][c].embedding <= PAD_COST
                    /\ stage = "reid" => pairs[r][c].embedding \in Nat /\ pairs[r][c].embedding < PAD_COST
                    /\ pairs[r][c].turn # NoValue => pairs[r][c].turn \in Nat /\ pairs[r][c].turn <= PAD_COST
                    /\ pairs[r][c].apart \in BOOLEAN /\ pairs[r][c].kin \in BOOLEAN
    OBVIOUS
<1> DEFINE pair == pairs[r][c]
<1>1. pair \in PairType  BY TableFacts
<1>2. stage = "reid" => pair.embedding \in 0 .. PAD_COST - 1  BY TableFacts
<1>3. PAD_COST \in Nat  BY ConstantsTypes
<1> HIDE DEF pair
<1>4. /\ pair.overlap \in Price /\ pair.centre \in Price
      /\ pair.embedding \in Price \cup {NoValue} /\ pair.turn \in Price \cup {NoValue}
      /\ pair.apart \in BOOLEAN /\ pair.kin \in BOOLEAN
    BY <1>1 DEF PairType
<1>5. \A x \in Price : x \in Nat /\ x <= PAD_COST  BY <1>3 DEF Price
<1>6. stage = "reid" => pair.embedding \in Nat /\ pair.embedding < PAD_COST  BY <1>2, <1>3
<1>7. /\ pair.embedding # NoValue => pair.embedding \in Nat /\ pair.embedding <= PAD_COST
      /\ pair.turn # NoValue => pair.turn \in Nat /\ pair.turn <= PAD_COST
    BY <1>4, <1>5
<1> QED BY <1>4, <1>5, <1>6, <1>7 DEF pair

CostInv == TableInv /\ ToDo /\ CostsBounded /\ ReidCosts /\ ApartCosts

LEMMA CostsOf ==
    ASSUME CostsBounded
    PROVE  \A r \in Rows : \A c \in Cols : fused[r][c] \in Nat /\ fused[r][c] <= MaxFused
<1>1. MaxFused \in Nat  BY ConstantsTypes DEF MaxFused
<1>2. \A r \in Rows : fused[r] \in [Cols -> 0 .. MaxFused]  BY DEF CostsBounded
<1> QED BY <1>1, <1>2

LEMMA InitCosts ==
    ASSUME AssociationInit
    PROVE  CostInv
<1>1. TableInv  BY DEF AssociationInit, TableInv
<1>2. stage \in DOMAIN Steps /\ stage \in {"strong", "reid", "weak", "tentative"}
    BY <1>1, TableFacts DEF Steps
<1>3. ToDo
    BY <1>2 DEF AssociationInit, ToDo, Plans, Steps
<1>4. MaxFused = PAD_COST /\ todo # <<>> /\ todo # <<"gate">>
    BY <1>2 DEF AssociationInit, MaxFused, Steps
<1>5. fused = [r \in Rows |-> [c \in Cols |-> BaseCost(stage, pairs[r][c])]]
    <2>1. \A r \in Rows : DOMAIN pairs[r] = Cols  BY <1>1, TableFacts
    <2>2. fused = [r \in DOMAIN pairs |-> [c \in DOMAIN pairs[r] |-> BaseCost(stage, pairs[r][c])]]
        BY DEF AssociationInit
    <2> QED BY <2>1, <2>2 DEF Rows
<1>6. CostsBounded
    <2>1. \A r \in Rows : \A c \in Cols : BaseCost(stage, pairs[r][c]) \in 0 .. PAD_COST
        BY <1>1, PairFacts, ConstantsTypes DEF BaseCost
    <2>2. \A r \in Rows : [c \in Cols |-> BaseCost(stage, pairs[r][c])] \in [Cols -> 0 .. PAD_COST]  BY <2>1
    <2> QED BY <1>4, <1>5, <2>2 DEF CostsBounded
<1>7. ReidCosts
    <2>1. stage = "reid" => \A r \in Rows : fused[r] = BaseRow(r)  BY <1>5 DEF BaseRow
    <2> QED BY <1>4, <2>1 DEF ReidCosts
<1>8. ApartCosts  BY <1>4 DEF ApartCosts
<1> QED BY <1>1, <1>3, <1>6, <1>7, <1>8 DEF CostInv

(* What is left after a step of the stage.                                 *)
LEMMA PlansGoOn ==
    ASSUME NEW t \in Plans, t # <<>>
    PROVE  /\ Tail(t) \in Plans
           /\ Head(t) = "appearance" => Tail(t) # <<>> /\ t # <<"gate">> /\ t # <<"abstain", "gate">>
                                      /\ Tail(t) # <<"abstain", "gate">>
           /\ Head(t) = "momentum" => Tail(t) = <<"gate">> /\ t # <<"gate">> /\ t # <<"abstain", "gate">>
           /\ Head(t) = "centre" => Tail(t) = <<"gate">> /\ t # <<"gate">> /\ t # <<"abstain", "gate">>
           /\ Head(t) = "abstain" => Tail(t) = <<"gate">> /\ t # <<"gate">> /\ t = <<"abstain", "gate">>
           /\ Head(t) = "gate" => Tail(t) = <<>> /\ t = <<"gate">>
           /\ <<"gate">> # <<>> /\ <<"gate">> # <<"abstain", "gate">> /\ <<>> # <<"abstain", "gate">>
<1>0. <<"gate">> # <<>> /\ <<"gate">> # <<"abstain", "gate">> /\ <<>> # <<"abstain", "gate">>
    OBVIOUS
<1>1. CASE t = <<"gate">>  BY <1>1 DEF Plans
<1>2. CASE t = <<"momentum", "gate">>  BY <1>2 DEF Plans
<1>3. CASE t = <<"appearance", "momentum", "gate">>  BY <1>3 DEF Plans
<1>4. CASE t = <<"appearance", "gate">>  BY <1>4 DEF Plans
<1>5. CASE t = <<"centre", "gate">>  BY <1>5 DEF Plans
<1>6. CASE t = <<"abstain", "gate">>  BY <1>6 DEF Plans
<1>7. \/ t = <<"gate">> \/ t = <<"momentum", "gate">> \/ t = <<"appearance", "momentum", "gate">>
      \/ t = <<"appearance", "gate">> \/ t = <<"centre", "gate">> \/ t = <<"abstain", "gate">>
    BY Zenon DEF Plans
<1> QED BY <1>1, <1>2, <1>3, <1>4, <1>5, <1>6, <1>7, Zenon

(* A step of the stage: what it does to the costs, and where it stands.    *)
LEMMA AppearanceKeeps ==
    ASSUME CostInv, FuseAppearance
    PROVE  CostInv'
<1>1. /\ todo # <<>> /\ Head(todo) = "appearance" /\ todo' = Tail(todo) /\ at = "fuse"
      /\ fused' = [r \in Rows |-> [c \in Cols |->
            IF pairs[r][c].embedding = NoValue THEN fused[r][c] ELSE Smaller(fused[r][c], Gated(r, c))]]
      /\ pairs' = pairs /\ stage' = stage /\ at' = at
    BY DEF FuseAppearance, Fuse, solverVars
<1>2. Rows' = Rows /\ Cols' = Cols  BY <1>1 DEF Rows, Cols
<1>3. /\ todo' \in Plans /\ todo' # <<>> /\ todo' # <<"abstain", "gate">>
      /\ todo # <<"gate">> /\ todo # <<>> /\ stage # "reid"
    <2>1. todo \in Plans /\ (stage = "reid" => todo \in {<<"abstain", "gate">>, <<"gate">>, <<>>})
        BY DEF CostInv, ToDo
    <2>2. /\ Tail(todo) \in Plans /\ Tail(todo) # <<>> /\ Tail(todo) # <<"abstain", "gate">>
          /\ todo # <<"gate">> /\ todo # <<"abstain", "gate">>
        BY <1>1, <2>1, PlansGoOn, Zenon
    <2> QED BY <1>1, <2>1, <2>2, Zenon
<1>4. ToDo' /\ TableInv'  BY <1>1, <1>3, Zenon DEF CostInv, ToDo, TableInv
<1>5. CostsBounded'
    <2>1. MaxFused = PAD_COST /\ PAD_COST \in Nat /\ MaxFused' \in Nat /\ MaxFused <= MaxFused'
        <3>2. MaxFused' = PAD_COST \/ MaxFused' = 2 * PAD_COST  BY <1>3 DEF MaxFused
        <3>3. MaxFused = PAD_COST  BY <1>3 DEF MaxFused
        <3> QED BY <3>2, <3>3, ConstantsTypes
    <2>2. ASSUME NEW r \in Rows, NEW c \in Cols
          PROVE  (IF pairs[r][c].embedding = NoValue THEN fused[r][c]
                  ELSE Smaller(fused[r][c], Gated(r, c))) \in 0 .. MaxFused'
        <3>1. fused[r][c] \in Nat /\ fused[r][c] <= MaxFused'  BY <2>1, CostsOf DEF CostInv
        <3>2. pairs[r][c].embedding # NoValue => Gated(r, c) \in Nat
            BY PairFacts, ConstantsTypes DEF CostInv, Gated
        <3> HIDE DEF MaxFused
        <3> QED BY <2>1, <3>1, <3>2 DEF Smaller
    <2>3. fused' \in [Rows -> [Cols -> 0 .. MaxFused']]  BY <1>1, <2>2
    <2> QED BY <1>2, <2>3 DEF CostsBounded
<1>6. ReidCosts' /\ ApartCosts'
    <2>1. todo' # <<>>  BY <1>3
    <2> QED BY <1>1, <1>3, <2>1 DEF ReidCosts, ApartCosts
<1> QED BY <1>4, <1>5, <1>6 DEF CostInv

LEMMA MomentumKeeps ==
    ASSUME CostInv, FuseMomentum
    PROVE  CostInv'
<1>1. /\ todo # <<>> /\ Head(todo) = "momentum" /\ todo' = Tail(todo) /\ at = "fuse"
      /\ fused' = [r \in Rows |-> [c \in Cols |->
            IF pairs[r][c].turn = NoValue THEN fused[r][c] ELSE fused[r][c] + pairs[r][c].turn]]
      /\ pairs' = pairs /\ stage' = stage /\ at' = at
    BY DEF FuseMomentum, Fuse, solverVars
<1>2. Rows' = Rows /\ Cols' = Cols  BY <1>1 DEF Rows, Cols
<1>3. /\ todo' = <<"gate">> /\ todo' \in Plans /\ todo' # <<>> /\ todo' # <<"abstain", "gate">>
      /\ todo # <<"gate">> /\ todo # <<>> /\ stage # "reid"
    <2>1. todo \in Plans /\ (stage = "reid" => todo \in {<<"abstain", "gate">>, <<"gate">>, <<>>})
        BY DEF CostInv, ToDo
    <2>2. /\ Tail(todo) \in Plans /\ Tail(todo) = <<"gate">>
          /\ todo # <<"gate">> /\ todo # <<"abstain", "gate">>
          /\ <<"gate">> # <<>> /\ <<"gate">> # <<"abstain", "gate">>
        BY <1>1, <2>1, PlansGoOn, Zenon
    <2> QED BY <1>1, <2>1, <2>2, Zenon
<1>4. ToDo' /\ TableInv'  BY <1>1, <1>3, Zenon DEF CostInv, ToDo, TableInv
<1>5. CostsBounded'
    <2>1. MaxFused = PAD_COST /\ PAD_COST \in Nat /\ MaxFused' = 2 * PAD_COST  BY <1>3, ConstantsTypes DEF MaxFused
    <2>2. ASSUME NEW r \in Rows, NEW c \in Cols
          PROVE  (IF pairs[r][c].turn = NoValue THEN fused[r][c]
                  ELSE fused[r][c] + pairs[r][c].turn) \in 0 .. 2 * PAD_COST
        <3>1. fused[r][c] \in Nat /\ fused[r][c] <= PAD_COST  BY <2>1, CostsOf DEF CostInv
        <3>2. pairs[r][c].turn # NoValue => pairs[r][c].turn \in Nat /\ pairs[r][c].turn <= PAD_COST
            BY PairFacts DEF CostInv
        <3> QED BY <2>1, <3>1, <3>2
    <2>3. fused' \in [Rows -> [Cols -> 0 .. 2 * PAD_COST]]  BY <1>1, <2>2
    <2> QED BY <1>2, <2>1, <2>3 DEF CostsBounded
<1>6. ReidCosts' /\ ApartCosts'  BY <1>1, <1>3, Zenon DEF ReidCosts, ApartCosts
<1> QED BY <1>4, <1>5, <1>6 DEF CostInv

LEMMA CenterKeeps ==
    ASSUME CostInv, FuseCenter
    PROVE  CostInv'
<1>1. /\ todo # <<>> /\ Head(todo) = "centre" /\ todo' = Tail(todo) /\ at = "fuse"
      /\ fused' = [r \in Rows |-> [c \in Cols |->
            IF r \in still THEN Smaller(fused[r][c], pairs[r][c].centre) ELSE fused[r][c]]]
      /\ pairs' = pairs /\ stage' = stage /\ at' = at
    BY DEF FuseCenter, Fuse, solverVars
<1>2. Rows' = Rows /\ Cols' = Cols  BY <1>1 DEF Rows, Cols
<1>3. /\ todo' = <<"gate">> /\ todo' \in Plans /\ todo' # <<>> /\ todo' # <<"abstain", "gate">>
      /\ todo # <<"gate">> /\ todo # <<>> /\ stage # "reid"
    <2>1. todo \in Plans /\ (stage = "reid" => todo \in {<<"abstain", "gate">>, <<"gate">>, <<>>})
        BY DEF CostInv, ToDo
    <2>2. /\ Tail(todo) \in Plans /\ Tail(todo) = <<"gate">>
          /\ todo # <<"gate">> /\ todo # <<"abstain", "gate">>
          /\ <<"gate">> # <<>> /\ <<"gate">> # <<"abstain", "gate">>
        BY <1>1, <2>1, PlansGoOn, Zenon
    <2> QED BY <1>1, <2>1, <2>2, Zenon
<1>4. ToDo' /\ TableInv'  BY <1>1, <1>3, Zenon DEF CostInv, ToDo, TableInv
<1>5. CostsBounded'
    <2>1. MaxFused = PAD_COST /\ PAD_COST \in Nat /\ MaxFused' = 2 * PAD_COST  BY <1>3, ConstantsTypes DEF MaxFused
    <2>2. ASSUME NEW r \in Rows, NEW c \in Cols
          PROVE  (IF r \in still THEN Smaller(fused[r][c], pairs[r][c].centre) ELSE fused[r][c]) \in 0 .. 2 * PAD_COST
        <3>1. fused[r][c] \in Nat /\ fused[r][c] <= PAD_COST  BY <2>1, CostsOf DEF CostInv
        <3>2. pairs[r][c].centre \in Nat /\ pairs[r][c].centre <= PAD_COST  BY PairFacts DEF CostInv
        <3>3. Smaller(fused[r][c], pairs[r][c].centre) \in {fused[r][c], pairs[r][c].centre}  BY DEF Smaller
        <3> QED BY <2>1, <3>1, <3>2, <3>3
    <2>3. fused' \in [Rows -> [Cols -> 0 .. 2 * PAD_COST]]  BY <1>1, <2>2
    <2> QED BY <1>2, <2>1, <2>3 DEF CostsBounded
<1>6. ReidCosts' /\ ApartCosts'  BY <1>1, <1>3, Zenon DEF ReidCosts, ApartCosts
<1> QED BY <1>4, <1>5, <1>6 DEF CostInv

LEMMA AbstainKeeps ==
    ASSUME CostInv, Abstain
    PROVE  CostInv'
<1>1. /\ todo # <<>> /\ Head(todo) = "abstain" /\ todo' = Tail(todo) /\ at = "fuse"
      /\ fused' = [r \in Rows |-> [c \in Cols |-> IF LookAlikes(fused[r]) THEN PAD_COST ELSE fused[r][c]]]
      /\ pairs' = pairs /\ stage' = stage /\ at' = at
    BY DEF Abstain, Fuse, solverVars
<1>2. Rows' = Rows /\ Cols' = Cols  BY <1>1 DEF Rows, Cols
<1>3. /\ todo' = <<"gate">> /\ todo' \in Plans /\ todo' # <<>> /\ todo' # <<"abstain", "gate">>
      /\ todo # <<"gate">> /\ todo # <<>> /\ stage = "reid" /\ todo = <<"abstain", "gate">>
    <2>1. todo \in Plans /\ (stage # "reid" => todo # <<"abstain", "gate">>)
        BY DEF CostInv, ToDo
    <2>2. /\ Tail(todo) \in Plans /\ Tail(todo) = <<"gate">>
          /\ todo # <<"gate">> /\ todo = <<"abstain", "gate">>
          /\ <<"gate">> # <<>> /\ <<"gate">> # <<"abstain", "gate">>
        BY <1>1, <2>1, PlansGoOn, Zenon
    <2> QED BY <1>1, <2>1, <2>2, Zenon
<1>4. ToDo' /\ TableInv'
    <2>1. todo' \in {<<"abstain", "gate">>, <<"gate">>, <<>>}  BY <1>3
    <2> QED BY <1>1, <1>3, <2>1, Zenon DEF CostInv, ToDo, TableInv
<1>5. CostsBounded'
    <2>1. MaxFused = PAD_COST /\ PAD_COST \in Nat /\ MaxFused' = 2 * PAD_COST
        <3>1. MaxFused = PAD_COST  BY <1>3, Zenon DEF MaxFused
        <3>2. MaxFused' = 2 * PAD_COST  BY <1>3, Zenon DEF MaxFused
        <3> QED BY <3>1, <3>2, ConstantsTypes
    <2>2. ASSUME NEW r \in Rows, NEW c \in Cols
          PROVE  (IF LookAlikes(fused[r]) THEN PAD_COST ELSE fused[r][c]) \in 0 .. 2 * PAD_COST
        <3>1. fused[r][c] \in Nat /\ fused[r][c] <= PAD_COST  BY <2>1, CostsOf DEF CostInv
        <3> QED BY <2>1, <3>1
    <2>3. fused' \in [Rows -> [Cols -> 0 .. 2 * PAD_COST]]  BY <1>1, <2>2
    <2> QED BY <1>2, <2>1, <2>3 DEF CostsBounded
<1>6. ReidCosts'
    <2>1. \A r \in Rows : BaseRow(r)' = BaseRow(r)  BY <1>1, <1>2 DEF BaseRow, BaseCost
    <2>2. \A r \in Rows : fused[r] = BaseRow(r)  BY <1>3 DEF CostInv, ReidCosts
    <2>3. \A r \in Rows : \A c \in Cols : fused'[r][c] = Held(r, c)  BY <1>1, <2>2 DEF Held
    <2>4. \A r \in Rows : \A c \in Cols : Held(r, c)' = Held(r, c)
        <3> SUFFICES ASSUME NEW r \in Rows, NEW c \in Cols PROVE Held(r, c)' = Held(r, c)
            OBVIOUS
        <3>1. BaseRow(r)' = BaseRow(r)  BY <2>1
        <3> QED BY <3>1 DEF Held
    <2>5. \A r \in Rows' : \A c \in Cols' : fused'[r][c] = Held(r, c)'  BY <1>2, <2>3, <2>4
    <2> QED BY <1>3, <2>5 DEF ReidCosts
<1>7. ApartCosts'  BY <1>3 DEF ApartCosts
<1> QED BY <1>4, <1>5, <1>6, <1>7 DEF CostInv

LEMMA GateKeeps ==
    ASSUME CostInv, GateDepth
    PROVE  CostInv'
<1>1. /\ todo # <<>> /\ Head(todo) = "gate" /\ todo' = Tail(todo) /\ at = "fuse"
      /\ fused' = [r \in Rows |-> [c \in Cols |-> IF pairs[r][c].apart THEN fused[r][c] + Penalty ELSE fused[r][c]]]
      /\ pairs' = pairs /\ stage' = stage /\ at' = at
    BY DEF GateDepth, Fuse, solverVars
<1>2. Rows' = Rows /\ Cols' = Cols /\ Penalty' = Penalty  BY <1>1 DEF Rows, Cols, Penalty
<1>3. todo' = <<>> /\ todo' \in Plans /\ todo = <<"gate">> /\ <<"gate">> # <<>> /\ <<>> # <<"abstain", "gate">>
      /\ todo' # <<"gate">>
    <2>1. todo \in Plans  BY DEF CostInv, ToDo
    <2>2. /\ Tail(todo) \in Plans /\ Tail(todo) = <<>> /\ todo = <<"gate">>
          /\ <<"gate">> # <<>> /\ <<"gate">> # <<"abstain", "gate">> /\ <<>> # <<"abstain", "gate">>
        BY <1>1, <2>1, PlansGoOn, Zenon
    <2> QED BY <1>1, <2>2, Zenon
<1>4. ToDo' /\ TableInv'
    <2>1. todo' \in {<<"abstain", "gate">>, <<"gate">>, <<>>}  BY <1>3
    <2> QED BY <1>1, <1>3, <2>1, Zenon DEF CostInv, ToDo, TableInv
<1>5. MaxFused = 2 * PAD_COST /\ MaxFused' = Dearest
    <2>1. MaxFused = 2 * PAD_COST  BY <1>3, Zenon DEF MaxFused
    <2>2. MaxFused' = Dearest  BY <1>3, Zenon DEF MaxFused
    <2> QED BY <2>1, <2>2
<1>6. Penalty \in Nat /\ 2 * PAD_COST + Penalty <= Dearest  BY ConstantsTypes DEF Penalty, Dearest
<1>7. \A r \in Rows : \A c \in Cols : fused[r][c] \in Nat /\ fused[r][c] <= 2 * PAD_COST
    BY <1>5, CostsOf DEF CostInv
<1>8. CostsBounded'
    <2>1. ASSUME NEW r \in Rows, NEW c \in Cols
          PROVE  (IF pairs[r][c].apart THEN fused[r][c] + Penalty ELSE fused[r][c]) \in 0 .. Dearest
        <3>1. fused[r][c] \in Nat /\ fused[r][c] <= 2 * PAD_COST  BY <1>7
        <3> QED BY <1>6, <3>1, ConstantsTypes
    <2>2. fused' \in [Rows -> [Cols -> 0 .. Dearest]]  BY <1>1, <2>1
    <2> QED BY <1>2, <1>5, <2>2 DEF CostsBounded
<1>9. ReidCosts'
    <2> SUFFICES ASSUME stage = "reid" PROVE ReidCosts'
        BY <1>1 DEF ReidCosts
    <2>1. \A r \in Rows : BaseRow(r)' = BaseRow(r)  BY <1>1, <1>2 DEF BaseRow, BaseCost
    <2>2. \A r \in Rows : \A c \in Cols : fused[r][c] = Held(r, c)  BY <1>3 DEF CostInv, ReidCosts
    <2>3. Penalty = PAD_COST  BY DEF Penalty
    <2>4. \A r \in Rows : \A c \in Cols :
              fused'[r][c] = IF pairs[r][c].apart THEN Held(r, c) + PAD_COST ELSE Held(r, c)
        BY <1>1, <2>2, <2>3
    <2>5. \A r \in Rows : \A c \in Cols : Held(r, c)' = Held(r, c)
        <3> SUFFICES ASSUME NEW r \in Rows, NEW c \in Cols PROVE Held(r, c)' = Held(r, c)
            OBVIOUS
        <3>1. BaseRow(r)' = BaseRow(r)  BY <2>1
        <3> QED BY <3>1 DEF Held
    <2>6. \A r \in Rows' : \A c \in Cols' :
              fused'[r][c] = IF pairs'[r][c].apart THEN Held(r, c)' + PAD_COST ELSE Held(r, c)'
        BY <1>1, <1>2, <2>4, <2>5
    <2> QED BY <1>3, <2>6 DEF ReidCosts
<1>10. ApartCosts'
    <2>1. \A r \in Rows : \A c \in Cols : pairs[r][c].apart => fused'[r][c] >= Penalty
        BY <1>1, <1>6, <1>7
    <2> QED BY <1>1, <1>2, <2>1 DEF ApartCosts
<1> QED BY <1>4, <1>8, <1>9, <1>10 DEF CostInv
------------------------------------------------------------------------------
(* The matrix of the solver is the costs, with padding to a square.        *)
PadInv ==
    at \in {"row", "scan", "augment"} =>
        /\ Rows # {} /\ Cols # {} /\ Side = Rows \cup Cols
        /\ \A r, c \in Side : cost[r][c] = Padded(r, c)

Outcome ==
    Done =>
        /\ \A m \in found.matches : m[1] \in Rows /\ m[2] \in Cols
        /\ ComesOutOnce

AssociationInv ==
    /\ at \in {"fuse", "row", "scan", "augment", "done"}
    /\ CostInv /\ SolverInv /\ PadInv /\ Outcome

LEMMA PadStarts ==
    ASSUME CostInv, Pad
    PROVE  SolverShape' /\ Prices' /\ AtRow' /\ PadInv'
<1> DEFINE side == Rows \cup Cols
           matrix == [r \in side |-> [c \in side |-> Padded(r, c)]]
           zero == [r \in {0} \cup side |-> 0]
<1>1. /\ at = "fuse" /\ todo = <<>> /\ Rows # {} /\ Cols # {}
      /\ cost' = matrix /\ i' = 0 /\ used' = {} /\ j0' = 0
      /\ u' = zero /\ v' = zero /\ p' = zero /\ way' = zero /\ minv' = zero
      /\ pairs' = pairs /\ fused' = fused
    <2>1. DOMAIN matrix = side  OBVIOUS
    <2> HIDE DEF matrix, side
    <2>2. u' = [r \in {0} \cup DOMAIN matrix |-> 0]
        BY DEF Pad, SolverStart, matrix, side
    <2>3. u' = zero  BY <2>1, <2>2
    <2> QED BY <2>3 DEF Pad, SolverStart, matrix, side
<1>2. Rows' = Rows /\ Cols' = Cols  BY <1>1 DEF Rows, Cols
<1>3. PICK m \in Nat : Rows = 1 .. m /\ (m + 1) * Dearest < Inf  BY TableFacts DEF CostInv
<1>4. PICK n \in Nat : Cols = 1 .. n /\ (n + 1) * Dearest < Inf  BY <1>1, TableFacts DEF CostInv
<1>5. \E k \in Nat : side = 1 .. k /\ (k + 1) * Dearest < Inf
    <2>1. CASE m <= n
        <3>1. side = 1 .. n  BY <1>3, <1>4, <2>1
        <3> HIDE DEF side
        <3> QED BY <1>4, <3>1
    <2>2. CASE ~(m <= n)
        <3>1. side = 1 .. m  BY <1>3, <1>4, <2>2
        <3> HIDE DEF side
        <3> QED BY <1>3, <3>1
    <2> QED BY <2>1, <2>2
<1>6. \A r \in Rows : \A c \in Cols : fused[r][c] \in 0 .. Dearest
    <2>1. MaxFused = Dearest  BY <1>1 DEF MaxFused
    <2>2. \A r \in Rows : \A c \in Cols : fused[r][c] \in Nat /\ fused[r][c] <= Dearest
        BY <2>1, CostsOf DEF CostInv
    <2> QED BY <2>2, ConstantsTypes
<1>7. \A r, c \in side : Padded(r, c) \in 0 .. Dearest
    <2>1. PAD_COST \in 0 .. Dearest  BY ConstantsTypes DEF Dearest
    <2> HIDE DEF side
    <2> QED BY <1>6, <2>1 DEF Padded
<1>8. DOMAIN matrix = side /\ \A r, c \in side : matrix[r][c] = Padded(r, c)  OBVIOUS
<1>9. matrix \in [side -> [side -> 0 .. Dearest]]  BY <1>7
<1> HIDE DEF matrix
<1>10. Side' = side /\ Columns' = {0} \cup side  BY <1>1, <1>8 DEF Side, Columns
<1> HIDE DEF side
<1>11. PICK k \in Nat : side = 1 .. k /\ (k + 1) * Dearest < Inf  BY <1>5
<1>12. N' = k
    <2>1. Cardinality(1 .. k) = k
        <3>1. k \in Int /\ 1 \in Int /\ (1 > k => k = 0)  BY <1>11
        <3>2. Cardinality(1 .. k) = IF 1 > k THEN 0 ELSE k - 1 + 1  BY <3>1, FS_Interval, Zenon
        <3> QED BY <3>1, <3>2
    <2> QED BY <1>10, <1>11, <2>1 DEF N
<1>13. zero \in [{0} \cup side -> {0} \cup side] /\ zero \in [{0} \cup side -> Int]  OBVIOUS
<1>14. \A c \in {0} \cup side : zero[c] = 0  OBVIOUS
<1> HIDE DEF zero
<1>15. SolverShape'
    <2>1. N' \in Nat /\ Side' = 1 .. N' /\ (N' + 1) * Dearest < Inf  BY <1>10, <1>11, <1>12
    <2>2. cost' \in [Side' -> [Side' -> 0 .. Dearest]]  BY <1>1, <1>9, <1>10
    <2>3. i' \in 0 .. N'  BY <1>1, <1>11, <1>12
    <2>4. /\ u' \in [Columns' -> Int] /\ v' \in [Columns' -> Int] /\ minv' \in [Columns' -> Int]
          /\ p' \in [Columns' -> Columns'] /\ way' \in [Columns' -> Columns']
          /\ used' \subseteq Columns' /\ j0' \in Columns'
        BY <1>1, <1>10, <1>13
    <2> QED BY <2>1, <2>2, <2>3, <2>4 DEF SolverShape
<1>16. Prices'
    <2>1. \A r, c \in side : Padded(r, c) - 0 - 0 >= 0  BY <1>7, ConstantsTypes
    <2>2. \A r, c \in side : Reduced(r, c)' >= 0
        <3>1. \A r \in side : u'[r] = 0 /\ v'[r] = 0  BY <1>1, <1>14
        <3> QED BY <1>1, <1>8, <2>1, <3>1 DEF Reduced
    <2>3. \A c \in side : p'[c] = 0 /\ v'[c] = 0 /\ u'[c] = 0  BY <1>1, <1>14
    <2>4. \A r \in side : u'[r] >= 0  BY <2>3
    <2> QED BY <1>10, <2>2, <2>3, <2>4 DEF Prices
<1>17. AtRow'
    <2>1. \A c \in side : p'[c] = 0 /\ v'[c] = 0  BY <1>1, <1>14
    <2>2. -(0 * Dearest) = 0  BY ConstantsTypes
    <2>3. \A c \in side : v'[c] >= -(i' * Dearest)  BY <1>1, <2>1, <2>2
    <2>4. ColumnsTaken(Side)'  BY <1>1, <1>10, <2>1 DEF ColumnsTaken
    <2> QED BY <1>10, <2>3, <2>4 DEF AtRow
<1>18. PadInv'
    <2>1. \A r, c \in side : Padded(r, c)' = Padded(r, c)  BY <1>1, <1>2 DEF Padded
    <2>2. \A r, c \in Side' : cost'[r][c] = Padded(r, c)'  BY <1>1, <1>8, <1>10, <2>1
    <2> QED BY <1>1, <1>2, <1>10, <2>2 DEF PadInv, side
<1> QED BY <1>15, <1>16, <1>17, <1>18

(* A finished solver has a column of its own for every row.                *)
LEMMA SolvedAssigns ==
    ASSUME SolverShape, AtRow, Solved
    PROVE  /\ \A r \in Side : AssignedTo(r) \in Side /\ p[AssignedTo(r)] = r
           /\ \A r, s \in Side : AssignedTo(r) = AssignedTo(s) => r = s
<1>1. i = N  BY Shape DEF Solved, RowsLeft, N, SolverShape
<1>2. \A r \in Side : \E c \in Side : p[c] = r  BY <1>1 DEF AtRow, ColumnsTaken, SolverShape
<1>3. \A r \in Side : AssignedTo(r) \in Side /\ p[AssignedTo(r)] = r  BY <1>2 DEF AssignedTo
<1> QED BY <1>3

LEMMA KeepWithinKeeps ==
    ASSUME AssociationInv, KeepWithin
    PROVE  Outcome'
<1> DEFINE kept == {r \in Rows : AssignedTo(r) \in Cols /\ fused[r][AssignedTo(r)] <= Threshold[stage]}
           matches == {<<r, AssignedTo(r)>> : r \in kept}
<1>1. /\ Solved
      /\ found' = [matches |-> matches, rows |-> Rows \ {m[1] : m \in matches},
                   cols |-> Cols \ {m[2] : m \in matches}]
      /\ at' = "done" /\ stage' = stage /\ pairs' = pairs /\ fused' = fused
    BY DEF KeepWithin
<1>2. Rows' = Rows /\ Cols' = Cols  BY <1>1 DEF Rows, Cols
<1>3. SolverShape /\ AtRow /\ Side = Rows \cup Cols  BY <1>1 DEF Solved, AssociationInv, SolverInv, PadInv
<1>4. \A r, s \in Side : AssignedTo(r) = AssignedTo(s) => r = s  BY <1>1, <1>3, SolvedAssigns
<1>5. \A m \in matches : \E r \in kept : m[1] = r /\ m[2] = AssignedTo(r) /\ m = <<r, AssignedTo(r)>>
    OBVIOUS
<1>6. \A r \in kept : r \in Rows /\ r \in Side /\ AssignedTo(r) \in Cols /\ fused[r][AssignedTo(r)] <= Threshold[stage]
    BY <1>3
<1> HIDE DEF matches, kept
<1>7. \A m, n \in matches : m = n \/ (m[1] # n[1] /\ m[2] # n[2])
    <2> SUFFICES ASSUME NEW m \in matches, NEW n \in matches PROVE m = n \/ (m[1] # n[1] /\ m[2] # n[2])
        OBVIOUS
    <2>1. PICK r \in kept : m[1] = r /\ m[2] = AssignedTo(r) /\ m = <<r, AssignedTo(r)>>  BY <1>5
    <2>2. PICK s \in kept : n[1] = s /\ n[2] = AssignedTo(s) /\ n = <<s, AssignedTo(s)>>  BY <1>5
    <2>3. CASE r = s  BY <2>1, <2>2, <2>3
    <2>4. CASE r # s
        <3>1. AssignedTo(r) # AssignedTo(s)  BY <1>4, <1>6, <2>4
        <3> QED BY <2>1, <2>2, <2>4, <3>1
    <2> QED BY <2>3, <2>4
<1>8. \A m \in matches : m[1] \in Rows /\ m[2] \in Cols /\ fused[m[1]][m[2]] <= Threshold[stage]
    BY <1>5, <1>6
<1>9. found'.matches = matches /\ found'.rows = Rows \ {m[1] : m \in matches}
      /\ found'.cols = Cols \ {m[2] : m \in matches}
    BY <1>1
<1> QED BY <1>1, <1>2, <1>7, <1>8, <1>9 DEF Outcome, ComesOutOnce

LEMMA NothingToMatchKeeps ==
    ASSUME AssociationInv, NothingToMatch
    PROVE  Outcome'
<1>1. found' = [matches |-> {}, rows |-> Rows, cols |-> Cols] /\ pairs' = pairs
    BY DEF NothingToMatch
<1>2. Rows' = Rows /\ Cols' = Cols  BY <1>1 DEF Rows, Cols
<1>3. found'.matches = {} /\ found'.rows = Rows /\ found'.cols = Cols  BY <1>1
<1> QED BY <1>2, <1>3 DEF Outcome, ComesOutOnce

(* What only the solver changes, and what it leaves.                       *)
LEMMA CostsStay ==
    ASSUME CostInv, UNCHANGED <<stage, pairs, todo, fused>>, at' = at \/ todo = <<>>
    PROVE  CostInv'
<1>1. stage' = stage /\ pairs' = pairs /\ todo' = todo /\ fused' = fused  OBVIOUS
<1>2. Rows' = Rows /\ Cols' = Cols /\ Penalty' = Penalty /\ MaxFused' = MaxFused
    BY <1>1 DEF Rows, Cols, Penalty, MaxFused
<1>3. \A r \in Rows : BaseRow(r)' = BaseRow(r)  BY <1>1, <1>2 DEF BaseRow, BaseCost
<1>4. \A r \in Rows : \A c \in Cols : Held(r, c)' = Held(r, c)
    <2> SUFFICES ASSUME NEW r \in Rows, NEW c \in Cols PROVE Held(r, c)' = Held(r, c)
        OBVIOUS
    <2>1. BaseRow(r)' = BaseRow(r)  BY <1>3
    <2> QED BY <2>1 DEF Held
<1>5. TableInv' /\ ToDo'  BY <1>1 DEF CostInv, TableInv, ToDo
<1>6. CostsBounded'  BY <1>1, <1>2 DEF CostInv, CostsBounded
<1>7. ReidCosts'
    <2> SUFFICES ASSUME stage = "reid", NEW r \in Rows
                 PROVE  /\ todo = <<"abstain", "gate">> => fused[r] = BaseRow(r)'
                        /\ todo = <<"gate">> => \A c \in Cols : fused[r][c] = Held(r, c)'
                        /\ todo = <<>> => \A c \in Cols :
                              fused[r][c] = IF pairs[r][c].apart THEN Held(r, c)' + PAD_COST ELSE Held(r, c)'
        BY <1>1, <1>2 DEF ReidCosts
    <2>1. /\ todo = <<"abstain", "gate">> => fused[r] = BaseRow(r)
          /\ todo = <<"gate">> => \A c \in Cols : fused[r][c] = Held(r, c)
          /\ todo = <<>> => \A c \in Cols :
                fused[r][c] = IF pairs[r][c].apart THEN Held(r, c) + PAD_COST ELSE Held(r, c)
        BY DEF CostInv, ReidCosts
    <2>2. \A c \in Cols : Held(r, c)' = Held(r, c)  BY <1>4
    <2>3. BaseRow(r)' = BaseRow(r)  BY <1>3
    <2> QED BY <2>1, <2>2, <2>3
<1>8. ApartCosts'  BY <1>1, <1>2 DEF CostInv, ApartCosts
<1> QED BY <1>5, <1>6, <1>7, <1>8 DEF CostInv

LEMMA SolverStays ==
    ASSUME SolverInv, UNCHANGED solverVars
    PROVE  SolverInv'
<1>1. /\ cost' = cost /\ i' = i /\ u' = u /\ v' = v /\ p' = p /\ way' = way /\ minv' = minv
      /\ used' = used /\ j0' = j0 /\ at' = at
    BY DEF solverVars
<1>2. Side' = Side  BY <1>1 DEF Side
<1>3. Columns' = Columns /\ N' = N /\ Tree' = Tree  BY <1>1, <1>2 DEF Columns, N, Tree
<1>4. Outside' = Outside  BY <1>1, <1>2, <1>3 DEF Outside
<1>5. SolverShape <=> SolverShape'  BY <1>1, <1>2, <1>3 DEF SolverShape
<1>6. Prices <=> Prices'  BY <1>1, <1>2 DEF Prices, Reduced
<1>7. AtRow <=> AtRow'  BY <1>1, <1>2 DEF AtRow, ColumnsTaken
<1>8. InRow <=> InRow'  BY <1>1, <1>2 DEF InRow
<1>9. ASSUME NEW rank, NEW k PROVE FreeEdge(rank, k) <=> FreeEdge(rank, k)'
    BY <1>1 DEF FreeEdge, Reduced
<1>10. ASSUME NEW j PROVE Nearest(j) <=> Nearest(j)'
    BY <1>1 DEF Nearest, Reduced
<1>11. ASSUME AtScan PROVE AtScan'
    <2>1. PICK rank \in [Columns -> Nat] : \A k \in Tree \ {0} : FreeEdge(rank, k)
        BY <1>11 DEF AtScan
    <2>2. \A k \in Tree \ {0} : FreeEdge(rank, k)'  BY <2>1, <1>9
    <2>3. ColumnsTaken(Columns)'  BY <1>1, <1>3, <1>11 DEF AtScan, ColumnsTaken
    <2>4. \/ used = {} /\ \A j \in Columns : minv[j] = Inf
          \/ \A j \in Outside : Nearest(j)'
        BY <1>10, <1>11 DEF AtScan
    <2>5. p[0] = i /\ 0 \in Tree /\ p[j0] # 0 /\ j0 \notin used  BY <1>11 DEF AtScan
    <2> QED BY <1>1, <1>3, <1>4, <2>1, <2>2, <2>3, <2>4, <2>5 DEF AtScan
<1>12. ASSUME AtAugment PROVE AtAugment'
    <2>1. PICK rank \in [Columns -> Nat] :
              \A k \in Columns \ {0} :
                  (k = j0 \/ (k \in used /\ rank[k] < rank[j0])) => FreeEdge(rank, k)
        BY <1>12 DEF AtAugment
    <2>2. \A k \in Columns \ {0} :
              (k = j0 \/ (k \in used /\ rank[k] < rank[j0])) => FreeEdge(rank, k)'
        BY <2>1, <1>9
    <2>3. ColumnsTaken(Columns \ {j0})'  BY <1>1, <1>3, <1>12 DEF AtAugment, ColumnsTaken
    <2> QED BY <1>1, <1>3, <2>1, <2>2, <2>3 DEF AtAugment
<1> QED BY <1>1, <1>5, <1>6, <1>7, <1>8, <1>11, <1>12 DEF SolverInv

LEMMA SolveKeeps ==
    ASSUME AssociationInv, Solve
    PROVE  AssociationInv'
<1>1. /\ stage' = stage /\ pairs' = pairs /\ todo' = todo /\ fused' = fused /\ found' = found
      /\ at \in {"row", "scan", "augment"} /\ cost' = cost
    BY DEF Solve, SolverStep, BeginRow, Scan, Augment, EndRow
<1>2. SolverShape /\ Prices  BY <1>1 DEF AssociationInv, SolverInv
<1>3. SolverInv' /\ at' \in {"row", "scan", "augment"}
    <2>1. CASE BeginRow
        <3>1. at = "row" /\ at' = "scan"  BY <2>1 DEF BeginRow
        <3>2. AtRow  BY <3>1 DEF AssociationInv, SolverInv
        <3>3. SolverShape' /\ Prices' /\ InRow' /\ AtScan'  BY <1>2, <2>1, <3>2, BeginRowKeeps
        <3> QED BY <3>1, <3>3 DEF SolverInv
    <2>2. CASE Scan
        <3>1. at = "scan"  BY <2>2 DEF Scan
        <3>2. InRow /\ AtScan  BY <3>1 DEF AssociationInv, SolverInv
        <3>3. PICK delta \in Nat, next \in Outside : Turned(delta, next)  BY <1>2, <2>2, <3>2, ScanTurns
        <3>4. SolverShape' /\ Prices' /\ InRow'
            BY <1>2, <3>2, <3>3, ScanKeepsShape, ScanKeepsPrices, ScanKeepsInRow
        <3>5. CASE p[next] = 0
            <4>1. AtAugment' /\ at' = "augment"  BY <1>2, <3>2, <3>3, <3>5, ScanEnds DEF Turned
            <4> QED BY <3>4, <4>1 DEF SolverInv
        <3>6. CASE p[next] # 0
            <4>1. AtScan' /\ at' = "scan"  BY <1>2, <3>2, <3>3, <3>6, ScanGoesOn DEF Turned
            <4> QED BY <3>4, <4>1 DEF SolverInv
        <3> QED BY <3>5, <3>6
    <2>3. CASE Augment
        <3>1. at = "augment" /\ at' = "augment"  BY <2>3 DEF Augment
        <3>2. InRow /\ AtAugment  BY <3>1 DEF AssociationInv, SolverInv
        <3>3. SolverShape' /\ Prices' /\ InRow' /\ AtAugment'  BY <1>2, <2>3, <3>2, AugmentKeeps
        <3> QED BY <3>1, <3>3 DEF SolverInv
    <2>4. CASE EndRow
        <3>1. at = "augment" /\ at' = "row"  BY <2>4 DEF EndRow
        <3>2. InRow /\ AtAugment  BY <3>1 DEF AssociationInv, SolverInv
        <3>3. SolverShape' /\ Prices' /\ AtRow'  BY <1>2, <2>4, <3>2, EndRowKeeps
        <3> QED BY <3>1, <3>3 DEF SolverInv
    <2> QED BY <2>1, <2>2, <2>3, <2>4 DEF Solve, SolverStep
<1>4. CostInv'
    <2>1. todo = <<>>  BY <1>1 DEF AssociationInv, CostInv, ToDo
    <2> QED BY <1>1, <2>1, CostsStay DEF AssociationInv
<1>5. PadInv'
    <2>1. Side' = Side /\ Rows' = Rows /\ Cols' = Cols  BY <1>1 DEF Side, Rows, Cols
    <2>2. \A r, c \in Side : Padded(r, c)' = Padded(r, c)  BY <1>1, <2>1 DEF Padded
    <2> QED BY <1>1, <2>1, <2>2 DEF AssociationInv, PadInv
<1>6. Outcome'  BY <1>3 DEF Outcome, Done
<1> QED BY <1>3, <1>4, <1>5, <1>6 DEF AssociationInv

LEMMA AssociationInvInit ==
    ASSUME AssociationInit
    PROVE  AssociationInv
<1>1. at = "fuse"  BY DEF AssociationInit
<1> QED BY <1>1, InitCosts DEF AssociationInv, SolverInv, PadInv, Outcome, Done

LEMMA AssociationInvKept ==
    ASSUME AssociationInv, [Associate]_associationVars
    PROVE  AssociationInv'
<1>1. CASE FuseAppearance \/ FuseMomentum \/ FuseCenter \/ Abstain \/ GateDepth
    <2>1. CostInv'
        BY <1>1, AppearanceKeeps, MomentumKeeps, CenterKeeps, AbstainKeeps, GateKeeps DEF AssociationInv
    <2>2. at = "fuse" /\ at' = "fuse"
        BY <1>1 DEF FuseAppearance, FuseMomentum, FuseCenter, Abstain, GateDepth, Fuse, solverVars
    <2> QED BY <2>1, <2>2 DEF AssociationInv, SolverInv, PadInv, Outcome, Done
<1>2. CASE NothingToMatch
    <2>1. Outcome'  BY <1>2, NothingToMatchKeeps
    <2>2. at' = "done" /\ todo = <<>> /\ UNCHANGED <<stage, pairs, todo, fused>>  BY <1>2 DEF NothingToMatch
    <2>3. CostInv'  BY <2>2, CostsStay DEF AssociationInv
    <2> QED BY <2>1, <2>2, <2>3 DEF AssociationInv, SolverInv, PadInv
<1>3. CASE Pad
    <2>1. SolverShape' /\ Prices' /\ AtRow' /\ PadInv'  BY <1>3, PadStarts DEF AssociationInv
    <2>2. at' = "row" /\ todo = <<>> /\ UNCHANGED <<stage, pairs, todo, fused>>  BY <1>3 DEF Pad, SolverStart
    <2>3. CostInv'  BY <2>2, CostsStay DEF AssociationInv
    <2> QED BY <2>1, <2>2, <2>3 DEF AssociationInv, SolverInv, Outcome, Done
<1>4. CASE Solve  BY <1>4, SolveKeeps
<1>5. CASE KeepWithin
    <2>1. Outcome'  BY <1>5, KeepWithinKeeps
    <2>2. at' = "done" /\ at = "row" /\ UNCHANGED <<stage, pairs, todo, fused>>  BY <1>5 DEF KeepWithin, Solved
    <2>3. todo = <<>>  BY <2>2 DEF AssociationInv, CostInv, ToDo
    <2>4. CostInv'  BY <2>2, <2>3, CostsStay DEF AssociationInv
    <2> QED BY <2>1, <2>2, <2>4 DEF AssociationInv, SolverInv, PadInv
<1>6. CASE UNCHANGED associationVars
    <2>1. UNCHANGED <<stage, pairs, todo, fused>> /\ UNCHANGED solverVars /\ at' = at /\ cost' = cost
          /\ stage' = stage /\ pairs' = pairs /\ fused' = fused /\ found' = found
        BY <1>6 DEF associationVars, solverVars
    <2>2. CostInv' /\ SolverInv'  BY <2>1, CostsStay, SolverStays DEF AssociationInv
    <2>3. Rows' = Rows /\ Cols' = Cols /\ Side' = Side  BY <2>1 DEF Rows, Cols, Side
    <2>4. \A r, c \in Side : Padded(r, c)' = Padded(r, c)  BY <2>1, <2>3 DEF Padded
    <2>5. PadInv'  BY <2>1, <2>3, <2>4 DEF AssociationInv, PadInv
    <2>6. Outcome'  BY <2>1, <2>3 DEF AssociationInv, Outcome, ComesOutOnce, Done
    <2> QED BY <2>1, <2>2, <2>5, <2>6 DEF AssociationInv
<1> QED BY <1>1, <1>2, <1>3, <1>4, <1>5, <1>6 DEF Associate
------------------------------------------------------------------------------
(* A bijection by what it is.                                              *)
LEMMA BijectionMeans ==
    ASSUME NEW S, NEW T, NEW b
    PROVE  b \in Bijection(S, T) <=>
               /\ b \in [S -> T]
               /\ \A x, y \in S : b[x] = b[y] => x = y
               /\ \A y \in T : \E x \in S : b[x] = y
BY DEF Bijection, Injection, Surjection, IsInjective

Costs(b) == [r \in Side |-> cost[r][b[r]]]

(* Any way to give every row a column costs what the potentials add up to, *)
(* or more; on free edges exactly that.                                    *)
LEMMA DualBound ==
    ASSUME SolverShape, Prices, NEW b \in Bijection(Side, Side)
    PROVE  /\ Sum(u, Side) + Sum(v, Side) <= Sum(Costs(b), Side)
           /\ (\A r \in Side : Reduced(r, b[r]) = 0) => Sum(Costs(b), Side) = Sum(u, Side) + Sum(v, Side)
           /\ Sum(u, Side) + Sum(v, Side) \in Int
<1> DEFINE w == [r \in Side |-> v[b[r]]]
           k == [r \in Side |-> u[r] + v[b[r]]]
           g == Costs(b)
<1>1. IsFiniteSet(Side) /\ b \in [Side -> Side]  BY Shape, BijectionMeans
<1>2. \A r \in Side : u[r] \in Int /\ v[r] \in Int  BY Shape
<1>3. \A r \in Side : w[r] = v[b[r]] /\ k[r] = u[r] + w[r] /\ w[r] \in Int /\ k[r] \in Int
    BY <1>1, <1>2
<1>4. \A r \in Side : g[r] \in Int /\ Reduced(r, b[r]) = g[r] - k[r]
    <2> SUFFICES ASSUME NEW r \in Side PROVE g[r] \in Int /\ Reduced(r, b[r]) = g[r] - k[r]
        OBVIOUS
    <2>1. b[r] \in Side  BY <1>1
    <2>2. g[r] = cost[r][b[r]] /\ cost[r][b[r]] \in Int  BY <2>1, Shape DEF Costs
    <2>3. u[r] \in Int /\ v[b[r]] \in Int  BY <1>2, <2>1
    <2>4. Reduced(r, b[r]) = cost[r][b[r]] - u[r] - v[b[r]]  BY DEF Reduced
    <2> QED BY <2>2, <2>3, <2>4
<1> HIDE DEF w, k, g
<1>5. Sum(w, Side) = Sum(v, Side)  BY <1>1, <1>2, <1>3, SumAlong
<1>6. Sum(k, Side) = Sum(u, Side) + Sum(w, Side)  BY <1>1, <1>2, <1>3, SumPlus
<1>7. \A r \in Side : k[r] <= g[r]
    <2> SUFFICES ASSUME NEW r \in Side PROVE k[r] <= g[r]
        OBVIOUS
    <2>1. Reduced(r, b[r]) >= 0  BY <1>1 DEF Prices
    <2> QED BY <1>3, <1>4, <2>1
<1>8. Sum(k, Side) <= Sum(g, Side)  BY <1>1, <1>3, <1>4, <1>7, SumGrows
<1>9. (\A r \in Side : Reduced(r, b[r]) = 0) => Sum(g, Side) = Sum(k, Side)
    <2> SUFFICES ASSUME \A r \in Side : Reduced(r, b[r]) = 0 PROVE Sum(g, Side) = Sum(k, Side)
        OBVIOUS
    <2>1. \A r \in Side : g[r] \in Int /\ g[r] = k[r]  BY <1>3, <1>4
    <2> QED BY <1>1, <2>1, SumSame
<1>10. Sum(k, Side) \in Int  BY <1>1, <1>3, SumType
<1> QED BY <1>5, <1>6, <1>8, <1>9, <1>10 DEF g

(* What a matrix costs: the pairs that are real, and padding for the rest. *)
Pads == [r \in Side |-> PAD_COST]
LEMMA TotalAndPads ==
    ASSUME CostInv, SolverShape, at = "row", PadInv,
           NEW b \in Bijection(Side, Side), NEW f, DOMAIN f \subseteq Rows,
           \A r \in DOMAIN f : f[r] \in Cols /\ b[r] = f[r],
           \A r \in Side \ DOMAIN f : r \notin Rows \/ b[r] \notin Cols
    PROVE  /\ Sum(Costs(b), Side) = Total(f) + Sum(Pads, Side \ DOMAIN f)
           /\ Total(f) \in Int
<1> DEFINE R == DOMAIN f
           h == [r \in R |-> fused[r][f[r]]]
           g == Costs(b)
<1>1. IsFiniteSet(Side) /\ b \in [Side -> Side] /\ Side = Rows \cup Cols
    BY Shape, BijectionMeans DEF PadInv
<1>2. R \subseteq Side /\ IsFiniteSet(R) /\ IsFiniteSet(Side \ R)
    <2>1. R \subseteq Side  BY <1>1
    <2> QED BY <1>1, <2>1, FS_Subset
<1>3. \A r \in Side : g[r] = Padded(r, b[r]) /\ g[r] \in Int
    <2>1. \A r \in Side : b[r] \in Side  BY <1>1
    <2> QED BY <2>1, Shape DEF Costs, PadInv
<1>4. \A r \in R : h[r] = g[r] /\ h[r] \in Int
    <2> SUFFICES ASSUME NEW r \in R PROVE h[r] = g[r] /\ h[r] \in Int
        OBVIOUS
    <2>1. h[r] = fused[r][f[r]]  OBVIOUS
    <2>2. b[r] = f[r] /\ r \in Rows /\ f[r] \in Cols  OBVIOUS
    <2>3. Padded(r, f[r]) = fused[r][f[r]]  BY <2>2 DEF Padded
    <2>4. r \in Side  BY <1>2
    <2> HIDE DEF h, g
    <2> QED BY <1>3, <2>1, <2>2, <2>3, <2>4
<1>5. \A r \in Side \ R : g[r] = Pads[r] /\ g[r] \in Int
    <2> SUFFICES ASSUME NEW r \in Side \ R PROVE g[r] = Pads[r] /\ g[r] \in Int
        OBVIOUS
    <2>1. Padded(r, b[r]) = PAD_COST  BY DEF Padded
    <2>2. Pads[r] = PAD_COST  BY DEF Pads
    <2> HIDE DEF g
    <2> QED BY <1>3, <2>1, <2>2
<1>6. Total(f) = Sum(h, R)  BY DEF Total, SumFunction, Sum
<1> HIDE DEF g, h
<1>7. Sum(h, R) = Sum(g, R) /\ Sum(h, R) \in Int  BY <1>2, <1>4, SumSame, SumType
<1>8. Sum(g, Side \ R) = Sum(Pads, Side \ R)  BY <1>2, <1>5, SumSame
<1>9. Side = R \cup (Side \ R) /\ R \cap (Side \ R) = {}  BY <1>2
<1>10. Sum(g, R \cup (Side \ R)) = Sum(g, R) + Sum(g, Side \ R)  BY <1>2, <1>3, <1>9, SumUnion
<1> QED BY <1>6, <1>7, <1>8, <1>9, <1>10 DEF g

(* Padding for as many rows costs as much.                                 *)
LEMMA PadsByNumber ==
    ASSUME SolverShape, NEW S \in SUBSET Side, NEW T \in SUBSET Side, Cardinality(S) = Cardinality(T)
    PROVE  Sum(Pads, Side \ S) = Sum(Pads, Side \ T)
<1> DEFINE A == Side \ S
           B == Side \ T
<1>1. IsFiniteSet(Side) /\ IsFiniteSet(S) /\ IsFiniteSet(T)  BY Shape, FS_Subset
<1>2. Side \cap S = S /\ Side \cap T = T  OBVIOUS
<1>3. IsFiniteSet(A) /\ IsFiniteSet(B) /\ Cardinality(A) = Cardinality(B)
    BY <1>1, <1>2, FS_Difference
<1>4. A \subseteq Side /\ B \subseteq Side  OBVIOUS
<1>5. \A x \in Side : Pads[x] = PAD_COST /\ PAD_COST \in Int  BY ConstantsTypes DEF Pads
<1> HIDE DEF A, B
<1>6. PICK b : b \in Bijection(A, B)  BY <1>3, FS_SameCardinalityBij DEF ExistsBijection
<1>7. \A x \in A : b[x] \in B  BY <1>6, BijectionMeans
<1>8. \A x \in A : Pads[x] = Pads[b[x]]  BY <1>4, <1>5, <1>7
<1>9. \A y \in B : Pads[y] \in Int  BY <1>4, <1>5
<1>10. Sum(Pads, A) = Sum(Pads, B)  BY <1>3, <1>6, <1>8, <1>9, SumAlong
<1> QED BY <1>10 DEF A, B

Sides == CostInv /\ SolverShape /\ PadInv /\ at = "row"

(* Rows and columns are numbered from 1; the longer of them is the side.   *)
LEMMA SidesOf ==
    ASSUME Sides
    PROVE  /\ IsFiniteSet(Rows) /\ IsFiniteSet(Cols)
           /\ Cardinality(Rows) \in Nat /\ Cardinality(Cols) \in Nat
           /\ \/ Side = Cols /\ Rows \subseteq Cols /\ Cardinality(Rows) <= Cardinality(Cols)
              \/ Side = Rows /\ Cols \subseteq Rows /\ Cardinality(Cols) <= Cardinality(Rows)
<1>1. Side = Rows \cup Cols /\ Rows # {} /\ Cols # {}  BY DEF Sides, PadInv
<1>2. PICK m \in Nat : Rows = 1 .. m  BY TableFacts DEF Sides, CostInv
<1>3. PICK n \in Nat : Cols = 1 .. n  BY <1>1, TableFacts DEF Sides, CostInv
<1>4. IsFiniteSet(Rows) /\ IsFiniteSet(Cols)  BY <1>2, <1>3, FS_Interval
<1>5. Cardinality(Rows) \in Nat /\ Cardinality(Cols) \in Nat  BY <1>4, FS_CardinalityType
<1>6. Rows \subseteq Cols \/ Cols \subseteq Rows
    <2>1. CASE m <= n
        <3>1. 1 .. m \subseteq 1 .. n  BY <2>1
        <3> QED BY <1>2, <1>3, <3>1
    <2>2. CASE ~(m <= n)
        <3>1. 1 .. n \subseteq 1 .. m  BY <2>2
        <3> QED BY <1>2, <1>3, <3>1
    <2> QED BY <2>1, <2>2
<1>7. CASE Rows \subseteq Cols
    <2>1. Cardinality(Rows) <= Cardinality(Cols)  BY <1>4, <1>7, FS_Subset
    <2>2. Side = Cols  BY <1>1, <1>7
    <2> QED BY <1>4, <1>5, <1>7, <2>1, <2>2
<1>8. CASE Cols \subseteq Rows
    <2>1. Cardinality(Cols) <= Cardinality(Rows)  BY <1>4, <1>8, FS_Subset
    <2>2. Side = Rows  BY <1>1, <1>8
    <2> QED BY <1>4, <1>5, <1>8, <2>1, <2>2
<1> QED BY <1>6, <1>7, <1>8

(* A function in OneToOne, by what it is.                                  *)
LEMMA OneToOneMeans ==
    ASSUME NEW f
    PROVE  f \in OneToOne <=>
               /\ f \in [DOMAIN f -> Cols] /\ DOMAIN f \subseteq Rows
               /\ \A r, s \in DOMAIN f : f[r] = f[s] => r = s
               /\ DOMAIN f = Rows \/ {f[r] : r \in DOMAIN f} = Cols
<1>1. f \in UNION {[R -> Cols] : R \in SUBSET Rows} <=> f \in [DOMAIN f -> Cols] /\ DOMAIN f \subseteq Rows
    OBVIOUS
<1> QED BY <1>1, Zenon DEF OneToOne

(* All of them pair as many.                                               *)
LEMMA OneToOneSize ==
    ASSUME Sides, NEW f \in OneToOne, NEW h \in OneToOne
    PROVE  Cardinality(DOMAIN f) = Cardinality(DOMAIN h)
<1>1. ASSUME NEW e \in OneToOne
      PROVE  Cardinality(DOMAIN e) = IF Cardinality(Rows) <= Cardinality(Cols)
                                     THEN Cardinality(Rows) ELSE Cardinality(Cols)
    <2> DEFINE R == DOMAIN e
    <2>1. /\ e \in [R -> Cols] /\ R \subseteq Rows
          /\ \A r, s \in R : e[r] = e[s] => r = s
          /\ R = Rows \/ {e[r] : r \in R} = Cols
        BY OneToOneMeans
    <2>2. IsFiniteSet(Rows) /\ IsFiniteSet(Cols) /\ Cardinality(Rows) \in Nat /\ Cardinality(Cols) \in Nat
        BY SidesOf
    <2> HIDE DEF R
    <2>3. e \in Injection(R, Cols)  BY <2>1 DEF Injection, IsInjective
    <2>4. IsFiniteSet(R) /\ Cardinality(R) <= Cardinality(Cols)  BY <2>2, <2>3, FS_Injection
    <2>5. Cardinality(R) <= Cardinality(Rows) /\ Cardinality(R) \in Nat
        BY <2>1, <2>2, <2>4, FS_Subset, FS_CardinalityType
    <2>6. CASE R = Rows  BY <2>2, <2>4, <2>6 DEF R
    <2>7. CASE {e[r] : r \in R} = Cols
        <3>1. \A y \in Cols : \E r \in R : e[r] = y  BY <2>7
        <3>2. e \in Surjection(R, Cols)  BY <2>1, <3>1 DEF Surjection
        <3>3. Cardinality(R) = Cardinality(Cols)  BY <2>2, <2>3, <3>2, FS_Injection
        <3> QED BY <2>2, <2>5, <3>3 DEF R
    <2> QED BY <2>1, <2>6, <2>7
<1> QED BY <1>1

(* And can be made a way to give every row of the matrix a column, the     *)
(* rest of them on padding.                                                *)
LEMMA OneToOneExtends ==
    ASSUME Sides, NEW f \in OneToOne
    PROVE  \E b \in Bijection(Side, Side) :
               /\ \A r \in DOMAIN f : b[r] = f[r]
               /\ \A r \in Side \ DOMAIN f : r \notin Rows \/ b[r] \notin Cols
<1> DEFINE R == DOMAIN f
           T == {f[r] : r \in R}
           A == Side \ R
           B == Side \ T
<1>1. /\ f \in [R -> Cols] /\ R \subseteq Rows
      /\ \A r, s \in R : f[r] = f[s] => r = s
      /\ R = Rows \/ T = Cols
    BY OneToOneMeans
<1>2. Side = Rows \cup Cols /\ IsFiniteSet(Side)  BY Shape DEF Sides, PadInv
<1>3. R \subseteq Side /\ T \subseteq Side  BY <1>1, <1>2
<1>4. f \in Bijection(R, T)
    <2>1. f \in [R -> T] /\ \A y \in T : \E r \in R : f[r] = y  BY <1>1
    <2> HIDE DEF R, T
    <2> QED BY <1>1, <2>1, BijectionMeans
<1>5. Side \cap R = R /\ Side \cap T = T  BY <1>3
<1> HIDE DEF R, T
<1>6. IsFiniteSet(R) /\ IsFiniteSet(T)  BY <1>2, <1>3, FS_Subset
<1>7. Cardinality(R) = Cardinality(T)  BY <1>4, <1>6, FS_Bijection DEF ExistsBijection
<1>8. IsFiniteSet(A) /\ IsFiniteSet(B) /\ Cardinality(A) = Cardinality(B)
    <2>1. IsFiniteSet(A) /\ Cardinality(A) = Cardinality(Side) - Cardinality(Side \cap R)
        BY <1>2, FS_Difference, Zenon
    <2>2. IsFiniteSet(B) /\ Cardinality(B) = Cardinality(Side) - Cardinality(Side \cap T)
        BY <1>2, FS_Difference, Zenon
    <2> HIDE DEF A, B
    <2>3. Cardinality(A) = Cardinality(B)  BY <1>5, <1>7, <2>1, <2>2, Zenon
    <2> QED BY <2>1, <2>2, <2>3
<1>9. PICK e : e \in Bijection(A, B)
    <2> HIDE DEF A, B
    <2> QED BY <1>8, FS_SameCardinalityBij DEF ExistsBijection
<1>10. /\ e \in [A -> B] /\ \A x, y \in A : e[x] = e[y] => x = y
       /\ \A y \in B : \E x \in A : e[x] = y
    BY <1>9, BijectionMeans
<1>11. /\ f \in [R -> T] /\ \A x, y \in R : f[x] = f[y] => x = y
       /\ \A y \in T : \E x \in R : f[x] = y
    BY <1>4, BijectionMeans
<1> DEFINE b == [r \in Side |-> IF r \in R THEN f[r] ELSE e[r]]
<1>12. /\ \A r \in Side : b[r] = IF r \in R THEN f[r] ELSE e[r]
       /\ DOMAIN b = Side /\ b = [r \in Side |-> b[r]]
    OBVIOUS
<1> HIDE DEF b
<1>13. \A r \in R : b[r] = f[r] /\ b[r] \in T /\ b[r] \in Side  BY <1>3, <1>11, <1>12
<1>14. \A r \in A : b[r] = e[r] /\ b[r] \in B /\ b[r] \in Side  BY <1>10, <1>12
<1>15. \A r \in Side : r \in R \/ r \in A  OBVIOUS
<1>16. \A y \in Side : y \in T \/ y \in B  OBVIOUS
<1>17. \A y \in B : y \notin T  OBVIOUS
<1>18. \A r \in A : r \in Side /\ r \notin R  OBVIOUS
<1>19. T \subseteq Cols /\ (T = Cols => \A y \in B : y \notin Cols)
    BY <1>1, <1>17 DEF T
<1> HIDE DEF A, B
<1>20. \A r \in Side : b[r] \in Side  BY <1>13, <1>14, <1>15
<1>21. b \in [Side -> Side]  BY <1>12, <1>20
<1>22. ASSUME NEW x \in Side, NEW y \in Side, b[x] = b[y] PROVE x = y
    <2>1. CASE x \in R /\ y \in R  BY <1>11, <1>13, <1>22, <2>1
    <2>2. CASE x \in A /\ y \in A  BY <1>10, <1>14, <1>22, <2>2
    <2>3. CASE x \in R /\ y \in A  BY <1>13, <1>14, <1>17, <1>22, <2>3
    <2>4. CASE x \in A /\ y \in R  BY <1>13, <1>14, <1>17, <1>22, <2>4
    <2> QED BY <1>15, <2>1, <2>2, <2>3, <2>4
<1>23. ASSUME NEW y \in Side PROVE \E x \in Side : b[x] = y
    <2>1. CASE y \in T
        <3>1. PICK x \in R : f[x] = y  BY <1>11, <2>1
        <3> QED BY <1>3, <1>13, <3>1
    <2>2. CASE y \in B
        <3>1. PICK x \in A : e[x] = y  BY <1>10, <2>2
        <3> QED BY <1>14, <1>18, <3>1
    <2> QED BY <1>16, <2>1, <2>2
<1>24. b \in Bijection(Side, Side)  BY <1>21, <1>22, <1>23, BijectionMeans
<1>25. ASSUME NEW r \in Side, r \notin R PROVE r \notin Rows \/ b[r] \notin Cols
    <2>1. r \in A /\ b[r] \in B  BY <1>14, <1>15, <1>25
    <2> QED BY <1>1, <1>19, <1>25, <2>1
<1> QED BY <1>13, <1>24, <1>25 DEF R

(* The pairs of a finished solver are a way to pair tracks and detections. *)
Real == {r \in Rows : AssignedTo(r) \in Cols}
Chosen == [r \in Real |-> AssignedTo(r)]
LEMMA ChosenOneToOne ==
    ASSUME Sides, AtRow, Solved
    PROVE  /\ Chosen \in OneToOne
           /\ \E b \in Bijection(Side, Side) : \A r \in Side : b[r] = AssignedTo(r)
<1> DEFINE b == [r \in Side |-> AssignedTo(r)]
<1>1. /\ \A r \in Side : AssignedTo(r) \in Side /\ p[AssignedTo(r)] = r
      /\ \A r, s \in Side : AssignedTo(r) = AssignedTo(s) => r = s
    BY SolvedAssigns DEF Sides
<1>2. \A r \in Side : b[r] = AssignedTo(r)  OBVIOUS
<1>3. b \in [Side -> Side]  BY <1>1
<1> HIDE DEF b
<1>4. b \in Injection(Side, Side)  BY <1>1, <1>2, <1>3 DEF Injection, IsInjective
<1>5. IsFiniteSet(Side)  BY Shape DEF Sides
<1>6. b \in Surjection(Side, Side)  BY <1>4, <1>5, FS_Injection
<1>7. b \in Bijection(Side, Side)  BY <1>4, <1>6 DEF Bijection
<1>8. Side = Rows \cup Cols  BY DEF Sides, PadInv
<1>9. /\ DOMAIN Chosen = Real /\ Chosen \in [Real -> Cols] /\ Real \subseteq Rows
      /\ \A r \in Real : Chosen[r] = AssignedTo(r)
    BY DEF Chosen, Real
<1>10. \A r, s \in Real : Chosen[r] = Chosen[s] => r = s  BY <1>1, <1>8, <1>9
<1>11. Real = Rows \/ {Chosen[r] : r \in Real} = Cols
    <2>1. CASE Side = Cols
        <3>1. Real = Rows  BY <1>1, <1>8, <2>1 DEF Real
        <3> QED BY <3>1
    <2>2. CASE Side = Rows
        <3>1. \A y \in Cols : \E r \in Real : Chosen[r] = y
            <4> SUFFICES ASSUME NEW y \in Cols PROVE \E r \in Real : Chosen[r] = y
                OBVIOUS
            <4>1. PICK r \in Side : b[r] = y  BY <1>7, <1>8, BijectionMeans
            <4>2. AssignedTo(r) = y /\ r \in Rows  BY <1>2, <2>2, <4>1
            <4>3. r \in Real  BY <4>2 DEF Real
            <4> QED BY <1>9, <4>2, <4>3
        <3>2. \A r \in Real : Chosen[r] \in Cols  BY <1>9
        <3> QED BY <3>1, <3>2
    <2> QED BY <2>1, <2>2, SidesOf
<1>12. Chosen \in OneToOne  BY <1>9, <1>10, <1>11, OneToOneMeans
<1> QED BY <1>2, <1>7, <1>12

(* The pairs of a finished solver are the cheapest.                        *)
LEMMA SolvedIsLeast ==
    ASSUME AssociationInv
    PROVE  LeastTotal
<1> SUFFICES ASSUME Solved, NEW f \in OneToOne PROVE Total(Chosen) <= Total(f)
    BY DEF LeastTotal, Chosen, Real
<1>1. at = "row"  BY DEF Solved
<1>2. Sides /\ SolverShape /\ Prices /\ AtRow /\ CostInv /\ PadInv
    BY <1>1 DEF AssociationInv, SolverInv, Sides
<1>3. Chosen \in OneToOne  BY <1>2, ChosenOneToOne
<1>4. PICK a \in Bijection(Side, Side) : \A r \in Side : a[r] = AssignedTo(r)  BY <1>2, ChosenOneToOne
<1>5. PICK b \in Bijection(Side, Side) :
          /\ \A r \in DOMAIN f : b[r] = f[r]
          /\ \A r \in Side \ DOMAIN f : r \notin Rows \/ b[r] \notin Cols
    BY <1>2, OneToOneExtends
<1>6. DOMAIN f \subseteq Rows /\ \A r \in DOMAIN f : f[r] \in Cols  BY OneToOneMeans
<1>7. Sum(Costs(b), Side) = Total(f) + Sum(Pads, Side \ DOMAIN f) /\ Total(f) \in Int
    BY <1>1, <1>2, <1>5, <1>6, TotalAndPads
<1>8. DOMAIN Chosen = Real /\ Real \subseteq Rows /\ \A r \in Real : Chosen[r] = AssignedTo(r) /\ Chosen[r] \in Cols
    BY DEF Chosen, Real
<1>9. Side = Rows \cup Cols  BY <1>1, <1>2 DEF PadInv
<1>10. \A r \in DOMAIN Chosen : Chosen[r] \in Cols /\ a[r] = Chosen[r]  BY <1>4, <1>8, <1>9
<1>11. \A r \in Side \ DOMAIN Chosen : r \notin Rows \/ a[r] \notin Cols  BY <1>4, <1>8 DEF Real
<1>12. Sum(Costs(a), Side) = Total(Chosen) + Sum(Pads, Side \ DOMAIN Chosen) /\ Total(Chosen) \in Int
    BY <1>1, <1>2, <1>8, <1>10, <1>11, TotalAndPads
<1>13. \A r \in Side : Reduced(r, a[r]) = 0
    <2>1. \A r \in Side : AssignedTo(r) \in Side /\ p[AssignedTo(r)] = r /\ r # 0
        BY <1>2, SolvedAssigns, Shape
    <2>2. \A c \in Side : p[c] # 0 => Reduced(p[c], c) = 0  BY <1>2 DEF Prices
    <2>3. \A r \in Side : Reduced(r, AssignedTo(r)) = 0  BY <2>1, <2>2
    <2> QED BY <1>4, <2>3
<1> DEFINE D == Sum(u, Side) + Sum(v, Side)
<1>14. Sum(Costs(a), Side) = D /\ D <= Sum(Costs(b), Side) /\ D \in Int
    BY <1>2, <1>13, DualBound
<1>15. DOMAIN f \in SUBSET Side /\ DOMAIN Chosen \in SUBSET Side  BY <1>6, <1>8, <1>9
<1>16. Cardinality(DOMAIN f) = Cardinality(DOMAIN Chosen)  BY <1>2, <1>3, OneToOneSize
<1>17. Sum(Pads, Side \ DOMAIN f) = Sum(Pads, Side \ DOMAIN Chosen)  BY <1>2, <1>15, <1>16, PadsByNumber
<1>18. Sum(Pads, Side \ DOMAIN f) \in Int
    <2>1. IsFiniteSet(Side \ DOMAIN f)  BY <1>2, Shape, FS_Subset
    <2>2. \A x \in Side : Pads[x] \in Int  BY ConstantsTypes DEF Pads
    <2> QED BY <2>1, <2>2, SumType
<1> DEFINE X == Sum(Costs(a), Side)
           Y == Sum(Costs(b), Side)
           P == Sum(Pads, Side \ DOMAIN f)
           E == Sum(Pads, Side \ DOMAIN Chosen)
<1>19. X = D /\ D <= Y /\ D \in Int /\ X = Total(Chosen) + E /\ Y = Total(f) + P /\ P = E /\ P \in Int
       /\ Total(f) \in Int /\ Total(Chosen) \in Int
    BY <1>7, <1>12, <1>14, <1>17, <1>18
<1> HIDE DEF X, Y, P, E, D
<1> QED BY <1>19
------------------------------------------------------------------------------
(* Every stage keeps the invariant, from its costs to what it found.       *)
THEOREM AssociationKeeps == AssociationSpec => []AssociationInv
<1>1. AssociationInit => AssociationInv  BY AssociationInvInit
<1>2. AssociationInv /\ [Associate]_associationVars => AssociationInv'  BY AssociationInvKept
<1> QED BY <1>1, <1>2, PTL DEF AssociationSpec

(* In every turn of the solver the potentials are below the costs, and     *)
(* meet them where a pair has been made.                                   *)
THEOREM PotentialsFeasible == AssociationSpec => []Feasible
<1>1. AssociationInv => Feasible
    <2> SUFFICES ASSUME AssociationInv, at \in {"row", "scan", "augment"}, NEW c \in Side
                 PROVE  /\ \A r \in Side : Reduced(r, c) >= 0
                        /\ p[c] # 0 => Reduced(p[c], c) = 0
        BY DEF Feasible
    <2>1. Prices  BY DEF AssociationInv, SolverInv
    <2> QED BY <2>1 DEF Prices
<1> QED BY <1>1, AssociationKeeps, PTL

(* For every table of costs, with any numbers of tracks and of detections, *)
(* the assignment of a finished solver is the cheapest one, and every      *)
(* track and detection comes out once.                                     *)
THEOREM AssignmentIsRight == AssociationSpec => []AssignmentRight
<1>1. AssociationInv => AssignmentRight
    <2>1. AssociationInv => LeastTotal  BY SolvedIsLeast
    <2>2. AssociationInv => ComesOutOnce  BY DEF AssociationInv, Outcome, ComesOutOnce
    <2> QED BY <2>1, <2>2 DEF AssignmentRight
<1> QED BY <1>1, AssociationKeeps, PTL
------------------------------------------------------------------------------
(* The best two costs of a row are found entry by entry.                   *)
BetterTwo(b, x) == IF x < b[1] THEN <<x, b[1]>> ELSE IF x < b[2] THEN <<b[1], x>> ELSE b
TwoAfter(row, two, k) == IF k = 0 THEN <<Inf, Inf>> ELSE BetterTwo(two[k - 1], row[k])
IsTwo(row, n, two) == two = [k \in 0 .. n |-> TwoAfter(row, two, k)]

LEMMA BestTwoMeans ==
    ASSUME NEW row
    PROVE  BestTwo(row) = (CHOOSE two : IsTwo(row, Len(row), two))[Len(row)]
BY Zenon DEF BestTwo, IsTwo, TwoAfter, BetterTwo

LEMMA TwoExists ==
    ASSUME NEW row, NEW n \in Nat
    PROVE  \E two : IsTwo(row, n, two)
<1> DEFINE F == {m \in Nat : \E two : IsTwo(row, m, two)}
<1>1. 0 \in F
    <2> DEFINE two == [k \in 0 .. 0 |-> <<Inf, Inf>>]
    <2>1. \A k \in 0 .. 0 : k = 0  OBVIOUS
    <2>2. two = [k \in 0 .. 0 |-> TwoAfter(row, two, k)]  BY <2>1 DEF TwoAfter
    <2>3. IsTwo(row, 0, two)  BY <2>2 DEF IsTwo
    <2> QED BY <2>3
<1>2. ASSUME NEW m \in Nat, m \in F PROVE m + 1 \in F
    <2>1. PICK t : IsTwo(row, m, t)  BY <1>2
    <2>2. \A k \in 0 .. m : t[k] = TwoAfter(row, t, k)  BY <2>1, Zenon DEF IsTwo
    <2> DEFINE two == [k \in 0 .. m + 1 |-> IF k <= m THEN t[k] ELSE BetterTwo(t[m], row[m + 1])]
    <2>3. DOMAIN two = 0 .. m + 1 /\ two = [k \in 0 .. m + 1 |-> two[k]]  OBVIOUS
    <2>4. \A k \in 0 .. m : two[k] = t[k]  OBVIOUS
    <2>5. two[m + 1] = BetterTwo(t[m], row[m + 1])  OBVIOUS
    <2> HIDE DEF two
    <2>6. ASSUME NEW k \in 0 .. m + 1 PROVE two[k] = TwoAfter(row, two, k)
        <3>1. CASE k = 0
            <4>1. 0 \in 0 .. m  OBVIOUS
            <4> QED BY <2>2, <2>4, <3>1, <4>1 DEF TwoAfter
        <3>2. CASE k # 0 /\ k <= m
            <4>1. k \in 0 .. m /\ k - 1 \in 0 .. m  BY <3>2
            <4>2. two[k] = t[k] /\ two[k - 1] = t[k - 1]  BY <2>4, <4>1
            <4>3. t[k] = BetterTwo(t[k - 1], row[k])  BY <2>2, <3>2, <4>1 DEF TwoAfter
            <4> QED BY <3>2, <4>2, <4>3 DEF TwoAfter
        <3>3. CASE k = m + 1
            <4>1. k # 0 /\ k - 1 = m /\ m \in 0 .. m  BY <3>3
            <4>2. two[m] = t[m]  BY <2>4, <4>1
            <4> QED BY <2>5, <3>3, <4>1, <4>2 DEF TwoAfter
        <3> QED BY <3>1, <3>2, <3>3
    <2>7. [k \in 0 .. m + 1 |-> two[k]] = [k \in 0 .. m + 1 |-> TwoAfter(row, two, k)]  BY <2>6
    <2>8. IsTwo(row, m + 1, two)  BY <2>3, <2>7 DEF IsTwo
    <2> QED BY <2>8
<1> HIDE DEF F
<1>3. n \in F  BY <1>1, <1>2, EveryNumber
<1> QED BY <1>3 DEF F

(* The first is the cost of some entry, and no other is below the second.  *)
Best(row, k, a, b) ==
    /\ a \in Int /\ b \in Int /\ a <= b
    /\ k = 0 => a = Inf
    /\ k # 0 => \E m \in 1 .. k : a = row[m] /\ \A j \in 1 .. k : j # m => b <= row[j]

LEMMA BestTwoRight ==
    ASSUME NEW row, row \in Seq(Int), Len(row) # 0, \A k \in DOMAIN row : row[k] < Inf
    PROVE  Best(row, Len(row), BestTwo(row)[1], BestTwo(row)[2])
<1> DEFINE n == Len(row)
           two == CHOOSE t : IsTwo(row, n, t)
<1>1. n \in Nat /\ \A k \in 1 .. n : row[k] \in Int /\ row[k] < Inf  OBVIOUS
<1>2. Inf \in Int  BY ConstantsTypes
<1> HIDE DEF n
<1>3. \E t : IsTwo(row, n, t)  BY <1>1, TwoExists
<1>4. IsTwo(row, n, two)  BY <1>3, Zenon
<1>5. BestTwo(row) = two[n]  BY BestTwoMeans, Zenon DEF n
<1> HIDE DEF two
<1>6. \A k \in 0 .. n : two[k] = TwoAfter(row, two, k)  BY <1>4, Zenon DEF IsTwo
<1> DEFINE F == {k \in Nat : k <= n => Best(row, k, two[k][1], two[k][2])}
<1>7. 0 \in F
    <2>1. two[0] = <<Inf, Inf>>  BY <1>1, <1>6 DEF TwoAfter
    <2>2. Best(row, 0, two[0][1], two[0][2])  BY <1>2, <2>1 DEF Best
    <2> QED BY <2>2
<1>8. ASSUME NEW k \in Nat, k \in F PROVE k + 1 \in F
    <2> SUFFICES ASSUME k + 1 <= n PROVE Best(row, k + 1, two[k + 1][1], two[k + 1][2])
        OBVIOUS
    <2>1. Best(row, k, two[k][1], two[k][2])
        <3>1. k <= n  BY <1>1
        <3> QED BY <1>8, <3>1
    <2> HIDE DEF F
    <2>2. two[k + 1] = BetterTwo(two[k], row[k + 1])
        <3>1. k + 1 \in 0 .. n /\ k + 1 # 0 /\ (k + 1) - 1 = k  BY <1>1
        <3>2. two[k + 1] = TwoAfter(row, two, k + 1)  BY <1>6, <3>1
        <3> QED BY <3>1, <3>2 DEF TwoAfter
    <2> DEFINE a == two[k][1]
               b == two[k][2]
               x == row[k + 1]
    <2>3. x \in Int /\ x < Inf
        <3>1. k + 1 \in 1 .. n  BY <1>1
        <3> QED BY <1>1, <3>1
    <2>4. /\ x < a => two[k + 1][1] = x /\ two[k + 1][2] = a
          /\ ~(x < a) /\ x < b => two[k + 1][1] = a /\ two[k + 1][2] = x
          /\ ~(x < a) /\ ~(x < b) => two[k + 1][1] = a /\ two[k + 1][2] = b
        BY <2>2 DEF BetterTwo
    <2>5. Best(row, k, a, b)  BY <2>1
    <2>6. k + 1 # 0 /\ \A j \in 1 .. k + 1 : j \in 1 .. k \/ j = k + 1  OBVIOUS
    <2>7. \A j \in 1 .. k : j \in 1 .. k + 1 /\ j # k + 1 /\ row[j] \in Int
        BY <1>1
    <2> HIDE DEF a, b
    <2>8. x = row[k + 1] /\ k + 1 \in 1 .. k + 1  OBVIOUS
    <2>9. CASE x < a
        <3>1. \A j \in 1 .. k : a <= row[j]
            <4>1. CASE k = 0  BY <4>1
            <4>2. CASE k # 0
                <5>1. PICK m \in 1 .. k : a = row[m] /\ \A j \in 1 .. k : j # m => b <= row[j]
                    BY <2>5, <4>2 DEF Best
                <5> QED BY <2>5, <2>7, <5>1 DEF Best
            <4> QED BY <4>1, <4>2
        <3>2. \A j \in 1 .. k + 1 : j # k + 1 => a <= row[j]  BY <2>6, <3>1
        <3>3. Best(row, k + 1, x, a)
            <4>1. \E m \in 1 .. k + 1 : x = row[m] /\ \A j \in 1 .. k + 1 : j # m => a <= row[j]
                BY <2>8, <3>2
            <4>2. x \in Int /\ a \in Int /\ x <= a  BY <2>3, <2>5, <2>9 DEF Best
            <4> QED BY <2>6, <4>1, <4>2 DEF Best
        <3> QED BY <2>4, <2>9, <3>3
    <2>10. CASE ~(x < a)
        <3>1. k # 0  BY <2>3, <2>5, <2>10 DEF Best
        <3>2. PICK m \in 1 .. k : a = row[m] /\ \A j \in 1 .. k : j # m => b <= row[j]
            BY <2>5, <3>1 DEF Best
        <3>3. a \in Int /\ b \in Int /\ a <= b  BY <2>5 DEF Best
        <3>4. m \in 1 .. k + 1  BY <2>7
        <3>5. CASE x < b
            <4>1. \A j \in 1 .. k + 1 : j # m => x <= row[j]
                <5>1. \A j \in 1 .. k : j # m => x <= row[j]
                    <6> HIDE DEF x
                    <6> QED BY <2>3, <2>7, <3>2, <3>3, <3>5
                <5>2. x <= row[k + 1]  BY <2>3
                <5> QED BY <2>6, <5>1, <5>2
            <4>2. a <= x  BY <2>3, <2>10, <3>3
            <4>3. Best(row, k + 1, a, x)
                <5> HIDE DEF x
                <5> QED BY <2>3, <2>6, <3>2, <3>3, <3>4, <4>1, <4>2 DEF Best
            <4> QED BY <2>4, <2>10, <3>5, <4>3
        <3>6. CASE ~(x < b)
            <4>1. \A j \in 1 .. k + 1 : j # m => b <= row[j]
                <5>1. b <= row[k + 1]  BY <2>3, <3>3, <3>6
                <5> QED BY <2>6, <3>2, <5>1
            <4>2. Best(row, k + 1, a, b)  BY <2>6, <3>2, <3>3, <3>4, <4>1 DEF Best
            <4> QED BY <2>4, <2>10, <3>6, <4>2
        <3> QED BY <3>5, <3>6
    <2> QED BY <2>9, <2>10
<1> HIDE DEF F
<1>9. n \in F  BY <1>1, <1>7, <1>8, EveryNumber
<1>10. Best(row, n, two[n][1], two[n][2])  BY <1>1, <1>9 DEF F
<1> QED BY <1>5, <1>10 DEF n

(* A row of the re-id costs, before and after abstaining.                  *)
LEMMA BaseRowFacts ==
    ASSUME TableInv, stage = "reid", NEW r \in Rows
    PROVE  /\ BaseRow(r) \in Seq(Int) /\ DOMAIN BaseRow(r) = Cols /\ Cols = 1 .. Len(BaseRow(r))
           /\ \A c \in Cols : /\ BaseRow(r)[c] = IF pairs[r][c].kin THEN pairs[r][c].embedding ELSE PAD_COST
                              /\ BaseRow(r)[c] \in Nat /\ BaseRow(r)[c] <= PAD_COST /\ BaseRow(r)[c] < Inf
                              /\ pairs[r][c].kin => BaseRow(r)[c] < PAD_COST
<1> DEFINE row == BaseRow(r)
<1>1. PICK n \in Nat : Cols = 1 .. n /\ (n + 1) * Dearest < Inf
    <2>1. Rows # {}  OBVIOUS
    <2> QED BY <2>1, TableFacts
<1>2. DOMAIN row = Cols /\ row = [c \in 1 .. n |-> row[c]]  BY <1>1 DEF BaseRow
<1>3. \A c \in Cols : row[c] = IF pairs[r][c].kin THEN pairs[r][c].embedding ELSE PAD_COST
    BY DEF BaseRow, BaseCost
<1> HIDE DEF row
<1>4. \A c \in Cols : row[c] \in Nat /\ row[c] <= PAD_COST /\ (pairs[r][c].kin => row[c] < PAD_COST)
    BY <1>3, PairFacts, ConstantsTypes
<1>5. n # 0 => PAD_COST < Inf
    <2> SUFFICES ASSUME n # 0 PROVE PAD_COST < Inf
        OBVIOUS
    <2> DEFINE D == Dearest
    <2>1. D \in Nat /\ PAD_COST \in Nat /\ Inf \in Nat /\ PAD_COST <= D  BY ConstantsTypes DEF Dearest
    <2>2. (n + 1) * D = D + n * D /\ n * D \in Nat  BY <2>1
    <2>3. (n + 1) * D < Inf  BY <1>1
    <2> HIDE DEF D
    <2> QED BY <2>1, <2>2, <2>3
<1>6. \A c \in Cols : row[c] < Inf
    <2> SUFFICES ASSUME NEW c \in Cols PROVE row[c] < Inf
        OBVIOUS
    <2>1. n # 0  BY <1>1
    <2> QED BY <1>4, <1>5, <2>1, ConstantsTypes
<1>7. \A c \in 1 .. n : row[c] \in Int  BY <1>1, <1>4
<1>8. row \in Seq(Int) /\ Len(row) = n
    <2>1. row \in [1 .. n -> Int]  BY <1>2, <1>7
    <2> QED BY <2>1
<1> QED BY <1>1, <1>2, <1>3, <1>4, <1>6, <1>8 DEF row

(* A row with no look-alikes tells its best detection from every other.    *)
LEMMA ToldApart ==
    ASSUME TableInv, stage = "reid", NEW r \in Rows, ~LookAlikes(BaseRow(r)),
           NEW c \in Cols, NEW d \in Cols, c # d,
           pairs[r][c].kin, pairs[r][d].kin,
           \A e \in Cols : pairs[r][e].kin => pairs[r][c].embedding <= pairs[r][e].embedding
    PROVE  2 * (pairs[r][d].embedding - pairs[r][c].embedding) >= REID_THRESH
<1> DEFINE row == BaseRow(r)
           n == Len(row)
           a == BestTwo(row)[1]
           b == BestTwo(row)[2]
<1>1. /\ row \in Seq(Int) /\ DOMAIN row = Cols /\ Cols = 1 .. n
      /\ \A e \in Cols : /\ row[e] = IF pairs[r][e].kin THEN pairs[r][e].embedding ELSE PAD_COST
                         /\ row[e] \in Nat /\ row[e] <= PAD_COST /\ row[e] < Inf
                         /\ pairs[r][e].kin => row[e] < PAD_COST
    BY BaseRowFacts
<1>2. ~(b < PAD_COST /\ 2 * (b - a) < REID_THRESH)  BY DEF LookAlikes
<1> HIDE DEF row
<1>3. n \in Nat /\ n # 0  BY <1>1
<1>4. Best(row, n, a, b)  BY <1>1, <1>3, BestTwoRight
<1> HIDE DEF n, a, b
<1>5. a \in Int /\ b \in Int
      /\ \E m \in 1 .. n : a = row[m] /\ \A j \in 1 .. n : j # m => b <= row[j]
    BY <1>3, <1>4 DEF Best
<1>6. PICK m \in Cols : a = row[m] /\ \A j \in Cols : j # m => b <= row[j]  BY <1>1, <1>5
<1>7. row[c] = pairs[r][c].embedding /\ row[d] = pairs[r][d].embedding
      /\ row[c] \in Nat /\ row[d] \in Nat /\ row[d] < PAD_COST /\ row[c] < PAD_COST
    BY <1>1
<1>8. \A e \in Cols : row[c] <= row[e]
    <2> SUFFICES ASSUME NEW e \in Cols PROVE row[c] <= row[e]
        OBVIOUS
    <2>1. CASE pairs[r][e].kin  BY <1>1, <1>7, <2>1
    <2>2. CASE ~pairs[r][e].kin
        <3>1. row[e] = PAD_COST  BY <1>1, <2>2
        <3> QED BY <1>7, <3>1, ConstantsTypes
    <2> QED BY <2>1, <2>2
<1>9. row[c] <= a  BY <1>6, <1>8
<1>10. b <= row[d]
    <2>1. CASE d # m  BY <1>6, <2>1
    <2>2. CASE d = m
        <3>1. b <= row[c]  BY <1>6, <2>2
        <3>2. row[c] <= row[d]  BY <1>8
        <3> QED BY <1>5, <1>7, <3>1, <3>2
    <2> QED BY <2>1, <2>2
<1>11. b < PAD_COST  BY <1>5, <1>7, <1>10, ConstantsTypes
<1>12. ~(2 * (b - a) < REID_THRESH)  BY <1>2, <1>11
<1>13. REID_THRESH \in Int  BY CostsAssumption
<1>14. 2 * (row[d] - row[c]) >= REID_THRESH
    <2> DEFINE x == row[d]
               y == row[c]
    <2>1. x \in Int /\ y \in Int /\ b <= x /\ y <= a  BY <1>7, <1>9, <1>10
    <2> HIDE DEF x, y
    <2>2. 2 * (x - y) >= REID_THRESH  BY <1>5, <1>12, <1>13, <2>1
    <2> QED BY <2>2 DEF x, y
<1> QED BY <1>7, <1>14

LEMMA ReidGuessesNothing ==
    ASSUME AssociationInv
    PROVE  ReidNeverGuesses
<1> SUFFICES ASSUME Done, stage = "reid", NEW m \in found.matches
             PROVE  /\ m[2] \in Cols /\ pairs[m[1]][m[2]].kin
                    /\ ~pairs[m[1]][m[2]].apart /\ pairs[m[1]][m[2]].embedding <= REID_THRESH
                    /\ \A c, d \in {e \in Cols : pairs[m[1]][e].kin} :
                          c # d /\ (\A e \in {e \in Cols : pairs[m[1]][e].kin} :
                                        pairs[m[1]][c].embedding <= pairs[m[1]][e].embedding)
                          => 2 * (pairs[m[1]][d].embedding - pairs[m[1]][c].embedding) >= REID_THRESH
    BY DEF ReidNeverGuesses
<1> DEFINE r == m[1]
           c0 == m[2]
<1>1. r \in Rows /\ c0 \in Cols  BY DEF AssociationInv, Outcome
<1>2. fused[r][c0] <= REID_THRESH
    <2>1. fused[r][c0] <= Threshold[stage]  BY DEF AssociationInv, Outcome, ComesOutOnce
    <2> QED BY <2>1 DEF Threshold
<1>3. todo = <<>> /\ CostInv /\ TableInv  BY DEF AssociationInv, CostInv, ToDo, Done
<1>4. fused[r][c0] = IF pairs[r][c0].apart THEN Held(r, c0) + PAD_COST ELSE Held(r, c0)
    <2>1. \A q \in Rows : \A c \in Cols :
              fused[q][c] = IF pairs[q][c].apart THEN Held(q, c) + PAD_COST ELSE Held(q, c)
        BY <1>3 DEF CostInv, ReidCosts
    <2> HIDE DEF r, c0
    <2> QED BY <1>1, <2>1
<1> HIDE DEF r, c0
<1>5. /\ BaseRow(r)[c0] = IF pairs[r][c0].kin THEN pairs[r][c0].embedding ELSE PAD_COST
      /\ BaseRow(r)[c0] \in Nat
    BY <1>1, <1>3, BaseRowFacts
<1>6. REID_THRESH \in Int /\ REID_THRESH < PAD_COST /\ PAD_COST \in Nat  BY CostsAssumption
<1>7. Held(r, c0) = IF LookAlikes(BaseRow(r)) THEN PAD_COST ELSE BaseRow(r)[c0]  BY DEF Held
<1>8. Held(r, c0) \in Nat  BY <1>5, <1>6, <1>7
<1> DEFINE h == Held(r, c0)
           w == BaseRow(r)[c0]
           k == LookAlikes(BaseRow(r))
<1> HIDE DEF h, w, k
<1>9. ~pairs[r][c0].apart /\ h <= REID_THRESH
    <2>1. h \in Nat  BY <1>8 DEF h
    <2>2. fused[r][c0] = IF pairs[r][c0].apart THEN h + PAD_COST ELSE h  BY <1>4 DEF h
    <2> QED BY <1>2, <1>6, <2>1, <2>2
<1>10. ~k /\ w <= REID_THRESH
    <2>1. h = IF k THEN PAD_COST ELSE w  BY <1>7 DEF h, w, k
    <2> QED BY <1>6, <1>9, <2>1
<1>11. pairs[r][c0].kin /\ pairs[r][c0].embedding <= REID_THRESH
    <2>1. w = IF pairs[r][c0].kin THEN pairs[r][c0].embedding ELSE PAD_COST  BY <1>5 DEF w
    <2> QED BY <1>6, <1>10, <2>1
<1>12. ASSUME NEW c \in {e \in Cols : pairs[r][e].kin}, NEW d \in {e \in Cols : pairs[r][e].kin}, c # d,
              \A e \in {e \in Cols : pairs[r][e].kin} : pairs[r][c].embedding <= pairs[r][e].embedding
       PROVE  2 * (pairs[r][d].embedding - pairs[r][c].embedding) >= REID_THRESH
    <2>1. ~LookAlikes(BaseRow(r))  BY <1>10 DEF k
    <2>2. \A e \in Cols : pairs[r][e].kin => pairs[r][c].embedding <= pairs[r][e].embedding  BY <1>12
    <2> QED BY <1>1, <1>3, <1>12, <2>1, <2>2, ToldApart
<1> QED BY <1>1, <1>9, <1>11, <1>12 DEF r, c0

(* The total with two of its pairs taken out.                              *)
CostsAlong(f) == [r \in DOMAIN f |-> fused[r][f[r]]]
LEMMA TotalButTwo ==
    ASSUME NEW f, IsFiniteSet(DOMAIN f), NEW r \in DOMAIN f, NEW s \in DOMAIN f, r # s,
           \A x \in DOMAIN f : fused[x][f[x]] \in Int
    PROVE  /\ Total(f) = fused[r][f[r]] + (fused[s][f[s]] + Sum(CostsAlong(f), DOMAIN f \ {r, s}))
           /\ Sum(CostsAlong(f), DOMAIN f \ {r, s}) \in Int
<1> DEFINE h == CostsAlong(f)
           D == DOMAIN f
<1>1. \A x \in D : h[x] = fused[x][f[x]] /\ h[x] \in Int  BY DEF CostsAlong
<1>2. Total(f) = Sum(h, D)
    <2>1. DOMAIN CostsAlong(f) = DOMAIN f  BY DEF CostsAlong
    <2>2. Total(f) = SumFunction(CostsAlong(f))  BY Zenon DEF Total, CostsAlong
    <2> QED BY <2>1, <2>2, Zenon DEF SumFunction, Sum
<1> HIDE DEF h
<1>3. Sum(h, D) = h[r] + Sum(h, D \ {r})  BY <1>1, SumWithout
<1>4. IsFiniteSet(D \ {r}) /\ s \in D \ {r} /\ (D \ {r}) \ {s} = D \ {r, s} /\ IsFiniteSet(D \ {r, s})
    BY FS_Difference
<1>5. Sum(h, D \ {r}) = h[s] + Sum(h, (D \ {r}) \ {s})
    <2>1. \A x \in D \ {r} : h[x] \in Int  BY <1>1
    <2> QED BY <1>4, <2>1, SumWithout
<1>6. Sum(h, D \ {r, s}) \in Int
    <2>1. \A x \in D \ {r, s} : h[x] \in Int  BY <1>1
    <2> QED BY <1>4, <2>1, SumType
<1> QED BY <1>1, <1>2, <1>3, <1>4, <1>5, <1>6 DEF h

(* To exchange the detections of two tracks is no cheaper.                 *)
LEMMA ExchangeCosts ==
    ASSUME AssociationInv
    PROVE  ExchangeIsDearer
<1> SUFFICES ASSUME Solved, stage # "reid", NEW r \in Rows, NEW s \in Rows, r # s, NEW d \in Cols, NEW c \in Cols,
                    d = AssignedTo(r), c = AssignedTo(s), pairs[r][d].apart, pairs[s][c].apart
             PROVE  fused[r][c] + fused[s][d] >= 2 * DEPTH_GATE_PENALTY
    BY DEF ExchangeIsDearer
<1>1. at = "row" /\ LeastTotal  BY SolvedIsLeast DEF Solved
<1>2. Sides /\ AtRow /\ CostInv
    BY <1>1 DEF AssociationInv, SolverInv, Sides
<1>3. todo = <<>>  BY <1>1, <1>2 DEF CostInv, ToDo
<1>4. \A x \in Rows : \A e \in Cols : fused[x][e] \in Int
    <2>1. \A x \in Rows : \A e \in Cols : fused[x][e] \in Nat  BY <1>2, CostsOf DEF CostInv
    <2> QED BY <2>1
<1>5. fused[r][d] >= DEPTH_GATE_PENALTY /\ fused[s][c] >= DEPTH_GATE_PENALTY
    <2>1. Penalty = DEPTH_GATE_PENALTY  BY DEF Penalty
    <2>2. \A x \in Rows : \A e \in Cols : pairs[x][e].apart => fused[x][e] >= Penalty
        BY <1>2, <1>3 DEF CostInv, ApartCosts
    <2> QED BY <2>1, <2>2
<1>6. /\ Chosen \in [Real -> Cols] /\ Real \subseteq Rows
      /\ \A x, y \in Real : Chosen[x] = Chosen[y] => x = y
      /\ Real = Rows \/ {Chosen[x] : x \in Real} = Cols
    <2>1. DOMAIN Chosen = Real  BY DEF Chosen
    <2>2. Chosen \in OneToOne  BY <1>2, ChosenOneToOne
    <2> QED BY <2>1, <2>2, OneToOneMeans, Zenon
<1>7. r \in Real /\ s \in Real /\ Chosen[r] = d /\ Chosen[s] = c
    BY DEF Real, Chosen
<1> DEFINE f == [x \in Real |-> IF x = r THEN c ELSE IF x = s THEN d ELSE Chosen[x]]
<1>8. DOMAIN f = Real /\ f[r] = c /\ f[s] = d /\ \A x \in Real \ {r, s} : f[x] = Chosen[x]
    BY <1>7
<1>9. f \in [Real -> Cols]  BY <1>6
<1> HIDE DEF f
<1>10. \A x, y \in Real : f[x] = f[y] => x = y
    <2>1. \A x \in Real : x = r \/ x = s \/ x \in Real \ {r, s}  OBVIOUS
    <2>2. \A x \in Real \ {r, s} : f[x] # c /\ f[x] # d  BY <1>6, <1>7, <1>8
    <2>3. c # d  BY <1>6, <1>7
    <2> QED BY <1>6, <1>7, <1>8, <2>1, <2>2, <2>3
<1>11. {f[x] : x \in Real} = {Chosen[x] : x \in Real}
    <2>1. \A x \in Real : \E y \in Real : f[x] = Chosen[y]
        <3> SUFFICES ASSUME NEW x \in Real PROVE \E y \in Real : f[x] = Chosen[y]
            OBVIOUS
        <3>1. x = r \/ x = s \/ x \in Real \ {r, s}  OBVIOUS
        <3> QED BY <1>7, <1>8, <3>1
    <2>2. \A x \in Real : \E y \in Real : Chosen[x] = f[y]
        <3> SUFFICES ASSUME NEW x \in Real PROVE \E y \in Real : Chosen[x] = f[y]
            OBVIOUS
        <3>1. x = r \/ x = s \/ x \in Real \ {r, s}  OBVIOUS
        <3> QED BY <1>7, <1>8, <3>1
    <2> QED BY <2>1, <2>2
<1>12. f \in OneToOne
    <2>1. DOMAIN f = Rows \/ {f[x] : x \in DOMAIN f} = Cols  BY <1>6, <1>8, <1>11
    <2> QED BY <1>6, <1>8, <1>9, <1>10, <2>1, OneToOneMeans
<1>13. Total(Chosen) <= Total(f)  BY <1>1, <1>12 DEF LeastTotal, Chosen, Real
<1>14. IsFiniteSet(Real)
    <2>1. IsFiniteSet(Rows)  BY <1>2, SidesOf
    <2> QED BY <1>6, <2>1, FS_Subset
<1> DEFINE rest == Real \ {r, s}
           kept == Sum(CostsAlong(Chosen), rest)
           turned == Sum(CostsAlong(f), rest)
<1>15. Total(Chosen) = fused[r][d] + (fused[s][c] + kept) /\ kept \in Int
    <2>1. DOMAIN Chosen = Real  BY DEF Chosen
    <2>2. \A x \in Real : fused[x][Chosen[x]] \in Int  BY <1>4, <1>6
    <2> HIDE DEF kept
    <2> QED BY <1>7, <1>14, <2>1, <2>2, TotalButTwo DEF kept
<1>16. Total(f) = fused[r][c] + (fused[s][d] + turned) /\ turned \in Int
    <2>1. \A x \in Real : fused[x][f[x]] \in Int  BY <1>4, <1>6, <1>9
    <2> QED BY <1>7, <1>8, <1>14, <2>1, TotalButTwo
<1>17. kept = turned
    <2>1. IsFiniteSet(rest)  BY <1>14, FS_Difference
    <2>2. DOMAIN Chosen = Real  BY DEF Chosen
    <2>3. \A x \in rest : CostsAlong(Chosen)[x] = fused[x][Chosen[x]] /\ CostsAlong(f)[x] = fused[x][f[x]]
        BY <1>8, <2>2 DEF CostsAlong
    <2>4. \A x \in rest : fused[x][Chosen[x]] \in Int  BY <1>4, <1>6
    <2>5. \A x \in rest : CostsAlong(Chosen)[x] \in Int /\ CostsAlong(Chosen)[x] = CostsAlong(f)[x]
        BY <1>8, <2>3, <2>4
    <2> HIDE DEF rest
    <2> QED BY <2>1, <2>5, SumSame
<1> HIDE DEF rest, kept, turned
<1>18. DEPTH_GATE_PENALTY \in Nat  BY ConstantsTypes
<1>19. fused[r][c] \in Int /\ fused[s][d] \in Int /\ fused[r][d] \in Int /\ fused[s][c] \in Int
    BY <1>4
<1> QED BY <1>5, <1>13, <1>15, <1>16, <1>17, <1>18, <1>19

(* Re-id pairs no track with a second detection within the margin of its   *)
(* best, and an exchange across a depth gap is only made where the own     *)
(* pairs cost the two penalties or more.                                   *)
THEOREM IdentitiesAreGuarded == AssociationSpec => []IdentityGuards
<1>1. AssociationInv => IdentityGuards  BY ReidGuessesNothing, ExchangeCosts DEF IdentityGuards
<1> QED BY <1>1, AssociationKeeps, PTL

-----------------------------------------------------------------------------
(***************************************************************************)
(* The history of a track is in its filter, for all intervals, birth       *)
(* depths and lengths of its life.                                         *)
(***************************************************************************)

Filter == [clock : Int, obs : Nat, anchored : BOOLEAN]

MotionTypeOK ==
    /\ oru \in BOOLEAN /\ depth_measured \in BOOLEAN
    /\ kf \in Filter /\ kf_snapshot \in Filter
    /\ depth_reject_streak \in Nat /\ refused \in Nat
    /\ time_since_update \in Nat /\ hits \in Nat
    /\ now \in Int /\ age \in Nat
    /\ turn \in {"frame", "seen"}

(* The snapshot is the filter of the last observation: it has all of them, *)
(* is as old as the gap is long, and knows a depth if the filter does.     *)
SnapshotIsLastSeen ==
    /\ kf.obs = hits /\ kf_snapshot.obs = hits
    /\ Intervals = {1} => kf_snapshot.clock + time_since_update = now
    /\ Intervals = {1} \/ ~oru => kf.clock = now
    /\ "bad" \notin BirthDepths /\ depth_measured =>
          kf.anchored /\ kf_snapshot.anchored

(* Every measured depth that was kept out is in the streak, which ends     *)
(* before it reaches DEPTH_REJECT_MAX.                                     *)
StreakIsRefused ==
    refused = depth_reject_streak /\ refused < DEPTH_REJECT_MAX

MotionInv == MotionTypeOK /\ SnapshotIsLastSeen /\ StreakIsRefused

(* What one operation of the filter does to each of its parts.             *)
LEMMA FilterSteps ==
    ASSUME NEW f \in Filter, NEW dt \in Int, NEW real \in BOOLEAN
    PROVE  /\ FilterPredict(f, dt) \in Filter
           /\ FilterPredict(f, dt).clock = f.clock + dt
           /\ FilterPredict(f, dt).obs = f.obs
           /\ FilterPredict(f, dt).anchored <=> f.anchored
           /\ FilterUpdate(f, real) \in Filter
           /\ FilterUpdate(f, real).clock = f.clock
           /\ FilterUpdate(f, real).obs = f.obs + 1
           /\ FilterUpdate(f, real).anchored <=> f.anchored \/ real
           /\ FilterVirtual(f, real) \in Filter
           /\ FilterVirtual(f, real).clock = f.clock
           /\ FilterVirtual(f, real).obs = f.obs
           /\ FilterVirtual(f, real).anchored <=> f.anchored \/ real
<1>1. f.clock \in Int /\ f.obs \in Nat /\ f.anchored \in BOOLEAN
    BY DEF Filter
<1>2. f.clock + dt \in Int /\ f.obs + 1 \in Nat
    BY <1>1
<1>3. (f.anchored \/ real) \in BOOLEAN
    OBVIOUS
<1>4. /\ FilterPredict(f, dt) \in Filter
      /\ FilterPredict(f, dt).clock = f.clock + dt
      /\ FilterPredict(f, dt).obs = f.obs
      /\ FilterPredict(f, dt).anchored = f.anchored
    BY <1>1, <1>2, Zenon DEF FilterPredict, Filter
<1>5. /\ FilterUpdate(f, real) \in Filter
      /\ FilterUpdate(f, real).clock = f.clock
      /\ FilterUpdate(f, real).obs = f.obs + 1
      /\ FilterUpdate(f, real).anchored <=> f.anchored \/ real
    BY <1>1, <1>2, <1>3, Zenon DEF FilterUpdate, Filter
<1>6. /\ FilterVirtual(f, real) \in Filter
      /\ FilterVirtual(f, real).clock = f.clock
      /\ FilterVirtual(f, real).obs = f.obs
      /\ FilterVirtual(f, real).anchored <=> f.anchored \/ real
    BY <1>1, <1>3, Zenon DEF FilterVirtual, Filter
<1> QED
    BY <1>4, <1>5, <1>6

LEMMA BirthKeeps == MotionInit => MotionInv
<1> SUFFICES ASSUME MotionInit PROVE MotionInv
    OBVIOUS
<1>1. PICK depth \in BirthDepths : Birth(depth)
    BY DEF MotionInit
<1>2. kf = [clock |-> 0, obs |-> 1, anchored |-> (depth = "real")] /\ kf_snapshot = kf
    BY <1>1 DEF Birth, FilterNew
<1>3. (depth = "real") \in BOOLEAN /\ 0 \in Int /\ 1 \in Nat
    OBVIOUS
<1>4. kf \in Filter
    BY <1>2, <1>3, Zenon DEF Filter
<1>5. kf.clock = 0 /\ kf.obs = 1 /\ kf.anchored = (depth = "real")
    BY <1>2, Zenon
<1>6. depth_measured = (depth # "none")
    BY <1>1 DEF Birth
<1> QED
    BY <1>2, <1>4, <1>5, <1>6, MotionAssumption
       DEF MotionInit, MotionInv, MotionTypeOK, SnapshotIsLastSeen, StreakIsRefused

(* A frame carries the filter forward, and the snapshot falls behind.      *)
LEMMA PredictKeeps ==
    ASSUME MotionInv, NEW dt \in Intervals, Predict(dt)
    PROVE  MotionInv'
<1>1. dt \in Int /\ kf \in Filter
    BY MotionAssumption DEF MotionInv, MotionTypeOK
<1>2. /\ kf' \in Filter /\ kf'.clock = kf.clock + dt
      /\ kf'.obs = kf.obs /\ (kf'.anchored <=> kf.anchored)
  <2>1. kf' = FilterPredict(kf, dt)
    BY DEF Predict
  <2> QED
    BY <1>1, <2>1, FilterSteps
<1>3. /\ now' = now + dt /\ age' = age + 1
      /\ time_since_update' = time_since_update + 1 /\ turn' = "seen"
      /\ UNCHANGED <<oru, kf_snapshot, depth_measured, depth_reject_streak, hits,
                     refused>>
    BY DEF Predict
<1>4. MotionTypeOK'
    BY <1>1, <1>2, <1>3 DEF MotionInv, MotionTypeOK
<1>5. kf_snapshot.clock \in Int /\ kf.clock \in Int
    BY DEF MotionInv, MotionTypeOK, Filter
<1>6. Intervals = {1} => dt = 1
    OBVIOUS
<1>7. SnapshotIsLastSeen'
  <2>1. Intervals = {1} => kf_snapshot'.clock + time_since_update' = now'
    BY <1>1, <1>3, <1>5, <1>6 DEF MotionInv, MotionTypeOK, SnapshotIsLastSeen
  <2>2. Intervals = {1} \/ ~oru' => kf'.clock = now'
    BY <1>2, <1>3 DEF MotionInv, SnapshotIsLastSeen
  <2> QED
    BY <1>2, <1>3, <2>1, <2>2 DEF MotionInv, SnapshotIsLastSeen
<1> QED
    BY <1>3, <1>4, <1>7 DEF MotionInv, StreakIsRefused

(* An observation, with the replay of the gap before it if there is one.   *)
LEMMA UpdateKeeps ==
    ASSUME MotionInv, NEW depth \in {"none", "bad", "real"}, NEW fits \in BOOLEAN,
           Update(depth, fits)
    PROVE  MotionInv'
<1> DEFINE taken == Taken(depth, fits)
           place == taken \/ kf.anchored
           last == obs_hist[Len(obs_hist)]
           ahead == IF oru /\ time_since_update >= 2
                    THEN Replayed(last /\ place) ELSE kf
<1>0. MotionTypeOK /\ SnapshotIsLastSeen /\ StreakIsRefused
    BY DEF MotionInv
<1>1. taken \in BOOLEAN /\ (taken => depth = "real")
    BY DEF Taken
<1>2. /\ ahead \in Filter /\ ahead.obs = hits
      /\ Intervals = {1} \/ ~oru => ahead.clock = now
      /\ "bad" \notin BirthDepths /\ depth_measured => ahead.anchored
  <2>1. CASE oru /\ time_since_update >= 2
    <3> DEFINE real == depth_measured /\ (last /\ place)
               carried == FilterPredict(kf_snapshot, time_since_update)
    <3>1. /\ kf_snapshot \in Filter /\ time_since_update \in Int
          /\ real \in BOOLEAN
      BY <1>0 DEF MotionTypeOK
    <3>2. /\ carried \in Filter
          /\ carried.clock = kf_snapshot.clock + time_since_update
          /\ carried.obs = kf_snapshot.obs
          /\ carried.anchored <=> kf_snapshot.anchored
      BY <3>1, FilterSteps
    <3>3. ahead = FilterVirtual(carried, real)
      BY <2>1 DEF Replayed
    <3> HIDE DEF real, carried, ahead
    <3>4. /\ ahead \in Filter
          /\ ahead.clock = carried.clock
          /\ ahead.obs = carried.obs
          /\ ahead.anchored <=> carried.anchored \/ real
      BY <3>1, <3>2, <3>3, FilterSteps
    <3> QED
      BY <1>0, <2>1, <3>2, <3>4 DEF SnapshotIsLastSeen
  <2>2. CASE ~(oru /\ time_since_update >= 2)
    BY <1>0, <2>2 DEF MotionTypeOK, SnapshotIsLastSeen
  <2> QED
    BY <2>1, <2>2
<1>3. kf' = FilterUpdate(ahead, taken) /\ kf_snapshot' = kf'
    BY DEF Update, Snapshot
<1>4. /\ depth_measured' = (depth_measured \/ taken)
      /\ depth_reject_streak' = Streak(depth, fits)
      /\ hits' = hits + 1 /\ time_since_update' = 0 /\ turn' = "frame"
      /\ refused' = IF taken THEN 0 ELSE IF depth = "real" THEN refused + 1 ELSE refused
      /\ UNCHANGED <<oru, age, now>>
    BY DEF Update, NowMeasured
<1> HIDE DEF ahead, taken
<1>5. /\ kf' \in Filter /\ kf'.clock = ahead.clock /\ kf'.obs = ahead.obs + 1
      /\ (kf'.anchored <=> ahead.anchored \/ taken)
    BY <1>1, <1>2, <1>3, FilterSteps, 0 \in Int
<1>6. StreakIsRefused' /\ depth_reject_streak' \in Nat /\ refused' \in Nat
    BY <1>0, <1>4, MotionAssumption
       DEF StreakIsRefused, Streak, Taken, taken, MotionTypeOK
<1>7. MotionTypeOK'
    BY <1>0, <1>1, <1>3, <1>4, <1>5, <1>6 DEF MotionTypeOK
<1>8. SnapshotIsLastSeen'
  <2>1. Intervals = {1} \/ ~oru' => kf'.clock = now'
    BY <1>2, <1>4, <1>5
  <2>2. kf'.clock \in Int
    BY <1>5 DEF Filter
  <2>3. Intervals = {1} => kf_snapshot'.clock + time_since_update' = now'
    BY <1>3, <1>4, <2>1, <2>2
  <2>4. "bad" \notin BirthDepths /\ depth_measured' => kf'.anchored
    BY <1>1, <1>2, <1>4, <1>5
  <2> QED
    BY <1>2, <1>3, <1>4, <1>5, <2>1, <2>3, <2>4 DEF SnapshotIsLastSeen
<1> QED
    BY <1>6, <1>7, <1>8 DEF MotionInv

LEMMA MotionStep == MotionInv /\ [MotionNext]_motionVars => MotionInv'
<1> SUFFICES ASSUME MotionInv, [MotionNext]_motionVars
             PROVE  MotionInv'
    OBVIOUS
<1>1. CASE Miss \/ UNCHANGED motionVars
    BY <1>1 DEF Miss, motionVars, MotionInv, MotionTypeOK, SnapshotIsLastSeen,
                StreakIsRefused
<1> QED
    BY <1>1, PredictKeeps, UpdateKeeps DEF MotionNext

(* Whatever gaps, rejected depths, rollbacks and replays a track has gone  *)
(* through, its filter (Tracklet::predict, update, reupdate_virtual) holds *)
(* every observation once and has not shut a true depth out for ever; it   *)
(* has been carried forward by the time that passed if every frame is a    *)
(* nominal one or nothing is replayed; and if no birth depth is a bad one, *)
(* a depth that counts as measured was measured.                           *)
THEOREM MotionHistory == MotionSpec => []HistoryKept
<1>1. MotionInv => HistoryKept
    BY DEF MotionInv, SnapshotIsLastSeen, StreakIsRefused, HistoryKept,
           NoObservationLost, TrueDepthGetsIn, ClockIsTime, NominalNeverGates
<1> QED
    BY <1>1, BirthKeeps, MotionStep, PTL DEF MotionSpec
==============================================================================
