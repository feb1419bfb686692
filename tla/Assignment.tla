----------------------------- MODULE Assignment ------------------------------
(***************************************************************************)
(* hungarian of vrt-track: minimum-cost assignment on a square matrix by   *)
(* shortest augmenting paths. Rows are taken in turn; for each one a tree  *)
(* of columns grows, along edges the potentials make free, until it meets  *)
(* a column without a row; the path to it is then swapped. Column 0 is the *)
(* root and holds the row in hand.                                         *)
(***************************************************************************)
EXTENDS Integers, FiniteSetsExt

CONSTANT Inf        \* above every cost

VARIABLES
    cost,           \* row -> column -> cost, square
    i, u, v,        \* rows taken, and the potentials of rows and columns
    p,              \* the row of each column, 0 if none
    way, minv, used,\* the tree: column before, slack, columns in it
    j0,             \* the column in hand
    at              \* where the solver is

solverVars == <<cost, i, u, v, p, way, minv, used, j0, at>>

Side == DOMAIN cost
Columns == {0} \cup Side

SolverStart(matrix) ==
    /\ cost' = matrix
    /\ i' = 0
    /\ u' = [r \in {0} \cup DOMAIN matrix |-> 0]
    /\ v' = u' /\ p' = u' /\ way' = u' /\ minv' = u'
    /\ used' = {} /\ j0' = 0
    /\ at' = "row"

RowsLeft == i < Cardinality(Side)

BeginRow ==
    /\ at = "row"
    /\ RowsLeft
    /\ i' = i + 1
    /\ p' = [p EXCEPT ![0] = i']
    /\ minv' = [j \in Columns |-> Inf]
    /\ used' = {} /\ j0' = 0
    /\ at' = "scan"
    /\ UNCHANGED <<cost, u, v, way>>

Reduced(r, c) == cost[r][c] - u[r] - v[c]

(* The tree with the column in hand.                                       *)
Tree == used \cup {j0}
Outside == Side \ Tree

(* Columns to which the row in hand is a shorter way, and all distances.   *)
Shorter == {j \in Outside : Reduced(p[j0], j) < minv[j]}
Dist == [j \in Columns |-> IF j \in Shorter THEN Reduced(p[j0], j) ELSE minv[j]]

(* Fault: the columns of the tree keep their potentials.                   *)
LoweredFault(delta) == v
Lowered(delta) == [j \in Columns |-> IF j \in Tree THEN v[j] - delta ELSE v[j]]

(* One turn of the loop: the tree grows by the column in hand, the edge to *)
(* the nearest column outside becomes free, and that column is next.       *)
Scan ==
    LET dist == Dist
        delta == Min({dist[j] : j \in Outside})
        next == Min({j \in Outside : dist[j] = delta})
    IN  /\ at = "scan"
        /\ used' = Tree
        /\ way' = [j \in Columns |-> IF j \in Shorter THEN j0 ELSE way[j]]
        /\ u' = [r \in Columns |-> IF \E j \in Tree : p[j] = r THEN u[r] + delta ELSE u[r]]
        /\ v' = Lowered(delta)
        /\ minv' = [j \in Columns |-> IF j \in Tree THEN dist[j] ELSE dist[j] - delta]
        /\ j0' = next
        /\ at' = IF p[next] = 0 THEN "augment" ELSE "scan"
        /\ UNCHANGED <<cost, i, p>>

(* Swap the path, from its end to the root.                                *)
Augment ==
    /\ at = "augment"
    /\ j0 # 0
    /\ p' = [p EXCEPT ![j0] = p[way[j0]]]
    /\ j0' = way[j0]
    /\ UNCHANGED <<cost, i, u, v, way, minv, used, at>>

EndRow ==
    /\ at = "augment"
    /\ j0 = 0
    /\ at' = "row"
    /\ UNCHANGED <<cost, i, u, v, p, way, minv, used, j0>>

Solved == at = "row" /\ ~RowsLeft

AssignedTo(r) == CHOOSE c \in Side : p[c] = r

SolverStep == BeginRow \/ Scan \/ Augment \/ EndRow
==============================================================================
