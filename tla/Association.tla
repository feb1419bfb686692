---------------------------- MODULE Association ------------------------------
(***************************************************************************)
(* One association stage of a tracker update: a cost for every pair of a   *)
(* track and a detection, made lower or higher by what else is known of    *)
(* them, then the cheapest assignment, of which the pairs within the       *)
(* threshold count. The stages differ in what they fuse and how hard the   *)
(* depth gate is.                                                          *)
(*                                                                         *)
(* A pair is what the stage can tell of it: the overlap cost, the distance *)
(* of the embeddings, of the centres, the turn against the motion of the   *)
(* track, whether both have a depth and these are apart, and whether class *)
(* and last position allow it at all. Costs are integers; One stands for 1.*)
(***************************************************************************)
EXTENDS Assignment, Sequences, TLC

CONSTANTS
    Tables,         \* stage -> tables of pairs, [rows -> [cols -> pair]]
    One,
    MATCH_THRESH, MATCH_THRESH_SECOND,
    APPEARANCE_THRESH, PROXIMITY_THRESH,
    REID_THRESH,
    DEPTH_GATE_PENALTY,
    PAD_COST,       \* also the veto and the blank of the re-id stage
    NoValue         \* no embedding, no motion

VARIABLES
    stage,          \* "strong", "reid", "weak", "tentative"
    pairs,          \* row -> column -> pair
    still,          \* rows whose track hardly moves
    todo,           \* what is left to do to the costs
    fused,          \* row -> column -> cost
    found           \* [matches, rows, cols]: pairs, and what stays unmatched

associationVars == <<stage, pairs, still, todo, fused, found, solverVars>>

Rows == DOMAIN pairs
Cols == IF Rows = {} THEN {} ELSE DOMAIN pairs[1]

Steps ==
    [strong    |-> <<"appearance", "momentum", "gate">>,
     reid      |-> <<"abstain", "gate">>,
     weak      |-> <<"centre", "gate">>,
     tentative |-> <<"appearance", "gate">>]
Threshold ==
    [strong |-> MATCH_THRESH, reid |-> REID_THRESH,
     weak |-> MATCH_THRESH_SECOND, tentative |-> MATCH_THRESH]

Smaller(a, b) == IF a <= b THEN a ELSE b

(* Costs are finite and no side of them is above the padding, nor are they *)
(* so many, that a distance in the solver reaches Inf.                     *)
Price == 0 .. PAD_COST
Dearest == 3 * PAD_COST + DEPTH_GATE_PENALTY
PairType ==
    [overlap : Price, embedding : Price \cup {NoValue}, centre : Price,
     turn : Price \cup {NoValue}, apart : BOOLEAN, kin : BOOLEAN]
IsTable(t) ==
    /\ t \in Seq(Seq(PairType))
    /\ \A r \in DOMAIN t : DOMAIN t[r] = DOMAIN t[1] /\ (Len(t[r]) + 1) * Dearest < Inf
    /\ (Len(t) + 1) * Dearest < Inf
ASSUME CostsAssumption ==
    /\ PAD_COST \in Nat /\ DEPTH_GATE_PENALTY \in Nat /\ Inf \in Nat
    /\ One \in Price
    /\ {MATCH_THRESH, MATCH_THRESH_SECOND, APPEARANCE_THRESH, PROXIMITY_THRESH, REID_THRESH} \subseteq Int
    /\ REID_THRESH < PAD_COST
    /\ DOMAIN Tables \subseteq DOMAIN Steps
    /\ \A s \in DOMAIN Tables : \A t \in Tables[s] :
          /\ IsTable(t)
          /\ s = "reid" => \A r \in DOMAIN t : \A c \in DOMAIN t[r] : t[r][c].embedding \in 0 .. PAD_COST - 1

(* assoc_cost; the re-id stage starts from the embeddings of the pairs its *)
(* class and motion bounds allow.                                          *)
BaseCost(s, pair) ==
    IF s # "reid" THEN pair.overlap
    ELSE IF pair.kin THEN pair.embedding ELSE PAD_COST

NothingFound == [matches |-> {}, rows |-> {}, cols |-> {}]

AssociationInit ==
    /\ stage \in DOMAIN Tables
    /\ pairs \in Tables[stage]
    /\ still \in IF stage = "weak" THEN SUBSET DOMAIN pairs ELSE {{}}
    /\ todo = Steps[stage]
    /\ fused = [r \in DOMAIN pairs |-> [c \in DOMAIN pairs[r] |-> BaseCost(stage, pairs[r][c])]]
    /\ found = NothingFound
    /\ cost = <<>> /\ i = 0 /\ u = <<>> /\ v = <<>> /\ p = <<>>
    /\ way = <<>> /\ minv = <<>> /\ used = {} /\ j0 = 0
    /\ at = "fuse"
------------------------------------------------------------------------------
Fuse(name, CostOf(_, _)) ==
    /\ at = "fuse"
    /\ todo # <<>> /\ Head(todo) = name
    /\ todo' = Tail(todo)
    /\ fused' = [r \in Rows |-> [c \in Cols |-> CostOf(r, c)]]
    /\ UNCHANGED <<stage, pairs, still, found, solverVars>>

(* fuse_appearance: an embedding counts when it is close and the boxes are *)
(* not far apart, and as 1 when it does not.                               *)
Gated(r, c) ==
    IF pairs[r][c].embedding > APPEARANCE_THRESH \/ fused[r][c] > PROXIMITY_THRESH
    THEN One ELSE pairs[r][c].embedding
FuseAppearance ==
    Fuse("appearance", LAMBDA r, c :
        IF pairs[r][c].embedding = NoValue THEN fused[r][c]
        ELSE Smaller(fused[r][c], Gated(r, c)))

FuseMomentum ==
    Fuse("momentum", LAMBDA r, c :
        IF pairs[r][c].turn = NoValue THEN fused[r][c]
        ELSE fused[r][c] + pairs[r][c].turn)

(* fuse_center, for tracks that hardly move.                               *)
FuseCenter ==
    Fuse("centre", LAMBDA r, c :
        IF r \in still THEN Smaller(fused[r][c], pairs[r][c].centre)
        ELSE fused[r][c])

(* The best two costs of a row, in the order its detections are listed.    *)
BestTwo(row) ==
    LET two[k \in 0 .. Len(row)] ==
            IF k = 0 THEN <<Inf, Inf>>
            ELSE LET b == two[k - 1]
                 IN  IF row[k] < b[1] THEN <<row[k], b[1]>>
                     ELSE IF row[k] < b[2] THEN <<b[1], row[k]>>
                     ELSE b
    IN  two[Len(row)]

(* Fault: the runner-up only counts within the gate.                       *)
LookAlikesFault(row) ==
    LET two == BestTwo(row)
    IN  two[2] <= REID_THRESH /\ 2 * (two[2] - two[1]) < REID_THRESH
LookAlikes(row) ==
    LET two == BestTwo(row)
    IN  two[2] < PAD_COST /\ 2 * (two[2] - two[1]) < REID_THRESH

Abstain ==
    Fuse("abstain", LAMBDA r, c :
        IF LookAlikes(fused[r]) THEN PAD_COST ELSE fused[r][c])

(* gate_stage: a penalty, or for re-id a veto. Fault: only the veto.       *)
PenaltyFault == IF stage = "reid" THEN PAD_COST ELSE 0
Penalty == IF stage = "reid" THEN PAD_COST ELSE DEPTH_GATE_PENALTY
GateDepth ==
    Fuse("gate", LAMBDA r, c :
        IF pairs[r][c].apart THEN fused[r][c] + Penalty ELSE fused[r][c])
------------------------------------------------------------------------------
(* linear_assignment: nothing to match ...                                 *)
NothingToMatch ==
    /\ at = "fuse" /\ todo = <<>>
    /\ Rows = {} \/ Cols = {}
    /\ found' = [matches |-> {}, rows |-> Rows, cols |-> Cols]
    /\ at' = "done"
    /\ UNCHANGED <<stage, pairs, still, todo, fused, cost, i, u, v, p, way, minv, used, j0>>

(* ... or the square matrix for the solver, ...                            *)
Padded(r, c) == IF r \in Rows /\ c \in Cols THEN fused[r][c] ELSE PAD_COST
Pad ==
    /\ at = "fuse" /\ todo = <<>>
    /\ Rows # {} /\ Cols # {}
    /\ LET side == Rows \cup Cols
       IN  SolverStart([r \in side |-> [c \in side |-> Padded(r, c)]])
    /\ UNCHANGED <<stage, pairs, still, todo, fused, found>>

Solve == SolverStep /\ UNCHANGED <<stage, pairs, still, todo, fused, found>>

(* ... whose pairs count if they are real and within the threshold.        *)
(* Fault: a row on padding leaves no trace.                                *)
KeepWithinFault ==
    /\ Solved
    /\ LET matches == {<<r, AssignedTo(r)>> : r \in {r \in Rows :
                          AssignedTo(r) \in Cols /\ fused[r][AssignedTo(r)] <= Threshold[stage]}}
           missed == {r \in Rows : AssignedTo(r) \in Cols /\ fused[r][AssignedTo(r)] > Threshold[stage]}
       IN  found' = [matches |-> matches, rows |-> missed,
                     cols |-> Cols \ {m[2] : m \in matches}]
    /\ at' = "done"
    /\ UNCHANGED <<stage, pairs, still, todo, fused, cost, i, u, v, p, way, minv, used, j0>>
KeepWithin ==
    /\ Solved
    /\ LET matches == {<<r, AssignedTo(r)>> : r \in {r \in Rows :
                          AssignedTo(r) \in Cols /\ fused[r][AssignedTo(r)] <= Threshold[stage]}}
       IN  found' = [matches |-> matches, rows |-> Rows \ {m[1] : m \in matches},
                     cols |-> Cols \ {m[2] : m \in matches}]
    /\ at' = "done"
    /\ UNCHANGED <<stage, pairs, still, todo, fused, cost, i, u, v, p, way, minv, used, j0>>

Associate ==
    \/ FuseAppearance \/ FuseMomentum \/ FuseCenter \/ Abstain \/ GateDepth
    \/ NothingToMatch \/ Pad \/ Solve \/ KeepWithin

AssociationOff ==
    /\ stage = "none" /\ pairs = <<>> /\ still = {} /\ todo = <<>> /\ fused = <<>>
    /\ found = NothingFound
    /\ cost = <<>> /\ i = 0 /\ u = <<>> /\ v = <<>> /\ p = <<>>
    /\ way = <<>> /\ minv = <<>> /\ used = {} /\ j0 = 0
    /\ at = "done"
------------------------------------------------------------------------------
(***************************************************************************)
(* What the stages of an update may rely on in the pairs they get.         *)
(***************************************************************************)

Done == at = "done"

(* Every track and every detection comes out of a stage once: in one pair, *)
(* or unmatched; a later stage offers it again exactly in the second case. *)
(* This is what Tracker takes for granted of the pairs of a stage.         *)
ComesOutOnce ==
    Done /\ stage # "none" =>
        /\ \A m, n \in found.matches : m = n \/ (m[1] # n[1] /\ m[2] # n[2])
        /\ found.rows = Rows \ {m[1] : m \in found.matches}
        /\ found.cols = Cols \ {m[2] : m \in found.matches}
        /\ \A m \in found.matches : fused[m[1]][m[2]] <= Threshold[stage]

(* "Optimal minimum-cost assignment": no way to give each track, or each   *)
(* detection where these are fewer, a partner of its own is cheaper in     *)
(* total than the one found; the padding has no say in it.                 *)
Total(f) == SumFunction([r \in DOMAIN f |-> fused[r][f[r]]])
OneToOne == {f \in UNION {[R -> Cols] : R \in SUBSET Rows} :
                /\ \A r, s \in DOMAIN f : f[r] = f[s] => r = s
                /\ DOMAIN f = Rows \/ {f[r] : r \in DOMAIN f} = Cols}
LeastTotal ==
    Solved => LET real == {r \in Rows : AssignedTo(r) \in Cols}
                  chosen == [r \in real |-> AssignedTo(r)]
              IN  \A f \in OneToOne : Total(chosen) <= Total(f)

(* The potentials never exceed a cost, and meet it on every pair the       *)
(* solver has made: why the pairs of a finished solver are optimal.        *)
Feasible ==
    at \in {"row", "scan", "augment"} =>
        \A c \in Side :
            /\ \A r \in Side : Reduced(r, c) >= 0
            /\ p[c] # 0 => Reduced(p[c], c) = 0

(* "identical same-class objects": re-id never pairs a track that has a    *)
(* second allowed detection within half the gate of its best, nor across   *)
(* classes, out of reach, or across a depth gap, whatever the solver makes *)
(* of the other tracks. The margin is the track's own: between two lost    *)
(* tracks that want the same detection, cost alone decides.                *)
ReidNeverGuesses ==
    Done /\ stage = "reid" =>
        \A m \in found.matches :
            LET own == pairs[m[1]]
                Distance(c) == own[c].embedding
                Allowed == {c \in Cols : own[c].kin}
            IN  /\ m[2] \in Allowed /\ ~own[m[2]].apart /\ Distance(m[2]) <= REID_THRESH
                /\ \A c, d \in Allowed :
                      c # d /\ (\A e \in Allowed : Distance(c) <= Distance(e))
                      => 2 * (Distance(d) - Distance(c)) >= REID_THRESH

(* "the Hungarian prefers it over the penalized cross pair": among however *)
(* many others, two tracks hold each other's detections across a depth gap *)
(* only if to change them back would cost the two penalties or more. Depth *)
(* is a penalty and no veto here: a single pair across a gap that overlaps *)
(* well enough can still be the cheapest, and match.                       *)
ExchangeIsDearer ==
    Solved /\ stage # "reid" =>
        \A r, s \in Rows :
            LET d == AssignedTo(r)
                c == AssignedTo(s)
            IN  r # s /\ {c, d} \subseteq Cols /\ pairs[r][d].apart /\ pairs[s][c].apart
                => fused[r][c] + fused[s][d] >= 2 * DEPTH_GATE_PENALTY

(* What a stage gives the tracker: the cheapest assignment, each track and *)
(* each detection once, and none that costs more than the stage allows.    *)
AssignmentRight == LeastTotal /\ ComesOutOnce

(* What guards the identities of tracks that look alike: the margin of     *)
(* re-id within a track's own detections, and the price of an exchange     *)
(* across a depth gap.                                                     *)
IdentityGuards == ReidNeverGuesses /\ ExchangeIsDearer
==============================================================================
