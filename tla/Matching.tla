------------------------------ MODULE Matching -------------------------------
(***************************************************************************)
(* The mutual nearest-neighbour matcher of XFeat and ALIKED descriptors.   *)
(* A matcher is compiled for one width; every submission is enqueued into  *)
(* a MatchResult that the caller owns and uses again, and pairs() reads    *)
(* what has landed in pinned memory after the stream was synchronised.     *)
(*                                                                         *)
(* A descriptor is of some kind, and Likeness tells the cosine of two      *)
(* kinds; NotANumber is that of a row poisoned by an overflow. A set is    *)
(* what Descriptors holds: the rows of a buffer longer than its count, the *)
(* width they have, and the width the kernel was made for may be another.  *)
(***************************************************************************)
EXTENDS Integers, Sequences, FiniteSets

CONSTANTS
    Likeness,           \* <<kind, kind>> -> cosine or NotANumber
    NotANumber,
    NoCosine,             \* below every cosine
    Sets, AgainSets,    \* [rows, count, dim]: of the first and of later submissions
    Floors,             \* values of min_cossim
    Widths,             \* widths a matcher is asked for
    Warp, MAX_DIM, SHARED_FLOATS,
    Cap,                \* capacity of the result
    MaxSubmits          \* bound

VARIABLES
    kernel,     \* [dim, tile] of the matcher
    out,        \* [n0, min]: what submit leaves in the result at once
    landing,    \* the arrays as they are once the stream has drained
    host,       \* the arrays in pinned memory at the last synchronisation
    asked,      \* the submission out stands for: [a, b, min], or why there is none
    submits

matchVars == <<kernel, out, landing, host, asked, submits>>

ResultRow == 0 .. (Cap - 1)
NotAsked == [why |-> "rejected"]
Broken == [why |-> "broken"]
Asked(a, b, min) == [why |-> "none", a |-> a, b |-> b, min |-> min]

(* tile_for_dim: none for a width the registers or the warps do not suit.  *)
TileForDim(dim) == IF dim = 0 \/ dim % Warp # 0 \/ dim > MAX_DIM THEN {} ELSE {SHARED_FLOATS \div dim}
WithDim == UNION {{[dim |-> d, tile |-> t] : t \in TileForDim(d)} : d \in Widths}

(* A comparison with a NaN is false.                                       *)
Beats(s, best) == s # NotANumber /\ s > best

(* The rows of R that pass through the shared tile. Fault: the last tile   *)
(* is taken whole, with rows of an earlier frame.                          *)
ScannedFault(n) == {j0 + j : j0 \in {t * kernel.tile : t \in 0 .. (n - 1) \div kernel.tile}, j \in 0 .. (kernel.tile - 1)}
Scanned(n) ==
    UNION { {j0 + j : j \in 0 .. ((IF kernel.tile < n - j0 THEN kernel.tile ELSE n - j0) - 1)}
            : j0 \in {t * kernel.tile : t \in 0 .. (n - 1) \div kernel.tile} }

(* xfeat_match_argmax for one query: the index of the best row, -1 if no   *)
(* row ever took the lead, and its cosine.                                 *)
Argmax(q, rows, n) ==
    LET Best[j \in 0 .. Len(rows)] ==
            IF j = 0 THEN <<-1, NoCosine>>
            ELSE LET s == Likeness[<<q, rows[j]>>]
                 IN  IF (j - 1) \in Scanned(n) /\ Beats(s, Best[j - 1][2]) THEN <<j - 1, s>> ELSE Best[j - 1]
    IN  Best[Len(rows)]

(* check_descriptors.                                                      *)
Checked(d) == d.dim = kernel.dim /\ d.count <= Len(d.rows) /\ d.count <= Cap

(* What both launches and the copies of their arrays leave behind: the     *)
(* first rows are new, those after them as old as they were.               *)
Landed(a, b, m) ==
    [ m12 |-> [i \in ResultRow |-> IF i < a.count THEN Argmax(a.rows[i + 1], b.rows, b.count)[1] ELSE m.m12[i]],
      m21 |-> [j \in ResultRow |-> IF j < b.count THEN Argmax(b.rows[j + 1], a.rows, a.count)[1] ELSE m.m21[j]],
      s12 |-> [i \in ResultRow |-> IF i < a.count THEN Argmax(a.rows[i + 1], b.rows, b.count)[2] ELSE m.s12[i]] ]

(* MatchResult::pairs.                                                     *)
MutualPairs(n0, min, m) ==
    {<<i, m.m12[i]>> : i \in {k \in 0 .. (n0 - 1) : m.m12[k] >= 0 /\ m.m21[m.m12[k]] = k /\ m.s12[k] >= min}}
Pairs == MutualPairs(out.n0, out.min, host)
------------------------------------------------------------------------------
Untouched == [m12 |-> [i \in ResultRow |-> 0], m21 |-> [i \in ResultRow |-> 0], s12 |-> [i \in ResultRow |-> 0]]
MatchInit ==
    /\ kernel \in WithDim
    /\ out = [n0 |-> 0, min |-> 0]
    /\ landing = Untouched /\ host = Untouched
    /\ asked = NotAsked
    /\ submits = 0
MatchOff ==
    /\ kernel = <<>> /\ out = <<>> /\ landing = <<>> /\ host = <<>> /\ asked = NotAsked /\ submits = 0

Live(a, b) == IF a.count = 0 \/ b.count = 0 THEN 0 ELSE a.count

TurnDown(a, b) ==
    /\ ~(Checked(a) /\ Checked(b))
    /\ out' = [out EXCEPT !.n0 = 0]
    /\ asked' = NotAsked
    /\ UNCHANGED landing

Enqueue(a, b, min) ==
    /\ Checked(a) /\ Checked(b)
    /\ out' = [n0 |-> Live(a, b), min |-> min]
    /\ landing' = IF Live(a, b) = 0 THEN landing ELSE Landed(a, b, landing)
    /\ asked' = Asked(a, b, min)

(* A launch or a copy the driver refuses: the result keeps the new count   *)
(* over arrays that were written in part or not at all.                    *)
BreakOff(a, b, min) ==
    /\ Checked(a) /\ Checked(b) /\ Live(a, b) # 0
    /\ out' = [n0 |-> Live(a, b), min |-> min]
    /\ asked' = Broken
    /\ LET whole == Landed(a, b, landing)
       IN  landing' \in { landing, [landing EXCEPT !.m12 = whole.m12],
                          [landing EXCEPT !.m12 = whole.m12, !.m21 = whole.m21] }

Submit ==
    /\ submits < MaxSubmits
    /\ submits' = submits + 1
    /\ LET D == IF submits = 0 THEN Sets ELSE AgainSets
       IN  \E a, b \in D :
               \/ TurnDown(a, b)
               \/ \E min \in Floors : Enqueue(a, b, min) \/ BreakOff(a, b, min)
    /\ UNCHANGED <<kernel, host>>

Synchronize == host # landing /\ host' = landing /\ UNCHANGED <<kernel, out, landing, asked, submits>>

MatchNext == Submit \/ Synchronize
------------------------------------------------------------------------------
(***************************************************************************)
(* What a caller may conclude from the pairs it reads.                     *)
(***************************************************************************)

Matched == DOMAIN out # {} /\ host = landing /\ asked.why = "none"

(* The row of another set nearest to q: the first of the most alike, and   *)
(* none for a poisoned row.                                                *)
NearestOf(q, d) ==
    LET real == {j \in 1 .. d.count : Likeness[<<q, d.rows[j]>>] # NotANumber}
    IN  {j \in real : \A k \in real :
            \/ Likeness[<<q, d.rows[k]>>] < Likeness[<<q, d.rows[j]>>]
            \/ Likeness[<<q, d.rows[k]>>] = Likeness[<<q, d.rows[j]>>] /\ j <= k}

(* The result is "documented as reusable": after the sync it holds the     *)
(* mutual nearest neighbours of the sets submitted last, within the live   *)
(* rows of both, each row once, alike enough, and nothing of the rows past *)
(* the count or of a submission before.                                    *)
PairsAreMutualNearest ==
    Matched =>
        Pairs = { p \in (0 .. (asked.a.count - 1)) \X (0 .. (asked.b.count - 1)) :
                    /\ p[2] + 1 \in NearestOf(asked.a.rows[p[1] + 1], asked.b)
                    /\ p[1] + 1 \in NearestOf(asked.b.rows[p[2] + 1], asked.a)
                    /\ Likeness[<<asked.a.rows[p[1] + 1], asked.b.rows[p[2] + 1]>>] >= asked.min }

(* One kernel serves both directions: the sets the other way around give   *)
(* the same pairs the other way around, ties and poisoned rows included.   *)
OrderOfSetsIrrelevant ==
    Matched /\ out.n0 > 0 =>
        MutualPairs(asked.b.count, asked.min, Landed(asked.b, asked.a, Untouched)) = {<<p[2], p[1]>> : p \in Pairs}

(* "Only zero is safe in both directions": sets that are refused, for a    *)
(* width, a length or a capacity, leave no pairs of the ones before, even  *)
(* if the caller looks before it synchronises.                             *)
RefusalLeavesNothing == DOMAIN out # {} /\ asked.why = "rejected" => Pairs = {}

(* The pairs a caller reads are those of its sets, whichever came first,   *)
(* or none.                                                                *)
PairsTrusted == PairsAreMutualNearest /\ OrderOfSetsIrrelevant /\ RefusalLeavesNothing
==============================================================================
