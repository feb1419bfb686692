------------------------------ MODULE Survivors ------------------------------
(***************************************************************************)
(* The device side of a submit: the kernels that keep some of many         *)
(* candidates and pack them, in whatever order their threads arrive, into  *)
(* the rows of a caller's result.                                          *)
(*                                                                         *)
(* RF-DETR and RF-DETR-Seg run one thread per query, XFeat one per pixel   *)
(* of each image of a batch.  A thread that survives takes a row with      *)
(* atomicAdd and then writes it: between the two any other thread may run. *)
(* Kernels of one stream never overlap, so a kernel whose threads write    *)
(* disjoint cells from what earlier kernels left is one step.              *)
(*                                                                         *)
(* The result buffers are reused: at the start every column holds rows of  *)
(* an earlier frame, and so does every scratch counter.                    *)
(***************************************************************************)
EXTENDS Integers, FiniteSets, SequencesExt

CONSTANTS
    Queries,        \* query slots of the engine, 0 .. Q-1
    C,              \* class-logit channels, 0 is background
    Logits,         \* values a logit takes, NaN among them
    NaN,
    Conf,           \* the logit at which the sigmoid reaches the threshold
    HeatMaps,       \* batches for XFeat: an image is a record of two maps
    W, H,           \* size of a score map
    Threshold,      \* detection threshold of the score map
    TopK,           \* capacity of an XFeat result
    Bins, PerBin    \* histogram buckets, score units in one

ASSUME SizesAssumption ==
    /\ IsFiniteSet(Queries) /\ Queries = 0 .. Cardinality(Queries) - 1
    /\ {C, W, H, TopK, Bins, PerBin} \subseteq Nat \ {0}

VARIABLES
    crate,        \* "detr", "seg" or "xfeat"
    in,         \* what the backbone answered for this frame
    stage,      \* kernels of the submit still to run, in stream order
    pc,         \* thread -> "ready", "reserved", "done" in the append kernel
    slot,       \* thread -> the row it reserved
    score,      \* the score map
    hist, cut,  \* buckets of the top-K selection and the score it cuts at
    count,      \* image -> survivors counted, may exceed the capacity
    rows,       \* image -> column -> row -> what is written there
    pin         \* image -> the pinned count the host reads

survivorsVars == <<crate, in, stage, pc, slot, score, hist, cut, count, rows, pin>>

------------------------------------------------------------------------------

Old  == [of |-> -1]         \* a row of an earlier frame
Zero == [of |-> -2]         \* a zeroed embedding
Of(t) == [of |-> t]

Pixels == 0 .. W * H - 1
ASSUME MapsAssumption ==
    /\ Threshold \in Int
    /\ \A batch \in HeatMaps :
          batch \in Seq([heat : [Pixels -> Int], reliability : [Pixels -> Int]])
Batch == IF crate = "xfeat" THEN 0 .. Len(in) - 1 ELSE {0}
Lanes  == IF crate = "xfeat" THEN Pixels ELSE Queries
Cap    == IF crate = "xfeat" THEN TopK ELSE Cardinality(Queries)
Threads == Batch \X Lanes

Columns == CASE crate = "detr"  -> {"dets"}
             [] crate = "seg"   -> {"dets", "qidx", "masks", "feats"}
             [] crate = "xfeat" -> {"kpts", "scores", "kpts_px", "descs"}

Greater(a, b) == a # NaN /\ b # NaN /\ a > b

\* the class whose logit is the first greatest, 0 when no logit compares
BestClass(q) ==
    LET lo == in.logits[q]
        Best == {c \in 1 .. C - 1 :
                    /\ lo[c] # NaN
                    /\ \A d \in 1 .. C - 1 : ~ Greater(lo[d], lo[c])
                    /\ \A d \in 1 .. c - 1 : lo[d] # lo[c]}
    IN  IF Best = {} THEN 0 ELSE CHOOSE c \in Best : TRUE

Detected(q) == BestClass(q) # 0 /\ in.logits[q][BestClass(q)] >= Conf

Window(p) == {n \in Pixels : /\ (n % W) - (p % W) \in -2 .. 2
                             /\ (n \div W) - (p \div W) \in -2 .. 2}

\* a pixel keeps heat times reliability when no neighbour is strictly hotter
NmsScore(b, p) ==
    LET h == in[b + 1].heat IN
    IF h[p] > Threshold /\ \A n \in Window(p) : h[n] <= h[p]
    THEN h[p] * in[b + 1].reliability[p]
    ELSE 0

Bucket(s) == Min({s \div PerBin, Bins - 1})
Lit(b) == {p \in Pixels : score[b][p] > 0}

Selected(b, p) == score[b][p] > 0 /\ score[b][p] >= cut[b]

Survives(t) == IF crate = "xfeat" THEN Selected(t[1], t[2]) ELSE Detected(t[2])
Survivors(b) == {l \in Lanes : Survives(<<b, l>>)}

------------------------------------------------------------------------------

Kernels(j) ==
    CASE j = "detr"  -> <<"clear", "append", "copy">>
      [] j = "seg"   -> <<"clear", "append", "masks", "pool", "copy">>
      [] j = "xfeat" -> <<"nms", "clear", "histogram", "cutoff",
                          "append", "sample", "norm", "copy">>

Answers(j) ==
    IF j = "xfeat" THEN HeatMaps
    ELSE [logits : [Queries -> [1 .. C - 1 -> Logits]],
          empty : IF j = "seg" THEN SUBSET Queries ELSE {{}}]

SurvivorsInit ==
    /\ crate \in {"detr", "seg", "xfeat"}
    /\ in \in Answers(crate)
    /\ stage = Kernels(crate)
    /\ pc = [t \in Threads |-> "ready"]
    /\ slot = [t \in Threads |-> -1]
    /\ score = [b \in Batch |-> [p \in Lanes |-> 1]]
    /\ hist = [b \in Batch |-> [i \in 0 .. Bins - 1 |-> 1]]
    /\ cut = [b \in Batch |-> 1]
    /\ count = [b \in Batch |-> 1]
    /\ rows = [b \in Batch |-> [c \in Columns |-> [k \in 0 .. Cap - 1 |-> Old]]]
    /\ pin = [b \in Batch |-> 1]

Launch(kernel) ==
    /\ stage # <<>>
    /\ Head(stage) = kernel
    /\ stage' = Tail(stage)
    /\ UNCHANGED <<crate, in, pc, slot>>

\* xfeat_score_nms over every image of the batch
ScoreNms ==
    /\ Launch("nms")
    /\ score' = [b \in Batch |-> [p \in Pixels |-> NmsScore(b, p)]]
    /\ UNCHANGED <<hist, cut, count, rows, pin>>

\* one memset of the scratch: the counts, and XFeat's histograms with them
ClearScratch ==
    /\ Launch("clear")
    /\ count' = [b \in Batch |-> 0]
    /\ hist' = IF crate = "xfeat"
               THEN [b \in Batch |-> [i \in 0 .. Bins - 1 |-> 0]]
               ELSE hist
    /\ UNCHANGED <<score, cut, rows, pin>>

Histogram ==
    /\ Launch("histogram")
    /\ hist' = [b \in Batch |-> [i \in 0 .. Bins - 1 |->
                    hist[b][i] + Cardinality(
                        {p \in Lit(b) : Bucket(score[b][p]) = i})]]
    /\ UNCHANGED <<score, cut, count, rows, pin>>

\* the buckets at which K survivors are reached from above
Reaching(h) ==
    {i \in 0 .. Bins - 1 : SumFunctionOnSet(h, i .. Bins - 1) >= TopK}

\* Fault: the cutoff is the upper edge of the bucket.
CutAbove(h) ==
    IF Reaching(h) = {} THEN 0 ELSE PerBin * (Max(Reaching(h)) + 1)

\* the lower edge of the highest of them, or none: keep all
CutAt(h) ==
    IF Reaching(h) = {} THEN 0 ELSE PerBin * Max(Reaching(h))

Cutoff ==
    /\ Launch("cutoff")
    /\ cut' = [b \in Batch |-> CutAt(hist[b])]
    /\ UNCHANGED <<score, hist, count, rows, pin>>

------------------------------------------------------------------------------
\* The append kernels: seg_decode, rfdetr_decode, xfeat_topk_select.

Appending == stage # <<>> /\ Head(stage) = "append"

\* atomicAdd(count, 1): the row is taken, not yet written
Reserve(t) ==
    /\ Appending
    /\ pc[t] = "ready"
    /\ Survives(t)
    /\ slot' = [slot EXCEPT ![t] = count[t[1]]]
    /\ count' = [count EXCEPT ![t[1]] = @ + 1]
    /\ pc' = [pc EXCEPT ![t] = "reserved"]
    /\ UNCHANGED <<crate, in, stage, score, hist, cut, rows, pin>>

Appended == CASE crate = "detr" -> {"dets"}
             [] crate = "seg" -> {"dets", "qidx"}
             [] crate = "xfeat" -> {"kpts", "scores"}

WriteRow(t) ==
    /\ pc[t] = "reserved"
    /\ pc' = [pc EXCEPT ![t] = "done"]
    /\ rows' = IF slot[t] >= Cap THEN rows
               ELSE [rows EXCEPT ![t[1]] = [c \in Columns |->
                        IF c \in Appended THEN [@[c] EXCEPT ![slot[t]] = Of(t[2])]
                        ELSE @[c]]]
    /\ UNCHANGED <<crate, in, stage, slot, score, hist, cut, count, pin>>

AppendDone ==
    /\ Appending
    /\ \A t \in Threads : Survives(t) => pc[t] = "done"
    /\ Launch("append")
    /\ UNCHANGED <<score, hist, cut, count, rows, pin>>

------------------------------------------------------------------------------

\* the rows a later kernel works on
Live(b) == 0 .. Min({count[b], Cap}) - 1

Refill(b, column, Row(_)) ==
    [rows[b] EXCEPT ![column] = [k \in 0 .. Cap - 1 |->
        IF k \in Live(b) THEN Row(k) ELSE @[k]]]

\* gather the mask row of the query that reserved the slot
Masks ==
    /\ Launch("masks")
    /\ rows' = [b \in Batch |-> Refill(b, "masks", LAMBDA k : rows[b].qidx[k])]
    /\ UNCHANGED <<score, hist, cut, count, pin>>

\* zero every embedding, then pool the tokens under the mask of each live row
PoolTokens ==
    /\ Launch("pool")
    /\ rows' = [b \in Batch |-> [rows[b] EXCEPT !.feats = [k \in 0 .. Cap - 1 |->
                    IF k \in Live(b) /\ rows[b].masks[k].of \notin in.empty
                    THEN rows[b].masks[k] ELSE Zero]]]
    /\ UNCHANGED <<score, hist, cut, count, pin>>

\* xfeat_sample_descs: descriptors and image-space keypoints of the live rows
SampleDescs ==
    /\ Launch("sample")
    /\ rows' = [b \in Batch |-> [Refill(b, "descs", LAMBDA k : rows[b].kpts[k])
                    EXCEPT !.kpts_px = [k \in 0 .. Cap - 1 |->
                        IF k \in Live(b) THEN rows[b].kpts[k] ELSE @[k]]]]
    /\ UNCHANGED <<score, hist, cut, count, pin>>

\* xfeat_l2_norm rescales the live descriptors where they are
L2Norm ==
    /\ Launch("norm")
    /\ UNCHANGED <<score, hist, cut, count, rows, pin>>

\* Fault: every image of the batch is told the count of the first.
CopyFirstCount ==
    /\ Launch("copy")
    /\ pin' = [b \in Batch |-> count[0]]
    /\ UNCHANGED <<score, hist, cut, count, rows>>

\* the only transfer to the host, into the pinned count of each result
CopyCount ==
    /\ Launch("copy")
    /\ pin' = count
    /\ UNCHANGED <<score, hist, cut, count, rows>>

SurvivorsNext ==
    \/ ScoreNms \/ ClearScratch \/ Histogram \/ Cutoff
    \/ \E t \in Threads : Reserve(t) \/ WriteRow(t)
    \/ AppendDone
    \/ Masks \/ PoolTokens \/ SampleDescs \/ L2Norm \/ CopyCount

SurvivorsSpec == SurvivorsInit /\ [][SurvivorsNext]_survivorsVars

------------------------------------------------------------------------------
\* What the host reads after its synchronize.

Synced == stage = <<>>

ReadCount(b) == Min({pin[b], Cap})

\* row k of every column: an instance, a detection or a keypoint
ReadRow(b, k) == [c \in Columns |-> rows[b][c][k]]

==============================================================================
