--------------------------- MODULE SurvivorsProofs ---------------------------
(***************************************************************************)
(* What the packing kernels leave in a result, proved for any number of    *)
(* queries, pixels and images, any capacity, and any order in which the    *)
(* threads of an append kernel reserve and write their rows.               *)
(***************************************************************************)
EXTENDS SurvivorsProperties, Sums

-----------------------------------------------------------------------------
(* The kernels still to run are the last ones of the submit: n have run.   *)
KernelName == {"nms", "clear", "histogram", "cutoff", "append", "masks", "pool",
               "sample", "norm", "copy"}
StageAt(n) ==
    /\ n \in 0 .. Len(Kernels(crate))
    /\ stage \in Seq(KernelName) /\ Len(stage) = Len(Kernels(crate)) - n
    /\ \A i \in 1 .. Len(stage) : stage[i] = Kernels(crate)[n + i]
StageOK == crate \in {"detr", "seg", "xfeat"} /\ \E n \in Nat : StageAt(n)

Left(k) == \E i \in 1 .. Len(stage) : stage[i] = k
Early == Left("nms") \/ Left("clear") \/ Left("histogram") \/ Left("cutoff")

LEMMA Order ==
    /\ Len(Kernels("detr")) = 3 /\ Kernels("detr") \in Seq(KernelName)
    /\ Len(Kernels("seg")) = 5 /\ Kernels("seg") \in Seq(KernelName)
    /\ Len(Kernels("xfeat")) = 8 /\ Kernels("xfeat") \in Seq(KernelName)
    /\ Kernels("detr")[1] = "clear" /\ Kernels("detr")[2] = "append"
    /\ Kernels("detr")[3] = "copy"
    /\ Kernels("seg")[1] = "clear" /\ Kernels("seg")[2] = "append"
    /\ Kernels("seg")[3] = "masks" /\ Kernels("seg")[4] = "pool"
    /\ Kernels("seg")[5] = "copy"
    /\ Kernels("xfeat")[1] = "nms" /\ Kernels("xfeat")[2] = "clear"
    /\ Kernels("xfeat")[3] = "histogram" /\ Kernels("xfeat")[4] = "cutoff"
    /\ Kernels("xfeat")[5] = "append" /\ Kernels("xfeat")[6] = "sample"
    /\ Kernels("xfeat")[7] = "norm" /\ Kernels("xfeat")[8] = "copy"
<1>1. Kernels("detr") = <<"clear", "append", "copy">>
    BY DEF Kernels
<1>2. Kernels("seg") = <<"clear", "append", "masks", "pool", "copy">>
    BY DEF Kernels
<1>3. Kernels("xfeat") = <<"nms", "clear", "histogram", "cutoff",
                           "append", "sample", "norm", "copy">>
    BY DEF Kernels
<1>4. ASSUME NEW K, K = <<"clear", "append", "copy">>
      PROVE  /\ K \in Seq(KernelName) /\ Len(K) = 3
             /\ K[1] = "clear" /\ K[2] = "append" /\ K[3] = "copy"
  <2>1. K \in Seq(KernelName)
    BY <1>4 DEF KernelName
  <2> QED
    BY <1>4, <2>1
<1>5. ASSUME NEW K, K = <<"clear", "append", "masks", "pool", "copy">>
      PROVE  /\ K \in Seq(KernelName) /\ Len(K) = 5
             /\ K[1] = "clear" /\ K[2] = "append" /\ K[3] = "masks" /\ K[4] = "pool"
             /\ K[5] = "copy"
  <2>1. K \in Seq(KernelName)
    BY <1>5 DEF KernelName
  <2> QED
    BY <1>5, <2>1
<1>6. ASSUME NEW K, K = <<"nms", "clear", "histogram", "cutoff",
                          "append", "sample", "norm", "copy">>
      PROVE  /\ K \in Seq(KernelName) /\ Len(K) = 8
             /\ K[1] = "nms" /\ K[2] = "clear" /\ K[3] = "histogram" /\ K[4] = "cutoff"
             /\ K[5] = "append" /\ K[6] = "sample" /\ K[7] = "norm" /\ K[8] = "copy"
  <2>1. K \in Seq(KernelName)
    BY <1>6 DEF KernelName
  <2>2. Len(K) = 8 /\ K[1] = "nms" /\ K[2] = "clear" /\ K[3] = "histogram" /\ K[4] = "cutoff"
    BY <1>6
  <2>3. K[5] = "append" /\ K[6] = "sample" /\ K[7] = "norm" /\ K[8] = "copy"
    BY <1>6
  <2> QED
    BY <2>1, <2>2, <2>3
<1> QED
    BY <1>1, <1>2, <1>3, <1>4, <1>5, <1>6, Zenon

(* The kernels from number n + 1 on.                                       *)
LEMMA Later ==
    ASSUME NEW n \in Nat, NEW K, NEW k
    PROVE  /\ (\E i \in n + 1 .. 3 : K[i] = k) <=>
                 \/ (n < 1 /\ K[1] = k) \/ (n < 2 /\ K[2] = k) \/ (n < 3 /\ K[3] = k)
           /\ (\E i \in n + 1 .. 5 : K[i] = k) <=>
                 \/ (n < 1 /\ K[1] = k) \/ (n < 2 /\ K[2] = k) \/ (n < 3 /\ K[3] = k)
                 \/ (n < 4 /\ K[4] = k) \/ (n < 5 /\ K[5] = k)
           /\ (\E i \in n + 1 .. 8 : K[i] = k) <=>
                 \/ (n < 1 /\ K[1] = k) \/ (n < 2 /\ K[2] = k) \/ (n < 3 /\ K[3] = k)
                 \/ (n < 4 /\ K[4] = k) \/ (n < 5 /\ K[5] = k) \/ (n < 6 /\ K[6] = k)
                 \/ (n < 7 /\ K[7] = k) \/ (n < 8 /\ K[8] = k)
<1>1. /\ \A i : i \in n + 1 .. 3 <=> i \in {1, 2, 3} /\ n < i
      /\ \A i : i \in n + 1 .. 5 <=> i \in {1, 2, 3, 4, 5} /\ n < i
      /\ \A i : i \in n + 1 .. 8 <=> i \in {1, 2, 3, 4, 5, 6, 7, 8} /\ n < i
    OBVIOUS
<1> QED
    BY <1>1

(* What is left when n kernels have run, for each kind of submit.          *)
After(n, k) ==
    CASE crate = "detr" -> \/ (n < 1 /\ k = "clear") \/ (n < 2 /\ k = "append")
                           \/ (n < 3 /\ k = "copy")
      [] crate = "seg" -> \/ (n < 1 /\ k = "clear") \/ (n < 2 /\ k = "append")
                          \/ (n < 3 /\ k = "masks") \/ (n < 4 /\ k = "pool")
                          \/ (n < 5 /\ k = "copy")
      [] crate = "xfeat" -> \/ (n < 1 /\ k = "nms") \/ (n < 2 /\ k = "clear")
                            \/ (n < 3 /\ k = "histogram") \/ (n < 4 /\ k = "cutoff")
                            \/ (n < 5 /\ k = "append") \/ (n < 6 /\ k = "sample")
                            \/ (n < 7 /\ k = "norm") \/ (n < 8 /\ k = "copy")

LEMMA AfterIsLater ==
    ASSUME NEW n \in Nat, crate \in {"detr", "seg", "xfeat"}, NEW k
    PROVE  /\ (\E i \in n + 1 .. Len(Kernels(crate)) : Kernels(crate)[i] = k) <=> After(n, k)
           /\ Kernels(crate) \in Seq(KernelName) /\ Len(Kernels(crate)) \in Nat
<1> DEFINE K == Kernels(crate)
<1>1. CASE crate = "detr"
  <2>1. /\ Len(K) = 3 /\ K \in Seq(KernelName)
        /\ K[1] = "clear" /\ K[2] = "append" /\ K[3] = "copy"
    BY <1>1, Order, Zenon
  <2> HIDE DEF K
  <2>2. (\E i \in n + 1 .. Len(K) : K[i] = k) <=> After(n, k)
    BY <1>1, <2>1, Later DEF After
  <2> QED
    BY <2>1, <2>2 DEF K
<1>2. CASE crate = "seg"
  <2>1. /\ Len(K) = 5 /\ K \in Seq(KernelName)
        /\ K[1] = "clear" /\ K[2] = "append" /\ K[3] = "masks" /\ K[4] = "pool"
        /\ K[5] = "copy"
    BY <1>2, Order, Zenon
  <2> HIDE DEF K
  <2>2. (\E i \in n + 1 .. Len(K) : K[i] = k) <=> After(n, k)
    BY <1>2, <2>1, Later DEF After
  <2> QED
    BY <2>1, <2>2 DEF K
<1>3. CASE crate = "xfeat"
  <2>1. /\ Len(K) = 8 /\ K \in Seq(KernelName)
        /\ K[1] = "nms" /\ K[2] = "clear" /\ K[3] = "histogram" /\ K[4] = "cutoff"
        /\ K[5] = "append" /\ K[6] = "sample" /\ K[7] = "norm" /\ K[8] = "copy"
    BY <1>3, Order, Zenon
  <2> HIDE DEF K
  <2>2. (\E i \in n + 1 .. Len(K) : K[i] = k) <=> After(n, k)
    BY <1>3, <2>1, Later DEF After
  <2> QED
    BY <2>1, <2>2 DEF K
<1> QED
    BY <1>1, <1>2, <1>3

LEMMA LeftAt ==
    ASSUME NEW n, StageAt(n), crate \in {"detr", "seg", "xfeat"}, NEW k
    PROVE  Left(k) <=> After(n, k)
<1> DEFINE K == Kernels(crate)
<1>1. Len(K) \in Nat /\ n \in Nat
    BY AfterIsLater DEF StageAt
<1>2. ASSUME Left(k) PROVE \E i \in n + 1 .. Len(K) : K[i] = k
  <2>1. PICK i \in 1 .. Len(stage) : stage[i] = k
    BY <1>2 DEF Left
  <2>2. n + i \in n + 1 .. Len(K) /\ K[n + i] = k
    BY <1>1, <2>1 DEF StageAt
  <2> QED
    BY <2>2
<1>3. ASSUME NEW i \in n + 1 .. Len(K), K[i] = k
      PROVE  Left(k)
  <2>1. i - n \in 1 .. Len(stage) /\ n + (i - n) = i
    BY <1>1 DEF StageAt
  <2>2. stage[i - n] = k
    BY <1>3, <2>1 DEF StageAt
  <2> QED
    BY <2>1, <2>2 DEF Left
<1>4. (\E i \in n + 1 .. Len(K) : K[i] = k) <=> After(n, k)
    BY <1>1, AfterIsLater
<1> QED
    BY <1>2, <1>3, <1>4

(* The kernels are in order: whatever is before append in a submit is done *)
(* by then, whatever fills a row comes after it.                           *)
LEMMA InOrder ==
    ASSUME StageOK
    PROVE  /\ Early => Left("append")
           /\ Left("clear") => Early
           /\ Left("append") => /\ crate = "seg" => Left("masks") /\ Left("pool")
                                /\ crate = "xfeat" => Left("sample")
                                /\ Left("copy")
           /\ Left("masks") => Left("pool")
<1>1. PICK n \in Nat : StageAt(n)
    BY DEF StageOK
<1>2. \A k : Left(k) <=> After(n, k)
    BY <1>1, LeftAt DEF StageOK
<1>3. CASE crate = "detr"
    BY <1>2, <1>3 DEF Early, After
<1>4. CASE crate = "seg"
    BY <1>2, <1>4 DEF Early, After
<1>5. CASE crate = "xfeat"
    BY <1>2, <1>5 DEF Early, After
<1> QED
    BY <1>3, <1>4, <1>5 DEF StageOK

LEMMA Launched ==
    ASSUME StageOK, NEW k, Launch(k)
    PROVE  /\ StageOK'
           /\ \A x : Left(x)' <=> Left(x) /\ x # k
           /\ k \in {"nms", "clear", "histogram", "cutoff"} => Early
           /\ k \in {"append", "masks", "pool", "sample", "norm", "copy"} => ~Early
           /\ k \in {"masks", "pool", "sample", "norm", "copy"} => ~Left("append")
           /\ k \in {"pool", "copy"} => ~Left("masks")
           /\ k \in {"masks", "pool"} => crate = "seg"
           /\ k = "sample" => crate = "xfeat"
           /\ k = "append" => Left("append")
           /\ UNCHANGED <<crate, in, pc, slot>>
<1>1. PICK n \in Nat : StageAt(n)
    BY DEF StageOK
<1> DEFINE K == Kernels(crate)
<1>2. /\ K \in Seq(KernelName) /\ Len(K) \in Nat /\ crate \in {"detr", "seg", "xfeat"}
      /\ UNCHANGED <<crate, in, pc, slot>>
    BY AfterIsLater DEF StageOK, Launch
<1>3. /\ stage \in Seq(KernelName) /\ stage # <<>> /\ Head(stage) = k
      /\ stage' = Tail(stage)
      /\ Len(stage) = Len(K) - n /\ n \in 0 .. Len(K)
      /\ \A i \in 1 .. Len(stage) : stage[i] = K[n + i]
    BY <1>1 DEF Launch, StageAt
<1>4. /\ Len(stage) \in Nat /\ Len(stage) >= 1 /\ Head(stage) = stage[1]
      /\ stage' \in Seq(KernelName) /\ Len(stage') = Len(stage) - 1
      /\ \A i \in 1 .. Len(stage) - 1 : stage'[i] = stage[i + 1]
    BY <1>3
<1>5. \A x : Left(x) <=> After(n, x)
    BY <1>1, <1>2, LeftAt
<1> HIDE DEF K
<1>6. StageAt(n + 1)'
  <2>1. /\ n + 1 \in 0 .. Len(K) /\ Len(stage') = Len(K) - (n + 1)
    BY <1>2, <1>3, <1>4
  <2>2. ASSUME NEW i \in 1 .. Len(stage') PROVE stage'[i] = K[(n + 1) + i]
    <3>1. i \in 1 .. Len(stage) - 1 /\ i + 1 \in 1 .. Len(stage)
          /\ n + (i + 1) = (n + 1) + i
      BY <1>3, <1>4
    <3> QED
      BY <1>3, <1>4, <3>1
  <2>3. Kernels(crate)' = K
    BY <1>2 DEF K
  <2> QED
    BY <1>4, <2>1, <2>2, <2>3 DEF StageAt
<1>7. StageOK'
    BY <1>2, <1>6 DEF StageOK
<1>8. ASSUME NEW x PROVE Left(x)' <=> After(n + 1, x)
  <2>1. Left(x)' <=> \E j \in 1 .. Len(stage') : stage'[j] = x
    BY DEF Left
  <2>2. ASSUME NEW j \in 1 .. Len(stage')
        PROVE  (n + 1) + j \in (n + 1) + 1 .. Len(K) /\ stage'[j] = K[(n + 1) + j]
    <3>1. j \in 1 .. Len(stage) - 1 /\ j + 1 \in 1 .. Len(stage)
          /\ n + (j + 1) = (n + 1) + j /\ (n + 1) + j \in (n + 1) + 1 .. Len(K)
      BY <1>3, <1>4
    <3> QED
      BY <1>3, <1>4, <3>1
  <2>3. ASSUME NEW i \in (n + 1) + 1 .. Len(K)
        PROVE  i - (n + 1) \in 1 .. Len(stage') /\ (n + 1) + (i - (n + 1)) = i
    BY <1>2, <1>3, <1>4
  <2>4. (\E i \in (n + 1) + 1 .. Len(K) : K[i] = x) <=> After(n + 1, x)
    BY <1>2, AfterIsLater DEF K
  <2> QED
    BY <2>1, <2>2, <2>3, <2>4
<1>9. k = K[n + 1] /\ n + 1 \in 1 .. Len(K)
    BY <1>2, <1>3, <1>4
<1>10. CASE crate = "detr"
  <2>1. Len(K) = 3 /\ K[1] = "clear" /\ K[2] = "append" /\ K[3] = "copy"
    BY <1>10, Order, Zenon DEF K
  <2>2. \/ (n = 0 /\ k = "clear") \/ (n = 1 /\ k = "append") \/ (n = 2 /\ k = "copy")
    BY <1>9, <2>1
  <2> QED
    BY <1>2, <1>5, <1>7, <1>8, <1>10, <2>2 DEF After, Early
<1>11. CASE crate = "seg"
  <2>1. Len(K) = 5 /\ K[1] = "clear" /\ K[2] = "append" /\ K[3] = "masks"
        /\ K[4] = "pool" /\ K[5] = "copy"
    BY <1>11, Order, Zenon DEF K
  <2>2. \/ (n = 0 /\ k = "clear") \/ (n = 1 /\ k = "append") \/ (n = 2 /\ k = "masks")
        \/ (n = 3 /\ k = "pool") \/ (n = 4 /\ k = "copy")
    BY <1>9, <2>1
  <2> QED
    BY <1>2, <1>5, <1>7, <1>8, <1>11, <2>2 DEF After, Early
<1>12. CASE crate = "xfeat"
  <2>1. Len(K) = 8 /\ K[1] = "nms" /\ K[2] = "clear" /\ K[3] = "histogram"
        /\ K[4] = "cutoff" /\ K[5] = "append" /\ K[6] = "sample" /\ K[7] = "norm"
        /\ K[8] = "copy"
    BY <1>12, Order, Zenon DEF K
  <2>2. \/ (n = 0 /\ k = "nms") \/ (n = 1 /\ k = "clear") \/ (n = 2 /\ k = "histogram")
        \/ (n = 3 /\ k = "cutoff") \/ (n = 4 /\ k = "append") \/ (n = 5 /\ k = "sample")
        \/ (n = 6 /\ k = "norm") \/ (n = 7 /\ k = "copy")
    BY <1>9, <2>1
  <2> QED
    BY <1>2, <1>5, <1>7, <1>8, <1>12, <2>2 DEF After, Early
<1> QED
    BY <1>2, <1>10, <1>11, <1>12
-----------------------------------------------------------------------------
(* The invariant of the packing.                                           *)
Taken(b, l) == pc[<<b, l>>] # "ready"

PackingTypes ==
    /\ pc \in [Threads -> {"ready", "reserved", "done"}]
    /\ slot \in [Threads -> Int]
    /\ count \in [Batch -> Nat]
    /\ pin \in [Batch -> Nat]
    /\ rows \in [Batch -> [Columns -> [0 .. Cap - 1 -> [of : Int]]]]

\* No thread starts before the kernels the selection reads from are over,
\* and once append is over every survivor has written its row.
InTheirTurn ==
    \A b \in Batch : \A l \in Lanes :
        /\ Early => ~Taken(b, l)
        /\ Taken(b, l) => Survives(<<b, l>>)
        /\ ~Left("append") /\ Survives(<<b, l>>) => pc[<<b, l>>] = "done"

\* The threads that took a row of an image hold the first count[b] of them,
\* one each: some may lie past the capacity.
OneSlotEach ==
    ~Left("clear") => \A b \in Batch :
        /\ \A l \in Lanes : Taken(b, l) => slot[<<b, l>>] \in 0 .. count[b] - 1
        /\ \A l, m \in Lanes :
               Taken(b, l) /\ Taken(b, m) /\ slot[<<b, l>>] = slot[<<b, m>>] => l = m
        /\ \A s \in 0 .. count[b] - 1 :
               \E l \in Lanes : Taken(b, l) /\ slot[<<b, l>>] = s

\* What row s holds of thread l, as far as the kernels have come.
RowIsOf(b, s, l) ==
    /\ \A c \in Appended : rows[b][c][s] = Of(l)
    /\ (crate = "seg" /\ ~Left("masks")) => rows[b]["masks"][s] = Of(l)
    /\ (crate = "seg" /\ ~Left("pool")) =>
          (rows[b]["feats"][s] = Of(l) \/ (l \in in.empty /\ rows[b]["feats"][s] = Zero))
    /\ (crate = "xfeat" /\ ~Left("sample")) =>
          (rows[b]["descs"][s] = Of(l) /\ rows[b]["kpts_px"][s] = Of(l))

RowsOfTheirThread ==
    \A b \in Batch : \A l \in Lanes : \A s \in 0 .. Cap - 1 :
        (pc[<<b, l>>] = "done" /\ slot[<<b, l>>] = s) => RowIsOf(b, s, l)

Told == ~Left("copy") => pin = count

Packing == /\ StageOK /\ PackingTypes /\ InTheirTurn
           /\ OneSlotEach /\ RowsOfTheirThread /\ Told

-----------------------------------------------------------------------------
LEMMA MinPair ==
    ASSUME NEW a \in Int, NEW b \in Int
    PROVE  Min({a, b}) = IF a <= b THEN a ELSE b
<1> DEFINE m == IF a <= b THEN a ELSE b
<1>1. m \in {a, b} /\ \A y \in {a, b} : m <= y
    OBVIOUS
<1>2. ASSUME NEW x \in {a, b}, \A y \in {a, b} : x <= y
      PROVE  x = m
    BY <1>2
<1> QED
    BY <1>1, <1>2 DEF Min

LEMMA Sizes ==
    ASSUME crate \in {"detr", "seg", "xfeat"}
    PROVE  /\ Cap \in Nat
           /\ IsFiniteSet(Lanes) /\ \A l \in Lanes : l \in Nat
<1>1. /\ W \in Nat /\ H \in Nat /\ TopK \in Nat /\ IsFiniteSet(Queries)
      /\ Queries = 0 .. Cardinality(Queries) - 1
    BY SizesAssumption
<1>2. Cardinality(Queries) \in Nat
    BY <1>1, FS_CardinalityType
<1>3. CASE crate = "xfeat"
  <2>1. W * H \in Nat
    BY <1>1
  <2>2. IsFiniteSet(0 .. W * H - 1) /\ \A l \in 0 .. W * H - 1 : l \in Nat
    <3> DEFINE n == W * H
    <3> HIDE DEF n
    <3>1. n \in Nat
      BY <2>1 DEF n
    <3>2. IsFiniteSet(0 .. n - 1) /\ \A l \in 0 .. n - 1 : l \in Nat
      BY <3>1, FS_Interval
    <3> QED
      BY <3>2 DEF n
  <2> QED
    BY <1>1, <1>3, <2>2, Zenon DEF Cap, Lanes, Pixels
<1>4. CASE crate # "xfeat"
  <2>1. \A l \in Queries : l \in Nat
    BY <1>1, <1>2
  <2> QED
    BY <1>1, <1>2, <1>4, <2>1 DEF Cap, Lanes
<1> QED
    BY <1>3, <1>4

(* What the kernels after append write.                                    *)
LEMMA MasksRow ==
    ASSUME Masks, PackingTypes, crate = "seg"
    PROVE  \A b \in Batch : \A s \in 0 .. Cap - 1 :
               /\ s \in Live(b) => rows'[b]["masks"][s] = rows[b]["qidx"][s]
               /\ \A c \in Columns \ {"masks"} : rows'[b][c][s] = rows[b][c][s]
<1>1. Columns = {"dets", "qidx", "masks", "feats"}
    BY DEF Columns
<1> QED
    BY <1>1 DEF Masks, Refill, PackingTypes

LEMMA PoolRow ==
    ASSUME PoolTokens, PackingTypes, crate = "seg"
    PROVE  \A b \in Batch : \A s \in 0 .. Cap - 1 :
               /\ s \in Live(b) =>
                    rows'[b]["feats"][s] = IF rows[b]["masks"][s].of \in in.empty
                                           THEN Zero ELSE rows[b]["masks"][s]
               /\ \A c \in Columns \ {"feats"} : rows'[b][c][s] = rows[b][c][s]
<1>1. Columns = {"dets", "qidx", "masks", "feats"}
    BY DEF Columns
<1> QED
    BY <1>1 DEF PoolTokens, PackingTypes

LEMMA SampleRow ==
    ASSUME SampleDescs, PackingTypes, crate = "xfeat"
    PROVE  \A b \in Batch : \A s \in 0 .. Cap - 1 :
               /\ s \in Live(b) => /\ rows'[b]["descs"][s] = rows[b]["kpts"][s]
                                   /\ rows'[b]["kpts_px"][s] = rows[b]["kpts"][s]
               /\ \A c \in Columns \ {"descs", "kpts_px"} : rows'[b][c][s] = rows[b][c][s]
<1>1. Columns = {"kpts", "scores", "kpts_px", "descs"}
    BY DEF Columns
<1> QED
    BY <1>1 DEF SampleDescs, Refill, PackingTypes

LEMMA FrameOf ==
    ASSUME UNCHANGED <<crate, in>>
    PROVE  /\ Batch' = Batch /\ Lanes' = Lanes /\ Threads' = Threads
           /\ Columns' = Columns /\ Cap' = Cap /\ Appended' = Appended
BY DEF Batch, Lanes, Threads, Columns, Cap, Appended, Pixels

(* Every step keeps the state in its types.                                *)
LEMMA TypesKept ==
    ASSUME StageOK, PackingTypes, SurvivorsNext
    PROVE  PackingTypes'
<1> USE DEF PackingTypes
<1>0. UNCHANGED <<crate, in>>
    BY DEF SurvivorsNext, ScoreNms, ClearScratch, Histogram, Cutoff, Reserve, WriteRow,
           AppendDone, Masks, PoolTokens, SampleDescs, L2Norm, CopyCount, Launch
<1> DEFINE B == Batch
           T == Threads
           L == Columns
           N == Cap
<1>1. B' = B /\ T' = T /\ L' = L /\ N' = N
    BY <1>0, FrameOf, Zenon
<1>2. N \in Nat /\ \A l \in Lanes : l \in Int
    BY Sizes DEF StageOK
<1>3. CASE ScoreNms \/ Histogram \/ Cutoff \/ AppendDone \/ L2Norm
    BY <1>1, <1>3 DEF ScoreNms, Histogram, Cutoff, AppendDone, L2Norm, Launch
<1>4. CASE ClearScratch
    BY <1>1, <1>4 DEF ClearScratch, Launch
<1>5. ASSUME NEW t \in Threads, Reserve(t)
      PROVE  PackingTypes'
  <2>1. t[1] \in Batch
    BY DEF Threads
  <2> QED
    BY <1>1, <1>5, <2>1 DEF Reserve
<1>6. ASSUME NEW t \in Threads, WriteRow(t)
      PROVE  PackingTypes'
  <2>1. t[1] \in Batch /\ t[2] \in Lanes
    BY DEF Threads
  <2>2. Of(t[2]) \in [of : Int]
    BY <1>2, <2>1 DEF Of
  <2>3. rows' \in [B -> [L -> [0 .. N - 1 -> [of : Int]]]]
    BY <1>6, <2>1, <2>2 DEF WriteRow
  <2> QED
    BY <1>1, <1>6, <2>3 DEF WriteRow
<1>7. CASE Masks
  <2>0. crate = "seg"
    BY <1>7, Launched DEF Masks
  <2>1. L = {"dets", "qidx", "masks", "feats"}
    BY <2>0 DEF Columns
  <2> DEFINE R == [0 .. N - 1 -> [of : Int]]
  <2>2. ASSUME NEW b \in B PROVE rows'[b] \in [L -> R]
    <3>1. rows[b] \in [L -> R] /\ \A c \in L : rows[b][c] \in R
      OBVIOUS
    <3> DEFINE cell == [k \in 0 .. N - 1 |->
                        IF k \in Live(b) THEN rows[b].qidx[k] ELSE rows[b]["masks"][k]]
    <3>2. cell \in R
      BY <2>1, <3>1
    <3>3. rows'[b] = [rows[b] EXCEPT !["masks"] = cell]
      BY <1>7 DEF Masks, Refill
    <3> HIDE DEF cell
    <3> QED
      BY <2>1, <3>1, <3>2, <3>3
  <2>3. rows' = [b \in B |-> rows'[b]]
    BY <1>7 DEF Masks
  <2>4. rows' \in [B -> [L -> R]]
    BY <2>2, <2>3
  <2> QED
    BY <1>1, <1>7, <2>4 DEF Masks, Launch
<1>8. CASE PoolTokens
  <2>0. crate = "seg"
    BY <1>8, Launched DEF PoolTokens
  <2>1. L = {"dets", "qidx", "masks", "feats"} /\ Zero \in [of : Int]
    BY <2>0 DEF Columns, Zero
  <2> DEFINE R == [0 .. N - 1 -> [of : Int]]
  <2>2. ASSUME NEW b \in B PROVE rows'[b] \in [L -> R]
    <3>1. rows[b] \in [L -> R] /\ \A c \in L : rows[b][c] \in R
      OBVIOUS
    <3> DEFINE cell == [k \in 0 .. N - 1 |->
                        IF k \in Live(b) /\ rows[b].masks[k].of \notin in.empty
                        THEN rows[b].masks[k] ELSE Zero]
    <3>2. cell \in R
      BY <2>1, <3>1
    <3>3. rows'[b] = [rows[b] EXCEPT !["feats"] = cell]
      BY <1>8 DEF PoolTokens
    <3> HIDE DEF cell
    <3> QED
      BY <2>1, <3>1, <3>2, <3>3
  <2>3. rows' = [b \in B |-> rows'[b]]
    BY <1>8 DEF PoolTokens
  <2>4. rows' \in [B -> [L -> R]]
    BY <2>2, <2>3
  <2> QED
    BY <1>1, <1>8, <2>4 DEF PoolTokens, Launch
<1>9. CASE SampleDescs
  <2>0. crate = "xfeat"
    BY <1>9, Launched DEF SampleDescs
  <2>1. L = {"kpts", "scores", "kpts_px", "descs"}
    BY <2>0 DEF Columns
  <2> DEFINE R == [0 .. N - 1 -> [of : Int]]
  <2>2. ASSUME NEW b \in B PROVE rows'[b] \in [L -> R]
    <3>1. rows[b] \in [L -> R] /\ \A c \in L : rows[b][c] \in R
      OBVIOUS
    <3> DEFINE desc == [k \in 0 .. N - 1 |->
                        IF k \in Live(b) THEN rows[b].kpts[k] ELSE rows[b]["descs"][k]]
               place == [k \in 0 .. N - 1 |->
                        IF k \in Live(b) THEN rows[b].kpts[k] ELSE rows[b]["kpts_px"][k]]
    <3>2. desc \in R /\ place \in R
      BY <2>1, <3>1
    <3>3. rows'[b] = [[rows[b] EXCEPT !["descs"] = desc] EXCEPT !["kpts_px"] = place]
      BY <1>9 DEF SampleDescs, Refill
    <3> HIDE DEF desc, place
    <3> QED
      BY <2>1, <3>1, <3>2, <3>3
  <2>3. rows' = [b \in B |-> rows'[b]]
    BY <1>9 DEF SampleDescs
  <2>4. rows' \in [B -> [L -> R]]
    BY <2>2, <2>3
  <2> QED
    BY <1>1, <1>9, <2>4 DEF SampleDescs, Launch
<1>10. CASE CopyCount
    BY <1>1, <1>10 DEF CopyCount, Launch
<1> QED
    BY <1>3, <1>4, <1>5, <1>6, <1>7, <1>8, <1>9, <1>10 DEF SurvivorsNext
-----------------------------------------------------------------------------
(* A thread of the append kernel runs between the kernels before and after *)
(* it.                                                                     *)
LEMMA Between ==
    ASSUME StageOK, Appending
    PROVE  Left("append") /\ ~Early
<1>1. PICK n \in Nat : StageAt(n)
    BY DEF StageOK
<1> DEFINE K == Kernels(crate)
<1>2. /\ K \in Seq(KernelName) /\ Len(K) \in Nat /\ crate \in {"detr", "seg", "xfeat"}
    BY AfterIsLater DEF StageOK
<1>3. /\ stage \in Seq(KernelName) /\ stage # <<>> /\ Head(stage) = "append"
      /\ Len(stage) = Len(K) - n /\ n \in 0 .. Len(K)
      /\ \A i \in 1 .. Len(stage) : stage[i] = K[n + i]
    BY <1>1 DEF Appending, StageAt
<1>4. Len(stage) \in Nat /\ Len(stage) >= 1 /\ Head(stage) = stage[1]
    BY <1>3
<1>5. \A x : Left(x) <=> After(n, x)
    BY <1>1, <1>2, LeftAt
<1> HIDE DEF K
<1>6. K[n + 1] = "append" /\ n + 1 \in 1 .. Len(K)
    BY <1>2, <1>3, <1>4
<1>7. CASE crate = "detr"
  <2>1. Len(K) = 3 /\ K[1] = "clear" /\ K[2] = "append" /\ K[3] = "copy"
    BY <1>7, Order, Zenon DEF K
  <2>2. n = 1
    BY <1>6, <2>1
  <2> QED
    BY <1>5, <1>7, <2>2 DEF After, Early
<1>8. CASE crate = "seg"
  <2>1. Len(K) = 5 /\ K[1] = "clear" /\ K[2] = "append" /\ K[3] = "masks"
        /\ K[4] = "pool" /\ K[5] = "copy"
    BY <1>8, Order, Zenon DEF K
  <2>2. n = 1
    BY <1>6, <2>1
  <2> QED
    BY <1>5, <1>8, <2>2 DEF After, Early
<1>9. CASE crate = "xfeat"
  <2>1. Len(K) = 8 /\ K[1] = "nms" /\ K[2] = "clear" /\ K[3] = "histogram"
        /\ K[4] = "cutoff" /\ K[5] = "append" /\ K[6] = "sample" /\ K[7] = "norm"
        /\ K[8] = "copy"
    BY <1>9, Order, Zenon DEF K
  <2>2. n = 4
    BY <1>6, <2>1
  <2> QED
    BY <1>5, <1>9, <2>2 DEF After, Early
<1> QED
    BY <1>2, <1>7, <1>8, <1>9

LEMMA StageSame ==
    ASSUME StageOK, UNCHANGED <<crate, stage>>
    PROVE  StageOK' /\ (\A x : Left(x)' <=> Left(x)) /\ (Early' <=> Early)
BY DEF StageOK, StageAt, Left, Early, Kernels

(* The kernels by what they may do: those before append choose, those after *)
(* it fill rows.                                                            *)
Choosing == ScoreNms \/ ClearScratch \/ Histogram \/ Cutoff
Filling  == Masks \/ PoolTokens \/ SampleDescs \/ L2Norm \/ CopyCount

LEMMA ChoosingStep ==
    ASSUME StageOK, Choosing
    PROVE  /\ StageOK' /\ Early /\ Left("append")' /\ Left("copy")'
           /\ UNCHANGED <<crate, in, pc, slot, rows, pin>>
           /\ (count' = count /\ (~Left("clear")' => ~Left("clear")))
                \/ count' = [b \in Batch |-> 0]
<1>1. CASE ScoreNms
    BY <1>1, Launched, InOrder DEF ScoreNms
<1>2. CASE ClearScratch
    BY <1>2, Launched, InOrder DEF ClearScratch
<1>3. CASE Histogram
    BY <1>3, Launched, InOrder DEF Histogram
<1>4. CASE Cutoff
    BY <1>4, Launched, InOrder DEF Cutoff
<1> QED
    BY <1>1, <1>2, <1>3, <1>4 DEF Choosing

LEMMA FillingStep ==
    ASSUME StageOK, Filling
    PROVE  /\ StageOK' /\ ~Early /\ ~Early' /\ ~Left("append") /\ ~Left("append")'
           /\ ~Left("clear") /\ ~Left("clear")'
           /\ UNCHANGED <<crate, in, pc, slot, score, cut, count>>
<1>1. ASSUME NEW k \in {"masks", "pool", "sample", "norm", "copy"}, Launch(k)
      PROVE  /\ StageOK' /\ ~Early /\ ~Early' /\ ~Left("append") /\ ~Left("append")'
             /\ ~Left("clear") /\ ~Left("clear")'
             /\ UNCHANGED <<crate, in, pc, slot>>
    BY <1>1, Launched, InOrder DEF Early
<1>2. CASE Masks
    BY <1>1, <1>2 DEF Masks
<1>3. CASE PoolTokens
    BY <1>1, <1>3 DEF PoolTokens
<1>4. CASE SampleDescs
    BY <1>1, <1>4 DEF SampleDescs
<1>5. CASE L2Norm
    BY <1>1, <1>5 DEF L2Norm
<1>6. CASE CopyCount
    BY <1>1, <1>6 DEF CopyCount
<1> QED
    BY <1>2, <1>3, <1>4, <1>5, <1>6 DEF Filling

LEMMA AppendDoneStep ==
    ASSUME StageOK, AppendDone
    PROVE  /\ StageOK' /\ ~Early /\ ~Early' /\ Left("append") /\ ~Left("append")'
           /\ ~Left("clear") /\ ~Left("clear")' /\ Left("copy")'
           /\ crate = "seg" => Left("masks")' /\ Left("pool")'
           /\ crate = "xfeat" => Left("sample")'
           /\ UNCHANGED <<crate, in, pc, slot, score, cut, count, rows, pin>>
BY Launched, InOrder DEF AppendDone, Early

LEMMA ThreadStep ==
    ASSUME StageOK, NEW t \in Threads, Reserve(t) \/ WriteRow(t)
    PROVE  /\ StageOK' /\ (\A x : Left(x)' <=> Left(x)) /\ (Early' <=> Early)
           /\ UNCHANGED <<crate, in, score, cut, pin>>
BY StageSame DEF Reserve, WriteRow

LEMMA StepIs ==
    ASSUME SurvivorsNext
    PROVE  \/ Choosing \/ Filling \/ AppendDone
           \/ \E t \in Threads : Reserve(t)
           \/ \E t \in Threads : WriteRow(t)
BY DEF SurvivorsNext, Choosing, Filling

(* The selection is fixed once the kernels that make it are over.          *)
LEMMA SelectionKept ==
    ASSUME UNCHANGED <<crate, in, score, cut>>
    PROVE  \A b, l : Survives(<<b, l>>)' <=> Survives(<<b, l>>)
BY DEF Survives, Selected, Detected, BestClass, Greater
-----------------------------------------------------------------------------
(* What a thread's own step does to the threads, the slots and the rows.   *)
LEMMA Reserved ==
    ASSUME StageOK, PackingTypes, NEW i \in Batch, NEW l \in Lanes, Reserve(<<i, l>>)
    PROVE  /\ pc[<<i, l>>] = "ready" /\ pc'[<<i, l>>] = "reserved" /\ Survives(<<i, l>>)
           /\ slot'[<<i, l>>] = count[i]
           /\ count'[i] = count[i] + 1
           /\ \A b \in Batch : b # i => count'[b] = count[b]
           /\ \A b \in Batch : \A m \in Lanes :
                (b # i \/ m # l) => /\ pc'[<<b, m>>] = pc[<<b, m>>]
                                       /\ slot'[<<b, m>>] = slot[<<b, m>>]
           /\ Left("append") /\ ~Early /\ UNCHANGED rows
<1>1. <<i, l>> \in Threads /\ <<i, l>>[1] = i
    BY DEF Threads
<1>2. \A b \in Batch : \A m \in Lanes : <<b, m>> \in Threads
    BY DEF Threads
<1>3. Left("append") /\ ~Early
    BY Between DEF Reserve
<1> QED
    BY <1>1, <1>2, <1>3 DEF Reserve, PackingTypes

LEMMA Written ==
    ASSUME StageOK, PackingTypes, InTheirTurn, NEW i \in Batch, NEW l \in Lanes,
           WriteRow(<<i, l>>)
    PROVE  /\ pc[<<i, l>>] = "reserved" /\ pc'[<<i, l>>] = "done" /\ Survives(<<i, l>>)
           /\ UNCHANGED <<slot, count>>
           /\ \A b \in Batch : \A m \in Lanes :
                (b # i \/ m # l) => pc'[<<b, m>>] = pc[<<b, m>>]
           /\ Left("append") /\ ~Early
<1>1. <<i, l>> \in Threads /\ <<i, l>>[1] = i
    BY DEF Threads
<1>2. \A b \in Batch : \A m \in Lanes : <<b, m>> \in Threads
    BY DEF Threads
<1>3. pc[<<i, l>>] = "reserved"
    BY DEF WriteRow
<1>4. Left("append") /\ ~Early /\ Survives(<<i, l>>)
    BY <1>3 DEF InTheirTurn, Taken
<1> QED
    BY <1>1, <1>2, <1>3, <1>4 DEF WriteRow, PackingTypes

(* What it writes in its row, and that it writes nowhere else.             *)
LEMMA WrittenRow ==
    ASSUME StageOK, PackingTypes, NEW i \in Batch, NEW l \in Lanes, WriteRow(<<i, l>>)
    PROVE  /\ \A b \in Batch : \A c \in Columns : \A s \in 0 .. Cap - 1 :
             (b # i \/ s # slot[<<i, l>>]) => rows'[b][c][s] = rows[b][c][s]
           /\ slot[<<i, l>>] \in 0 .. Cap - 1 =>
                \A c \in Appended : rows'[i][c][slot[<<i, l>>]] = Of(l)
<1>1. <<i, l>>[1] = i /\ <<i, l>>[2] = l /\ <<i, l>> \in Threads
    BY DEF Threads
<1>2. \A c \in Appended : c \in Columns
    BY DEF Appended, Columns, StageOK
<1> DEFINE s == slot[<<i, l>>]
<1>3. s \in Int /\ Cap \in Nat
    BY <1>1, Sizes DEF PackingTypes, StageOK
<1> HIDE DEF s
<1>4. rows' = IF s >= Cap THEN rows
              ELSE [rows EXCEPT ![i] = [c \in Columns |->
                        IF c \in Appended THEN [rows[i][c] EXCEPT ![s] = Of(l)]
                        ELSE rows[i][c]]]
    BY <1>1, Zenon DEF WriteRow, s
<1>5. ASSUME s >= Cap
      PROVE  /\ \A b \in Batch : \A c \in Columns : \A k \in 0 .. Cap - 1 :
                   (b # i \/ k # s) => rows'[b][c][k] = rows[b][c][k]
             /\ s \in 0 .. Cap - 1 => \A c \in Appended : rows'[i][c][s] = Of(l)
    BY <1>3, <1>4, <1>5
<1>6. ASSUME ~(s >= Cap)
      PROVE  /\ \A b \in Batch : \A c \in Columns : \A k \in 0 .. Cap - 1 :
                   (b # i \/ k # s) => rows'[b][c][k] = rows[b][c][k]
             /\ s \in 0 .. Cap - 1 => \A c \in Appended : rows'[i][c][s] = Of(l)
  <2>1. rows' = [rows EXCEPT ![i] = [c \in Columns |->
                        IF c \in Appended THEN [rows[i][c] EXCEPT ![s] = Of(l)]
                        ELSE rows[i][c]]]
    BY <1>4, <1>6
  <2>2. \A b \in Batch : b # i => rows'[b] = rows[b]
    BY <2>1 DEF PackingTypes
  <2>3. rows'[i] = [c \in Columns |-> IF c \in Appended THEN [rows[i][c] EXCEPT ![s] = Of(l)]
                                      ELSE rows[i][c]]
    BY <2>1 DEF PackingTypes
  <2>4. ASSUME NEW c \in Columns, NEW k \in 0 .. Cap - 1
        PROVE  rows'[i][c][k] = IF c \in Appended /\ k = s THEN Of(l) ELSE rows[i][c][k]
    <3>1. rows[i][c] \in [0 .. Cap - 1 -> [of : Int]]
      BY DEF PackingTypes
    <3> QED
      BY <2>3, <3>1
  <2> QED
    BY <1>2, <1>3, <1>6, <2>2, <2>4
<1>7. /\ \A b \in Batch : \A c \in Columns : \A k \in 0 .. Cap - 1 :
            (b # i \/ k # s) => rows'[b][c][k] = rows[b][c][k]
      /\ s \in 0 .. Cap - 1 => \A c \in Appended : rows'[i][c][s] = Of(l)
    BY <1>5, <1>6
<1> QED
    BY <1>7 DEF s

LEMMA TurnKept ==
    ASSUME StageOK, PackingTypes, InTheirTurn, SurvivorsNext
    PROVE  InTheirTurn'
<1>1. CASE Choosing
  <2>1. Batch' = Batch /\ Lanes' = Lanes
    BY <1>1, ChoosingStep, FrameOf
  <2>2. \A b \in Batch : \A l \in Lanes : ~Taken(b, l)'
    <3>1. Early /\ pc' = pc
      BY <1>1, ChoosingStep
    <3>2. \A b \in Batch : \A l \in Lanes : ~Taken(b, l)
      BY <3>1 DEF InTheirTurn
    <3> QED
      BY <3>1, <3>2 DEF Taken
  <2> QED
    BY <1>1, <2>1, <2>2, ChoosingStep DEF InTheirTurn
<1>2. CASE Filling
  <2>1. Batch' = Batch /\ Lanes' = Lanes /\ ~Left("append") /\ ~Early' /\ UNCHANGED pc
    BY <1>2, FillingStep, FrameOf
  <2>2. \A b, l : Survives(<<b, l>>)' <=> Survives(<<b, l>>)
    BY <1>2, FillingStep, SelectionKept
  <2> QED
    BY <2>1, <2>2 DEF InTheirTurn, Taken
<1>3. CASE AppendDone
  <2>1. Batch' = Batch /\ Lanes' = Lanes /\ ~Early' /\ UNCHANGED pc
    BY <1>3, AppendDoneStep, FrameOf
  <2>2. \A b, l : Survives(<<b, l>>)' <=> Survives(<<b, l>>)
    BY <1>3, AppendDoneStep, SelectionKept
  <2>3. \A b \in Batch : \A l \in Lanes : Survives(<<b, l>>) => pc[<<b, l>>] = "done"
    BY <1>3 DEF AppendDone, Threads
  <2> QED
    BY <2>1, <2>2, <2>3 DEF InTheirTurn, Taken
<1>4. ASSUME NEW i \in Batch, NEW l \in Lanes, Reserve(<<i, l>>) \/ WriteRow(<<i, l>>)
      PROVE  InTheirTurn'
  <2>0. <<i, l>> \in Threads
    BY DEF Threads
  <2>1. /\ Batch' = Batch /\ Lanes' = Lanes /\ (\A x : Left(x)' <=> Left(x)) /\ (Early' <=> Early)
        /\ \A b, m : Survives(<<b, m>>)' <=> Survives(<<b, m>>)
    BY <1>4, <2>0, ThreadStep, FrameOf, SelectionKept
  <2>2. /\ Left("append") /\ ~Early /\ Survives(<<i, l>>)
        /\ \A b \in Batch : \A m \in Lanes :
             (b # i \/ m # l) => pc'[<<b, m>>] = pc[<<b, m>>]
    <3>1. CASE Reserve(<<i, l>>)
      <4>1. /\ Survives(<<i, l>>) /\ Left("append") /\ ~Early
            /\ \A b \in Batch : \A m \in Lanes :
                 (b # i \/ m # l) => /\ pc'[<<b, m>>] = pc[<<b, m>>]
                                    /\ slot'[<<b, m>>] = slot[<<b, m>>]
        BY <3>1, Reserved, Zenon
      <4> QED
        BY <4>1
    <3>2. CASE WriteRow(<<i, l>>)
      BY <3>2, Written
    <3> QED
      BY <1>4, <3>1, <3>2
  <2> QED
    BY <2>1, <2>2 DEF InTheirTurn, Taken
<1> QED
    BY <1>1, <1>2, <1>3, <1>4, StepIs DEF Threads

LEMMA SlotsKept ==
    ASSUME StageOK, PackingTypes, InTheirTurn, OneSlotEach, SurvivorsNext
    PROVE  OneSlotEach'
<1>1. CASE Choosing
  <2>1. Batch' = Batch /\ Lanes' = Lanes /\ UNCHANGED <<pc, slot>>
    BY <1>1, ChoosingStep, FrameOf
  <2>2. \A b \in Batch : \A l \in Lanes : ~Taken(b, l)'
    <3>1. Early /\ pc' = pc
      BY <1>1, ChoosingStep
    <3>2. \A b \in Batch : \A l \in Lanes : ~Taken(b, l)
      BY <3>1 DEF InTheirTurn
    <3> QED
      BY <3>1, <3>2 DEF Taken
  <2>3. CASE count' = [b \in Batch |-> 0]
    BY <2>1, <2>2, <2>3 DEF OneSlotEach
  <2>4. CASE count' = count /\ (~Left("clear")' => ~Left("clear"))
    BY <2>1, <2>4 DEF OneSlotEach, Taken
  <2> QED
    BY <1>1, <2>3, <2>4, ChoosingStep
<1>2. CASE Filling \/ AppendDone
  <2>1. Batch' = Batch /\ Lanes' = Lanes /\ ~Left("clear") /\ UNCHANGED <<pc, slot, count>>
    BY <1>2, FillingStep, AppendDoneStep, FrameOf
  <2> QED
    BY <2>1 DEF OneSlotEach, Taken
<1>3. ASSUME NEW i \in Batch, NEW l \in Lanes, Reserve(<<i, l>>)
      PROVE  OneSlotEach'
  <2>0. <<i, l>> \in Threads
    BY DEF Threads
  <2>1. Batch' = Batch /\ Lanes' = Lanes /\ (\A x : Left(x)' <=> Left(x))
    BY <1>3, <2>0, ThreadStep, FrameOf
  <2>2. ~Left("clear")
    BY <1>3, Reserved, InOrder
  <2>10. \A b \in Batch : \A m \in Lanes :
           (b # i \/ m # l) => /\ pc'[<<b, m>>] = pc[<<b, m>>]
                              /\ slot'[<<b, m>>] = slot[<<b, m>>]
    BY <1>3, Reserved, Zenon
  <2>3. SUFFICES ASSUME NEW b \in Batch
                 PROVE  /\ \A m \in Lanes : Taken(b, m)' => slot'[<<b, m>>] \in 0 .. count'[b] - 1
                        /\ \A k, m \in Lanes :
                             Taken(b, k)' /\ Taken(b, m)' /\ slot'[<<b, k>>] = slot'[<<b, m>>] => k = m
                        /\ \A s \in 0 .. count'[b] - 1 :
                             \E m \in Lanes : Taken(b, m)' /\ slot'[<<b, m>>] = s
    BY <2>1 DEF OneSlotEach
  <2>4. /\ \A m \in Lanes : Taken(b, m) => slot[<<b, m>>] \in 0 .. count[b] - 1
        /\ \A k, m \in Lanes :
             Taken(b, k) /\ Taken(b, m) /\ slot[<<b, k>>] = slot[<<b, m>>] => k = m
        /\ \A s \in 0 .. count[b] - 1 : \E m \in Lanes : Taken(b, m) /\ slot[<<b, m>>] = s
    BY <2>2 DEF OneSlotEach
  <2>5. count[b] \in Nat
    BY DEF PackingTypes
  <2>6. CASE b # i
    <3>1. count'[b] = count[b]
      BY <1>3, <2>6, Reserved
    <3>2. ASSUME NEW m \in Lanes
          PROVE  (Taken(b, m)' <=> Taken(b, m)) /\ slot'[<<b, m>>] = slot[<<b, m>>]
      <4>1. pc'[<<b, m>>] = pc[<<b, m>>] /\ slot'[<<b, m>>] = slot[<<b, m>>]
        BY <2>10, <2>6
      <4> QED
        BY <4>1 DEF Taken
    <3> QED
      BY <2>4, <3>1, <3>2
  <2>7. CASE b = i
    <3>0. ASSUME NEW m \in Lanes, m # l
          PROVE  (Taken(b, m)' <=> Taken(b, m)) /\ slot'[<<b, m>>] = slot[<<b, m>>]
      <4>1. pc'[<<b, m>>] = pc[<<b, m>>] /\ slot'[<<b, m>>] = slot[<<b, m>>]
        BY <2>10, <2>7, <3>0
      <4> QED
        BY <4>1 DEF Taken
    <3>1. /\ count'[b] = count[b] + 1 /\ ~Taken(b, l) /\ Taken(b, l)' /\ slot'[<<b, l>>] = count[b]
          /\ \A m \in Lanes : m # l => /\ Taken(b, m)' <=> Taken(b, m)
                                       /\ slot'[<<b, m>>] = slot[<<b, m>>]
      <4>1. /\ pc[<<i, l>>] = "ready" /\ pc'[<<i, l>>] = "reserved"
            /\ slot'[<<i, l>>] = count[i] /\ count'[i] = count[i] + 1
        BY <1>3, Reserved
      <4> QED
        BY <2>7, <3>0, <4>1 DEF Taken
    <3>2. \A m \in Lanes : Taken(b, m)' => slot'[<<b, m>>] \in 0 .. count'[b] - 1
      BY <2>4, <2>5, <3>1
    <3>3. \A k, m \in Lanes :
             Taken(b, k)' /\ Taken(b, m)' /\ slot'[<<b, k>>] = slot'[<<b, m>>] => k = m
      BY <2>4, <2>5, <3>1
    <3>4. ASSUME NEW s \in 0 .. count'[b] - 1
          PROVE  \E m \in Lanes : Taken(b, m)' /\ slot'[<<b, m>>] = s
      <4>1. s = count[b] \/ s \in 0 .. count[b] - 1
        BY <2>5, <3>1
      <4> QED
        BY <2>4, <3>1, <4>1
    <3> QED
      BY <3>2, <3>3, <3>4
  <2> QED
    BY <2>6, <2>7
<1>4. ASSUME NEW i \in Batch, NEW l \in Lanes, WriteRow(<<i, l>>)
      PROVE  OneSlotEach'
  <2>0. <<i, l>> \in Threads
    BY DEF Threads
  <2>1. Batch' = Batch /\ Lanes' = Lanes /\ (\A x : Left(x)' <=> Left(x))
    BY <1>4, <2>0, ThreadStep, FrameOf
  <2>2. ~Left("clear")
    BY <1>4, Written, InOrder
  <2>3. UNCHANGED <<slot, count>> /\ \A b \in Batch : \A m \in Lanes : Taken(b, m)' <=> Taken(b, m)
    BY <1>4, Written DEF Taken
  <2> QED
    BY <2>1, <2>2, <2>3 DEF OneSlotEach
<1> QED
    BY <1>1, <1>2, <1>3, <1>4, StepIs DEF Threads

LEMMA ToldKept ==
    ASSUME StageOK, PackingTypes, InTheirTurn, Told, SurvivorsNext
    PROVE  Told'
<1>1. CASE Choosing
    BY <1>1, ChoosingStep DEF Told
<1>2. CASE AppendDone
    BY <1>2, AppendDoneStep DEF Told
<1>3. ASSUME NEW i \in Batch, NEW l \in Lanes, Reserve(<<i, l>>) \/ WriteRow(<<i, l>>)
      PROVE  Told'
  <2>0. <<i, l>> \in Threads
    BY DEF Threads
  <2>1. Left("append") /\ (Left("copy")' <=> Left("copy"))
    BY <1>3, <2>0, ThreadStep, Reserved, Written
  <2> QED
    BY <2>1, InOrder DEF Told
<1>4. ASSUME NEW k \in {"masks", "pool", "sample", "norm"}, Launch(k)
      PROVE  Left("copy")' <=> Left("copy")
    BY <1>4, Launched
<1>5. CASE Masks \/ PoolTokens \/ SampleDescs \/ L2Norm
    BY <1>4, <1>5 DEF Told, Masks, PoolTokens, SampleDescs, L2Norm
<1>6. CASE CopyCount
    BY <1>6 DEF CopyCount, Told
<1> QED
    BY <1>1, <1>2, <1>3, <1>5, <1>6, StepIs DEF Threads, Filling
-----------------------------------------------------------------------------
(* A row that is its thread's stays so, when its cells stay or are filled  *)
(* from its other cells.                                                   *)
LEMMA RowStays ==
    ASSUME UNCHANGED <<crate, in, rows>>, NEW b, NEW s, NEW l, RowIsOf(b, s, l),
           crate = "seg" => /\ ~Left("masks")' => ~Left("masks")
                            /\ ~Left("pool")' => ~Left("pool"),
           crate = "xfeat" => (~Left("sample")' => ~Left("sample"))
    PROVE  RowIsOf(b, s, l)'
<1>1. Appended' = Appended
    BY FrameOf
<1>2. Of(l)' = Of(l)
    BY DEF Of
<1> QED
    BY <1>1, <1>2 DEF RowIsOf

LEMMA RowsKept ==
    ASSUME Packing, SurvivorsNext
    PROVE  RowsOfTheirThread'
<1> USE DEF Packing
<1>0. crate \in {"detr", "seg", "xfeat"} /\ Cap \in Nat
    BY Sizes DEF StageOK
<1>1. CASE Choosing
  <2>1. Batch' = Batch /\ Lanes' = Lanes /\ Early /\ pc' = pc
    BY <1>1, ChoosingStep, FrameOf
  <2>2. \A b \in Batch : \A l \in Lanes : ~Taken(b, l)
    BY <2>1 DEF InTheirTurn
  <2>3. \A b \in Batch : \A l \in Lanes : pc'[<<b, l>>] # "done"
    BY <2>1, <2>2 DEF Taken
  <2> QED
    BY <2>1, <2>3 DEF RowsOfTheirThread
<1>2. CASE AppendDone \/ L2Norm \/ CopyCount
  <2>1. UNCHANGED <<crate, in, pc, slot, rows>>
    BY <1>2, AppendDoneStep, FillingStep DEF Filling, L2Norm, CopyCount
  <2>2. ASSUME NEW k \in {"append", "norm", "copy"}, Launch(k)
        PROVE  /\ Left("masks")' <=> Left("masks")
               /\ Left("pool")' <=> Left("pool")
               /\ Left("sample")' <=> Left("sample")
    BY <2>2, Launched
  <2>3. /\ Left("masks")' <=> Left("masks")
        /\ Left("pool")' <=> Left("pool")
        /\ Left("sample")' <=> Left("sample")
    BY <1>2, <2>2 DEF AppendDone, L2Norm, CopyCount
  <2>4. Batch' = Batch /\ Lanes' = Lanes /\ Cap' = Cap
    BY <2>1, FrameOf
  <2>5. \A b, s, l : RowIsOf(b, s, l) => RowIsOf(b, s, l)'
    BY <2>1, <2>3, RowStays
  <2> QED
    BY <2>1, <2>4, <2>5 DEF RowsOfTheirThread
<1>3. ASSUME NEW i \in Batch, NEW l \in Lanes, Reserve(<<i, l>>)
      PROVE  RowsOfTheirThread'
  <2>0. <<i, l>> \in Threads
    BY DEF Threads
  <2>1. /\ \A b \in Batch : \A m \in Lanes :
             (b # i \/ m # l) => /\ pc'[<<b, m>>] = pc[<<b, m>>]
                                /\ slot'[<<b, m>>] = slot[<<b, m>>]
        /\ pc'[<<i, l>>] = "reserved" /\ UNCHANGED rows
    BY <1>3, Reserved, Zenon
  <2>2. UNCHANGED <<crate, in>> /\ (\A x : Left(x)' <=> Left(x))
    BY <1>3, <2>0, ThreadStep
  <2>3. Batch' = Batch /\ Lanes' = Lanes /\ Cap' = Cap
    BY <2>2, FrameOf
  <2>4. \A b, s, m : RowIsOf(b, s, m) => RowIsOf(b, s, m)'
    BY <2>1, <2>2, RowStays
  <2>5. ASSUME NEW b \in Batch, NEW m \in Lanes, NEW s \in 0 .. Cap - 1,
               pc'[<<b, m>>] = "done", slot'[<<b, m>>] = s
        PROVE  RowIsOf(b, s, m)'
    <3>1. b # i \/ m # l
      BY <2>1, <2>5
    <3>2. pc[<<b, m>>] = "done" /\ slot[<<b, m>>] = s
      BY <2>1, <2>5, <3>1
    <3>3. RowIsOf(b, s, m)
      BY <3>2 DEF RowsOfTheirThread
    <3> QED
      BY <2>4, <3>3
  <2> QED
    BY <2>3, <2>5 DEF RowsOfTheirThread
<1>4. ASSUME NEW i \in Batch, NEW l \in Lanes, WriteRow(<<i, l>>)
      PROVE  RowsOfTheirThread'
  <2>0. <<i, l>> \in Threads
    BY DEF Threads
  <2>1. /\ \A b \in Batch : \A m \in Lanes :
             (b # i \/ m # l) => pc'[<<b, m>>] = pc[<<b, m>>]
        /\ pc[<<i, l>>] = "reserved" /\ slot' = slot /\ Left("append") /\ ~Early
    BY <1>4, Written, Zenon
  <2>2. UNCHANGED <<crate, in>> /\ (\A x : Left(x)' <=> Left(x))
    BY <1>4, <2>0, ThreadStep
  <2>3. Batch' = Batch /\ Lanes' = Lanes /\ Cap' = Cap /\ Appended' = Appended
    BY <2>2, FrameOf
  <2>4. /\ \A b \in Batch : \A c \in Columns : \A s \in 0 .. Cap - 1 :
             (b # i \/ s # slot[<<i, l>>]) => rows'[b][c][s] = rows[b][c][s]
        /\ slot[<<i, l>>] \in 0 .. Cap - 1 =>
             \A c \in Appended : rows'[i][c][slot[<<i, l>>]] = Of(l)
    BY <1>4, WrittenRow, Zenon
  <2>5. /\ crate = "seg" => Left("masks")' /\ Left("pool")'
        /\ crate = "xfeat" => Left("sample")'
    BY <2>1, <2>2, InOrder
  <2>6. \A c \in Appended : c \in Columns
    BY <1>0 DEF Appended, Columns
  <2>7. ASSUME NEW b \in Batch, NEW m \in Lanes, NEW s \in 0 .. Cap - 1,
               pc'[<<b, m>>] = "done", slot'[<<b, m>>] = s
        PROVE  RowIsOf(b, s, m)'
    <3>1. SUFFICES \A c \in Appended : rows'[b][c][s] = Of(m)
      <4>1. crate' = crate /\ Of(m)' = Of(m)
        BY <2>2 DEF Of
      <4> QED
        BY <2>3, <2>5, <4>1 DEF RowIsOf
    <3>2. CASE b = i /\ m = l
      BY <2>1, <2>4, <2>7, <3>2
    <3>3. CASE b # i \/ m # l
      <4>1. pc[<<b, m>>] = "done" /\ slot[<<b, m>>] = s
        BY <2>1, <2>7, <3>3
      <4>2. \A c \in Appended : rows[b][c][s] = Of(m)
        BY <4>1 DEF RowsOfTheirThread, RowIsOf
      <4>3. b # i \/ s # slot[<<i, l>>]
        <5>1. Taken(i, l) /\ Taken(b, m) /\ ~Left("clear")
          BY <2>1, <4>1, InOrder DEF Taken
        <5> QED
          BY <3>3, <4>1, <5>1 DEF OneSlotEach
      <4> QED
        BY <2>4, <2>6, <4>2, <4>3
    <3> QED
      BY <3>2, <3>3
  <2> QED
    BY <2>3, <2>7 DEF RowsOfTheirThread
<1>5. ASSUME Masks \/ PoolTokens \/ SampleDescs
      PROVE  /\ UNCHANGED <<crate, in, pc, slot, count>>
             /\ Batch' = Batch /\ Lanes' = Lanes /\ Cap' = Cap /\ Appended' = Appended
             /\ \A b \in Batch : \A l \in Lanes : \A s \in 0 .. Cap - 1 :
                  (pc[<<b, l>>] = "done" /\ slot[<<b, l>>] = s) => s \in Live(b)
  <2>1. UNCHANGED <<crate, in, pc, slot, count>> /\ ~Left("clear")
    BY <1>5, FillingStep DEF Filling
  <2>2. Batch' = Batch /\ Lanes' = Lanes /\ Cap' = Cap /\ Appended' = Appended
    BY <2>1, FrameOf
  <2>3. ASSUME NEW b \in Batch, NEW l \in Lanes, NEW s \in 0 .. Cap - 1,
               pc[<<b, l>>] = "done", slot[<<b, l>>] = s
        PROVE  s \in Live(b)
    <3>1. count[b] \in Nat /\ s \in 0 .. count[b] - 1
      BY <2>1, <2>3 DEF OneSlotEach, Taken, PackingTypes
    <3>2. Min({count[b], Cap}) = IF count[b] <= Cap THEN count[b] ELSE Cap
      BY <1>0, <3>1, MinPair
    <3> QED
      BY <1>0, <3>1, <3>2 DEF Live
  <2> QED
    BY <2>1, <2>2, <2>3
<1>6. CASE Masks
  <2>1. crate = "seg" /\ \A x : Left(x)' <=> Left(x) /\ x # "masks"
    BY <1>6, Launched DEF Masks
  <2>2. /\ Columns = {"dets", "qidx", "masks", "feats"} /\ Appended = {"dets", "qidx"}
    BY <2>1 DEF Columns, Appended
  <2>3. ASSUME NEW b \in Batch, NEW l \in Lanes, NEW s \in 0 .. Cap - 1,
               pc[<<b, l>>] = "done", slot[<<b, l>>] = s
        PROVE  RowIsOf(b, s, l)'
    <3>1. RowIsOf(b, s, l) /\ s \in Live(b)
      BY <1>5, <1>6, <2>3 DEF RowsOfTheirThread
    <3>2. /\ rows'[b]["masks"][s] = rows[b]["qidx"][s]
          /\ \A c \in Columns \ {"masks"} : rows'[b][c][s] = rows[b][c][s]
      BY <1>6, <2>1, <3>1, MasksRow
    <3> QED
      BY <1>5, <1>6, <2>1, <2>2, <3>1, <3>2 DEF RowIsOf, Of
  <2> QED
    BY <1>5, <1>6, <2>3 DEF RowsOfTheirThread
<1>7. CASE PoolTokens
  <2>1. crate = "seg" /\ (\A x : Left(x)' <=> Left(x) /\ x # "pool") /\ ~Left("masks")
    BY <1>7, Launched DEF PoolTokens
  <2>2. /\ Columns = {"dets", "qidx", "masks", "feats"} /\ Appended = {"dets", "qidx"}
    BY <2>1 DEF Columns, Appended
  <2>3. ASSUME NEW b \in Batch, NEW l \in Lanes, NEW s \in 0 .. Cap - 1,
               pc[<<b, l>>] = "done", slot[<<b, l>>] = s
        PROVE  RowIsOf(b, s, l)'
    <3>1. RowIsOf(b, s, l) /\ s \in Live(b)
      BY <1>5, <1>7, <2>3 DEF RowsOfTheirThread
    <3>2. /\ rows'[b]["feats"][s] = IF rows[b]["masks"][s].of \in in.empty
                                    THEN Zero ELSE rows[b]["masks"][s]
          /\ \A c \in Columns \ {"feats"} : rows'[b][c][s] = rows[b][c][s]
      BY <1>7, <2>1, <3>1, PoolRow
    <3>3. rows[b]["masks"][s] = Of(l) /\ Of(l).of = l
      BY <2>1, <3>1 DEF RowIsOf, Of
    <3>4. \/ rows'[b]["feats"][s] = Of(l)
          \/ (l \in in.empty /\ rows'[b]["feats"][s] = Zero)
      BY <3>2, <3>3
    <3> QED
      BY <1>5, <1>7, <2>1, <2>2, <3>1, <3>2, <3>4 DEF RowIsOf, Of, Zero
  <2> QED
    BY <1>5, <1>7, <2>3 DEF RowsOfTheirThread
<1>8. CASE SampleDescs
  <2>1. crate = "xfeat" /\ \A x : Left(x)' <=> Left(x) /\ x # "sample"
    BY <1>8, Launched DEF SampleDescs
  <2>2. /\ Columns = {"kpts", "scores", "kpts_px", "descs"} /\ Appended = {"kpts", "scores"}
    BY <2>1 DEF Columns, Appended
  <2>3. ASSUME NEW b \in Batch, NEW l \in Lanes, NEW s \in 0 .. Cap - 1,
               pc[<<b, l>>] = "done", slot[<<b, l>>] = s
        PROVE  RowIsOf(b, s, l)'
    <3>1. RowIsOf(b, s, l) /\ s \in Live(b)
      BY <1>5, <1>8, <2>3 DEF RowsOfTheirThread
    <3>2. /\ rows'[b]["descs"][s] = rows[b]["kpts"][s]
          /\ rows'[b]["kpts_px"][s] = rows[b]["kpts"][s]
          /\ \A c \in Columns \ {"descs", "kpts_px"} : rows'[b][c][s] = rows[b][c][s]
      BY <1>8, <2>1, <3>1, SampleRow
    <3> QED
      BY <1>5, <1>8, <2>1, <2>2, <3>1, <3>2 DEF RowIsOf, Of
  <2> QED
    BY <1>5, <1>8, <2>3 DEF RowsOfTheirThread
<1> QED
    BY <1>1, <1>2, <1>3, <1>4, <1>6, <1>7, <1>8, StepIs DEF Filling, Threads
-----------------------------------------------------------------------------
LEMMA PackingStarts ==
    ASSUME SurvivorsInit
    PROVE  Packing
<1>1. crate \in {"detr", "seg", "xfeat"}
    BY DEF SurvivorsInit
<1>2. StageAt(0)
  <2>1. Kernels(crate) \in Seq(KernelName) /\ Len(Kernels(crate)) \in Nat
    BY <1>1, AfterIsLater
  <2> DEFINE K == Kernels(crate)
  <2>2. stage = K
    BY DEF SurvivorsInit
  <2> HIDE DEF K
  <2>3. /\ 0 \in 0 .. Len(K) /\ Len(stage) = Len(K) - 0
        /\ \A i \in 1 .. Len(stage) : stage[i] = K[0 + i]
    BY <2>1, <2>2 DEF K
  <2> QED
    BY <2>1, <2>2, <2>3 DEF StageAt, K
<1>3. StageOK
    BY <1>1, <1>2 DEF StageOK
<1>4. /\ Left("append") <=> After(0, "append")
      /\ Left("clear") <=> After(0, "clear")
      /\ Left("copy") <=> After(0, "copy")
    BY <1>1, <1>2, LeftAt
<1>5. Left("append") /\ Left("clear") /\ Left("copy")
  <2>1. CASE crate = "detr"
    BY <1>4, <2>1 DEF After
  <2>2. CASE crate = "seg"
    BY <1>4, <2>2 DEF After
  <2>3. CASE crate = "xfeat"
    BY <1>4, <2>3 DEF After
  <2> QED
    BY <1>1, <2>1, <2>2, <2>3
<1>6. \A b \in Batch : \A l \in Lanes : pc[<<b, l>>] = "ready"
    BY DEF SurvivorsInit, Threads
<1>7. PackingTypes
  <2>1. Old \in [of : Int]
    BY DEF Old
  <2> QED
    BY <2>1 DEF SurvivorsInit, PackingTypes
<1> QED
    BY <1>3, <1>5, <1>6, <1>7
    DEF Packing, InTheirTurn, OneSlotEach, RowsOfTheirThread, Told, Taken

LEMMA PackingSteps ==
    ASSUME Packing, [SurvivorsNext]_survivorsVars
    PROVE  Packing'
<1>1. CASE SurvivorsNext
  <2>1. StageOK'
    BY <1>1, StepIs, ChoosingStep, FillingStep, AppendDoneStep, ThreadStep DEF Packing
  <2> QED
    BY <1>1, <2>1, TypesKept, TurnKept, SlotsKept, RowsKept, ToldKept DEF Packing
<1>2. CASE UNCHANGED survivorsVars
  <2>1. UNCHANGED <<crate, in, stage, pc, slot, score, cut, count, rows, pin>>
    BY <1>2 DEF survivorsVars
  <2>2. /\ StageOK' /\ (\A x : Left(x)' <=> Left(x)) /\ (Early' <=> Early)
        /\ Batch' = Batch /\ Lanes' = Lanes /\ Threads' = Threads
        /\ Columns' = Columns /\ Cap' = Cap
        /\ \A b, l : Survives(<<b, l>>)' <=> Survives(<<b, l>>)
    BY <2>1, StageSame, FrameOf, SelectionKept DEF Packing
  <2>3. \A b, s, l : RowIsOf(b, s, l) => RowIsOf(b, s, l)'
    BY <2>1, <2>2, RowStays
  <2>4. PackingTypes' /\ Told'
    BY <2>1, <2>2 DEF Packing, PackingTypes, Told
  <2>5. InTheirTurn' /\ OneSlotEach'
    BY <2>1, <2>2 DEF Packing, InTheirTurn, OneSlotEach, Taken
  <2>6. RowsOfTheirThread'
    BY <2>1, <2>2, <2>3 DEF Packing, RowsOfTheirThread
  <2> QED
    BY <2>2, <2>4, <2>5, <2>6 DEF Packing
<1> QED
    BY <1>1, <1>2

(* What the host finds when it has synchronized: the threads of an image   *)
(* that survived fill its first rows, one each.                            *)
LEMMA AtSync ==
    ASSUME Packing, Synced
    PROVE  /\ Cap \in Nat /\ IsFiniteSet(Lanes)
           /\ \A b \in Batch :
                /\ count[b] \in Nat
                /\ ReadCount(b) = IF count[b] <= Cap THEN count[b] ELSE Cap
                /\ \A l \in Lanes : Survives(<<b, l>>) <=> Taken(b, l)
                /\ \A l \in Survivors(b) : slot[<<b, l>>] \in 0 .. count[b] - 1
                /\ \A l, m \in Survivors(b) : slot[<<b, l>>] = slot[<<b, m>>] => l = m
                /\ \A s \in 0 .. count[b] - 1 : \E l \in Survivors(b) : slot[<<b, l>>] = s
                /\ \A l \in Survivors(b) : \A s \in 0 .. Cap - 1 :
                     slot[<<b, l>>] = s => RowIsOf(b, s, l)
<1>1. \A x : ~Left(x)
  <2>1. Len(stage) = 0
    BY DEF Synced
  <2> QED
    BY <2>1 DEF Left
<1>2. Cap \in Nat /\ IsFiniteSet(Lanes)
    BY Sizes DEF Packing, StageOK
<1>3. ASSUME NEW b \in Batch
      PROVE  /\ count[b] \in Nat
             /\ ReadCount(b) = IF count[b] <= Cap THEN count[b] ELSE Cap
  <2>1. count[b] \in Nat /\ pin[b] = count[b]
    BY <1>1 DEF Packing, PackingTypes, Told
  <2> QED
    BY <1>2, <2>1, MinPair DEF ReadCount
<1>4. ASSUME NEW b \in Batch, NEW l \in Lanes
      PROVE  /\ Survives(<<b, l>>) <=> Taken(b, l)
             /\ Survives(<<b, l>>) => pc[<<b, l>>] = "done"
    BY <1>1 DEF Packing, InTheirTurn, Taken
<1>5. ASSUME NEW b \in Batch
      PROVE  /\ \A l \in Survivors(b) : slot[<<b, l>>] \in 0 .. count[b] - 1
             /\ \A l, m \in Survivors(b) : slot[<<b, l>>] = slot[<<b, m>>] => l = m
             /\ \A s \in 0 .. count[b] - 1 : \E l \in Survivors(b) : slot[<<b, l>>] = s
    BY <1>1, <1>4 DEF Packing, OneSlotEach, Survivors
<1>6. ASSUME NEW b \in Batch, NEW l \in Survivors(b), NEW s \in 0 .. Cap - 1,
             slot[<<b, l>>] = s
      PROVE  RowIsOf(b, s, l)
    BY <1>4, <1>6 DEF Packing, RowsOfTheirThread, Survivors
<1> QED
    BY <1>2, <1>3, <1>4, <1>5, <1>6
-----------------------------------------------------------------------------
(* The invariant holds of every submit, for any queries, pixels and images. *)
THEOREM PackingHolds ==
    SurvivorsSpec => []Packing
<1>1. SurvivorsInit => Packing
    BY PackingStarts
<1>2. Packing /\ [SurvivorsNext]_survivorsVars => Packing'
    BY PackingSteps
<1> QED
    BY <1>1, <1>2, PTL DEF SurvivorsSpec

LEMMA Aligned ==
    ASSUME Packing
    PROVE  RowsAligned
<1>1. SUFFICES ASSUME Synced, NEW b \in Batch, NEW k \in 0 .. ReadCount(b) - 1
               PROVE  \E l \in Lanes : \A c \in Columns :
                         \/ ReadRow(b, k)[c] = Of(l)
                         \/ (c = "feats" /\ l \in in.empty /\ ReadRow(b, k)[c] = Zero)
    BY DEF RowsAligned
<1>2. k \in 0 .. count[b] - 1 /\ k \in 0 .. Cap - 1
    BY <1>1, AtSync
<1>3. PICK l \in Survivors(b) : slot[<<b, l>>] = k
    BY <1>1, <1>2, AtSync
<1>4. RowIsOf(b, k, l) /\ l \in Lanes
    BY <1>1, <1>2, <1>3, AtSync DEF Survivors
<1>5. \A x : ~Left(x)
  <2>1. Len(stage) = 0
    BY <1>1 DEF Synced
  <2> QED
    BY <2>1 DEF Left
<1>6. \A c \in Columns : ReadRow(b, k)[c] = rows[b][c][k]
    BY DEF ReadRow
<1>7. crate \in {"detr", "seg", "xfeat"}
    BY DEF Packing, StageOK
<1>8. ASSUME NEW c \in Columns
      PROVE  \/ rows[b][c][k] = Of(l)
             \/ (c = "feats" /\ l \in in.empty /\ rows[b][c][k] = Zero)
  <2>1. CASE crate = "detr"
    BY <1>4, <2>1 DEF Columns, Appended, RowIsOf
  <2>2. CASE crate = "seg"
    BY <1>4, <1>5, <2>2 DEF Columns, Appended, RowIsOf
  <2>3. CASE crate = "xfeat"
    BY <1>4, <1>5, <2>3 DEF Columns, Appended, RowIsOf
  <2> QED
    BY <1>7, <2>1, <2>2, <2>3
<1> QED
    BY <1>4, <1>6, <1>8

(* The slots number the survivors: their count is how many there are.      *)
LEMMA Counted ==
    ASSUME Packing, Synced, NEW b \in Batch
    PROVE  Cardinality(Survivors(b)) = count[b]
<1> DEFINE S == Survivors(b)
           n == count[b]
           f == [l \in S |-> slot[<<b, l>>] + 1]
<1>1. IsFiniteSet(S)
    BY AtSync, FS_Subset DEF Survivors
<1>2. n \in Nat
    BY AtSync
<1>3. /\ \A l \in S : slot[<<b, l>>] \in 0 .. n - 1
      /\ \A l, m \in S : slot[<<b, l>>] = slot[<<b, m>>] => l = m
      /\ \A s \in 0 .. n - 1 : \E l \in S : slot[<<b, l>>] = s
    BY AtSync
<1> HIDE DEF S, n
<1>4. f \in [S -> 1 .. n]
    BY <1>2, <1>3
<1>5. ASSUME NEW l \in S, NEW m \in S, f[l] = f[m] PROVE l = m
    BY <1>2, <1>3, <1>5
<1>6. ASSUME NEW s \in 1 .. n PROVE \E l \in S : f[l] = s
  <2>1. s - 1 \in 0 .. n - 1
    BY <1>2
  <2>2. PICK l \in S : slot[<<b, l>>] = s - 1
    BY <1>3, <2>1
  <2> QED
    BY <2>2
<1> HIDE DEF f
<1>7. f \in Bijection(S, 1 .. n)
    BY <1>4, <1>5, <1>6 DEF Bijection, Injection, Surjection, IsInjective
<1>8. Cardinality(1 .. n) = Cardinality(S)
    BY <1>1, <1>7, FS_Bijection DEF ExistsBijection
<1>9. Cardinality(1 .. n) = n
    BY <1>2, FS_Interval
<1> QED
    BY <1>8, <1>9 DEF S, n

(* The rows that are read name as many different survivors.                *)
LEMMA OncePerRow ==
    ASSUME Packing, Synced, NEW b \in Batch,
           NEW c, c = IF crate = "xfeat" THEN "kpts" ELSE "dets",
           NEW Read, Read = {rows[b][c][k].of : k \in 0 .. ReadCount(b) - 1}
    PROVE  Read \subseteq Survivors(b) /\ Cardinality(Read) = ReadCount(b)
<1> DEFINE n == ReadCount(b)
           g == [k \in 1 .. n |-> rows[b][c][k - 1].of]
<1>1. n \in Nat /\ \A k \in 0 .. n - 1 : k \in 0 .. count[b] - 1 /\ k \in 0 .. Cap - 1
    BY AtSync
<1>2. c \in Appended
    BY DEF Appended, Packing, StageOK
<1>3. ASSUME NEW k \in 0 .. n - 1
      PROVE  rows[b][c][k].of \in Survivors(b) /\ slot[<<b, rows[b][c][k].of>>] = k
  <2>1. PICK l \in Survivors(b) : slot[<<b, l>>] = k
    BY <1>1, <1>3, AtSync
  <2>2. rows[b][c][k] = Of(l)
    BY <1>1, <1>2, <1>3, <2>1, AtSync DEF RowIsOf
  <2> QED
    BY <2>1, <2>2 DEF Of
<1>4. Read \subseteq Survivors(b)
    BY <1>3
<1> HIDE DEF n
<1>5. g \in [1 .. n -> Read]
  <2>1. \A k \in 1 .. n : k - 1 \in 0 .. n - 1
    BY <1>1
  <2> QED
    BY <2>1 DEF n
<1>6. ASSUME NEW j \in 1 .. n, NEW k \in 1 .. n, g[j] = g[k] PROVE j = k
  <2>1. j - 1 \in 0 .. n - 1 /\ k - 1 \in 0 .. n - 1
    BY <1>1
  <2>2. slot[<<b, g[j]>>] = j - 1 /\ slot[<<b, g[k]>>] = k - 1
    BY <1>3, <2>1
  <2> QED
    BY <1>6, <2>1, <2>2
<1>7. ASSUME NEW r \in Read PROVE \E k \in 1 .. n : g[k] = r
  <2>1. PICK k \in 0 .. n - 1 : r = rows[b][c][k].of
    BY DEF n
  <2>2. k + 1 \in 1 .. n /\ (k + 1) - 1 = k
    BY <1>1
  <2> QED
    BY <2>1, <2>2
<1> HIDE DEF g
<1>8. g \in Bijection(1 .. n, Read)
    BY <1>5, <1>6, <1>7 DEF Bijection, Injection, Surjection, IsInjective
<1>9. IsFiniteSet(1 .. n) /\ Cardinality(1 .. n) = n
    BY <1>1, FS_Interval
<1>10. Cardinality(Read) = n
    BY <1>8, <1>9, FS_Bijection DEF ExistsBijection
<1> QED
    BY <1>4, <1>10 DEF n

LEMMA Once ==
    ASSUME Packing
    PROVE  EverySurvivorOnce
<1>1. ASSUME Synced, NEW b \in Batch,
             NEW c, c = IF crate = "xfeat" THEN "kpts" ELSE "dets",
             NEW Read, Read = {rows[b][c][k].of : k \in 0 .. ReadCount(b) - 1}
      PROVE  /\ Read \subseteq Survivors(b)
             /\ Cardinality(Read) = ReadCount(b)
             /\ ReadCount(b) = Min({Cardinality(Survivors(b)), Cap})
  <2>1. Read \subseteq Survivors(b) /\ Cardinality(Read) = ReadCount(b)
    BY <1>1, OncePerRow
  <2>2. Cardinality(Survivors(b)) = count[b] /\ count[b] \in Nat /\ Cap \in Nat
    BY <1>1, Counted, AtSync
  <2>3. ReadCount(b) = IF count[b] <= Cap THEN count[b] ELSE Cap
    BY <1>1, AtSync
  <2> QED
    BY <2>1, <2>2, <2>3, MinPair
<1> QED
    BY <1>1 DEF EverySurvivorOnce

(* Every row of a result is one surviving candidate through and through,   *)
(* none is read twice, and one is left out only of a full result: whatever *)
(* order the threads of the append kernel reserve and write their rows in. *)
THEOREM EachCandidateOneRow ==
    SurvivorsSpec => []PackedOnce
<1>1. Packing => PackedOnce
    BY Aligned, Once DEF PackedOnce
<1> QED
    BY PackingHolds, <1>1, PTL
-----------------------------------------------------------------------------
(* The top-K selection of XFeat: what is lit is counted by bucket, and the *)
(* cutoff is read off the counts.                                          *)
LitIn(b, S) == {p \in Lit(b) : Bucket(score[b][p]) \in S}
Counts(b) == [i \in 0 .. Bins - 1 |-> Cardinality({p \in Lit(b) : Bucket(score[b][p]) = i})]
NoCounts == [i \in 0 .. Bins - 1 |-> 0]

Selecting ==
    crate = "xfeat" =>
        /\ in \in HeatMaps
        /\ score \in [Batch -> [Pixels -> Int]]
        /\ ~Left("clear") /\ Left("histogram") => hist = [b \in Batch |-> NoCounts]
        /\ ~Left("histogram") => hist = [b \in Batch |-> Counts(b)]
        /\ ~Left("cutoff") => cut = [b \in Batch |-> CutAt(hist[b])]

LEMMA XfeatOrder ==
    ASSUME StageOK, crate = "xfeat"
    PROVE  /\ Left("nms") => Left("clear")
           /\ Left("clear") => Left("histogram")
           /\ Left("histogram") => Left("cutoff")
           /\ Left("cutoff") => Left("append")
<1>1. PICK n \in Nat : StageAt(n)
    BY DEF StageOK
<1>2. \A k : Left(k) <=> After(n, k)
    BY <1>1, LeftAt DEF StageOK
<1> QED
    BY <1>2 DEF After

(* When a kernel starts, those before it are over.                         *)
LEMMA OrderNext ==
    ASSUME StageOK, crate = "xfeat", NEW k, Launch(k)
    PROVE  /\ k = "histogram" => ~Left("clear")
           /\ k = "cutoff" => ~Left("clear") /\ ~Left("histogram")
<1>1. PICK n \in Nat : StageAt(n)
    BY DEF StageOK
<1>2. \A x : Left(x) <=> After(n, x)
    BY <1>1, LeftAt DEF StageOK
<1> DEFINE K == Kernels(crate)
<1>3. K[1] = "nms" /\ K[2] = "clear" /\ K[3] = "histogram" /\ K[4] = "cutoff" /\ Len(K) = 8
      /\ K[5] = "append" /\ K[6] = "sample" /\ K[7] = "norm" /\ K[8] = "copy"
    BY Order, Zenon
<1>4. /\ stage \in Seq(KernelName) /\ stage # <<>> /\ Head(stage) = k
      /\ Len(stage) = Len(K) - n /\ n \in 0 .. Len(K)
      /\ \A i \in 1 .. Len(stage) : stage[i] = K[n + i]
    BY <1>1 DEF Launch, StageAt
<1> HIDE DEF K
<1>5. Len(stage) >= 1 /\ stage[1] = k
    BY <1>4
<1>6. n \in 0 .. 7 /\ K[n + 1] = k
    BY <1>3, <1>4, <1>5
<1>7. (k = "histogram" => n = 2) /\ (k = "cutoff" => n = 3)
    BY <1>3, <1>6
<1> QED
    BY <1>2, <1>7 DEF After

LEMMA LaunchedNext ==
    ASSUME StageOK, NEW k, Launch(k)
    PROVE  Left(k) /\ ~Left(k)' /\ crate' = crate /\ in' = in
<1>1. ~Left(k)' /\ crate' = crate /\ in' = in
    BY Launched
<1>2. stage # <<>> /\ Head(stage) = k
    BY DEF Launch
<1>3. stage \in Seq(KernelName)
    BY DEF StageOK, StageAt
<1>4. 1 \in 1 .. Len(stage) /\ stage[1] = k
    BY <1>2, <1>3
<1> QED
    BY <1>1, <1>4 DEF Left

LEMMA SelectingStarts ==
    ASSUME SurvivorsInit
    PROVE  Selecting
<1>1. crate \in {"detr", "seg", "xfeat"} /\ StageOK
    BY PackingStarts DEF Packing, StageOK
<1> SUFFICES ASSUME crate = "xfeat" PROVE Selecting
    BY DEF Selecting
<1>2. in \in HeatMaps /\ score \in [Batch -> [Pixels -> Int]]
    BY DEF SurvivorsInit, Answers, Lanes
<1>3. stage = <<"nms", "clear", "histogram", "cutoff", "append", "sample", "norm", "copy">>
    BY DEF SurvivorsInit, Kernels
<1>4. Len(stage) = 8 /\ stage[1] = "nms"
    BY <1>3
<1>5. Left("nms")
    BY <1>4 DEF Left
<1>6. Left("clear") /\ Left("histogram") /\ Left("cutoff")
    BY <1>1, <1>5, XfeatOrder
<1> QED
    BY <1>2, <1>6 DEF Selecting

LEMMA NmsScoreIsInt ==
    ASSUME crate = "xfeat", in \in HeatMaps, NEW b \in Batch, NEW p \in Pixels
    PROVE  NmsScore(b, p) \in Int
<1>1. in \in Seq([heat : [Pixels -> Int], reliability : [Pixels -> Int]])
    BY MapsAssumption
<1>2. b \in 0 .. Len(in) - 1
    BY DEF Batch
<1>3. b + 1 \in 1 .. Len(in)
    BY <1>1, <1>2
<1>4. in[b + 1] \in [heat : [Pixels -> Int], reliability : [Pixels -> Int]]
    <2> DEFINE Image == [heat : [Pixels -> Int], reliability : [Pixels -> Int]]
    <2>1. in \in Seq(Image)  BY <1>1
    <2> HIDE DEF Image
    <2>2. in[b + 1] \in Image  BY <1>3, <2>1
    <2> QED BY <2>2 DEF Image
<1>5. in[b + 1].heat[p] \in Int /\ in[b + 1].reliability[p] \in Int
    BY <1>4
<1>6. in[b + 1].heat[p] * in[b + 1].reliability[p] \in Int
    BY <1>5
<1> QED
    BY <1>6 DEF NmsScore

(* A step that leaves the selection alone.                                 *)
LEMMA SelectingSame ==
    ASSUME Selecting, UNCHANGED <<crate, in, score, hist, cut>>,
           \A x \in {"clear", "histogram", "cutoff"} : Left(x)' <=> Left(x)
    PROVE  Selecting'
<1>1. Batch' = Batch /\ \A b : Counts(b)' = Counts(b)
    BY DEF Batch, Counts, Lit
<1>2. (Left("clear")' <=> Left("clear")) /\ (Left("histogram")' <=> Left("histogram"))
      /\ (Left("cutoff")' <=> Left("cutoff"))
    OBVIOUS
<1> QED
    BY <1>1, <1>2 DEF Selecting

LEMMA ChoosingSelects ==
    ASSUME StageOK, Selecting, Choosing
    PROVE  Selecting'
<1>1. crate' = crate /\ in' = in
    BY ChoosingStep
<1> SUFFICES ASSUME crate = "xfeat" PROVE Selecting'
    BY <1>1 DEF Selecting
<1>2. Batch' = Batch
    BY <1>1 DEF Batch
<1>3. /\ in \in HeatMaps /\ score \in [Batch -> [Pixels -> Int]]
    BY DEF Selecting
<1>4. CASE ScoreNms
  <2>1. Launch("nms") /\ score' = [b \in Batch |-> [p \in Pixels |-> NmsScore(b, p)]] /\ hist' = hist /\ cut' = cut
    BY <1>4 DEF ScoreNms
  <2>2. Left("clear") /\ Left("histogram") /\ Left("cutoff")
    BY <2>1, LaunchedNext, XfeatOrder
  <2>3. Left("clear")' /\ Left("histogram")' /\ Left("cutoff")'
    BY <2>1, <2>2, Launched
  <2>4. score' \in [Batch -> [Pixels -> Int]]
    BY <1>3, <2>1, NmsScoreIsInt
  <2> QED
    BY <1>1, <1>2, <1>3, <2>3, <2>4 DEF Selecting
<1>5. CASE ClearScratch
  <2>1. Launch("clear") /\ score' = score /\ hist' = [b \in Batch |-> NoCounts]
    BY <1>5 DEF ClearScratch, NoCounts
  <2>2. Left("histogram") /\ Left("cutoff")
    BY <2>1, LaunchedNext, XfeatOrder
  <2>3. Left("histogram")' /\ Left("cutoff")'
    BY <2>1, <2>2, Launched
  <2> QED
    BY <1>1, <1>2, <1>3, <2>1, <2>3 DEF Selecting, NoCounts
<1>6. CASE Histogram
  <2>1. /\ Launch("histogram") /\ score' = score
        /\ hist' = [b \in Batch |-> [i \in 0 .. Bins - 1 |->
                       hist[b][i] + Cardinality({p \in Lit(b) : Bucket(score[b][p]) = i})]]
    BY <1>6 DEF Histogram
  <2>2. Left("histogram") /\ Left("cutoff") /\ ~Left("histogram")' /\ ~Left("clear")
    BY <2>1, LaunchedNext, OrderNext, XfeatOrder
  <2>3. Left("cutoff")' /\ ~Left("histogram")'
    BY <2>1, <2>2, Launched
  <2>4. hist = [b \in Batch |-> NoCounts]
    BY <2>2 DEF Selecting
  <2>5. hist' = [b \in Batch |-> Counts(b)]
    <3>1. ASSUME NEW b \in Batch, NEW i \in 0 .. Bins - 1
          PROVE  hist[b][i] + Cardinality({p \in Lit(b) : Bucket(score[b][p]) = i})
                   = Cardinality({p \in Lit(b) : Bucket(score[b][p]) = i})
      <4>1. hist[b][i] = 0
        BY <2>4, <3>1 DEF NoCounts
      <4>2. Cardinality({p \in Lit(b) : Bucket(score[b][p]) = i}) \in Nat
        <5>1. IsFiniteSet(Pixels)
          BY Sizes DEF StageOK, Lanes
        <5>2. {p \in Lit(b) : Bucket(score[b][p]) = i} \subseteq Pixels
          BY DEF Lit
        <5> QED
          BY <5>1, <5>2, FS_Subset, FS_CardinalityType
      <4> DEFINE n == Cardinality({p \in Lit(b) : Bucket(score[b][p]) = i})
      <4> HIDE DEF n
      <4>3. n \in Nat
        BY <4>2 DEF n
      <4>4. hist[b][i] + n = n
        BY <4>1, <4>3
      <4> QED
        BY <4>4 DEF n
    <3> QED
      BY <2>1, <3>1, Zenon DEF Counts
  <2>6. \A b : Counts(b)' = Counts(b)
    BY <2>1 DEF Counts, Lit
  <2> QED
    BY <1>1, <1>2, <1>3, <2>1, <2>3, <2>5, <2>6 DEF Selecting
<1>7. CASE Cutoff
  <2>1. Launch("cutoff") /\ score' = score /\ hist' = hist /\ cut' = [b \in Batch |-> CutAt(hist[b])]
    BY <1>7 DEF Cutoff
  <2>2. Left("cutoff") /\ ~Left("cutoff")' /\ ~Left("histogram") /\ ~Left("clear")
    BY <2>1, LaunchedNext, OrderNext
  <2>3. ~Left("histogram")'
    BY <2>1, <2>2, Launched
  <2>4. hist = [b \in Batch |-> Counts(b)]
    BY <2>2 DEF Selecting
  <2>5. \A b : Counts(b)' = Counts(b)
    BY <2>1 DEF Counts, Lit
  <2> QED
    BY <1>1, <1>2, <1>3, <2>1, <2>2, <2>3, <2>4, <2>5 DEF Selecting
<1> QED
    BY <1>4, <1>5, <1>6, <1>7 DEF Choosing

LEMMA SelectingSteps ==
    ASSUME StageOK, Selecting, [SurvivorsNext]_survivorsVars
    PROVE  Selecting'
<1>1. CASE Choosing
    BY <1>1, ChoosingSelects
<1>2. ASSUME NEW k \in {"append", "masks", "pool", "sample", "norm", "copy"}, Launch(k)
      PROVE  \A x \in {"clear", "histogram", "cutoff"} : Left(x)' <=> Left(x)
    BY <1>2, Launched
<1>3. CASE Filling \/ AppendDone
  <2>1. PICK k \in {"append", "masks", "pool", "sample", "norm", "copy"} :
            Launch(k) /\ UNCHANGED <<score, hist, cut>>
    BY <1>3 DEF Filling, AppendDone, Masks, PoolTokens, SampleDescs, L2Norm, CopyCount
  <2> QED
    BY <1>2, <2>1, LaunchedNext, SelectingSame
<1>4. CASE \E t \in Threads : Reserve(t) \/ WriteRow(t)
    BY <1>4, ThreadStep, SelectingSame DEF Reserve, WriteRow
<1>5. CASE UNCHANGED survivorsVars
    BY <1>5, StageSame, SelectingSame DEF survivorsVars
<1> QED
    BY <1>1, <1>3, <1>4, <1>5, StepIs

(* The bucket of a score is at or above another exactly when the score is  *)
(* at or above its lower edge.                                             *)
LEMMA Quotient ==
    ASSUME NEW s \in Nat, NEW q \in Nat \ {0}, NEW m \in Nat
    PROVE  s \div q >= m <=> s >= q * m
<1> DEFINE d == s \div q
           r == s % q
<1>1. d \in Int /\ r \in Int /\ 0 <= r /\ r < q /\ s = q * d + r
    OBVIOUS
<1> HIDE DEF d, r
<1>2. ASSUME d >= m PROVE s >= q * m
  <2>1. q * d >= q * m
    BY <1>1, <1>2
  <2> QED
    BY <1>1, <2>1
<1>3. ASSUME d < m PROVE s < q * m
  <2>1. d + 1 <= m /\ q * (d + 1) = q * d + q
    BY <1>1, <1>3
  <2>2. q * (d + 1) <= q * m
    BY <1>1, <2>1
  <2> QED
    BY <1>1, <2>1, <2>2
<1> QED
    BY <1>1, <1>2, <1>3 DEF d

LEMMA BucketEdge ==
    ASSUME NEW s \in Nat
    PROVE  /\ Bucket(s) \in 0 .. Bins - 1
           /\ \A m \in 0 .. Bins - 1 : Bucket(s) >= m <=> s >= PerBin * m
<1> DEFINE d == s \div PerBin
<1>1. PerBin \in Nat \ {0} /\ Bins \in Nat \ {0}
    BY SizesAssumption
<1>2. d \in Int /\ d >= 0
  <2>1. PerBin * 0 = 0 /\ 0 \in Nat
    BY <1>1
  <2>2. d >= 0
    BY <1>1, <2>1, Quotient
  <2>3. d \in Int
    BY <1>1
  <2> QED
    BY <2>2, <2>3
<1>3. Bucket(s) = IF d <= Bins - 1 THEN d ELSE Bins - 1
  <2>1. Bins - 1 \in Int
    BY <1>1
  <2> QED
    BY <1>2, <2>1, MinPair, Zenon DEF Bucket
<1>4. ASSUME NEW m \in 0 .. Bins - 1 PROVE d >= m <=> s >= PerBin * m
  <2>1. m \in Nat
    BY <1>1
  <2> QED
    BY <1>1, <2>1, Quotient
<1> HIDE DEF d
<1>5. ASSUME NEW m \in 0 .. Bins - 1 PROVE Bucket(s) >= m <=> d >= m
    BY <1>1, <1>2, <1>3
<1>6. Bucket(s) \in 0 .. Bins - 1
    BY <1>1, <1>2, <1>3
<1> QED
    BY <1>4, <1>5, <1>6

LEMMA LitFacts ==
    ASSUME crate = "xfeat", score \in [Batch -> [Pixels -> Int]], NEW b \in Batch
    PROVE  /\ IsFiniteSet(Lit(b)) /\ Cardinality(Lit(b)) \in Nat
           /\ \A p \in Lit(b) : /\ score[b][p] \in Nat
                                /\ Bucket(score[b][p]) \in 0 .. Bins - 1
                                /\ \A m \in 0 .. Bins - 1 :
                                      Bucket(score[b][p]) >= m <=> score[b][p] >= PerBin * m
<1>1. IsFiniteSet(Pixels)
    BY Sizes DEF Lanes
<1>2. Lit(b) \subseteq Pixels
    BY DEF Lit
<1>3. IsFiniteSet(Lit(b)) /\ Cardinality(Lit(b)) \in Nat
    BY <1>1, <1>2, FS_Subset, FS_CardinalityType
<1>4. ASSUME NEW p \in Lit(b) PROVE score[b][p] \in Nat
  <2>1. p \in Pixels /\ score[b][p] > 0
    BY DEF Lit
  <2>2. score[b][p] \in Int
    BY <2>1
  <2> QED
    BY <2>1, <2>2
<1> QED
    BY <1>3, <1>4, BucketEdge

(* The counts of some buckets add up to the lit pixels in them.            *)
LEMMA CountsAddUp ==
    ASSUME crate = "xfeat", score \in [Batch -> [Pixels -> Int]], NEW b \in Batch,
           NEW S \in SUBSET (0 .. Bins - 1)
    PROVE  Sum(Counts(b), S) = Cardinality(LitIn(b, S))
<1> DEFINE h == Counts(b)
           One(i) == {p \in Lit(b) : Bucket(score[b][p]) = i}
           F == {T \in SUBSET S : Sum(h, T) = Cardinality(LitIn(b, T))}
<1>1. IsFiniteSet(0 .. Bins - 1)
  <2>1. Bins \in Nat
    BY SizesAssumption
  <2> QED
    BY <2>1, FS_Interval
<1>2. IsFiniteSet(S)
    BY <1>1, FS_Subset
<1>3. \A T : IsFiniteSet(LitIn(b, T)) /\ Cardinality(LitIn(b, T)) \in Nat
  <2> TAKE T
  <2>1. LitIn(b, T) \subseteq Lit(b)
    BY DEF LitIn
  <2> QED
    BY <2>1, LitFacts, FS_Subset, FS_CardinalityType
<1>4. \A i : IsFiniteSet(One(i)) /\ Cardinality(One(i)) \in Nat
  <2> TAKE i
  <2>1. One(i) \subseteq Lit(b)
    OBVIOUS
  <2> QED
    BY <2>1, LitFacts, FS_Subset, FS_CardinalityType
<1>5. \A i \in 0 .. Bins - 1 : h[i] = Cardinality(One(i)) /\ h[i] \in Int
  <2> TAKE i \in 0 .. Bins - 1
  <2>1. h[i] = Cardinality(One(i))
    BY Zenon DEF Counts
  <2> HIDE DEF h, One
  <2>2. Cardinality(One(i)) \in Int
    BY <1>4
  <2> QED
    BY <2>1, <2>2
<1>6. {} \in F
  <2>1. LitIn(b, {}) = {}
    BY DEF LitIn
  <2> QED
    BY <2>1, SumEmpty, FS_EmptySet
<1>7. ASSUME NEW T \in SUBSET S, T \in F, NEW x \in S \ T PROVE T \cup {x} \in F
  <2>1. IsFiniteSet(T) /\ x \notin T /\ x \in 0 .. Bins - 1 /\ T \subseteq 0 .. Bins - 1
    BY <1>2, FS_Subset
  <2>2. Sum(h, T \cup {x}) = h[x] + Sum(h, T)
    <3>1. \A y \in T : h[y] \in Int
      BY <1>5, <2>1
    <3>2. h[x] \in Int
      BY <1>5, <2>1
    <3> HIDE DEF h
    <3> QED
      BY <2>1, <3>1, <3>2, SumWith
  <2>3. LitIn(b, T \cup {x}) = LitIn(b, T) \cup One(x)
    BY DEF LitIn
  <2>4. LitIn(b, T) \cap One(x) = {}
    BY <2>1 DEF LitIn
  <2> DEFINE A == LitIn(b, T)
             B == One(x)
  <2>5. IsFiniteSet(A) /\ IsFiniteSet(B) /\ Cardinality(A) \in Nat /\ Cardinality(B) \in Nat
    BY <1>3, <1>4
  <2>6. A \cap B = {}
    BY <2>4
  <2> HIDE DEF A, B
  <2>7. Cardinality(A \cup B) = Cardinality(A) + Cardinality(B)
    <3>1. Cardinality(A \cup B) = Cardinality(A) + Cardinality(B) - Cardinality(A \cap B)
      BY <2>5, FS_Union
    <3>2. Cardinality(A \cap B) = 0
      BY <2>6, FS_EmptySet, Zenon
    <3> QED
      BY <2>5, <3>1, <3>2
  <2>8. Sum(h, T) = Cardinality(A) /\ h[x] = Cardinality(B)
    BY <1>5, <1>7, <2>1 DEF A, B
  <2>9. Cardinality(LitIn(b, T \cup {x})) = Cardinality(A \cup B)
    BY <2>3 DEF A, B
  <2> HIDE DEF h
  <2>10. Sum(h, T \cup {x}) = Cardinality(LitIn(b, T \cup {x}))
    BY <2>2, <2>5, <2>7, <2>8, <2>9
  <2> QED
    BY <2>1, <2>10
<1> HIDE DEF F
<1>8. S \in F
    BY <1>2, <1>6, <1>7, EverySet
<1> QED
    BY <1>8 DEF F

(* A set of bucket numbers with an element has a greatest one.             *)
LEMMA MaxBucket ==
    ASSUME NEW S \in SUBSET (0 .. Bins - 1), S # {}
    PROVE  Max(S) \in S /\ \A i \in S : i <= Max(S)
<1> DEFINE T == {Bins - i : i \in S}
<1>1. Bins \in Nat
    BY SizesAssumption
<1>2. T \subseteq Nat /\ T # {}
  <2>1. \A i \in S : Bins - i \in Nat
    BY <1>1
  <2> QED
    BY <2>1
<1> HIDE DEF T
<1>3. PICK n \in T : \A m \in T : n <= m
    BY <1>2, LeastNumber
<1>4. PICK x \in S : n = Bins - x
    BY <1>3 DEF T
<1>5. \A i \in S : Bins - x <= Bins - i /\ i \in Int /\ x \in Int
    BY <1>1, <1>3, <1>4 DEF T
<1>6. \A i \in S : x >= i
    BY <1>1, <1>5
<1>7. Max(S) \in S /\ \A i \in S : Max(S) >= i
    BY <1>6, Zenon DEF Max
<1> QED
    BY <1>1, <1>5, <1>7

(* The cutoff keeps TopK pixels or all, and those of a bucket above that   *)
(* of a pixel it keeps are fewer.                                          *)
LEMMA CutoffKeepsEnough ==
    ASSUME crate = "xfeat", score \in [Batch -> [Pixels -> Int]], NEW b \in Batch,
           cut[b] = CutAt(Counts(b))
    PROVE  /\ Survivors(b) \subseteq Lit(b)
           /\ Survivors(b) = Lit(b) \/ Cardinality(Survivors(b)) >= TopK
           /\ \A p \in Survivors(b) :
                 Cardinality({n \in Lit(b) : Bucket(score[b][n]) > Bucket(score[b][p])}) < TopK
<1> DEFINE h == Counts(b)
           Beyond(m) == {p \in Lit(b) : Bucket(score[b][p]) >= m}
<1>1. Bins \in Nat \ {0} /\ TopK \in Nat \ {0} /\ PerBin \in Nat \ {0}
    BY SizesAssumption
<1>2. Survivors(b) = {p \in Lit(b) : score[b][p] >= cut[b]}
    BY DEF Survivors, Survives, Selected, Lit, Lanes
<1>3. \A p \in Lit(b) : /\ score[b][p] \in Nat
                        /\ Bucket(score[b][p]) \in 0 .. Bins - 1
                        /\ \A m \in 0 .. Bins - 1 :
                              Bucket(score[b][p]) >= m <=> score[b][p] >= PerBin * m
    BY LitFacts
<1>4. ASSUME NEW m \in 0 .. Bins - 1
      PROVE  SumFunctionOnSet(h, m .. Bins - 1) = Cardinality(Beyond(m))
  <2>1. m .. Bins - 1 \in SUBSET (0 .. Bins - 1)
    BY <1>1
  <2>2. LitIn(b, m .. Bins - 1) = Beyond(m)
    <3>1. \A p \in Lit(b) : Bucket(score[b][p]) \in m .. Bins - 1 <=> Bucket(score[b][p]) >= m
      BY <1>1, <1>3
    <3> QED
      BY <3>1 DEF LitIn
  <2>3. Sum(h, m .. Bins - 1) = Cardinality(LitIn(b, m .. Bins - 1))
    BY <2>1, CountsAddUp
  <2> QED
    BY <2>2, <2>3, Zenon DEF Sum
<1> HIDE DEF h
<1>5. \A T \in SUBSET Lit(b) : IsFiniteSet(T) /\ Cardinality(T) \in Nat
    BY LitFacts, FS_Subset, FS_CardinalityType
<1>6. Beyond(0) = Lit(b) /\ 0 \in 0 .. Bins - 1
    BY <1>1, <1>3
<1>7. \A m \in 0 .. Bins - 1 : m \in Reaching(h) <=> Cardinality(Beyond(m)) >= TopK
    BY <1>4, Zenon DEF Reaching
<1>8. Reaching(h) \in SUBSET (0 .. Bins - 1)
    BY DEF Reaching
<1>9. CASE Reaching(h) = {}
  <2>1. cut[b] = 0
    BY <1>9 DEF CutAt, h
  <2>2. Survivors(b) = Lit(b)
    BY <1>2, <1>3, <2>1
  <2>3. ~(Cardinality(Lit(b)) >= TopK)
    BY <1>6, <1>7, <1>9
  <2>4. ASSUME NEW T \in SUBSET Lit(b) PROVE Cardinality(T) < TopK
    <3>1. Cardinality(T) <= Cardinality(Lit(b))
      BY <1>5, FS_Subset
    <3> QED
      BY <1>1, <1>5, <2>3, <3>1
  <2> QED
    BY <2>2, <2>4
<1>10. CASE Reaching(h) # {}
  <2> DEFINE m == Max(Reaching(h))
  <2>1. m \in Reaching(h) /\ (\A i \in Reaching(h) : i <= m) /\ m \in 0 .. Bins - 1
    BY <1>8, <1>10, MaxBucket
  <2>2. cut[b] = PerBin * m
    BY <1>10 DEF CutAt, h
  <2> HIDE DEF m
  <2>3. Survivors(b) = Beyond(m)
    BY <1>2, <1>3, <2>1, <2>2
  <2>4. Cardinality(Beyond(m)) >= TopK
    BY <1>7, <2>1
  <2>5. ASSUME NEW p \in Survivors(b)
        PROVE  Cardinality({n \in Lit(b) : Bucket(score[b][n]) > Bucket(score[b][p])}) < TopK
    <3> DEFINE k == Bucket(score[b][p])
               Better == {n \in Lit(b) : Bucket(score[b][n]) > k}
    <3>1. k \in 0 .. Bins - 1 /\ k >= m
      BY <1>3, <2>3, <2>5
    <3> HIDE DEF k
    <3>2. CASE m = Bins - 1
      <4>1. Better = {}
        BY <1>1, <1>3, <2>1, <3>1, <3>2
      <4> HIDE DEF Better
      <4>2. Cardinality(Better) < TopK
        BY <1>1, <4>1, FS_EmptySet
      <4> QED
        BY <4>2, Zenon DEF Better, k
    <3>3. CASE m # Bins - 1
      <4>1. m + 1 \in 0 .. Bins - 1 /\ ~(m + 1 <= m)
        BY <1>1, <2>1, <3>3
      <4>2. ~(Cardinality(Beyond(m + 1)) >= TopK)
        BY <1>7, <2>1, <4>1
      <4>3. Better \in SUBSET Beyond(m + 1)
        BY <1>3, <2>1, <3>1
      <4>4. Beyond(m + 1) \in SUBSET Lit(b)
        OBVIOUS
      <4> DEFINE A == Beyond(m + 1)
      <4> HIDE DEF A, Better
      <4>5. Cardinality(Better) <= Cardinality(A) /\ Cardinality(Better) \in Nat
        BY <1>5, <4>3, <4>4, FS_Subset, FS_CardinalityType DEF A
      <4>6. Cardinality(A) \in Nat /\ ~(Cardinality(A) >= TopK)
        BY <1>5, <4>2, <4>4 DEF A
      <4>7. Cardinality(Better) < TopK
        BY <1>1, <4>5, <4>6
      <4> QED
        BY <4>7, Zenon DEF Better, k
    <3> QED
      BY <3>2, <3>3
  <2>6. Survivors(b) \subseteq Lit(b)
    BY <1>2
  <2> QED
    BY <2>3, <2>4, <2>5, <2>6
<1> QED
    BY <1>9, <1>10

(* A result of XFeat is filled by the cutoff as far as there are keypoints *)
(* and lets none in that TopK others beat by a bucket, whatever the maps,  *)
(* the number of buckets and their width.                                  *)
THEOREM CutoffFillsAnyResult ==
    SurvivorsSpec => []CutoffFillsResult
<1>1. SurvivorsInit => Packing /\ Selecting
    BY PackingStarts, SelectingStarts
<1>2. Packing /\ Selecting /\ [SurvivorsNext]_survivorsVars => (Packing /\ Selecting)'
    BY PackingSteps, SelectingSteps DEF Packing
<1>3. Packing /\ Selecting => CutoffFillsResult
  <2> SUFFICES ASSUME Packing, Selecting, Synced, crate = "xfeat", NEW b \in Batch,
                      NEW Read, Read = {rows[b].kpts[k].of : k \in 0 .. ReadCount(b) - 1}
               PROVE  /\ Cardinality(Read) = Min({Cardinality(Lit(b)), TopK})
                      /\ \A p \in Read : Cardinality({n \in Lit(b) :
                            Bucket(score[b][n]) > Bucket(score[b][p])}) < TopK
    BY DEF CutoffFillsResult
  <2>1. \A x : ~Left(x)
    <3>1. Len(stage) = 0
      BY DEF Synced
    <3> QED
      BY <3>1 DEF Left
  <2>2. score \in [Batch -> [Pixels -> Int]] /\ cut[b] = CutAt(Counts(b))
    BY <2>1 DEF Selecting
  <2>3. /\ Read \subseteq Survivors(b)
        /\ Cardinality(Read) = Min({Cardinality(Survivors(b)), Cap})
    <3>1. EverySurvivorOnce
      BY Once
    <3> QED
      BY <3>1 DEF EverySurvivorOnce
  <2>4. /\ Survivors(b) \subseteq Lit(b)
        /\ Survivors(b) = Lit(b) \/ Cardinality(Survivors(b)) >= TopK
        /\ \A p \in Survivors(b) :
              Cardinality({n \in Lit(b) : Bucket(score[b][n]) > Bucket(score[b][p])}) < TopK
    BY <2>2, CutoffKeepsEnough
  <2>5. IsFiniteSet(Lit(b)) /\ Cardinality(Lit(b)) \in Nat
    BY <2>2, LitFacts
  <2>6. Cardinality(Survivors(b)) \in Nat /\ Cardinality(Survivors(b)) <= Cardinality(Lit(b))
    BY <2>4, <2>5, FS_Subset, FS_CardinalityType
  <2>7. Cap = TopK /\ TopK \in Nat
    BY SizesAssumption DEF Cap
  <2>8. Min({Cardinality(Survivors(b)), TopK}) = Min({Cardinality(Lit(b)), TopK})
    BY <2>4, <2>5, <2>6, <2>7, MinPair
  <2> QED
    BY <2>3, <2>4, <2>7, <2>8
<1> QED
    BY <1>1, <1>2, <1>3, PTL DEF SurvivorsSpec
=============================================================================
