------------------------------ MODULE Sampling -------------------------------
(***************************************************************************)
(* What is read out of a frame for one object: the depth under its box or  *)
(* its mask, the crop its embedding is made of, the crop that is filed     *)
(* under its id, and the joints of its pose.                               *)
(*                                                                         *)
(* The detector packs survivors into the first slots of buffers it uses    *)
(* again for every frame; the depth kernels run on all slots, before any   *)
(* host knows how many survived. A depth is what the map holds, 0 where it *)
(* holds none; a mean is <<sum, count>>.                                   *)
(***************************************************************************)
EXTENDS Geometry, Sequences, FiniteSetsExt

CONSTANTS
    DepthMaps,      \* [size, z]: z of every pixel <<x, y>>
    Foreign,        \* what memory holds beside the map
    MaskSize,       \* <<width, height>> of the mask grid
    Detections,     \* frames: sequences of [box, mask]
    LaterDetections,
    Slots,          \* rows of the detector's buffers
    SourceSizes,    \* <<width, height>> a caller may claim, also of none
    Strides,        \* lanes of a box row, of which x1, y1, x2, y2 are the first
    Threads,        \* of a block: a power of two
    CropGrid,       \* <<width, height>> of an embedder's input
    MinCrop,        \* crops no larger are not filed
    Heads,          \* [q, classes, slots, ch] of keypoint engines
    NUM_KP, PERSON_CLASS,
    MaxFrames       \* bound

VARIABLES
    depthMap,
    packed,         \* slot -> [box, mask], of whatever frame wrote it last
    live,           \* survivors of this frame
    compiled,       \* whether the kernels are in the process-wide cache
    boxDepth, maskDepth,    \* [err, z] of this frame
    frames

samplingVars == <<depthMap, packed, live, compiled, boxDepth, maskDepth, frames>>

Slot == 0 .. (Slots - 1)
Ceil(n, d) == -((-n) \div d)
------------------------------------------------------------------------------
(* The sum of f over 0 .. n - 1 by one block: each thread adds up every    *)
(* Threads-th, then the lower half of the lanes takes in the upper half,   *)
(* again and again.                                                        *)
Lanes(f, n) == [t \in 0 .. (Threads - 1) |-> MapThenSumSet(LAMBDA p : f[p], {p \in 0 .. (n - 1) : p % Threads = t})]
Folded(lanes) ==
    LET After[s \in 1 .. Threads] ==
            IF s = Threads THEN lanes
            ELSE [t \in 0 .. (Threads - 1) |->
                    IF t < s THEN After[2 * s][t] + After[2 * s][t + s] ELSE After[2 * s][t]]
    IN  After
BlockSum(f, n) == Folded(Lanes(f, n))[1][0]

(* A mean of the depths there are; nothing of pixels without one.          *)
BlockMean(f, n) ==
    LET cnt == BlockSum([p \in 0 .. (n - 1) |-> IF f[p] > 0 THEN 1 ELSE 0], n)
    IN  IF cnt > 0 THEN <<BlockSum([p \in 0 .. (n - 1) |-> IF f[p] > 0 THEN f[p] ELSE 0], n), cnt>>
        ELSE <<0, 1>>

DepthAt(p) == IF p \in DOMAIN depthMap.z THEN depthMap.z[p] ELSE Foreign

(* The pixels of one axis of the map a box from a to b of the source lies  *)
(* on: half of it, around its middle.                                      *)
Patch(a, b, map, src) ==
    Greater(0, (map * (3 * a + b)) \div (4 * src)) .. Lesser(map - 1, Ceil(map * (a + 3 * b), 4 * src))

(* depth_box                                                               *)
UnderBox(box, src) ==
    LET xs == Patch(box[1], box[3], depthMap.size[1], src[1])
        ys == Patch(box[2], box[4], depthMap.size[2], src[2])
        w == Cardinality(xs)
        n == w * Cardinality(ys)
    IN  IF n = 0 THEN <<0, 1>>
        ELSE BlockMean([p \in 0 .. (n - 1) |-> DepthAt(<<Min(xs) + (p % w), Min(ys) + p \div w>>)], n)

(* depth_mask: the pixel of the map a cell of the mask grid lies on.       *)
(* Fault: the grid of the mask is taken for that of the map.               *)
CellDepthFault(p) == DepthAt(<<p % MaskSize[1], p \div MaskSize[1]>>)
CellDepth(p) ==
    DepthAt(<<Lesser(depthMap.size[1] - 1, ((p % MaskSize[1]) * depthMap.size[1]) \div MaskSize[1]),
              Lesser(depthMap.size[2] - 1, ((p \div MaskSize[1]) * depthMap.size[2]) \div MaskSize[2])>>)
UnderMask(mask) ==
    LET n == MaskSize[1] * MaskSize[2]
    IN  BlockMean([p \in 0 .. (n - 1) |-> IF p \in mask THEN CellDepth(p) ELSE 0], n)

(* A launch over all slots of a zeroed result: those without a survivor    *)
(* stay as they are.                                                       *)
IsLive(s) == s < live
OfTheLive(Z(_)) == [s \in Slot |-> IF IsLive(s) THEN Z(packed[s]) ELSE <<0, 1>>]
------------------------------------------------------------------------------
(* crop_resize_norm: the pixels of one axis a column of the crop blends,   *)
(* with a weight that is not zero.                                         *)
Taps(a, b, o, n, size) ==
    LET u == 2 * n * a + (b - a) * (2 * o + 1) - n
    IN  {Lesser(Greater(k, 0), size - 1) : k \in {u \div (2 * n)} \cup (IF u % (2 * n) = 0 THEN {} ELSE {u \div (2 * n) + 1})}

(* dump_frame: the columns, or rows, of a frame that are filed for a box,  *)
(* and the cell of the mask that goes with one of them.                    *)
Filed(a, b, size) ==
    LET lo == Greater(a, 0)
        hi == Lesser(Greater(b, 0), size)
    IN  IF hi <= lo + MinCrop THEN {} ELSE lo .. (hi - 1)
FiledCell(lo, k, grid, size) == Lesser(((lo + k) * grid) \div size, grid - 1)

(* tint_mask: the columns of the picture a box reaches, and their cells.   *)
Tinted(a, b, size) == Lesser(Greater(a, 0), size) .. (Lesser(Greater(b, 0), size) - 1)
TintCell(x, grid, size) == (x * grid) \div size

(* KptsResult::poses: where the channels of a joint begin.                 *)
JointsPer(h) == Greater(h.slots \div h.classes, 1)
JointAt(h, qi, j) == (qi * h.slots + PERSON_CLASS * JointsPer(h) + j) * h.ch
JointReads(h, qi, j) ==
    {JointAt(h, qi, j) + c : c \in {0, 1, 2} \cup (IF h.ch >= 7 THEN {4, 5, 6} ELSE {})}
------------------------------------------------------------------------------
Nothing == [s \in Slot |-> <<0, 1>>]
Unsampled == [err |-> "pending", z |-> Nothing]
Failed(why) == [err |-> why, z |-> Nothing]

SamplingInit ==
    /\ depthMap \in DepthMaps
    /\ packed = [s \in Slot |-> [box |-> <<0, 0, 0, 0>>, mask |-> {}]]
    /\ live = 0
    /\ compiled = FALSE
    /\ boxDepth = Unsampled /\ maskDepth = Unsampled
    /\ frames = 0
SamplingOff ==
    /\ depthMap = <<>> /\ packed = <<>> /\ live = 0 /\ compiled = FALSE
    /\ boxDepth = Unsampled /\ maskDepth = Unsampled /\ frames = 0

(* The survivors of a frame, over those of the frames before.              *)
Pack ==
    /\ frames < MaxFrames
    /\ frames' = frames + 1
    /\ \E dets \in IF frames = 0 THEN Detections ELSE LaterDetections :
          /\ live' = Len(dets)
          /\ packed' = [s \in Slot |-> IF s < Len(dets) THEN dets[s + 1] ELSE packed[s]]
    /\ boxDepth' = Unsampled /\ maskDepth' = Unsampled
    /\ UNCHANGED <<depthMap, compiled>>

(* sample_kernels: compiled by the first call that gets through; a call    *)
(* that failed or panicked inside the lock leaves the cache empty.         *)
SampleKernels(Launch(_)) ==
    IF compiled THEN Launch("ok") /\ UNCHANGED compiled
    ELSE \/ compiled' = TRUE /\ Launch("ok")
         \/ UNCHANGED compiled /\ Launch("compile")

SampleBoxes ==
    /\ frames > 0 /\ boxDepth.err = "pending"
    /\ \E src \in SourceSizes, stride \in Strides :
          IF stride = 0 \/ src[1] <= 0 \/ src[2] <= 0
          THEN boxDepth' = Failed("argument") /\ UNCHANGED compiled
          ELSE LET Launch(how) ==
                       boxDepth' = IF how # "ok" THEN Failed(how)
                                   ELSE [err |-> "none", z |-> OfTheLive(LAMBDA d : UnderBox(d.box, src)), src |-> src]
               IN  SampleKernels(Launch)
    /\ UNCHANGED <<depthMap, packed, live, maskDepth, frames>>

SampleMasks ==
    /\ frames > 0 /\ maskDepth.err = "pending"
    /\ LET Launch(how) ==
               maskDepth' = IF how # "ok" THEN Failed(how)
                            ELSE [err |-> "none", z |-> OfTheLive(LAMBDA d : UnderMask(d.mask))]
       IN  SampleKernels(Launch)
    /\ UNCHANGED <<depthMap, packed, live, boxDepth, frames>>

SamplingNext == Pack \/ SampleBoxes \/ SampleMasks

-----------------------------------------------------------------------------
(***************************************************************************)
(* What those who read a sample, a crop or a pose take for granted.        *)
(***************************************************************************)

Looking == DOMAIN depthMap # {}
Packed == Looking /\ boxDepth.err = "pending" /\ maskDepth.err = "pending"
MapPixels == (0 .. depthMap.size[1] - 1) \X (0 .. depthMap.size[2] - 1)

(* "Slots >= the live count are left at 0": what a box or a mask of an     *)
(* earlier frame would sample never reaches the buffer, so that it "is     *)
(* safe to read in full", also where the launch failed.                    *)
StaleSlotsStayZero ==
    Looking => \A s \in Slot : s >= live => boxDepth.z[s] = <<0, 1>> /\ maskDepth.z[s] = <<0, 1>>

(* The depth of an instance is the mean of the depths on the pixels its    *)
(* mask is on and of no others, whatever the two grids and however many    *)
(* threads add it up.                                                      *)
Lies(p, q) ==
    /\ q[1] * MaskSize[1] <= (p % MaskSize[1]) * depthMap.size[1]
    /\ (p % MaskSize[1]) * depthMap.size[1] < (q[1] + 1) * MaskSize[1]
    /\ q[2] * MaskSize[2] <= (p \div MaskSize[1]) * depthMap.size[2]
    /\ (p \div MaskSize[1]) * depthMap.size[2] < (q[2] + 1) * MaskSize[2]
MaskDepthIsOfTheObject ==
    Looking /\ maskDepth.err = "none" =>
        \A s \in 0 .. (live - 1) :
            LET on == {w \in packed[s].mask \X MapPixels : Lies(w[1], w[2]) /\ depthMap.z[w[2]] > 0}
            IN  maskDepth.z[s] = IF on = {} THEN <<0, 1>>
                                 ELSE <<MapThenSumSet(LAMBDA w : depthMap.z[w[2]], on), Cardinality(on)>>

(* "Average the depth over the box's inner-50% central patch": the depth   *)
(* of a box is one between the nearest and the farthest of the pixels the  *)
(* box lies on, if it is four pixels of the map or more wide and high; and *)
(* a box whose middle is on a map without holes has a depth.               *)
Lying(a, b, map, src) == {k \in 0 .. (map - 1) : src * (k + 1) > map * a /\ src * k < map * b}
BoxDepthIsOfTheObject ==
    Looking /\ boxDepth.err = "none" =>
        \A s \in 0 .. (live - 1) :
            LET box == packed[s].box
                src == boxDepth.src
                z == boxDepth.z[s]
                w == depthMap.size[1]
                h == depthMap.size[2]
                own == {depthMap.z[q] : q \in Lying(box[1], box[3], w, src[1]) \X Lying(box[2], box[4], h, src[2])}
            IN  /\ w * (box[3] - box[1]) >= 4 * src[1] /\ h * (box[4] - box[2]) >= 4 * src[2] /\ z # <<0, 1>>
                   => /\ \E d \in own : d * z[2] <= z[1]
                      /\ \E d \in own : z[1] <= d * z[2]
                /\ box[1] + box[3] \in 0 .. (2 * src[1] - 1) /\ box[2] + box[4] \in 0 .. (2 * src[2] - 1)
                   /\ (\A q \in MapPixels : depthMap.z[q] > 0) => z[1] > 0

(* No crop reads outside the frame, wherever the box is. One of a box in   *)
(* the frame reads no farther than a pixel beyond it, all of it where it   *)
(* is not shrunk, and the picture itself where it is not scaled.           *)
CropIsTheBox ==
    Packed => \A s \in Slot : \A d \in {1, 2} : \A src \in SourceSizes :
        src[d] > 0 =>
            LET a == packed[s].box[d]
                b == packed[s].box[d + 2]
                n == CropGrid[d]
                read == UNION {Taps(a, b, o, n, src[d]) : o \in 0 .. (n - 1)}
            IN  /\ read \subseteq 0 .. (src[d] - 1)
                /\ 0 <= a /\ a < b /\ b <= src[d] =>
                     /\ read \subseteq (a - 1) .. b
                     /\ b - a <= n => a .. (b - 1) \subseteq read
                     /\ b - a = n => \A o \in 0 .. (n - 1) : Taps(a, b, o, n, src[d]) = {a + o}

(* The mask filed with a crop shows the cells that are tinted in the       *)
(* picture where the crop was cut, and both stay in their grids.           *)
FiledAsTinted ==
    Packed => \A s \in Slot : \A d \in {1, 2} : \A src \in SourceSizes :
        LET a == packed[s].box[d]
            b == packed[s].box[d + 2]
            filed == Filed(a, b, src[d])
        IN  src[d] > 0 /\ filed # {} =>
                /\ filed = Tinted(a, b, src[d])
                /\ filed \subseteq 0 .. (src[d] - 1)
                /\ \A k \in 0 .. (Cardinality(filed) - 1) :
                      LET cell == FiledCell(Min(filed), k, MaskSize[d], src[d])
                      IN  cell \in 0 .. (MaskSize[d] - 1) /\ cell = TintCell(Min(filed) + k, MaskSize[d], src[d])

(* The joints of a person are read from its own query, from the slots of   *)
(* its class, and no channel serves two joints, for every engine with the  *)
(* two classes poses() counts on.                                          *)
JointsAreOnesOwn ==
    Looking /\ frames = 0 => \A h \in Heads :
        LET joints == 0 .. (Lesser(NUM_KP, JointsPer(h)) - 1)
        IN  \A a, b \in (0 .. (h.q - 1)) \X joints :
                /\ \A i \in JointReads(h, a[1], a[2]) :
                      /\ i \div (h.slots * h.ch) = a[1]
                      /\ (i \div h.ch) % h.slots >= PERSON_CLASS * JointsPer(h)
                /\ a # b => JointReads(h, a[1], a[2]) \cap JointReads(h, b[1], b[2]) = {}

(* Depths, crops, masks and joints are read off the pixels of their own    *)
(* instance, and a slot without an instance off none.                      *)
SampledFromItsOwn ==
    /\ StaleSlotsStayZero /\ MaskDepthIsOfTheObject /\ BoxDepthIsOfTheObject
    /\ CropIsTheBox /\ FiledAsTinted /\ JointsAreOnesOwn
==============================================================================
