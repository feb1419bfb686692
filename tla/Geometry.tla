------------------------------ MODULE Geometry -------------------------------
(***************************************************************************)
(* The geometry under association and undistortion: how well two boxes     *)
(* agree, in pixels or in metres, and where a straightened pixel is read.  *)
(* Boxes are <<x1, y1, x2, y2>> and ratios pairs <<n, d>> with d > 0, so   *)
(* that nothing is rounded.                                                *)
(***************************************************************************)
EXTENDS Integers, FiniteSets

CONSTANTS
    ImageBoxes,     \* boxes of tracks and detections, also degenerate ones
    Depths,         \* metric depths, with NoDepth
    NoDepth,
    Cameras,        \* [fx, fy, cx, cy]
    Coefficients,   \* of the lens, in parts of LensUnit
    LensUnit,
    Frame           \* <<width, height>> of a picture

VARIABLE scene      \* what is measured: two boxes, their depths, a camera, a lens

Greater(a, b) == IF a >= b THEN a ELSE b
Lesser(a, b) == IF a <= b THEN a ELSE b
Sq(a) == a * a
Leq(r, s) == r[1] * s[2] <= s[1] * r[2]
Same(r, s) == r[1] * s[2] = s[1] * r[2]

Area(a) == Greater(a[3] - a[1], 0) * Greater(a[4] - a[2], 0)
Inter(a, b) ==
    Area(<<Greater(a[1], b[1]), Greater(a[2], b[2]), Lesser(a[3], b[3]), Lesser(a[4], b[4])>>)
iou(a, b) ==
    LET union == Area(a) + Area(b) - Inter(a, b)
    IN  IF union <= 0 THEN <<0, 1>> ELSE <<Inter(a, b), union>>

(* Both boxes grow by buffer times their size on each side.                *)
Grown(a, buffer) ==
    LET w == a[3] - a[1]
        h == a[4] - a[2]
    IN  <<a[1] - buffer * w, a[2] - buffer * h, a[3] + buffer * w, a[4] + buffer * h>>
biou(a, b, buffer) ==
    IF buffer <= 0 THEN iou(a, b) ELSE iou(Grown(a, buffer), Grown(b, buffer))

(* r - d / c, with the similarity alone where nothing is enclosed.         *)
Less(r, d, c) == IF c <= 0 THEN r ELSE <<r[1] * c - d * r[2], r[2] * c>>

(* Twice the distances, for centres between pixels. Fault: between the     *)
(* corners, so that size counts as distance.                               *)
CentreOffFault(a, b) == Sq(2 * (a[1] - b[1])) + Sq(2 * (a[2] - b[2]))
CentreOff(a, b) == Sq(a[1] + a[3] - b[1] - b[3]) + Sq(a[2] + a[4] - b[2] - b[4])
diou(a, b) ==
    Less(iou(a, b), CentreOff(a, b),
         4 * (Sq(Greater(a[3], b[3]) - Lesser(a[1], b[1])) + Sq(Greater(a[4], b[4]) - Lesser(a[2], b[2]))))

(* A pixel, given twice, at a depth; in metres times 2 fx fy.              *)
unproject(cam, u, v, z) ==
    <<(u - 2 * cam.cx) * cam.fy * z, (v - 2 * cam.cy) * cam.fx * z, 2 * cam.fx * cam.fy * z>>
Highest(s) == CHOOSE x \in s : \A y \in s : y <= x
Lowest(s) == CHOOSE x \in s : \A y \in s : x <= y
diou3d(a, b, az, bz, cam) ==
    IF NoDepth \in {az, bz} THEN diou(a, b)
    ELSE LET Middle(k, z) == unproject(cam, k[1] + k[3], k[2] + k[4], z)
             Corners(k, z) == {unproject(cam, 2 * k[1], 2 * k[2], z), unproject(cam, 2 * k[3], 2 * k[4], z)}
             off == [d \in 1 .. 3 |-> Middle(a, az)[d] - Middle(b, bz)[d]]
             Extent(d) == LET at == {q[d] : q \in Corners(a, az) \cup Corners(b, bz)}
                          IN  Highest(at) - Lowest(at)
         IN  Less(iou(a, b), Sq(off[1]) + Sq(off[2]) + Sq(off[3]), Sq(Extent(1)) + Sq(Extent(2)) + Sq(Extent(3)))

(* The square of the distance of a detection's centre from a track's, in   *)
(* parts of the track, one and a half of which count as 1.                 *)
center_cost(a, b) ==
    LET w == Greater(a[3] - a[1], 2)
        h == Greater(a[4] - a[2], 2)
        r == <<4 * (Sq((a[1] + a[3] - b[1] - b[3]) * h) + Sq((a[2] + a[4] - b[2] - b[4]) * w)), 9 * Sq(w) * Sq(h)>>
    IN  IF Leq(r, <<1, 1>>) THEN r ELSE <<1, 1>>
------------------------------------------------------------------------------
(* Where the lens has put the pixel (u, v) of the straight picture, times  *)
(* LensUnit * fx * fx * fy * fy.                                           *)
Bent(cam) == LensUnit * Sq(cam.fx) * Sq(cam.fy)
Distorted(cam, k1, u, v) ==
    LET x == u - cam.cx
        y == v - cam.cy
        d == Bent(cam) + k1 * (Sq(x * cam.fy) + Sq(y * cam.fx))
    IN  <<x * d + cam.cx * Bent(cam), y * d + cam.cy * Bent(cam)>>

(* The pixels a thread of undistort_remap blends; none where it is black.  *)
Next1(at, size) == Lesser(at + 1, size - 1)
Sampled(cam, k1, u, v) ==
    LET s == Distorted(cam, k1, u, v)
        x0 == s[1] \div Bent(cam)
        y0 == s[2] \div Bent(cam)
    IN  IF s[1] < 0 \/ s[2] < 0 \/ s[1] > (Frame[1] - 1) * Bent(cam) \/ s[2] > (Frame[2] - 1) * Bent(cam)
        THEN {} ELSE {x0, Next1(x0, Frame[1])} \X {y0, Next1(y0, Frame[2])}

GeometryInit ==
    scene \in [a : ImageBoxes, b : ImageBoxes, az : Depths, bz : Depths, cam : Cameras, k1 : Coefficients]
GeometryOff == scene = <<>>

-----------------------------------------------------------------------------
(***************************************************************************)
(* What association and the lens correction may rely on.                   *)
(***************************************************************************)

Measuring == DOMAIN scene # {}

(* The overlap is the share of the pixels of either box that are in both,  *)
(* also for boxes that are empty or turned inside out, and buffered        *)
(* overlap is that of the boxes with as much again around them.            *)
Cells(a) == (a[1] .. (a[3] - 1)) \X (a[2] .. (a[4] - 1))
Share(a, b) ==
    LET all == Cells(a) \cup Cells(b)
    IN  IF all = {} THEN <<0, 1>> ELSE <<Cardinality(Cells(a) \cap Cells(b)), Cardinality(all)>>
OverlapIsShare ==
    Measuring =>
        /\ Same(iou(scene.a, scene.b), Share(scene.a, scene.b))
        /\ Same(biou(scene.a, scene.b, 0), Share(scene.a, scene.b))
        /\ Same(biou(scene.a, scene.b, 1), Share(Grown(scene.a, 1), Grown(scene.b, 1)))

(* Of boxes that overlap alike "DIoU picks that one" which "sits on one's  *)
(* centre", in the plane and in metres: nothing is lost exactly when the   *)
(* centres meet, and never more than 1. Two proper boxes at one depth      *)
(* agree in metres as in the plane if the pixels are square.               *)
Proper(a) == a[1] < a[3] /\ a[2] < a[4]
CentreDecides ==
    Measuring /\ Proper(scene.a) /\ Proper(scene.b) =>
        LET plane == diou(scene.a, scene.b)
            space == diou3d(scene.a, scene.b, scene.az, scene.bz, scene.cam)
            overlap == iou(scene.a, scene.b)
            Meet == /\ scene.a[1] + scene.a[3] = scene.b[1] + scene.b[3]
                    /\ scene.a[2] + scene.a[4] = scene.b[2] + scene.b[4]
        IN  /\ \A r \in {plane, space} : Leq(<<-1, 1>>, r) /\ Leq(r, overlap)
            /\ Same(plane, overlap) <=> Meet
            /\ scene.az = scene.bz /\ scene.cam.fx = scene.cam.fy => Same(space, plane)

(* The rescue by the centre never reaches for a detection whose centre is  *)
(* outside the box of the track, which another object may occupy: within   *)
(* the second gate of 1/2, each track of two pixels or more contains it.   *)
RescueStaysInside ==
    Measuring /\ scene.a[3] - scene.a[1] >= 2 /\ scene.a[4] - scene.a[2] >= 2
    /\ Leq(center_cost(scene.a, scene.b), <<1, 4>>) =>
        /\ 2 * scene.a[1] < scene.b[1] + scene.b[3] /\ scene.b[1] + scene.b[3] < 2 * scene.a[3]
        /\ 2 * scene.a[2] < scene.b[2] + scene.b[4] /\ scene.b[2] + scene.b[4] < 2 * scene.a[4]

(* No thread reads outside the picture, whatever lens and camera; a lens   *)
(* that bends nothing gives every pixel back, and every lens its centre.   *)
Pixels == (0 .. Frame[1] - 1) \X (0 .. Frame[2] - 1)
RemapStaysInside ==
    Measuring => \A q \in Pixels :
        /\ Sampled(scene.cam, scene.k1, q[1], q[2]) \subseteq Pixels
        /\ scene.k1 = 0 \/ q = <<scene.cam.cx, scene.cam.cy>>
           => Distorted(scene.cam, scene.k1, q[1], q[2]) = <<q[1] * Bent(scene.cam), q[2] * Bent(scene.cam)>>

(* Costs and corrections are what the stages take them for: shares of      *)
(* pixels, nearness of centres, and pixels of this picture.                *)
GeometryExact == OverlapIsShare /\ CentreDecides /\ RescueStaysInside /\ RemapStaysInside
==============================================================================
