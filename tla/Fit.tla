--------------------------------- MODULE Fit ---------------------------------
(***************************************************************************)
(* fit.rs: bringing an image of any size onto the grid of an engine. One   *)
(* scale for both axes, then the top left part that is whole cells, on the *)
(* host or on the device.                                                  *)
(*                                                                         *)
(* A pixel is <<w, h, x, y>>: column x and row y of the picture at w by h. *)
(* An image is its size and its pixels in memory order. A scale is a pair  *)
(* of numerator and denominator.                                           *)
(***************************************************************************)
EXTENDS Integers, Sequences

CONSTANTS
    GridDivisor,    \* 32
    Pictures,       \* sizes <<w, h>> of the images to fit
    MaxSides        \* caps a caller may ask for

VARIABLE fit        \* one image on its way through both routes

Larger(a, b) == IF a > b THEN a ELSE b
AtMost(a, b) == IF a < b THEN a ELSE b

TooSmall == [fits |-> FALSE]

(* min(max_side / longer side, 1) times both, rounded half up, at least 1; *)
(* then whole cells.                                                       *)
Plan(w, h, maxSide) ==
    LET longer == Larger(w, h)
        cap == AtMost(maxSide, longer)
        Round(a) == Larger((2 * a * cap + longer) \div (2 * longer), 1)
        Cells(a) == (Round(a) \div GridDivisor) * GridDivisor
    IN  IF Cells(w) = 0 \/ Cells(h) = 0 THEN TooSmall
        ELSE [fits |-> TRUE, rw |-> Round(w), rh |-> Round(h), cw |-> Cells(w), ch |-> Cells(h)]

(* The resampled picture, and the part of it from the top left corner.     *)
Resize(w, h) ==
    [w |-> w, h |-> h,
     px |-> [i \in 1 .. w * h |-> <<w, h, (i - 1) % w, (i - 1) \div w>>]]

CropImage(image, w, h) ==
    [w |-> w, h |-> h,
     px |-> [i \in 1 .. w * h |-> image.px[((i - 1) \div w) * image.w + ((i - 1) % w) + 1]]]

Scaled(image, picture, p) ==
    [fits |-> TRUE, image |-> image, x |-> <<p.rw, picture[1]>>, y |-> <<p.rh, picture[2]>>]

FitToEngine(picture, maxSide) ==
    LET p == Plan(picture[1], picture[2], maxSide)
    IN  IF ~p.fits THEN TooSmall
        ELSE IF p.cw = p.rw /\ p.ch = p.rh THEN Scaled(Resize(p.rw, p.rh), picture, p)
        ELSE Scaled(CropImage(Resize(p.rw, p.rh), p.cw, p.ch), picture, p)

(* Whole rows are a prefix of the memory and copied as such; else a kernel *)
(* picks the pixels.                                                       *)
CropTopLeftDevice(image, w, h) ==
    IF w = image.w THEN [w |-> w, h |-> h, px |-> SubSeq(image.px, 1, w * h)]
    ELSE CropImage(image, w, h)

FitToEngineCuda(picture, maxSide) ==
    LET p == Plan(picture[1], picture[2], maxSide)
    IN  IF ~p.fits THEN TooSmall
        ELSE Scaled(CropTopLeftDevice(Resize(p.rw, p.rh), p.cw, p.ch), picture, p)

(* A coordinate of the fitted image in the picture it came from: centres   *)
(* of pixels map to each other, as a fraction <<numerator, denominator>>.  *)
(* Fault: the corners do.                                                  *)
ToSourceFault(x, scale) == <<2 * x * scale[2], 2 * scale[1]>>

ToSource(x, scale) == <<(2 * x + 1) * scale[2] - scale[1], 2 * scale[1]>>
------------------------------------------------------------------------------
Pending == [fits |-> FALSE, image |-> "none"]

FitOff == fit = [pc |-> "idle"]

FitInit ==
    \E picture \in Pictures, maxSide \in MaxSides \cup {0} :
        fit = [picture |-> picture, pc |-> "host", host |-> Pending, device |-> Pending,
               maxSide |-> IF maxSide = 0 THEN Larger(picture[1], picture[2]) ELSE maxSide]

OnHost ==
    /\ fit.pc = "host"
    /\ fit' = [fit EXCEPT !.host = FitToEngine(fit.picture, fit.maxSide), !.pc = "device"]

OnDevice ==
    /\ fit.pc = "device"
    /\ fit' = [fit EXCEPT !.device = FitToEngineCuda(fit.picture, fit.maxSide), !.pc = "done"]

FitNext == OnHost \/ OnDevice
==============================================================================
