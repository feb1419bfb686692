----------------------- MODULE ApplicationsProperties -----------------------
(***************************************************************************)
(* What the camera programs must get right between the models they wire    *)
(* together.                                                               *)
(***************************************************************************)
EXTENDS Applications

(* Whatever the tracker is given, or the overlay draws, of an instance is  *)
(* of that instance: its box, its depth out of this frame's map, and an    *)
(* embedding of its own box, though boxes without one lie in between and   *)
(* buffers hold an older frame's; and no instance of the frame is missing. *)
FedFromOneInstance ==
    At("show") =>
        /\ DOMAIN host.boxes = DOMAIN frame.scene
        /\ \A i \in DOMAIN host.boxes : host.boxes[i] = <<n, i>>
        /\ app \in {"depth", "track"} =>
              \A i \in DOMAIN host.boxes : host.depths[i] = [of |-> <<n, i>>, in |-> n]
        /\ app = "track" => \A i \in DOMAIN frame.scene :
              /\ host.fed[i].box = <<n, i>>
              /\ host.fed[i].feature \in {None, [osnet |-> <<n, i>>], [tokens |-> <<n, i>>]}
              /\ ~frame.scene[i].person => host.fed[i].feature # [osnet |-> <<n, i>>]

(* Between frames of one timebase the tracker is stepped by the time of    *)
(* one turn and never of several: the gap of this very frame when both     *)
(* carry stamps that are closer than GapLimit, else the time between the   *)
(* tops of the last two turns. "RTSP reconnect resets the timebase": the   *)
(* two stamps then measure nothing, but a difference that comes out        *)
(* positive and below GapLimit is taken for a gap. Such a step is forward  *)
(* and shorter than GapLimit, and the only one a reconnect spoils.         *)
IntervalSound ==
    At("show") /\ app = "track" =>
        LET b == frame.before
        IN  /\ frame.base = b.base =>
                 host.interval = IF NoPts \notin {frame.pts, b.pts} /\ frame.gap < GapLimit
                                 THEN frame.gap
                                 ELSE b.gap
            /\ frame.base # b.base => host.interval = b.gap \/ host.interval \in 1 .. GapLimit - 1

(* A clip that was asked for is written, once, unless the program ends     *)
(* with the source or an error: it does not record for ever.               *)
ClipCompletes ==
    (app = "track" /\ sink = "gif") ~> (clip.written \/ pc \in {"ended", "failed"})

------------------------------------------------------------------------------

Settled == app = "keyframes" /\ queue = <<>>

(* The bank, its thumbnails and its last matches speak of the same         *)
(* keyframes, and no place is held twice.                                  *)
KeyframesAligned ==
    Settled => \A i \in DOMAIN mem.bank :
        /\ keys.last[i] < n
        /\ mem.bank[i] = keys.past[keys.last[i] + 1] \/ mem.bank[i] = Dark
        /\ sink = "serve" => mem.bank[i] = keys.past[keys.thumbs[i] + 1]
        /\ mem.bank[i] # Dark => \A j \in DOMAIN mem.bank \ {i} : mem.bank[j] # mem.bank[i]

(* The frame a keyframe's place was last in front of the camera. A dark    *)
(* keyframe is seen once, when it is enrolled.                             *)
LastSeen(i) ==
    LET at == {k \in DOMAIN keys.past : keys.past[k] = mem.bank[i]}
    IN  IF mem.bank[i] = Dark THEN keys.last[i] + 1
        ELSE CHOOSE k \in at : \A j \in at : j <= k

(* "places you keep revisiting survive eviction": the keyframe that makes  *)
(* room is the one whose place has not been seen for longest.              *)
LeastSeenLeaves ==
    [][\A v \in DOMAIN keys.last :
          Settled /\ keys.enrolled' # keys.enrolled /\ queue' # <<>> /\ queue'[1].row = v =>
              \A i \in DOMAIN keys.last : LastSeen(v) <= LastSeen(i)]_vars

(* What a frame is shown and tracked with is measured on it: its           *)
(* instances, and the time of its turn as far as stamps of two timebases   *)
(* allow.                                                                  *)
FedAsMeasured == FedFromOneInstance /\ IntervalSound
=============================================================================
