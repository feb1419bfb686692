---------------------------- MODULE Applications ----------------------------
(***************************************************************************)
(* The camera programs under examples/: one loop each, which takes a       *)
(* frame, enqueues models on the one stream, waits once, reads back and    *)
(* hands on what it read: to the tracker, to a picture, to a bank of       *)
(* keyframes.                                                              *)
(*                                                                         *)
(* An instance is known by <<frame, slot>> all the way through the device, *)
(* so that a box, a depth or an embedding of another one shows. Time is    *)
(* counted in seconds of the camera; handling a frame takes none of it.    *)
(* A timebase is what stamps are relative to: a reconnect starts another.  *)
(***************************************************************************)
EXTENDS Integers, FiniteSets, SequencesExt

CONSTANTS
    Apps,           \* programs to run
    Look,           \* what an instance may look like
    MaxInstances,   \* instances in a frame
    Batch,          \* rows of the OSNet engine
    Gaps,           \* seconds from a frame to the next
    Timebases,      \* offsets of the camera's stamps
    GapLimit,       \* 2 s, from which on a gap of stamps is a reset
    ClipSecs,       \* length of the clip
    Warmup,         \* the frame the still picture is taken of, 60
    Place,          \* what the camera may be pointed at
    Dark,           \* a frame whose descriptor is NaN
    Capacity,       \* rows of the keyframe bank
    MinGap,         \* frames between enrolments
    MaxFrame,       \* bound: frames of a run of each program
    NoPts, None

ASSUME ApplicationsAssumption ==
    /\ {Batch, GapLimit, ClipSecs, Capacity, MinGap} \subseteq Nat \ {0}
    /\ Look \subseteq [person : BOOLEAN, deep : BOOLEAN, large : BOOLEAN, tokens : BOOLEAN]
    /\ Gaps \subseteq Nat \ {0} /\ Timebases \subseteq Int
    /\ Apps \subseteq {"detect", "segment", "depth", "track", "keyframes"}
    /\ NoPts \notin Int /\ None \notin Nat /\ None \notin [osnet : Nat \X Nat]

VARIABLES
    app, sink,      \* the program, and where its output goes
    pc,             \* where the loop is
    n,              \* frames handled
    frame,          \* the frame in hand: what is in it and when it was taken
    queue, mem,     \* the stream, and what its buffers hold
    host,           \* what was read back of this frame, and handed on
    clock,          \* prev, prev_pts and the start of the run
    clip,           \* frames recorded, and whether the output is written
    keys            \* the host's side of the keyframe bank; enrolled and past
                    \* (last frame enrolled, places seen) are history

vars == <<app, sink, pc, n, frame, queue, mem, host, clock, clip, keys>>

Sinks == [detect    |-> {"none"},
          segment   |-> {"none", "png"},
          depth     |-> {"none", "png"},
          track     |-> {"none", "png", "gif", "serve", "dump"},
          keyframes |-> {"none", "serve"}]

(* What a turn of the loop enqueues before its one synchronize. *)
Program == [detect    |-> <<"seg">>,
            segment   |-> <<"seg">>,
            depth     |-> <<"seg", "depth", "fuse">>,
            track     |-> <<"rectify", "seg", "depth", "fuse">>,
            keyframes |-> <<"dino", "match">>]

Scenes == IF app = "track" THEN UNION {[1 .. k -> Look] : k \in 0 .. MaxInstances}
          ELSE {[i \in 1 .. k |-> l] : k \in 0 .. MaxInstances, l \in Look}

FirstFrame == [scene |-> <<>>, place |-> None, t0 |-> 0, cap |-> 0, gap |-> 0,
               pts |-> NoPts, base |-> 0, before |-> [gap |-> 0, pts |-> NoPts, base |-> 0]]

NothingRead == [boxes |-> <<>>, depths |-> <<>>, persons |-> <<>>, fed |-> <<>>,
                interval |-> 0]

Buffers == [image |-> -1, boxes |-> <<>>, map |-> -1, depths |-> <<>>,
            embs |-> [k \in 1 .. Batch |-> None],
            descriptor |-> None, bank |-> <<>>, scores |-> <<>>]

(* since: u64::MAX at the start; it is counted no further than MinGap. *)
NoKeyframe == [last |-> <<>>, thumbs |-> <<>>, since |-> MinGap,
               enrolled |-> None, past |-> <<>>]

Init ==
    /\ app \in Apps
    /\ sink \in Sinks[app]
    /\ pc = "top"
    /\ n = 0
    /\ frame = FirstFrame
    /\ queue = <<>>
    /\ mem = Buffers
    /\ host = NothingRead
    /\ clock = [prev |-> 0, prevPts |-> NoPts]
    /\ clip = [frames |-> 0, taken |-> FALSE, written |-> FALSE]
    /\ keys = NoKeyframe

------------------------------------------------------------------------------
(* The device works the stream off, in order. *)

Similar(d, row) == IF Dark \in {d, row} THEN None ELSE IF d = row THEN 2 ELSE 1

(* The pixels a kernel reads: those rectified last, or the frame's own. *)
Pixels(op, m) == IF app = "track" THEN m.image ELSE op.frame

Effect(op, m) ==
    CASE op.do = "rectify" -> [m EXCEPT !.image = op.frame]
      [] op.do = "seg"     -> [m EXCEPT !.boxes = [i \in 1 .. op.instances |->
                                                      <<Pixels(op, m), i>>]]
      [] op.do = "depth"   -> [m EXCEPT !.map = Pixels(op, m)]
      [] op.do = "fuse"    -> [m EXCEPT !.depths = [i \in DOMAIN m.boxes |->
                                                       [of |-> m.boxes[i], in |-> m.map]]]
      [] op.do = "osnet"   -> [m EXCEPT !.embs = [k \in 1 .. Batch |->
                                 IF k \in DOMAIN op.boxes
                                 THEN <<Pixels(op, m), op.boxes[k][2]>> ELSE @[k]]]
      [] op.do = "dino"    -> [m EXCEPT !.descriptor = op.place]
      [] op.do = "match"   -> [m EXCEPT !.scores = [i \in DOMAIN m.bank |->
                                                       Similar(m.descriptor, m.bank[i])]]
      [] op.do = "row"     -> [m EXCEPT !.bank = IF op.row \in DOMAIN @
                                                 THEN [@ EXCEPT ![op.row] = m.descriptor]
                                                 ELSE Append(@, m.descriptor)]

DeviceCatchesUp ==
    /\ queue # <<>>
    /\ mem' = Effect(Head(queue), mem)
    /\ queue' = Tail(queue)
    /\ UNCHANGED <<app, sink, pc, n, frame, host, clock, clip, keys>>

------------------------------------------------------------------------------
(* The loop. *)

At(p) == pc = p
Go(p) == pc' = p

(* The program ends, and all it held goes but the file it wrote. *)
Exit(how) ==
    /\ Go(how)
    /\ frame' = FirstFrame /\ queue' = <<>> /\ mem' = Buffers /\ host' = NothingRead
    /\ keys' = NoKeyframe
    /\ UNCHANGED <<app, sink, n, clock>>

(* Every call of the loop is followed by a question mark. *)
Fail ==
    /\ pc \in {"got", "wait", "read", "embedding", "show", "keyframe"}
    /\ Exit("failed")
    /\ UNCHANGED clip

(* Only the tracker looks at the time, only the keyframes at where the     *)
(* camera points. t0 is taken before the wait for the frame.               *)
NextFrame ==
    /\ At("top")
    /\ n < MaxFrame[app]
    /\ \E scene \in Scenes, place \in Place \cup {Dark}, gap \in Gaps,
          base \in Timebases, stamped \in BOOLEAN :
          /\ IF app = "keyframes" THEN scene = <<>> ELSE place = Dark
          /\ app # "track" => gap = 1 /\ ~stamped
          /\ ~stamped => base = frame.base
          /\ frame' = [scene |-> scene, place |-> place, t0 |-> frame.cap,
                       cap |-> frame.cap + gap, gap |-> gap, base |-> base,
                       pts |-> IF stamped THEN frame.cap + gap + base ELSE NoPts,
                       before |-> [gap |-> frame.gap, pts |-> frame.pts, base |-> frame.base]]
    /\ Go("got")
    /\ UNCHANGED <<app, sink, n, queue, mem, host, clock, clip, keys>>

SourceEnds ==
    /\ At("top")
    /\ Exit("ended")
    /\ UNCHANGED clip

Turn == [i \in DOMAIN Program[app] |->
            [do |-> Program[app][i], frame |-> n, place |-> frame.place,
             instances |-> Len(frame.scene)]]

Submit ==
    /\ At("got")
    /\ queue' = queue \o Turn
    /\ Go("wait")
    /\ UNCHANGED <<app, sink, n, frame, mem, host, clock, clip, keys>>

Synchronize ==
    /\ At("wait")
    /\ queue = <<>>
    /\ Go(IF app = "keyframes" THEN "keyframe" ELSE "read")
    /\ UNCHANGED <<app, sink, n, frame, queue, mem, host, clock, clip, keys>>

(* count, detections and the depths of the live prefix. *)
Readout ==
    /\ At("read")
    /\ host' = [host EXCEPT !.boxes = mem.boxes, !.depths = mem.depths]
    /\ Go(IF app = "track" THEN "embed" ELSE "show")
    /\ UNCHANGED <<app, sink, n, frame, queue, mem, clock, clip, keys>>

------------------------------------------------------------------------------
(* rtsp_track: embeddings of the persons, by another submit and wait. *)

AsLook(i) == frame.scene[i]

(* idx: detections of a person, sure enough, as many as the engine takes.  *)
Persons ==
    LET all == {i \in DOMAIN host.boxes : AsLook(i).person}
        upTo(i) == Cardinality({j \in all : j <= i})
        taken == IF Cardinality(all) < Batch THEN Cardinality(all) ELSE Batch
    IN  [k \in 1 .. taken |-> CHOOSE i \in all : upTo(i) = k]

NoPersons ==
    /\ At("embed")
    /\ Persons = <<>>
    /\ Go("feed")
    /\ UNCHANGED <<app, sink, n, frame, queue, mem, host, clock, clip, keys>>

SubmitPersons ==
    /\ At("embed")
    /\ Persons # <<>>
    /\ queue' = Append(queue, [do |-> "osnet", boxes |-> [k \in DOMAIN Persons |->
                                                          host.boxes[Persons[k]]]])
    /\ Go("embedding")
    /\ UNCHANGED <<app, sink, n, frame, mem, host, clock, clip, keys>>

(* An error of submit or of the readout is logged: no embeddings then.     *)
PersonsFail ==
    /\ pc \in {"embed", "embedding"}
    /\ Persons # <<>>
    /\ Go("feed")
    /\ UNCHANGED <<app, sink, n, frame, queue, mem, host, clock, clip, keys>>

(* embs.get(k) belongs to detection idx[k]. *)
PersonsByRowFault == [k \in DOMAIN Persons |-> mem.embs[k]]
PersonsByRow == [i \in ToSet(Persons) |->
                    mem.embs[CHOOSE k \in DOMAIN Persons : Persons[k] = i]]

ReadPersons ==
    /\ At("embedding")
    /\ queue = <<>>
    /\ host' = [host EXCEPT !.persons = PersonsByRow]
    /\ Go("feed")
    /\ UNCHANGED <<app, sink, n, frame, queue, mem, clock, clip, keys>>

(* What the tracker is given of detection i. A mask without metric depth   *)
(* gives none; tokens stand in for a box that has no embedding, unless it  *)
(* is small or its tokens are zero.                                        *)
Fed(i) ==
    [box     |-> host.boxes[i],
     depth   |-> IF AsLook(i).deep THEN host.depths[i] ELSE None,
     feature |-> IF i \in DOMAIN host.persons THEN [osnet |-> host.persons[i]]
                 ELSE IF AsLook(i).large /\ AsLook(i).tokens THEN [tokens |-> host.boxes[i]]
                 ELSE None]

(* The time to step the tracker by: between stamps if they make sense, or  *)
(* between the tops of two turns.                                          *)
Interval ==
    IF /\ NoPts \notin {clock.prevPts, frame.pts}
       /\ frame.pts > clock.prevPts
       /\ frame.pts - clock.prevPts < GapLimit
    THEN frame.pts - clock.prevPts
    ELSE frame.t0 - clock.prev

PrevPts == frame.pts

FeedTracker ==
    /\ At("feed")
    /\ host' = [host EXCEPT !.fed = [i \in DOMAIN host.boxes |-> Fed(i)],
                            !.interval = Interval]
    /\ clock' = [prev |-> frame.t0, prevPts |-> PrevPts]
    /\ Go("show")
    /\ UNCHANGED <<app, sink, n, frame, queue, mem, clip, keys>>

------------------------------------------------------------------------------
(* Where the output goes. *)

Elapsed == frame.cap

(* What a turn read is dropped with it. *)
NextTurn(c) ==
    /\ Go("top")
    /\ n' = n + 1
    /\ clip' = c
    /\ host' = NothingRead
    /\ frame' = [frame EXCEPT !.scene = <<>>]

NextShown(c) == NextTurn(c) /\ UNCHANGED <<app, sink, queue, mem, clock, keys>>
Leave(c) == Exit("done") /\ clip' = c

Still == [clip EXCEPT !.taken = TRUE, !.written = TRUE]

ShowOnce ==
    /\ sink \in {"none", "png", "serve"}
    /\ NextShown(IF sink = "png" /\ n = Warmup /\ ~clip.taken THEN Still ELSE clip)

Dump ==
    /\ sink = "dump"
    /\ IF Elapsed > ClipSecs THEN Leave(clip) ELSE NextShown(clip)

RecordFault ==
    /\ sink = "gif"
    /\ IF n % 2 = 0 THEN NextShown([clip EXCEPT !.frames = @ + 1])
       ELSE IF Elapsed = ClipSecs /\ ~clip.taken THEN Leave(Still)
       ELSE NextShown(clip)

Record ==
    /\ sink = "gif"
    /\ IF Elapsed < ClipSecs
       THEN NextShown(IF n % 2 = 0 THEN [clip EXCEPT !.frames = @ + 1] ELSE clip)
       ELSE ~clip.taken /\ Leave(Still)

Show ==
    /\ At("show")
    /\ ShowOnce \/ Dump \/ Record

------------------------------------------------------------------------------
(* rtsp_dinov3: the policy of the keyframe bank. *)

(* The first row of the largest score; a NaN is larger than nothing. *)
Better(a, b) == a # None /\ (b = None \/ a > b)
BestId ==
    LET s == mem.scores
        tops == {i \in DOMAIN s : \A j \in DOMAIN s : ~Better(s[j], s[i])}
    IN  CHOOSE i \in tops : \A j \in tops : i <= j

Recognised == mem.scores # <<>> /\ mem.scores[BestId] = 2

ShouldEnroll ==
    \/ keys.last = <<>>
    \/ ~Recognised /\ keys.since + 1 >= MinGap

Least(s) == CHOOSE i \in DOMAIN s : \A j \in DOMAIN s : s[i] < s[j] \/ (s[i] = s[j] /\ i <= j)

RefreshFault == keys.last
Refresh == IF Recognised THEN [keys.last EXCEPT ![BestId] = n] ELSE keys.last

(* The row the frame's descriptor goes to, an old one when all are taken. *)
Row == IF Len(keys.last) = Capacity THEN Least(Refresh) ELSE Len(keys.last) + 1

Put(s, i, x) == IF i \in DOMAIN s THEN [s EXCEPT ![i] = x] ELSE Append(s, x)

ThumbsKept == IF sink = "serve" /\ Row \notin DOMAIN keys.thumbs
              THEN Append(keys.thumbs, n) ELSE keys.thumbs
Thumbs == IF sink = "serve" THEN Put(keys.thumbs, Row, n) ELSE keys.thumbs

Since == 0

Enroll ==
    /\ ShouldEnroll
    /\ queue' = Append(queue, [do |-> "row", row |-> Row])
    /\ keys' = [last |-> Put(Refresh, Row, n), thumbs |-> Thumbs, since |-> Since,
                enrolled |-> n, past |-> Append(keys.past, frame.place)]

Keep ==
    /\ ~ShouldEnroll
    /\ keys' = [keys EXCEPT !.last = Refresh, !.since = IF @ < MinGap THEN @ + 1 ELSE @,
                            !.past = Append(@, frame.place)]
    /\ UNCHANGED queue

Keyframe ==
    /\ At("keyframe")
    /\ Enroll \/ Keep
    /\ NextTurn(clip)
    /\ UNCHANGED <<app, sink, mem, clock>>

------------------------------------------------------------------------------

Stopped ==
    /\ \/ pc \in {"done", "ended", "failed"}
       \/ At("top") /\ n = MaxFrame[app]
    /\ UNCHANGED vars

Next ==
    \/ DeviceCatchesUp
    \/ NextFrame \/ SourceEnds \/ Submit \/ Synchronize \/ Readout \/ Fail
    \/ NoPersons \/ SubmitPersons \/ PersonsFail \/ ReadPersons \/ FeedTracker
    \/ Show \/ Keyframe
    \/ Stopped

(* The device works while there is work; the camera sends frames or the    *)
(* source says it ended; the thread of the loop keeps running.             *)
Host == \/ NextFrame \/ Submit \/ Synchronize \/ Readout
        \/ NoPersons \/ SubmitPersons \/ ReadPersons \/ FeedTracker
        \/ Show \/ Keyframe

Spec == Init /\ [][Next]_vars
FairSpec == Spec /\ WF_vars(DeviceCatchesUp) /\ WF_vars(Host)
=============================================================================
