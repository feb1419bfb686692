---------------------------- MODULE ExamplesProofs ----------------------------
(***************************************************************************)
(* The camera programs, for any scenes, batches, times and places: what is *)
(* handed on of a frame was measured on it, and the keyframe bank is       *)
(* aligned with the host's side of it.                                     *)
(*                                                                         *)
(* The batch programs, for any directory, list of pairs, engines, size of  *)
(* the cache and failures: a success is complete, the matches are indices  *)
(* into the keypoints written, and the cache serves the pair.              *)
(***************************************************************************)
EXTENDS ApplicationsProperties, BatchToolsProperties, Sums

-----------------------------------------------------------------------------
(* Sequences, known by their domain and their elements.                    *)
Long(s, k) == k \in Nat /\ DOMAIN s = 1 .. k /\ Len(s) = k

Rest(q, s, k) ==
    /\ Long(q, k - 1) /\ Head(s) = s[1]
    /\ \A i \in 1 .. k - 1 : q[i] = s[i + 1]
Pushed(q, s, k, x) ==
    /\ Long(q, k + 1) /\ q[k + 1] = x
    /\ \A i \in 1 .. k : q[i] = s[i]
Joined(q, s, k, t, l) ==
    /\ Long(q, k + l)
    /\ \A i \in 1 .. k : q[i] = s[i]
    /\ \A i \in 1 .. l : q[k + i] = t[i]

(* What is left of a sequence without its head.                            *)
LEMMA TailMeans ==
    ASSUME NEW s, NEW k, Long(s, k), k > 0
    PROVE  Rest(Tail(s), s, k)
BY DEF Long, Rest

(* One more at the end.                                                    *)
LEMMA PushMeans ==
    ASSUME NEW s, NEW k, Long(s, k), NEW x
    PROVE  Pushed(Append(s, x), s, k, x)
BY DEF Long, Pushed

(* One sequence after another.                                             *)
LEMMA JoinMeans ==
    ASSUME NEW s, NEW k, Long(s, k), NEW t, NEW l, Long(t, l)
    PROVE  Joined(s \o t, s, k, t, l)
BY DEF Long, Joined

(* Only the sequence of no elements is empty.                              *)
LEMMA EmptyMeans ==
    ASSUME NEW s, NEW k, Long(s, k)
    PROVE  s = <<>> <=> k = 0
BY DEF Long

(* No sequence of one element or more is empty.                            *)
LEMMA NotEmpty == \A t, k : Long(t, k) /\ k # 0 => t # <<>>
BY EmptyMeans
-----------------------------------------------------------------------------
(* What the programs hold, and their programs.                             *)
P == Program[app]
Steps == Len(P)

(* The programs, operation by operation.                                   *)
LEMMA ProgramIs ==
    ASSUME app \in DOMAIN Program
    PROVE  /\ Long(P, Steps)
           /\ app \in {"detect", "segment"} => Steps = 1 /\ P[1] = "seg"
           /\ app = "depth" => Steps = 3 /\ P[1] = "seg" /\ P[2] = "depth" /\ P[3] = "fuse"
           /\ app = "track" => /\ Steps = 4 /\ P[1] = "rectify" /\ P[2] = "seg"
                               /\ P[3] = "depth" /\ P[4] = "fuse"
           /\ app = "keyframes" => Steps = 2 /\ P[1] = "dino" /\ P[2] = "match"
BY DEF Program, P, Steps, Long

(* A turn is the program, about the frame in hand.                         *)
LEMMA TurnIs ==
    ASSUME app \in DOMAIN Program
    PROVE  /\ Long(Turn, Steps)
           /\ \A i \in 1 .. Steps : /\ Turn[i].do = P[i] /\ Turn[i].frame = n
                                    /\ Turn[i].place = frame.place
                                    /\ Turn[i].instances = Len(frame.scene)
BY ProgramIs DEF Turn, P, Long

Operations == {"rectify", "seg", "depth", "fuse", "osnet", "dino", "match", "row"}

Fields ==
    /\ app \in DOMAIN Program /\ n \in Nat
    /\ pc \in {"top", "got", "wait", "read", "embed", "embedding", "feed", "show", "keyframe",
               "done", "ended", "failed"}
    /\ DOMAIN mem = {"image", "boxes", "map", "depths", "embs", "descriptor", "bank", "scores"}
    /\ DOMAIN host = {"boxes", "depths", "persons", "fed", "interval"}
    /\ DOMAIN frame = {"scene", "place", "t0", "cap", "gap", "pts", "base", "before"}
    /\ DOMAIN keys = {"last", "thumbs", "since", "enrolled", "past"}
    /\ Long(queue, Len(queue)) /\ \A j \in DOMAIN queue : queue[j].do \in Operations
    /\ Long(frame.scene, Len(frame.scene))

(* The fields are there from the start.                                    *)
LEMMA FieldsStart == Init => Fields
BY ApplicationsAssumption
   DEF Init, Fields, Program, Buffers, NothingRead, FirstFrame, NoKeyframe, Long

(* A program that ends leaves the fields.                                  *)
LEMMA ExitFields ==
    ASSUME Fields, NEW how \in {"done", "ended", "failed"}, Exit(how)
    PROVE  Fields'
BY DEF Exit, Go, Fields, Buffers, NothingRead, FirstFrame, NoKeyframe, Long

(* And so does a turn that is over.                                        *)
LEMMA TurnFields ==
    ASSUME Fields, NEW c, NextTurn(c), UNCHANGED <<app, mem>>, DOMAIN keys' = DOMAIN keys,
           Long(queue', Len(queue')), \A j \in DOMAIN queue' : queue'[j].do \in Operations
    PROVE  Fields'
BY DEF NextTurn, Go, Fields, NothingRead, Long

(* No operation of the device adds a buffer.                               *)
LEMMA EffectFields ==
    ASSUME NEW op, NEW m,
           DOMAIN m = {"image", "boxes", "map", "depths", "embs", "descriptor", "bank", "scores"},
           op.do \in Operations
    PROVE  DOMAIN Effect(op, m) = DOMAIN m
BY DEF Effect, Operations

(* Scenes are sequences.                                                   *)
LEMMA SceneIs ==
    ASSUME NEW scene \in Scenes
    PROVE  Long(scene, Len(scene))
BY DEF Scenes, Long

(* The stream is a sequence after one more operation.                      *)
LEMMA QueuedIs ==
    ASSUME Fields, NEW x, x.do \in Operations
    PROVE  /\ Long(Append(queue, x), Len(queue) + 1) /\ Len(Append(queue, x)) = Len(queue) + 1
           /\ \A j \in DOMAIN Append(queue, x) : Append(queue, x)[j].do \in Operations
<1>1. Pushed(Append(queue, x), queue, Len(queue), x)  BY PushMeans, Zenon DEF Fields
<1> DEFINE q == Append(queue, x)
<1> HIDE DEF q
<1>2. Pushed(q, queue, Len(queue), x)  BY <1>1 DEF q
<1>3. Long(q, Len(queue) + 1) /\ \A j \in DOMAIN q : q[j].do \in Operations
    BY <1>2 DEF Fields, Long, Pushed
<1> QED BY <1>3 DEF q, Long

(* Every step keeps the fields.                                            *)
LEMMA FieldsKeep ==
    ASSUME Fields, [Next]_vars
    PROVE  Fields'
<1>1. CASE UNCHANGED vars \/ Stopped
    BY <1>1 DEF vars, Stopped, Fields, Long
<1>2. CASE DeviceCatchesUp
    <2>1. Len(queue) > 0  BY <1>2, EmptyMeans DEF DeviceCatchesUp, Fields, Long
    <2>2. /\ Long(queue', Len(queue) - 1) /\ Head(queue) = queue[1]
          /\ \A i \in 1 .. Len(queue) - 1 : queue'[i] = queue[i + 1]
        <3>1. queue' = Tail(queue) /\ Long(queue, Len(queue))  BY <1>2 DEF DeviceCatchesUp, Fields
        <3>2. Rest(queue', queue, Len(queue))  BY <2>1, <3>1, TailMeans, Zenon
        <3> QED BY <3>2 DEF Rest
    <2>3. /\ Long(queue', Len(queue')) /\ \A j \in DOMAIN queue' : queue'[j].do \in Operations
        <3>1. \A j \in 1 .. Len(queue) - 1 : j + 1 \in DOMAIN queue  BY <2>1 DEF Fields, Long
        <3>2. DOMAIN queue' = 1 .. Len(queue) - 1 /\ Len(queue') = Len(queue) - 1
              /\ Len(queue) - 1 \in Nat
            BY <2>2 DEF Long
        <3> QED BY <2>2, <3>1, <3>2, Zenon DEF Fields, Long
    <2>4. DOMAIN mem' = DOMAIN mem
        <3>1. mem' = Effect(queue[1], mem) /\ 1 \in DOMAIN queue
            BY <1>2, <2>1, <2>2 DEF DeviceCatchesUp, Fields, Long
        <3> QED BY <3>1, EffectFields DEF Fields
    <2> QED BY <1>2, <2>3, <2>4 DEF DeviceCatchesUp, Fields
<1>3. CASE NextFrame
    <2>1. PICK scene \in Scenes : frame'.scene = scene /\ DOMAIN frame' = DOMAIN frame
        BY <1>3 DEF NextFrame, Fields
    <2>2. Long(frame'.scene, Len(frame'.scene))  BY <2>1, SceneIs
    <2> QED BY <1>3, <2>1, <2>2 DEF NextFrame, Go, Fields
<1>4. CASE SourceEnds \/ Fail
    BY <1>4, ExitFields DEF SourceEnds, Fail
<1>5. CASE Submit
    <2>0. app \in DOMAIN Program  BY DEF Fields
    <2>1. Long(Turn, Steps) /\ \A i \in 1 .. Steps : Turn[i].do = P[i]
        BY <2>0, TurnIs
    <2>2. /\ Long(queue', Len(queue) + Steps)
          /\ \A i \in 1 .. Len(queue) : queue'[i] = queue[i]
          /\ \A i \in 1 .. Steps : queue'[Len(queue) + i] = Turn[i]
        <3>1. queue' = queue \o Turn /\ Long(queue, Len(queue))  BY <1>5 DEF Submit, Fields
        <3>2. Joined(queue', queue, Len(queue), Turn, Steps)  BY <2>1, <3>1, JoinMeans, Zenon
        <3> QED BY <3>2 DEF Joined
    <2>3. \A i \in 1 .. Steps : Turn[i].do \in Operations
        BY <2>1, ProgramIs DEF Fields, Operations, Program
    <2>4. \A j \in DOMAIN queue' : queue'[j].do \in Operations
        <3> SUFFICES ASSUME NEW j \in 1 .. Len(queue) + Steps PROVE queue'[j].do \in Operations
            BY <2>2 DEF Long
        <3>1. CASE j <= Len(queue)  BY <2>2, <3>1 DEF Fields, Long
        <3>2. CASE j > Len(queue)
            <4>1. j - Len(queue) \in 1 .. Steps /\ j = Len(queue) + (j - Len(queue))
                BY <2>1, <3>2 DEF Fields, Long
            <4> QED BY <2>2, <2>3, <4>1
        <3> QED BY <3>1, <3>2 DEF Fields, Long
    <2>5. Long(queue', Len(queue'))  BY <2>2 DEF Long
    <2> QED BY <1>5, <2>4, <2>5 DEF Submit, Go, Fields
<1>6. CASE Synchronize \/ Readout \/ NoPersons \/ PersonsFail \/ ReadPersons
    BY <1>6 DEF Synchronize, Readout, NoPersons, PersonsFail, ReadPersons, Go, Fields
<1>7. CASE SubmitPersons
    <2> DEFINE x == [do |-> "osnet", boxes |-> [k \in DOMAIN Persons |-> host.boxes[Persons[k]]]]
    <2>1. x.do \in Operations  BY DEF Operations
    <2>2. queue' = Append(queue, x)  BY <1>7, Zenon DEF SubmitPersons
    <2> HIDE DEF x
    <2>3. Long(queue', Len(queue')) /\ \A j \in DOMAIN queue' : queue'[j].do \in Operations
        BY <2>1, <2>2, QueuedIs
    <2> QED BY <1>7, <2>3 DEF SubmitPersons, Go, Fields
<1>8. CASE FeedTracker
    BY <1>8 DEF FeedTracker, Go, Fields
<1>9. CASE Show
    <2>1. (\E c : NextShown(c)) \/ (\E c : Exit("done") /\ clip' = c)
        BY <1>9 DEF Show, ShowOnce, Dump, Record, Leave
    <2>2. ASSUME NEW c, NextShown(c) PROVE Fields'
        <3>1. NextTurn(c) /\ UNCHANGED <<app, mem>> /\ keys' = keys /\ queue' = queue
            BY <2>2 DEF NextShown
        <3> QED BY <3>1, TurnFields DEF Fields
    <2> QED BY <2>1, <2>2, ExitFields
<1>10. CASE Keyframe
    <2>1. NextTurn(clip) /\ UNCHANGED <<app, mem>>  BY <1>10 DEF Keyframe
    <2>2. CASE Enroll
        <3> DEFINE x == [do |-> "row", row |-> Row]
        <3>1. x.do \in Operations  BY DEF Operations
        <3>2. queue' = Append(queue, x) /\ DOMAIN keys' = DOMAIN keys
            BY <2>2 DEF Enroll, Fields
        <3> HIDE DEF x
        <3>3. Long(queue', Len(queue')) /\ \A j \in DOMAIN queue' : queue'[j].do \in Operations
            BY <3>1, <3>2, QueuedIs
        <3> QED BY <2>1, <3>2, <3>3, TurnFields
    <2>3. CASE Keep
        <3>1. queue' = queue /\ DOMAIN keys' = DOMAIN keys  BY <2>3 DEF Keep, Fields
        <3> QED BY <2>1, <3>1, TurnFields DEF Fields
    <2> QED BY <1>10, <2>2, <2>3 DEF Keyframe
<1> QED BY <1>1, <1>2, <1>3, <1>4, <1>5, <1>6, <1>7, <1>8, <1>9, <1>10 DEF Next
-----------------------------------------------------------------------------
(* The stream: what a turn enqueued and the device has not come to yet, in *)
(* order, after at most one operation of the turn before; and the buffers  *)
(* hold of this frame what was worked off.                                 *)
Leftover == IF app = "keyframes" THEN "row" ELSE "osnet"

(* Of the turn, the operations that are done.                              *)
Done == Steps - Len(queue)

AsTurn(op, i) == /\ op.do = P[i] /\ op.frame = n
                 /\ op.place = frame.place /\ op.instances = Len(frame.scene)

Measured(boxes) == /\ DOMAIN boxes = 1 .. Len(frame.scene)
                   /\ \A k \in 1 .. Len(frame.scene) : boxes[k] = <<n, k>>
Fused(depths) == /\ DOMAIN depths = 1 .. Len(frame.scene)
                 /\ \A k \in 1 .. Len(frame.scene) : depths[k] = [of |-> <<n, k>>, in |-> n]
Compared(scores, bank) == scores = [i \in DOMAIN bank |-> Similar(frame.place, bank[i])]

Worked(i) ==
    /\ P[i] = "rectify" => mem.image = n
    /\ P[i] = "seg" => Measured(mem.boxes)
    /\ P[i] = "depth" => mem.map = n
    /\ P[i] = "fuse" => Fused(mem.depths)
    /\ P[i] = "dino" => mem.descriptor = frame.place
    /\ P[i] = "match" => Compared(mem.scores, mem.bank)

Waiting ==
    /\ Len(queue) <= Steps + 1
    /\ \A j \in DOMAIN queue : /\ Done + j = 0 => queue[j].do = Leftover
                               /\ Done + j >= 1 => AsTurn(queue[j], Done + j)
    /\ \A i \in 1 .. Steps : i <= Done => Worked(i)

Idle == Len(queue) <= 1 /\ \A j \in DOMAIN queue : queue[j].do = Leftover

Streaming ==
    /\ pc = "wait" => Waiting
    /\ pc \in {"top", "got", "embedding", "feed", "show"} => Idle
    /\ pc \in {"read", "embed", "keyframe", "done", "ended", "failed"} => queue = <<>>
    /\ pc \in {"read", "keyframe"} => \A i \in 1 .. Steps : Worked(i)
    /\ pc \in {"read", "embed", "embedding", "feed"} => app # "keyframes"
    /\ pc \in {"embed", "embedding", "feed"} => app = "track"
    /\ pc = "keyframe" => app = "keyframes"
    /\ pc = "show" => app # "keyframes"
    /\ pc \in {"embed", "embedding"} => mem.image = n

-----------------------------------------------------------------------------
(* The host: what it read back is of this frame's instances.               *)
Asked == pc = "embedding" =>
    /\ Persons # <<>>
    /\ \A j \in DOMAIN queue :
          queue[j].boxes = [k \in DOMAIN Persons |-> host.boxes[Persons[k]]]
    /\ queue = <<>> => \A k \in DOMAIN Persons : mem.embs[k] = <<n, Persons[k]>>

ReadBack ==
    /\ pc \in {"embed", "embedding", "feed", "show"} =>
          /\ Measured(host.boxes)
          /\ app \in {"depth", "track"} => Fused(host.depths)
    /\ \A i \in DOMAIN host.persons :
          /\ pc \in {"feed", "show"} /\ i \in DOMAIN frame.scene
          /\ host.persons[i] = <<n, i>> /\ frame.scene[i].person

GivenOf(i) ==
    /\ host.fed[i].box = <<n, i>>
    /\ host.fed[i].feature \in {None, [osnet |-> <<n, i>>], [tokens |-> <<n, i>>]}
    /\ ~frame.scene[i].person => host.fed[i].feature # [osnet |-> <<n, i>>]

Given == pc = "show" /\ app = "track" => \A i \in DOMAIN frame.scene : GivenOf(i)

-----------------------------------------------------------------------------
(* Time: the stamps of this frame and the one before, and what the clock   *)
(* of the loop remembers of them.                                          *)
Stamped ==
    /\ frame.cap \in Int /\ frame.gap \in Nat /\ frame.base \in Int
    /\ frame.t0 = frame.cap - frame.gap
    /\ frame.pts \in {NoPts, frame.cap + frame.base}
    /\ frame.before.gap \in Nat /\ frame.before.base \in Int
    /\ frame.before.pts \in {NoPts, frame.t0 + frame.before.base}
    /\ pc \in {"got", "wait", "read", "embed", "embedding", "feed", "show"} => frame.gap > 0

Clocked == app = "track" =>
    /\ pc \in {"top", "show"} => clock = [prev |-> frame.t0, prevPts |-> frame.pts]
    /\ pc \in {"got", "wait", "read", "embed", "embedding", "feed"} =>
          clock = [prev |-> frame.t0 - frame.before.gap, prevPts |-> frame.before.pts]

Measuring == Fields /\ Streaming /\ Asked /\ ReadBack /\ Given /\ Stamped /\ Clocked
             /\ IntervalSound

(* The strengthened invariant holds of the first state.                    *)
LEMMA MeasuringStart == Init => Measuring
<1> SUFFICES ASSUME Init PROVE Measuring
    OBVIOUS
<1>1. Fields  BY FieldsStart
<1>2. Streaming
    <2>1. pc = "top" /\ queue = <<>>  BY DEF Init
    <2> QED BY <2>1 DEF Streaming, Idle
<1>3. Asked /\ ReadBack /\ Given
    BY DEF Init, Asked, ReadBack, Given, NothingRead, FirstFrame
<1>4. Stamped
    BY DEF Init, Stamped, FirstFrame
<1>5. Clocked /\ IntervalSound
    BY DEF Init, Clocked, FirstFrame, IntervalSound, At
<1> QED BY <1>1, <1>2, <1>3, <1>4, <1>5 DEF Measuring

-----------------------------------------------------------------------------
(* In a program every operation comes once, and after those it works on.   *)
LEMMA ProgramOrder ==
    ASSUME app \in DOMAIN Program, NEW i \in 1 .. Steps
    PROVE  /\ P[i] \in {"rectify", "seg", "depth", "fuse", "dino", "match"}
           /\ \A k \in 1 .. Steps : k # i => P[k] # P[i]
           /\ P[i] \in {"seg", "depth"} /\ app = "track" =>
                 \E k \in 1 .. Steps : k < i /\ P[k] = "rectify"
           /\ P[i] = "fuse" => /\ \E k \in 1 .. Steps : k < i /\ P[k] = "seg"
                               /\ \E k \in 1 .. Steps : k < i /\ P[k] = "depth"
           /\ P[i] = "match" => \E k \in 1 .. Steps : k < i /\ P[k] = "dino"
<1>1. CASE app \in {"detect", "segment"}  BY <1>1, ProgramIs
<1>2. CASE app = "depth"
    <2>1. i \in {1, 2, 3}  BY <1>2, ProgramIs
    <2> QED BY <1>2, <2>1, ProgramIs
<1>3. CASE app = "track"
    <2>1. i \in {1, 2, 3, 4}  BY <1>3, ProgramIs
    <2> QED BY <1>3, <2>1, ProgramIs
<1>4. CASE app = "keyframes"
    <2>1. i \in {1, 2}  BY <1>4, ProgramIs
    <2> QED BY <1>4, <2>1, ProgramIs
<1> QED BY <1>1, <1>2, <1>3, <1>4 DEF Program

(* What an operation of the device changes, and to what.                   *)
Effected(w, op, m) ==
    /\ w.image = IF op.do = "rectify" THEN op.frame ELSE m.image
    /\ w.map = IF op.do = "depth" THEN Pixels(op, m) ELSE m.map
    /\ w.descriptor = IF op.do = "dino" THEN op.place ELSE m.descriptor
    /\ op.do = "seg" => w.boxes = [i \in 1 .. op.instances |-> <<Pixels(op, m), i>>]
    /\ op.do # "seg" => w.boxes = m.boxes
    /\ op.do = "fuse" => w.depths = [i \in DOMAIN m.boxes |->
                                        [of |-> m.boxes[i], in |-> m.map]]
    /\ op.do # "fuse" => w.depths = m.depths
    /\ op.do = "osnet" => w.embs = [k \in 1 .. Batch |->
                          IF k \in DOMAIN op.boxes
                          THEN <<Pixels(op, m), op.boxes[k][2]>> ELSE m.embs[k]]
    /\ op.do # "osnet" => w.embs = m.embs
    /\ op.do = "match" => w.scores = [i \in DOMAIN m.bank |->
                                         Similar(m.descriptor, m.bank[i])]
    /\ op.do # "match" => w.scores = m.scores
    /\ op.do = "row" => w.bank = IF op.row \in DOMAIN m.bank
                                 THEN [m.bank EXCEPT ![op.row] = m.descriptor]
                                 ELSE Append(m.bank, m.descriptor)
    /\ op.do # "row" => w.bank = m.bank

(* What an operation changes, by its definition.                           *)
LEMMA EffectIs ==
    ASSUME NEW op, NEW m,
           DOMAIN m = {"image", "boxes", "map", "depths", "embs", "descriptor", "bank", "scores"},
           op.do \in Operations
    PROVE  Effected(Effect(op, m), op, m)
<1>1. CASE op.do = "rectify"  BY <1>1 DEF Effect, Effected
<1>2. CASE op.do = "seg"  BY <1>2 DEF Effect, Effected
<1>3. CASE op.do = "depth"  BY <1>3 DEF Effect, Effected
<1>4. CASE op.do = "fuse"  BY <1>4 DEF Effect, Effected
<1>5. CASE op.do = "osnet"  BY <1>5 DEF Effect, Effected
<1>6. CASE op.do = "dino"  BY <1>6 DEF Effect, Effected
<1>7. CASE op.do = "match"  BY <1>7 DEF Effect, Effected
<1>8. CASE op.do = "row"  BY <1>8 DEF Effect, Effected
<1> QED BY <1>1, <1>2, <1>3, <1>4, <1>5, <1>6, <1>7, <1>8, Zenon DEF Operations

(* The device takes the first of what is queued.                           *)
Taken(op) ==
    /\ op.do \in Operations /\ op = queue[1] /\ Len(queue) > 0
    /\ mem' = Effect(op, mem)
    /\ Long(queue', Len(queue) - 1) /\ Len(queue') = Len(queue) - 1
    /\ \A j \in DOMAIN queue' : j + 1 \in DOMAIN queue /\ queue'[j] = queue[j + 1]

(* So every step of the device does.                                       *)
LEMMA DeviceTakes ==
    ASSUME Fields, DeviceCatchesUp
    PROVE  Taken(queue[1])
<1>1. Len(queue) > 0  BY EmptyMeans DEF DeviceCatchesUp, Fields, Long
<1>2. queue' = Tail(queue) /\ Long(queue, Len(queue)) /\ mem' = Effect(Head(queue), mem)
    BY DEF DeviceCatchesUp, Fields
<1>3. Rest(queue', queue, Len(queue))  BY <1>1, <1>2, TailMeans, Zenon
<1>4. mem' = Effect(queue[1], mem)  BY <1>2, <1>3 DEF Rest
<1>5. 1 \in DOMAIN queue  BY <1>1, <1>2 DEF Long
<1>6. queue[1].do \in Operations  BY <1>5 DEF Fields
<1>7. /\ Long(queue', Len(queue) - 1) /\ Len(queue') = Len(queue) - 1
      /\ \A j \in DOMAIN queue' : j + 1 \in DOMAIN queue /\ queue'[j] = queue[j + 1]
    BY <1>1, <1>2, <1>3 DEF Rest, Long
<1> QED BY <1>1, <1>4, <1>6, <1>7 DEF Taken

(* What is worked off stays, and the next operation of the turn is worked  *)
(* off.                                                                    *)
LEMMA WorkedOne ==
    ASSUME Fields, NEW op, op.do \in Operations, mem' = Effect(op, mem), UNCHANGED <<app, n, frame>>,
           NEW i \in 1 .. Steps, AsTurn(op, i), \A k \in 1 .. Steps : k < i => Worked(k)
    PROVE  \A k \in 1 .. Steps : k <= i => Worked(k)'
<1>0. app \in DOMAIN Program /\ DOMAIN mem = {"image", "boxes", "map", "depths", "embs",
                                              "descriptor", "bank", "scores"}
    BY DEF Fields
<1>1. op.do = P[i] /\ op.frame = n /\ op.place = frame.place /\ op.instances = Len(frame.scene)
    BY DEF AsTurn
<1>E. Effected(mem', op, mem)  BY <1>0, EffectIs, Zenon
<1>2. SUFFICES ASSUME NEW k \in 1 .. Steps, k <= i PROVE Worked(k)'
    OBVIOUS
<1>3. P' = P /\ n' = n /\ frame' = frame /\ app' = app /\ i \in Nat /\ k \in Nat
    <2>1. Steps \in Nat  BY <1>0, ProgramIs DEF Long
    <2> QED BY <2>1 DEF P
<1>4. CASE k = i
    <2>1. CASE P[i] = "rectify"
        <3>1. mem'.image = op.frame  BY <1>0, <1>1, <2>1, <1>E DEF Effected
        <3> QED BY <1>1, <1>3, <1>4, <2>1, <3>1 DEF Worked
    <2>2. P[i] \in {"seg", "depth"} => Pixels(op, mem) = n
        <3>1. CASE app = "track"
            <4>1. P[i] \in {"seg", "depth"} => \E l \in 1 .. Steps : l < i /\ P[l] = "rectify"
                BY <1>0, <3>1, ProgramOrder
            <4> QED BY <3>1, <4>1 DEF Worked, Pixels
        <3>2. CASE app # "track"  BY <1>1, <3>2 DEF Pixels
        <3> QED BY <3>1, <3>2
    <2>3. CASE P[i] = "seg"
        <3>1. mem'.boxes = [j \in 1 .. op.instances |-> <<Pixels(op, mem), j>>]
            BY <1>0, <1>1, <2>3, <1>E DEF Effected
        <3>2. mem'.boxes = [j \in 1 .. Len(frame.scene) |-> <<n, j>>]  BY <1>1, <2>2, <2>3, <3>1
        <3> QED BY <1>3, <1>4, <2>3, <3>2 DEF Worked, Measured
    <2>4. CASE P[i] = "depth"
        <3>1. mem'.map = Pixels(op, mem)  BY <1>0, <1>1, <2>4, <1>E DEF Effected
        <3> QED BY <1>3, <1>4, <2>2, <2>4, <3>1 DEF Worked
    <2>5. CASE P[i] = "fuse"
        <3>1. mem'.depths = [j \in DOMAIN mem.boxes |-> [of |-> mem.boxes[j], in |-> mem.map]]
            BY <1>0, <1>1, <2>5, <1>E DEF Effected
        <3>2. /\ \E l \in 1 .. Steps : l < i /\ P[l] = "seg"
              /\ \E l \in 1 .. Steps : l < i /\ P[l] = "depth"
            BY <1>0, <2>5, ProgramOrder
        <3>3. Measured(mem.boxes) /\ mem.map = n  BY <3>2 DEF Worked
        <3>4. Fused(mem'.depths)  BY <3>1, <3>3 DEF Measured, Fused
        <3>5. Fused(mem.depths)'  BY <1>3, <3>4 DEF Fused
        <3> QED BY <1>3, <1>4, <2>5, <3>5 DEF Worked
    <2>6. CASE P[i] = "dino"
        <3>1. mem'.descriptor = op.place  BY <1>0, <1>1, <2>6, <1>E DEF Effected
        <3> QED BY <1>1, <1>3, <1>4, <2>6, <3>1 DEF Worked
    <2>7. CASE P[i] = "match"
        <3>1. /\ mem'.scores = [j \in DOMAIN mem.bank |-> Similar(mem.descriptor, mem.bank[j])]
              /\ mem'.bank = mem.bank
            BY <1>0, <1>1, <2>7, <1>E DEF Effected
        <3>2. \E l \in 1 .. Steps : l < i /\ P[l] = "dino"  BY <1>0, <2>7, ProgramOrder
        <3>3. mem.descriptor = frame.place  BY <3>2 DEF Worked
        <3>4. Compared(mem'.scores, mem'.bank)  BY <3>1, <3>3 DEF Compared
        <3>5. Compared(mem.scores, mem.bank)'  BY <1>3, <3>4 DEF Compared, Similar
        <3> QED BY <1>3, <1>4, <2>7, <3>5 DEF Worked
    <2> QED BY <1>0, <2>1, <2>3, <2>4, <2>5, <2>6, <2>7, ProgramOrder
<1>5. CASE k < i
    <2>1. Worked(k)  BY <1>5
    <2>2. P[k] # op.do /\ op.do # "row"
        BY <1>0, <1>1, <1>3, <1>5, ProgramOrder
    <2>3. /\ P[k] = "rectify" => mem'.image = mem.image
          /\ P[k] = "seg" => mem'.boxes = mem.boxes
          /\ P[k] = "depth" => mem'.map = mem.map
          /\ P[k] = "fuse" => mem'.depths = mem.depths
          /\ P[k] = "dino" => mem'.descriptor = mem.descriptor
          /\ P[k] = "match" => mem'.scores = mem.scores
          /\ mem'.bank = mem.bank
        BY <1>0, <2>2, <1>E DEF Effected
    <2>4. P[k] = "seg" => Measured(mem.boxes)'  BY <1>3, <2>1, <2>3 DEF Worked, Measured
    <2>5. P[k] = "fuse" => Fused(mem.depths)'  BY <1>3, <2>1, <2>3 DEF Worked, Fused
    <2>6. P[k] = "match" => Compared(mem.scores, mem.bank)'
        BY <1>3, <2>1, <2>3 DEF Worked, Compared, Similar
    <2> QED BY <1>3, <2>1, <2>3, <2>4, <2>5, <2>6 DEF Worked
<1> QED BY <1>2, <1>3, <1>4, <1>5

(* While the turn is on the device, and before and after it.               *)
LEMMA DeviceStreams ==
    ASSUME Fields, Streaming, DeviceCatchesUp
    PROVE  Streaming'
<1> DEFINE op == queue[1]
<1>1. Taken(op) /\ UNCHANGED <<app, pc, n, frame>>  BY DeviceTakes DEF DeviceCatchesUp
<1>2. op.do \in Operations /\ Len(queue) > 0 /\ mem' = Effect(op, mem) /\ 1 \in DOMAIN queue
    BY <1>1 DEF Taken, Fields, Long
<1>E. Effected(mem', op, mem)  BY <1>2, EffectIs, Zenon DEF Fields
<1> HIDE DEF op
<1>3. Steps' = Steps /\ P' = P /\ app \in DOMAIN Program /\ Steps \in Nat /\ Leftover' = Leftover
    <2>1. app \in DOMAIN Program  BY DEF Fields
    <2> QED BY <1>1, <2>1, ProgramIs DEF Steps, P, Long, Leftover
<1>4. ASSUME Idle PROVE Idle'
    <2>1. \A j \in DOMAIN queue' : queue'[j].do = Leftover
        BY <1>1, <1>4 DEF Idle, Taken
    <2>2. Len(queue') <= 1  BY <1>1, <1>4 DEF Idle, Taken, Fields, Long
    <2> QED BY <1>3, <2>1, <2>2 DEF Idle
<1>5. ASSUME Waiting PROVE Waiting'
    <2>1. Len(queue') \in Nat /\ Len(queue) \in Nat /\ Len(queue') = Len(queue) - 1
          /\ DOMAIN queue' = 1 .. Len(queue')
        BY <1>1, <1>2 DEF Taken, Fields, Long
    <2>2. Len(queue') <= Steps + 1 /\ Done' = Done + 1 /\ Done \in Int /\ Done < Steps
        BY <1>2, <1>3, <1>5, <2>1 DEF Waiting, Done
    <2>3. \A j \in DOMAIN queue' : /\ j \in Int /\ queue'[j] = queue[j + 1] /\ j + 1 \in DOMAIN queue
                                   /\ Done' + j = Done + (j + 1)
        BY <1>1, <2>1, <2>2 DEF Taken
    <2>4. ASSUME NEW o, NEW i PROVE AsTurn(o, i)' <=> AsTurn(o, i)
        BY <1>1, <1>3 DEF AsTurn
    <2>5. ASSUME NEW j \in DOMAIN queue'
          PROVE  /\ Done' + j = 0 => queue'[j].do = Leftover'
                 /\ Done' + j >= 1 => AsTurn(queue[j], Done + j)'
        <3>1. /\ Done + (j + 1) = 0 => queue[j + 1].do = Leftover
              /\ Done + (j + 1) >= 1 => AsTurn(queue[j + 1], Done + (j + 1))
            BY <1>5, <2>3 DEF Waiting
        <3>2. Done' + j >= 1 => AsTurn(queue'[j], Done' + j)  BY <2>3, <3>1
        <3>3. (AsTurn(queue[j], Done + j))' <=> AsTurn(queue'[j], Done' + j)
            BY <1>1, <1>3 DEF AsTurn
        <3> QED BY <1>3, <2>3, <3>1, <3>2, <3>3
    <2>6. \A i \in 1 .. Steps : i <= Done + 1 => Worked(i)'
        <3>1. CASE Done + 1 >= 1
            <4> DEFINE i == Done + 1
            <4>1. i \in 1 .. Steps /\ \A k \in 1 .. Steps : k < i => k <= Done
                BY <1>3, <2>2, <3>1
            <4>2. AsTurn(op, i)  BY <1>2, <1>5, <3>1 DEF Waiting, op
            <4>3. \A k \in 1 .. Steps : k < i => Worked(k)  BY <1>5, <4>1 DEF Waiting
            <4> HIDE DEF i
            <4>4. \A k \in 1 .. Steps : k <= i => Worked(k)'
                BY <1>1, <1>2, <4>1, <4>2, <4>3, WorkedOne
            <4> QED BY <4>4 DEF i
        <3>2. CASE Done + 1 < 1  BY <1>3, <2>2, <3>2
        <3> QED BY <2>2, <3>1, <3>2
    <2>7. \A i \in 1 .. Steps' : i <= Done' => Worked(i)'  BY <1>3, <2>2, <2>6
    <2> QED BY <1>3, <2>2, <2>5, <2>7 DEF Waiting
<1>6. queue # <<>>  BY DEF DeviceCatchesUp
<1>7. pc = "embedding" => mem'.image = mem.image
    <2>1. pc = "embedding" => op.do # "rectify"
        BY <1>2 DEF Streaming, Idle, Leftover, op
    <2> QED BY <1>E, <2>1 DEF Effected
<1>8. (pc = "wait" => Waiting') /\ (pc \in {"top", "got", "embedding", "feed", "show"} => Idle')
    BY <1>4, <1>5 DEF Streaming
<1>9. pc \notin {"read", "embed", "keyframe", "done", "ended", "failed"}  BY <1>6 DEF Streaming
<1> QED BY <1>1, <1>7, <1>8, <1>9 DEF Streaming

(* Nothing is left of an empty queue but what is put there.                *)
LEMMA IdleOnce ==
    ASSUME Fields, queue = <<>> \/ queue' = queue, queue = <<>> \/ Idle, NEW x, x.do = Leftover,
           queue' = queue \/ queue' = Append(queue, x)
    PROVE  Len(queue') <= 1 /\ \A j \in DOMAIN queue' : queue'[j].do = Leftover
<1>1. CASE queue' = queue
    BY <1>1, EmptyMeans DEF Fields, Idle, Long
<1>2. CASE queue = <<>> /\ queue' = Append(queue, x)
    <2>1. Pushed(queue', queue, Len(queue), x)  BY <1>2, PushMeans, Zenon DEF Fields
    <2>2. Len(queue) = 0  BY <1>2, EmptyMeans DEF Fields
    <2>3. Long(queue', 1) /\ queue'[1] = x  BY <2>1, <2>2 DEF Pushed
    <2>4. DOMAIN queue' = {1} /\ Len(queue') = 1  BY <2>3 DEF Long
    <2> QED BY <2>3, <2>4
<1> QED BY <1>1, <1>2

(* What the host enqueues is the turn, after what was left over.           *)
LEMMA TurnWaits ==
    ASSUME Fields, Idle, Submit
    PROVE  Waiting'
<1>0. app \in DOMAIN Program /\ Steps \in Nat /\ Long(queue, Len(queue))
    BY ProgramIs DEF Fields, Long
<1>1. /\ Long(Turn, Steps)
      /\ \A i \in 1 .. Steps : /\ Turn[i].do = P[i] /\ Turn[i].frame = n
                               /\ Turn[i].place = frame.place
                               /\ Turn[i].instances = Len(frame.scene)
    BY <1>0, TurnIs
<1>2. queue' = queue \o Turn /\ UNCHANGED <<app, n, frame, mem>>  BY DEF Submit
<1>3. Joined(queue', queue, Len(queue), Turn, Steps)  BY <1>0, <1>1, <1>2, JoinMeans, Zenon
<1> DEFINE L == Len(queue)
<1>4. L \in Nat /\ L <= 1 /\ DOMAIN queue = 1 .. L  BY <1>0 DEF Long, Idle
<1>5. Len(queue') = L + Steps /\ DOMAIN queue' = 1 .. (L + Steps)
    BY <1>3 DEF Joined, Long
<1>6. Steps' = Steps /\ P' = P /\ Leftover' = Leftover  BY <1>2 DEF Steps, P, Leftover
<1>7. Done' = -L  BY <1>0, <1>4, <1>5, <1>6 DEF Done
<1> HIDE DEF L
<1>8. ASSUME NEW j \in DOMAIN queue'
      PROVE  /\ Done' + j = 0 => queue'[j].do = Leftover'
             /\ Done' + j >= 1 => AsTurn(queue[j], Done + j)'
    <2>1. j \in Nat /\ j <= L + Steps /\ j >= 1  BY <1>0, <1>4, <1>5
    <2>2. Done' + j = 0 => queue'[j].do = Leftover
        <3>1. Done' + j = 0 => j \in 1 .. L  BY <1>4, <1>7, <2>1
        <3> QED BY <1>3, <1>4, <3>1 DEF Joined, Idle, L
    <2>3. ASSUME Done' + j >= 1 PROVE AsTurn(queue[j], Done + j)'
        <3> DEFINE i == j - L
        <3>1. i \in 1 .. Steps /\ j = L + i /\ Done' + j = i  BY <1>0, <1>4, <1>7, <2>1, <2>3
        <3> HIDE DEF i
        <3>2. queue'[j] = Turn[i]  BY <1>3, <3>1 DEF Joined, L
        <3>3. AsTurn(queue'[j], i)  BY <1>1, <3>1, <3>2 DEF AsTurn
        <3> QED BY <1>2, <1>6, <3>1, <3>3 DEF AsTurn
    <2> QED BY <1>6, <2>2, <2>3
<1>9. Len(queue') <= Steps' + 1  BY <1>0, <1>4, <1>5, <1>6
<1>10. \A i \in 1 .. Steps' : ~(i <= Done')  BY <1>0, <1>4, <1>6, <1>7
<1> QED BY <1>8, <1>9, <1>10 DEF Waiting

(* Every step keeps the stream in order.                                   *)
LEMMA StreamingKeeps ==
    ASSUME Fields, Streaming, [Next]_vars
    PROVE  Streaming'
<1>0. app \in DOMAIN Program /\ Steps \in Nat  BY ProgramIs DEF Fields, Long
<1>1. CASE UNCHANGED vars \/ Stopped
    <2>1. UNCHANGED <<app, pc, n, frame, queue, mem>>  BY <1>1 DEF vars, Stopped
    <2>2. \A i \in 1 .. Steps : Worked(i) => Worked(i)'
        BY <2>1 DEF P, Worked, Measured, Fused, Compared, Similar
    <2>3. Steps' = Steps /\ Done' = Done /\ Leftover' = Leftover  BY <2>1 DEF Steps, Done, P, Leftover
    <2>4. Idle => Idle'  BY <2>1, <2>3 DEF Idle
    <2>5. Waiting => Waiting'
        <3>1. ASSUME NEW j \in DOMAIN queue, AsTurn(queue[j], Done + j)
              PROVE  AsTurn(queue[j], Done + j)'
            BY <2>1, <2>3, <3>1 DEF P, AsTurn
        <3> QED BY <2>1, <2>2, <2>3, <3>1 DEF Waiting
    <2> QED BY <2>1, <2>2, <2>3, <2>4, <2>5 DEF Streaming
<1>2. CASE DeviceCatchesUp  BY <1>2, DeviceStreams
<1>3. CASE NextFrame  BY <1>3 DEF NextFrame, At, Go, Streaming, Idle, Leftover
<1>4. CASE SourceEnds \/ Fail  BY <1>4 DEF SourceEnds, Fail, Exit, Go, Streaming
<1>5. CASE Submit
    <2>1. Waiting'  BY <1>5, TurnWaits DEF Submit, At, Streaming
    <2> QED BY <1>5, <2>1 DEF Submit, Go, Streaming
<1>6. CASE Synchronize
    <2>1. Done = Steps /\ Waiting /\ queue' = <<>> /\ UNCHANGED <<app, n, frame, mem>>
        BY <1>0, <1>6, EmptyMeans DEF Synchronize, At, Done, Streaming, Fields
    <2>2. \A i \in 1 .. Steps : Worked(i)  BY <1>0, <2>1 DEF Waiting
    <2>3. \A i \in 1 .. Steps' : Worked(i)'
        BY <2>1, <2>2 DEF Steps, P, Worked, Measured, Fused, Compared, Similar
    <2>4. pc' = IF app = "keyframes" THEN "keyframe" ELSE "read"  BY <1>6 DEF Synchronize, Go
    <2> QED BY <2>1, <2>3, <2>4 DEF Streaming
<1>7. CASE Readout
    <2>1. queue = <<>> /\ queue' = queue /\ \A i \in 1 .. Steps : Worked(i)
        BY <1>7 DEF Readout, At, Streaming
    <2>2. app = "track" => mem.image = n
        <3>1. app = "track" => 1 \in 1 .. Steps /\ P[1] = "rectify"  BY <1>0, ProgramIs
        <3> QED BY <2>1, <3>1 DEF Worked
    <2>3. Len(queue) = 0 /\ DOMAIN queue = {}  BY <2>1
    <2>4. Idle'  BY <2>1, <2>3 DEF Idle
    <2>5. app # "keyframes"  BY <1>7 DEF Readout, At, Streaming
    <2> QED BY <1>7, <2>1, <2>2, <2>4, <2>5 DEF Readout, Go, Streaming
<1>8. CASE NoPersons \/ PersonsFail \/ ReadPersons \/ FeedTracker
    <2>1. /\ queue' = queue /\ UNCHANGED <<app, n, mem>> /\ app = "track"
          /\ pc' \in {"feed", "show"} /\ (queue = <<>> \/ Idle)
        BY <1>8 DEF NoPersons, PersonsFail, ReadPersons, FeedTracker, At, Go, Streaming
    <2>2. Idle'
        <3>1. queue = <<>> => Len(queue) = 0 /\ DOMAIN queue = {}  OBVIOUS
        <3> QED BY <2>1, <3>1 DEF Idle, Leftover
    <2> QED BY <2>1, <2>2 DEF Streaming
<1>9. CASE SubmitPersons
    <2> DEFINE x == [do |-> "osnet", boxes |-> [k \in DOMAIN Persons |-> host.boxes[Persons[k]]]]
    <2>1. /\ queue' = Append(queue, x) /\ queue = <<>> /\ app = "track" /\ mem.image = n
          /\ pc' = "embedding" /\ UNCHANGED <<app, n, mem>>
        BY <1>9, Zenon DEF SubmitPersons, At, Go, Streaming
    <2>2. x.do = Leftover  BY <2>1 DEF Leftover
    <2> HIDE DEF x
    <2>3. Idle'  BY <2>1, <2>2, IdleOnce DEF Idle, Leftover
    <2> QED BY <2>1, <2>3 DEF Streaming
<1>10. CASE Show
    <2>1. (\E c : NextShown(c)) \/ (\E c : Exit("done") /\ clip' = c)
        BY <1>10 DEF Show, ShowOnce, Dump, Record, Leave
    <2>2. CASE \E c : NextShown(c)
        <3>1. pc' = "top" /\ queue' = queue /\ app' = app  BY <2>2 DEF NextShown, NextTurn, Go
        <3>2. Idle'  BY <1>10, <3>1 DEF Show, At, Streaming, Idle, Leftover
        <3> QED BY <3>1, <3>2 DEF Streaming
    <2>3. CASE \E c : Exit("done") /\ clip' = c
        BY <2>3 DEF Exit, Go, Streaming
    <2> QED BY <2>1, <2>2, <2>3
<1>11. CASE Keyframe
    <2> DEFINE x == [do |-> "row", row |-> Row]
    <2>1. (queue' = queue \/ queue' = Append(queue, x)) /\ queue = <<>> /\ app = "keyframes"
        /\ pc' = "top" /\ app' = app
        BY <1>11, Zenon DEF Keyframe, Enroll, Keep, NextTurn, At, Go, Streaming
    <2>2. x.do = Leftover  BY <2>1 DEF Leftover
    <2> HIDE DEF x
    <2>3. Idle'  BY <2>1, <2>2, IdleOnce DEF Idle, Leftover
    <2> QED BY <2>1, <2>3 DEF Streaming
<1> QED BY <1>1, <1>2, <1>3, <1>4, <1>5, <1>6, <1>7, <1>8, <1>9, <1>10, <1>11 DEF Next

-----------------------------------------------------------------------------
(* An element has as many up to it as its rank says.                       *)
HasRank(T, k) == \E i \in T : Cardinality({j \in T : j <= i}) = k

(* Every rank there is.                                                    *)
LEMMA RankHas ==
    ASSUME NEW N \in Nat, NEW T, T \subseteq 1 .. N, NEW k \in 1 .. Cardinality(T)
    PROVE  HasRank(T, k)
<1> DEFINE U(i) == {j \in T : j <= i}
           f(i) == Cardinality(U(i))
           above == {i \in Nat : f(i) >= k}
<1>1. IsFiniteSet(T) /\ \A i \in Nat : IsFiniteSet(U(i)) /\ f(i) \in Nat
    <2>1. IsFiniteSet(1 .. N)  BY FS_Interval
    <2>2. IsFiniteSet(T)  BY <2>1, FS_Subset
    <2>3. \A i \in Nat : U(i) \subseteq T  OBVIOUS
    <2>4. \A i \in Nat : IsFiniteSet(U(i))  BY <2>2, <2>3, FS_Subset
    <2> QED BY <2>2, <2>4, FS_CardinalityType
<1>2. U(N) = T /\ U(0) = {}
    <2>1. \A j \in T : j \in Nat /\ j <= N /\ ~(j <= 0)  OBVIOUS
    <2> QED BY <2>1
<1>3. k \in Nat /\ k >= 1 /\ k <= f(N)
    <2>1. Cardinality(T) \in Nat  BY <1>1, FS_CardinalityType
    <2> QED BY <1>2, <2>1
<1>4. f(0) = 0  BY <1>2, FS_EmptySet
<1>5. \A i \in Nat \ {0} : U(i) = IF i \in T THEN U(i - 1) \cup {i} ELSE U(i - 1)
    <2> SUFFICES ASSUME NEW i \in Nat \ {0}
                 PROVE  U(i) = IF i \in T THEN U(i - 1) \cup {i} ELSE U(i - 1)
        OBVIOUS
    <2>1. \A j \in T : j \in Nat /\ (j <= i <=> j <= i - 1 \/ j = i)  OBVIOUS
    <2> QED BY <2>1
<1>6. \A i \in Nat \ {0} : i \notin U(i - 1) /\ i - 1 \in Nat  OBVIOUS
<1> HIDE DEF U
<1>7. \A i \in Nat \ {0} : f(i) = IF i \in T THEN f(i - 1) + 1 ELSE f(i - 1)
    BY <1>1, <1>5, <1>6, FS_AddElement
<1> HIDE DEF f
<1>8. N \in above  BY <1>3
<1>9. PICK i \in above : \A j \in above : i <= j
    <2>1. above \subseteq Nat /\ above # {}  BY <1>8
    <2> HIDE DEF above
    <2> QED BY <2>1, LeastNumber, Zenon
<1>10. i \in Nat \ {0}  BY <1>3, <1>4, <1>9
<1>11. i - 1 \in Nat /\ f(i - 1) < k
    <2>1. i - 1 \in Nat /\ ~(i <= i - 1)  BY <1>10
    <2>2. f(i - 1) \in Nat  BY <1>1, <2>1 DEF f
    <2>3. i - 1 \notin above  BY <1>9, <2>1
    <2> QED BY <1>3, <2>1, <2>2, <2>3
<1>12. f(i) >= k /\ f(i) \in Nat /\ f(i - 1) \in Nat  BY <1>1, <1>9, <1>11 DEF f
<1>13. i \in T /\ f(i) = k  BY <1>3, <1>7, <1>10, <1>11, <1>12
<1> QED BY <1>13 DEF f, U, HasRank

(* The persons that are embedded are of the frame, and no more than the    *)
(* engine takes.                                                           *)
LEMMA PersonsAre ==
    ASSUME Fields, Measured(host.boxes)
    PROVE  /\ DOMAIN Persons \subseteq 1 .. Batch
           /\ \A k \in DOMAIN Persons : /\ Persons[k] \in 1 .. Len(frame.scene)
                                        /\ frame.scene[Persons[k]].person
<1> DEFINE N == Len(frame.scene)
           all == {i \in DOMAIN host.boxes : AsLook(i).person}
           c == Cardinality(all)
           m == IF c < Batch THEN c ELSE Batch
<1>1. N \in Nat /\ all \subseteq 1 .. N  BY DEF Fields, Long, Measured
<1>2. IsFiniteSet(all)
    <2> HIDE DEF N, all
    <2>1. IsFiniteSet(1 .. N)  BY <1>1, FS_Interval
    <2> QED BY <1>1, <2>1, FS_Subset, Zenon
<1>3. c \in Nat /\ Batch \in Nat /\ m \in Nat /\ m <= c /\ m <= Batch
    <2>1. c \in Nat  BY <1>2, FS_CardinalityType, Zenon
    <2>2. Batch \in Nat  BY ApplicationsAssumption
    <2> HIDE DEF c
    <2> QED BY <2>1, <2>2
<1>4. Persons = [k \in 1 .. m |-> CHOOSE i \in all : Cardinality({j \in all : j <= i}) = k]
    BY Zenon DEF Persons
<1>5. ASSUME NEW k \in 1 .. m PROVE Persons[k] \in all
    <2>1. k \in 1 .. Cardinality(all)  BY <1>3
    <2> HIDE DEF N, all, m
    <2>2. HasRank(all, k)  BY <1>1, <2>1, RankHas
    <2>3. Persons[k] = CHOOSE i \in all : Cardinality({j \in all : j <= i}) = k  BY <1>4
    <2> QED BY <2>2, <2>3, Zenon DEF HasRank
<1>6. DOMAIN Persons = 1 .. m
    <2> HIDE DEF m
    <2> QED BY <1>4
<1>7. \A k \in 1 .. m : k \in 1 .. Batch  BY <1>3
<1>8. \A i \in all : i \in 1 .. N /\ frame.scene[i].person  BY <1>1 DEF AsLook
<1> QED BY <1>5, <1>6, <1>7, <1>8

-----------------------------------------------------------------------------
(* Which embedding is whose.                                               *)
LEMMA AskedKeeps ==
    ASSUME Fields, Streaming, Asked, ReadBack, [Next]_vars
    PROVE  Asked'
<1> SUFFICES ASSUME pc' = "embedding"
             PROVE  /\ Persons' # <<>>
                    /\ \A j \in DOMAIN queue' :
                          queue'[j].boxes = [k \in DOMAIN Persons' |-> host'.boxes[Persons'[k]]]
                    /\ queue' = <<>> => \A k \in DOMAIN Persons' : mem'.embs[k] = <<n', Persons'[k]>>
    BY DEF Asked
<1>1. CASE UNCHANGED vars \/ Stopped
    <2>1. UNCHANGED <<pc, n, frame, queue, mem, host>>  BY <1>1 DEF vars, Stopped
    <2>2. Persons' = Persons  BY <2>1 DEF Persons, AsLook
    <2> QED BY <2>1, <2>2 DEF Asked
<1>2. CASE SubmitPersons
    <2> DEFINE b == [k \in DOMAIN Persons |-> host.boxes[Persons[k]]]
               x == [do |-> "osnet", boxes |-> b]
    <2>1. queue = <<>> /\ Persons # <<>> /\ queue' = Append(queue, x) /\ UNCHANGED <<frame, host>>
        BY <1>2, Zenon DEF SubmitPersons, At, Streaming
    <2>2. Persons' = Persons  BY <2>1 DEF Persons, AsLook
    <2>3. x.boxes = b  BY DEF x
    <2> HIDE DEF x
    <2>4. Pushed(queue', queue, Len(queue), x)  BY <2>1, PushMeans, Zenon DEF Fields
    <2>5. Len(queue) = 0  BY <2>1, EmptyMeans DEF Fields
    <2>6. DOMAIN queue' = {1} /\ queue'[1] = x  BY <2>4, <2>5 DEF Pushed, Long
    <2>7. queue' # <<>>  BY <2>6
    <2> QED BY <2>1, <2>2, <2>3, <2>6, <2>7
<1>3. CASE DeviceCatchesUp
    <2> DEFINE op == queue[1]
    <2>1. Taken(op) /\ UNCHANGED <<app, pc, n, frame, host>>  BY <1>3, DeviceTakes DEF DeviceCatchesUp
    <2>2. pc = "embedding" /\ app = "track" /\ mem.image = n /\ Idle /\ Len(queue) = 1
        BY <2>1 DEF Streaming, Idle, Taken, Fields, Long
    <2>3. 1 \in DOMAIN queue /\ Len(queue') = 0 /\ DOMAIN queue' = {}
        BY <2>1, <2>2 DEF Taken, Fields, Long
    <2>4. op.do = "osnet" /\ op.boxes = [k \in DOMAIN Persons |-> host.boxes[Persons[k]]]
        BY <2>2, <2>3 DEF Asked, Idle, Leftover
    <2>5. Persons' = Persons  BY <2>1 DEF Persons, AsLook
    <2>6. Effected(mem', op, mem)  BY <2>1, EffectIs, Zenon DEF Fields, Taken
    <2> HIDE DEF op
    <2>7. mem'.embs = [k \in 1 .. Batch |-> IF k \in DOMAIN op.boxes
                                            THEN <<Pixels(op, mem), op.boxes[k][2]>>
                                            ELSE mem.embs[k]]
        BY <2>4, <2>6 DEF Effected
    <2>8. Pixels(op, mem) = n  BY <2>2 DEF Pixels
    <2>9. ASSUME NEW k \in DOMAIN Persons PROVE mem'.embs[k] = <<n, Persons[k]>>
        <3>1. Measured(host.boxes)  BY <2>2 DEF ReadBack
        <3>2. k \in 1 .. Batch /\ Persons[k] \in 1 .. Len(frame.scene)  BY <3>1, PersonsAre
        <3>3. host.boxes[Persons[k]] = <<n, Persons[k]>>  BY <3>1, <3>2 DEF Measured
        <3>4. op.boxes[k][2] = Persons[k] /\ k \in DOMAIN op.boxes  BY <2>4, <3>3
        <3> QED BY <2>7, <2>8, <3>2, <3>4
    <2>10. Persons # <<>>  BY <2>2 DEF Asked
    <2> QED BY <2>1, <2>3, <2>5, <2>9, <2>10
<1>4. ~NextFrame /\ ~SourceEnds /\ ~Submit /\ ~Synchronize /\ ~Readout /\ ~Fail
    BY DEF NextFrame, SourceEnds, Submit, Synchronize, Readout, Fail, Exit, Go
<1>5. ~NoPersons /\ ~PersonsFail /\ ~ReadPersons /\ ~FeedTracker /\ ~Keyframe
    BY DEF NoPersons, PersonsFail, ReadPersons, FeedTracker, Keyframe, NextTurn, Go
<1>6. ~Show
    BY DEF Show, ShowOnce, Dump, Record, Leave, NextShown, NextTurn, Exit, Go
<1> QED BY <1>1, <1>2, <1>3, <1>4, <1>5, <1>6 DEF Next

(* The embeddings that are read belong to the persons they are filed under. *)
LEMMA PersonsRead ==
    ASSUME Fields, Asked, ReadBack, ReadPersons
    PROVE  \A i \in DOMAIN PersonsByRow :
              /\ i \in 1 .. Len(frame.scene) /\ PersonsByRow[i] = <<n, i>>
              /\ frame.scene[i].person
<1>1. pc = "embedding" /\ queue = <<>>  BY DEF ReadPersons, At
<1>2. \A k \in DOMAIN Persons : mem.embs[k] = <<n, Persons[k]>>  BY <1>1 DEF Asked
<1>3. \A k \in DOMAIN Persons : /\ Persons[k] \in 1 .. Len(frame.scene)
                                /\ frame.scene[Persons[k]].person
    BY <1>1, PersonsAre DEF ReadBack
<1>4. SUFFICES ASSUME NEW i \in ToSet(Persons)
               PROVE  /\ i \in 1 .. Len(frame.scene) /\ PersonsByRow[i] = <<n, i>>
                      /\ frame.scene[i].person
    BY DEF PersonsByRow
<1>5. \E k \in DOMAIN Persons : Persons[k] = i  BY <1>4 DEF ToSet
<1> DEFINE k == CHOOSE k \in DOMAIN Persons : Persons[k] = i
<1>6. k \in DOMAIN Persons /\ Persons[k] = i  BY <1>5
<1>7. PersonsByRow[i] = mem.embs[k]  BY <1>4, Zenon DEF PersonsByRow
<1> HIDE DEF k
<1> QED BY <1>2, <1>3, <1>6, <1>7

(* What the host read is of the frame in hand, until it lets go of it.     *)
LEMMA ReadBackKeeps ==
    ASSUME Fields, Streaming, Asked, ReadBack, [Next]_vars
    PROVE  ReadBack'
<1> DEFINE Own == {"embed", "embedding", "feed", "show"}
<1>1. ASSUME UNCHANGED <<app, n, frame, host>>, pc' \in Own => pc \in Own,
             pc \in {"feed", "show"} => pc' \in {"feed", "show"}
      PROVE  ReadBack'
    <2>1. pc' \in Own => Measured(host.boxes)' /\ (app \in {"depth", "track"} => Fused(host.depths)')
        BY <1>1 DEF ReadBack, Measured, Fused
    <2> QED BY <1>1, <2>1 DEF ReadBack
<1>2. ASSUME host' = NothingRead, pc' \notin Own
      PROVE  ReadBack'
    BY <1>2 DEF ReadBack, NothingRead
<1>3. CASE UNCHANGED vars \/ Stopped  BY <1>1, <1>3 DEF vars, Stopped
<1>4. CASE DeviceCatchesUp \/ Submit \/ Synchronize
    BY <1>1, <1>4 DEF DeviceCatchesUp, Submit, Synchronize, At, Go
<1>5. CASE NoPersons \/ SubmitPersons \/ PersonsFail
    BY <1>1, <1>5 DEF NoPersons, SubmitPersons, PersonsFail, At, Go
<1>6. CASE NextFrame
    <2>1. pc = "top" /\ pc' = "got" /\ host' = host  BY <1>6 DEF NextFrame, At, Go
    <2> QED BY <2>1 DEF ReadBack
<1>7. CASE SourceEnds \/ Fail \/ Keyframe
    BY <1>2, <1>7 DEF SourceEnds, Fail, Keyframe, Exit, NextTurn, Go
<1>8. CASE Show
    <2>1. (\E c : NextShown(c)) \/ (\E c : Exit("done") /\ clip' = c)
        BY <1>8 DEF Show, ShowOnce, Dump, Record, Leave
    <2> QED BY <1>2, <2>1 DEF NextShown, NextTurn, Exit, Go
<1>9. CASE Readout
    <2>1. /\ pc = "read" /\ pc' \notin {"top", "read"} /\ UNCHANGED <<app, n, frame>>
          /\ \A i \in 1 .. Steps : Worked(i)
        BY <1>9 DEF Readout, At, Go, Streaming
    <2>2. host'.boxes = mem.boxes /\ host'.depths = mem.depths /\ host'.persons = host.persons
        BY <1>9 DEF Readout, Fields
    <2>3. app \in DOMAIN Program /\ app # "keyframes"  BY <1>9 DEF Readout, At, Fields, Streaming
    <2>4. /\ \E i \in 1 .. Steps : P[i] = "seg"
          /\ app \in {"depth", "track"} => \E i \in 1 .. Steps : P[i] = "fuse"
        <3>1. app \in {"detect", "segment", "depth", "track"}  BY <2>3 DEF Program
        <3>2. CASE app \in {"detect", "segment"}  BY <3>2, ProgramIs, <2>3
        <3>3. CASE app = "depth"
            <4>1. 1 \in 1 .. Steps /\ 3 \in 1 .. Steps  BY <3>3, ProgramIs, <2>3
            <4> QED BY <3>3, <4>1, ProgramIs, <2>3
        <3>4. CASE app = "track"
            <4>1. 2 \in 1 .. Steps /\ 4 \in 1 .. Steps  BY <3>4, ProgramIs, <2>3
            <4> QED BY <3>4, <4>1, ProgramIs, <2>3
        <3> QED BY <3>1, <3>2, <3>3, <3>4
    <2>5. Measured(mem.boxes) /\ (app \in {"depth", "track"} => Fused(mem.depths))
        BY <2>1, <2>4 DEF Worked
    <2>6. Measured(host.boxes)' /\ (app \in {"depth", "track"} => Fused(host.depths)')
        BY <2>1, <2>2, <2>5 DEF Measured, Fused
    <2>7. DOMAIN host'.persons = {}  BY <2>1, <2>2 DEF ReadBack
    <2> QED BY <2>1, <2>6, <2>7 DEF ReadBack
<1>10. CASE ReadPersons
    <2>1. pc = "embedding" /\ pc' = "feed" /\ UNCHANGED <<app, n, frame>>
        BY <1>10 DEF ReadPersons, At, Go
    <2>2. host'.boxes = host.boxes /\ host'.depths = host.depths /\ host'.persons = PersonsByRow
        BY <1>10 DEF ReadPersons, Fields
    <2>3. Measured(host.boxes) /\ (app \in {"depth", "track"} => Fused(host.depths))
        BY <2>1 DEF ReadBack
    <2>4. Measured(host.boxes)' /\ (app \in {"depth", "track"} => Fused(host.depths)')
        BY <2>1, <2>2, <2>3 DEF Measured, Fused
    <2>5. DOMAIN frame.scene = 1 .. Len(frame.scene)  BY DEF Fields, Long
    <2>6. \A i \in DOMAIN host'.persons :
             /\ i \in DOMAIN frame.scene
             /\ host'.persons[i] = <<n, i>> /\ frame.scene[i].person
        BY <1>10, <2>2, <2>5, PersonsRead
    <2> QED BY <2>1, <2>4, <2>6 DEF ReadBack
<1>11. CASE FeedTracker
    <2>1. pc = "feed" /\ pc' = "show" /\ UNCHANGED <<app, n, frame>>
        BY <1>11 DEF FeedTracker, At, Go
    <2>2. host'.boxes = host.boxes /\ host'.depths = host.depths /\ host'.persons = host.persons
        BY <1>11 DEF FeedTracker, Fields
    <2>3. Measured(host.boxes) /\ (app \in {"depth", "track"} => Fused(host.depths))
        BY <2>1 DEF ReadBack
    <2>4. Measured(host.boxes)' /\ (app \in {"depth", "track"} => Fused(host.depths)')
        BY <2>1, <2>2, <2>3 DEF Measured, Fused
    <2> QED BY <2>1, <2>2, <2>4 DEF ReadBack
<1> QED BY <1>3, <1>4, <1>5, <1>6, <1>7, <1>8, <1>9, <1>10, <1>11 DEF Next

(* What the tracker is given.                                              *)
LEMMA GivenKeeps ==
    ASSUME Fields, Streaming, ReadBack, Given, [Next]_vars
    PROVE  Given'
<1> SUFFICES ASSUME pc' = "show", app' = "track" PROVE \A i \in DOMAIN frame'.scene : GivenOf(i)'
    BY DEF Given
<1>1. CASE UNCHANGED vars \/ Stopped \/ DeviceCatchesUp
    <2>1. UNCHANGED <<app, pc, n, frame, host>>  BY <1>1 DEF vars, Stopped, DeviceCatchesUp
    <2>2. \A i \in DOMAIN frame.scene : GivenOf(i) => GivenOf(i)'  BY <2>1 DEF GivenOf
    <2> QED BY <2>1, <2>2 DEF Given
<1>2. CASE FeedTracker
    <2>1. pc = "feed" /\ UNCHANGED <<app, n, frame>>  BY <1>2 DEF FeedTracker, At
    <2>2. host'.fed = [i \in DOMAIN host.boxes |-> Fed(i)]  BY <1>2 DEF FeedTracker, Fields
    <2>3. Measured(host.boxes)  BY <2>1 DEF ReadBack
    <2>4. SUFFICES ASSUME NEW i \in DOMAIN frame.scene PROVE GivenOf(i)'
        BY <2>1
    <2>5. i \in 1 .. Len(frame.scene) /\ i \in Nat /\ DOMAIN host.boxes = 1 .. Len(frame.scene)
        BY <2>3, <2>4 DEF Fields, Long, Measured
    <2>6. host'.fed[i] = Fed(i) /\ host.boxes[i] = <<n, i>>
        BY <2>2, <2>3, <2>5 DEF Measured
    <2>7. Fed(i).box = <<n, i>>  BY <2>6 DEF Fed
    <2>8. Fed(i).feature = IF i \in DOMAIN host.persons THEN [osnet |-> host.persons[i]]
                           ELSE IF AsLook(i).large /\ AsLook(i).tokens
                           THEN [tokens |-> <<n, i>>] ELSE None
        BY <2>6 DEF Fed
    <2>9. i \in DOMAIN host.persons => host.persons[i] = <<n, i>> /\ frame.scene[i].person
        BY DEF ReadBack
    <2>10. Fed(i).feature \in {None, [osnet |-> <<n, i>>], [tokens |-> <<n, i>>]}
        BY <2>8, <2>9
    <2>11. None # [osnet |-> <<n, i>>] /\ [tokens |-> <<n, i>>] # [osnet |-> <<n, i>>]
        <3>1. n \in Nat  BY DEF Fields
        <3>2. <<n, i>> \in Nat \X Nat  BY <2>5, <3>1
        <3>3. [osnet |-> <<n, i>>] \in [osnet : Nat \X Nat]  BY <3>2
        <3>4. DOMAIN [tokens |-> <<n, i>>] # DOMAIN [osnet |-> <<n, i>>]  OBVIOUS
        <3> QED BY <3>3, <3>4, ApplicationsAssumption
    <2>12. ~frame.scene[i].person => Fed(i).feature # [osnet |-> <<n, i>>]
        BY <2>8, <2>9, <2>11
    <2> QED BY <2>1, <2>6, <2>7, <2>10, <2>12 DEF GivenOf
<1>3. ~NextFrame /\ ~SourceEnds /\ ~Submit /\ ~Synchronize /\ ~Readout /\ ~Fail
    BY DEF NextFrame, SourceEnds, Submit, Synchronize, Readout, Fail, Exit, Go
<1>4. ~NoPersons /\ ~SubmitPersons /\ ~PersonsFail /\ ~ReadPersons /\ ~Keyframe
    BY DEF NoPersons, SubmitPersons, PersonsFail, ReadPersons, Keyframe, NextTurn, Go
<1>5. ~Show
    BY DEF Show, ShowOnce, Dump, Record, Leave, NextShown, NextTurn, Exit, Go
<1> QED BY <1>1, <1>2, <1>3, <1>4, <1>5 DEF Next

-----------------------------------------------------------------------------
(* Every step keeps the stamps.                                            *)
LEMMA StampedKeeps ==
    ASSUME Fields, Stamped, [Next]_vars
    PROVE  Stamped'
<1> DEFINE Turning == {"got", "wait", "read", "embed", "embedding", "feed", "show"}
<1>1. ASSUME UNCHANGED frame, pc' \in Turning => pc \in Turning PROVE Stamped'
    BY <1>1 DEF Stamped
<1>2. ASSUME NEW how \in {"done", "ended", "failed"}, Exit(how) PROVE Stamped'
    BY <1>2 DEF Exit, Go, Stamped, FirstFrame
<1>3. ASSUME NEW c, NextTurn(c) PROVE Stamped'
    BY <1>3 DEF NextTurn, Go, Stamped, Fields
<1>4. CASE UNCHANGED vars \/ Stopped \/ DeviceCatchesUp
    BY <1>1, <1>4 DEF vars, Stopped, DeviceCatchesUp
<1>5. CASE Submit \/ Synchronize \/ Readout
    BY <1>1, <1>5 DEF Submit, Synchronize, Readout, At, Go
<1>6. CASE NoPersons \/ SubmitPersons \/ PersonsFail \/ ReadPersons \/ FeedTracker
    BY <1>1, <1>6 DEF NoPersons, SubmitPersons, PersonsFail, ReadPersons, FeedTracker, At, Go
<1>7. CASE SourceEnds \/ Fail  BY <1>2, <1>7 DEF SourceEnds, Fail
<1>8. CASE Keyframe  BY <1>3, <1>8 DEF Keyframe
<1>9. CASE Show
    <2>1. (\E c : NextShown(c)) \/ Exit("done")
        BY <1>9 DEF Show, ShowOnce, Dump, Record, Leave
    <2> QED BY <1>2, <1>3, <2>1 DEF NextShown
<1>10. CASE NextFrame
    <2>1. PICK gap \in Gaps, base \in Timebases, stamped \in BOOLEAN :
             /\ ~stamped => base = frame.base
             /\ frame'.t0 = frame.cap /\ frame'.cap = frame.cap + gap /\ frame'.gap = gap
             /\ frame'.base = base
             /\ frame'.pts = IF stamped THEN frame.cap + gap + base ELSE NoPts
             /\ frame'.before = [gap |-> frame.gap, pts |-> frame.pts, base |-> frame.base]
        BY <1>10 DEF NextFrame
    <2>2. gap \in Nat \ {0} /\ base \in Int  BY ApplicationsAssumption
    <2>3. frame'.before.gap = frame.gap /\ frame'.before.base = frame.base
          /\ frame'.before.pts = frame.pts
        BY <2>1
    <2> QED BY <2>1, <2>2, <2>3 DEF Stamped
<1> QED BY <1>4, <1>5, <1>6, <1>7, <1>8, <1>9, <1>10 DEF Next

(* Every step keeps what the clock remembers.                              *)
LEMMA ClockedKeeps ==
    ASSUME Fields, Streaming, Stamped, Clocked, [Next]_vars
    PROVE  Clocked'
<1> DEFINE Rest0 == {"top", "show"}
           Turning == {"got", "wait", "read", "embed", "embedding", "feed"}
<1> SUFFICES ASSUME app' = "track" PROVE Clocked'
    BY DEF Clocked
<1>0. app = "track"
    BY DEF Next, vars, Stopped, DeviceCatchesUp, NextFrame, SourceEnds, Submit, Synchronize, Readout,
           Fail, NoPersons, SubmitPersons, PersonsFail, ReadPersons, FeedTracker, Show, Keyframe,
           ShowOnce, Dump, Record, Leave, NextShown, Exit
<1>1. ASSUME UNCHANGED <<app, frame, clock>>, pc' \in Turning => pc \in Turning,
             pc' \in Rest0 => pc \in Rest0
      PROVE  Clocked'
    BY <1>0, <1>1 DEF Clocked
<1>2. ASSUME NEW how \in {"done", "ended", "failed"}, Exit(how) PROVE Clocked'
    BY <1>2 DEF Exit, Go, Clocked
<1>4. CASE UNCHANGED vars \/ Stopped \/ DeviceCatchesUp
    BY <1>1, <1>4 DEF vars, Stopped, DeviceCatchesUp
<1>5. CASE Submit \/ Synchronize \/ Readout
    BY <1>0, <1>1, <1>5 DEF Submit, Synchronize, Readout, At, Go
<1>6. CASE NoPersons \/ SubmitPersons \/ PersonsFail \/ ReadPersons
    BY <1>1, <1>6 DEF NoPersons, SubmitPersons, PersonsFail, ReadPersons, At, Go
<1>7. CASE SourceEnds \/ Fail  BY <1>2, <1>7 DEF SourceEnds, Fail
<1>8. ~Keyframe  BY <1>0 DEF Keyframe, At, Streaming
<1>9. CASE Show
    <2>1. (\E c : NextShown(c)) \/ Exit("done")
        BY <1>9 DEF Show, ShowOnce, Dump, Record, Leave
    <2>2. ASSUME NEW c, NextShown(c) PROVE Clocked'
        <3>1. pc = "show" /\ pc' = "top" /\ UNCHANGED <<app, clock>>
              /\ frame' = [frame EXCEPT !.scene = <<>>]
            BY <1>9, <2>2 DEF Show, At, NextShown, NextTurn, Go
        <3>2. frame'.t0 = frame.t0 /\ frame'.pts = frame.pts  BY <3>1 DEF Fields
        <3>3. clock = [prev |-> frame.t0, prevPts |-> frame.pts]  BY <1>0, <3>1 DEF Clocked
        <3> QED BY <3>1, <3>2, <3>3 DEF Clocked
    <2> QED BY <1>2, <2>1, <2>2
<1>10. CASE FeedTracker
    <2>1. pc' = "show" /\ clock' = [prev |-> frame.t0, prevPts |-> frame.pts] /\ UNCHANGED <<app, frame>>
        BY <1>10 DEF FeedTracker, Go, PrevPts
    <2> QED BY <2>1 DEF Clocked
<1>11. CASE NextFrame
    <2>1. pc = "top" /\ pc' = "got" /\ clock' = clock  BY <1>11 DEF NextFrame, At, Go
    <2>2. frame'.t0 = frame.cap /\ frame'.before.gap = frame.gap /\ frame'.before.pts = frame.pts
        BY <1>11 DEF NextFrame
    <2>3. clock = [prev |-> frame.t0, prevPts |-> frame.pts]  BY <1>0, <2>1 DEF Clocked
    <2>4. frame.t0 = frame'.t0 - frame'.before.gap  BY <2>2 DEF Stamped
    <2> QED BY <2>1, <2>2, <2>3, <2>4 DEF Clocked
<1> QED BY <1>4, <1>5, <1>6, <1>7, <1>8, <1>9, <1>10, <1>11 DEF Next

(* What passes between two steps of the tracker.                           *)
LEMMA IntervalMeans ==
    ASSUME Stamped, Clocked, app = "track", pc = "feed"
    PROVE  /\ frame.base = frame.before.base =>
                Interval = IF NoPts \notin {frame.pts, frame.before.pts} /\ frame.gap < GapLimit
                           THEN frame.gap ELSE frame.before.gap
           /\ frame.base # frame.before.base =>
                Interval = frame.before.gap \/ Interval \in 1 .. GapLimit - 1
<1> DEFINE b == frame.before
<1>1. /\ frame.cap \in Int /\ frame.gap \in Nat /\ frame.base \in Int /\ frame.gap > 0
      /\ frame.t0 = frame.cap - frame.gap /\ b.gap \in Nat /\ b.base \in Int
    BY DEF Stamped
<1>2. frame.pts \in {NoPts, frame.cap + frame.base} /\ b.pts \in {NoPts, frame.t0 + b.base}
    BY DEF Stamped
<1>3. clock.prev = frame.t0 - b.gap /\ clock.prevPts = b.pts  BY DEF Clocked
<1>4. GapLimit \in Nat  BY ApplicationsAssumption
<1>5. frame.t0 - clock.prev = b.gap  BY <1>1, <1>3
<1> HIDE DEF b
<1>6. CASE NoPts \in {b.pts, frame.pts}
    <2>1. Interval = b.gap  BY <1>3, <1>5, <1>6 DEF Interval
    <2> QED BY <1>1, <1>6, <2>1 DEF b
<1>7. CASE NoPts \notin {b.pts, frame.pts}
    <2>1. frame.pts = frame.cap + frame.base /\ b.pts = frame.t0 + b.base  BY <1>2, <1>7
    <2>2. frame.pts - b.pts = frame.gap + (frame.base - b.base)
          /\ frame.pts \in Int /\ b.pts \in Int
        BY <1>1, <2>1
    <2> DEFINE d == frame.pts - b.pts
    <2>3. d \in Int /\ (frame.pts > b.pts <=> d > 0)  BY <2>2
    <2>4. Interval = IF d > 0 /\ d < GapLimit THEN d ELSE b.gap
        <3>1. NoPts \notin {clock.prevPts, frame.pts}  BY <1>3, <1>7
        <3> QED BY <1>3, <1>5, <2>3, <3>1 DEF Interval
    <2>5. frame.base = b.base => d = frame.gap  BY <1>1, <2>2
    <2> HIDE DEF d
    <2>6. Interval = b.gap \/ Interval \in 1 .. GapLimit - 1  BY <1>1, <1>4, <2>3, <2>4
    <2> QED BY <1>1, <1>7, <2>3, <2>4, <2>5, <2>6 DEF b
<1> QED BY <1>6, <1>7

(* The tracker is stepped by it.                                           *)
LEMMA IntervalKeeps ==
    ASSUME Fields, Stamped, Clocked, IntervalSound, [Next]_vars
    PROVE  IntervalSound'
<1> SUFFICES ASSUME pc' = "show", app' = "track" PROVE IntervalSound'
    BY DEF IntervalSound, At
<1>1. CASE UNCHANGED vars \/ Stopped \/ DeviceCatchesUp
    BY <1>1 DEF vars, Stopped, DeviceCatchesUp, IntervalSound, At
<1>2. CASE FeedTracker
    <2>1. pc = "feed" /\ UNCHANGED <<app, frame>> /\ host'.interval = Interval
        BY <1>2 DEF FeedTracker, At, Fields
    <2> QED BY <2>1, IntervalMeans DEF IntervalSound, At
<1>3. ~NextFrame /\ ~SourceEnds /\ ~Submit /\ ~Synchronize /\ ~Readout /\ ~Fail
    BY DEF NextFrame, SourceEnds, Submit, Synchronize, Readout, Fail, Exit, Go
<1>4. ~NoPersons /\ ~SubmitPersons /\ ~PersonsFail /\ ~ReadPersons /\ ~Keyframe
    BY DEF NoPersons, SubmitPersons, PersonsFail, ReadPersons, Keyframe, NextTurn, Go
<1>5. ~Show
    BY DEF Show, ShowOnce, Dump, Record, Leave, NextShown, NextTurn, Exit, Go
<1> QED BY <1>1, <1>2, <1>3, <1>4, <1>5 DEF Next

-----------------------------------------------------------------------------
(* The strengthened invariant is inductive.                                *)
LEMMA MeasuringKeeps == Measuring /\ [Next]_vars => Measuring'
BY FieldsKeep, StreamingKeeps, AskedKeeps, ReadBackKeeps, GivenKeeps, StampedKeeps, ClockedKeeps,
   IntervalKeeps
   DEF Measuring

(* And implies what the run checks.                                        *)
LEMMA MeasuringGives == Measuring => FedAsMeasured
<1> SUFFICES ASSUME Measuring, pc = "show" PROVE FedFromOneInstance
    BY DEF Measuring, FedAsMeasured, FedFromOneInstance, At
<1>1. Fields /\ Streaming /\ ReadBack /\ Given  BY DEF Measuring
<1>2. Measured(host.boxes) /\ (app \in {"depth", "track"} => Fused(host.depths))
    BY <1>1 DEF ReadBack
<1>3. DOMAIN frame.scene = 1 .. Len(frame.scene)  BY <1>1 DEF Fields, Long
<1>4. app = "track" => \A i \in DOMAIN frame.scene : GivenOf(i)  BY <1>1 DEF Given
<1> QED BY <1>2, <1>3, <1>4 DEF FedFromOneInstance, Measured, Fused, GivenOf

(* Whatever the camera programs hand on of a frame, to the tracker or to a *)
(* picture, was measured on that frame, instance for instance. Within one  *)
(* timebase the tracker is stepped by the time of one turn; where stamps   *)
(* start anew, by that or by less than GapLimit.                           *)
THEOREM FedIsMeasured == Spec => []FedAsMeasured
<1>1. Init => Measuring  BY MeasuringStart
<1>2. Measuring /\ [Next]_vars => Measuring'  BY MeasuringKeeps
<1>3. Measuring => FedAsMeasured  BY MeasuringGives
<1> QED BY <1>1, <1>2, <1>3, PTL DEF Spec

-----------------------------------------------------------------------------
(* The keyframe bank as it will be when the row that the host has assigned *)
(* is written: the host's side of it speaks of that one.                   *)
Owed == queue # <<>> /\ queue[1].do = "row"
Bank == IF Owed THEN Put(mem.bank, queue[1].row, mem.descriptor) ELSE mem.bank

Holds == Len(keys.last)

AlignedRow(B, i) ==
    /\ keys.last[i] \in Nat /\ keys.last[i] < n
    /\ B[i] = keys.past[keys.last[i] + 1] \/ B[i] = Dark
    /\ sink = "serve" => /\ keys.thumbs[i] \in Nat /\ keys.thumbs[i] < n
                         /\ B[i] = keys.past[keys.thumbs[i] + 1]
    /\ B[i] # Dark => /\ \A j \in DOMAIN B \ {i} : B[j] # B[i]
                      /\ \A k \in 1 .. n : k > keys.last[i] + 1 => keys.past[k] # B[i]

Aligned(B) ==
    /\ Long(B, Holds) /\ Long(keys.last, Holds) /\ Holds <= Capacity
    /\ sink = "serve" => Long(keys.thumbs, Holds)
    /\ \A i \in 1 .. Holds : AlignedRow(B, i)

Banked == app = "keyframes" =>
    /\ pc \notin {"done", "ended", "failed"} => Long(keys.past, n)
    /\ Long(mem.bank, Len(mem.bank))
    /\ Owed => queue[1].row \in 1 .. Len(mem.bank) + 1
    /\ Aligned(Bank)

(* A row is replaced, or one is added.                                     *)
PutAt(q, s, k, i, x) ==
    /\ Long(q, IF i <= k THEN k ELSE k + 1) /\ q[i] = x
    /\ \A j \in 1 .. k : j # i => q[j] = s[j]

(* By the definition of putting a row.                                     *)
LEMMA PutMeans ==
    ASSUME NEW s, NEW k, Long(s, k), NEW i \in 1 .. k + 1, NEW x
    PROVE  PutAt(Put(s, i, x), s, k, i, x)
<1>1. k \in Nat /\ DOMAIN s = 1 .. k /\ i \in Nat  BY DEF Long
<1>2. CASE i \in 1 .. k
    <2>1. Put(s, i, x) = [s EXCEPT ![i] = x]  BY <1>1, <1>2 DEF Put
    <2>2. Long([s EXCEPT ![i] = x], k)  BY <1>1 DEF Long
    <2>3. [s EXCEPT ![i] = x][i] = x /\ \A j \in 1 .. k : j # i => [s EXCEPT ![i] = x][j] = s[j]
        BY <1>1, <1>2
    <2> QED BY <1>1, <1>2, <2>1, <2>2, <2>3 DEF PutAt
<1>3. CASE i = k + 1
    <2>1. Put(s, i, x) = Append(s, x)  BY <1>1, <1>3 DEF Put
    <2>2. Pushed(Put(s, i, x), s, k, x)  BY <2>1, PushMeans, Zenon
    <2> QED BY <1>1, <1>3, <2>2 DEF Pushed, PutAt
<1> QED BY <1>1, <1>2, <1>3

(* The row that was used least recently.                                   *)
LEMMA LeastMeans ==
    ASSUME NEW s, NEW k, Long(s, k), k > 0, \A i \in 1 .. k : s[i] \in Nat
    PROVE  Least(s) \in 1 .. k /\ \A i \in 1 .. k : s[Least(s)] <= s[i]
<1>1. k \in Nat /\ DOMAIN s = 1 .. k  BY DEF Long
<1> DEFINE values == {s[i] : i \in 1 .. k}
<1>2. values \subseteq Nat /\ s[1] \in values  BY <1>1
<1>3. PICK v \in values : \A w \in values : v <= w
    <2> HIDE DEF values
    <2>1. values # {}  BY <1>2
    <2> QED BY <1>2, <2>1, LeastNumber, Zenon
<1> DEFINE rows == {i \in 1 .. k : s[i] = v}
<1>4. rows \subseteq Nat /\ rows # {}  BY <1>1, <1>3
<1>5. PICK r \in rows : \A i \in rows : r <= i
    <2> HIDE DEF rows
    <2> QED BY <1>4, LeastNumber, Zenon
<1>6. \A j \in 1 .. k : s[r] < s[j] \/ (s[r] = s[j] /\ r <= j)
    <2> SUFFICES ASSUME NEW j \in 1 .. k PROVE s[r] < s[j] \/ (s[r] = s[j] /\ r <= j)
        OBVIOUS
    <2>1. s[r] = v /\ v <= s[j] /\ s[j] \in Nat /\ v \in Nat  BY <1>2, <1>3
    <2>2. s[j] = v => r <= j  BY <1>5
    <2> QED BY <2>1, <2>2
<1>7. r \in DOMAIN s  BY <1>1
<1>8. /\ Least(s) \in DOMAIN s
      /\ \A j \in DOMAIN s : s[Least(s)] < s[j] \/ (s[Least(s)] = s[j] /\ Least(s) <= j)
    <2>1. \E i \in DOMAIN s : \A j \in DOMAIN s : s[i] < s[j] \/ (s[i] = s[j] /\ i <= j)
        BY <1>1, <1>6, <1>7
    <2> QED BY <2>1, Zenon DEF Least
<1>9. Least(s) \in 1 .. k  BY <1>1, <1>8
<1>10. \A j \in 1 .. k : s[Least(s)] < s[j] \/ s[Least(s)] = s[j]  BY <1>1, <1>8
<1> HIDE DEF rows, values
<1>11. \A j \in 1 .. k : s[j] \in Nat  OBVIOUS
<1> QED BY <1>9, <1>10, <1>11

(* A frame is recognised by the row of its own place, and by no other.     *)
LEMMA RecognisedMeans ==
    ASSUME NEW k, Long(mem.bank, k), Compared(mem.scores, mem.bank)
    PROVE  /\ Recognised => /\ BestId \in 1 .. k /\ mem.bank[BestId] = frame.place
                            /\ frame.place # Dark
           /\ ~Recognised => \A i \in 1 .. k : mem.bank[i] # Dark => mem.bank[i] # frame.place
<1> DEFINE s == mem.scores
           tops == {i \in DOMAIN s : \A j \in DOMAIN s : ~Better(s[j], s[i])}
<1>1. k \in Nat /\ s = [i \in 1 .. k |-> Similar(frame.place, mem.bank[i])] /\ None \notin Nat
    BY ApplicationsAssumption DEF Long, Compared
<1>2. DOMAIN s = 1 .. k /\ \A i \in 1 .. k :
          /\ s[i] \in {None, 1, 2}
          /\ s[i] = 2 <=> mem.bank[i] = frame.place /\ frame.place # Dark
    BY <1>1 DEF Similar
<1> HIDE DEF s
<1>3. ASSUME k > 0 PROVE \E i \in 1 .. k : \A j \in 1 .. k : ~Better(s[j], s[i])
    <2>1. CASE \E i \in 1 .. k : s[i] = 2
        <3>1. PICK i \in 1 .. k : s[i] = 2  BY <2>1
        <3>2. \A j \in 1 .. k : ~Better(s[j], s[i])  BY <1>1, <1>2, <3>1 DEF Better
        <3> QED BY <3>2
    <2>2. CASE (\A i \in 1 .. k : s[i] # 2) /\ \E i \in 1 .. k : s[i] = 1
        <3>1. PICK i \in 1 .. k : s[i] = 1  BY <2>2
        <3>2. \A j \in 1 .. k : ~Better(s[j], s[i])  BY <1>1, <1>2, <2>2, <3>1 DEF Better
        <3> QED BY <3>2
    <2>3. CASE \A i \in 1 .. k : s[i] = None
        <3>1. 1 \in 1 .. k  BY <1>1, <1>3
        <3> QED BY <2>3, <3>1 DEF Better
    <2> QED BY <1>2, <2>1, <2>2, <2>3
<1>4. ASSUME k > 0 PROVE BestId \in tops
    <2>1. tops \subseteq Nat
        <3>1. \A i \in 1 .. k : i \in Nat  BY <1>1
        <3> QED BY <1>2, <3>1
    <2>4. tops # {}
        <3>1. PICK i \in 1 .. k : \A j \in 1 .. k : ~Better(s[j], s[i])  BY <1>3, <1>4
        <3>2. i \in tops  BY <1>2, <3>1
        <3> QED BY <3>2
    <2>2. BestId = CHOOSE i \in tops : \A j \in tops : i <= j  BY Zenon DEF BestId, s
    <2> HIDE DEF tops
    <2>3. \E i \in tops : \A j \in tops : i <= j  BY <2>1, <2>4, LeastNumber, Zenon
    <2> QED BY <2>2, <2>3, Zenon
<1>5. ASSUME Recognised
      PROVE  BestId \in 1 .. k /\ mem.bank[BestId] = frame.place /\ frame.place # Dark
    <2>1. s # <<>> /\ s[BestId] = 2  BY <1>5 DEF Recognised, s
    <2>2. k > 0  BY <1>1, <2>1 DEF s
    <2>3. BestId \in 1 .. k  BY <1>2, <1>4, <2>2
    <2> QED BY <1>2, <2>1, <2>3
<1>6. ASSUME ~Recognised, NEW i \in 1 .. k, mem.bank[i] # Dark
      PROVE  mem.bank[i] # frame.place
    <2>1. k > 0 /\ 1 \in 1 .. k  BY <1>1
    <2>2. s # <<>>
        <3>1. DOMAIN s # {}  BY <1>2, <2>1
        <3> QED BY <3>1
    <2>3. s[BestId] # 2  BY <1>6, <2>2 DEF Recognised, s
    <2>4. BestId \in 1 .. k /\ \A j \in 1 .. k : ~Better(s[j], s[BestId])
        BY <1>2, <1>4, <2>1
    <2>5. s[i] # 2
        <3>1. s[BestId] \in {None, 1} /\ ~Better(s[i], s[BestId])  BY <1>2, <2>3, <2>4
        <3> QED BY <1>1, <3>1 DEF Better
    <2> QED BY <1>2, <1>6, <2>5
<1> QED BY <1>5, <1>6

(* Nothing is in the bank at first.                                        *)
LEMMA BankedStart == Init => Banked
<1> SUFFICES ASSUME Init PROVE Banked
    OBVIOUS
<1>1. queue = <<>> /\ mem.bank = <<>> /\ keys.last = <<>> /\ keys.thumbs = <<>>
      /\ keys.past = <<>> /\ n = 0
    BY DEF Init, Buffers, NoKeyframe
<1>2. Bank = <<>> /\ ~Owed /\ Holds = 0  BY <1>1 DEF Bank, Owed, Holds
<1>3. Long(<<>>, 0) /\ Len(<<>>) = 0 /\ 0 <= Capacity  BY ApplicationsAssumption DEF Long
<1>4. Aligned(Bank)  BY <1>1, <1>2, <1>3 DEF Aligned
<1> QED BY <1>1, <1>2, <1>3, <1>4 DEF Banked

(* The bank as it will be is none of the device's doing.                   *)
LEMMA BankSame ==
    ASSUME Fields, Banked, UNCHANGED <<app, sink, n, keys>>, Bank' = Bank, Long(mem.bank, Len(mem.bank))',
           Owed' => queue'[1].row \in 1 .. Len(mem'.bank) + 1,
           pc \in {"done", "ended", "failed"} => pc' \in {"done", "ended", "failed"}
    PROVE  Banked'
<1>1. CASE app # "keyframes"  BY <1>1 DEF Banked
<1>2. CASE app = "keyframes"
    <2>1. Aligned(Bank) /\ keys' = keys /\ n' = n /\ sink' = sink  BY <1>2 DEF Banked
    <2>2. Holds' = Holds  BY <2>1 DEF Holds
    <2>3. \A i \in 1 .. Holds : AlignedRow(Bank, i) => AlignedRow(Bank, i)'
        BY <2>1 DEF AlignedRow
    <2>4. Aligned(Bank)'  BY <2>1, <2>2, <2>3 DEF Aligned
    <2> QED BY <1>2, <2>1, <2>4 DEF Banked
<1> QED BY <1>1, <1>2

(* A row is written before anything of the next turn.                      *)
LEMMA RowFirst ==
    ASSUME Fields, Streaming, app = "keyframes", queue # <<>>
    PROVE  \A j \in DOMAIN queue : j > 1 => queue[j].do # "row"
<1>0. app \in DOMAIN Program /\ Steps \in Nat /\ Len(queue) \in Nat
      /\ DOMAIN queue = 1 .. Len(queue)
    BY ProgramIs DEF Fields, Long
<1> SUFFICES ASSUME NEW j \in 1 .. Len(queue), j > 1 PROVE queue[j].do # "row"
    BY <1>0
<1>1. ~Idle  BY <1>0 DEF Idle
<1>2. Waiting  BY <1>1 DEF Streaming, Fields
<1>3. CASE Waiting
    <2>1. Done + j \in 1 .. Steps  BY <1>0, <1>3 DEF Waiting, Done
    <2>2. AsTurn(queue[j], Done + j)  BY <1>0, <1>3, <2>1 DEF Waiting
    <2>3. P[Done + j] # "row"
        <3> DEFINE i == Done + j
        <3>1. i \in 1 .. Steps  BY <2>1
        <3> HIDE DEF i
        <3>2. P[i] # "row"  BY <1>0, <3>1, ProgramOrder
        <3> QED BY <3>2 DEF i
    <2> QED BY <2>2, <2>3 DEF AsTurn
<1> QED BY <1>2, <1>3

(* Writing the row makes the bank what it was to be.                       *)
LEMMA BankedDevice ==
    ASSUME Fields, Streaming, Banked, DeviceCatchesUp, app = "keyframes"
    PROVE  Banked'
<1> DEFINE op == queue[1]
<1>1. Taken(op) /\ UNCHANGED <<app, sink, pc, n, keys>> /\ queue # <<>>
    BY DeviceTakes DEF DeviceCatchesUp
<1>2. Effected(mem', op, mem)  BY <1>1, EffectIs, Zenon DEF Fields, Taken
<1> DEFINE k == Len(mem.bank)
<1>3. Long(mem.bank, k) /\ k \in Nat  BY DEF Banked, Long
<1>4. ~Owed'
    <2> SUFFICES ASSUME queue' # <<>> PROVE queue'[1].do # "row"
        BY DEF Owed
    <2>1. 1 \in DOMAIN queue'
        <3>1. Long(queue', Len(queue'))  BY <1>1 DEF Taken
        <3> DEFINE q == queue'
        <3> HIDE DEF q
        <3>2. Long(q, Len(q)) /\ q # <<>>  BY <3>1 DEF q
        <3>3. Len(q) # 0 /\ Len(q) \in Nat /\ DOMAIN q = 1 .. Len(q)  BY <3>2, EmptyMeans DEF Long
        <3>4. 1 \in DOMAIN q  BY <3>3
        <3> QED BY <3>4 DEF q
    <2>2. 2 \in DOMAIN queue /\ queue'[1] = queue[2]  BY <1>1, <2>1 DEF Taken
    <2> QED BY <1>1, <2>2, RowFirst
<1>5. Bank' = mem'.bank  BY <1>4 DEF Bank
<1> HIDE DEF op
<1>6. CASE op.do = "row"
    <2>1. Owed /\ op.row \in 1 .. k + 1  BY <1>1, <1>6 DEF Owed, Banked, op
    <2>2. mem'.bank = Put(mem.bank, op.row, mem.descriptor)  BY <1>2, <1>6 DEF Effected, Put
    <2>3. Bank = Put(mem.bank, op.row, mem.descriptor)  BY <2>1 DEF Bank, op
    <2>4. PutAt(mem'.bank, mem.bank, k, op.row, mem.descriptor)
        <3> HIDE DEF k
        <3> QED BY <1>3, <2>1, <2>2, PutMeans, Zenon
    <2>5. Long(mem.bank, Len(mem.bank))'  BY <2>4 DEF PutAt, Long
    <2> QED BY <1>1, <1>4, <1>5, <2>2, <2>3, <2>5, BankSame
<1>7. CASE op.do # "row"
    <2>1. ~Owed  BY <1>7 DEF Owed, op
    <2>2. mem'.bank = mem.bank  BY <1>2, <1>7 DEF Effected
    <2>3. Bank = mem.bank  BY <2>1 DEF Bank
    <2>4. Long(mem.bank, Len(mem.bank))'  BY <1>3, <2>2
    <2> QED BY <1>1, <1>4, <1>5, <2>2, <2>3, <2>4, BankSame
<1> QED BY <1>6, <1>7

(* The rows the host goes on to believe in when it keeps what there is.    *)
LEMMA RowsKept ==
    ASSUME Fields, Banked, app = "keyframes", pc = "keyframe", queue = <<>>,
           Compared(mem.scores, mem.bank), NEW last, last = Refresh, NEW past,
           Pushed(past, keys.past, n, frame.place), NEW i \in 1 .. Holds
    PROVE  /\ Long(last, Holds) /\ last[i] \in Nat /\ last[i] <= n
           /\ mem.bank[i] = past[last[i] + 1] \/ mem.bank[i] = Dark
           /\ sink = "serve" => /\ keys.thumbs[i] \in Nat /\ keys.thumbs[i] < n
                                /\ mem.bank[i] = past[keys.thumbs[i] + 1]
           /\ mem.bank[i] # Dark => /\ \A j \in 1 .. Holds : j # i => mem.bank[j] # mem.bank[i]
                                    /\ \A k \in 1 .. n + 1 : k > last[i] + 1 => past[k] # mem.bank[i]
<1> DEFINE B == mem.bank
           m == Holds
<1>1. /\ Long(B, m) /\ Long(keys.last, m) /\ m \in Nat /\ n \in Nat /\ Long(keys.past, n)
      /\ AlignedRow(B, i) /\ DOMAIN B = 1 .. m
    BY DEF Banked, Aligned, Bank, Owed, Fields, Long
<1>2. /\ Recognised => BestId \in 1 .. m /\ B[BestId] = frame.place /\ frame.place # Dark
      /\ ~Recognised => \A j \in 1 .. m : B[j] # Dark => B[j] # frame.place
    <2> HIDE DEF m
    <2> QED BY <1>1, RecognisedMeans
<1> HIDE DEF B, m
<1>3. /\ past[n + 1] = frame.place
      /\ \A k \in 1 .. n : past[k] = keys.past[k]
    BY DEF Pushed
<1>4. /\ keys.last[i] \in Nat /\ keys.last[i] < n
      /\ B[i] = keys.past[keys.last[i] + 1] \/ B[i] = Dark
      /\ sink = "serve" => /\ keys.thumbs[i] \in Nat /\ keys.thumbs[i] < n
                           /\ B[i] = keys.past[keys.thumbs[i] + 1]
      /\ B[i] # Dark => /\ \A j \in 1 .. m : j # i => B[j] # B[i]
                        /\ \A k \in 1 .. n : k > keys.last[i] + 1 => keys.past[k] # B[i]
    BY <1>1 DEF AlignedRow
<1>5. sink = "serve" => keys.thumbs[i] + 1 \in 1 .. n /\ B[i] = past[keys.thumbs[i] + 1]
    <2>1. sink = "serve" => keys.thumbs[i] + 1 \in 1 .. n  BY <1>1, <1>4
    <2> QED BY <1>3, <1>4, <2>1
<1>6. CASE Recognised /\ BestId = i
    <2>1. last = [keys.last EXCEPT ![i] = n]  BY <1>6 DEF Refresh
    <2>2. Long(last, m) /\ last[i] = n
        <3>1. i \in DOMAIN keys.last  BY <1>1 DEF Long, m
        <3> QED BY <1>1, <2>1, <3>1 DEF Long
    <2>3. B[i] = past[last[i] + 1]  BY <1>2, <1>3, <1>6, <2>2
    <2>4. \A k \in 1 .. n + 1 : ~(k > last[i] + 1)  BY <1>1, <2>2
    <2>5. last[i] \in Nat /\ last[i] <= n  BY <1>1, <2>2
    <2> QED BY <1>4, <1>5, <2>2, <2>3, <2>4, <2>5 DEF B, m
<1>7. CASE ~(Recognised /\ BestId = i)
    <2>1. Long(last, m) /\ last[i] = keys.last[i]
        <3>1. CASE Recognised
            <4>1. last = [keys.last EXCEPT ![BestId] = n]  BY <3>1 DEF Refresh
            <4>2. i \in DOMAIN keys.last  BY <1>1 DEF Long, m
            <4> QED BY <1>1, <1>7, <3>1, <4>1, <4>2 DEF Long
        <3>2. CASE ~Recognised  BY <1>1, <3>2 DEF Refresh
        <3> QED BY <3>1, <3>2
    <2>2. B[i] # Dark => frame.place # B[i]
        <3>1. CASE Recognised  BY <1>2, <1>4, <1>7, <3>1 DEF m
        <3>2. CASE ~Recognised  BY <1>2, <3>2 DEF m
        <3> QED BY <3>1, <3>2
    <2>3. last[i] + 1 \in 1 .. n  BY <1>1, <1>4, <2>1
    <2>4. B[i] = past[last[i] + 1] \/ B[i] = Dark  BY <1>3, <1>4, <2>1, <2>3
    <2>5. ASSUME B[i] # Dark, NEW k \in 1 .. n + 1, k > last[i] + 1 PROVE past[k] # B[i]
        <3>1. CASE k \in 1 .. n  BY <1>3, <1>4, <2>1, <2>5, <3>1
        <3>2. CASE k = n + 1  BY <1>3, <2>2, <2>5, <3>2
        <3> QED BY <1>1, <2>5, <3>1, <3>2
    <2>6. last[i] \in Nat /\ last[i] <= n  BY <1>1, <1>4, <2>1
    <2> QED BY <1>4, <1>5, <2>1, <2>4, <2>5, <2>6 DEF B, m
<1> QED BY <1>6, <1>7

(* What the host has at hand when it decides on a keyframe.                *)
LEMMA KeyframeSees ==
    ASSUME Fields, Streaming, Banked, Keyframe
    PROVE  /\ app = "keyframes" /\ pc = "keyframe" /\ queue = <<>> /\ Compared(mem.scores, mem.bank)
           /\ mem.descriptor = frame.place
           /\ app' = app /\ sink' = sink /\ mem' = mem /\ n' = n + 1 /\ pc' = "top"
           /\ Long(mem.bank, Holds) /\ Long(keys.past, n) /\ ~Owed
<1>1. pc = "keyframe" /\ app' = app /\ sink' = sink /\ mem' = mem /\ n' = n + 1 /\ pc' = "top"
    BY DEF Keyframe, NextTurn, At, Go
<1>2. app = "keyframes" /\ queue = <<>> /\ \A i \in 1 .. Steps : Worked(i)
    BY <1>1 DEF Streaming
<1>3. 1 \in 1 .. Steps /\ 2 \in 1 .. Steps /\ P[1] = "dino" /\ P[2] = "match"
    BY <1>2, ProgramIs DEF Fields
<1>4. Compared(mem.scores, mem.bank) /\ mem.descriptor = frame.place  BY <1>2, <1>3 DEF Worked
<1>5. ~Owed /\ Bank = mem.bank  BY <1>2 DEF Owed, Bank
<1>6. Long(mem.bank, Holds) /\ Long(keys.past, n)  BY <1>1, <1>2, <1>5 DEF Banked, Aligned
<1> QED BY <1>1, <1>2, <1>4, <1>5, <1>6

(* The rows, when none is enrolled.                                        *)
LEMMA BankedKeep ==
    ASSUME Fields, Streaming, Banked, Keyframe, Keep
    PROVE  Banked'
<1> DEFINE last == Refresh
           past == Append(keys.past, frame.place)
           m == Holds
<1>1. /\ app = "keyframes" /\ pc = "keyframe" /\ queue = <<>> /\ Compared(mem.scores, mem.bank)
      /\ app' = app /\ sink' = sink /\ mem' = mem /\ n' = n + 1 /\ pc' = "top"
      /\ Long(mem.bank, Holds) /\ Long(keys.past, n) /\ ~Owed /\ n \in Nat
    BY KeyframeSees DEF Fields
<1>2. keys'.last = last /\ keys'.past = past /\ keys'.thumbs = keys.thumbs /\ queue' = queue
    BY DEF Keep, Fields
<1>3. Pushed(past, keys.past, n, frame.place)  BY <1>1, PushMeans, Zenon
<1> HIDE DEF last, past, m
<1>4. \A i \in 1 .. m :
        /\ Long(last, m) /\ last[i] \in Nat /\ last[i] <= n
        /\ mem.bank[i] = past[last[i] + 1] \/ mem.bank[i] = Dark
        /\ sink = "serve" => /\ keys.thumbs[i] \in Nat /\ keys.thumbs[i] < n
                             /\ mem.bank[i] = past[keys.thumbs[i] + 1]
        /\ mem.bank[i] # Dark => /\ \A j \in 1 .. m : j # i => mem.bank[j] # mem.bank[i]
                                 /\ \A k \in 1 .. n + 1 : k > last[i] + 1 => past[k] # mem.bank[i]
    <2> SUFFICES ASSUME NEW i \in 1 .. Holds
        PROVE
        /\ Long(last, Holds) /\ last[i] \in Nat /\ last[i] <= n
        /\ mem.bank[i] = past[last[i] + 1] \/ mem.bank[i] = Dark
        /\ sink = "serve" => /\ keys.thumbs[i] \in Nat /\ keys.thumbs[i] < n
                             /\ mem.bank[i] = past[keys.thumbs[i] + 1]
        /\ mem.bank[i] # Dark => /\ \A j \in 1 .. Holds : j # i => mem.bank[j] # mem.bank[i]
                                 /\ \A k \in 1 .. n + 1 : k > last[i] + 1 => past[k] # mem.bank[i]
        BY DEF m
    <2>1. last = Refresh  BY DEF last
    <2> QED BY <1>1, <1>3, <2>1, RowsKept
<1>5. m \in Nat /\ m <= Capacity /\ (sink = "serve" => Long(keys.thumbs, m)) /\ Long(mem.bank, m)
    BY <1>1 DEF Banked, Aligned, m, Long
<1>6. Long(last, m)
    <2>1. CASE m = 0
        <3>1. keys.last = <<>>
            <4>1. Long(keys.last, m)  BY <1>1 DEF Banked, Aligned, m
            <4> QED BY <2>1, <4>1, EmptyMeans
        <3>2. mem.bank = <<>>  BY <1>5, <2>1, EmptyMeans
        <3>3. ~Recognised  BY <1>1, <3>2 DEF Recognised, Compared
        <3> QED BY <2>1, <3>1, <3>3 DEF Refresh, last, Long
    <2>2. CASE m # 0
        <3>1. 1 \in 1 .. m  BY <1>5, <2>2
        <3> QED BY <1>4, <3>1
    <2> QED BY <2>1, <2>2
<1>7. Holds' = m /\ Bank' = mem.bank /\ ~Owed'
    <2>1. Holds' = Len(last)  BY <1>2 DEF Holds
    <2> QED BY <1>1, <1>2, <1>6, <2>1 DEF Bank, Owed, Long
<1>8. \A i \in 1 .. m : AlignedRow(Bank, i)'
    <2> SUFFICES ASSUME NEW i \in 1 .. m PROVE AlignedRow(Bank, i)'
        OBVIOUS
    <2>1. last[i] < n + 1  BY <1>1, <1>4
    <2>2. DOMAIN mem.bank = 1 .. m  BY <1>5 DEF Long
    <2>3. sink = "serve" => keys.thumbs[i] < n + 1  BY <1>1, <1>4
    <2> QED BY <1>1, <1>2, <1>4, <1>7, <2>1, <2>2, <2>3 DEF AlignedRow
<1>9. Aligned(Bank)'  BY <1>1, <1>2, <1>5, <1>6, <1>7, <1>8 DEF Aligned
<1>10. Long(keys.past, n)'  BY <1>1, <1>2, <1>3 DEF Pushed
<1>11. Long(mem.bank, Len(mem.bank))'  BY <1>1 DEF Long
<1> QED BY <1>7, <1>9, <1>10, <1>11 DEF Banked

(* A keyframe is enrolled only of a place that none of the rows is of, in  *)
(* the row used least recently when all are taken.                         *)
LEMMA EnrollMeans ==
    ASSUME Fields, Streaming, Banked, Keyframe, Enroll
    PROVE  /\ ~Recognised /\ Refresh = keys.last
           /\ \A i \in 1 .. Holds : mem.bank[i] # Dark => mem.bank[i] # frame.place
           /\ Row \in 1 .. Holds + 1 /\ (Row = Holds + 1 => Holds < Capacity)
           /\ Row \in 1 .. Holds => \A i \in 1 .. Holds : keys.last[Row] <= keys.last[i]
<1> DEFINE m == Holds
<1>1. /\ app = "keyframes" /\ Compared(mem.scores, mem.bank) /\ Long(mem.bank, Holds) /\ ~Owed
    BY KeyframeSees
<1>2. /\ Long(keys.last, m) /\ m \in Nat /\ m <= Capacity /\ Bank = mem.bank
      /\ \A i \in 1 .. m : keys.last[i] \in Nat
    BY <1>1 DEF Banked, Aligned, AlignedRow, Bank, Long
<1>3. Capacity \in Nat \ {0}  BY ApplicationsAssumption
<1>4. ~Recognised
    <2>1. CASE keys.last = <<>>
        <3>1. m = 0  BY <2>1 DEF Holds
        <3>2. mem.bank = <<>>  BY <1>1, <3>1, EmptyMeans
        <3> QED BY <1>1, <3>2 DEF Recognised, Compared
    <2>2. CASE keys.last # <<>>  BY <2>2 DEF Enroll, ShouldEnroll
    <2> QED BY <2>1, <2>2
<1>5. \A i \in 1 .. m : mem.bank[i] # Dark => mem.bank[i] # frame.place
    <2> HIDE DEF m
    <2>1. Long(mem.bank, m)  BY <1>1 DEF m
    <2> QED BY <1>1, <1>4, <2>1, RecognisedMeans
<1>6. Refresh = keys.last  BY <1>4 DEF Refresh
<1>7. CASE m = Capacity
    <2>1. Row = Least(keys.last)  BY <1>6, <1>7 DEF Row, Holds
    <2>2. m > 0  BY <1>3, <1>7
    <2> HIDE DEF m
    <2>3. Least(keys.last) \in 1 .. m /\ \A i \in 1 .. m : keys.last[Least(keys.last)] <= keys.last[i]
        <3> DEFINE s == keys.last
        <3>1. Long(s, m) /\ \A i \in 1 .. m : s[i] \in Nat  BY <1>2
        <3> HIDE DEF s
        <3>2. Least(s) \in 1 .. m /\ \A i \in 1 .. m : s[Least(s)] <= s[i]
            BY <2>2, <3>1, LeastMeans
        <3> QED BY <3>2 DEF s
    <2>4. Row \in 1 .. m + 1 /\ Row # m + 1  BY <1>2, <2>1, <2>3
    <2> QED BY <1>4, <1>5, <1>6, <2>1, <2>3, <2>4 DEF m
<1>8. CASE m # Capacity
    <2>1. Row = m + 1  BY <1>8 DEF Row, Holds
    <2>2. m < Capacity  BY <1>2, <1>3, <1>8
    <2>3. Row \in 1 .. m + 1 /\ Row \notin 1 .. m  BY <1>2, <2>1
    <2> QED BY <1>4, <1>5, <1>6, <2>2, <2>3
<1> QED BY <1>7, <1>8

(* The rows, with the one that is enrolled.                                *)
LEMMA BankedEnroll ==
    ASSUME Fields, Streaming, Banked, Keyframe, Enroll
    PROVE  Banked'
<1> DEFINE m == Holds
           r == Row
           place == frame.place
           B == mem.bank
           C == Put(mem.bank, Row, frame.place)
           last == Put(keys.last, Row, n)
           thumbs == Put(keys.thumbs, Row, n)
           past == Append(keys.past, frame.place)
           x == [do |-> "row", row |-> Row]
           l == IF r <= m THEN m ELSE m + 1
<1>1. /\ app = "keyframes" /\ pc = "keyframe" /\ queue = <<>> /\ Compared(mem.scores, mem.bank)
      /\ app' = app /\ sink' = sink /\ mem' = mem /\ n' = n + 1 /\ pc' = "top"
      /\ Long(B, m) /\ Long(keys.past, n) /\ ~Owed /\ n \in Nat /\ mem.descriptor = place
    BY KeyframeSees DEF Fields
<1>2. /\ Refresh = keys.last
      /\ \A i \in 1 .. m : B[i] # Dark => B[i] # place
      /\ r \in 1 .. m + 1 /\ (r = m + 1 => m < Capacity)
    BY EnrollMeans
<1>3. /\ Long(keys.last, m) /\ m \in Nat /\ m <= Capacity /\ Bank = B
      /\ sink = "serve" => Long(keys.thumbs, m)
      /\ \A i \in 1 .. m : AlignedRow(B, i)
    BY <1>1 DEF Banked, Aligned, Bank, Long
<1>4. keys'.last = last /\ keys'.past = past /\ (sink = "serve" => keys'.thumbs = thumbs)
      /\ queue' = Append(queue, x)
    BY <1>2 DEF Enroll, Thumbs
<1>5. x.do = "row" /\ x.row = r  OBVIOUS
<1>6. Pushed(past, keys.past, n, place)  BY <1>1, PushMeans, Zenon
<1>7. PutAt(C, B, m, r, place) /\ PutAt(last, keys.last, m, r, n)
      /\ (sink = "serve" => PutAt(thumbs, keys.thumbs, m, r, n))
    <2>1. PutAt(C, B, m, r, place)
        <3> HIDE DEF m
        <3> QED BY <1>1, <1>2, PutMeans, Zenon
    <2>2. PutAt(last, keys.last, m, r, n)
        <3> HIDE DEF m
        <3> QED BY <1>2, <1>3, PutMeans, Zenon
    <2>3. sink = "serve" => PutAt(thumbs, keys.thumbs, m, r, n)
        <3> HIDE DEF m
        <3> QED BY <1>2, <1>3, PutMeans, Zenon
    <2> QED BY <2>1, <2>2, <2>3
<1>8. Pushed(queue', queue, 0, x)
    <2>1. Long(queue, 0)  BY <1>1 DEF Long
    <2> HIDE DEF x
    <2> QED BY <1>4, <2>1, PushMeans, Zenon
<1> HIDE DEF m, r, place, C, last, thumbs, past, x
<1>9. queue' # <<>> /\ queue'[1] = x
    <2>1. Long(queue', 1) /\ queue'[1] = x  BY <1>8 DEF Pushed
    <2>2. DOMAIN queue' # {}  BY <2>1 DEF Long
    <2> QED BY <2>1, <2>2
<1>10. Owed' /\ queue'[1].row = r  BY <1>5, <1>9 DEF Owed
<1>11. Bank' = C  BY <1>1, <1>5, <1>9, <1>10 DEF Bank, C, Put, r, place
<1> HIDE DEF B
<1>12. l \in Nat /\ l <= Capacity /\ r \in 1 .. l /\ (\A i \in 1 .. l : i = r \/ i \in 1 .. m)
    BY <1>2, <1>3, ApplicationsAssumption
<1>13. Long(C, l) /\ Long(last, l) /\ (sink = "serve" => Long(thumbs, l))
    BY <1>7 DEF PutAt
<1>14. Holds' = l
    <2>1. Holds' = Len(last)  BY <1>4 DEF Holds
    <2> QED BY <1>13, <2>1 DEF Long
<1> HIDE DEF l
<1>15. /\ past[n + 1] = place
       /\ \A k \in 1 .. n : past[k] = keys.past[k]
    BY <1>6 DEF Pushed
<1>16. ASSUME NEW i \in 1 .. l
       PROVE  /\ last[i] \in Nat /\ last[i] < n + 1
              /\ C[i] = past[last[i] + 1] \/ C[i] = Dark
              /\ sink = "serve" => /\ thumbs[i] \in Nat /\ thumbs[i] < n + 1
                                   /\ C[i] = past[thumbs[i] + 1]
              /\ C[i] # Dark => /\ \A j \in 1 .. l : j # i => C[j] # C[i]
                                /\ \A k \in 1 .. n + 1 : k > last[i] + 1 => past[k] # C[i]
    <2>1. CASE i = r
        <3>1. C[i] = place /\ last[i] = n /\ (sink = "serve" => thumbs[i] = n)
            BY <1>7, <2>1 DEF PutAt
        <3>2. ASSUME C[i] # Dark, NEW j \in 1 .. l, j # i PROVE C[j] # C[i]
            <4>1. j \in 1 .. m  BY <1>12, <2>1, <3>2
            <4>2. C[j] = B[j]  BY <1>7, <2>1, <3>2, <4>1 DEF PutAt
            <4>3. B[j] # Dark => B[j] # place  BY <1>2, <4>1
            <4> QED BY <3>1, <3>2, <4>2, <4>3
        <3>3. \A k \in 1 .. n + 1 : ~(k > last[i] + 1)  BY <1>1, <3>1
        <3>4. n < n + 1  BY <1>1
        <3> QED BY <1>1, <1>15, <3>1, <3>2, <3>3, <3>4
    <2>2. CASE i # r
        <3>0. i \in 1 .. m  BY <1>12, <2>2
        <3>1. C[i] = B[i] /\ last[i] = keys.last[i] /\ (sink = "serve" => thumbs[i] = keys.thumbs[i])
            BY <1>7, <2>2, <3>0 DEF PutAt
        <3>2. /\ keys.last[i] \in Nat /\ keys.last[i] < n
              /\ B[i] = keys.past[keys.last[i] + 1] \/ B[i] = Dark
              /\ sink = "serve" => /\ keys.thumbs[i] \in Nat /\ keys.thumbs[i] < n
                                   /\ B[i] = keys.past[keys.thumbs[i] + 1]
              /\ B[i] # Dark => /\ \A j \in 1 .. m : j # i => B[j] # B[i]
                                /\ \A k \in 1 .. n : k > keys.last[i] + 1 => keys.past[k] # B[i]
            <4>1. AlignedRow(B, i) /\ DOMAIN B = 1 .. m  BY <1>1, <1>3, <3>0 DEF Long
            <4> QED BY <4>1 DEF AlignedRow
        <3>3. keys.last[i] + 1 \in 1 .. n /\ (sink = "serve" => keys.thumbs[i] + 1 \in 1 .. n)
            BY <1>1, <3>2
        <3>4. /\ C[i] = past[last[i] + 1] \/ C[i] = Dark
              /\ sink = "serve" => C[i] = past[thumbs[i] + 1]
            BY <1>15, <3>1, <3>2, <3>3
        <3>5. /\ last[i] \in Nat /\ last[i] < n + 1
              /\ sink = "serve" => thumbs[i] \in Nat /\ thumbs[i] < n + 1
            BY <1>1, <3>1, <3>2
        <3>6. ASSUME C[i] # Dark, NEW j \in 1 .. l, j # i PROVE C[j] # C[i]
            <4>1. CASE j = r
                <5>1. C[j] = place  BY <1>7, <4>1 DEF PutAt
                <5>2. B[i] # place  BY <1>2, <3>0, <3>1, <3>6
                <5> QED BY <3>1, <5>1, <5>2
            <4>2. CASE j # r
                <5>1. j \in 1 .. m  BY <1>12, <4>2
                <5>2. C[j] = B[j]  BY <1>7, <4>2, <5>1 DEF PutAt
                <5> QED BY <3>1, <3>2, <3>6, <5>1, <5>2
            <4> QED BY <4>1, <4>2
        <3>7. ASSUME C[i] # Dark, NEW k \in 1 .. n + 1, k > last[i] + 1 PROVE past[k] # C[i]
            <4>1. CASE k \in 1 .. n  BY <1>15, <3>1, <3>2, <3>7, <4>1
            <4>2. CASE k = n + 1
                <5>1. B[i] # place  BY <1>2, <3>0, <3>1, <3>7
                <5> QED BY <1>15, <3>1, <4>2, <5>1
            <4> QED BY <1>1, <3>7, <4>1, <4>2
        <3> QED BY <3>4, <3>5, <3>6, <3>7
    <2> QED BY <2>1, <2>2
<1>17. \A i \in 1 .. l : AlignedRow(Bank, i)'
    <2> SUFFICES ASSUME NEW i \in 1 .. l PROVE AlignedRow(Bank, i)'
        OBVIOUS
    <2>1. DOMAIN C = 1 .. l  BY <1>13 DEF Long
    <2>2. keys'.last[i] = last[i] /\ keys'.past = past
          /\ (sink = "serve" => keys'.thumbs[i] = thumbs[i])
        BY <1>4
    <2> QED BY <1>1, <1>11, <1>16, <2>1, <2>2 DEF AlignedRow
<1>18. Aligned(Bank)'  BY <1>1, <1>4, <1>11, <1>12, <1>13, <1>14, <1>17 DEF Aligned
<1>19. Long(keys.past, n)'  BY <1>1, <1>4, <1>6 DEF Pushed
<1>20. Long(mem.bank, Len(mem.bank))' /\ queue'[1].row \in 1 .. Len(mem'.bank) + 1
    BY <1>1, <1>2, <1>10 DEF Long, B
<1> QED BY <1>18, <1>19, <1>20 DEF Banked

(* Every step keeps the bank in line with the host's side of it.           *)
LEMMA BankedKeeps ==
    ASSUME Fields, Streaming, Banked, [Next]_vars
    PROVE  Banked'
<1> DEFINE Over == {"done", "ended", "failed"}
<1>1. ASSUME NEW how \in Over, Exit(how) PROVE Banked'
    <2>1. /\ queue' = <<>> /\ mem'.bank = <<>> /\ keys'.last = <<>> /\ keys'.thumbs = <<>>
          /\ pc' \in Over
        BY <1>1 DEF Exit, Go, Buffers, NoKeyframe
    <2>2. ~Owed' /\ Bank' = <<>> /\ Holds' = 0  BY <2>1 DEF Owed, Bank, Holds
    <2>3. Long(<<>>, 0) /\ Len(<<>>) = 0 /\ 0 <= Capacity  BY ApplicationsAssumption DEF Long
    <2>4. Aligned(Bank)'  BY <2>1, <2>2, <2>3 DEF Aligned
    <2> QED BY <2>1, <2>2, <2>3, <2>4 DEF Banked
<1>2. ASSUME UNCHANGED <<app, sink, n, queue, mem, keys>>, pc \in Over => pc' \in Over,
             app = "keyframes"
      PROVE  Banked'
    <2>1. Owed' = Owed /\ Bank' = Bank  BY <1>2 DEF Owed, Bank, Put
    <2>2. Long(mem.bank, Len(mem.bank))'  BY <1>2 DEF Banked, Long
    <2>3. Owed => queue[1].row \in 1 .. Len(mem.bank) + 1  BY <1>2 DEF Banked
    <2> QED BY <1>2, <2>1, <2>2, <2>3, BankSame
<1> SUFFICES ASSUME app' = "keyframes" PROVE Banked'
    BY DEF Banked
<1>3. app = "keyframes"
    BY DEF Next, vars, Stopped, DeviceCatchesUp, NextFrame, SourceEnds, Submit, Synchronize, Readout,
           Fail, NoPersons, SubmitPersons, PersonsFail, ReadPersons, FeedTracker, Show, Keyframe,
           ShowOnce, Dump, Record, Leave, NextShown, Exit
<1>4. CASE UNCHANGED vars \/ Stopped  BY <1>2, <1>3, <1>4 DEF vars, Stopped
<1>5. CASE DeviceCatchesUp  BY <1>3, <1>5, BankedDevice
<1>6. CASE NextFrame \/ Synchronize  BY <1>2, <1>3, <1>6 DEF NextFrame, Synchronize, At
<1>7. CASE SourceEnds \/ Fail  BY <1>1, <1>7 DEF SourceEnds, Fail
<1>8. ~Readout /\ ~NoPersons /\ ~SubmitPersons /\ ~PersonsFail /\ ~ReadPersons /\ ~FeedTracker /\ ~Show
    BY <1>3 DEF Readout, NoPersons, SubmitPersons, PersonsFail, ReadPersons, FeedTracker, Show, At,
                Streaming
<1>9. CASE Keyframe
    <2>1. Enroll \/ Keep  BY <1>9 DEF Keyframe
    <2> QED BY <1>9, <2>1, BankedEnroll, BankedKeep
<1>10. CASE Submit
    <2>0. app \in DOMAIN Program /\ Long(queue, Len(queue))  BY DEF Fields
    <2>1. /\ queue' = queue \o Turn /\ UNCHANGED <<app, sink, n, mem, keys>> /\ pc \notin Over
        BY <1>10 DEF Submit, At
    <2>2. Long(Turn, Steps) /\ 1 \in 1 .. Steps /\ Turn[1].do = "dino"
        BY <1>3, <2>0, TurnIs, ProgramIs
    <2>3. Joined(queue', queue, Len(queue), Turn, Steps)
        BY <2>0, <2>1, <2>2, JoinMeans, Zenon
    <2>4. DOMAIN queue' # {}  BY <2>0, <2>2, <2>3 DEF Joined, Long
    <2>5. queue' # <<>>  BY <2>4
    <2>6. CASE queue = <<>>
        <3>1. Len(queue) = 0  BY <2>0, <2>6, EmptyMeans
        <3>2. queue'[1] = Turn[1]  BY <2>2, <2>3, <3>1 DEF Joined
        <3>3. ~Owed /\ ~Owed'  BY <2>2, <2>6, <3>2 DEF Owed
        <3> QED BY <1>3, <2>1, <3>3, BankSame DEF Bank, Banked, Long
    <2>7. CASE queue # <<>>
        <3>1. Len(queue) # 0 /\ Len(queue) \in Nat  BY <2>0, <2>7, EmptyMeans DEF Long
        <3>2. 1 \in 1 .. Len(queue)  BY <3>1
        <3>3. queue'[1] = queue[1]  BY <2>3, <3>2 DEF Joined
        <3>4. Owed' = Owed /\ Bank' = Bank  BY <2>1, <2>5, <2>7, <3>3 DEF Owed, Bank, Put
        <3>5. Owed => queue[1].row \in 1 .. Len(mem.bank) + 1  BY <1>3 DEF Banked
        <3>6. Long(mem.bank, Len(mem.bank))'  BY <1>3, <2>1 DEF Banked, Long
        <3> QED BY <2>1, <3>3, <3>4, <3>5, <3>6, BankSame
    <2> QED BY <2>6, <2>7
<1> QED BY <1>4, <1>5, <1>6, <1>7, <1>8, <1>9, <1>10 DEF Next

-----------------------------------------------------------------------------
(* A settled bank is the bank as it will be.                               *)
LEMMA BankedGives == Banked => KeyframesAligned
<1> SUFFICES ASSUME Banked, Settled PROVE KeyframesAligned
    BY DEF KeyframesAligned
<1>1. Bank = mem.bank  BY DEF Settled, Bank, Owed
<1>2. Aligned(mem.bank)  BY <1>1 DEF Settled, Banked
<1>3. DOMAIN mem.bank = 1 .. Holds  BY <1>2 DEF Aligned, Long
<1>4. \A i \in DOMAIN mem.bank : AlignedRow(mem.bank, i)  BY <1>2, <1>3 DEF Aligned
<1> QED BY <1>4 DEF KeyframesAligned, AlignedRow

(* Whenever the bank is settled, each of its rows is of the place the      *)
(* host's side of it says, and no place is held twice.                     *)
THEOREM BankSpeaksOfItsKeyframes == Spec => []KeyframesAligned
<1> DEFINE Inv == Fields /\ Streaming /\ Banked
<1>1. Init => Inv
    <2>1. Init => Measuring /\ Banked  BY MeasuringStart, BankedStart
    <2> QED BY <2>1 DEF Measuring
<1>2. Inv /\ [Next]_vars => Inv'  BY FieldsKeep, StreamingKeeps, BankedKeeps
<1>3. Inv => KeyframesAligned  BY BankedGives
<1> QED BY <1>1, <1>2, <1>3, PTL DEF Spec

-----------------------------------------------------------------------------
(* When its place was last seen, for a row of the settled bank.            *)
LEMMA SeenMeans ==
    ASSUME Fields, Banked, Settled, pc = "keyframe", NEW i \in 1 .. Holds
    PROVE  LastSeen(i) = keys.last[i] + 1
<1>1. Bank = mem.bank /\ app = "keyframes"  BY DEF Settled, Bank, Owed
<1>2. Aligned(mem.bank) /\ Long(keys.past, n) /\ n \in Nat  BY <1>1 DEF Banked, Fields
<1>3. AlignedRow(mem.bank, i)  BY <1>2 DEF Aligned
<1>4. CASE mem.bank[i] = Dark  BY <1>4 DEF LastSeen
<1>5. CASE mem.bank[i] # Dark
    <2> DEFINE at == {k \in DOMAIN keys.past : keys.past[k] = mem.bank[i]}
               k == keys.last[i] + 1
    <2>1. LastSeen(i) = CHOOSE q \in at : \A j \in at : j <= q  BY <1>5, Zenon DEF LastSeen
    <2>2. DOMAIN keys.past = 1 .. n  BY <1>2 DEF Long
    <2>3. k \in 1 .. n /\ keys.past[k] = mem.bank[i]  BY <1>2, <1>3, <1>5 DEF AlignedRow
    <2>4. k \in at  BY <2>2, <2>3
    <2>5. \A j \in at : j \in Nat /\ ~(j > k)  BY <1>3, <1>5, <2>2 DEF AlignedRow
    <2>6. k \in Nat  BY <2>3
    <2> HIDE DEF k
    <2>7. \A j \in at : j <= k  BY <2>5, <2>6
    <2>8. \A q \in at : (\A j \in at : j <= q) => q = k  BY <2>4, <2>5, <2>6, <2>7
    <2> HIDE DEF at
    <2>9. (CHOOSE q \in at : \A j \in at : j <= q) = k  BY <2>4, <2>7, <2>8
    <2> QED BY <2>1, <2>9 DEF k
<1> QED BY <1>4, <1>5

(* The row that is reused.                                                 *)
LEMMA LeastSeenGoes ==
    ASSUME Fields, Streaming, Banked, [Next]_vars, NEW v \in DOMAIN keys.last,
           Settled, keys.enrolled' # keys.enrolled, queue' # <<>>, queue'[1].row = v
    PROVE  \A i \in DOMAIN keys.last : LastSeen(v) <= LastSeen(i)
<1>1. Keyframe
    <2>1. keys' # keys  OBVIOUS
    <2>2. ~Exit("done") /\ ~Exit("ended") /\ ~Exit("failed")  BY DEF Exit
    <2> QED BY <2>1, <2>2
         DEF Next, vars, Stopped, DeviceCatchesUp, NextFrame, SourceEnds, Submit, Synchronize,
             Readout, Fail, NoPersons, SubmitPersons, PersonsFail, ReadPersons, FeedTracker, Show,
             ShowOnce, Dump, Record, Leave, NextShown
<1>2. pc = "keyframe" /\ queue = <<>>  BY <1>1, KeyframeSees
<1>3. Enroll
    <2>1. Keep => keys'.enrolled = keys.enrolled  BY DEF Keep, Fields
    <2> QED BY <1>1, <2>1 DEF Keyframe
<1> DEFINE m == Holds
           x == [do |-> "row", row |-> Row]
<1>4. Long(keys.last, m) /\ \A i \in 1 .. m : keys.last[i] \in Nat
    BY DEF Settled, Banked, Aligned, AlignedRow
<1>5. v = Row
    <2>1. queue' = Append(queue, x)  BY <1>3 DEF Enroll
    <2>2. Long(queue, 0) /\ x.row = Row  BY <1>2 DEF Long
    <2> HIDE DEF x
    <2>3. Pushed(queue', queue, 0, x)  BY <2>1, <2>2, PushMeans, Zenon
    <2> QED BY <2>2, <2>3 DEF Pushed
<1>6. Row \in 1 .. m /\ DOMAIN keys.last = 1 .. m  BY <1>4, <1>5 DEF Long
<1>7. \A i \in 1 .. m : keys.last[Row] <= keys.last[i]  BY <1>1, <1>3, <1>6, EnrollMeans
<1>8. \A i \in 1 .. m : LastSeen(i) = keys.last[i] + 1  BY <1>2, SeenMeans
<1> HIDE DEF m
<1>9. \A i \in 1 .. m : keys.last[Row] + 1 <= keys.last[i] + 1  BY <1>4, <1>6, <1>7
<1> QED BY <1>5, <1>6, <1>8, <1>9

(* The keyframe that makes room is the one whose place has not been seen   *)
(* for longest.                                                            *)
THEOREM RevisitedPlacesStay == Spec => LeastSeenLeaves
<1> DEFINE Inv == Fields /\ Streaming /\ Banked
           Leaves == \A v \in DOMAIN keys.last :
                        Settled /\ keys.enrolled' # keys.enrolled /\ queue' # <<>> /\ queue'[1].row = v =>
                            \A i \in DOMAIN keys.last : LastSeen(v) <= LastSeen(i)
<1>1. Init => Inv
    <2>1. Init => Measuring /\ Banked  BY MeasuringStart, BankedStart
    <2> QED BY <2>1 DEF Measuring
<1>2. Inv /\ [Next]_vars => Inv'  BY FieldsKeep, StreamingKeeps, BankedKeeps
<1>3. Inv /\ [Next]_vars => [Leaves]_vars
    <2>1. Inv /\ [Next]_vars => Leaves  BY LeastSeenGoes
    <2> QED BY <2>1
<1> QED BY <1>1, <1>2, <1>3, PTL DEF Spec, LeastSeenLeaves
------------------------------------------------------------------------------
(* The batch programs. What a program holds while it runs.                 *)
BatchSpec == BatchInit /\ [][BatchNext]_batchVars

OneFrameAStem ==
    \A d \in Directories : \A f, g \in d :
        {Lower(f.ext), Lower(g.ext)} \subseteq ToSet(FrameExts) /\ f.stem = g.stem => f = g
OneEngineAFingerprint ==
    \A e, g \in Extractors : e.fp = g.fp => e.maxSide = g.maxSide

Slots == {"name", "engine", "pc", "todo", "need", "attempt", "plan", "hand", "done", "dead",
          "failed", "rows", "pairs", "error"}
Held(b) ==
    /\ DOMAIN b = Slots
    /\ b.engine \in Extractors
    /\ b.pc \in {"read", "fit", "submit", "write", "match", "finish"}
    /\ Long(b.todo, Len(b.todo))
    /\ b.done \in Nat /\ b.failed \in Nat
    /\ b.pc # "finish" => b.todo # <<>>

BatchFields ==
    /\ dir \in Directories /\ lines \in PairLists
    /\ DOMAIN status = Programs /\ DOMAIN files = Programs
    /\ Long(breaks, Len(breaks))
    /\ batch.name \in Programs \cup {"none"}
    /\ \A p \in Programs : status[p] = "running" <=> batch.name = p
    /\ batch.name \in Programs => Held(batch)

------------------------------------------------------------------------------
(* The programs that write a file of each frame, and dino_batch.           *)
OverFrames == batch.name \in Programs \ {"lightglue"}
Named == Sorted(Frames)
FrameCount == Cardinality(Frames)
Handled == FrameCount - Len(batch.todo)

(* The first m of the names s are in the files F, each of its own picture. *)
WholeIn(F, f) == f.stem \in DOMAIN F /\ F[f.stem] # Torn /\ F[f.stem].file = f
AllWhole(F, s, m) == \A j \in 1 .. m : WholeIn(F, s[j])
RowsOf(rows, s, m) == Long(rows, m) /\ \A j \in 1 .. m : rows[j].of.file = s[j]
Follows(todo, s, m) == m >= 0 /\ \A j \in 1 .. Len(todo) : todo[j] = s[m + j]

FilesSoFar == OverFrames =>
    /\ FrameCount > 0
    /\ Follows(batch.todo, Named, Handled)
    /\ batch.pc # "match"
    /\ batch.pc = "finish" => batch.todo = <<>>
    /\ batch.pc = "write" => batch.name # "dino" /\ batch.hand # Torn /\ batch.hand.file = InHand
    /\ batch.done <= Handled
    /\ batch.done = Handled /\ batch.name # "dino" => AllWhole(files[batch.name], Named, Handled)
    /\ batch.name = "dino" => RowsOf(batch.rows, Named, Handled)

CompleteFiles(F, fs) == fs # {} /\ \A f \in fs : WholeIn(F, f)
CompleteRows(R, s) == [i \in DOMAIN R |-> R[i].of.file] = s

FilesComplete ==
    /\ \A p \in {"aliked", "xfeat", "depth"} :
          status[p] = "ok" => CompleteFiles(files[p], Frames)
    /\ status["dino"] = "ok" => CompleteRows(files["dino"], Named)

------------------------------------------------------------------------------
(* lightglue_batch: the pairs, the pair in hand, and the cache.            *)
AllPairs == PairsOf(lines)
AtHand == Head(batch.todo)

PairsSoFar == Matching =>
    /\ Parses(lines) /\ batch.pairs = AllPairs
    /\ batch.pc # "write"
    /\ Follows(batch.todo, AllPairs, PairsDone)
    /\ batch.pc = "finish" /\ ~batch.error => batch.todo = <<>>
    /\ batch.error => batch.pc = "finish"

Has(c, i) == \E j \in DOMAIN c : c[j].index = i
Got(c, dead, i) == Has(c, i) \/ i \in dead
Fetched(i) == Got(cache, batch.dead, i)

(* The frames of the pair p that are needed still; the others are there.   *)
Serving(need, at, p, c, dead) ==
    /\ at = "match" => need = <<>>
    /\ at # "match" => need = p \/ need = <<p[2]>>
    /\ need # p => Got(c, dead, p[1])
    /\ need = <<>> => Got(c, dead, p[2])
    /\ at \in {"fit", "submit"} => ~Got(c, dead, Head(need))
PairInHand == Matching /\ batch.pc # "finish" =>
    Serving(batch.need, batch.pc, AtHand, cache, batch.dead)

(* The results c of different frames, in the order of use, none used later *)
(* than at pair d.                                                         *)
Ranked(c, d) ==
    /\ Long(c, Len(c))
    /\ \A i \in DOMAIN c : DOMAIN c[i] = {"index", "of", "used"} /\ c[i].used \in 0 .. d
    /\ \A i, j \in DOMAIN c : c[i].index = c[j].index => i = j
    /\ \A i, j \in DOMAIN c : i < j => c[i].used <= c[j].used

CacheInOrder ==
    /\ ~Matching => cache = <<>>
    /\ Matching => Ranked(cache, PairsDone) /\ Len(cache) <= Larger(Cache, 2)

------------------------------------------------------------------------------
(* The matches written so far.                                             *)
Headed == {"n", "fp", "records"}
OutputOf(F) == DOMAIN F = Headed /\ Long(F.records, Len(F.records)) /\ F.n \in 0 .. Len(F.records)

(* The records R are of different pairs, each among the first d of s.      *)
RecordsOf(R, s, d) ==
    /\ Long(R, Len(R))
    /\ \A k \in 1 .. Len(R) : \E i \in 1 .. d : R[k].pair = s[i]
    /\ \A k, l \in 1 .. Len(R) : R[k].pair = R[l].pair => k = l

AskedFor == {{l[1], l[2]} : l \in ToSet(lines)}
MatchedAll(R, asked) ==
    /\ asked # {} /\ Unordered(R) \subseteq asked
    /\ Cardinality(Unordered(R)) = Len(R)
    /\ 100 * (Cardinality(asked) - Len(R)) <= Tolerated * Cardinality(asked)

Output == files["lightglue"]
RecordsSoFar ==
    /\ Output = <<>> \/ OutputOf(Output)
    /\ Matching =>
          /\ OutputOf(Output) /\ Output.n = 0 /\ Output.fp = batch.engine.fp
          /\ RecordsOf(Output.records, AllPairs, PairsDone)
          /\ Len(Output.records) = batch.done
          /\ batch.dead = {} /\ ~batch.error => batch.done + batch.failed = PairsDone
MatchesComplete == status["lightglue"] = "ok" =>
    /\ OutputOf(Output) /\ Output.n = Len(Output.records)
    /\ MatchedAll(Output.records, AskedFor)

------------------------------------------------------------------------------
(* Where an extraction comes from.                                         *)
NoneShort == ToSet(breaks) \cap {"upload", "alloc"} = {}
Natural(f) == Plan(f.size[1], f.size[2], Larger(f.size[1], f.size[2]))
Fallback(f) == Plan(f.size[1], f.size[2], FallbackMaxSide)
Suits(plan, e) == plan.fits /\ ~(Larger(plan.cw, plan.ch) > e.maxSide)
Chosen(f, e) == IF Suits(Natural(f), e) THEN Natural(f) ELSE Fallback(f)
Properly(x, f, e) == x = Extraction(f, Chosen(f, e), e)

(* How far the frame f has come in b: the cap is tried only if the engine  *)
(* does not take the natural size.                                         *)
Sought(f, b) ==
    /\ b.pc \in {"read", "match"} => b.attempt = 0
    /\ b.pc \in {"fit", "submit"} =>
          b.attempt = 0 \/ (b.attempt = 1 /\ ~Suits(Natural(f), b.engine))
    /\ b.pc \in {"fit", "submit", "write"} => Decodes(f)
    /\ b.pc = "submit" =>
          b.plan.fits /\ b.plan = IF b.attempt = 0 THEN Natural(f) ELSE Fallback(f)
    /\ b.pc = "write" => Properly(b.hand, f, b.engine)

Fitted == NoneShort /\ (Matching \/ Running("aliked")) => Sought(InHand, batch)

(* What aliked_batch has written.                                          *)
OfEngine(x) == x # Torn => \E e \in Extractors : Properly(x, x.file, e)
OfAliked == NoneShort => \A s \in DOMAIN files["aliked"] : OfEngine(files["aliked"][s])

(* What lightglue_batch holds, and what it matched: the frames by number.  *)
Pics == [i \in Nat |-> PathFor(i)]
OfPicture(x, f, e) == Decodes(f) /\ Properly(x, f, e)
CacheFrom(c, pics, e) ==
    \A k \in DOMAIN c : c[k].index \in Nat /\ OfPicture(c[k].of, pics[c[k].index], e)
RecordsFrom(R, pics, e) ==
    \A k \in 1 .. Len(R), side \in {1, 2} :
        R[k].pair[side] \in Nat /\ OfPicture(R[k].of[side], pics[R[k].pair[side]], e)

OfGlue == NoneShort =>
    /\ Matching => /\ CacheFrom(cache, Pics, batch.engine)
                   /\ RecordsFrom(Output.records, Pics, batch.engine)
    /\ Output # <<>> /\ ~Matching =>
          \E e \in Extractors : e.fp = Output.fp /\ RecordsFrom(Output.records, Pics, e)

Extracting == Fitted /\ OfAliked /\ OfGlue

------------------------------------------------------------------------------
(* Sorting: what comes before a member is an order of the members.         *)
Orders(before, S) ==
    /\ \A x \in S : before[x] \subseteq S /\ x \notin before[x]
    /\ \A x, y \in S : x # y => x \in before[y] \/ y \in before[x]
    /\ \A x, y, z \in S : x \in before[y] /\ y \in before[z] => x \in before[z]

Lists(s, S) ==
    /\ Long(s, Cardinality(S))
    /\ \A i \in 1 .. Cardinality(S) : s[i] \in S
    /\ \A i, j \in 1 .. Cardinality(S) : s[i] = s[j] => i = j
    /\ \A x \in S : \E i \in 1 .. Cardinality(S) : s[i] = x

(* The sorted sequence has every member once.                              *)
LEMMA AscendingLists ==
    ASSUME NEW S, IsFiniteSet(S), NEW before, Orders(before, S)
    PROVE  Lists(Ascending(S, before), S)
<1> DEFINE m == Cardinality(S)
           rank == [x \in S |-> Cardinality(before[x]) + 1]
           s == Ascending(S, before)
<1>1. m \in Nat /\ IsFiniteSet(1 .. m) /\ Cardinality(1 .. m) = m
    <2>1. m \in Nat  BY FS_CardinalityType
    <2> HIDE DEF m
    <2>2. IsFiniteSet(1 .. m) /\ Cardinality(1 .. m) = IF 1 > m THEN 0 ELSE m - 1 + 1
        BY <2>1, FS_Interval
    <2> QED BY <2>1, <2>2
<1>2. ASSUME NEW x \in S
      PROVE  /\ IsFiniteSet(before[x]) /\ Cardinality(before[x]) \in Nat
             /\ Cardinality(before[x]) < m
    <2>1. before[x] \in SUBSET S /\ before[x] # S  BY DEF Orders
    <2>2. IsFiniteSet(before[x]) /\ Cardinality(before[x]) <= m /\ Cardinality(before[x]) # m
        BY <2>1, FS_Subset
    <2>3. Cardinality(before[x]) \in Nat  BY <2>2, FS_CardinalityType
    <2> HIDE DEF m
    <2> QED BY <1>1, <2>2, <2>3
<1>3. ASSUME NEW x \in S, NEW y \in S, x \in before[y]
      PROVE  Cardinality(before[x]) < Cardinality(before[y])
    <2>1. before[x] \in SUBSET before[y]  BY <1>3 DEF Orders
    <2>2. before[x] # before[y]  BY <1>3 DEF Orders
    <2>3. /\ Cardinality(before[x]) <= Cardinality(before[y])
          /\ Cardinality(before[x]) # Cardinality(before[y])
        BY <1>2, <2>1, <2>2, FS_Subset
    <2> QED BY <1>2, <2>3
<1>4. rank \in [S -> 1 .. m]
    <2> HIDE DEF m
    <2>1. ASSUME NEW x \in S PROVE Cardinality(before[x]) + 1 \in 1 .. m
        BY <1>1, <1>2
    <2> QED BY <2>1
<1>5. \A x, y \in S : rank[x] = rank[y] => x = y
    <2> SUFFICES ASSUME NEW x \in S, NEW y \in S, rank[x] = rank[y], x # y PROVE FALSE
        OBVIOUS
    <2>1. Cardinality(before[x]) = Cardinality(before[y])
        <3>1. rank[x] = Cardinality(before[x]) + 1 /\ rank[y] = Cardinality(before[y]) + 1
            OBVIOUS
        <3>2. Cardinality(before[x]) \in Nat /\ Cardinality(before[y]) \in Nat  BY <1>2
        <3>3. Cardinality(before[x]) + 1 = Cardinality(before[y]) + 1  BY <3>1, Zenon
        <3> HIDE DEF rank, m
        <3> QED BY <3>2, <3>3
    <2>2. x \in before[y] \/ y \in before[x]  BY DEF Orders
    <2> QED BY <1>2, <1>3, <2>1, <2>2
<1>6. rank \in Surjection(S, 1 .. m)
    <2>1. rank \in Injection(S, 1 .. m)  BY <1>4, <1>5 DEF Injection, IsInjective
    <2> HIDE DEF rank
    <2> QED BY <1>1, <2>1, FS_Injection
<1>7. \A i \in 1 .. m : \E x \in S : rank[x] = i
    BY <1>6, Zenon DEF Surjection
<1>8. s = [i \in 1 .. m |-> CHOOSE x \in S : Cardinality(before[x]) = i - 1]
    BY DEF Ascending
<1>9. \A i \in 1 .. m : s[i] \in S /\ Cardinality(before[s[i]]) = i - 1
    <2> SUFFICES ASSUME NEW i \in 1 .. m
                 PROVE  s[i] \in S /\ Cardinality(before[s[i]]) = i - 1
        OBVIOUS
    <2>1. PICK x \in S : rank[x] = i  BY <1>7
    <2>2. rank[x] = Cardinality(before[x]) + 1  OBVIOUS
    <2>3. Cardinality(before[x]) = i - 1
        <3> HIDE DEF rank, m
        <3> QED BY <1>2, <2>1, <2>2
    <2>4. s[i] = CHOOSE y \in S : Cardinality(before[y]) = i - 1  BY <1>8, Zenon
    <2> HIDE DEF s
    <2> QED BY <2>3, <2>4, Zenon
<1> HIDE DEF s
<1>10. ASSUME NEW i \in 1 .. m, NEW j \in 1 .. m, s[i] = s[j] PROVE i = j
    <2> HIDE DEF m
    <2> QED BY <1>1, <1>9, <1>10
<1>11. ASSUME NEW x \in S PROVE \E i \in 1 .. m : s[i] = x
    <2>1. rank[x] \in 1 .. m /\ rank[x] = Cardinality(before[x]) + 1  BY <1>4
    <2>2. s[rank[x]] \in S /\ Cardinality(before[s[rank[x]]]) = rank[x] - 1  BY <1>9, <2>1
    <2>3. rank[s[rank[x]]] = Cardinality(before[s[rank[x]]]) + 1  BY <2>2
    <2>4. rank[s[rank[x]]] = rank[x]
        <3> HIDE DEF rank, m
        <3> QED BY <1>1, <1>2, <2>1, <2>2, <2>3
    <2>5. s[rank[x]] = x
        <3> HIDE DEF rank, m
        <3> QED BY <1>5, <2>2, <2>4
    <2> QED BY <2>1, <2>5
<1>12. Long(s, m)
    <2> HIDE DEF m
    <2> QED BY <1>1, <1>8 DEF Long
<1> HIDE DEF m
<1>13. \A i \in 1 .. m : s[i] \in S  BY <1>9
<1> QED BY <1>10, <1>11, <1>12, <1>13, Zenon DEF Lists, m, s

(* The frames are listed once each.                                        *)
LEMMA FramesListed ==
    ASSUME dir \in Directories
    PROVE  IsFiniteSet(Frames) /\ Lists(Named, Frames)
<1> DEFINE before == [f \in Frames |-> {g \in Frames : \/ g.stem < f.stem
                                          \/ /\ g.stem = f.stem
                                             /\ ExtOrder[g.ext] < ExtOrder[f.ext]}]
<1>1. /\ IsFiniteSet(dir)
      /\ \A f \in dir : f.stem \in Nat
      /\ \A f, g \in dir : f.stem = g.stem /\ f.ext = g.ext => f = g
    BY BatchAssumption
<1>2. Frames \in SUBSET dir  BY DEF Frames
<1>3. IsFiniteSet(Frames)  BY <1>1, <1>2, FS_Subset
<1>4. \A f \in Frames : f.ext \in {"JPEG", "JPG", "PNG", "jpeg", "jpg", "png"}
    <2>1. ToSet(FrameExts) = {"jpg", "jpeg", "png"}  BY DEF ToSet, FrameExts
    <2> QED BY <2>1 DEF Frames, Lower
<1>5. \A f \in Frames : ExtOrder[f.ext] \in Nat
    BY <1>4 DEF ExtOrder
<1>6. \A f, g \in Frames : ExtOrder[f.ext] = ExtOrder[g.ext] => f.ext = g.ext
    <2>1. /\ ExtOrder["JPEG"] = 1 /\ ExtOrder["JPG"] = 2 /\ ExtOrder["PNG"] = 3
          /\ ExtOrder["jpeg"] = 4 /\ ExtOrder["jpg"] = 5 /\ ExtOrder["png"] = 6
        BY DEF ExtOrder
    <2> QED BY <1>4, <2>1
<1>7. Orders(before, Frames)
    <2>1. \A f \in Frames : before[f] = {g \in Frames : \/ g.stem < f.stem
                                          \/ /\ g.stem = f.stem
                                             /\ ExtOrder[g.ext] < ExtOrder[f.ext]}
        OBVIOUS
    <2> HIDE DEF before
    <2>2. \A f \in Frames : f.stem \in Nat  BY <1>1, <1>2
    <2>3. \A x \in Frames : before[x] \subseteq Frames /\ x \notin before[x]
        BY <1>5, <2>1, <2>2
    <2>4. \A x, y \in Frames : x # y => x \in before[y] \/ y \in before[x]
        BY <1>1, <1>2, <1>5, <1>6, <2>1, <2>2
    <2>5. \A x, y, z \in Frames : x \in before[y] /\ y \in before[z] => x \in before[z]
        BY <1>5, <2>1, <2>2
    <2> QED BY <2>3, <2>4, <2>5 DEF Orders
<1>8. Named = Ascending(Frames, before)  BY DEF Named, Sorted
<1> HIDE DEF before
<1> QED BY <1>3, <1>7, <1>8, AscendingLists

IsPair(p) == p[1] \in Nat /\ p[2] \in Nat /\ p[1] < p[2] /\ p = <<p[1], p[2]>>

(* A line that parses is a pair, in order.                                 *)
LEMMA OrderedIs ==
    ASSUME lines \in PairLists, Parses(lines), NEW l \in ToSet(lines)
    PROVE  IsPair(Ordered(l)) /\ {Ordered(l)[1], Ordered(l)[2]} = {l[1], l[2]}
<1>1. l \in Seq(Nat)
    <2>1. lines \in Seq(Seq(Nat))  BY BatchAssumption
    <2> QED BY <2>1 DEF ToSet
<1>2. Len(l) = 2 /\ l[1] # l[2]  BY DEF Parses
<1>3. l[1] \in Nat /\ l[2] \in Nat
    <2>1. l \in [1 .. Len(l) -> Nat]  BY <1>1
    <2>2. 1 \in 1 .. Len(l) /\ 2 \in 1 .. Len(l)  BY <1>2
    <2> QED BY <2>1, <2>2
<1>4. Ordered(l) = <<AtMost(l[1], l[2]), Larger(l[1], l[2])>>  BY DEF Ordered
<1>5. CASE l[1] < l[2]
    <2>1. Ordered(l) = <<l[1], l[2]>>  BY <1>3, <1>4, <1>5 DEF AtMost, Larger
    <2> QED BY <1>3, <1>5, <2>1 DEF IsPair
<1>6. CASE l[2] < l[1]
    <2>1. Ordered(l) = <<l[2], l[1]>>  BY <1>3, <1>4, <1>6 DEF AtMost, Larger
    <2> QED BY <1>3, <1>6, <2>1 DEF IsPair
<1> QED BY <1>2, <1>3, <1>5, <1>6

(* The pairs are listed once each.                                         *)
LEMMA PairsListed ==
    ASSUME lines \in PairLists, Parses(lines)
    PROVE  /\ IsFiniteSet(PairsIn(lines)) /\ Lists(AllPairs, PairsIn(lines))
           /\ \A p \in PairsIn(lines) : IsPair(p)
<1> DEFINE S == PairsIn(lines)
           before == [q \in S |-> {p \in S : p[1] < q[1] \/ (p[1] = q[1] /\ p[2] < q[2])}]
<1>1. \A p \in S : IsPair(p)
    BY OrderedIs DEF PairsIn
<1>2. IsFiniteSet(S)
    <2>1. lines \in Seq(Seq(Nat))  BY BatchAssumption
    <2>2. Len(lines) \in Nat /\ DOMAIN lines = 1 .. Len(lines)  BY <2>1
    <2> DEFINE u == Len(lines)
               f == [i \in 1 .. u |-> Ordered(lines[i])]
    <2>3. IsFiniteSet(1 .. u)
        <3>1. u \in Int /\ 1 \in Int  BY <2>2
        <3> HIDE DEF u
        <3> QED BY <3>1, FS_Interval
    <2>4. \A p \in S : \E i \in 1 .. u : f[i] = p
        BY <2>2 DEF PairsIn, ToSet
    <2>5. \A i \in 1 .. u : f[i] \in S
        BY <2>2 DEF PairsIn, ToSet
    <2>6. f \in Surjection(1 .. u, S)
        BY <2>4, <2>5 DEF Surjection
    <2> HIDE DEF f, S
    <2> QED BY <2>3, <2>6, FS_Surjection
<1>3. Orders(before, S)
    <2>1. \A q \in S : before[q] = {p \in S : p[1] < q[1] \/ (p[1] = q[1] /\ p[2] < q[2])}
        OBVIOUS
    <2> HIDE DEF before, S
    <2>2. \A p \in S : p[1] \in Nat /\ p[2] \in Nat  BY <1>1 DEF IsPair
    <2>3. \A x \in S : before[x] \subseteq S /\ x \notin before[x]
        BY <2>1, <2>2
    <2>4. \A x, y \in S : x # y => x \in before[y] \/ y \in before[x]
        <3>1. \A x, y \in S : x[1] = y[1] /\ x[2] = y[2] => x = y
            <4> SUFFICES ASSUME NEW x \in S, NEW y \in S, x[1] = y[1], x[2] = y[2]
                         PROVE  x = y
                OBVIOUS
            <4>1. x = <<x[1], x[2]>> /\ y = <<y[1], y[2]>>  BY <1>1 DEF IsPair
            <4> QED BY <4>1, Zenon
        <3> QED BY <2>1, <2>2, <3>1
    <2>5. \A x, y, z \in S : x \in before[y] /\ y \in before[z] => x \in before[z]
        BY <2>1, <2>2
    <2> QED BY <2>3, <2>4, <2>5 DEF Orders
<1>4. AllPairs = Ascending(S, before)  BY DEF AllPairs, PairsOf
<1> HIDE DEF before
<1>5. Lists(Ascending(S, before), S)
    <2> HIDE DEF S
    <2> QED BY <1>2, <1>3, AscendingLists
<1> QED BY <1>1, <1>2, <1>4, <1>5

------------------------------------------------------------------------------
(* The ways a program goes on. What a step leaves as it was:               *)
Keeps(c, b, S) == DOMAIN c = Slots /\ \A x \in Slots \ S : c[x] = b[x]

WithTodo(c, b) ==
    /\ Keeps(c, b, {"todo", "attempt", "pc"})
    /\ c.todo = Tail(b.todo) /\ c.attempt = 0
    /\ Rest(c.todo, b.todo, Len(b.todo))
    /\ c.pc = IF Len(b.todo) = 1 THEN "finish" ELSE "read"

(* On to the next frame.                                                   *)
LEMMA NextFileMeans ==
    ASSUME NEW b, DOMAIN b = Slots, Long(b.todo, Len(b.todo)), b.todo # <<>>
    PROVE  WithTodo(NextFile(b), b)
<1>1. Len(b.todo) > 0 /\ Len(b.todo) \in Nat  BY EmptyMeans DEF Long
<1>2. Rest(Tail(b.todo), b.todo, Len(b.todo))  BY <1>1, TailMeans
<1> DEFINE c == NextFile(b)
<1>3. c = [b EXCEPT !.todo = Tail(@), !.attempt = 0,
              !.pc = IF Len(b.todo) = 1 THEN "finish" ELSE "read"]
    BY DEF NextFile
<1> HIDE DEF c
<1>4. DOMAIN c = Slots  BY <1>3
<1>5. c.todo = Tail(b.todo) /\ c.attempt = 0 /\ c.pc = IF Len(b.todo) = 1 THEN "finish" ELSE "read"
    BY <1>3 DEF Slots
<1>6. \A x \in Slots \ {"todo", "attempt", "pc"} : c[x] = b[x]
    BY <1>3
<1> QED BY <1>2, <1>4, <1>5, <1>6 DEF WithTodo, Keeps, c

WithNeed(c, b) ==
    /\ Keeps(c, b, {"need", "attempt", "pc"})
    /\ c.need = Tail(b.need) /\ c.attempt = 0
    /\ c.pc = IF Len(b.need) = 1 THEN "match" ELSE "read"

(* On to the next index of the pair.                                       *)
LEMMA NextNeededMeans ==
    ASSUME NEW b, DOMAIN b = Slots
    PROVE  WithNeed(NextNeeded(b), b)
<1> DEFINE c == NextNeeded(b)
<1>3. c = [b EXCEPT !.need = Tail(@), !.attempt = 0,
              !.pc = IF Len(b.need) = 1 THEN "match" ELSE "read"]
    BY DEF NextNeeded
<1> HIDE DEF c
<1>4. DOMAIN c = Slots  BY <1>3
<1>5. c.need = Tail(b.need) /\ c.attempt = 0 /\ c.pc = IF Len(b.need) = 1 THEN "match" ELSE "read"
    BY <1>3 DEF Slots
<1>6. \A x \in Slots \ {"need", "attempt", "pc"} : c[x] = b[x]
    BY <1>3
<1> QED BY <1>4, <1>5, <1>6 DEF WithNeed, Keeps, c

WithPair(c, b) ==
    /\ Keeps(c, b, {"todo", "need", "pc"})
    /\ Rest(c.todo, b.todo, Len(b.todo))
    /\ IF Len(b.todo) = 1 THEN c.pc = "finish" /\ c.todo = <<>>
       ELSE c.pc = "read" /\ c.need = b.todo[2] /\ c.todo # <<>>

(* On to the next pair.                                                    *)
LEMMA NextPairMeans ==
    ASSUME NEW b, DOMAIN b = Slots, Long(b.todo, Len(b.todo)), b.todo # <<>>
    PROVE  WithPair(NextPair(b), b)
<1>1. Len(b.todo) > 0 /\ Len(b.todo) \in Nat  BY EmptyMeans DEF Long
<1>2. Rest(Tail(b.todo), b.todo, Len(b.todo))  BY <1>1, TailMeans
<1> DEFINE c == NextPair(b)
<1>3. c = IF Len(b.todo) = 1 THEN [b EXCEPT !.todo = <<>>, !.pc = "finish"]
          ELSE [b EXCEPT !.todo = Tail(@), !.need = b.todo[2], !.pc = "read"]
    BY DEF NextPair
<1> HIDE DEF c
<1>4. CASE Len(b.todo) = 1
    <2>1. c = [b EXCEPT !.todo = <<>>, !.pc = "finish"]  BY <1>3, <1>4
    <2>2. DOMAIN c = Slots  BY <2>1
    <2>3. c.todo = <<>> /\ c.pc = "finish"  BY <2>1 DEF Slots
    <2>4. \A x \in Slots \ {"todo", "need", "pc"} : c[x] = b[x]  BY <2>1
    <2>5. Rest(<<>>, b.todo, 1)  BY <1>2, <1>4 DEF Rest, Long
    <2> QED BY <1>4, <2>2, <2>3, <2>4, <2>5 DEF WithPair, Keeps, c
<1>5. CASE Len(b.todo) # 1
    <2>1. c = [b EXCEPT !.todo = Tail(@), !.need = b.todo[2], !.pc = "read"]  BY <1>3, <1>5
    <2>2. DOMAIN c = Slots  BY <2>1
    <2>3. c.todo = Tail(b.todo) /\ c.need = b.todo[2] /\ c.pc = "read"  BY <2>1 DEF Slots
    <2>4. \A x \in Slots \ {"todo", "need", "pc"} : c[x] = b[x]  BY <2>1
    <2>5. Long(Tail(b.todo), Len(b.todo) - 1)  BY <1>2 DEF Rest
    <2>6. Len(b.todo) - 1 # 0  BY <1>1, <1>5
    <2>7. Tail(b.todo) # <<>>
        <3> DEFINE k == Len(b.todo) - 1
        <3>1. Long(Tail(b.todo), k) /\ k # 0  BY <2>5, <2>6
        <3> HIDE DEF k
        <3> QED BY <3>1, NotEmpty, Zenon
    <2>8. c.todo # <<>>  BY <2>3, <2>7
    <2> QED BY <1>2, <1>5, <2>2, <2>3, <2>4, <2>8 DEF WithPair, Keeps, c
<1> QED BY <1>4, <1>5

Ended(how) == batch' = Off /\ status' = [status EXCEPT ![batch.name] = how]
Retried ==
    /\ batch.name \in Fits /\ batch.attempt = 0
    /\ batch' = [batch EXCEPT !.attempt = 1, !.pc = "fit"]
    /\ status' = status
Lost == [batch EXCEPT !.dead = @ \cup {Index}]

(* What comes of a failure.                                                *)
LEMMA ReactMeans ==
    ASSUME batch.name \in Programs, NEW what, React(what)
    PROVE  \/ ~Matching /\ Ended("failed")
           \/ Retried /\ what \in {"small", "reject", "submit", "upload", "alloc"}
              /\ (batch.name = "aliked" => what \in {"small", "reject"})
              /\ (Matching => what \in {"small", "reject", "upload", "alloc"})
           \/ ~Matching /\ batch.name # "dino" /\ batch' = NextFile(batch) /\ status' = status
           \/ Matching /\ batch' = NextNeeded(Lost) /\ status' = status
<1>1. batch.name \in {"aliked", "xfeat", "dino", "depth", "lightglue"}  BY DEF Programs
<1>2. CASE batch.name = "aliked"
    <2>1. Reaction(what) = AlikedReaction(what, batch.attempt)  BY <1>2 DEF Reaction
    <2>2. Proceed(batch) = NextFile(batch)  BY <1>2 DEF Proceed
    <2>3. ~Matching  BY <1>2 DEF Matching, Running
    <2>4. Reaction(what) = "retry" => batch.attempt = 0 /\ what \in {"small", "reject"}
        BY <2>1 DEF AlikedReaction
    <2> QED BY <1>2, <2>2, <2>3, <2>4 DEF React, End, Ended, Retried, Fits
<1>3. CASE batch.name = "xfeat"
    <2>1. Reaction(what) = XFeatReaction(what, batch.attempt)  BY <1>3 DEF Reaction
    <2>2. Proceed(batch) = NextFile(batch)  BY <1>3 DEF Proceed
    <2>3. ~Matching  BY <1>3 DEF Matching, Running
    <2>4. Reaction(what) = "retry" => batch.attempt = 0 /\ what \in {"small", "reject", "submit"}
        BY <2>1 DEF XFeatReaction
    <2> QED BY <1>3, <2>2, <2>3, <2>4 DEF React, End, Ended, Retried, Fits
<1>4. CASE batch.name = "dino"
    <2>1. Reaction(what) = "abort"  BY <1>4 DEF Reaction, DinoReaction
    <2>3. ~Matching  BY <1>4 DEF Matching, Running
    <2> QED BY <2>1, <2>3 DEF React, End, Ended
<1>5. CASE batch.name = "depth"
    <2>1. Reaction(what) # "retry"  BY <1>5 DEF Reaction, DepthReaction
    <2>2. Proceed(batch) = NextFile(batch)  BY <1>5 DEF Proceed
    <2>3. ~Matching  BY <1>5 DEF Matching, Running
    <2> QED BY <1>5, <2>1, <2>2, <2>3 DEF React, End, Ended
<1>6. CASE batch.name = "lightglue"
    <2>1. Reaction(what) = GlueReaction(what, batch.attempt)  BY <1>6 DEF Reaction
    <2>2. Proceed(Lost) = NextNeeded(Lost)  BY <1>6 DEF Proceed, Lost
    <2>3. Matching  BY <1>6 DEF Matching, Running
    <2>4. Reaction(what) = "retry" =>
              batch.attempt = 0 /\ what \in {"small", "upload", "alloc", "reject"}
        BY <2>1 DEF GlueReaction
    <2>5. Reaction(what) # "abort"  BY <2>1 DEF GlueReaction
    <2> QED BY <1>6, <2>2, <2>3, <2>4, <2>5 DEF React, Retried, Fits, Lost
<1> QED BY <1>1, <1>2, <1>3, <1>4, <1>5, <1>6

(* A frame less, and what is held is in order.                             *)
LEMMA FileHeld ==
    ASSUME NEW b, Held(b), b.todo # <<>>, NEW c, WithTodo(c, b)
    PROVE  Held(c) /\ c.name = b.name
<1> DEFINE k == Len(b.todo) - 1
<1>1. DOMAIN c = Slots /\ \A x \in {"name", "engine", "done", "failed"} : c[x] = b[x]
    BY DEF WithTodo, Keeps, Slots
<1>2. Long(c.todo, k)  BY DEF WithTodo, Rest
<1>3. Len(c.todo) = k  BY <1>2 DEF Long
<1>4. c.pc = IF Len(b.todo) = 1 THEN "finish" ELSE "read"  BY DEF WithTodo
<1>5. Len(b.todo) \in Nat  BY DEF Held, Long
<1>6. c.pc # "finish" => k # 0  BY <1>4, <1>5
<1>7. c.pc # "finish" => c.todo # <<>>
    <2> HIDE DEF k
    <2> QED BY <1>2, <1>6, NotEmpty, Zenon
<1>8. Long(c.todo, Len(c.todo))
    <2> HIDE DEF k
    <2> QED BY <1>2, <1>3
<1>9. c.pc \in {"read", "fit", "submit", "write", "match", "finish"}  BY <1>4
<1>10. c.name = b.name /\ c.engine = b.engine /\ c.done = b.done /\ c.failed = b.failed
    BY <1>1
<1> QED BY <1>1, <1>7, <1>8, <1>9, <1>10 DEF Held

(* An index less.                                                          *)
LEMMA NeededHeld ==
    ASSUME NEW b, Held(b), b.todo # <<>>, NEW c, WithNeed(c, b)
    PROVE  Held(c) /\ c.name = b.name /\ c.todo = b.todo
<1>1. /\ DOMAIN c = Slots
      /\ \A x \in {"name", "engine", "done", "failed", "todo"} : c[x] = b[x]
    BY DEF WithNeed, Keeps, Slots
<1>4. c.pc \in {"match", "read"}  BY DEF WithNeed
<1>10. /\ c.name = b.name /\ c.engine = b.engine /\ c.done = b.done /\ c.failed = b.failed
       /\ c.todo = b.todo
    BY <1>1
<1> QED BY <1>1, <1>4, <1>10 DEF Held

(* A pair less.                                                            *)
LEMMA PairHeld ==
    ASSUME NEW b, Held(b), b.todo # <<>>, NEW c, WithPair(c, b)
    PROVE  Held(c) /\ c.name = b.name
<1> DEFINE k == Len(b.todo) - 1
<1>1. DOMAIN c = Slots /\ \A x \in {"name", "engine", "done", "failed"} : c[x] = b[x]
    BY DEF WithPair, Keeps, Slots
<1>2. Long(c.todo, k)  BY DEF WithPair, Rest
<1>3. Len(c.todo) = k  BY <1>2 DEF Long
<1>4. c.pc \in {"finish", "read"} /\ (c.pc # "finish" => c.todo # <<>>)  BY DEF WithPair
<1>8. Long(c.todo, Len(c.todo))
    <2> HIDE DEF k
    <2> QED BY <1>2, <1>3
<1>10. c.name = b.name /\ c.engine = b.engine /\ c.done = b.done /\ c.failed = b.failed
    BY <1>1
<1> QED BY <1>1, <1>4, <1>8, <1>10 DEF Held

(* A program that ends leaves the others as they are.                      *)
LEMMA EndedFields ==
    ASSUME BatchFields, batch.name \in Programs, NEW how \in {"ok", "failed", "killed"},
           Ended(how), dir' = dir, lines' = lines, DOMAIN files' = Programs,
           Long(breaks', Len(breaks'))
    PROVE  BatchFields'
<1>1. batch'.name = "none"  BY DEF Ended, Off
<1>2. DOMAIN status = Programs  BY DEF BatchFields
<1>3. DOMAIN status' = Programs  BY <1>2 DEF Ended
<1>4. \A p \in Programs : status'[p] = IF p = batch.name THEN how ELSE status[p]
    BY <1>2 DEF Ended
<1>5. \A p \in Programs : status'[p] # "running"
    BY <1>4 DEF BatchFields
<1>6. "none" \notin Programs  BY DEF Programs
<1>7. \A p \in Programs : status'[p] = "running" <=> batch'.name = p  BY <1>1, <1>5, <1>6
<1> QED BY <1>1, <1>3, <1>6, <1>7 DEF BatchFields

(* A program that goes on holds what it needs.                             *)
LEMMA MovedFields ==
    ASSUME BatchFields, batch.name \in Programs, Held(batch'), batch'.name = batch.name,
           status' = status, dir' = dir, lines' = lines, DOMAIN files' = Programs,
           Long(breaks', Len(breaks'))
    PROVE  BatchFields'
BY DEF BatchFields

(* A failure is noted.                                                     *)
LEMMA BreakMeans ==
    ASSUME Long(breaks, Len(breaks)), NEW what, Break(what)
    PROVE  /\ Long(breaks', Len(breaks'))
           /\ ToSet(breaks') = ToSet(breaks) \cup {what}
<1>1. breaks' = Append(breaks, what)  BY DEF Break
<1> DEFINE u == Len(breaks)
<1>2. Pushed(Append(breaks, what), breaks, u, what)  BY PushMeans, Zenon
<1>3. Pushed(breaks', breaks, u, what)  BY <1>1, <1>2
<1>4. u \in Nat /\ DOMAIN breaks = 1 .. u  BY DEF Long
<1> HIDE DEF u
<1>5. Long(breaks', u + 1)  BY <1>3 DEF Pushed
<1>6. DOMAIN breaks' = 1 .. u + 1 /\ Len(breaks') = u + 1  BY <1>5 DEF Long
<1>7. \A i \in 1 .. u : breaks'[i] = breaks[i]  BY <1>3 DEF Pushed
<1>8. breaks'[u + 1] = what  BY <1>3 DEF Pushed
<1>9. ToSet(breaks') = {breaks'[i] : i \in 1 .. u + 1}  BY <1>6 DEF ToSet
<1>10. ToSet(breaks) = {breaks[i] : i \in 1 .. u}  BY <1>4 DEF ToSet
<1>11. Long(breaks', Len(breaks'))  BY <1>5, <1>6
<1>12. ToSet(breaks') = ToSet(breaks) \cup {what}
    BY <1>4, <1>7, <1>8, <1>9, <1>10
<1> QED BY <1>11, <1>12

------------------------------------------------------------------------------
(* The steps of a program over frames.                                     *)
Noted == /\ Long(breaks', Len(breaks')) /\ ToSet(breaks) \subseteq ToSet(breaks')
Unmoved == dir' = dir /\ lines' = lines /\ Noted
StillRuns == status' = status /\ Unmoved

FSkip == /\ batch.name # "dino" /\ batch.pc \in {"read", "fit", "submit"}
         /\ batch' = NextFile(batch) /\ files' = files /\ StillRuns
PlanNow == Plan(InHand.size[1], InHand.size[2], CapOf(batch.name, InHand, batch.attempt))
Unsuited ==
    \/ batch.pc = "fit" /\ ~PlanNow.fits
    \/ batch.pc = "submit" /\ Rejected
FRetry ==
    /\ Retried /\ batch.pc \in {"fit", "submit"}
    /\ batch.name = "aliked" => Unsuited
    /\ Matching /\ NoneShort' => Unsuited
    /\ files' = files /\ StillRuns
FAbort == Ended("failed") /\ files' = files /\ Unmoved
Decoded == /\ batch.pc = "read" /\ Decodes(InHand)
           /\ batch' = [batch EXCEPT !.pc = IF batch.name \in Fits THEN "fit" ELSE "submit"]
           /\ files' = files /\ StillRuns
Planned ==
    /\ batch.pc = "fit"
    /\ PlanNow.fits /\ batch' = [batch EXCEPT !.plan = PlanNow, !.pc = "submit"]
    /\ files' = files /\ StillRuns
Hand == Extraction(InHand, batch.plan, batch.engine)
FRow == /\ batch.name = "dino" /\ batch.pc = "submit"
        /\ batch' = NextFile([batch EXCEPT !.rows = Append(@, [stem |-> InHand.stem, of |-> Hand])])
        /\ files' = files /\ StillRuns
FHand == /\ batch.name # "dino" /\ batch.pc = "submit" /\ ~Rejected
         /\ batch' = [batch EXCEPT !.hand = Hand, !.pc = "write"]
         /\ files' = files /\ StillRuns
FWrite == /\ batch.pc = "write"
          /\ PutFile(batch.name, InHand.stem, batch.hand)
          /\ batch' = NextFile([batch EXCEPT !.done = @ + 1])
          /\ StillRuns
FTorn(how) == /\ batch.pc = "write" /\ PutFile(batch.name, InHand.stem, Torn)
              /\ Ended(how) /\ Unmoved
FFinish == /\ batch.name \in {"aliked", "xfeat", "depth"} /\ batch.pc = "finish"
           /\ Ended(IF FramesDone THEN "ok" ELSE "failed") /\ files' = files /\ Unmoved
FRows == /\ batch.name = "dino" /\ batch.pc = "finish"
         /\ files' = [files EXCEPT !["dino"] = batch.rows] /\ Ended("ok") /\ Unmoved
FNoRows == /\ batch.name = "dino" /\ batch.pc = "finish"
           /\ files' = [files EXCEPT !["dino"] = <<Torn>>] /\ Ended("failed") /\ Unmoved
FKilled == Ended("killed") /\ files' = files /\ Unmoved

FStep == FSkip \/ FRetry \/ FAbort \/ Decoded \/ Planned \/ FRow \/ FHand \/ FWrite
         \/ FTorn("failed") \/ FTorn("killed") \/ FFinish \/ FRows \/ FNoRows \/ FKilled

(* Nothing more is noted where no call fails.                              *)
LEMMA NothingNoted ==
    ASSUME BatchFields, breaks' = breaks PROVE Noted
BY DEF BatchFields, Noted

(* A failure is noted behind the others.                                   *)
LEMMA BreakNoted ==
    ASSUME BatchFields, NEW what, Break(what) PROVE Noted
BY BreakMeans DEF BatchFields, Noted

(* The steps of a program over frames, each as one of the above.           *)
LEMMA FrameSteps ==
    ASSUME BatchFields, OverFrames, BatchNext
    PROVE  FStep /\ (cache' = cache \/ cache' = <<>>)
<1>0. batch.name \in Programs /\ batch.name # "none" /\ ~Matching /\ batch.name # "lightglue"
    BY DEF OverFrames, Programs, Matching, Running
<1>1. CASE Read
    <2>1. batch.pc = "read" /\ UNCHANGED <<dir, lines, cache, files, breaks>>  BY <1>1 DEF Read
    <2>2. Unmoved  BY <2>1, NothingNoted DEF Unmoved
    <2>3. CASE Decodes(InHand)
        BY <1>1, <2>1, <2>2, <2>3 DEF Read, Decoded, StillRuns, FStep
    <2>4. CASE React("decode")
        <3>1. \/ Ended("failed")
              \/ batch.name # "dino" /\ batch' = NextFile(batch) /\ status' = status
            BY <1>0, <2>4, ReactMeans
        <3> QED BY <2>1, <2>2, <3>1 DEF FAbort, FSkip, StillRuns, FStep
    <2> QED BY <1>1, <2>3, <2>4 DEF Read
<1>2. CASE FitFrame
    <2>1. batch.pc = "fit" /\ UNCHANGED <<dir, lines, cache, files, breaks>>  BY <1>2 DEF FitFrame
    <2>2. Unmoved  BY <2>1, NothingNoted DEF Unmoved
    <2>3. CASE PlanNow.fits
        BY <1>2, <2>1, <2>2, <2>3 DEF FitFrame, Planned, PlanNow, StillRuns, FStep
    <2>4. CASE ~PlanNow.fits
        <3>1. React("small")  BY <1>2, <2>4 DEF FitFrame, PlanNow
        <3>2. \/ Ended("failed")
              \/ batch.name # "dino" /\ batch' = NextFile(batch) /\ status' = status
              \/ Retried
            BY <1>0, <3>1, ReactMeans
        <3>3. Retried => FRetry
            BY <2>1, <2>2, <2>4 DEF FRetry, Unsuited, StillRuns, Retried
        <3> QED BY <2>1, <2>2, <3>2, <3>3 DEF FAbort, FSkip, StillRuns, FStep
    <2> QED BY <2>3, <2>4
<1>3. CASE Reject
    <2>1. batch.pc = "submit" /\ UNCHANGED <<dir, lines, cache, files, breaks>>  BY <1>3 DEF Reject
    <2>2. Unmoved  BY <2>1, NothingNoted DEF Unmoved
    <2>3. Rejected /\ React("reject")  BY <1>3 DEF Reject
    <2>4. \/ Ended("failed")
          \/ batch.name # "dino" /\ batch' = NextFile(batch) /\ status' = status
          \/ Retried
        BY <1>0, <2>3, ReactMeans
    <2>5. Retried => FRetry
        BY <2>1, <2>2, <2>3 DEF FRetry, Unsuited, StillRuns, Retried
    <2> QED BY <2>1, <2>2, <2>4, <2>5 DEF FAbort, FSkip, StillRuns, FStep
<1>4. ASSUME NEW what \in {"upload", "alloc", "submit", "sync"}, Fails(what)
      PROVE  FStep /\ cache' = cache
    <2>1. batch.pc = "submit" /\ UNCHANGED <<dir, lines, cache, files>>  BY <1>4 DEF Fails
    <2>2. Unmoved  BY <1>4, <2>1, BreakNoted DEF Fails, Unmoved
    <2>3. React(what)  BY <1>4 DEF Fails
    <2>4. \/ Ended("failed")
          \/ batch.name # "dino" /\ batch' = NextFile(batch) /\ status' = status
          \/ Retried /\ batch.name # "aliked"
        BY <1>0, <2>3, ReactMeans
    <2>5. Retried /\ batch.name # "aliked" => FRetry
        BY <1>0, <2>1, <2>2, <2>3 DEF FRetry, StillRuns, Retried
    <2> QED BY <2>1, <2>2, <2>4, <2>5 DEF FAbort, FSkip, StillRuns, FStep
<1>5. CASE Extract
    <2>1. batch.pc = "submit" /\ ~Rejected /\ UNCHANGED <<dir, lines, files, status, breaks>>
        BY <1>5 DEF Extract
    <2>2. StillRuns  BY <2>1, NothingNoted DEF Unmoved, StillRuns
    <2>3. CASE batch.name = "dino"
        BY <1>0, <1>5, <2>1, <2>2, <2>3 DEF Extract, Running, FRow, Hand, FStep
    <2>4. CASE batch.name # "dino"
        BY <1>0, <1>5, <2>1, <2>2, <2>4 DEF Extract, Running, FHand, Hand, FStep
    <2> QED BY <2>3, <2>4
<1>6. CASE Write
    <2>1. batch.pc = "write" /\ UNCHANGED <<dir, lines, cache>>  BY <1>6 DEF Write
    <2>2. CASE /\ PutFile(batch.name, InHand.stem, batch.hand)
               /\ batch' = NextFile([batch EXCEPT !.done = @ + 1])
               /\ UNCHANGED <<status, breaks>>
        BY <2>1, <2>2, NothingNoted DEF FWrite, StillRuns, Unmoved, FStep
    <2>3. CASE Break("write") /\ PutFile(batch.name, InHand.stem, Torn) /\ End("failed")
        BY <2>1, <2>3, BreakNoted DEF FTorn, Unmoved, End, Ended, FStep
    <2> QED BY <1>6, <2>2, <2>3 DEF Write
<1>7. CASE FinishFrames
    BY <1>7, NothingNoted DEF FinishFrames, FFinish, End, Ended, Unmoved, FStep
<1>8. CASE FinishRows
    <2>1. batch.name = "dino" /\ batch.pc = "finish" /\ UNCHANGED <<dir, lines, cache>>
        BY <1>8 DEF FinishRows, Running
    <2>2. CASE /\ files' = [files EXCEPT !["dino"] = batch.rows]
               /\ End("ok")
               /\ UNCHANGED breaks
        BY <2>1, <2>2, NothingNoted DEF FRows, Unmoved, End, Ended, FStep
    <2>3. CASE /\ Break("write")
               /\ files' = [files EXCEPT !["dino"] = <<Torn>>]
               /\ End("failed")
        BY <2>1, <2>3, BreakNoted DEF FNoRows, Unmoved, End, Ended, FStep
    <2> QED BY <1>8, <2>2, <2>3 DEF FinishRows
<1>9. CASE Crash
    <2>1. Break("crash") /\ End("killed") /\ cache' = <<>> /\ UNCHANGED <<dir, lines>>
        BY <1>9 DEF Crash
    <2>2. Ended("killed") /\ Unmoved  BY <2>1, BreakNoted DEF End, Ended, Unmoved
    <2>3. \/ batch.pc = "write" /\ PutFile(batch.name, InHand.stem, Torn)
          \/ files' = files
        BY <1>0, <1>9 DEF Crash
    <2> QED BY <2>1, <2>2, <2>3 DEF FTorn, FKilled, FStep
<1>10. ~(\E p \in Programs, e \in Extractors : StartOverFrames(p, e))
    BY <1>0 DEF StartOverFrames, Running
<1>11. ~(\E e \in Extractors, k \in Matchers : StartMatching(e, k))
    BY <1>0 DEF StartMatching, Running
<1>12. ~(SkipDead \/ Recall \/ Match \/ FinishMatches)
    BY <1>0 DEF SkipDead, Recall, Match, FinishMatches
<1> QED BY <1>1, <1>2, <1>3, <1>4, <1>5, <1>6, <1>7, <1>8, <1>9, <1>10, <1>11, <1>12
        DEF BatchNext, Work

------------------------------------------------------------------------------
(* The steps of lightglue_batch.                                           *)
Within == cache' = cache /\ files' = files /\ StillRuns
PSkip == batch.pc \in {"read", "fit", "submit"} /\ batch' = NextNeeded(Lost) /\ Within
PRetry == FRetry /\ cache' = cache
PDecoded == Decoded /\ ~Fetched(Index) /\ cache' = cache
PPlanned == Planned /\ cache' = cache
NewResult == [index |-> Index, of |-> Hand, used |-> PairsDone]
PTaken == /\ batch.pc = "submit" /\ ~Rejected
          /\ cache' = Evicted(Append(cache, NewResult), AtHand)
          /\ batch' = NextNeeded(batch) /\ files' = files /\ StillRuns
PPassed == batch.pc = "read" /\ Index \in batch.dead /\ batch' = NextNeeded(batch) /\ Within
PRecall == /\ batch.pc = "read" /\ Cached(Index)
           /\ cache' = Refreshed(Index)
           /\ batch' = NextNeeded(batch) /\ files' = files /\ StillRuns
BothCached == Cached(AtHand[1]) /\ Cached(AtHand[2])
PLeft == batch.pc = "match" /\ ~BothCached /\ batch' = NextPair(batch) /\ Within
PMatched ==
    /\ batch.pc = "match" /\ BothCached
    /\ files' = [files EXCEPT !["lightglue"].records =
                    Append(@, [pair |-> <<AtHand[1], AtHand[2]>>,
                               of |-> <<ResultOf(AtHand[1]), ResultOf(AtHand[2])>>])]
    /\ batch' = NextPair([batch EXCEPT !.done = @ + 1])
    /\ cache' = cache /\ StillRuns
PFailed == /\ batch.pc = "match" /\ batch' = NextPair([batch EXCEPT !.failed = @ + 1])
           /\ BothCached /\ Within
PBroken == /\ batch.pc = "match"
           /\ batch' = [batch EXCEPT !.error = TRUE, !.pc = "finish"] /\ Within
PFinish == /\ batch.pc = "finish" /\ files' = [files EXCEPT !["lightglue"].n = Header]
           /\ Ended(Verdict) /\ cache' = <<>> /\ Unmoved
PNoHeader == Ended("failed") /\ cache' = <<>> /\ files' = files /\ Unmoved
PKilled == /\ \E i \in 0 .. Len(Output.records) :
                 files' = [files EXCEPT !["lightglue"].records = SubSeq(@, 1, i)]
           /\ Ended("killed") /\ cache' = <<>> /\ Unmoved

PStep == PSkip \/ PRetry \/ PDecoded \/ PPlanned \/ PTaken \/ PPassed \/ PRecall \/ PLeft
         \/ PMatched \/ PFailed \/ PBroken \/ PFinish \/ PNoHeader \/ PKilled

(* The steps of lightglue_batch, each as one of the above.                 *)
LEMMA PairSteps ==
    ASSUME BatchFields, Matching, batch.pc # "write", BatchNext
    PROVE  PStep
<1>0. batch.name = "lightglue" /\ batch.name \in Programs /\ batch.name # "none"
    BY DEF Programs, Matching, Running
<1>1. CASE Read
    <2>1. batch.pc = "read" /\ UNCHANGED <<dir, lines, cache, files, breaks>>  BY <1>1 DEF Read
    <2>2. Unmoved  BY <2>1, NothingNoted DEF Unmoved
    <2>3. ~Fetched(Index)  BY <1>1 DEF Read, Fetched, Got, Has, Cached
    <2>4. CASE Decodes(InHand)
        BY <1>1, <2>1, <2>2, <2>3, <2>4 DEF Read, Decoded, PDecoded, StillRuns, PStep
    <2>5. CASE React("decode")
        <3>1. batch' = NextNeeded(Lost) /\ status' = status  BY <1>0, <2>5, ReactMeans
        <3> QED BY <2>1, <2>2, <3>1 DEF PSkip, Within, StillRuns, PStep
    <2> QED BY <1>1, <2>4, <2>5 DEF Read
<1>2. CASE FitFrame
    <2>1. batch.pc = "fit" /\ UNCHANGED <<dir, lines, cache, files, breaks>>  BY <1>2 DEF FitFrame
    <2>2. Unmoved  BY <2>1, NothingNoted DEF Unmoved
    <2>3. CASE PlanNow.fits
        BY <1>2, <2>1, <2>2, <2>3 DEF FitFrame, Planned, PlanNow, StillRuns, PPlanned, PStep
    <2>4. CASE ~PlanNow.fits
        <3>1. React("small")  BY <1>2, <2>4 DEF FitFrame, PlanNow
        <3>2. \/ batch' = NextNeeded(Lost) /\ status' = status
              \/ Retried
            BY <1>0, <3>1, ReactMeans
        <3>3. Retried => PRetry
            BY <2>1, <2>2, <2>4 DEF FRetry, Unsuited, StillRuns, Retried, PRetry
        <3> QED BY <2>1, <2>2, <3>2, <3>3 DEF PSkip, Within, StillRuns, PStep
    <2> QED BY <2>3, <2>4
<1>3. CASE Reject
    <2>1. batch.pc = "submit" /\ UNCHANGED <<dir, lines, cache, files, breaks>>  BY <1>3 DEF Reject
    <2>2. Unmoved  BY <2>1, NothingNoted DEF Unmoved
    <2>3. Rejected /\ React("reject")  BY <1>3 DEF Reject
    <2>4. \/ batch' = NextNeeded(Lost) /\ status' = status
          \/ Retried
        BY <1>0, <2>3, ReactMeans
    <2>5. Retried => PRetry
        BY <2>1, <2>2, <2>3 DEF FRetry, Unsuited, StillRuns, Retried, PRetry
    <2> QED BY <2>1, <2>2, <2>4, <2>5 DEF PSkip, Within, StillRuns, PStep
<1>4. ASSUME NEW what \in {"upload", "alloc", "submit", "sync"}, Fails(what)
      PROVE  PStep
    <2>1. batch.pc = "submit" /\ UNCHANGED <<dir, lines, cache, files>>  BY <1>4 DEF Fails
    <2>2. Unmoved /\ what \in ToSet(breaks')
        BY <1>4, <2>1, BreakNoted, BreakMeans DEF Fails, Unmoved, BatchFields
    <2>3. React(what)  BY <1>4 DEF Fails
    <2>4. \/ batch' = NextNeeded(Lost) /\ status' = status
          \/ Retried /\ what \in {"upload", "alloc"}
        BY <1>0, <1>4, <2>3, ReactMeans
    <2>5. what \in {"upload", "alloc"} => ~NoneShort'
        BY <2>2 DEF NoneShort
    <2>6. Retried /\ what \in {"upload", "alloc"} => PRetry
        BY <1>0, <2>1, <2>2, <2>5 DEF FRetry, StillRuns, Retried, PRetry
    <2> QED BY <2>1, <2>2, <2>4, <2>6 DEF PSkip, Within, StillRuns, PStep
<1>5. CASE Extract
    <2>1. batch.pc = "submit" /\ ~Rejected /\ UNCHANGED <<dir, lines, files, status, breaks>>
        BY <1>5 DEF Extract
    <2>2. StillRuns  BY <2>1, NothingNoted DEF Unmoved, StillRuns
    <2>3. /\ cache' = Evicted(Append(cache, NewResult), AtHand)
          /\ batch' = NextNeeded(batch)
        BY <1>0, <1>5 DEF Extract, Hand, NewResult, AtHand, Running
    <2> QED BY <2>1, <2>2, <2>3 DEF PTaken, PStep
<1>6. CASE SkipDead
    <2>1. UNCHANGED <<dir, lines, cache, files, status, breaks>>  BY <1>6 DEF SkipDead
    <2>2. StillRuns  BY <2>1, NothingNoted DEF Unmoved, StillRuns
    <2> QED BY <1>6, <2>1, <2>2 DEF SkipDead, PPassed, Within, PStep
<1>7. CASE Recall
    <2>1. UNCHANGED <<dir, lines, files, status, breaks>>  BY <1>7 DEF Recall
    <2>2. StillRuns  BY <2>1, NothingNoted DEF Unmoved, StillRuns
    <2> QED BY <1>7, <2>1, <2>2 DEF Recall, PRecall, PStep
<1>8. CASE Match
    <2>1. batch.pc = "match" /\ UNCHANGED <<dir, lines, cache, status>>  BY <1>8 DEF Match
    <2>2. CASE ~BothCached
        <3>1. batch' = NextPair(batch) /\ UNCHANGED <<files, breaks>>
            BY <1>8, <2>2 DEF Match, BothCached, AtHand
        <3>2. Noted  BY <3>1, NothingNoted
        <3> QED BY <2>1, <2>2, <3>1, <3>2 DEF PLeft, Within, StillRuns, Unmoved, PStep
    <2>3. CASE BothCached
        <3>1. \/ /\ files' = [files EXCEPT !["lightglue"].records =
                    Append(@, [pair |-> <<AtHand[1], AtHand[2]>>,
                               of |-> <<ResultOf(AtHand[1]), ResultOf(AtHand[2])>>])]
                 /\ batch' = NextPair([batch EXCEPT !.done = @ + 1])
                 /\ UNCHANGED breaks
              \/ /\ Break("match")
                 /\ batch' = NextPair([batch EXCEPT !.failed = @ + 1])
                 /\ UNCHANGED files
              \/ /\ Break("write")
                 /\ batch' = [batch EXCEPT !.error = TRUE, !.pc = "finish"]
                 /\ UNCHANGED files
            BY <1>8, <2>3 DEF Match, BothCached, AtHand
        <3>2. CASE /\ files' = [files EXCEPT !["lightglue"].records =
                    Append(@, [pair |-> <<AtHand[1], AtHand[2]>>,
                               of |-> <<ResultOf(AtHand[1]), ResultOf(AtHand[2])>>])]
                   /\ batch' = NextPair([batch EXCEPT !.done = @ + 1])
                   /\ UNCHANGED breaks
            <4>1. Noted  BY <3>2, NothingNoted
            <4> QED BY <2>1, <2>3, <3>2, <4>1 DEF PMatched, StillRuns, Unmoved, PStep
        <3>3. CASE /\ Break("match")
                   /\ batch' = NextPair([batch EXCEPT !.failed = @ + 1])
                   /\ UNCHANGED files
            <4>1. Noted  BY <3>3, BreakNoted
            <4> QED BY <2>1, <2>3, <3>3, <4>1 DEF PFailed, Within, StillRuns, Unmoved, PStep
        <3>4. CASE /\ Break("write")
                   /\ batch' = [batch EXCEPT !.error = TRUE, !.pc = "finish"]
                   /\ UNCHANGED files
            <4>1. Noted  BY <3>4, BreakNoted
            <4> QED BY <2>1, <3>4, <4>1 DEF PBroken, Within, StillRuns, Unmoved, PStep
        <3> QED BY <3>1, <3>2, <3>3, <3>4
    <2> QED BY <2>2, <2>3
<1>9. CASE FinishMatches
    <2>1. batch.pc = "finish" /\ cache' = <<>> /\ UNCHANGED <<dir, lines>>
        BY <1>9 DEF FinishMatches
    <2>2. CASE /\ files' = [files EXCEPT !["lightglue"].n = Header]
               /\ End(Verdict)
               /\ UNCHANGED breaks
        BY <2>1, <2>2, NothingNoted DEF PFinish, Unmoved, End, Ended, PStep
    <2>3. CASE Break("finish") /\ End("failed") /\ UNCHANGED files
        BY <2>1, <2>3, BreakNoted DEF PNoHeader, Unmoved, End, Ended, PStep
    <2> QED BY <1>9, <2>2, <2>3 DEF FinishMatches
<1>10. CASE Crash
    <2>1. Break("crash") /\ End("killed") /\ cache' = <<>> /\ UNCHANGED <<dir, lines>>
        BY <1>10 DEF Crash
    <2>2. Ended("killed") /\ Unmoved  BY <2>1, BreakNoted DEF End, Ended, Unmoved
    <2>3. \E i \in 0 .. Len(Output.records) :
              files' = [files EXCEPT !["lightglue"].records = SubSeq(@, 1, i)]
        BY <1>10 DEF Crash, Output
    <2> QED BY <2>1, <2>2, <2>3 DEF PKilled, PStep
<1>11. ~(\E p \in Programs, e \in Extractors : StartOverFrames(p, e))
    BY <1>0 DEF StartOverFrames, Running
<1>12. ~(\E e \in Extractors, k \in Matchers : StartMatching(e, k))
    BY <1>0 DEF StartMatching, Running
<1>13. ~(Write \/ FinishFrames \/ FinishRows)
    BY <1>0 DEF Write, FinishFrames, FinishRows, Running
<1> QED BY <1>1, <1>2, <1>3, <1>4, <1>5, <1>6, <1>7, <1>8, <1>9, <1>10, <1>11, <1>12, <1>13
        DEF BatchNext, Work

------------------------------------------------------------------------------
(* The steps that start a program.                                         *)
Begins(p, e) ==
    /\ p # "lightglue" /\ Named # <<>>
    /\ batch' = [NewBatch(p, e) EXCEPT !.todo = Named]
    /\ status' = [status EXCEPT ![p] = "running"]
    /\ files' = files
BeginsPairs(e) ==
    /\ Parses(lines)
    /\ batch' = IF AllPairs = <<>>
                THEN [NewBatch("lightglue", e) EXCEPT !.todo = AllPairs, !.pairs = AllPairs,
                                                      !.pc = "finish"]
                ELSE [NewBatch("lightglue", e) EXCEPT !.todo = AllPairs, !.pairs = AllPairs,
                                                      !.need = AllPairs[1]]
    /\ status' = [status EXCEPT !["lightglue"] = "running"]
    /\ files' = [files EXCEPT !["lightglue"] = [n |-> 0, fp |-> e.fp, records |-> <<>>]]
Refuses(p) == batch' = batch /\ status' = [status EXCEPT ![p] = "failed"] /\ files' = files

SStep == \E p \in Programs :
    /\ status[p] = "none" /\ cache' = cache /\ Unmoved
    /\ \/ \E e \in Extractors : Begins(p, e)
       \/ p = "lightglue" /\ \E e \in Extractors : BeginsPairs(e)
       \/ Refuses(p)

(* With no program running the only steps start one.                       *)
LEMMA StartSteps ==
    ASSUME BatchFields, batch.name = "none", BatchNext
    PROVE  SStep
<1>0. batch.name \notin Programs /\ ~Matching  BY DEF Programs, Matching, Running
<1>1. ASSUME NEW p \in Programs, NEW e \in Extractors, StartOverFrames(p, e)
      PROVE  SStep
    <2>1. p # "lightglue" /\ UNCHANGED <<dir, lines, cache, files>>  BY <1>1 DEF StartOverFrames
    <2>2. status[p] = "none"
        BY <1>1 DEF StartOverFrames, Unstarted
    <2>3. CASE /\ Named # <<>>
               /\ batch' = [NewBatch(p, e) EXCEPT !.todo = Named]
               /\ status' = [status EXCEPT ![p] = "running"]
               /\ UNCHANGED breaks
        <3>1. Noted  BY <2>3, NothingNoted
        <3>2. Begins(p, e) /\ Unmoved  BY <2>1, <2>3, <3>1 DEF Begins, Unmoved
        <3> QED BY <2>1, <2>2, <3>2 DEF SStep
    <2>4. CASE /\ IF Named = <<>> THEN UNCHANGED breaks ELSE Break("start")
               /\ status' = [status EXCEPT ![p] = "failed"]
               /\ UNCHANGED batch
        <3>1. Noted  BY <2>4, NothingNoted, BreakNoted
        <3>2. Refuses(p) /\ Unmoved  BY <2>1, <2>4, <3>1 DEF Refuses, Unmoved
        <3> QED BY <2>1, <2>2, <3>2 DEF SStep
    <2> QED BY <1>1, <2>3, <2>4 DEF StartOverFrames, Named
<1>2. ASSUME NEW e \in Extractors, NEW k \in Matchers, StartMatching(e, k)
      PROVE  SStep
    <2>1. UNCHANGED <<dir, lines, cache>> /\ status["lightglue"] = "none"
          /\ "lightglue" \in Programs
        BY <1>2 DEF StartMatching, Unstarted, Programs
    <2> DEFINE b == [NewBatch("lightglue", e) EXCEPT !.todo = AllPairs, !.pairs = AllPairs]
               good == e.k = k /\ Parses(lines)
    <2>2. \/ /\ good
             /\ batch' = IF AllPairs = <<>> THEN [b EXCEPT !.pc = "finish"]
                         ELSE [b EXCEPT !.need = AllPairs[1]]
             /\ status' = [status EXCEPT !["lightglue"] = "running"]
             /\ files' = [files EXCEPT !["lightglue"] = [n |-> 0, fp |-> e.fp, records |-> <<>>]]
             /\ UNCHANGED breaks
          \/ /\ IF good THEN Break("start") ELSE UNCHANGED breaks
             /\ status' = [status EXCEPT !["lightglue"] = "failed"]
             /\ UNCHANGED <<batch, files>>
        BY <1>2, Zenon DEF StartMatching, AllPairs
    <2>3. CASE /\ good
               /\ batch' = IF AllPairs = <<>> THEN [b EXCEPT !.pc = "finish"]
                           ELSE [b EXCEPT !.need = AllPairs[1]]
               /\ status' = [status EXCEPT !["lightglue"] = "running"]
               /\ files' = [files EXCEPT !["lightglue"] = [n |-> 0, fp |-> e.fp, records |-> <<>>]]
               /\ UNCHANGED breaks
        <3>1. Noted  BY <2>3, NothingNoted
        <3>2. BeginsPairs(e)  BY <2>3, Zenon DEF BeginsPairs
        <3>3. Unmoved  BY <2>1, <3>1 DEF Unmoved
        <3> QED BY <2>1, <3>2, <3>3, Zenon DEF SStep
    <2>4. CASE /\ IF good THEN Break("start") ELSE UNCHANGED breaks
               /\ status' = [status EXCEPT !["lightglue"] = "failed"]
               /\ UNCHANGED <<batch, files>>
        <3>1. Noted  BY <2>4, NothingNoted, BreakNoted
        <3>2. Refuses("lightglue")  BY <2>4 DEF Refuses
        <3>3. Unmoved  BY <2>1, <3>1 DEF Unmoved
        <3> QED BY <2>1, <3>2, <3>3, Zenon DEF SStep
    <2> QED BY <2>2, <2>3, <2>4
<1>3. ~Work
    BY <1>0 DEF Work, SkipDead, Recall, Read, FitFrame, Reject, Extract, Write, Match,
                FinishFrames, FinishRows, FinishMatches, Fails, Running, Programs
<1>4. ~Crash  BY <1>0 DEF Crash
<1> QED BY <1>1, <1>2, <1>3, <1>4 DEF BatchNext

(* A program that starts holds what it needs.                              *)
LEMMA BegunHeld ==
    ASSUME dir \in Directories, NEW p \in Programs, NEW e \in Extractors, Begins(p, e)
    PROVE  /\ Held(batch') /\ batch'.name = p /\ batch'.engine = e /\ batch'.todo = Named
           /\ Long(Named, FrameCount) /\ FrameCount > 0
           /\ batch'.pc = "read" /\ batch'.attempt = 0 /\ batch'.done = 0 /\ batch'.rows = <<>>
<1>1. Long(Named, FrameCount)  BY FramesListed DEF Lists, FrameCount
<1>2. Named # <<>>  BY DEF Begins
<1>3. FrameCount # 0  BY <1>1, <1>2, EmptyMeans
<1>4. batch' = [NewBatch(p, e) EXCEPT !.todo = Named]  BY DEF Begins
<1>5. DOMAIN batch' = Slots  BY <1>4 DEF NewBatch, Slots
<1>6. /\ batch'.name = p /\ batch'.engine = e /\ batch'.todo = Named /\ batch'.pc = "read"
      /\ batch'.attempt = 0 /\ batch'.done = 0 /\ batch'.rows = <<>> /\ batch'.failed = 0
    BY <1>4 DEF NewBatch
<1>7. FrameCount \in Nat /\ Len(Named) = FrameCount  BY <1>1 DEF Long
<1> QED BY <1>1, <1>2, <1>3, <1>5, <1>6, <1>7 DEF Held

(* So does lightglue_batch, with all its pairs to do.                      *)
LEMMA PairsBegunHeld ==
    ASSUME lines \in PairLists, NEW e \in Extractors, BeginsPairs(e)
    PROVE  /\ Held(batch') /\ batch'.name = "lightglue" /\ batch'.engine = e
           /\ batch'.todo = AllPairs /\ batch'.pairs = AllPairs
           /\ Long(AllPairs, Len(AllPairs))
           /\ batch'.pc = IF AllPairs = <<>> THEN "finish" ELSE "read"
           /\ AllPairs # <<>> => batch'.need = AllPairs[1]
           /\ batch'.attempt = 0 /\ batch'.done = 0 /\ batch'.failed = 0
           /\ batch'.dead = {} /\ batch'.error = FALSE
<1>1. Parses(lines)  BY DEF BeginsPairs
<1>2. Long(AllPairs, Cardinality(PairsIn(lines)))  BY <1>1, PairsListed DEF Lists
<1>3. Long(AllPairs, Len(AllPairs))  BY <1>2 DEF Long
<1>4. CASE AllPairs = <<>>
    <2>1. batch' = [NewBatch("lightglue", e) EXCEPT !.todo = AllPairs, !.pairs = AllPairs,
                                                    !.pc = "finish"]
        BY <1>4 DEF BeginsPairs
    <2>2. DOMAIN batch' = Slots  BY <2>1 DEF NewBatch, Slots
    <2>3. /\ batch'.name = "lightglue" /\ batch'.engine = e /\ batch'.todo = AllPairs
          /\ batch'.pairs = AllPairs /\ batch'.pc = "finish" /\ batch'.attempt = 0
          /\ batch'.done = 0 /\ batch'.failed = 0 /\ batch'.dead = {} /\ batch'.error = FALSE
        BY <2>1 DEF NewBatch
    <2> QED BY <1>3, <1>4, <2>2, <2>3 DEF Held
<1>5. CASE AllPairs # <<>>
    <2>1. batch' = [NewBatch("lightglue", e) EXCEPT !.todo = AllPairs, !.pairs = AllPairs,
                                                    !.need = AllPairs[1]]
        BY <1>5 DEF BeginsPairs
    <2>2. DOMAIN batch' = Slots  BY <2>1 DEF NewBatch, Slots
    <2>3. /\ batch'.name = "lightglue" /\ batch'.engine = e /\ batch'.todo = AllPairs
          /\ batch'.pairs = AllPairs /\ batch'.pc = "read" /\ batch'.attempt = 0
          /\ batch'.need = AllPairs[1]
          /\ batch'.done = 0 /\ batch'.failed = 0 /\ batch'.dead = {} /\ batch'.error = FALSE
        BY <2>1 DEF NewBatch
    <2> QED BY <1>3, <1>5, <2>2, <2>3 DEF Held
<1> QED BY <1>4, <1>5

------------------------------------------------------------------------------
(* What the programs hold stays in order.                                  *)
LEMMA StartFields ==
    ASSUME BatchFields, batch.name = "none", SStep
    PROVE  BatchFields'
<1>1. PICK p \in Programs :
          /\ status[p] = "none" /\ cache' = cache /\ Unmoved
          /\ \/ \E e \in Extractors : Begins(p, e)
             \/ p = "lightglue" /\ \E e \in Extractors : BeginsPairs(e)
             \/ Refuses(p)
    BY DEF SStep
<1>2. /\ dir \in Directories /\ lines \in PairLists
      /\ DOMAIN status = Programs /\ DOMAIN files = Programs
      /\ \A q \in Programs : status[q] = "running" <=> batch.name = q
    BY DEF BatchFields
<1>3. dir' = dir /\ lines' = lines /\ Long(breaks', Len(breaks'))  BY <1>1 DEF Unmoved, Noted
<1>4. "none" \notin Programs  BY DEF Programs
<1>5. ASSUME NEW e \in Extractors, Begins(p, e) PROVE BatchFields'
    <2>1. Held(batch') /\ batch'.name = p  BY <1>2, <1>5, BegunHeld
    <2>2. status' = [status EXCEPT ![p] = "running"] /\ files' = files  BY <1>5 DEF Begins
    <2>3. \A q \in Programs : status'[q] = "running" <=> batch'.name = q
        BY <1>2, <1>4, <2>1, <2>2
    <2>4. DOMAIN status' = Programs  BY <1>2, <2>2
    <2> QED BY <1>2, <1>3, <2>1, <2>2, <2>3, <2>4 DEF BatchFields
<1>6. ASSUME p = "lightglue", NEW e \in Extractors, BeginsPairs(e) PROVE BatchFields'
    <2>1. Held(batch') /\ batch'.name = p  BY <1>2, <1>6, PairsBegunHeld
    <2>2. /\ status' = [status EXCEPT ![p] = "running"]
          /\ files' = [files EXCEPT !["lightglue"] = [n |-> 0, fp |-> e.fp, records |-> <<>>]]
        BY <1>6 DEF BeginsPairs
    <2>3. \A q \in Programs : status'[q] = "running" <=> batch'.name = q
        BY <1>2, <1>4, <2>1, <2>2
    <2>4. DOMAIN status' = Programs /\ DOMAIN files' = Programs  BY <1>2, <2>2
    <2> QED BY <1>2, <1>3, <2>1, <2>3, <2>4 DEF BatchFields
<1>7. CASE Refuses(p)
    <2>1. batch' = batch /\ status' = [status EXCEPT ![p] = "failed"] /\ files' = files
        BY <1>7 DEF Refuses
    <2>2. \A q \in Programs : status'[q] = "running" <=> batch'.name = q
        BY <1>2, <1>4, <2>1
    <2>3. DOMAIN status' = Programs  BY <1>2, <2>1
    <2> QED BY <1>2, <1>3, <1>4, <2>1, <2>2, <2>3 DEF BatchFields
<1> QED BY <1>1, <1>5, <1>6, <1>7

(* While it works on frames.                                               *)
LEMMA FrameFields ==
    ASSUME BatchFields, OverFrames, batch.pc = "finish" \/ batch.todo # <<>>, FStep
    PROVE  BatchFields'
<1>1. batch.name \in Programs /\ Held(batch)  BY DEF OverFrames, BatchFields
<1>2. DOMAIN batch = Slots  BY <1>1 DEF Held
<1>3. DOMAIN files = Programs  BY DEF BatchFields
<1>4. ASSUME NEW b, Held(b), b.name = batch.name, b.todo = batch.todo, batch.pc # "finish",
             batch' = NextFile(b), StillRuns, DOMAIN files' = Programs
      PROVE  BatchFields'
    <2>1. b.todo # <<>>  BY <1>4
    <2>2. WithTodo(NextFile(b), b)  BY <1>4, <2>1, NextFileMeans DEF Held
    <2>3. Held(batch') /\ batch'.name = batch.name  BY <1>4, <2>1, <2>2, FileHeld
    <2> QED BY <1>1, <1>4, <2>3, MovedFields DEF StillRuns, Unmoved, Noted
<1>5. ASSUME NEW how \in {"ok", "failed", "killed"}, Ended(how), Unmoved,
             DOMAIN files' = Programs
      PROVE  BatchFields'
    BY <1>1, <1>5, EndedFields DEF Unmoved, Noted
<1>6. ASSUME Held(batch'), batch'.name = batch.name, StillRuns, files' = files
      PROVE  BatchFields'
    BY <1>1, <1>3, <1>6, MovedFields DEF StillRuns, Unmoved, Noted
<1>7. CASE FSkip
    BY <1>1, <1>3, <1>4, <1>7 DEF FSkip
<1>8. CASE FRetry
    <2>1. batch' = [batch EXCEPT !.attempt = 1, !.pc = "fit"] /\ files' = files /\ StillRuns
          /\ batch.pc # "finish"
        BY <1>8 DEF FRetry, Retried
    <2>2. Held(batch') /\ batch'.name = batch.name
        BY <1>1, <2>1 DEF Held, Slots
    <2> QED BY <1>6, <2>1, <2>2
<1>9. CASE FAbort
    BY <1>3, <1>5, <1>9 DEF FAbort
<1>10. CASE Decoded
    <2>1. batch' = [batch EXCEPT !.pc = IF batch.name \in Fits THEN "fit" ELSE "submit"]
          /\ files' = files /\ StillRuns /\ batch.pc # "finish"
        BY <1>10 DEF Decoded
    <2>2. Held(batch') /\ batch'.name = batch.name
        BY <1>1, <2>1 DEF Held, Slots
    <2> QED BY <1>6, <2>1, <2>2
<1>11. CASE Planned
    <2>1. batch' = [batch EXCEPT !.plan = PlanNow, !.pc = "submit"]
          /\ files' = files /\ StillRuns /\ batch.pc # "finish"
        BY <1>11 DEF Planned
    <2>2. Held(batch') /\ batch'.name = batch.name
        BY <1>1, <2>1 DEF Held, Slots
    <2> QED BY <1>6, <2>1, <2>2
<1>12. CASE FRow
    <2> DEFINE row == [stem |-> InHand.stem, of |-> Hand]
               b == [batch EXCEPT !.rows = Append(@, row)]
    <2>1. batch' = NextFile(b) /\ files' = files /\ StillRuns /\ batch.pc # "finish"
        BY <1>12 DEF FRow
    <2>2. Held(b) /\ b.name = batch.name /\ b.todo = batch.todo
        BY <1>1 DEF Held, Slots
    <2> HIDE DEF b
    <2> QED BY <1>3, <1>4, <2>1, <2>2
<1>13. CASE FHand
    <2>1. batch' = [batch EXCEPT !.hand = Hand, !.pc = "write"]
          /\ files' = files /\ StillRuns /\ batch.pc # "finish"
        BY <1>13 DEF FHand
    <2>2. Held(batch') /\ batch'.name = batch.name
        BY <1>1, <2>1 DEF Held, Slots
    <2> QED BY <1>6, <2>1, <2>2
<1>14. \A stem, what : PutFile(batch.name, stem, what) => DOMAIN files' = Programs
    BY <1>3 DEF PutFile
<1>15. CASE FWrite
    <2> DEFINE b == [batch EXCEPT !.done = @ + 1]
    <2>1. batch' = NextFile(b) /\ StillRuns /\ batch.pc # "finish"
        BY <1>15 DEF FWrite
    <2>2. Held(b) /\ b.name = batch.name /\ b.todo = batch.todo
        BY <1>1 DEF Held, Slots
    <2>3. DOMAIN files' = Programs  BY <1>14, <1>15 DEF FWrite
    <2> HIDE DEF b
    <2> QED BY <1>4, <2>1, <2>2, <2>3
<1>16. CASE FTorn("failed") \/ FTorn("killed")
    BY <1>5, <1>14, <1>16 DEF FTorn
<1>17. CASE FFinish
    BY <1>3, <1>5, <1>17 DEF FFinish
<1>18. CASE FRows \/ FNoRows
    <2>1. DOMAIN files' = Programs  BY <1>3, <1>18 DEF FRows, FNoRows
    <2> QED BY <1>5, <1>18, <2>1 DEF FRows, FNoRows
<1>19. CASE FKilled
    BY <1>3, <1>5, <1>19 DEF FKilled
<1> QED BY <1>7, <1>8, <1>9, <1>10, <1>11, <1>12, <1>13, <1>15, <1>16, <1>17, <1>18, <1>19 DEF FStep

(* While it works on pairs.                                                *)
LEMMA PairFields ==
    ASSUME BatchFields, Matching, PStep
    PROVE  BatchFields'
<1>1. batch.name \in Programs /\ Held(batch)
    BY DEF Matching, Running, BatchFields, Programs
<1>2. DOMAIN batch = Slots /\ (batch.pc # "finish" => batch.todo # <<>>)  BY <1>1 DEF Held
<1>3. DOMAIN files = Programs  BY DEF BatchFields
<1>4. ASSUME NEW b, Held(b), b.name = batch.name, b.todo = batch.todo, batch.pc # "finish",
             \/ batch' = NextNeeded(b) 
             \/ batch' = NextPair(b), 
             StillRuns, DOMAIN files' = Programs
      PROVE  BatchFields'
    <2>1. b.todo # <<>>  BY <1>2, <1>4
    <2>2. batch' = NextNeeded(b) => Held(batch') /\ batch'.name = batch.name
        <3>1. WithNeed(NextNeeded(b), b)  BY <1>4, NextNeededMeans DEF Held
        <3> QED BY <1>4, <2>1, <3>1, NeededHeld
    <2>3. batch' = NextPair(b) => Held(batch') /\ batch'.name = batch.name
        <3>1. WithPair(NextPair(b), b)  BY <1>4, <2>1, NextPairMeans DEF Held
        <3> QED BY <1>4, <2>1, <3>1, PairHeld
    <2> QED BY <1>1, <1>4, <2>2, <2>3, MovedFields DEF StillRuns, Unmoved, Noted
<1>5. ASSUME NEW how \in {"ok", "failed", "killed"}, Ended(how), Unmoved,
             DOMAIN files' = Programs
      PROVE  BatchFields'
    BY <1>1, <1>5, EndedFields DEF Unmoved, Noted
<1>6. ASSUME Held(batch'), batch'.name = batch.name, StillRuns, files' = files
      PROVE  BatchFields'
    BY <1>1, <1>3, <1>6, MovedFields DEF StillRuns, Unmoved, Noted
<1>7. CASE PSkip
    <2>1. Held(Lost) /\ Lost.name = batch.name /\ Lost.todo = batch.todo
        BY <1>1 DEF Held, Slots, Lost
    <2>2. batch' = NextNeeded(Lost) /\ files' = files /\ StillRuns /\ batch.pc # "finish"
        BY <1>7 DEF PSkip, Within
    <2> QED BY <1>3, <1>4, <2>1, <2>2
<1>8. CASE PRetry
    <2>1. batch' = [batch EXCEPT !.attempt = 1, !.pc = "fit"] /\ files' = files /\ StillRuns
          /\ batch.pc # "finish"
        BY <1>8 DEF PRetry, FRetry, Retried
    <2>2. Held(batch') /\ batch'.name = batch.name
        BY <1>1, <2>1 DEF Held, Slots
    <2> QED BY <1>6, <2>1, <2>2
<1>10. CASE PDecoded
    <2>1. batch' = [batch EXCEPT !.pc = IF batch.name \in Fits THEN "fit" ELSE "submit"]
          /\ files' = files /\ StillRuns /\ batch.pc # "finish"
        BY <1>10 DEF PDecoded, Decoded
    <2>2. Held(batch') /\ batch'.name = batch.name
        BY <1>1, <2>1 DEF Held, Slots
    <2> QED BY <1>6, <2>1, <2>2
<1>11. CASE PPlanned
    <2>1. batch' = [batch EXCEPT !.plan = PlanNow, !.pc = "submit"]
          /\ files' = files /\ StillRuns /\ batch.pc # "finish"
        BY <1>11 DEF PPlanned, Planned
    <2>2. Held(batch') /\ batch'.name = batch.name
        BY <1>1, <2>1 DEF Held, Slots
    <2> QED BY <1>6, <2>1, <2>2
<1>12. CASE PTaken \/ PPassed \/ PRecall
    <2>1. batch' = NextNeeded(batch) /\ files' = files /\ StillRuns /\ batch.pc # "finish"
        BY <1>12 DEF PTaken, PPassed, PRecall, Within
    <2> QED BY <1>1, <1>3, <1>4, <2>1
<1>13. CASE PLeft
    <2>1. batch' = NextPair(batch) /\ files' = files /\ StillRuns /\ batch.pc # "finish"
        BY <1>13 DEF PLeft, Within
    <2> QED BY <1>1, <1>3, <1>4, <2>1
<1>14. CASE PMatched
    <2> DEFINE b == [batch EXCEPT !.done = @ + 1]
    <2>1. batch' = NextPair(b) /\ StillRuns /\ batch.pc # "finish"
        BY <1>14 DEF PMatched
    <2>2. Held(b) /\ b.name = batch.name /\ b.todo = batch.todo
        BY <1>1 DEF Held, Slots
    <2>3. DOMAIN files' = Programs  BY <1>3, <1>14 DEF PMatched
    <2> HIDE DEF b
    <2> QED BY <1>4, <2>1, <2>2, <2>3
<1>15. CASE PFailed
    <2> DEFINE b == [batch EXCEPT !.failed = @ + 1]
    <2>1. batch' = NextPair(b) /\ StillRuns /\ batch.pc # "finish" /\ files' = files
        BY <1>15 DEF PFailed, Within
    <2>2. Held(b) /\ b.name = batch.name /\ b.todo = batch.todo
        BY <1>1 DEF Held, Slots
    <2> HIDE DEF b
    <2> QED BY <1>3, <1>4, <2>1, <2>2
<1>16. CASE PBroken
    <2>1. batch' = [batch EXCEPT !.error = TRUE, !.pc = "finish"]
          /\ files' = files /\ StillRuns
        BY <1>16 DEF PBroken, Within
    <2>2. Held(batch') /\ batch'.name = batch.name
        BY <1>1, <2>1 DEF Held, Slots
    <2> QED BY <1>6, <2>1, <2>2
<1>17. CASE PFinish
    <2>1. DOMAIN files' = Programs  BY <1>3, <1>17 DEF PFinish
    <2> QED BY <1>5, <1>17, <2>1 DEF PFinish, Verdict
<1>18. CASE PNoHeader
    BY <1>3, <1>5, <1>18 DEF PNoHeader
<1>19. CASE PKilled
    <2>1. DOMAIN files' = Programs  BY <1>3, <1>19 DEF PKilled
    <2> QED BY <1>5, <1>19, <2>1 DEF PKilled
<1> QED BY <1>7, <1>8, <1>10, <1>11, <1>12, <1>13, <1>14, <1>15, <1>16, <1>17, <1>18, <1>19 DEF PStep

------------------------------------------------------------------------------
(* The files of a program over frames. What is in hand is the next frame   *)
(* of the directory.                                                       *)
LEMMA NextNamed ==
    ASSUME BatchFields, FilesSoFar, OverFrames, batch.pc # "finish"
    PROVE  /\ Handled \in Nat /\ FrameCount \in Nat /\ Len(batch.todo) \in Nat
           /\ Len(batch.todo) > 0 /\ Handled + 1 \in 1 .. FrameCount
           /\ batch.todo # <<>> /\ InHand = Named[Handled + 1] /\ InHand = batch.todo[1]
           /\ Named[Handled + 1] \in Frames
<1>1. Held(batch) /\ dir \in Directories  BY DEF BatchFields, OverFrames
<1>2. Lists(Named, Frames)  BY <1>1, FramesListed
<1>3. FrameCount \in Nat  BY <1>2 DEF Lists, Long, FrameCount
<1>4. Long(batch.todo, Len(batch.todo)) /\ batch.todo # <<>>  BY <1>1 DEF Held
<1>5. Len(batch.todo) \in Nat /\ Len(batch.todo) > 0  BY <1>4, EmptyMeans DEF Long
<1>6. Handled = FrameCount - Len(batch.todo) /\ Handled >= 0  BY DEF Handled, FilesSoFar, Follows
<1>7. Handled \in Nat /\ Handled + 1 \in 1 .. FrameCount  BY <1>3, <1>5, <1>6
<1>8. 1 \in 1 .. Len(batch.todo)  BY <1>5
<1>9. batch.todo[1] = Named[Handled + 1]  BY <1>8 DEF FilesSoFar, Follows
<1>10. ~Matching  BY DEF OverFrames, Matching, Running
<1>11. InHand = Head(batch.todo)  BY <1>10 DEF InHand
<1>12. Rest(Tail(batch.todo), batch.todo, Len(batch.todo))  BY <1>4, <1>5, TailMeans
<1>13. Head(batch.todo) = batch.todo[1]  BY <1>12 DEF Rest
<1>14. Named[Handled + 1] \in Frames  BY <1>2, <1>7 DEF Lists, FrameCount
<1> QED BY <1>3, <1>4, <1>5, <1>7, <1>9, <1>11, <1>13, <1>14

SameDirectory == Named' = Named /\ FrameCount' = FrameCount /\ Frames' = Frames

(* The frames are the same as long as the directory is.                    *)
LEMMA DirectoryStays ==
    ASSUME dir' = dir PROVE SameDirectory
BY DEF SameDirectory, Named, FrameCount, Sorted, Frames, Ascending

(* What is said of the files is carried from state to state by its parts.  *)
LEMMA FilesNow ==
    ASSUME OverFrames', FrameCount' > 0, Follows(batch'.todo, Named', Handled'),
           batch'.pc # "match", batch'.pc = "finish" => batch'.todo = <<>>,
           batch'.pc = "write" =>
               batch'.name # "dino" /\ batch'.hand # Torn /\ batch'.hand.file = InHand',
           batch'.done <= Handled',
           batch'.done = Handled' /\ batch'.name # "dino" =>
               AllWhole(files'[batch'.name], Named', Handled'),
           batch'.name = "dino" => RowsOf(batch'.rows, Named', Handled')
    PROVE  FilesSoFar'
BY DEF FilesSoFar

(* The step from a frame to the next.                                      *)
LEMMA FileAfterFile ==
    ASSUME BatchFields, FilesSoFar, OverFrames, batch.pc # "finish", dir' = dir,
           NEW b, Keeps(b, batch, {"done", "rows"}), b.done \in Nat, batch' = NextFile(b),
           b.done <= Handled + 1,
           b.done = Handled + 1 /\ batch.name # "dino" =>
               AllWhole(files'[batch.name], Named, Handled + 1),
           batch.name = "dino" => RowsOf(b.rows, Named, Handled + 1)
    PROVE  FilesSoFar'
<1>1. /\ Handled \in Nat /\ FrameCount \in Nat /\ Len(batch.todo) \in Nat
      /\ Len(batch.todo) > 0 /\ Handled + 1 \in 1 .. FrameCount
      /\ batch.todo # <<>> /\ InHand = Named[Handled + 1]
    BY NextNamed
<1>2. SameDirectory  BY DirectoryStays
<1>3. b.todo = batch.todo /\ b.name = batch.name /\ DOMAIN b = Slots  BY DEF Keeps, Slots
<1>4. Long(batch.todo, Len(batch.todo))  BY DEF Held, BatchFields, OverFrames
<1>5. WithTodo(batch', b)  BY <1>1, <1>3, <1>4, NextFileMeans
<1>6. /\ batch'.name = batch.name /\ batch'.done = b.done /\ batch'.rows = b.rows
      /\ batch'.pc = IF Len(batch.todo) = 1 THEN "finish" ELSE "read"
    BY <1>3, <1>5 DEF WithTodo, Keeps, Slots
<1>7. Rest(batch'.todo, batch.todo, Len(batch.todo))  BY <1>3, <1>5 DEF WithTodo
<1>8. Long(batch'.todo, Len(batch.todo) - 1)  BY <1>7 DEF Rest
<1>9. Len(batch'.todo) = Len(batch.todo) - 1  BY <1>8 DEF Long
<1>10. Handled' = Handled + 1
    <2>1. Handled = FrameCount - Len(batch.todo)  BY DEF Handled
    <2>2. Handled' = FrameCount' - Len(batch'.todo)  BY DEF Handled
    <2> QED BY <1>1, <1>2, <1>9, <2>1, <2>2 DEF SameDirectory
<1>11. FrameCount' > 0 /\ Handled' >= 0 /\ OverFrames'
    BY <1>1, <1>2, <1>6, <1>10 DEF SameDirectory, OverFrames
<1>12. ASSUME NEW j \in 1 .. Len(batch'.todo) PROVE batch'.todo[j] = Named'[Handled' + j]
    <2>1. j \in 1 .. Len(batch.todo) - 1 /\ j + 1 \in 1 .. Len(batch.todo)  BY <1>1, <1>9
    <2>2. batch'.todo[j] = batch.todo[j + 1]  BY <1>7, <2>1 DEF Rest
    <2>3. batch.todo[j + 1] = Named[Handled + (j + 1)]  BY <2>1 DEF FilesSoFar, Follows
    <2>4. Handled' + j = Handled + (j + 1)  BY <1>1, <1>10, <2>1
    <2> QED BY <1>2, <2>2, <2>3, <2>4 DEF SameDirectory
<1>13. batch'.pc = "finish" => batch'.todo = <<>>
    <2> SUFFICES ASSUME batch'.pc = "finish" PROVE batch'.todo = <<>>
        OBVIOUS
    <2>1. Len(batch.todo) - 1 = 0  BY <1>1, <1>6
    <2>2. Long(batch'.todo, 0)  BY <1>8, <2>1
    <2> QED BY <2>2, EmptyMeans
<1>14. batch'.pc # "match" /\ batch'.pc # "write"  BY <1>6
<1>15. batch'.done <= Handled'  BY <1>6, <1>10
<1>16. batch'.done = Handled' /\ batch'.name # "dino" =>
           AllWhole(files'[batch'.name], Named', Handled')
    BY <1>2, <1>6, <1>10 DEF SameDirectory
<1>17. batch'.name = "dino" => RowsOf(batch'.rows, Named', Handled')
    BY <1>2, <1>6, <1>10 DEF SameDirectory
<1>18. Follows(batch'.todo, Named', Handled')  BY <1>11, <1>12 DEF Follows
<1> QED BY <1>11, <1>13, <1>14, <1>15, <1>16, <1>17, <1>18, FilesNow

(* A step that leaves the frames to do as they are.                        *)
LEMMA SameFile ==
    ASSUME FilesSoFar, OverFrames, batch.pc # "finish", dir' = dir, files' = files,
           NEW S \in SUBSET {"pc", "attempt", "plan", "hand"}, Keeps(batch', batch, S),
           batch'.pc \in {"read", "fit", "submit", "write"},
           batch'.pc = "write" =>
               batch'.name # "dino" /\ batch'.hand # Torn /\ batch'.hand.file = InHand
    PROVE  FilesSoFar'
<1>1. /\ batch'.todo = batch.todo /\ batch'.name = batch.name /\ batch'.done = batch.done
      /\ batch'.rows = batch.rows
    BY DEF Keeps, Slots
<1>2. SameDirectory  BY DirectoryStays
<1>3. Handled' = Handled  BY <1>1, <1>2 DEF Handled, SameDirectory
<1>4. ~Matching /\ ~Matching' /\ OverFrames'  BY <1>1 DEF OverFrames, Matching, Running
<1>5. InHand' = InHand  BY <1>1, <1>4 DEF InHand
<1>6. batch'.done <= Handled' /\ FrameCount' > 0
    BY <1>1, <1>2, <1>3 DEF FilesSoFar, SameDirectory
<1>7. Follows(batch'.todo, Named', Handled')
    BY <1>1, <1>2, <1>3 DEF FilesSoFar, SameDirectory
<1>8. batch'.done = Handled' /\ batch'.name # "dino" =>
           AllWhole(files'[batch'.name], Named', Handled')
    BY <1>1, <1>2, <1>3 DEF FilesSoFar, SameDirectory
<1>9. batch'.name = "dino" => RowsOf(batch'.rows, Named', Handled')
    BY <1>1, <1>2, <1>3 DEF FilesSoFar, SameDirectory
<1>10. batch'.pc = "write" =>
           batch'.name # "dino" /\ batch'.hand # Torn /\ batch'.hand.file = InHand'
    BY <1>5
<1> QED BY <1>4, <1>6, <1>7, <1>8, <1>9, <1>10, FilesNow

(* A result is no torn file.                                               *)
LEMMA HandIsWhole == Hand # Torn /\ Hand.file = InHand
<1>1. Hand = [file |-> InHand, plan |-> batch.plan, fp |-> batch.engine.fp]
    BY DEF Hand, Extraction
<1>2. "plan" \in DOMAIN Hand /\ Hand.file = InHand  BY <1>1
<1>3. "plan" \notin DOMAIN Torn  BY DEF Torn
<1> QED BY <1>2, <1>3

(* A file more is written, and the others stay as long as no other frame   *)
(* has its stem.                                                           *)
LEMMA PutFileMeans ==
    ASSUME NEW p \in DOMAIN files, NEW stem, NEW what, PutFile(p, stem, what)
    PROVE  /\ DOMAIN files' = DOMAIN files
           /\ DOMAIN files'[p] = DOMAIN files[p] \cup {stem}
           /\ files'[p][stem] = what
           /\ \A s \in DOMAIN files[p] \ {stem} : files'[p][s] = files[p][s]
           /\ \A q \in DOMAIN files \ {p} : files'[q] = files[q]
<1> DEFINE D == DOMAIN files[p] \cup {stem}
           F == [s \in D |-> IF s = stem THEN what ELSE files[p][s]]
<1>1. files' = [files EXCEPT ![p] = F]  BY DEF PutFile
<1>2. files'[p] = F /\ DOMAIN files' = DOMAIN files  BY <1>1
<1>3. \A q \in DOMAIN files \ {p} : files'[q] = files[q]  BY <1>1
<1>4. DOMAIN F = D /\ F[stem] = what /\ \A s \in D \ {stem} : F[s] = files[p][s]
    OBVIOUS
<1> HIDE DEF F
<1> QED BY <1>2, <1>3, <1>4

(* The file of the next frame joins those of the frames before.            *)
LEMMA OneFileMore ==
    ASSUME OneFrameAStem, BatchFields, FilesSoFar, OverFrames, batch.pc = "write",
           PutFile(batch.name, InHand.stem, batch.hand),
           AllWhole(files[batch.name], Named, Handled)
    PROVE  AllWhole(files'[batch.name], Named, Handled + 1)
<1>1. /\ Handled \in Nat /\ FrameCount \in Nat /\ Handled + 1 \in 1 .. FrameCount
      /\ InHand = Named[Handled + 1] /\ Named[Handled + 1] \in Frames
    BY NextNamed
<1>2. Lists(Named, Frames)  BY FramesListed DEF BatchFields
<1>3. batch.name \in DOMAIN files /\ dir \in Directories  BY DEF OverFrames, BatchFields
<1>4. /\ DOMAIN files'[batch.name] = DOMAIN files[batch.name] \cup {InHand.stem}
      /\ files'[batch.name][InHand.stem] = batch.hand
      /\ \A s \in DOMAIN files[batch.name] \ {InHand.stem} :
            files'[batch.name][s] = files[batch.name][s]
    BY <1>3, PutFileMeans
<1>5. batch.hand # Torn /\ batch.hand.file = InHand  BY DEF FilesSoFar
<1>6. ASSUME NEW j \in 1 .. Handled + 1 PROVE WholeIn(files'[batch.name], Named[j])
    <2>1. CASE j = Handled + 1
        BY <1>1, <1>4, <1>5, <2>1 DEF WholeIn
    <2>2. CASE j # Handled + 1
        <3>1. j \in 1 .. Handled /\ j \in 1 .. FrameCount  BY <1>1, <2>2
        <3>2. Named[j] \in Frames /\ Named[j] # Named[Handled + 1]
            BY <1>1, <1>2, <2>2, <3>1 DEF Lists, FrameCount
        <3>3. WholeIn(files[batch.name], Named[j])  BY <3>1 DEF AllWhole
        <3>4. Named[j].stem # InHand.stem
            <4>1. \A f \in Frames : f \in dir /\ Lower(f.ext) \in ToSet(FrameExts)  BY DEF Frames
            <4>2. \A f, g \in dir :
                    {Lower(f.ext), Lower(g.ext)} \subseteq ToSet(FrameExts) /\ f.stem = g.stem
                        => f = g
                BY <1>3 DEF OneFrameAStem
            <4>3. \A f, g \in Frames : f.stem = g.stem => f = g  BY <4>1, <4>2
            <4> QED BY <1>1, <3>2, <4>3
        <3> QED BY <1>4, <3>3, <3>4 DEF WholeIn
    <2> QED BY <2>1, <2>2
<1> QED BY <1>6 DEF AllWhole

(* A row more.                                                             *)
LEMMA OneRowMore ==
    ASSUME BatchFields, FilesSoFar, batch.name = "dino", batch.pc # "finish",
           NEW row, row.of.file = InHand
    PROVE  RowsOf(Append(batch.rows, row), Named, Handled + 1)
<1>1. OverFrames  BY DEF OverFrames, Programs
<1>2. Handled \in Nat /\ InHand = Named[Handled + 1]  BY <1>1, NextNamed
<1>3. RowsOf(batch.rows, Named, Handled)  BY <1>1 DEF FilesSoFar
<1> DEFINE w == Handled
<1>4. Long(batch.rows, w) /\ \A j \in 1 .. w : batch.rows[j].of.file = Named[j]
    BY <1>3 DEF RowsOf
<1>5. Pushed(Append(batch.rows, row), batch.rows, w, row)  BY <1>4, PushMeans, Zenon
<1>6. w \in Nat /\ InHand = Named[w + 1]  BY <1>2
<1> HIDE DEF w
<1> DEFINE r == Append(batch.rows, row)
<1> HIDE DEF r
<1>7. Pushed(r, batch.rows, w, row)  BY <1>5 DEF r
<1>8. Long(r, w + 1) /\ r[w + 1] = row /\ \A i \in 1 .. w : r[i] = batch.rows[i]
    BY <1>7 DEF Pushed
<1>9. \A j \in 1 .. w + 1 : r[j].of.file = Named[j]  BY <1>4, <1>6, <1>8
<1>10. RowsOf(r, Named, w + 1)  BY <1>8, <1>9 DEF RowsOf
<1> QED BY <1>10 DEF r, w

(* Nothing is said of the files of a program that ended.                   *)
LEMMA EndedFiles ==
    ASSUME NEW how, Ended(how) PROVE FilesSoFar' /\ ~Matching' /\ ~OverFrames'
<1>1. batch'.name = "none"  BY DEF Ended, Off
<1>2. ~OverFrames' /\ ~Matching'  BY <1>1 DEF OverFrames, Programs, Matching, Running
<1> QED BY <1>2 DEF FilesSoFar

(* What is written of the frames so far stays true while they are worked   *)
(* on.                                                                     *)
LEMMA FilesStay ==
    ASSUME OneFrameAStem, BatchFields, FilesSoFar, OverFrames, FStep
    PROVE  FilesSoFar'
<1>1. /\ DOMAIN batch = Slots /\ batch.done \in Nat /\ batch.name # "lightglue"
      /\ batch.name \in DOMAIN files
    BY DEF BatchFields, OverFrames, Held
<1>2. batch.pc # "finish" => Handled \in Nat  BY NextNamed
<1>3. batch.done <= Handled  BY DEF FilesSoFar
<1>4. Keeps(batch, batch, {"done", "rows"})  BY <1>1 DEF Keeps
<1>5. CASE FSkip
    <2>1. /\ batch.name # "dino" /\ batch.pc \in {"read", "fit", "submit"} /\ batch' = NextFile(batch)
          /\ dir' = dir
        BY <1>5 DEF FSkip, StillRuns, Unmoved
    <2>2. batch.done <= Handled + 1 /\ batch.done # Handled + 1  BY <1>1, <1>2, <1>3, <2>1
    <2> QED BY <1>1, <1>4, <2>1, <2>2, FileAfterFile
<1>6. CASE FRow
    <2> DEFINE row == [stem |-> InHand.stem, of |-> Hand]
               b == [batch EXCEPT !.rows = Append(@, row)]
    <2>1. /\ batch' = NextFile(b) /\ dir' = dir /\ batch.pc # "finish" /\ batch.name = "dino"
        BY <1>6 DEF FRow, StillRuns, Unmoved
    <2>2. b.rows = Append(batch.rows, row) /\ Keeps(b, batch, {"done", "rows"}) /\ b.done = batch.done
        BY <1>1 DEF Keeps, Slots
    <2>3. row.of.file = InHand
        <3>1. row.of = Hand  OBVIOUS
        <3> QED BY <3>1, HandIsWhole
    <2>4. b.done <= Handled + 1  BY <1>1, <1>2, <1>3, <2>1, <2>2
    <2> HIDE DEF b, row
    <2>5. RowsOf(b.rows, Named, Handled + 1)  BY <2>1, <2>2, <2>3, OneRowMore
    <2> QED BY <1>1, <2>1, <2>2, <2>4, <2>5, FileAfterFile
<1>7. CASE FWrite
    <2> DEFINE b == [batch EXCEPT !.done = @ + 1]
    <2>1. /\ batch' = NextFile(b) /\ dir' = dir /\ batch.pc = "write" 
          /\ PutFile(batch.name, InHand.stem, batch.hand)
        BY <1>7 DEF FWrite, StillRuns, Unmoved
    <2>2. b.done = batch.done + 1 /\ Keeps(b, batch, {"done", "rows"})
        BY <1>1 DEF Keeps, Slots
    <2>3. batch.name # "dino"  BY <2>1 DEF FilesSoFar
    <2>4. b.done \in Nat /\ b.done <= Handled + 1 /\ (b.done = Handled + 1 => batch.done = Handled)
        BY <1>1, <1>2, <1>3, <2>1, <2>2
    <2>5. b.done = Handled + 1 => AllWhole(files'[batch.name], Named, Handled + 1)
        <3>1. batch.done = Handled => AllWhole(files[batch.name], Named, Handled)
            BY <2>3 DEF FilesSoFar
        <3> QED BY <2>1, <2>4, <3>1, OneFileMore
    <2> HIDE DEF b
    <2> QED BY <2>1, <2>2, <2>3, <2>4, <2>5, FileAfterFile
<1>8. CASE FRetry \/ Decoded \/ Planned \/ FHand
    <2> DEFINE S == {"pc", "attempt", "plan", "hand"}
    <2>1. dir' = dir /\ files' = files /\ batch.pc # "finish"
        BY <1>8 DEF FRetry, Decoded, Planned, FHand, StillRuns, Unmoved
    <2>2. CASE FRetry
        <3>1. batch' = [batch EXCEPT !.attempt = 1, !.pc = "fit"]  BY <2>2 DEF FRetry, Retried
        <3>2. Keeps(batch', batch, S) /\ batch'.pc = "fit"  BY <1>1, <3>1 DEF Keeps, Slots
        <3> QED BY <2>1, <3>2, SameFile
    <2>3. CASE Decoded
        <3>1. batch' = [batch EXCEPT !.pc = IF batch.name \in Fits THEN "fit" ELSE "submit"]
            BY <2>3 DEF Decoded
        <3>2. Keeps(batch', batch, S) /\ batch'.pc \in {"fit", "submit"}
            BY <1>1, <3>1 DEF Keeps, Slots
        <3> QED BY <2>1, <3>2, SameFile
    <2>4. CASE Planned
        <3>1. batch' = [batch EXCEPT !.plan = PlanNow, !.pc = "submit"]  BY <2>4 DEF Planned
        <3>2. Keeps(batch', batch, S) /\ batch'.pc = "submit"  BY <1>1, <3>1 DEF Keeps, Slots
        <3> QED BY <2>1, <3>2, SameFile
    <2>5. CASE FHand
        <3>1. batch' = [batch EXCEPT !.hand = Hand, !.pc = "write"] /\ batch.name # "dino"
            BY <2>5 DEF FHand
        <3>2. Keeps(batch', batch, S) /\ batch'.pc = "write" /\ batch'.hand = Hand
              /\ batch'.name = batch.name
            BY <1>1, <3>1 DEF Keeps, Slots
        <3>3. batch'.name # "dino" /\ batch'.hand # Torn /\ batch'.hand.file = InHand
            BY <3>1, <3>2, HandIsWhole
        <3> QED BY <2>1, <3>2, <3>3, SameFile
    <2> QED BY <1>8, <2>2, <2>3, <2>4, <2>5
<1>9. CASE FAbort \/ FTorn("failed") \/ FTorn("killed") \/ FFinish \/ FRows \/ FNoRows \/ FKilled
    BY <1>9, EndedFiles DEF FAbort, FTorn, FFinish, FRows, FNoRows, FKilled
<1> QED BY <1>5, <1>6, <1>7, <1>8, <1>9 DEF FStep

(* Nor of those of lightglue_batch.                                        *)
LEMMA PairsKeepFiles ==
    ASSUME BatchFields, Matching, BatchFields', batch'.name \in {"lightglue", "none"}
    PROVE  FilesSoFar'
<1>1. ~OverFrames'  BY DEF OverFrames, Programs
<1> QED BY <1>1 DEF FilesSoFar

(* A program starts with none of its frames done.                          *)
LEMMA StartFiles ==
    ASSUME BatchFields, FilesSoFar, batch.name = "none", SStep
    PROVE  FilesSoFar'
<1>1. PICK p \in Programs :
          /\ status[p] = "none" /\ cache' = cache /\ Unmoved
          /\ \/ \E e \in Extractors : Begins(p, e)
             \/ p = "lightglue" /\ \E e \in Extractors : BeginsPairs(e)
             \/ Refuses(p)
    BY DEF SStep
<1>2. dir \in Directories /\ lines \in PairLists /\ dir' = dir  BY <1>1 DEF BatchFields, Unmoved
<1>3. ASSUME NEW e \in Extractors, Begins(p, e) PROVE FilesSoFar'
    <2>1. /\ batch'.name = p /\ batch'.todo = Named
          /\ Long(Named, FrameCount) /\ FrameCount > 0
          /\ batch'.pc = "read" /\ batch'.done = 0 /\ batch'.rows = <<>>
        BY <1>2, <1>3, BegunHeld
    <2>2. SameDirectory  BY <1>2, DirectoryStays
    <2>3. FrameCount \in Nat /\ Len(Named) = FrameCount  BY <2>1 DEF Long
    <2>4. Handled' = 0
        <3>1. Handled' = FrameCount' - Len(batch'.todo)  BY DEF Handled
        <3> QED BY <2>1, <2>2, <2>3, <3>1 DEF SameDirectory
    <2>5. OverFrames'  BY <1>3, <2>1 DEF OverFrames, Begins
    <2>6. Follows(batch'.todo, Named', Handled')
        <3>1. \A j \in 1 .. Len(Named) : Named[j] = Named[0 + j]  BY <2>3
        <3> QED BY <2>1, <2>2, <2>4, <3>1 DEF SameDirectory, Follows
    <2>7. AllWhole(files'[batch'.name], Named', Handled')  BY <2>4 DEF AllWhole
    <2>8. RowsOf(batch'.rows, Named', Handled')  BY <2>1, <2>4 DEF RowsOf, Long
    <2>9. FrameCount' > 0 /\ batch'.done <= Handled'  BY <2>1, <2>2, <2>4 DEF SameDirectory
    <2> QED BY <2>1, <2>5, <2>6, <2>7, <2>8, <2>9, FilesNow
<1>4. ASSUME NEW e \in Extractors, BeginsPairs(e) PROVE FilesSoFar'
    <2>1. batch'.name = "lightglue"  BY <1>2, <1>4, PairsBegunHeld
    <2>2. ~OverFrames'  BY <2>1 DEF OverFrames
    <2> QED BY <2>2 DEF FilesSoFar
<1>5. CASE Refuses(p)
    <2>1. batch'.name = "none"  BY <1>5 DEF Refuses
    <2>2. ~OverFrames'  BY <2>1 DEF OverFrames, Programs
    <2> QED BY <2>2 DEF FilesSoFar
<1> QED BY <1>1, <1>3, <1>4, <1>5

------------------------------------------------------------------------------
(* A program changes no other's status or files.                           *)
OthersStay == \A q \in Programs \ {batch.name} : status'[q] = status[q] /\ files'[q] = files[q]

(* A program that ends sets its own status.                                *)
LEMMA EndedOthers ==
    ASSUME BatchFields, batch.name \in Programs, NEW how, Ended(how)
    PROVE  /\ \A q \in Programs \ {batch.name} : status'[q] = status[q]
           /\ status'[batch.name] = how
BY DEF Ended, BatchFields

(* Nor does one over frames.                                               *)
LEMMA FramesOthers ==
    ASSUME BatchFields, OverFrames, FStep PROVE OthersStay
<1>1. batch.name \in Programs /\ batch.name \in DOMAIN files /\ DOMAIN files = Programs
    BY DEF BatchFields, OverFrames
<1>2. CASE StillRuns /\ files' = files
    BY <1>2 DEF StillRuns, OthersStay
<1>3. CASE FWrite
    BY <1>1, <1>3, PutFileMeans DEF FWrite, StillRuns, OthersStay
<1>4. CASE FTorn("failed") \/ FTorn("killed")
    BY <1>1, <1>4, PutFileMeans, EndedOthers DEF FTorn, OthersStay
<1>5. CASE FRows \/ FNoRows
    <2>1. \A q \in Programs \ {batch.name} : files'[q] = files[q]
        BY <1>1, <1>5 DEF FRows, FNoRows
    <2> QED BY <1>1, <1>5, <2>1, EndedOthers DEF FRows, FNoRows, OthersStay
<1>6. CASE FAbort \/ FFinish \/ FKilled
    BY <1>1, <1>6, EndedOthers DEF FAbort, FFinish, FKilled, OthersStay
<1> QED BY <1>2, <1>3, <1>4, <1>5, <1>6
        DEF FStep, FSkip, FRetry, Decoded, Planned, FRow, FHand

(* Nor does lightglue_batch.                                               *)
LEMMA PairsOthers ==
    ASSUME BatchFields, Matching, PStep PROVE OthersStay
<1>1. /\ batch.name = "lightglue" /\ batch.name \in Programs /\ batch.name \in DOMAIN files
      /\ DOMAIN files = Programs
    BY DEF BatchFields, Matching, Running, Programs
<1>2. CASE StillRuns /\ files' = files
    BY <1>2 DEF StillRuns, OthersStay
<1>3. CASE PMatched
    <2>1. \A q \in Programs \ {batch.name} : files'[q] = files[q]
        BY <1>1, <1>3 DEF PMatched
    <2> QED BY <1>3, <2>1 DEF PMatched, StillRuns, OthersStay
<1>4. CASE PFinish \/ PKilled \/ PNoHeader
    <2>1. \A q \in Programs \ {batch.name} : files'[q] = files[q]
        BY <1>1, <1>4 DEF PFinish, PKilled, PNoHeader
    <2> QED BY <1>1, <1>4, <2>1, EndedOthers DEF PFinish, PKilled, PNoHeader, OthersStay
<1> QED BY <1>2, <1>3, <1>4
        DEF PStep, PSkip, PRetry, FRetry, PDecoded, Decoded, PPlanned, Planned, PTaken,
            PPassed, PRecall, PLeft, PFailed, PBroken, Within

(* What a successful program has written stays.                            *)
LEMMA CompleteStays ==
    ASSUME FilesComplete, OthersStay, dir' = dir, batch.name \in Programs,
           batch.name \in {"aliked", "xfeat", "depth"} /\ status'[batch.name] = "ok" =>
               CompleteFiles(files'[batch.name], Frames),
           batch.name = "dino" /\ status'[batch.name] = "ok" =>
               CompleteRows(files'[batch.name], Named)
    PROVE  FilesComplete'
<1>1. SameDirectory  BY DirectoryStays
<1>2. ASSUME NEW p \in {"aliked", "xfeat", "depth"}, status'[p] = "ok"
      PROVE  CompleteFiles(files'[p], Frames')
    <2>1. CASE p = batch.name  BY <1>1, <1>2, <2>1 DEF SameDirectory
    <2>2. CASE p # batch.name
        <3>1. status'[p] = status[p] /\ files'[p] = files[p]
            BY <2>2 DEF OthersStay, Programs
        <3> QED BY <1>1, <1>2, <3>1 DEF FilesComplete, SameDirectory
    <2> QED BY <2>1, <2>2
<1>3. ASSUME status'["dino"] = "ok" PROVE CompleteRows(files'["dino"], Named')
    <2>1. CASE batch.name = "dino"  BY <1>1, <1>3, <2>1 DEF SameDirectory
    <2>2. CASE batch.name # "dino"
        <3>1. status'["dino"] = status["dino"] /\ files'["dino"] = files["dino"]
            BY <2>2 DEF OthersStay, Programs
        <3> QED BY <1>1, <1>3, <3>1 DEF FilesComplete, SameDirectory
    <2> QED BY <2>1, <2>2
<1> QED BY <1>2, <1>3 DEF FilesComplete

(* Once all frames are done every one has its file, or its row.            *)
LEMMA AllFramesDone ==
    ASSUME BatchFields, FilesSoFar, OverFrames, batch.pc = "finish"
    PROVE  /\ batch.name # "dino" /\ FramesDone => CompleteFiles(files[batch.name], Frames)
           /\ batch.name = "dino" => CompleteRows(batch.rows, Named)
<1>1. Lists(Named, Frames)  BY FramesListed DEF BatchFields
<1> DEFINE m == FrameCount
<1>2. m \in Nat /\ m > 0
    <2>1. m \in Nat  BY <1>1 DEF Lists, Long, FrameCount
    <2> QED BY <2>1 DEF FilesSoFar
<1>3. Handled = m
    <2>1. Len(batch.todo) = 0
        <3>1. batch.todo = <<>>  BY DEF FilesSoFar
        <3> QED BY <3>1
    <2>2. Handled = m - Len(batch.todo)  BY DEF Handled
    <2> HIDE DEF m
    <2> QED BY <1>2, <2>1, <2>2
<1>4. batch.name # "dino" /\ FramesDone => CompleteFiles(files[batch.name], Frames)
    <2> SUFFICES ASSUME batch.name # "dino", FramesDone
                 PROVE  CompleteFiles(files[batch.name], Frames)
        OBVIOUS
    <2>1. batch.done = Handled  BY <1>3 DEF FramesDone, FrameCount
    <2>2. AllWhole(files[batch.name], Named, m)  BY <1>3, <2>1 DEF FilesSoFar
    <2>3. \A f \in Frames : WholeIn(files[batch.name], f)
        <3> SUFFICES ASSUME NEW f \in Frames PROVE WholeIn(files[batch.name], f)
            OBVIOUS
        <3>1. PICK j \in 1 .. m : Named[j] = f  BY <1>1 DEF Lists, FrameCount
        <3> QED BY <2>2, <3>1 DEF AllWhole
    <2>4. Frames # {}
        <3>1. Frames = {} => m = 0  BY FS_EmptySet DEF FrameCount
        <3> HIDE DEF m
        <3> QED BY <1>2, <3>1
    <2> QED BY <2>3, <2>4 DEF CompleteFiles
<1>5. batch.name = "dino" => CompleteRows(batch.rows, Named)
    <2> SUFFICES ASSUME batch.name = "dino" PROVE CompleteRows(batch.rows, Named)
        OBVIOUS
    <2>1. RowsOf(batch.rows, Named, m)  BY <1>3 DEF FilesSoFar
    <2>2. DOMAIN batch.rows = 1 .. m /\ DOMAIN Named = 1 .. m
        BY <1>1, <2>1 DEF RowsOf, Lists, Long, FrameCount
    <2>3. Named = [i \in 1 .. m |-> Named[i]]
        <3>1. PICK before : Named = Ascending(Frames, before)  BY DEF Named, Sorted
        <3> QED BY <3>1 DEF Ascending, FrameCount
    <2>4. [i \in DOMAIN batch.rows |-> batch.rows[i].of.file] = Named
        BY <2>1, <2>2, <2>3 DEF RowsOf
    <2> QED BY <2>4 DEF CompleteRows
<1> QED BY <1>4, <1>5

(* A status is "ok" only after a whole output.                             *)
LEMMA FramesComplete ==
    ASSUME BatchFields, FilesSoFar, FilesComplete, OverFrames, FStep
    PROVE  FilesComplete'
<1>1. batch.name \in Programs /\ DOMAIN files = Programs /\ status[batch.name] # "ok"
    BY DEF OverFrames, BatchFields
<1>2. OthersStay  BY FramesOthers
<1>3. dir' = dir
    BY DEF FStep, FSkip, FRetry, FAbort, Decoded, Planned, FRow, FHand, FWrite, FTorn, FFinish,
           FRows, FNoRows, FKilled, StillRuns, Unmoved
<1>4. CASE StillRuns
    <2>1. status'[batch.name] # "ok"  BY <1>1, <1>4 DEF StillRuns
    <2> QED BY <1>1, <1>2, <1>3, <2>1, CompleteStays
<1>5. CASE Ended("failed") \/ Ended("killed")
    <2>1. status'[batch.name] # "ok"  BY <1>1, <1>5, EndedOthers
    <2> QED BY <1>1, <1>2, <1>3, <2>1, CompleteStays
<1>6. CASE FFinish
    <2>1. batch.name # "dino" /\ batch.pc = "finish" /\ files' = files  BY <1>6 DEF FFinish
    <2>2. status'[batch.name] = "ok" => FramesDone  BY <1>1, <1>6, EndedOthers DEF FFinish
    <2> QED BY <1>1, <1>2, <1>3, <2>1, <2>2, AllFramesDone, CompleteStays
<1>7. CASE FRows
    <2>1. batch.name = "dino" /\ batch.pc = "finish" /\ files'["dino"] = batch.rows
        BY <1>1, <1>7 DEF FRows
    <2> QED BY <1>1, <1>2, <1>3, <2>1, AllFramesDone, CompleteStays
<1> QED BY <1>4, <1>5, <1>6, <1>7
        DEF FStep, FSkip, FRetry, FAbort, Decoded, Planned, FRow, FHand, FWrite, FTorn, FFinish,
            FRows, FNoRows, FKilled

(* lightglue_batch leaves the files of the frames alone.                   *)
LEMMA PairsComplete ==
    ASSUME BatchFields, FilesComplete, Matching, PStep PROVE FilesComplete'
<1>1. batch.name = "lightglue" /\ batch.name \in Programs
    BY DEF Matching, Running, Programs
<1>2. dir' = dir
    BY DEF PStep, PSkip, PRetry, FRetry, PDecoded, Decoded, PPlanned, Planned, PTaken,
            PPassed, PRecall, PLeft, PMatched, PFailed, PBroken, PFinish, PNoHeader, PKilled,
            Within, StillRuns, Unmoved
<1> QED BY <1>1, <1>2, PairsOthers, CompleteStays

(* A start makes nothing complete that was not.                            *)
LEMMA StartComplete ==
    ASSUME BatchFields, FilesComplete, SStep PROVE FilesComplete'
<1>1. PICK p \in Programs :
          /\ status[p] = "none" /\ cache' = cache /\ Unmoved
          /\ \/ \E e \in Extractors : Begins(p, e)
             \/ p = "lightglue" /\ \E e \in Extractors : BeginsPairs(e)
             \/ Refuses(p)
    BY DEF SStep
<1>2. DOMAIN status = Programs /\ DOMAIN files = Programs /\ dir' = dir
    BY <1>1 DEF BatchFields, Unmoved
<1>3. /\ \A q \in Programs \ {"lightglue"} : files'[q] = files[q]
      /\ \A q \in Programs : status'[q] = "ok" => status[q] = "ok"
    <2>1. CASE \E e \in Extractors : Begins(p, e)
        <3>1. files' = files /\ status' = [status EXCEPT ![p] = "running"]
            BY <2>1 DEF Begins
        <3> QED BY <1>2, <3>1
    <2>2. CASE p = "lightglue" /\ \E e \in Extractors : BeginsPairs(e)
        <3>1. PICK e \in Extractors : BeginsPairs(e)  BY <2>2
        <3>2. /\ files' = [files EXCEPT !["lightglue"] = [n |-> 0, fp |-> e.fp, records |-> <<>>]]
              /\ status' = [status EXCEPT !["lightglue"] = "running"]
            BY <3>1 DEF BeginsPairs
        <3> QED BY <1>2, <3>2
    <2>3. CASE Refuses(p)
        <3>1. files' = files /\ status' = [status EXCEPT ![p] = "failed"]
            BY <2>3 DEF Refuses
        <3> QED BY <1>2, <3>1
    <2> QED BY <1>1, <2>1, <2>2, <2>3
<1>4. SameDirectory  BY <1>2, DirectoryStays
<1> QED BY <1>3, <1>4 DEF FilesComplete, SameDirectory, Programs

------------------------------------------------------------------------------
(* The pairs of lightglue_batch.                                           *)
SameList == /\ AllPairs' = AllPairs /\ PairsIn(lines)' = PairsIn(lines)
            /\ Parses(lines)' = Parses(lines)

(* The pairs are the same as long as the list is.                          *)
LEMMA ListStays ==
    ASSUME lines' = lines PROVE SameList
BY DEF SameList, AllPairs

(* What is said of the pairs is carried from state to state by its parts.  *)
LEMMA PairsNow ==
    ASSUME Matching', Parses(lines'), batch'.pairs = AllPairs', batch'.pc # "write",
           Follows(batch'.todo, AllPairs', PairsDone'),
           batch'.pc = "finish" /\ ~batch'.error => batch'.todo = <<>>,
           batch'.error => batch'.pc = "finish"
    PROVE  PairsSoFar'
BY DEF PairsSoFar

(* How many pairs there are, and which is in hand.                         *)
LEMMA PairCounts ==
    ASSUME BatchFields, PairsSoFar, Matching
    PROVE  /\ PairsDone \in Nat /\ Len(batch.todo) \in Nat /\ Long(AllPairs, Len(AllPairs))
           /\ Len(AllPairs) = PairsDone + Len(batch.todo)
           /\ Held(batch) /\ Parses(lines) /\ lines \in PairLists
           /\ Lists(AllPairs, PairsIn(lines)) /\ Len(AllPairs) = Cardinality(PairsIn(lines))
           /\ batch.pc # "finish" =>
                 /\ batch.todo # <<>> /\ Len(batch.todo) > 0 /\ PairsDone + 1 \in 1 .. Len(AllPairs)
                 /\ AtHand = AllPairs[PairsDone + 1] /\ AtHand = batch.todo[1]
                 /\ AtHand \in PairsIn(lines) /\ IsPair(AtHand)
<1>1. batch.name \in Programs  BY DEF Matching, Running, Programs
<1>2. Held(batch) /\ lines \in PairLists  BY <1>1 DEF BatchFields
<1>3. Parses(lines) /\ batch.pairs = AllPairs /\ Follows(batch.todo, AllPairs, PairsDone)
    BY DEF PairsSoFar
<1>4. Lists(AllPairs, PairsIn(lines)) /\ \A p \in PairsIn(lines) : IsPair(p)
    BY <1>2, <1>3, PairsListed
<1>5. Long(AllPairs, Cardinality(PairsIn(lines)))  BY <1>4 DEF Lists
<1>6. Len(AllPairs) = Cardinality(PairsIn(lines)) /\ Len(AllPairs) \in Nat  BY <1>5 DEF Long
<1>7. Long(AllPairs, Len(AllPairs))  BY <1>5, <1>6
<1>8. Long(batch.todo, Len(batch.todo)) /\ Len(batch.todo) \in Nat  BY <1>2 DEF Held, Long
<1>9. PairsDone = Len(AllPairs) - Len(batch.todo)  BY <1>3 DEF PairsDone
<1>10. PairsDone >= 0  BY <1>3 DEF Follows
<1>11. PairsDone \in Nat /\ Len(AllPairs) = PairsDone + Len(batch.todo)
    BY <1>6, <1>8, <1>9, <1>10
<1>12. ASSUME batch.pc # "finish"
       PROVE  /\ batch.todo # <<>> /\ Len(batch.todo) > 0 /\ PairsDone + 1 \in 1 .. Len(AllPairs)
              /\ AtHand = AllPairs[PairsDone + 1] /\ AtHand = batch.todo[1]
              /\ AtHand \in PairsIn(lines) /\ IsPair(AtHand)
    <2>1. batch.todo # <<>>  BY <1>2, <1>12 DEF Held
    <2>2. Len(batch.todo) > 0  BY <1>8, <2>1, EmptyMeans
    <2>3. PairsDone + 1 \in 1 .. Len(AllPairs) /\ 1 \in 1 .. Len(batch.todo)
        BY <1>8, <1>11, <2>2
    <2>4. batch.todo[1] = AllPairs[PairsDone + 1]  BY <1>3, <2>3 DEF Follows
    <2>5. Rest(Tail(batch.todo), batch.todo, Len(batch.todo))  BY <1>8, <2>2, TailMeans
    <2>6. AtHand = batch.todo[1]  BY <2>5 DEF Rest, AtHand
    <2>7. AllPairs[PairsDone + 1] \in PairsIn(lines)  BY <1>4, <1>6, <2>3 DEF Lists
    <2> QED BY <1>4, <2>1, <2>2, <2>3, <2>4, <2>6, <2>7
<1> QED BY <1>2, <1>3, <1>4, <1>6, <1>7, <1>8, <1>11, <1>12

(* A step within a pair.                                                   *)
LEMMA SamePair ==
    ASSUME BatchFields, PairsSoFar, Matching, batch.pc # "finish", lines' = lines,
           batch'.name = batch.name, batch'.todo = batch.todo, batch'.pairs = batch.pairs,
           batch'.error = batch.error, batch'.pc \notin {"write", "finish"}
    PROVE  PairsSoFar' /\ PairsDone' = PairsDone /\ AtHand' = AtHand /\ Matching' /\ SameList
<1>1. SameList  BY ListStays
<1>2. PairsDone' = PairsDone /\ AtHand' = AtHand  BY DEF PairsDone, AtHand
<1>3. Matching'  BY DEF Matching, Running
<1>4. Parses(lines) /\ batch.pairs = AllPairs /\ Follows(batch.todo, AllPairs, PairsDone)
      /\ ~batch.error
    BY DEF PairsSoFar
<1>5. Parses(lines') /\ batch'.pairs = AllPairs' /\ Follows(batch'.todo, AllPairs', PairsDone')
    BY <1>1, <1>2, <1>4 DEF SameList
<1> QED BY <1>1, <1>2, <1>3, <1>4, <1>5, PairsNow

(* The step to the next pair.                                              *)
LEMMA PairAfterPair ==
    ASSUME BatchFields, PairsSoFar, Matching, batch.pc # "finish", lines' = lines,
           NEW b, Keeps(b, batch, {"done", "failed"}), batch' = NextPair(b)
    PROVE  /\ PairsSoFar' /\ PairsDone' = PairsDone + 1 /\ Matching' /\ SameList
           /\ batch'.pc \in {"read", "finish"}
           /\ batch'.pc = "read" => batch'.need = AtHand' /\ IsPair(AtHand')
           /\ \A x \in Slots \ {"todo", "need", "pc"} : batch'[x] = b[x]
<1>1. /\ PairsDone \in Nat /\ Len(batch.todo) \in Nat /\ Long(AllPairs, Len(AllPairs))
      /\ Len(AllPairs) = PairsDone + Len(batch.todo) /\ Held(batch) /\ Parses(lines)
      /\ batch.todo # <<>> /\ Len(batch.todo) > 0
    BY PairCounts
<1>2. SameList  BY ListStays
<1>3. b.todo = batch.todo /\ b.name = batch.name /\ b.pairs = batch.pairs /\ b.error = batch.error
      /\ DOMAIN b = Slots
    BY DEF Keeps, Slots
<1>4. Long(batch.todo, Len(batch.todo))  BY <1>1 DEF Held
<1>5. WithPair(batch', b)  BY <1>1, <1>3, <1>4, NextPairMeans
<1>6. /\ batch'.name = batch.name /\ batch'.pairs = batch.pairs /\ batch'.error = batch.error
      /\ \A x \in Slots \ {"todo", "need", "pc"} : batch'[x] = b[x]
    BY <1>3, <1>5 DEF WithPair, Keeps, Slots
<1>7. Rest(batch'.todo, batch.todo, Len(batch.todo))  BY <1>3, <1>5 DEF WithPair
<1>8. Long(batch'.todo, Len(batch.todo) - 1)  BY <1>7 DEF Rest
<1>9. Len(batch'.todo) = Len(batch.todo) - 1  BY <1>8 DEF Long
<1>10. batch.pairs = AllPairs /\ Follows(batch.todo, AllPairs, PairsDone) /\ ~batch.error
    BY DEF PairsSoFar
<1>11. PairsDone' = PairsDone + 1
    <2>1. PairsDone' = Len(batch'.pairs) - Len(batch'.todo)  BY DEF PairsDone
    <2>2. Len(batch'.pairs) = Len(AllPairs)  BY <1>6, <1>10
    <2>3. \A d, t, a \in Nat : a = d + t => a - (t - 1) = d + 1  OBVIOUS
    <2>4. Len(AllPairs) \in Nat  BY <1>1 DEF Long
    <2>5. PairsDone' = Len(AllPairs) - (Len(batch.todo) - 1)  BY <1>9, <2>1, <2>2, Zenon
    <2>6. Len(AllPairs) - (Len(batch.todo) - 1) = PairsDone + 1  BY <1>1, <2>3, <2>4, Zenon
    <2> QED BY <2>5, <2>6, Zenon
<1>12. ASSUME NEW j \in 1 .. Len(batch'.todo) PROVE batch'.todo[j] = AllPairs'[PairsDone' + j]
    <2>1. j \in 1 .. Len(batch.todo) - 1 /\ j + 1 \in 1 .. Len(batch.todo)  BY <1>1, <1>9
    <2>2. batch'.todo[j] = batch.todo[j + 1]  BY <1>7, <2>1 DEF Rest
    <2>3. batch.todo[j + 1] = AllPairs[PairsDone + (j + 1)]  BY <1>10, <2>1 DEF Follows
    <2>4. PairsDone' + j = PairsDone + (j + 1)  BY <1>1, <1>11, <2>1
    <2> QED BY <1>2, <2>2, <2>3, <2>4 DEF SameList
<1>13. Follows(batch'.todo, AllPairs', PairsDone')
    <2>1. PairsDone' >= 0  BY <1>1, <1>11
    <2> QED BY <1>12, <2>1 DEF Follows
<1>14. Matching'  BY <1>6 DEF Matching, Running
<1>15. CASE Len(batch.todo) = 1
    <2>1. batch'.pc = "finish" /\ batch'.todo = <<>>  BY <1>3, <1>5, <1>15 DEF WithPair
    <2>2. PairsSoFar'  BY <1>1, <1>2, <1>6, <1>10, <1>13, <1>14, <2>1, PairsNow DEF SameList
    <2> QED BY <1>2, <1>6, <1>11, <1>14, <2>1, <2>2
<1>16. CASE Len(batch.todo) # 1
    <2>0. Len(batch.todo) - 1 > 0 /\ 1 \in 1 .. Len(batch.todo) - 1
        <3>1. \A m \in Nat : m > 0 /\ m # 1 => m - 1 > 0 /\ 1 \in 1 .. m - 1  OBVIOUS
        <3> QED BY <1>1, <1>16, <3>1, Zenon
    <2>1. batch'.pc = "read" /\ batch'.need = batch.todo[2] /\ batch'.todo # <<>>
        BY <1>3, <1>5, <1>16 DEF WithPair
    <2>2. PairsSoFar'  BY <1>1, <1>2, <1>6, <1>10, <1>13, <1>14, <2>1, PairsNow DEF SameList
    <2>3. AtHand' = batch'.todo[1]
        <3> DEFINE k == Len(batch.todo) - 1
        <3>1. Long(batch'.todo, k) /\ k > 0  BY <1>8, <2>0, Zenon
        <3> HIDE DEF k
        <3>2. Rest(Tail(batch'.todo), batch'.todo, k)  BY <3>1, TailMeans
        <3> QED BY <3>2 DEF Rest, AtHand
    <2>4. batch'.todo[1] = batch.todo[2]
        <3>2. batch'.todo[1] = batch.todo[1 + 1]  BY <1>7, <2>0, Zenon DEF Rest
        <3> QED BY <3>2
    <2>5. IsPair(batch.todo[2])
        <3>1. \A d, t, u \in Nat : u = d + t /\ t > 0 /\ t # 1 => d + 2 \in 1 .. u /\ 2 \in 1 .. t
            OBVIOUS
        <3>2. Len(AllPairs) \in Nat  BY <1>1 DEF Long
        <3>3. PairsDone + 2 \in 1 .. Len(AllPairs) /\ 2 \in 1 .. Len(batch.todo)
            BY <1>1, <1>16, <3>1, <3>2, Zenon
        <3>4. batch.todo[2] = AllPairs[PairsDone + 2]  BY <1>10, <3>3, Zenon DEF Follows
        <3>5. /\ Lists(AllPairs, PairsIn(lines))
              /\ \A p \in PairsIn(lines) : IsPair(p)
              /\ Len(AllPairs) = Cardinality(PairsIn(lines))
            BY PairCounts, PairsListed
        <3> DEFINE u == Cardinality(PairsIn(lines))
        <3>6. \A i \in 1 .. u : AllPairs[i] \in PairsIn(lines)  BY <3>5 DEF Lists
        <3>7. AllPairs[PairsDone + 2] \in PairsIn(lines)
            <4>1. Len(AllPairs) = u  BY <3>5
            <4> HIDE DEF u
            <4>2. PairsDone + 2 \in 1 .. u  BY <3>3, <4>1
            <4> QED BY <3>6, <4>2, Zenon
        <3> QED BY <3>4, <3>5, <3>7, Zenon
    <2> QED BY <1>2, <1>6, <1>11, <1>14, <2>1, <2>2, <2>3, <2>4, <2>5
<1> QED BY <1>15, <1>16

------------------------------------------------------------------------------
(* The cache: what it means to take a result out.                          *)
Removed(r, c, m, i) ==
    /\ Long(r, m - 1)
    /\ \A k \in 1 .. m - 1 : r[k] = c[IF k < i THEN k ELSE k + 1]

(* Taking one result out moves those behind it up.                         *)
LEMMA RemoveMeans ==
    ASSUME NEW c, NEW m, Long(c, m), NEW i \in 1 .. m
    PROVE  Removed(RemoveAt(c, i), c, m, i)
<1> DEFINE r == RemoveAt(c, i)
<1>1. m \in Nat /\ DOMAIN c = 1 .. m /\ Len(c) = m  BY DEF Long
<1>2. r = SubSeq(c, 1, i - 1) \o SubSeq(c, i + 1, m)  BY <1>1 DEF RemoveAt
<1> DEFINE front == SubSeq(c, 1, i - 1)
           back == SubSeq(c, i + 1, m)
<1>3. /\ Len(front) = i - 1 /\ DOMAIN front = 1 .. i - 1
      /\ Len(back) = m - i /\ DOMAIN back = 1 .. m - i
      /\ \A k \in 1 .. i - 1 : front[k] = c[k]
      /\ \A k \in 1 .. m - i : back[k] = c[i + k]
    BY <1>1
<1>4. Long(front, i - 1) /\ Long(back, m - i)  BY <1>1, <1>3 DEF Long
<1> HIDE DEF front, back, r
<1>5. r = front \o back  BY <1>2 DEF front, back
<1>6. Joined(r, front, i - 1, back, m - i)  BY <1>4, <1>5, JoinMeans
<1>7. Long(r, m - 1)
    <2>1. (i - 1) + (m - i) = m - 1  BY <1>1
    <2> QED BY <1>6, <2>1 DEF Joined
<1>8. ASSUME NEW k \in 1 .. m - 1 PROVE r[k] = IF k < i THEN c[k] ELSE c[k + 1]
    <2>1. CASE k < i
        <3>1. k \in 1 .. i - 1  BY <1>1, <2>1
        <3> QED BY <1>3, <1>6, <2>1, <3>1 DEF Joined
    <2>2. CASE ~(k < i)
        <3>1. k - (i - 1) \in 1 .. m - i /\ (i - 1) + (k - (i - 1)) = k
              /\ i + (k - (i - 1)) = k + 1
            BY <1>1, <2>2
        <3>2. r[(i - 1) + (k - (i - 1))] = back[k - (i - 1)]  BY <1>6, <3>1 DEF Joined
        <3> QED BY <1>3, <2>2, <3>1, <3>2
    <2> QED BY <2>1, <2>2
<1> QED BY <1>7, <1>8 DEF Removed, r

(* What is left is in order, and has every result but the one taken out.   *)
LEMMA RemovedRanked ==
    ASSUME NEW c, NEW d \in Nat, Ranked(c, d), NEW r, NEW i \in 1 .. Len(c),
           Removed(r, c, Len(c), i)
    PROVE  /\ Ranked(r, d) /\ Len(r) = Len(c) - 1
           /\ \A k \in DOMAIN r : r[k].index # c[i].index
           /\ \A k \in DOMAIN r : \E j \in 1 .. Len(c) : j # i /\ r[k] = c[j]
           /\ \A j \in 1 .. Len(c) : j # i => \E k \in DOMAIN r : r[k] = c[j]
<1> DEFINE m == Len(c)
           at == [k \in 1 .. m - 1 |-> IF k < i THEN k ELSE k + 1]
<1>1. m \in Nat /\ DOMAIN c = 1 .. m  BY DEF Ranked, Long
<1>2. i \in 1 .. m /\ Removed(r, c, m, i)  OBVIOUS
<1> HIDE DEF m
<1>3. DOMAIN r = 1 .. m - 1 /\ Len(r) = m - 1 /\ Long(r, m - 1)  BY <1>2 DEF Removed, Long
<1>4. \A k \in 1 .. m - 1 : at[k] \in 1 .. m /\ at[k] # i /\ r[k] = c[at[k]]
    BY <1>1, <1>2 DEF Removed
<1>5. \A k, l \in 1 .. m - 1 : k < l => at[k] < at[l]
    BY <1>1, <1>2
<1>6. \A k, l \in 1 .. m - 1 : at[k] = at[l] => k = l
    BY <1>1, <1>2
<1>7. \A j \in 1 .. m : j # i => \E k \in 1 .. m - 1 : at[k] = j
    <2> SUFFICES ASSUME NEW j \in 1 .. m, j # i PROVE \E k \in 1 .. m - 1 : at[k] = j
        OBVIOUS
    <2>1. CASE j < i
        <3>1. j \in 1 .. m - 1 /\ at[j] = j  BY <1>1, <1>2, <2>1
        <3> QED BY <3>1
    <2>2. CASE j > i
        <3>1. j - 1 \in 1 .. m - 1 /\ at[j - 1] = j  BY <1>1, <1>2, <2>2
        <3> QED BY <3>1
    <2> QED BY <1>1, <1>2, <2>1, <2>2
<1> HIDE DEF at
<1>8. /\ \A j \in 1 .. m : DOMAIN c[j] = {"index", "of", "used"} /\ c[j].used \in 0 .. d
      /\ \A j, l \in 1 .. m : c[j].index = c[l].index => j = l
      /\ \A j, l \in 1 .. m : j < l => c[j].used <= c[l].used
    BY <1>1 DEF Ranked
<1>9. \A k \in 1 .. m - 1 : DOMAIN r[k] = {"index", "of", "used"} /\ r[k].used \in 0 .. d
    BY <1>4, <1>8
<1>10. \A k, l \in 1 .. m - 1 : r[k].index = r[l].index => k = l
    <2> SUFFICES ASSUME NEW k \in 1 .. m - 1, NEW l \in 1 .. m - 1, r[k].index = r[l].index
                 PROVE  k = l
        OBVIOUS
    <2>1. r[k] = c[at[k]] /\ r[l] = c[at[l]] /\ at[k] \in 1 .. m /\ at[l] \in 1 .. m  BY <1>4
    <2>2. c[at[k]].index = c[at[l]].index  BY <2>1, Zenon
    <2>3. at[k] = at[l]  BY <1>8, <2>1, <2>2, Zenon
    <2> QED BY <1>6, <2>3
<1>11. \A k, l \in 1 .. m - 1 : k < l => r[k].used <= r[l].used
    BY <1>4, <1>5, <1>8
<1>12. \A k \in 1 .. m - 1 : r[k].index # c[i].index
    BY <1>2, <1>4, <1>8
<1>13. \A k \in 1 .. m - 1 : \E j \in 1 .. m : j # i /\ r[k] = c[j]
    BY <1>4
<1>14. \A j \in 1 .. m : j # i => \E k \in 1 .. m - 1 : r[k] = c[j]
    BY <1>4, <1>7
<1>15. Ranked(r, d)  BY <1>3, <1>9, <1>10, <1>11 DEF Ranked
<1> QED BY <1>3, <1>12, <1>13, <1>14, <1>15 DEF m

(* A new result goes to the end.                                           *)
LEMMA AddedRanked ==
    ASSUME NEW c, NEW d \in Nat, Ranked(c, d),
           NEW x, DOMAIN x = {"index", "of", "used"}, x.used = d,
           \A i \in DOMAIN c : c[i].index # x.index
    PROVE  /\ Ranked(Append(c, x), d) /\ Pushed(Append(c, x), c, Len(c), x)
<1> DEFINE m == Len(c)
           r == Append(c, x)
<1>1. m \in Nat /\ DOMAIN c = 1 .. m /\ Long(c, m)  BY DEF Ranked, Long
<1>2. Pushed(r, c, m, x)  BY <1>1, PushMeans, Zenon
<1>3. /\ \A j \in 1 .. m : DOMAIN c[j] = {"index", "of", "used"} /\ c[j].used \in 0 .. d
      /\ \A j, l \in 1 .. m : c[j].index = c[l].index => j = l
      /\ \A j, l \in 1 .. m : j < l => c[j].used <= c[l].used
    BY <1>1 DEF Ranked
<1>4. \A j \in 1 .. m : c[j].index # x.index  BY <1>1
<1> HIDE DEF m, r
<1>5. /\ Long(r, m + 1) /\ r[m + 1] = x /\ \A i \in 1 .. m : r[i] = c[i]
    BY <1>2 DEF Pushed
<1>6. DOMAIN r = 1 .. m + 1 /\ Len(r) = m + 1  BY <1>5 DEF Long
<1>7. d \in 0 .. d  OBVIOUS
<1>8. \A i \in 1 .. m + 1 : i \in 1 .. m \/ i = m + 1  BY <1>1
<1>9. \A j \in 1 .. m + 1 : DOMAIN r[j] = {"index", "of", "used"} /\ r[j].used \in 0 .. d
    BY <1>3, <1>5, <1>7, <1>8
<1>10. \A j, l \in 1 .. m + 1 : r[j].index = r[l].index => j = l
    BY <1>3, <1>4, <1>5, <1>8
<1>11. \A j, l \in 1 .. m + 1 : j < l => r[j].used <= r[l].used
    <2> SUFFICES ASSUME NEW j \in 1 .. m + 1, NEW l \in 1 .. m + 1, j < l
                 PROVE  r[j].used <= r[l].used
        OBVIOUS
    <2>1. j \in 1 .. m  BY <1>1
    <2>2. CASE l = m + 1
        BY <1>3, <1>5, <2>1, <2>2
    <2>3. CASE l \in 1 .. m
        BY <1>3, <1>5, <2>1, <2>3
    <2> QED BY <1>8, <2>2, <2>3
<1>12. Ranked(r, d)  BY <1>5, <1>6, <1>9, <1>10, <1>11 DEF Ranked
<1> QED BY <1>2, <1>12 DEF m, r

(* No more than two results of different frames are of a pair's frames.    *)
LEMMA OfAPair ==
    ASSUME NEW c, NEW d, Ranked(c, d), NEW a, NEW b,
           \A i \in DOMAIN c : c[i].index \in {a, b}
    PROVE  Len(c) <= 2
<1> DEFINE m == Len(c)
<1>1. m \in Nat /\ DOMAIN c = 1 .. m  BY DEF Ranked, Long
<1>2. \A j, l \in 1 .. m : c[j].index = c[l].index => j = l  BY <1>1 DEF Ranked
<1>3. \A i \in 1 .. m : c[i].index = a \/ c[i].index = b  BY <1>1
<1> HIDE DEF m
<1>4. ASSUME m > 2 PROVE FALSE
    <2>1. 1 \in 1 .. m /\ 2 \in 1 .. m /\ 3 \in 1 .. m  BY <1>1, <1>4
    <2>2. 1 # 2 /\ 2 # 3 /\ 1 # 3  OBVIOUS
    <2>3. /\ c[1].index # c[2].index /\ c[2].index # c[3].index /\ c[1].index # c[3].index
        BY <1>2, <2>1, <2>2
    <2> QED BY <1>3, <2>1, <2>3
<1>5. m <= 2  BY <1>1, <1>4
<1> QED BY <1>5 DEF m

(* A result found is at its place.                                         *)
LEMMA PlaceMeans ==
    ASSUME NEW i, Cached(i)
    PROVE  PlaceOf(i) \in DOMAIN cache /\ cache[PlaceOf(i)].index = i
BY Zenon DEF Cached, PlaceOf

(* Being used again, a result goes to the end, and none is lost.           *)
LEMMA RefreshedRanked ==
    ASSUME PairsDone \in Nat, Ranked(cache, PairsDone), NEW i, Cached(i)
    PROVE  /\ Ranked(Refreshed(i), PairsDone) /\ Len(Refreshed(i)) = Len(cache)
           /\ \A k : Has(cache, k) => Has(Refreshed(i), k)
           /\ \A k \in DOMAIN Refreshed(i) : \E j \in DOMAIN cache :
                 Refreshed(i)[k].index = cache[j].index /\ Refreshed(i)[k].of = cache[j].of
<1> DEFINE m == Len(cache)
           d == PairsDone
           p == PlaceOf(i)
           q == RemoveAt(cache, p)
           x == [index |-> i, of |-> cache[p].of, used |-> d]
           r == Append(q, x)
<1>1. p \in DOMAIN cache /\ cache[p].index = i  BY PlaceMeans
<1>2. Long(cache, m) /\ DOMAIN cache = 1 .. m /\ m \in Nat  BY DEF Ranked, Long
<1>3. Refreshed(i) = r  BY DEF Refreshed, Touched, ResultOf
<1>4. DOMAIN x = {"index", "of", "used"} /\ x.used = d /\ x.index = i /\ x.of = cache[p].of
    OBVIOUS
<1>5. Removed(q, cache, m, p)  BY <1>1, <1>2, RemoveMeans
<1>6. Ranked(cache, d) /\ d \in Nat  OBVIOUS
<1>7. p \in 1 .. m  BY <1>1, <1>2
<1> HIDE DEF d, x, q, p
<1>8. /\ Ranked(q, d) /\ Len(q) = m - 1
      /\ \A k \in DOMAIN q : q[k].index # i
      /\ \A k \in DOMAIN q : \E j \in 1 .. m : j # p /\ q[k] = cache[j]
      /\ \A j \in 1 .. m : j # p => \E k \in DOMAIN q : q[k] = cache[j]
    BY <1>1, <1>5, <1>6, <1>7, RemovedRanked
<1>9. Ranked(r, d) /\ Pushed(r, q, Len(q), x)
    BY <1>4, <1>6, <1>8, AddedRanked
<1> HIDE DEF m, r
<1>10. Long(r, Len(q) + 1) /\ r[Len(q) + 1] = x /\ \A k \in 1 .. Len(q) : r[k] = q[k]
    BY <1>9 DEF Pushed
<1>11. DOMAIN q = 1 .. m - 1  BY <1>8 DEF Ranked, Long
<1>12. Len(q) + 1 = m  BY <1>2, <1>8
<1>13. DOMAIN r = 1 .. m /\ Len(r) = m /\ r[m] = x /\ \A k \in 1 .. m - 1 : r[k] = q[k]
    BY <1>8, <1>10, <1>12 DEF Long
<1>14. m \in 1 .. m /\ \A k \in 1 .. m - 1 : k \in 1 .. m  BY <1>2, <1>7
<1>15. ASSUME NEW k, Has(cache, k) PROVE Has(r, k)
    <2>1. PICK j \in 1 .. m : cache[j].index = k  BY <1>2, <1>15 DEF Has
    <2>2. CASE j = p
        BY <1>1, <1>4, <1>13, <1>14, <2>1, <2>2 DEF Has
    <2>3. CASE j # p
        <3>1. PICK l \in 1 .. m - 1 : q[l] = cache[j]  BY <1>8, <1>11, <2>3
        <3> QED BY <1>13, <1>14, <2>1, <3>1 DEF Has
    <2> QED BY <2>2, <2>3
<1>16. ASSUME NEW k \in DOMAIN r
       PROVE  \E j \in DOMAIN cache : r[k].index = cache[j].index /\ r[k].of = cache[j].of
    <2>1. k \in 1 .. m  BY <1>13
    <2>2. CASE k = m
        BY <1>1, <1>4, <1>13, <2>2
    <2>3. CASE k # m
        <3>1. k \in 1 .. m - 1  BY <1>2, <2>1, <2>3
        <3>2. PICK j \in 1 .. m : q[k] = cache[j]  BY <1>8, <1>11, <3>1
        <3> QED BY <1>2, <1>13, <3>1, <3>2
    <2> QED BY <2>2, <2>3
<1>17. Len(r) = m  BY <1>13
<1> QED BY <1>3, <1>9, <1>15, <1>16, <1>17 DEF d, m

(* What a turn of the eviction does.                                       *)
Spared(r, c, a, b) ==
    \/ r = c
    \/ \E i \in 1 .. Len(c) : c[i].index \notin {a, b} /\ Removed(r, c, Len(c), i)

(* A turn takes out one that is not of the pair, or there is nothing to do.*)
LEMMA LetGoMeans ==
    ASSUME NEW c, Long(c, Len(c)), NEW pair, NEW a, NEW b, ToSet(pair) = {a, b}
    PROVE  /\ Spared(LetGo(c, pair), c, a, b)
           /\ LetGo(c, pair) = c =>
                 Len(c) <= Cache \/ \A i \in DOMAIN c : c[i].index \in {a, b}
<1> DEFINE loose == {i \in DOMAIN c : c[i].index \notin ToSet(pair)}
           m == Len(c)
           r == LetGo(c, pair)
           i == CHOOSE i \in loose : \A j \in loose : i <= j
<1>1. m \in Nat /\ DOMAIN c = 1 .. m  BY DEF Long
<1>2. r = IF m <= Cache \/ loose = {} THEN c ELSE RemoveAt(c, i)  BY DEF LetGo
<1>3. CASE m <= Cache \/ loose = {}
    BY <1>2, <1>3 DEF Spared
<1>4. CASE ~(m <= Cache \/ loose = {})
    <2>1. loose \subseteq Nat /\ loose # {}  BY <1>1, <1>4
    <2>2. \E k \in loose : \A j \in loose : k <= j
        <3> HIDE DEF loose
        <3> QED BY <2>1, LeastNumber
    <2>3. i \in loose
        <3> HIDE DEF loose
        <3> QED BY <2>2, Zenon
    <2>4. i \in 1 .. m /\ c[i].index \notin {a, b}  BY <1>1, <2>3
    <2>5. r = RemoveAt(c, i)  BY <1>2, <1>4
    <2> HIDE DEF i, r
    <2>6. Removed(r, c, m, i)  BY <2>4, <2>5, RemoveMeans
    <2>7. Spared(r, c, a, b)  BY <2>4, <2>6 DEF Spared
    <2>8. r # c
        <3>1. Len(r) = m - 1  BY <2>6 DEF Removed, Long
        <3> HIDE DEF m
        <3>2. m - 1 # m  BY <1>1
        <3> QED BY <3>1, <3>2 DEF m
    <2> QED BY <2>7, <2>8 DEF r
<1> QED BY <1>3, <1>4

(* It keeps the order, and the results of the pair.                        *)
LEMMA SparedRanked ==
    ASSUME NEW c, NEW d \in Nat, Ranked(c, d), NEW r, NEW a, NEW b, Spared(r, c, a, b)
    PROVE  /\ Ranked(r, d) /\ (r = c \/ Len(r) = Len(c) - 1) /\ Len(r) <= Len(c)
           /\ \A k \in {a, b} : Has(c, k) => Has(r, k)
           /\ \A k \in DOMAIN r : \E j \in DOMAIN c : r[k] = c[j]
<1>1. Len(c) \in Nat /\ DOMAIN c = 1 .. Len(c)  BY DEF Ranked, Long
<1>2. CASE r = c
    BY <1>1, <1>2
<1>3. ASSUME NEW i \in 1 .. Len(c), c[i].index \notin {a, b}, Removed(r, c, Len(c), i)
      PROVE  /\ Ranked(r, d) /\ Len(r) = Len(c) - 1
             /\ \A k \in {a, b} : Has(c, k) => Has(r, k)
             /\ \A k \in DOMAIN r : \E j \in DOMAIN c : r[k] = c[j]
    <2>1. /\ Ranked(r, d) /\ Len(r) = Len(c) - 1
          /\ \A k \in DOMAIN r : \E j \in 1 .. Len(c) : j # i /\ r[k] = c[j]
          /\ \A j \in 1 .. Len(c) : j # i => \E k \in DOMAIN r : r[k] = c[j]
        BY <1>3, RemovedRanked
    <2>2. ASSUME NEW k \in {a, b}, Has(c, k) PROVE Has(r, k)
        <3>1. PICK j \in 1 .. Len(c) : c[j].index = k  BY <1>1, <2>2 DEF Has
        <3>2. j # i  BY <1>3, <3>1
        <3> QED BY <2>1, <3>1, <3>2 DEF Has
    <2> QED BY <1>1, <2>1, <2>2
<1>4. Len(c) - 1 <= Len(c)  BY <1>1
<1> QED BY <1>2, <1>3, <1>4 DEF Spared

(* The frames of a pair.                                                   *)
LEMMA FramesOfPair ==
    ASSUME NEW p, IsPair(p) PROVE ToSet(p) = {p[1], p[2]} /\ Len(p) = 2 /\ p # <<>>
<1>1. p = <<p[1], p[2]>>  BY DEF IsPair
<1>2. DOMAIN p = {1, 2}
    <2>1. DOMAIN <<p[1], p[2]>> = 1 .. 2  OBVIOUS
    <2>2. 1 .. 2 = {1, 2}  OBVIOUS
    <2> QED BY <1>1, <2>1, <2>2, Zenon
<1>3. ToSet(p) = {p[1], p[2]}
    <2>1. ToSet(p) = {p[i] : i \in {1, 2}}  BY <1>2 DEF ToSet
    <2> QED BY <2>1
<1>4. Len(<<p[1], p[2]>>) = 2 /\ <<p[1], p[2]>> # <<>>  OBVIOUS
<1> QED BY <1>1, <1>3, <1>4, Zenon

(* Eviction brings the cache to its size but for the pair in flight, which *)
(* it keeps.                                                               *)
LEMMA EvictedMeans ==
    ASSUME NEW c, NEW d \in Nat, Ranked(c, d), Len(c) <= Larger(Cache, 2) + 1,
           NEW pair, IsPair(pair)
    PROVE  /\ Ranked(Evicted(c, pair), d) /\ Len(Evicted(c, pair)) <= Larger(Cache, 2)
           /\ \A k \in {pair[1], pair[2]} : Has(c, k) => Has(Evicted(c, pair), k)
           /\ \A k \in DOMAIN Evicted(c, pair) : \E j \in DOMAIN c : Evicted(c, pair)[k] = c[j]
<1> DEFINE q == LetGo(c, pair)
           r == LetGo(q, pair)
           a == pair[1]
           b == pair[2]
<1>0. ToSet(pair) = {a, b}  BY FramesOfPair
<1>1. Evicted(c, pair) = r  BY DEF Evicted
<1>2. Long(c, Len(c)) /\ Len(c) \in Nat  BY DEF Ranked, Long
<1>3. /\ Spared(q, c, a, b)
      /\ q = c => Len(c) <= Cache \/ \A i \in DOMAIN c : c[i].index \in {a, b}
    BY <1>0, <1>2, LetGoMeans
<1> HIDE DEF q
<1>4. /\ Ranked(q, d) /\ (q = c \/ Len(q) = Len(c) - 1)
      /\ \A k \in {a, b} : Has(c, k) => Has(q, k)
      /\ \A k \in DOMAIN q : \E j \in DOMAIN c : q[k] = c[j]
    BY <1>3, SparedRanked
<1>5. Long(q, Len(q)) /\ Len(q) \in Nat  BY <1>4 DEF Ranked, Long
<1>6. Spared(r, q, a, b)  BY <1>0, <1>5, LetGoMeans
<1> HIDE DEF r
<1>7. /\ Ranked(r, d) /\ Len(r) <= Len(q)
      /\ \A k \in {a, b} : Has(q, k) => Has(r, k)
      /\ \A k \in DOMAIN r : \E j \in DOMAIN q : r[k] = q[j]
    BY <1>4, <1>6, SparedRanked
<1>8. Larger(Cache, 2) \in Nat /\ Cache <= Larger(Cache, 2) /\ 2 <= Larger(Cache, 2)
    BY BatchAssumption DEF Larger
<1>9. Len(q) <= Larger(Cache, 2)
    <2>1. CASE q = c
        <3>1. CASE Len(c) <= Cache
            <4>1. Cache \in Nat  BY BatchAssumption
            <4> QED BY <1>2, <1>8, <2>1, <3>1, <4>1
        <3>2. CASE \A i \in DOMAIN c : c[i].index \in {a, b}
            <4>1. Len(c) <= 2  BY <3>2, OfAPair
            <4> QED BY <1>2, <1>8, <2>1, <4>1
        <3> QED BY <1>3, <2>1, <3>1, <3>2
    <2>2. CASE Len(q) = Len(c) - 1
        BY <1>2, <1>8, <2>2
    <2> QED BY <1>4, <2>1, <2>2
<1>10. Len(r) <= Larger(Cache, 2)
    <2>1. Len(r) \in Nat  BY <1>7 DEF Ranked, Long
    <2> QED BY <1>5, <1>7, <1>8, <1>9, <2>1
<1>11. \A k \in {a, b} : Has(c, k) => Has(r, k)  BY <1>4, <1>7
<1>12. \A k \in DOMAIN r : \E j \in DOMAIN c : r[k] = c[j]
    <2> SUFFICES ASSUME NEW k \in DOMAIN r PROVE \E j \in DOMAIN c : r[k] = c[j]
        OBVIOUS
    <2>1. PICK l \in DOMAIN q : r[k] = q[l]  BY <1>7
    <2>2. PICK j \in DOMAIN c : q[l] = c[j]  BY <1>4
    <2> QED BY <2>1, <2>2
<1> QED BY <1>1, <1>7, <1>10, <1>11, <1>12

(* A frame of the pair more is there.                                      *)
LEMMA ServeNext ==
    ASSUME NEW p, IsPair(p), NEW need, NEW at, at # "match", NEW c, NEW dead,
           Serving(need, at, p, c, dead), NEW d, NEW gone,
           Got(d, gone, Head(need)),
           Got(c, dead, p[1]) => Got(d, gone, p[1]),
           Got(c, dead, p[2]) => Got(d, gone, p[2])
    PROVE  Serving(Tail(need), IF Len(need) = 1 THEN "match" ELSE "read", p, d, gone)
<1> DEFINE need2 == Tail(need)
           pc2 == IF Len(need) = 1 THEN "match" ELSE "read"
<1>1. p = <<p[1], p[2]>>  BY DEF IsPair
<1>2. /\ Head(<<p[1], p[2]>>) = p[1] /\ Tail(<<p[1], p[2]>>) = <<p[2]>>
      /\ Len(<<p[1], p[2]>>) = 2 /\ Len(<<p[2]>>) = 1 /\ Head(<<p[2]>>) = p[2]
      /\ Tail(<<p[2]>>) = <<>> /\ <<p[2]>> # <<p[1], p[2]>> /\ <<p[2]>> # <<>>
    OBVIOUS
<1>3. /\ Head(p) = p[1] /\ Tail(p) = <<p[2]>> /\ Len(p) = 2 /\ <<p[2]>> # p
    BY <1>1, <1>2, Zenon
<1>4. CASE need = p
    <2>1. need2 = <<p[2]>> /\ pc2 = "read"  BY <1>3, <1>4
    <2> QED BY <1>2, <1>3, <1>4, <2>1 DEF Serving
<1>5. CASE need = <<p[2]>>
    <2>1. need2 = <<>> /\ pc2 = "match"  BY <1>2, <1>5
    <2>2. Got(d, gone, p[1]) /\ Got(d, gone, p[2])
        <3>1. Got(c, dead, p[1])  BY <1>3, <1>5 DEF Serving
        <3> QED BY <1>2, <1>5, <3>1
    <2> QED BY <2>1, <2>2 DEF Serving
<1> QED BY <1>4, <1>5 DEF Serving

(* What is said of the pair in hand and of the cache.                      *)
Served == PairsSoFar /\ PairInHand /\ CacheInOrder

(* Where lightglue_batch does not run there is nothing to serve.           *)
LEMMA EndServed ==
    ASSUME ~Matching', cache' = <<>> PROVE Served'
<1>1. PairsSoFar'  BY DEF PairsSoFar
<1>2. PairInHand'  BY DEF PairInHand
<1>3. CacheInOrder'  BY DEF CacheInOrder
<1> QED BY <1>1, <1>2, <1>3 DEF Served

(* The next frame of the pair: this one is in the cache, or is dead.       *)
LEMMA NextServed ==
    ASSUME BatchFields, Served, Matching, batch.pc \in {"read", "fit", "submit"}, lines' = lines,
           NEW b, Keeps(b, batch, {"dead"}), batch.dead \subseteq b.dead, batch' = NextNeeded(b),
           Ranked(cache', PairsDone), Len(cache') <= Larger(Cache, 2),
           Got(cache', b.dead, Index),
           \A k \in {AtHand[1], AtHand[2]} : Has(cache, k) => Has(cache', k)
    PROVE  Served' /\ Matching' /\ PairsDone' = PairsDone
<1>1. DOMAIN b = Slots /\ \A x \in Slots \ {"dead"} : b[x] = batch[x]  BY DEF Keeps
<1>2. /\ b.name = batch.name /\ b.todo = batch.todo /\ b.pairs = batch.pairs
      /\ b.error = batch.error /\ b.need = batch.need
    BY <1>1 DEF Slots
<1>3. WithNeed(batch', b)  BY <1>1, NextNeededMeans
<1>4. /\ batch'.name = batch.name /\ batch'.todo = batch.todo /\ batch'.pairs = batch.pairs
      /\ batch'.error = batch.error /\ batch'.dead = b.dead
      /\ batch'.need = Tail(batch.need)
      /\ batch'.pc = IF Len(batch.need) = 1 THEN "match" ELSE "read"
    BY <1>2, <1>3 DEF WithNeed, Keeps, Slots
<1>5. PairsSoFar' /\ PairsDone' = PairsDone /\ AtHand' = AtHand /\ Matching'
    BY <1>4, SamePair DEF Served
<1>6. IsPair(AtHand)  BY PairCounts DEF Served
<1>7. Serving(batch.need, batch.pc, AtHand, cache, batch.dead)  BY DEF Served, PairInHand
<1>8. \A k \in {AtHand[1], AtHand[2]} : Got(cache, batch.dead, k) => Got(cache', b.dead, k)
    BY DEF Got
<1>9. Got(cache', b.dead, Head(batch.need))  BY DEF Index
<1>10. Serving(batch'.need, batch'.pc, AtHand, cache', batch'.dead)
    <2>1. batch.pc # "match"  OBVIOUS
    <2> DEFINE p == AtHand
               here == batch.need
               c == cache
               d == cache'
    <2>3. /\ IsPair(p) /\ Serving(here, batch.pc, p, c, batch.dead)
          /\ Got(d, b.dead, Head(here))
          /\ Got(c, batch.dead, p[1]) => Got(d, b.dead, p[1])
          /\ Got(c, batch.dead, p[2]) => Got(d, b.dead, p[2])
        BY <1>6, <1>7, <1>8, <1>9
    <2> HIDE DEF p, here, c, d
    <2>4. Serving(Tail(here), IF Len(here) = 1 THEN "match" ELSE "read", p, d, b.dead)
        BY <2>1, <2>3, ServeNext, Zenon
    <2>5. /\ batch'.need = Tail(here) /\ batch'.dead = b.dead
          /\ batch'.pc = IF Len(here) = 1 THEN "match" ELSE "read"
        BY <1>4 DEF here
    <2> QED BY <2>4, <2>5, Zenon DEF p, d
<1>11. PairInHand'  BY <1>5, <1>10 DEF PairInHand
<1>12. CacheInOrder'  BY <1>5 DEF CacheInOrder
<1> QED BY <1>5, <1>11, <1>12 DEF Served

(* Work on a frame that is not there.                                      *)
LEMMA StayServed ==
    ASSUME BatchFields, Served, Matching, batch.pc \in {"read", "fit", "submit"}, lines' = lines,
           cache' = cache, ~Fetched(Index), batch'.pc \in {"fit", "submit"},
           Keeps(batch', batch, {"pc", "attempt", "plan", "hand"})
    PROVE  Served' /\ Matching' /\ PairsDone' = PairsDone
<1>1. /\ batch'.name = batch.name /\ batch'.todo = batch.todo /\ batch'.pairs = batch.pairs
      /\ batch'.error = batch.error /\ batch'.dead = batch.dead /\ batch'.need = batch.need
    BY DEF Keeps, Slots
<1>2. PairsSoFar' /\ PairsDone' = PairsDone /\ AtHand' = AtHand /\ Matching'
    BY <1>1, SamePair DEF Served
<1>3. Serving(batch.need, batch.pc, AtHand, cache, batch.dead)  BY DEF Served, PairInHand
<1>4. ~Got(cache, batch.dead, Head(batch.need))  BY DEF Fetched, Index
<1>5. Serving(batch'.need, batch'.pc, AtHand, cache', batch'.dead)
    <2>1. batch'.pc # "match" /\ batch.pc # "match"  OBVIOUS
    <2>2. Serving(batch.need, batch'.pc, AtHand, cache, batch.dead)
        BY <1>3, <1>4, <2>1, Zenon DEF Serving
    <2>3. cache' = cache /\ batch'.dead = batch.dead /\ batch'.need = batch.need  BY <1>1
    <2> QED BY <2>2, <2>3, Zenon
<1>6. PairInHand'  BY <1>2, <1>5 DEF PairInHand
<1>7. Ranked(cache, PairsDone) /\ Len(cache) <= Larger(Cache, 2)  BY DEF Served, CacheInOrder
<1>8. CacheInOrder'  BY <1>2, <1>7 DEF CacheInOrder
<1> QED BY <1>2, <1>6, <1>8 DEF Served

(* With the next pair the results are of the past.                         *)
LEMMA LaterRanked ==
    ASSUME NEW c, NEW d \in Nat, Ranked(c, d) PROVE Ranked(c, d + 1)
<1>1. \A i \in DOMAIN c : c[i].used \in 0 .. d + 1  BY DEF Ranked
<1> QED BY <1>1 DEF Ranked

(* A step to the next pair, whose frames are needed all.                   *)
LEMMA PairServed ==
    ASSUME BatchFields, Served, Matching, batch.pc # "finish", lines' = lines, cache' = cache,
           NEW b, Keeps(b, batch, {"done", "failed"}), batch' = NextPair(b)
    PROVE  Served' /\ Matching' /\ PairsDone' = PairsDone + 1
<1>1. /\ PairsSoFar' /\ PairsDone' = PairsDone + 1 /\ Matching'
      /\ batch'.pc \in {"read", "finish"}
      /\ batch'.pc = "read" => batch'.need = AtHand' /\ IsPair(AtHand')
    BY PairAfterPair DEF Served
<1>2. PairsDone \in Nat  BY PairCounts DEF Served
<1>3. Ranked(cache, PairsDone) /\ Len(cache) <= Larger(Cache, 2)  BY DEF Served, CacheInOrder
<1>4. Ranked(cache', PairsDone')
    <2>1. Ranked(cache, PairsDone + 1)  BY <1>2, <1>3, LaterRanked
    <2> QED BY <1>1, <2>1
<1>5. CacheInOrder'  BY <1>1, <1>3, <1>4 DEF CacheInOrder
<1>6. PairInHand'
    <2> SUFFICES ASSUME batch'.pc = "read"
                 PROVE  Serving(batch'.need, batch'.pc, AtHand', cache', batch'.dead)
        BY <1>1 DEF PairInHand
    <2>1. batch'.need = AtHand' /\ IsPair(AtHand')  BY <1>1
    <2>2. \A p : IsPair(p) => p # <<>>
        <3> SUFFICES ASSUME NEW p, IsPair(p) PROVE p # <<>>
            OBVIOUS
        <3> QED BY FramesOfPair
    <2>3. AtHand' # <<>>  BY <2>1, <2>2, Zenon
    <2> QED BY <2>1, <2>3 DEF Serving
<1> QED BY <1>1, <1>5, <1>6 DEF Served

(* What is needed is a frame of the pair in hand.                          *)
LEMMA NeededOfPair ==
    ASSUME BatchFields, Served, Matching, batch.pc \in {"read", "fit", "submit"}
    PROVE  /\ Index \in {AtHand[1], AtHand[2]}
           /\ IsPair(AtHand) /\ PairsDone \in Nat
           /\ Ranked(cache, PairsDone) /\ Len(cache) <= Larger(Cache, 2)
           /\ batch.pc \in {"fit", "submit"} => ~Fetched(Index)
           /\ batch.need = AtHand \/ batch.need = <<AtHand[2]>>
<1>1. IsPair(AtHand) /\ PairsDone \in Nat  BY PairCounts DEF Served
<1>3. Serving(batch.need, batch.pc, AtHand, cache, batch.dead)  BY DEF Served, PairInHand
<1>4. batch.need = AtHand \/ batch.need = <<AtHand[2]>>  BY <1>3 DEF Serving
<1>5. Head(AtHand) = AtHand[1]
    <2>1. \A x, y : Head(<<x, y>>) = x  OBVIOUS
    <2>2. AtHand = <<AtHand[1], AtHand[2]>>  BY <1>1 DEF IsPair
    <2> QED BY <2>1, <2>2, Zenon
<1>6. Head(<<AtHand[2]>>) = AtHand[2]
    <2>1. \A x : Head(<<x>>) = x  OBVIOUS
    <2> QED BY <2>1, Zenon
<1>7. Index \in {AtHand[1], AtHand[2]}  BY <1>4, <1>5, <1>6 DEF Index
<1>8. batch.pc \in {"fit", "submit"} => ~Fetched(Index)  BY <1>3 DEF Serving, Fetched, Index
<1>9. Ranked(cache, PairsDone) /\ Len(cache) <= Larger(Cache, 2)  BY DEF Served, CacheInOrder
<1> QED BY <1>1, <1>4, <1>7, <1>8, <1>9

(* A new result is in the cache, and so is the other of the pair.          *)
LEMMA TakenServed ==
    ASSUME BatchFields, Served, Matching, PTaken
    PROVE  /\ Ranked(cache', PairsDone) /\ Len(cache') <= Larger(Cache, 2)
           /\ \A k \in {AtHand[1], AtHand[2]} : k = Index \/ Has(cache, k) => Has(cache', k)
           /\ \A k \in DOMAIN cache' :
                 cache'[k] = NewResult \/ \E j \in DOMAIN cache : cache'[k] = cache[j]
<1> DEFINE c == Append(cache, NewResult)
           d == PairsDone
           m == Len(cache)
<1>1. batch.pc = "submit" /\ cache' = Evicted(c, AtHand)  BY DEF PTaken
<1>2. /\ Index \in {AtHand[1], AtHand[2]} /\ IsPair(AtHand)
      /\ d \in Nat /\ Ranked(cache, d) /\ m <= Larger(Cache, 2) /\ ~Fetched(Index)
    BY <1>1, NeededOfPair
<1>3. DOMAIN NewResult = {"index", "of", "used"} /\ NewResult.used = d /\ NewResult.index = Index
    BY DEF NewResult
<1>4. \A i \in DOMAIN cache : cache[i].index # NewResult.index
    BY <1>2, <1>3 DEF Fetched, Got, Has
<1> HIDE DEF d
<1>5. Ranked(c, d) /\ Pushed(c, cache, m, NewResult)  BY <1>2, <1>3, <1>4, AddedRanked
<1>6. m \in Nat /\ DOMAIN cache = 1 .. m  BY <1>2 DEF Ranked, Long
<1> HIDE DEF c, m
<1>7. /\ DOMAIN c = 1 .. m + 1 /\ Len(c) = m + 1 /\ c[m + 1] = NewResult
      /\ \A i \in 1 .. m : c[i] = cache[i]
    BY <1>5 DEF Pushed, Long
<1>8. Larger(Cache, 2) \in Nat  BY BatchAssumption DEF Larger
<1>9. Len(c) <= Larger(Cache, 2) + 1  BY <1>2, <1>6, <1>7, <1>8
<1>10. /\ Ranked(cache', d) /\ Len(cache') <= Larger(Cache, 2)
       /\ \A k \in {AtHand[1], AtHand[2]} : Has(c, k) => Has(cache', k)
       /\ \A k \in DOMAIN cache' : \E j \in DOMAIN c : cache'[k] = c[j]
    BY <1>1, <1>2, <1>5, <1>9, EvictedMeans
<1>11. \A i \in 1 .. m : i \in 1 .. m + 1  BY <1>6
<1>12. m + 1 \in 1 .. m + 1 /\ \A i \in 1 .. m + 1 : i = m + 1 \/ i \in 1 .. m  BY <1>6
<1>13. \A k : k = Index \/ Has(cache, k) => Has(c, k)
    BY <1>3, <1>6, <1>7, <1>11, <1>12 DEF Has
<1>14. \A j \in DOMAIN c : c[j] = NewResult \/ \E i \in DOMAIN cache : c[j] = cache[i]
    BY <1>6, <1>7, <1>12
<1>15. ASSUME NEW k \in DOMAIN cache'
       PROVE  cache'[k] = NewResult \/ \E j \in DOMAIN cache : cache'[k] = cache[j]
    <2>1. PICK j \in DOMAIN c : cache'[k] = c[j]  BY <1>10
    <2> QED BY <1>14, <2>1
<1> QED BY <1>10, <1>13, <1>15 DEF d

(* Every step of lightglue_batch serves the pair.                          *)
LEMMA PairsServed ==
    ASSUME BatchFields, Served, Matching, PStep PROVE Served'
<1>1. DOMAIN batch = Slots  BY PairCounts DEF Served, Held
<1>2. Keeps(batch, batch, {"dead"})  BY <1>1 DEF Keeps
<1>4. CASE PSkip
    <2>1. /\ batch.pc \in {"read", "fit", "submit"} /\ batch' = NextNeeded(Lost)
          /\ cache' = cache /\ lines' = lines
        BY <1>4 DEF PSkip, Within, StillRuns, Unmoved
    <2>2. Lost.dead = batch.dead \cup {Index} /\ Keeps(Lost, batch, {"dead"})
        BY <1>1 DEF Lost, Keeps, Slots
    <2>3. Ranked(cache, PairsDone) /\ Len(cache) <= Larger(Cache, 2)  BY <2>1, NeededOfPair
    <2>4. Got(cache', Lost.dead, Index) /\ batch.dead \subseteq Lost.dead  BY <2>2 DEF Got
    <2> QED BY <2>1, <2>2, <2>3, <2>4, NextServed
<1>5. CASE PTaken
    <2>1. batch.pc = "submit" /\ batch' = NextNeeded(batch) /\ lines' = lines
        BY <1>5 DEF PTaken, StillRuns, Unmoved
    <2>2. /\ Ranked(cache', PairsDone) /\ Len(cache') <= Larger(Cache, 2)
          /\ \A k \in {AtHand[1], AtHand[2]} : k = Index \/ Has(cache, k) => Has(cache', k)
        BY <1>5, TakenServed
    <2>3. Index \in {AtHand[1], AtHand[2]}  BY <2>1, NeededOfPair
    <2>4. Got(cache', batch.dead, Index)  BY <2>2, <2>3 DEF Got
    <2> QED BY <1>2, <2>1, <2>2, <2>4, NextServed
<1>6. CASE PPassed
    <2>1. /\ batch.pc = "read" /\ batch' = NextNeeded(batch) /\ Index \in batch.dead
          /\ cache' = cache /\ lines' = lines
        BY <1>6 DEF PPassed, Within, StillRuns, Unmoved
    <2>2. Ranked(cache, PairsDone) /\ Len(cache) <= Larger(Cache, 2)  BY <2>1, NeededOfPair
    <2>3. Got(cache', batch.dead, Index)  BY <2>1 DEF Got
    <2> QED BY <1>2, <2>1, <2>2, <2>3, NextServed
<1>7. CASE PRecall
    <2>1. /\ batch.pc = "read" /\ batch' = NextNeeded(batch) /\ Cached(Index)
          /\ cache' = Refreshed(Index) /\ lines' = lines
        BY <1>7 DEF PRecall, StillRuns, Unmoved
    <2>2. Ranked(cache, PairsDone) /\ Len(cache) <= Larger(Cache, 2) /\ PairsDone \in Nat
        BY <2>1, NeededOfPair
    <2>3. /\ Ranked(cache', PairsDone) /\ Len(cache') = Len(cache)
          /\ \A k : Has(cache, k) => Has(cache', k)
        BY <2>1, <2>2, RefreshedRanked
    <2>4. Got(cache', batch.dead, Index)  BY <2>1, <2>3 DEF Got, Cached, Has
    <2> QED BY <1>2, <2>1, <2>2, <2>3, <2>4, NextServed
<1>8. CASE PRetry \/ PDecoded \/ PPlanned
    <2> DEFINE S == {"pc", "attempt", "plan", "hand"}
    <2>1. cache' = cache /\ lines' = lines /\ batch.pc \in {"read", "fit", "submit"}
        BY <1>8 DEF PRetry, FRetry, PDecoded, Decoded, PPlanned, Planned, StillRuns, Unmoved
    <2>2. ~Fetched(Index)
        BY <1>8, <2>1, NeededOfPair DEF PRetry, FRetry, PDecoded, PPlanned, Planned
    <2>3. CASE PRetry
        <3>1. batch' = [batch EXCEPT !.attempt = 1, !.pc = "fit"]
            BY <2>3 DEF PRetry, FRetry, Retried
        <3>2. Keeps(batch', batch, S) /\ batch'.pc = "fit"  BY <1>1, <3>1 DEF Keeps, Slots
        <3> QED BY <2>1, <2>2, <3>2, StayServed
    <2>4. CASE PDecoded
        <3>1. batch' = [batch EXCEPT !.pc = IF batch.name \in Fits THEN "fit" ELSE "submit"]
            BY <2>4 DEF PDecoded, Decoded
        <3>2. Keeps(batch', batch, S) /\ batch'.pc \in {"fit", "submit"}
            BY <1>1, <3>1 DEF Keeps, Slots
        <3> QED BY <2>1, <2>2, <3>2, StayServed
    <2>5. CASE PPlanned
        <3>1. batch' = [batch EXCEPT !.plan = PlanNow, !.pc = "submit"]
            BY <2>5 DEF PPlanned, Planned
        <3>2. Keeps(batch', batch, S) /\ batch'.pc = "submit"  BY <1>1, <3>1 DEF Keeps, Slots
        <3> QED BY <2>1, <2>2, <3>2, StayServed
    <2> QED BY <1>8, <2>3, <2>4, <2>5
<1>9. CASE PLeft \/ PMatched \/ PFailed
    <2>1. batch.pc # "finish" /\ cache' = cache /\ lines' = lines
        BY <1>9 DEF PLeft, PMatched, PFailed, Within, StillRuns, Unmoved
    <2>2. ASSUME NEW b, Keeps(b, batch, {"done", "failed"}), batch' = NextPair(b) PROVE Served'
        BY <2>1, <2>2, PairServed
    <2>3. CASE PLeft
        <3>1. Keeps(batch, batch, {"done", "failed"})  BY <1>1 DEF Keeps
        <3> QED BY <2>2, <2>3, <3>1 DEF PLeft
    <2>4. CASE PMatched
        <3> DEFINE b == [batch EXCEPT !.done = @ + 1]
        <3>1. Keeps(b, batch, {"done", "failed"})  BY <1>1 DEF Keeps
        <3>2. batch' = NextPair(b)  BY <2>4 DEF PMatched
        <3> HIDE DEF b
        <3> QED BY <2>2, <3>1, <3>2
    <2>5. CASE PFailed
        <3> DEFINE b == [batch EXCEPT !.failed = @ + 1]
        <3>1. Keeps(b, batch, {"done", "failed"})  BY <1>1 DEF Keeps
        <3>2. batch' = NextPair(b)  BY <2>5 DEF PFailed
        <3> HIDE DEF b
        <3> QED BY <2>2, <3>1, <3>2
    <2> QED BY <1>9, <2>3, <2>4, <2>5
<1>10. CASE PBroken
    <2>1. /\ batch' = [batch EXCEPT !.error = TRUE, !.pc = "finish"]
          /\ cache' = cache /\ lines' = lines
        BY <1>10 DEF PBroken, Within, StillRuns, Unmoved
    <2>2. /\ batch'.name = batch.name /\ batch'.todo = batch.todo /\ batch'.pairs = batch.pairs
          /\ batch'.error = TRUE /\ batch'.pc = "finish"
        BY <1>1, <2>1 DEF Slots
    <2>3. SameList  BY <2>1, ListStays
    <2>4. PairsDone' = PairsDone /\ Matching'  BY <2>2 DEF PairsDone, Matching, Running
    <2>5. Parses(lines) /\ batch.pairs = AllPairs /\ Follows(batch.todo, AllPairs, PairsDone)
        BY DEF Served, PairsSoFar
    <2>6. Parses(lines') /\ batch'.pairs = AllPairs' /\ Follows(batch'.todo, AllPairs', PairsDone')
        BY <2>1, <2>2, <2>3, <2>4, <2>5 DEF SameList
    <2>7. PairsSoFar'  BY <2>2, <2>4, <2>6, PairsNow
    <2>8. PairInHand'  BY <2>2 DEF PairInHand
    <2>9. CacheInOrder'  BY <2>1, <2>4 DEF Served, CacheInOrder
    <2> QED BY <2>7, <2>8, <2>9 DEF Served
<1>11. CASE PFinish \/ PNoHeader \/ PKilled
    <2>1. cache' = <<>> /\ \E how : Ended(how)
        BY <1>11 DEF PFinish, PNoHeader, PKilled
    <2>2. ~Matching'  BY <2>1, EndedFiles
    <2> QED BY <2>1, <2>2, EndServed
<1> QED BY <1>4, <1>5, <1>6, <1>7, <1>8, <1>9, <1>10, <1>11 DEF PStep

(* Another program does not turn into lightglue_batch.                     *)
LEMMA FramesOff ==
    ASSUME BatchFields, OverFrames, FStep
    PROVE  ~Matching'
<1>1. ~Matching  BY DEF OverFrames, Matching, Running
<1>2. DOMAIN batch = Slots  BY DEF BatchFields, OverFrames, Held
<1>3. batch.pc # "finish" => Long(batch.todo, Len(batch.todo)) /\ batch.todo # <<>>
    BY DEF BatchFields, OverFrames, Held
<1>4. CASE batch'.name = batch.name
    BY <1>1, <1>4 DEF Matching, Running
<1>5. ASSUME NEW b, DOMAIN b = Slots, b.name = batch.name, b.todo = batch.todo,
             batch' = NextFile(b), batch.pc # "finish"
      PROVE  batch'.name = batch.name
    <2>1. WithTodo(batch', b)  BY <1>3, <1>5, NextFileMeans
    <2> QED BY <1>5, <2>1 DEF WithTodo, Keeps, Slots
<1>6. CASE FSkip
    BY <1>2, <1>4, <1>5, <1>6 DEF FSkip
<1>7. CASE FRow
    <2> DEFINE b == [batch EXCEPT !.rows = Append(@, [stem |-> InHand.stem, of |-> Hand])]
    <2>1. DOMAIN b = Slots /\ b.name = batch.name /\ b.todo = batch.todo
        BY <1>2 DEF Slots
    <2>2. batch' = NextFile(b) /\ batch.pc # "finish"  BY <1>7 DEF FRow
    <2> HIDE DEF b
    <2> QED BY <1>4, <1>5, <2>1, <2>2
<1>8. CASE FWrite
    <2> DEFINE b == [batch EXCEPT !.done = @ + 1]
    <2>1. DOMAIN b = Slots /\ b.name = batch.name /\ b.todo = batch.todo
        BY <1>2 DEF Slots
    <2>2. batch' = NextFile(b) /\ batch.pc # "finish"  BY <1>8 DEF FWrite
    <2> HIDE DEF b
    <2> QED BY <1>4, <1>5, <2>1, <2>2
<1>9. CASE FRetry \/ Decoded \/ Planned \/ FHand
    BY <1>2, <1>4, <1>9 DEF FRetry, Retried, Decoded, Planned, FHand, Slots
<1>10. CASE FAbort \/ FTorn("failed") \/ FTorn("killed") \/ FFinish \/ FRows \/ FNoRows \/ FKilled
    BY <1>10, EndedFiles DEF FAbort, FTorn, FFinish, FRows, FNoRows, FKilled
<1> QED BY <1>6, <1>7, <1>8, <1>9, <1>10 DEF FStep

(* The other programs leave the cache empty.                               *)
LEMMA FramesServed ==
    ASSUME BatchFields, Served, OverFrames, FStep, cache' = cache \/ cache' = <<>>
    PROVE  Served'
<1>1. ~Matching  BY DEF OverFrames, Matching, Running
<1>2. cache' = <<>>  BY <1>1 DEF Served, CacheInOrder
<1> QED BY <1>2, FramesOff, EndServed

(* lightglue_batch starts with the first pair and nothing in the cache.    *)
LEMMA StartServed ==
    ASSUME BatchFields, Served, batch.name = "none", SStep
    PROVE  Served'
<1>1. PICK p \in Programs :
          /\ status[p] = "none" /\ cache' = cache /\ Unmoved
          /\ \/ \E e \in Extractors : Begins(p, e)
             \/ p = "lightglue" /\ \E e \in Extractors : BeginsPairs(e)
             \/ Refuses(p)
    BY DEF SStep
<1>2. dir \in Directories /\ lines \in PairLists /\ lines' = lines  BY <1>1 DEF BatchFields, Unmoved
<1>3. ~Matching  BY DEF Matching, Running
<1>4. cache' = <<>>  BY <1>1, <1>3 DEF Served, CacheInOrder
<1>5. ASSUME NEW e \in Extractors, Begins(p, e) PROVE Served'
    <2>1. batch'.name = p /\ p # "lightglue"  BY <1>2, <1>5, BegunHeld DEF Begins
    <2>2. ~Matching'  BY <2>1 DEF Matching, Running
    <2> QED BY <1>4, <2>2, EndServed
<1>6. CASE Refuses(p)
    <2>1. ~Matching'  BY <1>6 DEF Refuses, Matching, Running
    <2> QED BY <1>4, <2>1, EndServed
<1>7. ASSUME NEW e \in Extractors, BeginsPairs(e) PROVE Served'
    <2>1. /\ batch'.name = "lightglue"
          /\ batch'.todo = AllPairs /\ batch'.pairs = AllPairs
          /\ Long(AllPairs, Len(AllPairs))
          /\ batch'.pc = IF AllPairs = <<>> THEN "finish" ELSE "read"
          /\ AllPairs # <<>> => batch'.need = AllPairs[1]
          /\ batch'.error = FALSE
        BY <1>2, <1>7, PairsBegunHeld
    <2>2. Matching' /\ SameList /\ Parses(lines)
        BY <1>2, <1>7, <2>1, ListStays DEF Matching, Running, BeginsPairs
    <2>3. Len(AllPairs) \in Nat  BY <2>1 DEF Long
    <2>4. PairsDone' = 0
        <3>1. PairsDone' = Len(AllPairs) - Len(AllPairs)  BY <2>1 DEF PairsDone
        <3> QED BY <2>3, <3>1
    <2>5. Follows(batch'.todo, AllPairs', PairsDone')
        <3>1. \A j \in 1 .. Len(AllPairs) : AllPairs[j] = AllPairs[0 + j]  BY <2>3
        <3>2. Follows(AllPairs, AllPairs, 0)  BY <3>1 DEF Follows
        <3> QED BY <2>1, <2>2, <2>4, <3>2 DEF SameList
    <2>6. PairsSoFar'
        <3>1. Parses(lines') /\ batch'.pairs = AllPairs'  BY <1>2, <2>1, <2>2 DEF SameList
        <3> QED BY <2>1, <2>2, <2>5, <3>1, PairsNow
    <2>7. PairInHand'
        <3> SUFFICES ASSUME AllPairs # <<>>
                     PROVE  Serving(batch'.need, batch'.pc, AtHand', cache', batch'.dead)
            BY <2>1 DEF PairInHand
        <3> DEFINE k == Len(AllPairs)
        <3>1. Long(AllPairs, k)  BY <2>1
        <3>2. k > 0
            <4>1. k # 0  BY <3>1, EmptyMeans
            <4> QED BY <2>3, <4>1
        <3> HIDE DEF k
        <3>3. Rest(Tail(AllPairs), AllPairs, k)  BY <3>1, <3>2, TailMeans
        <3>4. AtHand' = AllPairs[1]  BY <2>1, <3>3 DEF Rest, AtHand
        <3>5. Lists(AllPairs, PairsIn(lines)) /\ (\A q \in PairsIn(lines) : IsPair(q))
            BY <1>2, <2>2, PairsListed
        <3>6. k = Cardinality(PairsIn(lines)) /\ 1 \in 1 .. k
            <4>1. k = Cardinality(PairsIn(lines))  BY <3>1, <3>5 DEF Lists, Long
            <4>2. k \in Nat  BY <2>3 DEF k
            <4> QED BY <3>2, <4>1, <4>2
        <3>7. AllPairs[1] \in PairsIn(lines)  BY <3>5, <3>6 DEF Lists
        <3>8. AllPairs[1] # <<>>  BY <3>5, <3>7, FramesOfPair
        <3>9. batch'.need = AtHand' /\ AtHand' # <<>> /\ batch'.pc = "read"
            BY <2>1, <3>4, <3>8
        <3> QED BY <3>9 DEF Serving
    <2>8. CacheInOrder'
        <3>1. Len(<<>>) = 0 /\ DOMAIN <<>> = {} /\ Long(<<>>, Len(<<>>))  BY DEF Long
        <3>2. Ranked(<<>>, 0)  BY <3>1 DEF Ranked
        <3>3. 0 <= Larger(Cache, 2)  BY BatchAssumption DEF Larger
        <3> QED BY <1>4, <2>2, <2>4, <3>1, <3>2, <3>3 DEF CacheInOrder
    <2> QED BY <2>6, <2>7, <2>8 DEF Served
<1> QED BY <1>1, <1>5, <1>6, <1>7

------------------------------------------------------------------------------
(* The records of lightglue_batch. As many pairs are asked for as are      *)
(* listed.                                                                 *)
LEMMA AskedCount ==
    ASSUME lines \in PairLists, Parses(lines)
    PROVE  /\ AskedFor = {{p[1], p[2]} : p \in PairsIn(lines)}
           /\ Cardinality(AskedFor) = Cardinality(PairsIn(lines))
           /\ Cardinality(PairsIn(lines)) \in Nat
<1> DEFINE S == PairsIn(lines)
           f == [p \in S |-> {p[1], p[2]}]
<1>1. IsFiniteSet(S) /\ \A p \in S : IsPair(p)  BY PairsListed
<1>2. ASSUME NEW l \in ToSet(lines)
      PROVE  Ordered(l) \in S /\ {Ordered(l)[1], Ordered(l)[2]} = {l[1], l[2]}
    BY OrderedIs DEF PairsIn
<1>3. \A p \in S : \E l \in ToSet(lines) : p = Ordered(l)  BY DEF PairsIn
<1> HIDE DEF S
<1>4. AskedFor = {{p[1], p[2]} : p \in S}
    BY <1>2, <1>3 DEF AskedFor
<1>5. f \in [S -> AskedFor]  BY <1>4
<1>6. \A p, q \in S : f[p] = f[q] => p = q
    <2> SUFFICES ASSUME NEW p \in S, NEW q \in S, f[p] = f[q] PROVE p = q
        OBVIOUS
    <2>1. {p[1], p[2]} = {q[1], q[2]}
        <3>1. f[p] = {p[1], p[2]} /\ f[q] = {q[1], q[2]}  OBVIOUS
        <3> QED BY <3>1
    <2>2. /\ p[1] \in Nat /\ p[2] \in Nat /\ p[1] < p[2] /\ p = <<p[1], p[2]>>
          /\ q[1] \in Nat /\ q[2] \in Nat /\ q[1] < q[2] /\ q = <<q[1], q[2]>>
        BY <1>1 DEF IsPair
    <2>3. p[1] = q[1] /\ p[2] = q[2]
        <3>1. (p[1] = q[1] /\ p[2] = q[2]) \/ (p[1] = q[2] /\ p[2] = q[1])  
            BY <2>1, <2>2
        <3> QED BY <2>2, <3>1
    <2> QED BY <2>2, <2>3, Zenon
<1>7. \A y \in AskedFor : \E p \in S : f[p] = y  BY <1>4
<1>8. f \in Injection(S, AskedFor) /\ f \in Surjection(S, AskedFor)
    BY <1>5, <1>6, <1>7 DEF Injection, IsInjective, Surjection
<1>9. f \in Bijection(S, AskedFor)  BY <1>8 DEF Bijection
<1> HIDE DEF f
<1>10. Cardinality(AskedFor) = Cardinality(S)  BY <1>1, <1>9, FS_Bijection DEF ExistsBijection
<1>11. Cardinality(S) \in Nat  BY <1>1, FS_CardinalityType
<1> QED BY <1>4, <1>10, <1>11 DEF S

(* Each record is of a pair of its own that was asked for.                 *)
LEMMA RecordsCount ==
    ASSUME lines \in PairLists, Parses(lines), NEW R, NEW d \in Nat, d <= Len(AllPairs),
           RecordsOf(R, AllPairs, d)
    PROVE  Unordered(R) \subseteq AskedFor /\ Cardinality(Unordered(R)) = Len(R)
<1> DEFINE m == Len(R)
           f == [k \in 1 .. m |-> {R[k].pair[1], R[k].pair[2]}]
           U == Unordered(R)
<1>1. m \in Nat /\ DOMAIN R = 1 .. m  BY DEF RecordsOf, Long
<1>2. Lists(AllPairs, PairsIn(lines)) /\ (\A p \in PairsIn(lines) : IsPair(p))
    BY PairsListed
<1>3. /\ Len(AllPairs) \in Nat
      /\ \A i \in 1 .. Len(AllPairs) : AllPairs[i] \in PairsIn(lines)
    <2>1. Len(AllPairs) = Cardinality(PairsIn(lines)) /\ Len(AllPairs) \in Nat
        BY <1>2 DEF Lists, Long
    <2> QED BY <1>2, <2>1 DEF Lists
<1>4. \A i \in 1 .. d : i \in 1 .. Len(AllPairs)  BY <1>3
<1>5. \A k \in 1 .. m : R[k].pair \in PairsIn(lines) /\ IsPair(R[k].pair)
    BY <1>2, <1>3, <1>4 DEF RecordsOf
<1>6. U = {{R[k].pair[1], R[k].pair[2]} : k \in 1 .. m}
    BY <1>1 DEF Unordered, ToSet
<1>7. U \subseteq AskedFor
    BY <1>5, <1>6, AskedCount
<1>8. f \in [1 .. m -> U]  BY <1>6
<1>9. \A k, l \in 1 .. m : f[k] = f[l] => k = l
    <2> SUFFICES ASSUME NEW k \in 1 .. m, NEW l \in 1 .. m, f[k] = f[l] PROVE k = l
        OBVIOUS
    <2> DEFINE p == R[k].pair
               q == R[l].pair
    <2>1. {p[1], p[2]} = {q[1], q[2]}
        <3>1. f[k] = {p[1], p[2]} /\ f[l] = {q[1], q[2]}  OBVIOUS
        <3> QED BY <3>1
    <2>2. IsPair(p) /\ IsPair(q)  BY <1>5
    <2>3. p = q => k = l  BY DEF RecordsOf
    <2> HIDE DEF p, q
    <2>4. /\ p[1] \in Nat /\ p[2] \in Nat /\ p[1] < p[2] /\ p = <<p[1], p[2]>>
          /\ q[1] \in Nat /\ q[2] \in Nat /\ q[1] < q[2] /\ q = <<q[1], q[2]>>
        BY <2>2 DEF IsPair
    <2>5. p[1] = q[1] /\ p[2] = q[2]
        <3>1. (p[1] = q[1] /\ p[2] = q[2]) \/ (p[1] = q[2] /\ p[2] = q[1])  
            BY <2>1, <2>4
        <3> QED BY <2>4, <3>1
    <2>6. p = q  BY <2>4, <2>5, Zenon
    <2> QED BY <2>3, <2>6
<1>10. \A y \in U : \E k \in 1 .. m : f[k] = y  BY <1>6
<1>11. f \in Bijection(1 .. m, U)
    BY <1>8, <1>9, <1>10 DEF Bijection, Injection, IsInjective, Surjection
<1> HIDE DEF f, U, m
<1>12. IsFiniteSet(1 .. m) /\ Cardinality(1 .. m) = m
    <2>1. 1 \in Int /\ m \in Int  BY <1>1
    <2>2. /\ IsFiniteSet(1 .. m)
          /\ Cardinality(1 .. m) = IF 1 > m THEN 0 ELSE m - 1 + 1
        BY ONLY <2>1, FS_Interval
    <2> QED BY <1>1, <2>2
<1>13. Cardinality(U) = m  BY <1>11, <1>12, FS_Bijection DEF ExistsBijection
<1> QED BY <1>7, <1>13 DEF U, m

(* A record more.                                                          *)
LEMMA RecordMore ==
    ASSUME NEW R, NEW s, NEW d \in Nat, RecordsOf(R, s, d), NEW rec, rec.pair = s[d + 1],
           \A i, j \in 1 .. d + 1 : s[i] = s[j] => i = j
    PROVE  /\ RecordsOf(Append(R, rec), s, d + 1) /\ Len(Append(R, rec)) = Len(R) + 1
           /\ Pushed(Append(R, rec), R, Len(R), rec)
<1> DEFINE m == Len(R)
           Q == Append(R, rec)
<1>1. m \in Nat /\ Long(R, m) /\ DOMAIN R = 1 .. m  BY DEF RecordsOf, Long
<1>2. Pushed(Q, R, m, rec)  BY <1>1, PushMeans, Zenon
<1>3. \A k \in 1 .. m : \E i \in 1 .. d : R[k].pair = s[i]  BY DEF RecordsOf
<1>4. \A k, l \in 1 .. m : R[k].pair = R[l].pair => k = l  BY DEF RecordsOf
<1> HIDE DEF m, Q
<1>5. Long(Q, m + 1) /\ Q[m + 1] = rec /\ \A k \in 1 .. m : Q[k] = R[k]  BY <1>2 DEF Pushed
<1>6. Len(Q) = m + 1  BY <1>5 DEF Long
<1>7. \A k \in 1 .. m + 1 : k = m + 1 \/ k \in 1 .. m  BY <1>1
<1>8. \A i \in 1 .. d : i \in 1 .. d + 1 /\ i # d + 1  OBVIOUS
<1>9. d + 1 \in 1 .. d + 1  OBVIOUS
<1>10. \A k \in 1 .. m + 1 : \E i \in 1 .. d + 1 : Q[k].pair = s[i]
    BY <1>3, <1>5, <1>7, <1>8, <1>9
<1>11. \A k \in 1 .. m : R[k].pair # rec.pair
    BY <1>3, <1>8, <1>9
<1>12. \A k, l \in 1 .. m + 1 : Q[k].pair = Q[l].pair => k = l
    <2> SUFFICES ASSUME NEW k \in 1 .. m + 1, NEW l \in 1 .. m + 1, Q[k].pair = Q[l].pair
                 PROVE  k = l
        OBVIOUS
    <2>1. CASE k \in 1 .. m /\ l \in 1 .. m
        BY <1>4, <1>5, <2>1
    <2>2. CASE k = m + 1 /\ l \in 1 .. m
        BY <1>5, <1>11, <2>2
    <2>3. CASE k \in 1 .. m /\ l = m + 1
        BY <1>5, <1>11, <2>3
    <2> QED BY <1>7, <2>1, <2>2, <2>3
<1>13. RecordsOf(Q, s, d + 1)  BY <1>5, <1>6, <1>10, <1>12 DEF RecordsOf
<1> QED BY <1>2, <1>6, <1>13 DEF m, Q

(* The records stay as they are when the pairs go on.                      *)
LEMMA LaterRecords ==
    ASSUME NEW R, NEW s, NEW d \in Nat, RecordsOf(R, s, d) PROVE RecordsOf(R, s, d + 1)
<1>1. \A i \in 1 .. d : i \in 1 .. d + 1  OBVIOUS
<1> QED BY <1>1 DEF RecordsOf

Outputs == RecordsSoFar /\ MatchesComplete

(* A step that leaves the records alone.                                   *)
LEMMA SameRecords ==
    ASSUME BatchFields, Served, Outputs, Matching, Matching', PairsDone' = PairsDone,
           status' = status, files' = files, lines' = lines,
           batch'.engine = batch.engine, batch'.done = batch.done, batch'.failed = batch.failed,
           batch'.dead = {} /\ ~batch'.error => batch.dead = {} /\ ~batch.error
    PROVE  Outputs'
<1>1. AllPairs' = AllPairs  BY ListStays DEF SameList
<1>2. Output' = Output /\ AskedFor' = AskedFor  BY DEF Output, AskedFor
<1>3. /\ OutputOf(Output) /\ Output.n = 0 /\ Output.fp = batch.engine.fp
      /\ RecordsOf(Output.records, AllPairs, PairsDone)
      /\ Len(Output.records) = batch.done
      /\ batch.dead = {} /\ ~batch.error => batch.done + batch.failed = PairsDone
    BY DEF Outputs, RecordsSoFar
<1>4. RecordsSoFar'  BY <1>1, <1>2, <1>3 DEF RecordsSoFar
<1>5. MatchesComplete'  BY <1>2 DEF Outputs, MatchesComplete
<1> QED BY <1>4, <1>5 DEF Outputs

(* Where lightglue_batch does not run, nor begin, its output stays.        *)
LEMMA OutputStays ==
    ASSUME Outputs, ~Matching', files'["lightglue"] = files["lightglue"], lines' = lines,
           status'["lightglue"] = "ok" => status["lightglue"] = "ok"
    PROVE  Outputs'
<1>1. Output' = Output /\ AskedFor' = AskedFor  BY DEF Output, AskedFor
<1>2. RecordsSoFar'  BY <1>1 DEF Outputs, RecordsSoFar
<1>3. MatchesComplete'  BY <1>1 DEF Outputs, MatchesComplete
<1> QED BY <1>2, <1>3 DEF Outputs

(* The programs over frames leave the matches alone.                       *)
LEMMA FramesOutput ==
    ASSUME BatchFields, Outputs, OverFrames, FStep
    PROVE  Outputs'
<1>1. OthersStay  BY FramesOthers
<1>2. lines' = lines
    BY DEF FStep, FSkip, FRetry, FAbort, Decoded, Planned, FRow, FHand, FWrite, FTorn, FFinish,
           FRows, FNoRows, FKilled, StillRuns, Unmoved
<1>3. files'["lightglue"] = files["lightglue"] /\ status'["lightglue"] = status["lightglue"]
    BY <1>1 DEF OthersStay, OverFrames, Programs
<1> QED BY <1>2, <1>3, FramesOff, OutputStays

(* A step to the next pair.                                                *)
LEMMA PairRecords ==
    ASSUME BatchFields, Served, Outputs, Matching, batch.pc = "match",
           NEW b, Keeps(b, batch, {"done", "failed"}), batch' = NextPair(b), StillRuns,
           OutputOf(Output'), Output'.n = 0, Output'.fp = batch.engine.fp,
           RecordsOf(Output'.records, AllPairs, PairsDone + 1),
           Len(Output'.records) = b.done,
           batch.dead = {} => b.done + b.failed = PairsDone + 1
    PROVE  Outputs'
<1>1. /\ PairsDone' = PairsDone + 1 /\ Matching' /\ SameList
      /\ \A x \in Slots \ {"todo", "need", "pc"} : batch'[x] = b[x]
    BY PairAfterPair DEF Served, StillRuns, Unmoved
<1>2. /\ batch'.done = b.done /\ batch'.failed = b.failed /\ batch'.dead = batch.dead
      /\ batch'.engine = batch.engine /\ batch'.error = batch.error
    BY <1>1 DEF Keeps, Slots
<1>3. RecordsSoFar'
    BY <1>1, <1>2 DEF RecordsSoFar, SameList
<1>4. status'["lightglue"] # "ok"
    <2>1. status["lightglue"] = "running"  BY DEF BatchFields, Matching, Running, Programs
    <2> QED BY <2>1 DEF StillRuns
<1>5. MatchesComplete'  BY <1>4 DEF MatchesComplete
<1> QED BY <1>3, <1>5 DEF Outputs

(* A frame of the pair that is not in the cache is dead.                   *)
LEMMA LeftIsDead ==
    ASSUME BatchFields, Served, Matching, batch.pc = "match", ~BothCached
    PROVE  batch.dead # {}
<1>1. Serving(batch.need, batch.pc, AtHand, cache, batch.dead)  BY DEF Served, PairInHand
<1>2. IsPair(AtHand)  BY PairCounts DEF Served
<1>3. AtHand # <<>>  BY <1>2, FramesOfPair
<1>4. batch.need = <<>>  BY <1>1 DEF Serving
<1>5. Got(cache, batch.dead, AtHand[1]) /\ Got(cache, batch.dead, AtHand[2])
    BY <1>1, <1>3, <1>4 DEF Serving
<1> QED BY <1>5 DEF Got, BothCached, Cached, Has

(* A success counts all its records, and they are of all the pairs but the *)
(* tolerated.                                                              *)
LEMMA VerdictSound ==
    ASSUME BatchFields, Served, Outputs, Matching, batch.pc = "finish", Verdict = "ok"
    PROVE  MatchedAll(Output.records, AskedFor)
<1>1. /\ ~batch.error /\ batch.pairs # <<>> /\ batch.dead = {}
      /\ ~(100 * batch.failed > Tolerated * Len(batch.pairs))
    BY DEF Verdict
<1>2. batch.todo = <<>> /\ batch.pairs = AllPairs  BY <1>1 DEF Served, PairsSoFar
<1>3. /\ PairsDone \in Nat /\ Len(AllPairs) = PairsDone + Len(batch.todo)
      /\ Held(batch) /\ Parses(lines) /\ lines \in PairLists
      /\ Len(AllPairs) = Cardinality(PairsIn(lines)) /\ Long(AllPairs, Len(AllPairs))
    BY PairCounts DEF Served
<1> DEFINE N == PairsDone
           R == Output.records
<1>4. Len(AllPairs) = N
    <2>1. Len(batch.todo) = 0  BY <1>2
    <2> QED BY <1>3, <2>1
<1>5. RecordsOf(R, AllPairs, N) /\ Len(R) = batch.done /\ batch.done + batch.failed = N
    BY <1>1 DEF Outputs, RecordsSoFar
<1>6. N \in Nat /\ batch.done \in Nat /\ batch.failed \in Nat  BY <1>3 DEF Held
<1> HIDE DEF N, R
<1>7. Cardinality(AskedFor) = N  BY <1>3, <1>4, AskedCount
<1>8. Unordered(R) \subseteq AskedFor /\ Cardinality(Unordered(R)) = Len(R)
    BY <1>3, <1>4, <1>5, <1>6, RecordsCount
<1>9. AskedFor # {}
    <2>1. N # 0
        <3>1. Long(AllPairs, N)  BY <1>3, <1>4
        <3> QED BY <1>1, <1>2, <3>1, EmptyMeans
    <2>2. AskedFor = {} => Cardinality(AskedFor) = 0  BY FS_EmptySet
    <2> QED BY <1>7, <2>1, <2>2
<1>10. 100 * (Cardinality(AskedFor) - Len(R)) <= Tolerated * Cardinality(AskedFor)
    <2>1. Cardinality(AskedFor) - Len(R) = batch.failed  BY <1>5, <1>6, <1>7
    <2>2. ~(100 * batch.failed > Tolerated * N)  BY <1>1, <1>2, <1>4
    <2> DEFINE t == Tolerated * N
    <2>3. t \in Nat  BY <1>6, BatchAssumption
    <2>4. 100 * batch.failed \in Nat  BY <1>6
    <2> HIDE DEF t
    <2>5. 100 * batch.failed <= t  BY <2>2, <2>3, <2>4 DEF t
    <2> QED BY <1>7, <2>1, <2>5 DEF t
<1> QED BY <1>8, <1>9, <1>10 DEF MatchedAll, R

(* Every step of lightglue_batch keeps its file in order.                  *)
LEMMA PairsOutput ==
    ASSUME BatchFields, Served, Outputs, Matching, PStep PROVE Outputs'
<1>1. DOMAIN batch = Slots /\ batch.name = "lightglue" /\ "lightglue" \in DOMAIN files
      /\ batch.done \in Nat /\ batch.failed \in Nat
    <2>1. Held(batch)  BY PairCounts DEF Served
    <2> QED BY <2>1 DEF Held, Matching, Running, BatchFields, Programs
<1>2. /\ OutputOf(Output) /\ Output.n = 0 /\ Output.fp = batch.engine.fp
      /\ RecordsOf(Output.records, AllPairs, PairsDone)
      /\ Len(Output.records) = batch.done
      /\ batch.dead = {} /\ ~batch.error => batch.done + batch.failed = PairsDone
      /\ PairsDone \in Nat
    BY PairCounts DEF Outputs, RecordsSoFar, Served
<1>3. ASSUME NEW b, Keeps(b, batch, {"dead"}), batch.dead \subseteq b.dead,
             batch' = NextNeeded(b), StillRuns, files' = files
      PROVE  Outputs'
    <2>1. DOMAIN b = Slots /\ \A x \in Slots \ {"dead"} : b[x] = batch[x]  BY <1>3 DEF Keeps
    <2>2. /\ b.name = batch.name /\ b.todo = batch.todo /\ b.pairs = batch.pairs
          /\ b.error = batch.error /\ b.engine = batch.engine
          /\ b.done = batch.done /\ b.failed = batch.failed
        BY <2>1 DEF Slots
    <2>3. WithNeed(batch', b)  BY <1>3, <2>1, NextNeededMeans
    <2>4. /\ batch'.name = batch.name /\ batch'.todo = batch.todo /\ batch'.pairs = batch.pairs
          /\ batch'.error = batch.error /\ batch'.dead = b.dead /\ batch'.engine = batch.engine
          /\ batch'.done = batch.done /\ batch'.failed = batch.failed
        BY <2>2, <2>3 DEF WithNeed, Keeps, Slots
    <2>5. Matching' /\ PairsDone' = PairsDone  BY <2>4 DEF Matching, Running, PairsDone
    <2>6. batch'.dead = {} => batch.dead = {}  BY <1>3, <2>4
    <2> QED BY <1>3, <2>4, <2>5, <2>6, SameRecords DEF StillRuns, Unmoved
<1>4. Keeps(batch, batch, {"dead"})  BY <1>1 DEF Keeps
<1>5. CASE PSkip
    <2>1. Lost.dead = batch.dead \cup {Index} /\ Keeps(Lost, batch, {"dead"})
        BY <1>1 DEF Lost, Keeps, Slots
    <2> QED BY <1>3, <1>5, <2>1 DEF PSkip, Within
<1>6. CASE PTaken \/ PPassed \/ PRecall
    BY <1>3, <1>4, <1>6 DEF PTaken, PPassed, PRecall, Within
<1>7. CASE PRetry \/ PDecoded \/ PPlanned \/ PBroken
    <2>1. files' = files /\ StillRuns
        BY <1>7 DEF PRetry, FRetry, PDecoded, Decoded, PPlanned, Planned, PBroken, Within
    <2>2. /\ batch'.name = batch.name /\ batch'.todo = batch.todo /\ batch'.pairs = batch.pairs
          /\ batch'.dead = batch.dead /\ batch'.engine = batch.engine
          /\ batch'.done = batch.done /\ batch'.failed = batch.failed
          /\ batch'.error = batch.error \/ batch'.error = TRUE
        <3>1. CASE PRetry
            BY <1>1, <3>1 DEF PRetry, FRetry, Retried, Slots
        <3>2. CASE PDecoded
            BY <1>1, <3>2 DEF PDecoded, Decoded, Slots
        <3>3. CASE PPlanned
            BY <1>1, <3>3 DEF PPlanned, Planned, Slots
        <3>4. CASE PBroken
            BY <1>1, <3>4 DEF PBroken, Slots
        <3> QED BY <1>7, <3>1, <3>2, <3>3, <3>4
    <2>3. Matching' /\ PairsDone' = PairsDone  BY <2>2 DEF Matching, Running, PairsDone
    <2>4. batch'.dead = {} /\ ~batch'.error => batch.dead = {} /\ ~batch.error  BY <2>2
    <2> QED BY <2>1, <2>2, <2>3, <2>4, SameRecords DEF StillRuns, Unmoved
<1>8. batch.pc = "match" => ~batch.error  BY DEF Served, PairsSoFar
<1>9. CASE PLeft
    <2>1. batch.pc = "match" /\ ~BothCached /\ batch' = NextPair(batch) /\ StillRuns /\ files' = files
        BY <1>9 DEF PLeft, Within
    <2>2. Keeps(batch, batch, {"done", "failed"})  BY <1>1 DEF Keeps
    <2>3. Output' = Output  BY <2>1 DEF Output
    <2>4. RecordsOf(Output'.records, AllPairs, PairsDone + 1)
        BY <1>2, <2>3, LaterRecords
    <2>5. batch.dead # {}  BY <2>1, LeftIsDead
    <2> QED BY <1>2, <2>1, <2>2, <2>3, <2>4, <2>5, PairRecords
<1>10. CASE PFailed
    <2> DEFINE b == [batch EXCEPT !.failed = @ + 1]
    <2>1. batch.pc = "match" /\ batch' = NextPair(b) /\ StillRuns /\ files' = files
        BY <1>10 DEF PFailed, Within
    <2>2. Keeps(b, batch, {"done", "failed"}) /\ b.done = batch.done /\ b.failed = batch.failed + 1
        BY <1>1 DEF Keeps, Slots
    <2>3. Output' = Output  BY <2>1 DEF Output
    <2>4. RecordsOf(Output'.records, AllPairs, PairsDone + 1)
        BY <1>2, <2>3, LaterRecords
    <2>5. batch.dead = {} => b.done + b.failed = PairsDone + 1
        BY <1>1, <1>2, <1>8, <2>1, <2>2
    <2> HIDE DEF b
    <2> QED BY <1>2, <2>1, <2>2, <2>3, <2>4, <2>5, PairRecords
<1>11. CASE PMatched
    <2> DEFINE b == [batch EXCEPT !.done = @ + 1]
               rec == [pair |-> <<AtHand[1], AtHand[2]>>,
                       of |-> <<ResultOf(AtHand[1]), ResultOf(AtHand[2])>>]
               R == Output.records
               d == PairsDone
    <2>1. batch.pc = "match" /\ batch' = NextPair(b) /\ StillRuns
        BY <1>11 DEF PMatched
    <2>2. files' = [files EXCEPT !["lightglue"].records = Append(@, rec)]
        BY <1>11 DEF PMatched
    <2>3. Keeps(b, batch, {"done", "failed"}) /\ b.done = batch.done + 1 /\ b.failed = batch.failed
        BY <1>1 DEF Keeps, Slots
    <2>4. DOMAIN Output = Headed  BY <1>2 DEF OutputOf
    <2>5. /\ DOMAIN Output' = Headed /\ Output'.n = Output.n /\ Output'.fp = Output.fp
          /\ Output'.records = Append(R, rec)
        BY <1>1, <2>2, <2>4 DEF Output, Headed
    <2>6. IsPair(AtHand) /\ AtHand = AllPairs[d + 1] /\ d + 1 \in 1 .. Len(AllPairs) /\ d \in Nat
          /\ Lists(AllPairs, PairsIn(lines)) /\ Len(AllPairs) = Cardinality(PairsIn(lines))
          /\ Len(AllPairs) \in Nat
        BY <2>1, PairCounts DEF Served, Long
    <2>7. rec.pair = AllPairs[d + 1]
        <3>1. rec.pair = <<AtHand[1], AtHand[2]>>  OBVIOUS
        <3>2. AtHand = <<AtHand[1], AtHand[2]>>  BY <2>6 DEF IsPair
        <3> QED BY <2>6, <3>1, <3>2, Zenon
    <2>8. \A i, j \in 1 .. d + 1 : AllPairs[i] = AllPairs[j] => i = j
        <3>1. \A i \in 1 .. d + 1 : i \in 1 .. Len(AllPairs)  BY <2>6
        <3> QED BY <2>6, <3>1 DEF Lists
    <2>9. RecordsOf(R, AllPairs, d) /\ Len(R) = batch.done  BY <1>2
    <2> HIDE DEF rec, R, d
    <2>10. RecordsOf(Append(R, rec), AllPairs, d + 1) /\ Len(Append(R, rec)) = Len(R) + 1
        BY <2>6, <2>7, <2>8, <2>9, RecordMore
    <2>11. OutputOf(Output') /\ Output'.n = 0
        <3>1. Long(Output'.records, Len(Output'.records)) /\ Len(Output'.records) \in Nat
            BY <2>5, <2>10 DEF RecordsOf, Long
        <3>2. Output'.n = 0 /\ 0 \in 0 .. Len(Output'.records)  BY <1>2, <2>5, <3>1
        <3> QED BY <2>5, <3>1, <3>2 DEF OutputOf
    <2>12. Len(Output'.records) = b.done  BY <2>3, <2>5, <2>9, <2>10
    <2>13. batch.dead = {} => b.done + b.failed = d + 1
        BY <1>1, <1>2, <1>8, <2>1, <2>3 DEF d
    <2>14. RecordsOf(Output'.records, AllPairs, d + 1) /\ Output'.fp = batch.engine.fp
        BY <1>2, <2>5, <2>10
    <2> HIDE DEF b
    <2> QED BY <2>1, <2>3, <2>11, <2>12, <2>13, <2>14, PairRecords DEF d
<1>12. CASE PFinish
    <2>1. batch.pc = "finish" /\ files' = [files EXCEPT !["lightglue"].n = batch.done]
          /\ Ended(Verdict) /\ lines' = lines
        BY <1>12 DEF PFinish, Header, Unmoved
    <2>2. DOMAIN Output = Headed /\ Long(Output.records, Len(Output.records))  BY <1>2 DEF OutputOf
    <2>3. /\ DOMAIN Output' = Headed /\ Output'.n = batch.done
          /\ Output'.records = Output.records
        BY <1>1, <2>1, <2>2 DEF Output, Headed
    <2>4. OutputOf(Output') /\ Output'.n = Len(Output'.records)
        <3>1. batch.done \in 0 .. batch.done  BY <1>1
        <3> QED BY <1>2, <2>2, <2>3, <3>1 DEF OutputOf
    <2>5. ~Matching'  BY <2>1, EndedFiles
    <2>6. RecordsSoFar'  BY <2>4, <2>5 DEF RecordsSoFar
    <2>7. status'["lightglue"] = "ok" => MatchedAll(Output'.records, AskedFor')
        <3>1. status'["lightglue"] = Verdict  BY <1>1, <2>1, EndedOthers DEF Programs
        <3>2. AskedFor' = AskedFor  BY <2>1 DEF AskedFor
        <3> QED BY <2>1, <2>3, <3>1, <3>2, VerdictSound
    <2>8. MatchesComplete'  BY <2>4, <2>7 DEF MatchesComplete
    <2> QED BY <2>6, <2>8 DEF Outputs
<1>13. CASE PNoHeader \/ PKilled
    <2>1. ~Matching'  BY <1>13, EndedFiles DEF PNoHeader, PKilled
    <2>2. OutputOf(Output')
        <3>1. CASE PNoHeader
            <4>1. Output' = Output  BY <3>1 DEF PNoHeader, Output
            <4> QED BY <1>2, <4>1
        <3>2. CASE PKilled
            <4>1. PICK i \in 0 .. Len(Output.records) :
                     files' = [files EXCEPT !["lightglue"].records = SubSeq(@, 1, i)]
                BY <3>2 DEF PKilled
            <4>2. DOMAIN Output = Headed /\ Long(Output.records, Len(Output.records))
                BY <1>2 DEF OutputOf
            <4>3. /\ DOMAIN Output' = Headed /\ Output'.n = Output.n
                  /\ Output'.records = SubSeq(Output.records, 1, i)
                BY <1>1, <4>1, <4>2 DEF Output, Headed
            <4>4. Len(Output.records) \in Nat  BY <4>2 DEF Long
            <4>5. i \in Nat  BY <4>1, <4>4
            <4> DEFINE R == Output.records
            <4> HIDE DEF R
            <4>6. Long(SubSeq(R, 1, i), i)  BY <4>5 DEF Long
            <4>7. Long(Output'.records, i)  BY <4>3, <4>6 DEF R
            <4>8. Len(Output'.records) = i  BY <4>7 DEF Long
            <4>9. Output'.n \in 0 .. i  BY <1>2, <4>3, <4>5
            <4> QED BY <4>3, <4>7, <4>8, <4>9 DEF OutputOf
        <3> QED BY <1>13, <3>1, <3>2
    <2>3. RecordsSoFar'  BY <2>1, <2>2 DEF RecordsSoFar
    <2>4. status'["lightglue"] # "ok"
        <3>1. Ended("failed") \/ Ended("killed")  BY <1>13 DEF PNoHeader, PKilled
        <3> QED BY <1>1, <3>1, EndedOthers DEF Programs
    <2>5. MatchesComplete'  BY <2>4 DEF MatchesComplete
    <2> QED BY <2>3, <2>5 DEF Outputs
<1> QED BY <1>5, <1>6, <1>7, <1>9, <1>10, <1>11, <1>12, <1>13 DEF PStep

(* lightglue_batch starts with an empty file of its own.                   *)
LEMMA StartOutput ==
    ASSUME BatchFields, Served, Outputs, batch.name = "none", SStep
    PROVE  Outputs'
<1>1. PICK p \in Programs :
          /\ status[p] = "none" /\ cache' = cache /\ Unmoved
          /\ \/ \E e \in Extractors : Begins(p, e)
             \/ p = "lightglue" /\ \E e \in Extractors : BeginsPairs(e)
             \/ Refuses(p)
    BY DEF SStep
<1>2. /\ dir \in Directories /\ lines \in PairLists /\ lines' = lines
      /\ DOMAIN files = Programs /\ DOMAIN status = Programs /\ "lightglue" \in Programs
    BY <1>1 DEF BatchFields, Unmoved, Programs
<1>3. ASSUME NEW e \in Extractors, Begins(p, e) PROVE Outputs'
    <2>1. batch'.name = p /\ p # "lightglue"  BY <1>2, <1>3, BegunHeld DEF Begins
    <2>2. ~Matching'  BY <2>1 DEF Matching, Running
    <2>3. files' = files /\ status' = [status EXCEPT ![p] = "running"]  BY <1>3 DEF Begins
    <2>4. status'["lightglue"] = status["lightglue"]  BY <1>2, <2>1, <2>3
    <2> QED BY <1>2, <2>2, <2>3, <2>4, OutputStays
<1>4. CASE Refuses(p)
    <2>1. ~Matching'  BY <1>4 DEF Refuses, Matching, Running
    <2>2. files' = files /\ status' = [status EXCEPT ![p] = "failed"]  BY <1>4 DEF Refuses
    <2>3. status'["lightglue"] = "ok" => status["lightglue"] = "ok"  BY <1>2, <2>2
    <2> QED BY <1>2, <2>1, <2>2, <2>3, OutputStays
<1>5. ASSUME p = "lightglue", NEW e \in Extractors, BeginsPairs(e) PROVE Outputs'
    <2>1. /\ batch'.name = "lightglue" /\ batch'.engine = e
          /\ batch'.todo = AllPairs /\ batch'.pairs = AllPairs
          /\ Long(AllPairs, Len(AllPairs))
          /\ batch'.done = 0 /\ batch'.failed = 0
        BY <1>2, <1>5, PairsBegunHeld
    <2>2. PairsDone' = 0
        <3>1. PairsDone' = Len(AllPairs) - Len(AllPairs)  BY <2>1 DEF PairsDone
        <3>2. Len(AllPairs) \in Nat  BY <2>1 DEF Long
        <3> QED BY <3>1, <3>2
    <2>3. /\ files' = [files EXCEPT !["lightglue"] = [n |-> 0, fp |-> e.fp, records |-> <<>>]]
          /\ status' = [status EXCEPT !["lightglue"] = "running"]
        BY <1>5 DEF BeginsPairs
    <2>4. Output' = [n |-> 0, fp |-> e.fp, records |-> <<>>]  BY <1>2, <2>3 DEF Output
    <2>5. /\ DOMAIN Output' = Headed /\ Output'.n = 0 /\ Output'.fp = batch'.engine.fp
          /\ Output'.records = <<>>
        BY <2>1, <2>4 DEF Headed
    <2>6. Long(<<>>, 0) /\ Len(<<>>) = 0  BY DEF Long
    <2>7. OutputOf(Output')  BY <2>5, <2>6 DEF OutputOf
    <2>8. RecordsOf(Output'.records, AllPairs', PairsDone')  BY <2>5, <2>6 DEF RecordsOf
    <2>9. RecordsSoFar'  BY <2>1, <2>2, <2>5, <2>6, <2>7, <2>8 DEF RecordsSoFar
    <2>10. status'["lightglue"] # "ok"  BY <1>2, <2>3
    <2>11. MatchesComplete'  BY <2>10 DEF MatchesComplete
    <2> QED BY <2>9, <2>11 DEF Outputs
<1> QED BY <1>1, <1>3, <1>4, <1>5

------------------------------------------------------------------------------
(* Everything that holds whatever the names of the frames.                 *)
BatchInv == BatchFields /\ Served /\ Outputs

(* All of it holds before the first program starts.                        *)
LEMMA BatchBegins == ASSUME BatchInit PROVE BatchInv
<1>1. /\ dir \in Directories /\ lines \in PairLists /\ batch = Off /\ cache = <<>>
      /\ files = [p \in Programs |-> <<>>] /\ status = [p \in Programs |-> "none"]
      /\ breaks = <<>>
    BY DEF BatchInit
<1>2. batch.name = "none"  BY <1>1 DEF Off
<1>3. Long(<<>>, 0) /\ Len(<<>>) = 0  BY DEF Long
<1>4. "none" \notin Programs /\ "lightglue" \in Programs  BY DEF Programs
<1>5. BatchFields  BY <1>1, <1>2, <1>3, <1>4 DEF BatchFields
<1>6. ~Matching  BY <1>2 DEF Matching, Running
<1>7. Served  BY <1>1, <1>6 DEF Served, PairsSoFar, PairInHand, CacheInOrder
<1>8. Output = <<>> /\ status["lightglue"] = "none"  BY <1>1, <1>4 DEF Output
<1>9. Outputs  BY <1>6, <1>8 DEF Outputs, RecordsSoFar, MatchesComplete
<1> QED BY <1>5, <1>7, <1>9 DEF BatchInv

(* The three kinds of steps.                                               *)
LEMMA StepKinds ==
    ASSUME BatchInv, BatchNext
    PROVE  \/ OverFrames /\ FStep /\ (cache' = cache \/ cache' = <<>>)
           \/ Matching /\ PStep
           \/ batch.name = "none" /\ SStep
<1>1. BatchFields /\ (Matching => batch.pc # "write")
    BY DEF BatchInv, Served, PairsSoFar
<1>2. OverFrames \/ Matching \/ batch.name = "none"
    BY <1>1 DEF BatchFields, OverFrames, Matching, Running
<1> QED BY <1>1, <1>2, FrameSteps, PairSteps, StartSteps

(* And it holds on.                                                        *)
LEMMA BatchGoesOn ==
    ASSUME BatchInv, [BatchNext]_batchVars PROVE BatchInv'
<1>1. BatchFields /\ Served /\ Outputs  BY DEF BatchInv
<1>2. CASE OverFrames /\ FStep /\ (cache' = cache \/ cache' = <<>>)
    <2>1. batch.pc = "finish" \/ batch.todo # <<>>
        BY <1>1, <1>2 DEF BatchFields, OverFrames, Held
    <2> QED BY <1>1, <1>2, <2>1, FrameFields, FramesServed, FramesOutput DEF BatchInv
<1>3. CASE Matching /\ PStep
    BY <1>1, <1>3, PairFields, PairsServed, PairsOutput DEF BatchInv
<1>4. CASE batch.name = "none" /\ SStep
    BY <1>1, <1>4, StartFields, StartServed, StartOutput DEF BatchInv
<1>5. CASE UNCHANGED batchVars
    <2>1. /\ dir' = dir /\ lines' = lines /\ batch' = batch /\ cache' = cache /\ files' = files
          /\ status' = status /\ breaks' = breaks
        BY <1>5 DEF batchVars
    <2>2. BatchFields'  BY <1>1, <2>1 DEF BatchFields
    <2>3. Matching' = Matching /\ AllPairs' = AllPairs /\ PairsDone' = PairsDone
          /\ AtHand' = AtHand /\ Output' = Output /\ AskedFor' = AskedFor
        BY <2>1, ListStays DEF Matching, Running, SameList, PairsDone, AtHand, Output, AskedFor
    <2>4. Served'  BY <1>1, <2>1, <2>3 DEF Served, PairsSoFar, PairInHand, CacheInOrder
    <2>5. Outputs'  BY <1>1, <2>1, <2>3 DEF Outputs, RecordsSoFar, MatchesComplete
    <2> QED BY <2>2, <2>4, <2>5 DEF BatchInv
<1> QED BY <1>2, <1>3, <1>4, <1>5, StepKinds

------------------------------------------------------------------------------
(* What is written of the frames, where no two of them have one stem.      *)
FilesInv == FilesSoFar /\ FilesComplete

(* Nothing is written at first.                                            *)
LEMMA FilesBegin == ASSUME BatchInit PROVE FilesInv
<1>1. batch = Off /\ status = [p \in Programs |-> "none"]  BY DEF BatchInit
<1>2. ~OverFrames  BY <1>1 DEF Off, OverFrames, Programs
<1>3. FilesSoFar  BY <1>2 DEF FilesSoFar
<1>4. \A p \in Programs : status[p] # "ok"  BY <1>1
<1>5. FilesComplete  BY <1>4 DEF FilesComplete, Programs
<1> QED BY <1>3, <1>5 DEF FilesInv

(* After a step of a program it runs still, or nothing does.               *)
LEMMA SameOrNothing ==
    ASSUME BatchFields, batch.name \in Programs, OthersStay, BatchFields'
    PROVE  batch'.name \in {batch.name, "none"}
<1>1. \A p \in Programs \ {batch.name} : status'[p] # "running"
    BY DEF OthersStay, BatchFields
<1>2. /\ \A p \in Programs : status'[p] = "running" <=> batch'.name = p
      /\ batch'.name \in Programs \cup {"none"}
    BY DEF BatchFields
<1> QED BY <1>1, <1>2

(* Every step keeps what is said of the files.                             *)
LEMMA FilesGoOn ==
    ASSUME OneFrameAStem, BatchInv, BatchInv', FilesInv, [BatchNext]_batchVars
    PROVE  FilesInv'
<1>1. BatchFields /\ FilesSoFar /\ FilesComplete /\ BatchFields'  BY DEF BatchInv, FilesInv
<1>2. CASE OverFrames /\ FStep
    BY <1>1, <1>2, FilesStay, FramesComplete DEF FilesInv
<1>3. CASE Matching /\ PStep
    <2>1. batch.name = "lightglue" /\ "lightglue" \in Programs
        BY <1>3 DEF Matching, Running, Programs
    <2>2. batch'.name \in {"lightglue", "none"}
        BY <1>1, <1>3, <2>1, PairsOthers, SameOrNothing
    <2> QED BY <1>1, <1>3, <2>2, PairsKeepFiles, PairsComplete DEF FilesInv
<1>4. CASE batch.name = "none" /\ SStep
    BY <1>1, <1>4, StartFiles, StartComplete DEF FilesInv
<1>5. CASE UNCHANGED batchVars
    <2>1. dir' = dir /\ batch' = batch /\ files' = files /\ status' = status
        BY <1>5 DEF batchVars
    <2>2. SameDirectory /\ OverFrames' = OverFrames /\ Handled' = Handled /\ InHand' = InHand
        BY <2>1, DirectoryStays
        DEF OverFrames, Handled, SameDirectory, InHand, Matching, Running, Index, PathFor
    <2>3. FilesSoFar'  BY <1>1, <2>1, <2>2 DEF FilesSoFar, SameDirectory
    <2>4. FilesComplete'  BY <1>1, <2>1, <2>2 DEF FilesComplete, SameDirectory
    <2> QED BY <2>3, <2>4 DEF FilesInv
<1> QED BY <1>2, <1>3, <1>4, <1>5, StepKinds

------------------------------------------------------------------------------
(* When a pair is matched both results are there.                          *)
LEMMA ServedKept ==
    ASSUME BatchFields, Served PROVE CacheServesPair
<1>1. InFlightKept
    <2>1. ASSUME Matching, batch.pc = "match", NEW i \in ToSet(AtHand)
          PROVE  Cached(i) \/ i \in batch.dead
        <3>1. Serving(batch.need, "match", AtHand, cache, batch.dead)
            BY <2>1 DEF Served, PairInHand
        <3>2. batch.need = <<>>  BY <3>1 DEF Serving
        <3>3. IsPair(AtHand)  BY <2>1, PairCounts DEF Served
        <3>4. AtHand # <<>> /\ ToSet(AtHand) = {AtHand[1], AtHand[2]}  BY <3>3, FramesOfPair
        <3>5. Got(cache, batch.dead, AtHand[1]) /\ Got(cache, batch.dead, AtHand[2])
            BY <3>1, <3>2, <3>4 DEF Serving
        <3> QED BY <2>1, <3>4, <3>5 DEF Got, Has, Cached
    <2>2. Len(cache) <= Larger(Cache, 2)
        <3>1. CASE Matching  BY <3>1 DEF Served, CacheInOrder
        <3>2. CASE ~Matching
            <4>1. Len(<<>>) = 0 /\ 0 <= Larger(Cache, 2)  BY BatchAssumption DEF Larger
            <4> QED BY <3>2, <4>1 DEF Served, CacheInOrder
        <3> QED BY <3>1, <3>2
    <2> QED BY <2>1, <2>2 DEF InFlightKept, AtHand
<1>2. OldestLeaves
    <2>1. CASE Matching  BY <2>1 DEF Served, CacheInOrder, Ranked, OldestLeaves
    <2>2. CASE ~Matching
        <3>1. DOMAIN <<>> = {}  OBVIOUS
        <3> QED BY <2>2, <3>1 DEF Served, CacheInOrder, OldestLeaves
    <2> QED BY <2>1, <2>2
<1> QED BY <1>1, <1>2 DEF CacheServesPair

(* Exit status 0 says the output is complete.                              *)
LEMMA CompleteTold ==
    ASSUME Outputs, FilesComplete PROVE SuccessIsComplete
<1>1. \A p, f : Whole(p, f) <=> WholeIn(files[p], f)  BY DEF Whole, WholeIn
<1>2. ASSUME NEW p \in {"aliked", "xfeat", "depth"}, status[p] = "ok"
      PROVE  Frames # {} /\ \A f \in Frames : Whole(p, f)
    BY <1>1, <1>2 DEF FilesComplete, CompleteFiles
<1>3. status["dino"] = "ok" =>
          [i \in DOMAIN files["dino"] |-> files["dino"][i].of.file] = Sorted(Frames)
    BY DEF FilesComplete, CompleteRows, Named
<1>4. status["lightglue"] = "ok" => MatchedAll(files["lightglue"].records, AskedFor)
    BY DEF Outputs, MatchesComplete, Output
<1>5. OutputsComplete
    <2> HIDE DEF Whole
    <2> QED BY <1>2, <1>3, <1>4 DEF OutputsComplete, MatchedAll, AskedFor
<1>6. HeaderCounts
    <2> SUFFICES ASSUME DOMAIN Output # {}
                 PROVE  /\ Output.n <= Len(Output.records)
                        /\ status["lightglue"] = "ok" => Output.n = Len(Output.records)
        BY DEF HeaderCounts, Output
    <2>1. Output # <<>>
        <3>1. DOMAIN <<>> = {}  OBVIOUS
        <3> QED BY <3>1
    <2>2. OutputOf(Output)  BY <2>1 DEF Outputs, RecordsSoFar
    <2>3. Output.n <= Len(Output.records)
        <3>1. Len(Output.records) \in Nat /\ Output.n \in 0 .. Len(Output.records)
            BY <2>2 DEF OutputOf, Long
        <3> QED BY <3>1
    <2> QED BY <2>3 DEF Outputs, MatchesComplete
<1> QED BY <1>5, <1>6 DEF SuccessIsComplete

(* The invariant of the batch programs.                                    *)
LEMMA BatchAlways == BatchSpec => []BatchInv
<1>1. BatchInit => BatchInv  BY BatchBegins
<1>2. BatchInv /\ [BatchNext]_batchVars => BatchInv'  BY BatchGoesOn
<1> QED BY <1>1, <1>2, PTL DEF BatchSpec

(* lightglue_batch, whatever it is asked to match, in which order and however*)
(* small its cache: when a pair is matched both results are there unless a *)
(* frame of it is dead, the cache keeps to its size but for the pair in    *)
(* flight, and what goes was used least recently.                          *)
THEOREM CacheServesItsPair == BatchSpec => []CacheServesPair
<1>1. BatchInv => CacheServesPair  BY ServedKept DEF BatchInv
<1> QED BY <1>1, BatchAlways, PTL

(* Exit status 0 says that the output is complete: a whole file of every   *)
(* frame, one row for each in their order, one record for every pair asked *)
(* for but the tolerated part, all counted in the header. A file is named  *)
(* after the stem of its frame, so no two frames may have the same.        *)
THEOREM SuccessSaysComplete ==
    ASSUME OneFrameAStem PROVE BatchSpec => []SuccessIsComplete
<1>1. BatchInit => FilesInv  BY FilesBegin
<1>2. BatchInv /\ BatchInv' /\ FilesInv /\ [BatchNext]_batchVars => FilesInv'
    BY FilesGoOn
<1>3. BatchInv /\ FilesInv => SuccessIsComplete  BY CompleteTold DEF BatchInv, FilesInv
<1> QED BY <1>1, <1>2, <1>3, BatchAlways, PTL DEF BatchSpec

------------------------------------------------------------------------------
(* How a frame is fitted.                                                  *)
LEMMA NeverMoreMemory == ASSUME Noted, NoneShort' PROVE NoneShort
BY DEF Noted, NoneShort

(* Nothing is known of the frame to come.                                  *)
LEMMA FreshFit ==
    ASSUME batch'.pc \in {"read", "match", "finish"}, batch'.pc # "finish" => batch'.attempt = 0
    PROVE  Sought(InHand', batch')
BY DEF Sought

(* The frame in hand stays while it is worked on.                          *)
LEMMA SameInHand ==
    ASSUME dir' = dir, batch'.name = batch.name, batch'.todo = batch.todo,
           batch'.need = batch.need
    PROVE  InHand' = InHand
BY DEF InHand, Matching, Running, Index, PathFor

(* The cap is tried after the engine did not take the natural size, and    *)
(* the plan follows.                                                       *)
LEMMA FrameFitted ==
    ASSUME DOMAIN batch = Slots, batch.name \in {"aliked", "lightglue"}, Sought(InHand, batch),
           (FRetry /\ Unsuited) \/ Decoded \/ Planned
    PROVE  Sought(InHand', batch')
<1> DEFINE f == InHand
           e == batch.engine
<1>1. batch.name \in Fits /\ batch.name # "xfeat"  BY DEF Fits
<1>2. PlanNow = IF batch.attempt = 0 THEN Natural(f) ELSE Fallback(f)
    BY <1>1 DEF PlanNow, CapOf, Natural, Fallback
<1>3. CASE FRetry /\ Unsuited
    <2>1. /\ batch' = [batch EXCEPT !.attempt = 1, !.pc = "fit"] /\ dir' = dir
          /\ batch.attempt = 0 /\ batch.pc \in {"fit", "submit"}
        BY <1>3 DEF FRetry, Retried, StillRuns, Unmoved
    <2>2. /\ batch'.attempt = 1 /\ batch'.pc = "fit" /\ batch'.engine = e
          /\ batch'.name = batch.name /\ batch'.todo = batch.todo /\ batch'.need = batch.need
        BY <2>1 DEF Slots
    <2>3. ~Suits(Natural(f), e)
        <3>1. CASE batch.pc = "fit"
            BY <1>2, <1>3, <2>1, <3>1 DEF Unsuited, Suits
        <3>2. CASE batch.pc = "submit"
            <4>1. Rejected /\ batch.plan = Natural(f)  BY <1>3, <2>1, <3>2 DEF Unsuited, Sought
            <4> QED BY <4>1 DEF Rejected, Suits
        <3> QED BY <2>1, <3>1, <3>2
    <2>4. Decodes(f)  BY <2>1 DEF Sought
    <2>5. InHand' = f  BY <2>1, <2>2, SameInHand
    <2> QED BY <2>2, <2>3, <2>4, <2>5 DEF Sought
<1>4. CASE Decoded
    <2>1. /\ batch' = [batch EXCEPT !.pc = "fit"] /\ dir' = dir /\ batch.pc = "read" /\ Decodes(f)
        BY <1>1, <1>4 DEF Decoded, StillRuns, Unmoved
    <2>2. /\ batch'.attempt = batch.attempt /\ batch'.pc = "fit"
          /\ batch'.name = batch.name /\ batch'.todo = batch.todo /\ batch'.need = batch.need
        BY <2>1 DEF Slots
    <2>3. batch.attempt = 0  BY <2>1 DEF Sought
    <2>4. InHand' = f  BY <2>1, <2>2, SameInHand
    <2> QED BY <2>1, <2>2, <2>3, <2>4 DEF Sought
<1>5. CASE Planned
    <2>1. /\ batch' = [batch EXCEPT !.plan = PlanNow, !.pc = "submit"] /\ dir' = dir
          /\ batch.pc = "fit" /\ PlanNow.fits
        BY <1>5 DEF Planned, StillRuns, Unmoved
    <2>2. /\ batch'.attempt = batch.attempt /\ batch'.pc = "submit" /\ batch'.plan = PlanNow
          /\ batch'.engine = e
          /\ batch'.name = batch.name /\ batch'.todo = batch.todo /\ batch'.need = batch.need
        BY <2>1 DEF Slots
    <2>3. InHand' = f  BY <2>1, <2>2, SameInHand
    <2>4. Decodes(f) /\ (batch.attempt = 0 \/ (batch.attempt = 1 /\ ~Suits(Natural(f), e)))
        BY <2>1 DEF Sought
    <2> QED BY <1>2, <2>1, <2>2, <2>3, <2>4 DEF Sought
<1> QED BY <1>3, <1>4, <1>5

(* What is extracted was fitted as the rule says.                          *)
LEMMA HandProper ==
    ASSUME batch.name \in {"aliked", "lightglue"}, Sought(InHand, batch),
           batch.pc = "submit", ~Rejected
    PROVE  Decodes(InHand) /\ Properly(Hand, InHand, batch.engine)
<1> DEFINE f == InHand
           e == batch.engine
<1>1. ~(Larger(batch.plan.cw, batch.plan.ch) > e.maxSide)  BY DEF Rejected, Fits
<1>2. Suits(batch.plan, e)  BY <1>1 DEF Suits, Sought
<1>3. /\ batch.attempt = 0 \/ (batch.attempt = 1 /\ ~Suits(Natural(f), e))
      /\ batch.plan = IF batch.attempt = 0 THEN Natural(f) ELSE Fallback(f)
      /\ Decodes(f)
    BY DEF Sought
<1> HIDE DEF f, e
<1>4. batch.plan = Chosen(f, e)
    <2>1. CASE batch.attempt = 0  BY <1>2, <1>3, <2>1 DEF Chosen
    <2>2. CASE batch.attempt = 1 /\ ~Suits(Natural(f), e)  BY <1>3, <2>2 DEF Chosen
    <2> QED BY <1>3, <2>1, <2>2
<1>5. Hand = Extraction(f, batch.plan, e)  BY DEF Hand, f, e
<1> QED BY <1>3, <1>4, <1>5 DEF Properly, f, e

(* A frame of aliked_batch.                                                *)
LEMMA FramesFitted ==
    ASSUME BatchFields, BatchFields', OverFrames, FStep, Fitted, NoneShort',
           Running("aliked")'
    PROVE  Sought(InHand', batch')
<1>0. OthersStay  BY FramesOthers
<1>1. batch.name = "aliked"
    <2>1. batch.name \in Programs  BY DEF OverFrames
    <2>2. batch'.name \in {batch.name, "none"}  BY <1>0, <2>1, SameOrNothing
    <2> QED BY <2>2 DEF Running
<1>2. Held(batch) /\ DOMAIN batch = Slots  BY DEF BatchFields, OverFrames, Held
<1>3. batch.pc # "finish" => Long(batch.todo, Len(batch.todo)) /\ batch.todo # <<>>
    BY <1>2 DEF Held
<1>4. ASSUME Noted PROVE Sought(InHand, batch)
    BY <1>1, <1>4, NeverMoreMemory DEF Fitted, Running
<1>5. ASSUME NEW b, DOMAIN b = Slots, b.todo = batch.todo, batch' = NextFile(b), batch.pc # "finish"
      PROVE  Sought(InHand', batch')
    <2>1. WithTodo(batch', b)  BY <1>3, <1>5, NextFileMeans
    <2>2. batch'.attempt = 0 /\ batch'.pc \in {"finish", "read"}  BY <2>1 DEF WithTodo
    <2> QED BY <2>2, FreshFit
<1>6. CASE FSkip
    BY <1>2, <1>5, <1>6 DEF FSkip
<1>7. CASE FWrite
    <2> DEFINE b == [batch EXCEPT !.done = @ + 1]
    <2>1. DOMAIN b = Slots /\ b.todo = batch.todo
        BY <1>2 DEF Slots
    <2>2. batch' = NextFile(b) /\ batch.pc # "finish"  BY <1>7 DEF FWrite
    <2> HIDE DEF b
    <2> QED BY <1>5, <2>1, <2>2
<1>8. CASE FRetry \/ Decoded \/ Planned
    <2>1. Noted  BY <1>8 DEF FRetry, Decoded, Planned, StillRuns, Unmoved
    <2>2. FRetry => Unsuited  BY <1>1 DEF FRetry
    <2> QED BY <1>1, <1>2, <1>4, <1>8, <2>1, <2>2, FrameFitted
<1>9. CASE FHand
    <2>1. /\ batch' = [batch EXCEPT !.hand = Hand, !.pc = "write"] /\ dir' = dir /\ Noted
          /\ batch.pc = "submit" /\ ~Rejected
        BY <1>9 DEF FHand, StillRuns, Unmoved
    <2>2. /\ batch'.hand = Hand /\ batch'.pc = "write" /\ batch'.engine = batch.engine
          /\ batch'.name = batch.name /\ batch'.todo = batch.todo /\ batch'.need = batch.need
        BY <1>2, <2>1 DEF Slots
    <2>3. InHand' = InHand  BY <2>1, <2>2, SameInHand
    <2>4. Decodes(InHand) /\ Properly(Hand, InHand, batch.engine)
        BY <1>1, <1>4, <2>1, HandProper
    <2> QED BY <2>2, <2>3, <2>4 DEF Sought
<1>10. CASE FRow \/ FRows \/ FNoRows
    BY <1>1, <1>10 DEF FRow, FRows, FNoRows
<1>11. CASE FAbort \/ FTorn("failed") \/ FTorn("killed") \/ FFinish \/ FKilled
    <2>1. batch' = Off  BY <1>11 DEF FAbort, FTorn, FFinish, FKilled, Ended
    <2> QED BY <2>1 DEF Off, Running
<1> QED BY <1>6, <1>7, <1>8, <1>9, <1>10, <1>11 DEF FStep

(* A frame of lightglue_batch.                                             *)
LEMMA PairsFitted ==
    ASSUME BatchInv, Matching, PStep, Fitted, NoneShort', Matching'
    PROVE  Sought(InHand', batch')
<1>1. DOMAIN batch = Slots /\ batch.name = "lightglue" /\ Held(batch)
    BY PairCounts DEF BatchInv, Served, Held, Matching, Running
<1>2. batch.pc # "finish" => Long(batch.todo, Len(batch.todo)) /\ batch.todo # <<>>
    BY <1>1 DEF Held
<1>3. ASSUME Noted PROVE Sought(InHand, batch)
    BY <1>3, NeverMoreMemory DEF Fitted
<1>4. ASSUME NEW b, DOMAIN b = Slots, batch' = NextNeeded(b) PROVE Sought(InHand', batch')
    <2>1. WithNeed(batch', b)  BY <1>4, NextNeededMeans
    <2>2. batch'.attempt = 0 /\ batch'.pc \in {"match", "read"}  BY <2>1 DEF WithNeed
    <2> QED BY <2>2, FreshFit
<1>5. ASSUME NEW b, DOMAIN b = Slots, b.todo = batch.todo, b.attempt = batch.attempt,
             batch' = NextPair(b), batch.pc = "match", Noted
      PROVE  Sought(InHand', batch')
    <2>1. WithPair(batch', b)  BY <1>2, <1>5, NextPairMeans
    <2>2. batch'.attempt = b.attempt /\ batch'.pc \in {"finish", "read"}
        BY <2>1 DEF WithPair, Keeps, Slots
    <2>3. batch.attempt = 0  BY <1>3, <1>5 DEF Sought
    <2> QED BY <1>5, <2>2, <2>3, FreshFit
<1>6. CASE PSkip
    <2>1. DOMAIN Lost = Slots  BY <1>1 DEF Lost
    <2> QED BY <1>4, <1>6, <2>1 DEF PSkip
<1>7. CASE PTaken \/ PPassed \/ PRecall
    BY <1>1, <1>4, <1>7 DEF PTaken, PPassed, PRecall
<1>8. CASE PRetry \/ PDecoded \/ PPlanned
    <2>1. FRetry \/ Decoded \/ Planned  BY <1>8 DEF PRetry, PDecoded, PPlanned
    <2>2. Noted  BY <2>1 DEF FRetry, Decoded, Planned, StillRuns, Unmoved
    <2>3. FRetry => Unsuited  BY DEF FRetry
    <2> QED BY <1>1, <1>3, <2>1, <2>2, <2>3, FrameFitted
<1>9. CASE PLeft
    BY <1>1, <1>5, <1>9 DEF PLeft, Within, StillRuns, Unmoved
<1>10. CASE PMatched
    <2> DEFINE b == [batch EXCEPT !.done = @ + 1]
    <2>1. DOMAIN b = Slots /\ b.todo = batch.todo /\ b.attempt = batch.attempt
        BY <1>1 DEF Slots
    <2>2. batch' = NextPair(b) /\ batch.pc = "match" /\ Noted
        BY <1>10 DEF PMatched, StillRuns, Unmoved
    <2> HIDE DEF b
    <2> QED BY <1>5, <2>1, <2>2
<1>11. CASE PFailed
    <2> DEFINE b == [batch EXCEPT !.failed = @ + 1]
    <2>1. DOMAIN b = Slots /\ b.todo = batch.todo /\ b.attempt = batch.attempt
        BY <1>1 DEF Slots
    <2>2. batch' = NextPair(b) /\ batch.pc = "match" /\ Noted
        BY <1>11 DEF PFailed, Within, StillRuns, Unmoved
    <2> HIDE DEF b
    <2> QED BY <1>5, <2>1, <2>2
<1>12. CASE PBroken
    <2>1. batch' = [batch EXCEPT !.error = TRUE, !.pc = "finish"]  BY <1>12 DEF PBroken
    <2>2. batch'.pc = "finish"  BY <1>1, <2>1 DEF Slots
    <2> QED BY <2>2, FreshFit
<1>13. CASE PFinish \/ PNoHeader \/ PKilled
    <2>1. batch' = Off  BY <1>13 DEF PFinish, PNoHeader, PKilled, Ended
    <2> QED BY <2>1 DEF Off, Matching, Running
<1> QED BY <1>6, <1>7, <1>8, <1>9, <1>10, <1>11, <1>12, <1>13 DEF PStep

(* A program starts with a frame not looked at.                            *)
LEMMA StartFitted ==
    ASSUME BatchFields, batch.name = "none", SStep, Matching' \/ Running("aliked")'
    PROVE  Sought(InHand', batch')
<1>1. PICK p \in Programs :
          /\ status[p] = "none" /\ cache' = cache /\ Unmoved
          /\ \/ \E e \in Extractors : Begins(p, e)
             \/ p = "lightglue" /\ \E e \in Extractors : BeginsPairs(e)
             \/ Refuses(p)
    BY DEF SStep
<1>2. dir \in Directories /\ lines \in PairLists  BY DEF BatchFields
<1>3. ASSUME NEW e \in Extractors, Begins(p, e) PROVE Sought(InHand', batch')
    BY <1>2, <1>3, BegunHeld, FreshFit
<1>4. ASSUME NEW e \in Extractors, BeginsPairs(e) PROVE Sought(InHand', batch')
    BY <1>2, <1>4, PairsBegunHeld, FreshFit
<1>5. CASE Refuses(p)
    BY <1>5 DEF Refuses, Matching, Running
<1> QED BY <1>1, <1>3, <1>4, <1>5

------------------------------------------------------------------------------
(* What aliked_batch writes is of its engine.                              *)
LEMMA AlikedOfEngine ==
    ASSUME BatchFields, Fitted, OfAliked, OverFrames, FStep, NoneShort
    PROVE  \A s \in DOMAIN files'["aliked"] : OfEngine(files'["aliked"][s])
<1>1. \A s \in DOMAIN files["aliked"] : OfEngine(files["aliked"][s])  BY DEF OfAliked
<1>2. /\ batch.name \in Programs /\ batch.name \in DOMAIN files /\ "aliked" \in Programs
      /\ batch.engine \in Extractors
    BY DEF BatchFields, OverFrames, Held, Programs
<1>3. CASE batch.name # "aliked"
    <2>1. files'["aliked"] = files["aliked"]  BY <1>2, <1>3, FramesOthers DEF OthersStay
    <2> QED BY <1>1, <2>1
<1>4. ASSUME NEW stem, NEW x, PutFile("aliked", stem, x), OfEngine(x), "aliked" \in DOMAIN files
      PROVE  \A s \in DOMAIN files'["aliked"] : OfEngine(files'["aliked"][s])
    <2>1. /\ DOMAIN files'["aliked"] = DOMAIN files["aliked"] \cup {stem}
          /\ files'["aliked"][stem] = x
          /\ \A s \in DOMAIN files["aliked"] \ {stem} : files'["aliked"][s] = files["aliked"][s]
        BY <1>4, PutFileMeans
    <2> HIDE DEF OfEngine
    <2> QED BY <1>1, <1>4, <2>1
<1>5. CASE batch.name = "aliked" /\ FWrite
    <2>1. batch.pc = "write" /\ PutFile("aliked", InHand.stem, batch.hand)
        BY <1>5 DEF FWrite
    <2>2. Properly(batch.hand, InHand, batch.engine)
        BY <1>5, <2>1 DEF Fitted, Running, Sought
    <2>3. batch.hand.file = InHand  BY <2>2 DEF Properly, Extraction
    <2>4. OfEngine(batch.hand)  BY <1>2, <2>2, <2>3 DEF OfEngine
    <2> QED BY <1>2, <1>4, <1>5, <2>1, <2>4
<1>6. CASE batch.name = "aliked" /\ (FTorn("failed") \/ FTorn("killed"))
    <2>1. PutFile("aliked", InHand.stem, Torn)  BY <1>6 DEF FTorn
    <2>2. OfEngine(Torn)  BY DEF OfEngine
    <2> QED BY <1>2, <1>4, <1>6, <2>1, <2>2
<1>7. CASE files' = files
    BY <1>1, <1>7
<1>8. CASE batch.name = "aliked" /\ (FRows \/ FNoRows \/ FRow)
    BY <1>8 DEF FRows, FNoRows, FRow
<1> QED BY <1>3, <1>5, <1>6, <1>7, <1>8
        DEF FStep, FSkip, FRetry, FAbort, Decoded, Planned, FHand, FFinish, FKilled

------------------------------------------------------------------------------
(* What lightglue_batch holds and matches is of its engine.                *)
LEMMA SamePics == ASSUME dir' = dir PROVE Pics' = Pics
BY DEF Pics, PathFor

(* lightglue_batch keeps its engine.                                       *)
LEMMA EngineStays ==
    ASSUME BatchInv, Matching, PStep, Matching' PROVE batch'.engine = batch.engine
<1>1. DOMAIN batch = Slots /\ Held(batch)
    BY PairCounts DEF BatchInv, Served, Held
<1>2. batch.pc # "finish" => Long(batch.todo, Len(batch.todo)) /\ batch.todo # <<>>
    BY <1>1 DEF Held
<1>3. ASSUME NEW b, DOMAIN b = Slots, b.engine = batch.engine, batch' = NextNeeded(b)
      PROVE  batch'.engine = batch.engine
    <2>1. WithNeed(batch', b)  BY <1>3, NextNeededMeans
    <2> QED BY <1>3, <2>1 DEF WithNeed, Keeps, Slots
<1>4. ASSUME NEW b, DOMAIN b = Slots, b.todo = batch.todo, b.engine = batch.engine,
             batch' = NextPair(b), batch.pc = "match"
      PROVE  batch'.engine = batch.engine
    <2>1. WithPair(batch', b)  BY <1>2, <1>4, NextPairMeans
    <2> QED BY <1>4, <2>1 DEF WithPair, Keeps, Slots
<1>5. CASE PSkip
    <2>1. DOMAIN Lost = Slots /\ Lost.engine = batch.engine  BY <1>1 DEF Lost, Slots
    <2> QED BY <1>3, <1>5, <2>1 DEF PSkip
<1>6. CASE PTaken \/ PPassed \/ PRecall
    BY <1>1, <1>3, <1>6 DEF PTaken, PPassed, PRecall
<1>7. CASE PRetry
    BY <1>1, <1>7 DEF PRetry, FRetry, Retried, Slots
<1>8. CASE PDecoded
    BY <1>1, <1>8 DEF PDecoded, Decoded, Slots
<1>9. CASE PPlanned
    BY <1>1, <1>9 DEF PPlanned, Planned, Slots
<1>10. CASE PBroken
    BY <1>1, <1>10 DEF PBroken, Slots
<1>11. CASE PLeft
    BY <1>1, <1>4, <1>11 DEF PLeft
<1>12. CASE PMatched \/ PFailed
    <2>1. PICK b \in {[batch EXCEPT !.done = @ + 1], [batch EXCEPT !.failed = @ + 1]} :
              batch' = NextPair(b) /\ batch.pc = "match"
        BY <1>12 DEF PMatched, PFailed
    <2>2. DOMAIN b = Slots /\ b.todo = batch.todo /\ b.engine = batch.engine
        BY <1>1, <2>1 DEF Slots
    <2> QED BY <1>4, <2>1, <2>2
<1>13. CASE PFinish \/ PNoHeader \/ PKilled
    BY <1>13, EndedFiles DEF PFinish, PNoHeader, PKilled
<1> QED BY <1>5, <1>6, <1>7, <1>8, <1>9, <1>10, <1>11, <1>12, <1>13 DEF PStep

(* A result comes into the cache from the frame in hand only.              *)
LEMMA CacheComesOf ==
    ASSUME BatchInv, Matching, PStep, Matching', Sought(InHand, batch),
           CacheFrom(cache, Pics, batch.engine)
    PROVE  CacheFrom(cache', Pics, batch.engine)
<1>0. BatchFields /\ Served  BY DEF BatchInv
<1> DEFINE e == batch.engine
           pics == Pics
           Good(x) == x.index \in Nat /\ OfPicture(x.of, pics[x.index], e)
<1>1. \A k \in DOMAIN cache : Good(cache[k])  BY DEF CacheFrom
<1>2. CASE PTaken
    <2>1. batch.pc = "submit" /\ ~Rejected  BY <1>2 DEF PTaken
    <2>2. \A k \in DOMAIN cache' :
              cache'[k] = NewResult \/ \E j \in DOMAIN cache : cache'[k] = cache[j]
        BY <1>0, <1>2, TakenServed
    <2>3. Index \in Nat  BY <1>0, <2>1, NeededOfPair DEF IsPair
    <2>4. pics[Index] = InHand  BY <2>3 DEF Pics, InHand
    <2>5. Decodes(InHand) /\ Properly(Hand, InHand, e)
        BY <2>1, HandProper DEF Matching, Running
    <2>6. NewResult.index = Index /\ NewResult.of = Hand  BY DEF NewResult
    <2>7. Good(NewResult)  BY <2>3, <2>4, <2>5, <2>6 DEF OfPicture
    <2> HIDE DEF Good
    <2>8. \A k \in DOMAIN cache' : Good(cache'[k])  BY <1>1, <2>2, <2>7
    <2> QED BY <2>8 DEF CacheFrom, Good
<1>3. CASE PRecall
    <2>1. batch.pc = "read" /\ Cached(Index) /\ cache' = Refreshed(Index)  BY <1>3 DEF PRecall
    <2>2. PairsDone \in Nat /\ Ranked(cache, PairsDone)  BY <1>0, <2>1, NeededOfPair
    <2>3. \A k \in DOMAIN cache' : \E j \in DOMAIN cache :
              cache'[k].index = cache[j].index /\ cache'[k].of = cache[j].of
        BY <2>1, <2>2, RefreshedRanked
    <2>4. \A k \in DOMAIN cache' : Good(cache'[k])  BY <1>1, <2>3
    <2> QED BY <2>4 DEF CacheFrom
<1>4. CASE cache' = cache
    BY <1>4
<1>5. CASE PFinish \/ PNoHeader \/ PKilled
    BY <1>5, EndedFiles DEF PFinish, PNoHeader, PKilled
<1> QED BY <1>2, <1>3, <1>4, <1>5
        DEF PStep, PSkip, PRetry, PDecoded, PPlanned, PPassed, PLeft, PMatched, PFailed, PBroken,
            Within

(* A match is made from the two results of the cache.                      *)
LEMMA RecordsComeOf ==
    ASSUME BatchInv, Matching, PStep, CacheFrom(cache, Pics, batch.engine),
           RecordsFrom(Output.records, Pics, batch.engine)
    PROVE  RecordsFrom(Output'.records, Pics, batch.engine)
<1> DEFINE e == batch.engine
           pics == Pics
           R == Output.records
           Good(x) == \A side \in {1, 2} :
                         x.pair[side] \in Nat /\ OfPicture(x.of[side], pics[x.pair[side]], e)
<1>1. \A k \in 1 .. Len(R) : Good(R[k])  BY DEF RecordsFrom
<1>2. /\ BatchFields /\ Served /\ OutputOf(Output) /\ "lightglue" \in DOMAIN files
      /\ Long(R, Len(R)) /\ DOMAIN Output = Headed
    BY DEF BatchInv, Outputs, RecordsSoFar, BatchFields, Programs, OutputOf
<1>3. CASE files' = files
    <2>1. Output' = Output  BY <1>3 DEF Output
    <2> QED BY <2>1
<1>4. CASE PMatched
    <2> DEFINE rec == [pair |-> <<AtHand[1], AtHand[2]>>,
                       of |-> <<ResultOf(AtHand[1]), ResultOf(AtHand[2])>>]
               m == Len(R)
    <2>1. files' = [files EXCEPT !["lightglue"].records = Append(@, rec)]
        BY <1>4 DEF PMatched
    <2>2. Output'.records = Append(R, rec)  BY <1>2, <2>1 DEF Output, Headed
    <2>3. ASSUME NEW i, Cached(i) PROVE i \in Nat /\ OfPicture(ResultOf(i), pics[i], e)
        <3>1. PlaceOf(i) \in DOMAIN cache /\ cache[PlaceOf(i)].index = i  BY <2>3, PlaceMeans
        <3>2. ResultOf(i) = cache[PlaceOf(i)].of  BY DEF ResultOf
        <3> QED BY <3>1, <3>2 DEF CacheFrom
    <2>4. Cached(AtHand[1]) /\ Cached(AtHand[2])  BY <1>4 DEF PMatched, BothCached
    <2>5. Good(rec)
        <3>1. /\ rec.pair[1] = AtHand[1] /\ rec.pair[2] = AtHand[2]
              /\ rec.of[1] = ResultOf(AtHand[1]) /\ rec.of[2] = ResultOf(AtHand[2])
            OBVIOUS
        <3> HIDE DEF rec
        <3> QED BY <2>3, <2>4, <3>1
    <2> HIDE DEF rec, R, m, Good
    <2>6. Pushed(Append(R, rec), R, m, rec)  BY <1>2, PushMeans, Zenon DEF m
    <2>7. m \in Nat  BY <1>2 DEF Long, m
    <2>8. Len(Output'.records) = m + 1  BY <2>2, <2>6 DEF Pushed, Long
    <2>9. \A k \in 1 .. m + 1 : k = m + 1 \/ k \in 1 .. m  BY <2>7
    <2>10. \A k \in 1 .. m + 1 : Good(Output'.records[k])
        BY <1>1, <2>2, <2>5, <2>6, <2>9 DEF Pushed, m
    <2> QED BY <2>8, <2>10 DEF RecordsFrom, Good
<1>5. CASE PFinish
    <2>1. files' = [files EXCEPT !["lightglue"].n = Header]  BY <1>5 DEF PFinish
    <2>2. Output'.records = R  BY <1>2, <2>1 DEF Output, Headed
    <2> QED BY <2>2
<1>6. CASE PKilled
    <2>1. PICK i \in 0 .. Len(R) : files' = [files EXCEPT !["lightglue"].records = SubSeq(@, 1, i)]
        BY <1>6 DEF PKilled
    <2>2. Output'.records = SubSeq(R, 1, i)  BY <1>2, <2>1 DEF Output, Headed
    <2>3. Len(R) \in Nat /\ i \in Nat /\ i <= Len(R)  BY <1>2, <2>1 DEF Long
    <2> HIDE DEF R, Good
    <2>4. Len(SubSeq(R, 1, i)) = i /\ \A k \in 1 .. i : SubSeq(R, 1, i)[k] = R[k]
        BY <2>3
    <2>5. \A k \in 1 .. i : k \in 1 .. Len(R)  BY <2>3
    <2>6. \A k \in 1 .. i : Good(Output'.records[k])  BY <1>1, <2>2, <2>4, <2>5
    <2>7. Len(Output'.records) = i  BY <2>2, <2>4
    <2> QED BY <2>6, <2>7 DEF RecordsFrom, Good
<1> QED BY <1>3, <1>4, <1>5, <1>6
        DEF PStep, PSkip, PRetry, FRetry, PDecoded, Decoded, PPlanned, Planned, PTaken, PPassed,
            PRecall, PLeft, PFailed, PBroken, PNoHeader, Within

(* The header keeps the fingerprint.                                       *)
LEMMA FpStays ==
    ASSUME BatchInv, Matching, PStep PROVE Output'.fp = batch.engine.fp
<1>1. /\ Output.fp = batch.engine.fp /\ DOMAIN Output = Headed /\ "lightglue" \in DOMAIN files
    BY DEF BatchInv, Outputs, RecordsSoFar, OutputOf, BatchFields, Programs
<1>2. CASE files' = files
    BY <1>1, <1>2 DEF Output
<1>3. CASE PMatched
    <2>1. PICK rec : files' = [files EXCEPT !["lightglue"].records = Append(@, rec)]
        BY <1>3 DEF PMatched
    <2> QED BY <1>1, <2>1 DEF Output, Headed
<1>4. CASE PFinish
    BY <1>1, <1>4 DEF PFinish, Output, Headed
<1>5. CASE PKilled
    <2>1. PICK i \in 0 .. Len(Output.records) :
              files' = [files EXCEPT !["lightglue"].records = SubSeq(@, 1, i)]
        BY <1>5 DEF PKilled
    <2> QED BY <1>1, <2>1 DEF Output, Headed
<1> QED BY <1>2, <1>3, <1>4, <1>5
        DEF PStep, PSkip, PRetry, FRetry, PDecoded, Decoded, PPlanned, Planned, PTaken, PPassed,
            PRecall, PLeft, PFailed, PBroken, PNoHeader, Within

(* Nothing is extracted at first.                                          *)
LEMMA ExtractingBegins == ASSUME BatchInit PROVE Extracting
<1>1. /\ batch = Off /\ files = [p \in Programs |-> <<>>] /\ "aliked" \in Programs
      /\ "lightglue" \in Programs
    BY DEF BatchInit, Programs
<1>2. ~Matching /\ ~Running("aliked")  BY <1>1 DEF Off, Matching, Running
<1>3. files["aliked"] = <<>> /\ Output = <<>> /\ DOMAIN <<>> = {}  BY <1>1 DEF Output
<1> QED BY <1>2, <1>3 DEF Extracting, Fitted, OfAliked, OfGlue

(* What every step notes and leaves.                                       *)
LEMMA AllNoted ==
    ASSUME FStep \/ PStep \/ SStep PROVE Noted /\ dir' = dir
BY DEF FStep, FSkip, FRetry, FAbort, Decoded, Planned, FRow, FHand, FWrite, FTorn, FFinish,
       FRows, FNoRows, FKilled, PStep, PSkip, PRetry, PDecoded, PPlanned, PTaken, PPassed,
       PRecall, PLeft, PMatched, PFailed, PBroken, PFinish, PNoHeader, PKilled, Within, SStep,
       StillRuns, Unmoved

(* The steps of the programs over frames.                                  *)
LEMMA FramesExtract ==
    ASSUME BatchInv, BatchInv', Extracting, OverFrames, FStep PROVE Extracting'
<1>1. BatchFields /\ BatchFields' /\ Fitted /\ OfAliked /\ OfGlue  BY DEF BatchInv, Extracting
<1>2. ~Matching /\ ~Matching'  BY <1>1, FramesOff DEF OverFrames, Matching, Running
<1>3. NoneShort' => NoneShort  BY AllNoted, NeverMoreMemory
<1>4. Fitted'  BY <1>1, <1>2, FramesFitted DEF Fitted
<1>5. OfAliked'
    <2> HIDE DEF OfEngine
    <2> QED BY <1>1, <1>3, AlikedOfEngine DEF OfAliked
<1>6. OfGlue'
    <2>1. files'["lightglue"] = files["lightglue"]
        BY <1>1, FramesOthers DEF OthersStay, OverFrames, Programs
    <2>2. Output' = Output /\ Pics' = Pics  BY <2>1, AllNoted, SamePics DEF Output
    <2> QED BY <1>1, <1>2, <1>3, <2>2 DEF OfGlue
<1> QED BY <1>4, <1>5, <1>6 DEF Extracting

(* The steps of lightglue_batch.                                           *)
LEMMA PairsExtract ==
    ASSUME BatchInv, BatchInv', Extracting, Matching, PStep PROVE Extracting'
<1>1. /\ BatchFields /\ BatchFields' /\ Fitted /\ OfAliked /\ OfGlue
      /\ batch.name = "lightglue" /\ batch.name \in Programs /\ batch.engine \in Extractors
    BY DEF BatchInv, BatchFields, Extracting, Matching, Running, Programs, Held
<1>2. NoneShort' => NoneShort  BY AllNoted, NeverMoreMemory
<1>3. OthersStay /\ batch'.name \in {"lightglue", "none"}
    BY <1>1, PairsOthers, SameOrNothing
<1>4. ~Running("aliked")'  BY <1>3 DEF Running
<1>5. Fitted'  BY <1>1, <1>4, PairsFitted DEF Fitted
<1>6. OfAliked'
    <2>1. files'["aliked"] = files["aliked"]  BY <1>1, <1>3 DEF OthersStay, Programs
    <2> QED BY <1>1, <1>2, <2>1 DEF OfAliked
<1>7. OfGlue'
    <2> SUFFICES ASSUME NoneShort'
                 PROVE  /\ Matching' => /\ CacheFrom(cache', Pics', batch'.engine)
                                        /\ RecordsFrom(Output'.records, Pics', batch'.engine)
                        /\ Output' # <<>> /\ ~Matching' =>
                              \E e \in Extractors :
                                 e.fp = Output'.fp /\ RecordsFrom(Output'.records, Pics', e)
        BY DEF OfGlue
    <2>1. /\ CacheFrom(cache, Pics, batch.engine)
          /\ RecordsFrom(Output.records, Pics, batch.engine)
          /\ Sought(InHand, batch) /\ Pics' = Pics
        BY <1>1, <1>2, AllNoted, SamePics DEF OfGlue, Fitted
    <2>2. RecordsFrom(Output'.records, Pics', batch.engine)  BY <2>1, RecordsComeOf
    <2>3. CASE Matching'
        BY <2>1, <2>2, <2>3, CacheComesOf, EngineStays
    <2>4. CASE ~Matching'
        <3>1. Output'.fp = batch.engine.fp  BY <2>4, FpStays
        <3> QED BY <1>1, <2>2, <2>4, <3>1
    <2> QED BY <2>3, <2>4
<1> QED BY <1>5, <1>6, <1>7 DEF Extracting

(* The start of a program.                                                 *)
LEMMA StartExtract ==
    ASSUME BatchInv, Extracting, batch.name = "none", SStep PROVE Extracting'
<1>1. /\ BatchFields /\ Fitted /\ OfAliked /\ OfGlue /\ ~Matching /\ cache = <<>>
    BY DEF BatchInv, Served, CacheInOrder, Extracting, Matching, Running
<1>2. Noted /\ Pics' = Pics  BY AllNoted, SamePics
<1>3. NoneShort' => NoneShort  BY <1>2, NeverMoreMemory
<1>4. Fitted'  BY <1>1, StartFitted DEF Fitted
<1>5. PICK p \in Programs :
          /\ status[p] = "none" /\ cache' = cache /\ Unmoved
          /\ \/ \E e \in Extractors : Begins(p, e)
             \/ p = "lightglue" /\ \E e \in Extractors : BeginsPairs(e)
             \/ Refuses(p)
    BY DEF SStep
<1>6. /\ dir \in Directories /\ lines \in PairLists /\ DOMAIN files = Programs
      /\ "lightglue" \in Programs /\ "aliked" \in Programs
    BY <1>1 DEF BatchFields, Programs
<1>7. ASSUME files' = files, ~Matching' PROVE Extracting'
    <2>1. OfAliked'  BY <1>1, <1>3, <1>7 DEF OfAliked
    <2>2. Output' = Output  BY <1>7 DEF Output
    <2>3. OfGlue'  BY <1>1, <1>2, <1>3, <1>7, <2>2 DEF OfGlue
    <2> QED BY <1>4, <2>1, <2>3 DEF Extracting
<1>8. ASSUME NEW e \in Extractors, Begins(p, e) PROVE Extracting'
    <2>1. batch'.name = p /\ p # "lightglue" /\ files' = files
        BY <1>6, <1>8, BegunHeld DEF Begins
    <2> QED BY <1>7, <2>1 DEF Matching, Running
<1>9. CASE Refuses(p)
    BY <1>7, <1>9 DEF Refuses, Matching, Running
<1>10. ASSUME NEW e \in Extractors, BeginsPairs(e) PROVE Extracting'
    <2>1. files' = [files EXCEPT !["lightglue"] = [n |-> 0, fp |-> e.fp, records |-> <<>>]]
        BY <1>10 DEF BeginsPairs
    <2>2. files'["aliked"] = files["aliked"] /\ Output'.records = <<>>
        BY <1>6, <2>1 DEF Output
    <2>3. OfAliked'  BY <1>1, <1>3, <2>2 DEF OfAliked
    <2>4. Matching'  BY <1>6, <1>10, PairsBegunHeld DEF Matching, Running
    <2>5. DOMAIN <<>> = {} /\ 1 .. Len(<<>>) = {}  OBVIOUS
    <2>6. CacheFrom(cache', Pics', batch'.engine)  BY <1>1, <1>5, <2>5 DEF CacheFrom
    <2>7. RecordsFrom(Output'.records, Pics', batch'.engine)  BY <2>2, <2>5 DEF RecordsFrom
    <2>8. OfGlue'  BY <2>4, <2>6, <2>7 DEF OfGlue
    <2> QED BY <1>4, <2>3, <2>8 DEF Extracting
<1> QED BY <1>5, <1>8, <1>9, <1>10

(* Every step extracts by the rule, or keeps what was.                     *)
LEMMA ExtractingGoesOn ==
    ASSUME BatchInv, BatchInv', Extracting, [BatchNext]_batchVars PROVE Extracting'
<1>1. CASE UNCHANGED batchVars
    <2>1. /\ dir' = dir /\ batch' = batch /\ cache' = cache /\ files' = files
          /\ breaks' = breaks
        BY <1>1 DEF batchVars
    <2>2. /\ Matching' = Matching /\ Running("aliked")' = Running("aliked") /\ Pics' = Pics
          /\ Output' = Output /\ InHand' = InHand /\ NoneShort' = NoneShort
        BY <2>1, SamePics, SameInHand DEF Matching, Running, Output, NoneShort
    <2> QED BY <2>1, <2>2 DEF Extracting, Fitted, OfAliked, OfGlue
<1> QED BY <1>1, StepKinds, FramesExtract, PairsExtract, StartExtract

------------------------------------------------------------------------------
(* The frame that is found by its number is the one aliked_batch wrote of. *)
LEMMA FoundIsFrame ==
    ASSUME NEW i, Decodes(PathFor(i))
    PROVE  PathFor(i) \in Frames /\ PathFor(i).stem = i
<1> DEFINE there == {c \in DOMAIN Candidates : \E f \in dir : f.stem = i /\ f.ext = Candidates[c]}
           none == [stem |-> i, ext |-> "jpg", size |-> <<1, 1>>, whole |-> FALSE]
           first == CHOOSE c \in there : \A d \in there : c <= d
           found == CHOOSE f \in dir : f.stem = i /\ f.ext = Candidates[first]
<1>1. PathFor(i) = IF there = {} THEN none ELSE found  BY DEF PathFor
<1>2. ~Decodes(none)  BY DEF Decodes
<1>3. there # {} /\ PathFor(i) = found  BY <1>1, <1>2
<1>4. DOMAIN Candidates = {1, 2, 3, 4, 5, 6}
    <2>1. DOMAIN Candidates = 1 .. 6  BY DEF Candidates
    <2>2. 1 .. 6 = {1, 2, 3, 4, 5, 6}  OBVIOUS
    <2> QED BY <2>1, <2>2
<1>5. there \subseteq {1, 2, 3, 4, 5, 6}  BY <1>4
<1>6. first \in there
    <2> HIDE DEF there
    <2>1. \E c \in there : \A d \in there : c <= d
        <3>1. CASE 1 \in there
            <4>1. \A d \in there : 1 <= d  BY <1>5
            <4> QED BY <3>1, <4>1
        <3>2. CASE 1 \notin there /\ 2 \in there
            <4>1. \A d \in there : 2 <= d  BY <1>5, <3>2
            <4> QED BY <3>2, <4>1
        <3>3. CASE 1 \notin there /\ 2 \notin there /\ 3 \in there
            <4>1. \A d \in there : 3 <= d  BY <1>5, <3>3
            <4> QED BY <3>3, <4>1
        <3>4. CASE 1 \notin there /\ 2 \notin there /\ 3 \notin there /\ 4 \in there
            <4>1. \A d \in there : 4 <= d  BY <1>5, <3>4
            <4> QED BY <3>4, <4>1
        <3>5. CASE 1 \notin there /\ 2 \notin there /\ 3 \notin there /\ 4 \notin there /\ 5 \in there
            <4>1. \A d \in there : 5 <= d  BY <1>5, <3>5
            <4> QED BY <3>5, <4>1
        <3>6. CASE there = {6}
            BY <3>6
        <3> QED BY <1>3, <1>5, <3>1, <3>2, <3>3, <3>4, <3>5, <3>6
    <2> QED BY <2>1
<1>7. \E f \in dir : f.stem = i /\ f.ext = Candidates[first]  BY <1>6
<1> HIDE DEF first
<1>8. found \in dir /\ found.stem = i  BY <1>7
<1> HIDE DEF found
<1>9. found.ext \in ToSet(FrameExts)  BY <1>3 DEF Decodes
<1>10. ToSet(FrameExts) = {"jpg", "jpeg", "png"}
    <2>1. DOMAIN FrameExts = {1, 2, 3}
        <3>1. DOMAIN FrameExts = 1 .. 3  BY DEF FrameExts
        <3>2. 1 .. 3 = {1, 2, 3}  OBVIOUS
        <3> QED BY <3>1, <3>2
    <2>2. FrameExts[1] = "jpg" /\ FrameExts[2] = "jpeg" /\ FrameExts[3] = "png"  BY DEF FrameExts
    <2> QED BY <2>1, <2>2 DEF ToSet
<1>11. Lower(found.ext) = found.ext  BY <1>9, <1>10 DEF Lower
<1> QED BY <1>3, <1>8, <1>9, <1>11 DEF Frames

(* Two engines of one fingerprint make the same of a frame.                *)
LEMMA OneEngineOneResult ==
    ASSUME OneEngineAFingerprint, NEW e \in Extractors, NEW g \in Extractors, e.fp = g.fp,
           NEW f, NEW x, NEW y, Properly(x, f, e), Properly(y, f, g)
    PROVE  x = y
<1>1. e.maxSide = g.maxSide  BY DEF OneEngineAFingerprint
<1>2. Chosen(f, e) = Chosen(f, g)  BY <1>1 DEF Chosen, Suits
<1> QED BY <1>2 DEF Properly, Extraction

(* Both programs have fitted the frame by one rule.                        *)
LEMMA PixelsAreTheSame ==
    ASSUME OneEngineAFingerprint, BatchInv, FilesInv, Extracting
    PROVE  SamePixelsWithMemory
<1> SUFFICES ASSUME NoneShort, status["aliked"] = "ok", status["lightglue"] = "ok",
                    NEW r \in ToSet(Output.records), NEW side \in {1, 2},
                    Output.fp = files["aliked"][r.pair[side]].fp
             PROVE  r.of[side] = files["aliked"][r.pair[side]]
    BY DEF SamePixelsWithMemory, SamePixels, NoneShort, Output
<1> DEFINE i == r.pair[side]
           f == PathFor(i)
           x == files["aliked"][i]
<1>1. ~Matching  BY DEF BatchInv, BatchFields, Matching, Running, Programs
<1>2. OutputOf(Output)  BY DEF BatchInv, Outputs, MatchesComplete
<1>3. Output # <<>>
    <2>1. DOMAIN <<>> = {} /\ "n" \in DOMAIN Output  BY <1>2 DEF OutputOf, Headed
    <2> QED BY <2>1
<1>4. PICK e \in Extractors : e.fp = Output.fp /\ RecordsFrom(Output.records, Pics, e)
    BY <1>1, <1>3 DEF Extracting, OfGlue
<1>5. PICK k \in 1 .. Len(Output.records) : r = Output.records[k]
    BY <1>2 DEF OutputOf, Long, ToSet
<1>6. i \in Nat /\ OfPicture(r.of[side], Pics[i], e)  BY <1>4, <1>5 DEF RecordsFrom
<1>7. Decodes(f) /\ Properly(r.of[side], f, e)  BY <1>6 DEF OfPicture, Pics
<1>8. f \in Frames /\ f.stem = i  BY <1>7, FoundIsFrame
<1>9. CompleteFiles(files["aliked"], Frames)  BY DEF FilesInv, FilesComplete
<1>10. i \in DOMAIN files["aliked"] /\ x # Torn /\ x.file = f
    BY <1>8, <1>9 DEF CompleteFiles, WholeIn
<1>11. PICK g \in Extractors : Properly(x, f, g)
    BY <1>10 DEF Extracting, OfAliked, OfEngine
<1>12. x.fp = g.fp  BY <1>11 DEF Properly, Extraction
<1> HIDE DEF f, x
<1>13. e.fp = g.fp  BY <1>4, <1>12 DEF x
<1> QED BY <1>7, <1>11, <1>13, OneEngineOneResult DEF x

(* Matches are indices into the keypoints of another program. If both      *)
(* programs succeed, no upload or allocation has failed, and the fingerprints*)
(* agree, then every match was made from the very extraction that is in the*)
(* file of its frame: aliked_batch and lightglue_batch fit a frame of any size*)
(* by the same rule, retries and all. A fingerprint stands for one engine. *)
THEOREM MatchesAreOfTheKeypoints ==
    ASSUME OneFrameAStem, OneEngineAFingerprint PROVE BatchSpec => []SamePixelsWithMemory
<1>1. BatchInit => FilesInv /\ Extracting  BY FilesBegin, ExtractingBegins
<1>2. BatchInv /\ BatchInv' /\ FilesInv /\ Extracting /\ [BatchNext]_batchVars
          => FilesInv' /\ Extracting'
    BY FilesGoOn, ExtractingGoesOn
<1>3. BatchInv /\ FilesInv /\ Extracting => SamePixelsWithMemory  BY PixelsAreTheSame
<1> QED BY <1>1, <1>2, <1>3, BatchAlways, PTL DEF BatchSpec
=============================================================================
