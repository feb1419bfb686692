------------------------- MODULE LiveViewProperties -------------------------
(***************************************************************************)
(* What a viewer of the live view may rely on.                             *)
(***************************************************************************)
EXTENDS LiveView, Integers

AccessUnit == [n : Nat \ {0}, key : BOOLEAN]
Message == [kind : {"config"}, view : View]
           \cup [kind : {"frame"}, view : View, au : AccessUnit]
Decoder == [cfg : BOOLEAN, waitkey : BOOLEAN,
            dec : {"none", "bare", "configured"}, last : AccessUnit \cup {NoFrame}]

WorkerState == [pc : {"check", "wait", "encode", "config", "cast", "frames"},
                set : Nat, at : DOMAIN Views, aus : Seq(AccessUnit)]
EncoderState == [n : Nat, sinceKey : 0 .. Gop - 1, pending : Seq(AccessUnit),
                 codec : BOOLEAN, cfg_sent : BOOLEAN]
Connection == [pc : {"closed", "upgraded", "joined", "relay"},
               cfgs : SUBSET View, started : SUBSET View]

(* Type correctness; no viewer is ever more than its queue behind. *)
TypeOK ==
    /\ slot \in Nat
    /\ producer \in [sets : Nat, notify : BOOLEAN]
    /\ worker \in WorkerState
    /\ encoder \in [View -> EncoderState]
    /\ configs \subseteq View
    /\ clients \subseteq Viewer
    /\ queue \in [Viewer -> Seq(Message)]
    /\ \A v \in Viewer : Len(queue[v]) <= QueueCap
    /\ conn \in [Viewer -> Connection]
    /\ page \in [Viewer -> [View -> Decoder]]
    /\ losses \in Nat

(* No decoder is fed before it has been configured with its view's avcC    *)
(* record, however a subscription falls between the two halves of          *)
(* publish_config.                                                         *)
ConfiguredFirst ==
    \A v \in Viewer, s \in View :
        page[v][s].last # NoFrame => page[v][s].dec = "configured"

(* A decoder is only ever fed a keyframe, or the frame right after the one *)
(* it was fed last: a viewer that falls behind, loses its connection or    *)
(* resets its decoder never decodes across a gap.                          *)
GapFree ==
    [][\A v \in Viewer, s \in View :
          LET was == page[v][s].last
              is == page'[v][s].last
          IN  is \notin {was, NoFrame} =>
                 is.key \/ (was # NoFrame /\ is.n = was.n + 1)]_vars

(* What the two of them rest on. The frames of a view in order: pulled by   *)
(* the worker after those it has cast (Sent), pending after those.         *)
Current == Views[worker.at]
Sent(s) == encoder[s].n - Len(encoder[s].pending)
           - (IF s = Current THEN Len(worker.aus) ELSE 0)

EncodersInOrder ==
    \A s \in View :
        /\ \A i \in DOMAIN encoder[s].pending :
              encoder[s].pending[i].n = encoder[s].n - Len(encoder[s].pending) + i
        /\ encoder[s].cfg_sent => s \in configs
WorkerInOrder ==
    /\ worker.pc \in {"check", "wait", "encode"} => worker.aus = <<>>
    /\ \A i \in DOMAIN worker.aus : worker.aus[i].n = Sent(Current) + i
    /\ worker.aus # <<>> => encoder[Current].codec
    /\ worker.pc = "cast" => Current \in configs
    /\ worker.pc = "frames" /\ worker.aus # <<>> => encoder[Current].cfg_sent

(* In a queue q the frames of a view follow one another and what decoder d *)
(* was fed last, up to number n if the viewer is still being sent to; and  *)
(* none comes before a config unless the decoder has it or is about to be  *)
(* given it.                                                               *)
FramesOf(q, s) == {k \in DOMAIN q : q[k].kind = "frame" /\ q[k].view = s}
Contiguous(q, d, s) ==
    /\ \A k \in FramesOf(q, s) :
          (\A j \in FramesOf(q, s) : k <= j) /\ ~d.waitkey
             => q[k].au.n = d.last.n + 1
    /\ \A j, k \in FramesOf(q, s) :
          j < k /\ (\A i \in FramesOf(q, s) : i <= j \/ k <= i)
             => q[k].au.n = q[j].au.n + 1
UpToDate(q, d, s, n) ==
    /\ \A k \in FramesOf(q, s) :
          (\A j \in FramesOf(q, s) : j <= k) => q[k].au.n = n
    /\ FramesOf(q, s) = {} /\ ~d.waitkey => d.last.n = n
Announced(q, s) ==
    \A k \in FramesOf(q, s) : \E j \in 1 .. k - 1 : q[j] = Config(s)

Decoding(d) ==
    /\ d.cfg => d.dec # "bare"
    /\ d.last # NoFrame => d.dec = "configured"
    /\ ~d.waitkey => d.last # NoFrame
Given(v, s) == \/ page[v][s].cfg
               \/ s \in conn[v].cfgs
               \/ conn[v].pc = "joined" /\ s \in configs
Served(v, s) ==
    /\ Decoding(page[v][s])
    /\ ~page[v][s].waitkey => s \in conn[v].started
    /\ Given(v, s) \/ Announced(queue[v], s)
    /\ Contiguous(queue[v], page[v][s], s)
    /\ v \in clients =>
          /\ encoder[s].cfg_sent =>
                Given(v, s) \/ \E j \in DOMAIN queue[v] : queue[v][j] = Config(s)
          /\ UpToDate(queue[v], page[v][s], s, Sent(s))
ViewerInOrder(v) ==
    /\ conn[v].pc \in {"closed", "upgraded"} => v \notin clients /\ queue[v] = <<>>
    /\ conn[v].pc # "relay" => conn[v].started = {} /\ conn[v].cfgs = {}
    /\ \A s \in View : Served(v, s)
ViewersInOrder == \A v \in Viewer : ViewerInOrder(v)
LiveInv == EncodersInOrder /\ WorkerInOrder /\ ViewersInOrder

(* "viewers always get the freshest": whatever the producer submits, the   *)
(* worker takes that set or a later one; no notification is lost.          *)
FreshestEncoded ==
    \A n \in 1 .. MaxSets : producer.sets = n ~> worker.set >= n

(* A viewer that was let go because its queue was full notices, reconnects *)
(* and is served again.                                                    *)
DroppedViewerReturns ==
    \A v \in Viewer : conn[v].pc = "relay" /\ v \notin clients ~> v \in clients
=============================================================================
