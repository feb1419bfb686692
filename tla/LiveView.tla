------------------------------ MODULE LiveView ------------------------------
(***************************************************************************)
(* The live view (vrt-viz): a producer thread hands sets of rendered views *)
(* to an encode worker through a slot that keeps the latest one; the worker *)
(* encodes every view and fans the access units out to viewers; a thread   *)
(* per viewer relays its queue over a WebSocket; the page in the browser   *)
(* feeds one decoder per view.                                             *)
(*                                                                         *)
(* A frame of a view is its number among the frames its encoder accepted,  *)
(* and whether it is a keyframe. Pixels, bitrates and the pacing of the    *)
(* display are left out; a codec config is there or not (an encoder never  *)
(* changes its own). What a socket has in flight belongs to the viewer:    *)
(* the relay hands a message straight to the page.                         *)
(***************************************************************************)
EXTENDS Naturals, Sequences

CONSTANTS
    Views,       \* the sequence of views of a set, in encoding order
    Viewer,      \* browser pages
    QueueCap,    \* messages a viewer may be behind
    Gop,         \* a keyframe at least every Gop frames
    MaxSets,     \* bound on the sets submitted
    MaxLosses    \* bound on the connections that break by themselves

View == {Views[i] : i \in DOMAIN Views}

(* A set is never empty: submit takes three pictures. *)
ASSUME LiveViewAssumption ==
    /\ Views \in Seq(View) /\ Views # <<>>
    /\ \A i, j \in DOMAIN Views : Views[i] = Views[j] => i = j
    /\ {QueueCap, Gop} \subseteq Nat \ {0}
    /\ {MaxSets, MaxLosses} \subseteq Nat

VARIABLES
    slot,        \* the set waiting to be encoded, 0 if none
    producer,    \* sets submitted, and whether the last one was notified
    worker,      \* the encode worker
    encoder,     \* per view: frames accepted, units not yet pulled, codec data
    configs,     \* views whose codec config H264Cast has cached
    clients,     \* viewers H264Cast has a sender for
    queue,       \* what was sent to each viewer and not yet relayed
    conn,        \* the thread that serves each viewer
    page,        \* per viewer and view: the decoder in the browser
    losses

vars == <<slot, producer, worker, encoder, configs, clients, queue, conn, page,
          losses>>
encoding == <<slot, producer, worker, encoder, configs>>
serving == <<clients, queue, conn, page, losses>>

NoFrame == [n |-> 0, key |-> FALSE]
Config(s) == [kind |-> "config", view |-> s]
Frame(s, au) == [kind |-> "frame", view |-> s, au |-> au]

NewEncoder == [n |-> 0, sinceKey |-> 0, pending |-> <<>>, codec |-> FALSE,
               cfg_sent |-> FALSE]
AtSlot == [pc |-> "check", set |-> 0, at |-> 1, aus |-> <<>>]
Closed == [pc |-> "closed", cfgs |-> {}, started |-> {}]
NewDecoder == [cfg |-> FALSE, dec |-> "none", waitkey |-> TRUE, last |-> NoFrame]

Init ==
    /\ slot = 0
    /\ producer = [sets |-> 0, notify |-> FALSE]
    /\ worker = AtSlot
    /\ encoder = [s \in View |-> NewEncoder]
    /\ configs = {}
    /\ clients = {}
    /\ queue = [v \in Viewer |-> <<>>]
    /\ conn = [v \in Viewer |-> Closed]
    /\ page = [v \in Viewer |-> [s \in View |-> NewDecoder]]
    /\ losses = 0
-----------------------------------------------------------------------------
(* LiveStream::submit: overwrite the slot under its lock, then notify.     *)
Submit ==
    /\ ~producer.notify
    /\ producer.sets < MaxSets
    /\ slot' = producer.sets + 1
    /\ producer' = [sets |-> producer.sets + 1, notify |-> TRUE]
    /\ UNCHANGED <<worker, encoder, configs>> /\ UNCHANGED serving

Notify ==
    /\ producer.notify
    /\ producer' = [producer EXCEPT !.notify = FALSE]
    /\ worker' = IF worker.pc = "wait" THEN [worker EXCEPT !.pc = "check"]
                                       ELSE worker
    /\ UNCHANGED <<slot, encoder, configs>> /\ UNCHANGED serving

(* The worker looks at the slot under the lock: it takes the set, or waits *)
(* on the condition variable, where it may also wake for no reason.        *)
Take ==
    /\ worker.pc = "check"
    /\ slot # 0
    /\ worker' = [pc |-> "encode", set |-> slot, at |-> 1, aus |-> <<>>]
    /\ slot' = 0
    /\ UNCHANGED <<producer, encoder, configs>> /\ UNCHANGED serving

(* Faults, each of which would break a property and none of which is used: *)
(* WaitFault looks at the slot before it takes the lock.                   *)
WaitFault ==
    /\ worker.pc = "check"
    /\ worker' = [worker EXCEPT !.pc = "wait"]
    /\ UNCHANGED <<slot, producer, encoder, configs>> /\ UNCHANGED serving

Wait ==
    /\ worker.pc = "check"
    /\ slot = 0
    /\ worker' = [worker EXCEPT !.pc = "wait"]
    /\ UNCHANGED <<slot, producer, encoder, configs>> /\ UNCHANGED serving

SpuriousWakeup ==
    /\ worker.pc = "wait"
    /\ worker' = [worker EXCEPT !.pc = "check"]
    /\ UNCHANGED <<slot, producer, encoder, configs>> /\ UNCHANGED serving

(* The worker is done with this view of the set: on to the next, or back   *)
(* to the slot.                                                            *)
NextView(w) == IF w.at < Len(Views)
               THEN [w EXCEPT !.pc = "encode", !.at = @ + 1, !.aus = <<>>]
               ELSE [w EXCEPT !.pc = "check", !.at = 1, !.aus = <<>>]

(* H264Encoder::encode pushes the frame and pulls what the pipeline has    *)
(* finished: usually this one, none when 500 ms were not enough, more when *)
(* it catches up. The first unit pulled brings the codec data.             *)
Encode ==
    LET s == Views[worker.at]
        e == encoder[s]
    IN  /\ worker.pc = "encode"
        /\ \E key \in BOOLEAN :
              /\ e.n = 0 \/ e.sinceKey + 1 >= Gop => key
              /\ LET done == Append(e.pending, [n |-> e.n + 1, key |-> key])
                 IN  \E pulled \in 0 .. Len(done) :
                        /\ worker' = [worker EXCEPT !.pc = "config",
                                        !.aus = SubSeq(done, 1, pulled)]
                        /\ encoder' = [encoder EXCEPT ![s] =
                              [e EXCEPT !.n = @ + 1,
                                        !.sinceKey = IF key THEN 0 ELSE @ + 1,
                                        !.pending = SubSeq(done, pulled + 1, Len(done)),
                                        !.codec = @ \/ pulled > 0]]
        /\ UNCHANGED <<slot, producer, configs>> /\ UNCHANGED serving

(* The pipeline refuses the frame: the worker skips the view. *)
EncodeFails ==
    /\ worker.pc = "encode"
    /\ worker' = NextView(worker)
    /\ UNCHANGED <<slot, producer, encoder, configs>> /\ UNCHANGED serving

(* publish_config, first half: cache the config under its lock.            *)
CacheConfig ==
    LET s == Views[worker.at]
    IN  /\ worker.pc = "config"
        /\ encoder[s].codec /\ ~encoder[s].cfg_sent
        /\ configs' = configs \cup {s}
        /\ worker' = [worker EXCEPT !.pc = "cast"]
        /\ UNCHANGED <<slot, producer, encoder>> /\ UNCHANGED serving

NoConfig ==
    LET s == Views[worker.at]
    IN  /\ worker.pc = "config"
        /\ ~encoder[s].codec \/ encoder[s].cfg_sent
        /\ worker' = [worker EXCEPT !.pc = "frames"]
        /\ UNCHANGED <<slot, producer, encoder, configs>> /\ UNCHANGED serving

(* H264Cast::broadcast: try_send to everyone, and let go of the viewers    *)
(* whose queue is full. A sender whose receiver is gone counts as none.    *)
(* Fault: a full queue loses the message.                   *)
BroadcastFault(msg) ==
    /\ UNCHANGED clients
    /\ queue' = [v \in Viewer |-> IF v \in clients /\ Len(queue[v]) < QueueCap
                                  THEN Append(queue[v], msg) ELSE queue[v]]

Broadcast(msg) ==
    /\ clients' = {v \in clients : Len(queue[v]) < QueueCap}
    /\ queue' = [v \in Viewer |-> IF v \in clients' THEN Append(queue[v], msg)
                                                    ELSE queue[v]]

CastConfig ==
    LET s == Views[worker.at]
    IN  /\ worker.pc = "cast"
        /\ Broadcast(Config(s))
        /\ encoder' = [encoder EXCEPT ![s].cfg_sent = TRUE]
        /\ worker' = [worker EXCEPT !.pc = "frames"]
        /\ UNCHANGED <<slot, producer, configs, conn, page, losses>>

CastFrame ==
    /\ worker.pc = "frames"
    /\ worker.aus # <<>>
    /\ Broadcast(Frame(Views[worker.at], Head(worker.aus)))
    /\ worker' = [worker EXCEPT !.aus = Tail(@)]
    /\ UNCHANGED <<slot, producer, encoder, configs, conn, page, losses>>

ViewDone ==
    /\ worker.pc = "frames"
    /\ worker.aus = <<>>
    /\ worker' = NextView(worker)
    /\ UNCHANGED <<slot, producer, encoder, configs>> /\ UNCHANGED serving
-----------------------------------------------------------------------------
(* A page opens the socket and the server upgrades it. *)
ConnectFault(v) ==     \* only when the page is loaded
    /\ conn[v].pc = "closed"
    /\ \A s \in View : ~page[v][s].cfg
    /\ conn' = [conn EXCEPT ![v].pc = "upgraded"]
    /\ UNCHANGED <<clients, queue, page, losses>> /\ UNCHANGED encoding

Connect(v) ==
    /\ conn[v].pc = "closed"
    /\ conn' = [conn EXCEPT ![v].pc = "upgraded"]
    /\ UNCHANGED <<clients, queue, page, losses>> /\ UNCHANGED encoding

(* subscribe: first the sender is registered, then the configs are copied. *)
Join(v) ==
    /\ conn[v].pc = "upgraded"
    /\ clients' = clients \cup {v}
    /\ conn' = [conn EXCEPT ![v].pc = "joined"]
    /\ UNCHANGED <<queue, page, losses>> /\ UNCHANGED encoding

CopyConfigsFault(v) == \* relying on the broadcast alone
    /\ conn[v].pc = "joined"
    /\ conn' = [conn EXCEPT ![v].pc = "relay"]
    /\ UNCHANGED <<clients, queue, page, losses>> /\ UNCHANGED encoding

CopyConfigs(v) ==
    /\ conn[v].pc = "joined"
    /\ conn' = [conn EXCEPT ![v].pc = "relay", ![v].cfgs = configs]
    /\ UNCHANGED <<clients, queue, page, losses>> /\ UNCHANGED encoding

(* The page (client.html): reset closes a decoder, ensureDec opens one with *)
(* the config the page has, if any.                                        *)
ResetDec(d) == [d EXCEPT !.dec = "none", !.waitkey = TRUE, !.last = NoFrame]
EnsureDec(d) == IF d.dec = "none"
                THEN [d EXCEPT !.dec = IF d.cfg THEN "configured" ELSE "bare"]
                ELSE d

OnConfig(d) == EnsureDec(ResetDec([d EXCEPT !.cfg = TRUE]))

(* onmessage with a frame: wait for a keyframe, then decode; decode may     *)
(* throw, and then the page waits for a keyframe again.                    *)
OnFrame(d, au) ==
    LET open == EnsureDec(d)
    IN  IF open.waitkey /\ ~au.key THEN {open}
        ELSE {[open EXCEPT !.waitkey = FALSE, !.last = au],
              [open EXCEPT !.waitkey = TRUE]}

(* serve_ws_h264: the cached configs go out first. *)
SendConfig(v) ==
    /\ conn[v].pc = "relay"
    /\ \E s \in conn[v].cfgs :
          /\ conn' = [conn EXCEPT ![v].cfgs = @ \ {s}]
          /\ page' = [page EXCEPT ![v][s] = OnConfig(@)]
    /\ UNCHANGED <<clients, queue, losses>> /\ UNCHANGED encoding

Relaying(v) == conn[v].pc = "relay" /\ conn[v].cfgs = {}

RelayConfig(v) ==
    /\ Relaying(v)
    /\ queue[v] # <<>> /\ Head(queue[v]).kind = "config"
    /\ queue' = [queue EXCEPT ![v] = Tail(@)]
    /\ page' = [page EXCEPT ![v][Head(queue[v]).view] = OnConfig(@)]
    /\ UNCHANGED <<clients, conn, losses>> /\ UNCHANGED encoding

(* Deltas before the first keyframe of a view are not sent. *)
RelayFrame(v) ==
    LET msg == Head(queue[v])
        s == msg.view
    IN  /\ Relaying(v)
        /\ queue[v] # <<>> /\ msg.kind = "frame"
        /\ queue' = [queue EXCEPT ![v] = Tail(@)]
        /\ IF s \in conn[v].started \/ msg.au.key
           THEN /\ conn' = [conn EXCEPT ![v].started = @ \cup {s}]
                /\ \E d \in OnFrame(page[v][s], msg.au) :
                      page' = [page EXCEPT ![v][s] = d]
           ELSE UNCHANGED <<conn, page>>
        /\ UNCHANGED <<clients, losses>> /\ UNCHANGED encoding

(* The connection is gone: its thread and receiver are, and onclose resets  *)
(* the decoders (the page keeps the configs it has seen).                  *)
Disconnect(v) ==
    /\ conn' = [conn EXCEPT ![v] = Closed]
    /\ clients' = clients \ {v}
    /\ queue' = [queue EXCEPT ![v] = <<>>]
    /\ UNCHANGED encoding

(* A viewer that was let go gets what its queue still holds; then the      *)
(* receiver ends and the server closes the socket.                         *)
RelayEnds(v) ==
    /\ Relaying(v)
    /\ queue[v] = <<>>
    /\ v \notin clients
    /\ Disconnect(v)
    /\ page' = [page EXCEPT ![v] = [s \in View |-> ResetDec(page[v][s])]]
    /\ UNCHANGED losses

(* The network fails, or the user reloads the page. *)
ConnectionLost(v) ==
    /\ conn[v].pc # "closed"
    /\ losses < MaxLosses
    /\ losses' = losses + 1
    /\ Disconnect(v)
    /\ \E d \in {[s \in View |-> ResetDec(page[v][s])],
                 [s \in View |-> NewDecoder]} :
          page' = [page EXCEPT ![v] = d]

(* The decoder reports an error some time after it was fed: resync.        *)
DecoderError(v) ==
    /\ \E s \in View :
          /\ page[v][s].last # NoFrame
          /\ page' = [page EXCEPT ![v][s] = EnsureDec(ResetDec(@))]
    /\ UNCHANGED <<clients, queue, conn, losses>> /\ UNCHANGED encoding
-----------------------------------------------------------------------------
Work == \/ Take \/ Wait \/ Encode \/ EncodeFails \/ CacheConfig \/ NoConfig
        \/ CastConfig \/ CastFrame \/ ViewDone
Serve(v) == \/ Connect(v) \/ Join(v) \/ CopyConfigs(v) \/ SendConfig(v)
            \/ RelayConfig(v) \/ RelayFrame(v) \/ RelayEnds(v)

Next == \/ Submit \/ Notify \/ Work \/ SpuriousWakeup
        \/ \E v \in Viewer : Serve(v) \/ ConnectionLost(v) \/ DecoderError(v)

Spec == Init /\ [][Next]_vars

(* The threads run; a page reconnects by its timer and reads its socket.   *)
FairSpec == /\ Spec
            /\ WF_vars(Notify) /\ WF_vars(Work)
            /\ \A v \in Viewer : WF_vars(Serve(v))
=============================================================================
