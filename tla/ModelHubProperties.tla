------------------------- MODULE ModelHubProperties --------------------------
(***************************************************************************)
(* What a caller of from_hub relies on.                                    *)
(***************************************************************************)
EXTENDS ModelHub

(* A prebuilt engine that is handed out was built for this TensorRT and    *)
(* GPU, at the one precision the flags ask for, for the shapes asked for:  *)
(* the others load and then return wrong numbers or refuse every frame.    *)
ServedAsAsked ==
    \A c \in Caller : calls[c].pc = "engine" =>
        LET ask == calls[c].ask
            art == CHOOSE e \in ToSet(Registry[ask.name].engines) : e.file = calls[c].path
        IN  /\ art.box = box
            /\ ask.profile.fp16 <=> art.precision = "fp16"
            /\ ask.profile.bf16 <=> art.precision = "bf16"
            /\ ToSet(art.shapes) = ToSet(ask.profile.inputs)

(* On the box the registry has engines for, whoever asks for a model by    *)
(* the profile one of its engines has gets that engine and does not wait   *)
(* for a build: the profiles of the crates, the tags written by hand and   *)
(* the order their inputs are declared in agree.                           *)
PrebuiltIsServed ==
    \A c \in Caller : calls[c].pc = "onnx" =>
        ~\E e \in ToSet(Registry[calls[c].ask.name].engines) :
            /\ e.box = box
            /\ e.precision = Precision(calls[c].ask.profile)
            /\ ToSet(e.shapes) = ToSet(calls[c].ask.profile.inputs)

(* What a call returns is the entry point of a model all of whose files,   *)
(* the weights beside the graph too, are in the cache, unless a download   *)
(* went wrong, for which another process may take any file away.           *)
ModelIsWhole ==
    \A c \in Caller : calls[c].pc = "onnx" =>
        LET files == Registry[calls[c].ask.name].files
        IN  /\ calls[c].path = files[1]
            /\ mishaps.bad = 0 => \A f \in ToSet(files) : hub[f] = "good"

(* When all calls are over no corrupt file is left behind for the next     *)
(* run to trip over, unless a process was killed before it could look.     *)
NoBadLeft ==
    (\A c \in Caller : calls[c].pc \notin {"get", "verify", "remove"}) =>
        mishaps.kills > 0 \/ \A f \in Published : hub[f] # "bad"

(* "a retry re-downloads instead of re-verifying the same corrupt bytes    *)
(* from the HF cache forever": whatever was corrupted, interrupted or      *)
(* removed by another, a caller that asks again gets its model at last,    *)
(* once downloads stop failing, unless another process, which removes what *)
(* it did not find whole, forever does so before this one has looked.      *)
Refused(c) == calls[c].pc = "failed" /\ calls[c].error \in {"unknown", "profile"}
Disturbed(c) == \E d \in Caller \ {c} : calls[d].pc = "remove"
RetryHeals ==
    \A c \in Caller : []<>(calls[c].pc \in Returned \cup {"free"} \/ Refused(c) \/ Disturbed(c))

(* A constructor that is published with the model it loads finds it in the *)
(* registry: crates/vrt-lightglue/README.md says of LightGlue::from_hub    *)
(* that it "pulls the pinned ONNX".                                        *)
ConstructorsKnown == \A c \in Caller : calls[c].pc = "failed" => calls[c].error # "unknown"

(* The hub delivers: of the prebuilt engines a caller gets one that fits,  *)
(* whenever there is one, and no other; whoever was given a model finds    *)
(* all of it in the cache, and nothing corrupt stays once all are done.    *)
HubDelivers == ServedAsAsked /\ PrebuiltIsServed /\ ModelIsWhole /\ NoBadLeft
==============================================================================
