------------------------------ MODULE ModelHub -------------------------------
(***************************************************************************)
(* vrt-hub, in front of the engine cache: the registry of published models *)
(* and engines, the choice of a prebuilt engine for a box and a profile,   *)
(* and the verified download, by several processes over the one cache of   *)
(* Hugging Face. What resolve_engine makes of an ONNX file afterwards is   *)
(* module EngineCache.                                                     *)
(***************************************************************************)
EXTENDS Naturals, Sequences, FiniteSets, SequencesExt

CONSTANTS
    Caller,     \* processes that ask for a model
    Requests,   \* what they ask for: constructors of the model crates
    Boxes,      \* TensorRT version and compute capability, <<trt, sm>>
    MaxBad,     \* bound on downloads that go wrong
    MaxKills    \* bound on processes that are killed

VARIABLES
    box,        \* where all this runs
    hub,        \* published file -> "none", "good" or "bad" in the local cache
    calls,      \* caller -> its call
    mishaps     \* downloads that went wrong, and kills

hubVars == <<box, hub, calls, mishaps>>
------------------------------------------------------------------------------
(* The registry. A model is files, the entry point first, and engines with *)
(* what they were built by and for; shapes are by input, as written there. *)
Orin == <<"10.3.0.30", "87">>
Engine(file, precision, shapes) ==
    [file |-> file, box |-> Orin, precision |-> precision, shapes |-> shapes]
Static == <<>>
OneShape(input, dims) == <<input, dims, dims, dims>>

Images == <<"images", <<1, 3, 256, 256>>, <<2, 3, 512, 512>>, <<2, 3, 640, 640>>>>
Image == <<"image", <<1, 3, 240, 320>>, <<1, 3, 640, 640>>, <<1, 3, 1088, 1920>>>>
Descriptors(k) == OneShape("descriptors", <<2, 1, k, 128>>)
Keypoints(k) == OneShape("normalized_keypoints", <<2, 1, k, 2>>)

ExtractorOf(file, engines) == [files |-> <<file>>, engines |-> engines]
ExtractorEngine(file) == Engine(file, "fp16", <<Images>>)
MatcherOf(file, engine, k) ==
    [files |-> <<file>>,
     engines |-> <<Engine(engine, "fp16", <<Descriptors(k), Keypoints(k)>>)>>]
FixedSize(file, engine, precision) ==
    [files |-> <<file>>, engines |-> <<Engine(engine, precision, Static)>>]

Registry ==
    [raco_k3072 |-> ExtractorOf("raco3072.onnx", <<ExtractorEngine("raco3072.engine")>>),
     raco_k1024 |-> ExtractorOf("raco1024.onnx", <<ExtractorEngine("raco1024.engine")>>),
     raco_k512  |-> ExtractorOf("raco512.onnx", <<>>),
     glue_k3072 |-> MatcherOf("glue3072.onnx", "glue3072.engine", 3072),
     glue_k1024 |-> MatcherOf("glue1024.onnx", "glue1024.engine", 1024),
     glue_k512  |-> MatcherOf("glue512.onnx", "glue512.engine", 512),
     xfeat  |-> [files |-> <<"xfeat.onnx", "xfeat.data">>,
                 engines |-> <<Engine("xfeat.engine", "fp16", <<Image>>)>>],
     rfdetr |-> FixedSize("rfdetr.onnx", "rfdetr.engine", "fp16"),
     kpts   |-> FixedSize("kpts.onnx", "kpts.engine", "fp16"),
     seg    |-> FixedSize("seg.onnx", "seg.engine", "fp16"),
     depth  |-> FixedSize("depth.onnx", "depth.engine", "fp16"),
     osnet  |-> FixedSize("osnet.onnx", "osnet.engine", "fp32"),
     dino   |-> [files |-> <<"dino.onnx", "dino.data">>,
                 engines |-> <<Engine("dino.engine", "bf16", Static)>>]]

(* The published files that anyone here may download.                      *)
Published ==
    LET asked == {r.name : r \in Requests} \cap DOMAIN Registry
    IN  UNION {ToSet(Registry[n].files) \cup {e.file : e \in ToSet(Registry[n].engines)}
               : n \in asked}
------------------------------------------------------------------------------
(* What the from_hub constructors ask for: a name and a profile.           *)
Profile(fp16, bf16, inputs) == [fp16 |-> fp16, bf16 |-> bf16, inputs |-> inputs]
Ask(name, profile) == [name |-> name, profile |-> profile]

GlueProfile(k) == Profile(TRUE, FALSE, <<Keypoints(k), Descriptors(k)>>)
RacoFromHub(name) == Ask(name, Profile(TRUE, FALSE, <<Images>>))
XFeatFromHub == Ask("xfeat", Profile(TRUE, FALSE, <<Image>>))
StereoShapes(width, height) ==
    LET w == (width \div 32) * 32
        h == (height \div 32) * 32
    IN  <<"image", <<1, 3, h, w>>, <<2, 3, h, w>>, <<2, 3, h, w>>>>
XFeatFromHubStereo(width, height) ==
    Ask("xfeat", Profile(TRUE, FALSE, <<StereoShapes(width, height)>>))
DinoFromHub == Ask("dino", Profile(FALSE, TRUE, Static))
OsNetFromHub == Ask("osnet", Profile(FALSE, FALSE, Static))
DetectorFromHub(name) == Ask(name, Profile(TRUE, FALSE, Static))
GlueFromHub(k) == Ask("lightglue-matcher", GlueProfile(k))

Valid(profile) == ~(profile.fp16 /\ profile.bf16)
Precision(profile) ==
    CASE profile.bf16 -> "bf16" [] ~profile.bf16 /\ profile.fp16 -> "fp16" [] OTHER -> "fp32"

(* The inputs of a profile in the order of their names, whatever the order *)
(* they are declared in.                                                   *)
InputOrder == [descriptors |-> 1, image |-> 2, images |-> 3, normalized_keypoints |-> 4]
ShapeTag(profile) ==
    SetToSortSeq(ToSet(profile.inputs), LAMBDA i, j : InputOrder[i[1]] < InputOrder[j[1]])

(* The first engine that runs on this box, is right and takes the shapes.  *)
(* Fault: whatever loads.                                                  *)
PickArtifactFault(engines, profile) == SelectSeq(engines, LAMBDA e : e.box = box)
PickArtifact(engines, profile) ==
    SelectSeq(engines, LAMBDA e : /\ e.box = box
                                  /\ e.precision = Precision(profile)
                                  /\ e.shapes = ShapeTag(profile))
------------------------------------------------------------------------------
Free == [pc |-> "free"]
Returned == {"engine", "onnx"}

Begin(c, request, kind, todo) ==
    calls' = [calls EXCEPT ![c] = [pc |-> "get", ask |-> request, kind |-> kind,
                                   todo |-> todo, entry |-> todo[1]]]

Fail(c, error) ==
    calls' = [calls EXCEPT ![c] = [pc |-> "failed", ask |-> @.ask, error |-> error]]

(* resolve_engine: a prebuilt engine, or else the files of the model.      *)
Resolve(c, request) ==
    /\ IF request.name \notin DOMAIN Registry
       THEN calls' = [calls EXCEPT ![c] = [pc |-> "failed", ask |-> request, error |-> "unknown"]]
       ELSE LET model == Registry[request.name]
                art == PickArtifact(model.engines, request.profile)
            IN  IF model.engines # <<>> /\ ~Valid(request.profile)
                THEN calls' = [calls EXCEPT ![c] = [pc |-> "failed", ask |-> request, error |-> "profile"]]
                ELSE IF art # <<>> THEN Begin(c, request, "engine", <<art[1].file>>)
                ELSE Begin(c, request, "onnx", model.files)
    /\ UNCHANGED <<box, hub, mishaps>>

Start(c) ==
    /\ calls[c].pc = "free"
    /\ \E request \in Requests : Resolve(c, request)

(* Callers ask again after an error of the network or the disk.            *)
Retry(c) ==
    /\ calls[c].pc = "failed" /\ calls[c].error \notin {"unknown", "profile"}
    /\ Resolve(c, calls[c].ask)

(* hf_hub: a file that is there is not downloaded.                         *)
Get(c) ==
    /\ calls[c].pc = "get"
    /\ LET f == Head(calls[c].todo)
           verify == [calls EXCEPT ![c].pc = "verify"]
       IN  \/ /\ hub[f] # "none"
              /\ calls' = verify
              /\ UNCHANGED <<hub, mishaps>>
           \/ /\ hub[f] = "none"
              /\ hub' = [hub EXCEPT ![f] = "good"]
              /\ calls' = verify
              /\ UNCHANGED mishaps
           \/ /\ hub[f] = "none" /\ mishaps.bad < MaxBad
              /\ mishaps' = [mishaps EXCEPT !.bad = @ + 1]
              /\ \/ hub' = [hub EXCEPT ![f] = "bad"] /\ calls' = verify
                 \/ Fail(c, "network") /\ UNCHANGED hub
    /\ UNCHANGED box

(* The next file, or the path of the first. Fault: the entry point alone.  *)
VerifiedFault(c) ==
    calls' = [calls EXCEPT ![c] = [pc |-> @.kind, ask |-> @.ask, path |-> @.entry]]
Verified(c) ==
    calls' = [calls EXCEPT ![c] =
        IF Len(@.todo) > 1 THEN [@ EXCEPT !.todo = Tail(@), !.pc = "get"]
        ELSE [pc |-> @.kind, ask |-> @.ask, path |-> @.entry]]

(* A file that is gone by now does not verify either.                      *)
Sound(c) == hub[Head(calls[c].todo)] = "good"

VerifySha256(c) ==
    /\ calls[c].pc = "verify"
    /\ IF Sound(c) THEN Verified(c)
       ELSE calls' = [calls EXCEPT ![c].pc = "remove"]
    /\ UNCHANGED <<box, hub, mishaps>>

(* The bad file goes, and with it the call; so does a file another process *)
(* put there in the meantime. Fault: it stays.                             *)
RemoveFileFault(c) ==
    /\ calls[c].pc = "remove"
    /\ Fail(c, "mismatch")
    /\ UNCHANGED <<box, hub, mishaps>>
RemoveFile(c) ==
    /\ calls[c].pc = "remove"
    /\ hub' = [hub EXCEPT ![Head(calls[c].todo)] = "none"]
    /\ Fail(c, "mismatch")
    /\ UNCHANGED <<box, mishaps>>

(* A process dies, and is started again.                                   *)
Kill(c) ==
    /\ calls[c].pc \in {"get", "verify", "remove"}
    /\ mishaps.kills < MaxKills
    /\ mishaps' = [mishaps EXCEPT !.kills = @ + 1]
    /\ calls' = [calls EXCEPT ![c] = Free]
    /\ UNCHANGED <<box, hub>>
------------------------------------------------------------------------------
HubInit ==
    /\ box \in Boxes
    /\ hub = [f \in Published |-> "none"]
    /\ calls = [c \in Caller |-> Free]
    /\ mishaps = [bad |-> 0, kills |-> 0]

HubOff ==
    /\ box = <<>>
    /\ hub = [f \in Published |-> "none"]
    /\ calls = [c \in Caller |-> Free]
    /\ mishaps = [bad |-> 0, kills |-> 0]

Progress(c) == Start(c) \/ Retry(c) \/ Get(c) \/ VerifySha256(c) \/ RemoveFile(c)

HubNext == \E c \in Caller : Progress(c) \/ Kill(c)
==============================================================================
