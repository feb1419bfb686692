---------------------------- MODULE FramePipeline ---------------------------
(***************************************************************************)
(* The models of vision-rt on their shared CUDA stream: inference sessions *)
(* with one-run output bindings (vrt), feature extractors and matchers     *)
(* (vrt-xfeat, vrt-raco-aliked, vrt-lightglue), descriptors and their bank *)
(* (vrt-dinov3), detectors, depth and re-id (vrt-rfdetr, -seg, -kpts,      *)
(* vrt-depth-anything, vrt-osnet).                                         *)
(*                                                                         *)
(* A submit is a program: the fallible steps of the method, in its order.  *)
(* It returns an error at the first step that fails; what was enqueued     *)
(* before stays enqueued. The caller keeps the documented contract: a      *)
(* result is read, or its count used, only after the stream was            *)
(* synchronised, and it lives until then.                                  *)
(***************************************************************************)
EXTENDS DeviceStream

CONSTANTS
    Kinds,       \* which of the pipelines below a behaviour may be
    Frame,       \* images, positive numbers
    SizeOf,      \* the size of each image
    Dark,        \* images without a keypoint or a box
    Result,      \* caller-owned results of the extractor or model
    Faults,      \* what may fail: "reject", "launch", or the allocation of a
                 \* model's "input" or "score" at a new size
    Capacity,    \* rows of a descriptor bank
    MaxFaults    \* bound on the calls that fail

ASSUME PipelineAssumption ==
    /\ Kinds \subseteq {"xfeat", "raco", "dino", "rfdetr", "seg", "kpts", "depth",
                        "osnet", "session"}
    /\ Result \cap (Kinds \cup {"pair", "scores", "bank", "glue"}) = {}
    /\ Frame \subseteq Nat \ {0}
    /\ Dark \subseteq Frame
    /\ Faults \subseteq {"reject", "launch", "input", "score"}
    /\ Capacity \in Nat \ {0}

VARIABLES
    kind,        \* the pipeline
    st,          \* mem: the cells; model: the host state of each model; busy, dirty
    told,        \* what the last call with each result returned
    pending,     \* results the caller must keep until it synchronises
    alive,       \* results that are allocated
    bank,        \* descriptor bank: its length, and what its user enrolled
    faults       \* calls that failed

vars == <<kind, st, told, pending, alive, bank, faults>>

(* The results, as what their buffers and host fields hold.                *)
XFeatResult == {"kpts", "scores", "descs", "count_dev", "kpts_px", "count_pin"}
RaCoAlikedResult == {"kpts", "norm_kpts", "descs"}
DinoV3Result == {"descriptor", "patches"}
DetectResult == {"dets", "count_pin"}
SegResult == {"dets", "qidx", "masks", "feats", "count_dev", "count_pin"}
KptsResult == {"dets", "labels", "kpts"}
DepthResult == {"depth"}
ReidResult == {"embeddings"}
BoundBuffer == {"buf"}
DataFields ==
    [xfeat |-> XFeatResult, raco |-> RaCoAlikedResult, dino |-> DinoV3Result,
     rfdetr |-> DetectResult, seg |-> SegResult, kpts |-> KptsResult,
     depth |-> DepthResult, osnet |-> ReidResult, session |-> BoundBuffer]

(* A result also says which size, or how many boxes, it is of.             *)
Stamped == {"xfeat", "raco", "kpts", "depth"}
HostFields == [k \in Stamped |-> {"stamp"}] @@ [osnet |-> {"stamp", "boxes"}]

MatchResult == {"n0", "m12_dev", "m21_dev", "s12_dev", "m12", "m21", "s12"}
LightGlueResult == {"matches0", "mscores0"}
Matching == [xfeat |-> MatchResult, raco |-> LightGlueResult]

(* The outputs of the engines.                                             *)
Outputs ==
    [xfeat |-> {"heatmap", "reliability", "descriptors"},
     raco |-> {"keypoints", "normalized_keypoints", "descriptors"},
     dino |-> {"descriptor", "tokens"},
     rfdetr |-> {"boxes", "logits"},
     seg |-> {"dets", "labels", "masks", "tokens"},
     kpts |-> {"dets", "labels", "keypoints"},
     depth |-> {"depth"},
     osnet |-> {"embeddings"},
     session |-> {"o1", "o2"},
     glue |-> LightGlueResult]

Of(f, g) == IF g \in DOMAIN f THEN f[g] ELSE {}
Models(k) == {k} \cup (IF k = "raco" THEN {"glue"} ELSE {})

(* The cells that outlive a call; the models' own buffers come and go.     *)
Cells(k) ==
    {<<r, c>> : r \in Result, c \in DataFields[k] \cup Of(HostFields, k)}
    \cup {<<"pair", c>> : c \in Of(Matching, k)}
    \cup (IF k = "dino" THEN {<<"bank", i>> : i \in 1 .. Capacity} \cup {<<"scores", 0>>}
                        ELSE {})

None == [res |-> "none", of |-> Garbled]
Ok(v) == [res |-> "ok", of |-> v]
Err == [res |-> "err", of |-> Garbled]

Init ==
    /\ kind \in Kinds
    /\ st = [mem |-> [c \in Cells(kind) |-> IF c[1] \in {"bank", "scores"} \/ c = <<"pair", "n0">>
                                            THEN Zero ELSE Garbled],
             model |-> [m \in Models(kind) |-> NewModel], busy |-> {}, dirty |-> {}]
    /\ told = [r \in Result \cup {"pair", "scores"} |-> None]
    /\ pending = {}
    /\ alive = Result
    /\ bank = [len |-> 0, rows |-> <<>>]
    /\ faults = 0
-----------------------------------------------------------------------------
(* Nothing is said of the data in a result whose call failed.              *)
Disowned(s, rs) ==
    [s EXCEPT !.mem = [c \in DOMAIN @ |->
        IF c[1] \in rs /\ c # <<"pair", "n0">> THEN Garbled ELSE @[c]]]

(* A call: all of its program, or the steps before the one that fails.     *)
Passes(program, rs, value) ==
    /\ st' = Completed(Passed(st, program))
    /\ told' = [r \in DOMAIN told |-> IF r \in rs THEN Ok(value[r]) ELSE told[r]]
    /\ pending' = pending \cup rs
    /\ UNCHANGED faults

Fails(program, rs) ==
    /\ faults < MaxFaults
    /\ faults' = faults + 1
    /\ st' \in {Disowned(s, rs) : s \in CutShort(Passed(st, program), program, Faults)}
    /\ told' = [r \in DOMAIN told |-> IF r \in rs THEN Err ELSE told[r]]
    /\ UNCHANGED pending

Call(program, rs, value) == Passes(program, rs, value) \/ Fails(program, rs)
-----------------------------------------------------------------------------
(* XFeat: stretch to the model size, backbone, NMS, top-K, descriptors, for *)
(* one image or a stereo pair. A new size drains the stream first.         *)
XFeatResizeFault(size) ==
    IF st.model["xfeat"].cur = size THEN <<>>
    ELSE <<Resize("xfeat", "input", size), Resize("xfeat", "score", size),
           SetCur("xfeat", size)>>

XFeatResize(size) ==
    IF st.model["xfeat"].cur = size THEN <<>>
    ELSE <<Drain, Resize("xfeat", "input", size), Resize("xfeat", "score", size),
           SetCur("xfeat", size)>>

X(c) == <<"xfeat", c>>
Split(rs, cs) == [c \in {<<rs[b], x>> : b \in DOMAIN rs, x \in cs} |->
                     CHOOSE b \in DOMAIN rs : rs[b] = c[1]]

(* launch_topk_batch: the counts and histograms live in one scratch buffer *)
(* that is cleared first.                                                  *)
TopK(fs, rs) ==
    <<Enq(All({X("scratch")}), <<{Lit(Zero)}>>, {}),
      Enq(All({X("scratch")}), <<{X("score_dev"), X("scratch")}>>, {}),
      Enq(All({X("cutoff")}), <<{X("scratch")}>>, {}),
      Enq(Split(rs, {"kpts", "scores"}),
          <<{X("score_dev"), X("cutoff"), X("scratch")}>>, {}),
      Enq(Split(rs, {"descs", "count_dev", "kpts_px"}),
          <<{X("descriptors"), X("scratch")}>>,
          {<<"cell", <<rs[1], "stamp">>>>, Lit(SizeOf[fs[1]])})>>
    \o [b \in DOMAIN rs |-> Enq((<<rs[b], "count_pin">> :> b), <<{X("scratch")}>>, {})]

XFeatProgram(fs, rs) ==
    <<Check>> \o XFeatResize(<<Len(fs), SizeOf[fs[1]]>>)
    \o <<Preprocess("xfeat", fs), Run("xfeat", Outputs["xfeat"], <<{X("input")}>>),
         Enq(All({X("score_dev")}), <<{X("heatmap"), X("reliability")}>>,
             {<<"xfeat", "cur">>, <<"xfeat", "input">>, <<"xfeat", "score">>})>>
    \o [b \in DOMAIN rs |-> Set(<<rs[b], "stamp">>, SizeOf[fs[1]])]
    \o TopK(fs, rs)

XFeatSubmit(f, r) ==
    /\ kind = "xfeat"
    /\ Call(XFeatProgram(<<f>>, <<r>>), {r}, [x \in {r} |-> <<f>>])
    /\ UNCHANGED <<kind, alive, bank>>

XFeatSubmitPair(f, g, r, q) ==
    /\ kind = "xfeat"
    /\ r # q
    /\ SizeOf[f] = SizeOf[g]
    /\ Call(XFeatProgram(<<f, g>>, <<r, q>>), {r, q},
            [x \in {r, q} |-> IF x = r THEN <<f>> ELSE <<g>>])
    /\ UNCHANGED <<kind, alive, bank>>

(* Matcher::submit: mutual nearest neighbours of two synchronised results. *)
(* n0 is cleared first; the counts are those the host reads at the call.   *)
MatchProgram(l, r) ==
    LET n0 == st.mem[<<l, "count_pin">>]
        n1 == st.mem[<<r, "count_pin">>]
        both == <<{<<l, "descs">>, Lit(n0)}, {<<r, "descs">>, Lit(n1)}>>
        P(c) == <<"pair", c>>
        copy(c, d) == Enq(All({P(c)}), <<{P(d)}>>, {})
    IN  <<Set(P("n0"), Zero), Check>>
        \o IF \E v \in {n0, n1}, f \in Dark : v = <<f>>
           THEN <<>>
           ELSE <<Set(P("n0"), n0),
                  Enq(All({P("m12_dev"), P("s12_dev")}), both, {}),
                  Enq(All({P("m21_dev")}), both, {}),
                  copy("m12", "m12_dev"), copy("m21", "m21_dev"), copy("s12", "s12_dev")>>

Match(l, r) ==
    /\ kind = "xfeat"
    /\ \A x \in {l, r} : told[x].res = "ok" /\ x \notin pending
    /\ Call(MatchProgram(l, r), {"pair"}, [x \in {"pair"} |-> told[l].of \o told[r].of])
    /\ UNCHANGED <<kind, alive, bank>>
-----------------------------------------------------------------------------
(* RaCo + ALIKED: the session writes its outputs into the result itself.   *)
RaCoProgram(f, r) ==
    LET size == SizeOf[f]
        BindTo(o, c) == Bind("raco", o, <<r, c>>)
    IN  <<Check>>
        \o (IF st.model["raco"].cur = size THEN <<>>
            ELSE <<Drain, Resize("raco", "input", size), SetCur("raco", size)>>)
        \o <<Preprocess("raco", <<f>>),
             BindTo("keypoints", "kpts"), BindTo("normalized_keypoints", "norm_kpts"),
             BindTo("descriptors", "descs"),
             Run("raco", Outputs["raco"], <<{<<"raco", "input">>}>>), Set(<<r, "stamp">>, size)>>

RaCoSubmit(f, r) ==
    /\ kind = "raco"
    /\ r \in alive
    /\ Call(RaCoProgram(f, r), {r}, [x \in {r} |-> <<f>>])
    /\ UNCHANGED <<kind, alive, bank>>

(* LightGlue packs two results, which may still be in flight, into its own *)
(* pair of inputs and lets TensorRT write the matches into its result.     *)
In(c) == <<"glue", c>>
Pack(x, n) == <<Enq(All({In("kpts_in" \o n)}), <<{<<x, "norm_kpts">>}>>, {}),
                Enq(All({In("descs_in" \o n)}), <<{<<x, "descs">>}>>, {})>>
GlueProgram(l, r) ==
    <<Check>> \o Pack(l, "1") \o Pack(r, "2")
    \o <<Bind("glue", "matches0", <<"pair", "matches0">>),
         Bind("glue", "mscores0", <<"pair", "mscores0">>),
         Run("glue", Outputs["glue"],
             <<{In("kpts_in1"), In("descs_in1")}, {In("kpts_in2"), In("descs_in2")}>>)>>

Glue(l, r) ==
    /\ kind = "raco"
    /\ {l, r} \subseteq alive
    /\ told[l].res = "ok" /\ told[r].res = "ok"
    /\ Call(GlueProgram(l, r), {"pair"}, [x \in {"pair"} |-> told[l].of \o told[r].of])
    /\ UNCHANGED <<kind, alive, bank>>
-----------------------------------------------------------------------------
(* The models with a fixed input size.                                     *)
Forward(m, f) == <<Preprocess(m, <<f>>), Run(m, Outputs[m], <<{<<m, "input">>}>>)>>
Copy(m, o, r, c) == Enq(All({<<r, c>>}), <<{<<m, o>>}>>, {})

DinoProgram(f, r) ==
    <<Check>> \o Forward("dino", f)
    \o <<Copy("dino", "descriptor", r, "descriptor"), Copy("dino", "tokens", r, "patches")>>

RfDetrProgram(f, r) ==
    LET m(c) == <<"rfdetr", c>>
    IN  Forward("rfdetr", f)
        \o <<Enq(All({m("count_dev")}), <<{Lit(Zero)}>>, {}),
             Enq(All({<<r, "dets">>, m("count_dev")}),
                 <<{m("boxes"), m("logits"), m("count_dev")}>>, {}),
             Enq(All({<<r, "count_pin">>}), <<{m("count_dev")}>>, {})>>

SegProgram(f, r) ==
    LET m(c) == <<"seg", c>>
        out(c) == <<r, c>>
    IN  Forward("seg", f)
        \o <<Enq(All({out("count_dev")}), <<{Lit(Zero)}>>, {}),
             Enq(All({out("dets"), out("qidx"), out("count_dev")}),
                 <<{m("dets"), m("labels"), out("count_dev")}>>, {}),
             Enq(All({out("masks")}), <<{m("masks"), out("qidx"), out("count_dev")}>>, {}),
             Enq(All({out("feats")}), <<{Lit(Zero)}>>, {}),
             Enq(All({out("feats")}),
                 <<{m("tokens"), out("masks"), out("count_dev"), out("feats")}>>, {}),
             Enq(All({out("count_pin")}), <<{out("count_dev")}>>, {})>>

KptsProgram(f, r) ==
    Forward("kpts", f)
    \o <<Set(<<r, "stamp">>, SizeOf[f]),
         Copy("kpts", "dets", r, "dets"), Copy("kpts", "labels", r, "labels"),
         Copy("kpts", "keypoints", r, "kpts")>>

DepthProgram(f, r) ==
    Forward("depth", f)
    \o <<Copy("depth", "depth", r, "depth"), Set(<<r, "stamp">>, SizeOf[f])>>

(* n boxes: with none the call returns at once and says so.                *)
OsNetProgram(f, r) ==
    <<Set(<<r, "stamp">>, IF f \in Dark THEN Zero ELSE <<f>>)>>
    \o (IF f \in Dark THEN <<>>
        ELSE <<Check, Enq(All({<<r, "boxes">>}), <<{Lit(<<f>>)}>>, {}),
              Enq(All({<<"osnet", "input">>}), <<{Lit(<<f>>), <<r, "boxes">>}>>, {}),
              Run("osnet", Outputs["osnet"], <<{<<"osnet", "input">>}>>),
              Copy("osnet", "embeddings", r, "embeddings")>>)

Submit(f, r) ==
    LET program == CASE kind = "dino" -> DinoProgram(f, r)
                     [] kind = "rfdetr" -> RfDetrProgram(f, r)
                     [] kind = "seg" -> SegProgram(f, r)
                     [] kind = "kpts" -> KptsProgram(f, r)
                     [] kind = "depth" -> DepthProgram(f, r)
                     [] kind = "osnet" -> OsNetProgram(f, r)
    IN  /\ kind \in {"dino", "rfdetr", "seg", "kpts", "depth", "osnet"}
        /\ Call(program, {r}, [x \in {r} |-> <<f>>])
        /\ UNCHANGED <<kind, alive, bank>>
-----------------------------------------------------------------------------
(* DescriptorBank: rows are copied in and matched in stream order. A copy  *)
(* that could not be enqueued leaves the row as it was, and the length.    *)
Descriptor(r) == <<r, "descriptor">>
Row(i) == <<"bank", i>>
WriteRow(i, r) == <<Check, Enq(All({Row(i)}), <<{Descriptor(r)}>>, {})>>
Enrolled(r) == [len |-> bank.len + 1, rows |-> Append(bank.rows, told[r].of)]

(* Fault: the bank grows before the copy is known to be enqueued.          *)
EnrollFault(r) ==
    /\ kind = "dino"
    /\ told[r].res = "ok"
    /\ bank.len < Capacity
    /\ LET row == WriteRow(bank.len + 1, r)
       IN  \/ Passes(row, {}, <<>>) /\ bank' = Enrolled(r)
           \/ Fails(row, {}) /\ bank' = [bank EXCEPT !.len = @ + 1]
    /\ UNCHANGED <<kind, alive>>
Enroll(r) ==
    /\ kind = "dino"
    /\ told[r].res = "ok"
    /\ bank.len < Capacity
    /\ LET row == WriteRow(bank.len + 1, r)
       IN  \/ Passes(row, {}, <<>>) /\ bank' = Enrolled(r)
           \/ Fails(row, {}) /\ UNCHANGED bank
    /\ UNCHANGED <<kind, alive>>

Replace(i, r) ==
    /\ kind = "dino"
    /\ told[r].res = "ok"
    /\ i <= bank.len
    /\ \/ Passes(WriteRow(i, r), {}, <<>>) /\ bank' = [bank EXCEPT !.rows[i] = told[r].of]
       \/ Fails(WriteRow(i, r), {}) /\ UNCHANGED bank
    /\ UNCHANGED <<kind, alive>>

ClearBank ==
    /\ kind = "dino"
    /\ bank' = [len |-> 0, rows |-> <<>>]
    /\ UNCHANGED <<kind, st, told, pending, alive, faults>>

(* match_into; on an empty bank it does nothing, and leaves old scores.    *)
MatchInto(r) ==
    /\ kind = "dino"
    /\ told[r].res = "ok"
    /\ bank.len > 0
    /\ Call(<<Check, Enq(All({<<"scores", 0>>}),
                         <<{Descriptor(r)}>> \o [i \in 1 .. bank.len |-> {Row(i)}], {})>>,
            {"scores"}, [x \in {"scores"} |-> told[r].of \o FlattenSeq(bank.rows)])
    /\ UNCHANGED <<kind, alive, bank>>
-----------------------------------------------------------------------------
(* A session used directly: its caller binds results to outputs, for one   *)
(* run.                                                                    *)
Bound(o) == [res |-> o, of |-> Garbled]

Rebind(o, r) ==
    /\ st' = Apply(st, Bind("session", o, <<r, "buf">>))
    /\ told' = [x \in DOMAIN told |-> IF x = r THEN Bound(o)
                                      ELSE IF told[x] = Bound(o) THEN None ELSE told[x]]
    /\ UNCHANGED <<kind, pending, alive, bank, faults>>

BindOutput(o, r) ==
    /\ kind = "session"
    /\ r \in alive
    /\ \A p \in DOMAIN st.model["session"].bound :
          st.model["session"].bound[p] = <<r, "buf">> => p = o
    /\ Rebind(o, r)

RunSession(f) ==
    /\ kind = "session"
    /\ LET rs == {r \in Result : told[r].res \in Outputs["session"]}
       IN  Call(<<Run("session", Outputs["session"], <<{Lit(<<f>>)}>>)>>, rs, [r \in rs |-> <<f>>])
    /\ UNCHANGED <<kind, alive, bank>>

(* The caller drops a result it need not keep: freed in stream order, and  *)
(* the next result it allocates may get the same memory.                   *)
Drop(r) ==
    /\ kind \in {"session", "raco"}
    /\ r \in alive \ pending
    /\ told[r].res \notin Outputs["session"]
    /\ alive' = alive \ {r}
    /\ told' = [told EXCEPT ![r] = None]
    /\ st' = Enqueue(st, All({<<r, c>> : c \in DataFields[kind]}), <<{Lit(Garbled)}>>, TRUE)
    /\ UNCHANGED <<kind, pending, bank, faults>>

Alloc(r) ==
    /\ r \notin alive
    /\ alive' = alive \cup {r}
    /\ st' = Enqueue(st, All({<<r, c>> : c \in DataFields[kind]}), <<{Lit(Zero)}>>, TRUE)
    /\ UNCHANGED <<kind, told, pending, bank, faults>>
-----------------------------------------------------------------------------
(* The device, and the caller's synchronize. *)
DeviceCatchesUp ==
    /\ st.dirty # {}
    /\ st' = Idle(st)
    /\ UNCHANGED <<kind, told, pending, alive, bank, faults>>

Synchronize ==
    /\ st' = Idle(st)
    /\ pending' = {}
    /\ UNCHANGED <<kind, told, alive, bank, faults>>

Next ==
    \/ DeviceCatchesUp \/ Synchronize \/ ClearBank
    \/ \E f \in Frame : RunSession(f)
    \/ \E r \in Result : \/ Enroll(r) \/ MatchInto(r) \/ Drop(r) \/ Alloc(r)
                         \/ \E i \in 1 .. Capacity : Replace(i, r)
                         \/ \E o \in Outputs["session"] : BindOutput(o, r)
                         \/ \E f \in Frame : XFeatSubmit(f, r) \/ RaCoSubmit(f, r) \/ Submit(f, r)
    \/ \E l, r \in Result : \/ Match(l, r) \/ Glue(l, r)
                            \/ \E f, g \in Frame : XFeatSubmitPair(f, g, l, r)

Spec == Init /\ [][Next]_vars
=============================================================================
