--------------------------- MODULE EngineContract ---------------------------
(***************************************************************************)
(* What a model crate makes of a TensorRT engine it was not compiled with: *)
(* the tensors are listed when the engine is loaded, the constructor tells *)
(* their roles by rank, dimensions or name, in the order of the engine,    *)
(* and every submit trusts what it found. An engine is known here by its   *)
(* tensors; "is" says what a tensor really holds, which no code sees.      *)
(***************************************************************************)
EXTENDS Integers, Sequences, FiniteSets, SequencesExt

CONSTANTS
    Inputs,     \* kind -> shapes of its first input
    Tensors,    \* kind -> [is, name, dims, type] an export may have
    MaxTensors, \* bound on the tensors of an engine
    PATCH,      \* side of a patch of the ViT, 16
    DESC_DIM    \* width of a descriptor, 128

VARIABLE engine     \* the engine, where its model has come, what it binds

Kinds == DOMAIN Tensors
Supported == {"f32", "f16", "i8", "i32", "bool", "u8", "bf16"}
Nobody == [is |-> "nobody"]
------------------------------------------------------------------------------
(* Patterns. Resolved rejects the axes TensorRT leaves open, -1.           *)
Rank(s) == Len(s.dims)
Resolved(dims) == \A i \in DOMAIN dims : dims[i] > 0
Single(s) == Rank(s) > 0 /\ s.dims[1] = 1
BoxRows(s) == Rank(s) = 3 /\ Single(s) /\ s.dims[3] = 4

(* A role goes to the last tensor that fits it. With exactly one, a second *)
(* is an error.                                                            *)
LastOf(outs, P(_)) ==
    LET fits == SelectSeq(outs, P)
    IN  IF fits = <<>> THEN Nobody ELSE Last(fits)
Named(outs, name) == LastOf(outs, LAMBDA s : s.name = name)
Several(outs, P(_)) == Len(SelectSeq(outs, P)) > 1

Is(s) == s # Nobody
StaticImage(input) == Len(input) = 4 /\ Resolved(input)
NotRead == [ok |-> FALSE]
Accepted(bound, size) == [ok |-> TRUE, bound |-> bound, size |-> size]
------------------------------------------------------------------------------
(* RfDetr::new. The query count is refused if it is 0, but not if it is    *)
(* open.                                                                   *)
ReadDetr(input, outs) ==
    LET logits == LastOf(outs, LAMBDA s : ~BoxRows(s) /\ Rank(s) = 3 /\ Single(s) /\ s.dims[3] > 4)
        boxes == LastOf(outs, BoxRows)
    IN  IF StaticImage(input) /\ Is(boxes) /\ Is(logits) /\ logits.dims[2] # 0
        THEN Accepted([boxes |-> boxes, logits |-> logits],
                      [boxes |-> logits.dims[2] * 4, logits |-> logits.dims[2] * logits.dims[3]])
        ELSE NotRead

(* RfDetrSeg::new and RfDetrKpts::new: the last of the dense tensor and    *)
(* the labels says how many queries there are.                             *)
Dense(s) == Rank(s) = 4 /\ Single(s) /\ Resolved(s.dims)
FilledBoxes(s) == BoxRows(s) /\ s.dims[2] > 0
Labels(s) == ~BoxRows(s) /\ Rank(s) = 3 /\ Single(s) /\ Resolved(s.dims)

ReadQueries(input, outs) ==
    LET boxes == LastOf(outs, FilledBoxes)
        labels == LastOf(outs, Labels)
        dense == LastOf(outs, Dense)
        q == LastOf(outs, LAMBDA s : Dense(s) \/ Labels(s)).dims[2]
    IN  IF StaticImage(input) /\ Is(boxes) /\ Is(labels) /\ Is(dense)
        THEN Accepted([boxes |-> boxes, labels |-> labels, dense |-> dense],
                      [boxes |-> q * 4, labels |-> q * labels.dims[3],
                       dense |-> q * dense.dims[3] * dense.dims[4]])
        ELSE NotRead

ReadKpts(input, outs) == ReadQueries(input, outs)

(* The tokens of the backbone have the rank of masks: their name tells     *)
(* them, and they take no other role. Fault: their shape does.             *)
ReadSegFault(input, outs) == ReadQueries(input, outs)
ReadSeg(input, outs) ==
    LET tokens == LastOf(outs, LAMBDA s : s.name = "tokens" /\ Dense(s))
        read == ReadQueries(input, SelectSeq(outs, LAMBDA s : s.name # "tokens"))
    IN  IF ~read.ok \/ ~Is(tokens) THEN read
        ELSE Accepted([boxes |-> read.bound.boxes, labels |-> read.bound.labels,
                       dense |-> read.bound.dense, tokens |-> tokens],
                      [boxes |-> read.size.boxes, labels |-> read.size.labels,
                       dense |-> read.size.dense,
                       tokens |-> tokens.dims[2] * tokens.dims[3] * tokens.dims[4]])

(* DepthAnything::new: exactly one dense map.                             *)
Map(s) ==
    /\ Single(s)
    /\ Rank(s) = 3 \/ (Rank(s) = 4 /\ s.dims[2] = 1)
    /\ s.dims[Rank(s) - 1] > 0 /\ s.dims[Rank(s)] > 0
Area(s) == s.dims[Rank(s) - 1] * s.dims[Rank(s)]
ReadDepth(input, outs) ==
    LET map == LastOf(outs, Map)
    IN  IF StaticImage(input) /\ Is(map) /\ ~Several(outs, Map)
        THEN Accepted([depth |-> map], [depth |-> Area(map)])
        ELSE NotRead

(* resolve_io of DINOv3: one descriptor, and at most one sequence of       *)
(* tokens, whose prefix is what the grid of patches leaves.                *)
Descriptor(s) == Rank(s) = 2 /\ Single(s) /\ s.dims[2] > 0
Tokens(s) == Rank(s) = 3 /\ Single(s) /\ Resolved(s.dims)
Patches(input) == (input[3] \div PATCH) * (input[4] \div PATCH)
GridFits(toks, desc, input) == toks.dims[3] = desc.dims[2] /\ toks.dims[2] >= Patches(input)
ReadDino(input, outs) ==
    LET desc == LastOf(outs, Descriptor)
        toks == LastOf(outs, Tokens)
        prefix == toks.dims[2] - Patches(input)
    IN  IF \/ ~StaticImage(input) \/ input[3] % PATCH # 0 \/ input[4] % PATCH # 0
           \/ ~Is(desc) \/ Several(outs, Descriptor) \/ Several(outs, Tokens)
        THEN NotRead
        ELSE IF ~Is(toks) THEN Accepted([desc |-> desc], [desc |-> desc.dims[2]])
        ELSE IF ~GridFits(toks, desc, input) THEN NotRead
        ELSE Accepted([desc |-> desc, toks |-> toks],
                      [desc |-> desc.dims[2], toks |-> (prefix + Patches(input)) * desc.dims[2]])

(* RaCoAliked::new, by name: both keypoint outputs have the same shape.    *)
(* What is bound to buffers of K rows is written by TensorRT.              *)
Points(s, k) == Is(s) /\ Rank(s) = 3 /\ s.dims[2] = k /\ s.dims[3] = 2
ReadRaco(input, outs) ==
    LET descs == Named(outs, "descriptors")
        kpts == Named(outs, "keypoints")
        norm == Named(outs, "normalized_keypoints")
        k == descs.dims[2]
    IN  IF /\ Len(input) = 4
           /\ Is(descs) /\ Rank(descs) = 3 /\ k > 0 /\ descs.dims[3] = DESC_DIM
           /\ Points(kpts, k) /\ Points(norm, k)
        THEN Accepted([descs |-> descs, kpts |-> kpts, norm |-> norm],
                      [descs |-> k * DESC_DIM, kpts |-> k * 2, norm |-> k * 2])
        ELSE NotRead

(* OsNetReid::new: the first output, a row for each image of the batch.    *)
ReadOsNet(input, outs) ==
    IF /\ StaticImage(input) /\ outs # <<>>
       /\ Rank(outs[1]) = 2 /\ outs[1].dims[1] = input[1] /\ outs[1].dims[2] > 0
    THEN Accepted([desc |-> outs[1]], [desc |-> input[1] * outs[1].dims[2]])
    ELSE NotRead

ReadOutputs(kind, input, outs) ==
    CASE kind = "detr" -> ReadDetr(input, outs)
      [] kind = "seg" -> ReadSeg(input, outs)
      [] kind = "kpts" -> ReadKpts(input, outs)
      [] kind = "depth" -> ReadDepth(input, outs)
      [] kind = "dino" -> ReadDino(input, outs)
      [] kind = "raco" -> ReadRaco(input, outs)
      [] kind = "osnet" -> ReadOsNet(input, outs)
------------------------------------------------------------------------------
EngineInit ==
    \E kind \in Kinds : \E n \in 0 .. MaxTensors :
        \E input \in Inputs[kind], outs \in [1 .. n -> Tensors[kind]] :
            /\ \A i, j \in 1 .. n : i # j => outs[i].name # outs[j].name
            /\ engine = [pc |-> "file", kind |-> kind, input |-> input, outs |-> outs, read |-> NotRead]

(* discover_specs: a type this code has no name for fails the load.        *)
Load ==
    /\ engine.pc = "file"
    /\ engine' = [engine EXCEPT !.pc =
                    IF \A s \in ToSet(engine.outs) : s.type \in Supported THEN "loaded" ELSE "failed"]

Construct ==
    /\ engine.pc = "loaded"
    /\ LET read == ReadOutputs(engine.kind, engine.input, engine.outs)
       IN  engine' = [engine EXCEPT !.read = read, !.pc = IF read.ok THEN "model" ELSE "failed"]

(* submit: f32_ptr refuses an output of another type. RaCoAliked lets      *)
(* TensorRT write into its own buffers, which the session compares with    *)
(* the bytes of the resolved shape.                                        *)
Widths == [f32 |-> 4, i32 |-> 4, f16 |-> 2, bf16 |-> 2, i8 |-> 1, u8 |-> 1, bool |-> 1]
Elements(s) == FoldSeq(LAMBDA d, n : n * IF d > 0 THEN d ELSE 1, 1, s.dims)
Role(r) == engine.read.bound[r]
Readable(r) ==
    IF engine.kind = "raco" THEN Elements(Role(r)) * Widths[Role(r).type] <= engine.read.size[r] * 4
    ELSE Role(r).type = "f32"
Submit ==
    /\ engine.pc = "model"
    /\ engine' = [engine EXCEPT !.pc =
                    IF \A r \in DOMAIN engine.read.bound : Readable(r) THEN "decoded" ELSE "failed"]

LoadAndRun == Load \/ Construct \/ Submit
EngineOff == engine = [pc |-> "none"]
==============================================================================
