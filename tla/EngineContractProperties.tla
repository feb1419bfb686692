---------------------- MODULE EngineContractProperties ----------------------
(***************************************************************************)
(* What submit may trust of an engine its constructor accepted.            *)
(***************************************************************************)
EXTENDS EngineContract

(* Beside the outputs an export is documented to have there may be others. *)
(* Where the last match wins they must look like none of the roles; where  *)
(* ambiguity is refused they may, but not in place of the true one.        *)
Beside == SelectSeq(engine.outs, LAMBDA s : s.is = "aux")
There(role) == \E s \in ToSet(engine.outs) : s.is = role /\ Resolved(s.dims)
Documented ==
    CASE engine.kind = "detr" -> ~\E s \in ToSet(Beside) : Rank(s) = 3 /\ s.dims[3] >= 4
      [] engine.kind \in {"seg", "kpts"} ->
             ~\E s \in ToSet(Beside) : FilledBoxes(s) \/ Labels(s) \/ Dense(s)
      [] engine.kind = "depth" -> There("depth")
      [] engine.kind = "dino" -> There("desc") /\ There("toks")
      [] engine.kind = "raco" -> TRUE
      [] engine.kind = "osnet" -> Beside = <<>>

(* Every role is played by the tensor that holds it, in whatever order the *)
(* engine lists its tensors and however many classes the model has, or the *)
(* engine is refused: backbone tokens do not pass for masks, an auxiliary  *)
(* head not for the depth map, class scores not for boxes.                 *)
RolesRight ==
    engine.pc = "decoded" /\ Documented =>
        \A r \in DOMAIN engine.read.bound : Role(r).is = r

(* The shapes are "validated here once, so `submit` needs no per-frame     *)
(* checks": what the kernels and copies of submit read of an output, by    *)
(* sizes taken from other outputs and from the input, lies within it. The  *)
(* detectors rely on the export for one thing: that all outputs have the   *)
(* same number of queries, and a known one.                                *)
SameQueries ==
    engine.kind \in {"detr", "seg", "kpts"} =>
        LET counts == {Role(r).dims[2] : r \in DOMAIN engine.read.bound \ {"tokens"}}
        IN  Cardinality(counts) = 1 /\ \A q \in counts : q > 0
ReadsWithin ==
    engine.pc = "decoded" /\ SameQueries =>
        \A r \in DOMAIN engine.read.bound :
            0 < engine.read.size[r] /\ engine.read.size[r] <= Elements(Role(r))

(* An engine the constructor accepts can be used without another look at   *)
(* it: each role has its tensor, and no read leaves it.                    *)
AcceptedIsUsable == RolesRight /\ ReadsWithin
==============================================================================
