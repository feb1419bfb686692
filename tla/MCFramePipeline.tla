--------------------------- MODULE MCFramePipeline --------------------------
(* Instances of the frame pipeline for TLC. *)
EXTENDS FramePipelineProperties, TLC

(* Frames 1 and 2 have one size, 3 another; nothing is found in frame 3. *)
TwoSizes == [f \in Frame |-> IF f = 3 THEN <<2>> ELSE <<1>>]

(* Descriptors are of one size and are found in any frame: two do. A bank   *)
(* of two rows and a call that failed are looked at one at a time, and no   *)
(* call follows a change of the bank that scores are left from. One frame   *)
(* of the other size at a time is enough to change sizes.                   *)
FewerFrames ==
    /\ kind = "dino" =>
          /\ \A r \in DOMAIN told : 3 \notin Range(told[r].of)
          /\ bank.len < Capacity \/ faults = 0
          /\ told["scores"].res = "ok" => Tail(told["scores"].of) = FlattenSeq(bank.rows)
    /\ kind \in {"dino", "session"} => \A c \in DOMAIN st.mem : 3 \notin Range(st.mem[c])
    /\ kind \in {"xfeat", "raco"} => Cardinality({r \in Result : told[r].of = <<3>>}) <= 1

Swap == Permutations(Result)
=============================================================================
