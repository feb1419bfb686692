------------------------------ MODULE MCTracker ------------------------------
(***************************************************************************)
(* Instances of the tracker for TLC. Scores: 1 is a weak detection, 2 a    *)
(* strong one that may neither found a track nor feed the feature bank, 3  *)
(* one that may do both.                                                   *)
(***************************************************************************)
EXTENDS TrackerProperties

(* Embeddings are points on a line; the gate of every instance is 3, so 0   *)
(* and 1 are look-alikes that make each other ambiguous, and 9 is another   *)
(* object.                                                                  *)
OnALine == [p \in Feature \X Feature |->
              IF p[1] <= p[2] THEN p[2] - p[1] ELSE p[1] - p[2]]

(* The bank keeps what it had, or moves over to what it sees. *)
EitherOne == [p \in Feature \X Feature |-> {p[1], p[2]}]
=============================================================================
