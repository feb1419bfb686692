--------------------------- MODULE MCApplications ---------------------------
(***************************************************************************)
(* The camera programs for TLC.                                            *)
(***************************************************************************)
EXTENDS ApplicationsProperties

(* A sure person in a small box; things that are none: one whose mask has  *)
(* no metric depth, and one whose tokens are zero.                         *)
Looks == {[person |-> TRUE,  deep |-> TRUE,  large |-> FALSE, tokens |-> TRUE],
          [person |-> FALSE, deep |-> FALSE, large |-> TRUE,  tokens |-> TRUE],
          [person |-> FALSE, deep |-> TRUE,  large |-> TRUE,  tokens |-> FALSE]}

(* Long enough for a clip of three seconds, and for a bank of two rows to  *)
(* replace one.                                                      *)
Bounds == [a \in Apps |-> IF a = "keyframes" THEN 6 ELSE 3]
=============================================================================
