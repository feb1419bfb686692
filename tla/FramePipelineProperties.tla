----------------------- MODULE FramePipelineProperties ----------------------
(***************************************************************************)
(* What the callers of the pipeline may rely on.                           *)
(***************************************************************************)
EXTENDS FramePipeline

(* "Sync the stream once ..., then read `out`": a submit that returned Ok  *)
(* filled its result with the data of its image and nothing else, whatever *)
(* other results are outstanding, however sizes change, and whatever       *)
(* steps of other calls have failed. It fails of XFeat once the second of  *)
(* the two allocations at a new size may fail ("score" among the Faults):  *)
(* the input then has the new size and cur the old, which the next frame   *)
(* of the old size takes for its own.                                      *)
SubmitAsTold ==
    \A r \in Result : told[r].res = "ok" =>
        LET f == told[r].of[1]
        IN  /\ (kind = "osnet" => f \notin Dark) =>
                  \A c \in DataFields[kind] : st.mem[<<r, c>>] = told[r].of
            /\ kind \in Stamped => st.mem[<<r, "stamp">>] = SizeOf[f]
            /\ kind = "osnet" => st.mem[<<r, "stamp">>] = IF f \in Dark THEN Zero ELSE <<f>>

(* Matches are of the pair that was submitted last, and there are none if  *)
(* one of the two images has nothing to match.                             *)
MatchesAsTold ==
    told["pair"].res = "ok" =>
        LET pair == told["pair"].of
            dark == \E i \in DOMAIN pair : pair[i] \in Dark
        IN  /\ kind = "xfeat" => st.mem[<<"pair", "n0">>] = IF dark THEN Zero ELSE <<pair[1]>>
            /\ \/ kind = "xfeat" /\ dark
               \/ \A c \in Matching[kind] \ {"n0"} : st.mem[<<"pair", c>>] = pair

(* The rows of the bank are the descriptors enrolled or put there last, so *)
(* that ids stay valid, and scores are of the rows at the time of the call. *)
BankAsTold ==
    /\ Len(bank.rows) = bank.len
    /\ \A i \in 1 .. bank.len : st.mem[<<"bank", i>>] = bank.rows[i]
    /\ told["scores"].res = "ok" => st.mem[<<"scores", 0>>] = told["scores"].of

(* "a persistent binding would let a caller drop the result buffer and have *)
(* the next run write into freed device memory": no run does.              *)
NoWriteAfterDrop ==
    \A r \in Result \ alive, c \in DataFields[kind] : st.mem[<<r, c>>] = Garbled

(* Every call that returned Ok has done what it says to the data it was    *)
(* given: results, matches, and the rows and scores of the bank, a copy    *)
(* into which may have failed. What SubmitAsTold excepts is excepted here. *)
ResultsAsTold == SubmitAsTold /\ MatchesAsTold /\ BankAsTold
=============================================================================
