------------------------- MODULE BatchToolsProperties ------------------------
(***************************************************************************)
(* What the reader of the batch programs' files relies on.                 *)
(***************************************************************************)
EXTENDS BatchTools

(* Both routes of the fit, on the host and on the device, give the same    *)
(* image and scales for every size and cap: fit.rs keeps two code paths    *)
(* and promises "byte-for-byte" equality.                                  *)
RoutesAgree == fit.pc = "done" => fit.host = fit.device

(* Scaled::to_source undoes the resize: the forward map of its comment,    *)
(* dst = s * src + (s - 1) / 2, takes the coordinate told for any pixel    *)
(* of the fitted image to the pixel of the resized picture shown there,    *)
(* and the coordinate lies on the picture.                                 *)
Undone(x, scale, shown) ==
    LET p == ToSource(x, scale)
        to == scale[1]
        from == scale[2]
    IN  /\ 2 * to * p[1] + (to - from) * p[2] = 2 * from * shown * p[2]
        /\ -p[2] <= 2 * p[1] /\ 2 * p[1] <= (2 * from - 1) * p[2]

PixelsReturnHome ==
    fit.pc = "done" /\ fit.host.fits =>
        LET image == fit.host.image
        IN  \A i \in DOMAIN image.px :
                /\ Undone((i - 1) % image.w, fit.host.x, image.px[i][3])
                /\ Undone((i - 1) \div image.w, fit.host.y, image.px[i][4])
------------------------------------------------------------------------------
Whole(program, f) ==
    /\ f.stem \in DOMAIN files[program]
    /\ files[program][f.stem] # Torn
    /\ files[program][f.stem].file = f

Unordered(records) == {{r.pair[1], r.pair[2]} : r \in ToSet(records)}

(* Exit status 0 says the output is complete, which the caller decides by  *)
(* alone: a whole file for every frame; one row of dino_batch per frame,   *)
(* in the order of the names; one record for every pair asked for, written *)
(* either way round and however often, but for the tolerated part.         *)
OutputsComplete ==
    /\ \A p \in {"aliked", "xfeat", "depth"} :
          status[p] = "ok" => Frames # {} /\ \A f \in Frames : Whole(p, f)
    /\ status["dino"] = "ok" =>
          [i \in DOMAIN files["dino"] |-> files["dino"][i].of.file] = Sorted(Frames)
    /\ status["lightglue"] = "ok" =>
          LET asked == {{l[1], l[2]} : l \in ToSet(lines)}
              records == files["lightglue"].records
          IN  /\ asked # {} /\ Unordered(records) \subseteq asked
              /\ Cardinality(Unordered(records)) = Len(records)
              /\ 100 * (Cardinality(asked) - Len(records)) <= Tolerated * Cardinality(asked)

(* Matches are indices into the keypoints aliked_batch wrote. If both      *)
(* programs succeed and the fingerprints say one engine, then every match  *)
(* was made from the very extraction that is in the file of its frame:     *)
(* same image, same fit, same engine. So lightglue_batch.rs has it of the  *)
(* fit: "640 only if the engine rejects it".                               *)
SamePixels ==
    status["aliked"] = "ok" /\ status["lightglue"] = "ok" =>
        \A r \in ToSet(files["lightglue"].records), side \in {1, 2} :
            LET keypoints == files["aliked"][r.pair[side]]
            IN  files["lightglue"].fp = keypoints.fp => r.of[side] = keypoints

(* It is so unless an upload or an allocation failed.                      *)
SamePixelsWithMemory == ToSet(breaks) \cap {"upload", "alloc"} = {} => SamePixels

(* The count in the header of a match file never exceeds the records that  *)
(* follow, whenever the program dies; a program that says it succeeded has *)
(* counted all of them.                                                    *)
HeaderCounts ==
    DOMAIN files["lightglue"] # {} =>
        /\ files["lightglue"].n <= Len(files["lightglue"].records)
        /\ status["lightglue"] = "ok" => files["lightglue"].n = Len(files["lightglue"].records)

(* When a pair is matched its two results are in the cache unless a frame  *)
(* is dead, however small the cache; apart from them it keeps to its size. *)
InFlightKept ==
    /\ Matching /\ batch.pc = "match" =>
          \A i \in ToSet(Head(batch.todo)) : Cached(i) \/ i \in batch.dead
    /\ Len(cache) <= Larger(Cache, 2)

(* The cache is in the order of use, so what eviction takes from its front *)
(* was not used since any result it keeps, but for the pair in flight.     *)
OldestLeaves ==
    \A i, j \in DOMAIN cache : i < j => cache[i].used <= cache[j].used

(* Whatever fails, no program works for ever on a frame, a pair or the cap:*)
(* it ends. All it needs is to be scheduled.                               *)
ProgramEnds == []<>Running("none")

(* What exit status 0 stands for: every output whole and, for the matches, *)
(* a header that counts them, which a crash never leaves too large.        *)
SuccessIsComplete == OutputsComplete /\ HeaderCounts

(* Every result a match needs is there when it is made, at whatever size   *)
(* of the cache, and what goes is what was used least recently.            *)
CacheServesPair == InFlightKept /\ OldestLeaves

(* A fitted picture is the same on both routes, and its coordinates lead   *)
(* back to the picture it was made from.                                   *)
FitExact == RoutesAgree /\ PixelsReturnHome
==============================================================================
