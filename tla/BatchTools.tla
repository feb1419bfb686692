------------------------------ MODULE BatchTools -----------------------------
(***************************************************************************)
(* The batch programs: one model each over a directory of frames, written  *)
(* to files that another program reads. aliked_batch and xfeat_batch write *)
(* the keypoints of each frame, lightglue_batch matches between pairs of   *)
(* frames whose indices address them, dino_batch one file of descriptors,  *)
(* depth_batch a depth map of each frame. All the reader sees besides the  *)
(* files is the exit status.                                               *)
(*                                                                         *)
(* What is computed of a frame is known by the image file, the plan it was *)
(* fitted by and the engine: the keypoints of two extractions have the     *)
(* same order only if these agree.                                         *)
(***************************************************************************)
EXTENDS Fit, FiniteSets, SequencesExt

CONSTANTS
    Directories,        \* sets of image files [stem, ext, size, whole]
    PairLists,          \* sequences of lines, <<a, b>> or <<>> if malformed
    Extractors,         \* engines of the two extractors [fp, k, maxSide]
    Matchers,           \* keypoints the LightGlue engines take
    Cache,              \* extraction results lightglue_batch keeps, 24
    FallbackMaxSide,    \* 640
    XFeatFallbackMaxSide,
    Tolerated,          \* percent of pairs that may fail, 1
    Breaks,             \* calls that may fail for reasons of their own
    MaxBreaks           \* bound on how many do

ASSUME BatchAssumption ==
    /\ \A d \in Directories :
          /\ IsFiniteSet(d)
          /\ d \subseteq [stem : Nat, ext : STRING, size : (Nat \ {0}) \X (Nat \ {0}), whole : BOOLEAN]
          /\ \A f, g \in d : f.stem = g.stem /\ f.ext = g.ext => f = g
    /\ PairLists \subseteq Seq(Seq(Nat))
    /\ Extractors \subseteq [fp : Nat, k : Nat, maxSide : Nat]
    /\ {Cache, FallbackMaxSide, XFeatFallbackMaxSide} \subseteq Nat \ {0}
    /\ Tolerated \in Nat
    /\ Breaks \subseteq {"start", "upload", "alloc", "submit", "sync", "write", "finish", "match", "crash"}

VARIABLES
    dir,        \* the image files
    lines,      \* the list of pairs
    batch,      \* the program that runs: its name, engine, place and work
    cache,      \* lightglue_batch: results by use, the oldest first
    files,      \* program -> what it has written
    status,     \* program -> "none", "running", "ok", "failed", "killed"
    breaks      \* calls that failed, in order

batchVars == <<dir, lines, batch, cache, files, status, breaks>>

Programs == {"aliked", "xfeat", "dino", "depth", "lightglue"}
FrameExts == <<"jpg", "jpeg", "png">>
Torn == [file |-> "torn"]
------------------------------------------------------------------------------
(* The frames of the directory. Extensions are compared without their case *)
(* when listing, and by case when decoding.                                *)
Lower(ext) == CASE ext = "PNG" -> "png" [] ext = "JPG" -> "jpg" [] ext = "JPEG" -> "jpeg" [] OTHER -> ext
Frames == {f \in dir : Lower(f.ext) \in ToSet(FrameExts)}
Decodes(f) == f.whole /\ f.ext \in ToSet(FrameExts)

(* The members of S one after the other, each after those before it.       *)
Ascending(S, before) ==
    [i \in 1 .. Cardinality(S) |-> CHOOSE x \in S : Cardinality(before[x]) = i - 1]

(* By path: an upper case extension comes before a lower case one.         *)
ExtOrder == [JPEG |-> 1, JPG |-> 2, PNG |-> 3, jpeg |-> 4, jpg |-> 5, png |-> 6]
Sorted(fs) ==
    LET before == [f \in fs |-> {g \in fs : \/ g.stem < f.stem
                                          \/ /\ g.stem = f.stem
                                             /\ ExtOrder[g.ext] < ExtOrder[f.ext]}]
    IN  Ascending(fs, before)

(* path_for: lightglue_batch looks for a frame by number.                  *)
Candidates == <<"jpg", "JPG", "jpeg", "JPEG", "png", "PNG">>
PathFor(i) ==
    LET there == {c \in DOMAIN Candidates : \E f \in dir : f.stem = i /\ f.ext = Candidates[c]}
    IN  IF there = {} THEN [stem |-> i, ext |-> "jpg", size |-> <<1, 1>>, whole |-> FALSE]
        ELSE LET c == CHOOSE c \in there : \A d \in there : c <= d
             IN  CHOOSE f \in dir : f.stem = i /\ f.ext = Candidates[c]

(* The natural size first, then the cap.                                   *)
CapOf(program, f, attempt) ==
    CASE attempt = 0 -> Larger(f.size[1], f.size[2])
      [] program = "xfeat" -> XFeatFallbackMaxSide
      [] OTHER -> FallbackMaxSide

Extraction(f, plan, e) == [file |-> f, plan |-> plan, fp |-> e.fp]
------------------------------------------------------------------------------
(* Every non-blank line must parse; a pair is ordered, pairs are sorted,   *)
(* one of each is kept.                                                    *)
Ordered(line) == <<AtMost(line[1], line[2]), Larger(line[1], line[2])>>
PairsIn(text) == {Ordered(l) : l \in ToSet(text)}
PairsOf(text) ==
    Ascending(PairsIn(text), [q \in PairsIn(text) |->
                             {p \in PairsIn(text) : p[1] < q[1] \/ (p[1] = q[1] /\ p[2] < q[2])}])
Parses(text) == \A l \in ToSet(text) : Len(l) = 2 /\ l[1] # l[2]

(* What a program makes of a failure while it works on a frame: end with   *)
(* an error, go on without the frame, or try the cap. Faults: the engine   *)
(* is asked for as long as it rejects; any failed call leads to the cap.   *)
AlikedReactionFault(what, attempt) ==
    CASE what \in {"upload", "alloc", "sync", "write"} -> "abort"
      [] what \in {"small", "reject"} -> "retry"
      [] OTHER -> "skip"
AlikedReaction(what, attempt) ==
    CASE what \in {"upload", "alloc", "sync", "write"} -> "abort"
      [] what \in {"small", "reject"} /\ attempt = 0 -> "retry"
      [] OTHER -> "skip"
XFeatReaction(what, attempt) ==
    CASE what \in {"upload", "sync", "write"} -> "abort"
      [] what \in {"small", "reject", "submit"} /\ attempt = 0 -> "retry"
      [] OTHER -> "skip"
DinoReaction(what, attempt) == "abort"
DepthReaction(what, attempt) == IF what = "decode" THEN "skip" ELSE "abort"
GlueReactionFault(what, attempt) ==
    IF what \in {"small", "upload", "alloc", "reject", "submit"} /\ attempt = 0
    THEN "retry" ELSE "skip"
GlueReaction(what, attempt) ==
    IF what \in {"small", "upload", "alloc", "reject"} /\ attempt = 0 THEN "retry" ELSE "skip"

Reaction(what) ==
    CASE batch.name = "aliked" -> AlikedReaction(what, batch.attempt)
      [] batch.name = "xfeat" -> XFeatReaction(what, batch.attempt)
      [] batch.name = "dino" -> DinoReaction(what, batch.attempt)
      [] batch.name = "depth" -> DepthReaction(what, batch.attempt)
      [] batch.name = "lightglue" -> GlueReaction(what, batch.attempt)

Fits == {"aliked", "xfeat", "lightglue"}
------------------------------------------------------------------------------
Off == [name |-> "none"]
Running(program) == batch.name = program
Matching == Running("lightglue")

NewBatch(program, e) ==
    [name |-> program, engine |-> e, pc |-> "read", todo |-> <<>>, need |-> <<>>, attempt |-> 0,
     plan |-> TooSmall, hand |-> Torn, done |-> 0, dead |-> {}, failed |-> 0, rows |-> <<>>,
     pairs |-> <<>>, error |-> FALSE]

End(how) ==
    /\ batch' = Off
    /\ status' = [status EXCEPT ![batch.name] = how]

(* What is in hand: a frame of the directory, or one of the pair's.        *)
Index == Head(batch.need)
InHand == IF Matching THEN PathFor(Index) ELSE Head(batch.todo)

NextFile(b) ==
    [b EXCEPT !.todo = Tail(@), !.attempt = 0,
              !.pc = IF Len(b.todo) = 1 THEN "finish" ELSE "read"]
NextNeeded(b) ==
    [b EXCEPT !.need = Tail(@), !.attempt = 0,
              !.pc = IF Len(b.need) = 1 THEN "match" ELSE "read"]
NextPair(b) ==
    IF Len(b.todo) = 1 THEN [b EXCEPT !.todo = <<>>, !.pc = "finish"]
    ELSE [b EXCEPT !.todo = Tail(@), !.need = b.todo[2], !.pc = "read"]
Proceed(b) == IF b.name = "lightglue" THEN NextNeeded(b) ELSE NextFile(b)

React(what) ==
    LET reaction == Reaction(what)
    IN  \/ reaction = "abort" /\ End("failed")
        \/ /\ reaction = "retry"
           /\ batch' = [batch EXCEPT !.attempt = 1, !.pc = "fit"]
           /\ UNCHANGED status
        \/ /\ reaction = "skip"
           /\ batch' = Proceed(IF Matching THEN [batch EXCEPT !.dead = @ \cup {Index}] ELSE batch)
           /\ UNCHANGED status

Break(what) ==
    /\ what \in Breaks
    /\ Len(breaks) < MaxBreaks
    /\ breaks' = Append(breaks, what)
------------------------------------------------------------------------------
(* A directory is worked on once, by aliked_batch before lightglue_batch.  *)
(* Whatever fails before the first frame leaves no file.                   *)
Unstarted == \A p \in Programs \ {"aliked"} : status[p] = "none"

StartOverFrames(program, e) ==
    /\ Running("none")
    /\ program # "lightglue"
    /\ Unstarted /\ status["aliked"] = "none"
    /\ LET names == Sorted(Frames)
       IN  \/ /\ names # <<>>
              /\ batch' = [NewBatch(program, e) EXCEPT !.todo = names]
              /\ status' = [status EXCEPT ![program] = "running"]
              /\ UNCHANGED breaks
           \/ /\ IF names = <<>> THEN UNCHANGED breaks ELSE Break("start")
              /\ status' = [status EXCEPT ![program] = "failed"]
              /\ UNCHANGED batch
    /\ UNCHANGED <<dir, lines, cache, files>>

StartMatching(e, k) ==
    /\ Running("none")
    /\ Unstarted
    /\ LET pairs == PairsOf(lines)
           b == [NewBatch("lightglue", e) EXCEPT !.todo = pairs, !.pairs = pairs]
           good == e.k = k /\ Parses(lines)
       IN  \/ /\ good
              /\ batch' = IF pairs = <<>> THEN [b EXCEPT !.pc = "finish"]
                          ELSE [b EXCEPT !.need = pairs[1]]
              /\ status' = [status EXCEPT !["lightglue"] = "running"]
              /\ files' = [files EXCEPT !["lightglue"] =
                              [n |-> 0, fp |-> e.fp, records |-> <<>>]]
              /\ UNCHANGED breaks
           \/ /\ IF good THEN Break("start") ELSE UNCHANGED breaks
              /\ status' = [status EXCEPT !["lightglue"] = "failed"]
              /\ UNCHANGED <<batch, files>>
    /\ UNCHANGED <<dir, lines, cache>>
------------------------------------------------------------------------------
Cached(i) == \E c \in DOMAIN cache : cache[c].index = i
PlaceOf(i) == CHOOSE c \in DOMAIN cache : cache[c].index = i
ResultOf(i) == cache[PlaceOf(i)].of
PairsDone == Len(batch.pairs) - Len(batch.todo)

SkipDead ==
    /\ Matching /\ batch.pc = "read"
    /\ Index \in batch.dead
    /\ batch' = NextNeeded(batch)
    /\ UNCHANGED <<dir, lines, cache, files, status, breaks>>

(* A use makes a result the youngest.                                      *)
Touched(i) == [index |-> i, of |-> ResultOf(i), used |-> PairsDone]
Refreshed(i) == Append(RemoveAt(cache, PlaceOf(i)), Touched(i))

Recall ==
    /\ Matching /\ batch.pc = "read"
    /\ Index \notin batch.dead /\ Cached(Index)
    /\ cache' = Refreshed(Index)
    /\ batch' = NextNeeded(batch)
    /\ UNCHANGED <<dir, lines, files, status, breaks>>

Read ==
    /\ batch.name \in Programs /\ batch.pc = "read"
    /\ ~(Matching /\ (Index \in batch.dead \/ Cached(Index)))
    /\ IF Decodes(InHand)
       THEN /\ batch' = [batch EXCEPT !.pc = IF batch.name \in Fits THEN "fit" ELSE "submit"]
            /\ UNCHANGED status
       ELSE React("decode")
    /\ UNCHANGED <<dir, lines, cache, files, breaks>>

FitFrame ==
    /\ batch.name \in Programs /\ batch.pc = "fit"
    /\ LET f == InHand
           plan == Plan(f.size[1], f.size[2], CapOf(batch.name, f, batch.attempt))
       IN  IF plan.fits
           THEN batch' = [batch EXCEPT !.plan = plan, !.pc = "submit"] /\ UNCHANGED status
           ELSE React("small")
    /\ UNCHANGED <<dir, lines, cache, files, breaks>>

Rejected == batch.name \in Fits /\ Larger(batch.plan.cw, batch.plan.ch) > batch.engine.maxSide

Reject ==
    /\ batch.name \in Programs /\ batch.pc = "submit"
    /\ Rejected
    /\ React("reject")
    /\ UNCHANGED <<dir, lines, cache, files, breaks>>

Fails(what) ==
    /\ batch.name \in Programs /\ batch.pc = "submit"
    /\ what = "alloc" => batch.name \in {"aliked", "lightglue"}
    /\ Break(what)
    /\ React(what)
    /\ UNCHANGED <<dir, lines, cache, files>>

(* Keep a new result, and while there are too many let the oldest go that  *)
(* is not of this pair. Two turns of the loop are all there can be: one    *)
(* result is added at a time, and no more than a pair stays beyond the     *)
(* size. Fault: whichever is oldest.                                       *)
LetGoFault(c, pair) == IF Len(c) > Cache THEN Tail(c) ELSE c
LetGo(c, pair) ==
    LET loose == {i \in DOMAIN c : c[i].index \notin ToSet(pair)}
    IN  IF Len(c) <= Cache \/ loose = {} THEN c
        ELSE RemoveAt(c, CHOOSE i \in loose : \A j \in loose : i <= j)
Evicted(c, pair) == LetGo(LetGo(c, pair), pair)

Extract ==
    /\ batch.name \in Programs /\ batch.pc = "submit"
    /\ ~Rejected
    /\ LET hand == Extraction(InHand, batch.plan, batch.engine)
       IN  CASE Matching ->
                  /\ cache' = Evicted(Append(cache, [index |-> Index, of |-> hand,
                                                     used |-> PairsDone]), Head(batch.todo))
                  /\ batch' = NextNeeded(batch)
             [] Running("dino") ->
                  /\ batch' = NextFile([batch EXCEPT !.rows =
                                  Append(@, [stem |-> InHand.stem, of |-> hand])])
                  /\ UNCHANGED cache
             [] OTHER ->
                  /\ batch' = [batch EXCEPT !.hand = hand, !.pc = "write"]
                  /\ UNCHANGED cache
    /\ UNCHANGED <<dir, lines, files, status, breaks>>
------------------------------------------------------------------------------
(* One file a frame, named after it, created and then written.             *)
PutFile(program, stem, what) ==
    files' = [files EXCEPT ![program] =
                 [s \in DOMAIN @ \cup {stem} |-> IF s = stem THEN what ELSE @[s]]]

Write ==
    /\ batch.name \in Programs /\ batch.pc = "write"
    /\ \/ /\ PutFile(batch.name, InHand.stem, batch.hand)
          /\ batch' = NextFile([batch EXCEPT !.done = @ + 1])
          /\ UNCHANGED <<status, breaks>>
       \/ /\ Break("write")
          /\ PutFile(batch.name, InHand.stem, Torn)
          /\ End("failed")
    /\ UNCHANGED <<dir, lines, cache>>

(* A pair one of whose frames is dead is passed over, one the matcher      *)
(* cannot do is counted; a write that fails ends the loop.                 *)
Match ==
    /\ Matching /\ batch.pc = "match"
    /\ LET a == Head(batch.todo)[1]
           b == Head(batch.todo)[2]
       IN  IF ~Cached(a) \/ ~Cached(b)
           THEN batch' = NextPair(batch) /\ UNCHANGED <<files, breaks>>
           ELSE \/ /\ files' = [files EXCEPT !["lightglue"].records =
                                  Append(@, [pair |-> <<a, b>>, of |-> <<ResultOf(a), ResultOf(b)>>])]
                   /\ batch' = NextPair([batch EXCEPT !.done = @ + 1])
                   /\ UNCHANGED breaks
                \/ /\ Break("match")
                   /\ batch' = NextPair([batch EXCEPT !.failed = @ + 1])
                   /\ UNCHANGED files
                \/ /\ Break("write")
                   /\ batch' = [batch EXCEPT !.error = TRUE, !.pc = "finish"]
                   /\ UNCHANGED files
    /\ UNCHANGED <<dir, lines, cache, status>>
------------------------------------------------------------------------------
(* Fault: any file is a success.                                           *)
FramesDoneFault == batch.done > 0
FramesDone == batch.done = Cardinality(Frames)

FinishFrames ==
    /\ batch.name \in {"aliked", "xfeat", "depth"} /\ batch.pc = "finish"
    /\ End(IF FramesDone THEN "ok" ELSE "failed")
    /\ UNCHANGED <<dir, lines, cache, files, breaks>>

(* The rows are written all at once.                                       *)
FinishRows ==
    /\ Running("dino") /\ batch.pc = "finish"
    /\ \/ /\ files' = [files EXCEPT !["dino"] = batch.rows]
          /\ End("ok")
          /\ UNCHANGED breaks
       \/ /\ Break("write")
          /\ files' = [files EXCEPT !["dino"] = <<Torn>>]
          /\ End("failed")
    /\ UNCHANGED <<dir, lines, cache>>

(* The number of pairs goes into the header last, then the exit status is  *)
(* decided.                                                               *)
Verdict ==
    IF batch.error \/ batch.pairs = <<>> \/ batch.dead # {}
       \/ 100 * batch.failed > Tolerated * Len(batch.pairs)
    THEN "failed" ELSE "ok"

Header == batch.done

FinishMatches ==
    /\ Matching /\ batch.pc = "finish"
    /\ \/ /\ files' = [files EXCEPT !["lightglue"].n = Header]
          /\ End(Verdict)
          /\ UNCHANGED breaks
       \/ /\ Break("finish")
          /\ End("failed")
          /\ UNCHANGED files
    /\ cache' = <<>>
    /\ UNCHANGED <<dir, lines>>

(* Killed: of what was buffered, any part has reached the file.            *)
Crash ==
    /\ batch.name \in Programs
    /\ Break("crash")
    /\ \/ batch.pc = "write" /\ PutFile(batch.name, InHand.stem, Torn)
       \/ /\ Matching
          /\ \E i \in 0 .. Len(files["lightglue"].records) :
                files' = [files EXCEPT !["lightglue"].records = SubSeq(@, 1, i)]
       \/ ~Matching /\ UNCHANGED files
    /\ End("killed")
    /\ cache' = <<>>
    /\ UNCHANGED <<dir, lines>>
------------------------------------------------------------------------------
BatchOff ==
    /\ dir = {} /\ lines = <<>> /\ batch = Off /\ cache = <<>>
    /\ files = [p \in Programs |-> <<>>]
    /\ status = [p \in Programs |-> "none"]
    /\ breaks = <<>>

BatchInit ==
    /\ dir \in Directories
    /\ lines \in PairLists
    /\ batch = Off
    /\ cache = <<>>
    /\ files = [p \in Programs |-> <<>>]
    /\ status = [p \in Programs |-> "none"]
    /\ breaks = <<>>

Work ==
    \/ SkipDead \/ Recall \/ Read \/ FitFrame \/ Reject \/ Extract \/ Write \/ Match
    \/ FinishFrames \/ FinishRows \/ FinishMatches
    \/ \E what \in {"upload", "alloc", "submit", "sync"} : Fails(what)

BatchNext ==
    \/ \E p \in Programs, e \in Extractors : StartOverFrames(p, e)
    \/ \E e \in Extractors, k \in Matchers : StartMatching(e, k)
    \/ Work
    \/ Crash
==============================================================================
