# Verification of vision-rt

TLA+ models of the stateful parts of the vision-rt workspace, checked by TLC on
small instances, with theorems checked by TLAPS for all values of the constants.
Source paths are relative to the repository; `PROJECT.json` maps every modelling
definition to the lines it stands for.

## The system

vision-rt runs vision models on NVIDIA Jetson boards: detectors, depth, features
and embedders on TensorRT, a multi-object tracker over their detections, and a
browser live view. Example programs wire them together.

| component | state | operations | what is hard | what makes it correct |
|---|---|---|---|---|
| **Tracker** `vrt-track/src/{tracker,track}.rs` | vector of tracklets, gallery of dead tracks, `next_id`, frame counter | `update`, `update_dt`, `reset`, views | four matching stages hand positions to one another; four mechanisms rewrite ids; a loop removes from the vector it walks; dead records linger | one holder per identity; ids only move to older values; every detection used once; the class of an identity never flips; the pool is settled and the gallery bounded between calls; the call returns |
| **Association** `vrt-track/src/association.rs`, `hungarian` | none | cost fusion, gates, assignment | rectangular problems, sentinels next to small costs | an optimal one-to-one assignment below the gate; re-id abstains where a track has two look-alike detections |
| **Motion and filter** `vrt-track/src/{track,kalman}.rs` | Kalman filter, snapshot, observations, depth gate | predict, correct, replay of a gap | outlier or drift? what a replay forgets | the filter holds every observation and the time that passed; covariances stay positive definite |
| **Engine cache** `vrt-hub/src/lib.rs` | one directory of engine files, shared by threads and processes | `get_or_build` | concurrent first runs, a crash between write and rename, a model that changes during a build of minutes | a published engine is whole, and is the engine of the model its key names |
| **Model hub** `vrt-hub/src/lib.rs` | the download cache | `get`, `get_engine`, `resolve_engine` | corrupt downloads, several processes on one cache | only verified files are handed out; a prebuilt engine matches TensorRT, GPU, precision and shapes |
| **Live view** `vrt-viz/src/{stream,serve,h264}.rs`, `client.html` | latest-only slot, cached codec configs, one bounded queue per viewer | `submit`, encode worker, `publish_*`, `subscribe`, relay | a viewer subscribes between a config and its frames; slow viewers; dropped sets | a viewer sees a config, then a keyframe, then a gap-free run; the freshest set is encoded; a viewer let go is served again |
| **Session, extractors, matchers, bank, detectors** `vrt/src/session.rs`, `vrt-{xfeat,raco-aliked,lightglue,dinov3,rfdetr*,depth-anything,osnet}` | bindings of the next run, device buffers sized for one image, counts read late, descriptor slots, stream order | `submit`, result accessors, `bind_output` | a run that fails half way; size change with work in flight; buffers dropped under a run; capacity | a result that came back Ok holds the data of its own image; no run writes into memory that was dropped |
| **Packing kernels** `*/postprocess.rs` | device counters, reused rows | top-K, compaction | threads arrive in any order; old rows behind | a row is one survivor through and through, and none is lost below the cutoff |
| **Constructors of models** | shapes read from an engine | `new`, checks | an engine the crate was not compiled with | each role is given to the right tensor, or the engine refused |
| **Fit, geometry, sampling, painting** `vrt/src/fit.rs`, `vrt-types`, `vrt-viz/src/{draw,trails}.rs` | trails, crop buffers | pure functions over pixels | boundaries, two routes to one result | the two routes agree, the way back undoes the way there, nothing is read or written outside |
| **Example applications** `examples/` | frame clock, keyframe bank, crops, clips; files of the batch programs | camera loops; directory loops | stamps that jump, calls that fail, kills | what the tracker is given of an instance is that instance's; exit status 0 means complete files |

How they interact: an example pulls frames, runs detector and embedder sessions on
a CUDA stream (engines come from the engine cache through the hub), passes the
detections with depth and embedding to `Tracker::update_dt`, and hands the
rendered views to `LiveStream::submit`. The tracker is single-threaded; the cache
directory is shared by all processes of the machine; the live view runs one encode
thread and one thread per viewer; sessions share streams.

## Modules

| module | what it is |
|---|---|
| `Tracker` | the tracker with feature `appearance`, one action per stage and per loop iteration of `Tracker::step` |
| `IdentityLedger` | what a tracker promises about identities: minted, live, retired, forgotten |
| `TrackerProperties` | its invariants, action properties, liveness, and the refinement of `IdentityLedger` |
| `TrackerProofs` | theorems about `Tracker`, and that it implements `IdentityLedger` |
| `Assignment`, `Association` | `hungarian`, and the cost tables of the four stages around it |
| `AssociationProofs` | theorems about the two, and the one about `Motion` |
| `Sums` | induction on numbers and finite sets, and sums over finite sets: lemmas of the other proofs |
| `Motion` | what goes into a track's filter |
| `Kalman` | predict and correct in exact fractions |
| `Geometry` | overlaps, centres, back-projection, undistortion |
| `EngineCache` (+`Properties`, `Proofs`) | `get_or_build` and the load of what it returns, by threads of several processes over one directory |
| `EngineStore` | what the cache promises: a table from keys to whole engines |
| `ModelHub` (+`Properties`) | the registry, `pick_artifact`, the verified download |
| `EngineContract` (+`Properties`) | what a constructor makes of the tensors an engine has |
| `Survivors` (+`Properties`, `Proofs`) | the packing and top-K kernels, thread by thread |
| `DeviceStream`, `FramePipeline` (+`Properties`, `Proofs`) | the stream with its buffers; every model's `submit` as a program of fallible steps over it |
| `Matching` | the mutual nearest-neighbour matcher |
| `Sampling` | depth, crops and joints read out of a frame for one object |
| `LiveView` (+`Properties`, `Proofs`) | slot and worker, fan-out, serving threads, the page's decoders |
| `Painting` | lines, trails, copies |
| `Applications` (+`Properties`) | the five camera programs |
| `Fit`, `BatchTools` (+`Properties`) | the fit to an engine's grid; the five batch programs over it |
| `ExamplesProofs` | theorems about the camera programs and the batch programs |
| `MCTracker`, `MCEngines`, `MCLiveView`, `MCFramePipeline`, `MCApplications`, `MCParts` (+ `.cfg`) | instances for TLC |

`MCEngines` and `MCParts` hold several modules that do not interact: one variable,
`job`, chosen at the start, says which of them runs, and the others rest. They save
runs, not states: each job is explored in full.

### Tracker

`Tracker::step` runs on one thread and nobody sees its intermediate states, but its
body is nine passes over shared vectors that depend on what the earlier ones left.
The model cuts it where the code's comments do: `BeginFrame` (partition, predict),
`Stage1`, `ReidStage` (stage 1.5), `Stage2`, `Stage3`, then one action per iteration
of the deferred-merge loop (`Merge`, `MergeNone`), the birth loop (`NoBirth`,
`Resurrect`, `Mint`) and the reap loop (`Keep`, `HandOff`, `Bury`), and `EndFrame`
(expiry, cap, frame counter). `phase` and `cursor` are the program counter and the
loop index, `u_pool` and `u_high` the code's two lists of what is still unmatched.
`used` is a history variable for one property. `Reset` may happen between calls.

Abstractions: boxes, depths, velocities and the Kalman filter only influence which
pairs the assignment may form, so a geometric stage takes any one-to-one partial
assignment of its rows and columns. What guards by *data the model keeps* stays a
guard: state, class, scores against the thresholds, ages, hits, embeddings. An
embedding is a member of `Feature` with a distance to every other; the moving
average of two is any member `Blend` allows. Whether two boxes overlap, a
reappearance lies within the spatial bound, or a box has collapsed is a free choice.
Counters that are only compared stop one past the compared value (`Saturate`).
Malformed detections, which the code skips, are simply not among the detections.
Diagnostics (`ReidEvent`) are left out. Not modelled: the build without `appearance`,
which is the same machine with an empty gallery and no embeddings.

Properties (`TrackerProperties`):

* `UniqueIdentity` - whoever holds an identity (a track, or a gallery entry) is its
  only holder, at every point inside a frame. The dead record of an absorbed twin
  (a *husk*: `Removed`, zero hits) still shows the id and does not count.
* `ImplementsLedger` - every step maps to a step of `IdentityLedger` or to a stutter:
  an identity appears only by minting or by leaving the gallery, two records of one
  object converge on the older identity, a forgotten one never returns.
* `IdsOnlyMoveOlder` - no surviving track or entry gets a younger id than it had.
* `OneDetectionOneTrack` - over all stages and births of one frame.
* `BetweenCalls` (`PoolSettled`, `GalleryBounded`) - what holds between two calls.
* `IdentityKeepsClass` - an identity that stands for an object of a class (a track no
  longer Tentative, or a gallery entry) never stands for an object of another.
* `UpdateReturns` - every call returns, assuming only that the thread that runs it is
  scheduled (`WF_vars(Step)`; a call of `step` waits for nobody).

### Around the tracker

`Association` builds the cost table of one stage and `Assignment` solves it, one
action per row taken and per edge of the search tree. `Feasible` is the solver's own
invariant (potentials below costs, tight on matched edges), `AssignmentRight` that the
table's cheapest assignment comes out and each pair once. `IdentityGuards` states what
keeps identities apart, no more than the code does: re-id never matches a track that has
a second allowed detection within half the gate of its best (`ReidNeverGuesses`), and in
the other stages two tracks hold each other's detections across a depth gap only if
changing them back would cost the two penalties or more (`ExchangeIsDearer`). The margin
looks along a track's own row, so two lost look-alikes that want one detection are decided
by cost; and depth is a penalty outside re-id, so that a single pair that overlaps well
may match across a gap. A table is a sequence of rows: one without rows has no width
either, so of `linear_assignment`'s early return the case of no tracks and some
detections (which returns the detections unmatched) is not in the model.
`GeometryExact` takes overlaps, centre distances, rescue and undistortion over
exact rationals against their definitions. `Motion` keeps of a filter what went into
it: how far it has been carried, how many observations corrected it, whether its depth
is a measured one. `HistoryKept` says that no observation is lost over rollback and
replay, that `DEPTH_REJECT_MAX` true depths in a row are enough to be believed, that
the clock is the time it stands for, and that the nominal depth of birth never gates; the
last is true of births from a usable depth or from none, not from a bad one (remarks).
`Kalman` computes predict and correct in exact fractions on three of the eight axes
(the matrices couple no others): `FilterSound` says that the covariance stays positive
definite, a correction only adds information, a missing depth changes none, and two
steps are as long as their sum.

### EngineCache

Any number of threads, each in a process (`PidOf`), call `get_or_build` on one cache
directory and load the engine they are given. An action is what happens between two
points where another thread or process can look: hash the graph (`Ask`), look for the
engine (`Hit`, `Miss`), build (`BuildEngine`), open and so create or truncate the tmp
file (`OpenTmp`), write a chunk (`WriteChunk`), rename (`Publish`), open the engine and
read it (`OpenEngine`, `ReadChunk`, `Loaded`). `Fail` is every `?` on the way; `Crash`
ends all calls of a process and leaves its files; `Edit` is somebody exporting the
model anew. `dir` maps paths to files and `files` keeps every file ever created, so
that a rename takes a name away from a file without changing what a reader that has
it open sees. A chunk is the number of the build it comes from; `builds` records what
each build read, which makes "whole" and "the engine of its key" statable.

Abstractions: hashing a file is one step, a truncated sha256 tells files apart, an
engine takes `Chunks` writes, TensorRT version and GPU never change. `trtexec`'s own
output file is part of the build: its name is unique in a process. Crashes are of
processes; what an unsynced rename leaves behind after a power cut is not modelled
(the code does not fsync before the rename).

* `PublishedWhole` - whatever exists under an engine's name is one build's engine, all
  of it. Holds when no two threads of one process miss on the same key.
* `ImplementsStore` - with that, the directory is the table `EngineStore`: engines
  appear under their own key in one step, may be replaced, never go, and a reader
  holds one engine from open to return.
* `EngineIsAsked` - a caller loads the engine of the graph, weights and profile that
  were on disk when it asked. Holds as long as only the graph changes, and not
  between a call's hash and its build (`Edits`, `EditMidCall`): the run and the theorem
  leave those two cases out, so they show nothing of a sidecar of weights that changes or
  of a model exported anew in the middle of a call (see the remarks below the findings).
* `KeyedByContent` - every byte under a key was built for that key, even when threads
  of one process tear one another's engines.

### The rest of an engine's way

`ModelHub`: several processes ask for models on one box; downloads may be damaged
(`MaxBad`) and processes killed (`MaxKills`). `HubDelivers` says that a prebuilt engine
handed out is of this TensorRT, GPU, precision and shape, that one that fits is served,
that what `get` returns is whole and that no bad file stays; `RetryHeals` that who retries gets the model once nobody disturbs it. The HTTP client is
external. `EngineContract`: an engine is a list of tensors of which the code sees name,
shape and type, and the model what each really holds; `AcceptedIsUsable` says that an
accepted engine has its roles right and `submit` reads within what is there.
`Survivors`: one process per thread of a kernel, with the atomic reservation of a row
and the write to it as two steps, over buffers that hold an older frame's rows;
`PackedOnce` says that every row is one survivor through and through and every survivor
is there once, `CutoffFillsResult` that the cutoff of the top-K selection wastes no slot.

### FramePipeline

A `submit` is a program: the fallible steps of the method in its order, over cells on
one stream (`DeviceStream`). What a cell holds is the frames it was computed from, a
sequence; mixing frames or dimensions leaves `Garbled`. `mem` is what the cells hold once
the device has caught up, which is all a host that synchronises before reading can see;
`busy` and `dirty` say what does depend on progress. `ResultsAsTold` says that a result a
`submit` returned Ok for holds the data of its image whatever other results are
outstanding, sizes change or calls fail, that matches are of the pair last submitted and
bank rows keep their ids; `NoWriteAfterDrop` that no run writes into memory dropped or
reallocated under it.

`Faults` names the kinds of step that may fail. A call is refused (`reject`) or fails to
launch or copy (`launch`, the copy of a row into the bank included: `enroll` then keeps its
length, `replace` its row), and an allocation fails under the name of its buffer (`input`,
`score`). The run `pipeline` lets every one of them fail but `score`: with it
`ResultsAsTold` does not hold of XFeat, which replaces `input`, allocates `score_dev` and
records the size last. That case is the run `resize_halfway` and finding 5.

`Matching` is the mutual nearest-neighbour matcher in detail (`PairsTrusted`), `Sampling`
the kernels that read depth, crops and joints of one object (`SampledFromItsOwn`).

### LiveView

The submitter, the encode worker, one serving thread and one page per viewer. Slot,
cached configs and bounded queues are the code's; the queue of a viewer that is full lets
the viewer go, and the page reconnects. `ConfiguredFirst` and `GapFree` are about what a
decoder is fed, `FreshestEncoded` about the slot, `DroppedViewerReturns` about being
served again. Weak fairness of the worker, of each serving thread and of the page's
event loop is all that is assumed: they are threads that are scheduled, and none waits
on another but through the slot and the queues.

### Applications and BatchTools

`Applications` is one loop per camera program; an instance is `<<frame, slot>>` all the
way through device buffers, so that a box, depth or embedding of another shows
(`FedAsMeasured`). It also says what the interval given to `update_dt` is: within one
timebase exactly one turn's; after a reconnect, when the stamps of the two frames are of
different timebases and cannot be compared, that of the turn before or the difference
of the stamps if it happens to look like one (positive and below the limit on gaps).
`KeyframesAligned` is about `rtsp_dinov3`'s bank, its ids and thumbnails, and
`LeastSeenLeaves` about which keyframe makes room in it; `ClipCompletes` is about the
recorder. `BatchTools` runs each
program over small damaged directories with failing calls and kills; its reader sees the
files and the exit status (`SuccessIsComplete`, `SamePixelsWithMemory`,
`CacheServesPair`, `ProgramEnds`); the cache of `lightglue_batch` lets frames go one turn of
its `while` at a time (`LetGo`), the least recently used first. `Fit` is the two routes of `fit.rs` and the way back
(`FitExact`). `Painting` is Bresenham lines, trails and copies (`DrawnInPlace`); its
integers do not overflow, as those of `draw_line` would for ends some 2^30 off the frame.

## Runs

"2 workers" times are of a four-core machine.

| run | checks | bounds | distinct states, time |
|---|---|---|---|
| `identity` | `UniqueIdentity`, `ImplementsLedger`, `IdsOnlyMoveOlder` | 1 class, 2 far-apart embeddings, 2 detections a frame, 6 frames, 4 identities, gallery of 2, `GalleryTtl` 2 | 1 932 233, 74 s |
| `frame` | `TypeOK`, `OneDetectionOneTrack`, `BetweenCalls`, `UpdateReturns`, `IdentityKeepsClass` | 2 classes, 2 embeddings, 2 detections a frame, 6 frames, 3 identities, gallery of 1, `GalleryTtl` 1 | 843 017, 121 s |
| `engines` | `KeyedByContent`, `EngineIsAsked`, `ImplementsStore`, `AcceptedIsUsable`, `PackedOnce`, `CutoffFillsResult` | 2 threads in processes of their own, 3 builds, 2 chunks, 2 graphs, edits between calls; engines of up to 4 tensors; images of 4x1, K = 2, 2 score buckets | 833 091, 150 s |
| `live_view` | `ConfiguredFirst`, `GapFree`, `FreshestEncoded`, `DroppedViewerReturns` | 1 view, 1 viewer, queue of 2, keyframe every 2, 4 sets, 1 lost connection | 49 612, 28 s |
| `pipeline` | `ResultsAsTold`, `NoWriteAfterDrop` | 3 frames (one of another size and dark), 2 results, bank of 2, 1 fault of any kind but `score` | 55 550, 119 s |
| `applications` | `FedAsMeasured`, `KeyframesAligned`, `ClipCompletes`, `LeastSeenLeaves` | 3 frames (6 for keyframes), 2 instances, gaps of 1 and 3 s, `GapLimit` 2, 2 timebases | 710 452, 97 s |
| `parts` | `SuccessIsComplete`, `SamePixelsWithMemory`, `CacheServesPair`, `FitExact`, `HubDelivers`, `RetryHeals`, `ProgramEnds`, `Feasible`, `AssignmentRight`, `IdentityGuards`, `GeometryExact`, `HistoryKept`, `FilterSound`, `DrawnInPlace`, `PairsTrusted`, `SampledFromItsOwn` | below | 317 444, 145 s |
| `cache_first_runs` | *violated:* `PublishedWhole` | two threads of one process | |
| `survivors_boundary` | *violated:* `ApproximateOnlyAtBoundary` | K = 2, 4 pixels | |
| `hub_lightglue` | *violated:* `ConstructorsKnown` | | |
| `oru_interval` | *violated:* `ClockIsTime` | intervals 1 and 2 with the replay on | |
| `resize_halfway` | *violated:* `SubmitAsTold` | XFeat, the `score` allocation may fail once | |

Why the bounds are enough. *Tracker:* six frames are the longest life cycle the
configuration allows: born, confirmed (2 hits), lost, expired (`TrackBuffer` 1),
retired, resurrected and merged; the timeouts are cut to 1 or 2 so that each fires within
them. `MaxId` bounds the identities minted between two resets: a frame starts only if all
its detections could be born. Classes are symmetric where no constant names one.
*Engine cache:* three builds are a builder that dies in the middle of a write, a second
process that publishes meanwhile, and a retry over the tmp file left behind; two chunks
tell a partial file from a whole one and mix two builds. *Live view:* four sets with a
keyframe every two and a queue of two make a viewer fall behind across a keyframe, be let
go and return. *Pipeline:* two results and two sizes are what a drain and reallocation
need; a descriptor bank of two rows and a failed call are looked at one at a time, no call
follows a bank change from which scores are kept, and at most one result of the
other-size frame is outstanding (`FewerFrames`). *Survivors:* TopK 2 over four pixels puts
more survivors than slots into two buckets. *Applications:* `Warmup` 2, `ClipSecs` 3,
`GapLimit` 2 (between the two gaps), capacity 2 of keyframes, `MinGap` 2 between them.
*Tracker* again: a gallery of one entry in `frame` makes the cap drain what has not expired.

The jobs of `parts`: pictures of 1..7 x 1..7 for the fit; five directories of at most four
files with distinct stems, four pair lists and two breaks for the batch programs
(`GridDivisor` 2); 2 callers, 7 requests, one damaged download and one kill for the hub;
tables up to 4x4 with costs in fortieths for the assignment; 13 boxes over 0..6 for the
geometry; lives of 7 frames with `DEPTH_REJECT_MAX` 3 for motion; 4 calls for the filter;
lines between points of -3..3 x -2..3, trails of 3 over 5 frames for painting; two submissions
over sets of at most three rows with stale rows behind for the matcher; maps of 4x3 and
10x6 with all masks of a 3x2 grid for sampling.

Fairness: `WF_vars(Step)` for `Tracker` (a call runs on its caller's thread and waits for
nobody); of the live view's worker, of the notification that wakes it and of each serving
thread with its page (`Serve(v)`: threads that are scheduled, a page that reconnects by
its timer and reads its socket); of the camera program's own steps and of the device
catching up; in `parts`, of whichever job runs: the batch program's work, a hub caller's
progress, the solver's loop. Nothing is assumed of crashes, kills, faults, lost
connections, cameras or producers. `RetryHeals` excuses a caller while another, which
trips over a file it did not find whole, is removing it.

## Findings

Each is a statement of the code's own comments or documents that a run refutes:

1. *Concurrent first runs* (`cache_first_runs`, `vrt-hub/src/lib.rs:811`). Line 738 says
   that they cannot corrupt the cache. That holds between processes; two threads of one
   process share the tmp file, which is named by process id: one truncates it, the other
   publishes it.
2. *Approximate only at the boundary* (`survivors_boundary`,
   `vrt-xfeat/src/postprocess.rs:310`). Threads reserve slots in any order, so the
   keypoint dropped at the cutoff may be one well above the boundary bucket.
3. *`LightGlue::from_hub`* (`hub_lightglue`, `vrt-lightglue/src/lib.rs:304`) asks for a
   name that is not in the registry and always fails.
4. *Replay interval* (`oru_interval`, `vrt-track/src/track.rs:365`). The replay of a gap
   takes one nominal frame per step whatever `dt` the frames had, so the filter falls
   behind the time that passed.
5. *Resize half way* (`resize_halfway`, `vrt-xfeat/src/model.rs:285`). If the second
   allocation of a change of size fails, `cur`, "the dims the buffers are currently
   sized for", stays at the old size: the next image of that size is not resized for, and
   its result comes back Ok from an input of one size and scores of another.

Met while modelling, without a run of their own (the line named is where to look):

* Tracker. A claimed track may claim again on its death bed (`tracker.rs:1015` does not
  look at `claimed`; `track.rs:162` and `tracker.rs:917` say one claim ever). With
  `gallery_min_hits = 0`, which `validate` accepts, an absorbed husk enters the gallery
  although `tracker.rs:911` zeroes its hits to keep it out. A Tentative heir relabels an
  established identity (`tracker.rs:1016`, `track.rs:303`); `IdentityKeepsClass` is the
  reading in which a Tentative track does not yet stand for its identity. The gallery
  does not evict its oldest entry: deduplication refreshes in place and `swap_remove`
  reorders. `reset` leaves `reid_events`.
* Motion. `track.rs:216` sets `depth_measured` from whether the detection has a depth,
  after lines 197-200 have dropped one that is NaN or not positive: such a track counts as
  measured at the nominal depth, which lines 124-126 say must not gate association.
* Association. Gating after an ungated optimum can leave an admissible pair unmatched
  (costs 0.3, 0.6, 0.6, 1.0 under a threshold of 0.5). The "hard veto" of stage 2 and the
  fused centre cost are added penalties that stay below the gate. A re-id assignment may
  give a track its runner-up. `depth_gate_penalty` is not validated, and an infinite one
  keeps the Hungarian loop from ending. Metric overlap equals image overlap at equal
  depth only if `fx = fy`. The rescue of a track narrower than two pixels reaches outside it.
* Engine cache. Models with a `.onnx.data` sidecar keep their weights in a file that is
  not hashed (`lib.rs:736`). The graph is hashed and read again by the build: replaced in
  between, the new engine is kept under the old key. No fsync before the rename.
* Models. RaCo-ALIKED accepts bf16 outputs and binds them into f32 buffers
  (`session.rs:18-20`). A launch error after `n0` was set leaves the count of this pair
  beside the previous scores (`matching.rs:346-350`). `match_into` on an empty bank leaves
  old scores. RF-DETR accepts a query count of -1 and refuses models of four classes or
  fewer; seg and kpts do not compare the query counts of their outputs; DINOv3 compares
  only one dimension. kpts reads joints of class 1 whatever the label count. The box-depth
  patch samples one row and column beyond the inner half.
* Programs. `lightglue_batch` and `xfeat_batch` fall back to the smaller cap on any error
  where the comment says on a rejection. Two frames of one stem, or stale files of an
  earlier run, are mixed. `rtsp_dinov3` (lines 200-202) claims what replacement breaks.
  The fallback interval of `rtsp_track` lags by a frame. A clip is lost if the source ends
  before it is complete. Two processes of the hub can remove one another's download.

## Proofs

Eight modules hold theorems, one of them (`Sums`) only lemmas. Each is for all values of the constants that satisfy the
named assumptions of the modules below it (what `validate` enforces and the field types
imply), and is proved from an inductive invariant that TLC checked first.

**`TrackerProofs`**

* `TypeCorrect`: `Spec => []TypeOK`. `TypeOK` is made inductive by three conjuncts:
  the pool is empty after stage 2, the loop index is 1 outside the loops, and nothing
  is unmatched when the reap starts.
* `StableIdentity`: `GalleryMinHits >= 1` implies `Spec => []UniqueIdentity`. The
  inductive invariant is `IdentityInv`: `UniqueIdentity` and `PoolAlive` (the
  positions the matching stages still hold are of live tracks), without which a match
  could revive a husk. The argument: call a step *inheriting* if there is an injective
  map from the holders after it to the holders before it that preserves ids
  (`Inherited`); inheriting steps keep `UniqueIdentity` (`InheritedUnique`), and every
  step but `Mint` and `Reset` inherits. The map is the identity for the stages; it
  follows the last element to its new place for `swap_remove`; it sends the young
  track to the entry or the twin it takes its id from; it sends the heir to the dead
  track. The last one is a holder because a remembered track has at least
  `GalleryMinHits` hits and a husk has none. The assumption is needed: with
  `gallery_min_hits = 0` the husk remark above is a counterexample.

and, on what one call of `update` leaves behind,

* `OneToOne`: `Spec => []OneDetectionOneTrack`. `DetectionInv` adds that what is still
  in `u_pool` and `u_high` is not yet in `used`; then each stage adds fresh pairs to a
  one-to-one set (`FreshPairs`).
* `SettledBetweenCalls`: `Spec => []BetweenCalls`. `LifeInv` says for every phase which
  states and ages its tracks may have - what is still unmatched missed this frame and
  what left the pool did not, the reap has settled what lies before its cursor - and
  meets `PoolSettled` at the end of the call. `GalleryBounded` is kept on its own: only
  `EndFrame` ages and caps, and `RetainedWithinCap` says what `retain` and `drain` leave.
* `IdsMoveOlder`: `Spec => IdsOnlyMoveOlder`, an action property, stage by stage from
  `TypeOK`: merges and hand-offs take the smaller id, and the reap's `swap_remove` is
  followed through its permutation.

and, for the refinement of `IdentityLedger`,

* `TrackerIsALedger`: `GalleryMinHits >= 1` implies `Spec => ImplementsLedger`. The
  mapping takes the ids of holders in the vector for live and those in the gallery for
  retired. Step by step: the matching stages and `Keep` are stutters (`MatchingStutters`);
  a stage-1.5 match or a resurrection reclaims an entry's id (`EntryReclaimed`,
  `ResurrectIsResurrect`); a merge and a death-bed hand-off converge two live ids on the older (`TwinsConverged`, `HandOffConverges`); `Mint` is a mint; a burial retires the id,
  merges it into the entry that is recognised as the same object, or forgets it
  (`BurialRetires`); expiry and the cap
  forget (`EndExpires`). Beside the invariants above it needs `TentativeSeen`: a Tentative
  track has been hit, so none is mistaken for a husk.
* `IdentitiesMinted`: with the same assumption, `Spec => []Ledger!LedgerSound`, read off
  the abstract specification: no identity is on a track and in the gallery at once, and
  every one in use was given out by `next_id`.
* `ClassOfIdentity`: `GalleryMinHits >= 1` implies `Spec => IdentityKeepsClass`. A step
  that maps the settled holders after it into those before it with id and class
  (`AllKept`, `KeptClasses`) cannot flip a class; the others are a confirmation, whose id
  was nobody else's, and a burial.

**`AssociationProofs`**, for any numbers of tracks and detections and any costs

`CostsAssumption` says what a table is: costs finite and not above the padding, and not so
many of them that a distance in the solver reaches the sentinel `Inf` (`f32::INFINITY` in
the code). The sums and the two inductions the proofs need are in `Sums`: `EveryNumber` and
`EverySet` say that a set with the base case and the step in it holds everything, and are
applied to a set that each proof defines, so that no operator is a parameter.

* `AssociationKeeps`: `[]AssociationInv`. `CostInv` bounds the costs of each step of a stage
  and says what re-id and the depth gate have made of them; `PadInv` that the solver's
  matrix is these costs in a square. `SolverInv`: the potentials are `Prices` (below the
  costs, equal on a matched pair, 0 for a free column); between rows the first `i` rows
  have a column each (`Taken`); during a row the used columns are a tree of edges whose
  reduced cost is 0, and `minv`, `way` are the least slack of every column outside and
  where it is reached (`Nearest`); while augmenting, following `way` leads by a rank to the
  root, so each turn moves the one row that is without its column. `FreeColumn`,
  `ReducedBelowInf`: a free column is left whenever the loop looks for one, and its slack
  is below the sentinel, which is why the padding and the assumption on `Inf` are needed.
* `PotentialsFeasible`: `[]Feasible`, from `Prices`.
* `AssignmentIsRight`: `[]AssignmentRight`. `DualBound`: a bijection of the square costs at
  least the sum of all potentials, and the solver's costs exactly that. A one-to-one map of
  the smaller side extends to a bijection (`OneToOneExtends`) whose other pairs are all
  padding, as many of them as the solver's own (`PadsByNumber`); so the least square
  is the least assignment.
* `IdentitiesAreGuarded`: `[]IdentityGuards`. The scan for the two best entries of a row is
  followed by induction on its columns (`BestTwoRight`): what it keeps is the least and the
  next, so a row that is not blanked has one entry below the margin of all the others. For
  `ExchangeIsDearer` the assignment is compared with the one that changes the two tracks
  back, whose other pairs cost the same (`TotalButTwo`), and each pair across a gap costs at
  least its penalty (`ApartCosts`). Nothing is said of two tracks that want one detection,
  nor of a single pair across a gap.

and, of what an associated detection does to its track,

* `MotionHistory`: `MotionSpec => []HistoryKept`, for any lengths of life, intervals and
  birth depths. `MotionInv` adds what the snapshot stands for (`SnapshotIsLastSeen`: the
  filter as it was at the last observation) and that the code's reject streak counts what
  was truly refused since the last accepted depth. The finding about the
  replay and the remark on nominal depths are the two hypotheses inside `HistoryKept`.

**`EngineCacheProofs`**

* `CacheTypes`: `CacheSpec => []CacheTypeOK`.
* `FilesOfTheirKey`: without `EditMidCall`, `[]KeyedByContent`, by `KeyedInv`: every chunk
  a file holds, and the build a call carries, is of the key the file's path and the call
  are for. No assumption on processes: torn files are still of their key.
* `PublishedEnginesWhole`: with `ThreadPerProcess`, `[]PublishedWhole`. `WholeInv`: a tmp
  path belongs to the one thread that writes it, what it has written is a prefix of its
  build, and no tmp name leads to a file that is published or being read. Without the
  assumption finding 1 is the counterexample.
* `EngineAskedIsLoaded`: with it, without mid-call edits and with weights left alone,
  `[]EngineIsAsked`; adds `ReadersKeyed` (the file a reader has open is of the key it
  asked for) and `WeightsStay`.
* `CacheIsAStore`: `CacheSpec => ImplementsStore`: a rename is a `Put` under its own key, an
  open a `Get`, a return or crash a `Drop`, every other step a stutter. `Views` replaces
  the refinement mapping by one that names a file's first chunk, and every step is checked
  on that.

**`LiveViewProofs`**, for any views, viewers, queue bound, distance of keyframes and losses

* `LiveTypes`: `Spec => []TypeOK`, with the bound on every queue.
* `ConfiguredBeforeFed`: `Spec => []ConfiguredFirst`; `NoGaps`: `Spec => GapFree`, an action
  property. Both rest on `LiveInv`, which TLC checked on one and on two views. It numbers
  the frames of a view: `Sent(s)` of them have been cast, the units the worker holds and
  those the encoder holds back continue the numbers without a gap. A viewer's queue is
  `Contiguous` - its frames of a view follow one another and what the decoder was last
  fed - and, while the viewer is still a client, `UpToDate`: it ends at `Sent(s)`. So the
  next broadcast fits (`CastOwn`), a pop leaves the rest in order (`PopOwn`), and a viewer
  whose queue is full loses the tail of its frames, since it is no longer a client. For the
  configs, each view is either `Given` (the page has the config, the serving thread is about
  to send it, or will find it when it copies the cache) or `Announced` (no frame in the
  queue comes before a config): `subscribe` registers the sender before it copies, and
  `publish_config` caches before it broadcasts, which is what keeps that disjunction. A
  frame at the head of a queue is not announced, so its decoder was given the config.

**`SurvivorsProofs`**, for any queries, pixels, images of a batch and capacity

* `PackingHolds`: `SurvivorsSpec => []Packing`, the inductive invariant. `StageOK`: the
  kernels still to run are the last ones of the submit, which gives who is before whom
  (`InOrder`, `Launched`). `InTheirTurn`: no thread starts before the kernels its selection
  reads from are over, and once append is over every survivor has written its row.
  `OneSlotEach`: from the clearing memset on, the threads of an image that took a row hold
  the rows 0 .. count - 1, one each, some perhaps past the capacity. `RowsOfTheirThread`: a
  row holds its thread's cells in every column whose kernel has run; what a thread writes
  disturbs no other's because slots are distinct, what a later kernel copies stays in its
  row. `Told`: after the copy the pinned count is the device's.
* `EachCandidateOneRow`: `SurvivorsSpec => []PackedOnce`. The slots are a bijection between
  the survivors and their numbers, so the capped count is how many different ones are read.
* `CutoffFillsAnyResult`: `SurvivorsSpec => []CutoffFillsResult`, for any maps, number and
  width of buckets and K; `MapsAssumption` says what a map is: an integer score for each
  pixel. `Selecting` adds that the histogram, once its kernel is over, counts the lit pixels
  by bucket, and that the cutoff is then read off these counts. The counts of any buckets
  add up to the lit pixels in them (`CountsAddUp`), which relates the cutoff to how many
  pixels are above it and how many reach it.

**`FramePipelineProofs`**, for any results, frames, faults and calls

* `NothingWrittenAfterDrop`: `Spec => []NoWriteAfterDrop`. The host's part of a submit is a
  program of fallible steps, cut short anywhere; `PassedSteps` follows the fold that runs it
  step by step and `ApplySpares` says of each step that it writes only into what it or an
  earlier step bound. `Dropping`, the invariant: nothing dropped is written (`Spared`), and
  what a context still has bound between calls is either nothing (RaCo, which unbinds on
  every way out: `CallLeaves`) or a result that lives, at the output its caller was told
  (the bare session: `BoundAlive`). `BindsAndRuns`: a program that binds before it runs
  writes into what it bound. The results have names of their own
  (`PipelineAssumption`): not those of the models' buffers.

**`ExamplesProofs`**: the camera programs, for any scenes, places, stamps, failures and
lengths of run

* `FedIsMeasured`: `Spec => []FedAsMeasured`. `Measuring` is the invariant. The device
  runs behind the host by any prefix of the queue, so the state of the stream is told from
  the turn's program: `Waiting` says that what is queued is the rest of this turn's operations
  after `Done` of them, and that each of those done left what it should (`Worked`); the
  operation of a turn whose embedding failed may still be in the queue of the next (`Leftover`),
  which reads only the boxes it was given. `Asked`, `ReadBack`, `Given`: what comes back
  from the device is of this frame's instances, the embeddings one for each person in order
  (`PersonsAre`: `Persons` lists the persons and no one else, in ascending order).
  `Stamped`, `Clocked`: what the loop's clock remembers is the frame before this one, on both
  sides of the wrap to a new timebase, so that within one timebase the interval is the gap,
  and across a change the gap before it or less than `GapLimit` (`IntervalMeans`).
* `BankSpeaksOfItsKeyframes`: `Spec => []KeyframesAligned`. The host assigns a row before
  the device writes it, and scores may be asked for in between. `Banked` is stated of the bank
  as it will be (`Bank`: with the queued row, if there is one): each row is the descriptor of
  the frame the row was last seen in or is dark, no two rows are the same place, and no frame
  later than the one a row names shows its place.
* `RevisitedPlacesStay`: `Spec => LeastSeenLeaves`, an action property, from `LeastMeans`:
  the row that is replaced was last seen before all others.

These rest on what `ApplicationsAssumption` says of the constants: capture stamps and timebases are
integers, and "no stamp" and "no feature" are none of the values they stand beside.

**`ExamplesProofs`**: the batch programs, for any directory, list of pairs, engines, size of
the cache, failures and kills. The programs share the files and their exit statuses; every
step is one of a program over frames (`FStep`), of `lightglue_batch` (`PStep`) or a start
(`SStep`), and `StepKinds` says there are no others. `BatchAssumption` says what the
constants are.

* `CacheServesItsPair`: `BatchSpec => []CacheServesPair`, with nothing assumed of the frames
  or the engines. `Served` is the invariant: which pairs are done and which are to come
  (`PairsSoFar`), what is known of the two frames of the pair in hand (`PairInHand`), and that
  the cache is in the order of last use (`CacheInOrder`), from which what goes is what was
  used least recently.
* `SuccessSaysComplete`: `BatchSpec => []SuccessIsComplete` if `OneFrameAStem`. While a program
  runs and has counted every frame handled so far as done, there is a whole file of each
  (`FilesSoFar`); the records of `lightglue_batch` are of different pairs, as many
  as it counted done, which with those counted failed are all it handled (`RecordsSoFar`); of a program that ended
  with 0 this is said of all frames (`FilesComplete`) and pairs (`MatchesComplete`).
  `FilesInv` and `BatchInv` are the two together with `Served`.
* `MatchesAreOfTheKeypoints`: `BatchSpec => []SamePixelsWithMemory` if `OneFrameAStem` and
  `OneEngineAFingerprint`. `Extracting` says of each file and each cached result which engine
  made it and that the frame was fitted by the rule for it, retries included, as long as no
  upload or allocation has failed for want of memory (`NoneShort`). `FoundIsFrame`:
  the path that `lightglue_batch` finds for a stem is the frame whose file `aliked_batch`
  wrote; `OneEngineOneResult`: equal fingerprints then mean equal results.

`OneFrameAStem` (no two frames of a directory differ in their extension only) is assumed
because the programs name a file after the stem of its frame and do not check: of `kf1.jpg` and
`kf1.png` the second overwrites the file of the first while both are counted.
`OneEngineAFingerprint` (the recorded fingerprint stands for one engine, with one bound on the
side of an image) is what a fingerprint is for. Both hold of the instances in `MCParts`.

The assumptions of the theorems on the engine cache are stated there because the code does not enforce them:
`ThreadPerProcess` (callers of one process that share no key would do), `~EditMidCall`
(nobody exports a model while its engine is being built), `"weights" \notin Edits`. Each
is necessary: dropping it is finding 1 or one of the remarks on the engine cache.

With TLC only: liveness (`UpdateReturns`, `FreshestEncoded`, `DroppedViewerReturns`,
`ClipCompletes`, `RetryHeals`, `ProgramEnds`), which is out of the provers' reach, as is
ENABLED; what pure functions over pixels and fractions compute (`FitExact`, `GeometryExact`,
`FilterSound`, `DrawnInPlace`, `SampledFromItsOwn`), whose nonlinear arithmetic the
provers do not do; what `SelectSeq` and the sorts of the community modules return
(`PairsTrusted`, `HubDelivers`, `AcceptedIsUsable`), since these take an operator as a
parameter; and, as yet, `ResultsAsTold` of the pipeline.

## Not modelled

* `vrt`: runtime, builder, logger and dtype (wrappers over TensorRT without state); the C
  API calls themselves. `encode.rs`, HTTP pages, JPEG; layout, labels and colours of
  `render_main`. The display pacing of the page.
* The tracker without feature `appearance`; `ReidEvent`.
* Rounding: the Kalman filter and all geometry are exact rationals; sums of the matcher
  are exact. What networks answer.
* Live view: a viewer that never reads blocks only its own thread; an access unit whose
  buffer cannot be mapped is skipped. Neither is modelled.
* Pipeline: how the caller's results behave after an error (nothing is promised); models'
  scratch buffers between calls; `match_into` on an empty bank.
* Applications: the smoothing and clamp of the fallback interval; option parsing, overlays.
* Batch programs run once each, `aliked_batch` before `lightglue_batch`.

## Plan

1. (proofs) `FramePipeline`: `ResultsAsTold`, from `Dropping` and the order of the stream.
2. (model) the build without `appearance` as an instance of `Tracker`; several viewers and
   views in one run, if the state space allows it.
