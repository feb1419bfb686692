------------------------------- MODULE Tracker -------------------------------
(***************************************************************************)
(* The multi-object tracker of crates/vrt-track (feature `appearance`):    *)
(* track lifecycle, the four association stages of one frame, and every    *)
(* mechanism that moves an identity from one track to another.             *)
(*                                                                         *)
(* Tracker::step runs to completion on one thread; its body is cut at the  *)
(* comments that name its stages, and its three loops (deferred merge,     *)
(* birth, reap) into one action per iteration, so that what one iteration  *)
(* leaves for the next one is a state. `phase` is the place in step.       *)
(*                                                                         *)
(* Boxes, depths and the Kalman filter are abstracted to the choices they  *)
(* can lead to: a geometric stage may match any tracks to any detections   *)
(* one to one (a pair's cost can be anything), a reappearance may or may   *)
(* not lie in the spatial bound, a box may or may not overlap another or   *)
(* have collapsed. Embeddings are members of Feature with a distance.      *)
(***************************************************************************)
EXTENDS Naturals, Sequences, FiniteSets, Functions

CONSTANTS
    Class,           \* detector classes
    Feature,         \* appearance embeddings
    NoFeature,       \* Option::None for an embedding
    Dist,            \* Dist[f, g]: cosine distance / 2, in units of the gate
    Blend,           \* Blend[old, new]: what the EMA of two embeddings can be
    Score,           \* detection scores
    \* TrackerConfig
    TrackHighThresh, TrackLowThresh, NewTrackThresh,
    TrackBuffer, MaxConfCoast, MinHits,
    ReidThresh, ReidClasses, GalleryTtl, GalleryMinHits,
    \* constants of tracker.rs
    BankMinScore,    \* BANK_MIN_SCORE
    MergeWindow,     \* MERGE_WINDOW
    TwinMinLost,     \* TWIN_MIN_LOST
    GalleryCap,      \* GALLERY_CAP
    \* bounds of the model
    MaxDets,         \* detections in one frame
    MaxFrame,        \* frames between two resets
    MaxId            \* identities minted between two resets

ASSUME FeatureAssumption ==
    /\ NoFeature \notin Feature
    /\ Dist \in [Feature \X Feature -> Nat]
    /\ Blend \in [Feature \X Feature -> SUBSET Feature]

ASSUME ScoreAssumption ==
    /\ Score \subseteq Nat
    /\ TrackHighThresh \in Nat /\ TrackLowThresh \in Nat
    /\ NewTrackThresh \in Nat /\ BankMinScore \in Nat

ASSUME ConfigAssumption ==      \* TrackerConfig::validate and the field types
    /\ TrackLowThresh <= TrackHighThresh
    /\ MinHits \in Nat /\ MinHits >= 1
    /\ TrackBuffer \in Nat /\ MaxConfCoast \in Nat /\ ReidThresh \in Nat
    /\ ReidClasses \subseteq Class
    /\ GalleryTtl \in Nat /\ GalleryMinHits \in Nat
    /\ MergeWindow \in Nat /\ TwinMinLost \in Nat /\ GalleryCap \in Nat

ASSUME BoundAssumption ==
    MaxDets \in Nat /\ MaxFrame \in Nat /\ MaxId \in Nat

VARIABLES
    tracks,     \* Vec<Tracklet>
    gallery,    \* Vec<GalleryEntry>
    next_id,
    frame,
    phase,      \* where in step the program is
    dets,       \* the detections of this frame
    u_pool,     \* unmatched Confirmed / Lost tracks (positions in tracks)
    u_high,     \* unmatched high-confidence detections (positions in dets)
    cursor,     \* the index of the loop that is running
    used        \* history: <<track position, detection>> pairs of this frame

vars == <<tracks, gallery, next_id, frame, phase, dets, u_pool, u_high,
          cursor, used>>

TrackState == {"Tentative", "Confirmed", "Lost", "Removed"}
Phase == {"idle", "stage1", "reid", "stage2", "stage3", "merge", "birth",
          "reap"}
MaybeFeature == Feature \cup {NoFeature}

Detection == [class: Class, score: Score, feat: MaybeFeature]

Tracklet == [id: Nat, class: Class, score: Score, state: TrackState,
             age: Nat, hits: Nat, tsu: Nat, low_conf_age: Nat,
             matched: BOOLEAN, claimed: BOOLEAN, feat: MaybeFeature]

GalleryEntry == [id: Nat, class: Class, feat: Feature, removed_frame: Nat]

(***************************************************************************)
(* Counters that only feed a comparison stop one past the compared value.  *)
(***************************************************************************)
Saturate(n, bound) == IF n <= bound THEN n ELSE bound
HitsBound == IF MinHits >= GalleryMinHits THEN MinHits ELSE GalleryMinHits
-----------------------------------------------------------------------------
(* Tracklet::new, predict, update, note_high_conf, mark_missed              *)

NewTracklet(id, d) ==
    [id |-> id, class |-> d.class, score |-> d.score, state |-> "Tentative",
     age |-> 0, hits |-> 1, tsu |-> 0, low_conf_age |-> 0,
     matched |-> TRUE, claimed |-> FALSE, feat |-> d.feat]

Predict(t) ==
    [t EXCEPT !.age = Saturate(@ + 1, MergeWindow + 1),
              !.tsu = @ + 1,
              !.low_conf_age = Saturate(@ + 1, MaxConfCoast + 1),
              !.matched = FALSE]

(* Fault variants (the names in Fault) are plausible slips in the code they precede;   *)
(* each must break a property of the run it is listed with, and no         *)
(* definition uses them. Here: every match relabels the class.             *)
UpdateFault(t, d) ==
    [t EXCEPT !.class = d.class, !.score = d.score,
              !.hits = Saturate(@ + 1, HitsBound),
              !.tsu = 0, !.matched = TRUE,
              !.state = IF \/ t.state = "Tentative" /\ t.hits + 1 >= MinHits
                           \/ t.state = "Lost"
                        THEN "Confirmed" ELSE @]

Update(t, d) ==
    [t EXCEPT !.class = IF t.state = "Tentative" THEN d.class ELSE @,
              !.score = d.score,
              !.hits = Saturate(@ + 1, HitsBound),
              !.tsu = 0,
              !.matched = TRUE,
              !.state = IF \/ t.state = "Tentative" /\ t.hits + 1 >= MinHits
                           \/ t.state = "Lost"
                        THEN "Confirmed" ELSE @]

(* A match with a high-confidence detection also clears the coast counter  *)
(* and leaves f in the feature bank.                                       *)
UpdateStrong(t, d, f) ==
    [Update(t, d) EXCEPT !.low_conf_age = 0, !.feat = f]

(* smooth_feature under the BANK_MIN_SCORE guard: the values the bank can  *)
(* hold once track t has matched detection d.                              *)
Smoothed(t, d) ==
    IF d.score < BankMinScore \/ d.feat = NoFeature THEN {t.feat}
    ELSE IF t.feat = NoFeature THEN {d.feat}
    ELSE Blend[t.feat, d.feat]

MarkMissed(t) ==
    [t EXCEPT !.state = CASE t.state = "Confirmed" -> "Lost"
                          [] t.state = "Tentative" -> "Removed"
                          [] OTHER -> @]
-----------------------------------------------------------------------------
Positions == DOMAIN tracks

High(ds) == {d \in DOMAIN ds : ds[d].score >= TrackHighThresh}
Low(ds) == {d \in DOMAIN ds : /\ ds[d].score >= TrackLowThresh
                              /\ ds[d].score < TrackHighThresh}

Pool == {i \in Positions : tracks[i].state \in {"Confirmed", "Lost"}}
Unconfirmed == {i \in Positions : tracks[i].state = "Tentative"}

ReidClassOk(c) == ReidClasses = {} \/ c \in ReidClasses

(* linear_assignment: each row and each column is used at most once. *)
Assignments(rows, cols) == UNION {Injection(S, cols) : S \in SUBSET rows}

(* The pairs of assignment m, corrected with their strong detections. *)
CorrectStrong(m, bank) ==
    [i \in Positions |-> IF i \in DOMAIN m
                         THEN UpdateStrong(tracks[i], dets[m[i]], bank[i])
                         ELSE tracks[i]]

Banks(m) == {b \in [DOMAIN m -> MaybeFeature] :
                \A i \in DOMAIN m : b[i] \in Smoothed(tracks[i], dets[m[i]])}

Pairs(m) == {<<i, m[i]>> : i \in DOMAIN m}

(* Vec::swap_remove: the last element takes the place of the removed one. *)
SwapRemove(s, i) ==
    [k \in 1 .. Len(s) - 1 |-> IF k = i THEN s[Len(s)] ELSE s[k]]
-----------------------------------------------------------------------------
Init == /\ tracks = <<>> /\ gallery = <<>>
        /\ next_id = 1 /\ frame = 0
        /\ phase = "idle" /\ dets = <<>>
        /\ u_pool = {} /\ u_high = {}
        /\ cursor = 1 /\ used = {}

(* Tracker::reset *)
Reset == /\ phase = "idle"
         /\ tracks' = <<>> /\ gallery' = <<>>
         /\ next_id' = 1 /\ frame' = 0
         /\ UNCHANGED <<phase, dets, u_pool, u_high, cursor, used>>

(* A call of update / update_dt: partition the detections, predict. *)
BeginFrame(ds) ==
    /\ phase = "idle"
    /\ frame < MaxFrame
    /\ next_id + Len(ds) <= MaxId + 1
    /\ dets' = ds
    /\ tracks' = [i \in Positions |-> IF tracks[i].state # "Removed"
                                      THEN Predict(tracks[i]) ELSE tracks[i]]
    /\ u_pool' = Pool
    /\ u_high' = High(ds)
    /\ phase' = "stage1"
    /\ UNCHANGED <<gallery, next_id, frame, cursor, used>>

(* Stage 1: Confirmed and Lost tracks against the strong detections. *)
Stage1 ==
    /\ phase = "stage1"
    /\ \E m \in Assignments(u_pool, u_high) : \E bank \in Banks(m) :
          /\ tracks' = CorrectStrong(m, bank)
          /\ u_pool' = u_pool \ DOMAIN m
          /\ u_high' = u_high \ Range(m)
          /\ used' = used \cup Pairs(m)
    /\ phase' = "reid"
    /\ UNCHANGED <<gallery, next_id, frame, dets, cursor>>

(* Stage 1.5: what makes a Lost track and a leftover strong detection a     *)
(* pair by appearance alone. The look-alike abstention adds no case: the    *)
(* spatial bound and the depth veto may exclude all rivals of any pair.     *)
Reidentifiable(i, d) ==
    /\ ReidThresh > 0
    /\ tracks[i].state = "Lost"
    /\ tracks[i].feat # NoFeature /\ dets[d].feat # NoFeature
    /\ ReidClassOk(tracks[i].class)
    /\ dets[d].class = tracks[i].class
    /\ Dist[tracks[i].feat, dets[d].feat] <= ReidThresh

(* Fault: the matched detections stay among the unmatched ones.            *)
ReidStageFault ==
    /\ phase = "reid"
    /\ \E m \in Assignments(u_pool, u_high) :
          /\ \A i \in DOMAIN m : Reidentifiable(i, m[i])
          /\ \E bank \in Banks(m) :
                /\ tracks' = CorrectStrong(m, bank)
                /\ u_pool' = u_pool \ DOMAIN m
                /\ used' = used \cup Pairs(m)
    /\ phase' = "stage2"
    /\ UNCHANGED <<gallery, next_id, frame, dets, u_high, cursor>>

ReidStage ==
    /\ phase = "reid"
    /\ \E m \in Assignments(u_pool, u_high) :
          /\ \A i \in DOMAIN m : Reidentifiable(i, m[i])
          /\ \E bank \in Banks(m) :
                /\ tracks' = CorrectStrong(m, bank)
                /\ u_pool' = u_pool \ DOMAIN m
                /\ u_high' = u_high \ Range(m)
                /\ used' = used \cup Pairs(m)
    /\ phase' = "stage2"
    /\ UNCHANGED <<gallery, next_id, frame, dets, cursor>>

(* Stage 2: what is left of the pool against the weak detections; the      *)
(* tracks that are still unmatched are missed.                             *)
Stage2 ==
    /\ phase = "stage2"
    /\ \E m \in Assignments(u_pool, Low(dets)) :
          /\ tracks' = [i \in Positions |->
                          IF i \in DOMAIN m THEN Update(tracks[i], dets[m[i]])
                          ELSE IF i \in u_pool THEN MarkMissed(tracks[i])
                          ELSE tracks[i]]
          /\ used' = used \cup Pairs(m)
    /\ u_pool' = {}
    /\ phase' = "stage3"
    /\ UNCHANGED <<gallery, next_id, frame, dets, u_high, cursor>>

(* Stage 3: Tentative tracks against the remaining strong detections; an   *)
(* unmatched one dies at once.                                             *)
Stage3 ==
    /\ phase = "stage3"
    /\ \E m \in Assignments(Unconfirmed, u_high) : \E bank \in Banks(m) :
          /\ tracks' = [i \in Positions |->
                          IF i \in DOMAIN m THEN CorrectStrong(m, bank)[i]
                          ELSE IF i \in Unconfirmed THEN MarkMissed(tracks[i])
                          ELSE tracks[i]]
          /\ u_high' = u_high \ Range(m)
          /\ used' = used \cup Pairs(m)
    /\ phase' = "merge"
    /\ cursor' = 1
    /\ UNCHANGED <<gallery, next_id, frame, dets, u_pool>>
-----------------------------------------------------------------------------
(* Identity decisions: the one candidate whose embedding is within the      *)
(* gate and clear of every rival, or none (look-alikes abstain).            *)

FeatureOf(c) == IF c.kind = "gallery" THEN gallery[c.at].feat
                                      ELSE tracks[c.at].feat

Clear(c, cands, f) ==
    /\ c \in cands
    /\ Dist[FeatureOf(c), f] <= ReidThresh
    /\ \A o \in cands \ {c} :
          2 * Dist[FeatureOf(o), f] >= 2 * Dist[FeatureOf(c), f] + ReidThresh

(* May track y still take an older identity in its first frames? *)
MayMerge(y) ==
    /\ ReidThresh > 0
    /\ y.age <= MergeWindow
    /\ y.matched
    /\ y.state = "Confirmed"
    /\ y.score >= BankMinScore
    /\ ~y.claimed
    /\ ReidClassOk(y.class)
    /\ y.feat # NoFeature

OlderIdentities(y) ==
    {[kind |-> "gallery", at |-> k] :
        k \in {k \in DOMAIN gallery : /\ gallery[k].class = y.class
                                      /\ gallery[k].id < y.id}}
    \cup
    {[kind |-> "twin", at |-> j] :
        j \in {j \in Positions : /\ tracks[j].class = y.class
                                 /\ tracks[j].id < y.id
                                 /\ tracks[j].state = "Lost"
                                 /\ tracks[j].tsu >= TwinMinLost
                                 /\ tracks[j].feat # NoFeature}}

ClaimGallery(i, k) ==
    /\ tracks' = [tracks EXCEPT ![i].id = gallery[k].id, ![i].claimed = TRUE]
    /\ gallery' = SwapRemove(gallery, k)

(* Fault: the absorbed twin keeps its hits. *)
ClaimTwinFault(i, j) ==
    /\ tracks' = [tracks EXCEPT
                    ![j].state = "Removed",
                    ![i].hits = Saturate(@ + tracks[j].hits, HitsBound),
                    ![i].id = tracks[j].id, ![i].claimed = TRUE]
    /\ UNCHANGED gallery

(* The twin's husk stays in the vector, dead and without hits. *)
ClaimTwin(i, j) ==
    /\ tracks' = [tracks EXCEPT
                    ![j].state = "Removed", ![j].hits = 0,
                    ![i].hits = Saturate(@ + tracks[j].hits, HitsBound),
                    ![i].id = tracks[j].id, ![i].claimed = TRUE]
    /\ UNCHANGED gallery

Merge ==
    /\ phase = "merge"
    /\ cursor \in Positions
    /\ MayMerge(tracks[cursor])
    /\ LET y == tracks[cursor]
       IN \E c \in OlderIdentities(y) :
             /\ Clear(c, OlderIdentities(y), y.feat)
             /\ IF c.kind = "gallery" THEN ClaimGallery(cursor, c.at)
                                      ELSE ClaimTwin(cursor, c.at)
    /\ cursor' = cursor + 1
    /\ UNCHANGED <<next_id, frame, phase, dets, u_pool, u_high, used>>

MergeNone ==
    /\ phase = "merge"
    /\ cursor \in Positions
    /\ LET y == tracks[cursor]
       IN MayMerge(y) => ~ \E c \in OlderIdentities(y) :
                              Clear(c, OlderIdentities(y), y.feat)
    /\ cursor' = cursor + 1
    /\ UNCHANGED <<tracks, gallery, next_id, frame, phase, dets, u_pool,
                   u_high, used>>

MergeDone ==
    /\ phase = "merge"
    /\ cursor \notin Positions
    /\ phase' = "birth"
    /\ UNCHANGED <<tracks, gallery, next_id, frame, dets, u_pool, u_high,
                   cursor, used>>
-----------------------------------------------------------------------------
(* Birth, in the order of the detections.                                   *)

NextBirth(d) == /\ phase = "birth"
                /\ d \in u_high
                /\ \A e \in u_high : d <= e

Bearable(d) == dets[d].score >= NewTrackThresh

(* Too weak to found a track, or on top of a live track of its class. *)
NoBirth(d) ==
    /\ NextBirth(d)
    /\ \/ ~Bearable(d)
       \/ \E i \in Positions : /\ tracks[i].state # "Removed"
                               /\ tracks[i].class = dets[d].class
    /\ u_high' = u_high \ {d}
    /\ UNCHANGED <<tracks, gallery, next_id, frame, phase, dets, u_pool,
                   cursor, used>>

(* gallery_match: the entries a newborn is compared with. *)
Returning(d) ==
    IF /\ GalleryTtl > 0 /\ ReidThresh > 0
       /\ ReidClassOk(dets[d].class) /\ dets[d].feat # NoFeature
    THEN {[kind |-> "gallery", at |-> k] :
             k \in {k \in DOMAIN gallery : gallery[k].class = dets[d].class}}
    ELSE {}

Resurrected(id, d) ==
    [NewTracklet(id, dets[d]) EXCEPT !.state = "Confirmed", !.hits = MinHits,
                               !.claimed = TRUE]

(* Fault: the gallery entry is read, not consumed. *)
ResurrectFault(d) ==
    /\ NextBirth(d)
    /\ Bearable(d)
    /\ \E c \in Returning(d) :
          /\ Clear(c, Returning(d), dets[d].feat)
          /\ tracks' = Append(tracks, Resurrected(gallery[c.at].id, d))
    /\ u_high' = u_high \ {d}
    /\ used' = used \cup {<<Len(tracks) + 1, d>>}
    /\ UNCHANGED <<gallery, next_id, frame, phase, dets, u_pool, cursor>>

Resurrect(d) ==
    /\ NextBirth(d)
    /\ Bearable(d)
    /\ \E c \in Returning(d) :
          /\ Clear(c, Returning(d), dets[d].feat)
          /\ tracks' = Append(tracks, Resurrected(gallery[c.at].id, d))
          /\ gallery' = SwapRemove(gallery, c.at)
    /\ u_high' = u_high \ {d}
    /\ used' = used \cup {<<Len(tracks) + 1, d>>}
    /\ UNCHANGED <<next_id, frame, phase, dets, u_pool, cursor>>

Mint(d) ==
    /\ NextBirth(d)
    /\ Bearable(d)
    /\ ~ \E c \in Returning(d) : Clear(c, Returning(d), dets[d].feat)
    /\ tracks' = Append(tracks, NewTracklet(next_id, dets[d]))
    /\ next_id' = next_id + 1
    /\ u_high' = u_high \ {d}
    /\ used' = used \cup {<<Len(tracks) + 1, d>>}
    /\ UNCHANGED <<gallery, frame, phase, dets, u_pool, cursor>>

BirthDone ==
    /\ phase = "birth"
    /\ u_high = {}
    /\ phase' = "reap"
    /\ cursor' = 1
    /\ used' = {}
    /\ UNCHANGED <<tracks, gallery, next_id, frame, dets, u_pool, u_high>>
-----------------------------------------------------------------------------
(* Reap: the while loop over tracks, with swap_remove under its feet.       *)

Stale(t) == /\ MaxConfCoast > 0
            /\ t.state \in {"Confirmed", "Lost"}
            /\ t.low_conf_age > MaxConfCoast

Expired(t) == \/ t.state = "Removed"
              \/ t.state = "Lost" /\ t.tsu > TrackBuffer

(* `collapsed`: the box area has fallen below 0.35 of its maximum. *)
Dead(t, collapsed) == Expired(t) \/ (Stale(t) /\ collapsed)

(* Faults: the index moves two on, or not at all, past a live track. *)
KeepSkipFault ==
    /\ phase = "reap"
    /\ cursor \in Positions
    /\ \E collapsed \in BOOLEAN : ~Dead(tracks[cursor], collapsed)
    /\ cursor' = cursor + 2
    /\ UNCHANGED <<tracks, gallery, next_id, frame, phase, dets, u_pool,
                   u_high, used>>
KeepStallFault ==
    /\ phase = "reap"
    /\ cursor \in Positions
    /\ \E collapsed \in BOOLEAN : ~Dead(tracks[cursor], collapsed)
    /\ UNCHANGED vars

Keep ==
    /\ phase = "reap"
    /\ cursor \in Positions
    /\ \E collapsed \in BOOLEAN : ~Dead(tracks[cursor], collapsed)
    /\ cursor' = cursor + 1
    /\ UNCHANGED <<tracks, gallery, next_id, frame, phase, dets, u_pool,
                   u_high, used>>

Dying == /\ phase = "reap"
         /\ cursor \in Positions
         /\ \E collapsed \in BOOLEAN : Dead(tracks[cursor], collapsed)

Remembered(t) == /\ GalleryTtl > 0
                 /\ t.hits >= GalleryMinHits
                 /\ t.feat # NoFeature

(* Fault: the age of the two identities is not compared. *)
HeirsFault(t, rest) ==
    {j \in DOMAIN rest : /\ ReidThresh > 0
                         /\ Remembered(t)
                         /\ ReidClassOk(t.class)
                         /\ rest[j].class = t.class
                         /\ rest[j].state # "Removed"
                         /\ rest[j].feat # NoFeature
                         /\ Dist[t.feat, rest[j].feat] <= ReidThresh}

(* Live same-class tracks of a younger identity that look like t. *)
Heirs(t, rest) ==
    {j \in DOMAIN rest : /\ ReidThresh > 0
                         /\ Remembered(t)
                         /\ ReidClassOk(t.class)
                         /\ rest[j].class = t.class
                         /\ rest[j].id > t.id
                         /\ rest[j].state # "Removed"
                         /\ rest[j].feat # NoFeature
                         /\ Dist[t.feat, rest[j].feat] <= ReidThresh}

(* The closest heir, the first of equals. *)
IsHeir(j, t, rest) ==
    /\ j \in Heirs(t, rest)
    /\ \A k \in Heirs(t, rest) :
          \/ Dist[t.feat, rest[j].feat] < Dist[t.feat, rest[k].feat]
          \/ /\ Dist[t.feat, rest[j].feat] = Dist[t.feat, rest[k].feat]
             /\ j <= k

(* Death-bed merge: the heir takes over the older identity. *)
HandOff ==
    /\ Dying
    /\ LET t == tracks[cursor]
           rest == SwapRemove(tracks, cursor)
       IN \E j \in DOMAIN rest :
             /\ IsHeir(j, t, rest)
             /\ tracks' = [rest EXCEPT
                             ![j].id = t.id,
                             ![j].hits = Saturate(@ + t.hits, HitsBound),
                             ![j].claimed = TRUE]
    /\ UNCHANGED <<gallery, next_id, frame, phase, dets, u_pool, u_high,
                   cursor, used>>

SameIdentity(g, t) == /\ g.class = t.class
                      /\ Dist[g.feat, t.feat] <= ReidThresh

(* The first gallery entry that already is this identity. *)
IsTwinEntry(k, t) == /\ k \in DOMAIN gallery
                     /\ SameIdentity(gallery[k], t)
                     /\ \A h \in 1 .. k - 1 : ~SameIdentity(gallery[h], t)

OlderId(x, y) == IF x <= y THEN x ELSE y

(* Fault: the loop also steps over the track that swap_remove moved in. *)
BuryFault ==
    /\ Dying
    /\ Heirs(tracks[cursor], SwapRemove(tracks, cursor)) = {}
    /\ ~Remembered(tracks[cursor])
    /\ tracks' = SwapRemove(tracks, cursor)
    /\ cursor' = cursor + 1
    /\ UNCHANGED <<gallery, next_id, frame, phase, dets, u_pool, u_high, used>>

Bury ==
    /\ Dying
    /\ LET t == tracks[cursor]
           rest == SwapRemove(tracks, cursor)
           entry == [id |-> t.id, class |-> t.class, feat |-> t.feat,
                     removed_frame |-> frame]
       IN /\ Heirs(t, rest) = {}
          /\ tracks' = rest
          /\ \/ /\ ~Remembered(t)
                /\ UNCHANGED gallery
             \/ /\ Remembered(t)
                /\ \E k \in DOMAIN gallery :
                      /\ IsTwinEntry(k, t)
                      /\ gallery' = [gallery EXCEPT
                                       ![k] = [entry EXCEPT
                                                 !.id = OlderId(gallery[k].id, t.id)]]
             \/ /\ Remembered(t)
                /\ ~ \E k \in DOMAIN gallery : SameIdentity(gallery[k], t)
                /\ gallery' = Append(gallery, entry)
    /\ UNCHANGED <<next_id, frame, phase, dets, u_pool, u_high, cursor, used>>

(* retain by TTL, then drain the front down to the cap: the entries that    *)
(* stay keep their order. Fault: the cap is forgotten.                      *)
Fresh(k) == frame - gallery[k].removed_frame <= GalleryTtl
RetainedFault == {k \in DOMAIN gallery : Fresh(k)}
Retained == {k \in DOMAIN gallery :
               /\ Fresh(k)
               /\ Cardinality({j \in DOMAIN gallery : j > k /\ Fresh(j)})
                     < GalleryCap}

EndFrame ==
    /\ phase = "reap"
    /\ cursor \notin Positions
    /\ \E from \in [1 .. Cardinality(Retained) -> Retained] :
          /\ \A a, b \in DOMAIN from : a < b => from[a] < from[b]
          /\ gallery' = [a \in DOMAIN from |-> gallery[from[a]]]
    /\ frame' = frame + 1
    /\ phase' = "idle"
    /\ dets' = <<>>
    /\ cursor' = 1
    /\ UNCHANGED <<tracks, next_id, u_pool, u_high, used>>
-----------------------------------------------------------------------------
Frames == UNION {[1 .. n -> Detection] : n \in 0 .. MaxDets}

MergePhase == Merge \/ MergeNone \/ MergeDone
BirthPhase == \/ \E d \in u_high : NoBirth(d) \/ Resurrect(d) \/ Mint(d)
              \/ BirthDone
ReapPhase == Keep \/ HandOff \/ Bury \/ EndFrame

(* The rest of a call of step, once it has begun. *)
Step == \/ Stage1 \/ ReidStage \/ Stage2 \/ Stage3
        \/ MergePhase \/ BirthPhase \/ ReapPhase

Next == Reset \/ (\E ds \in Frames : BeginFrame(ds)) \/ Step

Spec == Init /\ [][Next]_vars

(* A call runs on one thread until it returns. *)
FairSpec == Spec /\ WF_vars(Step)
=============================================================================
