---------------------------- MODULE TrackerProofs ----------------------------
(***************************************************************************)
(* Theorems about the tracker, for all values of its constants.            *)
(***************************************************************************)
EXTENDS TrackerProperties, TLAPS, FiniteSetTheorems

-----------------------------------------------------------------------------
(* Lemmas on the operators the tracker is built from.                      *)

(* Replacing every element of a vector keeps its length and its positions. *)
LEMMA MapSeq ==
    ASSUME NEW S, NEW T, NEW s \in Seq(S), NEW f \in [DOMAIN s -> T]
    PROVE  /\ f \in Seq(T)
           /\ Len(f) = Len(s)
           /\ DOMAIN f = DOMAIN s
<1>1. Len(s) \in Nat /\ DOMAIN s = 1 .. Len(s)
    OBVIOUS
<1>2. f \in [1 .. Len(s) -> T]
    BY <1>1
<1>3. f \in Seq(T)
    BY <1>1, <1>2
<1> QED
    BY <1>1, <1>2, <1>3

(* swap_remove shortens a vector by one; what is left at k was there       *)
(* before, and only the last element has moved, to the freed place.        *)
LEMMA SwapRemoveSeq ==
    ASSUME NEW S, NEW s \in Seq(S), NEW i \in DOMAIN s
    PROVE  /\ SwapRemove(s, i) \in Seq(S)
           /\ Len(SwapRemove(s, i)) = Len(s) - 1
           /\ DOMAIN SwapRemove(s, i) = 1 .. Len(s) - 1
           /\ \A k \in 1 .. Len(s) - 1 :
                 SwapRemove(s, i)[k] = s[IF k = i THEN Len(s) ELSE k]
<1>1. Len(s) \in Nat /\ DOMAIN s = 1 .. Len(s) /\ Len(s) >= 1
    OBVIOUS
<1>2. Len(s) - 1 \in Nat
    BY <1>1
<1> DEFINE f == [k \in 1 .. Len(s) - 1 |-> IF k = i THEN s[Len(s)] ELSE s[k]]
<1>3. f \in [1 .. Len(s) - 1 -> S]
    BY <1>1
<1>4. f \in Seq(S)
    BY <1>2, <1>3
<1>5. Len(f) = Len(s) - 1
    BY <1>2, <1>3, <1>4
<1>6. \A k \in 1 .. Len(s) - 1 : f[k] = s[IF k = i THEN Len(s) ELSE k]
    OBVIOUS
<1> QED
    BY <1>3, <1>4, <1>5, <1>6 DEF SwapRemove

(* The lifecycle operations on one track keep its type.                    *)
LEMMA TrackletTypes ==
    ASSUME NEW t \in Tracklet, NEW d \in Detection, NEW f \in MaybeFeature,
           NEW id \in Nat
    PROVE  /\ NewTracklet(id, d) \in Tracklet
           /\ Predict(t) \in Tracklet
           /\ Update(t, d) \in Tracklet
           /\ UpdateStrong(t, d, f) \in Tracklet
           /\ MarkMissed(t) \in Tracklet
<1> USE ConfigAssumption, ScoreAssumption
<1>1. HitsBound \in Nat
    BY DEF HitsBound
<1>2. NewTracklet(id, d) \in Tracklet
    BY DEF NewTracklet, Tracklet, Detection, TrackState
<1>3. Predict(t) \in Tracklet
  <2>1. /\ Saturate(t.age + 1, MergeWindow + 1) \in Nat
        /\ Saturate(t.low_conf_age + 1, MaxConfCoast + 1) \in Nat
        /\ t.tsu + 1 \in Nat
    BY DEF Tracklet, Saturate
  <2>2. FALSE \in BOOLEAN
    OBVIOUS
  <2> QED
    BY <2>1, <2>2, Zenon DEF Predict, Tracklet
<1>4. Update(t, d) \in Tracklet
  <2>1. Saturate(t.hits + 1, HitsBound) \in Nat /\ 0 \in Nat
    BY <1>1 DEF Tracklet, Saturate
  <2>2. (IF t.state = "Tentative" THEN d.class ELSE t.class) \in Class
    BY DEF Tracklet, Detection
  <2>3. (IF \/ t.state = "Tentative" /\ t.hits + 1 >= MinHits
            \/ t.state = "Lost"
         THEN "Confirmed" ELSE t.state) \in TrackState
    BY DEF Tracklet, TrackState
  <2>4. TRUE \in BOOLEAN /\ d.score \in Score
    BY DEF Detection
  <2> QED
    BY <2>1, <2>2, <2>3, <2>4, Zenon DEF Update, Tracklet
<1>5. UpdateStrong(t, d, f) \in Tracklet
    BY <1>4 DEF UpdateStrong, Tracklet
<1>6. MarkMissed(t) \in Tracklet
    BY DEF MarkMissed, Tracklet, TrackState
<1> QED
    BY <1>2, <1>3, <1>4, <1>5, <1>6
(* An assignment pairs some of its rows with some of its columns.          *)
LEMMA AssignmentPairs ==
    ASSUME NEW rows, NEW cols, NEW m \in Assignments(rows, cols)
    PROVE  /\ DOMAIN m \subseteq rows
           /\ \A i \in DOMAIN m : m[i] \in cols
           /\ \A i, j \in DOMAIN m : m[i] = m[j] => i = j
           /\ Pairs(m) \subseteq rows \X cols
<1>1. PICK S \in SUBSET rows : m \in Injection(S, cols)
    BY DEF Assignments
<1>2. m \in [S -> cols] /\ IsInjective(m)
    BY <1>1 DEF Injection
<1> QED
    BY <1>2 DEF IsInjective, Pairs

(* Correcting the pairs of an assignment keeps every track a track.        *)
LEMMA CorrectedTypes ==
    ASSUME TypeOK,
           NEW rows \in SUBSET Positions, NEW cols \in SUBSET DOMAIN dets,
           NEW m \in Assignments(rows, cols), NEW bank \in Banks(m)
    PROVE  CorrectStrong(m, bank) \in [Positions -> Tracklet]
<1>1. tracks \in [Positions -> Tracklet] /\ dets \in [DOMAIN dets -> Detection]
    BY DEF TypeOK, Positions
<1>2. /\ DOMAIN m \subseteq Positions
      /\ \A i \in DOMAIN m : m[i] \in DOMAIN dets
    BY AssignmentPairs
<1>3. \A i \in DOMAIN m : bank[i] \in MaybeFeature
    BY DEF Banks
<1>4. ASSUME NEW i \in Positions
      PROVE  (IF i \in DOMAIN m
              THEN UpdateStrong(tracks[i], dets[m[i]], bank[i])
              ELSE tracks[i]) \in Tracklet
    BY <1>1, <1>2, <1>3, TrackletTypes, 0 \in Nat
<1> QED
    BY <1>4 DEF CorrectStrong

(* The conjuncts of TypeOK that speak of the vector of tracks, for a step  *)
(* that maps it element by element.                                        *)
LEMMA MappedTracks ==
    ASSUME TypeOK, tracks' \in [Positions -> Tracklet]
    PROVE  /\ tracks' \in Seq(Tracklet)
           /\ Len(tracks') = Len(tracks)
           /\ Positions' = Positions
BY MapSeq, tracks \in Seq(Tracklet) DEF TypeOK, Positions

-----------------------------------------------------------------------------
(* The type invariant is inductive.                                        *)

LEMMA FrameTypes == TypeOK /\ (Reset \/ \E ds \in Frames : BeginFrame(ds)) => TypeOK'
<1> SUFFICES ASSUME TypeOK, Reset \/ \E ds \in Frames : BeginFrame(ds)
             PROVE  TypeOK'
    OBVIOUS
<1>1. CASE Reset
  <2>1. /\ tracks' = <<>> /\ gallery' = <<>> /\ next_id' = 1 /\ frame' = 0
        /\ u_pool' = {} /\ u_high' = {} /\ used' = {} /\ cursor' = 1
        /\ phase' = "idle" /\ dets' = dets
    BY <1>1 DEF Reset, TypeOK
  <2>2. <<>> \in Seq(Tracklet) /\ <<>> \in Seq(GalleryEntry) /\ Len(<<>>) = 0
    OBVIOUS
  <2> QED
    BY <2>1, <2>2 DEF TypeOK, Phase, Positions
<1>2. ASSUME NEW ds \in Frames, BeginFrame(ds)
      PROVE  TypeOK'
  <2>1. PICK n \in Nat : ds \in [1 .. n -> Detection]
    BY BoundAssumption DEF Frames
  <2>2. ds \in Seq(Detection)
    BY <2>1
  <2>3. ASSUME NEW i \in Positions
        PROVE  (IF tracks[i].state # "Removed"
                THEN Predict(tracks[i]) ELSE tracks[i]) \in Tracklet
    <3>1. tracks[i] \in Tracklet
      BY DEF TypeOK, Positions
    <3>2. Predict(tracks[i]) \in Tracklet
      <4>1. PICK d : d = [class |-> tracks[i].class, score |-> tracks[i].score,
                          feat |-> tracks[i].feat]
        OBVIOUS
      <4>2. d \in Detection /\ tracks[i].feat \in MaybeFeature
        BY <3>1, <4>1 DEF Tracklet, Detection
      <4> QED
        BY <3>1, <4>2, TrackletTypes, 0 \in Nat
    <3> QED
      BY <3>1, <3>2
  <2>4. tracks' \in [Positions -> Tracklet]
    BY <1>2, <2>3 DEF BeginFrame
  <2>5. tracks' \in Seq(Tracklet) /\ Len(tracks') = Len(tracks) /\ Positions' = Positions
    BY <2>4, MappedTracks
  <2>6. u_pool' \subseteq Positions'
    BY <1>2, <2>5 DEF BeginFrame, Pool
  <2>7. u_high' \subseteq DOMAIN dets'
    BY <1>2 DEF BeginFrame, High
  <2>8. cursor' = 1 /\ used' = {} /\ phase' = "stage1"
    BY <1>2 DEF BeginFrame, TypeOK
  <2>9. cursor' \in 1 .. Len(tracks') + 1
    BY <2>5, <2>8
  <2> QED
    BY <1>2, <2>2, <2>5, <2>6, <2>7, <2>8, <2>9 DEF BeginFrame, TypeOK, Phase
<1> QED
    BY <1>1, <1>2
(* The pairs an assignment adds to the frame's history are pairs of a      *)
(* track and a detection.                                                  *)
LEMMA UsedPairs ==
    ASSUME TypeOK,
           NEW rows \in SUBSET Positions, NEW cols \in SUBSET DOMAIN dets,
           NEW m \in Assignments(rows, cols)
    PROVE  used \cup Pairs(m) \subseteq Positions \X DOMAIN dets
<1>1. Pairs(m) \subseteq rows \X cols
    BY AssignmentPairs
<1> QED
    BY <1>1 DEF TypeOK

LEMMA StageTypes == TypeOK /\ (Stage1 \/ ReidStage \/ Stage2 \/ Stage3) => TypeOK'
<1> SUFFICES ASSUME TypeOK, Stage1 \/ ReidStage \/ Stage2 \/ Stage3
             PROVE  TypeOK'
    OBVIOUS
<1>0. u_pool \in SUBSET Positions /\ u_high \in SUBSET DOMAIN dets
    BY DEF TypeOK
<1>1. ASSUME Stage1 \/ ReidStage
      PROVE  TypeOK'
  <2>1. PICK m \in Assignments(u_pool, u_high) : \E bank \in Banks(m) :
                /\ tracks' = CorrectStrong(m, bank)
                /\ u_pool' = u_pool \ DOMAIN m
                /\ u_high' = u_high \ Range(m)
                /\ used' = used \cup Pairs(m)
    BY <1>1 DEF Stage1, ReidStage
  <2>2. PICK bank \in Banks(m) : tracks' = CorrectStrong(m, bank)
    BY <2>1
  <2>3. tracks' \in [Positions -> Tracklet]
    BY <1>0, <2>2, CorrectedTypes
  <2>4. tracks' \in Seq(Tracklet) /\ Len(tracks') = Len(tracks) /\ Positions' = Positions
    BY <2>3, MappedTracks
  <2>5. used' \subseteq Positions \X DOMAIN dets
    BY <1>0, <2>1, UsedPairs
  <2>6. /\ phase' \in {"reid", "stage2"} /\ phase \in {"stage1", "reid"}
        /\ UNCHANGED <<gallery, next_id, frame, dets, cursor>>
    BY <1>1 DEF Stage1, ReidStage
  <2> QED
    BY <2>1, <2>4, <2>5, <2>6 DEF TypeOK, Phase
<1>2. CASE Stage2
  <2>1. PICK m \in Assignments(u_pool, Low(dets)) :
          /\ tracks' = [i \in Positions |->
                          IF i \in DOMAIN m THEN Update(tracks[i], dets[m[i]])
                          ELSE IF i \in u_pool THEN MarkMissed(tracks[i])
                          ELSE tracks[i]]
          /\ used' = used \cup Pairs(m)
    BY <1>2 DEF Stage2
  <2>2. Low(dets) \in SUBSET DOMAIN dets
    BY DEF Low
  <2>3. DOMAIN m \subseteq Positions /\ \A i \in DOMAIN m : m[i] \in DOMAIN dets
    BY <1>0, <2>2, AssignmentPairs
  <2>4. tracks \in [Positions -> Tracklet] /\ dets \in [DOMAIN dets -> Detection]
    BY DEF TypeOK, Positions
  <2>5. \A i \in DOMAIN m : Update(tracks[i], dets[m[i]]) \in Tracklet
    BY <2>3, <2>4, TrackletTypes, 0 \in Nat, NoFeature \in MaybeFeature DEF MaybeFeature
  <2>6. \A i \in Positions : MarkMissed(tracks[i]) \in Tracklet
    BY <2>4 DEF MarkMissed, Tracklet, TrackState
  <2>7. tracks' \in [Positions -> Tracklet]
    BY <2>1, <2>4, <2>5, <2>6
  <2>8. tracks' \in Seq(Tracklet) /\ Len(tracks') = Len(tracks) /\ Positions' = Positions
    BY <2>7, MappedTracks
  <2>9. used' \subseteq Positions \X DOMAIN dets
    BY <1>0, <2>1, <2>2, UsedPairs
  <2> QED
    BY <1>2, <2>8, <2>9 DEF Stage2, TypeOK, Phase
<1>3. CASE Stage3
  <2>1. PICK m \in Assignments(Unconfirmed, u_high) : \E bank \in Banks(m) :
          /\ tracks' = [i \in Positions |->
                          IF i \in DOMAIN m THEN CorrectStrong(m, bank)[i]
                          ELSE IF i \in Unconfirmed THEN MarkMissed(tracks[i])
                          ELSE tracks[i]]
          /\ u_high' = u_high \ Range(m)
          /\ used' = used \cup Pairs(m)
    BY <1>3 DEF Stage3
  <2>2. PICK bank \in Banks(m) :
          tracks' = [i \in Positions |->
                          IF i \in DOMAIN m THEN CorrectStrong(m, bank)[i]
                          ELSE IF i \in Unconfirmed THEN MarkMissed(tracks[i])
                          ELSE tracks[i]]
    BY <2>1
  <2>3. Unconfirmed \in SUBSET Positions
    BY DEF Unconfirmed
  <2>4. CorrectStrong(m, bank) \in [Positions -> Tracklet]
    BY <1>0, <2>3, CorrectedTypes
  <2>5. tracks \in [Positions -> Tracklet]
    BY DEF TypeOK, Positions
  <2>6. \A i \in Positions : MarkMissed(tracks[i]) \in Tracklet
    BY <2>5 DEF MarkMissed, Tracklet, TrackState
  <2>7. tracks' \in [Positions -> Tracklet]
    BY <2>2, <2>4, <2>5, <2>6
  <2>8. tracks' \in Seq(Tracklet) /\ Len(tracks') = Len(tracks) /\ Positions' = Positions
    BY <2>7, MappedTracks
  <2>9. used' \subseteq Positions \X DOMAIN dets
    BY <1>0, <2>1, <2>3, UsedPairs
  <2> QED
    BY <1>3, <2>1, <2>8, <2>9 DEF Stage3, TypeOK, Phase
<1> QED
    BY <1>1, <1>2, <1>3

(* A candidate of a decision is a place in the gallery, or a twin: another *)
(* track, Lost, of the same class and of an older identity.                *)
LEMMA OlderCandidates ==
    ASSUME NEW y, NEW c \in OlderIdentities(y)
    PROVE  \/ /\ c.kind = "gallery"
              /\ c.at \in DOMAIN gallery
              /\ gallery[c.at].id < y.id
           \/ /\ c.kind = "twin"
              /\ c.at \in Positions
              /\ tracks[c.at].id < y.id
              /\ tracks[c.at].state = "Lost"
BY DEF OlderIdentities

LEMMA ReturningCandidates ==
    ASSUME NEW d, NEW c \in Returning(d)
    PROVE  c.at \in DOMAIN gallery
BY DEF Returning

LEMMA MergeTypes == TypeOK /\ MergePhase => TypeOK'
<1> SUFFICES ASSUME TypeOK, MergePhase
             PROVE  TypeOK'
    OBVIOUS
<1> USE ConfigAssumption
<1>0. /\ tracks \in [Positions -> Tracklet] /\ Positions = 1 .. Len(tracks)
      /\ Len(tracks) \in Nat
      /\ gallery \in [DOMAIN gallery -> GalleryEntry]
    BY DEF TypeOK, Positions
<1>1. CASE Merge
  <2> DEFINE y == tracks[cursor]
  <2>1. cursor \in Positions /\ phase = "merge"
    BY <1>1 DEF Merge
  <2>2. PICK c \in OlderIdentities(y) :
             IF c.kind = "gallery" THEN ClaimGallery(cursor, c.at)
                                   ELSE ClaimTwin(cursor, c.at)
    BY <1>1 DEF Merge
  <2>3. /\ tracks' \in [Positions -> Tracklet]
        /\ gallery' \in Seq(GalleryEntry)
    <3>1. CASE c.kind = "gallery"
      <4>1. c.at \in DOMAIN gallery
        BY <3>1, OlderCandidates
      <4>2. tracks' = [tracks EXCEPT ![cursor].id = gallery[c.at].id,
                                     ![cursor].claimed = TRUE]
        BY <2>2, <3>1 DEF ClaimGallery
      <4>3. gallery[c.at].id \in Nat /\ TRUE \in BOOLEAN
        BY <1>0, <4>1 DEF GalleryEntry
      <4>4. tracks' = [tracks EXCEPT ![cursor] =
                         [tracks[cursor] EXCEPT !.id = gallery[c.at].id,
                                                !.claimed = TRUE]]
        BY <1>0, <2>1, <4>2
      <4>5. [tracks[cursor] EXCEPT !.id = gallery[c.at].id,
                                   !.claimed = TRUE] \in Tracklet
        BY <1>0, <2>1, <4>3, Zenon DEF Tracklet
      <4>6. tracks' \in [Positions -> Tracklet]
        BY <1>0, <4>4, <4>5
      <4>7. gallery' \in Seq(GalleryEntry)
        BY <2>2, <3>1, <4>1, SwapRemoveSeq DEF ClaimGallery, TypeOK
      <4> QED
        BY <4>6, <4>7
    <3>2. CASE c.kind # "gallery"
      <4> DEFINE j == c.at
                 h == Saturate(tracks[cursor].hits + tracks[j].hits, HitsBound)
      <4>1. j \in Positions
        BY <3>2, OlderCandidates
      <4>2. h \in Nat /\ 0 \in Nat /\ tracks[j].id \in Nat /\ "Removed" \in TrackState
        <5>1. tracks[j] \in Tracklet /\ tracks[cursor] \in Tracklet
          BY <1>0, <2>1, <4>1
        <5>2. tracks[j].hits \in Nat /\ tracks[cursor].hits \in Nat /\ tracks[j].id \in Nat
          BY <5>1 DEF Tracklet
        <5>3. HitsBound \in Nat
          BY DEF HitsBound
        <5>4. h \in Nat
          BY <5>2, <5>3 DEF Saturate
        <5> QED
          BY <5>2, <5>4 DEF TrackState
      <4>3. j # cursor
        <5>1. tracks[j].state = "Lost"
          BY <3>2, OlderCandidates
        <5>2. tracks[cursor].state = "Confirmed"
          BY <1>1 DEF Merge, MayMerge
        <5> QED
          BY <5>1, <5>2
      <4>4. tracks' = [tracks EXCEPT
                         ![j] = [tracks[j] EXCEPT !.state = "Removed", !.hits = 0],
                         ![cursor] = [tracks[cursor] EXCEPT
                                        !.hits = h, !.id = tracks[j].id,
                                        !.claimed = TRUE]]
        BY <1>0, <2>1, <2>2, <3>2, <4>1, <4>3 DEF ClaimTwin
      <4>5. [tracks[j] EXCEPT !.state = "Removed", !.hits = 0] \in Tracklet
        BY <1>0, <4>1, <4>2, Zenon DEF Tracklet
      <4>6. [tracks[cursor] EXCEPT !.hits = h, !.id = tracks[j].id,
                                   !.claimed = TRUE] \in Tracklet
        <5>1. TRUE \in BOOLEAN
          OBVIOUS
        <5> HIDE DEF h
        <5> QED
          BY <1>0, <2>1, <4>2, <5>1, Zenon DEF Tracklet
      <4>7. tracks' \in [Positions -> Tracklet]
        BY <1>0, <4>4, <4>5, <4>6
      <4>8. gallery' = gallery
        BY <2>2, <3>2 DEF ClaimTwin
      <4> QED
        BY <4>7, <4>8 DEF TypeOK
    <3> QED
      BY <3>1, <3>2
  <2>4. tracks' \in Seq(Tracklet) /\ Len(tracks') = Len(tracks) /\ Positions' = Positions
    BY <2>3, MappedTracks
  <2>5. cursor' = cursor + 1 /\ cursor' \in 1 .. Len(tracks') + 1
    BY <1>0, <1>1, <2>1, <2>4 DEF Merge
  <2> QED
    BY <1>1, <2>1, <2>3, <2>4, <2>5 DEF Merge, TypeOK
<1>2. CASE MergeNone
  <2>1. cursor' = cursor + 1 /\ cursor \in 1 .. Len(tracks) /\ phase = "merge"
    BY <1>0, <1>2 DEF MergeNone
  <2>2. cursor' \in 1 .. Len(tracks) + 1
    BY <1>0, <2>1
  <2> QED
    BY <1>2, <2>1, <2>2 DEF MergeNone, TypeOK, Positions
<1>3. CASE MergeDone
    BY <1>3 DEF MergeDone, TypeOK, Positions, Phase
<1> QED
    BY <1>1, <1>2, <1>3 DEF MergePhase

LEMMA BirthTypes == TypeOK /\ BirthPhase => TypeOK'
<1> SUFFICES ASSUME TypeOK, BirthPhase
             PROVE  TypeOK'
    OBVIOUS
<1> USE ConfigAssumption
<1>0. /\ tracks \in Seq(Tracklet) /\ Positions = 1 .. Len(tracks)
      /\ Len(tracks) \in Nat
      /\ used \subseteq Positions \X DOMAIN dets
    BY DEF TypeOK, Positions
<1>4. gallery \in [DOMAIN gallery -> GalleryEntry]
    BY DEF TypeOK
<1>5. dets \in [DOMAIN dets -> Detection]
    BY DEF TypeOK
<1>1. ASSUME NEW d \in u_high, NoBirth(d)
      PROVE  TypeOK'
    BY <1>1 DEF NoBirth, NextBirth, TypeOK, Positions
<1>2. ASSUME NEW d \in u_high, Resurrect(d) \/ Mint(d)
      PROVE  TypeOK'
  <2>0. d \in DOMAIN dets /\ dets[d] \in Detection
    BY <1>5 DEF TypeOK
  <2>1. \E t \in Tracklet : tracks' = Append(tracks, t)
    <3>1. CASE Mint(d)
      <4>1. NewTracklet(next_id, dets[d]) \in Tracklet
        BY <2>0, TrackletTypes DEF TypeOK, NewTracklet, Tracklet, Detection,
                                   TrackState
      <4> QED
        BY <3>1, <4>1 DEF Mint
    <3>2. CASE Resurrect(d)
      <4>1. PICK c \in Returning(d) :
               tracks' = Append(tracks, Resurrected(gallery[c.at].id, d))
        BY <3>2 DEF Resurrect
      <4> DEFINE t == NewTracklet(gallery[c.at].id, dets[d])
      <4>2. gallery[c.at].id \in Nat
        BY <1>4, ReturningCandidates DEF GalleryEntry
      <4>3. t \in Tracklet
        BY <2>0, <4>2 DEF NewTracklet, Tracklet, Detection, TrackState
      <4>4. TRUE \in BOOLEAN /\ "Confirmed" \in TrackState
        BY DEF TrackState
      <4>5. [t EXCEPT !.state = "Confirmed", !.hits = MinHits,
                      !.claimed = TRUE] \in Tracklet
        <5> HIDE DEF t
        <5> QED
          BY <4>3, <4>4, Zenon DEF Tracklet
      <4> QED
        BY <4>1, <4>5 DEF Resurrected
    <3> QED
      BY <1>2, <3>1, <3>2
  <2>2. /\ tracks' \in Seq(Tracklet)
        /\ Len(tracks') = Len(tracks) + 1
        /\ Positions' = 1 .. Len(tracks) + 1
    BY <1>0, <2>1 DEF Positions
  <2>3. gallery' \in Seq(GalleryEntry)
    <3>1. CASE Mint(d)
      BY <3>1 DEF Mint, TypeOK
    <3>2. CASE Resurrect(d)
      <4>1. PICK c \in Returning(d) : gallery' = SwapRemove(gallery, c.at)
        BY <3>2 DEF Resurrect
      <4> QED
        BY <4>1, ReturningCandidates, SwapRemoveSeq DEF TypeOK
    <3> QED
      BY <1>2, <3>1, <3>2
  <2>4. /\ used' = used \cup {<<Len(tracks) + 1, d>>}
        /\ u_high' = u_high \ {d} /\ phase = "birth"
        /\ next_id' \in {next_id, next_id + 1}
        /\ UNCHANGED <<frame, phase, dets, u_pool, cursor>>
    BY <1>2 DEF Resurrect, Mint, NextBirth
  <2>5. used' \subseteq Positions' \X DOMAIN dets'
    <3>1. <<Len(tracks) + 1, d>> \in Positions' \X DOMAIN dets
      BY <1>0, <2>0, <2>2
    <3>2. Positions \subseteq Positions'
      BY <1>0, <2>2
    <3> QED
      BY <1>0, <2>4, <3>1, <3>2
  <2>6. u_pool' \subseteq Positions' /\ u_high' \subseteq DOMAIN dets'
    BY <1>0, <2>2, <2>4 DEF TypeOK
  <2>7. cursor' \in 1 .. Len(tracks') + 1
    BY <1>0, <2>2, <2>4 DEF TypeOK
  <2> QED
    BY <2>2, <2>3, <2>4, <2>5, <2>6, <2>7 DEF TypeOK
<1>3. CASE BirthDone
  <2>1. 1 \in 1 .. Len(tracks) + 1
    BY <1>0
  <2> QED
    BY <1>3, <2>1 DEF BirthDone, TypeOK, Positions, Phase
<1> QED
    BY <1>1, <1>2, <1>3 DEF BirthPhase

(* Handing a dead track's identity to a survivor keeps the survivor typed. *)
LEMMA HeirType ==
    ASSUME NEW l \in Tracklet, NEW t \in Tracklet
    PROVE  [l EXCEPT !.id = t.id, !.hits = Saturate(@ + t.hits, HitsBound),
                     !.claimed = TRUE] \in Tracklet
<1> USE ConfigAssumption
<1> DEFINE h == Saturate(l.hits + t.hits, HitsBound)
<1>1. l.hits \in Nat /\ t.hits \in Nat /\ t.id \in Nat
    BY DEF Tracklet
<1>2. HitsBound \in Nat
    BY DEF HitsBound
<1>3. h \in Nat
    BY <1>1, <1>2 DEF Saturate
<1>4. [l EXCEPT !.id = t.id, !.hits = h, !.claimed = TRUE] \in Tracklet
  <2>1. TRUE \in BOOLEAN
    OBVIOUS
  <2> HIDE DEF h
  <2> QED
    BY <1>1, <1>3, <2>1, Zenon DEF Tracklet
<1> QED
    BY <1>4

LEMMA ReapTypes == TypeOK /\ ReapPhase => TypeOK'
<1> SUFFICES ASSUME TypeOK, ReapPhase
             PROVE  TypeOK'
    OBVIOUS
<1>0. /\ tracks \in Seq(Tracklet) /\ Positions = 1 .. Len(tracks)
      /\ Len(tracks) \in Nat /\ frame \in Nat
      /\ gallery \in Seq(GalleryEntry)
      /\ DOMAIN gallery = 1 .. Len(gallery) /\ Len(gallery) \in Nat
    BY DEF TypeOK, Positions
<1>1. CASE Keep
  <2>1. cursor' = cursor + 1 /\ cursor \in 1 .. Len(tracks) /\ phase = "reap"
    BY <1>0, <1>1 DEF Keep
  <2>2. cursor' \in 1 .. Len(tracks) + 1
    BY <1>0, <2>1
  <2> QED
    BY <1>1, <2>1, <2>2 DEF Keep, TypeOK, Positions
<1>2. ASSUME HandOff \/ Bury
      PROVE  TypeOK'
  <2> DEFINE t == tracks[cursor]
             rest == SwapRemove(tracks, cursor)
  <2>1. cursor \in Positions /\ phase = "reap" /\ u_pool = {}
    BY <1>2 DEF HandOff, Bury, Dying, TypeOK
  <2>2. /\ t \in Tracklet
        /\ t.id \in Nat /\ t.class \in Class /\ t.feat \in MaybeFeature
    <3>1. t \in Tracklet
      BY <1>0, <2>1
    <3> QED
      BY <3>1 DEF Tracklet
  <2>3. /\ rest \in Seq(Tracklet) /\ Len(rest) = Len(tracks) - 1
        /\ DOMAIN rest = 1 .. Len(tracks) - 1
    BY <1>0, <2>1, SwapRemoveSeq DEF Positions
  <2>4. tracks' \in Seq(Tracklet) /\ Len(tracks') = Len(tracks) - 1
    <3>1. CASE Bury
      BY <2>3, <3>1 DEF Bury
    <3>2. CASE HandOff
      <4>1. PICK j \in DOMAIN rest :
               tracks' = [rest EXCEPT
                             ![j].id = t.id,
                             ![j].hits = Saturate(@ + t.hits, HitsBound),
                             ![j].claimed = TRUE]
        BY <3>2 DEF HandOff
      <4> DEFINE heir == [rest[j] EXCEPT !.id = t.id,
                             !.hits = Saturate(@ + t.hits, HitsBound),
                             !.claimed = TRUE]
      <4>2. tracks' = [rest EXCEPT ![j] = heir]
        BY <2>3, <4>1
      <4>3. heir \in Tracklet
        <5>1. rest[j] \in Tracklet
          <6> HIDE DEF rest
          <6> QED
            BY <2>3
        <5> QED
          BY <2>2, <5>1, HeirType
      <4> HIDE DEF heir, rest
      <4> QED
        BY <2>3, <4>2, <4>3
    <3> QED
      BY <1>2, <3>1, <3>2
  <2>5. gallery' \in Seq(GalleryEntry)
    <3>1. CASE HandOff
      BY <1>0, <3>1 DEF HandOff
    <3>2. CASE Bury
      <4> DEFINE entry == [id |-> t.id, class |-> t.class, feat |-> t.feat,
                           removed_frame |-> frame]
      <4>1. \/ gallery' = gallery
            \/ /\ Remembered(t)
               /\ \E k \in DOMAIN gallery :
                     gallery' = [gallery EXCEPT
                        ![k] = [entry EXCEPT !.id = OlderId(gallery[k].id, t.id)]]
            \/ /\ Remembered(t)
               /\ gallery' = Append(gallery, entry)
        BY <3>2 DEF Bury
      <4>2. ASSUME Remembered(t) PROVE entry \in GalleryEntry
        BY <1>0, <2>2, <4>2 DEF Remembered, MaybeFeature, GalleryEntry
      <4>3. ASSUME Remembered(t), NEW k \in DOMAIN gallery
            PROVE  [entry EXCEPT !.id = OlderId(gallery[k].id, t.id)] \in GalleryEntry
        <5>1. gallery[k].id \in Nat
          <6>1. gallery[k] \in GalleryEntry
            BY <1>0
          <6> QED
            BY <6>1 DEF GalleryEntry
        <5>2. OlderId(gallery[k].id, t.id) \in Nat
          BY <2>2, <5>1 DEF OlderId
        <5> QED
          BY <4>2, <4>3, <5>2 DEF GalleryEntry
      <4>4. CASE gallery' = gallery
        BY <1>0, <4>4
      <4>5. ASSUME Remembered(t), NEW k \in DOMAIN gallery,
                   gallery' = [gallery EXCEPT
                        ![k] = [entry EXCEPT !.id = OlderId(gallery[k].id, t.id)]]
            PROVE  gallery' \in Seq(GalleryEntry)
        <5> DEFINE e == [entry EXCEPT !.id = OlderId(gallery[k].id, t.id)]
        <5>1. e \in GalleryEntry /\ gallery' = [gallery EXCEPT ![k] = e]
          BY <4>3, <4>5
        <5> HIDE DEF e
        <5> QED
          BY <1>0, <4>5, <5>1
      <4>6. CASE Remembered(t) /\ gallery' = Append(gallery, entry)
        <5>1. entry \in GalleryEntry
          BY <4>2, <4>6
        <5> HIDE DEF entry
        <5> QED
          BY <1>0, <4>6, <5>1
      <4> HIDE DEF entry
      <4> QED
        BY <4>1, <4>4, <4>5, <4>6
    <3> QED
      BY <1>2, <3>1, <3>2
  <2>6. UNCHANGED <<next_id, frame, phase, dets, u_pool, u_high, cursor, used>>
    BY <1>2 DEF HandOff, Bury
  <2>7. cursor' \in 1 .. Len(tracks') + 1
    BY <1>0, <2>1, <2>4, <2>6
  <2>8. used' = {} /\ u_high' = {} /\ u_pool' = {}
    BY <2>1, <2>6 DEF TypeOK
  <2> QED
    BY <2>1, <2>4, <2>5, <2>6, <2>7, <2>8 DEF TypeOK
<1>3. CASE EndFrame
  <2>1. PICK from \in [1 .. Cardinality(Retained) -> Retained] :
            gallery' = [a \in DOMAIN from |-> gallery[from[a]]]
    BY <1>3 DEF EndFrame
  <2>2. Retained \subseteq 1 .. Len(gallery)
    BY <1>0 DEF Retained
  <2>3. Cardinality(Retained) \in Nat
    <3>1. 1 \in Int /\ Len(gallery) \in Int
      BY <1>0
    <3>2. IsFiniteSet(1 .. Len(gallery))
      BY <3>1, FS_Interval
    <3>3. IsFiniteSet(Retained)
      BY <2>2, <3>2, FS_Subset
    <3> QED
      BY <3>3, FS_CardinalityType
  <2>4. gallery' \in [1 .. Cardinality(Retained) -> GalleryEntry]
    <3>1. \A k \in Retained : gallery[k] \in GalleryEntry
      BY <1>0, <2>2
    <3> QED
      BY <2>1, <3>1
  <2>5. gallery' \in Seq(GalleryEntry)
    BY <2>3, <2>4
  <2>6. phase = "reap" /\ used = {} /\ u_pool = {} /\ u_high = {}
    BY <1>3 DEF EndFrame, TypeOK
  <2>7. /\ dets' = <<>> /\ cursor' = 1 /\ phase' = "idle" /\ frame' = frame + 1
        /\ UNCHANGED <<tracks, next_id, u_pool, u_high, used>>
    BY <1>3 DEF EndFrame
  <2>8. dets' \in Seq(Detection) /\ cursor' \in 1 .. Len(tracks') + 1
    BY <1>0, <2>7
  <2> QED
    BY <1>0, <2>5, <2>6, <2>7, <2>8 DEF TypeOK, Positions, Phase
<1> QED
    BY <1>1, <1>2, <1>3 DEF ReapPhase

LEMMA TypeStep == TypeOK /\ [Next]_vars => TypeOK'
<1>1. TypeOK /\ UNCHANGED vars => TypeOK'
    BY DEF TypeOK, vars, Positions
<1> QED
    BY <1>1, FrameTypes, StageTypes, MergeTypes, BirthTypes, ReapTypes
    DEF Next, Step

(* Every field keeps its type, every stored position exists and no loop of *)
(* Tracker::step runs past its vector, whatever the detections are.        *)
THEOREM TypeCorrect == Spec => []TypeOK
<1>1. Init => TypeOK
    BY DEF Init, TypeOK, Phase, Positions
<1> QED
    BY <1>1, TypeStep, PTL DEF Spec
-----------------------------------------------------------------------------
(* Stable identity. A step inherits identities when every holder has its   *)
(* identity from a holder of its own before the step.                      *)
Inherited ==
    /\ next_id' >= next_id
    /\ \E src \in [Holders' -> Holders] :
          /\ \A h \in Holders' : IdOf(h)' = IdOf(src[h])
          /\ \A g, h \in Holders' : src[g] = src[h] => g = h

LEMMA HolderIds == TypeOK => \A h \in Holders : IdOf(h) \in Nat
<1> SUFFICES ASSUME TypeOK, NEW h \in Holders
             PROVE  IdOf(h) \in Nat
    OBVIOUS
<1>1. CASE h \in {<<"track", i>> : i \in Carriers}
  <2>1. PICK i \in Carriers : h = <<"track", i>>
    BY <1>1
  <2>2. tracks[i] \in Tracklet
    BY DEF TypeOK, Carriers, Positions
  <2> QED
    BY <2>1, <2>2 DEF IdOf, Tracklet
<1>2. CASE h \in {<<"gallery", k>> : k \in DOMAIN gallery}
  <2>1. PICK k \in DOMAIN gallery : h = <<"gallery", k>>
    BY <1>2
  <2>2. gallery[k] \in GalleryEntry
    BY DEF TypeOK
  <2> QED
    BY <2>1, <2>2 DEF IdOf, GalleryEntry
<1> QED
    BY <1>1, <1>2 DEF Holders

LEMMA InheritedUnique ==
    TypeOK /\ TypeOK' /\ UniqueIdentity /\ Inherited => UniqueIdentity'
<1> SUFFICES ASSUME TypeOK, TypeOK', UniqueIdentity, Inherited
             PROVE  UniqueIdentity'
    OBVIOUS
<1>1. PICK src \in [Holders' -> Holders] :
          /\ \A h \in Holders' : IdOf(h)' = IdOf(src[h])
          /\ \A g, h \in Holders' : src[g] = src[h] => g = h
    BY DEF Inherited
<1>2. ASSUME NEW h \in Holders', NEW g \in Holders', IdOf(g)' = IdOf(h)'
      PROVE  g = h
    BY <1>1, <1>2 DEF UniqueIdentity
<1>3. ASSUME NEW h \in Holders'
      PROVE  IdOf(h)' < next_id'
  <2>1. IdOf(src[h]) \in Nat /\ IdOf(src[h]) < next_id
    BY <1>1, HolderIds DEF UniqueIdentity
  <2>2. next_id \in Nat /\ next_id' \in Nat /\ next_id' >= next_id
    BY DEF TypeOK, Inherited
  <2> QED
    BY <1>1, <2>1, <2>2
<1> QED
    BY <1>2, <1>3 DEF UniqueIdentity

(* A step that keeps ids, husks and the gallery inherits every identity.   *)
LEMMA CalmInherits ==
    ASSUME next_id \in Nat, Positions' = Positions, UNCHANGED <<gallery, next_id>>,
           \A i \in Positions : /\ tracks'[i].id = tracks[i].id
                                /\ Husk(tracks[i]) => Husk(tracks'[i])
    PROVE  Inherited
<1>1. Carriers' \subseteq Carriers
    BY DEF Carriers
<1>2. Holders' \subseteq Holders
    BY <1>1 DEF Holders
<1>3. \A h \in Holders' : IdOf(h)' = IdOf(h)
  <2>1. \A i \in Carriers' : IdOf(<<"track", i>>)' = IdOf(<<"track", i>>)
    BY DEF Carriers, IdOf
  <2>2. \A k \in DOMAIN gallery' : IdOf(<<"gallery", k>>)' = IdOf(<<"gallery", k>>)
    BY DEF IdOf
  <2> QED
    BY <2>1, <2>2 DEF Holders
<1> DEFINE src == [h \in Holders' |-> h]
<1>4. src \in [Holders' -> Holders] /\ \A h \in Holders' : src[h] = h
    BY <1>2
<1>5. next_id' >= next_id
    OBVIOUS
<1> HIDE DEF src
<1> QED
    BY <1>3, <1>4, <1>5 DEF Inherited

(* Matching, missing and predicting a track leave its identity alone, and  *)
(* missing it leaves a husk a husk.                                        *)
LEMMA SameId ==
    ASSUME NEW t \in Tracklet, NEW d, NEW f
    PROVE  /\ Predict(t).id = t.id
           /\ Update(t, d).id = t.id
           /\ UpdateStrong(t, d, f).id = t.id
           /\ MarkMissed(t).id = t.id
           /\ Husk(t) => Husk(MarkMissed(t))
<1>1. Predict(t).id = t.id
    BY DEF Predict, Tracklet
<1>2. Update(t, d).id = t.id /\ Update(t, d) = [Update(t, d) EXCEPT !.id = t.id]
    BY DEF Update, Tracklet
<1>3. UpdateStrong(t, d, f).id = t.id
    BY <1>2 DEF UpdateStrong, Update, Tracklet
<1>4. MarkMissed(t).id = t.id
    BY DEF MarkMissed, Tracklet
<1>5. Husk(t) => Husk(MarkMissed(t))
    BY DEF MarkMissed, Tracklet, Husk
<1> QED
    BY <1>1, <1>2, <1>3, <1>4, <1>5

LEMMA CorrectedIds ==
    ASSUME TypeOK,
           NEW rows \in SUBSET Positions, NEW cols \in SUBSET DOMAIN dets,
           NEW m \in Assignments(rows, cols), NEW bank
    PROVE  \A i \in Positions :
              /\ CorrectStrong(m, bank)[i].id = tracks[i].id
              /\ i \notin DOMAIN m => CorrectStrong(m, bank)[i] = tracks[i]
<1> SUFFICES ASSUME NEW i \in Positions
             PROVE  /\ CorrectStrong(m, bank)[i].id = tracks[i].id
                    /\ i \notin DOMAIN m => CorrectStrong(m, bank)[i] = tracks[i]
    OBVIOUS
<1>1. tracks[i] \in Tracklet
    BY DEF TypeOK, Positions
<1> QED
    BY <1>1, SameId DEF CorrectStrong

(* The frame's beginning and the four matching stages move no identity.    *)
LEMMA StageInherits ==
    ASSUME TypeOK, PoolAlive, Stage1 \/ ReidStage \/ Stage2 \/ Stage3
    PROVE  Inherited
<1>1. /\ \A i \in Positions : tracks[i] \in Tracklet
      /\ u_pool \in SUBSET Positions /\ u_high \in SUBSET DOMAIN dets
      /\ next_id \in Nat
    BY DEF TypeOK, Positions
<1>2. CASE Stage1 \/ ReidStage
  <2>1. PICK m \in Assignments(u_pool, u_high) : \E bank \in Banks(m) :
            tracks' = CorrectStrong(m, bank)
    BY <1>2 DEF Stage1, ReidStage
  <2>2. PICK bank \in Banks(m) : tracks' = CorrectStrong(m, bank)
    BY <2>1
  <2>3. \A i \in DOMAIN m : tracks[i].state \in {"Confirmed", "Lost"}
    BY <1>2, AssignmentPairs DEF PoolAlive, Stage1, ReidStage
  <2>4. ASSUME NEW i \in Positions
        PROVE  /\ tracks'[i].id = tracks[i].id
               /\ Husk(tracks[i]) => Husk(tracks'[i])
    <3>1. /\ tracks'[i].id = tracks[i].id
          /\ i \notin DOMAIN m => tracks'[i] = tracks[i]
      BY <1>1, <2>2, CorrectedIds
    <3> QED
      BY <2>3, <3>1 DEF Husk
  <2>5. Positions' = Positions
    BY <2>2 DEF CorrectStrong, Positions
  <2>6. UNCHANGED <<gallery, next_id>>
    BY <1>2 DEF Stage1, ReidStage
  <2> QED
    BY <1>1, <2>4, <2>5, <2>6, CalmInherits
<1>3. CASE Stage2
  <2>1. PICK m \in Assignments(u_pool, Low(dets)) :
            tracks' = [i \in Positions |->
                          IF i \in DOMAIN m THEN Update(tracks[i], dets[m[i]])
                          ELSE IF i \in u_pool THEN MarkMissed(tracks[i])
                          ELSE tracks[i]]
    BY <1>3 DEF Stage2
  <2>2. \A i \in DOMAIN m : tracks[i].state \in {"Confirmed", "Lost"}
    BY <1>3, AssignmentPairs DEF PoolAlive, Stage2
  <2>3. ASSUME NEW i \in Positions
        PROVE  /\ tracks'[i].id = tracks[i].id
               /\ Husk(tracks[i]) => Husk(tracks'[i])
    <3>1. CASE i \in DOMAIN m
      <4>1. tracks'[i] = Update(tracks[i], dets[m[i]])
        BY <2>1, <3>1
      <4> QED
        BY <1>1, <2>2, <3>1, <4>1, SameId DEF Husk
    <3>2. CASE i \notin DOMAIN m
      <4>1. tracks'[i] = MarkMissed(tracks[i]) \/ tracks'[i] = tracks[i]
        BY <2>1, <3>2
      <4> QED
        BY <1>1, <4>1, SameId
    <3> QED
      BY <3>1, <3>2
  <2>4. Positions' = Positions
    BY <2>1 DEF Positions
  <2>5. UNCHANGED <<gallery, next_id>>
    BY <1>3 DEF Stage2
  <2> QED
    BY <1>1, <2>3, <2>4, <2>5, CalmInherits
<1>4. CASE Stage3
  <2>1. PICK m \in Assignments(Unconfirmed, u_high) : \E bank \in Banks(m) :
            tracks' = [i \in Positions |->
                          IF i \in DOMAIN m THEN CorrectStrong(m, bank)[i]
                          ELSE IF i \in Unconfirmed THEN MarkMissed(tracks[i])
                          ELSE tracks[i]]
    BY <1>4 DEF Stage3
  <2>2. PICK bank \in Banks(m) :
            tracks' = [i \in Positions |->
                          IF i \in DOMAIN m THEN CorrectStrong(m, bank)[i]
                          ELSE IF i \in Unconfirmed THEN MarkMissed(tracks[i])
                          ELSE tracks[i]]
    BY <2>1
  <2>3. Unconfirmed \in SUBSET Positions
    BY DEF Unconfirmed
  <2>4. \A i \in DOMAIN m : tracks[i].state = "Tentative"
    BY AssignmentPairs DEF Unconfirmed
  <2>5. ASSUME NEW i \in Positions
        PROVE  /\ tracks'[i].id = tracks[i].id
               /\ Husk(tracks[i]) => Husk(tracks'[i])
    <3>1. CASE i \in DOMAIN m
      <4>1. tracks'[i].id = tracks[i].id
        BY <1>1, <2>2, <2>3, <3>1, CorrectedIds
      <4> QED
        BY <2>4, <3>1, <4>1 DEF Husk
    <3>2. CASE i \notin DOMAIN m
      <4>1. tracks'[i] = MarkMissed(tracks[i]) \/ tracks'[i] = tracks[i]
        BY <2>2, <3>2
      <4> QED
        BY <1>1, <4>1, SameId
    <3> QED
      BY <3>1, <3>2
  <2>6. Positions' = Positions
    BY <2>2 DEF Positions
  <2>7. UNCHANGED <<gallery, next_id>>
    BY <1>4 DEF Stage3
  <2> QED
    BY <1>1, <2>5, <2>6, <2>7, CalmInherits
<1> QED
    BY <1>2, <1>3, <1>4

LEMMA FrameInherits ==
    ASSUME TypeOK, NEW ds, BeginFrame(ds)
    PROVE  Inherited
<1>1. \A i \in Positions : tracks[i] \in Tracklet
    BY DEF TypeOK, Positions
<1>2. Positions' = Positions /\ UNCHANGED <<gallery, next_id>> /\ next_id \in Nat
    BY DEF BeginFrame, Positions, TypeOK
<1>3. ASSUME NEW i \in Positions
      PROVE  /\ tracks'[i].id = tracks[i].id
             /\ Husk(tracks[i]) => Husk(tracks'[i])
  <2>1. tracks'[i] = IF tracks[i].state # "Removed"
                     THEN Predict(tracks[i]) ELSE tracks[i]
    BY DEF BeginFrame
  <2> QED
    BY <1>1, <2>1, SameId DEF Husk
<1> QED
    BY <1>2, <1>3, CalmInherits

(* A young track that takes an older identity gives up its own; the entry  *)
(* or the twin it takes it from is gone in the same step.                  *)
LEMMA MergeInherits ==
    ASSUME TypeOK, Merge
    PROVE  Inherited
<1>1. PICK c \in OlderIdentities(tracks[cursor]) :
          IF c.kind = "gallery" THEN ClaimGallery(cursor, c.at)
                                ELSE ClaimTwin(cursor, c.at)
    BY DEF Merge
<1>2. /\ next_id \in Nat /\ next_id' = next_id
      /\ cursor \in Positions /\ tracks[cursor].state = "Confirmed"
    BY DEF Merge, MayMerge, TypeOK
<1>3. /\ \A i \in Positions : tracks[i] \in Tracklet
      /\ DOMAIN tracks = Positions /\ Positions = 1 .. Len(tracks)
      /\ cursor \in Carriers
    BY <1>2 DEF TypeOK, Positions, Carriers, Husk
<1>4. CASE c.kind = "gallery"
  <2> DEFINE k == c.at
  <2>1. ClaimGallery(cursor, k) /\ k \in DOMAIN gallery
    BY <1>1, <1>4, OlderCandidates
  <2>2. /\ gallery' = SwapRemove(gallery, k)
        /\ tracks' = [tracks EXCEPT ![cursor].id = gallery[k].id,
                                    ![cursor].claimed = TRUE]
    BY <2>1 DEF ClaimGallery
  <2>3. /\ DOMAIN gallery' = 1 .. Len(gallery) - 1
        /\ \A g \in DOMAIN gallery' :
              gallery'[g] = gallery[IF g = k THEN Len(gallery) ELSE g]
        /\ DOMAIN gallery = 1 .. Len(gallery) /\ Len(gallery) \in Nat
    <3>1. gallery \in Seq(GalleryEntry)
      BY DEF TypeOK
    <3>2. DOMAIN gallery' = 1 .. Len(gallery) - 1
      BY <2>1, <2>2, <3>1, SwapRemoveSeq
    <3>3. \A g \in 1 .. Len(gallery) - 1 :
             gallery'[g] = gallery[IF g = k THEN Len(gallery) ELSE g]
      BY <2>1, <2>2, <3>1, SwapRemoveSeq
    <3> QED
      BY <3>1, <3>2, <3>3
  <2>4. /\ tracks'[cursor].id = gallery[k].id
        /\ \A i \in Positions \ {cursor} : tracks'[i] = tracks[i]
        /\ Positions' = Positions
    BY <1>2, <1>3, <2>2 DEF Positions
  <2>5. Carriers' \subseteq Carriers
    BY <1>3, <2>4 DEF Carriers
  <2> DEFINE from(h) == IF h = <<"track", cursor>> THEN <<"gallery", k>>
                        ELSE IF h = <<"gallery", k>> THEN <<"gallery", Len(gallery)>>
                        ELSE h
             src == [h \in Holders' |-> from(h)]
  <2>6. ASSUME NEW h \in Holders'
        PROVE  from(h) \in Holders /\ IdOf(h)' = IdOf(from(h))
    <3>1. CASE h \in {<<"track", i>> : i \in Carriers'}
      <4>1. PICK i \in Carriers' : h = <<"track", i>>
        BY <3>1
      <4> QED
        BY <2>1, <2>4, <2>5, <4>1 DEF IdOf, Holders, Carriers
    <3>2. CASE h \in {<<"gallery", g>> : g \in DOMAIN gallery'}
      <4>1. PICK g \in DOMAIN gallery' : h = <<"gallery", g>>
        BY <3>2
      <4>2. from(h) = <<"gallery", IF g = k THEN Len(gallery) ELSE g>>
        BY <4>1
      <4>3. (IF g = k THEN Len(gallery) ELSE g) \in DOMAIN gallery
        BY <2>3
      <4> QED
        BY <2>3, <4>1, <4>2, <4>3 DEF IdOf, Holders
    <3> QED
      BY <3>1, <3>2 DEF Holders
  <2>7. ASSUME NEW g \in Holders', NEW h \in Holders', from(g) = from(h)
        PROVE  g = h
    <3>1. <<"gallery", Len(gallery)>> \notin Holders'
      BY <2>3 DEF Holders
    <3> QED
      BY <2>7, <3>1
  <2>8. /\ src \in [Holders' -> Holders]
        /\ \A h \in Holders' : IdOf(h)' = IdOf(src[h])
        /\ \A g, h \in Holders' : src[g] = src[h] => g = h
    BY <2>6, <2>7
  <2>9. next_id' >= next_id
    BY <1>2
  <2> HIDE DEF src
  <2> QED
    BY <2>8, <2>9 DEF Inherited
<1>5. CASE c.kind # "gallery"
  <2> DEFINE j == c.at
  <2>1. /\ ClaimTwin(cursor, j) /\ j \in Positions
        /\ tracks[j].state = "Lost" /\ j # cursor
    BY <1>1, <1>2, <1>5, OlderCandidates
  <2>2. tracks' = [tracks EXCEPT
                     ![j].state = "Removed", ![j].hits = 0,
                     ![cursor].hits = Saturate(@ + tracks[j].hits, HitsBound),
                     ![cursor].id = tracks[j].id, ![cursor].claimed = TRUE]
    BY <2>1 DEF ClaimTwin
  <2>3. /\ tracks'[cursor].id = tracks[j].id
        /\ Husk(tracks'[j])
        /\ \A i \in Positions \ {cursor, j} : tracks'[i] = tracks[i]
        /\ Positions' = Positions
    <3>1. tracks[j] \in Tracklet /\ tracks[cursor] \in Tracklet
      BY <1>2, <1>3, <2>1
    <3>2. tracks'[j] = [tracks[j] EXCEPT !.state = "Removed", !.hits = 0]
      BY <1>2, <1>3, <2>1, <2>2
    <3>3. tracks'[cursor].id = tracks[j].id
      BY <1>2, <1>3, <2>1, <2>2, <3>1 DEF Tracklet
    <3>4. Husk(tracks'[j])
      BY <3>1, <3>2 DEF Husk, Tracklet
    <3>5. \A i \in Positions \ {cursor, j} : tracks'[i] = tracks[i]
      BY <1>3, <2>2
    <3>6. DOMAIN tracks' = DOMAIN tracks
      BY <2>2
    <3> QED
      BY <3>3, <3>4, <3>5, <3>6 DEF Positions
  <2>4. Carriers' \subseteq Carriers \ {j} /\ j \in Carriers
    BY <1>3, <2>1, <2>3 DEF Carriers, Husk
  <2>5. gallery' = gallery
    BY <2>1 DEF ClaimTwin
  <2> DEFINE from(h) == IF h = <<"track", cursor>> THEN <<"track", j>> ELSE h
             src == [h \in Holders' |-> from(h)]
  <2>6. ASSUME NEW h \in Holders'
        PROVE  from(h) \in Holders /\ IdOf(h)' = IdOf(from(h))
    <3>1. CASE h \in {<<"track", i>> : i \in Carriers'}
      <4>1. PICK i \in Carriers' : h = <<"track", i>>
        BY <3>1
      <4>2. CASE i = cursor
        BY <2>3, <2>4, <4>1, <4>2 DEF IdOf, Holders
      <4>3. CASE i # cursor
        BY <2>3, <2>4, <4>1, <4>3 DEF IdOf, Holders, Carriers
      <4> QED
        BY <4>2, <4>3
    <3>2. CASE h \in {<<"gallery", g>> : g \in DOMAIN gallery'}
      BY <2>5, <3>2 DEF IdOf, Holders
    <3> QED
      BY <3>1, <3>2 DEF Holders
  <2>7. ASSUME NEW g \in Holders', NEW h \in Holders', from(g) = from(h)
        PROVE  g = h
    <3>1. <<"track", j>> \notin Holders'
      BY <2>4 DEF Holders
    <3> QED
      BY <2>7, <3>1
  <2>8. /\ src \in [Holders' -> Holders]
        /\ \A h \in Holders' : IdOf(h)' = IdOf(src[h])
        /\ \A g, h \in Holders' : src[g] = src[h] => g = h
    BY <2>6, <2>7
  <2>9. next_id' >= next_id
    BY <1>2
  <2> HIDE DEF src
  <2> QED
    BY <2>8, <2>9 DEF Inherited
<1> QED
    BY <1>4, <1>5

(* A newborn that resurrects takes its identity out of the gallery.        *)
LEMMA ResurrectInherits ==
    ASSUME TypeOK, NEW d \in u_high, Resurrect(d)
    PROVE  Inherited
<1> DEFINE n == Len(tracks) + 1
<1>1. PICK c \in Returning(d) :
          /\ tracks' = Append(tracks, Resurrected(gallery[c.at].id, d))
          /\ gallery' = SwapRemove(gallery, c.at)
    BY DEF Resurrect
<1> DEFINE k == c.at
<1>2. next_id' = next_id /\ next_id \in Nat
    BY DEF Resurrect, TypeOK
<1>3. k \in DOMAIN gallery
    BY ReturningCandidates
<1>4. /\ tracks \in Seq(Tracklet) /\ Len(tracks) \in Nat
      /\ gallery \in Seq(GalleryEntry) /\ Len(gallery) \in Nat
      /\ DOMAIN gallery = 1 .. Len(gallery)
      /\ Positions = 1 .. Len(tracks)
    BY DEF TypeOK, Positions
<1>5. /\ DOMAIN gallery' = 1 .. Len(gallery) - 1
      /\ \A g \in 1 .. Len(gallery) - 1 :
            gallery'[g] = gallery[IF g = k THEN Len(gallery) ELSE g]
    BY <1>1, <1>3, <1>4, SwapRemoveSeq
<1>6. /\ Positions' = Positions \cup {n} /\ n \notin Positions
      /\ \A i \in Positions : tracks'[i] = tracks[i]
      /\ tracks'[n] = Resurrected(gallery[k].id, d)
    BY <1>1, <1>4 DEF Positions
<1>7. tracks'[n].id = gallery[k].id
    BY <1>6 DEF Resurrected, NewTracklet
<1>8. Carriers' \subseteq Carriers \cup {n}
    BY <1>6 DEF Carriers
<1> DEFINE from(h) == IF h = <<"track", n>> THEN <<"gallery", k>>
                      ELSE IF h = <<"gallery", k>> THEN <<"gallery", Len(gallery)>>
                      ELSE h
           src == [h \in Holders' |-> from(h)]
<1>9. ASSUME NEW h \in Holders'
      PROVE  from(h) \in Holders /\ IdOf(h)' = IdOf(from(h))
  <2>1. CASE h \in {<<"track", i>> : i \in Carriers'}
    <3>1. PICK i \in Carriers' : h = <<"track", i>>
      BY <2>1
    <3>2. CASE i = n
      BY <1>3, <1>7, <3>1, <3>2 DEF IdOf, Holders
    <3>3. CASE i # n
      <4>1. i \in Carriers /\ i \in Positions
        BY <1>8, <3>3 DEF Carriers
      <4>2. from(h) = <<"track", i>>
        BY <3>1, <3>3
      <4>3. tracks'[i] = tracks[i]
        BY <1>6, <4>1
      <4> HIDE DEF from
      <4> QED
        BY <3>1, <4>1, <4>2, <4>3 DEF IdOf, Holders
    <3> QED
      BY <3>2, <3>3
  <2>2. CASE h \in {<<"gallery", g>> : g \in DOMAIN gallery'}
    <3>1. PICK g \in DOMAIN gallery' : h = <<"gallery", g>>
      BY <2>2
    <3>2. from(h) = <<"gallery", IF g = k THEN Len(gallery) ELSE g>>
      BY <3>1
    <3>3. (IF g = k THEN Len(gallery) ELSE g) \in DOMAIN gallery
      BY <1>4, <1>5
    <3> QED
      BY <1>5, <3>1, <3>2, <3>3 DEF IdOf, Holders
  <2> QED
    BY <2>1, <2>2 DEF Holders
<1>10. ASSUME NEW g \in Holders', NEW h \in Holders', from(g) = from(h)
       PROVE  g = h
  <2>1. <<"gallery", Len(gallery)>> \notin Holders'
    BY <1>4, <1>5 DEF Holders
  <2> QED
    BY <1>10, <2>1
<1>11. /\ src \in [Holders' -> Holders]
       /\ \A h \in Holders' : IdOf(h)' = IdOf(src[h])
       /\ \A g, h \in Holders' : src[g] = src[h] => g = h
    BY <1>9, <1>10
<1>12. next_id' >= next_id
    BY <1>2
<1> HIDE DEF src
<1> QED
    BY <1>11, <1>12 DEF Inherited

(* A newborn nobody knows gets an identity nobody has.                     *)
LEMMA MintUnique ==
    ASSUME TypeOK, UniqueIdentity, NEW d \in u_high, Mint(d)
    PROVE  UniqueIdentity'
<1> DEFINE n == Len(tracks) + 1
<1>1. /\ tracks' = Append(tracks, NewTracklet(next_id, dets[d]))
      /\ next_id' = next_id + 1 /\ next_id \in Nat /\ gallery' = gallery
      /\ tracks \in Seq(Tracklet) /\ Len(tracks) \in Nat
      /\ Positions = 1 .. Len(tracks)
    BY DEF Mint, TypeOK, Positions
<1>2. /\ Positions' = Positions \cup {n}
      /\ \A i \in Positions : tracks'[i] = tracks[i]
      /\ tracks'[n] = NewTracklet(next_id, dets[d])
    BY <1>1 DEF Positions
<1>3. tracks'[n].id = next_id
    BY <1>2 DEF NewTracklet
<1>4. ASSUME NEW h \in Holders'
      PROVE  \/ h = <<"track", n>> /\ IdOf(h)' = next_id
             \/ h \in Holders /\ IdOf(h)' = IdOf(h)
  <2>1. CASE h \in {<<"track", i>> : i \in Carriers'}
    <3>1. PICK i \in Carriers' : h = <<"track", i>>
      BY <2>1
    <3>2. CASE i = n
      BY <1>3, <3>1, <3>2 DEF IdOf
    <3>3. CASE i # n
      <4>1. i \in Carriers /\ tracks'[i] = tracks[i]
        BY <1>2, <3>3 DEF Carriers
      <4> QED
        BY <3>1, <4>1 DEF IdOf, Holders
    <3> QED
      BY <3>2, <3>3
  <2>2. CASE h \in {<<"gallery", g>> : g \in DOMAIN gallery'}
    BY <1>1, <2>2 DEF IdOf, Holders
  <2> QED
    BY <2>1, <2>2 DEF Holders
<1>5. \A h \in Holders : IdOf(h) \in Nat /\ IdOf(h) < next_id
    BY HolderIds DEF UniqueIdentity
<1>6. ASSUME NEW h \in Holders'
      PROVE  IdOf(h)' < next_id'
    BY <1>1, <1>4, <1>5
<1>7. ASSUME NEW g \in Holders', NEW h \in Holders', IdOf(g)' = IdOf(h)'
      PROVE  g = h
  <2>1. CASE g \in Holders /\ IdOf(g)' = IdOf(g) /\ h \in Holders /\ IdOf(h)' = IdOf(h)
    BY <1>7, <2>1 DEF UniqueIdentity
  <2> QED
    BY <1>1, <1>4, <1>5, <1>7, <2>1
<1> QED
    BY <1>6, <1>7 DEF UniqueIdentity

(* A death-bed hand-off: the heir gets the identity of the dead track,      *)
(* which is not a husk, because a husk has too few hits to be remembered.  *)
LEMMA HandOffInherits ==
    ASSUME TypeOK, GalleryMinHits >= 1, HandOff
    PROVE  Inherited
<1> USE ConfigAssumption
<1> DEFINE t == tracks[cursor]
           rest == SwapRemove(tracks, cursor)
           n == Len(tracks)
           origin(i) == IF i = cursor THEN n ELSE i
<1>1. /\ cursor \in Positions /\ next_id' = next_id /\ next_id \in Nat
      /\ gallery' = gallery
      /\ tracks \in Seq(Tracklet) /\ Len(tracks) \in Nat
      /\ Positions = 1 .. Len(tracks)
    BY DEF HandOff, Dying, TypeOK, Positions
<1>2. PICK j \in DOMAIN rest :
          /\ IsHeir(j, t, rest)
          /\ tracks' = [rest EXCEPT
                          ![j].id = t.id,
                          ![j].hits = Saturate(@ + t.hits, HitsBound),
                          ![j].claimed = TRUE]
    BY DEF HandOff
<1>3. /\ rest \in Seq(Tracklet) /\ DOMAIN rest = 1 .. n - 1
      /\ \A i \in 1 .. n - 1 : rest[i] = tracks[origin(i)]
    BY <1>1, SwapRemoveSeq DEF Positions
<1>4. Remembered(t) /\ rest[j].state # "Removed"
    BY <1>2 DEF IsHeir, Heirs
<1>5. t \in Tracklet
    BY <1>1
<1>6. cursor \in Carriers
  <2>1. t.hits >= GalleryMinHits
    BY <1>4 DEF Remembered
  <2>2. t.hits \in Nat
    BY <1>5 DEF Tracklet
  <2>3. t.hits # 0
    BY <2>1, <2>2
  <2> QED
    BY <1>1, <2>3 DEF Carriers, Husk
<1>7. /\ Positions' = 1 .. n - 1
      /\ \A i \in 1 .. n - 1 : i # j => tracks'[i] = tracks[origin(i)]
      /\ tracks'[j].id = t.id
  <2>1. rest[j] \in Tracklet
    <3> HIDE DEF rest
    <3> QED
      BY <1>3
  <2> HIDE DEF rest, t
  <2>2. DOMAIN tracks' = DOMAIN rest
    BY <1>2
  <2>3. \A i \in DOMAIN rest : i # j => tracks'[i] = rest[i]
    BY <1>2
  <2>4. tracks'[j].id = t.id
    BY <1>2, <2>1 DEF Tracklet
  <2> QED
    BY <1>3, <2>2, <2>3, <2>4 DEF Positions
<1>8. ASSUME NEW i \in Carriers', i # j
      PROVE  /\ origin(i) \in Carriers /\ origin(i) # cursor
             /\ IdOf(<<"track", i>>)' = tracks[origin(i)].id
  <2>1. i \in 1 .. n - 1 /\ ~Husk(tracks'[i])
    BY <1>7 DEF Carriers
  <2>2. tracks'[i] = tracks[origin(i)]
    BY <1>7, <1>8, <2>1
  <2>3. origin(i) \in Positions /\ origin(i) # cursor
    BY <1>1, <2>1
  <2> QED
    BY <2>1, <2>2, <2>3 DEF Carriers, IdOf
<1> DEFINE from(h) == IF h = <<"track", j>> THEN <<"track", cursor>>
                      ELSE IF h = <<"track", cursor>> THEN <<"track", n>>
                      ELSE h
           src == [h \in Holders' |-> from(h)]
<1>9. ASSUME NEW h \in Holders'
      PROVE  from(h) \in Holders /\ IdOf(h)' = IdOf(from(h))
  <2>1. CASE h \in {<<"track", i>> : i \in Carriers'}
    <3>1. PICK i \in Carriers' : h = <<"track", i>>
      BY <2>1
    <3>2. CASE i = j
      BY <1>6, <1>7, <3>1, <3>2 DEF IdOf, Holders
    <3>3. CASE i # j
      <4>1. from(h) = <<"track", origin(i)>>
        BY <3>1, <3>3
      <4> HIDE DEF from, origin
      <4> QED
        BY <1>8, <3>1, <3>3, <4>1 DEF IdOf, Holders
    <3> QED
      BY <3>2, <3>3
  <2>2. CASE h \in {<<"gallery", g>> : g \in DOMAIN gallery'}
    BY <1>1, <2>2 DEF IdOf, Holders
  <2> QED
    BY <2>1, <2>2 DEF Holders
<1>10. ASSUME NEW g \in Holders', NEW h \in Holders', from(g) = from(h)
       PROVE  g = h
  <2>1. <<"track", n>> \notin Holders'
    BY <1>1, <1>7 DEF Holders, Carriers
  <2> QED
    BY <1>10, <2>1
<1>11. /\ src \in [Holders' -> Holders]
       /\ \A h \in Holders' : IdOf(h)' = IdOf(src[h])
       /\ \A g, h \in Holders' : src[g] = src[h] => g = h
    BY <1>9, <1>10
<1>12. next_id' >= next_id
    BY <1>1
<1> HIDE DEF src
<1> QED
    BY <1>11, <1>12 DEF Inherited

(* A burial: the identity goes to the gallery, into an entry that already   *)
(* is the same object, or nowhere.                                         *)
LEMMA BuryInherits ==
    ASSUME TypeOK, GalleryMinHits >= 1, Bury
    PROVE  Inherited
<1> USE ConfigAssumption
<1> DEFINE t == tracks[cursor]
           rest == SwapRemove(tracks, cursor)
           n == Len(tracks)
           origin(i) == IF i = cursor THEN n ELSE i
           entry == [id |-> t.id, class |-> t.class, feat |-> t.feat,
                     removed_frame |-> frame]
<1>1. /\ cursor \in Positions /\ next_id' = next_id /\ next_id \in Nat
      /\ tracks \in Seq(Tracklet) /\ Len(tracks) \in Nat
      /\ Positions = 1 .. Len(tracks)
      /\ gallery \in Seq(GalleryEntry) /\ Len(gallery) \in Nat
      /\ DOMAIN gallery = 1 .. Len(gallery)
    BY DEF Bury, Dying, TypeOK, Positions
<1>2. tracks' = rest
    BY Zenon DEF Bury
<1>3. /\ Positions' = 1 .. n - 1
      /\ \A i \in 1 .. n - 1 : tracks'[i] = tracks[origin(i)]
    BY <1>1, <1>2, SwapRemoveSeq DEF Positions
<1>4. ASSUME NEW i \in Carriers'
      PROVE  /\ origin(i) \in Carriers /\ origin(i) # cursor
             /\ IdOf(<<"track", i>>)' = tracks[origin(i)].id
  <2>1. i \in 1 .. n - 1 /\ ~Husk(tracks'[i])
    BY <1>3 DEF Carriers
  <2>2. tracks'[i] = tracks[origin(i)]
    BY <1>3, <2>1
  <2>3. origin(i) \in Positions /\ origin(i) # cursor
    BY <1>1, <2>1
  <2> QED
    BY <2>1, <2>2, <2>3 DEF Carriers, IdOf
<1>5. ASSUME Remembered(t)
      PROVE  cursor \in Carriers
  <2>1. t.hits >= GalleryMinHits
    BY <1>5 DEF Remembered
  <2>2. t \in Tracklet
    BY <1>1
  <2>3. t.hits \in Nat
    BY <2>2 DEF Tracklet
  <2>4. t.hits # 0
    BY <2>1, <2>3
  <2> QED
    BY <1>1, <2>4 DEF Carriers, Husk
(* Where the id of each entry comes from: an entry of before, or the track. *)
<1> DEFINE Sourced ==
      \E heldBy \in [DOMAIN gallery' -> Holders] :
         /\ \A k \in DOMAIN gallery' : IdOf(<<"gallery", k>>)' = IdOf(heldBy[k])
         /\ \A k, l \in DOMAIN gallery' : heldBy[k] = heldBy[l] => k = l
         /\ \A k \in DOMAIN gallery', i \in Positions :
               heldBy[k] = <<"track", i>> => i = cursor
<1>6. Sourced
  <2>1. CASE gallery' = gallery
    <3> DEFINE f == [k \in DOMAIN gallery' |-> <<"gallery", k>>]
    <3>1. f \in [DOMAIN gallery' -> Holders]
      BY <2>1 DEF Holders
    <3>2. \A k \in DOMAIN gallery' : IdOf(<<"gallery", k>>)' = IdOf(f[k])
      BY <2>1 DEF IdOf
    <3> QED
      BY <3>1, <3>2
  <2>2. ASSUME Remembered(t), NEW k \in DOMAIN gallery,
               gallery' = [gallery EXCEPT
                  ![k] = [entry EXCEPT !.id = OlderId(gallery[k].id, t.id)]]
        PROVE  Sourced
    <3> DEFINE f == [l \in DOMAIN gallery' |->
                       IF l = k /\ t.id < gallery[k].id THEN <<"track", cursor>>
                       ELSE <<"gallery", l>>]
    <3>1. DOMAIN gallery' = DOMAIN gallery
      BY <2>2
    <3>2. f \in [DOMAIN gallery' -> Holders]
      BY <1>5, <2>2, <3>1 DEF Holders
    <3>3. ASSUME NEW l \in DOMAIN gallery'
          PROVE  IdOf(<<"gallery", l>>)' = IdOf(f[l])
      <4>1. CASE l # k
        <5>1. gallery'[l] = gallery[l] /\ f[l] = <<"gallery", l>>
          BY <2>2, <3>1, <4>1
        <5> HIDE DEF f
        <5> QED
          BY <5>1 DEF IdOf
      <4>2. CASE l = k
        <5>1. gallery'[l].id = OlderId(gallery[k].id, t.id)
          BY <2>2, <4>2
        <5>2. gallery[k].id \in Nat /\ t.id \in Nat
          <6>1. gallery[k] \in GalleryEntry /\ t \in Tracklet
            BY <1>1
          <6> QED
            BY <6>1 DEF GalleryEntry, Tracklet
        <5>3. CASE t.id < gallery[k].id
          <6>1. gallery'[l].id = t.id /\ f[l] = <<"track", cursor>>
            BY <4>2, <5>1, <5>2, <5>3 DEF OlderId
          <6> HIDE DEF f
          <6> QED
            BY <6>1 DEF IdOf
        <5>4. CASE ~(t.id < gallery[k].id)
          <6>1. gallery'[l].id = gallery[l].id /\ f[l] = <<"gallery", l>>
            BY <4>2, <5>1, <5>2, <5>4 DEF OlderId
          <6> HIDE DEF f
          <6> QED
            BY <6>1 DEF IdOf
        <5> QED
          BY <5>3, <5>4
      <4> QED
        BY <4>1, <4>2
    <3>4. \A l, m \in DOMAIN gallery' : f[l] = f[m] => l = m
      OBVIOUS
    <3>5. \A l \in DOMAIN gallery', i \in Positions :
             f[l] = <<"track", i>> => i = cursor
      OBVIOUS
    <3> HIDE DEF f
    <3> QED
      BY <3>2, <3>3, <3>4, <3>5
  <2>3. CASE Remembered(t) /\ gallery' = Append(gallery, entry)
    <3> DEFINE f == [l \in DOMAIN gallery' |->
                       IF l = Len(gallery) + 1 THEN <<"track", cursor>>
                       ELSE <<"gallery", l>>]
    <3>1. /\ DOMAIN gallery' = 1 .. Len(gallery) + 1
          /\ \A l \in DOMAIN gallery : gallery'[l] = gallery[l]
          /\ gallery'[Len(gallery) + 1] = entry
      BY <1>1, <2>3
    <3>2. f \in [DOMAIN gallery' -> Holders]
      BY <1>1, <1>5, <2>3, <3>1 DEF Holders
    <3>3. ASSUME NEW l \in DOMAIN gallery'
          PROVE  IdOf(<<"gallery", l>>)' = IdOf(f[l])
      <4>1. CASE l = Len(gallery) + 1
        BY <3>1, <4>1 DEF IdOf
      <4>2. CASE l # Len(gallery) + 1
        <5>1. gallery'[l] = gallery[l] /\ f[l] = <<"gallery", l>>
          BY <1>1, <3>1, <4>2
        <5> HIDE DEF f
        <5> QED
          BY <5>1 DEF IdOf
      <4> QED
        BY <4>1, <4>2
    <3>4. \A l, m \in DOMAIN gallery' : f[l] = f[m] => l = m
      OBVIOUS
    <3>5. \A l \in DOMAIN gallery', i \in Positions :
             f[l] = <<"track", i>> => i = cursor
      OBVIOUS
    <3> HIDE DEF f
    <3> QED
      BY <3>2, <3>3, <3>4, <3>5
  <2>4. \/ gallery' = gallery
        \/ Remembered(t) /\ \E k \in DOMAIN gallery :
               gallery' = [gallery EXCEPT
                  ![k] = [entry EXCEPT !.id = OlderId(gallery[k].id, t.id)]]
        \/ Remembered(t) /\ gallery' = Append(gallery, entry)
    BY DEF Bury
  <2> HIDE DEF Sourced, entry
  <2> QED
    BY <2>1, <2>2, <2>3, <2>4
<1>7. PICK heldBy \in [DOMAIN gallery' -> Holders] :
         /\ \A k \in DOMAIN gallery' : IdOf(<<"gallery", k>>)' = IdOf(heldBy[k])
         /\ \A k, l \in DOMAIN gallery' : heldBy[k] = heldBy[l] => k = l
         /\ \A k \in DOMAIN gallery', i \in Positions :
               heldBy[k] = <<"track", i>> => i = cursor
    BY <1>6
<1> DEFINE src == [h \in Holders' |->
                     IF h[1] = "track" THEN <<"track", origin(h[2])>>
                                       ELSE heldBy[h[2]]]
<1>8. ASSUME NEW h \in Holders'
      PROVE  /\ src[h] \in Holders /\ IdOf(h)' = IdOf(src[h])
             /\ \/ /\ h[1] = "track" /\ h[2] \in Carriers' /\ h = <<"track", h[2]>>
                   /\ src[h] = <<"track", origin(h[2])>>
                \/ /\ h[1] = "gallery" /\ h[2] \in DOMAIN gallery'
                   /\ h = <<"gallery", h[2]>> /\ src[h] = heldBy[h[2]]
  <2>1. CASE h \in {<<"track", i>> : i \in Carriers'}
    <3>1. PICK i \in Carriers' : h = <<"track", i>>
      BY <2>1
    <3>2. src[h] = <<"track", origin(i)>> /\ h[1] = "track" /\ h[2] = i
      BY <3>1
    <3> HIDE DEF src, origin
    <3> QED
      BY <1>4, <3>1, <3>2 DEF IdOf, Holders
  <2>2. CASE h \in {<<"gallery", g>> : g \in DOMAIN gallery'}
    <3>1. PICK g \in DOMAIN gallery' : h = <<"gallery", g>>
      BY <2>2
    <3>2. src[h] = heldBy[g] /\ h[1] = "gallery" /\ h[2] = g
      BY <3>1
    <3> HIDE DEF src
    <3> QED
      BY <1>7, <3>1, <3>2
  <2> QED
    BY <2>1, <2>2 DEF Holders
<1>9. ASSUME NEW g \in Holders', NEW h \in Holders', src[g] = src[h]
      PROVE  g = h
  <2>1. \A i, j \in Carriers' : origin(i) = origin(j) => i = j
    BY <1>1, <1>3 DEF Carriers
  <2>2. \A i \in Carriers', k \in DOMAIN gallery' :
           <<"track", origin(i)>> # heldBy[k]
    BY <1>4, <1>7 DEF Carriers
  <2> HIDE DEF src, origin
  <2> QED
    BY <1>7, <1>8, <1>9, <2>1, <2>2
<1>10. /\ src \in [Holders' -> Holders]
       /\ \A h \in Holders' : IdOf(h)' = IdOf(src[h])
       /\ \A g, h \in Holders' : src[g] = src[h] => g = h
  <2>1. \A h \in Holders' : src[h] \in Holders
    BY <1>8
  <2>2. src \in [Holders' -> Holders]
    BY <2>1
  <2> QED
    BY <1>8, <1>9, <2>2
<1>11. next_id' >= next_id
    BY <1>1
<1> HIDE DEF src
<1> QED
    BY <1>10, <1>11 DEF Inherited

(* Expiry and eviction keep a subsequence of the gallery.                  *)
LEMMA EndFrameInherits ==
    ASSUME TypeOK, EndFrame
    PROVE  Inherited
<1>1. PICK f \in [1 .. Cardinality(Retained) -> Retained] :
          /\ \A a, b \in DOMAIN f : a < b => f[a] < f[b]
          /\ gallery' = [a \in DOMAIN f |-> gallery[f[a]]]
    BY DEF EndFrame
<1>2. /\ Retained \subseteq DOMAIN gallery
      /\ DOMAIN gallery = 1 .. Len(gallery) /\ Len(gallery) \in Nat
      /\ tracks' = tracks /\ next_id' = next_id /\ next_id \in Nat
      /\ Carriers' = Carriers
    BY DEF EndFrame, Retained, TypeOK, Carriers, Positions
<1>3. \A a, b \in DOMAIN f : f[a] = f[b] => a = b
  <2>1. DOMAIN f \subseteq Int /\ \A a \in DOMAIN f : f[a] \in Int
    BY <1>2
  <2> QED
    BY <1>1, <2>1
<1> DEFINE from(h) == IF h[1] = "track" THEN h ELSE <<"gallery", f[h[2]]>>
           src == [h \in Holders' |-> from(h)]
<1>4. ASSUME NEW h \in Holders'
      PROVE  /\ src[h] \in Holders /\ IdOf(h)' = IdOf(src[h])
             /\ \/ h[1] = "track" /\ src[h] = h
                \/ /\ h[1] = "gallery" /\ h[2] \in DOMAIN f
                   /\ h = <<"gallery", h[2]>> /\ src[h] = <<"gallery", f[h[2]]>>
  <2>1. CASE h \in {<<"track", i>> : i \in Carriers'}
    <3>1. PICK i \in Carriers' : h = <<"track", i>>
      BY <2>1
    <3>2. src[h] = h
      BY <3>1
    <3> HIDE DEF src
    <3> QED
      BY <1>2, <3>1, <3>2 DEF IdOf, Holders
  <2>2. CASE h \in {<<"gallery", g>> : g \in DOMAIN gallery'}
    <3>1. PICK g \in DOMAIN gallery' : h = <<"gallery", g>>
      BY <2>2
    <3>2. g \in DOMAIN f /\ gallery'[g] = gallery[f[g]] /\ f[g] \in DOMAIN gallery
      BY <1>1, <1>2, <3>1
    <3>3. src[h] = <<"gallery", f[g]>>
      BY <3>1
    <3> HIDE DEF src
    <3> QED
      BY <3>1, <3>2, <3>3 DEF IdOf, Holders
  <2> QED
    BY <2>1, <2>2 DEF Holders
<1>5. ASSUME NEW g \in Holders', NEW h \in Holders', src[g] = src[h]
      PROVE  g = h
  <2> HIDE DEF src
  <2> QED
    BY <1>3, <1>4, <1>5
<1>6. src \in [Holders' -> Holders]
  <2>1. \A h \in Holders' : src[h] \in Holders
    BY <1>4
  <2> QED
    BY <2>1
<1>7. next_id' >= next_id
    BY <1>2
<1> HIDE DEF src
<1> QED
    BY <1>4, <1>5, <1>6, <1>7 DEF Inherited

(* The remaining steps touch neither vector.                               *)
LEMMA IdleInherits ==
    ASSUME TypeOK, UNCHANGED <<tracks, gallery, next_id>>
    PROVE  Inherited
<1>1. next_id \in Nat /\ Positions' = Positions
    BY DEF TypeOK, Positions
<1> QED
    BY <1>1, CalmInherits

LEMMA PoolAliveStep == TypeOK /\ PoolAlive /\ [Next]_vars => PoolAlive'
<1> SUFFICES ASSUME TypeOK, PoolAlive, [Next]_vars, NEW i \in u_pool',
                    phase' \in {"stage1", "reid", "stage2"}
             PROVE  tracks'[i].state \in {"Confirmed", "Lost"}
    BY DEF PoolAlive
<1>1. \A k \in Positions : tracks[k] \in Tracklet
    BY DEF TypeOK, Positions
<1>2. ASSUME NEW ds, BeginFrame(ds)
      PROVE  tracks'[i].state \in {"Confirmed", "Lost"}
  <2>1. i \in Positions /\ tracks[i].state \in {"Confirmed", "Lost"}
    BY <1>2 DEF BeginFrame, Pool
  <2>2. tracks'[i] = Predict(tracks[i])
    BY <1>2, <2>1 DEF BeginFrame
  <2> QED
    BY <1>1, <2>1, <2>2 DEF Predict, Tracklet
<1>3. CASE Stage1 \/ ReidStage
  <2>1. PICK m \in Assignments(u_pool, u_high) : \E bank \in Banks(m) :
            /\ tracks' = CorrectStrong(m, bank)
            /\ u_pool' = u_pool \ DOMAIN m
    BY <1>3 DEF Stage1, ReidStage
  <2>2. u_pool \in SUBSET Positions /\ u_high \in SUBSET DOMAIN dets
    BY DEF TypeOK
  <2>3. PICK bank \in Banks(m) : /\ tracks' = CorrectStrong(m, bank)
                                 /\ u_pool' = u_pool \ DOMAIN m
    BY <2>1
  <2>4. i \in u_pool /\ i \in Positions /\ i \notin DOMAIN m
    BY <2>2, <2>3
  <2>5. tracks'[i] = tracks[i]
    <3>1. CorrectStrong(m, bank)[i] = tracks[i]
      BY <2>4 DEF CorrectStrong
    <3> QED
      BY <2>3, <3>1
  <2> QED
    BY <1>3, <2>4, <2>5 DEF PoolAlive, Stage1, ReidStage
<1>4. CASE UNCHANGED vars \/ Reset
    BY <1>4 DEF PoolAlive, vars, Reset, TypeOK
<1>5. CASE Stage2 \/ Stage3
    BY <1>5 DEF Stage2, Stage3
<1>6. CASE MergePhase
    BY <1>6 DEF MergePhase, Merge, MergeNone, MergeDone
<1>7. CASE BirthPhase
    BY <1>7 DEF BirthPhase, NoBirth, Resurrect, Mint, BirthDone, NextBirth
<1>8. CASE ReapPhase
    BY <1>8 DEF ReapPhase, Keep, HandOff, Bury, EndFrame, Dying
<1> QED
    BY <1>2, <1>3, <1>4, <1>5, <1>6, <1>7, <1>8 DEF Next, Step

LEMMA UniqueStep ==
    ASSUME GalleryMinHits >= 1
    PROVE  TypeOK /\ IdentityInv /\ [Next]_vars => UniqueIdentity'
<1> SUFFICES ASSUME TypeOK, IdentityInv, [Next]_vars
             PROVE  UniqueIdentity'
    OBVIOUS
<1>1. TypeOK' /\ PoolAlive /\ UniqueIdentity
    BY TypeStep DEF IdentityInv
<1>2. ASSUME Inherited PROVE UniqueIdentity'
    BY <1>1, <1>2, InheritedUnique
<1>3. CASE Reset
  <2>1. Holders' = {}
    BY <1>3 DEF Reset, Holders, Carriers, Positions
  <2> QED
    BY <2>1 DEF UniqueIdentity
<1>4. CASE \E ds \in Frames : BeginFrame(ds)
    BY <1>2, <1>4, FrameInherits
<1>5. CASE Stage1 \/ ReidStage \/ Stage2 \/ Stage3
    BY <1>1, <1>2, <1>5, StageInherits
<1>6. CASE MergePhase
  <2>1. CASE Merge
    BY <1>2, <2>1, MergeInherits
  <2>2. CASE MergeNone \/ MergeDone
    BY <1>2, <2>2, IdleInherits DEF MergeNone, MergeDone
  <2> QED
    BY <1>6, <2>1, <2>2 DEF MergePhase
<1>7. CASE BirthPhase
  <2>1. ASSUME NEW d \in u_high, Resurrect(d) PROVE UniqueIdentity'
    BY <1>2, <2>1, ResurrectInherits
  <2>2. ASSUME NEW d \in u_high, Mint(d) PROVE UniqueIdentity'
    BY <1>1, <2>2, MintUnique
  <2>3. CASE BirthDone \/ \E d \in u_high : NoBirth(d)
    BY <1>2, <2>3, IdleInherits DEF NoBirth, BirthDone
  <2> QED
    BY <1>7, <2>1, <2>2, <2>3 DEF BirthPhase
<1>8. CASE ReapPhase
  <2>1. CASE Keep
    BY <1>2, <2>1, IdleInherits DEF Keep
  <2>2. CASE HandOff
    BY <1>2, <2>2, HandOffInherits
  <2>3. CASE Bury
    BY <1>2, <2>3, BuryInherits
  <2>4. CASE EndFrame
    BY <1>2, <2>4, EndFrameInherits
  <2> QED
    BY <1>8, <2>1, <2>2, <2>3, <2>4 DEF ReapPhase
<1>9. CASE UNCHANGED vars
    BY <1>2, <1>9, IdleInherits DEF vars
<1> QED
    BY <1>3, <1>4, <1>5, <1>6, <1>7, <1>8, <1>9 DEF Next, Step

(* At every point of every frame an identity has one holder, for every     *)
(* configuration in which a track must have matched to be remembered.      *)
THEOREM StableIdentity ==
    ASSUME GalleryMinHits >= 1
    PROVE  Spec => []UniqueIdentity
<1>1. Init => IdentityInv
    BY DEF Init, IdentityInv, PoolAlive, UniqueIdentity, Holders, Carriers,
           Positions
<1>2. TypeOK /\ IdentityInv /\ [Next]_vars => IdentityInv'
    BY PoolAliveStep, UniqueStep DEF IdentityInv
<1>3. IdentityInv => UniqueIdentity
    BY DEF IdentityInv
<1> QED
    BY <1>1, <1>2, <1>3, TypeCorrect, PTL DEF Spec

-----------------------------------------------------------------------------
(***************************************************************************)
(* What one call of the tracker's update leaves behind, proved for all     *)
(* values of the constants: a detection serves one track, the pool is      *)
(* settled, the gallery is bounded and ids only move toward older values.  *)
(***************************************************************************)

-----------------------------------------------------------------------------
(* One detection, one track.                                               *)

(* Pairs whose rows and columns were not used yet keep the frame one to one. *)
LEMMA FreshPairs ==
    ASSUME OneDetectionOneTrack,
           NEW rows, NEW cols, NEW m \in Assignments(rows, cols),
           \A p \in used : p[1] \notin rows /\ p[2] \notin cols,
           used' = used \cup Pairs(m)
    PROVE  OneDetectionOneTrack'
<1> SUFFICES ASSUME NEW p \in used', NEW q \in used', p[1] = q[1] \/ p[2] = q[2]
             PROVE  p = q
    BY DEF OneDetectionOneTrack
<1>1. \A r \in Pairs(m) : r[1] \in rows /\ r[2] \in cols
    BY AssignmentPairs
<1>2. \A r, s \in Pairs(m) : r[1] = s[1] \/ r[2] = s[2] => r = s
    BY AssignmentPairs DEF Pairs
<1>3. \A r, s \in used : r[1] = s[1] \/ r[2] = s[2] => r = s
    BY DEF OneDetectionOneTrack
<1> QED
    BY <1>1, <1>2, <1>3

(* The matched column set shrinks with what was taken from it.             *)
LEMMA TakenLeaves ==
    ASSUME NEW rows, NEW cols, NEW m \in Assignments(rows, cols),
           NEW p \in Pairs(m)
    PROVE  p[1] \in DOMAIN m /\ p[2] \in Range(m) /\ p[1] \in rows /\ p[2] \in cols
BY AssignmentPairs DEF Pairs, Range

(* The state a match leaves a track in.                                    *)
LEMMA MatchedState ==
    ASSUME NEW t \in Tracklet, NEW d \in Detection, NEW f
    PROVE  /\ Taken(Update(t, d)) /\ Taken(UpdateStrong(t, d, f))
           /\ t.state \in {"Confirmed", "Lost"} =>
                 /\ Update(t, d).state = "Confirmed"
                 /\ UpdateStrong(t, d, f).state = "Confirmed"
           /\ t.state = "Tentative" =>
                 UpdateStrong(t, d, f).state \in {"Tentative", "Confirmed"}
<1>1. Update(t, d).matched = TRUE /\ Update(t, d).tsu = 0
    BY DEF Update, Tracklet
<1>2. Update(t, d).state = IF \/ t.state = "Tentative" /\ t.hits + 1 >= MinHits
                              \/ t.state = "Lost"
                           THEN "Confirmed" ELSE t.state
    BY DEF Update, Tracklet
<1>3. /\ UpdateStrong(t, d, f).matched = Update(t, d).matched
      /\ UpdateStrong(t, d, f).tsu = Update(t, d).tsu
      /\ UpdateStrong(t, d, f).state = Update(t, d).state
    BY DEF UpdateStrong, Update, Tracklet
<1> QED
    BY <1>1, <1>2, <1>3 DEF Taken

LEMMA SpentStages ==
    ASSUME TypeOK, PoolAlive, DetectionInv,
           Stage1 \/ ReidStage \/ Stage2 \/ Stage3
    PROVE  DetectionInv'
<1>0. /\ u_pool \in SUBSET Positions /\ u_high \in SUBSET DOMAIN dets
      /\ used \subseteq Positions \X DOMAIN dets
      /\ \A i \in Positions : tracks[i] \in Tracklet
      /\ \A d \in DOMAIN dets : dets[d] \in Detection
      /\ High(dets) \cap Low(dets) = {}
  <2>1. \A d \in DOMAIN dets : dets[d] \in Detection
    BY DEF TypeOK
  <2>2. \A d \in DOMAIN dets : dets[d].score \in Nat
    BY <2>1, ScoreAssumption DEF Detection
  <2>3. High(dets) \cap Low(dets) = {}
    BY <2>2, ScoreAssumption DEF High, Low
  <2> QED
    BY <2>1, <2>3 DEF TypeOK, Positions
<1>1. ASSUME Stage1 \/ ReidStage
      PROVE  DetectionInv'
  <2>1. PICK m \in Assignments(u_pool, u_high) : \E bank \in Banks(m) :
                /\ tracks' = CorrectStrong(m, bank)
                /\ u_pool' = u_pool \ DOMAIN m
                /\ u_high' = u_high \ Range(m)
                /\ used' = used \cup Pairs(m)
    BY <1>1 DEF Stage1, ReidStage
  <2>2. PICK bank \in Banks(m) : tracks' = CorrectStrong(m, bank)
    BY <2>1
  <2>3. /\ phase \in {"stage1", "reid"} /\ phase' \in {"reid", "stage2"}
        /\ dets' = dets
    BY <1>1 DEF Stage1, ReidStage
  <2>4. \A p \in used : /\ p[1] \notin u_pool /\ p[2] \notin u_high
                        /\ p[2] \in High(dets) /\ p[1] \in Positions
                        /\ tracks[p[1]].state # "Tentative"
    BY <1>0, <2>3 DEF DetectionInv, Spent
  <2>5. OneDetectionOneTrack'
    BY <2>1, <2>4, FreshPairs DEF DetectionInv
  <2>6. ASSUME NEW p \in used'
        PROVE  /\ p[1] \notin u_pool' /\ p[2] \notin u_high'
               /\ p[2] \in High(dets) /\ tracks'[p[1]].state # "Tentative"
    <3>1. CASE p \in Pairs(m)
      <4>1. /\ p[1] \in DOMAIN m /\ p[2] \in Range(m) /\ p[1] \in u_pool
            /\ p[2] \in u_high /\ m[p[1]] \in DOMAIN dets
        BY <1>0, <3>1, TakenLeaves, AssignmentPairs
      <4>2. tracks'[p[1]] = UpdateStrong(tracks[p[1]], dets[m[p[1]]], bank[p[1]])
        BY <1>0, <2>2, <4>1 DEF CorrectStrong
      <4>3. tracks[p[1]].state \in {"Confirmed", "Lost"}
        BY <2>3, <4>1 DEF PoolAlive
      <4>4. tracks'[p[1]].state = "Confirmed"
        BY <1>0, <4>1, <4>2, <4>3, MatchedState
      <4> QED
        BY <2>1, <4>1, <4>4 DEF DetectionInv, Spent
    <3>2. CASE p \in used
      <4>1. p[1] \notin DOMAIN m
        BY <2>4, <3>2, AssignmentPairs
      <4>2. tracks'[p[1]] = tracks[p[1]]
        BY <2>2, <2>4, <3>2, <4>1 DEF CorrectStrong
      <4> QED
        BY <2>1, <2>4, <3>2, <4>2
    <3> QED
      BY <2>1, <3>1, <3>2
  <2>7. u_high' \subseteq High(dets)
    BY <2>1 DEF DetectionInv, Spent
  <2> QED
    BY <2>3, <2>5, <2>6, <2>7 DEF DetectionInv, Spent, High
<1>2. CASE Stage2
  <2>1. PICK m \in Assignments(u_pool, Low(dets)) :
          /\ tracks' = [i \in Positions |->
                          IF i \in DOMAIN m THEN Update(tracks[i], dets[m[i]])
                          ELSE IF i \in u_pool THEN MarkMissed(tracks[i])
                          ELSE tracks[i]]
          /\ used' = used \cup Pairs(m)
    BY <1>2 DEF Stage2
  <2>2. phase = "stage2" /\ phase' = "stage3" /\ dets' = dets /\ u_high' = u_high
    BY <1>2 DEF Stage2
  <2>3. \A p \in used : /\ p[1] \notin u_pool /\ p[2] \notin Low(dets)
                        /\ p[2] \notin u_high /\ p[1] \in Positions
                        /\ tracks[p[1]].state # "Tentative"
    BY <1>0, <2>2 DEF DetectionInv, Spent
  <2>4. OneDetectionOneTrack'
    BY <2>1, <2>3, FreshPairs DEF DetectionInv
  <2>5. ASSUME NEW p \in used'
        PROVE  p[2] \notin u_high /\ tracks'[p[1]].state # "Tentative"
    <3>1. CASE p \in Pairs(m)
      <4>1. p[1] \in DOMAIN m /\ p[1] \in u_pool /\ p[2] \in Low(dets)
            /\ m[p[1]] \in Low(dets)
        BY <3>1, TakenLeaves, AssignmentPairs
      <4>2. tracks'[p[1]] = Update(tracks[p[1]], dets[m[p[1]]])
        BY <1>0, <2>1, <4>1
      <4>3. tracks[p[1]].state \in {"Confirmed", "Lost"}
        BY <2>2, <4>1 DEF PoolAlive
      <4>4. tracks[p[1]] \in Tracklet /\ dets[m[p[1]]] \in Detection
        BY <1>0, <4>1 DEF Low
      <4>5. tracks'[p[1]].state = "Confirmed"
        BY <4>2, <4>3, <4>4, MatchedState
      <4> QED
        BY <1>0, <4>1, <4>5 DEF DetectionInv, Spent
    <3>2. CASE p \in used
      <4>1. p[1] \notin DOMAIN m /\ p[1] \notin u_pool /\ p[1] \in Positions
        BY <2>3, <3>2, AssignmentPairs
      <4>2. tracks'[p[1]] = tracks[p[1]]
        BY <2>1, <4>1
      <4> QED
        BY <2>3, <3>2, <4>2
    <3> QED
      BY <2>1, <3>1, <3>2
  <2> QED
    BY <2>2, <2>4, <2>5 DEF DetectionInv, Spent, High
<1>3. CASE Stage3
  <2>1. PICK m \in Assignments(Unconfirmed, u_high) :
          /\ u_high' = u_high \ Range(m)
          /\ used' = used \cup Pairs(m)
    BY <1>3 DEF Stage3
  <2>2. phase = "stage3" /\ phase' = "merge" /\ dets' = dets
    BY <1>3 DEF Stage3
  <2>3. \A p \in used : p[1] \notin Unconfirmed /\ p[2] \notin u_high
    BY <2>2 DEF DetectionInv, Spent, Unconfirmed
  <2>4. OneDetectionOneTrack'
    BY <2>1, <2>3, FreshPairs DEF DetectionInv
  <2>5. ASSUME NEW p \in used'
        PROVE  p[2] \notin u_high'
    <3>1. CASE p \in Pairs(m)
      BY <2>1, <3>1, TakenLeaves
    <3>2. CASE p \in used
      BY <2>1, <2>3, <3>2
    <3> QED
      BY <2>1, <3>1, <3>2
  <2> QED
    BY <2>1, <2>2, <2>4, <2>5 DEF DetectionInv, Spent, High
<1> QED
    BY <1>1, <1>2, <1>3

LEMMA DetectionStep ==
    TypeOK /\ PoolAlive /\ DetectionInv /\ [Next]_vars => DetectionInv'
<1> SUFFICES ASSUME TypeOK, PoolAlive, DetectionInv, [Next]_vars
             PROVE  DetectionInv'
    OBVIOUS
<1>1. CASE Reset \/ UNCHANGED vars
  <2>1. /\ UNCHANGED <<phase, dets, u_pool, u_high, used>>
        /\ used = {} \/ tracks' = tracks
    BY <1>1 DEF Reset, vars, TypeOK
  <2> QED
    BY <2>1 DEF DetectionInv, Spent, OneDetectionOneTrack, High
<1>2. ASSUME NEW ds, BeginFrame(ds)
      PROVE  DetectionInv'
    BY <1>2 DEF BeginFrame, TypeOK, DetectionInv, Spent, OneDetectionOneTrack
<1>3. CASE Stage1 \/ ReidStage \/ Stage2 \/ Stage3
    BY <1>3, SpentStages
<1>4. CASE MergePhase
  <2>1. /\ UNCHANGED <<dets, u_pool, u_high, used>>
        /\ phase' \in {"merge", "birth"}
    BY <1>4 DEF MergePhase, Merge, MergeNone, MergeDone
  <2> QED
    BY <2>1 DEF DetectionInv, Spent, OneDetectionOneTrack, High
<1>5. CASE BirthPhase
  <2>1. /\ phase' \in {"birth", "reap"} /\ u_high' \subseteq u_high /\ dets' = dets
        /\ \/ used' = used
           \/ used' = {}
           \/ \E d \in u_high : /\ used' = used \cup {<<Len(tracks) + 1, d>>}
                                /\ u_high' = u_high \ {d}
    BY <1>5 DEF BirthPhase, NoBirth, Resurrect, Mint, BirthDone, NextBirth
  <2>2. ASSUME NEW d \in u_high, used' = used \cup {<<Len(tracks) + 1, d>>},
               u_high' = u_high \ {d}
        PROVE  /\ \A p \in used' : p[2] \notin u_high'
               /\ OneDetectionOneTrack'
    <3>1. \A p \in used : p[1] # Len(tracks) + 1 /\ p[2] # d
      BY DEF TypeOK, DetectionInv, Spent, Positions
    <3> QED
      BY <2>2, <3>1 DEF DetectionInv, Spent, OneDetectionOneTrack
  <2>3. u_high' \subseteq High(dets)' /\ \A p \in used' : p[2] \notin u_high'
    BY <2>1, <2>2 DEF DetectionInv, Spent, High
  <2>4. OneDetectionOneTrack'
    BY <2>1, <2>2 DEF DetectionInv, OneDetectionOneTrack
  <2> QED
    BY <2>1, <2>3, <2>4 DEF DetectionInv, Spent
<1>6. CASE ReapPhase
  <2>1. /\ u_high' = {} /\ used' = {}
        /\ phase' \in {"reap", "idle"}
    BY <1>6 DEF ReapPhase, Keep, HandOff, Bury, EndFrame, Dying, TypeOK
  <2> QED
    BY <2>1 DEF DetectionInv, Spent, OneDetectionOneTrack
<1> QED
    BY <1>1, <1>2, <1>3, <1>4, <1>5, <1>6 DEF Next, Step

(* In every frame a detection corrects or founds at most one track and a   *)
(* track takes at most one detection, over the four stages and the births  *)
(* of Tracker::step together.                                              *)
THEOREM OneToOne == Spec => []OneDetectionOneTrack
<1>1. Init => PoolAlive /\ DetectionInv
    BY DEF Init, PoolAlive, DetectionInv, Spent, OneDetectionOneTrack
<1>2. TypeOK /\ PoolAlive /\ DetectionInv /\ [Next]_vars
        => PoolAlive' /\ DetectionInv'
    BY PoolAliveStep, DetectionStep
<1>3. DetectionInv => OneDetectionOneTrack
    BY DEF DetectionInv
<1> QED
    BY <1>1, <1>2, <1>3, TypeCorrect, PTL DEF Spec

-----------------------------------------------------------------------------
(* What a call leaves behind: a settled pool and a bounded gallery.        *)

LEMMA PredictedState ==
    ASSUME NEW t \in Tracklet
    PROVE  Missed(Predict(t)) /\ Predict(t).state = t.state
<1>1. t.tsu \in Nat
    BY DEF Tracklet
<1>2. Predict(t).matched = FALSE /\ Predict(t).tsu = t.tsu + 1
      /\ Predict(t).state = t.state
    BY DEF Predict, Tracklet
<1> QED
    BY <1>1, <1>2 DEF Missed

LEMMA MissedState ==
    ASSUME NEW t \in Tracklet
    PROVE  /\ Missed(t) => Missed(MarkMissed(t))
           /\ t.state \in {"Confirmed", "Lost"} => MarkMissed(t).state = "Lost"
           /\ t.state = "Tentative" => MarkMissed(t).state = "Removed"
<1>1. /\ MarkMissed(t).matched = t.matched /\ MarkMissed(t).tsu = t.tsu
      /\ MarkMissed(t).state = CASE t.state = "Confirmed" -> "Lost"
                                 [] t.state = "Tentative" -> "Removed"
                                 [] OTHER -> t.state
    BY DEF MarkMissed, Tracklet
<1> QED
    BY <1>1 DEF Missed

LEMMA LifeFrame == TypeOK /\ LifeInv /\ (\E ds : BeginFrame(ds)) => LifeInv'
<1> SUFFICES ASSUME TypeOK, LifeInv, NEW ds, BeginFrame(ds)
             PROVE  LifeInv'
    OBVIOUS
<1>1. phase = "idle" /\ phase' = "stage1" /\ u_pool' = Pool
    BY DEF BeginFrame
<1>2. Positions' = Positions
    BY DEF BeginFrame, Positions, TypeOK
<1>3. ASSUME NEW i \in Positions
      PROVE  \/ i \in u_pool' /\ Missed(tracks'[i])
             \/ tracks'[i].state = "Tentative" /\ Missed(tracks'[i])
  <2>1. tracks[i] \in Tracklet
    BY DEF TypeOK, Positions
  <2>2. tracks[i].state \in {"Tentative", "Confirmed", "Lost"}
    BY <1>1, <2>1 DEF LifeInv, PoolSettled, Tracklet, TrackState
  <2>3. tracks'[i] = Predict(tracks[i])
    BY <2>2 DEF BeginFrame
  <2> QED
    BY <1>1, <2>1, <2>2, <2>3, PredictedState DEF Pool
<1> QED
    BY <1>1, <1>2, <1>3 DEF LifeInv, PoolSettled, WhileMatching, BeforeBirths,
                            AfterMatching, ReapedSoFar

LEMMA LifeStages ==
    ASSUME TypeOK, PoolAlive, LifeInv, Stage1 \/ ReidStage \/ Stage2 \/ Stage3
    PROVE  LifeInv'
<1>0. /\ u_pool \in SUBSET Positions /\ u_high \in SUBSET DOMAIN dets
      /\ \A i \in Positions : tracks[i] \in Tracklet
      /\ \A d \in DOMAIN dets : dets[d] \in Detection
      /\ Low(dets) \subseteq DOMAIN dets
  <2>1. \A d \in DOMAIN dets : dets[d] \in Detection
    BY DEF TypeOK
  <2> QED
    BY <2>1 DEF TypeOK, Positions, Low
<1>1. ASSUME Stage1 \/ ReidStage
      PROVE  LifeInv'
  <2>1. PICK m \in Assignments(u_pool, u_high) : \E bank \in Banks(m) :
                /\ tracks' = CorrectStrong(m, bank)
                /\ u_pool' = u_pool \ DOMAIN m
    BY <1>1 DEF Stage1, ReidStage
  <2>2. PICK bank \in Banks(m) : tracks' = CorrectStrong(m, bank)
    BY <2>1
  <2>3. phase \in {"stage1", "reid"} /\ phase' \in {"reid", "stage2"}
    BY <1>1 DEF Stage1, ReidStage
  <2>4. Positions' = Positions
    BY <2>2 DEF CorrectStrong, Positions
  <2>5. ASSUME NEW i \in Positions
        PROVE  \/ i \in u_pool' /\ Missed(tracks'[i])
               \/ tracks'[i].state = "Tentative" /\ Missed(tracks'[i])
               \/ /\ tracks'[i].state = "Confirmed" /\ Taken(tracks'[i])
                  /\ i \notin u_pool'
    <3>1. CASE i \in DOMAIN m
      <4>1. i \in u_pool /\ m[i] \in DOMAIN dets
        BY <1>0, <3>1, AssignmentPairs
      <4>2. tracks'[i] = UpdateStrong(tracks[i], dets[m[i]], bank[i])
        BY <2>2, <3>1 DEF CorrectStrong
      <4>3. tracks[i].state \in {"Confirmed", "Lost"}
        BY <2>3, <4>1 DEF PoolAlive
      <4> QED
        BY <1>0, <2>1, <3>1, <4>1, <4>2, <4>3, MatchedState
    <3>2. CASE i \notin DOMAIN m
      <4>1. tracks'[i] = tracks[i]
        BY <2>2, <3>2 DEF CorrectStrong
      <4> QED
        BY <2>1, <2>3, <3>2, <4>1 DEF LifeInv, WhileMatching
    <3> QED
      BY <3>1, <3>2
  <2> QED
    BY <2>3, <2>4, <2>5 DEF LifeInv, PoolSettled, WhileMatching, BeforeBirths,
                            AfterMatching, ReapedSoFar
<1>2. CASE Stage2
  <2>1. PICK m \in Assignments(u_pool, Low(dets)) :
          tracks' = [i \in Positions |->
                          IF i \in DOMAIN m THEN Update(tracks[i], dets[m[i]])
                          ELSE IF i \in u_pool THEN MarkMissed(tracks[i])
                          ELSE tracks[i]]
    BY <1>2 DEF Stage2
  <2>2. phase = "stage2" /\ phase' = "stage3"
    BY <1>2 DEF Stage2
  <2>3. Positions' = Positions
    BY <2>1 DEF Positions
  <2>4. ASSUME NEW i \in Positions
        PROVE  /\ tracks'[i].state # "Removed"
               /\ tracks'[i].state = "Confirmed" => Taken(tracks'[i])
               /\ tracks'[i].state # "Confirmed" => Missed(tracks'[i])
    <3>1. CASE i \in DOMAIN m
      <4>1. i \in u_pool /\ m[i] \in DOMAIN dets
        BY <1>0, <3>1, AssignmentPairs
      <4>2. tracks'[i] = Update(tracks[i], dets[m[i]])
        BY <2>1, <3>1
      <4>3. tracks[i].state \in {"Confirmed", "Lost"}
        BY <2>2, <4>1 DEF PoolAlive
      <4> QED
        BY <1>0, <4>1, <4>2, <4>3, MatchedState
    <3>2. CASE i \notin DOMAIN m /\ i \in u_pool
      <4>1. tracks'[i] = MarkMissed(tracks[i])
        BY <2>1, <3>2
      <4>2. tracks[i].state \in {"Confirmed", "Lost"}
        BY <2>2, <3>2 DEF PoolAlive
      <4>4. Missed(tracks[i])
        BY <2>2, <3>2 DEF LifeInv, WhileMatching
      <4> QED
        BY <1>0, <4>1, <4>2, <4>4, MissedState
    <3>3. CASE i \notin DOMAIN m /\ i \notin u_pool
      <4>1. tracks'[i] = tracks[i]
        BY <2>1, <3>3
      <4> QED
        BY <2>2, <3>3, <4>1 DEF LifeInv, WhileMatching
    <3> QED
      BY <3>1, <3>2, <3>3
  <2> QED
    BY <2>2, <2>3, <2>4 DEF LifeInv, PoolSettled, WhileMatching, BeforeBirths,
                            AfterMatching, ReapedSoFar
<1>3. CASE Stage3
  <2>1. PICK m \in Assignments(Unconfirmed, u_high) : \E bank \in Banks(m) :
          tracks' = [i \in Positions |->
                          IF i \in DOMAIN m THEN CorrectStrong(m, bank)[i]
                          ELSE IF i \in Unconfirmed THEN MarkMissed(tracks[i])
                          ELSE tracks[i]]
    BY <1>3 DEF Stage3
  <2>2. PICK bank \in Banks(m) :
          tracks' = [i \in Positions |->
                          IF i \in DOMAIN m THEN CorrectStrong(m, bank)[i]
                          ELSE IF i \in Unconfirmed THEN MarkMissed(tracks[i])
                          ELSE tracks[i]]
    BY <2>1
  <2>3. phase = "stage3" /\ phase' = "merge"
    BY <1>3 DEF Stage3
  <2>4. Positions' = Positions
    BY <2>2 DEF Positions
  <2>5. ASSUME NEW i \in Positions
        PROVE  /\ tracks'[i].state \in {"Tentative", "Confirmed"} => Taken(tracks'[i])
               /\ tracks'[i].state = "Lost" => Missed(tracks'[i])
    <3>1. CASE i \in DOMAIN m
      <4>1. i \in Unconfirmed /\ m[i] \in DOMAIN dets
        BY <1>0, <3>1, AssignmentPairs
      <4>2. tracks'[i] = UpdateStrong(tracks[i], dets[m[i]], bank[i])
        BY <2>2, <3>1 DEF CorrectStrong
      <4>3. tracks[i].state = "Tentative"
        BY <4>1 DEF Unconfirmed
      <4> QED
        BY <1>0, <4>1, <4>2, <4>3, MatchedState
    <3>2. CASE i \notin DOMAIN m /\ i \in Unconfirmed
      <4>1. tracks'[i] = MarkMissed(tracks[i]) /\ tracks[i].state = "Tentative"
        BY <2>2, <3>2 DEF Unconfirmed
      <4> QED
        BY <1>0, <4>1, MissedState
    <3>3. CASE i \notin DOMAIN m /\ i \notin Unconfirmed
      <4>1. tracks'[i] = tracks[i]
        BY <2>2, <3>3
      <4>2. tracks[i].state # "Tentative"
        BY <3>3 DEF Unconfirmed
      <4> QED
        BY <2>3, <4>1, <4>2 DEF LifeInv, BeforeBirths
    <3> QED
      BY <3>1, <3>2, <3>3
  <2> QED
    BY <2>3, <2>4, <2>5 DEF LifeInv, PoolSettled, WhileMatching, BeforeBirths,
                            AfterMatching, ReapedSoFar
<1> QED
    BY <1>1, <1>2, <1>3

(* A decision about identity leaves the states of the tracks as they were, *)
(* but for the twin that is absorbed.                                      *)
LEMMA MergeKeepsLife ==
    ASSUME TypeOK, Merge
    PROVE  /\ Positions' = Positions
           /\ \A i \in Positions :
                 /\ tracks'[i].matched = tracks[i].matched
                 /\ tracks'[i].tsu = tracks[i].tsu
                 /\ tracks'[i].state \in {tracks[i].state, "Removed"}
<1> DEFINE y == tracks[cursor]
<1>1. PICK c \in OlderIdentities(y) :
             IF c.kind = "gallery" THEN ClaimGallery(cursor, c.at)
                                   ELSE ClaimTwin(cursor, c.at)
    BY DEF Merge
<1>2. \A i \in Positions : tracks[i] \in Tracklet
    BY DEF TypeOK, Positions
<1>3. CASE c.kind = "gallery"
  <2>1. tracks' = [tracks EXCEPT ![cursor].id = gallery[c.at].id,
                                 ![cursor].claimed = TRUE]
    BY <1>1, <1>3 DEF ClaimGallery
  <2> QED
    BY <1>2, <2>1 DEF Positions, Tracklet
<1>4. CASE c.kind # "gallery"
  <2> DEFINE j == c.at
             h == Saturate(tracks[cursor].hits + tracks[j].hits, HitsBound)
  <2>1. j \in Positions /\ tracks[j].state = "Lost" /\ cursor \in Positions
        /\ tracks[cursor].state = "Confirmed"
    BY <1>4, OlderCandidates DEF Merge, MayMerge
  <2>2. tracks' = [tracks EXCEPT
                    ![j].state = "Removed", ![j].hits = 0,
                    ![cursor].hits = Saturate(@ + tracks[j].hits, HitsBound),
                    ![cursor].id = tracks[j].id, ![cursor].claimed = TRUE]
    BY <1>1, <1>4 DEF ClaimTwin
  <2>3. j # cursor
    BY <2>1
  <2>4. tracks' = [tracks EXCEPT
                    ![j] = [tracks[j] EXCEPT !.state = "Removed", !.hits = 0],
                    ![cursor] = [tracks[cursor] EXCEPT
                                   !.hits = h, !.id = tracks[j].id,
                                   !.claimed = TRUE]]
    BY <2>1, <2>2, <2>3
  <2> HIDE DEF h
  <2> QED
    BY <1>2, <2>1, <2>3, <2>4 DEF Positions, Tracklet
<1> QED
    BY <1>3, <1>4

LEMMA LifeMerge == TypeOK /\ LifeInv /\ MergePhase => LifeInv'
<1> SUFFICES ASSUME TypeOK, LifeInv, MergePhase
             PROVE  LifeInv'
    OBVIOUS
<1>1. phase = "merge" /\ phase' \in {"merge", "birth"}
    BY DEF MergePhase, Merge, MergeNone, MergeDone
<1>2. /\ Positions' = Positions
      /\ \A i \in Positions :
            /\ tracks'[i].matched = tracks[i].matched
            /\ tracks'[i].tsu = tracks[i].tsu
            /\ tracks'[i].state \in {tracks[i].state, "Removed"}
    BY MergeKeepsLife DEF MergePhase, MergeNone, MergeDone, Positions
<1> QED
    BY <1>1, <1>2 DEF LifeInv, PoolSettled, WhileMatching, BeforeBirths,
                      AfterMatching, ReapedSoFar, Taken, Missed

LEMMA LifeBirth == TypeOK /\ LifeInv /\ BirthPhase => LifeInv'
<1> SUFFICES ASSUME TypeOK, LifeInv, BirthPhase
             PROVE  LifeInv'
    OBVIOUS
<1>1. /\ phase = "birth" /\ phase' \in {"birth", "reap"}
      /\ phase' = "reap" => cursor' = 1
    BY DEF BirthPhase, NoBirth, Resurrect, Mint, BirthDone, NextBirth
<1>2. ReapedSoFar'
    BY <1>1 DEF ReapedSoFar
<1>3. \/ tracks' = tracks
      \/ \E t : /\ tracks' = Append(tracks, t) /\ Taken(t)
                /\ t.state \in {"Tentative", "Confirmed"}
  <2>1. ASSUME NEW d \in u_high, Mint(d)
        PROVE  \E t : /\ tracks' = Append(tracks, t) /\ Taken(t)
                      /\ t.state \in {"Tentative", "Confirmed"}
    <3>1. LET t == NewTracklet(next_id, dets[d])
          IN  /\ tracks' = Append(tracks, t) /\ Taken(t)
              /\ t.state \in {"Tentative", "Confirmed"}
      BY <2>1 DEF Mint, NewTracklet, Taken
    <3> QED
      BY <3>1
  <2>2. ASSUME NEW d \in u_high, Resurrect(d)
        PROVE  \E t : /\ tracks' = Append(tracks, t) /\ Taken(t)
                      /\ t.state \in {"Tentative", "Confirmed"}
    <3>1. PICK c \in Returning(d) :
                 tracks' = Append(tracks, Resurrected(gallery[c.at].id, d))
      BY <2>2 DEF Resurrect
    <3> DEFINE t == Resurrected(gallery[c.at].id, d)
    <3>2. t.matched = TRUE /\ t.tsu = 0 /\ t.state = "Confirmed"
      BY DEF Resurrected, NewTracklet
    <3> HIDE DEF t
    <3> QED
      BY <3>1, <3>2 DEF Taken, t
  <2> QED
    BY <2>1, <2>2 DEF BirthPhase, NoBirth, BirthDone
<1>4. AfterMatching'
  <2>1. CASE tracks' = tracks
    BY <1>1, <2>1 DEF LifeInv, AfterMatching, Positions
  <2>2. ASSUME NEW t, tracks' = Append(tracks, t), Taken(t),
               t.state \in {"Tentative", "Confirmed"}
        PROVE  AfterMatching'
    <3>1. /\ Positions' = Positions \cup {Len(tracks) + 1}
          /\ \A i \in Positions : tracks'[i] = tracks[i]
          /\ tracks'[Len(tracks) + 1] = t
      BY <2>2 DEF TypeOK, Positions
    <3> QED
      BY <1>1, <2>2, <3>1 DEF LifeInv, AfterMatching
  <2> QED
    BY <1>3, <2>1, <2>2
<1> QED
    BY <1>1, <1>2, <1>4 DEF LifeInv, PoolSettled, WhileMatching, BeforeBirths

(* swap_remove at the cursor: the tracks before the cursor stay where they *)
(* are, and every track that is left was in the vector before.             *)
LEMMA SwapKeeps ==
    ASSUME TypeOK, cursor \in Positions
    PROVE  LET rest == SwapRemove(tracks, cursor)
           IN  /\ rest \in Seq(Tracklet)
               /\ \A i \in DOMAIN rest : \E k \in Positions : rest[i] = tracks[k]
               /\ \A i \in 1 .. cursor - 1 : i \in DOMAIN rest => rest[i] = tracks[i]
<1>1. /\ tracks \in Seq(Tracklet) /\ cursor \in DOMAIN tracks
      /\ Positions = 1 .. Len(tracks) /\ Len(tracks) \in Nat
    BY DEF TypeOK, Positions
<1>2. /\ SwapRemove(tracks, cursor) \in Seq(Tracklet)
      /\ DOMAIN SwapRemove(tracks, cursor) = 1 .. Len(tracks) - 1
      /\ \A k \in 1 .. Len(tracks) - 1 :
           SwapRemove(tracks, cursor)[k] = tracks[IF k = cursor THEN Len(tracks) ELSE k]
    BY <1>1, SwapRemoveSeq
<1> QED
    BY <1>1, <1>2

LEMMA LifeReap == TypeOK /\ LifeInv /\ ReapPhase => LifeInv'
<1> SUFFICES ASSUME TypeOK, LifeInv, ReapPhase
             PROVE  LifeInv'
    OBVIOUS
<1>0. phase = "reap" /\ \A i \in Positions : tracks[i] \in Tracklet
  <2>1. phase = "reap"
    BY Zenon DEF ReapPhase, Keep, HandOff, Bury, EndFrame, Dying
  <2> QED
    BY <2>1 DEF TypeOK, Positions
<1>1. CASE Keep
  <2>1. ~Expired(tracks[cursor]) /\ cursor' = cursor + 1 /\ cursor \in Nat
        /\ phase' = "reap" /\ tracks' = tracks
    BY <1>0, <1>1 DEF Keep, Dead, TypeOK
  <2>2. Positions' = Positions /\ \A i \in 1 .. cursor' - 1 : i \in 1 .. cursor - 1 \/ i = cursor
    BY <2>1 DEF Positions
  <2> QED
    BY <1>0, <2>1, <2>2 DEF LifeInv, PoolSettled, WhileMatching, BeforeBirths,
          AfterMatching, ReapedSoFar, Expired
<1>2. CASE HandOff \/ Bury
  <2> DEFINE rest == SwapRemove(tracks, cursor)
  <2>1. cursor \in Positions /\ cursor' = cursor /\ phase' = "reap"
    BY <1>0, <1>2 DEF HandOff, Bury, Dying
  <2>2. /\ rest \in Seq(Tracklet)
        /\ \A i \in DOMAIN rest : \E k \in Positions : rest[i] = tracks[k]
        /\ \A i \in 1 .. cursor - 1 : i \in DOMAIN rest => rest[i] = tracks[i]
    BY <2>1, SwapKeeps
  <2>3. /\ DOMAIN tracks' = DOMAIN rest
        /\ \A i \in DOMAIN rest : /\ tracks'[i].matched = rest[i].matched
                                 /\ tracks'[i].tsu = rest[i].tsu
                                 /\ tracks'[i].state = rest[i].state
    <3>1. CASE Bury
      BY <3>1 DEF Bury
    <3>2. CASE HandOff
      <4>1. PICK j \in DOMAIN rest :
                tracks' = [rest EXCEPT
                             ![j].id = tracks[cursor].id,
                             ![j].hits = Saturate(@ + tracks[cursor].hits, HitsBound),
                             ![j].claimed = TRUE]
        BY <3>2 DEF HandOff
      <4>2. PICK h : h = Saturate(rest[j].hits + tracks[cursor].hits, HitsBound)
        OBVIOUS
      <4>3. tracks' = [rest EXCEPT
                         ![j] = [rest[j] EXCEPT !.id = tracks[cursor].id,
                                                !.hits = h, !.claimed = TRUE]]
        BY <4>1, <4>2
      <4>4. \A i \in DOMAIN rest : rest[i] \in Tracklet
        BY <2>2
      <4> HIDE DEF rest
      <4> QED
        BY <4>1, <4>3, <4>4 DEF Tracklet
    <3> QED
      BY <1>2, <3>1, <3>2
  <2> HIDE DEF rest
  <2>4. AfterMatching'
    BY <1>0, <2>1, <2>2, <2>3 DEF LifeInv, AfterMatching, Positions, Taken, Missed
  <2>5. ReapedSoFar'
    <3>1. cursor \in Nat /\ cursor >= 1 /\ cursor - 1 <= Len(tracks)
      BY DEF TypeOK
    <3>2. \A i \in 1 .. cursor - 1 : i \in DOMAIN rest
      BY <2>1, SwapRemoveSeq, tracks \in Seq(Tracklet), 0 \in Nat
         DEF rest, TypeOK, Positions
    <3> QED
      BY <1>0, <2>1, <2>2, <2>3, <3>2 DEF LifeInv, ReapedSoFar, Expired
  <2> QED
    BY <2>1, <2>4, <2>5 DEF LifeInv, PoolSettled, WhileMatching, BeforeBirths
<1>3. CASE EndFrame
  <2>1. tracks' = tracks /\ phase' = "idle" /\ cursor \notin Positions
    BY <1>3 DEF EndFrame
  <2>2. \A i \in Positions : i \in 1 .. cursor - 1
    BY <2>1 DEF TypeOK, Positions
  <2>3. ASSUME NEW i \in Positions
        PROVE  /\ tracks[i].state # "Removed"
               /\ tracks[i].state = "Lost" <=> ~tracks[i].matched
               /\ tracks[i].state = "Lost" => tracks[i].tsu \in 1 .. TrackBuffer
               /\ tracks[i].matched => tracks[i].tsu = 0
    <3>1. ~Expired(tracks[i])
      BY <1>0, <2>2 DEF LifeInv, ReapedSoFar
    <3>2. /\ tracks[i].tsu \in Nat /\ tracks[i].matched \in BOOLEAN
          /\ tracks[i].state \in TrackState
      BY <1>0 DEF Tracklet
    <3>3. /\ tracks[i].state \in {"Tentative", "Confirmed"} => Taken(tracks[i])
          /\ tracks[i].state = "Lost" => Missed(tracks[i])
      BY <1>0 DEF LifeInv, AfterMatching
    <3> QED
      BY <3>1, <3>2, <3>3, ConfigAssumption DEF Expired, TrackState, Taken, Missed
  <2> QED
    BY <2>1, <2>3 DEF LifeInv, PoolSettled, WhileMatching, BeforeBirths,
          AfterMatching, ReapedSoFar, Positions
<1> QED
    BY <1>1, <1>2, <1>3 DEF ReapPhase

LEMMA LifeStep == TypeOK /\ PoolAlive /\ LifeInv /\ [Next]_vars => LifeInv'
<1> SUFFICES ASSUME TypeOK, PoolAlive, LifeInv, [Next]_vars
             PROVE  LifeInv'
    OBVIOUS
<1>1. CASE Reset
  <2>1. phase' = "idle" /\ Positions' = {}
    BY <1>1 DEF Reset, Positions
  <2> QED
    BY <2>1 DEF LifeInv, PoolSettled, WhileMatching, BeforeBirths,
                AfterMatching, ReapedSoFar
<1>2. CASE UNCHANGED vars
    BY <1>2 DEF vars, LifeInv, PoolSettled, WhileMatching, BeforeBirths,
                AfterMatching, ReapedSoFar, Positions, Missed, Taken
<1> QED
    BY <1>1, <1>2, LifeFrame, LifeStages, LifeMerge, LifeBirth, LifeReap
       DEF Next, Step

(* Fewer entries follow the first retained one than the cap allows, and     *)
(* every other retained entry is one of them.                              *)
LEMMA RetainedWithinCap ==
    ASSUME TypeOK
    PROVE  /\ IsFiniteSet(Retained)
           /\ Cardinality(Retained) \in Nat
           /\ \A from \in [1 .. Cardinality(Retained) -> Retained] :
                 (\A a, b \in DOMAIN from : a < b => from[a] < from[b])
                    => Cardinality(Retained) <= GalleryCap
<1> DEFINE n == Cardinality(Retained)
<1>1. /\ DOMAIN gallery = 1 .. Len(gallery) /\ Len(gallery) \in Nat
      /\ GalleryCap \in Nat
    BY ConfigAssumption DEF TypeOK
<1>2. IsFiniteSet(DOMAIN gallery)
    BY <1>1, FS_Interval, 1 \in Int, Len(gallery) \in Int
<1>3. IsFiniteSet(Retained) /\ n \in Nat
  <2>1. Retained \in SUBSET DOMAIN gallery
    BY DEF Retained
  <2>2. IsFiniteSet(Retained)
    BY <1>2, <2>1, FS_Subset
  <2> QED
    BY <2>2, FS_CardinalityType
<1>4. ASSUME NEW from \in [1 .. n -> Retained],
             \A a, b \in DOMAIN from : a < b => from[a] < from[b]
      PROVE  n <= GalleryCap
  <2>1. CASE n = 0
    BY <1>1, <2>1
  <2>2. CASE n >= 1
    <3> DEFINE later == {j \in DOMAIN gallery : j > from[1] /\ Fresh(j)}
               rest == [a \in 2 .. n |-> from[a]]
    <3>1. from[1] \in Retained
      BY <1>3, <2>2
    <3>2. Cardinality(later) < GalleryCap
      BY <3>1 DEF Retained
    <3>3. IsFiniteSet(later) /\ Cardinality(later) \in Nat
      <4>1. later \in SUBSET DOMAIN gallery
        OBVIOUS
      <4>2. IsFiniteSet(later)
        BY <1>2, <4>1, FS_Subset
      <4> QED
        BY <4>2, FS_CardinalityType
    <3>4. \A a \in 2 .. n : from[a] \in later
      <4>1. \A a \in 2 .. n : a \in DOMAIN from /\ 1 \in DOMAIN from /\ 1 < a
        BY <1>3, <2>2
      <4>2. \A a \in 2 .. n : from[1] < from[a] /\ from[a] \in Retained
        BY <1>4, <4>1
      <4>3. Retained \subseteq DOMAIN gallery /\ \A k \in Retained : Fresh(k)
        BY DEF Retained
      <4> QED
        BY <1>1, <3>1, <4>2, <4>3
    <3>5. rest \in Injection(2 .. n, later)
      <4>1. rest \in [2 .. n -> later]
        BY <3>4
      <4>2. ASSUME NEW a \in 2 .. n, NEW b \in 2 .. n, rest[a] = rest[b]
            PROVE  a = b
        <5>1. a \in DOMAIN from /\ b \in DOMAIN from /\ a \in Int /\ b \in Int
          BY <1>3
        <5>2. from[a] = from[b]
          BY <4>2
        <5>3. from[a] \in Int /\ from[b] \in Int
          <6>1. from[a] \in Retained /\ from[b] \in Retained
            BY <5>1
          <6>2. Retained \subseteq Int
            BY <1>1 DEF Retained
          <6> QED
            BY <6>1, <6>2
        <5> QED
          BY <1>4, <5>1, <5>2, <5>3
      <4> HIDE DEF rest
      <4> QED
        BY <4>1, <4>2 DEF Injection, IsInjective
    <3>6. Cardinality(2 .. n) <= Cardinality(later)
      BY <3>3, <3>5, FS_Injection
    <3>7. Cardinality(2 .. n) = n - 1
      BY <1>3, <2>2, FS_Interval, 2 \in Int, n \in Int
    <3> HIDE DEF later, n
    <3> QED
      BY <1>1, <1>3, <3>2, <3>3, <3>6, <3>7
  <2> QED
    BY <1>3, <2>1, <2>2
<1> QED
    BY <1>3, <1>4

LEMMA GalleryStep == TypeOK /\ GalleryBounded /\ [Next]_vars => GalleryBounded'
<1> SUFFICES ASSUME TypeOK, GalleryBounded, [Next]_vars, phase' = "idle"
             PROVE  /\ Len(gallery') <= GalleryCap
                    /\ \A k \in DOMAIN gallery' :
                          frame' <= gallery'[k].removed_frame + GalleryTtl + 1
    BY DEF GalleryBounded
<1>1. CASE Reset
  <2>1. Len(<<>>) = 0 /\ DOMAIN <<>> = {}
    OBVIOUS
  <2> QED
    BY <1>1, <2>1, ConfigAssumption DEF Reset
<1>2. CASE EndFrame
  <2>1. PICK from \in [1 .. Cardinality(Retained) -> Retained] :
          /\ \A a, b \in DOMAIN from : a < b => from[a] < from[b]
          /\ gallery' = [a \in DOMAIN from |-> gallery[from[a]]]
    BY <1>2 DEF EndFrame
  <2>2. Cardinality(Retained) \in Nat /\ Cardinality(Retained) <= GalleryCap
    BY <2>1, RetainedWithinCap
  <2>3. DOMAIN gallery' = 1 .. Cardinality(Retained)
    BY <2>1
  <2>4. Len(gallery') = Cardinality(Retained)
    <3>1. gallery' \in Seq(GalleryEntry)
      BY TypeStep DEF TypeOK
    <3> QED
      BY <2>2, <2>3, <3>1
  <2>5. ASSUME NEW k \in DOMAIN gallery'
        PROVE  frame' <= gallery'[k].removed_frame + GalleryTtl + 1
    <3>1. gallery'[k] = gallery[from[k]] /\ from[k] \in Retained
      BY <2>1, <2>3
    <3>2. from[k] \in DOMAIN gallery /\ Fresh(from[k])
      BY <3>1 DEF Retained
    <3>3. gallery[from[k]] \in GalleryEntry
      BY <3>2 DEF TypeOK
    <3>4. gallery[from[k]].removed_frame \in Nat /\ frame \in Nat
          /\ GalleryTtl \in Nat /\ frame' = frame + 1
      BY <1>2, <3>3, ConfigAssumption DEF GalleryEntry, TypeOK, EndFrame
    <3>5. frame - gallery[from[k]].removed_frame <= GalleryTtl
      BY <3>2 DEF Fresh
    <3> QED
      BY <3>1, <3>4, <3>5
  <2> QED
    BY <2>2, <2>4, <2>5
<1>3. CASE UNCHANGED vars
    BY <1>3 DEF vars, GalleryBounded
<1>4. CASE (\E ds : BeginFrame(ds)) \/ (Step /\ ~EndFrame)
  <2>1. phase' # "idle"
    <3>1. CASE \E ds : BeginFrame(ds)
      BY <3>1 DEF BeginFrame
    <3>2. CASE Stage1 \/ ReidStage \/ Stage2 \/ Stage3
      BY <3>2 DEF Stage1, ReidStage, Stage2, Stage3
    <3>3. CASE MergePhase
      BY <3>3 DEF MergePhase, Merge, MergeNone, MergeDone
    <3>4. CASE BirthPhase
      BY <3>4 DEF BirthPhase, NoBirth, Resurrect, Mint, BirthDone, NextBirth
    <3>5. CASE Keep \/ HandOff \/ Bury
      BY <3>5 DEF Keep, HandOff, Bury, Dying
    <3> QED
      BY <1>4, <3>1, <3>2, <3>3, <3>4, <3>5 DEF Step, ReapPhase
  <2> QED
    BY <2>1
<1> QED
    BY <1>1, <1>2, <1>3, <1>4 DEF Next

(* Between two calls of Tracker::update nothing dead is left in the pool,  *)
(* a track is Lost exactly when it missed the last frame and is within its *)
(* buffer, and the gallery is within its cap and its time to live.         *)
THEOREM SettledBetweenCalls == Spec => []BetweenCalls
<1>1. Init => PoolAlive /\ LifeInv /\ GalleryBounded
  <2>1. Len(<<>>) = 0 /\ DOMAIN <<>> = {}
    OBVIOUS
  <2> QED
    BY <2>1, ConfigAssumption DEF Init, PoolAlive, LifeInv, PoolSettled,
       WhileMatching, BeforeBirths, AfterMatching, ReapedSoFar,
       GalleryBounded, Positions
<1>2. TypeOK /\ PoolAlive /\ LifeInv /\ GalleryBounded /\ [Next]_vars
        => PoolAlive' /\ LifeInv' /\ GalleryBounded'
    BY PoolAliveStep, LifeStep, GalleryStep
<1>3. LifeInv /\ GalleryBounded => BetweenCalls
    BY DEF LifeInv, BetweenCalls
<1> QED
    BY <1>1, <1>2, <1>3, TypeCorrect, PTL DEF Spec

-----------------------------------------------------------------------------
(* Ids only move toward older values.                                      *)

(* Steps that neither shorten the vector nor change the gallery.           *)
LEMMA OlderInPlace ==
    ASSUME TypeOK, Len(tracks') = Len(tracks),
           phase = "reap" /\ phase' = "reap" => gallery' = gallery,
           \A i \in Positions : tracks'[i].id <= tracks[i].id
    PROVE  OnlyOlder
<1>1. Survivors = Positions /\ \A i \in Positions : Survivor(i) = i
    BY DEF TypeOK, Survivors, Survivor
<1>2. \A k \in DOMAIN gallery : gallery[k].id <= gallery[k].id
  <2>1. \A k \in DOMAIN gallery : gallery[k] \in GalleryEntry
    BY DEF TypeOK
  <2> QED
    BY <2>1 DEF GalleryEntry
<1> QED
    BY <1>1, <1>2 DEF OnlyOlder

(* Vectors with the same positions have the same length.                   *)
LEMMA SameLength ==
    ASSUME NEW S, NEW T, NEW s \in Seq(S), NEW t \in Seq(T), DOMAIN s = DOMAIN t
    PROVE  Len(s) = Len(t)
<1>1. Len(s) \in Nat /\ Len(t) \in Nat /\ 1 .. Len(s) = 1 .. Len(t)
    OBVIOUS
<1> QED
    BY <1>1

LEMMA StagesKeepIds ==
    ASSUME TypeOK, Stage1 \/ ReidStage \/ Stage2 \/ Stage3
    PROVE  /\ Len(tracks') = Len(tracks)
           /\ \A i \in Positions : tracks'[i].id = tracks[i].id
<1>0. /\ u_pool \in SUBSET Positions /\ u_high \in SUBSET DOMAIN dets
      /\ Unconfirmed \in SUBSET Positions
      /\ \A i \in Positions : tracks[i] \in Tracklet
      /\ tracks \in Seq(Tracklet) /\ tracks' \in Seq(Tracklet)
  <2>1. TypeOK'
    BY TypeStep DEF Next, Step
  <2>2. tracks' \in Seq(Tracklet)
    BY <2>1 DEF TypeOK
  <2>3. \A i \in Positions : tracks[i] \in Tracklet
    BY DEF TypeOK, Positions
  <2> QED
    BY <2>2, <2>3 DEF TypeOK, Unconfirmed
<1>1. ASSUME Stage1 \/ ReidStage
      PROVE  /\ DOMAIN tracks' = DOMAIN tracks
             /\ \A i \in Positions : tracks'[i].id = tracks[i].id
  <2>1. PICK m \in Assignments(u_pool, u_high) : \E bank \in Banks(m) :
                tracks' = CorrectStrong(m, bank)
    BY <1>1 DEF Stage1, ReidStage
  <2>2. PICK bank \in Banks(m) : tracks' = CorrectStrong(m, bank)
    BY <2>1
  <2>3. DOMAIN CorrectStrong(m, bank) = Positions
    BY DEF CorrectStrong
  <2> QED
    BY <1>0, <2>2, <2>3, CorrectedIds DEF Positions
<1>2. CASE Stage2
  <2>1. PICK m \in Assignments(u_pool, Low(dets)) :
          tracks' = [i \in Positions |->
                          IF i \in DOMAIN m THEN Update(tracks[i], dets[m[i]])
                          ELSE IF i \in u_pool THEN MarkMissed(tracks[i])
                          ELSE tracks[i]]
    BY <1>2 DEF Stage2
  <2>2. DOMAIN tracks' = DOMAIN tracks
    BY <2>1 DEF Positions
  <2>3. ASSUME NEW i \in Positions
        PROVE  tracks'[i].id = tracks[i].id
    <3>1. \A d : /\ Update(tracks[i], d).id = tracks[i].id
                 /\ MarkMissed(tracks[i]).id = tracks[i].id
      BY <1>0, SameId
    <3>2. \/ tracks'[i] = Update(tracks[i], dets[m[i]])
          \/ tracks'[i] = MarkMissed(tracks[i])
          \/ tracks'[i] = tracks[i]
      BY <2>1
    <3> QED
      BY <3>1, <3>2
  <2> QED
    BY <2>2, <2>3
<1>3. CASE Stage3
  <2>1. PICK m \in Assignments(Unconfirmed, u_high) : \E bank \in Banks(m) :
          tracks' = [i \in Positions |->
                          IF i \in DOMAIN m THEN CorrectStrong(m, bank)[i]
                          ELSE IF i \in Unconfirmed THEN MarkMissed(tracks[i])
                          ELSE tracks[i]]
    BY <1>3 DEF Stage3
  <2>2. PICK bank \in Banks(m) :
          tracks' = [i \in Positions |->
                          IF i \in DOMAIN m THEN CorrectStrong(m, bank)[i]
                          ELSE IF i \in Unconfirmed THEN MarkMissed(tracks[i])
                          ELSE tracks[i]]
    BY <2>1
  <2>3. \A i \in Positions : CorrectStrong(m, bank)[i].id = tracks[i].id
    BY <1>0, CorrectedIds
  <2>4. DOMAIN tracks' = DOMAIN tracks
    BY <2>2 DEF Positions
  <2>5. ASSUME NEW i \in Positions
        PROVE  tracks'[i].id = tracks[i].id
    <3>1. tracks'[i] \in {CorrectStrong(m, bank)[i], MarkMissed(tracks[i]), tracks[i]}
      BY <2>2
    <3> QED
      BY <1>0, <2>3, <3>1, SameId
  <2> QED
    BY <2>4, <2>5
<1>4. /\ DOMAIN tracks' = DOMAIN tracks
      /\ \A i \in Positions : tracks'[i].id = tracks[i].id
    BY <1>1, <1>2, <1>3
<1>5. Len(tracks') = Len(tracks)
    BY <1>0, <1>4, SameLength
<1> QED
    BY <1>4, <1>5

LEMMA MergeMovesOlder ==
    ASSUME TypeOK, Merge
    PROVE  /\ Len(tracks') = Len(tracks)
           /\ \A i \in Positions : tracks'[i].id <= tracks[i].id
<1> DEFINE y == tracks[cursor]
<1>1. PICK c \in OlderIdentities(y) :
             IF c.kind = "gallery" THEN ClaimGallery(cursor, c.at)
                                   ELSE ClaimTwin(cursor, c.at)
    BY DEF Merge
<1>2. /\ \A i \in Positions : tracks[i] \in Tracklet /\ tracks[i].id \in Nat
      /\ tracks \in Seq(Tracklet) /\ tracks' \in Seq(Tracklet)
      /\ cursor \in Positions
  <2>1. \A i \in Positions : tracks[i] \in Tracklet
    BY DEF TypeOK, Positions
  <2>2. TypeOK'
    BY TypeStep DEF Next, Step, MergePhase
  <2>3. \A i \in Positions : tracks[i].id \in Nat
    BY <2>1 DEF Tracklet
  <2>4. tracks \in Seq(Tracklet) /\ tracks' \in Seq(Tracklet)
    BY <2>2 DEF TypeOK
  <2> QED
    BY <2>1, <2>3, <2>4 DEF Merge
<1>3. CASE c.kind = "gallery"
  <2>1. c.at \in DOMAIN gallery /\ gallery[c.at].id < y.id
    BY <1>3, OlderCandidates
  <2>2. gallery[c.at].id \in Nat
    <3>1. gallery[c.at] \in GalleryEntry
      BY <2>1 DEF TypeOK
    <3> QED
      BY <3>1 DEF GalleryEntry
  <2>3. tracks' = [tracks EXCEPT ![cursor] =
                     [tracks[cursor] EXCEPT !.id = gallery[c.at].id,
                                            !.claimed = TRUE]]
    BY <1>1, <1>2, <1>3 DEF ClaimGallery, Positions
  <2>4. DOMAIN tracks' = DOMAIN tracks
    BY <2>3
  <2>5. tracks'[cursor].id = gallery[c.at].id
    BY <1>2, <2>3 DEF Positions, Tracklet
  <2>6. \A i \in Positions \ {cursor} : tracks'[i] = tracks[i]
    BY <2>3 DEF Positions
  <2>7. \A i \in Positions : tracks'[i].id <= tracks[i].id
    BY <1>2, <2>1, <2>2, <2>5, <2>6
  <2> QED
    <3>1. DOMAIN tracks = DOMAIN tracks'
      BY <2>4
    <3>2. Len(tracks') = Len(tracks)
      BY <1>2, <3>1, SameLength
    <3> QED
      BY <2>7, <3>2
<1>4. CASE c.kind # "gallery"
  <2> DEFINE j == c.at
  <2>1. /\ j \in Positions /\ tracks[j].id < y.id
        /\ tracks[j].state = "Lost" /\ y.state = "Confirmed"
    BY <1>4, OlderCandidates DEF Merge, MayMerge
  <2>2. PICK h : tracks' = [tracks EXCEPT
                    ![j] = [tracks[j] EXCEPT !.state = "Removed", !.hits = 0],
                    ![cursor] = [tracks[cursor] EXCEPT
                                   !.hits = h, !.id = tracks[j].id,
                                   !.claimed = TRUE]]
    <3>1. LET h == Saturate(tracks[cursor].hits + tracks[j].hits, HitsBound)
          IN  tracks' = [tracks EXCEPT
                    ![j] = [tracks[j] EXCEPT !.state = "Removed", !.hits = 0],
                    ![cursor] = [tracks[cursor] EXCEPT
                                   !.hits = h, !.id = tracks[j].id,
                                   !.claimed = TRUE]]
      BY <1>1, <1>2, <1>4, <2>1 DEF ClaimTwin, Positions
    <3> QED
      BY <3>1
  <2>3. DOMAIN tracks' = DOMAIN tracks
    BY <2>2
  <2>4. tracks'[cursor].id = tracks[j].id /\ tracks'[j].id = tracks[j].id
    BY <1>2, <2>1, <2>2 DEF Positions, Tracklet
  <2>5. \A i \in Positions \ {cursor, j} : tracks'[i] = tracks[i]
    BY <2>2 DEF Positions
  <2>6. \A i \in Positions : tracks'[i].id <= tracks[i].id
    BY <1>2, <2>1, <2>4, <2>5
  <2> QED
    <3>1. DOMAIN tracks = DOMAIN tracks'
      BY <2>3
    <3>2. Len(tracks') = Len(tracks)
      BY <1>2, <3>1, SameLength
    <3> QED
      BY <2>6, <3>2
<1> QED
    BY <1>3, <1>4

(* A track that dies leaves the others their ids, or the heir an older one. *)
LEMMA DeathMovesOlder ==
    ASSUME TypeOK, HandOff \/ Bury
    PROVE  OnlyOlder
<1> DEFINE rest == SwapRemove(tracks, cursor)
           n == Len(tracks)
<1>1. /\ cursor \in Positions /\ phase = "reap" /\ phase' = "reap"
      /\ tracks \in Seq(Tracklet) /\ n \in Nat /\ Positions = 1 .. n
      /\ \A i \in Positions : tracks[i] \in Tracklet /\ tracks[i].id \in Nat
      /\ \A k \in DOMAIN gallery : gallery[k] \in GalleryEntry /\ gallery[k].id \in Nat
  <2>1. /\ \A i \in Positions : tracks[i] \in Tracklet
        /\ \A k \in DOMAIN gallery : gallery[k] \in GalleryEntry
    BY DEF TypeOK, Positions
  <2>2. \A i \in Positions : tracks[i].id \in Nat
    BY <2>1 DEF Tracklet
  <2>3. \A k \in DOMAIN gallery : gallery[k].id \in Nat
    BY <2>1 DEF GalleryEntry
  <2>4. cursor \in Positions /\ phase = "reap" /\ phase' = "reap"
    BY DEF HandOff, Bury, Dying
  <2>5. tracks \in Seq(Tracklet) /\ n \in Nat /\ Positions = 1 .. n
    BY DEF TypeOK, Positions
  <2> QED
    BY <2>1, <2>2, <2>3, <2>4, <2>5
<1>2. /\ rest \in Seq(Tracklet) /\ Len(rest) = n - 1 /\ DOMAIN rest = 1 .. n - 1
      /\ \A k \in 1 .. n - 1 : rest[k] = tracks[IF k = cursor THEN n ELSE k]
    BY <1>1, SwapRemoveSeq DEF Positions
<1>3. ASSUME Len(tracks') = n - 1,
             \A k \in 1 .. n - 1 : tracks'[k].id <= rest[k].id
      PROVE  \A i \in Survivors : tracks'[Survivor(i)].id <= tracks[i].id
  <2>1. Survivors = Positions \ {cursor}
    BY <1>1, <1>3 DEF Survivors
  <2>2. ASSUME NEW i \in Positions \ {cursor}
        PROVE  Survivor(i) \in 1 .. n - 1 /\ rest[Survivor(i)] = tracks[i]
    <3>1. CASE i = n
      <4>1. Survivor(i) = cursor /\ cursor \in 1 .. n - 1
        BY <1>1, <1>3, <2>2, <3>1 DEF Survivor
      <4> HIDE DEF rest
      <4> QED
        BY <1>2, <3>1, <4>1
    <3>2. CASE i # n
      <4>1. Survivor(i) = i /\ i \in 1 .. n - 1
        BY <1>1, <1>3, <2>2, <3>2 DEF Survivor
      <4> HIDE DEF rest
      <4> QED
        BY <1>2, <2>2, <4>1
    <3> QED
      BY <3>1, <3>2
  <2> HIDE DEF rest
  <2> QED
    BY <1>3, <2>1, <2>2
<1>4. CASE HandOff
  <2>1. PICK j \in DOMAIN rest :
            /\ IsHeir(j, tracks[cursor], rest)
            /\ tracks' = [rest EXCEPT
                         ![j].id = tracks[cursor].id,
                         ![j].hits = Saturate(@ + tracks[cursor].hits, HitsBound),
                         ![j].claimed = TRUE]
    BY <1>4 DEF HandOff
  <2>2. rest[j].id > tracks[cursor].id
    BY <2>1 DEF IsHeir, Heirs
  <2>3. PICK h : h = Saturate(rest[j].hits + tracks[cursor].hits, HitsBound)
    OBVIOUS
  <2>4. tracks' = [rest EXCEPT
                     ![j] = [rest[j] EXCEPT !.id = tracks[cursor].id,
                                            !.hits = h, !.claimed = TRUE]]
    BY <2>1, <2>3
  <2>5. \A k \in DOMAIN rest : rest[k] \in Tracklet /\ rest[k].id \in Nat
    <3>1. \A k \in DOMAIN rest : rest[k] \in Tracklet
      <4> HIDE DEF rest
      <4> QED
        BY <1>2
    <3> QED
      BY <3>1 DEF Tracklet
  <2> HIDE DEF rest
  <2>6. DOMAIN tracks' = 1 .. n - 1 /\ Len(tracks') = n - 1
    <3>1. TypeOK'
      BY <1>4, TypeStep DEF Next, Step, ReapPhase
    <3>2. tracks' \in Seq(Tracklet)
      BY <3>1 DEF TypeOK
    <3>3. DOMAIN tracks' = DOMAIN rest
      BY <2>4
    <3> QED
      BY <1>2, <3>2, <3>3, SameLength
  <2>7. tracks'[j].id = tracks[cursor].id
    <3>1. tracks'[j] = [rest[j] EXCEPT !.id = tracks[cursor].id,
                                       !.hits = h, !.claimed = TRUE]
      BY <2>1, <2>4
    <3>2. rest[j] \in Tracklet
      BY <2>1, <2>5
    <3> QED
      BY <3>1, <3>2 DEF Tracklet
  <2>8. \A k \in 1 .. n - 1 : tracks'[k].id <= rest[k].id
    BY <1>1, <1>2, <2>1, <2>2, <2>4, <2>5, <2>7
  <2>9. \A i \in Survivors : tracks'[Survivor(i)].id <= tracks[i].id
    BY <1>3, <2>6, <2>8
  <2> QED
    <3>1. gallery' = gallery
      BY <1>4 DEF HandOff
    <3>2. \A k \in DOMAIN gallery : gallery'[k].id <= gallery[k].id
      BY <1>1, <3>1
    <3> QED
      BY <2>9, <3>2 DEF OnlyOlder
<1>5. CASE Bury
  <2>1. tracks' = rest
    BY <1>5 DEF Bury
  <2>2. \A k \in 1 .. n - 1 : rest[k].id <= rest[k].id
    <3> HIDE DEF rest
    <3>1. \A k \in 1 .. n - 1 : rest[k] \in Tracklet
      BY <1>2
    <3>2. \A k \in 1 .. n - 1 : rest[k].id \in Nat
      BY <3>1 DEF Tracklet
    <3> QED
      BY <3>2
  <2>3. \A i \in Survivors : tracks'[Survivor(i)].id <= tracks[i].id
    BY <1>2, <1>3, <2>1, <2>2
  <2>4. ASSUME NEW k \in DOMAIN gallery
        PROVE  gallery'[k].id <= gallery[k].id
    <3> DEFINE entry == [id |-> tracks[cursor].id, class |-> tracks[cursor].class,
                         feat |-> tracks[cursor].feat, removed_frame |-> frame]
    <3>1. \/ gallery' = gallery
          \/ \E l \in DOMAIN gallery :
               gallery' = [gallery EXCEPT
                  ![l] = [entry EXCEPT !.id = OlderId(gallery[l].id, tracks[cursor].id)]]
          \/ gallery' = Append(gallery, entry)
      BY <1>5 DEF Bury
    <3>2. CASE gallery' = gallery \/ gallery' = Append(gallery, entry)
      <4>1. gallery'[k] = gallery[k]
        <5>1. gallery \in Seq(GalleryEntry)
          BY DEF TypeOK
        <5> HIDE DEF entry
        <5> QED
          BY <3>2, <5>1
      <4> QED
        BY <1>1, <4>1
    <3>3. ASSUME NEW l \in DOMAIN gallery,
               gallery' = [gallery EXCEPT
                  ![l] = [entry EXCEPT !.id = OlderId(gallery[l].id, tracks[cursor].id)]]
          PROVE  gallery'[k].id <= gallery[k].id
      <4>1. CASE k # l
        BY <1>1, <3>3, <4>1
      <4>2. CASE k = l
        <5>1. gallery'[k].id = OlderId(gallery[k].id, tracks[cursor].id)
          BY <3>3, <4>2
        <5> QED
          BY <1>1, <5>1 DEF OlderId
      <4> QED
        BY <4>1, <4>2
    <3> HIDE DEF entry
    <3> QED
      BY <3>1, <3>2, <3>3
  <2> QED
    BY <2>3, <2>4 DEF OnlyOlder
<1> QED
    BY <1>4, <1>5

LEMMA OlderStep ==
    TypeOK /\ [Next]_vars => [phase \notin {"idle", "birth"} => OnlyOlder]_vars
<1> SUFFICES ASSUME TypeOK, Next, phase \notin {"idle", "birth"}
             PROVE  OnlyOlder
    OBVIOUS
<1>0. \A i \in Positions : tracks[i].id \in Nat
  <2>1. \A i \in Positions : tracks[i] \in Tracklet
    BY DEF TypeOK, Positions
  <2> QED
    BY <2>1 DEF Tracklet
<1>1. CASE Stage1 \/ ReidStage \/ Stage2 \/ Stage3
  <2>1. phase # "reap"
    BY <1>1 DEF Stage1, ReidStage, Stage2, Stage3
  <2>2. /\ Len(tracks') = Len(tracks)
        /\ \A i \in Positions : tracks'[i].id <= tracks[i].id
    BY <1>0, <1>1, StagesKeepIds
  <2> QED
    BY <2>1, <2>2, OlderInPlace
<1>2. CASE Merge
  <2>1. phase # "reap"
    BY <1>2 DEF Merge
  <2> QED
    BY <1>2, <2>1, MergeMovesOlder, OlderInPlace
<1>3. CASE MergeNone \/ MergeDone \/ Keep \/ EndFrame
  <2>1. /\ tracks' = tracks
        /\ phase = "reap" /\ phase' = "reap" => gallery' = gallery
    BY <1>3 DEF MergeNone, MergeDone, Keep, EndFrame
  <2>2. \A i \in Positions : tracks'[i].id <= tracks[i].id
    BY <1>0, <2>1
  <2> QED
    BY <2>1, <2>2, OlderInPlace
<1>4. CASE HandOff \/ Bury
    BY <1>4, DeathMovesOlder
<1>5. ~Reset /\ ~(\E ds \in Frames : BeginFrame(ds)) /\ ~BirthPhase
    BY DEF Reset, BeginFrame, BirthPhase, NoBirth, Resurrect, Mint, BirthDone,
           NextBirth
<1> QED
    BY <1>1, <1>2, <1>3, <1>4, <1>5 DEF Next, Step, MergePhase, ReapPhase

(* Whatever Tracker::step merges, hands off or deduplicates, a surviving    *)
(* track or gallery entry never gets a younger id than it had.             *)
THEOREM IdsMoveOlder == Spec => IdsOnlyMoveOlder
    BY OlderStep, TypeCorrect, PTL DEF Spec, IdsOnlyMoveOlder

-----------------------------------------------------------------------------
(***************************************************************************)
(* The tracker implements the identity ledger, and an identity keeps its   *)
(* class, for all values of the constants with gallery_min_hits >= 1.      *)
(***************************************************************************)

-----------------------------------------------------------------------------
(* What holders, husks and the two vectors have in common in every step.   *)

(* No two holders of one kind have one id, nor do a track and an entry.    *)
LEMMA IdsApart ==
    ASSUME UniqueIdentity
    PROVE  /\ \A i, j \in Carriers : tracks[i].id = tracks[j].id => i = j
           /\ \A k, l \in DOMAIN gallery : gallery[k].id = gallery[l].id => k = l
           /\ \A i \in Carriers, k \in DOMAIN gallery : tracks[i].id # gallery[k].id
<1>1. \A i \in Carriers : <<"track", i>> \in Holders /\ IdOf(<<"track", i>>) = tracks[i].id
    BY DEF Holders, IdOf
<1>2. \A k \in DOMAIN gallery :
          <<"gallery", k>> \in Holders /\ IdOf(<<"gallery", k>>) = gallery[k].id
    BY DEF Holders, IdOf
<1>3. \A g, h \in Holders : IdOf(g) = IdOf(h) => g = h
    BY DEF UniqueIdentity
<1>4. ASSUME NEW i \in Carriers, NEW j \in Carriers, tracks[i].id = tracks[j].id
      PROVE  i = j
  <2>1. <<"track", i>> = <<"track", j>>
    BY <1>1, <1>3, <1>4
  <2> QED
    BY <2>1
<1>5. ASSUME NEW k \in DOMAIN gallery, NEW l \in DOMAIN gallery,
             gallery[k].id = gallery[l].id
      PROVE  k = l
  <2>1. <<"gallery", k>> = <<"gallery", l>>
    BY <1>2, <1>3, <1>5
  <2> QED
    BY <2>1
<1>6. ASSUME NEW i \in Carriers, NEW k \in DOMAIN gallery
      PROVE  tracks[i].id # gallery[k].id
  <2>1. <<"track", i>> # <<"gallery", k>>
    OBVIOUS
  <2> QED
    BY <1>1, <1>2, <1>3, <2>1
<1> QED
    BY <1>4, <1>5, <1>6

(* swap_remove takes one id out of a vector of different ids.              *)
LEMMA SwapRemovedIds ==
    ASSUME NEW S, NEW s \in Seq(S), NEW k \in DOMAIN s,
           \A a, b \in DOMAIN s : s[a].id = s[b].id => a = b
    PROVE  {SwapRemove(s, k)[a].id : a \in DOMAIN SwapRemove(s, k)}
              = {s[a].id : a \in DOMAIN s} \ {s[k].id}
<1> DEFINE r == SwapRemove(s, k)
           n == Len(s)
<1>1. /\ DOMAIN s = 1 .. n /\ n \in Nat /\ k \in 1 .. n
      /\ DOMAIN r = 1 .. n - 1
      /\ \A a \in 1 .. n - 1 : r[a] = s[IF a = k THEN n ELSE a]
    BY SwapRemoveSeq
<1> HIDE DEF r, n
<1>2. ASSUME NEW a \in DOMAIN r
      PROVE  r[a].id \in {s[b].id : b \in DOMAIN s} \ {s[k].id}
  <2>1. PICK b \in DOMAIN s : r[a] = s[b] /\ b # k
    <3>1. CASE a = k
      BY <1>1, <3>1
    <3>2. CASE a # k
      BY <1>1, <3>2
    <3> QED
      BY <3>1, <3>2
  <2> QED
    BY <2>1
<1>3. ASSUME NEW b \in DOMAIN s, s[b].id # s[k].id
      PROVE  \E a \in DOMAIN r : r[a].id = s[b].id
  <2>1. PICK a \in DOMAIN r : r[a] = s[b]
    <3>1. CASE b = n
      BY <1>1, <1>3, <3>1
    <3>2. CASE b # n
      BY <1>1, <1>3, <3>2
    <3> QED
      BY <3>1, <3>2
  <2> QED
    BY <2>1
<1> QED
    BY <1>2, <1>3 DEF r

(* A step that leaves every record its id and what kind of record it is    *)
(* changes nothing in the ledger.                                          *)
LEMMA CalmStutters ==
    ASSUME Positions' = Positions, UNCHANGED <<gallery, next_id>>,
           \A i \in Positions : /\ tracks'[i].id = tracks[i].id
                                /\ Husk(tracks'[i]) <=> Husk(tracks[i])
    PROVE  UNCHANGED <<LiveIds, RetiredIds, next_id>>
<1>1. Carriers' = Carriers
    BY DEF Carriers
<1>2. \A i \in Carriers : tracks'[i].id = tracks[i].id
    BY DEF Carriers
<1>3. LiveIds' = LiveIds
    BY <1>1, <1>2 DEF LiveIds
<1>4. RetiredIds' = RetiredIds
    BY DEF RetiredIds
<1> QED
    BY <1>3, <1>4

(* What predicting, matching and missing make of hits, state and class.    *)
LEMMA MatchedTrack ==
    ASSUME NEW t \in Tracklet, NEW d \in Detection, NEW f
    PROVE  /\ Update(t, d).hits >= 1 /\ UpdateStrong(t, d, f).hits >= 1
           /\ t.state # "Removed" => /\ Update(t, d).state # "Removed"
                                     /\ UpdateStrong(t, d, f).state # "Removed"
           /\ t.state # "Tentative" => /\ Update(t, d).class = t.class
                                       /\ UpdateStrong(t, d, f).class = t.class
<1> USE ConfigAssumption
<1>1. Update(t, d).hits = Saturate(t.hits + 1, HitsBound) /\ t.hits \in Nat
    BY DEF Update, Tracklet
<1>2. Saturate(t.hits + 1, HitsBound) >= 1
    BY <1>1 DEF Saturate, HitsBound
<1>3. t.state # "Removed" => Update(t, d).state # "Removed"
    BY DEF Update, Tracklet
<1>4. t.state # "Tentative" => Update(t, d).class = t.class
    BY DEF Update, Tracklet
<1>5. /\ UpdateStrong(t, d, f).hits = Update(t, d).hits
      /\ UpdateStrong(t, d, f).state = Update(t, d).state
      /\ UpdateStrong(t, d, f).class = Update(t, d).class
    BY DEF UpdateStrong, Update, Tracklet
<1> QED
    BY <1>1, <1>2, <1>3, <1>4, <1>5

LEMMA MissedTrack ==
    ASSUME NEW t \in Tracklet
    PROVE  /\ MarkMissed(t).state # "Tentative"
           /\ MarkMissed(t).hits = t.hits /\ MarkMissed(t).class = t.class
           /\ (t.state = "Tentative" => t.hits >= 1) =>
                 (Husk(MarkMissed(t)) <=> Husk(t))
           /\ Predict(t).state = t.state /\ Predict(t).hits = t.hits
           /\ Predict(t).class = t.class
<1>1. /\ MarkMissed(t).hits = t.hits /\ MarkMissed(t).class = t.class
      /\ t.state = "Confirmed" => MarkMissed(t).state = "Lost"
      /\ t.state = "Tentative" => MarkMissed(t).state = "Removed"
      /\ t.state \notin {"Confirmed", "Tentative"} => MarkMissed(t).state = t.state
    BY DEF MarkMissed, Tracklet
<1>2. Predict(t).state = t.state /\ Predict(t).hits = t.hits /\ Predict(t).class = t.class
    BY DEF Predict, Tracklet
<1>3. t.hits \in Nat
    BY DEF Tracklet
<1> QED
    BY <1>1, <1>2, <1>3 DEF Husk

(* A matching stage leaves a track alone, marks it missed, or corrects it  *)
(* if it is in the pool or Tentative.                                      *)
Corrected(i) ==
    /\ i \in u_pool \/ tracks[i].state = "Tentative"
    /\ \E d \in Detection : \/ tracks'[i] = Update(tracks[i], d)
                            \/ \E f : tracks'[i] = UpdateStrong(tracks[i], d, f)

LEMMA StageEffect ==
    ASSUME TypeOK, Stage1 \/ ReidStage \/ Stage2 \/ Stage3
    PROVE  /\ Positions' = Positions /\ UNCHANGED <<gallery, next_id>>
           /\ \A i \in Positions : \/ tracks'[i] = tracks[i]
                                   \/ tracks'[i] = MarkMissed(tracks[i])
                                   \/ Corrected(i)
<1>0. /\ u_pool \in SUBSET Positions /\ u_high \in SUBSET DOMAIN dets
      /\ \A d \in DOMAIN dets : dets[d] \in Detection
    BY DEF TypeOK
<1>1. CASE Stage1 \/ ReidStage
  <2>1. PICK m \in Assignments(u_pool, u_high) : \E bank \in Banks(m) :
            tracks' = CorrectStrong(m, bank)
    BY <1>1 DEF Stage1, ReidStage
  <2>2. PICK bank \in Banks(m) : tracks' = CorrectStrong(m, bank)
    BY <2>1
  <2>3. \A i \in DOMAIN m : i \in u_pool /\ dets[m[i]] \in Detection
    BY <1>0, AssignmentPairs
  <2>4. Positions' = Positions /\ UNCHANGED <<gallery, next_id>>
    BY <1>1, <2>2 DEF Stage1, ReidStage, CorrectStrong, Positions
  <2>5. ASSUME NEW i \in Positions
        PROVE  tracks'[i] = tracks[i] \/ Corrected(i)
    <3>1. CASE i \in DOMAIN m
      <4>1. tracks'[i] = UpdateStrong(tracks[i], dets[m[i]], bank[i])
        BY <2>2, <3>1 DEF CorrectStrong
      <4> QED
        BY <2>3, <3>1, <4>1 DEF Corrected
    <3>2. CASE i \notin DOMAIN m
      BY <2>2, <3>2 DEF CorrectStrong
    <3> QED
      BY <3>1, <3>2
  <2> QED
    BY <2>4, <2>5
<1>2. CASE Stage2
  <2>1. PICK m \in Assignments(u_pool, Low(dets)) :
            tracks' = [i \in Positions |->
                          IF i \in DOMAIN m THEN Update(tracks[i], dets[m[i]])
                          ELSE IF i \in u_pool THEN MarkMissed(tracks[i])
                          ELSE tracks[i]]
    BY <1>2 DEF Stage2
  <2>2. \A i \in DOMAIN m : i \in u_pool /\ dets[m[i]] \in Detection
    BY <1>0, AssignmentPairs DEF Low
  <2>3. Positions' = Positions /\ UNCHANGED <<gallery, next_id>>
    BY <1>2, <2>1 DEF Stage2, Positions
  <2>4. ASSUME NEW i \in Positions
        PROVE  \/ tracks'[i] = tracks[i] \/ tracks'[i] = MarkMissed(tracks[i])
               \/ Corrected(i)
    <3>1. CASE i \in DOMAIN m
      <4>1. tracks'[i] = Update(tracks[i], dets[m[i]])
        BY <2>1, <3>1
      <4> QED
        BY <2>2, <3>1, <4>1 DEF Corrected
    <3>2. CASE i \notin DOMAIN m
      BY <2>1, <3>2
    <3> QED
      BY <3>1, <3>2
  <2> QED
    BY <2>3, <2>4
<1>3. CASE Stage3
  <2>1. PICK m \in Assignments(Unconfirmed, u_high) : \E bank \in Banks(m) :
            tracks' = [i \in Positions |->
                          IF i \in DOMAIN m THEN CorrectStrong(m, bank)[i]
                          ELSE IF i \in Unconfirmed THEN MarkMissed(tracks[i])
                          ELSE tracks[i]]
    BY <1>3 DEF Stage3
  <2>2. PICK bank \in Banks(m) :
            tracks' = [i \in Positions |->
                          IF i \in DOMAIN m THEN CorrectStrong(m, bank)[i]
                          ELSE IF i \in Unconfirmed THEN MarkMissed(tracks[i])
                          ELSE tracks[i]]
    BY <2>1
  <2>3. \A i \in DOMAIN m : tracks[i].state = "Tentative" /\ dets[m[i]] \in Detection
    BY <1>0, AssignmentPairs DEF Unconfirmed
  <2>4. Positions' = Positions /\ UNCHANGED <<gallery, next_id>>
    BY <1>3, <2>2 DEF Stage3, Positions
  <2>5. ASSUME NEW i \in Positions
        PROVE  \/ tracks'[i] = tracks[i] \/ tracks'[i] = MarkMissed(tracks[i])
               \/ Corrected(i)
    <3>1. CASE i \in DOMAIN m
      <4>1. tracks'[i] = UpdateStrong(tracks[i], dets[m[i]], bank[i])
        BY <2>2, <3>1 DEF CorrectStrong
      <4> QED
        BY <2>3, <3>1, <4>1 DEF Corrected
    <3>2. CASE i \notin DOMAIN m
      BY <2>2, <3>2
    <3> QED
      BY <3>1, <3>2
  <2> QED
    BY <2>4, <2>5
<1> QED
    BY <1>1, <1>2, <1>3

(* The deferred merge: a young track gives up its id for that of an entry  *)
(* or of a Lost twin, which is then a husk.                                *)
ClaimsEntry(i, k) ==
    /\ i \in Positions /\ tracks[i].state = "Confirmed"
    /\ k \in DOMAIN gallery
    /\ gallery[k].class = tracks[i].class /\ gallery[k].id < tracks[i].id
    /\ Positions' = Positions /\ next_id' = next_id
    /\ tracks'[i].id = gallery[k].id
    /\ tracks'[i].class = tracks[i].class /\ tracks'[i].state = "Confirmed"
    /\ \A o \in Positions \ {i} : tracks'[o] = tracks[o]
    /\ gallery' = SwapRemove(gallery, k)

ClaimsTwin(i, j) ==
    /\ i \in Positions /\ tracks[i].state = "Confirmed"
    /\ j \in Positions /\ tracks[j].state = "Lost"
    /\ tracks[j].class = tracks[i].class /\ tracks[j].id < tracks[i].id
    /\ Positions' = Positions /\ UNCHANGED <<gallery, next_id>>
    /\ tracks'[i].id = tracks[j].id
    /\ tracks'[i].class = tracks[i].class /\ tracks'[i].state = "Confirmed"
    /\ Husk(tracks'[j])
    /\ \A o \in Positions \ {i, j} : tracks'[o] = tracks[o]

LEMMA MergeEffect ==
    ASSUME TypeOK, Merge
    PROVE  \E i \in Positions : \/ \E k \in DOMAIN gallery : ClaimsEntry(i, k)
                                \/ \E j \in Positions : ClaimsTwin(i, j)
<1> DEFINE i == cursor
           y == tracks[cursor]
<1>1. PICK c \in OlderIdentities(y) :
          IF c.kind = "gallery" THEN ClaimGallery(i, c.at) ELSE ClaimTwin(i, c.at)
    BY DEF Merge
<1>2. /\ next_id' = next_id /\ i \in Positions /\ y.state = "Confirmed"
      /\ \A o \in Positions : tracks[o] \in Tracklet
      /\ DOMAIN tracks = Positions
    BY DEF Merge, MayMerge, TypeOK, Positions
<1>3. CASE c.kind = "gallery"
  <2> DEFINE k == c.at
  <2>1. /\ k \in DOMAIN gallery
        /\ gallery[k].class = y.class /\ gallery[k].id < y.id
    BY <1>1, <1>3 DEF OlderIdentities
  <2>2. /\ gallery' = SwapRemove(gallery, k)
        /\ tracks' = [tracks EXCEPT ![i] = [tracks[i] EXCEPT !.id = gallery[k].id,
                                                             !.claimed = TRUE]]
    BY <1>1, <1>2, <1>3 DEF ClaimGallery
  <2>3. tracks'[i] = [tracks[i] EXCEPT !.id = gallery[k].id, !.claimed = TRUE]
    BY <1>2, <2>2
  <2>4. /\ tracks'[i].id = gallery[k].id
        /\ tracks'[i].class = y.class /\ tracks'[i].state = y.state
    BY <1>2, <2>3 DEF Tracklet
  <2>5. Positions' = Positions /\ \A o \in Positions \ {i} : tracks'[o] = tracks[o]
    BY <1>2, <2>2 DEF Positions
  <2>6. ClaimsEntry(i, k)
    BY <1>2, <2>1, <2>2, <2>4, <2>5 DEF ClaimsEntry
  <2> QED
    BY <1>2, <2>1, <2>6
<1>4. CASE c.kind # "gallery"
  <2> DEFINE j == c.at
  <2>1. /\ j \in Positions /\ tracks[j].state = "Lost" /\ j # i
        /\ tracks[j].class = y.class /\ tracks[j].id < y.id
    BY <1>1, <1>2, <1>4 DEF OlderIdentities
  <2>2. PICK h : tracks' = [tracks EXCEPT
                    ![j] = [tracks[j] EXCEPT !.state = "Removed", !.hits = 0],
                    ![i] = [tracks[i] EXCEPT !.hits = h, !.id = tracks[j].id,
                                             !.claimed = TRUE]]
    <3>1. LET h == Saturate(tracks[i].hits + tracks[j].hits, HitsBound)
          IN  tracks' = [tracks EXCEPT
                    ![j] = [tracks[j] EXCEPT !.state = "Removed", !.hits = 0],
                    ![i] = [tracks[i] EXCEPT !.hits = h, !.id = tracks[j].id,
                                             !.claimed = TRUE]]
      BY <1>1, <1>2, <1>4, <2>1 DEF ClaimTwin
    <3> QED
      BY <3>1
  <2>3. /\ tracks'[j] = [tracks[j] EXCEPT !.state = "Removed", !.hits = 0]
        /\ tracks'[i] = [tracks[i] EXCEPT !.hits = h, !.id = tracks[j].id,
                                          !.claimed = TRUE]
        /\ DOMAIN tracks' = DOMAIN tracks
        /\ \A o \in Positions \ {i, j} : tracks'[o] = tracks[o]
    BY <1>2, <2>1, <2>2
  <2>4. Husk(tracks'[j])
    BY <1>2, <2>1, <2>3 DEF Husk, Tracklet
  <2>5. /\ tracks'[i].id = tracks[j].id
        /\ tracks'[i].class = y.class /\ tracks'[i].state = y.state
    BY <1>2, <2>3 DEF Tracklet
  <2>6. gallery' = gallery
    BY <1>1, <1>4 DEF ClaimTwin
  <2>7. ClaimsTwin(i, j)
    BY <1>2, <2>1, <2>3, <2>4, <2>5, <2>6 DEF ClaimsTwin, Positions
  <2> QED
    BY <1>2, <2>1, <2>7
<1> QED
    BY <1>3, <1>4

(* The reap loop moves the last track into the gap of the dead one.        *)
Origin(i) == IF i = cursor THEN Len(tracks) ELSE i

LEMMA ReapedVector ==
    ASSUME TypeOK, cursor \in Positions
    PROVE  LET rest == SwapRemove(tracks, cursor)
           IN  /\ DOMAIN rest = 1 .. Len(tracks) - 1
               /\ \A i \in DOMAIN rest : /\ rest[i] = tracks[Origin(i)]
                                         /\ rest[i] \in Tracklet
                                         /\ Origin(i) \in Positions \ {cursor}
               /\ \A i, k \in DOMAIN rest : Origin(i) = Origin(k) => i = k
               /\ \A a \in Positions \ {cursor} :
                     \E i \in DOMAIN rest : Origin(i) = a
<1> DEFINE rest == SwapRemove(tracks, cursor)
           n == Len(tracks)
<1>1. /\ tracks \in Seq(Tracklet) /\ n \in Nat /\ Positions = 1 .. n
      /\ cursor \in 1 .. n /\ DOMAIN tracks = 1 .. n
      /\ \A i \in Positions : tracks[i] \in Tracklet
    BY DEF TypeOK, Positions
<1>2. /\ DOMAIN rest = 1 .. n - 1
      /\ \A i \in 1 .. n - 1 : rest[i] = tracks[IF i = cursor THEN n ELSE i]
    BY <1>1, SwapRemoveSeq
<1>a. n \in Nat /\ cursor \in 1 .. n /\ Positions = 1 .. n /\ DOMAIN rest = 1 .. n - 1
    BY <1>1, <1>2
<1>b. \A i : Origin(i) = IF i = cursor THEN n ELSE i
    BY DEF Origin
<1> HIDE DEF rest, n
<1>3. ASSUME NEW i \in DOMAIN rest
      PROVE  /\ rest[i] = tracks[Origin(i)] /\ rest[i] \in Tracklet
             /\ Origin(i) \in Positions \ {cursor}
  <2>1. Origin(i) \in Positions \ {cursor}
    BY <1>a, <1>b
  <2>2. rest[i] = tracks[Origin(i)]
    BY <1>2, <1>a, <1>b
  <2> QED
    BY <1>1, <2>1, <2>2
<1>4. ASSUME NEW i \in DOMAIN rest, NEW k \in DOMAIN rest, Origin(i) = Origin(k)
      PROVE  i = k
    BY <1>a, <1>b, <1>4
<1>5. ASSUME NEW a \in Positions \ {cursor}
      PROVE  \E i \in DOMAIN rest : Origin(i) = a
  <2>1. CASE a = n
    <3>1. cursor \in DOMAIN rest /\ Origin(cursor) = a
      BY <1>a, <1>b, <1>5, <2>1
    <3> QED
      BY <3>1
  <2>2. CASE a # n
    <3>1. a \in DOMAIN rest /\ Origin(a) = a
      BY <1>a, <1>b, <1>5, <2>2
    <3> QED
      BY <3>1
  <2> QED
    BY <2>1, <2>2
<1> QED
    BY <1>2, <1>3, <1>4, <1>5 DEF rest, n

(* A remembered track is no husk: that has too few hits.                   *)
LEMMA RememberedCarries ==
    ASSUME TypeOK, GalleryMinHits >= 1, NEW i \in Positions, Remembered(tracks[i])
    PROVE  i \in Carriers
<1>1. tracks[i].hits \in Nat
  <2>1. tracks[i] \in Tracklet
    BY DEF TypeOK, Positions
  <2> QED
    BY <2>1 DEF Tracklet
<1>2. tracks[i].hits >= GalleryMinHits
    BY DEF Remembered
<1>3. tracks[i].hits # 0
    BY <1>1, <1>2, ConfigAssumption
<1> QED
    BY <1>3 DEF Carriers, Husk

(* The hand-off: the heir at j gets the id of the dead track.              *)
Inherits(j) ==
    /\ cursor \in Carriers
    /\ Positions' = DOMAIN SwapRemove(tracks, cursor)
    /\ UNCHANGED <<gallery, next_id>>
    /\ j \in Positions'
    /\ Origin(j) \in Carriers /\ tracks[Origin(j)].id > tracks[cursor].id
    /\ tracks[Origin(j)].class = tracks[cursor].class
    /\ tracks'[j].id = tracks[cursor].id /\ ~Husk(tracks'[j])
    /\ tracks'[j].class = tracks[cursor].class
    /\ tracks'[j].state = tracks[Origin(j)].state
    /\ tracks[Origin(j)].hits >= 1 => tracks'[j].hits >= 1
    /\ \A i \in Positions' \ {j} : tracks'[i] = tracks[Origin(i)]

LEMMA HandOffEffect ==
    ASSUME TypeOK, GalleryMinHits >= 1, HandOff
    PROVE  cursor \in Positions /\ \E j \in Positions' : Inherits(j)
<1> USE ConfigAssumption
<1> DEFINE rest == SwapRemove(tracks, cursor)
           t == tracks[cursor]
<1>1. PICK j \in DOMAIN rest :
            /\ IsHeir(j, t, rest)
            /\ tracks' = [rest EXCEPT
                         ![j].id = t.id,
                         ![j].hits = Saturate(@ + t.hits, HitsBound),
                         ![j].claimed = TRUE]
    BY DEF HandOff
<1>2. cursor \in Positions /\ UNCHANGED <<gallery, next_id>>
    BY DEF HandOff, Dying
<1>3. \A i \in DOMAIN rest : /\ rest[i] = tracks[Origin(i)] /\ rest[i] \in Tracklet
                             /\ Origin(i) \in Positions \ {cursor}
    BY <1>2, ReapedVector
<1>4. /\ Remembered(t) /\ rest[j].class = t.class /\ rest[j].id > t.id
      /\ rest[j].state # "Removed"
    BY <1>1 DEF IsHeir, Heirs
<1>5. PICK h : h = Saturate(rest[j].hits + t.hits, HitsBound)
    OBVIOUS
<1>6. cursor \in Carriers
    BY <1>2, <1>4, RememberedCarries
<1>7. t \in Tracklet
    BY <1>2 DEF TypeOK, Positions
<1>8. rest[j].hits \in Nat /\ t.hits \in Nat
    BY <1>1, <1>3, <1>7 DEF Tracklet
<1>9. rest[j].hits >= 1 => h >= 1
  <2>1. HitsBound >= 1
    BY DEF HitsBound
  <2> HIDE DEF rest, t
  <2> QED
    BY <1>5, <1>8, <2>1 DEF Saturate
<1> HIDE DEF rest, t
<1>10. tracks' = [rest EXCEPT
                     ![j] = [rest[j] EXCEPT !.id = t.id, !.hits = h, !.claimed = TRUE]]
    BY <1>1, <1>5
<1>11. /\ DOMAIN tracks' = DOMAIN rest
       /\ \A i \in DOMAIN rest \ {j} : tracks'[i] = rest[i]
       /\ tracks'[j] = [rest[j] EXCEPT !.id = t.id, !.hits = h, !.claimed = TRUE]
    BY <1>1, <1>10
<1>12. /\ tracks'[j].id = t.id /\ tracks'[j].hits = h
       /\ tracks'[j].class = rest[j].class /\ tracks'[j].state = rest[j].state
  <2>1. rest[j] \in Tracklet
    BY <1>3
  <2>2. tracks'[j] = [rest[j] EXCEPT !.id = t.id, !.hits = h, !.claimed = TRUE]
    BY <1>11
  <2> QED
    BY <2>1, <2>2 DEF Tracklet
<1>13. ~Husk(tracks'[j])
    BY <1>4, <1>12 DEF Husk
<1>14. Origin(j) \in Carriers
    BY <1>1, <1>3, <1>4 DEF Carriers, Husk
<1>15. Positions' = DOMAIN rest
    BY <1>11 DEF Positions
<1>16. Inherits(j)
    BY <1>1, <1>2, <1>3, <1>4, <1>6, <1>9, <1>11, <1>12, <1>13, <1>14, <1>15
       DEF Inherits, rest, t
<1> QED
    BY <1>1, <1>2, <1>15, <1>16

(* The burial: the dead track leaves the vector, and leaves no trace, an   *)
(* entry of its own, or the older id in the entry it is recognised in.     *)
Entered(k) ==
    LET t == tracks[cursor]
    IN  /\ k \in DOMAIN gallery /\ gallery[k].class = t.class
        /\ DOMAIN gallery' = DOMAIN gallery
        /\ gallery'[k].id = OlderId(gallery[k].id, t.id) /\ gallery'[k].class = t.class
        /\ \A l \in DOMAIN gallery \ {k} : gallery'[l] = gallery[l]

Appended ==
    LET n == Len(gallery) + 1
    IN  /\ DOMAIN gallery' = DOMAIN gallery \cup {n} /\ n \notin DOMAIN gallery
        /\ gallery'[n].id = tracks[cursor].id
        /\ gallery'[n].class = tracks[cursor].class
        /\ \A l \in DOMAIN gallery : gallery'[l] = gallery[l]

LEMMA BuryEffect ==
    ASSUME TypeOK, GalleryMinHits >= 1, Bury
    PROVE  /\ cursor \in Positions /\ next_id' = next_id
           /\ Positions' = DOMAIN SwapRemove(tracks, cursor)
           /\ \A i \in Positions' : tracks'[i] = tracks[Origin(i)]
           /\ \/ gallery' = gallery
              \/ cursor \in Carriers /\ \E k \in DOMAIN gallery : Entered(k)
              \/ cursor \in Carriers /\ Appended
<1> DEFINE t == tracks[cursor]
           rest == SwapRemove(tracks, cursor)
           entry == [id |-> t.id, class |-> t.class, feat |-> t.feat,
                     removed_frame |-> frame]
<1>1. /\ cursor \in Positions /\ next_id' = next_id /\ tracks' = rest
      /\ \/ gallery' = gallery
         \/ /\ Remembered(t)
            /\ \E k \in DOMAIN gallery :
                  /\ IsTwinEntry(k, t)
                  /\ gallery' = [gallery EXCEPT
                                   ![k] = [entry EXCEPT
                                             !.id = OlderId(gallery[k].id, t.id)]]
         \/ Remembered(t) /\ gallery' = Append(gallery, entry)
    BY DEF Bury, Dying
<1>2. \A i \in DOMAIN rest : rest[i] = tracks[Origin(i)]
    BY <1>1, ReapedVector
<1>3. Positions' = DOMAIN rest /\ \A i \in Positions' : tracks'[i] = tracks[Origin(i)]
    BY <1>1, <1>2 DEF Positions
<1>4. ASSUME Remembered(t)
      PROVE  cursor \in Carriers
    BY <1>1, <1>4, RememberedCarries
<1>5. gallery \in Seq(GalleryEntry) /\ DOMAIN gallery = 1 .. Len(gallery) /\ Len(gallery) \in Nat
    BY DEF TypeOK
<1>6. ASSUME NEW k \in DOMAIN gallery, IsTwinEntry(k, t),
             gallery' = [gallery EXCEPT
                           ![k] = [entry EXCEPT !.id = OlderId(gallery[k].id, t.id)]]
      PROVE  Entered(k)
  <2>1. gallery[k].class = t.class
    BY <1>6 DEF IsTwinEntry, SameIdentity
  <2>2. gallery'[k] = [entry EXCEPT !.id = OlderId(gallery[k].id, t.id)]
    BY <1>6
  <2>3. gallery'[k].id = OlderId(gallery[k].id, t.id) /\ gallery'[k].class = t.class
    BY <2>2
  <2>4. /\ DOMAIN gallery' = DOMAIN gallery
        /\ \A l \in DOMAIN gallery \ {k} : gallery'[l] = gallery[l]
    BY <1>6
  <2> QED
    BY <1>6, <2>1, <2>3, <2>4 DEF Entered
<1>7. ASSUME gallery' = Append(gallery, entry)
      PROVE  Appended
  <2> DEFINE n == Len(gallery) + 1
  <2>1. entry.id = t.id /\ entry.class = t.class
    OBVIOUS
  <2> HIDE DEF entry
  <2>2. /\ DOMAIN gallery' = DOMAIN gallery \cup {n} /\ n \notin DOMAIN gallery
        /\ gallery'[n] = entry
        /\ \A l \in DOMAIN gallery : gallery'[l] = gallery[l]
    BY <1>5, <1>7
  <2> QED
    BY <2>1, <2>2 DEF Appended
<1> QED
    BY <1>1, <1>3, <1>4, <1>6, <1>7
-----------------------------------------------------------------------------
(* A Tentative track has been seen.                                        *)

LEMMA SeenStep ==
    ASSUME GalleryMinHits >= 1
    PROVE  TypeOK /\ TentativeSeen /\ [Next]_vars => TentativeSeen'
<1> USE ConfigAssumption
<1> SUFFICES ASSUME TypeOK, TentativeSeen, [Next]_vars
             PROVE  TentativeSeen'
    OBVIOUS
<1>0. \A i \in Positions : tracks[i] \in Tracklet
    BY DEF TypeOK, Positions
<1>1. CASE Reset
  <2>1. Positions' = {}
    BY <1>1 DEF Reset, Positions
  <2> QED
    BY <2>1 DEF TentativeSeen
<1>2. ASSUME NEW ds, BeginFrame(ds)
      PROVE  TentativeSeen'
  <2>1. /\ Positions' = Positions
        /\ \A i \in Positions : tracks'[i] \in {Predict(tracks[i]), tracks[i]}
    BY <1>2 DEF BeginFrame, Positions
  <2>2. \A i \in Positions : /\ tracks'[i].state = tracks[i].state
                             /\ tracks'[i].hits = tracks[i].hits
    BY <1>0, <2>1, MissedTrack
  <2> QED
    BY <2>1, <2>2 DEF TentativeSeen
<1>3. CASE Stage1 \/ ReidStage \/ Stage2 \/ Stage3
  <2>1. ASSUME NEW i \in Positions
        PROVE  tracks'[i].state = "Tentative" => tracks'[i].hits >= 1
    <3>1. CASE tracks'[i] = tracks[i]
      BY <3>1 DEF TentativeSeen
    <3>2. CASE tracks'[i] = MarkMissed(tracks[i])
      BY <1>0, <3>2, MissedTrack
    <3>3. CASE Corrected(i)
      BY <1>0, <3>3, MatchedTrack DEF Corrected
    <3> QED
      BY <1>3, <3>1, <3>2, <3>3, StageEffect
  <2>2. Positions' = Positions
    BY <1>3, StageEffect
  <2> QED
    BY <2>1, <2>2 DEF TentativeSeen
<1>4. CASE Merge
  <2>1. PICK i \in Positions : \/ \E k \in DOMAIN gallery : ClaimsEntry(i, k)
                               \/ \E j \in Positions : ClaimsTwin(i, j)
    BY <1>4, MergeEffect
  <2>2. Positions' = Positions
    BY <2>1 DEF ClaimsEntry, ClaimsTwin
  <2>3. \A o \in Positions : tracks'[o].state = "Tentative" => tracks'[o] = tracks[o]
    BY <2>1 DEF ClaimsEntry, ClaimsTwin, Husk
  <2> QED
    BY <2>2, <2>3 DEF TentativeSeen
<1>5. ASSUME NEW d \in u_high, Resurrect(d) \/ Mint(d)
      PROVE  TentativeSeen'
  <2>1. PICK t : /\ tracks' = Append(tracks, t)
                 /\ t.state = "Tentative" => t.hits >= 1
    <3>1. CASE Mint(d)
      <4>1. tracks' = Append(tracks, NewTracklet(next_id, dets[d]))
        BY <3>1 DEF Mint
      <4>2. NewTracklet(next_id, dets[d]).hits = 1
        BY DEF NewTracklet
      <4> QED
        BY <4>1, <4>2
    <3>2. CASE Resurrect(d)
      <4>1. PICK c : tracks' = Append(tracks, Resurrected(gallery[c.at].id, d))
        BY <3>2 DEF Resurrect
      <4>2. Resurrected(gallery[c.at].id, d).state = "Confirmed"
        BY DEF Resurrected, NewTracklet
      <4> QED
        BY <4>1, <4>2
    <3> QED
      BY <1>5, <3>1, <3>2
  <2>2. tracks \in Seq(Tracklet) /\ Len(tracks) \in Nat /\ Positions = 1 .. Len(tracks)
    BY DEF TypeOK, Positions
  <2>3. /\ Positions' = 1 .. Len(tracks) + 1
        /\ \A i \in Positions : tracks'[i] = tracks[i]
        /\ tracks'[Len(tracks) + 1] = t
    BY <2>1, <2>2 DEF Positions
  <2> QED
    BY <2>1, <2>2, <2>3 DEF TentativeSeen
<1>6. CASE HandOff
  <2>1. PICK j \in Positions' : cursor \in Positions /\ Inherits(j)
    BY <1>6, HandOffEffect
  <2>2. ASSUME NEW i \in Positions'
        PROVE  tracks'[i].state = "Tentative" => tracks'[i].hits >= 1
    <3>1. Origin(i) \in Positions
      BY <2>1, <2>2, ReapedVector DEF Inherits
    <3> QED
      BY <2>1, <2>2, <3>1 DEF Inherits, TentativeSeen
  <2> QED
    BY <2>2 DEF TentativeSeen
<1>7. CASE Bury
  <2>1. \A i \in Positions' : tracks'[i] = tracks[Origin(i)] /\ Origin(i) \in Positions
    BY <1>7, BuryEffect, ReapedVector
  <2> QED
    BY <2>1 DEF TentativeSeen
<1>8. ASSUME UNCHANGED tracks
      PROVE  TentativeSeen'
    BY <1>8 DEF TentativeSeen, Positions
<1>9. CASE MergeNone \/ MergeDone \/ Keep \/ EndFrame \/ BirthDone \/ UNCHANGED vars
    BY <1>8, <1>9 DEF MergeNone, MergeDone, Keep, EndFrame, BirthDone, vars
<1>10. ASSUME NEW d, NoBirth(d)
       PROVE  TentativeSeen'
    BY <1>8, <1>10 DEF NoBirth
<1> QED
    BY <1>1, <1>2, <1>3, <1>4, <1>5, <1>6, <1>7, <1>9, <1>10
       DEF Next, Step, MergePhase, BirthPhase, ReapPhase
-----------------------------------------------------------------------------
(* Every step is one of the ledger.                                        *)

LEMMA IdsOf ==
    /\ \A x : x \in LiveIds <=> \E i \in Carriers : tracks[i].id = x
    /\ \A x : x \in RetiredIds <=> \E k \in DOMAIN gallery : gallery[k].id = x
BY DEF LiveIds, RetiredIds

LEMMA IdsOfPrimed ==
    /\ \A x : x \in LiveIds' <=> \E i \in Carriers' : tracks'[i].id = x
    /\ \A x : x \in RetiredIds' <=> \E k \in DOMAIN gallery' : gallery'[k].id = x
BY DEF LiveIds, RetiredIds

LEMMA IdTypes ==
    ASSUME TypeOK
    PROVE  /\ \A i \in Positions : tracks[i].id \in Nat
           /\ \A k \in DOMAIN gallery : gallery[k].id \in Nat
<1>1. \A i \in Positions : tracks[i] \in Tracklet
    BY DEF TypeOK, Positions
<1>2. \A k \in DOMAIN gallery : gallery[k] \in GalleryEntry
    BY DEF TypeOK
<1> QED
    BY <1>1, <1>2 DEF Tracklet, GalleryEntry

(* The frame's beginning and the matching stages do not touch it.          *)
LEMMA MatchingStutters ==
    ASSUME TypeOK, PoolAlive, TentativeSeen,
           \/ \E ds : BeginFrame(ds)
           \/ Stage1 \/ ReidStage \/ Stage2 \/ Stage3
    PROVE  UNCHANGED <<LiveIds, RetiredIds, next_id>>
<1>0. \A i \in Positions : tracks[i] \in Tracklet
    BY DEF TypeOK, Positions
<1>1. CASE \E ds : BeginFrame(ds)
  <2>1. PICK ds : BeginFrame(ds)
    BY <1>1
  <2>2. /\ Positions' = Positions /\ UNCHANGED <<gallery, next_id>>
        /\ \A i \in Positions : tracks'[i] \in {Predict(tracks[i]), tracks[i]}
    BY <2>1 DEF BeginFrame, Positions
  <2>3. ASSUME NEW i \in Positions
        PROVE  /\ tracks'[i].id = tracks[i].id
               /\ Husk(tracks'[i]) <=> Husk(tracks[i])
    BY <1>0, <2>2, SameId, MissedTrack DEF Husk
  <2> QED
    BY <2>2, <2>3, CalmStutters
<1>2. CASE Stage1 \/ ReidStage \/ Stage2 \/ Stage3
  <2>1. \A i \in u_pool : tracks[i].state \in {"Confirmed", "Lost"} \/ Stage3
    BY <1>2 DEF PoolAlive, Stage1, ReidStage, Stage2
  <2>2. Stage3 => u_pool = {}
    BY DEF Stage3, TypeOK
  <2>3. ASSUME NEW i \in Positions
        PROVE  /\ tracks'[i].id = tracks[i].id
               /\ Husk(tracks'[i]) <=> Husk(tracks[i])
    <3>1. CASE tracks'[i] = tracks[i]
      BY <3>1
    <3>2. CASE tracks'[i] = MarkMissed(tracks[i])
      <4>1. tracks[i].state = "Tentative" => tracks[i].hits >= 1
        BY DEF TentativeSeen
      <4> QED
        BY <1>0, <3>2, <4>1, SameId, MissedTrack
    <3>3. CASE Corrected(i)
      <4>1. tracks[i].state # "Removed"
        BY <2>1, <2>2, <3>3 DEF Corrected
      <4>2. tracks'[i].state # "Removed"
        BY <1>0, <3>3, <4>1, MatchedTrack DEF Corrected
      <4>3. tracks'[i].id = tracks[i].id
        BY <1>0, <3>3, SameId DEF Corrected
      <4> QED
        BY <4>1, <4>2, <4>3 DEF Husk
    <3> QED
      BY <1>2, <3>1, <3>2, <3>3, StageEffect
  <2> QED
    BY <1>2, <2>3, StageEffect, CalmStutters
<1> QED
    BY <1>1, <1>2

(* A merge converges two live records, or reclaims a retired identity.     *)
LEMMA EntryReclaimed ==
    ASSUME TypeOK, UniqueIdentity, NEW i, NEW k, ClaimsEntry(i, k)
    PROVE  Ledger!Reclaim(gallery[k].id, tracks[i].id)
<1>1. Carriers' = Carriers /\ i \in Carriers /\ k \in DOMAIN gallery
    BY DEF ClaimsEntry, Carriers, Husk
<1>2. \A o \in Carriers : tracks'[o].id = IF o = i THEN gallery[k].id ELSE tracks[o].id
    BY DEF ClaimsEntry, Carriers
<1>3. LiveIds' = (LiveIds \ {tracks[i].id}) \cup {gallery[k].id}
  <2>1. \A o \in Carriers : tracks[o].id = tracks[i].id => o = i
    BY <1>1, IdsApart
  <2>2. ASSUME NEW x
        PROVE  x \in LiveIds' <=> x \in (LiveIds \ {tracks[i].id}) \cup {gallery[k].id}
    BY <1>1, <1>2, <2>1, IdsOf, IdsOfPrimed
  <2> QED
    BY <2>2
<1>4. RetiredIds' = RetiredIds \ {gallery[k].id}
  <2>1. gallery \in Seq(GalleryEntry) /\ gallery' = SwapRemove(gallery, k)
    BY DEF TypeOK, ClaimsEntry
  <2>2. \A a, b \in DOMAIN gallery : gallery[a].id = gallery[b].id => a = b
    BY IdsApart
  <2>3. {SwapRemove(gallery, k)[a].id : a \in DOMAIN SwapRemove(gallery, k)}
              = {gallery[a].id : a \in DOMAIN gallery} \ {gallery[k].id}
    BY <1>1, <2>1, <2>2, SwapRemovedIds
  <2> QED
    BY <2>1, <2>3 DEF RetiredIds
<1>5. /\ gallery[k].id \in RetiredIds /\ tracks[i].id \in LiveIds
      /\ gallery[k].id < tracks[i].id /\ next_id' = next_id
    BY <1>1, IdsOf DEF ClaimsEntry
<1> QED
    BY <1>3, <1>4, <1>5 DEF Ledger!Reclaim

LEMMA TwinsConverged ==
    ASSUME TypeOK, UniqueIdentity, NEW i, NEW j, ClaimsTwin(i, j)
    PROVE  Ledger!Converge(tracks[j].id, tracks[i].id)
<1>0. i # j /\ i \in Positions /\ j \in Positions
    BY DEF ClaimsTwin
<1>1. Carriers' = Carriers \ {j} /\ i \in Carriers /\ j \in Carriers
  <2>1. ASSUME NEW o \in Positions
        PROVE  Husk(tracks'[o]) <=> o = j \/ Husk(tracks[o])
    BY <1>0 DEF ClaimsTwin, Husk
  <2> QED
    BY <1>0, <2>1 DEF ClaimsTwin, Carriers, Husk
<1>2. \A o \in Carriers' : tracks'[o].id = IF o = i THEN tracks[j].id ELSE tracks[o].id
    BY <1>1 DEF ClaimsTwin, Carriers
<1>3. LiveIds' = LiveIds \ {tracks[i].id}
  <2>1. \A o, p \in Carriers : tracks[o].id = tracks[p].id => o = p
    BY IdsApart
  <2>2. ASSUME NEW x
        PROVE  x \in LiveIds' <=> x \in LiveIds \ {tracks[i].id}
    <3>1. x \in LiveIds' <=> \E o \in Carriers' : tracks'[o].id = x
      BY IdsOfPrimed
    <3>2. x \in LiveIds <=> \E o \in Carriers : tracks[o].id = x
      BY IdsOf
    <3>3. ASSUME NEW o \in Carriers', tracks'[o].id = x
          PROVE  x \in LiveIds /\ x # tracks[i].id
      BY <1>0, <1>1, <1>2, <2>1, <3>2, <3>3
    <3>4. ASSUME NEW o \in Carriers, tracks[o].id = x, x # tracks[i].id
          PROVE  x \in LiveIds'
      <4>1. CASE o = j
        <5>1. i \in Carriers' /\ tracks'[i].id = x
          BY <1>0, <1>1, <1>2, <3>4, <4>1
        <5> QED
          BY <3>1, <5>1
      <4>2. CASE o # j
        <5>1. o \in Carriers' /\ tracks'[o].id = x
          BY <1>1, <1>2, <3>4, <4>2
        <5> QED
          BY <3>1, <5>1
      <4> QED
        BY <4>1, <4>2
    <3> QED
      BY <3>1, <3>2, <3>3, <3>4
  <2> QED
    BY <2>2
<1>4. RetiredIds' = RetiredIds /\ next_id' = next_id
    BY DEF ClaimsTwin, RetiredIds
<1>5. /\ tracks[j].id \in LiveIds /\ tracks[i].id \in LiveIds
      /\ tracks[j].id < tracks[i].id
    BY <1>1, IdsOf DEF ClaimsTwin
<1> QED
    BY <1>3, <1>4, <1>5 DEF Ledger!Converge

(* A birth mints an identity, or resurrects a retired one.                 *)
LEMMA BornHolds ==
    ASSUME TypeOK, NEW t, tracks' = Append(tracks, t), ~Husk(t)
    PROVE  /\ Carriers' = Carriers \cup {Len(tracks) + 1}
           /\ \A i \in Carriers : tracks'[i] = tracks[i]
           /\ tracks'[Len(tracks) + 1] = t
           /\ LiveIds' = LiveIds \cup {t.id}
<1> DEFINE n == Len(tracks) + 1
<1>1. tracks \in Seq(Tracklet) /\ Len(tracks) \in Nat /\ Positions = 1 .. Len(tracks)
    BY DEF TypeOK, Positions
<1>2. /\ Positions' = Positions \cup {n} /\ n \notin Positions
      /\ \A i \in Positions : tracks'[i] = tracks[i]
      /\ tracks'[n] = t
    BY <1>1 DEF Positions
<1> HIDE DEF n
<1>3. Carriers' = Carriers \cup {n}
    BY <1>2 DEF Carriers
<1>4. \A i \in Carriers : tracks'[i] = tracks[i]
    BY <1>2 DEF Carriers
<1>5. LiveIds' = {tracks'[i].id : i \in Carriers'}
    BY DEF LiveIds
<1>6. LiveIds = {tracks[i].id : i \in Carriers}
    BY DEF LiveIds
<1>7. LiveIds' = LiveIds \cup {t.id}
    BY <1>2, <1>3, <1>4, <1>5, <1>6
<1> QED
    BY <1>2, <1>3, <1>4, <1>7 DEF n

LEMMA MintIsMint ==
    ASSUME TypeOK, NEW d, Mint(d)
    PROVE  Ledger!Mint
<1> DEFINE t == NewTracklet(next_id, dets[d])
<1>1. tracks' = Append(tracks, t) /\ next_id' = next_id + 1 /\ gallery' = gallery
    BY DEF Mint
<1>2. t.id = next_id /\ ~Husk(t)
    BY DEF NewTracklet, Husk
<1> HIDE DEF t
<1>3. LiveIds' = LiveIds \cup {next_id}
    BY <1>1, <1>2, BornHolds
<1>4. RetiredIds' = RetiredIds
    BY <1>1 DEF RetiredIds
<1> QED
    BY <1>1, <1>3, <1>4 DEF Ledger!Mint

LEMMA ResurrectIsResurrect ==
    ASSUME TypeOK, UniqueIdentity, NEW d, Resurrect(d)
    PROVE  \E x \in RetiredIds : Ledger!Resurrect(x)
<1>1. PICK c \in Returning(d) :
          /\ tracks' = Append(tracks, Resurrected(gallery[c.at].id, d))
          /\ gallery' = SwapRemove(gallery, c.at)
    BY DEF Resurrect
<1> DEFINE k == c.at
           t == Resurrected(gallery[k].id, d)
<1>2. k \in DOMAIN gallery /\ gallery \in Seq(GalleryEntry) /\ next_id' = next_id
    BY ReturningCandidates DEF TypeOK, Resurrect
<1>3. t.id = gallery[k].id /\ ~Husk(t)
    BY DEF Resurrected, NewTracklet, Husk
<1>4. tracks' = Append(tracks, t)
    BY <1>1
<1> HIDE DEF t
<1>5. LiveIds' = LiveIds \cup {gallery[k].id}
    BY <1>3, <1>4, BornHolds
<1>6. RetiredIds' = RetiredIds \ {gallery[k].id}
  <2>1. \A a, b \in DOMAIN gallery : gallery[a].id = gallery[b].id => a = b
    BY IdsApart
  <2>2. {SwapRemove(gallery, k)[a].id : a \in DOMAIN SwapRemove(gallery, k)}
              = {gallery[a].id : a \in DOMAIN gallery} \ {gallery[k].id}
    BY <1>2, <2>1, SwapRemovedIds
  <2> QED
    BY <1>1, <2>2 DEF RetiredIds
<1>7. gallery[k].id \in RetiredIds
    BY <1>2, IdsOf
<1> QED
    BY <1>2, <1>5, <1>6, <1>7 DEF Ledger!Resurrect

(* The hand-off: the older identity of the two goes on.                    *)
LEMMA HandOffConverges ==
    ASSUME TypeOK, UniqueIdentity, cursor \in Positions, NEW j, Inherits(j)
    PROVE  Ledger!Converge(tracks[cursor].id, tracks[Origin(j)].id)
<1> DEFINE x == tracks[cursor].id
           y == tracks[Origin(j)].id
<1>1. /\ cursor \in Carriers /\ Origin(j) \in Carriers /\ y > x
      /\ x \in LiveIds /\ y \in LiveIds
    BY IdsOf DEF Inherits
<1>2. /\ Positions' = DOMAIN SwapRemove(tracks, cursor) /\ j \in Positions'
      /\ tracks'[j].id = x /\ ~Husk(tracks'[j])
      /\ \A i \in Positions' \ {j} : tracks'[i] = tracks[Origin(i)]
    BY DEF Inherits
<1>3. /\ \A i \in Positions' : Origin(i) \in Positions \ {cursor}
      /\ \A i, k \in Positions' : Origin(i) = Origin(k) => i = k
      /\ \A a \in Positions \ {cursor} : \E i \in Positions' : Origin(i) = a
    BY <1>2, ReapedVector
<1>4. x \in Nat /\ y \in Nat
    BY <1>2, <1>3, IdTypes
<1>5. \A a, b \in Carriers : tracks[a].id = tracks[b].id => a = b
    BY IdsApart
<1>6. LiveIds' = LiveIds \ {y}
  <2>1. ASSUME NEW i \in Carriers'
        PROVE  tracks'[i].id \in LiveIds \ {y}
    <3>1. i \in Positions' /\ ~Husk(tracks'[i])
      BY DEF Carriers
    <3>2. CASE i = j
      BY <1>1, <1>2, <1>4, <3>2
    <3>3. CASE i # j
      <4>1. tracks'[i] = tracks[Origin(i)] /\ Origin(i) \in Positions
        BY <1>2, <1>3, <3>1, <3>3
      <4>2. Origin(i) \in Carriers
        BY <3>1, <4>1 DEF Carriers
      <4>3. Origin(i) # Origin(j)
        BY <1>2, <1>3, <3>1, <3>3
      <4>4. tracks[Origin(i)].id # y
        BY <1>1, <1>5, <4>2, <4>3
      <4> QED
        BY <4>1, <4>2, <4>4, IdsOf
    <3> QED
      BY <3>2, <3>3
  <2>2. ASSUME NEW a \in Carriers, tracks[a].id # y
        PROVE  tracks[a].id \in LiveIds'
    <3>1. CASE a = cursor
      <4>1. j \in Carriers'
        BY <1>2 DEF Carriers
      <4> QED
        BY <1>2, <3>1, <4>1, IdsOfPrimed
    <3>2. CASE a # cursor
      <4>1. a \in Positions
        BY DEF Carriers
      <4>2. PICK i \in Positions' : Origin(i) = a
        BY <1>3, <3>2, <4>1
      <4>3. i # j
        BY <2>2, <4>2
      <4>4. tracks'[i] = tracks[a]
        BY <1>2, <4>2, <4>3
      <4>5. i \in Carriers'
        BY <4>2, <4>4 DEF Carriers
      <4> QED
        BY <4>4, <4>5, IdsOfPrimed
    <3> QED
      BY <3>1, <3>2
  <2> QED
    BY <2>1, <2>2, IdsOf, IdsOfPrimed
<1>7. RetiredIds' = RetiredIds /\ next_id' = next_id
    BY DEF Inherits, RetiredIds
<1> QED
    BY <1>1, <1>4, <1>6, <1>7 DEF Ledger!Converge

(* A burial takes the identity of the dead track out of the live ones.     *)
LEMMA BuriedLive ==
    ASSUME TypeOK, UniqueIdentity, cursor \in Positions,
           Positions' = DOMAIN SwapRemove(tracks, cursor),
           \A i \in Positions' : tracks'[i] = tracks[Origin(i)]
    PROVE  LiveIds' = IF cursor \in Carriers THEN LiveIds \ {tracks[cursor].id}
                      ELSE LiveIds
<1>1. /\ \A i \in Positions' : Origin(i) \in Positions \ {cursor}
      /\ \A a \in Positions \ {cursor} : \E i \in Positions' : Origin(i) = a
    BY ReapedVector
<1>2. \A a, b \in Carriers : tracks[a].id = tracks[b].id => a = b
    BY IdsApart
<1>3. ASSUME NEW i \in Carriers'
      PROVE  /\ tracks'[i].id \in LiveIds
             /\ cursor \in Carriers => tracks'[i].id # tracks[cursor].id
  <2>1. i \in Positions' /\ ~Husk(tracks'[i])
    BY DEF Carriers
  <2>2. tracks'[i] = tracks[Origin(i)] /\ Origin(i) \in Positions \ {cursor}
    BY <1>1, <2>1
  <2>3. Origin(i) \in Carriers
    BY <2>1, <2>2 DEF Carriers
  <2> QED
    BY <1>2, <2>2, <2>3, IdsOf
<1>4. ASSUME NEW a \in Carriers, a # cursor
      PROVE  tracks[a].id \in LiveIds'
  <2>1. a \in Positions
    BY DEF Carriers
  <2>2. PICK i \in Positions' : Origin(i) = a
    BY <1>1, <1>4, <2>1
  <2>3. tracks'[i] = tracks[a]
    BY <2>2
  <2>4. i \in Carriers'
    BY <2>2, <2>3 DEF Carriers
  <2> QED
    BY <2>3, <2>4, IdsOfPrimed
<1>5. /\ \A x : x \in LiveIds <=> \E a \in Carriers : tracks[a].id = x
      /\ \A x : x \in LiveIds' <=> \E i \in Carriers' : tracks'[i].id = x
    BY IdsOf, IdsOfPrimed
<1>6. CASE cursor \in Carriers
  <2>1. ASSUME NEW x \in LiveIds' PROVE x \in LiveIds \ {tracks[cursor].id}
    BY <1>3, <1>5, <1>6
  <2>2. ASSUME NEW x \in LiveIds \ {tracks[cursor].id} PROVE x \in LiveIds'
    BY <1>4, <1>5
  <2> QED
    BY <1>6, <2>1, <2>2
<1>7. CASE cursor \notin Carriers
  <2>1. ASSUME NEW x \in LiveIds' PROVE x \in LiveIds
    BY <1>3, <1>5
  <2>2. ASSUME NEW x \in LiveIds PROVE x \in LiveIds'
    BY <1>4, <1>5, <1>7
  <2> QED
    BY <1>7, <2>1, <2>2
<1> QED
    BY <1>6, <1>7

LEMMA BurialRetires ==
    ASSUME TypeOK, UniqueIdentity, GalleryMinHits >= 1, Bury
    PROVE  \/ UNCHANGED <<LiveIds, RetiredIds, next_id>>
           \/ \E x \in LiveIds : \/ Ledger!Forget(x)
                                 \/ Ledger!Retire(x)
                                 \/ \E y \in RetiredIds : Ledger!RetireInto(x, y)
<1> DEFINE x == tracks[cursor].id
<1>1. /\ cursor \in Positions /\ next_id' = next_id
      /\ \/ gallery' = gallery
         \/ cursor \in Carriers /\ \E k \in DOMAIN gallery : Entered(k)
         \/ cursor \in Carriers /\ Appended
    BY BuryEffect
<1>2. LiveIds' = IF cursor \in Carriers THEN LiveIds \ {x} ELSE LiveIds
    BY <1>1, BuryEffect, BuriedLive
<1>3. cursor \in Carriers => x \in LiveIds
    BY IdsOf
<1>4. CASE gallery' = gallery
  <2>1. RetiredIds' = RetiredIds
    BY <1>4 DEF RetiredIds
  <2>2. CASE cursor \in Carriers
    <3>1. Ledger!Forget(x)
      BY <1>1, <1>2, <1>3, <2>1, <2>2 DEF Ledger!Forget
    <3> QED
      BY <1>3, <2>2, <3>1
  <2>3. CASE cursor \notin Carriers
    BY <1>1, <1>2, <2>1, <2>3
  <2> QED
    BY <2>2, <2>3
<1>5. ASSUME cursor \in Carriers, NEW k \in DOMAIN gallery, Entered(k)
      PROVE  Ledger!RetireInto(x, gallery[k].id)
  <2> DEFINE y == gallery[k].id
  <2>1. x \in Nat /\ y \in Nat /\ x # y
    BY <1>1, <1>5, IdTypes, IdsApart
  <2>2. /\ DOMAIN gallery' = DOMAIN gallery
        /\ gallery'[k].id = IF x < y THEN x ELSE y
        /\ \A l \in DOMAIN gallery \ {k} : gallery'[l] = gallery[l]
    BY <1>5, <2>1 DEF Entered, OlderId
  <2>3. \A l \in DOMAIN gallery : gallery[l].id = y => l = k
    BY <1>5, IdsApart
  <2>4. y \in RetiredIds
    BY <1>5, IdsOf
  <2>5. RetiredIds' = IF x < y THEN (RetiredIds \ {y}) \cup {x} ELSE RetiredIds
    <3>1. ASSUME NEW l \in DOMAIN gallery
          PROVE  gallery'[l].id = IF l = k /\ x < y THEN x ELSE gallery[l].id
      BY <2>2
    <3>2. ASSUME NEW z
          PROVE  z \in RetiredIds' <=>
                   z \in IF x < y THEN (RetiredIds \ {y}) \cup {x} ELSE RetiredIds
      <4>1. CASE x < y
        BY <1>5, <2>2, <2>3, <3>1, <4>1, IdsOf, IdsOfPrimed
      <4>2. CASE ~(x < y)
        BY <2>2, <3>1, <4>2, IdsOf, IdsOfPrimed
      <4> QED
        BY <4>1, <4>2
    <3> QED
      BY <3>2
  <2> QED
    BY <1>1, <1>2, <1>3, <1>5, <2>4, <2>5 DEF Ledger!RetireInto
<1>6. ASSUME cursor \in Carriers, Appended
      PROVE  Ledger!Retire(x)
  <2>1. RetiredIds' = RetiredIds \cup {x}
    <3>1. ASSUME NEW z
          PROVE  z \in RetiredIds' <=> z \in RetiredIds \cup {x}
      BY <1>6, IdsOf, IdsOfPrimed DEF Appended
    <3> QED
      BY <3>1
  <2> QED
    BY <1>1, <1>2, <1>3, <1>6, <2>1 DEF Ledger!Retire
<1>7. ASSUME cursor \in Carriers, NEW k \in DOMAIN gallery, Entered(k)
      PROVE  gallery[k].id \in RetiredIds
    BY <1>7, IdsOf
<1> QED
    BY <1>1, <1>3, <1>4, <1>5, <1>6, <1>7

(* The end of the frame: entries leave the gallery.                        *)
LEMMA EndExpires ==
    ASSUME TypeOK, EndFrame
    PROVE  Ledger!Expire
<1>1. PICK from \in [1 .. Cardinality(Retained) -> Retained] :
          gallery' = [a \in DOMAIN from |-> gallery[from[a]]]
    BY DEF EndFrame
<1>2. \A a \in DOMAIN gallery' : from[a] \in DOMAIN gallery /\ gallery'[a] = gallery[from[a]]
    BY <1>1 DEF Retained
<1>3. RetiredIds' \in SUBSET RetiredIds
    BY <1>2 DEF RetiredIds
<1>4. LiveIds' = LiveIds /\ next_id' = next_id
    BY DEF EndFrame, LiveIds, Carriers, Positions
<1> QED
    BY <1>3, <1>4 DEF Ledger!Expire

LEMMA ResetClears ==
    ASSUME Reset
    PROVE  Ledger!Clear
<1>1. LiveIds' = {} /\ RetiredIds' = {} /\ next_id' = 1
    BY DEF Reset, LiveIds, RetiredIds, Carriers, Positions
<1> QED
    BY <1>1 DEF Ledger!Clear

LEMMA LedgerInit == Init => Ledger!LInit
<1> SUFFICES ASSUME Init PROVE Ledger!LInit
    OBVIOUS
<1>1. LiveIds = {} /\ RetiredIds = {} /\ next_id = 1
    BY DEF Init, LiveIds, RetiredIds, Carriers, Positions
<1> QED
    BY <1>1 DEF Ledger!LInit

LEMMA LedgerStep ==
    ASSUME GalleryMinHits >= 1
    PROVE  TypeOK /\ PoolAlive /\ UniqueIdentity /\ TentativeSeen /\ [Next]_vars
              => [Ledger!LNext]_<<LiveIds, RetiredIds, next_id>>
<1> SUFFICES ASSUME TypeOK, PoolAlive, UniqueIdentity, TentativeSeen, [Next]_vars
             PROVE  [Ledger!LNext]_<<LiveIds, RetiredIds, next_id>>
    OBVIOUS
<1>1. ASSUME UNCHANGED <<tracks, gallery, next_id>>
      PROVE  UNCHANGED <<LiveIds, RetiredIds, next_id>>
    BY <1>1 DEF LiveIds, RetiredIds, Carriers, Positions
<1>2. CASE Reset
  <2>1. Ledger!Clear
    BY <1>2, ResetClears
  <2> QED
    BY <2>1 DEF Ledger!LNext
<1>3. CASE (\E ds : BeginFrame(ds)) \/ Stage1 \/ ReidStage \/ Stage2 \/ Stage3
    BY <1>3, MatchingStutters
<1>4. CASE Merge
  <2>1. PICK i \in Positions : \/ \E k \in DOMAIN gallery : ClaimsEntry(i, k)
                               \/ \E j \in Positions : ClaimsTwin(i, j)
    BY <1>4, MergeEffect
  <2>2. ASSUME NEW k \in DOMAIN gallery, ClaimsEntry(i, k)
        PROVE  Ledger!LNext
    <3>1. Ledger!Reclaim(gallery[k].id, tracks[i].id)
      BY <2>2, EntryReclaimed
    <3>2. gallery[k].id \in LiveIds \cup RetiredIds /\ tracks[i].id \in LiveIds \cup RetiredIds
      BY <3>1 DEF Ledger!Reclaim
    <3> QED
      BY <3>1, <3>2 DEF Ledger!LNext
  <2>3. ASSUME NEW j \in Positions, ClaimsTwin(i, j)
        PROVE  Ledger!LNext
    <3>1. Ledger!Converge(tracks[j].id, tracks[i].id)
      BY <2>3, TwinsConverged
    <3>2. tracks[j].id \in LiveIds \cup RetiredIds /\ tracks[i].id \in LiveIds \cup RetiredIds
      BY <3>1 DEF Ledger!Converge
    <3> QED
      BY <3>1, <3>2 DEF Ledger!LNext
  <2> QED
    BY <2>1, <2>2, <2>3
<1>5. ASSUME NEW d, Mint(d)
      PROVE  Ledger!LNext
  <2>1. Ledger!Mint
    BY <1>5, MintIsMint
  <2> QED
    BY <2>1 DEF Ledger!LNext
<1>6. ASSUME NEW d, Resurrect(d)
      PROVE  Ledger!LNext
  <2>1. PICK x \in RetiredIds : Ledger!Resurrect(x)
    BY <1>6, ResurrectIsResurrect
  <2> QED
    BY <2>1 DEF Ledger!LNext
<1>7. CASE HandOff
  <2>1. PICK j \in Positions' : cursor \in Positions /\ Inherits(j)
    BY <1>7, HandOffEffect
  <2>2. Ledger!Converge(tracks[cursor].id, tracks[Origin(j)].id)
    BY <2>1, HandOffConverges
  <2>3. /\ tracks[cursor].id \in LiveIds \cup RetiredIds
        /\ tracks[Origin(j)].id \in LiveIds \cup RetiredIds
    BY <2>2 DEF Ledger!Converge
  <2> QED
    BY <2>2, <2>3 DEF Ledger!LNext
<1>8. CASE Bury
  <2>1. ASSUME NEW x \in LiveIds,
               \/ Ledger!Forget(x)
               \/ Ledger!Retire(x)
               \/ \E y \in RetiredIds : Ledger!RetireInto(x, y)
        PROVE  Ledger!LNext
    BY <2>1 DEF Ledger!LNext
  <2> QED
    BY <1>8, <2>1, BurialRetires
<1>9. CASE EndFrame
  <2>1. Ledger!Expire
    BY <1>9, EndExpires
  <2> QED
    BY <2>1 DEF Ledger!LNext
<1>10. CASE MergeNone \/ MergeDone \/ Keep \/ BirthDone \/ UNCHANGED vars
    BY <1>1, <1>10 DEF MergeNone, MergeDone, Keep, BirthDone, vars
<1>11. ASSUME NEW d, NoBirth(d)
       PROVE  UNCHANGED <<LiveIds, RetiredIds, next_id>>
    BY <1>1, <1>11 DEF NoBirth
<1> QED
    BY <1>2, <1>3, <1>4, <1>5, <1>6, <1>7, <1>8, <1>9, <1>10, <1>11
       DEF Next, Step, MergePhase, BirthPhase, ReapPhase

LEMMA SeenAlways ==
    ASSUME GalleryMinHits >= 1
    PROVE  Spec => [](TypeOK /\ PoolAlive /\ UniqueIdentity /\ TentativeSeen)
<1>1. Init => PoolAlive /\ TentativeSeen
    BY DEF Init, PoolAlive, TentativeSeen, Positions
<1>2. TypeOK /\ PoolAlive /\ [Next]_vars => PoolAlive'
    BY PoolAliveStep
<1>3. TypeOK /\ TentativeSeen /\ [Next]_vars => TentativeSeen'
    BY SeenStep
<1>4. Spec => []UniqueIdentity
    BY StableIdentity
<1> QED
    BY <1>1, <1>2, <1>3, <1>4, TypeCorrect, PTL DEF Spec

(* The tracker implements the ledger, with gallery_min_hits >= 1: births   *)
(* mint or resurrect, merges and hand-offs make two identities one and     *)
(* keep the older, burials retire or forget, the end of a frame expires,   *)
(* and every other step of Tracker::step leaves the identities alone.      *)
THEOREM TrackerIsALedger ==
    ASSUME GalleryMinHits >= 1
    PROVE  Spec => ImplementsLedger
<1>1. TypeOK /\ PoolAlive /\ UniqueIdentity /\ TentativeSeen /\ [Next]_vars
          => [Ledger!LNext]_<<LiveIds, RetiredIds, next_id>>
    BY LedgerStep
<1>2. Spec => [](TypeOK /\ PoolAlive /\ UniqueIdentity /\ TentativeSeen)
    BY SeenAlways
<1> QED
    BY <1>1, <1>2, LedgerInit, PTL
       DEF Spec, ImplementsLedger, Ledger!LSpec, Ledger!ledger

(* The ledger keeps its promise: every identity in use was minted, and     *)
(* none is alive and remembered at once.                                   *)
LEMMA LedgerPromise == Ledger!LSpec => []Ledger!LedgerSound
<1>1. Ledger!LInit => Ledger!LedgerSound
  BY DEF Ledger!LInit, Ledger!LedgerSound
<1>2. Ledger!LedgerSound /\ [Ledger!LNext]_<<LiveIds, RetiredIds, next_id>>
          => Ledger!LedgerSound'
  <2> SUFFICES ASSUME Ledger!LedgerSound, [Ledger!LNext]_<<LiveIds, RetiredIds, next_id>>
               PROVE  Ledger!LedgerSound'
      OBVIOUS
  <2> USE DEF Ledger!LedgerSound
  <2>1. CASE UNCHANGED <<LiveIds, RetiredIds, next_id>>
    BY <2>1
  <2>2. CASE Ledger!Mint
    BY <2>2 DEF Ledger!Mint
  <2>3. CASE Ledger!Expire
    BY <2>3 DEF Ledger!Expire
  <2>4. CASE Ledger!Clear
    BY <2>4 DEF Ledger!Clear
  <2>5. ASSUME NEW x, Ledger!Resurrect(x) \/ Ledger!Retire(x) \/ Ledger!Forget(x)
        PROVE  Ledger!LedgerSound'
    BY <2>5 DEF Ledger!Resurrect, Ledger!Retire, Ledger!Forget
  <2>6. ASSUME NEW x, NEW y, Ledger!Reclaim(x, y) \/ Ledger!Converge(x, y)
        PROVE  Ledger!LedgerSound'
    BY <2>6 DEF Ledger!Reclaim, Ledger!Converge
  <2>7. ASSUME NEW x, NEW y, Ledger!RetireInto(x, y)
        PROVE  Ledger!LedgerSound'
    BY <2>7 DEF Ledger!RetireInto
  <2> QED
    BY <2>1, <2>2, <2>3, <2>4, <2>5, <2>6, <2>7 DEF Ledger!LNext
<1> QED
  BY <1>1, <1>2, PTL DEF Ledger!LSpec, Ledger!ledger

(* So does the tracker, which implements it: no identity is on a track and *)
(* in the gallery at once, and none is in use that next_id would still     *)
(* give out.                                                               *)
THEOREM IdentitiesMinted ==
    ASSUME GalleryMinHits >= 1
    PROVE  Spec => []Ledger!LedgerSound
BY TrackerIsALedger, LedgerPromise, PTL DEF ImplementsLedger
-----------------------------------------------------------------------------
(* An identity keeps its class.                                            *)

(* Whoever held the identity id, if it stood for an object of a settled    *)
(* class, that class was class.                                            *)
Kept(id, class) ==
    \/ \E i \in Carriers : /\ tracks[i].id = id
                           /\ tracks[i].state # "Tentative" => tracks[i].class = class
    \/ \E k \in DOMAIN gallery : gallery[k].id = id /\ gallery[k].class = class

AllKept ==
    /\ \A i \in Carriers' : tracks'[i].state # "Tentative" =>
                               Kept(tracks'[i].id, tracks'[i].class)
    /\ \A k \in DOMAIN gallery' : Kept(gallery'[k].id, gallery'[k].class)

ClassesStay == \A p \in Settled, q \in Settled' : p[1] = q[1] => p[2] = q[2]

(* An identity has one holder, so the class it was kept from is the class. *)
LEMMA KeptClasses ==
    ASSUME UniqueIdentity, AllKept
    PROVE  ClassesStay
<1>1. ASSUME NEW p \in Settled, NEW class, Kept(p[1], class)
      PROVE  p[2] = class
  <2>1. CASE \E i \in Carriers : tracks[i].state # "Tentative"
                                 /\ p = <<tracks[i].id, tracks[i].class>>
    <3>1. PICK i \in Carriers : tracks[i].state # "Tentative"
                                /\ p = <<tracks[i].id, tracks[i].class>>
      BY <2>1
    <3> QED
      BY <1>1, <3>1, IdsApart DEF Kept
  <2>2. CASE \E k \in DOMAIN gallery : p = <<gallery[k].id, gallery[k].class>>
    <3>1. PICK k \in DOMAIN gallery : p = <<gallery[k].id, gallery[k].class>>
      BY <2>2
    <3> QED
      BY <1>1, <3>1, IdsApart DEF Kept
  <2> QED
    BY <2>1, <2>2 DEF Settled
<1>2. ASSUME NEW q \in Settled'
      PROVE  Kept(q[1], q[2])
  <2>1. \/ \E i \in Carriers' : tracks'[i].state # "Tentative"
                                /\ q = <<tracks'[i].id, tracks'[i].class>>
        \/ \E k \in DOMAIN gallery' : q = <<gallery'[k].id, gallery'[k].class>>
    BY DEF Settled
  <2> QED
    BY <2>1 DEF AllKept
<1> QED
  <2>1. ASSUME NEW p \in Settled, NEW q \in Settled', p[1] = q[1]
        PROVE  p[2] = q[2]
    BY <1>1, <1>2, <2>1
  <2> QED
    BY <2>1 DEF ClassesStay

(* The identities of a step that moves none.                               *)
LEMMA StayingKept ==
    /\ \A i \in Carriers : Kept(tracks[i].id, tracks[i].class)
    /\ \A k \in DOMAIN gallery : Kept(gallery[k].id, gallery[k].class)
BY DEF Kept

LEMMA ClassStages ==
    ASSUME TypeOK, PoolAlive, TentativeSeen,
           \/ \E ds : BeginFrame(ds)
           \/ Stage1 \/ ReidStage \/ Stage2 \/ Stage3
    PROVE  AllKept
<1>0. \A i \in Positions : tracks[i] \in Tracklet
    BY DEF TypeOK, Positions
<1>1. ASSUME Positions' = Positions, gallery' = gallery,
             \A i \in Positions :
                /\ tracks'[i].id = tracks[i].id
                /\ Husk(tracks'[i]) <=> Husk(tracks[i])
                /\ tracks[i].state # "Tentative" => tracks'[i].class = tracks[i].class
      PROVE  AllKept
  <2>1. Carriers' = Carriers
    BY <1>1 DEF Carriers
  <2>2. ASSUME NEW i \in Carriers
        PROVE  Kept(tracks'[i].id, tracks'[i].class)
    <3>1. i \in Positions
      BY DEF Carriers
    <3> QED
      BY <1>1, <3>1 DEF Kept
  <2> QED
    BY <1>1, <2>1, <2>2, StayingKept DEF AllKept
<1>2. CASE \E ds : BeginFrame(ds)
  <2>1. PICK ds : BeginFrame(ds)
    BY <1>2
  <2>2. /\ Positions' = Positions /\ gallery' = gallery
        /\ \A i \in Positions : tracks'[i] \in {Predict(tracks[i]), tracks[i]}
    BY <2>1 DEF BeginFrame, Positions
  <2>3. ASSUME NEW i \in Positions
        PROVE  /\ tracks'[i].id = tracks[i].id
               /\ Husk(tracks'[i]) <=> Husk(tracks[i])
               /\ tracks'[i].class = tracks[i].class
    BY <1>0, <2>2, SameId, MissedTrack DEF Husk
  <2> QED
    BY <1>1, <2>2, <2>3
<1>3. CASE Stage1 \/ ReidStage \/ Stage2 \/ Stage3
  <2>1. \A i \in u_pool : tracks[i].state \in {"Confirmed", "Lost"} \/ Stage3
    BY <1>3 DEF PoolAlive, Stage1, ReidStage, Stage2
  <2>2. Stage3 => u_pool = {}
    BY DEF Stage3, TypeOK
  <2>3. ASSUME NEW i \in Positions
        PROVE  /\ tracks'[i].id = tracks[i].id
               /\ Husk(tracks'[i]) <=> Husk(tracks[i])
               /\ tracks[i].state # "Tentative" => tracks'[i].class = tracks[i].class
    <3>1. CASE tracks'[i] = tracks[i]
      BY <3>1
    <3>2. CASE tracks'[i] = MarkMissed(tracks[i])
      <4>1. tracks[i].state = "Tentative" => tracks[i].hits >= 1
        BY DEF TentativeSeen
      <4> QED
        BY <1>0, <3>2, <4>1, SameId, MissedTrack
    <3>3. CASE Corrected(i)
      <4>1. tracks[i].state # "Removed"
        BY <2>1, <2>2, <3>3 DEF Corrected
      <4>2. tracks'[i].state # "Removed"
        BY <1>0, <3>3, <4>1, MatchedTrack DEF Corrected
      <4>3. tracks'[i].id = tracks[i].id
        BY <1>0, <3>3, SameId DEF Corrected
      <4>4. tracks[i].state # "Tentative" => tracks'[i].class = tracks[i].class
        BY <1>0, <3>3, MatchedTrack DEF Corrected
      <4> QED
        BY <4>1, <4>2, <4>3, <4>4 DEF Husk
    <3> QED
      BY <1>3, <3>1, <3>2, <3>3, StageEffect
  <2> QED
    BY <1>1, <1>3, <2>3, StageEffect
<1> QED
    BY <1>2, <1>3

LEMMA ClassMerge ==
    ASSUME TypeOK, Merge
    PROVE  AllKept
<1>1. PICK i \in Positions : \/ \E k \in DOMAIN gallery : ClaimsEntry(i, k)
                             \/ \E j \in Positions : ClaimsTwin(i, j)
    BY MergeEffect
<1>2. ASSUME NEW k \in DOMAIN gallery, ClaimsEntry(i, k)
      PROVE  AllKept
  <2>1. /\ Kept(tracks'[i].id, tracks'[i].class)
        /\ \A o \in Carriers' \ {i} : o \in Carriers /\ tracks'[o] = tracks[o]
    BY <1>2 DEF ClaimsEntry, Kept, Carriers
  <2>2. ASSUME NEW l \in DOMAIN gallery'
        PROVE  \E m \in DOMAIN gallery : gallery'[l] = gallery[m]
    <3>1. gallery' = SwapRemove(gallery, k) /\ gallery \in Seq(GalleryEntry)
      BY <1>2 DEF ClaimsEntry, TypeOK
    <3>2. /\ DOMAIN gallery = 1 .. Len(gallery) /\ Len(gallery) \in Nat
          /\ k \in DOMAIN gallery
      BY <3>1
    <3>3. /\ DOMAIN gallery' = 1 .. Len(gallery) - 1
          /\ \A m \in 1 .. Len(gallery) - 1 :
                gallery'[m] = gallery[IF m = k THEN Len(gallery) ELSE m]
      BY <3>1, <3>2, SwapRemoveSeq
    <3>4. (IF l = k THEN Len(gallery) ELSE l) \in DOMAIN gallery
      BY <3>2, <3>3
    <3> QED
      BY <3>3, <3>4
  <2> QED
    BY <2>1, <2>2, StayingKept DEF AllKept
<1>3. ASSUME NEW j \in Positions, ClaimsTwin(i, j)
      PROVE  AllKept
  <2>1. j \in Carriers
    BY <1>3 DEF ClaimsTwin, Carriers, Husk
  <2>2. Kept(tracks'[i].id, tracks'[i].class)
    BY <1>3, <2>1 DEF ClaimsTwin, Kept
  <2>3. j \notin Carriers' /\ \A o \in Carriers' \ {i} : o \in Carriers /\ tracks'[o] = tracks[o]
    BY <1>3 DEF ClaimsTwin, Carriers
  <2>4. gallery' = gallery
    BY <1>3 DEF ClaimsTwin
  <2> QED
    BY <2>2, <2>3, <2>4, StayingKept DEF AllKept
<1> QED
    BY <1>1, <1>2, <1>3

LEMMA ClassBirth ==
    ASSUME TypeOK, NEW d \in u_high, Mint(d) \/ Resurrect(d)
    PROVE  AllKept
<1>1. CASE Mint(d)
  <2> DEFINE t == NewTracklet(next_id, dets[d])
  <2>1. tracks' = Append(tracks, t) /\ gallery' = gallery
    BY <1>1 DEF Mint
  <2>2. t.state = "Tentative" /\ ~Husk(t)
    BY DEF NewTracklet, Husk
  <2> HIDE DEF t
  <2>3. ASSUME NEW i \in Carriers', tracks'[i].state # "Tentative"
        PROVE  i \in Carriers /\ tracks'[i] = tracks[i]
    BY <2>1, <2>2, <2>3, BornHolds
  <2> QED
    BY <2>1, <2>3, StayingKept DEF AllKept
<1>2. CASE Resurrect(d)
  <2>1. PICK c \in Returning(d) :
            /\ tracks' = Append(tracks, Resurrected(gallery[c.at].id, d))
            /\ gallery' = SwapRemove(gallery, c.at)
    BY <1>2 DEF Resurrect
  <2> DEFINE k == c.at
             t == Resurrected(gallery[k].id, d)
  <2>2. k \in DOMAIN gallery /\ gallery[k].class = dets[d].class
    BY DEF Returning
  <2>3. t.id = gallery[k].id /\ t.class = dets[d].class /\ ~Husk(t)
    BY DEF Resurrected, NewTracklet, Husk
  <2>4. tracks' = Append(tracks, t)
    BY <2>1
  <2> HIDE DEF t
  <2>5. Kept(t.id, t.class)
    BY <2>2, <2>3 DEF Kept
  <2>6. ASSUME NEW i \in Carriers'
        PROVE  Kept(tracks'[i].id, tracks'[i].class)
    <3>1. \/ tracks'[i] = t
          \/ i \in Carriers /\ tracks'[i] = tracks[i]
      BY <2>3, <2>4, BornHolds
    <3> QED
      BY <2>5, <3>1, StayingKept
  <2>7. ASSUME NEW l \in DOMAIN gallery'
        PROVE  \E m \in DOMAIN gallery : gallery'[l] = gallery[m]
    <3>1. gallery \in Seq(GalleryEntry)
      BY DEF TypeOK
    <3>2. /\ DOMAIN gallery = 1 .. Len(gallery) /\ Len(gallery) \in Nat
          /\ k \in DOMAIN gallery
      BY <2>1, <2>2, <3>1
    <3>3. /\ DOMAIN gallery' = 1 .. Len(gallery) - 1
          /\ \A m \in 1 .. Len(gallery) - 1 :
                gallery'[m] = gallery[IF m = k THEN Len(gallery) ELSE m]
      BY <2>1, <2>2, <3>1, <3>2, SwapRemoveSeq
    <3>4. (IF l = k THEN Len(gallery) ELSE l) \in DOMAIN gallery
      BY <3>2, <3>3
    <3> QED
      BY <3>3, <3>4
  <2> QED
    BY <2>6, <2>7, StayingKept DEF AllKept
<1> QED
    BY <1>1, <1>2

LEMMA ClassReap ==
    ASSUME TypeOK, GalleryMinHits >= 1, HandOff \/ Bury
    PROVE  AllKept
<1>1. CASE HandOff
  <2>1. PICK j \in Positions' : cursor \in Positions /\ Inherits(j)
    BY <1>1, HandOffEffect
  <2>2. ASSUME NEW i \in Carriers'
        PROVE  Kept(tracks'[i].id, tracks'[i].class)
    <3>1. CASE i = j
      BY <2>1, <3>1 DEF Inherits, Kept
    <3>2. CASE i # j
      <4>1. tracks'[i] = tracks[Origin(i)] /\ Origin(i) \in Positions
        BY <2>1, <2>2, <3>2, ReapedVector DEF Inherits, Carriers
      <4>2. Origin(i) \in Carriers
        BY <4>1 DEF Carriers
      <4> QED
        BY <4>1, <4>2, StayingKept
    <3> QED
      BY <3>1, <3>2
  <2>3. gallery' = gallery
    BY <2>1 DEF Inherits
  <2> QED
    BY <2>2, <2>3, StayingKept DEF AllKept
<1>2. CASE Bury
  <2>1. ASSUME NEW i \in Carriers'
        PROVE  Kept(tracks'[i].id, tracks'[i].class)
    <3>1. tracks'[i] = tracks[Origin(i)] /\ Origin(i) \in Positions
      BY <1>2, <2>1, BuryEffect, ReapedVector DEF Carriers
    <3>2. Origin(i) \in Carriers
      BY <3>1 DEF Carriers
    <3> QED
      BY <3>1, <3>2, StayingKept
  <2>2. ASSUME NEW k \in DOMAIN gallery'
        PROVE  Kept(gallery'[k].id, gallery'[k].class)
    <3>1. CASE gallery' = gallery
      BY <3>1, StayingKept
    <3>2. ASSUME cursor \in Carriers, NEW l \in DOMAIN gallery, Entered(l)
          PROVE  Kept(gallery'[k].id, gallery'[k].class)
      <4>1. CASE k = l
        <5>1. /\ gallery'[k].id \in {gallery[l].id, tracks[cursor].id}
              /\ gallery'[k].class = tracks[cursor].class
              /\ gallery[l].class = tracks[cursor].class
          BY <3>2, <4>1 DEF Entered, OlderId
        <5> QED
          BY <3>2, <5>1 DEF Kept
      <4>2. CASE k # l
        <5>1. k \in DOMAIN gallery /\ gallery'[k] = gallery[k]
          BY <3>2, <4>2 DEF Entered
        <5> QED
          BY <5>1, StayingKept
      <4> QED
        BY <4>1, <4>2
    <3>3. CASE cursor \in Carriers /\ Appended
      <4>1. \/ k \in DOMAIN gallery /\ gallery'[k] = gallery[k]
            \/ /\ gallery'[k].id = tracks[cursor].id
               /\ gallery'[k].class = tracks[cursor].class
        BY <3>3 DEF Appended
      <4> QED
        BY <3>3, <4>1, StayingKept DEF Kept
    <3> QED
      BY <1>2, <3>1, <3>2, <3>3, BuryEffect
  <2> QED
    BY <2>1, <2>2 DEF AllKept
<1> QED
    BY <1>1, <1>2

LEMMA ClassStep ==
    ASSUME GalleryMinHits >= 1
    PROVE  TypeOK /\ PoolAlive /\ UniqueIdentity /\ TentativeSeen /\ [Next]_vars
              => ClassesStay
<1> SUFFICES ASSUME TypeOK, PoolAlive, UniqueIdentity, TentativeSeen, [Next]_vars
             PROVE  AllKept
    BY KeptClasses
<1>1. CASE Reset
  <2>1. Carriers' = {} /\ DOMAIN gallery' = {}
    BY <1>1 DEF Reset, Carriers, Positions
  <2> QED
    BY <2>1 DEF AllKept
<1>2. CASE (\E ds : BeginFrame(ds)) \/ Stage1 \/ ReidStage \/ Stage2 \/ Stage3
    BY <1>2, ClassStages
<1>3. CASE Merge
    BY <1>3, ClassMerge
<1>4. CASE \E d \in u_high : Mint(d) \/ Resurrect(d)
    BY <1>4, ClassBirth
<1>5. CASE HandOff \/ Bury
    BY <1>5, ClassReap
<1>6. CASE EndFrame
  <2>1. PICK from \in [1 .. Cardinality(Retained) -> Retained] :
            gallery' = [a \in DOMAIN from |-> gallery[from[a]]]
    BY <1>6 DEF EndFrame
  <2>2. \A a \in DOMAIN gallery' : from[a] \in DOMAIN gallery /\ gallery'[a] = gallery[from[a]]
    BY <2>1 DEF Retained
  <2>3. Carriers' = Carriers /\ tracks' = tracks
    BY <1>6 DEF EndFrame, Carriers, Positions
  <2> QED
    BY <2>2, <2>3, StayingKept DEF AllKept
<1>7. ASSUME UNCHANGED <<tracks, gallery>>
      PROVE  AllKept
  <2>1. Carriers' = Carriers
    BY <1>7 DEF Carriers, Positions
  <2> QED
    BY <1>7, <2>1, StayingKept DEF AllKept
<1>8. CASE MergeNone \/ MergeDone \/ Keep \/ BirthDone \/ UNCHANGED vars
    BY <1>7, <1>8 DEF MergeNone, MergeDone, Keep, BirthDone, vars
<1>9. ASSUME NEW d, NoBirth(d)
      PROVE  AllKept
    BY <1>7, <1>9 DEF NoBirth
<1> QED
    BY <1>1, <1>2, <1>3, <1>4, <1>5, <1>6, <1>8, <1>9
       DEF Next, Step, MergePhase, BirthPhase, ReapPhase

(* With gallery_min_hits >= 1, an identity that stands for an object of a  *)
(* settled class never stands for one of another, through matches across   *)
(* classes, losses, merges, hand-offs, the gallery and resurrections.      *)
THEOREM ClassOfIdentity ==
    ASSUME GalleryMinHits >= 1
    PROVE  Spec => IdentityKeepsClass
<1>1. TypeOK /\ PoolAlive /\ UniqueIdentity /\ TentativeSeen /\ [Next]_vars
          => [next_id' >= next_id =>
                \A p \in Settled, q \in Settled' : p[1] = q[1] => p[2] = q[2]]_vars
    BY ClassStep DEF ClassesStay
<1>2. Spec => [](TypeOK /\ PoolAlive /\ UniqueIdentity /\ TentativeSeen)
    BY SeenAlways
<1> QED
    BY <1>1, <1>2, PTL DEF Spec, IdentityKeepsClass
=============================================================================
