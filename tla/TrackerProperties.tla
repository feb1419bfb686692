-------------------------- MODULE TrackerProperties --------------------------
(***************************************************************************)
(* What the tracker of module Tracker must keep true.                      *)
(***************************************************************************)
EXTENDS Tracker

(* Every field has its type, every stored position exists, and the loops   *)
(* never run past the vector they walk (Vec indexing would panic).         *)
TypeOK ==
    /\ tracks \in Seq(Tracklet)
    /\ gallery \in Seq(GalleryEntry)
    /\ next_id \in Nat /\ next_id >= 1
    /\ frame \in Nat
    /\ phase \in Phase
    /\ dets \in Seq(Detection)
    /\ u_pool \subseteq Positions
    /\ u_high \subseteq DOMAIN dets
    /\ cursor \in 1 .. Len(tracks) + 1
    /\ used \subseteq Positions \X DOMAIN dets
    /\ phase \notin {"stage1", "reid", "stage2"} => u_pool = {}
    /\ phase \notin {"merge", "birth", "reap"} => cursor = 1
    /\ phase \in {"idle", "reap"} => u_high = {} /\ used = {}

(* A husk is the dead record of a twin whose identity was taken over: it   *)
(* still shows the identity, but it is hit-less so that it can never pass  *)
(* it on. Every other record carries its identity.                         *)
Husk(t) == t.state = "Removed" /\ t.hits = 0
Carriers == {i \in Positions : ~Husk(tracks[i])}

LiveIds == {tracks[i].id : i \in Carriers}
RetiredIds == {gallery[k].id : k \in DOMAIN gallery}

(* Whoever holds an identity: a track that carries one, or a gallery entry *)
(* that remembers one.                                                     *)
Holders == {<<"track", i>> : i \in Carriers}
           \cup {<<"gallery", k>> : k \in DOMAIN gallery}
IdOf(h) == IF h[1] = "track" THEN tracks[h[2]].id ELSE gallery[h[2]].id

(* Stable identity: at every point of a frame, through merges, hand-offs,  *)
(* resurrections and the reshuffling of both vectors, no two tracks carry  *)
(* one identity, no two gallery entries remember one, nobody is both       *)
(* tracked and in the gallery, and every identity was minted by next_id.   *)
UniqueIdentity ==
    \A h \in Holders : /\ \A g \in Holders : IdOf(g) = IdOf(h) => g = h
                       /\ IdOf(h) < next_id

(* What makes it inductive: the positions the matching stages still work   *)
(* on are of live tracks, so that no match revives a husk.                 *)
PoolAlive ==
    phase \in {"stage1", "reid", "stage2"} =>
        \A i \in u_pool : tracks[i].state \in {"Confirmed", "Lost"}
IdentityInv == PoolAlive /\ UniqueIdentity

(* The tracker implements the identity ledger: identities appear only by   *)
(* minting or by leaving the gallery, two records of one object converge   *)
(* on the older identity, and a forgotten identity never returns.          *)
Ledger == INSTANCE IdentityLedger
             WITH live <- LiveIds, retired <- RetiredIds, next <- next_id

ImplementsLedger == Ledger!LSpec

(* What it rests on beside IdentityInv: a Tentative track has been seen, so *)
(* that one which dies unmatched is no husk and keeps its identity until   *)
(* the reap loop takes it out.                                             *)
TentativeSeen ==
    \A i \in Positions : tracks[i].state = "Tentative" => tracks[i].hits >= 1

(* In one frame a detection corrects or founds at most one track, and a    *)
(* track takes at most one detection, over all four stages and the births. *)
OneDetectionOneTrack ==
    \A p, q \in used : p[1] = q[1] \/ p[2] = q[2] => p = q

(* What makes it inductive: a detection that was taken is no longer         *)
(* offered; the first stages pair pool tracks with strong detections, the   *)
(* second one with weak ones, and no track they served is still Tentative   *)
(* when the third stage serves the Tentative ones.                         *)
Spent ==
    /\ u_high \subseteq High(dets)
    /\ \A p \in used : p[2] \notin u_high
    /\ phase \in {"stage1", "reid", "stage2"} =>
          \A p \in used : p[1] \notin u_pool /\ p[2] \in High(dets)
    /\ phase \in {"stage1", "reid", "stage2", "stage3"} =>
          \A p \in used : tracks[p[1]].state # "Tentative"
DetectionInv == Spent /\ OneDetectionOneTrack

(* Between two calls the pool is settled: nothing dead is left behind by   *)
(* the reap loop, every Lost track is within its buffer, and exactly the   *)
(* tracks that are not Lost matched in the last frame.                     *)
PoolSettled ==
    phase = "idle" =>
        \A i \in Positions :
            /\ tracks[i].state # "Removed"
            /\ tracks[i].state = "Lost" <=> ~tracks[i].matched
            /\ tracks[i].state = "Lost" => tracks[i].tsu \in 1 .. TrackBuffer
            /\ tracks[i].matched => tracks[i].tsu = 0

(* What makes it inductive: where a track stands in every phase of a call.  *)
Missed(t) == ~t.matched /\ t.tsu >= 1
Taken(t) == t.matched /\ t.tsu = 0

WhileMatching ==
    phase \in {"stage1", "reid", "stage2"} =>
        \A i \in Positions :
            \/ i \in u_pool /\ Missed(tracks[i])
            \/ tracks[i].state = "Tentative" /\ Missed(tracks[i])
            \/ /\ tracks[i].state = "Confirmed" /\ Taken(tracks[i])
               /\ i \notin u_pool
BeforeBirths ==
    phase = "stage3" =>
        \A i \in Positions :
            /\ tracks[i].state # "Removed"
            /\ tracks[i].state = "Confirmed" => Taken(tracks[i])
            /\ tracks[i].state # "Confirmed" => Missed(tracks[i])
AfterMatching ==
    phase \in {"merge", "birth", "reap"} =>
        \A i \in Positions :
            /\ tracks[i].state \in {"Tentative", "Confirmed"} => Taken(tracks[i])
            /\ tracks[i].state = "Lost" => Missed(tracks[i])
ReapedSoFar ==
    phase = "reap" => \A i \in 1 .. cursor - 1 : ~Expired(tracks[i])
LifeInv == /\ PoolSettled /\ WhileMatching /\ BeforeBirths
           /\ AfterMatching /\ ReapedSoFar

(* Between two calls the gallery holds at most its cap, and only entries   *)
(* that died in the last GalleryTtl frames (plus the one just counted).    *)
GalleryBounded ==
    phase = "idle" =>
        /\ Len(gallery) <= GalleryCap
        /\ \A k \in DOMAIN gallery :
              frame <= gallery[k].removed_frame + GalleryTtl + 1

(* What every call of update leaves behind.                                *)
BetweenCalls == PoolSettled /\ GalleryBounded

(* Where the track at position i of the reap loop's vector is afterwards.  *)
Survivor(i) == IF phase = "reap" /\ Len(tracks') < Len(tracks) /\ i = Len(tracks)
               THEN cursor ELSE i
Survivors == IF phase = "reap" /\ Len(tracks') < Len(tracks)
             THEN Positions \ {cursor} ELSE Positions

(* Ids only move toward older values: whatever merges, hands off or is     *)
(* deduplicated, no surviving track and no gallery entry gets a younger id *)
(* than it had.                                                            *)
OnlyOlder ==
    /\ \A i \in Survivors : tracks'[Survivor(i)].id <= tracks[i].id
    /\ phase = "reap" /\ phase' = "reap" =>
         \A k \in DOMAIN gallery : gallery'[k].id <= gallery[k].id
IdsOnlyMoveOlder ==
    [][phase \notin {"idle", "birth"} => OnlyOlder]_vars

(* The identities that stand for an object whose class is settled. *)
Settled == {<<tracks[i].id, tracks[i].class>> :
               i \in {i \in Carriers : tracks[i].state # "Tentative"}}
           \cup {<<gallery[k].id, gallery[k].class>> : k \in DOMAIN gallery}

(* An identity keeps its class on its way through matches of other classes, *)
(* losses, merges, the gallery and resurrections.                          *)
IdentityKeepsClass ==
    [][next_id' >= next_id =>
         \A p \in Settled, q \in Settled' : p[1] = q[1] => p[2] = q[2]]_vars

(* Every call of update returns: the reap loop, which removes from the     *)
(* vector it walks, and the other loops come to an end.                    *)
UpdateReturns == phase # "idle" ~> phase = "idle"
=============================================================================
