-------------------------------- MODULE Motion --------------------------------
(***************************************************************************)
(* The motion of one track: its Kalman filter, the gate that keeps wild    *)
(* depths out of it, and the rollback and replay (ORU) when it is seen     *)
(* again after frames without it. Positions are left out. A filter is what *)
(* went into it: the time it has been carried forward, the observations it *)
(* was corrected with, and whether its depth stems from a measured one or  *)
(* from the nominal depth it was born with. A missing depth is a           *)
(* measurement of huge variance at the depth the filter has already, so it *)
(* leaves the depth alone. Whether a depth fits the estimate is a choice.  *)
(***************************************************************************)
EXTENDS Integers, Sequences

CONSTANTS
    BirthDepths,        \* depths of the first detection: "none", "bad", "real"
    Intervals,          \* dt of update_dt, in nominal frames
    DEPTH_REJECT_MAX,
    OCM_DELTA,
    MaxAge              \* bound: frames followed

ASSUME MotionAssumption ==
    /\ BirthDepths \subseteq {"none", "bad", "real"}
    /\ Intervals \subseteq Int
    /\ DEPTH_REJECT_MAX \in Nat \ {0} /\ OCM_DELTA \in Nat /\ MaxAge \in Nat

VARIABLES
    oru,                \* TrackerConfig::oru
    kf, kf_snapshot,    \* [clock, obs, anchored]
    depth_measured,
    depth_reject_streak,
    age, time_since_update, hits,
    obs_hist,           \* for each observation kept: is its depth a measured one
    turn,               \* "frame", "seen" (predicted, not matched yet), "gone"
    now,                \* history: the time since birth
    refused             \* history: real depths kept out since the last that got in

motionVars == <<oru, kf, kf_snapshot, depth_measured, depth_reject_streak, age,
                time_since_update, hits, obs_hist, turn, now, refused>>

(* KalmanFilter3D::new, predict, update. A correction with a depth that is *)
(* not a measured one leaves the origin of the depth as it is.             *)
FilterNew(real) == [clock |-> 0, obs |-> 1, anchored |-> real]
FilterPredict(f, dt) == [f EXCEPT !.clock = @ + dt]
FilterUpdate(f, real) == [f EXCEPT !.obs = @ + 1, !.anchored = @ \/ real]
FilterVirtual(f, real) == [f EXCEPT !.anchored = @ \/ real]

(* Tracklet::new: a depth that is no depth seeds nothing, but counts as    *)
(* measured.                                                               *)
Birth(depth) ==
    /\ kf = FilterNew(depth = "real")
    /\ kf_snapshot = kf
    /\ depth_measured = (depth # "none")
    /\ obs_hist = <<depth = "real">>

(* Tracklet::predict. Every frame predicts, at the tracker's dt.           *)
Predict(dt) ==
    /\ turn = "frame" /\ age < MaxAge
    /\ kf' = FilterPredict(kf, dt)
    /\ now' = now + dt
    /\ age' = age + 1
    /\ time_since_update' = time_since_update + 1
    /\ turn' = "seen"
    /\ UNCHANGED <<oru, kf_snapshot, depth_measured, depth_reject_streak, hits, obs_hist, refused>>

(* Tracklet::mark_missed, of a track that is kept.                         *)
Miss ==
    /\ turn = "seen"
    /\ turn' = "frame"
    /\ UNCHANGED <<oru, kf, kf_snapshot, depth_measured, depth_reject_streak, age,
                   time_since_update, hits, obs_hist, now, refused>>

(* The innovation gate: is the depth taken, and how many in a row were not.*)
Taken(depth, fits) ==
    depth = "real" /\ (~depth_measured \/ fits \/ depth_reject_streak + 1 >= DEPTH_REJECT_MAX)
Streak(depth, fits) ==
    IF depth # "real" THEN depth_reject_streak
    ELSE IF Taken(depth, fits) THEN 0 ELSE depth_reject_streak + 1

(* reupdate_virtual: from the last observation on, one step per frame of   *)
(* the gap, all but the last corrected toward the straight path between    *)
(* the two places.                                                         *)
Replayed(ends) ==
    FilterVirtual(FilterPredict(kf_snapshot, time_since_update), depth_measured /\ ends)

Tail3(s) == IF Len(s) > OCM_DELTA + 1 THEN Tail(s) ELSE s

NowMeasured(depth, taken) == depth_measured \/ taken

(* Tracklet::update. Fault: the snapshot is the filter before the          *)
(* correction.                                                             *)
SnapshotFault(before, after) == before
Snapshot(before, after) == after
Update(depth, fits) ==
    LET taken == Taken(depth, fits)
        place == taken \/ kf.anchored       \* the depth of curr_world
        last == obs_hist[Len(obs_hist)]     \* the depth of last_world
        ahead == IF oru /\ time_since_update >= 2 THEN Replayed(last /\ place) ELSE kf
    IN  /\ turn = "seen"
        /\ kf' = FilterUpdate(ahead, taken)
        /\ kf_snapshot' = Snapshot(ahead, kf')
        /\ depth_measured' = NowMeasured(depth, taken)
        /\ depth_reject_streak' = Streak(depth, fits)
        /\ hits' = hits + 1
        /\ time_since_update' = 0
        /\ obs_hist' = Tail3(Append(obs_hist, place))
        /\ turn' = "frame"
        /\ refused' = IF taken THEN 0 ELSE IF depth = "real" THEN refused + 1 ELSE refused
        /\ UNCHANGED <<oru, age, now>>

MotionInit ==
    /\ oru \in BOOLEAN
    /\ \E depth \in BirthDepths : Birth(depth)
    /\ depth_reject_streak = 0 /\ age = 0 /\ time_since_update = 0 /\ hits = 1
    /\ turn = "frame" /\ now = 0 /\ refused = 0

MotionNext ==
    \/ \E dt \in Intervals : Predict(dt)
    \/ Miss
    \/ \E depth \in {"none", "bad", "real"}, fits \in BOOLEAN : Update(depth, fits)

MotionSpec == MotionInit /\ [][MotionNext]_motionVars

MotionOff ==
    /\ oru = FALSE /\ kf = FilterNew(FALSE) /\ kf_snapshot = kf /\ depth_measured = FALSE
    /\ depth_reject_streak = 0 /\ age = 0 /\ time_since_update = 0 /\ hits = 1
    /\ obs_hist = <<>> /\ turn = "gone" /\ now = 0 /\ refused = 0
------------------------------------------------------------------------------
(***************************************************************************)
(* What the filter of a track stands for, whatever gaps it has gone        *)
(* through.                                                                *)
(***************************************************************************)

(* Rolling back and replaying neither loses an observation nor takes one   *)
(* twice: between two frames the filter holds every match of the track.    *)
NoObservationLost == turn = "frame" => kf.obs = hits

(* "the constant-velocity prediction stays consistent under variable fps   *)
(* and dropped frames": the filter has been carried forward by the time    *)
(* that has passed, whether it coasted or was replayed.                    *)
ClockIsTime == kf.clock = now

(* A true depth is not locked out for ever by an estimate that has run     *)
(* away: of any DEPTH_REJECT_MAX measured depths in a row, with or without *)
(* frames that have none between them, one gets in.                        *)
TrueDepthGetsIn == refused < DEPTH_REJECT_MAX

(* "Whether a **real** depth measurement has ever corrected this track.    *)
(* Until it has, `pz` is the birth nominal (coasting) and must not gate    *)
(* association": measured_depth answers only from a measured depth.        *)
NominalNeverGates == depth_measured => kf.anchored

(* The history of a track is in its filter: every observation once and no  *)
(* true depth shut out for ever; all the time that has passed, for a       *)
(* tracker that is stepped by one nominal frame (update) or replays nothing; *)
(* and no birth depth that counts as measured, for detections whose depths *)
(* are depths.                                                             *)
(* Beyond that, the run for other intervals refutes the third, and a birth *)
(* from a bad depth the last, in its first state.                          *)
HistoryKept ==
    /\ NoObservationLost
    /\ TrueDepthGetsIn
    /\ Intervals = {1} \/ ~oru => ClockIsTime
    /\ "bad" \notin BirthDepths => NominalNeverGates
==============================================================================
