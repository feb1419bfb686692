------------------------------- MODULE MCParts -------------------------------
(***************************************************************************)
(* Instances of the parts that stand alone, one job of them at a time: the *)
(* fit of pictures, the batch programs and the hub that finds their        *)
(* engines; what surrounds the tracker in a frame, that is the assignment  *)
(* of detections, the geometry of boxes, the motion of a track, its filter *)
(* and the pictures of the result; the matcher of descriptors; and what is *)
(* sampled for an object. The jobs at rest are idle.                       *)
(***************************************************************************)
EXTENDS BatchToolsProperties, ModelHubProperties,
        Association, Geometry, Motion, Painting,
        Matching, Sampling, Kalman

VARIABLE job

File(stem, ext, size, whole) == [stem |-> stem, ext |-> ext, size |-> size, whole |-> whole]
Small == <<3, 2>>
Wide == <<9, 6>>
Tiny == <<1, 3>>

SomeDirectories ==
    { {},
      {File(1, "jpg", Small, TRUE), File(2, "png", Wide, TRUE), File(3, "jpeg", Small, TRUE)},
      {File(1, "jpg", Wide, TRUE), File(2, "jpg", Wide, FALSE), File(3, "jpg", Wide, TRUE)},
      {File(1, "jpg", Wide, TRUE), File(2, "PNG", Small, TRUE), File(3, "JPEG", Small, TRUE), File(4, "txt", Small, TRUE)},
      {File(1, "jpg", Tiny, TRUE), File(2, "jpg", Small, TRUE)} }
SomePairLists == { <<>>, << <<1, 2>>, <<>> >>, << <<2, 2>> >>, << <<1, 2>>, <<3, 2>>, <<2, 1>>, <<3, 1>> >> }
SomeExtractors == { [fp |-> 1, k |-> 1, maxSide |-> 6], [fp |-> 2, k |-> 1, maxSide |-> 10] }
SomePictures == {<<w, h>> : w \in 1 .. 7, h \in 1 .. 7}

Jetson == <<"10.3.0.30", "87">>
Desktop == <<"10.3.0.30", "89">>
SomeBoxes == {Jetson, Desktop}
SomeRequests ==
    { RacoFromHub("raco_k512"), XFeatFromHubStereo(650, 480),
      DinoFromHub, OsNetFromHub, Ask("glue_k1024", GlueProfile(1024)),
      Ask("dino", Profile(TRUE, TRUE, Static)), Ask("dino", Profile(TRUE, FALSE, Static)) }
AlsoLightGlue == {GlueFromHub(1024), OsNetFromHub}
------------------------------------------------------------------------------
(* Costs in fortieths: One is 40, as the thresholds of the defaults fall   *)
(* on whole fortieths; the gate of the re-id stage is that of OSNet.       *)
Pair(overlap, embedding, centre, against, apart, kin) ==
    [overlap |-> overlap, embedding |-> embedding, centre |-> centre, turn |-> against,
     apart |-> apart, kin |-> kin]
Plain(overlap) == Pair(overlap, NoValue, One, NoValue, FALSE, TRUE)
ReidPair(dist, apart, kin) == Pair(One, dist, One, NoValue, apart, kin)
Table(kinds, rows, cols) == [1 .. rows -> [1 .. cols -> kinds]]

StrongPairs ==
    { Plain(4), Plain(40), Pair(18, 2, 40, 8, FALSE, TRUE), Pair(22, 2, 40, 0, FALSE, TRUE),
      Pair(4, 12, 40, 0, TRUE, TRUE), Pair(70, 2, 40, 4, TRUE, TRUE) }
WeakPairs ==
    { Plain(4), Plain(40), Pair(30, NoValue, 0, NoValue, FALSE, TRUE), Pair(30, NoValue, 0, NoValue, TRUE, TRUE) }
TentativePairs == {Plain(4), Plain(36), Pair(18, 4, 40, NoValue, TRUE, TRUE)}
ReidPairs ==
    { ReidPair(0, FALSE, FALSE), ReidPair(0, FALSE, TRUE), ReidPair(3, FALSE, TRUE),
      ReidPair(10, FALSE, TRUE), ReidPair(12, FALSE, TRUE), ReidPair(0, TRUE, TRUE) }
(* Three tracks, of which some cross at different depths.                  *)
Behind(overlap) == Pair(overlap, NoValue, One, NoValue, TRUE, TRUE)
CrossingRows == {<<Plain(12), Behind(2), Plain(30)>>, <<Behind(1), Plain(4), Behind(0)>>, <<Plain(30), Behind(6), Plain(8)>>}
Crossings == [1 .. 3 -> CrossingRows]
(* Squares of rows that contend for the same columns.                      *)
SomeRows == {<<0, 4, 12, 4>>, <<0, 0, 12, 30>>, <<4, 0, 4, 12>>, <<12, 4, 0, 0>>}
Square(n) == {[r \in 1 .. n |-> [c \in 1 .. n |-> Plain(rows[r][c])]] : rows \in [1 .. n -> SomeRows]}
SomeTables ==
    [strong    |-> Table(StrongPairs, 2, 2) \cup Crossings \cup Square(3) \cup Square(4)
                   \cup Table({Plain(k) : k \in {0, 4, 30}}, 2, 3) \cup Table({Plain(k) : k \in {4, 30}}, 3, 2)
                   \cup Table(StrongPairs, 0, 0) \cup Table(StrongPairs, 1, 0),
     reid      |-> Table(ReidPairs, 2, 2) \cup Table(ReidPairs, 1, 3)
                   \cup Table({ReidPair(0, FALSE, TRUE), ReidPair(3, FALSE, TRUE), ReidPair(10, FALSE, TRUE)}, 2, 3),
     weak      |-> Table(WeakPairs, 2, 2),
     tentative |-> Table(TentativePairs, 2, 2)]

SomeImageBoxes ==
    { <<0, 0, 4, 2>>, <<0, 0, 2, 4>>, <<1, 0, 3, 2>>, <<2, 1, 6, 3>>, <<4, 0, 6, 2>>, <<0, 0, 6, 6>>,
      <<3, 3, 5, 5>>, <<2, 3, 5, 5>>, <<0, 0, 1, 4>>, <<3, 0, 3, 4>>, <<5, 5, 3, 3>>, <<4, 5, 6, 6>>, <<0, 4, 1, 5>> }
SomeCameras == {[fx |-> 1, fy |-> 1, cx |-> 2, cy |-> 1], [fx |-> 2, fy |-> 1, cx |-> 0, cy |-> 2]}
SomeFrame == <<5, 4>>
SomeCoefficients == {-3, -1, 0, 2}

SomeEnds == (-3 .. 3) \X (-2 .. 3)
SomeSizes == (1 .. 4) \X (1 .. 4)
InPlan(place) == place # "off"

(* Cosines in tenths.                                                      *)
SomeKinds == {"a", "b", "c", "nan"}
Alike(x, y) == IF "nan" \in {x, y} THEN NotANumber ELSE IF x = y THEN 10 ELSE IF {x, y} = {"a", "c"} THEN 3 ELSE 7
SomeLikeness == [k \in SomeKinds \X SomeKinds |-> Alike(k[1], k[2])]
Described(rows, count, dim) == [rows |-> rows, count |-> count, dim |-> dim]
SomeSets ==
    {Described(<<x, y, "a">>, 2, d) : x, y \in SomeKinds, d \in {2, 3}}
    \cup {Described(r, 3, d) : r \in {<<"a", "b", "c">>, <<"c", "b", "b">>, <<"nan", "nan", "a">>}, d \in {2, 3}}
    \cup { Described(<<"a", "b", "c">>, 0, 2), Described(<<"a", "b">>, 3, 2),
            Described(<<"a", "b", "c", "a">>, 4, 2), Described(<<"b", "b", "a">>, 1, 3) }
SomeAgainSets == {Described(<<"b", "c", "a">>, 1, 2), Described(<<"c", "a", "b">>, 1, 3)}

DepthMap(w, h, Z(_, _)) == [size |-> <<w, h>>, z |-> [o \in (0 .. w - 1) \X (0 .. h - 1) |-> Z(o[1], o[2])]]
SomeDepthMaps ==
    { DepthMap(4, 3, LAMBDA x, y : 1 + x + 5 * y), DepthMap(4, 3, LAMBDA x, y : IF (x + y) % 2 = 0 THEN 0 ELSE 3 + x),
      DepthMap(10, 6, LAMBDA x, y : 2 + x * x + y) }
Object(bbox, mask) == [box |-> bbox, mask |-> mask]
Spans ==
    { <<-2, 1>>, <<-3, -1>>, <<0, 2>>, <<0, 8>>, <<1, 5>>, <<3, 4>>, <<4, 8>>, <<5, 11>>, <<6, 6>>, <<5, 3>>,
      <<9, 12>>, <<2, 6>> }
SomeDetections ==
    {<<Object(<<x[1], y[1], x[2], y[2]>>, {0, 2})>> : x, y \in Spans}
    \cup {<<Object(<<1, 1, 6, 5>>, cells)>> : cells \in SUBSET (0 .. 5)}
    \cup {<<>>, <<Object(<<1, 1, 6, 5>>, {1}), Object(<<2, 0, 8, 4>>, {3, 4})>>}
SomeLaterDetections == {<<>>, <<Object(<<0, 0, 8, 6>>, {0, 5})>>}
SomeSourceSizes == {<<8, 6>>, <<12, 9>>, <<0, 6>>}
SomeMaskSize == <<3, 2>>
SomeCropGrid == <<4, 5>>
SomeHeads ==
    { [q |-> 2, classes |-> 2, slots |-> 6, ch |-> 8], [q |-> 3, classes |-> 2, slots |-> 4, ch |-> 3],
      [q |-> 2, classes |-> 3, slots |-> 9, ch |-> 7], [q |-> 2, classes |-> 2, slots |-> 5, ch |-> 7] }
------------------------------------------------------------------------------
toolVars == <<fit, batchVars, hubVars>>
trackVars == <<associationVars, scene, motionVars, kalmanVars>>
frameVars == <<paintVars, matchVars, samplingVars>>
vars == <<job, toolVars, trackVars, frameVars>>

ToolsOff == FitOff /\ BatchOff /\ HubOff
TrackOff == AssociationOff /\ GeometryOff /\ MotionOff /\ KalmanOff
FrameOff == PaintOff /\ MatchOff /\ SamplingOff

Init ==
    \/ job = "fit" /\ FitInit /\ BatchOff /\ HubOff /\ TrackOff /\ FrameOff
    \/ job = "batch" /\ FitOff /\ BatchInit /\ HubOff /\ TrackOff /\ FrameOff
    \/ job = "hub" /\ FitOff /\ BatchOff /\ HubInit /\ TrackOff /\ FrameOff
    \/ job = "associate" /\ ToolsOff /\ AssociationInit /\ GeometryOff /\ MotionOff /\ KalmanOff /\ FrameOff
    \/ job = "measure" /\ ToolsOff /\ AssociationOff /\ GeometryInit /\ MotionOff /\ KalmanOff /\ FrameOff
    \/ job = "move" /\ ToolsOff /\ AssociationOff /\ GeometryOff /\ MotionInit /\ KalmanOff /\ FrameOff
    \/ job = "filter" /\ ToolsOff /\ AssociationOff /\ GeometryOff /\ MotionOff /\ KalmanInit /\ FrameOff
    \/ job = "paint" /\ ToolsOff /\ TrackOff /\ PaintInit /\ MatchOff /\ SamplingOff
    \/ job = "match" /\ ToolsOff /\ TrackOff /\ PaintOff /\ MatchInit /\ SamplingOff
    \/ job = "sample" /\ ToolsOff /\ TrackOff /\ PaintOff /\ MatchOff /\ SamplingInit

Fitting == job = "fit" /\ FitNext /\ UNCHANGED <<job, batchVars, hubVars, trackVars, frameVars>>
Batch(Act) == job = "batch" /\ Act /\ UNCHANGED <<job, fit, hubVars, trackVars, frameVars>>
Hub(Act) == job = "hub" /\ Act /\ UNCHANGED <<job, fit, batchVars, trackVars, frameVars>>
Associating == job = "associate" /\ Associate /\ UNCHANGED <<job, toolVars, scene, motionVars, kalmanVars, frameVars>>
Moving == job = "move" /\ MotionNext /\ UNCHANGED <<job, toolVars, associationVars, scene, kalmanVars, frameVars>>
Filtering == job = "filter" /\ Advance /\ UNCHANGED <<job, toolVars, associationVars, scene, motionVars, frameVars>>
Drawing == job = "paint" /\ PaintNext /\ UNCHANGED <<job, toolVars, trackVars, matchVars, samplingVars>>
Comparing == job = "match" /\ MatchNext /\ UNCHANGED <<job, toolVars, trackVars, paintVars, samplingVars>>
Probing == job = "sample" /\ SamplingNext /\ UNCHANGED <<job, toolVars, trackVars, paintVars, matchVars>>

Next ==
    \/ Fitting \/ Batch(BatchNext) \/ Hub(HubNext) \/ Associating \/ Moving \/ Filtering
    \/ Drawing \/ Comparing \/ Probing

(* Only the job at hand can step, so one fairness serves all of them.      *)
Steady == Batch(Work) \/ (\E c \in Caller : Hub(Progress(c))) \/ Associating
Spec == Init /\ [][Next]_vars /\ WF_vars(Steady)
==============================================================================
