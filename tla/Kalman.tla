------------------------------- MODULE Kalman --------------------------------
(***************************************************************************)
(* The constant-velocity filter of a track, in exact fractions. The axes   *)
(* are reduced to the kinds that differ: 1 is a position with a velocity   *)
(* (depth, which alone may go unmeasured; px and py are always measured),  *)
(* 2 a size without one (w; h is another), 3 the velocity of the first.    *)
(*                                                                         *)
(* A fraction is <<numerator, denominator>> in lowest terms; a vector is a *)
(* matrix of one column.                                                   *)
(***************************************************************************)
EXTENDS Integers, Sequences

CONSTANTS
    StdDepth, StdSize, StdVelocityDepth,        \* process, per frame
    MeasDepth, MeasSize, MeasDepthMissing,      \* measurement
    NominalDepth, InitPosition, InitDepth, InitVelocityDepth,
    DepthValues, NoMeasure,     \* depths a detection may have, and none
    SizeValues,
    Scales,                     \* noise scales of weak and strong detections
    Durations,                  \* dt of a step
    MaxFilterSteps              \* bound

VARIABLES
    est,        \* [x, P]
    before,     \* est one call ago
    lastCall,       \* the last call
    filterCalls

kalmanVars == <<est, before, lastCall, filterCalls>>
------------------------------------------------------------------------------
Magnitude(n) == IF n < 0 THEN -n ELSE n
Gcd[a, b \in Nat] == IF b = 0 THEN a ELSE Gcd[b, a % b]
InLowestTerms(n, d) == LET g == Gcd[Magnitude(n), d] IN <<n \div g, d \div g>>
Integral(n) == <<n, 1>>

Plus(a, b) == LET g == Gcd[a[2], b[2]] IN InLowestTerms(a[1] * (b[2] \div g) + b[1] * (a[2] \div g), a[2] * (b[2] \div g))
Negated(a) == <<-a[1], a[2]>>
Times(a, b) ==
    LET g == Gcd[Magnitude(a[1]), b[2]]
        k == Gcd[Magnitude(b[1]), a[2]]
    IN  InLowestTerms((a[1] \div g) * (b[1] \div k), (a[2] \div k) * (b[2] \div g))
Reciprocal(a) == IF a[1] < 0 THEN <<-a[2], -a[1]>> ELSE <<a[2], a[1]>>

NX == 1 .. 3
NZ == 1 .. 2
(* A matrix is written out in three rows of three; one that has fewer ends *)
(* in zeros, which no product lets through.                                *)
Matrix(e(_, _)) == <<<<e(1, 1), e(1, 2), e(1, 3)>>, <<e(2, 1), e(2, 2), e(2, 3)>>, <<e(3, 1), e(3, 2), e(3, 3)>>>>
Product(M, N) ==
    LET Entry(i, j) == Plus(Plus(Times(M[i][1], N[1][j]), Times(M[i][2], N[2][j])), Times(M[i][3], N[3][j]))
    IN  Matrix(Entry)
Added(M, N) == Matrix(LAMBDA i, j : Plus(M[i][j], N[i][j]))
Difference(M, N) == Matrix(LAMBDA i, j : Plus(M[i][j], Negated(N[i][j])))
Transposed(M) == Matrix(LAMBDA i, j : M[j][i])
Diagonal(d) == Matrix(LAMBDA i, j : IF i = j THEN d[i] ELSE Integral(0))
Column(d) == Matrix(LAMBDA i, j : IF j = 1 THEN d[i] ELSE Integral(0))
Identity == Diagonal(<<Integral(1), Integral(1), Integral(1)>>)

(* try_inverse of a matrix of two rows.                                    *)
Determinant(M) == Plus(Times(M[1][1], M[2][2]), Negated(Times(M[1][2], M[2][1])))
Inverted(M) ==
    LET over == Reciprocal(Determinant(M))
        Entry(i, j) == IF 3 \in {i, j} THEN Integral(0)
                       ELSE Times(IF i = j THEN M[3 - i][3 - i] ELSE Negated(M[i][j]), over)
    IN  Matrix(Entry)
------------------------------------------------------------------------------
(* F, H, Q and R.                                                          *)
Transition(dt) ==
    Matrix(LAMBDA i, j : IF i = j THEN Integral(1) ELSE IF <<i, j>> = <<1, 3>> THEN Integral(dt) ELSE Integral(0))
Observation == Diagonal(<<Integral(1), Integral(1), Integral(0)>>)
ProcessNoise(dt) == Diagonal(<<Integral(dt * StdDepth ^ 2), Integral(dt * StdSize ^ 2), Integral(dt * StdVelocityDepth ^ 2)>>)
MeasurementNoise(present, scale) ==
    Diagonal(<<Integral(scale * (IF present THEN MeasDepth ELSE MeasDepthMissing) ^ 2), Integral(scale * MeasSize ^ 2), Integral(0)>>)

Born(depth, size) ==
    [ x |-> Column(<<Integral(IF depth = NoMeasure THEN NominalDepth ELSE depth), Integral(size), Integral(0)>>),
      P |-> Diagonal(<<Integral((IF depth = NoMeasure THEN InitDepth ELSE MeasDepth) ^ 2),
                       Integral(InitPosition ^ 2), Integral(InitVelocityDepth ^ 2)>>) ]

(* predict. Fault: the covariance is carried over from one side only.      *)
PredictedFault(e, dt) ==
    [x |-> Product(Transition(dt), e.x), P |-> Added(Product(Transition(dt), e.P), ProcessNoise(dt))]
Predicted(e, dt) ==
    [ x |-> Product(Transition(dt), e.x),
      P |-> Added(Product(Product(Transition(dt), e.P), Transposed(Transition(dt))), ProcessNoise(dt)) ]

(* The measurement: without a depth, the one that was predicted.           *)
Measured(e, depth, size) == Column(<<IF depth = NoMeasure THEN e.x[1][1] ELSE Integral(depth), Integral(size), Integral(0)>>)

(* The covariance in Joseph's form.                                        *)
Joseph(P, K, R) ==
    LET left == Difference(Identity, Product(K, Observation))
    IN  Added(Product(Product(left, P), Transposed(left)), Product(Product(K, R), Transposed(K)))

Corrected(e, depth, size, scale) ==
    LET R == MeasurementNoise(depth # NoMeasure, scale)
        S == Added(Product(Product(Observation, e.P), Transposed(Observation)), R)
        K == Product(Product(e.P, Transposed(Observation)), Inverted(S))
        y == Difference(Measured(e, depth, size), Product(Observation, e.x))
    IN  IF Determinant(S)[1] = 0 THEN e
        ELSE [x |-> Added(e.x, Product(K, y)), P |-> Joseph(e.P, K, R)]
------------------------------------------------------------------------------
KalmanInit ==
    /\ \E depth \in DepthValues \cup {NoMeasure}, size \in SizeValues : est = Born(depth, size)
    /\ before = est
    /\ lastCall = [op |-> "new"]
    /\ filterCalls = 0
KalmanOff == est = <<>> /\ before = <<>> /\ lastCall = [op |-> "off"] /\ filterCalls = 0

(* Every frame predicts; a frame that sees the object then corrects.       *)
Advance ==
    /\ filterCalls < MaxFilterSteps
    /\ filterCalls' = filterCalls + 1
    /\ before' = est
    /\ \/ \E dt \in Durations : est' = Predicted(est, dt) /\ lastCall' = [op |-> "predict", dt |-> dt]
       \/ /\ lastCall.op = "predict"
          /\ \E depth \in DepthValues \cup {NoMeasure}, size \in SizeValues, scale \in Scales :
                /\ est' = Corrected(est, depth, size, scale)
                /\ lastCall' = [op |-> "update", depth |-> depth, size |-> size, scale |-> scale]
------------------------------------------------------------------------------
(***************************************************************************)
(* What the filter must do whatever it is fed, against definitions of the  *)
(* same quantities in another form.                                        *)
(***************************************************************************)

Entry(M, i, j) == M[i][j]
NoiseOf(i) == Entry(MeasurementNoise(lastCall.depth # NoMeasure, lastCall.scale), i, i)

(***************************************************************************)
(* A correction adds information and nothing else: precisions add up, the  *)
(* estimate is the mean of prediction and measurement weighted by them,    *)
(* and the velocity learns in proportion to the position. The gain, its    *)
(* two products in Joseph's form and the scale of a weak detection's noise *)
(* must agree with one another for that to hold.                           *)
(***************************************************************************)
CorrectionAddsInformation ==
    lastCall.op = "update" =>
        LET z == Measured(before, lastCall.depth, lastCall.size)
            was(i) == Reciprocal(Entry(before.P, i, i))
            new(i) == Reciprocal(NoiseOf(i))
            now(i) == Reciprocal(Entry(est.P, i, i))
        IN  /\ \A i \in NZ :
                   /\ now(i) = Plus(was(i), new(i))
                   /\ Times(now(i), Entry(est.x, i, 1))
                        = Plus(Times(was(i), Entry(before.x, i, 1)), Times(new(i), Entry(z, i, 1)))
            /\ Times(Entry(est.P, 1, 3), Entry(before.P, 1, 1)) = Times(Entry(before.P, 1, 3), Entry(est.P, 1, 1))

(***************************************************************************)
(* After any sequence of predictions and corrections the covariance is     *)
(* that of some distribution: symmetric, positive on every axis and for    *)
(* the position and velocity together, and size stays independent of both. *)
(* update() may otherwise give up on a singular S, or a gain pushes an     *)
(* estimate away from what was measured.                                   *)
(***************************************************************************)
CovarianceSound ==
    lastCall.op # "off" =>
        /\ est.P = Transposed(est.P)
        /\ \A i \in NX : Entry(est.P, i, i)[1] > 0
        /\ Plus(Times(Entry(est.P, 1, 1), Entry(est.P, 3, 3)), Negated(Times(Entry(est.P, 1, 3), Entry(est.P, 3, 1))))[1] > 0
        /\ Entry(est.P, 1, 2)[1] = 0 /\ Entry(est.P, 2, 3)[1] = 0

(***************************************************************************)
(* A detection without a depth leaves depth and its velocity to the motion *)
(* model (image-plane fallback), though the same fixed-size update runs:   *)
(* neither moves, whatever the box does.                                   *)
(***************************************************************************)
DepthCoastsUnmeasured ==
    lastCall.op = "update" /\ lastCall.depth = NoMeasure =>
        \A i \in {1, 3} : Entry(est.x, i, 1) = Entry(before.x, i, 1)

(***************************************************************************)
(* Time that passes in one long step moves the estimate as far as the same *)
(* time in short ones, and leaves it less certain than a short one does:   *)
(* a dropped frame widens the prediction (update_dt).                      *)
(***************************************************************************)
TimeAddsUp ==
    lastCall.op # "off" =>
        LET one == Predicted(est, 1)
            two == Predicted(est, 2)
        IN  /\ two.x = Predicted(one, 1).x
            /\ Entry(two.P, 2, 2) = Entry(Predicted(one, 1).P, 2, 2)
            /\ \A i \in NX : Plus(Entry(two.P, i, i), Negated(Entry(one.P, i, i)))[1] > 0

(***************************************************************************)
(* The filter is one: what it knows grows by what it is told, fades with   *)
(* time, and stays a distribution.                                         *)
(***************************************************************************)
FilterSound == CovarianceSound /\ CorrectionAddsInformation /\ DepthCoastsUnmeasured /\ TimeAddsUp
==============================================================================
