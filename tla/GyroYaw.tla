------------------------------ MODULE GyroYaw -------------------------------
(***************************************************************************)
(* The bias estimator of gyro_yaw.c run alone: any sequence of samples,    *)
(* valid or not, of a robot at rest or not, with any gaps between them.    *)
(* Beside the estimator runs a log of what was really sampled, the         *)
(* reference the calibration is judged by.  The estimator sees each sample *)
(* once and keeps sums; the log keeps the samples.                         *)
(***************************************************************************)
EXTENDS GyroYawOps, Sequences, Functions

CONSTANTS
    RAW_RATES,   \* the raw yaw rates a sample can report
    MAX_LOG      \* bound: samples remembered, more than any window can hold

ASSUME LogAssumption ==
    /\ RAW_RATES \subseteq Int
    /\ MAX_LOG \in Nat

VARIABLES
    estimator,
    log          \* observer: the samples since the last restart, newest first

gyroYawVars == <<estimator, log>>

\* Ages in the log saturate where no window can reach.
LOG_AGE_MAX == GYRO_WINDOW + GYRO_MAX_AGE + 1

GyroYawInit ==
    /\ estimator = gyro_yaw_begin
    /\ log = <<>>

\* wheels_restart_gyro_calibration, in what it does to the estimator.
Restart ==
    /\ estimator' = gyro_yaw_begin
    /\ log' = <<>>

\* Nothing behind a bad sample can be in a window, nor anything once calibrated.
Observe(rate, valid, still) ==
    LET sample == [age |-> 0, valid |-> valid, still |-> still, rate |-> rate]
    IN  /\ Len(log) < MAX_LOG
        /\ estimator' = gyro_yaw_observe(estimator, rate, valid, still)
        /\ log' = IF valid /\ still /\ ~estimator.calibrated THEN <<sample>> \o log ELSE <<sample>>

\* Samples too old for any window to reach them are forgotten; they are the last of the log.
GyroYawTick ==
    /\ estimator' = GyroOlder(estimator)
    /\ \E n \in 0 .. Len(log) :
           /\ \A k \in DOMAIN log : k <= n <=> log[k].age + 1 < LOG_AGE_MAX
           /\ log' = [k \in 1 .. n |-> [log[k] EXCEPT !.age = @ + 1]]

GyroYawNext ==
    \/ Restart
    \/ \E rate \in RAW_RATES, valid, still \in BOOLEAN : Observe(rate, valid, still)
    \/ GyroYawTick

GyroYawSpec == GyroYawInit /\ [][GyroYawNext]_gyroYawVars

-----------------------------------------------------------------------------
(* What a calibration must rest on, stated on the log. *)

\* The n newest samples of the log l were all valid and taken at rest, each after
\* the one before and within the largest gap.
CleanRun(l, n) ==
    /\ \A k \in 1 .. n : l[k].valid /\ l[k].still
    /\ \A k \in 1 .. n - 1 : l[k].age < l[k + 1].age /\ l[k + 1].age <= l[k].age + GYRO_MAX_AGE

SumOf(l, n) == SumFunctionOnSet([k \in 1 .. n |-> l[k].rate], 1 .. n)

Pairs(n) == {p \in (1 .. n) \X (1 .. n) : p[1] < p[2]}

\* The sum over all pairs of the squared difference of their rates: n (n - 1) times
\* the variance of the sample, without a mean in it.
SpreadOf(l, n) ==
    SumFunctionOnSet([p \in Pairs(n) |->
                         (l[p[1]].rate - l[p[2]].rate) * (l[p[1]].rate - l[p[2]].rate)], Pairs(n))

GoodWindow(l, n) ==
    /\ CleanRun(l, n)
    /\ l[n].age >= GYRO_WINDOW
    /\ n >= GYRO_MIN_SAMPLES /\ n > 1
    /\ SumOf(l, n) \in -GYRO_MAX_BIAS * n .. GYRO_MAX_BIAS * n
    /\ SpreadOf(l, n) <= GYRO_MAX_STDDEV * GYRO_MAX_STDDEV * n * (n - 1)

\* The bias is measured over samples that form one unbroken stationary run, long
\* enough, dense enough and quiet enough, and is the mean of exactly those.
CalibratesOnGoodWindow ==
    [][~estimator.calibrated /\ estimator'.calibrated
       => /\ estimator'.window.samples \in 1 .. Len(log')
          /\ GoodWindow(log', estimator'.window.samples)
          /\ estimator'.window.sum = SumOf(log', estimator'.window.samples)]_gyroYawVars

\* The other way round: when the samples of the open window and the new one make a
\* good window, the estimator is calibrated by it and does not start over.
GoodWindowCalibrates ==
    [][LET n == estimator.window.samples + 1
       IN  n <= Len(log') /\ log' # log /\ log'[1].age = 0 /\ GoodWindow(log', n)
           => estimator'.calibrated]_gyroYawVars

-----------------------------------------------------------------------------
(* What makes these properties provable: how the estimator stands to the log. *)

SquaresOf(l, n) == SumFunctionOnSet([k \in 1 .. n |-> l[k].rate * l[k].rate], 1 .. n)

Logged == [age : Nat, valid : BOOLEAN, still : BOOLEAN, rate : Int]

\* The next sample can join the last one.
Joinable == estimator.sample_valid /\ estimator.sample_age <= GYRO_MAX_AGE

\* As long as a sample can be joined it is the newest of the log.
NewestIsKnown ==
    LET known == log # <<>> /\ log[1].valid /\ log[1].age <= GYRO_MAX_AGE
    IN  /\ Joinable <=> known
        /\ known => log[1].age = estimator.sample_age

\* The window w holds exactly the newest samples of the log l.
Covers(w, l) ==
    LET n == w.samples
    IN  /\ n \in 1 .. Len(l)
        /\ CleanRun(l, n)
        /\ \A k \in 1 .. n : l[k].age <= l[n].age
        /\ w.age = IF l[n].age < GYRO_WINDOW THEN l[n].age ELSE GYRO_WINDOW
        /\ w.sum = SumOf(l, n) /\ w.squares = SquaresOf(l, n)

\* A window that can be joined has lost nothing of the log it covers.
WindowIsLogged ==
    LET w == estimator.window
    IN  /\ w.started \/ w = NoWindow
        /\ ~estimator.calibrated /\ w.started /\ Joinable =>
               Covers(w, log) /\ log[w.samples].age < log[1].age + GYRO_WINDOW

GyroYawInv ==
    /\ estimator \in GyroType /\ log \in Seq(Logged)
    /\ NewestIsKnown
    /\ WindowIsLogged
=============================================================================
