----------------------------- MODULE GyroYawOps -----------------------------
(***************************************************************************)
(* gyro_yaw.c: the bias estimator of the yaw gyro, as operators on a       *)
(* record `g`.  The firmware owns one such record; GyroYaw.tla runs it     *)
(* alone, Wheels.tla runs it inside the drive.                             *)
(*                                                                         *)
(* Times are ages: g.sample_age stands for now - last_sample_us and        *)
(* g.window.age for now - window_start_us.  Every age saturates one tick   *)
(* past the threshold the code compares it with, so no comparison changes. *)
(* Welford's mean and m2 are kept as the exact integers they stand for:    *)
(* the sum and the sum of squares of the samples of the window.            *)
(***************************************************************************)
EXTENDS Integers

CONSTANTS
    GYRO_MAX_AGE,      \* cfg.max_gap_us: largest gap between two samples, and age of a fresh rate
    GYRO_WINDOW,       \* cfg.window_us: length of the calibration window
    GYRO_MIN_SAMPLES,  \* cfg.min_samples
    GYRO_MAX_BIAS,     \* cfg.max_bias
    GYRO_MAX_STDDEV    \* cfg.max_stddev

ASSUME GyroAssumption ==
    /\ GYRO_MAX_AGE \in Nat \ {0}
    /\ GYRO_WINDOW \in Nat \ {0}
    /\ GYRO_MIN_SAMPLES \in Nat \ {0}
    /\ GYRO_MAX_BIAS \in Nat
    /\ GYRO_MAX_STDDEV \in Nat

\* An age one tick later, saturated at `top`.
Older(age, top) == IF age < top THEN age + 1 ELSE top

WindowType ==
    [started : BOOLEAN, age : 0 .. GYRO_WINDOW, samples : Nat, sum : Int, squares : Int]

GyroType ==
    [calibrated : BOOLEAN, sample_valid : BOOLEAN,
     sample_age : 0 .. GYRO_MAX_AGE + 1, window : WindowType]

NoWindow == [started |-> FALSE, age |-> 0, samples |-> 0, sum |-> 0, squares |-> 0]

\* gyro_yaw_begin: memset, so a restart forgets a bias already measured.
gyro_yaw_begin ==
    [calibrated |-> FALSE, sample_valid |-> FALSE, sample_age |-> 0, window |-> NoWindow]

\* Mutant: the counter of the old window is kept.
restart_window_KeepsSamples(g) ==
    [g EXCEPT !.window = [NoWindow EXCEPT !.samples = g.window.samples]]

restart_window(g) == [g EXCEPT !.window = NoWindow]

\* Mutant: one sample more than the minimum is asked for.
WindowAccepted_OffByOne(w) ==
    LET n == w.samples
    IN  /\ n > GYRO_MIN_SAMPLES /\ n > 1
        /\ (IF w.sum < 0 THEN -w.sum ELSE w.sum) <= GYRO_MAX_BIAS * n
        /\ n * w.squares - w.sum * w.sum <= GYRO_MAX_STDDEV * GYRO_MAX_STDDEV * n * (n - 1)

\* |mean| <= max_bias and stddev <= max_stddev, both multiplied out:
\* m2 = squares - sum^2 / n and stddev^2 = m2 / (n - 1), infinite for n = 1.
WindowAccepted(w) ==
    LET n == w.samples
        mean_n == IF w.sum < 0 THEN -w.sum ELSE w.sum
    IN  /\ n >= GYRO_MIN_SAMPLES
        /\ mean_n <= GYRO_MAX_BIAS * n
        /\ n > 1
        /\ n * w.squares - w.sum * w.sum <= GYRO_MAX_STDDEV * GYRO_MAX_STDDEV * n * (n - 1)

\* One sample added to a window, which it opens if it is not started.
AddSample(w, rate) ==
    [started |-> TRUE, age |-> IF w.started THEN w.age ELSE 0,
     samples |-> w.samples + 1, sum |-> w.sum + rate, squares |-> w.squares + rate * rate]

\* Mutant: a read failure restarts the window of a calibrated gyro as well.
DropSample_Always(g) ==
    restart_window([g EXCEPT !.sample_valid = FALSE, !.sample_age = 0])

\* An invalid sample: the rate is void, and so is a window being measured.
DropSample(g) ==
    LET dropped == [g EXCEPT !.sample_valid = FALSE, !.sample_age = 0]
    IN  IF g.calibrated THEN dropped ELSE restart_window(dropped)

\* gyro_yaw_observe.  `valid` is the caller's flag with isfinite(raw_rate) in it.
\* After calibration the window stands still and its mean is the bias.
gyro_yaw_observe(g, rate, valid, stationary) ==
    LET gap == ~g.sample_valid \/ g.sample_age = 0 \/ g.sample_age > GYRO_MAX_AGE
        taken == [g EXCEPT !.sample_age = 0, !.sample_valid = TRUE]
        window == AddSample(IF gap THEN NoWindow ELSE g.window, rate)
    IN  CASE ~valid -> DropSample(g)
          [] valid /\ g.calibrated -> taken
          [] valid /\ ~g.calibrated /\ ~stationary -> restart_window(taken)
          [] valid /\ ~g.calibrated /\ stationary /\ window.age < GYRO_WINDOW ->
               [taken EXCEPT !.window = window]
          [] OTHER -> IF WindowAccepted(window)
                      THEN [taken EXCEPT !.window = window, !.calibrated = TRUE]
                      ELSE restart_window(taken)

\* gyro_yaw_get succeeds: a bias is known and the last sample is recent.
GyroFresh(g) == g.calibrated /\ g.sample_valid /\ g.sample_age <= GYRO_MAX_AGE

\* The clock moves on by one tick.
GyroOlder(g) ==
    [g EXCEPT !.sample_age = IF g.sample_valid THEN Older(@, GYRO_MAX_AGE + 1) ELSE 0,
              !.window.age = IF g.window.started THEN Older(@, GYRO_WINDOW) ELSE 0]
=============================================================================
