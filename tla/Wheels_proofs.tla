--------------------------- MODULE Wheels_proofs ----------------------------
(***************************************************************************)
(* Every function of wheels.c keeps WheelsInv, for any number of wheels    *)
(* and any outcome of every exchange.  The main loops' proofs cite one     *)
(* lemma per function they call.                                           *)
(***************************************************************************)
EXTENDS Wheels, TLAPS

-----------------------------------------------------------------------------
(* The estimator of gyro_yaw.c, for every window length, gap, limit and rate. *)

\* Age zero is an age.
LEMMA AgeZeroType == 0 \in 0 .. GYRO_MAX_AGE + 1
BY GyroAssumption

\* An empty window is a window.
LEMMA NoWindowType == NoWindow \in WindowType
BY GyroAssumption DEF NoWindow, WindowType

\* gyro_yaw_begin makes a well-formed estimator that knows no bias.
LEMMA BeginType ==
    gyro_yaw_begin \in GyroType /\ ~gyro_yaw_begin.calibrated
BY NoWindowType, GyroAssumption DEF gyro_yaw_begin, GyroType

\* A window with one sample more is a window.
LEMMA AddSampleType ==
    ASSUME NEW w \in WindowType, NEW rate \in Int
    PROVE  AddSample(w, rate) \in WindowType
<1> DEFINE age == IF w.started THEN w.age ELSE 0
           squares == w.squares + rate * rate
<1>1. age \in 0 .. GYRO_WINDOW
  BY GyroAssumption DEF WindowType
<1>2. squares \in Int /\ w.samples + 1 \in Nat /\ w.sum + rate \in Int
  BY DEF WindowType
<1>3. AddSample(w, rate) = [started |-> TRUE, age |-> age, samples |-> w.samples + 1,
                            sum |-> w.sum + rate, squares |-> squares]
  BY DEF AddSample
<1> HIDE DEF age, squares
<1>4. QED
  BY <1>1, <1>2, <1>3 DEF WindowType

\* Starting a window over keeps the estimator well-formed and its verdict.
LEMMA RestartWindowType ==
    ASSUME NEW g \in GyroType
    PROVE  /\ restart_window(g) \in GyroType
           /\ restart_window(g).calibrated = g.calibrated
BY NoWindowType DEF restart_window, GyroType

\* Dropping an invalid sample keeps the estimator well-formed and its verdict.
LEMMA DropSampleType ==
    ASSUME NEW g \in GyroType
    PROVE  /\ DropSample(g) \in GyroType
           /\ DropSample(g).calibrated = g.calibrated
<1> DEFINE dropped == [g EXCEPT !.sample_valid = FALSE, !.sample_age = 0]
<1>1. dropped \in GyroType /\ dropped.calibrated = g.calibrated
  BY AgeZeroType DEF GyroType
<1>2. restart_window(dropped) \in GyroType /\ restart_window(dropped).calibrated = g.calibrated
  BY <1>1, RestartWindowType
<1>3. QED
  BY <1>1, <1>2 DEF DropSample

\* Whatever is sampled, the estimator stays well-formed, and a bias once known is
\* not given up: neither a gap nor a read failure nor a motion uncalibrates the gyro.
THEOREM ObserveKeepsCalibration ==
    ASSUME NEW g \in GyroType, NEW rate \in Int,
           NEW valid \in BOOLEAN, NEW stationary \in BOOLEAN
    PROVE  /\ gyro_yaw_observe(g, rate, valid, stationary) \in GyroType
           /\ g.calibrated => gyro_yaw_observe(g, rate, valid, stationary).calibrated
<1> DEFINE gap == ~g.sample_valid \/ g.sample_age = 0 \/ g.sample_age > GYRO_MAX_AGE
           taken == [g EXCEPT !.sample_age = 0, !.sample_valid = TRUE]
           base == IF gap THEN NoWindow ELSE g.window
           window == AddSample(base, rate)
           added == [taken EXCEPT !.window = window]
           done == [taken EXCEPT !.window = window, !.calibrated = TRUE]
           new == gyro_yaw_observe(g, rate, valid, stationary)
<1>1. taken \in GyroType /\ taken.calibrated = g.calibrated
  BY AgeZeroType DEF GyroType
<1>2. /\ restart_window(taken) \in GyroType
      /\ restart_window(taken).calibrated = g.calibrated
  BY <1>1, RestartWindowType
<1>3. base \in WindowType
  BY NoWindowType DEF GyroType
<1>4. window \in WindowType
  <2> HIDE DEF base
  <2> QED
    BY <1>3, AddSampleType
<1>5. added \in GyroType /\ done \in GyroType
  <2> HIDE DEF taken, window
  <2> QED
    BY <1>1, <1>4 DEF GyroType
<1>6. CASE ~valid
  <2>1. new = DropSample(g)
    BY <1>6 DEF gyro_yaw_observe
  <2>2. QED
    BY <2>1, DropSampleType
<1>7. CASE valid /\ g.calibrated
  <2>1. new = taken
    BY <1>7 DEF gyro_yaw_observe
  <2>2. QED
    BY <2>1, <1>1
<1>8. CASE valid /\ ~g.calibrated
  <2>1. new \in {restart_window(taken), added, done}
    BY <1>8 DEF gyro_yaw_observe
  <2>2. QED
    BY <2>1, <1>2, <1>5, <1>8
<1>9. QED
  BY <1>6, <1>7, <1>8

\* The passing of time keeps the estimator well-formed and its verdict.
LEMMA GyroOlderType ==
    ASSUME NEW g \in GyroType
    PROVE  GyroOlder(g) \in GyroType /\ GyroOlder(g).calibrated = g.calibrated
<1> DEFINE age == IF g.sample_valid THEN Older(g.sample_age, GYRO_MAX_AGE + 1) ELSE 0
           w == IF g.window.started THEN Older(g.window.age, GYRO_WINDOW) ELSE 0
           aged == [g.window EXCEPT !.age = w]
<1>1. age \in 0 .. GYRO_MAX_AGE + 1 /\ w \in 0 .. GYRO_WINDOW
  BY GyroAssumption DEF Older, GyroType, WindowType
<1>2. GyroOlder(g) = [g EXCEPT !.sample_age = age, !.window.age = w]
  BY DEF GyroOlder
<1> HIDE DEF age, w
<1>3. aged \in WindowType
  BY <1>1 DEF GyroType, WindowType
<1>4. GyroOlder(g) = [g EXCEPT !.sample_age = age, !.window = aged]
  BY <1>2
<1> HIDE DEF aged
<1>5. QED
  BY <1>1, <1>3, <1>4 DEF GyroType

\* Nor does a sample or the passing of time move a bias that is known.
LEMMA BiasStands ==
    ASSUME NEW g \in GyroType, g.calibrated, NEW rate, NEW valid \in BOOLEAN, NEW stationary,
           NEW new \in {gyro_yaw_observe(g, rate, valid, stationary), GyroOlder(g)}
    PROVE  new.calibrated /\ new.window.sum = g.window.sum /\ new.window.samples = g.window.samples
<1>1. gyro_yaw_observe(g, rate, valid, stationary)
          \in {[g EXCEPT !.sample_age = 0, !.sample_valid = TRUE],
               [g EXCEPT !.sample_valid = FALSE, !.sample_age = 0]}
  BY DEF gyro_yaw_observe, DropSample
<1>2. CASE new = gyro_yaw_observe(g, rate, valid, stationary)
  BY <1>1, <1>2 DEF GyroType
<1>3. CASE new = GyroOlder(g)
  BY <1>3 DEF GyroOlder, GyroType, WindowType
<1>4. QED
  BY <1>2, <1>3

-----------------------------------------------------------------------------
(* The drive *)

\* wheels_update reads the estimator and leaves it alone.
LEMMA UpdateKeepsGyro ==
    ASSUME NEW sent, NEW out, NEW at_rest, wheels_update(sent, out, at_rest)
    PROVE  gyro' = gyro
BY DEF wheels_update, NotDue, RepeatBrake, BrakeStale, SendSpeeds, SendFails, wheelsVars

\* A reply makes a well-formed sample, valid only if the frame arrived.
LEMMA SaveFeedbackType ==
    ASSUME NEW o \in Outcome
    PROVE  /\ save_feedback(o) \in Feedback
           /\ save_feedback(o).valid = Answered(o)
           /\ Answered(o) => Delivered(o)
<1>1. 0 \in 0 .. FEEDBACK_MAX_AGE + 1
  BY WheelsAssumption
<1>2. QED
  BY <1>1 DEF save_feedback, Feedback, Answered, Delivered, Outcome

\* Braking every wheel keeps the drive's invariant, whichever frames are lost.
LEMMA BrakeAllInv ==
    ASSUME WheelsInv, NEW out \in Outcomes, BrakeAll(out),
           gyro' \in {gyro, gyro_yaw_begin}
    PROVE  WheelsInv' /\ ~motion_enabled'
<1> USE DEF WheelsInv, BrakeAll, StopMotion, Exchange, Online
<1>1. WheelsTypeOK'
  <2>1. gyro' \in GyroType
    BY BeginType DEF WheelsTypeOK
  <2>2. feedback' \in [Wheel -> Feedback]
    BY SaveFeedbackType DEF WheelsTypeOK, Outcomes
  <2>3. motor' \in [Wheel -> {"velocity", "brake"}]
    BY DEF WheelsTypeOK
  <2>4. update_in' \in 0 .. CONTROL_PERIOD /\ update_age' \in {NoUpdate} \cup 0 .. PROFILE_MAX_DT + 1
    BY WheelsAssumption
  <2>5. QED
    BY <2>1, <2>2, <2>3, <2>4 DEF WheelsTypeOK
<1>2. StoppedMeansBraked'
  <2> SUFFICES ASSUME NEW i \in Wheel, feedback'[i].valid
               PROVE  motor'[i] = "brake"
    BY DEF StoppedMeansBraked
  <2>1. CASE online[i]
    BY <2>1, SaveFeedbackType DEF Outcomes
  <2>2. CASE ~online[i]
    BY <2>2 DEF StoppedMeansBraked, WheelsMoveTogether, WheelsTypeOK
  <2>3. QED
    BY <2>1, <2>2
<1>3. QED
  BY <1>1, <1>2 DEF WheelsMoveTogether

\* Accepting a command keeps the invariant: it enables motion only with every wheel
\* and the gyro in order.
LEMMA SetVelocityInv ==
    ASSUME WheelsInv, NEW cmd, wheels_set_velocity(cmd)
    PROVE  WheelsInv' /\ motion_enabled'
<1> USE DEF WheelsInv, wheels_set_velocity
<1>1. WheelsTypeOK'
  BY DEF WheelsTypeOK
<1>2. QED
  BY <1>1 DEF SetVelocityAccepts, MeasuredTwist, Fresh, GyroFresh, WheelsMoveTogether,
              StoppedMeansBraked

\* Sampling the gyro keeps the invariant: no sample takes the calibration from under
\* a moving robot.
LEMMA ObserveGyroInv ==
    ASSUME WheelsInv, NEW sample \in [valid : BOOLEAN, quiet : BOOLEAN, rate : Int],
           wheels_observe_gyro(sample)
    PROVE  WheelsInv' /\ motion_enabled' = motion_enabled
<1> DEFINE stationary == /\ sample.valid /\ sample.quiet
                         /\ \A i \in Wheel : Fresh(i) /\ ~feedback[i].moving
<1>1. stationary \in BOOLEAN /\ sample.valid \in BOOLEAN /\ sample.rate \in Int
  OBVIOUS
<1>2. gyro' = gyro_yaw_observe(gyro, sample.rate, sample.valid, stationary)
  BY DEF wheels_observe_gyro
<1> HIDE DEF stationary
<1>3. gyro \in GyroType
  BY DEF WheelsInv, WheelsTypeOK
<1>4. gyro' \in GyroType /\ (gyro.calibrated => gyro'.calibrated)
  BY <1>1, <1>2, <1>3, ObserveKeepsCalibration
<1>5. QED
  BY <1>4 DEF wheels_observe_gyro, WheelsInv, WheelsTypeOK, WheelsMoveTogether,
              StoppedMeansBraked

\* The control step keeps the invariant through every way its send loop can end.
LEMMA UpdateInv ==
    ASSUME WheelsInv, NEW sent \in Outcomes, NEW out \in Outcomes, NEW at_rest \in BOOLEAN,
           wheels_update(sent, out, at_rest)
    PROVE  WheelsInv' /\ (motion_enabled' => motion_enabled)
<1> USE DEF WheelsInv
<1>1. CASE NotDue
  BY <1>1 DEF NotDue, wheelsVars, WheelsTypeOK, WheelsMoveTogether, StoppedMeansBraked
<1>2. CASE RepeatBrake(out)
  <2> USE <1>2 DEF RepeatBrake, Exchange, Online
  <2>1. feedback' \in [Wheel -> Feedback]
    BY SaveFeedbackType DEF WheelsTypeOK, Outcomes
  <2>2. motor' \in [Wheel -> {"velocity", "brake"}]
    BY DEF WheelsTypeOK
  <2>3. update_in' \in 0 .. CONTROL_PERIOD
    BY WheelsAssumption
  <2>4. WheelsTypeOK'
    BY <2>1, <2>2, <2>3 DEF WheelsTypeOK
  <2>5. ASSUME NEW i \in Wheel, feedback'[i].valid
        PROVE  motor'[i] = "brake"
    BY <2>5, SaveFeedbackType DEF Outcomes, StoppedMeansBraked, WheelsTypeOK
  <2>6. QED
    BY <2>4, <2>5 DEF StoppedMeansBraked, WheelsMoveTogether
<1>3. CASE BrakeStale(out)
  BY <1>3, BrakeAllInv DEF BrakeStale
<1>4. CASE SendSpeeds(sent, at_rest)
  <2> USE <1>4 DEF SendSpeeds, Exchange, ControlDue
  <2>1. feedback' \in [Wheel -> Feedback]
    BY SaveFeedbackType DEF WheelsTypeOK, Outcomes
  <2>2. motor' \in [Wheel -> {"velocity", "brake"}]
    BY DEF WheelsTypeOK
  <2>3. update_in' \in 0 .. CONTROL_PERIOD /\ update_age' \in {NoUpdate} \cup 0 .. PROFILE_MAX_DT + 1
    BY WheelsAssumption
  <2>4. shaping' \in BOOLEAN
    OBVIOUS
  <2>5. WheelsTypeOK'
    BY <2>1, <2>2, <2>3, <2>4 DEF WheelsTypeOK
  <2>6. ASSUME NEW i \in Wheel
        PROVE  online'[i] /\ ~braked'[i] /\ feedback'[i].valid
    <3>1. online[i] /\ ~braked[i] /\ i \in Sendable
      BY DEF WheelsMoveTogether, Sendable
    <3>2. Answered(sent[i])
      BY <3>1 DEF Silent
    <3>3. QED
      BY <3>1, <3>2, SaveFeedbackType DEF Outcomes
  <2>7. QED
    BY <2>5, <2>6 DEF StoppedMeansBraked, WheelsMoveTogether
<1>5. CASE SendFails(sent, out)
  <2> USE <1>5 DEF SendFails, StopMotion
  <2>1. feedback' \in [Wheel -> Feedback]
    BY SaveFeedbackType DEF WheelsTypeOK, Outcomes
  <2>2. motor' \in [Wheel -> {"velocity", "brake"}]
    BY DEF WheelsTypeOK
  <2>3. update_in' \in 0 .. CONTROL_PERIOD /\ update_age' \in {NoUpdate} \cup 0 .. PROFILE_MAX_DT + 1
    BY WheelsAssumption
  <2>4. braked' \in [Wheel -> BOOLEAN]
    BY DEF WheelsTypeOK
  <2>5. WheelsTypeOK'
    BY <2>1, <2>2, <2>3, <2>4 DEF WheelsTypeOK
  <2>6. ASSUME NEW i \in Wheel, feedback'[i].valid
        PROVE  motor'[i] = "brake"
    <3>1. online[i]
      BY DEF ControlDue, WheelsMoveTogether
    <3>2. Answered(out[i]) /\ Delivered(out[i])
      BY <2>6, <3>1, SaveFeedbackType DEF Outcomes
    <3>3. QED
      BY <3>1, <3>2
  <2>7. QED
    BY <2>5, <2>6 DEF StoppedMeansBraked, WheelsMoveTogether
<1>6. QED
  BY <1>1, <1>2, <1>3, <1>4, <1>5 DEF wheels_update

\* The drive wakes up with the invariant, whatever the motors were last told.
LEMMA ResetInv ==
    ASSUME motor' \in [Wheel -> {"velocity", "brake"}], WheelsReset
    PROVE  WheelsInv' /\ ~motion_enabled' /\ \A i \in Wheel : ~feedback'[i].valid
<1>1. NoFeedback \in Feedback /\ ~NoFeedback.valid
  <2>1. 0 \in 0 .. FEEDBACK_MAX_AGE + 1
    BY WheelsAssumption
  <2>2. QED
    BY <2>1 DEF NoFeedback, Feedback
<1>2. update_in' \in 0 .. CONTROL_PERIOD
  BY WheelsAssumption DEF WheelsReset
<1>3. WheelsTypeOK'
  BY <1>1, <1>2, BeginType DEF WheelsReset, WheelsTypeOK
<1>4. QED
  BY <1>1, <1>3 DEF WheelsReset, WheelsInv, WheelsMoveTogether, StoppedMeansBraked

\* So it does at power-up.
LEMMA WheelsInitInv ==
    ASSUME WheelsInit
    PROVE  WheelsInv /\ ~motion_enabled /\ \A i \in Wheel : ~feedback[i].valid
<1>1. NoFeedback \in Feedback /\ ~NoFeedback.valid
  <2>1. 0 \in 0 .. FEEDBACK_MAX_AGE + 1
    BY WheelsAssumption
  <2>2. QED
    BY <2>1 DEF NoFeedback, Feedback
<1>2. update_in \in 0 .. CONTROL_PERIOD
  BY WheelsAssumption DEF WheelsInit
<1>3. WheelsTypeOK
  BY <1>1, <1>2, BeginType DEF WheelsInit, WheelsTypeOK
<1>4. QED
  BY <1>1, <1>3 DEF WheelsInit, WheelsInv, WheelsMoveTogether, StoppedMeansBraked

\* Probing the motors keeps the invariant: the mode frame releases a motor nobody has
\* had an answer from yet.
LEMMA BeginInv ==
    ASSUME WheelsInv, ~motion_enabled, \A i \in Wheel : ~feedback[i].valid,
           NEW found, NEW set, wheels_begin(found, set)
    PROVE  WheelsInv' /\ ~motion_enabled'
<1>1. motor' \in [Wheel -> {"velocity", "brake"}]
  BY DEF wheels_begin, WheelsInv, WheelsTypeOK
<1>2. online' \in [Wheel -> BOOLEAN] /\ braked' \in [Wheel -> BOOLEAN]
  BY DEF wheels_begin
<1>3. WheelsTypeOK'
  BY <1>1, <1>2, BeginType DEF wheels_begin, WheelsInv, WheelsTypeOK
<1>4. QED
  BY <1>3 DEF wheels_begin, WheelsInv, WheelsMoveTogether, StoppedMeansBraked

\* So does the passing of time.
LEMMA WheelsOlderInv ==
    ASSUME WheelsInv, WheelsOlder
    PROVE  /\ WheelsInv' /\ motion_enabled' = motion_enabled
           /\ \A i \in Wheel : feedback'[i].valid = feedback[i].valid
<1> USE DEF WheelsInv, WheelsOlder
<1>1. gyro' \in GyroType /\ gyro'.calibrated = gyro.calibrated
  BY GyroOlderType DEF WheelsTypeOK
<1>2. ASSUME NEW i \in Wheel
      PROVE  feedback'[i] \in Feedback /\ feedback'[i].valid = feedback[i].valid
  <2> DEFINE age == Older(feedback[i].age, FEEDBACK_MAX_AGE + 1)
  <2>1. feedback[i] \in Feedback
    BY DEF WheelsTypeOK
  <2>2. age \in 0 .. FEEDBACK_MAX_AGE + 1
    BY <2>1, WheelsAssumption DEF Older, Feedback
  <2>3. feedback'[i] \in {feedback[i], [feedback[i] EXCEPT !.age = age]}
    OBVIOUS
  <2> HIDE DEF age
  <2>4. QED
    BY <2>1, <2>2, <2>3 DEF Feedback
<1>3. feedback' \in [Wheel -> Feedback]
  BY <1>2
<1>4. update_in' \in 0 .. CONTROL_PERIOD
  BY WheelsAssumption DEF WheelsTypeOK
<1>5. update_age' \in {NoUpdate} \cup 0 .. PROFILE_MAX_DT + 1
  BY WheelsAssumption DEF WheelsTypeOK, Older, NoUpdate
<1>6. WheelsTypeOK'
  BY <1>1, <1>3, <1>4, <1>5 DEF WheelsTypeOK
<1>7. QED
  BY <1>1, <1>2, <1>6 DEF WheelsMoveTogether, StoppedMeansBraked

-----------------------------------------------------------------------------
(* The age of the feedback in a motion *)

\* A wheel's sample has an age, and no control step yet counts as before all of them.
LEMMA AgesInOrder ==
    ASSUME WheelsTypeOK
    PROVE  /\ \A i \in Wheel : feedback[i].age \in 0 .. FEEDBACK_MAX_AGE + 1
           /\ update_age = -1 \/ update_age \in 0 .. PROFILE_MAX_DT + 1
BY DEF WheelsTypeOK, Feedback, NoUpdate

\* In a motion the feedback grows old with the control step.
LEMMA ClockOlder ==
    ASSUME WheelsInv, FeedbackClock, WheelsOlder
    PROVE  FeedbackClock'
<1> SUFFICES ASSUME motion_enabled, NEW i \in Wheel
             PROVE  \/ feedback'[i].age >= update_age'
                    \/ feedback'[i].age = FEEDBACK_MAX_AGE + 1
  BY DEF FeedbackClock, WheelsOlder
<1> DEFINE age == feedback[i].age
<1>1. /\ age \in 0 .. FEEDBACK_MAX_AGE + 1
      /\ update_age = -1 \/ update_age \in 0 .. PROFILE_MAX_DT + 1
      /\ FEEDBACK_MAX_AGE \in Nat /\ PROFILE_MAX_DT \in Nat
  BY AgesInOrder, WheelsAssumption DEF WheelsInv
<1>2. age >= update_age \/ age = FEEDBACK_MAX_AGE + 1
  BY DEF FeedbackClock
<1>3. feedback'[i].age = IF age < FEEDBACK_MAX_AGE + 1 THEN age + 1 ELSE FEEDBACK_MAX_AGE + 1
  <2>1. feedback[i].valid /\ feedback[i] \in Feedback
    BY DEF WheelsInv, WheelsMoveTogether, WheelsTypeOK
  <2>2. feedback'[i] = [feedback[i] EXCEPT !.age = Older(@, FEEDBACK_MAX_AGE + 1)]
    BY <2>1 DEF WheelsOlder
  <2>3. QED
    BY <2>1, <2>2 DEF Older, Feedback
<1>4. update_age' = -1 \/ (update_age >= 0 /\ update_age' <= update_age + 1 /\ update_age' \in Int)
  BY <1>1 DEF WheelsOlder, Older, NoUpdate
<1> HIDE DEF age
<1>5. QED
  BY <1>1, <1>2, <1>3, <1>4

\* An accepted command leaves the last control step where it was, or forgets it.
LEMMA ClockVelocity ==
    ASSUME WheelsInv, FeedbackClock, NEW cmd, wheels_set_velocity(cmd)
    PROVE  FeedbackClock'
<1>1. \A i \in Wheel : feedback[i].age \in 0 .. FEEDBACK_MAX_AGE + 1
  BY AgesInOrder DEF WheelsInv
<1>2. feedback' = feedback /\ update_age' = IF motion_enabled THEN update_age ELSE -1
  BY DEF wheels_set_velocity, NoUpdate
<1>3. \A i \in Wheel : feedback[i].age >= -1
  BY <1>1, WheelsAssumption
<1>4. QED
  BY <1>2, <1>3 DEF FeedbackClock

\* A control step starts the clock anew, or ends the motion.
LEMMA ClockUpdate ==
    ASSUME WheelsInv, FeedbackClock, NEW sent \in Outcomes, NEW out \in Outcomes,
           NEW at_rest \in BOOLEAN, wheels_update(sent, out, at_rest)
    PROVE  FeedbackClock'
<1>1. CASE NotDue
  BY <1>1 DEF NotDue, wheelsVars, FeedbackClock
<1>2. CASE RepeatBrake(out)
  BY <1>2 DEF RepeatBrake, FeedbackClock
<1>3. CASE BrakeStale(out) \/ SendFails(sent, out)
  BY <1>3 DEF BrakeStale, BrakeAll, SendFails, StopMotion, FeedbackClock
<1>4. CASE SendSpeeds(sent, at_rest)
  <2>1. WheelsInv'
    BY UpdateInv
  <2>2. \A i \in Wheel : feedback'[i].age \in 0 .. FEEDBACK_MAX_AGE + 1
    BY <2>1 DEF WheelsInv, WheelsTypeOK, Feedback
  <2>3. \A i \in Wheel : feedback'[i].age >= 0
    BY <2>2, WheelsAssumption
  <2>4. QED
    BY <1>4, <2>3 DEF SendSpeeds, FeedbackClock
<1>5. QED
  BY <1>1, <1>2, <1>3, <1>4 DEF wheels_update

\* wheels_update sends no setpoint after a gap that is longer than feedback may be old.
LEMMA SendIsTimely ==
    ASSUME WheelsInv, FeedbackClock, NEW sent, NEW out, NEW at_rest,
           wheels_update(sent, out, at_rest),
           motion_enabled, motion_enabled', update_age # 0, update_age' = 0
    PROVE  update_age <= FEEDBACK_MAX_AGE
<1>1. ~NotDue /\ ~RepeatBrake(out) /\ ~BrakeStale(out) /\ ~SendFails(sent, out)
  BY DEF NotDue, RepeatBrake, BrakeStale, BrakeAll, SendFails, StopMotion, wheelsVars
<1>2. MeasuredTwist
  BY <1>1 DEF wheels_update, SendSpeeds, ControlOk
<1>3. 0 \in Wheel
  BY WheelsAssumption DEF Wheel
<1>4. /\ feedback[0].age <= FEEDBACK_MAX_AGE
      /\ feedback[0].age >= update_age \/ feedback[0].age = FEEDBACK_MAX_AGE + 1
  BY <1>2, <1>3 DEF MeasuredTwist, Fresh, FeedbackClock
<1>5. /\ feedback[0].age \in 0 .. FEEDBACK_MAX_AGE + 1
      /\ update_age = -1 \/ update_age \in 0 .. PROFILE_MAX_DT + 1
  BY <1>3, AgesInOrder DEF WheelsInv
<1>6. QED
  BY <1>4, <1>5, WheelsAssumption
=============================================================================
