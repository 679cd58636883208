----------------------------- MODULE Glide_proofs -----------------------------
(***************************************************************************)
(* Proofs about Glide, for any settings, requests and number of steps.     *)
(* Everything rests on one fact of a profile: both the acceleration it has *)
(* and the one it wants are within the limit, so what lies between them    *)
(* is; every action keeps that, for the state and for the copy.            *)
(***************************************************************************)
EXTENDS Glide, TLAPS

\* The parts of a setting.
LEMMA ConfigFacts ==
    ASSUME NEW c \in CONFIGS
    PROVE  /\ c.accel \in [Axes -> Nat \ {0}] /\ c.jerk \in [Axes -> Nat \ {0}]
           /\ c.max \in [Axes -> Nat]
           /\ c.wheel_max \in Nat \ {0} /\ c.kp \in Nat /\ c.ki \in Nat /\ c.deadband \in Nat
           /\ c.feedback \in BOOLEAN
  BY GlideAssumption DEF Config

\* What a call starts and ends with.
LEMMA RestFacts ==
    /\ 0 \in Int /\ 0 \in 0 .. BAD_MAX /\ 0 \in 0 .. MAX_STEPS
    /\ AtRest \in [Axes -> Int] /\ "idle" \in {"idle"} \cup Axes /\ FALSE \in BOOLEAN
  BY GlideAssumption DEF AtRest

LEMMA ClampBound ==
    ASSUME NEW n \in Int, NEW limit \in Nat
    PROVE  Clamp(n, limit) \in Int /\ Abs(Clamp(n, limit)) <= limit
  BY DEF Clamp, Abs

\* One step of an acceleration: within the limit, and not further than the jerk allows.
LEMMA TowardsBound ==
    ASSUME NEW limit \in Nat, NEW jerk \in Nat, NEW a \in Int, NEW d \in -limit .. limit,
           Abs(a) <= limit
    PROVE  /\ Towards(a, d, jerk) \in Int
           /\ Abs(Towards(a, d, jerk)) <= limit
           /\ Abs(Towards(a, d, jerk) - a) <= jerk
  BY DEF Towards, Clamp, Abs

\* No acceleration, stored or in the copy, is beyond the limit of its axis.
WithinLimits ==
    \A x \in Axes : Abs(accel[x]) <= cfg.accel[x] /\ Abs(next_accel[x]) <= cfg.accel[x]

\* Nor is a correction or an integrator.
WithinCorrection ==
    /\ Abs(integrator) <= cfg.max["correction"] /\ Abs(next_integrator) <= cfg.max["correction"]
    /\ Abs(correction) <= cfg.max["correction"]

IInv == TypeOK /\ WithinLimits /\ WithinCorrection

LEMMA InitInv == Init => IInv
<1> SUFFICES ASSUME Init PROVE IInv
  OBVIOUS
<1>1. PICK c \in CONFIGS : Fresh(c)
  BY DEF Init
<1>2. cfg \in CONFIGS
  BY <1>1 DEF Fresh
<1>3. TypeOK
  BY <1>1, <1>2, RestFacts, Zenon DEF Init, Fresh, TypeOK
<1>4. WithinLimits
  BY <1>1, <1>2, ConfigFacts DEF Init, Fresh, WithinLimits, AtRest, Abs
<1>5. WithinCorrection
  BY <1>1, <1>2, ConfigFacts DEF Init, Fresh, WithinCorrection, Abs, Axes
<1> QED
  BY <1>3, <1>4, <1>5 DEF IInv

\* What happens between two calls leaves everything at rest.
LEMMA AtRestInv ==
    ASSUME cfg' \in CONFIGS, call' \in Calls,
           speed' = AtRest, accel' = AtRest, integrator' = 0, correction' = 0, bad' = 0,
           EndCall
    PROVE  IInv'
<1>3. TypeOK'
  BY RestFacts, Zenon DEF EndCall, TypeOK
<1>4. WithinLimits'
  BY ConfigFacts DEF EndCall, WithinLimits, AtRest, Abs
<1>5. WithinCorrection'
  BY ConfigFacts DEF EndCall, WithinCorrection, Abs, Axes
<1> QED
  BY <1>3, <1>4, <1>5 DEF IInv

LEMMA StepInv == IInv /\ Step => IInv'
<1> SUFFICES ASSUME IInv, Step PROVE IInv'
  OBVIOUS
<1>1. pc \in Axes /\ pc' = pc /\ cfg' = cfg
  BY DEF Step, stored
<1>2. PICK d \in Desired(pc, target[pc] - next_speed[pc]) :
        LET a == Towards(next_accel[pc], d, cfg.jerk[pc])
        IN  /\ next_accel' = [next_accel EXCEPT ![pc] = a]
            /\ next_speed' = [next_speed EXCEPT ![pc] = @ + next_accel[pc] + a]
  BY DEF Step
<1> DEFINE a == Towards(next_accel[pc], d, cfg.jerk[pc])
<1>3. cfg.accel[pc] \in Nat /\ cfg.jerk[pc] \in Nat /\ next_accel[pc] \in Int
  BY <1>1, ConfigFacts DEF IInv, TypeOK
<1>4. d \in -cfg.accel[pc] .. cfg.accel[pc]
  BY <1>2 DEF Desired
<1>5. a \in Int /\ Abs(a) <= cfg.accel[pc]
  <2>1. Abs(next_accel[pc]) <= cfg.accel[pc]
    BY <1>1 DEF IInv, WithinLimits
  <2> QED
    BY <1>3, <1>4, <2>1, TowardsBound
<1>6. next_accel' \in [Axes -> Int] /\ next_speed' \in [Axes -> Int]
  <2> HIDE DEF a
  <2>1. next_accel' = [next_accel EXCEPT ![pc] = a]
        /\ next_speed' = [next_speed EXCEPT ![pc] = @ + next_accel[pc] + a]
    BY <1>2 DEF a
  <2> QED
    BY <2>1, <1>1, <1>3, <1>5 DEF IInv, TypeOK
<1>7. TypeOK'
  <2>1. done' \in 0 .. MAX_STEPS
    BY GlideAssumption DEF Step, IInv, TypeOK, Calls
  <2> QED
    BY <1>1, <1>6, <2>1 DEF Step, stored, IInv, TypeOK
<1>8. WithinLimits'
  <2> HIDE DEF a
  <2>1. next_accel' = [next_accel EXCEPT ![pc] = a]
    BY <1>2 DEF a
  <2> QED
    BY <1>1, <1>5, <2>1 DEF Step, stored, IInv, TypeOK, WithinLimits
<1>9. WithinCorrection'
  BY DEF Step, stored, IInv, WithinCorrection
<1> QED
  BY <1>7, <1>8, <1>9 DEF IInv

\* The integrator a call may store is within the limit.
LEMMA CandidateBound ==
    ASSUME IInv, NEW error \in Int
    PROVE  Candidate(error) \in Int /\ Abs(Candidate(error)) <= cfg.max["correction"]
<1>1. cfg.max["correction"] \in Nat /\ cfg.ki \in Nat
  BY ConfigFacts DEF IInv, TypeOK, Axes
<1>2. integrator + cfg.ki * error * call.steps \in Int
  BY <1>1, GlideAssumption DEF IInv, TypeOK, Calls
<1> QED
  BY <1>1, <1>2, ClampBound DEF Candidate

LEMMA ErrorIsInt ==
    ASSUME IInv, NEW rate \in RATES
    PROVE  YawError(rate) \in Int
  BY GlideAssumption DEF IInv, TypeOK, YawError, Axes

LEMMA UntrackedBound ==
    ASSUME IInv, NEW good \in BOOLEAN
    PROVE  Untracked(good) \in 0 .. BAD_MAX
  BY GlideAssumption DEF IInv, TypeOK, Untracked, Calls

LEMMA FadeInv == ASSUME IInv, NEW good \in BOOLEAN, FadeCorrection(good) PROVE IInv'
<1>1. cfg' = cfg /\ accel' = accel /\ integrator' = integrator /\ correction' = correction
      /\ speed' = speed /\ bad' = bad /\ call' = call
  BY DEF FadeCorrection, stored
<1>2. next_speed' \in [Axes -> Int] /\ next_accel' \in [Axes -> Int]
  BY DEF FadeCorrection, IInv, TypeOK, AtRest, Axes
<1>3. TypeOK'
  <2>1. coast' \in BOOLEAN
    BY DEF FadeCorrection, Coasts
  <2>2. 0 \in 0 .. MAX_STEPS
    BY GlideAssumption
  <2> QED
    BY <1>1, <1>2, <2>1, <2>2, UntrackedBound DEF FadeCorrection, IInv, TypeOK, Axes
<1>4. WithinLimits'
  <2> SUFFICES ASSUME NEW x \in Axes PROVE Abs(next_accel'[x]) <= cfg.accel[x]
    BY <1>1 DEF WithinLimits, IInv
  <2>1. cfg.accel[x] \in Nat /\ Abs(next_accel[x]) <= cfg.accel[x]
    BY ConfigFacts DEF IInv, TypeOK, WithinLimits
  <2>2. next_accel'[x] = next_accel[x] \/ next_accel'[x] = 0
    BY DEF FadeCorrection, AtRest, Axes
  <2> QED
    BY <2>1, <2>2 DEF Abs
<1>5. WithinCorrection'
  BY <1>1, ConfigFacts DEF FadeCorrection, IInv, TypeOK, WithinCorrection, Abs, Axes
<1> QED
  BY <1>3, <1>4, <1>5 DEF IInv

LEMMA CorrectInv ==
    ASSUME IInv, NEW rate \in RATES, NEW good \in BOOLEAN, Correct(rate, good)
    PROVE  IInv'
<1> DEFINE error == YawError(rate)
<1>1. cfg' = cfg /\ accel' = accel /\ integrator' = integrator /\ correction' = correction
      /\ speed' = speed /\ bad' = bad /\ call' = call
      /\ next_speed' = next_speed /\ next_accel' = next_accel
  BY DEF Correct, stored
<1>2. error \in Int
  BY ErrorIsInt
<1> HIDE DEF error
<1>3. next_integrator' \in Int /\ Abs(next_integrator') <= cfg.max["correction"]
  <2>1. next_integrator' = Candidate(error) \/ next_integrator' = integrator
    BY DEF Correct, error
  <2> QED
    BY <2>1, <1>2, CandidateBound DEF IInv, TypeOK, WithinCorrection
<1>4. target' \in [Axes -> Int]
  <2>1. cfg.max["correction"] \in Nat /\ cfg.kp \in Nat
    BY ConfigFacts DEF IInv, TypeOK, Axes
  <2>2. cfg.kp * error + next_integrator' \in Int
    BY <2>1, <1>2, <1>3
  <2>3. Clamp(cfg.kp * error + next_integrator', cfg.max["correction"]) \in Int
    BY <2>1, <2>2, ClampBound
  <2>4. target' = [target EXCEPT !["correction"] =
                      Clamp(cfg.kp * error + next_integrator', cfg.max["correction"])]
    BY DEF Correct, error
  <2> QED
    BY <2>3, <2>4 DEF IInv, TypeOK
<1>5. TypeOK'
  <2>1. 0 \in 0 .. MAX_STEPS
    BY GlideAssumption
  <2> QED
    BY <1>1, <1>3, <1>4, <2>1, UntrackedBound DEF Correct, IInv, TypeOK, Axes
<1>6. WithinLimits'
  BY <1>1 DEF IInv, WithinLimits
<1>7. WithinCorrection'
  BY <1>1, <1>3 DEF IInv, WithinCorrection
<1> QED
  BY <1>5, <1>6, <1>7 DEF IInv

LEMMA CommitInv == IInv /\ Commit => IInv'
<1> SUFFICES ASSUME IInv, Commit PROVE IInv'
  OBVIOUS
<1>1. cfg' = cfg /\ call' = call /\ integrator' = next_integrator /\ bad' = next_bad /\ EndCall
  BY DEF Commit
<1>2. speed' \in [Axes -> Int] /\ accel' \in [Axes -> Int]
  BY DEF Commit, IInv, TypeOK
<1>3. \A x \in Axes : accel'[x] = next_accel[x] \/ accel'[x] = 0
  BY DEF Commit, IInv, TypeOK
<1>4. cfg.max["correction"] \in Nat
  BY ConfigFacts DEF IInv, TypeOK, Axes
<1>5. correction' \in Int /\ Abs(correction') <= cfg.max["correction"]
  <2>1. speed'["correction"] \in Int
    BY <1>2 DEF Axes
  <2>2. correction' = Clamp(speed'["correction"], cfg.max["correction"])
    BY DEF Commit
  <2> QED
    BY <2>1, <2>2, <1>4, ClampBound
<1>6. TypeOK'
  BY <1>1, <1>2, <1>5, RestFacts, Zenon DEF EndCall, IInv, TypeOK
<1>7. WithinLimits'
  <2> SUFFICES ASSUME NEW x \in Axes
               PROVE  Abs(accel'[x]) <= cfg.accel[x] /\ Abs(next_accel'[x]) <= cfg.accel[x]
    BY <1>1 DEF WithinLimits
  <2>1. cfg.accel[x] \in Nat /\ Abs(next_accel[x]) <= cfg.accel[x]
    BY ConfigFacts DEF IInv, TypeOK, WithinLimits
  <2>2. next_accel'[x] = 0
    BY <1>1 DEF EndCall, AtRest
  <2> QED
    BY <1>3, <2>1, <2>2 DEF Abs
<1>8. WithinCorrection'
  BY <1>1, <1>4, <1>5 DEF EndCall, IInv, WithinCorrection, Abs
<1> QED
  BY <1>6, <1>7, <1>8 DEF IInv

LEMMA BeginInv == ASSUME IInv, NEW c \in Calls, Begin(c) PROVE IInv'
<1>1. cfg' = cfg /\ accel' = accel /\ integrator' = integrator /\ correction' = correction
      /\ speed' = speed /\ bad' = bad /\ coast' = coast
      /\ next_speed' = speed /\ next_accel' = accel /\ next_integrator' = integrator
  BY DEF Begin, stored
<1>2. target' \in [Axes -> Int]
  <2>1. 2 * c.vx \in Int /\ 2 * c.wz \in Int
    <3>1. c.vx \in REQUESTS /\ c.wz \in REQUESTS
      BY Zenon DEF Calls
    <3>2. c.vx \in Int /\ c.wz \in Int
      BY <3>1, GlideAssumption
    <3> QED
      BY <3>2
  <2>2. cfg.max["linear"] \in Nat /\ cfg.max["yaw"] \in Nat
    BY ConfigFacts DEF IInv, TypeOK, Axes
  <2>3. Clamp(2 * c.vx, cfg.max["linear"]) \in Int /\ Clamp(2 * c.wz, cfg.max["yaw"]) \in Int
    BY <2>1, <2>2, ClampBound
  <2> QED
    BY <2>3 DEF Begin, IInv, TypeOK
<1>3. TypeOK'
  <2>1. 0 \in 0 .. MAX_STEPS
    BY GlideAssumption
  <2> QED
    BY <1>1, <1>2, <2>1 DEF Begin, IInv, TypeOK, Axes
<1>4. WithinLimits' /\ WithinCorrection'
  BY <1>1 DEF IInv, WithinLimits, WithinCorrection
<1> QED
  BY <1>3, <1>4 DEF IInv

LEMMA NextInv == IInv /\ [Next]_vars => IInv'
<1> SUFFICES ASSUME IInv, [Next]_vars PROVE IInv'
  OBVIOUS
<1>1. CASE glide_reset
  BY <1>1, AtRestInv DEF glide_reset, IInv, TypeOK
<1>2. ASSUME NEW c \in CONFIGS, glide_init(c) PROVE IInv'
  BY <1>2, AtRestInv DEF glide_init, IInv, TypeOK
<1>3. ASSUME NEW c \in Calls, Begin(c) PROVE IInv'
  BY <1>3, BeginInv
<1>4. CASE Step
  BY <1>4, StepInv
<1>5. CASE ShapeYaw
  <2>1. 0 \in 0 .. MAX_STEPS
    BY GlideAssumption
  <2> QED
    BY <1>5, <2>1 DEF ShapeYaw, stored, copy, IInv, TypeOK, WithinLimits, WithinCorrection, Axes
<1>6. ASSUME NEW good \in BOOLEAN, FadeCorrection(good) PROVE IInv'
  BY <1>6, FadeInv
<1>7. ASSUME NEW rate \in RATES, NEW good \in BOOLEAN, Correct(rate, good) PROVE IInv'
  BY <1>7, CorrectInv
<1>8. CASE Commit
  BY <1>8, CommitInv
<1>9. CASE UNCHANGED vars
  BY <1>9 DEF vars, stored, copy, IInv, TypeOK, WithinLimits, WithinCorrection
<1> QED
  BY <1>1, <1>2, <1>3, <1>4, <1>5, <1>6, <1>7, <1>8, <1>9 DEF Next

\* Every variable of glide.c and of a call under way keeps its range, with every setting
\* that glide_init accepts.
THEOREM GlideTypeCorrect == Spec => []TypeOK
<1>1. IInv => TypeOK
  BY DEF IInv
<1> QED
  BY <1>1, InitInv, NextInv, PTL DEF Spec

\* NeverRefused, glide.c: for any settings and any requests, a call with sound
\* arguments never fails halfway, as no profile it starts from is beyond its limit.
THEOREM GlideNeverRefuses == Spec => []NeverRefused
<1>1. IInv => NeverRefused
  <2> SUFFICES ASSUME IInv, Refuses PROVE FALSE
    BY DEF NeverRefused
  <2>1. pc \in Axes /\ Abs(next_accel[pc]) > cfg.accel[pc]
    BY DEF Refuses
  <2>2. Abs(next_accel[pc]) <= cfg.accel[pc]
    BY <2>1 DEF IInv, WithinLimits
  <2>3. next_accel[pc] \in Int /\ cfg.accel[pc] \in Nat
    BY <2>1, ConfigFacts DEF IInv, TypeOK
  <2> QED
    BY <2>1, <2>2, <2>3 DEF Abs
<1> QED
  BY <1>1, InitInv, NextInv, PTL DEF Spec

\* CorrectionIsBounded, glide.c: neither the integrator nor the correction that the
\* wheels get is ever beyond correction_max.
THEOREM GlideCorrectionIsBounded == Spec => []CorrectionIsBounded
<1>1. IInv => CorrectionIsBounded
  BY DEF IInv, WithinCorrection, CorrectionIsBounded
<1> QED
  BY <1>1, InitInv, NextInv, PTL DEF Spec

-----------------------------------------------------------------------------
(* The integrator. *)

LEMMA SignOfProduct ==
    ASSUME NEW a \in Int, NEW b \in Int, NEW k \in Nat, NEW n \in Nat
    PROVE  /\ a * b < 0 /\ a >= 0 => a > 0 /\ k * b * n <= 0
           /\ a * b < 0 /\ a <= 0 => a < 0 /\ k * b * n >= 0
<1>1. a * b < 0 /\ a >= 0 => a > 0 /\ b < 0
  OBVIOUS
<1>2. a * b < 0 /\ a <= 0 => a < 0 /\ b > 0
  OBVIOUS
<1>3. b < 0 => k * b <= 0
  OBVIOUS
<1>4. b > 0 => k * b >= 0
  OBVIOUS
<1>5. \A m \in Int : m <= 0 => m * n <= 0
  OBVIOUS
<1>6. \A m \in Int : m >= 0 => m * n >= 0
  OBVIOUS
<1>7. k * b \in Int
  OBVIOUS
<1> QED
  <2> DEFINE m == k * b
  <2>1. m \in Int
    BY <1>7
  <2>2. m <= 0 => m * n <= 0
    BY <2>1, <1>5
  <2>3. m >= 0 => m * n >= 0
    BY <2>1, <1>6
  <2> QED
    BY <1>1, <1>2, <1>3, <1>4, <2>2, <2>3

\* Moved by no more than to the other side of zero, and clamped.
LEMMA ClampBack ==
    ASSUME NEW i \in Int, NEW move \in Int, NEW limit \in Nat, Abs(i) <= limit
    PROVE  /\ i >= 0 /\ move <= 0 => Clamp(i + move, limit) <= i
           /\ i <= 0 /\ move >= 0 => Clamp(i + move, limit) >= i
  BY DEF Clamp, Abs

\* An integrator that is stored while its error pulls the other way goes back.
LEMMA UnwindsBack ==
    ASSUME IInv, NEW error \in Int, integrator * error < 0
    PROVE  /\ integrator >= 0 => integrator > 0 /\ Candidate(error) <= integrator
           /\ integrator <= 0 => integrator < 0 /\ Candidate(error) >= integrator
<1> DEFINE move == cfg.ki * error * call.steps
<1>1. integrator \in Int /\ Abs(integrator) <= cfg.max["correction"]
  BY DEF IInv, TypeOK, WithinCorrection
<1>2. cfg.ki \in Nat /\ cfg.max["correction"] \in Nat
  BY ConfigFacts DEF IInv, TypeOK, Axes
<1>3. call.steps \in Nat
  BY GlideAssumption DEF IInv, TypeOK, Calls
<1>4. move \in Int
  BY <1>2, <1>3
<1>5. /\ integrator >= 0 => integrator > 0 /\ move <= 0
      /\ integrator <= 0 => integrator < 0 /\ move >= 0
  BY <1>1, <1>2, <1>3, SignOfProduct
<1>6. Candidate(error) = Clamp(integrator + move, cfg.max["correction"])
  BY DEF Candidate
<1> HIDE DEF move
<1> QED
  BY <1>1, <1>2, <1>4, <1>5, <1>6, ClampBack

\* NoWindup, glide.c: whatever the gains, a constrained update never moves the
\* integrator further out on its own side.
THEOREM GlideNoWindup == Spec => NoWindup
<1> DEFINE Frozen(rate, good) ==
        LET error == YawError(rate)
            raw == cfg.kp * error + Candidate(error)
        IN  /\ \/ ~good /\ bad + call.steps >= BAD_MAX
               \/ Abs(raw) > cfg.max["correction"]
               \/ Saturates(next_speed, Clamp(raw, cfg.max["correction"]))
            => /\ integrator >= 0 => next_integrator' <= integrator
               /\ integrator <= 0 => next_integrator' >= integrator
<1>1. ASSUME IInv, NEW rate \in RATES, NEW good \in BOOLEAN, Correct(rate, good)
      PROVE  Frozen(rate, good)
  <2> DEFINE error == YawError(rate)
  <2> DEFINE raw == cfg.kp * error + Candidate(error)
  <2>1. error \in Int
    BY <1>1, ErrorIsInt
  <2>2. SUFFICES ASSUME \/ ~good /\ bad + call.steps >= BAD_MAX
                        \/ Abs(raw) > cfg.max["correction"]
                        \/ Saturates(next_speed, Clamp(raw, cfg.max["correction"]))
                 PROVE  /\ integrator >= 0 => next_integrator' <= integrator
                        /\ integrator <= 0 => next_integrator' >= integrator
    OBVIOUS
  <2>3. Constrained(next_speed, error, next_bad')
    <3>1. ~good /\ bad + call.steps >= BAD_MAX => next_bad' >= BAD_MAX
      BY <1>1, GlideAssumption DEF Correct, Untracked, IInv, TypeOK, Calls
    <3> QED
      BY <2>2, <3>1 DEF Constrained
  <2>4. next_integrator' = IF integrator * error < 0 THEN Candidate(error) ELSE integrator
    BY <1>1, <2>3 DEF Correct
  <2>5. integrator \in Int
    BY <1>1 DEF IInv, TypeOK
  <2> HIDE DEF error
  <2>6. CASE integrator * error < 0
    BY <1>1, <2>1, <2>4, <2>5, <2>6, UnwindsBack
  <2>7. CASE ~(integrator * error < 0)
    BY <2>4, <2>5, <2>7
  <2> QED
    BY <2>6, <2>7
<1>2. IInv /\ [Next]_vars => [\A rate \in RATES, good \in BOOLEAN :
                                 Correct(rate, good) => Frozen(rate, good)]_vars
  BY <1>1
<1> QED
  BY <1>2, InitInv, NextInv, PTL DEF Spec, NoWindup

-----------------------------------------------------------------------------
(* Smoothness.  Made(x) counts the steps this call has made of the profile x;  *)
(* the copy has moved from the state by no more than so many steps can, and in *)
(* coasting by what is below the rest thresholds.                              *)

Made(x) ==
    CASE pc = x -> done
      [] pc = "yaw" /\ x = "linear" -> call.steps
      [] pc = "correction" /\ x # "correction" -> call.steps
      [] OTHER -> 0

\* What zeroing a profile at rest may add, once the coasting has been decided.
SlackA(x) == IF pc = "correction" /\ x # "correction" THEN REST_A - 1 ELSE 0
SlackV(x) == IF pc = "correction" /\ x # "correction" THEN REST_V - 1 ELSE 0

Near(x) ==
    /\ Abs(next_accel[x] - accel[x]) <= cfg.jerk[x] * Made(x) + SlackA(x)
    /\ Abs(next_speed[x] - speed[x]) <= 2 * cfg.accel[x] * Made(x) + SlackV(x)

Close == pc \in Axes => done <= call.steps /\ \A x \in Axes : Near(x)

SInv == IInv /\ Close

LEMMA InitClose == Init => SInv
  BY InitInv DEF Init, SInv, Close, Axes

\* The parts of IInv that are about one axis.
LEMMA AxisFacts ==
    ASSUME IInv, NEW x \in Axes
    PROVE  /\ cfg.accel[x] \in Nat /\ cfg.jerk[x] \in Nat
           /\ accel[x] \in Int /\ speed[x] \in Int
           /\ next_accel[x] \in Int /\ next_speed[x] \in Int
           /\ Abs(next_accel[x]) <= cfg.accel[x]
  BY ConfigFacts DEF IInv, TypeOK, WithinLimits

LEMMA CountFacts ==
    ASSUME IInv
    PROVE  call.steps \in Nat \ {0} /\ done \in Nat
  BY GlideAssumption DEF IInv, TypeOK, Calls

\* One more step of n.
LEMMA OneMoreStep ==
    ASSUME NEW j \in Nat, NEW n \in Nat, NEW base \in Int, NEW old \in Int, NEW new \in Int,
           Abs(old - base) <= j * n, Abs(new - old) <= j
    PROVE  Abs(new - base) <= j * (n + 1)
<1>1. j * (n + 1) = j * n + j
  OBVIOUS
<1>2. j * n \in Int
  OBVIOUS
<1> DEFINE p == j * n
<1>3. Abs(new - base) <= p + j
  <2>1. p \in Int /\ Abs(old - base) <= p
    BY <1>2
  <2> HIDE DEF p
  <2> QED
    BY <2>1 DEF Abs
<1> QED
  BY <1>1, <1>3

LEMMA OneMoreMove ==
    ASSUME NEW j \in Nat, NEW n \in Nat, NEW base \in Int, NEW old \in Int, NEW move \in Int,
           Abs(old - base) <= j * n, Abs(move) <= j
    PROVE  Abs((old + move) - base) <= j * (n + 1)
<1>1. Abs((old + move) - old) <= j /\ old + move \in Int
  BY DEF Abs
<1> QED
  BY <1>1, OneMoreStep

LEMMA StepClose == SInv /\ Step => Close'
<1> SUFFICES ASSUME SInv, Step PROVE Close'
  OBVIOUS
<1>1. /\ pc \in Axes /\ pc' = pc /\ cfg' = cfg /\ call' = call /\ accel' = accel
      /\ speed' = speed /\ done' = done + 1 /\ done < call.steps
  BY DEF Step, stored
<1>2. IInv
  BY DEF SInv
<1>3. PICK d \in Desired(pc, target[pc] - next_speed[pc]) :
        /\ next_accel' = [next_accel EXCEPT ![pc] = Towards(next_accel[pc], d, cfg.jerk[pc])]
        /\ next_speed' = [next_speed EXCEPT ![pc] = @ + next_accel[pc]
                                                      + Towards(next_accel[pc], d, cfg.jerk[pc])]
  BY DEF Step
<1> DEFINE a == Towards(next_accel[pc], d, cfg.jerk[pc])
<1>4. d \in -cfg.accel[pc] .. cfg.accel[pc]
  BY <1>3 DEF Desired
<1>5. a \in Int /\ Abs(a) <= cfg.accel[pc] /\ Abs(a - next_accel[pc]) <= cfg.jerk[pc]
  BY <1>1, <1>2, <1>4, AxisFacts, TowardsBound
<1>6. next_accel' = [next_accel EXCEPT ![pc] = a]
      /\ next_speed' = [next_speed EXCEPT ![pc] = @ + next_accel[pc] + a]
  BY <1>3
<1> HIDE DEF a
<1>7. ASSUME NEW x \in Axes, x # pc PROVE Near(x)'
  <2>1. next_accel'[x] = next_accel[x] /\ next_speed'[x] = next_speed[x]
    BY <1>6, <1>2, <1>7 DEF IInv, TypeOK
  <2>2. Made(x)' = Made(x) /\ SlackA(x)' = SlackA(x) /\ SlackV(x)' = SlackV(x)
    BY <1>1, <1>7 DEF Made, SlackA, SlackV
  <2>3. Near(x)
    BY <1>1, <1>7 DEF SInv, Close
  <2> QED
    BY <2>1, <2>2, <2>3, <1>1 DEF Near
<1>8. Near(pc)'
  <2>1. Made(pc) = done /\ SlackA(pc) = 0 /\ SlackV(pc) = 0
    BY <1>1 DEF Made, SlackA, SlackV
  <2>2. Made(pc)' = done + 1 /\ SlackA(pc)' = 0 /\ SlackV(pc)' = 0
    BY <1>1 DEF Made, SlackA, SlackV
  <2>3. /\ cfg.accel[pc] \in Nat /\ cfg.jerk[pc] \in Nat
        /\ accel[pc] \in Int /\ speed[pc] \in Int
        /\ next_accel[pc] \in Int /\ next_speed[pc] \in Int
        /\ Abs(next_accel[pc]) <= cfg.accel[pc]
    BY <1>1, <1>2, AxisFacts
  <2>4. done \in Nat
    BY <1>2, CountFacts
  <2>5. /\ Abs(next_accel[pc] - accel[pc]) <= cfg.jerk[pc] * done
        /\ Abs(next_speed[pc] - speed[pc]) <= 2 * cfg.accel[pc] * done
    <3>1. Near(pc)
      BY <1>1 DEF SInv, Close
    <3>2. /\ Abs(next_accel[pc] - accel[pc]) <= cfg.jerk[pc] * done + 0
          /\ Abs(next_speed[pc] - speed[pc]) <= 2 * cfg.accel[pc] * done + 0
      BY <3>1, <2>1 DEF Near
    <3>3. cfg.jerk[pc] * done + 0 = cfg.jerk[pc] * done
          /\ 2 * cfg.accel[pc] * done + 0 = 2 * cfg.accel[pc] * done
      BY <2>3, <2>4
    <3> QED
      BY <3>2, <3>3
  <2>6. next_accel'[pc] = a /\ next_speed'[pc] = next_speed[pc] + next_accel[pc] + a
    BY <1>6, <1>1, <1>2 DEF IInv, TypeOK
  <2>7. Abs(a - accel[pc]) <= cfg.jerk[pc] * (done + 1)
    BY <2>3, <2>4, <2>5, <1>5, OneMoreStep
  <2>8. Abs((next_speed[pc] + next_accel[pc] + a) - speed[pc]) <= 2 * cfg.accel[pc] * (done + 1)
    <3>2. next_accel[pc] + a \in Int /\ 2 * cfg.accel[pc] \in Nat
          /\ Abs(next_accel[pc] + a) <= 2 * cfg.accel[pc]
      BY <2>3, <1>5 DEF Abs
    <3>3. Abs((next_speed[pc] + (next_accel[pc] + a)) - speed[pc]) <= 2 * cfg.accel[pc] * (done + 1)
      BY <3>2, <2>3, <2>4, <2>5, OneMoreMove
    <3>4. next_speed[pc] + (next_accel[pc] + a) = next_speed[pc] + next_accel[pc] + a
      BY <2>3, <1>5
    <3> QED
      BY <3>3, <3>4
  <2>9. cfg.jerk[pc] * Made(pc)' + SlackA(pc)' = cfg.jerk[pc] * (done + 1)
        /\ 2 * cfg.accel[pc] * Made(pc)' + SlackV(pc)' = 2 * cfg.accel[pc] * (done + 1)
    <3> DEFINE j == cfg.jerk[pc]
    <3> DEFINE c == 2 * cfg.accel[pc]
    <3>1. j * (done + 1) + 0 = j * (done + 1) /\ c * (done + 1) + 0 = c * (done + 1)
      BY <2>3, <2>4
    <3> QED
      BY <2>2, <3>1, Zenon
  <2>10. Abs(next_accel'[pc] - accel[pc]) <= cfg.jerk[pc] * (done + 1)
    BY <2>6, <2>7
  <2>11. Abs(next_speed'[pc] - speed[pc]) <= 2 * cfg.accel[pc] * (done + 1)
    BY <2>6, <2>8
  <2>12. Abs(next_accel'[pc] - accel[pc]) <= cfg.jerk[pc] * Made(pc)' + SlackA(pc)'
    BY <2>9, <2>10
  <2>13. Abs(next_speed'[pc] - speed[pc]) <= 2 * cfg.accel[pc] * Made(pc)' + SlackV(pc)'
    BY <2>9, <2>11
  <2> QED
    BY <1>1, <2>12, <2>13 DEF Near
<1>9. done' <= call'.steps
  BY <1>1, <1>2, CountFacts
<1> QED
  BY <1>1, <1>7, <1>8, <1>9 DEF Close

LEMMA BeginClose == ASSUME SInv, NEW c \in Calls, Begin(c) PROVE Close'
<1>1. /\ pc' = "linear" /\ done' = 0 /\ call' = c /\ cfg' = cfg
      /\ accel' = accel /\ next_accel' = accel /\ speed' = speed /\ next_speed' = speed
  BY DEF Begin, stored
<1>2. ASSUME NEW x \in Axes PROVE Near(x)'
  <2>1. Made(x)' = 0 /\ SlackA(x)' = 0 /\ SlackV(x)' = 0
    BY <1>1 DEF Made, SlackA, SlackV
  <2>2. cfg.jerk[x] \in Nat /\ cfg.accel[x] \in Nat /\ accel[x] \in Int /\ speed[x] \in Int
    BY AxisFacts DEF SInv
  <2>3. Abs(accel[x] - accel[x]) <= cfg.jerk[x] * 0 + 0
        /\ Abs(speed[x] - speed[x]) <= 2 * cfg.accel[x] * 0 + 0
    BY <2>2 DEF Abs
  <2> QED
    BY <1>1, <2>1, <2>3 DEF Near
<1>3. c.steps \in Nat
  BY GlideAssumption DEF Calls
<1> QED
  BY <1>1, <1>2, <1>3 DEF Close

LEMMA ShapeYawClose == SInv /\ ShapeYaw => Close'
<1> SUFFICES ASSUME SInv, ShapeYaw PROVE Close'
  OBVIOUS
<1>1. /\ pc = "linear" /\ pc' = "yaw" /\ done = call.steps /\ done' = 0 /\ call' = call
      /\ cfg' = cfg /\ accel' = accel /\ next_accel' = next_accel
      /\ speed' = speed /\ next_speed' = next_speed
  BY DEF ShapeYaw, stored, copy
<1>2. ASSUME NEW x \in Axes PROVE Near(x)'
  <2>1. Near(x)
    BY <1>1 DEF SInv, Close, Axes
  <2>2. Made(x)' = Made(x) /\ SlackA(x)' = SlackA(x) /\ SlackV(x)' = SlackV(x)
    BY <1>1 DEF Made, SlackA, SlackV, Axes
  <2> QED
    BY <1>1, <2>1, <2>2 DEF Near
<1>3. done' <= call'.steps
  BY <1>1, CountFacts DEF SInv
<1> QED
  BY <1>1, <1>2, <1>3 DEF Close

\* Zeroing a value below a threshold.
LEMMA Zeroed ==
    ASSUME NEW m \in Int, NEW base \in Int, NEW old \in Int, NEW rest \in Nat,
           Abs(old - base) <= m, Abs(old) < rest
    PROVE  Abs(0 - base) <= m + (rest - 1)
  BY DEF Abs

\* At the end of the yaw profile; what comes next counts the shaped profiles as done.
LEMMA ShapedClose ==
    ASSUME SInv, pc = "yaw", done = call.steps, pc' = "correction", done' = 0, call' = call,
           cfg' = cfg, accel' = accel, speed' = speed,
           \A x \in Axes :
              \/ next_accel'[x] = next_accel[x] /\ next_speed'[x] = next_speed[x]
              \/ /\ x # "correction" /\ Abs(next_accel[x]) < REST_A /\ Abs(next_speed[x]) < REST_V
                 /\ next_accel'[x] = 0 /\ next_speed'[x] = 0
    PROVE  Close'
<1>1. ASSUME NEW x \in Axes PROVE Near(x)'
  <2> DEFINE J == cfg.jerk[x] * Made(x)
  <2> DEFINE A == 2 * cfg.accel[x] * Made(x)
  <2>1. Made(x)' = Made(x) /\ SlackA(x) = 0 /\ SlackV(x) = 0
    BY DEF Made, SlackA, SlackV, Axes
  <2>2. SlackA(x)' = (IF x = "correction" THEN 0 ELSE REST_A - 1)
        /\ SlackV(x)' = (IF x = "correction" THEN 0 ELSE REST_V - 1)
    BY DEF SlackA, SlackV
  <2>3. /\ cfg.jerk[x] \in Nat /\ cfg.accel[x] \in Nat
        /\ accel[x] \in Int /\ speed[x] \in Int /\ next_accel[x] \in Int /\ next_speed[x] \in Int
    BY AxisFacts DEF SInv
  <2>4. Made(x) \in Nat
    BY CountFacts DEF SInv, Made
  <2>5. J \in Int /\ A \in Int
    BY <2>3, <2>4
  <2>6. Abs(next_accel[x] - accel[x]) <= J /\ Abs(next_speed[x] - speed[x]) <= A
    <3>1. Near(x)
      BY DEF SInv, Close, Axes
    <3>2. Abs(next_accel[x] - accel[x]) <= J + 0 /\ Abs(next_speed[x] - speed[x]) <= A + 0
      BY <3>1, <2>1 DEF Near
    <3> HIDE DEF J, A
    <3> QED
      BY <3>2, <2>5
  <2> HIDE DEF J, A
  <2>7. REST_A \in Nat \ {0} /\ REST_V \in Nat \ {0}
    BY GlideAssumption
  <2>8. Abs(next_accel'[x] - accel[x]) <= J + SlackA(x)'
        /\ Abs(next_speed'[x] - speed[x]) <= A + SlackV(x)'
    <3>1. CASE next_accel'[x] = next_accel[x] /\ next_speed'[x] = next_speed[x]
      <4>1. SlackA(x)' \in Nat /\ SlackV(x)' \in Nat
        BY <2>2, <2>7
      <4>2. Abs(next_accel[x] - accel[x]) <= J + SlackA(x)'
            /\ Abs(next_speed[x] - speed[x]) <= A + SlackV(x)'
        BY <4>1, <2>3, <2>5, <2>6 DEF Abs
      <4> QED
        BY <3>1, <4>2
    <3>2. CASE /\ x # "correction" /\ Abs(next_accel[x]) < REST_A /\ Abs(next_speed[x]) < REST_V
               /\ next_accel'[x] = 0 /\ next_speed'[x] = 0
      <4>1. Abs(0 - accel[x]) <= J + (REST_A - 1) /\ Abs(0 - speed[x]) <= A + (REST_V - 1)
        BY <3>2, <2>3, <2>5, <2>6, <2>7, Zeroed
      <4> QED
        BY <3>2, <4>1, <2>2
    <3> QED
      BY <3>1, <3>2
  <2> QED
    BY <2>1, <2>8 DEF Near, J, A
<1>2. done' <= call'.steps
  BY CountFacts DEF SInv
<1> QED
  BY <1>1, <1>2 DEF Close

LEMMA SmoothNext == SInv /\ [Next]_vars => SInv'
<1> SUFFICES ASSUME SInv, [Next]_vars PROVE Close'
  BY NextInv DEF SInv
<1>1. CASE glide_reset
  BY <1>1 DEF glide_reset, EndCall, Close, Axes
<1>2. ASSUME NEW c \in CONFIGS, glide_init(c) PROVE Close'
  BY <1>2 DEF glide_init, EndCall, Close, Axes
<1>3. ASSUME NEW c \in Calls, Begin(c) PROVE Close'
  BY <1>3, BeginClose
<1>4. CASE Step
  BY <1>4, StepClose
<1>5. CASE ShapeYaw
  BY <1>5, ShapeYawClose
<1>6. ASSUME NEW good \in BOOLEAN, FadeCorrection(good) PROVE Close'
  <2>1. \A x \in Axes :
            \/ next_accel'[x] = next_accel[x] /\ next_speed'[x] = next_speed[x]
            \/ /\ x # "correction" /\ Abs(next_accel[x]) < REST_A /\ Abs(next_speed[x]) < REST_V
               /\ next_accel'[x] = 0 /\ next_speed'[x] = 0
    BY <1>6 DEF FadeCorrection, Coasts, AtRest, Axes
  <2> QED
    BY <1>6, <2>1, ShapedClose DEF FadeCorrection, stored
<1>7. ASSUME NEW rate \in RATES, NEW good \in BOOLEAN, Correct(rate, good) PROVE Close'
  BY <1>7, ShapedClose DEF Correct, stored
<1>8. CASE Commit
  BY <1>8 DEF Commit, EndCall, Close, Axes
<1>9. CASE UNCHANGED vars
  <2>1. \A x \in Axes : Near(x)' = Near(x)
    BY <1>9 DEF vars, stored, copy, Near, Made, SlackA, SlackV
  <2> QED
    BY <1>9, <2>1 DEF vars, SInv, Close
<1> QED
  BY <1>1, <1>2, <1>3, <1>4, <1>5, <1>6, <1>7, <1>8, <1>9 DEF Next

LEMMA CommitSmooth ==
    ASSUME SInv, Commit, NEW x \in Axes
    PROVE  /\ Abs(accel'[x] - accel[x]) <= cfg.jerk[x] * call.steps + (REST_A - 1)
           /\ Abs(speed'[x] - speed[x]) <= 2 * cfg.accel[x] * call.steps + (REST_V - 1)
<1> DEFINE J == cfg.jerk[x] * call.steps
<1> DEFINE A == 2 * cfg.accel[x] * call.steps
<1>1. Made(x) = call.steps
  BY DEF Commit, Made
<1>2. /\ cfg.jerk[x] \in Nat /\ cfg.accel[x] \in Nat
      /\ accel[x] \in Int /\ speed[x] \in Int /\ next_accel[x] \in Int /\ next_speed[x] \in Int
      /\ call.steps \in Nat
  BY AxisFacts, CountFacts DEF SInv
<1>3. J \in Int /\ A \in Int
  BY <1>2
<1>4. Abs(next_accel[x] - accel[x]) <= J + SlackA(x) /\ Abs(next_speed[x] - speed[x]) <= A + SlackV(x)
  <2>1. Near(x)
    BY DEF SInv, Close, Commit, Axes
  <2> QED
    BY <1>1, <2>1 DEF Near
<1> HIDE DEF J, A
<1>5. REST_A \in Nat \ {0} /\ REST_V \in Nat \ {0}
  BY GlideAssumption
<1>6. CASE x # "correction"
  <2>1. accel'[x] = next_accel[x] /\ speed'[x] = next_speed[x]
    BY <1>6 DEF Commit, SInv, IInv, TypeOK
  <2>2. SlackA(x) = REST_A - 1 /\ SlackV(x) = REST_V - 1
    BY <1>6 DEF Commit, SlackA, SlackV
  <2> QED
    BY <1>4, <2>1, <2>2 DEF J, A
<1>7. CASE x = "correction"
  <2>1. Abs(next_accel[x] - accel[x]) <= J /\ Abs(next_speed[x] - speed[x]) <= A
    <3>1. SlackA(x) = 0 /\ SlackV(x) = 0
      BY <1>7 DEF SlackA, SlackV
    <3> QED
      BY <1>3, <1>4, <3>1
  <2>2. \/ accel'[x] = next_accel[x] /\ speed'[x] = next_speed[x]
        \/ /\ accel'[x] = 0 /\ speed'[x] = 0
           /\ Abs(next_accel[x]) < REST_A /\ Abs(next_speed[x]) < REST_V
    BY <1>7 DEF Commit, SInv, IInv, TypeOK
  <2>3. CASE accel'[x] = next_accel[x] /\ speed'[x] = next_speed[x]
    <3>1. Abs(next_accel[x] - accel[x]) <= J + (REST_A - 1)
          /\ Abs(next_speed[x] - speed[x]) <= A + (REST_V - 1)
      BY <2>1, <1>2, <1>3, <1>5 DEF Abs
    <3> QED
      BY <2>3, <3>1 DEF J, A
  <2>4. CASE /\ accel'[x] = 0 /\ speed'[x] = 0
             /\ Abs(next_accel[x]) < REST_A /\ Abs(next_speed[x]) < REST_V
    <3>1. Abs(0 - accel[x]) <= J + (REST_A - 1) /\ Abs(0 - speed[x]) <= A + (REST_V - 1)
      BY <2>1, <2>4, <1>2, <1>3, <1>5, Zeroed
    <3> QED
      BY <2>4, <3>1 DEF J, A
  <2> QED
    BY <2>2, <2>3, <2>4
<1> QED
  BY <1>6, <1>7

\* ShapingIsSmooth, glide.c and motion_profile.c: for any settings, requests and gyro,
\* an update of n steps changes no speed by more than n steps at the acceleration limit
\* do, and no acceleration by more than n steps at the jerk limit do.
THEOREM GlideIsSmooth == Spec => ShapingIsSmooth
<1> DEFINE Smooth == \A x \in Axes :
        /\ Abs(accel'[x] - accel[x]) <= cfg.jerk[x] * call.steps + (REST_A - 1)
        /\ Abs(speed'[x] - speed[x]) <= 2 * cfg.accel[x] * call.steps + (REST_V - 1)
<1>1. SInv /\ [Next]_vars => [pc = "correction" /\ pc' = "idle" => Smooth]_vars
  <2> SUFFICES ASSUME SInv, [Next]_vars, pc = "correction", pc' = "idle" PROVE Smooth
    OBVIOUS
  <2>1. CASE Commit
    BY <2>1, CommitSmooth
  <2>2. CASE glide_reset
    <3>1. Refuses
      BY <2>2 DEF glide_reset
    <3> QED
      BY <3>1, ConfigFacts DEF Refuses, SInv, IInv, TypeOK, WithinLimits, Abs
  <2>3. ASSUME NEW c \in CONFIGS, glide_init(c) PROVE FALSE
    BY <2>3 DEF glide_init
  <2>4. ASSUME NEW c \in Calls, Begin(c) PROVE FALSE
    BY <2>4 DEF Begin
  <2>5. CASE Step
    BY <2>5 DEF Step
  <2>6. CASE ShapeYaw
    BY <2>6 DEF ShapeYaw
  <2>7. ASSUME NEW good \in BOOLEAN, FadeCorrection(good) PROVE FALSE
    BY <2>7 DEF FadeCorrection
  <2>8. ASSUME NEW rate \in RATES, NEW good \in BOOLEAN, Correct(rate, good) PROVE FALSE
    BY <2>8 DEF Correct
  <2>9. CASE UNCHANGED vars
    BY <2>9 DEF vars
  <2> QED
    BY <2>1, <2>2, <2>3, <2>4, <2>5, <2>6, <2>7, <2>8, <2>9 DEF Next
<1>2. SInv /\ [Next]_vars => SInv'
  BY SmoothNext
<1> QED
  BY <1>1, <1>2, InitClose, PTL DEF Spec, ShapingIsSmooth
=============================================================================
