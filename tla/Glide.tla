-------------------------------- MODULE Glide --------------------------------
(***************************************************************************)
(* glide.c and motion_profile.c: the shaping of a requested motion and the *)
(* yaw correction on top of it.  wheels.c calls glide_update once a        *)
(* control period, resets it with every brake and gives it new limits at   *)
(* rest; Wheels keeps of it only whether the profile is at rest.           *)
(*                                                                         *)
(* A call works on a copy of the state, `next`, one action for each 5 ms   *)
(* step of its profiles, and stores the copy at its end.  Speeds are       *)
(* doubled whole numbers, one step is the unit of time; the geometry is    *)
(* such that a unit of turn moves a wheel as a unit of speed does.         *)
(***************************************************************************)
EXTENDS Integers

CONSTANTS
    CONFIGS,        \* the settings glide_init accepts
    MAX_STEPS,      \* 20: the steps of 5 ms in the longest dt, 0.1 s
    GAIN,           \* 6.0, the desired acceleration per unit of error
    REST_V, REST_A, \* 1e-4 and 1e-3: below these a profile is at rest
    BAD_MAX,        \* 0.2 s without tracking
    REQUESTS,       \* the speeds that can be requested
    RATES           \* the yaw rates the gyro can report

Axes == {"linear", "yaw", "correction"}

\* accel, jerk: ax_max, alpha_max and correction_accel, with their jerks; max: vx_max,
\* wz_max and correction_max.
Config ==
    [accel : [Axes -> Nat \ {0}], jerk : [Axes -> Nat \ {0}], max : [Axes -> Nat],
     wheel_max : Nat \ {0}, kp : Nat, ki : Nat, deadband : Nat, feedback : BOOLEAN]

ASSUME GlideAssumption ==
    /\ CONFIGS \subseteq Config
    /\ MAX_STEPS \in Nat \ {0}
    /\ GAIN \in Nat \ {0}
    /\ REST_V \in Nat \ {0} /\ REST_A \in Nat \ {0}
    /\ BAD_MAX \in Nat
    /\ REQUESTS \subseteq Int
    /\ RATES \subseteq Int

VARIABLES
    cfg,
    speed, accel,            \* g->linear, g->yaw and g->correction_profile
    integrator, correction,
    bad,                     \* tracking_bad_s
    next_speed, next_accel,  \* the profiles of `next`
    next_integrator, next_bad,
    coast,                   \* this call found nothing requested and nothing moving
    target,                  \* what each profile of this call goes to
    call,                    \* the requested speeds and the dt of this call
    done,                    \* steps made of the profiles at hand
    pc                       \* the profile at hand

stored == <<cfg, speed, accel, integrator, correction, bad>>
copy == <<next_speed, next_accel, next_integrator, next_bad>>
vars == <<stored, copy, coast, target, call, done, pc>>

Calls == [vx : REQUESTS, wz : REQUESTS, steps : 1 .. MAX_STEPS]

Abs(n) == IF n < 0 THEN -n ELSE n
Clamp(n, limit) == IF n > limit THEN limit ELSE IF n < -limit THEN -limit ELSE n
AtRest == [x \in Axes |-> 0]

TypeOK ==
    /\ cfg \in CONFIGS
    /\ speed \in [Axes -> Int] /\ accel \in [Axes -> Int]
    /\ integrator \in Int /\ correction \in Int /\ bad \in 0 .. BAD_MAX
    /\ next_speed \in [Axes -> Int] /\ next_accel \in [Axes -> Int]
    /\ next_integrator \in Int /\ next_bad \in 0 .. BAD_MAX
    /\ coast \in BOOLEAN
    /\ target \in [Axes -> Int]
    /\ call \in Calls
    /\ done \in 0 .. MAX_STEPS
    /\ pc \in {"idle"} \cup Axes

\* glide_init: memset.
Fresh(c) ==
    /\ cfg = c
    /\ speed = AtRest /\ accel = AtRest
    /\ integrator = 0 /\ correction = 0 /\ bad = 0

Init ==
    /\ \E c \in CONFIGS : Fresh(c)
    /\ next_speed = AtRest /\ next_accel = AtRest /\ next_integrator = 0 /\ next_bad = 0
    /\ coast = FALSE
    /\ target = AtRest
    /\ call \in Calls
    /\ done = 0
    /\ pc = "idle"

-----------------------------------------------------------------------------
(* Between two calls. *)

\* What a call keeps on the stack goes with it.
EndCall ==
    /\ next_speed' = AtRest /\ next_accel' = AtRest /\ next_integrator' = 0 /\ next_bad' = 0
    /\ coast' = FALSE
    /\ target' = AtRest
    /\ done' = 0
    /\ pc' = "idle"

\* A step is refused when the acceleration it finds is beyond the limit.
Refuses == pc \in Axes /\ done = 0 /\ Abs(next_accel[pc]) > cfg.accel[pc]

\* glide_reset, as wheels_brake calls it: between two calls or after one that failed.
glide_reset ==
    /\ pc # "idle" => Refuses
    /\ speed' = AtRest /\ accel' = AtRest
    /\ integrator' = 0 /\ correction' = 0 /\ bad' = 0
    /\ EndCall
    /\ UNCHANGED <<cfg, call>>

\* glide_init with new limits, which wheels_configure_calibration allows at rest.
glide_init(c) ==
    /\ pc = "idle"
    /\ \A x \in {"linear", "yaw"} : Abs(speed[x]) <= REST_V /\ Abs(accel[x]) <= REST_A
    /\ cfg' = c
    /\ speed' = AtRest /\ accel' = AtRest
    /\ integrator' = 0 /\ correction' = 0 /\ bad' = 0
    /\ EndCall
    /\ UNCHANGED call

\* glide_update begins: a copy of the state, and the clamped requests as targets.
\* A call with a dt above 0.1 s or a value that is not finite changes nothing.
Begin(c) ==
    /\ pc = "idle"
    /\ call' = c
    /\ next_speed' = speed /\ next_accel' = accel
    /\ next_integrator' = integrator /\ next_bad' = bad
    /\ target' = [target EXCEPT !["linear"] = Clamp(2 * c.vx, cfg.max["linear"]),
                                !["yaw"] = Clamp(2 * c.wz, cfg.max["yaw"])]
    /\ done' = 0
    /\ pc' = "linear"
    /\ UNCHANGED <<stored, coast>>

-----------------------------------------------------------------------------
(* motion_profile_step. *)

\* Mutant: the acceleration limit is left to the jerk limit.
Desired_Unlimited(x, error) ==
    {d \in -GAIN * Abs(error) .. GAIN * Abs(error) :
        /\ d * error >= 0
        /\ d * d <= cfg.jerk[x] * Abs(error)
        /\ (Abs(d) + 1) * (Abs(d) + 1) > cfg.jerk[x] * Abs(error) \/ Abs(d) = GAIN * Abs(error)}

\* The desired acceleration towards the target, in whole numbers: the greatest within
\* the limit, 6 times the error and the square root of the jerk limit times the error.
Desired(x, error) ==
    LET within(n) == n <= cfg.accel[x] /\ n <= GAIN * Abs(error) /\ n * n <= cfg.jerk[x] * Abs(error)
    IN  {d \in -cfg.accel[x] .. cfg.accel[x] :
            d * error >= 0 /\ within(Abs(d)) /\ ~within(Abs(d) + 1)}

\* Mutant: the desired acceleration is applied at once.
Towards_AtOnce(a, d, jerk) == d

\* The acceleration after one step that wants d: it moves by the jerk limit at most.
Towards(a, d, jerk) == a + Clamp(d - a, jerk)

Step ==
    /\ pc \in Axes
    /\ done < call.steps
    /\ ~Refuses
    /\ \E d \in Desired(pc, target[pc] - next_speed[pc]) :
          LET a == Towards(next_accel[pc], d, cfg.jerk[pc])
          IN  /\ next_accel' = [next_accel EXCEPT ![pc] = a]
              /\ next_speed' = [next_speed EXCEPT ![pc] = @ + next_accel[pc] + a]
    /\ done' = done + 1
    /\ UNCHANGED <<stored, next_integrator, next_bad, coast, target, call, pc>>

-----------------------------------------------------------------------------
(* The rest of glide_update, where its last two arguments are first read: the  *)
(* yaw rate and `good`, tracking_good.                                         *)

\* The linear profile is done.
ShapeYaw ==
    /\ pc = "linear" /\ done = call.steps
    /\ done' = 0
    /\ pc' = "yaw"
    /\ UNCHANGED <<stored, copy, coast, target, call>>

\* allocate has to scale the wheels down.
Saturates(v, w) == Abs(v["linear"]) + Abs(v["yaw"] + w) > cfg.wheel_max

\* Mutant: a request for zero is taken for standing still.
Coasts_OnRequest(v, a) == call.vx = 0 /\ call.wz = 0

\* Nothing is requested and the shaped motion has come to rest.
Coasts(v, a) ==
    /\ call.vx = 0 /\ call.wz = 0
    /\ \A x \in {"linear", "yaw"} : Abs(v[x]) < REST_V /\ Abs(a[x]) < REST_A

YawError(rate) ==
    LET error == next_speed["yaw"] - 2 * rate IN IF Abs(error) < cfg.deadband THEN 0 ELSE error

\* The integrator before it is decided whether it may be stored.
Candidate(error) ==
    Clamp(integrator + cfg.ki * error * call.steps, cfg.max["correction"])

\* Mutant: only saturated wheels freeze the integrator.
Constrained_Wheels(v, error, untracked) ==
    Saturates(v, Clamp(cfg.kp * error + Candidate(error), cfg.max["correction"]))

\* The wheels saturate, the correction is at its limit or the motors do not follow.
Constrained(v, error, untracked) ==
    LET raw == cfg.kp * error + Candidate(error)
    IN  \/ Saturates(v, Clamp(raw, cfg.max["correction"]))
        \/ Abs(raw) > cfg.max["correction"]
        \/ untracked >= BAD_MAX

\* The time without tracking at the end of this call, saturated.
Untracked(good) ==
    IF good THEN 0
    ELSE IF bad + call.steps < BAD_MAX THEN bad + call.steps ELSE BAD_MAX

\* Standing still, or no yaw feedback: the correction fades out.
FadeCorrection(good) ==
    /\ pc = "yaw" /\ done = call.steps
    /\ coast' = Coasts(next_speed, next_accel)
    /\ coast' \/ ~cfg.feedback
    /\ next_speed' = IF coast' THEN [AtRest EXCEPT !["correction"] = next_speed["correction"]]
                     ELSE next_speed
    /\ next_accel' = IF coast' THEN [AtRest EXCEPT !["correction"] = next_accel["correction"]]
                     ELSE next_accel
    /\ next_integrator' = 0
    /\ next_bad' = Untracked(good)
    /\ target' = [target EXCEPT !["correction"] = 0]
    /\ done' = 0
    /\ pc' = "correction"
    /\ UNCHANGED <<stored, call>>

\* The PI step on the yaw error; a constrained integrator may only unwind.
Correct(rate, good) ==
    /\ pc = "yaw" /\ done = call.steps
    /\ coast' = FALSE
    /\ ~Coasts(next_speed, next_accel) /\ cfg.feedback
    /\ next_bad' = Untracked(good)
    /\ LET error == YawError(rate)
       IN  /\ next_integrator' = IF ~Constrained(next_speed, error, next_bad') \/ integrator * error < 0
                                 THEN Candidate(error) ELSE integrator
           /\ target' = [target EXCEPT !["correction"] =
                            Clamp(cfg.kp * error + next_integrator', cfg.max["correction"])]
    /\ done' = 0
    /\ pc' = "correction"
    /\ UNCHANGED <<stored, next_speed, next_accel, call>>

\* The copy is stored.  A correction that has faded out is put to zero.
Commit ==
    /\ pc = "correction" /\ done = call.steps
    /\ LET faded == /\ coast \/ ~cfg.feedback
                    /\ Abs(next_speed["correction"]) < REST_V
                    /\ Abs(next_accel["correction"]) < REST_A
       IN  /\ speed' = IF faded THEN [next_speed EXCEPT !["correction"] = 0] ELSE next_speed
           /\ accel' = IF faded THEN [next_accel EXCEPT !["correction"] = 0] ELSE next_accel
    /\ correction' = Clamp(speed'["correction"], cfg.max["correction"])
    /\ integrator' = next_integrator /\ bad' = next_bad
    /\ EndCall
    /\ UNCHANGED <<cfg, call>>

Next ==
    \/ glide_reset
    \/ \E c \in CONFIGS : glide_init(c)
    \/ \E c \in Calls : Begin(c)
    \/ Step
    \/ ShapeYaw
    \/ \E good \in BOOLEAN : FadeCorrection(good)
    \/ \E rate \in RATES, good \in BOOLEAN : Correct(rate, good)
    \/ Commit

Spec == Init /\ [][Next]_vars

-----------------------------------------------------------------------------
(* Properties. *)

\* A call with sound arguments goes through: whatever was requested before, no profile
\* is ever left with an acceleration that its next step refuses, which would make
\* wheels_update brake a healthy robot.
NeverRefused == ~Refuses

\* From one call to the next each profile changes its speed within its acceleration
\* limit and its acceleration within its jerk limit, over as many steps as the call
\* has; what coasting puts to zero is below the rest thresholds.
ShapingIsSmooth ==
    [][pc = "correction" /\ pc' = "idle" =>
        \A x \in Axes :
            /\ Abs(accel'[x] - accel[x]) <= cfg.jerk[x] * call.steps + (REST_A - 1)
            /\ Abs(speed'[x] - speed[x]) <= 2 * cfg.accel[x] * call.steps + (REST_V - 1)]_vars

\* The correction that the wheels are given is never beyond its limit, and changes as
\* smoothly as its profile, however the gyro jumps.
CorrectionIsBounded ==
    /\ Abs(correction) <= cfg.max["correction"]
    /\ Abs(integrator) <= cfg.max["correction"]

\* No windup: an update that ends with the motors not following, the correction at its
\* limit or the wheels saturated leaves the integrator where it was, or brings it
\* towards zero (one long step may carry it through zero).
NoWindup ==
    [][\A rate \in RATES, good \in BOOLEAN : Correct(rate, good) =>
        LET error == YawError(rate)
            raw == cfg.kp * error + Candidate(error)
        IN  /\ \/ ~good /\ bad + call.steps >= BAD_MAX
               \/ Abs(raw) > cfg.max["correction"]
               \/ Saturates(next_speed, Clamp(raw, cfg.max["correction"]))
            => /\ integrator >= 0 => next_integrator' <= integrator
               /\ integrator <= 0 => next_integrator' >= integrator]_vars
=============================================================================
