------------------------- MODULE CalibrationMetrics -------------------------
(***************************************************************************)
(* calibration_metrics.c: what a trial measures, as operators on a record  *)
(* `m`.  The calibration image feeds it every IMU sample; the server rates *)
(* a trial by it (tools/calibration/trials.py).                            *)
(*                                                                         *)
(* Speeds and times are whole numbers.  m.last, m.knock and m.motion stand *)
(* for now - last_us, now - last_knock_us and now - motion_start_us, Never *)
(* for a time that is still 0; they saturate beyond every threshold.  What *)
(* the code halves (the trapezoids) is kept doubled.  Of the accelerations *)
(* only the question whether a residual counts as a knock is kept.         *)
(***************************************************************************)
EXTENDS Integers

CONSTANTS
    METRICS_GAP,       \* 50 ms: the longest interval that is integrated
    METRICS_SETTLE,    \* 2 s of motion, before which nothing is steady
    METRICS_DEBOUNCE,  \* 80 ms between two knocks
    ICR                \* k_icr: the encoder turn of a unit turn of the body

ASSUME MetricsAssumption ==
    /\ METRICS_GAP \in Nat \ {0}
    /\ METRICS_SETTLE \in Nat \ {0}
    /\ METRICS_DEBOUNCE \in Nat
    /\ ICR \in Nat \ {0}

Never == -1
METRICS_TOP == METRICS_GAP + METRICS_SETTLE + METRICS_DEBOUNCE + 1

Channels == {"gyro", "encoder", "vx"}
Zero == [c \in Channels |-> 0]

\* What one call is told: `settled` for a shaped turn within 5 % of the requested
\* one, `knock` for a residual acceleration above 0.8, `valid` with isfinite of all.
Reading ==
    [speed : [Channels -> Int], request : [vx : Int, wz : Int],
     settled : BOOLEAN, knock : BOOLEAN, valid : BOOLEAN]

MetricsAge == {Never} \cup 0 .. METRICS_TOP

MetricsType ==
    [active : BOOLEAN, body : BOOLEAN, samples : Nat, gaps : Nat, knocks : Nat,
     previous_valid : BOOLEAN, previous_steady : BOOLEAN, previous : [Channels -> Int],
     last : MetricsAge, knock : MetricsAge, motion : MetricsAge, response : MetricsAge,
     total : [Channels -> Int], steady : [Channels -> Int],
     elapsed : Nat, steady_s : Nat, stop_s : Nat, stop_distance : Nat]

\* calibration_metrics_begin; `body` is set by its caller (calibration_firmware.c:148).
calibration_metrics_begin(body) ==
    [active |-> TRUE, body |-> body, samples |-> 0, gaps |-> 0, knocks |-> 0,
     previous_valid |-> FALSE, previous_steady |-> FALSE, previous |-> Zero,
     last |-> Never, knock |-> Never, motion |-> Never, response |-> Never,
     total |-> Zero, steady |-> Zero,
     elapsed |-> 0, steady_s |-> 0, stop_s |-> 0, stop_distance |-> 0]

\* The static record before the first trial.
NoMetrics == [calibration_metrics_begin(FALSE) EXCEPT !.active = FALSE, !.response = 0]

Magnitude(n) == IF n < 0 THEN -n ELSE n

\* Twice the area under a speed that goes from `from` to `to` within dt.
Trapezoids(from, to, dt) == [c \in Channels |-> (from[c] + to[c]) * dt]

Plus(f, g) == [c \in Channels |-> f[c] + g[c]]

\* A turn on the spot at its full rate, long enough after the motion began.
Steady(m, r, moving) ==
    /\ moving /\ r.request.vx = 0 /\ r.request.wz # 0 /\ r.settled
    /\ m.motion # Never /\ m.motion >= METRICS_SETTLE

\* measured / request >= 0.9 on the axis that is driven.
Reaches(m, r) ==
    LET speed == r.speed
    IN  IF r.request.vx # 0 THEN 10 * speed["vx"] * r.request.vx >= 9 * r.request.vx * r.request.vx
        ELSE LET measured == IF m.body THEN ICR * speed["gyro"] ELSE speed["encoder"]
             IN  /\ r.request.wz # 0
                 /\ 10 * measured * r.request.wz >= 9 * ICR * r.request.wz * r.request.wz

\* Mutant: the first steady reading brings the interval before it along.
Integrate_SteadyEnd(m, r, moving) ==
    LET area == Trapezoids(m.previous, r.speed, m.last)
        steady == Steady(m, r, moving)
        stops == moving /\ r.request = [vx |-> 0, wz |-> 0]
    IN  [m EXCEPT !.total = Plus(@, area), !.elapsed = @ + m.last,
                  !.steady = IF steady THEN Plus(@, area) ELSE @,
                  !.steady_s = IF steady THEN @ + m.last ELSE @,
                  !.stop_s = IF stops THEN @ + m.last ELSE @,
                  !.stop_distance = IF stops THEN @ + Magnitude(area["vx"]) ELSE @]

\* The interval that ends with r: the yaw and distance sums, with those of the
\* steady part and of the way to a stop.
Integrate(m, r, moving) ==
    LET area == Trapezoids(m.previous, r.speed, m.last)
        steady == Steady(m, r, moving) /\ m.previous_steady
        stops == moving /\ r.request = [vx |-> 0, wz |-> 0]
    IN  [m EXCEPT !.total = Plus(@, area), !.elapsed = @ + m.last,
                  !.steady = IF steady THEN Plus(@, area) ELSE @,
                  !.steady_s = IF steady THEN @ + m.last ELSE @,
                  !.stop_s = IF stops THEN @ + m.last ELSE @,
                  !.stop_distance = IF stops THEN @ + Magnitude(area["vx"]) ELSE @]

Knock(m, r) ==
    IF r.knock /\ (m.knock = Never \/ m.knock > METRICS_DEBOUNCE)
    THEN [m EXCEPT !.knocks = @ + 1, !.knock = 0] ELSE m

Respond(m, r, moving) ==
    IF moving /\ m.response = Never /\ m.motion # Never /\ Reaches(m, r)
    THEN [m EXCEPT !.response = m.motion] ELSE m

\* Mutant: a reading that comes late joins the one before it.
Closes_AnyGap(m) == m.previous_valid /\ m.last > 0

\* The reading closes an interval that may be integrated.
Closes(m) == m.previous_valid /\ m.last > 0 /\ m.last <= METRICS_GAP

\* Mutant: a reading that is not valid is left out without a trace.
Missed_Silently(m) == [m EXCEPT !.previous_valid = FALSE]

Missed(m) == [m EXCEPT !.gaps = @ + 1, !.previous_valid = FALSE]

\* calibration_metrics_observe.  A reading that closes no interval is itself a gap,
\* unless it is the first.
calibration_metrics_observe(m, r, moving) ==
    IF ~m.active THEN m
    ELSE IF ~r.valid THEN Missed(m)
    ELSE LET begun == IF m.motion = Never /\ moving THEN [m EXCEPT !.motion = 0] ELSE m
             counted == IF Closes(m) THEN Respond(Knock(Integrate(begun, r, moving), r), r, moving)
                        ELSE IF m.last # Never THEN [begun EXCEPT !.gaps = @ + 1]
                        ELSE begun
         IN  [counted EXCEPT !.samples = @ + 1, !.last = 0, !.previous_valid = TRUE,
                             !.previous_steady = Steady(begun, r, moving), !.previous = r.speed]

MetricsLater(age, d) ==
    CASE age = Never -> Never
      [] age # Never /\ age + d < METRICS_TOP -> age + d
      [] OTHER -> METRICS_TOP

\* The clock moves on by d ticks.
MetricsOlder(m, d) ==
    [m EXCEPT !.last = MetricsLater(@, d), !.knock = MetricsLater(@, d),
              !.motion = MetricsLater(@, d)]
=============================================================================
