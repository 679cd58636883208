# Verification of the base101 firmware

TLA+ models of the Link101 robot firmware in `src/`, the TLC configurations that check
them and the TLAPS proofs about them. Everything is translated from the C and Python
sources; line references are in `PROJECT.json` under `map`.

## 1. The system

An RP2350 board drives four wheel motors over serial buses and reads an IMU. There is
no operating system, one core and one cooperative main loop: every function runs to its
end, and concurrency comes from the callbacks the loop runs in an order the host
decides, from motors and links that lose or delay frames, from time that passes between
any two steps, and from resets that leave the motors as they were. Four images are built
from the same sources: the ROS firmware, the calibration firmware, the motor terminal
and an IMU diagnostic.

| component | source | state it keeps | operations |
|---|---|---|---|
| gyro bias estimator | `gyro_yaw.c` | last sample and its age, running window (count, sum, squares, age), bias, `calibrated` | begin, observe, get |
| drive control | `wheels.c` | per wheel: online, last feedback with its time, `braked`, target; `motion_enabled`, requested and shaped velocity, timers; parameters | begin, set_velocity, update, brake, observe_gyro, restart calibration, configure, retry_offline |
| motion shaping | `glide.c`, `motion_profile.c` | two profiles, correction, integrator | init, reset, update |
| ROS main loop | `main.c`, `ros.c` | `have_cmd_vel` and its time, timers, `host_seen` and its time, odometry | subscribers `cmd_vel`, `gyro_calibrate`, `odom/reset`, time sync; watchdog; sampling; publication; restart on a silent host |
| time sync | `time_sync.c`, `tools/time_sync_host.py` | pending probe, offset, time of the last sync | start, accept, time; the host's `on_request` |
| odometry | `odometry.c` | pose, last velocity and sample time | update, reset |
| IMU | `imu.c` | sensor present, retry timer, counters | begin, update, read |
| calibration protocol | `calibration_protocol.c` | session, fault latch, driving / releasing, three lease times, trial deadline, parameters | init, stop, fault, disconnect, expire, command |
| calibration main loop | `calibration_firmware.c` | cable state, line buffer, reply | the loop |
| calibration metrics | `calibration_metrics.c` | sums over a trial | begin, observe |
| calibration server | `tools/calibration/server.py`, `trials.py` | serial thread, request queue, operator ownership and sequence, intent and its lease, trial, sequence | operator actions, serial loop, trial and sequence ticks, save |
| motor terminal | `motor_terminal.c`, `tools/motor_terminal.py` | targets, deadline, fault latch, mode, settings | commands, update |
| status LED, USB, IMU diagnostic, web page | `status.c`, `io.c`, `usb_descriptors.c`, `imu_diagnostic*.c`, `app.js`, `guided.js` | none that moves the robot | I/O |
| middleware | `lib/` (vendored zenoh-pico, Pico-ROS, micro-CDR) | | delivers, loses, delays, repeats messages |

How they interact. `wheels.c` is called by the main loop of either image and owns the
gyro estimator: a motion command is accepted only with a fresh calibrated rate and fresh
feedback of all wheels, and every control step asks for them again. The motors brake
when told to, and hold their last order otherwise: feedback is the only evidence of
which it was. The ROS loop calls the subscribers from `easyp_spin_once`, then the
watchdog, the IMU sampling and the host-silence check, then `wheels_update`. The
calibration loop reads lines from the USB serial port, lets the protocol judge each,
applies what it asks to the wheels, and looks at the protocol's leases twice per round.

Beside the drive both images measure. The ROS image samples gyro and front-wheel feedback
at 208 Hz, integrates the pose and publishes both at 50 Hz with host stamps; the
calibration image integrates the same pose and the sums of a trial, from which the
calibration server later derives constants the firmware is compiled with.

What is hard: a command that is fresh when judged and stale when sent; one wheel of four
that fails halfway through a control step; brake frames that are lost; leases that must
not renew one another, and expire together; answers of the host that are late, repeated
or straddle a step of its clock; resets that leave the motors running; a calibration
window that silently spans a gap; four timers of one loop that drift against each other;
an integral that bridges what was never measured; a trajectory that is half updated when
a limit is found exceeded.

What makes each part correct:

- estimator: it calibrates on a full, uninterrupted, quiet window and on nothing else;
  the bias then stands; a rate older than its limit is not handed out.
- drive: wheels move together or not at all; a stopped drive has braked every wheel that
  answered; a lost brake frame is made good.
- ROS loop: motion never outlives the last command by more than the timeout and one turn
  of the loop, and never a recalibration, refusal or fault.
- time sync: a stamp is off by at most half the accepted round trip; a clock step is
  forgotten in bounded time; one probe, one synchronisation.
- calibration image: motion needs session, order, no fault, and a calibration since the
  last fault; each of the four leases ends it.
- odometry and metrics: what is summed is exactly the intervals whose two ends were
  measured, close enough and after the last reset; nothing counts as steady or complete
  that was interrupted.
- publication: no sample goes out twice, or with a bias that was discarded since; it
  resumes by itself after every gap.
- shaping: acceleration and jerk within their limits from call to call, no call refused in
  the middle, no integrator that winds up while nothing can follow.
- terminal: runs end; a fault, a stop, a pulled cable or another selection leaves no speed.
- server: a stop is the last word on what was armed before it; orders and leases die with
  their owner; a trial that counts ran under one set of parameters.

## 2. Modules

| module | models | notes |
|---|---|---|
| `GyroYawOps` | `gyro_yaw.c` as operators on a record | used by `GyroYaw`, `Wheels`, `Publication` |
| `GyroYaw`, `MCGyroYaw` | the estimator under every sequence of samples, with a log of those samples | the properties compare the window with the log; names like `GyroYawInit` leave `Init` free, so that one proof module extends this, `Estimates` and `Publication` |
| `Wheels` | `wheels.c`: one action operator per function | no `Next` of its own: the two main loops compose it |
| `RosLoop` | the drive side of `main.c` and `ros.c`: boot, one action per callback and per part of `ros_update`, resets | `pc` is the part of the loop that comes next |
| `Publication`, `MCPublication` | the sensor side of the same loop: `imu.c` with its retry, sampling, odometry, recalibration, pose reset, the 50 Hz publishers | what the wheels tell is free; the drive cannot be influenced from here, so the two sides need not be multiplied |
| `Deadman` | the abstract specification: a drive that any stop ends, that only an order (re)starts, and that no order keeps alive longer than LIMIT | refined by `RosLoop` and `CalibrationFirmware` |
| `TimeSync`, `MCTimeSync` | `time_sync.c`, the probing and expiry in `ros.c`, `time_sync_host.py`, and the network between | board clock in microseconds, host clock in nanoseconds, as in the code |
| `Odometry` | `odometry.c` as operators on a record | used by `Publication` and `Estimates` |
| `CalibrationMetrics` | `calibration_metrics.c` as operators on a record | used by `Estimates` |
| `Estimates`, `MCEstimates` | both integrators under every sequence of calls the calibration loop can make, each beside a log of those calls | they share nothing: `subject` says which one a behaviour exercises |
| `Glide`, `MCGlide` | `glide.c` and `motion_profile.c`: init, reset, and an update as its 5 ms steps on a copy, stored at the end | whole numbers; a step is the unit of time |
| `CalibrationProtocol` | `calibration_protocol.c`: `Expiry` and one operator per line | composed by the next |
| `CalibrationFirmware` | `calibration_firmware.c` on top of `Wheels` and `CalibrationProtocol` | the clock may tick between judging a line and applying it |
| `CalibrationTrial` | `CalibrationFirmware` with an observer of the trial deadline | for one run |
| `MotorTerminal` | `motor_terminal.c`: boot, the cable, every command, the four courses a call of `update` can take | speeds are told apart as at rest or not |
| `CalibrationServer` | `server.py`: one action per stretch between two locks, queue operations or exchanges of the serial thread and of the HTTP threads | the board is reduced to what its replies tell: `Executed` is `calibration_command` seen from the host |
| `Wheels_proofs`, `RosLoop_proofs`, `TimeSync_proofs`, `MotorTerminal_proofs`, `CalibrationFirmware_proofs`, `Measurement_proofs`, `Glide_proofs`, `CalibrationServer_proofs` | the theorems | section 5 |

State and code. Variables carry the names of the C statics where there is one.
Time is discrete; instead of absolute `_us` fields the models keep the *age* of an event
(`cmd_age`, `heartbeat_age`, `feedback[i].age`) or the time *to* one (`brake_in`,
`update_in`, `bound_in`, `imu_in`), each followed only as far as a comparison in the code
can tell values apart. `motor` is the motor's own state, which the firmware cannot read.
An exchange with a motor has four outcomes: the frame is lost; it arrives and the reply
does not, or reports an error; it is answered at rest; it is answered moving.

Observers: `loop_age`, `log`, `sync_from`, `step_at`, `phase`, `unproven`, `trial_in`,
`sent`, `imu_sent`, `odom_sent`, `recalibrated`, `readings`, `twists`. No guard of the
code's actions reads them, except that `Tick` does not run past `MAX_LOOP` and that logs
end at their bound.

Data left out. In the two main loops velocities are `zero` or `move` and the trajectory is
"still shaped or not"; `Glide` gives it its numbers. Gyro readings are small integers. The
pose is exact in whole numbers: what the code halves is kept doubled, and sine and cosine
are tables the theorems leave open. Parameter values, JSON, stamps as text and message
formats do not appear. Telemetry and status text is not an action: it only reads.

Mutants. Operators whose name ends in a suffix after the code's name
(`CommandFresh_OffByOne`) are what a plausible bug would make of the definition below
them. No specification uses them; each shows that a property notices.

## 3. Runs

| run | question | bounds | distinct states |
|---|---|---|---|
| `gyro_yaw` | Does the estimator calibrate on exactly the windows a direct reading of the log calls good? | window 3 ticks, 3 samples, logs of 5: enough for a window to be broken and rebuilt, and for both limits to be met and missed by one | 291,488 |
| `ros_loop` | Is the drive a dead man's switch, a stopped drive braked, a stall of the loop noticed, and does a bias stand until a recalibration that stops the drive, under every interleaving? | 2 wheels (one can fail when another has been served), command timeout 3, watchdog and feedback limits 2, a turn of up to 3 ticks, so that a command can expire, and feedback grow too old, within one turn | 204,466 (18 million transitions, 50 s) |
| `ros_loop_live` | Is a wheel whose brake frames are lost braked in the end? | 1 wheel, timeout 2; fairness below | 25,694 |
| `time_sync` | Are stamps accurate whatever the network and the host's clock do? | 1 message in flight each way, 2 ns to the microsecond, round trip 2, timeout and period 4, a clock that is set once forward or back; the clocks end at 10 and 12, long enough for three probes, so the run may stop (`CHECK_DEADLOCK FALSE`) | 6,198,573 |
| `publication` | Is a sample published once, with the rate it was taken with, and does publication resume after anything? | sample every tick, messages every second tick, retry 3, synchronisation gap 3 and timeout 5, a turn of up to 1 tick; the sensor, the front wheels and the host come and go at will | 358,370 (45 s with liveness) |
| `estimates` | Are pose and trial sums what the intervals measured add up to? | logs of 4 calls, delays 1, 2 and 3 with a gap limit of 2, seven kinds of reading: the limits are met and missed by one, and a measurement can be broken twice | 2.4 million |
| `glide` | Does the trajectory keep its limits, is a call refused in the middle, can the integrator wind up? | two settings, with feedback and without, requests -1, 0, 1, rates -1 and 2, calls of one and two steps | 3.9 million (62 s) |
| `calibration_firmware` | Which moments allow motion, does every lease end it, and can a line judged earlier drive a wheel that has failed since? | 1 wheel, heartbeat 2, operator 1, release 2, trial 2, `MAX_LOOP` 2: every pair of leases can expire together and in either order | 412,794 |
| `calibration_trial` | Does the trial deadline stand against drive and heartbeat lines, as long as it has not been found over? (violated) | `MAX_LOOP` 1 | |
| `motor_terminal` | Do runs end, and can a fault, a stop, a pulled cable or a changed selection leave a speed behind? | 2 wheels, one on each side; tick 1, profile gap 1, runs of 1 or 2, `MAX_LOOP` 2, so that a late loop exceeds the gap | 54,692 |
| `calibration_server` | Does a stop stay the last word, do leases and orders die with their owner, and does a trial that counts have one setting, wherever HTTP threads come in? | one browser (a second one can do more only by arming once the first is disarmed, which one browser does as well), 2 configurations, sequences of 2 trials, a queue of 1 and one call on its way to it, 2 arms, 2 trials: enough for a stop to be overtaken by a new arm and a trial, and for a trial to be replaced while its deadline is set | 3,015,422 (76 s) |
| `calibration_server_bound` | Does a trial drive only under its deadline? (violated) | a board that does not stop by itself | |

One wheel is enough in `calibration_firmware` because what two wheels add, a step that
fails between them, is inside `wheels_update`, which `ros_loop` checks with two and the
proofs for any number. The limits of the leases keep the order the code's constants have
(operator < heartbeat < release) where TLC can tell it; a tick stands for the granularity
at which one limit can be passed and another not. The type invariant is proved, alone
or as a part of `IInv`, wherever a module has proofs; only `calibration_server` checks it
again.

Two runs end in a violation, on purpose:

- `calibration_trial`. `calibration_stop` clears the trial deadline whatever the reason.
  After an operator timeout (350 ms without a drive line, which the server does not
  notice) the next drive lines move the robot with no deadline, against
  `tools/calibration/README.md:149-151`. The observer ends the trial as soon as the
  deadline is found over, and when a line is refused, since the server then gives the trial
  up: a deadline that was enforced, or taken away by a stop, counts for nothing. In the
  trace a drive line of the trial is granted, its lease runs out, the brake clears the
  deadline with the order, and after the time of the deadline a new drive line is applied.
  The operator timeout is the only way: with `BoundNow` of `CalibrationProtocol` changed to
  keep the deadline when `Expiry = "operator"`, TLC finds no violation.
- `calibration_server_bound`. A stop cancels the operator under the lock and is queued
  later. If someone arms and starts a trial in between, the queued stop reaches the board
  after `bound` and clears the deadline; the trial drives on, with drive lines and
  heartbeats as its only leases (`tools/calibration/README.md:149-150`). The stop itself
  is not lost: `StopIsLast` holds.

Seen while reading, and not worth a run of their own:

- `calibration_expire` returns at the first lease it finds over
  (`calibration_protocol.c:28-33`), so a `drive` line may be judged on a session whose
  heartbeat ended with the trial (`tools/calibration/README.md:146`). The look later in the
  same turn ends it before a setpoint leaves: `SetpointsAreLeased`.
- `clear` resets the terminal's fault without a reboot (`motor_terminal.c:85-92`; `README.md:381-382`).
- The server checks "wait for saving before changing parameters" under the lock
  (`server.py:655`) and queues the change without it (`:662`).
- A serial failure leaves a ready connection visible until its clean-up (`server.py:549`).
- The calibration image ignores the result of its startup configuration
  (`calibration_firmware.c:96`): if no wheel answers, `robot.h`'s limits stay, which are
  wider than those it reports. The protocol limits drive lines itself.
- An answer of the last boot passes for the present one if both probes carry the same
  microsecond (`time_sync.c:22`).
- An IMU that is lost after a good set-up is never set up again (`sensor_ready` is not
  cleared).
- `tools/calibration/README.md:144` gives trial presence 200 ms, the code (`server.py:42`)
  and line 262 one second. `README.md` says yaw feedback
  is disabled, `calibration.h` enables it.

## 4. Fairness

Safety runs assume none.

`ros_loop_live` assumes that the main loop takes its next part again and again (weak
fairness on each part; the loop never waits for a callback), that time passes, that
`ros_begin` succeeds if it may again and again, and that a frame repeated for ever to the
same motor is delivered in the end (strong fairness on delivery: without it a cut bus
refutes the property). It assumes nothing of commands, the host or resets other than that
the board is not reset for ever.

`publication` assumes weak fairness on each part of the loop and on time, and that a
sensor which stays on the bus is set up by one of the attempts repeated for ever (strong
fairness on `SetUp`). The host's part is a premise of the properties, not of the
specification: `PublicationResumes` holds of behaviours in which synchronisations go on
(`HostAnswers`). The wheels, the sensor, recalibrations and resets are as unfair as they
like, as far as the premises do not exclude it.

## 5. Proofs

All theorems are proved for every value of the constants that satisfies the named
assumptions of the modules (`GyroAssumption`, `WheelsAssumption`, `RosAssumption`,
`ProtocolAssumption`, `FirmwareAssumption`, `TimeSyncAssumption`, `TerminalAssumption`,
`OdometryAssumption`, `MetricsAssumption`, `LogAssumption`, `EstimatesAssumption`,
`PublicationAssumption`, `GlideAssumption`, `ServerAssumption`: limits are natural numbers, and the order among them the code's constants have). Two assumptions go beyond
constants of the code: `MAX_LOOP`, the longest turn of the loop, is any number, and
`PublicationAssumption` asks that a sample and one turn fit into the period of a message.
At 208 Hz and 50 Hz that is a turn of at most 15 ms. `Glide`'s whole numbers and the
geometry with one unit for speed and turn are the module's, not the proofs'.

- `Wheels_proofs`: each estimator operator keeps its record well-formed and leaves a
  calibrated bias alone (`ObserveKeepsCalibration`). Every function of `wheels.c` keeps
  `WheelsInv`, whichever loop calls it: the type invariant, a calibrated gyro while motion
  is enabled, `WheelsMoveTogether` and `StoppedMeansBraked`. `BiasStaysFrozen` follows for
  both images, step by step: a bias is replaced by a restart only, with motion off, although the
  calibration image judges the `calibrate` line, and brakes, a step before it restarts.
  The last section prepares `StallIsNoticed` for both. An idle drive takes its nominal period
  for the gap, so nothing in the control step itself speaks of the time since the last one.
  `FeedbackClock` does: in a motion every feedback is at least as old as the last control
  step, because no accepted command renews either. A function runs at one instant here;
  in the code a sample carries the time after its exchange, so the real bound on the gap is
  longer by the exchanges of one control step.
- `RosLoop_proofs`: `IInv` adds `MotionWithinTimeout`, `MotionIsGated`, the command clock
  (how `cmd_age`, `loop_age` and the place in the loop bound each other: the watchdog's
  look was less than a round ago) and that a booting board is stopped.
  `MotionWithinTimeout` is not inductive alone: it says nothing of an old command that
  the watchdog has not seen yet. From `IInv` follow the invariants, the action
  properties and the refinement `DriveIsDeadman`; `StallsNoticed` rests on `FeedbackAges`
  (`FeedbackClock` is an invariant) as well.
- `CalibrationFirmware_proofs`: `IInv` ties `pc` and the order under way to the session
  and to `motion_enabled`. Motion with all four leases is not inductive: `Expiry` stops at
  the first lease that is over, so a session can outlive its heartbeat for as long as
  something else is over too. `LeaseClock` therefore bounds each lease by its limit and the
  age of the turn, and says when a session may be older: stopped and without a
  trial, in the parts of the loop from `check` to `usb`, before the next line is judged. `FaultClock` says that a fault without a
  calibration since is latched, or the gyro not calibrated, or about to be restarted. Theorems: `MotionIsLeased`, `LeasesInTime`, `WheelsMoveTogether`, `StoppedMeansBraked`,
  `SetpointsAreLeased`, `BiasIsFrozen`, `StallIsNoticed` and the refinement of `Deadman`.
- `TimeSync_proofs`: `IInv` is `TypeOK`, `ProbesInOrder`, and what every request, answer in
  flight (`MessagesAreTrue`) and estimate (`SyncIsTrue`) proves about the host's real
  offset, if the host's clock was not set since; the arithmetic core is the lemma
  `MidpointEstimate`. The accuracy of stamps, the recovery from a clock step and the
  uniqueness of synchronisations follow.
- `MotorTerminal_proofs`: `IInv` adds to the checked invariants that the board boots in
  its static state (`BootIsIdle`), that a run not yet ended has a tick left since the last
  `update` (`RunClock`: the deadline alone is not inductive, time passes between two
  updates), and that a selected wheel excludes the body profile (`ShapeIsForAll`).
- `Measurement_proofs`, of the sums: `gyro_yaw.c`, `odometry.c` and
  `calibration_metrics.c` see a call once and keep sums and flags; `GyroYaw` and
  `Estimates` keep the calls, and say by folds over the log what must have been summed.
  The library's fold is a CHOOSE of a recursive function. That it exists, is unique and may
  take its elements in any order is shown by a least counterexample among the subsets of a
  finite set (`SubsetInduction`, `FoldExists`, `SumUnfolds`): first-order, without the
  induction theorems, which take an operator. `SpreadIsMoment` is the identity the
  estimator rests on: n times the sum of squares less the square of the sum is the sum of
  the squared differences over all pairs. On that stand two invariants, which are part of
  the modules. `GyroYawInv`: a window that can still be joined covers just the newest
  clean run of the log; the agreement at the moment of calibration is not inductive by
  itself, the window must agree while it grows. `EstimatesInv`: `MetricsRemember` and
  `PoseRemembers` say what the record keeps of the last call (whether it was valid, steady,
  how long the motion lasts), so that a call adds to the record what one call more adds to
  the fold (`IntervalsGrow`). The heading agrees with the sum of all turns up to whole
  turns, so the heading in the middle of an interval is the same table entry for both
  (`SameHeading`). Theorems, for logs of any length and any numbers: both estimator
  properties and all five of `Estimates`.
- `Measurement_proofs`, of the messages: lemmas that every operator of `odometry.c` keeps
  the pose well-formed (the heading in (-PI, PI] although an interval may turn by more than
  a turn), then `IInv` of `Publication`. That no sample goes out twice rests on `SampleFirst`: while the
  sample on record was sent, the countdown to the next message outlasts the countdown to
  the next sample by a whole turn. Theorems: `SamplesSentOnce`, `RateIsOfThisCalibration`.
- `CalibrationServer_proofs`: for any number of browsers, arms, trials, sequence steps and
  waiting calls. `StopIsLast` speaks of a stop the board has executed and is not
  inductive: `StopsPrecedeArm` follows the arm a stop was pressed under from the HTTP
  thread through the queue and the line on its way to the board (whoever presses stop
  disarms, so an arm in force is later than all of them), and `DriveIsLater` says the same
  of a drive line between its choice and its execution, where a stop may have been pressed
  since. `IntentIsOfThisArm` is why a drive line is of the arm in force when it is chosen.
  `CompleteIsOfOneSetting` needs `ParametersKnown` (what the thread last heard is what the
  board has, until the connection is torn down) and `ChangeIsNoticed` (a trial whose
  parameters are no longer the board's is looked at before anything but a heartbeat is
  sent). `ManualIsFresh` needs `ManualLease`, and `TrialComesFirst`, because a trial's
  longer lease is kept in the same variable.
- `Glide_proofs`: the acceleration a profile has and the one it wants are both within the
  limit, so what lies between them is; every step keeps that, for the state and for the
  copy (`IInv`), and with the number of steps done gives the distance from the state the
  call began with (`SInv`). Theorems: `NeverRefused`, `ShapingIsSmooth`, `NoWindup`, and
  that the correction is bounded.

Only model-checked: liveness under fairness (`StopGetsThrough`, `SensorComesOnline`,
`PublicationResumes`), which the prover does not reach. Every invariant and every action
property of the passing runs is a theorem. Proved, and not checked by a run any more, are
`RestIsKept` of the terminal (a mutant that breaks it breaks `RunsEnd`) and
`ResponseIsFirst` of the metrics (one field of the record).

## 6. Hazards no property covers

`PROJECT.json` lists every hazard with its line. Three are open:

- `motor_terminal.c:45`: the brake frames of a fault are sent once, since `update` returns
  while the fault is latched. That such a wheel stops is not a property of this code;
  `TurnsAsTold` exempts exactly the wheels whose last frame was lost.
- `wheels.c:194`: a wheel that is silent when the board boots, after a reset in mid-drive for
  instance, is skipped, and the ROS image neither probes it again nor sends it a brake. The
  drive stays off, since a command needs all wheels; that wheel keeps what it was told last.
- `tools/calibration/server.py:519`: the lock is free between `measure` and `bound`. A trial
  that replaces another there keeps its measurement mode. The mode is not in the model.

## 7. Not modelled

- Calibration server, the rest: browser sequence numbers, recipe limits, recording,
  review and storage of results, the statistics of `trials.py`. They read trials; they
  neither order motion nor hold a lease.
- Calibration metrics: peaks, tracking energy and the jerk. They are data of which no
  decision of the board depends.
- IMU: the magnetometer, health counters; the I2C drivers are a git submodule and absent.
- Wheel output scaling: of the wheel allocation in `glide.c` only whether it saturates is
  in `Glide`. That a profile settles at its request is not stated: whole numbers round
  where the code has floats. One long step may carry the unwinding integrator through
  zero, as the code allows; `NoWindup` says it never grows while constrained.
- Status LED, USB descriptors, IMU diagnostic image, motor terminal client and web page:
  I/O around the parts above. The LED's 32-bit frame timer is compared by difference.
- `lib/`: vendored zenoh-pico and Pico-ROS, by far most of the repository's C. The models
  see from it that messages are lost, repeated, delayed or delivered, as the firmware
  does. Archived code and container files are not built into an image.

## 8. Plan

Every component that moves or measures the robot is modelled, and every safety property
checked of it is proved. What would add most next:

1. `CalibrationServer`: the measurement mode (the open hazard), the results and their
   storage thread, sequence numbers of browsers.
2. The composition of `CalibrationServer` with `CalibrationFirmware` in place of
   `Executed`, on an instance small enough for TLC.
