------------------------ MODULE MotorTerminal_proofs ------------------------
(***************************************************************************)
(* The motor terminal's promises for any number of wheels, any durations   *)
(* and any loop that comes back to update within MAX_LOOP.                 *)
(*                                                                         *)
(* The invariant falls into three parts that disturb each other little:    *)
(* Types, Motors (what the motors do against what they were told) and      *)
(* Orders (what is asked of them).                                         *)
(***************************************************************************)
EXTENDS MotorTerminal, TLAPS

Types == TypeOK
Motors == TurnsAsTold
Orders == BootIsIdle /\ RunClock /\ ShapeIsForAll /\ RunsEnd /\ OnlySelectedTurn /\ UnpluggedIsAtRest

LEMMA Parts == IInv <=> Types /\ Motors /\ Orders
BY DEF IInv, Types, Motors, Orders

\* The ranges of the counters hold their reset values.
LEMMA Ranges ==
    /\ 0 \in 0 .. TICK_PERIOD /\ TICK_PERIOD \in 0 .. TICK_PERIOD
    /\ 0 \in 0 .. PROFILE_MAX_DT + 1 /\ 0 \in 0 .. MAX_LOOP
    /\ 0 \in Int /\ All \in Wheel \cup {All}
BY TerminalAssumption DEF All

LEMMA InitInv == Init => IInv
<1> SUFFICES ASSUME Init PROVE IInv
  OBVIOUS
<1>1. Types
  BY Ranges DEF Init, Idle, Types, TypeOK, Modes
<1>2. Motors
  BY DEF Init, Idle, Motors, TurnsAsTold
<1>3. Orders
  BY TerminalAssumption DEF Init, Idle, Orders, BootIsIdle, RunClock, ShapeIsForAll, RunsEnd,
       OnlySelectedTurn, UnpluggedIsAtRest, at_rest
<1>4. QED
  BY <1>1, <1>2, <1>3, Parts

-----------------------------------------------------------------------------
(* The two ways to stop. *)

\* A brake leaves no order, and none of the wheels that got it turns.
LEMMA BrakeFromStops ==
    ASSUME TypeOK, NEW m \in [Wheel -> {"brake", "still", "moving"}],
           NEW doubt \in SUBSET Wheel, NEW out \in Outcomes, BrakeFrom(m, doubt, out)
    PROVE  /\ motor' \in [Wheel -> {"brake", "still", "moving"}] /\ unsure' \subseteq Wheel
           /\ \A i \in online' \ unsure' : motor'[i] = "brake"
           /\ \A i \in Wheel : motor'[i] = "brake" \/ motor'[i] = m[i]
           /\ online' = online /\ target' = {} /\ commanded' = {} /\ accelerating' = FALSE
           /\ moving' = FALSE /\ run_in' = 0
BY DEF BrakeFrom, Braked, Doubt, TypeOK

LEMMA BrakeStops ==
    ASSUME TypeOK, Brake
    PROVE  /\ motor' \in [Wheel -> {"brake", "still", "moving"}] /\ unsure' \subseteq Wheel
           /\ \A i \in online' \ unsure' : motor'[i] = "brake"
           /\ \A i \in Wheel : motor'[i] = "brake" \/ motor'[i] = motor[i]
           /\ online' = online /\ target' = {} /\ commanded' = {} /\ accelerating' = FALSE
           /\ moving' = FALSE /\ run_in' = 0
BY BrakeFromStops DEF Brake, TypeOK

\* What a tick tells a motor: with every frame answered it does what is commanded, and a
\* frame that fails wakes no wheel that was to stay still.
LEMMA ToldType ==
    ASSUME TypeOK, NEW speeds, NEW sent \in Outcomes
    PROVE  /\ Told(speeds, sent).m \in [Wheel -> {"brake", "still", "moving"}]
           /\ Told(speeds, sent).doubt \in SUBSET Wheel
           /\ \A i \in Wheel : Told(speeds, sent).m[i] = "moving" => i \in speeds \/ motor[i] = "moving"
BY DEF Told, Silent, Doubt, Outcomes, Outcome, TypeOK

LEMMA ToldAll ==
    ASSUME TypeOK, NEW speeds, NEW sent, sent = [i \in Wheel |-> "answered"]
    PROVE  \A i \in online : Told(speeds, sent).m[i] = "moving" => i \in speeds
BY DEF Told, Silent, TypeOK

\* The speeds of a tick are those of wheels that were asked for or are being brought to
\* rest; a body profile gives them to the robot as a whole.
LEMMA Speeds ==
    ASSUME TypeOK, NEW speeds \in NewSpeeds
    PROVE  /\ speeds \subseteq Wheel
           /\ mode # "shape" => speeds \subseteq TargetNow \cup commanded
           /\ mode = "shape" /\ ~Unsettled => speeds = {}
BY DEF NewSpeeds, TargetNow, TypeOK, Modes

-----------------------------------------------------------------------------
(* Types *)

LEMMA TypeStep ==
    ASSUME TypeOK, BootIsIdle, [Next]_vars
    PROVE  TypeOK'
<1> USE Ranges
<1>1. CASE Boot
  <2>1. PICK found \in SUBSET Wheel :
         \E woken \in [found -> {"still", "moving"}], out \in Outcomes :
           /\ online' = found
           /\ motor' = [i \in Wheel |->
                  IF i \notin found THEN motor[i]
                  ELSE IF out[i] = "lost" THEN woken[i] ELSE "brake"]
           /\ unsure' = Doubt(unsure, found, out)
    BY <1>1 DEF Boot
  <2>2. motor' \in [Wheel -> {"brake", "still", "moving"}] /\ unsure' \subseteq Wheel
    BY <2>1 DEF Doubt, TypeOK
  <2>3. QED
    BY <1>1, <2>1, <2>2 DEF Boot, BootIsIdle, TypeOK, settings, timers
<1>2. ASSUME NEW mounted \in BOOLEAN, Usb(mounted) PROVE TypeOK'
  <2>1. CASE connected /\ ~mounted
    <3>1. Brake
      BY <1>2, <2>1 DEF Usb
    <3>2. QED
      BY <1>2, <3>1, BrakeStops DEF Usb, TypeOK, settings
  <2>2. CASE ~(connected /\ ~mounted)
    BY <1>2, <2>2 DEF Usb, TypeOK, settings, drive
  <2>3. QED
    BY <2>1, <2>2
<1>3. CASE StopCommand
  BY <1>3 DEF StopCommand, Typed, Ramp, TypeOK, settings
<1>4. CASE BrakeCommand
  BY <1>4, BrakeStops DEF BrakeCommand, Typed, TypeOK, settings
<1>5. CASE Clear
  BY <1>5, BrakeStops DEF Clear, Typed, TypeOK, settings
<1>6. ASSUME NEW m \in Modes, SetMode(m) PROVE TypeOK'
  BY <1>6 DEF SetMode, Typed, TypeOK, timers
<1>7. ASSUME NEW w, Select(w) PROVE TypeOK'
  BY <1>7 DEF Select, Typed, TypeOK, timers, drive, Modes
<1>8. ASSUME NEW left \in BOOLEAN, NEW right \in BOOLEAN, NEW duration \in DURATIONS,
             Run(left, right, duration)
      PROVE  TypeOK'
  <2>1. duration \in Int
    BY TerminalAssumption
  <2>2. target' \subseteq Wheel
    BY <1>8 DEF Run, Chosen, TypeOK
  <2>3. QED
    BY <1>8, <2>1, <2>2 DEF Run, Typed, TypeOK, settings
<1>9. CASE InputDone
  BY <1>9 DEF InputDone, TypeOK, drive, settings, timers
<1>10. CASE Update
  <2>1. CASE UpdateNothing
    BY <1>10, <2>1 DEF Update, UpdateNothing, TypeOK, drive, settings, timers
  <2>2. CASE UpdateEndsRun
    BY <1>10, <2>2 DEF Update, UpdateEndsRun, Ramp, TypeOK, settings
  <2>3. CASE ProfileFails
    BY <1>10, <2>3, BrakeStops DEF Update, ProfileFails, TickDue, TypeOK, settings
  <2>4. CASE SendSpeeds
    <3>1. PICK speeds \in NewSpeeds :
            /\ commanded' = speeds \cap online
            /\ motor' = Told(speeds, [i \in Wheel |-> "answered"]).m
            /\ unsure' = Told(speeds, [i \in Wheel |-> "answered"]).doubt
      BY <2>4 DEF SendSpeeds
    <3>2. motor' \in [Wheel -> {"brake", "still", "moving"}] /\ unsure' \subseteq Wheel
      BY <3>1, ToldType DEF Outcomes, Outcome
    <3>3. accelerating' \in BOOLEAN /\ target' \subseteq Wheel /\ moving' \in BOOLEAN /\ run_in' \in Int
      BY <2>4 DEF SendSpeeds, TargetNow, TypeOK
    <3>4. QED
      BY <1>10, <2>4, <3>1, <3>2, <3>3 DEF Update, SendSpeeds, TickDue, TypeOK, settings
  <2>5. CASE SendFails
    <3>1. PICK speeds \in NewSpeeds, sent \in Outcomes, out \in Outcomes :
            BrakeFrom(Told(speeds, sent).m, Told(speeds, sent).doubt, out)
      BY <2>5 DEF SendFails
    <3>2. /\ motor' \in [Wheel -> {"brake", "still", "moving"}] /\ unsure' \subseteq Wheel
          /\ online' = online /\ target' = {} /\ commanded' = {} /\ accelerating' = FALSE
          /\ moving' = FALSE /\ run_in' = 0
      BY <3>1, ToldType, BrakeFromStops
    <3>3. QED
      BY <1>10, <2>5, <3>2 DEF Update, SendFails, TickDue, TypeOK, settings
  <2>6. QED
    BY <1>10, <2>1, <2>2, <2>3, <2>4, <2>5 DEF Update
<1>11. CASE PowerCycle
  BY <1>11 DEF PowerCycle, TypeOK, Modes
<1>12. CASE Tick
  <2>1. loop_age' \in 0 .. MAX_LOOP
    BY <1>12, TerminalAssumption DEF Tick, TypeOK
  <2>2. tick_in' \in 0 .. TICK_PERIOD /\ tick_age' \in 0 .. PROFILE_MAX_DT + 1 /\ run_in' \in Int
    BY <1>12, TerminalAssumption DEF Tick, TypeOK
  <2>3. QED
    BY <1>12, <2>1, <2>2 DEF Tick, TypeOK, drive, settings
<1>13. CASE UNCHANGED vars
  BY <1>13 DEF TypeOK, vars, drive, settings, timers
<1>14. QED
  BY <1>1, <1>2, <1>3, <1>4, <1>5, <1>6, <1>7, <1>8, <1>9, <1>10, <1>11, <1>12, <1>13 DEF Next

-----------------------------------------------------------------------------
(* What the motors do *)

\* A wheel turns only as told: boot brakes or doubts each wheel it finds, every other step
\* leaves motor and order alone, stops both, or gives both the same speed.
LEMMA MotorsStep ==
    ASSUME IInv, [Next]_vars
    PROVE  TurnsAsTold'
<1> USE DEF IInv
<1>1. CASE Boot
  BY <1>1 DEF Boot, Doubt, TurnsAsTold
<1>2. CASE Brake
  BY <1>2, BrakeStops DEF TurnsAsTold
<1>3. CASE UNCHANGED <<motor, unsure, online, commanded>>
  BY <1>3 DEF TurnsAsTold
<1>4. CASE Update
  <2>1. CASE UpdateNothing \/ UpdateEndsRun
    BY <2>1, <1>3 DEF UpdateNothing, UpdateEndsRun, Ramp, drive
  <2>2. CASE ProfileFails
    BY <2>2, <1>2 DEF ProfileFails
  <2>3. CASE SendSpeeds
    <3>1. PICK speeds \in NewSpeeds :
            /\ commanded' = speeds \cap online
            /\ motor' = Told(speeds, [i \in Wheel |-> "answered"]).m
      BY <2>3 DEF SendSpeeds
    <3>2. \A i \in online : motor'[i] = "moving" => i \in speeds
      BY <3>1, ToldAll
    <3>3. QED
      BY <2>3, <3>1, <3>2 DEF SendSpeeds, TurnsAsTold
  <2>4. CASE SendFails
    <3>1. PICK speeds \in NewSpeeds, sent \in Outcomes, out \in Outcomes :
            BrakeFrom(Told(speeds, sent).m, Told(speeds, sent).doubt, out)
      BY <2>4 DEF SendFails
    <3>2. \A i \in online' \ unsure' : motor'[i] = "brake"
      BY <3>1, ToldType, BrakeFromStops
    <3>3. QED
      BY <3>2 DEF TurnsAsTold
  <2>5. QED
    BY <1>4, <2>1, <2>2, <2>3, <2>4 DEF Update
<1>5. ASSUME NEW mounted \in BOOLEAN, Usb(mounted) PROVE TurnsAsTold'
  BY <1>5, <1>2, <1>3 DEF Usb, drive
<1>6. CASE StopCommand
  BY <1>6, <1>3 DEF StopCommand, Ramp
<1>7. CASE BrakeCommand \/ Clear
  BY <1>7, <1>2 DEF BrakeCommand, Clear
<1>8. ASSUME NEW m \in Modes, SetMode(m) PROVE TurnsAsTold'
  BY <1>8, <1>3 DEF SetMode
<1>9. ASSUME NEW w, Select(w) PROVE TurnsAsTold'
  BY <1>9, <1>3 DEF Select, drive
<1>10. ASSUME NEW left, NEW right, NEW duration, Run(left, right, duration) PROVE TurnsAsTold'
  BY <1>10, <1>3 DEF Run
<1>11. CASE InputDone \/ Tick \/ UNCHANGED vars
  BY <1>11, <1>3 DEF InputDone, Tick, vars, drive
<1>12. CASE PowerCycle
  BY <1>12 DEF PowerCycle, TurnsAsTold
<1>13. QED
  BY <1>1, <1>4, <1>5, <1>6, <1>7, <1>8, <1>9, <1>10, <1>11, <1>12 DEF Next

-----------------------------------------------------------------------------
(* What is asked of them *)

\* Everything Orders speaks of, when nothing is asked of any wheel.
LEMMA Quiet ==
    ASSUME IInv, pc' # "boot", target' = {}, commanded' = {}, accelerating' = FALSE, moving' = FALSE,
           UNCHANGED settings
    PROVE  Orders'
BY DEF IInv, Orders, BootIsIdle, RunClock, ShapeIsForAll, RunsEnd, OnlySelectedTurn,
       UnpluggedIsAtRest, at_rest, settings

\* A run that is over leaves its target behind; what is still commanded ramps down.
LEMMA Ramping ==
    ASSUME IInv, pc' # "boot", target' = {}, moving' = FALSE,
           UNCHANGED <<online, commanded, accelerating, settings, connected>>
    PROVE  Orders'
BY DEF IInv, Orders, BootIsIdle, RunClock, ShapeIsForAll, RunsEnd, OnlySelectedTurn,
       UnpluggedIsAtRest, at_rest, settings

LEMMA CommandOrders ==
    ASSUME IInv, Typed,
           \/ StopCommand \/ BrakeCommand \/ Clear
           \/ \E m \in Modes : SetMode(m)
           \/ \E w \in All .. WHEEL_COUNT : Select(w)
           \/ \E left, right \in BOOLEAN, duration \in DURATIONS : Run(left, right, duration)
    PROVE  Orders'
<1>0. pc' # "boot" /\ UNCHANGED <<connected, loop_age>> /\ connected /\ pc = "input"
  BY DEF Typed
<1>1. CASE StopCommand
  BY <1>0, <1>1, Ramping DEF StopCommand, Ramp, settings
<1>2. CASE BrakeCommand \/ Clear
  <2>1. Brake /\ UNCHANGED settings
    BY <1>2 DEF BrakeCommand, Clear
  <2>2. QED
    BY <1>0, <2>1, BrakeStops, Quiet DEF IInv
<1>3. ASSUME NEW m \in Modes, SetMode(m) PROVE Orders'
  BY <1>0, <1>3 DEF SetMode, IInv, Orders, BootIsIdle, RunClock, ShapeIsForAll, RunsEnd,
       OnlySelectedTurn, UnpluggedIsAtRest, at_rest, timers
<1>4. ASSUME NEW w, Select(w) PROVE Orders'
  BY <1>0, <1>4 DEF Select, IInv, Orders, BootIsIdle, RunClock, ShapeIsForAll, RunsEnd,
       OnlySelectedTurn, UnpluggedIsAtRest, at_rest, timers, drive
<1>5. ASSUME NEW left, NEW right, NEW duration \in DURATIONS, Run(left, right, duration)
      PROVE  Orders'
  <2>1. duration \in Nat /\ duration >= 1 /\ loop_age \in Nat /\ MAX_LOOP >= 1 /\ MAX_LOOP \in Nat
    BY TerminalAssumption DEF IInv, TypeOK
  <2>2. RunClock' /\ (moving' => run_in' > -MAX_LOOP)
    BY <1>0, <1>5, <2>1 DEF Run, RunClock
  <2>3. RunsEnd' /\ UnpluggedIsAtRest' /\ BootIsIdle'
    BY <1>0, <1>5, <2>2 DEF Run, RunsEnd, UnpluggedIsAtRest, BootIsIdle
  <2>4. ShapeIsForAll' /\ OnlySelectedTurn'
    BY <1>5 DEF Run, Chosen, IInv, TypeOK, ShapeIsForAll, OnlySelectedTurn, settings, at_rest
  <2>5. QED
    BY <2>2, <2>3, <2>4 DEF Orders
<1>6. QED
  BY <1>1, <1>2, <1>3, <1>4, <1>5

LEMMA UpdateOrders ==
    ASSUME IInv, Update
    PROVE  Orders'
<1>0. pc' = "usb" /\ loop_age' = 0 /\ UNCHANGED <<settings, connected>>
  BY DEF Update
<1>1. CASE UpdateNothing
  <2>1. moving => run_in > 0 /\ run_in \in Int
    BY <1>1 DEF UpdateNothing, UpdateRuns, RunOver, IInv, RunClock, TypeOK
  <2>2. RunClock' /\ RunsEnd'
    BY <1>0, <1>1, <2>1, TerminalAssumption
       DEF UpdateNothing, drive, timers, IInv, RunClock, RunsEnd
  <2>3. BootIsIdle' /\ ShapeIsForAll' /\ OnlySelectedTurn' /\ UnpluggedIsAtRest'
    BY <1>0, <1>1 DEF UpdateNothing, IInv, BootIsIdle, ShapeIsForAll, OnlySelectedTurn,
                      UnpluggedIsAtRest, at_rest, drive, settings
  <2>4. QED
    BY <2>2, <2>3 DEF Orders
<1>2. CASE UpdateEndsRun
  BY <1>0, <1>2, Ramping DEF UpdateEndsRun, Ramp
<1>3. CASE ProfileFails
  <2>1. Brake
    BY <1>3 DEF ProfileFails
  <2>2. QED
    BY <1>0, <2>1, BrakeStops, Quiet DEF IInv
<1>4. CASE SendSpeeds
  <2>1. PICK speeds \in NewSpeeds : commanded' = speeds \cap online
    BY <1>4 DEF SendSpeeds
  <2>2. /\ target' = TargetNow /\ moving' = (moving /\ ~RunOver)
        /\ run_in' = (IF RunOver THEN 0 ELSE run_in)
        /\ accelerating' \in (IF mode = "shape" /\ Unsettled THEN BOOLEAN ELSE {accelerating})
        /\ UNCHANGED <<online, faulted>> /\ connected /\ ~faulted
    BY <1>4 DEF SendSpeeds, TickDue, UpdateRuns
  <2>3. moving' => run_in' + loop_age' >= 1 /\ run_in' > -MAX_LOOP
    <3>1. moving' => run_in' = run_in /\ ~(run_in <= 0) /\ run_in \in Int
      BY <2>2 DEF RunOver, IInv, TypeOK
    <3>2. MAX_LOOP \in Nat
      BY TerminalAssumption
    <3>3. QED
      BY <1>0, <3>1, <3>2
  <2>4. RunClock' /\ RunsEnd' /\ UnpluggedIsAtRest'
    <3>1. connected' /\ ~faulted' /\ (target' # {} => moving')
      BY <1>0, <2>2 DEF IInv, RunsEnd, TargetNow
    <3>2. QED
      BY <2>3, <3>1 DEF RunClock, RunsEnd, UnpluggedIsAtRest
  <2>5. BootIsIdle' /\ ShapeIsForAll'
    BY <1>0 DEF IInv, BootIsIdle, ShapeIsForAll, settings
  <2>6. selected' # All => target' \cup commanded' \subseteq {selected'}
    <3> SUFFICES ASSUME selected' # All PROVE target' \cup commanded' \subseteq {selected'}
      OBVIOUS
    <3>1. mode # "shape" /\ selected' = selected /\ selected # All
      BY <1>0 DEF IInv, ShapeIsForAll, settings
    <3>2. TargetNow \subseteq {selected} /\ commanded \subseteq {selected}
      BY <3>1 DEF IInv, OnlySelectedTurn, TargetNow
    <3>3. speeds \subseteq TargetNow \cup commanded
      BY <3>1, Speeds DEF IInv
    <3>4. QED
      BY <2>1, <2>2, <3>1, <3>2, <3>3
  <2>7. mode' = "shape" /\ ~at_rest' => online' = Wheel
    <3> SUFFICES ASSUME mode' = "shape", ~at_rest' PROVE online' = Wheel
      OBVIOUS
    <3>1. mode = "shape" /\ online' = online
      BY <1>0, <2>2 DEF settings
    <3>2. CASE at_rest
      <4>1. TargetNow = {} /\ ~Unsettled
        BY <3>2 DEF at_rest, IInv, RunsEnd, TargetNow, Unsettled
      <4>2. speeds = {} /\ commanded' = {} /\ accelerating' = accelerating
        BY <2>1, <2>2, <3>1, <4>1, Speeds DEF IInv
      <4>3. QED
        BY <2>2, <3>2, <4>2 DEF at_rest
    <3>3. QED
      BY <3>1, <3>2 DEF IInv, OnlySelectedTurn
  <2>8. QED
    BY <2>4, <2>5, <2>6, <2>7 DEF Orders, OnlySelectedTurn
<1>5. CASE SendFails
  <2>1. PICK speeds \in NewSpeeds, sent \in Outcomes, out \in Outcomes :
          BrakeFrom(Told(speeds, sent).m, Told(speeds, sent).doubt, out)
    BY <1>5 DEF SendFails
  <2>2. target' = {} /\ commanded' = {} /\ accelerating' = FALSE /\ moving' = FALSE
    BY <2>1 DEF BrakeFrom
  <2>3. QED
    BY <1>0, <2>2, Quiet
<1>6. QED
  BY <1>1, <1>2, <1>3, <1>4, <1>5 DEF Update

LEMMA OrdersStep ==
    ASSUME IInv, [Next]_vars
    PROVE  Orders'
<1> USE DEF Orders
<1>1. CASE Boot
  BY <1>1 DEF Boot, IInv, BootIsIdle, RunClock, ShapeIsForAll, RunsEnd, OnlySelectedTurn,
              UnpluggedIsAtRest, at_rest, settings, timers
<1>2. ASSUME NEW mounted \in BOOLEAN, Usb(mounted) PROVE Orders'
  <2>1. CASE connected /\ ~mounted
    <3>1. Brake /\ UNCHANGED settings /\ pc' # "boot"
      BY <1>2, <2>1 DEF Usb
    <3>2. QED
      BY <3>1, BrakeStops, Quiet DEF IInv
  <2>2. CASE ~(connected /\ ~mounted)
    BY <1>2, <2>2 DEF Usb, IInv, BootIsIdle, RunClock, ShapeIsForAll, RunsEnd, OnlySelectedTurn,
                      UnpluggedIsAtRest, at_rest, drive, settings
  <2>3. QED
    BY <2>1, <2>2
<1>3. CASE \/ StopCommand \/ BrakeCommand \/ Clear
           \/ \E m \in Modes : SetMode(m)
           \/ \E w \in All .. WHEEL_COUNT : Select(w)
           \/ \E left, right \in BOOLEAN, duration \in DURATIONS : Run(left, right, duration)
  <2>1. Typed
    BY <1>3 DEF StopCommand, BrakeCommand, Clear, SetMode, Select, Run
  <2>2. QED
    BY <1>3, <2>1, CommandOrders
<1>4. CASE InputDone
  BY <1>4 DEF InputDone, IInv, BootIsIdle, RunClock, ShapeIsForAll, RunsEnd, OnlySelectedTurn,
              UnpluggedIsAtRest, at_rest, drive, settings, timers
<1>5. CASE Update
  BY <1>5, UpdateOrders
<1>6. CASE PowerCycle
  BY <1>6 DEF PowerCycle, BootIsIdle, RunClock, ShapeIsForAll, RunsEnd, OnlySelectedTurn,
              UnpluggedIsAtRest, at_rest
<1>7. CASE Tick
  <2>1. moving => /\ loop_age' = loop_age + 1 /\ loop_age < MAX_LOOP /\ run_in' = run_in - 1
    BY <1>7 DEF Tick, IInv, BootIsIdle
  <2>2. run_in \in Int /\ loop_age \in Nat /\ MAX_LOOP \in Nat
    BY TerminalAssumption DEF IInv, TypeOK
  <2>3. moving => run_in' + loop_age' >= 1 /\ run_in' > -MAX_LOOP
    BY <2>1, <2>2 DEF IInv, RunClock
  <2>4. RunClock' /\ RunsEnd'
    BY <1>7, <2>3 DEF Tick, IInv, RunClock, RunsEnd, drive
  <2>5. BootIsIdle' /\ ShapeIsForAll' /\ OnlySelectedTurn' /\ UnpluggedIsAtRest'
    BY <1>7 DEF Tick, IInv, BootIsIdle, ShapeIsForAll, OnlySelectedTurn, UnpluggedIsAtRest,
                at_rest, drive, settings
  <2>6. QED
    BY <2>4, <2>5
<1>8. CASE UNCHANGED vars
  BY <1>8 DEF vars, IInv, BootIsIdle, RunClock, ShapeIsForAll, RunsEnd, OnlySelectedTurn,
              UnpluggedIsAtRest, at_rest, drive, settings, timers
<1>9. QED
  BY <1>1, <1>2, <1>3, <1>4, <1>5, <1>6, <1>7, <1>8 DEF Next

-----------------------------------------------------------------------------
(* The theorems *)

\* The invariant of motor_terminal.c: what is asked of the wheels, and what they do.
THEOREM Invariance == Spec => []IInv
<1>1. IInv /\ [Next]_vars => IInv'
  <2> SUFFICES ASSUME IInv, [Next]_vars PROVE IInv'
    OBVIOUS
  <2>1. TypeOK'
    BY TypeStep DEF IInv
  <2>2. QED
    BY <2>1, MotorsStep, OrdersStep DEF Orders, IInv
<1>2. QED
  BY InitInv, <1>1, PTL DEF Spec

\* Every run ends by its deadline or at the next call of update, and leaves no target
\* behind, whatever was typed in it.
THEOREM RunsEndAlways == Spec => []RunsEnd
<1>1. IInv => RunsEnd
  BY DEF IInv
<1>2. QED
  BY <1>1, Invariance, PTL

\* A wheel turns only if it is commanded to or its last frame was lost, however many of
\* the others fail in the middle of a tick.
THEOREM TurnsAsToldAlways == Spec => []TurnsAsTold
<1>1. IInv => TurnsAsTold
  BY DEF IInv
<1>2. QED
  BY <1>1, Invariance, PTL

\* No speed is left to a wheel outside the selection, and no body profile drives a robot
\* with wheels missing.
THEOREM OnlySelectedTurnAlways == Spec => []OnlySelectedTurn
<1>1. IInv => OnlySelectedTurn
  BY DEF IInv
<1>2. QED
  BY <1>1, Invariance, PTL

\* Nothing is asked of any wheel while the cable is out.
THEOREM UnpluggedAlwaysAtRest == Spec => []UnpluggedIsAtRest
<1>1. IInv => UnpluggedIsAtRest
  BY DEF IInv
<1>2. QED
  BY <1>1, Invariance, PTL

\* While a fault is latched a wheel that has its brake keeps it: the terminal sends
\* nothing but brakes until `clear`.
THEOREM FaultAlwaysKeepsBrake == Spec => FaultKeepsBrake
<1> DEFINE Kept == \A i \in Wheel : motor[i] = "brake" => motor'[i] = "brake"
<1>1. IInv /\ [Next]_vars => [faulted /\ faulted' => Kept]_vars
  <2> SUFFICES ASSUME IInv, Next, faulted PROVE Kept
    OBVIOUS
  <2>1. CASE Brake
    BY <2>1, BrakeStops DEF IInv
  <2>2. CASE UNCHANGED motor
    BY <2>2
  <2>3. pc # "boot"
    BY DEF IInv, BootIsIdle
  <2>4. CASE Update
    BY <2>2, <2>4 DEF Update, UpdateNothing, UpdateEndsRun, ProfileFails, SendSpeeds, SendFails,
                      TickDue, UpdateRuns, drive
  <2>5. ASSUME NEW mounted \in BOOLEAN, Usb(mounted) PROVE Kept
    BY <2>1, <2>2, <2>5 DEF Usb, drive
  <2>6. CASE BrakeCommand \/ Clear
    BY <2>1, <2>6 DEF BrakeCommand, Clear
  <2>7. CASE \/ StopCommand
             \/ \E m \in Modes : SetMode(m)
             \/ \E w \in All .. WHEEL_COUNT : Select(w)
             \/ InputDone \/ PowerCycle \/ Tick
    BY <2>2, <2>7 DEF StopCommand, Ramp, SetMode, Select, InputDone, PowerCycle, Tick, drive
  <2>8. CASE \E left, right \in BOOLEAN, duration \in DURATIONS : Run(left, right, duration)
    BY <2>8 DEF Run
  <2>9. QED
    BY <2>3, <2>4, <2>5, <2>6, <2>7, <2>8 DEF Next, Boot
<1>2. QED
  BY <1>1, Invariance, PTL DEF Spec, FaultKeepsBrake

\* At rest no step but boot starts a wheel: a tick then has no speed to tell.
THEOREM RestIsAlwaysKept == Spec => RestIsKept
<1> DEFINE Still == \A i \in Wheel : motor'[i] = "moving" => motor[i] = "moving"
<1>1. IInv /\ [Next]_vars => [at_rest /\ pc # "boot" => Still]_vars
  <2> SUFFICES ASSUME IInv, Next, at_rest, pc # "boot" PROVE Still
    OBVIOUS
  <2>1. CASE Brake
    BY <2>1, BrakeStops DEF IInv
  <2>2. CASE UNCHANGED motor
    BY <2>2
  <2>3. ASSUME NEW speeds \in NewSpeeds PROVE speeds = {}
    <3>1. TargetNow = {} /\ ~Unsettled /\ commanded = {}
      BY DEF at_rest, IInv, RunsEnd, TargetNow, Unsettled
    <3>2. QED
      BY <3>1, Speeds DEF IInv
  <2>4. CASE SendSpeeds
    <3>1. PICK speeds \in NewSpeeds : motor' = Told(speeds, [i \in Wheel |-> "answered"]).m
      BY <2>4 DEF SendSpeeds
    <3>2. QED
      BY <3>1, <2>3, ToldType DEF IInv, Outcomes, Outcome
  <2>5. CASE SendFails
    <3>1. PICK speeds \in NewSpeeds, sent \in Outcomes, out \in Outcomes :
            BrakeFrom(Told(speeds, sent).m, Told(speeds, sent).doubt, out)
      BY <2>5 DEF SendFails
    <3>2. \A i \in Wheel : motor'[i] = "brake" \/ motor'[i] = Told(speeds, sent).m[i]
      BY <3>1, ToldType, BrakeFromStops DEF IInv
    <3>3. \A i \in Wheel : Told(speeds, sent).m[i] = "moving" => i \in speeds \/ motor[i] = "moving"
      BY ToldType DEF IInv
    <3>4. QED
      BY <2>3, <3>2, <3>3
  <2>6. CASE UpdateNothing \/ UpdateEndsRun \/ ProfileFails
    BY <2>1, <2>2, <2>6 DEF UpdateNothing, UpdateEndsRun, Ramp, ProfileFails, drive
  <2>7. ASSUME NEW mounted \in BOOLEAN, Usb(mounted) PROVE Still
    BY <2>1, <2>2, <2>7 DEF Usb, drive
  <2>8. CASE BrakeCommand \/ Clear
    BY <2>1, <2>8 DEF BrakeCommand, Clear
  <2>9. CASE \/ StopCommand
             \/ \E m \in Modes : SetMode(m)
             \/ \E w \in All .. WHEEL_COUNT : Select(w)
             \/ \E left, right \in BOOLEAN, duration \in DURATIONS : Run(left, right, duration)
             \/ InputDone \/ PowerCycle \/ Tick
    BY <2>2, <2>9 DEF StopCommand, Ramp, SetMode, Select, Run, InputDone, PowerCycle, Tick, drive
  <2>10. QED
    BY <2>4, <2>5, <2>6, <2>7, <2>8, <2>9 DEF Next, Boot, Update
<1>2. QED
  BY <1>1, Invariance, PTL DEF Spec, RestIsKept
=============================================================================
