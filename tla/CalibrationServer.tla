-------------------------- MODULE CalibrationServer --------------------------
(***************************************************************************)
(* tools/calibration/server.py: one thread that owns the serial line, HTTP *)
(* threads that serve browsers, a queue from them to it, and one lock.     *)
(*                                                                         *)
(* Each action is one stretch between two places where another thread can  *)
(* come in: the lock, the queue, the write and the read of an exchange.    *)
(* The board is what the replies tell of it.                               *)
(***************************************************************************)
EXTENDS Integers, FiniteSets, TLC

CONSTANTS
    Client,           \* browsers
    PARAMETERS,       \* configurations of the board
    SUBTESTS,         \* recipes of a step
    QUEUE,            \* maxsize of the queue
    MANUAL_LEASE,     \* 200 ms after a drive message
    PRESENCE_LEASE,   \* TRIAL_PRESENCE_TIMEOUT_S
    TRIAL,            \* how long a recipe drives, and how long it may then take to settle
    BOARD_STOPS,      \* may the board stop the drive by itself?
    MAX_ARMS, MAX_TRIALS, MAX_CALLS    \* bounds of the checked instance

ASSUME ServerAssumption ==
    /\ MANUAL_LEASE \in Nat \ {0} /\ PRESENCE_LEASE \in Nat /\ MANUAL_LEASE <= PRESENCE_LEASE
    /\ TRIAL \in Nat /\ SUBTESTS \in Nat \ {0} /\ QUEUE \in Nat \ {0}
    /\ BOARD_STOPS \in BOOLEAN
    /\ MAX_ARMS \in Nat /\ MAX_TRIALS \in Nat /\ MAX_CALLS \in Nat
    /\ "none" \notin PARAMETERS /\ "none" \notin Client

Symmetry == Permutations(Client) \cup Permutations(PARAMETERS)

VARIABLES
    ready, operator_client, armed,
    intent,            \* what is driven, and of it, observed: under which arm, how long ago
    lease,             \* intent_until - now
    release_pending, force_stop,
    trial, sequence,
    latest,            \* the last status of the board
    saving,            \* the parameters being written to the header, or "none"
    pc, control, line, trial_id,     \* of the serial thread
    calls,             \* HTTP threads between their lock and the queue
    requests,          \* the queue
    board,
    arms, trials,      \* observers: how often controls were armed, trials started
    stopped_at,        \* observer: arms when the last executed stop was pressed
    mixed              \* observer: a trial was recorded as complete whose parameters changed

operator == <<operator_client, armed, intent, lease, release_pending, force_stop>>
trialVars == <<trial, sequence, trials, mixed>>
serial == <<pc, control, line, trial_id>>
http == <<calls, requests, saving>>
boardVars == <<board, stopped_at>>
vars == <<ready, operator, trialVars, latest, serial, http, boardVars, arms>>

NoIntent == [by |-> "none", arm |-> 0, age |-> 0]
NoTrial == [id |-> 0, phase |-> "none", parameters |-> "none", left |-> 0, mixed |-> FALSE]
NoSequence == [index |-> 0, parameters |-> "none"]
NoRequest == [kind |-> "none", parameters |-> "none", at |-> 0]

\* A line, what of the thread waits for its reply, and what it carries.
Line(kind, task) == [kind |-> kind, task |-> task, order |-> NoIntent, ask |-> NoRequest]
Stop(task) == Line("stop", task)
NoLine == Line("none", "none")

Intents == [by : {"manual", "trial"}, arm : 1 .. MAX_ARMS, age : 0 .. MANUAL_LEASE] \cup {NoIntent}
Requests == [kind : {"stop", "calibrate"}, parameters : {"none"}, at : 0 .. MAX_ARMS]
              \cup [kind : {"config"}, parameters : PARAMETERS, at : {0}]
Lines == [kind : {"heartbeat", "drive", "release", "measure", "bound", "stop", "calibrate", "config"},
          task : {"heartbeat", "control", "cleanup", "measure", "bound", "request"},
          order : Intents, ask : Requests \cup {NoRequest}] \cup {NoLine}

Trials == [id : 1 .. MAX_TRIALS, phase : {"preparing", "drive", "settling"},
           parameters : PARAMETERS, left : 0 .. TRIAL, mixed : BOOLEAN] \cup {NoTrial}
Sequences == [index : 1 .. SUBTESTS, parameters : PARAMETERS] \cup {NoSequence}
Statuses == [rest : BOOLEAN, good : BOOLEAN, parameters : PARAMETERS]
Boards == [state : {"rest", "braking", "driving", "releasing"}, good : BOOLEAN,
           deadline : BOOLEAN, parameters : PARAMETERS, order : Intents]

OperatorType ==
    /\ operator_client \in Client \cup {"none"} /\ armed \in BOOLEAN
    /\ intent \in Intents /\ lease \in 0 .. PRESENCE_LEASE
    /\ release_pending \in BOOLEAN /\ force_stop \in BOOLEAN
    /\ arms \in 0 .. MAX_ARMS

TrialType ==
    /\ trial \in Trials /\ sequence \in Sequences
    /\ trials \in 0 .. MAX_TRIALS /\ mixed \in BOOLEAN

SerialType ==
    /\ pc \in {"loop", "tick", "decide", "sent", "rejected", "bind", "begin", "queue", "finally", "closed"}
    /\ control \in {"none", "stop", "release", "prepare_trial"}
    /\ line \in Lines /\ trial_id \in 0 .. MAX_TRIALS

HttpType ==
    /\ ready \in BOOLEAN /\ saving \in PARAMETERS \cup {"none"}
    /\ calls \subseteq Requests /\ requests \subseteq Requests /\ Cardinality(requests) <= QUEUE

BoardType == board \in Boards /\ latest \in Statuses /\ stopped_at \in 0 .. MAX_ARMS

TypeOK == OperatorType /\ TrialType /\ SerialType /\ HttpType /\ BoardType

\* What a status tells of the board: at rest with the motors off, ready and no fault.
StatusOf(b) == [rest |-> b.state = "rest", good |-> b.good, parameters |-> b.parameters]

\* After the handshake.
Init ==
    /\ ready = TRUE /\ operator_client = "none" /\ armed = FALSE /\ intent = NoIntent
    /\ lease = 0 /\ release_pending = FALSE /\ force_stop = FALSE
    /\ trial = NoTrial /\ sequence = NoSequence
    /\ board \in [state : {"rest", "braking"}, good : BOOLEAN, deadline : {FALSE},
                  parameters : PARAMETERS, order : {NoIntent}]
    /\ latest = StatusOf(board)
    /\ saving = "none" /\ calls = {} /\ requests = {}
    /\ pc = "loop" /\ control = "none" /\ line = NoLine /\ trial_id = 0
    /\ arms = 0 /\ trials = 0 /\ stopped_at = 0 /\ mixed = FALSE

-----------------------------------------------------------------------------
(* Trials and their end. *)

\* _end_sequence_locked
EndSequence == sequence' = NoSequence

\* Mutant: a sequence goes on after its last trial.
FinishTrial_OffByOne(complete) ==
    /\ trial' = NoTrial
    /\ mixed' = (mixed \/ (complete /\ trial.mixed))
    /\ IF complete /\ sequence # NoSequence /\ sequence.index <= SUBTESTS
       THEN sequence' = [sequence EXCEPT !.index = @ + 1]
       ELSE EndSequence
    /\ UNCHANGED trials

\* _finish_trial_locked; the callers see to `armed` and `intent`.
FinishTrial(complete) ==
    /\ trial' = NoTrial
    /\ mixed' = (mixed \/ (complete /\ trial.mixed))
    /\ IF complete /\ sequence # NoSequence /\ sequence.index < SUBTESTS
       THEN sequence' = [sequence EXCEPT !.index = @ + 1]
       ELSE EndSequence
    /\ UNCHANGED trials

\* _start_trial_locked
StartTrial ==
    /\ trials < MAX_TRIALS
    /\ trials' = trials + 1
    /\ trial' = [id |-> trials + 1, phase |-> "preparing", parameters |-> latest.parameters, left |-> 0,
                 mixed |-> FALSE]
    /\ lease' = PRESENCE_LEASE

\* _validate_trial_locked, of which the recipe and its limits are left out
Validated == armed /\ trial = NoTrial /\ latest.rest

\* Mutant: a stop disarms, but leaves the intent to whoever arms next.
CancelOperator_KeepsIntent ==
    /\ trial' = NoTrial /\ EndSequence
    /\ armed' = FALSE /\ release_pending' = FALSE
    /\ UNCHANGED <<operator_client, intent, lease, force_stop, trials, mixed>>

\* cancel_operator
CancelOperator ==
    /\ trial' = NoTrial /\ EndSequence
    /\ armed' = FALSE /\ intent' = NoIntent /\ release_pending' = FALSE
    /\ UNCHANGED <<operator_client, lease, force_stop, trials, mixed>>

-----------------------------------------------------------------------------
(* HTTP threads: operator() holds the lock from its first check to its end. *)

LockFree == pc # "decide"
Fresh == latest.good
Idle == trial = NoTrial /\ sequence = NoSequence

\* The controls are its own, or nobody's and it arms them.
Owns(c) == LockFree /\ ready /\ saving = "none" /\ operator_client = c

NoHttp == UNCHANGED <<ready, latest, serial, http, boardVars>>

Arm(c) ==
    /\ LockFree /\ ready /\ saving = "none"
    /\ operator_client = c \/ ~armed
    /\ operator_client' = c
    \* Refused, it still takes the controls over.
    /\ \/ Fresh /\ Idle /\ latest.rest /\ arms < MAX_ARMS
          /\ armed' = TRUE
          /\ arms' = IF armed THEN arms ELSE arms + 1
       \/ (Idle \/ ~Fresh) /\ UNCHANGED <<armed, arms>>
    /\ UNCHANGED <<intent, lease, release_pending, force_stop, trialVars>> /\ NoHttp

Drive(c) ==
    /\ Owns(c) /\ Fresh /\ Idle
    /\ armed
    /\ intent' = [by |-> "manual", arm |-> arms, age |-> 0]
    /\ lease' = MANUAL_LEASE
    /\ release_pending' = FALSE
    /\ UNCHANGED <<operator_client, armed, force_stop, trialVars, arms>> /\ NoHttp

Release(c) ==
    /\ Owns(c) /\ Idle
    /\ intent' = NoIntent
    /\ release_pending' = TRUE
    /\ UNCHANGED <<operator_client, armed, lease, force_stop, trialVars, arms>> /\ NoHttp

\* Arm, drive or release in the middle of a trial or a sequence.
TakeOver(c) ==
    /\ LockFree /\ ready /\ saving = "none"
    /\ operator_client = c \/ (~armed /\ Fresh)
    /\ ~Idle
    /\ operator_client' = c
    /\ FinishTrial(FALSE)
    /\ intent' = NoIntent /\ armed' = FALSE /\ release_pending' = FALSE
    /\ force_stop' = TRUE
    /\ UNCHANGED <<lease, arms>> /\ NoHttp

\* `trial`, and `sequence`, which starts the first trial of a step.
BeginTrial(c, whole) ==
    /\ Owns(c) /\ Fresh /\ Idle
    /\ Validated
    /\ StartTrial
    /\ sequence' = IF whole THEN [index |-> 1, parameters |-> latest.parameters] ELSE NoSequence
    /\ UNCHANGED <<operator_client, armed, intent, release_pending, force_stop, mixed, arms>> /\ NoHttp

\* Mutant: presence is taken whether or not a trial is on.
Presence_Always(c) ==
    /\ Owns(c) /\ Fresh
    /\ armed
    /\ lease' = PRESENCE_LEASE
    /\ UNCHANGED <<operator_client, armed, intent, release_pending, force_stop, trialVars, arms>>
    /\ NoHttp

Presence(c) ==
    /\ Owns(c) /\ Fresh
    /\ armed /\ ~Idle
    /\ lease' = PRESENCE_LEASE
    /\ UNCHANGED <<operator_client, armed, intent, release_pending, force_stop, trialVars, arms>>
    /\ NoHttp

NoOperator == UNCHANGED <<ready, operator, trialVars, latest, serial, boardVars, arms>>

\* A call that needs the serial thread leaves the lock before it comes to the queue.
Enter(r) == Cardinality(calls) < MAX_CALLS /\ calls' = calls \cup {r}

\* Mutant: the controls stay armed until the board has stopped.
Press_KeepsArmed(kind) ==
    /\ LockFree
    /\ Enter([kind |-> kind, parameters |-> "none", at |-> arms])
    /\ UNCHANGED <<ready, operator, trialVars, latest, serial, requests, saving, boardVars, arms>>

\* `stop` and `calibrate`
Press(kind) ==
    /\ LockFree
    /\ CancelOperator
    /\ Enter([kind |-> kind, parameters |-> "none", at |-> arms])
    /\ UNCHANGED <<ready, latest, serial, requests, saving, boardVars, arms>>

\* `parameters`
Configure(p) ==
    /\ LockFree /\ Idle /\ saving = "none"
    /\ Enter([kind |-> "config", parameters |-> p, at |-> 0])
    /\ UNCHANGED <<requests, saving>> /\ NoOperator

\* request(): refused without a connection or with a full queue.
Put(r) ==
    /\ LockFree
    /\ calls' = calls \ {r}
    /\ \/ ready /\ Cardinality(requests) < QUEUE /\ requests' = requests \cup {r}
       \/ UNCHANGED requests
    /\ UNCHANGED saving /\ NoOperator

\* save_settings(): the header is written without the lock.
Save ==
    /\ LockFree /\ Idle /\ saving = "none" /\ ~armed
    /\ latest.rest
    /\ saving' = latest.parameters
    /\ UNCHANGED <<calls, requests>> /\ NoOperator

Saved ==
    /\ LockFree /\ saving # "none"
    /\ saving' = "none"
    /\ UNCHANGED <<calls, requests>> /\ NoOperator

-----------------------------------------------------------------------------
(* The serial thread: a heartbeat when it is due, then, in one hold of the lock, *)
(* the tick of sequence and trial and the choice of a line.                      *)

Write(l) == pc' = "sent" /\ line' = l /\ UNCHANGED trial_id
GoTo(place) == pc' = place /\ line' = NoLine /\ UNCHANGED trial_id
Choose(c) == GoTo("decide") /\ control' = c
SerialOnly == UNCHANGED <<ready, operator, trialVars, latest, http, boardVars, arms>>
NoOther == UNCHANGED <<ready, operator_client, release_pending, force_stop, latest, http, boardVars, arms>>

Top ==
    /\ pc = "loop"
    /\ \/ Write(Line("heartbeat", "heartbeat"))
       \/ GoTo("tick")
    /\ UNCHANGED control /\ SerialOnly

\* _presence_failure_locked; telemetry may be old as well.
PresenceFails == ~armed \/ lease = 0
Changed(parameters) == ~latest.good \/ latest.parameters # parameters

NothingToTick ==
    /\ pc = "tick" /\ Idle
    /\ Choose("none")
    /\ UNCHANGED <<armed, intent, lease, trialVars>> /\ NoOther

\* For a reason the last status gives, for old telemetry, or as the brakes are late.
SequenceAborts ==
    /\ pc = "tick" /\ sequence # NoSequence /\ trial = NoTrial
    /\ EndSequence
    /\ armed' = FALSE /\ intent' = NoIntent
    /\ Choose("stop")
    /\ UNCHANGED <<trial, trials, mixed, lease>> /\ NoOther

SequenceHolds ==
    /\ pc = "tick" /\ sequence # NoSequence /\ trial = NoTrial
    /\ ~PresenceFails /\ ~Changed(sequence.parameters)

\* Half a second has to pass, and the brakes to be acknowledged.
SequencePauses ==
    /\ SequenceHolds
    /\ Choose("none")
    /\ UNCHANGED <<armed, intent, lease, trialVars>> /\ NoOther

\* The trial it starts is looked at in the same round.
SequenceGoesOn ==
    /\ SequenceHolds
    /\ Validated
    /\ StartTrial
    /\ Choose("prepare_trial")
    /\ UNCHANGED <<sequence, mixed, armed, intent>> /\ NoOther

TrialAborts ==
    /\ pc = "tick" /\ trial # NoTrial
    /\ FinishTrial(FALSE)
    /\ armed' = FALSE /\ intent' = NoIntent
    /\ Choose("stop")
    /\ UNCHANGED lease /\ NoOther

\* Mutant: the parameters are not looked at once the trial runs.
TrialHolds_AnyParameters == pc = "tick" /\ trial # NoTrial /\ ~PresenceFails /\ latest.good

TrialHolds == pc = "tick" /\ trial # NoTrial /\ ~PresenceFails /\ ~Changed(trial.parameters)

TrialPrepares ==
    /\ TrialHolds /\ trial.phase = "preparing"
    /\ Choose("prepare_trial")
    /\ UNCHANGED <<armed, intent, lease, trialVars>> /\ NoOther

TrialDrives ==
    /\ TrialHolds /\ trial.phase = "drive" /\ trial.left > 0
    /\ intent' = [by |-> "trial", arm |-> arms, age |-> 0]
    /\ Choose("none")
    /\ UNCHANGED <<armed, lease, trialVars>> /\ NoOther

\* At its end, or as it comes near its target.
TrialSettles ==
    /\ TrialHolds /\ trial.phase = "drive"
    /\ trial' = [trial EXCEPT !.phase = "settling", !.left = TRIAL]
    /\ intent' = NoIntent
    /\ Choose("release")
    /\ UNCHANGED <<armed, lease, sequence, trials, mixed>> /\ NoOther

TrialRests ==
    /\ TrialHolds /\ trial.phase = "settling"
    /\ intent' = NoIntent
    /\ IF latest.rest
       THEN FinishTrial(TRUE) /\ armed' = (sequence' # NoSequence) /\ Choose("stop")
       ELSE trial.left > 0 /\ Choose("none") /\ UNCHANGED <<armed, trialVars>>
    /\ UNCHANGED lease /\ NoOther

-----------------------------------------------------------------------------
Held == IF force_stop THEN "stop" ELSE control
Driving == intent # NoIntent /\ armed

\* Controls left alone for 30 s are disarmed.
IdleDisarm == armed' \in IF armed /\ intent = NoIntent /\ lease = 0 THEN BOOLEAN ELSE {armed}

Decide ==
    /\ pc = "decide"
    /\ force_stop' = FALSE /\ control' = "none"
    /\ UNCHANGED <<ready, operator_client, lease, trialVars, latest, http, boardVars, arms>>

DecideTick ==
    /\ Decide /\ Held # "none"
    /\ Write(IF Held = "prepare_trial" THEN Line("measure", "measure") ELSE Line(Held, "control"))
    /\ IdleDisarm /\ UNCHANGED <<intent, release_pending>>

DecideExpired ==
    /\ Decide /\ Held = "none" /\ Driving /\ lease = 0
    /\ armed' = FALSE /\ intent' = NoIntent
    /\ Write(Stop("control"))
    /\ UNCHANGED release_pending

DecideDrive ==
    /\ Decide /\ Held = "none" /\ Driving /\ lease > 0
    /\ Write([Line("drive", "control") EXCEPT !.order = intent])
    /\ UNCHANGED <<armed, intent, release_pending>>

DecideRelease ==
    /\ Decide /\ Held = "none" /\ ~Driving /\ release_pending
    /\ release_pending' = FALSE
    /\ Write(Line("release", "control"))
    /\ IdleDisarm /\ UNCHANGED intent

\* Nothing to send, or the next drive line is not due.
DecideNothing ==
    /\ Decide /\ Held = "none"
    /\ IF Driving THEN lease > 0 ELSE ~release_pending
    /\ GoTo("queue")
    /\ IdleDisarm /\ UNCHANGED <<intent, release_pending>>

-----------------------------------------------------------------------------
(* Exchanges *)

Halted(b) == [b EXCEPT !.state = IF @ = "rest" THEN "rest" ELSE "braking",
                       !.deadline = FALSE, !.order = NoIntent]

\* The board's answer to a line (calibration_command): what it is then, and ok.
Answer(b, ok) == [board |-> b, ok |-> ok]

Executed(l) ==
    CASE l.kind = "heartbeat" -> Answer(board, TRUE)
      [] l.kind = "stop" -> Answer(Halted(board), TRUE)
      [] l.kind = "calibrate" -> Answer([Halted(board) EXCEPT !.good = FALSE], TRUE)
      [] l.kind = "drive" ->
            IF board.good THEN Answer([board EXCEPT !.state = "driving", !.order = l.order], TRUE)
            ELSE Answer(Halted(board), FALSE)
      [] l.kind = "release" ->
            IF board.state \in {"rest", "braking"} THEN Answer(Halted(board), TRUE)
            ELSE Answer([board EXCEPT !.state = "releasing"], TRUE)
      [] l.kind \in {"measure", "bound", "config"} ->
            IF board.state # "rest" THEN Answer(board, FALSE)
            ELSE Answer([board EXCEPT !.deadline = (@ \/ l.kind = "bound"),
                                      !.parameters = IF l.kind = "config" THEN l.ask.parameters ELSE @],
                        TRUE)

BoardExecutes ==
    /\ board' = Executed(line).board
    /\ stopped_at' = IF line.ask.at > stopped_at THEN line.ask.at ELSE stopped_at

\* A line is executed and its reply read: what others see in between is an older status,
\* as at any time.
Exchange ==
    /\ pc = "sent"
    /\ BoardExecutes
    /\ trial' = IF trial.phase \in {"drive", "settling"} /\ board'.parameters # board.parameters
                THEN [trial EXCEPT !.mixed = TRUE] ELSE trial
    /\ LET ok == Executed(line).ok
       IN  /\ ok \/ line.task \in {"control", "cleanup", "request"}
           /\ latest' = IF ok THEN StatusOf(board') ELSE latest
           /\ GoTo(CASE line.task = "heartbeat" -> "tick"
                      [] line.task = "control" -> (IF ok THEN "queue" ELSE "rejected")
                      [] line.task = "cleanup" -> "queue"
                      [] line.task = "measure" -> "bind"
                      [] line.task = "bound" -> "begin"
                      [] line.task = "request" -> "loop")
    /\ UNCHANGED <<ready, operator, sequence, trials, mixed, control, http, arms>>

\* No reply in time, a session the board has ended, nonsense, or a reply that is not ok where
\* the thread counts on it; the line may have arrived. With it goes the handler of the
\* exception, up to the end of its lock.
Breaks ==
    /\ pc = "sent"
    /\ BoardExecutes \/ UNCHANGED boardVars
    /\ FinishTrial(FALSE)
    /\ intent' = IF trial = NoTrial THEN intent ELSE NoIntent
    /\ armed' = (armed /\ ~(trial # NoTrial /\ sequence # NoSequence))
    /\ GoTo("finally")
    /\ UNCHANGED <<ready, operator_client, lease, release_pending, force_stop, latest, control, http, arms>>

Rejected ==
    /\ pc = "rejected"
    /\ CancelOperator
    /\ Write(Stop("cleanup"))
    /\ UNCHANGED <<ready, latest, control, http, boardVars, arms>>

\* The deadline is that of the trial there is now, whichever was measured.
Bind ==
    /\ pc = "bind"
    /\ trial_id' = trial.id
    /\ pc' = "sent" /\ line' = Line("bound", "bound")
    /\ UNCHANGED control /\ SerialOnly

Begin ==
    /\ pc = "begin"
    /\ trial' = IF trial # NoTrial /\ trial.id = trial_id
                THEN [trial EXCEPT !.phase = "drive", !.left = TRIAL] ELSE trial
    /\ pc' = "queue" /\ trial_id' = 0
    /\ UNCHANGED <<ready, operator, sequence, trials, mixed, latest, control, line, http, boardVars, arms>>

\* Stop and calibrate first, in any order among equals; one that waited for a second is not
\* executed.
Urgent == {r \in requests : r.kind # "config"}

Serve ==
    /\ pc = "queue"
    /\ IF requests = {} THEN GoTo("loop") /\ UNCHANGED requests
       ELSE \E r \in IF Urgent # {} THEN Urgent ELSE requests :
                /\ requests' = requests \ {r}
                /\ \/ Write([Line(r.kind, "request") EXCEPT !.ask = r])
                   \/ GoTo("loop")
    /\ UNCHANGED <<ready, operator, trialVars, latest, control, calls, saving, boardVars, arms>>

\* The clean-up; its stop may not get through.
Finally ==
    /\ pc = "finally"
    /\ ready' = FALSE /\ armed' = FALSE /\ intent' = NoIntent
    /\ requests' = {}
    /\ board' \in {board, Halted(board)} /\ latest' \in {latest, StatusOf(board')}
    /\ GoTo("closed")
    /\ UNCHANGED <<operator_client, lease, release_pending, force_stop, trialVars, control,
                   calls, saving, stopped_at, arms>>

\* close(): the loop ends as if the connection had.
Close ==
    /\ pc = "loop"
    /\ GoTo("finally")
    /\ UNCHANGED control /\ SerialOnly

-----------------------------------------------------------------------------
(* The world. What the board does while the lock is held shows in the next reply. *)

BoardOnly == LockFree /\ UNCHANGED <<ready, operator, trialVars, latest, serial, http, stopped_at, arms>>

\* Braked or released, the wheels come to rest.
BoardRests ==
    /\ board.state \in {"braking", "releasing"}
    /\ board' = [Halted(board) EXCEPT !.state = "rest"]
    /\ BoardOnly

BoardCalibrates ==
    /\ board.state \in {"rest", "braking"}
    /\ board' = [board EXCEPT !.good = TRUE]
    /\ BoardOnly

\* One of its leases or its trial deadline is over; a motor or the gyro fails.
BoardStops ==
    /\ BOARD_STOPS
    /\ board' \in {Halted(board), [Halted(board) EXCEPT !.good = FALSE]}
    /\ BoardOnly

Tick ==
    /\ lease' = IF lease > 0 THEN lease - 1 ELSE 0
    /\ intent' = IF intent.by = "manual" /\ intent.age < MANUAL_LEASE
                 THEN [intent EXCEPT !.age = @ + 1] ELSE intent
    /\ trial' = IF trial.left > 0 THEN [trial EXCEPT !.left = @ - 1] ELSE trial
    /\ UNCHANGED <<ready, operator_client, armed, release_pending, force_stop, sequence, trials,
                   mixed, latest, serial, http, boardVars, arms>>

Operator(c) ==
    \/ Arm(c) \/ Drive(c) \/ Release(c) \/ TakeOver(c) \/ Presence(c)
    \/ \E whole \in BOOLEAN : BeginTrial(c, whole)

Http ==
    \/ \E c \in Client : Operator(c)
    \/ \E kind \in {"stop", "calibrate"} : Press(kind)
    \/ \E p \in PARAMETERS : Configure(p)
    \/ \E r \in calls : Put(r)
    \/ Save \/ Saved

SerialThread ==
    \/ Top
    \/ NothingToTick \/ SequenceAborts \/ SequencePauses \/ SequenceGoesOn
    \/ TrialAborts \/ TrialPrepares \/ TrialDrives \/ TrialSettles \/ TrialRests
    \/ DecideTick \/ DecideExpired \/ DecideDrive \/ DecideRelease \/ DecideNothing
    \/ Exchange \/ Breaks \/ Rejected \/ Bind \/ Begin \/ Serve \/ Finally \/ Close

World == BoardRests \/ BoardCalibrates \/ BoardStops \/ Tick

Next == Http \/ SerialThread \/ World

Spec == Init /\ [][Next]_vars

-----------------------------------------------------------------------------
(* What the server promises. *)

\* Once a stop pressed under one arm has been executed, the board moves on orders of a
\* later arm only: no drive line chosen before the stop comes after it.
StopIsLast == board.state = "driving" => board.order.arm > stopped_at

\* What would be driven was asked for since the controls were last armed: nobody arms into
\* the intent that a stop, a trial or another browser left behind (operator, cancel_operator).
OrdersAreOfThisArm == armed /\ intent # NoIntent => intent.arm = arms

\* A manual drive line is chosen only within its lease of a drive message, though trials
\* and their presence share the lease.
ManualIsFresh ==
    [][pc = "decide" /\ pc' = "sent" /\ line'.kind = "drive" /\ line'.order.by = "manual" =>
           line'.order.age < MANUAL_LEASE]_vars

\* A trial recorded as complete drove and settled under one set of parameters, though
\* configurations are queued while it begins.
CompleteIsOfOneSetting == ~mixed

(* What its documentation and messages say, and the code does not do. *)

\* "A server-owned trial additionally starts an MCU `bound` deadline" (tools/calibration/
\* README.md): the board drives for a trial only with the deadline running (prepare_trial in
\* _run). Checked on a board that does not stop by itself.
TrialIsBounded == board.state = "driving" /\ board.order.by = "trial" => board.deadline

-----------------------------------------------------------------------------
(* What makes the promises inductive. *)

\* What is written is a line, and a request of HTTP threads is carried by its own kind.
LineOnItsWay ==
    pc = "sent" =>
        /\ line # NoLine
        /\ line.task = "heartbeat" => line.kind = "heartbeat"
        /\ IF line.task = "request" THEN line.ask # NoRequest /\ line.kind = line.ask.kind
           ELSE line.ask = NoRequest /\ line.kind # "config"

\* An intent dies with the arm it was formed under.
IntentIsOfThisArm == intent # NoIntent => armed /\ intent.arm = arms

\* Whoever presses stop disarms: an arm in force is later than every stop pressed, be it on
\* its way to the queue, in it, on its way to the board or executed.
ArmIsLaterThan(at) == at <= arms /\ (armed => at < arms)

StopsPrecedeArm ==
    /\ \A r \in calls \cup requests \cup {line.ask} : ArmIsLaterThan(r.at)
    /\ ArmIsLaterThan(stopped_at)

\* Nor is there a drive line on its way from before a stop that was executed.
DriveIsLater == pc = "sent" /\ line.kind = "drive" => line.order.arm > stopped_at

\* A manual intent that waits for a trial to begin may be older than its lease...
ManualLease ==
    intent.by = "manual" =>
        \/ trial # NoTrial
        \/ sequence = NoSequence /\ lease + intent.age <= MANUAL_LEASE

\* ... but is not what the thread sends: a trial comes first in a round.
TrialComesFirst == pc = "decide" /\ control = "none" /\ intent.by = "manual" => Idle

\* While the connection lasts, the parameters the server knows are those of the board.
ParametersKnown == pc \notin {"finally", "closed"} => latest.parameters = board.parameters

\* A trial whose parameters are no longer the board's is looked at before anything but a
\* heartbeat is sent, and no other has been driven under two settings.
ChangeIsNoticed ==
    pc \notin {"finally", "closed"} =>
        /\ trial # NoTrial /\ trial.parameters # latest.parameters =>
               pc \in {"loop", "tick"} \/ (pc = "sent" /\ line.task = "heartbeat")
        /\ trial.mixed => trial.parameters # latest.parameters

IInv ==
    /\ TypeOK /\ IsFiniteSet(requests)
    /\ LineOnItsWay
    /\ IntentIsOfThisArm /\ StopsPrecedeArm /\ DriveIsLater /\ StopIsLast
    /\ ManualLease /\ TrialComesFirst
    /\ ParametersKnown /\ ChangeIsNoticed /\ CompleteIsOfOneSetting

=============================================================================
