---------------------- MODULE CalibrationServer_proofs ----------------------
(***************************************************************************)
(* A stop is the last word, for any number of browsers, arms, trials,      *)
(* waiting calls and places in the queue.                                  *)
(***************************************************************************)
EXTENDS CalibrationServer, FiniteSetTheorems, TLAPS

-----------------------------------------------------------------------------
(* Lines *)

Kinds == {"heartbeat", "drive", "release", "measure", "bound", "stop", "calibrate", "config"}
Tasks == {"heartbeat", "control", "cleanup", "measure", "bound", "request"}

\* Whatever the thread writes is a line.
LEMMA LineType ==
    /\ NoLine \in Lines
    /\ \A kind \in Kinds, task \in Tasks : Line(kind, task) \in Lines /\ Line(kind, task) # NoLine
    /\ \A order \in Intents : [Line("drive", "control") EXCEPT !.order = order] \in Lines
    /\ \A r \in Requests : [Line(r.kind, "request") EXCEPT !.ask = r] \in Lines
<1>1. NoIntent \in Intents
  BY DEF Intents
<1>2. \A kind, task : Line(kind, task) = [kind |-> kind, task |-> task, order |-> NoIntent, ask |-> NoRequest]
  BY DEF Line
<1>3. \A r \in Requests : r.kind \in Kinds
  BY DEF Requests, Kinds
<1>4. QED
  BY <1>1, <1>2, <1>3 DEF Lines, NoLine, Kinds, Tasks


\* The values that stand for nothing have the types of what they stand in for.
LEMMA Nones == NoIntent \in Intents /\ NoTrial \in Trials /\ NoSequence \in Sequences
BY DEF Intents, Trials, Sequences

-----------------------------------------------------------------------------
(* The invariant is the types and the promises with what they rest on. *)

Promises ==
    /\ LineOnItsWay
    /\ IntentIsOfThisArm /\ StopsPrecedeArm /\ DriveIsLater /\ StopIsLast
    /\ ManualLease /\ TrialComesFirst
    /\ ParametersKnown /\ ChangeIsNoticed /\ CompleteIsOfOneSetting

\* The server starts in the invariant.
LEMMA InitInv == Init => IInv
<1> SUFFICES ASSUME Init PROVE IInv
  OBVIOUS
<1> USE Nones
<1>0. /\ 0 \in 0 .. PRESENCE_LEASE /\ 0 \in 0 .. MAX_ARMS /\ 0 \in 0 .. MAX_TRIALS
      /\ 0 <= QUEUE
  BY ServerAssumption
<1>1. OperatorType /\ TrialType
  BY <1>0 DEF Init, OperatorType, TrialType
<1>2. SerialType /\ line.ask.at = 0
  BY <1>0, LineType DEF Init, SerialType, NoLine, Line, NoRequest
<1>3. HttpType /\ IsFiniteSet(requests)
  BY <1>0, FS_EmptySet DEF Init, HttpType
<1>4. BoardType /\ latest.parameters = board.parameters /\ board.state # "driving"
  BY <1>0 DEF Init, BoardType, Boards, Statuses, StatusOf
<1>5. LineOnItsWay /\ IntentIsOfThisArm /\ DriveIsLater /\ TrialComesFirst
  BY DEF Init, LineOnItsWay, IntentIsOfThisArm, DriveIsLater, TrialComesFirst
<1>6. StopsPrecedeArm /\ StopIsLast
  BY <1>2, <1>4 DEF Init, StopsPrecedeArm, ArmIsLaterThan, StopIsLast
<1>7. ManualLease /\ ParametersKnown /\ ChangeIsNoticed /\ CompleteIsOfOneSetting
  BY <1>4 DEF Init, ManualLease, NoIntent, ParametersKnown, ChangeIsNoticed, NoTrial,
              CompleteIsOfOneSetting
<1>8. QED
  BY <1>1, <1>2, <1>3, <1>4, <1>5, <1>6, <1>7 DEF IInv, TypeOK

-----------------------------------------------------------------------------
(* HTTP threads *)

\* What browsers order keeps the types.
LEMMA OperatorTypes ==
    ASSUME IInv, NEW c \in Client, Operator(c)
    PROVE  TypeOK' /\ IsFiniteSet(requests)'
<1> USE Nones, ServerAssumption DEF IInv, TypeOK, trialVars
<1>1. NoHttp
  BY DEF Operator, Arm, Drive, Release, TakeOver, Presence, BeginTrial
<1>2. SerialType' /\ HttpType' /\ BoardType' /\ IsFiniteSet(requests)'
  BY <1>1 DEF NoHttp, serial, http, boardVars, SerialType, HttpType, BoardType
<1>3. arms \in Nat /\ (armed => arms > 0)
  BY DEF OperatorType, Promises, StopsPrecedeArm, ArmIsLaterThan, BoardType
<1>4. CASE Arm(c)
  <2>1. arms' \in 0 .. MAX_ARMS
    BY <1>3, <1>4 DEF Arm, OperatorType
  <2>2. OperatorType' /\ TrialType'
    BY <1>4, <2>1 DEF Arm, OperatorType, TrialType
  <2>3. QED
    BY <1>2, <2>2
<1>5. CASE Drive(c)
  <2>1. intent' \in Intents /\ lease' \in 0 .. PRESENCE_LEASE
    BY <1>3, <1>5 DEF Drive, Intents, OperatorType
  <2>2. OperatorType' /\ TrialType'
    BY <1>5, <2>1 DEF Drive, OperatorType, TrialType
  <2>3. QED
    BY <1>2, <2>2
<1>6. CASE TakeOver(c)
  <2>1. OperatorType'
    BY <1>6 DEF TakeOver, OperatorType
  <2>2. TrialType'
    BY <1>6 DEF TakeOver, FinishTrial, EndSequence, TrialType, Trials
  <2>3. QED
    BY <1>2, <2>1, <2>2
<1>7. CASE \E whole \in BOOLEAN : BeginTrial(c, whole)
  <2>1. trial' \in Trials /\ trials' \in 0 .. MAX_TRIALS /\ sequence' \in Sequences
    BY <1>7 DEF BeginTrial, StartTrial, TrialType, Trials, Sequences, BoardType, Statuses
  <2>2. OperatorType' /\ TrialType'
    BY <1>7, <2>1 DEF BeginTrial, StartTrial, OperatorType, TrialType
  <2>3. QED
    BY <1>2, <2>2
<1>8. CASE Release(c)
  BY <1>2, <1>8 DEF Release, OperatorType, TrialType
<1>9. CASE Presence(c)
  BY <1>2, <1>9 DEF Presence, OperatorType, TrialType
<1>10. QED
  BY <1>4, <1>5, <1>6, <1>7, <1>8, <1>9 DEF Operator

\* And what the other HTTP threads do.
LEMMA HttpTypes ==
    ASSUME IInv, Http, \A c \in Client : ~Operator(c)
    PROVE  TypeOK' /\ IsFiniteSet(requests)'
<1> USE Nones DEF IInv, TypeOK, trialVars
<1>1. CASE \E kind \in {"stop", "calibrate"} : Press(kind)
  <2>1. SerialType' /\ BoardType' /\ IsFiniteSet(requests)'
    BY <1>1 DEF Press, serial, boardVars, SerialType, BoardType
  <2>2. OperatorType' /\ TrialType'
    BY <1>1 DEF Press, CancelOperator, EndSequence, OperatorType, TrialType
  <2>3. \A kind \in {"stop", "calibrate"} : [kind |-> kind, parameters |-> "none", at |-> arms] \in Requests
    BY DEF Requests, OperatorType
  <2>4. HttpType'
    BY <1>1, <2>3 DEF Press, Enter, HttpType
  <2>5. QED
    BY <2>1, <2>2, <2>4
<1>2. CASE \E p \in PARAMETERS : Configure(p)
  <2>1. SerialType' /\ BoardType' /\ IsFiniteSet(requests)' /\ OperatorType' /\ TrialType'
    BY <1>2 DEF Configure, NoOperator, operator, serial, boardVars, SerialType, BoardType, OperatorType, TrialType
  <2>2. \A p \in PARAMETERS : [kind |-> "config", parameters |-> p, at |-> 0] \in Requests
    BY DEF Requests
  <2>3. HttpType'
    BY <1>2, <2>2 DEF Configure, NoOperator, Enter, HttpType
  <2>4. QED
    BY <2>1, <2>3
<1>3. CASE \E r \in calls : Put(r)
  <2>1. SerialType' /\ BoardType' /\ OperatorType' /\ TrialType'
    BY <1>3 DEF Put, NoOperator, operator, serial, boardVars, SerialType, BoardType, OperatorType, TrialType
  <2>2. PICK r \in calls : Put(r)
    BY <1>3
  <2>3. Cardinality(requests') <= QUEUE /\ IsFiniteSet(requests')
    <3>1. CASE UNCHANGED requests
      BY <3>1 DEF HttpType
    <3>2. CASE requests' = requests \cup {r} /\ Cardinality(requests) < QUEUE
      <4>1. /\ IsFiniteSet(requests \cup {r})
            /\ Cardinality(requests \cup {r}) \in {Cardinality(requests), Cardinality(requests) + 1}
        BY FS_AddElement
      <4>2. Cardinality(requests) \in Nat
        BY FS_CardinalityType
      <4>3. QED
        BY <3>2, <4>1, <4>2, ServerAssumption
    <3>3. QED
      BY <2>2, <3>1, <3>2 DEF Put
  <2>4. HttpType'
    BY <2>2, <2>3 DEF Put, NoOperator, HttpType
  <2>5. QED
    BY <2>1, <2>3, <2>4
<1>4. CASE Save \/ Saved
  <2>1. SerialType' /\ BoardType' /\ OperatorType' /\ TrialType' /\ IsFiniteSet(requests)'
    BY <1>4 DEF Save, Saved, NoOperator, operator, serial, boardVars, SerialType, BoardType, OperatorType, TrialType
  <2>2. saving' \in PARAMETERS \cup {"none"}
    BY <1>4 DEF Save, Saved, BoardType, Statuses
  <2>3. HttpType'
    BY <1>4, <2>2 DEF Save, Saved, NoOperator, HttpType
  <2>4. QED
    BY <2>1, <2>3
<1>5. QED
  BY <1>1, <1>2, <1>3, <1>4 DEF Http

-----------------------------------------------------------------------------
(* The serial thread *)

\* What Choose, GoTo and Write leave has its type.
LEMMA NextPlace ==
    ASSUME SerialType
    PROVE  /\ \A c \in {"none", "stop", "release", "prepare_trial"} : Choose(c) => SerialType'
           /\ \A place \in {"loop", "tick", "decide", "rejected", "bind", "begin", "queue", "finally", "closed"} :
                  GoTo(place) /\ control' \in {"none", control} => SerialType'
           /\ \A l \in Lines : Write(l) /\ control' \in {"none", control} => SerialType'
BY LineType DEF SerialType, Choose, GoTo, Write

\* A trial in another phase is a trial.
LEMMA PhaseType ==
    ASSUME NEW t \in Trials, t # NoTrial, NEW phase \in {"drive", "settling"}
    PROVE  [t EXCEPT !.phase = phase, !.left = TRIAL] \in Trials
<1>1. TRIAL \in 0 .. TRIAL
  BY ServerAssumption
<1>2. QED
  BY <1>1 DEF Trials

\* The end of a trial, complete or not, keeps the types of trial and sequence.
LEMMA FinishType ==
    ASSUME TrialType, NEW complete \in BOOLEAN, FinishTrial(complete)
    PROVE  TrialType' /\ trial' = NoTrial
<1>1. sequence' \in Sequences
  <2>1. CASE sequence # NoSequence /\ sequence.index < SUBTESTS
    <3>1. sequence.index + 1 \in 1 .. SUBTESTS
      BY <2>1, ServerAssumption DEF TrialType, Sequences
    <3>2. [sequence EXCEPT !.index = sequence.index + 1] \in Sequences
      BY <2>1, <3>1 DEF TrialType, Sequences
    <3>3. QED
      BY <3>2, Nones DEF FinishTrial, EndSequence
  <2>2. QED
    BY <2>1, Nones DEF FinishTrial, EndSequence
<1>2. mixed' \in BOOLEAN /\ trial' = NoTrial /\ trials' = trials
  BY DEF FinishTrial, TrialType, Trials, NoTrial
<1>3. QED
  BY <1>1, <1>2, Nones DEF TrialType

\* The tick of sequence and trial keeps the types.
LEMMA RoundTypes ==
    ASSUME IInv,
           \/ Top \/ Close
           \/ NothingToTick \/ SequenceAborts \/ SequencePauses \/ SequenceGoesOn
           \/ TrialAborts \/ TrialPrepares \/ TrialDrives \/ TrialSettles \/ TrialRests
    PROVE  TypeOK' /\ IsFiniteSet(requests)'
<1> USE Nones DEF IInv, TypeOK, trialVars
<1> DEFINE Rest == HttpType' /\ BoardType' /\ IsFiniteSet(requests)'
<1>1. Top \/ Close => TypeOK' /\ Rest
  <2> SUFFICES ASSUME Top \/ Close PROVE TypeOK' /\ Rest
    OBVIOUS
  <2>1. OperatorType' /\ TrialType' /\ Rest
    BY DEF Top, Close, SerialOnly, operator, http, boardVars, OperatorType, TrialType, HttpType, BoardType
  <2>2. SerialType'
    BY LineType, NextPlace DEF Top, Close, Kinds, Tasks
  <2>3. QED
    BY <2>1, <2>2
<1>2. NoOther => Rest
  BY DEF NoOther, http, boardVars, HttpType, BoardType
<1>3. CASE NothingToTick \/ SequencePauses \/ TrialPrepares
  <2>1. OperatorType' /\ TrialType' /\ NoOther
    BY <1>3 DEF NothingToTick, SequencePauses, TrialPrepares, NoOther, OperatorType, TrialType
  <2>2. SerialType'
    BY <1>3, NextPlace DEF NothingToTick, SequencePauses, TrialPrepares
  <2>3. QED
    BY <1>2, <2>1, <2>2
<1>4. CASE SequenceAborts \/ TrialAborts
  <2>1. OperatorType' /\ TrialType' /\ NoOther
    BY <1>4 DEF SequenceAborts, TrialAborts, FinishTrial, EndSequence, NoOther, OperatorType, TrialType
  <2>2. SerialType'
    BY <1>4, NextPlace DEF SequenceAborts, TrialAborts
  <2>3. QED
    BY <1>2, <2>1, <2>2
<1>5. CASE SequenceGoesOn
  <2>1. trial' \in Trials /\ trials' \in 0 .. MAX_TRIALS /\ lease' \in 0 .. PRESENCE_LEASE
    BY <1>5, ServerAssumption DEF SequenceGoesOn, StartTrial, TrialType, Trials, BoardType, Statuses
  <2>2. OperatorType' /\ TrialType' /\ NoOther
    BY <1>5, <2>1 DEF SequenceGoesOn, NoOther, OperatorType, TrialType
  <2>3. SerialType'
    BY <1>5, NextPlace DEF SequenceGoesOn
  <2>4. QED
    BY <1>2, <2>2, <2>3
<1>6. CASE TrialDrives
  <2>1. armed /\ arms \in 1 .. MAX_ARMS
    BY <1>6 DEF TrialDrives, TrialHolds, PresenceFails, StopsPrecedeArm, ArmIsLaterThan, OperatorType, BoardType
  <2>2. intent' \in Intents
    BY <1>6, <2>1, ServerAssumption DEF TrialDrives, Intents
  <2>3. OperatorType' /\ TrialType' /\ NoOther
    BY <1>6, <2>2 DEF TrialDrives, NoOther, OperatorType, TrialType
  <2>4. SerialType'
    BY <1>6, NextPlace DEF TrialDrives
  <2>5. QED
    BY <1>2, <2>3, <2>4
<1>7. CASE TrialSettles
  <2>1. trial' \in Trials
    BY <1>7, PhaseType DEF TrialSettles, TrialHolds, TrialType
  <2>2. OperatorType' /\ TrialType' /\ NoOther
    BY <1>7, <2>1 DEF TrialSettles, NoOther, OperatorType, TrialType
  <2>3. SerialType'
    BY <1>7, NextPlace DEF TrialSettles
  <2>4. QED
    BY <1>2, <2>2, <2>3
<1>8. CASE TrialRests
  <2>1. TrialType' /\ NoOther
    BY <1>8, FinishType DEF TrialRests, NoOther, TrialType
  <2>2. OperatorType'
    BY <1>8, <2>1 DEF TrialRests, NoOther, OperatorType
  <2>3. SerialType'
    BY <1>8, NextPlace DEF TrialRests
  <2>4. QED
    BY <1>2, <2>1, <2>2, <2>3
<1>9. QED
  BY <1>1, <1>3, <1>4, <1>5, <1>6, <1>7, <1>8

\* The choice of a line keeps the types.
LEMMA DecideTypes ==
    ASSUME IInv, DecideTick \/ DecideExpired \/ DecideDrive \/ DecideRelease \/ DecideNothing
    PROVE  TypeOK' /\ IsFiniteSet(requests)'
<1> USE Nones DEF IInv, TypeOK, trialVars
<1>1. Decide
  BY DEF DecideTick, DecideExpired, DecideDrive, DecideRelease, DecideNothing
<1>2. /\ TrialType' /\ HttpType' /\ BoardType' /\ IsFiniteSet(requests)'
      /\ control' \in {"none", control}
  BY <1>1 DEF Decide, http, boardVars, TrialType, HttpType, BoardType
<1>3. IdleDisarm => armed' \in BOOLEAN
  BY DEF IdleDisarm, OperatorType
<1>4. armed' \in BOOLEAN /\ intent' \in Intents /\ release_pending' \in BOOLEAN
  BY <1>3 DEF DecideTick, DecideExpired, DecideDrive, DecideRelease, DecideNothing, OperatorType
<1>5. OperatorType'
  BY <1>1, <1>4 DEF Decide, OperatorType
<1>6. SerialType'
  <2>1. CASE DecideTick
    <3>1. Held \in {"none", "stop", "release", "prepare_trial"}
      BY DEF Held, SerialType
    <3>2. Line("measure", "measure") \in Lines /\ (Held \in Kinds => Line(Held, "control") \in Lines)
      BY LineType DEF Kinds, Tasks
    <3>3. QED
      BY <1>2, <2>1, <3>1, <3>2, NextPlace DEF DecideTick, Kinds
  <2>2. CASE DecideExpired
    BY <1>2, <2>2, LineType, NextPlace DEF DecideExpired, Stop, Kinds, Tasks
  <2>3. CASE DecideDrive
    BY <1>2, <2>3, LineType, NextPlace DEF DecideDrive, OperatorType
  <2>4. CASE DecideRelease
    BY <1>2, <2>4, LineType, NextPlace DEF DecideRelease, Kinds, Tasks
  <2>5. CASE DecideNothing
    BY <1>2, <2>5, NextPlace DEF DecideNothing
  <2>6. QED
    BY <2>1, <2>2, <2>3, <2>4, <2>5
<1>7. QED
  BY <1>2, <1>5, <1>6

\* A board that halts is a board, with the parameters it had.
LEMMA HaltedType ==
    ASSUME NEW b \in Boards
    PROVE  /\ Halted(b) \in Boards
           /\ Halted(b).parameters = b.parameters /\ Halted(b).state \in {"rest", "braking"}
           /\ \A good \in BOOLEAN :
                  LET calibrating == [Halted(b) EXCEPT !.good = good]
                  IN  /\ calibrating \in Boards
                      /\ calibrating.parameters = b.parameters
                      /\ calibrating.state \in {"rest", "braking"}
BY Nones DEF Halted, Boards

\* What a status tells of it.
LEMMA StatusType ==
    ASSUME NEW b \in Boards
    PROVE  StatusOf(b) \in Statuses /\ StatusOf(b).parameters = b.parameters
BY DEF StatusOf, Boards, Statuses

\* So is one that has executed a line.
LEMMA ExecutedType ==
    ASSUME board \in Boards, line \in Lines, line # NoLine, line.kind = "config" => line.ask.kind = "config"
    PROVE  /\ Executed(line).board \in Boards /\ Executed(line).ok \in BOOLEAN
           /\ line.kind # "config" => Executed(line).board.parameters = board.parameters
           /\ line.kind = "heartbeat" => Executed(line).ok
           /\ ~Executed(line).ok => Executed(line).board.parameters = board.parameters
           /\ Executed(line).board.state = "driving" =>
                  IF line.kind = "drive" THEN Executed(line).board.order = line.order
                  ELSE /\ board.state = "driving" /\ Executed(line).board.order = board.order
                       /\ line.kind \notin {"stop", "calibrate"}
<1>1. line.kind \in Kinds /\ line.order \in Intents
  BY DEF Lines, Kinds
<1>2. line.kind = "config" => line.ask.parameters \in PARAMETERS
  BY DEF Lines, Requests, NoRequest
<1>3. CASE line.kind = "heartbeat"
  BY <1>3 DEF Executed, Answer
<1>8. CASE line.kind = "stop"
  BY <1>8, HaltedType DEF Executed, Answer
<1>9. CASE line.kind = "calibrate"
  BY <1>9, HaltedType DEF Executed, Answer
<1>4. CASE line.kind = "drive"
  BY <1>1, <1>4, HaltedType DEF Executed, Answer, Boards
<1>5. CASE line.kind = "release"
  BY <1>5, HaltedType DEF Executed, Answer, Boards
<1>6. CASE line.kind \in {"measure", "bound", "config"}
  BY <1>2, <1>6 DEF Executed, Answer, Boards
<1>7. QED
  BY <1>1, <1>3, <1>4, <1>5, <1>6, <1>8, <1>9 DEF Kinds

\* The line on its way is one the board knows.
LEMMA LineIsKnown ==
    ASSUME IInv, pc = "sent"
    PROVE  /\ board \in Boards /\ line \in Lines /\ line # NoLine
           /\ line.kind = "config" => line.ask.kind = "config" /\ line.task = "request"
           /\ line.ask.at \in 0 .. MAX_ARMS
<1>1. board \in Boards /\ line \in Lines /\ line # NoLine
  BY DEF IInv, TypeOK, BoardType, SerialType, LineOnItsWay
<1>2. line.kind = "config" => line.ask.kind = "config" /\ line.task = "request"
  BY DEF IInv, LineOnItsWay
<1>3. line.ask.at \in 0 .. MAX_ARMS
  BY <1>1, ServerAssumption DEF Lines, NoLine, Requests, NoRequest
<1>4. QED
  BY <1>1, <1>2, <1>3

\* What a line does to the board, and to what was last stopped.
LEMMA BoardStep ==
    ASSUME IInv, pc = "sent", BoardExecutes
    PROVE  board' \in Boards /\ stopped_at' \in 0 .. MAX_ARMS
BY LineIsKnown, ExecutedType DEF BoardExecutes, IInv, TypeOK, BoardType

\* An exchange, and its failure, keep the types.
LEMMA ExchangeTypes ==
    ASSUME IInv, Exchange \/ Breaks
    PROVE  TypeOK' /\ IsFiniteSet(requests)'
<1> USE Nones DEF IInv, TypeOK, trialVars
<1>1. HttpType' /\ IsFiniteSet(requests)' /\ arms' = arms
  BY DEF Exchange, Breaks, http, HttpType
<1>2. CASE Exchange
  <2>1. board' \in Boards /\ stopped_at' \in 0 .. MAX_ARMS
    BY <1>2, BoardStep DEF Exchange
  <2>2. latest' \in Statuses
    BY <1>2, <2>1 DEF Exchange, StatusOf, Boards, Statuses, BoardType
  <2>3. trial' \in Trials
    <3>1. trial # NoTrial => [trial EXCEPT !.mixed = TRUE] \in Trials
      BY DEF TrialType, Trials
    <3>2. trial.phase \in {"drive", "settling"} => trial # NoTrial
      BY DEF NoTrial
    <3>3. QED
      BY <1>2, <3>1, <3>2 DEF Exchange, TrialType
  <2>4. OperatorType' /\ TrialType' /\ BoardType'
    BY <1>2, <2>1, <2>2, <2>3 DEF Exchange, operator, OperatorType, TrialType, BoardType
  <2>5. line.task \in Tasks
    BY <1>2, LineIsKnown DEF Exchange, Lines, Tasks
  <2>6. SerialType'
    <3>1. control' = control
      BY <1>2 DEF Exchange
    <3>2. \E place \in {"loop", "tick", "rejected", "bind", "begin", "queue"} : GoTo(place)
      BY <1>2, <2>5 DEF Exchange, Tasks
    <3>3. QED
      BY <3>1, <3>2, NextPlace
  <2>7. QED
    BY <1>1, <2>4, <2>6
<1>3. CASE Breaks
  <2>1. board' \in Boards /\ stopped_at' \in 0 .. MAX_ARMS
    BY <1>3, BoardStep DEF Breaks, boardVars, BoardType
  <2>2. TrialType' /\ SerialType'
    BY <1>3, FinishType, NextPlace DEF Breaks
  <2>3. BoardType'
    BY <1>3, <2>1 DEF Breaks, BoardType
  <2>4. OperatorType'
    BY <1>3 DEF Breaks, OperatorType
  <2>5. QED
    BY <1>1, <2>2, <2>3, <2>4
<1>4. QED
  BY <1>2, <1>3

\* So does what the thread does with a reply, and the end of a connection.
LEMMA ReplyTypes ==
    ASSUME IInv, Rejected \/ Bind \/ Begin \/ Serve \/ Finally
    PROVE  TypeOK' /\ IsFiniteSet(requests)'
<1> USE Nones DEF IInv, TypeOK, trialVars
<1>1. CASE Rejected
  <2>1. HttpType' /\ BoardType' /\ IsFiniteSet(requests)'
    BY <1>1 DEF Rejected, http, boardVars, HttpType, BoardType
  <2>2. OperatorType' /\ TrialType'
    BY <1>1 DEF Rejected, CancelOperator, EndSequence, OperatorType, TrialType
  <2>3. SerialType'
    BY <1>1, LineType, NextPlace DEF Rejected, Stop, Kinds, Tasks
  <2>4. QED
    BY <2>1, <2>2, <2>3
<1>2. CASE Bind
  <2>1. OperatorType' /\ TrialType' /\ HttpType' /\ BoardType' /\ IsFiniteSet(requests)'
    BY <1>2 DEF Bind, SerialOnly, operator, http, boardVars, OperatorType, TrialType, HttpType, BoardType
  <2>2. trial.id \in 0 .. MAX_TRIALS
    BY ServerAssumption DEF TrialType, Trials, NoTrial
  <2>3. SerialType'
    BY <1>2, <2>2, LineType DEF Bind, SerialType, Kinds, Tasks
  <2>4. QED
    BY <2>1, <2>3
<1>3. CASE Begin
  <2>1. OperatorType' /\ HttpType' /\ BoardType' /\ IsFiniteSet(requests)'
    BY <1>3 DEF Begin, operator, http, boardVars, OperatorType, HttpType, BoardType
  <2>2. TrialType'
    BY <1>3, PhaseType DEF Begin, TrialType
  <2>3. 0 \in 0 .. MAX_TRIALS
    BY ServerAssumption
  <2>4. SerialType'
    BY <1>3, <2>3 DEF Begin, SerialType
  <2>5. QED
    BY <2>1, <2>2, <2>4
<1>4. CASE Serve
  <2>1. OperatorType' /\ TrialType' /\ BoardType'
    BY <1>4 DEF Serve, operator, boardVars, OperatorType, TrialType, BoardType
  <2>2. CASE GoTo("loop") /\ UNCHANGED requests
    BY <1>4, <2>1, <2>2, NextPlace DEF Serve, HttpType
  <2>3. CASE ~(GoTo("loop") /\ UNCHANGED requests)
    <3>1. PICK r \in requests :
              /\ requests' = requests \ {r}
              /\ Write([Line(r.kind, "request") EXCEPT !.ask = r]) \/ GoTo("loop")
      BY <1>4, <2>3 DEF Serve, Urgent
    <3>2. /\ IsFiniteSet(requests \ {r})
          /\ Cardinality(requests \ {r}) \in {Cardinality(requests), Cardinality(requests) - 1}
          /\ Cardinality(requests) \in Nat
      BY FS_RemoveElement, FS_CardinalityType
    <3>3. Cardinality(requests') <= QUEUE /\ IsFiniteSet(requests')
      BY <3>1, <3>2, ServerAssumption DEF HttpType
    <3>4. HttpType'
      BY <1>4, <3>1, <3>3 DEF Serve, HttpType
    <3>5. r \in Requests
      BY DEF HttpType
    <3>6. SerialType'
      BY <1>4, <3>1, <3>5, LineType, NextPlace DEF Serve
    <3>7. QED
      BY <2>1, <3>3, <3>4, <3>6
  <2>4. QED
    BY <2>2, <2>3
<1>5. CASE Finally
  <2>1. OperatorType' /\ TrialType'
    BY <1>5 DEF Finally, OperatorType, TrialType
  <2>2. HttpType' /\ IsFiniteSet(requests)'
    <3>1. IsFiniteSet({}) /\ Cardinality({}) <= QUEUE
      BY FS_EmptySet, ServerAssumption
    <3>2. QED
      BY <1>5, <3>1 DEF Finally, HttpType
  <2>3. board' \in Boards
    BY <1>5, HaltedType DEF Finally, BoardType
  <2>4. latest' \in Statuses
    BY <1>5, <2>3, StatusType DEF Finally, BoardType
  <2>5. BoardType' /\ SerialType'
    BY <1>5, <2>3, <2>4, NextPlace DEF Finally, BoardType
  <2>6. QED
    BY <2>1, <2>2, <2>5
<1>6. QED
  BY <1>1, <1>2, <1>3, <1>4, <1>5

\* And the board itself, and time.
LEMMA WorldTypes ==
    ASSUME IInv, World
    PROVE  TypeOK' /\ IsFiniteSet(requests)'
<1> USE Nones DEF IInv, TypeOK, trialVars
<1>1. CASE Tick
  <2>1. SerialType' /\ HttpType' /\ BoardType' /\ IsFiniteSet(requests)'
    BY <1>1 DEF Tick, serial, http, boardVars, SerialType, HttpType, BoardType
  <2>2. intent' \in Intents /\ lease' \in 0 .. PRESENCE_LEASE
    <3>1. lease' \in 0 .. PRESENCE_LEASE
      BY <1>1, ServerAssumption DEF Tick, OperatorType
    <3>2. intent.by = "manual" /\ intent.age < MANUAL_LEASE => [intent EXCEPT !.age = intent.age + 1] \in Intents
      BY ServerAssumption DEF OperatorType, Intents, NoIntent
    <3>3. QED
      BY <1>1, <3>1, <3>2 DEF Tick, OperatorType
  <2>3. trial' \in Trials
    <3>1. trial.left > 0 => [trial EXCEPT !.left = trial.left - 1] \in Trials
      BY ServerAssumption DEF TrialType, Trials, NoTrial
    <3>2. QED
      BY <1>1, <3>1 DEF Tick, TrialType
  <2>4. OperatorType' /\ TrialType'
    BY <1>1, <2>2, <2>3 DEF Tick, OperatorType, TrialType
  <2>5. QED
    BY <2>1, <2>4
<1>2. CASE BoardRests \/ BoardCalibrates \/ BoardStops
  <2>1. OperatorType' /\ TrialType' /\ SerialType' /\ HttpType' /\ IsFiniteSet(requests)'
    BY <1>2 DEF BoardRests, BoardCalibrates, BoardStops, BoardOnly, operator, serial, http,
                OperatorType, TrialType, SerialType, HttpType
  <2>2. CASE BoardRests
    BY <2>1, <2>2, HaltedType DEF BoardRests, BoardOnly, BoardType, Boards
  <2>3. CASE BoardCalibrates
    BY <2>1, <2>3 DEF BoardCalibrates, BoardOnly, BoardType, Boards
  <2>4. CASE BoardStops
    BY <2>1, <2>4, HaltedType DEF BoardStops, BoardOnly, BoardType
  <2>5. QED
    BY <1>2, <2>2, <2>3, <2>4
<1>3. QED
  BY <1>1, <1>2 DEF World

-----------------------------------------------------------------------------
(* What every action does to the promises. *)

\* What browsers order keeps them.
LEMMA OperatorPromises ==
    ASSUME IInv, NEW c \in Client, Operator(c)
    PROVE  Promises'
<1> USE ServerAssumption
    DEF IInv, Promises, LineOnItsWay, IntentIsOfThisArm, StopsPrecedeArm, ArmIsLaterThan, DriveIsLater,
        StopIsLast, ManualLease, TrialComesFirst, ParametersKnown, ChangeIsNoticed,
        CompleteIsOfOneSetting, TypeOK, OperatorType, TrialType, Intents, Trials, Sequences,
        NoIntent, NoTrial, NoSequence, Idle, LockFree, NoHttp, trialVars, serial, http, boardVars
<1>1. CASE Arm(c)
  <2>1. /\ IF armed \/ ~armed' THEN arms' = arms ELSE arms' = arms + 1
        /\ intent' = intent /\ (armed => armed')
    BY <1>1 DEF Arm
  <2>2. IntentIsOfThisArm' /\ StopsPrecedeArm'
    BY <1>1, <2>1 DEF Arm, SerialType, HttpType, BoardType, Requests, Lines, NoLine, NoRequest, Line
  <2>3. QED
    BY <1>1, <2>2 DEF Arm
<1>2. CASE Drive(c)
  BY <1>2 DEF Drive, Owns
<1>3. CASE Release(c)
  BY <1>3 DEF Release, Owns
<1>4. CASE TakeOver(c)
  BY <1>4 DEF TakeOver, FinishTrial
<1>5. CASE Presence(c)
  BY <1>5 DEF Presence, Owns
<1>6. CASE \E whole \in BOOLEAN : BeginTrial(c, whole)
  BY <1>6 DEF BeginTrial, StartTrial, Owns, Validated
<1>7. QED
  BY <1>1, <1>2, <1>3, <1>4, <1>5, <1>6 DEF Operator

\* So do the other HTTP threads: whoever presses stop disarms at once.
LEMMA HttpPromises ==
    ASSUME IInv, Http, \A c \in Client : ~Operator(c)
    PROVE  Promises'
<1> USE ServerAssumption
    DEF IInv, Promises, LineOnItsWay, IntentIsOfThisArm, StopsPrecedeArm, ArmIsLaterThan, DriveIsLater,
        StopIsLast, ManualLease, TrialComesFirst, ParametersKnown, ChangeIsNoticed,
        CompleteIsOfOneSetting, TypeOK, OperatorType, TrialType, Intents, Trials, Sequences,
        NoIntent, NoTrial, NoSequence, Idle, LockFree, trialVars, serial, boardVars, operator
<1>1. CASE \E kind \in {"stop", "calibrate"} : Press(kind)
  BY <1>1 DEF Press, CancelOperator, EndSequence, Enter
<1>2. CASE \E p \in PARAMETERS : Configure(p)
  <2>1. ArmIsLaterThan(0)
    BY DEF BoardType
  <2>2. PICK p \in PARAMETERS : Configure(p)
    BY <1>2
  <2>3. StopsPrecedeArm'
    BY <2>1, <2>2 DEF Configure, NoOperator, Enter
  <2>4. QED
    BY <2>2, <2>3 DEF Configure, NoOperator
<1>3. CASE \E r \in calls : Put(r)
  BY <1>3 DEF Put, NoOperator
<1>4. CASE Save \/ Saved
  BY <1>4 DEF Save, Saved, NoOperator
<1>5. QED
  BY <1>1, <1>2, <1>3, <1>4 DEF Http

-----------------------------------------------------------------------------
(* The serial thread keeps the promises, those about lines first. *)

\* A line is one on its way.
LEMMA LinePromise ==
    ASSUME IInv, SerialThread
    PROVE  LineOnItsWay'
<1> USE DEF IInv, LineOnItsWay, Write, GoTo, Choose, Stop, Line, NoLine, NoRequest
<1>1. CASE Top \/ Close
  BY <1>1 DEF Top, Close
<1>2. CASE \/ NothingToTick \/ SequenceAborts \/ SequencePauses \/ SequenceGoesOn
           \/ TrialAborts \/ TrialPrepares \/ TrialDrives \/ TrialSettles \/ TrialRests
  BY <1>2 DEF NothingToTick, SequenceAborts, SequencePauses, SequenceGoesOn, TrialAborts, TrialPrepares,
              TrialDrives, TrialSettles, TrialRests
<1>3. CASE DecideTick \/ DecideExpired \/ DecideDrive \/ DecideRelease \/ DecideNothing
  BY <1>3 DEF DecideTick, DecideExpired, DecideDrive, DecideRelease, DecideNothing, Held, TypeOK, SerialType
<1>4. CASE Exchange \/ Breaks
  BY <1>4 DEF Exchange, Breaks, TypeOK, SerialType, Lines
<1>5. CASE Rejected \/ Bind \/ Begin \/ Finally
  BY <1>5 DEF Rejected, Bind, Begin, Finally
<1>6. CASE Serve
  <2>1. CASE GoTo("loop")
    BY <2>1
  <2>2. CASE ~GoTo("loop")
    <3>1. PICK r \in requests : Write([Line(r.kind, "request") EXCEPT !.ask = r])
      BY <1>6, <2>2 DEF Serve, Urgent
    <3>2. r.kind # "none"
      BY DEF TypeOK, HttpType, Requests
    <3>3. QED
      BY <3>1, <3>2
  <2>3. QED
    BY <2>1, <2>2
<1>7. QED
  BY <1>1, <1>2, <1>3, <1>4, <1>5, <1>6 DEF SerialThread

\* The board that executes a stop does not drive, and no other line moves stopped_at.
LEMMA StopIsLastWord ==
    ASSUME IInv, pc = "sent", BoardExecutes \/ UNCHANGED boardVars
    PROVE  stopped_at' \in {stopped_at, line.ask.at} /\ StopIsLast'
<1>1. CASE UNCHANGED boardVars
  BY <1>1 DEF IInv, boardVars, StopIsLast
<1>2. CASE BoardExecutes
  <2>1. line.ask.at = 0 \/ line.kind \in {"stop", "calibrate"}
    <3>1. line.ask.at = 0 \/ line.ask.kind \in {"stop", "calibrate"}
      BY LineIsKnown DEF Lines, NoLine, Line, Requests, NoRequest
    <3>2. line.ask = NoRequest \/ line.kind = line.ask.kind
      BY DEF IInv, LineOnItsWay
    <3>3. QED
      BY <3>1, <3>2 DEF NoRequest
  <2>2. board'.state = "driving" => stopped_at' = stopped_at
    <3>1. board'.state = "driving" => line.kind \notin {"stop", "calibrate"}
      BY <1>2, LineIsKnown, ExecutedType DEF BoardExecutes
    <3>2. stopped_at \in Nat
      BY DEF IInv, TypeOK, BoardType
    <3>3. QED
      BY <1>2, <2>1, <3>1, <3>2 DEF BoardExecutes
  <2>3. board'.state = "driving" =>
            \/ line.kind = "drive" /\ board'.order = line.order
            \/ board.state = "driving" /\ board'.order = board.order
    BY <1>2, LineIsKnown, ExecutedType DEF BoardExecutes
  <2>4. StopIsLast'
    BY <2>2, <2>3 DEF IInv, DriveIsLater, StopIsLast
  <2>5. QED
    BY <1>2, <2>4 DEF BoardExecutes
<1>3. QED
  BY <1>1, <1>2

\* A stop or a trial that ends leaves no intent, and nobody but the board moves stopped_at.
LEMMA ArmsPromise ==
    ASSUME IInv, SerialThread
    PROVE  IntentIsOfThisArm' /\ StopsPrecedeArm' /\ DriveIsLater' /\ StopIsLast'
<1> USE DEF IInv, IntentIsOfThisArm, StopsPrecedeArm, ArmIsLaterThan, DriveIsLater, StopIsLast,
            Write, GoTo, Choose, Stop, Line, NoLine, NoRequest, boardVars
<1>0. ArmIsLaterThan(0)
  BY DEF TypeOK, OperatorType, BoardType
<1>1. CASE Top \/ Close
  BY <1>0, <1>1 DEF Top, Close, SerialOnly, operator, http
<1>2. CASE \/ NothingToTick \/ SequenceAborts \/ SequencePauses \/ SequenceGoesOn
           \/ TrialAborts \/ TrialPrepares \/ TrialDrives \/ TrialSettles
  <2>1. pc' = "decide" /\ line' = NoLine /\ NoOther
    BY <1>2 DEF NothingToTick, SequenceAborts, SequencePauses, SequenceGoesOn, TrialAborts,
                TrialPrepares, TrialDrives, TrialSettles
  <2>2. \/ armed' = armed /\ intent' \in {intent, NoIntent}
        \/ ~armed' /\ intent' = NoIntent
        \/ armed' /\ armed /\ intent'.arm = arms
    <3>1. CASE SequenceAborts \/ TrialAborts
      BY <3>1 DEF SequenceAborts, TrialAborts
    <3>2. CASE TrialDrives
      BY <3>2 DEF TrialDrives, TrialHolds, PresenceFails
    <3>3. CASE NothingToTick \/ SequencePauses \/ SequenceGoesOn \/ TrialPrepares \/ TrialSettles
      BY <3>3 DEF NothingToTick, SequencePauses, SequenceGoesOn, TrialPrepares, TrialSettles
    <3>4. QED
      BY <1>2, <3>1, <3>2, <3>3
  <2>3. armed' => armed
    BY <2>2, <1>2 DEF TypeOK, OperatorType
  <2>4. QED
    BY <1>0, <2>1, <2>2, <2>3 DEF NoOther, http
<1>3. CASE TrialRests
  <2>1. armed
    BY <1>3 DEF TrialRests, TrialHolds, PresenceFails
  <2>2. intent' = NoIntent /\ pc' = "decide" /\ line' = NoLine
    BY <1>3 DEF TrialRests
  <2>3. QED
    BY <1>0, <1>3, <2>1, <2>2 DEF TrialRests, NoOther, http
<1>4. CASE DecideTick \/ DecideExpired \/ DecideDrive \/ DecideRelease \/ DecideNothing
  BY <1>0, <1>4 DEF DecideTick, DecideExpired, DecideDrive, DecideRelease, DecideNothing, Decide, IdleDisarm,
              Driving, http, TypeOK, OperatorType, BoardType, Held, SerialType
<1>5. CASE Exchange \/ Breaks
  <2>1. /\ pc' # "sent" /\ line' = NoLine /\ arms' = arms /\ UNCHANGED http
        /\ pc = "sent"
        /\ BoardExecutes \/ UNCHANGED boardVars
    <3>1. Exchange => line.task \in Tasks
      BY LineIsKnown DEF Exchange, Lines, NoLine, Tasks
    <3>2. CASE Exchange
      BY <3>1, <3>2 DEF Exchange, Tasks
    <3>3. CASE Breaks
      BY <3>3 DEF Breaks, http
    <3>4. QED
      BY <1>5, <3>2, <3>3
  <2>2. intent' \in {intent, NoIntent} /\ (armed' => armed) /\ (intent' # NoIntent => armed' = armed)
    <3>1. CASE Exchange
      BY <3>1 DEF Exchange, operator
    <3>2. CASE Breaks
      BY <3>2 DEF Breaks, TypeOK, OperatorType
    <3>3. QED
      BY <1>5, <3>1, <3>2
  <2>3. stopped_at' \in {stopped_at, line.ask.at} /\ StopIsLast'
    BY <1>5, <2>1, StopIsLastWord DEF Exchange, Breaks
  <2>4. QED
    BY <1>0, <2>1, <2>2, <2>3 DEF http
<1>6. CASE Rejected \/ Bind \/ Begin
  BY <1>0, <1>6 DEF Rejected, Bind, Begin, CancelOperator, SerialOnly, operator, http
<1>7. CASE Finally
  <2>1. StopIsLast'
    BY <1>7, HaltedType DEF Finally, TypeOK, BoardType
  <2>2. QED
    BY <1>0, <1>7, <2>1 DEF Finally
<1>8. CASE Serve
  <2>1. /\ requests' \subseteq requests /\ line'.ask \in requests \cup {NoRequest}
        /\ pc' = "sent" => line'.kind # "drive"
    <3>1. CASE GoTo("loop") /\ UNCHANGED requests
      BY <3>1
    <3>2. CASE ~(GoTo("loop") /\ UNCHANGED requests)
      <4>1. PICK r \in requests :
                /\ requests' = requests \ {r}
                /\ Write([Line(r.kind, "request") EXCEPT !.ask = r]) \/ GoTo("loop")
        BY <1>8, <3>2 DEF Serve, Urgent
      <4>2. r.kind # "drive"
        BY DEF TypeOK, HttpType, Requests
      <4>3. QED
        BY <4>1, <4>2
    <3>3. QED
      BY <3>1, <3>2
  <2>2. QED
    BY <1>0, <1>8, <2>1 DEF Serve, operator
<1>9. QED
  BY <1>1, <1>2, <1>3, <1>4, <1>5, <1>6, <1>7, <1>8 DEF SerialThread

\* A manual intent is that of a server without a trial, or waits for one.
LEMMA LeasePromise ==
    ASSUME IInv, SerialThread
    PROVE  ManualLease' /\ TrialComesFirst'
<1> USE DEF IInv, ManualLease, TrialComesFirst, Idle, Write, GoTo, Choose, Stop, NoIntent, trialVars
<1>1. CASE Top \/ Bind \/ Close
  BY <1>1 DEF Top, Bind, Close, SerialOnly, operator
<1>2. CASE NothingToTick
  BY <1>2 DEF NothingToTick
<1>3. CASE SequenceAborts \/ TrialAborts \/ TrialSettles \/ TrialRests
  <2>1. intent' = NoIntent
    BY <1>3 DEF SequenceAborts, TrialAborts, TrialSettles, TrialRests
  <2>2. QED
    BY <2>1
<1>4. CASE SequencePauses
  <2>1. intent.by # "manual"
    BY <1>4 DEF SequencePauses, SequenceHolds
  <2>2. QED
    BY <1>4, <2>1 DEF SequencePauses
<1>5. CASE SequenceGoesOn
  <2>1. intent.by # "manual"
    BY <1>5 DEF SequenceGoesOn, SequenceHolds
  <2>2. QED
    BY <1>5, <2>1 DEF SequenceGoesOn
<1>6. CASE TrialPrepares
  BY <1>6 DEF TrialPrepares, TrialHolds
<1>7. CASE TrialDrives
  <2>1. intent'.by = "trial"
    BY <1>7 DEF TrialDrives
  <2>2. QED
    BY <2>1
<1>8. CASE DecideTick \/ DecideExpired \/ DecideDrive \/ DecideRelease \/ DecideNothing
  <2>1. UNCHANGED <<trial, sequence, lease>> /\ pc' # "decide" /\ intent' \in {intent, NoIntent}
    BY <1>8 DEF DecideTick, DecideExpired, DecideDrive, DecideRelease, DecideNothing, Decide
  <2>2. QED
    BY <2>1
<1>9. CASE Rejected \/ Finally
  BY <1>9 DEF Rejected, Finally, CancelOperator
<1>10. CASE Begin
  <2>1. trial = NoTrial <=> trial' = NoTrial
    BY <1>10 DEF Begin, NoTrial, TypeOK, TrialType, Trials
  <2>2. QED
    BY <1>10, <2>1 DEF Begin, operator
<1>11. CASE Serve
  BY <1>11 DEF Serve, Urgent, operator
<1>12. CASE Exchange
  <2>1. trial = NoTrial => trial' = NoTrial
    BY <1>12 DEF Exchange, NoTrial
  <2>2. trial' = NoTrial => trial = NoTrial
    BY <1>12 DEF Exchange, NoTrial, TypeOK, TrialType, Trials
  <2>3. line.task \in Tasks
    BY <1>12, LineIsKnown DEF Exchange, Lines, NoLine, Tasks
  <2>4. pc' # "decide"
    BY <1>12, <2>3 DEF Exchange, Tasks
  <2>5. QED
    BY <1>12, <2>1, <2>2, <2>4 DEF Exchange, operator
<1>13. CASE Breaks
  <2>1. /\ intent' = IF trial = NoTrial THEN intent ELSE NoIntent
        /\ lease' = lease /\ pc' # "decide"
        /\ sequence' = NoSequence
    BY <1>13 DEF Breaks, FinishTrial, EndSequence
  <2>2. QED
    BY <2>1
<1>14. QED
  BY <1>1, <1>2, <1>3, <1>4, <1>5, <1>6, <1>7, <1>8, <1>9, <1>10, <1>11, <1>12, <1>13 DEF SerialThread

\* What a line does to the parameters of the board, the thread knows when it has the reply.
LEMMA ParametersOfReply ==
    ASSUME IInv, Exchange
    PROVE  /\ latest'.parameters = board'.parameters
           /\ board'.parameters # board.parameters => line.task = "request"
<1> USE DEF IInv
<1>1. board' = Executed(line).board /\ latest' = IF Executed(line).ok THEN StatusOf(board') ELSE latest
  BY DEF Exchange, BoardExecutes
<1>2. board' \in Boards /\ StatusOf(board').parameters = board'.parameters
  BY <1>1, LineIsKnown, ExecutedType, StatusType DEF Exchange
<1>3. ~Executed(line).ok => latest'.parameters = board.parameters /\ board'.parameters = board.parameters
  BY <1>1, LineIsKnown, ExecutedType DEF Exchange, ParametersKnown
<1>4. board'.parameters # board.parameters => line.kind = "config"
  BY <1>1, LineIsKnown, ExecutedType DEF Exchange
<1>5. QED
  BY <1>1, <1>2, <1>3, <1>4, LineIsKnown DEF Exchange

\* A change of parameters is noticed before the trial goes on, or its record is complete.
LEMMA SettingPromise ==
    ASSUME IInv, SerialThread
    PROVE  ParametersKnown' /\ ChangeIsNoticed' /\ CompleteIsOfOneSetting'
<1> USE DEF IInv, ParametersKnown, ChangeIsNoticed, CompleteIsOfOneSetting, Write, GoTo, Choose, Stop, Line,
            trialVars, boardVars
<1>0. NoTrial.mixed = FALSE
  BY DEF NoTrial
<1>1. CASE Top \/ Bind \/ Close
  BY <1>1 DEF Top, Bind, Close, SerialOnly
<1>2. CASE NothingToTick
  BY <1>0, <1>2 DEF NothingToTick, Idle, NoOther
<1>3. CASE SequenceAborts \/ TrialAborts
  <2>1. UNCHANGED <<latest, board>> /\ pc = "tick" /\ trial' = NoTrial
    BY <1>3 DEF SequenceAborts, TrialAborts, FinishTrial, NoOther
  <2>2. ~mixed'
    BY <1>3 DEF SequenceAborts, TrialAborts, FinishTrial
  <2>3. QED
    BY <1>0, <2>1, <2>2
<1>4. CASE SequencePauses \/ SequenceGoesOn
  <2>1. UNCHANGED <<latest, board>> /\ pc = "tick" /\ pc' = "decide" /\ mixed' = mixed
    BY <1>4 DEF SequencePauses, SequenceGoesOn, SequenceHolds, NoOther
  <2>2. trial = NoTrial
    BY <1>4 DEF SequencePauses, SequenceGoesOn, SequenceHolds
  <2>3. trial' = NoTrial \/ (trial'.parameters = latest.parameters /\ ~trial'.mixed)
    BY <1>4, <2>2 DEF SequencePauses, SequenceGoesOn, StartTrial
  <2>4. QED
    BY <1>0, <2>1, <2>3
<1>5. CASE TrialPrepares \/ TrialDrives \/ TrialSettles \/ TrialRests
  <2>1. UNCHANGED <<latest, board>> /\ pc = "tick" /\ pc' = "decide"
    BY <1>5 DEF TrialPrepares, TrialDrives, TrialSettles, TrialRests, TrialHolds, NoOther
  <2>2. trial.parameters = latest.parameters /\ ~trial.mixed
    <3>1. trial.parameters = latest.parameters
      BY <1>5 DEF TrialPrepares, TrialDrives, TrialSettles, TrialRests, TrialHolds, Changed
    <3>2. QED
      BY <2>1, <3>1
  <2>3. trial' = NoTrial \/ (trial'.parameters = trial.parameters /\ trial'.mixed = trial.mixed)
    <3>1. CASE TrialPrepares \/ TrialDrives
      BY <3>1 DEF TrialPrepares, TrialDrives
    <3>2. CASE TrialSettles
      BY <3>2 DEF TrialSettles, TrialHolds, TypeOK, TrialType, Trials
    <3>3. CASE TrialRests
      BY <3>3 DEF TrialRests, FinishTrial
    <3>4. QED
      BY <1>5, <3>1, <3>2, <3>3
  <2>4. ~mixed'
    BY <1>5, <2>2 DEF TrialPrepares, TrialDrives, TrialSettles, TrialRests, FinishTrial
  <2>5. QED
    BY <1>0, <2>1, <2>2, <2>3, <2>4
<1>6. CASE DecideTick \/ DecideExpired \/ DecideDrive \/ DecideRelease \/ DecideNothing
  <2>1. Decide
    BY <1>6 DEF DecideTick, DecideExpired, DecideDrive, DecideRelease, DecideNothing
  <2>2. pc' \in {"sent", "queue"}
    BY <1>6 DEF DecideTick, DecideExpired, DecideDrive, DecideRelease, DecideNothing
  <2>3. QED
    BY <2>1, <2>2 DEF Decide
<1>7. CASE Rejected
  BY <1>0, <1>7 DEF Rejected, CancelOperator
<1>8. CASE Begin
  <2>1. trial'.parameters = trial.parameters /\ trial'.mixed = trial.mixed /\ (trial' # NoTrial => trial # NoTrial)
    BY <1>8 DEF Begin, TypeOK, TrialType, Trials
  <2>2. QED
    BY <1>8, <2>1 DEF Begin
<1>9. CASE Serve
  <2>1. UNCHANGED <<trial, mixed, latest, board>> /\ pc = "queue" /\ pc' \in {"sent", "loop"}
    BY <1>9 DEF Serve, Urgent
  <2>2. QED
    BY <2>1
<1>10. CASE Finally \/ Breaks
  <2>1. pc' \in {"finally", "closed"}
    BY <1>10 DEF Finally, Breaks
  <2>2. ~mixed'
    BY <1>10 DEF Finally, Breaks, FinishTrial
  <2>3. QED
    BY <2>1, <2>2
<1>11. CASE Exchange
  <2>1. pc = "sent" /\ mixed' = mixed
    BY <1>11 DEF Exchange
  <2>2. trial = NoTrial => trial' = NoTrial
    BY <1>11 DEF Exchange, NoTrial
  <2>3. trial'.parameters = trial.parameters
    BY <1>11 DEF Exchange, TypeOK, TrialType, Trials
  <2>4. trial'.mixed =>
            \/ trial.mixed
            \/ trial # NoTrial /\ board'.parameters # board.parameters
    BY <1>11 DEF Exchange, NoTrial
  <2>5. line.task = "request" => pc' = "loop"
    BY <1>11 DEF Exchange
  <2>6. line.task = "heartbeat" => pc' = "tick"
    BY <1>11 DEF Exchange
  <2>7. latest'.parameters = board'.parameters
    BY <1>11, ParametersOfReply
  <2>8. board'.parameters # board.parameters =>
            pc' = "loop" /\ (trial # NoTrial => trial.parameters = board.parameters)
    BY <1>11, <2>1, <2>5, ParametersOfReply
  <2>9. board'.parameters = board.parameters /\ line.task # "heartbeat" /\ trial # NoTrial =>
            trial.parameters = latest'.parameters
    BY <2>1, <2>7
  <2>10. trial' # NoTrial /\ trial'.parameters # latest'.parameters => pc' \in {"loop", "tick"}
    BY <2>2, <2>3, <2>6, <2>8, <2>9
  <2>11. trial'.mixed => trial'.parameters # latest'.parameters
    BY <1>0, <2>1, <2>3, <2>4, <2>7, <2>8
  <2>12. QED
    BY <2>1, <2>7, <2>10, <2>11
<1>12. QED
  BY <1>1, <1>2, <1>3, <1>4, <1>5, <1>6, <1>7, <1>8, <1>9, <1>10, <1>11 DEF SerialThread

-----------------------------------------------------------------------------
(* The world, and every step. *)

\* The board does not drive by itself, and time takes from the lease what it adds to an age.
LEMMA WorldPromises ==
    ASSUME IInv, World
    PROVE  Promises'
<1> USE DEF IInv, Promises, ArmIsLaterThan
<1>1. CASE Tick
  <2>1. /\ LineOnItsWay' /\ StopsPrecedeArm' /\ DriveIsLater' /\ StopIsLast'
        /\ ParametersKnown' /\ CompleteIsOfOneSetting'
    BY <1>1 DEF Tick, serial, http, boardVars, LineOnItsWay, StopsPrecedeArm, DriveIsLater, StopIsLast,
                ParametersKnown, CompleteIsOfOneSetting
  <2>2. /\ intent'.by = intent.by /\ intent'.arm = intent.arm
        /\ intent = NoIntent <=> intent' = NoIntent
    BY <1>1 DEF Tick, TypeOK, OperatorType, Intents, NoIntent
  <2>3. IntentIsOfThisArm'
    BY <1>1, <2>2 DEF Tick, IntentIsOfThisArm
  <2>4. /\ trial'.parameters = trial.parameters /\ trial'.mixed = trial.mixed
        /\ trial = NoTrial <=> trial' = NoTrial
    <3>1. trial = NoTrial => trial' = trial
      BY <1>1 DEF Tick, NoTrial
    <3>2. trial # NoTrial => trial.id \in Nat \ {0} /\ trial'.id = trial.id
      BY <1>1 DEF Tick, TypeOK, TrialType, Trials
    <3>3. trial'.parameters = trial.parameters /\ trial'.mixed = trial.mixed
      BY <1>1 DEF Tick, TypeOK, TrialType, Trials, NoTrial
    <3>4. QED
      BY <3>1, <3>2, <3>3 DEF NoTrial
  <2>5. ChangeIsNoticed'
    BY <1>1, <2>4 DEF Tick, serial, ChangeIsNoticed
  <2>6. TrialComesFirst'
    BY <1>1, <2>2, <2>4 DEF Tick, serial, TrialComesFirst, Idle
  <2>7. intent.by = "manual" =>
            /\ lease \in Nat /\ intent.age \in Nat /\ intent'.age \in {intent.age, intent.age + 1}
            /\ lease = 0 => intent'.age <= MANUAL_LEASE
    BY <1>1, ServerAssumption DEF Tick, TypeOK, OperatorType, Intents, NoIntent
  <2>8. ManualLease'
    BY <1>1, <2>2, <2>4, <2>7, ServerAssumption DEF Tick, ManualLease
  <2>9. QED
    BY <2>1, <2>3, <2>5, <2>6, <2>8
<1>2. CASE BoardRests \/ BoardCalibrates \/ BoardStops
  <2>1. BoardOnly
    BY <1>2 DEF BoardRests, BoardCalibrates, BoardStops
  <2>2. board'.parameters = board.parameters /\ board'.state # "driving"
    BY <1>2, HaltedType DEF BoardRests, BoardCalibrates, BoardStops, TypeOK, BoardType, Boards
  <2>3. StopIsLast' /\ ParametersKnown'
    BY <2>1, <2>2 DEF BoardOnly, serial, StopIsLast, ParametersKnown
  <2>4. /\ LineOnItsWay' /\ IntentIsOfThisArm' /\ StopsPrecedeArm' /\ DriveIsLater'
        /\ ManualLease' /\ TrialComesFirst' /\ ChangeIsNoticed' /\ CompleteIsOfOneSetting'
    BY <2>1 DEF BoardOnly, operator, trialVars, serial, http, LineOnItsWay, IntentIsOfThisArm,
                StopsPrecedeArm, DriveIsLater, ManualLease, TrialComesFirst, Idle, ChangeIsNoticed,
                CompleteIsOfOneSetting
  <2>5. QED
    BY <2>3, <2>4
<1>3. QED
  BY <1>1, <1>2 DEF World

\* Every step keeps the invariant.
LEMMA NextInv == IInv /\ [Next]_vars => IInv'
<1> SUFFICES ASSUME IInv, [Next]_vars PROVE IInv'
  OBVIOUS
<1>1. CASE Http
  <2>1. CASE \E c \in Client : Operator(c)
    BY <2>1, OperatorTypes, OperatorPromises DEF IInv, Promises
  <2>2. CASE \A c \in Client : ~Operator(c)
    BY <1>1, <2>2, HttpTypes, HttpPromises DEF IInv, Promises
  <2>3. QED
    BY <2>1, <2>2
<1>2. CASE SerialThread
  <2>1. TypeOK' /\ IsFiniteSet(requests)'
    BY <1>2, RoundTypes, DecideTypes, ExchangeTypes, ReplyTypes DEF SerialThread
  <2>2. QED
    BY <1>2, <2>1, LinePromise, ArmsPromise, LeasePromise, SettingPromise DEF IInv
<1>3. CASE World
  BY <1>3, WorldTypes, WorldPromises DEF IInv, Promises
<1>4. CASE UNCHANGED vars
  BY <1>4 DEF vars, operator, trialVars, serial, http, boardVars, IInv, TypeOK, OperatorType, TrialType,
              SerialType, HttpType, BoardType, LineOnItsWay, IntentIsOfThisArm, StopsPrecedeArm,
              ArmIsLaterThan, DriveIsLater, StopIsLast, ManualLease, TrialComesFirst, Idle,
              ParametersKnown, ChangeIsNoticed, CompleteIsOfOneSetting
<1>5. QED
  BY <1>1, <1>2, <1>3, <1>4 DEF Next

\* The invariant holds of every behaviour of browsers, serial thread and board.
THEOREM Invariance == Spec => []IInv
<1>1. Init => IInv
  BY InitInv
<1>2. IInv /\ [Next]_vars => IInv'
  BY NextInv
<1>3. QED
  BY <1>1, <1>2, PTL DEF Spec

-----------------------------------------------------------------------------
(* What the server promises. *)

\* The types of what server.py keeps; the queue is never longer than its maxsize (request).
THEOREM TypeCorrect == Spec => []TypeOK
<1>1. IInv => TypeOK
  BY DEF IInv
<1>2. QED
  BY <1>1, Invariance, PTL

\* Whatever stands between an HTTP thread that presses stop and the board, once the stop has
\* been executed the board drives on orders of a later arm only (operator, request, _run).
THEOREM StopAlwaysLast == Spec => []StopIsLast
<1>1. IInv => StopIsLast
  BY DEF IInv
<1>2. QED
  BY <1>1, Invariance, PTL

\* What a browser or a trial ordered under one arm is never driven under the next.
THEOREM OrdersAlwaysOfThisArm == Spec => []OrdersAreOfThisArm
<1>1. IInv => OrdersAreOfThisArm
  BY DEF IInv, IntentIsOfThisArm, OrdersAreOfThisArm
<1>2. QED
  BY <1>1, Invariance, PTL

\* No trial is recorded as complete that drove or settled under two sets of parameters,
\* whenever a configuration is queued (_tick_trial_locked).
THEOREM CompleteAlwaysOfOneSetting == Spec => []CompleteIsOfOneSetting
<1>1. IInv => CompleteIsOfOneSetting
  BY DEF IInv
<1>2. QED
  BY <1>1, Invariance, PTL

\* A manual drive line is chosen within the 200 ms of the message it stands for, though the
\* presence a trial needs lasts longer and is kept in the same variable (intent_until).
THEOREM ManualAlwaysFresh == Spec => ManualIsFresh
<1> DEFINE Chosen == pc = "decide" /\ pc' = "sent" /\ line'.kind = "drive" /\ line'.order.by = "manual" =>
                         line'.order.age < MANUAL_LEASE
<1>1. IInv /\ [Next]_vars => [Chosen]_vars
  <2> SUFFICES ASSUME IInv, Next, pc = "decide", pc' = "sent", line'.kind = "drive",
                      line'.order.by = "manual"
               PROVE  line'.order.age < MANUAL_LEASE
    OBVIOUS
  <2>1. DecideDrive
    <3>1. \A kind, task : Line(kind, task).order.by # "manual"
      BY DEF Line, NoIntent
    <3>2. ~Http /\ ~World
      BY DEF Http, Operator, Arm, Drive, Release, TakeOver, Presence, BeginTrial, Owns, Press, Configure, Put,
             Save, Saved, LockFree, World, Tick, BoardRests, BoardCalibrates, BoardStops, BoardOnly, serial
    <3>3. DecideTick \/ DecideExpired \/ DecideDrive \/ DecideRelease \/ DecideNothing
      BY <3>2 DEF Next, SerialThread, Top, NothingToTick, SequenceAborts, SequencePauses, SequenceGoesOn,
                  SequenceHolds, TrialAborts, TrialPrepares, TrialDrives, TrialSettles, TrialRests, TrialHolds,
                  Exchange, Breaks, Rejected, Bind, Begin, Serve, Finally, Close
    <3>4. QED
      BY <3>1, <3>3 DEF DecideTick, DecideExpired, DecideRelease, DecideNothing, Write, GoTo, Stop
  <2>2. line'.order = intent /\ lease > 0 /\ (control = "none" \/ Held # "none")
    BY <2>1 DEF DecideDrive, Write, Line, Held
  <2>3. trial = NoTrial /\ lease + intent.age <= MANUAL_LEASE
    BY <2>1, <2>2 DEF IInv, DecideDrive, Held, TrialComesFirst, Idle, ManualLease
  <2>4. lease \in Nat /\ intent.age \in Nat
    BY ServerAssumption DEF IInv, TypeOK, OperatorType, Intents, NoIntent
  <2>5. QED
    BY <2>2, <2>3, <2>4, ServerAssumption
<1>2. QED
  BY <1>1, Invariance, PTL DEF Spec, ManualIsFresh

=============================================================================
