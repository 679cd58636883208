-------------------------- MODULE TimeSync_proofs ---------------------------
(***************************************************************************)
(* The board's stamps are accurate for every round-trip limit, expiry and  *)
(* probe period, and over any network.                                     *)
(***************************************************************************)
EXTENDS TimeSync, TLAPS

\* The arithmetic of the exchange.  A probe left at `sent`, was answered between
\* `receive` and `send` on the host's clock, and the answer came at `now` and `phase`.
\* Then the midpoint estimate misses the true offset by at most half of the network time.
LEMMA MidpointEstimate ==
    ASSUME NEW sent \in Int, NEW now \in Int, NEW phi \in Nat, NEW truth \in Int,
           NEW receive \in Int, NEW send \in Int, NEW half \in Int,
           send <= now + phi + truth,
           sent + truth <= receive, receive <= send,
           now - sent <= MAX_RTT, phi <= US_NS - 1,
           send - receive <= now - sent,
           half = ((now - sent) - (send - receive)) \div 2
    PROVE  /\ (send + half - now) - truth >= -((MAX_RTT + 1) \div 2)
           /\ (send + half - now) - truth <= MAX_RTT \div 2 + US_NS - 1
<1> DEFINE net == (now - sent) - (send - receive)
<1>1. net \in Nat /\ net <= MAX_RTT /\ MAX_RTT \in Nat /\ US_NS \in Nat
  BY TimeSyncAssumption
<1>2. half <= MAX_RTT \div 2 /\ net - half <= (MAX_RTT + 1) \div 2
  <2>1. half = net \div 2
    OBVIOUS
  <2> HIDE DEF net
  <2>2. QED
    BY <1>1, <2>1
<1>3. (send + half - now) - truth >= half - net
  OBVIOUS
<1>4. (send + half - now) - truth <= half + phi
  OBVIOUS
<1>5. net \in Int /\ MAX_RTT \div 2 \in Int /\ (MAX_RTT + 1) \div 2 \in Int
  BY <1>1
<1> HIDE DEF net
<1>6. QED
  BY <1>1, <1>2, <1>3, <1>4, <1>5

\* Zero is a value of every clock.
LEMMA ZeroTypes ==
    /\ 0 \in 0 .. US_NS - 1 /\ 0 \in 0 .. INT_MAX /\ 0 \in -INT_MAX .. MAX_ROS
    /\ WALLS \subseteq Nat
<1>1. US_NS - 1 >= 0 /\ US_NS \in Nat /\ INT_MAX \in Nat /\ MAX_ROS \in Nat /\ WALLS \subseteq Nat
  BY TimeSyncAssumption
<1>2. QED
  BY <1>1

\* The board powers up in the invariant.
LEMMA InitInv == Init => IInv
<1> SUFFICES ASSUME Init PROVE IInv
  OBVIOUS
<1>1. TypeOK
  BY ZeroTypes DEF Init, BoardInit, TypeOK, Idle, NoStep
<1>2. QED
  BY <1>1 DEF Init, BoardInit, IInv, TypeOK, ProbesInOrder, MessagesAreTrue, SyncIsTrue,
              Idle, NoStep

\* A new probe is the youngest of all.
LEMMA ProbeInv ==
    ASSUME IInv, Probe
    PROVE  IInv'
<1>1. TypeOK'
  BY TimeSyncAssumption DEF IInv, TypeOK, Probe
<1>2. ProbesInOrder'
  BY TimeSyncAssumption DEF IInv, TypeOK, ProbesInOrder, Probe, NoStep
<1>3. MessagesAreTrue'
  BY DEF IInv, TypeOK, MessagesAreTrue, Probe, HostOffset
<1>4. SyncIsTrue'
  BY DEF IInv, SyncIsTrue, Probe, HostOffset
<1>5. QED
  BY <1>1, <1>2, <1>3, <1>4 DEF IInv

\* An accepted answer gives an offset that is right to within half a round trip.
LEMMA AcceptInv ==
    ASSUME IInv, NEW m \in replies, Accept(m)
    PROVE  IInv'
<1>0. /\ m.echo \in Nat /\ m.receive \in Int /\ m.send \in Int
      /\ local \in Nat /\ phase \in 0 .. US_NS - 1 /\ wall \in Nat /\ request \in Nat
      /\ step_at \in Int /\ request <= local
  BY DEF IInv, TypeOK, Reply, NoStep, ProbesInOrder
<1>1. HalfNetwork(m) \in Nat
  BY <1>0 DEF Accept, Accepts, HalfNetwork, Elapsed, Processing
<1>2. TypeOK'
  <2>1. offset' = m.send + HalfNetwork(m) - local /\ last_sync' = local
    BY DEF Accept
  <2>2. /\ m.send <= MAX_ROS - HalfNetwork(m) /\ 0 < m.send
        /\ local <= INT_MAX /\ MAX_ROS \in Int /\ INT_MAX \in Int
    BY <1>0, TimeSyncAssumption DEF Accept, Accepts
  <2>3. offset' \in -INT_MAX .. MAX_ROS /\ last_sync' \in 0 .. INT_MAX
    BY <2>1, <2>2, <1>0, <1>1
  <2>4. QED
    BY <1>0, <2>1, <2>2, <2>3 DEF IInv, TypeOK, Accept, network
<1>3. ProbesInOrder'
  BY <1>0 DEF IInv, ProbesInOrder, Accept, Accepts, Elapsed, TypeOK
<1>4. MessagesAreTrue'
  BY DEF IInv, MessagesAreTrue, Accept, HostOffset, network
<1>5. SyncIsTrue'
  <2> SUFFICES ASSUME step_at < request
               PROVE  /\ offset' - HostOffset >= -((MAX_RTT + 1) \div 2)
                      /\ offset' - HostOffset <= MAX_RTT \div 2 + US_NS - 1
    BY DEF SyncIsTrue, Accept, HostOffset
  <2>1. /\ request + HostOffset <= m.receive /\ m.send <= wall
        /\ local - request <= MAX_RTT
        /\ m.send - m.receive <= local - request /\ m.receive <= m.send
    BY DEF IInv, MessagesAreTrue, Accept, Accepts, Elapsed, Processing
  <2>2. /\ phase \in Nat /\ phase <= US_NS - 1 /\ HostOffset \in Int
        /\ wall = local + phase + HostOffset
    BY <1>0, TimeSyncAssumption DEF HostOffset
  <2>3. /\ offset' = m.send + HalfNetwork(m) - local
        /\ HalfNetwork(m) = ((local - request) - (m.send - m.receive)) \div 2
    BY DEF Accept, HalfNetwork, Elapsed, Processing
  <2>4. m.send <= local + phase + HostOffset
    BY <2>1, <2>2
  <2>5. /\ (m.send + HalfNetwork(m) - local) - HostOffset >= -((MAX_RTT + 1) \div 2)
        /\ (m.send + HalfNetwork(m) - local) - HostOffset <= MAX_RTT \div 2 + US_NS - 1
    <3> DEFINE receive == m.receive  send == m.send  half == HalfNetwork(m)
               truth == HostOffset
    <3>1. /\ request \in Int /\ local \in Int /\ phase \in Nat /\ truth \in Int
          /\ receive \in Int /\ send \in Int /\ half \in Int
      BY <1>0, <1>1, <2>2
    <3>2. /\ send <= local + phase + truth /\ request + truth <= receive /\ receive <= send
          /\ local - request <= MAX_RTT /\ phase <= US_NS - 1
          /\ send - receive <= local - request
          /\ half = ((local - request) - (send - receive)) \div 2
      BY <2>1, <2>2, <2>3, <2>4
    <3> HIDE DEF receive, send, half, truth
    <3>3. /\ (send + half - local) - truth >= -((MAX_RTT + 1) \div 2)
          /\ (send + half - local) - truth <= MAX_RTT \div 2 + US_NS - 1
      BY <3>1, <3>2, MidpointEstimate
    <3>4. QED
      BY <3>3 DEF receive, send, half, truth
  <2>6. QED
    BY <2>3, <2>5
<1>6. QED
  BY <1>2, <1>3, <1>4, <1>5 DEF IInv

\* The host reads its clock at and after the time a probe reached it.
LEMMA HostInv ==
    ASSUME IInv, HostSend \/ \E r \in requests : HostReceive(r)
    PROVE  IInv'
<1>0. local \in Nat /\ phase \in Nat /\ wall \in Nat /\ step_at \in Int
      /\ requests \subseteq Nat /\ \A r \in requests : r <= local
  BY TimeSyncAssumption DEF IInv, TypeOK, MessagesAreTrue, NoStep
<1>1. CASE \E r \in requests : HostReceive(r)
  <2>1. PICK r \in requests : HostReceive(r)
    BY <1>1
  <2>2. TypeOK' /\ ProbesInOrder' /\ SyncIsTrue'
    BY <2>1, <1>0 DEF IInv, TypeOK, ProbesInOrder, SyncIsTrue, HostOffset, HostReceive, board
  <2>3. r + HostOffset <= wall
    BY <1>0 DEF HostOffset
  <2>4. MessagesAreTrue'
    BY <2>1, <2>3, <1>0 DEF IInv, MessagesAreTrue, HostReceive, HostOffset
  <2>5. QED
    BY <2>2, <2>4 DEF IInv
<1>2. CASE HostSend
  <2>1. serving.echo \in Nat /\ serving.receive \in Int
    BY <1>2 DEF HostSend, IInv, TypeOK
  <2> DEFINE answer == [echo |-> serving.echo, receive |-> serving.receive, send |-> wall]
  <2>2. answer \in Reply
    BY <2>1, <1>0 DEF Reply
  <2>3. TypeOK' /\ ProbesInOrder' /\ SyncIsTrue'
    BY <1>2, <2>2 DEF IInv, TypeOK, ProbesInOrder, SyncIsTrue, HostOffset, HostSend, board
  <2>4. MessagesAreTrue'
    <3>1. step_at < answer.echo =>
            answer.echo + HostOffset <= answer.receive /\ answer.send <= wall
      BY <1>0 DEF IInv, MessagesAreTrue
    <3>2. serving'.echo = -1 /\ ~(step_at < -1)
      BY <1>2 DEF HostSend, Idle, IInv, TypeOK, NoStep
    <3>3. replies' = replies \cup {answer} /\ answer.echo <= local /\ -1 <= local
      BY <1>2, <1>0 DEF HostSend, IInv, MessagesAreTrue
    <3> HIDE DEF answer
    <3>4. QED
      BY <1>2, <3>1, <3>2, <3>3 DEF IInv, MessagesAreTrue, HostSend, HostOffset
  <2>5. QED
    BY <2>3, <2>4 DEF IInv
<1>3. QED
  BY <1>1, <1>2

\* Losing a message, setting the host's clock and a restart only take claims away.
LEMMA WorldInv ==
    ASSUME IInv,
           \/ \E r \in requests : LoseRequest(r)
           \/ \E m \in replies : LoseReply(m)
           \/ \E d \in CLOCK_STEPS : StepClock(d)
           \/ Reboot
    PROVE  IInv'
<1>1. CASE \E r \in requests : LoseRequest(r)
  BY <1>1 DEF IInv, TypeOK, ProbesInOrder, MessagesAreTrue, SyncIsTrue, HostOffset,
              LoseRequest, board
<1>2. CASE \E m \in replies : LoseReply(m)
  BY <1>2 DEF IInv, TypeOK, ProbesInOrder, MessagesAreTrue, SyncIsTrue, HostOffset,
              LoseReply, board
<1>3. CASE \E d \in CLOCK_STEPS : StepClock(d)
  <2>1. /\ local \in Nat /\ step_at' = local /\ wall' \in 0 .. MAX_WALL
        /\ UNCHANGED <<local, phase, board, network, sync_from>>
    BY <1>3 DEF StepClock, IInv, TypeOK
  <2>2. TypeOK' /\ ProbesInOrder'
    BY <2>1, TimeSyncAssumption DEF IInv, TypeOK, ProbesInOrder, board, network
  <2>3. \A m \in replies : m.echo \in Nat /\ (step_at < m.echo \/ m.echo <= step_at)
    BY DEF IInv, TypeOK, Reply, NoStep
  <2>4. serving.echo <= local /\ \A m \in replies : m.echo <= local
    BY DEF IInv, MessagesAreTrue
  <2>5. serving.echo \in Int
    BY DEF IInv, TypeOK, Idle
  <2>6. MessagesAreTrue'
    BY <2>1, <2>3, <2>4, <2>5 DEF IInv, MessagesAreTrue, network
  <2>7. SyncIsTrue'
    BY <2>1 DEF IInv, TypeOK, ProbesInOrder, SyncIsTrue, board
  <2>8. QED
    BY <2>2, <2>6, <2>7 DEF IInv
<1>4. CASE Reboot
  <2>1. TypeOK'
    BY <1>4, ZeroTypes DEF Reboot, IInv, TypeOK, Idle, NoStep
  <2>2. QED
    BY <1>4, <2>1 DEF Reboot, IInv, TypeOK, ProbesInOrder, MessagesAreTrue, SyncIsTrue,
                      Idle, NoStep
<1>5. QED
  BY <1>1, <1>2, <1>3, <1>4

\* Both clocks move together: the offset between them stands still.
LEMMA TickInv ==
    ASSUME IInv, Tick
    PROVE  IInv'
<1>0. /\ local \in Nat /\ phase \in 0 .. US_NS - 1 /\ wall \in Nat /\ US_NS \in Nat \ {0}
  BY TimeSyncAssumption DEF IInv, TypeOK
<1>1. /\ local' \in Nat /\ phase' \in 0 .. US_NS - 1 /\ wall' = wall + 1
      /\ local <= local' /\ wall' - local' - phase' = wall - local - phase
      /\ UNCHANGED <<board, network, sync_from, step_at>>
  BY <1>0 DEF Tick
<1>2. TypeOK'
  BY <1>0, <1>1 DEF IInv, TypeOK, board, network
<1>3. ProbesInOrder'
  BY <1>0, <1>1 DEF IInv, TypeOK, ProbesInOrder, board, NoStep
<1>4. MessagesAreTrue'
  <2>1. HostOffset' = HostOffset
    BY <1>1 DEF HostOffset
  <2>2. /\ requests \subseteq Nat /\ serving.echo \in Int /\ serving.receive \in Int
        /\ \A m \in replies : m.echo \in Int /\ m.send \in Int
    BY DEF IInv, TypeOK, Reply, Idle
  <2>3. local' \in Int /\ wall' \in Int
    BY <1>0, <1>1
  <2>4. QED
    BY <1>0, <1>1, <2>1, <2>2, <2>3 DEF IInv, MessagesAreTrue, network
<1>5. SyncIsTrue'
  BY <1>1 DEF IInv, SyncIsTrue, HostOffset, board
<1>6. QED
  BY <1>2, <1>3, <1>4, <1>5 DEF IInv

\* IInv is inductive.
LEMMA NextInv == IInv /\ [Next]_vars => IInv'
<1> SUFFICES ASSUME IInv, [Next]_vars PROVE IInv'
  OBVIOUS
<1>1. CASE Probe
  BY <1>1, ProbeInv
<1>2. CASE \E m \in replies : Accept(m)
  BY <1>2, AcceptInv
<1>3. CASE HostSend \/ \E r \in requests : HostReceive(r)
  BY <1>3, HostInv
<1>4. CASE \/ \E r \in requests : LoseRequest(r)
           \/ \E m \in replies : LoseReply(m)
           \/ \E d \in CLOCK_STEPS : StepClock(d)
           \/ Reboot \/ HostExpired
  BY <1>4, WorldInv DEF HostExpired
<1>5. CASE Tick
  BY <1>5, TickInv
<1>6. CASE UNCHANGED vars
  BY <1>6 DEF vars, board, network, IInv, TypeOK, ProbesInOrder, MessagesAreTrue,
              SyncIsTrue, HostOffset
<1>7. QED
  BY <1>1, <1>2, <1>3, <1>4, <1>5, <1>6 DEF Next

\* The invariant holds of every behaviour of board, host and network.
THEOREM Invariance == Spec => []IInv
BY InitInv, NextInv, PTL DEF Spec

\* Every variable keeps its type; the offset never leaves the range its sum needs.
THEOREM TypeCorrect == Spec => []TypeOK
<1>1. IInv => TypeOK
  BY DEF IInv
<1>2. QED
  BY <1>1, Invariance, PTL

\* What a true synchronisation makes of a stamp.
LEMMA TrueSyncIsAccurate ==
    ASSUME IInv, synced, step_at < sync_from
    PROVE  Accurate
<1>1. /\ offset - HostOffset >= -((MAX_RTT + 1) \div 2)
      /\ offset - HostOffset <= MAX_RTT \div 2 + US_NS - 1
  BY DEF IInv, SyncIsTrue
<1>2. /\ offset \in Int /\ HostOffset \in Int /\ local \in Int /\ wall \in Int
      /\ phase \in 0 .. US_NS - 1 /\ US_NS \in Nat /\ MAX_RTT \in Nat
      /\ Stamp - wall = offset - HostOffset - phase
  BY TimeSyncAssumption DEF IInv, TypeOK, HostOffset, Stamp
<1>3. MAX_RTT \div 2 <= (MAX_RTT + 1) \div 2 /\ MAX_RTT \div 2 \in Int
      /\ (MAX_RTT + 1) \div 2 \in Int
  BY <1>2
<1>4. QED
  BY <1>1, <1>2, <1>3 DEF Accurate, MAX_ERROR

\* Stamps are accurate whatever the network does (time_sync_accept, time_sync_time).
THEOREM StampsAreAccurate == Spec => []StampIsAccurate
<1>1. IInv => StampIsAccurate
  BY TrueSyncIsAccurate DEF StampIsAccurate, Stamped
<1>2. QED
  BY <1>1, Invariance, PTL

\* A step of the host's clock is gone from the stamps after the expiry and one round
\* trip (the age test of time_sync_time with the delay test of time_sync_accept).
THEOREM StampsDoRecover == Spec => []StampsRecover
<1>1. IInv => StampsRecover
  <2> SUFFICES ASSUME IInv, Stamped,
                      step_at = NoStep \/ local - step_at >= TIMEOUT + MAX_RTT
               PROVE  Accurate
    BY DEF StampsRecover
  <2>1. /\ local \in Int /\ last_sync \in Int /\ sync_from \in Nat
        /\ step_at \in Int /\ TIMEOUT \in Int /\ MAX_RTT \in Int
    BY TimeSyncAssumption DEF IInv, TypeOK, NoStep
  <2>2. synced /\ local - last_sync < TIMEOUT /\ last_sync - sync_from <= MAX_RTT
    BY DEF Stamped, IInv, ProbesInOrder
  <2>3. step_at < sync_from
    BY <2>1, <2>2 DEF NoStep
  <2>4. QED
    BY <2>2, <2>3, TrueSyncIsAccurate
<1>2. QED
  BY <1>1, Invariance, PTL

\* Late and repeated answers never move the clock: each synchronisation is a newer
\* probe's (the pending flag and the echo of time_sync_accept).
THEOREM SyncsAreNew == Spec => OneSyncPerProbe
<1>1. IInv /\ [Next]_vars =>
        [(last_sync' # last_sync \/ offset' # offset) /\ synced'
         => sync_from' = request /\ (synced => sync_from' > sync_from)]_vars
  <2> SUFFICES ASSUME IInv, Next, last_sync' # last_sync \/ offset' # offset, synced'
               PROVE  sync_from' = request /\ (synced => sync_from' > sync_from)
    OBVIOUS
  <2>1. PICK m \in replies : Accept(m)
    BY DEF Next, Probe, LoseReply, HostReceive, LoseRequest, HostSend, HostExpired, Reboot,
           StepClock, Tick, board
  <2>2. request \in Nat /\ sync_from \in Nat
    BY DEF IInv, TypeOK
  <2>3. QED
    BY <2>1, <2>2 DEF Accept, Accepts, IInv, ProbesInOrder
<1>2. QED
  BY <1>1, Invariance, PTL DEF Spec, OneSyncPerProbe
=============================================================================
