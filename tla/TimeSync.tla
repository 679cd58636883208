------------------------------ MODULE TimeSync ------------------------------
(***************************************************************************)
(* The board's estimate of host wall time: time_sync.c, its callers in     *)
(* ros.c and the server tools/time_sync_host.py, over a network that       *)
(* loses, duplicates, delays and reorders both messages.                   *)
(*                                                                         *)
(* All times are nanoseconds.  The board reads a microsecond counter, so   *)
(* `local` is a multiple of US_NS and `phase` is the part the counter does *)
(* not show.  The host reads `wall`, which an operator may set at any      *)
(* time.  Both clocks run at the same rate.  No message outlives a reset   *)
(* of the board: the USB link and the Zenoh session are opened anew.       *)
(***************************************************************************)
EXTENDS Integers, FiniteSets

CONSTANTS
    US_NS,          \* 1000, nanoseconds in a microsecond
    MAX_RTT,        \* TIME_SYNC_MAX_RTT_US
    TIMEOUT,        \* TIME_SYNC_TIMEOUT_MS
    PERIOD,         \* 1000000 / TIME_SYNC_HZ
    HOST_TIMEOUT,   \* ROS_HOST_RESTART_TIMEOUT_MS
    MAX_ROS,        \* MAX_ROS_NS, the end of ROS time
    INT_MAX,        \* INT64_MAX
    WALLS,          \* bound: host times at the first power-up
    CLOCK_STEPS,    \* bound: by how much the host's clock may be set
    STEP_GAP,       \* bound: how long it is left alone after that
    MAX_LOCAL,      \* bound: how long a boot is followed
    MAX_WALL,       \* bound: the host times that are explored
    MAX_IN_FLIGHT   \* bound: messages of each kind on their way

ASSUME TimeSyncAssumption ==
    /\ US_NS \in Nat \ {0}
    /\ MAX_RTT \in Nat
    /\ TIMEOUT \in Nat
    /\ PERIOD \in Nat \ {0}
    /\ HOST_TIMEOUT \in Nat
    /\ INT_MAX \in Nat
    /\ MAX_ROS \in 0 .. INT_MAX
    /\ WALLS \subseteq Nat
    /\ CLOCK_STEPS \subseteq Int
    /\ STEP_GAP \in Nat
    /\ MAX_LOCAL \in Nat
    /\ MAX_WALL \in Nat
    /\ MAX_IN_FLIGHT \in Nat

VARIABLES
    local, phase,   \* the board's clock
    wall,           \* the host's clock
    next_request,
    request,        \* clock.request_us
    pending,        \* clock.pending
    synced,         \* clock.synced, and host_seen, which is set with it
    last_sync,      \* clock.last_sync_us, and last_host_response_us
    offset,         \* clock.offset_ns
    requests,       \* probes on their way to the host
    serving,        \* the probe on_request is at work on, or Idle
    replies,        \* responses on their way to the board
    sync_from,      \* observer: when the probe of the last sync was sent
    step_at         \* observer: when the host's clock was last set, or NoStep

board == <<next_request, request, pending, synced, last_sync, offset>>
network == <<requests, serving, replies>>
vars == <<local, phase, wall, board, network, sync_from, step_at>>

Idle == [echo |-> -1, receive |-> -1]
NoStep == -1
Reply == [echo : Nat, receive : Int, send : Int]

TypeOK ==
    /\ local \in Nat /\ phase \in 0 .. US_NS - 1 /\ wall \in Nat
    /\ next_request \in Nat /\ request \in Nat /\ pending \in BOOLEAN
    /\ synced \in BOOLEAN /\ last_sync \in 0 .. INT_MAX
    /\ offset \in -INT_MAX .. MAX_ROS
    /\ requests \subseteq Nat
    /\ serving \in [echo : Nat, receive : Int] \cup {Idle}
    /\ replies \subseteq Reply
    /\ sync_from \in Nat /\ step_at \in Nat \cup {NoStep}

\* time_sync_init, at power-up.
BoardInit ==
    /\ local = 0 /\ phase = 0
    /\ next_request = 0 /\ request = 0 /\ pending = FALSE
    /\ synced = FALSE /\ last_sync = 0 /\ offset = 0
    /\ requests = {} /\ serving = Idle /\ replies = {}
    /\ sync_from = 0 /\ step_at = NoStep

Init == BoardInit /\ wall \in WALLS

-----------------------------------------------------------------------------
(* The board *)

\* time_sync_update with time_sync_start: a new probe replaces the one it waits for.
Probe ==
    /\ local >= next_request
    /\ Cardinality(requests) < MAX_IN_FLIGHT
    /\ next_request' = local + PERIOD
    /\ request' = local
    /\ pending' = TRUE
    /\ requests' = requests \cup {local}
    /\ UNCHANGED <<local, phase, wall, synced, last_sync, offset, serving, replies,
                   sync_from, step_at>>

Elapsed == local - request
Processing(m) == m.send - m.receive
HalfNetwork(m) == (Elapsed - Processing(m)) \div 2

\* Mutant: a late answer is taken.
Accepts_AnyDelay(m) ==
    /\ pending /\ m.echo = request
    /\ local <= INT_MAX
    /\ 0 < m.receive /\ m.receive <= m.send /\ m.send <= MAX_ROS
    /\ Processing(m) <= Elapsed
    /\ m.send <= MAX_ROS - HalfNetwork(m)

\* The conditions time_sync_accept puts on an answer.
Accepts(m) ==
    /\ pending /\ m.echo = request
    /\ local <= INT_MAX
    /\ 0 < m.receive /\ m.receive <= m.send /\ m.send <= MAX_ROS
    /\ Elapsed <= MAX_RTT
    /\ Processing(m) <= Elapsed
    /\ m.send <= MAX_ROS - HalfNetwork(m)

\* Mutant: the same answer is taken again and again.
Accept_StillPending(m) ==
    /\ m \in replies
    /\ Accepts(m)
    /\ offset' = m.send + HalfNetwork(m) - local
    /\ last_sync' = local
    /\ synced' = TRUE
    /\ sync_from' = request
    /\ UNCHANGED <<local, phase, wall, next_request, request, pending, network, step_at>>

\* on_time_sync.  An answer that is not accepted changes nothing, and the message
\* stays in flight: it may arrive again.
Accept(m) ==
    /\ m \in replies
    /\ Accepts(m)
    /\ offset' = m.send + HalfNetwork(m) - local
    /\ last_sync' = local
    /\ synced' = TRUE
    /\ pending' = FALSE
    /\ sync_from' = request
    /\ UNCHANGED <<local, phase, wall, next_request, request, network, step_at>>

\* Mutant: an estimate does not expire.
Stamped_Forever ==
    /\ synced
    /\ local <= INT_MAX
    /\ local + offset \in 0 .. MAX_ROS

\* time_sync_time returns true, and the time it returns.
Stamped ==
    /\ synced
    /\ local - last_sync < TIMEOUT
    /\ local <= INT_MAX
    /\ offset > 0 => local <= INT_MAX - offset
    /\ local + offset \in 0 .. MAX_ROS

Stamp == local + offset

\* The board starts again: on a silent host, or because it was reset.
Reboot ==
    /\ local' = 0 /\ phase' = 0
    /\ next_request' = 0 /\ request' = 0 /\ pending' = FALSE
    /\ synced' = FALSE /\ last_sync' = 0 /\ offset' = 0
    /\ requests' = {} /\ serving' = Idle /\ replies' = {}
    /\ sync_from' = 0 /\ step_at' = NoStep
    /\ UNCHANGED wall

\* ros_update, restart_for_connection_loss: only a host that once answered is missed.
HostExpired ==
    /\ synced
    /\ local - last_sync >= HOST_TIMEOUT
    /\ Reboot

-----------------------------------------------------------------------------
(* The host: on_request of TimeSyncHost reads its clock twice. *)

HostReceive(r) ==
    /\ r \in requests
    /\ serving = Idle
    /\ serving' = [echo |-> r, receive |-> wall]
    /\ UNCHANGED <<local, phase, wall, board, requests, replies, sync_from, step_at>>

HostSend ==
    /\ serving # Idle
    /\ Cardinality(replies) < MAX_IN_FLIGHT
    /\ replies' = replies \cup
           {[echo |-> serving.echo, receive |-> serving.receive, send |-> wall]}
    /\ serving' = Idle
    /\ UNCHANGED <<local, phase, wall, board, requests, sync_from, step_at>>

-----------------------------------------------------------------------------
(* The world *)

LoseRequest(r) ==
    /\ r \in requests
    /\ requests' = requests \ {r}
    /\ UNCHANGED <<local, phase, wall, board, serving, replies, sync_from, step_at>>

LoseReply(m) ==
    /\ m \in replies
    /\ replies' = replies \ {m}
    /\ UNCHANGED <<local, phase, wall, board, requests, serving, sync_from, step_at>>

\* The host's clock is set.
StepClock(d) ==
    /\ step_at # NoStep => local - step_at >= STEP_GAP
    /\ wall + d \in 0 .. MAX_WALL
    /\ wall' = wall + d
    /\ step_at' = local
    /\ UNCHANGED <<local, phase, board, network, sync_from>>

Tick ==
    /\ local < MAX_LOCAL /\ wall < MAX_WALL
    /\ wall' = wall + 1
    /\ \/ /\ phase + 1 < US_NS
          /\ phase' = phase + 1
          /\ UNCHANGED local
       \/ /\ phase + 1 = US_NS
          /\ phase' = 0
          /\ local' = local + US_NS
    /\ UNCHANGED <<board, network, sync_from, step_at>>

Next ==
    \/ Probe
    \/ \E m \in replies : Accept(m) \/ LoseReply(m)
    \/ \E r \in requests : HostReceive(r) \/ LoseRequest(r)
    \/ HostSend
    \/ HostExpired
    \/ Reboot
    \/ \E d \in CLOCK_STEPS : StepClock(d)
    \/ Tick

Spec == Init /\ [][Next]_vars

-----------------------------------------------------------------------------
(* What a stamp is worth. *)

\* Half of the longest round trip that is accepted, and what a microsecond hides.
MAX_ERROR == (MAX_RTT + 1) \div 2 + US_NS - 1

Accurate == Stamp - wall \in -MAX_ERROR .. MAX_ERROR

\* A stamp is off by at most half the longest round trip and a microsecond, however
\* unevenly the delay was spread, whatever late or repeated answers arrived and however
\* long the host took to answer, if the host's clock was not set since the probe.
StampIsAccurate == Stamped /\ step_at < sync_from => Accurate

\* A step of the host's clock, even one in the middle of an exchange, is gone from the
\* stamps after TIMEOUT and one round trip: an estimate that old has expired.
StampsRecover ==
    Stamped /\ (step_at = NoStep \/ local - step_at >= TIMEOUT + MAX_RTT) => Accurate

\* Why a stamp is right.  HostOffset is what the host's clock is really ahead of the
\* board's.  A message made since the host's clock was last set carries host times from
\* between the probe it answers and now, and so pins the offset down.
HostOffset == wall - local - phase

ProbesInOrder ==
    /\ request <= local /\ step_at <= local
    /\ pending => request < next_request
    /\ synced =>
        /\ sync_from <= last_sync /\ last_sync <= local
        /\ last_sync - sync_from <= MAX_RTT
        /\ sync_from < next_request
        /\ pending => sync_from < request

MessagesAreTrue ==
    /\ \A r \in requests : r <= local
    /\ serving.echo <= local
    /\ step_at < serving.echo =>
        serving.echo + HostOffset <= serving.receive /\ serving.receive <= wall
    /\ \A m \in replies : m.echo <= local
    /\ \A m \in replies : step_at < m.echo =>
        m.echo + HostOffset <= m.receive /\ m.send <= wall

SyncIsTrue ==
    synced /\ step_at < sync_from =>
        /\ offset - HostOffset >= -((MAX_RTT + 1) \div 2)
        /\ offset - HostOffset <= MAX_RTT \div 2 + US_NS - 1

IInv == TypeOK /\ ProbesInOrder /\ MessagesAreTrue /\ SyncIsTrue

\* One probe is good for one synchronisation, and they follow the order of the probes.
OneSyncPerProbe ==
    [][(last_sync' # last_sync \/ offset' # offset) /\ synced'
       => sync_from' = request /\ (synced => sync_from' > sync_from)]_vars
=============================================================================
