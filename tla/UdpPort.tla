------------------------------ MODULE UdpPort -------------------------------
(***************************************************************************)
(* The server's UDP control port: admission of new sources, and the KCP    *)
(* session that an admitted source then has.                               *)
(***************************************************************************)
EXTENDS Naturals, FiniteSets, Functions

(***************************************************************************)
(* The UDP control port (udp_control_listener of src/src/server.rs with    *)
(* the cookies of src/src/admission.rs): a source proves that it receives  *)
(* what is sent to it, waits as a pending admission, and opens a session   *)
(* with its first KCP datagram, taking one of the handshake permits that   *)
(* TCP connections take from too. Datagrams may be lost, delayed,          *)
(* duplicated and reordered: a cookie, once issued, may come back any      *)
(* number of times at any age. Times are ages, so nothing bounds a run.    *)
(***************************************************************************)
CONSTANTS
    Src,          \* source addresses
    MaxSessions,  \* MAX_UDP_SESSIONS
    MaxPending,   \* MAX_PENDING_UDP_ADMISSIONS
    MaxPermits,   \* permits of the handshake semaphore
    CookieTtl,    \* COOKIE_TTL
    AdmitTtl,     \* UDP_ADMISSION_TTL
    SessionTtl,   \* UDP_SESSION_TTL
    HandTtl,      \* HANDSHAKE_TIMEOUT
    ControlMaxTasks      \* bound: connections served at once

ControlAssumption ==
    /\ MaxSessions \in Nat \ {0} /\ MaxPending \in Nat \ {0} /\ MaxPermits \in Nat \ {0}
    /\ AdmitTtl \in Nat \ {0} /\ CookieTtl \in Nat /\ CookieTtl >= AdmitTtl
    /\ SessionTtl \in Nat \ {0} /\ HandTtl \in Nat \ {0} /\ ControlMaxTasks \in Nat \ {0}

Tcp == "tcp"
ControlTask == 1..ControlMaxTasks

VARIABLES
    cookies,      \* source -> ages of the cookies issued to it not long expired
    pending,      \* source -> age of the cookie its admission rests on
    sessions,     \* source -> time since its last datagram
    permits,      \* free handshake permits
    tasks         \* connections: whose, what they do, for how long, of the mapped session or not

controlVars == <<cookies, pending, sessions, permits, tasks>>

Free == [src |-> Tcp, at |-> "free", age |-> 0, mapped |-> FALSE]

ControlTypeOK ==
    /\ cookies \in [Src -> SUBSET (0..CookieTtl + 1)]
    /\ DOMAIN pending \subseteq Src /\ \A s \in DOMAIN pending : pending[s] \in 0..AdmitTtl
    /\ DOMAIN sessions \subseteq Src /\ \A s \in DOMAIN sessions : sessions[s] \in 0..SessionTtl
    /\ permits \in 0..MaxPermits
    /\ \A t \in ControlTask : /\ tasks[t].src \in Src \cup {Tcp} /\ tasks[t].at \in {"free", "shake", "serve"}
                              /\ tasks[t].age \in 0..HandTtl /\ tasks[t].mapped \in BOOLEAN

ControlInit ==
    /\ cookies = [s \in Src |-> {}]
    /\ pending = <<>> /\ sessions = <<>>
    /\ permits = MaxPermits /\ tasks = [t \in ControlTask |-> Free]

Drop(f, S) == Restrict(f, DOMAIN f \ S)
Put(f, s, v) == [x \in DOMAIN f \cup {s} |-> IF x = s THEN v ELSE f[x]]
Expired == {s \in DOMAIN pending : pending[s] >= AdmitTtl}

\* The live count of the session the map holds for a source.
LiveTasks(s) == {t \in ControlTask : tasks[t].src = s /\ tasks[t].mapped /\ tasks[t].at # "free"}
Idle == {s \in DOMAIN sessions : LiveTasks(s) = {}}

admit_new_udp_session == Cardinality(DOMAIN sessions) < MaxSessions

\* A connection starts its handshake with a permit in hand.
Start(s) ==
    \E t \in ControlTask :
        /\ tasks[t] = Free
        /\ tasks' = [tasks EXCEPT ![t] = [src |-> s, at |-> "shake", age |-> 0, mapped |-> s # Tcp]]
        /\ permits' = permits - 1

-----------------------------------------------------------------------------
\* A hello is answered with a cookie bound to the source and the time.
Hello(s) ==
    /\ cookies' = [cookies EXCEPT ![s] = @ \cup {0}]
    /\ UNCHANGED <<pending, sessions, permits, tasks>>

\* The ages of the cookies of a source that verify; forged and foreign ones never do.
Verify(s) == {age \in cookies[s] : age <= CookieTtl}

\* record_udp_admission: expired entries go first; an expired cookie is refused, a newer one of a
\* waiting source replaces the older, and a new source needs room.
RecordUdpAdmission(s, age) ==
    LET kept == Drop(pending, Expired)
    IN  pending' = IF age < AdmitTtl /\ s \in DOMAIN kept /\ age < kept[s] THEN Put(kept, s, age)
                   ELSE IF age < AdmitTtl /\ s \notin DOMAIN kept /\ Cardinality(DOMAIN kept) < MaxPending
                        THEN Put(kept, s, age)
                        ELSE kept

\* An admit datagram with a cookie that still verifies, from a source without a session, below the cap.
Admit(s) ==
    /\ s \notin DOMAIN sessions /\ admit_new_udp_session
    /\ \E age \in Verify(s) : RecordUdpAdmission(s, age)
    /\ UNCHANGED <<cookies, sessions, permits, tasks>>

\* open_udp_session: an expired admission is forgotten; without a permit the source is refused and
\* its admission kept; otherwise the admission buys the session and its first conv.
OpenUdpSession(s) ==
    \/ /\ s \in Expired
       /\ pending' = Drop(pending, {s})
       /\ UNCHANGED <<sessions, permits, tasks>>
    \/ /\ s \notin Expired /\ permits > 0
       /\ pending' = Drop(pending, {s})
       /\ sessions' = Put(sessions, s, 0)
       /\ Start(s)

\* A KCP datagram of an unknown source.
First(s) ==
    /\ s \notin DOMAIN sessions /\ admit_new_udp_session /\ s \in DOMAIN pending
    /\ OpenUdpSession(s)
    /\ UNCHANGED cookies

\* A datagram of a known source refreshes its session; one that names a new conv opens it when a
\* permit is free.
Known(s) ==
    /\ s \in DOMAIN sessions
    /\ sessions' = [sessions EXCEPT ![s] = 0]
    /\ \/ permits > 0 /\ Start(s)
       \/ UNCHANGED <<permits, tasks>>
    /\ UNCHANGED <<cookies, pending>>

\* A TCP connection takes a permit for its handshake.
TcpAccept ==
    /\ permits > 0 /\ Start(Tcp)
    /\ UNCHANGED <<cookies, pending, sessions>>

\* A failed handshake keeps its permit.
HandshakeLeaks(t) ==
    /\ tasks[t].at = "shake"
    /\ \/ /\ tasks' = [tasks EXCEPT ![t] = [@ EXCEPT !.at = "serve", !.age = 0]]
          /\ permits' = permits + 1
       \/ /\ tasks' = [tasks EXCEPT ![t] = Free]
          /\ UNCHANGED permits
    /\ UNCHANGED <<cookies, pending, sessions>>

\* The handshake is served out with its permit in hand.
HandshakeHolds(t) ==
    /\ tasks[t].at = "shake" /\ tasks[t].age = HandTtl
    /\ tasks' = [tasks EXCEPT ![t].age = 0]
    /\ UNCHANGED <<cookies, pending, sessions, permits>>

\* The handshake is over: it succeeded and is served, or it failed. The permit goes back first.
HandshakeDone(t) ==
    /\ tasks[t].at = "shake"
    /\ permits' = permits + 1
    /\ \/ tasks' = [tasks EXCEPT ![t] = [@ EXCEPT !.at = "serve", !.age = 0]]
       \/ tasks' = [tasks EXCEPT ![t] = Free]
    /\ UNCHANGED <<cookies, pending, sessions>>

\* A served connection ends.
ServeEnds(t) ==
    /\ tasks[t].at = "serve"
    /\ tasks' = [tasks EXCEPT ![t] = Free]
    /\ UNCHANGED <<cookies, pending, sessions, permits>>

Stale == {s \in DOMAIN sessions : sessions[s] >= SessionTtl}

\* What the sweep evicts: sessions silent for their time to live or carrying nothing.
Swept == Stale \cup Idle

\* The sweep closes what it evicts, ending those tasks' connections, and forgets expired admissions.
Sweep ==
    /\ Swept \cup Expired # {}
    /\ sessions' = Drop(sessions, Swept)
    /\ pending' = Drop(pending, Expired)
    /\ tasks' = [t \in ControlTask |-> IF tasks[t].src \in Swept THEN [tasks[t] EXCEPT !.mapped = FALSE] ELSE tasks[t]]
    /\ UNCHANGED <<cookies, permits>>

\* A unit of time; a handshake at its deadline ends before the next.
Tick ==
    /\ \A t \in ControlTask : tasks[t].at = "shake" => tasks[t].age < HandTtl
    /\ cookies' = [s \in Src |-> {a + 1 : a \in cookies[s] \ {CookieTtl + 1}}]
    /\ pending' = [s \in DOMAIN pending |-> IF pending[s] < AdmitTtl THEN pending[s] + 1 ELSE AdmitTtl]
    /\ sessions' = [s \in DOMAIN sessions |-> IF sessions[s] < SessionTtl THEN sessions[s] + 1 ELSE SessionTtl]
    /\ tasks' = [t \in ControlTask |-> IF tasks[t].at = "shake" THEN [tasks[t] EXCEPT !.age = @ + 1] ELSE tasks[t]]
    /\ UNCHANGED permits

ControlNext ==
    \/ \E s \in Src : Hello(s) \/ Admit(s) \/ First(s) \/ Known(s)
    \/ \E t \in ControlTask : HandshakeDone(t) \/ ServeEnds(t)
    \/ TcpAccept \/ Sweep \/ Tick

ControlSpec == ControlInit /\ [][ControlNext]_controlVars

\* Time passes, a handshake at its deadline is ended by its timeout, and the sweep keeps its interval.
ControlDue(i, t) ==
    \/ i = 1 /\ Tick
    \/ i = 2 /\ Sweep
    \/ i = 3 /\ tasks[t].age = HandTtl /\ HandshakeDone(t)

-----------------------------------------------------------------------------
\* Every permit is free or held by a handshake in progress: no refusal, failure, timeout or eviction
\* loses one or returns it twice (open_udp_session, route_admitted, dispatch_accepted).
PermitsConserved == permits + Cardinality({t \in ControlTask : tasks[t].at = "shake"}) = MaxPermits

\* A session opens only within UDP_ADMISSION_TTL of a cookie issued to its source: replaying a
\* cookie, late or often, buys no more time (record_udp_admission).
OpenedByFreshCookie ==
    \A s \in DOMAIN sessions' \ DOMAIN sessions : \E age \in cookies[s] : age < AdmitTtl

\* An admission is given up only for a session or because it expired; a source refused for want of
\* a permit can still come back with the same admission (open_udp_session takes the permit first).
AdmissionBuysASession ==
    \A s \in DOMAIN pending \ DOMAIN pending' : s \in Expired \/ s \in DOMAIN sessions'

\* Fresh sources never cost an established one its session: a session leaves the map only when it is
\* silent for its time to live or carries nothing (admit_new_udp_session, the sweep).
EstablishedStay ==
    \A s \in DOMAIN sessions \ DOMAIN sessions' : s \in Stale \/ s \in Idle

\* The maps stay within their caps, whatever comes in (MAX_UDP_SESSIONS, MAX_PENDING_UDP_ADMISSIONS).
MapsBounded == Cardinality(DOMAIN sessions) <= MaxSessions /\ Cardinality(DOMAIN pending) <= MaxPending

\* Exhausted permits come back: no silent peer holds one longer than the handshake timeout.
PermitsReturnWhen == permits = 0
PermitsReturnThen == permits > 0

-----------------------------------------------------------------------------
(***************************************************************************)
(* One multiplexed UDP session (src/src/kcp.rs): the map from conv ids to  *)
(* the inbound lanes of their drivers, the map from datagram tags to the   *)
(* lanes of their legs, the live count that lets the listener reclaim the  *)
(* session, the single bridge slot, and the tasks of src/src/server.rs     *)
(* that register legs. A ConvGuard erases its key without looking at whose *)
(* entry it is, so the order of claims, registrations and drops decides    *)
(* whether an entry outlives its owner or dies before it.                  *)
(***************************************************************************)
CONSTANTS
    StreamConv,   \* conv ids of stream convs
    RelayConv,    \* conv ids of relay-leg setup convs
    BridgeConv,   \* the fixed id of the bridge setup conv
    MaxConvs,     \* MAX_CONVS_PER_SESSION
    KcpMaxTasks,     \* bound: convs opened over the session's life
    Stalls        \* whether an application reader may stop reading for good

SessionAssumption ==
    /\ BridgeConv \notin StreamConv \cup RelayConv /\ StreamConv \cap RelayConv = {}
    /\ MaxConvs \in Nat \ {0} /\ KcpMaxTasks \in Nat \ {0} /\ Stalls \in BOOLEAN

Setup == RelayConv \cup {BridgeConv}
Conv == StreamConv \cup Setup
KcpTask == 1..KcpMaxTasks
None == 0

VARIABLES
    convs,        \* conv id -> the task whose driver reads the lane, or None
    dgrams,       \* tag -> the task whose leg reads the lane, or None
    live,         \* the session's live count
    attached,     \* bridge_attached
    closed,       \* close() was called and the owner let the session go
    unclaimed,    \* relay legs of the server not claimed yet
    leases,       \* bridge capabilities not used yet
    drv,          \* driver of each task: conv, phase, unacked tail, what its application does
    leg           \* what the task's server side does after its handshake

kcpVars == <<convs, dgrams, live, attached, closed, unclaimed, leases, drv, leg>>

NoDriver == [conv |-> BridgeConv, at |-> "none", tail |-> FALSE, app |-> "gone"]
Gone(c) == [NoDriver EXCEPT !.at = "gone", !.conv = c]
Phase == {"none", "run", "deliver", "leaving", "gone"}
LegPhase == {"none", "handshake", "claimed", "slot", "leg", "unregister", "detach", "done"}

KcpTypeOK ==
    /\ convs \in [Conv -> {None} \cup KcpTask] /\ dgrams \in [Setup -> {None} \cup KcpTask]
    /\ live \in 0..(2 * KcpMaxTasks)
    /\ attached \in BOOLEAN /\ closed \in BOOLEAN
    /\ unclaimed \subseteq RelayConv /\ leases \in 0..2
    /\ \A t \in KcpTask : /\ drv[t].conv \in Conv /\ drv[t].at \in Phase /\ drv[t].tail \in BOOLEAN
                          /\ drv[t].app \in {"reads", "stalls", "gone"}
                          /\ leg[t] \in LegPhase

Running(t) == drv[t].at \in {"run", "deliver"}
Fresh == {t \in KcpTask : drv[t].at = "none"}
Convs == {c \in Conv : convs[c] # None}

KcpInit ==
    /\ convs = [c \in Conv |-> None] /\ dgrams = [c \in Setup |-> None]
    /\ live = 0 /\ attached = FALSE /\ closed = FALSE
    /\ unclaimed = RelayConv /\ leases = 2
    /\ drv = [t \in KcpTask |-> NoDriver] /\ leg = [t \in KcpTask |-> "none"]

-----------------------------------------------------------------------------
\* Insert the slot, count it live and start the driver and the task that handshakes on the stream.
SpawnConv(c, t) ==
    /\ convs' = [convs EXCEPT ![c] = t]
    /\ live' = live + 1
    /\ drv' = [drv EXCEPT ![t] = [conv |-> c, at |-> "run", tail |-> FALSE, app |-> "reads"]]
    /\ leg' = [leg EXCEPT ![t] = IF c \in Setup THEN "handshake" ELSE "done"]

\* A datagram names an unknown conv: below the cap it opens one. (At the cap, or without a permit,
\* the datagram is dropped and nothing changes.)
RouteKcp(c) ==
    /\ ~closed /\ convs[c] = None /\ Fresh # {}
    /\ Cardinality(Convs) < MaxConvs
    /\ SpawnConv(c, CHOOSE t \in Fresh : \A u \in Fresh : t <= u)
    /\ UNCHANGED <<dgrams, attached, closed, unclaimed, leases>>

\* A datagram for a running conv: the driver takes it in, acks what it acks and hands the
\* application what is complete; the send waits for room when the application does not read.
Deliver(t) ==
    /\ drv[t].at = "run" /\ convs[drv[t].conv] = t
    /\ \E acked \in BOOLEAN, message \in BOOLEAN :
         drv' = [drv EXCEPT ![t] = [drv[t] EXCEPT !.tail = drv[t].tail /\ ~acked,
                                                  !.at = IF message THEN "deliver" ELSE "run"]]
    /\ UNCHANGED <<convs, dgrams, live, attached, closed, unclaimed, leases, leg>>

\* The application takes the message, or its reader is gone and the driver returns.
HandUp(t) ==
    /\ drv[t].at = "deliver" /\ drv[t].app # "stalls"
    /\ drv' = [drv EXCEPT ![t].at = IF drv[t].app = "gone" THEN "leaving" ELSE "run"]
    /\ UNCHANGED <<convs, dgrams, live, attached, closed, unclaimed, leases, leg>>

\* Application bytes to send: they stay queued until acked.
AppWrite(t) ==
    /\ drv[t].at = "run" /\ drv[t].app = "reads" /\ ~drv[t].tail
    /\ drv' = [drv EXCEPT ![t].tail = TRUE]
    /\ UNCHANGED <<convs, dgrams, live, attached, closed, unclaimed, leases, leg>>

\* The application drops both halves, or stops reading.
AppDrops(t) ==
    /\ Running(t) /\ drv[t].app # "gone"
    /\ \E a \in {"gone"} \cup (IF Stalls THEN {"stalls"} ELSE {}) :
         /\ drv[t].app # a
         /\ drv' = [drv EXCEPT ![t].app = a]
    /\ UNCHANGED <<convs, dgrams, live, attached, closed, unclaimed, leases, leg>>

\* The driver returns: both halves gone and nothing unacked, the lane closed because the map no
\* longer holds it, or the idle deadline of a silent peer.
DriveConv(t) ==
    /\ drv[t].at = "run"
    /\ \/ drv[t].app = "gone" /\ ~drv[t].tail
       \/ convs[drv[t].conv] # t
       \/ drv[t].app = "gone" /\ drv[t].tail
    /\ drv' = [drv EXCEPT ![t].at = "leaving"]
    /\ UNCHANGED <<convs, dgrams, live, attached, closed, unclaimed, leases, leg>>

\* The guard erases its key, whoever holds it now, and uncounts the conv.
ConvGuardDrop(t) ==
    /\ drv[t].at = "leaving"
    /\ convs' = [convs EXCEPT ![drv[t].conv] = None]
    /\ live' = live - 1
    /\ drv' = [drv EXCEPT ![t] = Gone(@.conv)]
    /\ leg' = [leg EXCEPT ![t] = IF @ = "handshake" THEN "done" ELSE @]
    /\ UNCHANGED <<dgrams, attached, closed, unclaimed, leases>>

-----------------------------------------------------------------------------

\* The handshake of a setup conv completes; its stream is dropped. A relay leg is claimed before its
\* tag is registered: the second claimant of an id goes away.
AcceptRelayLeg(t) ==
    /\ leg[t] = "handshake" /\ drv[t].at = "run" /\ drv[t].app = "reads"
    /\ drv[t].conv \in RelayConv
    /\ leg' = [leg EXCEPT ![t] = IF drv[t].conv \in unclaimed THEN "claimed" ELSE "done"]
    /\ unclaimed' = unclaimed \ {drv[t].conv}
    /\ drv' = [drv EXCEPT ![t].app = "gone"]
    /\ UNCHANGED <<convs, dgrams, live, attached, closed, leases>>

\* A bridge conv uses up a lease of its client; without one it goes away.
AcceptBridge(t) ==
    /\ leg[t] = "handshake" /\ drv[t].at = "run" /\ drv[t].app = "reads"
    /\ drv[t].conv = BridgeConv
    /\ leg' = [leg EXCEPT ![t] = IF leases > 0 THEN "slot" ELSE "done"]
    /\ leases' = IF leases > 0 THEN leases - 1 ELSE 0
    /\ drv' = [drv EXCEPT ![t].app = "gone"]
    /\ UNCHANGED <<convs, dgrams, live, attached, closed, unclaimed>>

\* The session's single bridge slot: taken by the first, refused to a second.
TryAttachBridge(t) ==
    /\ leg[t] = "slot"
    /\ attached' = TRUE
    /\ leg' = [leg EXCEPT ![t] = IF attached THEN "done" ELSE "claimed"]
    /\ UNCHANGED <<convs, dgrams, live, closed, unclaimed, leases, drv>>

\* Register the tag under the task's own lane and count the leg live.
RegisterDgram(t) ==
    /\ leg[t] = "claimed"
    /\ dgrams' = [dgrams EXCEPT ![drv[t].conv] = t]
    /\ live' = live + 1
    /\ leg' = [leg EXCEPT ![t] = "leg"]
    /\ UNCHANGED <<convs, attached, closed, unclaimed, leases, drv>>

\* The leg ends: its relay is done, or its lane closed under it.
LegEnds(t) ==
    /\ leg[t] = "leg"
    /\ leg' = [leg EXCEPT ![t] = "unregister"]
    /\ UNCHANGED <<convs, dgrams, live, attached, closed, unclaimed, leases, drv>>

\* The leg's guard erases its tag, whoever holds it now; a bridge's slot is released after that.
LegGuardDrop(t) ==
    /\ leg[t] = "unregister"
    /\ dgrams' = [dgrams EXCEPT ![drv[t].conv] = None]
    /\ live' = live - 1
    /\ leg' = [leg EXCEPT ![t] = IF drv[t].conv = BridgeConv THEN "detach" ELSE "done"]
    /\ UNCHANGED <<convs, attached, closed, unclaimed, leases, drv>>

BridgeGuardDrop(t) ==
    /\ leg[t] = "detach"
    /\ attached' = FALSE
    /\ leg' = [leg EXCEPT ![t] = "done"]
    /\ UNCHANGED <<convs, dgrams, live, closed, unclaimed, leases, drv>>

\* The owner gives the session up: both maps are cleared, and nothing is routed to it again.
Close ==
    /\ ~closed /\ closed' = TRUE
    /\ convs' = [c \in Conv |-> None] /\ dgrams' = [c \in Setup |-> None]
    /\ UNCHANGED <<live, attached, unclaimed, leases, drv, leg>>

\* A closed session that is drained stays so.
Over == closed /\ live = 0 /\ UNCHANGED kcpVars

DriverStep(t) == HandUp(t) \/ DriveConv(t) \/ ConvGuardDrop(t)
LegStep(t) ==
    \/ AcceptRelayLeg(t) \/ AcceptBridge(t) \/ TryAttachBridge(t) \/ RegisterDgram(t)
    \/ LegGuardDrop(t) \/ BridgeGuardDrop(t)

KcpNext ==
    \/ \E c \in Conv : RouteKcp(c)
    \/ \E t \in KcpTask : \/ Deliver(t) \/ AppWrite(t) \/ AppDrops(t)
                     \/ DriverStep(t) \/ LegStep(t) \/ LegEnds(t)
    \/ Close \/ Over

KcpSpec == KcpInit /\ [][KcpNext]_kcpVars

\* Tasks keep running; a leg ends once its lane is closed.
KcpDue(t) == HandUp(t) \/ DriveConv(t) \/ ConvGuardDrop(t) \/ RegisterDgram(t) \/ TryAttachBridge(t) \/ (closed /\ LegEnds(t)) \/ LegGuardDrop(t) \/ BridgeGuardDrop(t)

-----------------------------------------------------------------------------
\* A running conv of an open session is the one its id routes to: no other guard erased its entry
\* and no later conv took it over (ConvGuard::drop removes the key without checking identity).
DriversKeepTheirLane == \A t \in KcpTask : Running(t) /\ ~closed => convs[drv[t].conv] = t

\* A registered leg of an open session gets the datagrams of its tag: neither the loser of a claim
\* nor the bridge it replaces erases the entry (accept_relay_leg, accept_bridge).
LegsKeepTheirTag == \A t \in KcpTask : leg[t] = "leg" /\ ~closed => dgrams[drv[t].conv] = t

\* The live count is exact: is_idle holds just when no driver and no leg is left, so the listener
\* neither reclaims a session in use nor keeps a drained one.
LiveIsExact ==
    live = Cardinality({t \in KcpTask : drv[t].at \in {"run", "deliver", "leaving"}})
           + Cardinality({t \in KcpTask : leg[t] \in {"leg", "unregister"}})

\* The drivers of a session never exceed the per-session cap, which route_kcp compares with the map.
DriversBounded == Cardinality({t \in KcpTask : drv[t].at \in {"run", "deliver", "leaving"}}) <= MaxConvs

\* A closed session drains: close ends every driver and leg without the idle deadline, an unacked
\* tail included.
ClosedDrainsWhen == closed
ClosedDrainsThen == live = 0
=============================================================================
