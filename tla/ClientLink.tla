----------------------------- MODULE ClientLink -----------------------------
(***************************************************************************)
(* The client's link to its server: how a session is dialed over the       *)
(* transports it may use (ClientSession), and the control channel of an    *)
(* established session with its heartbeat, announces and forwarded work    *)
(* (ControlChannel). The two are separate machines: each has its own       *)
(* variables, Init and Next.                                               *)
(***************************************************************************)
EXTENDS Naturals, FiniteSetsExt, Sequences, FiniteSets

(***************************************************************************)
(* One profile's dial cycles (the inner loop of `switchable`, `session`    *)
(* and `l2_session` in src/src/client.rs): the choice between UDP and TCP, *)
(* the memory that keeps Auto off a flapping UDP path, and the redial      *)
(* backoff. What a connection attempt meets is nondeterministic within     *)
(* what UdpPath and TcpPath allow. Time is counted in ticks.               *)
(***************************************************************************)
CONSTANTS
    Transport,    \* "auto", "udp" or "tcp"
    Bodies,       \* the bodies considered: "forwards", "device", "pppoe"
    Prepares,     \* the dial can fail before it starts: discovery, exit routes
    UdpPath,      \* what a UDP attempt may meet
    TcpPath,      \* what a TCP attempt may meet
    QuickFails,   \* UDP_QUICK_FAILS
    Cooldown,     \* UDP_COOLDOWN
    MinHealthy,   \* UDP_MIN_HEALTHY
    Retry,        \* RETRY_DELAY
    RetryMax,     \* RETRY_DELAY_MAX
    Horizon       \* bound on the ticks a behaviour is followed for

SessionAssumption ==
    /\ Transport \in {"auto", "udp", "tcp"}
    /\ Bodies \subseteq {"forwards", "device", "pppoe"}
    /\ Prepares \in BOOLEAN
    /\ UdpPath \subseteq {"fail", "refused", "up"}
    /\ TcpPath \subseteq {"fail", "refused", "half", "up"}
    /\ {QuickFails, Cooldown, MinHealthy, Retry, RetryMax, Horizon} \subseteq Nat \ {0}
    /\ Retry <= RetryMax

VARIABLES
    body,         \* what rides the session
    pc,           \* where the cycle is
    fails, cool,  \* UdpHealth; cool is what is left of cooldown_until
    delay, wait,  \* Backoff, and what is left of the pause
    lived,        \* age of the UDP session, up to MinHealthy
    udp,          \* the UDP verdict of this cycle
    udpUp,        \* an L2 UDP channel was established in this cycle
    clock,        \* ticks since the start
    flaps,        \* UDP attempts recorded as unhealthy since the last healthy one
    since,        \* ticks since then
    dry           \* cycles in a row that established nothing

health == <<fails, cool>>
dialVars == <<body, pc, fails, cool, delay, wait, lived, udp, udpUp, clock, flaps, since, dry>>

DialInit ==
    /\ body \in Bodies
    /\ pc = "prepare"
    /\ fails = 0 /\ cool = 0
    /\ delay = Retry /\ wait = 0
    /\ lived = 0 /\ udp = "skipped" /\ udpUp = FALSE
    /\ clock = 0 /\ flaps = 0 /\ since = 0 /\ dry = 0

\* choose_udp: no cooldown, or one that has run out.
ChooseUdp == cool = 0

\* The transport tried first; a forced one ignores the cooldown.
First ==
    IF Transport = "tcp" \/ (Transport = "auto" /\ ~ChooseUdp) THEN "tcp" ELSE "udp"

\* record, which only Auto calls and only for a UDP verdict.
Record(verdict) ==
    CASE Transport # "auto" \/ verdict = "skipped" -> UNCHANGED health
      [] verdict = "healthy" -> fails' = 0 /\ cool' = 0
      [] OTHER ->
           /\ cool' = IF fails + 1 >= QuickFails THEN Cooldown ELSE cool
           /\ fails' = IF fails + 1 >= QuickFails THEN 0 ELSE fails + 1

\* What the history variables remember of a verdict.
Remember(verdict) ==
    CASE Transport # "auto" \/ verdict = "skipped" -> UNCHANGED <<flaps, since>>
      [] verdict = "healthy" -> flaps' = 0 /\ since' = 0
      [] OTHER -> flaps' = flaps + 1 /\ since' = since

\* Backoff::fail.
Fail == Min({2 * delay, RetryMax})

\* The end of a cycle: record, then the backoff, then the pause.
Finish(verdict, established) ==
    /\ Record(verdict) /\ Remember(verdict)
    /\ delay' = IF established THEN Retry ELSE Fail
    /\ wait' = delay'
    /\ dry' = IF established THEN 0 ELSE dry + 1
    /\ pc' = "pause"
    /\ lived' = 0 /\ udp' = "skipped" /\ udpUp' = FALSE
    /\ clock' = clock

-----------------------------------------------------------------------------
\* The address is resolved and the exit routes stand; the session task starts.
Dial ==
    /\ pc = "prepare"
    /\ pc' = First
    /\ UNCHANGED <<fails, cool, delay, wait, lived, udp, udpUp, clock, flaps,
                   since, dry>>

\* Discovery or the exit routes fail: the pause comes before the widening.
PrepareFails ==
    /\ pc = "prepare" /\ Prepares
    /\ wait' = delay
    /\ delay' = Fail
    /\ dry' = dry + 1
    /\ pc' = "pause"
    /\ UNCHANGED <<fails, cool, lived, udp, udpUp, clock, flaps, since>>

\* A UDP attempt that failed: forced UDP ends the cycle, Auto turns to TCP.
FallBack(established) ==
    IF Transport = "udp" THEN Finish("skipped", established)
    ELSE /\ pc' = "tcp" /\ udp' = "unhealthy" /\ udpUp' = established
         /\ lived' = 0
         /\ UNCHANGED <<fails, cool, delay, wait, clock, flaps, since, dry>>

\* udp_session, and udp_l2 with its lease. A refusal reaches the forwards body
\* from its control loop, an L2 body from the lease.
Udp ==
    /\ pc = "udp"
    /\ \/ "up" \in UdpPath /\ pc' = "udpUp" /\ lived' = 0
          /\ UNCHANGED <<fails, cool, delay, wait, udp, udpUp, clock, flaps, since,
                         dry>>
       \/ "refused" \in UdpPath /\ body = "forwards" /\ Finish("skipped", FALSE)
       \/ "refused" \in UdpPath /\ body # "forwards" /\ FallBack(FALSE)
       \/ "fail" \in UdpPath /\ FallBack(FALSE)

\* The UDP session ends: judged by its age, except a pppoe body that failed.
UdpEnds ==
    /\ pc = "udpUp"
    /\ \/ Finish(IF lived >= MinHealthy THEN "healthy" ELSE "unhealthy", TRUE)
       \/ body = "pppoe" /\ FallBack(TRUE)

\* tcp_control, and tcp_l2: its claim can fail once the data connection is up.
Tcp ==
    /\ pc = "tcp"
    /\ \/ "up" \in TcpPath /\ pc' = "tcpUp"
          /\ UNCHANGED <<fails, cool, delay, wait, lived, udp, udpUp, clock, flaps,
                         since, dry>>
       \/ TcpPath \cap {"fail", "refused"} # {} /\ Finish(udp, udpUp)
       \/ "half" \in TcpPath /\ body # "forwards" /\ Finish(udp, TRUE)

TcpEnds == pc = "tcpUp" /\ Finish(udp, TRUE)

\* pause runs out.
Redial ==
    /\ pc = "pause" /\ wait = 0
    /\ pc' = "prepare"
    /\ UNCHANGED <<fails, cool, delay, wait, lived, udp, udpUp, clock, flaps,
                   since, dry>>

Less(n) == IF n = 0 THEN 0 ELSE n - 1

\* A tick passes in a wait or in a session.
DialTick ==
    /\ pc \in {"udpUp", "tcpUp"} \/ (pc = "pause" /\ wait > 0)
    /\ clock < Horizon
    /\ clock' = clock + 1 /\ since' = since + 1
    /\ cool' = Less(cool)
    /\ wait' = Less(wait)
    /\ lived' = IF pc = "udpUp" THEN Min({lived + 1, MinHealthy}) ELSE lived
    /\ UNCHANGED <<pc, fails, delay, udp, udpUp, flaps, dry>>

\* The horizon is reached.
Over == clock = Horizon /\ pc = "pause" /\ wait > 0 /\ UNCHANGED dialVars

Cycle == Dial \/ PrepareFails \/ Udp \/ UdpEnds \/ Tcp \/ TcpEnds \/ Redial

DialNext == (Cycle \/ DialTick \/ Over) /\ UNCHANGED body

DialSpec == DialInit /\ [][DialNext]_dialVars

\* The steps of a cycle are bounded by timeouts, so none is put off for ever.
DialDue == Cycle /\ UNCHANGED body

-----------------------------------------------------------------------------
DialTypeOK ==
    /\ pc \in {"prepare", "udp", "udpUp", "tcp", "tcpUp", "pause"}
    /\ fails \in 0..(QuickFails - 1) /\ cool \in 0..Cooldown
    /\ delay \in Retry..RetryMax /\ wait \in 0..RetryMax
    /\ lived \in 0..MinHealthy
    /\ udp \in {"skipped", "unhealthy"} /\ udpUp \in BOOLEAN

\* However the attempts, fallbacks and long TCP sessions fall, Auto meets a UDP
\* path that flaps at most QuickFails times per cooldown.
FlapsAreRare == flaps <= QuickFails * (since \div Cooldown + 1)

\* Flaps between healthy sessions never add up: after a healthy UDP session it
\* takes QuickFails flaps in a row before Auto leaves UDP.
CooldownIsEarned == cool > 0 => flaps >= QuickFails

\* The gap before a redial is at least what the cycles in a row that
\* established nothing call for: it doubles with each but the first, up to the
\* ceiling.
RedialsThinOut ==
    pc # "pause" /\ pc' = "pause" /\ dry' > 0 =>
       wait' >= Min({Retry * 2^(Min({dry', RetryMax}) - 1), RetryMax})

\* With UDP failing at any moment and a server that takes TCP connections, Auto
\* is connected in every cycle it starts.
AutoConnectsWhen == pc = "prepare"
AutoConnectsThen == pc \in {"udpUp", "tcpUp"}

-----------------------------------------------------------------------------
(***************************************************************************)
(* A client's control channel from its handshake to its teardown           *)
(* (control_loop, bridge_lease and hold_control in src/src/client.rs):     *)
(* authorization, the peer announce, the opens it dispatches to forward    *)
(* tasks, and the watch that tells a silent server from a slow one.        *)
(*                                                                         *)
(* Both directions are reliable and ordered. The server end answers as     *)
(* src/src/server.rs does until it is gone; from then on it says nothing,  *)
(* and a UDP link may or may not report it. Time is counted in ticks, and  *)
(* a frame is delivered within Delay ticks while the server is there.      *)
(***************************************************************************)
CONSTANTS
    Interval,     \* PING_INTERVAL
    PongWait,     \* PONG_WAIT
    ProbeGap,     \* PROBE_INTERVAL
    Strikes,      \* PROBE_STRIKES
    Deadline,     \* CONTROL_TIMEOUT
    Delay,        \* longest one-way delay to or from a living server
    Stream,       \* ids of opens the server may send
    Proxied,      \* the opens whose forward the client flagged proxy
    Announces,    \* the client runs peer slots
    Holds         \* an L2 body: hold_control in place of control_loop

ChannelAssumption ==
    /\ {Interval, PongWait, ProbeGap, Strikes, Deadline} \subseteq Nat \ {0}
    /\ Delay \in Nat
    /\ Proxied \subseteq Stream
    /\ Announces \in BOOLEAN /\ Holds \in BOOLEAN

VARIABLES
    up,           \* the loop runs
    why,          \* how it ended
    server,       \* "up" or "gone"
    waiting, probes, pingIn,    \* PingWatch and its timer
    deadlineIn,   \* ticks to the control deadline
    toServer, toClient,         \* frames on their way with their age, oldest first
    knows,        \* the server's registry entry: "none", "session" or "options"
    sent,         \* opens the server has sent
    authorized,   \* authorized_client_id is set
    live,         \* the peer ControlGuard is installed
    proven,       \* the announce claim: "no", "held" or "displaced"
    dialing,      \* forward tasks that passed their checks
    tracked,      \* AbortOnDrop guards the loop holds
    silence       \* ticks since the server went away

watch == <<waiting, probes, pingIn>>
channelVars == <<up, why, server, waiting, probes, pingIn, deadlineIn, toServer,
                 toClient, knows, sent, authorized, live, proven, dialing,
                 tracked, silence>>

\* The ping timer runs: bridge_lease sends none before its authorization.
Pinging == Holds => authorized

\* CONTROL_TIMEOUT runs: hold_control has none.
Timed == Holds => ~authorized

Frame(type, id) == [type |-> type, id |-> id, age |-> 0]

\* fwd_options: a frame only when some forward carries a non-default option.
Options == IF Proxied # {} THEN <<Frame("options", 0)>> ELSE << >>

\* control_setup queues the hello, the options and the announce; bridge_lease
\* the hello alone.
ChannelInit ==
    /\ up = TRUE /\ why = "none" /\ server = "up"
    /\ waiting = FALSE /\ probes = 0 /\ pingIn = Interval
    /\ deadlineIn = Deadline
    /\ toServer = <<Frame("hello", 0)>>
                    \o (IF Holds THEN << >> ELSE Options)
                    \o (IF Announces THEN <<Frame("announce", 0)>> ELSE << >>)
    /\ toClient = << >>
    /\ knows = "none" /\ sent = {}
    /\ authorized = FALSE /\ live = FALSE /\ proven = "no"
    /\ dialing = {} /\ tracked = {}
    /\ silence = 0

\* Returning drops the guard and every AbortOnDrop of the session.
End(reason) ==
    /\ up' = FALSE /\ why' = reason
    /\ live' = FALSE
    /\ tracked' = {} /\ dialing' = dialing \ tracked

-----------------------------------------------------------------------------

\* PingWatch::heard: a frame answers the outstanding Ping, if there is one.
Heard ==
    /\ waiting' = FALSE
    /\ pingIn' = IF waiting THEN Interval ELSE pingIn
    /\ probes' = IF waiting THEN 0 ELSE probes

\* PingWatch::lapse and the Ping it sends.
Lapse ==
    /\ up /\ Pinging /\ pingIn = 0
    /\ IF waiting /\ probes = Strikes
       THEN /\ End("pings")
            /\ UNCHANGED <<waiting, probes, pingIn, toServer>>
       ELSE /\ waiting' = TRUE
            /\ probes' = IF waiting THEN probes + 1 ELSE probes
            /\ pingIn' = IF waiting THEN ProbeGap ELSE PongWait
            /\ toServer' = Append(toServer, Frame("ping", 0))
            /\ UNCHANGED <<up, why, live, dialing, tracked>>
    /\ UNCHANGED <<server, deadlineIn, toClient, knows, sent, authorized,
                   proven, silence>>

\* No frame for the whole deadline, or no authorization of a lease within it.
TimeOut ==
    /\ up /\ Timed /\ deadlineIn = 0
    /\ End("deadline")
    /\ UNCHANGED watch
    /\ UNCHANGED <<server, deadlineIn, toServer, toClient, knows, sent,
                   authorized, proven, silence>>

\* The RX pump of a UDP link saw the peer vanish, or the stream closed.
PeerVanished ==
    /\ up /\ server = "gone"
    /\ End("closed")
    /\ UNCHANGED watch
    /\ UNCHANGED <<server, deadlineIn, toServer, toClient, knows, sent,
                   authorized, proven, silence>>

-----------------------------------------------------------------------------
Nothing == UNCHANGED <<up, why, live, authorized, toServer, dialing, tracked>>

\* handle_open refuses a plain open of a proxied forward, and the reverse.
Accepts(k, header) == header = (k \in Proxied)

\* Finished guards are dropped and handle_open is spawned; dropping a guard
\* aborts its task.
OpenTask(k, header) ==
    LET task == [id |-> k, header |-> header]
        kept == tracked \cap dialing
    IN
    /\ dialing' = (dialing \cap kept)
                     \cup (IF Accepts(k, header) THEN {task} ELSE {})
    /\ tracked' = kept \cup {task}
    /\ UNCHANGED <<up, why, live, authorized, toServer>>

\* The first PeerAnnounceAck installs the peer ControlGuard.
AnnounceAck ==
    IF live \/ authorized
    THEN live' = TRUE /\ UNCHANGED <<up, why, authorized, toServer, dialing, tracked>>
    ELSE End("protocol") /\ UNCHANGED <<authorized, toServer>>

\* The dispatch of one control frame.
Dispatch(m) ==
    \/ m.type = "open" /\ OpenTask(m.id, FALSE)
    \/ m.type = "openProxy" /\ OpenTask(m.id, TRUE)
    \/ /\ m.type = "helloAck"
       /\ IF authorized THEN End("protocol") /\ UNCHANGED <<authorized, toServer>>
          ELSE /\ authorized' = TRUE
               /\ UNCHANGED <<up, why, live, toServer, dialing, tracked>>
    \/ m.type = "helloRefuse" /\ End("refused") /\ UNCHANGED <<authorized, toServer>>
    \/ /\ m.type = "challenge"
       /\ IF authorized
          THEN /\ toServer' = Append(toServer, Frame("proof", 0))
               /\ UNCHANGED <<up, why, live, authorized, dialing, tracked>>
          ELSE End("protocol") /\ UNCHANGED <<authorized, toServer>>
    \/ /\ m.type = "announceRefuse"
       /\ live' = FALSE
       /\ UNCHANGED <<up, why, authorized, toServer, dialing, tracked>>
    \/ m.type = "announceAck" /\ AnnounceAck
    \/ m.type \in {"pong", "optionsAck"} /\ Nothing

\* bridge_lease: the first frame is the ack, or the lease fails.
Lease(m) ==
    \/ /\ m.type = "helloAck" /\ authorized' = TRUE
       /\ UNCHANGED <<up, why, live, toServer, dialing, tracked>>
    \/ /\ m.type # "helloAck"
       /\ End(IF m.type = "helloRefuse" THEN "refused" ELSE "protocol")
       /\ UNCHANGED <<authorized, toServer>>

\* hold_control hears every frame and acts on none.
Hold(m) == IF authorized THEN Nothing ELSE Lease(m)

Recv ==
    /\ up /\ toClient # << >>
    /\ toClient' = Tail(toClient)
    /\ deadlineIn' = Deadline
    /\ Heard
    /\ IF Holds THEN Hold(Head(toClient)) ELSE Dispatch(Head(toClient))
    /\ UNCHANGED <<server, knows, sent, proven, silence>>

\* A forward task finishes; its guard stays until the next open.
TaskEnds ==
    /\ \E t \in dialing : dialing' = dialing \ {t}
    /\ UNCHANGED <<up, why, server, waiting, probes, pingIn, deadlineIn, toServer,
                   toClient, knows, sent, authorized, live, proven, tracked,
                   silence>>

-----------------------------------------------------------------------------
Reply(m) ==
    toClient' = Append(toClient, Frame(m, 0))

\* register_client inserts the session before it queues the ack, so an Open can
\* be first.
ServerRegisters ==
    /\ server = "up" /\ toServer # << >>
    /\ Head(toServer).type = "hello" /\ knows = "none"
    /\ knows' = "session"
    /\ UNCHANGED <<up, why, server, waiting, probes, pingIn, deadlineIn, toServer,
                   toClient, sent, authorized, live, proven, dialing, tracked,
                   silence>>

\* The id is held by a live session: the refusal is the session's last frame.
ServerRefuses ==
    /\ server = "up" /\ toServer # << >>
    /\ Head(toServer).type = "hello" /\ knows = "none"
    /\ toServer' = << >> /\ Reply("helloRefuse")
    /\ UNCHANGED <<up, why, server, waiting, probes, pingIn, deadlineIn, knows,
                   sent, authorized, live, proven, dialing, tracked, silence>>

\* Another session proves this one's identity and takes the claim.
ServerDisplaces ==
    /\ server = "up" /\ proven = "held"
    /\ proven' = "displaced" /\ Reply("announceRefuse")
    /\ UNCHANGED <<up, why, server, waiting, probes, pingIn, deadlineIn, toServer,
                   knows, sent, authorized, live, dialing, tracked, silence>>

\* handle_control_frame on a registered session. The claim is recorded before
\* the ack is queued, so another session's displacement can come in between.
ServerReads ==
    /\ server = "up" /\ toServer # << >> /\ knows # "none"
    /\ toServer' = Tail(toServer)
    /\ LET m == Head(toServer).type IN
       \/ m = "hello" /\ Reply("helloAck") /\ UNCHANGED <<knows, proven>>
       \/ m = "options" /\ Reply("optionsAck") /\ knows' = "options" /\ proven' = proven
       \/ m = "announce" /\ (Reply("challenge") \/ Reply("announceRefuse"))
          /\ UNCHANGED <<knows, proven>>
       \/ m = "proof" /\ knows' = knows
          /\ \/ Reply("announceAck") /\ proven' = "held"
             \/ Reply("announceRefuse") /\ proven' = proven
             \/ /\ toClient' = toClient \o <<Frame("announceRefuse", 0),
                                              Frame("announceAck", 0)>>
                /\ proven' = "displaced"
       \/ m = "ping" /\ Reply("pong") /\ UNCHANGED <<knows, proven>>
    /\ UNCHANGED <<up, why, server, waiting, probes, pingIn, deadlineIn, sent,
                   authorized, live, dialing, tracked, silence>>

\* A public connection: OpenProxy once the options are known.
ServerOpens(k) ==
    /\ server = "up" /\ knows # "none"
    /\ k \notin sent
    /\ sent' = sent \cup {k}
    /\ toClient' = Append(toClient,
           Frame(IF knows = "options" /\ k \in Proxied THEN "openProxy" ELSE "open", k))
    /\ UNCHANGED <<up, why, server, waiting, probes, pingIn, deadlineIn, toServer,
                   knows, authorized, live, proven, dialing, tracked, silence>>

\* The server restarts or the path goes dark: frames in flight are lost.
ServerGone ==
    /\ server = "up" /\ up
    /\ server' = "gone"
    /\ toServer' = << >> /\ toClient' = << >>
    /\ UNCHANGED <<up, why, waiting, probes, pingIn, deadlineIn, knows, sent,
                   authorized, live, proven, dialing, tracked, silence>>

Older(q) == [i \in 1..Len(q) |-> [q[i] EXCEPT !.age = @ + 1]]

\* One tick: no timer is overdue and no frame of a living server is late.
ChannelTick ==
    /\ up /\ (Pinging => pingIn > 0) /\ (Timed => deadlineIn > 0)
    /\ server = "up" => \A q \in {toServer, toClient} :
                           q # << >> => Head(q).age < Delay
    /\ pingIn' = IF Pinging THEN pingIn - 1 ELSE pingIn
    /\ deadlineIn' = IF Timed THEN deadlineIn - 1 ELSE deadlineIn
    /\ toServer' = IF server = "up" THEN Older(toServer) ELSE << >>
    /\ toClient' = Older(toClient)
    /\ silence' = IF server = "gone" THEN silence + 1 ELSE 0
    /\ UNCHANGED <<up, why, server, waiting, probes, knows, sent, authorized, live,
                   proven, dialing, tracked>>

Ended == ~up /\ UNCHANGED channelVars

ChannelNext ==
    \/ Lapse \/ TimeOut \/ PeerVanished \/ Recv \/ TaskEnds
    \/ ServerRegisters \/ ServerRefuses \/ ServerReads
    \/ ServerDisplaces \/ (\E k \in Stream : ServerOpens(k)) \/ ServerGone
    \/ ChannelTick \/ Ended

ChannelSpec == ChannelInit /\ [][ChannelNext]_channelVars
-----------------------------------------------------------------------------
ChannelTypeOK ==
    /\ up \in BOOLEAN /\ server \in {"up", "gone"}
    /\ why \in {"none", "pings", "deadline", "closed", "protocol", "refused"}
    /\ waiting \in BOOLEAN /\ probes \in 0..Strikes
    /\ pingIn \in 0..(Interval + PongWait + ProbeGap) /\ deadlineIn \in 0..Deadline
    /\ authorized \in BOOLEAN /\ live \in BOOLEAN
    /\ dialing \cup tracked \subseteq [id : Stream, header : BOOLEAN]

\* A server that answers is never given up: the watch and the deadline end the
\* session only when the server is gone.
SlowIsNotDead == why \in {"pings", "deadline"} => server = "gone"

\* A server that says nothing more is noticed within one ping interval, the
\* wait for its Pong and the probes, long before the control deadline; a lease
\* that is not authorized yet has only the deadline.
DeadIsNoticed ==
    up => silence <= IF Pinging THEN Interval + PongWait + Strikes * ProbeGap
                     ELSE Deadline

\* The server never trips the client's checks of the authorization order, and
\* peers pair only over a session whose announce proof was accepted.
AnnounceInOrder == why # "protocol" /\ (live => authorized /\ proven # "no")

\* No forward task and no peer guard outlives its control session.
NothingOutlives == ~up => dialing = {} /\ ~live

\* A proxied forward never dials its target without the PROXY header, nor an
\* unflagged one with it, whichever of the options and the open came first.
HeaderMatches == \A t \in dialing : t.header = (t.id \in Proxied)

\* Dispatching a frame never aborts a forward that is still running.
ForwardsSurvive ==
    up /\ up' /\ Len(toClient') < Len(toClient) => dialing \subseteq dialing'
=============================================================================
