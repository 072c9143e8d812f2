----------------------------- MODULE PppoeShell -----------------------------
(***************************************************************************)
(* The tasks around the PPPoE engine: the shell that dials, redials and    *)
(* owns the TUN device, and the fleet of dialed ports of the user-space    *)
(* proxy.                                                                  *)
(***************************************************************************)
EXTENDS Integers, FiniteSets

(***************************************************************************)
(* The PPPoE datapath and the shell that pumps it                          *)
(* (src/src/pppoe/datapath.rs, tunnel.rs, redial.rs): one task selects     *)
(* over inbound frames, the one-second negotiation tick and the keepalive  *)
(* that reaps an idle tunnel; it opens zppp0 and applies the host routing  *)
(* when the session is established, and takes them down and dials again    *)
(* when the link goes down. Discovery and PPP are modelled in PppoeDial    *)
(* and PppLink; here they are the steps they may take. Time is in ticks.   *)
(***************************************************************************)
CONSTANTS
    EchoInterval,   \* ECHO_INTERVAL_TICKS
    EchoDead,       \* ECHO_DEAD_THRESHOLD: silent intervals that declare the link dead
    StrandRevert,   \* PPPOE_STRAND_REVERT
    UdpIdle,        \* UDP_IDLE: silence after which the tunnel is reaped
    ShellHeld,           \* SESSION_HELD: how long a session stays up to count as having served
    ShellRedialTicks, RedialTicksMax,   \* the first redial wait, and its ceiling
    HostFlags,      \* whether --pppoe-default-route is given
    Answers         \* whether the concentrator answers every echo within a tick

PppoeShellAssumption ==
    /\ {EchoInterval, EchoDead, StrandRevert, UdpIdle, ShellHeld, ShellRedialTicks, RedialTicksMax} \subseteq Nat \ {0}
    /\ {HostFlags, Answers} \subseteq BOOLEAN
    /\ StrandRevert < UdpIdle /\ ShellRedialTicks <= RedialTicksMax

VARIABLE shell

ShellSmaller(a, b) == IF a < b THEN a ELSE b

NoSession == [session |-> FALSE, est |-> FALSE, ppp |-> "idle", ipcp |-> FALSE, inbound |-> FALSE,
              probed |-> FALSE, eticks |-> 0, misses |-> 0, pend |-> FALSE]

With(r, q) == [k \in DOMAIN r |-> IF k \in DOMAIN q THEN q[k] ELSE r[k]]

\* run: the first PADI is sent before the loop.
ShellInit ==
    shell = With([run |-> TRUE, disc |-> "Padi", down |-> FALSE, session |-> FALSE, est |-> FALSE, ppp |-> "idle",
                  ipcp |-> FALSE, inbound |-> FALSE, probed |-> FALSE, eticks |-> 0, misses |-> 0, pend |-> FALSE,
                  wait |-> 0, next |-> ShellRedialTicks, up |-> -1, tun |-> FALSE, guard |-> FALSE,
                  stranded |-> FALSE, silent |-> 0, since |-> 0, fails |-> 0], NoSession)

-----------------------------------------------------------------------------
\* release drops the session and what was built on it; reset also dials again.
ShellRelease(d) == With(d, NoSession)
ShellReset(d) == [ShellRelease(d) EXCEPT !.disc = "Padi", !.down = FALSE]

Phase(d) ==
    CASE d.down -> "LinkDown"
      [] ~d.down /\ d.disc = "Dead" /\ ~d.session -> "Dead"
      [] ~d.down /\ d.est -> "Established"
      [] ~d.down /\ ~d.est /\ d.session -> "Ppp"
      [] OTHER -> "Discovery"

\* The shell's fields drop: host routing first, then zppp0.
End(d) == [ShellReset(d) EXCEPT !.run = FALSE, !.disc = "Dead", !.tun = FALSE, !.guard = FALSE, !.stranded = FALSE,
                                !.up = -1, !.wait = 0, !.next = ShellRedialTicks, !.silent = 0, !.since = 0, !.fails = 0]

OnLinkDown(d) ==
    LET b == [d EXCEPT !.guard = FALSE, !.stranded = FALSE, !.tun = FALSE, !.up = -1] IN
    IF d.up = ShellHeld THEN ShellReset([b EXCEPT !.wait = 0, !.next = ShellRedialTicks, !.fails = 0])
    ELSE IF d.wait = 0
         THEN ShellRelease([b EXCEPT !.wait = b.next, !.next = ShellSmaller(b.next * 2, RedialTicksMax),
                                     !.since = 0, !.fails = ShellSmaller(@ + 1, 6)])
    ELSE b

\* maybe_bring_up_zppp0 and on_established_edge.
BringUp(d) ==
    IF Phase(d) # "Established" \/ d.tun THEN d
    ELSE [d EXCEPT !.tun = TRUE, !.up = 0, !.guard = HostFlags, !.stranded = IF HostFlags THEN FALSE ELSE @]

OnPhase(d) ==
    CASE Phase(d) = "Dead" -> End(d)
      [] Phase(d) = "LinkDown" -> OnLinkDown(d)
      [] Phase(d) \notin {"Dead", "LinkDown"} -> BringUp(d)

-----------------------------------------------------------------------------
\* Inbound frames. Each refreshes the shell's last_in.
Heard(d) == shell' = OnPhase([d EXCEPT !.silent = 0])

Pado == shell.run /\ shell.disc = "Padi" /\ Heard([shell EXCEPT !.disc = "Padr"])
Pads == shell.run /\ shell.disc = "Padr" /\ Heard([shell EXCEPT !.disc = "Est", !.session = TRUE, !.ppp = "nego"])
Padt ==
    /\ shell.run /\ shell.disc \in {"Padr", "Est"}
    /\ Heard([shell EXCEPT !.disc = "Dead", !.down = @ \/ shell.est \/ shell.session])

\* Session frames, for the session we hold: any of them proves the concentrator alive.
InSession == shell.run /\ shell.session
Seen == [shell EXCEPT !.inbound = TRUE, !.pend = FALSE]

SessionFrame == InSession /\ Heard(Seen)
PppOpens ==
    InSession /\ shell.ppp = "nego" /\ Heard([Seen EXCEPT !.ppp = "open", !.est = TRUE, !.ipcp = TRUE])
\* An LCP Terminate-Request: caught on the frame once the link was up, by the tick before.
PppTerminated ==
    /\ InSession /\ shell.ppp \in {"nego", "open"}
    /\ Heard([Seen EXCEPT !.ppp = "dead", !.down = @ \/ shell.est])
IpcpTerminated == InSession /\ shell.ipcp /\ Heard([Seen EXCEPT !.ipcp = FALSE])

\* A keepalive of the tunnel itself.
TunnelKeepalive == shell.run /\ shell' = [shell EXCEPT !.silent = 0]

-----------------------------------------------------------------------------
\* due: one tick off the wait.
Due(d) == IF d.wait = 0 THEN d
          ELSE IF d.wait = 1 THEN ShellReset([d EXCEPT !.wait = 0]) ELSE [d EXCEPT !.wait = @ - 1]

\* tick_liveness: a probe on the edge, then one scored interval after another.
TickLiveness(d) ==
    IF ~d.est \/ d.down THEN d
    ELSE IF ~d.probed THEN [d EXCEPT !.probed = TRUE, !.eticks = 0, !.inbound = FALSE, !.pend = TRUE]
    ELSE IF d.eticks + 1 < EchoInterval THEN [d EXCEPT !.eticks = @ + 1]
    ELSE LET m == IF d.inbound THEN 0 ELSE d.misses + 1
             n == [d EXCEPT !.eticks = 0, !.inbound = FALSE, !.misses = m]
         IN  IF m >= EchoDead THEN [n EXCEPT !.down = TRUE] ELSE [n EXCEPT !.pend = TRUE]

\* Discovery and PPP take their own ticks: a dial may run out, a negotiation may give up.
InnerTicks(d) ==
    {d} \cup (IF d.disc \in {"Padi", "Padr"} /\ ~shell.down THEN {[d EXCEPT !.disc = "Dead"]} ELSE {})
        \cup (IF d.ppp = "nego" THEN {[d EXCEPT !.ppp = "dead"]} ELSE {})

OnTick(d) ==
    LET e == IF d.session /\ ~d.down /\ d.ppp = "dead" THEN [d EXCEPT !.down = TRUE] ELSE d
    IN  TickLiveness(e)

\* The watchdog waits for as long as the reaper.
StrandWatchdogLate(d) ==
    IF d.stranded \/ ~d.guard \/ d.silent <= UdpIdle THEN d
    ELSE [d EXCEPT !.guard = FALSE, !.stranded = TRUE]

StrandWatchdog(d) ==
    IF d.stranded \/ ~d.guard \/ d.silent < StrandRevert THEN d
    ELSE [d EXCEPT !.guard = FALSE, !.stranded = TRUE]

Tick ==
    /\ shell.run /\ (Answers => ~shell.pend)
    /\ shell.silent < UdpIdle
    /\ LET aged == [shell EXCEPT !.silent = @ + 1, !.up = IF @ = -1 THEN @ ELSE ShellSmaller(@ + 1, ShellHeld),
                                 !.since = ShellSmaller(@ + 1, RedialTicksMax)]
       IN  \E d \in InnerTicks(Due(aged)) : shell' = StrandWatchdog(OnPhase(OnTick(d)))

\* The keepalive tick finds the tunnel idle, or the session is cancelled or its channel closes.
Reap == shell.run /\ shell.silent = UdpIdle /\ shell' = End(shell)
Cancel == shell.run /\ shell' = End(shell)

ShellEnded == ~shell.run /\ UNCHANGED shell

ShellNext ==
    \/ Pado \/ Pads \/ Padt \/ SessionFrame \/ PppOpens \/ PppTerminated \/ IpcpTerminated
    \/ TunnelKeepalive \/ Tick \/ Reap \/ Cancel \/ ShellEnded

ShellSpec == ShellInit /\ [][ShellNext]_shell
\* The negotiation tick fires every second, and an idle tunnel is reaped.
ShellDue(i) ==
    \/ i = 1 /\ Tick
    \/ i = 2 /\ Reap

-----------------------------------------------------------------------------
ShellTypeOK ==
    /\ shell.disc \in {"Padi", "Padr", "Est", "Dead"} /\ shell.ppp \in {"idle", "nego", "open", "dead"}
    /\ shell.wait \in 0..RedialTicksMax /\ shell.next \in ShellRedialTicks..RedialTicksMax /\ shell.up \in -1..ShellHeld
    /\ shell.eticks \in 0..EchoInterval - 1 /\ shell.misses \in 0..EchoDead /\ shell.silent \in 0..UdpIdle
    /\ \A k \in {"run", "down", "session", "est", "ipcp", "inbound", "probed", "pend", "tun", "guard", "stranded"} :
         shell[k] \in BOOLEAN

\* zppp0 is there exactly while the session is established, and host routing points at it only then:
\* no step leaves a route into a device that is gone or a device without its lease.
TunIffEstablished == shell.tun = (shell.est /\ ~shell.down) /\ (shell.guard => shell.tun)

\* A link that is down and waits to redial is inert: no session, no PPP state, no device, no routing.
WaitIsInert == shell.down => shell.wait > 0 /\ ~shell.session /\ ~shell.est /\ shell.ppp = "idle" /\ ~shell.guard

\* A session that died before it held is not dialed again before its wait is over, and the wait
\* doubles, up to the ceiling, with every such session in a row.
Ladder(n) == ShellSmaller(ShellRedialTicks * 2 ^ (n - 1), RedialTicksMax)
RedialPaced == shell.down /\ shell'.run /\ ~shell'.down => shell.since + 1 >= Ladder(shell.fails)

\* Host routing never points into a tunnel that has been silent for the strand limit, which is below
\* the idle limit, "so the revert precedes the idle reap": neither a redial nor a late frame of the
\* session re-applies it without proof of life.
RevertPrecedesReap == shell.guard => shell.silent < StrandRevert

\* With a concentrator that answers its echoes the watchdog never trips ("a healthy link never trips"):
\* the next request is always out before the silence reaches the limit.
HealthyNeverStrands == Answers => ~shell.stranded

\* A link that went down is dialed again, or the shell has ended.
LinkDownRedialsWhen == shell.down
LinkDownRedialsThen == shell.disc = "Padi" \/ ~shell.run

\* A concentrator that falls silent is noticed: an established session that hears nothing more does
\* not stay established, even while the tunnel's own keepalives go on.
AcSpeaks == Pado \/ Pads \/ Padt \/ SessionFrame \/ PppOpens \/ PppTerminated \/ IpcpTerminated
SilenceIsNoticedWhen == shell.est
SilenceIsNoticedThen == ~shell.est

-----------------------------------------------------------------------------
(***************************************************************************)
(* The driver of the user-space PPPoE proxy (crates/znpppoe/src/driver.rs, *)
(* uplink.rs): one task pumps every PPPoE session of the process over one  *)
(* shared L2 channel, paces their redials (pppoe/redial.rs), and takes the *)
(* next channel when the current one dies.                                 *)
(*                                                                         *)
(* A handler runs to its end before the next, so it is one step.  What the *)
(* concentrator may do to a session (modules PppoeDial, PppLink and        *)
(* PppoeShell) is a choice here.  A session id is known by the channel it  *)
(* was granted on.  `rng` is the number of draws of the random source that *)
(* fail in the handler under way.                                          *)
(***************************************************************************)
CONSTANTS
    Sessions,               \* the sessions of the process
    FleetRedialTicks, RedialMax, \* the first redial wait, and its ceiling
    FleetHeld,                   \* SESSION_HELD: how long a session stays up to count as having served
    Grace,                  \* REBRIDGE_GRACE: how long every session may be down on a bridge port
    Faults                  \* bound on failed draws of the random source

FleetAssumption == {FleetRedialTicks, RedialMax, FleetHeld, Grace} \subseteq Nat \ {0} /\ Faults \in Nat

VARIABLES
    fleet,      \* each session's datapath, redial state and the address its netstack is told
    ch,     \* the channel: whether it is up, its kind, ticks since a session was up
    faults  \* what is left of Faults

vars == <<fleet, ch, faults>>

FleetSmaller(a, b) == IF a < b THEN a ELSE b
NewSession == [disc |-> "Init", sid |-> "none", est |-> FALSE, down |-> FALSE, up |-> -1, wait |-> 0,
               next |-> FleetRedialTicks, addr |-> FALSE, rng |-> 0]

FleetInit ==
    /\ fleet = [i \in Sessions |-> NewSession]
    /\ ch \in [up : {FALSE}, kind : {"bridge", "peer"}, dark : {0}, run : {TRUE}]
    /\ faults = Faults

(* The datapath. *)

Drawn(d) == [d EXCEPT !.rng = @ - 1]
FleetRelease(d) == IF d.rng > 0 THEN Drawn(d) ELSE [d EXCEPT !.sid = "none", !.est = FALSE]
FleetReset(d) == IF d.rng > 0 THEN Drawn(d)
                 ELSE [d EXCEPT !.sid = "none", !.est = FALSE, !.disc = "Padi", !.down = FALSE]

phase(d) ==
    CASE d.down -> "LinkDown"
      [] ~d.down /\ d.disc = "Dead" /\ d.sid = "none" -> "Dead"
      [] ~d.down /\ d.est -> "Established"
      [] OTHER -> "Other"

(* Redial::arm and Redial::due. *)

arm(d) == IF d.wait > 0 THEN d ELSE [d EXCEPT !.wait = d.next, !.next = FleetSmaller(2 * @, RedialMax)]

Down(d) == [d EXCEPT !.up = -1, !.addr = FALSE]
Paced(d) == IF d.wait > 0 THEN d ELSE FleetRelease(arm(d))
Flapped(d) == LET e == [d EXCEPT !.wait = 0, !.next = FleetRedialTicks]
              IN  IF e.rng > 0 THEN FleetRelease(Drawn(e)) ELSE FleetReset(e)

apply_phase(d) ==
    CASE phase(d) = "Established" -> IF d.up = -1 THEN [d EXCEPT !.up = 0, !.addr = TRUE] ELSE d
      [] phase(d) = "LinkDown" -> IF d.up = FleetHeld THEN Flapped(Down(d)) ELSE Paced(Down(d))
      [] phase(d) = "Dead" -> arm(Down(d))
      [] OTHER -> d

\* A number of failing draws for each session of a handler, within what is left.
Failing(S) == {f \in [S -> 0..FleetSmaller(2, faults)] :
                 \A i, j \in S : i # j => f[i] + f[j] <= faults}
Total(f) == LET n(k) == Cardinality({i \in DOMAIN f : f[i] >= k}) IN n(1) + n(2)
Begun(d, n) == [d EXCEPT !.rng = n]
Done(d) == [d EXCEPT !.rng = 0]

(* run: a new channel dials every session anew. *)

Fresh(d) ==
    LET e == [d EXCEPT !.next = FleetRedialTicks, !.wait = 0]
    IN  Down(IF e.rng > 0 THEN arm(FleetRelease(Drawn(e))) ELSE FleetReset(e))

Connect ==
    /\ ch.run /\ ~ch.up
    /\ \E f \in Failing(Sessions) :
          /\ fleet' = [i \in Sessions |-> Done(Fresh(Begun(fleet[i], f[i])))]
          /\ faults' = faults - Total(f)
    /\ ch' = [ch EXCEPT !.up = TRUE, !.dark = 0]

\* No further channel can come up: the driver ends, and the process with it.
Gone ==
    /\ ch.run /\ ~ch.up /\ ch.kind = "peer"
    /\ ch' = [ch EXCEPT !.run = FALSE]
    /\ UNCHANGED <<fleet, faults>>

(* session_loop. *)

\* The channel is gone: the sessions go down; their datapaths stay as they are.
Lost(d) == [Down(d) EXCEPT !.sid = IF @ = "here" THEN "old" ELSE @]
Dropped == ch' = [ch EXCEPT !.up = FALSE, !.dark = 0]

\* Cancelled, closed, or silent for too long.
Close ==
    /\ ch.up
    /\ fleet' = [i \in Sessions |-> Lost(fleet[i])]
    /\ Dropped
    /\ UNCHANGED faults

\* What an inbound frame does to the datapath it is for.
Frame(d) ==
    {d} \cup (IF d.disc = "Padi" THEN {[d EXCEPT !.disc = "Est", !.sid = "here"], [d EXCEPT !.disc = "Dead"]} ELSE {})
        \cup (IF d.sid = "here" /\ ~d.down
              THEN {[d EXCEPT !.est = TRUE], [d EXCEPT !.down = TRUE, !.disc = "Dead"]}
                   \cup (IF d.est THEN {[d EXCEPT !.down = TRUE]} ELSE {})
              ELSE {})

\* A frame is for one session by its destination MAC; a broadcast leaves every datapath as it is.
handle_l2(i) ==
    /\ ch.up
    /\ \E n \in 0..FleetSmaller(2, faults), d \in Frame(fleet[i]) :
          /\ fleet' = [fleet EXCEPT ![i] = Done(apply_phase(Begun(d, n)))]
          /\ faults' = faults - n
    /\ fleet' # fleet
    /\ UNCHANGED ch

due(d) == IF d.wait = 0 THEN d
          ELSE IF d.wait = 1 THEN FleetReset([d EXCEPT !.wait = 0])
          ELSE [d EXCEPT !.wait = @ - 1]

\* on_tick: nothing, or the attempts, the PPP restarts or the echoes run out.
on_tick(d, out) == IF ~out THEN d
                   ELSE IF d.disc = "Padi" THEN [d EXCEPT !.disc = "Dead"]
                   ELSE IF d.sid # "none" /\ ~d.down THEN [d EXCEPT !.down = TRUE] ELSE d

Aged(d) == IF d.up = -1 THEN d ELSE [d EXCEPT !.up = FleetSmaller(@ + 1, FleetHeld)]
\* A dial of this very tick does not run out yet.
Ticked(d, out, n) == Done(apply_phase(on_tick(due(Begun(Aged(d), n)), out /\ d.wait # 1)))

\* The grace runs although a session is up.
Bounces_always(t) == ch.kind = "bridge" /\ ch.dark + 1 >= Grace
\* Every session has been down past the grace.
Bounces(t) == (\A i \in Sessions : t[i].up = -1) /\ ch.kind = "bridge" /\ ch.dark + 1 >= Grace

tick_sessions ==
    /\ ch.up
    /\ \E out \in [Sessions -> BOOLEAN], f \in Failing(Sessions) :
          LET t == [i \in Sessions |-> Ticked(fleet[i], out[i], f[i])]
          IN  /\ faults' = faults - Total(f)
              /\ IF Bounces(t)
                 THEN fleet' = [i \in Sessions |-> Lost(t[i])] /\ Dropped
                 ELSE /\ fleet' = t
                      /\ ch' = [ch EXCEPT !.dark = IF \E i \in Sessions : t[i].up # -1 THEN 0
                                                   ELSE FleetSmaller(@ + 1, Grace)]

FleetEnded == ~ch.run /\ UNCHANGED vars

FleetNext == Connect \/ Gone \/ Close \/ (\E i \in Sessions : handle_l2(i)) \/ tick_sessions \/ FleetEnded

FleetSpec == FleetInit /\ [][FleetNext]_vars

\* The dialer retries for ever and the negotiation tick keeps coming.
FleetDue(i) ==
    \/ i = 1 /\ Connect
    \/ i = 2 /\ tick_sessions

-----------------------------------------------------------------------------

FleetTypeOK ==
    /\ \A i \in Sessions :
         /\ fleet[i].disc \in {"Init", "Padi", "Est", "Dead"} /\ fleet[i].sid \in {"none", "here", "old"}
         /\ fleet[i].up \in -1..FleetHeld /\ fleet[i].wait \in 0..RedialMax /\ fleet[i].next \in 0..RedialMax
    /\ ch.dark \in 0..Grace /\ faults \in 0..Faults

\* A netstack holds an address exactly while its session is established on the channel that is up: never
\* through a link drop, a lost channel or a redial (driver.rs:45-47).
AddressMeansUp ==
    \A i \in Sessions : fleet[i].addr = (ch.up /\ phase(fleet[i]) = "Established" /\ fleet[i].sid = "here")

\* A torn-down session id, and the id of a dead channel, are off the wire as soon as the handler returns: the
\* wait defers the PADI only.
IdOffWire == ch.up => \A i \in Sessions : fleet[i].sid # "old" /\ (fleet[i].down => fleet[i].sid = "none")

\* A dial on a channel is the end of a wait or follows a session that held; no inbound frame sets one off.
WaitPacesDial ==
    ch.up /\ ch'.up => \A i \in Sessions :
        fleet[i].disc # "Padi" /\ fleet'[i].disc = "Padi" => fleet[i].wait = 1 \/ fleet[i].up >= FleetHeld - 1

\* The reattach of a bridge port never cuts a session that is up.
BounceOnlyDark == tick_sessions /\ ~ch'.up => \A i \in Sessions : fleet[i].up = -1 \/ fleet'[i].disc = "Dead" \/ fleet'[i].down

\* A session that is down and not dialing dials again, or the channel is replaced.
RedialsAgainWhen(i) == ch.up /\ fleet[i].disc # "Padi" /\ fleet[i].sid = "none"
RedialsAgainThen(i) == fleet[i].disc = "Padi" \/ ~ch.up

\* A bridge port on which no session comes up is given back.
DarkPortBouncedWhen == ch.up /\ ch.kind = "bridge" /\ \A i \in Sessions : fleet[i].up = -1
DarkPortBouncedThen == ~ch.up \/ \E i \in Sessions : fleet[i].up # -1
=============================================================================
