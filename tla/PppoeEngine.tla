---------------------------- MODULE PppoeEngine -----------------------------
(***************************************************************************)
(* The PPPoE engine: discovery of an access concentrator, LCP,             *)
(* authentication and IPCP on the link, and the clamp of the MSS option of *)
(* the segments it forwards.                                               *)
(***************************************************************************)
EXTENDS FiniteSets, Integers, Sequences

(***************************************************************************)
(* PPPoE discovery (src/src/pppoe/discovery.rs) on a segment shared with   *)
(* another host and served by several access concentrators. A dial sends   *)
(* PADI, takes the first PADO, sends PADR to its sender and is established *)
(* by that sender's PADS. The shell dials again with the same address and  *)
(* Host-Uniq (reset in datapath.rs), so answers to an earlier dial may     *)
(* still be in flight. A frame, once sent, may arrive any number of times, *)
(* in any order or never. The concentrators are the environment.           *)
(***************************************************************************)
CONSTANTS
    ACs,              \* the access concentrators
    RetransmitTicks,  \* ticks without progress before a request is sent again
    MaxAttempts,      \* transmissions of a request before the dial fails
    MaxDials,         \* bound: dials
    MaxSessions,      \* bound: session ids handed out
    OtherHost,        \* whether another host dials on the segment
    Stale             \* whether answers outlive the dial they answer

PppoeDialAssumption ==
    /\ {RetransmitTicks, MaxAttempts, MaxDials, MaxSessions} \subseteq Nat \ {0}
    /\ {OtherHost, Stale} \subseteq BOOLEAN

VARIABLES
    dp,      \* the Discovery of this dial
    dials,   \* dials started
    net,     \* frames towards us, or flooded past us
    dialAsked,   \* <<ac, dial>>: PADRs of ours that reached their concentrator
    granted  \* sessions handed out: [sid, ac, host, dial]

dialVars == <<dp, dials, net, dialAsked, granted>>

None == "none"
Hosts == {"us"} \cup (IF OtherHost THEN {"other"} ELSE {})
Frames == [code : {"PADO", "PADS", "PADT"}, src : ACs, dst : Hosts, sid : 0..MaxSessions]

\* Discovery::new, rebuilt by every reset.
NewDiscovery == [st |-> "Init", ac |-> None, ticks |-> 0, attempts |-> 0, sid |-> 0, via |-> None]

DialInit ==
    /\ dp = NewDiscovery /\ dials = 0
    /\ net = {} /\ dialAsked = {} /\ granted = {}

-----------------------------------------------------------------------------
\* start: the first PADI of a dial.
Start ==
    /\ dp.st \in {"Init", "Dead"} /\ dials < MaxDials
    /\ dials' = dials + 1
    /\ dp' = [NewDiscovery EXCEPT !.st = "PadiSent"]
    /\ IF Stale THEN UNCHANGED <<net, dialAsked>>
       ELSE net' = {} /\ dialAsked' = {}
    /\ UNCHANGED granted

\* The established session ends and the shell resets the datapath.
Redial ==
    /\ dp.st = "Established"
    /\ dp' = [NewDiscovery EXCEPT !.st = "Dead"]
    /\ UNCHANGED <<dials, net, dialAsked, granted>>

\* The Host-Uniq of a frame is that of the host it answers; ours is always set.
host_uniq_matches(f) == f.dst = "us"

\* The first valid PADO wins; PADR goes to its sender.
OnPado(f) ==
    /\ dp.st = "PadiSent" /\ f.code = "PADO" /\ f.dst = "us" /\ host_uniq_matches(f)
    /\ dp' = [dp EXCEPT !.st = "PadrSent", !.ac = f.src, !.ticks = 0, !.attempts = 0]

OnPads(f) ==
    /\ dp.st = "PadrSent" /\ f.code = "PADS" /\ f.dst = "us" /\ f.src = dp.ac
    /\ host_uniq_matches(f) /\ f.sid # 0
    /\ dp' = [dp EXCEPT !.st = "Established", !.sid = f.sid, !.via = f.src]

\* A PADT of the chosen concentrator ends the dial in any state.
OnPadt(f) ==
    /\ f.code = "PADT" /\ dp.ac # None /\ f.src = dp.ac
    /\ dp' = [dp EXCEPT !.st = "Dead"]

\* on_frame; a frame that does not advance the state is dropped.
OnFrame(f) ==
    /\ f \in net
    /\ OnPado(f) \/ OnPads(f) \/ OnPadt(f)
    /\ UNCHANGED <<dials, net, dialAsked, granted>>

DialOnTick ==
    /\ dp.st \in {"PadiSent", "PadrSent"}
    /\ dp' = IF dp.ticks + 1 < RetransmitTicks THEN [dp EXCEPT !.ticks = @ + 1]
             ELSE IF dp.attempts + 1 >= MaxAttempts THEN [dp EXCEPT !.st = "Dead"]
             ELSE [dp EXCEPT !.attempts = @ + 1, !.ticks = 0]
    /\ UNCHANGED <<dials, net, dialAsked, granted>>

-----------------------------------------------------------------------------
\* The concentrators: an offer to a host that dials, a session for each PADR, and its end.
Offer(ac, h) ==
    /\ h = "us" => dp.st = "PadiSent"
    /\ net' = net \cup {[code |-> "PADO", src |-> ac, dst |-> h, sid |-> 0]}
    /\ UNCHANGED <<dp, dials, dialAsked, granted>>

HearPadr ==
    /\ dp.st = "PadrSent"
    /\ dialAsked' = dialAsked \cup {<<dp.ac, dials>>}
    /\ UNCHANGED <<dp, dials, net, granted>>

Grant(ac, h, d) ==
    /\ h = "us" => <<ac, d>> \in dialAsked
    /\ Cardinality(granted) < MaxSessions
    /\ LET sid == Cardinality(granted) + 1 IN
       /\ granted' = granted \cup {[sid |-> sid, ac |-> ac, host |-> h, dial |-> d]}
       /\ net' = net \cup {[code |-> "PADS", src |-> ac, dst |-> h, sid |-> sid]}
    /\ UNCHANGED <<dp, dials, dialAsked>>

Terminate(g) ==
    /\ net' = net \cup {[code |-> "PADT", src |-> g.ac, dst |-> g.host, sid |-> g.sid]}
    /\ UNCHANGED <<dp, dials, dialAsked, granted>>

Idle == dp.st \in {"Established", "Dead"} /\ UNCHANGED dialVars

DialNext ==
    \/ Start \/ Redial \/ DialOnTick \/ HearPadr \/ Idle
    \/ \E f \in net : OnFrame(f)
    \/ \E ac \in ACs, h \in Hosts : Offer(ac, h)
    \/ \E ac \in ACs, h \in Hosts, d \in 1..dials : Grant(ac, h, d)
    \/ \E g \in granted : Terminate(g)

DialSpec == DialInit /\ [][DialNext]_dialVars
\* The shell ticks once a second.
DialDue == DialOnTick

-----------------------------------------------------------------------------
DialTypeOK ==
    /\ dp \in [st : {"Init", "PadiSent", "PadrSent", "Established", "Dead"}, ac : ACs \cup {None},
               ticks : 0..RetransmitTicks - 1, attempts : 0..MaxAttempts - 1,
               sid : 0..MaxSessions, via : ACs \cup {None}]
    /\ dials \in 0..MaxDials /\ net \subseteq Frames

\* A session taken is one the concentrator we chose gave to us: not another host's on the segment,
\* not one another concentrator granted to an earlier dial, and frames go to the one that granted it.
SessionIsOurs ==
    dp.st = "Established" =>
        \E g \in granted : g.sid = dp.sid /\ g.host = "us" /\ g.ac = dp.ac /\ dp.via = g.ac

\* The concentrator is chosen once: between PADI and the end of the dial no later PADO moves it.
ChosenOnce == dp.ac # None /\ dials' = dials /\ dp'.st # "Dead" => dp'.ac = dp.ac

\* A dial ends: established or dead, however many answers are lost.
DialEndsWhen == dp.st \in {"PadiSent", "PadrSent"}
DialEndsThen == dp.st \in {"Established", "Dead"}

-----------------------------------------------------------------------------
(***************************************************************************)
(* The PPP session of the PPPoE client (src/src/pppoe/ppp/*.rs, auth.rs    *)
(* and the sans-IO PppSession of engine.rs): two option-negotiation        *)
(* machines (LCP and IPCP) over one driver that goes Establish, Auth,      *)
(* Network, Open, or Dead. The peer may send any control packet at any     *)
(* time. Every packet fed and every timer tick is handled and polled in    *)
(* one step, as feed and on_tick do. Of the option values only the         *)
(* authentication the peer asks for and our address are kept; neither      *)
(* protocol ever answers a request with a Nak, only with Ack or Reject. A  *)
(* session that is Dead is dropped by the shell, which dials a new one.    *)
(***************************************************************************)
CONSTANTS
    RestartTicks,   \* RESTART_TICKS: ticks between two transmissions of a request
    MaxConfigure,   \* MAX_CONFIGURE: unanswered transmissions before giving up
    Asked,          \* the authentications the peer asks for
    Malformed       \* whether the peer ever sends options that do not parse

PppLinkAssumption ==
    /\ RestartTicks \in Nat \ {0} /\ MaxConfigure \in Nat \ {0}
    /\ Asked \subseteq {"none", "pap", "chap"} /\ Malformed \in BOOLEAN

VARIABLE ppp

Auths == {"none", "pap", "chap"}
Waiting == {"ReqSent", "AckReceived", "AckSent"}

Fsm == [st : {"Closed", "Opened"} \cup Waiting,
        up : BOOLEAN,                 \* up_seen
        ticks : 0..RestartTicks,      \* ticks_since_send (later ticks are not told apart)
        att : Nat,                    \* attempts
        failed : BOOLEAN,
        moved : BOOLEAN,              \* the identifier has advanced since the last request
        acked : BOOLEAN, we : BOOLEAN]  \* ghost: the peer acked our request, we acked its last one

NewFsm == [st |-> "Closed", up |-> FALSE, ticks |-> 0, att |-> 0, failed |-> FALSE,
           moved |-> FALSE, acked |-> FALSE, we |-> FALSE]

NewPpp ==
    [phase |-> "Dead", opening |-> FALSE, lcp |-> NewFsm, ipcp |-> NewFsm,
     auth |-> "none", agreed |-> "none", chap |-> FALSE, pap |-> "Closed", addr |-> "unset"]

-----------------------------------------------------------------------------
\* The option negotiation machine.

\* configure_request: every transmission restarts the timer and spends an attempt.
Transmit(f) == [f EXCEPT !.ticks = 0, !.att = @ + 1, !.moved = FALSE]
\* send_configure_request: a new request, under a new identifier.
Send(f) == [Transmit(f) EXCEPT !.acked = FALSE]
EnterClosed(f) == [f EXCEPT !.st = "Closed", !.up = FALSE]

Open(f) ==
    IF f.st # "Closed" THEN Send(f)
    ELSE Send([f EXCEPT !.failed = FALSE, !.att = 0, !.st = "ReqSent"])

\* A machine that tests its budget after it has sent.
OnTickLateTest(f) ==
    IF f.st \notin Waiting THEN f
    ELSE IF f.ticks + 1 < RestartTicks THEN [f EXCEPT !.ticks = @ + 1]
    ELSE IF f.att > MaxConfigure
         THEN IF f.up THEN [f EXCEPT !.ticks = RestartTicks]
              ELSE [EnterClosed(f) EXCEPT !.ticks = RestartTicks, !.failed = TRUE]
    ELSE Transmit([f EXCEPT !.st = IF @ = "AckReceived" THEN "ReqSent" ELSE @])

PppOnTick(f) ==
    IF f.st \notin Waiting THEN f
    ELSE IF f.ticks + 1 < RestartTicks THEN [f EXCEPT !.ticks = @ + 1]
    ELSE IF f.att >= MaxConfigure
         THEN IF f.up THEN [f EXCEPT !.ticks = RestartTicks]
              ELSE [EnterClosed(f) EXCEPT !.ticks = RestartTicks, !.failed = TRUE]
    ELSE Transmit([f EXCEPT !.st = IF @ = "AckReceived" THEN "ReqSent" ELSE @])

\* A Configure-Request we ack (good) or reject.
RcvReq(f, good) ==
    CASE f.st = "Closed" -> f
      [] f.st = "Opened" -> Send([f EXCEPT !.st = IF good THEN "AckSent" ELSE "ReqSent", !.we = good])
      [] f.st = "AckReceived" ->
            [f EXCEPT !.st = IF good THEN "Opened" ELSE @, !.up = @ \/ good, !.we = good]
      [] f.st \in {"ReqSent", "AckSent"} ->
            [f EXCEPT !.st = IF good THEN "AckSent" ELSE "ReqSent", !.we = good]

\* Any answer to our request re-arms the restart counter.
Rearm(f) == IF f.st = "Closed" THEN f ELSE [f EXCEPT !.att = 0]

RcvAck(f) ==
    CASE f.st = "Closed" -> f
      [] f.st = "ReqSent" -> [Rearm(f) EXCEPT !.st = "AckReceived", !.acked = TRUE]
      [] f.st = "AckSent" -> [Rearm(f) EXCEPT !.st = "Opened", !.up = TRUE, !.acked = TRUE]
      [] f.st \in {"AckReceived", "Opened"} -> Send([Rearm(f) EXCEPT !.st = "ReqSent"])

RcvNak(f) ==
    IF f.st = "Closed" THEN f
    ELSE Send([Rearm(f) EXCEPT !.st = IF @ = "AckSent" THEN @ ELSE "ReqSent"])

RcvTerminate(f) ==
    CASE f.st = "Closed" -> f
      [] f.st = "Opened" -> EnterClosed(f)
      [] f.st \in Waiting -> [f EXCEPT !.st = "ReqSent"]

-----------------------------------------------------------------------------
\* poll: one step of the link state machine.
PollEstablish(s) ==
    LET o == IF s.lcp.st = "Closed" /\ ~s.lcp.failed
             THEN [s EXCEPT !.lcp = Open(@), !.opening = FALSE] ELSE s
    IN  IF o.lcp.st # "Opened" THEN [o EXCEPT !.pap = "Closed", !.ipcp = EnterClosed(@)]
        ELSE CASE o.auth = "none" -> [o EXCEPT !.ipcp = Open(@), !.phase = "Network"]
               [] o.auth = "chap" -> [o EXCEPT !.phase = "Auth"]
               [] o.auth = "pap" -> [o EXCEPT !.pap = "ReqSent", !.phase = "Auth"]

PollAuth(s) ==
    IF s.chap \/ s.pap = "Opened"
    THEN [s EXCEPT !.ipcp = Open(@), !.phase = "Network"]
    ELSE [s EXCEPT !.ipcp = EnterClosed(@)]

PollNetwork(s) == IF s.ipcp.st = "Opened" THEN [s EXCEPT !.phase = "Open"] ELSE s

Ends(s) == (s.lcp.st = "Closed" /\ ~s.opening) \/ s.ipcp.failed

Poll(s) ==
    LET a == CASE s.phase = "Establish" -> PollEstablish(s)
               [] s.phase = "Auth" -> PollAuth(s)
               [] s.phase = "Network" -> PollNetwork(s)
               [] s.phase \in {"Dead", "Open"} -> s
    IN  IF Ends(a) THEN NewPpp ELSE a

-----------------------------------------------------------------------------
PppInit == ppp = NewPpp

\* PppSession::open, from Dead; the shell builds a new session for every dial.
OpenSession ==
    /\ ppp.phase = "Dead"
    /\ ppp' = Poll([ppp EXCEPT !.phase = "Establish", !.opening = TRUE])

Started == ppp.phase # "Dead"

PeerOptions(s, asked) == [s EXCEPT !.auth = asked]

LcpRequest(asked, good) ==
    /\ Started
    /\ LET s == IF ppp.lcp.st = "Closed" THEN ppp ELSE PeerOptions(ppp, asked)
           a == [s EXCEPT !.agreed = IF good THEN asked ELSE "none"]
       IN  ppp' = Poll([a EXCEPT !.lcp = RcvReq(@, good)])

\* Options that stop parsing half way: the packet is dropped, with the options before kept.
LcpMalformedRequest(asked) ==
    /\ Malformed /\ Started /\ ppp.lcp.st # "Closed"
    /\ ppp' = Poll(PeerOptions(ppp, asked))

LcpAnswer ==
    /\ Started
    /\ \/ ppp' = Poll([ppp EXCEPT !.lcp = RcvAck(@)])
       \/ ppp' = Poll([ppp EXCEPT !.lcp = RcvNak(@)])
       \/ Malformed /\ ppp' = Poll([ppp EXCEPT !.lcp = Rearm(@)])

LcpTerminate == Started /\ ppp' = Poll([ppp EXCEPT !.lcp = RcvTerminate(@)])

\* A packet of an unknown protocol: the Protocol-Reject takes the next identifier.
UnknownProtocol == Started /\ ppp' = Poll([ppp EXCEPT !.lcp.moved = TRUE])

\* PAP and CHAP packets are handled whatever was negotiated. Only a CHAP success counts as done.
ChapPacket == Started /\ \E success \in BOOLEAN : ppp' = Poll([ppp EXCEPT !.chap = success])
PapAck == Started /\ ppp.pap = "ReqSent" /\ ppp' = Poll([ppp EXCEPT !.pap = "Opened"])

\* The peer's address is acked, any other option rejected.
IpcpRequest(good) == Started /\ ppp' = Poll([ppp EXCEPT !.ipcp = RcvReq(@, good)])

\* Our address is learned from a Nak, given up on a Reject.
IpcpAnswer ==
    /\ Started
    /\ \/ ppp' = Poll([ppp EXCEPT !.ipcp = RcvAck(@)])
       \/ /\ ppp.ipcp.st # "Closed"
          /\ \E a \in {"given", "rejected"} :
                ppp' = Poll([ppp EXCEPT !.ipcp = RcvNak(@), !.addr = IF @ = "rejected" THEN @ ELSE a])

IpcpTerminate == Started /\ ppp' = Poll([ppp EXCEPT !.ipcp = RcvTerminate(@)])

Tick == Started /\ ppp' = Poll([ppp EXCEPT !.lcp = PppOnTick(@), !.ipcp = PppOnTick(@)])

PppNext ==
    \/ OpenSession \/ Tick
    \/ \E a \in Asked, good \in BOOLEAN : LcpRequest(a, good)
    \/ \E a \in Asked : LcpMalformedRequest(a)
    \/ LcpAnswer \/ LcpTerminate \/ UnknownProtocol \/ ChapPacket \/ PapAck
    \/ \E good \in BOOLEAN : IpcpRequest(good)
    \/ IpcpAnswer \/ IpcpTerminate

PppSpec == PppInit /\ [][PppNext]_ppp

-----------------------------------------------------------------------------
PppTypeOK ==
    /\ ppp.phase \in {"Dead", "Establish", "Auth", "Network", "Open"}
    /\ ppp.lcp \in Fsm /\ ppp.ipcp \in Fsm
    /\ ppp.auth \in Auths /\ ppp.agreed \in Auths
    /\ ppp.chap \in BOOLEAN /\ ppp.pap \in {"Closed", "ReqSent", "Opened"}
    /\ ppp.opening \in BOOLEAN /\ ppp.addr \in {"unset", "given", "rejected"}

\* Past Establish the link is up: LCP came to Opened and has not been closed since. A session whose
\* LCP was terminated or gave up is Dead by the end of the step that did it.
SessionNeedsLcp ==
    /\ ppp.phase \in {"Auth", "Network", "Open"} => ppp.lcp.up /\ ppp.lcp.st # "Closed"
    /\ ppp.phase = "Establish" => ppp.lcp.st \in Waiting

\* A machine is Opened only when the peer has acked our current request and we have acked its last.
OpenedBothWays == \A f \in {ppp.lcp, ppp.ipcp} : f.st = "Opened" => f.acked /\ f.we

\* No exchange of packets makes a machine transmit more than Max-Configure requests without an
\* answer between them.
TransmissionsBounded == \A f \in {ppp.lcp, ppp.ipcp} : f.att <= MaxConfigure

\* Once the session is open a timer never ends it: a renegotiation the peer leaves unanswered stops
\* retransmitting and leaves the teardown to the echo ("leave teardown to echo liveness").
OpenSurvivesTicks == Tick /\ ppp.phase = "Open" => ppp'.phase = "Open"

\* While an ack of ours stands, the authentication the session will run is the one in the request
\* that was acked ("A malformed ConfigureReq yields None: drop it, leave state unchanged").
AckedAuthStands == ppp.lcp.st \in {"AckSent", "Opened"} => ppp.auth = ppp.agreed

-----------------------------------------------------------------------------
(***************************************************************************)
(* The MSS clamp of the PPPoE datapath (src/src/pppoe/datapath.rs): a      *)
(* forwarded SYN has its TCP options walked for the MSS, which is lowered  *)
(* to the clamp, and the change is folded into the TCP checksum without    *)
(* summing the segment again.                                              *)
(*                                                                         *)
(* The arithmetic is that of bytes 0..Byte-1 and words of two bytes; with  *)
(* Byte = 256 it is the program's.  Whatever else the checksum covers is   *)
(* one word.  The option region starts on a word, as after the 20 bytes of *)
(* the fixed header.                                                       *)
(***************************************************************************)
CONSTANTS
    Byte,       \* how many values a byte has
    Regions,    \* option regions: sequences of bytes, of even length
    Others,     \* values of the word that stands for the rest of the segment
    Clamps      \* values of the clamp

ByteAssumption == Byte \in Nat /\ Byte >= 5
RegionAssumption == \A r \in Regions : Len(r) % 2 = 0 /\ \A i \in DOMAIN r : r[i] \in 0..(Byte - 1)

Word == Byte * Byte
Checks == {"ipv4", "header", "tcp", "first fragment", "syn", "options fit"}

VARIABLES
    passes,   \* which of the checks on the headers the packet passes
    opts,     \* its option region
    cksum,    \* its checksum
    other,    \* the rest of what the checksum covers
    clamp,
    i,        \* the walk's offset in the region, from 0
    at,       \* "check", "walk" or "done"
    old       \* ghost: the region as it came

clampVars == <<passes, opts, cksum, other, clamp, i, at, old>>

-----------------------------------------------------------------------------
ones_complement_add(a, b) == ((a + b) % Word) + ((a + b) \div Word)
Not(a) == Word - 1 - a

fold_tcp_checksum(hc, from, to) ==
    Not(ones_complement_add(ones_complement_add(Not(hc), Not(from)), to))

WordAt(r, n) == r[n + 1] * Byte + r[n + 2]   \* at offset n

-----------------------------------------------------------------------------
\* The words of a region and the rest, summed with end-around carry: what the
\* checksum is recomputed from.
RawSum(r, x) == x + LET s[n \in 0..(Len(r) \div 2)] == IF n = 0 THEN 0 ELSE s[n - 1] + WordAt(r, 2 * (n - 1))
                    IN  s[Len(r) \div 2]
\* A sum folded into a word: zero only when every word is zero.
Folded(s) == IF s = 0 THEN 0 ELSE IF s % (Word - 1) = 0 THEN Word - 1 ELSE s % (Word - 1)
Recomputed(r, x) == Not(Folded(RawSum(r, x)))
Valid(r, x, c) == Folded(RawSum(r, x) + c) = Word - 1

-----------------------------------------------------------------------------
ClampInit ==
    /\ opts \in Regions
    /\ passes \in {Checks} \cup {Checks \ {c} : c \in Checks}
    /\ other \in Others
    /\ clamp \in Clamps
    /\ cksum = Recomputed(opts, other)
    /\ i = 0
    /\ at = "check"
    /\ old = opts

\* Anything but a whole IPv4 TCP SYN is left alone.
Check ==
    /\ at = "check"
    /\ at' = IF passes = Checks THEN "walk" ELSE "done"
    /\ UNCHANGED <<passes, opts, cksum, other, clamp, i, old>>

kind == opts[i + 1]
len == opts[i + 2]

Stops ==
    IF i >= Len(opts) THEN TRUE
    ELSE IF kind = 1 THEN FALSE
    ELSE IF kind = 0 \/ i + 1 >= Len(opts) THEN TRUE
    ELSE len < 2 \/ i + len > Len(opts)

IsMss == ~Stops /\ kind = 2 /\ len = 4

\* The walk ends: the end of the region or of the list, or a length that does
\* not fit.
Stop ==
    /\ at = "walk"
    /\ Stops
    /\ at' = "done"
    /\ UNCHANGED <<passes, opts, cksum, other, clamp, i, old>>

\* A padding byte or another option.
Skip ==
    /\ at = "walk"
    /\ ~Stops /\ ~IsMss
    /\ i' = IF kind = 1 THEN i + 1 ELSE i + len
    /\ UNCHANGED <<passes, opts, cksum, other, clamp, at, old>>

Leave ==
    /\ at = "walk"
    /\ IsMss
    /\ WordAt(opts, i + 2) <= clamp
    /\ at' = "done"
    /\ UNCHANGED <<passes, opts, cksum, other, clamp, i, old>>

Rewritten == [opts EXCEPT ![i + 3] = clamp \div Byte, ![i + 4] = clamp % Byte]

Rewrite ==
    /\ at = "walk"
    /\ IsMss
    /\ WordAt(opts, i + 2) > clamp
    /\ opts' = Rewritten
    /\ cksum' = fold_tcp_checksum(cksum, WordAt(opts, i + 2), clamp)
    /\ at' = "done"
    /\ UNCHANGED <<passes, other, clamp, i, old>>

Over == at = "done" /\ UNCHANGED clampVars

ClampNext == Check \/ Stop \/ Skip \/ Leave \/ Rewrite \/ Over

ClampSpec == ClampInit /\ [][ClampNext]_clampVars

\* What is done when it stays possible.
ClampDue == ClampNext

-----------------------------------------------------------------------------

ClampTypeOK ==
    /\ opts \in [1..Len(old) -> 0..(Byte - 1)]
    /\ cksum \in 0..(Word - 1)
    /\ i \in 0..Len(opts)

Changed == opts # old

\* A rewrite lowers the MSS option and touches no other byte: the options of a
\* packet read the same before and after but for that value.
OnlyTheMss ==
    Changed =>
        /\ \A n \in DOMAIN old : n \notin {i + 3, i + 4} => opts[n] = old[n]
        /\ old[i + 1] = 2 /\ old[i + 2] = 4
        /\ WordAt(opts, i + 2) = clamp /\ clamp < WordAt(old, i + 2)

\* A segment with a valid checksum keeps one, when its MSS lies on a word.
StaysValid == (i % 2 = 0) => Valid(opts, other, cksum)

\* The folded checksum is the recomputed one, but for the two forms of zero
\* that a clamp of zero can tell apart.
SameAsRecomputed == (Changed /\ i % 2 = 0 /\ clamp > 0) => cksum = Recomputed(opts, other)

\* The walk ends, whatever the lengths say.
WalkEndsThen == at = "done"
=============================================================================
