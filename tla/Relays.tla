------------------------------- MODULE Relays -------------------------------
(***************************************************************************)
(* Relayed traffic: the watchdog of a bridged relay, the splice that joins *)
(* two parties on the server, and the switch between the tunnel device and *)
(* the clients attached to it.                                             *)
(***************************************************************************)
EXTENDS Naturals, Sequences, FiniteSets
LOCAL INSTANCE SequencesExt

(***************************************************************************)
(* The two ends of a bridged stream and their probe-then-reap watchdogs    *)
(* (stream_relay, stream_dgram_relay and dgram_relay of src/src/bridge.rs).*)
(* A stream end runs three futures side by side: `up` reads the local side *)
(* and sends, probing after half a window of local silence; `down` marks   *)
(* every inbound frame and writes it to the local side; the watchdog ends  *)
(* the relay when the mark is a window old. A datagram end is one loop: it *)
(* receives and writes, reads and sends, and on a tick checks the mark and *)
(* probes. One step of time is a second; a frame crosses a live path       *)
(* within a step.                                                          *)
(***************************************************************************)
CONSTANTS
    Kind,         \* "stream" or "dgram"
    Win,          \* the idle window in seconds, at least 1
    SendLimit,    \* UDP_SEND_TIMEOUT
    Stuck,        \* whether a local side may stop taking what is written to it
    Cuts          \* whether the path may black-hole

WatchAssumption ==
    /\ Kind \in {"stream", "dgram"} /\ Win \in Nat \ {0} /\ SendLimit \in Nat \ {0}
    /\ Stuck \in BOOLEAN /\ Cuts \in BOOLEAN

End == {"a", "b"}
WatchOther(e) == CHOOSE x \in End : x # e

\* The probe cadence: half the window, at least a second.
Half == IF Win \div 2 >= 1 THEN Win \div 2 ELSE 1

VARIABLES
    ends,         \* each relay: running, and how it ended
    up,           \* the sending future of a stream end, or the datagram loop
    down,         \* the receiving future of a stream end
    mark,         \* seconds since the last inbound frame
    chan,         \* the frame on its way to each end
    stuck,        \* ends whose local side takes nothing
    path,         \* "up", or the seconds since it was cut
    frozen        \* a local side stopped taking data at some point

watchVars == <<ends, up, down, mark, chan, stuck, path, frozen>>

Alive == "alive"
Reading == [at |-> "read", wait |-> 0, busy |-> FALSE]
Longest == IF SendLimit > Half THEN SendLimit ELSE Half

WatchTypeOK ==
    /\ ends \in [End -> {Alive, "reaped", "send", "closed"}]
    /\ \A e \in End : /\ up[e].at \in {"read", "data", "probe", "write"}
                      /\ up[e].wait \in 0..(Longest + 1)
    /\ down \in [End -> {"recv", "write"}]
    /\ mark \in [End -> 0..Win]
    /\ chan \in [End -> {"none", "data", "probe"}]
    /\ stuck \subseteq End

Live(e) == ends[e] = Alive
Ready(e) == IF Kind = "stream" THEN down[e] = "recv" ELSE up[e].at = "read"

Finish(e, how) ==
    /\ ends' = [ends EXCEPT ![e] = how]
    /\ UNCHANGED <<up, down, mark, chan, stuck, path, frozen>>

-----------------------------------------------------------------------------
\* The local side has data, at most once a second. (A stream end's read restarts the probe timer; a
\* datagram end's tick does not.)
WatchRead(e) ==
    /\ Live(e) /\ up[e].at = "read" /\ ~up[e].busy
    /\ up' = [up EXCEPT ![e] = [at |-> "data", busy |-> TRUE, wait |-> IF Kind = "stream" THEN 0 ELSE @.wait]]
    /\ UNCHANGED <<ends, down, mark, chan, stuck, path, frozen>>

\* A stream end whose local side was quiet for half a window pokes the peer.
Probe(e) ==
    /\ Kind = "stream" /\ Live(e)
    /\ up[e].at = "read" /\ up[e].wait >= Half
    /\ up' = [up EXCEPT ![e] = [@ EXCEPT !.at = "probe", !.wait = 0]]
    /\ UNCHANGED <<ends, down, mark, chan, stuck, path, frozen>>

\* The datagram tick: reap, or probe.
DgramTick(e) ==
    /\ Kind = "dgram" /\ Live(e)
    /\ up[e].at = "read" /\ up[e].wait >= Half
    /\ IF mark[e] >= Win THEN Finish(e, "reaped")
       ELSE /\ up' = [up EXCEPT ![e] = [@ EXCEPT !.at = "probe", !.wait = 0]]
            /\ UNCHANGED <<ends, down, mark, chan, stuck, path, frozen>>

\* A stream waits for the frame before it; a cut path takes frames until the
\* transport's buffers are full, which may be at once.
WatchCanSend(e) == path # "up" \/ chan[WatchOther(e)] = "none" \/ Kind = "dgram"
MustSend(e) == (path = "up" /\ chan[WatchOther(e)] = "none") \/ Kind = "dgram"

\* The frame leaves.
WatchSent(e) ==
    /\ Live(e) /\ up[e].at \in {"data", "probe"} /\ WatchCanSend(e)
    /\ chan' = IF path = "up" /\ chan[WatchOther(e)] = "none"
               THEN [chan EXCEPT ![WatchOther(e)] = up[e].at] ELSE chan
    /\ up' = [up EXCEPT ![e] = [@ EXCEPT !.at = "read", !.wait = IF Kind = "stream" THEN 0 ELSE @]]
    /\ UNCHANGED <<ends, down, mark, stuck, path, frozen>>

\* A send that gets nowhere for UDP_SEND_TIMEOUT ends the relay.
SendTimeout(e) ==
    /\ Live(e) /\ up[e].at \in {"data", "probe"}
    /\ up[e].wait >= SendLimit
    /\ Finish(e, "send")

\* An inbound frame that marks only when it carries data.
RecvUnmarked(e) ==
    /\ Live(e) /\ Ready(e) /\ chan[e] # "none" /\ path = "up"
    /\ chan' = [chan EXCEPT ![e] = "none"]
    /\ mark' = [mark EXCEPT ![e] = IF chan[e] = "data" THEN 0 ELSE @]
    /\ down' = [down EXCEPT ![e] = IF Kind = "stream" /\ chan[e] = "data" THEN "write" ELSE @]
    /\ up' = [up EXCEPT ![e].at = IF Kind = "dgram" /\ chan[e] = "data" THEN "write" ELSE @]
    /\ UNCHANGED <<ends, stuck, path, frozen>>

\* Every inbound frame, a probe included, refreshes the mark; data goes to the
\* local side.
Recv(e) ==
    /\ Live(e) /\ Ready(e) /\ chan[e] # "none" /\ path = "up"
    /\ chan' = [chan EXCEPT ![e] = "none"]
    /\ mark' = [mark EXCEPT ![e] = 0]
    /\ down' = [down EXCEPT ![e] = IF Kind = "stream" /\ chan[e] = "data" THEN "write" ELSE @]
    /\ up' = [up EXCEPT ![e].at = IF Kind = "dgram" /\ chan[e] = "data" THEN "write" ELSE @]
    /\ UNCHANGED <<ends, stuck, path, frozen>>

Writing(e) == down[e] = "write" \/ up[e].at = "write"

Written(e) ==
    /\ Live(e) /\ Writing(e) /\ e \notin stuck
    /\ down' = [down EXCEPT ![e] = "recv"]
    /\ up' = [up EXCEPT ![e].at = IF @ = "write" THEN "read" ELSE @]
    /\ UNCHANGED <<ends, mark, chan, stuck, path, frozen>>

\* The stream watchdog runs beside both directions.
Watchdog(e) ==
    /\ Kind = "stream" /\ Live(e)
    /\ mark[e] >= Win
    /\ Finish(e, "reaped")

\* The local side closes, or the peer's end of a live path does.
Closes(e) == Live(e) /\ up[e].at = "read" /\ Finish(e, "closed")
PeerGone(e) ==
    /\ Live(e) /\ Ready(e) /\ path = "up" /\ ~Live(WatchOther(e)) /\ Kind = "stream"
    /\ Finish(e, "closed")

-----------------------------------------------------------------------------
\* A local side stops taking data (a stream's backpressure), once, and resumes.
Freeze(e) ==
    /\ Stuck /\ Kind = "stream" /\ Live(e) /\ ~frozen
    /\ stuck' = {e} /\ frozen' = TRUE
    /\ UNCHANGED <<ends, up, down, mark, chan, path>>

Thaw ==
    /\ stuck # {}
    /\ stuck' = {}
    /\ UNCHANGED <<ends, up, down, mark, chan, path, frozen>>

CutPath ==
    /\ Cuts /\ path = "up"
    /\ path' = "cut"
    /\ UNCHANGED <<ends, up, down, mark, chan, stuck, frozen>>

\* What must happen before a second can pass.
Due(e) ==
    /\ Live(e)
    /\ \/ up[e].at = "read" /\ up[e].wait >= Half
       \/ up[e].at \in {"data", "probe"} /\ (MustSend(e) \/ up[e].wait >= SendLimit)
       \/ Ready(e) /\ path = "up" /\ (chan[e] # "none" \/ (~Live(WatchOther(e)) /\ Kind = "stream"))
       \/ Writing(e) /\ e \notin stuck
       \/ Kind = "stream" /\ mark[e] >= Win

Tick ==
    /\ \A e \in End : ~Due(e)
    /\ \E e \in End : Live(e)
    /\ up' = [e \in End |-> IF Live(e) THEN [up[e] EXCEPT !.wait = @ + 1, !.busy = FALSE] ELSE up[e]]
    /\ mark' = [e \in End |-> IF Live(e) /\ mark[e] < Win THEN mark[e] + 1 ELSE mark[e]]
    /\ UNCHANGED <<ends, down, chan, stuck, path, frozen>>

WatchOver == (\A e \in End : ~Live(e)) /\ UNCHANGED watchVars

WatchInit ==
    /\ ends = [e \in End |-> Alive]
    /\ up = [e \in End |-> Reading]
    /\ down = [e \in End |-> "recv"]
    /\ mark = [e \in End |-> 0]
    /\ chan = [e \in End |-> "none"]
    /\ stuck = {} /\ path = "up" /\ frozen = FALSE

WatchNext ==
    \/ \E e \in End :
           \/ WatchRead(e) \/ Probe(e) \/ DgramTick(e) \/ WatchSent(e) \/ SendTimeout(e)
           \/ Recv(e) \/ Written(e) \/ Watchdog(e) \/ Closes(e) \/ PeerGone(e) \/ Freeze(e)
    \/ Thaw \/ CutPath \/ Tick \/ WatchOver

\* Timers fire and ready futures are polled; time passes.
WatchDue(i, e) ==
    \/ i = 1 /\ Tick
    \/ i = 2 /\ (Probe(e) \/ WatchSent(e) \/ SendTimeout(e) \/ Watchdog(e))
    \/ i = 3 /\ (Recv(e) \/ Written(e))

WatchSpec == WatchInit /\ [][WatchNext]_watchVars

-----------------------------------------------------------------------------
\* "A live peer answers and refreshes the mark, so the independent watchdog reaps
\* only on a true black hole" (bridge.rs:175): an end is reaped only when the
\* path was cut or the other end is gone.
ReapsOnlyBlackHoles ==
    \A e \in End : ends[e] = "reaped" => path # "up" \/ ~Live(WatchOther(e))

\* The same for local sides that never stop taking what is written to them.
ReapsAreDeserved == frozen \/ ReapsOnlyBlackHoles

\* A black-holed relay ends at both ends, whatever they were doing (the bounded
\* send and the watchdog beside it).
BlackHoleIsReapedWhen == path # "up"
BlackHoleIsReapedThen == \A e \in End : ~Live(e)

-----------------------------------------------------------------------------
(***************************************************************************)
(* The relay between the two legs of a pair (splice_relay and pump_leg of  *)
(* src/src/server.rs).  A leg is an encrypted stream or a datagram channel *)
(* (recv_data of src/src/noise.rs and src/src/dgram.rs): a stream holds a  *)
(* writer up when its party does not read, a datagram channel drops.       *)
(***************************************************************************)
CONSTANTS
    Kinds,      \* kinds of leg: "stream", "dgram"
    SpliceFrames,     \* what a party writes: "data", "empty", "keepalive", "name"
    MaxFrames,  \* how many each party writes
    Room,       \* frames a leg holds toward its party
    Lazy        \* may a party stop reading while its leg is alive?

Legs == {"a", "b"}
SpliceOther(l) == IF l = "a" THEN "b" ELSE "a"
None == <<>>

VARIABLES
    kind,     \* of each leg
    inq,      \* from the party of leg l, to be read by the relay
    hold,     \* read from leg l and not yet written to the other, None or <<frame>>
    outq,     \* written to leg l, to be read by its party
    alive,    \* the party's end of leg l
    splice,   \* "on" or "dropped"
    stop,     \* the pair's stop was sent
    sent,     \* ghost: what the party of leg l wrote, numbered
    got       \* ghost: what the party of leg l has read

spliceVars == <<kind, inq, hold, outq, alive, splice, stop, sent, got>>

Carries(f) == f.body = "data"

SpliceInit ==
    /\ kind \in [Legs -> Kinds]
    /\ inq = [l \in Legs |-> <<>>] /\ hold = [l \in Legs |-> None] /\ outq = [l \in Legs |-> <<>>]
    /\ alive = [l \in Legs |-> TRUE]
    /\ splice = "on" /\ stop = FALSE
    /\ sent = [l \in Legs |-> <<>>] /\ got = [l \in Legs |-> <<>>]

\* A stream has no labels and its keepalive is the empty frame.
Write(l, body) ==
    /\ alive[l] /\ splice = "on"
    /\ Len(sent[l]) < MaxFrames
    /\ kind[l] = "stream" => body \in {"data", "empty"}
    /\ LET f == [body |-> body, n |-> Len(sent[l]) + 1]
       IN  /\ sent' = [sent EXCEPT ![l] = Append(@, f)]
           /\ inq' = [inq EXCEPT ![l] = Append(@, f)]
    /\ UNCHANGED <<kind, hold, outq, alive, splice, stop, got>>

SpliceRead(l) ==
    /\ outq[l] # <<>> /\ alive[l]
    /\ got' = [got EXCEPT ![l] = Append(@, Head(outq[l]))]
    /\ outq' = [outq EXCEPT ![l] = Tail(@)]
    /\ UNCHANGED <<kind, inq, hold, alive, splice, stop, sent>>

Die(l) ==
    /\ alive[l]
    /\ alive' = [alive EXCEPT ![l] = FALSE]
    /\ UNCHANGED <<kind, inq, hold, outq, splice, stop, sent, got>>

Stop ==
    /\ ~stop
    /\ stop' = TRUE
    /\ UNCHANGED <<kind, inq, hold, outq, alive, splice, sent, got>>

-----------------------------------------------------------------------------
\* What recv_data of a leg hands up.
Passes(l, f) == IF kind[l] = "stream" THEN f.body # "empty" ELSE f.body = "data"

recv(l) ==
    /\ splice = "on" /\ hold[l] = None /\ inq[l] # <<>>
    /\ inq' = [inq EXCEPT ![l] = Tail(@)]
    /\ hold' = [hold EXCEPT ![l] = IF Passes(l, Head(inq[l])) THEN <<Head(inq[l])>> ELSE None]
    /\ UNCHANGED <<kind, outq, alive, splice, stop, sent, got>>

SpliceCanSend(l) == kind[l] = "dgram" \/ Len(outq[l]) < Room

SpliceSent(l) == None

\* A full datagram queue drops the frame.
LegSend(l) ==
    LET to == SpliceOther(l)
    IN  /\ splice = "on" /\ hold[l] # None /\ alive[to]
        /\ SpliceCanSend(to)
        /\ outq' = [outq EXCEPT ![to] = IF Len(@) < Room THEN Append(@, hold[l][1]) ELSE @]
        /\ hold' = [hold EXCEPT ![l] = SpliceSent(l)]
        /\ UNCHANGED <<kind, inq, alive, splice, stop, sent, got>>

\* A pump ends: its leg's reads are used up and dead, or its write fails.
PumpEnds(l) ==
    \/ hold[l] = None /\ inq[l] = <<>> /\ ~alive[l]
    \/ hold[l] # None /\ ~alive[SpliceOther(l)]

Ends == stop \/ \E l \in Legs : PumpEnds(l)

\* Either pump ending, or the stop, drops both legs.
splice_relay ==
    /\ splice = "on"
    /\ Ends
    /\ splice' = "dropped"
    /\ hold' = [l \in Legs |-> None] /\ inq' = [l \in Legs |-> <<>>]
    /\ UNCHANGED <<kind, outq, alive, stop, sent, got>>

SpliceOver == splice = "dropped" /\ UNCHANGED spliceVars

SpliceNext ==
    \/ \E l \in Legs, body \in SpliceFrames : Write(l, body)
    \/ \E l \in Legs : SpliceRead(l)
    \/ \E l \in Legs : Die(l)
    \/ Stop
    \/ \E l \in Legs : recv(l)
    \/ \E l \in Legs : LegSend(l)
    \/ splice_relay
    \/ SpliceOver

\* The relay runs when it can; a party that is not lazy reads what has come.
SpliceDue(i, l) ==
    \/ i = 1 /\ splice_relay
    \/ i = 2 /\ (recv(l) \/ LegSend(l))
    \/ i = 3 /\ SpliceRead(l)

SpliceSpec == SpliceInit /\ [][SpliceNext]_spliceVars

-----------------------------------------------------------------------------
\* A leg holds no more than its room, and one frame at a time is between legs.
SpliceTypeOK ==
    /\ kind \in [Legs -> Kinds] /\ alive \in [Legs -> BOOLEAN]
    /\ \A l \in Legs : Len(outq[l]) <= Room /\ Len(hold[l]) <= 1 /\ Len(inq[l]) <= MaxFrames
    /\ splice \in {"on", "dropped"} /\ stop \in BOOLEAN

\* What a party reads is, in order and each once, of the frames with a body
\* the other wrote: hop keepalives, labels and empty frames cross on no
\* combination of legs (LegRead::recv).
SubSeqOf(s, t) == \A i \in DOMAIN s : s[i] \in ToSet(t) /\ \A j \in DOMAIN s : i < j => s[i].n < s[j].n
SameOnEveryPath == \A l \in Legs : SubSeqOf(got[l] \o outq[l], SelectSeq(sent[SpliceOther(l)], Carries))

\* Toward a stream nothing is lost while the relay is up: everything between
\* the legs is still on its way.
StreamLosesNothing ==
    \A l \in Legs : (splice = "on" /\ kind[l] = "stream") =>
        got[l] \o outq[l] \o hold[SpliceOther(l)] \o SelectSeq(inq[SpliceOther(l)], Carries)
            = SelectSeq(sent[SpliceOther(l)], Carries)

\* The death of either leg drops both, for closing the other leg is the only
\* way its party learns of it (the comment on splice_relay).
DieTogetherWhen(l) == ~alive[l]
DieTogetherThen(l) == splice = "dropped"

-----------------------------------------------------------------------------
(***************************************************************************)
(* The software switch between one TAP or TUN device and the attached      *)
(* ports (TapSwitch of src/src/bridge.rs). One reader task takes frames    *)
(* from the device and fans them out; each port's relay learns the source  *)
(* addresses of its client's frames and writes them to the device, or, on  *)
(* a segment switch, to another port. The port map and the MAC table have  *)
(* a lock each and no step holds both. Dropping a port's handle removes    *)
(* the port and then purges its addresses; so does a sender that finds the *)
(* port's queue closed.                                                    *)
(*                                                                         *)
(* A frame is a source and a destination; the destination "group" stands   *)
(* for broadcast and multicast.                                            *)
(***************************************************************************)
CONSTANTS
    Mac,          \* unicast station addresses
    MaxPort,      \* ports attached, over the whole run
    L2,           \* a TAP device; otherwise a TUN one, with one client
    PortToPort,   \* a segment switch
    MaxMacs,      \* MAX_MACS_PER_SWITCH
    SwitchFrames        \* frames, over the whole run

SwitchAssumption ==
    /\ MaxPort \in Nat /\ MaxMacs \in Nat \ {0} /\ SwitchFrames \in Nat
    /\ L2 \in BOOLEAN /\ PortToPort \in BOOLEAN

Port == 1..MaxPort
Device == 0
Nobody == MaxPort + 1

VARIABLES
    ports,        \* the port map: attached port ids
    macs,         \* the MAC table: station -> port, Nobody when not learned
    relays,       \* each port's relay task
    reader,       \* the device reader
    frames,       \* frames so far
    last,         \* history: where each station transmitted last
    skipped       \* history: stations whose last device frame took the fast path

switchVars == <<ports, macs, relays, reader, frames, last, skipped>>

\* A relay: its phase, whether its client was heard, whether it was cancelled,
\* the frame it is routing and the port it looked up.
NoRelay == [at |-> "none", proven |-> FALSE, cancel |-> FALSE,
            dst |-> "none", owner |-> Nobody, purge |-> Nobody]
\* The reader: its phase, the frame, the owner it looked up, a port to purge.
NoReader == [at |-> "read", src |-> "none", dst |-> "none", owner |-> Nobody, purge |-> Nobody]

SwitchTypeOK ==
    /\ ports \subseteq Port
    /\ macs \in [Mac -> Port \cup {Nobody}]
    /\ \A p \in Port : relays[p].at \in
           {"none", "up", "lookup", "send", "evict", "closed", "dropped", "gone"}
    /\ reader.at \in {"read", "unlearn", "lookup", "send", "evict", "dead"}
    /\ last \in [Mac -> Port \cup {Device, Nobody}]
    /\ skipped \subseteq Mac

Free == {p \in Port : relays[p].at = "none"}
\* The port's queue has a receiver.
Open(p) == relays[p].at \in {"up", "lookup", "send", "evict"}
Known == {m \in Mac : macs[m] # Nobody}

Purged(p) == [m \in Mac |-> IF macs[m] = p THEN Nobody ELSE macs[m]]

-----------------------------------------------------------------------------

\* attach: a TUN switch refuses while a client that was heard holds the slot, and
\* otherwise drops and cancels whoever holds it.
Attach(p, proven) ==
    /\ p \in Free /\ \A q \in Free : p <= q
    /\ L2 \/ \A q \in ports : ~relays[q].proven
    /\ ports' = IF L2 THEN ports \cup {p} ELSE {p}
    /\ relays' = [q \in Port |->
           IF q = p THEN [NoRelay EXCEPT !.at = "up", !.proven = proven]
           ELSE IF ~L2 /\ q \in ports THEN [relays[q] EXCEPT !.cancel = TRUE]
           ELSE relays[q]]
    /\ UNCHANGED <<macs, reader, frames, last, skipped>>

\* A frame from a datagram client, a keepalive included, proves its port.
Heard(p) ==
    /\ relays[p].at = "up" /\ ~relays[p].proven
    /\ relays' = [relays EXCEPT ![p].proven = TRUE]
    /\ UNCHANGED <<ports, macs, reader, frames, last, skipped>>

Learned(m, p) ==
    IF m \in Known \/ Cardinality(Known) < MaxMacs THEN [macs EXCEPT ![m] = p] ELSE macs

\* An egress frame: its source is learned, and a segment switch then looks for
\* the destination among its ports. Everything else goes to the device.
Egress(p, src, dst) ==
    /\ L2 /\ relays[p].at = "up" /\ frames < SwitchFrames
    /\ frames' = frames + 1
    /\ macs' = Learned(src, p)
    /\ last' = [last EXCEPT ![src] = p]
    /\ skipped' = skipped \ {src}
    /\ relays' = [relays EXCEPT ![p] = [@ EXCEPT !.proven = TRUE,
           !.at = IF PortToPort /\ dst # "group" THEN "lookup" ELSE "up", !.dst = dst]]
    /\ UNCHANGED <<ports, reader>>

\* forward_egress reads the owner; its own port, or none, means the device.
EgressLookup(p) ==
    /\ relays[p].at = "lookup"
    /\ relays' = [relays EXCEPT ![p] = [@ EXCEPT !.dst = "none",
           !.at = IF macs[relays[p].dst] \in {Nobody, p} THEN "up" ELSE "send",
           !.owner = IF macs[relays[p].dst] \in {Nobody, p} THEN Nobody ELSE macs[relays[p].dst]]]
    /\ UNCHANGED <<ports, macs, reader, frames, last, skipped>>

\* It then sends to that port; a closed queue evicts it, a vanished port leaves
\* the frame to the device.
EgressSend(p) ==
    /\ relays[p].at = "send"
    /\ LET q == relays[p].owner
           evicts == q \in ports /\ ~Open(q)
       IN  /\ ports' = IF evicts THEN ports \ {q} ELSE ports
           /\ relays' = [relays EXCEPT ![p] = [@ EXCEPT !.owner = Nobody,
                  !.at = IF evicts THEN "evict" ELSE "up",
                  !.purge = IF evicts THEN q ELSE Nobody]]
    /\ UNCHANGED <<macs, reader, frames, last, skipped>>

EgressPurge(p) ==
    /\ relays[p].at = "evict"
    /\ macs' = Purged(relays[p].purge)
    /\ relays' = [relays EXCEPT ![p] = [@ EXCEPT !.at = "up", !.purge = Nobody]]
    /\ UNCHANGED <<ports, reader, frames, last, skipped>>

\* The relay ends: its session died, it idled out, or its cancel fired. The
\* queue's receiver goes first.
RelayEnds(p) ==
    /\ relays[p].at = "up"
    /\ relays' = [relays EXCEPT ![p].at = "closed"]
    /\ UNCHANGED <<ports, macs, reader, frames, last, skipped>>

\* Then the handle is dropped: the port leaves the map, and its addresses the
\* table.
DropPort(p) ==
    /\ relays[p].at = "closed"
    /\ ports' = ports \ {p}
    /\ relays' = [relays EXCEPT ![p].at = "dropped"]
    /\ UNCHANGED <<macs, reader, frames, last, skipped>>

DropMacs(p) ==
    /\ relays[p].at = "dropped"
    /\ macs' = Purged(p)
    /\ relays' = [relays EXCEPT ![p] = [NoRelay EXCEPT !.at = "gone"]]
    /\ UNCHANGED <<ports, reader, frames, last, skipped>>

-----------------------------------------------------------------------------
\* read_loop takes a frame. With one port attached it goes there unparsed.
DeviceFrame(src, dst) ==
    /\ L2 /\ reader.at = "read" /\ frames < SwitchFrames
    /\ frames' = frames + 1
    /\ last' = [last EXCEPT ![src] = Device]
    /\ IF Cardinality(ports) = 1
       THEN skipped' = skipped \cup {src} /\ UNCHANGED reader
       ELSE /\ skipped' = skipped \ {src}
            /\ reader' = [NoReader EXCEPT !.at = "unlearn", !.src = src, !.dst = dst]
    /\ UNCHANGED <<ports, macs, relays>>

\* forward_inbound first forgets the port binding of the source.
Unlearn ==
    /\ reader.at = "unlearn"
    /\ macs' = [macs EXCEPT ![reader.src] = Nobody]
    /\ reader' = IF reader.dst = "group" THEN NoReader ELSE [reader EXCEPT !.at = "lookup"]
    /\ UNCHANGED <<ports, relays, frames, last, skipped>>

\* An unknown destination is flooded, a known one looked up.
InboundLookup ==
    /\ reader.at = "lookup"
    /\ reader' = IF macs[reader.dst] = Nobody THEN NoReader
                 ELSE [reader EXCEPT !.at = "send", !.owner = macs[reader.dst]]
    /\ UNCHANGED <<ports, macs, relays, frames, last, skipped>>

\* The owner's queue takes the frame; a closed one evicts the port, a vanished
\* port floods the frame.
InboundSend ==
    /\ reader.at = "send"
    /\ LET q == reader.owner
           evicts == q \in ports /\ ~Open(q)
       IN  /\ ports' = IF evicts THEN ports \ {q} ELSE ports
           /\ reader' = IF evicts THEN [NoReader EXCEPT !.at = "evict", !.purge = q] ELSE NoReader
    /\ UNCHANGED <<macs, relays, frames, last, skipped>>

InboundPurge ==
    /\ reader.at = "evict"
    /\ macs' = Purged(reader.purge)
    /\ reader' = NoReader
    /\ UNCHANGED <<ports, relays, frames, last, skipped>>

\* A flood meets a closed queue and evicts its port.
FloodEvicts(p) ==
    /\ reader.at = "read" /\ p \in ports /\ ~Open(p) /\ Cardinality(ports) > 1
    /\ ports' = ports \ {p}
    /\ reader' = [NoReader EXCEPT !.at = "evict", !.purge = p]
    /\ UNCHANGED <<macs, relays, frames, last, skipped>>

\* The device fails: every attached port is cancelled and the reader returns.
DeviceDies ==
    /\ reader.at = "read"
    /\ reader' = [NoReader EXCEPT !.at = "dead"]
    /\ relays' = [p \in Port |-> IF p \in ports THEN [relays[p] EXCEPT !.cancel = TRUE]
                                 ELSE relays[p]]
    /\ UNCHANGED <<ports, macs, frames, last, skipped>>

SwitchInit ==
    /\ ports = {}
    /\ macs = [m \in Mac |-> Nobody]
    /\ relays = [p \in Port |-> NoRelay]
    /\ reader = NoReader
    /\ frames = 0
    /\ last = [m \in Mac |-> Nobody]
    /\ skipped = {}

Idle == UNCHANGED switchVars

SwitchNext ==
    \/ \E p \in Port :
           \/ \E proven \in BOOLEAN : Attach(p, proven)
           \/ Heard(p) \/ EgressLookup(p) \/ EgressSend(p) \/ EgressPurge(p)
           \/ RelayEnds(p) \/ DropPort(p) \/ DropMacs(p) \/ FloodEvicts(p)
           \/ \E src \in Mac, dst \in Mac \cup {"group"} : Egress(p, src, dst)
    \/ \E src \in Mac, dst \in Mac \cup {"group"} : DeviceFrame(src, dst)
    \/ Unlearn \/ InboundLookup \/ InboundSend \/ InboundPurge \/ DeviceDies
    \/ Idle

\* A cancelled relay's select sees the cancel; every task's next step comes.
SwitchDue(p) == EgressLookup(p) \/ EgressSend(p) \/ EgressPurge(p) \/ DropPort(p) \/ DropMacs(p)
SwitchInsisted(p) == relays[p].cancel /\ RelayEnds(p)

SwitchSpec == SwitchInit /\ [][SwitchNext]_switchVars

-----------------------------------------------------------------------------
\* No station is bound to a port that is gone, so no unicast frame is sent into
\* the void: evict_port runs twice and under two locks, and learning never
\* comes after it.
NoStaleBinding == \A m \in Known : relays[macs[m]].at # "gone"

\* A station is bound to the port it last transmitted on, except for one that was
\* last seen by the single-port fast path.
BindingsAreCurrent ==
    \A m \in Known :
        \/ macs[m] = last[m]
        \/ m \in skipped
        \/ reader.at = "unlearn" /\ reader.src = m

\* A TUN switch serves one client: the map never holds two ports, whatever
\* attaches, proofs and drops race (attach).
OneTunClient == Cardinality(ports) <= 1

\* A client that attaches while no heard client holds the TUN slot gets it, so an
\* abandoned handshake does not keep the next client out.
UnheardGivesWay ==
    (\A q \in ports : ~relays[q].proven) /\ Free # {}
        => \E p \in Free : ENABLED Attach(p, TRUE)

\* A port that was superseded, and so left the map under its running relay, goes
\* away.
SupersededEndsWhen(p) == Open(p) /\ p \notin ports
SupersededEndsThen(p) == relays[p].at = "gone"
=============================================================================
