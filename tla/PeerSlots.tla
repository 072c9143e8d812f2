----------------------------- MODULE PeerSlots ------------------------------
(***************************************************************************)
(* The two ends of a peer pairing inside a client: the slot that provides  *)
(* an exit or a segment, and the slot that consumes one.                   *)
(***************************************************************************)
EXTENDS Naturals, Sequences, FiniteSets

(***************************************************************************)
(* An exit provider's slot (provider_slot and provider_pair of             *)
(* src/src/peerslot.rs) behind the client's PeerControl: control sessions  *)
(* come and go, their reader routes pair frames to the slot, the slot      *)
(* starts one task per announced pair, and a task that was admitted hands  *)
(* its session to the slot, which runs one adapter at a time.              *)
(*                                                                         *)
(* Every pair task runs beside the slot task and the control reader. The   *)
(* server numbers its pairs from 1 and starts over when it restarts. How a *)
(* pair settles its path is PairSettle; here it is the arrival of its      *)
(* PeerInfo.                                                               *)
(***************************************************************************)
CONSTANTS
    ProviderMaxPair,      \* bound: pairs of one server life
    Restarts,     \* bound: server restarts
    ProviderSessions,     \* bound: control sessions
    SlotQueue,    \* SLOT_QUEUE
    Repairs       \* bound: times the operator breaks or mends the host

SlotAssumption ==
    {ProviderMaxPair, Restarts, ProviderSessions, SlotQueue, Repairs} \subseteq Nat

VARIABLES
    providerGeneration, providerLive,     \* PeerControl's cell: the generation, a session is up
    providerNext, restarts,       \* the server's next pair id; its restarts so far
    wire,                 \* frames of the control session the reader has not routed
    providerRoutes,               \* the pair ids bound to this slot
    providerQueue,                \* the slot's own queue
    task,                 \* the pair tasks, in the order they were started
    busy,                 \* the exclusive flag
    channel,              \* sessions handed over and not yet taken, with their hold
    adapter,              \* the running adapter, with its hold, or none
    held,                 \* AdapterHealth: what the next pair is refused with
    fit, repairs          \* the prechecks would pass; changes of that so far

providerVars == <<providerGeneration, providerLive, providerNext, restarts, wire, providerRoutes, providerQueue, task, busy, channel,
                  adapter, held, fit, repairs>>

control == <<providerGeneration, providerLive, providerNext, restarts>>
health == <<held, fit, repairs>>
serving == <<busy, channel, adapter>>

\* A pair frame; of, the session it came on, is history: no frame carries it.
ProviderFrame == [kind : {"probe", "info"}, pair : Nat, of : Nat]
ProviderStages == {"settling", "shaking", "handing", "lingering", "done"}
Index == 1..Len(task)
ProviderGone == [pair |-> 0, gen |-> 0, of |-> 0, stage |-> "done", info |-> FALSE,
                 hold |-> FALSE, refuse |-> FALSE]

ProviderInit ==
    /\ providerGeneration = 0 /\ providerLive = FALSE /\ providerNext = 1 /\ restarts = 0
    /\ wire = <<>> /\ providerRoutes = {} /\ providerQueue = <<>> /\ task = <<>>
    /\ busy = FALSE /\ channel = <<>> /\ adapter = "none"
    /\ held = "none" /\ fit = TRUE /\ repairs = 0

-----------------------------------------------------------------------------
\* PeerControl::install: the pair bindings go and the generation moves on.
Install ==
    /\ ~providerLive /\ providerGeneration < 2 * ProviderSessions
    /\ providerLive' = TRUE /\ providerGeneration' = providerGeneration + 1 /\ providerRoutes' = {}
    /\ UNCHANGED <<providerNext, restarts, wire, providerQueue, task, serving, health>>

\* The control guard drops, with or without a restart of the server behind it.
ProviderDisconnect(restarted) ==
    /\ providerLive /\ providerLive' = FALSE /\ providerGeneration' = providerGeneration + 1
    /\ providerRoutes' = {} /\ wire' = <<>>
    /\ restarted => restarts < Restarts
    /\ restarts' = IF restarted THEN restarts + 1 ELSE restarts
    /\ providerNext' = IF restarted THEN 1 ELSE providerNext
    /\ UNCHANGED <<providerQueue, task, serving, health>>

IsProbe(f) == f.kind = "probe"

\* The server pairs a consumer with this provider: PeerProbe, then PeerInfo.
Pairs ==
    /\ providerLive /\ wire = <<>>
    /\ providerNext <= ProviderMaxPair
    /\ providerNext' = providerNext + 1
    /\ wire' = <<[kind |-> "probe", pair |-> providerNext, of |-> providerGeneration],
                 [kind |-> "info", pair |-> providerNext, of |-> providerGeneration]>>
    /\ UNCHANGED <<providerGeneration, providerLive, restarts, providerRoutes, providerQueue, task, serving, health>>

\* route: a probe nothing claims binds its pair to the provider slot, any other
\* frame needs the binding, and a full queue drops the frame.
ProviderRoute ==
    /\ wire # <<>> /\ wire' = Tail(wire)
    /\ LET f == Head(wire) IN
       /\ providerRoutes' = IF IsProbe(f) THEN providerRoutes \cup {f.pair} ELSE providerRoutes
       /\ providerQueue' = IF f.pair \in providerRoutes' /\ Len(providerQueue) < SlotQueue
                           THEN Append(providerQueue, f) ELSE providerQueue
    /\ UNCHANGED <<control, task, serving, health>>

\* The task a pair's frames go to: the newest one still running under its id.
Newest(p) == {i \in Index : /\ task[i].pair = p /\ task[i].stage # "done"
                            /\ \A j \in Index : j > i => task[j].pair # p
                                                         \/ task[j].stage = "done"}

\* The slot reads a frame: a probe starts the pair's task on the live session,
\* and a later frame goes to the task's queue.
ReadFrame ==
    /\ providerQueue # <<>> /\ providerQueue' = Tail(providerQueue)
    /\ LET f == Head(providerQueue) IN
       task' = IF IsProbe(f)
               THEN IF providerLive
                    THEN Append(task, [pair |-> f.pair, gen |-> providerGeneration, of |-> f.of,
                                       stage |-> "settling", info |-> FALSE,
                                       hold |-> FALSE, refuse |-> FALSE])
                    ELSE task
               ELSE [i \in Index |-> IF i \in Newest(f.pair)
                                     THEN [task[i] EXCEPT !.info = TRUE] ELSE task[i]]
    /\ UNCHANGED <<control, wire, providerRoutes, serving, health>>

-----------------------------------------------------------------------------
At(i, s) == i \in Index /\ task[i].stage = s

\* AdapterHealth::refusal: a failing precheck is latched and refuses; a passing
\* one takes whatever is held, which refuses this pair and clears it.
Refusal == /\ held' = IF fit THEN "none" ELSE "precheck"
           /\ repairs' = repairs /\ fit' = fit
Refuses == ~fit \/ held # "none"

\* BusyGuard::take: one swap.
TakeSlot == ~busy

\* The path settled: the bringup is judged and the exclusive slot taken in one
\* go, just before the handshake whose message two carries the refusal.
SettlePair(i) ==
    /\ At(i, "settling") /\ task[i].info
    /\ LET hold == ~Refuses /\ TakeSlot IN
       /\ task' = [task EXCEPT ![i].stage = "shaking", ![i].hold = hold,
                               ![i].refuse = ~hold]
       /\ busy' = (busy \/ ~Refuses)
    /\ Refusal
    /\ UNCHANGED <<control, wire, providerRoutes, providerQueue, channel, adapter>>

\* A guard dropped with its task: the slot is free again. The pair binding goes
\* by its id, whoever it belongs to now.
Drop(i, stage) ==
    /\ task' = [task EXCEPT ![i] = IF stage = "done" THEN ProviderGone
                                   ELSE [@ EXCEPT !.stage = stage, !.hold = FALSE]]
    /\ busy' = (busy /\ ~task[i].hold)
    /\ providerRoutes' = IF stage = "done" THEN providerRoutes \ {task[i].pair} ELSE providerRoutes

\* Refused, by what it was going to say or as an unauthorized consumer: the
\* hold goes at once and the path lingers for the verdict.
Refuse(i) ==
    /\ At(i, "shaking") /\ Drop(i, "lingering")
    /\ UNCHANGED <<control, wire, providerQueue, channel, adapter, health>>

\* Admitted.
Admit(i) ==
    /\ At(i, "shaking") /\ ~task[i].refuse
    /\ task' = [task EXCEPT ![i].stage = "handing"]
    /\ UNCHANGED <<control, wire, providerRoutes, providerQueue, serving, health>>

\* The control session of the pair is gone, or the deadline lapses, or the
\* handshake fails.
Abandon(i) ==
    /\ At(i, "settling") \/ At(i, "shaking")
    /\ Drop(i, "done")
    /\ UNCHANGED <<control, wire, providerQueue, channel, adapter, health>>

\* The lingering path is dropped.
LingerEnds(i) ==
    /\ At(i, "lingering") /\ Drop(i, "done")
    /\ UNCHANGED <<control, wire, providerQueue, channel, adapter, health>>

\* The session and its hold go to the slot, over a channel of one.
HandOver(i) ==
    /\ At(i, "handing") /\ channel = <<>>
    /\ channel' = <<"session">>
    /\ task' = [task EXCEPT ![i] = ProviderGone]
    /\ providerRoutes' = providerRoutes \ {task[i].pair}
    /\ UNCHANGED <<control, wire, providerQueue, busy, adapter, health>>

\* serve_pair: the slot takes a session when it runs no adapter.
Serve ==
    /\ adapter = "none" /\ channel # <<>>
    /\ adapter' = "running" /\ channel' = <<>>
    /\ UNCHANGED <<control, wire, providerRoutes, providerQueue, task, busy, health>>

\* run_exit ends: with the session, or because the bringup failed, which the
\* next pair is refused with.
AdapterEnds(failed) ==
    /\ adapter = "running" /\ adapter' = "none"
    /\ busy' = FALSE
    /\ held' = IF failed THEN "bringup" ELSE held
    /\ UNCHANGED <<control, wire, providerRoutes, providerQueue, task, channel, fit, repairs>>

\* The host loses or regains what the prechecks look for.
Change ==
    /\ repairs < Repairs /\ repairs' = repairs + 1 /\ fit' = ~fit
    /\ UNCHANGED <<control, wire, providerRoutes, providerQueue, task, serving, held>>

ProviderIdle == UNCHANGED providerVars

Step(i) == SettlePair(i) \/ Refuse(i) \/ Admit(i) \/ Abandon(i) \/ LingerEnds(i)
           \/ HandOver(i)

ProviderNext ==
    \/ Install \/ \E restarted \in BOOLEAN : ProviderDisconnect(restarted)
    \/ Pairs \/ ProviderRoute \/ ReadFrame \/ Serve \/ Change
    \/ \E i \in 1..(ProviderMaxPair * (Restarts + 1)) : Step(i)
    \/ \E failed \in BOOLEAN : AdapterEnds(failed)
    \/ ProviderIdle

ProviderSpec == ProviderInit /\ [][ProviderNext]_providerVars

\* The pair tasks and the slot keep running, deadlines pass and sessions die.
ProviderDue(i, j) ==
    \/ i = 1 /\ (Serve \/ AdapterEnds(FALSE))
    \/ i = 2 /\ (Abandon(j) \/ LingerEnds(j) \/ HandOver(j))

-----------------------------------------------------------------------------
\* The guards of the exclusive flag that exist: in a pair task, in a session on
\* its way to the slot, in the adapter.
Holders ==
    Cardinality({i \in Index : task[i].hold}) + Len(channel)
        + (IF adapter = "none" THEN 0 ELSE 1)

ProviderTypeOK ==
    /\ providerGeneration \in Nat /\ providerLive \in BOOLEAN /\ providerNext \in Nat \ {0}
    /\ wire \in Seq(ProviderFrame) /\ providerQueue \in Seq(ProviderFrame) /\ Len(providerQueue) <= SlotQueue
    /\ \A i \in Index : /\ task[i].stage \in ProviderStages
                        /\ task[i].gen <= providerGeneration
                        /\ task[i].stage = "done" => ~task[i].hold
    /\ providerLive = (providerGeneration % 2 = 1) /\ (~providerLive => providerRoutes = {} /\ wire = <<>>)
    /\ Len(channel) <= 1 /\ adapter \in {"none", "running"} /\ busy \in BOOLEAN
    /\ held \in {"none", "bringup", "precheck"} /\ fit \in BOOLEAN

\* "Exit is exclusive": of the pairs settling, handshaking, changing hands and
\* being served, also across control sessions, one at most has the slot, and
\* the flag says so.
Exclusive == Holders <= 1 /\ busy = (Holders = 1)

\* However a pair ends, the slot it took is free again: no exit provider stays
\* busy for a pair that is gone.
HoldIsFreedWhen == busy
HoldIsFreedThen == ~busy

\* "Hold the pair binding the router installed for as long as the cycle that
\* owns the pair runs": a task running a pair of the live session finds its
\* frames routed, whatever the tasks of earlier sessions drop meanwhile.
BindingHeld ==
    \A i \in Index : task[i].stage \in {"settling", "shaking"} /\ task[i].of = providerGeneration
                         => task[i].pair \in providerRoutes

-----------------------------------------------------------------------------
(***************************************************************************)
(* A consumer's slot (consumer_slot and pair_as_consumer of                *)
(* src/src/peerslot.rs): wait for a control session, ask for the peer,     *)
(* follow the pair the server forms, hold the session until it dies, back  *)
(* off, and start over. The control session may end under any of it, the   *)
(* pairing deadline cuts a cycle short, and a profile switch replaces the  *)
(* slot by one for the same peer.                                          *)
(*                                                                         *)
(* The server answers a PeerConnect with a pair of a fresh id, dropping    *)
(* the one it had for this consumer, or refuses. It forgets a pair without *)
(* saying so when the provider leaves.                                     *)
(***************************************************************************)
CONSTANTS
    ConsumerMaxPair,      \* bound: pairs the server forms
    MaxAsk,       \* bound: PeerConnects sent
    ConsumerSessions,     \* bound: control sessions
    Switches,     \* bound: profile switches
    Level         \* bound: doublings of the backoff delay

ConsumerAssumption == {ConsumerMaxPair, MaxAsk, ConsumerSessions, Switches, Level} \subseteq Nat

VARIABLES
    consumerGeneration, consumerLive,     \* PeerControl's cell
    consumerNext, pair, informed, \* the server's next pair id, this consumer's pair, its PeerInfo sent
    up, down,             \* the control stream: PeerConnects up, frames down
    registered,           \* incarnations of the slot with a Result registration
    consumerRoutes,               \* pair ids bound to the slot
    consumerQueue,                \* the slot's queue
    me,                   \* the incarnation of the slot that runs
    consumerStage, cycle,         \* where its loop is; the generation it is scoped to
    asks, asked, mine,    \* history: PeerConnects sent; this cycle's; the answer to it
    backoff               \* how often the delay was doubled

consumerVars == <<consumerGeneration, consumerLive, consumerNext, pair, informed, up, down, registered, consumerRoutes, consumerQueue, me, consumerStage,
                  cycle, asks, asked, mine, backoff>>

session == <<consumerGeneration, consumerLive>>
server == <<consumerNext, pair, informed>>
slot == <<consumerStage, cycle, asks, asked, mine, backoff>>

NoPair == 0
ConsumerStages == {"offline", "asking", "settling", "up", "backoff"}
InCycle == consumerStage \in {"asking", "settling"}
ConsumerFrame == [kind : {"accepted", "refused", "info"}, pair : Nat, ask : Nat]

ConsumerInit ==
    /\ consumerGeneration = 0 /\ consumerLive = FALSE /\ consumerNext = 1 /\ pair = NoPair /\ informed = FALSE
    /\ up = <<>> /\ down = <<>> /\ registered = {1} /\ consumerRoutes = {} /\ consumerQueue = <<>>
    /\ me = 1 /\ consumerStage = "offline" /\ cycle = 0
    /\ asks = 0 /\ asked = 0 /\ mine = NoPair /\ backoff = 0

-----------------------------------------------------------------------------
Connect ==
    /\ ~consumerLive /\ consumerGeneration < 2 * ConsumerSessions
    /\ consumerLive' = TRUE /\ consumerGeneration' = consumerGeneration + 1 /\ consumerRoutes' = {}
    /\ UNCHANGED <<server, up, down, registered, consumerQueue, me, slot>>

\* The control session ends, and the server forgets the pair with it.
ConsumerDisconnect ==
    /\ consumerLive /\ consumerLive' = FALSE /\ consumerGeneration' = consumerGeneration + 1
    /\ consumerRoutes' = {} /\ up' = <<>> /\ down' = <<>> /\ pair' = NoPair
    /\ UNCHANGED <<consumerNext, informed, registered, consumerQueue, me, slot>>

\* The server reads a PeerConnect.
Accept ==
    /\ up # <<>> /\ consumerNext <= ConsumerMaxPair
    /\ up' = Tail(up) /\ consumerNext' = consumerNext + 1 /\ pair' = consumerNext
    /\ informed' = FALSE
    /\ down' = Append(down, [kind |-> "accepted", pair |-> consumerNext, ask |-> Head(up)])
    /\ UNCHANGED <<session, registered, consumerRoutes, consumerQueue, me, slot>>

\* The probes are in or late: the pair's PeerInfo goes out.
Inform ==
    /\ pair # NoPair /\ ~informed /\ informed' = TRUE
    /\ down' = Append(down, [kind |-> "info", pair |-> pair, ask |-> 0])
    /\ UNCHANGED <<session, consumerNext, pair, up, registered, consumerRoutes, consumerQueue, me, slot>>

RefuseConnect ==
    /\ up # <<>> /\ up' = Tail(up)
    /\ down' = Append(down, [kind |-> "refused", pair |-> NoPair, ask |-> Head(up)])
    /\ UNCHANGED <<session, server, registered, consumerRoutes, consumerQueue, me, slot>>

Forget == /\ pair # NoPair /\ pair' = NoPair
          /\ UNCHANGED <<session, consumerNext, informed, up, down, registered, consumerRoutes, consumerQueue, me, slot>>

\* route: a result goes to whoever is registered for the peer and binds its
\* pair, a pair frame follows the binding.
ConsumerRoute ==
    /\ down # <<>> /\ down' = Tail(down)
    /\ LET f == Head(down) IN
       /\ consumerRoutes' = IF f.kind = "accepted" /\ registered # {} THEN consumerRoutes \cup {f.pair}
                            ELSE consumerRoutes
       /\ consumerQueue' = IF (f.kind = "info" /\ f.pair \in consumerRoutes)
                              \/ (f.kind # "info" /\ me \in registered)
                           THEN Append(consumerQueue, f) ELSE consumerQueue
    /\ UNCHANGED <<session, server, up, registered, me, slot>>

-----------------------------------------------------------------------------

\* A live session and a bringup the prechecks pass: the queue is drained and
\* PeerConnect goes out.
Ask ==
    /\ consumerStage = "offline" /\ consumerLive /\ asks < MaxAsk
    /\ consumerStage' = "asking" /\ cycle' = consumerGeneration
    /\ consumerQueue' = <<>> /\ up' = Append(up, asks + 1) /\ asks' = asks + 1
    /\ asked' = asks + 1 /\ mine' = NoPair
    /\ UNCHANGED <<session, server, down, registered, consumerRoutes, me, backoff>>

\* Backoff::fail.
Fails == backoff' = IF backoff < Level THEN backoff + 1 ELSE Level

\* A bringup this consumer cannot do fails the cycle before it asks.
PrecheckFails ==
    /\ consumerStage = "offline" /\ consumerLive
    /\ consumerStage' = "backoff" /\ Fails /\ mine' = NoPair
    /\ UNCHANGED <<session, server, up, down, registered, consumerRoutes, consumerQueue, me, cycle, asks,
                   asked>>

\* The cycle ends short of a session: its pair binding is dropped with it.
EndCycle == /\ consumerStage' = "backoff" /\ Fails
            /\ consumerRoutes' = consumerRoutes \ {mine} /\ mine' = NoPair

\* The answer: the pair to follow, or the server's refusal.
ReadResult ==
    /\ consumerStage = "asking" /\ consumerQueue # <<>> /\ consumerQueue' = Tail(consumerQueue)
    /\ LET f == Head(consumerQueue) IN
       \/ /\ f.kind = "accepted" /\ consumerStage' = "settling" /\ mine' = f.pair
          /\ asked' = f.ask /\ UNCHANGED <<consumerRoutes, backoff>>
       \/ /\ f.kind = "refused" /\ EndCycle /\ UNCHANGED asked
       \/ /\ f.kind = "info" /\ UNCHANGED <<consumerStage, mine, asked, consumerRoutes, backoff>>
    /\ UNCHANGED <<session, server, up, down, registered, me, cycle, asks>>

\* The pair's own frames settle it; a frame of another pair is skipped.
Settle ==
    /\ consumerStage = "settling" /\ consumerQueue # <<>> /\ consumerQueue' = Tail(consumerQueue)
    /\ LET f == Head(consumerQueue) IN
       IF f.kind = "info" /\ f.pair = mine
       THEN \/ consumerStage' = "up" /\ backoff' = 0 /\ consumerRoutes' = consumerRoutes \ {mine} /\ UNCHANGED mine
            \/ EndCycle
       ELSE UNCHANGED <<consumerStage, backoff, consumerRoutes, mine>>
    /\ UNCHANGED <<session, server, up, down, registered, me, cycle, asks, asked>>

\* wait_gone: the session the PeerConnect went out on is not the live one.
ConsumerGone ==
    /\ InCycle /\ consumerGeneration # cycle
    /\ EndCycle
    /\ UNCHANGED <<session, server, up, down, registered, consumerQueue, me, cycle, asks, asked>>

\* The pairing deadline: 50 s, which outlasts the answer to a PeerConnect on a
\* session that is still up.
Deadline ==
    /\ InCycle /\ (consumerStage = "asking" => up = <<>> /\ down = <<>> /\ consumerQueue = <<>>)
    /\ EndCycle
    /\ UNCHANGED <<session, server, up, down, registered, consumerQueue, me, cycle, asks, asked>>

\* The session dies, with or without a failure of the adapter.
SessionEnds ==
    /\ consumerStage = "up" /\ consumerStage' = "backoff" /\ mine' = NoPair
    /\ Fails \/ UNCHANGED backoff
    /\ UNCHANGED <<session, server, up, down, registered, consumerRoutes, consumerQueue, me, cycle, asks,
                   asked>>

Retry ==
    /\ consumerStage = "backoff" /\ consumerStage' = "offline"
    /\ UNCHANGED <<session, server, up, down, registered, consumerRoutes, consumerQueue, me, cycle, asks,
                   asked, mine, backoff>>

\* The control session of the outgoing profile goes, its frames with it.
SessionGoes ==
    /\ consumerLive' = FALSE /\ consumerGeneration' = IF consumerLive THEN consumerGeneration + 1 ELSE consumerGeneration
    /\ up' = <<>> /\ down' = <<>> /\ pair' = NoPair /\ consumerRoutes' = {}

\* A profile switch ends the session body, then aborts the slot and awaits its
\* end, so its registration is gone before the next slot registers under the
\* same key.
Switch ==
    /\ me <= Switches /\ me' = me + 1 /\ SessionGoes
    /\ registered' = {me'} /\ consumerQueue' = <<>>
    /\ consumerStage' = "offline" /\ mine' = NoPair /\ backoff' = 0
    /\ UNCHANGED <<consumerNext, informed, cycle, asks, asked>>

ConsumerIdle == UNCHANGED consumerVars

ConsumerNext ==
    \/ Connect \/ ConsumerDisconnect \/ Accept \/ Inform \/ RefuseConnect \/ Forget \/ ConsumerRoute
    \/ Ask \/ PrecheckFails \/ ReadResult \/ Settle \/ ConsumerGone \/ Deadline
    \/ SessionEnds \/ Retry \/ Switch \/ ConsumerIdle

ConsumerSpec == ConsumerInit /\ [][ConsumerNext]_consumerVars

\* The server reads, the control stream delivers, the slot task runs and its
\* timers fire. Nothing makes the session end or the network settle a pair.
ConsumerDue(i) ==
    \/ i = 1 /\ (Accept \/ RefuseConnect \/ ConsumerRoute)
    \/ i = 2 /\ (ReadResult \/ Settle \/ ConsumerGone \/ Deadline \/ Retry \/ Ask)

-----------------------------------------------------------------------------
ConsumerTypeOK ==
    /\ consumerLive = (consumerGeneration % 2 = 1) /\ (~consumerLive => up = <<>> /\ down = <<>> /\ consumerRoutes = {})
    /\ pair < consumerNext /\ mine < consumerNext /\ asked <= asks /\ cycle <= consumerGeneration
    /\ consumerStage \in ConsumerStages /\ backoff \in 0..Level
    /\ \A i \in DOMAIN consumerQueue : consumerQueue[i] \in ConsumerFrame
    /\ mine # NoPair <=> consumerStage \in {"settling", "up"}

\* "A frame the last cycle left behind names a pair the server has already
\* dropped": across lost sessions and switches of the slot, the pair a cycle
\* follows answers the PeerConnect that cycle sent.
FollowsOwnAnswer == consumerStage = "settling" => asked = asks

\* The slot that runs is the one results are routed to, however often a switch
\* replaced it.
ResultsReachTheSlot == me \in registered

\* A cycle ends: neither a lost session nor a pair the server dropped without
\* a word holds the slot.
CycleEndsWhen == InCycle
CycleEndsThen == ~InCycle
=============================================================================
