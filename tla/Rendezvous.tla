----------------------------- MODULE Rendezvous -----------------------------
(***************************************************************************)
(* The server's peer rendezvous (src/src/server.rs): proven peer claims on *)
(* the registry's sessions, the pair table, candidate probes, and the      *)
(* relay that two parties fall back to.                                    *)
(*                                                                         *)
(* The actors are the reader task of every control session, the tasks of   *)
(* incoming data streams (a probe or a relay leg), the timers and the      *)
(* splice tasks. A step is one critical section of one of them. `rest`     *)
(* holds what a reader's handler still has to do after its first section.  *)
(*                                                                         *)
(* Clients are free: a session may send any frame its state lets it send,  *)
(* at any time, and a frame the server loses is one the client ignores. A  *)
(* party can name a pair or present an id only after the frame that told   *)
(* it (`told`). A reader that was not cancelled when it took a frame may   *)
(* be by the time it handles it; no handler looks, so the two are one step *)
(* here. The pending announce is local to the reader, so the announce, the *)
(* challenge and the proof are one step, at the verdict.                   *)
(***************************************************************************)
EXTENDS Registry

CONSTANTS
    Identity,     \* peer identities
    NoClaim,
    Announces,    \* the claims each client can announce and prove
    Transport,    \* "tcp" or "udp", per session
    MaxId,        \* bound: no pair is inserted once the id counter passes it
    Reports,      \* the path reports the clients of this instance make
    RandomFails   \* whether the system random source may fail

Bits == {"exit", "segment"}
Party == {"consumer", "provider"}
Other(q) == IF q = "consumer" THEN "provider" ELSE "consumer"

PeerClaims == [identity : Identity, provides : SUBSET Bits]

ASSUME RendezvousAssumption ==
    /\ NoClaim \notin PeerClaims
    /\ Announces \in [Client -> SUBSET PeerClaims]
    /\ Transport \in [Session -> {"tcp", "udp"}]
    /\ MaxId \in Nat
    /\ Reports \subseteq {"direct", "relay"}
    /\ RandomFails \in BOOLEAN

VARIABLES
    claim,        \* peer_provides and peer_identity of the session's handle
    rest,         \* the remainder of the frame handler a reader is running
    pairs,        \* pair id -> Pair
    probes,       \* probe id -> Claim
    relay_legs,   \* relay leg id -> Claim
    next_id,
    probing,      \* accept_probe tasks: probe taken, its frame awaited
    finishing,    \* probe tasks about to call finish_pair
    infos,        \* finish_pair calls between marking the pair and sending
    parking,      \* relay legs claimed and not yet parked
    splices,      \* running splice_relay tasks
    dropping,     \* per reader: ids of pairs removed and not yet forgotten
    sweeping      \* the same, for the reaper and end_relay tasks

vars == <<registry, task, doomed, cancelled,
          claim, rest, pairs, probes, relay_legs, next_id, probing,
          finishing, infos, parking, splices, dropping, sweeping>>

\* Pair, with its Relay flattened into relay, legs and parked. `timer` says the
\* pairing deadline task is armed. Three fields are auxiliary: `formed`, the
\* sessions the registry named when the pair was inserted; `told`, the parties
\* that were sent a PeerProbe; `informed`, how many PeerInfo
\* frames each was sent.
Leg == [id : Nat, client : Client]
Pair == [party : [Party -> Client], want : Bits,
         probe_id : [Party -> Nat],
         candidates : [Party -> {"none", "empty", "mapped"}],
         path : [Party -> {"none", "direct", "relay"}],
         info_sent : BOOLEAN, timer : BOOLEAN,
         relay : {"none", "open", "parked", "spliced"},
         legs : [Party -> Nat], parked : SUBSET Leg,
         formed : [Party -> Session], told : SUBSET Party,
         informed : [Party -> Nat]]
Claim == [pair : Nat, client : Client, told : BOOLEAN]

Idle == [op |-> "none", pair |-> 0, clients |-> {}]
Rest == [op : {"none", "displace", "drop", "probes", "finish", "send"},
         pair : Nat, clients : SUBSET Client]

Add(f, k, v) == [x \in DOMAIN f \cup {k} |-> IF x = k THEN v ELSE f[x]]
Without(f, ks) == [x \in DOMAIN f \ ks |-> f[x]]

\* A client id's live handle holds a proven claim.
Announced(c) == registry[c] # NoSession /\ claim[registry[c]] # NoClaim

\* The rendezvous ids a pair owns (forget_pair_ids); 0 is None.
ProbeIds(pair) == {pair.probe_id[q] : q \in Party} \ {0}
PairIds(pair) == ProbeIds(pair) \cup ({pair.legs[q] : q \in Party} \ {0})
\* The pairs a client asked for, leaving out those it provides for.
PairsAsConsumer(c) == {p \in DOMAIN pairs : pairs[p].party["consumer"] = c}

\* The pairs a client is a party to.
PairsOf(c) == {p \in DOMAIN pairs : \E q \in Party : pairs[p].party[q] = c}
IdsOf(ps) == UNION {PairIds(pairs[p]) : p \in ps}

\* The counter started at 0, which is reserved for "no pair" and "no id".
FirstIdZero == 0

\* The id counter's first value; pairs, probes and legs draw from one counter.
FirstId == 1

PeerInit ==
    /\ claim = [s \in Session |-> NoClaim]
    /\ rest = [s \in Session |-> Idle]
    /\ pairs = [p \in {} |-> 0]
    /\ probes = [i \in {} |-> 0]
    /\ relay_legs = [i \in {} |-> 0]
    /\ next_id = FirstId
    /\ probing = {} /\ finishing = {} /\ infos = {}
    /\ parking = {} /\ splices = {}
    /\ dropping = [s \in Session |-> {}]
    /\ sweeping = {}

Init == RegistryInit /\ PeerInit
-----------------------------------------------------------------------------
\* A reader takes a frame; until_cancelled lets a cancelled one take none.
Dispatch(s) == task[s] = "serving" /\ rest[s] = Idle /\ ~cancelled[s]

\* The handler returns, or leaves the reader with r still to do.
Return(s) == rest' = [rest EXCEPT ![s] = Idle]
Continue(s, r) == rest' = [rest EXCEPT ![s] = r]

\* record_peer_claim without the loop that clears other holders of the identity.
RecordKeepingOthers(s, cl) == [claim EXCEPT ![s] = cl]

\* record_peer_claim's loop over the registry: the sender's entry gets the claim
\* and every other live entry that holds the identity loses its own.
RecordPeerClaim(s, cl) ==
    [t \in Session |->
        IF t = s THEN cl
        ELSE IF /\ Registered(t)
                /\ claim[t] # NoClaim
                /\ claim[t].identity = cl.identity
             THEN NoClaim
             ELSE claim[t]]

\* PeerAnnounce, PeerChallenge and a good PeerProof for cl, from the session
\* that owns its entry: the claim is recorded, and the sessions it displaces are
\* invalidated next. Every other announce or proof registers nothing.
PeerProof(s, cl) ==
    LET displaced == {c \in Client : /\ registry[c] \notin {NoSession, s}
                                     /\ claim[registry[c]] # NoClaim
                                     /\ claim[registry[c]].identity = cl.identity}
    IN
    /\ Dispatch(s)
    /\ Registered(s)
    /\ claim' = RecordPeerClaim(s, cl)
    /\ IF displaced = {} THEN Return(s)
       ELSE Continue(s, [op |-> "displace", pair |-> 0, clients |-> displaced])
    /\ UNCHANGED regvars
    /\ UNCHANGED <<pairs, probes, relay_legs, next_id, probing, finishing,
                   infos, parking, splices, dropping, sweeping>>

\* A displaced client's pairs are left to its own teardown.
DisplaceKeeping(s, c) ==
    /\ rest[s].op = "displace"
    /\ c \in rest[s].clients
    /\ Continue(s, [op |-> "drop", pair |-> 0, clients |-> rest[s].clients \ {c}])
    /\ UNCHANGED regvars
    /\ UNCHANGED <<claim, pairs, probes, relay_legs, next_id, probing, finishing,
                   infos, parking, splices, dropping, sweeping>>

\* invalidate_pairs for one displaced client: the pairs go under the pairs lock.
Displace(s, c) ==
    /\ rest[s].op = "displace"
    /\ c \in rest[s].clients
    /\ pairs' = Without(pairs, PairsOf(c))
    /\ dropping' = [dropping EXCEPT ![s] = IdsOf(PairsOf(c))]
    /\ Continue(s, [op |-> "drop", pair |-> 0, clients |-> rest[s].clients \ {c}])
    /\ UNCHANGED regvars
    /\ UNCHANGED <<claim, probes, relay_legs, next_id, probing,
                   finishing, infos, parking, splices, sweeping>>

\* forget_pair_ids that knows of probe ids only.
ForgetProbeIds(ids) ==
    /\ probes' = Without(probes, ids)
    /\ relay_legs' = relay_legs

\* forget_pair_ids for a set of ids.
ForgetIds(ids) ==
    /\ probes' = Without(probes, ids)
    /\ relay_legs' = Without(relay_legs, ids)

DisplaceForget(s) ==
    /\ rest[s].op = "drop"
    /\ ForgetIds(dropping[s])
    /\ dropping' = [dropping EXCEPT ![s] = {}]
    /\ IF rest[s].clients = {} THEN Return(s)
       ELSE Continue(s, [rest[s] EXCEPT !.op = "displace"])
    /\ UNCHANGED regvars
    /\ UNCHANGED <<claim, pairs, next_id, probing, finishing, infos,
                   parking, splices, sweeping>>

-----------------------------------------------------------------------------
\* peer_connect that never looks for the consumer's prior pair.
NoPrior(c, d, w) == {}

\* The consumer's own earlier pairs for the same provider and capability.
Prior(c, d, w) ==
    {p \in DOMAIN pairs : /\ pairs[p].party = [consumer |-> c, provider |-> d]
                          /\ pairs[p].want = w}

\* peer_connect without the busy check on the exclusive capability.
NeverBusy(d, w, held) == FALSE

\* "Exit is exclusive": another pair already holds the provider's exit.
Busy(d, w, held) ==
    /\ w = "exit"
    /\ \E p \in held : pairs[p].party["provider"] = d /\ pairs[p].want = w

NewPair(c, d, w) ==
    LET members == [consumer |-> c, provider |-> d] IN
    [party |-> members, want |-> w,
     probe_id |-> [q \in Party |-> 0], candidates |-> [q \in Party |-> "none"],
     path |-> [q \in Party |-> "none"], info_sent |-> FALSE, timer |-> FALSE,
     relay |-> "none", legs |-> [q \in Party |-> 0], parked |-> {},
     formed |-> [q \in Party |-> registry[members[q]]],
     told |-> {}, informed |-> [q \in Party |-> 0]]

\* PeerConnect from a session that owns its entry and announced, to a live
\* announced provider of the wanted bit that is not the consumer itself. The
\* clients and pairs locks span the whole step: the consumer's prior pair is
\* dropped with its ids, and then the request is refused as busy, fails for
\* want of randomness (the id is spent), or inserts a pair. Every other request
\* is answered without touching the tables (Done).
PeerConnect(s, i, w) ==
    LET c == Owner[s] IN
    /\ Dispatch(s)
    /\ Registered(s)
    /\ claim[s] # NoClaim
    /\ claim[s].identity # i
    /\ next_id <= MaxId
    /\ \E d \in Client :
          LET prior == Prior(c, d, w)
              held == DOMAIN pairs \ prior IN
          /\ Announced(d)
          /\ claim[registry[d]].identity = i
          /\ w \in claim[registry[d]].provides
          /\ ForgetIds(IdsOf(prior))
          /\ \/ /\ Busy(d, w, held)
                /\ pairs' = Without(pairs, prior)
                /\ next_id' = next_id
                /\ Return(s)
             \/ /\ ~Busy(d, w, held) /\ RandomFails
                /\ pairs' = Without(pairs, prior)
                /\ next_id' = next_id + 1
                /\ Return(s)
             \/ /\ ~Busy(d, w, held)
                /\ pairs' = Add(Without(pairs, prior), next_id, NewPair(c, d, w))
                /\ next_id' = next_id + 1
                /\ Continue(s, [op |-> "probes", pair |-> next_id,
                                clients |-> {}])
    /\ UNCHANGED regvars
    /\ UNCHANGED <<claim, probing, finishing, infos, parking,
                   splices, dropping, sweeping>>

\* Each party's PeerProbe needs both parties' claims, so either both are probed
\* or neither is. A tcp party settles empty at once, a udp party is to be probed.
Ready(pair) == \A q \in Party : Announced(pair.party[q])
ToProbe(pair) ==
    {q \in Party : Ready(pair) /\ Transport[registry[pair.party[q]]] = "udp"}
SettledAtOnce(pair) == IF Ready(pair) THEN Party \ ToProbe(pair) ELSE {}

\* Ids are drawn for the consumer first.
Number == [consumer |-> next_id, provider |-> next_id + 1]

\* The pair after its probes are set up, and the claims they add; `failed` are
\* the parties the random source failed for. A party of a tcp session is sent
\* its PeerProbe under an id that is not mapped.
Probing(pair, failed) ==
    [pair EXCEPT
        !.probe_id = [q \in Party |->
                         IF q \in ToProbe(pair) \ failed THEN Number[q] ELSE 0],
        !.candidates = [q \in Party |->
                           IF q \in SettledAtOnce(pair) THEN "empty" ELSE "none"],
        !.timer = SettledAtOnce(pair) # Party,
        !.told = IF Ready(pair) THEN Party \ failed ELSE {}]

ProbeClaims(p, qs) ==
    [n \in DOMAIN probes \cup {Number[q] : q \in qs} |->
        IF n \in DOMAIN probes THEN probes[n]
        ELSE [pair |-> p, told |-> TRUE,
              client |-> pairs[p].party[CHOOSE q \in qs : Number[q] = n]]]

\* start_pair_probes under the clients, pairs and probes locks. Both parties
\* settled: the handler goes on to finish_pair; otherwise the deadline is armed.
StartPairProbes(s) ==
    LET p == rest[s].pair IN
    /\ rest[s].op = "probes"
    /\ \/ /\ p \notin DOMAIN pairs
          /\ Return(s)
          /\ UNCHANGED <<pairs, probes, next_id>>
       \/ /\ p \in DOMAIN pairs
          /\ \E failed \in SUBSET (IF RandomFails THEN ToProbe(pairs[p]) ELSE {}) :
                /\ pairs' = [pairs EXCEPT ![p] = Probing(pairs[p], failed)]
                /\ probes' = ProbeClaims(p, ToProbe(pairs[p]) \ failed)
          /\ next_id' = IF Ready(pairs[p]) THEN next_id + 2 ELSE next_id
          /\ IF SettledAtOnce(pairs[p]) = Party
             THEN Continue(s, [rest[s] EXCEPT !.op = "finish"])
             ELSE Return(s)
    /\ UNCHANGED regvars
    /\ UNCHANGED <<claim, relay_legs, probing, finishing, infos,
                   parking, splices, dropping, sweeping>>

-----------------------------------------------------------------------------
\* finish_pair without its info_sent test.
UnmarkedAnyTime(p) == p \in DOMAIN pairs

\* The pair is there and its info frames have not gone out.
Unmarked(p) == p \in DOMAIN pairs /\ ~pairs[p].info_sent

\* finish_pair that leaves the probe ids mapped.
MarkOnly(p, by) ==
    /\ pairs' = [pairs EXCEPT ![p].info_sent = TRUE]
    /\ probes' = probes
    /\ infos' = infos \cup {[by |-> by, pair |-> p, party |-> pairs[p].party]}

\* finish_pair under the pairs lock: mark the pair, clear its probe ids and keep
\* the parties. `by` is the reader that called it, if one did.
Mark(p, by) ==
    /\ pairs' = [pairs EXCEPT ![p].info_sent = TRUE]
    /\ probes' = Without(probes, ProbeIds(pairs[p]))
    /\ infos' = infos \cup {[by |-> by, pair |-> p, party |-> pairs[p].party]}

\* finish_pair called by the handler of PeerConnect.
ReaderFinish(s) ==
    LET p == rest[s].pair IN
    /\ rest[s].op = "finish"
    /\ \/ /\ Unmarked(p)
          /\ Mark(p, s)
          /\ Continue(s, [rest[s] EXCEPT !.op = "send"])
       \/ /\ ~Unmarked(p)
          /\ Return(s)
          /\ UNCHANGED <<pairs, probes, infos>>
    /\ UNCHANGED regvars
    /\ UNCHANGED <<claim, relay_legs, next_id, probing, finishing,
                   parking, splices, dropping, sweeping>>

\* A deadline that gives up on a pair with an unsettled party.
DeadlineIfSettled(p) ==
    /\ Unmarked(p)
    /\ pairs[p].timer
    /\ \A q \in Party : pairs[p].candidates[q] # "none"
    /\ Mark(p, NoSession)
    /\ UNCHANGED regvars
    /\ UNCHANGED <<claim, rest, relay_legs, next_id, probing,
                   finishing, parking, splices, dropping, sweeping>>

\* The pairing deadline fires.
PairDeadline(p) ==
    /\ Unmarked(p)
    /\ pairs[p].timer
    /\ Mark(p, NoSession)
    /\ UNCHANGED regvars
    /\ UNCHANGED <<claim, rest, relay_legs, next_id, probing,
                   finishing, parking, splices, dropping, sweeping>>

\* finish_pair called by the probe that completed the pair.
ProbeFinish(p) ==
    /\ p \in finishing
    /\ finishing' = finishing \ {p}
    /\ \/ Unmarked(p) /\ Mark(p, NoSession)
       \/ ~Unmarked(p) /\ UNCHANGED <<pairs, probes, infos>>
    /\ UNCHANGED regvars
    /\ UNCHANGED <<claim, rest, relay_legs, next_id, probing,
                   parking, splices, dropping, sweeping>>

\* The rest of finish_pair: the parties are looked up again, and each that is
\* announced now is sent the other's candidates.
SendInfo(i) ==
    /\ i \in infos
    /\ infos' = infos \ {i}
    /\ pairs' = [p \in DOMAIN pairs |->
          IF p # i.pair THEN pairs[p]
          ELSE [pairs[p] EXCEPT !.informed =
                  [q \in Party |-> IF Announced(i.party[q]) THEN @[q] + 1
                                                           ELSE @[q]]]]
    /\ IF i.by = NoSession THEN UNCHANGED rest ELSE Return(i.by)
    /\ UNCHANGED regvars
    /\ UNCHANGED <<claim, probes, relay_legs, next_id, probing, finishing,
                   parking, splices, dropping, sweeping>>

-----------------------------------------------------------------------------
\* take_claim that leaves the id in the map.
TakeKeeping(claims, id) == claims

\* take_claim: the id is consumed.
TakeClaim(claims, id) == Without(claims, {id})

\* Client c presents id: it authenticates as the party the id was handed to and
\* it was sent the frame that carries the capability.
Presents(c, claims, id) ==
    /\ id \in DOMAIN claims
    /\ claims[id].client = c
    /\ claims[id].told

\* take_probe for a setup conv, which then waits for the probe's frame.
TakeProbe(c, id) ==
    /\ Presents(c, probes, id)
    /\ probes' = TakeClaim(probes, id)
    /\ probing' = probing \cup {[pair |-> probes[id].pair, id |-> id]}
    /\ UNCHANGED regvars
    /\ UNCHANGED <<claim, rest, pairs, relay_legs, next_id,
                   finishing, infos, parking, splices, dropping, sweeping>>

\* settle_probe_for_pair: the first candidates of a party win, and the report
\* that settles the second party goes on to finish_pair.
SettleProbe(x) ==
    /\ x \in probing
    /\ probing' = probing \ {x}
    /\ \/ \E q \in Party :
             /\ x.pair \in DOMAIN pairs
             /\ pairs[x.pair].probe_id[q] = x.id
             /\ pairs[x.pair].candidates[q] = "none"
             /\ pairs' = [pairs EXCEPT ![x.pair].candidates[q] = "mapped"]
             /\ finishing' = IF /\ ~pairs[x.pair].info_sent
                                /\ pairs[x.pair].candidates[Other(q)] # "none"
                             THEN finishing \cup {x.pair} ELSE finishing
       \/ UNCHANGED <<pairs, finishing>>  \* no frame came, or nothing to settle
    /\ UNCHANGED regvars
    /\ UNCHANGED <<claim, rest, probes, relay_legs, next_id, infos,
                   parking, splices, dropping, sweeping>>

\* A party's claim on its leg; only an announced party is sent PeerRelayOpen.
LegClaim(p, q) == [pair |-> p, client |-> pairs[p].party[q],
                   told |-> Announced(pairs[p].party[q])]

\* The first relay report of a pair opens its relay.
RelayWanted(p, st) == st = "relay" /\ pairs[p].relay = "none"

\* peer_path under the clients, pairs and relay_legs locks, for a pair this
\* session was told of. The first report per party is kept. The first relay
\* report draws two leg ids; if the random source fails they are spent and no
\* relay opens, otherwise each party is handed its own leg and the claim
\* deadline is armed. Reports that are dropped change nothing (Done).
PeerPath(s, p, q, st) ==
    LET pair == pairs[p]
        noted == [pairs EXCEPT ![p].path[q] = st]
    IN
    /\ Dispatch(s)
    /\ Registered(s)
    /\ claim[s] # NoClaim
    /\ p \in DOMAIN pairs
    /\ q \in pair.told
    /\ pair.party[q] = Owner[s]
    /\ pair.path[q] = "none"
    /\ \/ /\ ~RelayWanted(p, st)
          /\ pairs' = noted
          /\ UNCHANGED <<relay_legs, next_id>>
       \/ /\ RelayWanted(p, st) /\ RandomFails
          /\ pairs' = noted
          /\ next_id' = next_id + 2
          /\ UNCHANGED <<relay_legs>>
       \/ /\ RelayWanted(p, st)
          /\ pairs' = [noted EXCEPT ![p].relay = "open", ![p].legs = Number,
                                    ![p].parked = {}]
          /\ next_id' = next_id + 2
          /\ relay_legs' = Add(Add(relay_legs,
                Number["consumer"], LegClaim(p, "consumer")),
                Number["provider"], LegClaim(p, "provider"))
    /\ Return(s)
    /\ UNCHANGED regvars
    /\ UNCHANGED <<claim, probes, probing, finishing, infos, parking,
                   splices, dropping, sweeping>>

\* take_relay_leg for a data stream or a setup conv; the leg is built next.
TakeRelayLeg(c, id) ==
    /\ Presents(c, relay_legs, id)
    /\ relay_legs' = TakeClaim(relay_legs, id)
    /\ parking' = parking \cup {[pair |-> relay_legs[id].pair,
                                 leg |-> [id |-> id, client |-> c]]}
    /\ UNCHANGED regvars
    /\ UNCHANGED <<claim, rest, pairs, probes, next_id, probing,
                   finishing, infos, splices, dropping, sweeping>>

\* park_relay_leg: the first leg waits, the second starts the splice, a leg
\* whose pair has gone or is spliced is dropped.
ParkRelayLeg(x) ==
    LET p == x.pair IN
    /\ x \in parking
    /\ parking' = parking \ {x}
    /\ \/ /\ p \in DOMAIN pairs
          /\ pairs[p].relay = "open"
          /\ pairs' = [pairs EXCEPT ![p].relay = "parked",
                                    ![p].parked = {x.leg}]
          /\ splices' = splices
       \/ /\ p \in DOMAIN pairs
          /\ pairs[p].relay = "parked"
          /\ pairs' = [pairs EXCEPT ![p].relay = "spliced", ![p].parked = {}]
          /\ splices' = splices \cup
                {[pair |-> p, legs |-> pairs[p].parked \cup {x.leg}]}
       \/ /\ p \in DOMAIN pairs => pairs[p].relay \notin {"open", "parked"}
          /\ UNCHANGED <<pairs, splices>>
    /\ UNCHANGED regvars
    /\ UNCHANGED <<claim, rest, probes, relay_legs, next_id, probing,
                   finishing, infos, dropping, sweeping>>

\* A pair is removed by a task that is not a reader; its ids are forgotten
\* after the pairs lock is released.
RemovePair(p) ==
    /\ pairs' = Without(pairs, {p})
    /\ sweeping' = sweeping \cup {PairIds(pairs[p])}

\* A reaper that only looks for relays with no leg in.
ReapOpenOnly(p) ==
    /\ p \in DOMAIN pairs
    /\ pairs[p].relay = "open"
    /\ RemovePair(p)
    /\ UNCHANGED regvars
    /\ UNCHANGED <<claim, rest, probes, relay_legs, next_id, probing,
                   finishing, infos, parking, splices, dropping>>

\* reap_unclaimed_relay when the claim deadline passes.
ReapUnclaimedRelay(p) ==
    /\ p \in DOMAIN pairs
    /\ pairs[p].relay \in {"open", "parked"}
    /\ RemovePair(p)
    /\ UNCHANGED regvars
    /\ UNCHANGED <<claim, rest, probes, relay_legs, next_id, probing,
                   finishing, infos, parking, splices, dropping>>

\* A splice ends, because a leg died or because removing its pair dropped the
\* stop sender, and end_relay removes the pair if it is still there.
EndRelay(x) ==
    /\ x \in splices
    /\ splices' = splices \ {x}
    /\ IF x.pair \in DOMAIN pairs THEN RemovePair(x.pair)
       ELSE UNCHANGED <<pairs, sweeping>>
    /\ UNCHANGED regvars
    /\ UNCHANGED <<claim, rest, probes, relay_legs, next_id, probing,
                   finishing, infos, parking, dropping>>

Sweep(ids) ==
    /\ ids \in sweeping
    /\ sweeping' = sweeping \ {ids}
    /\ ForgetIds(ids)
    /\ UNCHANGED regvars
    /\ UNCHANGED <<claim, rest, pairs, next_id, probing, finishing,
                   infos, parking, splices, dropping>>

-----------------------------------------------------------------------------
\* invalidate_pairs of the doomed handle's client id, and then its ids.
InvalidatePairs(s) ==
    /\ Invalidate(s)
    /\ pairs' = Without(pairs, PairsOf(Owner[s]))
    /\ dropping' = [dropping EXCEPT ![s] = IdsOf(PairsOf(Owner[s]))]
    /\ UNCHANGED <<claim, rest, probes, relay_legs, next_id, probing,
                   finishing, infos, parking, splices, sweeping>>

ForgetPairIds(s) ==
    /\ Forget(s)
    /\ ForgetIds(dropping[s])
    /\ dropping' = [dropping EXCEPT ![s] = {}]
    /\ UNCHANGED <<claim, rest, pairs, next_id, probing, finishing,
                   infos, parking, splices, sweeping>>

\* The registry's own steps. A handle takes its claim with it when it leaves the
\* registry. An admin disconnect only silences a reader until it ends, which any
\* session may do here anyway, so Disconnect is not a step of this module.
Untouched == UNCHANGED <<rest, pairs, probes, relay_legs, next_id, probing,
                         finishing, infos, parking, splices, dropping, sweeping>>

Register(s) ==
    /\ Hello(s)
    /\ claim' = [t \in Session |->
                    IF t = registry[Owner[s]] THEN NoClaim ELSE claim[t]]
    /\ Untouched

End(s) ==
    /\ rest[s] = Idle
    /\ Unregister(s)
    /\ claim' = [claim EXCEPT ![s] = NoClaim]
    /\ Untouched

CancelAndRevoke(s) ==
    /\ Cancel(s) \/ Revoke(s)
    /\ claim' = claim
    /\ Untouched

\* A frame is handled from its dispatch.
FrameStep(s) ==
    \/ \E cl \in Announces[Owner[s]] : PeerProof(s, cl)
    \/ \E i \in Identity, w \in Bits : PeerConnect(s, i, w)
    \/ \E p \in DOMAIN pairs, q \in Party, st \in Reports :
          PeerPath(s, p, q, st)

\* A handler or a teardown goes on.
TaskStep(s) ==
    \/ \E c \in Client : Displace(s, c)
    \/ DisplaceForget(s)
    \/ StartPairProbes(s)
    \/ ReaderFinish(s)
    \/ CancelAndRevoke(s)
    \/ InvalidatePairs(s)
    \/ ForgetPairIds(s)

ClaimStep ==
    \/ \E c \in Client, id \in DOMAIN probes : TakeProbe(c, id)
    \/ \E c \in Client, id \in DOMAIN relay_legs : TakeRelayLeg(c, id)

StreamStep ==
    \/ \E x \in probing : SettleProbe(x)
    \/ \E p \in finishing : ProbeFinish(p)
    \/ \E i \in infos : SendInfo(i)
    \/ \E x \in parking : ParkRelayLeg(x)
    \/ \E x \in splices : EndRelay(x)
    \/ \E ids \in sweeping : Sweep(ids)

TimerStep(p) == PairDeadline(p) \/ ReapUnclaimedRelay(p)

Next ==
    \/ \E s \in Session : Register(s) \/ End(s) \/ FrameStep(s) \/ TaskStep(s)
    \/ ClaimStep
    \/ StreamStep
    \/ \E p \in DOMAIN pairs : TimerStep(p)

Spec == Init /\ [][Next]_vars

\* The runtime polls every ready task, so a handler or teardown once begun runs
\* on, and an armed deadline fires. Nothing makes a client send, claim or leave.
Fairness ==
    /\ \A s \in Session : WF_vars(TaskStep(s))
    /\ WF_vars(\E i \in infos : SendInfo(i))
    /\ \A p \in 1..MaxId : WF_vars(PairDeadline(p)) /\ WF_vars(ReapUnclaimedRelay(p))

FairSpec == Spec /\ Fairness
-----------------------------------------------------------------------------
\* Every variable has its type.
TypeOK ==
    /\ RegistryTypeOK
    /\ claim \in [Session -> PeerClaims \cup {NoClaim}]
    /\ rest \in [Session -> Rest]
    /\ DOMAIN pairs \subseteq Nat /\ \A p \in DOMAIN pairs : pairs[p] \in Pair
    /\ DOMAIN probes \subseteq Nat
    /\ \A i \in DOMAIN probes : probes[i] \in Claim
    /\ DOMAIN relay_legs \subseteq Nat
    /\ \A i \in DOMAIN relay_legs : relay_legs[i] \in Claim
    /\ next_id \in Nat \ {0}
    /\ probing \subseteq [pair : Nat, id : Nat]
    /\ finishing \subseteq Nat
    /\ infos \subseteq [by : Session \cup {NoSession}, pair : Nat,
                        party : [Party -> Client]]
    /\ parking \subseteq [pair : Nat, leg : Leg]
    /\ splices \subseteq [pair : Nat, legs : SUBSET Leg]
    /\ dropping \in [Session -> SUBSET Nat]
    /\ sweeping \subseteq SUBSET Nat

\* An invalidate_pairs call for the client id is on its way: a teardown that
\* has not reached the pairs lock, or a displacement not yet carried out.
InvalidationComing(c) ==
    \E s \in Session :
        \/ Owner[s] = c /\ task[s] \in {"cancel", "revoke", "invalidate"}
        \/ rest[s].op \in {"displace", "drop"} /\ c \in rest[s].clients

\* The party is still the very session the pair was formed with and holds a
\* claim, or an invalidation of its client id is on its way.
PartyLive(p, q) ==
    LET c == pairs[p].party[q] IN
    \/ registry[c] = pairs[p].formed[q] /\ Announced(c)
    \/ InvalidationComing(c)

\* peer_connect: "a racing insert is either refused here or cleared by that
\* invalidation". Each party of a pair is still the very session the pair was
\* formed with, and holds a claim, unless an invalidation of that client id is
\* on its way. So no pair survives a party's reconnect, end or displacement.
PairsOfLiveSessions ==
    \A p \in DOMAIN pairs : \A q \in Party : PartyLive(p, q)

\* "two consumers racing for an exclusive provider cannot both pair".
ExitIsExclusive ==
    \A p, r \in DOMAIN pairs :
        /\ pairs[p].want = "exit" /\ pairs[r].want = "exit"
        /\ pairs[p].party["provider"] = pairs[r].party["provider"]
        => p = r

\* "A consumer holds one pair per peer and capability".
OnePairPerRequest ==
    \A p, r \in DOMAIN pairs :
        /\ pairs[p].want = pairs[r].want
        /\ pairs[p].party = pairs[r].party
        => p = r

\* record_peer_claim leaves an identity with one live session, so peer_connect's
\* lookup by identity has one answer and no party pairs with itself.
IdentityHeldOnce ==
    \A c, d \in Client :
        /\ Announced(c) /\ Announced(d)
        /\ claim[registry[c]].identity = claim[registry[d]].identity
        => c = d

\* Ids that a removal still has to forget.
Forgetting == (UNION {dropping[s] : s \in Session}) \cup (UNION sweeping)

\* An outstanding probe or leg id belongs to a pair that is in the table, names
\* it, and handed it to that party, or it is about to be forgotten: no claim
\* outlives its pair (forget_pair_ids) or its PeerInfo (finish_pair).
NoOrphanIds ==
    /\ \A i \in DOMAIN probes :
          \/ i \in Forgetting
          \/ LET p == probes[i].pair IN
             /\ p \in DOMAIN pairs
             /\ ~pairs[p].info_sent
             /\ \E q \in Party : /\ pairs[p].probe_id[q] = i
                                 /\ pairs[p].party[q] = probes[i].client
    /\ \A i \in DOMAIN relay_legs :
          \/ i \in Forgetting
          \/ LET p == relay_legs[i].pair IN
             /\ p \in DOMAIN pairs
             /\ \E q \in Party : /\ pairs[p].legs[q] = i
                                 /\ pairs[p].party[q] = relay_legs[i].client

\* park_relay_leg splices one leg of each party, never two of the same: a leg id
\* is single-use and each party has its own.
SpliceJoinsBothParties ==
    \A x \in splices : x.pair \in DOMAIN pairs =>
        /\ {l.client : l \in x.legs} = {pairs[x.pair].party[q] : q \in Party}
        /\ {l.id : l \in x.legs} = {pairs[x.pair].legs[q] : q \in Party}
        /\ pairs[x.pair].relay = "spliced"

\* "a completing probe and the pairing deadline cannot both send them": neither
\* party gets two PeerInfo frames for one pair, whichever of the reader, the last
\* probe and the deadline call finish_pair.
InfoSentOnce ==
    \A p \in DOMAIN pairs : \A q \in Party : pairs[p].informed[q] <= 1

\* start_pair_probes arms the deadline unless it finishes the pair itself, so
\* every pair still there has its PeerInfo sent: no party waits for ever.
EveryPairReported ==
    \A p \in 1..MaxId :
        p \in DOMAIN pairs ~> (p \in DOMAIN pairs => pairs[p].info_sent)

\* "a leg that never arrives cannot pin the pair": an opened relay is spliced or
\* its pair is removed.
RelayResolves ==
    \A p \in 1..MaxId :
        (p \in DOMAIN pairs /\ pairs[p].relay \in {"open", "parked"})
            ~> (p \in DOMAIN pairs => pairs[p].relay = "spliced")

\* "A pair must not outlive either party's control session": once the registry no
\* longer names the session a party paired from, the pair goes.
PairDiesWithSession ==
    \A p \in 1..MaxId :
        (p \in DOMAIN pairs
            /\ \E q \in Party : registry[pairs[p].party[q]] # pairs[p].formed[q])
        ~> p \notin DOMAIN pairs

\* unregister_client: "a stale reader's teardown cannot drop pairs the superseding
\* session created". A teardown removes only pairs formed with the handle it is
\* for.
TeardownDropsOwnPairs ==
    [][\A s \in Session : InvalidatePairs(s) =>
          \A p \in DOMAIN pairs \ DOMAIN pairs' :
              \E q \in Party : pairs[p].formed[q] = doomed[s]]_vars

\* peer_path, when no capability can be drawn: "No relay opens and the pair dies
\* at its deadlines". A pair with a relay report and no relay goes away.
RelaylessPairDies ==
    \A p \in 1..MaxId :
        (p \in DOMAIN pairs /\ pairs[p].relay = "none"
            /\ \E q \in Party : pairs[p].path[q] = "relay")
        ~> p \notin DOMAIN pairs
=============================================================================
