--------------------------- MODULE RendezvousIds ----------------------------
(***************************************************************************)
(* Proofs about the ids of the rendezvous: a probe or leg id never         *)
(* outlives its pair, and a splice joins one leg of each party, for every  *)
(* set of clients and sessions and every order of their steps.             *)
(*                                                                         *)
(* Neither fact is inductive. An outstanding probe id is its pair's or     *)
(* about to be forgotten (ProbesMatched). A pair's probe ids may be drawn  *)
(* only once, so ProbesDrawn says that start_pair_probes meets its pair    *)
(* untouched. A leg id is in one place at a time (outstanding, claimed,    *)
(* parked, spliced): LegsSingle.                                           *)
(***************************************************************************)
EXTENDS RendezvousProofs

(* Zenon is the prover of this module; a leaf that needs arithmetic, records
   or sequences names SMT. *)
USE Zenon

\* A party's probe of a pair whose info frames have not gone out.
ProbeOf(p, i, c) ==
    /\ ~pairs[p].info_sent
    /\ \E q \in Party : pairs[p].probe_id[q] = i /\ pairs[p].party[q] = c

\* An outstanding probe id is its pair's, or is about to be forgotten with it.
ProbesMatched ==
    \A i \in DOMAIN probes :
        /\ i # 0 /\ i < next_id /\ probes[i].pair < next_id
        /\ probes[i].pair \in DOMAIN pairs => ProbeOf(probes[i].pair, i, probes[i].client)
        /\ probes[i].pair \notin DOMAIN pairs => i \in Forgetting

\* Nothing was drawn for a pair yet, and nothing can mark it.
Untried(p) ==
    /\ \A q \in Party : pairs[p].probe_id[q] = 0
    /\ ~pairs[p].info_sent /\ ~pairs[p].timer

Connecting(s) == rest[s].op \in {"probes", "finish"}

\* Handlers of peer_connect have a pair each, and start_pair_probes finds its own untried.
ProbesDrawn ==
    /\ \A s \in Session : Connecting(s) => rest[s].pair < next_id
    /\ \A s, t \in Session :
          Connecting(s) /\ Connecting(t) /\ rest[s].pair = rest[t].pair => s = t
    /\ \A s \in Session :
          rest[s].op = "probes" /\ rest[s].pair \in DOMAIN pairs => Untried(rest[s].pair)
    /\ \A p \in finishing :
          /\ p < next_id
          /\ p \in DOMAIN pairs => \E q \in Party : pairs[p].probe_id[q] # 0
    /\ \A x \in probing : x.id # 0

-----------------------------------------------------------------------------
(* What a step does to the pairs it keeps and to the id maps. *)

SameProbes(a, b) ==
    /\ a.party = b.party /\ a.probe_id = b.probe_id
    /\ a.info_sent = b.info_sent /\ a.timer = b.timer

SameLegs(a, b) ==
    /\ a.party = b.party /\ a.legs = b.legs
    /\ a.relay = b.relay /\ a.parked = b.parked

IdsFewer ==
    /\ DOMAIN probes' \subseteq DOMAIN probes
    /\ \A i \in DOMAIN probes' : probes'[i] = probes[i]
    /\ DOMAIN relay_legs' \subseteq DOMAIN relay_legs
    /\ \A i \in DOMAIN relay_legs' : relay_legs'[i] = relay_legs[i]

\* Pairs and ids only go, and next_id stays.
Quiet ==
    /\ DOMAIN pairs' \subseteq DOMAIN pairs
    /\ \A p \in DOMAIN pairs' : SameProbes(pairs'[p], pairs[p]) /\ SameLegs(pairs'[p], pairs[p])
    /\ IdsFewer
    /\ next_id' = next_id

\* The steps that neither draw nor mark.
QuietStep ==
    \/ \E s \in Session :
          \/ Register(s) \/ End(s) \/ CancelAndRevoke(s)
          \/ InvalidatePairs(s) \/ ForgetPairIds(s)
          \/ \E cl \in Announces[Owner[s]] : PeerProof(s, cl)
          \/ \E c \in Client : Displace(s, c)
          \/ DisplaceForget(s)
    \/ ClaimStep
    \/ \E p \in DOMAIN pairs : ReapUnclaimedRelay(p)
    \/ \E x \in splices : EndRelay(x)
    \/ \E ids \in sweeping : Sweep(ids)
    \/ \E x \in probing : SettleProbe(x)
    \/ \E i \in infos : SendInfo(i)

\* finish_pair under its lock.
MarkStep ==
    \/ \E s \in Session : ReaderFinish(s)
    \/ \E p \in DOMAIN pairs : PairDeadline(p)
    \/ \E p \in finishing : ProbeFinish(p)

\* The steps are the quiet ones, the marks, and the ones that draw ids or park legs.
LEMMA StepKinds ==
  ASSUME Next
  PROVE  \/ QuietStep \/ MarkStep
         \/ \E s \in Session :
               \/ StartPairProbes(s)
               \/ \E i \in Identity, w \in Bits : PeerConnect(s, i, w)
               \/ \E p \in DOMAIN pairs, q \in Party, st \in Reports : PeerPath(s, p, q, st)
         \/ \E x \in parking : ParkRelayLeg(x)
  BY DEF Next, QuietStep, MarkStep, FrameStep, TaskStep, StreamStep, TimerStep

\* They only remove pairs and ids.
LEMMA QuietEffect ==
  ASSUME TypeOK, QuietStep
  PROVE  Quiet
<1>1. next_id' = next_id
  BY DEF QuietStep, Register, End, CancelAndRevoke, InvalidatePairs, ForgetPairIds, PeerProof,
     Displace, DisplaceForget, ClaimStep, TakeProbe, TakeRelayLeg, ReapUnclaimedRelay,
     EndRelay, Sweep, SettleProbe, SendInfo, Untouched
<1>2. IdsFewer
  <2>1. \/ \E ids : ForgetIds(ids)
        \/ \E id : probes' = Without(probes, {id}) /\ relay_legs' = relay_legs
        \/ \E id : probes' = probes /\ relay_legs' = Without(relay_legs, {id})
        \/ probes' = probes /\ relay_legs' = relay_legs
    BY DEF QuietStep, Register, End, CancelAndRevoke, InvalidatePairs, ForgetPairIds,
       PeerProof, Displace, DisplaceForget, ClaimStep, TakeProbe, TakeRelayLeg, TakeClaim,
       ReapUnclaimedRelay, EndRelay, Sweep, SettleProbe, SendInfo, Untouched
  <2> QED BY <2>1 DEF IdsFewer, ForgetIds, Without
<1> DEFINE Same(p) == SameProbes(pairs'[p], pairs[p]) /\ SameLegs(pairs'[p], pairs[p])
<1>3. DOMAIN pairs' \subseteq DOMAIN pairs /\ \A p \in DOMAIN pairs' : Same(p)
  <2>1. CASE pairs' = pairs
    BY <2>1 DEF SameProbes, SameLegs
  <2>2. CASE \E ps : pairs' = Without(pairs, ps)
    BY <2>2 DEF Without, SameProbes, SameLegs
  <2>3. ASSUME NEW x \in probing, SettleProbe(x), pairs' # pairs
        PROVE  DOMAIN pairs' = DOMAIN pairs /\ \A p \in DOMAIN pairs' : Same(p)
    <3>1. PICK q \in Party : /\ x.pair \in DOMAIN pairs
                             /\ pairs' = [pairs EXCEPT ![x.pair].candidates[q] = "mapped"]
      BY <2>3 DEF SettleProbe
    <3> DEFINE v == [pairs[x.pair] EXCEPT !.candidates[q] = "mapped"]
    <3>2. /\ SameProbes(v, pairs[x.pair]) /\ SameLegs(v, pairs[x.pair])
          /\ pairs' = [pairs EXCEPT ![x.pair] = v]
      BY SMT, <3>1 DEF TypeOK, Pair, SameProbes, SameLegs
    <3> HIDE DEF v
    <3> QED BY <3>1, <3>2 DEF SameProbes, SameLegs
  <2>4. ASSUME NEW i \in infos, SendInfo(i)
        PROVE  DOMAIN pairs' = DOMAIN pairs /\ \A p \in DOMAIN pairs' : Same(p)
    <3> DEFINE more(p) == [q \in Party |-> IF Announced(i.party[q])
                             THEN pairs[p].informed[q] + 1 ELSE pairs[p].informed[q]]
    <3>1. pairs' = [p \in DOMAIN pairs |-> IF p # i.pair THEN pairs[p]
                                           ELSE [pairs[p] EXCEPT !.informed = more(p)]]
      BY <2>4 DEF SendInfo
    <3> HIDE DEF more
    <3>2. \A p \in DOMAIN pairs : LET v == [pairs[p] EXCEPT !.informed = more(p)] IN
             SameProbes(v, pairs[p]) /\ SameLegs(v, pairs[p])
      BY SMT DEF TypeOK, Pair, SameProbes, SameLegs
    <3> QED BY <3>1, <3>2 DEF SameProbes, SameLegs
  <2>5. \/ pairs' = pairs
        \/ \E ps : pairs' = Without(pairs, ps)
        \/ \E x \in probing : SettleProbe(x)
        \/ \E i \in infos : SendInfo(i)
    BY DEF QuietStep, Register, End, CancelAndRevoke, InvalidatePairs, ForgetPairIds,
       PeerProof, Displace, DisplaceForget, ClaimStep, TakeProbe, TakeRelayLeg,
       ReapUnclaimedRelay, EndRelay, RemovePair, Sweep, Untouched
  <2> QED BY <2>1, <2>2, <2>3, <2>4, <2>5
<1> QED BY <1>1, <1>2, <1>3 DEF Quiet

\* finish_pair marks a pair that was not marked and takes its probe ids, or does nothing.
MarkOf(p) ==
    /\ p \in DOMAIN pairs /\ ~pairs[p].info_sent
    /\ DOMAIN pairs' = DOMAIN pairs
    /\ \A r \in DOMAIN pairs : r # p => pairs'[r] = pairs[r]
    /\ SameLegs(pairs'[p], pairs[p]) /\ pairs'[p].probe_id = pairs[p].probe_id
    /\ probes' = Without(probes, ProbeIds(pairs[p]))

\* It does so whoever calls it.
LEMMA MarkEffect ==
  ASSUME TypeOK, NEW p, Unmarked(p), NEW by, Mark(p, by)
  PROVE  MarkOf(p)
<1>1. p \in DOMAIN pairs /\ ~pairs[p].info_sent /\ pairs[p] \in Pair
  BY DEF Unmarked, TypeOK
<1> DEFINE v == [pairs[p] EXCEPT !.info_sent = TRUE]
<1>2. SameLegs(v, pairs[p]) /\ v.probe_id = pairs[p].probe_id
  BY <1>1 DEF Pair, SameLegs
<1>3. pairs' = [pairs EXCEPT ![p] = v]
  BY DEF Mark
<1> HIDE DEF v
<1> QED BY <1>1, <1>2, <1>3 DEF Mark, MarkOf, SameLegs

\* start_pair_probes draws ids for the parties qs of its pair and maps them.
StartOf(p, qs) ==
    /\ p \in DOMAIN pairs /\ qs \subseteq Party
    /\ DOMAIN pairs' = DOMAIN pairs
    /\ \A r \in DOMAIN pairs : r # p => pairs'[r] = pairs[r]
    /\ SameLegs(pairs'[p], pairs[p]) /\ pairs'[p].info_sent = pairs[p].info_sent
    /\ \A q \in Party : pairs'[p].probe_id[q] = IF q \in qs THEN Number[q] ELSE 0
    /\ DOMAIN probes' = DOMAIN probes \cup {Number[q] : q \in qs}
    /\ \A i \in DOMAIN probes : probes'[i] = probes[i]
    /\ \A q \in qs : Number[q] \notin DOMAIN probes =>
          probes'[Number[q]].pair = p /\ probes'[Number[q]].client = pairs[p].party[q]
    /\ next_id' \in {next_id, next_id + 2}
    /\ qs # {} => next_id' = next_id + 2

\* It finds its pair gone, or draws.
LEMMA StartEffect ==
  ASSUME TypeOK, NEW s \in Session, StartPairProbes(s)
  PROVE  /\ relay_legs' = relay_legs
         /\ \/ pairs' = pairs /\ probes' = probes /\ next_id' = next_id /\ rest'[s] = Idle
            \/ \E qs : StartOf(rest[s].pair, qs)
<1> DEFINE p == rest[s].pair
<1>1. relay_legs' = relay_legs
  BY DEF StartPairProbes
<1>2. CASE p \notin DOMAIN pairs
  BY <1>1, <1>2 DEF StartPairProbes, Return, TypeOK
<1>3. CASE p \in DOMAIN pairs
  <2>1. PICK failed : /\ pairs' = [pairs EXCEPT ![p] = Probing(pairs[p], failed)]
                      /\ probes' = ProbeClaims(p, ToProbe(pairs[p]) \ failed)
    BY <1>3 DEF StartPairProbes
  <2> DEFINE qs == ToProbe(pairs[p]) \ failed
  <2>2. qs \subseteq Party /\ (qs # {} => Ready(pairs[p]))
    BY DEF ToProbe
  <2>3. /\ next_id' \in {next_id, next_id + 2}
        /\ qs # {} => next_id' = next_id + 2
    BY <1>3, <2>2 DEF StartPairProbes
  <2>4. /\ SameLegs(Probing(pairs[p], failed), pairs[p])
        /\ Probing(pairs[p], failed).info_sent = pairs[p].info_sent
        /\ Probing(pairs[p], failed).probe_id = [q \in Party |-> IF q \in qs THEN Number[q] ELSE 0]
    BY SMT, <1>3 DEF TypeOK, Pair, Probing, SameLegs
  <2> HIDE DEF qs
  <2>5. /\ DOMAIN pairs' = DOMAIN pairs
        /\ \A r \in DOMAIN pairs : r # p => pairs'[r] = pairs[r]
        /\ pairs'[p] = Probing(pairs[p], failed)
    BY <1>3, <2>1
  <2>6. /\ DOMAIN probes' = DOMAIN probes \cup {Number[q] : q \in qs}
        /\ \A i \in DOMAIN probes : probes'[i] = probes[i]
    BY <2>1 DEF ProbeClaims, qs
  <2>7. ASSUME NEW q \in qs, Number[q] \notin DOMAIN probes
        PROVE  probes'[Number[q]].pair = p /\ probes'[Number[q]].client = pairs[p].party[q]
    <3>1. \A r \in Party : Number[r] = Number[q] => r = q
      BY SMT, <2>2, <2>7 DEF Number, Party, TypeOK
    <3> DEFINE z == CHOOSE r \in qs : Number[r] = Number[q]
    <3>2. z = q
      BY <2>2, <2>7, <3>1
    <3>3. probes' = [n \in DOMAIN probes \cup {Number[r] : r \in qs} |->
              IF n \in DOMAIN probes THEN probes[n]
              ELSE [pair |-> p, told |-> TRUE,
                    client |-> pairs[p].party[CHOOSE r \in qs : Number[r] = n]]]
      BY <2>1 DEF ProbeClaims, qs
    <3>4. Number[q] \in DOMAIN probes \cup {Number[r] : r \in qs}
      BY <2>7
    <3>5. probes'[Number[q]] = [pair |-> p, told |-> TRUE,
              client |-> pairs[p].party[z]]
      BY <2>7, <3>3, <3>4, ZenonT(20)
    <3> HIDE DEF z
    <3> QED BY SMT, <3>2, <3>5
  <2>8. StartOf(p, qs)
    BY SMTT(30), <1>3, <2>2, <2>3, <2>4, <2>5, <2>6, <2>7 DEF StartOf
  <2> QED BY <1>1, <2>8
<1> QED BY <1>2, <1>3

\* peer_path opens the relay of p: it draws two legs and hands one to each party.
OpenOf(p) ==
    /\ p \in DOMAIN pairs /\ pairs[p].relay = "none"
    /\ DOMAIN pairs' = DOMAIN pairs
    /\ \A r \in DOMAIN pairs : r # p => pairs'[r] = pairs[r]
    /\ SameProbes(pairs'[p], pairs[p])
    /\ pairs'[p].relay = "open" /\ pairs'[p].legs = Number
    /\ next_id' = next_id + 2
    /\ DOMAIN relay_legs' = DOMAIN relay_legs \cup {next_id, next_id + 1}
    /\ \A i \in DOMAIN relay_legs \ {next_id, next_id + 1} : relay_legs'[i] = relay_legs[i]
    /\ \A q \in Party : /\ relay_legs'[Number[q]].pair = p
                        /\ relay_legs'[Number[q]].client = pairs[p].party[q]

\* A report that opens no relay changes nothing but the path it notes, and maybe spends ids.
Noted ==
    /\ DOMAIN pairs' = DOMAIN pairs
    /\ \A r \in DOMAIN pairs : SameProbes(pairs'[r], pairs[r]) /\ SameLegs(pairs'[r], pairs[r])
    /\ next_id' \in {next_id, next_id + 2}
    /\ relay_legs' = relay_legs

\* A path report notes the path or opens the relay.
LEMMA PathEffect ==
  ASSUME TypeOK, NEW s \in Session, NEW p \in DOMAIN pairs, NEW q \in Party,
         NEW st \in Reports, PeerPath(s, p, q, st)
  PROVE  probes' = probes /\ (Noted \/ OpenOf(p))
<1> DEFINE noted == [pairs[p] EXCEPT !.path[q] = st]
           open == [noted EXCEPT !.relay = "open"]
           legs == [open EXCEPT !.legs = Number]
           opened == [legs EXCEPT !.parked = {}]
<1>1. noted \in [party : [Party -> Client], want : Bits, probe_id : [Party -> Nat],
                 candidates : [Party -> {"none", "empty", "mapped"}],
                 path : [Party -> {"none", "direct", "relay"}],
                 info_sent : BOOLEAN, timer : BOOLEAN,
                 relay : {"none", "open", "parked", "spliced"},
                 legs : [Party -> Nat], parked : SUBSET Leg,
                 formed : [Party -> Session], told : SUBSET Party,
                 informed : [Party -> Nat]]
  <2>1. pairs[p] \in Pair /\ st \in {"none", "direct", "relay"}
    BY RendezvousAssumption DEF TypeOK
  <2>2. [pairs[p].path EXCEPT ![q] = st] \in [Party -> {"none", "direct", "relay"}]
    BY <2>1 DEF Pair
  <2> QED BY <2>1, <2>2 DEF Pair
<1>2. SameProbes(noted, pairs[p]) /\ SameLegs(noted, pairs[p])
  BY SMT DEF TypeOK, Pair, SameProbes, SameLegs
<1>3. \/ /\ pairs' = [pairs EXCEPT ![p] = noted]
         /\ next_id' \in {next_id, next_id + 2} /\ relay_legs' = relay_legs
      \/ /\ pairs[p].relay = "none"
         /\ pairs' = [pairs EXCEPT ![p] = opened]
         /\ next_id' = next_id + 2
         /\ relay_legs' = Add(Add(relay_legs,
               Number["consumer"], LegClaim(p, "consumer")),
               Number["provider"], LegClaim(p, "provider"))
  BY DEF PeerPath, RelayWanted
<1>4. probes' = probes
  BY DEF PeerPath
<1>5. SameProbes(opened, noted) /\ opened.relay = "open" /\ opened.legs = Number
  BY <1>1 DEF SameProbes
<1> HIDE DEF noted, opened
<1>6. CASE /\ pairs' = [pairs EXCEPT ![p] = noted]
           /\ next_id' \in {next_id, next_id + 2} /\ relay_legs' = relay_legs
  <2>1. Noted
    BY <1>2, <1>6 DEF Noted, SameProbes, SameLegs
  <2> QED BY <1>4, <2>1
<1>7. CASE /\ pairs[p].relay = "none"
           /\ pairs' = [pairs EXCEPT ![p] = opened]
           /\ next_id' = next_id + 2
           /\ relay_legs' = Add(Add(relay_legs,
                 Number["consumer"], LegClaim(p, "consumer")),
                 Number["provider"], LegClaim(p, "provider"))
  <2>1. /\ next_id \in Nat
        /\ Number["consumer"] = next_id /\ Number["provider"] = next_id + 1
    BY DEF Number, TypeOK
  <2>2. /\ DOMAIN relay_legs' = DOMAIN relay_legs \cup {next_id, next_id + 1}
        /\ relay_legs'[next_id] = LegClaim(p, "consumer")
        /\ relay_legs'[next_id + 1] = LegClaim(p, "provider")
        /\ \A i \in DOMAIN relay_legs \ {next_id, next_id + 1} : relay_legs'[i] = relay_legs[i]
    BY SMT, <1>7, <2>1 DEF Add
  <2>3. \A r \in Party : /\ relay_legs'[Number[r]].pair = p
                         /\ relay_legs'[Number[r]].client = pairs[p].party[r]
    BY SMT, <2>1, <2>2 DEF Party, LegClaim
  <2>4. /\ DOMAIN pairs' = DOMAIN pairs
        /\ \A r \in DOMAIN pairs : r # p => pairs'[r] = pairs[r]
        /\ pairs'[p] = opened
    BY <1>7
  <2>5. SameProbes(pairs'[p], pairs[p])
    BY <1>2, <1>5, <2>4 DEF SameProbes
  <2> QED BY <1>4, <1>5, <1>7, <2>2, <2>3, <2>4, <2>5 DEF OpenOf
<1> QED BY <1>3, <1>6, <1>7

\* A step adds one pair at most, under a new id and with nothing drawn for it.
PairsFresh ==
    \A p \in DOMAIN pairs' \ DOMAIN pairs :
        /\ p = next_id /\ next_id' = next_id + 1
        /\ \A q \in Party : pairs'[p].probe_id[q] = 0 /\ pairs'[p].legs[q] = 0
        /\ ~pairs'[p].info_sent /\ ~pairs'[p].timer /\ pairs'[p].relay = "none"

\* peer_connect drops the prior pair with its ids, and may insert a pair.
LEMMA ConnectEffect ==
  ASSUME TypeOK, InfoCounted, NEW s \in Session, NEW i \in Identity, NEW w \in Bits,
         PeerConnect(s, i, w)
  PROVE  /\ IdsFewer /\ PairsFresh
         /\ next_id' \in {next_id, next_id + 1}
         /\ \A p \in DOMAIN pairs' : p \in DOMAIN pairs => pairs'[p] = pairs[p]
         /\ \/ rest' = [rest EXCEPT ![s] = Idle]
            \/ /\ rest' = [rest EXCEPT ![s] = [op |-> "probes", pair |-> next_id, clients |-> {}]]
               /\ next_id' = next_id + 1
<1> DEFINE c == Owner[s]
<1>1. next_id \in Nat /\ next_id \notin DOMAIN pairs
  BY SMT DEF TypeOK, InfoCounted
<1>2. PICK d \in Client :
        /\ ForgetIds(IdsOf(Prior(c, d, w)))
        /\ \/ /\ pairs' = Without(pairs, Prior(c, d, w))
              /\ next_id' \in {next_id, next_id + 1}
              /\ rest' = [rest EXCEPT ![s] = Idle]
           \/ /\ pairs' = Add(Without(pairs, Prior(c, d, w)), next_id, NewPair(c, d, w))
              /\ next_id' = next_id + 1
              /\ rest' = [rest EXCEPT ![s] = [op |-> "probes", pair |-> next_id, clients |-> {}]]
  BY DEF PeerConnect, Return, Continue
<1>3. IdsFewer
  BY <1>2 DEF IdsFewer, ForgetIds, Without
<1>4. CASE pairs' = Without(pairs, Prior(c, d, w))
  <2>1. /\ DOMAIN pairs' \subseteq DOMAIN pairs
        /\ \A p \in DOMAIN pairs' : pairs'[p] = pairs[p]
    BY <1>4 DEF Without
  <2> QED BY <1>2, <1>3, <2>1 DEF PairsFresh
<1>5. CASE pairs' = Add(Without(pairs, Prior(c, d, w)), next_id, NewPair(c, d, w))
  <2>1. /\ DOMAIN pairs' \subseteq DOMAIN pairs \cup {next_id}
        /\ pairs'[next_id] = NewPair(c, d, w)
        /\ \A p \in DOMAIN pairs' : p # next_id => pairs'[p] = pairs[p]
    BY <1>5 DEF Add, Without
  <2>2. next_id \in DOMAIN pairs' => next_id' = next_id + 1
    BY <1>1, <1>2 DEF Without
  <2>3. /\ \A q \in Party : NewPair(c, d, w).probe_id[q] = 0 /\ NewPair(c, d, w).legs[q] = 0
        /\ ~NewPair(c, d, w).info_sent /\ ~NewPair(c, d, w).timer
        /\ NewPair(c, d, w).relay = "none"
    BY DEF NewPair
  <2>4. PairsFresh
    BY <1>1, <2>1, <2>2, <2>3 DEF PairsFresh
  <2> QED BY <1>1, <1>2, <1>3, <2>1, <2>4
<1> QED BY <1>2, <1>4, <1>5

\* park_relay_leg parks, splices or drops the leg.
LEMMA ParkEffect ==
  ASSUME TypeOK, NEW x \in parking, ParkRelayLeg(x)
  PROVE  /\ parking' = parking \ {x} /\ probes' = probes /\ relay_legs' = relay_legs
         /\ next_id' = next_id /\ DOMAIN pairs' = DOMAIN pairs
         /\ \A p \in DOMAIN pairs : /\ p # x.pair => pairs'[p] = pairs[p]
                                    /\ SameProbes(pairs'[p], pairs[p])
                                    /\ pairs'[p].legs = pairs[p].legs
         /\ \/ pairs' = pairs /\ splices' = splices
            \/ /\ x.pair \in DOMAIN pairs /\ splices' = splices
               /\ pairs[x.pair].relay = "open"
               /\ pairs'[x.pair].relay = "parked" /\ pairs'[x.pair].parked = {x.leg}
            \/ /\ x.pair \in DOMAIN pairs
               /\ splices' = splices \cup {[pair |-> x.pair, legs |-> pairs[x.pair].parked \cup {x.leg}]}
               /\ pairs[x.pair].relay = "parked" /\ pairs'[x.pair].relay = "spliced"
<1>1. parking' = parking \ {x} /\ probes' = probes /\ relay_legs' = relay_legs /\ next_id' = next_id
  BY DEF ParkRelayLeg
<1> DEFINE p == x.pair
<1>2. CASE pairs' = pairs /\ splices' = splices
  BY <1>1, <1>2 DEF SameProbes
<1>3. CASE /\ p \in DOMAIN pairs /\ pairs[p].relay = "open" /\ splices' = splices
           /\ pairs' = [pairs EXCEPT ![p].relay = "parked", ![p].parked = {x.leg}]
  <2> DEFINE u == [pairs[p] EXCEPT !.relay = "parked"]
             v == [u EXCEPT !.parked = {x.leg}]
  <2>0. pairs[p] \in Pair
    BY <1>3 DEF TypeOK
  <2>1. u \in Pair /\ SameProbes(u, pairs[p]) /\ u.legs = pairs[p].legs /\ u.relay = "parked"
    BY <2>0 DEF Pair, SameProbes
  <2>2. pairs' = [pairs EXCEPT ![p] = v]
    BY <1>3
  <2> HIDE DEF u
  <2>3. SameProbes(v, u) /\ v.legs = u.legs /\ v.relay = u.relay /\ v.parked = {x.leg}
    BY <2>1 DEF Pair, SameProbes
  <2> HIDE DEF v
  <2>4. /\ DOMAIN pairs' = DOMAIN pairs /\ pairs'[p] = v
        /\ \A r \in DOMAIN pairs : r # p => pairs'[r] = pairs[r]
    BY <1>3, <2>2
  <2>5. SameProbes(v, pairs[p]) /\ v.legs = pairs[p].legs
    BY <2>1, <2>3 DEF SameProbes
  <2>6. \A r \in DOMAIN pairs : SameProbes(pairs'[r], pairs[r]) /\ pairs'[r].legs = pairs[r].legs
    BY <2>4, <2>5 DEF SameProbes
  <2> QED BY <1>1, <1>3, <2>1, <2>3, <2>4, <2>6
<1>4. CASE /\ p \in DOMAIN pairs /\ pairs[p].relay = "parked"
           /\ splices' = splices \cup {[pair |-> p, legs |-> pairs[p].parked \cup {x.leg}]}
           /\ pairs' = [pairs EXCEPT ![p].relay = "spliced", ![p].parked = {}]
  <2> DEFINE u == [pairs[p] EXCEPT !.relay = "spliced"]
             v == [u EXCEPT !.parked = {}]
  <2>0. pairs[p] \in Pair
    BY <1>4 DEF TypeOK
  <2>1. u \in Pair /\ SameProbes(u, pairs[p]) /\ u.legs = pairs[p].legs /\ u.relay = "spliced"
    BY <2>0 DEF Pair, SameProbes
  <2>2. pairs' = [pairs EXCEPT ![p] = v]
    BY <1>4
  <2> HIDE DEF u
  <2>3. SameProbes(v, u) /\ v.legs = u.legs /\ v.relay = u.relay
    BY <2>1 DEF Pair, SameProbes
  <2> HIDE DEF v
  <2>4. /\ DOMAIN pairs' = DOMAIN pairs /\ pairs'[p] = v
        /\ \A r \in DOMAIN pairs : r # p => pairs'[r] = pairs[r]
    BY <1>4, <2>2
  <2>5. SameProbes(v, pairs[p]) /\ v.legs = pairs[p].legs
    BY <2>1, <2>3 DEF SameProbes
  <2>6. \A r \in DOMAIN pairs : SameProbes(pairs'[r], pairs[r]) /\ pairs'[r].legs = pairs[r].legs
    BY <2>4, <2>5 DEF SameProbes
  <2> QED BY <1>1, <1>4, <2>1, <2>3, <2>4, <2>6
<1> QED BY <1>2, <1>3, <1>4 DEF ParkRelayLeg

-----------------------------------------------------------------------------
(* Probes. *)

\* No probe is added, and a pair that is marked has lost its own.
LEMMA ProbesMatchedKept ==
  ASSUME TypeOK, ProbesMatched, IdsForgotten, next_id' \in Nat, next_id <= next_id',
         DOMAIN probes' \subseteq DOMAIN probes,
         \A i \in DOMAIN probes' : probes'[i] = probes[i],
         \A p \in DOMAIN pairs' \ DOMAIN pairs : p >= next_id,
         \A p \in DOMAIN pairs' : p \in DOMAIN pairs =>
            /\ pairs'[p].party = pairs[p].party /\ pairs'[p].probe_id = pairs[p].probe_id
            /\ \/ pairs'[p].info_sent = pairs[p].info_sent
               \/ \A i \in DOMAIN probes' : i \notin ProbeIds(pairs[p])
  PROVE  ProbesMatched'
<1> SUFFICES ASSUME NEW i \in DOMAIN probes'
             PROVE  /\ i # 0 /\ i < next_id' /\ probes'[i].pair < next_id'
                    /\ probes'[i].pair \in DOMAIN pairs' => ProbeOf(probes[i].pair, i, probes[i].client)'
                    /\ probes'[i].pair \notin DOMAIN pairs' => i \in Forgetting'
  BY DEF ProbesMatched
<1> DEFINE p == probes[i].pair
<1>1. /\ i \in DOMAIN probes /\ i \in Nat /\ p \in Nat /\ probes'[i] = probes[i]
      /\ i # 0 /\ i < next_id /\ p < next_id /\ next_id \in Nat
  BY DEF TypeOK, Claim, ProbesMatched
<1>2. ASSUME p \in DOMAIN pairs
      PROVE  ProbeOf(p, i, probes[i].client) /\ i \in ProbeIds(pairs[p])
  <2>1. ProbeOf(p, i, probes[i].client)
    BY <1>1, <1>2 DEF ProbesMatched
  <2> QED BY <1>1, <2>1 DEF ProbeOf, ProbeIds
<1>3. p \in DOMAIN pairs' => ProbeOf(p, i, probes[i].client)'
  <2> HAVE p \in DOMAIN pairs'
  <2>1. p \in DOMAIN pairs
    BY SMT, <1>1
  <2> QED BY SMT, <1>1, <1>2, <2>1 DEF ProbeOf
<1>4. p \notin DOMAIN pairs' => i \in Forgetting'
  <2> HAVE p \notin DOMAIN pairs'
  <2>1. CASE p \in DOMAIN pairs
    BY <1>2, <2>1 DEF IdsForgotten, PairIds
  <2>2. CASE p \notin DOMAIN pairs
    BY <1>1, <2>2 DEF IdsForgotten, ProbesMatched
  <2> QED BY <2>1, <2>2
<1> QED BY SMT, <1>1, <1>3, <1>4

\* start_pair_probes draws for a pair that has no probe yet.
LEMMA StartMatched ==
  ASSUME TypeOK, ProbesMatched, IdsForgotten, NEW p, NEW qs, Untried(p), p < next_id,
         StartOf(p, qs)
  PROVE  ProbesMatched'
<1> SUFFICES ASSUME NEW i \in DOMAIN probes'
             PROVE  /\ i # 0 /\ i < next_id' /\ probes'[i].pair < next_id'
                    /\ probes'[i].pair \in DOMAIN pairs' => ProbeOf(probes[i].pair, i, probes[i].client)'
                    /\ probes'[i].pair \notin DOMAIN pairs' => i \in Forgetting'
  BY DEF ProbesMatched
<1>0. next_id \in Nat \ {0} /\ next_id' \in Nat /\ next_id <= next_id' /\ DOMAIN pairs' = DOMAIN pairs
  BY SMT DEF TypeOK, StartOf
<1>1. CASE i \in DOMAIN probes
  <2>1. /\ probes'[i] = probes[i] /\ i \in Nat /\ probes[i].pair \in Nat
        /\ i # 0 /\ i < next_id /\ probes[i].pair < next_id
    BY <1>1 DEF StartOf, TypeOK, Claim, ProbesMatched
  <2> DEFINE r == probes[i].pair
  <2>2. r \in DOMAIN pairs => ProbeOf(r, i, probes[i].client)
    BY <1>1 DEF ProbesMatched
  <2>3. r \in DOMAIN pairs => r # p
    BY <2>1, <2>2 DEF ProbeOf, Untried
  <2>4. r \in DOMAIN pairs => ProbeOf(r, i, probes[i].client)'
    BY SMT, <2>1, <2>2, <2>3 DEF ProbeOf, StartOf
  <2>5. r \notin DOMAIN pairs => i \in Forgetting'
    BY <1>1 DEF IdsForgotten, ProbesMatched
  <2> QED BY SMT, <1>0, <2>1, <2>4, <2>5
<1>2. CASE i \notin DOMAIN probes
  <2>1. PICK q \in qs : i = Number[q]
    BY SMT, <1>2 DEF StartOf
  <2>2. /\ q \in Party /\ qs # {} /\ i \in {next_id, next_id + 1}
    BY <2>1 DEF StartOf, Number, Party
  <2>3. next_id' = next_id + 2
    BY <2>2 DEF StartOf
  <2>4. probes'[i].pair = p /\ probes'[i].client = pairs[p].party[q]
    BY <1>2, <2>1 DEF StartOf
  <2>5. /\ ~pairs'[p].info_sent /\ pairs'[p].probe_id[q] = i /\ pairs'[p].party[q] = pairs[p].party[q]
    BY <2>1, <2>2 DEF StartOf, SameLegs, Untried
  <2>6. p \in DOMAIN pairs /\ p \in Nat
    BY DEF StartOf, TypeOK
  <2>7. ProbeOf(probes[i].pair, i, probes[i].client)'
    BY <2>2, <2>4, <2>5 DEF ProbeOf
  <2>8. p < next_id'
    BY SMT, <1>0, <2>3, <2>6
  <2> QED BY SMT, <1>0, <2>2, <2>3, <2>4, <2>6, <2>7, <2>8
<1> QED BY <1>1, <1>2

\* finish_pair takes a pair's probe ids as it marks it, or finds nothing to mark.
LEMMA FinishEffect ==
  ASSUME TypeOK, MarkStep
  PROVE  /\ next_id' = next_id /\ relay_legs' = relay_legs
         /\ (pairs' = pairs /\ probes' = probes) \/ \E p : MarkOf(p)
<1>1. ASSUME NEW s \in Session, ReaderFinish(s)
      PROVE  /\ next_id' = next_id /\ relay_legs' = relay_legs
             /\ (pairs' = pairs /\ probes' = probes) \/ MarkOf(rest[s].pair)
  BY <1>1, MarkEffect DEF ReaderFinish
<1>2. ASSUME NEW p \in DOMAIN pairs, PairDeadline(p)
      PROVE  next_id' = next_id /\ relay_legs' = relay_legs /\ MarkOf(p)
  BY <1>2, MarkEffect DEF PairDeadline
<1>3. ASSUME NEW p \in finishing, ProbeFinish(p)
      PROVE  /\ next_id' = next_id /\ relay_legs' = relay_legs
             /\ (pairs' = pairs /\ probes' = probes) \/ MarkOf(p)
  BY <1>3, MarkEffect DEF ProbeFinish
<1> QED BY <1>1, <1>2, <1>3 DEF MarkStep

\* Every step keeps the probe ids with their pairs.
LEMMA NextMatched ==
  ASSUME TypeOK, InfoCounted, HandlersHeld, ProbesMatched, ProbesDrawn, Next
  PROVE  ProbesMatched'
<1>1. IdsForgotten /\ next_id \in Nat
  BY NextForgets DEF TypeOK
<1>2. CASE QuietStep
  BY SMT, <1>1, <1>2, QuietEffect, ProbesMatchedKept DEF Quiet, IdsFewer, SameProbes
<1>3. CASE MarkStep
  <2>1. next_id' = next_id /\ ((pairs' = pairs /\ probes' = probes) \/ \E p : MarkOf(p))
    BY <1>3, FinishEffect
  <2>2. CASE pairs' = pairs /\ probes' = probes
    BY SMT, <1>1, <2>1, <2>2, ProbesMatchedKept
  <2>3. ASSUME NEW p, MarkOf(p)
        PROVE  ProbesMatched'
    <3>1. /\ DOMAIN probes' \subseteq DOMAIN probes
          /\ \A i \in DOMAIN probes' : probes'[i] = probes[i] /\ i \notin ProbeIds(pairs[p])
      BY <2>3 DEF MarkOf, Without
    <3>2. /\ DOMAIN pairs' = DOMAIN pairs
          /\ \A r \in DOMAIN pairs' : r \in DOMAIN pairs =>
                /\ pairs'[r].party = pairs[r].party /\ pairs'[r].probe_id = pairs[r].probe_id
                /\ pairs'[r].info_sent = pairs[r].info_sent \/ r = p
      BY <2>3 DEF MarkOf, SameLegs
    <3> QED BY SMT, <1>1, <2>1, <3>1, <3>2, ProbesMatchedKept
  <2> QED BY <2>1, <2>2, <2>3
<1>4. ASSUME NEW s \in Session, StartPairProbes(s)
      PROVE  ProbesMatched'
  <2>1. CASE pairs' = pairs /\ probes' = probes /\ next_id' = next_id
    BY SMT, <1>1, <2>1, ProbesMatchedKept
  <2>2. ASSUME NEW qs, StartOf(rest[s].pair, qs)
        PROVE  ProbesMatched'
    <3>1. Untried(rest[s].pair) /\ rest[s].pair < next_id
      BY <1>4, <2>2 DEF StartPairProbes, StartOf, ProbesDrawn, Connecting
    <3> QED BY <1>1, <2>2, <3>1, StartMatched
  <2> QED BY <1>4, <2>1, <2>2, StartEffect
<1>5. ASSUME NEW s \in Session, NEW i \in Identity, NEW w \in Bits, PeerConnect(s, i, w)
      PROVE  ProbesMatched'
  BY SMT, <1>1, <1>5, ConnectEffect, ProbesMatchedKept DEF IdsFewer, PairsFresh
<1>6. ASSUME NEW s \in Session, NEW p \in DOMAIN pairs, NEW q \in Party, NEW st \in Reports,
             PeerPath(s, p, q, st)
      PROVE  ProbesMatched'
  <2>1. /\ probes' = probes /\ DOMAIN pairs' = DOMAIN pairs
        /\ next_id' \in {next_id, next_id + 2}
        /\ \A r \in DOMAIN pairs : SameProbes(pairs'[r], pairs[r])
    BY <1>6, PathEffect DEF Noted, OpenOf, SameProbes
  <2> QED BY SMT, <1>1, <2>1, ProbesMatchedKept DEF SameProbes
<1>7. ASSUME NEW x \in parking, ParkRelayLeg(x)
      PROVE  ProbesMatched'
  BY SMT, <1>1, <1>7, ParkEffect, ProbesMatchedKept DEF SameProbes
<1> QED BY <1>2, <1>3, <1>4, <1>5, <1>6, <1>7, StepKinds

\* A pair's probes are as they were.
SameTrial(p) ==
    /\ p \in DOMAIN pairs
    /\ pairs'[p].probe_id = pairs[p].probe_id
    /\ pairs'[p].info_sent = pairs[p].info_sent /\ pairs'[p].timer = pairs[p].timer

\* No handler begins with a pair.
ReadersGoOn ==
    \A s \in Session : Connecting(s)' =>
        /\ Connecting(s) /\ rest'[s].pair = rest[s].pair
        /\ rest'[s].op = "probes" => rest[s].op = "probes"

\* The pairs of handlers about to draw are as they were, and so are those that probes finish.
LEMMA DrawnKept ==
  ASSUME TypeOK, ProbesDrawn, ReadersGoOn, next_id' \in Nat, next_id <= next_id',
         \A s \in Session : rest'[s].op = "probes" /\ rest[s].pair \in DOMAIN pairs' =>
            SameTrial(rest[s].pair),
         \A p \in finishing' :
            \/ p \in finishing /\ (p \in DOMAIN pairs' => SameTrial(p))
            \/ p \in Nat /\ p < next_id /\ \E q \in Party : pairs'[p].probe_id[q] # 0,
         \A x \in probing' : x.id # 0
  PROVE  ProbesDrawn'
<1>0. next_id \in Nat /\ \A s \in Session : rest[s].pair \in Nat
  BY DEF TypeOK, Rest
<1>1. ASSUME NEW s \in Session, Connecting(s)'
      PROVE  rest'[s].pair < next_id'
  <2>1. rest'[s].pair = rest[s].pair /\ rest[s].pair < next_id
    BY <1>1 DEF ReadersGoOn, ProbesDrawn
  <2> QED BY SMT, <1>0, <2>1
<1>2. ASSUME NEW s \in Session, NEW t \in Session, Connecting(s)', Connecting(t)',
             rest'[s].pair = rest'[t].pair
      PROVE  s = t
  BY <1>2 DEF ReadersGoOn, ProbesDrawn
<1>3. ASSUME NEW s \in Session, rest'[s].op = "probes", rest'[s].pair \in DOMAIN pairs'
      PROVE  Untried(rest[s].pair)'
  <2>1. rest'[s].pair = rest[s].pair /\ rest[s].op = "probes"
    BY <1>3 DEF ReadersGoOn, Connecting
  <2>2. SameTrial(rest[s].pair)
    BY <1>3, <2>1
  <2>3. Untried(rest[s].pair)
    BY <2>1, <2>2 DEF ProbesDrawn, SameTrial
  <2> QED BY <2>1, <2>2, <2>3 DEF Untried, SameTrial
<1>4. ASSUME NEW p \in finishing'
      PROVE  p < next_id' /\ (p \in DOMAIN pairs' => \E q \in Party : pairs'[p].probe_id[q] # 0)
  <2>1. CASE p \in finishing /\ (p \in DOMAIN pairs' => SameTrial(p))
    <3>1. p \in Nat /\ p < next_id
      BY <2>1 DEF TypeOK, ProbesDrawn
    <3> QED BY SMT, <1>0, <2>1, <3>1 DEF ProbesDrawn, SameTrial
  <2>2. CASE p \in Nat /\ p < next_id /\ \E q \in Party : pairs'[p].probe_id[q] # 0
    BY SMT, <1>0, <2>2
  <2> QED BY <1>4, <2>1, <2>2
<1> QED BY <1>1, <1>2, <1>3, <1>4 DEF ProbesDrawn

\* Taking and settling a probe, and every other quiet step.
LEMMA QuietDrawn ==
  ASSUME TypeOK, InfoCounted, ProbesMatched, ProbesDrawn, QuietStep
  PROVE  ProbesDrawn'
<1>1. Quiet /\ next_id \in Nat
  BY QuietEffect DEF TypeOK
<1>2. \A p \in DOMAIN pairs' : SameTrial(p)
  BY <1>1 DEF Quiet, SameProbes, SameTrial
<1>3. ReadersGoOn
  <2>1. CASE rest' = rest
    BY <2>1 DEF ReadersGoOn, Connecting
  <2>2. ASSUME NEW s \in Session, NEW r, rest' = [rest EXCEPT ![s] = r],
               r.op \notin {"probes", "finish"}
        PROVE  ReadersGoOn
    BY <2>2 DEF ReadersGoOn, Connecting, TypeOK
  <2>3. CASE \E s \in Session : \/ Register(s) \/ End(s) \/ CancelAndRevoke(s)
                                \/ InvalidatePairs(s) \/ ForgetPairIds(s)
    BY <2>1, <2>3 DEF Register, End, CancelAndRevoke, InvalidatePairs, ForgetPairIds, Untouched
  <2>4. CASE \E s \in Session : \/ \E cl \in Announces[Owner[s]] : PeerProof(s, cl)
                                \/ \E c \in Client : Displace(s, c)
    BY <2>2, <2>4 DEF PeerProof, Displace, Return, Continue, Idle
  <2>5. ASSUME NEW s \in Session, DisplaceForget(s)
        PROVE  ReadersGoOn
    <3>1. [rest[s] EXCEPT !.op = "displace"].op = "displace"
      BY DEF TypeOK, Rest
    <3> QED BY <2>2, <2>5, <3>1 DEF DisplaceForget, Return, Continue, Idle
  <2>6. ASSUME NEW i \in infos, SendInfo(i)
        PROVE  ReadersGoOn
    BY SMT, <2>1, <2>2, <2>6 DEF SendInfo, Return, Idle, TypeOK
  <2>7. CASE \/ ClaimStep
             \/ \E p \in DOMAIN pairs : ReapUnclaimedRelay(p)
             \/ \E x \in splices : EndRelay(x)
             \/ \E ids \in sweeping : Sweep(ids)
             \/ \E x \in probing : SettleProbe(x)
    BY <2>1, <2>7 DEF ClaimStep, TakeProbe, TakeRelayLeg, ReapUnclaimedRelay, EndRelay,
       Sweep, SettleProbe
  <2> QED BY <2>3, <2>4, <2>5, <2>6, <2>7 DEF QuietStep
<1>4. \A x \in probing' : x.id # 0
  <2>1. CASE \E c \in Client, id \in DOMAIN probes : TakeProbe(c, id)
    BY SMT, <2>1 DEF TakeProbe, ProbesMatched, ProbesDrawn
  <2>2. probing' \subseteq probing \/ \E c \in Client, id \in DOMAIN probes : TakeProbe(c, id)
    BY DEF QuietStep, Register, End, CancelAndRevoke, InvalidatePairs, ForgetPairIds, PeerProof,
       Displace, DisplaceForget, ClaimStep, TakeRelayLeg, ReapUnclaimedRelay,
       EndRelay, Sweep, SettleProbe, SendInfo, Untouched
  <2> QED BY <2>1, <2>2 DEF ProbesDrawn
<1>5. ASSUME NEW p \in finishing'
      PROVE  \/ p \in finishing
             \/ p \in Nat /\ p < next_id /\ \E q \in Party : pairs'[p].probe_id[q] # 0
  <2>1. CASE finishing' = finishing
    BY <1>5, <2>1
  <2>2. ASSUME NEW x \in probing, SettleProbe(x), p \notin finishing
        PROVE  p \in Nat /\ p < next_id /\ \E q \in Party : pairs'[p].probe_id[q] # 0
    <3>1. p = x.pair /\ p \in DOMAIN pairs /\ DOMAIN pairs' = DOMAIN pairs
      BY <1>5, <2>2 DEF SettleProbe
    <3>2. \E q \in Party : pairs[p].probe_id[q] = x.id
      BY <1>5, <2>2, <3>1 DEF SettleProbe
    <3>3. x.id # 0
      BY DEF ProbesDrawn
    <3>4. pairs'[p].probe_id = pairs[p].probe_id
      BY <1>2, <3>1 DEF SameTrial
    <3> QED BY <3>1, <3>2, <3>3, <3>4 DEF InfoCounted, TypeOK
  <2>3. finishing' = finishing \/ \E x \in probing : SettleProbe(x)
    BY DEF QuietStep, Register, End, CancelAndRevoke, InvalidatePairs, ForgetPairIds, PeerProof,
       Displace, DisplaceForget, ClaimStep, TakeProbe, TakeRelayLeg, ReapUnclaimedRelay,
       EndRelay, Sweep, SendInfo, Untouched
  <2> QED BY <2>1, <2>2, <2>3
<1>6. next_id' = next_id
  BY <1>1 DEF Quiet
<1> QED BY SMT, <1>1, <1>2, <1>3, <1>4, <1>5, <1>6, DrawnKept

\* A pair that is marked is none that a handler is about to draw for: its reader has drawn, its
\* deadline was armed by the draw, or a probe of it was drawn.
LEMMA FinishDrawn ==
  ASSUME TypeOK, ProbesDrawn, MarkStep
  PROVE  ProbesDrawn'
<1>1. next_id' = next_id /\ next_id \in Nat
  BY FinishEffect DEF TypeOK
<1>2. finishing' \subseteq finishing /\ probing' = probing
  BY DEF MarkStep, ReaderFinish, PairDeadline, ProbeFinish
<1>3. ReadersGoOn
  <2>1. CASE rest' = rest
    BY <2>1 DEF ReadersGoOn, Connecting
  <2>2. ASSUME NEW s \in Session, ReaderFinish(s)
        PROVE  ReadersGoOn
    <3>1. [rest[s] EXCEPT !.op = "send"].op = "send"
      BY DEF TypeOK, Rest
    <3>2. \E r : rest' = [rest EXCEPT ![s] = r] /\ r.op \notin {"probes", "finish"}
      BY <2>2, <3>1 DEF ReaderFinish, Return, Continue, Idle
    <3> QED BY <3>2 DEF ReadersGoOn, Connecting, TypeOK
  <2> QED BY <2>1, <2>2 DEF MarkStep, PairDeadline, ProbeFinish
<1>4. ASSUME pairs' = pairs
      PROVE  ProbesDrawn'
  BY SMT, <1>1, <1>2, <1>3, <1>4, DrawnKept DEF ProbesDrawn, SameTrial
<1>5. ASSUME NEW p, MarkOf(p),
             \A s \in Session : rest[s].op = "probes" => rest[s].pair # p
      PROVE  ProbesDrawn'
  <2>1. /\ DOMAIN pairs' = DOMAIN pairs
        /\ \A r \in DOMAIN pairs : pairs'[r].probe_id = pairs[r].probe_id
        /\ \A r \in DOMAIN pairs : r # p => SameTrial(r)
    BY <1>5 DEF MarkOf, SameTrial
  <2>2. \A s \in Session : rest'[s].op = "probes" /\ rest[s].pair \in DOMAIN pairs' =>
            SameTrial(rest[s].pair)
    BY <1>3, <1>5, <2>1 DEF ReadersGoOn, Connecting
  <2>3. \A r \in finishing' : r \in DOMAIN pairs' => \E q \in Party : pairs'[r].probe_id[q] # 0
    BY <1>2, <2>1 DEF ProbesDrawn
  <2>4. \A r \in finishing' : r \in Nat /\ r < next_id
    BY <1>2 DEF ProbesDrawn, TypeOK
  <2>5. \A r \in finishing' :
            \/ r \in finishing /\ (r \in DOMAIN pairs' => SameTrial(r))
            \/ r \in Nat /\ r < next_id /\ \E q \in Party : pairs'[r].probe_id[q] # 0
    BY <1>2, <2>3, <2>4
  <2>6. \A x \in probing' : x.id # 0
    BY <1>2 DEF ProbesDrawn
  <2> QED BY SMT, <1>1, <1>3, <2>2, <2>5, <2>6, DrawnKept
<1>6. ASSUME NEW s \in Session, ReaderFinish(s)
      PROVE  ProbesDrawn'
  <2>1. pairs' = pairs \/ MarkOf(rest[s].pair)
    BY <1>6, MarkEffect DEF ReaderFinish
  <2>2. \A t \in Session : rest[t].op = "probes" => rest[t].pair # rest[s].pair
    BY <1>6 DEF ReaderFinish, ProbesDrawn, Connecting
  <2> QED BY <1>4, <1>5, <2>1, <2>2
<1>7. ASSUME NEW p \in DOMAIN pairs, PairDeadline(p)
      PROVE  ProbesDrawn'
  <2>1. MarkOf(p) /\ pairs[p].timer
    BY <1>7, MarkEffect DEF PairDeadline
  <2>2. \A t \in Session : rest[t].op = "probes" => rest[t].pair # p
    BY <2>1 DEF ProbesDrawn, Untried
  <2> QED BY <1>5, <2>1, <2>2
<1>8. ASSUME NEW p \in finishing, ProbeFinish(p)
      PROVE  ProbesDrawn'
  <2>1. pairs' = pairs \/ MarkOf(p)
    BY <1>8, MarkEffect DEF ProbeFinish
  <2>2. ASSUME MarkOf(p), NEW t \in Session, rest[t].op = "probes"
        PROVE  rest[t].pair # p
    <3>1. p \in DOMAIN pairs /\ \E q \in Party : pairs[p].probe_id[q] # 0
      BY <2>2 DEF MarkOf, ProbesDrawn
    <3> QED BY <2>2, <3>1 DEF ProbesDrawn, Untried
  <2> QED BY <1>4, <1>5, <2>1, <2>2
<1> QED BY <1>6, <1>7, <1>8 DEF MarkStep

\* The handler that draws is the only one of its pair.
LEMMA StartDrawn ==
  ASSUME TypeOK, ProbesDrawn, NEW s \in Session, StartPairProbes(s)
  PROVE  ProbesDrawn'
<1> DEFINE p == rest[s].pair
<1>1. next_id \in Nat /\ finishing' = finishing /\ probing' = probing /\ rest[s].op = "probes"
  BY DEF StartPairProbes, TypeOK
<1>2. /\ ReadersGoOn
      /\ \A t \in Session : rest'[t].op = "probes" => rest[t].op = "probes" /\ t # s
  <2>1. [rest[s] EXCEPT !.op = "finish"].op = "finish" /\ [rest[s] EXCEPT !.op = "finish"].pair = p
    BY DEF TypeOK, Rest
  <2>2. \E r : /\ rest' = [rest EXCEPT ![s] = r] /\ r.op # "probes"
               /\ r.op = "finish" => r.pair = p
    BY ZenonT(30), <2>1 DEF StartPairProbes, Return, Continue, Idle
  <2>3. /\ rest'[s].op # "probes" /\ (rest'[s].op = "finish" => rest'[s].pair = p)
        /\ \A t \in Session : t # s => rest'[t] = rest[t]
    BY <2>2 DEF TypeOK
  <2> QED BY <1>1, <2>3 DEF ReadersGoOn, Connecting
<1>3. \A x \in probing' : x.id # 0
  BY <1>1 DEF ProbesDrawn
<1>4. CASE pairs' = pairs /\ next_id' = next_id
  BY SMT, <1>1, <1>2, <1>3, <1>4, DrawnKept DEF SameTrial
<1>5. ASSUME NEW qs, StartOf(p, qs)
      PROVE  ProbesDrawn'
  <2>1. /\ DOMAIN pairs' = DOMAIN pairs /\ p \in DOMAIN pairs
        /\ \A r \in DOMAIN pairs : r # p => SameTrial(r)
        /\ next_id' \in Nat /\ next_id <= next_id'
    BY SMT, <1>1, <1>5 DEF StartOf, SameTrial
  <2>2. \A t \in Session : rest'[t].op = "probes" => rest[t].pair # p
    BY <1>1, <1>2 DEF ProbesDrawn, Connecting
  <2>3. p \notin finishing
    BY <1>1, <2>1 DEF ProbesDrawn, Untried
  <2>4. \A r \in finishing' : r \in finishing /\ (r \in DOMAIN pairs' => SameTrial(r))
    BY <1>1, <2>1, <2>3
  <2>5. \A t \in Session : rest'[t].op = "probes" /\ rest[t].pair \in DOMAIN pairs' =>
            SameTrial(rest[t].pair)
    BY <2>1, <2>2
  <2> QED BY <1>2, <1>3, <2>1, <2>4, <2>5, DrawnKept
<1> QED BY <1>4, <1>5, StartEffect

\* The pair that peer_connect inserts is untried, and its id is nobody's.
LEMMA ConnectDrawn ==
  ASSUME TypeOK, InfoCounted, ProbesDrawn, NEW s \in Session, NEW i \in Identity,
         NEW w \in Bits, PeerConnect(s, i, w)
  PROVE  ProbesDrawn'
<1>1. /\ next_id \in Nat /\ finishing' = finishing /\ probing' = probing
      /\ \A t \in Session : rest[t].pair \in Nat
  BY DEF PeerConnect, TypeOK, Rest
<1>2. /\ next_id' \in Nat /\ next_id <= next_id'
      /\ \A p \in DOMAIN pairs' : p # next_id => SameTrial(p)
  BY SMT, <1>1, ConnectEffect DEF PairsFresh, SameTrial
<1>3. \A p \in finishing' : p \in finishing /\ (p \in DOMAIN pairs' => SameTrial(p))
  BY SMT, <1>1, <1>2 DEF ProbesDrawn, TypeOK
<1>4. \A x \in probing' : x.id # 0
  BY <1>1 DEF ProbesDrawn
<1>5. CASE rest' = [rest EXCEPT ![s] = Idle]
  <2>1. ReadersGoOn
    BY <1>5 DEF ReadersGoOn, Connecting, Idle, TypeOK
  <2>2. \A t \in Session : rest'[t].op = "probes" => rest[t].pair # next_id
    BY SMT, <1>1, <2>1 DEF ReadersGoOn, Connecting, ProbesDrawn
  <2> QED BY <1>2, <1>3, <1>4, <2>1, <2>2, DrawnKept
<1>6. CASE /\ rest' = [rest EXCEPT ![s] = [op |-> "probes", pair |-> next_id, clients |-> {}]]
           /\ next_id' = next_id + 1
  <2>1. /\ rest'[s].op = "probes" /\ rest'[s].pair = next_id
        /\ \A t \in Session : t # s => rest'[t] = rest[t]
    BY <1>6 DEF TypeOK
  <2>2. \A t \in Session : t # s /\ Connecting(t)' => Connecting(t) /\ rest[t].pair < next_id
    BY <2>1 DEF Connecting, ProbesDrawn
  <2>3. ASSUME NEW t \in Session, Connecting(t)'
        PROVE  rest'[t].pair < next_id'
    BY SMT, <1>1, <1>6, <2>1, <2>2, <2>3
  <2>4. ASSUME NEW t \in Session, NEW u \in Session, Connecting(t)', Connecting(u)',
               rest'[t].pair = rest'[u].pair
        PROVE  t = u
    BY SMT, <1>1, <2>1, <2>2, <2>4 DEF ProbesDrawn
  <2>5. ASSUME NEW t \in Session, rest'[t].op = "probes", rest'[t].pair \in DOMAIN pairs'
        PROVE  Untried(rest[t].pair)'
    <3>1. CASE t = s
      <4>1. next_id \notin DOMAIN pairs
        BY SMT, <1>1 DEF InfoCounted
      <4>2. /\ \A q \in Party : pairs'[next_id].probe_id[q] = 0
            /\ ~pairs'[next_id].info_sent /\ ~pairs'[next_id].timer
        BY <2>1, <2>5, <3>1, <4>1, ConnectEffect DEF PairsFresh
      <4> QED BY <2>1, <3>1, <4>2 DEF Untried
    <3>2. CASE t # s
      <4>1. rest[t].op = "probes" /\ rest'[t].pair = rest[t].pair /\ rest[t].pair < next_id
        BY <2>1, <2>2, <2>5, <3>2 DEF Connecting
      <4>2. SameTrial(rest[t].pair)
        BY SMT, <1>1, <1>2, <2>5, <4>1
      <4>3. Untried(rest[t].pair)
        BY <4>1, <4>2 DEF ProbesDrawn, SameTrial
      <4> QED BY <4>1, <4>2, <4>3 DEF Untried, SameTrial
    <3> QED BY <3>1, <3>2
  <2>6. ASSUME NEW p \in finishing'
        PROVE  p < next_id' /\ (p \in DOMAIN pairs' => \E q \in Party : pairs'[p].probe_id[q] # 0)
    <3>1. p \in Nat /\ p < next_id
      BY <1>3 DEF TypeOK, ProbesDrawn
    <3> QED BY SMT, <1>1, <1>3, <1>6, <3>1 DEF ProbesDrawn, SameTrial
  <2> QED BY <1>4, <2>3, <2>4, <2>5, <2>6 DEF ProbesDrawn
<1> QED BY <1>5, <1>6, ConnectEffect

\* Every step keeps what the probes of a pair rest on.
LEMMA NextDrawn ==
  ASSUME TypeOK, InfoCounted, ProbesMatched, ProbesDrawn, Next
  PROVE  ProbesDrawn'
<1>0. next_id \in Nat
  BY DEF TypeOK
<1>1. ASSUME NEW s \in Session, NEW p \in DOMAIN pairs, NEW q \in Party, NEW st \in Reports,
             PeerPath(s, p, q, st)
      PROVE  ProbesDrawn'
  <2>1. finishing' = finishing /\ probing' = probing /\ rest' = [rest EXCEPT ![s] = Idle]
    BY <1>1 DEF PeerPath, Return
  <2>2. /\ DOMAIN pairs' = DOMAIN pairs /\ next_id' \in {next_id, next_id + 2}
        /\ \A r \in DOMAIN pairs : SameTrial(r)
    BY <1>1, PathEffect DEF Noted, OpenOf, SameProbes, SameTrial
  <2>3. ReadersGoOn
    BY <2>1 DEF ReadersGoOn, Connecting, Idle, TypeOK
  <2> QED BY SMTT(30), <1>0, <2>1, <2>2, <2>3, DrawnKept DEF ProbesDrawn
<1>2. ASSUME NEW x \in parking, ParkRelayLeg(x)
      PROVE  ProbesDrawn'
  <2>1. finishing' = finishing /\ probing' = probing /\ rest' = rest
    BY <1>2 DEF ParkRelayLeg
  <2>2. /\ DOMAIN pairs' = DOMAIN pairs /\ next_id' = next_id
        /\ \A r \in DOMAIN pairs : SameTrial(r)
    BY <1>2, ParkEffect DEF SameProbes, SameTrial
  <2>3. ReadersGoOn
    BY <2>1 DEF ReadersGoOn, Connecting
  <2> QED BY SMTT(30), <1>0, <2>1, <2>2, <2>3, DrawnKept DEF ProbesDrawn
<1> QED BY <1>1, <1>2, QuietDrawn, FinishDrawn, StartDrawn, ConnectDrawn, StepKinds

-----------------------------------------------------------------------------
(* The legs of a relayed pair. *)


\* A party's leg of a pair.
LegOf(p, i, c) == \E q \in Party : pairs[p].legs[q] = i /\ pairs[p].party[q] = c

\* An outstanding leg id is its pair's, or is about to be forgotten with it; the legs of a relay are
\* two.
LegsMatched ==
    /\ \A i \in DOMAIN relay_legs :
          /\ i # 0 /\ i < next_id /\ relay_legs[i].pair < next_id
          /\ relay_legs[i].pair \in DOMAIN pairs =>
                LegOf(relay_legs[i].pair, i, relay_legs[i].client)
          /\ relay_legs[i].pair \notin DOMAIN pairs => i \in Forgetting
    /\ \A p \in DOMAIN pairs :
          /\ pairs[p].relay = "none" => \A q \in Party : pairs[p].legs[q] = 0
          /\ pairs[p].relay # "none" =>
                /\ \A q \in Party : pairs[p].legs[q] # 0 /\ pairs[p].legs[q] < next_id
                /\ pairs[p].legs["consumer"] # pairs[p].legs["provider"]

\* The leg waiting in a parked relay is one of the pair's, and nobody else has it.
ParkedAlone(p) ==
    \E l \in Leg : /\ pairs[p].parked = {l}
                   /\ LegOf(p, l.id, l.client)
                   /\ l.id \notin DOMAIN relay_legs
                   /\ \A x \in parking : x.leg.id # l.id

\* A leg id is in one place at a time, and what is spliced came from both parties.
LegsSingle ==
    /\ \A x \in parking :
          /\ x.pair < next_id /\ x.leg.id < next_id /\ x.leg.id # 0
          /\ x.leg.id \notin DOMAIN relay_legs
          /\ x.pair \in DOMAIN pairs => LegOf(x.pair, x.leg.id, x.leg.client)
    /\ \A x, y \in parking : x.leg.id = y.leg.id => x = y
    /\ \A p \in DOMAIN pairs : pairs[p].relay = "parked" => ParkedAlone(p)
    /\ \A x \in splices : x.pair < next_id
    /\ SpliceJoinsBothParties

IdsInv == HandlersHeld /\ ProbesMatched /\ ProbesDrawn /\ LegsMatched /\ LegsSingle

-----------------------------------------------------------------------------
(* Relay legs. *)

\* No leg is added, and the legs and parties of a pair stay.
LEMMA LegsMatchedKept ==
  ASSUME TypeOK, LegsMatched, IdsForgotten, next_id' \in Nat, next_id <= next_id',
         DOMAIN relay_legs' \subseteq DOMAIN relay_legs,
         \A i \in DOMAIN relay_legs' : relay_legs'[i] = relay_legs[i],
         \A p \in DOMAIN pairs' \ DOMAIN pairs :
            /\ p >= next_id /\ pairs'[p].relay = "none"
            /\ \A q \in Party : pairs'[p].legs[q] = 0,
         \A p \in DOMAIN pairs' : p \in DOMAIN pairs =>
            /\ pairs'[p].party = pairs[p].party /\ pairs'[p].legs = pairs[p].legs
            /\ pairs'[p].relay = "none" <=> pairs[p].relay = "none"
  PROVE  LegsMatched'
<1>0. next_id \in Nat
  BY DEF TypeOK
<1>1. ASSUME NEW i \in DOMAIN relay_legs'
      PROVE  /\ i # 0 /\ i < next_id' /\ relay_legs'[i].pair < next_id'
             /\ relay_legs'[i].pair \in DOMAIN pairs' =>
                   LegOf(relay_legs[i].pair, i, relay_legs[i].client)'
             /\ relay_legs'[i].pair \notin DOMAIN pairs' => i \in Forgetting'
  <2> DEFINE p == relay_legs[i].pair
  <2>1. /\ i \in DOMAIN relay_legs /\ i \in Nat /\ p \in Nat /\ relay_legs'[i] = relay_legs[i]
        /\ i # 0 /\ i < next_id /\ p < next_id
    BY <1>1 DEF TypeOK, Claim, LegsMatched
  <2>2. ASSUME p \in DOMAIN pairs
        PROVE  LegOf(p, i, relay_legs[i].client) /\ i \in PairIds(pairs[p])
    <3>1. LegOf(p, i, relay_legs[i].client)
      BY <2>1, <2>2 DEF LegsMatched
    <3> QED BY <2>1, <3>1 DEF LegOf, PairIds
  <2>3. p \in DOMAIN pairs' => LegOf(relay_legs[i].pair, i, relay_legs[i].client)'
    <3> HAVE p \in DOMAIN pairs'
    <3>1. p \in DOMAIN pairs
      BY SMT, <1>0, <2>1
    <3> QED BY <2>1, <2>2, <3>1 DEF LegOf
  <2>4. p \notin DOMAIN pairs' => i \in Forgetting'
    <3> HAVE p \notin DOMAIN pairs'
    <3>1. CASE p \in DOMAIN pairs
      BY <1>1, <2>2, <3>1 DEF IdsForgotten
    <3>2. CASE p \notin DOMAIN pairs
      BY <1>1, <2>1, <3>2 DEF IdsForgotten, LegsMatched
    <3> QED BY <3>1, <3>2
  <2> QED BY SMT, <1>0, <2>1, <2>3, <2>4
<1>2. ASSUME NEW p \in DOMAIN pairs'
      PROVE  /\ pairs'[p].relay = "none" => \A q \in Party : pairs'[p].legs[q] = 0
             /\ pairs'[p].relay # "none" =>
                   /\ \A q \in Party : pairs'[p].legs[q] # 0 /\ pairs'[p].legs[q] < next_id'
                   /\ pairs'[p].legs["consumer"] # pairs'[p].legs["provider"]
  <2>1. CASE p \in DOMAIN pairs
    <3>1. \A q \in Party : pairs[p].legs[q] \in Nat
      BY SMT, <2>1 DEF TypeOK, Pair
    <3> QED BY SMT, <1>0, <1>2, <2>1, <3>1 DEF LegsMatched
  <2>2. CASE p \notin DOMAIN pairs
    BY <1>2, <2>2
  <2> QED BY <2>1, <2>2
<1> QED BY <1>1, <1>2 DEF LegsMatched

\* Opening a relay draws the two legs of a pair that had none.
LEMMA OpenMatched ==
  ASSUME TypeOK, LegsMatched, IdsForgotten, InfoCounted, NEW p, OpenOf(p)
  PROVE  LegsMatched'
<1>0. /\ next_id \in Nat \ {0} /\ next_id' = next_id + 2 /\ DOMAIN pairs' = DOMAIN pairs
      /\ p \in DOMAIN pairs /\ p \in Nat /\ p < next_id
      /\ Number["consumer"] = next_id /\ Number["provider"] = next_id + 1
  BY DEF TypeOK, OpenOf, Number, InfoCounted
<1>1. ASSUME NEW i \in DOMAIN relay_legs'
      PROVE  /\ i # 0 /\ i < next_id' /\ relay_legs'[i].pair < next_id'
             /\ relay_legs'[i].pair \in DOMAIN pairs' =>
                   LegOf(relay_legs[i].pair, i, relay_legs[i].client)'
             /\ relay_legs'[i].pair \notin DOMAIN pairs' => i \in Forgetting'
  <2>1. CASE i \in DOMAIN relay_legs
    <3> DEFINE r == relay_legs[i].pair
    <3>1. /\ i \in Nat /\ r \in Nat /\ i # 0 /\ i < next_id /\ r < next_id
      BY <2>1 DEF TypeOK, Claim, LegsMatched
    <3>2. relay_legs'[i] = relay_legs[i]
      BY SMT, <1>0, <2>1, <3>1 DEF OpenOf
    <3>3. r \in DOMAIN pairs => LegOf(r, i, relay_legs[i].client)
      BY <2>1 DEF LegsMatched
    <3>4. r \in DOMAIN pairs => r # p
      BY SMT, <3>1, <3>3 DEF LegOf, OpenOf, LegsMatched
    <3>5. r \in DOMAIN pairs => LegOf(relay_legs[i].pair, i, relay_legs[i].client)'
      BY SMT, <3>2, <3>3, <3>4 DEF LegOf, OpenOf
    <3>6. r \notin DOMAIN pairs => i \in Forgetting'
      BY <1>1, <2>1 DEF IdsForgotten, LegsMatched
    <3> QED BY SMT, <1>0, <3>1, <3>2, <3>5, <3>6
  <2>2. CASE i \notin DOMAIN relay_legs
    <3>1. PICK q \in Party : i = Number[q]
      BY <1>0, <1>1, <2>2 DEF OpenOf, Party
    <3>2. relay_legs'[i].pair = p /\ relay_legs'[i].client = pairs[p].party[q]
      BY <3>1 DEF OpenOf
    <3>3. pairs'[p].legs[q] = i /\ pairs'[p].party[q] = pairs[p].party[q]
      BY <3>1 DEF OpenOf, SameProbes
    <3>4. LegOf(relay_legs[i].pair, i, relay_legs[i].client)'
      BY <3>2, <3>3 DEF LegOf
    <3>5. i \in {next_id, next_id + 1}
      BY <1>0, <3>1 DEF Party
    <3> QED BY SMT, <1>0, <3>2, <3>4, <3>5
  <2> QED BY <2>1, <2>2
<1>2. ASSUME NEW r \in DOMAIN pairs'
      PROVE  /\ pairs'[r].relay = "none" => \A q \in Party : pairs'[r].legs[q] = 0
             /\ pairs'[r].relay # "none" =>
                   /\ \A q \in Party : pairs'[r].legs[q] # 0 /\ pairs'[r].legs[q] < next_id'
                   /\ pairs'[r].legs["consumer"] # pairs'[r].legs["provider"]
  <2>1. CASE r # p
    <3>1. r \in DOMAIN pairs /\ pairs'[r] = pairs[r] /\ \A q \in Party : pairs[r].legs[q] \in Nat
      BY SMTT(30), <1>0, <1>2, <2>1 DEF OpenOf, TypeOK, Pair
    <3> QED BY SMT, <1>0, <3>1 DEF LegsMatched
  <2>2. CASE r = p
    <3>1. pairs'[p].relay = "open" /\ pairs'[p].legs = Number
      BY DEF OpenOf
    <3> QED BY SMT, <1>0, <2>2, <3>1 DEF Party
  <2> QED BY <2>1, <2>2
<1> QED BY <1>1, <1>2 DEF LegsMatched

\* A step that opens no relay and parks no leg leaves the relay of every pair it keeps.
RelaysKept ==
    /\ next_id' \in Nat /\ next_id <= next_id'
    /\ DOMAIN relay_legs' \subseteq DOMAIN relay_legs
    /\ \A i \in DOMAIN relay_legs' : relay_legs'[i] = relay_legs[i]
    /\ \A p \in DOMAIN pairs' \ DOMAIN pairs :
          /\ p >= next_id /\ pairs'[p].relay = "none"
          /\ \A q \in Party : pairs'[p].legs[q] = 0
    /\ \A p \in DOMAIN pairs' : p \in DOMAIN pairs => SameLegs(pairs'[p], pairs[p])

\* The steps are these, the opening of a relay, and the parking of a leg.
LEMMA RelayKinds ==
  ASSUME TypeOK, InfoCounted, Next
  PROVE  \/ RelaysKept
         \/ /\ \E p : OpenOf(p)
            /\ parking' = parking /\ splices' = splices
         \/ \E x \in parking : ParkRelayLeg(x)
<1>0. next_id \in Nat
  BY DEF TypeOK
<1>1. CASE QuietStep
  BY SMTT(30), <1>0, <1>1, QuietEffect DEF Quiet, IdsFewer, RelaysKept
<1>2. CASE MarkStep
  <2>1. next_id' = next_id /\ relay_legs' = relay_legs /\ (pairs' = pairs \/ \E p : MarkOf(p))
    BY <1>2, FinishEffect
  <2>2. DOMAIN pairs' = DOMAIN pairs /\ \A p \in DOMAIN pairs : SameLegs(pairs'[p], pairs[p])
    BY <2>1 DEF MarkOf, SameLegs
  <2> QED BY SMT, <1>0, <2>1, <2>2 DEF RelaysKept
<1>3. ASSUME NEW s \in Session, StartPairProbes(s)
      PROVE  RelaysKept
  <2>1. /\ relay_legs' = relay_legs
        /\ \/ pairs' = pairs /\ next_id' = next_id
           \/ \E qs : StartOf(rest[s].pair, qs)
    BY <1>3, StartEffect
  <2>2. /\ DOMAIN pairs' = DOMAIN pairs /\ next_id' \in {next_id, next_id + 2}
        /\ \A p \in DOMAIN pairs : SameLegs(pairs'[p], pairs[p])
    BY <2>1 DEF StartOf, SameLegs
  <2> QED BY SMT, <1>0, <2>1, <2>2 DEF RelaysKept
<1>4. ASSUME NEW s \in Session, NEW i \in Identity, NEW w \in Bits, PeerConnect(s, i, w)
      PROVE  RelaysKept
  BY SMT, <1>0, <1>4, ConnectEffect DEF RelaysKept, IdsFewer, PairsFresh, SameLegs
<1>5. ASSUME NEW s \in Session, NEW p \in DOMAIN pairs, NEW q \in Party, NEW st \in Reports,
             PeerPath(s, p, q, st)
      PROVE  RelaysKept \/ (OpenOf(p) /\ parking' = parking /\ splices' = splices)
  <2>1. Noted => RelaysKept
    BY SMT, <1>0 DEF Noted, RelaysKept
  <2>2. parking' = parking /\ splices' = splices
    BY <1>5 DEF PeerPath
  <2> QED BY <1>5, <2>1, <2>2, PathEffect
<1> QED BY <1>1, <1>2, <1>3, <1>4, <1>5, StepKinds

\* Every step keeps the leg ids with their pairs.
LEMMA NextLegs ==
  ASSUME TypeOK, InfoCounted, HandlersHeld, LegsMatched, Next
  PROVE  LegsMatched'
<1>1. IdsForgotten /\ next_id \in Nat
  BY NextForgets DEF TypeOK
<1>2. CASE RelaysKept
  BY <1>1, <1>2, LegsMatchedKept DEF RelaysKept, SameLegs
<1>3. ASSUME NEW x \in parking, ParkRelayLeg(x)
      PROVE  LegsMatched'
  <2>1. /\ relay_legs' = relay_legs /\ next_id' = next_id /\ DOMAIN pairs' = DOMAIN pairs
        /\ \A p \in DOMAIN pairs : /\ pairs'[p].party = pairs[p].party
                                   /\ pairs'[p].legs = pairs[p].legs
                                   /\ pairs'[p].relay = "none" <=> pairs[p].relay = "none"
    BY <1>3, ParkEffect DEF SameProbes
  <2> QED BY SMT, <1>1, <2>1, LegsMatchedKept
<1> QED BY <1>1, <1>2, <1>3, OpenMatched, RelayKinds

\* Splices whose pairs keep their relays.
LEMMA SplicesKept ==
  ASSUME SpliceJoinsBothParties, splices' \subseteq splices,
         \A x \in splices' : x.pair \in DOMAIN pairs' =>
            x.pair \in DOMAIN pairs /\ SameLegs(pairs'[x.pair], pairs[x.pair])
  PROVE  SpliceJoinsBothParties'
<1> SUFFICES ASSUME NEW x \in splices', x.pair \in DOMAIN pairs'
             PROVE  /\ {l.client : l \in x.legs} = {pairs'[x.pair].party[q] : q \in Party}
                    /\ {l.id : l \in x.legs} = {pairs'[x.pair].legs[q] : q \in Party}
                    /\ pairs'[x.pair].relay = "spliced"
  BY DEF SpliceJoinsBothParties
<1>1. /\ x \in splices /\ x.pair \in DOMAIN pairs
      /\ pairs'[x.pair].party = pairs[x.pair].party
      /\ pairs'[x.pair].legs = pairs[x.pair].legs
      /\ pairs'[x.pair].relay = pairs[x.pair].relay
  BY DEF SameLegs
<1>2. /\ {l.client : l \in x.legs} = {pairs[x.pair].party[q] : q \in Party}
      /\ {l.id : l \in x.legs} = {pairs[x.pair].legs[q] : q \in Party}
      /\ pairs[x.pair].relay = "spliced"
  BY <1>1 DEF SpliceJoinsBothParties
<1>3. {pairs'[x.pair].party[q] : q \in Party} = {pairs[x.pair].party[q] : q \in Party}
  BY <1>1
<1>4. {pairs'[x.pair].legs[q] : q \in Party} = {pairs[x.pair].legs[q] : q \in Party}
  BY <1>1
<1> QED BY <1>1, <1>2, <1>3, <1>4

\* The legs of a pair that is not opened are where they were.
LEMMA LegsSingleKept ==
  ASSUME TypeOK, LegsMatched, LegsSingle, next_id' \in Nat, next_id <= next_id',
         parking' \subseteq parking, splices' \subseteq splices,
         \A i \in DOMAIN relay_legs' : i \in DOMAIN relay_legs \/ i >= next_id,
         \A p \in DOMAIN pairs' \ DOMAIN pairs : p >= next_id /\ pairs'[p].relay = "none",
         \A p \in DOMAIN pairs' : p \in DOMAIN pairs =>
            \/ SameLegs(pairs'[p], pairs[p])
            \/ pairs[p].relay = "none" /\ pairs'[p].relay = "open"
  PROVE  LegsSingle'
<1>0. next_id \in Nat
  BY DEF TypeOK
<1>1. ASSUME NEW p \in DOMAIN pairs', p \in DOMAIN pairs, NEW i, i # 0, NEW c, LegOf(p, i, c)
      PROVE  LegOf(p, i, c)'
  <2>1. pairs[p].relay # "none"
    BY <1>1 DEF LegOf, LegsMatched
  <2>2. SameLegs(pairs'[p], pairs[p])
    BY <1>1, <2>1
  <2> QED BY <1>1, <2>2 DEF LegOf, SameLegs
<1>2. ASSUME NEW x \in parking'
      PROVE  /\ x.pair < next_id' /\ x.leg.id < next_id' /\ x.leg.id # 0
             /\ x.leg.id \notin DOMAIN relay_legs'
             /\ x.pair \in DOMAIN pairs' => LegOf(x.pair, x.leg.id, x.leg.client)'
  <2>1. /\ x \in parking /\ x.pair \in Nat /\ x.leg.id \in Nat
        /\ x.pair < next_id /\ x.leg.id < next_id /\ x.leg.id # 0
        /\ x.leg.id \notin DOMAIN relay_legs
    BY SMTT(30), <1>2 DEF TypeOK, Leg, LegsSingle
  <2>2. x.pair \in DOMAIN pairs' => x.pair \in DOMAIN pairs
    BY SMT, <1>0, <2>1
  <2>3. x.pair \in DOMAIN pairs' => LegOf(x.pair, x.leg.id, x.leg.client)
    BY <2>1, <2>2 DEF LegsSingle
  <2> QED BY SMT, <1>0, <1>1, <2>1, <2>2, <2>3
<1>3. ASSUME NEW p \in DOMAIN pairs', pairs'[p].relay = "parked"
      PROVE  ParkedAlone(p)'
  <2>1. p \in DOMAIN pairs /\ SameLegs(pairs'[p], pairs[p]) /\ pairs[p].relay = "parked"
    BY <1>3 DEF SameLegs
  <2>2. PICK l \in Leg : /\ pairs[p].parked = {l} /\ LegOf(p, l.id, l.client)
                         /\ l.id \notin DOMAIN relay_legs
                         /\ \A x \in parking : x.leg.id # l.id
    BY <2>1 DEF LegsSingle, ParkedAlone
  <2>3. l.id \in Nat /\ l.id # 0 /\ l.id < next_id
    BY SMT, <2>1, <2>2 DEF LegOf, LegsMatched, Leg
  <2>4. LegOf(p, l.id, l.client)'
    BY <1>1, <1>3, <2>1, <2>2, <2>3
  <2>5. pairs'[p].parked = {l} /\ l.id \notin DOMAIN relay_legs'
    BY SMT, <1>0, <2>1, <2>2, <2>3 DEF SameLegs
  <2> QED BY <2>2, <2>4, <2>5 DEF ParkedAlone
<1>4. ASSUME NEW x \in splices'
      PROVE  /\ x.pair < next_id'
             /\ x.pair \in DOMAIN pairs' =>
                   x.pair \in DOMAIN pairs /\ SameLegs(pairs'[x.pair], pairs[x.pair])
  <2>1. x \in splices /\ x.pair \in Nat /\ x.pair < next_id
    BY SMT, <1>4 DEF TypeOK, LegsSingle
  <2>2. x.pair \in DOMAIN pairs' => x.pair \in DOMAIN pairs
    BY SMT, <1>0, <2>1
  <2>3. x.pair \in DOMAIN pairs => pairs[x.pair].relay = "spliced"
    BY <2>1 DEF LegsSingle, SpliceJoinsBothParties
  <2> QED BY SMT, <1>0, <2>1, <2>2, <2>3
<1>5. SpliceJoinsBothParties'
  BY <1>4, SplicesKept DEF LegsSingle
<1>6. \A x, y \in parking' : x.leg.id = y.leg.id => x = y
  BY DEF LegsSingle
<1> QED BY <1>2, <1>3, <1>4, <1>5, <1>6 DEF LegsSingle

\* take_relay_leg moves a leg id from the outstanding ones to a leg that is built.
LEMMA TakeSingle ==
  ASSUME TypeOK, LegsMatched, LegsSingle, NEW c \in Client, NEW id \in DOMAIN relay_legs,
         TakeRelayLeg(c, id)
  PROVE  LegsSingle'
<1> DEFINE y == [pair |-> relay_legs[id].pair, leg |-> [id |-> id, client |-> c]]
<1>1. /\ parking' = parking \cup {y} /\ pairs' = pairs /\ splices' = splices
      /\ next_id' = next_id /\ relay_legs[id].client = c
      /\ DOMAIN relay_legs' = DOMAIN relay_legs \ {id}
  BY DEF TakeRelayLeg, Presents, TakeClaim, Without
<1>2. /\ y.pair < next_id /\ y.leg.id = id /\ y.leg.client = c /\ id < next_id /\ id # 0
      /\ y.pair \in DOMAIN pairs => LegOf(y.pair, id, c)
  BY <1>1 DEF LegsMatched
<1> HIDE DEF y
<1>3. ASSUME NEW x \in parking'
      PROVE  /\ x.pair < next_id' /\ x.leg.id < next_id' /\ x.leg.id # 0
             /\ x.leg.id \notin DOMAIN relay_legs'
             /\ x.pair \in DOMAIN pairs' => LegOf(x.pair, x.leg.id, x.leg.client)'
  <2>1. CASE x = y
    BY <1>1, <1>2, <2>1 DEF LegOf
  <2>2. CASE x \in parking
    BY <1>1, <2>2 DEF LegsSingle, LegOf
  <2> QED BY <1>1, <1>3, <2>1, <2>2
<1>4. \A x \in parking : x.leg.id # id
  BY DEF LegsSingle
<1>5. \A u, v \in parking' : u.leg.id = v.leg.id => u = v
  BY <1>1, <1>2, <1>4 DEF LegsSingle
<1>6. ASSUME NEW p \in DOMAIN pairs', pairs'[p].relay = "parked"
      PROVE  ParkedAlone(p)'
  <2>1. PICK l \in Leg : /\ pairs[p].parked = {l} /\ LegOf(p, l.id, l.client)
                         /\ l.id \notin DOMAIN relay_legs
                         /\ \A x \in parking : x.leg.id # l.id
    BY <1>1, <1>6 DEF LegsSingle, ParkedAlone
  <2>2. \A x \in parking' : x.leg.id # l.id
    BY <1>1, <1>2, <2>1
  <2>3. LegOf(p, l.id, l.client)'
    BY <1>1, <2>1 DEF LegOf
  <2> QED BY <1>1, <2>1, <2>2, <2>3 DEF ParkedAlone
<1>7. SpliceJoinsBothParties' /\ \A x \in splices' : x.pair < next_id'
  BY <1>1, SplicesKept DEF LegsSingle, SameLegs
<1> QED BY <1>3, <1>5, <1>6, <1>7 DEF LegsSingle

\* park_relay_leg for the first leg: it waits, and no one else has its id.
LEMMA FirstLegSingle ==
  ASSUME TypeOK, LegsMatched, LegsSingle, NEW x \in parking, ParkRelayLeg(x),
         x.pair \in DOMAIN pairs, splices' = splices, pairs[x.pair].relay = "open",
         pairs'[x.pair].relay = "parked", pairs'[x.pair].parked = {x.leg}
  PROVE  LegsSingle'
<1>1. /\ parking' = parking \ {x} /\ relay_legs' = relay_legs /\ next_id' = next_id
      /\ DOMAIN pairs' = DOMAIN pairs
      /\ \A p \in DOMAIN pairs : /\ p # x.pair => pairs'[p] = pairs[p]
                                 /\ pairs'[p].party = pairs[p].party
                                 /\ pairs'[p].legs = pairs[p].legs
  BY ParkEffect DEF SameProbes
<1>2. \A p \in DOMAIN pairs : \A i, c : LegOf(p, i, c) => LegOf(p, i, c)'
  BY <1>1 DEF LegOf
<1>3. ASSUME NEW y \in parking'
      PROVE  /\ y.pair < next_id' /\ y.leg.id < next_id' /\ y.leg.id # 0
             /\ y.leg.id \notin DOMAIN relay_legs'
             /\ y.pair \in DOMAIN pairs' => LegOf(y.pair, y.leg.id, y.leg.client)'
  BY <1>1, <1>2, <1>3 DEF LegsSingle
<1>4. \A u, v \in parking' : u.leg.id = v.leg.id => u = v
  BY <1>1 DEF LegsSingle
<1>5. ASSUME NEW p \in DOMAIN pairs', pairs'[p].relay = "parked"
      PROVE  ParkedAlone(p)'
  <2>1. CASE p = x.pair
    <3>1. /\ x.leg \in Leg /\ LegOf(p, x.leg.id, x.leg.client)'
          /\ x.leg.id \notin DOMAIN relay_legs' /\ \A y \in parking' : y.leg.id # x.leg.id
      BY <1>1, <1>2, <2>1 DEF LegsSingle, TypeOK
    <3> QED BY <2>1, <3>1 DEF ParkedAlone
  <2>2. CASE p # x.pair
    <3>1. ParkedAlone(p) /\ pairs'[p].parked = pairs[p].parked
      BY <1>1, <1>5, <2>2 DEF LegsSingle
    <3> QED BY <1>1, <1>2, <1>5, <3>1 DEF ParkedAlone
  <2> QED BY <2>1, <2>2
<1>6. \A y \in splices : y.pair # x.pair
  BY DEF LegsSingle, SpliceJoinsBothParties
<1>7. SpliceJoinsBothParties' /\ \A y \in splices' : y.pair < next_id'
  BY <1>1, <1>6, SplicesKept DEF LegsSingle, SameLegs
<1> QED BY <1>3, <1>4, <1>5, <1>7 DEF LegsSingle

\* park_relay_leg for the second leg: the one that waited is the other party's.
LEMMA SecondLegSingle ==
  ASSUME TypeOK, LegsMatched, LegsSingle, NEW x \in parking, ParkRelayLeg(x),
         x.pair \in DOMAIN pairs, pairs[x.pair].relay = "parked",
         pairs'[x.pair].relay = "spliced",
         splices' = splices \cup {[pair |-> x.pair, legs |-> pairs[x.pair].parked \cup {x.leg}]}
  PROVE  LegsSingle'
<1> DEFINE p == x.pair
           z == [pair |-> p, legs |-> pairs[p].parked \cup {x.leg}]
<1>1. /\ parking' = parking \ {x} /\ relay_legs' = relay_legs /\ next_id' = next_id
      /\ DOMAIN pairs' = DOMAIN pairs
      /\ \A r \in DOMAIN pairs : /\ r # p => pairs'[r] = pairs[r]
                                 /\ pairs'[r].party = pairs[r].party
                                 /\ pairs'[r].legs = pairs[r].legs
  BY ParkEffect DEF SameProbes
<1>2. \A r \in DOMAIN pairs : \A i, c : LegOf(r, i, c) => LegOf(r, i, c)'
  BY <1>1 DEF LegOf
<1>3. ASSUME NEW y \in parking'
      PROVE  /\ y.pair < next_id' /\ y.leg.id < next_id' /\ y.leg.id # 0
             /\ y.leg.id \notin DOMAIN relay_legs'
             /\ y.pair \in DOMAIN pairs' => LegOf(y.pair, y.leg.id, y.leg.client)'
  BY <1>1, <1>2, <1>3 DEF LegsSingle
<1>4. \A u, v \in parking' : u.leg.id = v.leg.id => u = v
  BY <1>1 DEF LegsSingle
<1>5. ASSUME NEW r \in DOMAIN pairs', pairs'[r].relay = "parked"
      PROVE  ParkedAlone(r)'
  <2>1. r # p
    BY <1>5
  <2>2. ParkedAlone(r) /\ pairs'[r].parked = pairs[r].parked
    BY <1>1, <1>5, <2>1 DEF LegsSingle
  <2> QED BY <1>1, <1>2, <1>5, <2>2 DEF ParkedAlone
<1>6. \A y \in splices : y.pair # p
  BY DEF LegsSingle, SpliceJoinsBothParties
<1>7. /\ {l.client : l \in z.legs} = {pairs'[p].party[q] : q \in Party}
      /\ {l.id : l \in z.legs} = {pairs'[p].legs[q] : q \in Party}
  <2>1. PICK l \in Leg : pairs[p].parked = {l} /\ LegOf(p, l.id, l.client) /\ x.leg.id # l.id
    BY DEF LegsSingle, ParkedAlone
  <2>2. z.legs = {l, x.leg}
    BY <2>1
  <2>3. PICK a \in Party : pairs[p].legs[a] = l.id /\ pairs[p].party[a] = l.client
    BY <2>1 DEF LegOf
  <2>4. PICK b \in Party : pairs[p].legs[b] = x.leg.id /\ pairs[p].party[b] = x.leg.client
    BY DEF LegOf, LegsSingle
  <2>5. Party = {a, b}
    BY <2>1, <2>3, <2>4 DEF Party
  <2>6. {pairs'[p].party[q] : q \in Party} = {l.client, x.leg.client}
    BY SMT, <1>1, <2>3, <2>4, <2>5
  <2>7. {pairs'[p].legs[q] : q \in Party} = {l.id, x.leg.id}
    BY SMT, <1>1, <2>3, <2>4, <2>5
  <2>8. /\ {m.client : m \in {l, x.leg}} = {l.client, x.leg.client}
        /\ {m.id : m \in {l, x.leg}} = {l.id, x.leg.id}
    OBVIOUS
  <2> QED BY <2>2, <2>6, <2>7, <2>8
<1>8. z.pair = p /\ p < next_id
  BY DEF LegsSingle
<1>9. splices' = splices \cup {z}
  OBVIOUS
<1> HIDE DEF z
<1>10. ASSUME NEW y \in splices', y.pair \in DOMAIN pairs'
       PROVE  /\ {l.client : l \in y.legs} = {pairs'[y.pair].party[q] : q \in Party}
              /\ {l.id : l \in y.legs} = {pairs'[y.pair].legs[q] : q \in Party}
              /\ pairs'[y.pair].relay = "spliced"
  <2>1. CASE y = z
    BY <1>7, <1>8, <2>1
  <2>2. CASE y \in splices
    <3>1. y.pair \in DOMAIN pairs /\ pairs'[y.pair] = pairs[y.pair]
      BY <1>1, <1>6, <1>10, <2>2
    <3>2. /\ {l.client : l \in y.legs} = {pairs[y.pair].party[q] : q \in Party}
          /\ {l.id : l \in y.legs} = {pairs[y.pair].legs[q] : q \in Party}
          /\ pairs[y.pair].relay = "spliced"
      BY <2>2, <3>1 DEF LegsSingle, SpliceJoinsBothParties
    <3> QED BY <3>1, <3>2
  <2> QED BY <1>9, <1>10, <2>1, <2>2
<1>11. SpliceJoinsBothParties'
  BY <1>10 DEF SpliceJoinsBothParties
<1>12. \A y \in splices' : y.pair < next_id'
  BY <1>1, <1>8, <1>9 DEF LegsSingle
<1> QED BY <1>3, <1>4, <1>5, <1>11, <1>12 DEF LegsSingle

\* Every step keeps a leg id in one place.
LEMMA NextSingle ==
  ASSUME TypeOK, InfoCounted, LegsMatched, LegsSingle, Next
  PROVE  LegsSingle'
<1>0. next_id \in Nat
  BY DEF TypeOK
<1>1. \/ parking' = parking /\ splices' \subseteq splices
      \/ \E c \in Client, id \in DOMAIN relay_legs : TakeRelayLeg(c, id)
      \/ \E x \in parking : ParkRelayLeg(x)
  <2>1. CASE QuietStep
    BY <2>1 DEF QuietStep, Register, End, CancelAndRevoke, InvalidatePairs, ForgetPairIds,
       PeerProof, Displace, DisplaceForget, ClaimStep, TakeProbe, ReapUnclaimedRelay,
       EndRelay, Sweep, SettleProbe, SendInfo, Untouched
  <2>2. CASE MarkStep
    BY <2>2 DEF MarkStep, ReaderFinish, PairDeadline, ProbeFinish
  <2>3. ASSUME NEW s \in Session, NEW i \in Identity, NEW w \in Bits, PeerConnect(s, i, w)
        PROVE  parking' = parking /\ splices' = splices
    BY <2>3 DEF PeerConnect
  <2>4. ASSUME NEW s \in Session, NEW p \in DOMAIN pairs, NEW q \in Party, NEW st \in Reports,
               PeerPath(s, p, q, st)
        PROVE  parking' = parking /\ splices' = splices
    BY <2>4 DEF PeerPath
  <2>5. ASSUME NEW s \in Session, StartPairProbes(s)
        PROVE  parking' = parking /\ splices' = splices
    BY <2>5 DEF StartPairProbes
  <2> QED BY <2>1, <2>2, <2>3, <2>4, <2>5, StepKinds
<1>2. ASSUME NEW x \in parking, ParkRelayLeg(x)
      PROVE  LegsSingle'
  <2>1. CASE pairs' = pairs /\ splices' = splices
    BY SMT, <1>0, <1>2, <2>1, ParkEffect, LegsSingleKept DEF SameLegs
  <2> QED BY <1>2, <2>1, ParkEffect, FirstLegSingle, SecondLegSingle
<1>3. ASSUME RelaysKept, parking' = parking, splices' \subseteq splices
      PROVE  LegsSingle'
  BY <1>3, LegsSingleKept DEF RelaysKept
<1>4. ASSUME NEW p, OpenOf(p), parking' = parking, splices' = splices
      PROVE  LegsSingle'
  <2>1. /\ DOMAIN pairs' = DOMAIN pairs /\ next_id' = next_id + 2
        /\ \A i \in DOMAIN relay_legs' : i \in DOMAIN relay_legs \/ i >= next_id
    BY SMT, <1>0, <1>4 DEF OpenOf
  <2>2. \A r \in DOMAIN pairs : \/ SameLegs(pairs'[r], pairs[r])
                                \/ pairs[r].relay = "none" /\ pairs'[r].relay = "open"
    BY <1>4 DEF OpenOf, SameLegs
  <2> QED BY SMT, <1>0, <1>4, <2>1, <2>2, LegsSingleKept
<1> QED BY <1>1, <1>2, <1>3, <1>4, TakeSingle, RelayKinds

-----------------------------------------------------------------------------
(* The invariant. *)

\* Nothing is drawn at first.
LEMMA IdsInvInit == Init => IdsInv
<1> SUFFICES ASSUME Init PROVE IdsInv
  OBVIOUS
<1>1. /\ DOMAIN pairs = {} /\ DOMAIN probes = {} /\ DOMAIN relay_legs = {}
      /\ probing = {} /\ finishing = {} /\ parking = {} /\ splices = {}
      /\ \A s \in Session : rest[s].op = "none" /\ dropping[s] = {}
  BY DEF Init, PeerInit, Idle
<1>2. HandlersHeld
  BY <1>1 DEF HandlersHeld
<1>3. ProbesMatched /\ ProbesDrawn
  BY <1>1 DEF ProbesMatched, ProbesDrawn, Connecting
<1>4. LegsMatched /\ LegsSingle
  BY <1>1 DEF LegsMatched, LegsSingle, SpliceJoinsBothParties
<1> QED BY <1>2, <1>3, <1>4 DEF IdsInv

\* A step that changes nothing keeps it.
LEMMA IdsStutter ==
  ASSUME TypeOK, IdsInv, UNCHANGED vars
  PROVE  IdsInv'
<1> USE DEF vars
<1>1. HandlersHeld'
  BY DEF IdsInv, HandlersHeld
<1>2. IdsForgotten /\ next_id \in Nat
  BY SMT DEF IdsForgotten, Forgetting, TypeOK
<1>3. ProbesMatched'
  BY SMT, <1>2, ProbesMatchedKept DEF IdsInv
<1>4. ProbesDrawn'
  <2>1. ReadersGoOn
    BY DEF ReadersGoOn, Connecting
  <2>2. next_id' \in Nat /\ next_id <= next_id'
    BY SMT, <1>2
  <2>3. /\ pairs' = pairs /\ finishing' = finishing /\ probing' = probing
        /\ \A p \in DOMAIN pairs' : SameTrial(p)
    BY DEF SameTrial
  <2>4. ProbesDrawn /\ \A x \in probing' : x.id # 0
    BY <2>3 DEF IdsInv, ProbesDrawn
  <2> QED BY <2>1, <2>2, <2>3, <2>4, DrawnKept
<1>5. LegsMatched'
  BY SMT, <1>2, LegsMatchedKept DEF IdsInv
<1>6. LegsSingle'
  BY SMT, <1>2, LegsSingleKept DEF IdsInv, SameLegs
<1> QED BY <1>1, <1>3, <1>4, <1>5, <1>6 DEF IdsInv

\* What is proved of the ids holds in every reachable state.
THEOREM IdsInvariance == Spec => []IdsInv
<1>1. Init => IdsInv
  BY IdsInvInit
<1>2. RendezvousInv /\ IdsInv /\ [Next]_vars => IdsInv'
  <2> SUFFICES ASSUME RendezvousInv, IdsInv, [Next]_vars
               PROVE  IdsInv'
    OBVIOUS
  <2>1. TypeOK /\ InfosHeld /\ InfoCounted
    BY DEF RendezvousInv
  <2>2. CASE UNCHANGED vars
    BY <2>1, <2>2, IdsStutter
  <2>3. CASE Next
    <3>1. HandlersHeld /\ ProbesMatched /\ ProbesDrawn /\ LegsMatched /\ LegsSingle
      BY DEF IdsInv
    <3>2. HandlersHeld'
      BY <2>1, <2>3, <3>1, NextHeld
    <3>3. ProbesMatched' /\ ProbesDrawn'
      BY <2>1, <2>3, <3>1, NextMatched, NextDrawn
    <3>4. LegsMatched' /\ LegsSingle'
      BY <2>1, <2>3, <3>1, NextLegs, NextSingle
    <3> QED BY <3>2, <3>3, <3>4 DEF IdsInv
  <2> QED BY <2>2, <2>3
<1> QED BY <1>1, <1>2, RendezvousInvariance, PTL DEF Spec

\* forget_pair_ids and finish_pair: however pairs are removed (a reconnect, an end, a displacement,
\* a deadline, the end of a relay), no probe or leg id is left behind that names no pair and that no
\* task is about to forget, and none outlives the info frames it was for.
THEOREM IdsNeverOrphaned == Spec => []NoOrphanIds
<1>1. IdsInv => NoOrphanIds
  BY DEF IdsInv, ProbesMatched, ProbeOf, LegsMatched, LegOf, NoOrphanIds
<1> QED BY <1>1, IdsInvariance, PTL

\* park_relay_leg: whatever order legs are claimed, built and parked in, and whenever pairs go, a
\* running splice joins exactly one leg of each party of its pair.
THEOREM SplicesJoinBoth == Spec => []SpliceJoinsBothParties
<1>1. IdsInv => SpliceJoinsBothParties
  BY DEF IdsInv, LegsSingle
<1> QED BY <1>1, IdsInvariance, PTL
=============================================================================
