-------------------------- MODULE RendezvousProofs --------------------------
(***************************************************************************)
(* Proofs about the rendezvous, for every set of clients, sessions and     *)
(* identities, every transport and every bound on ids.                     *)
(*                                                                         *)
(* The lemmas about its steps come first: each keeps the types, each but   *)
(* PeerConnect only removes pairs or fills in what they have learned, and  *)
(* what a step that is not a proof, a connect or an invalidation does to   *)
(* the sessions behind a pair. ClaimRegistered ties a claim to the         *)
(* registry, so that a new session starts without one.                     *)
(*                                                                         *)
(* RendezvousInv is the inductive invariant. InfosHeld says which reader   *)
(* is inside finish_pair, so that its return does not lose a displacement. *)
(* InfoCounted relates the info frames on their way to the pair they are   *)
(* for.                                                                    *)
(*                                                                         *)
(* An id of a removed pair is outstanding until the task that removed the  *)
(* pair forgets it: HandlersHeld says which reader still has ids to forget *)
(* and that it takes up nothing else before it does.                       *)
(***************************************************************************)
EXTENDS Rendezvous, RegistryProofs

(* Zenon is the prover of this module; a leaf that needs arithmetic, records
   or sequences names SMT. *)
USE Zenon

\* The ids of well-typed pairs are numbers.
LEMMA IdsAreNumbers ==
  ASSUME TypeOK, NEW ps, ps \subseteq DOMAIN pairs
  PROVE  /\ IdsOf(ps) \subseteq Nat
         /\ \A p \in ps : PairIds(pairs[p]) \subseteq Nat
<1>1. ASSUME NEW p \in ps
      PROVE  PairIds(pairs[p]) \subseteq Nat
  BY SMT, <1>1 DEF TypeOK, Pair, PairIds, ProbeIds, Party
<1> QED BY <1>1 DEF IdsOf

-----------------------------------------------------------------------------
(* Types, one lemma per group of steps. *)

PairsTyped == DOMAIN pairs \subseteq Nat /\ \A p \in DOMAIN pairs : pairs[p] \in Pair

MapsTyped ==
    /\ DOMAIN probes \subseteq Nat
    /\ \A i \in DOMAIN probes : probes[i] \in Claim
    /\ DOMAIN relay_legs \subseteq Nat
    /\ \A i \in DOMAIN relay_legs : relay_legs[i] \in Claim

\* What the type invariant says of everything but the registry and the maps.
TasksTyped ==
    /\ claim \in [Session -> PeerClaims \cup {NoClaim}]
    /\ rest \in [Session -> Rest]
    /\ next_id \in Nat \ {0}
    /\ probing \subseteq [pair : Nat, id : Nat]
    /\ finishing \subseteq Nat
    /\ infos \subseteq [by : Session \cup {NoSession}, pair : Nat,
                        party : [Party -> Client]]
    /\ parking \subseteq [pair : Nat, leg : Leg]
    /\ splices \subseteq [pair : Nat, legs : SUBSET Leg]
    /\ dropping \in [Session -> SUBSET Nat]
    /\ sweeping \subseteq SUBSET Nat

\* The types of the rendezvous are those of the registry, the pairs, the id maps
\* and the tasks.
LEMMA TypeParts ==
  TypeOK <=> RegistryTypeOK /\ PairsTyped /\ MapsTyped /\ TasksTyped
  BY DEF TypeOK, PairsTyped, MapsTyped, TasksTyped

\* Forgetting ids removes entries.
LEMMA ForgetTyped ==
  ASSUME MapsTyped, NEW ids, ForgetIds(ids)
  PROVE  MapsTyped'
<1>1. /\ DOMAIN probes' = DOMAIN probes \ ids
      /\ \A i \in DOMAIN probes' : probes'[i] = probes[i]
  BY DEF ForgetIds, Without
<1>2. /\ DOMAIN relay_legs' = DOMAIN relay_legs \ ids
      /\ \A i \in DOMAIN relay_legs' : relay_legs'[i] = relay_legs[i]
  BY DEF ForgetIds, Without
<1> QED BY <1>1, <1>2 DEF MapsTyped

\* Removing pairs keeps the rest well typed.
LEMMA FewerPairsTyped ==
  ASSUME PairsTyped, NEW ps, pairs' = Without(pairs, ps)
  PROVE  PairsTyped'
<1>1. /\ DOMAIN pairs' = DOMAIN pairs \ ps
      /\ \A p \in DOMAIN pairs' : pairs'[p] = pairs[p]
  BY DEF Without
<1> QED BY <1>1 DEF PairsTyped

\* The displacement of a claim.
LEMMA ProofType ==
  ASSUME TypeOK, NEW s \in Session,
         \/ \E cl \in Announces[Owner[s]] : PeerProof(s, cl)
         \/ \E c \in Client : Displace(s, c)
         \/ DisplaceForget(s)
  PROVE  PairsTyped' /\ MapsTyped' /\ TasksTyped'
<1> USE SessionAssumption, RendezvousAssumption
<1>0. PairsTyped /\ MapsTyped /\ TasksTyped
  BY TypeParts
<1>1. ASSUME NEW cl \in Announces[Owner[s]], PeerProof(s, cl)
      PROVE  PairsTyped' /\ MapsTyped' /\ TasksTyped'
  <2>1. cl \in PeerClaims
    OBVIOUS
  <2>2. claim' \in [Session -> PeerClaims \cup {NoClaim}]
    BY <1>0, <1>1, <2>1 DEF PeerProof, RecordPeerClaim, TasksTyped
  <2>3. rest' \in [Session -> Rest]
    <3>1. \/ rest' = [rest EXCEPT ![s] = Idle]
          \/ \E cs \in SUBSET Client : rest' = [rest EXCEPT ![s] =
                [op |-> "displace", pair |-> 0, clients |-> cs]]
      BY <1>1 DEF PeerProof, Return, Continue
    <3>2. PICK r \in Rest : rest' = [rest EXCEPT ![s] = r]
      BY <3>1 DEF Idle, Rest
    <3> QED BY <1>0, <3>2 DEF TasksTyped
  <2> QED BY <1>0, <1>1, <2>2, <2>3 DEF PeerProof, PairsTyped, MapsTyped, TasksTyped
<1>2. ASSUME NEW c \in Client, Displace(s, c)
      PROVE  PairsTyped' /\ MapsTyped' /\ TasksTyped'
  <2>1. PairsTyped'
    BY <1>0, <1>2, FewerPairsTyped DEF Displace
  <2>2. rest' \in [Session -> Rest]
    BY <1>0, <1>2 DEF Displace, Continue, Rest, TasksTyped
  <2>3. dropping' \in [Session -> SUBSET Nat]
    <3>1. IdsOf(PairsOf(c)) \in SUBSET Nat
      BY IdsAreNumbers DEF PairsOf
    <3>2. dropping' = [dropping EXCEPT ![s] = IdsOf(PairsOf(c))]
      BY <1>2 DEF Displace
    <3> QED BY <1>0, <3>1, <3>2 DEF TasksTyped
  <2> QED BY <1>0, <1>2, <2>1, <2>2, <2>3 DEF Displace, MapsTyped, TasksTyped
<1>3. ASSUME DisplaceForget(s)
      PROVE  PairsTyped' /\ MapsTyped' /\ TasksTyped'
  <2>1. MapsTyped'
    BY <1>0, <1>3, ForgetTyped DEF DisplaceForget
  <2>2. rest' \in [Session -> Rest]
    <3>1. [rest[s] EXCEPT !.op = "displace"] \in Rest
      BY SMT, <1>0 DEF Rest, TasksTyped
    <3> QED
      BY SMTT(30), <1>0, <1>3, <3>1 DEF DisplaceForget, Return, Continue, Idle, Rest, TasksTyped
  <2> QED BY <1>0, <1>3, <2>1, <2>2 DEF DisplaceForget, PairsTyped, TasksTyped
<1> QED BY <1>1, <1>2, <1>3

\* A fresh pair is well typed, and so is the map that gains it.
LEMMA NewPairTyped ==
  ASSUME TypeOK, NEW c \in Client, NEW d \in Client, NEW w \in Bits,
         registry[c] # NoSession, registry[d] # NoSession
  PROVE  NewPair(c, d, w) \in Pair
<1> DEFINE members == [consumer |-> c, provider |-> d]
<1>1. /\ members \in [Party -> Client]
      /\ [q \in Party |-> registry[members[q]]] \in [Party -> Session]
  BY SMT DEF TypeOK, RegistryTypeOK, Party
<1>2. /\ [q \in Party |-> 0] \in [Party -> Nat]
      /\ [q \in Party |-> "none"] \in [Party -> {"none", "empty", "mapped"}]
      /\ [q \in Party |-> "none"] \in [Party -> {"none", "direct", "relay"}]
  OBVIOUS
<1> HIDE DEF members
<1> QED BY <1>1, <1>2 DEF NewPair, Pair, members

\* A request that is answered busy, fails or inserts a pair.
LEMMA ConnectType ==
  ASSUME TypeOK, NEW s \in Session, NEW i \in Identity, NEW w \in Bits,
         PeerConnect(s, i, w)
  PROVE  PairsTyped' /\ MapsTyped' /\ TasksTyped'
<1> USE SessionAssumption, RendezvousAssumption
<1>0. PairsTyped /\ MapsTyped /\ TasksTyped
  BY TypeParts
<1> DEFINE c == Owner[s]
<1>1. PICK d \in Client :
        LET prior == Prior(c, d, w)
            held == DOMAIN pairs \ prior IN
        /\ Announced(d)
        /\ ForgetIds(IdsOf(prior))
        /\ \/ /\ pairs' = Without(pairs, prior)
              /\ next_id' \in {next_id, next_id + 1}
              /\ Return(s)
           \/ /\ pairs' = Add(Without(pairs, prior), next_id, NewPair(c, d, w))
              /\ next_id' = next_id + 1
              /\ Continue(s, [op |-> "probes", pair |-> next_id, clients |-> {}])
  BY DEF PeerConnect
<1>2. c \in Client /\ registry[c] # NoSession /\ registry[d] # NoSession
  BY <1>1 DEF PeerConnect, Registered, Announced
<1>3. PairsTyped'
  <2>1. CASE pairs' = Without(pairs, Prior(c, d, w))
    BY <1>0, <2>1, FewerPairsTyped
  <2>2. CASE pairs' = Add(Without(pairs, Prior(c, d, w)), next_id, NewPair(c, d, w))
    <3>1. NewPair(c, d, w) \in Pair
      BY <1>2, NewPairTyped
    <3> QED BY <1>0, <2>2, <3>1 DEF Add, Without, PairsTyped, TasksTyped
  <2> QED BY <1>1, <2>1, <2>2
<1>4. MapsTyped'
  BY <1>0, <1>1, ForgetTyped
<1>5. rest' \in [Session -> Rest] /\ next_id' \in Nat \ {0}
  BY SMT, <1>0, <1>1 DEF TasksTyped, Return, Continue, Rest, Idle
<1> QED BY <1>0, <1>3, <1>4, <1>5 DEF PeerConnect, TasksTyped

\* Candidate discovery starts.
LEMMA ProbesType ==
  ASSUME TypeOK, NEW s \in Session, StartPairProbes(s)
  PROVE  PairsTyped' /\ MapsTyped' /\ TasksTyped'
<1> USE SessionAssumption, RendezvousAssumption
<1>0. PairsTyped /\ MapsTyped /\ TasksTyped
  BY TypeParts
<1> DEFINE p == rest[s].pair
<1>1. p \in Nat /\ rest' \in [Session -> Rest] /\ next_id' \in Nat \ {0}
  <2>1. rest[s] \in Rest /\ [rest[s] EXCEPT !.op = "finish"] \in Rest
    BY SMT, <1>0 DEF TasksTyped, Rest
  <2>2. rest[s].pair \in Nat
    BY <2>1 DEF Rest
  <2>3. Idle \in Rest
    BY DEF Idle, Rest
  <2>4. rest' \in [Session -> Rest]
    BY <1>0, <2>1, <2>3 DEF StartPairProbes, Return, Continue, TasksTyped
  <2>5. next_id' \in Nat \ {0}
    BY SMT, <1>0 DEF StartPairProbes, TasksTyped
  <2> QED BY <2>2, <2>4, <2>5
<1>2. PairsTyped' /\ MapsTyped'
  <2>1. CASE p \notin DOMAIN pairs
    BY <1>0, <2>1 DEF StartPairProbes, PairsTyped, MapsTyped
  <2>2. CASE p \in DOMAIN pairs
    <3>1. PICK failed \in SUBSET ToProbe(pairs[p]) :
            /\ pairs' = [pairs EXCEPT ![p] = Probing(pairs[p], failed)]
            /\ probes' = ProbeClaims(p, ToProbe(pairs[p]) \ failed)
            /\ relay_legs' = relay_legs
      BY <2>2 DEF StartPairProbes
    <3>2. Number \in [Party -> Nat]
      BY SMT, <1>0 DEF Number, Party, TasksTyped
    <3>3. Probing(pairs[p], failed) \in Pair
      <4>1. pairs[p] \in Pair
        BY <1>0, <2>2 DEF PairsTyped
      <4>2. /\ [q \in Party |-> IF q \in ToProbe(pairs[p]) \ failed THEN Number[q] ELSE 0]
                 \in [Party -> Nat]
            /\ [q \in Party |-> IF q \in SettledAtOnce(pairs[p]) THEN "empty" ELSE "none"]
                 \in [Party -> {"none", "empty", "mapped"}]
            /\ (SettledAtOnce(pairs[p]) # Party) \in BOOLEAN
            /\ (IF Ready(pairs[p]) THEN Party \ failed ELSE {}) \in SUBSET Party
        BY <3>2
      <4> QED BY <4>1, <4>2 DEF Probing, Pair
    <3>4. ASSUME NEW qs \in SUBSET Party
          PROVE  /\ DOMAIN ProbeClaims(p, qs) \subseteq Nat
                 /\ \A n \in DOMAIN ProbeClaims(p, qs) : ProbeClaims(p, qs)[n] \in Claim
      <4>1. pairs[p].party \in [Party -> Client]
        BY <1>0, <2>2 DEF PairsTyped, Pair
      <4>2. \A n \in {Number[q] : q \in qs} : (CHOOSE q \in qs : Number[q] = n) \in Party
        BY <3>4
      <4>3. /\ DOMAIN ProbeClaims(p, qs) = DOMAIN probes \cup {Number[q] : q \in qs}
            /\ \A n \in DOMAIN ProbeClaims(p, qs) :
                  ProbeClaims(p, qs)[n] =
                     IF n \in DOMAIN probes THEN probes[n]
                     ELSE [pair |-> p, told |-> TRUE,
                           client |-> pairs[p].party[CHOOSE q \in qs : Number[q] = n]]
        BY DEF ProbeClaims
      <4>4. \A n \in {Number[q] : q \in qs} :
               [pair |-> p, told |-> TRUE,
                client |-> pairs[p].party[CHOOSE q \in qs : Number[q] = n]] \in Claim
        BY <1>1, <4>1, <4>2 DEF Claim
      <4>5. {Number[q] : q \in qs} \subseteq Nat
        BY SMT, <3>2
      <4>6. /\ DOMAIN probes \subseteq Nat
            /\ \A n \in DOMAIN probes : probes[n] \in Claim
        BY <1>0 DEF MapsTyped
      <4>7. ASSUME NEW n \in DOMAIN ProbeClaims(p, qs)
            PROVE  ProbeClaims(p, qs)[n] \in Claim
        <5>1. CASE n \in DOMAIN probes
          BY <4>3, <4>6, <5>1
        <5>2. CASE n \notin DOMAIN probes
          <6>1. n \in {Number[q] : q \in qs}
            BY <4>3, <5>2
          <6>2. ProbeClaims(p, qs)[n] =
                   [pair |-> p, told |-> TRUE,
                    client |-> pairs[p].party[CHOOSE q \in qs : Number[q] = n]]
            BY <4>3, <5>2
          <6> QED BY <4>4, <6>1, <6>2
        <5> QED BY <5>1, <5>2
      <4>8. DOMAIN ProbeClaims(p, qs) \subseteq Nat
        BY <4>3, <4>5, <4>6
      <4> QED BY <4>7, <4>8
    <3>5. ToProbe(pairs[p]) \ failed \in SUBSET Party
      BY DEF ToProbe
    <3> QED BY <1>0, <3>1, <3>3, <3>4, <3>5 DEF PairsTyped, MapsTyped
  <2> QED BY <2>1, <2>2
<1> QED BY <1>0, <1>1, <1>2 DEF StartPairProbes, TasksTyped

\* finish_pair marks a pair and hands its parties on.
LEMMA MarkType ==
  ASSUME TypeOK, NEW p \in DOMAIN pairs, NEW by \in Session \cup {NoSession},
         Mark(p, by)
  PROVE  /\ PairsTyped'
         /\ DOMAIN probes' \subseteq DOMAIN probes
         /\ \A i \in DOMAIN probes' : probes'[i] = probes[i]
         /\ infos' \subseteq [by : Session \cup {NoSession}, pair : Nat,
                              party : [Party -> Client]]
<1>0. PairsTyped /\ TasksTyped
  BY TypeParts
<1>1. pairs[p] \in Pair /\ p \in Nat
  BY <1>0 DEF PairsTyped
<1>2. [pairs[p] EXCEPT !.info_sent = TRUE] \in Pair
  BY <1>1 DEF Pair
<1>3. PairsTyped'
  BY <1>0, <1>2 DEF Mark, PairsTyped
<1>4. pairs[p].party \in [Party -> Client]
  BY <1>1 DEF Pair
<1> QED BY SMT, <1>0, <1>1, <1>3, <1>4 DEF Mark, TasksTyped, Without

\* finish_pair, whoever calls it.
LEMMA FinishType ==
  ASSUME TypeOK,
         \/ \E s \in Session : ReaderFinish(s)
         \/ \E p \in DOMAIN pairs : PairDeadline(p)
         \/ \E p \in finishing : ProbeFinish(p)
  PROVE  PairsTyped' /\ MapsTyped' /\ TasksTyped'
<1> USE SessionAssumption
<1>0. PairsTyped /\ MapsTyped /\ TasksTyped
  BY TypeParts
<1>1. ASSUME NEW s \in Session, ReaderFinish(s)
      PROVE  PairsTyped' /\ MapsTyped' /\ TasksTyped'
  <2>1. [rest[s] EXCEPT !.op = "send"] \in Rest /\ Idle \in Rest
    BY SMT, <1>0 DEF TasksTyped, Rest, Idle
  <2>2. rest' \in [Session -> Rest]
    BY <1>0, <1>1, <2>1 DEF ReaderFinish, Return, Continue, TasksTyped
  <2>3. CASE Unmarked(rest[s].pair)
    <3>1. rest[s].pair \in DOMAIN pairs /\ Mark(rest[s].pair, s)
      BY <1>1, <2>3 DEF ReaderFinish, Unmarked
    <3> QED
      BY <1>0, <1>1, <2>2, <3>1, MarkType DEF ReaderFinish, MapsTyped, TasksTyped
  <2>4. CASE ~Unmarked(rest[s].pair)
    BY <1>0, <1>1, <2>2, <2>4 DEF ReaderFinish, PairsTyped, MapsTyped, TasksTyped
  <2> QED BY <2>3, <2>4
<1>2. ASSUME NEW p \in DOMAIN pairs, PairDeadline(p)
      PROVE  PairsTyped' /\ MapsTyped' /\ TasksTyped'
  BY <1>0, <1>2, MarkType DEF PairDeadline, MapsTyped, TasksTyped
<1>3. ASSUME NEW p \in finishing, ProbeFinish(p)
      PROVE  PairsTyped' /\ MapsTyped' /\ TasksTyped'
  <2>1. CASE Unmarked(p)
    <3>1. p \in DOMAIN pairs /\ Mark(p, NoSession)
      BY <1>3, <2>1 DEF ProbeFinish, Unmarked
    <3> QED BY <1>0, <1>3, <3>1, MarkType DEF ProbeFinish, MapsTyped, TasksTyped
  <2>2. CASE ~Unmarked(p)
    BY <1>0, <1>3, <2>2 DEF ProbeFinish, PairsTyped, MapsTyped, TasksTyped
  <2> QED BY <2>1, <2>2
<1> QED BY <1>1, <1>2, <1>3

\* The info frames go out.
LEMMA InfoType ==
  ASSUME TypeOK, NEW i \in infos, SendInfo(i)
  PROVE  PairsTyped' /\ MapsTyped' /\ TasksTyped'
<1>0. PairsTyped /\ MapsTyped /\ TasksTyped
  BY TypeParts
<1>1. /\ i.by \in Session \cup {NoSession}
      /\ Idle \in Rest
  BY <1>0 DEF TasksTyped, Idle, Rest
<1>2. rest' \in [Session -> Rest]
  BY <1>0, <1>1 DEF SendInfo, Return, TasksTyped
<1>3. PairsTyped'
  <2>1. ASSUME NEW p \in DOMAIN pairs
        PROVE  [pairs[p] EXCEPT !.informed =
                  [q \in Party |-> IF Announced(i.party[q]) THEN @[q] + 1
                                                           ELSE @[q]]] \in Pair
    <3>1. pairs[p] \in Pair /\ pairs[p].informed \in [Party -> Nat]
      BY <1>0, <2>1 DEF PairsTyped, Pair
    <3>2. [q \in Party |-> IF Announced(i.party[q]) THEN pairs[p].informed[q] + 1
                                                    ELSE pairs[p].informed[q]]
             \in [Party -> Nat]
      BY SMT, <3>1
    <3> QED BY <3>1, <3>2 DEF Pair
  <2> QED BY <1>0, <2>1 DEF SendInfo, PairsTyped
<1> QED BY <1>0, <1>2, <1>3 DEF SendInfo, MapsTyped, TasksTyped

\* A probe id or a relay leg id is claimed.
LEMMA ClaimType ==
  ASSUME TypeOK, ClaimStep
  PROVE  PairsTyped' /\ MapsTyped' /\ TasksTyped'
<1>0. PairsTyped /\ MapsTyped /\ TasksTyped
  BY TypeParts
<1>1. ASSUME NEW c \in Client, NEW id \in DOMAIN probes, TakeProbe(c, id)
      PROVE  PairsTyped' /\ MapsTyped' /\ TasksTyped'
  <2>1. probes[id].pair \in Nat /\ id \in Nat
    BY <1>0 DEF MapsTyped, Claim
  <2>2. MapsTyped'
    BY <1>0, <1>1 DEF TakeProbe, TakeClaim, Without, MapsTyped
  <2> QED BY SMT, <1>0, <1>1, <2>1, <2>2 DEF TakeProbe, PairsTyped, TasksTyped
<1>2. ASSUME NEW c \in Client, NEW id \in DOMAIN relay_legs, TakeRelayLeg(c, id)
      PROVE  PairsTyped' /\ MapsTyped' /\ TasksTyped'
  <2>1. relay_legs[id].pair \in Nat /\ id \in Nat
    BY <1>0 DEF MapsTyped, Claim
  <2>2. MapsTyped'
    BY <1>0, <1>2 DEF TakeRelayLeg, TakeClaim, Without, MapsTyped
  <2> QED BY SMT, <1>0, <1>2, <2>1, <2>2 DEF TakeRelayLeg, PairsTyped, TasksTyped, Leg
<1> QED BY <1>1, <1>2 DEF ClaimStep

\* A probe's frame settles its party.
LEMMA SettleType ==
  ASSUME TypeOK, NEW x \in probing, SettleProbe(x)
  PROVE  PairsTyped' /\ MapsTyped' /\ TasksTyped'
<1>0. PairsTyped /\ MapsTyped /\ TasksTyped
  BY TypeParts
<1>1. x.pair \in Nat
  BY <1>0 DEF TasksTyped
<1>2. PairsTyped'
  <2>1. ASSUME NEW q \in Party, x.pair \in DOMAIN pairs
        PROVE  [pairs[x.pair] EXCEPT !.candidates[q] = "mapped"] \in Pair
    <3>1. pairs[x.pair] \in Pair
      BY <1>0, <2>1 DEF PairsTyped
    <3>2. [pairs[x.pair].candidates EXCEPT ![q] = "mapped"]
             \in [Party -> {"none", "empty", "mapped"}]
      BY <3>1 DEF Pair
    <3> QED BY <3>1, <3>2 DEF Pair
  <2> QED BY <1>0, <2>1 DEF SettleProbe, PairsTyped
<1> QED BY <1>0, <1>1, <1>2 DEF SettleProbe, MapsTyped, TasksTyped

\* A path report, and the relay it may open.
LEMMA PathType ==
  ASSUME TypeOK, NEW s \in Session, NEW p \in DOMAIN pairs, NEW q \in Party,
         NEW st \in Reports, PeerPath(s, p, q, st)
  PROVE  PairsTyped' /\ MapsTyped' /\ TasksTyped'
<1> USE RendezvousAssumption
<1>0. PairsTyped /\ MapsTyped /\ TasksTyped
  BY TypeParts
<1>1. pairs[p] \in Pair /\ p \in Nat /\ pairs[p].party \in [Party -> Client]
  BY <1>0 DEF PairsTyped, Pair
<1>2. rest' \in [Session -> Rest] /\ next_id' \in Nat \ {0}
  BY SMT, <1>0 DEF PeerPath, Return, Idle, Rest, TasksTyped
<1>3. Number \in [Party -> Nat]
  BY SMT, <1>0 DEF Number, Party, TasksTyped
<1>4. PairsTyped'
  <2> DEFINE noted == [pairs[p] EXCEPT !.path[q] = st]
  <2>1. noted \in Pair
    <3>1. [pairs[p].path EXCEPT ![q] = st] \in [Party -> {"none", "direct", "relay"}]
      BY <1>1 DEF Pair
    <3> QED BY <1>1, <3>1 DEF Pair
  <2>2. [noted EXCEPT !.relay = "open", !.legs = Number, !.parked = {}] \in Pair
    BY <2>1, <1>3 DEF Pair
  <2>3. \/ pairs' = [pairs EXCEPT ![p] = noted]
        \/ pairs' = [pairs EXCEPT ![p] =
                        [noted EXCEPT !.relay = "open", !.legs = Number, !.parked = {}]]
    BY DEF PeerPath
  <2> QED BY <1>0, <2>1, <2>2, <2>3 DEF PairsTyped
<1>5. MapsTyped'
  <2>1. \A r \in Party : LegClaim(p, r) \in Claim
    BY <1>1 DEF LegClaim, Claim, Announced
  <2>2. "consumer" \in Party /\ "provider" \in Party
    BY DEF Party
  <2>3. CASE relay_legs' = relay_legs
    BY <1>0, <2>3 DEF PeerPath, MapsTyped
  <2>4. CASE relay_legs' = Add(Add(relay_legs,
                Number["consumer"], LegClaim(p, "consumer")),
                Number["provider"], LegClaim(p, "provider"))
    <3>1. DOMAIN relay_legs' = DOMAIN relay_legs
                                 \cup {Number["consumer"], Number["provider"]}
      BY <2>4 DEF Add
    <3>2. \A n \in DOMAIN relay_legs' :
             \/ relay_legs'[n] \in {LegClaim(p, "consumer"), LegClaim(p, "provider")}
             \/ n \in DOMAIN relay_legs /\ relay_legs'[n] = relay_legs[n]
      BY <2>4 DEF Add
    <3>3. probes' = probes
      BY DEF PeerPath
    <3> QED BY SMT, <1>0, <1>3, <2>1, <2>2, <3>1, <3>2, <3>3 DEF MapsTyped
  <2> QED BY <2>3, <2>4 DEF PeerPath
<1> QED BY <1>0, <1>2, <1>4, <1>5 DEF PeerPath, TasksTyped

\* A claimed leg is parked, spliced or dropped.
LEMMA ParkType ==
  ASSUME TypeOK, NEW x \in parking, ParkRelayLeg(x)
  PROVE  PairsTyped' /\ MapsTyped' /\ TasksTyped'
<1>0. PairsTyped /\ MapsTyped /\ TasksTyped
  BY TypeParts
<1>1. x.pair \in Nat /\ x.leg \in Leg
  BY <1>0 DEF TasksTyped
<1>2. ASSUME x.pair \in DOMAIN pairs
      PROVE  /\ [pairs[x.pair] EXCEPT !.relay = "parked", !.parked = {x.leg}] \in Pair
             /\ [pairs[x.pair] EXCEPT !.relay = "spliced", !.parked = {}] \in Pair
             /\ pairs[x.pair].parked \in SUBSET Leg
  <2>1. pairs[x.pair] \in Pair
    BY <1>0, <1>2 DEF PairsTyped
  <2>2. {x.leg} \in SUBSET Leg /\ {} \in SUBSET Leg
    BY <1>1
  <2>3. [pairs[x.pair] EXCEPT !.relay = "parked", !.parked = {x.leg}] \in Pair
    BY <2>1, <2>2 DEF Pair
  <2>4. [pairs[x.pair] EXCEPT !.relay = "spliced", !.parked = {}] \in Pair
    BY <2>1, <2>2 DEF Pair
  <2> QED BY <2>1, <2>3, <2>4 DEF Pair
<1>3. PairsTyped'
  BY <1>0, <1>2 DEF ParkRelayLeg, PairsTyped
<1>4. splices' \subseteq [pair : Nat, legs : SUBSET Leg]
  BY SMT, <1>0, <1>1, <1>2 DEF ParkRelayLeg, TasksTyped
<1> QED BY <1>0, <1>3, <1>4 DEF ParkRelayLeg, MapsTyped, TasksTyped

\* A task that is not a reader removes a pair, and forgets its ids after.
LEMMA RemoveType ==
  ASSUME TypeOK,
         \/ \E p \in DOMAIN pairs : ReapUnclaimedRelay(p)
         \/ \E x \in splices : EndRelay(x)
         \/ \E ids \in sweeping : Sweep(ids)
  PROVE  PairsTyped' /\ MapsTyped' /\ TasksTyped'
<1>0. PairsTyped /\ MapsTyped /\ TasksTyped
  BY TypeParts
<1>1. ASSUME NEW p \in DOMAIN pairs, RemovePair(p)
      PROVE  PairsTyped' /\ sweeping' \subseteq SUBSET Nat
  <2>1. PairIds(pairs[p]) \subseteq Nat
    BY IdsAreNumbers
  <2> QED BY ZenonT(30), <1>0, <1>1, <2>1, FewerPairsTyped DEF RemovePair, TasksTyped
<1>2. ASSUME NEW p \in DOMAIN pairs, ReapUnclaimedRelay(p)
      PROVE  PairsTyped' /\ MapsTyped' /\ TasksTyped'
  BY <1>0, <1>1, <1>2 DEF ReapUnclaimedRelay, MapsTyped, TasksTyped
<1>3. ASSUME NEW x \in splices, EndRelay(x)
      PROVE  PairsTyped' /\ MapsTyped' /\ TasksTyped'
  <2>1. CASE x.pair \in DOMAIN pairs
    BY <1>0, <1>1, <1>3, <2>1 DEF EndRelay, MapsTyped, TasksTyped
  <2>2. CASE x.pair \notin DOMAIN pairs
    BY <1>0, <1>3, <2>2 DEF EndRelay, PairsTyped, MapsTyped, TasksTyped
  <2> QED BY <2>1, <2>2
<1>4. ASSUME NEW ids \in sweeping, Sweep(ids)
      PROVE  PairsTyped' /\ MapsTyped' /\ TasksTyped'
  <2>1. MapsTyped'
    BY <1>0, <1>4, ForgetTyped DEF Sweep
  <2> QED BY <1>0, <1>4, <2>1 DEF Sweep, PairsTyped, TasksTyped
<1> QED BY <1>2, <1>3, <1>4

\* A session registers, ends or is torn down.
LEMMA SessionType ==
  ASSUME TypeOK, NEW s \in Session,
         \/ Register(s) \/ End(s) \/ CancelAndRevoke(s)
         \/ InvalidatePairs(s) \/ ForgetPairIds(s)
  PROVE  PairsTyped' /\ MapsTyped' /\ TasksTyped'
<1>0. PairsTyped /\ MapsTyped /\ TasksTyped
  BY TypeParts
<1>1. CASE Register(s) \/ End(s) \/ CancelAndRevoke(s)
  BY <1>0, <1>1 DEF Register, End, CancelAndRevoke, Untouched,
     PairsTyped, MapsTyped, TasksTyped
<1>2. CASE InvalidatePairs(s)
  <2>1. PairsTyped'
    BY <1>0, <1>2, FewerPairsTyped DEF InvalidatePairs
  <2>2. dropping' \in [Session -> SUBSET Nat]
    BY <1>0, <1>2, IdsAreNumbers DEF InvalidatePairs, PairsOf, TasksTyped
  <2> QED BY <1>0, <1>2, <2>1, <2>2 DEF InvalidatePairs, MapsTyped, TasksTyped
<1>3. CASE ForgetPairIds(s)
  <2>1. MapsTyped'
    BY <1>0, <1>3, ForgetTyped DEF ForgetPairIds
  <2> QED BY <1>0, <1>3, <2>1 DEF ForgetPairIds, PairsTyped, TasksTyped
<1> QED BY <1>1, <1>2, <1>3

-----------------------------------------------------------------------------
(* What steps other than PeerConnect do to the pair table. *)

\* Pairs are only removed, and who they are between never changes.
PairsKept ==
    /\ DOMAIN pairs' \subseteq DOMAIN pairs
    /\ \A p \in DOMAIN pairs' : /\ pairs'[p].party = pairs[p].party
                               /\ pairs'[p].want = pairs[p].want
                               /\ pairs'[p].formed = pairs[p].formed

\* Nor does anything change about the info frames.
InfoKept ==
    /\ infos' = infos
    /\ next_id' \in Nat /\ next_id' >= next_id
    /\ \A p \in DOMAIN pairs' : /\ pairs'[p].info_sent = pairs[p].info_sent
                               /\ pairs'[p].informed = pairs[p].informed

\* Removing pairs.
LEMMA WithoutKept ==
  ASSUME NEW ps, pairs' = Without(pairs, ps)
  PROVE  /\ PairsKept
         /\ \A p \in DOMAIN pairs' : pairs'[p] = pairs[p]
  BY DEF PairsKept, Without

\* Marking a pair.
LEMMA MarkKept ==
  ASSUME TypeOK, NEW p \in DOMAIN pairs, NEW by, Mark(p, by)
  PROVE  PairsKept
<1>1. pairs[p] \in Pair
  BY DEF TypeOK
<1>2. /\ [pairs[p] EXCEPT !.info_sent = TRUE].party = pairs[p].party
      /\ [pairs[p] EXCEPT !.info_sent = TRUE].want = pairs[p].want
      /\ [pairs[p] EXCEPT !.info_sent = TRUE].formed = pairs[p].formed
  BY <1>1 DEF Pair
<1> QED BY <1>2 DEF Mark, PairsKept

\* finish_pair and its sends.
LEMMA FinishKept ==
  ASSUME TypeOK,
         \/ \E s \in Session : ReaderFinish(s)
         \/ \E p \in DOMAIN pairs : PairDeadline(p)
         \/ \E p \in finishing : ProbeFinish(p)
         \/ \E i \in infos : SendInfo(i)
  PROVE  PairsKept
<1>1. CASE \E s \in Session : ReaderFinish(s)
  BY <1>1, MarkKept DEF ReaderFinish, Unmarked, PairsKept
<1>2. CASE \E p \in DOMAIN pairs : PairDeadline(p)
  BY <1>2, MarkKept DEF PairDeadline
<1>3. CASE \E p \in finishing : ProbeFinish(p)
  BY <1>3, MarkKept DEF ProbeFinish, Unmarked, PairsKept
<1>4. ASSUME NEW i \in infos, SendInfo(i)
      PROVE  PairsKept
  <2>1. ASSUME NEW p \in DOMAIN pairs, NEW f
        PROVE  /\ [pairs[p] EXCEPT !.informed = f].party = pairs[p].party
               /\ [pairs[p] EXCEPT !.informed = f].want = pairs[p].want
               /\ [pairs[p] EXCEPT !.informed = f].formed = pairs[p].formed
    BY SMT DEF TypeOK, Pair
  <2> QED BY SMT, <1>4, <2>1 DEF SendInfo, PairsKept
<1> QED BY <1>1, <1>2, <1>3, <1>4

\* The steps that change neither the parties of a pair nor its info frames.
LEMMA TableKept ==
  ASSUME TypeOK,
         \/ \E s \in Session :
               \/ Register(s) \/ End(s) \/ CancelAndRevoke(s)
               \/ InvalidatePairs(s) \/ ForgetPairIds(s)
               \/ \E cl \in Announces[Owner[s]] : PeerProof(s, cl)
               \/ \E c \in Client : Displace(s, c)
               \/ DisplaceForget(s)
         \/ ClaimStep
         \/ \E p \in DOMAIN pairs : ReapUnclaimedRelay(p)
         \/ \E x \in splices : EndRelay(x)
         \/ \E ids \in sweeping : Sweep(ids)
  PROVE  PairsKept /\ InfoKept
<1>1. next_id \in Nat
  BY DEF TypeOK
<1>2. /\ infos' = infos /\ next_id' = next_id
      /\ \/ pairs' = pairs
         \/ \E ps \in SUBSET DOMAIN pairs : pairs' = Without(pairs, ps)
  BY DEF Register, End, CancelAndRevoke, InvalidatePairs, ForgetPairIds, PeerProof,
     Displace, DisplaceForget, ClaimStep, TakeProbe, TakeRelayLeg,
     ReapUnclaimedRelay, EndRelay, RemovePair, Sweep, Untouched, PairsOf
<1>3. CASE pairs' = pairs
  BY SMT, <1>1, <1>2, <1>3 DEF PairsKept, InfoKept
<1>4. CASE \E ps \in SUBSET DOMAIN pairs : pairs' = Without(pairs, ps)
  BY SMT, <1>1, <1>2, <1>4, WithoutKept DEF InfoKept
<1> QED BY <1>2, <1>3, <1>4

\* The steps that fill in a pair's probes, candidates, paths and relay.
LEMMA FillKept ==
  ASSUME TypeOK,
         \/ \E s \in Session : StartPairProbes(s)
         \/ \E x \in probing : SettleProbe(x)
         \/ \E s \in Session, p \in DOMAIN pairs, q \in Party, st \in Reports :
               PeerPath(s, p, q, st)
         \/ \E x \in parking : ParkRelayLeg(x)
  PROVE  PairsKept /\ InfoKept
<1> DEFINE Same(a, b) == /\ a.party = b.party /\ a.want = b.want
                         /\ a.formed = b.formed /\ a.info_sent = b.info_sent
                         /\ a.informed = b.informed
           Counted == infos' = infos /\ next_id' \in Nat /\ next_id' >= next_id
<1>1. ASSUME Counted, NEW p \in DOMAIN pairs, NEW v,
             pairs' = [pairs EXCEPT ![p] = v], Same(v, pairs[p])
      PROVE  PairsKept /\ InfoKept
  BY <1>1 DEF PairsKept, InfoKept
<1>2. ASSUME Counted, pairs' = pairs
      PROVE  PairsKept /\ InfoKept
  BY <1>2 DEF PairsKept, InfoKept
<1>3. next_id \in Nat
  BY DEF TypeOK
<1>4. ASSUME NEW s \in Session, StartPairProbes(s)
      PROVE  PairsKept /\ InfoKept
  <2>1. Counted
    BY SMT, <1>3, <1>4 DEF StartPairProbes
  <2> DEFINE p == rest[s].pair
  <2>2. CASE p \notin DOMAIN pairs
    BY <1>2, <1>4, <2>1, <2>2 DEF StartPairProbes
  <2>3. CASE p \in DOMAIN pairs
    <3>1. PICK failed : pairs' = [pairs EXCEPT ![p] = Probing(pairs[p], failed)]
      BY <1>4, <2>3 DEF StartPairProbes
    <3>2. Same(Probing(pairs[p], failed), pairs[p])
      BY SMT, <2>3 DEF TypeOK, Pair, Probing
    <3> HIDE DEF p, Same, Counted
    <3> QED BY <1>1, <2>1, <2>3, <3>1, <3>2
  <2> QED BY <2>2, <2>3
<1>5. ASSUME NEW x \in probing, SettleProbe(x)
      PROVE  PairsKept /\ InfoKept
  <2>1. Counted
    <3>1. infos' = infos /\ next_id' = next_id
      BY <1>5 DEF SettleProbe
    <3> QED BY SMT, <1>3, <3>1
  <2>2. CASE pairs' = pairs
    BY <1>2, <2>1, <2>2
  <2>3. ASSUME NEW q \in Party, x.pair \in DOMAIN pairs,
               pairs' = [pairs EXCEPT ![x.pair].candidates[q] = "mapped"]
        PROVE  PairsKept /\ InfoKept
    <3> DEFINE v == [pairs[x.pair] EXCEPT !.candidates[q] = "mapped"]
    <3>1. Same(v, pairs[x.pair]) /\ pairs' = [pairs EXCEPT ![x.pair] = v]
      BY SMT, <2>3 DEF TypeOK, Pair
    <3> HIDE DEF v, Same, Counted
    <3> QED BY <1>1, <2>1, <2>3, <3>1
  <2> QED BY <1>5, <2>2, <2>3 DEF SettleProbe
<1>6. ASSUME NEW s \in Session, NEW p \in DOMAIN pairs, NEW q \in Party,
             NEW st \in Reports, PeerPath(s, p, q, st)
      PROVE  PairsKept /\ InfoKept
  <2>1. Counted
    <3>1. infos' = infos /\ (next_id' = next_id \/ next_id' = next_id + 2)
      BY <1>6 DEF PeerPath
    <3> QED BY SMT, <1>3, <3>1
  <2> DEFINE noted == [pairs[p] EXCEPT !.path[q] = st]
             opened == [noted EXCEPT !.relay = "open", !.legs = Number, !.parked = {}]
  <2>2. \/ pairs' = [pairs EXCEPT ![p] = noted]
        \/ pairs' = [pairs EXCEPT ![p] = opened]
    BY <1>6 DEF PeerPath
  <2>3. Same(noted, pairs[p]) /\ Same(opened, pairs[p])
    BY SMT DEF TypeOK, Pair
  <2> HIDE DEF noted, opened, Same, Counted
  <2> QED BY <1>1, <2>1, <2>2, <2>3
<1>7. ASSUME NEW x \in parking, ParkRelayLeg(x)
      PROVE  PairsKept /\ InfoKept
  <2>1. Counted
    <3>1. infos' = infos /\ next_id' = next_id
      BY <1>7 DEF ParkRelayLeg
    <3> QED BY SMT, <1>3, <3>1
  <2> DEFINE first == [pairs[x.pair] EXCEPT !.relay = "parked", !.parked = {x.leg}]
             second == [pairs[x.pair] EXCEPT !.relay = "spliced", !.parked = {}]
  <2>2. \/ pairs' = pairs
        \/ /\ x.pair \in DOMAIN pairs
           /\ \/ pairs' = [pairs EXCEPT ![x.pair] = first]
              \/ pairs' = [pairs EXCEPT ![x.pair] = second]
    BY <1>7 DEF ParkRelayLeg
  <2>3. x.pair \in DOMAIN pairs =>
           Same(first, pairs[x.pair]) /\ Same(second, pairs[x.pair])
    BY SMT DEF TypeOK, Pair
  <2> HIDE DEF first, second, Same, Counted
  <2> QED BY <1>1, <1>2, <2>1, <2>2, <2>3
<1> QED BY <1>4, <1>5, <1>6, <1>7

-----------------------------------------------------------------------------
(* The pair table. *)

\* Fewer pairs between the same parties stay exclusive and unique.
LEMMA ExclusiveKept ==
  ASSUME PairsKept, ExitIsExclusive, OnePairPerRequest
  PROVE  ExitIsExclusive' /\ OnePairPerRequest'
  BY DEF PairsKept, ExitIsExclusive, OnePairPerRequest

\* peer_connect drops the consumer's prior pair and looks for a busy provider
\* in the same hold of the pairs lock as the insert.
LEMMA ConnectExclusive ==
  ASSUME TypeOK, ExitIsExclusive, OnePairPerRequest,
         NEW s \in Session, NEW i \in Identity, NEW w \in Bits, PeerConnect(s, i, w)
  PROVE  ExitIsExclusive' /\ OnePairPerRequest'
<1> DEFINE c == Owner[s]
<1>1. PICK d \in Client :
         \/ pairs' = Without(pairs, Prior(c, d, w))
         \/ /\ ~Busy(d, w, DOMAIN pairs \ Prior(c, d, w))
            /\ pairs' = Add(Without(pairs, Prior(c, d, w)), next_id, NewPair(c, d, w))
  BY DEF PeerConnect
<1>2. CASE pairs' = Without(pairs, Prior(c, d, w))
  BY <1>2, WithoutKept, ExclusiveKept
<1>3. CASE /\ ~Busy(d, w, DOMAIN pairs \ Prior(c, d, w))
           /\ pairs' = Add(Without(pairs, Prior(c, d, w)), next_id, NewPair(c, d, w))
  <2>1. /\ NewPair(c, d, w).party = [consumer |-> c, provider |-> d]
        /\ NewPair(c, d, w).want = w
    BY DEF NewPair
  <2>2. /\ DOMAIN pairs' = (DOMAIN pairs \ Prior(c, d, w)) \cup {next_id}
        /\ pairs'[next_id] = NewPair(c, d, w)
        /\ \A p \in DOMAIN pairs' : p # next_id => pairs'[p] = pairs[p]
    BY <1>3 DEF Add, Without
  <2>3. \A p \in DOMAIN pairs' : p # next_id =>
           /\ p \in DOMAIN pairs
           /\ ~(pairs'[p].party = [consumer |-> c, provider |-> d]
                  /\ pairs'[p].want = w)
    BY <2>2 DEF Prior
  <2>4. \A p \in DOMAIN pairs' : p # next_id /\ w = "exit" =>
           ~(pairs'[p].party["provider"] = d /\ pairs'[p].want = w)
    BY <1>3, <2>2 DEF Busy
  <2>5. OnePairPerRequest'
    BY SMT, <2>1, <2>2, <2>3 DEF OnePairPerRequest
  <2>6. ExitIsExclusive'
    BY SMT, <2>1, <2>2, <2>3, <2>4 DEF ExitIsExclusive
  <2> QED BY <2>5, <2>6
<1> QED BY <1>1, <1>2, <1>3

-----------------------------------------------------------------------------
(* Claims, identities and the sessions behind a pair. *)

\* Only a session the registry names holds a claim.
ClaimRegistered == \A s \in Session : claim[s] # NoClaim => Registered(s)

\* A reader that is between marking a pair and sending its info frames is in
\* that handler, and has marked one pair.
InfosHeld ==
    /\ \A i \in infos : i.by # NoSession => rest[i.by].op = "send"
    /\ \A i, j \in infos : i.by = j.by /\ i.by # NoSession => i = j

\* No invalidation that is on its way is lost.
InvalidationsStay ==
    /\ \A s \in Session : task[s] \in {"cancel", "revoke", "invalidate"}
          => task'[s] \in {"cancel", "revoke", "invalidate"}
    /\ \A s \in Session : \A c \in rest[s].clients :
          rest[s].op \in {"displace", "drop"}
             => rest'[s].op \in {"displace", "drop"} /\ c \in rest'[s].clients

\* A step that touches neither the registry nor a claim.
LEMMA QuietLive ==
  ASSUME PairsKept, InvalidationsStay, registry' = registry, claim' = claim
  PROVE  /\ PairsOfLiveSessions => PairsOfLiveSessions'
         /\ ClaimRegistered => ClaimRegistered'
         /\ IdentityHeldOnce => IdentityHeldOnce'
<1>1. \A c : InvalidationComing(c) => InvalidationComing(c)'
  BY DEF InvalidationsStay, InvalidationComing
<1>2. \A c : Announced(c)' <=> Announced(c)
  BY DEF Announced
<1>3. PairsOfLiveSessions => PairsOfLiveSessions'
  BY <1>1, <1>2 DEF PairsOfLiveSessions, PartyLive, PairsKept
<1> QED BY <1>2, <1>3 DEF ClaimRegistered, IdentityHeldOnce, Registered

\* Most steps are quiet: they leave the registry, the claims and the
\* displacements on their way alone.
LEMMA QuietSteps ==
  ASSUME TypeOK, InfosHeld,
         \/ \E s \in Session :
               \/ CancelAndRevoke(s) \/ ForgetPairIds(s) \/ DisplaceForget(s)
               \/ StartPairProbes(s) \/ ReaderFinish(s)
               \/ \E p \in DOMAIN pairs, q \in Party, st \in Reports :
                     PeerPath(s, p, q, st)
         \/ ClaimStep \/ StreamStep
         \/ \E p \in DOMAIN pairs : TimerStep(p)
  PROVE  InvalidationsStay /\ registry' = registry /\ claim' = claim
<1>1. ASSUME NEW s \in Session, CancelAndRevoke(s) \/ ForgetPairIds(s)
      PROVE  InvalidationsStay /\ registry' = registry /\ claim' = claim
  BY <1>1 DEF CancelAndRevoke, ForgetPairIds, Cancel, Revoke, Forget, Untouched,
     InvalidationsStay, TypeOK, RegistryTypeOK
<1>2. ASSUME NEW s \in Session, DisplaceForget(s)
      PROVE  InvalidationsStay /\ registry' = registry /\ claim' = claim
  <2>1. rest[s] \in Rest /\ [rest[s] EXCEPT !.op = "displace"].op = "displace"
                         /\ [rest[s] EXCEPT !.op = "displace"].clients = rest[s].clients
    BY DEF TypeOK, Rest
  <2>2. UNCHANGED regvars /\ claim' = claim
    BY <1>2 DEF DisplaceForget
  <2>3. /\ \A t \in Session \ {s} : rest'[t] = rest[t]
        /\ rest[s].clients # {} => /\ rest'[s].op = "displace"
                                   /\ rest'[s].clients = rest[s].clients
    BY <1>2, <2>1 DEF DisplaceForget, Return, Continue, TypeOK
  <2> QED BY <2>2, <2>3 DEF InvalidationsStay, regvars
<1>3. ASSUME NEW s \in Session, rest[s].op \notin {"displace", "drop"},
             \E r : rest' = [rest EXCEPT ![s] = r], UNCHANGED regvars
      PROVE  InvalidationsStay
  BY <1>3 DEF InvalidationsStay, TypeOK, regvars
<1>4. ASSUME NEW s \in Session, StartPairProbes(s) \/ ReaderFinish(s)
      PROVE  InvalidationsStay /\ registry' = registry /\ claim' = claim
  <2>1. /\ rest[s].op \in {"probes", "finish"}
        /\ \E r : rest' = [rest EXCEPT ![s] = r]
        /\ UNCHANGED regvars /\ claim' = claim
    BY <1>4 DEF StartPairProbes, ReaderFinish, Return, Continue
  <2> QED BY <1>3, <2>1 DEF regvars
<1>5. ASSUME NEW s \in Session, NEW p \in DOMAIN pairs, NEW q \in Party,
             NEW st \in Reports, PeerPath(s, p, q, st)
      PROVE  InvalidationsStay /\ registry' = registry /\ claim' = claim
  <2>1. /\ rest[s] = Idle
        /\ \E r : rest' = [rest EXCEPT ![s] = r]
        /\ UNCHANGED regvars /\ claim' = claim
    BY <1>5 DEF PeerPath, Dispatch, Return
  <2>2. rest[s].op \notin {"displace", "drop"}
    BY SMT, <2>1 DEF Idle
  <2> QED BY <1>3, <2>1, <2>2 DEF regvars
<1>6. ASSUME NEW i \in infos, SendInfo(i)
      PROVE  InvalidationsStay /\ registry' = registry /\ claim' = claim
  <2>1. UNCHANGED regvars /\ claim' = claim
    BY <1>6 DEF SendInfo
  <2>2. CASE i.by = NoSession
    BY <1>6, <2>1, <2>2 DEF SendInfo, InvalidationsStay, regvars
  <2>3. CASE i.by # NoSession
    <3>1. i.by \in Session /\ rest[i.by].op = "send"
      BY <2>3 DEF InfosHeld, TypeOK
    <3>2. \E r : rest' = [rest EXCEPT ![i.by] = r]
      BY <1>6, <2>3 DEF SendInfo, Return
    <3> QED BY <1>3, <2>1, <3>1, <3>2 DEF regvars
  <2> QED BY <2>2, <2>3
<1>7. ASSUME UNCHANGED regvars, claim' = claim, rest' = rest
      PROVE  InvalidationsStay /\ registry' = registry /\ claim' = claim
  BY <1>7 DEF InvalidationsStay, regvars
<1>8. CASE \/ ClaimStep
           \/ \E x \in probing : SettleProbe(x)
           \/ \E p \in finishing : ProbeFinish(p)
           \/ \E x \in parking : ParkRelayLeg(x)
           \/ \E x \in splices : EndRelay(x)
           \/ \E ids \in sweeping : Sweep(ids)
           \/ \E p \in DOMAIN pairs : TimerStep(p)
  <2>1. UNCHANGED regvars /\ claim' = claim /\ rest' = rest
    BY <1>8 DEF ClaimStep, TakeProbe, TakeRelayLeg, SettleProbe, ProbeFinish,
       ParkRelayLeg, EndRelay, Sweep, TimerStep, PairDeadline, ReapUnclaimedRelay
  <2> QED BY <1>7, <2>1
<1> QED BY <1>1, <1>2, <1>4, <1>5, <1>6, <1>8 DEF StreamStep

\* What the invariant says of claims and of the sessions behind pairs.
LiveInv == ClaimRegistered /\ IdentityHeldOnce /\ PairsOfLiveSessions

\* A session registers, taking the place and the claim of the one it replaces:
\* the teardown that will invalidate its pairs begins in the same step.
LEMMA RegisterLive ==
  ASSUME TypeOK, RegistryInv, LiveInv, NEW s \in Session, Register(s)
  PROVE  LiveInv'
<1> USE SessionAssumption
<1> DEFINE held == registry[Owner[s]]
<1>1. /\ registry' = [registry EXCEPT ![Owner[s]] = s]
      /\ task[s] = "fresh"
      /\ task' = [task EXCEPT ![s] = IF held = NoSession THEN "serving" ELSE "cancel"]
      /\ claim' = [t \in Session |-> IF t = held THEN NoClaim ELSE claim[t]]
      /\ rest' = rest /\ pairs' = pairs
  BY DEF Register, Hello, Untouched
<1>2. claim[s] = NoClaim /\ claim'[s] = NoClaim
  BY SMT, <1>1 DEF LiveInv, ClaimRegistered, RegistryInv, RegistryNamesLiveSessions,
     Registered, Alive, Teardown
<1>3. \A t \in Session : claim'[t] # NoClaim =>
         claim'[t] = claim[t] /\ registry[Owner[t]] = t /\ Owner[t] # Owner[s]
  BY <1>1 DEF LiveInv, ClaimRegistered, Registered
<1>4. ClaimRegistered'
  BY <1>1, <1>3 DEF ClaimRegistered, Registered, TypeOK, RegistryTypeOK
<1>5. \A c \in Client : registry'[c] = IF c = Owner[s] THEN s ELSE registry[c]
  BY <1>1 DEF TypeOK, RegistryTypeOK
<1>6. \A c \in Client : c # Owner[s] =>
         /\ Announced(c)' <=> Announced(c)
         /\ Announced(c) => claim'[registry'[c]] = claim[registry[c]]
  BY SMTT(30), <1>1, <1>5 DEF Announced, TypeOK, RegistryTypeOK, RegistryInv,
     RegistryNamesLiveSessions
<1>7. ~Announced(Owner[s])'
  BY <1>2, <1>5 DEF Announced
<1>8. IdentityHeldOnce'
  BY <1>6, <1>7 DEF LiveInv, IdentityHeldOnce
<1>9. PairsOfLiveSessions'
  <2> SUFFICES ASSUME NEW p \in DOMAIN pairs', NEW q \in Party
               PROVE  PartyLive(p, q)'
    BY DEF PairsOfLiveSessions
  <2>0. p \in DOMAIN pairs /\ pairs[p].party[q] \in Client
                           /\ pairs[p].formed[q] \in Session
    BY SMT, <1>1 DEF TypeOK, Pair
  <2>1. PICK c \in Client : c = pairs[p].party[q]
    BY <2>0
  <2>2. InvalidationComing(c) => InvalidationComing(c)'
    BY <1>1 DEF InvalidationComing, TypeOK, RegistryTypeOK
  <2>3. \/ registry[c] = pairs[p].formed[q] /\ Announced(c)
        \/ InvalidationComing(c)
    BY <2>0, <2>1 DEF LiveInv, PairsOfLiveSessions, PartyLive
  <2>4. CASE c # Owner[s]
    BY <1>1, <1>5, <1>6, <2>1, <2>2, <2>3, <2>4 DEF PartyLive
  <2>5. CASE c = Owner[s] /\ held # NoSession
    <3>1. task'[s] = "cancel"
      BY <1>1, <2>5 DEF TypeOK, RegistryTypeOK
    <3> QED BY <1>1, <2>1, <2>5, <3>1 DEF InvalidationComing, PartyLive
  <2>6. CASE c = Owner[s] /\ held = NoSession
    BY <1>1, <2>0, <2>1, <2>2, <2>3, <2>6 DEF PartyLive
  <2> QED BY <2>4, <2>5, <2>6
<1> QED BY <1>4, <1>8, <1>9 DEF LiveInv

\* A session ends: if it still had its place, its teardown begins.
LEMMA EndLive ==
  ASSUME TypeOK, RegistryInv, LiveInv, NEW s \in Session, End(s)
  PROVE  LiveInv'
<1> USE SessionAssumption
<1>1. /\ task[s] = "serving" /\ rest[s] = Idle
      /\ registry' = IF Registered(s) THEN [registry EXCEPT ![Owner[s]] = NoSession]
                                      ELSE registry
      /\ task' = [task EXCEPT ![s] = IF Registered(s) THEN "cancel" ELSE "gone"]
      /\ claim' = [claim EXCEPT ![s] = NoClaim]
      /\ rest' = rest /\ pairs' = pairs
  BY DEF End, Unregister, Untouched
<1>2. \A c \in Client : registry[c] # s =>
         /\ registry'[c] = registry[c]
         /\ Announced(c)' <=> Announced(c)
         /\ Announced(c) => claim'[registry'[c]] = claim[registry[c]]
  BY <1>1 DEF Announced, TypeOK, RegistryTypeOK, Registered
<1>3. \A c \in Client : registry[c] = s =>
         c = Owner[s] /\ registry'[c] = NoSession /\ task'[s] = "cancel"
  BY SMT, <1>1 DEF TypeOK, RegistryTypeOK, Registered, RegistryInv, RegistryNamesLiveSessions
<1>4. ClaimRegistered'
  BY <1>1 DEF LiveInv, ClaimRegistered, Registered, TypeOK, RegistryTypeOK
<1>5. IdentityHeldOnce'
  BY SMT, <1>2, <1>3 DEF LiveInv, IdentityHeldOnce, Announced
<1>6. PairsOfLiveSessions'
  <2> SUFFICES ASSUME NEW p \in DOMAIN pairs', NEW q \in Party
               PROVE  PartyLive(p, q)'
    BY DEF PairsOfLiveSessions
  <2>0. p \in DOMAIN pairs /\ pairs[p].party[q] \in Client
    <3>1. p \in DOMAIN pairs
      BY <1>1
    <3>2. pairs[p] \in Pair
      BY <3>1 DEF TypeOK
    <3> QED BY <3>1, <3>2 DEF Pair
  <2>1. PICK c \in Client : c = pairs[p].party[q]
    BY <2>0
  <2>2. InvalidationComing(c) => InvalidationComing(c)'
    BY <1>1 DEF InvalidationComing, TypeOK, RegistryTypeOK
  <2>3. \/ registry[c] = pairs[p].formed[q] /\ Announced(c)
        \/ InvalidationComing(c)
    BY <2>0, <2>1 DEF LiveInv, PairsOfLiveSessions, PartyLive
  <2>4. CASE registry[c] # s
    BY <1>1, <1>2, <2>1, <2>2, <2>3, <2>4 DEF PartyLive
  <2>5. CASE registry[c] = s
    <3>1. c = Owner[s] /\ task'[s] = "cancel"
      BY <1>3, <2>1, <2>5
    <3> QED BY <1>1, <2>1, <3>1 DEF InvalidationComing, PartyLive
  <2> QED BY <2>4, <2>5
<1> QED BY <1>4, <1>5, <1>6 DEF LiveInv

-----------------------------------------------------------------------------
(* Claims, identities and the sessions behind a pair. *)

\* A proof moves an identity: the sessions that lose it are displaced next.
LEMMA ProofLive ==
  ASSUME TypeOK, RegistryInv, LiveInv, NEW s \in Session,
         NEW cl \in Announces[Owner[s]], PeerProof(s, cl)
  PROVE  LiveInv'
<1> USE SessionAssumption, RendezvousAssumption
<1> DEFINE displaced == {c \in Client : /\ registry[c] \notin {NoSession, s}
                                        /\ claim[registry[c]] # NoClaim
                                        /\ claim[registry[c]].identity = cl.identity}
<1>1. /\ rest[s] = Idle /\ Registered(s) /\ cl \in PeerClaims
      /\ claim' = RecordPeerClaim(s, cl)
      /\ IF displaced = {} THEN Return(s)
         ELSE Continue(s, [op |-> "displace", pair |-> 0, clients |-> displaced])
      /\ registry' = registry /\ task' = task /\ pairs' = pairs
  BY DEF PeerProof, Dispatch, regvars
<1>2. /\ claim'[s] = cl /\ cl # NoClaim
      /\ \A t \in Session \ {s} :
            IF Registered(t) /\ claim[t] # NoClaim /\ claim[t].identity = cl.identity
            THEN claim'[t] = NoClaim ELSE claim'[t] = claim[t]
  BY <1>1 DEF RecordPeerClaim
<1>3. ClaimRegistered'
  BY <1>1, <1>2 DEF LiveInv, ClaimRegistered, Registered
<1>4. \A c \in Client : registry[c] # NoSession =>
         registry[c] \in Session /\ Owner[registry[c]] = c
  BY DEF TypeOK, RegistryTypeOK, RegistryInv, RegistryNamesLiveSessions
<1>5. \A c \in Client \ displaced :
         /\ registry[c] # s => (Announced(c)' <=> Announced(c))
         /\ registry[c] # s /\ Announced(c) => claim'[registry[c]] = claim[registry[c]]
  BY <1>1, <1>2, <1>4 DEF Announced
<1>6. \A c \in displaced : ~Announced(c)'
  BY <1>1, <1>2, <1>4 DEF Announced, Registered
<1>7. IdentityHeldOnce'
  <2> SUFFICES ASSUME NEW c \in Client, NEW d \in Client, Announced(c)', Announced(d)',
                      claim'[registry[c]].identity = claim'[registry[d]].identity
               PROVE  c = d
    BY <1>1 DEF IdentityHeldOnce
  <2>1. c \notin displaced /\ d \notin displaced
    BY <1>6
  <2>2. CASE registry[c] = s /\ registry[d] = s
    BY <1>4, <2>2
  <2>3. CASE registry[c] # s /\ registry[d] # s
    BY <1>1, <1>5, <2>1, <2>3 DEF LiveInv, IdentityHeldOnce
  <2>4. CASE registry[c] = s /\ registry[d] # s
    <3>1. Announced(d) /\ claim[registry[d]].identity = cl.identity
      BY <1>2, <1>5, <2>1, <2>4
    <3> QED BY <2>1, <2>4, <3>1 DEF Announced
  <2>5. CASE registry[c] # s /\ registry[d] = s
    <3>1. Announced(c) /\ claim[registry[c]].identity = cl.identity
      BY <1>2, <1>5, <2>1, <2>5
    <3> QED BY <2>1, <2>5, <3>1 DEF Announced
  <2> QED BY <2>2, <2>3, <2>4, <2>5
<1>8. /\ \A t \in Session \ {s} : rest'[t] = rest[t]
      /\ displaced # {} => rest'[s].op = "displace" /\ rest'[s].clients = displaced
  <2>1. rest \in [Session -> Rest]
    BY DEF TypeOK
  <2>2. PICK r : rest' = [rest EXCEPT ![s] = r]
    BY <1>1 DEF Return, Continue
  <2>3. \A t \in Session \ {s} : rest'[t] = rest[t]
    BY <2>1, <2>2
  <2>4. displaced # {} =>
          rest' = [rest EXCEPT ![s] = [op |-> "displace", pair |-> 0, clients |-> displaced]]
    BY <1>1 DEF Continue
  <2>5. displaced # {} => rest'[s].op = "displace" /\ rest'[s].clients = displaced
    BY SMT, <2>1, <2>4
  <2> QED BY <2>3, <2>5
<1>9. PairsOfLiveSessions'
  <2> SUFFICES ASSUME NEW p \in DOMAIN pairs', NEW q \in Party
               PROVE  PartyLive(p, q)'
    BY DEF PairsOfLiveSessions
  <2>0. p \in DOMAIN pairs /\ pairs[p].party[q] \in Client
    <3>1. p \in DOMAIN pairs
      BY <1>1
    <3>2. pairs[p] \in Pair
      BY <3>1 DEF TypeOK
    <3> QED BY SMT, <3>1, <3>2 DEF Pair
  <2>1. PICK c \in Client : c = pairs[p].party[q]
    BY <2>0
  <2>2. ASSUME InvalidationComing(c)
        PROVE  InvalidationComing(c)'
    <3>1. PICK t \in Session :
            \/ Owner[t] = c /\ task[t] \in {"cancel", "revoke", "invalidate"}
            \/ rest[t].op \in {"displace", "drop"} /\ c \in rest[t].clients
      BY <2>2 DEF InvalidationComing
    <3>2. t = s => rest[t].op = "none"
      BY SMT, <1>1 DEF Idle
    <3>3. \/ Owner[t] = c /\ task'[t] \in {"cancel", "revoke", "invalidate"}
          \/ rest'[t].op \in {"displace", "drop"} /\ c \in rest'[t].clients
      BY <1>1, <1>8, <3>1, <3>2
    <3> QED BY <3>3 DEF InvalidationComing
  <2>3. \/ registry[c] = pairs[p].formed[q] /\ Announced(c)
        \/ InvalidationComing(c)
    BY <2>0, <2>1 DEF LiveInv, PairsOfLiveSessions, PartyLive
  <2>4. CASE c \in displaced
    <3>1. InvalidationComing(c)'
      BY <1>8, <2>4 DEF InvalidationComing
    <3> QED BY <1>1, <2>1, <3>1 DEF PartyLive
  <2>5. CASE c \notin displaced
    <3>1. registry[c] = s => Announced(c)'
      BY <1>1, <1>2 DEF Announced
    <3>2. Announced(c) => Announced(c)'
      BY <1>5, <2>5, <3>1
    <3> QED BY <1>1, <2>1, <2>2, <2>3, <3>2 DEF PartyLive
  <2> QED BY <2>4, <2>5
<1> QED BY <1>3, <1>7, <1>9 DEF LiveInv

\* invalidate_pairs removes every pair of one client id, so the invalidation that
\* is over is not missed.
LEMMA InvalidateLive ==
  ASSUME TypeOK, LiveInv, NEW s \in Session,
         InvalidatePairs(s) \/ \E c \in Client : Displace(s, c)
  PROVE  LiveInv'
<1>1. PICK c : /\ registry' = registry /\ claim' = claim
               /\ pairs' = Without(pairs, PairsOf(c))
               /\ \/ /\ c = Owner[s] /\ rest' = rest
                     /\ task' = [task EXCEPT ![s] = "forget"]
                  \/ /\ task' = task
                     /\ rest' = [rest EXCEPT ![s] =
                           [op |-> "drop", pair |-> 0, clients |-> rest[s].clients \ {c}]]
  BY DEF InvalidatePairs, Displace, Invalidate, Continue, regvars
<1>2. \A d : d # c /\ InvalidationComing(d) => InvalidationComing(d)'
  <2> SUFFICES ASSUME NEW d, d # c, InvalidationComing(d)
               PROVE  InvalidationComing(d)'
    OBVIOUS
  <2>1. PICK t \in Session :
          \/ Owner[t] = d /\ task[t] \in {"cancel", "revoke", "invalidate"}
          \/ rest[t].op \in {"displace", "drop"} /\ d \in rest[t].clients
    BY DEF InvalidationComing
  <2>2. \/ Owner[t] = d /\ task'[t] \in {"cancel", "revoke", "invalidate"}
        \/ rest'[t].op \in {"displace", "drop"} /\ d \in rest'[t].clients
    <3>1. DOMAIN task = Session /\ rest \in [Session -> Rest]
      BY DEF TypeOK, RegistryTypeOK
    <3>2. CASE /\ c = Owner[s] /\ rest' = rest
               /\ task' = [task EXCEPT ![s] = "forget"]
      <4>1. CASE t = s
        BY <2>1, <3>2, <4>1
      <4>2. CASE t # s
        BY <2>1, <3>1, <3>2, <4>2
      <4> QED BY <4>1, <4>2
    <3>3. CASE /\ task' = task
               /\ rest' = [rest EXCEPT ![s] =
                     [op |-> "drop", pair |-> 0, clients |-> rest[s].clients \ {c}]]
      <4>1. CASE t = s
        BY <2>1, <3>1, <3>3, <4>1
      <4>2. CASE t # s
        BY <2>1, <3>1, <3>3, <4>2
      <4> QED BY <4>1, <4>2
    <3> QED BY <1>1, <3>2, <3>3
  <2> QED BY <2>2 DEF InvalidationComing
<1>3. \A d : Announced(d)' <=> Announced(d)
  BY <1>1 DEF Announced
<1>4. /\ DOMAIN pairs' = DOMAIN pairs \ PairsOf(c)
      /\ \A p \in DOMAIN pairs' : pairs'[p] = pairs[p]
  BY <1>1 DEF Without
<1>5. \A p \in DOMAIN pairs' : \A q \in Party : pairs[p].party[q] # c
  BY <1>4 DEF PairsOf
<1>6. PairsOfLiveSessions'
  <2> SUFFICES ASSUME NEW p \in DOMAIN pairs', NEW q \in Party
               PROVE  PartyLive(p, q)'
    BY DEF PairsOfLiveSessions
  <2>1. p \in DOMAIN pairs /\ pairs'[p] = pairs[p] /\ pairs[p].party[q] # c
    BY <1>4, <1>5
  <2>2. PartyLive(p, q)
    BY <2>1 DEF LiveInv, PairsOfLiveSessions
  <2> QED BY <1>1, <1>2, <1>3, <2>1, <2>2 DEF PartyLive
<1> QED BY <1>1, <1>3, <1>6 DEF LiveInv, ClaimRegistered, IdentityHeldOnce, Registered

\* A new pair is between two sessions the registry names, each with a claim.
LEMMA ConnectLive ==
  ASSUME TypeOK, LiveInv, NEW s \in Session, NEW i \in Identity, NEW w \in Bits,
         PeerConnect(s, i, w)
  PROVE  LiveInv'
<1> USE SessionAssumption
<1> DEFINE c == Owner[s]
<1>1. PICK d \in Client :
        /\ Announced(d)
        /\ \/ pairs' = Without(pairs, Prior(c, d, w))
           \/ pairs' = Add(Without(pairs, Prior(c, d, w)), next_id, NewPair(c, d, w))
  BY DEF PeerConnect
<1>2. /\ registry' = registry /\ claim' = claim /\ task' = task
      /\ rest[s] = Idle /\ Announced(c)
      /\ \E r : rest' = [rest EXCEPT ![s] = r]
  BY DEF PeerConnect, Dispatch, Registered, Announced, Return, Continue, regvars
<1>3. \A x : InvalidationComing(x) => InvalidationComing(x)'
  <2> SUFFICES ASSUME NEW x, InvalidationComing(x)
               PROVE  InvalidationComing(x)'
    OBVIOUS
  <2>1. PICK t \in Session :
          \/ Owner[t] = x /\ task[t] \in {"cancel", "revoke", "invalidate"}
          \/ rest[t].op \in {"displace", "drop"} /\ x \in rest[t].clients
    BY DEF InvalidationComing
  <2>2. t # s => rest'[t] = rest[t]
    BY <1>2 DEF TypeOK
  <2>3. t = s => rest[t].op = "none"
    BY SMT, <1>2 DEF Idle
  <2>4. \/ Owner[t] = x /\ task'[t] \in {"cancel", "revoke", "invalidate"}
        \/ rest'[t].op \in {"displace", "drop"} /\ x \in rest'[t].clients
    BY <1>2, <2>1, <2>2, <2>3
  <2> QED BY <2>4 DEF InvalidationComing
<1>4. \A x : Announced(x)' <=> Announced(x)
  BY <1>2 DEF Announced
<1>5. \A p \in DOMAIN pairs' :
         \/ pairs'[p] = NewPair(c, d, w)
         \/ p \in DOMAIN pairs /\ pairs'[p] = pairs[p]
  BY <1>1 DEF Add, Without
<1>6. \A q \in Party :
         /\ NewPair(c, d, w).formed[q] = registry[NewPair(c, d, w).party[q]]
         /\ NewPair(c, d, w).party[q] \in {c, d}
  BY SMT DEF NewPair, Party
<1>7. PairsOfLiveSessions'
  <2> SUFFICES ASSUME NEW p \in DOMAIN pairs', NEW q \in Party
               PROVE  PartyLive(p, q)'
    BY DEF PairsOfLiveSessions
  <2>1. CASE pairs'[p] = NewPair(c, d, w)
    BY <1>1, <1>2, <1>4, <1>6, <2>1 DEF PartyLive
  <2>2. CASE p \in DOMAIN pairs /\ pairs'[p] = pairs[p]
    BY <1>2, <1>3, <1>4, <2>2 DEF PartyLive, LiveInv, PairsOfLiveSessions
  <2> QED BY <1>5, <2>1, <2>2
<1> QED BY <1>2, <1>4, <1>7 DEF LiveInv, ClaimRegistered, IdentityHeldOnce, Registered

-----------------------------------------------------------------------------
(* The inductive invariant. *)

\* Ids are drawn upwards; a pair that is not marked has had no info frame, and
\* one that is has at most one finish_pair on its way.
InfoCounted ==
    /\ \A p \in DOMAIN pairs : p < next_id
    /\ \A i \in infos : i.pair < next_id
    /\ \A p \in DOMAIN pairs : ~pairs[p].info_sent =>
          /\ \A q \in Party : pairs[p].informed[q] = 0
          /\ \A i \in infos : i.pair # p
    /\ \A i \in infos : i.pair \in DOMAIN pairs =>
          \A q \in Party : pairs[i.pair].informed[q] = 0
    /\ \A i, j \in infos : i.pair = j.pair /\ i.pair \in DOMAIN pairs => i = j
    /\ InfoSentOnce

RendezvousInv ==
    /\ RegistryInv
    /\ TypeOK
    /\ ClaimRegistered
    /\ InfosHeld
    /\ InfoCounted
    /\ IdentityHeldOnce
    /\ PairsOfLiveSessions
    /\ ExitIsExclusive
    /\ OnePairPerRequest

\* The tables start empty.
LEMMA RendezvousInvInit == Init => RendezvousInv
<1> SUFFICES ASSUME Init PROVE RendezvousInv
  OBVIOUS
<1>1. RegistryInv
  BY RegistryInvInit DEF Init
<1>2. /\ DOMAIN pairs = {} /\ infos = {}
      /\ \A s \in Session : claim[s] = NoClaim
      /\ \A c \in Client : ~Announced(c)
  BY SessionAssumption DEF Init, PeerInit, RegistryInit, Announced
<1>3. TypeOK
  BY SMT, <1>1 DEF Init, PeerInit, TypeOK, RegistryInv, Rest, Idle, FirstId
<1>4. ClaimRegistered /\ InfosHeld /\ InfoCounted
  BY <1>2 DEF ClaimRegistered, InfosHeld, InfoCounted, InfoSentOnce
<1>5. IdentityHeldOnce /\ PairsOfLiveSessions /\ ExitIsExclusive /\ OnePairPerRequest
  BY <1>2 DEF IdentityHeldOnce, PairsOfLiveSessions, ExitIsExclusive, OnePairPerRequest
<1> QED BY <1>1, <1>3, <1>4, <1>5 DEF RendezvousInv

-----------------------------------------------------------------------------
(* The info frames. *)

\* A step that is not finish_pair's leaves the readers inside it there.
LEMMA OthersHeld ==
  ASSUME TypeOK, InfosHeld,
         \/ \E s \in Session :
               \/ Register(s) \/ End(s) \/ FrameStep(s) \/ CancelAndRevoke(s)
               \/ InvalidatePairs(s) \/ ForgetPairIds(s) \/ DisplaceForget(s)
               \/ StartPairProbes(s) \/ \E c \in Client : Displace(s, c)
         \/ ClaimStep
         \/ \E x \in probing : SettleProbe(x)
         \/ \E x \in parking : ParkRelayLeg(x)
         \/ \E x \in splices : EndRelay(x)
         \/ \E ids \in sweeping : Sweep(ids)
         \/ \E p \in DOMAIN pairs : ReapUnclaimedRelay(p)
  PROVE  InfosHeld'
<1>1. ASSUME infos' = infos,
             \A t \in Session : rest[t].op = "send" => rest'[t] = rest[t]
      PROVE  InfosHeld'
  BY <1>1 DEF InfosHeld, TypeOK
<1>2. ASSUME NEW s \in Session, rest[s].op # "send",
             \E r : rest' = [rest EXCEPT ![s] = r]
      PROVE  \A t \in Session : rest[t].op = "send" => rest'[t] = rest[t]
  BY <1>2 DEF TypeOK
<1>3. ASSUME NEW s \in Session, Dispatch(s)
      PROVE  rest[s].op # "send"
  BY SMT, <1>3 DEF Dispatch, Idle
<1>4. ASSUME NEW s \in Session, FrameStep(s)
      PROVE  InfosHeld'
  <2>1. Dispatch(s) /\ infos' = infos /\ \E r : rest' = [rest EXCEPT ![s] = r]
    <3>1. CASE \E cl \in Announces[Owner[s]] : PeerProof(s, cl)
      BY <3>1 DEF PeerProof, Return, Continue
    <3>2. CASE \E i \in Identity, w \in Bits : PeerConnect(s, i, w)
      BY <3>2 DEF PeerConnect, Return, Continue
    <3>3. ASSUME NEW p \in DOMAIN pairs, NEW q \in Party, NEW st \in Reports,
                 PeerPath(s, p, q, st)
          PROVE  Dispatch(s) /\ infos' = infos /\ rest' = [rest EXCEPT ![s] = Idle]
      BY <3>3 DEF PeerPath, Return
    <3> QED BY <1>4, <3>1, <3>2, <3>3 DEF FrameStep
  <2> QED BY <1>1, <1>2, <1>3, <2>1
<1>5. ASSUME NEW s \in Session,
             \/ DisplaceForget(s) \/ StartPairProbes(s)
             \/ \E c \in Client : Displace(s, c)
      PROVE  InfosHeld'
  <2>1. /\ infos' = infos /\ \E r : rest' = [rest EXCEPT ![s] = r]
        /\ rest[s].op # "send"
    BY <1>5 DEF DisplaceForget, StartPairProbes, Displace, Return, Continue
  <2> QED BY <1>1, <1>2, <2>1
<1>6. CASE infos' = infos /\ rest' = rest
  BY <1>1, <1>6
<1> QED
  BY <1>4, <1>5, <1>6 DEF Register, End, CancelAndRevoke, InvalidatePairs, ForgetPairIds,
     Untouched, ClaimStep, TakeProbe, TakeRelayLeg, SettleProbe, ParkRelayLeg, EndRelay,
     Sweep, ReapUnclaimedRelay

\* finish_pair: the reader is in it from the mark to the sends.
LEMMA FinishHeld ==
  ASSUME TypeOK, InfosHeld,
         \/ \E s \in Session : ReaderFinish(s)
         \/ \E p \in DOMAIN pairs : PairDeadline(p)
         \/ \E p \in finishing : ProbeFinish(p)
         \/ \E i \in infos : SendInfo(i)
  PROVE  InfosHeld'
<1> USE SessionAssumption
<1>1. ASSUME NEW s \in Session, ReaderFinish(s)
      PROVE  InfosHeld'
  <2>1. /\ rest[s].op = "finish" /\ rest[s] \in Rest
        /\ \A i \in infos : i.by # s
    BY <1>1 DEF ReaderFinish, InfosHeld, TypeOK
  <2>2. CASE infos' = infos
    <3>1. \A t \in Session \ {s} : rest'[t] = rest[t]
      BY <1>1 DEF ReaderFinish, Return, Continue, TypeOK
    <3> QED BY <2>1, <2>2, <3>1 DEF InfosHeld, TypeOK
  <2>3. CASE infos' # infos
    <3>1. PICK j : j.by = s /\ infos' = infos \cup {j}
      BY <1>1, <2>3 DEF ReaderFinish, Mark
    <3>2. rest' = [rest EXCEPT ![s] = [rest[s] EXCEPT !.op = "send"]]
      BY <1>1, <2>3 DEF ReaderFinish, Continue
    <3>3. rest'[s].op = "send" /\ \A t \in Session \ {s} : rest'[t] = rest[t]
      BY <2>1, <3>2 DEF TypeOK, Rest
    <3> QED BY <2>1, <3>1, <3>3 DEF InfosHeld, TypeOK
  <2> QED BY <2>2, <2>3
<1>2. CASE \/ \E p \in DOMAIN pairs : PairDeadline(p)
           \/ \E p \in finishing : ProbeFinish(p)
  <2>1. rest' = rest /\ (infos' = infos \/ \E j : j.by = NoSession /\ infos' = infos \cup {j})
    BY <1>2 DEF PairDeadline, ProbeFinish, Mark
  <2> QED BY <2>1 DEF InfosHeld
<1>3. ASSUME NEW i \in infos, SendInfo(i)
      PROVE  InfosHeld'
  <2>1. /\ infos' = infos \ {i}
        /\ i.by = NoSession => rest' = rest
        /\ i.by # NoSession => rest' = [rest EXCEPT ![i.by] = Idle]
    BY <1>3 DEF SendInfo, Return
  <2>2. \A j \in infos' : j.by # NoSession => j.by # i.by /\ rest'[j.by] = rest[j.by]
    BY <2>1 DEF InfosHeld, TypeOK
  <2> QED BY <2>1, <2>2 DEF InfosHeld
<1> QED BY <1>1, <1>2, <1>3

\* Steps that leave the info frames of the pairs they keep alone.
LEMMA KeptCounted ==
  ASSUME TypeOK, InfoCounted, PairsKept, InfoKept
  PROVE  InfoCounted'
<1>1. /\ next_id \in Nat /\ next_id' \in Nat /\ next_id' >= next_id
      /\ DOMAIN pairs \subseteq Nat /\ \A i \in infos : i.pair \in Nat
  BY DEF TypeOK, InfoKept
<1>2. (\A p \in DOMAIN pairs' : p < next_id') /\ \A i \in infos' : i.pair < next_id'
  BY SMT, <1>1 DEF InfoCounted, PairsKept, InfoKept
<1> QED BY SMT, <1>2 DEF InfoCounted, InfoSentOnce, PairsKept, InfoKept

\* A new pair has a new id, so no info frame on its way is for it.
LEMMA ConnectCounted ==
  ASSUME TypeOK, InfoCounted, NEW s \in Session, NEW i \in Identity, NEW w \in Bits,
         PeerConnect(s, i, w)
  PROVE  InfoCounted'
<1> DEFINE c == Owner[s]
<1>1. /\ next_id \in Nat /\ DOMAIN pairs \subseteq Nat
      /\ \A j \in infos : j.pair \in Nat
  BY DEF TypeOK
<1>2. PICK d \in Client :
        /\ next_id' \in {next_id, next_id + 1}
        /\ \/ pairs' = Without(pairs, Prior(c, d, w))
           \/ /\ pairs' = Add(Without(pairs, Prior(c, d, w)), next_id, NewPair(c, d, w))
              /\ next_id' = next_id + 1
  BY DEF PeerConnect
<1>3. infos' = infos
  BY DEF PeerConnect
<1>4. CASE pairs' = Without(pairs, Prior(c, d, w))
  <2>1. PairsKept /\ \A p \in DOMAIN pairs' : pairs'[p] = pairs[p]
    BY <1>4, WithoutKept
  <2>2. next_id' \in Nat /\ next_id' >= next_id
    BY SMT, <1>1, <1>2
  <2>3. InfoKept
    BY <1>3, <2>1, <2>2 DEF InfoKept
  <2> QED BY <2>1, <2>3, KeptCounted
<1>5. CASE /\ pairs' = Add(Without(pairs, Prior(c, d, w)), next_id, NewPair(c, d, w))
           /\ next_id' = next_id + 1
  <2>1. /\ DOMAIN pairs' \subseteq DOMAIN pairs \cup {next_id}
        /\ pairs'[next_id] = NewPair(c, d, w)
        /\ \A p \in DOMAIN pairs' : p # next_id => pairs'[p] = pairs[p]
    BY <1>5 DEF Add, Without
  <2>2. ~NewPair(c, d, w).info_sent /\ \A q \in Party : NewPair(c, d, w).informed[q] = 0
    BY DEF NewPair
  <2>3. (\A p \in DOMAIN pairs' : p < next_id') /\ \A j \in infos' : j.pair < next_id'
    BY SMT, <1>1, <1>3, <1>5, <2>1 DEF InfoCounted
  <2>4. \A j \in infos : j.pair # next_id
    BY SMT, <1>1 DEF InfoCounted
  <2>5. InfoSentOnce'
    BY SMT, <2>1, <2>2 DEF InfoCounted, InfoSentOnce
  <2> QED BY SMT, <1>3, <2>1, <2>2, <2>3, <2>4, <2>5 DEF InfoCounted
<1> QED BY <1>2, <1>4, <1>5

\* The mark is made once per pair, and before its sends.
LEMMA MarkCounted ==
  ASSUME TypeOK, InfoCounted, NEW p \in DOMAIN pairs, ~pairs[p].info_sent,
         NEW by \in Session \cup {NoSession}, Mark(p, by), next_id' = next_id
  PROVE  InfoCounted'
<1>1. /\ [pairs[p] EXCEPT !.info_sent = TRUE].info_sent
      /\ [pairs[p] EXCEPT !.info_sent = TRUE].informed = pairs[p].informed
  BY SMTT(30) DEF TypeOK, Pair
<1>2. /\ DOMAIN pairs' = DOMAIN pairs
      /\ pairs'[p].info_sent
      /\ pairs'[p].informed = pairs[p].informed
      /\ \A r \in DOMAIN pairs : r # p => pairs'[r] = pairs[r]
  BY <1>1 DEF Mark
<1>3. PICK j : j.pair = p /\ infos' = infos \cup {j}
  BY DEF Mark
<1>4. \A i \in infos : i.pair # p
  BY DEF InfoCounted
<1>5. InfoSentOnce'
  BY SMT, <1>2 DEF InfoCounted, InfoSentOnce
<1> QED BY SMT, <1>2, <1>3, <1>4, <1>5 DEF InfoCounted

\* The sends count one frame for each party, of a pair that had none.
LEMMA SendCounted ==
  ASSUME TypeOK, InfoCounted, NEW i \in infos, SendInfo(i)
  PROVE  InfoCounted'
<1> DEFINE more(p) == [q \in Party |-> IF Announced(i.party[q])
                         THEN pairs[p].informed[q] + 1 ELSE pairs[p].informed[q]]
<1>1. /\ infos' = infos \ {i} /\ next_id' = next_id
      /\ pairs' = [p \in DOMAIN pairs |-> IF p # i.pair THEN pairs[p]
                                          ELSE [pairs[p] EXCEPT !.informed = more(p)]]
  BY DEF SendInfo
<1>2. \A p \in DOMAIN pairs :
         /\ [pairs[p] EXCEPT !.informed = more(p)].informed = more(p)
         /\ [pairs[p] EXCEPT !.informed = more(p)].info_sent = pairs[p].info_sent
  BY SMT DEF TypeOK, Pair
<1> HIDE DEF more
<1>3. /\ DOMAIN pairs' = DOMAIN pairs
      /\ \A p \in DOMAIN pairs : p # i.pair => pairs'[p] = pairs[p]
      /\ i.pair \in DOMAIN pairs => /\ pairs'[i.pair].informed = more(i.pair)
                                    /\ pairs[i.pair].info_sent
                                    /\ pairs'[i.pair].info_sent
  BY <1>1, <1>2 DEF InfoCounted
<1>4. i.pair \in DOMAIN pairs => \A q \in Party : more(i.pair)[q] <= 1
  BY SMT DEF more, InfoCounted
<1>5. \A j \in infos' : j.pair \in DOMAIN pairs => j.pair # i.pair
  BY <1>1 DEF InfoCounted
<1>6. InfoSentOnce'
  BY <1>3, <1>4 DEF InfoCounted, InfoSentOnce
<1> QED BY SMT, <1>1, <1>3, <1>5, <1>6 DEF InfoCounted

-----------------------------------------------------------------------------
(* The invariant. *)

\* Every step keeps the registry's own invariant.
LEMMA NextRegistry ==
  ASSUME RegistryInv, Next
  PROVE  RegistryInv'
<1>1. ASSUME NEW s \in Session, Register(s)
      PROVE  RegistryInv'
  BY <1>1, HelloInv DEF Register
<1>2. ASSUME NEW s \in Session, End(s)
      PROVE  RegistryInv'
  BY <1>2, UnregisterInv DEF End
<1>3. ASSUME NEW s \in Session, CancelAndRevoke(s) \/ InvalidatePairs(s) \/ ForgetPairIds(s)
      PROVE  RegistryInv'
  BY <1>3, TeardownInv DEF CancelAndRevoke, InvalidatePairs, ForgetPairIds
<1>4. ASSUME NEW s \in Session, FrameStep(s)
      PROVE  UNCHANGED regvars
  <2>1. ASSUME NEW cl \in Announces[Owner[s]], PeerProof(s, cl)
        PROVE  UNCHANGED regvars
    BY <2>1 DEF PeerProof
  <2>2. ASSUME NEW i \in Identity, NEW w \in Bits, PeerConnect(s, i, w)
        PROVE  UNCHANGED regvars
    BY <2>2 DEF PeerConnect
  <2>3. ASSUME NEW p \in DOMAIN pairs, NEW q \in Party, NEW st \in Reports,
               PeerPath(s, p, q, st)
        PROVE  UNCHANGED regvars
    BY <2>3 DEF PeerPath
  <2> QED BY <1>4, <2>1, <2>2, <2>3 DEF FrameStep
<1>5. ASSUME NEW s \in Session,
             \/ \E c \in Client : Displace(s, c)
             \/ DisplaceForget(s) \/ StartPairProbes(s) \/ ReaderFinish(s)
      PROVE  UNCHANGED regvars
  BY <1>5 DEF Displace, DisplaceForget, StartPairProbes, ReaderFinish
<1>6. CASE ClaimStep \/ StreamStep \/ \E p \in DOMAIN pairs : TimerStep(p)
  <2>1. UNCHANGED regvars
    BY <1>6 DEF ClaimStep, TakeProbe, TakeRelayLeg, StreamStep, SettleProbe, ProbeFinish,
       SendInfo, ParkRelayLeg, EndRelay, Sweep, TimerStep, PairDeadline,
       ReapUnclaimedRelay
  <2> QED BY <2>1, StutterInv
<1> QED BY <1>1, <1>2, <1>3, <1>4, <1>5, <1>6, StutterInv DEF Next, TaskStep

\* Every step keeps the types.
LEMMA NextType ==
  ASSUME TypeOK, RegistryInv, Next
  PROVE  TypeOK'
<1>1. RegistryTypeOK'
  BY NextRegistry DEF RegistryInv
<1>2. PairsTyped' /\ MapsTyped' /\ TasksTyped'
  <2>1. ASSUME NEW s \in Session, FrameStep(s)
        PROVE  PairsTyped' /\ MapsTyped' /\ TasksTyped'
    BY <2>1, ProofType, ConnectType, PathType DEF FrameStep
  <2>2. ASSUME NEW s \in Session, Register(s) \/ End(s) \/ TaskStep(s)
        PROVE  PairsTyped' /\ MapsTyped' /\ TasksTyped'
    BY <2>2, ProofType, ProbesType, FinishType, SessionType DEF TaskStep
  <2>3. CASE StreamStep
    BY <2>3, SettleType, FinishType, InfoType, ParkType, RemoveType DEF StreamStep
  <2>4. CASE \E p \in DOMAIN pairs : TimerStep(p)
    BY <2>4, FinishType, RemoveType DEF TimerStep
  <2> QED BY <2>1, <2>2, <2>3, <2>4, ClaimType DEF Next
<1> QED BY <1>1, <1>2, TypeParts, PTL

\* Every step but PeerConnect keeps the pairs it leaves in the table.
LEMMA NextKept ==
  ASSUME TypeOK, Next
  PROVE  PairsKept \/ \E s \in Session, i \in Identity, w \in Bits : PeerConnect(s, i, w)
<1>1. ASSUME NEW s \in Session, FrameStep(s)
      PROVE  PairsKept \/ \E i \in Identity, w \in Bits : PeerConnect(s, i, w)
  BY <1>1, TableKept, FillKept DEF FrameStep
<1>2. ASSUME NEW s \in Session, Register(s) \/ End(s) \/ TaskStep(s)
      PROVE  PairsKept
  BY <1>2, TableKept, FillKept, FinishKept DEF TaskStep
<1>3. CASE ClaimStep \/ StreamStep
  BY <1>3, TableKept, FillKept, FinishKept DEF StreamStep
<1>4. CASE \E p \in DOMAIN pairs : TimerStep(p)
  BY <1>4, TableKept, FinishKept DEF TimerStep
<1> QED BY <1>1, <1>2, <1>3, <1>4 DEF Next

\* Every step keeps pairs tied to the sessions behind them.
LEMMA NextLive ==
  ASSUME TypeOK, RegistryInv, InfosHeld, LiveInv, Next
  PROVE  LiveInv'
<1>1. ASSUME NEW s \in Session, FrameStep(s)
      PROVE  LiveInv'
  <2>1. CASE \E cl \in Announces[Owner[s]] : PeerProof(s, cl)
    BY <2>1, ProofLive
  <2>2. CASE \E i \in Identity, w \in Bits : PeerConnect(s, i, w)
    BY <2>2, ConnectLive
  <2>3. CASE \E p \in DOMAIN pairs, q \in Party, st \in Reports : PeerPath(s, p, q, st)
    BY <2>3, QuietSteps, FillKept, QuietLive DEF LiveInv
  <2> QED BY <1>1, <2>1, <2>2, <2>3 DEF FrameStep
<1>2. ASSUME NEW s \in Session, TaskStep(s)
      PROVE  LiveInv'
  <2>1. CASE InvalidatePairs(s) \/ \E c \in Client : Displace(s, c)
    BY <2>1, InvalidateLive
  <2>2. CASE \/ CancelAndRevoke(s) \/ ForgetPairIds(s) \/ DisplaceForget(s)
             \/ StartPairProbes(s) \/ ReaderFinish(s)
    <3>1. PairsKept
      BY <2>2, TableKept, FillKept, FinishKept
    <3> QED BY <2>2, <3>1, QuietSteps, QuietLive DEF LiveInv
  <2> QED BY <1>2, <2>1, <2>2 DEF TaskStep
<1>3. CASE ClaimStep \/ StreamStep \/ \E p \in DOMAIN pairs : TimerStep(p)
  <2>1. PairsKept
    BY <1>3, TableKept, FillKept, FinishKept DEF StreamStep, TimerStep
  <2> QED BY <1>3, <2>1, QuietSteps, QuietLive DEF LiveInv
<1> QED BY <1>1, <1>2, <1>3, RegisterLive, EndLive DEF Next

\* Every step keeps the info frames accounted for.
LEMMA NextInfo ==
  ASSUME TypeOK, InfosHeld, InfoCounted, Next
  PROVE  InfosHeld' /\ InfoCounted'
<1>1. CASE \/ \E s \in Session : ReaderFinish(s)
           \/ \E p \in DOMAIN pairs : PairDeadline(p)
           \/ \E p \in finishing : ProbeFinish(p)
           \/ \E i \in infos : SendInfo(i)
  <2>1. \/ \E i \in infos : SendInfo(i)
        \/ \E p \in DOMAIN pairs, by \in Session \cup {NoSession} :
              ~pairs[p].info_sent /\ Mark(p, by) /\ next_id' = next_id
        \/ pairs' = pairs /\ infos' = infos /\ next_id' = next_id
    BY <1>1 DEF ReaderFinish, PairDeadline, ProbeFinish, Unmarked
  <2>2. ASSUME pairs' = pairs, infos' = infos, next_id' = next_id
        PROVE  InfoCounted'
    BY <2>2 DEF InfoCounted, InfoSentOnce
  <2>3. ASSUME NEW p \in DOMAIN pairs, NEW by \in Session \cup {NoSession},
               ~pairs[p].info_sent, Mark(p, by), next_id' = next_id
        PROVE  InfoCounted'
    BY <2>3, MarkCounted
  <2>4. InfoCounted'
    BY <2>1, <2>2, <2>3, SendCounted
  <2> QED BY <1>1, <2>4, FinishHeld
<1>2. ASSUME NEW s \in Session, Register(s) \/ End(s) \/ FrameStep(s) \/ TaskStep(s),
             ~ReaderFinish(s)
      PROVE  InfosHeld' /\ InfoCounted'
  <2>1. InfosHeld'
    BY <1>2, OthersHeld DEF TaskStep
  <2>2. InfoCounted'
    BY <1>2, TableKept, FillKept, KeptCounted, ConnectCounted DEF TaskStep, FrameStep
  <2> QED BY <2>1, <2>2
<1>3. CASE \/ ClaimStep
           \/ \E x \in probing : SettleProbe(x)
           \/ \E x \in parking : ParkRelayLeg(x)
           \/ \E x \in splices : EndRelay(x)
           \/ \E ids \in sweeping : Sweep(ids)
           \/ \E p \in DOMAIN pairs : ReapUnclaimedRelay(p)
  BY <1>3, OthersHeld, TableKept, FillKept, KeptCounted
<1> QED BY <1>1, <1>2, <1>3 DEF Next, StreamStep, TimerStep

\* A step that changes nothing keeps the invariant.
LEMMA RendezvousStutter ==
  ASSUME RendezvousInv, UNCHANGED vars
  PROVE  RendezvousInv'
<1> USE DEF vars
<1>1. RegistryInv'
  BY StutterInv DEF RendezvousInv, regvars
<1>2. \A c : (Announced(c)' <=> Announced(c))
             /\ (InvalidationComing(c)' <=> InvalidationComing(c))
  BY DEF Announced, InvalidationComing
<1>3. TypeOK'
  BY <1>1 DEF RendezvousInv, TypeOK, RegistryInv
<1>4. ClaimRegistered' /\ InfosHeld' /\ InfoCounted'
  BY DEF RendezvousInv, ClaimRegistered, InfosHeld, InfoCounted, InfoSentOnce, Registered
<1>5. IdentityHeldOnce' /\ ExitIsExclusive' /\ OnePairPerRequest'
  BY <1>2 DEF RendezvousInv, IdentityHeldOnce, ExitIsExclusive, OnePairPerRequest
<1>6. PairsOfLiveSessions'
  BY <1>2 DEF RendezvousInv, PairsOfLiveSessions, PartyLive
<1> QED BY <1>1, <1>3, <1>4, <1>5, <1>6 DEF RendezvousInv

\* The inductive invariant holds in every reachable state.
THEOREM RendezvousInvariance == Spec => []RendezvousInv
<1>1. Init => RendezvousInv
  BY RendezvousInvInit
<1>2. RendezvousInv /\ [Next]_vars => RendezvousInv'
  <2> SUFFICES ASSUME RendezvousInv, Next
               PROVE  RendezvousInv'
    BY RendezvousStutter
  <2>1. TypeOK' /\ RegistryInv'
    BY NextType, NextRegistry DEF RendezvousInv
  <2>2. LiveInv'
    BY NextLive DEF RendezvousInv, LiveInv
  <2>3. InfosHeld' /\ InfoCounted'
    BY NextInfo DEF RendezvousInv
  <2>4. ExitIsExclusive' /\ OnePairPerRequest'
    BY NextKept, ExclusiveKept, ConnectExclusive DEF RendezvousInv
  <2> QED BY <2>1, <2>2, <2>3, <2>4 DEF RendezvousInv, LiveInv
<1> QED BY <1>1, <1>2, PTL DEF Spec

\* Every variable of the rendezvous keeps its type.
THEOREM RendezvousTypeCorrect == Spec => []TypeOK
<1>1. RendezvousInv => TypeOK
  BY DEF RendezvousInv
<1> QED BY <1>1, RendezvousInvariance, PTL

\* peer_connect and invalidate_pairs: however sessions reconnect, end and displace
\* each other, each party of a pair is the session it was formed with, or an
\* invalidation of its client id is on its way.
THEOREM PairsLive == Spec => []PairsOfLiveSessions
<1>1. RendezvousInv => PairsOfLiveSessions
  BY DEF RendezvousInv
<1> QED BY <1>1, RendezvousInvariance, PTL

\* peer_connect: two consumers racing for an exit never both pair with it.
THEOREM ExitExclusive == Spec => []ExitIsExclusive
<1>1. RendezvousInv => ExitIsExclusive
  BY DEF RendezvousInv
<1> QED BY <1>1, RendezvousInvariance, PTL

\* peer_connect: a consumer that asks again replaces its pair.
THEOREM OnePairEach == Spec => []OnePairPerRequest
<1>1. RendezvousInv => OnePairPerRequest
  BY DEF RendezvousInv
<1> QED BY <1>1, RendezvousInvariance, PTL

\* record_peer_claim: two live sessions never hold one identity.
THEOREM IdentityUnique == Spec => []IdentityHeldOnce
<1>1. RendezvousInv => IdentityHeldOnce
  BY DEF RendezvousInv
<1> QED BY <1>1, RendezvousInvariance, PTL

\* finish_pair: whichever of the reader, the last probe and the deadline reach it,
\* and in whatever order, each party is sent at most one PeerInfo for a pair.
THEOREM OneInfoEach == Spec => []InfoSentOnce
<1>1. RendezvousInv => InfoSentOnce
  BY DEF RendezvousInv, InfoCounted
<1> QED BY <1>1, RendezvousInvariance, PTL

-----------------------------------------------------------------------------
(* Handlers, and the ids they have to forget. *)

\* A reader inside a handler is serving, and ids of removed pairs wait only for a reader that goes on
\* to forget them.
HandlersHeld ==
    \A s \in Session :
        /\ rest[s].op # "none" => task[s] = "serving"
        /\ dropping[s] # {} => rest[s].op = "drop" \/ task[s] = "forget"

\* A reader goes on with a handler that has no ids to forget.
LEMMA ReaderMoves ==
  ASSUME TypeOK, HandlersHeld, NEW s \in Session, NEW r,
         task[s] = "serving", rest[s].op # "drop",
         rest' = [rest EXCEPT ![s] = r], task' = task, dropping' = dropping
  PROVE  HandlersHeld'
  BY DEF HandlersHeld, TypeOK

\* The frames a reader takes.
LEMMA FrameHeld ==
  ASSUME TypeOK, HandlersHeld, NEW s \in Session, FrameStep(s)
  PROVE  HandlersHeld'
<1>1. /\ Dispatch(s) /\ task' = task /\ dropping' = dropping
      /\ \E r : rest' = [rest EXCEPT ![s] = r]
  <2>1. CASE \E cl \in Announces[Owner[s]] : PeerProof(s, cl)
    BY <2>1 DEF PeerProof, Return, Continue, regvars
  <2>2. CASE \E i \in Identity, w \in Bits : PeerConnect(s, i, w)
    BY <2>2 DEF PeerConnect, Return, Continue, regvars
  <2>3. ASSUME NEW p \in DOMAIN pairs, NEW q \in Party, NEW st \in Reports,
               PeerPath(s, p, q, st)
        PROVE  /\ Dispatch(s) /\ task' = task /\ dropping' = dropping
               /\ rest' = [rest EXCEPT ![s] = Idle]
    BY <2>3 DEF PeerPath, Return, regvars
  <2> QED BY <2>1, <2>2, <2>3 DEF FrameStep
<1>2. task[s] = "serving" /\ rest[s].op # "drop"
  BY SMT, <1>1 DEF Dispatch, Idle
<1> QED BY <1>1, <1>2, ReaderMoves

\* A handler or a teardown goes on.
LEMMA TaskHeld ==
  ASSUME TypeOK, HandlersHeld, NEW s \in Session, TaskStep(s)
  PROVE  HandlersHeld'
<1>1. ASSUME NEW c \in Client, Displace(s, c)
      PROVE  HandlersHeld'
  <2>1. /\ task' = task /\ rest[s].op = "displace"
        /\ \A t \in Session \ {s} : rest'[t] = rest[t] /\ dropping'[t] = dropping[t]
        /\ rest'[s].op = "drop"
    BY <1>1 DEF Displace, Continue, TypeOK, regvars
  <2> QED BY <2>1 DEF HandlersHeld
<1>2. CASE DisplaceForget(s)
  <2>1. /\ task' = task /\ rest[s].op = "drop" /\ dropping'[s] = {}
        /\ \A t \in Session \ {s} : rest'[t] = rest[t] /\ dropping'[t] = dropping[t]
    BY <1>2 DEF DisplaceForget, Return, Continue, TypeOK, regvars
  <2> QED BY <2>1 DEF HandlersHeld
<1>3. CASE StartPairProbes(s) \/ ReaderFinish(s)
  <2>1. /\ task' = task /\ dropping' = dropping /\ rest[s].op \in {"probes", "finish"}
        /\ \E r : rest' = [rest EXCEPT ![s] = r]
    BY <1>3 DEF StartPairProbes, ReaderFinish, Return, Continue, regvars
  <2>2. task[s] = "serving"
    BY <2>1 DEF HandlersHeld
  <2> QED BY <2>1, <2>2, ReaderMoves
<1>4. CASE CancelAndRevoke(s)
  <2>1. /\ rest' = rest /\ dropping' = dropping /\ task[s] \in {"cancel", "revoke"}
        /\ \A t \in Session \ {s} : task'[t] = task[t]
    BY <1>4 DEF CancelAndRevoke, Cancel, Revoke, Untouched, TypeOK, RegistryTypeOK
  <2> QED BY <2>1 DEF HandlersHeld
<1>5. CASE InvalidatePairs(s)
  <2>1. /\ rest' = rest /\ task[s] = "invalidate" /\ task'[s] = "forget"
        /\ \A t \in Session \ {s} : task'[t] = task[t] /\ dropping'[t] = dropping[t]
    BY <1>5 DEF InvalidatePairs, Invalidate, TypeOK, RegistryTypeOK
  <2> QED BY <2>1 DEF HandlersHeld
<1>6. CASE ForgetPairIds(s)
  <2>1. /\ rest' = rest /\ task[s] = "forget" /\ dropping'[s] = {}
        /\ \A t \in Session \ {s} : task'[t] = task[t] /\ dropping'[t] = dropping[t]
    BY <1>6 DEF ForgetPairIds, Forget, TypeOK, RegistryTypeOK
  <2> QED BY <2>1 DEF HandlersHeld
<1> QED BY <1>1, <1>2, <1>3, <1>4, <1>5, <1>6 DEF TaskStep

\* Every step keeps the handlers apart from each other and from the teardown.
LEMMA NextHeld ==
  ASSUME TypeOK, InfosHeld, HandlersHeld, Next
  PROVE  HandlersHeld'
<1>1. ASSUME NEW s \in Session, Register(s)
      PROVE  HandlersHeld'
  <2>1. /\ rest' = rest /\ dropping' = dropping /\ task[s] = "fresh"
        /\ \A t \in Session \ {s} : task'[t] = task[t]
    BY <1>1 DEF Register, Hello, Untouched, TypeOK, RegistryTypeOK
  <2> QED BY <2>1 DEF HandlersHeld
<1>2. ASSUME NEW s \in Session, End(s)
      PROVE  HandlersHeld'
  <2>1. /\ rest' = rest /\ dropping' = dropping /\ task[s] = "serving" /\ rest[s].op = "none"
        /\ \A t \in Session \ {s} : task'[t] = task[t]
    BY SMT, <1>2 DEF End, Idle, Unregister, Untouched, TypeOK, RegistryTypeOK
  <2> QED BY <2>1 DEF HandlersHeld
<1>3. ASSUME NEW i \in infos, SendInfo(i)
      PROVE  HandlersHeld'
  <2>1. /\ task' = task /\ dropping' = dropping /\ i.by \in Session \cup {NoSession}
        /\ i.by = NoSession => rest' = rest
        /\ i.by # NoSession => rest' = [rest EXCEPT ![i.by] = Idle]
    BY <1>3 DEF SendInfo, Return, TypeOK, regvars
  <2>2. i.by # NoSession => rest[i.by].op = "send"
    BY DEF InfosHeld
  <2>3. CASE i.by = NoSession
    BY <2>1, <2>3 DEF HandlersHeld
  <2>4. CASE i.by # NoSession
    <3>1. i.by \in Session /\ task[i.by] = "serving" /\ rest[i.by].op # "drop"
      BY <2>1, <2>2, <2>4 DEF HandlersHeld
    <3> QED BY <2>1, <2>4, <3>1, ReaderMoves
  <2> QED BY <2>3, <2>4
<1>4. ASSUME task' = task, rest' = rest, dropping' = dropping
      PROVE  HandlersHeld'
  BY <1>4 DEF HandlersHeld
<1>5. CASE ClaimStep
  BY <1>4, <1>5 DEF ClaimStep, TakeProbe, TakeRelayLeg, regvars
<1>6. CASE StreamStep
  BY <1>3, <1>4, <1>6 DEF StreamStep, SettleProbe, ProbeFinish, ParkRelayLeg, EndRelay,
     Sweep, regvars
<1>7. CASE \E p \in DOMAIN pairs : TimerStep(p)
  BY <1>4, <1>7 DEF TimerStep, PairDeadline, ReapUnclaimedRelay, regvars
<1> QED BY <1>1, <1>2, <1>5, <1>6, <1>7, FrameHeld, TaskHeld DEF Next

-----------------------------------------------------------------------------
(* What a step does to the ids of the pairs it removes. *)

\* An id that stays outstanding is still to be forgotten if it was, or if its pair goes.
IdsForgotten ==
    \A i \in DOMAIN probes' \cup DOMAIN relay_legs' :
        (i \in Forgetting \/ \E p \in DOMAIN pairs \ DOMAIN pairs' : i \in PairIds(pairs[p]))
            => i \in Forgetting'

\* invalidate_pairs hands the ids to the reader that removed the pairs.
LEMMA InvalidateForgets ==
  ASSUME TypeOK, HandlersHeld, NEW s \in Session,
         InvalidatePairs(s) \/ \E c \in Client : Displace(s, c)
  PROVE  IdsForgotten
<1>1. dropping[s] = {}
  <2>1. CASE InvalidatePairs(s)
    BY <2>1 DEF InvalidatePairs, Invalidate, HandlersHeld
  <2>2. CASE \E c \in Client : Displace(s, c)
    BY <2>2 DEF Displace, HandlersHeld
  <2> QED BY <2>1, <2>2
<1>2. PICK c : /\ pairs' = Without(pairs, PairsOf(c))
               /\ dropping' = [dropping EXCEPT ![s] = IdsOf(PairsOf(c))]
               /\ sweeping' = sweeping
  BY DEF InvalidatePairs, Displace
<1>3. DOMAIN pairs \ DOMAIN pairs' = PairsOf(c)
  BY <1>2 DEF Without, PairsOf
<1>4. dropping'[s] = IdsOf(PairsOf(c)) /\ \A t \in Session \ {s} : dropping'[t] = dropping[t]
  BY <1>2 DEF TypeOK
<1>5. \A p \in PairsOf(c) : PairIds(pairs[p]) \subseteq dropping'[s]
  BY <1>4 DEF IdsOf
<1>6. \A i : i \in Forgetting => i \in Forgetting'
  BY <1>1, <1>2, <1>4 DEF Forgetting
<1>7. \A i \in dropping'[s] : i \in Forgetting'
  BY DEF Forgetting
<1> QED BY <1>3, <1>5, <1>6, <1>7 DEF IdsForgotten

\* A reader forgets the ids it holds, or a sweep its own.
LEMMA ForgetForgets ==
  ASSUME TypeOK,
         \/ \E s \in Session : ForgetPairIds(s) \/ DisplaceForget(s)
         \/ \E ids \in sweeping : Sweep(ids)
  PROVE  IdsForgotten
<1>1. ASSUME NEW ids, ForgetIds(ids)
      PROVE  \A i \in DOMAIN probes' \cup DOMAIN relay_legs' : i \notin ids
  BY <1>1 DEF ForgetIds, Without
<1>2. ASSUME NEW s \in Session, ForgetPairIds(s) \/ DisplaceForget(s)
      PROVE  IdsForgotten
  <2>1. /\ ForgetIds(dropping[s]) /\ pairs' = pairs /\ sweeping' = sweeping
        /\ \A t \in Session \ {s} : dropping'[t] = dropping[t]
    BY <1>2 DEF ForgetPairIds, DisplaceForget, TypeOK
  <2>2. \A i \in Forgetting : i \in dropping[s] \/ i \in Forgetting'
    BY <2>1 DEF Forgetting
  <2>3. \A i \in DOMAIN probes' \cup DOMAIN relay_legs' : i \notin dropping[s]
    BY <1>1, <2>1
  <2>4. DOMAIN pairs \ DOMAIN pairs' = {}
    BY <2>1
  <2> QED BY <2>2, <2>3, <2>4 DEF IdsForgotten
<1>3. ASSUME NEW ids \in sweeping, Sweep(ids)
      PROVE  IdsForgotten
  <2>1. /\ ForgetIds(ids) /\ pairs' = pairs /\ dropping' = dropping
        /\ sweeping' = sweeping \ {ids}
    BY <1>3 DEF Sweep
  <2> QED BY <1>1, <2>1 DEF IdsForgotten, Forgetting
<1> QED BY <1>2, <1>3

\* A task that is not a reader removes a pair.
LEMMA RemoveForgets ==
  ASSUME TypeOK,
         \/ \E p \in DOMAIN pairs : ReapUnclaimedRelay(p)
         \/ \E x \in splices : EndRelay(x)
  PROVE  IdsForgotten
<1>1. dropping' = dropping
  BY DEF ReapUnclaimedRelay, EndRelay
<1>2. ASSUME NEW p \in DOMAIN pairs, RemovePair(p)
      PROVE  IdsForgotten
  <2>1. DOMAIN pairs \ DOMAIN pairs' = {p}
    BY <1>2 DEF RemovePair, Without
  <2>2. sweeping' = sweeping \cup {PairIds(pairs[p])}
    BY <1>2 DEF RemovePair
  <2>3. PairIds(pairs[p]) \in sweeping' /\ \A ids \in sweeping : ids \in sweeping'
    BY <2>2
  <2>4. \A ids \in sweeping' : \A i \in ids : i \in Forgetting'
    BY DEF Forgetting
  <2>5. \A i \in Forgetting : i \in Forgetting'
    BY <1>1, <2>3 DEF Forgetting
  <2> QED BY <2>1, <2>3, <2>4, <2>5 DEF IdsForgotten
<1>3. ASSUME pairs' = pairs, sweeping' = sweeping
      PROVE  IdsForgotten
  BY <1>1, <1>3 DEF IdsForgotten, Forgetting
<1> QED BY <1>2, <1>3 DEF ReapUnclaimedRelay, EndRelay

\* peer_connect forgets the ids of the pair it replaces in the same step.
LEMMA ConnectForgets ==
  ASSUME TypeOK, NEW s \in Session, NEW i \in Identity, NEW w \in Bits,
         PeerConnect(s, i, w)
  PROVE  IdsForgotten
<1> DEFINE c == Owner[s]
<1>1. PICK d \in Client :
        /\ ForgetIds(IdsOf(Prior(c, d, w)))
        /\ \/ pairs' = Without(pairs, Prior(c, d, w))
           \/ pairs' = Add(Without(pairs, Prior(c, d, w)), next_id, NewPair(c, d, w))
  BY DEF PeerConnect
<1>2. DOMAIN pairs \ DOMAIN pairs' \subseteq Prior(c, d, w)
  BY <1>1 DEF Without, Add
<1>3. \A j \in DOMAIN probes' \cup DOMAIN relay_legs' : j \notin IdsOf(Prior(c, d, w))
  BY <1>1 DEF ForgetIds, Without
<1>4. \A p \in Prior(c, d, w) : PairIds(pairs[p]) \subseteq IdsOf(Prior(c, d, w))
  BY DEF IdsOf
<1>5. dropping' = dropping /\ sweeping' = sweeping
  BY DEF PeerConnect
<1> QED BY <1>2, <1>3, <1>4, <1>5 DEF IdsForgotten, Forgetting

\* No step lets an id outlive its pair untended.
LEMMA NextForgets ==
  ASSUME TypeOK, HandlersHeld, Next
  PROVE  IdsForgotten
<1>1. ASSUME dropping' = dropping, sweeping' = sweeping, DOMAIN pairs' = DOMAIN pairs
      PROVE  IdsForgotten
  BY <1>1 DEF IdsForgotten, Forgetting
<1>2. ASSUME NEW s \in Session, FrameStep(s)
      PROVE  IdsForgotten
  <2>1. CASE \E cl \in Announces[Owner[s]] : PeerProof(s, cl)
    BY <1>1, <2>1 DEF PeerProof
  <2>2. CASE \E i \in Identity, w \in Bits : PeerConnect(s, i, w)
    BY <2>2, ConnectForgets
  <2>3. ASSUME NEW p \in DOMAIN pairs, NEW q \in Party, NEW st \in Reports,
               PeerPath(s, p, q, st)
        PROVE  IdsForgotten
    BY <1>1, <2>3 DEF PeerPath
  <2> QED BY <1>2, <2>1, <2>2, <2>3 DEF FrameStep
<1>3. ASSUME NEW s \in Session, Register(s) \/ End(s) \/ CancelAndRevoke(s)
      PROVE  IdsForgotten
  BY <1>1, <1>3 DEF Register, End, CancelAndRevoke, Untouched
<1>4. ASSUME NEW s \in Session, StartPairProbes(s) \/ ReaderFinish(s)
      PROVE  IdsForgotten
  BY <1>1, <1>4 DEF StartPairProbes, ReaderFinish, Mark
<1>5. CASE ClaimStep
  BY <1>1, <1>5 DEF ClaimStep, TakeProbe, TakeRelayLeg
<1>6. CASE \/ \E x \in probing : SettleProbe(x)
           \/ \E p \in finishing : ProbeFinish(p)
           \/ \E i \in infos : SendInfo(i)
           \/ \E x \in parking : ParkRelayLeg(x)
           \/ \E p \in DOMAIN pairs : PairDeadline(p)
  BY <1>1, <1>6 DEF SettleProbe, ProbeFinish, SendInfo, ParkRelayLeg, PairDeadline, Mark
<1> QED BY <1>2, <1>3, <1>4, <1>5, <1>6, InvalidateForgets, ForgetForgets, RemoveForgets
       DEF Next, TaskStep, StreamStep, TimerStep
=============================================================================
