--------------------------- MODULE PeerPathProofs ---------------------------
(***************************************************************************)
(* The path between two peers, for every value of its constants: the punch *)
(* of one pair (Punch), and how the two ends of a pair settle on a path    *)
(* and keep the session on it (PeerPath).                                  *)
(***************************************************************************)
EXTENDS Punch, PeerPath, TLAPS

(***************************************************************************)
(* The punch of one pair, for any number of candidate paths, any limit on  *)
(* the sessions and any set of paths that drop the nomination: the two     *)
(* parties never bind different paths, whoever is bound has the handshake  *)
(* behind it, and the punch implements the outcome it promises the rest of *)
(* the pairing.                                                            *)
(*                                                                         *)
(* What makes the agreement inductive is a fact about the datagrams: the   *)
(* only nomination that can be on its way is of the path the initiator has *)
(* bound, and the initiator never leaves a path it has bound.              *)
(***************************************************************************)
\* A nomination on its way is of the path the initiator bound.
NominationIsBound == \A p \in arriving : p = outI

\* A bound path carries a finished handshake: the responder wrote message two
\* for the path the initiator bound, and has stored the one it bound itself.
BoundIsShaken ==
    /\ outI \in Path => outI \in written
    /\ outR \in Path => outR \in completed

\* The inductive invariant.
PunchInv ==
    /\ PunchTypeOK
    /\ targets \subseteq Path
    /\ NominationIsBound
    /\ BoundIsShaken
    /\ DirectIsNominated

-----------------------------------------------------------------------------
\* The punch starts with nothing sent, and on the relay when it has no target.
LEMMA PunchStarts ==
    ASSUME PunchAssumption, PunchInit
    PROVE  PunchInv /\ OutcomeBegins
<1>1. targets \subseteq Path
  BY DEF PunchInit, Targets
<1>2. outI \in {"trying", "relay"} /\ outI \notin Path /\ outR = outI
  BY DEF PunchInit, PunchAssumption
<1>3. PunchTypeOK
  <2>1. finished \in Seq(written)
    BY DEF PunchInit
  <2> QED
    BY <1>1, <1>2, <2>1 DEF PunchInit, PunchTypeOK
<1>4. NominationIsBound /\ BoundIsShaken /\ DirectIsNominated
  BY <1>2 DEF PunchInit, NominationIsBound, BoundIsShaken, DirectIsNominated
<1> QED
  BY <1>1, <1>2, <1>3, <1>4
  DEF PunchInv, OutcomeBegins, Promise!OutcomeInit

\* Message one, message two and the push into Finished move one handshake on
\* and leave both outcomes alone.
LEMMA RespondingKeeps ==
    ASSUME PunchInv, NEW p \in Path, Answer(p) \/ WriteTwo(p) \/ Push(p)
    PROVE  PunchInv' /\ UNCHANGED <<outI, outR>>
<1>1. UNCHANGED <<targets, finished, outI, outR, arriving, completed, polled>>
  BY DEF Answer, WriteTwo, Push, initiator
<1>2. /\ sessions' \subseteq targets /\ written' \subseteq sessions'
      /\ queue' \cup completed \subseteq written' /\ queue' \cap completed = {}
      /\ written \subseteq written'
  BY DEF Answer, WriteTwo, Push, initiator, PunchInv, PunchTypeOK
<1>3. finished \in Seq(written')
  <2>1. finished \in Seq(written)
    BY DEF PunchInv, PunchTypeOK
  <2> QED
    BY <1>2, <2>1
<1>4. PunchTypeOK'
  BY <1>1, <1>2, <1>3 DEF PunchInv, PunchTypeOK
<1>5. (NominationIsBound /\ BoundIsShaken /\ DirectIsNominated)'
  BY <1>1, <1>2
  DEF PunchInv, NominationIsBound, BoundIsShaken, DirectIsNominated
<1> QED
  BY <1>1, <1>4, <1>5 DEF PunchInv

\* Message two read by the initiator adds one handshake that the responder has
\* finished to the initiator's list.
LEMMA PunchReadTwoKeeps ==
    ASSUME PunchInv, NEW p \in Path, PunchReadTwo(p)
    PROVE  PunchInv' /\ UNCHANGED <<outI, outR>>
<1>1. UNCHANGED <<targets, arriving, sessions, written, queue, completed, polled,
                  outI, outR>>
  BY DEF PunchReadTwo, responder
<1>2. finished' \in Seq(written)
  <2>1. finished \in Seq(written) /\ p \in written
    BY DEF PunchInv, PunchTypeOK, PunchReadTwo
  <2>2. finished' = Append(finished, p)
    BY DEF PunchReadTwo
  <2> QED
    BY <2>1, <2>2
<1>3. PunchTypeOK'
  BY <1>1, <1>2 DEF PunchInv, PunchTypeOK
<1>4. (NominationIsBound /\ BoundIsShaken /\ DirectIsNominated)'
  BY <1>1 DEF PunchInv, NominationIsBound, BoundIsShaken, DirectIsNominated
<1> QED
  BY <1>1, <1>3, <1>4 DEF PunchInv

\* The initiator binds the first handshake that finished: one whose message two
\* was written, while the responder can be on no path yet.
LEMMA NominateKeeps ==
    ASSUME PunchAssumption, PunchInv, Nominate
    PROVE  PunchInv' /\ (\E p \in Path : Promise!Chooses(p))
<1>1. UNCHANGED <<targets, finished, arriving, sessions, written, queue, completed,
                  polled, outR>>
  BY DEF Nominate, responder
<1>2. outI = "trying" /\ outI' \in written /\ outI' \in Path
  <2>1. finished \in Seq(written) /\ finished # <<>>
    BY DEF PunchInv, PunchTypeOK, Nominate
  <2>2. Head(finished) \in written
    BY <2>1
  <2> QED
    BY <2>2 DEF Nominate, PunchInv, PunchTypeOK
<1>3. outI \notin Path
  BY <1>2 DEF PunchAssumption
<1>4. outR \notin Path /\ arriving = {}
  BY <1>3 DEF PunchInv, DirectIsNominated, NominationIsBound, PunchTypeOK
<1>5. PunchTypeOK'
  BY <1>1, <1>2 DEF PunchInv, PunchTypeOK
<1>6. (NominationIsBound /\ BoundIsShaken /\ DirectIsNominated)'
  BY <1>1, <1>2, <1>4
  DEF PunchInv, NominationIsBound, BoundIsShaken, DirectIsNominated
<1> QED
  BY <1>1, <1>2, <1>5, <1>6 DEF PunchInv, Promise!Chooses

\* A copy of the nomination that gets through is of the bound path.
LEMMA PunchKeepaliveKeeps ==
    ASSUME PunchInv, PunchKeepalive
    PROVE  PunchInv' /\ UNCHANGED <<outI, outR>>
<1>1. UNCHANGED <<targets, finished, sessions, written, queue, completed, polled,
                  outI, outR>>
  BY DEF PunchKeepalive, initiator, responder
<1>2. arriving' = arriving \cup {outI} /\ outI \in Path \ Deaf
  BY DEF PunchKeepalive
<1>3. PunchTypeOK'
  BY <1>1, <1>2 DEF PunchInv, PunchTypeOK
<1>4. (NominationIsBound /\ BoundIsShaken /\ DirectIsNominated)'
  BY <1>1, <1>2
  DEF PunchInv, NominationIsBound, BoundIsShaken, DirectIsNominated
<1> QED
  BY <1>1, <1>3, <1>4 DEF PunchInv

\* The responder's loop stores handshakes, polls and sleeps without settling.
LEMMA PunchLoopKeeps ==
    ASSUME PunchInv, PunchTake \/ Poll \/ Sleep
    PROVE  PunchInv' /\ UNCHANGED <<outI, outR>>
<1>1. UNCHANGED <<targets, finished, sessions, written, arriving, outI, outR>>
  BY DEF PunchTake, Poll, Sleep, initiator
<1>2. /\ queue' \cup completed' \subseteq written /\ queue' \cap completed' = {}
      /\ completed \subseteq completed' /\ polled' \in BOOLEAN
  BY DEF PunchTake, Poll, Sleep, PunchInv, PunchTypeOK
<1>3. PunchTypeOK'
  BY <1>1, <1>2 DEF PunchInv, PunchTypeOK
<1>4. (NominationIsBound /\ BoundIsShaken /\ DirectIsNominated)'
  BY <1>1, <1>2
  DEF PunchInv, NominationIsBound, BoundIsShaken, DirectIsNominated
<1> QED
  BY <1>1, <1>3, <1>4 DEF PunchInv

\* A keepalive that settles the responder puts it on the initiator's path; one
\* whose handshake is not stored yet is dropped and settles nothing.
LEMMA PunchHearKeeps ==
    ASSUME PunchInv, NEW p \in Path, PunchHear(p)
    PROVE  PunchInv' /\ (Promise!Follows \/ UNCHANGED <<outI, outR>>)
<1>1. UNCHANGED <<targets, finished, sessions, written, queue, completed, outI>>
  BY DEF PunchHear, initiator
<1>2. /\ outR = "trying" /\ p \in arriving /\ polled' = FALSE
      /\ arriving' = arriving \ {p}
      /\ outR' = IF p \in completed THEN p ELSE outR
  BY DEF PunchHear
<1>3. p = outI
  BY <1>2 DEF PunchInv, NominationIsBound
<1>4. PunchTypeOK'
  BY <1>1, <1>2 DEF PunchInv, PunchTypeOK
<1>5. (NominationIsBound /\ BoundIsShaken /\ DirectIsNominated)'
  BY <1>1, <1>2, <1>3
  DEF PunchInv, NominationIsBound, BoundIsShaken, DirectIsNominated
<1>6. Promise!Follows \/ UNCHANGED <<outI, outR>>
  BY <1>1, <1>2, <1>3 DEF Promise!Follows
<1> QED
  BY <1>1, <1>4, <1>5, <1>6 DEF PunchInv

\* A deadline takes a party that is still trying to the relay. The initiator's
\* cannot strand a responder on a path: no responder is on one before it.
LEMMA PunchGiveUpKeeps ==
    ASSUME PunchAssumption, PunchInv, PunchGiveUp
    PROVE  /\ PunchInv'
           /\ Promise!InitiatorRelays \/ Promise!ResponderRelays
<1>1. "trying" \notin Path /\ "relay" \notin Path
  BY DEF PunchAssumption
<1>2. UNCHANGED <<targets, finished, arriving, sessions, written, queue, completed,
                  polled>>
  BY DEF PunchGiveUp, initiator, responder
<1>3. Promise!InitiatorRelays \/ Promise!ResponderRelays
  BY DEF PunchGiveUp, initiator, responder, Promise!InitiatorRelays,
         Promise!ResponderRelays
<1>4. PunchTypeOK'
  BY <1>2, <1>3
  DEF PunchInv, PunchTypeOK, Promise!InitiatorRelays, Promise!ResponderRelays
<1>5. (NominationIsBound /\ BoundIsShaken /\ DirectIsNominated)'
  <2>1. CASE Promise!InitiatorRelays
    <3>1. arriving = {} /\ outR \notin Path
      BY <1>1, <2>1
      DEF PunchInv, PunchTypeOK, NominationIsBound, DirectIsNominated,
          Promise!InitiatorRelays
    <3> QED
      BY <1>1, <1>2, <2>1, <3>1
      DEF NominationIsBound, BoundIsShaken, DirectIsNominated,
          Promise!InitiatorRelays
  <2>2. CASE Promise!ResponderRelays
    BY <1>1, <1>2, <2>2
    DEF PunchInv, NominationIsBound, BoundIsShaken, DirectIsNominated,
        Promise!ResponderRelays
  <2> QED
    BY <1>3, <2>1, <2>2
<1> QED
  BY <1>2, <1>3, <1>4, <1>5 DEF PunchInv

\* Nothing moves once both have settled, and in a stuttering step.
LEMMA PunchStutterKeeps ==
    ASSUME PunchInv, UNCHANGED punchVars
    PROVE  PunchInv' /\ UNCHANGED <<outI, outR>>
  BY DEF PunchInv, PunchTypeOK, NominationIsBound, BoundIsShaken, DirectIsNominated,
         punchVars

\* Every step of the punch keeps the invariant and is a step of the promised
\* outcome, or none.
LEMMA PunchStepKeeps ==
    ASSUME PunchAssumption, PunchInv, [PunchNext]_punchVars
    PROVE  PunchInv' /\ OutcomeStep
<1>1. CASE Handshakes
  BY <1>1, RespondingKeeps, PunchReadTwoKeeps DEF Handshakes, OutcomeStep
<1>2. CASE Loop
  BY <1>2, PunchLoopKeeps, PunchHearKeeps DEF Loop, OutcomeStep, Promise!OutcomeNext
<1>3. CASE Nominate
  BY <1>3, NominateKeeps DEF OutcomeStep, Promise!OutcomeNext
<1>4. CASE PunchKeepalive
  BY <1>4, PunchKeepaliveKeeps DEF OutcomeStep
<1>5. CASE PunchGiveUp
  BY <1>5, PunchGiveUpKeeps DEF OutcomeStep, Promise!OutcomeNext
<1>6. CASE Ended \/ UNCHANGED punchVars
  BY <1>6, PunchStutterKeeps DEF OutcomeStep, Ended
<1> QED
  BY <1>1, <1>2, <1>3, <1>4, <1>5, <1>6 DEF PunchNext, InTime

-----------------------------------------------------------------------------
\* The invariant holds throughout a punch, in particular BoundIsShaken: neither
\* party binds a path before the handshake on it has finished on its side.
THEOREM PunchInvariance == PunchAssumption /\ PunchSpec => []PunchInv
<1> SUFFICES ASSUME PunchAssumption PROVE PunchSpec => []PunchInv
  OBVIOUS
<1>1. PunchInit => PunchInv
  BY PunchStarts
<1>2. PunchInv /\ [PunchNext]_punchVars => PunchInv'
  BY PunchStepKeeps
<1> QED
  BY <1>1, <1>2, PTL DEF PunchSpec

\* "Both ends bind the same path": a responder that is direct is on the path
\* the initiator bound, whatever is lost, late or out of order.
THEOREM PunchAgrees == PunchAssumption /\ PunchSpec => []DirectIsNominated
<1>1. PunchInv => DirectIsNominated
  BY DEF PunchInv
<1> QED
  BY <1>1, PunchInvariance, PTL

\* The punch implements PunchOutcome, which the settling of the pair's path is
\* built on: the initiator chooses once, the responder follows it or takes the
\* relay, and a party that has settled stays settled.
THEOREM PunchImplementsOutcome == PunchAssumption /\ PunchSpec => Promise!OutcomeSpec
<1> SUFFICES ASSUME PunchAssumption PROVE PunchSpec => Promise!OutcomeSpec
  OBVIOUS
<1>1. PunchInit => Promise!OutcomeInit
  BY PunchStarts DEF OutcomeBegins
<1>2. PunchInv /\ [PunchNext]_punchVars
        => [Promise!OutcomeNext]_(Promise!outcomes)
  BY PunchStepKeeps DEF OutcomeStep, Promise!outcomes
<1> QED
  BY <1>1, <1>2, PunchInvariance, PTL DEF PunchSpec, Promise!OutcomeSpec

-----------------------------------------------------------------------------
(***************************************************************************)
(* The path between two peers, for every set of candidate paths and every  *)
(* choice of the session's timers: the two ends of a pair come up on one   *)
(* path (settle_path under relay authority), a session that is up was      *)
(* admitted, and a live peer is given up only after PEER_MISSES keepalives *)
(* in a row were lost.                                                     *)
(***************************************************************************)
(* How the two ends settle on a path.                                      *)

\* A party in one of these stages will never again be on the direct path.
OffDirect == {"waiting", "leg", "upRelay", "over"}

\* Before the server opens the relay no relay open is in a control queue.
OpenIsRelay == ~relay => inbox \in [Party -> Seq({"info"})]

\* A relay that was reported, and so one that was opened, is behind a party
\* that has left the direct path for good.
ReportIsLeft == (relay \/ reports # {}) => \E x \in Party : settleStage[x] \in OffDirect

\* Once an end is up directly no report is on its way to the server either.
DirectIsQuiet == (\E x \in Party : settleStage[x] = "upDirect") => ~relay /\ reports = {}

\* The inductive invariant of the settling.
SettleInv ==
    /\ SettleTypeOK
    /\ OpenIsRelay /\ ReportIsLeft /\ DirectIsQuiet
    /\ OnePath

-----------------------------------------------------------------------------
\* The two roles of a pair are its two parties.
LEMMA PartyFacts ==
    ASSUME consumer \in Party
    PROVE  /\ provider \in Party /\ provider # consumer
           /\ \A x \in Party : x = consumer \/ x = provider
           /\ \A x \in Party : SettleOther(x) \in Party /\ SettleOther(x) # x
  BY DEF Party, provider, SettleOther

\* A step of the punch leaves both outcomes with their type.
LEMMA OutcomeTyped ==
    ASSUME SettleTypeOK, OutcomeNext
    PROVE  /\ outI' \in {"trying", "relay"} \cup Path
           /\ outR' \in {"trying", "relay"} \cup Path
  BY DEF SettleTypeOK, OutcomeNext, Chooses, Follows, InitiatorRelays,
         ResponderRelays

\* Reading a frame shortens one queue, and the frame was in it.
LEMMA TakeTyped ==
    ASSUME SettleTypeOK, OpenIsRelay, NEW x \in Party, NEW f, Reads(x, f), Take(x)
    PROVE  /\ inbox' \in [Party -> Seq({"info", "open"})]
           /\ ~relay => inbox' \in [Party -> Seq({"info"})]
           /\ f = "open" => relay
<1>1. /\ inbox \in [Party -> Seq({"info", "open"})]
      /\ ~relay => inbox \in [Party -> Seq({"info"})]
  BY DEF SettleTypeOK, OpenIsRelay
<1>2. inbox' = [inbox EXCEPT ![x] = Tail(inbox[x])]
  BY DEF Take
<1>3. inbox[x] # <<>> /\ Head(inbox[x]) = f
  BY DEF Reads
<1>4. inbox[x] \in Seq({"info", "open"}) /\ Tail(inbox[x]) \in Seq({"info", "open"})
  BY <1>1, <1>3
<1>5. ASSUME ~relay
      PROVE  Tail(inbox[x]) \in Seq({"info"}) /\ f = "info"
  <2>1. inbox[x] \in Seq({"info"})
    BY <1>1, <1>5
  <2> QED
    BY <1>3, <2>1
<1> QED
  BY <1>1, <1>2, <1>4, <1>5

\* A pair starts with nothing sent.
LEMMA SettleStarts == SettleInit => SettleInv
<1> SUFFICES ASSUME SettleInit PROVE SettleInv
  OBVIOUS
<1>1. inbox \in [Party -> Seq({"info"})] /\ inbox \in [Party -> Seq({"info", "open"})]
  BY DEF SettleInit
<1>2. SettleTypeOK
  BY <1>1 DEF SettleInit, SettleTypeOK
<1>3. OnePath
  BY PartyFacts DEF SettleInit, OnePath
<1> QED
  BY <1>1, <1>2, <1>3
  DEF SettleInit, SettleInv, OpenIsRelay, ReportIsLeft, DirectIsQuiet

\* PeerInfo goes out: only the queues change, and by no relay open.
LEMMA SendInfoKeeps == SettleInv /\ SendInfo => SettleInv'
<1> SUFFICES ASSUME SettleInv, SendInfo PROVE SettleInv'
  OBVIOUS
<1>1. UNCHANGED <<outI, outR, consumer, tcp, settleStage, reports, relay>>
  BY DEF SendInfo, pair
<1>2. informed' \subseteq Party
  BY DEF SendInfo, SettleInv, SettleTypeOK
<1>3. /\ inbox' \in [Party -> Seq({"info", "open"})]
      /\ ~relay => inbox' \in [Party -> Seq({"info"})]
  <2> DEFINE New == informed' \ informed
  <2>1. inbox' = [x \in Party |-> IF x \in New THEN Append(inbox[x], "info")
                                  ELSE inbox[x]]
    BY DEF SendInfo
  <2>2. ASSUME NEW x \in Party
        PROVE  /\ inbox[x] \in Seq({"info", "open"})
               /\ Append(inbox[x], "info") \in Seq({"info", "open"})
               /\ ~relay => /\ inbox[x] \in Seq({"info"})
                            /\ Append(inbox[x], "info") \in Seq({"info"})
    <3>1. /\ inbox[x] \in Seq({"info", "open"})
          /\ ~relay => inbox[x] \in Seq({"info"})
      BY DEF SettleInv, SettleTypeOK, OpenIsRelay
    <3>2. Append(inbox[x], "info") \in Seq({"info", "open"})
      BY <3>1
    <3>3. ~relay => Append(inbox[x], "info") \in Seq({"info"})
      BY <3>1
    <3> QED
      BY <3>1, <3>2, <3>3
  <2> HIDE DEF New
  <2> QED
    BY <2>1, <2>2
<1> QED
  BY <1>1, <1>2, <1>3
  DEF SettleInv, SettleTypeOK, OpenIsRelay, ReportIsLeft, DirectIsQuiet, OnePath,
      provider

\* The server handles a relay report: it opens the relay, and no end is up
\* directly then.
LEMMA PeerPathKeeps == ASSUME SettleInv, NEW x \in Party, PeerPath(x) PROVE SettleInv'
<1>1. UNCHANGED <<outI, outR, consumer, tcp, settleStage, informed>>
  BY DEF PeerPath, pair
<1>2. relay' = TRUE /\ reports' \subseteq reports /\ x \in reports
  BY DEF PeerPath
<1>3. inbox' \in [Party -> Seq({"info", "open"})]
  <2>1. ASSUME NEW y \in Party
        PROVE  inbox[y] \in Seq({"info", "open"})
               /\ Append(inbox[y], "open") \in Seq({"info", "open"})
    BY DEF SettleInv, SettleTypeOK
  <2> QED
    BY <2>1 DEF PeerPath
<1>4. SettleTypeOK'
  BY <1>1, <1>2, <1>3 DEF SettleInv, SettleTypeOK
<1>5. (OpenIsRelay /\ ReportIsLeft /\ DirectIsQuiet)'
  BY <1>1, <1>2 DEF SettleInv, OpenIsRelay, ReportIsLeft, DirectIsQuiet
<1> QED
  BY <1>1, <1>4, <1>5 DEF SettleInv, OnePath, provider

\* A step that moves one party within the settling, to the direct path or off
\* it, keeps the relay as it was and adds at most that party's report.
LEMMA MoveKeeps ==
    ASSUME SettleInv, SettleTypeOK',
           NEW x \in Party, NEW s,
           SettleMove(x, s), UNCHANGED <<consumer, relay>>,
           ~relay => inbox' \in [Party -> Seq({"info"})],
           settleStage[x] \in {"info", "punching", "waiting", "direct"},
           s \in {"punching", "waiting", "direct", "leg"},
           settleStage[x] \in OffDirect => s \in OffDirect,
           reports' # {} => reports # {} \/ s \in OffDirect,
           settleStage[x] = "direct" => relay
    PROVE  SettleInv'
<1>1. settleStage = [y \in Party |-> settleStage[y]] /\ consumer \in Party
  BY DEF SettleInv, SettleTypeOK
<1>2. settleStage' = [settleStage EXCEPT ![x] = s]
  BY DEF SettleMove
<1>3. /\ settleStage'[x] = s
      /\ \A y \in Party : y # x => settleStage'[y] = settleStage[y]
  BY <1>1, <1>2
<1>4. \A y \in Party : settleStage[y] \notin {"upDirect"} \/ (~relay /\ reports = {})
  BY DEF SettleInv, DirectIsQuiet
<1>5. ReportIsLeft'
  BY <1>3 DEF SettleInv, ReportIsLeft
<1>6. \A y \in Party : settleStage'[y] # "upDirect"
  <2>1. consumer' = consumer /\ provider' = provider
    BY DEF provider
  <2>2. \A y \in Party : settleStage[y] # "upDirect"
    <3> SUFFICES ASSUME NEW y \in Party, settleStage[y] = "upDirect" PROVE FALSE
      OBVIOUS
    <3>1. y # x /\ ~relay
      BY <1>4
    <3>2. (y = consumer /\ x = provider) \/ (y = provider /\ x = consumer)
      BY <1>1, <3>1, PartyFacts
    <3>3. settleStage[x] \in {"direct", "upDirect", "over"}
      BY <3>2 DEF SettleInv, OnePath
    <3> QED
      BY <3>1, <3>3
  <2> QED
    BY <1>3, <2>2
<1>7. OnePath'
  <2>1. consumer' = consumer /\ provider' = provider
    BY DEF provider
  <2>2. settleStage'[x] \notin {"upDirect", "upRelay"}
    BY <1>3
  <2>3. \A y \in Party : settleStage'[y] = "upRelay" => y # x /\ settleStage[y] = "upRelay"
    BY <1>3, <2>2
  <2>4. \A y \in Party : settleStage[y] = "upRelay" =>
           settleStage[consumer] \in {"leg", "upRelay", "over"}
           /\ settleStage[provider] \in {"leg", "upRelay", "over"}
    BY <1>1, PartyFacts DEF SettleInv, OnePath
  <2>5. \A y \in Party : settleStage'[y] # "upRelay"
    BY <1>1, <2>3, <2>4, PartyFacts
  <2> QED
    BY <1>1, <1>6, <2>1, <2>5, PartyFacts DEF OnePath
<1> QED
  BY <1>5, <1>6, <1>7 DEF SettleInv, OpenIsRelay, DirectIsQuiet

\* The candidates arrive.
LEMMA ReadInfoKeeps == ASSUME SettleInv, NEW x \in Party, ReadInfo(x) PROVE SettleInv'
<1>1. UNCHANGED <<outI, outR, consumer, tcp, informed, relay>>
  BY DEF ReadInfo, pair
<1>2. settleStage[x] = "info" /\ Reads(x, "info") /\ Take(x)
  BY DEF ReadInfo
<1>3. /\ inbox' \in [Party -> Seq({"info", "open"})]
      /\ ~relay => inbox' \in [Party -> Seq({"info"})]
  BY <1>2, TakeTyped DEF SettleInv
<1>4. reports' \subseteq Party
  BY DEF ReadInfo, ReportRelay, SettleInv, SettleTypeOK
<1>5. PICK s \in {"punching", "waiting"} :
         SettleMove(x, s) /\ (reports' # {} => reports # {} \/ s = "waiting")
  BY DEF ReadInfo
<1>6. SettleTypeOK'
  BY <1>1, <1>3, <1>4, <1>5 DEF SettleInv, SettleTypeOK, SettleMove
<1> QED
  BY <1>1, <1>2, <1>3, <1>5, <1>6, MoveKeeps DEF OffDirect

\* A relay open that comes too early is skipped.
LEMMA SkipOpenKeeps == ASSUME SettleInv, NEW x \in Party, SkipOpen(x) PROVE SettleInv'
<1>1. UNCHANGED <<outI, outR, consumer, tcp, settleStage, informed, reports, relay>>
  BY DEF SkipOpen, pair
<1>2. /\ inbox' \in [Party -> Seq({"info", "open"})]
      /\ ~relay => inbox' \in [Party -> Seq({"info"})]
  BY TakeTyped DEF SettleInv, SkipOpen
<1> QED
  BY <1>1, <1>2
  DEF SettleInv, SettleTypeOK, OpenIsRelay, ReportIsLeft, DirectIsQuiet, OnePath,
      provider

\* The punch ends, on a path or with the relay to report.
LEMMA PunchedKeeps ==
    ASSUME SettleInv, NEW x \in Party, Punched(x) \/ PunchedOut(x) PROVE SettleInv'
<1>1. UNCHANGED <<consumer, tcp, inbox, informed, relay>>
  BY DEF Punched, PunchedOut, pair
<1>2. settleStage[x] = "punching" /\ OutcomeNext
  BY DEF Punched, PunchedOut
<1>3. reports' \subseteq Party
  BY DEF Punched, PunchedOut, ReportRelay, SettleInv, SettleTypeOK
<1>4. PICK s \in {"direct", "waiting"} :
         SettleMove(x, s) /\ (reports' # {} => reports # {} \/ s = "waiting")
  BY DEF Punched, PunchedOut
<1>5. /\ outI' \in {"trying", "relay"} \cup Path
      /\ outR' \in {"trying", "relay"} \cup Path
  BY <1>2, OutcomeTyped DEF SettleInv
<1>6. SettleTypeOK'
  BY <1>1, <1>3, <1>4, <1>5 DEF SettleInv, SettleTypeOK, SettleMove
<1>7. ~relay => inbox' \in [Party -> Seq({"info"})]
  BY <1>1 DEF SettleInv, OpenIsRelay
<1> QED
  BY <1>1, <1>2, <1>4, <1>6, <1>7, MoveKeeps DEF OffDirect

\* The relay open takes an end off the punch, the wait or the direct path.
LEMMA OpenKeeps ==
    ASSUME SettleInv, NEW x \in Party,
           OpenWhilePunching(x) \/ OpenWhileWaiting(x) \/ OpenWhileDirect(x)
    PROVE  SettleInv'
<1>1. UNCHANGED <<consumer, tcp, informed, reports, relay>>
  BY DEF OpenWhilePunching, OpenWhileWaiting, OpenWhileDirect, pair
<1>2. /\ settleStage[x] \in {"punching", "waiting", "direct"}
      /\ Reads(x, "open") /\ Take(x) /\ SettleMove(x, "leg")
  BY DEF OpenWhilePunching, OpenWhileWaiting, OpenWhileDirect
<1>3. /\ inbox' \in [Party -> Seq({"info", "open"})]
      /\ ~relay => inbox' \in [Party -> Seq({"info"})]
      /\ relay
  BY <1>2, TakeTyped DEF SettleInv
<1>4. /\ outI' \in {"trying", "relay"} \cup Path
      /\ outR' \in {"trying", "relay"} \cup Path
  <2>1. OutcomeNext \/ UNCHANGED <<outI, outR>>
    BY DEF OpenWhilePunching, OpenWhileWaiting, OpenWhileDirect
  <2> QED
    BY <2>1, OutcomeTyped DEF SettleInv, SettleTypeOK
<1>5. SettleTypeOK'
  BY <1>1, <1>2, <1>3, <1>4 DEF SettleInv, SettleTypeOK, SettleMove
<1> QED
  BY <1>1, <1>2, <1>3, <1>5, MoveKeeps DEF OffDirect

\* An end comes up: the provider with its peer on the same path, the consumer
\* with the provider up on it.
LEMMA UpKeeps ==
    ASSUME SettleInv, NEW s \in {"direct", "leg"}, ProviderUp(s) \/ ConsumerUp(s)
    PROVE  SettleInv'
<1>1. UNCHANGED <<outI, outR, consumer, tcp, inbox, informed, reports, relay>>
  BY DEF ProviderUp, ConsumerUp, pair
<1>2. /\ consumer \in Party /\ provider \in Party /\ provider # consumer
      /\ \A x \in Party : x = consumer \/ x = provider
      /\ consumer' = consumer /\ provider' = provider
  BY <1>1, PartyFacts DEF SettleInv, SettleTypeOK, provider
<1>3. settleStage = [y \in Party |-> settleStage[y]]
  BY DEF SettleInv, SettleTypeOK
<1>4. \/ /\ settleStage[provider] = s /\ settleStage[consumer] = s
         /\ settleStage'[provider] = Up(s) /\ settleStage'[consumer] = s
      \/ /\ settleStage[consumer] = s /\ settleStage[provider] = Up(s)
         /\ settleStage'[consumer] = Up(s) /\ settleStage'[provider] = Up(s)
  BY <1>2, <1>3 DEF ProviderUp, ConsumerUp, SettleMove
<1>5. \E x \in Party : settleStage' = [settleStage EXCEPT ![x] = Up(s)]
  BY <1>2 DEF ProviderUp, ConsumerUp, SettleMove
<1>6. s = "leg" => relay
  BY <1>2, <1>4 DEF SettleInv, SettleTypeOK
<1>7. SettleTypeOK'
  BY <1>1, <1>5, <1>6 DEF SettleInv, SettleTypeOK, Up
<1>8. s = "direct" => ~relay /\ reports = {}
  <2> SUFFICES ASSUME s = "direct", relay \/ reports # {} PROVE FALSE
    OBVIOUS
  <2>1. PICK x \in Party : settleStage[x] \in OffDirect
    BY DEF SettleInv, ReportIsLeft
  <2>2. settleStage[provider] = "upDirect"
    BY <1>2, <1>4, <2>1 DEF OffDirect, Up
  <2> QED
    BY <1>2, <2>2 DEF SettleInv, DirectIsQuiet
<1>9. ReportIsLeft'
  <2>1. s = "leg" => settleStage'[provider] \in OffDirect
    BY <1>4 DEF OffDirect, Up
  <2> QED
    BY <1>1, <1>2, <1>8, <2>1 DEF ReportIsLeft
<1>10. DirectIsQuiet'
  <2>1. s = "leg" => \A x \in Party : settleStage'[x] # "upDirect"
    BY <1>2, <1>4 DEF Up
  <2> QED
    BY <1>1, <1>8, <2>1 DEF DirectIsQuiet
<1>11. OnePath'
  BY <1>2, <1>4 DEF OnePath, Up
<1> QED
  BY <1>1, <1>7, <1>9, <1>10, <1>11 DEF SettleInv, OpenIsRelay

\* An end fails or is dropped.
LEMMA FailKeeps == ASSUME SettleInv, NEW x \in Party, Fail(x) PROVE SettleInv'
<1>1. UNCHANGED <<outI, outR, consumer, tcp, inbox, informed, reports, relay>>
  BY DEF Fail, pair
<1>2. /\ consumer \in Party /\ provider \in Party /\ provider # consumer
      /\ consumer' = consumer /\ provider' = provider
  BY <1>1, PartyFacts DEF SettleInv, SettleTypeOK, provider
<1>3. settleStage' = [settleStage EXCEPT ![x] = "over"]
  BY DEF Fail, SettleMove
<1>4. settleStage = [y \in Party |-> settleStage[y]]
  BY DEF SettleInv, SettleTypeOK
<1>5. \A y \in Party : settleStage'[y] = IF y = x THEN "over" ELSE settleStage[y]
  BY <1>3, <1>4
<1>6. SettleTypeOK'
  BY <1>1, <1>3 DEF SettleInv, SettleTypeOK
<1>7. (ReportIsLeft /\ DirectIsQuiet)'
  BY <1>1, <1>5 DEF SettleInv, ReportIsLeft, DirectIsQuiet, OffDirect
<1>8. OnePath'
  BY <1>2, <1>5 DEF SettleInv, OnePath
<1> QED
  BY <1>1, <1>6, <1>7, <1>8 DEF SettleInv, OpenIsRelay

\* The invariant holds throughout.
THEOREM SettleInvariance == SettleSpec => []SettleInv
<1>1. SettleInv /\ [SettleNext]_settleVars => SettleInv'
  <2> SUFFICES ASSUME SettleInv, [SettleNext]_settleVars PROVE SettleInv'
    OBVIOUS
  <2>1. CASE SettleNext /\ ~UNCHANGED settleVars
    BY <2>1, SendInfoKeeps, PeerPathKeeps, ReadInfoKeeps, SkipOpenKeeps,
       PunchedKeeps, OpenKeeps, UpKeeps, FailKeeps
    DEF SettleNext, Settle, SettleEnded
  <2>2. CASE UNCHANGED settleVars
    BY <2>2
    DEF settleVars, pair, SettleInv, SettleTypeOK, OpenIsRelay, ReportIsLeft,
        DirectIsQuiet, OnePath, provider
  <2> QED
    BY <2>1, <2>2
<1> QED
  BY <1>1, SettleStarts, PTL DEF SettleSpec

\* Relay authority settles the pair: once an end is up on the direct path the
\* relay is not opened under it, and the two ends of a session are on one path.
THEOREM SettledOnOnePath == SettleSpec => [](DirectIsFinal /\ OnePath)
<1>1. SettleInv => DirectIsFinal /\ OnePath
  BY DEF SettleInv, DirectIsQuiet, DirectIsFinal
<1> QED
  BY <1>1, SettleInvariance, PTL
-----------------------------------------------------------------------------
(* The peer session.                                                       *)

Stage == {"listen", "one", "two", "three", "up", "refused", "over"}

\* The handshake so far: message three is sent under the same transcript only,
\* and neither end is ahead of what the other one must have sent.
Shaken ==
    /\ linkStage["consumer"] \in {"one", "three", "up", "over"}
    /\ linkStage["provider"] \in {"listen", "two", "up", "refused", "over"}
    /\ linkStage["consumer"] = "three" => terms.agreed
    /\ "three" \in frames => linkStage["consumer"] # "one"
    /\ linkStage["provider"] \in {"up", "refused"} => linkStage["consumer"] # "one"
    /\ linkStage["consumer"] = "up" => linkStage["provider"] \notin {"listen", "two"}

\* An end that is not up yet has heard nothing and sent nothing, and a provider
\* that is up was so for Patience at most while its consumer waits.
Unheard ==
    /\ \A x \in End : linkStage[x] \notin {"up", "over"} =>
          heard[x] = 0 /\ flight[LinkOther(x)] = {}
    /\ At("consumer", "three") /\ At("provider", "up") => heard["provider"] <= Patience

\* The keepalive on its way from an end that is up was sent when its interval
\* began, so there is one at most and it is as old as the interval.
FlightIsPhase == \A x \in End : At(x, "up") => flight[LinkOther(x)] \subseteq {phase[x]}

\* The keepalives an end was sent since it heard one: those that were lost, and
\* the one on its way.
Unread(x) == IF flight[x] = {} THEN missed[x] ELSE missed[x] + 1

\* The silence an end measures is accounted for by whole intervals of its peer,
\* each of them a keepalive not read, the interval begun, and the head start a
\* provider has on its consumer.
SilenceCounted ==
    \A x \in End : At(x, "up") /\ At(LinkOther(x), "up") =>
        heard[x] <= phase[LinkOther(x)] + Keepalive * Unread(x) + Patience

\* The inductive invariant of the session.
LinkInv ==
    /\ LinkTypeOK
    /\ UpIsAdmitted
    /\ Shaken /\ Unheard
    /\ FlightIsPhase /\ SilenceCounted

-----------------------------------------------------------------------------
\* The two ends.
LEMMA EndFacts ==
    /\ "consumer" \in End /\ "provider" \in End
    /\ LinkOther("consumer") = "provider" /\ LinkOther("provider") = "consumer"
    /\ \A x \in End : /\ LinkOther(x) \in End /\ LinkOther(x) # x
                      /\ LinkOther(LinkOther(x)) = x
                      /\ x = "consumer" \/ x = "provider"
  BY DEF End, LinkOther

\* The numbers a session counts with.
LEMMA LinkNumbers ==
    ASSUME SessionAssumption
    PROVE  /\ Keepalive \in Nat /\ Misses \in Nat /\ Delay \in Nat /\ Patience \in Nat
           /\ Delay + Patience < Keepalive /\ Keepalive > 0
           /\ Deadline \in Nat /\ Deadline = Keepalive * Misses + Keepalive
<1>1. /\ Keepalive \in Nat /\ Misses \in Nat /\ Delay \in Nat /\ Patience \in Nat
      /\ Delay + Patience < Keepalive /\ Keepalive > 0
  BY DEF SessionAssumption
<1>2. Keepalive * Misses \in Nat /\ Keepalive * (Misses + 1) = Keepalive * Misses + Keepalive
  BY <1>1
<1> QED
  BY <1>1, <1>2 DEF Deadline

\* Multiplying by an interval keeps the order.
LEMMA IntervalsOrdered ==
    ASSUME NEW k \in Nat, NEW a \in Nat, NEW b \in Nat, a <= b
    PROVE  k * a <= k * b
<1>1. PICK d \in Nat : b = a + d
  <2>1. b - a \in Nat /\ b = a + (b - a)
    OBVIOUS
  <2> QED
    BY <2>1
<1>2. k * (a + d) = k * a + k * d /\ k * a \in Nat /\ k * d \in Nat
  OBVIOUS
<1> QED
  BY <1>1, <1>2

\* What is counted has its type.
LEMMA UnreadTyped ==
    ASSUME SessionAssumption, LinkTypeOK, NEW x \in End
    PROVE  /\ Unread(x) \in Nat /\ missed[x] \in Nat
           /\ Keepalive * Unread(x) \in Nat
           /\ heard[x] \in Nat /\ phase[x] \in Nat /\ phase[x] <= Keepalive
           /\ flight[x] \subseteq 0..Delay
<1>1. Keepalive \in Nat /\ Misses \in Nat /\ Delay \in Nat /\ Deadline \in Nat
  BY LinkNumbers
<1>2. missed[x] \in 0..(Misses + 1) /\ heard[x] \in 0..Deadline /\ phase[x] \in 0..Keepalive
      /\ flight[x] \subseteq 0..Delay
  BY DEF LinkTypeOK
<1>3. missed[x] \in Nat /\ heard[x] \in Nat /\ phase[x] \in Nat /\ phase[x] <= Keepalive
  BY <1>1, <1>2
<1>4. Unread(x) \in Nat
  BY <1>3 DEF Unread
<1>5. Keepalive * Unread(x) \in Nat
  BY <1>1, <1>4
<1> QED
  BY <1>2, <1>3, <1>4, <1>5

\* The consumer starts with message one on its way.
LEMMA LinkStarts == SessionAssumption /\ LinkInit => LinkInv
<1> SUFFICES ASSUME SessionAssumption, LinkInit PROVE LinkInv
  OBVIOUS
<1>1. /\ Keepalive \in Nat /\ Misses \in Nat /\ Delay \in Nat /\ Patience \in Nat
      /\ Deadline \in Nat
  BY LinkNumbers
<1>2. linkStage["consumer"] = "one" /\ linkStage["provider"] = "listen"
  BY EndFacts DEF LinkInit
<1>3. LinkTypeOK
  <2>1. terms \in Terms /\ ready \in BOOLEAN
        /\ linkStage \in [End -> {"listen", "one", "two", "three", "up", "refused", "over"}]
    BY DEF LinkInit
  <2>2. /\ frames \subseteq {"one", "two", "three", "verdict"}
        /\ "three" \notin frames /\ "verdict" \notin frames
    BY DEF LinkInit
  <2>3. /\ 0 \in 0..Deadline /\ 0 \in 0..Keepalive /\ 0 \in 0..(Misses + 1)
    BY <1>1
  <2>4. /\ heard \in [End -> 0..Deadline] /\ phase \in [End -> 0..Keepalive]
        /\ flight \in [End -> SUBSET (0..Delay)] /\ missed \in [End -> 0..(Misses + 1)]
    BY <2>3 DEF LinkInit
  <2> QED
    BY <2>1, <2>2, <2>4 DEF LinkTypeOK
<1>4. UpIsAdmitted /\ Shaken
  BY <1>2 DEF LinkInit, UpIsAdmitted, Shaken, At
<1>5. \A x \in End : linkStage[x] # "up"
  BY <1>2, EndFacts
<1>6. Unheard /\ FlightIsPhase /\ SilenceCounted
  BY <1>2, <1>5, EndFacts DEF LinkInit, Unheard, FlightIsPhase, SilenceCounted, At
<1> QED
  BY <1>3, <1>4, <1>6 DEF LinkInv

\* A step that leaves the stages and the clocks alone.
LEMMA FramesStay ==
    ASSUME LinkInv, UNCHANGED <<terms, linkStage, ready, watch>>,
           frames' \subseteq {"one", "two", "three", "verdict"},
           "three" \in frames' => "three" \in frames \/ linkStage["consumer"] = "three",
           "verdict" \in frames' => "verdict" \in frames
                                 \/ linkStage["provider"] \in {"up", "refused"}
    PROVE  LinkInv'
<1>1. UNCHANGED <<terms, linkStage, ready, heard, phase, flight, missed>>
  BY DEF watch
<1>2. LinkTypeOK'
  BY <1>1 DEF LinkInv, LinkTypeOK, Shaken
<1>3. (UpIsAdmitted /\ Shaken)'
  BY <1>1 DEF LinkInv, UpIsAdmitted, Shaken, At
<1>4. (Unheard /\ FlightIsPhase /\ SilenceCounted)'
  BY <1>1 DEF LinkInv, Unheard, FlightIsPhase, SilenceCounted, Unread, At
<1> QED
  BY <1>2, <1>3, <1>4 DEF LinkInv

\* Losing, retrying and repeating a handshake frame changes only what is on its
\* way.
LEMMA FramesKeep ==
    ASSUME LinkInv,
           \/ \E x \in End : Retry(x) \/ Repeat(x)
           \/ ReadThreeAgain
           \/ \E m \in {"one", "two", "three", "verdict"} : Lose(m)
    PROVE  LinkInv'
<1>1. UNCHANGED <<terms, linkStage, ready, watch>>
  BY DEF Retry, Repeat, ReadThreeAgain, Lose
<1>2. \A x \in End : /\ LastSent(x) \subseteq {"one", "two", "three"}
                     /\ "three" \in LastSent(x) => linkStage["consumer"] = "three"
  <2> SUFFICES ASSUME NEW x \in End
               PROVE  /\ LastSent(x) \subseteq {"one", "two", "three"}
                      /\ "three" \in LastSent(x) => linkStage["consumer"] = "three"
    OBVIOUS
  <2>1. linkStage[x] = "three" => x = "consumer"
    BY EndFacts DEF LinkInv, Shaken
  <2>2. \/ LastSent(x) = {} \/ LastSent(x) = {"one"} \/ LastSent(x) = {"two"}
        \/ linkStage[x] = "three" /\ LastSent(x) = {"three"}
    BY DEF LastSent
  <2> QED
    BY <2>1, <2>2
<1>3. frames \subseteq {"one", "two", "three", "verdict"}
  BY DEF LinkInv, LinkTypeOK
<1>4. /\ frames' \subseteq {"one", "two", "three", "verdict"}
      /\ "three" \in frames' => "three" \in frames \/ linkStage["consumer"] = "three"
      /\ "verdict" \in frames' => "verdict" \in frames
                               \/ linkStage["provider"] \in {"up", "refused"}
  <2>1. CASE \E x \in End : Retry(x) \/ Repeat(x)
    <3>1. PICK x \in End : frames' = frames \cup LastSent(x)
      BY <2>1 DEF Retry, Repeat
    <3> QED
      BY <1>2, <1>3, <3>1
  <2>2. CASE ReadThreeAgain
    BY <1>3, <2>2 DEF ReadThreeAgain, Send
  <2>3. CASE \E m \in {"one", "two", "three", "verdict"} : Lose(m)
    BY <1>3, <2>3 DEF Lose
  <2> QED
    BY <2>1, <2>2, <2>3
<1> QED
  BY <1>1, <1>4, FramesStay

\* What a move of one end leaves of the stages.
LEMMA Moved ==
    ASSUME LinkTypeOK, NEW x \in End, NEW s, LinkMove(x, s)
    PROVE  /\ linkStage'[x] = s
           /\ \A y \in End : y # x => linkStage'[y] = linkStage[y]
           /\ s \in Stage => linkStage' \in [End -> Stage]
  BY DEF LinkTypeOK, LinkMove, Stage

\* An end stops: it gives up the handshake, reaps its peer or is dropped.
LEMMA OverKeeps ==
    ASSUME LinkInv, NEW x \in End, GiveUp(x) \/ Reap(x) \/ Leave(x) PROVE LinkInv'
<1>1. UNCHANGED <<terms, ready, frames, heard, phase, flight, missed>>
  BY DEF GiveUp, Reap, Leave, watch
<1>2. LinkMove(x, "over")
  BY DEF GiveUp, Reap, Leave
<1>3. /\ linkStage'[x] = "over"
      /\ \A y \in End : y # x => linkStage'[y] = linkStage[y]
      /\ linkStage' \in [End -> Stage]
  BY <1>2, Moved DEF LinkInv, Stage
<1>4. \A y \in End : linkStage'[y] # "over" => linkStage'[y] = linkStage[y]
  BY <1>3
<1>5. LinkTypeOK'
  BY <1>1, <1>3, <1>4, EndFacts DEF LinkInv, LinkTypeOK, Stage
<1>6. (UpIsAdmitted /\ Shaken)'
  BY <1>1, <1>3, EndFacts DEF LinkInv, UpIsAdmitted, Shaken, At
<1>7. Unheard'
  BY <1>1, <1>4, EndFacts DEF LinkInv, Unheard, At
<1>8. (FlightIsPhase /\ SilenceCounted)'
  BY <1>1, <1>4, EndFacts DEF LinkInv, FlightIsPhase, SilenceCounted, Unread, At
<1> QED
  BY <1>5, <1>6, <1>7, <1>8 DEF LinkInv

\* The provider answers message one.
LEMMA ReadOneKeeps == LinkInv /\ ReadOne => LinkInv'
<1> SUFFICES ASSUME LinkInv, ReadOne PROVE LinkInv'
  OBVIOUS
<1>1. UNCHANGED <<terms, ready, heard, phase, flight, missed>>
  BY DEF ReadOne, watch
<1>2. linkStage["provider"] = "listen" /\ frames' = frames \cup {"two"}
  BY DEF ReadOne, At, Send
<1>3. /\ linkStage'["provider"] = "two" /\ linkStage'["consumer"] = linkStage["consumer"]
      /\ linkStage' \in [End -> Stage]
  BY Moved, EndFacts DEF LinkInv, ReadOne, Stage
<1>4. linkStage["consumer"] # "up" /\ "verdict" \notin frames
  BY <1>2 DEF LinkInv, Shaken, LinkTypeOK
<1>5. LinkTypeOK'
  BY <1>1, <1>2, <1>3, <1>4 DEF LinkInv, LinkTypeOK, Stage
<1>6. (UpIsAdmitted /\ Shaken)'
  BY <1>1, <1>2, <1>3, <1>4 DEF LinkInv, UpIsAdmitted, Shaken, At
<1>7. Unheard'
  BY <1>1, <1>2, <1>3, EndFacts DEF LinkInv, Unheard, At
<1>8. \A x \in End : linkStage'[x] # "up"
  BY <1>3, <1>4, EndFacts
<1>9. (FlightIsPhase /\ SilenceCounted)'
  BY <1>8 DEF FlightIsPhase, SilenceCounted, At
<1> QED
  BY <1>5, <1>6, <1>7, <1>9 DEF LinkInv

\* The consumer reads message two and goes on under the same transcript only.
LEMMA ReadTwoKeeps == LinkInv /\ ReadTwo => LinkInv'
<1> SUFFICES ASSUME LinkInv, ReadTwo PROVE LinkInv'
  OBVIOUS
<1>1. UNCHANGED <<terms, ready, heard, phase, flight, missed>>
  BY DEF ReadTwo, watch
<1>2. linkStage["consumer"] = "one"
  BY DEF ReadTwo, At
<1>3. PICK s \in {"three", "over"} :
         /\ LinkMove("consumer", s)
         /\ s = "three" => terms.agreed
         /\ frames' \subseteq frames \cup {"three"} /\ ("three" \in frames' => "three" \in frames \/ s = "three")
  BY DEF ReadTwo, Send
<1>4. /\ linkStage'["consumer"] = s /\ linkStage'["provider"] = linkStage["provider"]
      /\ linkStage' \in [End -> Stage]
  BY <1>3, Moved, EndFacts DEF LinkInv, Stage
<1>5. linkStage["provider"] \notin {"up", "refused"} /\ "three" \notin frames
  BY <1>2 DEF LinkInv, Shaken
<1>6. LinkTypeOK'
  BY <1>1, <1>3, <1>4 DEF LinkInv, LinkTypeOK, Stage
<1>7. (UpIsAdmitted /\ Shaken)'
  BY <1>1, <1>3, <1>4, <1>5 DEF LinkInv, UpIsAdmitted, Shaken, At
<1>8. Unheard'
  BY <1>1, <1>2, <1>4, <1>5, EndFacts DEF LinkInv, Unheard, At
<1>9. \A x \in End : linkStage'[x] # "up"
  BY <1>4, <1>5, EndFacts
<1>10. (FlightIsPhase /\ SilenceCounted)'
  BY <1>9 DEF FlightIsPhase, SilenceCounted, At
<1> QED
  BY <1>6, <1>7, <1>8, <1>10 DEF LinkInv

\* The provider reads message three and decides.
LEMMA ReadThreeKeeps == SessionAssumption /\ LinkInv /\ ReadThree => LinkInv'
<1> SUFFICES ASSUME SessionAssumption, LinkInv, ReadThree PROVE LinkInv'
  OBVIOUS
<1>1. UNCHANGED <<terms, heard, phase, flight, missed>>
  BY DEF ReadThree, watch
<1>2. /\ linkStage["provider"] = "two" /\ "three" \in frames
      /\ frames' = frames \cup {"verdict"} /\ ready' = (terms.admits = "ready")
  BY DEF ReadThree, At, Send
<1>3. PICK s \in {"up", "refused"} : LinkMove("provider", s)
  BY DEF ReadThree
<1>4. /\ linkStage'["provider"] = s /\ linkStage'["consumer"] = linkStage["consumer"]
      /\ linkStage' \in [End -> Stage]
  BY <1>3, Moved, EndFacts DEF LinkInv, Stage
<1>5. linkStage["consumer"] \notin {"one", "up"} /\ terms.agreed
  BY <1>2 DEF LinkInv, Shaken, LinkTypeOK
<1>6. LinkTypeOK'
  BY <1>1, <1>2, <1>4, <1>5 DEF LinkInv, LinkTypeOK, Stage
<1>7. (UpIsAdmitted /\ Shaken)'
  BY <1>1, <1>2, <1>4, <1>5 DEF LinkInv, UpIsAdmitted, Shaken, At
<1>8. heard["provider"] = 0 /\ flight["consumer"] = {}
  BY <1>2, EndFacts DEF LinkInv, Unheard
<1>9. Unheard'
  <2>1. 0 <= Patience
    BY LinkNumbers
  <2> QED
    BY <1>1, <1>4, <1>8, <2>1, EndFacts DEF LinkInv, Unheard, At
<1>10. FlightIsPhase'
  BY <1>1, <1>4, <1>5, <1>8, EndFacts DEF FlightIsPhase, At
<1>11. SilenceCounted'
  BY <1>4, <1>5, EndFacts DEF SilenceCounted, At
<1> QED
  BY <1>6, <1>7, <1>9, <1>10, <1>11 DEF LinkInv

\* The consumer reads the verdict.
LEMMA ReadVerdictKeeps == SessionAssumption /\ LinkInv /\ ReadVerdict => LinkInv'
<1> SUFFICES ASSUME SessionAssumption, LinkInv, ReadVerdict PROVE LinkInv'
  OBVIOUS
<1>1. UNCHANGED <<terms, ready, heard, phase, flight, missed>>
  BY DEF ReadVerdict, watch
<1>2. linkStage["consumer"] = "three" /\ "verdict" \in frames /\ frames' = {}
  BY DEF ReadVerdict, At
<1>3. PICK s \in {"up", "over"} : LinkMove("consumer", s) /\ (s = "up" => ready)
  BY DEF ReadVerdict
<1>4. /\ linkStage'["consumer"] = s /\ linkStage'["provider"] = linkStage["provider"]
      /\ linkStage' \in [End -> Stage]
  BY <1>3, Moved, EndFacts DEF LinkInv, Stage
<1>5. linkStage["provider"] \notin {"listen", "two"}
  BY <1>2 DEF LinkInv, LinkTypeOK
<1>6. LinkTypeOK'
  BY <1>1, <1>2, <1>4 DEF LinkInv, LinkTypeOK, Stage
<1>7. (UpIsAdmitted /\ Shaken)'
  BY <1>1, <1>2, <1>3, <1>4, <1>5 DEF LinkInv, UpIsAdmitted, Shaken, At
<1>8. heard["consumer"] = 0 /\ flight["provider"] = {}
  BY <1>2, EndFacts DEF LinkInv, Unheard
<1>9. Unheard'
  BY <1>1, <1>4, EndFacts DEF LinkInv, Unheard, At
<1>10. FlightIsPhase'
  BY <1>1, <1>4, <1>8, EndFacts DEF LinkInv, FlightIsPhase, At
<1>11. SilenceCounted'
  <2> SUFFICES ASSUME linkStage["provider"] = "up"
               PROVE  \A x \in End :
                        heard[x] <= phase[LinkOther(x)] + Keepalive * Unread(x) + Patience
    BY <1>1, <1>4, EndFacts DEF SilenceCounted, Unread, At
  <2>1. heard["provider"] <= Patience
    BY <1>2 DEF LinkInv, Unheard, At
  <2>2. \A x \in End : heard[x] <= Patience /\ heard[x] \in Nat
    <3>1. 0 <= Patience
      BY LinkNumbers
    <3> QED
      BY <1>8, <2>1, <3>1, UnreadTyped, EndFacts DEF LinkInv
  <2>3. \A x \in End : phase[LinkOther(x)] \in Nat /\ Keepalive * Unread(x) \in Nat
    BY UnreadTyped, EndFacts DEF LinkInv
  <2> QED
    BY <2>2, <2>3, LinkNumbers
<1> QED
  BY <1>6, <1>7, <1>9, <1>10, <1>11 DEF LinkInv

\* A step of the running session leaves the stages and the handshake alone.
LEMMA ClocksKeep ==
    ASSUME LinkInv, UNCHANGED <<terms, linkStage, ready, frames>>,
           heard' \in [End -> 0..Deadline], phase' \in [End -> 0..Keepalive],
           flight' \in [End -> SUBSET (0..Delay)], missed' \in [End -> 0..(Misses + 1)],
           Unheard', FlightIsPhase', SilenceCounted'
    PROVE  LinkInv'
<1>1. LinkTypeOK'
  BY DEF LinkInv, LinkTypeOK
<1>2. (UpIsAdmitted /\ Shaken)'
  BY DEF LinkInv, UpIsAdmitted, Shaken, At
<1> QED
  BY <1>1, <1>2 DEF LinkInv

\* An interval ends with a keepalive sent: what its peer has not read grows by
\* one as the interval starts over.
LEMMA SendKeepaliveKeeps ==
    ASSUME SessionAssumption, LinkInv, NEW x \in End, SendKeepalive(x) PROVE LinkInv'
<1> DEFINE y == LinkOther(x)
<1>1. y \in End /\ y # x /\ LinkOther(y) = x /\ \A z \in End : z = x \/ z = y
  BY EndFacts
<1> HIDE DEF y
<1>2. /\ UNCHANGED <<terms, linkStage, ready, frames, heard, missed>>
      /\ linkStage[x] = "up" /\ phase[x] = Keepalive
      /\ phase' = [phase EXCEPT ![x] = 0]
      /\ flight' = [flight EXCEPT ![y] = flight[y] \cup {0}]
  BY DEF SendKeepalive, At, y
<1>3. /\ heard \in [End -> 0..Deadline] /\ phase \in [End -> 0..Keepalive]
      /\ flight \in [End -> SUBSET (0..Delay)] /\ missed \in [End -> 0..(Misses + 1)]
  BY DEF LinkInv, LinkTypeOK
<1>4. /\ Keepalive \in Nat /\ Delay \in Nat /\ Patience \in Nat /\ Delay < Keepalive
  BY LinkNumbers
<1>5. flight[y] = {}
  <2>1. flight[y] \subseteq {Keepalive} /\ flight[y] \subseteq 0..Delay
    BY <1>1, <1>2, <1>3 DEF LinkInv, FlightIsPhase, At, y
  <2>2. Keepalive \notin 0..Delay
    BY <1>4
  <2> QED
    BY <2>1, <2>2
<1>6. flight'[y] = {0} /\ flight'[x] = flight[x] /\ phase'[x] = 0 /\ phase'[y] = phase[y]
  BY <1>1, <1>2, <1>3, <1>5
<1>7. phase' \in [End -> 0..Keepalive] /\ flight' \in [End -> SUBSET (0..Delay)]
  <2>1. 0 \in 0..Keepalive /\ 0 \in 0..Delay
    BY <1>4
  <2> QED
    BY <1>1, <1>2, <1>3, <2>1
<1>8. Unheard'
  <2>1. \A z \in End : linkStage[z] \notin {"up", "over"} =>
           heard[z] = 0 /\ flight[LinkOther(z)] = {}
    BY DEF LinkInv, Unheard
  <2>2. \A z \in End : linkStage[z] \notin {"up", "over"} => z = y
    BY <1>1, <1>2
  <2>3. \A z \in End : linkStage[z] \notin {"up", "over"} =>
           heard[z] = 0 /\ flight'[LinkOther(z)] = {}
    BY <1>1, <1>6, <2>1, <2>2
  <2> QED
    BY <1>2, <2>3 DEF LinkInv, Unheard, At
<1>9. FlightIsPhase'
  <2>1. linkStage[y] = "up" => flight[x] \subseteq {phase[y]}
    BY <1>1 DEF LinkInv, FlightIsPhase, At
  <2>2. \A z \in End : linkStage[z] = "up" => flight'[LinkOther(z)] \subseteq {phase'[z]}
    BY <1>1, <1>6, <2>1 DEF y
  <2> QED
    BY <1>2, <2>2 DEF FlightIsPhase, At
<1>10. SilenceCounted'
  <2> SUFFICES ASSUME linkStage[y] = "up"
               PROVE  \A z \in End :
                        heard[z] <= phase'[LinkOther(z)] + Keepalive * Unread(z)' + Patience
    BY <1>1, <1>2 DEF SilenceCounted, At, y
  <2>1. \A z \in End : heard[z] <= phase[LinkOther(z)] + Keepalive * Unread(z) + Patience
    BY <1>1, <1>2 DEF LinkInv, SilenceCounted, At, y
  <2>2. Unread(y) = missed[y] /\ Unread(y)' = missed[y] + 1 /\ Unread(x)' = Unread(x)
    BY <1>2, <1>5, <1>6 DEF Unread
  <2>3. missed[y] \in Nat /\ heard[y] \in Nat
    BY <1>1, UnreadTyped DEF LinkInv
  <2>4. heard[y] <= Keepalive + Keepalive * missed[y] + Patience
    BY <1>1, <1>2, <2>1, <2>2
  <2>5. heard[y] <= 0 + Keepalive * (missed[y] + 1) + Patience
    <3>1. /\ Keepalive * (missed[y] + 1) = Keepalive * missed[y] + Keepalive
          /\ Keepalive * missed[y] \in Nat
      BY <1>4, <2>3
    <3> QED
      BY SMTT(30), <1>4, <2>3, <2>4, <3>1
  <2>6. heard[y] <= phase'[LinkOther(y)] + Keepalive * Unread(y)' + Patience
    BY <1>1, <1>6, <2>2, <2>5
  <2>7. heard[x] <= phase'[LinkOther(x)] + Keepalive * Unread(x)' + Patience
    BY <1>1, <1>6, <2>1, <2>2 DEF y
  <2> QED
    BY <1>1, <2>6, <2>7
<1> QED
  BY <1>2, <1>3, <1>7, <1>8, <1>9, <1>10, ClocksKeep

\* A keepalive leaves the path, read or lost: there was no other on it.
LEMMA ArrivalKeeps ==
    ASSUME SessionAssumption, LinkInv, NEW x \in End, NEW age \in flight[x],
           Hear(x, age) \/ Drop(x, age)
    PROVE  LinkInv'
<1> DEFINE y == LinkOther(x)
<1>1. y \in End /\ y # x /\ LinkOther(y) = x /\ \A z \in End : z = x \/ z = y
  BY EndFacts
<1> HIDE DEF y
<1>2. /\ UNCHANGED <<terms, linkStage, ready, frames, phase>>
      /\ flight' = [flight EXCEPT ![x] = flight[x] \ {age}]
  BY DEF Hear, Drop
<1>3. /\ heard \in [End -> 0..Deadline] /\ phase \in [End -> 0..Keepalive]
      /\ flight \in [End -> SUBSET (0..Delay)] /\ missed \in [End -> 0..(Misses + 1)]
  BY DEF LinkInv, LinkTypeOK
<1>4. /\ Keepalive \in Nat /\ Delay \in Nat /\ Patience \in Nat /\ Misses \in Nat
      /\ Deadline \in Nat
  BY LinkNumbers
<1>5. /\ flight' \in [End -> SUBSET (0..Delay)]
      /\ flight'[x] = flight[x] \ {age} /\ flight'[y] = flight[y]
  BY <1>1, <1>2, <1>3
<1>6. \/ /\ linkStage[x] = "up"
         /\ heard' = [heard EXCEPT ![x] = 0] /\ missed' = [missed EXCEPT ![x] = 0]
      \/ linkStage[x] # "up" /\ heard' = heard /\ missed' = missed
      \/ missed[x] <= Misses /\ heard' = heard /\ missed' = [missed EXCEPT ![x] = missed[x] + 1]
  BY DEF Hear, Drop, At
<1>7. heard' \in [End -> 0..Deadline] /\ missed' \in [End -> 0..(Misses + 1)]
  <2>1. 0 \in 0..Deadline /\ 0 \in 0..(Misses + 1)
    BY <1>4
  <2>2. missed[x] <= Misses => missed[x] + 1 \in 0..(Misses + 1)
    BY <1>3, <1>4
  <2> QED
    BY <1>3, <1>6, <2>1, <2>2
<1>8. \A z \in End : heard'[z] = heard[z] \/ heard'[z] = 0
  BY <1>3, <1>6
<1>9. \A z \in End : flight'[z] \subseteq flight[z]
  BY <1>1, <1>5
<1>10. Unheard'
  <2>1. \A z \in End : linkStage[z] \notin {"up", "over"} =>
           heard'[z] = 0 /\ flight'[LinkOther(z)] = {}
    BY SMTT(30), <1>8, <1>9, EndFacts DEF LinkInv, Unheard
  <2>2. 0 <= Patience
    BY <1>4
  <2>3. linkStage["consumer"] = "three" /\ linkStage["provider"] = "up" =>
           heard'["provider"] <= Patience
    BY <1>8, <2>2, EndFacts DEF LinkInv, Unheard, At
  <2> QED
    BY <1>2, <2>1, <2>3 DEF Unheard, At
<1>11. FlightIsPhase'
  BY <1>2, <1>9, EndFacts DEF LinkInv, FlightIsPhase, At
<1>12. SilenceCounted'
  <2> SUFFICES ASSUME linkStage[x] = "up", linkStage[y] = "up"
               PROVE  \A z \in End :
                        heard'[z] <= phase[LinkOther(z)] + Keepalive * Unread(z)' + Patience
    BY <1>1, <1>2 DEF SilenceCounted, At, y
  <2>1. \A z \in End : heard[z] <= phase[LinkOther(z)] + Keepalive * Unread(z) + Patience
    BY <1>1 DEF LinkInv, SilenceCounted, At, y
  <2>2. flight[x] = {age} /\ flight'[x] = {}
    <3>1. flight[x] \subseteq {phase[y]}
      BY <1>1 DEF LinkInv, FlightIsPhase, At
    <3> QED
      BY <1>5, <3>1
  <2>3. heard'[y] = heard[y] /\ missed'[y] = missed[y] /\ Unread(y)' = Unread(y)
    BY <1>1, <1>3, <1>5, <1>6 DEF Unread
  <2>4. heard'[x] <= phase[y] + Keepalive * Unread(x)' + Patience
    <3>1. phase[y] \in Nat /\ Unread(x) = missed[x] + 1 /\ Unread(x)' = missed'[x]
      BY <1>1, <1>4, <2>2, UnreadTyped DEF Unread, LinkInv
    <3>2. CASE heard'[x] = 0 /\ missed'[x] = 0
      <4>1. Keepalive * 0 = 0
        BY <1>4
      <4> QED
        BY SMTT(30), <1>4, <3>1, <3>2, <4>1
    <3>3. CASE heard'[x] = heard[x] /\ missed'[x] = missed[x] + 1
      BY <2>1, <3>1, <3>3 DEF y
    <3> QED
      BY <1>3, <1>6, <3>2, <3>3
  <2> QED
    BY <1>1, <2>1, <2>3, <2>4 DEF y
<1> QED
  BY <1>2, <1>3, <1>5, <1>7, <1>10, <1>11, <1>12, ClocksKeep

\* A tick ages the silence, the interval and the keepalive on its way alike.
LEMMA TickKeeps == SessionAssumption /\ LinkInv /\ Tick => LinkInv'
<1> SUFFICES ASSUME SessionAssumption, LinkInv, Tick PROVE LinkInv'
  OBVIOUS
<1>1. UNCHANGED <<terms, linkStage, ready, frames, missed>>
  BY DEF Tick
<1>2. /\ heard \in [End -> 0..Deadline] /\ phase \in [End -> 0..Keepalive]
      /\ flight \in [End -> SUBSET (0..Delay)] /\ missed \in [End -> 0..(Misses + 1)]
  BY DEF LinkInv, LinkTypeOK
<1>3. /\ Keepalive \in Nat /\ Delay \in Nat /\ Patience \in Nat /\ Misses \in Nat
      /\ Deadline \in Nat
  BY LinkNumbers
<1>4. /\ \A x \in End : linkStage[x] = "up" =>
            /\ heard[x] < Deadline /\ phase[x] < Keepalive
            /\ heard'[x] = heard[x] + 1 /\ phase'[x] = phase[x] + 1
      /\ \A x \in End : linkStage[x] # "up" => heard'[x] = heard[x] /\ phase'[x] = phase[x]
      /\ \A x \in End : flight'[x] = {age + 1 : age \in flight[x]}
      /\ \A x \in End : \A age \in flight[x] : age < Delay
  BY DEF Tick, At
<1>5. heard' \in [End -> 0..Deadline] /\ phase' \in [End -> 0..Keepalive]
  <2>1. \A x \in End : heard'[x] \in 0..Deadline /\ phase'[x] \in 0..Keepalive
    BY SMTT(30), <1>2, <1>3, <1>4
  <2>2. heard' = [x \in End |-> heard'[x]] /\ phase' = [x \in End |-> phase'[x]]
    BY DEF Tick
  <2> QED
    BY <2>1, <2>2
<1>6. flight' \in [End -> SUBSET (0..Delay)]
  <2>1. \A x \in End : \A age \in flight[x] : age + 1 \in 0..Delay
    BY SMTT(30), <1>2, <1>3, <1>4
  <2>2. \A x \in End : flight'[x] \in SUBSET (0..Delay)
    BY SMTT(30), <1>4, <2>1
  <2>3. flight' = [x \in End |-> flight'[x]]
    BY DEF Tick
  <2> QED
    BY <2>2, <2>3
<1>7. \A x \in End : flight'[x] = {} <=> flight[x] = {}
  BY SMTT(30), <1>4
<1>8. Unheard'
  <2>1. \A x \in End : linkStage[x] \notin {"up", "over"} =>
           heard'[x] = 0 /\ flight'[LinkOther(x)] = {}
    BY <1>4, <1>7, EndFacts DEF LinkInv, Unheard
  <2>2. linkStage["consumer"] = "three" /\ linkStage["provider"] = "up" =>
           heard'["provider"] <= Patience
    <3> SUFFICES ASSUME linkStage["consumer"] = "three", linkStage["provider"] = "up"
                 PROVE  heard'["provider"] <= Patience
      OBVIOUS
    <3>1. heard["provider"] < Patience /\ heard'["provider"] = heard["provider"] + 1
      BY <1>4, EndFacts DEF Tick, At
    <3>2. heard["provider"] \in Nat
      BY UnreadTyped, EndFacts DEF LinkInv
    <3> QED
      BY <1>3, <3>1, <3>2
  <2> QED
    BY <1>1, <2>1, <2>2 DEF Unheard, At
<1>9. FlightIsPhase'
  <2>1. ASSUME NEW x \in End, linkStage[x] = "up"
        PROVE  flight'[LinkOther(x)] \subseteq {phase'[x]}
    <3>1. flight[LinkOther(x)] \subseteq {phase[x]}
      BY <2>1 DEF LinkInv, FlightIsPhase, At
    <3> QED
      BY SMTT(30), <1>4, <2>1, <3>1, EndFacts
  <2> QED
    BY <1>1, <2>1 DEF FlightIsPhase, At
<1>10. SilenceCounted'
  <2>1. ASSUME NEW x \in End, linkStage[x] = "up", linkStage[LinkOther(x)] = "up"
        PROVE  heard'[x] <= phase'[LinkOther(x)] + Keepalive * Unread(x)' + Patience
    <3>1. heard[x] <= phase[LinkOther(x)] + Keepalive * Unread(x) + Patience
      BY <2>1 DEF LinkInv, SilenceCounted, At
    <3>2. Unread(x)' = Unread(x)
      BY <1>1, <1>7, <2>1 DEF Unread
    <3>3. heard'[x] = heard[x] + 1 /\ phase'[LinkOther(x)] = phase[LinkOther(x)] + 1
      BY <1>4, <2>1, EndFacts
    <3>4. heard[x] \in Nat /\ phase[LinkOther(x)] \in Nat /\ Keepalive * Unread(x) \in Nat
      BY UnreadTyped, EndFacts DEF LinkInv
    <3> DEFINE k == Keepalive * Unread(x)
    <3> HIDE DEF k
    <3>5. heard[x] + 1 <= phase[LinkOther(x)] + 1 + k + Patience
      BY <1>3, <3>1, <3>4 DEF k
    <3> QED
      BY <3>2, <3>3, <3>5 DEF k
  <2> QED
    BY <1>1, <2>1 DEF SilenceCounted, At
<1> QED
  BY <1>1, <1>2, <1>5, <1>6, <1>8, <1>9, <1>10, ClocksKeep

\* The invariant holds throughout a session.
THEOREM LinkInvariance == SessionAssumption /\ LinkSpec => []LinkInv
<1> SUFFICES ASSUME SessionAssumption PROVE LinkSpec => []LinkInv
  OBVIOUS
<1>1. LinkInv /\ [LinkNext]_linkVars => LinkInv'
  <2> SUFFICES ASSUME LinkInv, [LinkNext]_linkVars PROVE LinkInv'
    OBVIOUS
  <2>1. CASE Handshake
    BY <2>1, FramesKeep, ReadOneKeeps, ReadTwoKeeps, ReadThreeKeeps, ReadVerdictKeeps
    DEF Handshake
  <2>2. CASE Session
    BY <2>2, SendKeepaliveKeeps, OverKeeps, ArrivalKeeps, TickKeeps DEF Session
  <2>3. CASE \E x \in End : GiveUp(x)
    BY <2>3, OverKeeps
  <2>4. CASE LinkEnded \/ UNCHANGED linkVars
    <3>1. UNCHANGED <<terms, linkStage, ready, frames, watch>>
      BY <2>4 DEF LinkEnded, linkVars, watch
    <3> QED
      BY <3>1, FramesStay DEF LinkInv, LinkTypeOK
  <2> QED
    BY <2>1, <2>2, <2>3, <2>4 DEF LinkNext
<1> QED
  BY <1>1, LinkStarts, PTL DEF LinkSpec

\* A session that is up was admitted by its provider under the transcript both
\* ends share, whatever was lost, repeated or reordered.
THEOREM SessionsAreAdmitted == SessionAssumption /\ LinkSpec => []UpIsAdmitted
<1>1. LinkInv => UpIsAdmitted
  BY DEF LinkInv
<1> QED
  BY <1>1, LinkInvariance, PTL

\* An end whose deadline has passed with its peer still up has lost PEER_MISSES
\* keepalives in a row.
LEMMA SilenceIsLoss ==
    ASSUME SessionAssumption, LinkInv, NEW x \in End, At(x, "up"),
           At(LinkOther(x), "up"), heard[x] >= Deadline
    PROVE  missed[x] >= Misses
<1> DEFINE y == LinkOther(x)
           m == missed[x]
<1>1. y \in End /\ LinkOther(y) = x
  BY EndFacts
<1>2. /\ heard[x] \in Nat /\ phase[y] \in Nat /\ phase[y] <= Keepalive /\ m \in Nat
      /\ flight[x] \subseteq 0..Delay
  BY <1>1, UnreadTyped DEF LinkInv
<1>3. /\ Keepalive \in Nat /\ Misses \in Nat /\ Delay \in Nat /\ Patience \in Nat
      /\ Delay + Patience < Keepalive /\ Deadline = Keepalive * Misses + Keepalive
  BY LinkNumbers
<1>4. heard[x] <= phase[y] + Keepalive * Unread(x) + Patience
  BY DEF LinkInv, SilenceCounted
<1>5. flight[x] # {} => phase[y] <= Delay /\ Unread(x) = m + 1
  <2>1. flight[x] \subseteq {phase[y]}
    BY <1>1 DEF LinkInv, FlightIsPhase
  <2> QED
    BY <1>2, <1>3, <2>1 DEF Unread
<1>6. flight[x] = {} => Unread(x) = m
  BY DEF Unread
<1> HIDE DEF y, m
<1>7. Keepalive * (m + 1) = Keepalive * m + Keepalive /\ Keepalive * m \in Nat
      /\ Keepalive * Misses \in Nat
  BY <1>2, <1>3
<1>8. Keepalive * Misses < Keepalive * m + Keepalive
  <2>1. CASE flight[x] = {}
    BY <1>2, <1>3, <1>4, <1>6, <1>7, <2>1
  <2>2. CASE flight[x] # {}
    BY <1>2, <1>3, <1>4, <1>5, <1>7, <2>2
  <2> QED
    BY <2>1, <2>2
<1>9. ASSUME m < Misses PROVE FALSE
  <2>1. Keepalive * (m + 1) <= Keepalive * Misses
    BY <1>2, <1>3, <1>9, IntervalsOrdered
  <2> QED
    BY <1>3, <1>7, <1>8, <2>1
<1> QED
  BY <1>2, <1>3, <1>9 DEF m

\* "The last of them is counted lost rather than racing the boundary": for every
\* interval, every number of misses and every delay that fits the interval, an
\* end reaps a peer that is still up only after that many keepalives in a row
\* were lost.
THEOREM ReapsAreEarned == SessionAssumption /\ LinkSpec => [][ReapIsEarned]_linkVars
<1> SUFFICES ASSUME SessionAssumption PROVE LinkSpec => [][ReapIsEarned]_linkVars
  OBVIOUS
<1>1. LinkInv => ReapIsEarned
  BY SilenceIsLoss DEF ReapIsEarned
<1> QED
  BY <1>1, LinkInvariance, PTL DEF LinkSpec
=============================================================================
