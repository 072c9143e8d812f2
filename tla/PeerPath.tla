------------------------------ MODULE PeerPath ------------------------------
(***************************************************************************)
(* The path between two peers: how the two ends settle on the punched or   *)
(* the relayed path, and the peer session that runs over the path they     *)
(* settled on.                                                             *)
(***************************************************************************)
EXTENDS PunchOutcome, Sequences, Naturals

(***************************************************************************)
(* How the two ends of a pair agree on a path (settle_path and             *)
(* handshake_under_relay_authority of src/src/peerslot.rs, peer_path and   *)
(* finish_pair of src/src/server.rs): each punches on its own, the first   *)
(* report of a relay opens it for both, and until an end's inner handshake *)
(* is done a relay open takes it off whatever path it is on.               *)
(*                                                                         *)
(* The punch is PunchOutcome. A control queue delivers its frames in       *)
(* order. The inner handshake is two steps: the provider is up once it has *)
(* read message three, the consumer once it has read the verdict.          *)
(***************************************************************************)
CONSTANTS
    Overtakes,    \* a party may report before the other was sent its PeerInfo
    Drops         \* a report may meet a full control queue

Party == {"initiator", "responder"}
SettleOther(x) == IF x = "initiator" THEN "responder" ELSE "initiator"

SettleAssumption == Overtakes \in BOOLEAN /\ Drops \in BOOLEAN

VARIABLES
    consumer,     \* which party asked for the pair
    tcp,          \* the parties whose control session is tcp: they never probe
    settleStage,        \* how far each party's cycle is
    inbox,        \* control frames each party has not read
    informed,     \* the parties whose PeerInfo was sent
    reports,      \* parties whose relay report is on its way
    relay         \* the server opened the relay

pair == <<consumer, tcp>>

settleVars == <<outI, outR, pair, settleStage, inbox, informed, reports, relay>>

Out(x) == IF x = "initiator" THEN outI ELSE outR
provider == SettleOther(consumer)

SettleInit ==
    /\ outI = "trying" /\ outR = "trying"
    /\ consumer \in Party /\ tcp \in SUBSET Party
    /\ settleStage = [x \in Party |-> "info"] /\ inbox = [x \in Party |-> <<>>]
    /\ informed = {} /\ reports = {} /\ relay = FALSE

SettleMove(x, s) == settleStage' = [settleStage EXCEPT ![x] = s]
Take(x) == inbox' = [inbox EXCEPT ![x] = Tail(@)]
Reads(x, frame) == inbox[x] # <<>> /\ Head(inbox[x]) = frame

-----------------------------------------------------------------------------
\* finish_pair sends the consumer's PeerInfo and then the provider's, outside
\* every lock.
SendInfo ==
    /\ informed # Party
    /\ informed' = IF ~Overtakes THEN Party
                   ELSE IF informed = {} THEN {consumer} ELSE Party
    /\ inbox' = [x \in Party |-> IF x \in informed' \ informed
                                 THEN Append(inbox[x], "info") ELSE inbox[x]]
    /\ UNCHANGED <<outI, outR, pair, settleStage, reports, relay>>

\* A party reports the relay on its control session, if the queue has room.
ReportRelay(x) == reports' \in {reports \cup {x}} \cup (IF Drops THEN {reports} ELSE {})

\* The first relay report opens the relay for both parties.
PeerPath(x) ==
    /\ x \in reports /\ reports' = reports \ {x}
    /\ relay' = TRUE
    /\ inbox' = [y \in Party |-> IF relay THEN inbox[y] ELSE Append(inbox[y], "open")]
    /\ UNCHANGED <<outI, outR, pair, settleStage, informed>>

\* The candidates arrive. Without a probe socket the party reports the relay;
\* a peer without one has no candidates to punch, and the punch does.
ReadInfo(x) ==
    /\ settleStage[x] = "info" /\ Reads(x, "info") /\ Take(x)
    /\ IF tcp = {} THEN SettleMove(x, "punching") /\ reports' = reports
                   ELSE SettleMove(x, "waiting") /\ ReportRelay(x)
    /\ UNCHANGED <<outI, outR, pair, informed, relay>>

\* While the candidates are awaited every other frame is skipped.
SkipOpen(x) ==
    /\ settleStage[x] = "info" /\ Reads(x, "open") /\ Take(x)
    /\ UNCHANGED <<outI, outR, pair, settleStage, informed, reports, relay>>

\* The punch lands on a path; its report changes nothing at the server. The
\* other party has punched too: it answered, or nominated.
Punched(x) ==
    /\ settleStage[x] = "punching" /\ settleStage[SettleOther(x)] # "info"
    /\ OutcomeNext /\ Out(x)' \in Path /\ Out(x) = "trying"
    /\ SettleMove(x, "direct")
    /\ UNCHANGED <<pair, inbox, informed, reports, relay>>

\* The punch gives up and reports the relay.
PunchedOut(x) ==
    /\ settleStage[x] = "punching"
    /\ OutcomeNext /\ Out(x)' = "relay" /\ Out(x) = "trying"
    /\ SettleMove(x, "waiting") /\ ReportRelay(x)
    /\ UNCHANGED <<pair, inbox, informed, relay>>

\* The relay open while punching: the punch is dropped, unreported.
OpenWhilePunching(x) ==
    /\ settleStage[x] = "punching" /\ Reads(x, "open") /\ Take(x)
    /\ OutcomeNext /\ Out(x)' = "relay" /\ Out(x) = "trying"
    /\ SettleMove(x, "leg")
    /\ UNCHANGED <<pair, informed, reports, relay>>

\* The relay open a party waits for.
OpenWhileWaiting(x) ==
    /\ settleStage[x] = "waiting" /\ Reads(x, "open") /\ Take(x)
    /\ SettleMove(x, "leg")
    /\ UNCHANGED <<outI, outR, pair, informed, reports, relay>>

\* The relay open supersedes a direct path whose handshake is not done.
OpenWhileDirect(x) ==
    /\ settleStage[x] = "direct" /\ Reads(x, "open") /\ Take(x)
    /\ SettleMove(x, "leg")
    /\ UNCHANGED <<outI, outR, pair, informed, reports, relay>>

Up(s) == IF s = "direct" THEN "upDirect" ELSE "upRelay"

\* The inner handshake: both ends have to be on the path for it to get to
\* message three.
ProviderUp(s) ==
    /\ settleStage[provider] = s /\ settleStage[consumer] = s
    /\ SettleMove(provider, Up(s))
    /\ UNCHANGED <<outI, outR, pair, inbox, informed, reports, relay>>

ConsumerUp(s) ==
    /\ settleStage[consumer] = s /\ settleStage[provider] = Up(s)
    /\ SettleMove(consumer, Up(s))
    /\ UNCHANGED <<outI, outR, pair, inbox, informed, reports, relay>>

\* CYCLE_DEADLINE, the handshake's own, or the control session going away; an
\* end that is up is reaped or dropped by its owner.
Fail(x) ==
    /\ settleStage[x] # "over" /\ SettleMove(x, "over")
    /\ UNCHANGED <<outI, outR, pair, inbox, informed, reports, relay>>

Settled == \A x \in Party : settleStage[x] \in {"upDirect", "upRelay", "over"}
SettleEnded == Settled /\ UNCHANGED settleVars

Settle ==
    \/ SendInfo
    \/ \E x \in Party :
          \/ PeerPath(x) \/ ReadInfo(x) \/ SkipOpen(x) \/ Punched(x) \/ PunchedOut(x)
          \/ OpenWhilePunching(x) \/ OpenWhileWaiting(x) \/ OpenWhileDirect(x)
    \/ \E s \in {"direct", "leg"} : ProviderUp(s) \/ ConsumerUp(s)

SettleNext == Settle \/ SettleEnded \/ \E x \in Party : Fail(x)

SettleSpec == SettleInit /\ [][SettleNext]_settleVars

\* No deadline passes while there is something to do, and neither end goes.
SettleDue == Settle

-----------------------------------------------------------------------------
SettleTypeOK ==
    /\ outI \in {"trying", "relay"} \cup Path /\ outR \in {"trying", "relay"} \cup Path
    /\ consumer \in Party /\ tcp \subseteq Party
    /\ settleStage \in [Party -> {"info", "punching", "waiting", "direct", "leg",
                                  "upDirect", "upRelay", "over"}]
    /\ inbox \in [Party -> Seq({"info", "open"})]
    /\ informed \subseteq Party /\ reports \subseteq Party /\ relay \in BOOLEAN
    /\ \A x \in Party : settleStage[x] \in {"leg", "upRelay"} => relay

\* "Holds a direct path the peer has already abandoned": that end is still
\* handshaking. Once an end is up directly nobody has opened the relay, so its
\* peer is not pulled off the path the session runs on.
DirectIsFinal == (\E x \in Party : settleStage[x] = "upDirect") => ~relay

\* The two ends of a session are on one path: an end that is up has its peer on
\* the same path or gone.
OnePath ==
    /\ settleStage[consumer] = "upDirect" => settleStage[provider] \in {"upDirect", "over"}
    /\ settleStage[consumer] = "upRelay" => settleStage[provider] \in {"upRelay", "over"}
    /\ settleStage[provider] = "upDirect" => settleStage[consumer] \in {"direct", "upDirect", "over"}
    /\ settleStage[provider] = "upRelay" => settleStage[consumer] \in {"leg", "upRelay", "over"}

\* A punch that lands on one side only, in the last moments before the other
\* side's deadline, is settled by the relay open: left alone, both ends come up.
BothUpThen == \A x \in Party : settleStage[x] \in {"upDirect", "upRelay"}

-----------------------------------------------------------------------------
(***************************************************************************)
(* The inner session of a pair (src/src/peer.rs) over one path that loses, *)
(* repeats and reorders whole frames: the XX handshake in which each side  *)
(* repeats its last message, the provider's verdict, and then the          *)
(* keepalives by which each end decides that the other is gone.            *)
(*                                                                         *)
(* A handshake frame is its number; frames holds those with a copy still   *)
(* on the way, so reading one leaves it there and Lose drops every copy.   *)
(* Time is in ticks; a keepalive is on the way for at most Delay ticks.    *)
(***************************************************************************)
CONSTANTS
    Keepalive,    \* PEER_KEEPALIVE, in ticks
    Misses,       \* PEER_MISSES
    Delay,        \* the longest a keepalive travels, shorter than Keepalive
    Patience      \* HANDSHAKE_DEADLINE: ticks a consumer waits for a verdict

SessionAssumption ==
    /\ Keepalive \in Nat /\ Misses \in Nat \ {0}
    /\ Delay \in Nat /\ Patience \in Nat /\ Delay + Patience < Keepalive

VARIABLES
    terms,        \* what the pair brings: see Terms
    linkStage,        \* how far each end is
    ready,        \* the provider's verdict was ready
    frames,          \* handshake frames on the way
    heard,        \* ticks since each end last opened a frame
    phase,        \* ticks since each end last sent a keepalive
    flight,       \* ages of the keepalives on the way to each end
    missed        \* keepalives lost on the way to each end since it heard one

linkVars == <<terms, linkStage, ready, frames, heard, phase, flight, missed>>

watch == <<heard, phase, flight, missed>>

End == {"consumer", "provider"}
LinkOther(x) == IF x = "consumer" THEN "provider" ELSE "consumer"

\* agreed: both ends hash the same prologue and the provider presents the
\* identity the consumer was configured with. admits: what the provider makes
\* of the consumer it authenticates.
Terms == [agreed : BOOLEAN, admits : {"ready", "refuse", "unauthorized", "misrouted"}]

\* PEER_DEADLINE: one interval past the missed keepalives.
Deadline == Keepalive * (Misses + 1)

\* The consumer has sent message one; the provider waits for it.
LinkInit ==
    /\ terms \in Terms
    /\ linkStage = [x \in End |-> IF x = "consumer" THEN "one" ELSE "listen"]
    /\ ready = FALSE /\ frames = {"one"}
    /\ heard = [x \in End |-> 0] /\ phase = [x \in End |-> 0]
    /\ flight = [x \in End |-> {}] /\ missed = [x \in End |-> 0]

\* A frame is lost, with every copy of it.
Lose(m) ==
    /\ m \in frames /\ frames' = frames \ {m}
    /\ UNCHANGED <<terms, linkStage, ready, watch>>

At(x, s) == linkStage[x] = s
LinkMove(x, s) == linkStage' = [linkStage EXCEPT ![x] = s]
Send(m) == frames' = frames \cup {m}

-----------------------------------------------------------------------------
\* The last message an end sent, which it repeats until it is answered.
LastSent(x) ==
    CASE linkStage[x] = "one"   -> {"one"}
      [] linkStage[x] = "two"   -> {"two"}
      [] linkStage[x] = "three" -> {"three"}
      [] OTHER              -> {}

\* The retry tick of exchange.
Retry(x) ==
    /\ LastSent(x) # {} /\ frames' = frames \cup LastSent(x)
    /\ UNCHANGED <<terms, linkStage, ready, watch>>

\* The peer repeats the message the last frame answers: send it again.
Repeat(x) ==
    /\ \/ x = "provider" /\ At(x, "two") /\ "one" \in frames
       \/ x = "consumer" /\ At(x, "three") /\ "two" \in frames
    /\ frames' = frames \cup LastSent(x)
    /\ UNCHANGED <<terms, linkStage, ready, watch>>

\* Message one carries no key to check: the provider answers it.
ReadOne ==
    /\ At("provider", "listen") /\ "one" \in frames
    /\ LinkMove("provider", "two") /\ Send("two")
    /\ UNCHANGED <<terms, ready, watch>>

\* Message two authenticates the provider: a transcript that differs does not
\* open, and another identity is a mismatch.
ReadTwo ==
    /\ At("consumer", "one") /\ "two" \in frames
    /\ \/ /\ terms.agreed
          /\ LinkMove("consumer", "three") /\ Send("three")
       \/ /\ ~terms.agreed
          /\ LinkMove("consumer", "over") /\ frames' = frames
    /\ UNCHANGED <<terms, ready, watch>>

\* Message three authenticates the consumer, and the verdict is decided on the
\* static it presented. The provider's session starts with it.
ReadThree ==
    /\ At("provider", "two") /\ "three" \in frames
    /\ ready' = (terms.admits = "ready")
    /\ LinkMove("provider", IF ready' THEN "up" ELSE "refused")
    /\ Send("verdict")
    /\ UNCHANGED <<terms, watch>>

\* A provider that answers message three once.
ReadThreeAgainNever == FALSE /\ UNCHANGED linkVars

\* Message three comes back because the verdict was lost: send it again.
ReadThreeAgain ==
    /\ linkStage["provider"] \in {"up", "refused"} /\ "three" \in frames
    /\ "verdict" \notin frames /\ Send("verdict")
    /\ UNCHANGED <<terms, linkStage, ready, watch>>

\* The sealed verdict decides: ready is a session, a refusal is an error. No
\* handshake frame still on the way changes either end after it.
ReadVerdict ==
    /\ At("consumer", "three") /\ "verdict" \in frames
    /\ LinkMove("consumer", IF ready THEN "up" ELSE "over")
    /\ frames' = {}
    /\ UNCHANGED <<terms, ready, watch>>

\* HANDSHAKE_DEADLINE, or the linger of a refused session.
GiveUp(x) ==
    /\ linkStage[x] \notin {"up", "over"} /\ LinkMove(x, "over")
    /\ UNCHANGED <<terms, ready, frames, watch>>

-----------------------------------------------------------------------------
\* An end that is up sends a keepalive every interval.
SendKeepalive(x) ==
    /\ At(x, "up") /\ phase[x] = Keepalive
    /\ phase' = [phase EXCEPT ![x] = 0]
    /\ flight' = [flight EXCEPT ![LinkOther(x)] = @ \cup {0}]
    /\ UNCHANGED <<terms, linkStage, ready, frames, heard, missed>>

\* A session frame opens: the peer is alive.
Hear(x, age) ==
    /\ age \in flight[x]
    /\ flight' = [flight EXCEPT ![x] = @ \ {age}]
    /\ \/ /\ At(x, "up")
          /\ heard' = [heard EXCEPT ![x] = 0] /\ missed' = [missed EXCEPT ![x] = 0]
       \/ ~At(x, "up") /\ UNCHANGED <<heard, missed>>
    /\ UNCHANGED <<terms, linkStage, ready, frames, phase>>

\* A keepalive is lost on the way.
Drop(x, age) ==
    /\ age \in flight[x] /\ missed[x] <= Misses
    /\ flight' = [flight EXCEPT ![x] = @ \ {age}]
    /\ missed' = [missed EXCEPT ![x] = @ + 1]
    /\ UNCHANGED <<terms, linkStage, ready, frames, heard, phase>>

\* A reader that waits for the path to close.
ReapNever(x) == FALSE /\ UNCHANGED linkVars

\* The reader's timeout: it stops, and its writer and keepalive with it.
Reap(x) ==
    /\ At(x, "up") /\ heard[x] >= Deadline
    /\ LinkMove(x, "over")
    /\ UNCHANGED <<terms, ready, frames, watch>>

\* Whoever owns the session drops it.
Leave(x) ==
    /\ At(x, "up") /\ LinkMove(x, "over")
    /\ UNCHANGED <<terms, ready, frames, watch>>

\* A tick: nothing due is overdue, and a consumer still waiting for the verdict
\* is inside its handshake deadline.
Tick ==
    /\ \E x \in End : At(x, "up")
    /\ \A x \in End : At(x, "up") => heard[x] < Deadline /\ phase[x] < Keepalive
    /\ \A x \in End : \A age \in flight[x] : age < Delay
    /\ At("consumer", "three") /\ At("provider", "up") => heard["provider"] < Patience
    /\ heard' = [x \in End |-> IF At(x, "up") THEN heard[x] + 1 ELSE heard[x]]
    /\ phase' = [x \in End |-> IF At(x, "up") THEN phase[x] + 1 ELSE phase[x]]
    /\ flight' = [x \in End |-> {age + 1 : age \in flight[x]}]
    /\ UNCHANGED <<terms, linkStage, ready, frames, missed>>

LinkEnded == (\A x \in End : At(x, "over")) /\ UNCHANGED linkVars

Handshake ==
    \/ \E x \in End : Retry(x) \/ Repeat(x)
    \/ ReadOne \/ ReadTwo \/ ReadThree \/ ReadThreeAgain \/ ReadVerdict
    \/ \E m \in {"one", "two", "three", "verdict"} : Lose(m)

Session ==
    \/ \E x \in End : SendKeepalive(x) \/ Reap(x) \/ Leave(x)
    \/ \E x \in End : \E age \in flight[x] : Hear(x, age) \/ Drop(x, age)
    \/ Tick

LinkNext == Handshake \/ Session \/ LinkEnded \/ \E x \in End : GiveUp(x)

LinkSpec == LinkInit /\ [][LinkNext]_linkVars

\* Time passes, and what is due is done. On a path that does not lose every copy of a frame that keeps
\* being sent, before any deadline (HandshakeDue, LinkInsisted), the handshake completes.
HandshakeDue(x) == Retry(x)
LinkDue(i, x) ==
    \/ i = 1 /\ Tick
    \/ i = 2 /\ (SendKeepalive(x) \/ \E age \in flight[x] : Hear(x, age) \/ Drop(x, age))
    \/ i = 3 /\ (Reap(x) \/ GiveUp(x))
LinkInsisted(i) ==
    \/ i = 1 /\ (ReadOne \/ ReadTwo \/ ReadThree \/ ReadThreeAgain)
    \/ i = 2 /\ ReadVerdict

-----------------------------------------------------------------------------
LinkTypeOK ==
    /\ terms \in Terms /\ ready \in BOOLEAN
    /\ linkStage \in [End -> {"listen", "one", "two", "three", "up", "refused", "over"}]
    /\ frames \subseteq {"one", "two", "three", "verdict"}
    /\ "three" \in frames => terms.agreed
    /\ "verdict" \in frames => linkStage["provider"] \notin {"listen", "two"}
    /\ heard \in [End -> 0..Deadline] /\ phase \in [End -> 0..Keepalive]
    /\ flight \in [End -> SUBSET (0..Delay)]
    /\ missed \in [End -> 0..(Misses + 1)]

\* A consumer is up only on a pair the provider admitted under the same
\* transcript, whatever was lost, repeated or reordered: a refused pair and a
\* mismatched identity never become a session on either end.
UpIsAdmitted ==
    /\ At("consumer", "up") => ready
    /\ ready => terms.agreed /\ terms.admits = "ready"

\* "It waits one interval past the missed keepalives, so the last of them is
\* counted lost rather than racing the boundary": an end gives up a peer that is
\* still up only after Misses of its keepalives in a row were lost.
ReapIsEarned ==
    \A x \in End : At(x, "up") /\ heard[x] >= Deadline /\ linkStage'[x] = "over"
         => missed[x] >= Misses \/ ~At(LinkOther(x), "up")

\* An end left alone - its verdict was never read, or its peer went away - does
\* not stay up, so an exclusive provider is free again.
HalfUpEndsWhen(x) == At(x, "up") /\ At(LinkOther(x), "over")
HalfUpEndsThen(x) == At(x, "over")

\* Losing any frame any number of times stalls no handshake: the consumer
\* learns the verdict.
VerdictLandsWhen == terms.agreed
VerdictLandsThen == linkStage["consumer"] = IF terms.admits = "ready" THEN "up" ELSE "over"
=============================================================================
