------------------------------- MODULE Punch --------------------------------
(***************************************************************************)
(* The punch of one pair (src/src/punch.rs). The initiator handshakes with *)
(* every candidate and nominates the first that answers. A responder's     *)
(* handshake ends by writing message two, which says nothing about the way *)
(* back, so the responder holds every handshake it finished and settles on *)
(* the source a nominating keepalive arrives from. Each party has its own  *)
(* deadline, after which it reports the relay.                             *)
(*                                                                         *)
(* A path is a candidate of the initiator (PeerInfo carried it) together   *)
(* with the source the responder sees it from. KCP retransmits the         *)
(* handshakes, so those are only late; a keepalive is a datagram, and a    *)
(* copy that is lost is a step not taken. Handshake tasks run beside the   *)
(* punch loop on the multi-threaded runtime.                               *)
(***************************************************************************)
EXTENDS PunchOutcome, Naturals, FiniteSets, Sequences

CONSTANTS
    MaxPeers,     \* MAX_PUNCH_PEERS
    Deaf          \* the paths that drop every copy of the nomination

PunchAssumption ==
    /\ IsFiniteSet(Path) /\ Deaf \subseteq Path /\ MaxPeers \in Nat \ {0}
    /\ {"trying", "relay"} \cap Path = {}

VARIABLES
    targets,      \* the paths the initiator opened a session on
    sessions,     \* the sources the responder opened a session for
    written,      \* responder handshakes that have written message two
    queue,        \* responder handshakes pushed to Finished, not yet taken
    completed,    \* responder handshakes the loop has stored
    finished,     \* initiator handshakes in the order they completed
    polled,       \* the responder's select found Finished empty
    arriving      \* keepalives on their way or in the responder's queue

punchVars == <<targets, sessions, written, queue, completed, finished, polled, arriving,
               outI, outR>>

initiator == <<targets, finished, outI>>
responder == <<sessions, written, queue, completed, polled, outR>>

-----------------------------------------------------------------------------
\* Distinct candidates, the first MaxPeers of them in any order.
Targets(candidates) ==
    {t \in SUBSET candidates :
        Cardinality(t) = IF Cardinality(candidates) < MaxPeers
                         THEN Cardinality(candidates) ELSE MaxPeers}

\* The initiator sends message one to every target; with none, both parties
\* take the relay at once.
PunchInit ==
    /\ targets \in Targets(Path)
    /\ sessions = {} /\ written = {} /\ queue = {} /\ completed = {}
    /\ finished = <<>> /\ polled = FALSE /\ arriving = {}
    /\ outI = IF targets = {} THEN "relay" ELSE "trying"
    /\ outR = outI

\* Message one reaches the responder, which opens a session for its source.
Answer(p) ==
    /\ outR = "trying" /\ p \in targets \ sessions
    /\ Cardinality(sessions) < MaxPeers
    /\ sessions' = sessions \cup {p}
    /\ UNCHANGED <<initiator, written, queue, completed, polled, arriving, outR>>

\* A handshake task of the responder writes message two ...
WriteTwo(p) ==
    /\ outR = "trying" /\ p \in sessions \ written
    /\ written' = written \cup {p}
    /\ UNCHANGED <<initiator, sessions, queue, completed, polled, arriving, outR>>

\* ... and then pushes what it finished.
Push(p) ==
    /\ outR = "trying" /\ p \in written \ (queue \cup completed)
    /\ queue' = queue \cup {p}
    /\ UNCHANGED <<initiator, sessions, written, completed, polled, arriving, outR>>

\* The first branch of the biased select: store every finished handshake.
PunchTake ==
    /\ outR = "trying" /\ ~polled /\ queue # {}
    /\ completed' = completed \cup queue /\ queue' = {}
    /\ UNCHANGED <<initiator, sessions, written, polled, arriving, outR>>

\* The select polls the finished handshakes, finds none and goes on to the
\* datagrams ...
Poll ==
    /\ outR = "trying" /\ ~polled /\ queue = {}
    /\ polled' = TRUE
    /\ UNCHANGED <<initiator, sessions, written, queue, completed, arriving, outR>>

\* ... unless a punch probe is due first, or there is none and the loop sleeps
\* until it is woken: it starts over.
Sleep ==
    /\ outR = "trying" /\ polled
    /\ polled' = FALSE
    /\ UNCHANGED <<initiator, sessions, written, queue, completed, arriving, outR>>

\* A responder that settles on whichever of its handshakes finished.
HearCompleted(p) ==
    /\ outR = "trying" /\ polled /\ p \in completed
    /\ polled' = FALSE /\ outR' = p
    /\ UNCHANGED <<initiator, sessions, written, queue, completed, arriving>>

\* A keepalive is judged: it settles the punch when its source's handshake is
\* stored, and is dropped otherwise.
PunchHear(p) ==
    /\ outR = "trying" /\ polled /\ p \in arriving
    /\ polled' = FALSE /\ arriving' = arriving \ {p}
    /\ outR' = IF p \in completed THEN p ELSE outR
    /\ UNCHANGED <<initiator, sessions, written, queue, completed>>

\* Message two reaches the initiator's handshake task.
PunchReadTwo(p) ==
    /\ outI = "trying" /\ p \in written
    /\ \A i \in 1..Len(finished) : finished[i] # p
    /\ finished' = Append(finished, p)
    /\ UNCHANGED <<responder, targets, arriving, outI>>

\* The initiator binds the first that finished and closes the others.
Nominate ==
    /\ outI = "trying" /\ finished # <<>>
    /\ outI' = Head(finished)
    /\ UNCHANGED <<responder, targets, finished, arriving>>

\* A copy of the nomination gets through. The initiator repeats it on the
\* punch cadence, and keeps the mapping open with it afterwards.
PunchKeepalive ==
    /\ outI \in Path \ Deaf
    /\ arriving' = arriving \cup {outI}
    /\ UNCHANGED <<initiator, responder>>

\* A deadline that still fires for an initiator whose nomination is on its way.
GiveUpLate ==
    \/ /\ outI # "relay" /\ outR \notin Path /\ outI' = "relay"
       /\ UNCHANGED <<responder, targets, finished, arriving>>
    \/ /\ outR = "trying" /\ outR' = "relay"
       /\ UNCHANGED <<initiator, sessions, written, queue, completed, polled,
                      arriving>>

\* A party whose deadline passes takes the relay.
PunchGiveUp ==
    \/ /\ outI = "trying" /\ outI' = "relay"
       /\ UNCHANGED <<responder, targets, finished, arriving>>
    \/ /\ outR = "trying" /\ outR' = "relay"
       /\ UNCHANGED <<initiator, sessions, written, queue, completed, polled,
                      arriving>>

\* Both parties have settled.
Ended == outI # "trying" /\ outR # "trying" /\ UNCHANGED punchVars

Handshakes == \E p \in Path : Answer(p) \/ WriteTwo(p) \/ Push(p) \/ PunchReadTwo(p)
Loop == PunchTake \/ Poll \/ Sleep \/ \E p \in Path : PunchHear(p)
InTime == Handshakes \/ Loop \/ Nominate \/ PunchKeepalive \/ Ended
PunchNext == InTime \/ PunchGiveUp

PunchSpec == PunchInit /\ [][PunchNext]_punchVars

\* The deadlines are further away than every handshake and some copy of the
\* nomination: tasks keep running, and a datagram in the queue is read.
Due(i, p) ==
    \/ i = 1 /\ (Nominate \/ PunchKeepalive)
    \/ i = 2 /\ Poll
    \/ i = 3 /\ (Answer(p) \/ WriteTwo(p) \/ Push(p) \/ PunchReadTwo(p))
Insisted(i) ==
    \/ i = 1 /\ PunchTake
    \/ i = 2 /\ \E p \in Path : PunchHear(p)

-----------------------------------------------------------------------------
PunchTypeOK ==
    /\ sessions \subseteq targets /\ written \subseteq sessions
    /\ queue \cup completed \subseteq written /\ queue \cap completed = {}
    /\ finished \in Seq(written) /\ arriving \subseteq Path \ Deaf
    /\ polled \in BOOLEAN
    /\ outI \in {"trying", "relay"} \cup Path /\ outR \in {"trying", "relay"} \cup Path

\* "Both ends bind the same path that way even when several candidates are
\* reachable", and a responder is never direct alone: only the initiator can
\* hold direct against a peer on the relay, the case relay authority settles.
DirectIsNominated == outR \in Path => outI = outR

\* What the rest of a pairing relies on: the punch is one of the outcomes of
\* PunchOutcome, whatever is lost, late or out of order underneath.
Promise == INSTANCE PunchOutcome

\* The same, of the first state and of a step.
OutcomeBegins == Promise!OutcomeInit
OutcomeStep == Promise!OutcomeNext \/ UNCHANGED <<outI, outR>>

\* What repeating the nomination is for: unless the path drops every copy, a
\* nomination that overtook its handshake, or was dropped, is made good, and
\* the responder binds the path the initiator chose.
NominationLandsWhen == outI \in Path \ Deaf
NominationLandsThen == outR = outI
=============================================================================
