---------------------------- MODULE PunchOutcome ----------------------------
(***************************************************************************)
(* What a punch promises whoever settles the pair's path: each party ends  *)
(* on the relay or on a path, and the responder goes direct only on the    *)
(* path the initiator chose before. Punch implements this; PeerPath is   *)
(* built on it.                                                            *)
(***************************************************************************)
CONSTANT Path

VARIABLES outI, outR      \* "trying", "relay" or a path

outcomes == <<outI, outR>>

\* Without a candidate both are on the relay from the start.
OutcomeInit == outI \in {"trying", "relay"} /\ outR = outI

Chooses(p) == outI = "trying" /\ outI' = p /\ outR' = outR
Follows == outR = "trying" /\ outI \in Path /\ outR' = outI /\ outI' = outI
InitiatorRelays == outI = "trying" /\ outI' = "relay" /\ outR' = outR
ResponderRelays == outR = "trying" /\ outR' = "relay" /\ outI' = outI

OutcomeNext ==
    \/ \E p \in Path : Chooses(p)
    \/ Follows \/ InitiatorRelays \/ ResponderRelays

OutcomeSpec == OutcomeInit /\ [][OutcomeNext]_outcomes
=============================================================================
