---------------------------- MODULE MCRendezvous ----------------------------
(* Small instances of the rendezvous. *)
EXTENDS Rendezvous
CONSTANTS a, b, d, a1, a2, b1, d1, ida, idb, idd

MCOwner == [s \in Session |-> CASE s = b1 -> b [] s = d1 -> d [] OTHER -> a]
AllTcp == [s \in Session |-> "tcp"]
MixedTransport == [s \in Session |-> IF s = b1 THEN "tcp" ELSE "udp"]
AllUdp == [s \in Session |-> "udp"]

\* a and d consume what b provides, an exit.
Own(x) == IF x = b THEN [identity |-> idb, provides |-> {"exit"}]
          ELSE [identity |-> IF x = a THEN ida ELSE idd, provides |-> {}]
OneProvider == [x \in Client |-> {Own(x)}]

\* The same with a segment, which b provides to any number of consumers.
SegmentProvider ==
    [x \in Client |-> {[Own(x) EXCEPT !.provides = IF x = b THEN {"segment"} ELSE {}]}]

\* d may prove b's identity as well as its own.
SharedIdentity == [x \in Client |-> {Own(x)} \cup IF x = d THEN {Own(b)} ELSE {}]

Identities == {ida, idb}
ThreeIdentities == {ida, idb, idd}
NoReports == {}
AandB == {a, b}
ABD == {a, b, d}
OneEach == {a1, b1}
Reconnect == {a1, a2, b1}
ThreeClients == {a1, b1, d1}
Relay == {"relay"}
AnyPath == {"direct", "relay"}
=============================================================================
