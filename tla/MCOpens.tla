------------------------------ MODULE MCOpens -------------------------------
(* A routed stream connection and a datagram source that relies on the single
   connected client, against two sessions of one client and one of another. *)
EXTENDS Opens
CONSTANTS a, b, a1, a2, b1, k1, k2

MCClient == {a, b}
MCSession == {a1, a2, b1}
Reconnecting == {a1, a2}
MCOwner == [s \in Session |-> IF s = b1 THEN b ELSE a]
MCConn == {k1, k2}
MCRouteOf == [k \in MCConn |-> IF k = k1 THEN a ELSE NoClient]
MCKind == [k \in MCConn |-> IF k = k1 THEN "stream" ELSE "dgram"]
=============================================================================
