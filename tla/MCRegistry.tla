----------------------------- MODULE MCRegistry -----------------------------
(* The registry on one client id and three connections that authenticate as
   it, so that a session can be superseded while the teardown of the one
   before it is still running. Client ids share nothing in this module, so a
   second one would only multiply the states. *)
EXTENDS Registry
CONSTANTS a, s1, s2, s3

MCClient == {a}
MCSession == {s1, s2, s3}
MCOwner == [s \in MCSession |-> a]
=============================================================================
