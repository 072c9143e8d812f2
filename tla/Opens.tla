------------------------------- MODULE Opens --------------------------------
(***************************************************************************)
(* Public connections waiting for their client (src/src/server.rs): how a  *)
(* connection or UDP source is routed to a session, parked in `pending` or *)
(* `udp_pending` while the client dials back, claimed, timed out, or       *)
(* revoked when the session it was sent to is torn down.                   *)
(*                                                                         *)
(* The two maps follow one protocol and differ in who watches the entry: a *)
(* stream open has a task waiting on a oneshot, a datagram open only the   *)
(* reclaim timer. Connections stand for the ids the server draws for them. *)
(* open() takes no lock from the moment it clones the handle until it has  *)
(* parked the entry, so the session can be torn down at every step between.*)
(***************************************************************************)
EXTENDS Registry

CONSTANTS
    Conn,         \* public TCP connections and UDP sources
    NoClient,
    RouteOf,      \* the client id a connection's listener is routed to, or none
    Kind          \* "stream" (pending) or "dgram" (udp_pending)

ASSUME OpensAssumption ==
    /\ NoClient \notin Client
    /\ RouteOf \in [Conn -> Client \cup {NoClient}]
    /\ Kind \in [Conn -> {"stream", "dgram"}]

VARIABLES
    conn,         \* how far the connection has got
    target,       \* the client id serving_client_id resolved
    handle,       \* the session whose handle route_to cloned
    pending,      \* connections with an entry in pending or udp_pending
    arriving      \* claimed streams on their way through the oneshot

openvars == <<conn, target, handle, pending, arriving>>
allvars == <<registry, task, doomed, cancelled,
             conn, target, handle, pending, arriving>>

Stages == {"new", "resolved", "routed", "checked", "parked", "sending",
           "waiting", "bridged", "closed"}

OpensInit ==
    /\ RegistryInit
    /\ conn = [k \in Conn |-> "new"]
    /\ target = [k \in Conn |-> NoClient]
    /\ handle = [k \in Conn |-> NoSession]
    /\ pending = {}
    /\ arriving = {}

Connected == {c \in Client : registry[c] # NoSession}

To(k, stage) == conn' = [conn EXCEPT ![k] = stage]

-----------------------------------------------------------------------------
\* serving_client_id: the explicit route, or the only connected client.
Resolve(k) ==
    /\ conn[k] = "new"
    /\ \/ /\ RouteOf[k] # NoClient
          /\ target' = [target EXCEPT ![k] = RouteOf[k]]
          /\ To(k, "resolved")
       \/ /\ RouteOf[k] = NoClient
          /\ \E c \in Client : /\ Connected = {c}
                               /\ target' = [target EXCEPT ![k] = c]
          /\ To(k, "resolved")
       \/ /\ RouteOf[k] = NoClient
          /\ ~\E c \in Client : Connected = {c}
          /\ target' = target
          /\ To(k, "closed")
    /\ UNCHANGED regvars
    /\ UNCHANGED <<handle, pending, arriving>>

\* route_to that hands back the id in place of the handle.
RouteToId(k) ==
    /\ conn[k] = "resolved"
    /\ handle' = [handle EXCEPT ![k] = target[k]]
    /\ To(k, "routed")
    /\ UNCHANGED regvars
    /\ UNCHANGED <<target, pending, arriving>>

\* route_to: the handle is cloned under a second hold of the clients lock.
RouteTo(k) ==
    LET s == registry[target[k]] IN
    /\ conn[k] = "resolved"
    /\ handle' = [handle EXCEPT ![k] = s]
    /\ To(k, IF s = NoSession THEN "closed" ELSE "routed")
    /\ UNCHANGED regvars
    /\ UNCHANGED <<target, pending, arriving>>

\* The capability is drawn, which may fail, and the cancellation looked at.
CheckCancel(k) ==
    /\ conn[k] = "routed"
    /\ \/ ~cancelled[handle[k]] /\ To(k, "checked")
       \/ To(k, "closed")
    /\ UNCHANGED regvars
    /\ UNCHANGED <<target, handle, pending, arriving>>

\* The entry is inserted in its map.
Park(k) ==
    /\ conn[k] = "checked"
    /\ pending' = pending \cup {k}
    /\ To(k, "parked")
    /\ UNCHANGED regvars
    /\ UNCHANGED <<target, handle, arriving>>

\* open() without its second look at the cancellation.
RecheckSkipped(k) ==
    /\ conn[k] = "parked"
    /\ To(k, "sending") /\ pending' = pending
    /\ UNCHANGED regvars
    /\ UNCHANGED <<target, handle, arriving>>

\* The second look: a session cancelled since the first takes its entry back.
Recheck(k) ==
    /\ conn[k] = "parked"
    /\ IF cancelled[handle[k]]
       THEN To(k, "closed") /\ pending' = pending \ {k}
       ELSE To(k, "sending") /\ pending' = pending
    /\ UNCHANGED regvars
    /\ UNCHANGED <<target, handle, arriving>>

\* try_send of Open: it fails when the session's queue is full or closed.
SendOpen(k) ==
    /\ conn[k] = "sending"
    /\ \/ To(k, "waiting") /\ pending' = pending
       \/ To(k, "closed") /\ pending' = pending \ {k}
    /\ UNCHANGED regvars
    /\ UNCHANGED <<target, handle, arriving>>

\* claim_data_stream and take_udp_pending: the client that was sent the Open
\* presents its id, and the registry still names that session. A stream goes
\* through the oneshot; a datagram conv starts its bridge itself.
ClaimOpen(k) ==
    /\ conn[k] = "waiting"
    /\ k \in pending
    /\ Registered(handle[k])
    /\ pending' = pending \ {k}
    /\ IF Kind[k] = "stream"
       THEN arriving' = arriving \cup {k} /\ conn' = conn
       ELSE arriving' = arriving /\ To(k, "bridged")
    /\ UNCHANGED regvars
    /\ UNCHANGED <<target, handle>>

\* The oneshot delivers; a waiter that has given up drops the stream.
Deliver(k) ==
    /\ k \in arriving
    /\ arriving' = arriving \ {k}
    /\ IF conn[k] = "waiting" THEN To(k, "bridged") ELSE conn' = conn
    /\ UNCHANGED regvars
    /\ UNCHANGED <<target, handle, pending>>

\* A waiter that gives up without removing its entry.
GiveUpKeeping(k) ==
    /\ conn[k] = "waiting"
    /\ To(k, "closed")
    /\ pending' = pending
    /\ UNCHANGED regvars
    /\ UNCHANGED <<target, handle, arriving>>

\* The open timeout passes, or (streams) the waiting task is aborted by a route
\* cut or a listener removal. PendingReclaim and the reclaim timer remove the
\* entry by id, which does nothing once it was claimed.
GiveUp(k) ==
    /\ conn[k] = "waiting"
    /\ To(k, "closed")
    /\ pending' = pending \ {k}
    /\ UNCHANGED regvars
    /\ UNCHANGED <<target, handle, arriving>>

\* A stream waiter wakes because the session is cancelled or the entry, and
\* with it the oneshot's sender, is gone.
WakeUp(k) ==
    /\ Kind[k] = "stream"
    /\ GiveUp(k)
    /\ cancelled[handle[k]] \/ (k \notin pending /\ k \notin arriving)

\* The bridge ends by itself or by an abort.
EndBridge(k) ==
    /\ conn[k] = "bridged"
    /\ To(k, "closed")
    /\ UNCHANGED regvars
    /\ UNCHANGED <<target, handle, pending, arriving>>

\* A bridge cut only once another session has taken its client's place.
CutIfReplaced(k) ==
    /\ EndBridge(k)
    /\ registry[Owner[handle[k]]] \notin {NoSession, handle[k]}

\* until_cancelled cuts the bridge of a cancelled session.
CutBridge(k) == EndBridge(k) /\ cancelled[handle[k]]

\* revoke_claims for a client id alone, not for the doomed channel.
RevokeByClient(s) == {k \in pending : Owner[handle[k]] # Owner[s]}

\* revoke_claims: the entries of the doomed handle's channel go.
RevokeClaims(s) == {k \in pending : handle[k] # doomed[s]}

RevokeOpens(s) ==
    /\ Revoke(s)
    /\ pending' = RevokeClaims(s)
    /\ UNCHANGED <<conn, target, handle, arriving>>

OtherSessionStep(s) ==
    /\ Hello(s) \/ Unregister(s) \/ Cancel(s) \/ Invalidate(s) \/ Forget(s)
    /\ UNCHANGED openvars

OpenStep(k) ==
    Resolve(k) \/ RouteTo(k) \/ CheckCancel(k) \/ Park(k) \/ Recheck(k)
        \/ SendOpen(k) \/ Deliver(k)

OpensNext ==
    \/ \E k \in Conn : OpenStep(k) \/ ClaimOpen(k) \/ GiveUp(k) \/ WakeUp(k)
                          \/ EndBridge(k) \/ CutBridge(k)
    \/ \E s \in Session : RevokeOpens(s) \/ OtherSessionStep(s)
    \/ \E c \in Client : Disconnect(c) /\ UNCHANGED openvars

OpensSpec == OpensInit /\ [][OpensNext]_allvars

\* Ready tasks run: the straight-line code of open(), a waiter that was woken, a
\* bridge whose session is cancelled (until_cancelled), and a teardown. The open
\* timeout is left out, so nothing below depends on it.
OpensFairness ==
    /\ \A k \in Conn :
          /\ WF_allvars(OpenStep(k))
          /\ WF_allvars(WakeUp(k))
          /\ WF_allvars(CutBridge(k))
    /\ \A s \in Session :
          /\ WF_allvars(RevokeOpens(s))
          /\ WF_allvars((Cancel(s) \/ Invalidate(s) \/ Forget(s))
                            /\ UNCHANGED openvars)

OpensFairSpec == OpensSpec /\ OpensFairness

-----------------------------------------------------------------------------
\* Every variable has its type.
OpensTypeOK ==
    /\ RegistryTypeOK
    /\ conn \in [Conn -> Stages]
    /\ target \in [Conn -> Client \cup {NoClient}]
    /\ handle \in [Conn -> Session \cup {NoSession}]
    /\ pending \subseteq Conn
    /\ arriving \subseteq Conn

\* The revocation of s's entries is still ahead.
RevocationComing(s) ==
    \E t \in Session : doomed[t] = s /\ task[t] \in {"cancel", "revoke"}

\* No entry is stranded on a session that has been torn down, in whatever order
\* open() and the teardown run: either the registry still names the session, or
\* revoke_claims is still to come for it, or open() is about to see the
\* cancellation in its second look and take the entry back.
NoStrandedOpen ==
    \A k \in pending :
        \/ Registered(handle[k])
        \/ RevocationComing(handle[k])
        \/ conn[k] = "parked" /\ cancelled[handle[k]]

\* Every way out of an open leaves its map clean: a refused, timed out, aborted,
\* bridged or finished connection has no entry.
FinishedLeavesNoEntry ==
    \A k \in Conn : conn[k] \in {"bridged", "closed"} => k \notin pending

\* A session's teardown revokes only that session's own entries: the opens of the
\* session that superseded it stay claimable.
RevokesOwnOpens ==
    [][\A k \in pending \ pending' :
          conn'[k] = "waiting" =>
              k \in arriving' \/ ~Registered(handle[k])]_allvars

\* An entry of a session that lost its place is removed by the teardown alone,
\* without waiting for the open timeout.
LostSessionOpensRevoked ==
    \A k \in Conn :
        (k \in pending /\ ~Registered(handle[k])) ~> k \notin pending

\* A bridge does not outlive its session: once the registry names the session no
\* more, whoever tears it down cancels it and until_cancelled cuts the bridge,
\* also one whose stream was still in the oneshot at the time.
BridgeEndsWithSession ==
    \A k \in Conn :
        (conn[k] = "bridged" /\ ~Registered(handle[k])) ~> conn[k] = "closed"
=============================================================================
