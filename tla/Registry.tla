------------------------------ MODULE Registry ------------------------------
(***************************************************************************)
(* The server's registry of control sessions (src/src/server.rs): which    *)
(* session each client id currently names, how a hello is admitted or      *)
(* supersedes a quiet session, and the teardown that a session which lost  *)
(* its place goes through.                                                 *)
(*                                                                         *)
(* One step is one critical section: what the code does while it holds the *)
(* `clients` lock (or one of the locks taken after it) is one action, and  *)
(* everything between two of them interleaves with every other task.       *)
(*                                                                         *)
(* The teardown of a handle (cancel, revoke_claims, invalidate_pairs) is   *)
(* run by the task of the superseding session or of the ending session;    *)
(* `task` says how far it has got and `doomed` which handle it is for. The *)
(* maps that the later stages clean belong to the modules that extend this *)
(* one: they conjoin their effect to Revoke, Invalidate and Forget.        *)
(*                                                                         *)
(* Time is abstract: whether the held window has passed since a session    *)
(* was last heard is a free choice at the moment a hello looks at it.      *)
(***************************************************************************)
EXTENDS Naturals

CONSTANTS
    Client,       \* client ids, as the handshake authenticates them
    Session,      \* control sessions: every accepted connection is a new one
    NoSession,
    Owner         \* the client id each session authenticates as

ASSUME SessionAssumption ==
    /\ NoSession \notin Session
    /\ Owner \in [Session -> Client]

VARIABLES
    registry,     \* Server::clients: client id -> its current session
    task,         \* what the task serving a session (serve_stream) is doing
    doomed,       \* the handle whose teardown that task is running
    cancelled     \* the value of the handle's `cancel` watch

regvars == <<registry, task, doomed, cancelled>>

\* The stages of the teardown in unregister_client and in the superseding half
\* of register_client. "forget" is the part of invalidate_pairs that runs after
\* its pairs lock is released.
Teardown == {"cancel", "revoke", "invalidate", "forget"}

\* Sessions whose task is past registration and has not returned.
Alive == {s \in Session : task[s] \in {"serving"} \cup Teardown}

Registered(s) == registry[Owner[s]] = s

RegistryInit ==
    /\ registry = [c \in Client |-> NoSession]
    /\ task = [s \in Session |-> "fresh"]
    /\ doomed = [s \in Session |-> NoSession]
    /\ cancelled = [s \in Session |-> FALSE]

-----------------------------------------------------------------------------
\* A hello that registers the client id in place of its handle.
HelloRecordsId(s) ==
    /\ task[s] = "fresh"
    /\ registry' = [registry EXCEPT ![Owner[s]] = Owner[s]]
    /\ task' = [task EXCEPT ![s] = "serving"]
    /\ UNCHANGED <<doomed, cancelled>>

\* A hello is registered: the id was free, or held by a session that has been
\* quiet for the held window. The check and the insert are one hold of the
\* clients lock. A hello that is refused because the holder is live, or fails
\* (its version, no randomness for the bridge lease), registers nothing and
\* leaves no trace, so its session simply stays fresh.
Hello(s) ==
    LET held == registry[Owner[s]] IN
    /\ task[s] = "fresh"
    /\ registry' = [registry EXCEPT ![Owner[s]] = s]
    /\ doomed' = [doomed EXCEPT ![s] = held]
    /\ task' = [task EXCEPT ![s] = IF held = NoSession THEN "serving"
                                                       ELSE "cancel"]
    /\ UNCHANGED cancelled

\* unregister_client without the same_channel comparison: a stale reader
\* removes whatever entry its client id names.
UnregisterByIdOnly(s) ==
    /\ task[s] = "serving"
    /\ registry' = [registry EXCEPT ![Owner[s]] = NoSession]
    /\ doomed' = [doomed EXCEPT ![s] = s]
    /\ task' = [task EXCEPT ![s] = "cancel"]
    /\ UNCHANGED cancelled

\* unregister_client skipped for a session that was not cancelled, as if only
\* the cancellation arm of the receive loop reached it.
UnregisterIfCancelled(s) ==
    /\ task[s] = "serving"
    /\ IF Registered(s) /\ cancelled[s]
       THEN /\ registry' = [registry EXCEPT ![Owner[s]] = NoSession]
            /\ doomed' = [doomed EXCEPT ![s] = s]
            /\ task' = [task EXCEPT ![s] = "cancel"]
       ELSE /\ task' = [task EXCEPT ![s] = "gone"]
            /\ UNCHANGED <<registry, doomed>>
    /\ UNCHANGED cancelled

\* The receive loop breaks (cancelled, read error, or no frame for the control
\* timeout) and unregister_client takes the clients lock: the entry goes only
\* if it is still this session's.
Unregister(s) ==
    /\ task[s] = "serving"
    /\ IF Registered(s)
       THEN /\ registry' = [registry EXCEPT ![Owner[s]] = NoSession]
            /\ doomed' = [doomed EXCEPT ![s] = s]
            /\ task' = [task EXCEPT ![s] = "cancel"]
       ELSE /\ task' = [task EXCEPT ![s] = "gone"]
            /\ UNCHANGED <<registry, doomed>>
    /\ UNCHANGED cancelled

\* A teardown that forgets to cancel the handle it replaced.
CancelSkipped(s) ==
    /\ task[s] = "cancel"
    /\ task' = [task EXCEPT ![s] = "revoke"]
    /\ UNCHANGED <<registry, doomed, cancelled>>

\* The teardown's first step: cancel.send(true) on the doomed handle.
Cancel(s) ==
    /\ task[s] = "cancel"
    /\ cancelled' = [cancelled EXCEPT ![doomed[s]] = TRUE]
    /\ task' = [task EXCEPT ![s] = "revoke"]
    /\ UNCHANGED <<registry, doomed>>

\* revoke_claims for the doomed handle's channel.
Revoke(s) ==
    /\ task[s] = "revoke"
    /\ task' = [task EXCEPT ![s] = "invalidate"]
    /\ UNCHANGED <<registry, doomed, cancelled>>

\* invalidate_pairs under the pairs lock, by client id.
Invalidate(s) ==
    /\ task[s] = "invalidate"
    /\ task' = [task EXCEPT ![s] = "forget"]
    /\ UNCHANGED <<registry, doomed, cancelled>>

\* The removed pairs' ids are forgotten and the teardown is over: a superseding
\* session starts to serve, an ending one is gone.
Forget(s) ==
    /\ task[s] = "forget"
    /\ task' = [task EXCEPT ![s] = IF doomed[s] = s THEN "gone" ELSE "serving"]
    /\ doomed' = [doomed EXCEPT ![s] = NoSession]
    /\ UNCHANGED <<registry, cancelled>>

\* DisconnectClient, and update_clients when a credential changed or went: the
\* registered handle is cancelled and left for its own reader to remove.
Disconnect(c) ==
    /\ registry[c] # NoSession
    /\ cancelled' = [cancelled EXCEPT ![registry[c]] = TRUE]
    /\ UNCHANGED <<registry, task, doomed>>

RegistryNext ==
    \/ \E s \in Session :
          \/ Hello(s) \/ Unregister(s)
          \/ Cancel(s) \/ Revoke(s) \/ Invalidate(s) \/ Forget(s)
    \/ \E c \in Client : Disconnect(c)

RegistrySpec == RegistryInit /\ [][RegistryNext]_regvars

\* The runtime keeps polling a ready task: a teardown runs on, and a reader
\* that can see its cancellation breaks its loop.
RegistryFairness ==
    \A s \in Session :
        /\ WF_regvars(Cancel(s))
        /\ WF_regvars(Revoke(s))
        /\ WF_regvars(Invalidate(s))
        /\ WF_regvars(Forget(s))
        /\ WF_regvars(cancelled[s] /\ Unregister(s))

RegistryFairSpec == RegistrySpec /\ RegistryFairness

-----------------------------------------------------------------------------
\* Every variable has its type.
RegistryTypeOK ==
    /\ registry \in [Client -> Session \cup {NoSession}]
    /\ task \in [Session -> {"fresh", "serving", "gone"} \cup Teardown]
    /\ doomed \in [Session -> Session \cup {NoSession}]
    /\ cancelled \in [Session -> BOOLEAN]

\* The registry names only sessions whose task is still there to remove them,
\* each under its own id: no entry outlives its reader, because
\* unregister_client is reached on every way out of the receive loop.
RegistryNamesLiveSessions ==
    \A c \in Client : registry[c] # NoSession =>
        /\ Owner[registry[c]] = c
        /\ registry[c] \in Alive
        /\ doomed[registry[c]] # registry[c]

\* A session that lost its registry entry is cancelled, or the task that took
\* the entry is about to cancel it: "the old reader self-reaps" in
\* register_client depends on it, since a superseded reader keeps its socket
\* until its watch fires.
LostSlotIsCancelled ==
    \A s \in Alive : ~Registered(s) =>
        \/ cancelled[s]
        \/ \E t \in Alive : doomed[t] = s /\ task[t] = "cancel"

\* An entry is removed only by the reader of the very session it names: a
\* stale reader's unregister_client preserves the session that superseded it.
OnlyOwnReaderUnregisters ==
    [][\A c \in Client :
          registry[c] # NoSession /\ registry'[c] = NoSession
            => doomed'[registry[c]] = registry[c]]_regvars

\* A session that lost its registry entry comes to an end.
LostSlotEnds ==
    \A s \in Session :
        (s \in Alive /\ ~Registered(s)) ~> task[s] = "gone"
=============================================================================
