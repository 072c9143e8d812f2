----------------------------- MODULE EgressBoot -----------------------------
(***************************************************************************)
(* The user-space proxy's start: the settings it reads and the drivers it  *)
(* runs, and the dialing of the bridge link it uses.                       *)
(***************************************************************************)
EXTENDS Naturals

(***************************************************************************)
(* The start and the end of the user-space PPPoE proxy                     *)
(* (crates/znpppoe/src/main.rs, uplink.rs): the flags and the environment  *)
(* are parsed into a configuration or refused, the uplink, the driver and  *)
(* the two front ends are started, and the process ends as soon as one of  *)
(* the three that main joins fails.                                        *)
(*                                                                         *)
(* A credential is the value it normalises to; what the seed derives is a  *)
(* value of its own for each use (seed.rs).  `Pasted` are derived values   *)
(* the operator also sets by hand.  Sizes are in KiB, as on the command    *)
(* line.                                                                   *)
(***************************************************************************)
CONSTANTS
    Typed,      \* credentials the operator makes up
    Pasted,     \* seed-derived ones they set by hand
    Mtu,        \* values of --pppoe-mtu
    Named,      \* what --peer is given: "identity" (64 hex), "id" (a client id)
    PeerLinks   \* bound: channels the peer client hands over

KcpMtu == 1350
FrameOverhead == 52
MaxSockKib == 1048576

\* What a seed derives.
Network == [use |-> "network", id |-> ""]
Peer == [use |-> "peer", id |-> ""]
Discovery == [use |-> "discovery", id |-> ""]
Client(id) == [use |-> "client", id |-> id]

Unset == [use |-> "unset", id |-> ""]
Malformed == [use |-> "malformed", id |-> ""]
Set(e) == e # Unset

Flags == [host : {"none", "good", "bad"}, dht : BOOLEAN, peer : Named \cup {"none"},
          connections : {0, 1}, mtu : Mtu, rx : {0, 256, MaxSockKib + 1}, conns : {0, 1024}]
Sane == [host |-> "good", dht |-> FALSE, peer |-> "none", connections |-> 1, mtu |-> 1280,
         rx |-> 256, conns |-> 1024]
Values == {Unset, Malformed} \cup Typed \cup Pasted
Env == [seed : {"none", "good", "bad"}, id : {"none", "empty", "c"}, secret : Values,
        client : Values, peer : Values, discovery : Values, proxy : {"none", "empty", "set"}]

VARIABLES
    flags, env,   \* what the process was started with
    conf,         \* what parse returned, or Refused
    proc,         \* the stage of main, the sockets, the driver, the peer client
    links         \* what is left of PeerLinks

bootVars == <<flags, env, conf, proc, links>>

Refused == [ok |-> FALSE]

-----------------------------------------------------------------------------
(* parse. *)

BadLimits(f) ==
    \/ f.connections = 0
    \/ f.mtu > KcpMtu - FrameOverhead
    \/ f.rx = 0 \/ f.rx > MaxSockKib
    \/ f.conns = 0

BadTarget(f) ==
    \/ f.dht /\ f.host # "none"
    \/ ~f.dht /\ f.host # "good"
    \/ f.peer = "id"

\* A value set on its own wins; the seed fills what is left.
Filled(value, seed, derived) ==
    CASE Set(value)      -> value
      [] seed = "good"   -> derived
      [] OTHER           -> Unset

\* The client credential falls back to the network secret without a seed, and
\* needs the id it is derived for with one.
credential(e) ==
    CASE Set(e.client)                 -> e.client
      [] e.seed = "good" /\ e.id = "c" -> Client("c")
      [] e.seed = "good"               -> Malformed
      [] OTHER                         -> Filled(e.secret, e.seed, Network)

runtime_peer_clash(value, secret, cred) == value \in {secret, cred}

runtime_discovery_clash(value, secret, cred, peer) == value \in {secret, cred, peer}

parse(f, e) ==
    LET secret    == Filled(e.secret, e.seed, Network)
        cred      == credential(e)
        peer      == IF f.peer = "none" THEN Unset ELSE Filled(e.peer, e.seed, Peer)
        discovery == IF f.dht THEN Filled(e.discovery, e.seed, Discovery) ELSE Unset
    IN IF \/ BadLimits(f) \/ BadTarget(f)
          \/ e.seed = "bad" \/ e.id = "empty"
          \/ Malformed \in {secret, cred, peer, discovery} \/ Unset \in {secret, cred}
          \/ (f.peer # "none" /\ peer = Unset)
          \/ (f.peer # "none" /\ Set(e.peer) /\ runtime_peer_clash(peer, secret, cred))
          \/ (f.dht /\ discovery = Unset)
          \/ (f.dht /\ Set(e.discovery) /\ runtime_discovery_clash(discovery, secret, cred, peer))
          \/ e.proxy # "set"
       THEN Refused
       ELSE [ok |-> TRUE, secret |-> secret, credential |-> cred, peer |-> peer,
             discovery |-> discovery, mtu |-> f.mtu, id |-> e.id]

\* The id the server sees: as given, or a prefix with the suffix of the host.
announced(c) == [name |-> c.id, exact |-> c.id # "none"]

-----------------------------------------------------------------------------
(* main. *)

Dead == [at |-> "parse", socks |-> FALSE, http |-> FALSE, driver |-> FALSE, client |-> FALSE,
         link |-> FALSE, built |-> FALSE]

\* The flags are checked before any environment is looked at; one of the two
\* varies at a time.
BootInit ==
    /\ \/ flags \in Flags /\ env \in {[seed |-> "good", id |-> "c", secret |-> Unset, client |-> Unset,
                                       peer |-> Unset, discovery |-> Unset, proxy |-> "set"]}
       \/ /\ flags \in {[Sane EXCEPT !.peer = p, !.dht = d, !.host = IF d THEN "none" ELSE "good"] :
                          p \in {"none", "identity"}, d \in BOOLEAN}
          /\ env \in Env
    /\ conf = Refused
    /\ proc = Dead
    /\ links = PeerLinks

Start ==
    /\ proc.at = "parse"
    /\ conf' = parse(flags, env)
    /\ proc' = IF conf'.ok THEN [proc EXCEPT !.at = "up", !.driver = TRUE, !.client = flags.peer # "none"]
               ELSE [proc EXCEPT !.at = "exited"]
    /\ UNCHANGED <<flags, env, links>>

\* The end of main ends every task of the process.
Exited == [Dead EXCEPT !.at = "exited"]

Bind(front, works) ==
    /\ proc.at = "up" /\ ~proc[front]
    /\ IF works THEN proc' = [proc EXCEPT ![front] = TRUE] ELSE proc' = Exited
    /\ UNCHANGED <<flags, env, conf, links>>

\* An error of accept ends the front end, and with it the process.
AcceptFails(front) ==
    /\ proc.at = "up" /\ proc[front]
    /\ proc' = Exited
    /\ UNCHANGED <<flags, env, conf, links>>

\* The driver takes a channel: a bridge port by dialing, which is retried for
\* ever, or the next session of the peer client.
Connect ==
    /\ proc.at = "up" /\ proc.driver /\ ~proc.link
    /\ flags.peer # "none" => proc.client /\ links > 0
    /\ proc' = [proc EXCEPT !.link = TRUE, !.built = TRUE]
    /\ links' = IF flags.peer # "none" THEN links - 1 ELSE links
    /\ UNCHANGED <<flags, env, conf>>

LinkDies ==
    /\ proc.at = "up" /\ proc.link
    /\ proc' = [proc EXCEPT !.link = FALSE]
    /\ UNCHANGED <<flags, env, conf, links>>

\* The peer client gives up and closes the sessions it hands over.
ClientStops ==
    /\ proc.at = "up" /\ proc.client
    /\ proc' = [proc EXCEPT !.client = FALSE]
    /\ UNCHANGED <<flags, env, conf, links>>

\* No further channel can come: the driver ends.
DriverStops ==
    /\ proc.at = "up" /\ proc.driver /\ ~proc.link
    /\ flags.peer # "none" /\ ~proc.client
    /\ proc' = [proc EXCEPT !.driver = FALSE, !.client = FALSE]
    /\ UNCHANGED <<flags, env, conf, links>>

\* A session cannot be built before the first channel: the driver ends and
\* drops the uplink, which aborts the peer client.
BuildFails ==
    /\ proc.at = "up" /\ proc.driver /\ ~proc.built
    /\ proc' = [proc EXCEPT !.driver = FALSE, !.client = FALSE]
    /\ UNCHANGED <<flags, env, conf, links>>

driver_exit ==
    /\ proc.at = "up" /\ ~proc.driver
    /\ proc' = Exited
    /\ UNCHANGED <<flags, env, conf, links>>

Serving == proc.at = "up" /\ UNCHANGED bootVars
Over == proc.at = "exited" /\ UNCHANGED bootVars

BootNext ==
    \/ Start
    \/ \E front \in {"socks", "http"}, works \in BOOLEAN : Bind(front, works)
    \/ \E front \in {"socks", "http"} : AcceptFails(front)
    \/ Connect
    \/ LinkDies
    \/ ClientStops
    \/ DriverStops
    \/ BuildFails
    \/ driver_exit
    \/ Serving
    \/ Over

(* Tasks run on; a closed session channel is noticed once the last link is *)
(* gone, and a link of a stopped client goes with it.                      *)
BootDue(i, front) ==
    \/ i = 1 /\ (driver_exit \/ DriverStops \/ (LinkDies /\ ~proc.client /\ flags.peer # "none"))
    \/ i = 2 /\ \E works \in BOOLEAN : Bind(front, works)

BootSpec == BootInit /\ [][BootNext]_bootVars

-----------------------------------------------------------------------------

BootTypeOK ==
    /\ conf.ok \in BOOLEAN
    /\ proc.at \in {"parse", "up", "exited"}
    /\ \A x \in {"socks", "http", "driver", "client", "link", "built"} : proc[x] \in BOOLEAN
    /\ links \in 0..PeerLinks

\* The discovery credential of a process that starts authenticates nothing, and
\* its peer key is known to no relay: both differ from every value the server
\* holds, whichever of them the seed filled in (main.rs:93-116).
KeysAreApart ==
    conf.ok =>
        /\ Set(conf.peer) => conf.peer \notin {conf.secret, conf.credential}
        /\ Set(conf.discovery) => conf.discovery \notin {conf.secret, conf.credential, conf.peer}

\* A credential the seed derived for an id is presented under exactly that id
\* (main.rs:72-74, 334-338).
IdOfCredential ==
    (conf.ok /\ conf.credential.use = "client" /\ conf.credential \notin Pasted)
        => (announced(conf).exact /\ conf.credential = Client(announced(conf).name))

\* What the operator sets on its own is what the process uses.
SetValueWins ==
    conf.ok => (Set(env.secret) => conf.secret = env.secret) /\ (Set(env.client) => conf.credential = env.client)

\* A process whose driver is gone, or whose peer client stopped for good, does
\* not go on accepting connections onto dead sessions (main.rs:416-422).
DeadDriverEndsProcessWhen == proc.at = "up" /\ (~proc.driver \/ (flags.peer # "none" /\ ~proc.client))
DeadDriverEndsProcessThen == proc.at = "exited"

\* No process is left with one front end only.
BothFrontEndsWhen == proc.at = "up"
BothFrontEndsThen == (proc.socks /\ proc.http) \/ proc.at = "exited"

-----------------------------------------------------------------------------
(***************************************************************************)
(* How znpppoe dials a bridge port on the server (bridge.rs connect, under *)
(* uplink.rs Dialer): source admission, the receive pump, the control      *)
(* handshake and hello, the task that holds the control channel, and the   *)
(* bridge claim.  Every stage may fail or time out, and then everything    *)
(* the attempt started must be gone; a pump or control task that ends by   *)
(* itself fires the attempt's Notify, on which a link that came up is      *)
(* dropped and dialed again.                                               *)
(***************************************************************************)
CONSTANTS
  BackoffMax, \* BACKOFF_MAX, in BACKOFF_STARTs
  Faults      \* bound: stages that fail and tasks that end by themselves

DialAssumption == BackoffMax \in Nat \ {0} /\ Faults \in Nat

VARIABLES
  pc,      \* the stage of the attempt, or "up", "wait"
  tasks,   \* the tasks running on behalf of the attempt or the link
  permit,  \* the stored permit of the attempt's Notify
  backoff,
  ended,   \* ghost: a task of this attempt ended by itself
  left     \* faults left

dialVars == <<pc, tasks, permit, backoff, ended, left>>

Stages == {"bind", "admit", "auth", "hello", "claim"}

Fault == left > 0 /\ left' = left - 1

(* An attempt has a Notify of its own. *)
Attempt ==
  /\ pc = "idle"
  /\ pc' = "bind" /\ permit' = FALSE /\ ended' = FALSE
  /\ UNCHANGED <<tasks, backoff, left>>

(* The socket is bound and connected. *)
Bound ==
  /\ pc = "bind"
  /\ pc' = "admit"
  /\ UNCHANGED <<tasks, permit, backoff, ended, left>>

(* The server admits the source; the receive pump starts. *)
Admitted ==
  /\ pc = "admit"
  /\ pc' = "auth" /\ tasks' = tasks \cup {"pump"}
  /\ UNCHANGED <<permit, backoff, ended, left>>

(* The control handshake is done and the hello is sent.  It needs the pump *)
(* to have delivered the answer.                                           *)
Authorized ==
  /\ pc = "auth" /\ "pump" \in tasks
  /\ pc' = "hello"
  /\ UNCHANGED <<tasks, permit, backoff, ended, left>>

(* The hello is acknowledged; the control channel gets a task. *)
HelloAck ==
  /\ pc = "hello" /\ "pump" \in tasks
  /\ pc' = "claim" /\ tasks' = tasks \cup {"control"}
  /\ UNCHANGED <<permit, backoff, ended, left>>

(* The bridge handshake is done: the link is up. *)
Claimed ==
  /\ pc = "claim" /\ "pump" \in tasks
  /\ pc' = "up" /\ backoff' = 1
  /\ UNCHANGED <<tasks, permit, ended, left>>

Doubled == IF 2 * backoff > BackoffMax THEN BackoffMax ELSE 2 * backoff


(* What is left running once the guards (AbortOnDrop) of an attempt or a   *)
(* link are dropped.                                                       *)
Released == {}

(* A stage fails or times out, or the credential is in use. *)
Fail ==
  /\ pc \in Stages
  /\ Fault \/ (pc \in {"auth", "hello", "claim"} /\ "pump" \notin tasks
               /\ UNCHANGED left)
  /\ pc' = "wait" /\ tasks' = Released
  /\ UNCHANGED <<permit, backoff, ended>>

(* The wait is over. *)
Retry ==
  /\ pc = "wait"
  /\ pc' = "idle" /\ backoff' = Doubled
  /\ UNCHANGED <<tasks, permit, ended, left>>

(* The pump meets a refused or reset socket, or the control channel ends:  *)
(* the task fires the Notify and is gone.                                  *)
Ends(t) ==
  /\ t \in tasks /\ Fault
  /\ tasks' = tasks \ {t} /\ ended' = TRUE /\ permit' = TRUE
  /\ UNCHANGED <<pc, backoff>>

(* The driver finds the permit and drops the link. *)
Cancelled ==
  /\ pc = "up" /\ permit
  /\ pc' = "idle" /\ tasks' = Released /\ permit' = FALSE
  /\ UNCHANGED <<backoff, ended, left>>

(* The link carries frames. *)
Carrying == pc = "up" /\ ~ permit /\ UNCHANGED dialVars

DialInit == pc = "idle" /\ tasks = {} /\ permit = FALSE /\ backoff = 1
            /\ ended = FALSE /\ left = Faults

DialNext ==
  \/ Attempt
  \/ Bound
  \/ Admitted
  \/ Authorized
  \/ HelloAck
  \/ Claimed
  \/ Fail
  \/ Retry
  \/ \E t \in {"pump", "control"} : Ends(t)
  \/ Cancelled
  \/ Carrying

DialSpec == DialInit /\ [][DialNext]_dialVars

(* A reachable server answers, every wait is timed, and the driver polls   *)
(* the Notify.                                                             *)
DialDue == Attempt \/ Bound \/ Admitted \/ Authorized \/ HelloAck \/ Claimed \/ Retry \/ Cancelled \/ (Fail /\ left' = left)

----------------------------------------------------------------------------
(* The type invariant. *)
DialTypeOK ==
  /\ pc \in Stages \cup {"idle", "wait", "up"}
  /\ tasks \subseteq {"pump", "control"} /\ permit \in BOOLEAN
  /\ backoff \in 1 .. BackoffMax /\ ended \in BOOLEAN /\ left \in 0 .. Faults

(* An attempt that failed and a link that was dropped leave no task        *)
(* behind, whichever stage it was in (AbortOnDrop, the test                *)
(* handshake_timeout_leaves_no_tasks_behind).                              *)
NoTasksBehind == pc \in {"idle", "wait", "bind", "admit"} => tasks = {}

(* A link is dropped by the Notify only because one of its own tasks       *)
(* ended: nothing an earlier attempt left fires it.                        *)
OwnCancel == pc = "up" /\ permit => ended

(* A link whose pump or control task ended, at whatever stage, does not    *)
(* stay up: the permit is kept until the driver looks.                     *)
DeadLinkNoticedWhen == ended /\ pc = "up"
DeadLinkNoticedThen == pc # "up"

(* The port comes up again after every failure. *)
ComesUpWhen == pc # "up"
ComesUpThen == pc = "up"
=============================================================================
