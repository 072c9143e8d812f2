---------------------------- MODULE ActiveTarget ----------------------------
(***************************************************************************)
(* The client's active target: what is selected with the peers and the mode*)
(* beside it (ActiveTarget), the loop that follows it and holds devices,   *)
(* slots and routes for it (ClientLoop), and the administration of a       *)
(* running client with the file it saves (ClientControl). The loop and the *)
(* administration both extend the first; each has its own Init and Next.   *)
(***************************************************************************)
EXTENDS Naturals, FiniteSets

(***************************************************************************)
(* What a running client should be serving (src/src/client.rs): the server *)
(* profile, the session body and the peer slots behind one mutex, and the  *)
(* cancel every mutator fires. The cancel is a Notify: firing it leaves at *)
(* most one permit, taken by the reconnect loop.                           *)
(*                                                                         *)
(* A body is "idle", "forwards", "offline", a device or a pppoe session. A *)
(* body and a slot claim OS devices and the default route by name.         *)
(***************************************************************************)
CONSTANTS
    Target,       \* server profiles
    Pppoe,        \* configured pppoe sessions
    Device,       \* the tap or tun body, if the client has one
    Slot,         \* peer slot records an operator may attach
    Role,         \* a slot's role: "consumer", "exit" or "segment"
    Resource,     \* network devices and the default route
    Needs         \* what each device, pppoe session and slot opens

Body == {"idle", "forwards", "offline"} \cup Pppoe \cup Device

ActiveAssumption ==
    /\ Role \in [Slot -> {"consumer", "exit", "segment"}]
    /\ Needs \in [Pppoe \cup Device \cup Slot -> SUBSET Resource]
    /\ {"idle", "forwards", "offline"} \cap (Pppoe \cup Device) = {}

VARIABLES
    target,       \* ActiveState.target
    mode,         \* ActiveState.mode
    peers,        \* ActiveState.peers
    permit        \* the current cancel holds its one permit

ActiveTypeOK ==
    /\ target \in Target
    /\ mode \in Body
    /\ peers \subseteq Slot
    /\ permit \in BOOLEAN

-----------------------------------------------------------------------------
\* RunMode::claims: only a device or pppoe body opens anything.
Claims(body) == IF body \in Pppoe \cup Device THEN Needs[body] ELSE {}

\* peer_claims of a slot set.
PeerClaims(slots) == UNION {Needs[s] : s \in slots}

\* SlotClaims::new accepts a set that does not contend with itself.
SelfConsistent(slots) ==
    \A s, t \in slots : s # t => Needs[s] \cap Needs[t] = {}

\* SlotClaims::admit.
Admit(held, incoming) == held \cap incoming = {}

\* check_slot_identities: one consumer, one provider per capability.
DistinctIdentities(slots) ==
    \A s, t \in slots : s # t => Role[s] # Role[t]

\* derive_mode, given whether any forward is declared.
DeriveMode(declared, fallback) == IF declared THEN "forwards" ELSE fallback

\* init_slots accepts a configured slot set beside the boot body.
Bootable(slots, body) ==
    /\ DistinctIdentities(slots)
    /\ SelfConsistent(slots)
    /\ Admit(PeerClaims(slots), Claims(body))

InitSlots(slots, body) ==
    /\ Bootable(slots, body)
    /\ peers = slots
    /\ mode = body
    /\ permit = FALSE

-----------------------------------------------------------------------------
\* attach_peer that looks at the boot body and not at the running one.
AttachPastRunning(s, boot) ==
    /\ \A t \in peers : Role[t] # Role[s]
    /\ SelfConsistent(peers \cup {s})
    /\ Admit(Claims(boot), Needs[s])
    /\ peers' = peers \cup {s}
    /\ permit' = TRUE
    /\ UNCHANGED <<target, mode>>

\* attach_peer: admitted against the slots, the running body and the boot body.
AttachPeer(s, boot) ==
    /\ \A t \in peers : Role[t] # Role[s]
    /\ SelfConsistent(peers \cup {s})
    /\ Admit(Claims(mode), Needs[s])
    /\ Admit(Claims(boot), Needs[s])
    /\ peers' = peers \cup {s}
    /\ permit' = TRUE
    /\ UNCHANGED <<target, mode>>

DetachPeer(s) ==
    /\ s \in peers
    /\ peers' = peers \ {s}
    /\ permit' = TRUE
    /\ UNCHANGED <<target, mode>>

Switch(t) ==
    /\ target' = t
    /\ permit' = TRUE
    /\ UNCHANGED <<mode, peers>>

\* set_mode: a body whose claims a slot holds is refused.
SetMode(body) ==
    /\ Admit(PeerClaims(peers), Claims(body))
    /\ mode' = body
    /\ permit' = TRUE
    /\ UNCHANGED <<target, peers>>

Disconnect ==
    /\ mode # "offline"
    /\ mode' = "offline"
    /\ permit' = TRUE
    /\ UNCHANGED <<target, peers>>

\* connect: the way out of a park, to the body boot would derive.
Connect(t, boot) ==
    /\ mode \in {"idle", "offline"}
    /\ Admit(PeerClaims(peers), Claims(boot))
    /\ target' = t
    /\ mode' = boot
    /\ permit' = TRUE
    /\ UNCHANGED peers

StopPppoe(name, base) ==
    /\ mode = name
    /\ mode' = base
    /\ permit' = TRUE
    /\ UNCHANGED <<target, peers>>

\* serve_forwards: an idle client starts serving, a forwards body is redialed.
ServeForwards ==
    /\ mode' = IF mode = "idle" THEN "forwards" ELSE mode
    /\ permit' = (permit \/ mode \in {"idle", "forwards"})
    /\ UNCHANGED <<target, peers>>

KickIfForwards ==
    /\ permit' = (permit \/ mode = "forwards")
    /\ UNCHANGED <<target, mode, peers>>

-----------------------------------------------------------------------------
(***************************************************************************)
(* The client's reconnect loop (`switchable` in src/src/client.rs). Each   *)
(* turn snapshots the active target under a fresh cancel, opens the body's *)
(* device, starts the peer slots, and dials until the cancel's permit is   *)
(* there to take. A switch is a barrier: the session task and then every   *)
(* slot task is aborted and awaited before the next turn opens anything.   *)
(*                                                                         *)
(* Mutators of the active target run at any moment, as the admin socket    *)
(* calls them. A session is reduced to how it ends; a device that fails to *)
(* open and a profile that cannot be dialed end the loop.                  *)
(***************************************************************************)
CONSTANTS
    Dht,          \* profiles whose address is looked up on the DHT
    Undialable,   \* dht profiles this build or profile cannot resolve
    LoopFallback      \* the boot body when no forward is declared

LoopAssumption ==
    /\ Undialable \subseteq Dht /\ Dht \subseteq Target
    /\ LoopFallback \in Body \ {"forwards", "offline"}

VARIABLES
    pc,           \* where the loop waits
    running,      \* what begin() handed this turn
    held,         \* what the body's open device and routes hold
    up,           \* peer slots whose tasks are alive
    session,      \* the session task is alive
    declared,     \* some forward is declared
    loopServers,      \* SharedServers
    memo,         \* profiles with dial state; TRUE when an address is cached
    known         \* last_addr is set

shared == <<target, mode, peers>>
turn == <<running, held, up, session, memo, known>>
loopVars == <<target, mode, peers, permit, declared, loopServers,
              pc, running, held, up, session, memo, known>>

Current == [target |-> target, mode |-> mode, peers |-> peers]
Waits == {"begin", "park", "open", "resolve", "routes", "session",
          "stopping", "pause", "barrier", "exited"}

\* prepare: the boot body and slots of a file init_slots accepts.
LoopInit ==
    /\ target \in Target
    /\ declared \in (IF LoopFallback \in Device THEN {FALSE} ELSE BOOLEAN)
    /\ \E slots \in SUBSET Slot :
         InitSlots(slots, DeriveMode(declared, LoopFallback))
    /\ pc = "begin"
    /\ running = Current
    /\ held = {} /\ up = {} /\ session = FALSE
    /\ loopServers \in {s \in SUBSET Target : target \in s}
    /\ memo = [t \in {} |-> FALSE]
    /\ known = FALSE

-----------------------------------------------------------------------------
\* An offline client and an idle one with no slot run nothing.
Parks(r) == r.mode = "offline" \/ (r.mode = "idle" /\ r.peers = {})

\* begin(), then the park of an offline client or an idle one with no slot.
Begin ==
    /\ pc = "begin"
    /\ running' = Current
    /\ permit' = FALSE
    /\ pc' = IF Parks(Current) THEN "park" ELSE "open"
    /\ UNCHANGED shared
    /\ UNCHANGED <<declared, loopServers, held, up, session, memo, known>>

\* cancel.notified() of a parked client.
Unpark ==
    /\ pc = "park" /\ permit
    /\ permit' = FALSE
    /\ pc' = "begin"
    /\ UNCHANGED shared
    /\ UNCHANGED <<declared, loopServers>>
    /\ UNCHANGED turn

\* prune drops the entries of removed profiles, state adds this profile's.
PrunedMemo(t) ==
    [p \in (DOMAIN memo \cap loopServers) \cup {t} |->
        IF p \in DOMAIN memo THEN memo[p] ELSE FALSE]

\* The dial state, the device and the slot tasks of a turn, with no await
\* between. A profile without a resolver or a device that does not open ends
\* the loop.
Open ==
    /\ pc = "open"
    /\ \/ /\ running.target \notin Undialable
          /\ memo' = PrunedMemo(running.target)
          /\ held' = IF running.mode \in Device THEN Claims(running.mode) ELSE {}
          /\ up' = running.peers
          /\ known' = FALSE
          /\ pc' = "resolve"
       \/ /\ running.target \in Undialable \/ running.mode \in Device
          /\ pc' = "exited"
          /\ UNCHANGED <<memo, held, up, known>>
    /\ UNCHANGED shared
    /\ UNCHANGED <<permit, declared, loopServers, running, session>>

\* A session task is spawned; a pppoe body opens its own device.
Spawn ==
    /\ pc' = "session"
    /\ session' = TRUE
    /\ held' = Claims(running.mode)

\* discovery.resolve: a cached or static address, a lookup, or a failed lookup
\* that falls back to the last address this turn dialed, if there is one.
Resolve ==
    LET t == running.target
        cold == t \in Dht /\ ~memo[t]
    IN
    /\ pc = "resolve"
    /\ \/ /\ known' = TRUE
          /\ memo' = [memo EXCEPT ![t] = t \in Dht]
       \/ cold /\ UNCHANGED <<known, memo>>
    /\ \/ ~known' /\ pc' = "pause" /\ UNCHANGED <<session, held>>
       \/ known' /\ running.mode \in Device /\ pc' = "routes"
          /\ UNCHANGED <<session, held>>
       \/ known' /\ running.mode \notin Device /\ Spawn
    /\ UNCHANGED shared
    /\ UNCHANGED <<permit, declared, loopServers, running, up>>

\* ensure_exit_routes of a device body; it does not watch the cancel.
Routes ==
    /\ pc = "routes"
    /\ \/ Spawn
       \/ pc' = "pause" /\ UNCHANGED <<session, held>>
    /\ UNCHANGED shared
    /\ UNCHANGED <<permit, declared, loopServers, running, up, memo, known>>

\* The session task ends by itself. A dial that never established drops the
\* cached address of a dht profile.
SessionEnds ==
    /\ pc = "session"
    /\ session' = FALSE
    /\ held' = IF running.mode \in Device THEN held ELSE {}
    /\ \E established \in BOOLEAN :
         memo' = IF established THEN memo
                 ELSE [memo EXCEPT ![running.target] = FALSE]
    /\ pc' = "pause"
    /\ UNCHANGED shared
    /\ UNCHANGED <<permit, declared, loopServers, running, up, known>>

\* pause: the redial delay runs out.
Redial ==
    /\ pc = "pause"
    /\ pc' = "resolve"
    /\ UNCHANGED shared
    /\ UNCHANGED <<permit, declared, loopServers>>
    /\ UNCHANGED turn

\* The cancel is taken in one of the loop's three waits.
Cancel ==
    /\ pc \in {"resolve", "session", "pause"}
    /\ permit
    /\ permit' = FALSE
    /\ pc' = IF session THEN "stopping" ELSE "barrier"
    /\ UNCHANGED shared
    /\ UNCHANGED <<declared, loopServers>>
    /\ UNCHANGED turn

\* The aborted session task is awaited.
SessionStopped ==
    /\ pc = "stopping"
    /\ session' = FALSE
    /\ held' = IF running.mode \in Device THEN held ELSE {}
    /\ pc' = "barrier"
    /\ UNCHANGED shared
    /\ UNCHANGED <<permit, declared, loopServers, running, up, memo, known>>

\* Each slot task is aborted and awaited; the device goes last.
Barrier ==
    /\ pc = "barrier"
    /\ \/ /\ \E s \in up : up' = up \ {s}
          /\ UNCHANGED <<pc, held>>
       \/ /\ up = {}
          /\ pc' = "begin" /\ held' = {}
          /\ UNCHANGED up
    /\ UNCHANGED shared
    /\ UNCHANGED <<permit, declared, loopServers, running, session, memo, known>>

Loop ==
    \/ Begin \/ Unpark \/ Open \/ Resolve \/ Routes \/ SessionEnds \/ Redial
    \/ Cancel \/ SessionStopped \/ Barrier

-----------------------------------------------------------------------------
\* The mutations of the admin socket, between any two steps of the loop.
Boot == DeriveMode(declared, LoopFallback)
Mutate ==
    /\ pc # "exited"
    /\ \/ \E s \in Slot : AttachPeer(s, Boot) \/ DetachPeer(s)
       \/ \E t \in loopServers \ Undialable : Switch(t)
       \/ \E p \in Pppoe : SetMode(p) \/ StopPppoe(p, DeriveMode(declared, "idle"))
       \/ Disconnect
       \/ \E t \in {target} \cup (loopServers \ Undialable) : Connect(t, Boot)
    /\ UNCHANGED <<declared, loopServers, pc>>
    /\ UNCHANGED turn

\* add_forward and remove_forward of the first or last forward; a device
\* client has none.
EditForwards ==
    /\ pc # "exited"
    /\ LoopFallback \notin Device
    /\ \/ declared' = TRUE /\ ServeForwards
       \/ declared /\ declared' \in BOOLEAN /\ KickIfForwards
    /\ UNCHANGED <<loopServers, pc>>
    /\ UNCHANGED turn

\* SharedServers::add and remove; the active profile is not removed.
EditServers ==
    /\ pc # "exited"
    /\ \E t \in Target \ {target} :
         loopServers' = IF t \in loopServers THEN loopServers \ {t} ELSE loopServers \cup {t}
    /\ UNCHANGED shared
    /\ UNCHANGED <<permit, declared, pc>>
    /\ UNCHANGED turn

\* The loop has returned and the process ends.
Exited == pc = "exited" /\ UNCHANGED loopVars

LoopNext == Loop \/ Mutate \/ EditForwards \/ EditServers \/ Exited

LoopSpec == LoopInit /\ [][LoopNext]_loopVars

\* A task the loop awaits finishes, a timer fires, and a wait that holds a
\* permit each time it is polled takes it.
LoopDue == Loop
LoopInsisted == Cancel

-----------------------------------------------------------------------------
TypeOK ==
    /\ ActiveTypeOK
    /\ pc \in Waits
    /\ running \in [target : Target, mode : Body, peers : SUBSET Slot]
    /\ held \subseteq Resource
    /\ up \subseteq Slot
    /\ session \in BOOLEAN /\ declared \in BOOLEAN /\ known \in BOOLEAN
    /\ loopServers \subseteq Target
    /\ DOMAIN memo \subseteq Target
    /\ \A t \in DOMAIN memo : memo[t] \in BOOLEAN

\* A change of profile, body or slots is never lost: while the loop serves
\* something other than what the mutators asked for, either the cancel still
\* holds its permit or the loop is already on its way to the next begin().
SwitchPending ==
    pc \in Waits \ {"begin", "stopping", "barrier", "exited"} =>
        (permit \/ running = Current)

\* A device and the default route have one holder at a time: the body's claims
\* and those of every slot task still alive never overlap, across switches
\* too.
SoleHolder ==
    /\ \A s, t \in up : s # t => Needs[s] \cap Needs[t] = {}
    /\ held \cap PeerClaims(up) = {}

\* The dial memo stays bounded by the configured profiles: a turn starts with
\* no entry for a profile that has been removed.
MemoPruned ==
    pc = "open" /\ pc' = "resolve" =>
       DOMAIN memo' \subseteq loopServers \cup {running.target}

\* An offline client holds nothing and runs nothing once its turn has begun.
OfflineHoldsNothing ==
    pc = "park" => ~session /\ up = {} /\ held = {}

\* When the administration stops, the loop ends up serving what was asked
\* last, or has returned.
SettlesWhen == Mutate \/ EditForwards
SettlesThen == pc = "exited" \/ running = Current

-----------------------------------------------------------------------------
(***************************************************************************)
(* The admin socket of a running client (src/src/clientctl.rs) and the     *)
(* config file behind it. Exchanges are served one at a time: `apply`      *)
(* validates and edits the shared state and the parsed config without      *)
(* waiting, then `save` is awaited, then the session body is kicked. The   *)
(* exchange timeout can drop the exchange at that await: the blocking save *)
(* goes on as an orphan, and what followed the await never happens.        *)
(*                                                                         *)
(* The file is rewritten whole under a gate, and a save can fail. The      *)
(* process can be killed anywhere and boots from what the file holds.      *)
(* Options of a forward are reduced to whether it is enabled.              *)
(***************************************************************************)
CONSTANTS
    Forward,      \* (proto, port) keys of forwards
    Secret,       \* a profile's secret
    Discovery,    \* a profile's discovery credential, or NoSecret
    PeerSecret,   \* [client] peer_secret, or NoSecret
    NoSecret,
    ControlFallback,     \* the boot body when no forward is declared
    FileStart,    \* the config files the client may first boot from
    MaxOrphans    \* abandoned saves alive at once

ControlAssumption ==
    /\ ControlFallback \in Body \ {"forwards", "offline"}
    /\ DOMAIN Secret = Target /\ DOMAIN Discovery = Target

VARIABLES
    fwds,         \* SharedForwards: declared key -> enabled
    controlServers,      \* SharedServers
    cfg,          \* the parsed config of Persist
    file,         \* what the config file holds
    exchange,     \* "free", or "saving" while the save is awaited
    after,        \* what follows the awaited save
    waiting,      \* saves waiting for the gate: "own" or orphans
    orphans,      \* orphan saves waiting for the gate
    writing       \* saves inside the gate

runtime == <<fwds, controlServers>>
saving == <<exchange, after, waiting, orphans, writing>>
controlVars == <<target, mode, peers, permit, fwds, controlServers, cfg, file, exchange,
                 after, waiting, orphans, writing>>

Declared == DOMAIN fwds # {}
BootMode == DeriveMode(Declared, ControlFallback)
BaseMode == DeriveMode(Declared, "idle")

-----------------------------------------------------------------------------
\* ClientConfig::validate.
Validates(c) ==
    /\ c.slots # {} => PeerSecret # NoSecret
    /\ c.active \in c.servers
    /\ \A s \in c.servers :
         /\ PeerSecret = NoSecret \/ Secret[s] # PeerSecret
         /\ \A t \in c.servers : Discovery[s] # Secret[t]
         /\ Discovery[s] # PeerSecret \/ PeerSecret = NoSecret
    /\ ControlFallback \in Device => DOMAIN c.forwards = {}

\* boot_from_file and prepare accept the file.
Boots(c) ==
    /\ Validates(c)
    /\ Bootable(c.slots, DeriveMode(DOMAIN c.forwards # {}, ControlFallback))

ControlInit ==
    /\ file \in {c \in FileStart : Boots(c)}
    /\ cfg = file
    /\ target = file.active
    /\ InitSlots(file.slots, DeriveMode(DOMAIN file.forwards # {}, ControlFallback))
    /\ fwds = file.forwards
    /\ controlServers = file.servers
    /\ exchange = "free" /\ after = "nothing"
    /\ waiting = FALSE /\ orphans = 0 /\ writing = {}

\* mutate: the edit is applied and its save handed to a blocking thread.
Saves(next) ==
    /\ exchange' = "saving"
    /\ after' = next
    /\ waiting' = TRUE
    /\ UNCHANGED <<file, orphans, writing>>

Stays == UNCHANGED <<permit, target, mode, peers>>

-----------------------------------------------------------------------------
\* Mutations that are not written back: SpawnPppoe, StopSession, Disconnect
\* and a Connect that names no profile.
RuntimeOnly ==
    /\ exchange = "free"
    /\ \/ \E p \in Pppoe : SetMode(p) \/ StopPppoe(p, BaseMode)
       \/ Disconnect
       \/ Connect(target, BootMode)
    /\ UNCHANGED <<fwds, controlServers, cfg, file>>
    /\ UNCHANGED saving

\* undialable reduces to the profiles a dht build cannot resolve.
SelectServer(t) ==
    /\ exchange = "free"
    /\ t \in controlServers
    /\ Switch(t)
    /\ cfg' = [cfg EXCEPT !.active = t]
    /\ Saves("nothing")
    /\ UNCHANGED runtime

ConnectNamed(t) ==
    /\ exchange = "free"
    /\ t \in controlServers
    /\ Connect(t, BootMode)
    /\ cfg' = [cfg EXCEPT !.active = t]
    /\ Saves("nothing")
    /\ UNCHANGED runtime

\* add_server: the message carries no discovery credential, and the secret
\* must not be the discovery credential of a configured profile.
AddServer(t) ==
    /\ exchange = "free"
    /\ t \notin controlServers /\ Discovery[t] = NoSecret
    /\ \A s \in controlServers : Discovery[s] # Secret[t]
    /\ controlServers' = controlServers \cup {t}
    /\ cfg' = [cfg EXCEPT !.servers = @ \cup {t}]
    /\ Saves("nothing")
    /\ Stays /\ UNCHANGED fwds

RemoveServer(t) ==
    /\ exchange = "free"
    /\ t \in controlServers /\ t # target
    /\ controlServers' = controlServers \ {t}
    /\ cfg' = [cfg EXCEPT !.servers = @ \ {t}]
    /\ Saves("nothing")
    /\ Stays /\ UNCHANGED fwds

\* The forward map with one entry's options replaced or added.
With(f, on) == [k \in DOMAIN fwds \cup {f} |-> IF k = f THEN on ELSE fwds[k]]

\* add_forward: refused on a device-bound client.
AddForward(f, on) ==
    /\ exchange = "free"
    /\ ControlFallback \notin Device
    /\ f \notin DOMAIN fwds
    /\ fwds' = With(f, on)
    /\ cfg' = [cfg EXCEPT !.forwards = With(f, on)]
    /\ Saves("serve")
    /\ Stays /\ UNCHANGED controlServers

SetForwardOptions(f, on) ==
    /\ exchange = "free"
    /\ f \in DOMAIN fwds
    /\ fwds' = With(f, on)
    /\ cfg' = [cfg EXCEPT !.forwards = With(f, on)]
    /\ Saves("kick")
    /\ Stays /\ UNCHANGED controlServers

RemoveForward(f) ==
    /\ exchange = "free"
    /\ f \in DOMAIN fwds
    /\ fwds' = [k \in DOMAIN fwds \ {f} |-> fwds[k]]
    /\ cfg' = [cfg EXCEPT !.forwards = fwds']
    /\ Saves("kick")
    /\ Stays /\ UNCHANGED controlServers

\* attach_peer: the record it saves is the slot it attaches.
Attach(s) ==
    /\ exchange = "free"
    /\ PeerSecret # NoSecret
    /\ AttachPeer(s, BootMode)
    /\ cfg' = [cfg EXCEPT !.slots = @ \cup {s}]
    /\ Saves("nothing")
    /\ UNCHANGED runtime

Detach(s) ==
    /\ exchange = "free"
    /\ DetachPeer(s)
    /\ cfg' = [cfg EXCEPT !.slots = @ \ {s}]
    /\ Saves("nothing")
    /\ UNCHANGED runtime

-----------------------------------------------------------------------------

\* A save takes the gate and serializes the config as it is then.
EnterGate ==
    /\ writing = {}
    /\ \/ waiting /\ waiting' = FALSE /\ orphans' = orphans
          /\ writing' = {[text |-> cfg, own |-> TRUE]}
       \/ orphans > 0 /\ orphans' = orphans - 1 /\ waiting' = waiting
          /\ writing' = {[text |-> cfg, own |-> FALSE]}
    /\ UNCHANGED <<cfg, file, exchange, after>>
    /\ Stays /\ UNCHANGED runtime

\* What mutate does once its save has returned, saved or not.
Follow(w) ==
    IF ~w.own THEN UNCHANGED <<exchange, after>> /\ Stays
    ELSE /\ exchange' = "free" /\ after' = "nothing"
         /\ \/ after = "nothing" /\ Stays
            \/ after = "serve" /\ ServeForwards
            \/ after = "kick" /\ KickIfForwards

\* save_atomic renames the new text into place; a failed one changes nothing
\* and leaves the file behind the config until the next save.
Write(ok) ==
    \E w \in writing :
        /\ writing' = writing \ {w}
        /\ file' = IF ok THEN w.text ELSE file
        /\ Follow(w)
        /\ UNCHANGED <<cfg, waiting, orphans>>
        /\ UNCHANGED runtime

\* EXCHANGE_TIMEOUT drops the exchange at the await; its save lives on.
TimeOut ==
    /\ exchange = "saving"
    /\ orphans < MaxOrphans
    /\ exchange' = "free" /\ after' = "nothing"
    /\ waiting' = FALSE
    /\ orphans' = IF waiting THEN orphans + 1 ELSE orphans
    /\ writing' = {[w EXCEPT !.own = FALSE] : w \in writing}
    /\ UNCHANGED <<cfg, file>>
    /\ Stays /\ UNCHANGED runtime

\* The process is killed and boots again, if its file lets it.
Restart ==
    /\ Boots(file)
    /\ cfg' = file
    /\ target' = file.active
    /\ peers' = file.slots
    /\ mode' = DeriveMode(DOMAIN file.forwards # {}, ControlFallback)
    /\ permit' = FALSE
    /\ fwds' = file.forwards /\ controlServers' = file.servers
    /\ exchange' = "free" /\ after' = "nothing"
    /\ waiting' = FALSE /\ orphans' = 0 /\ writing' = {}
    /\ UNCHANGED file

\* The reconnect loop begins a turn.
LoopBegins ==
    /\ permit
    /\ permit' = FALSE
    /\ UNCHANGED <<target, mode, peers, cfg, file>>
    /\ UNCHANGED runtime /\ UNCHANGED saving

Mutation ==
    \/ RuntimeOnly
    \/ \E t \in Target : SelectServer(t) \/ ConnectNamed(t) \/ AddServer(t)
                         \/ RemoveServer(t)
    \/ \E f \in Forward, on \in BOOLEAN : AddForward(f, on) \/ SetForwardOptions(f, on)
    \/ \E f \in Forward : RemoveForward(f)
    \/ \E s \in Slot : Attach(s) \/ Detach(s)

ControlNext ==
    \/ Mutation \/ EnterGate \/ Write(TRUE) \/ Write(FALSE) \/ TimeOut
    \/ Restart \/ LoopBegins

\* A disk that takes every write.
SoundDisk == Mutation \/ EnterGate \/ Write(TRUE) \/ TimeOut \/ Restart \/ LoopBegins

ControlSpec == ControlInit /\ [][ControlNext]_controlVars
SoundDiskSpec == ControlInit /\ [][SoundDisk]_controlVars

-----------------------------------------------------------------------------
File == [active : Target, servers : SUBSET Target,
         forwards : UNION {[D -> BOOLEAN] : D \in SUBSET Forward},
         slots : SUBSET Slot]

ControlTypeOK ==
    /\ ActiveTypeOK
    /\ fwds \in UNION {[D -> BOOLEAN] : D \in SUBSET Forward}
    /\ controlServers \subseteq Target
    /\ cfg \in File /\ file \in File
    /\ exchange \in {"free", "saving"}
    /\ after \in {"nothing", "serve", "kick"}
    /\ waiting \in BOOLEAN /\ orphans \in 0..MaxOrphans
    /\ writing \subseteq [text : File, own : BOOLEAN]

\* The parsed config and the running state never drift apart: a restart from
\* the config serves the profiles, forwards, slots and target of this moment.
ConfigMatchesRuntime ==
    /\ cfg.servers = controlServers
    /\ cfg.forwards = fwds
    /\ cfg.slots = peers
    /\ cfg.active = target

\* No abandoned save lands behind a newer one: on a disk that takes every
\* write the file holds the config once no save is left.
FileCatchesUp ==
    ~waiting /\ orphans = 0 /\ writing = {} => file = cfg

\* A file the client saved is one it boots from: it parses, validates and its
\* slots do not contend with the body boot derives.
SavedFileBoots == Boots(file)
=============================================================================
