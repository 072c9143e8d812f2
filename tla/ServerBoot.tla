----------------------------- MODULE ServerBoot -----------------------------
(***************************************************************************)
(* How a server comes to its settings: the command line merged with the    *)
(* config file (server_boot in src/src/main.rs), the credentials crossed   *)
(* and the sockets opened (src/src/server.rs), what a save writes back,    *)
(* and the next start over both. A credential is <<label, name>>: entered  *)
(* ("raw") or derived from a seed under a label; <<>> is one not set.      *)
(***************************************************************************)
EXTENDS Naturals, Sequences, FiniteSets

CONSTANTS
    FlagSets,     \* the command lines an operator starts the server with
    Files,        \* the config files it may first be started over
    Added,        \* listeners an admin may add
    Damage,       \* bound: times the file is found damaged
    Starts,       \* bound: starts
    BadCookies    \* whether the random source may fail under the UDP listener

ServerBootAssumption == Damage \in Nat /\ Starts \in Nat /\ BadCookies \in BOOLEAN

VARIABLES
    flags,    \* the command line of the next start
    file,     \* [kind, cfg]: absent, malformed, or ok with its settings
    proc,     \* the running server, or down
    last,     \* what the last server that came up was: its command line, its settings, untouched since
    left      \* damage and starts left
vars == <<flags, file, proc, last, left>>

None == <<>>
Or(a, b) == IF a = None THEN b ELSE a

Default ==
    [id |-> None, ip |-> None, port |-> None, seed |-> None, admin |-> None, exit |-> None, iface |-> None,
     clients |-> {}, listeners |-> {}]

Derive(label, seed) == IF seed = None THEN None ELSE <<label, seed[2]>>

-----------------------------------------------------------------------------
\* A damaged file is read as one that sets nothing; it is moved aside when that works.
Loaded == IF file.kind = "ok" THEN file.cfg ELSE Default

\* The file's identity and control address win over the command line.
Identity(cfg) ==
    [id |-> Or(Or(cfg.id, flags.id), <<"0">>), ip |-> Or(Or(cfg.ip, flags.ip), <<"any">>),
     port |-> Or(Or(cfg.port, flags.port), <<2222>>)]

\* An explicit value wins; the seed, the file's first, fills what is left.
Secrets(cfg) ==
    LET seed == Or(cfg.seed, flags.seed) IN
    [seed |-> seed, secret |-> Or(flags.secret, Derive("network", seed)),
     discovery |-> Or(flags.discovery, Derive("discovery", seed)),
     ownAdmin |-> Or(cfg.admin, flags.admin),
     admin |-> Or(Or(cfg.admin, flags.admin), Derive("admin", seed))]

Exit(cfg) ==
    [exit |-> IF cfg.exit = None THEN flags.exit ELSE cfg.exit = <<TRUE>>, iface |-> Or(cfg.iface, flags.iface)]

\* A CLI port the file lists locks that listener, which stays the file's; another is the command line's own.
Listeners(cfg, ip) ==
    LET cli == {<<ip, p>> : p \in flags.ports} IN
    [k \in cfg.listeners \cup cli |->
        [source |-> IF k \in cfg.listeners THEN "file" ELSE "cli", locked |-> k \in cli]]

client_specs(cfg, seed) ==
    {[id |-> c.id, secret |-> IF c.secret = None /\ seed # None THEN <<"client", seed[2], c.id>> ELSE c.secret] :
        c \in IF cfg.clients = {} THEN flags.clients ELSE cfg.clients}

\* A --tun server owns every port; --except and --exit belong to it, and an exit needs another way out.
Refused(s) ==
    \/ s.secret = None
    \/ flags.dht /\ s.discovery = None
    \/ flags.tun /\ (flags.tap \/ s.listeners # <<>>)
    \/ flags.except /\ ~flags.tun
    \/ s.exit /\ ~flags.tun
    \/ s.iface # None /\ ~s.exit
    \/ s.iface = <<"zntun0">>
    \/ flags.tap /\ s.listeners # <<>>

\* The recorded address is the default one.
FileKeysStale(cfg, s) ==
    IF file.kind # "malformed" THEN cfg
    ELSE [cfg EXCEPT !.id = s.id, !.ip = <<"any">>, !.port = <<2222>>, !.seed = s.seed, !.admin = s.ownAdmin,
                     !.exit = IF s.exit THEN <<TRUE>> ELSE None, !.iface = s.iface]

\* After a damaged file the resolved settings are recorded, so that the rewritten file matches the server;
\* otherwise the keys the file had are kept as they were.
FileKeys(cfg, s) ==
    IF file.kind # "malformed" THEN cfg
    ELSE [cfg EXCEPT !.id = s.id, !.ip = s.ip, !.port = s.port, !.seed = s.seed, !.admin = s.ownAdmin,
                     !.exit = IF s.exit THEN <<TRUE>> ELSE None, !.iface = s.iface]

server_boot(cfg) ==
    LET i == Identity(cfg)
        c == Secrets(cfg)
        e == Exit(cfg)
        s == [id |-> i.id, ip |-> i.ip, port |-> i.port, seed |-> c.seed, secret |-> c.secret,
              discovery |-> c.discovery, ownAdmin |-> c.ownAdmin, admin |-> c.admin, exit |-> e.exit, iface |-> e.iface,
              listeners |-> Listeners(cfg, i.ip), clients |-> client_specs(cfg, c.seed)]
    IN  [settings |-> s, keys |-> FileKeys(cfg, s), refused |-> Refused(s)]

\* Every client has a credential of its own; the admin and the discovery credential are none of the others.
credentials(s) ==
    /\ \A c \in s.clients : c.secret # None /\ c.secret # s.admin /\ c.secret # s.discovery
    /\ \A c, d \in s.clients : c # d => c.id # d.id /\ c.secret # d.secret
    /\ s.admin # None => s.admin # s.secret
    /\ s.discovery # None => s.discovery # s.secret /\ s.discovery # s.admin

-----------------------------------------------------------------------------
Down == [up |-> "down"]

Init ==
    /\ flags \in FlagSets
    /\ file \in Files
    /\ proc = Down
    /\ last = Down
    /\ left = [damage |-> Damage, starts |-> Starts]

\* server_boot, then boot up to the sockets: nothing is awaited. A damaged file is moved aside or stays; the device
\* of a --tun or --tap server, with its NAT rules, opens or ends the start.
Start(aside, opened) ==
    /\ proc = Down
    /\ left.starts > 0
    /\ LET b == server_boot(Loaded) IN
         /\ file' = IF file.kind = "malformed" /\ aside THEN [kind |-> "absent"] ELSE file
         /\ proc' = IF b.refused \/ ~credentials(b.settings) \/ ((flags.tun \/ flags.tap) /\ ~opened) THEN proc
                    ELSE [up |-> "booted", s |-> b.settings, keys |-> b.keys, saved |-> FALSE,
                          healed |-> file.kind = "malformed"]
    /\ left' = [left EXCEPT !.starts = @ - 1]
    /\ UNCHANGED <<flags, last>>

Up == [up |-> "up", s |-> proc.s, flags |-> flags, healed |-> proc.healed, saved |-> FALSE, touched |-> FALSE]

\* Both control sockets come up or the server ends, for its supervisor to start it again.
bind_control_sockets(udp, tcp) ==
    IF udp /\ tcp THEN proc' = [proc EXCEPT !.up = "up"] /\ last' = Up
                  ELSE proc' = Down /\ UNCHANGED last

Bind(udp, tcp) == proc.up = "booted" /\ bind_control_sockets(udp, tcp) /\ UNCHANGED <<flags, file, left>>

\* The task of the UDP socket returns an error, which is logged, and the TCP one goes on.
UdpListenerFails ==
    /\ BadCookies
    /\ proc.up = "up"
    /\ proc' = [proc EXCEPT !.up = "tcp only"]
    /\ UNCHANGED <<flags, file, last, left>>

\* The file's own listeners, under the [server] keys the boot settled on.
file_config_text(p) == [p.keys EXCEPT !.listeners = {k \in DOMAIN p.s.listeners : p.s.listeners[k].source = "file"}]

\* An admin adds a listener, which is saved with the rest.
Save(k) ==
    /\ proc.up = "up"
    /\ k \notin DOMAIN proc.s.listeners
    /\ LET p == [proc EXCEPT !.saved = TRUE,
                             !.s.listeners = [j \in DOMAIN @ \cup {k} |->
                                 IF j = k THEN [source |-> "file", locked |-> FALSE] ELSE @[j]]]
       IN  proc' = p /\ file' = [kind |-> "ok", cfg |-> file_config_text(p)]
    /\ last' = [last EXCEPT !.saved = TRUE]
    /\ UNCHANGED <<flags, left>>

Stop == proc # Down /\ proc' = Down /\ UNCHANGED <<flags, file, last, left>>

\* The operator edits the command line; the file is found damaged.
SetFlags(f) == proc = Down /\ flags # f /\ flags' = f /\ UNCHANGED <<file, proc, last, left>>

Break ==
    /\ proc = Down
    /\ left.damage > 0
    /\ file.kind = "ok"
    /\ file' = [kind |-> "malformed"]
    /\ last' = IF last = Down THEN last ELSE [last EXCEPT !.touched = TRUE]
    /\ left' = [left EXCEPT !.damage = @ - 1]
    /\ UNCHANGED <<flags, proc>>

Spent == proc = Down /\ left.starts = 0 /\ UNCHANGED vars

Next ==
    \/ \E aside, opened \in BOOLEAN : Start(aside, opened)
    \/ \E udp, tcp \in BOOLEAN : Bind(udp, tcp)
    \/ UdpListenerFails
    \/ \E k \in Added : Save(k)
    \/ Stop
    \/ \E f \in FlagSets : SetFlags(f)
    \/ Break
    \/ Spent

Spec == Init /\ [][Next]_vars

-----------------------------------------------------------------------------
Who(s) == [s EXCEPT !.listeners = {}]

\* Restarting with the same command line over a file nobody touched gives the server it was: the same id, address,
\* credentials, clients and exit, also when the file was rewritten after being found damaged.
RestartKeeps ==
    proc.up = "booted" /\ last # Down /\ ~last.touched /\ last.flags = flags => Who(proc.s) = Who(last.s)

\* A save writes the listeners of the file and the ones an admin added, never one of the command line: every
\* listener of the file was there before or was added.
CliStaysOut ==
    file'.kind = "ok" /\ file'.cfg # (IF file.kind = "ok" THEN file.cfg ELSE Default) =>
       file'.cfg.listeners \subseteq Loaded.listeners \cup Added

\* The roles of a server that is up are told apart by their credentials, wherever each came from: no admin, network,
\* discovery or client credential opens another role.
RolesApart ==
    proc # Down =>
        /\ proc.s.admin # None => proc.s.admin \notin {proc.s.secret, proc.s.discovery}
        /\ proc.s.discovery # proc.s.secret
        /\ \A c \in proc.s.clients : c.secret \notin {proc.s.admin, proc.s.discovery}

\* A command line port stays closed to the admin for as long as it is on the command line, whatever the file says.
CliLocked ==
    proc # Down => \A p \in flags.ports : \E k \in DOMAIN proc.s.listeners :
        k = <<proc.s.ip, p>> /\ proc.s.listeners[k].locked

\* The server serves both transports of the control port or it is not up.
BothTransports == proc.up # "tcp only"
=============================================================================
