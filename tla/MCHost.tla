------------------------------- MODULE MCHost -------------------------------
(***************************************************************************)
(* The machines around the tunnel on small instances, in one model: files  *)
(* and how they are read, boots and command lines, setting a machine up    *)
(* and upgrading it, what is done to the host's network, PPPoE and the     *)
(* user-space proxy.  As in MCTunnel a behaviour is a behaviour of one     *)
(* machine, named by `part`, whose variables are the slots v1, v2, ...     *)
(***************************************************************************)
EXTENDS Integers, FiniteSets, Sequences, TLC

VARIABLES part, v1, v2, v3, v4, v5, v6, v7, v8, v9

None == <<>>
Raw(x) == <<"raw", x>>

-----------------------------------------------------------------------------
\* Files.
Disk == INSTANCE Durable WITH
    Good <- {"g1", "g2"}, Bad <- {"b1"}, MaxFiles <- 3, MaxSec <- 2, Chmods <- FALSE, Hurried <- FALSE,
    MaxEdit <- 4, Notifies <- TRUE, Replaced <- TRUE, MaxNoise <- 2, Noisy <- FALSE,
    inodes <- v1, dirs <- v2, proc <- v3, save <- v4, since <- v5, unsynced <- v6, aside <- v7, sec <- v8,
    file <- v1, events <- v2, mode <- v3, gone <- v4, at <- v5, stamp <- v6, last <- v7, noise <- v8,
    loaded <- v9

\* The functions that set the keys of base and any of the keys of more.
Options(base, more) ==
    {[k \in DOMAIN base \cup ks |-> IF k \in ks THEN more[k] ELSE base[k]] : ks \in SUBSET DOMAIN more}
NoKeys == [k \in {} |-> None]
Tables(kind, records) == {[kind |-> kind, keys |-> r] : r \in records}

Target(ip, proto, port) == [bind_ip |-> ip, proto |-> proto, port |-> port]
ListenTargets ==
    {Target(1, "tcp", 80), Target(1, "udp", 80), Target(1, "tcp", 443), Target(2, "tcp", 80),
     [bind_ip |-> 1, proto |-> "tcp"], [proto |-> "tcp", port |-> 80]}
ServerEntries ==
    Tables("server", Options(NoKeys, [id |-> "s", seed |-> "k", exit |-> "true"]))
    \cup Tables("listeners", ListenTargets)
    \cup Tables("routes", ListenTargets \cup {t @@ [client |-> "a"] : t \in ListenTargets})
    \cup Tables("clients", Options([id |-> "a"], [secret |-> "x"]) \cup {[id |-> "b"], [id |-> ""], [secret |-> "x"]})


ClientTables == Tables("client", Options(NoKeys, [id |-> "c1", peer_secret |-> Raw("k2")]))
ServersOfFile ==
    Options([name |-> "a", addr |-> "h:1"],
            [seed |-> "s", secret |-> Raw("k1"), credential |-> Raw("k2"), discovery |-> Raw("k3")])
    \cup Options([name |-> "b", addr |-> "dht"],
                 [seed |-> "s", secret |-> <<"discovery", "s">>, transport |-> "udp", credential |-> <<"client", "s", "c1">>])
    \cup Options([name |-> "b", addr |-> "h:1", secret |-> Raw("k3")], [discovery |-> <<"network", "s">>])
    \cup {[name |-> "", addr |-> "h:1", secret |-> Raw("k1")]}
ForwardsOfFile ==
    Options([proto |-> "tcp", port |-> 80], [target |-> <<"h", 1>>, proxy |-> TRUE, idle |-> 5, enabled |-> FALSE])
    \cup Options([proto |-> "udp", port |-> 80], [proxy |-> FALSE, enabled |-> TRUE])
PppoeOfFile ==
    Options([name |-> "p", username |-> "u"], [autostart |-> TRUE, default_route |-> TRUE, clamp_mss |-> FALSE, mtu |-> 1400])
    \cup Options([name |-> "q", username |-> "u"], [autostart |-> TRUE, clamp_mss |-> TRUE])
ClientEntries ==
    Tables("servers", ServersOfFile) \cup Tables("forwards", ForwardsOfFile) \cup Tables("pppoe", PppoeOfFile)
    \cup Tables("tun", Options([dev |-> "t0"], [address |-> "10.0.0.1/24", exit |-> TRUE, exit_strict |-> TRUE, exit_via |-> "peer"]))
    \cup Tables("peer", Options(NoKeys, [exit |-> TRUE, exit_iface |-> "eth0", segment |-> "br0", allow |-> <<"peer">>]))
    \cup Tables("tap", Options(NoKeys, [dev |-> "d0"]))

Config == INSTANCE ConfigFiles WITH
    Clients <- ClientTables, FileEntries <- ClientEntries, FileMaxEntries <- 2, RecordsPeer <- {"p1", "p2"},
    Iface <- {"zn0", "znx0", "zns0", "eth0", "br0"}, BodyDevices <- {"eth0"}, MaxLen <- 3, MaxLines <- 5,
    DocEntries <- ServerEntries, DocMaxEntries <- 2,
    fileFile <- v1, tun <- v1, peer <- v2, slots <- v3, textText <- v1, other <- v2, tablesText <- v1,
    section <- v2, seen <- v3, tablesRecord <- v4, closed <- v5, status <- v6, docFile <- v1

-----------------------------------------------------------------------------
\* Boots: flags, environment and file of a server.
BareServer ==
    [id |-> None, ip |-> None, port |-> None, seed |-> None, secret |-> None, discovery |-> None, admin |-> None,
     exit |-> FALSE, iface |-> None, ports |-> {}, clients |-> {}, tun |-> FALSE, tap |-> FALSE, except |-> FALSE, dht |-> FALSE]
Seeded == [BareServer EXCEPT !.seed = Raw("a"), !.clients = {[id |-> <<"c">>, secret |-> None]}, !.dht = TRUE]
Explicit ==
    [BareServer EXCEPT !.id = <<"x">>, !.port = <<7000>>, !.secret = Raw("s"), !.admin = Raw("m"), !.discovery = Raw("d"),
                       !.clients = {[id |-> <<"c">>, secret |-> Raw("s")]}, !.ports = {80}, !.dht = TRUE]
ServerFlagSets ==
    {BareServer, Seeded, [Seeded EXCEPT !.seed = Raw("b"), !.ports = {80, 81}], Explicit,
     [Explicit EXCEPT !.seed = Raw("a"), !.ip = <<"lan">>], [Explicit EXCEPT !.admin = Raw("d")],
     [Explicit EXCEPT !.clients = {[id |-> <<"c">>, secret |-> Raw("m")]}],
     [Seeded EXCEPT !.tun = TRUE, !.exit = TRUE, !.iface = <<"eth0">>, !.except = TRUE]}
EmptyFile ==
    [id |-> None, ip |-> None, port |-> None, seed |-> None, admin |-> None, exit |-> None, iface |-> None,
     clients |-> {}, listeners |-> {}]
ServerFiles ==
    {[kind |-> "absent"]} \cup
    {[kind |-> "ok", cfg |-> [k \in DOMAIN EmptyFile |-> IF k \in DOMAIN r THEN r[k] ELSE EmptyFile[k]]] :
        r \in {[listeners |-> {<<<<"any">>, 80>>}], [id |-> <<"f">>, seed |-> Raw("a"), admin |-> Raw("m")],
               [ip |-> <<"lan">>, port |-> <<9000>>, clients |-> {[id |-> <<"k">>, secret |-> Raw("k")]}],
               [exit |-> <<FALSE>>, clients |-> {[id |-> <<"k">>, secret |-> None]}]}}


Boot == INSTANCE ServerBoot WITH
    FlagSets <- ServerFlagSets, Files <- ServerFiles, Added <- {<<<<"any">>, 80>>, <<<<"any">>, 90>>},
    Damage <- 1, Starts <- 3, BadCookies <- TRUE,
    flags <- v1, file <- v2, proc <- v3, last <- v4, left <- v5
\* A server whose cookie key can be read.
Sockets == INSTANCE ServerBoot WITH
    FlagSets <- ServerFlagSets, Files <- ServerFiles, Added <- {<<<<"any">>, 80>>, <<<<"any">>, 90>>},
    Damage <- 0, Starts <- 2, BadCookies <- FALSE,
    flags <- v1, file <- v2, proc <- v3, last <- v4, left <- v5

\* Flags, environment, file and host of a client.
Num(p) == <<"n", p>>
BareClient ==
    [server |-> <<"host">>, seed |-> None, secret |-> Raw("s"), credential |-> None, discovery |-> None, id |-> None,
     tap |-> FALSE, tun |-> FALSE, bridge |-> FALSE, tcp |-> <<>>, udp |-> <<>>, proxy |-> FALSE, exit |-> FALSE,
     strict |-> FALSE, pppoe |-> FALSE, route |-> FALSE, noClamp |-> FALSE, dns |-> FALSE, user |-> None,
     pass |-> None, passFile |-> None, mtu |-> 1400, pppoeMtu |-> 1492, transport |-> None]
NoEnv == [seed |-> None, secret |-> None, credential |-> None, discovery |-> None, user |-> None, pass |-> None, hostname |-> None]
NoFile == [shape |-> FALSE, id |-> None, pppoe |-> {}]
Host == [machine |-> "long", hostname |-> <<"B", "-", "0", ".", "a">>]
In(a, e) == [args |-> a, env |-> e, file |-> NoFile, host |-> Host]
Plain80 == [base |-> <<Num(80)>>, mods |-> <<>>]
Forwarding == [BareClient EXCEPT !.tcp = <<Plain80>>]
BodyInputs ==
    {In([BareClient EXCEPT !.tap = b[1], !.tun = b[2], !.bridge = b[3], !.exit = b[4], !.strict = b[5], !.pppoe = b[6],
                           !.route = b[7], !.noClamp = b[8], !.proxy = b[9],
                           !.tcp = IF b[10] THEN <<Plain80, Plain80>> ELSE <<>>, !.user = <<"u">>, !.pass = <<"p">>], NoEnv) :
        b \in [1..10 -> BOOLEAN]}
CredentialInputs ==
    {In([Forwarding EXCEPT !.server = v, !.seed = c[1], !.secret = c[2], !.credential = c[3], !.discovery = c[4], !.id = i],
        [NoEnv EXCEPT !.seed = e[1], !.secret = e[2], !.credential = e[3]]) :
        v \in {<<"host">>, <<"dht">>}, i \in {None, <<"edge">>},
        c \in {None, Raw("a")} \X {None, Raw("s")} \X {None, Raw("k")} \X {None, Raw("s"), Raw("k"), Raw("d")},
        e \in {None, Raw("b")} \X {None, Raw("t")} \X {None, Raw("l")}}
ForwardSpecs ==
    {[base |-> b, mods |-> m] :
        b \in {<<Num(80)>>, <<Num(80), Num(70000)>>, <<Num(80), <<"h", "x">>, Num(8080)>>, <<Num(80), <<"h", "x">>>>,
               <<Num(1), Num(2), Num(3), Num(4)>>},
        m \in UNION {[1..n -> {<<"proxy">>, <<"idle", 0>>, <<"idle", 60>>, <<"other">>}] : n \in 0..2}}
ForwardInputs ==
    {In([BareClient EXCEPT !.tcp = <<s, Plain80>>, !.proxy = p], NoEnv) : s \in ForwardSpecs, p \in BOOLEAN}
    \cup {In([BareClient EXCEPT !.udp = <<s>>], NoEnv) : s \in ForwardSpecs}
LinkSizes == {0, 1279, 1280, 1287, 1288, 1492, 65535, 65536}
LinkInputs ==
    {In([BareClient EXCEPT !.pppoe = TRUE, !.route = TRUE, !.user = u, !.pass = p, !.mtu = m, !.pppoeMtu = q],
        [NoEnv EXCEPT !.pass = ep, !.user = eu]) :
        u, eu \in {None, <<"u">>}, p, ep \in {None, <<"p">>}, m, q \in LinkSizes}
HostInputs ==
    {[args |-> [a EXCEPT !.id = i], env |-> NoEnv, file |-> [NoFile EXCEPT !.id = f], host |-> [machine |-> m, hostname |-> h]] :
        a \in {Forwarding, [Forwarding EXCEPT !.seed = Raw("a")]}, i, f \in {None, <<"edge">>}, m \in {"none", "short", "long"},
        h \in {None, <<".", "a">>, <<"B", "-", "0", ".", "a">>}}
FiledInputs ==
    {[In(Forwarding, NoEnv) EXCEPT !.file =
        [shape |-> TRUE, id |-> None,
         pppoe |-> {[mtu |-> q, pass |-> p, passFile |-> None, route |-> TRUE, clamp |-> c, dns |-> FALSE]}]] :
        q \in LinkSizes \ {65536}, p \in {None, <<"p">>}, c \in BOOLEAN}
ClientInputs == BodyInputs \cup CredentialInputs \cup ForwardInputs \cup LinkInputs \cup HostInputs \cup FiledInputs

Client == INSTANCE ClientBoot WITH
    Inputs <- ClientInputs, Hostnames <- {None, <<"A", "b">>}, Starts <- 2,
    in <- v1, out <- v2, ids <- v3, left <- v4

\* Command lines: the words of every subcommand, some it does not know, and values at the limits.
Words == INSTANCE CommandLine WITH
    Subs <- {}, Opening <- <<>>, First <- <<>>, Rest <- <<>>, MaxMore <- 0,
    sub <- v1, line <- v2, more <- v3, p <- v4
Subcommands == {"server", "client", "client admin", "admin", "derive-client", "upgrade"}
Openings ==
    [s \in Subcommands |->
        CASE s = "admin" -> {<<>>, <<"--server", "x">>, <<"--server", "x", "add-client", "x">>}
          [] s = "client admin" -> {<<>>, <<"add-server", "x", "x">>, <<"attach-peer", "x">>}
          [] OTHER -> {<<>>}]
RestWords ==
    [s \in Subcommands |->
        {Words!Table(s).names[i] : i \in DOMAIN Words!Table(s).names} \cup {"--bogus"} \cup
        CASE s = "server" -> {"", "x", "7", "65535", "65536", "10.0.0.1", "dht"}
          [] s = "client" -> {"x", "0", "65536"}
          [] s = "client admin" -> {"x", "udp", "add-server", "attach-peer"}
          [] s = "admin" -> {"x", "tcp:443", "10.0.0.1", "set-route", "add-client"}
          [] OTHER -> {"x", "y"}]
FirstWords ==
    [s \in Subcommands |->
        RestWords[s] \cup
        CASE s = "admin" -> {Words!AdminCommands[i] : i \in DOMAIN Words!AdminCommands}
          [] s = "client admin" -> {Words!ClientAdminCommands[i] : i \in DOMAIN Words!ClientAdminCommands}
          [] OTHER -> {}]
Cli == INSTANCE CommandLine WITH
    Subs <- Subcommands, Opening <- Openings, First <- FirstWords, Rest <- RestWords, MaxMore <- 2,
    sub <- v1, line <- v2, more <- v3, p <- v4

-----------------------------------------------------------------------------
\* Setting up: what is asked for on two machines, what their disks hold, and how the wizard starts.
Asked0 ==
    [mode |-> None, docker |-> TRUE, dht |-> FALSE, explicit |-> FALSE, addr |-> None, control |-> None,
     ports |-> <<>>, tap |-> None, all |-> FALSE, bridge |-> None, nic |-> None, secret |-> None,
     discovery |-> None, admin |-> None]
Tok(n, q) == [num |-> n, proto |-> q]
OnServer == [Asked0 EXCEPT !.mode = <<"server">>, !.ports = <<Tok(8080, "tcp"), Tok(5300, "udp")>>]
OnClient == [Asked0 EXCEPT !.mode = <<"client">>, !.addr = [port |-> None], !.ports = <<Tok(443, "tcp")>>]
SomeAsked ==
    {OnServer, [OnServer EXCEPT !.control = <<443>>, !.dht = TRUE], [OnServer EXCEPT !.explicit = TRUE, !.dht = TRUE],
     [OnServer EXCEPT !.explicit = TRUE, !.ports = <<Tok(80, "tcp")>>], [Asked0 EXCEPT !.mode = <<"server">>, !.all = TRUE],
     [Asked0 EXCEPT !.mode = <<"server">>, !.tap = <<"zn0">>, !.nic = <<"eth0">>],
     OnClient, [OnClient EXCEPT !.addr = [port |-> <<7000>>]], [OnClient EXCEPT !.dht = TRUE, !.addr = None],
     [OnClient EXCEPT !.dht = TRUE, !.addr = None, !.explicit = TRUE, !.discovery = Raw("d")],
     [Asked0 EXCEPT !.mode = <<"client">>, !.addr = [port |-> <<7000>>], !.tap = <<"zn0">>],
     [OnClient EXCEPT !.ports = <<>>, !.all = TRUE, !.explicit = TRUE],
     [OnServer EXCEPT !.explicit = TRUE, !.dht = TRUE, !.admin = Raw("d"), !.discovery = Raw("d")]}
\* The flags the installer refuses change nothing on a machine: only the shorter runs of Fresh give them.
Refused ==
    {[OnServer EXCEPT !.ports = <<Tok(53, "icmp")>>], [OnServer EXCEPT !.ports = <<Tok(0, "tcp")>>],
     [OnServer EXCEPT !.tap = <<"zn0">>], [OnClient EXCEPT !.addr = None]}
FreshDisk == [seed |-> None, secret |-> None, client |-> None, admin |-> None, discovery |-> None]
Generated == <<"g1", "g2", "g3", "g4", "g5", "g6", "g7", "g8", "g9">>

Wizard0 ==
    [mode |-> "server", method |-> "docker", deploy |-> "compose", kind |-> "ports", ports |-> {}, tap |-> <<"zn0">>,
     bridge |-> None, nic |-> None, create |-> FALSE, control |-> <<2222>>, dht |-> FALSE, addr |-> None,
     secret |-> Raw("g"), discovery |-> None, secretMode |-> "generate", explicit |-> FALSE, excludeSsh |-> TRUE]
Found(docker, compose, existing) == [docker |-> docker, compose |-> compose, existing |-> existing]
WizardBegins ==
    {[cfg |-> [Wizard0 EXCEPT !.method = "systemd"], host |-> Found(FALSE, FALSE, None), offer |-> TRUE],
     [cfg |-> [Wizard0 EXCEPT !.deploy = "run", !.mode = "client", !.explicit = TRUE, !.secretMode = "reuse", !.secret = Raw("e")],
      host |-> Found(TRUE, FALSE, Raw("e")), offer |-> FALSE],
     [cfg |-> [Wizard0 EXCEPT !.kind = "bridge", !.nic = <<"eth0">>, !.create = TRUE, !.bridge = <<"br0">>],
      host |-> Found(TRUE, TRUE, None), offer |-> FALSE]}
TypedAt(step) ==
    CASE step = "Tap" -> {None, <<"zn1">>}
      [] step = "BridgeNic" -> {None, <<"eth0">>}
      [] step = "BridgeName" -> {None, <<"br0">>}
      [] step = "DiscoveryEntry" -> {Raw("d"), Raw("e")}
      [] step = "ServerAddr" -> {<<"host">>}
      [] step = "Control" -> {<<0>>, <<7000>>}
      [] step = "SecretEntry" -> {Raw("d"), Raw("k")}
      [] OTHER -> {}

SetUp == INSTANCE Provision WITH
    Machines <- {"a", "b"}, Asked <- SomeAsked,
    Disks <- {FreshDisk, [FreshDisk EXCEPT !.seed = Raw("s"), !.admin = Raw("m")]}, Gens <- Generated,
    Installs <- 3, WizardStarts <- WizardBegins, Common <- {443}, Custom <- {8443}, Texts <- TypedAt,
    Backs <- 1,
    m <- v1, printed <- v2, installStep <- v3, left <- v4, app <- v1, wizardLeft <- v2
\* Two fresh machines.
Fresh == INSTANCE Provision WITH
    Machines <- {"a", "b"}, Asked <- SomeAsked \cup Refused, Disks <- {FreshDisk}, Gens <- Generated,
    Installs <- 2, WizardStarts <- WizardBegins, Common <- {443}, Custom <- {8443}, Texts <- TypedAt,
    Backs <- 1,
    m <- v1, printed <- v2, installStep <- v3, left <- v4, app <- v1, wizardLeft <- v2

\* Upgrades: every command may fail once, and a run may be killed once.
UpgradeFaults ==
    {"mkdir", "env", "arch", "resolve", "manifest", "signature", "verify", "tempfile", "binary", "garble", "prepare", "check",
     "bin_open", "bin_write", "rm_quiet", "compose_fetch", "compose_file", "compose_pull", "compose_up", "pull", "run", "rm"}
InstallFaults == UpgradeFaults \cup {"unit", "daemon_reload", "enable"}
Deploy == INSTANCE Deployment WITH
    Methods <- {"systemd", "compose", "run"}, Switch <- FALSE, Tools <- {"install", "offer"}, Versions <- 3,
    Runs <- 3, Faults <- 1, MayFail <- InstallFaults \cup {"restart"}, Slips <- 1, Kills <- 0,
    Names <- {1, 2}, Limit <- 2, MaxLines <- 2, MaxData <- 2, Chunk <- 2,
    latest <- v1, man <- v2, host <- v3, tool <- v4, left <- v5, signed <- v1, lines <- v2, data <- v3,
    at <- v4, prev <- v5, entries <- v6, remaining <- v7, hashed <- v8, res <- v9
Upgrade == INSTANCE Deployment WITH
    Methods <- {"systemd", "compose"}, Switch <- FALSE, Tools <- {"install", "upgrade"}, Versions <- 3,
    Runs <- 3, Faults <- 1, MayFail <- UpgradeFaults, Slips <- 1, Kills <- 0, Names <- {1, 2}, Limit <- 2,
    MaxLines <- 2, MaxData <- 2, Chunk <- 2,
    latest <- v1, man <- v2, host <- v3, tool <- v4, left <- v5, signed <- v1, lines <- v2, data <- v3,
    at <- v4, prev <- v5, entries <- v6, remaining <- v7, hashed <- v8, res <- v9
Killed == INSTANCE Deployment WITH
    Methods <- {"systemd", "compose", "run"}, Switch <- FALSE, Tools <- {"install", "offer", "upgrade"},
    Versions <- 2, Runs <- 2, Faults <- 1, MayFail <- InstallFaults, Slips <- 0, Kills <- 1,
    Names <- {1, 2}, Limit <- 2, MaxLines <- 2, MaxData <- 2, Chunk <- 2,
    latest <- v1, man <- v2, host <- v3, tool <- v4, left <- v5, signed <- v1, lines <- v2, data <- v3,
    at <- v4, prev <- v5, entries <- v6, remaining <- v7, hashed <- v8, res <- v9

-----------------------------------------------------------------------------
\* The host's network: home networks with one gateway, with none, with two links, with a pinned route.
Row(to, via, dev, metric) == [to |-> to, via |-> via, dev |-> dev, metric |-> metric]
OneGateway == {Row("lan1", "none", "eth0", 0), Row("any", "g1", "eth0", 100)}
PointToPoint == {Row("any", "none", "ppp0", 0)}
TwoLinks == OneGateway \cup {Row("lan2", "none", "eth1", 0), Row("any", "none", "ppp0", 700)}
WithModem == OneGateway \cup {Row("any", "none", "wwan0", 700)}
WithPin == OneGateway \cup {Row("srv", "g1", "eth0", 0)}
Routes == INSTANCE HostRoutes WITH
    Lan1 <- {"g1", "p2"}, Lan2 <- {"g2", "p3"}, High <- {"s2", "p1", "far-high", "srv"}, V6 <- {"far6"},
    MaxMetric <- 32766, ExitHomes <- {OneGateway, PointToPoint, TwoLinks}, Servers <- {"s2"},
    Peers <- <<"p1", "p2">>, Kinds <- {"client", "consumer"}, StrictModes <- {TRUE, FALSE},
    Gateways <- {"g1"}, RaiseFaults <- 1, LowerFaults <- 1, Flaps <- 1, Crashes <- 1,
    NetHomes <- {OneGateway, WithModem, PointToPoint, WithPin, {Row("lan1", "none", "eth0", 0)}},
    Opts <- {{"default_route"}, {"dns"}, {"default_route", "dns"}}, Server <- "srv", Faults <- 2,
    Torn <- FALSE, Edges <- 2,
    exitTable <- v1, exitHome <- v2, p <- v3, exitLeft <- v4, netTable <- v1, resolv <- v2, netHome <- v3,
    netG <- v4, netLeft <- v5

Shape == INSTANCE NatRules WITH
    Plans <- {}, Tools <- {}, Starts <- 0, Faults <- 0, Kills <- 0, Edits <- 0, Busy <- FALSE,
    Mentions <- FALSE, Abandons <- FALSE,
    fwd <- v1, nft <- v2, chain <- v3, docker <- v4, p <- v5, aux <- v6
SomePlans ==
    Shape!tun_nat_plan(FALSE, "none", "none", 1, {2}) \cup Shape!tun_nat_plan(TRUE, "none", "eth0", 1, {})
    \cup Shape!nat_plan("tun0", "none", "eth0")
Filter == INSTANCE NatRules WITH
    Plans <- SomePlans, Tools <- {{}, {"nft"}, {"iptables"}, {"nft", "iptables"}}, Starts <- 2, Faults <- 1,
    Kills <- 1, Edits <- 0, Busy <- FALSE, Mentions <- FALSE, Abandons <- FALSE,
    fwd <- v1, nft <- v2, chain <- v3, docker <- v4, p <- v5, aux <- v6
Swept == INSTANCE NatRules WITH
    Plans <- SomePlans, Tools <- {{"iptables"}}, Starts <- 2, Faults <- 1, Kills <- 1, Edits <- 1,
    Busy <- FALSE, Mentions <- FALSE, Abandons <- FALSE,
    fwd <- v1, nft <- v2, chain <- v3, docker <- v4, p <- v5, aux <- v6
Abandon == INSTANCE NatRules WITH
    Plans <- SomePlans, Tools <- {{"nft"}, {"nft", "iptables"}}, Starts <- 1, Faults <- 1, Kills <- 0,
    Edits <- 0, Busy <- FALSE, Mentions <- FALSE, Abandons <- TRUE,
    fwd <- v1, nft <- v2, chain <- v3, docker <- v4, p <- v5, aux <- v6

Addr4(ip, pfx, dyn, scope) == [ip |-> ip, pfx |-> pfx, dyn |-> dyn, scope |-> scope]
SomeAddrs4 ==
    {Addr4(9, 2, FALSE, "global"), Addr4(5, 4, FALSE, "global"), Addr4(12, 0, FALSE, "global"), Addr4(6, 3, TRUE, "global"),
     Addr4(1, 2, FALSE, "link")}
SomeAddrs6 ==
    {[ip |-> "fd00::1", dyn |-> FALSE, scope |-> "global"], [ip |-> "fd00::2", dyn |-> TRUE, scope |-> "global"],
     [ip |-> "fe80::1", dyn |-> FALSE, scope |-> "link"]}
Gateways4Of == {-1, 0, 5, 7, 8, 10}
BridgeFaults ==
    {"br_add", "br_set", "nic_master", "br_addr", "br_route", "cloud_off", "move_aside", "90-zeronat.yaml", "br.netdev", "br.network",
     "port.network", "generate", "reload"}
Bridge == INSTANCE HostBridge WITH
    Mgr <- "netplan", Spare <- FALSE, MayFail <- BridgeFaults, Faults <- 1, Runs <- 3, Eager <- FALSE,
    Deaths <- 2, Reboots <- 0, LiveTicks <- 2, W <- 4, Addrs4 <- SomeAddrs4, Addrs6 <- SomeAddrs6,
    Gateways4 <- Gateways4Of, Gateways6 <- {FALSE}, Mixed <- FALSE, Servers <- {"stub", "isp"},
    w <- v1, inst <- v2, sh <- v3, timer <- v4, left <- v5, host <- v1, nicNic <- v2, out <- v3
Networkd == INSTANCE HostBridge WITH
    Mgr <- "networkd", Spare <- FALSE, MayFail <- BridgeFaults, Faults <- 1, Runs <- 3, Eager <- FALSE,
    Deaths <- 2, Reboots <- 0, LiveTicks <- 2, W <- 4, Addrs4 <- SomeAddrs4, Addrs6 <- SomeAddrs6,
    Gateways4 <- Gateways4Of, Gateways6 <- {FALSE}, Mixed <- FALSE, Servers <- {"stub", "isp"},
    w <- v1, inst <- v2, sh <- v3, timer <- v4, left <- v5, host <- v1, nicNic <- v2, out <- v3
\* A spare interface, and reboots.
SpareNic == INSTANCE HostBridge WITH
    Mgr <- "netplan", Spare <- TRUE, MayFail <- BridgeFaults \cup {"timer_arm"}, Faults <- 1, Runs <- 1,
    Eager <- FALSE, Deaths <- 1, Reboots <- 2, LiveTicks <- 2, W <- 4, Addrs4 <- SomeAddrs4,
    Addrs6 <- SomeAddrs6, Gateways4 <- Gateways4Of, Gateways6 <- {FALSE}, Mixed <- FALSE,
    Servers <- {"stub", "isp"},
    w <- v1, inst <- v2, sh <- v3, timer <- v4, left <- v5, host <- v1, nicNic <- v2, out <- v3

-----------------------------------------------------------------------------
\* PPPoE: two concentrators; option regions of a SYN, short ones in full and long ones with an MSS in them.
Bytes == 0..4
Padded(r) == [n \in 1..8 |-> IF n <= Len(r) THEN r[n] ELSE 1]
SynOptions ==
    [1..4 -> Bytes]
    \cup {Padded(b \o <<2, 4, h, l>>) :
            b \in {<<>>, <<1>>, <<1, 1>>, <<3, 2>>, <<3, 3, 4>>, <<3, 2, 1, 1>>, <<1, 1, 1>>}, h \in Bytes, l \in Bytes}
Engine == INSTANCE PppoeEngine WITH
    ACs <- {"a1", "a2"}, RetransmitTicks <- 1, MaxAttempts <- 2, MaxDials <- 2, MaxSessions <- 2,
    OtherHost <- TRUE, Stale <- TRUE, RestartTicks <- 1, MaxConfigure <- 2, Asked <- {"none", "chap"},
    Malformed <- FALSE, Byte <- 5, Regions <- SynOptions, Others <- {0, 22}, Clamps <- {0, 1, 12, 23},
    dp <- v1, dials <- v2, net <- v3, dialAsked <- v4, granted <- v5, ppp <- v1, passes <- v1, opts <- v2,
    cksum <- v3, other <- v4, clamp <- v5, i <- v6, at <- v7, old <- v8
Shell == INSTANCE PppoeShell WITH
    EchoInterval <- 5, EchoDead <- 3, StrandRevert <- 9, UdpIdle <- 24, ShellHeld <- 4,
    ShellRedialTicks <- 1, RedialTicksMax <- 12, HostFlags <- TRUE, Answers <- FALSE,
    Sessions <- {"a", "b"}, FleetRedialTicks <- 1, RedialMax <- 2, FleetHeld <- 2, Grace <- 3, Faults <- 0,
    shell <- v1, fleet <- v1, ch <- v2, faults <- v3
\* A concentrator that answers, at the echo and idle intervals of the code.
Healthy == INSTANCE PppoeShell WITH
    EchoInterval <- 25, EchoDead <- 3, StrandRevert <- 45, UdpIdle <- 120, ShellHeld <- 20,
    ShellRedialTicks <- 3, RedialTicksMax <- 24, HostFlags <- TRUE, Answers <- TRUE, Sessions <- {"a", "b"},
    FleetRedialTicks <- 1, RedialMax <- 2, FleetHeld <- 2, Grace <- 3, Faults <- 1,
    shell <- v1, fleet <- v1, ch <- v2, faults <- v3

-----------------------------------------------------------------------------
\* The user-space proxy: two sessions, one permit; heads with headers of every kind.
TypedKeys == {[use |-> "typed", id |-> "k1"], [use |-> "typed", id |-> "k2"]}
Start == INSTANCE EgressBoot WITH
    Typed <- TypedKeys, Pasted <- {}, Mtu <- {576, 1280, 1298, 1299}, Named <- {"identity", "id"},
    PeerLinks <- 1, BackoffMax <- 4, Faults <- 5,
    flags <- v1, env <- v2, conf <- v3, proc <- v4, links <- v5, pc <- v1, tasks <- v2, permit <- v3,
    backoff <- v4, ended <- v5, left <- v6

Header(name, value) == [kind |-> "header", name |-> name, value |-> value]
SomeHeaders ==
    {Header("host", "h"), Header("connection", "x-a"), Header("te", "v"), Header("proxy-authorization", "good"),
     Header("proxy-authorization", "bad"), Header("content-length", "number"), Header("content-length", "other"),
     Header("transfer-encoding", "chunked"), Header("x-a", "1"), Header("x-b", "1"),
     [kind |-> "folded", name |-> "", value |-> ""], [kind |-> "bare", name |-> "", value |-> ""]}
Proxy == INSTANCE Egress WITH
    N <- 2, Tokens <- {"t1", "t2"}, Conns <- {"c1", "c2"},
    Fronts <- [c \in {"c1", "c2"} |-> IF c = "c2" THEN "http" ELSE "socks"], MaxConns <- 1, StickyMax <- 2,
    Flaps <- 2, Depth <- 2, Chunk <- 2, Budget <- 3, TxBuf <- 2, RxBuf <- 2, ToSend <- 3, ToRecv <- 5,
    Lingers <- TRUE, Breaks <- TRUE, Methods <- {"connect", "get"},
    Targets <- {"host", "host:port", "junk"}, Headers <- SomeHeaders, MaxHeaders <- 2, MaxBody <- 2,
    MaxHead <- 4,
    est <- v1, conf <- v2, rr <- v3, sticky <- v4, selectConn <- v5, seen <- v6, flaps <- v7, client <- v1,
    to <- v2, from <- v3, streamConn <- v4, tcp <- v5, remote <- v6, sent <- v1, sock <- v2, head <- v3,
    at <- v4, replies <- v5, up <- v6
\* More tokens than the map of sticky ones holds.
Sticky == INSTANCE Egress WITH
    N <- 1, Tokens <- {"t1", "t2", "t3"}, Conns <- {"c1", "c2", "c3"},
    Fronts <- [c \in {"c1", "c2", "c3"} |-> IF c = "c2" THEN "http" ELSE "socks"], MaxConns <- 1,
    StickyMax <- 2, Flaps <- 0, Depth <- 2, Chunk <- 2, Budget <- 3, TxBuf <- 2, RxBuf <- 2, ToSend <- 3,
    ToRecv <- 5, Lingers <- TRUE, Breaks <- TRUE, Methods <- {"connect", "get"},
    Targets <- {"host", "host:port", "junk"}, Headers <- SomeHeaders, MaxHeaders <- 2, MaxBody <- 2,
    MaxHead <- 4,
    est <- v1, conf <- v2, rr <- v3, sticky <- v4, selectConn <- v5, seen <- v6, flaps <- v7, client <- v1,
    to <- v2, from <- v3, streamConn <- v4, tcp <- v5, remote <- v6, sent <- v1, sock <- v2, head <- v3,
    at <- v4, replies <- v5, up <- v6

-----------------------------------------------------------------------------
\* The slots from the k-th on, and that they are not in use.
From9 == v9
From8 == <<v8, From9>>
From7 == <<v7, From8>>
From6 == <<v6, From7>>
From5 == <<v5, From6>>
From4 == <<v4, From5>>
From3 == <<v3, From4>>
From2 == <<v2, From3>>
From1 == <<v1, From2>>
Rest9 == v9 = 0
Rest8 == v8 = 0 /\ Rest9
Rest7 == v7 = 0 /\ Rest8
Rest6 == v6 = 0 /\ Rest7
Rest5 == v5 = 0 /\ Rest6
Rest4 == v4 = 0 /\ Rest5
Rest3 == v3 = 0 /\ Rest4
Rest2 == v2 = 0 /\ Rest3
Rest1 == v1 = 0 /\ Rest2

Init ==
    \/ part = "savefile" /\ Disk!SaveInit /\ Rest9
    \/ part = "watch" /\ Disk!WatchInit
    \/ part = "text" /\ Config!TextInit /\ Rest3
    \/ part = "tables" /\ Config!TablesInit /\ Rest7
    \/ part = "srvfile" /\ Config!DocInit /\ Rest2
    \/ part = "clifile" /\ Config!FileInit /\ Rest2
    \/ part = "records" /\ Config!RecordsInit /\ Rest4
    \/ part = "sboot" /\ Boot!Init /\ Rest6
    \/ part = "sockets" /\ Sockets!Init /\ Rest6
    \/ part = "cboot" /\ Client!Init /\ Rest5
    \/ part = "cli" /\ Cli!Init /\ Rest5
    \/ part = "install" /\ SetUp!InstallInit /\ Rest5
    \/ part = "fresh" /\ Fresh!InstallInit /\ Rest5
    \/ part = "wizard" /\ SetUp!WizardInit /\ Rest3
    \/ part = "deploy" /\ Deploy!DeployInit /\ Rest6
    \/ part = "upgrade" /\ Upgrade!DeployInit /\ Rest6
    \/ part = "killed" /\ Killed!DeployInit /\ Rest6
    \/ part = "release" /\ Deploy!ReleaseInit
    \/ part = "exit" /\ Routes!ExitInit /\ Rest5
    \/ part = "netcfg" /\ Routes!NetInit /\ Rest6
    \/ part = "nat" /\ Filter!Init /\ Rest7
    \/ part = "stale" /\ Swept!Init /\ Rest7
    \/ part = "abandon" /\ Abandon!Init /\ Rest7
    \/ part = "bridge" /\ Bridge!BridgeInit /\ Rest6
    \/ part = "networkd" /\ Networkd!BridgeInit /\ Rest6
    \/ part = "spare" /\ SpareNic!BridgeInit /\ Rest6
    \/ part = "nic" /\ Bridge!NicInit /\ Rest4
    \/ part = "dial" /\ Engine!DialInit /\ Rest6
    \/ part = "ppp" /\ Engine!PppInit /\ Rest2
    \/ part = "clamp" /\ Engine!ClampInit /\ Rest9
    \/ part = "shell" /\ Shell!ShellInit /\ Rest2
    \/ part = "healthy" /\ Healthy!ShellInit /\ Rest2
    \/ part = "fleet" /\ Shell!FleetInit /\ Rest4
    \/ part = "eboot" /\ Start!BootInit /\ Rest6
    \/ part = "port" /\ Start!DialInit /\ Rest7
    \/ part = "select" /\ Proxy!SelectInit /\ Rest8
    \/ part = "sticky" /\ Sticky!SelectInit /\ Rest8
    \/ part = "stream" /\ Proxy!StreamInit /\ Rest7
    \/ part = "head" /\ Proxy!HeadInit /\ Rest7

Next ==
    \/ part = "savefile" /\ Disk!SaveNext /\ UNCHANGED <<part, From9>>
    \/ part = "watch" /\ Disk!WatchNext /\ UNCHANGED <<part>>
    \/ part = "text" /\ Config!TextNext /\ UNCHANGED <<part, From3>>
    \/ part = "tables" /\ Config!TablesNext /\ UNCHANGED <<part, From7>>
    \/ part = "srvfile" /\ Config!DocNext /\ UNCHANGED <<part, From2>>
    \/ part = "clifile" /\ Config!FileNext /\ UNCHANGED <<part, From2>>
    \/ part = "records" /\ Config!RecordsNext /\ UNCHANGED <<part, From4>>
    \/ part = "sboot" /\ Boot!Next /\ UNCHANGED <<part, From6>>
    \/ part = "sockets" /\ Sockets!Next /\ UNCHANGED <<part, From6>>
    \/ part = "cboot" /\ Client!Next /\ UNCHANGED <<part, From5>>
    \/ part = "cli" /\ Cli!Next /\ UNCHANGED <<part, From5>>
    \/ part = "install" /\ SetUp!InstallNext /\ UNCHANGED <<part, From5>>
    \/ part = "fresh" /\ Fresh!InstallNext /\ UNCHANGED <<part, From5>>
    \/ part = "wizard" /\ SetUp!WizardNext /\ UNCHANGED <<part, From3>>
    \/ part = "deploy" /\ Deploy!DeployNext /\ UNCHANGED <<part, From6>>
    \/ part = "upgrade" /\ Upgrade!DeployNext /\ UNCHANGED <<part, From6>>
    \/ part = "killed" /\ Killed!DeployNext /\ UNCHANGED <<part, From6>>
    \/ part = "release" /\ Deploy!ReleaseNext /\ UNCHANGED <<part>>
    \/ part = "exit" /\ Routes!ExitNext /\ UNCHANGED <<part, From5>>
    \/ part = "netcfg" /\ Routes!NetNext /\ UNCHANGED <<part, From6>>
    \/ part = "nat" /\ Filter!Next /\ UNCHANGED <<part, From7>>
    \/ part = "stale" /\ Swept!Next /\ UNCHANGED <<part, From7>>
    \/ part = "abandon" /\ Abandon!Next /\ UNCHANGED <<part, From7>>
    \/ part = "bridge" /\ Bridge!BridgeNext /\ UNCHANGED <<part, From6>>
    \/ part = "networkd" /\ Networkd!BridgeNext /\ UNCHANGED <<part, From6>>
    \/ part = "spare" /\ SpareNic!BridgeNext /\ UNCHANGED <<part, From6>>
    \/ part = "nic" /\ Bridge!NicNext /\ UNCHANGED <<part, From4>>
    \/ part = "dial" /\ Engine!DialNext /\ UNCHANGED <<part, From6>>
    \/ part = "ppp" /\ Engine!PppNext /\ UNCHANGED <<part, From2>>
    \/ part = "clamp" /\ Engine!ClampNext /\ UNCHANGED <<part, From9>>
    \/ part = "shell" /\ Shell!ShellNext /\ UNCHANGED <<part, From2>>
    \/ part = "healthy" /\ Healthy!ShellNext /\ UNCHANGED <<part, From2>>
    \/ part = "fleet" /\ Shell!FleetNext /\ UNCHANGED <<part, From4>>
    \/ part = "eboot" /\ Start!BootNext /\ UNCHANGED <<part, From6>>
    \/ part = "port" /\ Start!DialNext /\ UNCHANGED <<part, From7>>
    \/ part = "select" /\ Proxy!SelectNext /\ UNCHANGED <<part, From8>>
    \/ part = "sticky" /\ Sticky!SelectNext /\ UNCHANGED <<part, From8>>
    \/ part = "stream" /\ Proxy!StreamNext /\ UNCHANGED <<part, From7>>
    \/ part = "head" /\ Proxy!HeadNext /\ UNCHANGED <<part, From7>>

vars == <<part, v1, v2, v3, v4, v5, v6, v7, v8, v9>>
Spec == Init /\ [][Next]_vars

-----------------------------------------------------------------------------
\* The machines' constants are as their modules assume.
ASSUME FileAssumptions ==
    /\ Disk!SaveAssumption /\ Disk!WatchAssumption /\ Config!TextAssumption /\ Config!TablesAssumption
    /\ Config!ServerFileAssumption /\ Config!FileAssumption /\ Boot!ServerBootAssumption
    /\ Sockets!ServerBootAssumption /\ Client!ClientBootAssumption /\ Cli!CommandLineAssumption
    /\ SetUp!ProvisionAssumption /\ Fresh!ProvisionAssumption /\ SetUp!WizardAssumption
ASSUME LinkAssumptions ==
    /\ Routes!RouteTableAssumption /\ Engine!PppoeDialAssumption /\ Engine!PppLinkAssumption
    /\ Engine!ByteAssumption /\ Engine!RegionAssumption /\ Shell!PppoeShellAssumption /\ Shell!FleetAssumption
    /\ Healthy!PppoeShellAssumption /\ Start!DialAssumption /\ Proxy!SelectAssumption /\ Proxy!StreamAssumption
    /\ Sticky!SelectAssumption

\* Every machine's state has its type, and what is capped stays so: the requests a PPP machine sends
\* without an answer, the proxy's permits, its map of sticky tokens and a stream's output buffer, and
\* the bytes of a release that are hashed.
HostWithinBounds ==
    /\ part = "savefile" => Disk!SaveTypeOK
    /\ part = "watch" => Disk!WatchTypeOK
    /\ part = "records" => Config!TypeOK
    /\ part = "deploy" => Deploy!TypeOK
    /\ part = "release" => Deploy!Bounded
    /\ part = "exit" => Routes!ExitTypeOK
    /\ part = "netcfg" => Routes!NetTypeOK
    /\ part = "nat" => Filter!TypeOK
    /\ part = "bridge" => Bridge!BridgeTypeOK
    /\ part = "networkd" => Networkd!BridgeTypeOK
    /\ part = "nic" => Bridge!NicTypeOK
    /\ part = "dial" => Engine!DialTypeOK
    /\ part = "ppp" => Engine!PppTypeOK /\ Engine!TransmissionsBounded
    /\ part = "clamp" => Engine!ClampTypeOK
    /\ part = "shell" => Shell!ShellTypeOK
    /\ part = "fleet" => Shell!FleetTypeOK
    /\ part = "eboot" => Start!BootTypeOK
    /\ part = "port" => Start!DialTypeOK
    /\ part = "select" => Proxy!SelectTypeOK /\ Proxy!PermitsHeld
    /\ part = "sticky" => Sticky!StickyBounded
    /\ part = "stream" => Proxy!StreamTypeOK /\ Proxy!OutBufBounded
    /\ part = "head" => Proxy!HeadTypeOK

\* What is saved is kept and is read back as it was: a crash at any moment of save_atomic leaves a
\* whole text, the acknowledged one, under a mode that covers it; the lexer, the tables and the two
\* configuration files read back what a save wrote and refuse the rest (config/, clientcfg.rs);
\* the peer records of an edited file boot into the slots that run.
FilesKept ==
    /\ part = "savefile" => /\ Disk!CrashLeavesWhole /\ Disk!AcknowledgedSurvives
                            /\ Disk!SecretsStayCovered /\ Disk!AsideIsKept
    /\ part = "text" => Config!ReadsBack /\ Config!ListReadsBack
    /\ part = "tables" => Config!AcceptsTheGrammar /\ Config!HandsOverTheFile
    /\ part = "srvfile" => Config!DocSavesWhatItRead /\ Config!RenderingIsCanonical
    /\ part = "clifile" => /\ Config!FileSavesWhatItRead /\ Config!CredentialFollowsTheId
                           /\ Config!DiscoveryOnlyLocates
    /\ part = "records" => Config!BootDerivesTheSlots /\ Config!SavedTablesBoot

\* What starts is what was asked for: a flag sets its setting and a command takes its own words
\* (main.rs); a server keeps its roles apart, its command line ports closed to the admin, itself
\* over a restart and both transports (server.rs); a client runs one body under the id its
\* credential was derived for, on a link that fits (main.rs); the installer accepts what starts,
\* and two machines it set up meet (the installer's install.rs and ui.rs); znpppoe's keys are apart.
StartsAsConfigured ==
    /\ part = "cli" => Cli!FlagsLand /\ Cli!CommandsAsDocumented
    /\ part = "sboot" => Boot!RolesApart /\ Boot!CliLocked /\ Boot!RestartKeeps
    /\ part = "sockets" => Sockets!BothTransports
    /\ part = "cboot" => /\ Client!OneBody /\ Client!DerivedIdSent /\ Client!ExplicitFirst /\ Client!ForwardsAsWritten
                         /\ Client!LinkFits /\ Client!NamedOnce /\ Client!PlainId
    /\ part = "install" => SetUp!GuardUnused /\ SetUp!BindsAsUser /\ SetUp!AcceptedStarts
    /\ part = "fresh" => Fresh!PeersMeet /\ Fresh!GuardUnused
    /\ part = "wizard" => SetUp!PathKept /\ SetUp!InstallComplete /\ SetUp!EnteredDiffer
    /\ part = "eboot" => Start!KeysAreApart /\ Start!IdOfCredential /\ Start!SetValueWins



\* PPPoE keeps its word: a session taken is ours, it is open only while LCP is and both ends acked,
\* the authentication run is the acked one, a clamp lowers the MSS and keeps the checksum (pppoe/),
\* the device and the host's routing are there only while the session is and never point into a
\* tunnel about to be reaped, and a netstack's address is that of a session that is up.
PppoeSound ==
    /\ part = "dial" => Engine!SessionIsOurs
    /\ part = "ppp" => Engine!SessionNeedsLcp /\ Engine!OpenedBothWays /\ Engine!AckedAuthStands
    /\ part = "clamp" => Engine!OnlyTheMss /\ Engine!StaysValid /\ Engine!SameAsRecomputed
    /\ part = "shell" => Shell!TunIffEstablished /\ Shell!WaitIsInert /\ Shell!RevertPrecedesReap
    /\ part = "healthy" => Healthy!HealthyNeverStrands
    /\ part = "fleet" => Shell!AddressMeansUp /\ Shell!IdOffWire


\* What no step may do: widen a saved file's mode, save a listener of the command line, replace
\* credentials on a second install, change by Enter what a step showed, move a dial to another
\* concentrator, end an open PPP session by a timer, dial before the wait is over, bounce a bridge
\* port that carries a session, or move a sticky token off a session that is up.
HostSteps ==
    [][ /\ part = "savefile" => Disk!ModeNeverWidens
        /\ part = "sboot" => Boot!CliStaysOut
        /\ part = "install" => SetUp!RerunKeeps
        /\ part = "wizard" => SetUp!ShownIsConfigured
        /\ part = "dial" => Engine!ChosenOnce
        /\ part = "ppp" => Engine!OpenSurvivesTicks
        /\ part = "shell" => Shell!RedialPaced
        /\ part = "fleet" => Shell!WaitPacesDial /\ Shell!BounceOnlyDark
        /\ part = "select" => Proxy!StickyKeeps ]_vars
=============================================================================
