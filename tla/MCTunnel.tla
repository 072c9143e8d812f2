------------------------------ MODULE MCTunnel ------------------------------
(***************************************************************************)
(* The machines of the tunnel itself, server, client and peers, on small   *)
(* instances, in one model.  A behaviour is a behaviour of one machine:    *)
(* `part` names it and never changes, and the machine's variables are the  *)
(* slots v1, v2, ... in the order the machine declares them (the slots it  *)
(* has no use for stay 0).  DatagramPath has variables of its own.  A      *)
(* machine that is run with two sets of constants is two parts.            *)
(***************************************************************************)
EXTENDS DatagramPath

VARIABLES part, v1, v2, v3, v4, v5, v6, v7, v8, v9, v10, v11, v12, v13, v14, v15, v16, v17

-----------------------------------------------------------------------------
\* The client: two servers, one found through the DHT; a PPPoE session and two peer slots that
\* share the devices and the default route.
LoopRole == [s \in {"exitVia", "exitFor"} |-> IF s = "exitVia" THEN "consumer" ELSE "exit"]
LoopNeeds ==
    [h \in {"wan", "exitVia", "exitFor"} |->
        CASE h = "wan" -> {"pppDev", "route"}
          [] h = "exitVia" -> {"tunDev", "route"}
          [] h = "exitFor" -> {"exitDev"}]

Loop == INSTANCE ActiveTarget WITH
    Target <- {"static", "dht"}, Pppoe <- {"wan"}, Device <- {}, Slot <- {"exitVia", "exitFor"},
    Role <- LoopRole, Resource <- {"tunDev", "pppDev", "exitDev", "route"}, Needs <- LoopNeeds,
    Dht <- {"dht"}, Undialable <- {}, LoopFallback <- "wan", Forward <- {},
    Secret <- [t \in {"static", "dht"} |-> "key1"], Discovery <- [t \in {"static", "dht"} |-> "none"],
    PeerSecret <- "peerKey", NoSecret <- "none", ControlFallback <- "idle", FileStart <- {},
    MaxOrphans <- 0,
    target <- v1, mode <- v2, peers <- v3, permit <- v4, pc <- v5, running <- v6, held <- v7, up <- v8,
    session <- v9, declared <- v10, loopServers <- v11, memo <- v12, known <- v13, fwds <- v5,
    controlServers <- v6, cfg <- v7, file <- v8, exchange <- v9, after <- v10, waiting <- v11,
    orphans <- v12, writing <- v13

\* One administered client: a dialed server, one found by discovery and one whose secret clashes.
Servers == {"home", "found", "clash"}
SecretOf == [t \in Servers |-> IF t = "clash" THEN "discKey" ELSE "key1"]
DiscoveryOf == [t \in Servers |-> IF t = "found" THEN "discKey" ELSE "none"]
ControlNeeds == [h \in {"wan", "exitVia"} |-> IF h = "wan" THEN {"pppDev", "route"} ELSE {"tunDev", "route"}]
FirstFile == {[active |-> "home", servers |-> {"home", "found"}, forwards |-> [f \in {"web"} |-> TRUE], slots |-> {}]}

Control == INSTANCE ActiveTarget WITH
    Target <- Servers, Pppoe <- {"wan"}, Device <- {}, Slot <- {"exitVia"},
    Role <- [s \in {"exitVia"} |-> "consumer"], Resource <- {"tunDev", "pppDev", "route"},
    Needs <- ControlNeeds, Dht <- {"found"}, Undialable <- {}, LoopFallback <- "idle", Forward <- {"web"},
    Secret <- SecretOf, Discovery <- DiscoveryOf, PeerSecret <- "peerKey", NoSecret <- "none",
    ControlFallback <- "idle", FileStart <- FirstFile, MaxOrphans <- 0,
    target <- v1, mode <- v2, peers <- v3, permit <- v4, pc <- v5, running <- v6, held <- v7, up <- v8,
    session <- v9, declared <- v10, loopServers <- v11, memo <- v12, known <- v13, fwds <- v5,
    controlServers <- v6, cfg <- v7, file <- v8, exchange <- v9, after <- v10, waiting <- v11,
    orphans <- v12, writing <- v13
\* The same client without the clash, with exchanges that time out and leave their save behind.
TwoServers == {"home", "found"}
Saves == INSTANCE ActiveTarget WITH
    Target <- TwoServers, Pppoe <- {"wan"}, Device <- {}, Slot <- {"exitVia"},
    Role <- [s \in {"exitVia"} |-> "consumer"], Resource <- {"tunDev", "pppDev", "route"},
    Needs <- ControlNeeds, Dht <- {"found"}, Undialable <- {}, LoopFallback <- "idle", Forward <- {"web"},
    Secret <- [t \in TwoServers |-> SecretOf[t]], Discovery <- [t \in TwoServers |-> DiscoveryOf[t]],
    PeerSecret <- "peerKey", NoSecret <- "none", ControlFallback <- "idle", FileStart <- FirstFile,
    MaxOrphans <- 1,
    target <- v1, mode <- v2, peers <- v3, permit <- v4, pc <- v5, running <- v6, held <- v7, up <- v8,
    session <- v9, declared <- v10, loopServers <- v11, memo <- v12, known <- v13, fwds <- v5,
    controlServers <- v6, cfg <- v7, file <- v8, exchange <- v9, after <- v10, waiting <- v11,
    orphans <- v12, writing <- v13

Link == INSTANCE ClientLink WITH
    Transport <- "auto", Bodies <- {"forwards", "device", "pppoe"}, Prepares <- TRUE,
    UdpPath <- {"fail", "refused", "up"}, TcpPath <- {"fail", "refused", "half", "up"}, QuickFails <- 2,
    Cooldown <- 6, MinHealthy <- 3, Retry <- 1, RetryMax <- 4, Horizon <- 16, Interval <- 5, PongWait <- 2,
    ProbeGap <- 1, Strikes <- 3, Deadline <- 18, Delay <- 1, Stream <- {1, 2}, Proxied <- {1},
    Announces <- TRUE, Holds <- FALSE,
    body <- v1, pc <- v2, fails <- v3, cool <- v4, delay <- v5, wait <- v6, lived <- v7, udp <- v8,
    udpUp <- v9, clock <- v10, flaps <- v11, since <- v12, dry <- v13, up <- v1, why <- v2, server <- v3,
    waiting <- v4, probes <- v5, pingIn <- v6, deadlineIn <- v7, toServer <- v8, toClient <- v9,
    knows <- v10, sent <- v11, authorized <- v12, live <- v13, proven <- v14, dialing <- v15,
    tracked <- v16, silence <- v17
\* The channel of a bridge: it holds a lease instead of serving forwards.
Lease == INSTANCE ClientLink WITH
    Transport <- "auto", Bodies <- {"forwards", "device", "pppoe"}, Prepares <- TRUE,
    UdpPath <- {"fail", "refused", "up"}, TcpPath <- {"fail", "refused", "half", "up"}, QuickFails <- 2,
    Cooldown <- 6, MinHealthy <- 3, Retry <- 1, RetryMax <- 4, Horizon <- 16, Interval <- 5, PongWait <- 2,
    ProbeGap <- 1, Strikes <- 3, Deadline <- 18, Delay <- 2, Stream <- {1}, Proxied <- {},
    Announces <- FALSE, Holds <- TRUE,
    body <- v1, pc <- v2, fails <- v3, cool <- v4, delay <- v5, wait <- v6, lived <- v7, udp <- v8,
    udpUp <- v9, clock <- v10, flaps <- v11, since <- v12, dry <- v13, up <- v1, why <- v2, server <- v3,
    waiting <- v4, probes <- v5, pingIn <- v6, deadlineIn <- v7, toServer <- v8, toClient <- v9,
    knows <- v10, sent <- v11, authorized <- v12, live <- v13, proven <- v14, dialing <- v15,
    tracked <- v16, silence <- v17

-----------------------------------------------------------------------------
\* The peers: three paths, one of them deaf; two peers; two requests.
Punch == INSTANCE Punch WITH
    Path <- {"p1", "p2", "p3"}, MaxPeers <- 2, Deaf <- {"p1"},
    outI <- v1, outR <- v2, targets <- v3, sessions <- v4, written <- v5, queue <- v6, completed <- v7,
    finished <- v8, polled <- v9, arriving <- v10
Peer == INSTANCE PeerPath WITH
    Path <- {"p1", "p2"}, Overtakes <- TRUE, Drops <- TRUE, Keepalive <- 3, Misses <- 2, Delay <- 1,
    Patience <- 1,
    outI <- v1, outR <- v2, consumer <- v3, tcp <- v4, settleStage <- v5, inbox <- v6, informed <- v7,
    reports <- v8, relay <- v9, terms <- v1, linkStage <- v2, ready <- v3, frames <- v4, heard <- v5,
    phase <- v6, flight <- v7, missed <- v8
Slots == INSTANCE PeerSlots WITH
    ProviderMaxPair <- 3, Restarts <- 0, ProviderSessions <- 2, SlotQueue <- 1, Repairs <- 1,
    ConsumerMaxPair <- 2, MaxAsk <- 3, ConsumerSessions <- 2, Switches <- 1, Level <- 1,
    providerGeneration <- v1, providerLive <- v2, providerNext <- v3, restarts <- v4, wire <- v5,
    providerRoutes <- v6, providerQueue <- v7, task <- v8, busy <- v9, channel <- v10, adapter <- v11,
    held <- v12, fit <- v13, repairs <- v14, consumerGeneration <- v1, consumerLive <- v2,
    consumerNext <- v3, pair <- v4, informed <- v5, up <- v6, down <- v7, registered <- v8,
    consumerRoutes <- v9, consumerQueue <- v10, me <- v11, consumerStage <- v12, cycle <- v13, asks <- v14,
    asked <- v15, mine <- v16, backoff <- v17

-----------------------------------------------------------------------------
\* The server: a client of the command line, the lists an operator writes, text that does not parse.
Listed(i, s) == [id |-> i, secret |-> s]
SomeTexts ==
    {{}, {Listed("a", "s1"), Listed("b", "seed")}, {Listed("a", "s1"), Listed("b", "s1")}, {Listed("", "malformed")}}

Access == INSTANCE ServerAdmin WITH
    Id <- {"a", "b"}, Secret <- {"s1", "s2"}, Reserved <- {"s2"}, Cli <- {Listed("a", "seed")},
    Admin <- {"m1"}, Request <- {"add", "set", "remove"}, Conn <- {"c1", "c2"}, Texts <- SomeTexts,
    MaxEdits <- 1, EarlyEdit <- FALSE, Session <- {"a1", "a2"}, Listener <- {"l1"}, Route <- {"r1"},
    Client <- {"c1"}, Pinned <- {"r1"}, MaxCrashes <- 1, MaxFailures <- 1,
    list <- v1, table <- v2, accessFile <- v3, admin <- v4, saver <- v5, watch <- v6, event <- v7,
    conns <- v8, edits <- v9, behind <- v10, backed <- v1, mem <- v2, saveFile <- v3, lock <- v4,
    sess <- v5, last <- v6, dirty <- v7, left <- v8
Listen == INSTANCE Listeners WITH
    Key <- {"p443"}, ListenClient <- {"c1"}, Only <- "c2", Admin <- {"m1", "m2"},
    Request <- {"add", "remove", "route"}, Conn <- {"x", "y"}, MaxLoop <- 2, ListenCap <- 1, Busy <- {},
    FromFile <- {"p443"}, FromCli <- {}, Source <- {"s1", "s2"}, UdpClient <- {"c1", "c2"},
    UdpIdle <- [c \in {"c1", "c2"} |-> IF c = "c1" THEN 1 ELSE 2], DataTtl <- 2, Margin <- 1, UdpCap <- 1,
    MaxRelay <- 2, MaxRoutes <- 1,
    listeners <- v1, loops <- v2, booting <- v3, busy <- v4, routes <- v5, conns <- v6, admin <- v7,
    declared <- v8, file <- v9, loop <- v1, sessions <- v2, age <- v3, relays <- v4, route <- v5,
    request <- v6, flush <- v7, cancel <- v8, changes <- v9
\* The boot of a server whose port 80 another program holds.
Boot == INSTANCE Listeners WITH
    Key <- {"p80", "p443"}, ListenClient <- {"c1"}, Only <- "none", Admin <- {"m1", "m2"},
    Request <- {"add", "remove", "route"}, Conn <- {}, MaxLoop <- 4, ListenCap <- 1, Busy <- {"p80"},
    FromFile <- {"p80", "p443"}, FromCli <- {"p443"}, Source <- {"s1", "s2"}, UdpClient <- {"c1", "c2"},
    UdpIdle <- [c \in {"c1", "c2"} |-> IF c = "c1" THEN 1 ELSE 2], DataTtl <- 2, Margin <- 1, UdpCap <- 1,
    MaxRelay <- 2, MaxRoutes <- 1,
    listeners <- v1, loops <- v2, booting <- v3, busy <- v4, routes <- v5, conns <- v6, admin <- v7,
    declared <- v8, file <- v9, loop <- v1, sessions <- v2, age <- v3, relays <- v4, route <- v5,
    request <- v6, flush <- v7, cancel <- v8, changes <- v9
Port == INSTANCE UdpPort WITH
    Src <- {"s1", "s2"}, MaxSessions <- 1, MaxPending <- 1, MaxPermits <- 1, CookieTtl <- 1, AdmitTtl <- 1,
    SessionTtl <- 1, HandTtl <- 1, ControlMaxTasks <- 2, StreamConv <- {"s1"}, RelayConv <- {"r1"},
    BridgeConv <- "b", MaxConvs <- 2, KcpMaxTasks <- 2, Stalls <- FALSE,
    cookies <- v1, pending <- v2, sessions <- v3, permits <- v4, tasks <- v5, convs <- v1, dgrams <- v2,
    live <- v3, attached <- v4, closed <- v5, unclaimed <- v6, leases <- v7, drv <- v8, leg <- v9

-----------------------------------------------------------------------------
\* The data plane.
Relay == INSTANCE Relays WITH
    Kind <- "stream", Win <- 2, SendLimit <- 2, Stuck <- TRUE, Cuts <- TRUE, Kinds <- {"stream", "dgram"},
    SpliceFrames <- {"data", "empty", "keepalive"}, MaxFrames <- 2, Room <- 1, Lazy <- FALSE,
    Mac <- {"x", "y"}, MaxPort <- 2, L2 <- TRUE, PortToPort <- TRUE, MaxMacs <- 2, SwitchFrames <- 2,
    ends <- v1, up <- v2, down <- v3, mark <- v4, chan <- v5, stuck <- v6, path <- v7, frozen <- v8,
    kind <- v1, inq <- v2, hold <- v3, outq <- v4, alive <- v5, splice <- v6, stop <- v7, sent <- v8,
    got <- v9, ports <- v1, macs <- v2, relays <- v3, reader <- v4, frames <- v5, last <- v6, skipped <- v7
\* A relay of datagrams; a layer 3 tunnel, which serves one client.
Dgram == INSTANCE Relays WITH
    Kind <- "dgram", Win <- 4, SendLimit <- 2, Stuck <- FALSE, Cuts <- TRUE, Kinds <- {"stream", "dgram"},
    SpliceFrames <- {"data", "empty", "keepalive"}, MaxFrames <- 2, Room <- 1, Lazy <- FALSE,
    Mac <- {"x", "y"}, MaxPort <- 3, L2 <- FALSE, PortToPort <- FALSE, MaxMacs <- 1, SwitchFrames <- 0,
    ends <- v1, up <- v2, down <- v3, mark <- v4, chan <- v5, stuck <- v6, path <- v7, frozen <- v8,
    kind <- v1, inq <- v2, hold <- v3, outq <- v4, alive <- v5, splice <- v6, stop <- v7, sent <- v8,
    got <- v9, ports <- v1, macs <- v2, relays <- v3, reader <- v4, frames <- v5, last <- v6, skipped <- v7

ClientOfPsk == [k \in {"p1", "p2"} |-> IF k = "p1" THEN "c1" ELSE "c2"]
Noise == INSTANCE Noise WITH
    Psks <- {"p1", "p2", "p3"}, Clients <- ClientOfPsk, AdminPsks <- {<<>>, <<"p3">>}, Versions <- {1, 2},
    Ids <- {"d1"}, MAX_PLAINTEXT <- 2, Sizes <- {0, 1, 3}, MaxSends <- 2, MaxCancels <- 2,
    APP_CHAN_CAP <- 2,
    conv <- v1, side <- v2, wire <- v3, used <- v4, spoilt <- v5, sizes <- v1, chunks <- v2, wbuf <- v3,
    sends <- v4, chan <- v5, read_buf <- v6, open <- v7, reader <- v8, skips <- v9, polling <- v10,
    cancels <- v11, got <- v12, err <- v13

\* The DHT: every node names the closest nodes, or a chain towards the target.
NodeGraphs == {<<{2, 3}, {1, 3}, {1, 2}, {2, 3}, {3, 4}>>, <<{2}, {1}, {2}, {3}, {4}>>}
Discover == INSTANCE Dht WITH
    WalkNodes <- {1, 2, 3, 4, 5}, Routers <- {5}, Graphs <- NodeGraphs, K <- 2, Rounds <- 2,
    MaxPersisted <- 3, Lossy <- TRUE, Lookups <- 2, Dups <- 1, WalkFaults <- 1, RecordNodes <- {"n1", "n2"},
    Addrs <- {"a1", "a2"}, MaxClock <- 2, MaxSeq <- 8, BackoffMax <- 2, Interval <- 3, Torn <- FALSE,
    RecordFaults <- 2,
    knows <- v1, up <- v2, walkHolders <- v3, walkCache <- v4, w <- v5, left <- v6, clock <- v1, wan <- v2,
    disk <- v3, srv <- v4, nodes <- v5, cli <- v6, recordCache <- v7, aux <- v8

-----------------------------------------------------------------------------
\* The consoles.
Console == INSTANCE Consoles WITH
    Keys <- {1, 2}, Clients <- {1, 2}, Locked <- {1}, PanelPresses <- 3, PanelEdits <- 1, PanelFaults <- 1,
    ConsolePresses <- 3, ConsoleEdits <- 1, ConsoleFaults <- 1, Starts <- 3, Overlap <- FALSE,
    Foreign <- TRUE,
    srv <- v1, panelApp <- v2, past <- v3, panelCli <- v4, panelLeft <- v5, d <- v1, consoleApp <- v2,
    consoleCli <- v3, consoleLeft <- v4, proc <- v1, dir <- v2, entry <- v3, last <- v4

-----------------------------------------------------------------------------
\* The slots from the k-th on, and that they are not in use.
From17 == v17
From16 == <<v16, From17>>
From15 == <<v15, From16>>
From14 == <<v14, From15>>
From13 == <<v13, From14>>
From12 == <<v12, From13>>
From11 == <<v11, From12>>
From10 == <<v10, From11>>
From9 == <<v9, From10>>
From8 == <<v8, From9>>
From7 == <<v7, From8>>
From6 == <<v6, From7>>
From5 == <<v5, From6>>
From4 == <<v4, From5>>
From3 == <<v3, From4>>
From2 == <<v2, From3>>
From1 == <<v1, From2>>
Rest17 == v17 = 0
Rest16 == v16 = 0 /\ Rest17
Rest15 == v15 = 0 /\ Rest16
Rest14 == v14 = 0 /\ Rest15
Rest13 == v13 = 0 /\ Rest14
Rest12 == v12 = 0 /\ Rest13
Rest11 == v11 = 0 /\ Rest12
Rest10 == v10 = 0 /\ Rest11
Rest9 == v9 = 0 /\ Rest10
Rest8 == v8 = 0 /\ Rest9
Rest7 == v7 = 0 /\ Rest8
Rest6 == v6 = 0 /\ Rest7
Rest5 == v5 = 0 /\ Rest6
Rest4 == v4 = 0 /\ Rest5
Rest3 == v3 = 0 /\ Rest4
Rest2 == v2 = 0 /\ Rest3
Rest1 == v1 = 0 /\ Rest2

TunnelInit ==
    \/ part = "path" /\ Init /\ Rest1
    \/ part = "loop" /\ Loop!LoopInit /\ Rest14 /\ Init
    \/ part = "control" /\ Control!ControlInit /\ Rest14 /\ Init
    \/ part = "saves" /\ Saves!ControlInit /\ Rest14 /\ Init
    \/ part = "dial" /\ Link!DialInit /\ Rest14 /\ Init
    \/ part = "channel" /\ Link!ChannelInit /\ Init
    \/ part = "lease" /\ Lease!ChannelInit /\ Init
    \/ part = "punch" /\ Punch!PunchInit /\ Rest11 /\ Init
    \/ part = "settle" /\ Peer!SettleInit /\ Rest10 /\ Init
    \/ part = "peer" /\ Peer!LinkInit /\ Rest9 /\ Init
    \/ part = "provider" /\ Slots!ProviderInit /\ Rest15 /\ Init
    \/ part = "consumer" /\ Slots!ConsumerInit /\ Init
    \/ part = "access" /\ Access!AccessInit /\ Rest11 /\ Init
    \/ part = "save" /\ Access!SaveInit /\ Rest9 /\ Init
    \/ part = "listen" /\ Listen!ListenInit /\ Rest10 /\ Init
    \/ part = "boot" /\ Boot!ListenInit /\ Rest10 /\ Init
    \/ part = "sources" /\ Listen!UdpInit /\ Rest10 /\ Init
    \/ part = "admit" /\ Port!ControlInit /\ Rest6 /\ Init
    \/ part = "kcp" /\ Port!KcpInit /\ Rest10 /\ Init
    \/ part = "relay" /\ Relay!WatchInit /\ Rest9 /\ Init
    \/ part = "dgram" /\ Dgram!WatchInit /\ Rest9 /\ Init
    \/ part = "splice" /\ Relay!SpliceInit /\ Rest10 /\ Init
    \/ part = "tap" /\ Relay!SwitchInit /\ Rest8 /\ Init
    \/ part = "tun" /\ Dgram!SwitchInit /\ Rest8 /\ Init
    \/ part = "hand" /\ Noise!HandInit /\ Rest6 /\ Init
    \/ part = "stream" /\ Noise!StreamInit /\ Rest14 /\ Init
    \/ part = "walk" /\ Discover!WalkInit /\ Rest7 /\ Init
    \/ part = "record" /\ Discover!RecordInit /\ Rest9 /\ Init
    \/ part = "server" /\ Console!PanelInit /\ Rest6 /\ Init
    \/ part = "console" /\ Console!ConsoleInit /\ Rest5 /\ Init
    \/ part = "socket" /\ Console!SocketInit /\ Rest5 /\ Init

TunnelNext ==
    \/ part = "path" /\ Next /\ UNCHANGED <<part, From1>>
    \/ part = "loop" /\ Loop!LoopNext /\ UNCHANGED <<part, vars, From14>>
    \/ part = "control" /\ Control!ControlNext /\ UNCHANGED <<part, vars, From14>>
    \/ part = "saves" /\ Saves!SoundDisk /\ UNCHANGED <<part, vars, From14>>
    \/ part = "dial" /\ Link!DialNext /\ UNCHANGED <<part, vars, From14>>
    \/ part = "channel" /\ Link!ChannelNext /\ UNCHANGED <<part, vars>>
    \/ part = "lease" /\ Lease!ChannelNext /\ UNCHANGED <<part, vars>>
    \/ part = "punch" /\ Punch!PunchNext /\ UNCHANGED <<part, vars, From11>>
    \/ part = "settle" /\ Peer!SettleNext /\ UNCHANGED <<part, vars, From10>>
    \/ part = "peer" /\ Peer!LinkNext /\ UNCHANGED <<part, vars, From9>>
    \/ part = "provider" /\ Slots!ProviderNext /\ UNCHANGED <<part, vars, From15>>
    \/ part = "consumer" /\ Slots!ConsumerNext /\ UNCHANGED <<part, vars>>
    \/ part = "access" /\ Access!AccessNext /\ UNCHANGED <<part, vars, From11>>
    \/ part = "save" /\ Access!SaveNext /\ UNCHANGED <<part, vars, From9>>
    \/ part = "listen" /\ Listen!ListenNext /\ UNCHANGED <<part, vars, From10>>
    \/ part = "boot" /\ Boot!ListenNext /\ UNCHANGED <<part, vars, From10>>
    \/ part = "sources" /\ Listen!UdpNext /\ UNCHANGED <<part, vars, From10>>
    \/ part = "admit" /\ Port!ControlNext /\ UNCHANGED <<part, vars, From6>>
    \/ part = "kcp" /\ Port!KcpNext /\ UNCHANGED <<part, vars, From10>>
    \/ part = "relay" /\ Relay!WatchNext /\ UNCHANGED <<part, vars, From9>>
    \/ part = "dgram" /\ Dgram!WatchNext /\ UNCHANGED <<part, vars, From9>>
    \/ part = "splice" /\ Relay!SpliceNext /\ UNCHANGED <<part, vars, From10>>
    \/ part = "tap" /\ Relay!SwitchNext /\ UNCHANGED <<part, vars, From8>>
    \/ part = "tun" /\ Dgram!SwitchNext /\ UNCHANGED <<part, vars, From8>>
    \/ part = "hand" /\ Noise!HandNext /\ UNCHANGED <<part, vars, From6>>
    \/ part = "stream" /\ Noise!StreamNext /\ UNCHANGED <<part, vars, From14>>
    \/ part = "walk" /\ Discover!WalkNext /\ UNCHANGED <<part, vars, From7>>
    \/ part = "record" /\ Discover!RecordNext /\ UNCHANGED <<part, vars, From9>>
    \/ part = "server" /\ Console!PanelNext /\ UNCHANGED <<part, vars, From6>>
    \/ part = "console" /\ Console!ConsoleNext /\ UNCHANGED <<part, vars, From5>>
    \/ part = "socket" /\ Console!SocketNext /\ UNCHANGED <<part, vars, From5>>

tunnelVars == <<part, v1, v2, v3, v4, v5, v6, v7, v8, v9, v10, v11, v12, v13, v14, v15, v16, v17, vars>>
TunnelSpec == TunnelInit /\ [][TunnelNext]_tunnelVars

-----------------------------------------------------------------------------
\* What the machines assume of their constants.
ASSUME ClientAssumptions ==
    /\ Loop!ActiveAssumption /\ Loop!LoopAssumption /\ Control!ActiveAssumption
    /\ Control!ControlAssumption /\ Saves!ControlAssumption
    /\ Link!SessionAssumption /\ Link!ChannelAssumption /\ Lease!ChannelAssumption
    /\ Punch!PunchAssumption /\ Peer!SettleAssumption /\ Peer!SessionAssumption
    /\ Slots!SlotAssumption /\ Slots!ConsumerAssumption
ASSUME ServerAssumptions ==
    /\ Access!AccessAssumption /\ Access!BoundsNat /\ Access!PinnedEntries
    /\ Listen!ListenersAssumption /\ Listen!SourcesAssumption /\ Boot!ListenersAssumption
    /\ Port!ControlAssumption /\ Port!SessionAssumption
ASSUME DataAssumptions ==
    /\ Relay!WatchAssumption /\ Dgram!WatchAssumption /\ Relay!SwitchAssumption /\ Dgram!SwitchAssumption
    /\ Noise!ClientsAssumption /\ Noise!PlainAssumption /\ Discover!DhtAssumption /\ Discover!RecordAssumption

\* What may be held once is held once, and by someone alive: the client's devices and default route
\* (Active and the permits of clientctl.rs), a provider's hold and its binding (peerslot.rs), a KCP
\* conversation's driver and tag (kcp.rs), the port of a listener whose loop is registered
\* (server.rs), the one client of a layer 3 tunnel, and a hardware address's port (bridge.rs).
HeldOnce ==
    /\ part = "loop" => Loop!SoleHolder /\ Loop!OfflineHoldsNothing
    /\ part = "provider" => Slots!Exclusive /\ Slots!BindingHeld
    /\ part = "kcp" => Port!DriversKeepTheirLane /\ Port!LegsKeepTheirTag
    /\ part = "boot" => Boot!LoopsAreRegistered /\ Boot!PinnedStays
    /\ part = "tap" => Relay!NoStaleBinding /\ Relay!BindingsAreCurrent
    /\ part = "tun" => Dgram!OneTunClient /\ Dgram!UnheardGivesWay


\* What arrives is what was sent: a datagram that is new is taken and no nonce seals two (noise.rs),
\* a stream's bytes come in order and its two ends keep step (noise.rs), and a relayed pair sees the
\* same on the spliced path as on the direct one, a stream without losing any (server.rs).
Delivered ==
    /\ part = "path" => FreshIsTaken /\ NonceOnce
    /\ part = "stream" => Noise!InOrder /\ Noise!InStep
    /\ part = "splice" => Relay!SameOnEveryPath /\ Relay!StreamLosesNothing

\* Every machine's state has its type, and what is counted or capped stays so: handshake permits are
\* conserved, the maps and source tables of the UDP port keep their caps (admission.rs, server.rs),
\* connections theirs, and a KCP session's live count is exact and bounds its drivers (kcp.rs).
WithinBounds ==
    /\ part = "loop" => Loop!TypeOK
    /\ part = "control" => Control!ControlTypeOK
    /\ part = "saves" => Saves!ControlTypeOK
    /\ part = "dial" => Link!DialTypeOK
    /\ part = "channel" => Link!ChannelTypeOK
    /\ part = "punch" => Punch!PunchTypeOK
    /\ part = "settle" => Peer!SettleTypeOK
    /\ part = "peer" => Peer!LinkTypeOK
    /\ part = "provider" => Slots!ProviderTypeOK
    /\ part = "consumer" => Slots!ConsumerTypeOK
    /\ part = "access" => Access!AccessTypeOK
    /\ part = "save" => Access!SaveTypeOK
    /\ part = "listen" => Listen!ListenTypeOK /\ Listen!CapHolds
    /\ part = "sources" => Listen!UdpTypeOK /\ Listen!SourcesBounded
    /\ part = "admit" => Port!ControlTypeOK /\ Port!PermitsConserved /\ Port!MapsBounded
    /\ part = "kcp" => Port!KcpTypeOK /\ Port!LiveIsExact /\ Port!DriversBounded
    /\ part = "relay" => Relay!WatchTypeOK
    /\ part = "splice" => Relay!SpliceTypeOK
    /\ part = "tap" => Relay!SwitchTypeOK
    /\ part = "hand" => Noise!HandTypeOK
    /\ part = "stream" => Noise!StreamTypeOK
    /\ part = "walk" => Discover!WalkTypeOK
    /\ part = "record" => Discover!RecordTypeOK
    /\ part = "server" => Console!PanelTypeOK
    /\ part = "console" => Console!ConsoleTypeOK
    /\ part = "socket" => Console!SocketTypeOK

\* The two ends of what takes two agree: announces apply in order (client.rs), peers go direct only
\* on the path that was nominated, once and for all, and on one path (punch.rs, peerslot.rs), a peer
\* session that is up was admitted (peer.rs), and a handshake that completes has the keys of
\* the two who ran it, answers the right one, and notices what was garbled, while two that are set
\* up alike both end it well (noise.rs).
Agreement ==
    /\ part = "channel" => Link!AnnounceInOrder
    /\ part = "punch" => Punch!DirectIsNominated
    /\ part = "settle" => Peer!DirectIsFinal /\ Peer!OnePath
    /\ part = "peer" => Peer!UpIsAdmitted
    /\ part = "hand" => /\ Noise!GarbleIsNoticed /\ Noise!KeysCross /\ Noise!AnswersTheRightOne
                        /\ Noise!PeersKnowEachOther /\ Noise!CounterOnce /\ Noise!AlikeMeet

\* Clocks decide rightly: a slow server is not taken for a dead one and a dead one is noticed in
\* time, nothing outlives the channel (client.rs), UDP is left only after it flapped and its cooldown
\* is earned, and a relay's watchdog reaps only paths that carry nothing (bridge.rs).
Timers ==
    /\ part = "channel" => Link!SlowIsNotDead /\ Link!DeadIsNoticed /\ Link!NothingOutlives
    /\ part = "lease" => Lease!SlowIsNotDead /\ Lease!DeadIsNoticed
    /\ part = "dial" => Link!FlapsAreRare /\ Link!CooldownIsEarned
    /\ part = "relay" => Relay!ReapsAreDeserved
    /\ part = "dgram" => Dgram!ReapsOnlyBlackHoles


\* What no step may do.  A client's memo of resolved servers keeps only those it has; a frame read
\* cancels no forward; redials thin out; a peer is reaped only after its misses; a refused request
\* changes nothing; a UDP session opens only by a fresh cookie, an admission buys one, and an
\* established one gives way only when stale or idle; a console keeps its row, tells the truth about
\* a change and stops only what it named; a control socket never replaces a file.  And a punch takes
\* only the steps its outcome allows (PunchOutcome).
TunnelSteps ==
    /\ part = "punch" => Punch!OutcomeBegins
    /\ [][ /\ part = "loop" => Loop!MemoPruned
           /\ part = "channel" => Link!ForwardsSurvive
           /\ part = "dial" => Link!RedialsThinOut
           /\ part = "peer" => Peer!ReapIsEarned
           /\ part = "access" => Access!RefusedChangesNothing
           /\ part = "admit" => Port!OpenedByFreshCookie /\ Port!AdmissionBuysASession /\ Port!EstablishedStay
           /\ part = "server" => Console!RowsStable
           /\ part = "console" => Console!ToastTruth /\ Console!StopsNamed
           /\ part = "socket" => Console!FileKept
           /\ part = "punch" => Punch!OutcomeStep ]_tunnelVars
=============================================================================
