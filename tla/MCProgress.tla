----------------------------- MODULE MCProgress -----------------------------
(***************************************************************************)
(* What must eventually happen, machine by machine, on small instances in  *)
(* one model.  As in MCTunnel a behaviour is a behaviour of one machine,   *)
(* named by `part`; the weak and strong fairness of all of them is merged  *)
(* (Due, Insisted): the i-th action of the machine at hand.                *)
(***************************************************************************)
EXTENDS Integers, FiniteSets, Sequences, TLC

VARIABLES part, v1, v2, v3, v4, v5, v6, v7, v8, v9, v10, v11, v12, v13, v14, v15, v16, v17

-----------------------------------------------------------------------------
\* The client.
Loop == INSTANCE ActiveTarget WITH
    Target <- {"static", "dht"}, Pppoe <- {}, Device <- {"tap"}, Slot <- {"exitVia", "exitFor"},
    Role <- [s \in {"exitVia", "exitFor"} |-> IF s = "exitVia" THEN "consumer" ELSE "exit"],
    Resource <- {"tunDev", "pppDev", "exitDev", "route"},
    Needs <- [h \in {"tap", "exitVia", "exitFor"} |-> IF h = "exitFor" THEN {"exitDev"} ELSE IF h = "tap" THEN {"tunDev"} ELSE {"tunDev", "route"}],
    Dht <- {"dht"}, Undialable <- {"dht"}, LoopFallback <- "tap", Forward <- {},
    Secret <- [t \in {"static", "dht"} |-> "key1"], Discovery <- [t \in {"static", "dht"} |-> "none"],
    PeerSecret <- "peerKey", NoSecret <- "none", ControlFallback <- "idle", FileStart <- {},
    MaxOrphans <- 0,
    target <- v1, mode <- v2, peers <- v3, permit <- v4, pc <- v5, running <- v6, held <- v7, up <- v8,
    session <- v9, declared <- v10, loopServers <- v11, memo <- v12, known <- v13, fwds <- v5,
    controlServers <- v6, cfg <- v7, file <- v8, exchange <- v9, after <- v10, waiting <- v11,
    orphans <- v12, writing <- v13
Link == INSTANCE ClientLink WITH
    Transport <- "auto", Bodies <- {"forwards", "device", "pppoe"}, Prepares <- FALSE,
    UdpPath <- {"fail", "up"}, TcpPath <- {"up"}, QuickFails <- 2, Cooldown <- 6, MinHealthy <- 3,
    Retry <- 1, RetryMax <- 4, Horizon <- 12, Interval <- 5, PongWait <- 2, ProbeGap <- 1, Strikes <- 3,
    Deadline <- 18, Delay <- 1, Stream <- {1}, Proxied <- {}, Announces <- FALSE, Holds <- TRUE,
    body <- v1, pc <- v2, fails <- v3, cool <- v4, delay <- v5, wait <- v6, lived <- v7, udp <- v8,
    udpUp <- v9, clock <- v10, flaps <- v11, since <- v12, dry <- v13, up <- v1, why <- v2, server <- v3,
    waiting <- v4, probes <- v5, pingIn <- v6, deadlineIn <- v7, toServer <- v8, toClient <- v9,
    knows <- v10, sent <- v11, authorized <- v12, live <- v13, proven <- v14, dialing <- v15,
    tracked <- v16, silence <- v17
Punch == INSTANCE Punch WITH
    Path <- {"p1", "p2"}, MaxPeers <- 3, Deaf <- {},
    outI <- v1, outR <- v2, targets <- v3, sessions <- v4, written <- v5, queue <- v6, completed <- v7,
    finished <- v8, polled <- v9, arriving <- v10
Peer == INSTANCE PeerPath WITH
    Path <- {"p1", "p2"}, Overtakes <- FALSE, Drops <- FALSE, Keepalive <- 2, Misses <- 1, Delay <- 1,
    Patience <- 1,
    outI <- v1, outR <- v2, consumer <- v3, tcp <- v4, settleStage <- v5, inbox <- v6, informed <- v7,
    reports <- v8, relay <- v9, terms <- v1, linkStage <- v2, ready <- v3, frames <- v4, heard <- v5,
    phase <- v6, flight <- v7, missed <- v8
Slots == INSTANCE PeerSlots WITH
    ProviderMaxPair <- 2, Restarts <- 0, ProviderSessions <- 2, SlotQueue <- 1, Repairs <- 1,
    ConsumerMaxPair <- 2, MaxAsk <- 3, ConsumerSessions <- 2, Switches <- 1, Level <- 1,
    providerGeneration <- v1, providerLive <- v2, providerNext <- v3, restarts <- v4, wire <- v5,
    providerRoutes <- v6, providerQueue <- v7, task <- v8, busy <- v9, channel <- v10, adapter <- v11,
    held <- v12, fit <- v13, repairs <- v14, consumerGeneration <- v1, consumerLive <- v2,
    consumerNext <- v3, pair <- v4, informed <- v5, up <- v6, down <- v7, registered <- v8,
    consumerRoutes <- v9, consumerQueue <- v10, me <- v11, consumerStage <- v12, cycle <- v13, asks <- v14,
    asked <- v15, mine <- v16, backoff <- v17
Console == INSTANCE Consoles WITH
    Keys <- {1}, Clients <- {1, 2}, Locked <- {1}, PanelPresses <- 2, PanelEdits <- 1, PanelFaults <- 1,
    ConsolePresses <- 0, ConsoleEdits <- 0, ConsoleFaults <- 0, Starts <- 2, Overlap <- FALSE,
    Foreign <- TRUE,
    srv <- v1, panelApp <- v2, past <- v3, panelCli <- v4, panelLeft <- v5, d <- v1, consoleApp <- v2,
    consoleCli <- v3, consoleLeft <- v4, proc <- v1, dir <- v2, entry <- v3, last <- v4

-----------------------------------------------------------------------------
\* The server.
Listed(i, s) == [id |-> i, secret |-> s]
Access == INSTANCE ServerAdmin WITH
    Id <- {"a", "b"}, Secret <- {"s1"}, Reserved <- {}, Cli <- {Listed("a", "seed")}, Admin <- {"m1", "m2"},
    Request <- {"add", "remove"}, Conn <- {}, Texts <- {{Listed("a", "s1")}, {Listed("", "malformed")}},
    MaxEdits <- 1, EarlyEdit <- FALSE, Session <- {"a1", "a2"}, Listener <- {"l1"}, Route <- {"r1"},
    Client <- {"c1"}, Pinned <- {"r1"}, MaxCrashes <- 1, MaxFailures <- 1,
    list <- v1, table <- v2, accessFile <- v3, admin <- v4, saver <- v5, watch <- v6, event <- v7,
    conns <- v8, edits <- v9, behind <- v10, backed <- v1, mem <- v2, saveFile <- v3, lock <- v4,
    sess <- v5, last <- v6, dirty <- v7, left <- v8
Listen == INSTANCE Listeners WITH
    Key <- {"p443"}, ListenClient <- {"c1"}, Only <- "c2", Admin <- {"m1"},
    Request <- {"add", "remove", "route"}, Conn <- {"x"}, MaxLoop <- 2, ListenCap <- 1, Busy <- {},
    FromFile <- {"p443"}, FromCli <- {}, Source <- {"s1"}, UdpClient <- {"c1", "c2"},
    UdpIdle <- [c \in {"c1", "c2"} |-> 1], DataTtl <- 2, Margin <- 1, UdpCap <- 1, MaxRelay <- 2,
    MaxRoutes <- 1,
    listeners <- v1, loops <- v2, booting <- v3, busy <- v4, routes <- v5, conns <- v6, admin <- v7,
    declared <- v8, file <- v9, loop <- v1, sessions <- v2, age <- v3, relays <- v4, route <- v5,
    request <- v6, flush <- v7, cancel <- v8, changes <- v9
Port == INSTANCE UdpPort WITH
    Src <- {"s1"}, MaxSessions <- 1, MaxPending <- 1, MaxPermits <- 1, CookieTtl <- 1, AdmitTtl <- 1,
    SessionTtl <- 2, HandTtl <- 1, ControlMaxTasks <- 2, StreamConv <- {"s1"}, RelayConv <- {"r1"},
    BridgeConv <- "b", MaxConvs <- 1, KcpMaxTasks <- 2, Stalls <- FALSE,
    cookies <- v1, pending <- v2, sessions <- v3, permits <- v4, tasks <- v5, convs <- v1, dgrams <- v2,
    live <- v3, attached <- v4, closed <- v5, unclaimed <- v6, leases <- v7, drv <- v8, leg <- v9
Relay == INSTANCE Relays WITH
    Kind <- "stream", Win <- 2, SendLimit <- 2, Stuck <- FALSE, Cuts <- TRUE, Kinds <- {"stream", "dgram"},
    SpliceFrames <- {"data"}, MaxFrames <- 2, Room <- 1, Lazy <- FALSE, Mac <- {"x", "y"}, MaxPort <- 2,
    L2 <- FALSE, PortToPort <- FALSE, MaxMacs <- 1, SwitchFrames <- 0,
    ends <- v1, up <- v2, down <- v3, mark <- v4, chan <- v5, stuck <- v6, path <- v7, frozen <- v8,
    kind <- v1, inq <- v2, hold <- v3, outq <- v4, alive <- v5, splice <- v6, stop <- v7, sent <- v8,
    got <- v9, ports <- v1, macs <- v2, relays <- v3, reader <- v4, frames <- v5, last <- v6, skipped <- v7

-----------------------------------------------------------------------------
\* Handshakes, streams, the DHT and watched files.
ClientOfPsk == [k \in {"p1"} |-> "c1"]
Noise == INSTANCE Noise WITH
    Psks <- {"p1", "p2"}, Clients <- ClientOfPsk, AdminPsks <- {<<"p2">>}, Versions <- {1}, Ids <- {"d1"},
    MAX_PLAINTEXT <- 2, Sizes <- {0, 3}, MaxSends <- 2, MaxCancels <- 1, APP_CHAN_CAP <- 1,
    conv <- v1, side <- v2, wire <- v3, used <- v4, spoilt <- v5, sizes <- v1, chunks <- v2, wbuf <- v3,
    sends <- v4, chan <- v5, read_buf <- v6, open <- v7, reader <- v8, skips <- v9, polling <- v10,
    cancels <- v11, got <- v12, err <- v13
NodeGraphs == {<<{2, 3}, {1, 3}, {1, 2}, {2, 3}, {3, 4}>>, <<{2}, {1}, {2}, {3}, {4}>>}
Discover == INSTANCE Dht WITH
    WalkNodes <- {1, 2, 3, 4, 5}, Routers <- {5}, Graphs <- NodeGraphs, K <- 2, Rounds <- 2,
    MaxPersisted <- 3, Lossy <- TRUE, Lookups <- 1, Dups <- 1, WalkFaults <- 1, RecordNodes <- {"n1", "n2"},
    Addrs <- {"a1", "a2"}, MaxClock <- 2, MaxSeq <- 8, BackoffMax <- 1, Interval <- 3, Torn <- FALSE,
    RecordFaults <- 1,
    knows <- v1, up <- v2, walkHolders <- v3, walkCache <- v4, w <- v5, left <- v6, clock <- v1, wan <- v2,
    disk <- v3, srv <- v4, nodes <- v5, cli <- v6, recordCache <- v7, aux <- v8
Watched == INSTANCE Durable WITH
    Good <- {"g1"}, Bad <- {"b1"}, MaxFiles <- 2, MaxSec <- 2, Chmods <- FALSE, Hurried <- FALSE,
    MaxEdit <- 4, Notifies <- TRUE, Replaced <- TRUE, MaxNoise <- 2, Noisy <- FALSE,
    inodes <- v1, dirs <- v2, proc <- v3, save <- v4, since <- v5, unsynced <- v6, aside <- v7, sec <- v8,
    file <- v1, events <- v2, mode <- v3, gone <- v4, at <- v5, stamp <- v6, last <- v7, noise <- v8,
    loaded <- v9
\* A file system without notification.
Polled == INSTANCE Durable WITH
    Good <- {"g1"}, Bad <- {"b1"}, MaxFiles <- 2, MaxSec <- 2, Chmods <- FALSE, Hurried <- FALSE,
    MaxEdit <- 4, Notifies <- FALSE, Replaced <- TRUE, MaxNoise <- 0, Noisy <- FALSE,
    inodes <- v1, dirs <- v2, proc <- v3, save <- v4, since <- v5, unsynced <- v6, aside <- v7, sec <- v8,
    file <- v1, events <- v2, mode <- v3, gone <- v4, at <- v5, stamp <- v6, last <- v7, noise <- v8,
    loaded <- v9

-----------------------------------------------------------------------------
\* The host, PPPoE and the proxy.
Row(to, via, dev, metric) == [to |-> to, via |-> via, dev |-> dev, metric |-> metric]
OneGateway == {Row("lan1", "none", "eth0", 0), Row("any", "g1", "eth0", 100)}
PointToPoint == {Row("any", "none", "ppp0", 0)}
TwoLinks == OneGateway \cup {Row("lan2", "none", "eth1", 0), Row("any", "none", "ppp0", 700)}
Routes == INSTANCE HostRoutes WITH
    Lan1 <- {"g1", "p2"}, Lan2 <- {"g2", "p3"}, High <- {"s2", "p1", "far-high"}, V6 <- {"far6"},
    MaxMetric <- 32766, ExitHomes <- {OneGateway, PointToPoint, TwoLinks}, Servers <- {"s1", "s2"},
    Peers <- <<"p1", "p2">>, Kinds <- {"client"}, StrictModes <- {TRUE, FALSE}, Gateways <- {"g1"},
    RaiseFaults <- 1, LowerFaults <- 0, Flaps <- 1, Crashes <- 0, NetHomes <- {OneGateway},
    Opts <- {{"dns"}}, Server <- "srv", Faults <- 0, Torn <- FALSE, Edges <- 2,
    exitTable <- v1, exitHome <- v2, p <- v3, exitLeft <- v4, netTable <- v1, resolv <- v2, netHome <- v3,
    netG <- v4, netLeft <- v5
Bridge == INSTANCE HostBridge WITH
    Mgr <- "netplan", Spare <- FALSE,
    MayFail <- {"br_add", "nic_master", "br_addr", "br_route", "cloud_off", "move_aside", "90-zeronat.yaml", "generate", "reload"},
    Faults <- 1, Runs <- 2, Eager <- FALSE, Deaths <- 2, Reboots <- 0, LiveTicks <- 2, W <- 4, Addrs4 <- {},
    Addrs6 <- {}, Gateways4 <- {-1}, Gateways6 <- {FALSE}, Mixed <- FALSE, Servers <- {"stub", "isp"},
    w <- v1, inst <- v2, sh <- v3, timer <- v4, left <- v5, host <- v1, nicNic <- v2, out <- v3
Engine == INSTANCE PppoeEngine WITH
    ACs <- {"a1", "a2"}, RetransmitTicks <- 2, MaxAttempts <- 2, MaxDials <- 1, MaxSessions <- 2,
    OtherHost <- FALSE, Stale <- FALSE, RestartTicks <- 1, MaxConfigure <- 1, Asked <- {"none"},
    Malformed <- FALSE, Byte <- 5, Regions <- [1..3 -> 0..4], Others <- {0}, Clamps <- {12},
    dp <- v1, dials <- v2, net <- v3, dialAsked <- v4, granted <- v5, ppp <- v1, passes <- v1, opts <- v2,
    cksum <- v3, other <- v4, clamp <- v5, i <- v6, at <- v7, old <- v8
Shell == INSTANCE PppoeShell WITH
    EchoInterval <- 1, EchoDead <- 2, StrandRevert <- 2, UdpIdle <- 3, ShellHeld <- 2,
    ShellRedialTicks <- 1, RedialTicksMax <- 2, HostFlags <- TRUE, Answers <- FALSE, Sessions <- {"a", "b"},
    FleetRedialTicks <- 1, RedialMax <- 2, FleetHeld <- 1, Grace <- 2, Faults <- 0,
    shell <- v1, fleet <- v1, ch <- v2, faults <- v3
Start == INSTANCE EgressBoot WITH
    Typed <- {}, Pasted <- {}, Mtu <- {1280}, Named <- {"identity"}, PeerLinks <- 1, BackoffMax <- 4,
    Faults <- 5,
    flags <- v1, env <- v2, conf <- v3, proc <- v4, links <- v5, pc <- v1, tasks <- v2, permit <- v3,
    backoff <- v4, ended <- v5, left <- v6
Proxy == INSTANCE Egress WITH
    N <- 2, Tokens <- {"t1"}, Conns <- {"c1", "c2"},
    Fronts <- [c \in {"c1", "c2"} |-> IF c = "c2" THEN "http" ELSE "socks"], MaxConns <- 1, StickyMax <- 2,
    Flaps <- 1, Depth <- 2, Chunk <- 2, Budget <- 3, TxBuf <- 2, RxBuf <- 2, ToSend <- 2, ToRecv <- 2,
    Lingers <- TRUE, Breaks <- TRUE, Methods <- {"get"}, Targets <- {"host"}, Headers <- {},
    MaxHeaders <- 0, MaxBody <- 0, MaxHead <- 4,
    est <- v1, conf <- v2, rr <- v3, sticky <- v4, selectConn <- v5, seen <- v6, flaps <- v7, client <- v1,
    to <- v2, from <- v3, streamConn <- v4, tcp <- v5, remote <- v6, sent <- v1, sock <- v2, head <- v3,
    at <- v4, replies <- v5, up <- v6

-----------------------------------------------------------------------------
\* The slots from the k-th on, and that they are not in use.
From17 == v17
From16 == <<v16, From17>>
From15 == <<v15, From16>>
From14 == <<v14, From15>>
From13 == <<v13, From14>>
From12 == <<v12, From13>>
From11 == <<v11, From12>>
From10 == <<v10, From11>>
From9 == <<v9, From10>>
From8 == <<v8, From9>>
From7 == <<v7, From8>>
From6 == <<v6, From7>>
From5 == <<v5, From6>>
From4 == <<v4, From5>>
From3 == <<v3, From4>>
From2 == <<v2, From3>>
From1 == <<v1, From2>>
Rest17 == v17 = 0
Rest16 == v16 = 0 /\ Rest17
Rest15 == v15 = 0 /\ Rest16
Rest14 == v14 = 0 /\ Rest15
Rest13 == v13 = 0 /\ Rest14
Rest12 == v12 = 0 /\ Rest13
Rest11 == v11 = 0 /\ Rest12
Rest10 == v10 = 0 /\ Rest11
Rest9 == v9 = 0 /\ Rest10
Rest8 == v8 = 0 /\ Rest9
Rest7 == v7 = 0 /\ Rest8
Rest6 == v6 = 0 /\ Rest7
Rest5 == v5 = 0 /\ Rest6
Rest4 == v4 = 0 /\ Rest5
Rest3 == v3 = 0 /\ Rest4
Rest2 == v2 = 0 /\ Rest3
Rest1 == v1 = 0 /\ Rest2

Init ==
    \/ part = "loop" /\ Loop!LoopInit /\ Rest14
    \/ part = "connect" /\ Link!DialInit /\ Rest14
    \/ part = "punch" /\ Punch!PunchInit /\ Rest11
    \/ part = "settle" /\ Peer!SettleInit /\ Rest10
    \/ part = "verdict" /\ Peer!LinkInit /\ Rest9
    \/ part = "peer" /\ Peer!LinkInit /\ Rest9
    \/ part = "provider" /\ Slots!ProviderInit /\ Rest15
    \/ part = "consumer" /\ Slots!ConsumerInit
    \/ part = "socket" /\ Console!SocketInit /\ Rest5
    \/ part = "access" /\ Access!AccessInit /\ Rest11
    \/ part = "save" /\ Access!SaveInit /\ Rest9
    \/ part = "listen" /\ Listen!ListenInit /\ Rest10
    \/ part = "sources" /\ Listen!UdpInit /\ Rest10
    \/ part = "admit" /\ Port!ControlInit /\ Rest6
    \/ part = "kcp" /\ Port!KcpInit /\ Rest10
    \/ part = "relay" /\ Relay!WatchInit /\ Rest9
    \/ part = "splice" /\ Relay!SpliceInit /\ Rest10
    \/ part = "tun" /\ Relay!SwitchInit /\ Rest8
    \/ part = "server" /\ Console!PanelInit /\ Rest6
    \/ part = "noise" /\ Noise!StreamInit /\ Rest14
    \/ part = "walk" /\ Discover!WalkInit /\ Rest7
    \/ part = "record" /\ Discover!RecordInit /\ Rest9
    \/ part = "watch" /\ Watched!WatchInit /\ Rest10
    \/ part = "poll" /\ Polled!WatchInit /\ Rest10
    \/ part = "exit" /\ Routes!ExitInit /\ Rest5
    \/ part = "bridge" /\ Bridge!BridgeInit /\ Rest6
    \/ part = "pppoe" /\ Engine!DialInit /\ Rest6
    \/ part = "clamp" /\ Engine!ClampInit /\ Rest9
    \/ part = "shell" /\ Shell!ShellInit /\ Rest2
    \/ part = "fleet" /\ Shell!FleetInit /\ Rest4
    \/ part = "eboot" /\ Start!BootInit /\ Rest6
    \/ part = "port" /\ Start!DialInit /\ Rest7
    \/ part = "select" /\ Proxy!SelectInit /\ Rest8
    \/ part = "stream" /\ Proxy!StreamInit /\ Rest7

Next ==
    \/ part = "loop" /\ Loop!LoopNext /\ UNCHANGED <<part, From14>>
    \/ part = "connect" /\ Link!DialNext /\ UNCHANGED <<part, From14>>
    \/ part = "punch" /\ Punch!InTime /\ UNCHANGED <<part, From11>>
    \/ part = "settle" /\ Peer!Settle /\ UNCHANGED <<part, From10>>
    \/ part = "verdict" /\ Peer!Handshake /\ UNCHANGED <<part, From9>>
    \/ part = "peer" /\ Peer!LinkNext /\ UNCHANGED <<part, From9>>
    \/ part = "provider" /\ Slots!ProviderNext /\ UNCHANGED <<part, From15>>
    \/ part = "consumer" /\ Slots!ConsumerNext /\ UNCHANGED <<part>>
    \/ part = "socket" /\ Console!SocketNext /\ UNCHANGED <<part, From5>>
    \/ part = "access" /\ Access!AccessNext /\ UNCHANGED <<part, From11>>
    \/ part = "save" /\ Access!SaveNext /\ UNCHANGED <<part, From9>>
    \/ part = "listen" /\ Listen!ListenNext /\ UNCHANGED <<part, From10>>
    \/ part = "sources" /\ Listen!UdpNext /\ UNCHANGED <<part, From10>>
    \/ part = "admit" /\ Port!ControlNext /\ UNCHANGED <<part, From6>>
    \/ part = "kcp" /\ Port!KcpNext /\ UNCHANGED <<part, From10>>
    \/ part = "relay" /\ Relay!WatchNext /\ UNCHANGED <<part, From9>>
    \/ part = "splice" /\ Relay!SpliceNext /\ UNCHANGED <<part, From10>>
    \/ part = "tun" /\ Relay!SwitchNext /\ UNCHANGED <<part, From8>>
    \/ part = "server" /\ Console!PanelNext /\ UNCHANGED <<part, From6>>
    \/ part = "noise" /\ Noise!StreamNext /\ UNCHANGED <<part, From14>>
    \/ part = "walk" /\ Discover!WalkNext /\ UNCHANGED <<part, From7>>
    \/ part = "record" /\ Discover!RecordNext /\ UNCHANGED <<part, From9>>
    \/ part = "watch" /\ Watched!WatchNext /\ UNCHANGED <<part, From10>>
    \/ part = "poll" /\ Polled!WatchNext /\ UNCHANGED <<part, From10>>
    \/ part = "exit" /\ Routes!ExitNext /\ UNCHANGED <<part, From5>>
    \/ part = "bridge" /\ Bridge!BridgeNext /\ UNCHANGED <<part, From6>>
    \/ part = "pppoe" /\ Engine!DialNext /\ UNCHANGED <<part, From6>>
    \/ part = "clamp" /\ Engine!ClampNext /\ UNCHANGED <<part, From9>>
    \/ part = "shell" /\ Shell!ShellNext /\ UNCHANGED <<part, From2>>
    \/ part = "fleet" /\ Shell!FleetNext /\ UNCHANGED <<part, From4>>
    \/ part = "eboot" /\ Start!BootNext /\ UNCHANGED <<part, From6>>
    \/ part = "port" /\ Start!DialNext /\ UNCHANGED <<part, From7>>
    \/ part = "select" /\ Proxy!SelectNext /\ UNCHANGED <<part, From8>>
    \/ part = "stream" /\ Proxy!StreamNext /\ UNCHANGED <<part, From7>>

vars == <<part, v1, v2, v3, v4, v5, v6, v7, v8, v9, v10, v11, v12, v13, v14, v15, v16, v17>>

\* The i-th action of the machine at hand that is taken when it stays possible, of its e-th element
\* where it has several, and those that are taken when they are possible again and again.
Side == <<"consumer", "provider">>
Ends == <<"a", "b">>
Due(i, e) ==
    CASE part = "loop" -> i = 1 /\ e = 1 /\ Loop!LoopDue /\ UNCHANGED <<part, From14>>
      [] part = "connect" -> i = 1 /\ e = 1 /\ Link!DialDue /\ UNCHANGED <<part, From14>>
      [] part = "punch" -> Punch!Due(i, <<"p1", "p2">>[e]) /\ UNCHANGED <<part, From11>>
      [] part = "settle" -> i = 1 /\ e = 1 /\ Peer!SettleDue /\ UNCHANGED <<part, From10>>
      [] part = "verdict" -> i = 1 /\ Peer!HandshakeDue(Side[e]) /\ UNCHANGED <<part, From9>>
      [] part = "peer" -> Peer!LinkDue(i, Side[e]) /\ UNCHANGED <<part, From9>>
      [] part = "provider" -> Slots!ProviderDue(i, e) /\ UNCHANGED <<part, From15>>
      [] part = "consumer" -> e = 1 /\ Slots!ConsumerDue(i) /\ UNCHANGED <<part>>
      [] part = "socket" -> i = 1 /\ Console!SocketDue(e) /\ UNCHANGED <<part, From5>>
      [] part = "access" -> Access!AccessDue(i, <<"m1", "m2">>[e]) /\ UNCHANGED <<part, From11>>
      [] part = "save" -> i = 1 /\ Access!SaveDue(<<"a1", "a2">>[e]) /\ UNCHANGED <<part, From9>>
      [] part = "listen" -> i = 1 /\ Listen!ListenDue(e) /\ UNCHANGED <<part, From10>>
      [] part = "sources" -> Listen!UdpDue(i, e) /\ UNCHANGED <<part, From10>>
      [] part = "admit" -> Port!ControlDue(i, e) /\ UNCHANGED <<part, From6>>
      [] part = "kcp" -> i = 1 /\ Port!KcpDue(e) /\ UNCHANGED <<part, From10>>
      [] part = "relay" -> Relay!WatchDue(i, Ends[e]) /\ UNCHANGED <<part, From9>>
      [] part = "splice" -> Relay!SpliceDue(i, Ends[e]) /\ UNCHANGED <<part, From10>>
      [] part = "tun" -> i = 1 /\ Relay!SwitchDue(e) /\ UNCHANGED <<part, From8>>
      [] part = "server" -> e = 1 /\ Console!PanelDue(i) /\ UNCHANGED <<part, From6>>
      [] part = "noise" -> e = 1 /\ Noise!StreamDue(i) /\ UNCHANGED <<part, From14>>
      [] part = "walk" -> i = 1 /\ e = 1 /\ Discover!WalkDue /\ UNCHANGED <<part, From7>>
      [] part = "record" -> e = 1 /\ Discover!RecordDue(i) /\ UNCHANGED <<part, From9>>
      [] part = "watch" -> e = 1 /\ Watched!WatchDue(i) /\ UNCHANGED <<part, From10>>
      [] part = "poll" -> e = 1 /\ Polled!WatchDue(i) /\ UNCHANGED <<part, From10>>
      [] part = "exit" -> e = 1 /\ Routes!ExitDue(i) /\ UNCHANGED <<part, From5>>
      [] part = "bridge" -> e = 1 /\ Bridge!BridgeDue(i) /\ UNCHANGED <<part, From6>>
      [] part = "pppoe" -> i = 1 /\ e = 1 /\ Engine!DialDue /\ UNCHANGED <<part, From6>>
      [] part = "clamp" -> i = 1 /\ e = 1 /\ Engine!ClampDue /\ UNCHANGED <<part, From9>>
      [] part = "shell" -> e = 1 /\ Shell!ShellDue(i) /\ UNCHANGED <<part, From2>>
      [] part = "fleet" -> e = 1 /\ Shell!FleetDue(i) /\ UNCHANGED <<part, From4>>
      [] part = "eboot" -> Start!BootDue(i, <<"socks", "http">>[e]) /\ UNCHANGED <<part, From6>>
      [] part = "port" -> i = 1 /\ e = 1 /\ Start!DialDue /\ UNCHANGED <<part, From7>>
      [] part = "select" -> i = 1 /\ Proxy!SelectDue(<<"c1", "c2">>[e]) /\ UNCHANGED <<part, From8>>
      [] part = "stream" -> e = 1 /\ Proxy!StreamDue(i) /\ UNCHANGED <<part, From7>>
Insisted(e) ==
    \/ part = "loop" /\ e = 1 /\ Loop!LoopInsisted /\ UNCHANGED <<part, From14>>
    \/ part = "punch" /\ Punch!Insisted(e) /\ UNCHANGED <<part, From11>>
    \/ part = "verdict" /\ Peer!LinkInsisted(e) /\ UNCHANGED <<part, From9>>
    \/ part = "save" /\ Access!SaveInsisted(<<"a1", "a2">>[e]) /\ UNCHANGED <<part, From9>>
    \/ part = "listen" /\ Listen!ListenInsisted(e) /\ UNCHANGED <<part, From10>>
    \/ part = "sources" /\ Listen!UdpInsisted(e) /\ UNCHANGED <<part, From10>>
    \/ part = "tun" /\ Relay!SwitchInsisted(e) /\ UNCHANGED <<part, From8>>

Fairness == \A e \in 1..2 : SF_vars(Insisted(e)) /\ \A i \in 1..3 : WF_vars(Due(i, e))
Spec == Init /\ [][Next]_vars /\ Fairness

Held ==
    \/ part = "admit" /\ Port!PermitsReturnWhen
    \/ part = "kcp" /\ Port!ClosedDrainsWhen
    \/ part = "provider" /\ Slots!HoldIsFreedWhen
    \/ part = "consumer" /\ Slots!CycleEndsWhen
    \/ part = "listen" /\ Listen!RemovedFreesThePortWhen(1)
    \/ part = "sources" /\ Listen!OrphansEndWhen(1)
    \/ part = "tun" /\ Relay!SupersededEndsWhen(1)
    \/ part = "splice" /\ Relay!DieTogetherWhen("a")
    \/ part = "save" /\ Access!EveryMutationIsAnsweredWhen("a1")
    \/ part = "walk" /\ Discover!LookupEndsWhen
    \/ part = "pppoe" /\ Engine!DialEndsWhen
    \/ part = "bridge" /\ Bridge!SettlesWhen
Released ==
    \/ part = "admit" /\ Port!PermitsReturnThen
    \/ part = "kcp" /\ Port!ClosedDrainsThen
    \/ part = "provider" /\ Slots!HoldIsFreedThen
    \/ part = "consumer" /\ Slots!CycleEndsThen
    \/ part = "listen" /\ Listen!RemovedFreesThePortThen(1)
    \/ part = "sources" /\ Listen!OrphansEndThen(1)
    \/ part = "tun" /\ Relay!SupersededEndsThen(1)
    \/ part = "splice" /\ Relay!DieTogetherThen("a")
    \/ part = "save" /\ Access!EveryMutationIsAnsweredThen("a1")
    \/ part = "walk" /\ Discover!LookupEndsThen
    \/ part = "pppoe" /\ Engine!DialEndsThen
    \/ part = "bridge" /\ Bridge!SettlesThen
\* What is taken is given back: handshake permits (server.rs), a closed KCP session's drivers (kcp.rs), a
\* provider's hold and a consumer's cycle (peerslot.rs), the port of a removed listener, the relay of
\* a source without a route, a superseded tunnel's relay (bridge.rs), a spliced pair of which one
\* leg died, an applied mutation's wait for its answer; a DHT lookup and a PPPoE dial end, and so does
\* the surgery on a NIC.
EndsRelease == Held ~> Released

Lost ==
    \/ part = "peer" /\ Peer!HalfUpEndsWhen("provider")
    \/ part = "relay" /\ Relay!BlackHoleIsReapedWhen
    \/ part = "port" /\ Start!DeadLinkNoticedWhen
    \/ part = "eboot" /\ Start!DeadDriverEndsProcessWhen
    \/ part = "stream" /\ Proxy!GoneIsReapedWhen
    \/ part = "fleet" /\ Shell!DarkPortBouncedWhen
    \/ part = "shell" /\ Shell!SilenceIsNoticedWhen
Noticed ==
    \/ part = "peer" /\ Peer!HalfUpEndsThen("provider")
    \/ part = "relay" /\ Relay!BlackHoleIsReapedThen
    \/ part = "port" /\ Start!DeadLinkNoticedThen
    \/ part = "eboot" /\ Start!DeadDriverEndsProcessThen
    \/ part = "stream" /\ Proxy!GoneIsReapedThen
    \/ part = "fleet" /\ Shell!DarkPortBouncedThen
    \/ part = "shell" /\ Shell!SilenceIsNoticedThen
Silenced == <>[][~(part = "shell" /\ Shell!AcSpeaks)]_vars
\* What is gone is noticed, once the other side falls silent: the peer of a session that is half up
\* (peer.rs), the path of a relay (bridge.rs), the concentrator of a PPP link
\* (pppoe/), a dead link or driver, a client that left and a bridge port on which
\* nothing comes up (crates/znpppoe).
LossIsNoticed == Silenced => (Lost ~> Noticed)

Waiting ==
    \/ part = "connect" /\ Link!AutoConnectsWhen
    \/ part = "punch" /\ Punch!NominationLandsWhen
    \/ part = "verdict" /\ Peer!VerdictLandsWhen
    \/ part = "noise" /\ Noise!AllArriveWhen
    \/ part = "record" /\ Discover!ReconnectsWhen
    \/ part = "socket" /\ Console!StaleReplacedWhen(2)
    \/ part = "server" /\ Console!ConvergesWhen
    \/ part = "exit" /\ Routes!DialRecoversWhen
    \/ part = "shell" /\ Shell!LinkDownRedialsWhen
    \/ part = "fleet" /\ Shell!RedialsAgainWhen("a")
    \/ part = "port" /\ Start!ComesUpWhen
    \/ part = "eboot" /\ Start!BothFrontEndsWhen
    \/ part = "select" /\ Proxy!AnsweredWhen("c1")
    \/ part = "stream" /\ Proxy!ServerClosesFirstWhen
Served ==
    \/ part = "connect" /\ Link!AutoConnectsThen
    \/ part = "punch" /\ Punch!NominationLandsThen
    \/ part = "verdict" /\ Peer!VerdictLandsThen
    \/ part = "noise" /\ Noise!AllArriveThen
    \/ part = "record" /\ Discover!ReconnectsThen
    \/ part = "socket" /\ Console!StaleReplacedThen(2)
    \/ part = "server" /\ Console!ConvergesThen
    \/ part = "exit" /\ Routes!DialRecoversThen
    \/ part = "shell" /\ Shell!LinkDownRedialsThen
    \/ part = "fleet" /\ Shell!RedialsAgainThen("a")
    \/ part = "port" /\ Start!ComesUpThen
    \/ part = "eboot" /\ Start!BothFrontEndsThen
    \/ part = "select" /\ Proxy!AnsweredThen("c1")
    \/ part = "stream" /\ Proxy!ServerClosesFirstThen
\* What is waited for comes: a transport that is up is found (client.rs), a nomination reaches the
\* other end (punch.rs) and a verdict its consumer (peer.rs), what was written arrives
\* (noise.rs), a dialer finds the address that moved (dht/mod.rs), a stale socket is replaced, a console
\* shows what the server has, a link that went down is dialed again, also after a flap of the uplink,
\* and a proxied connection is served or answered.
RetriesComeUp == Waiting ~> Served

Settled ==
    /\ part = "watch" => Watched!WatchedEditIsReadThen
    /\ part = "poll" => Polled!LastEditIsReadThen
    /\ part = "access" => Access!FileAndServerSettleThen
    /\ part = "loop" => Loop!SettlesThen
    /\ part = "settle" => Peer!BothUpThen
    /\ part = "clamp" => Engine!WalkEndsThen
\* Once nobody changes it any more, what was changed takes effect and stays: the last edit of a watched
\* file is read, with notification and by polling (filewatch.rs), file and client table of a server
\* agree unless a save failed (server.rs), a client runs the profile it was switched to (client.rs), two
\* peers are up on a path (peerslot.rs), and the walk over a segment's options is over (pppoe/datapath.rs).
ChangesSettle == <>[][~(part = "loop" /\ Loop!SettlesWhen)]_vars => <>[]Settled
=============================================================================
