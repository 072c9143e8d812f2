----------------------------- MODULE Provision ------------------------------
(***************************************************************************)
(* Setting a machine up: what the installer writes for a server or a client*)
(* and how a rerun reads it, and the wizard that asks for it.              *)
(***************************************************************************)
EXTENDS Sequences, FiniteSets, Integers

(***************************************************************************)
(* Two machines set up by the installer: flags and what is on disk become  *)
(* a configuration (src/crates/installer/src/args.rs), the configuration   *)
(* an env file, the command of the service and the command to run on the   *)
(* other machine (src/crates/installer/src/install.rs), and the services   *)
(* start from those (modules ServerBoot and ClientBoot).                   *)
(***************************************************************************)
CONSTANTS
    Machines,     \* two machines
    Asked,        \* the command lines the installer is given: see Flags in the MC module
    Disks,        \* the env files the machines may hold at first
    Gens,         \* names of the secrets that can be generated, in order
    Installs      \* bound: installations

ProvisionAssumption == Cardinality(Machines) = 2 /\ Installs \in Nat

VARIABLES
    m,          \* the env file and the configuration of each machine
    printed,    \* the command printed for the other machine, or none
    installStep,       \* the last installation: its flags, whether it followed a printed command, whether it was accepted
    left        \* installations and generated names left
installVars == <<m, printed, installStep, left>>

InstallNone == <<>>
Or(a, b) == IF a = InstallNone THEN b ELSE a
Failed == [ok |-> FALSE]
Gen(k) == <<"raw", Gens[left.gen + k]>>

-----------------------------------------------------------------------------
(* From flags to a configuration. *)

\* A port spec: digits other than "0", tcp or udp, at least one.
valid_ports(ports) == ports # <<>> /\ \A i \in DOMAIN ports : ports[i].num # 0 /\ ports[i].proto \in {"tcp", "udp"}

\* Whether a headless run has what it needs, and nothing that excludes it.
Complete(p) ==
    /\ Cardinality({k \in {"ports", "tap", "all"} : CASE k = "ports" -> p.ports # <<>> [] k = "tap" -> p.tap # InstallNone
                                                      [] k = "all" -> p.all}) = 1
    /\ p.mode # InstallNone
    /\ p.ports # <<>> => valid_ports(p.ports)
    /\ p.nic # InstallNone => p.mode = <<"server">> /\ p.tap # InstallNone
    /\ p.mode = <<"client">> => p.addr # InstallNone \/ p.dht

\* A machine that holds explicit secrets stays explicit.
Explicit(p, disk) == p.explicit \/ (disk.seed = InstallNone /\ disk.secret # InstallNone)

\* --secret, the stored value, or a new one.
SecretOf(p, disk) == Or(p.secret, Or(IF Explicit(p, disk) THEN disk.secret ELSE disk.seed, Gen(1)))

\* --discovery, the stored value, or a new one for an explicit server; a seed derives it.
DiscoveryOf(p, disk) ==
    IF ~p.dht THEN InstallNone
    ELSE Or(Or(p.discovery, disk.discovery),
            IF Explicit(p, disk) /\ p.mode = <<"server">> THEN Gen(2) ELSE InstallNone)

\* --admin-secret, the stored value, or a new one for an explicit server; a client holds none.
AdminOf(p, disk) ==
    IF p.mode # <<"server">> THEN InstallNone
    ELSE Or(Or(p.admin, disk.admin), IF Explicit(p, disk) THEN Gen(3) ELSE InstallNone)

\* An explicit client needs the discovery secret of its server; no credential serves two roles.
Consistent(c) ==
    /\ c.explicit /\ c.dht /\ c.mode = "client" => c.discovery # InstallNone
    /\ c.discovery # InstallNone => c.discovery # c.secret
    /\ c.admin # InstallNone => c.admin \notin {c.secret, c.discovery}

\* The control port is the one of the address a client was given.
build(p, disk) ==
    IF ~Complete(p) THEN Failed
    ELSE LET control == IF p.mode = <<"client">> /\ p.addr # InstallNone THEN Or(p.addr.port, Or(p.control, <<2222>>))
                        ELSE Or(p.control, <<2222>>)
             c == [ok |-> TRUE, mode |-> p.mode[1], docker |-> p.docker, control |-> control,
                   kind |-> IF p.all THEN "all" ELSE IF p.tap # InstallNone THEN "bridge" ELSE "ports",
                   ports |-> p.ports, tap |-> p.tap,
                   bridge |-> IF p.nic # InstallNone THEN Or(p.bridge, <<"br-zeronat">>) ELSE p.bridge,
                   dht |-> p.dht, addr |-> IF p.mode = <<"client">> /\ p.addr # InstallNone THEN control ELSE InstallNone,
                   explicit |-> Explicit(p, disk), secret |-> SecretOf(p, disk),
                   discovery |-> DiscoveryOf(p, disk), admin |-> AdminOf(p, disk)]
         IN  IF Consistent(c) THEN c ELSE Failed

-----------------------------------------------------------------------------
(* What the configuration puts on the machine. *)

\* Neither an empty forward list nor a protocol that is none.
check_forwards(c) ==
    CASE c.kind = "bridge" -> c.tap # InstallNone
      [] c.kind = "ports" -> c.ports # <<>> /\ \A i \in DOMAIN c.ports : c.ports[i].proto \in {"tcp", "udp"}
      [] c.kind = "all" -> TRUE

\* The seed and any credential given on its own, or the explicit ones spelled out.
env_file(c) ==
    [seed |-> IF c.explicit THEN InstallNone ELSE c.secret, secret |-> IF c.explicit THEN c.secret ELSE InstallNone,
     client |-> IF c.explicit THEN c.secret ELSE InstallNone, admin |-> c.admin,
     discovery |-> IF c.dht THEN c.discovery ELSE InstallNone]

Num(c) == {c.ports[i].num : i \in DOMAIN c.ports}

\* Nonroot only where every bound port is unprivileged.
container_user(c) ==
    IF /\ c.kind = "ports"
       /\ c.mode = "server" => c.control[1] \in 1024..65535
       /\ \A n \in Num(c) : n \in 1024..65535
    THEN "nonroot" ELSE "root"

\* The other side, the same forwards, the port to dial or to listen on, and the prompts for what is not printed.
peer_steps(c) ==
    [mode |-> IF c.mode = "server" THEN <<"client">> ELSE <<"server">>, dht |-> c.dht, explicit |-> c.explicit,
     prompts |-> {"secret"} \cup (IF c.explicit /\ c.dht THEN {"discovery"} ELSE {}),
     addr |-> IF c.mode = "server" /\ ~c.dht THEN [port |-> c.control] ELSE InstallNone,
     control |-> IF c.mode = "client" /\ ~c.dht THEN Or(c.addr, c.control) ELSE InstallNone,
     ports |-> IF c.kind = "ports" THEN c.ports ELSE <<>>, tap |-> IF c.kind = "bridge" THEN c.tap ELSE InstallNone,
     all |-> c.kind = "all"]

\* The operator reads each value asked for from the env file of the first machine.
FlagsOf(p, env, docker) ==
    [mode |-> p.mode, docker |-> docker, dht |-> p.dht, explicit |-> p.explicit, addr |-> p.addr, control |-> p.control,
     ports |-> p.ports, tap |-> p.tap, all |-> p.all, bridge |-> InstallNone, nic |-> InstallNone, admin |-> InstallNone,
     secret |-> IF p.explicit THEN env.secret ELSE env.seed,
     discovery |-> IF "discovery" \in p.prompts THEN env.discovery ELSE InstallNone]

-----------------------------------------------------------------------------
(* What the services make of it. *)

\* The server's command, its env file read as the server reads it.
ServerFlags(x) ==
    LET c == m[x].cfg
        e == m[x].env
    IN  [id |-> InstallNone, ip |-> InstallNone, port |-> c.control, seed |-> e.seed, secret |-> e.secret, discovery |-> e.discovery,
         admin |-> e.admin, exit |-> FALSE, iface |-> InstallNone, ports |-> IF c.kind = "ports" THEN Num(c) ELSE {},
         clients |-> {[id |-> <<"client">>, secret |-> e.client]}, tun |-> c.kind = "all", tap |-> c.kind = "bridge",
         except |-> c.kind = "all", dht |-> c.dht]

Specs(ts) == [i \in DOMAIN ts |-> [base |-> <<<<"n", ts[i].num>>>>, mods |-> <<>>]]

\* The client's command, with --id client under a seed.
ClientIn(x) ==
    LET c == m[x].cfg
        e == m[x].env
        ports == IF c.kind = "ports" THEN c.ports ELSE <<>>
    IN  [args |-> [server |-> IF c.dht THEN <<"dht">> ELSE <<"host">>, seed |-> InstallNone, secret |-> InstallNone,
                   credential |-> InstallNone, discovery |-> InstallNone, id |-> IF c.explicit THEN InstallNone ELSE <<"client">>,
                   tap |-> c.kind = "bridge", tun |-> c.kind = "all", bridge |-> c.kind = "bridge" /\ c.bridge # InstallNone,
                   tcp |-> Specs(SelectSeq(ports, LAMBDA t : t.proto = "tcp")),
                   udp |-> Specs(SelectSeq(ports, LAMBDA t : t.proto = "udp")), proxy |-> FALSE, exit |-> FALSE,
                   strict |-> FALSE, pppoe |-> FALSE, route |-> FALSE, noClamp |-> FALSE, dns |-> FALSE, mtu |-> 1400,
                   transport |-> InstallNone],
         env |-> [seed |-> e.seed, secret |-> e.secret, credential |-> e.client, discovery |-> e.discovery,
                  hostname |-> InstallNone],
         file |-> [shape |-> FALSE, id |-> InstallNone, pppoe |-> {}],
         host |-> [machine |-> "long", hostname |-> InstallNone]]

S(x) == INSTANCE ServerBoot WITH flags <- ServerFlags(x), file <- [kind |-> "absent"], proc <- InstallNone, last <- InstallNone,
            left <- 0, FlagSets <- {}, Files <- {}, Added <- {}, Damage <- 0, Starts <- 0, BadCookies <- FALSE
C(x) == INSTANCE ClientBoot WITH in <- ClientIn(x), out <- InstallNone, ids <- {}, left <- 0, Inputs <- {}, Hostnames <- {},
            Starts <- 0

Server(x) == S(x)!server_boot(S(x)!Loaded)
Client(x) == C(x)!client_boot

-----------------------------------------------------------------------------
InstallInit ==
    /\ m \in [Machines -> {[env |-> d, cfg |-> Failed] : d \in Disks}]
    /\ printed = InstallNone
    /\ installStep = InstallNone
    /\ left = [installs |-> Installs, gen |-> 0]

\* A headless run of the installer on one machine.
Run(x, p, followed) ==
    LET c == build(p, m[x].env) IN
    /\ left.installs > 0
    /\ left.gen + 3 <= Len(Gens)
    /\ IF c.ok /\ check_forwards(c)
       THEN /\ m' = [m EXCEPT ![x] = [env |-> env_file(c), cfg |-> c]]
            /\ printed' = [from |-> x, cmd |-> peer_steps(c)]
       ELSE UNCHANGED <<m, printed>>
    /\ installStep' = [on |-> x, p |-> p, followed |-> followed, ok |-> c.ok, guarded |-> c.ok /\ ~check_forwards(c)]
    /\ left' = [installs |-> left.installs - 1, gen |-> left.gen + 3]

Install(x, p) == Run(x, p, FALSE)

\* The printed command is run on the other machine.
Follow(x) ==
    /\ printed # InstallNone
    /\ printed.from # x
    /\ Run(x, FlagsOf(printed.cmd, m[printed.from].env, installStep.p.docker), TRUE)

Over == left.installs = 0 /\ UNCHANGED installVars

InstallNext ==
    \/ \E x \in Machines, p \in Asked : Install(x, p)
    \/ \E x \in Machines : Follow(x)
    \/ Over

InstallSpec == InstallInit /\ [][InstallNext]_installVars

-----------------------------------------------------------------------------
\* Once the printed command has been run on the other machine, the two services meet: one is the server of the other's
\* client, on the port it dials or under the discovery secret it looks up, with the same carried traffic, the same
\* network secret and a credential the server has authorized.
Meet(s, c) ==
    /\ m[s].cfg.mode = "server" /\ m[c].cfg.mode = "client"
    /\ m[s].cfg.kind = m[c].cfg.kind /\ m[s].cfg.ports = m[c].cfg.ports
    /\ IF m[c].cfg.dht THEN m[s].cfg.dht /\ Server(s).settings.discovery = Client(c).discovery
       ELSE m[c].cfg.addr = m[s].cfg.control
    /\ Server(s).settings.secret = Client(c).secret
    /\ Client(c).credential \in {k.secret : k \in Server(s).settings.clients}

PeersMeet ==
    installStep # InstallNone /\ installStep.followed => installStep.ok /\ \E s, c \in Machines : s # c /\ Meet(s, c)

\* Running the installer again without naming credentials keeps the ones on disk, so what was set up against this
\* machine keeps working: the seed or the explicit secret, and the admin and discovery secrets while they are used.
RerunKeeps ==
    \A x \in Machines :
       LET old == m[x].env
           new == m'[x].env
           p == installStep'.p
       IN  m'[x] # m[x] /\ p.secret = InstallNone /\ p.discovery = InstallNone /\ p.admin = InstallNone /\ (p.explicit => old.seed = InstallNone) =>
              /\ old.seed # InstallNone => new.seed = old.seed
              /\ old.secret # InstallNone /\ old.seed = InstallNone => new.secret = old.secret
              /\ old.discovery # InstallNone /\ p.dht => new.discovery = old.discovery
              /\ old.admin # InstallNone /\ p.mode = <<"server">> => new.admin = old.admin

Ports16(c) == c.control[1] \in 0..65535 /\ \A n \in Num(c) : n \in 0..65535

\* What the installer accepted starts: the command parses, no setting is refused, the credentials keep their roles apart.
AcceptedStarts ==
    \A x \in Machines :
        m[x].cfg.ok => /\ Ports16(m[x].cfg)
                       /\ IF m[x].cfg.mode = "server" THEN ~Server(x).refused /\ S(x)!credentials(Server(x).settings)
                          ELSE Client(x).ok

\* The last guard before any command is built never has to fire: the flags were validated.
GuardUnused == installStep # InstallNone => ~installStep.guarded

\* A server whose container runs as nonroot, without a capability, binds no privileged port: not its control port, not a
\* listener it starts with, and no device.
BindsAsUser ==
    \A x \in Machines :
        LET c == m[x].cfg IN
        c.ok /\ c.docker /\ c.mode = "server" /\ container_user(c) = "nonroot" =>
            /\ ~ServerFlags(x).tun /\ ~ServerFlags(x).tap
            /\ \A p \in {Server(x).settings.port[1]} \cup {k[2] : k \in DOMAIN Server(x).settings.listeners} : p >= 1024

-----------------------------------------------------------------------------
(***************************************************************************)
(* The interactive installer (src/crates/installer/src/ui.rs): a walk over *)
(* steps that write a configuration, with Back, over flags that set some   *)
(* of it beforehand. A step shows the configuration when it is entered     *)
(* and writes it when it is left by Enter. <<>> is an empty text.          *)
(***************************************************************************)
CONSTANTS
    WizardStarts,      \* [cfg, host, offer]: configurations the flags and the host give, and whether an upgrade is offered
    Common,      \* the ports of the checklist
    Custom,      \* ports typed in
    Texts(_),    \* what is typed at an input step
    Backs        \* bound: times Back is pressed

WizardAssumption == Backs \in Nat

VARIABLES app, wizardLeft
wizardVars == <<app, wizardLeft>>

WizardNone == <<>>
InputSteps == {"Tap", "BridgeNic", "BridgeName", "DiscoveryEntry", "ServerAddr", "Control", "SecretEntry"}
cfg == app.cfg
host == app.host

-----------------------------------------------------------------------------
(* The walk. *)

next_step(step, c) ==
    CASE step = "Upgrade" -> "Mode"
      [] step = "Mode" -> "Method"
      [] step = "Method" -> IF c.method = "docker" THEN "Deploy" ELSE "Kind"
      [] step = "Deploy" -> "Kind"
      [] step = "Kind" -> (CASE c.kind = "ports" -> "Ports" [] c.kind = "bridge" -> "Tap"
                             [] OTHER -> IF c.mode = "server" THEN "SshExclude" ELSE "Discovery")
      [] step = "Tap" -> IF c.mode = "server" THEN "BridgeNic" ELSE "Discovery"
      [] step = "BridgeNic" -> IF c.nic = WizardNone THEN "BridgeName" ELSE "Discovery"
      [] step \in {"BridgeName", "Ports", "SshExclude"} -> "Discovery"
      [] step = "Discovery" -> (CASE c.mode = "server" -> "Control"
                                  [] c.mode = "client" /\ c.dht -> IF c.explicit THEN "DiscoveryEntry" ELSE "Secret"
                                  [] OTHER -> "ServerAddr")
      [] step \in {"DiscoveryEntry", "ServerAddr", "Control"} -> "Secret"
      [] step = "Secret" -> IF c.secretMode = "enter" THEN "SecretEntry" ELSE "Summary"
      [] OTHER -> "Summary"

Bit(b) == IF b THEN 1 ELSE 0
Has == host.existing # WizardNone

\* The number of options of a select step.
options(step) ==
    CASE step = "Method" -> 1 + Bit(host.docker)
      [] step = "Deploy" -> 1 + Bit(host.compose)
      [] step = "Kind" -> 3
      [] step = "Secret" -> 2 + Bit(Has)
      [] OTHER -> 2

\* The option that stands for the configuration, counted over the options this host is offered.
current_selection(step, c) ==
    CASE step = "Mode" -> Bit(c.mode = "client")
      [] step = "Method" -> Bit(c.method = "systemd" /\ host.docker)
      [] step = "Deploy" -> Bit(c.deploy = "run" /\ host.compose)
      [] step = "Kind" -> (CASE c.kind = "ports" -> 0 [] c.kind = "all" -> 1 [] OTHER -> 2)
      [] step = "SshExclude" -> Bit(~c.excludeSsh)
      [] step = "Discovery" -> Bit(c.dht)
      [] step = "Secret" -> (CASE c.secretMode = "reuse" -> 0 [] c.secretMode = "generate" -> Bit(Has)
                               [] OTHER -> 1 + Bit(Has))
      [] OTHER -> 0

\* What an input step shows: the configured text, and nothing for a secret.
Prefill(step, c) ==
    CASE step = "Tap" -> c.tap [] step = "BridgeNic" -> c.nic [] step = "BridgeName" -> c.bridge
      [] step = "DiscoveryEntry" -> c.discovery [] step = "ServerAddr" -> c.addr [] step = "Control" -> c.control
      [] OTHER -> WizardNone

\* The common ports, those configured checked, and the others configured.
init_ports(c) == [p \in Common \cup c.ports |-> p \in c.ports]

\* Enter a step: its widget shows what is configured.
enter(a, step) ==
    [a EXCEPT !.step = step, !.touched = FALSE,
              !.items = IF step = "Ports" THEN init_ports(a.cfg) ELSE @,
              !.input = IF step \in InputSteps THEN Prefill(step, a.cfg) ELSE @,
              !.sel = IF step \in InputSteps THEN @ ELSE IF step = "Ports" THEN 0 ELSE current_selection(step, a.cfg)]

advance(a) == enter([a EXCEPT !.history = Append(@, a.step)], next_step(a.step, a.cfg))

back(a) == enter([a EXCEPT !.history = SubSeq(@, 1, Len(@) - 1)], a.history[Len(a.history)])

-----------------------------------------------------------------------------
(* What Enter writes. *)

Pick(s, i) == s[i + 1]

\* The selected option; a secret is taken from disk or drawn anew.
apply_selection(c, step, sel) ==
    CASE step = "Mode" -> [c EXCEPT !.mode = Pick(<<"server", "client">>, sel)]
      [] step = "Method" -> [c EXCEPT !.method = IF host.docker /\ sel = 0 THEN "docker" ELSE "systemd"]
      [] step = "Deploy" -> [c EXCEPT !.deploy = IF host.compose /\ sel = 0 THEN "compose" ELSE "run"]
      [] step = "Kind" -> [c EXCEPT !.kind = Pick(<<"ports", "all", "bridge">>, sel)]
      [] step = "SshExclude" -> [c EXCEPT !.excludeSsh = sel = 0]
      [] step = "Discovery" -> [c EXCEPT !.dht = sel = 1]
      [] step = "Secret" ->
           LET n == IF Has THEN sel ELSE sel + 1 IN
           [c EXCEPT !.secretMode = Pick(<<"reuse", "generate", "enter">>, n),
                     !.secret = CASE n = 0 -> host.existing [] n = 1 -> <<"new">> [] OTHER -> @]

\* The text of an input step, or <<>> where it is refused: a name, an address, a port from 1 to 65535, a secret that is
\* not the discovery credential's and the other way round. A blank NIC asks for no bridge of the installer's making.
commit_input(c, step, v) ==
    CASE step = "Tap" -> IF v = WizardNone THEN <<>> ELSE <<[c EXCEPT !.tap = v]>>
      [] step = "BridgeNic" ->
           IF v = WizardNone THEN <<[c EXCEPT !.nic = WizardNone, !.create = FALSE]>>
           ELSE <<[c EXCEPT !.nic = v, !.create = TRUE, !.bridge = IF @ = WizardNone THEN <<"br-zeronat">> ELSE @]>>
      [] step = "BridgeName" -> <<[c EXCEPT !.bridge = v]>>
      [] step = "ServerAddr" -> IF v = WizardNone THEN <<>> ELSE <<[c EXCEPT !.addr = v]>>
      [] step = "Control" -> IF v # WizardNone /\ v[1] \in 1..65535 THEN <<[c EXCEPT !.control = v]>> ELSE <<>>
      [] step = "DiscoveryEntry" -> IF v \in {WizardNone, c.secret} THEN <<>> ELSE <<[c EXCEPT !.discovery = v]>>
      [] step = "SecretEntry" ->
           IF v = WizardNone \/ (c.dht /\ v = c.discovery) THEN <<>> ELSE <<[c EXCEPT !.secret = v]>>

-----------------------------------------------------------------------------
WizardInit ==
    /\ \E s \in WizardStarts :
         app = [cfg |-> s.cfg, host |-> s.host, step |-> IF s.offer THEN "Upgrade" ELSE "Mode", history |-> <<>>,
                sel |-> IF s.offer THEN 0 ELSE Bit(s.cfg.mode = "client"), input |-> WizardNone, items |-> <<>>,
                touched |-> FALSE, ended |-> "no"]
    /\ wizardLeft = Backs

Live == app.ended = "no"
Step(new) == app' = new /\ UNCHANGED wizardLeft
OnSelect == app.step \notin InputSteps \cup {"Ports", "Summary"}

\* Up and Down.
Move(d) ==
    /\ Live /\ OnSelect
    /\ app.sel + d \in 0..(options(app.step) - 1)
    /\ Step([app EXCEPT !.sel = @ + d, !.touched = TRUE])

EnterSelect ==
    /\ Live /\ OnSelect /\ app.step # "Upgrade"
    /\ Step(advance([app EXCEPT !.cfg = apply_selection(cfg, app.step, app.sel)]))

EnterUpgrade ==
    /\ Live /\ app.step = "Upgrade"
    /\ Step(IF app.sel = 0 THEN [app EXCEPT !.ended = "upgrade"] ELSE advance(app))

Type(v) ==
    /\ Live /\ app.step \in InputSteps
    /\ app.input # v
    /\ Step([app EXCEPT !.input = v, !.touched = TRUE])

EnterInput ==
    /\ Live /\ app.step \in InputSteps
    /\ LET done == commit_input(cfg, app.step, app.input) IN
       done # <<>> /\ Step(advance([app EXCEPT !.cfg = done[1]]))

\* The checklist: a port ticked, a custom one added, and what is ticked taken if it is anything.
Toggle(p) ==
    /\ Live /\ app.step = "Ports"
    /\ p \in DOMAIN app.items
    /\ Step([app EXCEPT !.items[p] = ~@, !.touched = TRUE])

AddPort(p) ==
    /\ Live /\ app.step = "Ports"
    /\ p \notin DOMAIN app.items
    /\ Step([app EXCEPT !.items = [q \in DOMAIN @ \cup {p} |-> IF q = p THEN TRUE ELSE @[q]], !.touched = TRUE])

Ticked == {p \in DOMAIN app.items : app.items[p]}

EnterPorts ==
    /\ Live /\ app.step = "Ports"
    /\ Ticked # {}
    /\ Step(advance([app EXCEPT !.cfg.ports = Ticked]))

EnterSummary == Live /\ app.step = "Summary" /\ Step([app EXCEPT !.ended = "install"])

Back ==
    /\ Live /\ wizardLeft > 0
    /\ app.step # "Upgrade"
    /\ app.history # <<>>
    /\ app' = back(app)
    /\ wizardLeft' = wizardLeft - 1

Ended == ~Live /\ UNCHANGED wizardVars

WizardNext ==
    \/ \E d \in {1, -1} : Move(d)
    \/ EnterSelect
    \/ EnterUpgrade
    \/ \E v \in Texts(app.step) : Type(v)
    \/ EnterInput
    \/ \E p \in Common \cup Custom : Toggle(p)
    \/ \E p \in Custom : AddPort(p)
    \/ EnterPorts
    \/ EnterSummary
    \/ Back
    \/ Ended

WizardSpec == WizardInit /\ [][WizardNext]_wizardVars

-----------------------------------------------------------------------------
\* The way back is the way this configuration leads: every step on it is followed by the one the present configuration
\* asks for, so Back never shows a step that does not belong and nothing on the way was skipped.
PathKept ==
    LET way == Append(app.history, app.step) IN
    \A i \in 1..(Len(way) - 1) : next_step(way[i], cfg) = way[i + 1]

\* A step shows what is configured: leaving it by Enter, untouched, changes nothing of it (a new secret is drawn where a
\* new secret is the choice).
ShownIsConfigured ==
    ~app.touched /\ Len(app'.history) > Len(app.history) => [app'.cfg EXCEPT !.secret = cfg.secret] = cfg

\* A finished walk leaves a configuration that can be installed: something to carry, a server to find, a usable control
\* port, a method the host has, and the credentials a client has to be given.
InstallComplete ==
    app.ended = "install" =>
        /\ cfg.kind = "ports" => cfg.ports # {}
        /\ cfg.kind = "bridge" => cfg.tap # WizardNone
        /\ cfg.create => cfg.bridge # WizardNone /\ cfg.nic # WizardNone
        /\ cfg.mode = "client" => IF cfg.dht THEN cfg.explicit => cfg.discovery # WizardNone ELSE cfg.addr # WizardNone
        /\ cfg.method = "docker" => host.docker /\ (cfg.deploy = "compose" => host.compose)
        /\ cfg.secret # WizardNone

\* The same where the secret was typed in.
EnteredDiffer == app.ended = "install" /\ cfg.dht /\ cfg.explicit /\ cfg.mode = "client" /\ cfg.secretMode = "enter" =>
                     cfg.secret # cfg.discovery
=============================================================================
