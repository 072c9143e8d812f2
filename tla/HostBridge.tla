----------------------------- MODULE HostBridge -----------------------------
(***************************************************************************)
(* Bridging a host's interface: the surgery that moves an address to a     *)
(* bridge while it is in use, and the static configuration that makes the  *)
(* change survive a boot.                                                  *)
(***************************************************************************)
EXTENDS Integers, Sequences, FiniteSets

(***************************************************************************)
(* The host bridge the installer builds for a TAP server (bridge.rs and    *)
(* setup_bridge of install.rs): a shell script moves a NIC and its address *)
(* into a bridge and writes the network manager's files; a systemd timer   *)
(* runs the undo script unless the operator confirms.  A step is one       *)
(* command of a script or of the installer; commands fail, the installer   *)
(* dies, the host reboots.                                                 *)
(***************************************************************************)
CONSTANTS
    Mgr,            \* the network manager: "netplan" or "networkd"
    Spare,          \* whether the NIC has no address to lose
    MayFail,        \* the commands that may fail
    Faults,         \* how many of them do
    Runs,           \* how often the operator runs the installer
    Eager,          \* whether they run it again while a revert is pending
    Deaths,         \* how often it dies
    Reboots,        \* how often the host does
    LiveTicks       \* the timer ticks (30 s) a live installer takes at most from arming to its last command

VARIABLES
    w,              \* links, addresses, default route and files
    inst,           \* the installer
    sh,             \* the script it runs
    timer,          \* the systemd timer and the service it starts
    left            \* budgets

bridgeVars == <<w, inst, sh, timer, left>>

-----------------------------------------------------------------------------
(* Constants of the code, and what is on the host. *)

BRIDGE_TIMEOUT == 1                       \* in ticks of 30 s
RevertTicks == BRIDGE_TIMEOUT + 2         \* armed for BRIDGE_TIMEOUT + 60 s

Files == IF Mgr = "netplan" THEN {"90-zeronat.yaml"} ELSE {"br.netdev", "br.network", "port.network"}

Orig == [br |-> FALSE, member |-> FALSE, nicAddr |-> ~Spare, brAddr |-> FALSE,
         route |-> IF Spare THEN "none" ELSE "nic", own |-> {}, aside |-> FALSE, cloud |-> FALSE]

\* Nic: what the bridge takes over, an address with its gateway or nothing.
risky(captured) == captured

BridgeInit ==
    /\ w = Orig
    /\ inst = [pc |-> "idle", captured |-> FALSE, kept |-> FALSE]
    /\ sh = [todo |-> <<>>, strict |-> FALSE, ok |-> TRUE, orphan |-> FALSE]
    /\ timer = [st |-> "off", age |-> 0, svc |-> <<>>, captured |-> FALSE]
    /\ left = [faults |-> Faults, runs |-> Runs, deaths |-> Deaths, reboots |-> Reboots]

-----------------------------------------------------------------------------
(* The scripts. *)

bridge_live_apply(captured) ==
    << "br_add", "br_set", "nic_flush", "nic_master", "nic_up" >>
      \o IF captured THEN << "br_addr", "br_route" >> ELSE <<>>

live_undo(captured) ==
    << "nic_nomaster", "br_del", "nic_flush", "nic_up" >>
      \o IF captured THEN << "nic_addr", "nic_route" >> ELSE <<>>

persist(authoritative) ==
    IF Mgr = "netplan"
    THEN (IF authoritative THEN << "cloud_off", "move_aside" >> ELSE <<>>) \o << "90-zeronat.yaml", "generate" >>
    ELSE << "br.netdev", "br.network", "port.network", "reload" >>

unpersist ==
    IF Mgr = "netplan" THEN << "rm_own", "move_back", "generate_quiet" >> ELSE << "rm_own", "reload" >>

\* On the risky path the revert is armed before any surgery.
apply_script(captured) ==
    (IF risky(captured) THEN << "timer_stop", "timer_arm" >> ELSE <<>>)
      \o bridge_live_apply(captured) \o persist(risky(captured))

undo_script(captured) == live_undo(captured) \o unpersist

\* The commands that end in || true.
Quiet == {"timer_stop", "br_add", "nic_nomaster", "br_del", "nic_addr", "nic_route", "generate_quiet"}

\* ip addr flush takes the routes with it.
WithoutRoute(x, dev) == [x EXCEPT !.route = IF @ = dev THEN "none" ELSE @]

\* Whether a command has what it works on.
Works(c) ==
    CASE c \in {"br_set", "nic_master", "br_addr"} -> w.br
      [] c = "br_route" -> w.brAddr
      [] c = "nic_route" -> w.nicAddr
      [] OTHER -> TRUE

Effect(c) ==
    CASE c = "br_add"       -> [w EXCEPT !.br = TRUE]
      [] c = "nic_flush"    -> [WithoutRoute(w, "nic") EXCEPT !.nicAddr = FALSE]
      [] c = "nic_master"   -> [w EXCEPT !.member = TRUE]
      [] c = "br_addr"      -> [w EXCEPT !.brAddr = TRUE]
      [] c = "br_route"     -> [w EXCEPT !.route = "br"]
      [] c = "nic_nomaster" -> [w EXCEPT !.member = FALSE]
      [] c = "br_del"       -> [WithoutRoute(w, "br") EXCEPT !.br = FALSE, !.member = FALSE, !.brAddr = FALSE]
      [] c = "nic_addr"     -> [w EXCEPT !.nicAddr = TRUE]
      [] c = "nic_route"    -> [w EXCEPT !.route = "nic"]
      [] c = "cloud_off"    -> [w EXCEPT !.cloud = TRUE]
      [] c = "move_aside"   -> [w EXCEPT !.aside = TRUE]
      [] c \in Files        -> [w EXCEPT !.own = @ \cup {c}]
      [] c = "rm_own"       -> [w EXCEPT !.own = {}, !.cloud = FALSE]
      [] c = "move_back"    -> [w EXCEPT !.aside = FALSE]
      [] OTHER              -> w

\* Whether command c succeeds; a failure the command could have avoided is charged.
Outcomes(c) == {Works(c)} \cup (IF c \in MayFail /\ left.faults > 0 THEN {FALSE} ELSE {})
Charge(c, ok) == left' = [left EXCEPT !.faults = IF ~ok /\ Works(c) THEN @ - 1 ELSE @]

-----------------------------------------------------------------------------
(* setup_bridge. *)
Alive == inst.pc \notin {"idle", "ok", "err", "dead"}
Pending == timer.st = "armed" \/ timer.svc # <<>>
MayRun == ~Alive /\ ~sh.orphan /\ left.runs > 0 /\ (Pending => Eager)
Launch(script, strict) == sh' = [todo |-> script, strict |-> strict, ok |-> TRUE, orphan |-> FALSE]

\* A NIC already in the bridge is a step done; one the installer cannot handle is refused.
SetupDone ==
    /\ MayRun /\ w.member
    /\ inst' = [inst EXCEPT !.pc = "ok"] /\ left' = [left EXCEPT !.runs = @ - 1]
    /\ UNCHANGED <<w, sh, timer>>
SetupRefused ==
    /\ MayRun /\ ~w.member
    /\ inst' = [inst EXCEPT !.pc = "err", !.kept = FALSE] /\ left' = [left EXCEPT !.runs = @ - 1]
    /\ UNCHANGED <<w, sh, timer>>

\* The NIC as it is now is captured, the scripts are placed, the apply script is started.
Setup ==
    /\ MayRun /\ ~w.member
    /\ inst' = [pc |-> "apply", captured |-> w.nicAddr, kept |-> FALSE]
    /\ timer' = [timer EXCEPT !.captured = IF risky(w.nicAddr) THEN w.nicAddr ELSE @]
    /\ Launch(apply_script(w.nicAddr), TRUE)
    /\ left' = [left EXCEPT !.runs = @ - 1]
    /\ UNCHANGED w

\* One command of the installer's script; under set -e a failure ends it.
Run ==
    /\ sh.todo # <<>>
    /\ LET c == Head(sh.todo) IN
       \E ok \in Outcomes(c) :
         /\ Charge(c, ok)
         /\ w' = IF ok THEN Effect(c) ELSE w
         /\ sh' = [sh EXCEPT !.todo = IF ok \/ c \in Quiet \/ ~sh.strict THEN Tail(@) ELSE <<>>,
                             !.ok = ok \/ c \in Quiet,
                             !.orphan = @ /\ Len(sh.todo) > 1 /\ (ok \/ c \in Quiet \/ ~sh.strict)]
         /\ timer' = CASE c = "timer_stop" /\ ok -> [timer EXCEPT !.st = "off", !.age = 0, !.svc = <<>>]
                       [] c = "timer_arm" /\ ok -> [timer EXCEPT !.st = "armed", !.age = 0]
                       [] OTHER -> timer
    /\ UNCHANGED inst

Returned(pc) == inst.pc = pc /\ sh.todo = <<>>
Goto(pc) == inst' = [inst EXCEPT !.pc = pc]

ApplyReturns ==
    /\ Returned("apply")
    /\ IF sh.ok THEN Goto(IF risky(inst.captured) THEN "confirm" ELSE "verify") /\ UNCHANGED sh
       ELSE IF risky(inst.captured) THEN Goto("undo") /\ Launch(undo_script(inst.captured), FALSE)
       ELSE Goto("err") /\ UNCHANGED sh
    /\ UNCHANGED <<w, timer, left>>

Reachable == (w.nicAddr /\ w.route = "nic" /\ ~w.member) \/ (w.brAddr /\ w.route = "br" /\ w.member)

\* The operator, or the probe, confirms only over a working path; silence is a no.
Keep ==
    /\ inst.pc = "confirm" /\ Reachable /\ inst' = [inst EXCEPT !.pc = "stop", !.kept = TRUE]
    /\ UNCHANGED <<w, sh, timer, left>>
Decline ==
    /\ inst.pc = "confirm" /\ Goto("undo") /\ Launch(undo_script(inst.captured), FALSE)
    /\ UNCHANGED <<w, timer, left>>

\* systemctl stop of the timer, whose result nobody looks at.
StopTimer ==
    /\ inst.pc = "stop" /\ Goto("verify")
    /\ \E ok \in Outcomes("systemctl_stop") :
         Charge("systemctl_stop", ok) /\ timer' = IF ok THEN [timer EXCEPT !.st = "off", !.age = 0] ELSE timer
    /\ UNCHANGED <<w, sh>>

verify_bridge ==
    /\ inst.pc = "verify" /\ Goto(IF w.member THEN "ok" ELSE "err")
    /\ UNCHANGED <<w, sh, timer, left>>

\* The timer is stopped when the undo script exits with zero, the status of its last command.
UndoReturns ==
    /\ Returned("undo") /\ Goto("err")
    /\ timer' = IF sh.ok THEN [timer EXCEPT !.st = "off", !.age = 0] ELSE timer
    /\ UNCHANGED <<w, sh, left>>

-----------------------------------------------------------------------------
(* systemd, and the faults. *)

\* Thirty seconds: a live installer is done with its scripts and the answer within LiveTicks of them.
Tick ==
    /\ timer.st = "armed" /\ timer.age < IF Alive \/ sh.todo # <<>> THEN LiveTicks ELSE RevertTicks
    /\ timer' = [timer EXCEPT !.age = @ + 1]
    /\ UNCHANGED <<w, inst, sh, left>>
Fire ==
    /\ timer.st = "armed" /\ timer.age = RevertTicks
    /\ timer' = [timer EXCEPT !.st = "off", !.age = 0, !.svc = undo_script(timer.captured)]
    /\ UNCHANGED <<w, inst, sh, left>>
Service ==
    /\ timer.svc # <<>> /\ timer' = [timer EXCEPT !.svc = Tail(@)]
    /\ \E ok \in Outcomes(Head(timer.svc)) :
         Charge(Head(timer.svc), ok) /\ w' = IF ok THEN Effect(Head(timer.svc)) ELSE w
    /\ UNCHANGED <<inst, sh>>

\* The installer dies, its script with it or left to run to its end.
Die ==
    /\ Alive /\ left.deaths > 0 /\ left' = [left EXCEPT !.deaths = @ - 1] /\ Goto("dead")
    /\ \E orphan \in {sh.todo # <<>>, FALSE} :
         sh' = IF orphan THEN [sh EXCEPT !.orphan = TRUE] ELSE [sh EXCEPT !.todo = <<>>, !.orphan = FALSE]
    /\ UNCHANGED <<w, timer>>

\* What the network manager makes of its files at boot.
BootNet(x) ==
    LET bridged == x.own = Files
        own == bridged /\ ~Spare
        nic == ~bridged /\ ~x.aside /\ ~Spare
    IN  [x EXCEPT !.br = bridged \/ "br.netdev" \in x.own, !.member = bridged, !.brAddr = own, !.nicAddr = nic,
                  !.route = IF own THEN "br" ELSE IF nic THEN "nic" ELSE "none"]
Reboot ==
    /\ left.reboots > 0 /\ left' = [left EXCEPT !.reboots = @ - 1]
    /\ w' = BootNet(w) /\ Goto(IF Alive THEN "dead" ELSE inst.pc)
    /\ sh' = [sh EXCEPT !.todo = <<>>, !.orphan = FALSE]
    /\ timer' = [timer EXCEPT !.st = "off", !.age = 0, !.svc = <<>>]

Ended ==
    /\ ~Alive /\ sh.todo = <<>> /\ ~Pending /\ left.runs = 0 /\ left.reboots = 0
    /\ UNCHANGED bridgeVars

BridgeNext ==
    \/ SetupDone \/ SetupRefused \/ Setup \/ Run \/ ApplyReturns \/ Keep \/ Decline \/ StopTimer \/ verify_bridge
    \/ UndoReturns \/ Tick \/ Fire \/ Service \/ Die \/ Reboot \/ Ended

BridgeSpec == BridgeInit /\ [][BridgeNext]_bridgeVars

\* Commands return, the operator answers or the countdown ends, and systemd runs its timers.
BridgeDue(i) ==
    \/ i = 1 /\ (Run \/ ApplyReturns \/ Decline \/ StopTimer \/ verify_bridge \/ UndoReturns)
    \/ i = 2 /\ Tick
    \/ i = 3 /\ (Fire \/ Service)

-----------------------------------------------------------------------------
Commands == {"timer_stop", "timer_arm", "br_add", "br_set", "nic_flush", "nic_master", "nic_up", "br_addr", "br_route",
             "nic_nomaster", "br_del", "nic_addr", "nic_route", "cloud_off", "move_aside", "generate", "reload",
             "rm_own", "move_back", "generate_quiet"} \cup Files

\* Every field in its range; the timer is no older than its deadline, and counts only while it is armed.
BridgeTypeOK ==
    /\ w.own \subseteq Files /\ w.route \in {"nic", "br", "none"}
    /\ inst.pc \in {"idle", "apply", "confirm", "stop", "verify", "undo", "ok", "err", "dead"}
    /\ {sh.todo[k] : k \in 1..Len(sh.todo)} \cup {timer.svc[k] : k \in 1..Len(timer.svc)} \subseteq Commands
    /\ timer.st \in {"off", "armed"} /\ timer.age \in 0..RevertTicks /\ (timer.st = "off" => timer.age = 0)

\* Between the first command that touches an addressed NIC and the operator's yes, the revert is armed or
\* running, whichever command fails and wherever the installer dies (bridge.rs apply_script).
SurgeryGuarded == ~Spare /\ w # Orig /\ ~inst.kept => Pending

AtRest == ~Alive /\ sh.todo = <<>> /\ ~Pending

\* A host at rest can be reached over the NIC's own address, on the NIC or on the bridge.
RestsReachable == AtRest /\ ~Spare => Reachable

\* An error the installer reports leaves the host as it was found, links and files, once the revert is over
\* (setup_bridge: "no confirmation; the bridge was reverted").
ErrorRestored == AtRest /\ inst.pc = "err" /\ ~Spare => w = Orig

\* A bridge the installer reported in place is there, its files are complete and no revert is pending
\* (setup_bridge: "bridge kept and persisted").
KeptStays == inst.pc = "ok" => w.member /\ w.own = Files /\ ~Pending

\* At rest the host would boot into the network it is running, so a reboot changes nothing.
BootAgrees == AtRest /\ (~Spare \/ inst.pc = "ok") => BootNet(w) = w

\* Surgery ends: the operator keeps the bridge, or the NIC gets its address and its files back.
SettlesWhen == ~Spare /\ w # Orig
SettlesThen == w = Orig \/ inst.kept

-----------------------------------------------------------------------------
(***************************************************************************)
(* What the installer captures of a NIC and what it has the host boot into *)
(* (bridge.rs): list_nics reads the output of ip, live_apply puts the      *)
(* addresses on the bridge, gen_netplan and gen_networkd write them down.  *)
(* An IPv4 address is a number of W bits with a prefix.                    *)
(***************************************************************************)
CONSTANTS
    W,              \* the width of an IPv4 address
    Addrs4,         \* IPv4 addresses a NIC may have: [ip, pfx, dyn, scope]
    Addrs6,         \* IPv6 addresses: [ip, dyn, scope]
    Gateways4,      \* IPv4 gateways it may have, None among them
    Gateways6,      \* whether it may have a static IPv6 one
    Mixed,          \* whether one family may have a leased and a static address
    Servers         \* nameservers, "stub" among them

None == -1

VARIABLES
    host,           \* the NIC as the kernel and the resolver files have it
    nicNic,            \* as captured
    out             \* the live bridge and the two generated configurations

nicVars == <<host, nicNic, out>>

-----------------------------------------------------------------------------
(* Discovery. *)

\* gw_off_subnet4 compares under a mask of the prefix length, at most the width.
Mask(p) == IF p = 0 THEN 0 ELSE 2^W - 2^(W - IF p < W THEN p ELSE W)
Masked(x, m) == IF m = 0 THEN 0 ELSE x - (x % (2^W - m))

gw_off_subnet4(addrs4, gw) == \A a \in addrs4 : Masked(a.ip, Mask(a.pfx)) # Masked(gw, Mask(a.pfx))

\* ip route show default lists the IPv4 default routes.
RouteShowDefault(h) == {[via |-> g, v6 |-> FALSE] : g \in {h.gw4} \ {None}}

\* parse_nics: the addresses of global scope; one leased address makes the family dynamic.
parse_nics(h, routes) ==
    LET global(as) == {a \in as : a.scope = "global"}
    IN  [addrs4 |-> {[ip |-> a.ip, pfx |-> a.pfx] : a \in global(h.a4)}, addrs6 |-> {a.ip : a \in global(h.a6)},
         dynamic4 |-> \E a \in global(h.a4) : a.dyn, dynamic6 |-> \E a \in global(h.a6) : a.dyn,
         gw4 |-> IF \E r \in routes : ~r.v6 THEN (CHOOSE r \in routes : ~r.v6).via ELSE None,
         gw6 |-> \E r \in routes : r.v6]

list_nics(h) == parse_nics(h, RouteShowDefault(h))

onlink4(n) == n.gw4 # None /\ gw_off_subnet4(n.addrs4, n.gw4)

\* The first file with a server that is not the local stub.
nameservers(h) == IF h.resolved \ {"stub"} # {} THEN h.resolved \ {"stub"} ELSE h.etc \ {"stub"}

-----------------------------------------------------------------------------
(* The bridge: lease4 and lease6 for what comes by itself, addresses, default routes, nameservers. *)
Route4(n) == IF n.gw4 = None THEN {} ELSE {[via |-> n.gw4, onlink |-> onlink4(n)]}

\* live_apply puts up everything that was captured.
nic_live_apply(n) ==
    [lease4 |-> FALSE, lease6 |-> FALSE, a4 |-> n.addrs4, a6 |-> n.addrs6, routes |-> Route4(n), gw6 |-> n.gw6, dns |-> {}]

gen_netplan(n, dns) ==
    LET a4 == IF n.dynamic4 THEN {} ELSE n.addrs4
        a6 == IF n.dynamic6 THEN {} ELSE n.addrs6
    IN  [lease4 |-> n.dynamic4, lease6 |-> n.dynamic6, a4 |-> a4, a6 |-> a6,
         routes |-> IF n.dynamic4 THEN {} ELSE Route4(n), gw6 |-> ~n.dynamic6 /\ n.gw6,
         dns |-> IF ~n.dynamic4 \/ a4 # {} \/ a6 # {} THEN dns ELSE {}]

gen_networkd(n, dns) ==
    [lease4 |-> n.dynamic4, lease6 |-> n.dynamic6,
     a4 |-> IF n.dynamic4 THEN {} ELSE n.addrs4, a6 |-> IF n.dynamic6 THEN {} ELSE n.addrs6,
     routes |-> IF n.dynamic4 THEN {} ELSE Route4(n), gw6 |-> ~n.dynamic6 /\ n.gw6, dns |-> dns]

-----------------------------------------------------------------------------
AFew(S) == {T \in SUBSET S : Cardinality(T) <= 2}
OneKind(as) == Cardinality({a.dyn : a \in {b \in as : b.scope = "global"}}) <= 1
Blank == [addrs4 |-> {}, addrs6 |-> {}, dynamic4 |-> FALSE, dynamic6 |-> FALSE, gw4 |-> None, gw6 |-> FALSE]

\* A NIC has its default route by an address of global scope.
NicInit ==
    /\ host \in [a4 : AFew(Addrs4), a6 : AFew(Addrs6), gw4 : Gateways4, gw6 : Gateways6,
                 resolved : SUBSET Servers, etc : SUBSET Servers]
    /\ Mixed \/ (OneKind(host.a4) /\ OneKind(host.a6))
    /\ host.gw4 # None => \E a \in host.a4 : a.scope = "global"
    /\ nicNic = Blank /\ out = <<>>

Capture == nicNic = Blank /\ out = <<>> /\ nicNic' = list_nics(host) /\ UNCHANGED <<host, out>>
Generate ==
    /\ out = <<>> /\ nicNic = list_nics(host)
    /\ out' = << nic_live_apply(nicNic), gen_netplan(nicNic, nameservers(host)), gen_networkd(nicNic, nameservers(host)) >>
    /\ UNCHANGED <<host, nicNic>>
Over == out # <<>> /\ UNCHANGED nicVars

NicNext == Capture \/ Generate \/ Over

NicSpec == NicInit /\ [][NicNext]_nicVars

-----------------------------------------------------------------------------
\* What is captured is made of the NIC's own addresses and gateway, and the bridge has at most one IPv4 default route.
NicTypeOK ==
    /\ nicNic.addrs4 \subseteq {[ip |-> a.ip, pfx |-> a.pfx] : a \in host.a4} /\ nicNic.gw4 \in {None, host.gw4}
    /\ \A k \in DOMAIN out : Cardinality(out[k].routes) <= 1

Live == out[1]
Boots == {out[2], out[3]}

\* A static default route is one the kernel takes: its gateway is inside a subnet of the bridge, by the division of
\* addresses into blocks, or the route is marked on-link (onlink4).
Accepted(c) ==
    \A r \in c.routes : r.onlink \/ \E a \in c.a4 : LET b == 2^(W - IF a.pfx < W THEN a.pfx ELSE W)
                                                   IN  a.ip \div b = r.via \div b
RoutesAccepted == out # <<>> => Accepted(Live) /\ \A c \in Boots : Accepted(c)

\* The two managers are given the same addresses and routes (gen_netplan, gen_networkd).
GeneratorsAgree ==
    out # <<>> => LET bare(c) == [c EXCEPT !.dns = {}] IN bare(out[2]) = bare(out[3])

\* Every captured address that does not come by a lease is on the bridge after a boot, and no leased one is pinned.
BootKeepsStatics ==
    out # <<>> => \A c \in Boots :
        /\ c.a4 = {[ip |-> a.ip, pfx |-> a.pfx] : a \in {b \in host.a4 : b.scope = "global" /\ ~b.dyn}}
        /\ c.a6 = {a.ip : a \in {b \in host.a6 : b.scope = "global" /\ ~b.dyn}}

\* A bridge with static addresses only resolves names, unless no file has a server but the stub.
BootResolves ==
    out # <<>> /\ (host.resolved \cup host.etc) \ {"stub"} # {} /\ ~nicNic.dynamic4
      => \A c \in Boots : c.dns # {} /\ "stub" \notin c.dns
=============================================================================
