----------------------------- MODULE HostRoutes -----------------------------
(***************************************************************************)
(* Routes of the host: the kernel's table as the commands change it, the   *)
(* exit routes that lead all traffic through a tunnel, and the network     *)
(* configuration that a PPPoE link brings and takes away.                  *)
(***************************************************************************)
EXTENDS Integers, FiniteSets, Sequences, SequencesExt

(***************************************************************************)
(* The host's route table and the code that reads and changes it           *)
(* (route.rs).  A table is a set of rows; the kernel keeps one default     *)
(* per metric.  Addresses and prefixes are names: "any" is 0.0.0.0/0,      *)
(* "low" and "high" are the two /1 halves, "v6low" and "v6high" those of   *)
(* IPv6, "lan1" and "lan2" connected prefixes; every other name is a host  *)
(* and its own /32.                                                        *)
(***************************************************************************)
CONSTANTS
    Lan1, Lan2,     \* the hosts on the two connected prefixes
    High,           \* the hosts in 128.0.0.0/1
    V6,             \* the IPv6 hosts
    MaxMetric       \* the largest metric a request can name: i16::MAX - 1

RouteTableAssumption == MaxMetric \in Nat

Row(to, via, dev, metric) == [to |-> to, via |-> via, dev |-> dev, metric |-> metric]
NoRow == Row("none", "none", "none", 0)

\* netmask: the length of a prefix.
netmask(to) ==
    CASE to = "any" -> 0
      [] to \in {"low", "high", "v6low", "v6high"} -> 1
      [] to \in {"lan1", "lan2"} -> 24
      [] OTHER -> 32

Reaches(to, a) ==
    \/ to = a
    \/ a \in V6 /\ to \in {"v6low", "v6high"}
    \/ /\ a \notin V6
       /\ \/ to = "any" \/ (to = "high" /\ a \in High) \/ (to = "low" /\ a \notin High)
          \/ (to = "lan1" /\ a \in Lan1) \/ (to = "lan2" /\ a \in Lan2)

\* How the kernel routes a packet to a: the longest prefix, then the least metric.
Lookup(T, a) ==
    LET hits == {r \in T : Reaches(r.to, a)}
        best == {r \in hits : \A q \in hits : netmask(q.to) < netmask(r.to)
                                \/ (netmask(q.to) = netmask(r.to) /\ r.metric <= q.metric)}
    IN  IF best = {} THEN NoRow ELSE CHOOSE r \in best : TRUE

-----------------------------------------------------------------------------
\* The defaults of T that do not leave by skip; with a gateway only, when one is required.
scan_defaults(T, skip, require_gateway) ==
    {r \in T : r.to = "any" /\ r.dev # skip /\ (require_gateway => r.via # "none")}

\* The lowest metric wins.
parse_default(T, skip, require_gateway) ==
    LET ds == scan_defaults(T, skip, require_gateway)
    IN  IF ds = {} THEN NoRow ELSE CHOOSE d \in ds : \A e \in ds : d.metric <= e.metric

parse_proc_route(T, tun) == parse_default(T, tun, TRUE)
default_route_iface(T, skip) == parse_default(T, skip, FALSE).dev
parse_all_defaults(T, skip) == scan_defaults(T, skip, FALSE)

covered_beyond_half(T, skip, a) ==
    \E r \in T : r.dev # skip /\ netmask(r.to) > 1 /\ Reaches(r.to, a)

-----------------------------------------------------------------------------
\* A request names its metric in 16 bits.
Request(r) == [r EXCEPT !.metric = IF @ <= MaxMetric THEN @ ELSE MaxMetric]

\* The kernel's answer to modify_route: a gateway must be on a connected prefix of the device, a row
\* is added once and deleted where it is.
modify_route(T, add, row) ==
    LET r == Request(row)
        onlink == \/ r.via = "none"
                  \/ \E q \in T : netmask(q.to) = 24 /\ q.dev = r.dev /\ Reaches(q.to, r.via)
    IN  CASE add /\ r \in T -> [out |-> "exists", table |-> T]
          [] add /\ r \notin T /\ onlink -> [out |-> "ok", table |-> T \cup {r}]
          [] add /\ r \notin T /\ ~onlink -> [out |-> "error", table |-> T]
          [] ~add /\ r \in T -> [out |-> "ok", table |-> T \ {r}]
          [] ~add /\ r \notin T -> [out |-> "error", table |-> T]

-----------------------------------------------------------------------------
(***************************************************************************)
(* The routes of exit mode (exitroute.rs), as a tun client holds them      *)
(* across its redials (client.rs) and a peer-exit consumer for one pair    *)
(* (peerexit.rs).  One step is one route ioctl; between two of them the    *)
(* uplink may flap, the operator's DHCP client may put its routes back,    *)
(* the process may die.                                                    *)
(***************************************************************************)
CONSTANTS
    ExitHomes,          \* the tables the host may start with
    Servers,        \* the addresses the server's name may resolve to
    Peers,          \* the punched addresses of a consumer's pair
    Kinds,          \* "client", "consumer"
    StrictModes,    \* the settings of strict mode
    Gateways,       \* the gateways the uplink may come back with
    RaiseFaults, LowerFaults, Flaps, Crashes   \* how many of each may happen

VARIABLES
    exitTable,
    exitHome,           \* the operator's own rows
    p,              \* the process: its state, guard and pending ioctls
    exitLeft            \* what is left of the fault budgets

exitVars == <<exitTable, exitHome, p, exitLeft>>

Tun == "tun"
Half(to) == Row(to, "none", Tun, 0)
V6Half(to) == Row(to, "none", "lo", 0)
Change(add, row, lvl, tol) == [add |-> add, row |-> row, lvl |-> lvl, tol |-> tol]

Off == [st |-> "off", kind |-> "client", strict |-> FALSE, srv |-> "none", pin |-> NoRow, pins |-> <<>>,
        defaults |-> <<>>, lvl |-> 0, todo |-> <<>>, dial |-> FALSE]
ExitInit ==
    /\ exitHome \in ExitHomes /\ exitTable = exitHome /\ p = Off
    /\ exitLeft = [raise |-> RaiseFaults, lower |-> LowerFaults, flap |-> Flaps, crash |-> Crashes,
                   down |-> FALSE, flapped |-> FALSE, crashed |-> FALSE, failed |-> FALSE,
                   best |-> NoRow, leftover |-> FALSE]

-----------------------------------------------------------------------------
\* The /32 pin: through the default's gateway, on its link when it has none, none without a default.
plan_server_pin(T, server) ==
    LET d == parse_proc_route(T, Tun)
        iface == default_route_iface(T, Tun)
    IN  IF d # NoRow THEN Row(server, d.via, d.dev, 0)
        ELSE IF iface # "none" THEN Row(server, "none", iface, 0) ELSE NoRow

plan_underlay_pins(T, peers) ==
    LET far == SelectSeq(peers, LAMBDA a : ~covered_beyond_half(T, Tun, a))
    IN  [i \in 1..Len(far) |-> plan_server_pin(T, far[i])]


\* ExitRouteGuard::changes: pin, then halves; an already-exists answer counts as held.
Base(pin, add) ==
    << Change(add, pin, 1, "exists"), Change(add, Half("low"), 1, "exists"),
       Change(add, Half("high"), 1, "exists") >>

\* StrictRouteGuard::changes: the v6 halves, then the defaults deleted.
Strict(defaults, up) ==
    << Change(up, V6Half("v6low"), 2, "none"), Change(up, V6Half("v6high"), 2, "none") >>
      \o [i \in 1..Len(defaults) |-> Change(~up, defaults[i], 2, "none")]

\* Worst metric first.
DeletionOrder(ds) == SetToSortSeq(ds, LAMBDA a, b : a.metric > b.metric)

\* The guards' Drop, in field order: strict, base, underlay pins, each reversed.
Undo(q) ==
    (IF q.lvl >= 2 THEN Reverse(Strict(q.defaults, FALSE)) ELSE <<>>)
      \o (IF q.lvl >= 1 THEN Reverse(Base(q.pin, FALSE)) ELSE <<>>)
      \o Reverse([i \in 1..Len(q.pins) |-> Change(FALSE, q.pins[i], 0, "any")])

-----------------------------------------------------------------------------
\* ensure_exit_routes without a guard, consumer_routes: everything is planned from one read.
Plan(kind, server, strict) ==
    /\ p.st = "off" /\ parse_default(exitTable, Tun, FALSE) # NoRow
    /\ LET pin == plan_server_pin(exitTable, server)
           pins == IF kind = "consumer" THEN plan_underlay_pins(exitTable, Peers) ELSE <<>>
           ds == IF strict THEN DeletionOrder(parse_all_defaults(exitTable, Tun)) ELSE <<>>
       IN  p' = [Off EXCEPT !.st = "raise", !.kind = kind, !.strict = strict, !.srv = server, !.pin = pin,
                            !.defaults = ds, !.dial = TRUE,
                            !.todo = [i \in 1..Len(pins) |-> Change(TRUE, pins[i], 0, "exists")]
                                       \o Base(pin, TRUE) \o (IF strict THEN Strict(ds, TRUE) ELSE <<>>)]
    /\ exitLeft' = [exitLeft EXCEPT !.failed = FALSE, !.best = parse_default(exitTable, Tun, FALSE),
                         !.leftover = strict /\ \E r \in exitTable : r.dev = "lo"]
    /\ UNCHANGED <<exitTable, exitHome>>

Tolerated(c, out) == out = "ok" \/ (c.tol = "exists" /\ out = "exists") \/ c.tol = "any"

\* What one ioctl may do: what the kernel answers, or a failure out of a budget.
Outcomes(c, budget) ==
    {modify_route(exitTable, c.add, c.row)} \cup (IF budget > 0 THEN {[out |-> "fault", table |-> exitTable]} ELSE {})
Spent(k, out) == [exitLeft EXCEPT ![k] = IF out = "fault" THEN @ - 1 ELSE @]

\* One ioctl of the bring-up. The guard of its level exists from its first change on.
Raise ==
    /\ p.st = "raise"
    /\ LET c == Head(p.todo)
           q == [p EXCEPT !.todo = Tail(@), !.lvl = c.lvl]
       IN  \E o \in Outcomes(c, exitLeft.raise) :
             /\ exitTable' = o.table
             /\ IF Tolerated(c, o.out)
                THEN /\ exitLeft' = exitLeft
                     /\ LET r == IF c.lvl = 0 THEN [q EXCEPT !.pins = Append(@, c.row)] ELSE q
                        IN  p' = IF r.todo = <<>> THEN [r EXCEPT !.st = "up"] ELSE r
                ELSE /\ exitLeft' = [Spent("raise", o.out) EXCEPT !.failed = TRUE]
                     /\ p' = IF Undo(q) = <<>> THEN Off ELSE [q EXCEPT !.st = "lower", !.todo = Undo(q)]
    /\ UNCHANGED exitHome

\* One ioctl of a teardown: best effort.
Lower ==
    /\ p.st = "lower"
    /\ \E o \in Outcomes(Head(p.todo), exitLeft.lower) :
         /\ exitTable' = o.table /\ exitLeft' = Spent("lower", o.out)
    /\ p' = IF Len(p.todo) = 1 THEN Off ELSE [p EXCEPT !.todo = Tail(@)]
    /\ UNCHANGED exitHome

\* The tun session or the pair ends.
Stop == p.st = "up" /\ p' = [p EXCEPT !.st = "lower", !.todo = Undo(p)] /\ UNCHANGED <<exitTable, exitHome, exitLeft>>

\* assert_pin, ahead of a redial.
assert_pin(server) ==
    /\ p.st = "up" /\ p.kind = "client"
    /\ LET pin == [p.pin EXCEPT !.to = server]
       IN  p' = [p EXCEPT !.st = "assert", !.srv = server, !.pin = pin, !.dial = FALSE,
                          !.todo = (IF server # p.srv THEN <<Change(FALSE, p.pin, 1, "any")>> ELSE <<>>)
                                     \o <<Change(TRUE, pin, 1, "exists")>>]
    /\ UNCHANGED <<exitTable, exitHome, exitLeft>>

\* A failed add keeps the dial from running; the routes stay.
AssertPin ==
    /\ p.st = "assert"
    /\ LET c == Head(p.todo)
           k == IF c.add THEN "raise" ELSE "lower"
       IN
       \E o \in Outcomes(c, exitLeft[k]) :
         /\ exitTable' = o.table
         /\ LET done == Len(p.todo) = 1
                ok == Tolerated(c, o.out)
            IN  /\ p' = [p EXCEPT !.todo = Tail(@), !.st = IF done THEN "up" ELSE @, !.dial = done /\ ok]
                /\ exitLeft' = [Spent(k, o.out) EXCEPT !.flapped = @ /\ ~(done /\ ok)]
    /\ UNCHANGED exitHome

-----------------------------------------------------------------------------
Uplink == "eth0"
Ours(T) == {r \in T : r.dev = Uplink}

\* The uplink goes down, and the kernel purges its routes.
Flap ==
    /\ exitLeft.flap > 0 /\ Ours(exitHome) # {}
    /\ exitTable' = exitTable \ Ours(exitTable)
    /\ exitLeft' = [exitLeft EXCEPT !.flap = @ - 1, !.down = TRUE, !.flapped = TRUE]
    /\ UNCHANGED <<exitHome, p>>

\* It comes back, with the routes of the network it is on.
ExitRenew(g) ==
    /\ exitLeft.down
    /\ LET back == {IF r.via = "none" THEN [r EXCEPT !.to = IF g \in Lan1 THEN "lan1" ELSE "lan2"]
                    ELSE [r EXCEPT !.via = g] : r \in Ours(exitHome)}
       IN  exitHome' = (exitHome \ Ours(exitHome)) \cup back /\ exitTable' = exitTable \cup back
    /\ exitLeft' = [exitLeft EXCEPT !.down = FALSE, !.flapped = @ /\ p.st # "off"]
    /\ UNCHANGED p

\* The process dies: the device takes its routes with it, nothing else is undone.
Crash ==
    /\ p.st # "off" /\ exitLeft.crash > 0
    /\ exitTable' = {r \in exitTable : r.dev # Tun}
    /\ p' = Off
    /\ exitLeft' = [exitLeft EXCEPT !.crash = @ - 1, !.crashed = TRUE]
    /\ UNCHANGED exitHome

\* The operator puts the defaults back by hand.
Repair ==
    /\ p.st = "off" /\ exitLeft.crashed /\ ~(exitHome \subseteq exitTable) /\ ~exitLeft.down
    /\ exitTable' = exitTable \cup exitHome
    /\ UNCHANGED <<exitHome, p, exitLeft>>

Bringup == \E k \in Kinds, a \in Servers, s \in StrictModes : Plan(k, a, s)
Redial == \E a \in Servers : assert_pin(a)
Renewal == \E g \in Gateways : ExitRenew(g)
Stranded == p.st = "off" /\ parse_default(exitTable, Tun, FALSE) = NoRow /\ UNCHANGED exitVars

ExitNext == Bringup \/ Raise \/ Lower \/ Stop \/ Redial \/ AssertPin \/ Flap \/ Renewal \/ Crash \/ Repair \/ Stranded

ExitSpec == ExitInit /\ [][ExitNext]_exitVars
\* The loop redials a session that is not up; an uplink comes back.
ExitDue(i) ==
    \/ i = 1 /\ (Raise \/ AssertPin \/ Lower)
    \/ i = 2 /\ ~p.dial /\ Redial
    \/ i = 3 /\ Renewal

-----------------------------------------------------------------------------
ExitTypeOK ==
    /\ p.st \in {"off", "raise", "up", "assert", "lower"} /\ p.kind \in {"client", "consumer"}
    /\ p.lvl \in 0..2 /\ p.dial \in BOOLEAN /\ (p.st \in {"raise", "assert", "lower"}) = (p.todo # <<>>)
    /\ exitLeft.raise \in 0..RaiseFaults /\ exitLeft.lower \in 0..LowerFaults

\* The tunnel never carries what carries it: at every single ioctl of a bring-up, a teardown and
\* whenever a dial may run, the server and every punched peer leave by the interface they left by
\* before ("pin first so no packet to the server can route into the tun in between"). A pin left by a
\* dead process may name another uplink, never the tunnel.
PathKept ==
    p.st # "off" /\ ~exitLeft.flapped /\ exitLeft.lower = LowerFaults =>
      \A a \in (IF p.dial THEN {p.srv} ELSE {}) \cup (IF p.kind = "consumer" THEN ToSet(Peers) ELSE {}) :
        LET dev == Lookup(exitTable, a).dev
        IN  dev # Tun /\ (~exitLeft.crashed /\ exitLeft.flap = Flaps => dev = Lookup(exitHome, a).dev)

\* "an error here leaves no route behind": once nothing is held the table is the operator's, whatever
\* ioctl of whatever stage failed, and however often the pin was moved.
CleanWhenOff ==
    p.st = "off" /\ ~exitLeft.crashed /\ ~exitLeft.down /\ ~exitLeft.flapped /\ exitLeft.lower = LowerFaults => exitTable = exitHome

\* "a failed earlier step never leaves the host without its working default", even when nothing of
\* the unwinding works.
BestDefaultSurvives ==
    exitLeft.failed /\ exitLeft.flap = Flaps /\ ~exitLeft.crashed => exitLeft.best \in exitTable

\* A bring-up fails for a cause: a leftover pin of a dead process is adopted. The v6 halves it may have
\* left are not, but the failed bring-up removes them.
FailsForCause ==
    exitLeft.failed => \/ exitLeft.raise < RaiseFaults \/ exitLeft.flap < Flaps \/ exitLeft.lower < LowerFaults
                       \/ exitLeft.leftover

\* While the session is up a destination of no other route goes into the tunnel and, in strict mode,
\* an IPv6 one nowhere, flaps and renewals of the uplink included.
AllThroughTunnel ==
    p.st \in {"up", "assert"} =>
      /\ \A a \in {"far", "far-high"} : Lookup(exitTable, a).dev = Tun
      /\ p.strict => Lookup(exitTable, "far6").dev = "lo"

\* After a flap the dial is prepared again once the uplink is back.
DialRecoversWhen == p.st = "up" /\ p.kind = "client" /\ ~p.dial
DialRecoversThen == p.dial \/ p.st = "off"

-----------------------------------------------------------------------------
(***************************************************************************)
(* Pointing the host at an established PPPoE link and back                 *)
(* (pppoe/netcfg.rs): the server pin, the default route and                *)
(* /etc/resolv.conf, one system call at a time, any of which may fail.     *)
(* Between two calls the operator's DHCP client may renew.                 *)
(***************************************************************************)
CONSTANTS
    NetHomes,      \* the tables the host may start with
    Opts,       \* subsets of {"default_route", "dns"} the operator may ask for
    Server,     \* the tunnel endpoint
    Faults,     \* how many calls of an apply may fail
    Torn,       \* whether a failing write may leave the file truncated
    Edges       \* how many links come up

VARIABLES
    netTable, resolv,
    netHome,       \* the operator's own rows
    netG,          \* the guard: AppliedState, the call that is next, and what was asked for
    netLeft        \* what is left of the budgets, and whether the pin failed

netVars == <<netTable, resolv, netHome, netG, netLeft>>

Zppp == "zppp0"
ZpppDefault == Row("any", "none", Zppp, 0)
NoGuard == [pc |-> "off", opts |-> {}, v4 |-> FALSE, captured |-> NoRow, default_added |-> FALSE,
            server_pin |-> FALSE, resolv_written |-> FALSE, backup |-> "none"]
Pin(q) == Row(Server, q.captured.via, q.captured.dev, 0)

NetInit ==
    /\ netHome \in NetHomes /\ netTable = netHome /\ resolv \in {"own", "absent"} /\ netG = NoGuard
    /\ netLeft = [faults |-> Faults, edges |-> Edges, unpinned |-> FALSE, was |-> resolv]

Call(add, row) ==
    {modify_route(netTable, add, row)}
      \cup (IF netLeft.faults > 0 THEN {[out |-> "fault", table |-> netTable]} ELSE {})
Spend(out) == [netLeft EXCEPT !.faults = IF out = "fault" THEN @ - 1 ELSE @]

-----------------------------------------------------------------------------
AfterRoutes(q) == IF "dns" \in q.opts THEN "dns" ELSE "held"

\* apply, up to its first change: the original default is captured.
Capture(opts, v4) ==
    /\ netG.pc = "off" /\ netLeft.edges > 0 /\ opts # {}
    /\ LET c == parse_proc_route(netTable, Zppp)
           q == [NoGuard EXCEPT !.opts = opts, !.v4 = v4]
       IN  netG' = IF "default_route" \in opts /\ c # NoRow
                   THEN [q EXCEPT !.captured = c, !.pc = IF v4 THEN "pin" ELSE "add"]
                   ELSE [q EXCEPT !.pc = AfterRoutes(q)]
    /\ netLeft' = [netLeft EXCEPT !.edges = @ - 1, !.unpinned = ~v4]
    /\ UNCHANGED <<netTable, resolv, netHome>>

\* A pin that fails is logged and not recorded.
PinServer ==
    /\ netG.pc = "pin"
    /\ \E o \in Call(TRUE, Pin(netG)) :
         /\ netTable' = o.table
         /\ netG' = [netG EXCEPT !.pc = "add", !.server_pin = o.out = "ok"]
         /\ netLeft' = [Spend(o.out) EXCEPT !.unpinned = o.out \in {"fault", "error"}]
    /\ UNCHANGED <<resolv, netHome>>

\* The link's default goes in; without it host routing is left alone.
AddDefault ==
    /\ netG.pc = "add"
    /\ \E o \in Call(TRUE, ZpppDefault) :
         /\ netTable' = o.table /\ netLeft' = Spend(o.out)
         /\ netG' = [netG EXCEPT !.pc = IF o.out = "ok" THEN "del" ELSE AfterRoutes(netG)]
    /\ UNCHANGED <<resolv, netHome>>

\* The original goes, best effort.
DelOriginal ==
    /\ netG.pc = "del"
    /\ \E o \in Call(FALSE, netG.captured) : netTable' = o.table /\ netLeft' = Spend(o.out)
    /\ netG' = [netG EXCEPT !.pc = AfterRoutes(netG), !.default_added = TRUE]
    /\ UNCHANGED <<resolv, netHome>>

\* apply_dns: nothing without servers; the backup is what the read gave, and a write truncates first.
apply_dns ==
    /\ netG.pc = "dns"
    /\ \/ /\ netG' = [netG EXCEPT !.pc = "held"] /\ UNCHANGED <<resolv, netLeft>>
       \/ /\ resolv' = "isp"
          /\ netG' = [netG EXCEPT !.pc = "held", !.resolv_written = TRUE, !.backup = resolv]
          /\ UNCHANGED netLeft
       \/ /\ netLeft.faults > 0 /\ netLeft' = [netLeft EXCEPT !.faults = @ - 1]
          /\ resolv' \in {resolv} \cup (IF Torn THEN {"cut"} ELSE {})
          /\ netG' = [netG EXCEPT !.pc = "held"]
    /\ UNCHANGED <<netTable, netHome>>

-----------------------------------------------------------------------------

\* revert: the original back in, the link's default out, the pin, DNS. Errors are ignored.
RevertAdd ==
    /\ netG.pc = "held"
    /\ netTable' = IF netG.default_added THEN modify_route(netTable, TRUE, netG.captured).table ELSE netTable
    /\ netG' = [netG EXCEPT !.pc = "rdel"]
    /\ UNCHANGED <<resolv, netHome, netLeft>>

RevertDel ==
    /\ netG.pc = "rdel"
    /\ netTable' = IF netG.default_added THEN modify_route(netTable, FALSE, ZpppDefault).table ELSE netTable
    /\ netG' = [netG EXCEPT !.pc = "rpin"]
    /\ UNCHANGED <<resolv, netHome, netLeft>>

RevertPin ==
    /\ netG.pc = "rpin"
    /\ netTable' = IF netG.server_pin THEN modify_route(netTable, FALSE, Pin(netG)).table ELSE netTable
    /\ netG' = [netG EXCEPT !.pc = "rdns"]
    /\ UNCHANGED <<resolv, netHome, netLeft>>

RevertDns ==
    /\ netG.pc = "rdns"
    /\ resolv' = IF netG.resolv_written THEN netG.backup ELSE resolv
    /\ netG' = NoGuard
    /\ UNCHANGED <<netTable, netHome, netLeft>>

\* A lease renewal puts the operator's routes back.
NetRenew == netTable' = netTable \cup netHome /\ UNCHANGED <<resolv, netHome, netG, netLeft>>

NetNext ==
    \/ \E o \in Opts, v4 \in BOOLEAN : Capture(o, v4)
    \/ PinServer \/ AddDefault \/ DelOriginal \/ apply_dns
    \/ RevertAdd \/ RevertDel \/ RevertPin \/ RevertDns \/ NetRenew

NetSpec == NetInit /\ [][NetNext]_netVars

-----------------------------------------------------------------------------
NetTypeOK ==
    /\ netG.pc \in {"off", "pin", "add", "del", "dns", "held", "rdel", "rpin", "rdns"}
    /\ resolv \in {"own", "absent", "isp", "cut"} /\ netLeft.faults \in 0..Faults
    /\ (netG.default_added => netG.captured # NoRow) /\ (netG.server_pin => netG.v4)

\* "there is never a window with no default route": at no system call of an apply or a revert, and
\* whichever of them fails.
NeverWithoutDefault ==
    scan_defaults(netHome, "none", FALSE) # {} => scan_defaults(netTable, "none", FALSE) # {}

\* A revert "undoes exactly that and no more": once nothing is held the routes are the operator's.
RevertRestores == netG.pc = "off" => netTable = netHome

\* And so is the resolver.
DnsRestored == netG.pc = "off" => resolv = netLeft.was

\* "packets to the server never loop back through zppp0": at no call, unless the pin itself failed.
ServerOffLink ==
    ~netLeft.unpinned => Lookup(netTable, Server).dev # Zppp
=============================================================================
