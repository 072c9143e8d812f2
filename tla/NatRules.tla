------------------------------ MODULE NatRules ------------------------------
(***************************************************************************)
(* The NAT of a tun server and of a peer-exit provider (netfilter.rs,      *)
(* server.rs, peerexit.rs): planning the rules, installing them with nft   *)
(* or else iptables, and taking them down.  One step is one command, any   *)
(* of which may fail, with the operator, Docker or a kill in between.      *)
(***************************************************************************)
EXTENDS Integers, Sequences, FiniteSets, SequencesExt

CONSTANTS
    Plans,          \* the plans a start may have
    Tools,          \* the backends a start may find: subsets of {"nft", "iptables"}
    Starts,         \* how often NAT is brought up
    Faults,         \* how many commands may fail
    Kills,          \* how many starts may end by a hard kill
    Edits,          \* how many changes the operator or Docker makes
    Busy,           \* whether they come in the middle of an install or a teardown
    Mentions,       \* whether a rule of the operator's may contain the word zeronat
    Abandons        \* whether an adapter may be dropped in the middle of its install

VARIABLES
    fwd,            \* net.ipv4.ip_forward
    nft,            \* the rules of table ip zeronat
    chain,          \* the chains shared with others
    docker,         \* whether Docker has made its DOCKER-USER chain
    p,              \* the adapters, one per start
    aux             \* budgets, the operator's rules, ip_forward before

vars == <<fwd, nft, chain, docker, p, aux>>

-----------------------------------------------------------------------------
(* The plan and its rules. *)

\* The ports that stay on the host.
kept_ports(plan) == {plan.control_port} \cup plan.except

\* DnatPlan and NatPlan: the interface to masquerade out of, or "none".
NatPlan(dnat, egress, control_port, except) ==
    [dnat |-> dnat, egress |-> egress, control_port |-> control_port, except |-> except]

\* A server forwards inbound, and with exit on masquerades out of the interface named or detected.
tun_nat_plan(exit, exit_iface, detected, control_port, except) ==
    IF ~exit THEN {NatPlan(TRUE, "none", control_port, except)}
    ELSE IF exit_iface # "none" THEN {NatPlan(TRUE, exit_iface, control_port, except)}
    ELSE IF detected # "none" THEN {NatPlan(TRUE, detected, control_port, except)} ELSE {}

\* A provider only masquerades, and never onto its own tun.
egress_iface(device, iface, detected) ==
    IF iface # "none" THEN {iface} \ {device} ELSE {detected} \ {"none"}
nat_plan(device, iface, detected) ==
    {NatPlan(FALSE, e, 0, {}) : e \in egress_iface(device, iface, detected)}

nft_script(plan) ==
    (IF plan.dnat THEN {"dnat_tcp", "dnat_udp", "dnat_icmp", "snat"} ELSE {})
      \cup (IF plan.egress # "none" THEN {"masquerade"} ELSE {}) \cup {"mss_out", "mss_in"}

\* rule: in its chain, appended or put on top.
rule(c, what, insert) == [chain |-> c, what |-> what, insert |-> insert]

iptables_rules(plan, docker_user) ==
    (IF plan.dnat THEN << rule("PREROUTING", "dnat_tcp", FALSE), rule("PREROUTING", "dnat_udp", FALSE),
                          rule("PREROUTING", "dnat_icmp", FALSE), rule("POSTROUTING", "snat", FALSE) >> ELSE <<>>)
      \o (IF plan.egress # "none" THEN << rule("POSTROUTING", "masquerade", FALSE) >> ELSE <<>>)
      \o << rule("MANGLE", "mss_out", FALSE), rule("MANGLE", "mss_in", FALSE),
            rule("FORWARD", "accept_out", FALSE), rule("FORWARD", "accept_in", FALSE) >>
      \o (IF docker_user THEN << rule("DOCKER-USER", "accept_out", TRUE), rule("DOCKER-USER", "accept_in", TRUE) >>
          ELSE <<>>)

IPT_CHAINS == << "PREROUTING", "POSTROUTING", "MANGLE", "FORWARD", "DOCKER-USER" >>

\* Which packets a translation rule takes.
Takes(what, plan, k) ==
    LET inbound == k.from # "tun" /\ k.dst # "tunnel"
    IN  CASE what = "dnat_tcp" -> inbound /\ k.proto = "tcp" /\ k.port \notin kept_ports(plan)
          [] what = "dnat_udp" -> inbound /\ k.proto = "udp" /\ k.port \notin kept_ports(plan)
          [] what = "dnat_icmp" -> inbound /\ k.proto = "icmp"
          [] OTHER -> FALSE

-----------------------------------------------------------------------------
(* Adapters and their commands. *)
Cmd(op, c, x) == [op |-> op, chain |-> c, arg |-> x]
Free == [st |-> "off", plan |-> NatPlan(FALSE, "none", 0, {}), tools |-> {}, backend |-> "none", restore |-> FALSE,
         todo |-> <<>>, orphan |-> FALSE]

Chains == {"PREROUTING", "POSTROUTING", "MANGLE", "FORWARD", "DOCKER-USER"}
Op(n, says) == [run |-> 0, what |-> IF says THEN "zeronat" ELSE "other", id |-> n]
Ours(i, what) == [run |-> i, what |-> what, id |-> 0]
Tagged(r) == r.run # 0 \/ r.what = "zeronat"

Init ==
    /\ fwd \in BOOLEAN /\ docker \in BOOLEAN /\ nft = {}
    /\ chain = [c \in Chains |-> IF c = "DOCKER-USER" THEN <<>> ELSE <<Op(0, FALSE)>>]
    /\ p = [i \in 1..Starts |-> Free]
    /\ aux = [faults |-> Faults, kills |-> Kills, edits |-> Edits, started |-> 0, was |-> fwd, kept |-> chain,
              killed |-> FALSE]

NftClear == << Cmd("nft_delete_table", "", 0), Cmd("nft_list_docker_user", "DOCKER-USER", 0) >>
FlushIptables == [k \in 1..Len(IPT_CHAINS) |-> Cmd("iptables_list", IPT_CHAINS[k], 0)]

install_nft == NftClear \o << Cmd("nft_apply", "", 0), Cmd("nft_docker_user_exists", "", 0) >>
install_iptables == << Cmd("iptables_chain_exists", "", 0) >> \o FlushIptables

\* install: forwarding on, then the first backend found.
Start(i, plan, tools) ==
    /\ i = aux.started + 1 /\ \A j \in 1..Starts : p[j].st = "off" \/ p[j].orphan
    /\ \E ok \in {TRUE} \cup (IF aux.faults > 0 THEN {FALSE} ELSE {}) :
         /\ fwd' = (ok \/ fwd)
         /\ aux' = [aux EXCEPT !.started = i, !.faults = IF ok THEN @ ELSE @ - 1,
                               !.was = IF i > 1 /\ aux.killed THEN @ ELSE fwd]
         /\ p' = [p EXCEPT ![i] = [Free EXCEPT
                    !.plan = plan, !.tools = tools, !.restore = ok /\ ~fwd,
                    !.st = IF tools = {} THEN "degraded" ELSE "install",
                    !.backend = IF "nft" \in tools THEN "nft" ELSE IF tools # {} THEN "iptables" ELSE "none",
                    !.todo = IF "nft" \in tools THEN install_nft
                             ELSE IF tools # {} THEN install_iptables ELSE <<>>]]
    /\ UNCHANGED <<nft, chain, docker>>

\* The adapter i with its next command done and more put in front of the rest.
Then(i, more) == [p EXCEPT ![i].todo = more \o Tail(@)]

\* A failed install falls back to the next backend, or leaves the rules to the operator.
Failed(i) ==
    p' = IF p[i].backend = "nft" /\ "iptables" \in p[i].tools
         THEN [p EXCEPT ![i].backend = "iptables", ![i].todo = install_iptables]
         ELSE [p EXCEPT ![i].st = "degraded", ![i].todo = <<>>]

Apply(i, r) ==
    LET x == Ours(i, r.what)
    IN  [chain EXCEPT ![r.chain] = IF r.insert THEN <<x>> \o @ ELSE Append(@, x)]

\* flush_iptables: the numbers of the tagged rules, high to low.
Numbers(c) == SetToSortSeq({n \in 1..Len(chain[c]) : Tagged(chain[c][n])}, LAMBDA a, b : a > b)

Next1(i, op) == p[i].todo # <<>> /\ Head(p[i].todo).op = op
Arg(i) == Head(p[i].todo).arg
At(i) == Head(p[i].todo).chain

nft_delete_table(i) ==
    Next1(i, "nft_delete_table") /\ nft' = {} /\ p' = Then(i, <<>>) /\ UNCHANGED <<fwd, chain, docker, aux>>

\* nft_delete_docker_user_rules: the handles of the tagged rules, then one deletion each.
nft_list_docker_user(i) ==
    /\ Next1(i, "nft_list_docker_user")
    /\ p' = Then(i, IF docker THEN LET ns == Numbers("DOCKER-USER") IN
                      [k \in 1..Len(ns) |-> Cmd("nft_delete_rule", "DOCKER-USER", chain["DOCKER-USER"][ns[k]])]
                    ELSE <<>>)
    /\ UNCHANGED <<fwd, nft, chain, docker, aux>>

nft_delete_rule(i) ==
    /\ Next1(i, "nft_delete_rule")
    /\ chain' = [chain EXCEPT ![At(i)] = SelectSeq(@, LAMBDA r : r # Arg(i))]
    /\ p' = Then(i, <<>>) /\ UNCHANGED <<fwd, nft, docker, aux>>

\* One transaction: all of the script or nothing.
nft_apply(i) ==
    /\ Next1(i, "nft_apply")
    /\ \/ nft' = {Ours(i, w) : w \in nft_script(p[i].plan)} /\ p' = Then(i, <<>>) /\ UNCHANGED aux
       \/ /\ aux.faults > 0 /\ aux' = [aux EXCEPT !.faults = @ - 1]
          /\ Failed(i) /\ UNCHANGED nft
    /\ UNCHANGED <<fwd, chain, docker>>

nft_docker_user_exists(i) ==
    /\ Next1(i, "nft_docker_user_exists")
    /\ p' = Then(i, IF docker THEN <<Cmd("nft_docker_user", "", 0)>> ELSE <<>>)
    /\ UNCHANGED <<fwd, nft, chain, docker, aux>>

\* nft_docker_user_script: both accepts on top, best effort.
nft_docker_user(i) ==
    /\ Next1(i, "nft_docker_user")
    /\ \/ /\ docker /\ UNCHANGED aux
          /\ chain' = [chain EXCEPT !["DOCKER-USER"] = <<Ours(i, "accept_in"), Ours(i, "accept_out")>> \o @]
       \/ /\ aux.faults > 0 /\ aux' = [aux EXCEPT !.faults = @ - 1] /\ UNCHANGED chain
    /\ p' = Then(i, <<>>) /\ UNCHANGED <<fwd, nft, docker>>

\* The rules are settled before the flush.
iptables_chain_exists(i) ==
    /\ Next1(i, "iptables_chain_exists")
    /\ p' = [p EXCEPT ![i].todo = LET rs == iptables_rules(p[i].plan, docker) IN
               Tail(@) \o [k \in 1..Len(rs) |-> Cmd("iptables_rule", rs[k].chain, rs[k])]]
    /\ UNCHANGED <<fwd, nft, chain, docker, aux>>

iptables_list(i) ==
    /\ Next1(i, "iptables_list")
    /\ p' = Then(i, IF At(i) = "DOCKER-USER" /\ ~docker THEN <<>>
                    ELSE LET ns == Numbers(At(i)) IN [k \in 1..Len(ns) |-> Cmd("iptables_delete", At(i), ns[k])])
    /\ UNCHANGED <<fwd, nft, chain, docker, aux>>

\* By number.
iptables_delete(i) ==
    /\ Next1(i, "iptables_delete")
    /\ chain' = [chain EXCEPT ![At(i)] = IF Arg(i) <= Len(@) THEN RemoveAt(@, Arg(i)) ELSE @]
    /\ p' = Then(i, <<>>) /\ UNCHANGED <<fwd, nft, docker, aux>>

\* One rule in, or the install fails.
iptables_rule(i) ==
    /\ Next1(i, "iptables_rule")
    /\ \/ /\ At(i) = "DOCKER-USER" => docker
          /\ chain' = Apply(i, Arg(i)) /\ p' = Then(i, <<>>) /\ UNCHANGED aux
       \/ /\ aux.faults > 0 /\ aux' = [aux EXCEPT !.faults = @ - 1]
          /\ Failed(i) /\ UNCHANGED chain
    /\ UNCHANGED <<fwd, nft, docker>>

restore_ip_forward(i) ==
    Next1(i, "restore") /\ fwd' = FALSE /\ p' = Then(i, <<>>) /\ UNCHANGED <<nft, chain, docker, aux>>

Run(i) ==
    \/ nft_delete_table(i) \/ nft_list_docker_user(i) \/ nft_delete_rule(i) \/ nft_apply(i)
    \/ nft_docker_user_exists(i) \/ nft_docker_user(i) \/ iptables_chain_exists(i) \/ iptables_list(i)
    \/ iptables_delete(i) \/ iptables_rule(i) \/ restore_ip_forward(i)

\* NatGuard's Drop.
Teardown(q) ==
    (IF q.backend = "nft" THEN NftClear ELSE FlushIptables)
      \o (IF q.restore THEN << Cmd("restore", "", 0) >> ELSE <<>>)

\* The last command is done: the guard is handed over, to nobody when the adapter is gone.
Done(i) ==
    /\ p[i].st \in {"install", "drop"} /\ p[i].todo = <<>>
    /\ p' = IF p[i].st = "drop" THEN [p EXCEPT ![i] = Free]
            ELSE IF p[i].orphan THEN [p EXCEPT ![i].st = "drop", ![i].todo = Teardown(p[i])]
            ELSE [p EXCEPT ![i].st = "up"]
    /\ UNCHANGED <<fwd, nft, chain, docker, aux>>

\* The server ends, or the pair; without a guard nothing is taken down.
Stop(i) ==
    /\ p[i].st \in {"up", "degraded"}
    /\ p' = IF p[i].st = "up" THEN [p EXCEPT ![i].st = "drop", ![i].todo = Teardown(p[i])]
            ELSE [p EXCEPT ![i] = Free]
    /\ aux' = [aux EXCEPT !.killed = @ \/ p[i].st = "degraded"]
    /\ UNCHANGED <<fwd, nft, chain, docker>>

\* The slot is dropped while its install runs off the runtime.
Abandon(i) ==
    /\ Abandons /\ p[i].st = "install" /\ ~p[i].orphan
    /\ p' = [p EXCEPT ![i].orphan = TRUE]
    /\ UNCHANGED <<fwd, nft, chain, docker, aux>>

Kill(i) ==
    /\ aux.kills > 0 /\ p[i].st # "off"
    /\ p' = [p EXCEPT ![i] = Free]
    /\ aux' = [aux EXCEPT !.kills = @ - 1, !.killed = TRUE]
    /\ UNCHANGED <<fwd, nft, chain, docker>>

\* The operator puts a rule on top of a chain; Docker comes, or restarts with a fresh chain.
Others ==
    /\ aux.edits > 0 /\ (Busy \/ \A i \in 1..Starts : p[i].st \in {"off", "up", "degraded"})
    /\ LET n == aux.edits IN
       \/ \E c \in {"PREROUTING", "DOCKER-USER"}, says \in {FALSE, Mentions} :
            /\ c = "DOCKER-USER" => docker
            /\ chain' = [chain EXCEPT ![c] = <<Op(n, says)>> \o @]
            /\ aux' = [aux EXCEPT !.edits = @ - 1, !.kept = [@ EXCEPT ![c] = <<Op(n, says)>> \o @]]
            /\ UNCHANGED docker
       \/ /\ docker' = TRUE
          /\ chain' = [chain EXCEPT !["DOCKER-USER"] = <<>>]
          /\ aux' = [aux EXCEPT !.edits = @ - 1, !.kept = [@ EXCEPT !["DOCKER-USER"] = <<>>]]
    /\ UNCHANGED <<fwd, nft, p>>

Over == aux.started = Starts /\ (\A i \in 1..Starts : p[i].st = "off") /\ UNCHANGED vars

Next ==
    \/ \E i \in 1..Starts :
         \/ \E plan \in Plans, tools \in Tools : Start(i, plan, tools)
         \/ Run(i) \/ Done(i) \/ Stop(i) \/ Abandon(i) \/ Kill(i)
    \/ Others \/ Over

Spec == Init /\ [][Next]_vars

-----------------------------------------------------------------------------
Everywhere == nft \cup UNION {ToSet(chain[c]) : c \in DOMAIN chain}

TypeOK ==
    /\ fwd \in BOOLEAN /\ docker \in BOOLEAN /\ aux.faults \in 0..Faults
    /\ \A i \in 1..Starts : /\ p[i].st \in {"off", "install", "up", "degraded", "drop"}
                            /\ p[i].st \in {"up", "off"} => p[i].todo = <<>>
                            /\ p[i].st # "off" => p[i].plan \in Plans

\* Installed means all of it: every rule of the plan is in place, once, whichever command failed on
\* the way. Docker may take its own chain away later.
InstalledIsWhole ==
    \A i \in 1..Starts : p[i].st = "up" =>
      IF p[i].backend = "nft" THEN nft = {Ours(i, w) : w \in nft_script(p[i].plan)}
      ELSE \A c \in DOMAIN chain \ {"DOCKER-USER"} :
             LET want == SelectSeq(iptables_rules(p[i].plan, FALSE), LAMBDA r : r.chain = c)
                 have == SelectSeq(chain[c], LAMBDA r : r.run = i)
             IN  [k \in 1..Len(want) |-> want[k].what] = [k \in 1..Len(have) |-> have[k].what]

\* "teardown never touches operator rules": every rule somebody else put into a shared chain is there,
\* in its order.
OperatorRulesKept ==
    \A c \in DOMAIN chain : SelectSeq(chain[c], LAMBDA r : r.run = 0) = aux.kept[c]

\* After starts that were installed and taken down none of their rules is left in any table or chain,
\* whichever backend they fell back to, and forwarding is as it was.
StopIsClean ==
    (\A i \in 1..Starts : p[i].st = "off") /\ ~aux.killed =>
      (\A r \in Everywhere : r.run = 0) /\ fwd = aux.was

\* The next start clears what a killed one left ("stale rules are cleared even if the config changed
\* meanwhile").
StaleCleared == \A i \in 1..Starts : p[i].st = "up" => \A r \in Everywhere : r.run \in {0, i}

\* The host keeps the control port and the excluded ports; everything else that comes in from outside
\* goes to the client, and nothing that comes out of the tunnel is sent back into it.
ForwardsAllButKept ==
    \A i \in 1..Starts : p[i].st = "up" /\ p[i].plan.dnat =>
      \A k \in [from : {"wan", "tun"}, dst : {"host", "tunnel"}, proto : {"tcp", "udp", "icmp", "gre"}, port : 1..3] :
        LET rules == IF p[i].backend = "nft" THEN {r.what : r \in nft}
                     ELSE {r.what : r \in ToSet(chain["PREROUTING"])}
        IN  (\E w \in rules : Takes(w, p[i].plan, k)) =
              /\ k.from = "wan" /\ k.dst = "host" /\ k.proto # "gre"
              /\ k.proto = "icmp" \/ k.port \notin {p[i].plan.control_port} \cup p[i].plan.except
=============================================================================
