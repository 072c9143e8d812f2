----------------------------- MODULE ClientBoot -----------------------------
(***************************************************************************)
(* How a client comes to its settings from the command line, the           *)
(* environment and its host (client_boot and boot_from_cli in              *)
(* src/src/main.rs, src/src/pppoe/cli.rs, src/src/identity.rs), start      *)
(* after start. A credential is <<label, name>>: entered ("raw") or        *)
(* derived from a seed under a label; <<>> is one not set. A config file   *)
(* that declares a shape takes over (module ClientFile).                   *)
(***************************************************************************)
EXTENDS Integers, Sequences, FiniteSets
LOCAL INSTANCE SequencesExt

CONSTANTS
    Inputs,       \* [args, env, file, machine] records the first start may find
    Hostnames,    \* what HOSTNAME may hold at a later start: <<>> unset, or a sequence of characters
    Starts        \* bound: starts

ClientBootAssumption == Starts \in Nat

VARIABLES
    in,      \* the command line, environment, config file and host of the client
    out,     \* what the last start made of them
    ids,     \* the ids the client has named itself by
    left     \* starts left
vars == <<in, out, ids, left>>

None == <<>>
Or(a, b) == IF a = None THEN b ELSE a
args == in.args
env == in.env
Failed == [ok |-> FALSE]

-----------------------------------------------------------------------------
(* The name of the host and the id made from it. *)

Lower(c) == CASE c = "A" -> "a" [] c = "B" -> "b" [] OTHER -> c
Plain == {"a", "b", "0", "_"}

Cut(s) ==
    LET dots == {i \in DOMAIN s : s[i] = "."} IN
    IF dots = {} THEN s ELSE SubSeq(s, 1, (CHOOSE i \in dots : \A j \in dots : i <= j) - 1)

\* HOSTNAME, /etc/hostname or "node": its first label, lowercased, every other character a "_".
short_hostname(h) ==
    LET raw == Cut(Or(Or(env.hostname, h.hostname), <<"n", "o", "d", "e">>))
        low == [i \in DOMAIN raw |-> IF Lower(raw[i]) \in Plain \cup {"n", "o", "d", "e"} THEN Lower(raw[i]) ELSE "_"]
    IN  Or(low, <<"n", "o", "d", "e">>)

\* The last four characters of the machine id, or a hash of the hostname where it is missing or short.
machine_suffix(h) == IF h.machine = "long" THEN <<"machine">> ELSE <<"hash", short_hostname(h)>>

derive_client_id(prefix, h) == <<Or(prefix, short_hostname(h)), machine_suffix(h)>>

resolve(id, h) == IF id.exact THEN id.name ELSE derive_client_id(id.name, h)

-----------------------------------------------------------------------------
(* Forward specs: [base, mods]; a part is <<"n", port>> or <<"h", host>>. *)

U16(p) == p[1] = "n" /\ p[2] \in 0..65535

\* One `+` modifier: +proxy once and on tcp, +idle once and at least a second.
Modify(f, m, proto) ==
    CASE ~f.ok -> f
      [] m = <<"proxy">> -> IF f.proxy \/ proto = "udp" THEN Failed ELSE [f EXCEPT !.proxy = TRUE]
      [] m[1] = "idle" -> IF f.idle # 0 \/ m[2] \notin 1..65535 THEN Failed ELSE [f EXCEPT !.idle = m[2]]
      [] OTHER -> Failed

\* PORT, PORT:LOCALPORT or PORT:HOST:PORT, then the modifiers.
parse_forward(spec, proto) ==
    LET b == spec.base
        n == Len(b)
    IN  IF n \notin 1..3 \/ ~U16(b[1]) \/ ~U16(b[n]) THEN Failed
        ELSE FoldLeft(LAMBDA f, m : Modify(f, m, proto),
                      [ok |-> TRUE, port |-> b[1][2], host |-> IF n = 3 THEN b[2] ELSE <<"h", "127.0.0.1">>,
                       local |-> b[n][2], proxy |-> FALSE, idle |-> 0], spec.mods)

-----------------------------------------------------------------------------
(* The PPPoE session. *)

\* A file wins over the environment, the environment over the flag, which shows in the process list.
resolve_password == Or(Or(args.passFile, env.pass), args.pass)
resolve_username == Or(args.user, env.user)

effective_mtu(pppoe, tap) ==
    LET room == IF tap >= 8 THEN tap - 8 ELSE 0 IN IF pppoe < room THEN pppoe ELSE room

\* What the tunnel carries less the 8 octets of PPPoE, at least 1280; the clamp leaves room for the TCP/IP headers.
pppoe_config ==
    IF resolve_username = None \/ resolve_password = None \/ args.pppoeMtu > 65535 \/ args.mtu > 65535 THEN Failed
    ELSE LET mtu == effective_mtu(args.pppoeMtu, args.mtu) IN
         IF mtu < 1280 THEN Failed
         ELSE [ok |-> TRUE, mtu |-> mtu, route |-> args.route, dns |-> args.dns,
               clamp |-> IF args.route /\ ~args.noClamp THEN (IF mtu - 40 > 536 THEN mtu - 40 ELSE 536) ELSE 0]

\* A [[pppoe]] entry of the file: over the default tunnel MTU of 1400, the password file first.
pppoe_from_entry(p) ==
    LET mtu == effective_mtu(p.mtu, 1400) IN
    IF Or(p.passFile, p.pass) = None \/ mtu < 1280 THEN Failed
    ELSE [ok |-> TRUE, mtu |-> mtu, route |-> p.route, dns |-> p.dns,
          clamp |-> IF p.route /\ p.clamp THEN (IF mtu - 40 > 536 THEN mtu - 40 ELSE 536) ELSE 0]

-----------------------------------------------------------------------------
(* Credentials. *)

Derive(label, seed) == IF seed = None THEN None ELSE <<label, seed[2]>>

\* An explicit credential and a prefixed id; one derived from the seed for an id, sent as it is; or the network secret.
Credential(prefix) ==
    LET seed == Or(args.seed, env.seed)
        own == Or(args.credential, env.credential)
    IN  CASE own # None -> [ok |-> TRUE, credential |-> own, id |-> [exact |-> FALSE, name |-> prefix]]
          [] own = None /\ seed # None ->
               IF prefix = None THEN Failed
               ELSE [ok |-> TRUE, credential |-> <<"client", seed[2], prefix>>, id |-> [exact |-> TRUE, name |-> prefix]]
          [] OTHER -> [ok |-> TRUE, credential |-> Or(args.secret, env.secret), id |-> [exact |-> FALSE, name |-> prefix]]

\* The flag, the environment, then what the seed derives.
Network == Or(Or(args.secret, env.secret), Derive("network", Or(args.seed, env.seed)))
DiscoverySecret == Or(Or(args.discovery, env.discovery), Derive("discovery", Or(args.seed, env.seed)))

\* Credentials missing, or the discovery secret used for another role.
CredentialsRefused(c) ==
    \/ args.server = None
    \/ Network = None
    \/ ~c.ok
    \/ args.server = <<"dht">> /\ DiscoverySecret = None
    \/ DiscoverySecret # None /\ DiscoverySecret \in {Network, c.credential}

\* --pppoe, --tun, --tap and the forwards exclude each other, one of them is asked for, and each option has its body.
ShapeRefused ==
    LET forwards == args.tcp # <<>> \/ args.udp # <<>> IN
    \/ args.tun /\ args.bridge
    \/ args.pppoe /\ (args.tap \/ args.tun \/ forwards)
    \/ ~args.pppoe /\ (args.route \/ args.noClamp \/ args.dns)
    \/ args.noClamp /\ ~args.route
    \/ args.tun /\ (args.tap \/ forwards)
    \/ args.exit /\ ~args.tun
    \/ args.strict /\ ~args.exit
    \/ args.tap /\ forwards
    \/ ~args.pppoe /\ ~args.tun /\ ~args.tap /\ ~forwards
    \/ args.proxy /\ args.tcp = <<>>

All(fs) == \A i \in DOMAIN fs : fs[i].ok

\* --proxy is put on every tcp forward.
TcpForwards ==
    [i \in DOMAIN args.tcp |->
        LET f == parse_forward(args.tcp[i], "tcp") IN IF f.ok THEN [f EXCEPT !.proxy = @ \/ args.proxy] ELSE f]

boot_from_cli(prefix) ==
    LET c == Credential(prefix)
        tcp == TcpForwards
        udp == [i \in DOMAIN args.udp |-> parse_forward(args.udp[i], "udp")]
        pppoe == IF args.pppoe THEN pppoe_config ELSE [ok |-> TRUE]
    IN  IF CredentialsRefused(c) \/ ShapeRefused \/ ~pppoe.ok \/ ~All(tcp) \/ ~All(udp)
             \/ args.transport \notin {None, <<"auto">>, <<"udp">>, <<"tcp">>}
        THEN Failed
        ELSE [ok |-> TRUE, from |-> "cli", server |-> args.server, secret |-> Network, credential |-> c.credential,
              discovery |-> DiscoverySecret, id |-> c.id, tcp |-> tcp, udp |-> udp, tap |-> args.tap, tun |-> args.tun,
              pppoe |-> pppoe, bodied |-> args.pppoe]

\* The id prefix merges, the file's first; a file that declares a shape decides everything else. Its PPPoE sessions are
\* all resolved before the client runs.
client_boot ==
    LET prefix == Or(in.file.id, args.id)
        entries == {pppoe_from_entry(p) : p \in in.file.pppoe}
    IN  IF ~in.file.shape THEN boot_from_cli(prefix)
        ELSE IF \E p \in entries : ~p.ok THEN Failed
        ELSE [ok |-> TRUE, from |-> "file", id |-> [exact |-> FALSE, name |-> prefix], pppoe |-> entries]

-----------------------------------------------------------------------------
Init ==
    /\ in \in Inputs
    /\ out = Failed
    /\ ids = {}
    /\ left = Starts

Start ==
    /\ left > 0
    /\ out' = client_boot
    /\ ids' = IF out'.ok THEN ids \cup {resolve(out'.id, in.host)} ELSE ids
    /\ left' = left - 1
    /\ UNCHANGED in

\* The supervisor starts the next one in another environment: another HOSTNAME.
Environment(h) ==
    /\ left > 0
    /\ left < Starts
    /\ in' = [in EXCEPT !.env.hostname = h]
    /\ UNCHANGED <<out, ids, left>>

Spent == left = 0 /\ UNCHANGED vars

Next == Start \/ (\E h \in Hostnames : Environment(h)) \/ Spent

Spec == Init /\ [][Next]_vars

-----------------------------------------------------------------------------
Cli == out.ok /\ out.from = "cli"

\* A client that starts from its command line runs exactly one of a PPPoE session, a TUN, a TAP or forwards.
OneBody ==
    Cli => Cardinality({b \in {"pppoe", "tun", "tap", "forwards"} :
                          CASE b = "pppoe" -> out.bodied [] b = "tun" -> out.tun [] b = "tap" -> out.tap
                            [] b = "forwards" -> out.tcp \o out.udp # <<>>}) = 1

\* A credential derived from a seed is presented under the very id it was derived for, which is what the server's
\* --client entry derives it from; any other credential goes with a host-suffixed id.
DerivedIdSent ==
    Cli /\ left < Starts =>
        IF out.credential[1] = "client" THEN out.id.exact /\ out.credential[3] = out.id.name ELSE ~out.id.exact

\* The credentials come from the most explicit source: flag, environment, seed; the discovery secret opens no other role.
ExplicitFirst ==
    Cli => /\ out.secret = IF args.secret # None THEN args.secret ELSE IF env.secret # None THEN env.secret
                           ELSE <<"network", (IF args.seed # None THEN args.seed ELSE env.seed)[2]>>
           /\ out.discovery # None => out.discovery \notin {out.secret, out.credential}
           /\ out.server = <<"dht">> => out.discovery # None

\* A forward is taken exactly when it has one to three parts with a port at each end and modifiers of the grammar, none
\* twice; --proxy reaches every tcp forward and no udp one.
Written(spec, proto) ==
    LET idles == {i \in DOMAIN spec.mods : spec.mods[i][1] = "idle"}
        proxies == {i \in DOMAIN spec.mods : spec.mods[i] = <<"proxy">>}
    IN  /\ Len(spec.base) \in 1..3 /\ U16(spec.base[1]) /\ U16(spec.base[Len(spec.base)])
        /\ idles \cup proxies = DOMAIN spec.mods
        /\ Cardinality(idles) <= 1 /\ Cardinality(proxies) <= (IF proto = "tcp" THEN 1 ELSE 0)
        /\ \A i \in idles : spec.mods[i][2] \in 1..65535

ForwardsAsWritten ==
    Cli => /\ \A i \in DOMAIN args.tcp : Written(args.tcp[i], "tcp")
           /\ \A i \in DOMAIN args.udp : Written(args.udp[i], "udp")
           /\ Len(out.tcp) = Len(args.tcp) /\ Len(out.udp) = Len(args.udp)
           /\ args.proxy => \A i \in DOMAIN out.tcp : out.tcp[i].proxy
           /\ \A i \in DOMAIN out.udp : ~out.udp[i].proxy

\* The PPPoE link fits the tunnel: its MTU with the PPPoE header is within the tunnel's, no less than 1280, and a clamped
\* TCP segment fits the link.
LinkFits ==
    out.ok =>
        \A p \in IF ~Cli THEN out.pppoe ELSE IF out.bodied THEN {out.pppoe} ELSE {} :
            /\ p.mtu + 8 <= (IF Cli THEN args.mtu ELSE 1400)
            /\ p.mtu >= 1280
            /\ p.clamp + 40 <= p.mtu

\* A machine with a machine id that is given an id prefix names itself by one id, whatever HOSTNAME is at each start.
NamedOnce == in.host.machine = "long" /\ Or(in.file.id, args.id) # None => Cardinality(ids) <= 1

\* The id is a plain label: nothing of a domain and no character the server's tables would not take.
PlainId == \A id \in ids : Len(id) = 2 /\ id[2][1] \in {"machine", "hash"} =>
               id[1] = Or(in.file.id, args.id) \/ \A i \in DOMAIN id[1] : id[1][i] \in Plain \cup {"n", "o", "d", "e"}
=============================================================================
