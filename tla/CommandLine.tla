---------------------------- MODULE CommandLine -----------------------------
(***************************************************************************)
(* The zeronat command line (src/src/main.rs). A subcommand's flags are    *)
(* two parallel lists, the names and how each is consumed; walk fills      *)
(* numbered slots, and the subcommand takes the slots apart by position.   *)
(* A behaviour types a command line word by word; every line it passes     *)
(* through is parsed and compared with what the help text documents.       *)
(***************************************************************************)
EXTENDS Integers, Sequences, FiniteSets, TLC

CONSTANTS
    Subs,        \* the subcommands typed
    Opening,     \* by subcommand: the words a line may start from
    First, Rest, \* by subcommand: the next word, the words after it
    MaxMore      \* bound: words typed after the opening

CommandLineAssumption == MaxMore \in Nat

VARIABLES sub, line, more, p
vars == <<sub, line, more, p>>

\* What a word reads as.
Num(w) == CASE w = "0" -> 0 [] w = "7" -> 7 [] w = "65535" -> 65535 [] w = "65536" -> 65536 [] OTHER -> -1
IsAddr(w) == w = "10.0.0.1"

-----------------------------------------------------------------------------
\* The two lists of each table, position by position (--help is -h).
ServerNames ==
    <<"-h", "--bind", "--config", "--server", "--announce-ip", "--announce-port", "--control",
      "--seed", "--secret", "--discovery", "--client", "--admin-secret", "--kcp-window", "--id",
      "--tcp", "--udp", "--tap", "--tap-mtu", "--bridge", "--tun", "--except", "--exit", "--exit-iface">>

ServerKinds ==
    <<<<"help", 0>>, <<"ipv4", 0>>, <<"str", 0>>, <<"dht", 0>>, <<"ipv4", 1>>, <<"u16", 0>>, <<"u16", 1>>,
      <<"str", 1>>, <<"str", 2>>, <<"str", 3>>, <<"client", 0>>, <<"str", 4>>, <<"str", 5>>, <<"str", 6>>,
      <<"port", 0>>, <<"port", 1>>, <<"str", 7>>, <<"size", 0>>, <<"str", 8>>, <<"switch", 0>>, <<"port", 2>>,
      <<"switch", 1>>, <<"str", 9>>>>

ClientNames ==
    <<"-h", "--tun", "--exit", "--exit-strict", "--server", "--seed", "--secret", "--credential", "--discovery",
      "--id", "--tcp", "--udp", "--proxy", "--kcp-window", "--transport", "--config", "--tap", "--tap-mtu",
      "--bridge", "--pppoe", "--pppoe-user", "--pppoe-pass", "--pppoe-pass-file", "--pppoe-service",
      "--pppoe-ac", "--pppoe-tun", "--pppoe-mtu", "--pppoe-default-route", "--pppoe-no-mss-clamp", "--pppoe-dns">>

ClientKinds ==
    <<<<"help", 0>>, <<"switch", 0>>, <<"switch", 1>>, <<"switch", 2>>, <<"str", 0>>, <<"str", 1>>, <<"str", 2>>,
      <<"str", 3>>, <<"str", 4>>, <<"str", 5>>, <<"list", 0>>, <<"list", 1>>, <<"switch", 3>>, <<"str", 6>>,
      <<"str", 7>>, <<"str", 8>>, <<"str", 9>>, <<"size", 0>>, <<"str", 10>>, <<"switch", 4>>, <<"str", 11>>,
      <<"str", 12>>, <<"str", 13>>, <<"str", 14>>, <<"str", 15>>, <<"str", 16>>, <<"size", 1>>, <<"switch", 5>>,
      <<"switch", 6>>, <<"switch", 7>>>>

Table(s) ==
    CASE s = "server" -> [names |-> ServerNames, kinds |-> ServerKinds]
      [] s = "client" -> [names |-> ClientNames, kinds |-> ClientKinds]
      [] s = "client admin" ->
            [names |-> <<"-h", "--socket", "--transport", "--dev", "--exit", "--exit-strict">>,
             kinds |-> <<<<"help", 0>>, <<"str", 0>>, <<"str", 1>>, <<"str", 2>>, <<"switch", 0>>, <<"switch", 1>>>>]
      [] s = "admin" ->
            [names |-> <<"-h", "--server", "--secret", "--bind", "--generate", "--derive">>,
             kinds |-> <<<<"help", 0>>, <<"str", 0>>, <<"str", 1>>, <<"str", 2>>, <<"switch", 0>>, <<"switch", 1>>>>]
      [] s = "derive-client" ->
            [names |-> <<"-h", "--seed", "--dht">>, kinds |-> <<<<"help", 0>>, <<"str", 0>>, <<"switch", 0>>>>]
      [] OTHER -> [names |-> <<"-h", "--check">>, kinds |-> <<<<"help", 0>>, <<"switch", 0>>>>]

\* A word that starts with a dash.
IsFlag(w) == w = "--bogus" \/ \E s \in Subs : \E i \in DOMAIN Table(s).names : Table(s).names[i] = w

\* How many bare words the subcommand takes: -1 for none at all.
Positional(s) ==
    CASE s \in {"admin", "client admin"} -> 99
      [] s = "derive-client" -> 1
      [] OTHER -> -1

lookup(names, w) == {i \in DOMAIN names : names[i] = w}

-----------------------------------------------------------------------------
\* A slot is <<group, index>>; walk leaves what each was last set to, or the list of a repeatable one.
Unparsed == [verdict |-> "ok", slots |-> <<>>, pos |-> <<>>, want |-> <<>>]

Put(q, slot, v) ==
    LET old == IF slot \in DOMAIN q.slots THEN q.slots[slot] ELSE <<>>
        new == IF slot[1] \in {"list", "port", "client"} THEN Append(old, v) ELSE <<v>>
    IN  [q EXCEPT !.slots = [k \in DOMAIN q.slots \cup {slot} |-> IF k = slot THEN new ELSE q.slots[k]],
                  !.want = <<>>]

Fail(q, why) == [q EXCEPT !.verdict = why]

\* parsed, parsed_ip: what a kind accepts as its value. A size is bounded by the machine word only.
Reads(kind, w) ==
    CASE kind \in {"u16", "port"} -> Num(w) \in 0..65535
      [] kind = "size" -> Num(w) >= 0
      [] kind = "ipv4" -> IsAddr(w)
      [] kind = "dht" -> w = "dht"
      [] kind = "client" -> w # ""
      [] OTHER -> TRUE

\* A word that is no flag of the table.
Bare(s, q, w) ==
    CASE Positional(s) < 0 \/ IsFlag(w) -> Fail(q, "unknown flag")
      [] Len(q.pos) >= Positional(s) -> Fail(q, "unexpected argument")
      [] OTHER -> [q EXCEPT !.pos = Append(@, w)]

\* walk, one word: the value a flag waits for, a bare word, or a flag of the table.
walk(s, q, w) ==
    LET at == lookup(Table(s).names, w) IN
    CASE q.verdict # "ok" -> q
      [] q.want # <<>> -> IF Reads(q.want[1], w) THEN Put(q, q.want, w) ELSE Fail(q, "bad value")
      [] at = {} -> Bare(s, q, w)
      [] OTHER -> LET kind == Table(s).kinds[CHOOSE i \in at : TRUE] IN
                  CASE kind[1] = "help" -> Fail(q, "usage")
                    [] kind[1] = "switch" -> Put(q, kind, "on")
                    [] OTHER -> [q EXCEPT !.want = kind]

RECURSIVE Walked(_, _, _)
Walked(s, q, l) == IF l = <<>> THEN q ELSE Walked(s, walk(s, q, Head(l)), Tail(l))

-----------------------------------------------------------------------------
\* How a subcommand names its slots, by position.
ServerFields ==
    [str |-> <<"--config", "--seed", "--secret", "--discovery", "--admin-secret", "--kcp-window", "--id", "--tap",
               "--bridge", "--exit-iface">>,
     u16 |-> <<"--announce-port", "--control">>, port |-> <<"--tcp", "--udp", "--except">>,
     ipv4 |-> <<"--bind", "--announce-ip">>, switch |-> <<"--tun", "--exit">>, size |-> <<"--tap-mtu">>,
     dht |-> <<"--server">>, client |-> <<"--client">>]

ClientFields ==
    [str |-> <<"--server", "--seed", "--secret", "--credential", "--discovery", "--id", "--kcp-window", "--transport",
               "--config", "--tap", "--bridge", "--pppoe-user", "--pppoe-pass", "--pppoe-pass-file",
               "--pppoe-service", "--pppoe-ac", "--pppoe-tun">>,
     list |-> <<"--tcp", "--udp">>, size |-> <<"--tap-mtu", "--pppoe-mtu">>,
     switch |-> <<"--tun", "--exit", "--exit-strict", "--proxy", "--pppoe", "--pppoe-default-route",
                  "--pppoe-no-mss-clamp", "--pppoe-dns">>]

Fields(s) ==
    CASE s = "server" -> ServerFields
      [] s = "client" -> ClientFields
      [] s = "client admin" ->
            [str |-> <<"--socket", "--transport", "--dev">>, switch |-> <<"--exit", "--exit-strict">>]
      [] s = "admin" -> [str |-> <<"--server", "--secret", "--bind">>, switch |-> <<"--generate", "--derive">>]
      [] s = "derive-client" -> [str |-> <<"--seed">>, switch |-> <<"--dht">>]
      [] OTHER -> [switch |-> <<"--check">>]

FieldOf(s, slot) == Fields(s)[slot[1]][slot[2] + 1]
Given(s, q) == {FieldOf(s, slot) : slot \in DOMAIN q.slots}
ValueOf(s, q, f) == q.slots[CHOOSE slot \in DOMAIN q.slots : FieldOf(s, slot) = f]

-----------------------------------------------------------------------------
\* The commands of client admin and admin; the arms of the match take them by position: least and most
\* bare words after the command.
ClientAdminCommands ==
    <<"show", "select-server", "add-server", "remove-server", "enable-forward", "disable-forward", "add-forward",
      "remove-forward", "connect", "disconnect", "spawn-pppoe", "stop-pppoe", "attach-peer", "attach-provider",
      "detach-peer", "detach-provider">>

ClientAdminArms ==
    <<<<0, 0>>, <<1, 1>>, <<2, 2>>, <<1, 1>>, <<1, 1>>, <<1, 1>>, <<1, 1>>, <<1, 1>>, <<0, 1>>, <<0, 0>>, <<1, 1>>,
      <<1, 1>>, <<1, 1>>, <<1, 2>>, <<1, 1>>, <<1, 1>>>>

AdminCommands ==
    <<"show", "add-listener", "remove-listener", "set-route", "clear-route", "add-client", "set-client-secret",
      "remove-client", "disconnect">>

AdminArms == <<<<0, 0>>, <<1, 1>>, <<1, 1>>, <<2, 2>>, <<1, 1>>, <<1, 1>>, <<1, 1>>, <<1, 1>>, <<1, 1>>>>

Fits(q, arm) == Len(q.pos) - 1 \in arm[1]..arm[2]
Command(q) == IF q.pos = <<>> THEN "" ELSE Head(q.pos)

\* --transport is one of the three modes; the other flags belong to one command each.
parse_client_admin(q) ==
    LET given == Given("client admin", q)
        at == lookup(ClientAdminCommands, Command(q)) IN
    /\ "--transport" \in given =>
         Command(q) = "add-server" /\ ValueOf("client admin", q, "--transport")[1] \in {"auto", "udp", "tcp"}
    /\ given \cap {"--dev", "--exit", "--exit-strict"} # {} => Command(q) = "attach-peer"
    /\ q.pos # <<>> => at # {} /\ \A i \in at : Fits(q, ClientAdminArms[i])

\* --bind goes with the listener and route commands, a credential source with the two that take one;
\* a listener is PROTO:PORT and the server is always named.
parse_admin(q) ==
    LET given == Given("admin", q)
        at == lookup(AdminCommands, Command(q)) IN
    /\ q.pos # <<>> => at # {} /\ \A i \in at : Fits(q, AdminArms[i])
    /\ "--bind" \in given => at # {} /\ at \subseteq 2..5 /\ IsAddr(ValueOf("admin", q, "--bind")[1])
    /\ given \cap {"--generate", "--derive"} # {} => at # {} /\ at \subseteq 6..7
    /\ ~({"--generate", "--derive"} \subseteq given)
    /\ at # {} /\ at \subseteq 2..5 => q.pos[2] = "tcp:443"
    /\ "--server" \in given

parse_derive_client(q) == Len(q.pos) = 1 /\ "--seed" \in Given("derive-client", q)
parse_server(q) == ~({"--tun", "--bridge"} \subseteq Given("server", q))

\* parse_args: the walk reached the end of the line and the subcommand takes what it found.
Parses ==
    /\ p.verdict = "ok"
    /\ p.want = <<>>
    /\ CASE sub = "server" -> parse_server(p)
         [] sub = "client admin" -> parse_client_admin(p)
         [] sub = "admin" -> parse_admin(p)
         [] sub = "derive-client" -> parse_derive_client(p)
         [] OTHER -> TRUE

-----------------------------------------------------------------------------
Init ==
    /\ sub \in Subs
    /\ line \in Opening[sub]
    /\ more = 0
    /\ p = Walked(sub, Unparsed, line)

Type(w) ==
    /\ more < MaxMore
    /\ p.verdict = "ok"
    /\ line' = Append(line, w)
    /\ more' = more + 1
    /\ p' = walk(sub, p, w)
    /\ UNCHANGED sub

\* Nothing is parsed past an error.
Entered == (more = MaxMore \/ p.verdict # "ok") /\ UNCHANGED vars

Next == (\E w \in IF more = 0 THEN First[sub] ELSE Rest[sub] : Type(w)) \/ Entered

Spec == Init /\ [][Next]_vars

-----------------------------------------------------------------------------
(* The help text: each subcommand's flags with the value they take, and the words of each command. *)
Documented(s) ==
    LET Flags(kind, fs) == [f \in fs |-> kind]
        Over(a, b) == [f \in DOMAIN a \cup DOMAIN b |-> IF f \in DOMAIN a THEN a[f] ELSE b[f]] IN
    CASE s = "server" ->
            Over(Over(Flags("ip", {"--bind", "--announce-ip"}),
                      Flags("port", {"--announce-port", "--control", "--tcp", "--udp", "--except"})),
            Over(Over(Flags("switch", {"--tun", "--exit"}), Flags("number", {"--tap-mtu"})),
            Over(Flags("dht", {"--server"}),
                 Flags("text", {"--config", "--seed", "--secret", "--discovery", "--client", "--admin-secret",
                                "--kcp-window", "--id", "--tap", "--bridge", "--exit-iface"}))))
      [] s = "client" ->
            Over(Flags("switch", {"--tun", "--exit", "--exit-strict", "--proxy", "--pppoe", "--pppoe-default-route",
                                  "--pppoe-no-mss-clamp", "--pppoe-dns"}),
            Over(Flags("number", {"--tap-mtu", "--pppoe-mtu"}),
                 Flags("text", {"--server", "--seed", "--secret", "--credential", "--discovery", "--id", "--tcp",
                                "--udp", "--kcp-window", "--transport", "--config", "--tap", "--bridge",
                                "--pppoe-user", "--pppoe-pass", "--pppoe-pass-file", "--pppoe-service",
                                "--pppoe-ac", "--pppoe-tun"})))
      [] s = "client admin" ->
            Over(Flags("switch", {"--exit", "--exit-strict"}), Flags("text", {"--socket", "--transport", "--dev"}))
      [] s = "admin" -> Over(Flags("switch", {"--generate", "--derive"}), Flags("text", {"--server", "--secret", "--bind"}))
      [] s = "derive-client" -> Over(Flags("switch", {"--dht"}), Flags("text", {"--seed"}))
      [] OTHER -> Flags("switch", {"--check"})

\* Read from the left, a word is the value of the flag before it when that flag takes one.
IsValue(s, l) ==
    LET value[i \in 0..Len(l)] ==
            /\ i > 1
            /\ ~value[i - 1]
            /\ l[i - 1] \in DOMAIN Documented(s)
            /\ Documented(s)[l[i - 1]] # "switch"
    IN  value

\* What a flag of the help text is given: every value after it, or that it is there.
Said(s, l, f) ==
    LET at == {i \in DOMAIN l : l[i] = f /\ ~IsValue(s, l)[i]}
    IN  IF Documented(s)[f] = "switch" THEN {"on" : i \in at} ELSE {l[i + 1] : i \in at}

Repeatable == [server |-> {"--tcp", "--udp", "--except", "--client"}, client |-> {"--tcp", "--udp"}]

\* Every flag sets the setting it is documented for and no other, whatever stands around it: the names, the kinds
\* and the slots of the tables agree position by position, a setting given twice keeps the last value and a
\* repeatable one all of them.
FlagsLand ==
    p.verdict = "ok" /\ p.want = <<>> =>
        \A f \in DOMAIN Documented(sub) :
            /\ f \in Given(sub, p) <=> Said(sub, line, f) # {}
            /\ f \in Given(sub, p) =>
                 LET v == ValueOf(sub, p, f)
                     last == CHOOSE i \in DOMAIN line :
                                /\ line[i] = f /\ ~IsValue(sub, line)[i]
                                /\ \A j \in DOMAIN line : line[j] = f /\ ~IsValue(sub, line)[j] => j <= i
                 IN  /\ Documented(sub)[f] # "switch" => v[Len(v)] = line[last + 1]
                     /\ sub \in DOMAIN Repeatable /\ f \in Repeatable[sub] =>
                          {v[i] : i \in DOMAIN v} = Said(sub, line, f)
                     /\ ~(sub \in DOMAIN Repeatable /\ f \in Repeatable[sub]) => Len(v) = 1

\* The words of each documented command after its name, and the flags that go with it.
Synopsis(s) ==
    IF s = "admin"
    THEN [w \in {"show"} |-> <<0..0, {}>>]
         @@ [w \in {"add-listener", "remove-listener", "clear-route"} |-> <<1..1, {"--bind"}>>]
         @@ [w \in {"set-route"} |-> <<2..2, {"--bind"}>>]
         @@ [w \in {"add-client", "set-client-secret"} |-> <<1..1, {"--generate", "--derive"}>>]
         @@ [w \in {"remove-client", "disconnect"} |-> <<1..1, {}>>]
    ELSE [w \in {"show", "disconnect"} |-> <<0..0, {}>>]
         @@ [w \in {"connect"} |-> <<0..1, {}>>]
         @@ [w \in {"add-server"} |-> <<2..2, {"--transport"}>>]
         @@ [w \in {"attach-peer"} |-> <<1..1, {"--dev", "--exit", "--exit-strict"}>>]
         @@ [w \in {"attach-provider"} |-> <<1..2, {}>>]
         @@ [w \in {"select-server", "remove-server", "enable-forward", "disable-forward", "add-forward",
                    "remove-forward", "spawn-pppoe", "stop-pppoe", "detach-peer", "detach-provider"} |-> <<1..1, {}>>]

Common == {"--server", "--secret", "--socket"}

InForm(s, q) ==
    /\ Head(q.pos) \in DOMAIN Synopsis(s)
    /\ Len(q.pos) - 1 \in Synopsis(s)[Head(q.pos)][1]
    /\ Given(s, q) \ Common \subseteq Synopsis(s)[Head(q.pos)][2]
    /\ Cardinality(Given(s, q) \cap {"--generate", "--derive"}) < 2
    /\ s = "admin" => "--server" \in Given(s, q)
    /\ "--bind" \in Given(s, q) => IsAddr(ValueOf(s, q, "--bind")[1])
    /\ "--transport" \in Given(s, q) => ValueOf(s, q, "--transport")[1] \in {"auto", "udp", "tcp"}
    /\ Head(q.pos) \in {"add-listener", "remove-listener", "set-route", "clear-route"} => q.pos[2] = "tcp:443"

\* An admin command is taken exactly in the form the help text gives it, with its own number of words and no flag of
\* another command: the positions the match arms go by are those of the list of names.
CommandsAsDocumented ==
    sub \in {"admin", "client admin"} /\ p.verdict = "ok" /\ p.want = <<>> /\ p.pos # <<>> =>
        (Parses <=> InForm(sub, p))
=============================================================================
