---------------------------- MODULE ConfigFiles -----------------------------
(***************************************************************************)
(* Configuration files: a client's profiles and the records of the peers it*)
(* provides or consumes, as they are read, edited, saved and booted from;  *)
(* and the text codec below them: strings and lists as they are escaped and*)
(* read back, the table grammar of a file, and the server's own document   *)
(* rendered and parsed again.                                              *)
(***************************************************************************)
EXTENDS Naturals, Sequences, FiniteSets, SequencesExt

(***************************************************************************)
(* The client config file (src/src/clientcfg.rs): what close_record and    *)
(* parse_client make of its tables, what serialize_client writes back, and *)
(* what validate refuses. A table is the function from the keys it sets to *)
(* their values; the walk from lines to tables is ConfigTables. Secrets    *)
(* are opaque, except that a seed derives some of them.                    *)
(*                                                                         *)
(* A behaviour writes a file table by table; every file it passes through  *)
(* is looked at.                                                           *)
(***************************************************************************)
CONSTANTS
    Clients, FileEntries,    \* the [client] tables and the other tables a file may hold
    FileMaxEntries           \* bound: tables after [client]

FileAssumption == FileMaxEntries \in Nat

VARIABLE fileFile            \* the tables, [client] first

FileNone == "none"
NoKey == <<FileNone>>
Network(seed) == <<"network", seed>>
Discovery(seed) == <<"discovery", seed>>
Credential(seed, id) == <<"client", seed, id>>
DefaultTarget(port) == <<"127.0.0.1", port>>

FileTable(kind, keys) == [kind |-> kind, keys |-> keys]
FileHas(t, k) == k \in DOMAIN t.keys
Get(t, k, default) == IF FileHas(t, k) THEN t.keys[k] ELSE default
FileOf(f, kind) == SelectSeq(f, LAMBDA t : t.kind = kind)
FileMap(f, Op(_)) == [i \in 1..Len(f) |-> Op(f[i])]

-----------------------------------------------------------------------------
(* close_record: the rules of one table.                                   *)

FileCloses(t) ==
    CASE t.kind = "servers" ->
                /\ Get(t, "name", "") # "" /\ FileHas(t, "addr")
                /\ FileHas(t, "secret") \/ FileHas(t, "seed")
          [] t.kind = "forwards" ->
                /\ FileHas(t, "proto") /\ FileHas(t, "port")
                /\ ~(FileHas(t, "proxy") /\ t.keys.proto = "udp")
          [] t.kind = "pppoe" ->
                /\ Get(t, "name", "") # "" /\ FileHas(t, "username")
                /\ Get(t, "clamp_mss", TRUE) \/ Get(t, "default_route", FALSE)
          [] t.kind = "tap" -> Get(t, "dev", "") # ""
          [] t.kind = "tun" ->
                /\ Get(t, "exit_strict", FALSE) => Get(t, "exit", FALSE)
                /\ Get(t, "exit_via", FileNone) # ""
          [] t.kind = "peer" ->
                /\ Get(t, "segment", FileNone) # "" /\ Get(t, "exit_iface", FileNone) # ""
                /\ FileHas(t, "exit_iface") => Get(t, "exit", FALSE)
          [] OTHER -> TRUE

FileServer(t, id) ==
    [name |-> t.keys.name, addr |-> t.keys.addr, seed |-> Get(t, "seed", FileNone),
     secret |-> IF FileHas(t, "secret") THEN t.keys.secret ELSE Network(t.keys.seed),
     credential |-> IF FileHas(t, "credential") THEN t.keys.credential
                    ELSE IF FileHas(t, "seed") THEN Credential(t.keys.seed, id)
                    ELSE t.keys.secret,
     discovery |-> IF FileHas(t, "discovery") THEN t.keys.discovery
                   ELSE IF FileHas(t, "seed") THEN Discovery(t.keys.seed) ELSE NoKey,
     transport |-> Get(t, "transport", "auto")]

Forward(t) ==
    [proto |-> t.keys.proto, port |-> t.keys.port,
     target |-> Get(t, "target", DefaultTarget(t.keys.port)),
     proxy |-> Get(t, "proxy", FALSE), idle |-> Get(t, "idle", 0),
     enabled |-> Get(t, "enabled", TRUE)]

Pppoe(t) ==
    [name |-> t.keys.name, autostart |-> Get(t, "autostart", FALSE),
     username |-> t.keys.username, password |-> Get(t, "password", FileNone),
     service |-> Get(t, "service", ""), mtu |-> Get(t, "mtu", 1492),
     default_route |-> Get(t, "default_route", FALSE),
     clamp_mss |-> Get(t, "clamp_mss", TRUE), request_dns |-> Get(t, "request_dns", FALSE)]

Tap(t) == [dev |-> t.keys.dev]

Tun(t) ==
    [dev |-> Get(t, "dev", FileNone), address |-> Get(t, "address", FileNone),
     exit |-> Get(t, "exit", FALSE), exit_strict |-> Get(t, "exit_strict", FALSE),
     exit_via |-> Get(t, "exit_via", FileNone)]

FilePeer(t) ==
    [exit |-> Get(t, "exit", FALSE), exit_iface |-> Get(t, "exit_iface", FileNone),
     segment |-> Get(t, "segment", FileNone), allow |-> Get(t, "allow", <<>>)]

-----------------------------------------------------------------------------
(* parse_client: every table closes, and the credentials a seed derives are *)
(* filled in once [client].id is known, wherever it stands.                 *)

FileClientTable(f) ==
    IF FileOf(f, "client") = <<>> THEN FileTable("client", [k \in {} |-> FileNone])
    ELSE Head(FileOf(f, "client"))

Seeded(t) == FileHas(t, "seed") /\ ~FileHas(t, "credential")

FileParses(f) ==
    /\ \A t \in Range(f) : FileCloses(t)
    /\ FileHas(FileClientTable(f), "id") \/ \A t \in Range(FileOf(f, "servers")) : ~Seeded(t)

ParseClient(f) ==
    LET id == Get(FileClientTable(f), "id", FileNone) IN
    [id |-> id, active |-> Get(FileClientTable(f), "active", FileNone),
     peer_secret |-> Get(FileClientTable(f), "peer_secret", NoKey),
     servers |-> FileMap(FileOf(f, "servers"), LAMBDA t : FileServer(t, id)),
     forwards |-> FileMap(FileOf(f, "forwards"), Forward), pppoe |-> FileMap(FileOf(f, "pppoe"), Pppoe),
     tap |-> FileMap(FileOf(f, "tap"), Tap), tun |-> FileMap(FileOf(f, "tun"), Tun),
     peer |-> FileMap(FileOf(f, "peer"), FilePeer)]

-----------------------------------------------------------------------------
(* serialize_client: a key is left out when its value is the default, or    *)
(* what the seed derives.                                                   *)

Keep(r, keep) == [k \in keep |-> r[k]]
Unless(r, k, default) == IF r[k] = default THEN {} ELSE {k}

ClientKeys(c) ==
    Unless(c, "id", FileNone) \cup Unless(c, "peer_secret", NoKey) \cup Unless(c, "active", FileNone)

FileServerKeys(s, id) ==
    {"name", "addr"} \cup Unless(s, "seed", FileNone) \cup Unless(s, "transport", "auto")
    \cup Unless(s, "secret", Network(s.seed))
    \cup (IF s.seed # FileNone /\ id # FileNone /\ s.credential = Credential(s.seed, id)
          THEN {} ELSE {"credential"})
    \cup Unless(s, "discovery", IF s.seed = FileNone THEN NoKey ELSE Discovery(s.seed))

ForwardKeys(f) ==
    {"proto", "port", "target"} \cup Unless(f, "enabled", TRUE)
    \cup Unless(f, "proxy", FALSE) \cup Unless(f, "idle", 0)

PppoeKeys(p) ==
    {"name", "username"} \cup Unless(p, "autostart", FALSE) \cup Unless(p, "password", FileNone)
    \cup Unless(p, "service", "") \cup Unless(p, "mtu", 1492)
    \cup Unless(p, "default_route", FALSE) \cup Unless(p, "clamp_mss", TRUE)
    \cup Unless(p, "request_dns", FALSE)

TunKeys(t) ==
    Unless(t, "dev", FileNone) \cup Unless(t, "address", FileNone) \cup Unless(t, "exit", FALSE)
    \cup Unless(t, "exit_strict", FALSE) \cup Unless(t, "exit_via", FileNone)

PeerKeys(p) ==
    Unless(p, "exit", FALSE) \cup Unless(p, "exit_iface", FileNone)
    \cup Unless(p, "segment", FileNone) \cup Unless(p, "allow", <<>>)

SerializeClient(c) ==
    LET Tables(kind, Key(_)) == FileMap(c[kind], LAMBDA r : FileTable(kind, Keep(r, Key(r)))) IN
    (IF ClientKeys(c) = {} THEN <<>> ELSE <<FileTable("client", Keep(c, ClientKeys(c)))>>)
    \o Tables("servers", LAMBDA s : FileServerKeys(s, c.id))
    \o Tables("forwards", ForwardKeys) \o Tables("pppoe", PppoeKeys)
    \o Tables("tap", LAMBDA t : {"dev"}) \o Tables("tun", TunKeys) \o Tables("peer", PeerKeys)

-----------------------------------------------------------------------------
FileDistinct(seq, Key(_)) == \A i, j \in 1..Len(seq) : Key(seq[i]) = Key(seq[j]) => i = j
IsPeer(t) == t.exit_via # FileNone
Provides(p) == p.exit \/ p.segment # FileNone

SessionKeys(c) == UNION {{s.secret, s.credential} : s \in Range(c.servers)}

\* The secrets of validate: the peer secret is none of the session keys, and a
\* discovery credential, which a dht profile needs, none of the secrets at all.
KeysApart(c) ==
    \A s \in Range(c.servers) :
        /\ c.peer_secret = NoKey \/ c.peer_secret \notin {s.secret, s.credential}
        /\ s.discovery = NoKey => s.addr # "dht"
        /\ s.discovery # NoKey => s.discovery \notin SessionKeys(c) \cup {c.peer_secret}

Validate(c) ==
    /\ (\E t \in Range(c.tun) : IsPeer(t)) \/ (\E p \in Range(c.peer) : Provides(p))
           => c.peer_secret # NoKey
    /\ \A p \in Range(c.peer) : Provides(p) => p.allow # <<>>
    /\ KeysApart(c)
    /\ FileDistinct(c.servers, LAMBDA s : s.name)
    /\ c.active # FileNone => \E s \in Range(c.servers) : s.name = c.active
    /\ FileDistinct(c.forwards, LAMBDA f : <<f.proto, f.port>>)
    /\ FileDistinct(c.pppoe, LAMBDA p : p.name)
    /\ Len(SelectSeq(c.pppoe, LAMBDA p : p.autostart)) <= 1
    /\ \A t \in Range(c.tun) : IsPeer(t) => t.address = FileNone
    /\ LET server_tun == \E t \in Range(c.tun) : ~IsPeer(t) IN
       /\ ~(c.tap # <<>> /\ server_tun)
       /\ c.tap # <<>> \/ server_tun => c.forwards = <<>> /\ c.pppoe = <<>>

-----------------------------------------------------------------------------
Once == {"client", "tap", "tun", "peer"}

FileInit == \E t \in Clients : fileFile = <<t>>

FileWrite(t) ==
    /\ Len(fileFile) <= FileMaxEntries
    /\ t.kind \in Once => FileOf(fileFile, t.kind) = <<>>
    /\ fileFile' = Append(fileFile, t)

FileWritten == Len(fileFile) > FileMaxEntries /\ UNCHANGED fileFile

FileNext == (\E t \in FileEntries : FileWrite(t)) \/ FileWritten

FileSpec == FileInit /\ [][FileNext]_fileFile

-----------------------------------------------------------------------------
\* A save writes what was read: for every file the parser takes, the rewritten
\* file parses, and to the same config. The defaults left out are the defaults
\* filled in, and what a seed derives is derived again.
FileSavesWhatItRead ==
    FileParses(fileFile) =>
        LET c == ParseClient(fileFile) IN
        FileParses(SerializeClient(c)) /\ ParseClient(SerializeClient(c)) = c

Renamed(f, id) ==
    FileMap(f, LAMBDA t : IF t.kind = "client"
                          THEN FileTable("client", [k \in DOMAIN t.keys \cup {"id"} |->
                                               IF k = "id" THEN id ELSE t.keys[k]])
                          ELSE t)

\* "A later change to [client].id re-derives the credential instead of keeping a
\* stale copy": in the rewritten file, a credential the seed derived follows
\* the id, and one the operator chose does not.
CredentialFollowsTheId ==
    LET c == ParseClient(fileFile)
        d == ParseClient(Renamed(SerializeClient(c), "other")) IN
    FileParses(fileFile) /\ c.id # FileNone =>
        \A i \in 1..Len(c.servers) :
            d.servers[i].credential =
                IF c.servers[i].seed # FileNone
                   /\ c.servers[i].credential = Credential(c.servers[i].seed, c.id)
                THEN Credential(c.servers[i].seed, "other")
                ELSE c.servers[i].credential

\* "Whoever holds it may locate a server, nothing more": in a file that parses
\* and validates, no discovery credential of one profile opens another, derived
\* values included.
DiscoveryOnlyLocates ==
    LET c == ParseClient(fileFile) IN
    FileParses(fileFile) /\ Validate(c) =>
        \A s, r \in Range(c.servers) : s.discovery \notin {r.secret, r.credential}

-----------------------------------------------------------------------------
(***************************************************************************)
(* The records behind a client's peer slots. A client derives its slots    *)
(* from the [tun] and [peer] tables at boot (peer_slots, src/src/client.rs)*)
(* and the admin socket derives an attached slot from the record it is     *)
(* about to merge into the same tables (attach_peer and detach_peer,       *)
(* src/src/clientctl.rs), so what runs and what the next boot derives are  *)
(* two computations that have to agree after any sequence of edits.        *)
(*                                                                         *)
(* The admin lock serialises the edits and each one saves the tables, so   *)
(* the tables here are both the in-memory config and the file. The client  *)
(* has a peer_secret, without which every attach is refused.               *)
(***************************************************************************)
CONSTANTS
    RecordsPeer,         \* peer identities: well-formed 64-hex names
    Iface,        \* interface names an operator may write
    BodyDevices   \* what the boot session body claims

NoTun == [absent |-> TRUE]
Unset == "unset"

\* CfgPeer::default.
NoPeer == [exit |-> FALSE, exit_iface |-> Unset, segment |-> Unset, allow |-> {}]

VARIABLES
    tun,          \* cfg.tun
    peer,         \* cfg.peer, NoPeer when the table is absent
    slots         \* ActiveState.peers

recordsVars == <<tun, peer, slots>>

Consumer(p, device, exit, strict) ==
    [role |-> "consumer", peer |-> p, device |-> device, exit |-> exit,
     strict |-> strict]
Provider(role, iface, allow) == [role |-> role, iface |-> iface, allow |-> allow]

TypeOK ==
    /\ tun = NoTun \/ tun \in [dev : Iface \cup {Unset}, exit : BOOLEAN,
                               exit_strict : BOOLEAN, exit_via : RecordsPeer]
    /\ peer \in [exit : BOOLEAN, exit_iface : Iface \cup {Unset},
                 segment : Iface \cup {Unset}, allow : SUBSET RecordsPeer]
    /\ IsFiniteSet(slots)

-----------------------------------------------------------------------------
\* allow_identities refuses a provider no consumer may use.
AllowIdentities(p) == (p.exit \/ p.segment # Unset) => p.allow # {}

\* peer_slots refuses a provider that names its own device.
Derivable(p) ==
    /\ AllowIdentities(p)
    /\ p.exit_iface # "znx0"
    /\ p.segment # "zns0"

\* peer_slots of a [tun] and a [peer] record.
PeerSlots(t, p) ==
    (IF t = NoTun THEN {}
     ELSE {Consumer(t.exit_via, IF t.dev = Unset THEN "zn0" ELSE t.dev,
                    t.exit, t.exit_strict)})
    \cup (IF p.exit THEN {Provider("exit", p.exit_iface, p.allow)} ELSE {})
    \cup (IF p.segment # Unset
          THEN {Provider("segment", p.segment, p.allow)} ELSE {})

\* PeerSlotSpec::devices.
Devices(s) ==
    CASE s.role = "consumer" -> {s.device}
      [] s.role = "exit" -> {"znx0"}
      [] s.role = "segment" -> {"zns0", s.iface}

\* peer_claims: every device, and the default route of an exiting consumer.
Claims(s) ==
    Devices(s) \cup
        (IF s.role = "consumer" /\ s.exit THEN {"default route"} ELSE {})

\* SlotClaims::new of the slot set and admit against the session body.
Admitted(set) ==
    /\ \A s, t \in set : s # t => Claims(s) \cap Claims(t) = {}
    /\ \A s \in set : Claims(s) \cap BodyDevices = {}

\* What parse_client and validate require of the two tables.
FileAccepts(t, p) ==
    /\ t # NoTun => (t.exit_strict => t.exit)
    /\ p.exit_iface # Unset => p.exit
    /\ AllowIdentities(p)

-----------------------------------------------------------------------------
\* attach_fields: a role takes its own fields and no other.
AttachFields(p, want, dev, exit, strict, iface) ==
    IF p = "" THEN /\ dev = "" /\ ~exit /\ ~strict
                   /\ want = "segment" => iface # ""
    ELSE /\ iface = "" /\ want = "exit"
         /\ strict => exit

\* An empty field leaves its key out of the record.
RecordsWritten(value) == IF value = "" THEN Unset ELSE value

\* The record an attach is about to merge.
TunRecord(p, dev, exit, strict) ==
    [dev |-> RecordsWritten(dev), exit |-> exit, exit_strict |-> strict, exit_via |-> p]
PeerRecord(want, iface) ==
    [NoPeer EXCEPT !.allow = peer.allow,
                   !.exit = (want = "exit"),
                   !.exit_iface = IF want = "exit" THEN RecordsWritten(iface) ELSE Unset,
                   !.segment = IF want = "segment" THEN iface ELSE Unset]

\* The part of a provider's record that goes into the saved table.
Merge(record) ==
    [peer EXCEPT !.exit = @ \/ record.exit,
                 !.exit_iface = IF record.exit THEN record.exit_iface ELSE @,
                 !.segment = IF record.segment # Unset THEN record.segment ELSE @]

\* ActiveTarget::attach_peer: one slot per role, admitted against the rest.
Attaches(spec) ==
    /\ \A s \in slots : s.role # spec.role
    /\ Admitted(slots \cup {spec})
    /\ slots' = slots \cup {spec}

AttachConsumer(p, dev, exit, strict) ==
    /\ AttachFields(p, "exit", dev, exit, strict, "")
    /\ LET record == TunRecord(p, dev, exit, strict)
       IN  /\ \E spec \in PeerSlots(record, NoPeer) : Attaches(spec)
           /\ tun' = record
    /\ UNCHANGED peer

AttachProvider(want, iface) ==
    /\ AttachFields("", want, "", FALSE, FALSE, iface)
    /\ LET record == PeerRecord(want, iface)
       IN  /\ Derivable(record)
           /\ Cardinality(PeerSlots(NoTun, record)) = 1
           /\ \E spec \in PeerSlots(NoTun, record) : Attaches(spec)
           /\ peer' = Merge(record)
    /\ UNCHANGED tun

\* The keys a capability clears.
Clear(want) ==
    IF want = "exit" THEN [peer EXCEPT !.exit = FALSE, !.exit_iface = Unset]
    ELSE [peer EXCEPT !.segment = Unset]

\* detach_peer naming a provider, by its capability alone.
DetachProvider(want) ==
    /\ \E s \in slots : s.role = want
    /\ slots' = {s \in slots : s.role # want}
    /\ peer' = Clear(want)
    /\ UNCHANGED tun

\* detach_peer naming a consumer, by the peer it asks for.
DetachConsumer(p) ==
    /\ \E s \in slots : s.role = "consumer" /\ s.peer = p
    /\ slots' = {s \in slots : s.role # "consumer"}
    /\ tun' = NoTun
    /\ UNCHANGED peer

\* A boot from a hand-written file: parse, validate, peer_slots, init_slots.
RecordsInit ==
    /\ tun = NoTun \/ tun \in [dev : Iface \cup {Unset}, exit : BOOLEAN,
                               exit_strict : BOOLEAN, exit_via : RecordsPeer]
    /\ peer \in [exit : BOOLEAN, exit_iface : Iface \cup {Unset},
                 segment : Iface \cup {Unset}, allow : {{}, RecordsPeer}]
    /\ FileAccepts(tun, peer)
    /\ Derivable(peer)
    /\ slots = PeerSlots(tun, peer)
    /\ Admitted(slots)

RecordsNext ==
    \/ \E p \in RecordsPeer, dev \in Iface \cup {""}, exit, strict \in BOOLEAN :
           AttachConsumer(p, dev, exit, strict)
    \/ \E want \in {"exit", "segment"}, iface \in Iface \cup {""} :
           AttachProvider(want, iface)
    \/ \E want \in {"exit", "segment"} : DetachProvider(want)
    \/ \E p \in RecordsPeer : DetachConsumer(p)

RecordsSpec == RecordsInit /\ [][RecordsNext]_recordsVars

-----------------------------------------------------------------------------
\* However the slots came about, a restart derives exactly the slots that run:
\* "a persisted mutation parses back to the slot it attached" (peer_slots).
BootDerivesTheSlots == PeerSlots(tun, peer) = slots

\* The tables an edit leaves behind are ones the next boot accepts: parse_client
\* and validate take them, and init_slots admits what they declare.
SavedTablesBoot ==
    /\ FileAccepts(tun, peer)
    /\ Derivable(peer)
    /\ Admitted(PeerSlots(tun, peer))

-----------------------------------------------------------------------------
(***************************************************************************)
(* The scalar half of the config codec (src/src/config/codec.rs): quoting, *)
(* comment stripping, key = value splitting and the string lexer, as       *)
(* functions on sequences of characters. Characters that mean the same to  *)
(* the lexer are one: "x" is every plain character, "ctl" every one below  *)
(* 0x20.                                                                   *)
(*                                                                         *)
(* The state is a string an admin mutation may want saved, one character   *)
(* longer with every step, and a list entry saved before it.               *)
(***************************************************************************)
CONSTANT MaxLen    \* bound: the longest string looked at

TextAssumption == MaxLen \in Nat

VARIABLES textText, other

textVars == <<textText, other>>

Chars == {"x", "quote", "back", "hash", "eq", "comma", "close", "space", "ctl"}

\* The scanner's state before each character: outside a string, inside one, or
\* behind a backslash in one.
Scan(line) ==
    LET at[i \in 1..(Len(line) + 1)] ==
            IF i = 1 THEN "out"
            ELSE LET c == line[i - 1] IN
                 CASE at[i - 1] = "out" -> IF c = "quote" THEN "in" ELSE "out"
                   [] at[i - 1] = "esc" -> "in"
                   [] OTHER -> IF c = "back" THEN "esc"
                               ELSE IF c = "quote" THEN "out" ELSE "in"
    IN at

\* Where the first c outside every string stands, if anywhere.
Cut(line, c) ==
    LET at == Scan(line)
        out == {i \in 1..Len(line) : at[i] = "out" /\ line[i] = c}
    IN {i \in out : \A j \in out : i <= j}

strip_comment(line) ==
    IF Cut(line, "hash") = {} THEN line
    ELSE SubSeq(line, 1, (CHOOSE i \in Cut(line, "hash") : TRUE) - 1)

Spaces(line) == \A i \in 1..Len(line) : line[i] = "space"
TrimStart(line) ==
    IF Spaces(line) THEN <<>>
    ELSE SubSeq(line, CHOOSE i \in 1..Len(line) :
                          line[i] # "space" /\ \A j \in 1..(i - 1) : line[j] = "space",
                Len(line))

\* The value of a key = value line.
split_kv(line) ==
    TrimStart(SubSeq(line, (CHOOSE i \in Cut(line, "eq") : TRUE) + 1, Len(line)))

Failed == [ok |-> FALSE, str |-> <<>>, rest |-> <<>>]

\* One leading quoted string and what follows it: the characters up to the
\* quote that closes it, every backslash taken as the escape of what follows,
\* which must be a quote or a backslash; control characters are refused.
lex_string(value) ==
    LET at == Scan(value)
        ends == {i \in 2..Len(value) : value[i] = "quote" /\ at[i] = "in"}
        end == CHOOSE i \in ends : \A j \in ends : i <= j
        Kept(i) == ~(at[i] = "in" /\ value[i] = "back")
        str[i \in 1..end] ==
            IF i = 1 THEN <<>>
            ELSE IF Kept(i) /\ i < end THEN Append(str[i - 1], value[i]) ELSE str[i - 1]
    IN IF value = <<>> \/ value[1] # "quote" \/ ends = {}
          \/ \E i \in 2..(end - 1) :
                 \/ value[i] = "ctl"
                 \/ at[i] = "esc" /\ value[i] \notin {"quote", "back"}
       THEN Failed
       ELSE [ok |-> TRUE, str |-> str[end], rest |-> SubSeq(value, end + 1, Len(value))]

\* A string value alone on its line.
parse_string(value) ==
    LET r == lex_string(value) IN IF r.ok /\ Spaces(r.rest) THEN r ELSE Failed

\* The strings between two brackets, split at the commas between them.
parse_string_list(value) ==
    LET inner == SubSeq(value, 2, Len(value) - 1)
        first == lex_string(TrimStart(inner))
        rest == TrimStart(first.rest)
        second == lex_string(TrimStart(Tail(rest)))
    IN IF Len(value) < 2 \/ value[Len(value)] # "close" \/ ~first.ok THEN <<>>
       ELSE IF rest = <<>> THEN <<first.str>>
       ELSE IF Head(rest) # "comma" THEN <<>>
       ELSE IF ~second.ok \/ ~Spaces(second.rest) THEN <<>>
       ELSE <<first.str, second.str>>

-----------------------------------------------------------------------------

\* A double-quoted string with its quotes and backslashes escaped.
quote_into(s) ==
    LET Esc(c) == IF c \in {"quote", "back"} THEN <<"back", c>> ELSE <<c>>
        out[i \in 0..Len(s)] == IF i = 0 THEN <<"quote">> ELSE out[i - 1] \o Esc(s[i])
    IN Append(out[Len(s)], "quote")

kv_quoted(s) == <<"x", "space", "eq", "space">> \o quote_into(s)

\* [peer] allow = ["...", "..."]
AllowLine(s, t) ==
    <<"x", "space", "eq", "space", "open">> \o quote_into(s) \o <<"comma", "space">>
        \o quote_into(t) \o <<"close">>

\* A line read back as parse_tables reads it, up to the value.
Value(line) == split_kv(strip_comment(line))

TextInit == textText = <<>> /\ other = <<>>

Longer == /\ Len(textText) + Len(other) < MaxLen
          /\ \E c \in Chars : textText' = Append(textText, c)
          /\ UNCHANGED other

\* The string becomes the list entry before the next one.
NextEntry == /\ other = <<>> /\ Len(textText) \in 1..(MaxLen - 1)
             /\ other' = textText /\ textText' = <<>>

Full == Len(textText) + Len(other) = MaxLen /\ UNCHANGED textVars

TextNext == Longer \/ NextEntry \/ Full

TextSpec == TextInit /\ [][TextNext]_textVars

-----------------------------------------------------------------------------
Clean(s) == \A i \in 1..Len(s) : s[i] # "ctl"

\* "The config lexer rejects control characters in strings, so a value carrying
\* one could never be saved and read back": every other string is read back as
\* it was, whatever comment signs, equal signs, quotes or backslashes it holds,
\* and one with a control character is an error and never another string.
ReadsBack ==
    LET r == parse_string(Value(kv_quoted(textText))) IN
    IF Clean(textText) THEN r.ok /\ r.str = textText ELSE ~r.ok

\* A saved allow list reads back entry by entry, with commas and brackets in
\* the entries.
ListReadsBack ==
    Clean(textText \o other) => parse_string_list(Value(AllowLine(other, textText))) = <<other, textText>>

-----------------------------------------------------------------------------
(***************************************************************************)
(* The table walk both config grammars share (parse_tables, Record::set    *)
(* and the typed scalar parsers of src/src/config/codec.rs), one line at a *)
(* time. A line is a table header, a key with a value, or something that   *)
(* is neither; any file of up to MaxLines lines may come. What a line      *)
(* looks like in characters is ConfigText.                                 *)
(*                                                                         *)
(* The grammar stands for the shapes the two real ones have: a table that  *)
(* may appear once, an array of tables, keys of several kinds.             *)
(***************************************************************************)
CONSTANT MaxLines    \* bound: lines of a file, comments and blank lines left out

TablesAssumption == MaxLines \in Nat

VARIABLES
    tablesText,       \* the lines read so far
    section,    \* the open table, or none
    seen,       \* the single tables opened
    tablesRecord,     \* the open table's keys and values
    closed,     \* the tables closed, in order
    status      \* "reading", "ok" or "error"

tablesVars == <<tablesText, section, seen, tablesRecord, closed, status>>

TablesTables == {"server", "routes"}
Single == {"server"}
Keys == [server |-> {"id", "exit"}, routes |-> {"port", "proto"}]
Kind == [id |-> "str", exit |-> "bool", port |-> "int", proto |-> "proto"]
Required == [server |-> {}, routes |-> {"port"}]

\* What a value lexes to, as far as the kinds tell values apart: quoted strings,
\* integers within and beyond u16, booleans, and what is none of these.
Values == {"tcp", "text", "80", "70000", "true", "junk"}

\* parse_string, parse_int, parse_bool, parse_proto: a scalar of another type or
\* out of range is an error.
Accepts == [str |-> {"tcp", "text"}, bool |-> {"true"}, int |-> {"80"}, proto |-> {"tcp"}]

KeyLine == [key : {"id", "exit", "port", "proto", "other"}, value : Values]

TablesNone == "none"
Empty == [k \in {} |-> TablesNone]

TablesInit ==
    /\ tablesText = <<>> /\ section = TablesNone /\ seen = {} /\ tablesRecord = Empty
    /\ closed = <<>> /\ status = "reading"

\* The callback's verdict on a whole table: its required keys are there.
TablesCloses(t, r) == Required[t] \subseteq DOMAIN r

Reads(line) == status = "reading" /\ Len(tablesText) < MaxLines /\ tablesText' = Append(tablesText, line)

Fails == status' = "error" /\ UNCHANGED <<section, seen, tablesRecord, closed>>

\* A header closes the table before it and opens its own.
HeaderLine(t) ==
    /\ Reads([head |-> t])
    /\ IF \/ section # TablesNone /\ ~TablesCloses(section, tablesRecord)
          \/ t \notin TablesTables
          \/ t \in Single /\ t \in seen
       THEN Fails
       ELSE /\ closed' = IF section = TablesNone THEN closed
                         ELSE Append(closed, <<section, tablesRecord>>)
            /\ section' = t /\ tablesRecord' = Empty /\ seen' = seen \cup ({t} \cap Single)
            /\ UNCHANGED status

\* A key of the open table, not set before, with a value of its kind.
SetKey(k, v) ==
    /\ Reads([key |-> k, value |-> v])
    /\ IF \/ section = TablesNone \/ k \in DOMAIN tablesRecord
          \/ k \notin Keys[section] \/ v \notin Accepts[Kind[k]]
       THEN Fails
       ELSE /\ tablesRecord' = [x \in DOMAIN tablesRecord \cup {k} |-> IF x = k THEN v ELSE tablesRecord[x]]
            /\ UNCHANGED <<section, seen, closed, status>>

\* Neither a header nor a key = value.
JunkLine == Reads([junk |-> TRUE]) /\ Fails

\* The end of the file closes the open table.
EndOfFile ==
    /\ status = "reading"
    /\ IF section # TablesNone /\ ~TablesCloses(section, tablesRecord)
       THEN Fails /\ UNCHANGED tablesText
       ELSE /\ closed' = IF section = TablesNone THEN closed
                         ELSE Append(closed, <<section, tablesRecord>>)
            /\ status' = "ok"
            /\ UNCHANGED <<tablesText, section, seen, tablesRecord>>

Parsed == status # "reading" /\ UNCHANGED tablesVars

TablesNext ==
    \/ \E t \in TablesTables \cup {"unknown"} : HeaderLine(t)
    \/ \E l \in KeyLine : SetKey(l.key, l.value)
    \/ JunkLine \/ EndOfFile \/ Parsed

TablesSpec == TablesInit /\ [][TablesNext]_tablesVars

-----------------------------------------------------------------------------
\* The reference: what a file means, said of the whole file at once.
Heads == {i \in 1..Len(tablesText) : "head" \in DOMAIN tablesText[i]}
IsKey(i) == "key" \in DOMAIN tablesText[i]
TableOf(i) == {h \in Heads : h < i /\ \A g \in Heads : g < i => g <= h}
Body(h) == {i \in 1..Len(tablesText) : IsKey(i) /\ h \in TableOf(i)}

WellFormed ==
    /\ \A i \in 1..Len(tablesText) : i \in Heads \/ IsKey(i)
    /\ \A i \in 1..Len(tablesText) : IsKey(i) => TableOf(i) # {}
    /\ \A h \in Heads :
          /\ tablesText[h].head \in TablesTables
          /\ \A i \in Body(h) : /\ tablesText[i].key \in Keys[tablesText[h].head]
                                /\ tablesText[i].value \in Accepts[Kind[tablesText[i].key]]
                                /\ \A j \in Body(h) : tablesText[i].key = tablesText[j].key => i = j
          /\ Required[tablesText[h].head] \subseteq {tablesText[i].key : i \in Body(h)}
    /\ \A g, h \in Heads : tablesText[g].head = tablesText[h].head /\ tablesText[g].head \in Single => g = h

Meaning(h) ==
    <<tablesText[h].head,
      [k \in {tablesText[i].key : i \in Body(h)} |->
                tablesText[CHOOSE i \in Body(h) : tablesText[i].key = k].value]>>

\* The walk accepts exactly the well-formed files: a key before any header, a
\* second [server] table, a key given twice, an unknown key, a value of another
\* type and an incomplete last table are all caught, and nothing else is.
AcceptsTheGrammar == /\ status = "ok" => WellFormed
                     /\ status = "error" => ~WellFormed

\* And what it hands over is what the file says, table by table in order,
\* nothing carried from one table into the next.
HandsOverTheFile ==
    status = "ok" =>
        /\ Len(closed) = Len(SelectSeq(tablesText, LAMBDA l : "head" \in DOMAIN l))
        /\ \A h \in Heads :
              closed[Len(SelectSeq(SubSeq(tablesText, 1, h), LAMBDA l : "head" \in DOMAIN l))]
                  = Meaning(h)

-----------------------------------------------------------------------------
(***************************************************************************)
(* The server config file (src/src/config/mod.rs): what close_record makes *)
(* of its tables and refuses, and what serialize writes back. A table is   *)
(* the function from the keys it sets to their values; the walk from lines *)
(* to tables is ConfigTables. A behaviour writes a file table by table;    *)
(* every file it passes through is looked at.                              *)
(***************************************************************************)
CONSTANTS
    DocEntries,      \* the tables a file may hold
    DocMaxEntries    \* bound: tables of a file

ServerFileAssumption == DocMaxEntries \in Nat

VARIABLE docFile

DocNone == "none"
DocHas(t, k) == k \in DOMAIN t.keys
DocOf(f, kind) == SelectSeq(f, LAMBDA t : t.kind = kind)
DocMap(f, Op(_)) == [i \in 1..Len(f) |-> Op(f[i])]
DocTable(kind, keys) == [kind |-> kind, keys |-> keys]

DocServerKeys == {"id", "control", "seed", "admin_secret", "exit", "exit_iface"}
TargetKeys == {"bind_ip", "proto", "port"}

-----------------------------------------------------------------------------
\* target: every part of a listener's or route's key is required.
Target(t) == <<t.keys.bind_ip, t.keys.proto, t.keys.port>>

\* close_record: the required keys of each table.
DocCloses(t) ==
    CASE t.kind = "listeners" -> TargetKeys \subseteq DOMAIN t.keys
         [] t.kind = "routes" -> TargetKeys \cup {"client"} \subseteq DOMAIN t.keys
         [] t.kind = "clients" -> DocHas(t, "id") /\ t.keys.id # ""
         [] OTHER -> TRUE

\* A key is that of one listener and of one route at most; a listener and a route may share it.
DocDistinct(f) ==
    \A kind \in {"listeners", "routes"} :
           LET ts == DocOf(f, kind) IN \A i, j \in DOMAIN ts : Target(ts[i]) = Target(ts[j]) => i = j

DocParses(f) == (\A i \in DOMAIN f : DocCloses(f[i])) /\ DocDistinct(f)

Parse(f) ==
    LET Server == IF DocOf(f, "server") = <<>> THEN <<>> ELSE Head(DocOf(f, "server")).keys IN
    [server |-> [k \in DocServerKeys |-> IF k \in DOMAIN Server THEN Server[k] ELSE DocNone],
     listeners |-> DocMap(DocOf(f, "listeners"), Target),
     routes |-> DocMap(DocOf(f, "routes"), LAMBDA t : <<Target(t), t.keys.client>>),
     clients |-> DocMap(DocOf(f, "clients"), LAMBDA t : [id |-> t.keys.id,
                               secret |-> IF DocHas(t, "secret") THEN t.keys.secret ELSE DocNone])]

-----------------------------------------------------------------------------
proto_rank(p) == IF p = "tcp" THEN 0 ELSE 1

\* The order of keys: by address, protocol and port.
TargetLess(a, b) ==
    \/ a[1] < b[1]
    \/ a[1] = b[1] /\ proto_rank(a[2]) < proto_rank(b[2])
    \/ a[1] = b[1] /\ a[2] = b[2] /\ a[3] < b[3]

IdRank == [a |-> 1, b |-> 2]
put_target(t) == [bind_ip |-> t[1], proto |-> t[2], port |-> t[3]]

\* The keys of [server] that are set; no table when none is.
ServerTable(s) ==
    LET set == {k \in DocServerKeys : s[k] # DocNone}
    IN  IF set = {} THEN <<>> ELSE <<DocTable("server", [k \in set |-> s[k]])>>

DocClientTable(c) ==
    DocTable("clients", IF c.secret = DocNone THEN [id |-> c.id] ELSE [id |-> c.id, secret |-> c.secret])

\* The settings, then each list in its order (clients by id, the others by key).
Serialize(c) ==
    ServerTable(c.server)
    \o DocMap(SortSeq(c.clients, LAMBDA a, b : IdRank[a.id] < IdRank[b.id]), DocClientTable)
    \o DocMap(SortSeq(c.listeners, TargetLess), LAMBDA t : DocTable("listeners", put_target(t)))
    \o DocMap(SortSeq(c.routes, LAMBDA a, b : TargetLess(a[1], b[1])),
              LAMBDA r : DocTable("routes", put_target(r[1]) @@ [client |-> r[2]]))

-----------------------------------------------------------------------------
DocInit == docFile = <<>>

DocWrite(t) ==
    /\ Len(docFile) < DocMaxEntries
    /\ t.kind = "server" => DocOf(docFile, "server") = <<>>
    /\ docFile' = Append(docFile, t)

DocWritten == Len(docFile) = DocMaxEntries /\ UNCHANGED docFile

DocNext == (\E t \in DocEntries : DocWrite(t)) \/ DocWritten

DocSpec == DocInit /\ [][DocNext]_docFile

-----------------------------------------------------------------------------
Same(c, d) ==
    /\ c.server = d.server
    /\ \A kind \in {"listeners", "routes", "clients"} :
         /\ Len(c[kind]) = Len(d[kind])
         /\ \A i \in DOMAIN c[kind] : \E j \in DOMAIN d[kind] : c[kind][i] = d[kind][j]

\* A save writes what was read: the rewritten file of any file that parses parses too, and to the
\* same settings, listeners, routes and clients.
DocSavesWhatItRead ==
    DocParses(docFile) => LET c == Parse(docFile)
                              d == Parse(Serialize(c))
                          IN  DocParses(Serialize(c)) /\ Same(c, d) /\ Same(d, c)

\* The rendering is deterministic: whatever the order the tables of listeners and routes came in, a
\* save writes the same file ("deterministic, sorted, comment-free"), so saving again changes nothing.
RenderingIsCanonical ==
    DocParses(docFile) =>
        LET c == Parse(docFile)
            r == [c EXCEPT !.listeners = Reverse(@), !.routes = Reverse(@)]
        IN  Serialize(r) = Serialize(c) /\ Serialize(Parse(Serialize(c))) = Serialize(c)
=============================================================================
