------------------------------ MODULE Consoles ------------------------------
(***************************************************************************)
(* Local control: the server's terminal console with what it shows of the  *)
(* running server, the client's console that shows and changes a running   *)
(* client, and the control socket on which it finds it.                    *)
(***************************************************************************)
EXTENDS Naturals, Sequences, FiniteSets
LOCAL INSTANCE SequencesExt

(***************************************************************************)
(* The interactive server console (tui/console.rs on the event loop of     *)
(* tui/common.rs) beside a second administrator who uses the one-shot      *)
(* `zeronat admin` commands (admin.rs), both talking to one server.        *)
(*                                                                         *)
(* One exchange is one TCP connection.  A mutation is applied by the       *)
(* server, saved, and answered; a snapshot is copied map by map, each      *)
(* under its own lock, and its lists arrive in hash order.  Either reply   *)
(* may be lost or time out.  The console handles one key at a time, does   *)
(* the exchange the key queued, and only then looks at the next event.     *)
(*                                                                         *)
(* A listener key (bind address, protocol, port) and a client id are       *)
(* naturals, which gives them the display order; typed text is a key or    *)
(* nothing usable; colours, widths and wording are left out.               *)
(***************************************************************************)
CONSTANTS
    Keys,       \* listener keys
    Clients,    \* client ids
    Locked,     \* listeners owned by the server's command line
    PanelPresses,    \* bound on the keys pressed at the console
    PanelEdits,      \* bound on the other administrator's commands and on clients coming and going
    PanelFaults      \* bound on failed saves and lost replies

VARIABLES
    srv,        \* the server: listeners, routes, connected clients, credentials
    panelApp,        \* the console
    past,       \* topologies the server has been in since the fetch under way began
    panelCli,        \* the other administrator: the credentials printed so far
    panelLeft        \* what is left of the three bounds

panelVars == <<srv, panelApp, past, panelCli, panelLeft>>

PanelNone == <<>>
PanelBlank == [routes |-> <<>>, listeners |-> <<>>, clients |-> <<>>]
NoToast == [kind |-> "none", n |-> 0, client |-> 0]
Routes == UNION {[ks -> Clients] : ks \in SUBSET Keys}
Topology(s) == [routes |-> s.routes, listeners |-> s.listeners, clients |-> s.clients]

(* The server's side of a mutation. *)

PanelRequest(op, k, c) == [op |-> op, key |-> k, client |-> c]

apply_mutation(s, q) ==
    LET refused == [ok |-> FALSE, srv |-> s]
        done(t) == [ok |-> TRUE, srv |-> t]
    IN  CASE q.op = "AddListener" ->
               IF q.key \in s.listeners THEN refused
               ELSE done([s EXCEPT !.listeners = @ \cup {q.key}])
          [] q.op = "RemoveListener" ->
               IF q.key \in Locked \/ q.key \notin s.listeners THEN refused
               ELSE done([s EXCEPT !.listeners = @ \ {q.key}])
          [] q.op = "SetRoute" ->
               done([s EXCEPT !.routes =
                   [k \in DOMAIN @ \cup {q.key} |-> IF k = q.key THEN q.client ELSE @[k]]])
          [] q.op = "ClearRoute" ->
               done([s EXCEPT !.routes = [k \in DOMAIN @ \ {q.key} |-> @[k]]])
          [] q.op = "AddClient" ->
               IF s.creds[q.client] # 0 THEN refused
               ELSE done([s EXCEPT !.creds[q.client] = q.key])
          [] q.op = "SetClientSecret" ->
               IF s.creds[q.client] = 0 THEN refused
               ELSE done([s EXCEPT !.creds[q.client] = q.key])

(* What the console's frame is made of. *)

routes == panelApp.snap.routes
listeners == panelApp.snap.listeners
clients == panelApp.snap.clients
panel_item_count == Len(routes) + Len(listeners) + Len(clients)
\* The entry under the caret, whatever list it is in.
Row(a) == LET all == [i \in DOMAIN a.snap.routes |-> <<"route", a.snap.routes[i][1]>>]
                     \o [i \in DOMAIN a.snap.listeners |-> <<"listener", a.snap.listeners[i]>>]
                     \o [i \in DOMAIN a.snap.clients |-> <<"client", a.snap.clients[i]>>]
          IN  IF a.sel < Len(all) THEN <<all[a.sel + 1]>> ELSE PanelNone

route_target(k) == {routes[i][2] : i \in {j \in DOMAIN routes : routes[j][1] = k}}

sort(s) ==
    [routes    |-> SortSeq(s.routes, LAMBDA x, y : x[1] < y[1]),
     listeners |-> SortSeq(s.listeners, <),
     clients   |-> SortSeq(s.clients, <)]

clamp_sel(sel, n) == IF n = 0 THEN 0 ELSE IF sel >= n THEN n - 1 ELSE sel

PanelInit ==
    /\ srv \in [listeners : {Locked, Keys}, routes : {<<>>}, clients : {Clients}, creds : {[c \in Clients |-> 0]}]
    /\ panelApp = [snap |-> PanelBlank, sel |-> 0, overlay |-> PanelNone, reqs |-> <<>>, total |-> 0, client |-> 0,
                   applied |-> 0, toast |-> NoToast, status |-> "connecting", phase |-> "fetch", part |-> PanelNone]
    /\ past = {Topology(srv)}
    /\ panelCli = [printed |-> {}, next |-> 1]
    /\ panelLeft = [presses |-> PanelPresses, edits |-> PanelEdits, faults |-> PanelFaults]

(* Keys.  Each operator is the console after the key; it starts an exchange by leaving "wait". *)

panelQueue(a, q) == [a EXCEPT !.overlay = PanelNone, !.reqs = <<q>>, !.total = 1, !.client = 0,
                              !.applied = 0, !.phase = "send"]
panelClose(a) == [a EXCEPT !.overlay = PanelNone]
Toasted(a, kind, n, c) == [a EXCEPT !.toast = [kind |-> kind, n |-> n, client |-> c]]

PanelEnterRow ==
    LET nr == Len(routes)
        start == nr + Len(listeners)
    IN  IF panelApp.sel >= start
        THEN IF panelApp.sel - start < Len(clients)
             THEN [panelApp EXCEPT !.overlay = <<"menu", clients[panelApp.sel - start + 1], 0>>]
             ELSE panelApp
        ELSE LET key == IF panelApp.sel < nr THEN routes[panelApp.sel + 1][1] ELSE listeners[panelApp.sel - nr + 1]
                 at == {i \in DOMAIN clients : clients[i] \in route_target(key)}
             IN  [panelApp EXCEPT !.overlay =
                    <<"picker", key, IF at = {} THEN 0 ELSE (CHOOSE i \in at : TRUE) - 1, clients>>]

panel_on_key_normal(k) ==
    LET nr == Len(routes)
    IN  CASE k = "up" -> [panelApp EXCEPT !.sel = IF @ = 0 THEN 0 ELSE @ - 1]
          [] k = "down" -> [panelApp EXCEPT !.sel = IF @ + 1 < panel_item_count THEN @ + 1 ELSE @]
          [] k = "r" -> [panelApp EXCEPT !.phase = "fetch"]
          [] k = "a" -> [panelApp EXCEPT !.overlay = <<"form", PanelNone>>]
          [] k = "enter" -> PanelEnterRow
          [] k = "c" -> IF panelApp.sel < nr THEN panelQueue(panelApp, PanelRequest("ClearRoute", routes[panelApp.sel + 1][1], 0))
                        ELSE panelApp
          [] k = "d" -> IF panelApp.sel >= nr /\ panelApp.sel - nr < Len(listeners)
                        THEN [panelApp EXCEPT !.overlay = <<"confirm", listeners[panelApp.sel - nr + 1]>>]
                        ELSE panelApp
          [] OTHER -> panelApp

\* The row-dependent keys the bottom line offers while no panel is open.
panel_hint_line ==
    (IF panel_item_count > 0 THEN {"enter"} ELSE {})
    \cup (IF panelApp.sel < Len(routes) THEN {"c"} ELSE {})
    \cup (IF panelApp.sel >= Len(routes) /\ panelApp.sel < Len(routes) + Len(listeners) THEN {"d"} ELSE {})

forward_all_listeners(c) ==
    LET todo == SelectSeq(listeners, LAMBDA l : route_target(l) # {c})
    IN  IF listeners = <<>> THEN Toasted(panelClose(panelApp), "nothing", 0, c)
        ELSE IF todo = <<>> THEN Toasted(panelClose(panelApp), "already", 0, c)
        ELSE [panelApp EXCEPT !.overlay = PanelNone, !.phase = "send", !.total = Len(todo), !.client = c, !.applied = 0,
                              !.reqs = [i \in DOMAIN todo |-> PanelRequest("SetRoute", todo[i], c)]]

on_key_client_menu(k) ==
    CASE k = "esc" -> panelClose(panelApp)
      [] k = "up" -> [panelApp EXCEPT !.overlay[3] = 0]
      [] k = "down" -> [panelApp EXCEPT !.overlay[3] = 1]
      [] k = "enter" -> IF panelApp.overlay[3] = 0 THEN forward_all_listeners(panelApp.overlay[2]) ELSE panelClose(panelApp)
      [] OTHER -> panelApp

panel_on_key_picker(k) ==
    LET sel == panelApp.overlay[3]
        ids == panelApp.overlay[4]
    IN  CASE k = "esc" -> panelClose(panelApp)
          [] k = "up" -> [panelApp EXCEPT !.overlay[3] = IF @ = 0 THEN 0 ELSE @ - 1]
          [] k = "down" -> [panelApp EXCEPT !.overlay[3] = IF @ < Len(ids) THEN @ + 1 ELSE @]
          [] k = "enter" -> panelQueue(panelApp, IF sel < Len(ids) THEN PanelRequest("SetRoute", panelApp.overlay[2], ids[sel + 1])
                                                 ELSE PanelRequest("ClearRoute", panelApp.overlay[2], 0))
          [] OTHER -> panelApp

panel_on_key_form(k) ==
    CASE k = "esc" -> panelClose(panelApp)
      [] k = "enter" -> IF panelApp.overlay[2] = PanelNone THEN Toasted(panelApp, "invalid", 0, 0)
                        ELSE panelQueue(panelApp, PanelRequest("AddListener", panelApp.overlay[2][1], 0))
      [] OTHER -> panelApp

panel_on_key_confirm(k) ==
    CASE k = "enter" -> panelQueue(panelApp, PanelRequest("RemoveListener", panelApp.overlay[2], 0))
      [] k = "esc" -> panelClose(panelApp)
      [] OTHER -> panelApp

on_key(k) ==
    IF panelApp.overlay = PanelNone THEN panel_on_key_normal(k)
    ELSE CASE panelApp.overlay[1] = "picker"  -> panel_on_key_picker(k)
                [] panelApp.overlay[1] = "menu"    -> on_key_client_menu(k)
                [] panelApp.overlay[1] = "form"    -> panel_on_key_form(k)
                [] panelApp.overlay[1] = "confirm" -> panel_on_key_confirm(k)

PanelKeyNames == {"up", "down", "r", "a", "enter", "c", "d", "esc"}

\* A fetch begins: from here on the server's topologies are recorded.
Started(a) == past' = IF a.phase = "fetch" THEN {Topology(srv)} ELSE past

PanelPress ==
    /\ panelApp.phase = "wait" /\ panelLeft.presses > 0
    /\ \E k \in PanelKeyNames : panelApp' = on_key(k) /\ panelApp' # panelApp
    /\ Started(panelApp')
    /\ panelLeft' = [panelLeft EXCEPT !.presses = @ - 1]
    /\ UNCHANGED <<srv, panelCli>>

\* The form's fields are filled in with a listener key.
Type ==
    /\ panelApp.phase = "wait" /\ panelLeft.presses > 0
    /\ panelApp.overlay # PanelNone
    /\ panelApp.overlay[1] = "form"
    /\ \E k \in Keys : panelApp' = [panelApp EXCEPT !.overlay[2] = <<k>>]
    /\ panelLeft' = [panelLeft EXCEPT !.presses = @ - 1]
    /\ UNCHANGED <<srv, past, panelCli>>

PanelTick ==
    /\ panelApp.phase = "wait" /\ panelApp.overlay = PanelNone
    /\ panelApp' = [panelApp EXCEPT !.phase = "fetch"]
    /\ Started(panelApp')
    /\ UNCHANGED <<srv, panelCli, panelLeft>>

(* Mutations. *)

\* Requests of the batch answered so far.
Sent == panelApp.total - Len(panelApp.reqs)

Refused(a) ==
    [Toasted(a, IF a.client # 0 THEN "reported" ELSE "refused", Sent + 1, a.client)
     EXCEPT !.reqs = <<>>, !.phase = "fetch"]

Failed(a) ==
    [Toasted(a, "failed", Sent, a.client) EXCEPT !.reqs = <<>>, !.phase = "fetch"]

Accepted(a) ==
    LET rest == [a EXCEPT !.reqs = Tail(@)]
    IN  IF rest.reqs # <<>> THEN rest
        ELSE [Toasted(rest, IF a.client # 0 THEN "forwarded" ELSE "ok", a.total, a.client)
              EXCEPT !.phase = "fetch"]

\* The server executed the request at hand.
Counted(a) == [a EXCEPT !.applied = @ + 1]

\* The topologies seen by the fetch under way, the server having become s.
Seen(s) == IF panelApp.phase = "wait" THEN past ELSE past \cup {Topology(s)}

PanelSend ==
    LET r == apply_mutation(srv, Head(panelApp.reqs))
    IN  /\ panelApp.phase = "send"
        /\ srv' = r.srv
        /\ panelApp' = IF r.ok THEN Accepted(Counted(panelApp)) ELSE Refused(panelApp)
        /\ past' = {Topology(srv')}
        /\ UNCHANGED <<panelCli, panelLeft>>

\* Applied in memory, but the config file could not be written.
PanelSendUnsaved ==
    LET r == apply_mutation(srv, Head(panelApp.reqs))
    IN  /\ panelApp.phase = "send" /\ panelLeft.faults > 0
        /\ r.ok
        /\ srv' = r.srv
        /\ panelApp' = Refused(Counted(panelApp))
        /\ past' = {Topology(srv')}
        /\ panelLeft' = [panelLeft EXCEPT !.faults = @ - 1]
        /\ UNCHANGED panelCli

\* The exchange fails or times out, the server having executed the request or not.
PanelSendLost ==
    LET r == apply_mutation(srv, Head(panelApp.reqs))
    IN  /\ panelApp.phase = "send" /\ panelLeft.faults > 0
        /\ \/ UNCHANGED srv /\ panelApp' = Failed(panelApp)
           \/ srv' = r.srv /\ panelApp' = Failed(IF r.ok THEN Counted(panelApp) ELSE panelApp)
        /\ past' = {Topology(srv')}
        /\ panelLeft' = [panelLeft EXCEPT !.faults = @ - 1]
        /\ UNCHANGED panelCli

(* The snapshot: one lock after another. *)

SnapClients ==
    /\ panelApp.phase = "fetch"
    /\ panelApp' = [panelApp EXCEPT !.phase = "listeners", !.part = [clients |-> srv.clients]]
    /\ UNCHANGED <<srv, past, panelCli, panelLeft>>

SnapListeners ==
    /\ panelApp.phase = "listeners"
    /\ panelApp' = [panelApp EXCEPT !.phase = "routes",
                                    !.part = [clients |-> panelApp.part.clients, listeners |-> srv.listeners]]
    /\ UNCHANGED <<srv, past, panelCli, panelLeft>>

SnapRoutes ==
    /\ panelApp.phase = "routes"
    /\ panelApp' = [panelApp EXCEPT !.phase = "reply", !.part =
                            [clients |-> panelApp.part.clients, listeners |-> panelApp.part.listeners, routes |-> srv.routes]]
    /\ UNCHANGED <<srv, past, panelCli, panelLeft>>

panelFetch(snap) ==
    [panelApp EXCEPT !.snap = snap, !.status = "connected", !.phase = "wait", !.part = PanelNone,
                     !.sel = clamp_sel(@, Len(snap.routes) + Len(snap.listeners) + Len(snap.clients))]

\* The lists arrive in the order the server's hash maps yield.
Land ==
    /\ panelApp.phase = "reply"
    /\ \E r \in SetToSeqs({<<k, panelApp.part.routes[k]>> : k \in DOMAIN panelApp.part.routes}),
          l \in SetToSeqs(panelApp.part.listeners),
          c \in SetToSeqs(panelApp.part.clients) :
          panelApp' = panelFetch(sort([routes |-> r, listeners |-> l, clients |-> c]))
    /\ past' = {}
    /\ UNCHANGED <<srv, panelCli, panelLeft>>

PanelFetchFails ==
    /\ panelApp.phase \in {"fetch", "reply"} /\ panelLeft.faults > 0
    /\ panelApp' = [panelApp EXCEPT !.status = "error", !.phase = "wait", !.part = PanelNone]
    /\ past' = {}
    /\ panelLeft' = [panelLeft EXCEPT !.faults = @ - 1]
    /\ UNCHANGED <<srv, panelCli>>

(* The other administrator, and the clients. *)

PanelSpend == panelLeft' = [panelLeft EXCEPT !.edits = @ - 1]

\* A one-shot command on a listener or a route.
panel_send_command ==
    /\ panelLeft.edits > 0
    /\ \E op \in {"AddListener", "RemoveListener", "SetRoute", "ClearRoute"}, k \in Keys, c \in Clients :
          srv' = apply_mutation(srv, PanelRequest(op, k, c)).srv
    /\ srv' # srv
    /\ past' = Seen(srv')
    /\ PanelSpend
    /\ UNCHANGED <<panelApp, panelCli>>

\* `add-client --generate` or `set-client-secret --generate`: printed only on an accepting reply.
set_client ==
    /\ panelLeft.edits > 0
    /\ \E op \in {"AddClient", "SetClientSecret"}, c \in Clients :
          LET r == apply_mutation(srv, PanelRequest(op, panelCli.next, c))
          IN  /\ r.ok
              /\ srv' = r.srv
              /\ \/ panelCli' = [printed |-> panelCli.printed \cup {panelCli.next}, next |-> panelCli.next + 1] /\ PanelSpend
                 \/ /\ panelLeft.faults > 0
                    /\ panelCli' = [panelCli EXCEPT !.next = @ + 1]
                    /\ panelLeft' = [panelLeft EXCEPT !.edits = @ - 1, !.faults = @ - 1]
    /\ UNCHANGED <<panelApp, past>>

ClientComesOrGoes ==
    /\ panelLeft.edits > 0
    /\ \E c \in Clients :
          srv' = [srv EXCEPT !.clients = IF c \in @ THEN @ \ {c} ELSE @ \cup {c}]
    /\ past' = Seen(srv')
    /\ PanelSpend
    /\ UNCHANGED <<panelApp, panelCli>>

\* The operator leaves a panel open.
PanelLeft == panelApp.overlay # PanelNone /\ panelLeft.presses = 0 /\ UNCHANGED panelVars

PanelNext ==
    \/ PanelPress \/ Type \/ PanelTick
    \/ PanelSend \/ PanelSendUnsaved \/ PanelSendLost
    \/ SnapClients \/ SnapListeners \/ SnapRoutes \/ Land \/ PanelFetchFails
    \/ panel_send_command \/ set_client \/ ClientComesOrGoes \/ PanelLeft

\* The console's own task runs: an exchange under way goes on, and the interval ticks.
PanelDue(i) ==
    \/ i = 1 /\ PanelTick
    \/ i = 2 /\ (PanelSend \/ SnapClients \/ SnapListeners \/ SnapRoutes \/ Land)

PanelSpec == PanelInit /\ [][PanelNext]_panelVars

-----------------------------------------------------------------------------

PanelTypeOK ==
    /\ srv.listeners \subseteq Keys /\ srv.clients \subseteq Clients /\ srv.routes \in Routes
    /\ panelApp.phase \in {"wait", "send", "fetch", "listeners", "routes", "reply"}
    /\ panelApp.status \in {"connecting", "connected", "error"}
    /\ (panelApp.phase = "send") = (panelApp.reqs # <<>>)
    /\ panelApp.phase # "wait" => panelApp.overlay = PanelNone

\* However many entries another administrator removes between two refreshes, the caret points at
\* an existing row (`clamp_sel` on every fetch), so no key indexes past the end of a list.
SelectionInRange == panelApp.sel < panel_item_count \/ (panel_item_count = 0 /\ panelApp.sel = 0)

\* A refresh that brings the same entries leaves the caret on the same entry: `sort` makes the
\* position independent of the order the server's hash maps happen to yield.
RowsStable ==
    (Land /\ [s \in DOMAIN panelApp.snap |-> ToSet(panelApp.snap[s])] = [s \in DOMAIN panelApp'.snap |-> ToSet(panelApp'.snap[s])])
     => Row(panelApp') = Row(panelApp)

\* The hint line offers `enter`, `c` and `d` exactly on the rows where `on_key_normal` acts on them.
PanelHintsTrue ==
    (panelApp.phase = "wait" /\ panelApp.overlay = PanelNone) =>
             panel_hint_line = {k \in {"enter", "c", "d"} : panel_on_key_normal(k) # panelApp}

\* "Forward all listeners" reports how far it got: its toast counts the routes the server really
\* set, a failed save included; only a lost reply may leave the last request uncounted.
ForwardCounted ==
    panelApp.toast.client # 0 /\ panelApp.phase = "fetch" /\ panelApp.toast.kind \in {"forwarded", "reported", "failed"}
    /\ panelApp.client # 0 =>
             IF panelApp.toast.kind = "failed" THEN panelApp.applied \in {panelApp.toast.n, panelApp.toast.n + 1}
             ELSE panelApp.applied = panelApp.toast.n

\* Once the server's topology has stopped changing and replies arrive, a console with no panel open
\* comes to show it (the one-second interval refetches), whatever it missed before.
ConvergesWhen == panelLeft.edits = 0 /\ panelLeft.faults = 0
ConvergesThen ==
    \/ panelApp.overlay # PanelNone
    \/ [s \in DOMAIN panelApp.snap |-> ToSet(panelApp.snap[s])] =
          [routes |-> {<<k, srv.routes[k]>> : k \in DOMAIN srv.routes},
           listeners |-> srv.listeners, clients |-> srv.clients]

-----------------------------------------------------------------------------
(***************************************************************************)
(* The interactive client console (tui/client_console.rs) beside a second  *)
(* operator who uses the `zeronat client admin` commands (client_admin.rs),*)
(* both driving one running client over its admin socket, which handles    *)
(* one exchange at a time.                                                 *)
(*                                                                         *)
(* There is one forward per protocol, so the protocol names it.  Typed     *)
(* text is a member of a small set or nothing usable.  The running client  *)
(* is kept to what the console shows of it; modules ClientControl and      *)
(* ClientLoop model it in full.                                            *)
(***************************************************************************)
CONSTANTS
    ConsolePresses,    \* bound on the keys pressed at the console
    ConsoleEdits,      \* bound on the other operator's commands and on restarts of the client
    ConsoleFaults      \* bound on failed saves and lost replies

VARIABLES
    d,          \* the running client
    consoleApp,        \* the console
    consoleCli,        \* the other operator's command under way
    consoleLeft        \* what is left of the three bounds

consoleVars == <<d, consoleApp, consoleCli, consoleLeft>>

ConsoleNone == <<>>
Profiles == {"a", "b"}
Sessions == {"wan", "lte"}
Options == [on : BOOLEAN, proxy : BOOLEAN, idle : 0..1]
Default == [on |-> TRUE, proxy |-> FALSE, idle |-> 0]
ConsoleBlank == [servers |-> <<>>, fwd |-> <<>>, active |-> "", mode |-> "none", session |-> "", pppoe |-> <<>>]

ConsoleRequest(op, name, proto, opts) == [op |-> op, name |-> name, proto |-> proto, opts |-> opts]
Named(op, name) == ConsoleRequest(op, name, "tcp", Default)
SetOptions(proto, opts) == ConsoleRequest("SetForwardOptions", "", proto, opts)

(* The client's side of a mutation: refused, or applied in memory and then saved if it is to be kept. *)

stop_pppoe(c, name) == c.mode = "pppoe" /\ c.session = name

Restricted(f, S) == [x \in DOMAIN f \cap S |-> f[x]]
With(f, x, v) == [y \in DOMAIN f \cup {x} |-> IF y = x THEN v ELSE f[y]]
BaseMode(c) == IF DOMAIN c.fwd # {} THEN "forwards" ELSE "idle"

apply(c, q) ==
    LET done(saved, e) == [ok |-> TRUE, saved |-> saved, d |-> e]
        refused == [ok |-> FALSE, saved |-> FALSE, d |-> c]
    IN  CASE q.op = "SelectServer" ->
               IF q.name \notin ToSet(c.servers) THEN refused
               ELSE done(TRUE, [c EXCEPT !.active = q.name])
          [] q.op = "RemoveServer" ->
               IF q.name = c.active \/ q.name \notin ToSet(c.servers) THEN refused
               ELSE done(TRUE, [c EXCEPT !.servers = SelectSeq(@, LAMBDA n : n # q.name)])
          [] q.op = "AddServer" ->
               IF q.name \in ToSet(c.servers) THEN refused
               ELSE done(TRUE, [c EXCEPT !.servers = Append(@, q.name)])
          [] q.op = "SetForwardOptions" ->
               IF (q.opts.proxy /\ q.proto = "udp") \/ q.proto \notin DOMAIN c.fwd THEN refused
               ELSE done(TRUE, [c EXCEPT !.fwd[q.proto] = q.opts])
          [] q.op = "AddForward" ->
               IF (q.opts.proxy /\ q.proto = "udp") \/ q.proto \in DOMAIN c.fwd THEN refused
               ELSE done(TRUE, [c EXCEPT !.fwd = With(@, q.proto, q.opts),
                                         !.mode = IF @ = "idle" THEN "forwards" ELSE @])
          [] q.op = "RemoveForward" ->
               IF q.proto \notin DOMAIN c.fwd THEN refused
               ELSE done(TRUE, [c EXCEPT !.fwd = Restricted(@, {"tcp", "udp"} \ {q.proto})])
          [] q.op = "SpawnPppoe" ->
               IF q.name \notin ToSet(c.pppoe) THEN refused
               ELSE done(FALSE, [c EXCEPT !.mode = "pppoe", !.session = q.name])
          [] q.op = "StopSession" ->
               IF ~stop_pppoe(c, q.name) THEN refused
               ELSE done(FALSE, [c EXCEPT !.mode = BaseMode(c), !.session = ""])
          [] q.op = "Disconnect" ->
               IF c.mode = "offline" THEN refused
               ELSE done(FALSE, [c EXCEPT !.mode = "offline", !.session = ""])
          [] q.op = "Connect" ->
               IF c.mode # "offline" THEN refused
               ELSE done(FALSE, [c EXCEPT !.mode = BaseMode(c)])

(* The console. *)

servers == consoleApp.snap.servers
forwards == SelectSeq(<<"tcp", "udp">>, LAMBDA p : p \in DOMAIN consoleApp.snap.fwd)
console_item_count == Len(servers) + Len(forwards)
OnServer == consoleApp.sel < Len(servers)
OnForward == consoleApp.sel >= Len(servers) /\ consoleApp.sel < console_item_count
ServerRow == servers[consoleApp.sel + 1]
ForwardRow == forwards[consoleApp.sel - Len(servers) + 1]
live_pppoe == consoleApp.snap.mode = "pppoe" /\ consoleApp.snap.session # ""
Kind == IF consoleApp.overlay = ConsoleNone THEN "none" ELSE consoleApp.overlay[1]

ConsoleInit ==
    /\ d \in [servers : {<<"a", "b">>}, active : {"a"}, mode : {"forwards"}, session : {""},
              pppoe : {<<"wan", "lte">>}, fwd : {With(With(<<>>, "tcp", Default), "udp", Default)}]
    /\ consoleApp = [snap |-> ConsoleBlank, sel |-> 0, overlay |-> ConsoleNone, req |-> ConsoleNone, toast |-> "none", phase |-> "fetch"]
    /\ consoleCli = ConsoleNone
    /\ consoleLeft = [presses |-> ConsolePresses, edits |-> ConsoleEdits, faults |-> ConsoleFaults]

consoleQueue(a, q) == [a EXCEPT !.overlay = ConsoleNone, !.req = <<q>>, !.phase = "send"]
consoleClose(a) == [a EXCEPT !.overlay = ConsoleNone]
Opened(overlay) == [consoleApp EXCEPT !.overlay = overlay]

(* Keys.  Each operator is the console after the key; it starts an exchange by leaving "wait".  In a form a
   key stands for moving to a field and changing it. *)

\* Space: the full option state with the flag flipped, as the last refresh showed it.
Toggled == LET o == consoleApp.snap.fwd[ForwardRow] IN consoleQueue(consoleApp, SetOptions(ForwardRow, [o EXCEPT !.on = ~@]))

ConsoleEnterRow ==
    IF OnServer
    THEN IF ServerRow = consoleApp.snap.active THEN Opened(<<"select", ServerRow>>)
         ELSE consoleQueue(consoleApp, Named("SelectServer", ServerRow))
    ELSE IF OnForward THEN Opened(<<"edit", ForwardRow, consoleApp.snap.fwd[ForwardRow]>>)
    ELSE consoleApp

console_on_key_normal(k) ==
    CASE k = "up" -> [consoleApp EXCEPT !.sel = IF @ = 0 THEN 0 ELSE @ - 1]
      [] k = "down" -> [consoleApp EXCEPT !.sel = IF @ + 1 < console_item_count THEN @ + 1 ELSE @]
      [] k = "r" -> [consoleApp EXCEPT !.phase = "fetch"]
      [] k = "enter" -> ConsoleEnterRow
      [] k = "a" -> Opened(<<"server", "">>)
      [] k = "f" -> Opened(<<"forward", "tcp", Default, FALSE>>)
      [] k = "x" -> IF OnServer THEN Opened(<<"remove", ServerRow>>)
                    ELSE IF OnForward THEN Opened(<<"removeforward", ForwardRow>>) ELSE consoleApp
      [] k = "space" -> IF OnForward THEN Toggled ELSE consoleApp
      [] k = "c" -> IF consoleApp.snap.mode = "offline" THEN consoleQueue(consoleApp, Named("Connect", "")) ELSE consoleApp
      [] k = "d" -> IF consoleApp.snap.mode \notin {"none", "offline"} THEN Opened(<<"disconnect">>) ELSE consoleApp
      [] k = "p" -> IF consoleApp.snap.pppoe = <<>> THEN [consoleApp EXCEPT !.toast = "invalid"] ELSE Opened(<<"picker", 0>>)
      [] k = "s" -> IF live_pppoe THEN Opened(<<"stop", consoleApp.snap.session>>) ELSE consoleApp
      [] OTHER -> consoleApp

\* The state-dependent keys the bottom line offers while no panel is open.
console_hint_line ==
    (IF console_item_count = 0 THEN {} ELSE IF OnServer THEN {"enter", "x"} ELSE {"enter", "space", "x"})
    \cup (IF consoleApp.snap.mode = "offline" THEN {"c"} ELSE IF consoleApp.snap.mode = "none" THEN {} ELSE {"d"})
    \cup (IF consoleApp.snap.pppoe # <<>> THEN {"p"} ELSE {}) \cup (IF live_pppoe THEN {"s"} ELSE {})

Confirmed ==
    CASE Kind = "select" -> Named("SelectServer", consoleApp.overlay[2])
      [] Kind = "remove" -> Named("RemoveServer", consoleApp.overlay[2])
      [] Kind = "removeforward" -> ConsoleRequest("RemoveForward", "", consoleApp.overlay[2], Default)
      [] Kind = "disconnect" -> Named("Disconnect", "")
      [] Kind = "stop" -> Named("StopSession", consoleApp.overlay[2])
Confirms == {"select", "remove", "removeforward", "disconnect", "stop"}

console_on_key_confirm(k) ==
    CASE k = "enter" -> consoleQueue(consoleApp, Confirmed)
      [] k = "esc" -> consoleClose(consoleApp)
      [] OTHER -> consoleApp

\* The edit form: space flips a field; submit sends every option as the form shows it.
console_on_key_form(k) ==
    CASE k = "esc" -> consoleClose(consoleApp)
      [] k = "space" -> [consoleApp EXCEPT !.overlay[3].on = ~@]
      [] k = "right" -> [consoleApp EXCEPT !.overlay[3].proxy = ~@]
      [] k = "digit" -> [consoleApp EXCEPT !.overlay[3].idle = 1 - @]
      [] k = "enter" -> consoleQueue(consoleApp, SetOptions(consoleApp.overlay[2], consoleApp.overlay[3]))
      [] OTHER -> consoleApp

\* A secret that does not normalize keeps the form open.
on_key_add_server(k) ==
    CASE k = "esc" -> consoleClose(consoleApp)
      [] k = "digit" -> [consoleApp EXCEPT !.overlay[2] = "b"]
      [] k = "enter" -> IF consoleApp.overlay[2] = "" THEN [consoleApp EXCEPT !.toast = "invalid"]
                        ELSE consoleQueue(consoleApp, Named("AddServer", consoleApp.overlay[2]))
      [] OTHER -> consoleApp

toggle_add_forward(field, proto, o) ==
    CASE field = "proto" -> IF proto = "tcp" THEN <<"udp", [o EXCEPT !.proxy = FALSE]>> ELSE <<"tcp", o>>
      [] field = "proxy" -> <<proto, IF proto = "tcp" THEN [o EXCEPT !.proxy = ~@] ELSE o>>
      [] field = "enabled" -> <<proto, [o EXCEPT !.on = ~@]>>

\* The fourth entry tells whether a usable port is typed; without one a submit keeps the form open.
on_key_add_forward(k) ==
    LET flip(field) == LET t == toggle_add_forward(field, consoleApp.overlay[2], consoleApp.overlay[3])
                       IN  [consoleApp EXCEPT !.overlay = <<"forward", t[1], t[2], consoleApp.overlay[4]>>]
    IN  CASE k = "esc" -> consoleClose(consoleApp)
          [] k = "up" -> flip("proto")
          [] k = "right" -> flip("proxy")
          [] k = "space" -> flip("enabled")
          [] k = "digit" -> [consoleApp EXCEPT !.overlay[4] = TRUE]
          [] k = "enter" -> IF ~consoleApp.overlay[4] THEN [consoleApp EXCEPT !.toast = "invalid"]
                            ELSE consoleQueue(consoleApp, ConsoleRequest("AddForward", "", consoleApp.overlay[2], consoleApp.overlay[3]))
          [] OTHER -> consoleApp

console_on_key_picker(k) ==
    CASE k = "esc" -> consoleClose(consoleApp)
      [] k = "up" -> [consoleApp EXCEPT !.overlay[2] = IF @ = 0 THEN 0 ELSE @ - 1]
      [] k = "down" -> [consoleApp EXCEPT !.overlay[2] = IF @ + 1 < Len(consoleApp.snap.pppoe) THEN @ + 1 ELSE @]
      [] k = "enter" -> consoleQueue(consoleApp, Named("SpawnPppoe", consoleApp.snap.pppoe[consoleApp.overlay[2] + 1]))
      [] OTHER -> consoleApp

handle(k) ==
    CASE Kind = "none" -> console_on_key_normal(k)
      [] Kind \in Confirms -> console_on_key_confirm(k)
      [] Kind = "edit" -> console_on_key_form(k)
      [] Kind = "server" -> on_key_add_server(k)
      [] Kind = "forward" -> on_key_add_forward(k)
      [] Kind = "picker" -> console_on_key_picker(k)

ConsoleKeyNames == {"up", "down", "right", "r", "enter", "a", "f", "x", "space", "c", "d", "p", "s", "esc", "digit"}

ConsolePress ==
    /\ consoleApp.phase = "wait" /\ consoleLeft.presses > 0
    /\ \E k \in ConsoleKeyNames : consoleApp' = handle(k) /\ consoleApp' # consoleApp
    /\ consoleLeft' = [consoleLeft EXCEPT !.presses = @ - 1]
    /\ UNCHANGED <<d, consoleCli>>

ConsoleTick ==
    /\ consoleApp.phase = "wait" /\ consoleApp.overlay = ConsoleNone
    /\ consoleApp' = [consoleApp EXCEPT !.phase = "fetch"]
    /\ UNCHANGED <<d, consoleCli, consoleLeft>>

(* Exchanges. *)

\* A refusal after a failed save is flagged: applied in memory, disk stale.
refusal_text(applied) == IF applied THEN "unsaved" ELSE "refused"

Answered(toast) == [consoleApp EXCEPT !.toast = toast, !.req = ConsoleNone, !.phase = "fetch"]

ConsoleSend ==
    LET r == apply(d, consoleApp.req[1])
    IN  /\ consoleApp.phase = "send"
        /\ d' = r.d
        /\ consoleApp' = Answered(IF r.ok THEN "ok" ELSE refusal_text(FALSE))
        /\ UNCHANGED <<consoleCli, consoleLeft>>

ConsoleSendUnsaved ==
    LET r == apply(d, consoleApp.req[1])
    IN  /\ consoleApp.phase = "send" /\ consoleLeft.faults > 0
        /\ r.ok /\ r.saved
        /\ d' = r.d
        /\ consoleApp' = Answered(refusal_text(TRUE))
        /\ consoleLeft' = [consoleLeft EXCEPT !.faults = @ - 1]
        /\ UNCHANGED consoleCli

ConsoleSendLost ==
    /\ consoleApp.phase = "send" /\ consoleLeft.faults > 0
    /\ d' \in {d, apply(d, consoleApp.req[1]).d}
    /\ consoleApp' = Answered("failed")
    /\ consoleLeft' = [consoleLeft EXCEPT !.faults = @ - 1]
    /\ UNCHANGED consoleCli

consoleFetch(c) ==
    LET n == Len(c.servers) + Cardinality(DOMAIN c.fwd)
    IN  [consoleApp EXCEPT !.snap = c, !.phase = "wait",
                           !.sel = IF n = 0 THEN 0 ELSE IF @ >= n THEN n - 1 ELSE @]
Fetch == consoleApp.phase = "fetch" /\ consoleApp' = consoleFetch(d) /\ UNCHANGED <<d, consoleCli, consoleLeft>>

ConsoleFetchFails ==
    /\ consoleApp.phase = "fetch" /\ consoleLeft.faults > 0
    /\ consoleApp' = [consoleApp EXCEPT !.phase = "wait"]
    /\ consoleLeft' = [consoleLeft EXCEPT !.faults = @ - 1]
    /\ UNCHANGED <<d, consoleCli>>

(* The other operator. *)

ConsoleSpend == consoleLeft' = [consoleLeft EXCEPT !.edits = @ - 1]

\* enable-forward or disable-forward: a snapshot first, then the full option state.
CliRead ==
    /\ consoleCli = ConsoleNone /\ consoleLeft.edits > 0
    /\ \E p \in DOMAIN d.fwd, on \in BOOLEAN : consoleCli' = <<p, [d.fwd[p] EXCEPT !.on = on]>>
    /\ ConsoleSpend
    /\ UNCHANGED <<d, consoleApp>>

send_forward_enabled ==
    /\ consoleCli # ConsoleNone
    /\ d' = apply(d, SetOptions(consoleCli[1], consoleCli[2])).d
    /\ consoleCli' = ConsoleNone
    /\ UNCHANGED <<consoleApp, consoleLeft>>

\* Any single-request command.
console_send_command ==
    /\ consoleLeft.edits > 0
    /\ \E q \in {Named("SelectServer", n) : n \in Profiles} \cup {Named("RemoveServer", n) : n \in Profiles}
                     \cup {Named("SpawnPppoe", n) : n \in Sessions} \cup {Named("Connect", ""), Named("Disconnect", "")}
                     \cup {ConsoleRequest("RemoveForward", "", p, Default) : p \in {"tcp", "udp"}}
                     \cup {SetOptions("tcp", [Default EXCEPT !.proxy = TRUE])} :
          d' = apply(d, q).d
    /\ d' # d
    /\ ConsoleSpend
    /\ UNCHANGED <<consoleApp, consoleCli>>

\* The client restarts with another list of pppoe sessions.
Restart ==
    /\ consoleLeft.edits > 0 /\ consoleCli = ConsoleNone
    /\ \E names \in {<<>>, <<"lte">>} :
          d' = [d EXCEPT !.pppoe = names, !.mode = BaseMode(d), !.session = ""]
    /\ ConsoleSpend
    /\ UNCHANGED <<consoleApp, consoleCli>>

\* The operator leaves a panel open.
ConsoleLeft == consoleApp.phase = "wait" /\ consoleApp.overlay # ConsoleNone /\ consoleLeft.presses = 0 /\ consoleCli = ConsoleNone /\ UNCHANGED consoleVars

ConsoleNext ==
    \/ ConsolePress \/ ConsoleTick \/ ConsoleSend \/ ConsoleSendUnsaved \/ ConsoleSendLost \/ Fetch \/ ConsoleFetchFails
    \/ CliRead \/ send_forward_enabled \/ console_send_command \/ Restart \/ ConsoleLeft

ConsoleSpec == ConsoleInit /\ [][ConsoleNext]_consoleVars

-----------------------------------------------------------------------------

ConsoleTypeOK ==
    /\ DOMAIN d.fwd \subseteq {"tcp", "udp"} /\ \A p \in DOMAIN d.fwd : d.fwd[p] \in Options
    /\ consoleApp.phase \in {"wait", "send", "fetch"}
    /\ consoleApp.toast \in {"none", "ok", "refused", "unsaved", "failed", "invalid"}
    /\ (consoleApp.phase = "send") = (consoleApp.req # ConsoleNone)
    /\ console_item_count > 0 => consoleApp.sel < console_item_count

\* The pppoe picker indexes the snapshot's session names: they hold still while it is open, even when the
\* client behind it restarts with fewer, because nothing refetches under a panel.
PickerInRange == Kind = "picker" => consoleApp.overlay[2] < Len(consoleApp.snap.pppoe)

\* The bottom line offers exactly the keys that do something on the row and in the mode on screen.
ConsoleHintsTrue ==
    (consoleApp.phase = "wait" /\ consoleApp.overlay = ConsoleNone) =>
               console_hint_line = {k \in {"enter", "x", "space", "c", "d", "p", "s"} : console_on_key_normal(k).overlay # consoleApp.overlay
                                                                          \/ console_on_key_normal(k).phase # consoleApp.phase}

\* The add-forward form never asks for proxy on udp, a request the client always refuses, in whatever order
\* its picker and toggles are moved.
FormValid == Kind = "forward" => ~(consoleApp.overlay[2] = "udp" /\ consoleApp.overlay[3].proxy)

\* The toast tells a refusal that changed nothing from one that applied in memory and failed to save.
ToastTruth ==
    consoleApp.phase = "send" /\ consoleApp'.phase = "fetch" =>
      LET r == apply(d, consoleApp.req[1])
      IN  /\ consoleApp'.toast = "refused" => ~r.ok /\ d' = d
          /\ consoleApp'.toast \in {"ok", "unsaved"} => r.ok /\ d' = r.d

\* Stopping ends only the session the confirm panel named, though another operator replaced it meanwhile.
StopsNamed ==
    (consoleApp.phase = "send" /\ consoleApp.req[1].op = "StopSession" /\ d' # d) => d.session = consoleApp.req[1].name

-----------------------------------------------------------------------------
(***************************************************************************)
(* Where a client puts its admin socket (clientctl.rs) and where           *)
(* `zeronat client admin` looks for it (client_admin.rs): processes of two *)
(* users come, bind, serve, exit or crash, over one file system.           *)
(*                                                                         *)
(* One step is one system call.  Root can create and use /run/zeronat, the *)
(* other user cannot look into it once it exists; each user may have a     *)
(* runtime directory of its own.  A socket file carries the process that   *)
(* bound it, so a file whose process is gone is a stale one.               *)
(***************************************************************************)
CONSTANTS
    Starts,     \* bound on the processes started
    Overlap,    \* whether a user starts a second client while one runs
    Foreign     \* whether some other program's file may sit at a socket path

VARIABLES
    proc,       \* the processes started so far: user, explicit path or not, path, program counter
    dir,        \* whether /run/zeronat exists
    entry,      \* what each path holds
    last        \* what the last step removed: the process dropping or unlinking, and what was there

socketVars == <<proc, dir, entry, last>>

Users == {"root", "user"}
PRIMARY == "/run/zeronat/client.sock"
Fallback(u) == IF u = "root" THEN "root-runtime-dir" ELSE "user-runtime-dir"
Paths == {PRIMARY} \cup {Fallback(u) : u \in Users}
SocketNone == <<>>
File == <<"file">>
Sock(p) == <<"sock", p>>
NoStep == [by |-> 0, was |-> SocketNone]

Pids == DOMAIN proc
Alive(p) == proc[p].pc \notin {"gone", "fatal"}
CanUse(u, path) == path # PRIMARY \/ u = "root"
At(p, pc) == p \in Pids /\ proc[p].pc = pc
Go(p, pc) == proc' = [proc EXCEPT ![p].pc = pc]

SocketInit ==
    /\ proc = <<>>
    /\ dir \in BOOLEAN
    /\ entry \in [Paths -> {SocketNone} \cup IF Foreign THEN {File} ELSE {}]
    /\ \A u \in Users : entry[Fallback(u)] = SocketNone
    /\ entry[PRIMARY] # SocketNone => dir
    /\ last = NoStep

\* A client boots, with `[client].control` set (to the path the default would be) or not.
Start(u) ==
    LET p == Cardinality(Pids) + 1
    IN  /\ p <= Starts
        /\ Overlap \/ \A q \in Pids : proc[q].user = u => ~Alive(q)
        /\ \E explicit \in BOOLEAN :
              proc' = [q \in Pids \cup {p} |->
                         IF q = p THEN [user |-> u, explicit |-> explicit, pc |-> "resolve",
                                        path |-> IF u = "root" THEN PRIMARY ELSE Fallback(u)]
                         ELSE proc[q]]
        /\ last' = NoStep
        /\ UNCHANGED <<dir, entry>>

\* An explicit path is used as given; the default prefers the primary directory, which counts as
\* created when it is already there.
resolve_control_dir(p) ==
    /\ At(p, "resolve")
    /\ LET primary == dir \/ proc[p].user = "root"
       IN  /\ dir' = (dir \/ (~proc[p].explicit /\ primary))
           /\ proc' = [proc EXCEPT ![p].pc = "stat",
                         ![p].path = IF proc[p].explicit THEN @
                                     ELSE IF primary THEN PRIMARY ELSE Fallback(proc[p].user)]
    /\ last' = NoStep
    /\ UNCHANGED entry

\* Where a failed bind leads: an operator's path is fatal, the default runs without a socket.
BindFailed(p) == IF proc[p].explicit THEN "fatal" ELSE "bare"

Stat(p) ==
    /\ At(p, "stat")
    /\ Go(p, IF ~CanUse(proc[p].user, proc[p].path) \/ entry[proc[p].path] = File THEN BindFailed(p)
             ELSE IF entry[proc[p].path] = SocketNone THEN "bind" ELSE "unlink")
    /\ last' = NoStep
    /\ UNCHANGED <<dir, entry>>

Unlink(p) ==
    /\ At(p, "unlink")
    /\ last' = [by |-> p, was |-> entry[proc[p].path]]
    /\ entry' = [entry EXCEPT ![proc[p].path] = SocketNone]
    /\ Go(p, "bind")
    /\ UNCHANGED dir

\* bind(2) fails when a file has appeared at the path meanwhile, or its directory does not exist: only
\* the default's directory is created.
Bind(p) ==
    /\ At(p, "bind")
    /\ IF entry[proc[p].path] = SocketNone /\ (proc[p].path = PRIMARY => dir)
       THEN entry' = [entry EXCEPT ![proc[p].path] = Sock(p)] /\ Go(p, "chmod")
       ELSE UNCHANGED entry /\ Go(p, BindFailed(p))
    /\ last' = NoStep
    /\ UNCHANGED dir

\* The mode is set, which is taken to succeed on a socket just bound.
Chmod(p) ==
    /\ At(p, "chmod")
    /\ Go(p, "serving")
    /\ last' = NoStep
    /\ UNCHANGED <<dir, entry>>

\* The accept loop's task ends and drops the listener, which removes the file at its path.
Drop(p) ==
    /\ At(p, "serving")
    /\ last' = [by |-> p, was |-> entry[proc[p].path]]
    /\ entry' = [entry EXCEPT ![proc[p].path] = SocketNone]
    /\ Go(p, "gone")
    /\ UNCHANGED dir

\* A client without an admin socket ends.
Leave(p) == At(p, "bare") /\ Go(p, "gone") /\ last' = NoStep /\ UNCHANGED <<dir, entry>>

\* Killed: whatever it left in the file system stays.
Crash(p) ==
    /\ p \in Pids /\ Alive(p)
    /\ Go(p, "gone")
    /\ last' = NoStep
    /\ UNCHANGED <<dir, entry>>

Over == Cardinality(Pids) = Starts /\ (\A p \in Pids : ~Alive(p)) /\ UNCHANGED socketVars

Steps(p) == resolve_control_dir(p) \/ Stat(p) \/ Unlink(p) \/ Bind(p) \/ Chmod(p)
SocketNext ==
    \/ \E u \in Users : Start(u)
    \/ \E p \in Pids : resolve_control_dir(p)
    \/ \E p \in Pids : Stat(p)
    \/ \E p \in Pids : Unlink(p)
    \/ \E p \in Pids : Bind(p)
    \/ \E p \in Pids : Chmod(p)
    \/ \E p \in Pids : Drop(p)
    \/ \E p \in Pids : Leave(p)
    \/ \E p \in Pids : Crash(p)
    \/ Over

SocketSpec == SocketInit /\ [][SocketNext]_socketVars

\* A booting client runs on to the end of its bind.
SocketDue(p) == Steps(p)

-----------------------------------------------------------------------------

\* The path `client admin` of user u connects to; a path it may not look at does not exist for it.
default_socket(u) ==
    IF CanUse(u, PRIMARY) /\ entry[PRIMARY] # SocketNone THEN PRIMARY
    ELSE IF entry[Fallback(u)] # SocketNone THEN Fallback(u)
    ELSE "none"

SocketTypeOK ==
    /\ \A p \in Pids : proc[p].path \in Paths
    /\ entry \in [Paths -> {SocketNone, File} \cup {Sock(p) : p \in Pids}]

\* While users run one client each, a serving client is reachable at its path until it ends, whatever
\* stale sockets crashed predecessors left there.
Reachable == ~Overlap => \A p \in Pids : proc[p].pc \in {"chmod", "serving"} => entry[proc[p].path] = Sock(p)

\* The same user's `client admin` finds the socket of the client that serves: both sides try the same
\* locations in the same order, and a stale socket in one does not hide a live one in the other.
AdminFinds ==
    ~Overlap => \A p \in Pids : proc[p].pc = "serving" => default_socket(proc[p].user) = proc[p].path

\* Only a socket is ever unlinked: another program's file at the path survives every start.
FileKept == \A path \in Paths : entry[path] = File => entry'[path] = File

\* A client that may use its path, occupied by a stale socket or by nothing, comes to serve there unless it
\* is killed: `bind` unlinks what is stale, and nothing else is in the way.
StaleReplacedWhen(p) == At(p, "stat") /\ CanUse(proc[p].user, proc[p].path) /\ entry[proc[p].path] # File /\ dir
StaleReplacedThen(p) == At(p, "serving") \/ At(p, "gone")
=============================================================================
