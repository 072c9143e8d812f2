----------------------------- MODULE Listeners ------------------------------
(***************************************************************************)
(* Public listeners of the server: binding, removal, routing and caps of   *)
(* the TCP and UDP listeners, and the per-source state of a UDP listener.  *)
(***************************************************************************)
EXTENDS Naturals, FiniteSets

(***************************************************************************)
(* The server's public TCP listeners (src/src/server.rs): boot and admin   *)
(* requests bind them, an accept loop per listener admits connections up   *)
(* to a cap and spawns a task for each, a route decides which client a     *)
(* connection is bridged to, and removing a listener or changing its route *)
(* aborts the bridges its loop registered.                                 *)
(*                                                                         *)
(* A bridge task runs from the moment it is spawned; the loop registers    *)
(* its handle afterwards. A listener's socket is held until its loop       *)
(* returns. Removal cancels the loop with a Notify, so it may accept once  *)
(* more before it sees the cancel.                                         *)
(***************************************************************************)
CONSTANTS
    Key,          \* (bind_ip, proto, port)
    ListenClient,       \* client ids a route may name
    Only,         \* the client an unrouted key falls back to, or NoRoute
    Admin,        \* admin exchanges, one request each
    Request,      \* the kinds of request they make
    Conn,         \* public connections
    MaxLoop,      \* listeners started, over the whole run
    ListenCap,          \* MAX_CONNS_PER_TCP_FORWARD
    Busy,         \* keys another program holds when the server boots
    FromFile,     \* listeners the config file declares
    FromCli       \* listeners --tcp pins

Loop == 1..MaxLoop

ListenersAssumption ==
    /\ MaxLoop \in Nat /\ ListenCap \in Nat \ {0}
    /\ FromFile \cup FromCli \cup Busy \subseteq Key

VARIABLES
    listeners,    \* the registry: key -> loop, 0 when the key has none
    loops,        \* accept loops by number
    booting,      \* configured listeners not yet tried
    busy,         \* keys held by another program
    routes,       \* key -> client
    conns,        \* accepted connections and their bridge tasks
    admin,        \* admin exchanges
    declared,     \* history: what the file should declare
    file          \* the listeners of the saved file

listenVars == <<listeners, loops, booting, busy, routes, conns, admin, declared, file>>

NoLoop == [at |-> "none", key |-> "none", cancel |-> FALSE, bridges |-> {},
           pushing |-> "none", file |-> FALSE, locked |-> FALSE]
NoRoute == "none"
NoAdmin == [at |-> "idle", key |-> "none", prev |-> NoRoute, want |-> NoRoute, raced |-> FALSE]
NoConn == [at |-> "new", loop |-> 0, target |-> "none", missed |-> FALSE]

ListenTypeOK ==
    /\ listeners \in [Key -> 0..MaxLoop]
    /\ \A l \in Loop : /\ loops[l].at \in {"none", "select", "admit", "ended"}
                       /\ loops[l].bridges \subseteq Conn
    /\ routes \in [Key -> ListenClient \cup {NoRoute}]
    /\ \A k \in Conn : /\ conns[k].at \in {"new", "running", "bridged", "aborted", "ended"}
                       /\ conns[k].target \in ListenClient \cup {Only, "none"}
    /\ \A m \in Admin : admin[m].at \in
           {"idle", "binding", "bound", "compare", "cutting", "applied", "saved", "refused"}
    /\ file \subseteq Key

\* serving_client_id: the route's client, or the only connected one.
Serving(r) == IF r # NoRoute THEN r ELSE Only

Free == {l \in Loop : loops[l].at = "none"}

\* Whether some socket is bound to the key.
Held(k) ==
    \/ k \in busy
    \/ \E l \in Loop : loops[l].at \in {"select", "admit"} /\ loops[l].key = k
    \/ \E m \in Admin : admin[m].at = "bound" /\ admin[m].key = k

\* start_listener: the handle goes into the registry and the loop is spawned.
StartListener(k, owned, locked) ==
    \E l \in Free :
        /\ \A j \in Free : l <= j
        /\ listeners' = [listeners EXCEPT ![k] = l]
        /\ loops' = [loops EXCEPT ![l] = [NoLoop EXCEPT
               !.at = "select", !.key = k, !.file = owned, !.locked = locked]]

\* Abort every bridge registered with the loop.
Drain(l) == [k \in Conn |->
    IF k \in loops[l].bridges /\ conns[k].at \in {"running", "bridged"}
    THEN [conns[k] EXCEPT !.at = "aborted"]
    ELSE IF conns[k].loop = l /\ conns[k].at \in {"running", "bridged"}
    THEN [conns[k] EXCEPT !.missed = TRUE]
    ELSE conns[k]]

-----------------------------------------------------------------------------
\* serve tries each configured listener once and keeps going.
BootListener(k) ==
    /\ k \in booting
    /\ booting' = booting \ {k}
    /\ IF Held(k) THEN UNCHANGED <<listeners, loops>>
       ELSE StartListener(k, k \in FromFile, k \in FromCli)
    /\ UNCHANGED <<busy, routes, conns, admin, declared, file>>

\* bind_listener: a key the registry holds is refused before the bind.
AddCheck(m, k) ==
    /\ "add" \in Request
    /\ admin[m].at = "idle" /\ booting = {}
    /\ Free # {}
    /\ admin' = [admin EXCEPT ![m] =
           [NoAdmin EXCEPT !.at = IF listeners[k] # 0 THEN "refused" ELSE "binding", !.key = k]]
    /\ UNCHANGED <<listeners, loops, booting, busy, routes, conns, declared, file>>

\* The bind completes: one socket per port.
Bind(m) ==
    /\ admin[m].at = "binding"
    /\ admin' = [admin EXCEPT ![m].at = IF Held(admin[m].key) THEN "refused" ELSE "bound"]
    /\ UNCHANGED <<listeners, loops, booting, busy, routes, conns, declared, file>>

AddListener(m) ==
    /\ admin[m].at = "bound"
    /\ StartListener(admin[m].key, TRUE, FALSE)
    /\ declared' = declared \cup {admin[m].key}
    /\ admin' = [admin EXCEPT ![m].at = "applied"]
    /\ UNCHANGED <<booting, busy, routes, conns, file>>

\* ListenRemoveListener: a pinned or unknown listener is refused; otherwise the handle
\* leaves the registry, its loop is cancelled and its bridges are aborted.
ListenRemoveListener(m, k) ==
    /\ "remove" \in Request
    /\ admin[m].at = "idle" /\ booting = {}
    /\ IF listeners[k] = 0 \/ loops[listeners[k]].locked
       THEN /\ admin' = [admin EXCEPT ![m] = [NoAdmin EXCEPT !.at = "refused", !.key = k]]
            /\ UNCHANGED <<listeners, loops, conns, declared>>
       ELSE LET l == listeners[k]
            IN  /\ listeners' = [listeners EXCEPT ![k] = 0]
                /\ loops' = [loops EXCEPT ![l].cancel = TRUE, ![l].bridges = {}]
                /\ conns' = Drain(l)
                /\ declared' = declared \ {k}
                /\ admin' = [admin EXCEPT ![m] = [NoAdmin EXCEPT !.at = "applied", !.key = k]]
    /\ UNCHANGED <<booting, busy, routes, file>>

\* SetRoute and ClearRoute (NoRoute) first note which client serves the key.
ReadServing(m, k, c) ==
    /\ "route" \in Request
    /\ admin[m].at = "idle" /\ booting = {}
    /\ admin' = [admin EXCEPT ![m] = [NoAdmin EXCEPT
           !.at = "compare", !.key = k, !.prev = Serving(routes[k]), !.want = c]]
    /\ UNCHANGED <<listeners, loops, booting, busy, routes, conns, declared, file>>

\* The route is stored; a change of the client that serves the key then cuts
\* what is up.
StoreRoute(m) ==
    /\ admin[m].at = "compare"
    /\ LET k == admin[m].key
       IN  /\ routes' = [routes EXCEPT ![k] = admin[m].want]
           /\ admin' = [n \in Admin |->
                  IF n = m THEN [admin[m] EXCEPT !.at =
                      IF admin[m].prev = Serving(admin[m].want) THEN "applied" ELSE "cutting"]
                  ELSE IF admin[n].at = "compare" /\ admin[n].key = k
                  THEN [admin[n] EXCEPT !.raced = TRUE] ELSE admin[n]]
    /\ UNCHANGED <<listeners, loops, booting, busy, conns, declared, file>>

\* cut_established aborts the bridges of the key's listener, which stays up.
ListenCutEstablished(m) ==
    /\ admin[m].at = "cutting"
    /\ LET l == listeners[admin[m].key]
       IN  IF l = 0 THEN UNCHANGED <<loops, conns>>
           ELSE /\ conns' = Drain(l)
                /\ loops' = [loops EXCEPT ![l].bridges = {}]
    /\ admin' = [admin EXCEPT ![m].at = "applied"]
    /\ UNCHANGED <<listeners, booting, busy, routes, declared, file>>

\* persist writes the file-owned listeners of the registry.
Persist(m) ==
    /\ admin[m].at = "applied"
    /\ file' = {k \in Key : listeners[k] # 0 /\ loops[listeners[k]].file}
    /\ admin' = [admin EXCEPT ![m].at = "saved"]
    /\ UNCHANGED <<listeners, loops, booting, busy, routes, conns, declared>>

-----------------------------------------------------------------------------
Live(k) == conns[k].at \in {"running", "bridged", "aborted"}

\* tcp_listener accepts; admit_tcp_conn retains the unfinished bridges and drops
\* the connection at the cap, or spawns its task.
Accept(l, k) ==
    /\ loops[l].at = "select"
    /\ conns[k].at = "new"
    /\ LET active == {j \in loops[l].bridges : Live(j)}
       IN  IF Cardinality(active) >= ListenCap
           THEN /\ loops' = [loops EXCEPT ![l].bridges = active]
                /\ conns' = [conns EXCEPT ![k].at = "ended"]
           ELSE /\ loops' = [loops EXCEPT ![l] = [@ EXCEPT
                       !.bridges = active, !.at = "admit", !.pushing = k]]
                /\ conns' = [conns EXCEPT ![k] = [NoConn EXCEPT
                       !.at = "running", !.loop = l]]
    /\ UNCHANGED <<listeners, booting, busy, routes, admin, declared, file>>

\* The loop registers the task's handle and goes back to its select.
Push(l) ==
    /\ loops[l].at = "admit"
    /\ loops' = [loops EXCEPT ![l] = [@ EXCEPT !.at = "select", !.pushing = "none",
           !.bridges = @ \cup {loops[l].pushing}]]
    /\ UNCHANGED <<listeners, booting, busy, routes, conns, admin, declared, file>>

\* The select takes the cancel: the loop returns and its socket closes.
LoopEnds(l) ==
    /\ loops[l].at = "select"
    /\ loops[l].cancel
    /\ loops' = [loops EXCEPT ![l].at = "ended"]
    /\ UNCHANGED <<listeners, booting, busy, routes, conns, admin, declared, file>>

\* The bridge task resolves its route and bridges to that client.
Resolve(k) ==
    /\ conns[k].at = "running"
    /\ LET c == Serving(routes[loops[conns[k].loop].key])
       IN  conns' = [conns EXCEPT ![k] = [@ EXCEPT
               !.at = IF c = NoRoute THEN "ended" ELSE "bridged", !.target = c]]
    /\ UNCHANGED <<listeners, loops, booting, busy, routes, admin, declared, file>>

\* The bridge ends, or the abort takes effect at its next await.
TaskEnds(k) ==
    /\ Live(k)
    /\ conns' = [conns EXCEPT ![k].at = "ended"]
    /\ UNCHANGED <<listeners, loops, booting, busy, routes, admin, declared, file>>

\* The other program lets go of its port.
PortFreed(k) ==
    /\ k \in busy
    /\ busy' = busy \ {k}
    /\ UNCHANGED <<listeners, loops, booting, routes, conns, admin, declared, file>>

ListenInit ==
    /\ listeners = [k \in Key |-> 0]
    /\ loops = [l \in Loop |-> NoLoop]
    /\ booting = FromFile \cup FromCli
    /\ busy = Busy
    /\ routes \in [Key -> ListenClient \cup {NoRoute}]
    /\ conns = [k \in Conn |-> NoConn]
    /\ admin = [m \in Admin |-> NoAdmin]
    /\ declared = FromFile
    /\ file = FromFile

ListenIdle == UNCHANGED listenVars

ListenNext ==
    \/ \E k \in Key : BootListener(k) \/ PortFreed(k)
    \/ \E m \in Admin :
           \/ \E k \in Key : \/ AddCheck(m, k) \/ ListenRemoveListener(m, k)
                             \/ \E c \in ListenClient \cup {NoRoute} : ReadServing(m, k, c)
           \/ Bind(m) \/ AddListener(m) \/ StoreRoute(m) \/ ListenCutEstablished(m) \/ Persist(m)
    \/ \E l \in Loop : \/ \E k \in Conn : Accept(l, k)
                       \/ Push(l) \/ LoopEnds(l)
    \/ \E k \in Conn : Resolve(k) \/ TaskEnds(k)
    \/ ListenIdle

\* A spawned loop is polled, and its select is fair between cancel and accept.
ListenDue(l) == Push(l)
ListenInsisted(l) == LoopEnds(l)

ListenSpec == ListenInit /\ [][ListenNext]_listenVars

-----------------------------------------------------------------------------
\* A listener nobody can remove does not exist: a loop that was not cancelled is
\* the one the registry holds for its key, whatever adds raced (bind_listener,
\* which checks the registry, awaits the bind and then inserts).
LoopsAreRegistered ==
    \A l \in Loop : loops[l].at \in {"select", "admit"} /\ ~loops[l].cancel
        => listeners[loops[l].key] = l

\* A listener pinned by --tcp outlives every admin request.
PinnedStays ==
    \A k \in FromCli \ Busy : k \notin booting =>
        listeners[k] # 0 /\ loops[listeners[k]].locked

\* A bridge of a registered listener to a client that no longer serves its key,
\* with no cut still to come.
Stale(k) ==
    /\ conns[k].at = "bridged"
    /\ listeners[loops[conns[k].loop].key] = conns[k].loop
    /\ conns[k].target # Serving(routes[loops[conns[k].loop].key])
    /\ \A m \in Admin : admin[m].at # "cutting"

\* After a route change a bridge on the old target is one whose task had not been
\* registered when the cut drained the list, the window cut_established
\* documents, or the change raced another one of the same key.
StaleIsExplained ==
    \A k \in Conn : Stale(k) => conns[k].missed \/ \E m \in Admin : admin[m].raced

\* MAX_CONNS_PER_TCP_FORWARD bounds the connections of a listener that are still
\* wanted; tasks already aborted may linger beside them.
CapHolds ==
    \A l \in Loop :
        Cardinality({k \in Conn : conns[k].loop = l
                         /\ conns[k].at \in {"running", "bridged"}}) <= ListenCap

\* The port of a removed listener is released, whatever arrives on it meanwhile.
RemovedFreesThePortWhen(l) == loops[l].at # "none" /\ listeners[loops[l].key] # l
RemovedFreesThePortThen(l) == loops[l].at = "ended"

-----------------------------------------------------------------------------
(***************************************************************************)
(* A public UDP listener (udp_listener and park_udp_source of              *)
(* src/src/server.rs) and the relays of its sources (src/src/bridge.rs).   *)
(* The listener's loop maps each source address to a slot, the sending     *)
(* end of the channel its relay reads. The relay ends when the slot is     *)
(* dropped, when its client has been silent for the idle window, or when   *)
(* the session is cancelled; a dropped receiver closes the slot.           *)
(*                                                                         *)
(* A route change stores the route and then signals `flush`; a removal     *)
(* signals `cancel`. The loop sees both in its select, between datagrams.  *)
(* Time is counted in steps: `age` since a source's last datagram, `quiet` *)
(* since its relay last heard the client.                                  *)
(***************************************************************************)
CONSTANTS
    Source,       \* public source addresses
    UdpClient,       \* clients a route may name
    UdpIdle,         \* the relay's idle window per client: UDP_IDLE or its option
    DataTtl,      \* UDP_DATA_TTL
    Margin,       \* what a custom window adds: 60 s
    UdpCap,          \* MAX_SOURCES_PER_UDP_FORWARD
    MaxRelay,     \* relays opened, over the whole run
    MaxRoutes     \* route changes

SourcesAssumption ==
    /\ UdpIdle \in [UdpClient -> Nat] /\ DataTtl \in Nat /\ Margin \in Nat
    /\ UdpCap \in Nat \ {0} /\ MaxRelay \in Nat /\ MaxRoutes \in Nat

Relay == 1..MaxRelay

VARIABLES
    loop,         \* the listener's loop: what it is doing, for whom
    sessions,     \* source -> the relay its slot feeds, 0 for no entry
    age,          \* source -> steps since its entry's last datagram
    relays,       \* the relay tasks
    route,        \* the client the key routes to
    request,      \* the admin request: none, or the route stored and not yet cut
    flush,        \* the loop's flush permit
    cancel,       \* the loop's cancel permit
    changes

udpVars == <<loop, sessions, age, relays, route, request, flush, cancel, changes>>

NoRelay == [at |-> "none", src |-> "none", target |-> "none", quiet |-> 0]
Over == [NoRelay EXCEPT !.at = "ended"]
Select == [at |-> "select", src |-> "none", target |-> "none"]

\* The entry's time to live, widened for a client with a longer idle window.
Ttl(c) == IF UdpIdle[c] + Margin > DataTtl THEN UdpIdle[c] + Margin ELSE DataTtl

LongestTtl == CHOOSE t \in {Ttl(c) : c \in UdpClient} : \A c \in UdpClient : Ttl(c) <= t

UdpTypeOK ==
    /\ loop.at \in {"select", "parking", "ended"}
    /\ loop.at = "parking" => loop.src \in Source /\ loop.target \in UdpClient
    /\ sessions \in [Source -> 0..MaxRelay]
    /\ age \in [Source -> 0..LongestTtl]
    /\ \A r \in Relay : /\ relays[r].at \in {"none", "opening", "up", "ended"}
                        /\ relays[r].quiet \in Nat
    /\ route \in UdpClient
    /\ request \in {"none", "stored"}
    /\ flush \in BOOLEAN /\ cancel \in BOOLEAN

Entries == {s \in Source : sessions[s] # 0}
Closed(s) == relays[sessions[s]].at = "ended"
Expired(s) == Closed(s) \/ age[s] >= Ttl(relays[sessions[s]].target)

\* Drop the expired entries; dropping a slot is how its relay learns of it.
Evict == [s \in Source |-> IF s \in Entries /\ Expired(s) THEN 0 ELSE sessions[s]]

\* The relay's slot is still in the map.
Fed(r) == \E s \in Source : sessions[s] = r

-----------------------------------------------------------------------------
\* A datagram of a source with a live slot is queued, or dropped by a full one.
Deliver(s) ==
    /\ loop.at = "select"
    /\ s \in Entries /\ ~Closed(s)
    /\ age' = [age EXCEPT ![s] = 0]
    /\ UNCHANGED <<loop, sessions, relays, route, request, flush, cancel, changes>>

\* A datagram of a new source, or of one whose slot is dead: at the cap one
\* eviction pass runs; a source admitted has its client resolved.
Park(s) ==
    /\ loop.at = "select"
    /\ s \in Entries => Closed(s)
    /\ LET rest == [sessions EXCEPT ![s] = 0]
           atCap(m) == Cardinality({x \in Source : m[x] # 0}) >= UdpCap
           kept == IF atCap(rest) THEN [Evict EXCEPT ![s] = 0] ELSE rest
       IN  /\ sessions' = kept
           /\ loop' = IF atCap(kept) THEN Select
                      ELSE [at |-> "parking", src |-> s, target |-> route]
    /\ UNCHANGED <<age, relays, route, request, flush, cancel, changes>>

\* The slot is inserted and the client asked to open; a client that cannot take
\* the request leaves no entry.
Parked(sent) ==
    /\ loop.at = "parking"
    /\ loop' = Select
    /\ IF ~sent THEN UNCHANGED <<sessions, age, relays>>
       ELSE \E r \in Relay :
                /\ relays[r].at = "none"
                /\ \A q \in Relay : relays[q].at = "none" => r <= q
                /\ relays' = [relays EXCEPT ![r] = [NoRelay EXCEPT
                       !.at = "opening", !.src = loop.src, !.target = loop.target]]
                /\ sessions' = [sessions EXCEPT ![loop.src] = r]
                /\ age' = [age EXCEPT ![loop.src] = 0]
    /\ UNCHANGED <<route, request, flush, cancel, changes>>

\* The flush permit: every slot is dropped and the loop keeps serving.
Flush ==
    /\ loop.at = "select" /\ flush
    /\ flush' = FALSE
    /\ sessions' = [s \in Source |-> 0]
    /\ UNCHANGED <<loop, age, relays, route, request, cancel, changes>>

\* The sweep drops dead and expired entries.
Sweep ==
    /\ loop.at = "select"
    /\ sessions' = Evict
    /\ UNCHANGED <<loop, age, relays, route, request, flush, cancel, changes>>

\* The cancel permit: the loop returns and its map is dropped.
Ends ==
    /\ loop.at = "select" /\ cancel
    /\ loop' = [Select EXCEPT !.at = "ended"]
    /\ sessions' = [s \in Source |-> 0]
    /\ UNCHANGED <<age, relays, route, request, flush, cancel, changes>>

-----------------------------------------------------------------------------
\* The client's data channel arrives and the relay starts.
Claimed(r) ==
    /\ relays[r].at = "opening"
    /\ relays' = [relays EXCEPT ![r] = [@ EXCEPT !.at = "up", !.quiet = 0]]
    /\ UNCHANGED <<loop, sessions, age, route, request, flush, cancel, changes>>

\* OPEN_TIMEOUT, or the session's cancel, before it does.
OpenTimeout(r) ==
    /\ relays[r].at = "opening"
    /\ relays' = [relays EXCEPT ![r] = Over]
    /\ UNCHANGED <<loop, sessions, age, route, request, flush, cancel, changes>>

\* A frame of the client, a keepalive included, refreshes the idle mark.
Heard(r) ==
    /\ relays[r].at = "up"
    /\ relays' = [relays EXCEPT ![r].quiet = 0]
    /\ UNCHANGED <<loop, sessions, age, route, request, flush, cancel, changes>>

\* The relay ends: its slot was dropped and the queue is drained, or a tick finds
\* the client silent for the whole window.
RelayEnds(r) ==
    /\ relays[r].at = "up"
    /\ ~Fed(r) \/ relays[r].quiet >= UdpIdle[relays[r].target]
    /\ relays' = [relays EXCEPT ![r] = Over]
    /\ UNCHANGED <<loop, sessions, age, route, request, flush, cancel, changes>>

\* The channel fails or the client's session is cancelled.
RelayFails(r) ==
    /\ relays[r].at = "up"
    /\ relays' = [relays EXCEPT ![r] = Over]
    /\ UNCHANGED <<loop, sessions, age, route, request, flush, cancel, changes>>

\* SetRoute stores the route, then cut_established signals the flush.
SetRoute(c) ==
    /\ request = "none" /\ changes < MaxRoutes /\ c # route
    /\ changes' = changes + 1
    /\ route' = c
    /\ request' = "stored"
    /\ UNCHANGED <<loop, sessions, age, relays, flush, cancel>>

UdpCutEstablished ==
    /\ request = "stored"
    /\ request' = "none"
    /\ flush' = TRUE
    /\ UNCHANGED <<loop, sessions, age, relays, route, cancel, changes>>

UdpRemoveListener ==
    /\ ~cancel
    /\ cancel' = TRUE
    /\ UNCHANGED <<loop, sessions, age, relays, route, request, flush, changes>>

\* A step of time is longer than OPEN_TIMEOUT: no open spans one.
Tick ==
    /\ \A r \in Relay : relays[r].at # "opening"
    /\ age' = [s \in Source |-> IF s \notin Entries \/ Closed(s) THEN 0
                                ELSE IF age[s] < LongestTtl THEN age[s] + 1 ELSE age[s]]
    /\ relays' = [r \in Relay |->
           IF relays[r].at = "up" /\ relays[r].quiet < UdpIdle[relays[r].target]
           THEN [relays[r] EXCEPT !.quiet = @ + 1] ELSE relays[r]]
    /\ UNCHANGED <<loop, sessions, route, request, flush, cancel, changes>>

UdpInit ==
    /\ loop = Select
    /\ sessions = [s \in Source |-> 0]
    /\ age = [s \in Source |-> 0]
    /\ relays = [r \in Relay |-> NoRelay]
    /\ route \in UdpClient
    /\ request = "none"
    /\ flush = FALSE /\ cancel = FALSE /\ changes = 0

UdpNext ==
    \/ \E s \in Source : Deliver(s) \/ Park(s)
    \/ \E sent \in BOOLEAN : Parked(sent)
    \/ Flush \/ Sweep \/ Ends
    \/ \E r \in Relay : \/ Claimed(r) \/ OpenTimeout(r) \/ Heard(r)
                        \/ RelayEnds(r) \/ RelayFails(r)
    \/ \E c \in UdpClient : SetRoute(c)
    \/ UdpCutEstablished \/ UdpRemoveListener \/ Tick

\* Spawned tasks are polled and their timers fire.
UdpDue(i, r) ==
    \/ i = 1 /\ UdpCutEstablished
    \/ i = 2 /\ \E sent \in BOOLEAN : Parked(sent)
    \/ i = 3 /\ (OpenTimeout(r) \/ RelayEnds(r))
UdpInsisted(i) ==
    \/ i = 1 /\ Flush
    \/ i = 2 /\ Ends

UdpSpec == UdpInit /\ [][UdpNext]_udpVars

-----------------------------------------------------------------------------
\* After a route change no source stays with the old client: an entry for another
\* client is one the pending flush is about to drop, however the change fell
\* between the datagram's routing and the insert (park_udp_source).
SourcesFollowTheRoute ==
    \A s \in Entries :
        ~Closed(s) /\ relays[sessions[s]].target # route => flush \/ request = "stored"

\* MAX_SOURCES_PER_UDP_FORWARD bounds the entries of a listener.
SourcesBounded == Cardinality(Entries) <= UdpCap

\* A relay that lost its slot, to a flush, a sweep or the listener's removal,
\* ends, even one still waiting for its client when that happened.
OrphansEndWhen(r) == relays[r].at \in {"opening", "up"} /\ ~Fed(r)
OrphansEndThen(r) == relays[r].at = "ended"
=============================================================================
