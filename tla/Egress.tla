------------------------------- MODULE Egress -------------------------------
(***************************************************************************)
(* The user-space proxy's connections: the choice of an egress link for    *)
(* each connection, the stream between a client and its remote end, and the*)
(* rewriting of an HTTP head.                                              *)
(***************************************************************************)
EXTENDS Integers, FiniteSets, Sequences
LOCAL INSTANCE SequencesExt

(***************************************************************************)
(* znpppoe's proxy front ends up to the splice (proxy.rs, socks5.rs,       *)
(* httpproxy.rs, and run and open of netstack.rs): a client connection     *)
(* takes a permit, its username chooses a PPPoE session over those live,   *)
(* and the session's netstack opens the connection or refuses it.          *)
(*                                                                         *)
(* Each session has a driver, which publishes whether it is established,   *)
(* and a netstack task that reads that at the top of its loop and then     *)
(* sets `configured` and the selector's live flag.  Passwords, addresses   *)
(* and replies are abstracted to the outcomes they lead to.                *)
(***************************************************************************)
CONSTANTS
  N,         \* number of PPPoE sessions
  Tokens,    \* sticky tokens
  Conns,     \* client connections
  Fronts,     \* conn -> "socks" or "http"
  MaxConns,  \* permits of the shared semaphore
  StickyMax, \* STICKY_MAX
  Flaps      \* bound: changes of a driver's state

SelectAssumption ==
  /\ N \in Nat \ {0} /\ Fronts \in [Conns -> {"socks", "http"}]
  /\ MaxConns \in Nat /\ StickyMax \in Nat \ {0} /\ Flaps \in Nat

Sessions == 0 .. N - 1

(* What a username asks for: any session, one pinned, a sticky one, or     *)
(* nothing this proxy knows.                                               *)
Names == {<<"any">>, <<"bad">>} \cup ({"pin"} \X (0 .. N)) \cup
         ({"sticky"} \X Tokens)

VARIABLES
  est,     \* session -> the driver holds a negotiated address
  conf,    \* session -> the netstack's `configured`, and the live flag
  rr,      \* the round-robin counter, modulo N
  sticky,  \* token -> session, or -1
  selectConn,    \* conn -> [pc, idx, out]: where it is, its session, its outcome
  seen,    \* ghost: conn -> its session was seen not live since it chose it
  flaps    \* changes left

selectVars == <<est, conf, rr, sticky, selectConn, seen, flaps>>

Active == {c \in Conns : selectConn[c].pc \notin {"new", "over"}}

----------------------------------------------------------------------------
(* The selector.                                                           *)

is_live(i) == conf[i]

(* live_from: the first live session at or after start, wrapping around;   *)
(* -1 for none.                                                            *)
live_from(start) ==
  LET hits == {k \in 0 .. N - 1 : is_live((start + k) % N)} IN
  IF hits = {} THEN -1
  ELSE (start + CHOOSE k \in hits : \A j \in hits : k <= j) % N

(* The session of a token: its own while that is live, the next live one   *)
(* after it, or a fresh choice.                                            *)
StickyPick(t) ==
  IF sticky[t] = -1 THEN live_from(rr)
  ELSE IF is_live(sticky[t]) THEN sticky[t]
  ELSE live_from(sticky[t] + 1)

Remembered == {t \in Tokens : sticky[t] # -1}

(* The insert of sticky: a full map is cleared first. *)
Insert(t, i) ==
  sticky' = [u \in Tokens |->
    IF u = t THEN i
    ELSE IF Cardinality(Remembered) >= StickyMax THEN -1 ELSE sticky[u]]

(* sticky, which leaves the map alone when it has nothing to change. *)
Sticky(t) ==
  LET i == StickyPick(t) IN
  /\ IF i = -1 \/ i = sticky[t] THEN UNCHANGED sticky ELSE Insert(t, i)
  /\ rr' = IF sticky[t] = -1 THEN (rr + 1) % N ELSE rr

(* The answer of select: a session, -1 for down or -2 for denied. *)
Chosen(name) ==
  CASE name[1] = "any" -> live_from(rr)
    [] name[1] = "pin" -> IF name[2] >= N THEN -2
                          ELSE IF is_live(name[2]) THEN name[2] ELSE -1
    [] name[1] = "sticky" -> StickyPick(name[2])
    [] OTHER -> -2

(* What select changes. *)
select(name) ==
  CASE name[1] = "any" -> rr' = (rr + 1) % N /\ UNCHANGED sticky
    [] name[1] = "sticky" -> Sticky(name[2])
    [] OTHER -> UNCHANGED <<rr, sticky>>

----------------------------------------------------------------------------
(* A client connection.                                                    *)

To(c, pc, idx, out) ==
  selectConn' = [selectConn EXCEPT ![c] = [pc |-> pc, idx |-> idx, out |-> out]]

(* serve: a permit, or the socket is dropped at the cap. *)
Accept(c) ==
  /\ selectConn[c].pc = "new"
  /\ IF Cardinality(Active) < MaxConns THEN To(c, "hello", -1, "none")
     ELSE To(c, "over", -1, "capped")
  /\ UNCHANGED <<est, conf, rr, sticky, seen, flaps>>

(* The handshake ends without credentials: malformed, cut or timed out. *)
HelloFails(c) ==
  /\ selectConn[c].pc = "hello"
  /\ To(c, "over", -1, "cut")
  /\ UNCHANGED <<est, conf, rr, sticky, seen, flaps>>

(* The username is resolved.  A SOCKS client whose sessions are down still *)
(* sends its request, which is answered afterwards; HTTP is answered here. *)
Select(c, name) ==
  /\ selectConn[c].pc = "hello"
  /\ LET i == Chosen(name) IN
     CASE i = -2 -> To(c, "over", -1, "denied")
       [] i = -1 /\ Fronts[c] = "http" -> To(c, "over", -1, "down")
       [] OTHER -> To(c, "request", i, "none")
  /\ select(name)
  /\ seen' = [seen EXCEPT ![c] = (Chosen(name) = -1)]
  /\ UNCHANGED <<est, conf, flaps>>

(* The target is read or resolved, or is not: then the connection ends.    *)
(* With a session, the netstack is asked to open it.                       *)
SelectRequest(c) ==
  /\ selectConn[c].pc = "request"
  /\ \/ To(c, "over", selectConn[c].idx, "cut")
     \/ IF selectConn[c].idx = -1 THEN To(c, "over", -1, "down")
        ELSE To(c, "asked", selectConn[c].idx, "none")
  /\ UNCHANGED <<est, conf, rr, sticky, seen, flaps>>

(* The answer to a connect that failed: SOCKS says whether the session is  *)
(* live, HTTP does not.                                                    *)
SelectRefused(c) ==
  IF Fronts[c] = "socks" /\ ~ is_live(selectConn[c].idx)
  THEN To(c, "over", selectConn[c].idx, "down")
  ELSE To(c, "over", selectConn[c].idx, "failed")

(* open: refused unless the session is configured. *)
Open(c) ==
  /\ selectConn[c].pc = "asked"
  /\ IF conf[selectConn[c].idx] THEN To(c, "syn", selectConn[c].idx, "none") ELSE SelectRefused(c)
  /\ UNCHANGED <<est, conf, rr, sticky, seen, flaps>>

(* The connect wait passes, or the remote refuses. *)
ConnectFails(c) ==
  /\ selectConn[c].pc \in {"asked", "syn"}
  /\ SelectRefused(c)
  /\ UNCHANGED <<est, conf, rr, sticky, seen, flaps>>

(* The remote answers: the client is told and the bytes are spliced. *)
Established(c) ==
  /\ selectConn[c].pc = "syn"
  /\ To(c, "splice", selectConn[c].idx, "none")
  /\ UNCHANGED <<est, conf, rr, sticky, seen, flaps>>

(* Both directions have ended; the permit goes back. *)
SelectSpliceEnds(c) ==
  /\ selectConn[c].pc = "splice"
  /\ To(c, "over", selectConn[c].idx, "served")
  /\ UNCHANGED <<est, conf, rr, sticky, seen, flaps>>

----------------------------------------------------------------------------
(* The driver gains or loses the session. *)
Flap(i) ==
  /\ flaps > 0
  /\ est' = [est EXCEPT ![i] = ~ @]
  /\ flaps' = flaps - 1
  /\ UNCHANGED <<conf, rr, sticky, selectConn, seen>>

(* The top of the netstack's loop: what the driver published is taken up.  *)
Observe(i) ==
  /\ conf[i] # est[i]
  /\ conf' = [conf EXCEPT ![i] = est[i]]
  /\ seen' = [c \in Conns |-> seen[c] \/ (selectConn[c].idx = i /\ ~ est[i])]
  /\ UNCHANGED <<est, rr, sticky, selectConn, flaps>>

(* Nothing is left to serve. *)
Quiet == Active = {} /\ (\A c \in Conns : selectConn[c].pc = "over") /\ UNCHANGED selectVars

SelectInit ==
  /\ est \in [Sessions -> BOOLEAN] /\ conf = [i \in Sessions |-> FALSE]
  /\ rr = 0 /\ sticky = [t \in Tokens |-> -1]
  /\ selectConn = [c \in Conns |-> [pc |-> "new", idx |-> -1, out |-> "none"]]
  /\ seen = [c \in Conns |-> FALSE]
  /\ flaps = Flaps

SelectNext ==
  \/ \E c \in Conns : Accept(c)
  \/ \E c \in Conns : HelloFails(c)
  \/ \E c \in Conns, name \in Names : Select(c, name)
  \/ \E c \in Conns : SelectRequest(c)
  \/ \E c \in Conns : Open(c)
  \/ \E c \in Conns : ConnectFails(c)
  \/ \E c \in Conns : Established(c)
  \/ \E c \in Conns : SelectSpliceEnds(c)
  \/ \E i \in Sessions : Flap(i)
  \/ \E i \in Sessions : Observe(i)
  \/ Quiet

SelectSpec == SelectInit /\ [][SelectNext]_selectVars

(* The handshake, the resolver and the connect are timed, so those stages  *)
(* end whatever the client and the remote do; a splice need not end.       *)
SelectDue(c) == HelloFails(c) \/ SelectRequest(c) \/ ConnectFails(c)

----------------------------------------------------------------------------
(* The type invariant. *)
SelectTypeOK ==
  /\ est \in [Sessions -> BOOLEAN] /\ conf \in [Sessions -> BOOLEAN]
  /\ rr \in Sessions /\ sticky \in [Tokens -> Sessions \cup {-1}]
  /\ \A c \in Conns :
       /\ selectConn[c].pc \in {"new", "hello", "request", "asked", "syn", "splice",
                                "over"}
       /\ selectConn[c].idx \in Sessions \cup {-1}
       /\ selectConn[c].out \in {"none", "capped", "cut", "denied", "down", "failed",
                                 "served"}

(* A token changes its session only when that is not live, or when the     *)
(* map was full and is cleared (sticky).                                   *)
StickyKeeps ==
  \A t \in Tokens : sticky[t] # -1 /\ sticky'[t] # sticky[t] =>
       ~ conf[sticky[t]] \/ Cardinality(Remembered) >= StickyMax

(* The sticky map never holds more tokens than STICKY_MAX. *)
StickyBounded == Cardinality(Remembered) <= StickyMax

(* The front ends together never serve more connections than they have     *)
(* permits, and every connection that is not being served has given its    *)
(* permit back.                                                            *)
PermitsHeld == Cardinality(Active) <= MaxConns

(* A client is told that no session is up only when its session, or every  *)
(* session it could use, was down at some point since it was chosen.       *)
DownIsTrue ==
  \A c \in Conns : selectConn[c].pc = "over" /\ selectConn[c].out = "down"
                   /\ selectConn[c].idx # -1 => seen[c]

(* As long as some session is live, a username that names none finds one,  *)
(* and it is the first at or after the counter (live_from).                *)
FindsLive ==
  \A s \in Sessions :
    LET i == live_from(s) IN
    IF \A j \in Sessions : ~ is_live(j) THEN i = -1
    ELSE /\ i \in Sessions /\ is_live(i)
         /\ \A j \in Sessions :
              is_live(j) => (i - s + N) % N <= (j - s + N) % N

(* A client that connected is served or answered in the end, also when its *)
(* session goes down under it (CONNECT_WAIT, the handshake timeouts).      *)
AnsweredWhen(c) == selectConn[c].pc \in {"hello", "request", "asked", "syn"}
AnsweredThen(c) == selectConn[c].pc \in {"splice", "over"}

-----------------------------------------------------------------------------
(***************************************************************************)
(* The bytes of one proxied connection (Conn::splice of proxy.rs, service  *)
(* of netstack.rs): two tasks between the client's socket and two bounded  *)
(* channels, and the netstack's service step between the channels and a    *)
(* TCP socket.  A service step is one action, as it runs without an await. *)
(*                                                                         *)
(* Data is counted in units, one unit being what one recv of the socket    *)
(* hands over; a chunk the client sends is Chunk units.  The TCP socket is *)
(* the external library's: which of its states the code tells apart is     *)
(* kept in `tcp`.                                                          *)
(***************************************************************************)
CONSTANTS
  Depth,   \* CHAN_DEPTH
  Chunk,   \* units of one read of the client's socket
  Budget,  \* OUT_BUF_BUDGET
  TxBuf, RxBuf,  \* the socket's buffers
  ToSend,  \* bound: chunks the client sends
  ToRecv,  \* bound: units the remote sends
  Lingers, \* whether a closing socket lasts until its data is taken
  Breaks   \* whether the client or the remote may break off

StreamAssumption ==
  /\ \A n \in {Depth, Chunk, Budget, TxBuf, RxBuf} : n \in Nat \ {0}
  /\ ToSend \in Nat /\ ToRecv \in Nat /\ Lingers \in BOOLEAN
  /\ Breaks \in BOOLEAN

VARIABLES
  client,  \* [left, eof, broken, got, ended]: chunks to write, its end, ...
  to,      \* [n, open]: the channel to the remote, in chunks
  from,    \* [n, tx, rx]: the channel to the client; which halves exist
  streamConn,    \* [there, established, done, out]: the netstack's Conn
  tcp,     \* [st, tx, rx, fin, closed]: the socket
  remote   \* [left, broke]: units the remote still sends; it broke off

streamVars == <<client, to, from, streamConn, tcp, remote>>

Lower(a, b) == IF a < b THEN a ELSE b

----------------------------------------------------------------------------
(* The splice tasks and the client.                                        *)

(* A read of the client's socket is queued; a full channel blocks. *)
ClientWrites ==
  /\ to.open /\ ~ client.broken /\ client.left > 0 /\ to.n < Depth
  /\ client' = [client EXCEPT !.left = @ - 1]
  /\ to' = [to EXCEPT !.n = @ + 1]
  /\ UNCHANGED <<from, streamConn, tcp, remote>>

(* The read ends, or the channel's receiver is gone: the sender is         *)
(* dropped.                                                                *)
ClientEnds ==
  /\ to.open /\ (client.left = 0 \/ client.broken \/ ~ streamConn.there)
  /\ to' = [to EXCEPT !.open = FALSE]
  /\ UNCHANGED <<client, from, streamConn, tcp, remote>>

(* A chunk is written to the client, or cannot be: then the receiver is    *)
(* dropped.                                                                *)
ClientReads ==
  /\ from.rx /\ from.n > 0
  /\ IF client.broken
     THEN from' = [from EXCEPT !.rx = FALSE, !.n = 0] /\ UNCHANGED client
     ELSE /\ from' = [from EXCEPT !.n = @ - 1]
          /\ client' = [client EXCEPT !.got = @ + 1]
  /\ UNCHANGED <<to, streamConn, tcp, remote>>

(* The channel is empty and its sender gone: the client's socket is shut   *)
(* down.                                                                   *)
ClientEof ==
  /\ from.rx /\ from.n = 0 /\ ~ from.tx
  /\ from' = [from EXCEPT !.rx = FALSE]
  /\ client' = [client EXCEPT !.ended = TRUE]
  /\ UNCHANGED <<to, streamConn, tcp, remote>>

(* The client's connection breaks. *)
ClientBreaks ==
  /\ Breaks /\ ~ client.broken /\ ~ client.ended
  /\ client' = [client EXCEPT !.broken = TRUE]
  /\ UNCHANGED <<to, from, streamConn, tcp, remote>>

----------------------------------------------------------------------------
(* The socket, driven by the remote.                                       *)

StreamConnected ==
  /\ streamConn.there /\ tcp.st = "syn"
  /\ tcp' = [tcp EXCEPT !.st = "open"]
  /\ UNCHANGED <<client, to, from, streamConn, remote>>

(* The remote's data arrives; the answer to the handshake has been sent by *)
(* then, so a service step has seen the socket established.                *)
Arrives ==
  /\ streamConn.there /\ tcp.st = "open" /\ streamConn.established /\ ~ tcp.fin
  /\ remote.left > 0 /\ tcp.rx < RxBuf
  /\ tcp' = [tcp EXCEPT !.rx = @ + 1]
  /\ remote' = [remote EXCEPT !.left = @ - 1]
  /\ UNCHANGED <<client, to, from, streamConn>>

RemoteFin ==
  /\ streamConn.there /\ tcp.st = "open" /\ streamConn.established /\ ~ tcp.fin
  /\ remote.left = 0
  /\ tcp' = [tcp EXCEPT !.fin = TRUE]
  /\ UNCHANGED <<client, to, from, streamConn, remote>>

(* The remote acknowledges a unit. *)
Acked ==
  /\ streamConn.there /\ tcp.st = "open" /\ tcp.tx > 0
  /\ tcp' = [tcp EXCEPT !.tx = @ - 1]
  /\ UNCHANGED <<client, to, from, streamConn, remote>>

(* Both sides have closed: the socket is done, after TIME-WAIT or at once. *)
Closes ==
  /\ streamConn.there /\ tcp.st = "open" /\ tcp.closed /\ tcp.fin /\ tcp.tx = 0
  /\ Lingers => tcp.rx = 0 /\ from.tx = FALSE
  /\ tcp' = [tcp EXCEPT !.st = "closed"]
  /\ UNCHANGED <<client, to, from, streamConn, remote>>

(* A reset, a refused connect, or the socket's timeout. *)
RemoteBreaks ==
  /\ Breaks /\ streamConn.there /\ tcp.st \in {"syn", "open"}
  /\ tcp' = [tcp EXCEPT !.st = "closed"]
  /\ remote' = [remote EXCEPT !.broke = TRUE]
  /\ UNCHANGED <<client, to, from, streamConn>>

----------------------------------------------------------------------------
(* The service step.                                                       *)

may_send(t) == t.st = "open" /\ ~ t.closed
may_recv(t) == t.st = "open" /\ (~ t.fin \/ t.rx > 0)

(* client -> remote: chunks are staged until the budget is reached. *)
Staged ==
  CHOOSE k \in 0 .. to.n :
    /\ \A j \in 0 .. k - 1 : streamConn.out + j * Chunk < Budget
    /\ k = to.n \/ streamConn.out + k * Chunk >= Budget

(* What the socket accepts of what is staged. *)
Sent(out) == IF may_send(tcp) THEN Lower(out, TxBuf - tcp.tx) ELSE 0

(* remote -> client: as much as the channel has room for. *)
Delivered == IF from.tx /\ from.rx THEN Lower(tcp.rx, Depth - from.n) ELSE 0

(* client_gone: there is data and the client's receiver is gone. *)
Gone == tcp.rx > 0 /\ from.tx /\ ~ from.rx

(* The socket is closed once the client has ended and all is handed over. *)
Closing(done, left) == done /\ left = 0 /\ may_send(tcp)

(* The remote half-closed and its data is drained. *)
HalfClosed(c, t) == c.established /\ ~ may_recv(t) /\ t.rx = 0

(* service on an open socket. *)
Serve ==
  /\ streamConn.there /\ tcp.st # "closed"
  /\ LET k == Staged
         out == streamConn.out + k * Chunk
         s == Sent(out)
         done == streamConn.done \/ (~ to.open /\ to.n = k /\ out < Budget)
         c == [streamConn EXCEPT !.established = @ \/ tcp.st = "open",
                                 !.out = out - s, !.done = done]
         n == Delivered
         t == [tcp EXCEPT
                !.tx = @ + s, !.rx = @ - n,
                !.closed = @ \/ Closing(done, out - s),
                !.st = IF Gone THEN "closed" ELSE @]
     IN /\ streamConn' = c /\ tcp' = t
        /\ to' = [to EXCEPT !.n = @ - k]
        /\ from' = [from EXCEPT
                     !.n = @ + n,
                     !.tx = @ /\ ~ Gone /\ ~ HalfClosed(c, t)]
  /\ UNCHANGED <<client, remote>>

(* service on a closed socket: the Conn is removed, and with it its ends   *)
(* of the channels.                                                        *)
Reap ==
  /\ streamConn.there /\ tcp.st = "closed"
  /\ streamConn' = [streamConn EXCEPT !.there = FALSE, !.out = 0]
  /\ from' = [from EXCEPT !.tx = FALSE]
  /\ to' = [to EXCEPT !.n = 0]
  /\ UNCHANGED <<client, tcp, remote>>

(* Both tasks are over and the Conn is gone. *)
StreamOver == ~ streamConn.there /\ ~ to.open /\ ~ from.rx /\ UNCHANGED streamVars

StreamInit ==
  /\ client = [left |-> ToSend, broken |-> FALSE, got |-> 0, ended |-> FALSE]
  /\ to = [n |-> 0, open |-> TRUE]
  /\ from = [n |-> 0, tx |-> TRUE, rx |-> TRUE]
  /\ streamConn = [there |-> TRUE, established |-> FALSE, done |-> FALSE, out |-> 0]
  /\ tcp = [st |-> "syn", tx |-> 0, rx |-> 0, fin |-> FALSE, closed |-> FALSE]
  /\ remote = [left |-> ToRecv, broke |-> FALSE]

StreamNext ==
  \/ ClientWrites
  \/ ClientEnds
  \/ ClientReads
  \/ ClientEof
  \/ ClientBreaks
  \/ StreamConnected
  \/ Arrives
  \/ RemoteFin
  \/ Acked
  \/ Closes
  \/ RemoteBreaks
  \/ Serve
  \/ Reap
  \/ StreamOver

StreamSpec == StreamInit /\ [][StreamNext]_streamVars

(* The netstack's loop turns at least every MAX_IDLE, and the splice tasks *)
(* run; the client reads what it is sent.  The remote owes nothing.        *)
StreamDue(i) ==
    \/ i = 1 /\ (Serve \/ Reap)
    \/ i = 2 /\ (ClientReads \/ ClientEof \/ ClientEnds)

----------------------------------------------------------------------------
(* The type invariant. *)
StreamTypeOK ==
  /\ client.left \in 0 .. ToSend /\ client.got \in 0 .. ToRecv
  /\ to.n \in 0 .. Depth /\ from.n \in 0 .. Depth
  /\ tcp.st \in {"syn", "open", "closed"} /\ tcp.tx \in 0 .. TxBuf
  /\ tcp.rx \in 0 .. RxBuf /\ remote.left \in 0 .. ToRecv

(* What is staged for the remote never exceeds the budget by a whole       *)
(* chunk, so a remote that does not read blocks the client instead of      *)
(* growing memory (OUT_BUF_BUDGET).                                        *)
OutBufBounded == streamConn.out < Budget + Chunk

(* A client whose stream ended, with neither side breaking off, has        *)
(* everything the remote sent: the end is signalled only after the         *)
(* remote's FIN and once the data before it is delivered (service).        *)
EofAfterData ==
  client.ended /\ ~ client.broken /\ ~ remote.broke =>
    tcp.fin /\ client.got = ToRecv

(* The remote's FIN is only answered once everything the client sent is in *)
(* the socket: no byte the client wrote is cut off by the close.           *)
CloseAfterData ==
  tcp.closed /\ ~ client.broken =>
    client.left = 0 /\ to.n = 0 /\ streamConn.out = 0

(* A remote that closes first is seen by the client: the stream ends. *)
ServerClosesFirstWhen == tcp.fin
ServerClosesFirstThen == client.ended \/ ~from.rx

(* A connection with data for a client that is gone is taken down, however *)
(* long the remote stays (service).                                        *)
GoneIsReapedWhen == streamConn.there /\ tcp.rx > 0 /\ ~from.rx /\ from.tx
GoneIsReapedThen == ~streamConn.there

-----------------------------------------------------------------------------
(***************************************************************************)
(* One connection to the HTTP front end of znpppoe                         *)
(* (crates/znpppoe/src/httpproxy.rs): the request head is read up to the   *)
(* blank line and parsed, the user is checked, the target resolved and     *)
(* connected, and then either the tunnel is acknowledged or the rewritten  *)
(* head is sent ahead of the spliced body.                                 *)
(*                                                                         *)
(* The client's stream is a sequence of units: the request line, header    *)
(* lines, the blank line and pieces of body; the front end reads one at a  *)
(* time.  A header is its lower-case name and what its value says: of a    *)
(* Connection header the name it lists.  The choice of a session is module *)
(* EgressSelect.                                                           *)
(***************************************************************************)
CONSTANTS
    Methods,      \* "connect", "get"
    Targets,      \* shapes of a request target, see split_host_port
    Headers,      \* the header lines a client may send
    MaxHeaders,   \* bound: header lines of a head
    MaxBody,      \* bound: pieces of body
    MaxHead       \* MAX_HEAD, in units

STRIP_HEADERS == {"connection", "proxy-connection", "keep-alive", "proxy-authenticate",
                  "proxy-authorization", "te", "trailer", "upgrade", "host"}

Line(kind, name, value) == [kind |-> kind, name |-> name, value |-> value]
Blank == Line("blank", "", "")
Piece(n) == [kind |-> "body", name |-> "", value |-> n]

VARIABLES
    sent,      \* ghost: the whole stream of the client
    sock,      \* what of it is still in the socket
    head,      \* read_head's buffer
    at,        \* where the handler is
    replies,   \* the status lines the client was sent
    up         \* what went to the connection of the chosen session

headVars == <<sent, sock, head, at, replies, up>>

-----------------------------------------------------------------------------
(* Request::parse. *)

Lines(h) == SelectSeq(Tail(h), LAMBDA l : l.kind # "blank")
Named(h, name) == SelectSeq(Lines(h), LAMBDA l : l.kind = "header" /\ l.name = name)
Folded(h) == \E i \in DOMAIN Lines(h) : Lines(h)[i].kind = "folded"

\* The authority of a target splits into a host and a port, given the default.
split_host_port(target, hasDefault) ==
    CASE target \in {"host:port", "[v6]:port"} -> TRUE
      [] target \in {"host", "[v6]"}           -> hasDefault
      [] OTHER                                 -> FALSE

BadTarget(h) ==
    IF h[1].name = "connect" THEN ~split_host_port(h[1].value, FALSE)
    ELSE ~split_host_port(h[1].value, TRUE)

\* The body is relayed as it is, so its framing must not be in doubt.
BadFraming(h) ==
    LET lengths == Named(h, "content-length")
    IN  \/ lengths # <<>> /\ Named(h, "transfer-encoding") # <<>>
        \/ Len(lengths) > 1
        \/ lengths # <<>> /\ lengths[1].value # "number"

HeadRefused(h) == Folded(h) \/ BadTarget(h) \/ (h[1].name # "connect" /\ BadFraming(h))

\* What the Connection headers list goes no further than this hop.
ConnNamed(h) == {l.value : l \in ToSet(Named(h, "connection"))}

Kept(h) == SelectSeq(Lines(h), LAMBDA l : /\ l.kind = "header"
                                          /\ l.name \notin STRIP_HEADERS
                                          /\ l.name \notin ConnNamed(h))

Rewritten(h) ==
    <<h[1], Line("header", "host", h[1].value)>> \o Kept(h)
        \o <<Line("header", "connection", "close"), Blank>>

\* The first Proxy-Authorization header decides; one that does not decode is none.
auth(h) == LET a == Named(h, "proxy-authorization")
           IN  IF a = <<>> THEN "none" ELSE a[1].value

-----------------------------------------------------------------------------
(* handle. *)

HeadInit ==
    /\ \E m \in Methods, t \in Targets, n \in 0..MaxHeaders, b \in 0..MaxBody :
         \E hs \in [1..n -> Headers] :
            sent = <<Line("request", m, t)>> \o hs \o <<Blank>> \o [i \in 1..b |-> Piece(i)]
    /\ sock = sent
    /\ head = <<>>
    /\ at = "head"
    /\ replies = <<>>
    /\ up = <<>>

\* One read: the blank line ends the head, what follows stays in the socket.
read_head ==
    /\ at = "head"
    /\ sock # <<>>
    /\ Len(head) < MaxHead
    /\ head' = Append(head, Head(sock))
    /\ sock' = Tail(sock)
    /\ at' = IF Head(sock) = Blank THEN "parse" ELSE "head"
    /\ UNCHANGED <<sent, replies, up>>

\* Too long, too slow or cut off: the socket is closed without a word.
HeadFails ==
    /\ at = "head"
    /\ at' = "closed"
    /\ UNCHANGED <<sent, sock, head, replies, up>>

Reply(status, next) == replies' = Append(replies, status) /\ at' = next

Parse ==
    /\ at = "parse"
    /\ CASE HeadRefused(head)           -> Reply(400, "closed")
         [] auth(head) # "good"     -> Reply(407, "closed")
         [] OTHER                   -> at' = "select" /\ UNCHANGED replies
    /\ UNCHANGED <<sent, sock, head, up>>

\* No live session, no address, no connection.
NoGateway ==
    /\ at \in {"select", "resolve", "connect"}
    /\ Reply(502, "closed")
    /\ UNCHANGED <<sent, sock, head, up>>

Proceed ==
    /\ at \in {"select", "resolve"}
    /\ at' = IF at = "select" THEN "resolve" ELSE "connect"
    /\ UNCHANGED <<sent, sock, head, replies, up>>

HeadConnected ==
    /\ at = "connect"
    /\ IF head[1].name = "connect"
       THEN Reply(200, "splice") /\ UNCHANGED up
       ELSE at' = "splice" /\ up' = Rewritten(head) /\ UNCHANGED replies
    /\ UNCHANGED <<sent, sock, head>>

\* The splice moves what the client still sends.
Splice ==
    /\ at = "splice"
    /\ sock # <<>>
    /\ up' = Append(up, Head(sock))
    /\ sock' = Tail(sock)
    /\ UNCHANGED <<sent, head, at, replies>>

HeadSpliceEnds ==
    /\ at = "splice"
    /\ at' = "closed"
    /\ UNCHANGED <<sent, sock, head, replies, up>>

HeadOver == at = "closed" /\ UNCHANGED headVars

HeadNext == read_head \/ HeadFails \/ Parse \/ NoGateway \/ Proceed \/ HeadConnected \/ Splice \/ HeadSpliceEnds \/ HeadOver

HeadSpec == HeadInit /\ [][HeadNext]_headVars

-----------------------------------------------------------------------------
HeadRequest == IF head = <<>> THEN FALSE ELSE head[1].name # "connect"
IsBody(u) == u.kind = "body"
Bodies(q) == SelectSeq(q, IsBody)
UpHeaders == SelectSeq(up, LAMBDA u : u.kind = "header")

HeadTypeOK ==
    /\ at \in {"head", "parse", "select", "resolve", "connect", "splice", "closed"}
    /\ Len(head) \in 0..MaxHead
    /\ Len(replies) \in 0..1

\* The body arrives as it was sent, from its first piece: reading the head takes
\* nothing of it, in a tunnel as in a forwarded request.
BodyIntact ==
    at \in {"splice", "connect", "resolve", "select"} => Bodies(up) \o Bodies(sock) = Bodies(sent)

\* Of the client's headers the origin sees exactly those meant for it, in their
\* order: none of the hop's own, none its Connection headers list, every other.
EndToEnd ==
    (HeadRequest /\ up # <<>>) =>
        LET theirs == [i \in 1..(Len(UpHeaders) - 2) |-> UpHeaders[i + 1]]
            forOrigin(l) == /\ l.kind = "header" /\ l.name \notin STRIP_HEADERS
                            /\ \A i \in DOMAIN sent : sent[i].name = "connection" => sent[i].value # l.name
        IN  theirs = SelectSeq(sent, forOrigin)

\* The origin is told one framing of the body, or none.
OneFraming ==
    (HeadRequest /\ up # <<>>) =>
        LET with(name) == {i \in DOMAIN UpHeaders : UpHeaders[i].name = name}
        IN  /\ Cardinality(with("content-length")) <= 1
            /\ with("content-length") = {} \/ with("transfer-encoding") = {}

\* A session is chosen for a client only on the first credentials it gives.
FirstCredentialsCount ==
    at \in {"select", "resolve", "connect", "splice"} =>
        \E i \in DOMAIN sent :
            /\ sent[i].name = "proxy-authorization" /\ sent[i].value = "good"
            /\ \A j \in 1..(i - 1) : sent[j].name # "proxy-authorization"
=============================================================================
