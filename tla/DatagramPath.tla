---------------------------- MODULE DatagramPath ----------------------------
(***************************************************************************)
(* One direction of a datagram channel: DgramTx::frame seals under a       *)
(* counter and queues for the socket, the socket's writer sends, the       *)
(* network loses, repeats and reorders, the router queues what arrives for *)
(* DgramRx, which opens it and keeps a replay window (StatelessNoise and   *)
(* ReplayWindow of src/src/noise.rs, src/src/dgram.rs, src/src/kcp.rs).    *)
(*                                                                         *)
(* The window's u128 is the set of the ages whose bit is set.  Buffers are *)
(* copied into and cleared before use, so their reuse does not show here.  *)
(***************************************************************************)
EXTENDS Integers, Sequences

CONSTANTS
    REPLAY_WINDOW_LEN,   \* also how many bits the window has
    MaxNonce,            \* the largest value of the counter
    Kinds,               \* kinds of frame that are sent
    SOCKET_SEND_CAP,     \* room in the socket's queue
    APP_CHAN_CAP         \* room in the receiver's queue

ASSUME WindowAssumption == REPLAY_WINDOW_LEN \in Nat /\ REPLAY_WINDOW_LEN > 0
ASSUME NonceAssumption == MaxNonce \in Nat
ASSUME CapAssumption == SOCKET_SEND_CAP \in Nat /\ APP_CHAN_CAP \in Nat

Ages == 0..(REPLAY_WINDOW_LEN - 1)
NoHighest == -1
Datagrams == [nonce : 0..MaxNonce, kind : Kinds, good : BOOLEAN]

VARIABLES
    send_nonce,
    outq,      \* queued for the socket
    net,       \* sent: each may still arrive, any number of times
    inq,       \* queued for the receiver
    highest,   \* the window
    seen,
    sealed,    \* ghost: everything sealed
    taken,     \* ghost: the nonces the window has accepted
    again,     \* ghost: one was accepted twice
    late       \* ghost: one was refused though new and recent

vars == <<send_nonce, outq, net, inq, highest, seen, sealed, taken, again, late>>

-----------------------------------------------------------------------------
\* A shift of the window's bits; what leaves it at the top is gone.
Shl(s, n) == {a \in Ages : a - n \in s}

\* The bug: a nonce below the highest is let through without being marked.
check_and_mark_unmarked(h, s, nonce) ==
    IF h = NoHighest THEN [ok |-> TRUE, highest |-> nonce, seen |-> {0}]
    ELSE IF nonce > h
    THEN [ok |-> TRUE, highest |-> nonce,
          seen |-> IF nonce - h >= REPLAY_WINDOW_LEN THEN {0} ELSE Shl(s, nonce - h) \cup {0}]
    ELSE IF h - nonce >= REPLAY_WINDOW_LEN \/ h - nonce \in s THEN [ok |-> FALSE, highest |-> h, seen |-> s]
    ELSE [ok |-> TRUE, highest |-> h, seen |-> s]

check_and_mark(h, s, nonce) ==
    IF h = NoHighest THEN [ok |-> TRUE, highest |-> nonce, seen |-> {0}]
    ELSE IF nonce > h
    THEN [ok |-> TRUE, highest |-> nonce,
          seen |-> IF nonce - h >= REPLAY_WINDOW_LEN THEN {0} ELSE Shl(s, nonce - h) \cup {0}]
    ELSE IF h - nonce >= REPLAY_WINDOW_LEN \/ h - nonce \in s THEN [ok |-> FALSE, highest |-> h, seen |-> s]
    ELSE [ok |-> TRUE, highest |-> h, seen |-> s \cup {h - nonce}]

\* The tag first, then the window.
open_in_place(h, s, d) ==
    IF ~d.good THEN [ok |-> FALSE, highest |-> h, seen |-> s] ELSE check_and_mark(h, s, d.nonce)

-----------------------------------------------------------------------------
Init ==
    /\ send_nonce = 0
    /\ outq = <<>> /\ inq = <<>>
    /\ net = {} /\ sealed = {}
    /\ highest = NoHighest /\ seen = {}
    /\ taken = {}
    /\ again = FALSE /\ late = FALSE

\* The counter stays below its largest value: there sealing is an error.
seal_at(kind) ==
    /\ send_nonce < MaxNonce
    /\ send_nonce' = send_nonce + 1
    /\ sealed' = sealed \cup {[nonce |-> send_nonce, kind |-> kind, good |-> TRUE]}

\* A full queue drops the datagram, and its nonce with it.
frame(kind) ==
    /\ seal_at(kind)
    /\ outq' = IF Len(outq) < SOCKET_SEND_CAP
               THEN Append(outq, [nonce |-> send_nonce, kind |-> kind, good |-> TRUE]) ELSE outq
    /\ UNCHANGED <<net, inq, highest, seen, taken, again, late>>

\* A send that fails is a datagram that never arrives.
socket_writer ==
    /\ outq # <<>>
    /\ net' = net \cup {Head(outq)}
    /\ outq' = Tail(outq)
    /\ UNCHANGED <<send_nonce, inq, highest, seen, sealed, taken, again, late>>

\* What the network or an older session brings; a full lane drops it.
Stray == [nonce : 0..MaxNonce, kind : Kinds, good : {FALSE}]
deliver(d) ==
    /\ d \in net \/ d \in Stray
    /\ Len(inq) < APP_CHAN_CAP
    /\ inq' = Append(inq, d)
    /\ UNCHANGED <<send_nonce, outq, net, highest, seen, sealed, taken, again, late>>

Recent(n) == \A t \in taken : t - n < REPLAY_WINDOW_LEN

DgramRx_next ==
    /\ inq # <<>>
    /\ inq' = Tail(inq)
    /\ LET d == Head(inq)
           r == open_in_place(highest, seen, d)
       IN  /\ highest' = r.highest
           /\ seen' = r.seen
           /\ taken' = IF r.ok THEN taken \cup {d.nonce} ELSE taken
           /\ again' = (again \/ (r.ok /\ d.nonce \in taken))
           /\ late' = (late \/ (~r.ok /\ d.good /\ d.nonce \notin taken /\ Recent(d.nonce)))
    /\ UNCHANGED <<send_nonce, outq, net, sealed>>

Next ==
    \/ \E k \in Kinds : frame(k)
    \/ socket_writer
    \/ \E d \in Datagrams : deliver(d)
    \/ DgramRx_next

Spec == Init /\ [][Next]_vars

-----------------------------------------------------------------------------
\* The counter, the queues and the window have their types.
TypeOK ==
    /\ send_nonce \in 0..MaxNonce
    /\ outq \in Seq(Datagrams) /\ inq \in Seq(Datagrams)
    /\ net \subseteq Datagrams /\ sealed \subseteq Datagrams
    /\ highest \in (0..MaxNonce) \cup {NoHighest}
    /\ seen \subseteq Ages
    /\ taken \subseteq 0..MaxNonce
    /\ again \in BOOLEAN /\ late \in BOOLEAN

\* No datagram is handed up twice, however often and in whatever order the
\* network repeats it (ReplayWindow::check_and_mark).
NoReplay == ~again

\* A datagram that was not handed up yet and is no further than the window
\* behind the newest one is not refused, whatever strays arrived before it
\* (open_in_place checks the tag before it touches the window).
FreshIsTaken == ~late

\* A nonce seals one datagram: the counter never comes back to a value
\* (StatelessNoise::seal_at).
NonceOnce == \A a, b \in sealed : a.nonce = b.nonce => a = b

\* The window's bits are exactly the nonces taken of the window's span.
WindowIsTaken ==
    /\ highest = NoHighest => taken = {} /\ seen = {}
    /\ highest # NoHighest =>
          /\ highest \in taken
          /\ \A t \in taken : t <= highest
          /\ \A a \in Ages : a \in seen <=> highest - a \in taken
=============================================================================
