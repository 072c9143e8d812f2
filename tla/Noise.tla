------------------------------- MODULE Noise --------------------------------
(***************************************************************************)
(* Encrypted channels: the Noise handshakes that authenticate the two ends,*)
(* and the framed stream between them.                                     *)
(***************************************************************************)
EXTENDS Naturals, Sequences, FiniteSets
LOCAL INSTANCE SequencesExt

(***************************************************************************)
(* The two Noise handshakes of src/src/noise.rs, NNpsk0 for everything     *)
(* that goes to a server and XX between peers, over a stream that may      *)
(* garble one message.                                                     *)
(*                                                                         *)
(* The primitives are ideal: a hash or a derived key is the sequence of    *)
(* what was mixed into it, a Diffie-Hellman secret is the pair of private  *)
(* keys behind it, and a ciphertext opens only under the key, the counter  *)
(* and the associated data it was sealed with.                             *)
(***************************************************************************)
CONSTANTS
    Psks,        \* pre-shared keys
    Clients,     \* the server's credentials: a function from keys to client names
    AdminPsks,   \* what a server may have for its admin key: <<>> or <<key>>
    Versions,    \* protocol versions
    Ids          \* stream ids

ClientsAssumption == DOMAIN Clients \subseteq Psks /\ \A a \in AdminPsks : a = <<>> \/ a[1] \in Psks

None == <<>>
Junk == <<"junk", "junk">>
WithPreface == {"remote", "claim"}
Sides == {"I", "R"}

VARIABLES
    conv,   \* how the two ends are set up
    side,   \* each end's handshake
    wire,   \* wire[s]: what was written to s and not read
    used,   \* ghost: everything sealed so far
    spoilt  \* ghost: a message was garbled

handVars == <<conv, side, wire, used, spoilt>>

-----------------------------------------------------------------------------
(* SymmetricState.                                                         *)

New(protocol) == [ck |-> <<protocol>>, h |-> <<protocol>>, k |-> None, n |-> 0]

mix_hash(ss, data) == [ss EXCEPT !.h = Append(@, data)]

mix_key(ss, ikm) ==
    [ss EXCEPT !.ck = Append(@, ikm), !.k = <<Append(ss.ck, ikm)>>, !.n = 0]

mix_key_and_hash(ss, ikm) == mix_key(mix_hash(ss, <<"temp_h", Append(ss.ck, ikm)>>), ikm)

aead_seal(ss, pt) == [key |-> ss.k, n |-> ss.n, ad |-> ss.h, pt |-> pt]
hand_aead_open(ss, ct) == ct.key = ss.k /\ ct.n = ss.n /\ ct.ad = ss.h

Sealed(ss, pt) == IF ss.k = None THEN [key |-> None, n |-> 0, ad |-> None, pt |-> pt] ELSE aead_seal(ss, pt)
Counted(ss) == [ss EXCEPT !.n = IF ss.k = None THEN @ ELSE @ + 1]
encrypt_and_hash(ss, pt) == mix_hash(Counted(ss), Sealed(ss, pt))

decrypt_and_hash(ss, ct) == mix_hash(Counted(ss), ct)
Opens(ss, ct) == ss.k = None \/ hand_aead_open(ss, ct)

keys(ss, initiator) ==
    IF initiator THEN [send |-> <<ss.ck, 1>>, recv |-> <<ss.ck, 2>>]
                 ELSE [send |-> <<ss.ck, 2>>, recv |-> <<ss.ck, 1>>]

public_identity(x) == <<"pub", x>>
x25519(x, pub) == <<"dh", {x, pub[2]}>>

-----------------------------------------------------------------------------
(* NNpsk0: what a message carries and the state behind it.  mine is this   *)
(* end's ephemeral private key, re and e_priv are given for message two.   *)

nn_start(psk, prologue) == mix_key_and_hash(mix_hash(New(<<"name", "NNpsk0">>), prologue), <<"psk", psk>>)

NnMixed(ss, e, dh) ==
    LET s1 == mix_key(mix_hash(ss, e), e)
    IN  IF dh = None THEN s1 ELSE mix_key(s1, dh)

nn_write(ss, mine, re, payload) ==
    LET s == NnMixed(ss, public_identity(mine), IF re = None THEN None ELSE x25519(mine, re))
    IN  [ss |-> encrypt_and_hash(s, payload), sealed |-> {Sealed(s, payload)},
         msg |-> [e |-> public_identity(mine), st |-> None, ct |-> Sealed(s, payload)]]

nn_read(ss, mine, msg) ==
    LET s == NnMixed(ss, msg.e, IF mine = None THEN None ELSE x25519(mine[1], msg.e))
    IN  [ok |-> Opens(s, msg.ct), ss |-> decrypt_and_hash(s, msg.ct), re |-> msg.e, rs |-> None, payload |-> msg.ct.pt]

-----------------------------------------------------------------------------
(* XX: ePriv and sPriv are this end's private keys.                        *)

pair_prologue(version) == <<"pair", version>>
XxNew(prologue) == mix_hash(New(<<"name", "XX">>), prologue)

write_message_one(ss, ePriv) ==
    LET s == mix_hash(ss, public_identity(ePriv))
    IN  [ss |-> encrypt_and_hash(s, None), sealed |-> {},
         msg |-> [e |-> public_identity(ePriv), st |-> None, ct |-> Sealed(s, None)]]

read_message_one(ss, msg) ==
    LET s == mix_hash(ss, msg.e)
    IN  [ok |-> Opens(s, msg.ct), ss |-> decrypt_and_hash(s, msg.ct), re |-> msg.e, rs |-> None, payload |-> msg.ct.pt]

\* The static key, then what is mixed after it, then the payload.
WriteStatic(s, sPriv, re) ==
    LET st == Sealed(s, public_identity(sPriv))
        s2 == mix_key(encrypt_and_hash(s, public_identity(sPriv)), x25519(sPriv, re))
    IN  [ss |-> encrypt_and_hash(s2, None), st |-> st, ct |-> Sealed(s2, None)]

write_message_two(ss, ePriv, sPriv, re) ==
    LET w == WriteStatic(mix_key(mix_hash(ss, public_identity(ePriv)), x25519(ePriv, re)), sPriv, re)
    IN  [ss |-> w.ss, sealed |-> {w.st, w.ct}, msg |-> [e |-> public_identity(ePriv), st |-> w.st, ct |-> w.ct]]

read_static(s, ePriv, msg, re) ==
    LET rs == msg.st.pt
        s2 == mix_key(decrypt_and_hash(s, msg.st), x25519(ePriv, rs))
    IN  [ok |-> Opens(s, msg.st) /\ Opens(s2, msg.ct), ss |-> decrypt_and_hash(s2, msg.ct),
         re |-> re, rs |-> rs, payload |-> msg.ct.pt]

read_message_two(ss, ePriv, msg) ==
    read_static(mix_key(mix_hash(ss, msg.e), x25519(ePriv, msg.e)), ePriv, msg, msg.e)

write_message_three(ss, sPriv, re) ==
    LET w == WriteStatic(ss, sPriv, re)
    IN  [ss |-> w.ss, sealed |-> {w.st, w.ct}, msg |-> [e |-> None, st |-> w.st, ct |-> w.ct]]

read_message_three(ss, ePriv, msg, re) == read_static(ss, ePriv, msg, re)

-----------------------------------------------------------------------------
(* The two ends.                                                           *)

client_selector(psk) == psk   \* a digest of the key
Preface(c) ==
    [version |-> c.iver, role |-> c.role,
     selector |-> IF c.role = "client" THEN client_selector(c.psk) ELSE "zero"]

\* The prologue an end uses, given the preface it wrote or read.
Prologue(mode, version, preface) ==
    CASE mode = "stream"    -> None
      [] mode = "stateless" -> <<"version", version>>
      [] OTHER              -> preface

Payload(c) ==
    CASE c.imode = "stateless" -> <<c.id>>
      [] c.imode = "claim"     -> <<c.id, "capability">>
      [] OTHER                 -> None
Reply(mode) == IF mode \in {"stateless", "claim"} THEN <<"reply">> ELSE None

\* Whom the preface names and the key to go on with, or None.
Credential(c, p) ==
    CASE p.version # c.rver -> None
      [] p.version = c.rver /\ p.role = "client" /\ p.selector \in DOMAIN Clients
            -> <<Clients[p.selector], p.selector>>
      [] p.version = c.rver /\ p.role = "admin" /\ c.rmode = "remote" /\ c.admin # None
            -> <<"admin", c.admin[1]>>
      [] OTHER -> None

\* What the responder requires of the payload of message one.
PayloadFits(mode, payload) ==
    CASE mode = "stateless" -> Len(payload) >= 1
      [] mode = "claim"     -> Len(payload) = 2
      [] OTHER              -> TRUE

Fresh == [at |-> "start", ss |-> New(<<"name", "none">>), re |-> None, rs |-> None,
          who |-> None, got |-> None, keys |-> None]
Convs ==
    LET NN(modes, roles, admins, rpsks) ==
            [imode : modes, rmode : modes, psk : Psks, rpsk : rpsks, iver : Versions, rver : Versions,
             role : roles, id : Ids, admin : admins]
    IN  {c \in NN({"stream", "stateless"}, {"client"}, {None}, Psks)
               \cup NN({"remote", "claim"}, {"client", "admin"}, AdminPsks, {"unused"})
               \cup NN({"xx"}, {"client"}, {None}, {"unused"}) :
            /\ c.imode = c.rmode \/ (c.imode = "remote" /\ c.rmode = "claim")
            /\ c.imode = "claim" => c.role = "client"}

HandInit ==
    /\ conv \in Convs
    /\ side = [s \in Sides |-> Fresh]
    /\ wire = [s \in Sides |-> <<>>]
    /\ used = {}
    /\ spoilt = FALSE

Fails(s) == [side EXCEPT ![s].at = "failed"]

Start ==
    /\ side["I"].at = "start"
    /\ LET p == Prologue(conv.imode, conv.iver, Preface(conv))
           w == IF conv.imode = "xx" THEN write_message_one(XxNew(pair_prologue(conv.iver)), "ei")
                ELSE nn_write(nn_start(conv.psk, p), "ei", None, Payload(conv))
       IN  /\ side' = [side EXCEPT !["I"].at = "wait2", !["I"].ss = w.ss]
           /\ wire' = [wire EXCEPT !["R"] = IF conv.imode \in WithPreface THEN <<Preface(conv), w.msg>> ELSE <<w.msg>>]
           /\ used' = used \cup w.sealed
    /\ UNCHANGED <<conv, spoilt>>

read_preface ==
    /\ side["R"].at = "start"
    /\ conv.rmode \in WithPreface
    /\ wire["R"] # <<>>
    /\ LET p == Head(wire["R"])
           c == Credential(conv, p)
       IN  side' = IF c = None THEN Fails("R")
                   ELSE [side EXCEPT !["R"].at = "wait1", !["R"].who = <<c[1]>>,
                                     !["R"].ss = nn_start(c[2], Prologue(conv.rmode, conv.rver, p))]
    /\ wire' = [wire EXCEPT !["R"] = Tail(@)]
    /\ UNCHANGED <<conv, used, spoilt>>

\* Without a preface the responder starts from its one key.
Expect ==
    /\ side["R"].at = "start"
    /\ conv.rmode \in {"stream", "stateless"}
    /\ side' = [side EXCEPT !["R"].at = "wait1",
                            !["R"].ss = nn_start(conv.rpsk, Prologue(conv.rmode, conv.rver, None))]
    /\ UNCHANGED <<conv, wire, used, spoilt>>

\* Message one in, message two out; then the payload is looked at.
respond ==
    /\ side["R"].at = "wait1"
    /\ wire["R"] # <<>>
    /\ LET r == nn_read(side["R"].ss, None, Head(wire["R"]))
           w == nn_write(r.ss, "er", r.re, Reply(conv.rmode))
       IN  IF r.ok
           THEN /\ side' = [side EXCEPT !["R"] =
                                [@ EXCEPT !.at = IF PayloadFits(conv.rmode, r.payload) THEN "done" ELSE "failed",
                                          !.ss = w.ss, !.got = r.payload, !.keys = <<keys(w.ss, FALSE)>>]]
                /\ wire' = [wire EXCEPT !["R"] = Tail(@), !["I"] = <<w.msg>>]
                /\ used' = used \cup w.sealed
           ELSE /\ side' = Fails("R")
                /\ UNCHANGED <<wire, used>>
    /\ UNCHANGED <<conv, spoilt>>

initiate ==
    /\ side["I"].at = "wait2"
    /\ conv.imode # "xx"
    /\ wire["I"] # <<>>
    /\ LET r == nn_read(side["I"].ss, <<"ei">>, Head(wire["I"]))
       IN  side' = IF r.ok
                   THEN [side EXCEPT !["I"] = [@ EXCEPT !.at = "done", !.ss = r.ss, !.got = r.payload,
                                                        !.keys = <<keys(r.ss, TRUE)>>]]
                   ELSE Fails("I")
    /\ wire' = [wire EXCEPT !["I"] = Tail(@)]
    /\ UNCHANGED <<conv, used, spoilt>>

\* XX at the responder: message one in, message two out, message three in.
handshake_responder ==
    /\ side["R"].at = "start"
    /\ conv.rmode = "xx"
    /\ wire["R"] # <<>>
    /\ LET r == read_message_one(XxNew(pair_prologue(conv.rver)), Head(wire["R"]))
           w == write_message_two(r.ss, "er", "sr", r.re)
       IN  IF r.ok /\ r.payload = None
           THEN /\ side' = [side EXCEPT !["R"] = [@ EXCEPT !.at = "wait3", !.ss = w.ss, !.re = r.re]]
                /\ wire' = [wire EXCEPT !["R"] = Tail(@), !["I"] = <<w.msg>>]
                /\ used' = used \cup w.sealed
           ELSE /\ side' = Fails("R")
                /\ UNCHANGED <<wire, used>>
    /\ UNCHANGED <<conv, spoilt>>

handshake_initiator ==
    /\ side["I"].at = "wait2"
    /\ conv.imode = "xx"
    /\ wire["I"] # <<>>
    /\ LET r == read_message_two(side["I"].ss, "ei", Head(wire["I"]))
           w == write_message_three(r.ss, "si", r.re)
       IN  IF r.ok
           THEN /\ side' = [side EXCEPT !["I"] = [@ EXCEPT !.at = "done", !.ss = w.ss, !.re = r.re, !.rs = r.rs,
                                                           !.keys = <<keys(w.ss, TRUE)>>]]
                /\ wire' = [wire EXCEPT !["I"] = Tail(@), !["R"] = <<w.msg>>]
                /\ used' = used \cup w.sealed
           ELSE /\ side' = Fails("I")
                /\ UNCHANGED <<wire, used>>
    /\ UNCHANGED <<conv, spoilt>>

TakeThree ==
    /\ side["R"].at = "wait3"
    /\ wire["R"] # <<>>
    /\ LET r == read_message_three(side["R"].ss, "er", Head(wire["R"]), side["R"].re)
       IN  side' = IF r.ok /\ r.payload = None
                   THEN [side EXCEPT !["R"] = [@ EXCEPT !.at = "done", !.ss = r.ss, !.rs = r.rs,
                                                        !.keys = <<keys(r.ss, FALSE)>>]]
                   ELSE Fails("R")
    /\ wire' = [wire EXCEPT !["R"] = Tail(@)]
    /\ UNCHANGED <<conv, used, spoilt>>

\* The other end gave up and closed the stream.
Other(s) == IF s = "I" THEN "R" ELSE "I"
HandEndOfStream(s) ==
    /\ side[s].at \in {"start", "wait1", "wait2", "wait3"}
    /\ side[Other(s)].at = "failed"
    /\ wire[s] = <<>>
    /\ side' = Fails(s)
    /\ UNCHANGED <<conv, wire, used, spoilt>>

\* One part of the message at the head is not what was written.
BadSeal == [key |-> None, n |-> 0, ad |-> None, pt |-> Junk]
Garblings(m) ==
    IF "version" \in DOMAIN m
    THEN {[m EXCEPT !.selector = k] : k \in Psks \ {m.selector}} \cup {[m EXCEPT !.version = 0]}
    ELSE (IF m.e = None THEN {} ELSE {[m EXCEPT !.e = <<"pub", "junk">>]})
         \cup (IF m.st = None THEN {} ELSE {[m EXCEPT !.st = BadSeal]})
         \cup {[m EXCEPT !.ct = BadSeal]}
Garble(s) ==
    /\ ~spoilt
    /\ wire[s] # <<>>
    /\ \E m \in Garblings(Head(wire[s])) : wire' = [wire EXCEPT ![s] = <<m>> \o Tail(@)]
    /\ spoilt' = TRUE
    /\ UNCHANGED <<conv, side, used>>

Ended(s) == side[s].at \in {"done", "failed"}
HandOver == Ended("I") /\ Ended("R") /\ UNCHANGED handVars

Step ==
    \/ Start \/ read_preface \/ Expect \/ respond \/ initiate
    \/ handshake_responder \/ handshake_initiator \/ TakeThree
    \/ \E s \in Sides : HandEndOfStream(s)
HandNext == Step \/ (\E s \in Sides : Garble(s)) \/ HandOver

HandSpec == HandInit /\ [][HandNext]_handVars

-----------------------------------------------------------------------------
Both == side["I"].at = "done" /\ side["R"].at = "done"

\* Every end is at a point of its handshake and the wire holds what is to be read.
HandTypeOK ==
    /\ conv \in Convs
    /\ \A s \in Sides : side[s].at \in {"start", "wait1", "wait2", "wait3", "done", "failed"}
    /\ \A s \in Sides : Len(wire[s]) <= 2
    /\ \A s \in Sides : side[s].at = "done" => side[s].keys # None

\* Two ends that both finish hold the same two transport keys crosswise, one
\* for each direction (SymmetricState::keys).
KeysCross ==
    Both => LET i == side["I"].keys[1]
                r == side["R"].keys[1]
            IN  i.send = r.recv /\ i.recv = r.send /\ i.send # i.recv

\* A responder that finishes speaks the initiator's version, holds its key,
\* names the client or admin that key belongs to, and has read the payload
\* that was sent (remote_responder, stateless_responder, claim_responder).
AnswersTheRightOne ==
    (side["R"].at = "done" /\ conv.rmode # "xx") =>
        /\ conv.rmode # "stream" => conv.iver = conv.rver
        /\ conv.rmode \in {"stream", "stateless"} => conv.psk = conv.rpsk
        /\ (conv.rmode \in WithPreface /\ conv.role = "client") =>
              conv.psk \in DOMAIN Clients /\ side["R"].who = <<Clients[conv.psk]>>
        /\ (conv.rmode \in WithPreface /\ conv.role = "admin") =>
              conv.admin = <<conv.psk>> /\ side["R"].who = <<"admin">>
        /\ side["R"].got = Payload(conv)

\* Peers that both finish have authenticated each other's static key, of the
\* same protocol version (XxHandshake::remote_static).
PeersKnowEachOther ==
    (Both /\ conv.imode = "xx") =>
        /\ side["I"].rs = public_identity("sr") /\ side["R"].rs = public_identity("si")
        /\ conv.iver = conv.rver

\* No key seals two different things under the same counter: the counter
\* starts over only with a new key (mix_key, encrypt_and_hash).
CounterOnce == \A a, b \in used : (a.key = b.key /\ a.n = b.n) => a = b

\* A garbled message never goes unnoticed: not both ends finish.
GarbleIsNoticed == spoilt => ~Both

\* Ends that are set up alike and whose messages arrive intact both finish.
SetUpAlike ==
    /\ conv.imode = conv.rmode
    /\ conv.iver = conv.rver
    /\ conv.imode \in {"stream", "stateless"} => conv.psk = conv.rpsk
    /\ conv.imode \in WithPreface =>
          IF conv.role = "client" THEN conv.psk \in DOMAIN Clients ELSE conv.admin = <<conv.psk>>
AlikeMeet == (Ended("I") /\ Ended("R") /\ SetUpAlike) => (Both \/ spoilt)

-----------------------------------------------------------------------------
(***************************************************************************)
(* One direction of an encrypted stream (NoiseWriter and NoiseReader of    *)
(* src/src/noise.rs): frames of a two-byte length and a body with its tag, *)
(* over a carrier that cuts the bytes as it likes (KcpStream of            *)
(* src/src/kcp.rs).  A read is dropped part way whenever another branch of *)
(* a select wins, a write when its timeout does.                           *)
(*                                                                         *)
(* A byte is known by its frame and its place in it.  A tag is one byte    *)
(* long here, and a frame opens only whole and under its own counter.      *)
(***************************************************************************)
CONSTANTS
    MAX_PLAINTEXT,   \* the longest body of one frame
    Sizes,           \* lengths of what is sent at once; 0 is a probe
    MaxSends,        \* how often the application sends
    MaxCancels,      \* how often a read is dropped
    APP_CHAN_CAP     \* chunks the carrier holds

PlainAssumption == MAX_PLAINTEXT \in Nat /\ MAX_PLAINTEXT > 0

TAGLEN == 1
VARIABLES
    sizes,       \* of the frames laid out so far: frame f has sizes[f] bytes of body
    chunks,      \* of the send in progress, the lengths still to be laid out
    wbuf,        \* of the frame in progress, the bytes still to be written
    sends,
    chan,        \* chunks in the carrier
    read_buf,    \* the chunk being read
    open,        \* the writing half is alive
    reader,      \* NoiseReader
    skips,       \* the application reads with recv_data
    polling,     \* a read is in progress
    cancels,
    got,         \* lengths of the frames handed up
    err          \* why reading ended, "" while it has not

streamVars == <<sizes, chunks, wbuf, sends, chan, read_buf, open, reader, skips, polling, cancels, got, err>>
wvars == <<sizes, chunks, wbuf, sends, open>>
rvars == <<reader, skips, polling, cancels, got, err>>

-----------------------------------------------------------------------------
(* The writer.                                                             *)

Chunked(n) ==
    LET full == n \div MAX_PLAINTEXT
        rest == n % MAX_PLAINTEXT
    IN  [i \in 1..full |-> MAX_PLAINTEXT] \o (IF rest = 0 THEN <<>> ELSE <<rest>>)

\* The bytes of frame f with a body of n.
Bytes(f, n) == [i \in 1..(2 + n + TAGLEN) |-> [frame |-> f, at |-> i]]

\* A send waits for the one before it; a probe is one empty frame.
send(n) ==
    /\ open /\ chunks = <<>> /\ wbuf = <<>>
    /\ sends < MaxSends
    /\ sends' = sends + 1
    /\ chunks' = IF n = 0 THEN <<0>> ELSE Chunked(n)
    /\ UNCHANGED <<sizes, wbuf, chan, read_buf, open, rvars>>

frame ==
    /\ open /\ wbuf = <<>> /\ chunks # <<>>
    /\ wbuf' = Bytes(Len(sizes) + 1, Head(chunks))
    /\ sizes' = Append(sizes, Head(chunks))
    /\ chunks' = Tail(chunks)
    /\ UNCHANGED <<sends, chan, read_buf, open, rvars>>

\* The carrier takes the first k bytes.
poll_write(k) ==
    /\ open /\ wbuf # <<>>
    /\ Len(chan) < APP_CHAN_CAP
    /\ chan' = Append(chan, SubSeq(wbuf, 1, k))
    /\ wbuf' = SubSeq(wbuf, k + 1, Len(wbuf))
    /\ UNCHANGED <<sizes, chunks, sends, read_buf, open, rvars>>

\* A send's timeout ends the relay, which drops the writer with what is left.
GiveUp ==
    /\ open /\ wbuf # <<>>
    /\ open' = FALSE
    /\ wbuf' = <<>> /\ chunks' = <<>>
    /\ UNCHANGED <<sizes, sends, chan, read_buf, rvars>>

Close ==
    /\ open /\ wbuf = <<>> /\ chunks = <<>> /\ sends = MaxSends
    /\ open' = FALSE
    /\ UNCHANGED <<sizes, chunks, wbuf, sends, chan, read_buf, rvars>>

-----------------------------------------------------------------------------
(* The reader.                                                             *)

NewReader == [len |-> <<>>, have_len |-> FALSE, body |-> <<>>, want |-> 0, recv_n |-> 0]

recv ==
    /\ ~polling /\ err = ""
    /\ polling' = TRUE
    /\ UNCHANGED <<wvars, chan, read_buf, reader, skips, cancels, got, err>>

\* The bug: the bytes of a frame that is only part read go with the dropped read.
Cancel_forgets ==
    /\ polling /\ cancels < MaxCancels
    /\ polling' = FALSE
    /\ cancels' = cancels + 1
    /\ reader' = [NewReader EXCEPT !.recv_n = reader.recv_n]
    /\ UNCHANGED <<wvars, chan, read_buf, skips, got, err>>

\* Another branch of the select wins: only the future goes.
Cancel ==
    /\ polling /\ cancels < MaxCancels
    /\ polling' = FALSE
    /\ cancels' = cancels + 1
    /\ UNCHANGED <<wvars, chan, read_buf, reader, skips, got, err>>

Wanted == IF reader.have_len THEN reader.want - Len(reader.body) ELSE 2 - Len(reader.len)

\* The next chunk when the last one is used up, then as much as is wanted.
Available == IF read_buf = <<>> /\ chan # <<>> THEN Head(chan) ELSE read_buf
poll_read(n) ==
    /\ chan' = IF read_buf = <<>> THEN Tail(chan) ELSE chan
    /\ read_buf' = SubSeq(Available, n + 1, Len(Available))

\* What two bytes say as a length: anything, if they are not a frame's first two.
LengthSaid(l) ==
    IF l[1].frame = l[2].frame /\ l[1].at = 1 /\ l[2].at = 2 THEN {sizes[l[1].frame] + TAGLEN} ELSE 1..2

FillLen(r, bytes) ==
    LET l == r.len \o bytes
    IN  IF Len(l) < 2 THEN {[r EXCEPT !.len = l]}
        ELSE {[r EXCEPT !.len = l, !.have_len = TRUE, !.body = <<>>, !.want = w] : w \in LengthSaid(l)}

stream_aead_open(r) ==
    LET f == r.recv_n + 1
    IN  f <= Len(sizes) /\ r.body = SubSeq(Bytes(f, sizes[f]), 3, 2 + sizes[f] + TAGLEN)

\* recv_data goes on to the next frame behind an empty one.
HandUp(n) == IF skips /\ n = 0 THEN got ELSE Append(got, n)

fill ==
    /\ polling /\ Available # <<>>
    /\ LET n == IF Len(Available) < Wanted THEN Len(Available) ELSE Wanted
           bytes == SubSeq(Available, 1, n)
       IN  /\ poll_read(n)
           /\ IF ~reader.have_len
              THEN /\ \E r \in FillLen(reader, bytes) : reader' = r
                   /\ UNCHANGED <<polling, got, err>>
              ELSE LET r == [reader EXCEPT !.body = @ \o bytes]
                   IN  IF Len(r.body) < r.want
                       THEN reader' = r /\ UNCHANGED <<polling, got, err>>
                       ELSE IF stream_aead_open(r)
                       THEN /\ reader' = [NewReader EXCEPT !.recv_n = r.recv_n + 1]
                            /\ got' = HandUp(Len(r.body) - TAGLEN)
                            /\ polling' = (skips /\ Len(r.body) = TAGLEN)
                            /\ UNCHANGED err
                       ELSE /\ reader' = [NewReader EXCEPT !.recv_n = r.recv_n]
                            /\ err' = "decrypt failed"
                            /\ polling' = FALSE
                            /\ UNCHANGED got
    /\ UNCHANGED <<wvars, skips, cancels>>

StreamEndOfStream ==
    /\ polling /\ Available = <<>> /\ ~open
    /\ err' = "connection closed"
    /\ polling' = FALSE
    /\ UNCHANGED <<wvars, chan, read_buf, reader, skips, cancels, got>>

StreamOver == err # "" /\ UNCHANGED streamVars

-----------------------------------------------------------------------------
StreamInit ==
    /\ sizes = <<>> /\ chunks = <<>> /\ wbuf = <<>> /\ sends = 0
    /\ chan = <<>> /\ read_buf = <<>> /\ open = TRUE
    /\ reader = NewReader
    /\ skips \in BOOLEAN
    /\ polling = FALSE /\ cancels = 0
    /\ got = <<>> /\ err = ""

Write == frame \/ (\E k \in 1..Len(wbuf) : poll_write(k))
Read == recv \/ fill \/ StreamEndOfStream
StreamNext ==
    \/ \E n \in Sizes : send(n)
    \/ frame
    \/ \E k \in 1..Len(wbuf) : poll_write(k)
    \/ GiveUp
    \/ Close
    \/ recv
    \/ Cancel
    \/ fill
    \/ StreamEndOfStream
    \/ StreamOver

StreamSpec == StreamInit /\ [][StreamNext]_streamVars

\* What is done when it stays possible.
StreamDue(i) ==
    \/ i = 1 /\ (Write \/ Close)
    \/ i = 2 /\ Read

-----------------------------------------------------------------------------
\* The lengths that are to be handed up of a sequence of frames.
Due(s) == IF skips THEN SelectSeq(s, LAMBDA n : n # 0) ELSE s

\* The reader never holds more of a frame than it asked for.
StreamTypeOK ==
    /\ Len(reader.len) <= 2 /\ Len(reader.body) <= reader.want
    /\ sends \in 0..MaxSends /\ cancels \in 0..MaxCancels
    /\ Len(chan) <= APP_CHAN_CAP
    /\ polling \in BOOLEAN /\ open \in BOOLEAN
    /\ \A f \in DOMAIN sizes : sizes[f] \in 0..MAX_PLAINTEXT

\* Every frame is handed up whole, once and in the order it was sent, however
\* the carrier cut the bytes and wherever a read was dropped (NoiseReader's
\* partial progress lives in the struct).
InOrder == IsPrefix(got, Due(sizes))

\* The two ends stay in step: no frame fails to open, a send that was given
\* up part way included, because nothing follows it on that stream.
InStep == err # "decrypt failed"

\* When every send is finished, everything sent is handed up.
AllArriveWhen == open /\ sends = MaxSends /\ chunks = <<>> /\ wbuf = <<>>
AllArriveThen == got = Due(sizes)
=============================================================================
