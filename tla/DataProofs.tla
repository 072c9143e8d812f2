----------------------------- MODULE DataProofs -----------------------------
(***************************************************************************)
(* What a public connection and a datagram go through, for every value of  *)
(* the constants: the wait of a public connection for its client (Opens)   *)
(* and the replay window of a datagram path (DatagramPath).                *)
(***************************************************************************)
EXTENDS Opens, RegistryProofs, DatagramPath

(***************************************************************************)
(* Proofs about public connections waiting for their client, for every set *)
(* of clients, sessions and connections.                                   *)
(*                                                                         *)
(* NoStrandedOpen rests on the registry's CancelReaches: a handle cloned   *)
(* before a teardown and parked after its revoke_claims is one whose       *)
(* cancellation open() sees in its second look.                            *)
(***************************************************************************)
\* A connection past route_to holds the handle of a session that registered.
HandleKnown ==
    \A k \in Conn :
        conn[k] \in {"routed", "checked", "parked", "sending", "waiting", "bridged"}
            => handle[k] \in Session /\ task[handle[k]] # "fresh"

\* A connection that was resolved has a client id to look up.
TargetKnown == \A k \in Conn : conn[k] = "resolved" => target[k] \in Client

\* Entries belong to connections between their insert and their outcome, and an
\* entry that was claimed is in the map no more.
EntryHeld ==
    \A k \in pending : /\ conn[k] \in {"parked", "sending", "waiting"}
                       /\ k \notin arriving

\* A claimed stream's connection is past its open.
ArrivingLate == \A k \in arriving : conn[k] \in {"waiting", "closed"}

OpensInv ==
    /\ RegistryInv
    /\ OpensTypeOK
    /\ TargetKnown
    /\ HandleKnown
    /\ EntryHeld
    /\ ArrivingLate
    /\ NoStrandedOpen

\* Nothing is parked at first.
LEMMA OpensInvInit == OpensInit => OpensInv
  BY RegistryInvInit, OpensAssumption DEF OpensInit, OpensInv, OpensTypeOK, RegistryInv,
     TargetKnown, HandleKnown, EntryHeld, ArrivingLate, NoStrandedOpen, Stages

\* A step of a connection that leaves the registry alone and moves nobody else:
\* what has to be shown of it concerns that connection only.
LEMMA ConnStepInv ==
  ASSUME OpensInv, NEW k \in Conn,
         \/ OpenStep(k) \/ ClaimOpen(k) \/ GiveUp(k) \/ WakeUp(k)
         \/ EndBridge(k) \/ CutBridge(k)
  PROVE  OpensInv'
<1> USE SessionAssumption, OpensAssumption
<1>1. UNCHANGED regvars
  BY DEF OpenStep, Resolve, RouteTo, CheckCancel, Park, Recheck, SendOpen,
     Deliver, ClaimOpen, GiveUp, WakeUp, EndBridge, CutBridge
<1>2. RegistryInv'
  BY <1>1, StutterInv DEF OpensInv
<1>3. OpensTypeOK'
  <2>1. RegistryTypeOK'
    BY <1>2 DEF RegistryInv
  <2> QED
    BY <2>1 DEF OpensInv, OpensTypeOK, RegistryTypeOK, TargetKnown, Stages, To,
       OpenStep, Resolve, RouteTo, CheckCancel, Park, Recheck, SendOpen,
       Deliver, ClaimOpen, GiveUp, WakeUp, EndBridge, CutBridge
<1>4. TargetKnown' /\ HandleKnown'
  <2> USE DEF OpensInv, OpensTypeOK, TargetKnown, HandleKnown, regvars, To
  <2>1. CASE Resolve(k)
    BY SMTT(30), <1>1, <2>1 DEF Resolve
  <2>2. CASE RouteTo(k)
    BY SMTT(30), <1>1, <2>2 DEF RouteTo, RegistryInv, RegistryTypeOK, RegistryNamesLiveSessions,
       Alive, Teardown
  <2>3. CASE CheckCancel(k) \/ Park(k) \/ Recheck(k) \/ SendOpen(k) \/ Deliver(k)
    BY SMTT(30), <1>1, <2>3 DEF CheckCancel, Park, Recheck, SendOpen, Deliver
  <2>4. CASE ClaimOpen(k) \/ GiveUp(k) \/ WakeUp(k) \/ EndBridge(k) \/ CutBridge(k)
    BY SMTT(30), <1>1, <2>4 DEF ClaimOpen, GiveUp, WakeUp, EndBridge, CutBridge
  <2> QED BY <2>1, <2>2, <2>3, <2>4 DEF OpenStep
<1>5. EntryHeld' /\ ArrivingLate'
  BY DEF OpensInv, OpensTypeOK, EntryHeld, ArrivingLate, Stages, To,
     OpenStep, Resolve, RouteTo, CheckCancel, Park, Recheck, SendOpen,
     Deliver, ClaimOpen, GiveUp, WakeUp, EndBridge, CutBridge
<1>6. NoStrandedOpen'
  <2> SUFFICES ASSUME NEW j \in pending'
               PROVE  \/ Registered(handle[j])'
                      \/ RevocationComing(handle[j])'
                      \/ (conn[j] = "parked" /\ cancelled[handle[j]])'
    BY DEF NoStrandedOpen
  <2>1. j \in Conn /\ handle'[j] = handle[j]
    BY <1>3, <1>5 DEF OpensInv, OpensTypeOK, EntryHeld, To,
       OpenStep, Resolve, RouteTo, CheckCancel, Park, Recheck, SendOpen,
       Deliver, ClaimOpen, GiveUp, WakeUp, EndBridge, CutBridge
  <2>2. /\ Registered(handle[j])' <=> Registered(handle[j])
        /\ RevocationComing(handle[j])' <=> RevocationComing(handle[j])
        /\ cancelled'[handle'[j]] = cancelled[handle[j]]
    BY <1>1, <2>1 DEF regvars, Registered, RevocationComing
  <2>3. CASE j \notin pending
    <3>1. j = k /\ conn[k] = "checked" /\ conn'[k] = "parked"
      BY SMTT(30), <2>3 DEF OpensInv, OpensTypeOK, To,
         OpenStep, Resolve, RouteTo, CheckCancel, Park, Recheck, SendOpen,
         Deliver, ClaimOpen, GiveUp, WakeUp, EndBridge, CutBridge
    <3>2. handle[j] \in Session /\ task[handle[j]] # "fresh"
      BY <3>1 DEF OpensInv, HandleKnown
    <3> QED
      BY <2>2, <3>1, <3>2 DEF OpensInv, RegistryInv, CancelReaches, RevocationComing
  <2>4. CASE j \in pending /\ ~(conn[j] = "parked" /\ cancelled[handle[j]])
    BY <2>2, <2>4 DEF OpensInv, NoStrandedOpen
  <2>5. CASE j \in pending /\ conn[j] = "parked" /\ cancelled[handle[j]]
    <3>1. conn'[j] = "parked"
      BY SMTT(30), <2>5 DEF OpensInv, OpensTypeOK, EntryHeld, To,
         OpenStep, Resolve, RouteTo, CheckCancel, Park, Recheck, SendOpen,
         Deliver, ClaimOpen, GiveUp, WakeUp, EndBridge, CutBridge
    <3> QED BY <2>2, <2>5, <3>1
  <2> QED BY <2>3, <2>4, <2>5
<1> QED BY <1>2, <1>3, <1>4, <1>5, <1>6 DEF OpensInv

\* A step of the registry with the connections at rest, apart from the entries
\* that a revocation removes.
LEMMA SessionStepInv ==
  ASSUME OpensInv, RegistryInv', NEW s \in Session,
         RevokeOpens(s) \/ OtherSessionStep(s)
  PROVE  OpensInv'
<1> USE SessionAssumption, OpensAssumption
<1>1. /\ UNCHANGED <<conn, target, handle, arriving>>
      /\ pending' \subseteq pending
  BY DEF RevokeOpens, RevokeClaims, OtherSessionStep, openvars
<1>2. OpensTypeOK' /\ EntryHeld' /\ ArrivingLate'
  BY <1>1 DEF OpensInv, OpensTypeOK, EntryHeld, ArrivingLate, RegistryInv
<1>3. \A t \in Session : task[t] # "fresh" => task'[t] # "fresh"
  BY DEF OpensInv, RegistryInv, RegistryTypeOK, RevokeOpens, OtherSessionStep,
     Hello, Unregister, Cancel, Revoke, Invalidate, Forget
<1>4. TargetKnown' /\ HandleKnown'
  BY <1>1, <1>3 DEF OpensInv, TargetKnown, HandleKnown
<1>5. NoStrandedOpen'
  <2> SUFFICES ASSUME NEW j \in pending'
               PROVE  \/ Registered(handle[j])'
                      \/ RevocationComing(handle[j])'
                      \/ (conn[j] = "parked" /\ cancelled[handle[j]])'
    BY DEF NoStrandedOpen
  <2> DEFINE h == handle[j]
  <2>1. /\ j \in pending /\ j \in Conn /\ h \in Session /\ task[h] # "fresh"
        /\ handle'[j] = h /\ conn'[j] = conn[j]
    BY <1>1 DEF OpensInv, OpensTypeOK, EntryHeld, HandleKnown
  <2>2. cancelled[h] => cancelled'[h]
    BY <2>1 DEF OpensInv, RegistryInv, RegistryTypeOK, RevokeOpens,
       OtherSessionStep, Hello, Unregister, Cancel, Revoke, Invalidate, Forget
  <2>3. CASE Registered(h)
    <3> SUFFICES ASSUME registry'[Owner[h]] # h
                 PROVE  RevocationComing(handle[j])'
      BY <2>1 DEF Registered
    <3>1. /\ Hello(s) \/ Unregister(s)
          /\ doomed'[s] = h /\ task'[s] = "cancel"
      BY <2>1, <2>3 DEF OpensInv, RegistryInv, RegistryTypeOK, RevokeOpens,
         OtherSessionStep, Registered, Hello, Unregister, Cancel, Revoke,
         Invalidate, Forget
    <3> QED BY <2>1, <3>1 DEF RevocationComing
  <2>4. CASE RevocationComing(h)
    <3>1. PICK t \in Session : doomed[t] = h /\ task[t] \in {"cancel", "revoke"}
      BY <2>4 DEF RevocationComing
    <3>2. doomed'[t] = h /\ task'[t] \in {"cancel", "revoke"}
      BY <2>1, <3>1 DEF OpensInv, RegistryInv, RegistryTypeOK, RevokeOpens,
         RevokeClaims, OtherSessionStep, Hello, Unregister, Cancel, Revoke,
         Invalidate, Forget
    <3> QED BY <2>1, <3>2 DEF RevocationComing
  <2>5. CASE conn[j] = "parked" /\ cancelled[h]
    BY <2>1, <2>2, <2>5
  <2> QED BY <2>1, <2>3, <2>4, <2>5 DEF OpensInv, NoStrandedOpen
<1> QED BY <1>2, <1>4, <1>5 DEF OpensInv

\* An admin disconnect only sets a cancellation.
LEMMA DisconnectOpensInv ==
  ASSUME OpensInv, NEW c \in Client, Disconnect(c), UNCHANGED openvars
  PROVE  OpensInv'
<1>1. RegistryInv'
  BY DisconnectInv DEF OpensInv
<1>2. OpensTypeOK' /\ EntryHeld' /\ ArrivingLate' /\ TargetKnown' /\ HandleKnown'
  BY <1>1 DEF OpensInv, OpensTypeOK, EntryHeld, ArrivingLate, TargetKnown, HandleKnown,
     RegistryInv, openvars, Disconnect
<1>3. \A x \in Session : cancelled[x] => cancelled'[x]
  BY DEF Disconnect, OpensInv, RegistryInv, RegistryTypeOK
<1>4. NoStrandedOpen'
  BY <1>3 DEF OpensInv, OpensTypeOK, HandleKnown, EntryHeld, NoStrandedOpen, openvars,
     Disconnect, Registered, RevocationComing
<1> QED BY <1>1, <1>2, <1>4 DEF OpensInv

\* The registry's invariant is kept by the registry's steps taken here.
LEMMA RegistryStepInv ==
  ASSUME RegistryInv, NEW s \in Session, RevokeOpens(s) \/ OtherSessionStep(s)
  PROVE  RegistryInv'
  BY HelloInv, UnregisterInv, TeardownInv DEF RevokeOpens, OtherSessionStep

\* The inductive invariant holds in every reachable state.
THEOREM OpensInvariance == OpensSpec => []OpensInv
<1>1. OpensInit => OpensInv
  BY OpensInvInit
<1>2. OpensInv /\ [OpensNext]_allvars => OpensInv'
  <2> SUFFICES ASSUME OpensInv, [OpensNext]_allvars PROVE OpensInv'
    OBVIOUS
  <2>1. CASE OpensNext
    BY <2>1, ConnStepInv, SessionStepInv, RegistryStepInv, DisconnectOpensInv
       DEF OpensNext, OpensInv
  <2>2. CASE UNCHANGED allvars
    <3>1. RegistryInv'
      BY <2>2, StutterInv DEF OpensInv, allvars, regvars
    <3> QED
      BY <2>2, <3>1 DEF allvars, OpensInv, OpensTypeOK, EntryHeld, ArrivingLate,
         TargetKnown, HandleKnown, NoStrandedOpen, Registered, RevocationComing, RegistryInv
  <2> QED BY <2>1, <2>2
<1> QED BY <1>1, <1>2, PTL DEF OpensSpec

\* The variables of the opens keep their types.
THEOREM OpensTypeCorrect == OpensSpec => []OpensTypeOK
<1>1. OpensInv => OpensTypeOK
  BY DEF OpensInv
<1> QED BY <1>1, OpensInvariance, PTL

\* open() and the teardown of its session, in any interleaving, strand no entry:
\* the insert is seen by revoke_claims or the cancellation by the second look.
THEOREM NoOpenStranded == OpensSpec => []NoStrandedOpen
<1>1. OpensInv => NoStrandedOpen
  BY DEF OpensInv
<1> QED BY <1>1, OpensInvariance, PTL

\* Every way out of an open leaves its map clean.
THEOREM NoEntryLeft == OpensSpec => []FinishedLeavesNoEntry
<1>1. OpensInv => FinishedLeavesNoEntry
  BY DEF OpensInv, EntryHeld, FinishedLeavesNoEntry
<1> QED BY <1>1, OpensInvariance, PTL

\* revoke_claims' same_channel test: the opens of a session the registry names
\* are taken from their map only by a claim or by their own connection.
THEOREM OwnOpensRevoked == OpensSpec => RevokesOwnOpens
<1>1. ASSUME OpensInv, [OpensNext]_allvars
      PROVE  [\A k \in pending \ pending' :
                conn'[k] = "waiting" =>
                    k \in arriving' \/ ~Registered(handle[k])]_allvars
  <2> SUFFICES ASSUME OpensNext, NEW k \in pending \ pending',
                      conn'[k] = "waiting", k \notin arriving'
               PROVE  ~Registered(handle[k])
    BY <1>1
  <2>1. k \in Conn /\ handle[k] \in Session
    BY <1>1 DEF OpensInv, OpensTypeOK, EntryHeld, HandleKnown
  <2>2. ~\E j \in Conn : \/ OpenStep(j) \/ ClaimOpen(j) \/ GiveUp(j) \/ WakeUp(j)
                         \/ EndBridge(j) \/ CutBridge(j)
    BY <1>1, <2>1 DEF OpensInv, OpensTypeOK, To,
       OpenStep, Resolve, RouteTo, CheckCancel, Park, Recheck, SendOpen,
       Deliver, ClaimOpen, GiveUp, WakeUp, EndBridge, CutBridge
  <2>3. PICK s \in Session : RevokeOpens(s)
    BY <1>1, <2>2 DEF OpensNext, OtherSessionStep, openvars
  <2> QED
    BY <1>1, <2>1, <2>3, SessionAssumption DEF OpensInv, RegistryInv, DoomedLost,
       TeardownHasHandle, Teardown, RevokeOpens, Revoke, RevokeClaims
<1> QED BY <1>1, OpensInvariance, PTL DEF OpensSpec, RevokesOwnOpens

-----------------------------------------------------------------------------
(***************************************************************************)
(* The replay window of DatagramPath, for every window length, every       *)
(* largest nonce and every capacity of the queues.                         *)
(***************************************************************************)
\* Everything sealed so far was sealed under a nonce the counter has passed.
SealedBehind == \A d \in sealed : d.nonce < send_nonce

\* The inductive invariant: the window's bits say which nonces were taken.
IInv == TypeOK /\ WindowIsTaken /\ NoReplay /\ FreshIsTaken /\ NonceOnce /\ SealedBehind

\* What is queued for the receiver is a datagram, and so is the rest of it.
LEMMA QueueHead ==
    ASSUME NEW q \in Seq(Datagrams), q # <<>>
    PROVE  Head(q) \in Datagrams /\ Tail(q) \in Seq(Datagrams)
  OBVIOUS

\* What check_and_mark returns is a window again.
LEMMA MarkTypes ==
    ASSUME NEW h \in (0..MaxNonce) \cup {NoHighest}, NEW s \in SUBSET Ages, NEW n \in 0..MaxNonce
    PROVE  LET r == check_and_mark(h, s, n)
           IN  r.ok \in BOOLEAN /\ r.highest \in (0..MaxNonce) \cup {NoHighest} /\ r.seen \in SUBSET Ages
<1>1. 0 \in Ages
  BY WindowAssumption DEF Ages
<1>2. \A k : Shl(s, k) \in SUBSET Ages
  BY DEF Shl
<1>3. h # NoHighest /\ n <= h /\ h - n < REPLAY_WINDOW_LEN => h - n \in Ages
  BY WindowAssumption, NonceAssumption DEF Ages, NoHighest
<1> QED
  BY <1>1, <1>2, <1>3, WindowAssumption, NonceAssumption DEF check_and_mark, NoHighest

\* check_and_mark accepts exactly what is new and recent, and keeps the bits
\* of the window equal to what was taken.
LEMMA MarkIsExact ==
    ASSUME TypeOK, WindowIsTaken, NEW n \in 0..MaxNonce
    PROVE  LET r == check_and_mark(highest, seen, n)
               T == IF r.ok THEN taken \cup {n} ELSE taken
           IN  /\ r.ok => n \notin taken
               /\ (n \notin taken /\ Recent(n)) => r.ok
               /\ r.highest # NoHighest
               /\ r.highest \in T
               /\ \A t \in T : t <= r.highest
               /\ \A a \in Ages : a \in r.seen <=> r.highest - a \in T
<1> DEFINE r == check_and_mark(highest, seen, n)
           T == IF r.ok THEN taken \cup {n} ELSE taken
<1>0. /\ REPLAY_WINDOW_LEN \in Nat /\ REPLAY_WINDOW_LEN > 0 /\ MaxNonce \in Nat
      /\ taken \subseteq 0..MaxNonce
      /\ n \in Nat /\ n # NoHighest
  BY WindowAssumption, NonceAssumption DEF TypeOK, NoHighest
<1>1. CASE highest = NoHighest
  <2>1. r.ok /\ r.highest = n /\ r.seen = {0}
    BY <1>1 DEF check_and_mark
  <2>2. taken = {} /\ T = {n}
    BY <1>1, <2>1 DEF WindowIsTaken
  <2>3. \A a \in Ages : a = 0 <=> n - a = n
    BY <1>0 DEF Ages
  <2> QED
    BY <1>0, <2>1, <2>2, <2>3
<1>2. CASE highest # NoHighest /\ n > highest
  <2>0. highest \in 0..MaxNonce /\ highest \in taken /\ (\A t \in taken : t <= highest)
    BY <1>2 DEF TypeOK, WindowIsTaken
  <2>1. r.ok /\ r.highest = n /\ T = taken \cup {n}
    BY <1>2 DEF check_and_mark
  <2>2. n \notin taken
    BY <1>0, <1>2, <2>0
  <2>3. \A t \in T : t <= n
    BY <1>0, <1>2, <2>0, <2>1
  <2>4. ASSUME NEW a \in Ages
        PROVE  a \in r.seen <=> n - a \in T
    <3>1. a \in 0..(REPLAY_WINDOW_LEN - 1)
      BY DEF Ages
    <3>2. CASE n - highest >= REPLAY_WINDOW_LEN
      <4>1. r.seen = {0}
        BY <1>2, <3>2 DEF check_and_mark
      <4>2. n - a \in taken => FALSE
        BY <1>0, <2>0, <3>1, <3>2
      <4> QED
        BY <1>0, <2>1, <3>1, <4>1, <4>2
    <3>3. CASE ~(n - highest >= REPLAY_WINDOW_LEN)
      <4>1. r.seen = Shl(seen, n - highest) \cup {0}
        BY <1>2, <3>3 DEF check_and_mark
      <4>2. a \in Shl(seen, n - highest) <=> a - (n - highest) \in seen
        BY DEF Shl
      <4>3. a - (n - highest) \in seen => a - (n - highest) \in Ages
        BY DEF TypeOK
      <4>4. n - a \in taken => a - (n - highest) \in Ages
        BY <1>0, <1>2, <2>0, <3>1 DEF Ages
      <4>5. a - (n - highest) \in Ages => (a - (n - highest) \in seen <=> highest - (a - (n - highest)) \in taken)
        BY <1>2 DEF WindowIsTaken
      <4>6. highest - (a - (n - highest)) = n - a
        BY <1>0, <2>0, <3>1
      <4>7. a = 0 <=> n - a = n
        BY <1>0, <3>1
      <4> QED
        BY <2>1, <4>1, <4>2, <4>3, <4>4, <4>5, <4>6, <4>7
    <3> QED
      BY <3>2, <3>3
  <2> QED
    BY <1>0, <2>1, <2>2, <2>3, <2>4
<1>3. CASE highest # NoHighest /\ ~(n > highest)
  <2>0. /\ highest \in 0..MaxNonce /\ highest \in taken /\ (\A t \in taken : t <= highest)
        /\ \A a \in Ages : a \in seen <=> highest - a \in taken
    BY <1>3 DEF TypeOK, WindowIsTaken
  <2>1. CASE highest - n >= REPLAY_WINDOW_LEN
    <3>1. ~r.ok /\ r.highest = highest /\ r.seen = seen /\ T = taken
      BY <1>3, <2>1 DEF check_and_mark
    <3>2. ~Recent(n)
      BY <1>0, <2>0, <2>1 DEF Recent
    <3> QED
      BY <1>3, <2>0, <3>1, <3>2
  <2>2. CASE ~(highest - n >= REPLAY_WINDOW_LEN)
    <3>1. highest - n \in Ages /\ highest - (highest - n) = n
      BY <1>0, <1>3, <2>0, <2>2 DEF Ages
    <3>2. highest - n \in seen <=> n \in taken
      BY <2>0, <3>1
    <3>3. CASE highest - n \in seen
      <4>1. ~r.ok /\ r.highest = highest /\ r.seen = seen /\ T = taken
        BY <1>3, <3>3 DEF check_and_mark
      <4> QED
        BY <1>3, <2>0, <3>2, <3>3, <4>1
    <3>4. CASE highest - n \notin seen
      <4>1. r.ok /\ r.highest = highest /\ r.seen = seen \cup {highest - n} /\ T = taken \cup {n}
        BY <1>3, <2>2, <3>4 DEF check_and_mark
      <4>2. \A a \in Ages : a = highest - n <=> highest - a = n
        BY <1>0, <2>0 DEF Ages
      <4>3. \A t \in T : t <= highest
        BY <1>0, <1>3, <2>0, <4>1
      <4> QED
        BY <1>3, <2>0, <3>2, <3>4, <4>1, <4>2, <4>3
    <3> QED
      BY <3>3, <3>4
  <2> QED
    BY <2>1, <2>2
<1> QED
  BY <1>1, <1>2, <1>3

\* The receiver's step keeps the window exact.
LEMMA NextKeepsWindow ==
    ASSUME IInv, DgramRx_next
    PROVE  IInv'
<1> DEFINE d == Head(inq)
           r == open_in_place(highest, seen, d)
<1>0. TypeOK /\ WindowIsTaken /\ NoReplay /\ FreshIsTaken
  BY DEF IInv
<1>1. d \in Datagrams /\ Tail(inq) \in Seq(Datagrams)
  BY <1>0, QueueHead DEF DgramRx_next, TypeOK
<1>2. d.nonce \in 0..MaxNonce /\ d.good \in BOOLEAN
  BY <1>1 DEF Datagrams
<1>3. /\ inq' = Tail(inq) /\ highest' = r.highest /\ seen' = r.seen
      /\ taken' = IF r.ok THEN taken \cup {d.nonce} ELSE taken
      /\ again' = (again \/ (r.ok /\ d.nonce \in taken))
      /\ late' = (late \/ (~r.ok /\ d.good /\ d.nonce \notin taken /\ Recent(d.nonce)))
      /\ UNCHANGED <<send_nonce, outq, net, sealed>>
  BY DEF DgramRx_next
<1>4. NonceOnce' /\ SealedBehind'
  BY <1>3 DEF IInv, NonceOnce, SealedBehind
<1>5. CASE ~d.good
  <2>1. ~r.ok /\ r.highest = highest /\ r.seen = seen
    BY <1>5 DEF open_in_place
  <2>2. highest' = highest /\ seen' = seen /\ taken' = taken /\ again' = again /\ late' = late
    BY <1>0, <1>3, <1>5, <2>1 DEF TypeOK
  <2>3. TypeOK'
    BY <1>0, <1>1, <1>3, <2>2 DEF TypeOK
  <2>4. WindowIsTaken' /\ NoReplay' /\ FreshIsTaken'
    BY <1>0, <2>2 DEF WindowIsTaken, NoReplay, FreshIsTaken
  <2> QED
    BY <1>4, <2>3, <2>4 DEF IInv
<1>6. CASE d.good
  <2> DEFINE m == check_and_mark(highest, seen, d.nonce)
             T == IF m.ok THEN taken \cup {d.nonce} ELSE taken
  <2>1. r = m
    BY <1>6 DEF open_in_place
  <2>2. /\ m.ok => d.nonce \notin taken
        /\ (d.nonce \notin taken /\ Recent(d.nonce)) => m.ok
        /\ m.highest # NoHighest
        /\ m.highest \in T
        /\ \A t \in T : t <= m.highest
        /\ \A a \in Ages : a \in m.seen <=> m.highest - a \in T
    BY <1>0, <1>2, MarkIsExact
  <2>3. m.ok \in BOOLEAN /\ m.highest \in (0..MaxNonce) \cup {NoHighest} /\ m.seen \in SUBSET Ages
    BY <1>0, <1>2, MarkTypes DEF TypeOK
  <2>4. highest' = m.highest /\ seen' = m.seen /\ taken' = T
    BY <1>3, <2>1
  <2>5. again' = FALSE /\ late' = FALSE
    BY <1>0, <1>3, <2>1, <2>2 DEF NoReplay, FreshIsTaken
  <2>6. T \subseteq 0..MaxNonce
    BY <1>0, <1>2 DEF TypeOK
  <2> HIDE DEF m, T, r
  <2>7. TypeOK'
    BY <1>0, <1>1, <1>3, <2>3, <2>4, <2>5, <2>6 DEF TypeOK
  <2>8. WindowIsTaken'
    BY <2>2, <2>4 DEF WindowIsTaken
  <2>9. NoReplay' /\ FreshIsTaken'
    BY <2>5 DEF NoReplay, FreshIsTaken
  <2> QED
    BY <1>4, <2>7, <2>8, <2>9 DEF IInv
<1> QED
  BY <1>2, <1>5, <1>6

\* Sealing uses a nonce the counter then passes.
LEMMA FrameKeeps ==
    ASSUME IInv, NEW k \in Kinds, frame(k)
    PROVE  IInv'
<1> DEFINE d == [nonce |-> send_nonce, kind |-> k, good |-> TRUE]
<1>1. /\ send_nonce \in 0..MaxNonce /\ send_nonce < MaxNonce /\ send_nonce' = send_nonce + 1
      /\ sealed' = sealed \cup {d}
      /\ outq' = IF Len(outq) < SOCKET_SEND_CAP THEN Append(outq, d) ELSE outq
      /\ UNCHANGED <<net, inq, highest, seen, taken, again, late>>
  BY DEF IInv, TypeOK, frame, seal_at
<1>2. d \in Datagrams
  BY <1>1 DEF Datagrams
<1>3. outq' \in Seq(Datagrams)
  BY <1>1, <1>2 DEF IInv, TypeOK
<1>4. send_nonce' \in 0..MaxNonce
  BY <1>1, NonceAssumption
<1>5. TypeOK'
  BY <1>1, <1>2, <1>3, <1>4 DEF IInv, TypeOK
<1>6. SealedBehind' /\ NonceOnce'
  <2>1. \A e \in sealed : e.nonce \in Nat /\ e.nonce < send_nonce
    BY NonceAssumption DEF IInv, SealedBehind, TypeOK, Datagrams
  <2>2. d.nonce = send_nonce /\ send_nonce \in Nat
    BY <1>1, NonceAssumption
  <2> HIDE DEF d
  <2>3. SealedBehind'
    BY <1>1, <2>1, <2>2 DEF SealedBehind
  <2>4. NonceOnce'
    BY <1>1, <2>1, <2>2 DEF IInv, NonceOnce
  <2> QED
    BY <2>3, <2>4
<1>7. WindowIsTaken' /\ NoReplay' /\ FreshIsTaken'
  BY <1>1 DEF IInv, WindowIsTaken, NoReplay, FreshIsTaken
<1> QED
  BY <1>5, <1>6, <1>7 DEF IInv

\* What the socket's writer and the router move stays a datagram.
LEMMA QueuesKeep ==
    ASSUME IInv, socket_writer \/ (\E d \in Datagrams : deliver(d))
    PROVE  IInv'
<1>1. CASE socket_writer
  <2>1. Head(outq) \in Datagrams /\ Tail(outq) \in Seq(Datagrams)
    BY <1>1, QueueHead DEF IInv, TypeOK, socket_writer
  <2>2. TypeOK'
    BY <1>1, <2>1 DEF IInv, TypeOK, socket_writer
  <2> QED
    BY <1>1, <2>2 DEF IInv, socket_writer, WindowIsTaken, NoReplay, FreshIsTaken, NonceOnce, SealedBehind
<1>2. ASSUME NEW d \in Datagrams, deliver(d)
      PROVE  IInv'
  <2>1. TypeOK'
    BY <1>2 DEF IInv, TypeOK, deliver
  <2> QED
    BY <1>2, <2>1 DEF IInv, deliver, WindowIsTaken, NoReplay, FreshIsTaken, NonceOnce, SealedBehind
<1> QED
  BY <1>1, <1>2

\* The inductive invariant holds throughout.
THEOREM Invariance == Spec => []IInv
<1>1. Init => IInv
  <2> SUFFICES ASSUME Init PROVE IInv
    OBVIOUS
  <2>1. send_nonce \in 0..MaxNonce
    BY NonceAssumption DEF Init
  <2>2. outq \in Seq(Datagrams) /\ inq \in Seq(Datagrams)
    BY DEF Init
  <2>3. TypeOK
    BY <2>1, <2>2 DEF Init, TypeOK
  <2>4. WindowIsTaken /\ NoReplay /\ FreshIsTaken /\ NonceOnce /\ SealedBehind
    BY DEF Init, WindowIsTaken, NoReplay, FreshIsTaken, NonceOnce, SealedBehind
  <2> QED
    BY <2>3, <2>4 DEF IInv
<1>2. IInv /\ [Next]_vars => IInv'
  <2> SUFFICES ASSUME IInv, [Next]_vars PROVE IInv'
    OBVIOUS
  <2>1. CASE UNCHANGED vars
    BY <2>1 DEF vars, IInv, TypeOK, WindowIsTaken, NoReplay, FreshIsTaken, NonceOnce, SealedBehind
  <2>2. CASE Next
    BY <2>2, FrameKeeps, QueuesKeep, NextKeepsWindow DEF Next
  <2> QED
    BY <2>1, <2>2
<1> QED
  BY <1>1, <1>2, PTL DEF Spec

\* No datagram is handed up twice, whatever the window's length, the network
\* and the strays (ReplayWindow::check_and_mark).
THEOREM NothingIsReplayed == Spec => []NoReplay
<1>1. IInv => NoReplay
  BY DEF IInv
<1> QED
  BY <1>1, Invariance, PTL

\* A new datagram no further than the window behind the newest is never
\* refused (StatelessNoise::open_in_place).
THEOREM NothingFreshIsRefused == Spec => []FreshIsTaken
<1>1. IInv => FreshIsTaken
  BY DEF IInv
<1> QED
  BY <1>1, Invariance, PTL

\* No nonce seals two datagrams, up to and at the counter's largest value
\* (StatelessNoise::seal_at).
THEOREM NoncesAreUsedOnce == Spec => []NonceOnce
<1>1. IInv => NonceOnce
  BY DEF IInv
<1> QED
  BY <1>1, Invariance, PTL

\* The window's bits are at all times the nonces taken within its span
\* (the seen word of ReplayWindow).
THEOREM TheWindowIsExact == Spec => []WindowIsTaken
<1>1. IInv => WindowIsTaken
  BY DEF IInv
<1> QED
  BY <1>1, Invariance, PTL
=============================================================================
