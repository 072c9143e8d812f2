--------------------------- MODULE UdpPortProofs ----------------------------
(***************************************************************************)
(* Proofs about the server's UDP control port, for every set of sources,   *)
(* every cap and every time to live: the admission of new sources, and the *)
(* KCP session that an admitted source then has.                           *)
(*                                                                         *)
(* Admission: no permit is lost or returned twice, the two maps keep their *)
(* caps, and a session opens only by a fresh cookie.  The last needs       *)
(* AdmissionHasCookie: a waiting admission ages together with the cookie   *)
(* it rests on.                                                            *)
(*                                                                         *)
(* Session: a guard erases its key without looking at whose entry it is,   *)
(* so the lanes need KcpInv: a conv id and a tag have one holder each from *)
(* claim to drop (ConvsExact, OneHolder), and the live count is the sum of *)
(* the drivers and of the legs that have not dropped their guard yet.      *)
(***************************************************************************)
EXTENDS UdpPort, FiniteSetTheorems, WellFoundedInduction, TLAPS

-----------------------------------------------------------------------------
(* Maps.                                                                   *)

\* A function that is restricted is a function on fewer arguments.
LEMMA DropKeeps ==
  ASSUME NEW f, NEW S, NEW V, f \in [DOMAIN f -> V], IsFiniteSet(DOMAIN f)
  PROVE  /\ Drop(f, S) \in [DOMAIN f \ S -> V]
         /\ DOMAIN Drop(f, S) = DOMAIN f \ S
         /\ \A x \in DOMAIN f \ S : Drop(f, S)[x] = f[x]
         /\ IsFiniteSet(DOMAIN Drop(f, S))
         /\ Cardinality(DOMAIN Drop(f, S)) <= Cardinality(DOMAIN f)
<1>1. DOMAIN Drop(f, S) = DOMAIN f \ S
  BY DEF Drop, Restrict
<1>2. IsFiniteSet(DOMAIN f \ S) /\ Cardinality(DOMAIN f \ S) <= Cardinality(DOMAIN f)
  BY FS_Subset, DOMAIN f \ S \subseteq DOMAIN f
<1> QED BY <1>1, <1>2 DEF Drop, Restrict

-----------------------------------------------------------------------------
(* Admission: the inductive invariant.                                     *)

ConnTask ==
    [src : Src \cup {Tcp}, at : {"free", "shake", "serve"}, age : 0..HandTtl, mapped : BOOLEAN]

\* The cookies that are issued and not long expired.
CookiesOK == cookies \in [Src -> SUBSET (0..CookieTtl + 1)]

\* A waiting admission that has not expired rests on a cookie of its source of that very age.
AdmissionHasCookie == \A s \in DOMAIN pending : pending[s] < AdmitTtl => pending[s] \in cookies[s]

\* The table of waiting admissions: a finite function within its cap.
PendingOK ==
    /\ pending \in [DOMAIN pending -> 0..AdmitTtl] /\ DOMAIN pending \subseteq Src
    /\ IsFiniteSet(DOMAIN pending) /\ Cardinality(DOMAIN pending) <= MaxPending
    /\ AdmissionHasCookie

\* The table of sessions: a finite function within its cap.
SessionsOK ==
    /\ sessions \in [DOMAIN sessions -> 0..SessionTtl] /\ DOMAIN sessions \subseteq Src
    /\ IsFiniteSet(DOMAIN sessions) /\ Cardinality(DOMAIN sessions) <= MaxSessions

\* The connections, with every permit free or held by one that shakes hands.
TasksOK == permits \in Nat /\ tasks \in [ControlTask -> ConnTask] /\ PermitsConserved

AdmissionInv == CookiesOK /\ PendingOK /\ SessionsOK /\ TasksOK

Shaking == {t \in ControlTask : tasks[t].at = "shake"}

\* PermitsConserved in terms of the handshakes in progress.
LEMMA PermitsAndShaking == PermitsConserved <=> permits + Cardinality(Shaking) = MaxPermits
  BY DEF PermitsConserved, Shaking

\* There are finitely many connections.
LEMMA ShakingFinite ==
  ASSUME ControlAssumption
  PROVE  /\ IsFiniteSet(ControlTask)
         /\ \A S : S \subseteq ControlTask => IsFiniteSet(S) /\ Cardinality(S) \in Nat
<1>1. IsFiniteSet(ControlTask)
  BY FS_Interval DEF ControlTask, ControlAssumption
<1> QED BY <1>1, FS_Subset, FS_CardinalityType

\* At the start every permit is free.
LEMMA AdmissionInvInit == ControlAssumption /\ ControlInit => AdmissionInv
<1> SUFFICES ASSUME ControlAssumption, ControlInit PROVE AdmissionInv
  OBVIOUS
<1>1. DOMAIN pending = {} /\ DOMAIN sessions = {}
  BY DEF ControlInit
<1>2. IsFiniteSet({}) /\ Cardinality({}) = 0
  BY FS_EmptySet
<1>3. CookiesOK
  BY DEF CookiesOK, ControlInit
<1>4. PendingOK /\ SessionsOK
  BY <1>1, <1>2 DEF PendingOK, SessionsOK, AdmissionHasCookie, ControlInit, ControlAssumption
<1>5. Shaking = {}
  BY DEF ControlInit, Free, Shaking
<1>6. PermitsConserved
  BY <1>2, <1>5, PermitsAndShaking DEF ControlInit, ControlAssumption
<1>7. permits \in Nat /\ tasks \in [ControlTask -> ConnTask]
  BY DEF ControlInit, ControlAssumption, ConnTask, Free, Tcp
<1> QED BY <1>3, <1>4, <1>6, <1>7 DEF AdmissionInv, TasksOK

-----------------------------------------------------------------------------
(* Admission: what the steps do.                                           *)

\* A connection that starts takes a permit, and a handshake that begins is one more.
LEMMA StartTakesAPermit ==
  ASSUME ControlAssumption, TasksOK, permits > 0, NEW s \in Src \cup {Tcp}, Start(s)
  PROVE  TasksOK'
<1>1. PICK t \in ControlTask :
         /\ tasks[t] = Free
         /\ tasks' = [tasks EXCEPT ![t] = [src |-> s, at |-> "shake", age |-> 0, mapped |-> s # Tcp]]
         /\ permits' = permits - 1
  BY DEF Start
<1>2. tasks \in [ControlTask -> ConnTask] /\ permits \in Nat
  BY DEF TasksOK
<1>3. [src |-> s, at |-> "shake", age |-> 0, mapped |-> s # Tcp] \in ConnTask
  BY DEF ConnTask, ControlAssumption
<1>4. tasks' \in [ControlTask -> ConnTask]
  BY <1>1, <1>2, <1>3
<1>5. Shaking' = Shaking \cup {t} /\ t \notin Shaking
  BY <1>1, <1>2 DEF Shaking, Free
<1>6. Cardinality(Shaking') = Cardinality(Shaking) + 1 /\ Cardinality(Shaking) \in Nat
  BY <1>5, ShakingFinite, FS_AddElement DEF Shaking
<1>7. permits' + Cardinality(Shaking') = MaxPermits
  BY <1>1, <1>2, <1>6, PermitsAndShaking DEF TasksOK, ControlAssumption
<1>8. PermitsConserved'
  BY <1>7 DEF PermitsConserved, Shaking
<1> QED BY <1>1, <1>2, <1>4, <1>8 DEF TasksOK

\* Forgetting admissions keeps the table in shape.
LEMMA PendingDrop ==
  ASSUME ControlAssumption, PendingOK, NEW S, NEW kept, kept = Drop(pending, S)
  PROVE  /\ kept \in [DOMAIN kept -> 0..AdmitTtl] /\ DOMAIN kept = DOMAIN pending \ S
         /\ IsFiniteSet(DOMAIN kept) /\ Cardinality(DOMAIN kept) <= MaxPending
         /\ DOMAIN kept \subseteq Src /\ Cardinality(DOMAIN kept) \in Nat
         /\ \A x \in DOMAIN kept : kept[x] = pending[x]
         /\ \A x \in DOMAIN kept : kept[x] < AdmitTtl => kept[x] \in cookies[x]
<1>1. pending \in [DOMAIN pending -> 0..AdmitTtl] /\ IsFiniteSet(DOMAIN pending) /\ DOMAIN pending \subseteq Src
  BY DEF PendingOK
<1>2. Cardinality(DOMAIN pending) <= MaxPending /\ Cardinality(DOMAIN pending) \in Nat
  BY <1>1, FS_CardinalityType DEF PendingOK
<1>3. /\ DOMAIN kept = DOMAIN pending \ S
      /\ kept \in [DOMAIN pending \ S -> 0..AdmitTtl]
      /\ \A x \in DOMAIN pending \ S : kept[x] = pending[x]
      /\ IsFiniteSet(DOMAIN kept)
      /\ Cardinality(DOMAIN kept) <= Cardinality(DOMAIN pending)
  BY <1>1, DropKeeps
<1>4. Cardinality(DOMAIN kept) \in Nat
  BY <1>3, FS_CardinalityType
<1>5. \A x \in DOMAIN kept : kept[x] < AdmitTtl => kept[x] \in cookies[x]
  BY <1>3 DEF PendingOK, AdmissionHasCookie
<1> QED BY <1>1, <1>2, <1>3, <1>4, <1>5 DEF ControlAssumption

\* record_udp_admission keeps the table of admissions in shape and within its cap.
LEMMA RecordKeeps ==
  ASSUME ControlAssumption, CookiesOK, PendingOK, NEW s \in Src, NEW age \in cookies[s],
         RecordUdpAdmission(s, age), cookies' = cookies
  PROVE  PendingOK' /\ DOMAIN pending \ Expired \subseteq DOMAIN pending'
<1> DEFINE kept == Drop(pending, Expired)
<1>1. /\ kept \in [DOMAIN kept -> 0..AdmitTtl] /\ DOMAIN kept = DOMAIN pending \ Expired
      /\ IsFiniteSet(DOMAIN kept) /\ Cardinality(DOMAIN kept) <= MaxPending
      /\ DOMAIN kept \subseteq Src /\ Cardinality(DOMAIN kept) \in Nat
  BY PendingDrop
<1>2. \A x \in DOMAIN kept : kept[x] < AdmitTtl => kept[x] \in cookies[x]
  BY PendingDrop
<1> HIDE DEF kept
<1>3. CASE pending' = kept
  BY <1>1, <1>2, <1>3 DEF PendingOK, AdmissionHasCookie
<1>4. CASE age < AdmitTtl /\ pending' = Put(kept, s, age)
           /\ (s \in DOMAIN kept \/ Cardinality(DOMAIN kept) < MaxPending)
  <2>1. age \in 0..AdmitTtl
    BY <1>4 DEF CookiesOK, ControlAssumption
  <2>a. DOMAIN pending' = DOMAIN kept \cup {s}
    BY <1>4 DEF Put
  <2>b. IsFiniteSet(DOMAIN pending')
        /\ Cardinality(DOMAIN pending') = IF s \in DOMAIN kept THEN Cardinality(DOMAIN kept) ELSE Cardinality(DOMAIN kept) + 1
    <3>1. IsFiniteSet(DOMAIN kept)
      BY <1>1
    <3>2. IsFiniteSet(DOMAIN kept \cup {s})
          /\ Cardinality(DOMAIN kept \cup {s}) = IF s \in DOMAIN kept THEN Cardinality(DOMAIN kept) ELSE Cardinality(DOMAIN kept) + 1
      BY <3>1, FS_AddElement
    <3> QED BY <2>a, <3>2
  <2>c. pending'[s] = age /\ \A x \in DOMAIN kept \ {s} : pending'[x] = kept[x]
    BY <1>4 DEF Put
  <2>2. pending' \in [DOMAIN kept \cup {s} -> 0..AdmitTtl]
    BY <1>1, <1>4, <2>1 DEF Put
  <2>3. Cardinality(DOMAIN pending') <= MaxPending
    BY <1>1, <1>4, <2>b DEF ControlAssumption
  <2>4. \A x \in DOMAIN pending' : pending'[x] < AdmitTtl => pending'[x] \in cookies[x]
    BY <1>2, <2>a, <2>c
  <2> QED BY <1>1, <2>a, <2>b, <2>2, <2>3, <2>4 DEF PendingOK, AdmissionHasCookie
<1> QED BY <1>3, <1>4 DEF RecordUdpAdmission, kept

\* A session that opens below the cap keeps the table within it.
LEMMA SessionPut ==
  ASSUME ControlAssumption, SessionsOK, NEW s \in Src, s \notin DOMAIN sessions, admit_new_udp_session,
         sessions' = Put(sessions, s, 0)
  PROVE  SessionsOK' /\ DOMAIN sessions' = DOMAIN sessions \cup {s}
<1>1. DOMAIN sessions' = DOMAIN sessions \cup {s}
  BY DEF Put
<1>2. IsFiniteSet(DOMAIN sessions) /\ Cardinality(DOMAIN sessions) \in Nat
  BY FS_CardinalityType DEF SessionsOK
<1>3. IsFiniteSet(DOMAIN sessions \cup {s})
      /\ Cardinality(DOMAIN sessions \cup {s}) = Cardinality(DOMAIN sessions) + 1
  BY <1>2, FS_AddElement
<1>4. Cardinality(DOMAIN sessions') <= MaxSessions
  BY <1>1, <1>2, <1>3 DEF admit_new_udp_session, ControlAssumption
<1>5. sessions' \in [DOMAIN sessions' -> 0..SessionTtl] /\ DOMAIN sessions' \subseteq Src
  BY DEF SessionsOK, Put, ControlAssumption
<1> QED BY <1>1, <1>3, <1>4, <1>5 DEF SessionsOK

\* Sessions that are evicted leave the table in shape.
LEMMA SessionDrop ==
  ASSUME ControlAssumption, SessionsOK, NEW S, sessions' = Drop(sessions, S)
  PROVE  SessionsOK' /\ DOMAIN sessions' = DOMAIN sessions \ S
<1>1. sessions \in [DOMAIN sessions -> 0..SessionTtl] /\ IsFiniteSet(DOMAIN sessions) /\ DOMAIN sessions \subseteq Src
  BY DEF SessionsOK
<1>2. Cardinality(DOMAIN sessions) <= MaxSessions /\ Cardinality(DOMAIN sessions) \in Nat
  BY <1>1, FS_CardinalityType DEF SessionsOK
<1>3. /\ DOMAIN sessions' = DOMAIN sessions \ S
      /\ sessions' \in [DOMAIN sessions \ S -> 0..SessionTtl]
      /\ IsFiniteSet(DOMAIN sessions')
      /\ Cardinality(DOMAIN sessions') <= Cardinality(DOMAIN sessions)
  BY <1>1, DropKeeps
<1>4. Cardinality(DOMAIN sessions') \in Nat
  BY <1>3, FS_CardinalityType
<1> QED BY <1>1, <1>2, <1>3, <1>4 DEF SessionsOK, ControlAssumption

\* Connections that change without beginning or ending a handshake keep the permits.
LEMMA TasksSettle ==
  ASSUME TasksOK, tasks' \in [ControlTask -> ConnTask], permits' = permits,
         \A t \in ControlTask : tasks'[t].at = "shake" <=> tasks[t].at = "shake"
  PROVE  TasksOK'
<1>1. Shaking' = Shaking
  BY DEF Shaking
<1>2. permits + Cardinality(Shaking) = MaxPermits
  BY PermitsAndShaking DEF TasksOK
<1>3. permits' + Cardinality(Shaking') = MaxPermits
  BY <1>1, <1>2
<1> QED BY <1>3 DEF TasksOK, PermitsConserved, Shaking

\* A handshake that ends, well or not, returns its permit.
LEMMA HandshakeReturns ==
  ASSUME ControlAssumption, TasksOK, NEW t \in ControlTask, HandshakeDone(t)
  PROVE  TasksOK'
<1>1. tasks \in [ControlTask -> ConnTask] /\ permits \in Nat /\ permits + Cardinality(Shaking) = MaxPermits
  BY PermitsAndShaking DEF TasksOK
<1> DEFINE served == [tasks[t] EXCEPT !.at = "serve", !.age = 0]
<1>a. Free \in ConnTask /\ Free.at = "free"
  BY DEF ConnTask, Free, ControlAssumption
<1>b. tasks[t] \in ConnTask
  BY <1>1
<1>c. served \in ConnTask /\ served.at = "serve"
  <2> DEFINE first == [tasks[t] EXCEPT !.at = "serve"]
  <2>1. first \in ConnTask /\ first.at = "serve"
    BY <1>b DEF ConnTask
  <2>2. served = [first EXCEPT !.age = 0]
    OBVIOUS
  <2> HIDE DEF first, served
  <2> QED BY <2>1, <2>2 DEF ConnTask, ControlAssumption
<1>d. tasks[t].at = "shake" /\ permits' = permits + 1
      /\ (tasks' = [tasks EXCEPT ![t] = served] \/ tasks' = [tasks EXCEPT ![t] = Free])
  BY DEF HandshakeDone
<1> HIDE DEF served
<1>3. tasks' \in [ControlTask -> ConnTask] /\ permits' = permits + 1
  BY <1>1, <1>a, <1>c, <1>d
<1>4. Shaking' = Shaking \ {t} /\ t \in Shaking
  BY <1>1, <1>a, <1>c, <1>d DEF Shaking
<1>5. Cardinality(Shaking') = Cardinality(Shaking) - 1 /\ Cardinality(Shaking) \in Nat
  BY <1>4, ShakingFinite, FS_RemoveElement DEF Shaking
<1>6. permits' + Cardinality(Shaking') = MaxPermits
  BY <1>1, <1>3, <1>5 DEF ControlAssumption
<1> QED BY <1>1, <1>3, <1>6 DEF TasksOK, PermitsConserved, Shaking

\* An admission that is forgotten leaves the table in shape.
LEMMA PendingShrinks ==
  ASSUME ControlAssumption, PendingOK, NEW S, pending' = Drop(pending, S), cookies' = cookies
  PROVE  PendingOK' /\ DOMAIN pending' = DOMAIN pending \ S
<1>1. /\ pending' \in [DOMAIN pending' -> 0..AdmitTtl] /\ DOMAIN pending' = DOMAIN pending \ S
      /\ IsFiniteSet(DOMAIN pending') /\ Cardinality(DOMAIN pending') <= MaxPending
      /\ DOMAIN pending' \subseteq Src
  BY PendingDrop
<1>2. \A x \in DOMAIN pending' : pending'[x] < AdmitTtl => pending'[x] \in cookies[x]
  BY PendingDrop
<1> QED BY <1>1, <1>2 DEF PendingOK, AdmissionHasCookie

\* Time ages cookies, admissions, sessions and handshakes together.
LEMMA TickKeeps ==
  ASSUME ControlAssumption, AdmissionInv, Tick
  PROVE  AdmissionInv'
<1>1. CookiesOK'
  <2> SUFFICES ASSUME NEW s \in Src, NEW a \in cookies[s] \ {CookieTtl + 1}
               PROVE  a + 1 \in 0..CookieTtl + 1
    BY DEF CookiesOK, Tick
  <2>1. a \in 0..CookieTtl + 1
    BY DEF AdmissionInv, CookiesOK
  <2> QED BY <2>1 DEF ControlAssumption
<1>2. PendingOK'
  <2>1. DOMAIN pending' = DOMAIN pending /\ pending \in [DOMAIN pending -> 0..AdmitTtl]
    BY DEF Tick, AdmissionInv, PendingOK
  <2>2. pending' \in [DOMAIN pending -> 0..AdmitTtl]
    BY <2>1 DEF Tick, ControlAssumption
  <2>3. ASSUME NEW s \in DOMAIN pending', pending'[s] < AdmitTtl
        PROVE  pending'[s] \in cookies'[s]
    <3>1. s \in DOMAIN pending /\ s \in Src
      BY <2>1 DEF AdmissionInv, PendingOK
    <3>2. pending[s] < AdmitTtl /\ pending'[s] = pending[s] + 1 /\ pending[s] \in 0..AdmitTtl
      BY <2>1, <2>3, <3>1 DEF Tick, ControlAssumption
    <3>3. pending[s] \in cookies[s] \ {CookieTtl + 1}
      BY <3>1, <3>2 DEF AdmissionInv, PendingOK, AdmissionHasCookie, ControlAssumption
    <3>4. cookies'[s] = {a + 1 : a \in cookies[s] \ {CookieTtl + 1}}
      BY <3>1 DEF Tick
    <3> QED BY <3>2, <3>3, <3>4
  <2> QED BY <2>1, <2>2, <2>3 DEF AdmissionInv, PendingOK, AdmissionHasCookie
<1>3. SessionsOK'
  BY DEF Tick, AdmissionInv, SessionsOK, ControlAssumption
<1>4. TasksOK'
  <2>1. tasks \in [ControlTask -> ConnTask]
    BY DEF AdmissionInv, TasksOK
  <2>2. ASSUME NEW t \in ControlTask
        PROVE  tasks'[t] \in ConnTask /\ (tasks'[t].at = "shake" <=> tasks[t].at = "shake")
    <3>1. tasks[t] \in ConnTask
      BY <2>1
    <3>2. CASE tasks[t].at = "shake"
      <4>1. tasks'[t] = [tasks[t] EXCEPT !.age = tasks[t].age + 1] /\ tasks[t].age < HandTtl
        BY <3>2 DEF Tick
      <4>2. tasks[t].age + 1 \in 0..HandTtl
        BY <3>1, <4>1 DEF ConnTask, ControlAssumption
      <4> QED BY <3>1, <3>2, <4>1, <4>2 DEF ConnTask
    <3>3. CASE tasks[t].at # "shake"
      BY <3>1, <3>3 DEF Tick
    <3> QED BY <3>2, <3>3
  <2>3. tasks' \in [ControlTask -> ConnTask] /\ permits' = permits
    BY <2>2 DEF Tick
  <2> QED BY <2>2, <2>3, TasksSettle DEF AdmissionInv
<1> QED BY <1>1, <1>2, <1>3, <1>4 DEF AdmissionInv

\* The sweep takes entries out of the maps and lets the evicted sessions' connections go on their own.
LEMMA SweepKeeps ==
  ASSUME ControlAssumption, AdmissionInv, Sweep
  PROVE  AdmissionInv'
<1>1. PendingOK' /\ SessionsOK'
  BY PendingShrinks, SessionDrop DEF AdmissionInv, Sweep
<1>2. TasksOK'
  <2>1. tasks \in [ControlTask -> ConnTask]
    BY DEF AdmissionInv, TasksOK
  <2>2. ASSUME NEW t \in ControlTask
        PROVE  tasks'[t] \in ConnTask /\ (tasks'[t].at = "shake" <=> tasks[t].at = "shake")
    <3>1. tasks[t] \in ConnTask
      BY <2>1
    <3>2. tasks'[t] = tasks[t] \/ tasks'[t] = [tasks[t] EXCEPT !.mapped = FALSE]
      BY DEF Sweep
    <3> QED BY <3>1, <3>2 DEF ConnTask
  <2>3. tasks' \in [ControlTask -> ConnTask] /\ permits' = permits
    BY <2>2 DEF Sweep
  <2> QED BY <2>2, <2>3, TasksSettle DEF AdmissionInv
<1> QED BY <1>1, <1>2 DEF AdmissionInv, CookiesOK, Sweep

\* A source that is not known is refused, or its admission buys a session and a handshake.
LEMMA FirstKeeps ==
  ASSUME ControlAssumption, AdmissionInv, NEW s \in Src, First(s)
  PROVE  AdmissionInv'
<1>1. CookiesOK' /\ cookies' = cookies /\ pending' = Drop(pending, {s})
  BY DEF AdmissionInv, CookiesOK, First, OpenUdpSession
<1>2. PendingOK'
  BY <1>1, PendingShrinks DEF AdmissionInv
<1>3. CASE UNCHANGED <<sessions, permits, tasks>>
  BY <1>1, <1>2, <1>3 DEF AdmissionInv, SessionsOK, TasksOK, PermitsConserved
<1>4. CASE permits > 0 /\ sessions' = Put(sessions, s, 0) /\ Start(s)
  <2>1. SessionsOK'
    BY <1>4, SessionPut DEF AdmissionInv, First
  <2>2. TasksOK'
    BY <1>4, StartTakesAPermit DEF AdmissionInv
  <2> QED BY <1>1, <1>2, <2>1, <2>2 DEF AdmissionInv
<1> QED BY <1>3, <1>4 DEF First, OpenUdpSession

\* A known source refreshes its session and may open another conv.
LEMMA KnownKeeps ==
  ASSUME ControlAssumption, AdmissionInv, NEW s \in Src, Known(s)
  PROVE  AdmissionInv'
<1>1. CookiesOK' /\ PendingOK'
  BY DEF AdmissionInv, CookiesOK, PendingOK, AdmissionHasCookie, Known
<1>2. SessionsOK'
  BY DEF AdmissionInv, SessionsOK, Known, ControlAssumption
<1>3. TasksOK'
  <2>1. CASE permits > 0 /\ Start(s)
    BY <2>1, StartTakesAPermit DEF AdmissionInv
  <2>2. CASE UNCHANGED <<permits, tasks>>
    BY <2>2 DEF AdmissionInv, TasksOK, PermitsConserved
  <2> QED BY <2>1, <2>2 DEF Known
<1> QED BY <1>1, <1>2, <1>3 DEF AdmissionInv

\* AdmissionInv is inductive.
LEMMA AdmissionInvStep == ControlAssumption /\ AdmissionInv /\ [ControlNext]_controlVars => AdmissionInv'
<1> SUFFICES ASSUME ControlAssumption, AdmissionInv, [ControlNext]_controlVars
             PROVE  AdmissionInv'
  OBVIOUS
<1>1. ASSUME NEW s \in Src, Hello(s) PROVE AdmissionInv'
  <2>1. 0 \in 0..CookieTtl + 1
    BY DEF ControlAssumption
  <2>2. CookiesOK' /\ \A x \in Src : cookies[x] \subseteq cookies'[x]
    BY <1>1, <2>1 DEF AdmissionInv, CookiesOK, Hello
  <2>3. PendingOK'
    BY <1>1, <2>2 DEF AdmissionInv, PendingOK, AdmissionHasCookie, Hello
  <2> QED BY <1>1, <2>2, <2>3 DEF AdmissionInv, SessionsOK, TasksOK, PermitsConserved, Hello
<1>2. ASSUME NEW s \in Src, Admit(s) PROVE AdmissionInv'
  <2>1. PICK age \in cookies[s] : RecordUdpAdmission(s, age)
    BY <1>2 DEF Admit, Verify
  <2>2. PendingOK'
    BY <1>2, <2>1, RecordKeeps DEF AdmissionInv, Admit
  <2> QED BY <1>2, <2>2 DEF AdmissionInv, CookiesOK, SessionsOK, TasksOK, PermitsConserved, Admit
<1>3. ASSUME NEW t \in ControlTask, HandshakeDone(t) PROVE AdmissionInv'
  <2>1. TasksOK'
    BY <1>3, HandshakeReturns DEF AdmissionInv
  <2> QED BY <1>3, <2>1 DEF AdmissionInv, CookiesOK, PendingOK, AdmissionHasCookie, SessionsOK, HandshakeDone
<1>4. ASSUME NEW t \in ControlTask, ServeEnds(t) PROVE AdmissionInv'
  <2>1. tasks \in [ControlTask -> ConnTask] /\ Free \in ConnTask /\ Free.at = "free"
    BY DEF AdmissionInv, TasksOK, ConnTask, Free, ControlAssumption
  <2>2. tasks' = [tasks EXCEPT ![t] = Free] /\ tasks[t].at = "serve" /\ permits' = permits
    BY <1>4 DEF ServeEnds
  <2>3. TasksOK'
    BY <2>1, <2>2, TasksSettle DEF AdmissionInv
  <2> QED BY <1>4, <2>3 DEF AdmissionInv, CookiesOK, PendingOK, AdmissionHasCookie, SessionsOK, ServeEnds
<1>5. CASE TcpAccept
  <2>1. TasksOK'
    BY <1>5, StartTakesAPermit DEF AdmissionInv, TcpAccept
  <2> QED BY <1>5, <2>1 DEF AdmissionInv, CookiesOK, PendingOK, AdmissionHasCookie, SessionsOK, TcpAccept
<1>6. CASE UNCHANGED controlVars
  BY <1>6 DEF controlVars, AdmissionInv, CookiesOK, PendingOK, AdmissionHasCookie, SessionsOK, TasksOK, PermitsConserved
<1> QED BY <1>1, <1>2, <1>3, <1>4, <1>5, <1>6, FirstKeeps, KnownKeeps, SweepKeeps, TickKeeps DEF ControlNext

-----------------------------------------------------------------------------
(* Admission: the theorems.                                                *)

\* The inductive invariant holds in every reachable state.
LEMMA AdmissionSafe == ControlAssumption /\ ControlSpec => []AdmissionInv
<1> SUFFICES ASSUME ControlAssumption PROVE ControlSpec => []AdmissionInv
  OBVIOUS
<1> QED BY AdmissionInvInit, AdmissionInvStep, PTL DEF ControlSpec

\* No refusal, failure, timeout or eviction loses a handshake permit or returns it twice, and the two
\* maps keep their caps (open_udp_session, route_admitted, record_udp_admission, the sweep).
THEOREM PermitsAndMaps == ControlAssumption /\ ControlSpec => [](PermitsConserved /\ MapsBounded)
<1>1. AdmissionInv => PermitsConserved /\ MapsBounded
  BY DEF AdmissionInv, TasksOK, PendingOK, SessionsOK, MapsBounded
<1> QED BY <1>1, AdmissionSafe, PTL

\* A step that leaves both maps as they are opens nothing, gives nothing up and evicts nothing.
LEMMA MapsAlone ==
  ASSUME DOMAIN sessions' = DOMAIN sessions, DOMAIN pending \ Expired \subseteq DOMAIN pending'
  PROVE  OpenedByFreshCookie /\ AdmissionBuysASession /\ EstablishedStay
  BY DEF OpenedByFreshCookie, AdmissionBuysASession, EstablishedStay

\* What the steps do to the maps.
LEMMA AdmissionSteps ==
  ASSUME ControlAssumption, AdmissionInv, [ControlNext]_controlVars
  PROVE  OpenedByFreshCookie /\ AdmissionBuysASession /\ EstablishedStay
<1>1. ASSUME NEW s \in Src, Hello(s) PROVE OpenedByFreshCookie /\ AdmissionBuysASession /\ EstablishedStay
  BY <1>1, MapsAlone DEF Hello
<1>2. ASSUME NEW s \in Src, Admit(s) PROVE OpenedByFreshCookie /\ AdmissionBuysASession /\ EstablishedStay
  <2>1. PICK age \in cookies[s] : RecordUdpAdmission(s, age)
    BY <1>2 DEF Admit, Verify
  <2>2. DOMAIN pending \ Expired \subseteq DOMAIN pending'
    BY <1>2, <2>1, RecordKeeps DEF AdmissionInv, Admit
  <2> QED BY <1>2, <2>2, MapsAlone DEF Admit
<1>3. ASSUME NEW s \in Src, First(s) PROVE OpenedByFreshCookie /\ AdmissionBuysASession /\ EstablishedStay
  <2>1. DOMAIN pending' = DOMAIN pending \ {s}
    BY <1>3, PendingShrinks DEF AdmissionInv, First, OpenUdpSession
  <2>2. CASE s \in Expired /\ UNCHANGED <<sessions, permits, tasks>>
    BY <2>1, <2>2, MapsAlone
  <2>3. CASE s \notin Expired /\ sessions' = Put(sessions, s, 0)
    <3>1. DOMAIN sessions' = DOMAIN sessions \cup {s}
      BY <2>3 DEF Put
    <3>2. pending[s] \in cookies[s] /\ pending[s] < AdmitTtl
      BY <1>3, <2>3 DEF First, Expired, AdmissionInv, PendingOK, AdmissionHasCookie, ControlAssumption
    <3> QED BY <2>1, <3>1, <3>2 DEF OpenedByFreshCookie, AdmissionBuysASession, EstablishedStay
  <2> QED BY <1>3, <2>2, <2>3 DEF First, OpenUdpSession
<1>4. ASSUME NEW s \in Src, Known(s) PROVE OpenedByFreshCookie /\ AdmissionBuysASession /\ EstablishedStay
  <2>1. DOMAIN sessions' = DOMAIN sessions /\ pending' = pending
    BY <1>4 DEF Known, AdmissionInv, SessionsOK
  <2> QED BY <2>1, MapsAlone
<1>5. ASSUME NEW t \in ControlTask, HandshakeDone(t) \/ ServeEnds(t)
      PROVE  OpenedByFreshCookie /\ AdmissionBuysASession /\ EstablishedStay
  BY <1>5, MapsAlone DEF HandshakeDone, ServeEnds
<1>6. CASE TcpAccept
  BY <1>6, MapsAlone DEF TcpAccept
<1>7. CASE Sweep
  <2>1. DOMAIN sessions' = DOMAIN sessions \ Swept /\ DOMAIN pending' = DOMAIN pending \ Expired
    BY <1>7, SessionDrop, PendingShrinks DEF AdmissionInv, Sweep
  <2> QED BY <2>1 DEF OpenedByFreshCookie, AdmissionBuysASession, EstablishedStay, Swept
<1>8. CASE Tick
  <2>1. DOMAIN sessions' = DOMAIN sessions /\ DOMAIN pending' = DOMAIN pending
    BY <1>8 DEF Tick
  <2> QED BY <2>1, MapsAlone
<1>9. CASE UNCHANGED controlVars
  BY <1>9, MapsAlone DEF controlVars
<1> QED BY <1>1, <1>2, <1>3, <1>4, <1>5, <1>6, <1>7, <1>8, <1>9 DEF ControlNext

\* A session opens only within UDP_ADMISSION_TTL of a cookie issued to its source, however late or
\* often the cookie is replayed; an admission is given up only for a session or because it expired;
\* and a session is evicted only when it is silent for its time to live or carries nothing.
THEOREM AdmissionIsFair ==
  ControlAssumption /\ ControlSpec =>
    [][OpenedByFreshCookie /\ AdmissionBuysASession /\ EstablishedStay]_controlVars
<1> SUFFICES ASSUME ControlAssumption
             PROVE  ControlSpec => [][OpenedByFreshCookie /\ AdmissionBuysASession /\ EstablishedStay]_controlVars
  OBVIOUS
<1>1. AdmissionInv /\ [ControlNext]_controlVars
        => [OpenedByFreshCookie /\ AdmissionBuysASession /\ EstablishedStay]_controlVars
  BY AdmissionSteps
<1> QED BY <1>1, AdmissionSafe, PTL DEF ControlSpec

-----------------------------------------------------------------------------
(* The KCP session: the inductive invariant.                               *)

Driver == [conv : Conv, at : Phase, tail : BOOLEAN, app : {"reads", "stalls", "gone"}]

\* The tasks that a ConvGuard counts, and those that a leg's guard counts.
Active == {t \in KcpTask : drv[t].at \in {"run", "deliver", "leaving"}}
Legs == {t \in KcpTask : leg[t] \in {"leg", "unregister"}}

\* While the session is open, the map holds exactly the tasks whose guard has not dropped yet.
ConvsExact ==
    ~closed => \A c \in Conv : \A t \in KcpTask : convs[c] = t <=> t \in Active /\ drv[t].conv = c

\* So the cap that route_kcp compares with the map is a cap on the drivers.
DriversCounted ==
    /\ ~closed => IsFiniteSet(Convs) /\ Cardinality(Active) = Cardinality(Convs)
    /\ Cardinality(Active) <= MaxConvs

LanesOK ==
    /\ convs \in [Conv -> {None} \cup KcpTask] /\ drv \in [KcpTask -> Driver]
    /\ ConvsExact /\ DriversCounted

\* A task that has claimed its tag and not given it up.
Holds(t) == leg[t] \in {"claimed", "leg", "unregister", "detach"}

\* A leg belongs to a setup conv, and only a bridge takes the slot.
LegKnown ==
    \A t \in KcpTask :
        /\ drv[t].at = "none" => leg[t] = "none"
        /\ leg[t] \notin {"none", "done"} => drv[t].conv \in Setup
        /\ leg[t] \in {"slot", "detach"} => drv[t].conv = BridgeConv

\* Per tag one task at most: a relay leg has used up its claim, a bridge has the slot.
OneHolder ==
    \A t \in KcpTask : Holds(t) =>
        /\ \A u \in KcpTask : Holds(u) /\ drv[u].conv = drv[t].conv => u = t
        /\ drv[t].conv \notin unclaimed
        /\ drv[t].conv = BridgeConv => attached

TagsOK ==
    /\ dgrams \in [Setup -> {None} \cup KcpTask] /\ leg \in [KcpTask -> LegPhase] /\ unclaimed \subseteq RelayConv
    /\ LegKnown /\ OneHolder /\ LegsKeepTheirTag

\* The live count in terms of the two kinds of guard.
LiveOK == live \in Nat /\ live = Cardinality(Active) + Cardinality(Legs)

KcpInv == LanesOK /\ TagsOK /\ LiveOK

-----------------------------------------------------------------------------
(* The KCP session: what the steps share.                                  *)

\* There are finitely many tasks.
LEMMA TasksFinite ==
  ASSUME SessionAssumption
  PROVE  \A S : S \subseteq KcpTask => IsFiniteSet(S) /\ Cardinality(S) \in Nat /\ Cardinality(S) <= KcpMaxTasks
<1>1. IsFiniteSet(KcpTask) /\ Cardinality(KcpTask) = KcpMaxTasks
  BY FS_Interval DEF KcpTask, SessionAssumption
<1> QED BY <1>1, FS_Subset, FS_CardinalityType

\* A set of natural numbers that is not empty has a least member.
LEMMA HasLeast ==
  ASSUME NEW T, T \subseteq Nat, T # {}
  PROVE  \E x \in T : \A y \in T : x <= y
<1>1. PICK x \in T : \A y \in T : ~(<<y, x>> \in OpToRel(<, Nat))
  BY WFMin, NatLessThanWellFounded
<1>2. \A y \in T : ~(y < x)
  BY <1>1 DEF OpToRel
<1> QED BY <1>2

\* A driver that goes on, or that returns with its guard not dropped yet, disturbs no lane.
LEMMA LanesStay ==
  ASSUME LanesOK, UNCHANGED <<convs, closed>>, drv' \in [KcpTask -> Driver],
         \A u \in KcpTask : drv'[u].conv = drv[u].conv, Active' = Active
  PROVE  LanesOK'
<1>1. ConvsExact'
  BY DEF LanesOK, ConvsExact
<1>2. Convs' = Convs
  BY DEF Convs
<1>3. DriversCounted'
  BY <1>2 DEF LanesOK, DriversCounted
<1> QED BY <1>1, <1>3 DEF LanesOK

\* Tags are disturbed only by what the legs do.
LEMMA TagsStay ==
  ASSUME TagsOK, UNCHANGED <<dgrams, leg, attached, unclaimed, closed>>,
         \A u \in KcpTask : drv'[u].conv = drv[u].conv /\ (drv'[u].at = "none" => drv[u].at = "none")
  PROVE  TagsOK' /\ Legs' = Legs
<1>1. LegKnown' /\ Legs' = Legs
  BY DEF TagsOK, LegKnown, Legs
<1>2. OneHolder'
  BY DEF TagsOK, OneHolder, Holds
<1>3. LegsKeepTheirTag'
  BY DEF TagsOK, LegsKeepTheirTag
<1> QED BY <1>1, <1>2, <1>3 DEF TagsOK

\* A driver that stays counted changes nothing but itself.
LEMMA DriverMoves ==
  ASSUME KcpInv, NEW t \in Active, NEW d \in Driver, d.conv = drv[t].conv,
         d.at \in {"run", "deliver", "leaving"}, drv' = [drv EXCEPT ![t] = d],
         UNCHANGED <<convs, dgrams, live, attached, closed, unclaimed, leg>>
  PROVE  KcpInv'
<1>1. drv \in [KcpTask -> Driver] /\ t \in KcpTask
  BY DEF KcpInv, LanesOK, Active
<1>2. drv' \in [KcpTask -> Driver] /\ \A u \in KcpTask : u # t => drv'[u] = drv[u]
  BY <1>1
<1>3. drv'[t] = d
  BY <1>1
<1>4. \A u \in KcpTask : drv'[u].conv = drv[u].conv /\ (drv'[u].at = "none" => drv[u].at = "none")
  BY <1>2, <1>3
<1>5. Active' = Active
  BY <1>1, <1>2, <1>3 DEF Active
<1>6. LanesOK'
  BY <1>2, <1>4, <1>5, LanesStay DEF KcpInv
<1>7. TagsOK' /\ Legs' = Legs
  BY <1>4, TagsStay DEF KcpInv
<1> QED BY <1>5, <1>6, <1>7 DEF KcpInv, LiveOK

\* The steps of a driver before its guard drops.
LEMMA DriverSteps ==
  ASSUME KcpInv, NEW t \in KcpTask, Deliver(t) \/ HandUp(t) \/ AppWrite(t) \/ AppDrops(t) \/ DriveConv(t)
  PROVE  KcpInv'
<1>1. drv \in [KcpTask -> Driver] /\ drv[t] \in Driver
  BY DEF KcpInv, LanesOK
<1>2. t \in Active
  BY DEF Active, Deliver, HandUp, AppWrite, AppDrops, DriveConv, Running
<1>3. ASSUME NEW d \in Driver, d.conv = drv[t].conv, d.at \in {"run", "deliver", "leaving"},
             drv' = [drv EXCEPT ![t] = d],
             UNCHANGED <<convs, dgrams, live, attached, closed, unclaimed, leg>>
      PROVE  KcpInv'
  BY <1>2, <1>3, DriverMoves
<1>4. CASE Deliver(t)
  <2>1. PICK acked \in BOOLEAN, message \in BOOLEAN :
           drv' = [drv EXCEPT ![t] = [drv[t] EXCEPT !.tail = drv[t].tail /\ ~acked,
                                                    !.at = IF message THEN "deliver" ELSE "run"]]
    BY <1>4 DEF Deliver
  <2> DEFINE tail == drv[t].tail /\ ~acked
             e == [drv[t] EXCEPT !.tail = tail]
             at == IF message THEN "deliver" ELSE "run"
             d == [e EXCEPT !.at = at]
  <2>2. drv' = [drv EXCEPT ![t] = d]
    BY <2>1
  <2>3. tail \in BOOLEAN /\ at \in {"run", "deliver"}
    OBVIOUS
  <2> HIDE DEF tail, at
  <2>4. e \in Driver /\ e.conv = drv[t].conv
    BY <1>1, <2>3 DEF Driver
  <2> HIDE DEF e
  <2>5. d \in Driver /\ d.conv = e.conv /\ d.at \in {"run", "deliver"}
    BY <2>3, <2>4 DEF Driver, Phase
  <2>6. UNCHANGED <<convs, dgrams, live, attached, closed, unclaimed, leg>>
    BY <1>4 DEF Deliver
  <2> HIDE DEF d
  <2> QED BY <1>3, <2>2, <2>4, <2>5, <2>6
<1>5. CASE HandUp(t)
  <2> DEFINE d == [drv[t] EXCEPT !.at = IF drv[t].app = "gone" THEN "leaving" ELSE "run"]
  <2>1. d \in Driver /\ d.conv = drv[t].conv /\ d.at \in {"run", "leaving"}
    BY <1>1 DEF Driver, Phase
  <2>2. drv' = [drv EXCEPT ![t] = d] /\ UNCHANGED <<convs, dgrams, live, attached, closed, unclaimed, leg>>
    BY <1>1, <1>5 DEF HandUp
  <2> HIDE DEF d
  <2> QED BY <1>3, <2>1, <2>2
<1>6. CASE AppWrite(t)
  <2> DEFINE d == [drv[t] EXCEPT !.tail = TRUE]
  <2>1. d \in Driver /\ d.conv = drv[t].conv /\ d.at = drv[t].at
    BY <1>1 DEF Driver
  <2>2. drv' = [drv EXCEPT ![t] = d] /\ UNCHANGED <<convs, dgrams, live, attached, closed, unclaimed, leg>>
        /\ drv[t].at = "run"
    BY <1>1, <1>6 DEF AppWrite
  <2> HIDE DEF d
  <2> QED BY <1>3, <2>1, <2>2
<1>7. CASE AppDrops(t)
  <2>1. PICK a \in {"gone", "stalls"} : drv' = [drv EXCEPT ![t].app = a]
    BY <1>7 DEF AppDrops
  <2> DEFINE d == [drv[t] EXCEPT !.app = a]
  <2>2. d \in Driver /\ d.conv = drv[t].conv /\ d.at = drv[t].at
    BY <1>1 DEF Driver
  <2>3. drv' = [drv EXCEPT ![t] = d] /\ UNCHANGED <<convs, dgrams, live, attached, closed, unclaimed, leg>>
        /\ drv[t].at \in {"run", "deliver"}
    BY <1>1, <1>7, <2>1 DEF AppDrops, Running
  <2> HIDE DEF d
  <2> QED BY <1>3, <2>2, <2>3
<1>8. CASE DriveConv(t)
  <2> DEFINE d == [drv[t] EXCEPT !.at = "leaving"]
  <2>1. d \in Driver /\ d.conv = drv[t].conv /\ d.at = "leaving"
    BY <1>1 DEF Driver, Phase
  <2>2. drv' = [drv EXCEPT ![t] = d] /\ UNCHANGED <<convs, dgrams, live, attached, closed, unclaimed, leg>>
    BY <1>1, <1>8 DEF DriveConv
  <2> HIDE DEF d
  <2> QED BY <1>3, <2>1, <2>2
<1> QED BY <1>4, <1>5, <1>6, <1>7, <1>8

\* A conv that opens takes a free id, below the cap.
LEMMA RouteKeeps ==
  ASSUME SessionAssumption, KcpInv, NEW c \in Conv, RouteKcp(c)
  PROVE  KcpInv'
<1> DEFINE t == CHOOSE u \in Fresh : \A w \in Fresh : u <= w
           d == [conv |-> c, at |-> "run", tail |-> FALSE, app |-> "reads"]
<1>1. t \in Fresh
  <2>1. Fresh \subseteq Nat /\ Fresh # {}
    BY DEF RouteKcp, Fresh, KcpTask
  <2>2. \E u \in Fresh : \A w \in Fresh : u <= w
    BY <2>1, HasLeast
  <2> QED BY <2>2
<1>2. /\ ~closed /\ convs[c] = None /\ Cardinality(Convs) < MaxConvs
      /\ convs' = [convs EXCEPT ![c] = t] /\ live' = live + 1
      /\ drv' = [drv EXCEPT ![t] = d]
      /\ leg' = [leg EXCEPT ![t] = IF c \in Setup THEN "handshake" ELSE "done"]
      /\ UNCHANGED <<dgrams, attached, closed, unclaimed>>
  BY DEF RouteKcp, SpawnConv
<1> HIDE DEF t
<1>3. t \in KcpTask /\ drv[t].at = "none" /\ t # None
  BY <1>1 DEF Fresh, KcpTask, None, SessionAssumption
<1>4. /\ convs \in [Conv -> {None} \cup KcpTask] /\ drv \in [KcpTask -> Driver] /\ leg \in [KcpTask -> LegPhase]
      /\ \A x \in Conv : \A u \in KcpTask : convs[x] = u <=> u \in Active /\ drv[u].conv = x
      /\ IsFiniteSet(Convs) /\ Cardinality(Active) = Cardinality(Convs)
      /\ live \in Nat /\ live = Cardinality(Active) + Cardinality(Legs)
  BY <1>2 DEF KcpInv, LanesOK, TagsOK, LiveOK, ConvsExact, DriversCounted
<1>5. d \in Driver /\ d.conv = c /\ d.at = "run"
  BY DEF Driver, Phase
<1> HIDE DEF d
<1>6. drv' \in [KcpTask -> Driver] /\ drv'[t] = d /\ \A u \in KcpTask \ {t} : drv'[u] = drv[u]
  BY <1>2, <1>3, <1>4, <1>5
<1>7. leg[t] = "none"
  BY <1>3 DEF KcpInv, TagsOK, LegKnown
<1>8. leg' \in [KcpTask -> LegPhase] /\ leg'[t] \in {"handshake", "done"} /\ (leg'[t] = "handshake" => c \in Setup)
      /\ \A u \in KcpTask \ {t} : leg'[u] = leg[u]
  BY <1>2, <1>3, <1>4 DEF LegPhase
<1>9. Active' = Active \cup {t} /\ t \notin Active /\ Legs' = Legs
  BY <1>3, <1>5, <1>6, <1>7, <1>8 DEF Active, Legs
<1>10. Convs' = Convs \cup {c} /\ c \notin Convs
  BY <1>2, <1>3, <1>4 DEF Convs
<1>11. /\ Cardinality(Active') = Cardinality(Active) + 1 /\ Cardinality(Active) \in Nat
       /\ Cardinality(Legs) \in Nat
  BY <1>9, TasksFinite, FS_AddElement DEF Active, Legs
<1>12. IsFiniteSet(Convs') /\ Cardinality(Convs') = Cardinality(Convs) + 1
  BY <1>4, <1>10, FS_AddElement
<1>13. LanesOK'
  <2>1. convs' \in [Conv -> {None} \cup KcpTask]
    BY <1>2, <1>3, <1>4
  <2>2. ConvsExact'
    <3> SUFFICES ASSUME NEW x \in Conv, NEW u \in KcpTask
                 PROVE  convs'[x] = u <=> u \in Active' /\ drv'[u].conv = x
      BY DEF ConvsExact
    <3>1. CASE x = c
      <4>1. convs'[x] = t
        BY <1>2, <1>4, <3>1
      <4>2. u # t => ~(u \in Active /\ drv[u].conv = c)
        BY <1>2, <1>4, None \notin KcpTask DEF KcpTask, None
      <4> QED BY <1>5, <1>6, <1>9, <3>1, <4>1, <4>2
    <3>2. CASE x # c
      <4>1. convs'[x] = convs[x]
        BY <1>2, <1>4, <3>2
      <4>2. u = t => ~(convs[x] = u) /\ drv'[u].conv # x
        BY <1>4, <1>5, <1>6, <1>9, <3>2
      <4> QED BY SMTT(30), <1>4, <1>6, <1>9, <4>1, <4>2
    <3> QED BY <3>1, <3>2
  <2>3. DriversCounted'
    BY <1>2, <1>4, <1>11, <1>12 DEF DriversCounted, SessionAssumption
  <2> QED BY <1>6, <2>1, <2>2, <2>3 DEF LanesOK
<1>14. TagsOK'
  <2>1. LegKnown'
    BY <1>5, <1>6, <1>8 DEF KcpInv, TagsOK, LegKnown
  <2>2. \A u \in KcpTask : Holds(u)' => u # t /\ Holds(u) /\ drv'[u] = drv[u]
    BY <1>6, <1>8 DEF Holds
  <2>3. OneHolder'
    BY <1>2, <2>2 DEF KcpInv, TagsOK, OneHolder
  <2>4. LegsKeepTheirTag'
    BY <1>2, <1>6, <1>8 DEF KcpInv, TagsOK, LegsKeepTheirTag
  <2> QED BY <1>2, <1>8, <2>1, <2>3, <2>4 DEF KcpInv, TagsOK
<1>15. LiveOK'
  BY <1>2, <1>4, <1>9, <1>11 DEF LiveOK
<1> QED BY <1>13, <1>14, <1>15 DEF KcpInv

\* The guard of a driver erases its own entry, although it does not look at whose it is.
LEMMA ConvGuardKeeps ==
  ASSUME SessionAssumption, KcpInv, NEW t \in KcpTask, ConvGuardDrop(t)
  PROVE  KcpInv'
<1> DEFINE c == drv[t].conv
<1>1. /\ drv[t].at = "leaving" /\ convs' = [convs EXCEPT ![c] = None] /\ live' = live - 1
      /\ drv' = [drv EXCEPT ![t] = Gone(c)]
      /\ leg' = [leg EXCEPT ![t] = IF leg[t] = "handshake" THEN "done" ELSE leg[t]]
      /\ UNCHANGED <<dgrams, attached, closed, unclaimed>>
  BY DEF ConvGuardDrop
<1>2. /\ convs \in [Conv -> {None} \cup KcpTask] /\ drv \in [KcpTask -> Driver] /\ leg \in [KcpTask -> LegPhase]
      /\ live \in Nat /\ live = Cardinality(Active) + Cardinality(Legs)
  BY DEF KcpInv, LanesOK, TagsOK, LiveOK
<1>3. c \in Conv
  BY <1>2 DEF Driver
<1>4. Gone(c) \in Driver /\ Gone(c).conv = c /\ Gone(c).at = "gone"
  <2>1. NoDriver \in Driver
    BY DEF NoDriver, Driver, Phase, Conv, Setup
  <2> DEFINE e == [NoDriver EXCEPT !.at = "gone"]
  <2>2. e \in Driver /\ e.at = "gone"
    BY <2>1 DEF Driver, Phase
  <2> HIDE DEF e, c
  <2>3. [e EXCEPT !.conv = c] \in Driver /\ [e EXCEPT !.conv = c].conv = c /\ [e EXCEPT !.conv = c].at = "gone"
    BY <1>3, <2>2 DEF Driver
  <2>4. Gone(c) = [e EXCEPT !.conv = c]
    BY DEF Gone, e
  <2> QED BY <2>3, <2>4
<1>5. drv' \in [KcpTask -> Driver] /\ drv'[t] = Gone(c) /\ \A u \in KcpTask \ {t} : drv'[u] = drv[u]
  BY <1>1, <1>2, <1>4
<1>6. /\ leg' \in [KcpTask -> LegPhase] /\ (leg'[t] = leg[t] \/ (leg[t] = "handshake" /\ leg'[t] = "done"))
      /\ \A u \in KcpTask \ {t} : leg'[u] = leg[u]
  BY <1>1, <1>2 DEF LegPhase
<1>7. \A u \in KcpTask : drv'[u].conv = drv[u].conv
  BY <1>4, <1>5
<1>8. Active' = Active \ {t} /\ t \in Active /\ Legs' = Legs
  BY <1>1, <1>4, <1>5, <1>6 DEF Active, Legs
<1>9. /\ Cardinality(Active') = Cardinality(Active) - 1 /\ Cardinality(Active) \in Nat
      /\ Cardinality(Active') \in Nat /\ Cardinality(Legs) \in Nat
  <2>1. Active \subseteq KcpTask /\ Active' \subseteq KcpTask /\ Legs \subseteq KcpTask
    BY <1>8 DEF Active, Legs
  <2>2. IsFiniteSet(Active) /\ Cardinality(Active) \in Nat /\ Cardinality(Legs) \in Nat /\ Cardinality(Active') \in Nat
    BY <2>1, TasksFinite
  <2> QED BY <1>8, <2>2, FS_RemoveElement
<1> HIDE DEF c
<1>10. LanesOK'
  <2>1. convs' \in [Conv -> {None} \cup KcpTask]
    BY <1>1, <1>2
  <2>2. ConvsExact'
    <3> SUFFICES ASSUME ~closed, NEW x \in Conv, NEW u \in KcpTask
                 PROVE  convs'[x] = u <=> u \in Active' /\ drv'[u].conv = x
      BY <1>1 DEF ConvsExact
    <3>1. convs[x] = u <=> u \in Active /\ drv[u].conv = x
      BY DEF KcpInv, LanesOK, ConvsExact
    <3>2. convs[c] = t
      BY <1>3, <1>8 DEF KcpInv, LanesOK, ConvsExact, c
    <3>3. CASE x = c
      <4>1. convs'[x] = None /\ None # u
        BY <1>1, <1>2, <1>3, <3>3 DEF None, KcpTask
      <4>2. u # t => ~(u \in Active /\ drv[u].conv = c)
        BY <3>1, <3>2, <3>3
      <4> QED BY <1>7, <1>8, <3>3, <4>1, <4>2
    <3>4. CASE x # c
      <4>1. convs'[x] = convs[x]
        BY <1>1, <1>2, <3>4
      <4>2. drv[t].conv # x
        BY <3>4 DEF c
      <4> QED BY <1>7, <1>8, <3>1, <4>1, <4>2
    <3> QED BY <3>3, <3>4
  <2>3. DriversCounted'
    <3>1. ASSUME ~closed PROVE IsFiniteSet(Convs') /\ Cardinality(Active') = Cardinality(Convs')
      <4>1. IsFiniteSet(Convs) /\ Cardinality(Active) = Cardinality(Convs)
        BY <3>1 DEF KcpInv, LanesOK, DriversCounted
      <4>2. convs[c] = t /\ t # None
        BY <1>3, <1>8, <3>1 DEF KcpInv, LanesOK, ConvsExact, c, KcpTask, None
      <4>3. Convs' = Convs \ {c} /\ c \in Convs
        BY <1>1, <1>2, <1>3, <4>2 DEF Convs
      <4> QED BY <1>9, <4>1, <4>3, FS_RemoveElement
    <3> QED BY <1>1, <1>9, <3>1 DEF KcpInv, LanesOK, DriversCounted, SessionAssumption
  <2> QED BY <1>5, <2>1, <2>2, <2>3 DEF LanesOK
<1>11. TagsOK'
  <2>1. LegKnown'
    BY <1>1, <1>4, <1>5, <1>6, <1>7 DEF KcpInv, TagsOK, LegKnown
  <2>2. \A u \in KcpTask : Holds(u)' => Holds(u)
    BY <1>6 DEF Holds
  <2>3. OneHolder'
    BY <1>1, <1>7, <2>2 DEF KcpInv, TagsOK, OneHolder
  <2>4. LegsKeepTheirTag'
    BY SMTT(30), <1>1, <1>6, <1>7 DEF KcpInv, TagsOK, LegsKeepTheirTag
  <2> QED BY <1>1, <1>6, <2>1, <2>3, <2>4 DEF KcpInv, TagsOK
<1>12. LiveOK'
  BY SMTT(30), <1>1, <1>2, <1>8, <1>9 DEF LiveOK
<1> QED BY <1>10, <1>11, <1>12 DEF KcpInv

\* The application of a setup conv lets go of its stream: no lane and no tag is disturbed.
LEMMA StreamDropped ==
  ASSUME KcpInv, NEW t \in KcpTask, drv' = [drv EXCEPT ![t].app = "gone"], UNCHANGED <<convs, closed>>
  PROVE  LanesOK' /\ Active' = Active /\ \A u \in KcpTask : drv'[u].conv = drv[u].conv /\ drv'[u].at = drv[u].at
<1> DEFINE d == [drv[t] EXCEPT !.app = "gone"]
<1>1. drv \in [KcpTask -> Driver] /\ drv[t] \in Driver
  BY DEF KcpInv, LanesOK
<1>2. d \in Driver /\ d.conv = drv[t].conv /\ d.at = drv[t].at
  BY <1>1 DEF Driver
<1>3. drv' = [drv EXCEPT ![t] = d]
  BY <1>1
<1> HIDE DEF d
<1>4. drv' \in [KcpTask -> Driver] /\ \A u \in KcpTask : drv'[u].conv = drv[u].conv /\ drv'[u].at = drv[u].at
  BY <1>1, <1>2, <1>3
<1>5. Active' = Active
  BY <1>4 DEF Active
<1> QED BY <1>4, <1>5, LanesStay DEF KcpInv

\* A setup conv is accepted: the claim of a relay leg and the lease of a bridge are used up.
LEMMA AcceptKeeps ==
  ASSUME SessionAssumption, KcpInv, NEW t \in KcpTask, AcceptRelayLeg(t) \/ AcceptBridge(t)
  PROVE  KcpInv'
<1>1. /\ drv' = [drv EXCEPT ![t].app = "gone"] /\ leg[t] = "handshake"
      /\ UNCHANGED <<convs, dgrams, live, attached, closed>>
  BY DEF AcceptRelayLeg, AcceptBridge
<1>2. LanesOK' /\ Active' = Active /\ \A u \in KcpTask : drv'[u].conv = drv[u].conv /\ drv'[u].at = drv[u].at
  BY <1>1, StreamDropped
<1>3. leg \in [KcpTask -> LegPhase]
  BY DEF KcpInv, TagsOK
<1>4. /\ leg' \in [KcpTask -> LegPhase] /\ \A u \in KcpTask \ {t} : leg'[u] = leg[u]
      /\ leg'[t] \in {"claimed", "slot", "done"} /\ unclaimed' \subseteq unclaimed
      /\ leg'[t] = "claimed" => drv[t].conv \in unclaimed /\ drv[t].conv \in RelayConv /\ drv[t].conv \notin unclaimed'
      /\ leg'[t] = "slot" => drv[t].conv = BridgeConv
  BY <1>3 DEF AcceptRelayLeg, AcceptBridge, LegPhase
<1>5. Legs' = Legs
  BY <1>1, <1>4 DEF Legs
<1>6. LegKnown'
  BY <1>1, <1>2, <1>4 DEF KcpInv, TagsOK, LegKnown, Setup
<1>7. OneHolder'
  <2>1. \A u \in KcpTask : u # t => (Holds(u)' <=> Holds(u))
    BY <1>4 DEF Holds
  <2>2. Holds(t)' => leg'[t] = "claimed"
    BY <1>4 DEF Holds
  <2>3. \A u \in KcpTask : Holds(u) => drv[u].conv \notin unclaimed
    BY DEF KcpInv, TagsOK, OneHolder
  <2>4. leg'[t] = "claimed" => drv[t].conv # BridgeConv
    BY <1>4 DEF SessionAssumption
  <2> QED BY <1>1, <1>2, <1>4, <2>1, <2>2, <2>3, <2>4 DEF KcpInv, TagsOK, OneHolder
<1>8. LegsKeepTheirTag'
  BY <1>1, <1>2, <1>4 DEF KcpInv, TagsOK, LegsKeepTheirTag
<1>9. TagsOK'
  BY <1>1, <1>4, <1>6, <1>7, <1>8 DEF KcpInv, TagsOK
<1> QED BY <1>1, <1>2, <1>5, <1>9 DEF KcpInv, LiveOK

\* The bridge slot is taken when it is free and given back by the one task that has it.
LEMMA SlotKeeps ==
  ASSUME SessionAssumption, KcpInv, NEW t \in KcpTask, TryAttachBridge(t) \/ BridgeGuardDrop(t)
  PROVE  KcpInv'
<1>1. UNCHANGED <<convs, dgrams, live, closed, unclaimed, drv>> /\ leg \in [KcpTask -> LegPhase]
  BY DEF KcpInv, TagsOK, TryAttachBridge, BridgeGuardDrop
<1>2. LanesOK' /\ Active' = Active
  BY <1>1, LanesStay DEF KcpInv, LanesOK, Active
<1>3. drv[t].conv = BridgeConv
  BY DEF KcpInv, TagsOK, LegKnown, TryAttachBridge, BridgeGuardDrop
<1>4. /\ leg' \in [KcpTask -> LegPhase] /\ \A u \in KcpTask \ {t} : leg'[u] = leg[u]
      /\ leg[t] \in {"slot", "detach"} /\ leg'[t] \in {"claimed", "done"}
      /\ leg'[t] = "claimed" => leg[t] = "slot" /\ ~attached
  BY <1>1 DEF TryAttachBridge, BridgeGuardDrop, LegPhase
<1>5. Legs' = Legs
  BY <1>4 DEF Legs
<1>6. LegKnown'
  BY <1>1, <1>3, <1>4 DEF KcpInv, TagsOK, LegKnown, Setup
<1>7. \A u \in KcpTask : u # t => (Holds(u)' <=> Holds(u))
  BY <1>4 DEF Holds
<1>8. CASE TryAttachBridge(t)
  <2>1. attached' /\ (Holds(t)' => ~attached)
    BY <1>4, <1>8 DEF TryAttachBridge, Holds
  <2>2. \A u \in KcpTask : Holds(u) /\ drv[u].conv = BridgeConv => attached
    BY DEF KcpInv, TagsOK, OneHolder
  <2>3. BridgeConv \notin unclaimed
    <3>1. unclaimed \subseteq RelayConv
      BY DEF KcpInv, TagsOK
    <3> QED BY <3>1 DEF SessionAssumption
  <2>4. OneHolder'
    BY <1>1, <1>3, <1>7, <2>1, <2>2, <2>3 DEF KcpInv, TagsOK, OneHolder
  <2> QED BY <1>1, <1>2, <1>4, <1>5, <1>6, <2>4 DEF KcpInv, TagsOK, LiveOK, LegsKeepTheirTag
<1>9. CASE BridgeGuardDrop(t)
  <2>1. Holds(t) /\ ~Holds(t)'
    BY <1>4, <1>9 DEF BridgeGuardDrop, Holds
  <2>2. \A u \in KcpTask : Holds(u) /\ u # t => drv[u].conv # BridgeConv
    BY <1>3, <2>1 DEF KcpInv, TagsOK, OneHolder
  <2>3. OneHolder'
    BY <1>1, <1>7, <2>1, <2>2 DEF KcpInv, TagsOK, OneHolder
  <2> QED BY <1>1, <1>2, <1>4, <1>5, <1>6, <2>3 DEF KcpInv, TagsOK, LiveOK, LegsKeepTheirTag
<1> QED BY <1>8, <1>9

\* A leg that registers counts itself and is the only one to write its tag.
LEMMA RegisterKeeps ==
  ASSUME SessionAssumption, KcpInv, NEW t \in KcpTask, RegisterDgram(t)
  PROVE  KcpInv'
<1>1. /\ leg[t] = "claimed" /\ dgrams' = [dgrams EXCEPT ![drv[t].conv] = t] /\ live' = live + 1
      /\ leg' = [leg EXCEPT ![t] = "leg"] /\ UNCHANGED <<convs, attached, closed, unclaimed, drv>>
  BY DEF RegisterDgram
<1>2. /\ leg \in [KcpTask -> LegPhase] /\ dgrams \in [Setup -> {None} \cup KcpTask]
      /\ live \in Nat /\ live = Cardinality(Active) + Cardinality(Legs)
  BY DEF KcpInv, TagsOK, LiveOK
<1>3. LanesOK' /\ Active' = Active
  BY <1>1, LanesStay DEF KcpInv, LanesOK, Active
<1>4. leg' \in [KcpTask -> LegPhase] /\ leg'[t] = "leg" /\ \A u \in KcpTask \ {t} : leg'[u] = leg[u]
  BY <1>1, <1>2 DEF LegPhase
<1>5. drv[t].conv \in Setup
  BY <1>1 DEF KcpInv, TagsOK, LegKnown
<1>6. dgrams' \in [Setup -> {None} \cup KcpTask] /\ dgrams'[drv[t].conv] = t
      /\ \A c \in Setup : c # drv[t].conv => dgrams'[c] = dgrams[c]
  BY <1>1, <1>2, <1>5
<1>7. LegKnown'
  BY <1>1, <1>4, <1>5 DEF KcpInv, TagsOK, LegKnown
<1>8. OneHolder'
  <2>1. \A u \in KcpTask : Holds(u)' <=> Holds(u)
    BY <1>1, <1>4 DEF Holds
  <2> QED BY <1>1, <2>1 DEF KcpInv, TagsOK, OneHolder
<1>9. LegsKeepTheirTag'
  <2> SUFFICES ASSUME NEW u \in KcpTask, leg'[u] = "leg", ~closed
               PROVE  dgrams'[drv[u].conv] = u
    BY <1>1 DEF LegsKeepTheirTag
  <2>1. CASE u = t
    BY <1>6, <2>1
  <2>2. CASE u # t
    <3>1. leg[u] = "leg"
      BY <1>4, <2>2
    <3>2. dgrams[drv[u].conv] = u /\ drv[u].conv \in Setup
      BY <3>1 DEF KcpInv, TagsOK, LegsKeepTheirTag, LegKnown
    <3>3. drv[u].conv # drv[t].conv
      BY <1>1, <2>2, <3>1 DEF KcpInv, TagsOK, OneHolder, Holds
    <3> QED BY <1>6, <3>2, <3>3
  <2> QED BY <2>1, <2>2
<1>10. TagsOK'
  BY <1>1, <1>4, <1>6, <1>7, <1>8, <1>9 DEF KcpInv, TagsOK
<1>11. LiveOK'
  <2>1. Legs' = Legs \cup {t} /\ t \notin Legs /\ Legs \subseteq KcpTask /\ Active \subseteq KcpTask
    BY <1>1, <1>4 DEF Legs, Active
  <2>2. IsFiniteSet(Legs) /\ Cardinality(Legs) \in Nat /\ Cardinality(Active) \in Nat
    BY <2>1, TasksFinite
  <2>3. Cardinality(Legs') = Cardinality(Legs) + 1
    BY <2>1, <2>2, FS_AddElement
  <2> QED BY <1>1, <1>2, <1>3, <2>2, <2>3 DEF LiveOK
<1> QED BY <1>3, <1>10, <1>11 DEF KcpInv

\* A leg ends and its guard erases its own tag, although it does not look at whose it is.
LEMMA LegGuardKeeps ==
  ASSUME SessionAssumption, KcpInv, NEW t \in KcpTask, LegGuardDrop(t)
  PROVE  KcpInv'
<1>1. /\ leg[t] = "unregister" /\ dgrams' = [dgrams EXCEPT ![drv[t].conv] = None] /\ live' = live - 1
      /\ leg' = [leg EXCEPT ![t] = IF drv[t].conv = BridgeConv THEN "detach" ELSE "done"]
      /\ UNCHANGED <<convs, attached, closed, unclaimed, drv>>
  BY DEF LegGuardDrop
<1>2. /\ leg \in [KcpTask -> LegPhase] /\ dgrams \in [Setup -> {None} \cup KcpTask]
      /\ live \in Nat /\ live = Cardinality(Active) + Cardinality(Legs)
  BY DEF KcpInv, TagsOK, LiveOK
<1>3. LanesOK' /\ Active' = Active
  BY <1>1, LanesStay DEF KcpInv, LanesOK, Active
<1>4. /\ leg' \in [KcpTask -> LegPhase] /\ leg'[t] \in {"detach", "done"}
      /\ leg'[t] = "detach" => drv[t].conv = BridgeConv
      /\ \A u \in KcpTask \ {t} : leg'[u] = leg[u]
  BY <1>1, <1>2 DEF LegPhase
<1>5. drv[t].conv \in Setup
  BY <1>1 DEF KcpInv, TagsOK, LegKnown
<1>6. dgrams' \in [Setup -> {None} \cup KcpTask]
      /\ \A c \in Setup : c # drv[t].conv => dgrams'[c] = dgrams[c]
  BY <1>1, <1>2, <1>5
<1>7. LegKnown'
  BY <1>1, <1>4, <1>5 DEF KcpInv, TagsOK, LegKnown
<1>8. OneHolder'
  <2>1. \A u \in KcpTask : Holds(u)' => Holds(u)
    BY <1>1, <1>4 DEF Holds
  <2> QED BY <1>1, <2>1 DEF KcpInv, TagsOK, OneHolder
<1>9. LegsKeepTheirTag'
  <2> SUFFICES ASSUME NEW u \in KcpTask, leg'[u] = "leg", ~closed
               PROVE  dgrams'[drv[u].conv] = u
    BY <1>1 DEF LegsKeepTheirTag
  <2>1. u # t /\ leg[u] = "leg"
    BY <1>4
  <2>2. dgrams[drv[u].conv] = u /\ drv[u].conv \in Setup
    BY <2>1 DEF KcpInv, TagsOK, LegsKeepTheirTag, LegKnown
  <2>3. drv[u].conv # drv[t].conv
    BY <1>1, <2>1 DEF KcpInv, TagsOK, OneHolder, Holds
  <2> QED BY <1>6, <2>2, <2>3
<1>10. TagsOK'
  BY <1>1, <1>4, <1>6, <1>7, <1>8, <1>9 DEF KcpInv, TagsOK
<1>11. LiveOK'
  <2>1. Legs' = Legs \ {t} /\ t \in Legs /\ Legs \subseteq KcpTask /\ Active \subseteq KcpTask /\ Legs' \subseteq KcpTask
    BY <1>1, <1>4 DEF Legs, Active
  <2>2. IsFiniteSet(Legs) /\ Cardinality(Legs) \in Nat /\ Cardinality(Active) \in Nat /\ Cardinality(Legs') \in Nat
    BY <2>1, TasksFinite
  <2>3. Cardinality(Legs') = Cardinality(Legs) - 1
    BY <2>1, <2>2, FS_RemoveElement
  <2> QED BY <1>1, <1>2, <1>3, <2>2, <2>3 DEF LiveOK
<1> QED BY <1>3, <1>10, <1>11 DEF KcpInv

\* A leg that ends keeps its tag until its guard drops.
LEMMA LegEndsKeeps ==
  ASSUME KcpInv, NEW t \in KcpTask, LegEnds(t)
  PROVE  KcpInv'
<1>1. leg[t] = "leg" /\ leg' = [leg EXCEPT ![t] = "unregister"] /\ leg \in [KcpTask -> LegPhase]
      /\ UNCHANGED <<convs, dgrams, live, attached, closed, unclaimed, drv>>
  BY DEF KcpInv, TagsOK, LegEnds
<1>2. LanesOK' /\ Active' = Active
  BY <1>1, LanesStay DEF KcpInv, LanesOK, Active
<1>3. leg' \in [KcpTask -> LegPhase] /\ leg'[t] = "unregister" /\ \A u \in KcpTask \ {t} : leg'[u] = leg[u]
  BY <1>1 DEF LegPhase
<1>4. Legs' = Legs
  BY <1>1, <1>3 DEF Legs
<1>5. LegKnown'
  BY <1>1, <1>3 DEF KcpInv, TagsOK, LegKnown
<1>6. OneHolder'
  <2>1. \A u \in KcpTask : Holds(u)' <=> Holds(u)
    BY <1>1, <1>3 DEF Holds
  <2> QED BY <1>1, <2>1 DEF KcpInv, TagsOK, OneHolder
<1>7. LegsKeepTheirTag'
  BY <1>1, <1>3 DEF KcpInv, TagsOK, LegsKeepTheirTag
<1> QED BY <1>1, <1>2, <1>3, <1>4, <1>5, <1>6, <1>7 DEF KcpInv, TagsOK, LiveOK

\* Clearing the maps leaves nothing to lose: nothing is routed to a closed session.
LEMMA CloseKeeps ==
  ASSUME KcpInv, Close
  PROVE  KcpInv'
<1>1. /\ closed' /\ convs' = [c \in Conv |-> None] /\ dgrams' = [c \in Setup |-> None]
      /\ UNCHANGED <<live, attached, unclaimed, drv, leg>>
  BY DEF Close
<1>2. Active' = Active /\ Legs' = Legs
  BY <1>1 DEF Active, Legs
<1>3. LanesOK'
  BY <1>1, <1>2 DEF KcpInv, LanesOK, ConvsExact, DriversCounted
<1>4. TagsOK'
  BY <1>1 DEF KcpInv, TagsOK, LegKnown, OneHolder, Holds, LegsKeepTheirTag
<1> QED BY <1>1, <1>2, <1>3, <1>4 DEF KcpInv, LiveOK

\* A new session has no conv and no leg.
LEMMA KcpInvInit == SessionAssumption /\ KcpInit => KcpInv
<1> SUFFICES ASSUME SessionAssumption, KcpInit PROVE KcpInv
  OBVIOUS
<1>1. NoDriver \in Driver /\ NoDriver.at = "none"
  BY DEF NoDriver, Driver, Phase, Conv, Setup
<1>2. Active = {} /\ Legs = {} /\ Convs = {}
  BY <1>1 DEF KcpInit, Active, Legs, Convs
<1>3. IsFiniteSet({}) /\ Cardinality({}) = 0
  BY FS_EmptySet
<1>4. LanesOK
  <2>1. convs \in [Conv -> {None} \cup KcpTask] /\ drv \in [KcpTask -> Driver]
    BY <1>1 DEF KcpInit
  <2>2. ConvsExact
    BY <1>2 DEF KcpInit, ConvsExact, None, KcpTask
  <2>3. DriversCounted
    BY <1>2, <1>3 DEF DriversCounted, SessionAssumption
  <2> QED BY <2>1, <2>2, <2>3 DEF LanesOK
<1>5. TagsOK
  BY DEF KcpInit, TagsOK, LegPhase, LegKnown, OneHolder, Holds, LegsKeepTheirTag
<1>6. LiveOK
  BY <1>2, <1>3 DEF KcpInit, LiveOK
<1> QED BY <1>4, <1>5, <1>6 DEF KcpInv

\* KcpInv is inductive.
LEMMA KcpInvStep == SessionAssumption /\ KcpInv /\ [KcpNext]_kcpVars => KcpInv'
<1> SUFFICES ASSUME SessionAssumption, KcpInv, [KcpNext]_kcpVars PROVE KcpInv'
  OBVIOUS
<1>1. ASSUME NEW t \in KcpTask, DriverStep(t) PROVE KcpInv'
  BY <1>1, DriverSteps, ConvGuardKeeps DEF DriverStep
<1>2. ASSUME NEW t \in KcpTask, LegStep(t) PROVE KcpInv'
  BY <1>2, AcceptKeeps, SlotKeeps, RegisterKeeps, LegGuardKeeps DEF LegStep
<1>3. CASE UNCHANGED kcpVars
  <2>1. Active' = Active /\ Legs' = Legs /\ UNCHANGED <<convs, closed, drv, leg, dgrams, attached, unclaimed, live>>
    BY <1>3 DEF kcpVars, Active, Legs
  <2>2. LanesOK'
    BY <2>1, LanesStay DEF KcpInv, LanesOK
  <2>3. TagsOK'
    BY <2>1, TagsStay DEF KcpInv
  <2> QED BY <2>1, <2>2, <2>3 DEF KcpInv, LiveOK
<1> QED BY <1>1, <1>2, <1>3, RouteKeeps, DriverSteps, LegEndsKeeps, CloseKeeps DEF KcpNext, Over

-----------------------------------------------------------------------------
(* The KCP session: the theorem.                                           *)

\* In an open session a running conv is the one its id routes to and a registered leg gets its tag's
\* datagrams, although a ConvGuard erases its key without looking at whose entry it is; the live count
\* that the listener reclaims by is exact, and the drivers never exceed MAX_CONVS_PER_SESSION.
THEOREM LanesAreKept ==
  SessionAssumption /\ KcpSpec
    => [](DriversKeepTheirLane /\ LegsKeepTheirTag /\ LiveIsExact /\ DriversBounded)
<1> SUFFICES ASSUME SessionAssumption
             PROVE  KcpSpec => [](DriversKeepTheirLane /\ LegsKeepTheirTag /\ LiveIsExact /\ DriversBounded)
  OBVIOUS
<1>1. KcpInv => DriversKeepTheirLane
  <2> SUFFICES ASSUME KcpInv, NEW t \in KcpTask, Running(t), ~closed
               PROVE  convs[drv[t].conv] = t
    BY DEF DriversKeepTheirLane
  <2>1. t \in Active /\ drv[t].conv \in Conv
    BY DEF KcpInv, LanesOK, Driver, Active, Running
  <2> QED BY <2>1 DEF KcpInv, LanesOK, ConvsExact
<1>2. KcpInv => LegsKeepTheirTag
  BY DEF KcpInv, TagsOK
<1>3. KcpInv => LiveIsExact
  BY DEF KcpInv, LiveOK, LiveIsExact, Active, Legs
<1>4. KcpInv => DriversBounded
  BY DEF KcpInv, LanesOK, DriversCounted, DriversBounded, Active
<1> QED BY <1>1, <1>2, <1>3, <1>4, KcpInvInit, KcpInvStep, PTL DEF KcpSpec
=============================================================================
