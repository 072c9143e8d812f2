--------------------------- MODULE RegistryProofs ---------------------------
(***************************************************************************)
(* Proofs about the session registry, for every set of clients and         *)
(* sessions. The inductive invariant is RegistryInv: the two invariants    *)
(* that TLC checks are not inductive, because LostSlotIsCancelled speaks   *)
(* of live sessions only and says nothing of which handle a teardown is    *)
(* for. CancelReaches extends it to sessions that are gone, and DoomedLost *)
(* says that a teardown never runs for a handle the registry still names.  *)
(***************************************************************************)
EXTENDS Registry, TLAPS

\* A session that once registered and is not named any more, alive or gone, is
\* cancelled or about to be.
CancelReaches ==
    \A s \in Session : task[s] # "fresh" /\ ~Registered(s) =>
        \/ cancelled[s]
        \/ \E t \in Session : doomed[t] = s /\ task[t] = "cancel"

\* The handle a teardown is for has registered once and lost its place.
DoomedLost ==
    \A s \in Session : doomed[s] # NoSession =>
        task[doomed[s]] # "fresh" /\ ~Registered(doomed[s])

\* A task in its teardown has a handle to tear down.
TeardownHasHandle ==
    \A s \in Session : task[s] \in Teardown => doomed[s] # NoSession

RegistryInv ==
    /\ RegistryTypeOK
    /\ RegistryNamesLiveSessions
    /\ CancelReaches
    /\ DoomedLost
    /\ TeardownHasHandle

\* The registry starts empty, so the inductive invariant holds at first.
LEMMA RegistryInvInit == RegistryInit => RegistryInv
  BY SessionAssumption DEF RegistryInit, RegistryInv, RegistryTypeOK,
     RegistryNamesLiveSessions, CancelReaches, DoomedLost, TeardownHasHandle,
     Registered, Alive, Teardown

\* register_client inserts a fresh session and dooms the one it replaces.
LEMMA HelloInv ==
  ASSUME RegistryInv, NEW s \in Session, Hello(s)
  PROVE  RegistryInv'
<1> USE SessionAssumption DEF RegistryInv, Hello, Registered, Alive, Teardown
<1>1. RegistryTypeOK'
  BY DEF RegistryTypeOK
<1>2. RegistryNamesLiveSessions'
  BY DEF RegistryTypeOK, RegistryNamesLiveSessions
<1>3. CancelReaches'
  <2> SUFFICES ASSUME NEW x \in Session, task'[x] # "fresh", ~Registered(x)',
                      ~cancelled'[x]
               PROVE  \E t \in Session : doomed'[t] = x /\ task'[t] = "cancel"
    BY DEF CancelReaches
  <2>1. x # s
    BY DEF RegistryTypeOK
  <2>2. CASE Registered(x)
    <3>1. x = registry[Owner[s]]
      BY <2>2 DEF RegistryTypeOK
    <3> QED BY <3>1 DEF RegistryTypeOK
  <2>3. CASE ~Registered(x)
    <3>1. PICK t \in Session : doomed[t] = x /\ task[t] = "cancel"
      BY <2>1, <2>3 DEF RegistryTypeOK, CancelReaches
    <3> QED BY <3>1 DEF RegistryTypeOK
  <2> QED BY <2>2, <2>3
<1>4. DoomedLost'
  <2> SUFFICES ASSUME NEW x \in Session, doomed'[x] # NoSession
               PROVE  (task[doomed[x]] # "fresh" /\ ~Registered(doomed[x]))'
    BY DEF DoomedLost
  <2>1. CASE x = s
    <3>1. /\ doomed'[x] = registry[Owner[s]]
          /\ registry[Owner[s]] \in Session
      BY <2>1 DEF RegistryTypeOK
    <3>2. /\ Owner[registry[Owner[s]]] = Owner[s]
          /\ registry[Owner[s]] \in Alive
      BY <3>1 DEF RegistryTypeOK, RegistryNamesLiveSessions
    <3> QED BY <3>1, <3>2 DEF RegistryTypeOK
  <2>2. CASE x # s
    <3>1. doomed'[x] = doomed[x] /\ doomed[x] \in Session
      BY <2>2 DEF RegistryTypeOK
    <3>2. task[doomed[x]] # "fresh" /\ ~Registered(doomed[x])
      BY <3>1 DEF DoomedLost
    <3> QED BY <3>1, <3>2 DEF RegistryTypeOK
  <2> QED BY <2>1, <2>2
<1>5. TeardownHasHandle'
  BY DEF RegistryTypeOK, TeardownHasHandle
<1> QED BY <1>1, <1>2, <1>3, <1>4, <1>5

\* unregister_client removes the entry only if it is this session's.
LEMMA UnregisterInv ==
  ASSUME RegistryInv, NEW s \in Session, Unregister(s)
  PROVE  RegistryInv'
<1> USE SessionAssumption DEF RegistryInv, Unregister, Registered, Alive, Teardown
<1>1. RegistryTypeOK'
  BY DEF RegistryTypeOK
<1>2. RegistryNamesLiveSessions'
  BY DEF RegistryTypeOK, RegistryNamesLiveSessions
<1>3. CancelReaches'
  BY DEF RegistryTypeOK, CancelReaches
<1>4. DoomedLost'
  BY DEF RegistryTypeOK, DoomedLost
<1>5. TeardownHasHandle'
  BY DEF RegistryTypeOK, TeardownHasHandle
<1> QED BY <1>1, <1>2, <1>3, <1>4, <1>5

\* The rest of a teardown, and an admin disconnect, leave the registry alone.
LEMMA TeardownInv ==
  ASSUME RegistryInv, NEW s \in Session,
         Cancel(s) \/ Revoke(s) \/ Invalidate(s) \/ Forget(s)
  PROVE  RegistryInv'
<1> USE SessionAssumption DEF RegistryInv, Registered, Alive, Teardown,
        Cancel, Revoke, Invalidate, Forget
<1>1. RegistryTypeOK'
  BY DEF RegistryTypeOK
<1>2. RegistryNamesLiveSessions'
  BY DEF RegistryTypeOK, RegistryNamesLiveSessions
<1>3. CancelReaches'
  BY DEF RegistryTypeOK, CancelReaches
<1>4. DoomedLost'
  BY DEF RegistryTypeOK, DoomedLost
<1>5. TeardownHasHandle'
  BY DEF RegistryTypeOK, TeardownHasHandle
<1> QED BY <1>1, <1>2, <1>3, <1>4, <1>5

\* An admin disconnect only sets a cancellation.
LEMMA DisconnectInv ==
  ASSUME RegistryInv, NEW c \in Client, Disconnect(c)
  PROVE  RegistryInv'
<1> USE SessionAssumption DEF RegistryInv, Registered, Alive, Teardown, Disconnect
<1>1. RegistryTypeOK'
  BY DEF RegistryTypeOK
<1>2. RegistryNamesLiveSessions'
  BY DEF RegistryTypeOK, RegistryNamesLiveSessions
<1>3. CancelReaches' /\ DoomedLost' /\ TeardownHasHandle'
  BY DEF RegistryTypeOK, CancelReaches, DoomedLost, TeardownHasHandle
<1> QED BY <1>1, <1>2, <1>3

\* A step that leaves the registry's variables alone keeps the invariant.
LEMMA StutterInv ==
  ASSUME RegistryInv, UNCHANGED regvars
  PROVE  RegistryInv'
  BY DEF RegistryInv, RegistryTypeOK, RegistryNamesLiveSessions, CancelReaches,
     DoomedLost, TeardownHasHandle, Registered, Alive, regvars

\* The inductive invariant holds in every reachable state.
THEOREM RegistryInvariance == RegistrySpec => []RegistryInv
<1>1. RegistryInit => RegistryInv
  BY RegistryInvInit
<1>2. RegistryInv /\ [RegistryNext]_regvars => RegistryInv'
  BY HelloInv, UnregisterInv, TeardownInv, DisconnectInv, StutterInv
     DEF RegistryNext
<1> QED BY <1>1, <1>2, PTL DEF RegistrySpec

\* The variables of the registry keep their types.
THEOREM RegistryTypeCorrect == RegistrySpec => []RegistryTypeOK
<1>1. RegistryInv => RegistryTypeOK
  BY DEF RegistryInv
<1> QED BY <1>1, RegistryInvariance, PTL

\* However many sessions of a client race, the registry names only sessions whose
\* reader is still there to unregister them.
THEOREM RegistryLive == RegistrySpec => []RegistryNamesLiveSessions
<1>1. RegistryInv => RegistryNamesLiveSessions
  BY DEF RegistryInv
<1> QED BY <1>1, RegistryInvariance, PTL

\* However supersessions and teardowns interleave, a session that lost its place
\* is cancelled or the task that took the place is about to cancel it.
THEOREM LostSlotCancelled == RegistrySpec => []LostSlotIsCancelled
<1>1. RegistryInv => LostSlotIsCancelled
  BY DEF RegistryInv, CancelReaches, LostSlotIsCancelled, Alive, Teardown
<1> QED BY <1>1, RegistryInvariance, PTL

\* unregister_client's same_channel test: an entry is only ever removed by the
\* reader of the session it names.
THEOREM OwnReaderUnregisters == RegistrySpec => OnlyOwnReaderUnregisters
<1>1. ASSUME RegistryInv, [RegistryNext]_regvars
      PROVE  [\A c \in Client :
                registry[c] # NoSession /\ registry'[c] = NoSession
                  => doomed'[registry[c]] = registry[c]]_regvars
  <2> SUFFICES ASSUME RegistryNext, NEW c \in Client,
                      registry[c] # NoSession, registry'[c] = NoSession
               PROVE  doomed'[registry[c]] = registry[c]
    BY <1>1
  <2>1. PICK s \in Session : Hello(s) \/ Unregister(s)
    BY <1>1 DEF RegistryNext, Cancel, Revoke, Invalidate, Forget, Disconnect
  <2> QED
    BY <1>1, <2>1, SessionAssumption DEF Hello, Unregister, Registered,
       RegistryInv, RegistryTypeOK, RegistryNamesLiveSessions
<1> QED BY <1>1, RegistryInvariance, PTL DEF RegistrySpec, OnlyOwnReaderUnregisters
=============================================================================
