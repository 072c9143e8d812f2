-------------------------- MODULE PeerSlotsProofs ---------------------------
(***************************************************************************)
(* The two ends of a peer pairing inside a client, for every number of     *)
(* pairs, control sessions and queue places: an exit has one holder at     *)
(* most, a running pair task finds its frames routed, and a consumer       *)
(* follows the answer to its own request.                                  *)
(***************************************************************************)
EXTENDS PeerSlots, FiniteSetTheorems, TLAPS

(* Zenon is the prover of this module; a leaf that needs arithmetic, records
   or sequences names SMT. *)
USE Zenon

(***************************************************************************)
(* The provider. A guard of the exclusive flag is in one place at a time:  *)
(* OneGuard lists the places. That a task which hands over has the guard   *)
(* is not in its stage alone: GuardByStage says which stages have it.      *)
(*                                                                         *)
(* Binding a pair goes by its id, and so does dropping it. A task can drop *)
(* the binding of its own pair only, because the ids of probes on the      *)
(* wire, in the slot's queue and of tasks are in one order (PairsInOrder). *)
(* This needs a server that does not restart, as it counts anew then.      *)
(***************************************************************************)
Task == [pair : Nat, gen : Nat, of : Nat, stage : ProviderStages, info : BOOLEAN,
         hold : BOOLEAN, refuse : BOOLEAN]

ProviderTyped ==
    /\ providerGeneration \in Nat /\ providerLive \in BOOLEAN /\ providerNext \in Nat \ {0}
    /\ restarts \in Nat
    /\ wire \in Seq(ProviderFrame) /\ providerQueue \in Seq(ProviderFrame)
    /\ Len(providerQueue) <= SlotQueue
    /\ task \in Seq(Task) /\ (\A i \in Index : task[i].gen <= providerGeneration)
    /\ (~providerLive => providerRoutes = {} /\ wire = <<>>)
    /\ channel \in {<<>>, <<"session">>} /\ adapter \in {"none", "running"} /\ busy \in BOOLEAN
    /\ held \in {"none", "bringup", "precheck"} /\ fit \in BOOLEAN

\* A task between the settling and the verdict has the guard unless it refuses,
\* one that hands over has it, and no other task does.
GuardByStage ==
    \A i \in Index : /\ task[i].stage = "shaking" => task[i].refuse = ~task[i].hold
                     /\ task[i].stage = "handing" => task[i].hold
                     /\ task[i].stage \in {"settling", "lingering", "done"} => ~task[i].hold

NoTaskHolds == \A i \in Index : ~task[i].hold
OneTaskHolds == \E i \in Index : task[i].hold /\ \A j \in Index : task[j].hold => j = i

\* The one guard is in a task, on its way to the slot, or in the adapter.
OneGuard ==
    \/ ~busy /\ NoTaskHolds /\ channel = <<>> /\ adapter = "none"
    \/ busy /\ OneTaskHolds /\ channel = <<>> /\ adapter = "none"
    \/ busy /\ NoTaskHolds /\ channel = <<"session">> /\ adapter = "none"
    \/ busy /\ NoTaskHolds /\ channel = <<>> /\ adapter = "running"

HoldInv == ProviderTyped /\ GuardByStage /\ OneGuard

\* Pairs were numbered in the order their probes come: those of tasks before
\* those of queued probes, and those before the one on the wire.
PairsInOrder ==
    /\ restarts = 0
    /\ \A i \in Index : /\ task[i].pair < providerNext /\ task[i].of <= providerGeneration
                        /\ task[i].pair = 0 => task[i].stage = "done"
                        /\ \A j \in Index : task[i].pair = task[j].pair /\ task[i].pair # 0 => i = j
    /\ \A k \in DOMAIN providerQueue :
          /\ providerQueue[k].of <= providerGeneration /\ providerQueue[k].pair < providerNext
          /\ IsProbe(providerQueue[k]) =>
                /\ providerQueue[k].pair # 0
                /\ \A i \in Index : task[i].pair < providerQueue[k].pair
                /\ \A l \in DOMAIN providerQueue :
                      IsProbe(providerQueue[l]) /\ l < k => providerQueue[l].pair < providerQueue[k].pair
    /\ \A m \in DOMAIN wire :
          /\ wire[m].of = providerGeneration /\ wire[m].pair < providerNext
          /\ IsProbe(wire[m]) =>
                /\ m = 1 /\ wire[m].pair # 0
                /\ \A i \in Index : task[i].pair < wire[m].pair
                /\ \A k \in DOMAIN providerQueue :
                      IsProbe(providerQueue[k]) => providerQueue[k].pair < wire[m].pair

\* The pairs of the live session whose probe is queued or whose task runs are bound.
PairsBound ==
    /\ \A i \in Index : task[i].stage # "done" /\ task[i].of = providerGeneration
                            => task[i].pair \in providerRoutes
    /\ \A k \in DOMAIN providerQueue :
          IsProbe(providerQueue[k]) /\ providerQueue[k].of = providerGeneration
             => providerQueue[k].pair \in providerRoutes

BindingInv == HoldInv /\ PairsInOrder /\ PairsBound

(***************************************************************************)
(* The consumer. One answer at most is under way for the request a cycle   *)
(* sent, and none once the cycle is over: AnswerPending.                   *)
(***************************************************************************)
IsResult(f) == f.kind # "info"
Waiting == consumerStage = "asking" /\ cycle = consumerGeneration

ConsumerTyped ==
    /\ consumerGeneration \in Nat /\ consumerLive \in BOOLEAN
    /\ consumerNext \in Nat \ {0} /\ pair \in Nat /\ pair < consumerNext /\ informed \in BOOLEAN
    /\ up \in Seq(Nat) /\ down \in Seq(ConsumerFrame) /\ consumerQueue \in Seq(ConsumerFrame)
    /\ (~consumerLive => up = <<>> /\ down = <<>> /\ consumerRoutes = {} /\ pair = NoPair)
    /\ me \in Nat /\ consumerStage \in ConsumerStages /\ cycle \in Nat /\ cycle <= consumerGeneration
    /\ asks \in Nat /\ asked \in Nat /\ asked <= asks /\ mine \in Nat /\ mine < consumerNext
    /\ backoff \in 0..Level
    /\ (mine # NoPair <=> consumerStage \in {"settling", "up"})
    /\ \A k \in DOMAIN down : down[k].pair < consumerNext /\ (down[k].kind = "accepted" => down[k].pair # NoPair)
    /\ \A k \in DOMAIN consumerQueue :
          /\ consumerQueue[k].pair < consumerNext
          /\ consumerQueue[k].kind = "accepted" => consumerQueue[k].pair # NoPair

NoResult(q) == \A k \in DOMAIN q : ~IsResult(q[k])

AnswerPending ==
    /\ up # <<>> => /\ Len(up) = 1 /\ up[1] = asks /\ Waiting
                    /\ NoResult(down) /\ NoResult(consumerQueue)
    /\ \A k \in DOMAIN down : IsResult(down[k]) =>
          /\ down[k].ask = asks /\ Waiting /\ NoResult(consumerQueue)
          /\ \A l \in DOMAIN down : IsResult(down[l]) => l = k
    /\ consumerStage = "asking" => \A k \in DOMAIN consumerQueue : IsResult(consumerQueue[k]) =>
          /\ consumerQueue[k].ask = asks
          /\ \A l \in DOMAIN consumerQueue : IsResult(consumerQueue[l]) => l = k

ConsumerInv == ConsumerTyped /\ AnswerPending /\ FollowsOwnAnswer /\ ResultsReachTheSlot

-----------------------------------------------------------------------------
(* Sequences. *)

\* Taking the head moves the others one place down.
LEMMA TailMoves ==
    ASSUME NEW S, NEW q \in Seq(S), q # <<>>
    PROVE  /\ Head(q) = q[1] /\ Head(q) \in S /\ 1 \in DOMAIN q
           /\ Tail(q) \in Seq(S) /\ Len(Tail(q)) < Len(q) /\ Len(q) \in Nat
           /\ \A k \in DOMAIN Tail(q) : k \in Nat /\ k + 1 \in DOMAIN q /\ Tail(q)[k] = q[k + 1]
  BY SMT

\* Appending leaves the others in place.
LEMMA AppendAdds ==
    ASSUME NEW S, NEW q \in Seq(S), NEW x \in S
    PROVE  /\ Append(q, x) \in Seq(S) /\ Len(q) \in Nat
           /\ Len(Append(q, x)) = Len(q) + 1
           /\ DOMAIN Append(q, x) = DOMAIN q \cup {Len(q) + 1}
           /\ \A k \in DOMAIN q : k \in Nat /\ k <= Len(q) /\ Append(q, x)[k] = q[k]
           /\ Append(q, x)[Len(q) + 1] = x
  BY SMT

\* The places of a sequence.
LEMMA SeqPlaces ==
    ASSUME NEW S, NEW q \in Seq(S)
    PROVE  DOMAIN q = 1..Len(q)
  BY SMT

\* Changing one task leaves the others as they are.
LEMMA TaskSet ==
    ASSUME ProviderTyped, NEW i \in Index, NEW n \in Task, task' = [task EXCEPT ![i] = n]
    PROVE  /\ task' \in Seq(Task) /\ Index' = Index /\ task'[i] = n
           /\ \A j \in Index : j # i => task'[j] = task[j]
  BY SMT DEF ProviderTyped, Index

\* What is numbered has numbers.
LEMMA ProviderFields ==
    ASSUME ProviderTyped
    PROVE  /\ Index = DOMAIN task /\ Len(task) \in Nat
           /\ \A i \in Index : /\ i \in Nat /\ task[i] \in Task /\ task[i].pair \in Nat /\ task[i].of \in Nat
                               /\ task[i].gen \in Nat
           /\ \A k \in DOMAIN providerQueue : /\ providerQueue[k] \in ProviderFrame
                                              /\ providerQueue[k].pair \in Nat /\ providerQueue[k].of \in Nat
           /\ \A k \in DOMAIN wire : wire[k] \in ProviderFrame /\ wire[k].pair \in Nat /\ wire[k].of \in Nat
<1>1. \A q \in Seq(ProviderFrame) : \A k \in DOMAIN q : q[k] \in ProviderFrame
  BY SMT
<1>2. Index = DOMAIN task /\ Len(task) \in Nat /\ \A i \in Index : i \in Nat /\ task[i] \in Task
  BY SMT DEF ProviderTyped, Index
<1>3. /\ \A k \in DOMAIN providerQueue : providerQueue[k] \in ProviderFrame
      /\ \A k \in DOMAIN wire : wire[k] \in ProviderFrame
  BY <1>1 DEF ProviderTyped
<1>4. \A f \in ProviderFrame : f.pair \in Nat /\ f.of \in Nat
  BY DEF ProviderFrame
<1>5. \A t \in Task : t.pair \in Nat /\ t.of \in Nat /\ t.gen \in Nat
  BY DEF Task
<1> QED
  BY <1>2, <1>3, <1>4, <1>5

-----------------------------------------------------------------------------
(* The provider's guard. *)

\* Nobody holds the exit at first.
LEMMA HoldStarts == SlotAssumption /\ ProviderInit => HoldInv
<1> SUFFICES ASSUME SlotAssumption, ProviderInit PROVE HoldInv
  OBVIOUS
<1>1. Index = {} /\ task \in Seq(Task)
  BY SMT DEF ProviderInit, Index
<1>2. ProviderTyped
  <2>1. SlotQueue \in Nat
    BY DEF SlotAssumption
  <2>2. /\ <<>> \in Seq(ProviderFrame) /\ Len(providerQueue) = 0 /\ 0 <= SlotQueue
        /\ 0 \in Nat /\ 1 \in Nat \ {0}
    BY SMT, <2>1 DEF ProviderInit
  <2> QED
    BY <1>1, <2>2 DEF ProviderInit, ProviderTyped
<1> QED
  BY <1>1, <1>2 DEF ProviderInit, HoldInv, GuardByStage, OneGuard, NoTaskHolds

\* Sessions of the control connection and frames of pairs leave the guard alone.
LEMMA FramesHold ==
    ASSUME SlotAssumption, HoldInv,
           Install \/ (\E r \in BOOLEAN : ProviderDisconnect(r)) \/ Pairs \/ ProviderRoute \/ Change \/ ProviderIdle
    PROVE  HoldInv'
<1> USE DEF HoldInv
<1>1. UNCHANGED <<task, serving>> /\ Index' = Index
  BY DEF Install, ProviderDisconnect, Pairs, ProviderRoute, Change, ProviderIdle, providerVars, serving, Index
<1>2. GuardByStage' /\ OneGuard'
  BY <1>1 DEF GuardByStage, OneGuard, NoTaskHolds, OneTaskHolds, serving
<1>9. /\ providerGeneration + 1 \in Nat
      /\ \A i \in Index : task[i].gen <= providerGeneration + 1
  BY SMT, ProviderFields DEF ProviderTyped
<1>3. ASSUME Install PROVE ProviderTyped'
  BY <1>1, <1>3, <1>9 DEF Install, ProviderTyped, serving, health
<1>4. ASSUME NEW r \in BOOLEAN, ProviderDisconnect(r) PROVE ProviderTyped'
  <2>1. wire' \in Seq(ProviderFrame) /\ restarts' \in Nat /\ providerNext' \in Nat \ {0}
    BY SMT, <1>4 DEF ProviderDisconnect, ProviderTyped
  <2> QED
    BY <1>1, <1>4, <1>9, <2>1 DEF ProviderDisconnect, ProviderTyped, serving, health
<1>5. ASSUME Pairs PROVE ProviderTyped'
  <2> DEFINE Probed == [kind |-> "probe", pair |-> providerNext, of |-> providerGeneration]
             Informed == [kind |-> "info", pair |-> providerNext, of |-> providerGeneration]
  <2>1. providerNext' \in Nat \ {0}
    BY SMT, <1>5 DEF Pairs, ProviderTyped
  <2>2. Probed \in ProviderFrame /\ Informed \in ProviderFrame
    BY SMT DEF ProviderTyped, ProviderFrame
  <2>3. wire' = <<Probed, Informed>> /\ providerLive' /\ providerLive' = providerLive
    BY <1>5 DEF Pairs
  <2> HIDE DEF Probed, Informed
  <2>4. wire' \in Seq(ProviderFrame)
    BY SMT, <2>2, <2>3
  <2> QED
    BY <1>1, <1>5, <2>1, <2>3, <2>4 DEF Pairs, ProviderTyped, serving, health
<1>6. ASSUME ProviderRoute PROVE ProviderTyped'
  <2>1. wire # <<>> /\ wire \in Seq(ProviderFrame) /\ wire' = Tail(wire)
    BY <1>6 DEF ProviderRoute, ProviderTyped
  <2>2. wire' \in Seq(ProviderFrame) /\ Head(wire) \in ProviderFrame
    BY <2>1, TailMoves
  <2>3. providerQueue' = providerQueue
        \/ (Len(providerQueue) < SlotQueue /\ providerQueue' = Append(providerQueue, Head(wire)))
    BY <1>6 DEF ProviderRoute
  <2>4. providerQueue' \in Seq(ProviderFrame) /\ Len(providerQueue') <= SlotQueue
    <3>1. SlotQueue \in Nat /\ Len(providerQueue) \in Nat /\ providerQueue \in Seq(ProviderFrame)
      BY SMT DEF ProviderTyped, SlotAssumption
    <3>2. CASE providerQueue' = providerQueue
      BY <3>1, <3>2 DEF ProviderTyped
    <3>3. CASE Len(providerQueue) < SlotQueue /\ providerQueue' = Append(providerQueue, Head(wire))
      <4>1. providerQueue' \in Seq(ProviderFrame) /\ Len(providerQueue') = Len(providerQueue) + 1
        BY <2>2, <3>1, <3>3, AppendAdds
      <4> QED
        BY SMT, <3>1, <3>3, <4>1
    <3> QED
      BY <2>3, <3>2, <3>3
  <2>5. providerLive
    BY <2>1 DEF ProviderTyped
  <2> QED
    BY <1>1, <1>6, <2>2, <2>4, <2>5 DEF ProviderRoute, ProviderTyped, control, serving, health, Index
<1>7. ASSUME Change PROVE ProviderTyped'
  BY <1>1, <1>7 DEF Change, ProviderTyped, control, serving, Index
<1>8. ASSUME ProviderIdle PROVE ProviderTyped'
  BY <1>1, <1>8 DEF ProviderIdle, providerVars, ProviderTyped, Index
<1> QED
  BY <1>2, <1>3, <1>4, <1>5, <1>6, <1>7, <1>8

\* What the slot does with a frame it reads: one more task without the guard, or a note that the
\* pair's PeerInfo came.
LEMMA ReadFrameTasks ==
    ASSUME SlotAssumption, HoldInv, ReadFrame
    PROVE  /\ task' \in Seq(Task) /\ Index \subseteq Index'
           /\ \A i \in Index : /\ task'[i].pair = task[i].pair /\ task'[i].of = task[i].of
                               /\ task'[i].gen = task[i].gen /\ task'[i].stage = task[i].stage
                               /\ task'[i].hold = task[i].hold /\ task'[i].refuse = task[i].refuse
           /\ \/ Index' = Index
              \/ /\ IsProbe(providerQueue[1]) /\ Index' = Index \cup {Len(task) + 1}
                 /\ Len(task) + 1 \notin Index
                 /\ task'[Len(task) + 1] = [pair |-> providerQueue[1].pair, gen |-> providerGeneration,
                                            of |-> providerQueue[1].of, stage |-> "settling", info |-> FALSE,
                                            hold |-> FALSE, refuse |-> FALSE]
<1> USE DEF HoldInv
<1> DEFINE f == Head(providerQueue)
           n == [pair |-> f.pair, gen |-> providerGeneration, of |-> f.of, stage |-> "settling",
                 info |-> FALSE, hold |-> FALSE, refuse |-> FALSE]
<1>1. f = providerQueue[1] /\ f \in ProviderFrame /\ n \in Task /\ Index = DOMAIN task
  <2>1. providerQueue # <<>> /\ providerQueue \in Seq(ProviderFrame)
    BY DEF ReadFrame, ProviderTyped
  <2>2. f = providerQueue[1] /\ f \in ProviderFrame
    BY <2>1, TailMoves
  <2> QED
    BY SMT, <2>2 DEF ProviderTyped, Task, ProviderFrame, ProviderStages, Index
<1>2. CASE task' = task
  BY <1>2 DEF ProviderTyped, Index
<1>3. CASE IsProbe(f) /\ task' = Append(task, n)
  <2> HIDE DEF n
  <2>1. /\ task' \in Seq(Task) /\ DOMAIN task' = DOMAIN task \cup {Len(task) + 1}
        /\ (\A k \in DOMAIN task : k <= Len(task) /\ task'[k] = task[k]) /\ task'[Len(task) + 1] = n
        /\ Len(task) \in Nat
    BY SMT, <1>1, <1>3, AppendAdds DEF ProviderTyped
  <2>2. Index' = DOMAIN task'
    BY <2>1, SeqPlaces DEF Index
  <2>3. Len(task) + 1 \notin Index
    BY SMT, <2>1, <1>1
  <2> QED
    BY <1>1, <1>3, <2>1, <2>2, <2>3 DEF n
<1>4. CASE task' = [i \in Index |-> IF i \in Newest(f.pair) THEN [task[i] EXCEPT !.info = TRUE] ELSE task[i]]
  <2>1. \A i \in Index : task[i] \in Task
    BY SMT, <1>1 DEF ProviderTyped
  <2>2. \A i \in Index :
          /\ task'[i] \in Task
          /\ task'[i].pair = task[i].pair /\ task'[i].of = task[i].of
          /\ task'[i].gen = task[i].gen /\ task'[i].stage = task[i].stage
          /\ task'[i].hold = task[i].hold /\ task'[i].refuse = task[i].refuse
    <3> TAKE i \in Index
    <3>1. task'[i] = [task[i] EXCEPT !.info = TRUE] \/ task'[i] = task[i]
      BY SMT, <1>4
    <3> QED
      BY <3>1, <2>1 DEF Task
  <2>3. task' \in [1..Len(task) -> Task] /\ Len(task) \in Nat
    BY SMT, <1>4, <2>2 DEF Index, ProviderTyped
  <2>4. task' \in Seq(Task) /\ Len(task') = Len(task)
    BY SMT, <2>3
  <2> QED
    BY <2>2, <2>4 DEF Index
<1> QED
  BY <1>2, <1>3, <1>4 DEF ReadFrame

\* Reading a frame gives nobody the guard.
LEMMA ReadFrameHolds ==
    ASSUME SlotAssumption, HoldInv, ReadFrame
    PROVE  HoldInv'
<1> USE DEF HoldInv
<1>1. ProviderTyped'
  <2>1. providerQueue # <<>> /\ providerQueue \in Seq(ProviderFrame) /\ providerQueue' = Tail(providerQueue)
    BY DEF ReadFrame, ProviderTyped
  <2>2. providerQueue' \in Seq(ProviderFrame) /\ Len(providerQueue') < Len(providerQueue)
        /\ Len(providerQueue) \in Nat /\ Len(providerQueue') \in Nat
    BY SMT, <2>1, TailMoves
  <2>3. Len(providerQueue') <= SlotQueue
    BY SMT, <2>2 DEF ProviderTyped, SlotAssumption
  <2>4. task' \in Seq(Task) /\ \A i \in Index' : task'[i].gen <= providerGeneration
    <3>1. providerGeneration <= providerGeneration
      BY SMT DEF ProviderTyped
    <3>2. task' \in Seq(Task) /\ \A i \in Index : task'[i].gen = task[i].gen /\ task[i].gen <= providerGeneration
      BY ReadFrameTasks DEF ProviderTyped
    <3>3. \/ Index' = Index
          \/ Index' = Index \cup {Len(task) + 1} /\ task'[Len(task) + 1].gen = providerGeneration
      <4> DEFINE q == providerQueue[1]
                 t == [pair |-> q.pair, gen |-> providerGeneration, of |-> q.of, stage |-> "settling",
                       info |-> FALSE, hold |-> FALSE, refuse |-> FALSE]
      <4>1. t.gen = providerGeneration
        OBVIOUS
      <4>2. \/ Index' = Index
            \/ Index' = Index \cup {Len(task) + 1} /\ task'[Len(task) + 1] = t
        BY ReadFrameTasks
      <4> QED
        BY <4>1, <4>2
    <3> QED
      BY <3>1, <3>2, <3>3
  <2> QED
    BY <2>2, <2>3, <2>4 DEF ReadFrame, ProviderTyped, control, serving, health
<1>2. GuardByStage'
  BY SMT, ReadFrameTasks DEF GuardByStage
<1>3. NoTaskHolds => NoTaskHolds'
  BY SMT, ReadFrameTasks DEF NoTaskHolds
<1>4. OneTaskHolds => OneTaskHolds'
  BY SMT, ReadFrameTasks DEF OneTaskHolds
<1>5. OneGuard'
  BY <1>3, <1>4 DEF OneGuard, ReadFrame, serving
<1> QED
  BY <1>1, <1>2, <1>5

\* A step of a pair task changes that task alone: it moves on under its pair, or it ends and drops
\* the pair's binding.
LEMMA StepTask ==
    ASSUME ProviderTyped, NEW i, Step(i)
    PROVE  /\ i \in Index /\ task[i] \in Task /\ task[i].stage # "done"
           /\ UNCHANGED <<control, wire, providerQueue>>
           /\ \E n \in Task :
                /\ task' = [task EXCEPT ![i] = n]
                /\ \/ /\ n.pair = task[i].pair /\ n.gen = task[i].gen /\ n.of = task[i].of
                      /\ n.stage # "done" /\ UNCHANGED providerRoutes
                   \/ n = ProviderGone /\ providerRoutes' = providerRoutes \ {task[i].pair}
<1>1. i \in Index /\ task[i] \in Task /\ task[i].stage # "done" /\ UNCHANGED <<control, wire, providerQueue>>
  <2>1. i \in Index /\ task[i].stage # "done"
    BY DEF Step, At, SettlePair, Refuse, Admit, Abandon, LingerEnds, HandOver
  <2>2. UNCHANGED <<control, wire, providerQueue>>
    BY DEF Step, SettlePair, Refuse, Admit, Abandon, LingerEnds, HandOver
  <2> QED
    BY SMT, <2>1, <2>2 DEF ProviderTyped, Index
<1>2. ProviderGone \in Task
  BY DEF ProviderGone, Task, ProviderStages
<1>3. CASE SettlePair(i)
  <2>1. PICK h \in BOOLEAN : task' = [task EXCEPT ![i].stage = "shaking", ![i].hold = h, ![i].refuse = ~h]
    BY <1>3 DEF SettlePair, Refuses, TakeSlot
  <2> DEFINE n == [task[i] EXCEPT !.stage = "shaking", !.hold = h, !.refuse = ~h]
  <2>2. n \in Task /\ n.pair = task[i].pair /\ n.gen = task[i].gen /\ n.of = task[i].of /\ n.stage # "done"
    BY <1>1 DEF Task, ProviderStages
  <2>3. task' = [task EXCEPT ![i] = n]
    BY <1>1, <2>1 DEF Index, ProviderTyped
  <2> QED
    BY <1>1, <1>3, <2>2, <2>3 DEF SettlePair
<1>4. CASE Refuse(i)
  <2> DEFINE n == [task[i] EXCEPT !.stage = "lingering", !.hold = FALSE]
  <2>1. n \in Task /\ n.pair = task[i].pair /\ n.gen = task[i].gen /\ n.of = task[i].of /\ n.stage # "done"
    BY <1>1 DEF Task, ProviderStages
  <2>2. task' = [task EXCEPT ![i] = n] /\ UNCHANGED providerRoutes
    BY <1>1, <1>4 DEF Refuse, Drop
  <2> QED
    BY <1>1, <2>1, <2>2
<1>5. CASE Admit(i)
  <2> DEFINE n == [task[i] EXCEPT !.stage = "handing"]
  <2>1. n \in Task /\ n.pair = task[i].pair /\ n.gen = task[i].gen /\ n.of = task[i].of /\ n.stage # "done"
    BY <1>1 DEF Task, ProviderStages
  <2>2. task' = [task EXCEPT ![i] = n] /\ UNCHANGED providerRoutes
    BY <1>1, <1>5 DEF Admit
  <2> QED
    BY <1>1, <2>1, <2>2
<1>6. CASE Abandon(i) \/ LingerEnds(i) \/ HandOver(i)
  <2>1. task' = [task EXCEPT ![i] = ProviderGone] /\ providerRoutes' = providerRoutes \ {task[i].pair}
    BY <1>6 DEF Abandon, LingerEnds, HandOver, Drop
  <2> QED
    BY <1>1, <1>2, <2>1
<1> QED
  BY <1>3, <1>4, <1>5, <1>6 DEF Step

\* The types of what a pair task touches.
LEMMA StepTyped ==
    ASSUME SlotAssumption, ProviderTyped, NEW i, Step(i)
    PROVE  ProviderTyped'
<1>1. PICK n \in Task :
        /\ task' = [task EXCEPT ![i] = n]
        /\ \/ /\ n.pair = task[i].pair /\ n.gen = task[i].gen /\ n.of = task[i].of
              /\ n.stage # "done" /\ UNCHANGED providerRoutes
           \/ n = ProviderGone /\ providerRoutes' = providerRoutes \ {task[i].pair}
  BY StepTask
<1>2. i \in Index /\ UNCHANGED <<control, wire, providerQueue>>
  BY StepTask
<1>3. task' \in Seq(Task) /\ Index' = Index /\ task'[i] = n /\ \A j \in Index : j # i => task'[j] = task[j]
  BY <1>1, <1>2, TaskSet
<1>4. n.gen <= providerGeneration
  BY SMT, <1>1, <1>2 DEF ProviderGone, ProviderTyped
<1>5. /\ channel' \in {<<>>, <<"session">>} /\ adapter' \in {"none", "running"} /\ busy' \in BOOLEAN
      /\ held' \in {"none", "bringup", "precheck"} /\ fit' \in BOOLEAN
  <2>1. CASE SettlePair(i)
    BY <2>1 DEF SettlePair, Refusal, ProviderTyped
  <2>2. CASE Refuse(i) \/ Abandon(i) \/ LingerEnds(i)
    BY <2>2 DEF Refuse, Abandon, LingerEnds, Drop, health, ProviderTyped
  <2>3. CASE Admit(i) \/ HandOver(i)
    BY <2>3 DEF Admit, HandOver, serving, health, ProviderTyped
  <2> QED
    BY <2>1, <2>2, <2>3 DEF Step
<1> QED
  BY <1>1, <1>2, <1>3, <1>4, <1>5 DEF ProviderTyped, control

\* The guard is taken where the flag is set, and goes where the flag is cleared or with the session.
LEMMA StepHolds ==
    ASSUME SlotAssumption, HoldInv, NEW i, Step(i)
    PROVE  HoldInv'
<1> USE DEF HoldInv
<1>1. i \in Index /\ task[i] \in Task
  BY StepTask
<1>2. \A n \in Task : task' = [task EXCEPT ![i] = n] =>
         /\ Index' = Index /\ task'[i] = n /\ \A j \in Index : j # i => task'[j] = task[j]
  BY <1>1, TaskSet
<1>3. ProviderTyped'
  BY StepTyped
<1>4. CASE SettlePair(i)
  <2> DEFINE h == ~Refuses /\ ~busy
             n == [task[i] EXCEPT !.stage = "shaking", !.hold = h, !.refuse = ~h]
  <2>1. n \in Task /\ n.stage = "shaking" /\ n.hold = h /\ n.refuse = ~h
    BY <1>1 DEF Task, ProviderStages
  <2>2. task' = [task EXCEPT ![i] = n] /\ UNCHANGED <<channel, adapter>> /\ busy' = (busy \/ ~Refuses)
    BY <1>1, <1>4 DEF SettlePair, TakeSlot, Index, ProviderTyped
  <2> HIDE DEF n
  <2>3. Index' = Index /\ task'[i] = n /\ \A j \in Index : j # i => task'[j] = task[j]
    BY <1>2, <2>1, <2>2
  <2>4. ~task[i].hold
    BY <1>1, <1>4 DEF SettlePair, At, GuardByStage
  <2>5. GuardByStage'
    BY <2>1, <2>3 DEF GuardByStage
  <2>6. OneGuard'
    <3>1. CASE h
      <4>1. ~busy /\ NoTaskHolds /\ channel = <<>> /\ adapter = "none" /\ busy'
        BY <2>2, <3>1 DEF OneGuard
      <4>2. OneTaskHolds'
        BY <1>1, <2>1, <2>3, <3>1, <4>1 DEF NoTaskHolds, OneTaskHolds
      <4> QED
        BY <2>2, <4>1, <4>2 DEF OneGuard
    <3>2. CASE ~h
      <4>1. busy' = busy
        BY <2>2, <3>2 DEF ProviderTyped
      <4>2. /\ NoTaskHolds => NoTaskHolds'
            /\ OneTaskHolds => OneTaskHolds'
        BY <1>1, <2>1, <2>3, <2>4, <3>2 DEF NoTaskHolds, OneTaskHolds
      <4> QED
        BY SMT, <2>2, <4>1, <4>2 DEF OneGuard
    <3> QED
      BY <3>1, <3>2
  <2> QED
    BY <1>3, <2>5, <2>6
<1>5. CASE Refuse(i) \/ Abandon(i) \/ LingerEnds(i)
  <2>1. PICK n \in Task : task' = [task EXCEPT ![i] = n] /\ ~n.hold /\ n.stage \in {"lingering", "done"}
    <3> DEFINE m == [task[i] EXCEPT !.stage = "lingering", !.hold = FALSE]
    <3>1. m \in Task /\ ~m.hold /\ m.stage = "lingering"
      BY <1>1 DEF Task, ProviderStages
    <3>2. ProviderGone \in Task /\ ~ProviderGone.hold /\ ProviderGone.stage = "done"
      BY DEF ProviderGone, Task, ProviderStages
    <3>3. task' = [task EXCEPT ![i] = m] \/ task' = [task EXCEPT ![i] = ProviderGone]
      BY <1>1, <1>5 DEF Refuse, Abandon, LingerEnds, Drop
    <3> QED
      BY <3>1, <3>2, <3>3
  <2>2. UNCHANGED <<channel, adapter>> /\ busy' = (busy /\ ~task[i].hold)
    BY <1>5 DEF Refuse, Abandon, LingerEnds, Drop
  <2>3. Index' = Index /\ task'[i] = n /\ \A j \in Index : j # i => task'[j] = task[j]
    BY <1>2, <2>1
  <2>4. GuardByStage'
    BY SMT, <2>1, <2>3 DEF GuardByStage
  <2>5. OneGuard'
    <3>1. CASE task[i].hold
      <4>1. OneTaskHolds /\ channel = <<>> /\ adapter = "none" /\ ~busy'
        BY <1>1, <2>2, <3>1 DEF OneGuard, NoTaskHolds
      <4>2. NoTaskHolds'
        BY SMT, <1>1, <2>1, <2>3, <3>1, <4>1 DEF NoTaskHolds, OneTaskHolds
      <4> QED
        BY <2>2, <4>1, <4>2 DEF OneGuard
    <3>2. CASE ~task[i].hold
      BY SMT, <1>1, <2>1, <2>2, <2>3, <3>2 DEF OneGuard, NoTaskHolds, OneTaskHolds, ProviderTyped
    <3> QED
      BY <3>1, <3>2
  <2> QED
    BY <1>3, <2>4, <2>5
<1>6. CASE Admit(i)
  <2> DEFINE n == [task[i] EXCEPT !.stage = "handing"]
  <2>1. n \in Task /\ n.stage = "handing" /\ n.hold = task[i].hold
    BY <1>1 DEF Task, ProviderStages
  <2>2. task' = [task EXCEPT ![i] = n] /\ UNCHANGED <<channel, adapter, busy>>
    BY <1>1, <1>6 DEF Admit, serving
  <2> HIDE DEF n
  <2>3. Index' = Index /\ task'[i] = n /\ \A j \in Index : j # i => task'[j] = task[j]
    BY <1>2, <2>1, <2>2
  <2>4. task[i].hold
    BY <1>1, <1>6 DEF Admit, At, GuardByStage, Task
  <2>5. GuardByStage'
    BY <2>1, <2>3, <2>4 DEF GuardByStage
  <2>6. OneGuard'
    BY SMT, <1>1, <2>1, <2>2, <2>3 DEF OneGuard, NoTaskHolds, OneTaskHolds
  <2> QED
    BY <1>3, <2>5, <2>6
<1>7. CASE HandOver(i)
  <2>1. ProviderGone \in Task /\ ~ProviderGone.hold /\ ProviderGone.stage = "done"
    BY DEF ProviderGone, Task, ProviderStages
  <2>2. task' = [task EXCEPT ![i] = ProviderGone] /\ channel' = <<"session">> /\ UNCHANGED <<adapter, busy>>
    BY <1>7 DEF HandOver
  <2>3. Index' = Index /\ task'[i] = ProviderGone /\ \A j \in Index : j # i => task'[j] = task[j]
    BY <1>2, <2>1, <2>2
  <2>4. task[i].hold
    BY <1>1, <1>7 DEF HandOver, At, GuardByStage
  <2>5. GuardByStage'
    BY <2>1, <2>3 DEF GuardByStage
  <2>6. OneGuard'
    BY SMT, <1>1, <2>1, <2>2, <2>3, <2>4 DEF OneGuard, NoTaskHolds, OneTaskHolds
  <2> QED
    BY <1>3, <2>5, <2>6
<1> QED
  BY <1>4, <1>5, <1>6, <1>7 DEF Step

\* The slot takes the session with its guard, and drops the guard with the adapter.
LEMMA ServingHolds ==
    ASSUME SlotAssumption, HoldInv, Serve \/ \E b \in BOOLEAN : AdapterEnds(b)
    PROVE  HoldInv'
<1> USE DEF HoldInv
<1>1. UNCHANGED task /\ Index' = Index
  BY DEF Serve, AdapterEnds, Index
<1>2. GuardByStage' /\ (NoTaskHolds => NoTaskHolds')
  BY <1>1 DEF GuardByStage, NoTaskHolds
<1>3. ASSUME Serve PROVE ProviderTyped' /\ OneGuard'
  <2>1. ProviderTyped'
    BY <1>1, <1>3 DEF Serve, ProviderTyped, control, health, Index
  <2> QED
    BY <1>2, <1>3, <2>1 DEF Serve, OneGuard
<1>4. ASSUME NEW b \in BOOLEAN, AdapterEnds(b) PROVE ProviderTyped' /\ OneGuard'
  <2>1. ProviderTyped'
    BY <1>1, <1>4 DEF AdapterEnds, ProviderTyped, control, Index
  <2> QED
    BY <1>2, <1>4, <2>1 DEF AdapterEnds, OneGuard
<1> QED
  BY <1>2, <1>3, <1>4

\* Every step keeps the guard in one place.
LEMMA ProviderStepHolds ==
    ASSUME SlotAssumption, HoldInv, [ProviderNext]_providerVars
    PROVE  HoldInv'
<1>1. CASE UNCHANGED providerVars
  BY <1>1, FramesHold DEF ProviderIdle
<1>2. CASE ProviderNext
  BY <1>2, FramesHold, ReadFrameHolds, ServingHolds, StepHolds DEF ProviderNext
<1> QED
  BY <1>1, <1>2

\* A guard in one place is one guard.
LEMMA OneGuardIsExclusive ==
    ASSUME HoldInv
    PROVE  Exclusive
<1> DEFINE H == {i \in Index : task[i].hold}
<1>1. NoTaskHolds => H = {}
  BY DEF NoTaskHolds
<1>2. OneTaskHolds => \E i \in Index : H = {i}
  BY DEF OneTaskHolds
<1>3. NoTaskHolds => Cardinality(H) = 0
  BY <1>1, FS_EmptySet
<1>4. OneTaskHolds => Cardinality(H) = 1
  BY <1>2, FS_Singleton
<1>5. Holders = Cardinality(H) + Len(channel) + (IF adapter = "none" THEN 0 ELSE 1)
  BY DEF Holders
<1> HIDE DEF H
<1>6. Len(<<>>) = 0 /\ Len(<<"session">>) = 1
  OBVIOUS
<1>7. CASE ~busy /\ NoTaskHolds /\ channel = <<>> /\ adapter = "none"
  <2>1. Holders = 0 /\ Holders <= 1 /\ (Holders = 1) = FALSE
    BY SMT, <1>3, <1>5, <1>6, <1>7
  <2>2. busy = FALSE
    BY <1>7 DEF HoldInv, ProviderTyped
  <2> QED
    BY <2>1, <2>2, Zenon DEF Exclusive
<1>8. CASE busy /\ OneTaskHolds /\ channel = <<>> /\ adapter = "none"
  <2>1. Holders = 1
    BY SMT, <1>4, <1>5, <1>6, <1>8
  <2>2. busy = TRUE /\ (Holders = 1) = TRUE /\ Holders <= 1
    BY SMT, <1>8, <2>1 DEF HoldInv, ProviderTyped
  <2> QED
    BY <2>2, Zenon DEF Exclusive
<1>9. CASE busy /\ NoTaskHolds /\ channel = <<"session">> /\ adapter = "none"
  <2>1. Holders = 1
    BY SMT, <1>3, <1>5, <1>6, <1>9
  <2>2. busy = TRUE /\ (Holders = 1) = TRUE /\ Holders <= 1
    BY SMT, <1>9, <2>1 DEF HoldInv, ProviderTyped
  <2> QED
    BY <2>2, Zenon DEF Exclusive
<1>10. CASE busy /\ NoTaskHolds /\ channel = <<>> /\ adapter = "running"
  <2>1. Holders = 1
    BY SMT, <1>3, <1>5, <1>6, <1>10
  <2>2. busy = TRUE /\ (Holders = 1) = TRUE /\ Holders <= 1
    BY SMT, <1>10, <2>1 DEF HoldInv, ProviderTyped
  <2> QED
    BY <2>2, Zenon DEF Exclusive
<1> QED
  BY <1>7, <1>8, <1>9, <1>10 DEF HoldInv, OneGuard

\* An exit provider's slot is held by one pair at most, from the check just before the handshake
\* until its adapter ends, across control sessions, and the busy flag of BusyGuard says so.
THEOREM ExitHasOneHolder == SlotAssumption /\ ProviderSpec => []Exclusive
<1> SUFFICES ASSUME SlotAssumption PROVE ProviderSpec => []Exclusive
  OBVIOUS
<1>1. ProviderInit => HoldInv
  BY HoldStarts
<1>2. HoldInv /\ [ProviderNext]_providerVars => HoldInv'
  BY ProviderStepHolds
<1>3. HoldInv => Exclusive
  BY OneGuardIsExclusive
<1> QED
  BY <1>1, <1>2, <1>3, PTL DEF ProviderSpec

-----------------------------------------------------------------------------
(* The provider's bindings. *)

\* There are no pairs at first.
LEMMA BindingStarts == SlotAssumption /\ ProviderInit => BindingInv
<1> SUFFICES ASSUME SlotAssumption, ProviderInit PROVE BindingInv
  OBVIOUS
<1>1. HoldInv
  BY HoldStarts
<1>2. Index = {} /\ DOMAIN wire = {} /\ DOMAIN providerQueue = {} /\ restarts = 0
  BY SMT DEF ProviderInit, Index
<1> QED
  BY <1>1, <1>2 DEF BindingInv, PairsInOrder, PairsBound

\* A session that begins or ends makes every earlier pair one of another session.
LEMMA SessionsBind ==
    ASSUME SlotAssumption, Restarts = 0, BindingInv, Install \/ \E r \in BOOLEAN : ProviderDisconnect(r)
    PROVE  PairsInOrder' /\ PairsBound'
<1> USE DEF BindingInv, HoldInv
<1>1. /\ UNCHANGED <<task, providerQueue, providerNext, restarts>> /\ Index' = Index
      /\ providerGeneration' = providerGeneration + 1 /\ providerGeneration \in Nat
      /\ wire' = <<>> /\ DOMAIN wire' = {}
  <2>1. CASE Install
    BY SMT, <2>1 DEF Install, ProviderTyped, Index
  <2>2. CASE \E r \in BOOLEAN : ProviderDisconnect(r)
    BY SMT, <2>2 DEF ProviderDisconnect, ProviderTyped, Index, PairsInOrder
  <2> QED
    BY <2>1, <2>2
<1>2. /\ \A i \in Index : task[i].of \in Nat /\ task[i].of <= providerGeneration
      /\ \A k \in DOMAIN providerQueue : providerQueue[k].of \in Nat /\ providerQueue[k].of <= providerGeneration
  BY ProviderFields DEF PairsInOrder
<1>3. /\ \A i \in Index : task[i].of <= providerGeneration' /\ task[i].of # providerGeneration'
      /\ \A k \in DOMAIN providerQueue : /\ providerQueue[k].of <= providerGeneration'
                                         /\ providerQueue[k].of # providerGeneration'
  BY SMT, <1>1, <1>2
<1>4. PairsInOrder'
  BY <1>1, <1>3 DEF PairsInOrder
<1>5. PairsBound'
  BY <1>1, <1>3 DEF PairsBound
<1> QED
  BY <1>4, <1>5

\* A new pair comes after all others.
LEMMA PairsBind ==
    ASSUME SlotAssumption, Restarts = 0, BindingInv, Pairs
    PROVE  PairsInOrder' /\ PairsBound'
<1> USE DEF BindingInv, HoldInv
<1> DEFINE a == [kind |-> "probe", pair |-> providerNext, of |-> providerGeneration]
           b == [kind |-> "info", pair |-> providerNext, of |-> providerGeneration]
<1>1. /\ UNCHANGED <<task, providerQueue, providerRoutes, providerGeneration, restarts>> /\ Index' = Index
      /\ providerNext' = providerNext + 1 /\ providerNext \in Nat \ {0} /\ wire' = <<a, b>>
  BY DEF Pairs, ProviderTyped, Index
<1>2. DOMAIN wire' = {1, 2} /\ wire'[1] = a /\ wire'[2] = b
  BY SMT, <1>1
<1>3. ~IsProbe(b)
  BY DEF IsProbe
<1>4. /\ a.pair = providerNext /\ a.of = providerGeneration
      /\ b.pair = providerNext /\ b.of = providerGeneration
  OBVIOUS
<1> HIDE DEF a, b
<1>5. /\ \A i \in Index : task[i].pair \in Nat /\ task[i].pair < providerNext
      /\ \A k \in DOMAIN providerQueue : providerQueue[k].pair \in Nat /\ providerQueue[k].pair < providerNext
  BY ProviderFields DEF PairsInOrder
<1>6. /\ \A i \in Index : task[i].pair < providerNext'
      /\ \A k \in DOMAIN providerQueue : providerQueue[k].pair < providerNext'
      /\ providerNext < providerNext' /\ providerNext # 0
  BY SMT, <1>1, <1>5
<1>7. \A m \in DOMAIN wire' :
          /\ wire'[m].of = providerGeneration /\ wire'[m].pair < providerNext'
          /\ IsProbe(wire'[m]) => m = 1 /\ wire'[m].pair = providerNext
  BY <1>2, <1>3, <1>4, <1>6
<1>8. PairsInOrder'
  BY SMT, <1>1, <1>5, <1>6, <1>7 DEF PairsInOrder
<1>9. PairsBound'
  BY <1>1 DEF PairsBound
<1> QED
  BY <1>8, <1>9

\* A probe is bound before it is queued, after all probes queued before it.
LEMMA RouteBinds ==
    ASSUME SlotAssumption, Restarts = 0, BindingInv, ProviderRoute
    PROVE  PairsInOrder' /\ PairsBound'
<1> USE DEF BindingInv, HoldInv
<1> DEFINE f == Head(wire)
<1>1. wire # <<>> /\ wire \in Seq(ProviderFrame) /\ wire' = Tail(wire)
  BY DEF ProviderRoute, ProviderTyped
<1>2. /\ f = wire[1] /\ f \in ProviderFrame /\ 1 \in DOMAIN wire
      /\ \A k \in DOMAIN wire' : k \in Nat /\ k + 1 \in DOMAIN wire /\ wire'[k] = wire[k + 1]
  BY <1>1, TailMoves
<1>3. /\ UNCHANGED <<task, providerNext, providerGeneration, restarts>> /\ Index' = Index
      /\ providerRoutes \subseteq providerRoutes' /\ (IsProbe(f) => f.pair \in providerRoutes')
      /\ (providerQueue' = providerQueue \/ providerQueue' = Append(providerQueue, f))
  BY DEF ProviderRoute, control, Index
<1>4. f.of = providerGeneration /\ f.pair < providerNext /\ f.pair \in Nat
  BY <1>2 DEF PairsInOrder, ProviderFrame
<1>5. IsProbe(f) => /\ f.pair # 0
                    /\ \A i \in Index : task[i].pair < f.pair
                    /\ \A k \in DOMAIN providerQueue : IsProbe(providerQueue[k]) => providerQueue[k].pair < f.pair
  BY <1>2 DEF PairsInOrder
<1> HIDE DEF f
<1>6. \A m \in DOMAIN wire' : /\ wire'[m].of = providerGeneration /\ wire'[m].pair < providerNext
                              /\ ~IsProbe(wire'[m])
  <2> TAKE m \in DOMAIN wire'
  <2>1. m \in Nat /\ m >= 1 /\ m + 1 \in DOMAIN wire /\ wire'[m] = wire[m + 1]
    BY SMT, <1>1, <1>2
  <2>2. m + 1 # 1
    BY SMT, <2>1
  <2> QED
    BY <2>1, <2>2 DEF PairsInOrder
<1>7. CASE providerQueue' = providerQueue
  BY <1>3, <1>6, <1>7 DEF PairsInOrder, PairsBound
<1>8. CASE providerQueue' = Append(providerQueue, f)
  <2>1. /\ DOMAIN providerQueue' = DOMAIN providerQueue \cup {Len(providerQueue) + 1}
        /\ \A k \in DOMAIN providerQueue : k \in Nat /\ k <= Len(providerQueue) /\ providerQueue'[k] = providerQueue[k]
        /\ providerQueue'[Len(providerQueue) + 1] = f /\ Len(providerQueue) \in Nat
    BY SMT, <1>2, <1>8, AppendAdds DEF ProviderTyped
  <2>2. \A k \in DOMAIN providerQueue : ~(Len(providerQueue) + 1 < k)
    BY SMT, <2>1
  <2>3. ~(Len(providerQueue) + 1 < Len(providerQueue) + 1)
    BY SMT, <2>1
  <2>4. f.of <= providerGeneration
    BY SMT, <1>4 DEF ProviderTyped
  <2>5. PairsInOrder'
    <3> SUFFICES ASSUME NEW k \in DOMAIN providerQueue'
                 PROVE  /\ providerQueue'[k].of <= providerGeneration /\ providerQueue'[k].pair < providerNext
                        /\ IsProbe(providerQueue'[k]) =>
                              /\ providerQueue'[k].pair # 0
                              /\ \A i \in Index : task[i].pair < providerQueue'[k].pair
                              /\ \A l \in DOMAIN providerQueue' :
                                    IsProbe(providerQueue'[l]) /\ l < k
                                       => providerQueue'[l].pair < providerQueue'[k].pair
      BY <1>3, <1>6, Zenon DEF PairsInOrder
    <3>1. CASE k \in DOMAIN providerQueue
      BY <3>1, <2>1, <2>2 DEF PairsInOrder
    <3>2. CASE k = Len(providerQueue) + 1
      BY <3>2, <1>4, <1>5, <2>1, <2>3, <2>4
    <3> QED
      BY <3>1, <3>2, <2>1
  <2>6. PairsBound'
    BY <1>3, <2>1 DEF PairsBound
  <2> QED
    BY <2>5, <2>6
<1> QED
  BY <1>3, <1>7, <1>8

\* A task starts under the pair of the first queued probe, which no other task has.
LEMMA ReadFrameBinds ==
    ASSUME SlotAssumption, Restarts = 0, BindingInv, ReadFrame
    PROVE  PairsInOrder' /\ PairsBound'
<1> USE DEF BindingInv, HoldInv
<1> DEFINE q == providerQueue
           t == Len(task) + 1
<1>1. q # <<>> /\ q \in Seq(ProviderFrame) /\ q' = Tail(q)
  BY DEF ReadFrame, ProviderTyped
<1>2. /\ 1 \in DOMAIN q /\ \A k \in DOMAIN q' : k \in Nat /\ k + 1 \in DOMAIN q /\ q'[k] = q[k + 1]
  BY <1>1, TailMoves
<1>3. UNCHANGED <<wire, providerNext, providerGeneration, restarts, providerRoutes>>
  BY DEF ReadFrame, control
<1>4. /\ Index \subseteq Index'
      /\ \A i \in Index : /\ task'[i].pair = task[i].pair /\ task'[i].of = task[i].of
                          /\ task'[i].stage = task[i].stage
      /\ \/ Index' = Index
         \/ /\ IsProbe(q[1]) /\ Index' = Index \cup {t} /\ t \notin Index
            /\ task'[t].pair = q[1].pair /\ task'[t].of = q[1].of /\ task'[t].stage = "settling"
  BY SMT, ReadFrameTasks
<1>5. \A k \in DOMAIN q' :
        /\ q'[k].of <= providerGeneration /\ q'[k].pair < providerNext
        /\ IsProbe(q'[k]) =>
              /\ q'[k].pair # 0
              /\ IsProbe(q[1]) => q[1].pair < q'[k].pair
              /\ \A i \in Index : task[i].pair < q'[k].pair
              /\ q'[k].of = providerGeneration => q'[k].pair \in providerRoutes
              /\ \A l \in DOMAIN q' : IsProbe(q'[l]) /\ l < k => q'[l].pair < q'[k].pair
  <2> TAKE k \in DOMAIN q'
  <2>1. k \in Nat /\ k >= 1 /\ k + 1 \in DOMAIN q /\ q'[k] = q[k + 1] /\ 1 < k + 1
    BY SMT, <1>1, <1>2
  <2>2. \A l \in DOMAIN q' : l < k => l + 1 \in DOMAIN q /\ l + 1 < k + 1 /\ q'[l] = q[l + 1]
    BY SMT, <1>2, <2>1
  <2> QED
    BY <1>2, <2>1, <2>2 DEF PairsInOrder, PairsBound
<1>6. IsProbe(q[1]) => /\ q[1].pair < providerNext /\ q[1].pair # 0 /\ q[1].of <= providerGeneration
                       /\ \A i \in Index : task[i].pair < q[1].pair /\ task[i].pair # q[1].pair
                       /\ q[1].of = providerGeneration => q[1].pair \in providerRoutes
                       /\ \A m \in DOMAIN wire : IsProbe(wire[m]) => q[1].pair < wire[m].pair
  <2>1. \A i \in Index : task[i].pair \in Nat
    BY ProviderFields
  <2>2. q[1].pair \in Nat
    BY <1>2, ProviderFields
  <2> QED
    BY SMT, <1>2, <2>1, <2>2 DEF PairsInOrder, PairsBound
<1> HIDE DEF q, t
<1>7. \A i \in Index' : /\ task'[i].pair < providerNext /\ task'[i].of <= providerGeneration
                        /\ task'[i].pair = 0 => task'[i].stage = "done"
                        /\ \A j \in Index' : task'[i].pair = task'[j].pair /\ task'[i].pair # 0 => i = j
  BY SMTT(30), <1>4, <1>6 DEF PairsInOrder
<1>8. \A k \in DOMAIN q' : IsProbe(q'[k]) => \A i \in Index' : task'[i].pair < q'[k].pair
  BY SMT, <1>4, <1>5
<1>9. \A m \in DOMAIN wire :
          /\ wire[m].of = providerGeneration /\ wire[m].pair < providerNext
          /\ IsProbe(wire[m]) => /\ m = 1 /\ wire[m].pair # 0
                                 /\ \A i \in Index' : task'[i].pair < wire[m].pair
  BY SMT, <1>4, <1>6 DEF PairsInOrder
<1>10. \A m \in DOMAIN wire : IsProbe(wire[m]) =>
          \A k \in DOMAIN q' : IsProbe(q'[k]) => q'[k].pair < wire[m].pair
  BY <1>2 DEF PairsInOrder, q
<1>11. PairsInOrder'
  BY <1>3, <1>5, <1>7, <1>8, <1>9, <1>10, Zenon DEF PairsInOrder, q
<1>12. PairsBound'
  BY <1>3, <1>4, <1>5, <1>6 DEF PairsBound, q
<1> QED
  BY <1>11, <1>12

\* A task that ends drops the binding of its own pair, which is nobody else's.
LEMMA StepBinds ==
    ASSUME SlotAssumption, Restarts = 0, BindingInv, NEW i, Step(i)
    PROVE  PairsInOrder' /\ PairsBound'
<1> USE DEF BindingInv, HoldInv
<1>1. PICK n \in Task :
        /\ task' = [task EXCEPT ![i] = n]
        /\ \/ /\ n.pair = task[i].pair /\ n.gen = task[i].gen /\ n.of = task[i].of
              /\ n.stage # "done" /\ UNCHANGED providerRoutes
           \/ n = ProviderGone /\ providerRoutes' = providerRoutes \ {task[i].pair}
  BY StepTask
<1>2. /\ i \in Index /\ task[i].stage # "done"
      /\ UNCHANGED <<providerGeneration, providerNext, restarts, wire, providerQueue>>
  BY StepTask DEF control
<1>3. Index' = Index /\ task'[i] = n /\ \A j \in Index : j # i => task'[j] = task[j]
  BY <1>1, <1>2, TaskSet
<1>4. providerNext \in Nat \ {0} /\ providerGeneration \in Nat
  BY DEF ProviderTyped
<1>5. CASE n.pair = task[i].pair /\ n.of = task[i].of /\ n.stage # "done" /\ UNCHANGED providerRoutes
  <2>1. \A j \in Index : task'[j].pair = task[j].pair /\ task'[j].of = task[j].of
                         /\ (task'[j].stage = "done" <=> task[j].stage = "done")
    BY <1>2, <1>3, <1>5
  <2>2. PairsInOrder'
    BY SMT, <1>2, <1>3, <2>1 DEF PairsInOrder
  <2>3. PairsBound'
    BY <1>2, <1>3, <1>5, <2>1 DEF PairsBound
  <2> QED
    BY <2>2, <2>3
<1>6. CASE n = ProviderGone /\ providerRoutes' = providerRoutes \ {task[i].pair}
  <2>1. n.pair = 0 /\ n.of = 0 /\ n.stage = "done"
    BY <1>6 DEF ProviderGone
  <2>2. \A k \in DOMAIN providerQueue : providerQueue[k].pair \in Nat
    BY ProviderFields
  <2>3. \A m \in DOMAIN wire : wire[m].pair \in Nat
    BY ProviderFields
  <2>4. /\ \A k \in DOMAIN providerQueue : IsProbe(providerQueue[k]) =>
              /\ 0 < providerQueue[k].pair /\ providerQueue[k].pair # task[i].pair
        /\ \A m \in DOMAIN wire : IsProbe(wire[m]) => 0 < wire[m].pair
    <3>1. task[i].pair \in Nat
      BY <1>2, ProviderFields
    <3> QED
      BY SMTT(30), <1>2, <2>2, <2>3, <3>1 DEF PairsInOrder
  <2>5. \A j \in Index : task[j].stage # "done" /\ j # i => task[j].pair # task[i].pair
    BY <1>2 DEF PairsInOrder
  <2>6. 0 < providerNext /\ 0 <= providerGeneration
    BY SMT, <1>4
  <2>7. PairsInOrder'
    BY SMT, <1>2, <1>3, <2>1, <2>4, <2>6 DEF PairsInOrder
  <2>8. PairsBound'
    BY <1>2, <1>3, <1>6, <2>1, <2>4, <2>5 DEF PairsBound
  <2> QED
    BY <2>7, <2>8
<1> QED
  BY <1>1, <1>5, <1>6

\* Every step keeps the order of the pairs and their bindings.
LEMMA ProviderStepBinds ==
    ASSUME SlotAssumption, Restarts = 0, BindingInv, [ProviderNext]_providerVars
    PROVE  BindingInv'
<1>1. HoldInv'
  BY ProviderStepHolds DEF BindingInv
<1>2. ASSUME UNCHANGED <<providerGeneration, providerNext, restarts, wire, providerRoutes, providerQueue, task>>
      PROVE  PairsInOrder' /\ PairsBound'
  BY <1>2 DEF BindingInv, PairsInOrder, PairsBound, Index
<1>3. CASE UNCHANGED providerVars
  BY <1>1, <1>2, <1>3 DEF providerVars, BindingInv
<1>4. CASE Serve \/ Change \/ (\E b \in BOOLEAN : AdapterEnds(b)) \/ ProviderIdle
  BY <1>1, <1>2, <1>4 DEF Serve, Change, AdapterEnds, ProviderIdle, providerVars, control, BindingInv
<1>5. CASE ProviderNext
  BY <1>1, <1>4, <1>5, SessionsBind, PairsBind, RouteBinds, ReadFrameBinds, StepBinds DEF ProviderNext, BindingInv
<1> QED
  BY <1>3, <1>5

\* "Hold the pair binding the router installed for as long as the cycle that owns the pair runs":
\* while the server does not restart, a task that runs a pair of the live session finds the pair's
\* frames routed to it, whatever the tasks of earlier sessions drop meanwhile.
THEOREM BindingsAreHeld == SlotAssumption /\ Restarts = 0 /\ ProviderSpec => []BindingHeld
<1> SUFFICES ASSUME SlotAssumption, Restarts = 0 PROVE ProviderSpec => []BindingHeld
  OBVIOUS
<1>1. ProviderInit => BindingInv
  BY BindingStarts
<1>2. BindingInv /\ [ProviderNext]_providerVars => BindingInv'
  BY ProviderStepBinds
<1>3. BindingInv => BindingHeld
  BY DEF BindingInv, PairsBound, BindingHeld
<1> QED
  BY <1>1, <1>2, <1>3, PTL DEF ProviderSpec

-----------------------------------------------------------------------------
(* The consumer's answers. *)

\* Nothing is under way at first.
LEMMA ConsumerStarts == ConsumerAssumption /\ ConsumerInit => ConsumerInv
<1> SUFFICES ASSUME ConsumerAssumption, ConsumerInit PROVE ConsumerInv
  OBVIOUS
<1>1. DOMAIN down = {} /\ DOMAIN consumerQueue = {} /\ up = <<>>
  BY SMT DEF ConsumerInit
<1>2. ConsumerTyped
  <2>1. /\ <<>> \in Seq(ConsumerFrame) /\ <<>> \in Seq(Nat) /\ 0 \in 0..Level
        /\ 1 \in Nat \ {0} /\ 0 \in Nat /\ 0 < 1 /\ 0 <= 0
    BY SMT DEF ConsumerAssumption
  <2> QED
    BY <1>1, <2>1 DEF ConsumerInit, ConsumerTyped, ConsumerStages, NoPair
<1>3. AnswerPending
  BY <1>1 DEF AnswerPending, ConsumerInit
<1> QED
  BY <1>2, <1>3 DEF ConsumerInit, ConsumerInv, FollowsOwnAnswer, ResultsReachTheSlot

\* What is numbered has numbers.
LEMMA ConsumerFields ==
    ASSUME ConsumerTyped
    PROVE  /\ \A k \in DOMAIN down : down[k] \in ConsumerFrame /\ down[k].pair \in Nat
           /\ \A k \in DOMAIN consumerQueue : consumerQueue[k] \in ConsumerFrame /\ consumerQueue[k].pair \in Nat
<1>1. \A q \in Seq(ConsumerFrame) : \A k \in DOMAIN q : q[k] \in ConsumerFrame
  BY SMT
<1>2. \A f \in ConsumerFrame : f.pair \in Nat
  BY DEF ConsumerFrame
<1> QED
  BY <1>1, <1>2 DEF ConsumerTyped

\* Sessions begin and end.
LEMMA SessionsAnswer ==
    ASSUME ConsumerAssumption, ConsumerInv, Connect \/ ConsumerDisconnect \/ Switch
    PROVE  ConsumerInv'
<1> USE DEF ConsumerInv
<1>1. /\ up' = <<>> /\ down' = <<>> /\ DOMAIN down' = {} /\ consumerRoutes' = {} /\ pair' \in {pair, NoPair}
      /\ consumerNext' = consumerNext /\ informed' = informed /\ UNCHANGED <<cycle, asks, asked>>
      /\ pair' = NoPair
  BY SMT DEF Connect, ConsumerDisconnect, Switch, SessionGoes, ConsumerTyped, server, slot
<1>2. CASE Connect \/ ConsumerDisconnect
  <2>1. /\ UNCHANGED <<registered, consumerQueue, me, consumerStage, mine, backoff>>
        /\ consumerGeneration' = consumerGeneration + 1 /\ consumerLive' = ~consumerLive
        /\ consumerLive \in BOOLEAN
    BY <1>2 DEF Connect, ConsumerDisconnect, slot, ConsumerTyped
  <2>2. ConsumerTyped'
    <3>1. /\ consumerGeneration' \in Nat
          /\ cycle' <= consumerGeneration'
      BY SMT, <1>1, <2>1 DEF ConsumerTyped
    <3> QED
      BY SMT, <1>1, <2>1, <3>1 DEF ConsumerTyped, NoPair
  <2> QED
    BY <1>1, <2>1, <2>2 DEF AnswerPending, FollowsOwnAnswer, ResultsReachTheSlot
<1>3. CASE Switch
  <2>1. /\ consumerQueue' = <<>> /\ DOMAIN consumerQueue' = {} /\ registered' = {me'} /\ me' = me + 1
        /\ consumerStage' = "offline" /\ mine' = NoPair /\ backoff' = 0 /\ consumerLive' = FALSE
        /\ consumerGeneration' = IF consumerLive THEN consumerGeneration + 1 ELSE consumerGeneration
    BY SMT, <1>3 DEF Switch, SessionGoes
  <2>2. /\ consumerGeneration' \in Nat
        /\ cycle' <= consumerGeneration' /\ backoff' \in 0..Level
    BY SMT, <1>1, <2>1 DEF ConsumerTyped, ConsumerAssumption
  <2>3. ConsumerTyped'
    <3>1. /\ <<>> \in Seq(ConsumerFrame) /\ <<>> \in Seq(Nat) /\ me + 1 \in Nat /\ 0 < consumerNext
      BY SMT DEF ConsumerTyped
    <3> QED
      BY <1>1, <2>1, <2>2, <3>1 DEF ConsumerTyped, NoPair, ConsumerStages
  <2> QED
    BY <1>1, <2>1, <2>3 DEF AnswerPending, FollowsOwnAnswer, ResultsReachTheSlot
<1> QED
  BY <1>2, <1>3

\* The server answers the one request there is, and says what becomes of a pair.
LEMMA ServerAnswers ==
    ASSUME ConsumerAssumption, ConsumerInv, Accept \/ RefuseConnect \/ Inform \/ Forget
    PROVE  ConsumerInv'
<1> USE DEF ConsumerInv
<1>1. UNCHANGED <<consumerGeneration, consumerLive, registered, consumerRoutes, consumerQueue, me, consumerStage,
                  cycle, asks, asked, mine, backoff>>
  BY DEF Accept, RefuseConnect, Inform, Forget, session, slot
<1>2. FollowsOwnAnswer' /\ ResultsReachTheSlot' /\ Waiting' = Waiting /\ NoResult(consumerQueue)' = NoResult(consumerQueue)
  BY <1>1 DEF FollowsOwnAnswer, ResultsReachTheSlot, Waiting, NoResult
<1>3. CASE Forget
  <2>1. UNCHANGED <<consumerNext, informed, up, down>> /\ pair' = NoPair
    BY <1>3 DEF Forget
  <2>2. ConsumerTyped'
    BY SMT, <1>1, <2>1 DEF ConsumerTyped, NoPair
  <2> QED
    BY <1>1, <1>2, <2>1, <2>2 DEF AnswerPending, NoResult, Waiting
<1>4. CASE Inform
  <2> DEFINE f == [kind |-> "info", pair |-> pair, ask |-> 0]
  <2>1. UNCHANGED <<consumerNext, pair, up>> /\ informed' = TRUE /\ down' = Append(down, f) /\ pair # NoPair
    BY <1>4 DEF Inform
  <2>2. f \in ConsumerFrame /\ ~IsResult(f) /\ f.pair = pair /\ f.kind # "accepted"
    BY DEF ConsumerFrame, IsResult, ConsumerTyped
  <2> HIDE DEF f
  <2>3. /\ down' \in Seq(ConsumerFrame) /\ DOMAIN down' = DOMAIN down \cup {Len(down) + 1}
        /\ \A k \in DOMAIN down : down'[k] = down[k]
        /\ down'[Len(down) + 1] = f
    BY SMT, <2>1, <2>2, AppendAdds DEF ConsumerTyped
  <2>4. consumerLive
    BY <2>1 DEF ConsumerTyped
  <2>5. ConsumerTyped'
    BY <1>1, <2>1, <2>2, <2>3, <2>4 DEF ConsumerTyped
  <2>6. /\ NoResult(down) => NoResult(down)'
        /\ \A k \in DOMAIN down' : IsResult(down'[k]) => k \in DOMAIN down /\ IsResult(down[k])
    BY <2>2, <2>3 DEF NoResult
  <2>7. AnswerPending'
    BY SMT, <1>1, <1>2, <2>1, <2>3, <2>6 DEF AnswerPending
  <2> QED
    BY <1>2, <2>5, <2>7
<1>5. CASE Accept \/ RefuseConnect
  <2>1. PICK f \in ConsumerFrame :
           /\ down' = Append(down, f) /\ f.ask = Head(up) /\ IsResult(f)
           /\ f.pair < consumerNext' /\ (f.kind = "accepted" => f.pair # NoPair)
    <3>1. up # <<>> /\ up \in Seq(Nat) /\ consumerNext \in Nat \ {0}
      BY <1>5 DEF Accept, RefuseConnect, ConsumerTyped
    <3>2. Head(up) \in Nat
      BY <3>1, TailMoves
    <3> DEFINE a == [kind |-> "accepted", pair |-> consumerNext, ask |-> Head(up)]
               b == [kind |-> "refused", pair |-> NoPair, ask |-> Head(up)]
    <3>3. /\ a \in ConsumerFrame /\ a.ask = Head(up) /\ IsResult(a) /\ a.pair = consumerNext
          /\ b \in ConsumerFrame /\ b.ask = Head(up) /\ IsResult(b) /\ b.pair = 0 /\ b.kind # "accepted"
      BY <3>1, <3>2 DEF ConsumerFrame, IsResult, NoPair
    <3>4. CASE Accept
      <4>1. down' = Append(down, a) /\ consumerNext' = consumerNext + 1
        BY <3>4 DEF Accept
      <4>2. a.pair < consumerNext' /\ a.pair # NoPair
        BY SMT, <3>1, <3>3, <4>1 DEF NoPair
      <4> QED
        BY <3>3, <4>1, <4>2
    <3>5. CASE RefuseConnect
      <4>1. down' = Append(down, b) /\ consumerNext' = consumerNext
        BY <3>5 DEF RefuseConnect, server
      <4>2. b.pair < consumerNext'
        BY SMT, <3>1, <3>3, <4>1
      <4> QED
        BY <3>3, <4>1, <4>2
    <3> QED
      BY <1>5, <3>4, <3>5
  <2>2. up # <<>> /\ Len(up) = 1 /\ up[1] = asks /\ Waiting /\ NoResult(down) /\ NoResult(consumerQueue)
    BY <1>5 DEF Accept, RefuseConnect, AnswerPending
  <2>3. up' = <<>> /\ f.ask = asks
    <3>1. up \in Seq(Nat) /\ up' = Tail(up)
      BY <1>5 DEF Accept, RefuseConnect, ConsumerTyped
    <3>2. Head(up) = up[1] /\ Tail(up) = <<>>
      BY SMT, <2>2, <3>1
    <3> QED
      BY <2>1, <2>2, <3>1, <3>2
  <2>4. /\ down' \in Seq(ConsumerFrame) /\ DOMAIN down' = DOMAIN down \cup {Len(down) + 1}
        /\ \A k \in DOMAIN down : down'[k] = down[k]
        /\ down'[Len(down) + 1] = f
    BY SMTT(30), <2>1, AppendAdds DEF ConsumerTyped
  <2>5. /\ consumerNext' \in Nat \ {0} /\ consumerNext <= consumerNext' /\ consumerNext \in Nat
        /\ pair' \in Nat /\ pair' < consumerNext' /\ informed' \in BOOLEAN
    <3>1. consumerNext \in Nat \ {0} /\ pair \in Nat /\ pair < consumerNext /\ informed \in BOOLEAN
      BY DEF ConsumerTyped
    <3>2. CASE Accept
      <4>1. consumerNext' = consumerNext + 1 /\ pair' = consumerNext /\ informed' = FALSE
        BY <3>2 DEF Accept
      <4>2. consumerNext + 1 \in Nat \ {0} /\ consumerNext < consumerNext + 1 /\ consumerNext <= consumerNext + 1
        BY SMT, <3>1
      <4> QED
        BY <3>1, <4>1, <4>2
    <3>3. CASE RefuseConnect
      <4>1. consumerNext' = consumerNext /\ pair' = pair /\ informed' = informed
        BY <3>3 DEF RefuseConnect, server
      <4> QED
        BY SMT, <3>1, <4>1
    <3> QED
      BY <1>5, <3>2, <3>3
  <2>6. consumerLive /\ mine < consumerNext'
    BY SMT, <2>2, <2>5 DEF ConsumerTyped
  <2>7. /\ \A k \in DOMAIN down : down[k].pair < consumerNext'
        /\ \A k \in DOMAIN consumerQueue : consumerQueue[k].pair < consumerNext'
    <3>1. \A n \in Nat : n < consumerNext => n < consumerNext'
      BY SMT, <2>5
    <3> QED
      BY <3>1, ConsumerFields DEF ConsumerTyped
  <2>8. ConsumerTyped'
    BY SMT, <1>1, <2>1, <2>3, <2>4, <2>5, <2>6, <2>7 DEF ConsumerTyped
  <2>9. \A k \in DOMAIN down' : IsResult(down'[k]) => k = Len(down) + 1 /\ down'[k] = f
    BY <2>2, <2>4 DEF NoResult
  <2>10. AnswerPending'
    BY <1>1, <1>2, <2>2, <2>3, <2>9 DEF AnswerPending
  <2> QED
    BY <1>2, <2>8, <2>10
<1> QED
  BY <1>3, <1>4, <1>5

\* The reader moves the answer from the stream to the slot's queue.
LEMMA RouteAnswers ==
    ASSUME ConsumerAssumption, ConsumerInv, ConsumerRoute
    PROVE  ConsumerInv'
<1> USE DEF ConsumerInv
<1> DEFINE f == Head(down)
<1>1. UNCHANGED <<consumerGeneration, consumerLive, consumerNext, pair, informed, up, registered, me, consumerStage,
                  cycle, asks, asked, mine, backoff>>
  BY DEF ConsumerRoute, session, server, slot
<1>2. down # <<>> /\ down \in Seq(ConsumerFrame) /\ down' = Tail(down) /\ consumerLive
  BY DEF ConsumerRoute, ConsumerTyped
<1>3. /\ f = down[1] /\ f \in ConsumerFrame /\ 1 \in DOMAIN down /\ down' \in Seq(ConsumerFrame)
      /\ \A k \in DOMAIN down' : k \in Nat /\ k + 1 \in DOMAIN down /\ down'[k] = down[k + 1]
  BY <1>2, TailMoves
<1>4. consumerQueue' = consumerQueue \/ consumerQueue' = Append(consumerQueue, f)
  BY DEF ConsumerRoute
<1>5. f.pair < consumerNext /\ (f.kind = "accepted" => f.pair # NoPair)
  BY <1>3 DEF ConsumerTyped
<1>6. \A k \in DOMAIN down' : k + 1 # 1
  BY SMT, <1>2, <1>3
<1>7. IsResult(f) => /\ f.ask = asks /\ Waiting /\ NoResult(consumerQueue) /\ up = <<>>
                     /\ \A l \in DOMAIN down : IsResult(down[l]) => l = 1
  BY <1>3 DEF AnswerPending, NoResult
<1> HIDE DEF f
<1>8. Waiting' = Waiting /\ FollowsOwnAnswer' /\ ResultsReachTheSlot'
  BY <1>1 DEF Waiting, FollowsOwnAnswer, ResultsReachTheSlot
<1>9. /\ IsResult(f) => NoResult(down)'
      /\ NoResult(down) => NoResult(down)' /\ ~IsResult(f)
  BY <1>3, <1>6, <1>7 DEF NoResult
<1>12. \A k \in DOMAIN down' : IsResult(down'[k]) =>
          /\ down'[k].ask = asks /\ Waiting /\ NoResult(consumerQueue)
          /\ \A l \in DOMAIN down' : IsResult(down'[l]) => l = k
  <2> SUFFICES ASSUME NEW k \in DOMAIN down', IsResult(down'[k])
               PROVE  /\ down'[k].ask = asks /\ Waiting /\ NoResult(consumerQueue)
                      /\ \A l \in DOMAIN down' : IsResult(down'[l]) => l = k
    OBVIOUS
  <2>1. down[k + 1].ask = asks /\ Waiting /\ NoResult(consumerQueue)
        /\ \A l \in DOMAIN down : IsResult(down[l]) => l = k + 1
    BY <1>3 DEF AnswerPending
  <2>2. \A l \in DOMAIN down' : IsResult(down'[l]) => l + 1 = k + 1
    BY <1>3, <2>1
  <2> QED
    BY SMT, <1>3, <2>1, <2>2
<1>10. CASE consumerQueue' = consumerQueue
  <2>1. ConsumerTyped'
    BY <1>1, <1>2, <1>3, <1>10 DEF ConsumerTyped
  <2>2. NoResult(consumerQueue) => NoResult(consumerQueue)'
    BY <1>10 DEF NoResult
  <2>4. AnswerPending'
    BY <1>1, <1>8, <1>9, <1>10, <1>12, <2>2 DEF AnswerPending
  <2> QED
    BY <1>8, <2>1, <2>4
<1>11. CASE consumerQueue' = Append(consumerQueue, f)
  <2>1. /\ consumerQueue' \in Seq(ConsumerFrame)
        /\ DOMAIN consumerQueue' = DOMAIN consumerQueue \cup {Len(consumerQueue) + 1}
        /\ \A k \in DOMAIN consumerQueue : consumerQueue'[k] = consumerQueue[k]
        /\ consumerQueue'[Len(consumerQueue) + 1] = f
    BY SMT, <1>3, <1>11, AppendAdds DEF ConsumerTyped
  <2>2. ConsumerTyped'
    BY <1>1, <1>2, <1>3, <1>5, <2>1 DEF ConsumerTyped
  <2>3. CASE IsResult(f)
    <3>1. \A k \in DOMAIN consumerQueue' : IsResult(consumerQueue'[k]) => k = Len(consumerQueue) + 1 /\ consumerQueue'[k] = f
      BY <1>7, <2>1, <2>3 DEF NoResult
    <3>2. AnswerPending'
      BY <1>1, <1>7, <1>9, <2>3, <3>1 DEF AnswerPending, NoResult
    <3> QED
      BY <1>8, <2>2, <3>2
  <2>4. CASE ~IsResult(f)
    <3>1. \A k \in DOMAIN consumerQueue' : IsResult(consumerQueue'[k]) => k \in DOMAIN consumerQueue /\ consumerQueue'[k] = consumerQueue[k]
      BY <2>1, <2>4
    <3>2. NoResult(consumerQueue) => NoResult(consumerQueue)'
      BY <3>1 DEF NoResult
    <3>4. AnswerPending'
      BY <1>1, <1>8, <1>9, <1>12, <3>1, <3>2 DEF AnswerPending
    <3> QED
      BY <1>8, <2>2, <3>4
  <2> QED
    BY <2>3, <2>4
<1> QED
  BY <1>4, <1>10, <1>11

\* A cycle that is not waiting has nothing under way.
LEMMA NothingUnderWay ==
    ASSUME ConsumerInv, ~Waiting
    PROVE  up = <<>> /\ NoResult(down)
  BY DEF ConsumerInv, AnswerPending, NoResult

\* The delay stays in its range.
LEMMA FailsInRange ==
    ASSUME ConsumerAssumption, backoff \in 0..Level, Fails
    PROVE  backoff' \in 0..Level
  BY SMT DEF Fails, ConsumerAssumption

\* The slot empties its queue before it asks.
LEMMA AskAnswers ==
    ASSUME ConsumerAssumption, ConsumerInv, Ask
    PROVE  ConsumerInv'
<1> USE DEF ConsumerInv
<1>1. UNCHANGED <<consumerGeneration, consumerLive, consumerNext, pair, informed, down, registered, consumerRoutes,
                  me, backoff>>
  BY DEF Ask, session, server
<1>2. up = <<>> /\ NoResult(down)
  BY NothingUnderWay DEF Ask, Waiting
<1>3. up' = <<asks + 1>> /\ asks' = asks + 1 /\ asked' = asks + 1 /\ asks \in Nat
  BY SMT, <1>2 DEF Ask, ConsumerTyped
<1>4. /\ up' # <<>> /\ Len(up') = 1 /\ up'[1] = asks' /\ up' \in Seq(Nat) /\ asks' \in Nat /\ asked' = asks'
      /\ asked' <= asks'
  BY SMT, <1>3
<1>5. consumerQueue' = <<>> /\ DOMAIN consumerQueue' = {} /\ consumerStage' = "asking" /\ cycle' = consumerGeneration
      /\ mine' = NoPair /\ consumerLive
  BY SMT DEF Ask
<1>6. ConsumerTyped'
  BY SMT, <1>1, <1>4, <1>5 DEF ConsumerTyped, NoPair, ConsumerStages
<1>7. AnswerPending'
  BY <1>1, <1>2, <1>4, <1>5 DEF AnswerPending, NoResult, Waiting
<1> QED
  BY <1>1, <1>5, <1>6, <1>7 DEF FollowsOwnAnswer, ResultsReachTheSlot

\* The slot reads its queue: the only answer there is the one to its request.
LEMMA ReadAnswers ==
    ASSUME ConsumerAssumption, ConsumerInv, ReadResult \/ Settle
    PROVE  ConsumerInv'
<1> USE DEF ConsumerInv
<1> DEFINE q == consumerQueue
           f == Head(consumerQueue)
<1>1. UNCHANGED <<consumerGeneration, consumerLive, consumerNext, pair, informed, up, down, registered, me, cycle, asks>>
  BY DEF ReadResult, Settle, session, server
<1>2. q # <<>> /\ q \in Seq(ConsumerFrame) /\ q' = Tail(q)
  BY DEF ReadResult, Settle, ConsumerTyped
<1>3. /\ f = q[1] /\ f \in ConsumerFrame /\ 1 \in DOMAIN q /\ q' \in Seq(ConsumerFrame)
      /\ \A k \in DOMAIN q' : k \in Nat /\ k + 1 \in DOMAIN q /\ q'[k] = q[k + 1]
  BY <1>2, TailMoves
<1>4. f.pair < consumerNext /\ f.pair \in Nat /\ (f.kind = "accepted" => f.pair # NoPair)
  BY <1>3 DEF ConsumerTyped, ConsumerFrame
<1>5. /\ \A k \in DOMAIN q' : q'[k].pair < consumerNext /\ (q'[k].kind = "accepted" => q'[k].pair # NoPair)
      /\ NoResult(q) => NoResult(q)' /\ ~IsResult(f)
  BY <1>3 DEF ConsumerTyped, NoResult
<1>6. ResultsReachTheSlot'
  BY <1>1 DEF ResultsReachTheSlot
<1>7. ASSUME /\ consumerStage' \in ConsumerStages /\ consumerRoutes' \in {consumerRoutes, consumerRoutes \ {mine}}
             /\ mine' \in Nat /\ mine' < consumerNext /\ (mine' # NoPair <=> consumerStage' \in {"settling", "up"})
             /\ asked' \in Nat /\ asked' <= asks /\ backoff' \in 0..Level
      PROVE  ConsumerTyped'
  BY <1>1, <1>3, <1>5, <1>7 DEF ConsumerTyped, q
<1>8. backoff \in 0..Level /\ 0 \in 0..Level /\ NoPair \in Nat /\ NoPair < consumerNext /\ mine \in Nat
      /\ mine < consumerNext /\ asked \in Nat /\ asked <= asks /\ asks \in Nat
  BY SMT DEF ConsumerTyped, ConsumerAssumption, NoPair
<1>9. Fails => backoff' \in 0..Level
  BY <1>8, FailsInRange
<1>10. ASSUME up = <<>>, NoResult(down), consumerStage' # "asking"
       PROVE  AnswerPending'
  BY <1>1, <1>10 DEF AnswerPending, NoResult
<1>11. CASE ReadResult
  <2>1. consumerStage = "asking"
    BY <1>11 DEF ReadResult
  <2>2. IsResult(f) => up = <<>> /\ NoResult(down) /\ f.ask = asks
    BY <1>3, <2>1 DEF AnswerPending, NoResult, q
  <2>3. CASE f.kind = "accepted"
    <3>1. /\ consumerStage' = "settling" /\ mine' = f.pair /\ asked' = f.ask /\ UNCHANGED <<consumerRoutes, backoff>>
      BY <1>11, <2>3 DEF ReadResult
    <3>2. IsResult(f) /\ asked' = asks
      BY <2>2, <2>3, <3>1 DEF IsResult
    <3>3. ConsumerTyped'
      BY SMT, <1>4, <1>7, <1>8, <2>3, <3>1, <3>2 DEF ConsumerStages
    <3> QED
      BY <1>1, <1>6, <1>10, <2>2, <3>1, <3>2, <3>3 DEF FollowsOwnAnswer
  <2>4. CASE f.kind = "refused"
    <3>1. EndCycle /\ UNCHANGED asked /\ IsResult(f)
      BY <1>11, <2>4 DEF ReadResult, IsResult
    <3>2. ConsumerTyped'
      BY <1>7, <1>8, <1>9, <3>1 DEF ConsumerStages, EndCycle
    <3> QED
      BY <1>6, <1>10, <2>2, <3>1, <3>2 DEF FollowsOwnAnswer, EndCycle
  <2>5. CASE f.kind = "info"
    <3>1. UNCHANGED <<consumerStage, mine, asked, consumerRoutes, backoff>> /\ ~IsResult(f)
      BY <1>11, <2>5 DEF ReadResult, IsResult
    <3>2. ConsumerTyped'
      BY <1>7, <1>8, <3>1 DEF ConsumerTyped
    <3>3. \A k \in DOMAIN q' : IsResult(q'[k]) =>
              q'[k].ask = asks /\ \A l \in DOMAIN q' : IsResult(q'[l]) => l = k
      <4> SUFFICES ASSUME NEW k \in DOMAIN q', IsResult(q'[k])
                   PROVE  q'[k].ask = asks /\ \A l \in DOMAIN q' : IsResult(q'[l]) => l = k
        OBVIOUS
      <4>1. q[k + 1].ask = asks /\ \A l \in DOMAIN q : IsResult(q[l]) => l = k + 1
        BY <1>3, <2>1 DEF AnswerPending, q
      <4>2. \A l \in DOMAIN q' : IsResult(q'[l]) => l + 1 = k + 1
        BY <1>3, <4>1
      <4> QED
        BY SMT, <1>3, <4>1, <4>2
    <3>4. AnswerPending'
      BY <1>1, <1>5, <3>1, <3>3 DEF AnswerPending, NoResult, Waiting, q
    <3> QED
      BY <1>1, <1>6, <3>1, <3>2, <3>4 DEF FollowsOwnAnswer
  <2> QED
    BY <1>3, <2>3, <2>4, <2>5 DEF ConsumerFrame
<1>12. CASE Settle
  <2>1. consumerStage = "settling" /\ UNCHANGED asked /\ asked = asks
    BY <1>12 DEF Settle, FollowsOwnAnswer
  <2>2. up = <<>> /\ NoResult(down)
    BY <2>1, NothingUnderWay DEF Waiting
  <2>3. \/ consumerStage' = "up" /\ backoff' = 0 /\ consumerRoutes' = consumerRoutes \ {mine} /\ UNCHANGED mine
        \/ EndCycle
        \/ UNCHANGED <<consumerStage, backoff, consumerRoutes, mine>>
    BY <1>12 DEF Settle
  <2>4. mine # NoPair
    BY <2>1 DEF ConsumerTyped
  <2>5. ConsumerTyped' /\ consumerStage' # "asking"
    BY SMT, <1>7, <1>8, <1>9, <2>1, <2>3, <2>4 DEF ConsumerStages, EndCycle
  <2> QED
    BY <1>1, <1>6, <1>10, <2>1, <2>2, <2>5 DEF FollowsOwnAnswer
<1> QED
  BY <1>11, <1>12

\* A cycle that ends, or has not begun, leaves no answer under way.
LEMMA LoopAnswers ==
    ASSUME ConsumerAssumption, ConsumerInv,
           PrecheckFails \/ ConsumerGone \/ Deadline \/ SessionEnds \/ Retry \/ ConsumerIdle
    PROVE  ConsumerInv'
<1> USE DEF ConsumerInv
<1>1. CASE ConsumerIdle
  <2>1. UNCHANGED consumerVars
    BY <1>1 DEF ConsumerIdle
  <2> QED
    BY <2>1 DEF consumerVars, ConsumerTyped, AnswerPending, NoResult, Waiting, FollowsOwnAnswer, ResultsReachTheSlot
<1>2. CASE PrecheckFails \/ ConsumerGone \/ Deadline \/ SessionEnds \/ Retry
  <2>1. /\ UNCHANGED <<consumerGeneration, consumerLive, consumerNext, pair, informed, up, down, registered,
                       consumerQueue, me, cycle, asks, asked>>
        /\ consumerStage' \in {"offline", "backoff"} /\ consumerRoutes' \in {consumerRoutes, consumerRoutes \ {mine}}
    BY <1>2 DEF PrecheckFails, ConsumerGone, Deadline, SessionEnds, Retry, EndCycle, session, server
  <2>2. backoff' \in 0..Level
    BY <1>2, FailsInRange DEF PrecheckFails, ConsumerGone, Deadline, SessionEnds, Retry, EndCycle, ConsumerTyped
  <2>3. mine' = NoPair
    BY <1>2 DEF PrecheckFails, ConsumerGone, Deadline, SessionEnds, Retry, EndCycle, ConsumerTyped
  <2>4. up = <<>> /\ NoResult(down)
    <3>1. CASE Deadline /\ consumerStage = "asking"
      BY SMT, <3>1 DEF Deadline, NoResult
    <3>2. CASE ~Waiting
      BY <3>2, NothingUnderWay
    <3> QED
      BY <1>2, <3>1, <3>2 DEF PrecheckFails, ConsumerGone, SessionEnds, Retry, Waiting
  <2>5. ConsumerTyped'
    BY SMT, <2>1, <2>2, <2>3 DEF ConsumerTyped, NoPair, ConsumerStages
  <2>6. AnswerPending'
    BY <2>1, <2>4 DEF AnswerPending, NoResult
  <2> QED
    BY <2>1, <2>5, <2>6 DEF FollowsOwnAnswer, ResultsReachTheSlot
<1> QED
  BY <1>1, <1>2

\* A consumer follows the pair that answers the request of its own cycle, and results reach the
\* slot that runs, across lost sessions, deadlines and switches of the profile. One answer at most
\* is under way, because the slot drains its queue before it asks and gives up only when the
\* session is gone or nothing is left to read.
THEOREM ConsumerFollowsItsAnswer ==
    ConsumerAssumption /\ ConsumerSpec => [](FollowsOwnAnswer /\ ResultsReachTheSlot)
<1> SUFFICES ASSUME ConsumerAssumption PROVE ConsumerSpec => [](FollowsOwnAnswer /\ ResultsReachTheSlot)
  OBVIOUS
<1>1. ConsumerInit => ConsumerInv
  BY ConsumerStarts
<1>2. ConsumerInv /\ [ConsumerNext]_consumerVars => ConsumerInv'
  <2>1. UNCHANGED consumerVars => ConsumerIdle
    BY DEF ConsumerIdle
  <2> QED
    BY <2>1, SessionsAnswer, ServerAnswers, RouteAnswers, AskAnswers, ReadAnswers, LoopAnswers DEF ConsumerNext
<1>3. ConsumerInv => FollowsOwnAnswer /\ ResultsReachTheSlot
  BY DEF ConsumerInv
<1> QED
  BY <1>1, <1>2, <1>3, PTL DEF ConsumerSpec
=============================================================================
