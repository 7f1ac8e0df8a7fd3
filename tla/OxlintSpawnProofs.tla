------------------------- MODULE OxlintSpawnProofs -------------------------
(***************************************************************************)
(* For any number of calls, signals and slots.  WorkerSlots: the pool      *)
(* conserves its slots, its queue agrees with its promises, nobody         *)
(* overtakes, and every step is a step of SlotPool.  OxlintSpawn: its      *)
(* calls are tasks of WorkerSlots, its processes are bounded by the slots, *)
(* and every settle path leaves the listeners and the timers as it should. *)
(***************************************************************************)
EXTENDS OxlintSpawn, FiniteSetTheorems, TLAPS

----------------------------------------------------------------------------
(* The slots *)

\* Any two waiters are ordered.  With SlotsConserved this is what makes the
\* hand-off to a waiter with nobody ahead of it fair to all the others.
QueueOrder ==
  \A t, u \in waiters : t # u => t \in ahead[u] \/ u \in ahead[t]

SlotsIInv == SlotsTypeOK /\ SlotsConserved /\ QueueAgrees /\ QueueOrder

\* The slots that are owned can be counted.
LEMMA HoldersFinite ==
  IsFiniteSet(Holders) /\ Cardinality(Holders) \in Nat
<1>1. Holders \subseteq Tasks
  BY DEF Holders
<1>2. IsFiniteSet(Holders)
  BY <1>1, FS_Subset, WorkerSlotsAssumption
<1>3. QED
  BY <1>2, FS_CardinalityType

\* Each kind of step changes the number of holders by what it does to the free count.
LEMMA HoldersCounted ==
  ASSUME SlotsTypeOK
  PROVE  /\ \A t \in Tasks : AcquireFree(t) =>
              Cardinality(Holders') = Cardinality(Holders) + 1
         /\ \A t \in Tasks : phase[t] = "running" /\ ReleaseToPool(t) =>
              Cardinality(Holders') = Cardinality(Holders) - 1
         /\ \A t, u \in Tasks :
              /\ phase[t] = "running" /\ phase[u] = "waiting"
              /\ ReleaseToWaiter(t, u)
              => Cardinality(Holders') = Cardinality(Holders)
<1> USE DEF SlotsTypeOK, Phases
<1>1. ASSUME NEW t \in Tasks, AcquireFree(t)
      PROVE  Cardinality(Holders') = Cardinality(Holders) + 1
  <2>1. Holders' = Holders \cup {t} /\ t \notin Holders
    BY <1>1 DEF Holders, AcquireFree
  <2>2. QED
    BY <2>1, HoldersFinite, FS_AddElement
<1>2. ASSUME NEW t \in Tasks, phase[t] = "running", ReleaseToPool(t)
      PROVE  Cardinality(Holders') = Cardinality(Holders) - 1
  <2>1. Holders' = Holders \ {t} /\ t \in Holders
    BY <1>2 DEF Holders, ReleaseToPool
  <2>2. QED
    BY <2>1, HoldersFinite, FS_RemoveElement
<1>3. ASSUME NEW t \in Tasks, NEW u \in Tasks,
             phase[t] = "running", phase[u] = "waiting", ReleaseToWaiter(t, u)
      PROVE  Cardinality(Holders') = Cardinality(Holders)
  <2> DEFINE Rest == Holders \ {t}
  <2>1. t # u /\ t \in Holders /\ u \notin Rest
    BY <1>3 DEF Holders
  <2>2. phase' = [SettleWait({u}, "granted") EXCEPT ![t] = "finished"]
    BY <1>3 DEF ReleaseToWaiter
  <2>3. Holders' = Rest \cup {u}
    BY <1>3, <2>1, <2>2 DEF Holders, SettleWait
  <2>4. IsFiniteSet(Rest) /\ Cardinality(Rest) = Cardinality(Holders) - 1
    BY <2>1, HoldersFinite, FS_RemoveElement
  <2> HIDE DEF Rest
  <2>5. Cardinality(Rest \cup {u}) = Cardinality(Rest) + 1
    BY <2>1, <2>4, FS_AddElement
  <2>6. QED
    BY <2>3, <2>4, <2>5, HoldersFinite
<1>4. QED
  BY <1>1, <1>2, <1>3

----------------------------------------------------------------------------

\* A fresh pool has all its slots and no queue.
LEMMA SlotsInitIInv == SlotsInit => SlotsIInv
<1> SUFFICES ASSUME SlotsInit PROVE SlotsIInv
  OBVIOUS
<1>1. SlotsTypeOK /\ QueueAgrees /\ QueueOrder
  BY WorkerSlotsAssumption DEF SlotsInit, SlotsTypeOK, QueueAgrees, QueueOrder, Phases
<1>2. Holders = {}
  BY DEF SlotsInit, Holders
<1>3. SlotsConserved
  BY <1>2, FS_EmptySet, WorkerSlotsAssumption DEF SlotsInit, SlotsConserved
<1>4. QED
  BY <1>1, <1>3 DEF SlotsIInv

\* Every step keeps the invariant.
LEMMA SlotsNextIInv == SlotsIInv /\ [SlotsNext]_slotVars => SlotsIInv'
<1> SUFFICES ASSUME SlotsIInv, [SlotsNext]_slotVars PROVE SlotsIInv'
  OBVIOUS
<1> USE WorkerSlotsAssumption
<1>a. SlotsTypeOK /\ SlotsConserved /\ QueueAgrees /\ QueueOrder
  BY DEF SlotsIInv
<1>b. Cardinality(Holders) \in Nat
  BY HoldersFinite
<1>1. ASSUME NEW t \in Tasks, AcquireRefused(t) PROVE SlotsIInv'
  <2>1. Holders' = Holders
    BY <1>1, <1>a DEF AcquireRefused, Holders, SlotsTypeOK
  <2>2. SlotsTypeOK'
    BY <1>1, <1>a DEF AcquireRefused, SlotsTypeOK, Phases
  <2>3. SlotsConserved'
    BY <1>1, <1>a, <2>1 DEF AcquireRefused, SlotsConserved
  <2>4. QueueAgrees' /\ QueueOrder'
    BY <1>1, <1>a DEF AcquireRefused, QueueAgrees, QueueOrder, SlotsTypeOK
  <2>5. QED
    BY <2>2, <2>3, <2>4 DEF SlotsIInv
<1>2. ASSUME NEW t \in Tasks, AcquireFree(t) PROVE SlotsIInv'
  <2>1. Cardinality(Holders') = Cardinality(Holders) + 1
    BY <1>2, <1>a, HoldersCounted
  <2>2. SlotsTypeOK'
    BY <1>2, <1>a DEF AcquireFree, SlotsTypeOK, Phases
  <2>3. SlotsConserved'
    BY <1>2, <1>a, <1>b, <2>1 DEF AcquireFree, SlotsConserved, SlotsTypeOK
  <2>4. QueueAgrees' /\ QueueOrder'
    BY <1>2, <1>a DEF AcquireFree, QueueAgrees, QueueOrder, SlotsTypeOK
  <2>5. QED
    BY <2>2, <2>3, <2>4 DEF SlotsIInv
<1>3. ASSUME NEW t \in Tasks, AcquireWait(t) PROVE SlotsIInv'
  <2>1. Holders' = Holders
    BY <1>3, <1>a DEF AcquireWait, Holders, SlotsTypeOK
  <2>2. SlotsTypeOK'
    BY <1>3, <1>a DEF AcquireWait, SlotsTypeOK, Phases
  <2>3. SlotsConserved'
    BY <1>3, <1>a, <2>1 DEF AcquireWait, SlotsConserved
  <2>4. QueueAgrees'
    BY <1>3, <1>a DEF AcquireWait, QueueAgrees, SlotsTypeOK
  <2>5. QueueOrder'
    BY <1>3, <1>a DEF AcquireWait, QueueOrder, SlotsTypeOK
  <2>6. QED
    BY <2>2, <2>3, <2>4, <2>5 DEF SlotsIInv
<1>4. ASSUME NEW s \in Signals, AbortWaiters(s) PROVE SlotsIInv'
  <2> DEFINE leaving == {t \in listening : SignalOf[t] = s}
  <2>1. /\ aborted' = aborted \cup {s}
        /\ phase' = [t \in Tasks |-> IF t \in leaving /\ phase[t] = "waiting"
                                     THEN "rejected" ELSE phase[t]]
        /\ waiters' = waiters \ leaving
        /\ ahead' = [t \in Tasks |-> IF t \in leaving THEN {} ELSE ahead[t] \ leaving]
        /\ listening' = listening \ leaving
        /\ availableSlotCount' = availableSlotCount
    BY <1>4 DEF AbortWaiters, Dequeue, SettleWait
  <2>2. leaving \subseteq waiters
    BY <1>a DEF QueueAgrees
  <2>3. Holders' = Holders
    BY <2>1, <1>a DEF Holders, SlotsTypeOK
  <2>4. SlotsTypeOK'
    BY <2>1, <1>a DEF SlotsTypeOK, Phases
  <2>5. SlotsConserved'
    BY <2>1, <2>3, <1>a DEF SlotsConserved
  <2>6. QueueAgrees'
    BY <2>1, <2>2, <1>a DEF QueueAgrees, SlotsTypeOK
  <2>7. QueueOrder'
    BY <2>1, <1>a DEF QueueOrder, SlotsTypeOK
  <2>8. QED
    BY <2>4, <2>5, <2>6, <2>7 DEF SlotsIInv
<1>5. ASSUME NEW t \in Tasks, StartTask(t) PROVE SlotsIInv'
  <2>1. Holders' = Holders
    BY <1>5, <1>a DEF StartTask, Holders, SlotsTypeOK
  <2>2. SlotsTypeOK'
    BY <1>5, <1>a DEF StartTask, SlotsTypeOK, Phases
  <2>3. SlotsConserved'
    BY <1>5, <1>a, <2>1 DEF StartTask, SlotsConserved
  <2>4. QueueAgrees' /\ QueueOrder'
    BY <1>5, <1>a DEF StartTask, QueueAgrees, QueueOrder, SlotsTypeOK
  <2>5. QED
    BY <2>2, <2>3, <2>4 DEF SlotsIInv
<1>6. ASSUME NEW t \in Tasks, phase[t] = "running", ReleaseToPool(t), aborted' = aborted
      PROVE  SlotsIInv'
  <2>0. (Cardinality(Holders) \in Nat)'
    BY HoldersFinite, PTL
  <2>1. Cardinality(Holders') = Cardinality(Holders) - 1 /\ Cardinality(Holders') \in Nat
    BY <1>6, <1>a, <2>0, HoldersCounted
  <2>2. SlotsConserved'
    BY <1>6, <1>a, <1>b, <2>1 DEF ReleaseToPool, SlotsConserved, SlotsTypeOK
  <2>3. SlotsTypeOK'
    BY <1>6, <1>a, <1>b, <2>1 DEF ReleaseToPool, SlotsTypeOK, SlotsConserved, Phases
  <2>4. QueueAgrees' /\ QueueOrder'
    BY <1>6, <1>a DEF ReleaseToPool, QueueAgrees, QueueOrder, SlotsTypeOK
  <2>5. QED
    BY <2>2, <2>3, <2>4 DEF SlotsIInv
<1>7. ASSUME NEW t \in Tasks, NEW u \in Tasks, phase[t] = "running",
             ReleaseToWaiter(t, u), aborted' = aborted
      PROVE  SlotsIInv'
  <2>1. phase[u] = "waiting" /\ t # u
    BY <1>7, <1>a DEF ReleaseToWaiter, QueueAgrees
  <2>2. /\ phase' = [v \in Tasks |-> IF v = t THEN "finished"
                                     ELSE IF v = u THEN "granted" ELSE phase[v]]
        /\ waiters' = waiters \ {u}
        /\ ahead' = [v \in Tasks |-> IF v = u THEN {} ELSE ahead[v] \ {u}]
        /\ listening' = listening \ {u}
        /\ availableSlotCount' = availableSlotCount
    BY <1>7, <1>a, <2>1 DEF ReleaseToWaiter, SettleWait, Dequeue, SlotsTypeOK
  <2>3. Cardinality(Holders') = Cardinality(Holders)
    BY <1>7, <1>a, <2>1, HoldersCounted
  <2>4. SlotsTypeOK'
    BY <1>7, <2>2, <1>a DEF SlotsTypeOK, Phases
  <2>5. SlotsConserved'
    BY <2>2, <2>3, <1>a DEF SlotsConserved
  <2>6. QueueAgrees'
    BY <1>7, <2>1, <2>2, <1>a DEF QueueAgrees, SlotsTypeOK
  <2>7. QueueOrder'
    BY <2>2, <1>a DEF QueueOrder, SlotsTypeOK
  <2>8. QED
    BY <2>4, <2>5, <2>6, <2>7 DEF SlotsIInv
<1>8. CASE UNCHANGED slotVars
  BY <1>8, <1>a DEF slotVars, SlotsIInv, SlotsTypeOK, SlotsConserved, QueueAgrees,
                    QueueOrder, Holders
<1>9. QED
  BY <1>1, <1>2, <1>3, <1>4, <1>5, <1>6, <1>7, <1>8 DEF SlotsNext, FinishTask

\* Every reachable state of the pool satisfies the inductive invariant.
THEOREM SlotsInvariant == SlotsSpec => []SlotsIInv
  BY SlotsInitIInv, SlotsNextIInv, PTL DEF SlotsSpec

\* WorkerSlots is type correct.
THEOREM SlotsTypeCorrect == SlotsSpec => []SlotsTypeOK
<1>1. SlotsIInv => SlotsTypeOK
  BY DEF SlotsIInv
<1>2. QED
  BY <1>1, SlotsInvariant, PTL

\* No hand-off, release or abort loses or invents a slot.
THEOREM SlotsAreConserved == SlotsSpec => []SlotsConserved
<1>1. SlotsIInv => SlotsConserved
  BY DEF SlotsIInv
<1>2. QED
  BY <1>1, SlotsInvariant, PTL

\* The queue holds the pending waits and the signals hear exactly those.
THEOREM QueueAlwaysAgrees == SlotsSpec => []QueueAgrees
<1>1. SlotsIInv => QueueAgrees
  BY DEF SlotsIInv
<1>2. QED
  BY <1>1, SlotsInvariant, PTL

----------------------------------------------------------------------------

\* One step never lets a call that is not ahead of a waiter take a slot.
LEMMA StepKeepsTurn ==
  ASSUME SlotsIInv, [SlotsNext]_slotVars, NEW t \in Tasks, NEW u \in Tasks,
         phase[u] = "waiting", phase'[u] = "waiting", t \notin Holders, t \in Holders'
  PROVE  t \in ahead[u]
<1> USE DEF Holders
<1>a. SlotsTypeOK /\ SlotsConserved /\ QueueAgrees /\ QueueOrder
  BY DEF SlotsIInv
<1>b. u \in waiters
  BY <1>a DEF QueueAgrees
<1>1. ASSUME NEW v \in Tasks, AcquireRefused(v) \/ AcquireWait(v) \/ StartTask(v)
      PROVE  FALSE
  BY <1>1, <1>a DEF AcquireRefused, AcquireWait, StartTask, SlotsTypeOK
<1>2. ASSUME NEW v \in Tasks, AcquireFree(v) PROVE FALSE
  BY <1>2, <1>a, <1>b DEF AcquireFree, SlotsConserved
<1>3. ASSUME NEW s \in Signals, AbortWaiters(s) PROVE FALSE
  BY <1>3, <1>a DEF AbortWaiters, SettleWait, SlotsTypeOK
<1>4. ASSUME NEW v \in Tasks, phase[v] = "running", ReleaseToPool(v) PROVE FALSE
  BY <1>4, <1>b DEF ReleaseToPool
<1>5. ASSUME NEW v \in Tasks, NEW w \in Tasks, phase[v] = "running", ReleaseToWaiter(v, w)
      PROVE  t \in ahead[u]
  <2>1. w \in waiters /\ ahead[w] = {}
    BY <1>5 DEF ReleaseToWaiter
  <2>2. phase[w] = "waiting" /\ w # v
    BY <2>1, <1>5, <1>a DEF QueueAgrees
  <2>3. phase' = [x \in Tasks |-> IF x = v THEN "finished"
                                  ELSE IF x = w THEN "granted" ELSE phase[x]]
    BY <1>5, <2>2, <1>a DEF ReleaseToWaiter, SettleWait, SlotsTypeOK
  <2>4. t = w /\ t # u
    BY <2>3, <1>a DEF SlotsTypeOK
  <2>5. QED
    BY <2>1, <2>4, <1>b, <1>a DEF QueueOrder
<1>6. CASE UNCHANGED slotVars
  BY <1>6 DEF slotVars
<1>7. QED
  BY <1>1, <1>2, <1>3, <1>4, <1>5, <1>6 DEF SlotsNext, FinishTask

\* The pool is first come, first served, whatever aborts in between.
THEOREM NobodyOvertakes == SlotsSpec => NoOvertaking
<1>1. SlotsIInv /\ [SlotsNext]_slotVars
        => [\A t, u \in Tasks :
              /\ phase[u] = "waiting" /\ phase'[u] = "waiting"
              /\ t \notin Holders /\ t \in Holders'
              => t \in ahead[u]]_slotVars
  BY StepKeepsTurn
<1>2. QED
  BY <1>1, SlotsInvariant, PTL DEF SlotsSpec, NoOvertaking

----------------------------------------------------------------------------

\* The initial states map to initial states of SlotPool.
LEMMA PoolInitHolds == SlotsInit => Pool!PoolInit
  BY DEF SlotsInit, Pool!PoolInit, Holders

\* A call only moves forward, whatever the step.
LEMMA StepGoesForward ==
  ASSUME SlotsIInv, [SlotsNext]_slotVars, NEW t \in Tasks
  PROVE  /\ phase[t] = "waiting" =>
              phase'[t] \in {"waiting", "granted", "running", "finished", "rejected"}
         /\ phase[t] \in {"granted", "running"} =>
              phase'[t] \in {"granted", "running", "finished", "rejected"}
         /\ phase[t] \in {"finished", "rejected"} => phase'[t] \in {"finished", "rejected"}
<1>a. SlotsTypeOK /\ QueueAgrees
  BY DEF SlotsIInv
<1>1. CASE \E u \in Tasks : AcquireRefused(u) \/ AcquireFree(u) \/ AcquireWait(u) \/ StartTask(u)
  BY <1>1, <1>a DEF AcquireRefused, AcquireFree, AcquireWait, StartTask, SlotsTypeOK
<1>2. CASE \E s \in Signals : AbortWaiters(s)
  BY <1>2, <1>a DEF AbortWaiters, SettleWait, SlotsTypeOK
<1>3. CASE \E u \in Tasks : FinishTask(u)
  BY <1>3, <1>a DEF FinishTask, ReleaseToPool, ReleaseToWaiter, SettleWait, SlotsTypeOK
<1>4. CASE UNCHANGED slotVars
  BY <1>4 DEF slotVars
<1>5. QED
  BY <1>1, <1>2, <1>3, <1>4 DEF SlotsNext

\* The invariant is what the pool owes: within the count, and full when
\* somebody waits.
LEMMA InvariantConserves ==
  SlotsIInv => Pool!WorkConserving({t \in Tasks : phase[t] = "waiting"}, Holders)
<1> SUFFICES ASSUME SlotsIInv
             PROVE  Pool!WorkConserving({t \in Tasks : phase[t] = "waiting"}, Holders)
  OBVIOUS
<1>1. Cardinality(Holders) \in Nat
  BY HoldersFinite
<1>2. Pool!Cardinality(Holders) = Cardinality(Holders)
  BY DEF Pool!Cardinality, Cardinality
<1>3. QED
  BY <1>1, <1>2, WorkerSlotsAssumption
     DEF SlotsIInv, SlotsTypeOK, SlotsConserved, QueueAgrees, Pool!WorkConserving

\* Every step of the pool with its queue, hand-off and abort is a step of
\* SlotPool or a stutter.
THEOREM PoolRefinement == SlotsSpec => Pool!PoolSpec
<1>1. SlotsIInv /\ SlotsIInv' /\ [SlotsNext]_slotVars => [Pool!PoolNext]_(Pool!poolVars)
  <2> SUFFICES ASSUME SlotsIInv, SlotsIInv', [SlotsNext]_slotVars
               PROVE  Pool!PoolNext
    OBVIOUS
  <2>1. Pool!Forward
    BY StepGoesForward DEF Pool!Forward, Holders
  <2>2. Pool!WorkConserving({t \in Tasks : phase[t] = "waiting"}, Holders)'
    BY InvariantConserves, PTL
  <2>3. QED
    BY <2>1, <2>2 DEF Pool!PoolNext, Holders, Pool!WorkConserving
<1>2. QED
  BY <1>1, PoolInitHolds, SlotsInvariant, PTL DEF SlotsSpec, Pool!PoolSpec

----------------------------------------------------------------------------
(* The calls *)

\* How far a call is, its process and its promise agree.
CallAgrees ==
  \A t \in Tasks :
    /\ phase[t] \in {"new", "waiting", "granted", "rejected"} =>
         child[t] = "none" /\ outcome[t] = "pending" /\ t \notin didKillForSize
    /\ phase[t] = "finished" => outcome[t] # "pending"
    /\ child[t] = "alive" => outcome[t] = "pending" /\ t \notin didKillForSize
    /\ child[t] \in {"exited", "reaped"} => outcome[t] # "pending"
    /\ child[t] = "killed" /\ outcome[t] = "pending" => t \in didKillForSize
    /\ t \in didKillForSize => child[t] \in {"killed", "reaped"}
    /\ outcome[t] \in OwnAnswers => child[t] = "exited" /\ t \notin didKillForSize

\* A listener is dropped when its signal fires.
ListenersUnfired == \A t \in onAborts : SignalOf[t] \notin aborted

SpawnIInv == SlotsTypeOK /\ QueueAgrees /\ TypeOK /\ CallAgrees /\ ListenersExact /\ ListenersUnfired

\* ListenersExact, call by call.
CallListens ==
  \A t \in Tasks :
    /\ t \in onAborts <=>
         child[t] # "none" /\ outcome[t] = "pending" /\ SignalOf[t] # NoSignal
    /\ child[t] # "none" /\ outcome[t] = "pending" => t \in timeoutHandles
    /\ t \in timeoutHandles =>
         \/ child[t] # "none" /\ outcome[t] = "pending"
         \/ child[t] \in {"unborn", "killed"}

\* Speaking of the listeners as sets or call by call is the same.
LEMMA ListenersByCall ==
  onAborts \subseteq Tasks /\ timeoutHandles \subseteq Tasks => (ListenersExact <=> CallListens)
  BY DEF ListenersExact, CallListens, Spawned

\* A spawn never disturbs the pool: every step is a step of WorkerSlots.
LEMMA StepIsSlotStep == [Next]_vars => [SlotsNext]_slotVars
<1>1. ASSUME NEW t \in Tasks,
             Acquire(t) \/ SkipTask(t) \/ RefuseTask(t) \/ SpawnTask(t) \/ FinishSpawn(t)
      PROVE  SlotsNext
  BY <1>1 DEF Acquire, SkipTask, RefuseTask, SpawnTask, FinishSpawn, SlotsNext
<1>2. ASSUME NEW t \in Tasks, Timeout(t) \/ TooLarge(t) \/ Close(t)
      PROVE  UNCHANGED slotVars
  BY <1>2 DEF Timeout, TooLarge, Close
<1>3. ASSUME NEW s \in Signals, Abort(s) PROVE SlotsNext
  BY <1>3 DEF Abort, SlotsNext
<1>4. CASE UNCHANGED vars
  BY <1>4 DEF vars
<1>5. QED
  BY <1>1, <1>2, <1>3, <1>4 DEF Next

\* The calls of spawnOxlint are tasks of the pool, so that everything proved of
\* the pool holds for them.
THEOREM SpawnsAreTasks == Spec => SlotsSpec
<1>1. Init => SlotsInit
  BY DEF Init
<1>2. QED
  BY <1>1, StepIsSlotStep, PTL DEF Spec, SlotsSpec

\* Nothing is spawned to begin with.
LEMMA SpawnInitIInv == Init => SpawnIInv
<1> SUFFICES ASSUME Init PROVE SpawnIInv
  OBVIOUS
<1>1. SlotsIInv
  BY SlotsInitIInv DEF Init
<1>2. TypeOK
  BY <1>1 DEF Init, TypeOK, SlotsIInv, ChildStates, Outcomes
<1>3. CallAgrees
  BY DEF Init, SlotsInit, CallAgrees, OwnAnswers
<1>4. ListenersExact /\ ListenersUnfired
  BY DEF Init, ListenersExact, ListenersUnfired, Spawned
<1>5. QED
  BY <1>1, <1>2, <1>3, <1>4 DEF SpawnIInv, SlotsIInv

\* What a step of the pool does to the phases of the calls.
LEMMA SlotStepPhases ==
  ASSUME SlotsTypeOK, QueueAgrees, NEW t \in Tasks, NEW u \in Tasks
  PROVE  /\ AcquireRefused(t) \/ AcquireFree(t) \/ AcquireWait(t) =>
              /\ aborted' = aborted
              /\ IF u = t THEN /\ phase[u] = "new"
                               /\ phase'[u] \in {"rejected", "granted", "waiting"}
                 ELSE phase'[u] = phase[u]
         /\ StartTask(t) =>
              /\ aborted' = aborted
              /\ IF u = t THEN phase[u] = "granted" /\ phase'[u] = "running"
                 ELSE phase'[u] = phase[u]
         /\ FinishTask(t) =>
              /\ aborted' = aborted
              /\ IF u = t THEN phase[u] = "running" /\ phase'[u] = "finished"
                 ELSE \/ phase'[u] = phase[u]
                      \/ phase[u] = "waiting" /\ phase'[u] = "granted"
<1>1. AcquireRefused(t) \/ AcquireFree(t) \/ AcquireWait(t) =>
        /\ aborted' = aborted
        /\ IF u = t THEN phase[u] = "new" /\ phase'[u] \in {"rejected", "granted", "waiting"}
           ELSE phase'[u] = phase[u]
  BY DEF AcquireRefused, AcquireFree, AcquireWait, SlotsTypeOK
<1>2. StartTask(t) =>
        /\ aborted' = aborted
        /\ IF u = t THEN phase[u] = "granted" /\ phase'[u] = "running" ELSE phase'[u] = phase[u]
  BY DEF StartTask, SlotsTypeOK
<1>3. FinishTask(t) =>
        /\ aborted' = aborted
        /\ IF u = t THEN phase[u] = "running" /\ phase'[u] = "finished"
           ELSE \/ phase'[u] = phase[u]
                \/ phase[u] = "waiting" /\ phase'[u] = "granted"
  BY DEF FinishTask, ReleaseToPool, ReleaseToWaiter, SettleWait, SlotsTypeOK, QueueAgrees
<1>4. QED
  BY <1>1, <1>2, <1>3

----------------------------------------------------------------------------

\* The per-call invariant is kept by every step, one lemma per kind of step.
LEMMA AcquireKeepsSpawn ==
  ASSUME SpawnIInv, NEW t \in Tasks, Acquire(t)
  PROVE  CallAgrees' /\ CallListens' /\ ListenersUnfired'
<1>a. SlotsTypeOK /\ QueueAgrees /\ TypeOK /\ CallAgrees /\ CallListens /\ ListenersUnfired
  BY ListenersByCall DEF SpawnIInv, TypeOK
<1>1. UNCHANGED <<child, timeoutHandles, onAborts, didKillForSize, outcome>>
  BY DEF Acquire, spawnVars
<1>2. \A u \in Tasks :
        /\ phase'[u] = "finished" => phase[u] = "finished"
        /\ phase'[u] \in {"new", "waiting", "granted", "rejected"} =>
             phase[u] \in {"new", "waiting", "granted", "rejected"}
  BY <1>a, SlotStepPhases DEF Acquire
<1>3. aborted' = aborted
  BY <1>a, SlotStepPhases DEF Acquire
<1>4. CallAgrees'
  BY <1>a, <1>1, <1>2 DEF CallAgrees
<1>5. CallListens' /\ ListenersUnfired'
  BY <1>a, <1>1, <1>3 DEF CallListens, ListenersUnfired
<1>6. QED
  BY <1>4, <1>5

\* The three ways a granted call begins.
LEMMA CallKeepsSpawn ==
  ASSUME SpawnIInv, NEW t \in Tasks, SkipTask(t) \/ RefuseTask(t) \/ SpawnTask(t)
  PROVE  CallAgrees' /\ CallListens' /\ ListenersUnfired'
<1>a. SlotsTypeOK /\ QueueAgrees /\ TypeOK /\ CallAgrees /\ CallListens /\ ListenersUnfired
  BY ListenersByCall DEF SpawnIInv, TypeOK
<1>b. StartTask(t)
  BY DEF SkipTask, RefuseTask, SpawnTask
<1>1. /\ aborted' = aborted
      /\ phase[t] = "granted" /\ phase'[t] = "running"
      /\ \A u \in Tasks : u # t => phase'[u] = phase[u]
  BY <1>a, <1>b, SlotStepPhases
<1>2. child[t] = "none" /\ outcome[t] = "pending" /\ t \notin didKillForSize
  BY <1>a, <1>1 DEF CallAgrees
<1>3. t \notin timeoutHandles /\ t \notin onAborts
  BY <1>2, <1>a DEF CallListens
<1>4. CASE SkipTask(t) \/ RefuseTask(t)
  <2>1. /\ UNCHANGED <<child, timeoutHandles, onAborts, didKillForSize>>
        /\ \A u \in Tasks : u # t => outcome'[u] = outcome[u]
        /\ outcome'[t] \in {"skipped", "aborted"}
    BY <1>4, <1>2, <1>a DEF SkipTask, RefuseTask, Settle, TypeOK
  <2>2. CallAgrees'
    BY <2>1, <1>1, <1>2, <1>a DEF CallAgrees, OwnAnswers
  <2>3. CallListens' /\ ListenersUnfired'
    BY <2>1, <1>1, <1>2, <1>3, <1>a DEF CallListens, ListenersUnfired
  <2>4. QED
    BY <2>2, <2>3
<1>5. CASE SpawnTask(t)
  <2>1. /\ UNCHANGED <<didKillForSize, outcome>>
        /\ child'[t] \in {"alive", "unborn"}
        /\ \A u \in Tasks : u # t => child'[u] = child[u]
        /\ onAborts' = IF SignalOf[t] = NoSignal THEN onAborts ELSE onAborts \cup {t}
        /\ timeoutHandles' = timeoutHandles \cup {t}
        /\ SignalOf[t] \notin aborted
    BY <1>5, <1>a DEF SpawnTask, TypeOK
  <2>2. CallAgrees'
    BY <2>1, <1>1, <1>2, <1>a DEF CallAgrees
  <2>3. CallListens'
    BY <2>1, <1>2, <1>3, <1>a DEF CallListens
  <2>4. ListenersUnfired'
    BY <2>1, <1>1, <1>a DEF ListenersUnfired
  <2>5. QED
    BY <2>2, <2>3, <2>4
<1>6. QED
  BY <1>4, <1>5

\* The slot is given back after the promise has settled.
LEMMA FinishKeepsSpawn ==
  ASSUME SpawnIInv, NEW t \in Tasks, FinishSpawn(t)
  PROVE  CallAgrees' /\ CallListens' /\ ListenersUnfired'
<1>a. SlotsTypeOK /\ QueueAgrees /\ TypeOK /\ CallAgrees /\ CallListens /\ ListenersUnfired
  BY ListenersByCall DEF SpawnIInv, TypeOK
<1>1. UNCHANGED <<child, timeoutHandles, onAborts, didKillForSize, outcome>>
  BY DEF FinishSpawn, spawnVars
<1>2. /\ aborted' = aborted
      /\ \A u \in Tasks :
           IF u = t THEN phase'[u] = "finished"
           ELSE phase'[u] = phase[u] \/ (phase[u] = "waiting" /\ phase'[u] = "granted")
  BY <1>a, SlotStepPhases DEF FinishSpawn
<1>3. outcome[t] # "pending"
  BY DEF FinishSpawn
<1>4. CallAgrees'
  BY <1>a, <1>1, <1>2, <1>3 DEF CallAgrees
<1>5. CallListens' /\ ListenersUnfired'
  BY <1>a, <1>1, <1>2 DEF CallListens, ListenersUnfired
<1>6. QED
  BY <1>4, <1>5

\* The timer fires.
LEMMA TimeoutKeepsSpawn ==
  ASSUME SpawnIInv, NEW t \in Tasks, Timeout(t)
  PROVE  CallAgrees' /\ CallListens' /\ ListenersUnfired'
<1>a. SlotsTypeOK /\ QueueAgrees /\ TypeOK /\ CallAgrees /\ CallListens /\ ListenersUnfired
  BY ListenersByCall DEF SpawnIInv, TypeOK
<1>1. /\ UNCHANGED <<phase, aborted, didKillForSize>>
      /\ timeoutHandles' = timeoutHandles \ {t} /\ onAborts' = onAborts \ {t}
      /\ \A u \in Tasks : u # t => child'[u] = child[u] /\ outcome'[u] = outcome[u]
      /\ child'[t] = IF child[t] = "alive" THEN "killed" ELSE child[t]
      /\ outcome'[t] = IF outcome[t] = "pending" THEN "timeout" ELSE outcome[t]
  BY <1>a DEF Timeout, slotVars, Kill, Settle, TypeOK
<1>0. child[t] # "none"
  BY <1>a DEF Timeout, CallListens
<1>2. CallAgrees'
  BY <1>0, <1>1, <1>a DEF CallAgrees, OwnAnswers
<1>3. CallListens' /\ ListenersUnfired'
  BY <1>1, <1>a DEF CallListens, ListenersUnfired
<1>4. QED
  BY <1>2, <1>3

\* The output goes over the limit.
LEMMA TooLargeKeepsSpawn ==
  ASSUME SpawnIInv, NEW t \in Tasks, TooLarge(t)
  PROVE  CallAgrees' /\ CallListens' /\ ListenersUnfired'
<1>a. SlotsTypeOK /\ QueueAgrees /\ TypeOK /\ CallAgrees /\ CallListens /\ ListenersUnfired
  BY ListenersByCall DEF SpawnIInv, TypeOK
<1>1. /\ UNCHANGED <<phase, aborted, timeoutHandles, onAborts, outcome>>
      /\ didKillForSize' = didKillForSize \cup {t}
      /\ \A u \in Tasks : u # t => child'[u] = child[u]
      /\ child[t] \in {"alive", "killed"} /\ child'[t] = "killed"
  BY <1>a DEF TooLarge, slotVars, Kill, TypeOK
<1>2. CallAgrees'
  BY <1>1, <1>a DEF CallAgrees
<1>3. CallListens' /\ ListenersUnfired'
  BY <1>1, <1>a DEF CallListens, ListenersUnfired
<1>4. QED
  BY <1>2, <1>3

\* The error or the close event arrives.
LEMMA CloseKeepsSpawn ==
  ASSUME SpawnIInv, NEW t \in Tasks, Close(t)
  PROVE  CallAgrees' /\ CallListens' /\ ListenersUnfired'
<1>a. SlotsTypeOK /\ QueueAgrees /\ TypeOK /\ CallAgrees /\ CallListens /\ ListenersUnfired
  BY ListenersByCall DEF SpawnIInv, TypeOK
<1>1. PICK answer \in CloseAnswers(t) : outcome' = Settle({t}, answer)
  BY DEF Close
<1>2. /\ UNCHANGED <<phase, aborted, didKillForSize>>
      /\ timeoutHandles' = timeoutHandles \ {t} /\ onAborts' = onAborts \ {t}
      /\ \A u \in Tasks : u # t => child'[u] = child[u] /\ outcome'[u] = outcome[u]
      /\ child[t] \in {"unborn", "alive", "killed"}
      /\ child'[t] = IF child[t] = "killed" THEN "reaped" ELSE "exited"
      /\ outcome'[t] = IF outcome[t] = "pending" THEN answer ELSE outcome[t]
  BY <1>1, <1>a DEF Close, slotVars, Settle, TypeOK
<1>3. /\ answer # "pending"
      /\ answer \in OwnAnswers => child[t] # "unborn" /\ t \notin didKillForSize
  BY <1>1 DEF CloseAnswers, OwnAnswers
<1>4. CallAgrees'
  BY <1>2, <1>3, <1>a DEF CallAgrees
<1>5. CallListens' /\ ListenersUnfired'
  BY <1>2, <1>3, <1>a DEF CallListens, ListenersUnfired
<1>6. QED
  BY <1>4, <1>5

\* The signal of a scan fires.
LEMMA AbortKeepsSpawn ==
  ASSUME SpawnIInv, NEW s \in Signals, Abort(s)
  PROVE  CallAgrees' /\ CallListens' /\ ListenersUnfired'
<1> DEFINE reached == {t \in onAborts : SignalOf[t] = s}
<1>a. SlotsTypeOK /\ QueueAgrees /\ TypeOK /\ CallAgrees /\ CallListens /\ ListenersUnfired
  BY ListenersByCall DEF SpawnIInv, TypeOK
<1>1. /\ aborted' = aborted \cup {s}
      /\ \A u \in Tasks : \/ phase'[u] = phase[u]
                          \/ phase[u] = "waiting" /\ phase'[u] = "rejected"
  BY DEF Abort, AbortWaiters, SettleWait
<1>2. /\ UNCHANGED <<timeoutHandles, didKillForSize>>
      /\ onAborts' = onAborts \ reached
      /\ \A u \in Tasks :
           IF u \in reached
           THEN /\ child'[u] = IF child[u] = "alive" THEN "killed" ELSE child[u]
                /\ outcome'[u] = IF outcome[u] = "pending" THEN "aborted" ELSE outcome[u]
           ELSE child'[u] = child[u] /\ outcome'[u] = outcome[u]
  BY <1>a DEF Abort, Kill, Settle, TypeOK
<1>3. \A u \in reached : child[u] # "none" /\ outcome[u] = "pending"
  BY <1>a DEF CallListens, TypeOK
<1>4. CallAgrees'
  BY <1>1, <1>2, <1>3, <1>a DEF CallAgrees, OwnAnswers
<1>5. CallListens'
  BY <1>2, <1>3, <1>a DEF CallListens, CallAgrees, TypeOK, ChildStates
<1>6. ListenersUnfired'
  BY <1>1, <1>2, <1>a DEF ListenersUnfired
<1>7. QED
  BY <1>4, <1>5, <1>6

\* The types of the variables of this module.
LEMMA StepKeepsTypes ==
  ASSUME SpawnIInv, SlotsTypeOK', Next
  PROVE  TypeOK'
<1>a. TypeOK
  BY DEF SpawnIInv
<1>1. ASSUME NEW t \in Tasks, Acquire(t) \/ FinishSpawn(t) PROVE TypeOK'
  BY <1>1, <1>a DEF Acquire, FinishSpawn, spawnVars, TypeOK
<1>2. ASSUME NEW t \in Tasks, SkipTask(t) \/ RefuseTask(t) \/ SpawnTask(t) PROVE TypeOK'
  BY <1>2, <1>a DEF SkipTask, RefuseTask, SpawnTask, Settle, TypeOK, ChildStates, Outcomes
<1>3. ASSUME NEW t \in Tasks, Timeout(t) \/ TooLarge(t) PROVE TypeOK'
  BY <1>3, <1>a DEF Timeout, TooLarge, Settle, Kill, TypeOK, ChildStates, Outcomes
<1>4. ASSUME NEW t \in Tasks, Close(t) PROVE TypeOK'
  BY <1>4, <1>a DEF Close, CloseAnswers, Settle, TypeOK, ChildStates, Outcomes
<1>5. ASSUME NEW s \in Signals, Abort(s) PROVE TypeOK'
  BY <1>5, <1>a DEF Abort, Settle, Kill, TypeOK, ChildStates, Outcomes
<1>6. QED
  BY <1>1, <1>2, <1>3, <1>4, <1>5 DEF Next

\* Every step keeps the invariant; what it does to the slots is known already.
LEMMA SpawnNextIInv ==
  ASSUME SpawnIInv, [Next]_vars, SlotsIInv'
  PROVE  SpawnIInv'
<1>0. SlotsTypeOK' /\ QueueAgrees'
  BY DEF SlotsIInv
<1>1. CASE Next
  <2>1. TypeOK'
    BY <1>0, <1>1, StepKeepsTypes
  <2>2. CallAgrees' /\ CallListens' /\ ListenersUnfired'
    BY <1>1, AcquireKeepsSpawn, CallKeepsSpawn, FinishKeepsSpawn, TimeoutKeepsSpawn,
       TooLargeKeepsSpawn, CloseKeepsSpawn, AbortKeepsSpawn DEF Next
  <2>3. (onAborts \subseteq Tasks /\ timeoutHandles \subseteq Tasks => (ListenersExact <=> CallListens))'
    BY ListenersByCall, PTL
  <2>4. ListenersExact'
    BY <2>1, <2>2, <2>3 DEF TypeOK
  <2>5. QED
    BY <1>0, <2>1, <2>2, <2>4 DEF SpawnIInv
<1>2. CASE UNCHANGED vars
  BY <1>2 DEF vars, slotVars, spawnVars, SpawnIInv, SlotsTypeOK, QueueAgrees, TypeOK, CallAgrees,
              ListenersExact, ListenersUnfired, Spawned
<1>3. QED
  BY <1>1, <1>2

\* Every reachable state of the spawns satisfies the inductive invariant.
THEOREM SpawnInvariant == Spec => []SpawnIInv
<1>1. Spec => []SlotsIInv
  BY SpawnsAreTasks, SlotsInvariant, PTL
<1>2. SpawnIInv /\ [Next]_vars /\ SlotsIInv' => SpawnIInv'
  BY SpawnNextIInv
<1>3. QED
  BY <1>1, <1>2, SpawnInitIInv, PTL DEF Spec

\* OxlintSpawn is type correct.
THEOREM SpawnTypeCorrect == Spec => []TypeOK
<1>1. SpawnIInv => TypeOK
  BY DEF SpawnIInv
<1>2. QED
  BY <1>1, SpawnInvariant, PTL

\* Each settle path drops its listener and no other, and a pending call keeps
\* the timer that will end it.
THEOREM ListenersAreExact == Spec => []ListenersExact
<1>1. SpawnIInv => ListenersExact
  BY DEF SpawnIInv
<1>2. QED
  BY <1>1, SpawnInvariant, PTL

\* A process that we killed is never reported as one that ended by itself.
THEOREM OwnKillsAreNamed == Spec => []OwnKillsNamed
<1>1. SpawnIInv => OwnKillsNamed
  BY DEF SpawnIInv, CallAgrees, OwnKillsNamed
<1>2. QED
  BY <1>1, SpawnInvariant, PTL

\* An abort leaves no process of its scan alive and lets none be spawned.
THEOREM AbortAlwaysReclaims == Spec => []AbortReclaims
<1>1. SpawnIInv => AbortReclaims
  <2> SUFFICES ASSUME SpawnIInv, NEW t \in Unkilled PROVE SignalOf[t] \notin aborted
    BY DEF AbortReclaims
  <2>1. t \in Tasks /\ child[t] = "alive" /\ outcome[t] = "pending"
    BY DEF SpawnIInv, CallAgrees, Unkilled
  <2>2. SignalOf[t] # NoSignal => t \in onAborts
    BY <2>1 DEF SpawnIInv, ListenersExact, Spawned
  <2>3. aborted \subseteq Signals
    BY DEF SpawnIInv, SlotsTypeOK
  <2>4. QED
    BY <2>2, <2>3, WorkerSlotsAssumption DEF SpawnIInv, ListenersUnfired
<1>2. QED
  BY <1>1, SpawnInvariant, PTL

\* The processes that nobody has killed are never more than the slots.
THEOREM ProcessesAreBounded == Spec => []ProcessesBounded
<1>1. SpawnIInv /\ SlotsIInv => ProcessesBounded
  <2> SUFFICES ASSUME SpawnIInv, SlotsIInv PROVE ProcessesBounded
    OBVIOUS
  <2>1. Unkilled \subseteq Holders
    BY DEF SpawnIInv, CallAgrees, Unkilled, Holders, SlotsTypeOK, Phases
  <2>2. IsFiniteSet(Holders) /\ Cardinality(Holders) \in Nat
    BY HoldersFinite
  <2>3. Cardinality(Unkilled) <= Cardinality(Holders) /\ Cardinality(Unkilled) \in Nat
    BY <2>1, <2>2, FS_Subset, FS_CardinalityType
  <2>4. Cardinality(Holders) <= SlotCount
    BY <2>2, WorkerSlotsAssumption DEF SlotsIInv, SlotsTypeOK, SlotsConserved
  <2>5. QED
    BY <2>1, <2>2, <2>3, <2>4, WorkerSlotsAssumption DEF ProcessesBounded
<1>2. Spec => []SlotsIInv
  BY SpawnsAreTasks, SlotsInvariant, PTL
<1>3. QED
  BY <1>1, <1>2, SpawnInvariant, PTL

=============================================================================
