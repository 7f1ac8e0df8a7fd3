---------------------------- MODULE WorkerSlots ----------------------------
(***************************************************************************)
(* createWorkerSlots of packages/core/src/utils/create-worker-slots.ts:    *)
(* the FIFO pool of slots that every oxlint spawn and every project        *)
(* analysis worker of one process goes through.  A task is one call of     *)
(* run(task, abortSignal).  A slot that is given back goes straight to the *)
(* first waiter; the free count is raised only when nobody waits.          *)
(*                                                                         *)
(* JavaScript runs one callback at a time, so a step here is the code      *)
(* between two awaits.  The array `waiters` of the code is the set of its  *)
(* entries and their order: ahead[t] holds the entries in front of t.      *)
(***************************************************************************)
EXTENDS Integers, FiniteSets

CONSTANTS
  Tasks,      \* the calls of run()
  Signals,    \* the abort signals those calls share (one per scan)
  NoSignal,   \* stands for a call of run() without an abort signal
  SignalOf,   \* the signal each call passes
  SlotCount   \* input.slotCount

ASSUME WorkerSlotsAssumption ==
  /\ IsFiniteSet(Tasks)
  /\ SlotCount \in Nat \ {0}
  /\ NoSignal \notin Signals
  /\ SignalOf \in [Tasks -> Signals \cup {NoSignal}]

VARIABLES
  phase,               \* how far each call of run() is
  availableSlotCount,  \* the free slots
  waiters,             \* the entries of the array `waiters`
  ahead,               \* for each entry, the entries in front of it
  listening,           \* the tasks whose onAbort is registered on their signal
  aborted              \* the signals that have fired

slotVars == <<phase, availableSlotCount, waiters, ahead, listening, aborted>>

Phases == {"new", "waiting", "granted", "running", "finished", "rejected"}

\* The calls that own a slot: acquireSlot has resolved and the finally block
\* of run has not executed.
Holders == {t \in Tasks : phase[t] \in {"granted", "running"}}

SlotsInit ==
  /\ phase = [t \in Tasks |-> "new"]
  /\ availableSlotCount = SlotCount
  /\ waiters = {}
  /\ ahead = [t \in Tasks |-> {}]
  /\ listening = {}
  /\ aborted = {}

\* Settling a promise that is settled already does nothing.
SettleWait(S, outcome) ==
  [t \in Tasks |-> IF t \in S /\ phase[t] = "waiting" THEN outcome ELSE phase[t]]

\* Takes the tasks of S out of `waiters`; the others keep their order.
Dequeue(S) ==
  /\ waiters' = waiters \ S
  /\ ahead' = [t \in Tasks |-> IF t \in S THEN {} ELSE ahead[t] \ S]

----------------------------------------------------------------------------
(* Slips of the kind the checks below have to catch. *)

\* The fast path of acquireSlot without its test of the free count.
MutantAcquireFree(t) ==
  /\ phase[t] = "new"
  /\ SignalOf[t] \notin aborted
  /\ phase' = [phase EXCEPT ![t] = "granted"]
  /\ availableSlotCount' = IF availableSlotCount > 0 THEN availableSlotCount - 1 ELSE 0
  /\ UNCHANGED <<waiters, ahead, listening, aborted>>

\* releaseSlot raises the free count and leaves the queue to the next arrival.
MutantReleaseToWaiter(t, u) ==
  /\ u \in waiters
  /\ ahead[u] = {}
  /\ phase' = [phase EXCEPT ![t] = "finished"]
  /\ availableSlotCount' = availableSlotCount + 1
  /\ UNCHANGED <<waiters, ahead, listening>>

----------------------------------------------------------------------------
(* acquireSlot *)

\* A signal that has already fired refuses the call.
AcquireRefused(t) ==
  /\ phase[t] = "new"
  /\ SignalOf[t] \in aborted
  /\ phase' = [phase EXCEPT ![t] = "rejected"]
  /\ UNCHANGED <<availableSlotCount, waiters, ahead, listening, aborted>>

\* A free slot is taken at once.
AcquireFree(t) ==
  /\ phase[t] = "new"
  /\ SignalOf[t] \notin aborted
  /\ availableSlotCount > 0
  /\ phase' = [phase EXCEPT ![t] = "granted"]
  /\ availableSlotCount' = availableSlotCount - 1
  /\ UNCHANGED <<waiters, ahead, listening, aborted>>

\* No free slot: the call queues and listens for its abort.
AcquireWait(t) ==
  /\ phase[t] = "new"
  /\ SignalOf[t] \notin aborted
  /\ availableSlotCount = 0
  /\ phase' = [phase EXCEPT ![t] = "waiting"]
  /\ waiters' = waiters \cup {t}
  /\ ahead' = [ahead EXCEPT ![t] = waiters]
  /\ listening' = IF SignalOf[t] = NoSignal THEN listening ELSE listening \cup {t}
  /\ UNCHANGED <<availableSlotCount, aborted>>

\* The signal fires: every onAbort registered on it runs in the one dispatch,
\* takes its waiter out of the queue and rejects it.
AbortWaiters(s) ==
  LET leaving == {t \in listening : SignalOf[t] = s} IN
    /\ s \notin aborted
    /\ aborted' = aborted \cup {s}
    /\ phase' = SettleWait(leaving, "rejected")
    /\ Dequeue(leaving)
    /\ listening' = listening \ leaving
    /\ UNCHANGED availableSlotCount

----------------------------------------------------------------------------
(* run *)

\* The continuation of `await acquireSlot(...)`: task() is called.
StartTask(t) ==
  /\ phase[t] = "granted"
  /\ phase' = [phase EXCEPT ![t] = "running"]
  /\ UNCHANGED <<availableSlotCount, waiters, ahead, listening, aborted>>

\* releaseSlot with nobody waiting.
ReleaseToPool(t) ==
  /\ waiters = {}
  /\ phase' = [phase EXCEPT ![t] = "finished"]
  /\ availableSlotCount' = availableSlotCount + 1
  /\ UNCHANGED <<waiters, ahead, listening>>

\* releaseSlot with a queue: the slot goes to the first waiter, whose abort
\* listener is dropped before its promise is resolved.
ReleaseToWaiter(t, u) ==
  /\ u \in waiters
  /\ ahead[u] = {}
  /\ phase' = [SettleWait({u}, "granted") EXCEPT ![t] = "finished"]
  /\ Dequeue({u})
  /\ listening' = listening \ {u}
  /\ UNCHANGED availableSlotCount

\* task() has settled, either way, and the finally block of run executes.
FinishTask(t) ==
  /\ phase[t] = "running"
  /\ \/ ReleaseToPool(t)
     \/ \E u \in Tasks : ReleaseToWaiter(t, u)
  /\ UNCHANGED aborted

----------------------------------------------------------------------------
(* The pool with tasks that settle some time after they start. *)

SlotsNext ==
  \/ \E t \in Tasks :
       \/ AcquireRefused(t) \/ AcquireFree(t) \/ AcquireWait(t)
       \/ StartTask(t) \/ FinishTask(t)
  \/ \E s \in Signals : AbortWaiters(s)

\* A resolved promise runs its continuation, and a task settles: spawnOxlint
\* has its spawn timeout, an analysis worker its phase timeout.
SlotsFairness ==
  \A t \in Tasks : WF_slotVars(StartTask(t)) /\ WF_slotVars(FinishTask(t))

SlotsSpec == SlotsInit /\ [][SlotsNext]_slotVars

FairSlotsSpec == SlotsSpec /\ SlotsFairness

----------------------------------------------------------------------------
(* Properties *)

\* The types; the free count stays between zero and slotCount.
SlotsTypeOK ==
  /\ phase \in [Tasks -> Phases]
  /\ availableSlotCount \in 0..SlotCount
  /\ waiters \in SUBSET Tasks
  /\ ahead \in [Tasks -> SUBSET Tasks]
  /\ listening \in SUBSET Tasks
  /\ aborted \in SUBSET Signals

\* No slot is lost and none is invented: the free slots and the calls that own
\* one always add up to slotCount, across hand-offs and aborts in any order,
\* and a slot is free only when nobody waits for it.
SlotsConserved ==
  /\ availableSlotCount + Cardinality(Holders) = SlotCount
  /\ availableSlotCount > 0 => waiters = {}

\* The array, the promises and the listeners agree: exactly the calls whose
\* wait is pending are queued, those of them with a signal listen to it and
\* nothing else does, and nobody waits on a signal that has already fired.
QueueAgrees ==
  /\ waiters = {t \in Tasks : phase[t] = "waiting"}
  /\ listening = {t \in waiters : SignalOf[t] # NoSignal}
  /\ \A t \in waiters : SignalOf[t] \notin aborted

\* Nobody overtakes: while u stays in the queue, a slot goes only to calls that
\* queued before u, never to a later one or to a fresh arrival.
NoOvertaking ==
  [][\A t, u \in Tasks :
       /\ phase[u] = "waiting" /\ phase'[u] = "waiting"
       /\ t \notin Holders /\ t \in Holders'
       => t \in ahead[u]]_slotVars

\* The pool seen as SlotPool sees it.
Pool == INSTANCE SlotPool WITH
  asking <- {t \in Tasks : phase[t] = "waiting"},
  holding <- Holders,
  closed <- {t \in Tasks : phase[t] \in {"finished", "rejected"}}

\* createWorkerSlots implements SlotPool: at most slotCount calls hold a slot, a
\* call waits only while all are taken, and every call that waits is answered.
ImplementsSlotPool == Pool!FairPoolSpec

=============================================================================
