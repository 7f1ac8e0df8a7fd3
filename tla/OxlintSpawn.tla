---------------------------- MODULE OxlintSpawn ----------------------------
(***************************************************************************)
(* spawnOxlint of packages/core/src/runners/oxlint/spawn-oxlint.ts, run    *)
(* under the slots of WorkerSlots as spawnLintBatch does: one oxlint child *)
(* process per call, with a timeout, an output limit and the abort signal  *)
(* of its scan.  All the ways a call can settle race with each other; the  *)
(* promise keeps the first.                                                *)
(*                                                                         *)
(* The child and Node's ChildProcess are external: a child that is not     *)
(* killed may run for ever, and a killed one is closed some time later.    *)
(***************************************************************************)
EXTENDS WorkerSlots

VARIABLES
  child,           \* the process of each call
  timeoutHandles,  \* the calls whose timer is armed
  onAborts,        \* the calls whose onAbort is registered on their signal
  didKillForSize,  \* the calls whose output went over the limit
  outcome          \* how the promise settled

spawnVars == <<child, timeoutHandles, onAborts, didKillForSize, outcome>>
vars == <<slotVars, spawnVars>>

\* "unborn": spawn failed and the error event is due.  A killed process is
\* "reaped" when it closes, one that ended by itself has "exited".
ChildStates == {"none", "unborn", "alive", "killed", "reaped", "exited"}

\* The answers a process gives by itself when it closes.
OwnAnswers == {"output", "oom", "killed", "stderr only"}

Outcomes == OwnAnswers \cup
  {"pending", "skipped", "aborted", "timeout", "output-too-large", "spawn error"}

Spawned == {t \in Tasks : child[t] # "none"}

Init ==
  /\ SlotsInit
  /\ child = [t \in Tasks |-> "none"]
  /\ timeoutHandles = {}
  /\ onAborts = {}
  /\ didKillForSize = {}
  /\ outcome = [t \in Tasks |-> "pending"]

\* resolve and reject: only the first counts.
Settle(S, answer) ==
  [t \in Tasks |-> IF t \in S /\ outcome[t] = "pending" THEN answer ELSE outcome[t]]

\* child.kill("SIGKILL"), of no effect on a process that is gone.
Kill(S) ==
  [t \in Tasks |-> IF t \in S /\ child[t] = "alive" THEN "killed" ELSE child[t]]

----------------------------------------------------------------------------
(* Slips of the kind the checks below have to catch. *)

\* The timer rejects and leaves the process to end by itself.
MutantTimeout(t) ==
  /\ t \in timeoutHandles
  /\ timeoutHandles' = timeoutHandles \ {t}
  /\ onAborts' = onAborts \ {t}
  /\ child' = child
  /\ outcome' = Settle({t}, "timeout")
  /\ UNCHANGED <<slotVars, didKillForSize>>

\* spawnOxlint without the look at a signal that has fired already.
MutantSpawnTask(t) ==
  /\ StartTask(t)
  /\ child' = [child EXCEPT ![t] = "alive"]
  /\ timeoutHandles' = timeoutHandles \cup {t}
  /\ onAborts' = IF SignalOf[t] = NoSignal THEN onAborts ELSE onAborts \cup {t}
  /\ UNCHANGED <<didKillForSize, outcome>>

\* The close handler without its first test.
MutantCloseAnswers(t) ==
  IF child[t] = "unborn" THEN {"spawn error"} ELSE OwnAnswers

\* The timer is left out where the signal is taken to bound the call.
MutantSpawnUntimed(t) ==
  /\ StartTask(t)
  /\ SignalOf[t] \notin aborted
  /\ \E born \in {"alive", "unborn"} : child' = [child EXCEPT ![t] = born]
  /\ onAborts' = IF SignalOf[t] = NoSignal THEN onAborts ELSE onAborts \cup {t}
  /\ timeoutHandles' = IF SignalOf[t] = NoSignal THEN timeoutHandles \cup {t} ELSE timeoutHandles
  /\ UNCHANGED <<didKillForSize, outcome>>

----------------------------------------------------------------------------
(* The call *)

\* The deadline passed while the call waited for its slot: nothing is spawned.
SkipTask(t) ==
  /\ StartTask(t)
  /\ outcome' = Settle({t}, "skipped")
  /\ UNCHANGED <<child, timeoutHandles, onAborts, didKillForSize>>

\* The signal fired before the call: nothing is spawned.
RefuseTask(t) ==
  /\ StartTask(t)
  /\ SignalOf[t] \in aborted
  /\ outcome' = Settle({t}, "aborted")
  /\ UNCHANGED <<child, timeoutHandles, onAborts, didKillForSize>>

\* The process is spawned, or fails to be, and the listener and the timer are
\* set up either way.
SpawnTask(t) ==
  /\ StartTask(t)
  /\ SignalOf[t] \notin aborted
  /\ \E born \in {"alive", "unborn"} : child' = [child EXCEPT ![t] = born]
  /\ onAborts' = IF SignalOf[t] = NoSignal THEN onAborts ELSE onAborts \cup {t}
  /\ timeoutHandles' = timeoutHandles \cup {t}
  /\ UNCHANGED <<didKillForSize, outcome>>

----------------------------------------------------------------------------
(* The events *)

\* The timer: the listener is dropped, the process killed, the call rejected.
Timeout(t) ==
  /\ t \in timeoutHandles
  /\ timeoutHandles' = timeoutHandles \ {t}
  /\ onAborts' = onAborts \ {t}
  /\ child' = Kill({t})
  /\ outcome' = Settle({t}, "timeout")
  /\ UNCHANGED <<slotVars, didKillForSize>>

\* The signal fires: the waiters leave the queue, and every process spawned
\* under it is killed and its call rejected.  The timers stay armed.
Abort(s) ==
  LET reached == {t \in onAborts : SignalOf[t] = s} IN
    /\ AbortWaiters(s)
    /\ onAborts' = onAborts \ reached
    /\ child' = Kill(reached)
    /\ outcome' = Settle(reached, "aborted")
    /\ UNCHANGED <<timeoutHandles, didKillForSize>>

\* A data event takes the output over the limit: the process is killed and the
\* call settles when it closes.
TooLarge(t) ==
  /\ child[t] \in {"alive", "killed"}
  /\ t \notin didKillForSize
  /\ didKillForSize' = didKillForSize \cup {t}
  /\ child' = Kill({t})
  /\ UNCHANGED <<slotVars, timeoutHandles, onAborts, outcome>>

\* What the error handler, or the close handler, settles the call with.
CloseAnswers(t) ==
  IF child[t] = "unborn" THEN {"spawn error"}
  ELSE IF t \in didKillForSize THEN {"output-too-large"}
  ELSE OwnAnswers

\* The error event of a spawn that failed, or the close event of a process.
Close(t) ==
  /\ child[t] \in {"unborn", "alive", "killed"}
  /\ child' = [child EXCEPT ![t] = IF @ = "killed" THEN "reaped" ELSE "exited"]
  /\ timeoutHandles' = timeoutHandles \ {t}
  /\ onAborts' = onAborts \ {t}
  /\ \E answer \in CloseAnswers(t) : outcome' = Settle({t}, answer)
  /\ UNCHANGED <<slotVars, didKillForSize>>

\* The promise has settled, and run gives its slot back.
FinishSpawn(t) ==
  /\ outcome[t] # "pending"
  /\ FinishTask(t)
  /\ UNCHANGED spawnVars

\* acquireSlot, before any process exists.
Acquire(t) ==
  /\ AcquireRefused(t) \/ AcquireFree(t) \/ AcquireWait(t)
  /\ UNCHANGED spawnVars

Next ==
  \/ \E t \in Tasks :
       \/ Acquire(t) \/ SkipTask(t) \/ RefuseTask(t) \/ SpawnTask(t)
       \/ Timeout(t) \/ TooLarge(t) \/ Close(t) \/ FinishSpawn(t)
  \/ \E s \in Signals : Abort(s)

\* Continuations run, a timer fires, and the events of a spawn that failed and
\* of a killed process arrive.  A process that is left alone need not end.
Fairness ==
  \A t \in Tasks :
    /\ WF_vars(SkipTask(t) \/ RefuseTask(t) \/ SpawnTask(t))
    /\ WF_vars(Timeout(t))
    /\ WF_vars(child[t] # "alive" /\ Close(t))
    /\ WF_vars(FinishSpawn(t))

Spec == Init /\ [][Next]_vars

FairSpec == Spec /\ Fairness

----------------------------------------------------------------------------
(* Properties *)

\* The types of the calls, their processes and what they answer.
TypeOK ==
  /\ SlotsTypeOK
  /\ child \in [Tasks -> ChildStates]
  /\ timeoutHandles \in SUBSET Tasks
  /\ onAborts \in SUBSET Tasks
  /\ didKillForSize \in SUBSET Tasks
  /\ outcome \in [Tasks -> Outcomes]

Unkilled == {t \in Tasks : child[t] = "alive"}

\* The slots bound the processes and not only the promises: a call that gives
\* its slot back early, by its timer or its signal, has killed its process, so
\* the oxlint processes nobody has killed are never more than the slots.
ProcessesBounded ==
  /\ Unkilled \subseteq Holders
  /\ Cardinality(Unkilled) <= SlotCount

\* When a scan is aborted, every process spawned for it is killed at once and
\* no call that was waiting for a slot, or had just got one, spawns another.
AbortReclaims == \A t \in Unkilled : SignalOf[t] \notin aborted

\* Each settle path drops its listener and no other does: the signal is
\* listened to by exactly the spawned calls that are still pending.  Each of
\* those has its timer, so that a process that hangs cannot keep the slot.
ListenersExact ==
  LET Pending == {t \in Spawned : outcome[t] = "pending"} IN
    /\ onAborts = {t \in Pending : SignalOf[t] # NoSignal}
    /\ Pending \subseteq timeoutHandles
    /\ \A t \in timeoutHandles \ Pending : child[t] \in {"unborn", "killed"}

\* A kill of ours is reported as what it was for: the answers that a process
\* gives by itself are never given for one that we killed, whatever order the
\* timer, the signal, the limit and the close event come in.
OwnKillsNamed ==
  \A t \in Tasks : outcome[t] \in OwnAnswers =>
    child[t] = "exited" /\ t \notin didKillForSize

\* A call that asked for a slot is over in the end, even when every process
\* hangs: the fairness does not make a live process close.
EveryCallEnds == \A t \in Tasks : phase[t] # "new" ~> phase[t] \in {"finished", "rejected"}

\* The calls are tasks of the pool, and they settle as its fairness assumes.
ImplementsFairSlots == FairSlotsSpec

=============================================================================
