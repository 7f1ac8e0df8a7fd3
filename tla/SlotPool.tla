----------------------------- MODULE SlotPool -----------------------------
(***************************************************************************)
(* What a pool of worker slots promises to the calls of run(), with no     *)
(* queue and no counter: at most SlotCount calls hold a slot, a call waits *)
(* only while the pool is full, and every call that waits gets an answer.  *)
(* WorkerSlots implements it.                                              *)
(***************************************************************************)
EXTENDS Naturals, FiniteSets

CONSTANTS Tasks, SlotCount

VARIABLES
  asking,   \* the calls that wait for a slot
  holding,  \* the calls that hold one
  closed    \* the calls that are over, or were refused

poolVars == <<asking, holding, closed>>

PoolInit == asking = {} /\ holding = {} /\ closed = {}

\* A call moves only forward: it asks, it holds a slot, it is over.
Forward ==
  /\ asking \subseteq asking' \cup holding' \cup closed'
  /\ holding \subseteq holding' \cup closed'
  /\ closed \subseteq closed'

\* The pool is safe and keeps no slot from a call that waits.
WorkConserving(waiting, held) ==
  /\ Cardinality(held) <= SlotCount
  /\ waiting # {} => Cardinality(held) = SlotCount

PoolNext ==
  /\ asking' \in SUBSET Tasks /\ holding' \in SUBSET Tasks /\ closed' \in SUBSET Tasks
  /\ asking' \cap holding' = {} /\ asking' \cap closed' = {} /\ holding' \cap closed' = {}
  /\ Forward
  /\ WorkConserving(asking', holding')

\* Every call that waits is answered.
Answered == \A t \in Tasks : t \in asking ~> t \notin asking

PoolSpec == PoolInit /\ [][PoolNext]_poolVars

FairPoolSpec == PoolSpec /\ Answered

=============================================================================
