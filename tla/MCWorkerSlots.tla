--------------------------- MODULE MCWorkerSlots ---------------------------
(***************************************************************************)
(* Two scans, each with its own abort signal, and one call without a       *)
(* signal share a pool of two slots: five calls, so that up to three wait. *)
(***************************************************************************)
EXTENDS WorkerSlots, TLC

CONSTANTS t1, t2, t3, t4, t5, scanA, scanB

MCTasks == {t1, t2, t3, t4, t5}
MCSignals == {scanA, scanB}
MCSignalOf ==
  t1 :> scanA @@ t2 :> scanA @@ t3 :> scanB @@ t4 :> scanB @@ t5 :> NoSignal

=============================================================================
