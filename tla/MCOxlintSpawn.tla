--------------------------- MODULE MCOxlintSpawn ---------------------------
(***************************************************************************)
(* Three spawns under two slots, so that one waits: two of one scan, which *)
(* may be aborted, and one without a signal.                               *)
(***************************************************************************)
EXTENDS OxlintSpawn, TLC

CONSTANTS t1, t2, t3, scanA

MCTasks == {t1, t2, t3}
MCSignals == {scanA}
MCSignalOf == t1 :> scanA @@ t2 :> scanA @@ t3 :> NoSignal

=============================================================================
