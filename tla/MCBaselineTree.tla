-------------------------- MODULE MCBaselineTree ---------------------------
(***************************************************************************)
(* One file of this project and one of a project below that exist at the   *)
(* base, and one that does not; git may be told to ignore either file of   *)
(* this project; every option.                                             *)
(***************************************************************************)
EXTENDS BaselineTree

MCFiles == {"own", "below", "new"}
MCBase == [f \in MCFiles |-> IF f = "new" THEN Absent ELSE "base"]
MCExcluded == {"below"}
MCIgnorable == {{}, {"own"}, {"new"}}
MCOptions == [planGiven : BOOLEAN, deadCode : BOOLEAN, lint : BOOLEAN, includeUntracked : BOOLEAN]
=============================================================================
