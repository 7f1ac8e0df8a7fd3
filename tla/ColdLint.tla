------------------------------ MODULE ColdLint ------------------------------
(***************************************************************************)
(* What a lint promises, whatever it takes from a cache: the diagnostics   *)
(* it reports are those of linting the present tree afresh.  A pass may    *)
(* drop files; such a file is not among the analyzed ones, and the report  *)
(* says that it is partial.                                                *)
(***************************************************************************)
EXTENDS LintVerdicts

VARIABLES
  tree,     \* the project's files
  running,  \* the scans in progress
  report    \* what this step reports

coldVars == <<tree, running, report>>

NoReport == [diagnostics |-> {}, analyzed |-> {}, partial |-> FALSE]

ColdInit ==
  /\ tree \in Trees
  /\ running = {}
  /\ report = NoReport

\* The user edits while no scan runs: a scan takes the files as frozen.
ColdEdit ==
  /\ running = {}
  /\ tree' \in Trees
  /\ report' = NoReport
  /\ UNCHANGED running

ColdStart(s) ==
  /\ s \notin running
  /\ running' = running \cup {s}
  /\ report' = NoReport
  /\ UNCHANGED tree

\* What may be reported of a tree: all that was analyzed is there, nothing else is
\* but diagnostics of this tree, and what is missing is admitted.
Faithful(r, t) ==
  /\ r.analyzed \subseteq Candidates(t)
  /\ r.partial \/ r.analyzed = Candidates(t)
  /\ Lint(Families, r.analyzed, t) \subseteq r.diagnostics
  /\ r.diagnostics \subseteq Lint(Families, Candidates(t), t)

\* A lint ends with such a report, or it fails and reports nothing.
ColdFinish(s) ==
  /\ s \in running
  /\ running' = running \ {s}
  /\ report' = NoReport \/ Faithful(report', tree)
  /\ UNCHANGED tree

\* Work that shows nothing outside.
ColdWork ==
  /\ report' = NoReport
  /\ UNCHANGED <<tree, running>>

ColdNext == ColdEdit \/ ColdWork \/ \E s \in Scans : ColdStart(s) \/ ColdFinish(s)

ColdSpec == ColdInit /\ [][ColdNext]_coldVars

=============================================================================
