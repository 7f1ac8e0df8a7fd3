--------------------------- MODULE MCScanResults ---------------------------
(***************************************************************************)
(* Two scans, of the whole project or of a change against a commit or      *)
(* against a branch, under a time budget.                                  *)
(***************************************************************************)
EXTENDS ScanResults, TLC

MCRequests == [s \in Scans |-> [base : {NoBase, Symbolic, "fork"}, budget : {TRUE}]]
MCSymmetry == Permutations(Scans)

\* The branch is at the fork or ahead of it.
MCCommits == {"fork", "ahead"}

\* A change of the sources alone, one of package.json, and one of generated files,
\* which git ignores.
MCTrees == {"old", "sources", "manifest", "generated"}
MCIdentity == [t \in MCTrees |-> IF t = "generated" THEN "old" ELSE t]
MCManifest == [t \in MCTrees |-> t = "manifest"]

\* Which of the trees and commits comes first makes no difference in kind.
MCInit == Init /\ tree = "old" /\ named = "fork"
MCSpec == MCInit /\ [][Next]_vars
=============================================================================
