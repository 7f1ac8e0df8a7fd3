--------------------------- MODULE MCCliState ---------------------------
(* Two runs at a time; a global gate, a project gate that fires when the   *)
(* file cannot be read, another that does not, and a migration at its      *)
(* second version; the files older releases may have left.                 *)
EXTENDS CliState, TLC

CONSTANTS r1, r2, onboarding, ciPitch, setupHint, hooks, agent

MCRuns == {r1, r2}
MCItems == {onboarding, ciPitch, setupHint, hooks}
MCVersion == [i \in MCItems |-> IF i = hooks THEN 2 ELSE 1]

Blank == [i \in MCItems |-> 0]
MCFiles ==
  {[schema |-> 1, legacy |-> l, records |-> Blank, preference |-> NoPick] :
     l \in {{}, {onboarding, ciPitch, setupHint}}}
  \cup {[schema |-> 2, legacy |-> {}, records |-> [Blank EXCEPT ![hooks] = 1], preference |-> agent]}

Symmetry == Permutations(MCRuns)
=============================================================================
