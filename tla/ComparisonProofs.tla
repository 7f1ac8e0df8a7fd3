-------------------------- MODULE ComparisonProofs --------------------------
(***************************************************************************)
(* The comparison with a base, for any files, contents, options and user:  *)
(* BaselineTree compares with the base and looks at both sides, and        *)
(* DiagnosticDelta matches all that can be matched, for findings of any    *)
(* number.                                                                 *)
(***************************************************************************)
EXTENDS BaselineTree, DiagnosticDelta, FiniteSetTheorems, TLAPS

----------------------------------------------------------------------------
(* The tree *)

\* When there is a plan.
PlanTimely ==
  /\ phase = "selected" \/ (~options.planGiven /\ phase \in {"planned", "scanned", "listed"})
     => plan = NoPlan
  /\ phase \in {"diffed", "looked", "copying", "compared"}
       \/ (options.planGiven /\ phase \in {"planned", "scanned", "listed"})
     => plan # NoPlan

\* A plan says what git would say now, but of the files the user has changed since.
PlanAgrees ==
  plan # NoPlan =>
    /\ \A f \in plan.baseFiles : Base[f] # Absent
    /\ \A f \in plan.headFiles : Base[f] # Absent => f \in plan.baseFiles
    /\ \A f \in Files \ touched :
         /\ f \in plan.baseFiles <=> f \in Differing /\ Base[f] # Absent
         /\ f \in plan.headFiles <=> f \in Differing /\ HeadContent(f) # Absent

\* So do the listing and the untracked files, but for what a walk mistook.
ListingAgrees ==
  phase \in {"listed", "diffed", "looked", "copying", "compared"} =>
    /\ ~options.deadCode => sourceFiles = {}
    /\ \A f \in sourceFiles \ touched : worktree[f] = Absent => f \in index
    /\ options.deadCode => \A f \in Files \ (touched \cup mislisted) :
         /\ f \in sourceFiles => f \in Listed
         /\ f \in index /\ worktree[f] # Absent => f \in sourceFiles

UntrackedAgrees ==
  /\ phase \in {"selected", "planned", "scanned", "listed", "diffed"} => untracked = {} /\ ~blind
  /\ phase \in {"looked", "copying", "compared"} =>
       IF blind THEN untracked = {} ELSE \A f \in Files \ touched : f \in untracked <=> f \in Untracked

\* The files that the tree must have as they are at the base, by now.
Settled == {f \in Files \ (touched \cup mislisted) :
              options.deadCode /\ ~(blind /\ f \in Untracked)}
Taken == BaseFiles \cup HeadFiles \cup (Settled \ uncopied)

MaterialsAgree ==
  phase \in {"copying", "compared"} =>
    /\ BaseFiles \subseteq materialized
    /\ \A f \in materialized : Base[f] # Absent

TreeAgrees ==
  phase = "copying" =>
    /\ uncopied \subseteq Unchanged(materialized)
    /\ copiedAll => \A f \in Taken : tree[f] = Base[f]

ReportAgrees ==
  phase = "compared" =>
    /\ Comparable
    /\ report.linted = Linted /\ report.fixedCounted = ~Unscanned
    /\ BaseIsTheBase

\* As long as the user has changed nothing.
UndisturbedAgrees ==
  edits = 0 =>
    /\ touched = {}
    /\ phase \notin {"degraded", "failed"} => DiffPlan.headFiles \subseteq includePaths
    /\ phase \in {"scanned", "listed", "diffed", "looked", "copying"} /\ options.lint =>
         analyzed = includePaths \ Excluded

FailureKnown ==
  phase \in Phases \ {"degraded", "failed"} /\ ~copiedAll =>
     \/ troubles > 0 \/ edits > 0
     \/ \E f \in index : worktree[f] = Absent /\ Base[f] = Absent

TreeIInv ==
  /\ TypeOK /\ PlanTimely /\ PlanAgrees /\ ListingAgrees /\ UntrackedAgrees
  /\ MaterialsAgree /\ TreeAgrees /\ ReportAgrees
  /\ UndisturbedAgrees /\ FailureKnown /\ GivenUpForCause

\* The types hold after every step.
LEMMA TypeKept ==
  ASSUME TypeOK, PlanTimely, [Next]_vars
  PROVE  TypeOK'
<1> USE BaselineAssumption DEF TypeOK, userVars, planVars, treeVars, Phases
<1>1. CASE Planned
  <2>1. DiffPlan \in Plans
    BY DEF DiffPlan, Differing, Plans
  <2>2. plan' \in Plans \cup {NoPlan} /\ includePaths' \in SUBSET Files /\ phase' \in {"omitted", "planned"}
    BY <2>1, <1>1 DEF Planned, DiffPlan, Differing
  <2>3. QED
    BY <2>2, <1>1 DEF Planned
<1>2. CASE PlanFails \/ Unplanned \/ HeadScanFails \/ BeginFails
  BY <1>2 DEF PlanFails, Unplanned, HeadScanFails, BeginFails, Trouble
<1>3. CASE HeadScanned
  BY <1>3 DEF HeadScanned
<1>4. CASE Begin
  <2>1. [f \in Files |-> Absent] \in Trees /\ Listed \in SUBSET Files
    BY DEF Trees, Listed, Untracked, Present
  <2>2. /\ sourceFiles' \in SUBSET Files /\ mislisted' \in SUBSET Files
        /\ troubles' \in {troubles, troubles + 1}
    BY <2>1, <1>4 DEF Begin, ListSources, ListedByWalk, Present, Trouble
  <2>3. QED
    BY <2>1, <2>2, <1>4 DEF Begin
<1>5. CASE DiffAgain
  BY <1>5 DEF DiffAgain, DiffPlan, Differing, Plans
<1>6. CASE ListUntracked
  BY <1>6 DEF ListUntracked, Untracked, Present
<1>7. CASE LookFails
  <2>1. /\ phase \in {"listed", "diffed"} /\ troubles' = troubles + 1
        /\ \/ phase' = "looked" /\ blind' = TRUE /\ tree' = tree
           \/ phase' = "degraded" /\ tree' = NoTree /\ blind' = blind
        /\ UNCHANGED <<userVars, options, includePaths, plan, untracked, analyzed, sourceFiles,
                       mislisted, materialized, uncopied, copiedAll, report>>
    BY <1>7 DEF LookFails, Trouble
  <2>2. blind' \in BOOLEAN
    BY <2>1, Zenon
  <2>3. QED
    BY <2>1, <2>2
<1>8. ASSUME NEW unshown \in SUBSET Files, Materialize(unshown) PROVE TypeOK'
  <2> DEFINE shown == {f \in (InScope(includePaths) \cup BaseFiles) \ unshown : Base[f] # Absent}
  <2>1. CASE IsComplete(shown)
    <3>1. tree' = [f \in Files |-> IF f \in shown THEN Base[f] ELSE Absent]
      BY <2>1, <1>8 DEF Materialize
    <3>2. tree' \in Trees
      BY <3>1 DEF Trees
    <3>3. /\ materialized' = shown /\ uncopied' = Unchanged(shown) /\ phase' = "copying"
          /\ UNCHANGED <<userVars, planVars, copiedAll, report>>
          /\ phase = "looked" /\ (troubles' = troubles \/ troubles' = troubles + 1)
      BY <2>1, <1>8 DEF Materialize, Trouble
    <3>4. shown \in SUBSET Files /\ Unchanged(shown) \in SUBSET Files
      <4>1. BaseFiles \in SUBSET Files
        BY <3>3 DEF PlanTimely, BaseFiles, InScope, Plans
      <4>2. QED
        BY <4>1 DEF InScope, Unchanged
    <3>5. QED
      BY <3>2, <3>3, <3>4
  <2>2. CASE ~IsComplete(shown)
    BY <2>2, <1>8 DEF Materialize, Trouble
  <2>3. QED
    BY <2>1, <2>2
<1>9. ASSUME NEW f \in Files, Copy(f) \/ CopyFails(f) PROVE TypeOK'
  <2>1. CASE Copy(f)
    <3>1. tree \in Trees /\ worktree \in Trees
      BY <2>1 DEF Copy
    <3>2. tree' \in Trees
      BY <3>1, <2>1 DEF Copy, Trees
    <3>3. copiedAll' \in BOOLEAN
      BY <2>1, Zenon DEF Copy
    <3>4. /\ phase = "copying" /\ phase' = "copying" /\ uncopied' \in SUBSET Files
          /\ UNCHANGED <<userVars, planVars, materialized, report, troubles>>
      BY <2>1 DEF Copy
    <3>5. QED
      BY <3>2, <3>3, <3>4
  <2>2. CASE CopyFails(f)
    <3>1. copiedAll' \in BOOLEAN
      BY <2>2, Zenon DEF CopyFails
    <3>2. /\ phase = "copying" /\ phase' = "copying" /\ uncopied' \in SUBSET Files
          /\ troubles' = troubles + 1
          /\ UNCHANGED <<userVars, planVars, tree, materialized, report>>
      BY <2>2 DEF CopyFails, Trouble
    <3>3. QED
      BY <3>1, <3>2
  <2>3. QED
    BY <1>9, <2>1, <2>2
<1>10. CASE Compare
  <2>1. /\ phase = "copying" /\ phase' = "compared" /\ tree' = NoTree
        /\ report' = [tree |-> tree, linted |-> Linted, fixedCounted |-> ~Unscanned]
        /\ UNCHANGED <<userVars, planVars, materialized, uncopied, copiedAll, troubles>>
    BY <1>10 DEF Compare
  <2>2. tree \in Trees /\ Linted \in SUBSET Files
    BY <2>1 DEF Linted
  <2>3. report' \in Reports
    BY <2>1, <2>2 DEF Reports
  <2>4. QED
    BY <2>1, <2>3
<1>11. CASE GiveUp \/ Fail
  BY <1>11 DEF GiveUp, Fail, Trouble
<1>12. ASSUME NEW f \in Files, Touch(f) PROVE TypeOK'
  BY <1>12 DEF Touch, Trees
<1>13. CASE UNCHANGED vars
  BY <1>13 DEF vars
<1>14. QED
  BY <1>1, <1>2, <1>3, <1>4, <1>5, <1>6, <1>7, <1>8, <1>9, <1>10, <1>11, <1>12, <1>13 DEF Next

\* What differs from the base rests on the file and its place in the index; whether git
\* names it at all, on what it is to ignore too.
LEMMA LooksKept ==
  ASSUME NEW g \in Files, worktree'[g] = worktree[g], g \in index' <=> g \in index
  PROVE  /\ g \in Differing' <=> g \in Differing
         /\ HeadContent(g)' = HeadContent(g)
         /\ (g \in ignored' <=> g \in ignored) =>
              /\ g \in Untracked' <=> g \in Untracked
              /\ g \in Listed' <=> g \in Listed
  BY DEF Differing, HeadContent, Untracked, Present, Listed

\* The user's step disturbs one file, which is in touched from then on.
LEMMA TouchesOne ==
  ASSUME TypeOK, NEW f \in Files, Touch(f)
  PROVE  /\ Running /\ edits' > 0 /\ touched' = touched \cup {f}
         /\ UNCHANGED <<planVars, treeVars, phase, report, troubles>>
         /\ \A g \in Files \ {f} :
              /\ g \in Differing' <=> g \in Differing
              /\ HeadContent(g)' = HeadContent(g)
              /\ g \in Untracked' <=> g \in Untracked
              /\ g \in Listed' <=> g \in Listed
              /\ worktree'[g] = worktree[g] /\ (g \in index' <=> g \in index)
<1>1. \A g \in Files \ {f} :
        /\ worktree'[g] = worktree[g]
        /\ g \in index' <=> g \in index
        /\ g \in ignored' <=> g \in ignored
  BY DEF Touch, TypeOK, Trees
<1>2. QED
  BY <1>1, LooksKept DEF Touch, TypeOK

\* A plan stays right but for what the user touches.
LEMMA PlanKept ==
  ASSUME TypeOK, PlanTimely, PlanAgrees, [Next]_vars
  PROVE  PlanTimely' /\ PlanAgrees'
<1> USE BaselineAssumption DEF userVars, planVars, treeVars
<1>0. /\ DiffPlan \in Plans
      /\ \A f \in Files : f \in DiffPlan.baseFiles <=> f \in Differing /\ Base[f] # Absent
      /\ \A f \in Files : f \in DiffPlan.headFiles <=> f \in Differing /\ HeadContent(f) # Absent
  BY DEF DiffPlan, Differing, Plans
<1>a. ASSUME UNCHANGED <<worktree, index, touched>>, plan' = plan PROVE PlanAgrees'
  BY <1>a DEF PlanAgrees, Differing, HeadContent
<1>b. ASSUME UNCHANGED <<worktree, index>>, plan' = DiffPlan PROVE PlanAgrees'
  <2>1. \A f \in Files : (f \in Differing' <=> f \in Differing) /\ HeadContent(f)' = HeadContent(f)
    BY <1>b, LooksKept
  <2>2. QED
    BY <1>0, <1>b, <2>1 DEF PlanAgrees, Plans
<1>1. CASE Planned
  <2>1. plan' = DiffPlan /\ DiffPlan # NoPlan
    BY <1>1, <1>0 DEF Planned
  <2>2. PlanAgrees'
    BY <2>1, <1>1, <1>b DEF Planned
  <2>3. QED
    BY <2>1, <2>2, <1>1 DEF Planned, PlanTimely
<1>2. CASE PlanFails \/ Unplanned \/ HeadScanned \/ HeadScanFails \/ BeginFails
  BY <1>2, <1>a DEF PlanFails, Unplanned, HeadScanned, HeadScanFails, BeginFails, PlanTimely
<1>3. CASE Begin
  <2>1. CASE options.planGiven
    BY <1>3, <2>1, <1>a DEF Begin, PlanTimely
  <2>2. CASE ~options.planGiven
    BY <1>3, <2>2 DEF Begin, PlanTimely, PlanAgrees
  <2>3. QED
    BY <2>1, <2>2
<1>4. CASE DiffAgain
  <2>1. DiffPlan # NoPlan
    BY <1>0
  <2>2. PlanAgrees'
    BY <1>4, <1>a, <1>b DEF DiffAgain
  <2>3. QED
    BY <2>1, <2>2, <1>4 DEF DiffAgain, PlanTimely
<1>5. CASE ListUntracked \/ LookFails
  BY <1>5, <1>a DEF ListUntracked, LookFails, PlanTimely
<1>6. ASSUME NEW unshown \in SUBSET Files, Materialize(unshown) PROVE PlanTimely' /\ PlanAgrees'
  BY <1>6, <1>a DEF Materialize, PlanTimely
<1>7. ASSUME NEW f \in Files, Copy(f) \/ CopyFails(f) PROVE PlanTimely' /\ PlanAgrees'
  BY <1>7, <1>a DEF Copy, CopyFails, PlanTimely
<1>8. CASE Compare \/ GiveUp \/ Fail
  BY <1>8, <1>a DEF Compare, GiveUp, Fail, PlanTimely
<1>9. ASSUME NEW f \in Files, Touch(f) PROVE PlanTimely' /\ PlanAgrees'
  BY <1>9, TouchesOne DEF PlanTimely, PlanAgrees
<1>10. CASE UNCHANGED vars
  BY <1>10, <1>a DEF vars, PlanTimely
<1>11. QED
  BY <1>1, <1>2, <1>3, <1>4, <1>5, <1>6, <1>7, <1>8, <1>9, <1>10 DEF Next

\* So do the listing and the second look.
LEMMA LooksAgree ==
  ASSUME TypeOK, ListingAgrees, UntrackedAgrees, [Next]_vars
  PROVE  ListingAgrees' /\ UntrackedAgrees'
<1> USE BaselineAssumption DEF userVars, planVars, treeVars
<1>a. ASSUME UNCHANGED <<worktree, index, ignored>>
      PROVE  Untracked' = Untracked /\ Listed' = Listed
  BY <1>a DEF Untracked, Present, Listed
<1>1. CASE Planned \/ PlanFails \/ Unplanned \/ HeadScanned \/ HeadScanFails \/ BeginFails
  BY <1>1 DEF Planned, PlanFails, Unplanned, HeadScanned, HeadScanFails, BeginFails,
              ListingAgrees, UntrackedAgrees
<1>2. CASE Begin
  <2>1. CASE ~options.deadCode
    BY <1>2, <1>a, <2>1 DEF Begin, ListSources, ListingAgrees, UntrackedAgrees
  <2>2. CASE options.deadCode /\ sourceFiles' = Listed
    <3>1. \A f \in Listed : worktree[f] = Absent => f \in index
      BY DEF Listed, Untracked, Present
    <3>2. QED
      BY <1>2, <1>a, <2>2, <3>1 DEF Begin, Listed, ListingAgrees, UntrackedAgrees
  <2>3. CASE options.deadCode /\ ListedByWalk
    BY <1>2, <1>a, <2>3 DEF Begin, ListedByWalk, Present, ListingAgrees, UntrackedAgrees
  <2>4. QED
    BY <1>2, <2>1, <2>2, <2>3 DEF Begin, ListSources
<1>3. CASE DiffAgain \/ ListUntracked \/ LookFails
  BY <1>3, <1>a DEF DiffAgain, ListUntracked, LookFails, ListingAgrees, UntrackedAgrees
<1>4. ASSUME NEW unshown \in SUBSET Files, Materialize(unshown)
      PROVE  ListingAgrees' /\ UntrackedAgrees'
  BY <1>4, <1>a DEF Materialize, ListingAgrees, UntrackedAgrees
<1>5. ASSUME NEW f \in Files, Copy(f) \/ CopyFails(f) PROVE ListingAgrees' /\ UntrackedAgrees'
  BY <1>5, <1>a DEF Copy, CopyFails, ListingAgrees, UntrackedAgrees
<1>6. CASE Compare \/ GiveUp \/ Fail
  BY <1>6, <1>a DEF Compare, GiveUp, Fail, ListingAgrees, UntrackedAgrees
<1>7. ASSUME NEW f \in Files, Touch(f) PROVE ListingAgrees' /\ UntrackedAgrees'
  <2>1. UntrackedAgrees'
    BY <1>7, TouchesOne DEF UntrackedAgrees
  <2>2. ListingAgrees'
    BY <1>7, TouchesOne DEF ListingAgrees, TypeOK
  <2>3. QED
    BY <2>1, <2>2
<1>8. CASE UNCHANGED vars
  BY <1>8, <1>a DEF vars, ListingAgrees, UntrackedAgrees
<1>9. QED
  BY <1>1, <1>2, <1>3, <1>4, <1>5, <1>6, <1>7, <1>8 DEF Next

\* The plan, as the comparison uses it: of the files in scope it says what git would say
\* now, but of those the user has changed since.
LEMMA PlannedFiles ==
  ASSUME TypeOK, PlanTimely, PlanAgrees, phase \in {"diffed", "looked", "copying", "compared"}
  PROVE  /\ plan \in Plans /\ BaseFiles \in SUBSET Files /\ HeadFiles \in SUBSET Files
         /\ BaseFiles \subseteq plan.baseFiles /\ HeadFiles \subseteq plan.headFiles
         /\ \A f \in Files : f \notin Excluded \/ options.deadCode =>
              /\ f \in BaseFiles <=> f \in plan.baseFiles
              /\ f \in HeadFiles <=> f \in plan.headFiles
         /\ \A f \in BaseFiles : Base[f] # Absent
         /\ \A f \in HeadFiles : Base[f] # Absent => f \in BaseFiles
<1>1. plan \in Plans
  BY DEF PlanTimely, TypeOK
<1>2. plan.baseFiles \in SUBSET Files /\ plan.headFiles \in SUBSET Files /\ plan # NoPlan
  BY <1>1, BaselineAssumption DEF Plans
<1>3. /\ BaseFiles \subseteq plan.baseFiles /\ HeadFiles \subseteq plan.headFiles
      /\ \A f \in Files : f \notin Excluded \/ options.deadCode =>
           /\ f \in BaseFiles <=> f \in plan.baseFiles
           /\ f \in HeadFiles <=> f \in plan.headFiles
      /\ \A f \in HeadFiles : f \in plan.baseFiles => f \in BaseFiles
  BY <1>2 DEF BaseFiles, HeadFiles, InScope
<1>4. QED
  BY <1>1, <1>2, <1>3 DEF PlanAgrees

\* What is not taken from git is as it is at the base: a file that may be copied is so in
\* the working tree, and one that may not does not exist there.
LEMMA UnchangedIsBase ==
  ASSUME TypeOK, PlanTimely, PlanAgrees, ListingAgrees, UntrackedAgrees,
         phase \in {"looked", "copying"},
         NEW shown \in SUBSET Files, BaseFiles \subseteq shown,
         NEW f \in Settled \ shown
  PROVE  IF f \in Unchanged(shown) THEN worktree[f] = Base[f] ELSE Base[f] = Absent
<1>1. /\ f \in Files /\ f \notin touched /\ f \notin mislisted
      /\ options.deadCode /\ ~(blind /\ f \in Untracked)
  BY DEF Settled
<1>2. f \notin BaseFiles
  OBVIOUS
<1>3. /\ f \in plan.baseFiles <=> f \in BaseFiles
      /\ f \in plan.headFiles <=> f \in HeadFiles
      /\ plan # NoPlan
  BY <1>1, PlannedFiles DEF PlanTimely
<1>4. CASE f \in HeadFiles
  <2>1. Base[f] = Absent
    BY <1>2, <1>4, PlannedFiles
  <2>2. f \notin Unchanged(shown)
    BY <1>4 DEF Unchanged
  <2>3. QED
    BY <2>1, <2>2
<1>5. CASE f \notin HeadFiles
  <2>1. HeadContent(f) = Base[f]
    BY <1>1, <1>2, <1>3, <1>5 DEF PlanAgrees, Differing
  <2>2. /\ f \in sourceFiles => f \in Listed
        /\ f \in index /\ worktree[f] # Absent => f \in sourceFiles
    BY <1>1 DEF ListingAgrees
  <2>3. CASE f \in index
    <3>1. worktree[f] = Base[f]
      BY <2>1, <2>3 DEF HeadContent
    <3>2. f \notin untracked
      BY <1>1, <2>3 DEF UntrackedAgrees, Untracked
    <3>3. worktree[f] # Absent => f \in Unchanged(shown)
      BY <2>2, <2>3, <3>2, <1>5 DEF Unchanged
    <3>4. QED
      BY <3>1, <3>3
  <2>4. CASE f \notin index
    <3>1. f \notin Unchanged(shown)
      BY <1>1, <2>2, <2>4 DEF UntrackedAgrees, Unchanged, Listed
    <3>2. QED
      BY <3>1, <2>1, <2>4 DEF HeadContent
  <2>5. QED
    BY <2>3, <2>4
<1>6. QED
  BY <1>4, <1>5

\* What is to be copied is neither in the plan nor taken from git, and there is none but
\* for the maintainability analysis.
LEMMA TreeKept ==
  ASSUME TypeOK, TypeOK', PlanTimely, PlanAgrees, ListingAgrees, UntrackedAgrees,
         MaterialsAgree, TreeAgrees, [Next]_vars
  PROVE  MaterialsAgree' /\ TreeAgrees'
<1> USE BaselineAssumption DEF userVars, planVars, treeVars
<1>1. ASSUME phase' \notin {"copying", "compared"} PROVE MaterialsAgree' /\ TreeAgrees'
  BY <1>1 DEF MaterialsAgree, TreeAgrees
<1>2. CASE Planned \/ PlanFails \/ Unplanned \/ HeadScanned \/ HeadScanFails \/ Begin \/ BeginFails
           \/ DiffAgain \/ ListUntracked \/ LookFails \/ GiveUp \/ Fail
  BY <1>1, <1>2 DEF Planned, PlanFails, Unplanned, HeadScanned, HeadScanFails, Begin, BeginFails,
                    DiffAgain, ListUntracked, LookFails, GiveUp, Fail
<1>3. ASSUME NEW unshown \in SUBSET Files, Materialize(unshown)
      PROVE  MaterialsAgree' /\ TreeAgrees'
  <2> DEFINE shown == {f \in (InScope(includePaths) \cup BaseFiles) \ unshown : Base[f] # Absent}
  <2>1. CASE IsComplete(shown)
    <3>1. /\ phase = "looked" /\ materialized' = shown /\ uncopied' = Unchanged(shown)
          /\ tree' = [f \in Files |-> IF f \in shown THEN Base[f] ELSE Absent]
          /\ UNCHANGED <<userVars, planVars, copiedAll>>
      BY <1>3, <2>1 DEF Materialize
    <3>2. BaseFiles \subseteq shown /\ \A f \in shown : Base[f] # Absent
      BY <2>1 DEF IsComplete
    <3>3. shown \in SUBSET Files
      BY <3>1, PlannedFiles DEF InScope, TypeOK
    <3>4. BaseFiles' = BaseFiles /\ HeadFiles' = HeadFiles /\ Settled' = Settled
          /\ Unchanged(materialized)' = Unchanged(shown)
      BY <3>1 DEF BaseFiles, HeadFiles, InScope, Settled, Untracked, Present, Unchanged
    <3>5. ASSUME NEW f \in (BaseFiles \cup HeadFiles \cup (Settled \ Unchanged(shown)))
          PROVE  tree'[f] = Base[f]
      <4>1. f \in Files
        BY <3>1, PlannedFiles DEF Settled
      <4>2. CASE f \in shown
        BY <4>1, <4>2, <3>1
      <4>3. CASE f \notin shown
        <5>1. tree'[f] = Absent
          BY <4>1, <4>3, <3>1
        <5>2. Base[f] = Absent
          BY <4>3, <3>1, <3>2, <3>3, PlannedFiles, UnchangedIsBase
        <5>3. QED
          BY <5>1, <5>2
      <4>4. QED
        BY <4>2, <4>3
    <3>6. QED
      BY <3>1, <3>2, <3>4, <3>5 DEF MaterialsAgree, TreeAgrees, Taken
  <2>2. CASE ~IsComplete(shown)
    BY <1>1, <1>3, <2>2 DEF Materialize
  <2>3. QED
    BY <2>1, <2>2
<1>4. ASSUME NEW f \in Files, Copy(f) \/ CopyFails(f) PROVE MaterialsAgree' /\ TreeAgrees'
  <2>1. /\ phase = "copying" /\ phase' = "copying" /\ f \in uncopied /\ uncopied' = uncopied \ {f}
        /\ UNCHANGED <<userVars, planVars, materialized>>
    BY <1>4 DEF Copy, CopyFails
  <2>2. BaseFiles' = BaseFiles /\ HeadFiles' = HeadFiles /\ Settled' = Settled
        /\ Unchanged(materialized)' = Unchanged(materialized)
    BY <2>1 DEF BaseFiles, HeadFiles, InScope, Settled, Untracked, Present, Unchanged
  <2>3. f \in Unchanged(materialized)
    BY <2>1 DEF TreeAgrees
  <2>4. f \notin BaseFiles /\ f \notin HeadFiles /\ f \notin materialized
    BY <2>1, <2>3 DEF Unchanged, MaterialsAgree
  <2>5. ASSUME copiedAll', NEW g \in Taken' PROVE tree'[g] = Base[g]
    <3>1. Copy(f) /\ copiedAll
      BY <1>4, <2>5 DEF CopyFails, Copy
    <3>2. /\ tree \in Trees /\ worktree \in Trees
          /\ tree' = [tree EXCEPT ![f] = worktree[f]]
      BY <2>1, <3>1 DEF Copy, TypeOK
    <3>3. CASE g = f
      <4>1. f \in Settled
        BY <2>2, <2>4, <2>5, <3>3 DEF Taken
      <4>2. worktree[f] = Base[f]
        BY <4>1, <2>1, <2>3, <2>4, UnchangedIsBase DEF MaterialsAgree, TypeOK
      <4>3. QED
        BY <4>2, <3>2, <3>3 DEF Trees
    <3>4. CASE g # f
      <4>1. g \in Taken
        BY <2>1, <2>2, <2>5, <3>4 DEF Taken
      <4>2. tree[g] = Base[g]
        BY <4>1, <3>1, <2>1 DEF TreeAgrees
      <4>3. QED
        BY <4>2, <3>2, <3>4 DEF Trees
    <3>5. QED
      BY <3>3, <3>4
  <2>6. QED
    BY <2>1, <2>2, <2>5 DEF MaterialsAgree, TreeAgrees
<1>5. CASE Compare
  BY <1>5 DEF Compare, MaterialsAgree, TreeAgrees, BaseFiles, InScope
<1>6. ASSUME NEW f \in Files, Touch(f) PROVE MaterialsAgree' /\ TreeAgrees'
  <2>1. /\ UNCHANGED <<planVars, treeVars, phase>>
        /\ touched' = touched \cup {f}
        /\ \A g \in Files \ {f} : g \in Untracked' <=> g \in Untracked
    BY <1>6, TouchesOne
  <2>2. /\ BaseFiles' = BaseFiles /\ HeadFiles' = HeadFiles /\ Settled' \subseteq Settled
        /\ Unchanged(materialized)' = Unchanged(materialized)
    BY <2>1 DEF BaseFiles, HeadFiles, InScope, Settled, Unchanged
  <2>3. QED
    BY <2>1, <2>2 DEF MaterialsAgree, TreeAgrees, Taken
<1>7. CASE UNCHANGED vars
  BY <1>7 DEF vars, MaterialsAgree, TreeAgrees, Taken, Settled, BaseFiles, HeadFiles, InScope,
              Unchanged, Untracked, Present
<1>8. QED
  BY <1>2, <1>3, <1>4, <1>5, <1>6, <1>7 DEF Next

\* Once a comparison has ended nothing changes any more.
LEMMA EndedForGood ==
  ASSUME ~Running, [Next]_vars
  PROVE  UNCHANGED vars
  BY DEF Running, Next, vars, userVars, planVars, treeVars, Planned, PlanFails, Unplanned, HeadScanned,
         HeadScanFails, Begin, BeginFails, DiffAgain, ListUntracked, LookFails, Materialize, Copy,
         CopyFails, Compare, GiveUp, Fail, Touch

\* What is compared is what the tree was when it was whole.
LEMMA ReportKept ==
  ASSUME TypeOK, MaterialsAgree, TreeAgrees, ReportAgrees, [Next]_vars
  PROVE  ReportAgrees'
<1> SUFFICES ASSUME phase' = "compared" PROVE ReportAgrees'
  BY DEF ReportAgrees
<1> USE DEF userVars, planVars, treeVars
<1>1. CASE Compare
  <2>1. /\ phase = "copying" /\ uncopied = {} /\ Comparable
        /\ report' = [tree |-> tree, linted |-> Linted, fixedCounted |-> ~Unscanned]
        /\ UNCHANGED <<userVars, planVars, materialized, uncopied, copiedAll>>
    BY <1>1 DEF Compare
  <2>2. /\ BaseFiles' = BaseFiles /\ HeadFiles' = HeadFiles /\ Untracked' = Untracked
        /\ ExpectedHeadFiles' = ExpectedHeadFiles /\ Linted' = Linted /\ Unscanned' = Unscanned
    BY <2>1 DEF BaseFiles, HeadFiles, InScope, Untracked, Present, ExpectedHeadFiles, Linted, Unscanned
  <2>3. Comparable'
    BY <2>1, <2>2 DEF Comparable
  <2>4. \A f \in BaseFiles \cup HeadFiles \cup Settled : tree[f] = Base[f]
    BY <2>1 DEF TreeAgrees, Taken, Comparable
  <2>5. BaseIsTheBase'
    BY <2>1, <2>2, <2>4 DEF BaseIsTheBase, Settled
  <2>6. QED
    BY <2>1, <2>2, <2>3, <2>5 DEF ReportAgrees
<1>2. CASE phase = "compared"
  <2>1. UNCHANGED vars
    BY <1>2, EndedForGood DEF Running
  <2>2. QED
    BY <2>1 DEF vars, ReportAgrees, Comparable, BaseIsTheBase, BaseFiles, HeadFiles, InScope, Untracked,
                Present, ExpectedHeadFiles, Linted, Unscanned
<1>3. CASE phase # "compared" /\ ~Compare
  <2>1. FALSE
    BY <1>3 DEF Next, vars, Planned, PlanFails, Unplanned, HeadScanned, HeadScanFails, Begin, BeginFails,
           DiffAgain, ListUntracked, LookFails, Materialize, Copy, CopyFails, GiveUp, Fail, Touch
  <2>2. QED
    BY <2>1
<1>4. QED
  BY <1>1, <1>2, <1>3

\* While the user changes nothing the scan is told of all that git shows, and only what
\* fails can end the comparison without a result.
LEMMA UndisturbedKept ==
  ASSUME TypeOK, TypeOK', UndisturbedAgrees, [Next]_vars
  PROVE  UndisturbedAgrees'
<1> USE BaselineAssumption DEF userVars, planVars, treeVars
<1>a. ASSUME UNCHANGED <<worktree, index>> PROVE DiffPlan' = DiffPlan
  BY <1>a DEF DiffPlan, Differing, HeadContent
<1>1. CASE Planned
  <2>1. DiffPlan.headFiles \subseteq includePaths => DiffPlan.headFiles \subseteq includePaths'
    BY <1>1 DEF Planned
  <2>2. QED
    BY <2>1, <1>1, <1>a DEF Planned, UndisturbedAgrees
<1>2. CASE PlanFails \/ Unplanned \/ HeadScanned \/ HeadScanFails \/ BeginFails
  BY <1>2, <1>a DEF PlanFails, Unplanned, HeadScanned, HeadScanFails, BeginFails, UndisturbedAgrees
<1>3. CASE Begin \/ DiffAgain \/ ListUntracked \/ LookFails
  BY <1>3, <1>a DEF Begin, DiffAgain, ListUntracked, LookFails, UndisturbedAgrees
<1>4. ASSUME NEW unshown \in SUBSET Files, Materialize(unshown) PROVE UndisturbedAgrees'
  BY <1>4, <1>a DEF Materialize, UndisturbedAgrees
<1>5. ASSUME NEW f \in Files, Copy(f) \/ CopyFails(f) PROVE UndisturbedAgrees'
  BY <1>5, <1>a DEF Copy, CopyFails, UndisturbedAgrees
<1>6. CASE Compare \/ GiveUp \/ Fail
  BY <1>6, <1>a DEF Compare, GiveUp, Fail, UndisturbedAgrees
<1>7. ASSUME NEW f \in Files, Touch(f) PROVE UndisturbedAgrees'
  BY <1>7, TouchesOne DEF UndisturbedAgrees
<1>8. CASE UNCHANGED vars
  BY <1>8, <1>a DEF vars, UndisturbedAgrees
<1>9. QED
  BY <1>1, <1>2, <1>3, <1>4, <1>5, <1>6, <1>7, <1>8 DEF Next

\* There is a reason for every ending without a result, and for every copy that fails.
Cause ==
  \/ troubles > 0 \/ edits > 0
  \/ \E f \in index : worktree[f] = Absent /\ Base[f] = Absent

\* A reason stays one.
LEMMA CauseKept ==
  ASSUME TypeOK, Cause, [Next]_vars
  PROVE  Cause'
<1> USE DEF userVars, planVars, treeVars
<1>1. \/ UNCHANGED <<worktree, index, edits>> /\ troubles' \in {troubles, troubles + 1}
      \/ edits' = edits + 1 /\ troubles' = troubles
  <2>1. CASE Begin
    BY <2>1 DEF Begin, ListSources, ListedByWalk, Trouble
  <2>2. CASE ~Begin
    BY <2>2 DEF Next, vars, Planned, PlanFails, Unplanned, HeadScanned, HeadScanFails, BeginFails,
           DiffAgain, ListUntracked, LookFails, Materialize, Copy, CopyFails, Compare, GiveUp, Fail,
           Touch, Trouble
  <2>3. QED
    BY <2>1, <2>2
<1>2. QED
  BY <1>1 DEF Cause, TypeOK

\* A file that is to be copied and does not exist was added to the index and then deleted.
LEMMA MissingForCause ==
  ASSUME TypeOK, PlanTimely, PlanAgrees, ListingAgrees, UntrackedAgrees, MaterialsAgree, TreeAgrees,
         UndisturbedAgrees, phase = "copying", edits = 0,
         NEW f \in uncopied, worktree[f] = Absent
  PROVE  f \in index /\ Base[f] = Absent
<1>1. touched = {} /\ f \in Files
  BY DEF UndisturbedAgrees, TypeOK
<1>2. f \in sourceFiles /\ f \notin materialized /\ f \notin HeadFiles /\ f \notin untracked
  BY DEF TreeAgrees, Unchanged
<1>3. options.deadCode
  BY <1>2 DEF ListingAgrees
<1>4. f \in index
  BY <1>1, <1>2 DEF ListingAgrees
<1>5. f \notin BaseFiles
  BY <1>2 DEF MaterialsAgree
<1>6. f \notin plan.baseFiles /\ plan # NoPlan
  BY <1>1, <1>3, <1>5, PlannedFiles DEF PlanTimely
<1>7. ~(f \in Differing /\ Base[f] # Absent)
  BY <1>1, <1>6 DEF PlanAgrees
<1>8. HeadContent(f) = Absent
  BY <1>4 DEF HeadContent
<1>9. QED
  BY <1>1, <1>4, <1>7, <1>8 DEF Differing

\* Without a cause no copy fails and no comparison is given up.
LEMMA GiveUpsForCause ==
  ASSUME TypeOK, TypeOK', PlanTimely, PlanAgrees, ListingAgrees, UntrackedAgrees, MaterialsAgree,
         TreeAgrees, UndisturbedAgrees, FailureKnown, GivenUpForCause, [Next]_vars
  PROVE  FailureKnown' /\ GivenUpForCause'
<1> USE DEF userVars, planVars, treeVars
<1>1. CASE Cause
  BY <1>1, CauseKept DEF Cause, FailureKnown, GivenUpForCause
<1>2. CASE ~Cause
  <2>1. /\ edits = 0 /\ troubles = 0 /\ phase # "degraded"
        /\ phase # "failed" => copiedAll
    BY <1>2 DEF Cause, TypeOK, FailureKnown, GivenUpForCause
  <2>2. ASSUME troubles' = troubles + 1 \/ edits' = edits + 1
        PROVE  FailureKnown' /\ GivenUpForCause'
    BY <2>1, <2>2 DEF FailureKnown, GivenUpForCause
  <2>3. ASSUME copiedAll' = copiedAll, phase' # "degraded", phase # "failed"
        PROVE  FailureKnown' /\ GivenUpForCause'
    BY <2>1, <2>3 DEF FailureKnown, GivenUpForCause
  <2>4. CASE Planned \/ Unplanned \/ HeadScanned \/ Begin \/ DiffAgain \/ ListUntracked \/ Compare
    BY <2>3, <2>4 DEF Planned, Unplanned, HeadScanned, Begin, DiffAgain, ListUntracked, Compare
  <2>5. CASE PlanFails \/ HeadScanFails \/ BeginFails \/ LookFails \/ Fail
    BY <2>2, <2>5 DEF PlanFails, HeadScanFails, BeginFails, LookFails, Fail, Trouble
  <2>6. ASSUME NEW unshown \in SUBSET Files, Materialize(unshown)
        PROVE  FailureKnown' /\ GivenUpForCause'
    <3> DEFINE shown == {f \in (InScope(includePaths) \cup BaseFiles) \ unshown : Base[f] # Absent}
    <3>1. CASE unshown # {}
      BY <2>2, <2>6, <3>1 DEF Materialize, Trouble
    <3>2. CASE unshown = {}
      <4>1. phase = "looked" /\ copiedAll' = copiedAll
        BY <2>6 DEF Materialize
      <4>2. BaseFiles \subseteq shown
        BY <3>2, <4>1, PlannedFiles
      <4>3. IsComplete(shown)
        BY <4>2 DEF IsComplete
      <4>4. phase' = "copying"
        BY <2>6, <4>3 DEF Materialize
      <4>5. QED
        BY <2>3, <4>1, <4>4
    <3>3. QED
      BY <3>1, <3>2
  <2>7. ASSUME NEW f \in Files, Copy(f) PROVE FailureKnown' /\ GivenUpForCause'
    <3>1. /\ phase = "copying" /\ f \in uncopied /\ phase' = phase
          /\ copiedAll' = (copiedAll /\ worktree[f] # Absent)
          /\ UNCHANGED userVars
      BY <2>7 DEF Copy
    <3>2. CASE worktree[f] # Absent
      BY <2>1, <2>3, <3>1, <3>2
    <3>3. CASE worktree[f] = Absent
      BY <1>2, <2>1, <3>1, <3>3, MissingForCause DEF Cause
    <3>4. QED
      BY <3>2, <3>3
  <2>8. ASSUME NEW f \in Files, CopyFails(f) PROVE FailureKnown' /\ GivenUpForCause'
    BY <2>2, <2>8 DEF CopyFails, Trouble
  <2>9. CASE GiveUp
    <3>1. phase = "copying" /\ copiedAll
      BY <2>1, <2>9 DEF GiveUp
    <3>2. CASE Comparable
      BY <2>2, <2>9, <3>2 DEF GiveUp, Trouble
    <3>3. CASE ~Comparable
      <4>1. options.lint /\ ~(ExpectedHeadFiles \subseteq analyzed)
        BY <3>1, <3>3 DEF Comparable
      <4>2. PICK f \in ExpectedHeadFiles : f \notin analyzed
        BY <4>1
      <4>3. /\ touched = {} /\ DiffPlan.headFiles \subseteq includePaths
            /\ analyzed = includePaths \ Excluded
        BY <2>1, <3>1, <4>1 DEF UndisturbedAgrees
      <4>4. f \notin Excluded /\ (f \in HeadFiles \/ f \in includePaths)
        BY <4>2 DEF ExpectedHeadFiles
      <4>5. f \in HeadFiles
        BY <4>2, <4>3, <4>4
      <4>6. f \in plan.headFiles /\ f \in Files /\ plan # NoPlan
        BY <3>1, <4>5, PlannedFiles DEF PlanTimely
      <4>7. f \in DiffPlan.headFiles
        BY <4>3, <4>6 DEF PlanAgrees, DiffPlan
      <4>8. QED
        BY <4>2, <4>3, <4>4, <4>7
    <3>4. QED
      BY <3>2, <3>3
  <2>10. ASSUME NEW f \in Files, Touch(f) PROVE FailureKnown' /\ GivenUpForCause'
    BY <2>2, <2>10 DEF Touch
  <2>11. CASE UNCHANGED vars
    BY <2>11 DEF vars, FailureKnown, GivenUpForCause
  <2>12. QED
    BY <2>4, <2>5, <2>6, <2>7, <2>8, <2>9, <2>10, <2>11 DEF Next
<1>3. QED
  BY <1>1, <1>2

\* The parts together are inductive.
LEMMA TreeInit ==
  Init => TreeIInv
<1> SUFFICES ASSUME Init PROVE TreeIInv
  OBVIOUS
<1> USE BaselineAssumption DEF Init
<1>1. DiffPlan.headFiles \in SUBSET Files /\ Untracked \in SUBSET Files
  BY DEF DiffPlan, Differing, Untracked, Present
<1>2. TypeOK
  BY <1>1 DEF TypeOK, Trees, Phases
<1>3. PlanTimely /\ PlanAgrees /\ ListingAgrees /\ UntrackedAgrees
  BY DEF PlanTimely, PlanAgrees, ListingAgrees, UntrackedAgrees
<1>4. MaterialsAgree /\ TreeAgrees /\ ReportAgrees
  BY DEF MaterialsAgree, TreeAgrees, ReportAgrees
<1>5. UndisturbedAgrees /\ FailureKnown /\ GivenUpForCause
  BY DEF UndisturbedAgrees, FailureKnown, GivenUpForCause
<1>6. QED
  BY <1>2, <1>3, <1>4, <1>5 DEF TreeIInv

\* Every step keeps them all.
LEMMA TreeIInvKept ==
  ASSUME TreeIInv, [Next]_vars
  PROVE  TreeIInv'
<1> USE DEF TreeIInv
<1>1. TypeOK'
  BY TypeKept
<1>2. PlanTimely' /\ PlanAgrees'
  BY PlanKept
<1>3. ListingAgrees' /\ UntrackedAgrees'
  BY LooksAgree
<1>4. MaterialsAgree' /\ TreeAgrees'
  BY <1>1, TreeKept
<1>5. ReportAgrees'
  BY ReportKept
<1>6. UndisturbedAgrees'
  BY <1>1, UndisturbedKept
<1>7. FailureKnown' /\ GivenUpForCause'
  BY <1>1, GiveUpsForCause
<1>8. QED
  BY <1>1, <1>2, <1>3, <1>4, <1>5, <1>6, <1>7

\* So they hold at all times.
LEMMA TreeInvariant ==
  Spec => []TreeIInv
<1>1. Init => TreeIInv
  BY TreeInit
<1>2. TreeIInv /\ [Next]_vars => TreeIInv'
  BY TreeIInvKept
<1>3. QED
  BY <1>1, <1>2, PTL DEF Spec

\* The types of a comparison, for any files, contents and options.
THEOREM TreeTypeCorrect ==
  Spec => []TypeOK
<1>1. TreeIInv => TypeOK
  BY DEF TreeIInv
<1>2. QED
  BY <1>1, TreeInvariant, PTL

\* What a change is compared with is the base, whatever the user has done since
\* materializeBaselineFiles and copyUnchangedBaselineSources read their files.
THEOREM ComparedWithTheBase ==
  Spec => []BaseIsTheBase
<1>1. TreeIInv => BaseIsTheBase
  BY DEF TreeIInv, ReportAgrees, BaseIsTheBase
<1>2. QED
  BY <1>1, TreeInvariant, PTL

\* The gates of the comparison let no file pass that was linted on one side only.
LEMMA BothLinted ==
  ASSUME TreeIInv
  PROVE  BothSidesAreLinted
<1> SUFFICES ASSUME phase = "compared", options.lint,
                    NEW f \in Differing \ (touched \cup Excluded)
             PROVE  /\ Base[f] # Absent => f \in report.linted
                    /\ HeadContent(f) # Absent => f \in analyzed
  BY DEF BothSidesAreLinted
<1> USE DEF TreeIInv
<1>1. f \in Files /\ plan # NoPlan
  BY DEF Differing, PlanTimely
<1>2. /\ Base[f] # Absent => f \in plan.baseFiles
      /\ HeadContent(f) # Absent => f \in plan.headFiles
  BY <1>1 DEF PlanAgrees
<1>3. /\ Base[f] # Absent => f \in BaseFiles
      /\ HeadContent(f) # Absent => f \in HeadFiles
  BY <1>1, <1>2, PlannedFiles
<1>4. Base[f] # Absent => f \in report.linted
  BY <1>3 DEF ReportAgrees, Linted, MaterialsAgree
<1>5. HeadContent(f) # Absent => f \in analyzed
  BY <1>3 DEF ReportAgrees, Comparable, ExpectedHeadFiles
<1>6. QED
  BY <1>4, <1>5

\* A change is linted on both sides, or runBaselineComparison makes no comparison.
THEOREM BothLintedAlways ==
  Spec => []BothSidesAreLinted
<1>1. TreeIInv => BothSidesAreLinted
  BY BothLinted
<1>2. QED
  BY <1>1, TreeInvariant, PTL

\* A file that had findings and still exists is in the plan or among the untracked.
LEMMA FixedGone ==
  ASSUME TreeIInv
  PROVE  FixedAreGone
<1> SUFFICES ASSUME phase = "compared", options.lint, report.fixedCounted, ~blind,
                    NEW f \in (report.linted \cup Untracked) \ (touched \cup Excluded),
                    worktree[f] # Absent, f \in Listed
             PROVE  f \in analyzed
  BY DEF FixedAreGone
<1> USE DEF TreeIInv
<1>1. f \in Files /\ plan # NoPlan
  BY DEF PlanTimely, ReportAgrees, TypeOK, Reports, Untracked, Present
<1>2. ExpectedHeadFiles \subseteq analyzed
  BY DEF ReportAgrees, Comparable
<1>3. CASE f \in Untracked
  <2>1. f \in untracked
    BY <1>1, <1>3 DEF UntrackedAgrees
  <2>2. ~Unscanned
    BY DEF ReportAgrees
  <2>3. QED
    BY <2>1, <2>2 DEF Unscanned
<1>4. CASE f \notin Untracked
  <2>1. f \in index /\ HeadContent(f) # Absent
    BY <1>1, <1>4 DEF Listed, HeadContent
  <2>2. f \in includePaths \cup BaseFiles
    BY <1>4 DEF ReportAgrees, Linted
  <2>3. CASE f \in BaseFiles
    <3>1. f \in plan.headFiles
      BY <1>1, <2>1, <2>3, PlannedFiles DEF PlanAgrees
    <3>2. f \in HeadFiles
      BY <1>1, <3>1, PlannedFiles
    <3>3. QED
      BY <1>2, <3>2 DEF ExpectedHeadFiles
  <2>4. CASE f \notin BaseFiles
    BY <1>2, <2>2, <2>4 DEF ExpectedHeadFiles
  <2>5. QED
    BY <2>3, <2>4
<1>5. QED
  BY <1>3, <1>4

\* Findings are counted as fixed only where all that may hold them has been linted again.
THEOREM FixedGoneAlways ==
  Spec => []FixedAreGone
<1>1. TreeIInv => FixedAreGone
  BY FixedGone
<1>2. QED
  BY <1>1, TreeInvariant, PTL

\* runBaselineComparison returns null only for a failure, for an edit, or for a file that
\* was added to the index and then deleted.
THEOREM GivenUpForCauseAlways ==
  Spec => []GivenUpForCause
<1>1. TreeIInv => GivenUpForCause
  BY DEF TreeIInv
<1>2. QED
  BY <1>1, TreeInvariant, PTL

----------------------------------------------------------------------------
(* The delta *)

\* A finding of the base is matched with one of the head at most.
MatchedOnce ==
  \A g, h \in DOMAIN head : match[g] # 0 /\ match[g] = match[h] => g = h

\* The turns of the loops that are over, of pass q and finding h.
Over(q, h) == q < pass \/ (q = pass /\ h < at)

\* A turn leaves its finding without a match only if nothing in its bucket is free.
Tried ==
  \A q \in DOMAIN Passes, h \in DOMAIN head :
    Over(q, h) /\ match[h] = 0 => Bucket(Passes[q], head[h]) \subseteq Matched

\* What the passes so far have in common: the first matches equals, the second stays in
\* the file.
Narrowest ==
  \A h \in DOMAIN head : match[h] # 0 =>
    /\ pass = 1 => match[h] \in Bucket("sameFile", head[h])
    /\ pass <= 2 => head[h].file = base[match[h]].file

\* UnchangedIsNotNew, from the turn of the finding in the first pass on.
UnchangedTaken ==
  \A h \in DOMAIN head :
    Over(1, h) /\ match[h] = 0 =>
      \A b \in Bucket("sameFile", head[h]) :
        \E other \in DOMAIN head : match[other] = b /\ head[other] = head[h]

\* CopiesDoNotConsume, at any time.
CopiesApart ==
  \A copy, h \in DOMAIN head :
    match[copy] # 0 /\ head[copy].file # base[match[copy]].file /\ match[h] = 0 =>
      match[copy] \notin Bucket("fallback", head[h])

DeltaIInv ==
  DeltaTypeOK /\ MatchedOnce /\ Tried /\ Narrowest /\ UnchangedTaken /\ CopiesApart

\* The three passes.
LEMMA PassesAre ==
  /\ DOMAIN Passes = {1, 2, 3} /\ Len(Passes) = 3
  /\ Passes[1] = "sameFile" /\ Passes[2] = "fallback" /\ Passes[3] = "anyFile"
  BY DEF Passes

\* A key says all that it is made of, and none is NoKey.
LEMMA KeysAre ==
  ASSUME DeltaTypeOK, NEW h \in DOMAIN head, NEW b \in DOMAIN base
  PROVE  /\ b \in Bucket("sameFile", head[h]) <=> head[h] = base[b] /\ head[h].text # NoText
         /\ b \in Bucket("fallback", head[h]) => head[h].file = base[b].file
<1>1. /\ head[h] \in [file : FilePaths, text : Texts \cup {NoText}]
      /\ base[b] \in [file : FilePaths, text : Texts \cup {NoText}]
  <2>1. head[h] \in Findings(rule) /\ base[b] \in Findings(rule)
    BY DEF DeltaTypeOK
  <2>2. Findings(rule) \subseteq [file : FilePaths, text : Texts \cup {NoText}]
    BY DEF Findings
  <2>3. QED
    BY <2>1, <2>2
<1>2. /\ head[h].file \in FilePaths /\ base[b].file \in FilePaths
      /\ head[h].text \in Texts \cup {NoText} /\ base[b].text \in Texts \cup {NoText}
      /\ head[h].file = base[b].file /\ head[h].text = base[b].text => head[h] = base[b]
  BY <1>1
<1>3. /\ \A f \in FilePaths : f # NoKey
      /\ \A f \in FilePaths, t \in Texts : <<f, t>> # NoKey
  BY DiagnosticDeltaAssumption
<1>4. ASSUME b \in Bucket("sameFile", head[h])
      PROVE  head[h] = base[b] /\ head[h].text # NoText
  <2>1. /\ SameFileStableEvidenceKey(head[h]) # NoKey
        /\ SameFileStableEvidenceKey(base[b]) = SameFileStableEvidenceKey(head[h])
    BY <1>4 DEF Bucket, KeyOf
  <2>2. head[h].text # NoText /\ base[b].text # NoText
    BY <2>1 DEF SameFileStableEvidenceKey
  <2>3. <<head[h].file, head[h].text>> = <<base[b].file, base[b].text>>
    BY <2>1, <2>2 DEF SameFileStableEvidenceKey
  <2>4. QED
    BY <1>2, <2>2, <2>3
<1>5. ASSUME head[h] = base[b], head[h].text # NoText
      PROVE  b \in Bucket("sameFile", head[h])
  <2>1. SameFileStableEvidenceKey(head[h]) # NoKey
    BY <1>2, <1>3, <1>5 DEF SameFileStableEvidenceKey
  <2>2. QED
    BY <1>5, <2>1 DEF Bucket, KeyOf
<1>6. ASSUME b \in Bucket("fallback", head[h])
      PROVE  head[h].file = base[b].file
  <2>1. /\ SameFileFallbackKey(head[h]) # NoKey
        /\ SameFileFallbackKey(base[b]) = SameFileFallbackKey(head[h])
    BY <1>6 DEF Bucket, KeyOf
  <2>2. QED
    BY <2>1 DEF SameFileFallbackKey
<1>7. QED
  BY <1>4, <1>5, <1>6

\* The buckets rest on the findings alone.
LEMMA BucketsKept ==
  ASSUME UNCHANGED <<rule, base>>
  PROVE  \A kind, d : Bucket(kind, d)' = Bucket(kind, d)
  BY DEF Bucket, KeyOf, StableEvidenceKey, SameFileStableEvidenceKey, SameFileFallbackKey

\* Before the first turn nothing is matched.
LEMMA DeltaStarts ==
  DeltaInit => DeltaIInv
<1> SUFFICES ASSUME DeltaInit PROVE DeltaIInv
  OBVIOUS
<1>1. head \in Seq(Findings(rule)) /\ base \in Seq(Findings(rule))
  BY DiagnosticDeltaAssumption DEF DeltaInit, Inputs
<1>2. DeltaTypeOK
  BY <1>1, PassesAre DEF DeltaInit, DeltaTypeOK
<1>3. \A h \in DOMAIN head : match[h] = 0
  BY DEF DeltaInit
<1>4. \A q \in DOMAIN Passes, h \in DOMAIN head : ~Over(q, h)
  BY <1>1, PassesAre DEF DeltaInit, Over
<1>5. QED
  BY <1>2, <1>3, <1>4, PassesAre
     DEF DeltaIInv, MatchedOnce, Tried, Narrowest, UnchangedTaken, CopiesApart

\* A turn either leaves its finding as it was, for want of a free one, or matches it with
\* a free one.
LEMMA TurnTakesFree ==
  ASSUME DeltaTypeOK, MatchCandidate
  PROVE  /\ pass \in {1, 2, 3} /\ at \in DOMAIN head
         /\ \/ /\ match' = match /\ crossFileMatchCount' = crossFileMatchCount
               /\ match[at] = 0 => Bucket(Passes[pass], head[at]) \subseteq Matched
            \/ /\ match[at] = 0
               /\ \E b \in Bucket(Passes[pass], head[at]) \ Matched :
                    match' = [match EXCEPT ![at] = b]
               /\ crossFileMatchCount' \in {crossFileMatchCount, crossFileMatchCount + 1}
  BY PassesAre DEF MatchCandidate, Free, DeltaTypeOK

\* Whichever it does, the invariant holds after it.
LEMMA TurnKeeps ==
  ASSUME DeltaIInv, MatchCandidate
  PROVE  DeltaIInv'
<1> USE DEF DeltaIInv, inputVars
<1>1. /\ pass \in {1, 2, 3} /\ at \in DOMAIN head /\ at \in 1..Len(head)
      /\ at' = at + 1 /\ pass' = pass
      /\ rule' = rule /\ head' = head /\ base' = base
  <2>1. pass \in {1, 2, 3} /\ at \in DOMAIN head
    BY TurnTakesFree
  <2>2. DOMAIN head = 1..Len(head)
    BY DEF DeltaTypeOK
  <2>3. at' = at + 1 /\ pass' = pass /\ rule' = rule /\ head' = head /\ base' = base
    BY DEF MatchCandidate
  <2>4. QED
    BY <2>1, <2>2, <2>3
<1>2. \A kind, d : Bucket(kind, d)' = Bucket(kind, d)
  BY <1>1, BucketsKept
<1>3. \A q \in {1, 2, 3}, h \in DOMAIN head :
        Over(q, h)' <=> Over(q, h) \/ (q = pass /\ h = at)
  BY <1>1 DEF Over, DeltaTypeOK
<1>4. CASE /\ match' = match /\ crossFileMatchCount' = crossFileMatchCount
           /\ match[at] = 0 => Bucket(Passes[pass], head[at]) \subseteq Matched
  <2>1. DeltaTypeOK'
    BY <1>1, <1>4 DEF DeltaTypeOK, Findings
  <2>2. MatchedOnce' /\ Narrowest' /\ CopiesApart'
    BY <1>1, <1>2, <1>4 DEF MatchedOnce, Narrowest, CopiesApart
  <2>3. Tried'
    BY <1>1, <1>2, <1>3, <1>4, PassesAre DEF Tried, Matched
  <2>4. UnchangedTaken'
    <3>1. ASSUME pass = 1, match[at] = 0, NEW b \in Bucket("sameFile", head[at])
          PROVE  \E other \in DOMAIN head : match[other] = b /\ head[other] = head[at]
      <4>1. b \in Matched
        BY <1>4, <3>1, PassesAre
      <4>2. PICK other \in DOMAIN head : match[other] = b /\ b # 0
        BY <4>1 DEF Matched
      <4>3. b \in DOMAIN base
        BY <3>1 DEF Bucket
      <4>4. b \in Bucket("sameFile", head[other])
        BY <3>1, <4>2 DEF Narrowest
      <4>5. head[other] = base[b] /\ head[at] = base[b]
        BY <1>1, <3>1, <4>3, <4>4, KeysAre
      <4>6. QED
        BY <4>2, <4>5
    <3>2. QED
      BY <1>1, <1>2, <1>3, <1>4, <3>1 DEF UnchangedTaken
  <2>5. QED
    BY <2>1, <2>2, <2>3, <2>4
<1>5. CASE /\ match[at] = 0
           /\ \E b \in Bucket(Passes[pass], head[at]) \ Matched :
                match' = [match EXCEPT ![at] = b]
           /\ crossFileMatchCount' \in {crossFileMatchCount, crossFileMatchCount + 1}
  <2>1. PICK b \in Bucket(Passes[pass], head[at]) \ Matched :
          match' = [match EXCEPT ![at] = b]
    BY <1>5
  <2>2. b \in DOMAIN base /\ b \in 1..Len(base) /\ b # 0
    BY <2>1 DEF Bucket, DeltaTypeOK
  <2>3. match'[at] = b /\ \A h \in DOMAIN head \ {at} : match'[h] = match[h]
    BY <1>1, <2>1 DEF DeltaTypeOK
  <2>4. \A h \in DOMAIN head : match[h] # b
    BY <2>1, <2>2 DEF Matched
  <2>5. DeltaTypeOK'
    BY <1>1, <1>5, <2>1, <2>2 DEF DeltaTypeOK, Findings
  <2>6. MatchedOnce'
    BY <1>1, <2>3, <2>4 DEF MatchedOnce
  <2>7. Matched \subseteq Matched'
    BY <1>1, <1>5, <2>3 DEF Matched
  <2>8. Tried'
    BY <1>1, <1>2, <1>3, <2>2, <2>3, <2>7, PassesAre DEF Tried
  <2>9. Narrowest'
    <3>1. /\ pass = 1 => b \in Bucket("sameFile", head[at])
          /\ pass <= 2 => head[at].file = base[b].file
      BY <1>1, <2>1, <2>2, KeysAre, PassesAre
    <3>2. QED
      BY <1>1, <1>2, <2>3, <3>1 DEF Narrowest
  <2>10. UnchangedTaken'
    <3>1. ASSUME NEW h \in DOMAIN head, Over(1, h)', match'[h] = 0,
                 NEW c \in Bucket("sameFile", head[h])
          PROVE  \E other \in DOMAIN head : match'[other] = c /\ head[other] = head[h]
      <4>1. h # at /\ match[h] = 0
        BY <2>2, <2>3, <3>1
      <4>2. Over(1, h)
        BY <1>3, <3>1, <4>1
      <4>3. PICK other \in DOMAIN head : match[other] = c /\ head[other] = head[h]
        BY <3>1, <4>1, <4>2 DEF UnchangedTaken
      <4>4. c # 0
        BY <3>1 DEF Bucket, DeltaTypeOK
      <4>5. other # at
        BY <1>5, <4>3, <4>4
      <4>6. QED
        BY <2>3, <4>3, <4>5
    <3>2. QED
      BY <1>1, <1>2, <3>1 DEF UnchangedTaken
  <2>11. CopiesApart'
    <3>1. ASSUME NEW h \in DOMAIN head, match'[h] = 0, head[at].file # base[b].file
          PROVE  b \notin Bucket("fallback", head[h])
      <4>1. match[h] = 0
        BY <2>2, <2>3, <3>1
      <4>2. pass = 3
        BY <1>1, <2>1, <2>2, <3>1, KeysAre, PassesAre
      <4>3. Over(2, h)
        BY <4>2 DEF Over
      <4>4. Bucket("fallback", head[h]) \subseteq Matched
        BY <4>1, <4>3, PassesAre DEF Tried
      <4>5. QED
        BY <2>1, <4>4
    <3>2. QED
      BY <1>1, <1>2, <2>2, <2>3, <3>1 DEF CopiesApart
  <2>12. QED
    BY <2>5, <2>6, <2>8, <2>9, <2>10, <2>11
<1>6. QED
  BY <1>4, <1>5, TurnTakesFree

\* The next pass begins with every finding tried in the ones before.
LEMMA PassKeeps ==
  ASSUME DeltaIInv, NextPass
  PROVE  DeltaIInv'
<1> USE DEF DeltaIInv, inputVars
<1>1. /\ pass \in {1, 2, 3} /\ at > Len(head) /\ pass' = pass + 1 /\ at' = 1
      /\ UNCHANGED <<rule, head, base, match, crossFileMatchCount>>
  BY PassesAre DEF NextPass, DeltaTypeOK
<1>2. /\ \A kind, d : Bucket(kind, d)' = Bucket(kind, d)
      /\ Matched' = Matched
  BY <1>1, BucketsKept DEF Matched
<1>3. \A q \in {1, 2, 3}, h \in DOMAIN head : Over(q, h)' => Over(q, h)
  BY <1>1 DEF Over, DeltaTypeOK
<1>4. DeltaTypeOK'
  BY <1>1, PassesAre DEF DeltaTypeOK, Findings
<1>5. MatchedOnce' /\ Narrowest' /\ CopiesApart'
  BY <1>1, <1>2 DEF MatchedOnce, Narrowest, CopiesApart
<1>6. Tried' /\ UnchangedTaken'
  BY <1>1, <1>2, <1>3, PassesAre DEF Tried, UnchangedTaken
<1>7. QED
  BY <1>4, <1>5, <1>6

\* So it holds at all times.
LEMMA DeltaInvariant ==
  DeltaSpec => []DeltaIInv
<1>1. DeltaInit => DeltaIInv
  BY DeltaStarts
<1>2. DeltaIInv /\ [DeltaNext]_deltaVars => DeltaIInv'
  <2> SUFFICES ASSUME DeltaIInv, [DeltaNext]_deltaVars PROVE DeltaIInv'
    OBVIOUS
  <2>1. CASE MatchCandidate
    BY <2>1, TurnKeeps
  <2>2. CASE NextPass
    BY <2>2, PassKeeps
  <2>3. CASE UNCHANGED deltaVars
    <3>1. /\ UNCHANGED <<rule, head, base, pass, at, match, crossFileMatchCount>>
          /\ \A kind, d : Bucket(kind, d)' = Bucket(kind, d)
      BY <2>3, BucketsKept DEF deltaVars, inputVars
    <3>2. DeltaTypeOK' /\ MatchedOnce' /\ Narrowest' /\ CopiesApart'
      BY <3>1 DEF DeltaIInv, DeltaTypeOK, Findings, MatchedOnce, Narrowest, CopiesApart
    <3>3. Tried' /\ UnchangedTaken'
      BY <3>1 DEF DeltaIInv, Tried, UnchangedTaken, Over, Matched
    <3>4. QED
      BY <3>2, <3>3 DEF DeltaIInv
  <2>4. QED
    BY <2>1, <2>2, <2>3 DEF DeltaNext
<1>3. QED
  BY <1>1, <1>2, PTL DEF DeltaSpec

\* The types of the matching passes, for heads and bases of any length.
THEOREM DeltaTypeCorrect ==
  DeltaSpec => []DeltaTypeOK
<1>1. DeltaIInv => DeltaTypeOK
  BY DEF DeltaIInv
<1>2. QED
  BY <1>1, DeltaInvariant, PTL

\* computeDiagnosticDelta reports no finding as new that has its unchanged twin in the
\* base, but for a surplus of twins in the head.
THEOREM UnchangedNeverNew ==
  DeltaSpec => []UnchangedIsNotNew
<1>1. DeltaIInv => UnchangedIsNotNew
  <2> SUFFICES ASSUME DeltaIInv, Done, NEW h \in NewDiagnostics, NEW b \in DOMAIN base,
                      head[h] = base[b], head[h].text # NoText
               PROVE  \E other \in DOMAIN head : match[other] = b /\ head[other] = head[h]
    BY DEF UnchangedIsNotNew
  <2> USE DEF DeltaIInv
  <2>1. h \in DOMAIN head /\ match[h] = 0
    BY DEF NewDiagnostics
  <2>2. Over(1, h)
    BY PassesAre DEF Done, Over, DeltaTypeOK
  <2>3. b \in Bucket("sameFile", head[h])
    BY <2>1, KeysAre
  <2>4. QED
    BY <2>1, <2>2, <2>3 DEF UnchangedTaken
<1>2. QED
  BY <1>1, DeltaInvariant, PTL

\* There are as many matched findings of the base as of the head.
LEMMA MatchesCounted ==
  ASSUME DeltaTypeOK, MatchedOnce
  PROVE  Cardinality(NewDiagnostics) + Cardinality(Matched) = Len(head)
<1> DEFINE Paired == {h \in DOMAIN head : match[h] # 0}
           pair == [h \in Paired |-> match[h]]
<1>1. DOMAIN head = 1..Len(head) /\ Len(head) \in Nat
  BY DEF DeltaTypeOK
<1>2. IsFiniteSet(DOMAIN head) /\ Cardinality(DOMAIN head) = Len(head)
  <2>1. /\ IsFiniteSet(1..Len(head))
        /\ Cardinality(1..Len(head)) = IF 1 > Len(head) THEN 0 ELSE Len(head) - 1 + 1
    BY <1>1, FS_Interval
  <2>2. QED
    BY <1>1, <2>1
<1>3. pair \in Bijection(Paired, Matched)
  <2>1. pair \in [Paired -> Matched]
    BY DEF Matched
  <2>2. \A g, h \in Paired : pair[g] = pair[h] => g = h
    BY DEF MatchedOnce
  <2>3. \A m \in Matched : \E h \in Paired : pair[h] = m
    BY DEF Matched
  <2>4. QED
    BY <2>1, <2>2, <2>3 DEF Bijection, Injection, Surjection, IsInjective
<1>4. IsFiniteSet(Paired) /\ Cardinality(Matched) = Cardinality(Paired)
  BY <1>2, <1>3, FS_Subset, FS_Bijection DEF ExistsBijection
<1>5. NewDiagnostics = DOMAIN head \ Paired
  BY DEF NewDiagnostics
<1>6. Cardinality(NewDiagnostics) = Cardinality(DOMAIN head) - Cardinality(DOMAIN head \cap Paired)
  BY <1>2, <1>5, FS_Difference
<1>7. DOMAIN head \cap Paired = Paired
  OBVIOUS
<1>8. Cardinality(NewDiagnostics) = Len(head) - Cardinality(Matched)
  BY <1>2, <1>4, <1>6, <1>7
<1>9. Cardinality(Matched) \in Nat
  BY <1>4, FS_CardinalityType
<1>10. QED
  BY <1>1, <1>8, <1>9

\* What is new and what is fixed could not have been matched, and the counts add up.
THEOREM NoMatchMissed ==
  DeltaSpec => []NoMatchIsMissed
<1>1. DeltaIInv => NoMatchIsMissed
  <2> SUFFICES ASSUME DeltaIInv, Done PROVE NoMatchIsMissed
    BY DEF NoMatchIsMissed
  <2> USE DEF DeltaIInv
  <2>1. ASSUME NEW h \in NewDiagnostics, NEW b \in Fixed, NEW q \in DOMAIN Passes,
               KeyOf(Passes[q], head[h]) = KeyOf(Passes[q], base[b])
        PROVE  KeyOf(Passes[q], head[h]) = NoKey
    <3>1. h \in DOMAIN head /\ match[h] = 0 /\ b \in DOMAIN base /\ b \notin Matched
      BY DEF NewDiagnostics, Fixed
    <3>2. Over(q, h)
      BY PassesAre DEF Done, Over, DeltaTypeOK
    <3>3. b \notin Bucket(Passes[q], head[h])
      BY <3>1, <3>2 DEF Tried
    <3>4. QED
      BY <2>1, <3>1, <3>3 DEF Bucket
  <2>2. \A h \in NewDiagnostics, b \in Fixed : \A kind \in {"sameFile", "fallback", "anyFile"} :
          KeyOf(kind, head[h]) = KeyOf(kind, base[b]) => KeyOf(kind, head[h]) = NoKey
    BY <2>1, PassesAre
  <2>3. Cardinality(NewDiagnostics) + Len(base) = FixedCount + Len(head)
    <3>1. IsFiniteSet(NewDiagnostics) /\ IsFiniteSet(Matched)
      <4>1. IsFiniteSet(1..Len(head)) /\ IsFiniteSet(1..Len(base))
        BY FS_Interval DEF DeltaTypeOK
      <4>2. NewDiagnostics \subseteq 1..Len(head) /\ Matched \subseteq 1..Len(base)
        BY DEF DeltaTypeOK, NewDiagnostics, Matched
      <4>3. QED
        BY <4>1, <4>2, FS_Subset
    <3>2. Cardinality(NewDiagnostics) \in Nat /\ Cardinality(Matched) \in Nat
      BY <3>1, FS_CardinalityType
    <3>3. Len(head) \in Nat /\ Len(base) \in Nat
      BY DEF DeltaTypeOK
    <3>4. QED
      BY <3>2, <3>3, MatchesCounted DEF FixedCount
  <2>4. QED
    BY <2>2, <2>3 DEF NoMatchIsMissed
<1>2. QED
  BY <1>1, DeltaInvariant, PTL

\* A finding that moved to another file never takes the place of one that was only
\* reformatted where it is.
THEOREM CopiesNeverConsume ==
  DeltaSpec => []CopiesDoNotConsume
<1>1. DeltaIInv => CopiesDoNotConsume
  <2> SUFFICES ASSUME DeltaIInv, Done, NEW copy \in DOMAIN head, NEW h \in NewDiagnostics,
                      match[copy] # 0, head[copy].file # base[match[copy]].file,
                      SameFileFallbackKey(head[h]) # NoKey,
                      SameFileFallbackKey(head[h]) = SameFileFallbackKey(base[match[copy]])
               PROVE  FALSE
    BY DEF CopiesDoNotConsume
  <2> USE DEF DeltaIInv
  <2>1. h \in DOMAIN head /\ match[h] = 0 /\ match[copy] \in DOMAIN base
    BY DEF NewDiagnostics, DeltaTypeOK
  <2>2. match[copy] \in Bucket("fallback", head[h])
    BY <2>1 DEF Bucket, KeyOf
  <2>3. QED
    BY <2>1, <2>2 DEF CopiesApart
<1>2. QED
  BY <1>1, DeltaInvariant, PTL
=============================================================================
