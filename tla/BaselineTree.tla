---------------------------- MODULE BaselineTree ----------------------------
(***************************************************************************)
(* A comparison with a base revision, as run-baseline-comparison.ts makes  *)
(* it after the scan of a change: the base's tree is put together in a     *)
(* temporary directory, the changed files from git and, for the            *)
(* maintainability analysis, the unchanged ones from the working tree; it  *)
(* is scanned, and its findings are subtracted from those of the change.   *)
(*                                                                         *)
(* Meanwhile the user goes on working.  What is compared depends on two    *)
(* looks at git and a listing of the files, all made at different times.   *)
(***************************************************************************)
EXTENDS Naturals, FiniteSets

CONSTANTS
  Files,        \* the source files that exist on either side
  Contents,     \* what a file can contain
  Absent,       \* there is no such file
  Base,         \* the base revision: what each file contains there
  Excluded,     \* the files of projects below this one, which have scans of their own
  Ignorable,    \* what git may be told to ignore: sets of files
  Options,      \* the options a scan may have
  NoPlan,       \* no diff plan is known
  NoTree,       \* there is no temporary directory
  NoReport,     \* no comparison was made
  MaxEdits,     \* bound: how often the user changes a file
  MaxTroubles   \* bound: how often a step fails, or is out of time

\* What differs on either side, and a tree of files.
Plans == [baseFiles : SUBSET Files, headFiles : SUBSET Files]
Trees == [Files -> Contents \cup {Absent}]

ASSUME BaselineAssumption ==
  /\ Absent \notin Contents /\ NoPlan \notin Plans
  /\ Base \in Trees
  /\ Excluded \subseteq Files
  /\ Ignorable \subseteq SUBSET Files
  /\ Options \subseteq [planGiven : BOOLEAN, deadCode : BOOLEAN, lint : BOOLEAN,
                        includeUntracked : BOOLEAN]
  /\ MaxEdits \in Nat /\ MaxTroubles \in Nat

VARIABLES
  worktree,      \* the user's files
  index,         \* the files git tracks
  ignored,       \* the files that git does not tell of unless it tracks them
  options,
  includePaths,  \* the files of the change, as the scan was told
  plan,          \* baseFiles and headFiles: what differs on either side
  untracked,     \* untrackedFiles
  analyzed,      \* headAnalyzedFiles
  sourceFiles,   \* maintainabilitySourceFiles
  phase,
  tree,          \* the temporary directory
  materialized,  \* the files taken from git
  uncopied,      \* the files still to be taken from the working tree
  copiedAll,     \* no copy has failed
  report,        \* what was compared with what
  touched,       \* history: the files the user has changed since the plan was made, or,
                 \* where none was handed over, since the listing
  blind,         \* history: git was of no use when the untracked files were wanted
  mislisted,     \* history: the files that a walk has listed, or left out, wrongly
  edits, troubles

userVars == <<worktree, index, ignored, touched, edits>>
planVars == <<options, includePaths, plan, untracked, analyzed, sourceFiles, blind, mislisted>>
treeVars == <<tree, materialized, uncopied, copiedAll>>
vars == <<userVars, planVars, treeVars, phase, report, troubles>>

----------------------------------------------------------------------------
(* What git says *)

Present == {f \in Files : worktree[f] # Absent}
Untracked == (Present \ index) \ ignored

\* git diff looks at a file through the index: one it does not track is gone for it.
HeadContent(f) == IF f \in index THEN worktree[f] ELSE Absent
Differing == {f \in Files : HeadContent(f) # Base[f]}
DiffPlan ==
  [baseFiles |-> {f \in Differing : Base[f] # Absent},
   headFiles |-> {f \in Differing : HeadContent(f) # Absent}]

\* git ls-files names what is in the index, be it in the working tree or not.
Listed == index \cup Untracked

Init ==
  /\ worktree \in Trees
  /\ index \in SUBSET Files
  /\ ignored \in Ignorable
  /\ options \in Options
  /\ includePaths = DiffPlan.headFiles \cup
                    (IF options.includeUntracked THEN Untracked ELSE {})
  /\ plan = NoPlan
  /\ untracked = {}
  /\ analyzed = {}
  /\ sourceFiles = {}
  /\ phase = "selected"
  /\ tree = NoTree
  /\ materialized = {}
  /\ uncopied = {}
  /\ copiedAll = TRUE
  /\ report = NoReport
  /\ touched = {}
  /\ blind = FALSE /\ mislisted = {}
  /\ edits = 0 /\ troubles = 0

Trouble == troubles < MaxTroubles /\ troubles' = troubles + 1

----------------------------------------------------------------------------
(* The scan of the change *)

\* buildProjectScanPlan, with the first look at git.  A change that only deletes is
\* scanned for what it has deleted.  If git is of no use there will be no comparison.
Planned ==
  /\ phase = "selected" /\ options.planGiven
  /\ plan' = DiffPlan
  /\ includePaths' = IF includePaths = {} THEN DiffPlan.baseFiles ELSE includePaths
  /\ phase' = IF includePaths' = {} THEN "omitted" ELSE "planned"
  /\ touched' = {}
  /\ UNCHANGED <<worktree, index, ignored, edits, options, untracked, analyzed, sourceFiles, blind, mislisted, treeVars,
                 report, troubles>>
PlanFails ==
  /\ phase = "selected" /\ options.planGiven
  /\ Trouble
  /\ phase' = "degraded"
  /\ UNCHANGED <<userVars, planVars, treeVars, report>>

\* A host that calls inspect itself need not know a plan.
Unplanned ==
  /\ phase = "selected" /\ ~options.planGiven
  /\ phase' = IF includePaths = {} THEN "omitted" ELSE "planned"
  /\ UNCHANGED <<userVars, planVars, treeVars, report, troubles>>

\* The scan of the change, which is one step here.  Unless it is complete there is no
\* comparison.
HeadScanned ==
  /\ phase = "planned"
  /\ analyzed' = IF options.lint THEN includePaths \ Excluded ELSE {}
  /\ phase' = "scanned"
  /\ UNCHANGED <<userVars, options, includePaths, plan, untracked, sourceFiles, blind, mislisted, treeVars,
                 report, troubles>>
HeadScanFails ==
  /\ phase = "planned"
  /\ Trouble
  /\ phase' = "degraded"
  /\ UNCHANGED <<userVars, planVars, treeVars, report>>

----------------------------------------------------------------------------
(* runBaselineComparison *)

\* Where git is of no use the directories are walked.  A walk finds what there is,
\* whether git ignores it or not, but nothing in a directory that it cannot read.
ListedByWalk ==
  /\ Trouble
  /\ sourceFiles' \in SUBSET Present
  /\ mislisted' = (sourceFiles' \ Listed) \cup ((index \cap Present) \ sourceFiles')

\* listSourceFilesCooperative, which only the maintainability analysis needs.
ListSources ==
  \/ /\ sourceFiles' = IF options.deadCode THEN Listed ELSE {}
     /\ UNCHANGED <<mislisted, troubles>>
  \/ options.deadCode /\ ListedByWalk

\* The source files are listed, and the temporary directory is made.
Begin ==
  /\ phase = "scanned"
  /\ ListSources
  /\ tree' = [f \in Files |-> Absent]
  /\ phase' = "listed"
  /\ touched' = IF options.planGiven THEN touched ELSE {}
  /\ UNCHANGED <<worktree, index, ignored, edits, options, includePaths, plan, untracked, analyzed, blind,
                 materialized, uncopied, copiedAll, report>>

\* Before there is a directory, the time is up or an abort ends the listing.
BeginFails ==
  /\ phase = "scanned"
  /\ Trouble
  /\ phase' \in {"degraded", "failed"}
  /\ UNCHANGED <<userVars, planVars, treeVars, report>>

\* The first half of the second look at git: what differs now.
DiffAgain ==
  /\ phase = "listed"
  /\ plan' = IF plan = NoPlan THEN DiffPlan ELSE plan
  /\ phase' = "diffed"
  /\ UNCHANGED <<userVars, options, includePaths, untracked, analyzed, sourceFiles, blind, mislisted, treeVars,
                 report, troubles>>

\* And the second: what is not tracked now.
ListUntracked ==
  /\ phase = "diffed"
  /\ untracked' = Untracked
  /\ phase' = "looked"
  /\ UNCHANGED <<userVars, options, includePaths, plan, analyzed, sourceFiles, blind, mislisted, treeVars,
                 report, troubles>>

\* Either half fails.  With a plan at hand the comparison goes on, and takes it that
\* nothing is untracked; without one it is given up.
LookFails ==
  /\ phase \in {"listed", "diffed"}
  /\ Trouble
  /\ IF options.planGiven
     THEN /\ phase' = "looked" /\ blind' = TRUE
          /\ UNCHANGED tree
     ELSE /\ phase' = "degraded"
          /\ tree' = NoTree
          /\ UNCHANGED blind
  /\ UNCHANGED <<userVars, options, includePaths, plan, untracked, analyzed, sourceFiles, mislisted,
                 materialized, uncopied, copiedAll, report>>

\* Only the maintainability analysis looks at the projects below.
InScope(files) == IF options.deadCode THEN files ELSE files \ Excluded

\* The plan as it is handed over, and as the comparison itself would find it.
BaseFiles == IF options.planGiven THEN InScope(plan.baseFiles) ELSE plan.baseFiles
HeadFiles == IF options.planGiven THEN InScope(plan.headFiles) ELSE plan.headFiles

\* isComplete: whatever must exist at the base has been taken from there.
IsComplete(files) == BaseFiles \subseteq files

\* A slip: what git has shown is taken from the working tree as well.
MutantUnshown(files) == (sourceFiles \ HeadFiles) \ untracked

\* A slip: files that differ are taken from the working tree if they were added.
MutantUnchanged(files) == (sourceFiles \ files) \ untracked

\* copyUnchangedBaselineSources: which files may be taken from the working tree.
Unchanged(files) == ((sourceFiles \ files) \ HeadFiles) \ untracked

\* materializeBaselineFiles: each file of the change and of the plan, as it is at the base.
\* git may fail to show some.  Nobody else sees the tree, and what is committed does not
\* change, so it is one step.
Materialize(unshown) ==
  LET shown == {f \in (InScope(includePaths) \cup BaseFiles) \ unshown : Base[f] # Absent}
  IN
  /\ phase = "looked"
  /\ IF unshown = {} THEN UNCHANGED troubles ELSE Trouble
  /\ IF IsComplete(shown)
     THEN /\ tree' = [f \in Files |-> IF f \in shown THEN Base[f] ELSE Absent]
          /\ materialized' = shown
          /\ uncopied' = Unchanged(shown)
          /\ phase' = "copying"
     ELSE /\ tree' = NoTree
          /\ phase' = "degraded"
          /\ UNCHANGED <<materialized, uncopied>>
  /\ UNCHANGED <<userVars, planVars, copiedAll, report>>

\* One file is taken from the working tree, as it is now.
Copy(f) ==
  /\ phase = "copying" /\ f \in uncopied
  /\ uncopied' = uncopied \ {f}
  /\ tree' = [tree EXCEPT ![f] = worktree[f]]
  /\ copiedAll' = (copiedAll /\ worktree[f] # Absent)
  /\ UNCHANGED <<userVars, planVars, materialized, phase, report, troubles>>

\* It cannot be read, or the time is up.  The others are tried all the same.
CopyFails(f) ==
  /\ phase = "copying" /\ f \in uncopied
  /\ Trouble
  /\ uncopied' = uncopied \ {f}
  /\ copiedAll' = FALSE
  /\ UNCHANGED <<userVars, planVars, tree, materialized, phase, report>>

\* The files that must have been linted for the change, with those it was told of that
\* are none of the base's.
ExpectedHeadFiles == (HeadFiles \cup (includePaths \ BaseFiles)) \ Excluded

\* A slip: the change is compared wherever it has been linted.
MutantComparable == copiedAll

\* Everything to compare with is there, and the change has been linted where it must be.
Comparable ==
  /\ copiedAll
  /\ options.lint => ExpectedHeadFiles \subseteq analyzed

\* What the base's scan lints: the files that git showed.
Linted == IF options.lint
          THEN materialized \cap ((includePaths \cup BaseFiles) \ Excluded) ELSE {}

\* A slip: only the untracked files that the scan was told of are looked for.
MutantUnscanned == ~ (untracked \cap includePaths \subseteq analyzed)

\* hasUnscannedUntrackedSourceFiles: a finding may have moved to where nobody looked.
Unscanned == ~ (untracked \ Excluded \subseteq analyzed)

\* The base is scanned, compared, and removed.
Compare ==
  /\ phase = "copying" /\ uncopied = {} /\ Comparable
  /\ report' = [tree |-> tree, linted |-> Linted, fixedCounted |-> ~Unscanned]
  /\ tree' = NoTree
  /\ phase' = "compared"
  /\ UNCHANGED <<userVars, planVars, materialized, uncopied, copiedAll, troubles>>

\* It is not comparable, or its own scan falls short: no comparison.
GiveUp ==
  /\ phase = "copying" /\ uncopied = {}
  /\ IF Comparable THEN Trouble ELSE UNCHANGED troubles
  /\ tree' = NoTree
  /\ phase' = "degraded"
  /\ UNCHANGED <<userVars, planVars, materialized, uncopied, copiedAll, report>>

\* Something throws while there is a tree: the disk is full, or the scan is aborted.
Fail ==
  /\ phase \in {"listed", "diffed", "looked", "copying"}
  /\ Trouble
  /\ tree' = NoTree
  /\ phase' = "failed"
  /\ UNCHANGED <<userVars, planVars, materialized, uncopied, copiedAll, report>>

----------------------------------------------------------------------------
(* The user *)

Running == phase \notin {"omitted", "compared", "degraded", "failed"}

\* Saves, deletes or brings back a file, with or without git, or has git ignore it.
Touch(f) ==
  /\ Running /\ edits < MaxEdits
  /\ edits' = edits + 1
  /\ touched' = touched \cup {f}
  /\ \/ \E c \in (Contents \cup {Absent}) \ {worktree[f]} : worktree' = [worktree EXCEPT ![f] = c]
        /\ UNCHANGED <<index, ignored>>
     \/ /\ index' \in {index \cup {f}, index \ {f}} \ {index}
        /\ UNCHANGED <<worktree, ignored>>
     \/ /\ ignored' \in ({ignored \cup {f}, ignored \ {f}} \cap Ignorable) \ {ignored}
        /\ UNCHANGED <<worktree, index>>
  /\ UNCHANGED <<planVars, treeVars, phase, report, troubles>>

Next ==
  \/ Planned \/ PlanFails \/ Unplanned \/ HeadScanned \/ HeadScanFails
  \/ Begin \/ BeginFails \/ DiffAgain \/ ListUntracked \/ LookFails
  \/ \E unshown \in SUBSET Files : Materialize(unshown)
  \/ \E f \in Files : Copy(f) \/ CopyFails(f)
  \/ Compare \/ GiveUp \/ Fail
  \/ \E f \in Files : Touch(f)

Spec == Init /\ [][Next]_vars

Reports == [tree : Trees, linted : SUBSET Files, fixedCounted : BOOLEAN]
Phases == {"selected", "planned", "scanned", "listed", "diffed", "looked", "copying",
           "omitted", "compared", "degraded", "failed"}
TypeOK ==
  /\ worktree \in Trees
  /\ index \in SUBSET Files /\ ignored \in Ignorable /\ touched \in SUBSET Files
  /\ options \in Options
  /\ includePaths \in SUBSET Files /\ analyzed \in SUBSET Files
  /\ plan \in Plans \cup {NoPlan}
  /\ untracked \in SUBSET Files /\ sourceFiles \in SUBSET Files /\ mislisted \in SUBSET Files
  /\ phase \in Phases
  /\ phase \in {"listed", "diffed", "looked", "copying"} => tree \in Trees
  /\ materialized \in SUBSET Files /\ uncopied \in SUBSET Files
  /\ copiedAll \in BOOLEAN /\ blind \in BOOLEAN
  /\ phase = "compared" => report \in Reports
  /\ edits \in Nat /\ troubles \in Nat

----------------------------------------------------------------------------
(* Properties *)

\* What is compared with is the base, whatever the user does meanwhile: the files that
\* differ are as git has them, and with the maintainability analysis so is every other
\* file the user has not changed since, the ones that do not exist at the base included.
\* But it has untracked files that git could not name; and where the files had to be
\* walked, ones that git ignores, and none of a directory that could not be read
\* (list-source-files.ts, lines 185-196; copy-unchanged-baseline-sources.ts, line 26).
BaseIsTheBase ==
  phase = "compared" =>
    LET settled == {f \in Files \ (touched \cup mislisted) :
                      options.deadCode /\ ~(blind /\ f \in Untracked)}
    IN  \A f \in BaseFiles \cup HeadFiles \cup settled : report.tree[f] = Base[f]

\* Both sides of a change are linted, or there is no comparison: no finding is new for
\* want of its old file, nor gone for want of its new one, although the scan was told
\* of the change, and git asked, at different times.
BothSidesAreLinted ==
  phase = "compared" /\ options.lint =>
    \A f \in Differing \ (touched \cup Excluded) :
      /\ Base[f] # Absent => f \in report.linted
      /\ HeadContent(f) # Absent => f \in analyzed

\* Findings count as fixed only if every file that had some, and still exists, has been
\* linted again, and every untracked file that they may have moved to.  A file that git
\* no longer tracks and is to ignore counts as deleted.
FixedAreGone ==
  phase = "compared" /\ options.lint /\ report.fixedCounted /\ ~blind =>
    \A f \in (report.linted \cup Untracked) \ (touched \cup Excluded) :
      worktree[f] # Absent /\ f \in Listed => f \in analyzed

\* A comparison is not given up without need: unless something failed or the user
\* interfered there is one, but for a file that was added to the index and then deleted.
GivenUpForCause ==
  phase = "degraded" =>
    \/ troubles > 0 \/ edits > 0
    \/ \E f \in index : worktree[f] = Absent /\ Base[f] = Absent
=============================================================================
