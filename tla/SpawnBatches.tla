---------------------------- MODULE SpawnBatches ----------------------------
(***************************************************************************)
(* spawnLintBatches of packages/core/src/runners/oxlint/spawn-batches.ts,  *)
(* over the worker pool of utils/map-with-concurrency.ts: every batch of   *)
(* files goes to an oxlint process; a batch that is too much for one is    *)
(* split in two; what cannot be linted is dropped, or skipped when the     *)
(* scan is out of time.  A parallel pass that exhausted the machine is     *)
(* replayed with one worker, and files lost to memory pressure are tried   *)
(* once more one by one.                                                   *)
(*                                                                         *)
(* Files are what oxlint is given, numbered in the order of the batches:   *)
(* lint paths, some of them generated from a source (an .astro source is   *)
(* linted as it is and as the .tsx made from it).  A process is external:  *)
(* it answers with diagnostics, a splittable failure or an error.  Clocks  *)
(* are flags that may be set between any two steps.                        *)
(***************************************************************************)
EXTENDS Integers, Sequences, FiniteSets

CONSTANTS
  FileBatches,    \* input.fileBatches, each the set of its files
  SourcePath,     \* resolveSourcePath: the source a file is, or is made from
  Concurrency,    \* requestedConcurrency
  SplitMaxDepth,  \* input.splitMaxDepth
  NoFile,         \* no file is being rescued
  NoReason        \* null

Batches == 1..Len(FileBatches)
Files == UNION {FileBatches[b] : b \in Batches}

ASSUME SpawnBatchesAssumption ==
  /\ FileBatches \in Seq(SUBSET Nat)
  /\ \A b \in Batches : FileBatches[b] # {} /\ IsFiniteSet(FileBatches[b])
  /\ \A b, c \in Batches : b # c => FileBatches[b] \cap FileBatches[c] = {}
  /\ Concurrency \in Nat \ {0}
  /\ SplitMaxDepth \in Nat
  /\ DOMAIN SourcePath = Files
  /\ NoFile \notin Nat

\* OxlintBatchExceeded, by memory or by time, output or a signal; the errors
\* that one worker would not meet, and all the others.
Splittable == {"oom", "slow"}
Errors == {"exhausted", "fatal"}
Reasons == Splittable \cup Errors \cup {NoReason}

ASSUME NoReasonAssumption == NoReason \notin Splittable \cup Errors

VARIABLES
  stage,          \* the pass that runs: main, replay, rescue; or the end
  nextIndex,      \* the next batch a worker takes
  phase,          \* how far each batch is
  work,           \* the pieces of it that are still to be linted
  anchored,       \* the batches whose split budget runs
  splitElapsed,   \* those where it has run out
  didStart,       \* the batches that had a process
  firstError,     \* errors[0]
  linted,         \* the files whose diagnostics the pass has
  droppedFiles, oomDroppedFiles, deadlineSkippedFiles,
  firstDropReason, firstNonOomDropReason,
  displayedFileCount,
  pastDeadline,   \* deadlineEpochMs is reached
  rescueTimeUp,   \* rescueDeadlineEpochMs is reached
  rescueLeft,     \* the files the rescue has not come to
  rescueFile, rescueSpawned, rescuedFiles, firstRescueFailureReason,
  analyzedFiles,  \* what onAnalyzedFiles is told: sources
  lastFailure     \* history: why each file failed last

batchVars == <<nextIndex, phase, work, anchored, splitElapsed, didStart, firstError>>
fileVars == <<linted, droppedFiles, oomDroppedFiles, deadlineSkippedFiles>>
reasonVars == <<firstDropReason, firstNonOomDropReason, lastFailure>>
passVars == <<batchVars, fileVars, reasonVars, displayedFileCount>>
rescueVars == <<rescueLeft, rescueFile, rescueSpawned, rescuedFiles, firstRescueFailureReason>>
clockVars == <<pastDeadline, rescueTimeUp>>
vars == <<stage, passVars, rescueVars, clockVars, analyzedFiles>>

\* "ready": spawnLintBatch is called on the leftmost piece of the batch;
\* "queued": it waits for a slot; "spawned": for its process.
Phases == {"todo", "ready", "queued", "spawned", "settled", "threw"}

InFlight == {b \in Batches : phase[b] \in {"ready", "queued", "spawned"}}

\* The workers of the pass.
Workers == IF stage = "main" THEN Concurrency ELSE 1

IsPastDeadline == pastDeadline \/ rescueTimeUp

\* The sources of some lint paths.
SourcesOf(files) == {SourcePath[f] : f \in files}

Piece(files, depth) == [files |-> files, depth |-> depth]

\* The recursion works through the pieces of a batch from left to right.
Leftmost(b, p) ==
  /\ p \in work[b]
  /\ \A q \in work[b] \ {p}, f \in p.files : \A g \in q.files : f < g

\* batch.slice(0, splitIndex) with splitIndex = Math.ceil(batch.length / 2)
FirstHalf(files) ==
  {f \in files : 2 * Cardinality({g \in files : g < f}) < Cardinality(files)}

\* The second half starts one file too late.
MutantHalves(p) ==
  LET first == FirstHalf(p.files)
      rest == p.files \ first
  IN {Piece(first, p.depth + 1), Piece({f \in rest : \E g \in rest : g < f}, p.depth + 1)}

Halves(p) ==
  {Piece(FirstHalf(p.files), p.depth + 1), Piece(p.files \ FirstHalf(p.files), p.depth + 1)}

\* The local state a pass starts from.
FreshPass ==
  /\ nextIndex' = 1
  /\ phase' = [b \in Batches |-> "todo"]
  /\ work' = [b \in Batches |-> {}]
  /\ anchored' = {} /\ splitElapsed' = {} /\ didStart' = {}
  /\ firstError' = NoReason
  /\ linted' = {} /\ droppedFiles' = {} /\ oomDroppedFiles' = {} /\ deadlineSkippedFiles' = {}
  /\ firstDropReason' = NoReason /\ firstNonOomDropReason' = NoReason
  /\ lastFailure' = [f \in Files |-> NoReason]
  /\ displayedFileCount' = 0

Init ==
  /\ stage = "main"
  /\ nextIndex = 1
  /\ phase = [b \in Batches |-> "todo"]
  /\ work = [b \in Batches |-> {}]
  /\ anchored = {} /\ splitElapsed = {} /\ didStart = {}
  /\ firstError = NoReason
  /\ linted = {} /\ droppedFiles = {} /\ oomDroppedFiles = {} /\ deadlineSkippedFiles = {}
  /\ firstDropReason = NoReason /\ firstNonOomDropReason = NoReason
  /\ lastFailure = [f \in Files |-> NoReason]
  /\ displayedFileCount = 0
  /\ pastDeadline = FALSE /\ rescueTimeUp = FALSE
  /\ rescueLeft = {} /\ rescueFile = NoFile /\ rescueSpawned = FALSE
  /\ rescuedFiles = {} /\ firstRescueFailureReason = NoReason
  /\ analyzedFiles = {}

\* a ??= b
Default(a, b) == IF a = NoReason THEN b ELSE a

----------------------------------------------------------------------------
(* A batch *)

\* A worker takes the next batch, unless a task has thrown.
StartBatch(b) ==
  /\ stage \in {"main", "replay"}
  /\ firstError = NoReason
  /\ Cardinality(InFlight) < Workers
  /\ b = nextIndex
  /\ nextIndex' = b + 1
  /\ phase' = [phase EXCEPT ![b] = "ready"]
  /\ work' = [work EXCEPT ![b] = {Piece(FileBatches[b], 0)}]
  /\ UNCHANGED <<stage, anchored, splitElapsed, didStart, firstError, fileVars, reasonVars,
                 displayedFileCount, rescueVars, clockVars, analyzedFiles>>

\* The piece is skipped and the recursion goes on with the next one.
Skip(b, p) ==
  /\ deadlineSkippedFiles' = deadlineSkippedFiles \cup p.files
  /\ work' = [work EXCEPT ![b] = @ \ {p}]
  /\ phase' = [phase EXCEPT ![b] = "ready"]
  /\ UNCHANGED <<nextIndex, anchored, splitElapsed, didStart, firstError,
                 linted, droppedFiles, oomDroppedFiles, reasonVars>>

\* spawnLintBatch is called on a piece: out of time it is skipped, else the
\* call waits for a slot.  (The look at the deadline in the worker's task,
\* before the first call, skips the same files.)
CallPiece(b, p) ==
  /\ phase[b] = "ready"
  /\ Leftmost(b, p)
  /\ \/ IsPastDeadline /\ Skip(b, p)
     \/ /\ ~IsPastDeadline
        /\ phase' = [phase EXCEPT ![b] = "queued"]
        /\ UNCHANGED <<nextIndex, work, anchored, splitElapsed, didStart, firstError,
                       fileVars, reasonVars>>
  /\ UNCHANGED <<stage, displayedFileCount, rescueVars, clockVars, analyzedFiles>>

\* The slot is granted: the deadline may have passed in the queue.
GrantSlot(b, p) ==
  /\ phase[b] = "queued"
  /\ Leftmost(b, p)
  /\ \/ IsPastDeadline /\ Skip(b, p)
     \/ /\ ~IsPastDeadline
        /\ phase' = [phase EXCEPT ![b] = "spawned"]
        /\ didStart' = didStart \cup {b}
        /\ UNCHANGED <<nextIndex, work, anchored, splitElapsed, firstError, fileVars, reasonVars>>
  /\ UNCHANGED <<stage, displayedFileCount, rescueVars, clockVars, analyzedFiles>>

\* The process answers with the diagnostics of the piece.
AnswerDiagnostics(b, p) ==
  /\ phase[b] = "spawned"
  /\ Leftmost(b, p)
  /\ linted' = linted \cup p.files
  /\ work' = [work EXCEPT ![b] = @ \ {p}]
  /\ phase' = [phase EXCEPT ![b] = "ready"]
  /\ UNCHANGED <<stage, nextIndex, anchored, splitElapsed, didStart, firstError,
                 droppedFiles, oomDroppedFiles, deadlineSkippedFiles, reasonVars,
                 displayedFileCount, rescueVars, clockVars, analyzedFiles>>

\* A splittable failure after the deadline: a skip, not a drop.
FailureSkipped(b, p) ==
  /\ phase[b] = "spawned"
  /\ Leftmost(b, p)
  /\ IsPastDeadline
  /\ Skip(b, p)
  /\ UNCHANGED <<stage, displayedFileCount, rescueVars, clockVars, analyzedFiles>>

\* A slip: a single file is split like any batch.
MutantSplitSingle(b, p) == b \in splitElapsed \/ p.depth >= SplitMaxDepth

\* The piece cannot, or may not, be split any further.
Unsplittable(b, p) ==
  \/ Cardinality(p.files) <= 1
  \/ b \in splitElapsed
  \/ p.depth >= SplitMaxDepth

\* It is dropped, and the first reasons are kept.
FailureDropped(b, p, kind) ==
  /\ phase[b] = "spawned"
  /\ Leftmost(b, p)
  /\ ~IsPastDeadline
  /\ Unsplittable(b, p)
  /\ anchored' = anchored \cup {b}
  /\ droppedFiles' = droppedFiles \cup p.files
  /\ oomDroppedFiles' = IF kind = "oom" THEN oomDroppedFiles \cup p.files ELSE oomDroppedFiles
  /\ firstDropReason' = Default(firstDropReason, kind)
  /\ firstNonOomDropReason' =
       IF kind = "oom" THEN firstNonOomDropReason ELSE Default(firstNonOomDropReason, kind)
  /\ lastFailure' = [f \in Files |-> IF f \in p.files THEN kind ELSE lastFailure[f]]
  /\ work' = [work EXCEPT ![b] = @ \ {p}]
  /\ phase' = [phase EXCEPT ![b] = "ready"]
  /\ UNCHANGED <<stage, nextIndex, splitElapsed, didStart, firstError, linted,
                 deadlineSkippedFiles, displayedFileCount, rescueVars, clockVars, analyzedFiles>>

\* It is split, and the first failure of the batch starts its split budget.
FailureSplit(b, p) ==
  /\ phase[b] = "spawned"
  /\ Leftmost(b, p)
  /\ ~IsPastDeadline
  /\ ~Unsplittable(b, p)
  /\ anchored' = anchored \cup {b}
  /\ work' = [work EXCEPT ![b] = (@ \ {p}) \cup Halves(p)]
  /\ phase' = [phase EXCEPT ![b] = "ready"]
  /\ UNCHANGED <<stage, nextIndex, splitElapsed, didStart, firstError, fileVars, reasonVars,
                 displayedFileCount, rescueVars, clockVars, analyzedFiles>>

\* An error of the process, an answer that cannot be parsed, or the abort of the
\* scan, in the queue too: the task throws.
AnswerError(b, error) ==
  /\ phase[b] = "spawned" \/ (phase[b] = "queued" /\ error = "fatal")
  /\ phase' = [phase EXCEPT ![b] = "threw"]
  /\ firstError' = Default(firstError, error)
  /\ UNCHANGED <<stage, nextIndex, work, anchored, splitElapsed, didStart, fileVars, reasonVars,
                 displayedFileCount, rescueVars, clockVars, analyzedFiles>>

Answer(b) ==
  \E p \in work[b] :
    \/ AnswerDiagnostics(b, p) \/ FailureSkipped(b, p) \/ FailureSplit(b, p)
    \/ \E kind \in Splittable : FailureDropped(b, p, kind)

----------------------------------------------------------------------------
(* Progress *)

\* startedFileCount and scannedFileCount, which count whole batches as they
\* get their first process and as they settle, less what they skipped.  (The
\* slip: less nothing.)
StartedFileCount == Cardinality(UNION {FileBatches[b] : b \in didStart})
MutantScannedFileCount ==
  Cardinality(UNION {FileBatches[b] : b \in {c \in Batches : phase[c] = "settled"}})
ScannedFileCount ==
  Cardinality((UNION {FileBatches[b] : b \in {c \in Batches : phase[c] = "settled"}})
              \ deadlineSkippedFiles)
TotalFileCount == Cardinality(Files)

\* The task of a worker ends, and the displayed count catches up.
FinishBatch(b) ==
  /\ phase[b] = "ready"
  /\ work[b] = {}
  /\ phase' = [phase EXCEPT ![b] = "settled"]
  /\ UNCHANGED <<stage, nextIndex, work, anchored, splitElapsed, didStart, firstError, fileVars,
                 reasonVars, rescueVars, clockVars, analyzedFiles>>
  /\ displayedFileCount' =
       IF b \in didStart /\ ScannedFileCount' > displayedFileCount
       THEN ScannedFileCount' ELSE displayedFileCount

\* The progress timer, cleared at the end of the pass.
Tick ==
  /\ stage \in {"main", "replay"}
  /\ displayedFileCount < StartedFileCount
  /\ displayedFileCount < TotalFileCount - 1
  /\ displayedFileCount' = displayedFileCount + 1
  /\ UNCHANGED <<stage, batchVars, fileVars, reasonVars, rescueVars, clockVars, analyzedFiles>>

----------------------------------------------------------------------------
(* The passes *)

\* Slips: the files skipped for time count as analyzed; the pass ends at the
\* first error like Promise.all; the replay may be replayed.
MutantReport(dropped) ==
  /\ stage' = "done"
  /\ droppedFiles' = dropped
  /\ analyzedFiles' = SourcesOf(Files \ dropped)

MutantPassThrows ==
  /\ stage \in {"main", "replay"}
  /\ firstError # NoReason
  /\ \/ /\ stage = "main" /\ Concurrency > 1 /\ firstError = "exhausted"
        /\ stage' = "replay"
        /\ FreshPass
     \/ /\ ~(stage = "main" /\ Concurrency > 1 /\ firstError = "exhausted")
        /\ stage' = "failed"
        /\ UNCHANGED passVars
  /\ UNCHANGED <<rescueVars, clockVars, analyzedFiles>>

MutantReplay ==
  /\ stage \in {"main", "replay"}
  /\ firstError # NoReason
  /\ InFlight = {}
  /\ IF Concurrency > 1 /\ firstError = "exhausted"
     THEN stage' = "replay" /\ FreshPass
     ELSE stage' = "failed" /\ UNCHANGED passVars
  /\ UNCHANGED <<rescueVars, clockVars, analyzedFiles>>

\* What is handed to onAnalyzedFiles after the last pass, as sources.
Report(dropped) ==
  /\ stage' = "done"
  /\ droppedFiles' = dropped
  /\ analyzedFiles' = SourcesOf(Files \ (dropped \cup deadlineSkippedFiles))

\* droppedSourceFiles and deadlineSkippedSourceFiles: the sources the two
\* partial failures of the report name.
ReportedSources == SourcesOf(droppedFiles \cup deadlineSkippedFiles)

\* mapWithConcurrency throws errors[0] when every worker has stopped; the pool
\* that exhausted the machine is replaced by a single worker, once.
PassThrows ==
  /\ stage \in {"main", "replay"}
  /\ firstError # NoReason
  /\ InFlight = {}
  /\ \/ /\ stage = "main" /\ Concurrency > 1 /\ firstError = "exhausted"
        /\ stage' = "replay"
        /\ FreshPass
     \/ /\ ~(stage = "main" /\ Concurrency > 1 /\ firstError = "exhausted")
        /\ stage' = "failed"
        /\ UNCHANGED passVars
  /\ UNCHANGED <<rescueVars, clockVars, analyzedFiles>>

\* Every batch has settled: files lost to memory pressure in a parallel pass
\* are rescued if there is time, else the scan reports.
PassEnds ==
  /\ stage \in {"main", "replay"}
  /\ \A b \in Batches : phase[b] = "settled"
  /\ \/ /\ oomDroppedFiles # {} /\ Workers > 1 /\ ~IsPastDeadline
        /\ stage' = "rescue"
        /\ rescueLeft' = oomDroppedFiles
        /\ UNCHANGED <<droppedFiles, analyzedFiles>>
     \/ /\ ~(oomDroppedFiles # {} /\ Workers > 1 /\ ~IsPastDeadline)
        /\ Report(droppedFiles)
        /\ UNCHANGED rescueLeft
  /\ UNCHANGED <<batchVars, linted, oomDroppedFiles, deadlineSkippedFiles, reasonVars,
                 displayedFileCount, rescueFile, rescueSpawned, rescuedFiles,
                 firstRescueFailureReason, clockVars>>

----------------------------------------------------------------------------
(* The rescue: a pass of one worker over one file, for each file in turn *)

RescueCall(f) ==
  /\ stage = "rescue"
  /\ rescueFile = NoFile
  /\ f \in rescueLeft
  /\ ~IsPastDeadline
  /\ rescueFile' = f
  /\ rescueLeft' = rescueLeft \ {f}
  /\ UNCHANGED <<stage, passVars, rescueSpawned, rescuedFiles, firstRescueFailureReason,
                 clockVars, analyzedFiles>>

\* The deadline is looked at again when the slot is granted.
RescueSpawn ==
  /\ rescueFile # NoFile
  /\ ~rescueSpawned
  /\ \/ IsPastDeadline /\ rescueFile' = NoFile /\ UNCHANGED rescueSpawned
     \/ ~IsPastDeadline /\ rescueSpawned' = TRUE /\ UNCHANGED rescueFile
  /\ UNCHANGED <<stage, passVars, rescueLeft, rescuedFiles, firstRescueFailureReason,
                 clockVars, analyzedFiles>>

RescueDiagnostics ==
  /\ rescueSpawned
  /\ linted' = linted \cup {rescueFile}
  /\ rescuedFiles' = rescuedFiles \cup {rescueFile}
  /\ rescueFile' = NoFile /\ rescueSpawned' = FALSE
  /\ UNCHANGED <<stage, batchVars, droppedFiles, oomDroppedFiles, deadlineSkippedFiles, reasonVars,
                 displayedFileCount, rescueLeft, firstRescueFailureReason, clockVars, analyzedFiles>>

\* The file fails again, in whatever way, and only it stays dropped; a failure
\* past the deadline gives no reason.
RescueFailure(kind) ==
  /\ rescueSpawned \/ (rescueFile # NoFile /\ kind = "fatal")
  /\ IF kind \in Splittable /\ IsPastDeadline
     THEN UNCHANGED <<firstRescueFailureReason, lastFailure>>
     ELSE /\ firstRescueFailureReason' = Default(firstRescueFailureReason, kind)
          /\ lastFailure' = [lastFailure EXCEPT ![rescueFile] = kind]
  /\ rescueFile' = NoFile /\ rescueSpawned' = FALSE
  /\ UNCHANGED <<stage, batchVars, fileVars, firstDropReason, firstNonOomDropReason,
                 displayedFileCount, rescueLeft, rescuedFiles, clockVars, analyzedFiles>>

\* Slips: the report still names the first failure of the pass; all the files
\* of the rescue are taken for rescued.
MutantRescueReason(dropped) == IF dropped = {} THEN NoReason ELSE firstDropReason

MutantRescueEnds ==
  /\ stage = "rescue"
  /\ rescueFile = NoFile
  /\ rescueLeft = {} \/ IsPastDeadline
  /\ Report(droppedFiles \ oomDroppedFiles)
  /\ firstDropReason' = firstNonOomDropReason
  /\ rescueTimeUp' = FALSE
  /\ UNCHANGED <<batchVars, linted, oomDroppedFiles, deadlineSkippedFiles, firstNonOomDropReason,
                 lastFailure, displayedFileCount, rescueVars, pastDeadline>>

\* The reason that is reported after a rescue.
RescueReason(dropped) ==
  IF dropped = {} THEN NoReason
  ELSE Default(firstRescueFailureReason, Default(firstNonOomDropReason, firstDropReason))

RescueEnds ==
  /\ stage = "rescue"
  /\ rescueFile = NoFile
  /\ rescueLeft = {} \/ IsPastDeadline
  /\ Report(droppedFiles \ rescuedFiles)
  /\ firstDropReason' = RescueReason(droppedFiles \ rescuedFiles)
  /\ rescueTimeUp' = FALSE
  /\ UNCHANGED <<batchVars, linted, oomDroppedFiles, deadlineSkippedFiles, firstNonOomDropReason,
                 lastFailure, displayedFileCount, rescueVars, pastDeadline>>

----------------------------------------------------------------------------
(* The clocks *)

DeadlinePasses ==
  /\ stage \in {"main", "replay", "rescue"}
  /\ ~pastDeadline
  /\ pastDeadline' = TRUE
  /\ UNCHANGED <<stage, passVars, rescueVars, rescueTimeUp, analyzedFiles>>

RescueBudgetElapses ==
  /\ stage = "rescue"
  /\ ~rescueTimeUp
  /\ rescueTimeUp' = TRUE
  /\ UNCHANGED <<stage, passVars, rescueVars, pastDeadline, analyzedFiles>>

SplitBudgetElapses(b) ==
  /\ phase[b] \in {"ready", "queued", "spawned"}
  /\ b \in anchored \ splitElapsed
  /\ splitElapsed' = splitElapsed \cup {b}
  /\ UNCHANGED <<stage, nextIndex, phase, work, anchored, didStart, firstError, fileVars, reasonVars,
                 displayedFileCount, rescueVars, clockVars, analyzedFiles>>

Advance(b) ==
  \/ StartBatch(b)
  \/ \E p \in work[b] : CallPiece(b, p) \/ GrantSlot(b, p)
  \/ Answer(b)
  \/ \E error \in Errors : AnswerError(b, error)
  \/ FinishBatch(b)

Rescue ==
  \/ \E f \in Files : RescueCall(f)
  \/ RescueSpawn
  \/ RescueDiagnostics
  \/ \E kind \in Splittable \cup Errors : RescueFailure(kind)
  \/ RescueEnds

Next ==
  \/ \E b \in Batches : Advance(b) \/ SplitBudgetElapses(b)
  \/ Tick \/ PassThrows \/ PassEnds \/ Rescue
  \/ DeadlinePasses \/ RescueBudgetElapses

\* Continuations run, a slot is granted and a process answers (SlotPool and
\* OxlintSpawn).  No clock has to run out.
Fairness ==
  /\ \A b \in Batches : WF_vars(Advance(b))
  /\ WF_vars(PassThrows) /\ WF_vars(PassEnds) /\ WF_vars(Rescue)

Spec == Init /\ [][Next]_vars

FairSpec == Spec /\ Fairness

----------------------------------------------------------------------------
(* Properties *)

\* The types of a pass; no piece is split below the depth cap, and a piece holds
\* files of its own batch only.
TypeOK ==
  /\ stage \in {"main", "replay", "rescue", "done", "failed"}
  /\ nextIndex \in 1..(Len(FileBatches) + 1)
  /\ phase \in [Batches -> Phases]
  /\ work \in [Batches -> SUBSET [files : SUBSET Files, depth : 0..SplitMaxDepth]]
  /\ \A b \in Batches : \A p \in work[b] : p.files \subseteq FileBatches[b]
  /\ anchored \subseteq Batches /\ splitElapsed \subseteq Batches /\ didStart \subseteq Batches
  /\ firstError \in Errors \cup {NoReason}
  /\ linted \subseteq Files /\ droppedFiles \subseteq Files
  /\ oomDroppedFiles \subseteq Files /\ deadlineSkippedFiles \subseteq Files
  /\ firstDropReason \in Reasons /\ firstNonOomDropReason \in Reasons
  /\ displayedFileCount \in Nat
  /\ pastDeadline \in BOOLEAN /\ rescueTimeUp \in BOOLEAN
  /\ rescueLeft \subseteq Files /\ rescuedFiles \subseteq Files
  /\ rescueFile \in Files \cup {NoFile} /\ rescueSpawned \in BOOLEAN
  /\ firstRescueFailureReason \in Reasons
  /\ analyzedFiles \subseteq SourcesOf(Files)
  /\ lastFailure \in [Files -> Reasons]

\* The files of a batch that the pass has not decided about.
Undecided(b) == IF phase[b] = "todo" THEN FileBatches[b] ELSE UNION {p.files : p \in work[b]}

\* The dropped files that no rescue has linted.
StillDropped == droppedFiles \ rescuedFiles

\* No file is lost and none counted twice, through splits, skips, drops and
\* rescues: the files of a batch that are no longer in its pieces are linted,
\* dropped for good or skipped, each exactly one of these.
EveryFileOnce ==
  /\ linted \cap StillDropped = {} /\ linted \cap deadlineSkippedFiles = {}
  /\ StillDropped \cap deadlineSkippedFiles = {}
  /\ \A b \in Batches :
       /\ FileBatches[b] \cap (linted \cup StillDropped \cup deadlineSkippedFiles)
            = FileBatches[b] \ Undecided(b)
       /\ \A p, q \in work[b] : p # q => p.files \cap q.files = {}

\* onAnalyzedFiles is told the sources that an oxlint process answered for, in
\* one lint path at least, so that nothing is taken for clean that was never
\* linted.  A source with several paths may be told though one was lost, but
\* then the report names it: one that is told and not named was linted in all.
AnalyzedAreLinted ==
  stage = "done" =>
    /\ analyzedFiles = SourcesOf(linted)
    /\ \A f \in Files : SourcePath[f] \in analyzedFiles \ ReportedSources => f \in linted

\* How many pieces a batch has when all of it is split to a depth.
PiecesAt[depth \in 0..SplitMaxDepth] == IF depth = 0 THEN 1 ELSE 2 * PiecesAt[depth - 1]

\* Splitting halves: no process is ever called without a file, and a piece that
\* reached the depth cap is a single file when the cap is enough for its batch.
PiecesHalve ==
  \A b \in Batches : \A p \in work[b] :
    /\ p.files # {}
    /\ (Cardinality(p.files) - 1) * PiecesAt[p.depth] < Cardinality(FileBatches[b])

\* The progress a user sees: the displayed count stays between the files that
\* settled and the files handed to a process, and it is full only when all are.
ProgressHonest ==
  stage \in {"main", "replay", "done"} =>
    /\ ScannedFileCount <= displayedFileCount /\ displayedFileCount <= StartedFileCount
    /\ displayedFileCount = TotalFileCount => ScannedFileCount = TotalFileCount

\* The failure that is reported is one that a file reported as dropped met
\* last, never one that a rescue has cleared.
ReasonApplies ==
  stage = "done" =>
    IF droppedFiles = {} THEN firstDropReason = NoReason
    ELSE \E f \in droppedFiles : lastFailure[f] = firstDropReason

\* When a task has thrown no batch starts any more, and the pass is replayed or
\* given up only when those in flight have settled: no second wave of
\* processes on top of a running one.  The displayed count never falls in a pass.
NoSecondWave ==
  [][/\ firstError # NoReason /\ stage' = stage => nextIndex' = nextIndex
     /\ stage' # stage => InFlight = {}
     /\ stage' # "replay" => displayedFileCount' >= displayedFileCount]_vars

\* A rescue only adds to the outcome of the pass: no file that was linted is
\* lost and no file is dropped or skipped by it.
RescueOnlyImproves ==
  [][stage = "rescue" =>
       /\ linted \subseteq linted'
       /\ droppedFiles' \subseteq droppedFiles
       /\ droppedFiles \ droppedFiles' \subseteq linted
       /\ deadlineSkippedFiles' = deadlineSkippedFiles]_vars

\* The scan ends, though every process may fail and every piece be split.
LintTerminates == <>(stage \in {"done", "failed"})

=============================================================================
