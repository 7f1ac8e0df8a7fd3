# Verification of react-doctor's scan engine

TLA+ models of the stateful core of react-doctor: the part of `packages/core` that
spawns oxlint processes, splits and retries their work, rewrites the user's sources
for an audit, caches what was linted and replays it; and the part of
`packages/react-doctor` that caches whole scans, compares a change with its base and
remembers the user's answers. TLC checks the models on small instances; TLAPS proves
the most important properties for all instances.

Paths below are relative to `packages/core/src/`, or to `packages/react-doctor/src/`
if they begin with `cli/` or are `inspect.ts`.

    tlc -workers 2 -config MCWorkerSlots.cfg MCWorkerSlots    # one run
    tlapm OxlintSpawnProofs.tla                               # one proof module

## 1. The system

A scan (`run-inspect.ts`) runs several checks on a project and merges their
diagnostics. The lint check is the largest: `services/linter.ts` calls
`runOxlint` (`run-oxlint.ts`), which

1. in audit mode calls `neutralizeDisableDirectives`, so that oxlint reports
   what the user has silenced, and writes the sources back in its `finally`;
2. hashes the files and looks them up in two cache files (`file-lint-cache.ts`
   for verdicts that depend on one file, `sidecar-lint-cache.ts` for cross-file
   verdicts with the probes they depend on);
3. hands what is left to `spawnLintBatches`, whose workers
   (`mapWithConcurrency`) call `spawnOxlint` for one batch each, under the
   slots of `createWorkerSlots`, which concurrent scans of a monorepo share;
4. stores, re-reads, merges and writes the cache files atomically.

Around it, `inspect.ts` first looks for a result of the whole scan
(`cli/utils/scan-result-cache.ts`); on a miss it runs the checks, compares a change
with its base (`cli/utils/run-baseline-comparison.ts`, `compute-diagnostic-delta.ts`),
and stores the result if it is complete. What the user has answered, and which
migrations were applied, is kept in one file per user (`cli/utils/cli-state-store.ts`,
`cli/utils/cli-lifecycle.ts`).

| component | state | operations | hard behaviour |
|---|---|---|---|
| worker slots | free count, queue, listeners | acquire, release, abort | hand-off racing with an abort; order; lost wake-ups |
| oxlint spawn | process, timer, listener, promise | spawn, timeout, abort, output limit, close | events in any order; a process that hangs or was never born |
| lint batches | files linted/dropped/skipped, progress | batch, split, drop, skip, replay, rescue, report | partial failure, deadline at any await, retries, progress |
| directives | leases, locks, the user's files | lease, discover, restore, exit | overlapping scans, user saves, failures half-way, exit |
| cache files | entries, buckets, one file | load, store, merge, cap, prune, rename | concurrent processes, crashes, damaged files, limits |
| cached lint | hits, misses, probes, passes | lookup, verify, replay, store | staleness, partial failure stored as clean, two caches apart |
| orchestrator | checks under way, deadlines, markers | run, time out, skip, score, compare | failures and deadlines that reach the report by different ways |
| scan result cache | entries by key, memoized identity | key, lookup, store | edits under a scan, incomplete results stored, lost updates |
| baseline comparison | a plan, a temporary tree | plan, list, look again, materialize, copy, compare | edits between its looks at git and at the files, partial trees, cleanup |
| CLI state | one JSON file | migrate, check, record, remember | read-modify-write by two processes and two releases |
| diagnostic delta | matches so far | three matching passes | one finding taking another's place |
| planning, analysis, scoring, rules | none | pure functions | boundaries |

All but the last row are modelled. What they share: JavaScript runs one callback at a
time, so a step of a model is the code between two awaits (or one event
handler); between processes nothing is atomic but a rename.

What makes each of them correct:

- **slots**: no slot is lost or invented; first come, first served; every call
  that waits is answered.
- **spawn**: the slots bound the processes, not only the promises; an abort
  leaves no process behind; a kill of ours is reported as ours; no listener
  leaks; a call ends although its process hangs.
- **batches**: every file is linted, dropped or skipped, exactly one of them;
  what is reported as analyzed has been linted (it is what will be cached as
  clean); a rescue only improves; no second wave of processes; the lint ends.
- **directives**: the sources come back; an audit lints no live directive in a file
  that it can read; a save of the user outside the scans is never overwritten; no
  scan waits for ever.
- **cache files**: an answer was computed for this very key by this very ruleset;
  the file stays within its caps; work is lost only to a cap, to an overlapping
  write or to a failed read before a write; fresh verdicts win.
- **cached lint**: what it reports is what a lint without caches would report of the
  present tree; nothing is stored that could ever be served wrongly; one good scan
  makes the caches warm, and no failure after it makes them cold.
- **scan results**: a stored result is complete; a replayed one is of what git tells of
  the present tree, and of the base commit asked for;
  no score and no delta rests on a check that was cut short.
- **baseline comparison**: what is called the base is the base; a change is linted on both
  sides or not compared, and nothing is given up without need.
- **CLI state**: an answer is asked for once; a newer release's file is left alone; a
  run changes nothing but what it records.
- **delta**: what has not changed is not new; no match is missed or counted twice.

## 2. Modules

| module | models | EXTENDS |
|---|---|---|
| `SlotPool` | abstract: what a pool promises | |
| `WorkerSlots` | `utils/create-worker-slots.ts` | |
| `OxlintSpawn` | `runners/oxlint/spawn-oxlint.ts` under the slots | `WorkerSlots` |
| `SpawnBatches` | `runners/oxlint/spawn-batches.ts`, `utils/map-with-concurrency.ts` | |
| `NeutralizeDirectives` | `neutralize-disable-directives.ts` | |
| `LintCache` | `runners/oxlint/{file,sidecar}-lint-cache.ts`, `utils/atomic-write-*.ts`, `utils/fail-open-read-json.ts` | |
| `LintVerdicts` | external: what the rules see, what the collectors trace | |
| `ColdLint` | abstract: a lint that answers for the present tree | `LintVerdicts` |
| `CachedLint` | `run-oxlint.ts` | `LintVerdicts` |
| `ScanResults` | `inspect.ts`, `run-inspect.ts`, `cli/utils/scan-result-cache*.ts`, the decisions of `cli/utils/run-baseline-comparison.ts` | |
| `BaselineTree` | `cli/utils/{run-baseline-comparison,materialize-baseline-files,copy-unchanged-baseline-sources,build-project-scan-plan}.ts`, `materialize-source-tree.ts`, the git commands they call | |
| `CliState` | `cli/utils/cli-state-store.ts`, `cli/utils/cli-lifecycle.ts` | |
| `DiagnosticDelta` | `compute-diagnostic-delta.ts` | |
| `MC*` | small instances for TLC | the module |
| `*Proofs` | theorems: of the module; `OxlintSpawnProofs` of `WorkerSlots` too, `ComparisonProofs` of `BaselineTree` and `DiagnosticDelta` | the modules |

Operators whose name begins with `Mutant` are slips of the kind the checks have
to catch; no specification uses them. PROJECT.json pairs each checked property
with one that breaks it.

### WorkerSlots and SlotPool

A task is one call of `run(task, abortSignal)`. `phase` says where its `async`
function stands: *waiting* and *granted* lie before and after the settling of the
promise in `acquireSlot`, and *granted* becomes *running* when its continuation is
scheduled, which is where an abort or another call may come in between. The array
`waiters` is a set with `ahead[t]`, the entries in front of t. `AbortWaiters` is
one dispatch of a signal: all its listeners run, in one step. `releaseSlot` is
`ReleaseToPool` or `ReleaseToWaiter`.

`SlotPool` has neither queue nor counter: at most `slotCount` hold a slot, a call
waits only while all slots are taken, a call moves only forward, and each one that
waits gets an answer. `WorkerSlots` implements it (`ImplementsSlotPool`).

### OxlintSpawn

Composes the slots with the processes. `SkipTask`, `RefuseTask` and `SpawnTask`
are the three ways a granted call begins (deadline passed in the queue, signal
fired, spawned); `Timeout`, `Abort`, `TooLarge` and `Close` are the event handlers.
`Settle` changes only a pending promise, as `resolve` and `reject` do. The process
is external: *unborn* is a spawn that failed, whose `error` event is due; *alive*
may last for ever. Every step is a step of the slots (`SpawnsAreTasks`, proved),
and the calls settle, which is what the fairness of `WorkerSlots` assumes of its
tasks (`ImplementsFairSlots`, checked).

### SpawnBatches

A batch is the set of the pieces the recursion has still to lint; the leftmost is
next. The answers of a process are diagnostics, a splittable failure (`oom`, or
`slow` for timeout, output and signal), `exhausted` (EAGAIN, EMFILE, ENFILE, ENOMEM)
or `fatal`. The deadline, the rescue budget and the split budget are flags that may
be set between any two steps, so each of the code's tests of a clock sees both
outcomes. `PassThrows` is the end of a pass with an error, after the tasks in
flight; the replay starts from `FreshPass`. The actions from `RescueCall` to
`RescueEnds` are the serial rescue; its inner pass over one single-file batch is
contracted to call, spawn, and result. `Report` is the end: what is
dropped, skipped and analyzed. Files are lint paths, and `SourcePath` is
`resolveSourcePath`: an `.astro` source has two of them, its own and the `.tsx` made
from it (`prepare-lint-sources.ts` 56-71), a `.vue` or `.html` source one that is
generated. So a source that lost one of two paths is named as dropped and told as
analyzed too, and `AnalyzedAreLinted` says what remains true of it. No cache is
concerned: `useFileLintCache` asks for a scan without generated files
(`run-oxlint.ts` 586). The time a process may take is left to OxlintSpawn.

### NeutralizeDirectives

A file is its last save and the spelling of its directives. `Begin` registers the
exit listener and the initialization and picks the blockers, without an await in
between; `Adopt` is the resumption after `Promise.all(blockers)`; `Observe` is one
file of `git grep` or of the walk, so that saves and other scans come between two
of them. `LeaseReadable` is one run over the candidates: those that cannot be
resolved or read are passed over in silence, as are those that the discovery could
not read (`Observe`); a file that is leased already is not read again, and resolved
only by a scan with `includePaths` (`GivenPaths`). `Lease` and `InitializationFails` end the critical section, the latter
with any part of the candidates leased; the catch block runs in a later step
(`EndScan`), since the lock is released first. After `Exit` only exit listeners
run. The user may `Save` at any time, after the exit too.

History variables: `disturbed` are the files saved while a scan covered them (about
which no promise is made), `settled` is the last save of each file outside all
scans, `unrestored` are the files whose restoring write failed, `unread` the files
that each scan could not read and that it does not hold.

### LintCache

Runs are processes that share one file. An entry is abstracted to the run that
computed it, so that "the right verdict" is "computed by a run of this hash, for
this key". An object keeps its insertion order as `ahead`, which is what the caps
cut by. `Create` loads the bucket; `Persist` is the synchronous stretch of stores,
re-read, merge, cap and prune; `Rename` puts the result in place; `GiveUp` is any
failure or death before that. `Damage` is somebody's hand on the file, or a release
with another schema version. Both reads of a run fail open (`Reads`): they may find
nothing although the file is whole. History: `stale` are the runs whose re-read is
older than the last write, `misread` those whose re-read failed.

Abstractions: the two caches persist in the same way and differ in what an entry
holds; the probes of the sidecar are not in this module. Date.now is taken not to
run backwards, and which of two buckets of the same millisecond goes is left open.
A damaged bucket is one that is no record; one that has lost only its `updatedAtMs`
is not modelled (its own ruleset still reads it, the others drop it). A temporary
file that a dead process leaves behind is not modelled either: nothing reads it.

### CachedLint, ColdLint and LintVerdicts

`LintVerdicts` is what run-oxlint.ts relies on in the plugin. The diagnostics of a
family of rules for a file are abstracted to what those rules saw: rules of `own` see
the file, `bounded` ones also the answers to what they ask of other files, `unbounded`
ones may see anything. Two findings are equal exactly if the same was seen, which is
the finest that any rule can be; what is right for that is right for all rules. The
collectors must trace all that the bounded rules ask (`VerdictsAssumption`).

`ColdLint` has no cache: a scan starts and ends with a faithful report of the present
tree, partial or whole, or with none. `CachedLint` has the phases of the cached path,
which are its awaits: the hits by content hash, the full pass over the misses and the
verification of the hits' probes, the bounded and the unbounded pass, the file store,
the sidecar store and the report. A pass is one step with the outcomes SpawnBatches
leaves it (any part of the files, partial if not all); a persist is one step, whose
interleavings are those of LintCache; what LintCache may lose is `Forget`. A scan runs
with both caches, one, or none, and may fail anywhere. `report` is an event: it holds
what the step reports and is empty in between.

The code takes the file system as frozen for a scan (lines 300-305), so `Edit` waits
until no scan runs. A save between the hash of a file and its lint is outside the
promise, and outside the model. History: `untroubled` and `settled` say that a scan
that was alone and without failures has ended.

### ScanResults

One scan from the key to the report, several of them over one cache file, each by a run
of its own. A result is the tree each check read, or that it fell short. `Sibling` stands
for the other projects of the same run, which have memoized the look at the repository
before. `Begin` is the synchronous stretch from the key to the replay; the checks
end in any order, the analysis after the lint; `Deadline` may come at any time. The
`flags` are the markers the payload has for what went wrong; `SkipMaintainability`
after a failed lint leaves none of its own, as in the code. `Base` is the comparison in
one step. The cache file is read twice, in `Begin` and in `Finish`, and either read may find
nothing although there is something (`Reads`).

The repository may change between any two steps. A tree has an `Identity`, which is what
git tells of it and the key contains; two trees of one identity differ in files that git
ignores. A base is a commit, or a name (`Symbolic`), which is what the left end of a
two-dot range stays: the key has the name, and `Base` resolves it (`named`) and
notes the commit (`compared`). `moved` and `steady` say whether git told of a change. An
edit during a scan makes results no cache could vouch for, so `ReplaysAreCurrent`
speaks of steady ones.

### BaselineTree

One comparison, which ScanResults has as one step. `Init` is any state of the working tree
and the index, and the files of the change as git named them then; `Planned` is the plan
made before the scan, which a host of `inspect` may do without (`Unplanned`). `Begin`
lists the source files and makes the directory: as git lists them, or, if that fails, by a
walk (`ListedByWalk`), which finds what git ignores too, and nothing in a directory it
cannot read. `mislisted` (history) is what it got wrong. `DiffAgain` and `ListUntracked` are the
second look at git, in two commands; `LookFails` is either of them failing, which ends the
comparison unless there is a plan. `Materialize` takes the base's files from git; since
nobody else sees the tree, and commits do not change, it is one step. `Copy` takes one
unchanged file from the working tree, where the user may `Touch` files, what is in the
index, or what git ignores, between any two steps. `Compare` and `GiveUp` are the gates, the base's scan and
the `finally`; `Fail` is whatever throws.

`BaseFiles` and `HeadFiles` are the plan as the comparison uses it: the one that is handed
over is filtered by the projects below (`Excluded`), the derived one is filtered later.
The scan of the change is one step, complete or of no use. Files that git cannot show
(too large, LFS pointers) are `unshown`. The config files that are copied along, and
package.json among the paths, are left out. History: `touched` are the files changed
since the plan, `blind` says that the untracked files were not known.

### CliState

Items are gates and migrations, with a version in this release and a higher one, for
some, in a newer. The file is in the old layout, this one, or a newer one. A call of the
store is several reads and writes of the file, each a step: `Open`, `Upgrade`, `Select`
or `Reread` and `Update`. The code does them synchronously, but another process may
come in between. `Fail` is the file that cannot be read or written; `Leave` the prompt
that is cancelled, the migration that did not apply, or the end of the run. What was
answered is abstracted to the version it is recorded at. History: `landed` is the highest
version each item was recorded at, `raced` the items that a stale snapshot was
written over.

### DiagnosticDelta

Keys never span two rules, and only explicit identities span messages, so the findings
are of one rule with one message; `rule` is how it tells its findings apart (explicit
identity, `matchByOccurrence`, or evidence alone). `match` grows by one turn of the loop
of `matchCandidates` at a time. Reading and normalizing evidence is external; `NoText`
is evidence that is unreadable or blank.

## 3. Runs

| run | instance | states | what it shows |
|---|---|---|---|
| `worker_slots` | 5 calls, 2 signals and none, 2 slots | 7 thousand | conservation, order, refinement with answers |
| `oxlint_spawn` | 3 calls, 1 signal and none, 2 slots | 91 thousand | bounds, aborts, names of kills, every call ends |
| `neutralize` | a root scan, two package scans, 2 files, 1 save each | 349 thousand | restoring, auditing, saves, turns |
| `spawn_batches` | 2 workers, batches of 4 and 1, depth cap 1 | 1.2 million | accounting, halving, truthfulness, progress, rescue, termination |
| `lint_cache` | 3 runs, 2 rulesets, 3 keys, room for 2 keys and 1 ruleset, a clock, 1 damage, 1 failed read | 4.4 million | genuine answers, caps, survival, fresh verdicts |
| `lint_cache_newest` | the same without damage, failed read or clock | stops | the first divergence of section 6 |
| `cached_lint` | 2 scans, 2 files, 5 contents, 2 edits, 1 trouble | 1.5 million | refinement of ColdLint, entries, warmth |
| `scan_results` | 2 scans, 4 trees of which git tells 3, 2 commits and a branch, room for 1, 1 edit, 1 trouble | 4.2 million | completeness, grounded reports, replays |
| `scan_results_complete` | the same | stops | the second divergence of section 6 |
| `baseline_tree` | 3 files, one of a project below, either of the others may be ignored, all options, 2 edits, 1 trouble | 31 million | the base is the base, both sides, fixed, no needless end |
| `cli_state` | 2 runs, 4 items, 3 initial files, a newer release | 2.8 million | answers, newer files, other records |
| `diagnostic_delta` | up to 3 findings per side, 2 files, 2 texts | 439 thousand | new and fixed are so |

Why the bounds are enough for the interesting cases:

- *slots*: with five calls on two slots three wait, the fewest for which an abort
  can take an entry out of the middle; two signals and a call without one tell
  their listeners apart.
- *spawn*: two processes run while a third call waits, so that a hand-off can race
  with each of the four events.
- *batches*: four files split once and reach the depth cap above a single file;
  the single-file batch reaches the other end of `batch.length <= 1`; two workers
  allow the replay and the rescue. A `SplitMaxDepth` of 1 stands for the 9 of the
  code; that no split loses a file, uneven ones and deeper ones included, is proved
  (`HalvesPartition`).
- *directives*: the root scan overlaps both package scans, and those overlap each
  other on one file: a third scan that queues behind two is the case the comment on
  line 51 is about. One save per file (`MaxEdits`) suffices to tell old from new.
- *cache*: two runs of one hash overlap in one bucket while a third prunes; three
  keys overflow a cap of two, and two rulesets a cap of one. `MaxTime` is 1, which tells
  an older bucket from a newer one; `MaxDamages` is 1,
  and so is `MaxMisreads`.
- *cached lint*: a page and the module it imports are the smallest project with a
  cross-file verdict; the module can have two texts, be missing, unreadable or not
  parse. `MaxEdits` is 2, for there and back again. `MaxTroubles` is 1: one partial pass,
  one store that fails, or one entry lost.
- *scan results*: one scan stores while another has loaded; a tree that differs in the
  sources alone tells the key from the guard, one that differs in the manifest tells the
  guard from the key, and one that git does not tell from the first shows what neither
  sees. The branch is ahead of the fork or not, so a name can move; which tree and
  commit come first makes no difference in kind, so `MCSpec` begins with one of them.
  `MaxEntries` 1 makes several bases compete. `MaxTroubles` is 1: with one
  check that falls short, whatever follows from it still happens, and two independent
  ones show nothing more, since each is barred by a marker of its own.
- *baseline*: a file of each kind, all states they can be in at the start, with nothing,
  the new file or the old one ignored by git, and two edits, one before a look at git and one after. A comparison has no state that more files
  would fill: each is treated by itself, but for the gates, which one file decides.
  `MaxTroubles` is 1: with two the comparison only ends sooner, since just one failure, that
  of the second look, lets it go on, and no other changes what it then does.
- *CLI state*: one item of each kind (global, project, fired when unknown, a migration at
  its second version), one that a newer release bumps; two runs and that release are
  the fewest for an upgrade to meet a newer file.
- *delta*: three findings on either side are the fewest in which a copy, a changed and an
  unchanged finding compete for two of the base.

Symmetry is used for keys (`lint_cache`), scans (`cached_lint`, `scan_results`), runs
(`cli_state`) and texts and files (`diagnostic_delta`), in runs whose properties are
invariants, action properties or a refinement of safety, that treat them alike.

Deadlock is checked in `cli_state`, where a run can always begin another call. The other
systems stop when their calls are over, or when their bounds are reached. That they do
not stop too early is what the liveness properties say where there is something to
wait for. Nothing waits in the caches, the scan results, the comparison, the state file or the delta, so
those modules state no liveness and no fairness.

**Fairness.** Weak fairness, per call or scan, of: continuations of promises that
have settled (the event loop runs them); timers that are armed; the `close` event of
a killed process and the `error` event of a failed spawn (Node delivers them); git
grep answering; exit listeners. Never of: a process ending by itself, a clock
running out, an abort, the user. In `WorkerSlots` tasks are assumed to settle, which
`OxlintSpawn` discharges for oxlint. In `SpawnBatches` the answer of a process is
assumed, for the same reason. A lint in `NeutralizeDirectives` is assumed to end,
since each of its spawns has a timeout.

## 4. Proofs

For any finite set of calls, scans, keys and rulesets, any scopes, caps and bounds,
under the assumptions named in each module (`WorkerSlotsAssumption`,
`SpawnBatchesAssumption`, `NeutralizeAssumption`, `LintCacheAssumption`,
`NoBucketAssumption`, `NoReasonAssumption`, `VerdictsAssumption`, `CachedLintAssumption`, `MissAssumption`,
`ScanResultsAssumption`, `CliStateAssumption`, `BaselineAssumption`, `DiagnosticDeltaAssumption`), which TLC evaluates in the runs:

| module | theorems |
|---|---|
| `OxlintSpawnProofs` | of the slots: types, conservation, agreement, no overtaking, each step refines `SlotPool`; of the spawns: a spawn is a task of the slots; types; bounds; aborts; listeners; kills named |
| `SpawnBatchesProofs` | types; every file once; the sources told as analyzed were linted; rescues only improve; no second wave; honest progress; the reason applies; pieces halve; a pass is never stuck |
| `NeutralizeDirectivesProofs` | types; counting; restoring; saves; turns; audits; no circle of waiters |
| `LintCacheProofs` | types; genuine answers; caps; survival; fresh verdicts |
| `CachedLintProofs` | types; no entry can be served wrongly; a cached lint implements a cold one; one good scan warms the caches |
| `ScanResultsProofs` | types; stored results complete; reports grounded; replays current |
| `CliStateProofs` | types; answers remembered; newer files kept; other records left alone |
| `ComparisonProofs` | of the tree: types; the base is the base; both sides linted; what is fixed is gone; given up for cause; of the delta: types; unchanged is not new; no match missed; copies consume nothing |

The type invariants are proved and not run, and so are `QueueAgrees`, `ListenersExact`,
`ReferenceCountsExact` and `InitializationsExclusive`: the other invariants rest on them. Every
invariant and every action property that a run checks is a theorem too.

The inductive invariants, and why the properties alone are not inductive:

- **SlotsIInv** adds `QueueOrder`: any two waiters are ordered. Without it a hand-off
  to "a waiter with nobody in front" could overtake an unrelated one, and conservation
  needs `QueueAgrees` to know that the waiter that gets the slot was still pending.
- **SpawnIInv** ties together phase, process and promise of each call
  (`CallAgrees`): a live process belongs to a pending promise, and that to a running
  call, hence to a slot. The bound follows from the conservation of slots. The proof
  reuses the theorems about the slots through `StepIsSlotStep`.
- **BatchesIInv** adds that phases agree with the stage (`PassAgrees`: nothing is in
  flight in a rescue) and that a rescue works on dropped files only
  (`RescueAgrees`). The heart is `HalvesPartition`, that a split loses and doubles
  nothing, and `DecidingKeepsOnce`, that a piece which leaves the work goes to
  exactly one of the outcomes.
- **ReasonsIInv**, for the reason that is reported: while a pass runs, each dropped file has
  met a failure and the first of the pass was met by a file still dropped
  (`DropReasonsAgree`); a rescue clears reasons together with files
  (`RescueReasonAgrees`). It needs that no piece is empty (`PiecesFilled`), or a drop could
  have a reason and no file. That the least of the remaining indices exists is the
  well-foundedness of the naturals (`LeastOfNat`, from the library).
- **PiecesHalve** is inductive beside BatchesIInv. A half of n files has at most half of
  n - 1 and one (`HalvesHalve`): the place of a file in its piece, the number of those
  before it, tells any two files apart (`BeforeGrows`), so that no more files can have places
  in an interval than it has (`PlacesBound`). The number of pieces at a depth is a recursive
  function, `PiecesAt`; that one exists, and doubles, is shown by a least counterexample
  (`PiecesDouble`).
- **PassGoesOn** is what liveness needs of safety: `Leftmost` picks the next piece of a batch,
  so that there must always be exactly one. The pieces follow one another
  (`PiecesInOrder`), because the first half of a split comes before the second
  (`HalvesInOrder`), and none is empty; the least file left is then in the leftmost piece
  (`OneLeftmost`). That a pass with nothing in flight may take a batch, throw or end needs
  that batches start in order and that what threw left its error (`CallsAgree`).
- **CountsAgree**, with **StartsAgree**, for the progress: the displayed count lies between
  the sizes of two sets of files, the settled and the started, and the former is part of
  the latter since only started batches settle anything. The rest is what adding files
  to a set does to its size.
- **LeaseInv**, **AuditInv**: a lease's count needs that a scan outside its critical
  phases holds nothing (`ScanState`), the restoring needs that originals are live
  (`OriginalsLive`), saves that the originals in leases are no older than what is
  settled (`SavesKept`). The audit needs `DiscoveryHolds`: what a discovery has seen
  *still* holds, because each lease of its scope was adopted before it began, and each
  later one would need the lock (`TurnsOrdered`).
- **BlockersAcyclic**, for the same lock: in any group of initializations one waits for no
  other of the group. A scan looks at the active initializations once, when it begins,
  and nobody waits for a scan that has not begun; this is why no circle closes.
  `SomeTurnIsDue` is the group of all of them.
- **IInv** of the cache: the copy a run is about to write is fine (`CopyFine`) - entries
  of the right runs, within the caps, no bucket from the future - and, unless
  somebody wrote after its re-read, loses nothing that is on disk but what the caps
  say (`Keeps`). The lemmas `StoredLinear`, `MergeLinear`, `RestrictedLinear` show
  that objects keep each key once and in one order; `TailCut` and `NewestCut` count
  what the two slices keep.

- **CachedIInv** ties what a scan holds to the tree it holds it of (`ScanAgrees`, phase by
  phase), and says that what is loaded may be served like what is on disk (`LoadedHold`):
  the scans write back all they have loaded. It is inductive although other scans write in
  between, because an entry that may be served may be so in *every* tree, whoever
  stored it when. `SidecarEntrySound` is where the collectors come in: if every traced
  probe is answered as before, the rules ask the same and see the same. The refinement
  then needs that the four parts of a report add up to a lint of each analyzed file
  (`FinalReportFaithful`).
- **WarmIInv** adds that, once a good scan has ended on this tree, no scan holds an entry
  for its files that could not be replayed and would be written back over a good one
  (`LoadedIsFresh`), and that a scan still under way that nothing has disturbed is going
  to store all it must (`WarmAgrees`).
- **Inv** of ScanResults: a check that fell short has left a marker, its own or that of the
  check it depends on (`MarkersTell`), and while the repository stays as it was looked
  at, key and checks are of trees that git does not tell apart (`KeyAgrees`, `ChecksAgree`);
  a base that is done was taken at the commit that was given (`BaseAgrees`). All must
  also hold of what is loaded (`CacheOK`), since it is written back.
- **Inv** of CliState: an answer lasts because `Recorded` is the same before and after each
  upgrade and each update of something else (`MigratedKeeps`, `UpdatedKeeps`), unless
  the snapshot is stale; `raced` is where it was (`AnswersLast`).

- **TreeIInv** of BaselineTree says of each thing that was looked up at another time (the
  plan, the listing, the untracked files) that it is what one would find *now*, but for the
  files in `touched` (`PlanAgrees`, `ListingAgrees`, `UntrackedAgrees`). This is what makes an
  edit harmless in the proof as in the code: it disturbs one file and puts it in `touched`
  (`TouchesOne`). After a walk this is so but for the files in `mislisted`.
  `UnchangedIsBase` is the argument of copyUnchangedBaselineSources: a file
  that the plan does not name and that is listed, tracked and not taken from git is in the
  working tree what it is at the base; one that is not listed does not exist there. `TreeAgrees`
  carries it to the tree, copy by copy. For `GivenUpForCause`, while nothing was edited, the
  scan was told of all that the plan names (`UndisturbedAgrees`), so that the gates can fail
  only by a failed copy, which has a cause (`MissingForCause`).
- **DeltaIInv** of the delta: a turn of the loop that leaves a finding without a match has
  found nothing free, and never will (`Tried`), since what is matched stays so. The order of
  the passes comes in by what the matches so far have in common (`Narrowest`): in the first
  pass they are equal, up to the second of one file. So what has taken the place of an
  unchanged finding is its twin (`UnchangedTaken`), and a match across files, made in the
  third pass, takes what no finding of that file could have had in the second
  (`CopiesApart`). The counts add up because no finding of the base is matched twice
  (`MatchedOnce`, `MatchesCounted`). The buckets are sets, so nothing is counted by recursion.

Only model-checked: all liveness (`EveryCallEnds`, `EveryScanGetsItsTurn`,
`LintTerminates`, and the answers in `ImplementsSlotPool` and `ImplementsFairSlots`),
because fairness and ENABLED are beyond the prover. The safety under two of them is
proved: no circle of waiters (`NoCircleOfWaiters`) and no pass without a next step
(`PassNeverStuck`).

## 5. Limits of the models

- A killed process may outlive its slot for a moment. `ProcessesBounded` counts
  the processes nobody has killed.
- A file that the user saves while a scan is on it is overwritten by the restore,
  and may be linted with live directives. The code has no defence, and the properties
  leave those files out (`disturbed`).
- A file that a scan cannot read when it looks for directives, and that oxlint can
  read a moment later, is linted with its directives live, and nobody is told
  (`neutralize-disable-directives.ts` 112-116, 166-173 and 245-250).
  `LintSeesNoDirective` leaves it out for that scan (`unread`), and says that no
  other scan is concerned.
- SIGKILL during an audit leaves the sources neutralized; two processes auditing the
  same tree do not know each other's leases; a rewriting write that fails half-way
  leaves a torn file without a lease. None of these is modelled.
- Overlapping writes of two processes can lose the earlier one's entries: the re-read
  in `persist` narrows the window only. And a re-read that fails, for whatever reason,
  counts as an empty cache: the rename then replaces all buckets and all entries of
  other runs (`file-lint-cache.ts` 107-111, `fail-open-read-json.ts` 7-13).
  `WorkSurvives` excuses exactly these two, and says of the second that what the run
  has loaded or linted itself is kept.
- The passes of a cached lint see one tree: a save during a scan is outside the model.
  The path without caches may retry without the user's own rules, or without
  react-hooks-js; neither is modelled, and neither touches a cache. A project in which no
  unbounded rule is enabled has no unbounded pass; the model always has one.
- Scans in ScanResults are of one project; the environment checks, which are
  deterministic, and the score's value are left out, and so is the base's tree, which is
  in BaselineTree. Nothing looks at the supply chain of the base.
- The key of a scan result has the base as it was given (`scan-result-cache.ts` 436). With
  a two-dot range that is a name (`git.ts` 593, 619-647): when the branch moves, and
  HEAD, the worktree and the changed files stay, the delta against the old commit is
  replayed. Nor is a change seen in a file that git ignores and a cross-file rule or the
  analysis reads; dotenv files, which the security scan reads, are in the key and so
  belong to the `Identity`. `ReplaysAreCurrent` leaves both out by name.
- The lists of changed files are drawn up before the key. `includePaths` is in it, `baseFiles`
  and `headFiles` are not; with a commit as the base they follow from what the key has.
  The model takes them as part of the request, and a branch that moves between the
  lists and the base's scan as a choice of what `Base` finds.
- A file that was unchanged when the plan was made and is saved before it is copied enters
  the base as saved, and the evidence of findings is read when they are compared: nothing
  looks again. A process that exits leaves its temporary directory to the system.
- Of the comparison, some give-ups are permanent, and the model has them as trouble: an unmerged
  index, a tracked symbolic link (`copy-unchanged-baseline-sources.ts` 51), a file over
  the buffer of `git show`. `GivenUpForCause` excuses each of them as a failure. What the
  listing leaves out on both sides alike (minified bundles, files that linguist attributes
  or the compiler's output exclude) is not a file of the model.
- CliState has the preferences' `writePreference` and not `readPreference`, which opens the
  store as each check does and asks nothing, nor the two records that are made without a
  check before (`ci-prompt-decision.ts` 21, `prompt-install-setup.ts` 26).
- A spawn that fails for want of file descriptors may leave a child without `stdout`, so that
  attaching to it throws; OxlintSpawn has a failed spawn as the `error` event only.
- A stale write-back in CliState loses the other's answers, and a newer release is one
  atomic step. The properties excuse exactly that.
- Within a pass of the delta the order of findings decides who takes a base finding: with
  `matchByOccurrence` a changed finding can take that of an unchanged one which has moved
  to another file, and which is then new. The comment on line 117 accepts it.
- Parsing of oxlint's output, its deduplication, the texts of errors and reports.

## 6. What the checks found

`lint_cache_newest`: constants.ts (857-858) and the comments in both caches say that
over the cap the most recently stored entries are kept. The merge
`{ ...existingFiles, ...ourFiles }` keeps a key of the disk at its old position, so
an entry that has just been stored again is among the first to be cut. It costs a
fresh lint and never a wrong answer.

`scan_results_complete`: scan-result-cache.ts (445-448) says that every run a time budget
cuts off is barred from the cache, so that a stored payload is always complete, and a
test says the same. `checkSupplyChain` skips a package whose lookup fails, and all of them
when its own time is up; it then ends normally, without the one marker
(`supplyChainOverlapTimedOut`) that would bar the result. The findings stay missing until
the key changes. Of all other checks the statement holds (`StoredIsComplete`, proved).

The exceptions that the properties of `baseline_tree` name have no run of their own.
`BaseIsTheBase` leaves out untracked files that git could not name: with a plan at hand, a
second look at git that fails counts as "nothing is untracked" (`diffPlan?.untrackedFiles ?? []`,
materialize-baseline-files.ts, 42), and the untracked files, which the listing has named, are
copied too, although a test is titled "copies only unchanged tracked source files".
It also leaves out what a walk mislists: if `git ls-files` fails in the listing and
works in the second look (list-source-files.ts, 143, 147 and 193-196), a source that git ignores is
listed by the walk and not named with `--exclude-standard`, so it is copied into the base;
and a directory that the walk cannot read is missing there.
`FixedAreGone` leaves out a file that is in the working tree, but was taken out of the index and
is ignored: for git it is deleted, so what was found in it counts as fixed.
`GivenUpForCause` leaves out a file that was added to the index and then deleted: `git ls-files`
names it and no diff with the base does, its copy fails, and so each comparison is given up
while it is there.

## 7. What could follow

The pipeline of filters between a check's findings and the report.

### Not modelled

- Staged scans (`cli/utils/run-staged-inspect.ts`): one pass over files taken from the index,
  with nothing to compare.
- `services/linter.ts`, `utils/plan-lint-batches.ts`, the project batch: no state of their
  own beyond what is modelled; SpawnBatches takes any batches.
- The lint rules and their collectors, which are most of the repository by far, the project
  analysis, the security patterns, the scoring: sequential computations over syntax trees
  and texts, without state that outlives a call, each with its own tests. What the engine
  relies on in them is `VerdictsAssumption`.
- The HTTP queries of the supply chain: only their outcomes matter, in ScanResults.
- Telemetry, the terminal interface, the installer, the ESLint plugin, the API wrappers, the
  evals and the fuzzer are tooling around the core.
