----------------------------- MODULE CachedLint -----------------------------
(***************************************************************************)
(* runOxlint of packages/core/src/run-oxlint.ts, from the choice of the    *)
(* cached path on: files that hit the file cache replay their own          *)
(* diagnostics, the others run the full configuration; of the hits, those  *)
(* whose stored probes are all answered as before replay their bounded     *)
(* cross-file diagnostics too, the others run a sidecar pass; unbounded    *)
(* rules run over every hit.  What was linted completely is stored.        *)
(*                                                                         *)
(* The scans are processes that share the two caches on disk.  A pass is   *)
(* one step with the outcomes SpawnBatches leaves it, a persist one step   *)
(* whose own interleavings are those of LintCache.                         *)
(***************************************************************************)
EXTENDS Naturals, LintVerdicts

CONSTANTS
  Miss,      \* no entry
  MaxEdits,     \* bound: how often the user edits the project
  MaxTroubles   \* bound: how often a pass is partial, nothing can be stored, or an
                \* entry disappears from a cache

ASSUME CachedLintAssumption == MaxEdits \in Nat /\ MaxTroubles \in Nat

VARIABLES
  tree,           \* the project's files
  phase, mode,    \* how far each scan is, and which caches it uses
  loadedFiles, loadedSidecar,  \* the entries each scan has loaded
  hits,           \* hitFiles: the files in the file cache
  replayed,       \* replayedDiagnostics and sidecarReplayedDiagnostics
  relint,         \* sidecarLintFiles: the hits whose sidecar entry is of no use
  full, bounded, unbounded,    \* the result of each pass
  fileCache, sidecarCache,     \* the caches on disk
  report,         \* what this step reports
  untroubled,     \* history: the scan that so far was alone and had no failure
  settled,        \* history: such a scan has ended, and nothing changed since
  edits, troubles \* how often the project was edited, and something went wrong

scanVars == <<hits, replayed, relint, full, bounded, unbounded>>
loadVars == <<mode, loadedFiles, loadedSidecar>>
diskVars == <<fileCache, sidecarCache>>
projectVars == <<tree, edits>>
worldVars == <<projectVars, troubles>>
vars == <<worldVars, phase, loadVars, scanVars, diskVars, report, untroubled, settled>>

Modes == {"cold", "file", "sidecar"}
Phases == {"idle", "cold", "opening", "full", "bounded", "unbounded", "storing", "finishing"}

Running == {s \in Scans : phase[s] # "idle"}

\* A file's path and the hash of its content.
Keys == Files \X (Contents \ {Missing, Unreadable})
Key(f) == <<f, tree[f]>>
Hashed == {f \in Candidates(tree) : tree[f] # Unreadable}

NoEntries == [k \in Keys |-> Miss]

\* No entry that is stored is taken for none.
ASSUME MissAssumption ==
  /\ \A k \in Keys : Miss # {[family |-> "own", file |-> k[1], saw |-> k[2]]}
  /\ \A f \in Files, t \in Trees :
       Miss # [probes |-> Answered(Probes(f, t), t), diagnostics |-> Lint({"bounded"}, {f}, t)]

NoResult == [diagnostics |-> {}, analyzed |-> {}, partial |-> FALSE]

Init ==
  /\ tree \in Trees
  /\ phase = [s \in Scans |-> "idle"]
  /\ mode = [s \in Scans |-> "cold"]
  /\ loadedFiles = [s \in Scans |-> NoEntries]
  /\ loadedSidecar = [s \in Scans |-> NoEntries]
  /\ hits = [s \in Scans |-> {}]
  /\ replayed = [s \in Scans |-> {}]
  /\ relint = [s \in Scans |-> {}]
  /\ full = [s \in Scans |-> NoResult]
  /\ bounded = [s \in Scans |-> NoResult]
  /\ unbounded = [s \in Scans |-> NoResult]
  /\ fileCache = NoEntries
  /\ sidecarCache = NoEntries
  /\ report = NoResult
  /\ untroubled = {}
  /\ settled = FALSE
  /\ edits = 0 /\ troubles = 0

Misses(s) == Candidates(tree) \ hits[s]

\* runConfigOverFiles: the results a pass of the families over the files may have.
\* Whatever is dropped is reported as a partial failure.
PassResults(families, files) ==
  {r \in {[diagnostics |-> Lint(families, A, tree), analyzed |-> A, partial |-> p] :
             A \in SUBSET files, p \in BOOLEAN} :
     /\ r.analyzed # files => r.partial
     /\ files = {} => ~r.partial}

\* A slip: a hit needs only one probe that is answered as before.
MutantReplayable(entry) ==
  entry # Miss /\ (entry.probes # {} => \E p \in entry.probes : Answer(p[1], tree) = p[2])

\* isReplayable
Replayable(entry) ==
  entry # Miss /\ \A p \in entry.probes : Answer(p[1], tree) = p[2]

\* A slip: what is on disk wins.
MutantMerge(disk, ours) == [k \in Keys |-> IF disk[k] = Miss THEN ours[k] ELSE disk[k]]

\* persist, without the caps: what this scan holds goes over what is on disk.
Merge(disk, ours) == [k \in Keys |-> IF ours[k] = Miss THEN disk[k] ELSE ours[k]]

\* attributeDiagnosticsToFiles, for one family and one file.
Attributed(result, family, f) ==
  {d \in result.diagnostics : d.family = family /\ d.file = f}

----------------------------------------------------------------------------
(* A scan *)

\* The caches are opened one after the other: first the file cache, against which
\* the candidates are partitioned.  What cannot be hashed is a miss.
Begin(s, m) ==
  /\ phase[s] = "idle"
  /\ phase' = [phase EXCEPT ![s] = IF m = "cold" THEN "cold" ELSE "opening"]
  /\ mode' = [mode EXCEPT ![s] = m]
  /\ untroubled' = IF m = "sidecar" /\ Running = {} THEN {s} ELSE {}
  /\ IF m = "cold"
     THEN UNCHANGED <<loadedFiles, hits, replayed>>
     ELSE /\ loadedFiles' = [loadedFiles EXCEPT ![s] = fileCache]
          /\ LET found == {f \in Hashed : fileCache[Key(f)] # Miss} IN
               /\ hits' = [hits EXCEPT ![s] = found]
               /\ replayed' = [replayed EXCEPT ![s] = UNION {fileCache[Key(f)] : f \in found}]
  /\ UNCHANGED <<worldVars, loadedSidecar, relint, full, bounded, unbounded, diskVars,
                 settled>>

\* createSidecarLintCache, if it is on.
OpenSidecar(s) ==
  /\ phase[s] = "opening"
  /\ phase' = [phase EXCEPT ![s] = "full"]
  /\ loadedSidecar' =
       [loadedSidecar EXCEPT ![s] = IF mode[s] = "sidecar" THEN sidecarCache ELSE NoEntries]
  /\ UNCHANGED <<worldVars, mode, loadedFiles, scanVars, diskVars, untroubled, settled>>

\* Whether something goes wrong in this step of the scan.
Trouble(s, wrong) ==
  IF wrong THEN /\ troubles < MaxTroubles
                /\ troubles' = troubles + 1
                /\ untroubled' = untroubled \ {s}
           ELSE UNCHANGED <<troubles, untroubled>>

\* The misses run the full configuration; then the stored probes of the hits are
\* answered again.
FullPass(s) ==
  /\ phase[s] = "full"
  /\ phase' = [phase EXCEPT ![s] = "bounded"]
  /\ \E r \in PassResults(Families, Misses(s)) :
       full' = [full EXCEPT ![s] = r] /\ Trouble(s, r.partial)
  /\ LET good == {f \in hits[s] : Replayable(loadedSidecar[s][Key(f)])} IN
       /\ relint' = [relint EXCEPT ![s] = hits[s] \ good]
       /\ replayed' = [replayed EXCEPT ![s] =
            @ \cup UNION {loadedSidecar[s][Key(f)].diagnostics : f \in good}]
  /\ UNCHANGED <<projectVars, loadVars, hits, bounded, unbounded, diskVars, settled>>

\* The sidecar pass: with the sidecar cache off, all cross-file rules over every
\* hit; with it on, the bounded ones over what is not replayed.
BoundedPass(s) ==
  /\ phase[s] = "bounded"
  /\ phase' = [phase EXCEPT ![s] = IF mode[s] = "sidecar" THEN "unbounded" ELSE "storing"]
  /\ \E r \in PassResults(IF mode[s] = "sidecar" THEN {"bounded"} ELSE {"bounded", "unbounded"},
                          relint[s]) :
       bounded' = [bounded EXCEPT ![s] = r] /\ Trouble(s, r.partial)
  /\ UNCHANGED <<projectVars, loadVars, hits, replayed, relint, full, unbounded, diskVars,
                 settled>>

UnboundedPass(s) ==
  /\ phase[s] = "unbounded"
  /\ phase' = [phase EXCEPT ![s] = "storing"]
  /\ \E r \in PassResults({"unbounded"}, hits[s]) :
       unbounded' = [unbounded EXCEPT ![s] = r] /\ Trouble(s, r.partial)
  /\ UNCHANGED <<projectVars, loadVars, hits, replayed, relint, full, bounded, diskVars,
                 settled>>

\* A slip: what a partial pass has found is stored.
MutantTrusted(result) == TRUE

\* Only a complete pass may be stored.
Trusted(result) == ~result.partial

\* cache.store of the misses, and cache.persist.
StoreFiles(s) ==
  /\ phase[s] = "storing"
  /\ phase' = [phase EXCEPT ![s] = "finishing"]
  /\ Trusted(full[s])
  /\ fileCache' = Merge(fileCache,
       [k \in Keys |-> IF \E f \in Misses(s) : k = Key(f)
                       THEN Attributed(full[s], "own", k[1]) ELSE loadedFiles[s][k]])
  /\ UNCHANGED <<worldVars, loadVars, scanVars, sidecarCache, untroubled, settled>>

\* The full pass was partial, its diagnostics do not name their files, or the
\* cache cannot be written.
StoreNoFiles(s) ==
  /\ phase[s] = "storing"
  /\ phase' = [phase EXCEPT ![s] = "finishing"]
  /\ Trouble(s, Trusted(full[s]))
  /\ UNCHANGED <<projectVars, loadVars, scanVars, diskVars, settled>>

\* storeSidecarEntries, of the passes whose diagnostics name their files: every file
\* that has a key and whose probes could be traced.
SidecarEntries(s, passes) ==
  LET traced == {f \in Hashed : tree[f] \notin Unparseable}
      Of(f, result) == [probes |-> Answered(Probes(f, tree), tree),
                        diagnostics |-> Attributed(result, "bounded", f)]
      bySidecar == IF "bounded" \in passes THEN traced \cap relint[s] ELSE {}
      byFull == IF "full" \in passes THEN traced \cap Misses(s) ELSE {}
  IN [stored |-> bySidecar \cup byFull,
      ours |-> [k \in Keys |->
        IF \E f \in bySidecar : k = Key(f) THEN Of(k[1], bounded[s])
        ELSE IF \E f \in byFull : k = Key(f) THEN Of(k[1], full[s])
        ELSE loadedSidecar[s][k]]]

StorablePasses(s) ==
  {p \in {"bounded", "full"} : IF p = "full" THEN Trusted(full[s]) ELSE Trusted(bounded[s])}

\* didAnalyzeSidecar; a miss is analyzed by the full pass alone.
AnalyzedFiles(s) ==
  full[s].analyzed \cup
    IF mode[s] = "sidecar"
    THEN ((hits[s] \ relint[s]) \cup bounded[s].analyzed) \cap unbounded[s].analyzed
    ELSE bounded[s].analyzed

\* The scan is over, and what it had in memory is gone.
End(s) ==
  /\ phase' = [phase EXCEPT ![s] = "idle"]
  /\ mode' = [mode EXCEPT ![s] = "cold"]
  /\ loadedFiles' = [loadedFiles EXCEPT ![s] = NoEntries]
  /\ loadedSidecar' = [loadedSidecar EXCEPT ![s] = NoEntries]
  /\ hits' = [hits EXCEPT ![s] = {}]
  /\ replayed' = [replayed EXCEPT ![s] = {}]
  /\ relint' = [relint EXCEPT ![s] = {}]
  /\ full' = [full EXCEPT ![s] = NoResult]
  /\ bounded' = [bounded EXCEPT ![s] = NoResult]
  /\ unbounded' = [unbounded EXCEPT ![s] = NoResult]
  /\ untroubled' = untroubled \ {s}
  /\ UNCHANGED projectVars

\* The sidecar entries are stored, and the scan reports.
Finish(s) ==
  /\ phase[s] = "finishing"
  /\ \E passes \in SUBSET StorablePasses(s) :
       LET new == SidecarEntries(s, passes)
           wrong == passes # StorablePasses(s)
       IN
         /\ wrong => troubles < MaxTroubles
         /\ troubles' = IF wrong THEN troubles + 1 ELSE troubles
         /\ sidecarCache' = IF mode[s] = "sidecar" /\ new.stored # {}
                            THEN Merge(sidecarCache, new.ours) ELSE sidecarCache
         /\ settled' = (settled \/ (s \in untroubled /\ passes = {"bounded", "full"}))
  /\ report' =
       [diagnostics |-> replayed[s] \cup full[s].diagnostics \cup bounded[s].diagnostics
                          \cup unbounded[s].diagnostics,
        analyzed |-> AnalyzedFiles(s),
        partial |-> full[s].partial \/ bounded[s].partial \/ unbounded[s].partial]
  /\ End(s)
  /\ UNCHANGED fileCache

\* The path without caches: one pass over everything.
ColdPass(s) ==
  /\ phase[s] = "cold"
  /\ \E r \in PassResults(Families, Candidates(tree)) : report' = r
  /\ End(s)
  /\ UNCHANGED <<troubles, diskVars, settled>>

\* A pass throws, the scan is aborted, or its process dies.
Fail(s) ==
  /\ phase[s] # "idle"
  /\ End(s)
  /\ UNCHANGED <<troubles, diskVars, settled>>

----------------------------------------------------------------------------
(* The world *)

\* The user edits the project; not during a scan, for which "the filesystem is
\* treated as frozen".
Edit ==
  /\ Running = {} /\ edits < MaxEdits
  /\ edits' = edits + 1
  /\ tree' \in Trees \ {tree}
  /\ settled' = FALSE
  /\ UNCHANGED <<troubles, phase, loadVars, scanVars, diskVars, untroubled>>

\* An entry is cut by a cap, lost to an overlapping write, or damaged: LintCache.
Forget(k) ==
  /\ troubles < MaxTroubles
  /\ troubles' = troubles + 1
  /\ \/ /\ fileCache[k] # Miss
        /\ fileCache' = [fileCache EXCEPT ![k] = Miss]
        /\ UNCHANGED sidecarCache
     \/ /\ sidecarCache[k] # Miss
        /\ sidecarCache' = [sidecarCache EXCEPT ![k] = Miss]
        /\ UNCHANGED fileCache
  /\ settled' = FALSE
  /\ untroubled' = {}
  /\ UNCHANGED <<tree, edits, phase, loadVars, scanVars>>

Next ==
  \/ \E s \in Scans : ColdPass(s) \/ Finish(s)
  \/ /\ \/ \E s \in Scans :
             \/ \E m \in Modes : Begin(s, m)
             \/ OpenSidecar(s) \/ FullPass(s) \/ BoundedPass(s) \/ UnboundedPass(s)
             \/ StoreFiles(s) \/ StoreNoFiles(s) \/ Fail(s)
        \/ Edit
        \/ \E k \in Keys : Forget(k)
     /\ report' = NoResult

Spec == Init /\ [][Next]_vars

----------------------------------------------------------------------------
(* Properties *)

Findings == UNION {Lint(Families, Files, t) : t \in Trees}
Answers == Contents \cup {"absent", "none", "file"}
FileEntries == (SUBSET Findings) \cup {Miss}
SidecarEntriesOnDisk ==
  [probes : SUBSET (AllProbes \X Answers), diagnostics : SUBSET Findings] \cup {Miss}
PassOutcomes == [diagnostics : SUBSET Findings, analyzed : SUBSET Files, partial : BOOLEAN]

\* The types of the scans, of what they load and replay, and of the caches.
TypeOK ==
  /\ tree \in Trees
  /\ phase \in [Scans -> Phases] /\ mode \in [Scans -> Modes]
  /\ hits \in [Scans -> SUBSET Files] /\ relint \in [Scans -> SUBSET Files]
  /\ replayed \in [Scans -> SUBSET Findings]
  /\ full \in [Scans -> PassOutcomes]
  /\ bounded \in [Scans -> PassOutcomes]
  /\ unbounded \in [Scans -> PassOutcomes]
  /\ loadedFiles \in [Scans -> [Keys -> FileEntries]]
  /\ loadedSidecar \in [Scans -> [Keys -> SidecarEntriesOnDisk]]
  /\ fileCache \in [Keys -> FileEntries]
  /\ sidecarCache \in [Keys -> SidecarEntriesOnDisk]
  /\ report \in PassOutcomes
  /\ untroubled \subseteq Scans /\ settled \in BOOLEAN
  /\ edits \in 0..MaxEdits /\ troubles \in 0..MaxTroubles

\* What a file's own diagnostics are, and what a sidecar entry may be: whenever
\* the file and all answers are again as they were, so are the diagnostics.
FileEntryHolds(k, entry) ==
  entry = Miss \/ entry = {[family |-> "own", file |-> k[1], saw |-> k[2]]}
SidecarEntryHolds(k, entry) ==
  entry = Miss \/
    \A t \in Trees :
      t[k[1]] = k[2] /\ (\A p \in entry.probes : Answer(p[1], t) = p[2])
        => entry.diagnostics = Lint({"bounded"}, {k[1]}, t)

\* No entry on disk can ever be served where it is wrong, in any state of the
\* project: nothing incomplete, nothing of another content, and no cross-file
\* diagnostics that a change elsewhere would alter unnoticed.
EntriesHold ==
  \A k \in Keys : FileEntryHolds(k, fileCache[k]) /\ SidecarEntryHolds(k, sidecarCache[k])

\* The caches are of use: once a scan has ended that was alone and had no failure,
\* the next one of the same tree replays every file that can be replayed at all,
\* whatever scans have failed, dropped files or overlapped since.
WarmIsReady ==
  settled =>
    \A f \in Hashed :
      /\ fileCache[Key(f)] # Miss
      /\ tree[f] \notin Unparseable => Replayable(sidecarCache[Key(f)])

\* A lint with caches is a lint without: its steps are those of ColdLint, and its
\* reports faithful to the present tree.
Cold == INSTANCE ColdLint WITH running <- Running
ImplementsColdLint == Cold!ColdSpec

=============================================================================
