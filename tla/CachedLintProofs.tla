-------------------------- MODULE CachedLintProofs --------------------------
(***************************************************************************)
(* CachedLint, for any rules whose collectors trace what they read, any    *)
(* project and any number of scans: no entry can be served where it is     *)
(* wrong, and a lint with caches implements a lint without.                *)
(***************************************************************************)
EXTENDS CachedLint, TLAPS

\* What a scan has loaded may be served, like what is on disk.
LoadedHold ==
  \A s \in Scans, k \in Keys :
    FileEntryHolds(k, loadedFiles[s][k]) /\ SidecarEntryHolds(k, loadedSidecar[s][k])

\* What a scan holds of the present tree when it is in a phase of the set.
Partitioned(s) ==
  mode[s] \in {"file", "sidecar"} /\ hits[s] \subseteq Hashed
SidecarOff(s) == mode[s] = "file" => loadedSidecar[s] = NoEntries
Opened(s) ==
  replayed[s] = Lint({"own"}, hits[s], tree)
Verified(s) ==
  /\ relint[s] \subseteq hits[s]
  /\ mode[s] = "file" => relint[s] = hits[s]
  /\ replayed[s] = Lint({"own"}, hits[s], tree) \cup Lint({"bounded"}, hits[s] \ relint[s], tree)
  /\ full[s] \in PassResults(Families, Misses(s))
SidecarFamilies(s) == IF mode[s] = "sidecar" THEN {"bounded"} ELSE {"bounded", "unbounded"}
BoundedDone(s) == bounded[s] \in PassResults(SidecarFamilies(s), relint[s])
UnboundedDone(s) ==
  IF mode[s] = "sidecar" THEN unbounded[s] \in PassResults({"unbounded"}, hits[s])
  ELSE unbounded[s] = NoResult

ScanAgrees(s) ==
  /\ phase[s] \notin {"idle", "cold"} => Partitioned(s)
  /\ phase[s] \in {"opening", "full"} => Opened(s)
  /\ phase[s] = "full" => SidecarOff(s)
  /\ phase[s] \in {"bounded", "unbounded", "storing", "finishing"} => Verified(s)
  /\ phase[s] \in {"unbounded", "storing", "finishing"} => BoundedDone(s)
  /\ phase[s] = "unbounded" => mode[s] = "sidecar"
  /\ phase[s] \notin {"storing", "finishing"} => unbounded[s] = NoResult
  /\ phase[s] \in {"storing", "finishing"} => UnboundedDone(s)

ScansAgree == \A s \in Scans : ScanAgrees(s)

CachedIInv == TypeOK /\ EntriesHold /\ LoadedHold /\ ScansAgree

----------------------------------------------------------------------------
(* What is stored may be served *)

\* What a pass found for a file it analyzed, by family.
LEMMA LintAttributed ==
  ASSUME NEW families \in SUBSET Families, NEW A \in SUBSET Files, NEW t, NEW r,
         r.diagnostics = Lint(families, A, t),
         NEW m \in families, NEW f \in A
  PROVE  Attributed(r, m, f) = {Finding(m, f, t)}
  BY DEF Attributed, Lint, Finding

\* The rules see what the collectors trace: where all probes are answered alike,
\* so is all that the bounded rules read.
LEMMA SidecarEntrySound ==
  ASSUME NEW f \in Files, NEW t \in Trees, NEW u \in Trees, u[f] = t[f],
         \A p \in Answered(Probes(f, t), t) : Answer(p[1], u) = p[2]
  PROVE  Finding("bounded", f, u) = Finding("bounded", f, t)
<1>1. \A p \in Probes(f, t) : Answer(p, t) = Answer(p, u)
  <2>1. \A p \in Probes(f, t) : <<p, Answer(p, t)>> \in Answered(Probes(f, t), t)
    BY DEF Answered
  <2>2. QED
    BY <2>1
<1>2. Reads(f, u) = Reads(f, t) /\ Reads(f, t) \subseteq Probes(f, t)
  BY <1>1, VerdictsAssumption
<1>3. Answered(Reads(f, u), u) = Answered(Reads(f, t), t)
  BY <1>1, <1>2 DEF Answered
<1>4. QED
  BY <1>3 DEF Finding, Saw

\* The keys of files that can be hashed.
LEMMA KeyIsKey ==
  ASSUME tree \in Trees, NEW f \in Hashed
  PROVE  Key(f) \in Keys /\ f \in Files /\ f \in Candidates(tree)
<1>1. tree \in [Files -> Contents]
  BY VerdictsAssumption
<1>2. QED
  BY <1>1 DEF Key, Keys, Hashed, Candidates

\* A persist leaves entries that hold, if both sides do.
LEMMA MergeHolds ==
  ASSUME NEW disk, NEW ours, NEW k \in Keys
  PROVE  /\ FileEntryHolds(k, disk[k]) /\ FileEntryHolds(k, ours[k])
              => FileEntryHolds(k, Merge(disk, ours)[k])
         /\ SidecarEntryHolds(k, disk[k]) /\ SidecarEntryHolds(k, ours[k])
              => SidecarEntryHolds(k, Merge(disk, ours)[k])
  BY DEF Merge

\* A result of a pass that is not partial.
LEMMA CompletePass ==
  ASSUME NEW families, NEW files, NEW r \in PassResults(families, files)
  PROVE  /\ r.diagnostics = Lint(families, r.analyzed, tree)
         /\ r.analyzed \subseteq files
         /\ r.partial \in BOOLEAN
         /\ ~r.partial => r.analyzed = files
  BY DEF PassResults

\* What StoreFiles stores.
LEMMA StoredFilesHold ==
  ASSUME TypeOK, NEW s \in Scans, full[s] \in PassResults(Families, Misses(s)),
         ~full[s].partial, NEW f \in Misses(s)
  PROVE  Attributed(full[s], "own", f) = {[family |-> "own", file |-> f, saw |-> tree[f]]}
<1>1. full[s].diagnostics = Lint(Families, Misses(s), tree)
  BY CompletePass
<1>2. Misses(s) \in SUBSET Files
  BY DEF Misses, Candidates
<1>3. Attributed(full[s], "own", f) = {Finding("own", f, tree)}
  BY <1>1, <1>2, LintAttributed DEF Families
<1>4. QED
  BY <1>3 DEF Finding, Saw

\* What storeSidecarEntries stores, of either pass.
LEMMA StoredSidecarHolds ==
  ASSUME tree \in Trees, NEW families \in SUBSET Families, "bounded" \in families,
         NEW files \in SUBSET Files, NEW r \in PassResults(families, files), ~r.partial,
         NEW f \in files, NEW k, k[1] = f, k[2] = tree[f]
  PROVE  SidecarEntryHolds(k, [probes |-> Answered(Probes(f, tree), tree),
                               diagnostics |-> Attributed(r, "bounded", f)])
<1>1. r.diagnostics = Lint(families, files, tree)
  BY CompletePass
<1>2. Attributed(r, "bounded", f) = {Finding("bounded", f, tree)}
  BY <1>1, LintAttributed
<1>3. ASSUME NEW t \in Trees, t[f] = tree[f],
             \A p \in Answered(Probes(f, tree), tree) : Answer(p[1], t) = p[2]
      PROVE  {Finding("bounded", f, tree)} = Lint({"bounded"}, {f}, t)
  <2>1. Finding("bounded", f, t) = Finding("bounded", f, tree)
    BY <1>3, SidecarEntrySound
  <2>2. QED
    BY <2>1 DEF Lint
<1>4. QED
  BY <1>2, <1>3 DEF SidecarEntryHolds

----------------------------------------------------------------------------
(* The types *)

\* What is found in a tree of the project is a finding.
LEMMA LintTyped ==
  ASSUME NEW t \in Trees, NEW families \in SUBSET Families, NEW A \in SUBSET Files
  PROVE  Lint(families, A, t) \subseteq Findings
<1>1. Lint(families, A, t) \subseteq Lint(Families, Files, t)
  BY DEF Lint
<1>2. QED
  BY <1>1 DEF Findings

\* The results of a pass are of their type.
LEMMA PassTyped ==
  ASSUME tree \in Trees, NEW families \in SUBSET Families, NEW files \in SUBSET Files,
         NEW r \in PassResults(families, files)
  PROVE  r \in PassOutcomes
<1>1. PICK A \in SUBSET files, p \in BOOLEAN :
        r = [diagnostics |-> Lint(families, A, tree), analyzed |-> A, partial |-> p]
  BY DEF PassResults
<1>2. Lint(families, A, tree) \subseteq Findings
  BY LintTyped
<1>3. QED
  BY <1>1, <1>2 DEF PassOutcomes

\* A result of no pass.
LEMMA NoResultTyped == NoResult \in PassOutcomes
  BY DEF NoResult, PassOutcomes

\* What the resolver answers.
LEMMA AnswersTyped ==
  ASSUME NEW t \in Trees, NEW f \in Files
  PROVE  Answered(Probes(f, t), t) \subseteq AllProbes \X Answers
<1>1. t \in [Files -> Contents] /\ Probes(f, t) \subseteq AllProbes
  BY VerdictsAssumption
<1>2. \A p \in AllProbes : Answer(p, t) \in Answers
  BY <1>1 DEF Answer, Answers, AllProbes
<1>3. QED
  BY <1>1, <1>2 DEF Answered

\* A persist keeps the types of the caches.
LEMMA MergeTyped ==
  ASSUME NEW Entries, NEW disk \in [Keys -> Entries], NEW ours \in [Keys -> Entries]
  PROVE  Merge(disk, ours) \in [Keys -> Entries]
  BY DEF Merge

----------------------------------------------------------------------------
(* The steps *)

\* A scan that a step leaves alone agrees with the tree as before.
LEMMA OthersAgree ==
  ASSUME NEW u \in Scans, ScanAgrees(u), tree' = tree,
         phase'[u] = phase[u], mode'[u] = mode[u], hits'[u] = hits[u],
         replayed'[u] = replayed[u], relint'[u] = relint[u],
         full'[u] = full[u], bounded'[u] = bounded[u], unbounded'[u] = unbounded[u],
         loadedSidecar'[u] = loadedSidecar[u]
  PROVE  ScanAgrees(u)'
<1>1. Misses(u)' = Misses(u) /\ Hashed' = Hashed
  BY DEF Misses, Hashed
<1>2. \A families, files : PassResults(families, files)' = PassResults(families, files)
  BY DEF PassResults
<1>3. SidecarFamilies(u)' = SidecarFamilies(u)
  BY DEF SidecarFamilies
<1>4. QED
  BY <1>1, <1>2, <1>3 DEF ScanAgrees, Partitioned, SidecarOff, Opened, Verified, BoundedDone,
     UnboundedDone

\* No scan runs, and nothing is stored.
LEMMA CachedInitHolds == Init => CachedIInv
<1> SUFFICES ASSUME Init PROVE CachedIInv
  OBVIOUS
<1> USE DEF Init
<1>1. NoEntries \in [Keys -> FileEntries] /\ NoEntries \in [Keys -> SidecarEntriesOnDisk]
  BY DEF NoEntries, FileEntries, SidecarEntriesOnDisk
<1>2. TypeOK
  <2>1. phase \in [Scans -> Phases] /\ mode \in [Scans -> Modes]
    BY DEF Phases, Modes
  <2>2. edits \in 0..MaxEdits /\ troubles \in 0..MaxTroubles
    BY CachedLintAssumption
  <2>3. /\ full \in [Scans -> PassOutcomes] /\ bounded \in [Scans -> PassOutcomes]
        /\ unbounded \in [Scans -> PassOutcomes] /\ report \in PassOutcomes
    BY NoResultTyped
  <2>4. QED
    BY <1>1, <2>1, <2>2, <2>3 DEF TypeOK
<1>3. EntriesHold /\ LoadedHold
  BY DEF EntriesHold, LoadedHold, FileEntryHolds, SidecarEntryHolds, NoEntries
<1>4. ScansAgree
  BY DEF ScansAgree, ScanAgrees
<1>5. QED
  BY <1>2, <1>3, <1>4 DEF CachedIInv

\* The hits replay what is on disk for their content, and that is their own.
LEMMA BeginHolds ==
  ASSUME CachedIInv, NEW s \in Scans, NEW m \in Modes, Begin(s, m), report' = NoResult
  PROVE  CachedIInv'
<1> USE DEF CachedIInv
<1> DEFINE found == {f \in Hashed : fileCache[Key(f)] # Miss}
           answers == UNION {fileCache[Key(f)] : f \in found}
<1>1. found \subseteq Hashed /\ found \subseteq Files
  BY DEF Hashed, Candidates
<1>2. answers = Lint({"own"}, found, tree)
  <2>1. ASSUME NEW f \in found
        PROVE  fileCache[Key(f)] = {Finding("own", f, tree)}
    <3>1. Key(f) \in Keys /\ Key(f)[1] = f /\ Key(f)[2] = tree[f]
      BY <1>1, KeyIsKey DEF TypeOK, Key
    <3>2. FileEntryHolds(Key(f), fileCache[Key(f)])
      BY <3>1 DEF EntriesHold
    <3>3. QED
      BY <3>1, <3>2 DEF FileEntryHolds, Finding, Saw
  <2>2. answers = UNION {{Finding("own", f, tree)} : f \in found}
    BY <2>1
  <2>3. QED
    BY <2>2 DEF Lint
<1>3. answers \subseteq Findings
  BY <1>1, <1>2, LintTyped DEF TypeOK, Families
<1>4. TypeOK'
  <2>1. phase' \in [Scans -> Phases] /\ mode' \in [Scans -> Modes]
    BY DEF Begin, TypeOK, Phases
  <2>2. hits' \in [Scans -> SUBSET Files] /\ replayed' \in [Scans -> SUBSET Findings]
        /\ loadedFiles' \in [Scans -> [Keys -> FileEntries]]
    <3>1. \/ UNCHANGED <<loadedFiles, hits, replayed>>
          \/ /\ loadedFiles' = [loadedFiles EXCEPT ![s] = fileCache]
             /\ hits' = [hits EXCEPT ![s] = found]
             /\ replayed' = [replayed EXCEPT ![s] = answers]
      BY DEF Begin
    <3> HIDE DEF found, answers
    <3>2. QED
      BY <1>1, <1>3, <3>1 DEF TypeOK
  <2>3. untroubled' \subseteq Scans
    BY DEF Begin
  <2>4. QED
    BY <2>1, <2>2, <2>3, NoResultTyped DEF Begin, TypeOK, worldVars, projectVars, diskVars
<1>5. EntriesHold' /\ LoadedHold'
  BY DEF Begin, EntriesHold, LoadedHold, diskVars, TypeOK
<1>6. \A u \in Scans \ {s} : ScanAgrees(u)'
  <2> TAKE u \in Scans \ {s}
  <2>1. phase'[u] = phase[u] /\ mode'[u] = mode[u] /\ hits'[u] = hits[u]
        /\ replayed'[u] = replayed[u]
    BY DEF Begin, TypeOK
  <2>2. ScanAgrees(u) /\ tree' = tree
    BY DEF ScansAgree, Begin, worldVars, projectVars
  <2>3. QED
    BY <2>1, <2>2, OthersAgree DEF Begin
<1>7. ScanAgrees(s)'
  <2>1. unbounded'[s] = NoResult
    BY DEF Begin, ScansAgree, ScanAgrees
  <2>2. CASE m = "cold"
    <3>1. phase'[s] = "cold"
      BY <2>2 DEF Begin, TypeOK
    <3>2. QED
      BY <2>1, <3>1 DEF ScanAgrees
  <2>3. CASE m # "cold"
    <3>1. phase'[s] = "opening" /\ mode'[s] = m /\ hits'[s] = found /\ replayed'[s] = answers
      BY <2>3 DEF Begin, TypeOK
    <3>2. Hashed' = Hashed /\ tree' = tree
      BY DEF Begin, Hashed, worldVars, projectVars
    <3>3. Partitioned(s)'
      BY <1>1, <2>3, <3>1, <3>2 DEF Partitioned, Modes
    <3>4. Opened(s)'
      BY <1>2, <3>1, <3>2 DEF Opened
    <3>5. QED
      BY <2>1, <3>1, <3>3, <3>4 DEF ScanAgrees
  <2>4. QED
    BY <2>2, <2>3
<1>8. QED
  BY <1>4, <1>5, <1>6, <1>7 DEF ScansAgree

\* The sidecar's entries are loaded.
LEMMA OpenSidecarHolds ==
  ASSUME CachedIInv, NEW s \in Scans, OpenSidecar(s), report' = NoResult
  PROVE  CachedIInv'
<1> USE DEF CachedIInv
<1>1. NoEntries \in [Keys -> SidecarEntriesOnDisk]
  BY DEF NoEntries, SidecarEntriesOnDisk
<1>2. TypeOK'
  <2>1. phase' \in [Scans -> Phases]
        /\ loadedSidecar' \in [Scans -> [Keys -> SidecarEntriesOnDisk]]
    BY <1>1 DEF OpenSidecar, TypeOK, Phases
  <2>2. QED
    BY <2>1, NoResultTyped DEF OpenSidecar, TypeOK, worldVars, projectVars, diskVars, scanVars
<1>3. EntriesHold' /\ LoadedHold'
  <2>1. \A k \in Keys : SidecarEntryHolds(k, NoEntries[k])
    BY DEF SidecarEntryHolds, NoEntries
  <2>2. QED
    BY <2>1 DEF OpenSidecar, EntriesHold, LoadedHold, diskVars, TypeOK
<1>4. \A u \in Scans \ {s} : ScanAgrees(u)'
  <2> TAKE u \in Scans \ {s}
  <2>1. phase'[u] = phase[u] /\ loadedSidecar'[u] = loadedSidecar[u]
    BY DEF OpenSidecar, TypeOK
  <2>2. ScanAgrees(u) /\ tree' = tree
    BY DEF ScansAgree, OpenSidecar, worldVars, projectVars
  <2>3. QED
    BY <2>1, <2>2, OthersAgree DEF OpenSidecar, scanVars
<1>5. ScanAgrees(s)'
  <2>1. phase[s] = "opening" /\ phase'[s] = "full" /\ tree' = tree
    BY DEF OpenSidecar, TypeOK, worldVars, projectVars
  <2>2. Partitioned(s)' /\ Opened(s)' /\ unbounded'[s] = NoResult
    BY <2>1 DEF ScansAgree, ScanAgrees, Partitioned, Opened, OpenSidecar, scanVars, Hashed
  <2>3. SidecarOff(s)'
    BY DEF SidecarOff, OpenSidecar, TypeOK
  <2>4. QED
    BY <2>1, <2>2, <2>3 DEF ScanAgrees
<1>6. QED
  BY <1>2, <1>3, <1>4, <1>5 DEF ScansAgree

\* The bounded diagnostics of the hits whose probes are answered as before are
\* those of the present tree.
LEMMA ReplaysHold ==
  ASSUME CachedIInv, NEW s \in Scans, Partitioned(s),
         NEW good, good = {f \in hits[s] : Replayable(loadedSidecar[s][Key(f)])}
  PROVE  UNION {loadedSidecar[s][Key(f)].diagnostics : f \in good} = Lint({"bounded"}, good, tree)
<1>1. ASSUME NEW f \in good
      PROVE  loadedSidecar[s][Key(f)].diagnostics = {Finding("bounded", f, tree)}
  <2>1. Key(f) \in Keys /\ Key(f)[1] = f /\ Key(f)[2] = tree[f] /\ tree \in Trees
    BY KeyIsKey DEF CachedIInv, TypeOK, Key, Partitioned
  <2>2. SidecarEntryHolds(Key(f), loadedSidecar[s][Key(f)])
    BY <2>1 DEF CachedIInv, LoadedHold
  <2>3. loadedSidecar[s][Key(f)].diagnostics = Lint({"bounded"}, {f}, tree)
    BY <2>1, <2>2 DEF SidecarEntryHolds, Replayable
  <2>4. QED
    BY <2>3 DEF Lint
<1>2. UNION {loadedSidecar[s][Key(f)].diagnostics : f \in good}
        = UNION {{Finding("bounded", f, tree)} : f \in good}
  BY <1>1
<1>3. QED
  BY <1>2 DEF Lint

\* What a step of a scan does to the troubles.
LEMMA TroubleTyped ==
  ASSUME TypeOK, NEW s, NEW wrong, Trouble(s, wrong)
  PROVE  troubles' \in 0..MaxTroubles /\ untroubled' \subseteq Scans
  BY CachedLintAssumption DEF TypeOK, Trouble

\* The misses and the replays together are what a lint of the present tree finds.
LEMMA FullPassHolds ==
  ASSUME CachedIInv, NEW s \in Scans, FullPass(s), report' = NoResult
  PROVE  CachedIInv'
<1> USE DEF CachedIInv
<1> DEFINE good == {f \in hits[s] : Replayable(loadedSidecar[s][Key(f)])}
           answers == UNION {loadedSidecar[s][Key(f)].diagnostics : f \in good}
<1>1. PICK r \in PassResults(Families, Misses(s)) :
        full' = [full EXCEPT ![s] = r] /\ Trouble(s, r.partial)
  BY DEF FullPass
<1>2. /\ phase[s] = "full" /\ phase' = [phase EXCEPT ![s] = "bounded"]
      /\ relint' = [relint EXCEPT ![s] = hits[s] \ good]
      /\ replayed' = [replayed EXCEPT ![s] = @ \cup answers]
      /\ UNCHANGED <<tree, edits, mode, loadedFiles, loadedSidecar, hits, bounded, unbounded,
                     fileCache, sidecarCache, settled>>
  BY DEF FullPass, projectVars, loadVars, diskVars
<1>3. Partitioned(s) /\ Opened(s) /\ SidecarOff(s) /\ unbounded[s] = NoResult
  BY <1>2 DEF ScansAgree, ScanAgrees
<1>4. answers = Lint({"bounded"}, good, tree)
  BY <1>3, ReplaysHold
<1>5. good \subseteq hits[s] /\ hits[s] \subseteq Files
  BY DEF TypeOK
<1>6. answers \subseteq Findings
  BY <1>4, <1>5, LintTyped DEF TypeOK, Families
<1>7. mode[s] = "file" => good = {}
  BY <1>3, KeyIsKey DEF SidecarOff, Replayable, NoEntries, Partitioned, TypeOK
<1> HIDE DEF good, answers
<1>8. TypeOK'
  <2>1. r \in PassOutcomes
    BY PassTyped DEF TypeOK, Misses, Candidates
  <2>2. full' \in [Scans -> PassOutcomes] /\ phase' \in [Scans -> Phases]
        /\ relint' \in [Scans -> SUBSET Files] /\ replayed' \in [Scans -> SUBSET Findings]
    BY <1>1, <1>2, <1>5, <1>6, <2>1 DEF TypeOK, Phases
  <2>3. troubles' \in 0..MaxTroubles /\ untroubled' \subseteq Scans
    BY <1>1, TroubleTyped
  <2>4. QED
    BY <1>2, <2>2, <2>3, NoResultTyped DEF TypeOK
<1>9. EntriesHold' /\ LoadedHold'
  BY <1>2 DEF EntriesHold, LoadedHold
<1>10. \A u \in Scans \ {s} : ScanAgrees(u)'
  <2> TAKE u \in Scans \ {s}
  <2>1. phase'[u] = phase[u] /\ relint'[u] = relint[u] /\ replayed'[u] = replayed[u]
        /\ full'[u] = full[u]
    BY <1>1, <1>2 DEF TypeOK
  <2>2. QED
    BY <1>2, <2>1, OthersAgree DEF ScansAgree
<1>11. ScanAgrees(s)'
  <2>1. /\ phase'[s] = "bounded" /\ relint'[s] = hits[s] \ good
        /\ replayed'[s] = replayed[s] \cup answers /\ full'[s] = r
    BY <1>1, <1>2 DEF TypeOK
  <2>2. hits[s] \ (hits[s] \ good) = good
    BY <1>5
  <2>3. Misses(s)' = Misses(s) /\ Hashed' = Hashed
        /\ PassResults(Families, Misses(s))' = PassResults(Families, Misses(s))
    BY <1>2 DEF Misses, Hashed, PassResults
  <2>4. Verified(s)'
    BY <1>2, <1>3, <1>4, <1>7, <2>1, <2>2, <2>3 DEF Verified, Opened
  <2>5. Partitioned(s)'
    BY <1>2, <1>3, <2>3 DEF Partitioned
  <2>6. QED
    BY <1>2, <1>3, <2>1, <2>4, <2>5 DEF ScanAgrees
<1>12. QED
  BY <1>8, <1>9, <1>10, <1>11 DEF ScansAgree

\* The sidecar pass lints what was not replayed.
LEMMA BoundedPassHolds ==
  ASSUME CachedIInv, NEW s \in Scans, BoundedPass(s), report' = NoResult
  PROVE  CachedIInv'
<1> USE DEF CachedIInv
<1>1. PICK r \in PassResults(SidecarFamilies(s), relint[s]) :
        bounded' = [bounded EXCEPT ![s] = r] /\ Trouble(s, r.partial)
  BY DEF BoundedPass, SidecarFamilies
<1>2. /\ phase[s] = "bounded"
      /\ phase' = [phase EXCEPT ![s] = IF mode[s] = "sidecar" THEN "unbounded" ELSE "storing"]
      /\ UNCHANGED <<tree, edits, mode, loadedFiles, loadedSidecar, hits, replayed, relint,
                     full, unbounded, fileCache, sidecarCache, settled>>
  BY DEF BoundedPass, projectVars, loadVars, diskVars
<1>3. Partitioned(s) /\ Verified(s) /\ unbounded[s] = NoResult
  BY <1>2 DEF ScansAgree, ScanAgrees
<1>4. TypeOK'
  <2>1. r \in PassOutcomes
    BY PassTyped DEF TypeOK, SidecarFamilies, Families
  <2>2. bounded' \in [Scans -> PassOutcomes] /\ phase' \in [Scans -> Phases]
    BY <1>1, <1>2, <2>1 DEF TypeOK, Phases
  <2>3. troubles' \in 0..MaxTroubles /\ untroubled' \subseteq Scans
    BY <1>1, TroubleTyped
  <2>4. QED
    BY <1>2, <2>2, <2>3, NoResultTyped DEF TypeOK
<1>5. EntriesHold' /\ LoadedHold'
  BY <1>2 DEF EntriesHold, LoadedHold
<1>6. \A u \in Scans \ {s} : ScanAgrees(u)'
  <2> TAKE u \in Scans \ {s}
  <2>1. phase'[u] = phase[u] /\ bounded'[u] = bounded[u]
    BY <1>1, <1>2 DEF TypeOK
  <2>2. QED
    BY <1>2, <2>1, OthersAgree DEF ScansAgree
<1>7. ScanAgrees(s)'
  <2>1. bounded'[s] = r /\ phase'[s] = IF mode[s] = "sidecar" THEN "unbounded" ELSE "storing"
    BY <1>1, <1>2 DEF TypeOK
  <2>2. Misses(s)' = Misses(s) /\ Hashed' = Hashed /\ SidecarFamilies(s)' = SidecarFamilies(s)
        /\ \A families, files : PassResults(families, files)' = PassResults(families, files)
    BY <1>2 DEF Misses, Hashed, PassResults, SidecarFamilies
  <2>3. Verified(s)' /\ Partitioned(s)' /\ BoundedDone(s)'
    BY <1>1, <1>2, <1>3, <2>1, <2>2 DEF Verified, Partitioned, BoundedDone
  <2>4. mode[s] # "sidecar" => UnboundedDone(s)'
    BY <1>2, <1>3 DEF UnboundedDone
  <2>5. QED
    BY <1>2, <1>3, <2>1, <2>3, <2>4 DEF ScanAgrees
<1>8. QED
  BY <1>4, <1>5, <1>6, <1>7 DEF ScansAgree

\* The unbounded rules run over every hit.
LEMMA UnboundedPassHolds ==
  ASSUME CachedIInv, NEW s \in Scans, UnboundedPass(s), report' = NoResult
  PROVE  CachedIInv'
<1> USE DEF CachedIInv
<1>1. PICK r \in PassResults({"unbounded"}, hits[s]) :
        unbounded' = [unbounded EXCEPT ![s] = r] /\ Trouble(s, r.partial)
  BY DEF UnboundedPass
<1>2. /\ phase[s] = "unbounded" /\ phase' = [phase EXCEPT ![s] = "storing"]
      /\ UNCHANGED <<tree, edits, mode, loadedFiles, loadedSidecar, hits, replayed, relint,
                     full, bounded, fileCache, sidecarCache, settled>>
  BY DEF UnboundedPass, projectVars, loadVars, diskVars
<1>3. Partitioned(s) /\ Verified(s) /\ BoundedDone(s) /\ mode[s] = "sidecar"
  BY <1>2 DEF ScansAgree, ScanAgrees
<1>4. TypeOK'
  <2>1. r \in PassOutcomes
    BY PassTyped DEF TypeOK, Families
  <2>2. unbounded' \in [Scans -> PassOutcomes] /\ phase' \in [Scans -> Phases]
    BY <1>1, <1>2, <2>1 DEF TypeOK, Phases
  <2>3. troubles' \in 0..MaxTroubles /\ untroubled' \subseteq Scans
    BY <1>1, TroubleTyped
  <2>4. QED
    BY <1>2, <2>2, <2>3, NoResultTyped DEF TypeOK
<1>5. EntriesHold' /\ LoadedHold'
  BY <1>2 DEF EntriesHold, LoadedHold
<1>6. \A u \in Scans \ {s} : ScanAgrees(u)'
  <2> TAKE u \in Scans \ {s}
  <2>1. phase'[u] = phase[u] /\ unbounded'[u] = unbounded[u]
    BY <1>1, <1>2 DEF TypeOK
  <2>2. QED
    BY <1>2, <2>1, OthersAgree DEF ScansAgree
<1>7. ScanAgrees(s)'
  <2>1. unbounded'[s] = r /\ phase'[s] = "storing"
    BY <1>1, <1>2 DEF TypeOK
  <2>2. Misses(s)' = Misses(s) /\ Hashed' = Hashed /\ SidecarFamilies(s)' = SidecarFamilies(s)
        /\ \A families, files : PassResults(families, files)' = PassResults(families, files)
    BY <1>2 DEF Misses, Hashed, PassResults, SidecarFamilies
  <2>3. Verified(s)' /\ Partitioned(s)' /\ BoundedDone(s)' /\ UnboundedDone(s)'
    BY <1>1, <1>2, <1>3, <2>1, <2>2 DEF Verified, Partitioned, BoundedDone, UnboundedDone
  <2>4. QED
    BY <2>1, <2>3 DEF ScanAgrees
<1>8. QED
  BY <1>4, <1>5, <1>6, <1>7 DEF ScansAgree

\* What is stored of a complete full pass is each file's own, and what was loaded
\* holds: so does what is on disk after the merge.
LEMMA StoreFilesHolds ==
  ASSUME CachedIInv, NEW s \in Scans, StoreFiles(s), report' = NoResult
  PROVE  CachedIInv'
<1> USE DEF CachedIInv
<1> DEFINE ours == [k \in Keys |-> IF \E f \in Misses(s) : k = Key(f)
                                  THEN Attributed(full[s], "own", k[1]) ELSE loadedFiles[s][k]]
<1>1. /\ phase[s] = "storing" /\ phase' = [phase EXCEPT ![s] = "finishing"]
      /\ Trusted(full[s]) /\ fileCache' = Merge(fileCache, ours)
      /\ UNCHANGED <<tree, edits, troubles, mode, loadedFiles, loadedSidecar, hits, replayed,
                     relint, full, bounded, unbounded, sidecarCache, untroubled, settled>>
  BY DEF StoreFiles, worldVars, projectVars, loadVars, scanVars
<1>2. Partitioned(s) /\ Verified(s) /\ BoundedDone(s) /\ UnboundedDone(s)
  BY <1>1 DEF ScansAgree, ScanAgrees
<1>3. ASSUME NEW k \in Keys
      PROVE  FileEntryHolds(k, ours[k]) /\ ours[k] \in FileEntries
  <2>1. CASE \E f \in Misses(s) : k = Key(f)
    <3>1. PICK f \in Misses(s) : k = Key(f)
      BY <2>1
    <3>2. ours[k] = Attributed(full[s], "own", f)
      BY <2>1, <3>1 DEF Key
    <3>3. ours[k] = {[family |-> "own", file |-> f, saw |-> tree[f]]}
      BY <1>1, <1>2, <3>2, StoredFilesHold DEF Verified, Trusted, TypeOK
    <3>4. ours[k] \subseteq Findings
      BY <3>2 DEF Attributed, TypeOK, PassOutcomes
    <3>5. QED
      BY <3>1, <3>3, <3>4 DEF FileEntryHolds, FileEntries, Key
  <2>2. CASE ~\E f \in Misses(s) : k = Key(f)
    BY <2>2 DEF LoadedHold, TypeOK
  <2>3. QED
    BY <2>1, <2>2
<1> HIDE DEF ours
<1>4. \A k \in Keys : FileEntryHolds(k, fileCache'[k])
  BY <1>1, <1>3, MergeHolds DEF EntriesHold
<1>5. fileCache' \in [Keys -> FileEntries]
  BY <1>1, <1>3 DEF Merge, TypeOK
<1>6. TypeOK'
  <2>1. phase' \in [Scans -> Phases]
    BY <1>1 DEF TypeOK, Phases
  <2>2. QED
    BY <1>1, <1>5, <2>1, NoResultTyped DEF TypeOK
<1>7. EntriesHold' /\ LoadedHold'
  BY <1>1, <1>4 DEF EntriesHold, LoadedHold
<1>8. \A u \in Scans \ {s} : ScanAgrees(u)'
  <2> TAKE u \in Scans \ {s}
  <2>1. phase'[u] = phase[u]
    BY <1>1 DEF TypeOK
  <2>2. QED
    BY <1>1, <2>1, OthersAgree DEF ScansAgree
<1>9. ScanAgrees(s)'
  <2>1. phase'[s] = "finishing"
    BY <1>1 DEF TypeOK
  <2>2. Misses(s)' = Misses(s) /\ Hashed' = Hashed /\ SidecarFamilies(s)' = SidecarFamilies(s)
        /\ \A families, files : PassResults(families, files)' = PassResults(families, files)
    BY <1>1 DEF Misses, Hashed, PassResults, SidecarFamilies
  <2>3. Verified(s)' /\ Partitioned(s)' /\ BoundedDone(s)' /\ UnboundedDone(s)'
    BY <1>1, <1>2, <2>2 DEF Verified, Partitioned, BoundedDone, UnboundedDone
  <2>4. QED
    BY <2>1, <2>3 DEF ScanAgrees
<1>10. QED
  BY <1>6, <1>7, <1>8, <1>9 DEF ScansAgree

\* Nothing is stored.
LEMMA StoreNoFilesHolds ==
  ASSUME CachedIInv, NEW s \in Scans, StoreNoFiles(s), report' = NoResult
  PROVE  CachedIInv'
<1> USE DEF CachedIInv
<1>1. /\ phase[s] = "storing" /\ phase' = [phase EXCEPT ![s] = "finishing"]
      /\ Trouble(s, Trusted(full[s]))
      /\ UNCHANGED <<tree, edits, mode, loadedFiles, loadedSidecar, hits, replayed, relint,
                     full, bounded, unbounded, fileCache, sidecarCache, settled>>
  BY DEF StoreNoFiles, projectVars, loadVars, scanVars, diskVars
<1>2. Partitioned(s) /\ Verified(s) /\ BoundedDone(s) /\ UnboundedDone(s)
  BY <1>1 DEF ScansAgree, ScanAgrees
<1>3. TypeOK'
  <2>1. phase' \in [Scans -> Phases]
    BY <1>1 DEF TypeOK, Phases
  <2>2. troubles' \in 0..MaxTroubles /\ untroubled' \subseteq Scans
    BY <1>1, TroubleTyped
  <2>3. QED
    BY <1>1, <2>1, <2>2, NoResultTyped DEF TypeOK
<1>4. EntriesHold' /\ LoadedHold'
  BY <1>1 DEF EntriesHold, LoadedHold
<1>5. \A u \in Scans \ {s} : ScanAgrees(u)'
  <2> TAKE u \in Scans \ {s}
  <2>1. phase'[u] = phase[u]
    BY <1>1 DEF TypeOK
  <2>2. QED
    BY <1>1, <2>1, OthersAgree DEF ScansAgree
<1>6. ScanAgrees(s)'
  <2>1. phase'[s] = "finishing"
    BY <1>1 DEF TypeOK
  <2>2. Misses(s)' = Misses(s) /\ Hashed' = Hashed /\ SidecarFamilies(s)' = SidecarFamilies(s)
        /\ \A families, files : PassResults(families, files)' = PassResults(families, files)
    BY <1>1 DEF Misses, Hashed, PassResults, SidecarFamilies
  <2>3. Verified(s)' /\ Partitioned(s)' /\ BoundedDone(s)' /\ UnboundedDone(s)'
    BY <1>1, <1>2, <2>2 DEF Verified, Partitioned, BoundedDone, UnboundedDone
  <2>4. QED
    BY <2>1, <2>3 DEF ScanAgrees
<1>7. QED
  BY <1>3, <1>4, <1>5, <1>6 DEF ScansAgree

\* A scan that ends leaves nothing behind but what it stored and reports.
LEMMA EndHolds ==
  ASSUME CachedIInv, NEW s \in Scans, End(s),
         report' \in PassOutcomes, settled' \in BOOLEAN, troubles' \in 0..MaxTroubles,
         fileCache' = fileCache, sidecarCache' \in [Keys -> SidecarEntriesOnDisk],
         \A k \in Keys : SidecarEntryHolds(k, sidecarCache'[k])
  PROVE  CachedIInv'
<1> USE DEF CachedIInv
<1>1. /\ phase' = [phase EXCEPT ![s] = "idle"] /\ mode' = [mode EXCEPT ![s] = "cold"]
      /\ loadedFiles' = [loadedFiles EXCEPT ![s] = NoEntries]
      /\ loadedSidecar' = [loadedSidecar EXCEPT ![s] = NoEntries]
      /\ hits' = [hits EXCEPT ![s] = {}] /\ replayed' = [replayed EXCEPT ![s] = {}]
      /\ relint' = [relint EXCEPT ![s] = {}]
      /\ full' = [full EXCEPT ![s] = NoResult] /\ bounded' = [bounded EXCEPT ![s] = NoResult]
      /\ unbounded' = [unbounded EXCEPT ![s] = NoResult]
      /\ untroubled' \subseteq Scans /\ tree' = tree /\ edits' = edits
  BY DEF End, projectVars, TypeOK
<1>2. NoEntries \in [Keys -> FileEntries] /\ NoEntries \in [Keys -> SidecarEntriesOnDisk]
  BY DEF NoEntries, FileEntries, SidecarEntriesOnDisk
<1>3. TypeOK'
  <2>1. phase' \in [Scans -> Phases] /\ mode' \in [Scans -> Modes]
    BY <1>1 DEF TypeOK, Phases, Modes
  <2>2. hits' \in [Scans -> SUBSET Files] /\ relint' \in [Scans -> SUBSET Files]
        /\ replayed' \in [Scans -> SUBSET Findings]
    BY <1>1 DEF TypeOK
  <2>3. full' \in [Scans -> PassOutcomes] /\ bounded' \in [Scans -> PassOutcomes]
        /\ unbounded' \in [Scans -> PassOutcomes]
    BY <1>1, NoResultTyped DEF TypeOK
  <2>4. loadedFiles' \in [Scans -> [Keys -> FileEntries]]
        /\ loadedSidecar' \in [Scans -> [Keys -> SidecarEntriesOnDisk]]
    BY <1>1, <1>2 DEF TypeOK
  <2>5. QED
    BY <1>1, <2>1, <2>2, <2>3, <2>4 DEF TypeOK
<1>4. EntriesHold'
  BY DEF EntriesHold
<1>5. LoadedHold'
  <2>1. \A k \in Keys : FileEntryHolds(k, NoEntries[k]) /\ SidecarEntryHolds(k, NoEntries[k])
    BY DEF FileEntryHolds, SidecarEntryHolds, NoEntries
  <2>2. QED
    BY <1>1, <2>1 DEF LoadedHold, TypeOK
<1>6. \A u \in Scans \ {s} : ScanAgrees(u)'
  <2> TAKE u \in Scans \ {s}
  <2>1. /\ phase'[u] = phase[u] /\ mode'[u] = mode[u] /\ hits'[u] = hits[u]
        /\ replayed'[u] = replayed[u] /\ relint'[u] = relint[u] /\ full'[u] = full[u]
        /\ bounded'[u] = bounded[u] /\ unbounded'[u] = unbounded[u]
        /\ loadedSidecar'[u] = loadedSidecar[u]
    BY <1>1 DEF TypeOK
  <2>2. QED
    BY <1>1, <2>1, OthersAgree DEF ScansAgree
<1>7. ScanAgrees(s)'
  <2>1. phase'[s] = "idle" /\ unbounded'[s] = NoResult
    BY <1>1 DEF TypeOK
  <2>2. QED
    BY <2>1 DEF ScanAgrees
<1>8. QED
  BY <1>3, <1>4, <1>5, <1>6, <1>7 DEF ScansAgree

\* What a scan knows of the tree when it finishes.
LEMMA FinishingScan ==
  ASSUME CachedIInv, NEW s \in Scans, phase[s] = "finishing"
  PROVE  Partitioned(s) /\ Verified(s) /\ BoundedDone(s) /\ UnboundedDone(s)
  BY DEF CachedIInv, ScansAgree, ScanAgrees

\* An entry the sidecar cache gets from a complete pass over the file.
LEMMA NewSidecarEntry ==
  ASSUME TypeOK, NEW families \in SUBSET Families, "bounded" \in families,
         NEW files \in SUBSET Files, NEW r \in PassResults(families, files), ~r.partial,
         NEW f \in files \cap Hashed, NEW k \in Keys, k = Key(f),
         NEW entry, entry = [probes |-> Answered(Probes(k[1], tree), tree),
                             diagnostics |-> Attributed(r, "bounded", k[1])]
  PROVE  SidecarEntryHolds(k, entry) /\ entry \in SidecarEntriesOnDisk
<1>1. k[1] = f /\ k[2] = tree[f]
  BY DEF Key
<1>2. SidecarEntryHolds(k, entry)
  BY <1>1, StoredSidecarHolds DEF TypeOK
<1>3. Answered(Probes(f, tree), tree) \subseteq AllProbes \X Answers
  BY AnswersTyped DEF TypeOK
<1>4. Attributed(r, "bounded", f) \subseteq Findings
  <2>1. r \in PassOutcomes
    BY PassTyped DEF TypeOK
  <2>2. QED
    BY <2>1 DEF Attributed, PassOutcomes
<1>5. entry \in [probes : SUBSET (AllProbes \X Answers), diagnostics : SUBSET Findings]
  BY <1>1, <1>3, <1>4
<1>6. QED
  BY <1>2, <1>5 DEF SidecarEntriesOnDisk

\* What a finishing scan holds of sidecar entries, of its own and of the disk's.
LEMMA OwnSidecarHolds ==
  ASSUME CachedIInv, NEW s \in Scans, phase[s] = "finishing",
         NEW passes \in SUBSET StorablePasses(s), NEW k \in Keys, mode[s] = "sidecar"
  PROVE  /\ SidecarEntryHolds(k, SidecarEntries(s, passes).ours[k])
         /\ SidecarEntries(s, passes).ours[k] \in SidecarEntriesOnDisk
<1> USE DEF CachedIInv
<1> DEFINE traced == {f \in Hashed : tree[f] \notin Unparseable}
           bySidecar == IF "bounded" \in passes THEN traced \cap relint[s] ELSE {}
           byFull == IF "full" \in passes THEN traced \cap Misses(s) ELSE {}
           entry == SidecarEntries(s, passes).ours[k]
<1>1. Partitioned(s) /\ Verified(s) /\ BoundedDone(s)
  BY FinishingScan
<1>2. relint[s] \in SUBSET Files /\ Misses(s) \in SUBSET Files
  BY DEF TypeOK, Misses, Candidates
<1>3. CASE \E f \in bySidecar : k = Key(f)
  <2>1. PICK f \in traced \cap relint[s] : "bounded" \in passes /\ k = Key(f)
    BY <1>3
  <2>2. entry = [probes |-> Answered(Probes(k[1], tree), tree),
                 diagnostics |-> Attributed(bounded[s], "bounded", k[1])]
    BY <1>3 DEF SidecarEntries
  <2>3. bounded[s] \in PassResults({"bounded"}, relint[s]) /\ ~bounded[s].partial
    BY <1>1, <2>1 DEF BoundedDone, SidecarFamilies, StorablePasses, Trusted
  <2>4. f \in relint[s] \cap Hashed /\ {"bounded"} \in SUBSET Families
    BY <2>1 DEF Families
  <2> HIDE DEF entry, traced
  <2>5. SidecarEntryHolds(k, entry) /\ entry \in SidecarEntriesOnDisk
    BY <1>2, <2>1, <2>2, <2>3, <2>4, NewSidecarEntry
  <2>6. QED
    BY <2>5 DEF entry
<1>4. CASE (~\E f \in bySidecar : k = Key(f)) /\ (\E f \in byFull : k = Key(f))
  <2>1. PICK f \in traced \cap Misses(s) : "full" \in passes /\ k = Key(f)
    BY <1>4
  <2>2. entry = [probes |-> Answered(Probes(k[1], tree), tree),
                 diagnostics |-> Attributed(full[s], "bounded", k[1])]
    BY <1>4 DEF SidecarEntries
  <2>3. full[s] \in PassResults(Families, Misses(s)) /\ ~full[s].partial
    BY <1>1, <2>1 DEF Verified, StorablePasses, Trusted
  <2>4. f \in Misses(s) \cap Hashed /\ Families \in SUBSET Families /\ "bounded" \in Families
    BY <2>1 DEF Families
  <2> HIDE DEF entry, traced
  <2>5. SidecarEntryHolds(k, entry) /\ entry \in SidecarEntriesOnDisk
    BY <1>2, <2>1, <2>2, <2>3, <2>4, NewSidecarEntry
  <2>6. QED
    BY <2>5 DEF entry
<1>5. CASE (~\E f \in bySidecar : k = Key(f)) /\ (~\E f \in byFull : k = Key(f))
  <2>1. entry = loadedSidecar[s][k]
    BY <1>5 DEF SidecarEntries
  <2>2. QED
    BY <2>1 DEF LoadedHold, TypeOK
<1>6. QED
  BY <1>3, <1>4, <1>5

\* What a finishing scan reports.
FinalReport(s) ==
  [diagnostics |-> replayed[s] \cup full[s].diagnostics \cup bounded[s].diagnostics
                     \cup unbounded[s].diagnostics,
   analyzed |-> AnalyzedFiles(s),
   partial |-> full[s].partial \/ bounded[s].partial \/ unbounded[s].partial]

\* The end of a scan stores nothing in the sidecar that could be served wrongly, and reports.
LEMMA FinishHolds ==
  ASSUME CachedIInv, NEW s \in Scans, Finish(s)
  PROVE  CachedIInv'
<1> USE DEF CachedIInv
<1>1. phase[s] = "finishing" /\ End(s) /\ fileCache' = fileCache /\ report' = FinalReport(s)
  BY DEF Finish, FinalReport
<1>2. PICK passes \in SUBSET StorablePasses(s) :
        /\ passes # StorablePasses(s) => troubles < MaxTroubles
        /\ troubles' = IF passes # StorablePasses(s) THEN troubles + 1 ELSE troubles
        /\ sidecarCache' = IF mode[s] = "sidecar" /\ SidecarEntries(s, passes).stored # {}
                           THEN Merge(sidecarCache, SidecarEntries(s, passes).ours)
                           ELSE sidecarCache
        /\ settled' \in BOOLEAN
  BY DEF Finish, TypeOK
<1>3. troubles' \in 0..MaxTroubles
  BY <1>2, CachedLintAssumption DEF TypeOK
<1>4. report' \in PassOutcomes
  <2>1. AnalyzedFiles(s) \subseteq Files
    BY DEF AnalyzedFiles, TypeOK, PassOutcomes
  <2>2. QED
    BY <1>1, <2>1 DEF FinalReport, TypeOK, PassOutcomes
<1>5. sidecarCache' \in [Keys -> SidecarEntriesOnDisk]
      /\ \A k \in Keys : SidecarEntryHolds(k, sidecarCache'[k])
  <2>1. CASE sidecarCache' = sidecarCache
    BY <2>1 DEF TypeOK, EntriesHold
  <2>2. CASE mode[s] = "sidecar" /\ sidecarCache' = Merge(sidecarCache, SidecarEntries(s, passes).ours)
    <3>1. \A k \in Keys : /\ SidecarEntryHolds(k, SidecarEntries(s, passes).ours[k])
                          /\ SidecarEntries(s, passes).ours[k] \in SidecarEntriesOnDisk
      BY <1>1, <2>2, OwnSidecarHolds
    <3>2. \A k \in Keys : SidecarEntryHolds(k, sidecarCache'[k])
      BY <2>2, <3>1, MergeHolds DEF EntriesHold
    <3>3. sidecarCache' \in [Keys -> SidecarEntriesOnDisk]
      BY <2>2, <3>1 DEF Merge, TypeOK
    <3>4. QED
      BY <3>2, <3>3
  <2>3. QED
    BY <1>2, <2>1, <2>2
<1>6. QED
  BY <1>1, <1>2, <1>3, <1>4, <1>5, EndHolds

\* The path without caches.
LEMMA ColdPassHolds ==
  ASSUME CachedIInv, NEW s \in Scans, ColdPass(s)
  PROVE  CachedIInv'
<1> USE DEF CachedIInv
<1>1. Candidates(tree) \in SUBSET Files
  BY DEF Candidates
<1>2. report' \in PassOutcomes
  BY <1>1, PassTyped DEF ColdPass, TypeOK
<1>3. End(s) /\ UNCHANGED <<troubles, fileCache, sidecarCache, settled>>
  BY DEF ColdPass, diskVars
<1>4. QED
  BY <1>2, <1>3, EndHolds DEF TypeOK, EntriesHold

\* A scan that fails stores nothing more.
LEMMA FailHolds ==
  ASSUME CachedIInv, NEW s \in Scans, Fail(s), report' = NoResult
  PROVE  CachedIInv'
<1>1. End(s) /\ UNCHANGED <<troubles, fileCache, sidecarCache, settled>>
  BY DEF Fail, diskVars
<1>2. QED
  BY <1>1, EndHolds, NoResultTyped DEF CachedIInv, TypeOK, EntriesHold

\* The project changes while no scan holds anything of it.
LEMMA EditHolds ==
  ASSUME CachedIInv, Edit, report' = NoResult
  PROVE  CachedIInv'
<1> USE DEF CachedIInv
<1>1. /\ Running = {} /\ tree' \in Trees /\ edits' \in 0..MaxEdits /\ settled' = FALSE
      /\ UNCHANGED <<troubles, phase, mode, loadedFiles, loadedSidecar, hits, replayed, relint,
                     full, bounded, unbounded, fileCache, sidecarCache, untroubled>>
  BY CachedLintAssumption DEF Edit, TypeOK, loadVars, scanVars, diskVars
<1>2. TypeOK'
  BY <1>1, NoResultTyped DEF TypeOK
<1>3. EntriesHold' /\ LoadedHold'
  BY <1>1 DEF EntriesHold, LoadedHold
<1>4. ScansAgree'
  BY <1>1 DEF Running, ScansAgree, ScanAgrees
<1>5. QED
  BY <1>2, <1>3, <1>4

\* An entry that is lost is a miss.
LEMMA ForgetHolds ==
  ASSUME CachedIInv, NEW k \in Keys, Forget(k), report' = NoResult
  PROVE  CachedIInv'
<1> USE DEF CachedIInv
<1>1. /\ troubles' \in 0..MaxTroubles /\ settled' = FALSE /\ untroubled' = {}
      /\ \/ fileCache' = [fileCache EXCEPT ![k] = Miss] /\ UNCHANGED sidecarCache
         \/ sidecarCache' = [sidecarCache EXCEPT ![k] = Miss] /\ UNCHANGED fileCache
      /\ UNCHANGED <<tree, edits, phase, mode, loadedFiles, loadedSidecar, hits, replayed,
                     relint, full, bounded, unbounded>>
  BY CachedLintAssumption DEF Forget, TypeOK, loadVars, scanVars
<1>2. fileCache' \in [Keys -> FileEntries] /\ sidecarCache' \in [Keys -> SidecarEntriesOnDisk]
  BY <1>1 DEF TypeOK, FileEntries, SidecarEntriesOnDisk
<1>3. TypeOK'
  BY <1>1, <1>2, NoResultTyped DEF TypeOK
<1>4. EntriesHold' /\ LoadedHold'
  <2>1. FileEntryHolds(k, Miss) /\ SidecarEntryHolds(k, Miss)
    BY DEF FileEntryHolds, SidecarEntryHolds
  <2>2. \A j \in Keys : fileCache'[j] \in {fileCache[j], IF j = k THEN Miss ELSE fileCache[j]}
    BY <1>1 DEF TypeOK
  <2>3. \A j \in Keys : sidecarCache'[j] \in
                        {sidecarCache[j], IF j = k THEN Miss ELSE sidecarCache[j]}
    BY <1>1 DEF TypeOK
  <2>4. QED
    BY <1>1, <2>1, <2>2, <2>3 DEF EntriesHold, LoadedHold
<1>5. \A u \in Scans : ScanAgrees(u)'
  BY <1>1, OthersAgree DEF ScansAgree
<1>6. QED
  BY <1>3, <1>4, <1>5 DEF ScansAgree

----------------------------------------------------------------------------
(* The reports *)

\* A diagnostic of a lint is a family's finding for one of the files.
LEMMA LintMembers ==
  ASSUME NEW families, NEW A, NEW t
  PROVE  \A x : x \in Lint(families, A, t) <=> \E m \in families, f \in A : x = Finding(m, f, t)
  BY DEF Lint

\* The lint of the abstract specification is the same.
LEMMA SameLint ==
  ASSUME NEW families, NEW A, NEW t
  PROVE  Cold!Lint(families, A, t) = Lint(families, A, t)
  BY DEF Cold!Lint, Lint, Cold!Finding, Finding, Cold!Saw, Saw, Cold!Answered, Answered,
     Cold!Answer, Answer

\* What is replayed and what the passes find are together what a fresh lint of the
\* analyzed files finds, and nothing else.
LEMMA FinalReportFaithful ==
  ASSUME CachedIInv, NEW s \in Scans, phase[s] = "finishing"
  PROVE  Cold!Faithful(FinalReport(s), tree)
<1> DEFINE H == hits[s]
           R == relint[s]
           M == Misses(s)
           fA == full[s].analyzed
           bA == bounded[s].analyzed
           uA == unbounded[s].analyzed
           found == FinalReport(s).diagnostics
           analyzed == FinalReport(s).analyzed
           C == Candidates(tree)
<1>1. /\ H \subseteq C /\ M = C \ H /\ R \subseteq H
      /\ replayed[s] = Lint({"own"}, H, tree) \cup Lint({"bounded"}, H \ R, tree)
      /\ mode[s] = "file" => R = H
      /\ mode[s] \in {"file", "sidecar"}
  BY FinishingScan DEF Partitioned, Verified, Misses, Hashed
<1>2. full[s].diagnostics = Lint(Families, fA, tree) /\ fA \subseteq M /\ full[s].partial \in BOOLEAN
      /\ (~full[s].partial => fA = M)
  BY FinishingScan, CompletePass DEF Verified
<1>3. /\ bounded[s].diagnostics = Lint(SidecarFamilies(s), bA, tree) /\ bA \subseteq R
      /\ bounded[s].partial \in BOOLEAN /\ (~bounded[s].partial => bA = R)
  BY FinishingScan, CompletePass DEF BoundedDone
<1>4. mode[s] = "sidecar" =>
        /\ unbounded[s].diagnostics = Lint({"unbounded"}, uA, tree) /\ uA \subseteq H
        /\ unbounded[s].partial \in BOOLEAN /\ (~unbounded[s].partial => uA = H)
  BY FinishingScan, CompletePass DEF UnboundedDone
<1>5. mode[s] = "file" => unbounded[s].diagnostics = {} /\ unbounded[s].partial = FALSE
  BY FinishingScan DEF UnboundedDone, NoResult
<1>6. /\ found = replayed[s] \cup full[s].diagnostics \cup bounded[s].diagnostics
                   \cup unbounded[s].diagnostics
      /\ analyzed = AnalyzedFiles(s)
      /\ FinalReport(s).partial = (full[s].partial \/ bounded[s].partial \/ unbounded[s].partial)
  BY DEF FinalReport
<1>7. mode[s] = "sidecar" => analyzed = fA \cup (((H \ R) \cup bA) \cap uA)
  BY <1>6 DEF AnalyzedFiles
<1>8. mode[s] = "file" => analyzed = fA \cup bA
  BY <1>6 DEF AnalyzedFiles
<1> HIDE DEF H, R, M, fA, bA, uA, found, analyzed, C
<1>9. analyzed \subseteq C /\ (FinalReport(s).partial \/ analyzed = C)
  BY <1>1, <1>2, <1>3, <1>4, <1>5, <1>6, <1>7, <1>8
<1>10. Lint(Families, analyzed, tree) \subseteq found
  <2> SUFFICES ASSUME NEW m \in Families, NEW f \in analyzed
               PROVE  Finding(m, f, tree) \in found
    BY LintMembers
  <2>1. CASE f \in fA
    BY <2>1, <1>2, <1>6, LintMembers
  <2>2. CASE mode[s] = "sidecar" /\ f \in ((H \ R) \cup bA) \cap uA
    <3>1. f \in H
      BY <2>2, <1>4
    <3>2. CASE m = "own"
      BY <3>1, <3>2, <1>1, <1>6, LintMembers
    <3>3. CASE m = "bounded"
      BY <2>2, <3>3, <1>1, <1>3, <1>6, LintMembers DEF SidecarFamilies
    <3>4. CASE m = "unbounded"
      BY <2>2, <3>4, <1>4, <1>6, LintMembers
    <3>5. QED
      BY <3>2, <3>3, <3>4 DEF Families
  <2>3. CASE mode[s] = "file" /\ f \in bA
    <3>1. f \in H
      BY <2>3, <1>1, <1>3
    <3>2. CASE m = "own"
      BY <3>1, <3>2, <1>1, <1>6, LintMembers
    <3>3. CASE m \in {"bounded", "unbounded"}
      BY <2>3, <3>3, <1>3, <1>6, LintMembers DEF SidecarFamilies
    <3>4. QED
      BY <3>2, <3>3 DEF Families
  <2>4. QED
    BY <2>1, <2>2, <2>3, <1>1, <1>7, <1>8
<1>11. found \subseteq Lint(Families, C, tree)
  <2>1. \A F \in SUBSET Families, A \in SUBSET C : Lint(F, A, tree) \subseteq Lint(Families, C, tree)
    BY DEF Lint
  <2>2. replayed[s] \subseteq Lint(Families, C, tree)
    <3>1. Lint({"own"}, H, tree) \subseteq Lint(Families, C, tree)
      BY <2>1, <1>1 DEF Families
    <3>2. Lint({"bounded"}, H \ R, tree) \subseteq Lint(Families, C, tree)
      BY <2>1, <1>1 DEF Families
    <3>3. QED
      BY <3>1, <3>2, <1>1
  <2>3. full[s].diagnostics \subseteq Lint(Families, C, tree)
    BY <2>1, <1>1, <1>2
  <2>4. SidecarFamilies(s) \subseteq Families /\ bA \subseteq C
    BY <1>1, <1>3 DEF SidecarFamilies, Families
  <2>5. bounded[s].diagnostics \subseteq Lint(Families, C, tree)
    BY <2>1, <2>4, <1>3
  <2>6. {"unbounded"} \subseteq Families
    BY DEF Families
  <2>7. unbounded[s].diagnostics \subseteq Lint(Families, C, tree)
    BY <2>1, <2>6, <1>1, <1>4, <1>5
  <2>8. QED
    BY <1>6, <2>2, <2>3, <2>5, <2>7
<1>12. QED
  BY <1>9, <1>10, <1>11, SameLint
     DEF Cold!Faithful, Cold!Families, Families, Cold!Candidates, Candidates, found, analyzed, C

\* So is the report of the path without caches.
LEMMA ColdReportFaithful ==
  ASSUME NEW r \in PassResults(Families, Candidates(tree))
  PROVE  Cold!Faithful(r, tree)
<1>1. /\ r.diagnostics = Lint(Families, r.analyzed, tree) /\ r.analyzed \subseteq Candidates(tree)
      /\ r.partial \in BOOLEAN /\ (~r.partial => r.analyzed = Candidates(tree))
  BY CompletePass
<1>2. Lint(Families, r.analyzed, tree) \subseteq Lint(Families, Candidates(tree), tree)
  BY <1>1 DEF Lint
<1>3. QED
  BY <1>1, <1>2, SameLint
     DEF Cold!Faithful, Cold!Families, Families, Cold!Candidates, Candidates

----------------------------------------------------------------------------
(* The theorems *)

\* Every step keeps the invariant.
LEMMA CachedStepHolds == CachedIInv /\ [Next]_vars => CachedIInv'
<1> SUFFICES ASSUME CachedIInv, [Next]_vars PROVE CachedIInv'
  OBVIOUS
<1>1. CASE \E s \in Scans : ColdPass(s) \/ Finish(s)
  BY <1>1, ColdPassHolds, FinishHolds
<1>2. ASSUME NEW s \in Scans, NEW m \in Modes, Begin(s, m), report' = NoResult
      PROVE  CachedIInv'
  BY <1>2, BeginHolds
<1>3. ASSUME NEW s \in Scans, report' = NoResult,
             OpenSidecar(s) \/ FullPass(s) \/ BoundedPass(s) \/ UnboundedPass(s)
      PROVE  CachedIInv'
  BY <1>3, OpenSidecarHolds, FullPassHolds, BoundedPassHolds, UnboundedPassHolds
<1>4. ASSUME NEW s \in Scans, report' = NoResult,
             StoreFiles(s) \/ StoreNoFiles(s) \/ Fail(s)
      PROVE  CachedIInv'
  BY <1>4, StoreFilesHolds, StoreNoFilesHolds, FailHolds
<1>5. CASE Edit /\ report' = NoResult
  BY <1>5, EditHolds
<1>6. CASE (\E k \in Keys : Forget(k)) /\ report' = NoResult
  BY <1>6, ForgetHolds
<1>7. CASE UNCHANGED vars
  <2>1. \A u \in Scans : ScanAgrees(u)'
    BY <1>7, OthersAgree DEF vars, worldVars, projectVars, loadVars, scanVars, CachedIInv, ScansAgree
  <2>2. TypeOK' /\ EntriesHold' /\ LoadedHold'
    BY <1>7 DEF vars, worldVars, projectVars, loadVars, scanVars, diskVars, CachedIInv, TypeOK,
       EntriesHold, LoadedHold
  <2>3. QED
    BY <2>1, <2>2 DEF CachedIInv, ScansAgree
<1>8. QED
  BY <1>1, <1>2, <1>3, <1>4, <1>5, <1>6, <1>7 DEF Next

\* What every step keeps holds at all times.
LEMMA CachedInvariant == Spec => []CachedIInv
  BY CachedInitHolds, CachedStepHolds, PTL DEF Spec

\* The types of the scans and of the caches.
THEOREM CachedTypeCorrect == Spec => []TypeOK
<1>1. CachedIInv => TypeOK
  BY DEF CachedIInv
<1>2. QED
  BY <1>1, CachedInvariant, PTL

\* No entry of either cache can be served where it is wrong, in any tree.
THEOREM EntriesAlwaysHold == Spec => []EntriesHold
<1>1. CachedIInv => EntriesHold
  BY DEF CachedIInv
<1>2. QED
  BY <1>1, CachedInvariant, PTL

\* A scan that begins or ends is one more or one less that runs.
LEMMA RunningSteps ==
  ASSUME phase \in [Scans -> Phases], NEW s \in Scans, NEW p,
         phase' = [phase EXCEPT ![s] = p]
  PROVE  /\ p = "idle" => Running' = Running \ {s}
         /\ p # "idle" => Running' = Running \cup {s}
  BY DEF Running

\* Every step of a lint with caches is one of a lint without, or shows nothing.
LEMMA ColdStep == CachedIInv /\ [Next]_vars => [Cold!ColdNext]_(Cold!coldVars)
<1> SUFFICES ASSUME CachedIInv, [Next]_vars PROVE [Cold!ColdNext]_(Cold!coldVars)
  OBVIOUS
<1> USE DEF CachedIInv
<1>0. phase \in [Scans -> Phases] /\ Cold!NoReport = NoResult
  BY DEF TypeOK, Cold!NoReport, NoResult
<1>1. ASSUME NEW s \in Scans, ColdPass(s) \/ Finish(s)
      PROVE  Cold!ColdNext
  <2>1. phase[s] # "idle" /\ End(s)
    BY <1>1 DEF ColdPass, Finish
  <2>2. Running' = Running \ {s} /\ s \in Running /\ tree' = tree
    BY <1>0, <2>1, RunningSteps DEF End, Running, projectVars
  <2>3. Cold!Faithful(report', tree)
    BY <1>1, ColdReportFaithful, FinalReportFaithful DEF ColdPass, Finish, FinalReport
  <2>4. QED
    BY <2>2, <2>3 DEF Cold!ColdNext, Cold!ColdFinish
<1>2. ASSUME NEW s \in Scans, NEW m \in Modes, Begin(s, m), report' = NoResult
      PROVE  Cold!ColdNext
  <2>1. Running' = Running \cup {s} /\ s \notin Running
    <3>1. phase' = [phase EXCEPT ![s] = IF m = "cold" THEN "cold" ELSE "opening"]
          /\ phase[s] = "idle"
      BY <1>2 DEF Begin
    <3>2. QED
      BY <1>0, <3>1, RunningSteps DEF Running
  <2>2. QED
    BY <1>0, <1>2, <2>1 DEF Begin, worldVars, projectVars, Cold!ColdNext, Cold!ColdStart
<1>3. ASSUME NEW s \in Scans, report' = NoResult,
             \/ OpenSidecar(s) \/ FullPass(s) \/ BoundedPass(s) \/ UnboundedPass(s)
             \/ StoreFiles(s) \/ StoreNoFiles(s)
      PROVE  Cold!ColdNext
  <2>1. \E p \in Phases \ {"idle"} : phase' = [phase EXCEPT ![s] = p]
    BY <1>3 DEF OpenSidecar, FullPass, BoundedPass, UnboundedPass, StoreFiles, StoreNoFiles, Phases
  <2>2. phase[s] # "idle" /\ tree' = tree
    BY <1>3 DEF OpenSidecar, FullPass, BoundedPass, UnboundedPass, StoreFiles, StoreNoFiles,
       worldVars, projectVars
  <2>3. Running' = Running
    BY <1>0, <2>1, <2>2, RunningSteps DEF Running
  <2>4. QED
    BY <1>0, <1>3, <2>2, <2>3 DEF Cold!ColdNext, Cold!ColdWork
<1>4. ASSUME NEW s \in Scans, Fail(s), report' = NoResult
      PROVE  Cold!ColdNext
  <2>1. Running' = Running \ {s} /\ s \in Running /\ tree' = tree
    BY <1>0, <1>4, RunningSteps DEF Fail, End, Running, projectVars
  <2>2. QED
    BY <1>0, <1>4, <2>1 DEF Cold!ColdNext, Cold!ColdFinish
<1>5. CASE Edit /\ report' = NoResult
  <2>1. Running = {} /\ Running' = Running /\ tree' \in Trees
    BY <1>5 DEF Edit, Running
  <2>2. QED
    BY <1>0, <1>5, <2>1 DEF Cold!ColdNext, Cold!ColdEdit
<1>6. CASE (\E k \in Keys : Forget(k)) /\ report' = NoResult
  <2>1. Running' = Running /\ tree' = tree
    BY <1>6 DEF Forget, Running
  <2>2. QED
    BY <1>0, <1>6, <2>1 DEF Cold!ColdNext, Cold!ColdWork
<1>7. CASE UNCHANGED vars
  BY <1>7 DEF vars, worldVars, projectVars, Cold!coldVars, Running
<1>8. QED
  BY <1>1, <1>2, <1>3, <1>4, <1>5, <1>6, <1>7 DEF Next

\* A lint with caches implements a lint without: whatever is replayed, by however
\* many scans over whatever history of the project, the report is faithful to the
\* present tree.
THEOREM CachedRefinement == Spec => ImplementsColdLint
<1>1. Init => Cold!ColdInit
  BY DEF Init, Cold!ColdInit, Running, Cold!NoReport, NoResult
<1>2. QED
  BY <1>1, ColdStep, CachedInvariant, PTL DEF Spec, ImplementsColdLint, Cold!ColdSpec

----------------------------------------------------------------------------
(* The caches are of use *)

\* What an undisturbed scan has got hold of, by phase: it is alone, and what it
\* does not replay is being linted completely.
WarmAgrees(s) ==
  /\ mode[s] = "sidecar" /\ Running = {s} /\ phase[s] # "cold"
  /\ \A f \in hits[s] : fileCache[Key(f)] # Miss
  /\ phase[s] # "opening" => loadedSidecar[s] = sidecarCache
  /\ phase[s] \in {"bounded", "unbounded", "storing", "finishing"} =>
       /\ ~full[s].partial
       /\ \A f \in hits[s] \ relint[s] : Replayable(loadedSidecar[s][Key(f)])
  /\ phase[s] \in {"unbounded", "storing", "finishing"} => ~bounded[s].partial
  /\ phase[s] = "finishing" => \A f \in Hashed : fileCache[Key(f)] # Miss

\* What a later scan of the same tree has loaded cannot undo it.
LoadedIsFresh(s) ==
  phase[s] \notin {"idle", "cold", "opening"} =>
    \A f \in Hashed :
      tree[f] \notin Unparseable =>
        loadedSidecar[s][Key(f)] = Miss \/ Replayable(loadedSidecar[s][Key(f)])

WarmIInv ==
  /\ \A s \in untroubled : WarmAgrees(s)
  /\ settled => \A s \in Scans : LoadedIsFresh(s)
  /\ WarmIsReady

\* What is asked of a tree stays the same with the tree.
LEMMA SameTree ==
  ASSUME tree' = tree
  PROVE  /\ Hashed' = Hashed /\ \A f : Key(f)' = Key(f)
         /\ \A entry : Replayable(entry)' = Replayable(entry)
  BY DEF Hashed, Key, Replayable

\* A step that does not touch the caches nor, for a scan past the opening, what it
\* has loaded.
LEMMA ReadyKept ==
  ASSUME WarmIInv, tree' = tree, UNCHANGED diskVars, settled' => settled,
         \A u \in Scans : \/ phase'[u] \in {"idle", "cold", "opening"}
                          \/ /\ phase[u] \notin {"idle", "cold", "opening"}
                             /\ loadedSidecar'[u] = loadedSidecar[u]
  PROVE  /\ settled' => \A s \in Scans : LoadedIsFresh(s)'
         /\ WarmIsReady'
  BY SameTree DEF WarmIInv, LoadedIsFresh, WarmIsReady, diskVars

\* A scan that is undisturbed is the only one that runs.
LEMMA UndisturbedIsAlone ==
  ASSUME WarmIInv, NEW s \in Scans, phase[s] # "idle"
  PROVE  untroubled \subseteq {s}
  BY DEF WarmIInv, WarmAgrees, Running

\* A scan that moves on, runs.
LEMMA MovingRuns ==
  ASSUME CachedIInv, NEW s \in Scans, NEW p, p # "idle", phase' = [phase EXCEPT ![s] = p]
  PROVE  Running' = Running \cup {s}
<1>1. phase \in [Scans -> Phases]
  BY DEF CachedIInv, TypeOK
<1>2. QED
  BY <1>1, RunningSteps

\* The steps that only move one scan on.
LEMMA MovingKeepsWarm ==
  ASSUME CachedIInv, WarmIInv, NEW s \in Scans, tree' = tree, settled' = settled,
         NEW p \in Phases \ {"idle", "cold", "opening"}, phase' = [phase EXCEPT ![s] = p],
         phase[s] \notin {"idle", "cold", "opening"},
         UNCHANGED <<loadVars, diskVars>>, untroubled' \subseteq untroubled,
         s \in untroubled' => WarmAgrees(s)'
  PROVE  WarmIInv'
<1>0. phase \in [Scans -> Phases]
  BY DEF CachedIInv, TypeOK
<1>1. \A u \in Scans : \/ phase'[u] \in {"idle", "cold", "opening"}
                       \/ /\ phase[u] \notin {"idle", "cold", "opening"}
                          /\ loadedSidecar'[u] = loadedSidecar[u]
  BY <1>0 DEF loadVars
<1>2. (settled' => \A u \in Scans : LoadedIsFresh(u)') /\ WarmIsReady'
  BY <1>1, ReadyKept
<1>3. untroubled' \subseteq {s}
  BY UndisturbedIsAlone
<1>4. QED
  BY <1>2, <1>3 DEF WarmIInv

\* The scans begin and open their caches.
LEMMA OpeningKeepsWarm ==
  ASSUME CachedIInv, WarmIInv, NEW s \in Scans,
         (\E m \in Modes : Begin(s, m)) \/ OpenSidecar(s)
  PROVE  WarmIInv'
<1>0. phase \in [Scans -> Phases] /\ mode \in [Scans -> Modes] /\ hits \in [Scans -> SUBSET Files]
      /\ loadedSidecar \in [Scans -> [Keys -> SidecarEntriesOnDisk]]
  BY DEF CachedIInv, TypeOK
<1>1. ASSUME NEW m \in Modes, Begin(s, m) PROVE WarmIInv'
  <2>1. /\ phase[s] = "idle" /\ tree' = tree /\ settled' = settled /\ UNCHANGED diskVars
        /\ UNCHANGED loadedSidecar
        /\ phase' = [phase EXCEPT ![s] = IF m = "cold" THEN "cold" ELSE "opening"]
        /\ mode' = [mode EXCEPT ![s] = m]
        /\ untroubled' = IF m = "sidecar" /\ Running = {} THEN {s} ELSE {}
    BY <1>1 DEF Begin, worldVars, projectVars
  <2>2. (settled' => \A u \in Scans : LoadedIsFresh(u)') /\ WarmIsReady'
    <3>1. \A u \in Scans : \/ phase'[u] \in {"idle", "cold", "opening"}
                           \/ /\ phase[u] \notin {"idle", "cold", "opening"}
                              /\ loadedSidecar'[u] = loadedSidecar[u]
      BY <2>1, <1>0
    <3>2. QED
      BY <2>1, <3>1, ReadyKept
  <2>3. ASSUME m = "sidecar", Running = {} PROVE WarmAgrees(s)'
    <3>1. phase'[s] = "opening" /\ mode'[s] = "sidecar"
      BY <2>1, <2>3, <1>0
    <3>2. Running' = {s}
      <4>1. phase' = [phase EXCEPT ![s] = "opening"]
        BY <2>1, <2>3
      <4>2. Running' = Running \cup {s}
        BY <4>1, MovingRuns
      <4>3. QED
        BY <4>2, <2>3
    <3>3. hits'[s] = {f \in Hashed : fileCache[Key(f)] # Miss}
      BY <1>0, <1>1, <2>3 DEF Begin
    <3>4. \A f \in hits'[s] : fileCache'[Key(f)'] # Miss
      BY <2>1, <3>3, SameTree DEF diskVars
    <3>5. QED
      BY <3>1, <3>2, <3>4 DEF WarmAgrees
  <2>4. QED
    BY <2>1, <2>2, <2>3 DEF WarmIInv
<1>2. CASE OpenSidecar(s)
  <2>1. /\ phase[s] = "opening" /\ tree' = tree
        /\ UNCHANGED <<settled, untroubled, diskVars, mode, hits>>
        /\ phase' = [phase EXCEPT ![s] = "full"]
        /\ loadedSidecar' =
             [loadedSidecar EXCEPT ![s] = IF mode[s] = "sidecar" THEN sidecarCache ELSE NoEntries]
    BY <1>2 DEF OpenSidecar, worldVars, projectVars, scanVars
  <2>2. WarmIsReady'
    BY <2>1, SameTree DEF WarmIInv, WarmIsReady, diskVars
  <2>3. ASSUME settled, NEW u \in Scans PROVE LoadedIsFresh(u)'
    <3>1. CASE u = s
      <4>1. loadedSidecar'[s] \in {sidecarCache, NoEntries}
        BY <2>1, <1>0
      <4>2. ASSUME NEW f \in Hashed, tree[f] \notin Unparseable
            PROVE  LET entry == loadedSidecar'[s][Key(f)] IN entry = Miss \/ Replayable(entry)
        <5>1. Key(f) \in Keys
          BY KeyIsKey DEF CachedIInv, TypeOK
        <5>2. Replayable(sidecarCache[Key(f)])
          BY <2>3, <4>2 DEF WarmIInv, WarmIsReady
        <5>3. NoEntries[Key(f)] = Miss
          BY <5>1 DEF NoEntries
        <5>4. QED
          BY <4>1, <5>2, <5>3
      <4>3. QED
        BY <3>1, <2>1, <4>2, SameTree DEF LoadedIsFresh
    <3>2. CASE u # s
      <4>1. phase'[u] = phase[u] /\ loadedSidecar'[u] = loadedSidecar[u] /\ LoadedIsFresh(u)
        BY <3>2, <2>1, <2>3, <1>0 DEF WarmIInv
      <4>2. QED
        BY <4>1, <2>1, SameTree DEF LoadedIsFresh
    <3>3. QED
      BY <3>1, <3>2
  <2>4. ASSUME s \in untroubled PROVE WarmAgrees(s)'
    <3>1. WarmAgrees(s)
      BY <2>4 DEF WarmIInv
    <3>2. phase'[s] = "full" /\ loadedSidecar'[s] = sidecarCache
      BY <2>1, <3>1, <1>0 DEF WarmAgrees
    <3>3. Running' = Running
      <4>1. phase' = [phase EXCEPT ![s] = "full"]
        BY <2>1
      <4>2. Running' = Running \cup {s}
        BY <4>1, MovingRuns
      <4>3. QED
        BY <4>2, <3>1 DEF WarmAgrees
    <3>4. QED
      BY <2>1, <3>1, <3>2, <3>3, SameTree DEF WarmAgrees, diskVars
  <2>5. untroubled' \subseteq {s}
    BY <2>1, UndisturbedIsAlone
  <2>6. QED
    BY <2>1, <2>2, <2>3, <2>4, <2>5 DEF WarmIInv
<1>3. QED
  BY <1>1, <1>2

\* The passes: an undisturbed scan lost nothing in them.
LEMMA PassKeepsWarm ==
  ASSUME CachedIInv, WarmIInv, NEW s \in Scans,
         FullPass(s) \/ BoundedPass(s) \/ UnboundedPass(s)
  PROVE  WarmIInv'
<1>0. /\ phase \in [Scans -> Phases] /\ hits \in [Scans -> SUBSET Files]
      /\ full \in [Scans -> PassOutcomes] /\ bounded \in [Scans -> PassOutcomes]
      /\ relint \in [Scans -> SUBSET Files]
  BY DEF CachedIInv, TypeOK
<1>1. /\ tree' = tree /\ settled' = settled /\ UNCHANGED <<loadVars, diskVars, hits>>
      /\ phase[s] \in {"full", "bounded", "unbounded"}
  BY DEF FullPass, BoundedPass, UnboundedPass, projectVars
<1>2. ASSUME NEW r, Trouble(s, r.partial)
      PROVE  untroubled' \subseteq untroubled /\ (s \in untroubled' => ~r.partial)
  BY <1>2 DEF Trouble
<1>3. ASSUME NEW p \in {"bounded", "unbounded", "storing"}, phase' = [phase EXCEPT ![s] = p],
             s \in untroubled
      PROVE  /\ WarmAgrees(s) /\ phase'[s] = p
             /\ WarmAgrees(s)' <=>
                  /\ p \in {"bounded", "unbounded", "storing"} =>
                       /\ ~full'[s].partial
                       /\ \A f \in hits[s] \ relint'[s] : Replayable(loadedSidecar[s][Key(f)])
                  /\ p \in {"unbounded", "storing"} => ~bounded'[s].partial
  <2>1. WarmAgrees(s) /\ Running = {s}
    BY <1>3 DEF WarmIInv, WarmAgrees
  <2>2. Running' = {s}
    <3>1. Running' = Running \cup {s}
      BY <1>3, MovingRuns
    <3>2. QED
      BY <2>1, <3>1
  <2>3. phase'[s] = p
    BY <1>0, <1>3
  <2>4. QED
    BY <1>1, <2>1, <2>2, <2>3, SameTree DEF WarmAgrees, loadVars, diskVars
<1>4. CASE FullPass(s)
  <2>1. PICK r \in PassResults(Families, Misses(s)) :
          full' = [full EXCEPT ![s] = r] /\ Trouble(s, r.partial)
    BY <1>4 DEF FullPass
  <2>2. phase' = [phase EXCEPT ![s] = "bounded"]
        /\ relint'[s] = hits[s] \ {f \in hits[s] : Replayable(loadedSidecar[s][Key(f)])}
    BY <1>0, <1>4 DEF FullPass
  <2>3. full'[s] = r
    BY <1>0, <2>1
  <2>4. untroubled' \subseteq untroubled /\ (s \in untroubled' => ~r.partial)
    BY <1>2, <2>1
  <2>5. s \in untroubled' => WarmAgrees(s)'
    BY <1>3, <2>2, <2>3, <2>4
  <2>6. QED
    BY <1>1, <2>2, <2>4, <2>5, MovingKeepsWarm DEF Phases
<1>5. CASE BoundedPass(s)
  <2>1. PICK r \in PassResults(IF mode[s] = "sidecar" THEN {"bounded"} ELSE {"bounded", "unbounded"},
                               relint[s]) :
          bounded' = [bounded EXCEPT ![s] = r] /\ Trouble(s, r.partial)
    BY <1>5 DEF BoundedPass
  <2>2. PICK p \in {"unbounded", "storing"} : phase' = [phase EXCEPT ![s] = p]
    BY <1>5 DEF BoundedPass
  <2>3. bounded'[s] = r /\ UNCHANGED <<full, relint>> /\ phase[s] = "bounded"
    BY <1>0, <1>5, <2>1 DEF BoundedPass
  <2>4. untroubled' \subseteq untroubled /\ (s \in untroubled' => ~r.partial)
    BY <1>2, <2>1
  <2>5. s \in untroubled' => WarmAgrees(s)'
    <3> SUFFICES ASSUME s \in untroubled' PROVE WarmAgrees(s)'
      OBVIOUS
    <3>1. s \in untroubled /\ ~r.partial
      BY <2>4
    <3>2. ~full[s].partial /\ \A f \in hits[s] \ relint[s] : Replayable(loadedSidecar[s][Key(f)])
      BY <2>3, <3>1 DEF WarmIInv, WarmAgrees
    <3>3. QED
      BY <1>3, <2>2, <2>3, <3>1, <3>2
  <2>6. QED
    BY <1>1, <2>2, <2>4, <2>5, MovingKeepsWarm DEF Phases
<1>6. CASE UnboundedPass(s)
  <2>1. PICK r \in PassResults({"unbounded"}, hits[s]) : Trouble(s, r.partial)
    BY <1>6 DEF UnboundedPass
  <2>2. /\ phase' = [phase EXCEPT ![s] = "storing"] /\ UNCHANGED <<full, bounded, relint>>
        /\ phase[s] = "unbounded"
    BY <1>6 DEF UnboundedPass
  <2>4. untroubled' \subseteq untroubled
    BY <1>2, <2>1
  <2>5. s \in untroubled' => WarmAgrees(s)'
    <3> SUFFICES ASSUME s \in untroubled' PROVE WarmAgrees(s)'
      OBVIOUS
    <3>1. s \in untroubled
      BY <2>4
    <3>2. /\ ~full[s].partial /\ ~bounded[s].partial
          /\ \A f \in hits[s] \ relint[s] : Replayable(loadedSidecar[s][Key(f)])
      BY <2>2, <3>1 DEF WarmIInv, WarmAgrees
    <3>3. QED
      BY <1>3, <2>2, <3>1, <3>2
  <2>6. QED
    BY <1>1, <2>2, <2>4, <2>5, MovingKeepsWarm DEF Phases
<1>7. QED
  BY <1>4, <1>5, <1>6

\* The misses of a complete pass are stored; what others have stored stays.
LEMMA StoringKeepsWarm ==
  ASSUME CachedIInv, WarmIInv, NEW s \in Scans, StoreFiles(s)
  PROVE  WarmIInv'
<1> DEFINE ours == [k \in Keys |-> IF \E f \in Misses(s) : k = Key(f)
                                  THEN Attributed(full[s], "own", k[1]) ELSE loadedFiles[s][k]]
<1>0. phase \in [Scans -> Phases] /\ TypeOK /\ tree \in Trees
  BY DEF CachedIInv, TypeOK
<1>1. /\ phase[s] = "storing" /\ phase' = [phase EXCEPT ![s] = "finishing"]
      /\ Trusted(full[s]) /\ fileCache' = Merge(fileCache, ours)
      /\ UNCHANGED <<tree, loadVars, scanVars, sidecarCache, untroubled, settled>>
  BY DEF StoreFiles, worldVars, projectVars
<1>2. ASSUME NEW f \in Hashed, fileCache[Key(f)] # Miss PROVE fileCache'[Key(f)] # Miss
  <2>1. Key(f) \in Keys
    BY <1>0, KeyIsKey
  <2> HIDE DEF ours
  <2>2. QED
    BY <1>1, <1>2, <2>1 DEF Merge
<1>3. ASSUME NEW f \in Misses(s) \cap Hashed PROVE fileCache'[Key(f)] # Miss
  <2>1. Key(f) \in Keys /\ Key(f)[1] = f /\ Key(f)[2] = tree[f]
    BY <1>0, KeyIsKey DEF Key
  <2>2. ours[Key(f)] = Attributed(full[s], "own", f)
    BY <2>1
  <2>3. full[s] \in PassResults(Families, Misses(s)) /\ ~full[s].partial
    BY <1>1 DEF CachedIInv, ScansAgree, ScanAgrees, Verified, Trusted
  <2>4. Attributed(full[s], "own", f) = {[family |-> "own", file |-> f, saw |-> tree[f]]}
    BY <1>0, <2>3, StoredFilesHold
  <2> HIDE DEF ours
  <2>5. ours[Key(f)] # Miss
    BY <2>1, <2>2, <2>4, MissAssumption
  <2>6. QED
    BY <1>1, <2>1, <2>5 DEF Merge
<1>4. \A u \in Scans : LoadedIsFresh(u) => LoadedIsFresh(u)'
  <2> TAKE u \in Scans
  <2>1. loadedSidecar' = loadedSidecar /\ (u # s => phase'[u] = phase[u])
    BY <1>0, <1>1 DEF loadVars
  <2>2. QED
    BY <1>1, <2>1, SameTree DEF LoadedIsFresh
<1>5. WarmIsReady'
  BY <1>1, <1>2, SameTree DEF WarmIInv, WarmIsReady
<1>6. ASSUME s \in untroubled PROVE WarmAgrees(s)'
  <2>1. WarmAgrees(s)
    BY <1>6 DEF WarmIInv
  <2>2. phase'[s] = "finishing" /\ Running' = {s}
    <3>1. Running' = Running \cup {s}
      BY <1>1, MovingRuns
    <3>2. QED
      BY <1>0, <1>1, <2>1, <3>1 DEF WarmAgrees
  <2>3. \A f \in Hashed : fileCache'[Key(f)] # Miss
    <3>1. \A f \in Hashed \ hits[s] : f \in Misses(s)
      BY DEF Hashed, Misses
    <3>2. \A f \in Hashed \cap hits[s] : fileCache[Key(f)] # Miss
      BY <2>1 DEF WarmAgrees
    <3>3. QED
      BY <1>2, <1>3, <3>1, <3>2
  <2>4. hits[s] \subseteq Hashed
    BY <1>1 DEF CachedIInv, ScansAgree, ScanAgrees, Partitioned
  <2>5. QED
    BY <1>1, <2>1, <2>2, <2>3, <2>4, SameTree DEF WarmAgrees, loadVars, scanVars
<1>7. untroubled' \subseteq {s}
  BY <1>1, UndisturbedIsAlone
<1>8. QED
  BY <1>1, <1>4, <1>5, <1>6, <1>7 DEF WarmIInv

\* A scan that trusted its pass and stores nothing is a disturbed one.
LEMMA NotStoringKeepsWarm ==
  ASSUME CachedIInv, WarmIInv, NEW s \in Scans, StoreNoFiles(s)
  PROVE  WarmIInv'
<1>1. /\ phase[s] = "storing" /\ phase' = [phase EXCEPT ![s] = "finishing"]
      /\ tree' = tree /\ settled' = settled
      /\ UNCHANGED <<loadVars, diskVars>>
      /\ Trouble(s, Trusted(full[s]))
  BY DEF StoreNoFiles, projectVars
<1>2. untroubled' \subseteq untroubled /\ (s \in untroubled' => ~Trusted(full[s]))
  BY <1>1 DEF Trouble
<1>3. s \in untroubled => Trusted(full[s])
  BY <1>1 DEF WarmIInv, WarmAgrees, Trusted
<1>4. QED
  BY <1>1, <1>2, <1>3, MovingKeepsWarm DEF Phases

\* A scan is gone; the disk is as it was, or a finishing scan has stored in it.
LEMMA EndingKeepsWarm ==
  ASSUME CachedIInv, WarmIInv, NEW s \in Scans, phase[s] # "idle", End(s), WarmIsReady',
         settled' => settled \/ Running = {s}
  PROVE  WarmIInv'
<1>0. phase \in [Scans -> Phases] /\ loadedSidecar \in [Scans -> [Keys -> SidecarEntriesOnDisk]]
  BY DEF CachedIInv, TypeOK
<1>1. /\ phase' = [phase EXCEPT ![s] = "idle"] /\ tree' = tree
      /\ loadedSidecar' = [loadedSidecar EXCEPT ![s] = NoEntries]
      /\ untroubled' = untroubled \ {s}
  BY DEF End, projectVars
<1>2. untroubled' = {}
  BY <1>1, UndisturbedIsAlone
<1>3. ASSUME settled', NEW u \in Scans PROVE LoadedIsFresh(u)'
  <2>1. CASE u = s
    BY <2>1, <1>0, <1>1 DEF LoadedIsFresh
  <2>2. CASE u # s /\ Running = {s}
    BY <2>2, <1>0, <1>1 DEF LoadedIsFresh, Running
  <2>3. CASE u # s /\ settled
    <3>1. phase'[u] = phase[u] /\ loadedSidecar'[u] = loadedSidecar[u] /\ LoadedIsFresh(u)
      BY <2>3, <1>0, <1>1 DEF WarmIInv
    <3>2. QED
      BY <3>1, <1>1, SameTree DEF LoadedIsFresh
  <2>4. QED
    BY <1>3, <2>1, <2>2, <2>3
<1>4. QED
  BY <1>2, <1>3 DEF WarmIInv

\* An entry stored of a file that was linted completely is replayed in this tree.
LEMMA StoredIsReplayable ==
  ASSUME CachedIInv, NEW s \in Scans, phase[s] = "finishing", mode[s] = "sidecar",
         NEW passes \in SUBSET StorablePasses(s),
         NEW f \in Hashed, tree[f] \notin Unparseable
  PROVE  LET entry == SidecarEntries(s, passes).ours[Key(f)] IN
           IF f \in SidecarEntries(s, passes).stored THEN Replayable(entry)
           ELSE entry = loadedSidecar[s][Key(f)]
<1> DEFINE traced == {g \in Hashed : tree[g] \notin Unparseable}
           bySidecar == IF "bounded" \in passes THEN traced \cap relint[s] ELSE {}
           byFull == IF "full" \in passes THEN traced \cap Misses(s) ELSE {}
           entry == SidecarEntries(s, passes).ours[Key(f)]
<1>0. TypeOK /\ tree \in Trees /\ Partitioned(s) /\ Verified(s) /\ BoundedDone(s)
  BY FinishingScan DEF CachedIInv, TypeOK
<1>1. Key(f) \in Keys /\ Key(f)[1] = f /\ Key(f)[2] = tree[f] /\ f \in Files
  BY <1>0, KeyIsKey DEF Key
<1>2. \A A : (\E g \in A : Key(f) = Key(g)) <=> f \in A
  BY DEF Key
<1>3. SidecarEntries(s, passes).stored = bySidecar \cup byFull
  BY DEF SidecarEntries
<1>4. entry = IF f \in bySidecar
              THEN [probes |-> Answered(Probes(f, tree), tree),
                    diagnostics |-> Attributed(bounded[s], "bounded", f)]
              ELSE IF f \in byFull
              THEN [probes |-> Answered(Probes(f, tree), tree),
                    diagnostics |-> Attributed(full[s], "bounded", f)]
              ELSE loadedSidecar[s][Key(f)]
  BY <1>1, <1>2 DEF SidecarEntries
<1>5. ASSUME NEW families \in SUBSET Families, "bounded" \in families, NEW files \in SUBSET Files,
             NEW r \in PassResults(families, files), ~r.partial, f \in files,
             entry = [probes |-> Answered(Probes(f, tree), tree),
                      diagnostics |-> Attributed(r, "bounded", f)]
      PROVE  Replayable(entry)
  <2>1. r.diagnostics = Lint(families, files, tree)
    BY <1>5, CompletePass
  <2>2. Attributed(r, "bounded", f) = {Finding("bounded", f, tree)}
    BY <1>5, <2>1, LintAttributed
  <2>3. Lint({"bounded"}, {f}, tree) = {Finding("bounded", f, tree)}
    BY DEF Lint
  <2>4. entry # Miss
    BY <1>0, <1>1, <1>5, <2>2, <2>3, MissAssumption
  <2>5. \A p \in Answered(Probes(f, tree), tree) : Answer(p[1], tree) = p[2]
    BY DEF Answered
  <2>6. entry.probes = Answered(Probes(f, tree), tree)
    BY <1>5
  <2> HIDE DEF entry
  <2>7. QED
    BY <2>4, <2>5, <2>6 DEF Replayable
<1>6. CASE f \in bySidecar
  <2>1. bounded[s] \in PassResults({"bounded"}, relint[s]) /\ ~bounded[s].partial /\ f \in relint[s]
    BY <1>0, <1>6 DEF BoundedDone, SidecarFamilies, StorablePasses, Trusted
  <2>2. {"bounded"} \in SUBSET Families /\ relint[s] \in SUBSET Files
    BY <1>0 DEF Families, TypeOK
  <2>3. entry = [probes |-> Answered(Probes(f, tree), tree),
                 diagnostics |-> Attributed(bounded[s], "bounded", f)]
    BY <1>4, <1>6
  <2> HIDE DEF entry, bySidecar, byFull
  <2>4. Replayable(entry)
    BY <1>5, <2>1, <2>2, <2>3
  <2>5. QED
    BY <1>3, <1>6, <2>4 DEF entry
<1>7. CASE f \notin bySidecar /\ f \in byFull
  <2>1. full[s] \in PassResults(Families, Misses(s)) /\ ~full[s].partial /\ f \in Misses(s)
    BY <1>0, <1>7 DEF Verified, StorablePasses, Trusted
  <2>2. Families \in SUBSET Families /\ "bounded" \in Families /\ Misses(s) \in SUBSET Files
    BY DEF Families, Misses, Candidates
  <2>3. entry = [probes |-> Answered(Probes(f, tree), tree),
                 diagnostics |-> Attributed(full[s], "bounded", f)]
    BY <1>4, <1>7
  <2> HIDE DEF entry, bySidecar, byFull
  <2>4. Replayable(entry)
    BY <1>5, <2>1, <2>2, <2>3
  <2>5. QED
    BY <1>3, <1>7, <2>4 DEF entry
<1>8. CASE f \notin bySidecar /\ f \notin byFull
  BY <1>3, <1>4, <1>8
<1>9. QED
  BY <1>6, <1>7, <1>8

\* A finishing scan makes the caches ready if nothing disturbed it, and leaves them
\* ready if they were.
LEMMA FinishingKeepsWarm ==
  ASSUME CachedIInv, WarmIInv, NEW s \in Scans, Finish(s)
  PROVE  WarmIInv'
<1>1. phase[s] = "finishing" /\ End(s) /\ fileCache' = fileCache /\ tree' = tree
  BY DEF Finish, End, projectVars
<1>2. PICK passes \in SUBSET StorablePasses(s) :
        /\ sidecarCache' = IF mode[s] = "sidecar" /\ SidecarEntries(s, passes).stored # {}
                           THEN Merge(sidecarCache, SidecarEntries(s, passes).ours)
                           ELSE sidecarCache
        /\ settled' = (settled \/ (s \in untroubled /\ passes = {"bounded", "full"}))
  BY DEF Finish
<1> DEFINE new == SidecarEntries(s, passes)
<1>3. tree \in Trees /\ settled \in BOOLEAN
  BY DEF CachedIInv, TypeOK
<1>4. ASSUME NEW f \in Hashed, tree[f] \notin Unparseable, mode[s] = "sidecar", new.stored # {}
      PROVE  /\ f \in new.stored => Replayable(sidecarCache'[Key(f)])
             /\ f \notin new.stored =>
                  sidecarCache'[Key(f)] = IF loadedSidecar[s][Key(f)] = Miss THEN sidecarCache[Key(f)]
                                          ELSE loadedSidecar[s][Key(f)]
  <2>1. Key(f) \in Keys
    BY <1>3, KeyIsKey
  <2>2. IF f \in new.stored THEN Replayable(new.ours[Key(f)])
        ELSE new.ours[Key(f)] = loadedSidecar[s][Key(f)]
    BY <1>1, <1>4, StoredIsReplayable
  <2> HIDE DEF new
  <2>3. sidecarCache'[Key(f)] = IF new.ours[Key(f)] = Miss THEN sidecarCache[Key(f)] ELSE new.ours[Key(f)]
    BY <1>2, <1>4, <2>1 DEF Merge, new
  <2>4. QED
    BY <2>2, <2>3 DEF Replayable
<1>5. ASSUME settled' PROVE WarmIsReady'
  <2>1. CASE settled
    <3>1. ASSUME NEW f \in Hashed, tree[f] \notin Unparseable PROVE Replayable(sidecarCache'[Key(f)])
      <4>1. Replayable(sidecarCache[Key(f)])
        BY <2>1, <3>1 DEF WarmIInv, WarmIsReady
      <4>2. loadedSidecar[s][Key(f)] = Miss \/ Replayable(loadedSidecar[s][Key(f)])
        BY <1>1, <2>1, <3>1 DEF WarmIInv, LoadedIsFresh
      <4>3. QED
        BY <1>2, <1>4, <3>1, <4>1, <4>2
    <3>2. \A f \in Hashed : fileCache[Key(f)] # Miss
      BY <2>1 DEF WarmIInv, WarmIsReady
    <3>3. QED
      BY <1>1, <3>1, <3>2, SameTree DEF WarmIsReady
  <2>2. CASE s \in untroubled /\ passes = {"bounded", "full"}
    <3>1. WarmAgrees(s)
      BY <2>2 DEF WarmIInv
    <3>2. /\ mode[s] = "sidecar" /\ loadedSidecar[s] = sidecarCache
          /\ \A f \in hits[s] \ relint[s] : Replayable(sidecarCache[Key(f)])
          /\ \A f \in Hashed : fileCache[Key(f)] # Miss
      BY <1>1, <3>1 DEF WarmAgrees
    <3>3. ASSUME NEW f \in Hashed, tree[f] \notin Unparseable PROVE Replayable(sidecarCache'[Key(f)])
      <4>1. f \in new.stored \/ f \in hits[s] \ relint[s]
        BY <2>2, <3>3 DEF SidecarEntries, Misses, Hashed
      <4>2. CASE f \in new.stored
        BY <1>4, <3>2, <3>3, <4>2
      <4>3. CASE f \notin new.stored
        <5>1. Replayable(sidecarCache[Key(f)])
          BY <3>2, <4>1, <4>3
        <5> HIDE DEF new
        <5>2. sidecarCache'[Key(f)] = sidecarCache[Key(f)]
          BY <1>2, <1>4, <3>2, <3>3, <4>3 DEF new
        <5>3. QED
          BY <5>1, <5>2
      <4>4. QED
        BY <4>2, <4>3
    <3>4. QED
      BY <1>1, <3>2, <3>3, SameTree DEF WarmIsReady
  <2>3. QED
    BY <1>2, <1>5, <2>1, <2>2
<1>6. settled' => settled \/ Running = {s}
  BY <1>2 DEF WarmIInv, WarmAgrees
<1>7. WarmIsReady'
  BY <1>5 DEF WarmIsReady
<1>8. QED
  BY <1>1, <1>6, <1>7, EndingKeepsWarm

\* Every step keeps what makes the caches ready.
LEMMA WarmStepHolds == CachedIInv /\ WarmIInv /\ [Next]_vars => WarmIInv'
<1> SUFFICES ASSUME CachedIInv, WarmIInv, [Next]_vars PROVE WarmIInv'
  OBVIOUS
<1>1. ASSUME NEW s \in Scans, Finish(s) PROVE WarmIInv'
  BY <1>1, FinishingKeepsWarm
<1>2. ASSUME NEW s \in Scans, ColdPass(s) \/ Fail(s) PROVE WarmIInv'
  <2>1. phase[s] # "idle" /\ End(s) /\ tree' = tree /\ UNCHANGED <<diskVars, settled>>
    BY <1>2 DEF ColdPass, Fail, End, projectVars
  <2>2. WarmIsReady'
    BY <2>1, SameTree DEF WarmIInv, WarmIsReady, diskVars
  <2>3. QED
    BY <2>1, <2>2, EndingKeepsWarm
<1>3. ASSUME NEW s \in Scans,
             \/ \E m \in Modes : Begin(s, m)
             \/ OpenSidecar(s) \/ FullPass(s) \/ BoundedPass(s) \/ UnboundedPass(s)
             \/ StoreFiles(s) \/ StoreNoFiles(s)
      PROVE  WarmIInv'
  BY <1>3, OpeningKeepsWarm, PassKeepsWarm, StoringKeepsWarm, NotStoringKeepsWarm
<1>4. CASE Edit
  <2>1. Running = {} /\ ~settled' /\ untroubled' = untroubled
    BY <1>4 DEF Edit
  <2>2. untroubled = {}
    BY <2>1 DEF WarmIInv, WarmAgrees
  <2>3. QED
    BY <2>1, <2>2 DEF WarmIInv, WarmIsReady
<1>5. CASE \E k \in Keys : Forget(k)
  BY <1>5 DEF Forget, WarmIInv, WarmIsReady
<1>6. CASE UNCHANGED vars
  <2>1. /\ tree' = tree /\ Running' = Running /\ untroubled' = untroubled /\ settled' = settled
        /\ UNCHANGED <<phase, loadVars, scanVars, diskVars>>
    BY <1>6 DEF vars, worldVars, projectVars, Running
  <2>2. QED
    BY <2>1, SameTree DEF WarmIInv, WarmAgrees, LoadedIsFresh, WarmIsReady, loadVars, scanVars, diskVars
<1>7. QED
  BY <1>1, <1>2, <1>3, <1>4, <1>5, <1>6 DEF Next

\* The caches are of use: after a scan that was alone and lost nothing, every scan of
\* the same tree finds all that can be replayed, whatever scans fail, lose files or
\* overlap in between.
THEOREM CachesGetReady == Spec => []WarmIsReady
<1>1. Init => WarmIInv
  BY DEF Init, WarmIInv, WarmIsReady
<1>2. WarmIInv => WarmIsReady
  BY DEF WarmIInv
<1>3. QED
  BY <1>1, <1>2, WarmStepHolds, CachedInvariant, PTL DEF Spec

=============================================================================
