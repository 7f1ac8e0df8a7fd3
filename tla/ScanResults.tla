---------------------------- MODULE ScanResults ----------------------------
(***************************************************************************)
(* A scan from its cache key to its report, as inspect.ts and              *)
(* run-inspect.ts carry it out, over the cache of whole-scan results of    *)
(* cli/utils/scan-result-cache.ts.  The key and the lookup come first.  On *)
(* a miss the supply-chain check and the security scan run beside the      *)
(* lint and the maintainability analysis; a baseline scan then checks the  *)
(* base revision; the result is stored if it is complete, and reported.    *)
(*                                                                         *)
(* Each check is one step that reads the tree as it is then.  A result is  *)
(* the tree every check read, and the commit the base was taken from,      *)
(* instead of the diagnostics found there.  The key has what git tells of  *)
(* the tree, and the base as the scan was given it.                        *)
(***************************************************************************)
EXTENDS Naturals, FiniteSets

CONSTANTS
  Scans,        \* of one project, each by a run of the CLI of its own
  Requests,     \* the bases and time budgets each scan may be asked for
  Trees,        \* the states the worktree can be in, with what git ignores
  Identity,     \* HEAD and the divergences from it, as git tells them, in each
  Manifest,     \* the content of package.json in each
  Commits,      \* a base is one of them (a merge base),
  Symbolic,     \* a name of one of them (the left end of a two-dot range),
  NoBase,       \* or none: the whole project is scanned
  Unread,       \* the repository has not been looked at
  Off,          \* no trustworthy identity: the cache is off
  Pending, NotAsked, Missing,  \* what a check has, instead of the tree it read
  MaxEntries,   \* SCAN_RESULT_CACHE_MAX_ENTRY_COUNT
  MaxEdits,     \* bound: how often the worktree changes or the name moves
  MaxTroubles   \* bound: how often a check is incomplete, or git of no use

ASSUME ScanResultsAssumption ==
  /\ Requests \in [Scans -> SUBSET [base : Commits \cup {Symbolic, NoBase}, budget : BOOLEAN]]
  /\ Commits \cap {Symbolic, NoBase} = {} /\ Symbolic # NoBase
  /\ Trees \cap {Pending, NotAsked, Missing} = {}
  /\ \A t \in Trees : Identity[t] \notin {Unread, Off}
  /\ \A t \in Trees, b \in Commits \cup {Symbolic, NoBase} : <<Identity[t], b>> # Off
  /\ Unread # Off
  /\ Pending \notin {NotAsked, Missing} /\ NotAsked # Missing
  /\ MaxEntries \in Nat /\ MaxEdits \in Nat /\ MaxTroubles \in Nat

VARIABLES
  tree,     \* the worktree
  named,    \* the commit that Symbolic names
  memo,     \* repositoryIdentityByRoot, of each run
  phase,    \* of each scan
  request,  \* the base and the time budget it was asked for
  key,      \* cacheKey
  loaded,   \* the entries it has loaded
  seen,     \* per check: the tree it has read, if it is done and complete
  compared, \* the commit the base was checked at
  flags,    \* the markers of incomplete work that reach the result
  spent,    \* the scans whose time budget is spent
  report,   \* the result each scan reports
  disk,     \* the entries of the project's cache file
  stores,   \* a clock: how many results have been stored
  moved,    \* history: the scans since whose run's look git tells another worktree
  edits, troubles

scanVars == <<phase, request, key, loaded, seen, compared, flags, spent, report>>
cacheVars == <<memo, disk, stores>>
treeVars == <<tree, named, moved, edits>>
vars == <<scanVars, cacheVars, treeVars, troubles>>

HeadChecks == {"lint", "maintainability", "security", "supplyChain"}
Checks == HeadChecks \cup {"base"}
Bases == Commits \cup {Symbolic, NoBase}
Known == {Identity[t] : t \in Trees}
Flags == {"lintFailed", "bindingMissing", "filesDropped", "rulesDropped", "maintainabilityFailed",
          "supplyChainTimedOut", "securityFailed"}
Keys == Known \X Bases

\* A scan of a change skips the security scan; it checks the supply chain here, as it
\* does when the change edits package.json.
Asked(base) == IF base = NoBase THEN HeadChecks ELSE Checks \ {"security"}

\* git resolves a name when it is asked for files of the commit.
Resolved(base) == IF base = Symbolic THEN named ELSE base

Payloads == [seen : [Checks -> Trees \cup {NotAsked, Missing}], compared : Commits \cup {NotAsked},
             score : BOOLEAN, manifest : {Manifest[t] : t \in Trees}, steady : BOOLEAN]
Entries == [key : Keys, createdAt : Nat, payload : Payloads]
NoReport == [seen |-> [c \in Checks |-> NotAsked], score |-> FALSE]

Init ==
  /\ tree \in Trees /\ named \in Commits
  /\ memo = [s \in Scans |-> Unread]
  /\ phase = [s \in Scans |-> "idle"]
  /\ request = [s \in Scans |-> [base |-> NoBase, budget |-> FALSE]]
  /\ key = [s \in Scans |-> Off]
  /\ loaded = [s \in Scans |-> {}]
  /\ seen = [s \in Scans |-> [c \in Checks |-> NotAsked]]
  /\ compared = [s \in Scans |-> NotAsked]
  /\ flags = [s \in Scans |-> {}]
  /\ spent = {}
  /\ report = [s \in Scans |-> NoReport]
  /\ disk = {}
  /\ stores = 0
  /\ moved = {}
  /\ edits = 0 /\ troubles = 0

----------------------------------------------------------------------------
(* The cache *)

\* buildScanResultCacheKey: git is asked each time whether it can be trusted here, but
\* only once per run what the repository looks like.  What it ignores it does not tell.
Identities(s) ==
  {IF memo[s] = Unread THEN Identity[tree] ELSE memo[s]} \cup (IF troubles < MaxTroubles THEN {Off} ELSE {})
Memos(s, identity) ==
  {m \in {memo, [memo EXCEPT ![s] = identity]} :
     /\ memo[s] # Unread => m = memo
     /\ identity # Off => m[s] # Unread}

\* readPersistedCache fails open, to no entries.
Reads == {disk, {}}

\* A slip: the guard alone decides, whatever the sources are.
MutantReplayable(entries, k) ==
  {e \in entries : k # Off /\ e.key[2] = k[2] /\ e.payload.manifest = Manifest[tree]}

\* lookup: the entries whose replay the guard allows.
Replayable(entries, k) == {e \in entries : e.key = k /\ e.payload.manifest = Manifest[tree]}

\* persist: this process's entries go over those on disk, and the newest are kept.
Newest(entries) ==
  {e \in entries : Cardinality({f \in entries : f.createdAt > e.createdAt}) < MaxEntries}
Persist(onDisk, ours) ==
  Newest(ours \cup {e \in onDisk : \A f \in ours : f.key # e.key})

\* A slip: the maintainability analysis that a failed lint skips is not a failure.
MutantShouldStore(s) ==
  /\ flags[s] \cap (Flags \ {"lintFailed"}) = {}
  /\ seen[s]["base"] # Missing

\* shouldStoreScanPayload, and a baseline comparison that is not degraded.
ShouldStore(s) ==
  /\ flags[s] = {}
  /\ seen[s]["base"] # Missing

----------------------------------------------------------------------------
(* A scan *)

\* A run that scans several projects has scanned another one first.
Sibling(s) ==
  /\ phase[s] = "idle" /\ memo[s] = Unread
  /\ memo' = [memo EXCEPT ![s] = Identity[tree]]
  /\ UNCHANGED <<scanVars, disk, stores, treeVars, troubles>>

\* createScanResultCacheLifecycle and replay: one turn of the event loop.  The base is
\* part of the key as it was given, and a name is not resolved.
Begin(s, asked, identity, read) ==
  LET k == IF identity = Off THEN Off ELSE <<identity, asked.base>>
      entries == IF k = Off THEN {} ELSE read
      hits == Replayable(entries, k)
  IN
  /\ phase[s] = "idle"
  /\ memo' \in Memos(s, identity)
  /\ troubles' = IF identity = Off /\ memo[s] # Off THEN troubles + 1 ELSE troubles
  /\ request' = [request EXCEPT ![s] = asked]
  /\ key' = [key EXCEPT ![s] = k]
  /\ IF hits = {}
     THEN /\ phase' = [phase EXCEPT ![s] = "scanning"]
          /\ loaded' = [loaded EXCEPT ![s] = entries]
          /\ seen' = [seen EXCEPT ![s] = [c \in Checks |->
                                            IF c \in Asked(asked.base) THEN Pending ELSE NotAsked]]
          /\ UNCHANGED report
     ELSE /\ phase' = [phase EXCEPT ![s] = "replayed"]
          /\ \E e \in hits : report' = [report EXCEPT ![s] = e.payload]
          /\ UNCHANGED <<loaded, seen>>
  /\ UNCHANGED <<compared, flags, spent, disk, stores, treeVars>>

\* A check is done, and complete.
Succeeds(s, c) ==
  /\ seen' = [seen EXCEPT ![s][c] = tree]
  /\ UNCHANGED <<flags, troubles>>

\* A check is done, without all it should have found.
FallsShort(s, c, markers) ==
  /\ troubles < MaxTroubles /\ troubles' = troubles + 1
  /\ seen' = [seen EXCEPT ![s][c] = Missing]
  /\ flags' = [flags EXCEPT ![s] = @ \cup markers]

IsDue(s, c) == phase[s] = "scanning" /\ seen[s][c] = Pending
Unmoved == UNCHANGED <<phase, request, key, loaded, spent, report, cacheVars, treeVars>>
CheckFrame == Unmoved /\ UNCHANGED compared

\* The forked scan fails open, or stops at the deadline with what it has found.
Security(s) ==
  /\ IsDue(s, "security")
  /\ \/ Succeeds(s, "security")
     \/ FallsShort(s, "security", {"securityFailed"})
  /\ CheckFrame

\* A lookup that fails is skipped, and all of them when the check's own time is up:
\* then nothing tells.  The fork's timeout is as long, and tells.
SupplyChain(s) ==
  /\ IsDue(s, "supplyChain")
  /\ \/ Succeeds(s, "supplyChain")
     \/ FallsShort(s, "supplyChain", {})
     \/ FallsShort(s, "supplyChain", {"supplyChainTimedOut"})
  /\ CheckFrame

\* The lint fails, or takes too long; drops files or skips them at the deadline; does
\* without the rules of a plugin that crashes; or has no binary to run.
Lint(s) ==
  /\ IsDue(s, "lint")
  /\ \/ Succeeds(s, "lint")
     \/ \E marker \in {"lintFailed", "bindingMissing", "filesDropped", "rulesDropped"} :
          FallsShort(s, "lint", {marker})
  /\ CheckFrame

MaintainabilityIsDue(s) == IsDue(s, "maintainability") /\ ~IsDue(s, "lint")

Maintainability(s) ==
  /\ MaintainabilityIsDue(s) /\ "lintFailed" \notin flags[s] /\ s \notin spent
  /\ \/ Succeeds(s, "maintainability")
     \/ FallsShort(s, "maintainability", {"maintainabilityFailed"})
  /\ CheckFrame

\* After a failed lint, or without any time left, the analysis is skipped; only the
\* latter is called a failure.
SkipMaintainability(s) ==
  /\ MaintainabilityIsDue(s)
  /\ "lintFailed" \in flags[s] \/ s \in spent
  /\ seen' = [seen EXCEPT ![s]["maintainability"] = Missing]
  /\ flags' = IF "lintFailed" \in flags[s] THEN flags
              ELSE [flags EXCEPT ![s] = @ \cup {"maintainabilityFailed"}]
  /\ UNCHANGED troubles
  /\ CheckFrame

Deadline(s) ==
  /\ phase[s] = "scanning" /\ request[s].budget /\ s \notin spent
  /\ spent' = spent \cup {s}
  /\ UNCHANGED <<phase, request, key, loaded, seen, compared, flags, report, cacheVars, treeVars, troubles>>

HeadDone(s) == phase[s] = "scanning" /\ \A c \in HeadChecks : seen[s][c] # Pending

\* A slip: the delta does without the maintainability analysis.
MutantIsComparable(s) == flags[s] \cap {"lintFailed", "bindingMissing", "filesDropped"} = {}
IsComparable(s) ==
  flags[s] \cap {"lintFailed", "bindingMissing", "filesDropped", "maintainabilityFailed"} = {}

\* runBaselineComparison: there is no delta unless the head can be compared, there is
\* time left, and the base is checked just as completely.
Base(s) ==
  /\ HeadDone(s) /\ IsDue(s, "base")
  /\ \/ /\ IsComparable(s) /\ s \notin spent /\ Succeeds(s, "base")
        /\ compared' = [compared EXCEPT ![s] = Resolved(request[s].base)]
     \/ IsComparable(s) /\ s \notin spent /\ FallsShort(s, "base", {}) /\ UNCHANGED compared
     \/ /\ ~IsComparable(s) \/ s \in spent
        /\ seen' = [seen EXCEPT ![s]["base"] = Missing]
        /\ UNCHANGED <<compared, flags, troubles>>
  /\ Unmoved

\* The score service has an answer for what the lint and the analysis found, or is
\* out of reach.
Scores(s) ==
  IF flags[s] \cap {"lintFailed", "bindingMissing", "maintainabilityFailed"} = {}
  THEN BOOLEAN ELSE {FALSE}

\* complete: the manifest is hashed when the result is stored, the key is older.  What
\* is on disk is read once more; that the file cannot be written goes unnoticed.
Finish(s) ==
  /\ HeadDone(s) /\ seen[s]["base"] # Pending
  /\ \E score \in Scores(s) :
       LET payload == [seen |-> seen[s], compared |-> compared[s], score |-> score,
                       manifest |-> Manifest[tree], steady |-> s \notin moved]
           entry == [key |-> key[s], createdAt |-> stores, payload |-> payload]
           ours == {e \in loaded[s] : e.key # key[s]} \cup {entry}
       IN
       /\ report' = [report EXCEPT ![s] = payload]
       /\ IF key[s] # Off /\ ShouldStore(s)
          THEN /\ disk' \in {Persist(read, ours) : read \in Reads} \cup {disk}
               /\ stores' = stores + 1
          ELSE UNCHANGED <<disk, stores>>
  /\ phase' = [phase EXCEPT ![s] = "reported"]
  /\ loaded' = [loaded EXCEPT ![s] = {}]
  /\ spent' = spent \ {s}
  /\ UNCHANGED <<request, key, seen, compared, flags, memo, treeVars, troubles>>

\* The scan is aborted, or exceeds the scan deadline.
Throw(s) ==
  /\ phase[s] = "scanning" /\ troubles < MaxTroubles
  /\ phase' = [phase EXCEPT ![s] = "thrown"]
  /\ loaded' = [loaded EXCEPT ![s] = {}]
  /\ seen' = [seen EXCEPT ![s] = [c \in Checks |-> NotAsked]]
  /\ flags' = [flags EXCEPT ![s] = {}]
  /\ spent' = spent \ {s}
  /\ compared' = [compared EXCEPT ![s] = NotAsked]
  /\ troubles' = troubles + 1
  /\ UNCHANGED <<request, key, report, cacheVars, treeVars>>

\* The user edits, commits or checks out; or something that git ignores is generated.
Edit(t) ==
  /\ edits < MaxEdits /\ t # tree
  /\ tree' = t
  /\ edits' = edits + 1
  /\ moved' = IF Identity[t] = Identity[tree] THEN moved ELSE {s \in Scans : memo[s] # Unread}
  /\ UNCHANGED <<named, scanVars, cacheVars, troubles>>

\* The base branch is fetched, or committed to: HEAD and the worktree stay.
MoveName(commit) ==
  /\ edits < MaxEdits /\ commit # named
  /\ named' = commit
  /\ edits' = edits + 1
  /\ UNCHANGED <<tree, moved, scanVars, cacheVars, troubles>>

ScanStep(s) ==
  \/ Sibling(s)
  \/ \E asked \in Requests[s], identity \in Identities(s), read \in Reads :
       Begin(s, asked, identity, read)
  \/ Security(s) \/ SupplyChain(s) \/ Lint(s) \/ Maintainability(s) \/ SkipMaintainability(s)
  \/ Deadline(s) \/ Base(s) \/ Finish(s) \/ Throw(s)

Next ==
  \/ \E s \in Scans : ScanStep(s)
  \/ \E t \in Trees : Edit(t)
  \/ \E commit \in Commits : MoveName(commit)

Spec == Init /\ [][Next]_vars

----------------------------------------------------------------------------
(* Properties *)

\* The values the variables may have.
TypeOK ==
  /\ tree \in Trees /\ named \in Commits
  /\ memo \in [Scans -> Known \cup {Unread, Off}]
  /\ phase \in [Scans -> {"idle", "scanning", "replayed", "reported", "thrown"}]
  /\ request \in [Scans -> [base : Bases, budget : BOOLEAN]]
  /\ key \in [Scans -> Keys \cup {Off}]
  /\ loaded \in [Scans -> SUBSET Entries]
  /\ seen \in [Scans -> [Checks -> Trees \cup {Pending, NotAsked, Missing}]]
  /\ compared \in [Scans -> Commits \cup {NotAsked}]
  /\ flags \in [Scans -> SUBSET Flags]
  /\ spent \subseteq Scans
  /\ report \in [Scans -> Payloads \cup {NoReport}]
  /\ disk \subseteq Entries
  /\ stores \in Nat
  /\ moved \subseteq Scans
  /\ edits \in 0..MaxEdits /\ troubles \in 0..MaxTroubles

\* Apart from the supply chain, a result in the cache has all its checks whole, whatever
\* failed, was cut off or skipped because of another while the scan ran: the skipped
\* ones carry no marker of their own (scan-result-cache-payload.ts, line 143).
StoredIsComplete ==
  \A e \in disk :
    \A c \in Asked(e.key[2]) \ {"supplyChain"} : e.payload.seen[c] \in Trees

\* If git tells of no change under a scan, neither when the result was computed nor
\* since this run looked at the repository, then a replayed result is that of the very
\* checks this scan asks for, on what git tells of the tree as it is now, and its delta
\* is one against the very commit this scan was given as its base
\* (scan-result-cache.ts, lines 398-453).  What git ignores may have changed, and so may
\* the commit behind a name: neither is in the key, and then the replay is old.
ReplaysAreCurrent ==
  [][\A s \in Scans :
       /\ phase[s] = "idle" /\ phase'[s] = "replayed"
       /\ s \notin moved /\ report'[s].steady
       => \A c \in Checks :
            IF c \in Asked(request'[s].base)
            THEN \/ report'[s].seen[c] = Missing
                 \/ /\ Identity[report'[s].seen[c]] = Identity[tree]
                    /\ c = "base" /\ request'[s].base # Symbolic =>
                         report'[s].compared = request'[s].base
            ELSE report'[s].seen[c] = NotAsked]_vars

\* A score, computed or replayed, never rests on a failed lint or a partial analysis, and
\* a delta never on a head that was checked less completely than the base: findings of
\* the base it did not look for would count as fixed (run-inspect.ts, line 807;
\* inspect.ts, line 362).
ReportsAreGrounded ==
  \A s \in Scans : phase[s] \in {"replayed", "reported"} =>
    /\ report[s].score =>
         /\ report[s].seen["maintainability"] \in Trees
         /\ flags[s] \cap {"lintFailed", "bindingMissing"} = {}
    /\ report[s].seen["base"] \in Trees =>
         /\ report[s].seen["maintainability"] \in Trees
         /\ report[s].seen["lint"] \in Trees \/ "rulesDropped" \in flags[s]

\* What the comment on the cache key says: a stored result is always complete, since
\* whatever a time budget cuts off is barred from the cache (scan-result-cache.ts,
\* line 447).
StoredIsAlwaysComplete ==
  \A e \in disk :
    \A c \in Asked(e.key[2]) : e.payload.seen[c] \in Trees
=============================================================================
