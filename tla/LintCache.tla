----------------------------- MODULE LintCache -----------------------------
(***************************************************************************)
(* The files behind packages/core/src/runners/oxlint/file-lint-cache.ts    *)
(* and sidecar-lint-cache.ts, which persist in the same way: one bucket    *)
(* per ruleset hash, in it one entry per file key, written through         *)
(* utils/atomic-write-file.ts.  A run loads its bucket, stores what it     *)
(* linted, re-reads the file, merges and renames its own copy over it.     *)
(*                                                                         *)
(* The runs are processes: nothing but the rename is atomic between them,  *)
(* and each may die between two of its steps; a read of the file may fail, *)
(* and is then taken for an empty cache.  An entry is abstracted to the    *)
(* run that computed it.  The order of the keys of an object is kept as in *)
(* WorkerSlots: ahead[k] holds the keys in front of k.                     *)
(***************************************************************************)
EXTENDS Integers, FiniteSets, Sequences

CONSTANTS
  Runs,             \* the scans that use the cache
  Hashes,           \* the ruleset hashes
  HashOf,           \* the hash of each run
  Keys,             \* the file keys, path and content hash
  MaxFileCount,     \* FILE_LINT_CACHE_MAX_FILE_COUNT
  MaxRulesetCount,  \* FILE_LINT_CACHE_MAX_RULESET_COUNT
  Miss,             \* no entry
  Bad,              \* an entry that does not decode
  NoBucket,         \* no bucket under this hash
  BadBucket,        \* a bucket that is no record
  MaxTime,          \* bound: how often the clock ticks
  MaxDamages,       \* bound: how often somebody damages the file
  MaxMisreads       \* bound: how often a read of the file fails

ASSUME LintCacheAssumption ==
  /\ IsFiniteSet(Keys) /\ IsFiniteSet(Hashes)
  /\ HashOf \in [Runs -> Hashes]
  /\ MaxFileCount \in Nat \ {0} /\ MaxRulesetCount \in Nat \ {0}
  /\ MaxTime \in Nat /\ MaxDamages \in Nat /\ MaxMisreads \in Nat
  /\ Miss # Bad /\ Miss \notin Runs /\ Bad \notin Runs

\* An object from keys to entries, in insertion order.
Ordered == [entry : [Keys -> Runs \cup {Miss, Bad}], ahead : [Keys -> SUBSET Keys]]
Buckets == [updatedAtMs : 0..MaxTime, files : Ordered]

ASSUME NoBucketAssumption ==
  NoBucket \notin Buckets /\ BadBucket \notin Buckets /\ NoBucket # BadBucket

VARIABLES
  phase,    \* how far each run is
  entries,  \* the map `entries` of each run
  linted,   \* the keys each run has stored
  merged,   \* the content each run is about to write
  rulesets, \* the rulesets of the cache file
  now,      \* Date.now()
  damages,  \* how often the file was damaged
  misreads, \* how often a read of it failed
  stale,    \* history: the runs that read the file before its last write
  misread   \* history: the runs that are about to write after a read that failed

vars == <<phase, entries, linted, merged, rulesets, now, damages, misreads, stale, misread>>

Phases == {"idle", "linting", "persisting", "ended"}

Present(files) == {k \in Keys : files.entry[k] # Miss}

Empty == [entry |-> [k \in Keys |-> Miss], ahead |-> [k \in Keys |-> {}]]

NoRulesets == [h \in Hashes |-> NoBucket]

\* A bucket that can be read.
Sound(bucket) == bucket \notin {NoBucket, BadBucket}

Init ==
  /\ phase = [r \in Runs |-> "idle"]
  /\ entries = [r \in Runs |-> Empty]
  /\ linted = [r \in Runs |-> {}]
  /\ merged = [r \in Runs |-> NoRulesets]
  /\ rulesets = NoRulesets
  /\ now = 0 /\ damages = 0 /\ misreads = 0
  /\ stale = {} /\ misread = {}

\* The keys of `files` in S, in their order.
Restricted(files, S) ==
  [entry |-> [k \in Keys |-> IF k \in S THEN files.entry[k] ELSE Miss],
   ahead |-> [k \in Keys |-> IF k \in S THEN files.ahead[k] \cap S ELSE {}]]

FilesOf(bucket) == IF Sound(bucket) THEN bucket.files ELSE Empty

\* failOpenReadJson: the content of the file, or of an empty cache when the file
\* cannot be read, for whatever reason.
Reads == {rulesets} \cup (IF misreads < MaxMisreads THEN {NoRulesets} ELSE {})

CountMisread(read) == misreads' = IF read = rulesets THEN misreads ELSE misreads + 1

\* A slip: what does not decode is taken as it is.
MutantLoadRulesetEntries(r, read) == FilesOf(read[HashOf[r]])

\* loadRulesetEntries: an entry that does not decode is a miss.
LoadRulesetEntries(r, read) ==
  LET files == FilesOf(read[HashOf[r]])
  IN Restricted(files, {k \in Keys : files.entry[k] \in Runs})

\* The lists of distinct keys a run may store, one after the other.
Batches ==
  {s \in UNION {[1..n -> Keys] : n \in 0..Cardinality(Keys)} :
     \A i, j \in DOMAIN s : s[i] = s[j] => i = j}

Members(s) == {s[i] : i \in DOMAIN s}

\* store, for one key after the other: each is moved to the end.
Stored(r, s) ==
  LET rest == Present(entries[r]) \ Members(s) IN
    [entry |-> [k \in Keys |-> IF k \in Members(s) THEN r ELSE entries[r].entry[k]],
     ahead |-> [k \in Keys |->
       IF k \in Members(s)
       THEN rest \cup {j \in Members(s) : \E a, b \in DOMAIN s : a < b /\ s[a] = j /\ s[b] = k}
       ELSE entries[r].ahead[k] \cap rest]]

\* Slips: the entries of the disk win; nothing is merged.
MutantMerge(existing, ours) ==
  [entry |-> [k \in Keys |-> IF existing.entry[k] = Miss THEN ours.entry[k] ELSE existing.entry[k]],
   ahead |-> [k \in Keys |->
     IF k \in Present(existing) THEN existing.ahead[k]
     ELSE IF k \in Present(ours) THEN Present(existing) \cup ours.ahead[k] ELSE {}]]
MutantReplace(existing, ours) == ours

\* { ...existing, ...ours }: ours win, and a key that exists keeps its place.
Merge(existing, ours) ==
  [entry |-> [k \in Keys |-> IF ours.entry[k] = Miss THEN existing.entry[k] ELSE ours.entry[k]],
   ahead |-> [k \in Keys |->
     IF k \in Present(existing) THEN existing.ahead[k]
     ELSE IF k \in Present(ours) THEN Present(existing) \cup ours.ahead[k] ELSE {}]]

AtMost(n, count) == IF count < n THEN count ELSE n

\* A slip: the cap is taken for the one run and not for the bucket.
MutantTails(files) == {Present(files)}

\* slice(-MaxFileCount): as many keys as the cap allows, from the end.
Tails(files) ==
  {S \in SUBSET Present(files) :
     /\ Cardinality(S) = AtMost(MaxFileCount, Cardinality(Present(files)))
     /\ \A k \in S : \A j \in Present(files) \ S : k \notin files.ahead[j]}

\* The newest MaxRulesetCount buckets.  (Which of two of the same millisecond
\* goes depends on their order in the file, which is left open here.)
Newest(buckets) ==
  LET kept == {h \in Hashes : Sound(buckets[h])} IN
    {S \in SUBSET kept :
       /\ Cardinality(S) = AtMost(MaxRulesetCount, Cardinality(kept))
       /\ \A h \in S : \A g \in kept \ S : buckets[h].updatedAtMs >= buckets[g].updatedAtMs}

----------------------------------------------------------------------------
(* A run *)

\* createFileLintCache
Create(r) ==
  /\ phase[r] = "idle"
  /\ phase' = [phase EXCEPT ![r] = "linting"]
  /\ \E read \in Reads :
       /\ entries' = [entries EXCEPT ![r] = LoadRulesetEntries(r, read)]
       /\ CountMisread(read)
  /\ UNCHANGED <<linted, merged, rulesets, now, damages, stale, misread>>

\* The scan stores what it linted and persists: the file is read again, merged
\* with, capped and pruned.  When that read fails, it merges with nothing.
Persist(r, s) ==
  /\ phase[r] = "linting"
  /\ phase' = [phase EXCEPT ![r] = "persisting"]
  /\ linted' = [linted EXCEPT ![r] = Members(s)]
  /\ entries' = [entries EXCEPT ![r] = Stored(r, s)]
  /\ \E read \in Reads :
       /\ CountMisread(read)
       /\ misread' = IF read = rulesets THEN misread ELSE misread \cup {r}
       /\ LET all == Merge(FilesOf(read[HashOf[r]]), Stored(r, s)) IN
            \E tail \in Tails(all) :
              LET buckets == [read EXCEPT ![HashOf[r]] =
                                [updatedAtMs |-> now, files |-> Restricted(all, tail)]]
              IN \E newest \in Newest(buckets) :
                   merged' = [merged EXCEPT ![r] =
                     [h \in Hashes |-> IF h \in newest THEN buckets[h] ELSE NoBucket]]
  /\ stale' = stale \ {r}
  /\ UNCHANGED <<rulesets, now, damages>>

\* The run is over, and what it had in memory is gone.
End(r) ==
  /\ phase' = [phase EXCEPT ![r] = "ended"]
  /\ entries' = [entries EXCEPT ![r] = Empty]
  /\ merged' = [merged EXCEPT ![r] = NoRulesets]
  /\ misread' = misread \ {r}

\* atomicWriteFile: the temporary file is renamed over the cache file.
Rename(r) ==
  /\ phase[r] = "persisting"
  /\ rulesets' = merged[r]
  /\ stale' = Runs
  /\ End(r)
  /\ UNCHANGED <<linted, now, damages, misreads>>

\* The scan does not persist, the temporary file cannot be written or renamed,
\* or the process dies: the cache file is left alone.
GiveUp(r) ==
  /\ phase[r] \in {"linting", "persisting"}
  /\ End(r)
  /\ UNCHANGED <<linted, rulesets, now, damages, misreads, stale>>

----------------------------------------------------------------------------
(* The world *)

Tick ==
  /\ now < MaxTime
  /\ now' = now + 1
  /\ UNCHANGED <<phase, entries, linted, merged, rulesets, damages, misreads, stale, misread>>

\* The file is edited by hand, truncated, removed, or written by a release with
\* another schema version, and what is left of it is not JSON or not of this
\* version, or has a bucket or an entry of another shape.
Damage ==
  /\ damages < MaxDamages
  /\ damages' = damages + 1
  /\ \/ rulesets' = NoRulesets
     \/ \E h \in Hashes :
          \/ rulesets' = [rulesets EXCEPT ![h] = BadBucket]
          \/ /\ Sound(rulesets[h])
             /\ \E k \in Present(rulesets[h].files) :
                  rulesets' = [rulesets EXCEPT ![h].files.entry[k] = Bad]
  /\ stale' = Runs
  /\ UNCHANGED <<phase, entries, linted, merged, now, misreads, misread>>

Next ==
  \/ \E r \in Runs :
       Create(r) \/ (\E s \in Batches : Persist(r, s)) \/ Rename(r) \/ GiveUp(r)
  \/ Tick \/ Damage

Spec == Init /\ [][Next]_vars

----------------------------------------------------------------------------
(* Properties *)

\* An object has each of its keys once, and in one order.
Linear(files) ==
  /\ \A k \in Keys : files.ahead[k] \subseteq Present(files) \ {k}
  /\ \A k \in Keys \ Present(files) : files.ahead[k] = {}
  /\ \A j, k \in Present(files) : j = k \/ j \in files.ahead[k] \/ k \in files.ahead[j]
  /\ \A k \in Keys : \A j \in files.ahead[k] : files.ahead[j] \subseteq files.ahead[k]

\* The types; and what is a JavaScript object in the code has its keys once each,
\* in one order, in memory and on disk.
TypeOK ==
  /\ phase \in [Runs -> Phases]
  /\ entries \in [Runs -> Ordered]
  /\ \A r \in Runs : Linear(entries[r])
  /\ linted \in [Runs -> SUBSET Keys]
  /\ merged \in [Runs -> [Hashes -> Buckets \cup {NoBucket, BadBucket}]]
  /\ rulesets \in [Hashes -> Buckets \cup {NoBucket, BadBucket}]
  /\ \A h \in Hashes : Linear(FilesOf(rulesets[h]))
  /\ now \in 0..MaxTime /\ damages \in 0..MaxDamages /\ misreads \in 0..MaxMisreads
  /\ stale \in SUBSET Runs /\ misread \in SUBSET Runs

\* An entry that was computed by a run of this hash, for this very key.
Genuine(h, k, entry) == entry \in Runs => HashOf[entry] = h /\ k \in linted[entry]

\* What a run is answered from the cache is what some run of its own ruleset
\* computed for the very key, whatever else happened to the file meanwhile:
\* other rulesets, overlapping writes, damage.  What is damaged is a miss.
AnswersGenuine ==
  /\ \A r \in Runs, k \in Keys :
       entries[r].entry[k] # Bad /\ Genuine(HashOf[r], k, entries[r].entry[k])
  /\ \A h \in Hashes : Sound(rulesets[h]) =>
       \A k \in Keys : Genuine(h, k, rulesets[h].files.entry[k])

\* The file does not grow beyond its caps, through merges of any runs.
CapsHold ==
  /\ Cardinality({h \in Hashes : Sound(rulesets[h])}) <= MaxRulesetCount
  /\ \A h \in Hashes : Sound(rulesets[h]) =>
       Cardinality(Present(rulesets[h].files)) <= MaxFileCount

OnDisk(h, k) == IF Sound(rulesets[h]) THEN rulesets[h].files.entry[k] ELSE Miss

\* What the run r cannot keep when its second read failed: all but the keys of
\* its own bucket that it has in memory.
OutOfSight(r, h, k) == ~(HashOf[r] = h /\ entries[r].entry[k] # Miss)

\* Work that has been persisted is kept: an entry disappears only to a run that
\* has found its bucket full, or as many newer buckets as there may be, or that
\* overlapped with another write, or whose second read of the file failed.  Such
\* a run costs the others theirs, but not what it has loaded or linted itself.  A
\* write that fails and a crash cost nothing.
WorkSurvives ==
  [][damages' = damages =>
       \A h \in Hashes, k \in Keys :
         OnDisk(h, k) \in Runs /\ OnDisk(h, k)' = Miss =>
           \E r \in Runs :
             /\ phase[r] = "persisting" /\ phase'[r] = "ended"
             /\ \/ r \in stale
                \/ r \in misread /\ OutOfSight(r, h, k)
                \/ /\ HashOf[r] = h
                   /\ Sound(rulesets'[h])
                   /\ Cardinality(Present(rulesets'[h].files)) = MaxFileCount
                \/ /\ ~Sound(rulesets'[h])
                   /\ Cardinality({g \in Hashes : Sound(rulesets'[g])}) = MaxRulesetCount
                   /\ \A g \in Hashes : Sound(rulesets'[g]) =>
                        rulesets'[g].updatedAtMs >= rulesets[h].updatedAtMs]_vars

\* A run that writes the file writes its own verdicts: for the keys it linted
\* no older verdict, of the disk or of its own first load, comes out on top.
FreshVerdictsWin ==
  [][\A r \in Runs : phase[r] = "persisting" /\ phase'[r] = "ended" /\ rulesets' # rulesets =>
       \A k \in linted[r] : OnDisk(HashOf[r], k)' \in {r, Miss}]_vars

\* constants.ts: "the most-recently-stored entries are kept when over the cap".
NewestAreKept ==
  [][\A r \in Runs :
       phase[r] = "persisting" /\ phase'[r] = "ended" /\ rulesets' = merged[r]
         /\ Sound(rulesets'[HashOf[r]])
       => \/ \A k \in linted[r] : OnDisk(HashOf[r], k)' # Miss
          \/ \A k \in Keys : OnDisk(HashOf[r], k)' # Miss => k \in linted[r]]_vars

=============================================================================
