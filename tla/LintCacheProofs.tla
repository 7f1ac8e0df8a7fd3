-------------------------- MODULE LintCacheProofs --------------------------
(***************************************************************************)
(* Proofs about LintCache: an answer of the cache is always the verdict of *)
(* a run of the same ruleset, the caps hold, and a write loses no work but *)
(* to the caps, to a write that overlaps with it, and to a failed read.    *)
(***************************************************************************)
EXTENDS LintCache, FiniteSetTheorems, TLAPS

----------------------------------------------------------------------------
(* The operators *)

\* What may be in the file under h: entries of the right run, no bucket larger
\* than its cap, none from the future.
GenuineIn(lint, h, k, entry) == entry \in Runs => HashOf[entry] = h /\ k \in lint[entry]

BucketFine(lint, time, h, bucket) ==
  Sound(bucket) =>
    /\ \A k \in Keys : GenuineIn(lint, h, k, bucket.files.entry[k])
    /\ Cardinality(Present(bucket.files)) <= MaxFileCount
    /\ bucket.updatedAtMs <= time

\* The sets of keys and of hashes that the code cuts are finite.
LEMMA PresentFinite ==
  ASSUME NEW files PROVE IsFiniteSet(Present(files)) /\ Cardinality(Present(files)) \in Nat
<1>1. Present(files) \subseteq Keys BY DEF Present
<1>2. IsFiniteSet(Keys) BY LintCacheAssumption
<1> QED BY <1>1, <1>2, FS_Subset, FS_CardinalityType

\* The empty object is a linear order.
LEMMA EmptyLinear == Empty \in Ordered /\ Linear(Empty) /\ Present(Empty) = {}
BY DEF Empty, Ordered, Linear, Present

\* The keys that are kept keep their order (loadRulesetEntries, the slice).
LEMMA RestrictedLinear ==
  ASSUME NEW files \in Ordered, Linear(files), NEW S \in SUBSET Present(files)
  PROVE  /\ Restricted(files, S) \in Ordered
         /\ Linear(Restricted(files, S))
         /\ Present(Restricted(files, S)) = S
<1> DEFINE cut == Restricted(files, S)
<1>1. cut.entry = [k \in Keys |-> IF k \in S THEN files.entry[k] ELSE Miss]
  BY DEF Restricted
<1>2. cut.ahead = [k \in Keys |-> IF k \in S THEN files.ahead[k] \cap S ELSE {}]
  BY DEF Restricted
<1>3. S \subseteq Keys /\ \A k \in S : files.entry[k] # Miss
  BY DEF Present
<1>4. cut \in Ordered
  <2>1. cut = [entry |-> cut.entry, ahead |-> cut.ahead] BY DEF Restricted
  <2>2. cut.entry \in [Keys -> Runs \cup {Miss, Bad}] BY <1>1, <1>3 DEF Ordered
  <2>3. cut.ahead \in [Keys -> SUBSET Keys] BY <1>2, <1>3
  <2> QED BY <2>1, <2>2, <2>3 DEF Ordered
<1>5. Present(cut) = S BY <1>1, <1>3 DEF Present
<1>6. Linear(cut)
  <2>1. \A k \in Keys : cut.ahead[k] \subseteq S \ {k} BY <1>2, <1>3 DEF Linear
  <2>2. \A k \in Keys \ S : cut.ahead[k] = {} BY <1>2
  <2>3. \A j, k \in S : j = k \/ j \in cut.ahead[k] \/ k \in cut.ahead[j]
    BY <1>2, <1>3 DEF Linear
  <2>4. \A k \in Keys : \A j \in cut.ahead[k] : cut.ahead[j] \subseteq cut.ahead[k]
    BY <1>2, <1>3 DEF Linear
  <2> QED BY <1>5, <2>1, <2>2, <2>3, <2>4 DEF Linear
<1> QED BY <1>4, <1>5, <1>6

\* The order of a list of distinct keys.
Earlier(s, k) == {j \in Members(s) : \E a, b \in DOMAIN s : a < b /\ s[a] = j /\ s[b] = k}

\* A list of distinct keys is a linear order.
LEMMA ListLinear ==
  ASSUME NEW s \in Batches
  PROVE  /\ Members(s) \subseteq Keys
         /\ \A k \in Keys : Earlier(s, k) \subseteq Members(s) \ {k}
         /\ \A j, k \in Members(s) : j = k \/ j \in Earlier(s, k) \/ k \in Earlier(s, j)
         /\ \A k \in Keys : \A j \in Earlier(s, k) : Earlier(s, j) \subseteq Earlier(s, k)
<1>1. PICK n \in 0..Cardinality(Keys) : s \in [1..n -> Keys] BY DEF Batches
<1>2. \A a, b \in DOMAIN s : s[a] = s[b] => a = b BY DEF Batches
<1>3. Cardinality(Keys) \in Nat BY LintCacheAssumption, FS_CardinalityType
<1>4. DOMAIN s \subseteq Int BY <1>1, <1>3
<1>5. Members(s) \subseteq Keys BY <1>1 DEF Members
<1>6. \A k \in Keys : Earlier(s, k) \subseteq Members(s) \ {k}
  BY <1>2, <1>4 DEF Earlier
<1>7. \A j, k \in Members(s) : j = k \/ j \in Earlier(s, k) \/ k \in Earlier(s, j)
  BY <1>2, <1>4 DEF Earlier, Members
<1>8. ASSUME NEW k \in Keys, NEW j \in Earlier(s, k) PROVE Earlier(s, j) \subseteq Earlier(s, k)
  <2> SUFFICES ASSUME NEW i \in Earlier(s, j) PROVE i \in Earlier(s, k) OBVIOUS
  <2>1. PICK a, b \in DOMAIN s : a < b /\ s[a] = j /\ s[b] = k BY DEF Earlier
  <2>2. PICK c, d \in DOMAIN s : c < d /\ s[c] = i /\ s[d] = j BY DEF Earlier
  <2>3. d = a BY <1>2, <2>1, <2>2
  <2>4. c < b BY <1>4, <2>1, <2>2, <2>3
  <2> QED BY <2>1, <2>2, <2>4 DEF Earlier
<1> QED BY <1>5, <1>6, <1>7, <1>8

\* store moves each key to the end of the map.
LEMMA StoredLinear ==
  ASSUME NEW r \in Runs, NEW s \in Batches, entries[r] \in Ordered, Linear(entries[r])
  PROVE  /\ Stored(r, s) \in Ordered
         /\ Linear(Stored(r, s))
         /\ Present(Stored(r, s)) = Present(entries[r]) \cup Members(s)
         /\ \A k \in Keys :
              Stored(r, s).entry[k] = IF k \in Members(s) THEN r ELSE entries[r].entry[k]
<1> DEFINE rest == Present(entries[r]) \ Members(s)
           map == Stored(r, s)
<1>1. /\ Members(s) \subseteq Keys
      /\ \A k \in Keys : Earlier(s, k) \subseteq Members(s) \ {k}
      /\ \A j, k \in Members(s) : j = k \/ j \in Earlier(s, k) \/ k \in Earlier(s, j)
      /\ \A k \in Keys : \A j \in Earlier(s, k) : Earlier(s, j) \subseteq Earlier(s, k)
  BY ListLinear
<1>2. map.entry = [k \in Keys |-> IF k \in Members(s) THEN r ELSE entries[r].entry[k]]
  BY DEF Stored
<1>3. map.ahead = [k \in Keys |-> IF k \in Members(s) THEN rest \cup Earlier(s, k)
                                   ELSE entries[r].ahead[k] \cap rest]
  BY DEF Stored, Earlier
<1>4. rest \subseteq Keys /\ rest \cap Members(s) = {} BY DEF Present
<1>5. r # Miss BY LintCacheAssumption
<1>6. Present(map) = Present(entries[r]) \cup Members(s)
  BY <1>1, <1>2, <1>5 DEF Present
<1>7. map \in Ordered
  <2>1. map = [entry |-> map.entry, ahead |-> map.ahead] BY DEF Stored
  <2>2. map.entry \in [Keys -> Runs \cup {Miss, Bad}] BY <1>2 DEF Ordered
  <2>3. map.ahead \in [Keys -> SUBSET Keys] BY <1>1, <1>3, <1>4
  <2> QED BY <2>1, <2>2, <2>3 DEF Ordered
<1>8. \A k \in Keys : map.ahead[k] \subseteq Present(map) \ {k}
  BY <1>1, <1>3, <1>4, <1>6 DEF Linear
<1>9. \A k \in Keys \ Present(map) : map.ahead[k] = {}
  BY <1>3, <1>6 DEF Linear
<1>10. \A j, k \in Present(map) : j = k \/ j \in map.ahead[k] \/ k \in map.ahead[j]
  <2> SUFFICES ASSUME NEW j \in Present(map), NEW k \in Present(map), j # k
               PROVE  j \in map.ahead[k] \/ k \in map.ahead[j]
    OBVIOUS
  <2>1. j \in Keys /\ k \in Keys BY DEF Present
  <2>2. CASE j \in Members(s) /\ k \in Members(s) BY <1>1, <1>3, <2>1, <2>2
  <2>3. CASE j \in rest /\ k \in Members(s) BY <1>3, <2>1, <2>3
  <2>4. CASE j \in Members(s) /\ k \in rest BY <1>3, <2>1, <2>4
  <2>5. CASE j \in rest /\ k \in rest BY <1>3, <1>4, <2>1, <2>5 DEF Linear
  <2> QED BY <1>6, <2>2, <2>3, <2>4, <2>5
<1>11. \A k \in Keys : \A j \in map.ahead[k] : map.ahead[j] \subseteq map.ahead[k]
  <2> SUFFICES ASSUME NEW k \in Keys, NEW j \in map.ahead[k]
               PROVE  map.ahead[j] \subseteq map.ahead[k]
    OBVIOUS
  <2>1. CASE k \in Members(s) /\ j \in Members(s)
    <3>1. j \in Earlier(s, k) BY <1>3, <1>4, <2>1
    <3> QED BY <1>1, <1>3, <2>1, <3>1
  <2>2. CASE k \in Members(s) /\ j \notin Members(s)
    <3>1. j \in rest BY <1>1, <1>3, <2>2
    <3> QED BY <1>3, <1>4, <2>2, <3>1
  <2>3. CASE k \notin Members(s)
    <3>1. j \in entries[r].ahead[k] \cap rest BY <1>3, <2>3
    <3>2. j \notin Members(s) /\ j \in Keys BY <1>4, <3>1
    <3> QED BY <1>3, <2>3, <3>1, <3>2 DEF Linear
  <2> QED BY <2>1, <2>2, <2>3
<1> QED BY <1>2, <1>6, <1>7, <1>8, <1>9, <1>10, <1>11 DEF Linear

\* Spreading one object over another gives an object.
LEMMA MergeLinear ==
  ASSUME NEW existing \in Ordered, NEW ours \in Ordered, Linear(existing), Linear(ours)
  PROVE  /\ Merge(existing, ours) \in Ordered
         /\ Linear(Merge(existing, ours))
         /\ Present(Merge(existing, ours)) = Present(existing) \cup Present(ours)
         /\ \A k \in Keys : Merge(existing, ours).entry[k] =
              IF ours.entry[k] = Miss THEN existing.entry[k] ELSE ours.entry[k]
<1> DEFINE all == Merge(existing, ours)
           E == Present(existing)
           O == Present(ours)
<1>1. all.entry = [k \in Keys |-> IF ours.entry[k] = Miss THEN existing.entry[k] ELSE ours.entry[k]]
  BY DEF Merge
<1>2. all.ahead = [k \in Keys |-> IF k \in E THEN existing.ahead[k]
                                  ELSE IF k \in O THEN E \cup ours.ahead[k] ELSE {}]
  BY DEF Merge
<1>3. E \subseteq Keys /\ O \subseteq Keys BY DEF Present
<1>4. Present(all) = E \cup O BY <1>1 DEF Present
<1>5. all \in Ordered
  <2>1. all = [entry |-> all.entry, ahead |-> all.ahead] BY DEF Merge
  <2>2. all.entry \in [Keys -> Runs \cup {Miss, Bad}] BY <1>1 DEF Ordered
  <2>3. all.ahead \in [Keys -> SUBSET Keys] BY <1>2, <1>3 DEF Ordered
  <2> QED BY <2>1, <2>2, <2>3 DEF Ordered
<1>6. \A k \in Keys : all.ahead[k] \subseteq Present(all) \ {k}
  BY <1>2, <1>4 DEF Linear
<1>7. \A k \in Keys \ Present(all) : all.ahead[k] = {}
  BY <1>2, <1>4
<1>8. \A j, k \in Present(all) : j = k \/ j \in all.ahead[k] \/ k \in all.ahead[j]
  BY <1>2, <1>3, <1>4 DEF Linear
<1>9. \A k \in Keys : \A j \in all.ahead[k] : all.ahead[j] \subseteq all.ahead[k]
  <2> SUFFICES ASSUME NEW k \in Keys, NEW j \in all.ahead[k]
               PROVE  all.ahead[j] \subseteq all.ahead[k]
    OBVIOUS
  <2>1. CASE k \in E
    <3>1. j \in E /\ j \in existing.ahead[k] BY <1>2, <2>1 DEF Linear
    <3> QED BY <1>2, <1>3, <2>1, <3>1 DEF Linear
  <2>2. CASE k \in O \ E
    <3>1. CASE j \in E
      <4>1. all.ahead[j] = existing.ahead[j] BY <1>2, <1>3, <3>1
      <4>2. existing.ahead[j] \subseteq E BY <1>3, <3>1 DEF Linear
      <4> QED BY <1>2, <1>3, <2>2, <4>1, <4>2
    <3>2. CASE j \notin E
      <4>1. j \in ours.ahead[k] BY <1>2, <1>3, <2>2, <3>2
      <4>2. j \in O BY <1>3, <2>2, <4>1 DEF Linear
      <4> QED BY <1>2, <1>3, <2>2, <3>2, <4>1, <4>2 DEF Linear
    <3> QED BY <3>1, <3>2
  <2>3. CASE k \notin E \cup O BY <1>2, <2>3
  <2> QED BY <2>1, <2>2, <2>3
<1> QED BY <1>1, <1>4, <1>5, <1>6, <1>7, <1>8, <1>9 DEF Linear

\* The slice drops a key only when the cap is met.
LEMMA TailCut ==
  ASSUME NEW files, NEW tail \in Tails(files)
  PROVE  /\ tail \subseteq Present(files)
         /\ Cardinality(tail) <= MaxFileCount
         /\ tail # Present(files) => Cardinality(tail) = MaxFileCount
<1>1. tail \subseteq Present(files) BY DEF Tails
<1>2. Cardinality(tail) = AtMost(MaxFileCount, Cardinality(Present(files))) BY DEF Tails
<1>3. IsFiniteSet(Present(files)) /\ Cardinality(Present(files)) \in Nat BY PresentFinite
<1>4. MaxFileCount \in Nat BY LintCacheAssumption
<1>5. Cardinality(tail) <= MaxFileCount BY <1>2, <1>3, <1>4 DEF AtMost
<1>6. ASSUME tail # Present(files) PROVE Cardinality(tail) = MaxFileCount
  <2>1. /\ Cardinality(tail) <= Cardinality(Present(files))
        /\ Cardinality(Present(files)) = Cardinality(tail) => Present(files) = tail
    BY <1>1, <1>3, FS_Subset
  <2> QED BY <1>2, <1>3, <1>4, <1>6, <2>1 DEF AtMost
<1> QED BY <1>1, <1>5, <1>6

\* The pruning drops a bucket only when there are enough newer ones.
LEMMA NewestCut ==
  ASSUME NEW buckets, NEW newest \in Newest(buckets)
  PROVE  /\ newest \subseteq {h \in Hashes : Sound(buckets[h])}
         /\ Cardinality(newest) <= MaxRulesetCount
         /\ \A h \in Hashes : Sound(buckets[h]) /\ h \notin newest =>
              /\ Cardinality(newest) = MaxRulesetCount
              /\ \A g \in newest : buckets[g].updatedAtMs >= buckets[h].updatedAtMs
<1> DEFINE kept == {h \in Hashes : Sound(buckets[h])}
<1>1. /\ newest \subseteq kept
      /\ Cardinality(newest) = AtMost(MaxRulesetCount, Cardinality(kept))
      /\ \A h \in newest : \A g \in kept \ newest : buckets[h].updatedAtMs >= buckets[g].updatedAtMs
  BY DEF Newest
<1>2. IsFiniteSet(kept) /\ Cardinality(kept) \in Nat
  <2>1. IsFiniteSet(Hashes) BY LintCacheAssumption
  <2> QED BY <2>1, FS_Subset, FS_CardinalityType
<1>3. MaxRulesetCount \in Nat BY LintCacheAssumption
<1>4. Cardinality(newest) <= MaxRulesetCount BY <1>1, <1>2, <1>3 DEF AtMost
<1>5. ASSUME newest # kept PROVE Cardinality(newest) = MaxRulesetCount
  <2>1. /\ Cardinality(newest) <= Cardinality(kept)
        /\ Cardinality(kept) = Cardinality(newest) => kept = newest
    BY <1>1, <1>2, FS_Subset
  <2> QED BY <1>1, <1>2, <1>3, <1>5, <2>1 DEF AtMost
<1> QED BY <1>1, <1>4, <1>5

----------------------------------------------------------------------------
(* The inductive invariant: besides the file, the copy each run is about to *)
(* rename over it has the properties.                                       *)

\* The entry under h and k of the content of a file.
In(buckets, h, k) == IF Sound(buckets[h]) THEN buckets[h].files.entry[k] ELSE Miss

SoundHashes(buckets) == {h \in Hashes : Sound(buckets[h])}

\* The copy of r, which has `files` in memory, misses nothing of the file but for
\* the caps, and for what r did not see when its read failed.
Keeps(r, before, after, files, failed) ==
  \A h \in Hashes, k \in Keys :
    In(before, h, k) \in Runs /\ In(after, h, k) = Miss =>
      \/ r \in failed /\ ~(HashOf[r] = h /\ files.entry[k] # Miss)
      \/ /\ HashOf[r] = h
         /\ Sound(after[h])
         /\ Cardinality(Present(after[h].files)) = MaxFileCount
      \/ /\ ~Sound(after[h])
         /\ Cardinality(SoundHashes(after)) = MaxRulesetCount
         /\ \A g \in Hashes : Sound(after[g]) => after[g].updatedAtMs >= before[h].updatedAtMs

CopyFine(r) ==
  phase[r] = "persisting" =>
    /\ \A h \in Hashes : BucketFine(linted, now, h, merged[r][h])
    /\ Cardinality(SoundHashes(merged[r])) <= MaxRulesetCount
    /\ \A k \in linted[r] : In(merged[r], HashOf[r], k) \in {r, Miss}
    /\ r \notin stale => Keeps(r, rulesets, merged[r], entries[r], misread)

TypeInv == TypeOK /\ \A r \in Runs, h \in Hashes : Linear(FilesOf(merged[r][h]))

IInv ==
  /\ TypeInv
  /\ \A h \in Hashes : BucketFine(linted, now, h, rulesets[h])
  /\ Cardinality(SoundHashes(rulesets)) <= MaxRulesetCount
  /\ \A r \in Runs, k \in Keys :
       entries[r].entry[k] # Bad /\ GenuineIn(linted, HashOf[r], k, entries[r].entry[k])
  /\ \A r \in Runs : phase[r] \in {"idle", "linting"} => linted[r] = {}
  /\ \A r \in Runs : CopyFine(r)

\* An empty file has every property.
LEMMA NoRulesetsFine ==
  /\ NoRulesets \in [Hashes -> Buckets \cup {NoBucket, BadBucket}]
  /\ \A h \in Hashes : ~Sound(NoRulesets[h]) /\ FilesOf(NoRulesets[h]) = Empty
  /\ SoundHashes(NoRulesets) = {}
  /\ Cardinality({}) = 0
<1>1. \A h \in Hashes : ~Sound(NoRulesets[h]) BY DEF NoRulesets, Sound
<1> QED BY <1>1, FS_EmptySet DEF NoRulesets, FilesOf, SoundHashes

\* What can be read of a bucket is an object, and a bucket of the type that is
\* sound is a record.
LEMMA SoundBuckets ==
  /\ \A bucket \in Buckets : Sound(bucket)
  /\ \A bucket \in Buckets \cup {NoBucket, BadBucket} :
       /\ Sound(bucket) => bucket \in Buckets
       /\ FilesOf(bucket) \in Ordered
BY NoBucketAssumption, EmptyLinear DEF Sound, FilesOf, Buckets

\* What a run reads is the content of a file, and another than that of the cache
\* file only when the read failed.
LEMMA ReadFine ==
  ASSUME TypeInv, NEW r \in Runs, NEW read \in Reads
  PROVE  /\ read \in {rulesets, NoRulesets}
         /\ read \in [Hashes -> Buckets \cup {NoBucket, BadBucket}]
         /\ \A h \in Hashes : Linear(FilesOf(read[h]))
         /\ CountMisread(read) => misreads' \in 0..MaxMisreads
<1>1. read = rulesets \/ (read = NoRulesets /\ misreads < MaxMisreads) BY DEF Reads
<1>2. misreads \in 0..MaxMisreads /\ MaxMisreads \in Nat
  BY LintCacheAssumption DEF TypeInv, TypeOK
<1>3. CountMisread(read) => misreads' \in 0..MaxMisreads BY <1>1, <1>2 DEF CountMisread
<1> QED BY <1>1, <1>3, NoRulesetsFine, EmptyLinear DEF TypeInv, TypeOK

\* The operands of a write, and what the copy looks like.
Copy(r, s, read, all, tail, own, buckets, newest) ==
  /\ read \in {rulesets, NoRulesets} /\ (read # rulesets => r \in misread')
  /\ all \in Ordered /\ tail \in Tails(all) /\ own \in Buckets
  /\ buckets \in [Hashes -> Buckets \cup {NoBucket, BadBucket}]
  /\ newest \in Newest(buckets)
  /\ Linear(all)
  /\ Present(all) = Present(FilesOf(read[HashOf[r]])) \cup Present(entries[r]) \cup Members(s)
  /\ \A k \in Keys : all.entry[k] =
       IF k \in Members(s) THEN r
       ELSE IF entries[r].entry[k] # Miss THEN entries[r].entry[k]
       ELSE FilesOf(read[HashOf[r]]).entry[k]
  /\ own = [updatedAtMs |-> now, files |-> Restricted(all, tail)]
  /\ own.files \in Ordered /\ Linear(own.files) /\ Present(own.files) = tail
  /\ \A h \in Hashes : buckets[h] = IF h = HashOf[r] THEN own ELSE read[h]
  /\ \A h \in Hashes : merged'[r][h] = IF h \in newest THEN buckets[h] ELSE NoBucket
  /\ \A q \in Runs \ {r} : merged'[q] = merged[q]
  /\ merged' \in [Runs -> [Hashes -> Buckets \cup {NoBucket, BadBucket}]]
  /\ SoundHashes(merged'[r]) = newest

\* persist makes such a copy.
LEMMA PersistCopy ==
  ASSUME TypeInv, NEW r \in Runs, NEW s \in Batches, Persist(r, s)
  PROVE  \E read, all, tail, own, buckets, newest :
           Copy(r, s, read, all, tail, own, buckets, newest)
<1>0. PICK read \in Reads :
        /\ misread' = IF read = rulesets THEN misread ELSE misread \cup {r}
        /\ LET all == Merge(FilesOf(read[HashOf[r]]), Stored(r, s)) IN
             \E tail \in Tails(all) :
               LET buckets == [read EXCEPT ![HashOf[r]] =
                                 [updatedAtMs |-> now, files |-> Restricted(all, tail)]]
               IN \E newest \in Newest(buckets) :
                    merged' = [merged EXCEPT ![r] =
                      [h \in Hashes |-> IF h \in newest THEN buckets[h] ELSE NoBucket]]
  BY DEF Persist
<1>read. /\ read \in {rulesets, NoRulesets} /\ (read # rulesets => r \in misread')
      /\ read \in [Hashes -> Buckets \cup {NoBucket, BadBucket}]
      /\ \A h \in Hashes : Linear(FilesOf(read[h]))
  BY <1>0, ReadFine
<1> DEFINE disk == FilesOf(read[HashOf[r]])
           all == Merge(disk, Stored(r, s))
<1>1. HashOf[r] \in Hashes /\ r # Miss BY LintCacheAssumption
<1>2. disk \in Ordered /\ Linear(disk) BY <1>1, <1>read, SoundBuckets
<1>3. /\ Stored(r, s) \in Ordered /\ Linear(Stored(r, s))
      /\ Present(Stored(r, s)) = Present(entries[r]) \cup Members(s)
      /\ \A k \in Keys :
           Stored(r, s).entry[k] = IF k \in Members(s) THEN r ELSE entries[r].entry[k]
  <2>1. entries[r] \in Ordered /\ Linear(entries[r]) BY DEF TypeInv, TypeOK
  <2> QED BY <2>1, StoredLinear
<1>4. /\ all \in Ordered /\ Linear(all)
      /\ Present(all) = Present(disk) \cup Present(Stored(r, s))
      /\ \A k \in Keys : all.entry[k] =
           IF Stored(r, s).entry[k] = Miss THEN disk.entry[k] ELSE Stored(r, s).entry[k]
  BY <1>2, <1>3, MergeLinear
<1>5. \A k \in Keys : all.entry[k] =
        IF k \in Members(s) THEN r
        ELSE IF entries[r].entry[k] # Miss THEN entries[r].entry[k] ELSE disk.entry[k]
  BY <1>1, <1>3, <1>4
<1>6. PICK tail \in Tails(all) :
        LET buckets == [read EXCEPT ![HashOf[r]] =
                          [updatedAtMs |-> now, files |-> Restricted(all, tail)]]
        IN \E newest \in Newest(buckets) :
             merged' = [merged EXCEPT ![r] =
               [h \in Hashes |-> IF h \in newest THEN buckets[h] ELSE NoBucket]]
  BY <1>0
<1> DEFINE own == [updatedAtMs |-> now, files |-> Restricted(all, tail)]
           buckets == [read EXCEPT ![HashOf[r]] = own]
<1> HIDE DEF all, disk
<1>7. PICK newest \in Newest(buckets) :
        merged' = [merged EXCEPT ![r] =
          [h \in Hashes |-> IF h \in newest THEN buckets[h] ELSE NoBucket]]
  BY <1>6
<1>8. tail \subseteq Present(all) BY TailCut
<1>9. own.files \in Ordered /\ Linear(own.files) /\ Present(own.files) = tail
  BY <1>4, <1>8, RestrictedLinear
<1>10. own \in Buckets BY <1>9 DEF Buckets, TypeInv, TypeOK
<1>11. buckets \in [Hashes -> Buckets \cup {NoBucket, BadBucket}]
  BY <1>read, <1>10
<1>12. \A h \in Hashes : buckets[h] = IF h = HashOf[r] THEN own ELSE read[h]
  BY <1>read
<1> HIDE DEF own, buckets
<1>13. /\ merged' \in [Runs -> [Hashes -> Buckets \cup {NoBucket, BadBucket}]]
       /\ \A q \in Runs \ {r} : merged'[q] = merged[q]
       /\ merged'[r] = [h \in Hashes |-> IF h \in newest THEN buckets[h] ELSE NoBucket]
  <2>1. [h \in Hashes |-> IF h \in newest THEN buckets[h] ELSE NoBucket]
          \in [Hashes -> Buckets \cup {NoBucket, BadBucket}]
    BY <1>11
  <2>2. merged \in [Runs -> [Hashes -> Buckets \cup {NoBucket, BadBucket}]]
    BY DEF TypeInv, TypeOK
  <2> QED BY <1>7, <2>1, <2>2
<1>14. newest \subseteq Hashes /\ \A h \in newest : Sound(buckets[h])
  BY NewestCut
<1>15. SoundHashes(merged'[r]) = newest
  BY <1>13, <1>14 DEF SoundHashes, Sound
<1>16. own = [updatedAtMs |-> now, files |-> Restricted(all, tail)] BY DEF own
<1>17. all = Merge(disk, Stored(r, s)) /\ disk = FilesOf(read[HashOf[r]]) BY DEF all, disk
<1>18. Present(all) = Present(disk) \cup Present(entries[r]) \cup Members(s) BY <1>3, <1>4
<1>19. tail \in Tails(all) /\ newest \in Newest(buckets) OBVIOUS
<1>20. Copy(r, s, read, all, tail, own, buckets, newest)
  BY <1>read, <1>4, <1>5, <1>9, <1>10, <1>11, <1>12, <1>13, <1>15, <1>16, <1>17, <1>18, <1>19 DEF Copy
<1> QED BY <1>20

----------------------------------------------------------------------------
(* Types *)

\* The initial state has the invariant.
LEMMA InitInv == Init => IInv
<1> SUFFICES ASSUME Init PROVE IInv OBVIOUS
<1>1. /\ NoRulesets \in [Hashes -> Buckets \cup {NoBucket, BadBucket}]
      /\ \A h \in Hashes : ~Sound(NoRulesets[h]) /\ FilesOf(NoRulesets[h]) = Empty
      /\ SoundHashes(NoRulesets) = {}
      /\ Cardinality({}) = 0
  BY NoRulesetsFine
<1>2. Empty \in Ordered /\ Linear(Empty) BY EmptyLinear
<1>3. TypeInv
  BY <1>1, <1>2, LintCacheAssumption DEF Init, TypeInv, TypeOK, Phases
<1>4. \A h \in Hashes : BucketFine(linted, now, h, rulesets[h]) BY <1>1 DEF Init, BucketFine
<1>5. Cardinality(SoundHashes(rulesets)) <= MaxRulesetCount
  BY <1>1, LintCacheAssumption DEF Init
<1>6. \A r \in Runs, k \in Keys :
        entries[r].entry[k] # Bad /\ GenuineIn(linted, HashOf[r], k, entries[r].entry[k])
  BY LintCacheAssumption DEF Init, Empty, GenuineIn
<1>7. \A r \in Runs : phase[r] = "idle" /\ linted[r] = {} BY DEF Init
<1>8. \A r \in Runs : CopyFine(r) BY <1>7 DEF CopyFine
<1> QED BY <1>3, <1>4, <1>5, <1>6, <1>7, <1>8 DEF IInv

\* createFileLintCache loads an object.
LEMMA CreateType == ASSUME TypeInv, NEW r \in Runs, Create(r) PROVE TypeInv'
<1>0. PICK read \in Reads :
        entries' = [entries EXCEPT ![r] = LoadRulesetEntries(r, read)] /\ CountMisread(read)
  BY DEF Create
<1> DEFINE files == FilesOf(read[HashOf[r]])
           S == {k \in Keys : files.entry[k] \in Runs}
<1>1. HashOf[r] \in Hashes BY LintCacheAssumption
<1>2. files \in Ordered /\ Linear(files) BY <1>1, ReadFine, SoundBuckets
<1>3. S \subseteq Present(files) BY LintCacheAssumption DEF Present
<1>4. LoadRulesetEntries(r, read) = Restricted(files, S) BY DEF LoadRulesetEntries
<1>5. LoadRulesetEntries(r, read) \in Ordered /\ Linear(LoadRulesetEntries(r, read))
  BY <1>2, <1>3, <1>4, RestrictedLinear
<1>6. entries' \in [Runs -> Ordered] /\ \A q \in Runs : Linear(entries'[q])
  BY <1>0, <1>5 DEF TypeInv, TypeOK
<1>7. phase' \in [Runs -> Phases] BY DEF Create, TypeInv, TypeOK, Phases
<1>8. misreads' \in 0..MaxMisreads BY <1>0, ReadFine
<1> QED BY <1>6, <1>7, <1>8 DEF Create, TypeInv, TypeOK

\* The copy that persist makes is the content of a file.
LEMMA PersistType == ASSUME TypeInv, NEW r \in Runs, NEW s \in Batches, Persist(r, s) PROVE TypeInv'
<1>0. PICK read, all, tail, own, buckets, newest :
        Copy(r, s, read, all, tail, own, buckets, newest)
  BY PersistCopy
<1>1. /\ own \in Buckets /\ Linear(own.files) /\ read \in {rulesets, NoRulesets}
      /\ \A h \in Hashes : buckets[h] = IF h = HashOf[r] THEN own ELSE read[h]
      /\ \A h \in Hashes : merged'[r][h] = IF h \in newest THEN buckets[h] ELSE NoBucket
      /\ \A q \in Runs \ {r} : merged'[q] = merged[q]
      /\ merged' \in [Runs -> [Hashes -> Buckets \cup {NoBucket, BadBucket}]]
  BY <1>0 DEF Copy
<1>2. ASSUME NEW h \in Hashes PROVE Linear(FilesOf(merged'[r][h]))
  <2>1. CASE h \in newest /\ h = HashOf[r]
    BY <1>1, <2>1, SoundBuckets DEF FilesOf
  <2>2. CASE h \in newest /\ h # HashOf[r]
    BY <1>1, <2>2, NoRulesetsFine, EmptyLinear DEF TypeInv, TypeOK
  <2>3. CASE h \notin newest
    BY <1>1, <2>3, EmptyLinear DEF FilesOf, Sound
  <2> QED BY <2>1, <2>2, <2>3
<1>3. \A q \in Runs, h \in Hashes : Linear(FilesOf(merged'[q][h]))
  BY <1>1, <1>2 DEF TypeInv
<1>4. Stored(r, s) \in Ordered /\ Linear(Stored(r, s))
  BY StoredLinear DEF TypeInv, TypeOK
<1>5. entries' \in [Runs -> Ordered] /\ \A q \in Runs : Linear(entries'[q])
  BY <1>4 DEF Persist, TypeInv, TypeOK
<1>6. Members(s) \subseteq Keys BY ListLinear
<1>7. linted' \in [Runs -> SUBSET Keys] BY <1>6 DEF Persist, TypeInv, TypeOK
<1>8. phase' \in [Runs -> Phases] BY DEF Persist, TypeInv, TypeOK, Phases
<1>9. stale' \in SUBSET Runs BY DEF Persist, TypeInv, TypeOK
<1>10. UNCHANGED <<rulesets, now, damages>> BY DEF Persist
<1>11. misreads' \in 0..MaxMisreads BY ReadFine DEF Persist
<1>12. misread' \in SUBSET Runs BY DEF Persist, TypeInv, TypeOK
<1> QED BY <1>1, <1>3, <1>5, <1>7, <1>8, <1>9, <1>10, <1>11, <1>12 DEF TypeInv, TypeOK

\* What ends leaves nothing behind in memory.
LEMMA EndType ==
  ASSUME TypeInv, NEW r \in Runs, End(r)
  PROVE  /\ phase' \in [Runs -> Phases]
         /\ entries' \in [Runs -> Ordered] /\ \A q \in Runs : Linear(entries'[q])
         /\ merged' \in [Runs -> [Hashes -> Buckets \cup {NoBucket, BadBucket}]]
         /\ \A q \in Runs, h \in Hashes : Linear(FilesOf(merged'[q][h]))
         /\ misread' \in SUBSET Runs
<1>1. phase' \in [Runs -> Phases] BY DEF End, TypeInv, TypeOK, Phases
<1>2. entries' \in [Runs -> Ordered] /\ \A q \in Runs : Linear(entries'[q])
  BY EmptyLinear DEF End, TypeInv, TypeOK
<1>3. merged' \in [Runs -> [Hashes -> Buckets \cup {NoBucket, BadBucket}]]
  BY NoRulesetsFine DEF End, TypeInv, TypeOK
<1>4. \A q \in Runs : merged'[q] = IF q = r THEN NoRulesets ELSE merged[q]
  BY DEF End, TypeInv, TypeOK
<1>5. \A q \in Runs, h \in Hashes : Linear(FilesOf(merged'[q][h]))
  BY <1>4, NoRulesetsFine, EmptyLinear DEF TypeInv
<1>6. misread' \in SUBSET Runs BY DEF End, TypeInv, TypeOK
<1> QED BY <1>1, <1>2, <1>3, <1>5, <1>6

\* Damage leaves something that can be read or is replaced.
LEMMA DamageType == ASSUME TypeInv, Damage PROVE TypeInv'
<1>1. rulesets' \in [Hashes -> Buckets \cup {NoBucket, BadBucket}]
      /\ \A h \in Hashes : Linear(FilesOf(rulesets'[h]))
  <2>1. CASE rulesets' = NoRulesets BY <2>1, NoRulesetsFine, EmptyLinear
  <2>2. ASSUME NEW h \in Hashes, rulesets' = [rulesets EXCEPT ![h] = BadBucket]
        PROVE  rulesets' \in [Hashes -> Buckets \cup {NoBucket, BadBucket}]
               /\ \A g \in Hashes : Linear(FilesOf(rulesets'[g]))
    <3>1. rulesets' \in [Hashes -> Buckets \cup {NoBucket, BadBucket}]
      BY <2>2 DEF TypeInv, TypeOK
    <3>2. \A g \in Hashes : rulesets'[g] = IF g = h THEN BadBucket ELSE rulesets[g]
      BY <2>2 DEF TypeInv, TypeOK
    <3>3. FilesOf(BadBucket) = Empty BY DEF FilesOf, Sound
    <3> QED BY <3>1, <3>2, <3>3, EmptyLinear DEF TypeInv, TypeOK
  <2>3. ASSUME NEW h \in Hashes, Sound(rulesets[h]), NEW k \in Present(rulesets[h].files),
               rulesets' = [rulesets EXCEPT ![h].files.entry[k] = Bad]
        PROVE  rulesets' \in [Hashes -> Buckets \cup {NoBucket, BadBucket}]
               /\ \A g \in Hashes : Linear(FilesOf(rulesets'[g]))
    <3> DEFINE old == rulesets[h]
               new == rulesets'[h]
    <3>1. old \in Buckets BY <2>3, SoundBuckets DEF TypeInv, TypeOK
    <3>2. new = [old EXCEPT !.files.entry[k] = Bad] BY <2>3 DEF TypeInv, TypeOK
    <3>3. \A g \in Hashes : g # h => rulesets'[g] = rulesets[g] BY <2>3 DEF TypeInv, TypeOK
    <3>4. k \in Keys /\ old.files.entry[k] # Miss BY DEF Present
    <3>5. /\ new.updatedAtMs = old.updatedAtMs
          /\ new.files.ahead = old.files.ahead
          /\ new.files.entry = [old.files.entry EXCEPT ![k] = Bad]
          /\ new.files = [entry |-> new.files.entry, ahead |-> new.files.ahead]
          /\ new = [updatedAtMs |-> new.updatedAtMs, files |-> new.files]
      BY <3>1, <3>2 DEF Buckets, Ordered
    <3>6. new.files \in Ordered BY <3>1, <3>4, <3>5 DEF Buckets, Ordered
    <3>7. new \in Buckets BY <3>1, <3>5, <3>6 DEF Buckets
    <3>8. Present(new.files) = Present(old.files)
      BY <3>1, <3>4, <3>5, LintCacheAssumption DEF Present, Buckets, Ordered
    <3>9. Linear(old.files) BY <2>3 DEF TypeInv, TypeOK, FilesOf
    <3>10. Linear(new.files) BY <3>5, <3>8, <3>9 DEF Linear
    <3>11. FilesOf(new) = new.files BY <3>7, SoundBuckets DEF FilesOf
    <3>12. DOMAIN rulesets' = Hashes /\ rulesets' = [g \in Hashes |-> rulesets'[g]]
      BY <2>3 DEF TypeInv, TypeOK
    <3> QED BY <3>3, <3>7, <3>10, <3>11, <3>12 DEF TypeInv, TypeOK
  <2> QED BY <2>1, <2>2, <2>3 DEF Damage
<1>2. damages' \in 0..MaxDamages BY LintCacheAssumption DEF Damage, TypeInv, TypeOK
<1>3. stale' \in SUBSET Runs BY DEF Damage
<1>4. UNCHANGED <<phase, entries, linted, merged, now, misreads, misread>> BY DEF Damage
<1> QED BY <1>1, <1>2, <1>3, <1>4 DEF TypeInv, TypeOK

\* Every step keeps the types.
LEMMA TypeStep == TypeInv /\ [Next]_vars => TypeInv'
<1> SUFFICES ASSUME TypeInv, [Next]_vars PROVE TypeInv' OBVIOUS
<1>1. ASSUME NEW r \in Runs, Create(r) PROVE TypeInv' BY <1>1, CreateType
<1>2. ASSUME NEW r \in Runs, NEW s \in Batches, Persist(r, s) PROVE TypeInv' BY <1>2, PersistType
<1>3. ASSUME NEW r \in Runs, Rename(r) PROVE TypeInv'
  <2>1. End(r) /\ rulesets' = merged[r] /\ stale' = Runs /\ UNCHANGED <<linted, now, damages, misreads>>
    BY <1>3 DEF Rename
  <2>2. /\ merged[r] \in [Hashes -> Buckets \cup {NoBucket, BadBucket}]
        /\ \A h \in Hashes : Linear(FilesOf(merged[r][h]))
    BY DEF TypeInv, TypeOK
  <2> QED BY <2>1, <2>2, EndType DEF TypeInv, TypeOK
<1>4. ASSUME NEW r \in Runs, GiveUp(r) PROVE TypeInv'
  <2>1. End(r) /\ UNCHANGED <<linted, rulesets, now, damages, misreads, stale>> BY <1>4 DEF GiveUp
  <2> QED BY <2>1, EndType DEF TypeInv, TypeOK
<1>5. CASE Tick
  <2>1. now' \in 0..MaxTime BY <1>5, LintCacheAssumption DEF Tick, TypeInv, TypeOK
  <2> QED BY <1>5, <2>1 DEF Tick, TypeInv, TypeOK
<1>6. CASE Damage BY <1>6, DamageType
<1>7. CASE UNCHANGED vars BY <1>7 DEF vars, TypeInv, TypeOK
<1> QED BY <1>1, <1>2, <1>3, <1>4, <1>5, <1>6, <1>7 DEF Next

----------------------------------------------------------------------------
(* The steps *)

\* A run stores once, so what it has linted only grows, and so does the time.
Grows == /\ \A q \in Runs : linted[q] \subseteq linted'[q]
         /\ now \in Nat /\ now' \in Nat /\ now <= now'

\* What a run has stored and the clock only grow.
LEMMA StepGrows == IInv /\ [Next]_vars => Grows
<1> SUFFICES ASSUME IInv, [Next]_vars PROVE Grows OBVIOUS
<1>1. TypeOK /\ now \in Nat BY LintCacheAssumption DEF IInv, TypeInv, TypeOK
<1>2. ASSUME NEW r \in Runs, NEW s \in Batches, Persist(r, s)
      PROVE  (\A q \in Runs : linted[q] \subseteq linted'[q]) /\ now' = now
  <2>1. linted[r] = {} BY <1>2 DEF Persist, IInv
  <2>2. \A q \in Runs : q # r => linted'[q] = linted[q] BY <1>2 DEF Persist, IInv, TypeInv, TypeOK
  <2> QED BY <1>2, <2>1, <2>2 DEF Persist
<1>3. ASSUME NEW r \in Runs, Create(r) \/ Rename(r) \/ GiveUp(r)
      PROVE  linted' = linted /\ now' = now
  BY <1>3 DEF Create, Rename, GiveUp
<1>4. CASE Tick
  <2>1. now' = now + 1 /\ linted' = linted BY <1>4 DEF Tick
  <2> QED BY <1>1, <2>1 DEF Grows
<1>5. CASE Damage BY <1>1, <1>5 DEF Damage, Grows
<1>6. CASE UNCHANGED vars BY <1>1, <1>6 DEF vars, Grows
<1> QED BY <1>1, <1>2, <1>3, <1>4, <1>5, <1>6 DEF Next, Grows

\* What is genuine stays so, and what is fine.
LEMMA FineStays ==
  ASSUME Grows
  PROVE  /\ \A h \in Hashes, k \in Keys : \A e \in Runs \cup {Miss, Bad} :
              GenuineIn(linted, h, k, e) => GenuineIn(linted', h, k, e)
         /\ \A h \in Hashes : \A bucket \in Buckets \cup {NoBucket, BadBucket} :
              BucketFine(linted, now, h, bucket) => BucketFine(linted', now', h, bucket)
<1>1. \A h \in Hashes, k \in Keys : \A e \in Runs \cup {Miss, Bad} :
        GenuineIn(linted, h, k, e) => GenuineIn(linted', h, k, e)
  BY DEF Grows, GenuineIn
<1>2. ASSUME NEW h \in Hashes, NEW bucket \in Buckets \cup {NoBucket, BadBucket},
             BucketFine(linted, now, h, bucket)
      PROVE  BucketFine(linted', now', h, bucket)
  <2> SUFFICES ASSUME Sound(bucket)
               PROVE  /\ \A k \in Keys : GenuineIn(linted', h, k, bucket.files.entry[k])
                      /\ Cardinality(Present(bucket.files)) <= MaxFileCount
                      /\ bucket.updatedAtMs <= now'
    BY DEF BucketFine
  <2>1. bucket \in Buckets BY SoundBuckets
  <2>2. \A k \in Keys : bucket.files.entry[k] \in Runs \cup {Miss, Bad}
    BY <2>1 DEF Buckets, Ordered
  <2>3. \A k \in Keys : GenuineIn(linted', h, k, bucket.files.entry[k]) BY <1>1, <1>2, <2>2 DEF BucketFine
  <2>4. bucket.updatedAtMs \in Int BY <2>1, LintCacheAssumption DEF Buckets
  <2>5. bucket.updatedAtMs <= now' BY <1>2, <2>4 DEF BucketFine, Grows
  <2> QED BY <1>2, <2>3, <2>5 DEF BucketFine
<1> QED BY <1>1, <1>2

\* The copy is fine when it is made.
LEMMA CopyIsFine ==
  ASSUME IInv, NEW r \in Runs, NEW s \in Batches, Persist(r, s), Grows,
         NEW read, NEW all, NEW tail, NEW own, NEW buckets, NEW newest,
         Copy(r, s, read, all, tail, own, buckets, newest)
  PROVE  /\ \A h \in Hashes : BucketFine(linted', now', h, merged'[r][h])
         /\ Cardinality(newest) <= MaxRulesetCount
         /\ \A k \in Members(s) : In(merged'[r], HashOf[r], k) \in {r, Miss}
<1> DEFINE own_h == HashOf[r]
<1>1. own_h \in Hashes /\ r # Miss BY LintCacheAssumption
<1>2. tail \in Tails(all) /\ newest \in Newest(buckets) /\ own \in Buckets
  BY DEF Copy
<1>3. /\ tail \subseteq Present(all) /\ Cardinality(tail) <= MaxFileCount
  BY <1>2, TailCut
<1>4. /\ newest \subseteq Hashes /\ \A h \in newest : Sound(buckets[h])
      /\ Cardinality(newest) <= MaxRulesetCount
  BY <1>2, NewestCut
<1>5. own.files = Restricted(all, tail) /\ own.updatedAtMs = now BY DEF Copy
<1>6. \A k \in Keys : own.files.entry[k] = IF k \in tail THEN all.entry[k] ELSE Miss
  BY <1>5 DEF Restricted
<1>7. \A k \in Keys : \/ all.entry[k] = r /\ k \in Members(s)
                      \/ all.entry[k] = entries[r].entry[k]
                      \/ all.entry[k] = FilesOf(read[own_h]).entry[k]
  BY DEF Copy
<1>8. linted'[r] = Members(s) /\ now' = now BY DEF Persist, IInv, TypeInv, TypeOK
<1>15. /\ read \in [Hashes -> Buckets \cup {NoBucket, BadBucket}]
       /\ \A h \in Hashes : BucketFine(linted, now, h, read[h])
  <2>1. read = rulesets \/ read = NoRulesets BY DEF Copy
  <2>2. CASE read = rulesets BY <2>2 DEF IInv, TypeInv, TypeOK
  <2>3. CASE read = NoRulesets BY <2>3, NoRulesetsFine DEF BucketFine
  <2> QED BY <2>1, <2>2, <2>3
<1>9. ASSUME NEW k \in Keys PROVE GenuineIn(linted', own_h, k, own.files.entry[k])
  <2>1. CASE k \notin tail
    BY <1>6, <2>1, LintCacheAssumption DEF GenuineIn
  <2>2. CASE all.entry[k] = r /\ k \in Members(s)
    BY <1>6, <1>8, <2>2, LintCacheAssumption DEF GenuineIn
  <2>3. CASE all.entry[k] = entries[r].entry[k]
    <3>1. GenuineIn(linted, own_h, k, entries[r].entry[k]) BY DEF IInv
    <3>2. entries[r].entry[k] \in Runs \cup {Miss, Bad} BY DEF IInv, TypeInv, TypeOK, Ordered
    <3>3. all.entry[k] \in Runs => HashOf[all.entry[k]] = own_h /\ k \in linted'[all.entry[k]]
      BY <2>3, <3>1 DEF GenuineIn, Grows
    <3> QED BY <1>6, <3>3, LintCacheAssumption DEF GenuineIn
  <2>4. CASE all.entry[k] = FilesOf(read[own_h]).entry[k]
    <3>1. FilesOf(read[own_h]).entry[k] \in Runs => Sound(read[own_h])
      BY LintCacheAssumption DEF FilesOf, Empty
    <3>2. FilesOf(read[own_h]).entry[k] \in Runs =>
            GenuineIn(linted, own_h, k, FilesOf(read[own_h]).entry[k])
      BY <1>1, <1>15, <3>1 DEF BucketFine, FilesOf
    <3>3. all.entry[k] \in Runs => HashOf[all.entry[k]] = own_h /\ k \in linted'[all.entry[k]]
      BY <2>4, <3>2 DEF GenuineIn, Grows
    <3> QED BY <1>6, <3>3, LintCacheAssumption DEF GenuineIn
  <2> QED BY <1>7, <2>1, <2>2, <2>3, <2>4
<1>10. Cardinality(Present(own.files)) <= MaxFileCount BY <1>3 DEF Copy
<1>11. own.updatedAtMs <= now' BY <1>5, <1>8 DEF Grows
<1>12. BucketFine(linted', now', own_h, own) BY <1>9, <1>10, <1>11 DEF BucketFine
<1>13. ASSUME NEW h \in Hashes PROVE BucketFine(linted', now', h, merged'[r][h])
  <2>1. merged'[r][h] = IF h \in newest THEN buckets[h] ELSE NoBucket BY DEF Copy
  <2>2. buckets[h] = IF h = own_h THEN own ELSE read[h] BY DEF Copy
  <2>3. CASE h \in newest /\ h = own_h BY <1>12, <2>1, <2>2, <2>3
  <2>4. CASE h \in newest /\ h # own_h
    <3>1. read[h] \in Buckets \cup {NoBucket, BadBucket} BY <1>15
    <3>2. BucketFine(linted, now, h, read[h]) BY <1>15
    <3>4. \A b \in Buckets \cup {NoBucket, BadBucket} : BucketFine(linted, now, h, b) => BucketFine(linted', now', h, b)
      BY FineStays
    <3>5. merged'[r][h] = read[h] BY <2>1, <2>2, <2>4
    <3> QED BY <3>1, <3>2, <3>4, <3>5
  <2>5. CASE h \notin newest BY <2>1, <2>5 DEF BucketFine, Sound
  <2> QED BY <2>3, <2>4, <2>5
<1>14. ASSUME NEW k \in Members(s) PROVE In(merged'[r], own_h, k) \in {r, Miss}
  <2>1. k \in Keys BY ListLinear
  <2>2. all.entry[k] = r BY <2>1 DEF Copy
  <2>3. own.files.entry[k] \in {r, Miss} BY <1>6, <2>1, <2>2
  <2>4. merged'[r][own_h] = IF own_h \in newest THEN own ELSE NoBucket BY <1>1 DEF Copy
  <2> QED BY <2>3, <2>4 DEF In, Sound
<1> QED BY <1>4, <1>13, <1>14

\* The copy loses nothing but to the caps, and to a read that failed.
LEMMA CopyKeeps ==
  ASSUME IInv, NEW r \in Runs, NEW s \in Batches, Persist(r, s),
         NEW read, NEW all, NEW tail, NEW own, NEW buckets, NEW newest,
         Copy(r, s, read, all, tail, own, buckets, newest)
  PROVE  Keeps(r, rulesets, merged'[r], Stored(r, s), misread')
<1> SUFFICES ASSUME NEW h \in Hashes, NEW k \in Keys,
                    In(rulesets, h, k) \in Runs, In(merged'[r], h, k) = Miss,
                    r \notin misread' \/ (HashOf[r] = h /\ Stored(r, s).entry[k] # Miss)
             PROVE  \/ /\ HashOf[r] = h
                       /\ Sound(merged'[r][h])
                       /\ Cardinality(Present(merged'[r][h].files)) = MaxFileCount
                    \/ /\ ~Sound(merged'[r][h])
                       /\ Cardinality(SoundHashes(merged'[r])) = MaxRulesetCount
                       /\ \A g \in Hashes : Sound(merged'[r][g]) =>
                            merged'[r][g].updatedAtMs >= rulesets[h].updatedAtMs
  BY DEF Keeps
<1>1. Sound(rulesets[h]) /\ rulesets[h].files.entry[k] \in Runs
  BY LintCacheAssumption DEF In
<1>2. rulesets[h] \in Buckets /\ own \in Buckets
  BY <1>1, SoundBuckets DEF Copy, IInv, TypeInv, TypeOK
<1>3. merged'[r][h] = IF h \in newest THEN buckets[h] ELSE NoBucket BY DEF Copy
<1>4. buckets[h] = IF h = HashOf[r] THEN own ELSE rulesets[h]
  BY DEF Copy
<1>9. read = rulesets \/ (HashOf[r] = h /\ Stored(r, s).entry[k] # Miss) BY DEF Copy
<1>5. newest \in Newest(buckets) /\ tail \in Tails(all) BY DEF Copy
<1>6. CASE h \in newest /\ h = HashOf[r]
  <2>1. merged'[r][h] = own /\ Sound(own) BY <1>2, <1>3, <1>4, <1>6, SoundBuckets
  <2>2. own.files.entry[k] = Miss BY <2>1 DEF In
  <2>3. k \notin tail BY <2>2 DEF Copy, Present
  <2>4. k \in Present(FilesOf(rulesets[h]))
    BY <1>1, LintCacheAssumption DEF Present, FilesOf
  <2>8. Present(Stored(r, s)) = Present(entries[r]) \cup Members(s)
    BY StoredLinear DEF IInv, TypeInv, TypeOK
  <2>5. k \in Present(all)
    <3>1. CASE read = rulesets BY <1>6, <2>4, <3>1 DEF Copy
    <3>2. CASE Stored(r, s).entry[k] # Miss BY <2>8, <3>2 DEF Copy, Present
    <3> QED BY <1>9, <3>1, <3>2
  <2>6. Cardinality(tail) = MaxFileCount BY <1>5, <2>3, <2>5, TailCut
  <2>7. Present(own.files) = tail BY DEF Copy
  <2> QED BY <1>6, <2>1, <2>6, <2>7
<1>7. CASE h \in newest /\ h # HashOf[r]
  <2>1. merged'[r][h] = rulesets[h] BY <1>3, <1>4, <1>7
  <2> QED BY <1>1, <2>1, LintCacheAssumption DEF In
<1>8. CASE h \notin newest
  <2>1. Sound(buckets[h]) BY <1>1, <1>2, <1>4, SoundBuckets
  <2>2. /\ Cardinality(newest) = MaxRulesetCount
        /\ \A g \in newest : buckets[g].updatedAtMs >= buckets[h].updatedAtMs
    BY <1>5, <1>8, <2>1, NewestCut
  <2>3. buckets[h].updatedAtMs >= rulesets[h].updatedAtMs
    <3>1. own.updatedAtMs = now BY DEF Copy
    <3>2. rulesets[h].updatedAtMs <= now BY <1>1 DEF IInv, BucketFine
    <3>3. rulesets[h].updatedAtMs \in Int /\ now \in Int
      BY <1>2, LintCacheAssumption DEF Buckets, IInv, TypeInv, TypeOK
    <3> QED BY <1>4, <3>1, <3>2, <3>3
  <2>4. ASSUME NEW g \in Hashes, Sound(merged'[r][g])
        PROVE  merged'[r][g].updatedAtMs >= rulesets[h].updatedAtMs
    <3>1. merged'[r][g] = IF g \in newest THEN buckets[g] ELSE NoBucket BY DEF Copy
    <3>2. g \in newest BY <2>4, <3>1 DEF Sound
    <3>3. buckets \in [Hashes -> Buckets \cup {NoBucket, BadBucket}] BY DEF Copy
    <3>4. buckets[g] \in Buckets /\ buckets[h] \in Buckets
      BY <2>1, <2>4, <3>1, <3>2, <3>3, SoundBuckets
    <3>5. /\ buckets[g].updatedAtMs \in Int /\ buckets[h].updatedAtMs \in Int
          /\ rulesets[h].updatedAtMs \in Int
      BY <1>2, <3>4, LintCacheAssumption DEF Buckets
    <3> QED BY <2>2, <2>3, <3>1, <3>2, <3>5
  <2>5. ~Sound(merged'[r][h]) BY <1>3, <1>8 DEF Sound
  <2>6. SoundHashes(merged'[r]) = newest BY DEF Copy
  <2> QED BY <2>2, <2>4, <2>5, <2>6
<1> QED BY <1>6, <1>7, <1>8

\* Damage leaves nothing in the file that was not there.
LEMMA DamageFine ==
  ASSUME TypeInv, TypeInv', Damage,
         \A h \in Hashes : BucketFine(linted', now', h, rulesets[h]),
         Cardinality(SoundHashes(rulesets)) <= MaxRulesetCount
  PROVE  /\ Cardinality(SoundHashes(rulesets')) <= MaxRulesetCount
         /\ \A h \in Hashes : BucketFine(linted', now', h, rulesets'[h])
<1>1. ASSUME NEW h \in Hashes, Sound(rulesets'[h])
      PROVE  /\ Sound(rulesets[h])
             /\ rulesets'[h].updatedAtMs = rulesets[h].updatedAtMs
             /\ Present(rulesets'[h].files) = Present(rulesets[h].files)
             /\ \A k \in Keys : rulesets'[h].files.entry[k] \in {rulesets[h].files.entry[k], Bad}
  <2>1. CASE rulesets' = NoRulesets BY <1>1, <2>1, NoRulesetsFine
  <2>2. ASSUME NEW g \in Hashes, rulesets' = [rulesets EXCEPT ![g] = BadBucket]
        PROVE  g # h /\ rulesets'[h] = rulesets[h]
    BY <1>1, <2>2 DEF Sound, TypeInv, TypeOK
  <2>3. ASSUME NEW g \in Hashes, Sound(rulesets[g]), NEW k \in Present(rulesets[g].files),
               rulesets' = [rulesets EXCEPT ![g].files.entry[k] = Bad]
        PROVE  /\ Sound(rulesets[h])
               /\ rulesets'[h].updatedAtMs = rulesets[h].updatedAtMs
               /\ Present(rulesets'[h].files) = Present(rulesets[h].files)
               /\ \A j \in Keys : rulesets'[h].files.entry[j] \in {rulesets[h].files.entry[j], Bad}
    <3>1. CASE g # h
      <4>1. rulesets'[h] = rulesets[h] BY <2>3, <3>1 DEF TypeInv, TypeOK
      <4> QED BY <1>1, <4>1
    <3>2. CASE g = h
      <4> DEFINE old == rulesets[h]
      <4>1. old \in Buckets BY <2>3, <3>2, SoundBuckets DEF TypeInv, TypeOK
      <4>2. rulesets'[h] = [old EXCEPT !.files.entry[k] = Bad]
        BY <2>3, <3>2 DEF TypeInv, TypeOK
      <4>3. k \in Keys /\ old.files.entry[k] # Miss BY <2>3, <3>2 DEF Present
      <4>4. /\ rulesets'[h].updatedAtMs = old.updatedAtMs
            /\ rulesets'[h].files.entry = [old.files.entry EXCEPT ![k] = Bad]
        BY <4>1, <4>2 DEF Buckets, Ordered
      <4>5. old.files.entry \in [Keys -> Runs \cup {Miss, Bad}] BY <4>1 DEF Buckets, Ordered
      <4>6. Present(rulesets'[h].files) = Present(old.files)
        BY <4>3, <4>4, <4>5, LintCacheAssumption DEF Present
      <4> QED BY <2>3, <3>2, <4>4, <4>5, <4>6
    <3> QED BY <3>1, <3>2
  <2> QED BY <1>1, <2>1, <2>2, <2>3 DEF Damage
<1>2. ASSUME NEW h \in Hashes PROVE BucketFine(linted', now', h, rulesets'[h])
  <2> SUFFICES ASSUME Sound(rulesets'[h])
               PROVE  /\ \A k \in Keys : GenuineIn(linted', h, k, rulesets'[h].files.entry[k])
                      /\ Cardinality(Present(rulesets'[h].files)) <= MaxFileCount
                      /\ rulesets'[h].updatedAtMs <= now'
    BY DEF BucketFine
  <2>1. BucketFine(linted', now', h, rulesets[h]) OBVIOUS
  <2>2. ASSUME NEW k \in Keys PROVE GenuineIn(linted', h, k, rulesets'[h].files.entry[k])
    BY <1>1, <2>1, LintCacheAssumption DEF BucketFine, GenuineIn
  <2> QED BY <1>1, <2>1, <2>2 DEF BucketFine
<1>3. SoundHashes(rulesets') \subseteq SoundHashes(rulesets) BY <1>1 DEF SoundHashes
<1>4. IsFiniteSet(SoundHashes(rulesets)) BY LintCacheAssumption, FS_Subset DEF SoundHashes
<1>5. /\ Cardinality(SoundHashes(rulesets')) <= Cardinality(SoundHashes(rulesets))
      /\ Cardinality(SoundHashes(rulesets')) \in Nat /\ Cardinality(SoundHashes(rulesets)) \in Nat
  BY <1>3, <1>4, FS_Subset, FS_CardinalityType
<1> QED BY <1>2, <1>5, LintCacheAssumption

\* Every step keeps the invariant.
LEMMA InvStep == IInv /\ [Next]_vars => IInv'
<1> SUFFICES ASSUME IInv, [Next]_vars PROVE IInv' OBVIOUS
<1>1. TypeInv /\ TypeInv' BY TypeStep DEF IInv
<1>2. Grows BY StepGrows
<1>3. /\ \A h \in Hashes, k \in Keys : \A e \in Runs \cup {Miss, Bad} :
           GenuineIn(linted, h, k, e) => GenuineIn(linted', h, k, e)
      /\ \A h \in Hashes : \A bucket \in Buckets \cup {NoBucket, BadBucket} :
           BucketFine(linted, now, h, bucket) => BucketFine(linted', now', h, bucket)
  BY <1>2, FineStays
<1>4. \A h \in Hashes : BucketFine(linted', now', h, rulesets[h])
  BY <1>1, <1>3 DEF IInv, TypeInv, TypeOK
<1>5. \A r \in Runs : phase[r] = "persisting" =>
        \A h \in Hashes : BucketFine(linted', now', h, merged[r][h])
  BY <1>1, <1>3 DEF IInv, CopyFine, TypeInv, TypeOK
<1>6. \A r \in Runs, k \in Keys :
        entries[r].entry[k] # Bad /\ GenuineIn(linted', HashOf[r], k, entries[r].entry[k])
  BY <1>1, <1>3, LintCacheAssumption DEF IInv, TypeInv, TypeOK, Ordered
<1>7. \A k \in Keys : Empty.entry[k] = Miss BY DEF Empty
<1>8. ASSUME NEW q \in Runs, phase'[q] = phase[q], linted'[q] = linted[q], merged'[q] = merged[q],
             entries'[q] = entries[q], q \in misread' <=> q \in misread,
             stale' = Runs \/ (rulesets' = rulesets /\ (q \in stale => q \in stale'))
      PROVE  CopyFine(q)'
  <2> SUFFICES ASSUME phase'[q] = "persisting"
               PROVE  /\ \A h \in Hashes : BucketFine(linted', now', h, merged'[q][h])
                      /\ Cardinality(SoundHashes(merged'[q])) <= MaxRulesetCount
                      /\ \A k \in linted'[q] : In(merged'[q], HashOf[q], k) \in {q, Miss}
                      /\ q \notin stale' => Keeps(q, rulesets', merged'[q], entries'[q], misread')
    BY DEF CopyFine, Keeps, In, SoundHashes
  <2>1. CopyFine(q) BY DEF IInv
  <2> QED BY <1>5, <1>8, <2>1 DEF CopyFine, Keeps
<1>9. ASSUME NEW r \in Runs, Create(r) PROVE IInv'
  <2>1. UNCHANGED <<linted, merged, rulesets, now, damages, stale, misread>> BY <1>9 DEF Create
  <2>2. \A q \in Runs : /\ q # r => phase'[q] = phase[q] /\ entries'[q] = entries[q]
                        /\ q = r => phase[q] = "idle" /\ phase'[q] = "linting"
    BY <1>1, <1>9 DEF Create, TypeInv, TypeOK
  <2>3. \A q \in Runs : CopyFine(q)'
    <3> SUFFICES ASSUME NEW q \in Runs PROVE CopyFine(q)' OBVIOUS
    <3>1. CASE q # r BY <1>8, <2>1, <2>2, <3>1
    <3>2. CASE q = r BY <2>2, <3>2 DEF CopyFine
    <3> QED BY <3>1, <3>2
  <2>4. \A q \in Runs : phase'[q] \in {"idle", "linting"} => linted'[q] = {}
    BY <2>1, <2>2 DEF IInv
  <2>5. ASSUME NEW k \in Keys
        PROVE  entries'[r].entry[k] # Bad /\ GenuineIn(linted', HashOf[r], k, entries'[r].entry[k])
    <3>0. PICK read \in Reads : entries' = [entries EXCEPT ![r] = LoadRulesetEntries(r, read)]
      BY <1>9 DEF Create
    <3> DEFINE files == FilesOf(read[HashOf[r]])
    <3>1. HashOf[r] \in Hashes BY LintCacheAssumption
    <3>2. entries'[r] = LoadRulesetEntries(r, read) BY <1>1, <3>0 DEF TypeInv, TypeOK
    <3>3. entries'[r].entry[k] = IF files.entry[k] \in Runs THEN files.entry[k] ELSE Miss
      BY <3>2 DEF LoadRulesetEntries, Restricted
    <3>4. files.entry[k] \in Runs => Sound(read[HashOf[r]])
      BY <1>7, LintCacheAssumption DEF FilesOf
    <3>6. Sound(read[HashOf[r]]) => read = rulesets
      BY <1>1, <3>1, ReadFine, NoRulesetsFine
    <3>5. files.entry[k] \in Runs => GenuineIn(linted', HashOf[r], k, files.entry[k])
      BY <1>4, <3>1, <3>4, <3>6 DEF BucketFine, FilesOf
    <3> QED BY <3>3, <3>5, LintCacheAssumption DEF GenuineIn
  <2>6. \A q \in Runs, k \in Keys :
          entries'[q].entry[k] # Bad /\ GenuineIn(linted', HashOf[q], k, entries'[q].entry[k])
    BY <1>6, <2>2, <2>5
  <2>7. Cardinality(SoundHashes(rulesets')) <= MaxRulesetCount BY <2>1 DEF IInv
  <2> QED BY <1>1, <1>4, <2>1, <2>3, <2>4, <2>6, <2>7 DEF IInv
<1>10. ASSUME NEW r \in Runs, NEW s \in Batches, Persist(r, s) PROVE IInv'
  <2>1. /\ UNCHANGED <<rulesets, now, damages>> /\ stale' = stale \ {r}
        /\ phase[r] = "linting"
    BY <1>10 DEF Persist
  <2>2. PICK read, all, tail, own, buckets, newest :
          Copy(r, s, read, all, tail, own, buckets, newest)
    BY <1>1, <1>10, PersistCopy
  <2>3. /\ \A h \in Hashes : BucketFine(linted', now', h, merged'[r][h])
        /\ Cardinality(newest) <= MaxRulesetCount
        /\ \A k \in Members(s) : In(merged'[r], HashOf[r], k) \in {r, Miss}
    BY <1>2, <1>10, <2>2, CopyIsFine
  <2>4. Keeps(r, rulesets, merged'[r], Stored(r, s), misread') BY <1>10, <2>2, CopyKeeps
  <2>5. \A q \in Runs : /\ q # r => /\ phase'[q] = phase[q] /\ linted'[q] = linted[q]
                                     /\ entries'[q] = entries[q] /\ merged'[q] = merged[q]
                        /\ q = r => /\ phase'[q] = "persisting" /\ linted'[q] = Members(s)
                                     /\ entries'[q] = Stored(r, s)
    BY <1>1, <1>10, <2>2 DEF Persist, Copy, TypeInv, TypeOK
  <2>6. SoundHashes(merged'[r]) = newest BY <2>2 DEF Copy
  <2>7. CopyFine(r)'
    <3>1. /\ \A h \in Hashes : BucketFine(linted', now', h, merged'[r][h])
          /\ Cardinality(SoundHashes(merged'[r])) <= MaxRulesetCount
          /\ \A k \in linted'[r] : In(merged'[r], HashOf[r], k) \in {r, Miss}
          /\ Keeps(r, rulesets', merged'[r], entries'[r], misread')
      BY <2>1, <2>3, <2>4, <2>5, <2>6
    <3> QED BY <3>1 DEF CopyFine, Keeps, In, SoundHashes
  <2>8. \A q \in Runs : CopyFine(q)'
    <3> SUFFICES ASSUME NEW q \in Runs, q # r PROVE CopyFine(q)' BY <2>7
    <3>1. q \in misread' <=> q \in misread BY <1>10 DEF Persist
    <3> QED BY <1>8, <2>1, <2>5, <3>1
  <2>9. \A q \in Runs : phase'[q] \in {"idle", "linting"} => linted'[q] = {}
    BY <2>5 DEF IInv
  <2>10. ASSUME NEW k \in Keys
         PROVE  entries'[r].entry[k] # Bad /\ GenuineIn(linted', HashOf[r], k, entries'[r].entry[k])
    <3>1. entries'[r].entry[k] = IF k \in Members(s) THEN r ELSE entries[r].entry[k]
      BY <1>1, <2>5, StoredLinear DEF TypeInv, TypeOK
    <3>2. k \in Members(s) => k \in linted'[r] BY <2>5
    <3> QED BY <1>6, <3>1, <3>2, LintCacheAssumption DEF GenuineIn
  <2>11. \A q \in Runs, k \in Keys :
           entries'[q].entry[k] # Bad /\ GenuineIn(linted', HashOf[q], k, entries'[q].entry[k])
    BY <1>6, <2>5, <2>10
  <2>12. Cardinality(SoundHashes(rulesets')) <= MaxRulesetCount BY <2>1 DEF IInv
  <2>13. \A h \in Hashes : BucketFine(linted', now', h, rulesets'[h]) BY <1>4, <2>1
  <2> QED BY <1>1, <2>8, <2>9, <2>11, <2>12, <2>13 DEF IInv
<1>11. ASSUME NEW r \in Runs, End(r), phase[r] \in {"linting", "persisting"},
              linted' = linted, now' = now,
              \/ rulesets' = rulesets /\ stale' = stale
              \/ phase[r] = "persisting" /\ rulesets' = merged[r] /\ stale' = Runs
       PROVE  IInv'
  <2>1. \A q \in Runs :
          /\ q # r => phase'[q] = phase[q] /\ entries'[q] = entries[q] /\ merged'[q] = merged[q]
          /\ q = r => phase'[q] = "ended" /\ entries'[q] = Empty
    BY <1>1, <1>11 DEF End, TypeInv, TypeOK
  <2>2. \A q \in Runs : CopyFine(q)'
    <3> SUFFICES ASSUME NEW q \in Runs PROVE CopyFine(q)' OBVIOUS
    <3>1. CASE q # r
      <4>1. q \in misread' <=> q \in misread BY <1>11, <3>1 DEF End
      <4> QED BY <1>8, <1>11, <2>1, <3>1, <4>1
    <3>2. CASE q = r BY <2>1, <3>2 DEF CopyFine
    <3> QED BY <3>1, <3>2
  <2>3. \A q \in Runs : phase'[q] \in {"idle", "linting"} => linted'[q] = {}
    BY <1>11, <2>1 DEF IInv
  <2>4. \A q \in Runs, k \in Keys :
          entries'[q].entry[k] # Bad /\ GenuineIn(linted', HashOf[q], k, entries'[q].entry[k])
    BY <1>6, <1>7, <2>1, LintCacheAssumption DEF GenuineIn
  <2>5. Cardinality(SoundHashes(rulesets')) <= MaxRulesetCount
    BY <1>11 DEF IInv, CopyFine
  <2>6. \A h \in Hashes : BucketFine(linted', now', h, rulesets'[h]) BY <1>4, <1>5, <1>11
  <2> QED BY <1>1, <2>2, <2>3, <2>4, <2>5, <2>6 DEF IInv
<1>12. ASSUME NEW r \in Runs, Rename(r) \/ GiveUp(r) PROVE IInv'
  BY <1>11, <1>12 DEF Rename, GiveUp
<1>13. CASE Tick \/ UNCHANGED vars
  <2>1. UNCHANGED <<phase, entries, linted, merged, rulesets, damages, stale, misread>>
    BY <1>13 DEF Tick, vars
  <2>2. \A q \in Runs : CopyFine(q)' BY <1>8, <2>1
  <2>3. \A q \in Runs, k \in Keys :
          entries'[q].entry[k] # Bad /\ GenuineIn(linted', HashOf[q], k, entries'[q].entry[k])
    BY <1>6, <2>1
  <2>4. \A q \in Runs : phase'[q] \in {"idle", "linting"} => linted'[q] = {} BY <2>1 DEF IInv
  <2>5. Cardinality(SoundHashes(rulesets')) <= MaxRulesetCount BY <2>1 DEF IInv
  <2> QED BY <1>1, <1>4, <2>1, <2>2, <2>3, <2>4, <2>5 DEF IInv
<1>14. CASE Damage
  <2>1. UNCHANGED <<phase, entries, linted, merged, now, misread>> /\ stale' = Runs BY <1>14 DEF Damage
  <2>2. \A q \in Runs : CopyFine(q)' BY <1>8, <2>1
  <2>3. \A q \in Runs, k \in Keys :
          entries'[q].entry[k] # Bad /\ GenuineIn(linted', HashOf[q], k, entries'[q].entry[k])
    BY <1>6, <2>1
  <2>4. \A q \in Runs : phase'[q] \in {"idle", "linting"} => linted'[q] = {} BY <2>1 DEF IInv
  <2>5. /\ Cardinality(SoundHashes(rulesets')) <= MaxRulesetCount
        /\ \A h \in Hashes : BucketFine(linted', now', h, rulesets'[h])
    BY <1>1, <1>4, <1>14, DamageFine DEF IInv
  <2> QED BY <1>1, <2>1, <2>2, <2>3, <2>4, <2>5 DEF IInv
<1> QED BY <1>9, <1>10, <1>12, <1>13, <1>14 DEF Next

\* A step that takes an entry from the file is the write of a run, and one of
\* the four reasons applies.
LEMMA WorkStep ==
  ASSUME IInv, [Next]_vars, damages' = damages, NEW h \in Hashes, NEW k \in Keys,
         OnDisk(h, k) \in Runs, OnDisk(h, k)' = Miss
  PROVE  \E r \in Runs :
           /\ phase[r] = "persisting" /\ phase'[r] = "ended"
           /\ \/ r \in stale
              \/ r \in misread /\ OutOfSight(r, h, k)
              \/ /\ HashOf[r] = h
                 /\ Sound(rulesets'[h])
                 /\ Cardinality(Present(rulesets'[h].files)) = MaxFileCount
              \/ /\ ~Sound(rulesets'[h])
                 /\ Cardinality({g \in Hashes : Sound(rulesets'[g])}) = MaxRulesetCount
                 /\ \A g \in Hashes : Sound(rulesets'[g]) =>
                      rulesets'[g].updatedAtMs >= rulesets[h].updatedAtMs
<1>1. OnDisk(h, k) = In(rulesets, h, k) /\ OnDisk(h, k)' = In(rulesets', h, k)
  BY DEF OnDisk, In
<1>2. ~(rulesets' = rulesets) BY <1>1, LintCacheAssumption
<1>3. ~Damage BY LintCacheAssumption DEF Damage, IInv, TypeInv, TypeOK
<1>4. PICK r \in Runs : Rename(r)
  BY <1>2, <1>3 DEF Next, Create, Persist, GiveUp, Tick, vars
<1>5. /\ phase[r] = "persisting" /\ phase'[r] = "ended" /\ rulesets' = merged[r]
  BY <1>4 DEF Rename, End, IInv, TypeInv, TypeOK
<1>6. r \in stale \/ Keeps(r, rulesets, merged[r], entries[r], misread) BY <1>5 DEF IInv, CopyFine
<1>7. SoundHashes(merged[r]) = {g \in Hashes : Sound(rulesets'[g])} BY <1>5 DEF SoundHashes
<1> QED BY <1>1, <1>5, <1>6, <1>7 DEF Keeps, OutOfSight

\* A run that writes puts its own verdicts into the file.
LEMMA FreshStep ==
  ASSUME IInv, [Next]_vars, NEW r \in Runs, phase[r] = "persisting", phase'[r] = "ended",
         rulesets' # rulesets, NEW k \in linted[r]
  PROVE  OnDisk(HashOf[r], k)' \in {r, Miss}
<1>1. Rename(r)
  <2>1. ASSUME NEW q \in Runs, Rename(q) PROVE q = r
    BY <2>1 DEF Rename, End, IInv, TypeInv, TypeOK
  <2>2. ~Damage BY DEF Damage
  <2> QED BY <2>1, <2>2 DEF Next, Create, Persist, GiveUp, Tick, vars
<1>2. rulesets' = merged[r] /\ CopyFine(r) BY <1>1 DEF Rename, IInv
<1>3. OnDisk(HashOf[r], k)' = In(merged[r], HashOf[r], k) BY <1>2 DEF OnDisk, In
<1> QED BY <1>2, <1>3 DEF CopyFine

----------------------------------------------------------------------------
(* The theorems *)

\* The invariant holds in every behaviour of the cache.
THEOREM CacheInvariant == Spec => []IInv
BY InitInv, InvStep, PTL DEF Spec

\* Objects stay objects: each key once and in one order (TypeOK).
THEOREM CacheTypeCorrect == Spec => []TypeOK
<1>1. IInv => TypeOK BY DEF IInv, TypeInv
<1> QED BY <1>1, CacheInvariant, PTL

\* An answer of the cache is the verdict of a run of the same ruleset for the
\* same key (AnswersGenuine, loadRulesetEntries and persist).
THEOREM AnswersAreGenuine == Spec => []AnswersGenuine
<1>1. IInv => AnswersGenuine
  BY DEF IInv, AnswersGenuine, BucketFine, Genuine, GenuineIn
<1> QED BY <1>1, CacheInvariant, PTL

\* The file keeps within its caps (CapsHold, the two slices of persist).
THEOREM CapsAlwaysHold == Spec => []CapsHold
<1>1. IInv => CapsHold BY DEF IInv, CapsHold, BucketFine, SoundHashes
<1> QED BY <1>1, CacheInvariant, PTL

\* Persisted work is lost only to the caps, to an overlapping write, to a failed
\* second read, which spares what the run has in memory, and to damage
\* (WorkSurvives, the second read of persist).
THEOREM WorkIsKept == Spec => WorkSurvives
<1>1. IInv /\ [Next]_vars =>
        [damages' = damages =>
           \A h \in Hashes, k \in Keys :
             OnDisk(h, k) \in Runs /\ OnDisk(h, k)' = Miss =>
               \E r \in Runs :
                 /\ phase[r] = "persisting" /\ phase'[r] = "ended"
                 /\ \/ r \in stale
                    \/ r \in misread /\ OutOfSight(r, h, k)
                    \/ /\ HashOf[r] = h
                       /\ Sound(rulesets'[h])
                       /\ Cardinality(Present(rulesets'[h].files)) = MaxFileCount
                    \/ /\ ~Sound(rulesets'[h])
                       /\ Cardinality({g \in Hashes : Sound(rulesets'[g])}) = MaxRulesetCount
                       /\ \A g \in Hashes : Sound(rulesets'[g]) =>
                            rulesets'[g].updatedAtMs >= rulesets[h].updatedAtMs]_vars
  BY WorkStep
<1> QED BY <1>1, CacheInvariant, PTL DEF Spec, WorkSurvives

\* What a run linted is what it writes (FreshVerdictsWin, the merge).
THEOREM FreshVerdictsComeOut == Spec => FreshVerdictsWin
<1>1. IInv /\ [Next]_vars =>
        [\A r \in Runs : phase[r] = "persisting" /\ phase'[r] = "ended" /\ rulesets' # rulesets =>
           \A k \in linted[r] : OnDisk(HashOf[r], k)' \in {r, Miss}]_vars
  BY FreshStep
<1> QED BY <1>1, CacheInvariant, PTL DEF Spec, FreshVerdictsWin

=============================================================================
