--------------------- MODULE NeutralizeDirectivesProofs ---------------------
(***************************************************************************)
(* NeutralizeDirectives, for any number of scans, files and saves: leases  *)
(* are counted exactly, sources come back, an audit scan lints what it can *)
(* read without live directives, and no save outside the scans is lost.    *)
(***************************************************************************)
EXTENDS NeutralizeDirectives, FiniteSetTheorems, TLAPS

\* A scan that has not begun or is over holds nothing; the files it looked at
\* and leased are in its scope.
ScanState ==
  \A s \in Scans :
    /\ leasedPaths[s] \subseteq Scope[s]
    /\ found[s] \subseteq observed[s]
    /\ observed[s] \subseteq Scope[s]
    /\ phase[s] \notin {"discovering", "failed", "linting"} => leasedPaths[s] = {}
    /\ phase[s] # "discovering" => observed[s] = {}

\* Of two overlapping initializations one waits for the other, and for any that
\* has its turn.
TurnsOrdered ==
  \A s, u \in Scans : s # u /\ <<s, u>> \in Overlap =>
    /\ phase[s] = "waiting" /\ phase[u] = "waiting" => s \in blockers[u] \/ u \in blockers[s]
    /\ phase[s] = "discovering" /\ phase[u] = "waiting" => s \in blockers[u]

LeasedAreNeutralized ==
  \A f \in Files \ disturbed : leases[f] # NoLease => disk[f].spelling = "neutralized"

\* A file without a lease is neutralized only because its restoring failed.
OnlyLeasedNeutralized ==
  \A f \in Files : disk[f].spelling = "neutralized" => leases[f] # NoLease \/ f \in unrestored

\* What a discovery saw still holds when it ends: an undisturbed file of its
\* scope that it could read is leased by the scan itself, or by nobody and as it
\* was observed.
DiscoveryHolds ==
  \A s \in Scans : phase[s] = "discovering" =>
    \A f \in Scope[s] \ (disturbed \cup unread[s]) :
      \/ f \in leasedPaths[s]
      \/ /\ leases[f] = NoLease
         /\ f \in observed[s] /\ disk[f].spelling = "live" => f \in found[s]

\* The same, once the scan has leased what it found.
LintingHolds ==
  \A s \in Scans : phase[s] = "linting" =>
    \A f \in Scope[s] \ (disturbed \cup unread[s]) :
      \/ f \in leasedPaths[s]
      \/ leases[f] = NoLease /\ disk[f].spelling # "live"

\* What a lease keeps is a content with live directives.
OriginalsLive == \A f \in Files : leases[f] # NoLease => leases[f].original.spelling = "live"

SavesKept ==
  \A f \in Files :
    /\ disk[f].save >= settled[f]
    /\ leases[f] # NoLease => leases[f].original.save >= settled[f]

LeaseInv ==
  /\ TypeOK /\ ReferenceCountsExact /\ ScanState
  /\ OnlyLeasedNeutralized /\ OriginalsLive /\ SavesKept

AuditInv ==
  TurnsOrdered /\ InitializationsExclusive /\ LeasedAreNeutralized
  /\ DiscoveryHolds /\ LintingHolds

----------------------------------------------------------------------------

\* The scans that hold a lease can be counted.
LEMMA HoldersFinite ==
  ASSUME NEW f \in Files
  PROVE  IsFiniteSet(Holders(f)) /\ Cardinality(Holders(f)) \in Nat
<1>1. Holders(f) \subseteq Scans
  BY DEF Holders
<1>2. QED
  BY <1>1, FS_Subset, FS_CardinalityType, NeutralizeAssumption

\* What leaseCandidatePath does to one file and its holders.
LEMMA LeasingOneFile ==
  ASSUME TypeOK, ReferenceCountsExact, NEW s \in Scans, NEW S \in SUBSET Files,
         LeaseCandidates(s, S), NEW f \in Files
  PROVE  /\ leases'[f] \in Leases \cup {NoLease} /\ disk'[f] \in Contents
         /\ leases'[f] = NoLease <=> Holders(f)' = {}
         /\ leases'[f] # NoLease => leases'[f].referenceCount = Cardinality(Holders(f)')
         /\ f \in S /\ (leases[f] # NoLease \/ disk[f].spelling = "live") => s \in Holders(f)'
         /\ \/ UNCHANGED <<leases[f], disk[f], Holders(f)>>
            \/ /\ f \in S /\ leases[f] # NoLease /\ leases'[f] # NoLease
               /\ Holders(f)' = Holders(f) \cup {s} /\ disk'[f] = disk[f]
               /\ leases'[f].original = leases[f].original
            \/ /\ f \in S /\ leases[f] = NoLease /\ disk[f].spelling = "live"
               /\ Holders(f)' = {s} /\ leases'[f] # NoLease
               /\ leases'[f].original = disk[f]
               /\ disk'[f].spelling = "neutralized" /\ disk'[f].save = disk[f].save
<1> DEFINE fresh == S \ leasedPaths[s]
           adopted == {g \in fresh : leases[g] # NoLease}
           rewritten == {g \in fresh \ adopted : Neutralized(disk[g]) # disk[g]}
<1>1. /\ leasedPaths' = [leasedPaths EXCEPT ![s] = @ \cup adopted \cup rewritten]
      /\ leases' = [g \in Files |->
           IF g \in adopted
           THEN [leases[g] EXCEPT !.referenceCount = leases[g].referenceCount + 1]
           ELSE IF g \in rewritten THEN [original |-> disk[g], referenceCount |-> 1]
           ELSE leases[g]]
      /\ disk' = [g \in Files |-> IF g \in rewritten THEN Neutralized(disk[g]) ELSE disk[g]]
  BY DEF LeaseCandidates
<1>2. /\ disk[f] \in Contents /\ leases[f] \in Leases \cup {NoLease} /\ NoLease \notin Leases
      /\ leases[f] = NoLease <=> Holders(f) = {}
      /\ leases[f] # NoLease => leases[f].referenceCount = Cardinality(Holders(f))
      /\ leasedPaths \in [Scans -> SUBSET Files]
  BY NeutralizeAssumption DEF TypeOK, ReferenceCountsExact
<1>3. IsFiniteSet(Holders(f)) /\ Cardinality(Holders(f)) \in Nat
  BY HoldersFinite
<1>4. CASE f \in adopted
  <2>1. f \in S /\ leases[f] # NoLease /\ s \notin Holders(f) /\ leases[f] \in Leases
    BY <1>4, <1>2 DEF Holders
  <2>2. Holders(f)' = Holders(f) \cup {s}
    BY <1>1, <1>2, <1>4 DEF Holders
  <2>3. Cardinality(Holders(f)') = Cardinality(Holders(f)) + 1
    BY <2>1, <2>2, <1>3, FS_AddElement
  <2>4. leases'[f] = [leases[f] EXCEPT !.referenceCount = leases[f].referenceCount + 1]
    BY <1>1, <1>4
  <2>5. /\ leases'[f] \in Leases
        /\ leases'[f].referenceCount = leases[f].referenceCount + 1
        /\ leases'[f].original = leases[f].original
    BY <2>1, <2>4 DEF Leases
  <2>6. disk'[f] = disk[f]
    BY <1>1, <1>4
  <2>7. QED
    BY <2>1, <2>2, <2>3, <2>5, <2>6, <1>2
<1>5. CASE f \in rewritten
  <2>1. f \in S /\ leases[f] = NoLease /\ Holders(f) = {}
    BY <1>5, <1>2
  <2>2. disk[f].spelling = "live" /\ Neutralized(disk[f]) = [disk[f] EXCEPT !.spelling = "neutralized"]
    BY <1>5 DEF Neutralized
  <2>3. disk'[f] = [disk[f] EXCEPT !.spelling = "neutralized"]
    BY <1>1, <1>5, <2>2
  <2>4. disk'[f] \in Contents /\ disk'[f].spelling = "neutralized" /\ disk'[f].save = disk[f].save
    BY <2>3, <1>2 DEF Contents, Spellings
  <2>5. leases'[f] = [original |-> disk[f], referenceCount |-> 1]
    BY <1>1, <1>5
  <2>6. leases'[f] \in Leases /\ leases'[f].original = disk[f] /\ leases'[f].referenceCount = 1
    BY <2>5, <1>2 DEF Leases
  <2>7. Holders(f)' = {s}
    BY <1>1, <1>2, <1>5, <2>1 DEF Holders
  <2>8. Cardinality(Holders(f)') = 1
    BY <2>7, FS_Singleton
  <2>9. QED
    BY <2>1, <2>2, <2>4, <2>6, <2>7, <2>8, <1>2
<1>6. CASE f \notin adopted \cup rewritten
  <2>1. leases'[f] = leases[f] /\ disk'[f] = disk[f]
    BY <1>1, <1>6
  <2>2. Holders(f)' = Holders(f)
    BY <1>1, <1>2, <1>6 DEF Holders
  <2>3. f \in S /\ leases[f] # NoLease => s \in Holders(f)
    BY <1>6 DEF Holders
  <2>4. f \in S /\ leases[f] = NoLease => disk[f].spelling # "live"
    <3>1. disk[f].spelling = "live" => Neutralized(disk[f]).spelling = "neutralized"
      BY <1>2 DEF Neutralized, Contents, Spellings
    <3>2. f \in S /\ leases[f] = NoLease => f \in fresh
      BY <1>2 DEF Holders
    <3>3. QED
      BY <3>1, <3>2, <1>6
  <2>5. QED
    BY <2>1, <2>2, <2>3, <2>4, <1>2
<1>7. QED
  BY <1>4, <1>5, <1>6

\* What restore does to one file and its holders.
LEMMA RestoringOneFile ==
  ASSUME TypeOK, ReferenceCountsExact, NEW s \in Scans, Restore(s), NEW f \in Files
  PROVE  /\ leases'[f] \in Leases \cup {NoLease} /\ disk'[f] \in Contents
         /\ leases'[f] = NoLease <=> Holders(f)' = {}
         /\ leases'[f] # NoLease => leases'[f].referenceCount = Cardinality(Holders(f)')
         /\ Holders(f)' = Holders(f) \ {s}
         /\ \/ UNCHANGED <<leases[f], disk[f]>>
            \/ /\ leases[f] # NoLease /\ leases'[f] # NoLease
               /\ disk'[f] = disk[f] /\ leases'[f].original = leases[f].original
            \/ /\ s \in Holders(f) /\ leases[f] # NoLease /\ leases'[f] = NoLease
               /\ \/ disk'[f] = leases[f].original
                  \/ disk'[f] = disk[f] /\ f \in unrestored'
<1> DEFINE given == {g \in leasedPaths[s] : leases[g] # NoLease}
           last == {g \in given : leases[g].referenceCount <= 1}
<1>1. PICK failing \in SUBSET last :
        /\ unrestored' = unrestored \cup failing
        /\ disk' = [g \in Files |-> IF g \in last \ failing THEN leases[g].original ELSE disk[g]]
  BY DEF Restore
<1>2. /\ leasedPaths' = [leasedPaths EXCEPT ![s] = {}]
      /\ leases' = [g \in Files |->
           IF g \in last THEN NoLease
           ELSE IF g \in given
           THEN [leases[g] EXCEPT !.referenceCount = leases[g].referenceCount - 1]
           ELSE leases[g]]
  BY DEF Restore
<1>3. /\ disk[f] \in Contents /\ leases[f] \in Leases \cup {NoLease} /\ NoLease \notin Leases
      /\ leases[f] = NoLease <=> Holders(f) = {}
      /\ leases[f] # NoLease => leases[f].referenceCount = Cardinality(Holders(f))
      /\ leasedPaths \in [Scans -> SUBSET Files]
  BY NeutralizeAssumption DEF TypeOK, ReferenceCountsExact
<1>4. IsFiniteSet(Holders(f)) /\ Cardinality(Holders(f)) \in Nat
  BY HoldersFinite
<1>5. Holders(f)' = Holders(f) \ {s}
  BY <1>2, <1>3 DEF Holders
<1>6. CASE s \notin Holders(f)
  <2>1. f \notin given
    BY <1>6 DEF Holders
  <2>2. leases'[f] = leases[f] /\ disk'[f] = disk[f] /\ Holders(f)' = Holders(f)
    BY <2>1, <1>1, <1>2, <1>5, <1>6
  <2>3. QED
    BY <2>2, <1>3, <1>5
<1>7. CASE s \in Holders(f)
  <2>1. leases[f] # NoLease /\ leases[f] \in Leases /\ f \in given
    BY <1>7, <1>3 DEF Holders
  <2>2. /\ Cardinality(Holders(f)') = Cardinality(Holders(f)) - 1
        /\ IsFiniteSet(Holders(f)') /\ Cardinality(Holders(f)') \in Nat
    BY <1>5, <1>4, <1>7, FS_RemoveElement, FS_CardinalityType
  <2>3. Cardinality(Holders(f)') = 0 <=> Holders(f)' = {}
    BY <2>2, FS_EmptySet
  <2>4. CASE f \in last
    <3>1. leases'[f] = NoLease
      BY <2>4, <1>2
    <3>2. Holders(f)' = {}
      BY <2>4, <2>1, <2>2, <2>3, <1>3, <1>4
    <3>3. disk'[f] = leases[f].original \/ (disk'[f] = disk[f] /\ f \in unrestored')
      BY <1>1, <2>4
    <3>4. disk'[f] \in Contents
      BY <3>3, <2>1, <1>3 DEF Leases
    <3>5. QED
      BY <3>1, <3>2, <3>3, <3>4, <1>5, <1>7, <2>1
  <2>5. CASE f \notin last
    <3>1. leases'[f] = [leases[f] EXCEPT !.referenceCount = leases[f].referenceCount - 1]
      BY <2>5, <2>1, <1>2
    <3>2. leases[f].referenceCount > 1
      BY <2>5, <2>1, <1>3, <1>4
    <3>3. /\ leases'[f] \in Leases /\ leases'[f].original = leases[f].original
          /\ leases'[f].referenceCount = leases[f].referenceCount - 1
      BY <3>1, <3>2, <2>1 DEF Leases
    <3>4. disk'[f] = disk[f]
      BY <2>5, <1>1
    <3>5. Holders(f)' # {}
      BY <3>2, <2>1, <2>2, <2>3, <1>3
    <3>6. QED
      BY <3>3, <3>4, <3>5, <2>1, <2>2, <1>3, <1>5
  <2>6. QED
    BY <2>4, <2>5
<1>8. QED
  BY <1>6, <1>7

----------------------------------------------------------------------------
(* The leases: counted exactly, and every source restored. *)

\* Before the first scan nothing is leased.
LEMMA LeaseInvInit == Init => LeaseInv
<1> SUFFICES ASSUME Init PROVE LeaseInv
  OBVIOUS
<1> USE DEF Init
<1>1. TypeOK
  <2>1. MaxEdits \in Nat /\ 0 \in 0..MaxEdits
    BY NeutralizeAssumption
  <2>2. \A sp \in {"live", "none"} : [save |-> 0, spelling |-> sp] \in Contents
    BY <2>1 DEF Contents, Spellings
  <2>3. disk \in [Files -> Contents]
    BY <2>2
  <2>4. settled \in [Files -> 0..MaxEdits]
    BY <2>1
  <2>5. QED
    BY <2>3, <2>4 DEF TypeOK, Phases
<1>2. \A f \in Files : Holders(f) = {}
  BY DEF Holders
<1>3. ReferenceCountsExact
  BY <1>2 DEF ReferenceCountsExact
<1>4. ScanState /\ OnlyLeasedNeutralized /\ OriginalsLive /\ SavesKept
  <2>1. \A f \in Files : disk[f].save = 0 /\ disk[f].spelling # "neutralized"
    OBVIOUS
  <2>2. QED
    BY <2>1 DEF ScanState, OnlyLeasedNeutralized, OriginalsLive, SavesKept
<1>5. QED
  BY <1>1, <1>3, <1>4 DEF LeaseInv

\* The files that are leased when some cannot be read, and those passed over.
LEMMA LeasingWhatIsRead ==
  ASSUME TypeOK, NEW s \in Scans, NEW S \in SUBSET Scope[s], LeaseReadable(s, S)
  PROVE  \E R \in SUBSET S :
           /\ LeaseCandidates(s, R)
           /\ unread' \in [Scans -> SUBSET Files]
           /\ \A u \in Scans \ {s} : unread'[u] = unread[u]
           /\ unread[s] \subseteq unread'[s]
           /\ S \ unread'[s] \subseteq R
<1>1. PICK failing \in SUBSET S :
        /\ LeaseCandidates(s, S \ failing)
        /\ unread' = [unread EXCEPT ![s] = @ \cup failing]
  BY DEF LeaseReadable
<1>2. S \subseteq Files /\ unread \in [Scans -> SUBSET Files]
  BY NeutralizeAssumption DEF TypeOK
<1>3. QED
  BY <1>1, <1>2

\* A step that leases: the scan is active before and after it, and no save
\* happens in it.
LEMMA LeasingKeepsLeaseInv ==
  ASSUME LeaseInv, NEW s \in Scans, NEW S \in SUBSET Scope[s], LeaseCandidates(s, S),
         phase[s] \in {"waiting", "discovering"},
         NEW next \in {"discovering", "failed", "linting"},
         phase' = [phase EXCEPT ![s] = next],
         blockers' \in [Scans -> SUBSET Scans],
         next = "discovering" =>
           observed' = observed /\ found' = found,
         next # "discovering" =>
           /\ observed' = [observed EXCEPT ![s] = {}] /\ found' = [found EXCEPT ![s] = {}],
         unread' \in [Scans -> SUBSET Files],
         UNCHANGED <<exited, history>>
  PROVE  LeaseInv'
<1>1. /\ TypeOK /\ ReferenceCountsExact /\ ScanState
      /\ OnlyLeasedNeutralized /\ OriginalsLive /\ SavesKept
  BY DEF LeaseInv
<1>2. S \in SUBSET Files
  BY NeutralizeAssumption
<1>3. \A f \in Files :
        /\ leases'[f] \in Leases \cup {NoLease} /\ disk'[f] \in Contents
        /\ leases'[f] = NoLease <=> Holders(f)' = {}
        /\ leases'[f] # NoLease => leases'[f].referenceCount = Cardinality(Holders(f)')
        /\ \/ UNCHANGED <<leases[f], disk[f], Holders(f)>>
           \/ /\ f \in S /\ leases[f] # NoLease /\ leases'[f] # NoLease
              /\ Holders(f)' = Holders(f) \cup {s} /\ disk'[f] = disk[f]
              /\ leases'[f].original = leases[f].original
           \/ /\ f \in S /\ leases[f] = NoLease /\ disk[f].spelling = "live"
              /\ Holders(f)' = {s} /\ leases'[f] # NoLease
              /\ leases'[f].original = disk[f]
              /\ disk'[f].spelling = "neutralized" /\ disk'[f].save = disk[f].save
  BY <1>1, <1>2, LeasingOneFile
<1>4. /\ leases' \in [Files -> Leases \cup {NoLease}] /\ disk' \in [Files -> Contents]
      /\ leasedPaths' \in [Scans -> SUBSET Files]
      /\ \A u \in Scans \ {s} : leasedPaths'[u] = leasedPaths[u]
      /\ leasedPaths'[s] \subseteq leasedPaths[s] \cup S
  <2>1. leasedPaths \in [Scans -> SUBSET Files]
    BY <1>1 DEF TypeOK
  <2>2. /\ leases' \in [Files -> Leases \cup {NoLease}] /\ disk' \in [Files -> Contents]
    BY <1>3 DEF LeaseCandidates
  <2>3. QED
    BY <2>1, <2>2, <1>2 DEF LeaseCandidates
<1>5. TypeOK'
  BY <1>1, <1>4 DEF TypeOK, Phases, history
<1>6. ReferenceCountsExact'
  <2>1. ASSUME NEW f \in Files PROVE Holders(f)' \subseteq Covering(f)'
    <3>1. Holders(f) \subseteq Covering(f) /\ Holders(f)' \subseteq Holders(f) \cup {s}
      BY <1>1, <1>3 DEF ReferenceCountsExact
    <3>2. Covering(f) \subseteq Covering(f)'
      BY <1>1 DEF Covering, Active, TypeOK
    <3>3. s \in Holders(f)' => s \in Covering(f)'
      BY <1>1, <1>4 DEF Holders, Covering, Active, TypeOK, ScanState
    <3>4. QED
      BY <3>1, <3>2, <3>3
  <2>2. QED
    BY <1>3, <2>1 DEF ReferenceCountsExact
<1>7. ScanState'
  BY <1>1, <1>4 DEF ScanState, TypeOK
<1>8. OnlyLeasedNeutralized'
  BY <1>1, <1>3 DEF OnlyLeasedNeutralized, history
<1>9. OriginalsLive' /\ SavesKept'
  BY <1>1, <1>3 DEF OriginalsLive, SavesKept, history
<1>10. QED
  BY <1>5, <1>6, <1>7, <1>8, <1>9 DEF LeaseInv

\* A step that restores: the scan is active before it and over after it.
LEMMA RestoringKeepsLeaseInv ==
  ASSUME LeaseInv, NEW s \in Scans, Restore(s), Forget(s), s \in Active,
         phase' = [phase EXCEPT ![s] = "ended"],
         blockers' \in [Scans -> SUBSET Scans],
         \/ observed' = observed /\ found' = found /\ phase[s] # "discovering"
         \/ /\ observed' = [observed EXCEPT ![s] = {}] /\ found' = [found EXCEPT ![s] = {}],
         exited' \in BOOLEAN, settled' = settled
  PROVE  LeaseInv'
<1>1. /\ TypeOK /\ ReferenceCountsExact /\ ScanState
      /\ OnlyLeasedNeutralized /\ OriginalsLive /\ SavesKept
  BY DEF LeaseInv
<1>2. \A f \in Files :
        /\ leases'[f] \in Leases \cup {NoLease} /\ disk'[f] \in Contents
        /\ leases'[f] = NoLease <=> Holders(f)' = {}
        /\ leases'[f] # NoLease => leases'[f].referenceCount = Cardinality(Holders(f)')
        /\ Holders(f)' = Holders(f) \ {s}
        /\ \/ UNCHANGED <<leases[f], disk[f]>>
           \/ /\ leases[f] # NoLease /\ leases'[f] # NoLease
              /\ disk'[f] = disk[f] /\ leases'[f].original = leases[f].original
           \/ /\ s \in Holders(f) /\ leases[f] # NoLease /\ leases'[f] = NoLease
              /\ \/ disk'[f] = leases[f].original
                 \/ disk'[f] = disk[f] /\ f \in unrestored'
  BY <1>1, RestoringOneFile
<1>3. /\ leases' \in [Files -> Leases \cup {NoLease}] /\ disk' \in [Files -> Contents]
      /\ leasedPaths' \in [Scans -> SUBSET Files]
      /\ leasedPaths'[s] = {} /\ \A u \in Scans \ {s} : leasedPaths'[u] = leasedPaths[u]
      /\ unrestored \subseteq unrestored' /\ unrestored' \subseteq Files
  <2>1. leasedPaths \in [Scans -> SUBSET Files] /\ unrestored \subseteq Files
    BY <1>1 DEF TypeOK
  <2>2. QED
    BY <2>1, <1>2 DEF Restore
<1>4. TypeOK'
  BY <1>1, <1>3 DEF TypeOK, Phases, Forget
<1>5. ReferenceCountsExact'
  <2>1. ASSUME NEW f \in Files PROVE Holders(f)' \subseteq Covering(f)'
    <3>1. Holders(f)' \subseteq Covering(f) \ {s}
      BY <1>1, <1>2 DEF ReferenceCountsExact
    <3>2. Covering(f) \ {s} \subseteq Covering(f)'
      BY <1>1 DEF Covering, Active, TypeOK
    <3>3. QED
      BY <3>1, <3>2
  <2>2. QED
    BY <1>2, <2>1 DEF ReferenceCountsExact
<1>6. ScanState'
  BY <1>1, <1>3 DEF ScanState, TypeOK
<1>7. OnlyLeasedNeutralized'
  BY <1>1, <1>2, <1>3 DEF OnlyLeasedNeutralized, OriginalsLive
<1>8. OriginalsLive' /\ SavesKept'
  BY <1>1, <1>2 DEF OriginalsLive, SavesKept
<1>9. QED
  BY <1>4, <1>5, <1>6, <1>7, <1>8 DEF LeaseInv

\* No step breaks the counting of the leases or loses an original.
LEMMA LeaseInvNext == LeaseInv /\ [Next]_vars => LeaseInv'
<1> SUFFICES ASSUME LeaseInv, [Next]_vars PROVE LeaseInv'
  OBVIOUS
<1>a. /\ TypeOK /\ ReferenceCountsExact /\ ScanState
      /\ OnlyLeasedNeutralized /\ OriginalsLive /\ SavesKept
  BY DEF LeaseInv
<1> USE DEF vars, scanVars, fileVars, history
<1>1. ASSUME NEW s \in Scans, Begin(s) PROVE LeaseInv'
  <2>1. UNCHANGED <<observed, found, unread, leasedPaths, leases, disk, exited, unrestored, disturbed,
                    settled>>
    BY <1>1 DEF Begin
  <2>2. phase' = [phase EXCEPT ![s] = "waiting"] /\ phase[s] = "idle"
    BY <1>1 DEF Begin
  <2>3. blockers' \in [Scans -> SUBSET Scans]
    BY <1>1, <1>a DEF Begin, BlockersOf, Initializing, TypeOK
  <2>4. TypeOK'
    BY <2>1, <2>2, <2>3, <1>a DEF TypeOK, Phases
  <2>5. ReferenceCountsExact'
    BY <2>1, <2>2, <1>a DEF ReferenceCountsExact, Holders, Covering, Active, TypeOK
  <2>6. ScanState' /\ OnlyLeasedNeutralized' /\ OriginalsLive' /\ SavesKept'
    BY <2>1, <2>2, <1>a DEF ScanState, OnlyLeasedNeutralized, OriginalsLive, SavesKept, TypeOK
  <2>7. QED
    BY <2>4, <2>5, <2>6 DEF LeaseInv
<1>2. ASSUME NEW s \in Scans, Adopt(s) PROVE LeaseInv'
  <2>1. blockers' \in [Scans -> SUBSET Scans]
    BY <1>2, <1>a DEF Adopt, TypeOK
  <2>2. PICK R \in SUBSET Scope[s] : LeaseCandidates(s, R) /\ unread' \in [Scans -> SUBSET Files]
    BY <1>2, <1>a, LeasingWhatIsRead DEF Adopt
  <2>3. QED
    BY <1>2, <2>1, <2>2, LeasingKeepsLeaseInv DEF Adopt
<1>3. ASSUME NEW s \in Scans, NEW f \in Files, Observe(s, f) PROVE LeaseInv'
  <2>1. UNCHANGED <<phase, blockers, leasedPaths, leases, disk, exited, unrestored, disturbed, settled>>
    BY <1>3 DEF Observe
  <2>2. /\ observed' = [observed EXCEPT ![s] = @ \cup {f}] /\ f \in Scope[s]
        /\ found' = found \/ found' = [found EXCEPT ![s] = @ \cup {f}]
        /\ unread' = unread \/ unread' = [unread EXCEPT ![s] = @ \cup ({f} \ leasedPaths[s])]
        /\ phase[s] = "discovering"
    BY <1>3, <1>a DEF Observe, TypeOK
  <2>3. TypeOK' /\ ScanState'
    BY <2>1, <2>2, <1>a DEF TypeOK, ScanState
  <2>4. ReferenceCountsExact' /\ OnlyLeasedNeutralized' /\ OriginalsLive' /\ SavesKept'
    BY <2>1, <1>a DEF ReferenceCountsExact, Holders, Covering, Active, OnlyLeasedNeutralized,
                      OriginalsLive, SavesKept
  <2>5. QED
    BY <2>3, <2>4 DEF LeaseInv
<1>4. ASSUME NEW s \in Scans, Lease(s) PROVE LeaseInv'
  <2>1. Candidates(s) \in SUBSET Scope[s]
    BY <1>a DEF Candidates, ScanState
  <2>2. blockers' \in [Scans -> SUBSET Scans]
    BY <1>4, <1>a DEF Lease, TypeOK
  <2>3. PICK R \in SUBSET Scope[s] : LeaseCandidates(s, R) /\ unread' \in [Scans -> SUBSET Files]
    BY <1>4, <1>a, <2>1, LeasingWhatIsRead DEF Lease
  <2>4. QED
    BY <1>4, <2>2, <2>3, LeasingKeepsLeaseInv DEF Lease, Unlock
<1>5. ASSUME NEW s \in Scans, InitializationFails(s) PROVE LeaseInv'
  <2>1. Candidates(s) \in SUBSET Scope[s]
    BY <1>a DEF Candidates, ScanState
  <2>2. blockers' \in [Scans -> SUBSET Scans]
    BY <1>5, <1>a DEF InitializationFails, TypeOK
  <2>3. unread' \in [Scans -> SUBSET Files]
    BY <1>5, <1>a DEF InitializationFails, TypeOK
  <2>4. QED
    BY <1>5, <2>1, <2>2, <2>3, LeasingKeepsLeaseInv DEF InitializationFails, Unlock
<1>6. ASSUME NEW s \in Scans, EndScan(s) PROVE LeaseInv'
  <2>1. blockers' \in [Scans -> SUBSET Scans] /\ exited' \in BOOLEAN
    BY <1>6, <1>a DEF EndScan, TypeOK
  <2>2. s \in Active
    BY <1>6 DEF EndScan, Active
  <2>3. QED
    BY <1>6, <2>1, <2>2, RestoringKeepsLeaseInv DEF EndScan
<1>7. ASSUME NEW s \in Scans, ExitListener(s) PROVE LeaseInv'
  <2>1. blockers' \in [Scans -> SUBSET Scans] /\ exited' \in BOOLEAN
    BY <1>7, <1>a DEF ExitListener, TypeOK
  <2>2. QED
    BY <1>7, <2>1, RestoringKeepsLeaseInv DEF ExitListener, Unlock
<1>8. CASE Exit
  BY <1>8, <1>a DEF Exit, LeaseInv, TypeOK, ReferenceCountsExact, Holders, Covering, Active,
                    ScanState, OnlyLeasedNeutralized, OriginalsLive, SavesKept
<1>9. ASSUME NEW f \in Files, Save(f) PROVE LeaseInv'
  <2>1. PICK spelling \in {"live", "none"} :
          disk' = [disk EXCEPT ![f] = [save |-> disk[f].save + 1, spelling |-> spelling]]
    BY <1>9 DEF Save
  <2>2. disk[f].save < MaxEdits /\ disk[f] \in Contents /\ MaxEdits \in Nat
    BY <1>9, <1>a, NeutralizeAssumption DEF Save, TypeOK
  <2>3. /\ UNCHANGED <<scanVars, leasedPaths, leases, exited>>
        /\ unrestored' = unrestored \ {f}
        /\ \/ /\ Covering(f) = {} /\ disturbed' = disturbed
              /\ settled' = [settled EXCEPT ![f] = disk[f].save + 1]
           \/ disturbed' = disturbed \cup {f} /\ settled' = settled
    BY <1>9 DEF Save
  <2>4. disk[f].save \in 0..MaxEdits /\ disk[f].save + 1 \in 0..MaxEdits
    BY <2>2 DEF Contents
  <2>5. disk' \in [Files -> Contents]
    BY <2>1, <2>4, <1>a DEF TypeOK, Contents, Spellings
  <2>6. settled' \in [Files -> 0..MaxEdits]
    BY <2>3, <2>4, <1>a DEF TypeOK
  <2>7. TypeOK'
    BY <2>3, <2>5, <2>6, <1>a DEF TypeOK
  <2>8. ReferenceCountsExact' /\ ScanState' /\ OriginalsLive'
    BY <2>3, <1>a DEF ReferenceCountsExact, Holders, Covering, Active, ScanState, OriginalsLive
  <2>9. OnlyLeasedNeutralized'
    BY <2>1, <2>3, <1>a DEF OnlyLeasedNeutralized, TypeOK
  <2>10. SavesKept'
    <3>1. Covering(f) = {} => leases[f] = NoLease
      BY <1>a DEF ReferenceCountsExact
    <3>2. \A g \in Files : settled[g] \in Int /\ disk[g].save \in Int
      BY <1>a, NeutralizeAssumption DEF TypeOK, Contents
    <3>3. QED
      BY <2>1, <2>3, <2>4, <3>1, <3>2, <1>a DEF SavesKept, TypeOK
  <2>11. QED
    BY <2>7, <2>8, <2>9, <2>10 DEF LeaseInv
<1>10. CASE UNCHANGED vars
  BY <1>10, <1>a DEF LeaseInv, TypeOK, ReferenceCountsExact, Holders, Covering, Active,
                     ScanState, OnlyLeasedNeutralized, OriginalsLive, SavesKept
<1>11. QED
  BY <1>1, <1>2, <1>3, <1>4, <1>5, <1>6, <1>7, <1>8, <1>9, <1>10 DEF Next

\* The counting holds throughout.
LEMMA LeasesInvariant == Spec => []LeaseInv
  BY LeaseInvInit, LeaseInvNext, PTL DEF Spec

\* The module is type correct.
THEOREM TypeCorrect == Spec => []TypeOK
<1>1. LeaseInv => TypeOK
  BY DEF LeaseInv
<1>2. QED
  BY <1>1, LeasesInvariant, PTL

\* A lease lives exactly as long as some running scan holds it.
THEOREM LeasesAreCounted == Spec => []ReferenceCountsExact
<1>1. LeaseInv => ReferenceCountsExact
  BY DEF LeaseInv
<1>2. QED
  BY <1>1, LeasesInvariant, PTL

\* The user's sources come back, on every way out of a scan and at exit.
THEOREM SourcesComeBack == Spec => []SourcesRestored
<1>1. LeaseInv => SourcesRestored
  BY DEF LeaseInv, OnlyLeasedNeutralized, SourcesRestored, ReferenceCountsExact, Covering
<1>2. QED
  BY <1>1, LeasesInvariant, PTL

\* A save that no scan could know of is never overwritten by an older content.
THEOREM SavesSurvive == Spec => []SavesOutsideScansSurvive
<1>1. LeaseInv => SavesOutsideScansSurvive
  BY DEF LeaseInv, SavesKept, SavesOutsideScansSurvive
<1>2. QED
  BY <1>1, LeasesInvariant, PTL

----------------------------------------------------------------------------
(* The audit: no scan lints a file with live directives. *)

\* Before the first scan nobody initializes or lints.
LEMMA AuditInvInit == Init => AuditInv
  BY DEF Init, AuditInv, TurnsOrdered, InitializationsExclusive, LeasedAreNeutralized,
         DiscoveryHolds, LintingHolds

\* Overlapping initializations take turns, whatever the step.
LEMMA TurnsNext ==
  ASSUME LeaseInv, TurnsOrdered, InitializationsExclusive, [Next]_vars
  PROVE  TurnsOrdered' /\ InitializationsExclusive'
<1>a. TypeOK
  BY DEF LeaseInv
<1>b. \A s, u \in Scans : <<s, u>> \in Overlap => <<u, s>> \in Overlap
  BY NeutralizeAssumption
<1> USE DEF TurnsOrdered, InitializationsExclusive
<1>1. ASSUME NEW s \in Scans, Begin(s) PROVE TurnsOrdered' /\ InitializationsExclusive'
  <2>1. /\ phase[s] = "idle" /\ phase' = [phase EXCEPT ![s] = "waiting"]
        /\ blockers' = [blockers EXCEPT ![s] = BlockersOf(s)]
    BY <1>1 DEF Begin
  <2>2. \A u \in Scans : <<s, u>> \in Overlap /\ phase[u] \in {"waiting", "discovering"}
                            => u \in BlockersOf(s)
    BY DEF BlockersOf, Initializing
  <2>3. QED
    BY <2>1, <2>2, <1>a, <1>b DEF TypeOK
<1>2. ASSUME NEW s \in Scans, Adopt(s) PROVE TurnsOrdered' /\ InitializationsExclusive'
  <2>1. /\ phase[s] = "waiting" /\ phase' = [phase EXCEPT ![s] = "discovering"]
        /\ blockers' = [blockers EXCEPT ![s] = {}]
    BY <1>2 DEF Adopt
  <2>2. \A u \in blockers[s] : phase[u] \notin {"waiting", "discovering"}
    BY <1>2, <1>a DEF Adopt, Initializing, TypeOK
  <2>3. QED
    BY <2>1, <2>2, <1>a, <1>b DEF TypeOK
<1>3. ASSUME NEW s \in Scans, Lease(s) \/ InitializationFails(s)
      PROVE  TurnsOrdered' /\ InitializationsExclusive'
  <2>1. /\ \E next \in {"failed", "linting"} : phase' = [phase EXCEPT ![s] = next]
        /\ blockers' = blockers
    BY <1>3 DEF Lease, InitializationFails, Unlock
  <2>2. QED
    BY <2>1, <1>a DEF TypeOK
<1>4. ASSUME NEW s \in Scans, EndScan(s) \/ ExitListener(s)
      PROVE  TurnsOrdered' /\ InitializationsExclusive'
  <2>1. /\ phase' = [phase EXCEPT ![s] = "ended"]
        /\ \A u \in Scans \ {s} : blockers'[u] = blockers[u]
    BY <1>4, <1>a DEF EndScan, ExitListener, Unlock, TypeOK
  <2>2. QED
    BY <2>1, <1>a DEF TypeOK
<1>5. CASE \/ \E s \in Scans, f \in Files : Observe(s, f)
           \/ Exit
           \/ \E f \in Files : Save(f)
           \/ UNCHANGED vars
  BY <1>5 DEF Observe, Exit, Save, vars, scanVars, fileVars
<1>6. QED
  BY <1>1, <1>2, <1>3, <1>4, <1>5 DEF Next

\* A step that leases.  A file that nobody holds is rewritten only by the
\* discovery that has its turn, so no other scan on it is discovering.
LEMMA LeasingKeepsAudit ==
  ASSUME LeaseInv, AuditInv, NEW s \in Scans, NEW S \in SUBSET Scope[s],
         LeaseCandidates(s, S), disturbed' = disturbed,
         \A u \in Scans \ {s} : unread'[u] = unread[u],
         unread[s] \subseteq unread'[s],
         \/ /\ \A f \in S : leases[f] # NoLease
            /\ phase' = [phase EXCEPT ![s] = "discovering"] /\ phase[s] = "waiting"
            /\ {f \in Scope[s] : leases[f] # NoLease} \ unread'[s] \subseteq S
            /\ observed' = observed /\ found' = found
         \/ /\ phase[s] = "discovering" /\ phase' = [phase EXCEPT ![s] = "failed"]
            /\ observed' = [observed EXCEPT ![s] = {}] /\ found' = [found EXCEPT ![s] = {}]
         \/ /\ phase[s] = "discovering" /\ phase' = [phase EXCEPT ![s] = "linting"]
            /\ observed[s] = Scope[s] /\ Candidates(s) \ unread'[s] \subseteq S
            /\ observed' = [observed EXCEPT ![s] = {}] /\ found' = [found EXCEPT ![s] = {}]
  PROVE  LeasedAreNeutralized' /\ DiscoveryHolds' /\ LintingHolds'
<1>a. TypeOK /\ ReferenceCountsExact /\ ScanState /\ OnlyLeasedNeutralized
  BY DEF LeaseInv
<1>b. /\ InitializationsExclusive /\ LeasedAreNeutralized
      /\ DiscoveryHolds /\ LintingHolds
  BY DEF AuditInv
<1>c. S \in SUBSET Files
  BY NeutralizeAssumption
<1>1. \A f \in Files :
        /\ leases'[f] = NoLease <=> Holders(f)' = {}
        /\ f \in S /\ (leases[f] # NoLease \/ disk[f].spelling = "live") => s \in Holders(f)'
        /\ \/ UNCHANGED <<leases[f], disk[f], Holders(f)>>
           \/ /\ f \in S /\ leases[f] # NoLease /\ leases'[f] # NoLease
              /\ Holders(f)' = Holders(f) \cup {s} /\ disk'[f] = disk[f]
           \/ /\ f \in S /\ leases[f] = NoLease /\ disk[f].spelling = "live"
              /\ Holders(f)' = {s} /\ leases'[f] # NoLease
              /\ disk'[f].spelling = "neutralized"
  BY <1>a, <1>c, LeasingOneFile
<1>2. \A u \in Scans, f \in Files :
        /\ f \in leasedPaths[u] <=> u \in Holders(f)
        /\ f \in leasedPaths'[u] <=> u \in Holders(f)'
  BY DEF Holders
<1>3. \A u \in Scans : Scope[u] \subseteq Files
  BY NeutralizeAssumption
<1>4. LeasedAreNeutralized'
  BY <1>1, <1>b DEF LeasedAreNeutralized
<1>5. ASSUME NEW u \in Scans, u # s, phase[u] = "discovering", phase[s] = "discovering"
      PROVE  Scope[u] \cap S = {}
  BY <1>5, <1>b, NeutralizeAssumption DEF InitializationsExclusive
<1>6. DiscoveryHolds'
  <2> SUFFICES ASSUME NEW u \in Scans, phase'[u] = "discovering",
                      NEW f \in Scope[u] \ (disturbed \cup unread'[u])
               PROVE  \/ f \in leasedPaths'[u]
                      \/ /\ leases'[f] = NoLease
                         /\ f \in observed'[u] /\ disk'[f].spelling = "live" => f \in found'[u]
    BY DEF DiscoveryHolds
  <2>1. CASE u # s
    <3>1. phase[u] = "discovering" /\ observed'[u] = observed[u] /\ found'[u] = found[u]
      BY <2>1, <1>a DEF TypeOK
    <3>2. f \in Files
      BY <1>3
    <3>3. QED
      BY <2>1, <3>1, <3>2, <1>1, <1>2, <1>5, <1>b DEF DiscoveryHolds
  <2>2. CASE u = s
    <3>1. /\ phase[s] = "waiting" /\ observed' = observed
          /\ leases[f] # NoLease => f \in S
          /\ \A g \in S : leases[g] # NoLease
      BY <2>2, <1>a DEF TypeOK
    <3>2. observed[s] = {}
      BY <3>1, <1>a DEF ScanState
    <3>3. f \in Files
      BY <1>3
    <3>4. QED
      BY <2>2, <3>1, <3>2, <3>3, <1>1, <1>2
  <2>3. QED
    BY <2>1, <2>2
<1>7. LintingHolds'
  <2> SUFFICES ASSUME NEW u \in Scans, phase'[u] = "linting",
                      NEW f \in Scope[u] \ (disturbed \cup unread'[u])
               PROVE  \/ f \in leasedPaths'[u]
                      \/ leases'[f] = NoLease /\ disk'[f].spelling # "live"
    BY DEF LintingHolds
  <2>0. f \in Files
    BY <1>3
  <2>1. CASE u # s
    <3>1. phase[u] = "linting"
      BY <2>1, <1>a DEF TypeOK
    <3>2. u \in Holders(f) => leases[f] # NoLease
      BY <2>0, <1>a DEF ReferenceCountsExact
    <3>3. QED
      BY <2>0, <2>1, <3>1, <3>2, <1>1, <1>2, <1>b DEF LintingHolds
  <2>2. CASE u = s
    <3>1. /\ phase[s] = "discovering" /\ observed[s] = Scope[s]
          /\ f \notin unread[s] /\ (f \in Candidates(s) => f \in S)
      BY <2>2, <1>a DEF TypeOK
    <3>2. f \in leasedPaths[s] \/ (leases[f] = NoLease /\ (disk[f].spelling = "live" => f \in S))
      BY <2>2, <3>1, <1>b DEF DiscoveryHolds, Candidates
    <3>3. QED
      BY <2>0, <2>2, <3>2, <1>1, <1>2
  <2>3. QED
    BY <2>1, <2>2
<1>8. QED
  BY <1>4, <1>6, <1>7

\* A step that restores: a file another scan is on either keeps its lease or
\* was not leased at all.
LEMMA RestoringKeepsAudit ==
  ASSUME LeaseInv, AuditInv, NEW s \in Scans, Restore(s), Forget(s),
         phase' = [phase EXCEPT ![s] = "ended"],
         \A u \in Scans \ {s} :
           observed'[u] = observed[u] /\ found'[u] = found[u] /\ unread'[u] = unread[u]
  PROVE  LeasedAreNeutralized' /\ DiscoveryHolds' /\ LintingHolds'
<1>a. TypeOK /\ ReferenceCountsExact
  BY DEF LeaseInv
<1>b. LeasedAreNeutralized /\ DiscoveryHolds /\ LintingHolds
  BY DEF AuditInv
<1>1. \A f \in Files :
        /\ leases'[f] = NoLease <=> Holders(f)' = {}
        /\ Holders(f)' = Holders(f) \ {s}
        /\ \/ UNCHANGED <<leases[f], disk[f]>>
           \/ /\ leases[f] # NoLease /\ leases'[f] # NoLease /\ disk'[f] = disk[f]
           \/ leases[f] # NoLease /\ leases'[f] = NoLease
  BY <1>a, RestoringOneFile
<1>2. \A u \in Scans, f \in Files :
        /\ f \in leasedPaths[u] <=> u \in Holders(f)
        /\ f \in leasedPaths'[u] <=> u \in Holders(f)'
  BY DEF Holders
<1>3. \A f \in Files \ disturbed' : f \in disturbed => Covering(f) \ {s} = {}
  BY DEF Forget
<1>4. LeasedAreNeutralized'
  <2>1. \A f \in Files \ disturbed' : leases'[f] # NoLease => f \notin disturbed
    BY <1>1, <1>3, <1>a DEF ReferenceCountsExact
  <2>2. QED
    BY <2>1, <1>1, <1>b DEF LeasedAreNeutralized
<1>5. ASSUME NEW u \in Scans, u # s, phase[u] \in {"discovering", "linting"},
             NEW f \in Scope[u] \ (disturbed' \cup unread'[u])
      PROVE  f \in Files \ (disturbed \cup unread[u])
  <2>1. f \in Files
    BY NeutralizeAssumption
  <2>2. u \in Covering(f) \ {s}
    BY <1>5 DEF Covering, Active
  <2>3. f \notin unread[u]
    BY <1>5
  <2>4. QED
    BY <2>1, <2>2, <2>3, <1>3
<1>6. \A u \in Scans : phase'[u] \in {"discovering", "linting"} => u # s /\ phase'[u] = phase[u]
  BY <1>a DEF TypeOK
<1>7. DiscoveryHolds'
  BY <1>1, <1>2, <1>5, <1>6, <1>b DEF DiscoveryHolds
<1>8. LintingHolds'
  BY <1>1, <1>2, <1>5, <1>6, <1>b DEF LintingHolds
<1>9. QED
  BY <1>4, <1>7, <1>8

\* No step lets a live directive back into a file that a scan lints.
LEMMA AuditInvNext == LeaseInv /\ AuditInv /\ [Next]_vars => AuditInv'
<1> SUFFICES ASSUME LeaseInv, AuditInv, [Next]_vars
             PROVE  LeasedAreNeutralized' /\ DiscoveryHolds' /\ LintingHolds'
  BY TurnsNext DEF AuditInv
<1>a. TypeOK /\ ReferenceCountsExact /\ ScanState
  BY DEF LeaseInv
<1>b. LeasedAreNeutralized /\ DiscoveryHolds /\ LintingHolds
  BY DEF AuditInv
<1> USE DEF vars, scanVars, fileVars, history
<1>1. ASSUME NEW s \in Scans, Begin(s)
      PROVE  LeasedAreNeutralized' /\ DiscoveryHolds' /\ LintingHolds'
  <2>1. /\ UNCHANGED <<observed, found, unread, leasedPaths, leases, disk, disturbed>>
        /\ phase' = [phase EXCEPT ![s] = "waiting"]
    BY <1>1 DEF Begin
  <2>2. QED
    BY <2>1, <1>a, <1>b DEF LeasedAreNeutralized, DiscoveryHolds, LintingHolds, TypeOK
<1>2. ASSUME NEW s \in Scans, Adopt(s)
      PROVE  LeasedAreNeutralized' /\ DiscoveryHolds' /\ LintingHolds'
  <2> DEFINE adoptable == {f \in Scope[s] : leases[f] # NoLease}
  <2>1. PICK R \in SUBSET adoptable :
          /\ LeaseCandidates(s, R)
          /\ \A u \in Scans \ {s} : unread'[u] = unread[u]
          /\ unread[s] \subseteq unread'[s]
          /\ adoptable \ unread'[s] \subseteq R
    BY <1>2, <1>a, LeasingWhatIsRead DEF Adopt
  <2>2. R \in SUBSET Scope[s] /\ \A f \in R : leases[f] # NoLease
    BY <2>1
  <2>3. QED
    BY <1>2, <2>1, <2>2, LeasingKeepsAudit DEF Adopt
<1>3. ASSUME NEW s \in Scans, NEW f \in Files, Observe(s, f)
      PROVE  LeasedAreNeutralized' /\ DiscoveryHolds' /\ LintingHolds'
  <2>1. /\ UNCHANGED <<phase, leasedPaths, leases, disk, disturbed>>
        /\ phase[s] = "discovering"
        /\ observed' = [observed EXCEPT ![s] = @ \cup {f}]
        /\ \/ /\ found' = [found EXCEPT ![s] = IF disk[f].spelling = "live" THEN @ \cup {f} ELSE @]
              /\ unread' = unread
           \/ /\ found' = found
              /\ unread' = [unread EXCEPT ![s] = @ \cup ({f} \ leasedPaths[s])]
    BY <1>3 DEF Observe
  <2>2. LeasedAreNeutralized' /\ LintingHolds'
    BY <2>1, <1>a, <1>b DEF LeasedAreNeutralized, LintingHolds, TypeOK
  <2>3. DiscoveryHolds'
    BY <2>1, <1>a, <1>b DEF DiscoveryHolds, TypeOK
  <2>4. QED
    BY <2>2, <2>3
<1>4. ASSUME NEW s \in Scans, Lease(s)
      PROVE  LeasedAreNeutralized' /\ DiscoveryHolds' /\ LintingHolds'
  <2>1. Candidates(s) \in SUBSET Scope[s]
    BY <1>a DEF Candidates, ScanState
  <2>2. PICK R \in SUBSET Candidates(s) :
          /\ LeaseCandidates(s, R)
          /\ \A u \in Scans \ {s} : unread'[u] = unread[u]
          /\ unread[s] \subseteq unread'[s]
          /\ Candidates(s) \ unread'[s] \subseteq R
    BY <1>4, <1>a, <2>1, LeasingWhatIsRead DEF Lease
  <2>3. R \in SUBSET Scope[s]
    BY <2>1, <2>2
  <2>4. QED
    BY <1>4, <2>2, <2>3, LeasingKeepsAudit DEF Lease, Unlock
<1>5. ASSUME NEW s \in Scans, InitializationFails(s)
      PROVE  LeasedAreNeutralized' /\ DiscoveryHolds' /\ LintingHolds'
  <2>1. Candidates(s) \in SUBSET Scope[s]
    BY <1>a DEF Candidates, ScanState
  <2>2. QED
    BY <1>5, <2>1, LeasingKeepsAudit DEF InitializationFails, Unlock
<1>6. ASSUME NEW s \in Scans, EndScan(s) \/ ExitListener(s)
      PROVE  LeasedAreNeutralized' /\ DiscoveryHolds' /\ LintingHolds'
  <2>1. \A u \in Scans \ {s} :
          observed'[u] = observed[u] /\ found'[u] = found[u] /\ unread'[u] = unread[u]
    BY <1>6, <1>a DEF EndScan, ExitListener, Forget, Unlock, TypeOK
  <2>2. QED
    BY <1>6, <2>1, RestoringKeepsAudit DEF EndScan, ExitListener, Unlock
<1>7. ASSUME NEW f \in Files, Save(f)
      PROVE  LeasedAreNeutralized' /\ DiscoveryHolds' /\ LintingHolds'
  <2>1. /\ UNCHANGED <<phase, observed, found, unread, leasedPaths, leases>>
        /\ \A g \in Files \ {f} : disk'[g] = disk[g]
        /\ disturbed' = IF Covering(f) = {} THEN disturbed ELSE disturbed \cup {f}
    BY <1>7, <1>a DEF Save, TypeOK
  <2>2. Covering(f) = {} => leases[f] = NoLease
    BY <1>a DEF ReferenceCountsExact
  <2>3. \A s \in Scans : phase[s] \in {"discovering", "linting"} /\ f \in Scope[s] => Covering(f) # {}
    BY DEF Covering, Active
  <2>4. \A s \in Scans : Scope[s] \subseteq Files
    BY NeutralizeAssumption
  <2>5. QED
    BY <2>1, <2>2, <2>3, <2>4, <1>b DEF LeasedAreNeutralized, DiscoveryHolds, LintingHolds
<1>8. CASE Exit \/ UNCHANGED vars
  BY <1>8, <1>b DEF Exit, LeasedAreNeutralized, DiscoveryHolds, LintingHolds
<1>9. QED
  BY <1>1, <1>2, <1>3, <1>4, <1>5, <1>6, <1>7, <1>8 DEF Next

\* What a discovery saw stays true throughout.
LEMMA AuditInvariant == Spec => [](LeaseInv /\ AuditInv)
  BY LeaseInvInit, LeaseInvNext, AuditInvInit, AuditInvNext, PTL DEF Spec

\* Overlapping scans never initialize at once.
THEOREM InitializationsTakeTurns == Spec => []InitializationsExclusive
<1>1. AuditInv => InitializationsExclusive
  BY DEF AuditInv
<1>2. QED
  BY <1>1, AuditInvariant, PTL

\* An audit scan never lints a file of its scope with live directives, unless
\* the user saved it meanwhile or this very scan could not read it.
THEOREM AuditSeesEverything == Spec => []LintSeesNoDirective
<1>1. LeaseInv /\ AuditInv => LintSeesNoDirective
  <2> SUFFICES ASSUME LeaseInv, AuditInv, NEW s \in Scans, phase[s] = "linting",
                      NEW f \in Scope[s] \ (disturbed \cup unread[s])
               PROVE  disk[f].spelling # "live"
    BY DEF LintSeesNoDirective
  <2>1. f \in Files \ disturbed
    BY NeutralizeAssumption
  <2>2. f \in leasedPaths[s] => leases[f] # NoLease
    BY <2>1 DEF LeaseInv, ReferenceCountsExact, Holders
  <2>3. QED
    BY <2>1, <2>2 DEF AuditInv, LintingHolds, LeasedAreNeutralized
<1>2. QED
  BY <1>1, AuditInvariant, PTL

----------------------------------------------------------------------------
(* The initialization lock cannot block itself. *)

\* Nobody waits for a scan that has not begun, and however many initializations
\* are under way, in any group of them one waits for no other of the group.
BlockersAcyclic ==
  /\ \A s \in Scans : phase[s] = "idle" => \A u \in Scans : s \notin blockers[u]
  /\ \A S \in SUBSET Initializing :
       S # {} => \E s \in S : blockers[s] \cap S = {}

\* While any initialization is under way, one is at work or may be: no circle of
\* scans waits for each other in withOverlappingInitializationLock.
SomeTurnIsDue ==
  Initializing # {} =>
    \E s \in Initializing :
      phase[s] = "discovering" \/ blockers[s] \cap Initializing = {}

\* A step that begins no initialization and adds no blocker closes no circle.
LEMMA FewerBlockers ==
  ASSUME BlockersAcyclic, Initializing' \subseteq Initializing,
         \A s \in Scans : phase'[s] = "idle" => phase[s] = "idle",
         \A s \in Scans : blockers'[s] \subseteq blockers[s]
  PROVE  BlockersAcyclic'
<1>1. \A s \in Scans : phase'[s] = "idle" => \A u \in Scans : s \notin blockers'[u]
  BY DEF BlockersAcyclic
<1>2. ASSUME NEW S \in SUBSET Initializing', S # {}
      PROVE  \E s \in S : blockers'[s] \cap S = {}
  <2>1. S \in SUBSET Initializing
    OBVIOUS
  <2>2. PICK s \in S : blockers[s] \cap S = {}
    BY <1>2, <2>1 DEF BlockersAcyclic
  <2>3. s \in Scans
    BY <2>1, <2>2 DEF Initializing
  <2>4. QED
    BY <2>2, <2>3
<1>3. QED
  BY <1>1, <1>2 DEF BlockersAcyclic

\* A scan that begins waits for others, and none of them for it.
LEMMA BeginningClosesNoCircle ==
  ASSUME LeaseInv, BlockersAcyclic, NEW s \in Scans, Begin(s)
  PROVE  BlockersAcyclic'
<1>a. phase \in [Scans -> Phases] /\ blockers \in [Scans -> SUBSET Scans]
  BY DEF LeaseInv, TypeOK
<1>b. phase[s] = "idle" /\ phase' = [phase EXCEPT ![s] = "waiting"]
  BY DEF Begin
<1>c. /\ blockers'[s] \subseteq Initializing
      /\ \A u \in Scans \ {s} : blockers'[u] = blockers[u]
  BY <1>a DEF Begin, BlockersOf
<1>d. s \notin Initializing /\ Initializing' = Initializing \cup {s}
  BY <1>a, <1>b DEF Initializing
<1>e. \A u \in Scans : s \notin blockers'[u]
  BY <1>b, <1>c, <1>d DEF BlockersAcyclic
<1>1. ASSUME NEW r \in Scans, phase'[r] = "idle", NEW u \in Scans
      PROVE  r \notin blockers'[u]
  <2>1. phase[r] = "idle" /\ r # s
    BY <1>a, <1>b, <1>1
  <2>2. r \notin Initializing
    BY <2>1 DEF Initializing
  <2>3. QED
    BY <1>c, <2>1, <2>2 DEF BlockersAcyclic
<1>2. ASSUME NEW S \in SUBSET Initializing', S # {}
      PROVE  \E u \in S : blockers'[u] \cap S = {}
  <2>1. CASE S = {s}
    BY <1>e, <2>1
  <2>2. CASE S # {s}
    <3>1. S \ {s} \in SUBSET Initializing /\ S \ {s} # {}
      BY <1>d, <1>2, <2>2
    <3>2. PICK u \in S \ {s} : blockers[u] \cap (S \ {s}) = {}
      BY <3>1 DEF BlockersAcyclic
    <3>3. u \in Scans \ {s}
      BY <3>1, <3>2 DEF Initializing
    <3>4. blockers'[u] \cap S = {}
      BY <1>c, <1>e, <3>2, <3>3
    <3>5. QED
      BY <3>2, <3>4
  <2>3. QED
    BY <2>1, <2>2
<1>3. QED
  BY <1>1, <1>2 DEF BlockersAcyclic

\* No step closes a circle.
LEMMA BlockersStayAcyclic == LeaseInv /\ BlockersAcyclic /\ [Next]_vars => BlockersAcyclic'
<1> SUFFICES ASSUME LeaseInv, BlockersAcyclic, [Next]_vars PROVE BlockersAcyclic'
  OBVIOUS
<1>a. phase \in [Scans -> Phases] /\ blockers \in [Scans -> SUBSET Scans]
  BY DEF LeaseInv, TypeOK
<1> USE DEF vars, scanVars
<1>1. ASSUME NEW s \in Scans, Begin(s) PROVE BlockersAcyclic'
  BY <1>1, BeginningClosesNoCircle
<1>2. ASSUME NEW s \in Scans, Adopt(s) PROVE BlockersAcyclic'
  <2>1. /\ phase' = [phase EXCEPT ![s] = "discovering"] /\ phase[s] = "waiting"
        /\ blockers' = [blockers EXCEPT ![s] = {}]
    BY <1>2 DEF Adopt
  <2>2. Initializing' \subseteq Initializing
    BY <1>a, <2>1 DEF Initializing
  <2>3. QED
    BY <1>a, <2>1, <2>2, FewerBlockers
<1>3. ASSUME NEW s \in Scans, NEW next \in {"linting", "failed", "ended"},
             phase' = [phase EXCEPT ![s] = next],
             blockers' = blockers \/ blockers' = [blockers EXCEPT ![s] = {}],
             phase[s] # "idle"
      PROVE  BlockersAcyclic'
  <2>1. Initializing' \subseteq Initializing
    BY <1>a, <1>3 DEF Initializing
  <2>2. QED
    BY <1>a, <1>3, <2>1, FewerBlockers
<1>4. ASSUME NEW s \in Scans, Lease(s) \/ InitializationFails(s) PROVE BlockersAcyclic'
  BY <1>3, <1>4 DEF Lease, InitializationFails, Unlock
<1>5. ASSUME NEW s \in Scans, EndScan(s) PROVE BlockersAcyclic'
  BY <1>3, <1>5 DEF EndScan
<1>6. ASSUME NEW s \in Scans, ExitListener(s) PROVE BlockersAcyclic'
  BY <1>3, <1>6 DEF ExitListener, Unlock, Active
<1>7. ASSUME UNCHANGED <<phase, blockers>> PROVE BlockersAcyclic'
  BY <1>7 DEF BlockersAcyclic, Initializing
<1>8. QED
  BY <1>1, <1>2, <1>4, <1>5, <1>6, <1>7 DEF Next, Observe, Exit, Save

\* Scans never wait for each other in a circle: while initializations are under
\* way there is one that no other holds up.
THEOREM NoCircleOfWaiters == Spec => []SomeTurnIsDue
<1>1. Init => BlockersAcyclic
  BY DEF Init, BlockersAcyclic, Initializing
<1>2. BlockersAcyclic => SomeTurnIsDue
  BY DEF BlockersAcyclic, SomeTurnIsDue
<1>3. QED
  BY <1>1, <1>2, LeaseInvInit, LeaseInvNext, BlockersStayAcyclic, PTL DEF Spec

=============================================================================
