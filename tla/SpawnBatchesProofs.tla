------------------------- MODULE SpawnBatchesProofs -------------------------
(***************************************************************************)
(* SpawnBatches, for any batches, any number of workers and any depth cap: *)
(* every file of the scan is accounted for exactly once, the sources that  *)
(* are told as analyzed were linted, and every split halves.               *)
(***************************************************************************)
EXTENDS SpawnBatches, FiniteSetTheorems, WellFoundedInduction, TLAPS

\* The phases agree with the pass they belong to.
PassAgrees ==
  /\ \A b \in Batches : b >= nextIndex => phase[b] = "todo"
  /\ \A b \in Batches : phase[b] = "settled" => work[b] = {}
  /\ stage \in {"rescue", "done"} => \A b \in Batches : phase[b] = "settled"
  /\ stage = "failed" => InFlight = {}

\* The rescue works on files that the pass has dropped.
RescueAgrees ==
  /\ stage \in {"main", "replay"} => rescuedFiles = {}
  /\ stage # "rescue" => rescueFile = NoFile
  /\ rescueSpawned => rescueFile # NoFile
  /\ rescuedFiles \subseteq linted
  /\ stage # "done" => oomDroppedFiles \subseteq droppedFiles
  /\ stage = "rescue" => rescueLeft \subseteq droppedFiles
  /\ rescueFile # NoFile => rescueFile \in droppedFiles

BatchesIInv == TypeOK /\ PassAgrees /\ RescueAgrees /\ EveryFileOnce /\ AnalyzedAreLinted

----------------------------------------------------------------------------

\* Both halves together are the piece, and they share no file.
LEMMA HalvesPartition ==
  ASSUME NEW p, NEW q \in Halves(p)
  PROVE  /\ q.files \subseteq p.files
         /\ q.depth = p.depth + 1
         /\ UNION {r.files : r \in Halves(p)} = p.files
         /\ \A r \in Halves(p) : r # q => r.files \cap q.files = {}
<1> DEFINE low == FirstHalf(p.files)
           high == p.files \ FirstHalf(p.files)
<1>1. low \subseteq p.files
  BY DEF FirstHalf
<1>2. Halves(p) = {[files |-> low, depth |-> p.depth + 1], [files |-> high, depth |-> p.depth + 1]}
  BY DEF Halves, Piece
<1> HIDE DEF low
<1>3. {r.files : r \in Halves(p)} = {low, p.files \ low}
  BY <1>2 DEF low
<1>4. QED
  BY <1>1, <1>2, <1>3 DEF low

\* The assumption, in the form that the proofs below use it.
LEMMA FilesAreNat ==
  /\ Files \subseteq Nat /\ NoFile \notin Files
  /\ \A b \in Batches : FileBatches[b] \subseteq Files /\ IsFiniteSet(FileBatches[b])
  /\ \A b, c \in Batches : b # c => FileBatches[b] \cap FileBatches[c] = {}
<1>1. FileBatches \in Seq(SUBSET Nat)
  BY SpawnBatchesAssumption
<1>2. \A b \in Batches : FileBatches[b] \subseteq Nat
  BY <1>1 DEF Batches
<1>3. QED
  BY <1>2, SpawnBatchesAssumption DEF Files

\* The files on display can be counted.
LEMMA FilesFinite == IsFiniteSet(Files)
<1>1. Len(FileBatches) \in Nat
  BY SpawnBatchesAssumption
<1>2. IsFiniteSet(Batches)
  BY <1>1, FS_Interval DEF Batches
<1> DEFINE all == {FileBatches[b] : b \in Batches}
           nth == [b \in Batches |-> FileBatches[b]]
<1>3. nth \in Surjection(Batches, all)
  BY DEF Surjection
<1> HIDE DEF nth
<1>4. IsFiniteSet(all)
  BY <1>2, <1>3, FS_Surjection
<1>5. \A batch \in all : IsFiniteSet(batch)
  BY SpawnBatchesAssumption
<1>6. QED
  BY <1>4, <1>5, FS_UNION DEF Files

\* A piece of a batch moves to one of the three outcomes: every file is still
\* accounted for once.
LEMMA DecidingKeepsOnce ==
  ASSUME TypeOK, EveryFileOnce, NEW b \in Batches, NEW p \in work[b], phase[b] # "todo",
         work' = [work EXCEPT ![b] = @ \ {p}], phase' = [phase EXCEPT ![b] = "ready"],
         \/ /\ linted' = linted \cup p.files
            /\ StillDropped' = StillDropped /\ deadlineSkippedFiles' = deadlineSkippedFiles
         \/ /\ StillDropped' = StillDropped \cup p.files
            /\ linted' = linted /\ deadlineSkippedFiles' = deadlineSkippedFiles
         \/ /\ deadlineSkippedFiles' = deadlineSkippedFiles \cup p.files
            /\ linted' = linted /\ StillDropped' = StillDropped
  PROVE  EveryFileOnce'
<1> DEFINE decided == linted \cup StillDropped \cup deadlineSkippedFiles
<1>1. p.files \subseteq FileBatches[b]
  BY DEF TypeOK
<1>2. /\ linted \cap StillDropped = {} /\ linted \cap deadlineSkippedFiles = {}
      /\ StillDropped \cap deadlineSkippedFiles = {}
      /\ \A c \in Batches : FileBatches[c] \cap decided = FileBatches[c] \ Undecided(c)
      /\ \A c \in Batches : \A q, r \in work[c] : q # r => q.files \cap r.files = {}
  BY DEF EveryFileOnce
<1>3. Undecided(b) = UNION {q.files : q \in work[b]}
  BY DEF Undecided
<1>4. p.files \cap decided = {}
  BY <1>1, <1>2, <1>3
<1>5. decided' = decided \cup p.files
  OBVIOUS
<1>6. /\ linted' \cap StillDropped' = {} /\ linted' \cap deadlineSkippedFiles' = {}
      /\ StillDropped' \cap deadlineSkippedFiles' = {}
  BY <1>2, <1>4
<1>7. ASSUME NEW c \in Batches
      PROVE  /\ FileBatches[c] \cap decided' = FileBatches[c] \ Undecided(c)'
             /\ \A q, r \in work'[c] : q # r => q.files \cap r.files = {}
  <2>1. CASE c # b
    <3>1. work'[c] = work[c] /\ phase'[c] = phase[c] /\ FileBatches[c] \cap FileBatches[b] = {}
      BY <2>1, FilesAreNat DEF TypeOK
    <3>2. Undecided(c)' = Undecided(c)
      BY <3>1 DEF Undecided
    <3>3. FileBatches[c] \cap p.files = {}
      BY <1>1, <3>1
    <3>4. QED
      BY <1>2, <1>5, <3>1, <3>2, <3>3
  <2>2. CASE c = b
    <3>1. work'[b] = work[b] \ {p} /\ phase'[b] = "ready"
      BY DEF TypeOK
    <3>2. Undecided(b)' = UNION {q.files : q \in work[b] \ {p}}
      BY <3>1 DEF Undecided
    <3>3. Undecided(b)' = Undecided(b) \ p.files
      BY <3>2, <1>2, <1>3
    <3>4. QED
      BY <2>2, <1>1, <1>2, <1>5, <3>1, <3>3
  <2>3. QED
    BY <2>1, <2>2
<1>8. QED
  BY <1>6, <1>7 DEF EveryFileOnce

----------------------------------------------------------------------------

\* A batch is in flight only in a pass.
LEMMA InFlightInPass ==
  ASSUME TypeOK, PassAgrees, NEW b \in InFlight
  PROVE  /\ stage \in {"main", "replay"}
         /\ b \in Batches /\ b < nextIndex /\ phase[b] \in {"ready", "queued", "spawned"}
<1>1. b \in Batches /\ phase[b] \in {"ready", "queued", "spawned"}
  BY DEF InFlight
<1>2. stage \notin {"rescue", "done", "failed"}
  BY <1>1 DEF PassAgrees
<1>3. ~(b >= nextIndex)
  BY <1>1 DEF PassAgrees
<1>4. Len(FileBatches) \in Nat
  BY SpawnBatchesAssumption
<1>5. b \in Nat /\ nextIndex \in Nat
  BY <1>1, <1>4 DEF Batches, TypeOK
<1>6. QED
  BY <1>1, <1>2, <1>3, <1>5 DEF TypeOK

\* A worker takes a batch.
LEMMA StartBatchKeeps ==
  ASSUME BatchesIInv, NEW b \in Batches, StartBatch(b)
  PROVE  BatchesIInv'
<1>a. TypeOK /\ PassAgrees /\ RescueAgrees /\ EveryFileOnce /\ AnalyzedAreLinted
  BY DEF BatchesIInv
<1>0. /\ UNCHANGED <<stage, fileVars, rescueVars, analyzedFiles>>
      /\ stage \in {"main", "replay"} /\ b = nextIndex /\ nextIndex' = b + 1
      /\ phase' = [phase EXCEPT ![b] = "ready"]
      /\ work' = [work EXCEPT ![b] = {Piece(FileBatches[b], 0)}]
  BY DEF StartBatch
<1>1. Len(FileBatches) \in Nat /\ b \in 1..Len(FileBatches) /\ phase[b] = "todo"
  <2>1. Len(FileBatches) \in Nat
    BY SpawnBatchesAssumption
  <2>2. QED
    BY <2>1, <1>0, <1>a DEF Batches, PassAgrees
<1>2. TypeOK'
  <2>1. Piece(FileBatches[b], 0) \in [files : SUBSET Files, depth : 0..SplitMaxDepth]
    BY FilesAreNat, SpawnBatchesAssumption DEF Piece
  <2>2. /\ work' \in [Batches -> SUBSET [files : SUBSET Files, depth : 0..SplitMaxDepth]]
        /\ \A c \in Batches : \A p \in work'[c] : p.files \subseteq FileBatches[c]
    BY <2>1, <1>0, <1>a DEF TypeOK, Piece
  <2>3. nextIndex' \in 1..(Len(FileBatches) + 1)
    BY <1>0, <1>1
  <2>4. QED
    BY <1>0, <1>a, <2>2, <2>3 DEF TypeOK, StartBatch, fileVars, reasonVars, rescueVars, clockVars, Phases
<1>3. PassAgrees'
  BY <1>0, <1>1, <1>a DEF PassAgrees, TypeOK, Batches
<1>4. RescueAgrees' /\ AnalyzedAreLinted'
  BY <1>0, <1>a DEF RescueAgrees, AnalyzedAreLinted, fileVars, rescueVars
<1>5. EveryFileOnce'
  <2>1. \A c \in Batches : Undecided(c)' = Undecided(c)
    <3>1. Undecided(b)' = FileBatches[b]
      BY <1>0, <1>a DEF Undecided, Piece, TypeOK
    <3>2. ASSUME NEW c \in Batches, c # b PROVE Undecided(c)' = Undecided(c)
      BY <3>2, <1>0, <1>a DEF Undecided, TypeOK
    <3>3. QED
      BY <3>1, <3>2, <1>1 DEF Undecided
  <2>2. \A c \in Batches : \A q, r \in work'[c] : q # r => q.files \cap r.files = {}
    BY <1>0, <1>a DEF EveryFileOnce, TypeOK
  <2>3. QED
    BY <2>1, <2>2, <1>0, <1>a DEF EveryFileOnce, StillDropped, fileVars, rescueVars
<1>6. QED
  BY <1>2, <1>3, <1>4, <1>5 DEF BatchesIInv

\* What the steps of a batch in flight have in common: the pass, the rescue and
\* the report are left alone.
LEMMA FlightKeepsPass ==
  ASSUME TypeOK, PassAgrees, RescueAgrees, NEW b \in InFlight,
         UNCHANGED <<stage, nextIndex, rescueVars, analyzedFiles>>,
         phase' \in [Batches -> Phases],
         \A c \in Batches \ {b} : phase'[c] = phase[c] /\ work'[c] = work[c],
         phase'[b] # "settled" \/ work'[b] = {},
         oomDroppedFiles \subseteq droppedFiles => oomDroppedFiles' \subseteq droppedFiles'
  PROVE  PassAgrees' /\ RescueAgrees' /\ AnalyzedAreLinted'
<1>1. stage \in {"main", "replay"} /\ b \in Batches /\ b < nextIndex
  BY InFlightInPass
<1>2. Len(FileBatches) \in Nat
  BY SpawnBatchesAssumption
<1>3. PassAgrees'
  <2>1. ASSUME NEW c \in Batches, c >= nextIndex PROVE c # b
    BY <2>1, <1>1, <1>2 DEF Batches, TypeOK
  <2>2. QED
    BY <2>1, <1>1 DEF PassAgrees
<1>4. RescueAgrees'
  BY <1>1 DEF RescueAgrees, rescueVars
<1>5. AnalyzedAreLinted'
  BY <1>1 DEF AnalyzedAreLinted
<1>6. QED
  BY <1>3, <1>4, <1>5

\* A piece is skipped.
LEMMA SkipKeeps ==
  ASSUME BatchesIInv, NEW b \in InFlight, NEW p \in work[b], Skip(b, p),
         UNCHANGED <<stage, displayedFileCount, rescueVars, clockVars, analyzedFiles>>
  PROVE  BatchesIInv'
<1>a. TypeOK /\ PassAgrees /\ RescueAgrees /\ EveryFileOnce
  BY DEF BatchesIInv
<1>0. /\ deadlineSkippedFiles' = deadlineSkippedFiles \cup p.files
      /\ work' = [work EXCEPT ![b] = @ \ {p}]
      /\ phase' = [phase EXCEPT ![b] = "ready"]
      /\ UNCHANGED <<nextIndex, anchored, splitElapsed, didStart, firstError,
                     linted, droppedFiles, oomDroppedFiles, reasonVars>>
  BY DEF Skip
<1>1. b \in Batches /\ phase[b] # "todo"
  BY <1>a, InFlightInPass
<1>2. p.files \subseteq Files
  BY <1>1, <1>a, FilesAreNat DEF TypeOK
<1>3. TypeOK'
  BY <1>0, <1>1, <1>2, <1>a DEF TypeOK, reasonVars, rescueVars, clockVars, Phases
<1>4. EveryFileOnce'
  BY <1>0, <1>1, <1>a, DecidingKeepsOnce DEF StillDropped, rescueVars
<1>5. PassAgrees' /\ RescueAgrees' /\ AnalyzedAreLinted'
  <2>1. \A c \in Batches \ {b} : phase'[c] = phase[c] /\ work'[c] = work[c]
    BY <1>0, <1>1, <1>a DEF TypeOK
  <2>2. phase'[b] # "settled" /\ phase' \in [Batches -> Phases]
    BY <1>0, <1>1, <1>3, <1>a DEF TypeOK
  <2>3. QED
    BY <1>0, <1>a, <2>1, <2>2, FlightKeepsPass
<1>6. QED
  BY <1>3, <1>4, <1>5 DEF BatchesIInv

\* A step that moves a batch on without deciding about any file.
LEMMA MovingKeepsOnce ==
  ASSUME TypeOK, EveryFileOnce, NEW b \in Batches, phase[b] # "todo",
         UNCHANGED <<work, linted, droppedFiles, deadlineSkippedFiles, rescuedFiles>>,
         NEW next \in Phases \ {"todo"}, phase' = [phase EXCEPT ![b] = next]
  PROVE  EveryFileOnce'
<1>1. \A c \in Batches : phase'[c] = "todo" <=> phase[c] = "todo"
  BY DEF TypeOK
<1>2. \A c \in Batches : Undecided(c)' = Undecided(c)
  BY <1>1 DEF Undecided
<1>3. QED
  BY <1>2 DEF EveryFileOnce, StillDropped

\* A piece is called and gets its slot.
LEMMA QueueAndSpawnKeep ==
  ASSUME BatchesIInv, NEW b \in Batches, NEW p \in work[b], CallPiece(b, p) \/ GrantSlot(b, p)
  PROVE  BatchesIInv'
<1>a. TypeOK /\ PassAgrees /\ RescueAgrees /\ EveryFileOnce
  BY DEF BatchesIInv
<1>b. b \in InFlight /\ phase[b] # "todo"
  BY DEF CallPiece, GrantSlot, InFlight
<1>c. UNCHANGED <<stage, displayedFileCount, rescueVars, clockVars, analyzedFiles>>
  BY DEF CallPiece, GrantSlot
<1>1. CASE Skip(b, p)
  BY <1>1, <1>b, <1>c, SkipKeeps
<1>2. ASSUME NEW next \in {"queued", "spawned"}, phase' = [phase EXCEPT ![b] = next],
             didStart' \in {didStart, didStart \cup {b}},
             UNCHANGED <<nextIndex, work, anchored, splitElapsed, firstError, fileVars, reasonVars>>
      PROVE  BatchesIInv'
  <2>1. TypeOK'
    BY <1>2, <1>a, <1>c DEF TypeOK, fileVars, reasonVars, rescueVars, clockVars, Phases
  <2>2. EveryFileOnce'
    BY <1>2, <1>a, <1>b, <1>c, MovingKeepsOnce DEF fileVars, rescueVars, Phases
  <2>3. PassAgrees' /\ RescueAgrees' /\ AnalyzedAreLinted'
    <3>1. /\ \A c \in Batches \ {b} : phase'[c] = phase[c] /\ work'[c] = work[c]
          /\ phase'[b] # "settled" /\ phase' \in [Batches -> Phases]
      BY <1>2, <2>1, <1>a DEF TypeOK
    <3>2. QED
      BY <1>2, <1>a, <1>b, <1>c, <3>1, FlightKeepsPass DEF fileVars
  <2>4. QED
    BY <2>1, <2>2, <2>3 DEF BatchesIInv
<1>3. QED
  BY <1>1, <1>2 DEF CallPiece, GrantSlot

\* A process answers for a piece: it is linted, skipped or dropped.
LEMMA AnswerKeeps ==
  ASSUME BatchesIInv, NEW b \in Batches, NEW p \in work[b],
         \/ AnswerDiagnostics(b, p) \/ FailureSkipped(b, p)
         \/ \E kind \in Splittable : FailureDropped(b, p, kind)
  PROVE  BatchesIInv'
<1>a. TypeOK /\ PassAgrees /\ RescueAgrees /\ EveryFileOnce
  BY DEF BatchesIInv
<1>b. b \in InFlight /\ phase[b] # "todo"
  BY DEF AnswerDiagnostics, FailureSkipped, FailureDropped, InFlight
<1>c. p.files \subseteq Files
  BY <1>a, FilesAreNat DEF TypeOK
<1>1. CASE FailureSkipped(b, p)
  BY <1>1, <1>b, SkipKeeps DEF FailureSkipped
<1>2. ASSUME work' = [work EXCEPT ![b] = @ \ {p}], phase' = [phase EXCEPT ![b] = "ready"],
             TypeOK', EveryFileOnce', UNCHANGED <<stage, nextIndex, rescueVars, analyzedFiles>>,
             oomDroppedFiles \subseteq droppedFiles => oomDroppedFiles' \subseteq droppedFiles'
      PROVE  BatchesIInv'
  <2>1. /\ \A c \in Batches \ {b} : phase'[c] = phase[c] /\ work'[c] = work[c]
        /\ phase'[b] # "settled" /\ phase' \in [Batches -> Phases]
    BY <1>2, <1>a DEF TypeOK
  <2>2. PassAgrees' /\ RescueAgrees' /\ AnalyzedAreLinted'
    BY <1>2, <1>a, <1>b, <2>1, FlightKeepsPass
  <2>3. QED
    BY <1>2, <2>2 DEF BatchesIInv
<1>3. CASE AnswerDiagnostics(b, p)
  <2>1. TypeOK'
    BY <1>3, <1>a, <1>c DEF AnswerDiagnostics, TypeOK, reasonVars, rescueVars, clockVars, Phases
  <2>2. EveryFileOnce'
    BY <1>3, <1>a, <1>b, DecidingKeepsOnce DEF AnswerDiagnostics, StillDropped, rescueVars
  <2>3. QED
    BY <1>2, <1>3, <2>1, <2>2 DEF AnswerDiagnostics
<1>4. ASSUME NEW kind \in Splittable, FailureDropped(b, p, kind) PROVE BatchesIInv'
  <2>1. kind \in Reasons
    BY DEF Reasons
  <2>2. /\ firstDropReason' \in Reasons /\ firstNonOomDropReason' \in Reasons
        /\ lastFailure' \in [Files -> Reasons]
    BY <1>4, <2>1, <1>a DEF FailureDropped, Default, TypeOK
  <2>3. /\ droppedFiles' = droppedFiles \cup p.files
        /\ oomDroppedFiles' \in {oomDroppedFiles, oomDroppedFiles \cup p.files}
        /\ anchored' = anchored \cup {b}
        /\ work' = [work EXCEPT ![b] = @ \ {p}] /\ phase' = [phase EXCEPT ![b] = "ready"]
        /\ UNCHANGED <<stage, nextIndex, splitElapsed, didStart, firstError, linted,
                       deadlineSkippedFiles, displayedFileCount, rescueVars, clockVars, analyzedFiles>>
    BY <1>4 DEF FailureDropped
  <2>4. TypeOK'
    BY <2>2, <2>3, <1>a, <1>c DEF TypeOK, rescueVars, clockVars, Phases
  <2>5. rescuedFiles = {} /\ rescuedFiles' = {}
    BY <1>a, <1>b, <2>3, InFlightInPass DEF RescueAgrees, rescueVars
  <2>6. EveryFileOnce'
    BY <2>3, <2>5, <1>a, <1>b, DecidingKeepsOnce DEF StillDropped
  <2>7. QED
    BY <1>2, <2>3, <2>4, <2>6
<1>5. QED
  BY <1>1, <1>3, <1>4

\* A piece is replaced by its halves, which are one level deeper.
LEMMA SplitKeeps ==
  ASSUME BatchesIInv, NEW b \in Batches, NEW p \in work[b], FailureSplit(b, p)
  PROVE  BatchesIInv'
<1>a. TypeOK /\ PassAgrees /\ RescueAgrees /\ EveryFileOnce
  BY DEF BatchesIInv
<1>b. b \in InFlight /\ phase[b] # "todo"
  BY DEF FailureSplit, InFlight
<1>0. /\ work' = [work EXCEPT ![b] = (@ \ {p}) \cup Halves(p)]
      /\ phase' = [phase EXCEPT ![b] = "ready"] /\ anchored' = anchored \cup {b}
      /\ ~(p.depth >= SplitMaxDepth)
      /\ UNCHANGED <<stage, nextIndex, splitElapsed, didStart, firstError, fileVars, reasonVars,
                     displayedFileCount, rescueVars, clockVars, analyzedFiles>>
  BY DEF FailureSplit, Unsplittable
<1>1. p \in [files : SUBSET Files, depth : 0..SplitMaxDepth] /\ p.files \subseteq FileBatches[b]
  BY <1>a DEF TypeOK
<1>2. \A q \in Halves(p) :
        /\ q \in [files : SUBSET Files, depth : 0..SplitMaxDepth]
        /\ q.files \subseteq p.files
  <2> SUFFICES ASSUME NEW q \in Halves(p)
               PROVE  /\ q \in [files : SUBSET Files, depth : 0..SplitMaxDepth]
                      /\ q.files \subseteq p.files
    OBVIOUS
  <2>1. q.files \subseteq p.files /\ q.depth = p.depth + 1
    BY HalvesPartition
  <2>2. q = [files |-> q.files, depth |-> q.depth]
    BY DEF Halves, Piece
  <2>3. q.depth \in 0..SplitMaxDepth
    BY <2>1, <1>0, <1>1, SpawnBatchesAssumption
  <2>4. q.files \in SUBSET Files
    BY <2>1, <1>1
  <2>5. QED
    BY <2>1, <2>2, <2>3, <2>4
<1>3. UNION {q.files : q \in Halves(p)} = p.files
  BY HalvesPartition DEF Halves
<1>4. \A q, r \in Halves(p) : r # q => r.files \cap q.files = {}
  BY HalvesPartition
<1>5. work'[b] = (work[b] \ {p}) \cup Halves(p)
  BY <1>0, <1>a DEF TypeOK
<1>6. TypeOK'
  <2>1. /\ work' \in [Batches -> SUBSET [files : SUBSET Files, depth : 0..SplitMaxDepth]]
        /\ \A c \in Batches : \A q \in work'[c] : q.files \subseteq FileBatches[c]
    BY <1>0, <1>1, <1>2, <1>a DEF TypeOK
  <2>2. QED
    BY <2>1, <1>0, <1>a DEF TypeOK, fileVars, reasonVars, rescueVars, clockVars, Phases
<1>7. EveryFileOnce'
  <2>1. \A q, r \in work'[b] : q # r => q.files \cap r.files = {}
    BY <1>2, <1>4, <1>5, <1>a DEF EveryFileOnce
  <2>2. UNION {q.files : q \in work'[b]} = UNION {q.files : q \in work[b]}
    BY <1>3, <1>5
  <2>3. \A c \in Batches : c # b => work'[c] = work[c] /\ phase'[c] = phase[c]
    BY <1>0, <1>a DEF TypeOK
  <2>4. phase'[b] # "todo"
    BY <1>0, <1>a DEF TypeOK
  <2>5. \A c \in Batches : Undecided(c)' = Undecided(c)
    BY <2>2, <2>3, <2>4, <1>b DEF Undecided
  <2>6. QED
    BY <2>1, <2>3, <2>5, <1>0, <1>a DEF EveryFileOnce, StillDropped, fileVars, rescueVars
<1>8. PassAgrees' /\ RescueAgrees' /\ AnalyzedAreLinted'
  <2>1. /\ \A c \in Batches \ {b} : phase'[c] = phase[c] /\ work'[c] = work[c]
        /\ phase'[b] # "settled" /\ phase' \in [Batches -> Phases]
    BY <1>0, <1>6, <1>a DEF TypeOK
  <2>2. QED
    BY <1>0, <1>a, <1>b, <2>1, FlightKeepsPass DEF fileVars
<1>9. QED
  BY <1>6, <1>7, <1>8 DEF BatchesIInv

\* A task throws or ends, or its split budget runs out.
LEMMA EndsKeep ==
  ASSUME BatchesIInv, NEW b \in Batches,
         \/ \E error \in Errors : AnswerError(b, error)
         \/ FinishBatch(b)
         \/ SplitBudgetElapses(b)
  PROVE  BatchesIInv'
<1>a. TypeOK /\ PassAgrees /\ RescueAgrees /\ EveryFileOnce
  BY DEF BatchesIInv
<1>b. b \in InFlight /\ phase[b] # "todo" /\ phase[b] \in Phases \ {"todo"}
  BY DEF AnswerError, FinishBatch, SplitBudgetElapses, InFlight, Phases
<1>0. /\ UNCHANGED <<stage, nextIndex, work, anchored, didStart, fileVars, reasonVars, rescueVars,
                     clockVars, analyzedFiles>>
  BY DEF AnswerError, FinishBatch, SplitBudgetElapses
<1>1. /\ \E next \in Phases \ {"todo"} : phase' = [phase EXCEPT ![b] = next]
      /\ phase'[b] = "settled" => work[b] = {}
  <2>1. phase = [phase EXCEPT ![b] = phase[b]]
    BY <1>a DEF TypeOK
  <2>2. QED
    BY <2>1, <1>b, <1>a DEF AnswerError, FinishBatch, SplitBudgetElapses, Phases, TypeOK
<1>2. TypeOK'
  <2>1. firstError' \in Errors \cup {NoReason} /\ splitElapsed' \subseteq Batches
    BY <1>a DEF AnswerError, FinishBatch, SplitBudgetElapses, Default, TypeOK
  <2>2. displayedFileCount' \in Nat
    <3>1. IsFiniteSet((UNION {FileBatches[c] : c \in {d \in Batches : phase'[d] = "settled"}})
                      \ deadlineSkippedFiles')
      BY FilesFinite, FS_Subset DEF Files
    <3>2. ScannedFileCount' \in Nat
      BY <3>1, FS_CardinalityType DEF ScannedFileCount
    <3>3. QED
      BY <3>2, <1>a DEF AnswerError, FinishBatch, SplitBudgetElapses, TypeOK
  <2>3. phase' \in [Batches -> Phases]
    BY <1>1, <1>a DEF TypeOK
  <2>4. QED
    BY <2>1, <2>2, <2>3, <1>0, <1>a DEF TypeOK, fileVars, reasonVars, rescueVars, clockVars
<1>3. EveryFileOnce'
  BY <1>0, <1>1, <1>a, <1>b, MovingKeepsOnce DEF fileVars, rescueVars
<1>4. PassAgrees' /\ RescueAgrees' /\ AnalyzedAreLinted'
  <2>1. /\ \A c \in Batches \ {b} : phase'[c] = phase[c] /\ work'[c] = work[c]
        /\ phase'[b] # "settled" \/ work'[b] = {}
        /\ phase' \in [Batches -> Phases]
    BY <1>0, <1>1, <1>2, <1>a DEF TypeOK
  <2>2. QED
    BY <1>0, <1>a, <1>b, <2>1, FlightKeepsPass DEF fileVars
<1>5. QED
  BY <1>2, <1>3, <1>4 DEF BatchesIInv

----------------------------------------------------------------------------

\* The progress timer and the clocks touch nothing that is accounted for.
LEMMA TickAndClocksKeep ==
  ASSUME BatchesIInv, Tick \/ DeadlinePasses \/ RescueBudgetElapses
  PROVE  BatchesIInv'
<1>a. TypeOK /\ PassAgrees /\ RescueAgrees /\ EveryFileOnce /\ AnalyzedAreLinted
  BY DEF BatchesIInv
<1>1. UNCHANGED <<stage, batchVars, fileVars, reasonVars, rescueVars, analyzedFiles>>
  BY DEF Tick, DeadlinePasses, RescueBudgetElapses, passVars
<1>2. TypeOK'
  <2>1. CASE Tick
    BY <2>1, <1>1, <1>a DEF Tick, TypeOK, batchVars, fileVars, reasonVars, rescueVars, clockVars
  <2>2. CASE DeadlinePasses
    BY <2>2, <1>1, <1>a DEF DeadlinePasses, TypeOK, passVars, batchVars, fileVars, reasonVars, rescueVars
  <2>3. CASE RescueBudgetElapses
    BY <2>3, <1>1, <1>a DEF RescueBudgetElapses, TypeOK, passVars, batchVars, fileVars, reasonVars,
                            rescueVars
  <2>4. QED
    BY <2>1, <2>2, <2>3
<1>3. PassAgrees' /\ RescueAgrees'
  BY <1>1, <1>a DEF PassAgrees, RescueAgrees, InFlight, batchVars, fileVars, rescueVars
<1>4. EveryFileOnce'
  BY <1>1, <1>a DEF EveryFileOnce, Undecided, StillDropped, batchVars, fileVars, rescueVars
<1>5. AnalyzedAreLinted'
  BY <1>1, <1>a DEF AnalyzedAreLinted, ReportedSources, SourcesOf, fileVars
<1>6. QED
  BY <1>2, <1>3, <1>4, <1>5 DEF BatchesIInv

\* A pass that throws leaves nothing behind for its replay.
LEMMA ThrowKeeps ==
  ASSUME BatchesIInv, PassThrows
  PROVE  BatchesIInv'
<1>a. TypeOK /\ PassAgrees /\ RescueAgrees /\ EveryFileOnce /\ AnalyzedAreLinted
  BY DEF BatchesIInv
<1>0. UNCHANGED <<rescueVars, clockVars, analyzedFiles>> /\ stage \in {"main", "replay"}
  BY DEF PassThrows
<1>1. CASE stage' = "replay" /\ FreshPass
  <2>1. Len(FileBatches) \in Nat
    BY SpawnBatchesAssumption
  <2>2. TypeOK'
    BY <1>0, <1>1, <2>1, <1>a
       DEF FreshPass, TypeOK, Phases, Reasons, rescueVars, clockVars
  <2>3. PassAgrees' /\ RescueAgrees' /\ AnalyzedAreLinted'
    BY <1>0, <1>1, <1>a DEF FreshPass, PassAgrees, RescueAgrees, AnalyzedAreLinted, InFlight, rescueVars
  <2>4. \A c \in Batches : Undecided(c)' = FileBatches[c] /\ work'[c] = {}
    BY <1>1 DEF FreshPass, Undecided
  <2>5. linted' = {} /\ StillDropped' = {} /\ deadlineSkippedFiles' = {}
    BY <1>1 DEF FreshPass, StillDropped
  <2>6. EveryFileOnce'
    BY <2>4, <2>5 DEF EveryFileOnce
  <2>7. QED
    BY <2>2, <2>3, <2>6 DEF BatchesIInv
<1>2. CASE stage' = "failed" /\ UNCHANGED passVars /\ InFlight = {}
  <2>1. TypeOK'
    BY <1>0, <1>2, <1>a DEF TypeOK, passVars, batchVars, fileVars, reasonVars, rescueVars, clockVars
  <2>2. PassAgrees' /\ RescueAgrees' /\ AnalyzedAreLinted'
    BY <1>0, <1>2, <1>a DEF PassAgrees, RescueAgrees, AnalyzedAreLinted, InFlight,
                            passVars, batchVars, fileVars, rescueVars
  <2>3. EveryFileOnce'
    BY <1>0, <1>2, <1>a DEF EveryFileOnce, Undecided, StillDropped, passVars, batchVars, fileVars, rescueVars
  <2>4. QED
    BY <2>1, <2>2, <2>3 DEF BatchesIInv
<1>3. QED
  BY <1>1, <1>2 DEF PassThrows

\* When every batch has settled each file is linted, dropped or skipped, so what
\* is reported as analyzed is what was linted.
LEMMA ReportIsLinted ==
  ASSUME TypeOK, EveryFileOnce, PassAgrees, \A b \in Batches : phase[b] = "settled"
  PROVE  Files \ (StillDropped \cup deadlineSkippedFiles) = linted
<1>1. \A b \in Batches : Undecided(b) = {}
  BY DEF Undecided, PassAgrees
<1>2. \A b \in Batches :
        FileBatches[b] \subseteq linted \cup StillDropped \cup deadlineSkippedFiles
  BY <1>1 DEF EveryFileOnce
<1>3. Files \subseteq linted \cup StillDropped \cup deadlineSkippedFiles
  BY <1>2 DEF Files
<1>4. QED
  BY <1>3 DEF EveryFileOnce, TypeOK

\* So a file whose source no report names was linted.
LEMMA UnreportedIsLinted ==
  ASSUME Files \ (StillDropped \cup deadlineSkippedFiles) = linted
  PROVE  \A f \in Files :
           SourcePath[f] \notin SourcesOf(StillDropped \cup deadlineSkippedFiles) => f \in linted
BY DEF SourcesOf

\* The pass ends, in a report or a rescue.
LEMMA PassEndKeeps ==
  ASSUME BatchesIInv, PassEnds
  PROVE  BatchesIInv'
<1>a. TypeOK /\ PassAgrees /\ RescueAgrees /\ EveryFileOnce
  BY DEF BatchesIInv
<1>0. /\ stage \in {"main", "replay"} /\ \A b \in Batches : phase[b] = "settled"
      /\ UNCHANGED <<batchVars, linted, oomDroppedFiles, deadlineSkippedFiles, reasonVars,
                     displayedFileCount, rescueFile, rescueSpawned, rescuedFiles,
                     firstRescueFailureReason, clockVars>>
      /\ stage' \in {"rescue", "done"}
      /\ droppedFiles' = droppedFiles
      /\ IF stage' = "rescue" THEN rescueLeft' = oomDroppedFiles /\ analyzedFiles' = analyzedFiles
         ELSE rescueLeft' = rescueLeft /\ analyzedFiles' = SourcesOf(Files \ (droppedFiles \cup deadlineSkippedFiles))
  BY DEF PassEnds, Report
<1>1. StillDropped = droppedFiles
  BY <1>0, <1>a DEF RescueAgrees, StillDropped
<1>2. Files \ (StillDropped \cup deadlineSkippedFiles) = linted
  BY <1>0, <1>a, ReportIsLinted
<1>3. TypeOK'
  <2>1. analyzedFiles' \subseteq SourcesOf(Files)
    BY <1>0, <1>a DEF SourcesOf, TypeOK
  <2>2. QED
    BY <2>1, <1>0, <1>a DEF TypeOK, batchVars, reasonVars, clockVars
<1>4. PassAgrees' /\ RescueAgrees'
  BY <1>0, <1>a DEF PassAgrees, RescueAgrees, batchVars
<1>5. AnalyzedAreLinted'
  <2>1. SUFFICES ASSUME stage' = "done"
                 PROVE  /\ analyzedFiles' = SourcesOf(linted)
                        /\ \A f \in Files : SourcePath[f] \notin ReportedSources' => f \in linted
    BY <1>0 DEF AnalyzedAreLinted, SourcesOf
  <2>2. ReportedSources' = SourcesOf(StillDropped \cup deadlineSkippedFiles)
    BY <1>0, <1>1 DEF ReportedSources, SourcesOf
  <2>3. QED
    BY <2>1, <2>2, <1>0, <1>1, <1>2, UnreportedIsLinted
<1>6. EveryFileOnce'
  BY <1>0, <1>a DEF EveryFileOnce, Undecided, StillDropped, batchVars
<1>7. QED
  BY <1>3, <1>4, <1>5, <1>6 DEF BatchesIInv

\* The rescue: a file moves from the dropped ones to the linted ones, or stays.
LEMMA RescueKeeps ==
  ASSUME BatchesIInv, Rescue
  PROVE  BatchesIInv'
<1>a. TypeOK /\ PassAgrees /\ RescueAgrees /\ EveryFileOnce
  BY DEF BatchesIInv
<1>1. ASSUME NEW f \in Files, RescueCall(f) PROVE BatchesIInv'
  <2>1. /\ UNCHANGED <<stage, passVars, rescueSpawned, rescuedFiles, firstRescueFailureReason,
                       clockVars, analyzedFiles>>
        /\ rescueFile' = f /\ rescueLeft' = rescueLeft \ {f} /\ f \in rescueLeft /\ stage = "rescue"
    BY <1>1 DEF RescueCall
  <2>2. TypeOK'
    BY <2>1, <1>a DEF TypeOK, passVars, batchVars, fileVars, reasonVars, clockVars
  <2>3. PassAgrees' /\ RescueAgrees' /\ AnalyzedAreLinted'
    BY <2>1, <1>a, FilesAreNat DEF PassAgrees, RescueAgrees, AnalyzedAreLinted, passVars, batchVars, fileVars
  <2>4. EveryFileOnce'
    BY <2>1, <1>a DEF EveryFileOnce, Undecided, StillDropped, passVars, batchVars, fileVars
  <2>5. QED
    BY <2>2, <2>3, <2>4 DEF BatchesIInv
<1>2. ASSUME RescueSpawn \/ \E kind \in Splittable \cup Errors : RescueFailure(kind)
      PROVE  BatchesIInv'
  <2>1. /\ UNCHANGED <<stage, batchVars, fileVars, firstDropReason, firstNonOomDropReason,
                       displayedFileCount, rescueLeft, rescuedFiles, clockVars, analyzedFiles>>
        /\ rescueFile # NoFile
        /\ \/ rescueFile' = rescueFile /\ rescueSpawned' = TRUE
           \/ rescueFile' = NoFile /\ rescueSpawned' = FALSE
    <3>1. CASE RescueSpawn
      BY <3>1, <1>a DEF RescueSpawn, TypeOK, passVars, reasonVars
    <3>2. ASSUME NEW kind \in Splittable \cup Errors, RescueFailure(kind)
          PROVE  <2>1!1 /\ rescueFile # NoFile /\ rescueFile' = NoFile /\ rescueSpawned' = FALSE
      BY <3>2, <1>a DEF RescueFailure, RescueAgrees
    <3>3. QED
      BY <1>2, <3>1, <3>2
  <2>2. stage = "rescue"
    BY <2>1, <1>a DEF RescueAgrees
  <2>3. firstRescueFailureReason' \in Reasons /\ lastFailure' \in [Files -> Reasons]
    BY <1>2, <1>a DEF RescueSpawn, RescueFailure, Default, Reasons, TypeOK, passVars, reasonVars
  <2>4. TypeOK'
    BY <2>1, <2>3, <1>a DEF TypeOK, batchVars, fileVars, clockVars
  <2>5. PassAgrees' /\ RescueAgrees' /\ AnalyzedAreLinted'
    BY <2>1, <2>2, <1>a DEF PassAgrees, RescueAgrees, AnalyzedAreLinted, batchVars, fileVars
  <2>6. EveryFileOnce'
    BY <2>1, <1>a DEF EveryFileOnce, Undecided, StillDropped, batchVars, fileVars
  <2>7. QED
    BY <2>4, <2>5, <2>6 DEF BatchesIInv
<1>3. ASSUME RescueDiagnostics PROVE BatchesIInv'
  <2>1. /\ UNCHANGED <<stage, batchVars, droppedFiles, oomDroppedFiles, deadlineSkippedFiles, reasonVars,
                       displayedFileCount, rescueLeft, firstRescueFailureReason, clockVars, analyzedFiles>>
        /\ linted' = linted \cup {rescueFile} /\ rescuedFiles' = rescuedFiles \cup {rescueFile}
        /\ rescueFile' = NoFile /\ rescueSpawned' = FALSE
    BY <1>3 DEF RescueDiagnostics
  <2>2. rescueFile # NoFile /\ rescueFile \in droppedFiles /\ stage = "rescue"
    BY <1>3, <1>a DEF RescueDiagnostics, RescueAgrees
  <2>3. TypeOK'
    BY <2>1, <2>2, <1>a DEF TypeOK, batchVars, reasonVars, clockVars
  <2>4. PassAgrees' /\ RescueAgrees' /\ AnalyzedAreLinted'
    BY <2>1, <2>2, <1>a DEF PassAgrees, RescueAgrees, AnalyzedAreLinted, batchVars
  <2>5. /\ rescueFile \in linted \cup StillDropped
        /\ StillDropped' = StillDropped \ {rescueFile}
        /\ rescueFile \notin deadlineSkippedFiles
    BY <2>1, <2>2, <1>a DEF StillDropped, RescueAgrees, EveryFileOnce
  <2>6. EveryFileOnce'
    BY <2>1, <2>5, <1>a DEF EveryFileOnce, Undecided, batchVars
  <2>7. QED
    BY <2>3, <2>4, <2>6 DEF BatchesIInv
<1>4. ASSUME RescueEnds PROVE BatchesIInv'
  <2>1. /\ UNCHANGED <<batchVars, linted, oomDroppedFiles, deadlineSkippedFiles, firstNonOomDropReason,
                       lastFailure, displayedFileCount, rescueVars, pastDeadline>>
        /\ stage = "rescue" /\ stage' = "done" /\ rescueFile = NoFile
        /\ droppedFiles' = StillDropped
        /\ analyzedFiles' = SourcesOf(Files \ (StillDropped \cup deadlineSkippedFiles))
        /\ rescueTimeUp' = FALSE
        /\ firstDropReason' = RescueReason(StillDropped)
    BY <1>4 DEF RescueEnds, Report, StillDropped
  <2>2. Files \ (StillDropped \cup deadlineSkippedFiles) = linted
    BY <2>1, <1>a, ReportIsLinted DEF PassAgrees
  <2>3. firstDropReason' \in Reasons
    BY <2>1, <1>a DEF RescueReason, Default, TypeOK, Reasons
  <2>4. TypeOK'
    <3>1. analyzedFiles' \subseteq SourcesOf(Files)
      BY <2>1 DEF SourcesOf
    <3>2. QED
      BY <2>1, <2>3, <3>1, <1>a DEF TypeOK, batchVars, rescueVars, StillDropped
  <2>5. PassAgrees' /\ RescueAgrees' /\ AnalyzedAreLinted'
    <3>1. PassAgrees' /\ RescueAgrees'
      BY <2>1, <1>a DEF PassAgrees, RescueAgrees, batchVars, rescueVars
    <3>2. ReportedSources' = SourcesOf(StillDropped \cup deadlineSkippedFiles)
      BY <2>1 DEF ReportedSources, SourcesOf
    <3>3. AnalyzedAreLinted'
      BY <2>1, <2>2, <3>2, UnreportedIsLinted DEF AnalyzedAreLinted, SourcesOf
    <3>4. QED
      BY <3>1, <3>3
  <2>6. StillDropped' = StillDropped
    BY <2>1 DEF StillDropped, rescueVars
  <2>7. EveryFileOnce'
    BY <2>1, <2>6, <1>a DEF EveryFileOnce, Undecided, batchVars
  <2>8. QED
    BY <2>4, <2>5, <2>7 DEF BatchesIInv
<1>5. QED
  BY <1>1, <1>2, <1>3, <1>4 DEF Rescue

----------------------------------------------------------------------------

\* The first pass starts clean.
LEMMA BatchesInitIInv == Init => BatchesIInv
<1> SUFFICES ASSUME Init PROVE BatchesIInv
  OBVIOUS
<1>1. Len(FileBatches) \in Nat
  BY SpawnBatchesAssumption
<1>2. TypeOK
  <2>1. /\ nextIndex \in 1..(Len(FileBatches) + 1)
        /\ displayedFileCount \in Nat
    BY <1>1 DEF Init
  <2>2. /\ phase \in [Batches -> Phases]
        /\ work \in [Batches -> SUBSET [files : SUBSET Files, depth : 0..SplitMaxDepth]]
        /\ \A b \in Batches : \A p \in work[b] : p.files \subseteq FileBatches[b]
    BY DEF Init, Phases
  <2>3. lastFailure \in [Files -> Reasons] /\ NoReason \in Reasons
    BY DEF Init, Reasons
  <2>4. QED
    BY <2>1, <2>2, <2>3 DEF Init, TypeOK
<1>3. PassAgrees /\ RescueAgrees /\ AnalyzedAreLinted
  BY DEF Init, PassAgrees, RescueAgrees, AnalyzedAreLinted, InFlight
<1>4. EveryFileOnce
  BY DEF Init, EveryFileOnce, Undecided, StillDropped
<1>5. QED
  BY <1>2, <1>3, <1>4 DEF BatchesIInv

\* Every step keeps every file accounted for.
LEMMA BatchesNextIInv == BatchesIInv /\ [Next]_vars => BatchesIInv'
<1> SUFFICES ASSUME BatchesIInv, [Next]_vars PROVE BatchesIInv'
  OBVIOUS
<1>1. ASSUME NEW b \in Batches, Advance(b) PROVE BatchesIInv'
  <2>1. CASE StartBatch(b)
    BY <2>1, StartBatchKeeps
  <2>2. CASE \E p \in work[b] : CallPiece(b, p) \/ GrantSlot(b, p)
    BY <2>2, QueueAndSpawnKeep
  <2>3. CASE Answer(b)
    <3>1. PICK p \in work[b] :
            \/ AnswerDiagnostics(b, p) \/ FailureSkipped(b, p) \/ FailureSplit(b, p)
            \/ \E kind \in Splittable : FailureDropped(b, p, kind)
      BY <2>3 DEF Answer
    <3>2. QED
      BY <3>1, AnswerKeeps, SplitKeeps
  <2>4. CASE (\E error \in Errors : AnswerError(b, error)) \/ FinishBatch(b)
    BY <2>4, EndsKeep
  <2>5. QED
    BY <1>1, <2>1, <2>2, <2>3, <2>4 DEF Advance
<1>2. ASSUME NEW b \in Batches, SplitBudgetElapses(b) PROVE BatchesIInv'
  BY <1>2, EndsKeep
<1>3. CASE Tick \/ DeadlinePasses \/ RescueBudgetElapses
  BY <1>3, TickAndClocksKeep
<1>4. CASE PassThrows
  BY <1>4, ThrowKeeps
<1>5. CASE PassEnds
  BY <1>5, PassEndKeeps
<1>6. CASE Rescue
  BY <1>6, RescueKeeps
<1>7. CASE UNCHANGED vars
  <2>1. TypeOK'
    BY <1>7 DEF BatchesIInv, TypeOK, vars, passVars, batchVars, fileVars, reasonVars, rescueVars, clockVars
  <2>2. PassAgrees' /\ RescueAgrees' /\ AnalyzedAreLinted'
    BY <1>7 DEF BatchesIInv, PassAgrees, RescueAgrees, AnalyzedAreLinted, ReportedSources, SourcesOf,
                InFlight, vars, passVars, batchVars, fileVars, rescueVars
  <2>3. EveryFileOnce'
    BY <1>7 DEF BatchesIInv, EveryFileOnce, Undecided, StillDropped,
                vars, passVars, batchVars, fileVars, rescueVars
  <2>4. QED
    BY <2>1, <2>2, <2>3 DEF BatchesIInv
<1>8. QED
  BY <1>1, <1>2, <1>3, <1>4, <1>5, <1>6, <1>7 DEF Next

\* The invariant from which the theorems follow.
THEOREM BatchesInvariant == Spec => []BatchesIInv
<1>1. QED
  BY BatchesInitIInv, BatchesNextIInv, PTL DEF Spec

\* Whatever the batches, the number of workers and the depth cap, the state of
\* spawnLintBatches keeps its types: no piece exceeds the depth cap and no
\* piece holds a file of another batch.
THEOREM BatchesTypeCorrect == Spec => []TypeOK
<1>1. BatchesIInv => TypeOK
  BY DEF BatchesIInv
<1>2. QED
  BY <1>1, BatchesInvariant, PTL

\* No file of the scan is lost and none is counted twice, whatever splits, is
\* skipped, is dropped, is replayed or is rescued.
THEOREM EveryFileAccountedOnce == Spec => []EveryFileOnce
<1>1. BatchesIInv => EveryFileOnce
  BY DEF BatchesIInv
<1>2. QED
  BY <1>1, BatchesInvariant, PTL

\* onAnalyzedFiles is told the sources a process answered for, after any replay
\* and any rescue, and one whose lint paths were not all linted is named in the
\* report: no unlinted file is silently taken for a clean one.
THEOREM AnalyzedWereLinted == Spec => []AnalyzedAreLinted
<1>1. BatchesIInv => AnalyzedAreLinted
  BY DEF BatchesIInv
<1>2. QED
  BY <1>1, BatchesInvariant, PTL

\* A rescue only adds to the outcome of the pass: what was linted stays, no
\* file is dropped or skipped by it, and what is no longer dropped was linted.
THEOREM RescuesOnlyImprove == Spec => RescueOnlyImproves
<1>1. BatchesIInv /\ [Next]_vars =>
        [stage = "rescue" =>
           /\ linted \subseteq linted'
           /\ droppedFiles' \subseteq droppedFiles
           /\ droppedFiles \ droppedFiles' \subseteq linted
           /\ deadlineSkippedFiles' = deadlineSkippedFiles]_vars
  <2> SUFFICES ASSUME BatchesIInv, Next, stage = "rescue"
               PROVE  /\ linted \subseteq linted'
                      /\ droppedFiles' \subseteq droppedFiles
                      /\ droppedFiles \ droppedFiles' \subseteq linted
                      /\ deadlineSkippedFiles' = deadlineSkippedFiles
    OBVIOUS
  <2>1. \A b \in Batches : phase[b] = "settled" /\ work[b] = {}
    BY DEF BatchesIInv, PassAgrees
  <2>2. \A b \in Batches : ~Advance(b) /\ ~SplitBudgetElapses(b)
    BY <2>1 DEF Advance, StartBatch, Answer, AnswerError, FinishBatch, SplitBudgetElapses
  <2>3. Rescue \/ DeadlinePasses \/ RescueBudgetElapses
    BY <2>2 DEF Next, Tick, PassThrows, PassEnds
  <2>4. CASE RescueEnds
    BY <2>4 DEF RescueEnds, Report, BatchesIInv, RescueAgrees
  <2>5. CASE ~RescueEnds
    BY <2>3, <2>5 DEF Rescue, RescueCall, RescueSpawn, RescueDiagnostics, RescueFailure, DeadlinePasses,
                      RescueBudgetElapses, passVars, fileVars
  <2>6. QED
    BY <2>4, <2>5
<1>2. QED
  BY <1>1, BatchesInvariant, PTL DEF Spec, RescueOnlyImproves

\* After a task has thrown no batch starts, a pass ends only when every batch
\* in flight has settled, and the displayed count never falls in a pass.
THEOREM NoSecondWaveStarts == Spec => NoSecondWave
<1>1. BatchesIInv /\ [Next]_vars =>
        [/\ firstError # NoReason /\ stage' = stage => nextIndex' = nextIndex
         /\ stage' # stage => InFlight = {}
         /\ stage' # "replay" => displayedFileCount' >= displayedFileCount]_vars
  <2> SUFFICES ASSUME BatchesIInv, Next
               PROVE  /\ firstError # NoReason /\ stage' = stage => nextIndex' = nextIndex
                      /\ stage' # stage => InFlight = {}
                      /\ stage' # "replay" => displayedFileCount' >= displayedFileCount
    OBVIOUS
  <2>0. displayedFileCount \in Nat
    BY DEF BatchesIInv, TypeOK
  <2>1. ASSUME NEW b \in Batches, Advance(b) \/ SplitBudgetElapses(b)
        PROVE  /\ stage' = stage
               /\ firstError # NoReason => nextIndex' = nextIndex
               /\ displayedFileCount' >= displayedFileCount
    <3>1. CASE FinishBatch(b)
      <4>1. IsFiniteSet((UNION {FileBatches[c] : c \in {d \in Batches : phase'[d] = "settled"}})
                        \ deadlineSkippedFiles')
        BY FilesFinite, FS_Subset DEF Files
      <4>2. ScannedFileCount' \in Nat
        BY <4>1, FS_CardinalityType DEF ScannedFileCount
      <4>3. QED
        BY <3>1, <4>2, <2>0 DEF FinishBatch
    <3>2. CASE StartBatch(b)
      BY <3>2, <2>0 DEF StartBatch
    <3>3. CASE ~FinishBatch(b) /\ ~StartBatch(b)
      <4>1. UNCHANGED <<stage, nextIndex, displayedFileCount>>
        BY <2>1, <3>3 DEF Advance, CallPiece, GrantSlot, Skip, Answer, AnswerDiagnostics, FailureSkipped,
                          FailureDropped, FailureSplit, AnswerError, SplitBudgetElapses
      <4>2. QED
        BY <4>1, <2>0
    <3>4. QED
      BY <3>1, <3>2, <3>3
  <2>2. CASE Tick
    BY <2>2, <2>0 DEF Tick, batchVars
  <2>3. CASE PassThrows
    BY <2>3, <2>0 DEF PassThrows, passVars, batchVars
  <2>4. CASE PassEnds
    BY <2>4, <2>0 DEF PassEnds, batchVars, InFlight
  <2>5. CASE Rescue \/ DeadlinePasses \/ RescueBudgetElapses
    <3>1. nextIndex' = nextIndex /\ displayedFileCount' = displayedFileCount
      BY <2>5 DEF Rescue, RescueCall, RescueSpawn, RescueDiagnostics, RescueFailure, RescueEnds,
                  DeadlinePasses, RescueBudgetElapses, passVars, batchVars
    <3>2. stage' = stage \/ RescueEnds
      BY <2>5 DEF Rescue, RescueCall, RescueSpawn, RescueDiagnostics, RescueFailure,
                  DeadlinePasses, RescueBudgetElapses
    <3>3. RescueEnds => InFlight = {}
      BY DEF RescueEnds, BatchesIInv, PassAgrees, InFlight
    <3>4. QED
      BY <3>1, <3>2, <3>3, <2>0
  <2>6. QED
    BY <2>1, <2>2, <2>3, <2>4, <2>5 DEF Next
<1>2. QED
  BY <1>1, BatchesInvariant, PTL DEF Spec, NoSecondWave

----------------------------------------------------------------------------
(* The reason that is reported *)

\* No process is called without a file.
PiecesFilled == \A b \in Batches : \A p \in work[b] : p.files # {}

\* What the reasons kept on the way say of the files dropped so far.
DropReasonsAgree ==
  /\ firstDropReason = NoReason <=> droppedFiles = {}
  /\ firstNonOomDropReason = NoReason =>
       droppedFiles \subseteq oomDroppedFiles /\ firstDropReason \in {"oom", NoReason}
  /\ firstNonOomDropReason # NoReason =>
       \E f \in droppedFiles \ oomDroppedFiles : lastFailure[f] = firstNonOomDropReason
  /\ stage # "rescue" /\ droppedFiles # {} =>
       \E f \in droppedFiles : lastFailure[f] = firstDropReason
  /\ firstRescueFailureReason = NoReason =>
       \A f \in oomDroppedFiles : lastFailure[f] = "oom"

\* The rescue works through files lost to memory pressure, and the file that
\* gave its reason is not tried again.
RescueReasonAgrees ==
  /\ rescueLeft \cup rescuedFiles \subseteq oomDroppedFiles
  /\ rescueLeft \cap rescuedFiles = {}
  /\ rescueFile # NoFile => rescueFile \in oomDroppedFiles \ (rescueLeft \cup rescuedFiles)
  /\ stage # "rescue" => rescueLeft = {} /\ firstRescueFailureReason = NoReason
  /\ firstRescueFailureReason # NoReason =>
       \E f \in droppedFiles \ (rescuedFiles \cup rescueLeft \cup {rescueFile}) :
         lastFailure[f] = firstRescueFailureReason

ReasonsIInv ==
  /\ PiecesFilled
  /\ stage # "done" => DropReasonsAgree /\ RescueReasonAgrees
  /\ ReasonApplies

\* A set of naturals has a least element.
LEMMA LeastOfNat ==
  ASSUME NEW S \in SUBSET Nat, S # {}
  PROVE  \E m \in S : \A n \in S : m <= n
<1> DEFINE initials == {0..n : n \in S}
<1>1. initials \subseteq FiniteSubsetsOf(Nat) /\ initials # {}
  <2>1. ASSUME NEW n \in S PROVE 0..n \in SUBSET Nat /\ IsFiniteSet(0..n)
    <3>1. 0 \in Int /\ n \in Int
      OBVIOUS
    <3>2. QED
      BY <3>1, FS_Interval
  <2>2. QED
    BY <2>1 DEF FiniteSubsetsOf
<1>2. PICK x \in initials : \A y \in initials : <<y, x>> \notin StrictSubsetOrdering(Nat)
  BY <1>1, FS_StrictSubsetOrderingWellFounded, WFMin
<1>3. PICK m \in S : x = 0..m
  BY <1>2
<1>4. ASSUME NEW n \in S, n < m PROVE FALSE
  <2>1. 0..n \in SUBSET Nat /\ 0..m \in SUBSET Nat /\ 0..n \subseteq 0..m /\ m \in 0..m /\ m \notin 0..n
    BY <1>4
  <2>2. <<0..n, 0..m>> \in StrictSubsetOrdering(Nat)
    BY <2>1 DEF StrictSubsetOrdering
  <2>3. QED
    BY <2>2, <1>2, <1>3
<1>5. QED
  BY <1>4

\* The files before a later file are more.
LEMMA BeforeGrows ==
  ASSUME NEW S \in SUBSET Nat, IsFiniteSet(S), NEW f \in S, NEW h \in S, f < h
  PROVE  Cardinality({g \in S : g < f}) < Cardinality({g \in S : g < h})
<1> DEFINE low == {g \in S : g < f}
           high == {g \in S : g < h}
<1>1. f \in Nat /\ h \in Nat
  OBVIOUS
<1>2. f \notin low /\ low \cup {f} \in SUBSET high
  <2>1. ASSUME NEW g \in low PROVE g \in high
    <3>1. g \in Nat /\ g < f
      OBVIOUS
    <3>2. QED
      BY <1>1, <3>1
  <2>2. f \notin low /\ f \in high
    BY <1>1
  <2>3. QED
    BY <2>1, <2>2
<1>3. low \in SUBSET S /\ high \in SUBSET S
  OBVIOUS
<1> HIDE DEF low, high
<1>4. /\ IsFiniteSet(low) /\ IsFiniteSet(high)
      /\ Cardinality(low) \in Nat /\ Cardinality(high) \in Nat
  BY <1>3, FS_Subset, FS_CardinalityType
<1>5. Cardinality(low \cup {f}) = Cardinality(low) + 1
  BY <1>2, <1>4, FS_AddElement
<1>6. Cardinality(low \cup {f}) <= Cardinality(high)
  BY <1>2, <1>4, FS_Subset
<1>7. Cardinality(low) < Cardinality(high)
  BY <1>4, <1>5, <1>6
<1>8. QED
  BY <1>7 DEF low, high

\* Two files or more leave a file for each half: the least is in the first, the
\* greatest in the second.
LEMMA HalvesFilled ==
  ASSUME NEW S \in SUBSET Nat, IsFiniteSet(S), Cardinality(S) > 1
  PROVE  FirstHalf(S) # {} /\ S \ FirstHalf(S) # {}
<1> DEFINE before == [f \in S |-> {g \in S : g < f}]
           below == [f \in S |-> Cardinality(before[f])]
           count == Cardinality(S)
<1>1. count \in Nat /\ count > 1 /\ S # {} /\ S \subseteq Nat
  BY FS_CardinalityType, FS_EmptySet
<1>2. FirstHalf(S) = {f \in S : 2 * below[f] < count}
  BY DEF FirstHalf
<1>3. ASSUME NEW f \in S PROVE before[f] \subseteq S /\ \A g \in S : g \in before[f] <=> g < f
  OBVIOUS
<1>4. \A f \in S : below[f] = Cardinality(before[f])
  OBVIOUS
<1> HIDE DEF before, below, count
<1>5. ASSUME NEW f \in S PROVE IsFiniteSet(before[f]) /\ below[f] \in Nat /\ below[f] <= count
  BY <1>3, <1>4, FS_Subset, FS_CardinalityType DEF count
<1>6. FirstHalf(S) # {}
  <2>1. PICK f \in S : \A g \in S : f <= g
    BY <1>1, LeastOfNat
  <2>2. ASSUME NEW g \in before[f] PROVE FALSE
    <3>1. g \in S /\ g < f /\ f <= g
      BY <1>3, <2>1
    <3>2. f \in Nat /\ g \in Nat
      BY <3>1
    <3>3. QED
      BY <3>1, <3>2
  <2>3. below[f] = 0
    BY <1>4, <2>2, FS_EmptySet
  <2>4. QED
    BY <1>1, <1>2, <2>3
<1>7. PICK f \in S : \A h \in S : below[h] <= below[f]
  <2> DEFINE above == {count - below[h] : h \in S}
  <2>1. \A h \in S : count - below[h] \in Nat
    BY <1>1, <1>5
  <2>2. above \in SUBSET Nat /\ above # {}
    BY <1>1, <2>1
  <2>3. PICK m \in above : \A n \in above : m <= n
    BY <2>2, LeastOfNat
  <2>4. PICK f \in S : m = count - below[f]
    BY <2>3
  <2>5. ASSUME NEW h \in S PROVE below[h] <= below[f]
    <3>1. m <= count - below[h]
      BY <2>3
    <3>2. below[h] \in Nat /\ below[f] \in Nat /\ count \in Nat
      BY <1>1, <1>5
    <3>3. QED
      BY <3>1, <3>2, <2>4
  <2>6. QED
    BY <2>5
<1>8. ASSUME NEW h \in S PROVE ~(f < h)
  <2> SUFFICES ASSUME f < h PROVE FALSE
    OBVIOUS
  <2>0. f \in Nat /\ h \in Nat
    OBVIOUS
  <2>1. before[f] = {g \in S : g < f} /\ before[h] = {g \in S : g < h}
    BY DEF before
  <2>2. below[f] < below[h]
    BY <2>1, <1>4, BeforeGrows
  <2>3. below[h] <= below[f] /\ below[f] \in Nat /\ below[h] \in Nat
    BY <1>5, <1>7
  <2>4. QED
    BY <2>2, <2>3
<1>9. before[f] = S \ {f}
  <2>1. ASSUME NEW g \in S, g # f PROVE g < f
    <3>1. g \in Nat /\ f \in Nat /\ ~(f < g)
      BY <1>8
    <3>2. QED
      BY <3>1, <2>1
  <2>2. ~(f < f)
    BY <1>8
  <2>3. QED
    BY <1>3, <2>1, <2>2
<1>10. below[f] = count - 1
  BY <1>4, <1>9, FS_RemoveElement DEF count
<1>11. f \notin FirstHalf(S)
  BY <1>10, <1>1, <1>2
<1>12. QED
  BY <1>6, <1>11

\* Pieces are made at the start of a batch and by a split, and only then.
LEMMA PiecesAreMade ==
  ASSUME BatchesIInv, Next
  PROVE  \/ \E b \in Batches : StartBatch(b)
         \/ \E b \in Batches : \E p \in work[b] : FailureSplit(b, p)
         \/ \A b \in Batches : work'[b] \subseteq work[b]
<1>0. work \in [Batches -> SUBSET [files : SUBSET Files, depth : 0..SplitMaxDepth]]
  BY DEF BatchesIInv, TypeOK
<1> DEFINE fewer == \A b \in Batches : work'[b] \subseteq work[b]
<1>1. ASSUME NEW b \in Batches, NEW p \in work[b], work' = [work EXCEPT ![b] = @ \ {p}] PROVE fewer
  BY <1>0, <1>1
<1>2. CASE work' = work
  BY <1>2
<1>3. ASSUME NEW b \in Batches, Advance(b) \/ SplitBudgetElapses(b), ~StartBatch(b),
             ~ \E p \in work[b] : FailureSplit(b, p)
      PROVE  fewer
  <2>1. CASE Answer(b)
    BY <2>1, <1>1, <1>3 DEF Answer, AnswerDiagnostics, FailureSkipped, Skip, FailureDropped
  <2>2. CASE \E p \in work[b] : CallPiece(b, p) \/ GrantSlot(b, p)
    BY <2>2, <1>1, <1>2 DEF CallPiece, GrantSlot, Skip
  <2>3. CASE (\E error \in Errors : AnswerError(b, error)) \/ FinishBatch(b) \/ SplitBudgetElapses(b)
    BY <2>3, <1>2 DEF AnswerError, FinishBatch, SplitBudgetElapses
  <2>4. QED
    BY <1>3, <2>1, <2>2, <2>3 DEF Advance
<1>4. CASE PassThrows
  BY <1>4, <1>2 DEF PassThrows, FreshPass, passVars, batchVars
<1>5. CASE Tick \/ PassEnds \/ Rescue \/ DeadlinePasses \/ RescueBudgetElapses
  BY <1>5, <1>2 DEF Tick, PassEnds, Rescue, RescueCall, RescueSpawn, RescueDiagnostics, RescueFailure,
                    RescueEnds, DeadlinePasses, RescueBudgetElapses, passVars, batchVars
<1>6. QED
  BY <1>3, <1>4, <1>5 DEF Next

\* What is split has two files or more, all of its batch.
LEMMA SplitPiece ==
  ASSUME BatchesIInv, NEW b \in Batches, NEW p \in work[b], FailureSplit(b, p)
  PROVE  /\ p.files \in SUBSET Nat /\ IsFiniteSet(p.files)
         /\ Cardinality(p.files) \in Nat /\ Cardinality(p.files) > 1
         /\ p.depth \in 0..SplitMaxDepth /\ p.depth # SplitMaxDepth
         /\ work' = [work EXCEPT ![b] = (@ \ {p}) \cup Halves(p)]
<1>1. /\ p.files \in SUBSET FileBatches[b] /\ p.files \in SUBSET Nat /\ IsFiniteSet(FileBatches[b])
  BY FilesAreNat DEF BatchesIInv, TypeOK
<1>2. p.depth \in 0..SplitMaxDepth
  BY DEF BatchesIInv, TypeOK
<1>3. IsFiniteSet(p.files) /\ Cardinality(p.files) \in Nat
  BY <1>1, FS_Subset, FS_CardinalityType
<1>4. Cardinality(p.files) > 1 /\ p.depth # SplitMaxDepth
  BY <1>2, <1>3, SpawnBatchesAssumption DEF FailureSplit, Unsplittable
<1>5. QED
  BY <1>1, <1>2, <1>3, <1>4 DEF FailureSplit

\* Every piece keeps a file, down to the depth cap.
LEMMA PiecesStayFilled ==
  ASSUME BatchesIInv, PiecesFilled, Next
  PROVE  PiecesFilled'
<1>0. work \in [Batches -> SUBSET [files : SUBSET Files, depth : 0..SplitMaxDepth]]
  BY DEF BatchesIInv, TypeOK
<1>1. ASSUME NEW b \in Batches, StartBatch(b) PROVE PiecesFilled'
  BY <1>0, <1>1, SpawnBatchesAssumption DEF StartBatch, Piece, PiecesFilled
<1>2. ASSUME NEW b \in Batches, NEW p \in work[b], FailureSplit(b, p) PROVE PiecesFilled'
  <2>1. FirstHalf(p.files) # {} /\ p.files \ FirstHalf(p.files) # {}
    BY <1>2, SplitPiece, HalvesFilled
  <2>2. \A q \in Halves(p) : q.files # {}
    BY <2>1 DEF Halves, Piece
  <2>3. QED
    BY <1>0, <1>2, <2>2, SplitPiece DEF PiecesFilled
<1>3. CASE \A b \in Batches : work'[b] \subseteq work[b]
  BY <1>3 DEF PiecesFilled
<1>4. QED
  BY <1>1, <1>2, <1>3, PiecesAreMade

\* A batch of the pass drops a piece: its files are not among those dropped before.
LEMMA DropKeepsReasons ==
  ASSUME BatchesIInv, PiecesFilled, DropReasonsAgree, RescueReasonAgrees,
         NEW b \in Batches, NEW p \in work[b], NEW kind \in Splittable, FailureDropped(b, p, kind)
  PROVE  DropReasonsAgree' /\ RescueReasonAgrees' /\ stage' # "done"
<1>a. TypeOK /\ PassAgrees /\ RescueAgrees /\ EveryFileOnce
  BY DEF BatchesIInv
<1>0. /\ droppedFiles' = droppedFiles \cup p.files
      /\ oomDroppedFiles' = IF kind = "oom" THEN oomDroppedFiles \cup p.files ELSE oomDroppedFiles
      /\ firstDropReason' = Default(firstDropReason, kind)
      /\ firstNonOomDropReason' =
           IF kind = "oom" THEN firstNonOomDropReason ELSE Default(firstNonOomDropReason, kind)
      /\ lastFailure' = [f \in Files |-> IF f \in p.files THEN kind ELSE lastFailure[f]]
      /\ UNCHANGED <<stage, rescueVars>>
      /\ phase[b] = "spawned"
  BY DEF FailureDropped
<1>1. stage \in {"main", "replay"} /\ rescuedFiles = {} /\ rescueLeft = {}
  <2>1. b \in InFlight
    BY <1>0 DEF InFlight
  <2>2. stage \in {"main", "replay"}
    BY <2>1, <1>a, InFlightInPass
  <2>3. QED
    BY <2>2, <1>a DEF RescueAgrees, RescueReasonAgrees
<1>2. p.files \subseteq FileBatches[b] /\ p.files \subseteq Files /\ p.files # {}
  BY <1>a, FilesAreNat DEF TypeOK, PiecesFilled
<1>3. p.files \cap droppedFiles = {}
  <2>1. p.files \subseteq Undecided(b)
    BY <1>0 DEF Undecided
  <2>2. QED
    BY <2>1, <1>1, <1>2, <1>a DEF EveryFileOnce, StillDropped
<1>4. oomDroppedFiles \subseteq droppedFiles /\ droppedFiles \subseteq Files
  BY <1>1, <1>a DEF RescueAgrees, TypeOK
<1>5. kind \in {"oom", "slow"} /\ kind # NoReason
  BY NoReasonAssumption DEF Splittable
<1>6. /\ \A f \in droppedFiles : lastFailure'[f] = lastFailure[f]
      /\ \A f \in p.files : lastFailure'[f] = kind
  BY <1>0, <1>2, <1>3, <1>4
<1>7. firstRescueFailureReason = NoReason /\ firstRescueFailureReason' = NoReason
  BY <1>0, <1>1 DEF RescueReasonAgrees, rescueVars
<1>8. DropReasonsAgree'
  <2>1. firstDropReason' # NoReason /\ droppedFiles' # {}
    BY <1>0, <1>2, <1>5 DEF Default
  <2>2. firstNonOomDropReason' = NoReason =>
          droppedFiles' \subseteq oomDroppedFiles' /\ firstDropReason' \in {"oom", NoReason}
    BY <1>0, <1>5 DEF DropReasonsAgree, Default
  <2>3. firstNonOomDropReason' # NoReason =>
          \E f \in droppedFiles' \ oomDroppedFiles' : lastFailure'[f] = firstNonOomDropReason'
    <3>1. CASE firstNonOomDropReason # NoReason
      BY <3>1, <1>0, <1>3, <1>6 DEF DropReasonsAgree, Default
    <3>2. CASE firstNonOomDropReason = NoReason /\ kind # "oom"
      BY <3>2, <1>0, <1>2, <1>3, <1>4, <1>6 DEF Default
    <3>3. QED
      BY <3>1, <3>2, <1>0
  <2>4. \E f \in droppedFiles' : lastFailure'[f] = firstDropReason'
    <3>1. CASE firstDropReason = NoReason
      BY <3>1, <1>0, <1>2, <1>6 DEF Default
    <3>2. CASE firstDropReason # NoReason
      BY <3>2, <1>0, <1>1, <1>6 DEF Default, DropReasonsAgree
    <3>3. QED
      BY <3>1, <3>2
  <2>5. \A f \in oomDroppedFiles' : lastFailure'[f] = "oom"
    BY <1>0, <1>4, <1>6, <1>7 DEF DropReasonsAgree
  <2>6. QED
    BY <2>1, <2>2, <2>3, <2>4, <2>5 DEF DropReasonsAgree
<1>9. RescueReasonAgrees'
  BY <1>0, <1>1, <1>7, <1>a, FilesAreNat DEF RescueReasonAgrees, RescueAgrees, rescueVars
<1>10. QED
  BY <1>0, <1>1, <1>8, <1>9

\* The rescue, until it reports.
LEMMA RescueKeepsReasons ==
  ASSUME BatchesIInv, DropReasonsAgree, RescueReasonAgrees, Rescue, ~RescueEnds
  PROVE  DropReasonsAgree' /\ RescueReasonAgrees' /\ stage' # "done"
<1>a. TypeOK /\ RescueAgrees /\ droppedFiles \subseteq Files /\ NoFile \notin Files
  BY FilesAreNat DEF BatchesIInv, TypeOK
<1>0. /\ UNCHANGED <<stage, droppedFiles, oomDroppedFiles, firstDropReason, firstNonOomDropReason>>
      /\ stage = "rescue"
  <2>1. stage = "rescue"
    BY <1>a DEF Rescue, RescueCall, RescueSpawn, RescueDiagnostics, RescueFailure, RescueAgrees
  <2>2. QED
    BY <2>1 DEF Rescue, RescueCall, RescueSpawn, RescueDiagnostics, RescueFailure, passVars, fileVars,
                reasonVars
<1>1. ASSUME UNCHANGED <<lastFailure, firstRescueFailureReason>> PROVE DropReasonsAgree'
  BY <1>0, <1>1 DEF DropReasonsAgree
<1>2. ASSUME NEW f \in Files, RescueCall(f) PROVE DropReasonsAgree' /\ RescueReasonAgrees'
  <2>1. /\ UNCHANGED <<rescuedFiles, firstRescueFailureReason, lastFailure>>
        /\ rescueFile = NoFile /\ f \in rescueLeft
        /\ rescueFile' = f /\ rescueLeft' = rescueLeft \ {f}
    BY <1>2 DEF RescueCall, passVars, reasonVars
  <2>2. QED
    BY <2>1, <1>0, <1>1 DEF RescueReasonAgrees
<1>3. CASE RescueSpawn
  <2>1. /\ UNCHANGED <<rescueLeft, rescuedFiles, firstRescueFailureReason, lastFailure>>
        /\ rescueFile' \in {rescueFile, NoFile}
    BY <1>3 DEF RescueSpawn, passVars, reasonVars
  <2>2. QED
    BY <2>1, <1>0, <1>1, <1>a DEF RescueReasonAgrees
<1>4. CASE RescueDiagnostics
  <2>1. /\ UNCHANGED <<rescueLeft, firstRescueFailureReason, lastFailure>>
        /\ rescueFile # NoFile /\ rescueFile' = NoFile
        /\ rescuedFiles' = rescuedFiles \cup {rescueFile}
    BY <1>4, <1>a DEF RescueDiagnostics, RescueAgrees, reasonVars
  <2>2. QED
    BY <2>1, <1>0, <1>1, <1>a DEF RescueReasonAgrees
<1>5. ASSUME NEW kind \in Splittable \cup Errors, RescueFailure(kind)
      PROVE  DropReasonsAgree' /\ RescueReasonAgrees'
  <2>1. /\ UNCHANGED <<rescueLeft, rescuedFiles>> /\ rescueFile # NoFile /\ rescueFile' = NoFile
        /\ kind # NoReason
        /\ \/ UNCHANGED <<firstRescueFailureReason, lastFailure>>
           \/ /\ firstRescueFailureReason' = Default(firstRescueFailureReason, kind)
              /\ lastFailure' = [lastFailure EXCEPT ![rescueFile] = kind]
    BY <1>5, <1>a, NoReasonAssumption DEF RescueFailure, RescueAgrees
  <2>2. rescueFile \in oomDroppedFiles /\ rescueFile \in droppedFiles \ (rescuedFiles \cup rescueLeft)
    BY <2>1, <1>a DEF RescueReasonAgrees, RescueAgrees
  <2>3. CASE UNCHANGED <<firstRescueFailureReason, lastFailure>>
    BY <2>1, <2>3, <1>0, <1>1, <1>a DEF RescueReasonAgrees
  <2>4. CASE /\ firstRescueFailureReason' = Default(firstRescueFailureReason, kind)
             /\ lastFailure' = [lastFailure EXCEPT ![rescueFile] = kind]
    <3>1. /\ firstRescueFailureReason' # NoReason
          /\ \A f \in Files \ {rescueFile} : lastFailure'[f] = lastFailure[f]
          /\ lastFailure'[rescueFile] = kind
      BY <2>1, <2>2, <2>4, <1>a DEF Default, TypeOK
    <3>2. DropReasonsAgree'
      BY <3>1, <2>2, <1>0, <1>a DEF DropReasonsAgree
    <3>3. \E f \in droppedFiles \ (rescuedFiles \cup rescueLeft \cup {NoFile}) :
            lastFailure'[f] = firstRescueFailureReason'
      <4>1. CASE firstRescueFailureReason = NoReason
        BY <4>1, <3>1, <2>1, <2>2, <2>4, <1>a DEF Default
      <4>2. CASE firstRescueFailureReason # NoReason
        BY <4>2, <3>1, <2>4, <1>a DEF Default, RescueReasonAgrees
      <4>3. QED
        BY <4>1, <4>2
    <3>4. QED
      BY <3>2, <3>3, <2>1, <1>0 DEF RescueReasonAgrees
  <2>5. QED
    BY <2>1, <2>3, <2>4
<1>6. QED
  BY <1>0, <1>2, <1>3, <1>4, <1>5 DEF Rescue

\* The reports: of the pass that ends without a rescue, and of the rescue.
LEMMA ReportGivesReason ==
  ASSUME BatchesIInv, DropReasonsAgree, RescueReasonAgrees,
         RescueEnds \/ (PassEnds /\ stage' = "done")
  PROVE  ReasonApplies'
<1>a. TypeOK /\ RescueAgrees
  BY DEF BatchesIInv
<1>1. CASE PassEnds /\ stage' = "done"
  <2>1. UNCHANGED <<droppedFiles, firstDropReason, lastFailure>> /\ stage # "rescue"
    BY <1>1 DEF PassEnds, Report, reasonVars
  <2>2. QED
    BY <2>1 DEF DropReasonsAgree, ReasonApplies
<1>2. CASE RescueEnds
  <2> DEFINE dropped == droppedFiles \ rescuedFiles
  <2>1. /\ droppedFiles' = dropped /\ firstDropReason' = RescueReason(dropped)
        /\ UNCHANGED lastFailure /\ stage = "rescue" /\ rescueFile = NoFile
    BY <1>2 DEF RescueEnds, Report
  <2>2. CASE dropped = {}
    BY <2>1, <2>2 DEF RescueReason, ReasonApplies
  <2>3. CASE dropped # {}
    <3>1. firstDropReason' =
            Default(firstRescueFailureReason, Default(firstNonOomDropReason, firstDropReason))
      BY <2>1, <2>3 DEF RescueReason
    <3>2. CASE firstRescueFailureReason # NoReason
      BY <3>1, <3>2, <2>1, <2>3 DEF Default, RescueReasonAgrees, ReasonApplies
    <3>3. CASE firstRescueFailureReason = NoReason /\ firstNonOomDropReason # NoReason
      <4>1. firstDropReason' = firstNonOomDropReason
        BY <3>1, <3>3 DEF Default
      <4>2. PICK f \in droppedFiles \ oomDroppedFiles : lastFailure[f] = firstNonOomDropReason
        BY <3>3 DEF DropReasonsAgree
      <4>3. f \in dropped
        BY <4>2 DEF RescueReasonAgrees
      <4>4. QED
        BY <4>1, <4>2, <4>3, <2>1, <2>3 DEF ReasonApplies
    <3>4. CASE firstRescueFailureReason = NoReason /\ firstNonOomDropReason = NoReason
      <4>1. firstDropReason' = firstDropReason /\ firstDropReason # NoReason
        BY <3>1, <3>4, <2>3 DEF Default, DropReasonsAgree
      <4>2. firstDropReason = "oom" /\ dropped \subseteq oomDroppedFiles
        BY <4>1, <3>4 DEF DropReasonsAgree
      <4>3. \A f \in dropped : lastFailure[f] = "oom"
        BY <4>2, <3>4 DEF DropReasonsAgree
      <4>4. QED
        BY <4>1, <4>2, <4>3, <2>1, <2>3 DEF ReasonApplies
    <3>5. QED
      BY <3>2, <3>3, <3>4
  <2>4. QED
    BY <2>2, <2>3
<1>3. QED
  BY <1>1, <1>2

\* Every step keeps what the reasons say.
LEMMA ReasonsNextIInv == BatchesIInv /\ ReasonsIInv /\ [Next]_vars => ReasonsIInv'
<1> SUFFICES ASSUME BatchesIInv, ReasonsIInv, [Next]_vars PROVE ReasonsIInv'
  OBVIOUS
<1>a. TypeOK /\ PassAgrees /\ RescueAgrees /\ PiecesFilled
  BY DEF BatchesIInv, ReasonsIInv
<1>b. /\ stage # "done" => DropReasonsAgree /\ RescueReasonAgrees
      /\ ReasonApplies
  BY DEF ReasonsIInv
<1>1. ASSUME UNCHANGED <<stage, droppedFiles, oomDroppedFiles, reasonVars, rescueVars>>
      PROVE  /\ stage' # "done" => DropReasonsAgree' /\ RescueReasonAgrees'
             /\ ReasonApplies'
  BY <1>1, <1>b DEF DropReasonsAgree, RescueReasonAgrees, ReasonApplies, reasonVars, rescueVars
<1>2. ASSUME stage' # "done", DropReasonsAgree', RescueReasonAgrees', PiecesFilled'
      PROVE  ReasonsIInv'
  BY <1>2 DEF ReasonsIInv, ReasonApplies
<1>3. CASE UNCHANGED vars
  <2>1. PiecesFilled'
    BY <1>3, <1>a DEF PiecesFilled, vars, passVars, batchVars
  <2>2. QED
    BY <2>1, <1>1, <1>3 DEF ReasonsIInv, vars, passVars, fileVars
<1>4. CASE Next
  <2>0. PiecesFilled'
    BY <1>4, <1>a, PiecesStayFilled
  <2>1. ASSUME NEW b \in Batches, Advance(b) \/ SplitBudgetElapses(b) PROVE ReasonsIInv'
    <3>1. ASSUME NEW p \in work[b], NEW kind \in Splittable, FailureDropped(b, p, kind)
          PROVE  ReasonsIInv'
      <4>1. b \in InFlight
        BY <3>1 DEF FailureDropped, InFlight
      <4>2. stage # "done"
        BY <4>1, <1>a, InFlightInPass
      <4>3. QED
        BY <4>2, <3>1, <2>0, <1>a, <1>b, <1>2, DropKeepsReasons
    <3>2. CASE ~(\E p \in work[b] : \E kind \in Splittable : FailureDropped(b, p, kind))
      <4>1. UNCHANGED <<stage, droppedFiles, oomDroppedFiles, reasonVars, rescueVars>>
        BY <2>1, <3>2 DEF Advance, StartBatch, CallPiece, GrantSlot, Skip, Answer, AnswerDiagnostics,
                          FailureSkipped, FailureSplit, AnswerError, FinishBatch, SplitBudgetElapses,
                          fileVars
      <4>2. QED
        BY <4>1, <2>0, <1>1 DEF ReasonsIInv
    <3>3. QED
      BY <3>1, <3>2
  <2>2. CASE Tick \/ DeadlinePasses \/ RescueBudgetElapses
    <3>1. UNCHANGED <<stage, droppedFiles, oomDroppedFiles, reasonVars, rescueVars>>
      BY <2>2 DEF Tick, DeadlinePasses, RescueBudgetElapses, passVars, fileVars
    <3>2. QED
      BY <3>1, <2>0, <1>1 DEF ReasonsIInv
  <2>3. CASE PassThrows
    <3>0. stage \in {"main", "replay"} /\ UNCHANGED rescueVars /\ rescuedFiles = {} /\ rescueFile = NoFile
      BY <2>3, <1>a DEF PassThrows, RescueAgrees
    <3>1. CASE stage' = "replay" /\ FreshPass
      <4>1. DropReasonsAgree' /\ RescueReasonAgrees'
        BY <3>0, <3>1, <1>b DEF FreshPass, DropReasonsAgree, RescueReasonAgrees, rescueVars
      <4>2. QED
        BY <4>1, <3>1, <2>0, <1>2
    <3>2. CASE stage' = "failed" /\ UNCHANGED passVars
      <4>1. DropReasonsAgree' /\ RescueReasonAgrees'
        BY <3>0, <3>2, <1>b DEF DropReasonsAgree, RescueReasonAgrees, rescueVars, passVars, fileVars,
                                reasonVars
      <4>2. QED
        BY <4>1, <3>2, <2>0, <1>2
    <3>3. QED
      BY <2>3, <3>1, <3>2 DEF PassThrows
  <2>4. CASE PassEnds
    <3>0. stage \in {"main", "replay"} /\ rescuedFiles = {} /\ rescueFile = NoFile
      BY <2>4, <1>a DEF PassEnds, RescueAgrees
    <3>1. CASE stage' = "done"
      BY <3>0, <3>1, <2>0, <2>4, <1>b, ReportGivesReason DEF ReasonsIInv
    <3>2. CASE stage' = "rescue"
      <4>1. /\ UNCHANGED <<droppedFiles, oomDroppedFiles, reasonVars, rescueFile, rescuedFiles,
                           firstRescueFailureReason>>
            /\ rescueLeft' = oomDroppedFiles
        BY <2>4, <3>2 DEF PassEnds, Report
      <4>2. DropReasonsAgree' /\ RescueReasonAgrees'
        BY <4>1, <3>0, <3>2, <1>b DEF DropReasonsAgree, RescueReasonAgrees, reasonVars
      <4>3. QED
        BY <4>2, <3>2, <2>0, <1>2
    <3>3. QED
      BY <2>4, <3>1, <3>2 DEF PassEnds, Report
  <2>5. CASE Rescue
    <3>1. stage = "rescue"
      BY <2>5, <1>a DEF Rescue, RescueCall, RescueSpawn, RescueDiagnostics, RescueFailure, RescueEnds,
                        RescueAgrees
    <3>2. CASE RescueEnds
      <4>1. stage' = "done"
        BY <3>2 DEF RescueEnds, Report
      <4>2. QED
        BY <4>1, <3>1, <3>2, <2>0, <1>b, ReportGivesReason DEF ReasonsIInv
    <3>3. CASE ~RescueEnds
      BY <3>1, <3>3, <2>0, <2>5, <1>b, <1>2, RescueKeepsReasons
    <3>4. QED
      BY <3>2, <3>3
  <2>6. QED
    BY <1>4, <2>1, <2>2, <2>3, <2>4, <2>5 DEF Next
<1>5. QED
  BY <1>3, <1>4

\* The failure a scan reports is one that a file reported as dropped met last,
\* through every split, replay and rescue: never one that a rescue has cleared.
THEOREM ReportedReasonApplies == Spec => []ReasonApplies
<1>1. Init => ReasonsIInv
  BY FilesAreNat DEF Init, ReasonsIInv, PiecesFilled, DropReasonsAgree, RescueReasonAgrees, ReasonApplies
<1>2. ReasonsIInv => ReasonApplies
  BY DEF ReasonsIInv
<1>3. QED
  BY <1>1, <1>2, ReasonsNextIInv, BatchesInvariant, PTL DEF Spec

----------------------------------------------------------------------------
(* The halves *)

\* The recursive definition of PiecesAt has a solution, so PiecesAt is one.
LEMMA PiecesDouble ==
  /\ PiecesAt \in [0..SplitMaxDepth -> Nat \ {0}]
  /\ PiecesAt[0] = 1
  /\ \A d \in 0..SplitMaxDepth : d # 0 => PiecesAt[d] = 2 * PiecesAt[d - 1]
<1> DEFINE D == 0..SplitMaxDepth
           Table(k, f) == /\ f \in [0..k -> Nat \ {0}] /\ f[0] = 1
                          /\ \A d \in 1..k : f[d] = 2 * f[d - 1]
           bad == {k \in Nat : ~ \E f : Table(k, f)}
<1>1. bad = {}
  <2> SUFFICES ASSUME bad # {} PROVE FALSE
    OBVIOUS
  <2>1. PICK k \in bad : \A n \in bad : k <= n
    <3>1. bad \in SUBSET Nat
      OBVIOUS
    <3>2. QED
      BY <3>1, LeastOfNat
  <2>2. k # 0
    <3>1. Table(0, [d \in 0..0 |-> 1])
      OBVIOUS
    <3>2. QED
      BY <3>1, <2>1
  <2>3. k \in Nat /\ k - 1 \in Nat /\ ~(k <= k - 1)
    BY <2>1, <2>2
  <2>4. k - 1 \notin bad
    BY <2>1, <2>3
  <2>5. PICK f : Table(k - 1, f)
    BY <2>3, <2>4
  <2> DEFINE g == [d \in 0..k |-> IF d = k THEN 2 * f[k - 1] ELSE f[d]]
  <2>6. Table(k, g)
    <3>1. f \in [0..(k - 1) -> Nat \ {0}] /\ f[0] = 1 /\ \A d \in 1..(k - 1) : f[d] = 2 * f[d - 1]
      BY <2>5
    <3>2. \A d \in 0..k : d # k => d \in 0..(k - 1) /\ g[d] = f[d] /\ g[d] \in Nat \ {0}
      BY <2>3, <3>1
    <3>3. g[k] = 2 * f[k - 1] /\ f[k - 1] \in Nat \ {0} /\ g[k] \in Nat \ {0}
      BY <2>3, <3>1
    <3>4. g \in [0..k -> Nat \ {0}]
      BY <3>2, <3>3
    <3>5. g[0] = 1
      BY <2>2, <2>3, <3>1
    <3>6. ASSUME NEW d \in 1..k PROVE g[d] = 2 * g[d - 1]
      <4>1. g[d - 1] = f[d - 1]
        BY <2>3
      <4>2. CASE d = k
        BY <4>1, <4>2, <3>3
      <4>3. CASE d # k
        <5>1. d \in 1..(k - 1) /\ g[d] = f[d]
          BY <2>3, <4>3
        <5>2. QED
          BY <4>1, <5>1, <3>1
      <4>4. QED
        BY <4>2, <4>3
    <3>7. QED
      BY <3>4, <3>5, <3>6
  <2>7. QED
    BY <2>1, <2>6
<1>2. PICK f : Table(SplitMaxDepth, f)
  BY <1>1, SpawnBatchesAssumption
<1>3. f = [d \in D |-> IF d = 0 THEN 1 ELSE 2 * f[d - 1]]
  BY <1>2, SpawnBatchesAssumption
<1>4. PiecesAt = CHOOSE g : g = [d \in 0..SplitMaxDepth |-> IF d = 0 THEN 1 ELSE 2 * g[d - 1]]
  BY DEF PiecesAt
<1>5. PiecesAt = [d \in D |-> IF d = 0 THEN 1 ELSE 2 * PiecesAt[d - 1]]
  BY <1>3, <1>4
<1>6. \A d \in D : PiecesAt[d] = f[d]
  <2> DEFINE wrong == {d \in D : PiecesAt[d] # f[d]}
  <2> SUFFICES ASSUME wrong # {} PROVE FALSE
    OBVIOUS
  <2>1. wrong \in SUBSET Nat
    BY SpawnBatchesAssumption
  <2>2. PICK d \in wrong : \A e \in wrong : d <= e
    BY <2>1, LeastOfNat
  <2>3. d \in D /\ PiecesAt[d] # f[d]
    BY <2>2
  <2>4. d # 0
    BY <1>2, <1>5, <2>3
  <2>5. d - 1 \in D /\ ~(d <= d - 1)
    BY <2>3, <2>4, SpawnBatchesAssumption
  <2>6. PiecesAt[d - 1] = f[d - 1]
    BY <2>2, <2>5
  <2>7. PiecesAt[d] = 2 * PiecesAt[d - 1] /\ f[d] = 2 * f[d - 1]
    BY <1>3, <1>5, <2>3, <2>4
  <2>8. QED
    BY <2>3, <2>6, <2>7
<1>7. PiecesAt \in [D -> Nat \ {0}]
  <2>1. \A d \in D : PiecesAt[d] \in Nat \ {0}
    BY <1>2, <1>6
  <2>2. QED
    BY <1>5, <2>1
<1>8. 0 \in D /\ PiecesAt[0] = 1
  BY <1>2, <1>6, SpawnBatchesAssumption
<1>9. QED
  BY <1>5, <1>7, <1>8

\* Files whose place in the piece lies in an interval are no more than it has places.
LEMMA PlacesBound ==
  ASSUME NEW S \in SUBSET Nat, IsFiniteSet(S), NEW part \in SUBSET S, NEW i \in Nat, NEW j \in Nat, i <= j,
         \A f \in part : LET place == Cardinality({g \in S : g < f}) IN i <= place /\ place < j
  PROVE  IsFiniteSet(part) /\ Cardinality(part) \in Nat /\ Cardinality(part) <= j - i
<1> DEFINE before(f) == {g \in S : g < f}
           place == [f \in part |-> Cardinality(before(f))]
<1>1. ASSUME NEW f \in part PROVE place[f] \in i..(j - 1)
  <2>1. before(f) \in SUBSET S
    OBVIOUS
  <2>2. Cardinality(before(f)) \in Nat
    BY <2>1, FS_Subset, FS_CardinalityType
  <2>3. QED
    BY <2>2
<1>2. ASSUME NEW f \in part, NEW h \in part, place[f] = place[h] PROVE f = h
  <2>1. f \in Nat /\ h \in Nat /\ place[f] \in Nat /\ place[h] \in Nat
    BY <1>1
  <2>2. f < h => place[f] < place[h]
    BY BeforeGrows
  <2>3. h < f => place[h] < place[f]
    BY BeforeGrows
  <2>4. QED
    BY <1>2, <2>1, <2>2, <2>3
<1>3. place \in Injection(part, i..(j - 1))
  BY <1>1, <1>2 DEF Injection, IsInjective
<1> HIDE DEF place
<1>4. /\ IsFiniteSet(i..(j - 1))
      /\ Cardinality(i..(j - 1)) = IF i > j - 1 THEN 0 ELSE j - 1 - i + 1
  <2>1. i \in Int /\ j - 1 \in Int
    OBVIOUS
  <2>2. QED
    BY <2>1, FS_Interval
<1>5. IsFiniteSet(part) /\ Cardinality(part) <= Cardinality(i..(j - 1))
  BY <1>3, <1>4, FS_Injection
<1>6. Cardinality(part) \in Nat
  BY <1>5, FS_CardinalityType
<1>7. QED
  BY <1>4, <1>5, <1>6

\* Half of the files and one more is the most a half has.
LEMMA HalvesHalve ==
  ASSUME NEW S \in SUBSET Nat, IsFiniteSet(S), Cardinality(S) > 1, NEW half \in {FirstHalf(S), S \ FirstHalf(S)}
  PROVE  /\ IsFiniteSet(half) /\ Cardinality(half) \in Nat
         /\ 2 * (Cardinality(half) - 1) <= Cardinality(S) - 1
<1> DEFINE count == Cardinality(S)
           place(f) == Cardinality({g \in S : g < f})
<1>1. count \in Nat /\ count > 1
  BY FS_CardinalityType
<1>2. PICK k \in Nat : (count = 2 * k \/ count = 2 * k - 1) /\ k <= count
  <2>1. (count + 1) \div 2 \in Nat
    BY <1>1
  <2>2. (count = 2 * ((count + 1) \div 2) \/ count = 2 * ((count + 1) \div 2) - 1) /\ (count + 1) \div 2 <= count
    BY <1>1
  <2>3. QED
    BY <2>1, <2>2
<1>3. ASSUME NEW f \in S PROVE place(f) \in Nat /\ place(f) < count
  <2>1. {g \in S : g < f} \in SUBSET S /\ f \in S /\ f \notin {g \in S : g < f}
    <3>1. f \in Nat
      OBVIOUS
    <3>2. QED
      BY <3>1
  <2>2. QED
    BY <2>1, FS_Subset, FS_CardinalityType
<1>4. CASE half = FirstHalf(S)
  <2>1. half \in SUBSET S /\ \A f \in half : 2 * place(f) < count
    BY <1>4 DEF FirstHalf
  <2>2. /\ \A f \in half : 0 <= place(f) /\ place(f) < k
        /\ 0 \in Nat /\ 0 <= k
    BY <1>1, <1>2, <1>3, <2>1
  <2> DEFINE zero == 0
  <2>3. /\ zero \in Nat /\ zero <= k
        /\ \A f \in half : zero <= place(f) /\ place(f) < k
    BY <2>2
  <2> HIDE DEF zero
  <2>4. IsFiniteSet(half) /\ Cardinality(half) \in Nat /\ Cardinality(half) <= k - zero
    BY <1>2, <2>1, <2>3, PlacesBound
  <2>5. IsFiniteSet(half) /\ Cardinality(half) \in Nat /\ Cardinality(half) <= k
    BY <1>2, <2>4 DEF zero
  <2>6. QED
    BY <1>1, <1>2, <2>5
<1>5. CASE half = S \ FirstHalf(S)
  <2>1. half \in SUBSET S /\ \A f \in half : ~(2 * place(f) < count)
    BY <1>5 DEF FirstHalf
  <2>2. \A f \in half : k <= place(f) /\ place(f) < count
    BY <1>1, <1>2, <1>3, <2>1
  <2>3. IsFiniteSet(half) /\ Cardinality(half) \in Nat /\ Cardinality(half) <= count - k
    BY <1>1, <1>2, <2>1, <2>2, PlacesBound
  <2>4. QED
    BY <1>1, <1>2, <2>3
<1>6. QED
  BY <1>4, <1>5

\* Half as many, in twice as many pieces, are no more.
LEMMA TwiceAsMany ==
  ASSUME NEW a \in Int, NEW b \in Int, NEW m \in Nat, 2 * a <= b
  PROVE  a * (2 * m) <= b * m
OBVIOUS

\* A piece grows smaller as fast as the pieces of its depth grow in number.
LEMMA PiecesStayHalved ==
  ASSUME BatchesIInv, PiecesHalve, Next
  PROVE  PiecesHalve'
<1>0. work \in [Batches -> SUBSET [files : SUBSET Files, depth : 0..SplitMaxDepth]]
  BY DEF BatchesIInv, TypeOK
<1>1. PiecesFilled'
  BY PiecesStayFilled DEF PiecesHalve, PiecesFilled
<1>2. ASSUME NEW b \in Batches, StartBatch(b) PROVE PiecesHalve'
  <2>1. work' = [work EXCEPT ![b] = {[files |-> FileBatches[b], depth |-> 0]}]
    BY <1>2 DEF StartBatch, Piece
  <2>2. Cardinality(FileBatches[b]) \in Nat
    BY SpawnBatchesAssumption, FS_CardinalityType
  <2>3. (Cardinality(FileBatches[b]) - 1) * PiecesAt[0] < Cardinality(FileBatches[b])
    BY <2>2, PiecesDouble
  <2>4. QED
    BY <1>0, <1>1, <2>1, <2>3 DEF PiecesHalve, PiecesFilled
<1>3. ASSUME NEW b \in Batches, NEW p \in work[b], FailureSplit(b, p) PROVE PiecesHalve'
  <2> DEFINE few == Cardinality(p.files) - 1
             many == PiecesAt[p.depth]
             all == Cardinality(FileBatches[b])
  <2>1. /\ few \in Int /\ many \in Nat /\ all \in Nat
        /\ p.depth + 1 \in 0..SplitMaxDepth /\ PiecesAt[p.depth + 1] = 2 * many
        /\ few * many < all
    <3>1. p.depth \in 0..SplitMaxDepth /\ p.depth + 1 \in 0..SplitMaxDepth /\ p.depth + 1 # 0
          /\ (p.depth + 1) - 1 = p.depth /\ Cardinality(p.files) \in Nat
      BY <1>3, SplitPiece, SpawnBatchesAssumption
    <3>2. all \in Nat
      BY SpawnBatchesAssumption, FS_CardinalityType
    <3>3. QED
      BY <3>1, <3>2, PiecesDouble DEF PiecesHalve
  <2>2. ASSUME NEW q \in Halves(p)
        PROVE  (Cardinality(q.files) - 1) * PiecesAt[q.depth] < Cardinality(FileBatches[b])
    <3>1. q.depth = p.depth + 1 /\ q.files \in {FirstHalf(p.files), p.files \ FirstHalf(p.files)}
      BY DEF Halves, Piece
    <3>2. Cardinality(q.files) \in Nat /\ 2 * (Cardinality(q.files) - 1) <= few
      BY <1>3, <3>1, SplitPiece, HalvesHalve
    <3> DEFINE left == Cardinality(q.files) - 1
    <3>3. left \in Int /\ 2 * left <= few
      BY <3>2
    <3> HIDE DEF left, few, many, all
    <3>4. left * (2 * many) <= few * many
      BY <2>1, <3>3, TwiceAsMany
    <3>5. left * (2 * many) \in Int /\ few * many \in Int
      BY <2>1, <3>3
    <3>6. left * (2 * many) < all
      BY <2>1, <3>4, <3>5
    <3>7. QED
      BY <2>1, <3>1, <3>6 DEF left, all
  <2>3. work' = [work EXCEPT ![b] = (@ \ {p}) \cup Halves(p)]
    BY <1>3, SplitPiece
  <2> HIDE DEF few, many, all
  <2>4. QED
    BY <1>0, <1>1, <2>2, <2>3 DEF PiecesHalve, PiecesFilled
<1>4. CASE \A b \in Batches : work'[b] \subseteq work[b]
  BY <1>1, <1>4 DEF PiecesHalve, PiecesFilled
<1>5. QED
  BY <1>2, <1>3, <1>4, PiecesAreMade

\* However often a batch is split, no piece is empty, and a piece at the depth cap is a
\* single file if the cap is enough for the batch.
THEOREM PiecesAlwaysHalve == Spec => []PiecesHalve
<1>1. Init => PiecesHalve
  BY DEF Init, PiecesHalve
<1>2. BatchesIInv /\ PiecesHalve /\ [Next]_vars => PiecesHalve'
  <2>1. BatchesIInv /\ PiecesHalve /\ Next => PiecesHalve'
    BY PiecesStayHalved
  <2>2. PiecesHalve /\ UNCHANGED vars => PiecesHalve'
    BY DEF PiecesHalve, vars, passVars, batchVars
  <2>3. QED
    BY <2>1, <2>2
<1>3. QED
  BY <1>1, <1>2, BatchesInvariant, PTL DEF Spec

----------------------------------------------------------------------------
(* The progress *)

ScannedFiles ==
  (UNION {FileBatches[b] : b \in {c \in Batches : phase[c] = "settled"}}) \ deadlineSkippedFiles
StartedFiles == UNION {FileBatches[b] : b \in didStart}

\* A batch has had a process if it waits for one, or if any file of it was linted
\* or dropped.
StartsAgree ==
  /\ \A b \in Batches : phase[b] = "spawned" => b \in didStart
  /\ \A b \in Batches \ didStart : FileBatches[b] \cap (linted \cup StillDropped) = {}

CountsAgree ==
  /\ ScannedFileCount <= displayedFileCount /\ displayedFileCount <= StartedFileCount
  /\ displayedFileCount = TotalFileCount => ScannedFileCount = TotalFileCount

\* The counts are those of nested sets: what settled was started.
CountsNested ==
  /\ ScannedFiles \subseteq StartedFiles /\ StartedFiles \subseteq Files
  /\ ScannedFileCount = Cardinality(ScannedFiles) /\ ScannedFileCount \in Nat
  /\ StartedFileCount = Cardinality(StartedFiles) /\ StartedFileCount \in Nat
  /\ TotalFileCount \in Nat
  /\ ScannedFileCount <= StartedFileCount /\ StartedFileCount <= TotalFileCount

\* What has settled has started, and is one of the files.
LEMMA CountsAreNested == TypeOK /\ PassAgrees /\ EveryFileOnce /\ StartsAgree => CountsNested
<1> SUFFICES ASSUME TypeOK, PassAgrees, EveryFileOnce, StartsAgree PROVE CountsNested
  OBVIOUS
<1>1. ASSUME NEW b \in Batches, phase[b] = "settled", NEW f \in FileBatches[b] \ deadlineSkippedFiles
      PROVE  b \in didStart
  <2>1. Undecided(b) = {}
    BY <1>1 DEF Undecided, PassAgrees
  <2>2. f \in linted \cup StillDropped
    BY <2>1 DEF EveryFileOnce
  <2>3. QED
    BY <2>2 DEF StartsAgree
<1>2. ScannedFiles \subseteq StartedFiles
  BY <1>1 DEF ScannedFiles, StartedFiles
<1>3. StartedFiles \subseteq Files
  BY FilesAreNat DEF StartedFiles, TypeOK
<1>4. IsFiniteSet(StartedFiles) /\ IsFiniteSet(ScannedFiles)
  BY <1>2, <1>3, FilesFinite, FS_Subset
<1>5. ScannedFileCount = Cardinality(ScannedFiles) /\ StartedFileCount = Cardinality(StartedFiles)
  BY DEF ScannedFileCount, StartedFileCount, ScannedFiles, StartedFiles
<1>6. Cardinality(ScannedFiles) <= Cardinality(StartedFiles) /\ Cardinality(StartedFiles) <= Cardinality(Files)
  BY <1>2, <1>3, <1>4, FilesFinite, FS_Subset
<1>7. QED
  BY <1>2, <1>3, <1>4, <1>5, <1>6, FilesFinite, FS_CardinalityType DEF TotalFileCount, CountsNested

\* More batches are started, and the counts of the settled ones stay.
LEMMA StartingKeepsCounts ==
  ASSUME TypeOK, CountsNested, CountsNested', CountsAgree,
         ScannedFiles' = ScannedFiles, didStart \subseteq didStart', UNCHANGED displayedFileCount
  PROVE  CountsAgree'
<1>1. /\ ScannedFileCount' = ScannedFileCount
      /\ StartedFileCount \in Nat /\ StartedFileCount' \in Nat /\ ScannedFileCount \in Nat
      /\ StartedFileCount = Cardinality(StartedFiles) /\ StartedFileCount' = Cardinality(StartedFiles')
      /\ StartedFiles' \subseteq Files
  BY DEF CountsNested
<1>2. StartedFiles \subseteq StartedFiles'
  BY DEF StartedFiles
<1>3. StartedFileCount <= StartedFileCount'
  BY <1>1, <1>2, FilesFinite, FS_Subset
<1>4. displayedFileCount \in Nat /\ displayedFileCount' = displayedFileCount /\ TotalFileCount' = TotalFileCount
  BY DEF TypeOK, TotalFileCount
<1>5. QED
  BY <1>1, <1>3, <1>4 DEF CountsAgree

\* Files are linted and dropped only in batches that had a process.
LEMMA StartsNext ==
  ASSUME BatchesIInv, StartsAgree, Next
  PROVE  StartsAgree'
<1>a. TypeOK /\ PassAgrees /\ RescueAgrees /\ EveryFileOnce
  BY DEF BatchesIInv
<1>1. ASSUME didStart \subseteq didStart',
             \A c \in Batches : phase'[c] = "spawned" => phase[c] = "spawned" \/ c \in didStart',
             (linted \cup StillDropped)' \subseteq linted \cup StillDropped \cup StartedFiles
      PROVE  StartsAgree'
  <2>1. ASSUME NEW c \in Batches \ didStart' PROVE FileBatches[c] \cap (linted \cup StillDropped)' = {}
    <3>1. \A d \in didStart : FileBatches[c] \cap FileBatches[d] = {}
      BY <1>1, <1>a, FilesAreNat DEF TypeOK
    <3>2. FileBatches[c] \cap StartedFiles = {}
      BY <3>1 DEF StartedFiles
    <3>3. FileBatches[c] \cap (linted \cup StillDropped) = {}
      BY <1>1 DEF StartsAgree
    <3>4. QED
      BY <3>2, <3>3, <1>1
  <2>2. QED
    BY <2>1, <1>1 DEF StartsAgree
<1>2. ASSUME NEW b \in Batches, NEW p \in work[b],
             AnswerDiagnostics(b, p) \/ \E kind \in Splittable : FailureDropped(b, p, kind)
      PROVE  StartsAgree'
  <2>1. /\ phase[b] = "spawned" /\ phase' = [phase EXCEPT ![b] = "ready"]
        /\ UNCHANGED <<didStart, rescuedFiles>>
        /\ linted' \cup droppedFiles' \subseteq linted \cup droppedFiles \cup p.files
        /\ linted \cup StillDropped \subseteq linted' \cup StillDropped'
        /\ linted' \cup StillDropped' \subseteq linted \cup StillDropped \cup p.files
    BY <1>2 DEF AnswerDiagnostics, FailureDropped, StillDropped, rescueVars
  <2>2. p.files \subseteq StartedFiles
    BY <2>1, <1>a DEF StartsAgree, StartedFiles, TypeOK
  <2>3. \A c \in Batches : phase'[c] = "spawned" => phase[c] = "spawned"
    BY <2>1, <1>a DEF TypeOK
  <2>4. QED
    BY <1>1, <2>1, <2>2, <2>3
<1>3. ASSUME NEW b \in Batches, Advance(b) \/ SplitBudgetElapses(b),
             UNCHANGED <<linted, droppedFiles, rescuedFiles>>
      PROVE  StartsAgree'
  <2>1. StillDropped' = StillDropped
    BY <1>3 DEF StillDropped
  <2>2. CASE \E p \in work[b] : GrantSlot(b, p)
    <3>1. \/ phase' = [phase EXCEPT ![b] = "ready"] /\ didStart' = didStart
          \/ phase' = [phase EXCEPT ![b] = "spawned"] /\ didStart' = didStart \cup {b}
      BY <2>2 DEF GrantSlot, Skip
    <3>2. QED
      BY <1>1, <1>3, <1>a, <2>1, <3>1 DEF TypeOK
  <2>3. CASE ~\E p \in work[b] : GrantSlot(b, p)
    <3>1. /\ didStart' = didStart
          /\ \/ phase' = phase
             \/ \E next \in {"ready", "queued", "settled", "threw"} : phase' = [phase EXCEPT ![b] = next]
      BY <1>3, <2>3 DEF Advance, StartBatch, CallPiece, Skip, Answer, AnswerDiagnostics, FailureSkipped,
                        FailureDropped, FailureSplit, AnswerError, FinishBatch, SplitBudgetElapses
    <3>2. \A c \in Batches : phase'[c] = "spawned" => phase[c] = "spawned"
      BY <3>1, <1>a DEF TypeOK
    <3>3. QED
      BY <1>1, <1>3, <2>1, <3>1, <3>2
  <2>4. QED
    BY <2>2, <2>3
<1>4. ASSUME NEW b \in Batches, Advance(b) \/ SplitBudgetElapses(b) PROVE StartsAgree'
  <2>1. CASE Answer(b)
    <3>1. PICK p \in work[b] :
            \/ AnswerDiagnostics(b, p) \/ FailureSkipped(b, p) \/ FailureSplit(b, p)
            \/ \E kind \in Splittable : FailureDropped(b, p, kind)
      BY <2>1 DEF Answer
    <3>2. CASE FailureSkipped(b, p) \/ FailureSplit(b, p)
      <4>1. UNCHANGED <<linted, droppedFiles, rescuedFiles>>
        BY <3>2 DEF FailureSkipped, Skip, FailureSplit, fileVars, rescueVars
      <4>2. QED
        BY <4>1, <1>3, <1>4
    <3>3. QED
      BY <3>1, <3>2, <1>2
  <2>2. CASE ~Answer(b)
    <3>1. UNCHANGED <<linted, droppedFiles, rescuedFiles>>
      BY <1>4, <2>2 DEF Advance, StartBatch, CallPiece, GrantSlot, Skip, AnswerError, FinishBatch,
                        SplitBudgetElapses, fileVars, rescueVars
    <3>2. QED
      BY <3>1, <1>3, <1>4
  <2>3. QED
    BY <2>1, <2>2
<1>5. ASSUME UNCHANGED <<didStart, phase>>, (linted \cup StillDropped)' = linted \cup StillDropped
      PROVE  StartsAgree'
  BY <1>1, <1>5
<1>6. CASE PassThrows
  <2>1. CASE FreshPass
    BY <2>1 DEF FreshPass, StartsAgree, StillDropped
  <2>2. CASE ~FreshPass
    BY <1>5, <1>6, <2>2 DEF PassThrows, passVars, batchVars, fileVars, rescueVars, StillDropped
  <2>3. QED
    BY <2>1, <2>2
<1>7. CASE Tick \/ PassEnds \/ DeadlinePasses \/ RescueBudgetElapses
  <2>1. UNCHANGED <<didStart, phase, linted, droppedFiles, rescuedFiles>>
    BY <1>7 DEF Tick, PassEnds, Report, DeadlinePasses, RescueBudgetElapses, passVars, batchVars, fileVars,
                rescueVars
  <2>2. QED
    BY <2>1, <1>5 DEF StillDropped
<1>8. CASE Rescue
  <2>1. CASE RescueDiagnostics
    <3>1. /\ UNCHANGED <<didStart, phase, droppedFiles>> /\ rescueFile \in droppedFiles
          /\ linted' = linted \cup {rescueFile} /\ rescuedFiles' = rescuedFiles \cup {rescueFile}
      BY <2>1, <1>a DEF RescueDiagnostics, RescueAgrees, batchVars
    <3>2. (linted \cup StillDropped)' = linted \cup StillDropped
      BY <3>1, <1>a DEF StillDropped, RescueAgrees
    <3>3. QED
      BY <3>1, <3>2, <1>5
  <2>2. CASE RescueEnds
    BY <2>2, <1>5 DEF RescueEnds, Report, StillDropped, batchVars, rescueVars
  <2>3. CASE ~RescueDiagnostics /\ ~RescueEnds
    <3>1. UNCHANGED <<didStart, phase, linted, droppedFiles, rescuedFiles>>
      BY <1>8, <2>3 DEF Rescue, RescueCall, RescueSpawn, RescueFailure, passVars, batchVars, fileVars
    <3>2. QED
      BY <3>1, <1>5 DEF StillDropped
  <2>4. QED
    BY <2>1, <2>2, <2>3
<1>9. QED
  BY <1>4, <1>6, <1>7, <1>8 DEF Next

\* The displayed count stays between the two others.
LEMMA CountsNext ==
  ASSUME BatchesIInv, BatchesIInv', StartsAgree, CountsNested, CountsNested', CountsAgree, Next
  PROVE  CountsAgree'
<1>a. TypeOK /\ PassAgrees /\ EveryFileOnce /\ displayedFileCount \in Nat /\ displayedFileCount' \in Nat
  BY DEF BatchesIInv, TypeOK
<1>b. TotalFileCount' = TotalFileCount /\ TotalFileCount = Cardinality(Files)
  BY DEF TotalFileCount
<1>1. ASSUME ScannedFiles' = ScannedFiles, didStart \subseteq didStart', UNCHANGED displayedFileCount
      PROVE  CountsAgree'
  BY <1>1, <1>a, StartingKeepsCounts
<1>2. ASSUME UNCHANGED <<phase, didStart, deadlineSkippedFiles, displayedFileCount>> PROVE CountsAgree'
  BY <1>1, <1>2 DEF ScannedFiles
<1>3. ASSUME NEW b \in Batches, FinishBatch(b) PROVE CountsAgree'
  <2>0. /\ phase[b] = "ready" /\ work[b] = {} /\ phase' = [phase EXCEPT ![b] = "settled"]
        /\ UNCHANGED <<didStart, deadlineSkippedFiles, linted, droppedFiles, rescuedFiles>>
        /\ displayedFileCount' = IF b \in didStart /\ ScannedFileCount' > displayedFileCount
                                 THEN ScannedFileCount' ELSE displayedFileCount
    BY <1>3 DEF FinishBatch, fileVars, rescueVars
  <2>1. {c \in Batches : phase'[c] = "settled"} = {c \in Batches : phase[c] = "settled"} \cup {b}
    BY <2>0, <1>a DEF TypeOK
  <2>2. ScannedFiles' = ScannedFiles \cup (FileBatches[b] \ deadlineSkippedFiles)
    BY <2>0, <2>1 DEF ScannedFiles
  <2>3. StartedFiles' = StartedFiles
    BY <2>0 DEF StartedFiles
  <2>4. ScannedFileCount' \in Nat /\ ScannedFileCount \in Nat /\ StartedFileCount \in Nat /\ TotalFileCount \in Nat
        /\ ScannedFileCount' <= StartedFileCount /\ StartedFileCount' = StartedFileCount
        /\ ScannedFileCount' <= TotalFileCount
    BY <2>3, <1>b DEF CountsNested
  <2>5. CASE b \in didStart
    <3>1. ScannedFileCount <= ScannedFileCount'
      <4>1. IsFiniteSet(ScannedFiles') /\ ScannedFiles \in SUBSET ScannedFiles'
        BY <2>2, FilesFinite, FS_Subset DEF CountsNested
      <4>2. Cardinality(ScannedFiles) <= Cardinality(ScannedFiles')
        BY <4>1, FS_Subset
      <4>3. QED
        BY <4>2 DEF CountsNested
    <3>2. QED
      BY <2>0, <2>4, <2>5, <3>1, <1>a, <1>b DEF CountsAgree
  <2>6. CASE b \notin didStart
    <3>1. Undecided(b) = {}
      BY <2>0 DEF Undecided
    <3>2. FileBatches[b] \subseteq deadlineSkippedFiles
      BY <2>6, <3>1, <1>a DEF EveryFileOnce, StartsAgree
    <3>3. ScannedFiles' = ScannedFiles
      BY <2>2, <3>2
    <3>4. QED
      BY <1>1, <2>0, <2>6, <3>3
  <2>7. QED
    BY <2>5, <2>6
<1>4. ASSUME NEW b \in Batches, Advance(b) \/ SplitBudgetElapses(b), ~FinishBatch(b) PROVE CountsAgree'
  <2>1. /\ UNCHANGED displayedFileCount /\ didStart' \in {didStart, didStart \cup {b}}
        /\ phase' = phase
           \/ \E next \in {"ready", "queued", "spawned", "threw"} : phase' = [phase EXCEPT ![b] = next]
        /\ phase' = phase \/ phase[b] # "settled"
    <3>1. StartBatch(b) => phase[b] = "todo"
      <4>1. Len(FileBatches) \in Nat
        BY SpawnBatchesAssumption
      <4>2. QED
        BY <4>1, <1>a DEF StartBatch, PassAgrees, Batches
    <3>2. QED
      BY <1>4, <3>1 DEF Advance, StartBatch, CallPiece, GrantSlot, Skip, Answer, AnswerDiagnostics,
            FailureSkipped, FailureDropped, FailureSplit, AnswerError, SplitBudgetElapses
  <2>2. \/ deadlineSkippedFiles' = deadlineSkippedFiles
        \/ /\ \E p \in work[b] : deadlineSkippedFiles' = deadlineSkippedFiles \cup p.files
           /\ phase[b] # "settled"
    BY <1>4 DEF Advance, StartBatch, CallPiece, GrantSlot, Skip, Answer, AnswerDiagnostics,
            FailureSkipped, FailureDropped, FailureSplit, AnswerError, SplitBudgetElapses, fileVars
  <2>3. \A c \in Batches : phase'[c] = "settled" <=> phase[c] = "settled"
    BY <2>1, <1>a DEF TypeOK
  <2> DEFINE settled == UNION {FileBatches[c] : c \in {d \in Batches : phase[d] = "settled"}}
  <2>4. settled \cap deadlineSkippedFiles' = settled \cap deadlineSkippedFiles
    <3>1. ASSUME NEW p \in work[b], phase[b] # "settled" PROVE settled \cap p.files = {}
      <4>1. p.files \subseteq FileBatches[b]
        BY <1>a DEF TypeOK
      <4>2. \A c \in Batches : phase[c] = "settled" => FileBatches[c] \cap FileBatches[b] = {}
        BY <3>1, FilesAreNat
      <4>3. QED
        BY <4>1, <4>2
    <3>2. QED
      BY <2>2, <3>1
  <2>5. ScannedFiles' = settled \ deadlineSkippedFiles'
    BY <2>3 DEF ScannedFiles
  <2>6. ScannedFiles' = ScannedFiles
    BY <2>4, <2>5 DEF ScannedFiles
  <2>7. QED
    BY <1>1, <2>1, <2>6
<1>5. CASE Tick
  <2>1. /\ displayedFileCount < StartedFileCount /\ displayedFileCount < TotalFileCount - 1
        /\ displayedFileCount' = displayedFileCount + 1
        /\ ScannedFileCount' = ScannedFileCount /\ StartedFileCount' = StartedFileCount
    BY <1>5 DEF Tick, ScannedFileCount, StartedFileCount, batchVars, fileVars
  <2>2. ScannedFileCount \in Nat /\ StartedFileCount \in Nat /\ TotalFileCount \in Nat
    BY DEF CountsNested
  <2>3. QED
    BY <2>1, <2>2, <1>a, <1>b DEF CountsAgree
<1>6. CASE PassThrows
  <2>1. CASE FreshPass
    <3>1. ScannedFiles' = {} /\ displayedFileCount' = 0
      BY <2>1 DEF FreshPass, ScannedFiles
    <3>2. ScannedFileCount' = 0
      BY <3>1, FS_EmptySet DEF CountsNested
    <3>3. QED
      BY <3>1, <3>2 DEF CountsAgree, CountsNested
  <2>2. CASE ~FreshPass
    BY <1>2, <1>6, <2>2 DEF PassThrows, passVars, batchVars, fileVars
  <2>3. QED
    BY <2>1, <2>2
<1>7. CASE PassEnds \/ Rescue \/ DeadlinePasses \/ RescueBudgetElapses
  <2>1. UNCHANGED <<phase, didStart, deadlineSkippedFiles, displayedFileCount>>
    BY <1>7 DEF PassEnds, Rescue, RescueCall, RescueSpawn, RescueDiagnostics, RescueFailure, RescueEnds,
                DeadlinePasses, RescueBudgetElapses, passVars, batchVars, fileVars
  <2>2. QED
    BY <2>1, <1>2
<1>8. QED
  BY <1>3, <1>4, <1>5, <1>6, <1>7 DEF Next

\* The progress a user sees is honest, however batches finish, are skipped or are
\* replayed: between what settled and what was started, and full only when all
\* the files settled.
THEOREM ProgressStaysHonest == Spec => []ProgressHonest
<1> DEFINE ProgressIInv == StartsAgree /\ CountsAgree
<1>1. BatchesIInv /\ StartsAgree => CountsNested
  BY CountsAreNested DEF BatchesIInv
<1>2. Init => ProgressIInv
  <2> SUFFICES ASSUME Init PROVE ProgressIInv
    OBVIOUS
  <2>1. StartsAgree
    BY DEF Init, StartsAgree, StillDropped
  <2>2. CountsNested
    BY <2>1, <1>1, BatchesInitIInv
  <2>3. ScannedFiles = {} /\ displayedFileCount = 0
    BY DEF Init, ScannedFiles
  <2>4. ScannedFileCount = 0
    BY <2>2, <2>3, FS_EmptySet DEF CountsNested
  <2>5. QED
    BY <2>1, <2>2, <2>3, <2>4 DEF CountsAgree, CountsNested
<1>3. BatchesIInv /\ BatchesIInv' /\ CountsNested /\ CountsNested' /\ ProgressIInv /\ Next => CountsAgree'
  BY CountsNext
<1>4. BatchesIInv /\ ProgressIInv /\ Next => StartsAgree'
  BY StartsNext
<1>5. ProgressIInv /\ UNCHANGED vars => ProgressIInv'
  BY DEF StartsAgree, CountsAgree, StillDropped, ScannedFileCount, StartedFileCount, TotalFileCount,
         vars, passVars, batchVars, fileVars, rescueVars
<1>6. ProgressIInv => ProgressHonest
  BY DEF CountsAgree, ProgressHonest
<1> HIDE DEF ProgressIInv
<1>7. BatchesIInv /\ BatchesIInv' /\ ProgressIInv /\ [Next]_vars => ProgressIInv'
  <2>1. ProgressIInv => StartsAgree
    BY DEF ProgressIInv
  <2>2. (StartsAgree /\ CountsAgree)' => ProgressIInv'
    BY DEF ProgressIInv
  <2>3. (BatchesIInv /\ StartsAgree => CountsNested)'
    BY <1>1, PTL
  <2>4. QED
    BY <1>1, <1>3, <1>4, <1>5, <2>1, <2>2, <2>3
<1>8. QED
  BY <1>2, <1>6, <1>7, BatchesInvariant, PTL DEF Spec

----------------------------------------------------------------------------
(* A pass can always go on *)

\* The pieces of a batch follow one another, whatever was split.
PiecesInOrder ==
  \A b \in Batches : \A p, q \in work[b] : p # q =>
    \/ \A f \in p.files, g \in q.files : f < g
    \/ \A f \in p.files, g \in q.files : g < f

\* A call has its piece, batches start in order, and what threw has left its error.
CallsAgree ==
  /\ \A b \in Batches : phase[b] \in {"queued", "spawned"} => work[b] # {}
  /\ \A b \in Batches : phase[b] = "todo" => b >= nextIndex
  /\ \A b \in Batches : phase[b] = "threw" => firstError # NoReason

\* A pass is never stuck: each batch in flight has one next piece, the leftmost, or
\* none left at all; and with none in flight the pass throws, takes the next batch,
\* or ends.
PassGoesOn ==
  /\ \A b \in InFlight :
       \/ phase[b] = "ready" /\ work[b] = {}
       \/ \E p \in work[b] : \A q \in work[b] : Leftmost(b, q) <=> q = p
  /\ stage \in {"main", "replay"} /\ InFlight = {} =>
       \/ firstError # NoReason
       \/ nextIndex \in Batches /\ phase[nextIndex] = "todo"
       \/ \A b \in Batches : phase[b] = "settled"

\* Every file of the first half comes before every file of the second.
LEMMA HalvesInOrder ==
  ASSUME NEW S \in SUBSET Nat, IsFiniteSet(S), NEW f \in FirstHalf(S), NEW g \in S \ FirstHalf(S)
  PROVE  f < g
<1> SUFFICES ASSUME ~(f < g) PROVE FALSE
  OBVIOUS
<1> DEFINE before == [h \in S |-> {e \in S : e < h}]
           below == [h \in S |-> Cardinality(before[h])]
<1>1. f \in S /\ g \in S /\ f # g /\ f \in Nat /\ g \in Nat
  BY DEF FirstHalf
<1>2. g < f
  BY <1>1
<1>3. /\ before[f] = {e \in S : e < f} /\ before[g] = {e \in S : e < g}
      /\ before[f] \in SUBSET S /\ before[g] \in SUBSET S
      /\ below[f] = Cardinality(before[f]) /\ below[g] = Cardinality(before[g])
  BY <1>1
<1>4. 2 * below[f] < Cardinality(S) /\ ~(2 * below[g] < Cardinality(S))
  BY <1>1 DEF FirstHalf
<1> HIDE DEF before, below
<1>5. below[g] < below[f]
  BY <1>1, <1>2, <1>3, BeforeGrows
<1>6. below[f] \in Nat /\ below[g] \in Nat /\ Cardinality(S) \in Nat
  BY <1>3, FS_Subset, FS_CardinalityType
<1>7. QED
  BY <1>4, <1>5, <1>6

\* A split leaves the pieces in order.
LEMMA SplitKeepsOrder ==
  ASSUME BatchesIInv, PiecesInOrder, NEW b \in Batches, NEW p \in work[b], FailureSplit(b, p)
  PROVE  PiecesInOrder'
<1> DEFINE low == FirstHalf(p.files)
           high == p.files \ FirstHalf(p.files)
<1>0. work \in [Batches -> SUBSET [files : SUBSET Files, depth : 0..SplitMaxDepth]]
  BY DEF BatchesIInv, TypeOK
<1>1. work' = [work EXCEPT ![b] = (@ \ {p}) \cup Halves(p)]
  BY SplitPiece
<1>2. \A f \in low, g \in high : f < g
  BY SplitPiece, HalvesInOrder
<1>3. /\ low \subseteq p.files /\ high \subseteq p.files
      /\ Halves(p) = {[files |-> low, depth |-> p.depth + 1], [files |-> high, depth |-> p.depth + 1]}
  BY DEF FirstHalf, Halves, Piece
<1> HIDE DEF low, high
<1>4. ASSUME NEW q \in work[b] \ {p}, NEW r \in Halves(p)
      PROVE  \/ \A f \in q.files, g \in r.files : f < g
             \/ \A f \in q.files, g \in r.files : g < f
  <2>1. r.files \subseteq p.files
    BY <1>3
  <2>2. \/ \A f \in q.files, g \in p.files : f < g
        \/ \A f \in q.files, g \in p.files : g < f
    BY DEF PiecesInOrder
  <2>3. QED
    BY <2>1, <2>2
<1>5. ASSUME NEW q \in Halves(p), NEW r \in Halves(p), q # r
      PROVE  \/ \A f \in q.files, g \in r.files : f < g
             \/ \A f \in q.files, g \in r.files : g < f
  BY <1>2, <1>3, <1>5
<1>6. ASSUME NEW c \in Batches, NEW q \in work'[c], NEW r \in work'[c], q # r
      PROVE  \/ \A f \in q.files, g \in r.files : f < g
             \/ \A f \in q.files, g \in r.files : g < f
  <2>1. CASE q \in work[c] /\ r \in work[c]
    BY <2>1, <1>6 DEF PiecesInOrder
  <2>2. CASE ~(q \in work[c] /\ r \in work[c])
    <3>1. /\ q \in (work[b] \ {p}) \cup Halves(p) /\ r \in (work[b] \ {p}) \cup Halves(p)
          /\ q \in Halves(p) \/ r \in Halves(p)
      BY <1>0, <1>1, <1>6, <2>2
    <3>2. CASE q \in Halves(p) /\ r \in Halves(p)
      BY <1>5, <1>6, <3>2
    <3>3. CASE q \notin Halves(p)
      BY <1>4, <3>1, <3>3
    <3>4. CASE r \notin Halves(p)
      BY <1>4, <3>1, <3>4
    <3>5. QED
      BY <3>2, <3>3, <3>4
  <2>3. QED
    BY <2>1, <2>2
<1>7. QED
  BY <1>6 DEF PiecesInOrder

\* The pieces stay in order.
LEMMA PiecesStayInOrder ==
  ASSUME BatchesIInv, PiecesInOrder, Next
  PROVE  PiecesInOrder'
<1>0. work \in [Batches -> SUBSET [files : SUBSET Files, depth : 0..SplitMaxDepth]]
  BY DEF BatchesIInv, TypeOK
<1>1. ASSUME NEW b \in Batches, StartBatch(b) PROVE PiecesInOrder'
  <2>1. work' = [work EXCEPT ![b] = {Piece(FileBatches[b], 0)}]
    BY <1>1 DEF StartBatch
  <2>2. QED
    BY <1>0, <2>1 DEF PiecesInOrder
<1>2. CASE \A b \in Batches : work'[b] \subseteq work[b]
  BY <1>2 DEF PiecesInOrder
<1>3. QED
  BY <1>1, <1>2, PiecesAreMade, SplitKeepsOrder

\* Pieces in order have one that is leftmost.
LEMMA OneLeftmost ==
  ASSUME BatchesIInv, PiecesFilled, PiecesInOrder, NEW b \in Batches, work[b] # {}
  PROVE  \E p \in work[b] : \A q \in work[b] : Leftmost(b, q) <=> q = p
<1> DEFINE all == UNION {p.files : p \in work[b]}
<1>1. \A p \in work[b] : p.files \subseteq Nat /\ p.files # {}
  BY FilesAreNat DEF BatchesIInv, TypeOK, PiecesFilled
<1>2. all \in SUBSET Nat /\ all # {}
  BY <1>1
<1>3. PICK m \in all : \A n \in all : m <= n
  BY <1>2, LeastOfNat
<1>4. PICK p \in work[b] : m \in p.files
  BY <1>3
<1>5. ASSUME NEW q \in work[b] \ {p} PROVE \A f \in p.files, g \in q.files : f < g
  <2>1. PICK g \in q.files : g \in Nat
    BY <1>1
  <2>2. m <= g /\ m \in Nat
    BY <1>2, <1>3
  <2>3. ~(g < m)
    BY <2>1, <2>2
  <2>4. QED
    BY <1>4, <2>1, <2>3 DEF PiecesInOrder
<1>6. Leftmost(b, p)
  BY <1>5 DEF Leftmost
<1>7. ASSUME NEW q \in work[b], Leftmost(b, q), q # p PROVE FALSE
  <2>1. PICK f \in p.files, g \in q.files : f \in Nat /\ g \in Nat
    BY <1>1
  <2>2. f < g /\ g < f
    BY <1>5, <1>7, <2>1 DEF Leftmost
  <2>3. QED
    BY <2>1, <2>2
<1>8. QED
  BY <1>6, <1>7

\* Calls keep their pieces until they are answered, and errors until the replay.
LEMMA CallsNext ==
  ASSUME BatchesIInv, CallsAgree, Next
  PROVE  CallsAgree'
<1>a. TypeOK /\ PassAgrees
  BY DEF BatchesIInv
<1>b. Len(FileBatches) \in Nat
  BY SpawnBatchesAssumption
<1>1. ASSUME UNCHANGED <<phase, work, nextIndex, firstError>> PROVE CallsAgree'
  BY <1>1 DEF CallsAgree
<1>2. ASSUME NEW b \in Batches, NEW next \in {"ready", "settled"},
             phase' = [phase EXCEPT ![b] = next], UNCHANGED <<nextIndex, firstError>>,
             \A c \in Batches \ {b} : work'[c] = work[c]
      PROVE  CallsAgree'
  BY <1>2, <1>a DEF CallsAgree, TypeOK
<1>3. ASSUME NEW b \in Batches, StartBatch(b) PROVE CallsAgree'
  <2>1. /\ b = nextIndex /\ nextIndex' = b + 1 /\ phase' = [phase EXCEPT ![b] = "ready"]
        /\ \A c \in Batches \ {b} : work'[c] = work[c]
        /\ UNCHANGED firstError /\ firstError = NoReason
    BY <1>3, <1>a DEF StartBatch, TypeOK
  <2>2. QED
    BY <2>1, <1>a, <1>b DEF CallsAgree, TypeOK, Batches
<1>4. ASSUME NEW b \in Batches, NEW p \in work[b], NEW next \in {"queued", "spawned"},
             phase' = [phase EXCEPT ![b] = next], UNCHANGED <<nextIndex, work, firstError>>
      PROVE  CallsAgree'
  BY <1>4, <1>a DEF CallsAgree, TypeOK
<1>5. ASSUME NEW b \in Batches, NEW p \in work[b], CallPiece(b, p) \/ GrantSlot(b, p)
      PROVE  CallsAgree'
  <2>1. CASE Skip(b, p)
    BY <2>1, <1>2, <1>a DEF Skip, TypeOK
  <2>2. CASE ~Skip(b, p)
    BY <2>2, <1>4, <1>5 DEF CallPiece, GrantSlot
  <2>3. QED
    BY <2>1, <2>2
<1>6. ASSUME NEW b \in Batches, Answer(b) PROVE CallsAgree'
  BY <1>6, <1>2, <1>a DEF Answer, AnswerDiagnostics, FailureSkipped, Skip, FailureSplit, FailureDropped,
                          TypeOK
<1>7. ASSUME NEW b \in Batches, NEW error \in Errors, AnswerError(b, error) PROVE CallsAgree'
  <2>1. firstError' # NoReason
    BY <1>7, NoReasonAssumption DEF AnswerError, Default
  <2>2. phase' = [phase EXCEPT ![b] = "threw"] /\ UNCHANGED <<nextIndex, work>>
    BY <1>7 DEF AnswerError
  <2>3. QED
    BY <2>1, <2>2, <1>a DEF CallsAgree, TypeOK
<1>8. ASSUME NEW b \in Batches, FinishBatch(b) PROVE CallsAgree'
  BY <1>8, <1>2 DEF FinishBatch
<1>9. CASE PassThrows
  <2>1. CASE FreshPass
    BY <2>1, <1>b DEF FreshPass, CallsAgree, Batches
  <2>2. CASE ~FreshPass
    BY <2>2, <1>1, <1>9 DEF PassThrows, passVars, batchVars
  <2>3. QED
    BY <2>1, <2>2
<1>10. CASE \/ \E b \in Batches : SplitBudgetElapses(b)
            \/ Tick \/ PassEnds \/ Rescue \/ DeadlinePasses \/ RescueBudgetElapses
  BY <1>1, <1>10 DEF SplitBudgetElapses, Tick, PassEnds, Rescue, RescueCall, RescueSpawn,
       RescueDiagnostics, RescueFailure, RescueEnds, DeadlinePasses, RescueBudgetElapses,
       passVars, batchVars
<1>11. QED
  BY <1>3, <1>5, <1>6, <1>7, <1>8, <1>9, <1>10 DEF Next, Advance

\* A pass is never stuck, whatever was split, skipped, dropped or thrown.
THEOREM PassNeverStuck == Spec => []PassGoesOn
<1> DEFINE GoingIInv == PiecesFilled /\ PiecesInOrder /\ CallsAgree
<1>1. Init => GoingIInv
  BY SpawnBatchesAssumption DEF Init, PiecesFilled, PiecesInOrder, CallsAgree, Batches
<1>2. BatchesIInv /\ GoingIInv /\ [Next]_vars => GoingIInv'
  <2>1. BatchesIInv /\ GoingIInv /\ Next => GoingIInv'
    BY PiecesStayFilled, PiecesStayInOrder, CallsNext
  <2>2. GoingIInv /\ UNCHANGED vars => GoingIInv'
    BY DEF PiecesFilled, PiecesInOrder, CallsAgree, vars, passVars, batchVars
  <2>3. QED
    BY <2>1, <2>2
<1>3. BatchesIInv /\ GoingIInv => PassGoesOn
  <2> SUFFICES ASSUME BatchesIInv, GoingIInv PROVE PassGoesOn
    OBVIOUS
  <2>a. TypeOK
    BY DEF BatchesIInv
  <2>1. ASSUME NEW b \in InFlight
        PROVE  \/ phase[b] = "ready" /\ work[b] = {}
               \/ \E p \in work[b] : \A q \in work[b] : Leftmost(b, q) <=> q = p
    <3>1. b \in Batches /\ phase[b] \in {"ready", "queued", "spawned"}
      BY DEF InFlight
    <3>2. work[b] = {} => phase[b] = "ready"
      BY <3>1 DEF CallsAgree
    <3>3. QED
      BY <3>1, <3>2, OneLeftmost
  <2>2. ASSUME InFlight = {}, firstError = NoReason, NEW b \in Batches, phase[b] # "settled"
        PROVE  nextIndex \in Batches /\ phase[nextIndex] = "todo"
    <3>1. phase[b] = "todo"
      BY <2>2, <2>a DEF CallsAgree, InFlight, TypeOK, Phases
    <3>2. b >= nextIndex
      BY <3>1 DEF CallsAgree
    <3>3. Len(FileBatches) \in Nat
      BY SpawnBatchesAssumption
    <3>4. nextIndex \in Batches
      BY <3>2, <3>3, <2>a DEF Batches, TypeOK
    <3>5. nextIndex >= nextIndex
      BY <3>3, <2>a DEF TypeOK
    <3>6. QED
      BY <3>4, <3>5 DEF BatchesIInv, PassAgrees
  <2>3. QED
    BY <2>1, <2>2 DEF PassGoesOn
<1> HIDE DEF GoingIInv
<1>4. QED
  BY <1>1, <1>2, <1>3, BatchesInvariant, PTL DEF Spec

=============================================================================
