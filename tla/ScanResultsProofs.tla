------------------------- MODULE ScanResultsProofs -------------------------
(***************************************************************************)
(* Proofs about ScanResults, for any number of scans, trees and entries.   *)
(*                                                                         *)
(* Every entry is whole (EntryOK), on disk and in memory, because a check  *)
(* that fell short has left a marker, its own or that of the check it      *)
(* depends on (MarkersTell), and because as long as git tells of no        *)
(* change, key and checks are of what it told first (KeyAgrees,            *)
(* ChecksAgree), and the base is of the commit asked for (BaseAgrees).     *)
(***************************************************************************)
EXTENDS ScanResults, TLAPS

USE ScanResultsAssumption

EntryOK(e) ==
  \A c \in Checks :
    IF c \in Asked(e.key[2])
    THEN /\ c # "supplyChain" => e.payload.seen[c] \in Trees
         /\ e.payload.steady =>
              e.payload.seen[c] = Missing \/ Identity[e.payload.seen[c]] = e.key[1]
         /\ c = "base" /\ e.key[2] # Symbolic => e.payload.compared = e.key[2]
    ELSE e.payload.seen[c] = NotAsked

CacheOK == \A e \in disk \cup UNION {loaded[s] : s \in Scans} : EntryOK(e)

\* What a run knows of the repository holds until the repository changes.
MemoAgrees(s) == s \notin moved /\ memo[s] \notin {Unread, Off} => memo[s] = Identity[tree]

KeyAgrees(s) ==
  phase[s] = "scanning" /\ key[s] # Off =>
    /\ key[s][2] = request[s].base /\ memo[s] # Unread
    /\ s \notin moved => key[s][1] = Identity[tree]

\* What a check has is, for git, of the tree as it is.
Current(v) == v \in {Pending, Missing} \/ Identity[v] = Identity[tree]

ChecksAgree(s) ==
  phase[s] = "scanning" =>
    \A c \in Checks :
      IF c \in Asked(request[s].base)
      THEN /\ seen[s][c] # NotAsked
           /\ key[s] # Off /\ s \notin moved => Current(seen[s][c])
      ELSE seen[s][c] = NotAsked

BaseAgrees(s) ==
  phase[s] = "scanning" /\ seen[s]["base"] \in Trees /\ request[s].base # Symbolic =>
    compared[s] = request[s].base

MarkersTell(s) ==
  /\ phase[s] = "idle" => flags[s] = {}
  /\ phase[s] = "scanning" =>
       /\ seen[s]["lint"] = Missing =>
            flags[s] \cap {"lintFailed", "bindingMissing", "filesDropped", "rulesDropped"} # {}
       /\ seen[s]["maintainability"] = Missing =>
            flags[s] \cap {"lintFailed", "maintainabilityFailed"} # {}
       /\ seen[s]["security"] = Missing => "securityFailed" \in flags[s]
       /\ seen[s]["base"] \in Trees => HeadDone(s) /\ IsComparable(s)

Inv ==
  /\ TypeOK /\ CacheOK /\ ReportsAreGrounded
  /\ \A s \in Scans : MemoAgrees(s) /\ KeyAgrees(s) /\ ChecksAgree(s) /\ MarkersTell(s) /\ BaseAgrees(s)

----------------------------------------------------------------------------
\* Initially nothing is cached and no scan has begun.
LEMMA InitHolds == Init => Inv
<1>1. Init => TypeOK
  BY DEF Init, TypeOK, Keys, Bases, Flags, NoReport
<1>2. Init => CacheOK /\ ReportsAreGrounded
  BY DEF Init, CacheOK, ReportsAreGrounded
<1>3. Init => \A s \in Scans : MemoAgrees(s) /\ KeyAgrees(s) /\ ChecksAgree(s) /\ MarkersTell(s) /\ BaseAgrees(s)
  BY DEF Init, MemoAgrees, KeyAgrees, ChecksAgree, MarkersTell, BaseAgrees
<1>4. QED  BY <1>1, <1>2, <1>3 DEF Inv

\* What the requests and the checks of a mode are.
LEMMA Asking ==
  /\ \A s \in Scans : \A r \in Requests[s] : r \in [base : Bases, budget : BOOLEAN]
  /\ \A m \in Bases : Asked(m) \subseteq Checks /\ {"lint", "maintainability", "supplyChain"} \subseteq Asked(m)
  /\ HeadChecks \subseteq Checks /\ "base" \in Checks
BY DEF Bases, Asked, Checks, HeadChecks

\* A cached entry has the types of its parts.
LEMMA EntryTyped ==
  ASSUME NEW e \in Entries
  PROVE  /\ e.key \in Keys /\ e.key[1] \in Known /\ e.key[2] \in Bases
         /\ e.createdAt \in Nat /\ e.payload \in Payloads
         /\ e.payload.seen \in [Checks -> Trees \cup {NotAsked, Missing}]
         /\ e.payload.score \in BOOLEAN
BY DEF Entries, Keys, Payloads

\* A sibling's scan makes this run look at the repository.
LEMMA SiblingHolds ==
  ASSUME Inv, NEW s \in Scans, Sibling(s)  PROVE Inv'
<1> USE DEF Inv, Sibling, scanVars, treeVars
<1>1. TypeOK'  BY DEF TypeOK, Known
<1>2. CacheOK' /\ ReportsAreGrounded'  BY DEF CacheOK, EntryOK, ReportsAreGrounded
<1>3. ASSUME NEW t \in Scans  PROVE MemoAgrees(t)' /\ KeyAgrees(t)' /\ ChecksAgree(t)' /\ MarkersTell(t)' /\ BaseAgrees(t)'
  <2>1. MemoAgrees(t)'  BY DEF MemoAgrees, TypeOK
  <2>2. KeyAgrees(t)' /\ ChecksAgree(t)'  BY DEF KeyAgrees, ChecksAgree, Current, TypeOK
  <2>3. MarkersTell(t)' /\ BaseAgrees(t)'  BY DEF MarkersTell, BaseAgrees, HeadDone, IsComparable
  <2>4. QED  BY <2>1, <2>2, <2>3
<1>4. QED  BY <1>1, <1>2, <1>3

\* A scan begins: a miss starts from what is on disk, a hit reports a whole entry.
LEMMA BeginHolds ==
  ASSUME Inv, NEW s \in Scans, NEW asked \in Requests[s], NEW identity \in Identities(s),
         NEW read \in Reads, Begin(s, asked, identity, read)
  PROVE  Inv'
<1> DEFINE k == IF identity = Off THEN Off ELSE <<identity, asked.base>>
           entries == IF k = Off THEN {} ELSE read
           hits == Replayable(entries, k)
<1> USE DEF Inv
<1>0. /\ phase[s] = "idle" /\ memo' \in Memos(s, identity)
      /\ troubles' = IF identity = Off /\ memo[s] # Off THEN troubles + 1 ELSE troubles
      /\ request' = [request EXCEPT ![s] = asked] /\ key' = [key EXCEPT ![s] = k]
      /\ UNCHANGED <<compared, flags, spent, disk, stores, tree, named, moved, edits>>
  BY DEF Begin, treeVars
<1>a. asked \in [base : Bases, budget : BOOLEAN] /\ asked.base \in Bases
  BY Asking
<1>b. /\ identity \in Known \cup {Off}
      /\ identity # Off => identity = IF memo[s] = Unread THEN Identity[tree] ELSE memo[s]
      /\ identity = Off /\ memo[s] # Off => troubles < MaxTroubles
  BY DEF Identities, TypeOK, Known
<1>c. /\ memo' \in [Scans -> Known \cup {Unread, Off}]
      /\ \A t \in Scans : t # s => memo'[t] = memo[t]
      /\ memo[s] # Unread => memo' = memo
      /\ identity # Off => memo'[s] = identity /\ memo'[s] # Unread
      /\ identity = Off => memo'[s] \in {memo[s], Off}
  <2>1. /\ memo' = memo \/ (memo' = [memo EXCEPT ![s] = identity] /\ memo[s] = Unread)
        /\ identity # Off => memo'[s] # Unread
    BY <1>0 DEF Memos
  <2>2. memo \in [Scans -> Known \cup {Unread, Off}] /\ tree \in Trees
    BY DEF TypeOK
  <2>3. CASE memo' = memo
    BY <1>b, <2>1, <2>2, <2>3
  <2>4. CASE memo' = [memo EXCEPT ![s] = identity] /\ memo[s] = Unread
    BY <1>b, <2>2, <2>4
  <2>5. QED  BY <2>1, <2>3, <2>4
<1>d. k \in Keys \cup {Off} /\ (identity # Off => k # Off /\ k[1] = identity /\ k[2] = asked.base)
  BY <1>a, <1>b DEF Keys, Known, Bases
<1>e. troubles' \in 0..MaxTroubles
  BY <1>0, <1>b DEF TypeOK
<1>f. \A e \in entries : e \in Entries /\ EntryOK(e)
  BY DEF TypeOK, CacheOK, Reads
<1>g. \A t \in Scans : MemoAgrees(t)'
  BY <1>0, <1>b, <1>c DEF MemoAgrees, TypeOK
<1>1. CASE hits = {}
  <2>0. /\ phase' = [phase EXCEPT ![s] = "scanning"] /\ loaded' = [loaded EXCEPT ![s] = entries]
        /\ seen' = [seen EXCEPT ![s] = [c \in Checks |-> IF c \in Asked(asked.base) THEN Pending ELSE NotAsked]]
        /\ report' = report
    BY <1>1 DEF Begin
  <2>1. TypeOK'
    BY <1>0, <1>a, <1>c, <1>d, <1>e, <1>f, <2>0 DEF TypeOK
  <2>2. CacheOK'
    <3>1. loaded'[s] = entries /\ \A t \in Scans : t # s => loaded'[t] = loaded[t]
      BY <2>0 DEF TypeOK
    <3>2. QED  BY <1>0, <1>f, <3>1 DEF CacheOK, EntryOK
  <2>3. ReportsAreGrounded'
    BY <1>0, <2>0 DEF ReportsAreGrounded, TypeOK
  <2>4. ASSUME NEW t \in Scans  PROVE KeyAgrees(t)' /\ ChecksAgree(t)' /\ MarkersTell(t)' /\ BaseAgrees(t)'
    <3>1. CASE t = s
      <4>1. phase'[s] = "scanning" /\ key'[s] = k /\ request'[s] = asked
            /\ seen'[s] = [c \in Checks |-> IF c \in Asked(asked.base) THEN Pending ELSE NotAsked]
        BY <1>0, <1>a, <2>0 DEF TypeOK
      <4>2. KeyAgrees(s)'  BY <1>0, <1>b, <1>c, <1>d, <1>g, <4>1 DEF KeyAgrees, MemoAgrees, TypeOK
      <4>3. ChecksAgree(s)'  BY <4>1 DEF ChecksAgree, Current
      <4>4. MarkersTell(s)' /\ BaseAgrees(s)'  BY <1>0, <4>1 DEF MarkersTell, BaseAgrees, Checks, HeadChecks
      <4>5. QED  BY <3>1, <4>2, <4>3, <4>4
    <3>2. CASE t # s
      <4>1. /\ phase'[t] = phase[t] /\ key'[t] = key[t] /\ request'[t] = request[t]
            /\ seen'[t] = seen[t] /\ flags'[t] = flags[t] /\ memo'[t] = memo[t]
            /\ compared' = compared /\ tree' = tree
        BY <1>0, <1>c, <2>0, <3>2 DEF TypeOK
      <4>2. QED  BY <1>0, <4>1 DEF KeyAgrees, ChecksAgree, Current, MarkersTell, BaseAgrees, HeadDone, IsComparable
    <3>3. QED  BY <3>1, <3>2
  <2>5. QED  BY <1>g, <2>1, <2>2, <2>3, <2>4
<1>2. CASE hits # {}
  <2>0. PICK e \in hits : /\ phase' = [phase EXCEPT ![s] = "replayed"]
                          /\ report' = [report EXCEPT ![s] = e.payload]
                          /\ UNCHANGED <<loaded, seen>>
    BY <1>2 DEF Begin
  <2>a. e \in Entries /\ EntryOK(e)
    BY <1>f DEF Replayable
  <2>1. TypeOK'
    BY <1>0, <1>a, <1>c, <1>d, <1>e, <2>0, <2>a, EntryTyped DEF TypeOK
  <2>2. CacheOK'
    BY <1>0, <2>0 DEF CacheOK, EntryOK
  <2>3. ReportsAreGrounded'
    <3>1. e.payload.seen["lint"] \in Trees /\ e.payload.seen["maintainability"] \in Trees
      BY <2>a, EntryTyped, Asking DEF EntryOK, Checks, HeadChecks
    <3>2. flags'[s] = {} /\ report'[s] = e.payload
      BY <1>0, <2>0 DEF MarkersTell, TypeOK
    <3>3. \A t \in Scans : t # s => phase'[t] = phase[t] /\ flags'[t] = flags[t] /\ report'[t] = report[t]
      BY <1>0, <2>0 DEF TypeOK
    <3>4. QED  BY <3>1, <3>2, <3>3 DEF ReportsAreGrounded
  <2>4. ASSUME NEW t \in Scans  PROVE KeyAgrees(t)' /\ ChecksAgree(t)' /\ MarkersTell(t)' /\ BaseAgrees(t)'
    <3>1. CASE t = s
      <4>1. phase'[s] = "replayed"  BY <2>0 DEF TypeOK
      <4>2. QED  BY <3>1, <4>1 DEF KeyAgrees, ChecksAgree, MarkersTell, BaseAgrees
    <3>2. CASE t # s
      <4>1. /\ phase'[t] = phase[t] /\ key'[t] = key[t] /\ request'[t] = request[t]
            /\ seen'[t] = seen[t] /\ flags'[t] = flags[t] /\ memo'[t] = memo[t]
            /\ compared' = compared /\ tree' = tree
        BY <1>0, <1>c, <2>0, <3>2 DEF TypeOK
      <4>2. QED  BY <1>0, <4>1 DEF KeyAgrees, ChecksAgree, Current, MarkersTell, BaseAgrees, HeadDone, IsComparable
    <3>3. QED  BY <3>1, <3>2
  <2>5. QED  BY <1>g, <2>1, <2>2, <2>3, <2>4
<1>3. QED  BY <1>1, <1>2

----------------------------------------------------------------------------
(* The checks *)

\* What a step of a scan's checks leaves alone.
Steady(s) ==
  /\ phase[s] = "scanning"
  /\ UNCHANGED <<phase, request, key, loaded, report, memo, disk, stores, tree, named, moved, edits>>
  /\ \A t \in Scans : t # s => seen'[t] = seen[t] /\ flags'[t] = flags[t] /\ compared'[t] = compared[t]

\* A step of a scan's checks preserves the invariant if it does so for that scan.
LEMMA StepOfChecks ==
  ASSUME Inv, NEW s \in Scans, Steady(s), TypeOK', ChecksAgree(s)', MarkersTell(s)', BaseAgrees(s)'
  PROVE  Inv'
<1> USE DEF Inv, Steady
<1>1. CacheOK'  BY DEF CacheOK, EntryOK
<1>2. ReportsAreGrounded'
  <2>1. \A t \in Scans : phase[t] \in {"replayed", "reported"} => flags'[t] = flags[t]
    OBVIOUS
  <2>2. QED  BY <2>1 DEF ReportsAreGrounded
<1>3. ASSUME NEW t \in Scans  PROVE MemoAgrees(t)' /\ KeyAgrees(t)' /\ ChecksAgree(t)' /\ MarkersTell(t)' /\ BaseAgrees(t)'
  <2>1. MemoAgrees(t)' /\ KeyAgrees(t)'  BY DEF MemoAgrees, KeyAgrees
  <2>2. CASE t = s  BY <2>1, <2>2
  <2>3. CASE t # s
    BY <2>1, <2>3 DEF ChecksAgree, Current, MarkersTell, BaseAgrees, HeadDone, IsComparable
  <2>4. QED  BY <2>2, <2>3
<1>4. QED  BY <1>1, <1>2, <1>3

\* A check c that is due ends: complete, or missing something and with markers.  What is
\* left to show is what the markers tell.
LEMMA AnyCheckEnds ==
  ASSUME Inv, NEW s \in Scans, NEW c \in Checks, NEW v \in {tree, Missing},
         NEW F \in SUBSET Flags, IsDue(s, c), Unmoved, troubles' \in 0..MaxTroubles,
         seen' = [seen EXCEPT ![s][c] = v], flags' = [flags EXCEPT ![s] = @ \cup F],
         compared' \in [Scans -> Commits \cup {NotAsked}],
         \A t \in Scans : t # s => compared'[t] = compared[t],
         MarkersTell(s)', BaseAgrees(s)'
  PROVE  Inv'
<1> USE DEF Inv, Unmoved, cacheVars, treeVars, IsDue
<1>1. Steady(s)  BY DEF Steady, TypeOK
<1>2. /\ seen'[s] \in [Checks -> Trees \cup {Pending, NotAsked, Missing}]
      /\ \A d \in Checks : seen'[s][d] = IF d = c THEN v ELSE seen[s][d]
  BY DEF TypeOK
<1>3. TypeOK'  BY <1>2 DEF TypeOK
<1>4. ChecksAgree(s)'
  BY <1>2 DEF ChecksAgree, Current, TypeOK
<1>5. QED  BY <1>1, <1>3, <1>4, StepOfChecks

\* A check of the head does not touch the base.
LEMMA CheckEnds ==
  ASSUME Inv, NEW s \in Scans, NEW c \in HeadChecks, NEW v \in {tree, Missing},
         NEW F \in SUBSET Flags, IsDue(s, c), CheckFrame, troubles' \in 0..MaxTroubles,
         seen' = [seen EXCEPT ![s][c] = v], flags' = [flags EXCEPT ![s] = @ \cup F],
         MarkersTell(s)'
  PROVE  Inv'
<1>1. c \in Checks /\ c # "base" /\ "base" \in Checks  BY DEF HeadChecks, Checks
<1>2. Unmoved /\ compared' = compared  BY DEF CheckFrame
<1>3. compared' \in [Scans -> Commits \cup {NotAsked}]  BY <1>2 DEF Inv, TypeOK
<1>4. seen'[s]["base"] = seen[s]["base"]  BY <1>1 DEF Inv, TypeOK
<1>5. BaseAgrees(s)'  BY <1>2, <1>4 DEF Unmoved, Inv, BaseAgrees
<1>6. QED  BY <1>1, <1>2, <1>3, <1>5, AnyCheckEnds

\* While a check of the head is due the base has not been looked at, so that a marker for
\* what is missing is all the markers have to tell.
LEMMA HeadCheckTells ==
  ASSUME Inv, NEW s \in Scans, NEW c \in HeadChecks, NEW v \in {tree, Missing},
         NEW F \in SUBSET Flags, IsDue(s, c), phase' = phase,
         seen' = [seen EXCEPT ![s][c] = v], flags' = [flags EXCEPT ![s] = @ \cup F],
         v = Missing =>
           /\ c = "lint" =>
                (flags[s] \cup F) \cap {"lintFailed", "bindingMissing", "filesDropped", "rulesDropped"} # {}
           /\ c = "maintainability" => (flags[s] \cup F) \cap {"lintFailed", "maintainabilityFailed"} # {}
           /\ c = "security" => "securityFailed" \in flags[s] \cup F
  PROVE  MarkersTell(s)'
<1> USE DEF Inv
<1>1. phase[s] = "scanning" /\ phase'[s] = "scanning" /\ flags'[s] = flags[s] \cup F
  BY DEF IsDue, TypeOK
<1>2. \A d \in Checks : seen'[s][d] = IF d = c THEN v ELSE seen[s][d]
  BY DEF TypeOK, Checks
<1>3. seen'[s]["base"] = seen[s]["base"] /\ seen[s]["base"] \notin Trees
  <2>1. c # "base" /\ "base" \in Checks  BY DEF HeadChecks, Checks
  <2>2. ~HeadDone(s)  BY DEF HeadDone, IsDue
  <2>3. QED  BY <1>1, <1>2, <2>1, <2>2 DEF MarkersTell
<1>4. /\ seen'[s]["lint"] = Missing =>
           flags'[s] \cap {"lintFailed", "bindingMissing", "filesDropped", "rulesDropped"} # {}
      /\ seen'[s]["maintainability"] = Missing =>
           flags'[s] \cap {"lintFailed", "maintainabilityFailed"} # {}
      /\ seen'[s]["security"] = Missing => "securityFailed" \in flags'[s]
  <2>1. {"lint", "maintainability", "security"} \subseteq Checks  BY DEF Checks, HeadChecks
  <2>2. QED  BY <1>1, <1>2, <2>1 DEF MarkersTell
<1>5. QED  BY <1>1, <1>3, <1>4 DEF MarkersTell

\* The security scan.
LEMMA SecurityHolds ==
  ASSUME Inv, NEW s \in Scans, Security(s)  PROVE Inv'
<1>0. IsDue(s, "security") /\ "security" \in HeadChecks /\ "security" \in Checks /\ CheckFrame
  BY DEF Security, Checks, HeadChecks
<1>1. CASE Succeeds(s, "security")
  <2>1. flags' = [flags EXCEPT ![s] = @ \cup {}] /\ {} \in SUBSET Flags /\ tree # Missing
    BY <1>1 DEF Succeeds, Inv, TypeOK
  <2>2. MarkersTell(s)'
    BY <1>0, <1>1, <2>1, HeadCheckTells DEF Succeeds, CheckFrame, Unmoved
  <2>3. QED  BY <1>0, <1>1, <2>1, <2>2, CheckEnds DEF Succeeds, Inv, TypeOK
<1>2. CASE FallsShort(s, "security", {"securityFailed"})
  <2>1. {"securityFailed"} \in SUBSET Flags  BY DEF Flags
  <2>2. MarkersTell(s)'
    BY <1>0, <1>2, <2>1, HeadCheckTells DEF FallsShort, CheckFrame, Unmoved
  <2>3. troubles' \in 0..MaxTroubles  BY <1>2 DEF FallsShort, Inv, TypeOK
  <2>4. QED  BY <1>0, <1>2, <2>1, <2>2, <2>3, CheckEnds DEF FallsShort
<1>3. QED  BY <1>1, <1>2 DEF Security

\* The supply-chain check, which leaves no marker when its lookups fail open.
LEMMA SupplyChainHolds ==
  ASSUME Inv, NEW s \in Scans, SupplyChain(s)  PROVE Inv'
<1>0. IsDue(s, "supplyChain") /\ "supplyChain" \in HeadChecks /\ "supplyChain" \in Checks /\ CheckFrame
  BY DEF SupplyChain, Checks, HeadChecks
<1>1. CASE Succeeds(s, "supplyChain")
  <2>1. flags' = [flags EXCEPT ![s] = @ \cup {}] /\ {} \in SUBSET Flags /\ tree # Missing
    BY <1>1 DEF Succeeds, Inv, TypeOK
  <2>2. MarkersTell(s)'
    BY <1>0, <1>1, <2>1, HeadCheckTells DEF Succeeds, CheckFrame, Unmoved
  <2>3. QED  BY <1>0, <1>1, <2>1, <2>2, CheckEnds DEF Succeeds, Inv, TypeOK
<1>2. ASSUME NEW F \in {{}, {"supplyChainTimedOut"}}, FallsShort(s, "supplyChain", F)  PROVE Inv'
  <2>1. F \in SUBSET Flags  BY DEF Flags
  <2>2. MarkersTell(s)'
    BY <1>0, <1>2, <2>1, HeadCheckTells DEF FallsShort, CheckFrame, Unmoved
  <2>3. troubles' \in 0..MaxTroubles  BY <1>2 DEF FallsShort, Inv, TypeOK
  <2>4. QED  BY <1>0, <1>2, <2>1, <2>2, <2>3, CheckEnds DEF FallsShort
<1>3. QED  BY <1>1, <1>2 DEF SupplyChain

\* The lint, each of whose failures leaves a marker of its own.
LEMMA LintHolds ==
  ASSUME Inv, NEW s \in Scans, Lint(s)  PROVE Inv'
<1>0. IsDue(s, "lint") /\ "lint" \in HeadChecks /\ "lint" \in Checks /\ CheckFrame
  BY DEF Lint, Checks, HeadChecks
<1>1. CASE Succeeds(s, "lint")
  <2>1. flags' = [flags EXCEPT ![s] = @ \cup {}] /\ {} \in SUBSET Flags /\ tree # Missing
    BY <1>1 DEF Succeeds, Inv, TypeOK
  <2>2. MarkersTell(s)'
    BY <1>0, <1>1, <2>1, HeadCheckTells DEF Succeeds, CheckFrame, Unmoved
  <2>3. QED  BY <1>0, <1>1, <2>1, <2>2, CheckEnds DEF Succeeds, Inv, TypeOK
<1>2. ASSUME NEW m \in {"lintFailed", "bindingMissing", "filesDropped", "rulesDropped"},
             FallsShort(s, "lint", {m})
      PROVE  Inv'
  <2>1. {m} \in SUBSET Flags  BY DEF Flags
  <2>2. MarkersTell(s)'
    BY <1>0, <1>2, <2>1, HeadCheckTells DEF FallsShort, CheckFrame, Unmoved
  <2>3. troubles' \in 0..MaxTroubles  BY <1>2 DEF FallsShort, Inv, TypeOK
  <2>4. QED  BY <1>0, <1>2, <2>1, <2>2, <2>3, CheckEnds DEF FallsShort
<1>3. QED  BY <1>1, <1>2 DEF Lint

\* The maintainability analysis.
LEMMA MaintainabilityHolds ==
  ASSUME Inv, NEW s \in Scans, Maintainability(s)  PROVE Inv'
<1>0. IsDue(s, "maintainability") /\ "maintainability" \in HeadChecks /\ "maintainability" \in Checks /\ CheckFrame
  BY DEF Maintainability, MaintainabilityIsDue, Checks, HeadChecks
<1>1. CASE Succeeds(s, "maintainability")
  <2>1. flags' = [flags EXCEPT ![s] = @ \cup {}] /\ {} \in SUBSET Flags /\ tree # Missing
    BY <1>1 DEF Succeeds, Inv, TypeOK
  <2>2. MarkersTell(s)'
    BY <1>0, <1>1, <2>1, HeadCheckTells DEF Succeeds, CheckFrame, Unmoved
  <2>3. QED  BY <1>0, <1>1, <2>1, <2>2, CheckEnds DEF Succeeds, Inv, TypeOK
<1>2. CASE FallsShort(s, "maintainability", {"maintainabilityFailed"})
  <2>1. {"maintainabilityFailed"} \in SUBSET Flags  BY DEF Flags
  <2>2. MarkersTell(s)'
    BY <1>0, <1>2, <2>1, HeadCheckTells DEF FallsShort, CheckFrame, Unmoved
  <2>3. troubles' \in 0..MaxTroubles  BY <1>2 DEF FallsShort, Inv, TypeOK
  <2>4. QED  BY <1>0, <1>2, <2>1, <2>2, <2>3, CheckEnds DEF FallsShort
<1>3. QED  BY <1>1, <1>2 DEF Maintainability

\* A skipped analysis either follows a failed lint or is marked itself.
LEMMA SkipHolds ==
  ASSUME Inv, NEW s \in Scans, SkipMaintainability(s)  PROVE Inv'
<1> DEFINE F == IF "lintFailed" \in flags[s] THEN {} ELSE {"maintainabilityFailed"}
<1>0. IsDue(s, "maintainability") /\ "maintainability" \in HeadChecks /\ "maintainability" \in Checks /\ CheckFrame
  BY DEF SkipMaintainability, MaintainabilityIsDue, Checks, HeadChecks
<1>1. flags' = [flags EXCEPT ![s] = @ \cup F]
  BY DEF SkipMaintainability, Inv, TypeOK
<1>2. F \in SUBSET Flags /\ troubles' \in 0..MaxTroubles
  BY DEF Flags, SkipMaintainability, Inv, TypeOK
<1>3. seen' = [seen EXCEPT ![s]["maintainability"] = Missing] /\ (flags[s] \cup F) \cap {"lintFailed", "maintainabilityFailed"} # {}
  BY DEF SkipMaintainability
<1> HIDE DEF F
<1>4. MarkersTell(s)'
  BY <1>0, <1>1, <1>2, <1>3, HeadCheckTells DEF CheckFrame, Unmoved
<1>5. QED  BY <1>0, <1>1, <1>2, <1>3, <1>4, CheckEnds

\* The baseline comparison, last.
LEMMA BaseHolds ==
  ASSUME Inv, NEW s \in Scans, Base(s)  PROVE Inv'
<1>0. HeadDone(s) /\ IsDue(s, "base") /\ "base" \in Checks /\ Unmoved
  BY DEF Base, Checks
<1>1. flags' = [flags EXCEPT ![s] = @ \cup {}]
  BY DEF Base, Succeeds, FallsShort, Inv, TypeOK
<1>2. troubles' \in 0..MaxTroubles
  BY DEF Base, Succeeds, FallsShort, Inv, TypeOK
<1>3. PICK v \in {tree, Missing} : /\ seen' = [seen EXCEPT ![s]["base"] = v]
                                   /\ v = Missing \/ IsComparable(s)
                                   /\ \/ compared' = [compared EXCEPT ![s] = Resolved(request[s].base)]
                                      \/ v = Missing /\ compared' = compared
  BY DEF Base, Succeeds, FallsShort
<1>4. MarkersTell(s)'
  <2>1. flags'[s] = flags[s] /\ phase' = phase
    BY <1>0, <1>1 DEF Inv, TypeOK, Unmoved
  <2>2. seen'[s]["base"] = v /\ \A c \in HeadChecks : seen'[s][c] = seen[s][c]
    BY <1>0, <1>3 DEF Inv, TypeOK, Checks, HeadChecks
  <2>3. HeadDone(s)' /\ (v \in Trees => IsComparable(s)')
    BY <1>0, <1>3, <2>1, <2>2 DEF HeadDone, IsComparable
  <2>4. QED  BY <2>1, <2>2, <2>3 DEF Inv, MarkersTell, HeadChecks
<1>5. {} \in SUBSET Flags  OBVIOUS
<1>6. request[s].base # NoBase /\ Resolved(request[s].base) \in Commits
  <2>1. phase[s] = "scanning" /\ seen[s]["base"] = Pending /\ request[s].base \in Bases
    BY <1>0 DEF IsDue, Inv, TypeOK
  <2>2. "base" \in Asked(request[s].base)  BY <1>0, <2>1 DEF Inv, ChecksAgree
  <2>3. request[s].base # NoBase  BY <2>2 DEF Asked, HeadChecks
  <2>4. QED  BY <2>1, <2>3 DEF Resolved, Bases, Inv, TypeOK
<1>7. /\ compared' \in [Scans -> Commits \cup {NotAsked}]
      /\ \A t \in Scans : t # s => compared'[t] = compared[t]
  BY <1>3, <1>6 DEF Inv, TypeOK
<1>8. BaseAgrees(s)'
  <2>1. request' = request /\ seen'[s]["base"] = v  BY <1>0, <1>3 DEF Unmoved, Inv, TypeOK
  <2>2. CASE compared' = [compared EXCEPT ![s] = Resolved(request[s].base)]
    <3>1. compared'[s] = Resolved(request[s].base)  BY <2>2 DEF Inv, TypeOK
    <3>2. QED  BY <2>1, <3>1 DEF BaseAgrees, Resolved
  <2>3. CASE v = Missing  BY <2>1, <2>3 DEF BaseAgrees
  <2>4. QED  BY <1>3, <2>2, <2>3
<1>9. QED  BY <1>0, <1>1, <1>2, <1>3, <1>4, <1>5, <1>7, <1>8, AnyCheckEnds

----------------------------------------------------------------------------
(* The end of a scan, and the repository *)

\* The budget runs out.
LEMMA DeadlineHolds ==
  ASSUME Inv, NEW s \in Scans, Deadline(s)  PROVE Inv'
<1> USE DEF Inv, Deadline, cacheVars, treeVars
<1>1. Steady(s)  BY DEF Steady
<1>2. TypeOK'  BY DEF TypeOK
<1>3. ChecksAgree(s)' /\ MarkersTell(s)' /\ BaseAgrees(s)'
  BY DEF ChecksAgree, Current, MarkersTell, BaseAgrees, HeadDone, IsComparable
<1>4. QED  BY <1>1, <1>2, <1>3, StepOfChecks

\* The result of a scan whose markers let it be stored is whole.
LEMMA StoredEntryOK ==
  ASSUME Inv, NEW s \in Scans, HeadDone(s), seen[s]["base"] # Pending, ShouldStore(s), key[s] # Off,
         NEW e \in Entries, e.key = key[s], e.payload.seen = seen[s],
         e.payload.compared = compared[s], e.payload.steady = (s \notin moved)
  PROVE  EntryOK(e)
<1> USE DEF Inv
<1>1. /\ phase[s] = "scanning" /\ flags[s] = {} /\ key[s][2] = request[s].base
      /\ s \notin moved => key[s][1] = Identity[tree]
  BY DEF HeadDone, ShouldStore, KeyAgrees
<1>2. \A c \in Checks : seen[s][c] \in Trees \cup {NotAsked, Missing}
  BY DEF HeadDone, TypeOK, Checks
<1>3. \A c \in Checks \ {"supplyChain"} : seen[s][c] # Missing
  BY <1>1 DEF MarkersTell, ShouldStore, Checks, HeadChecks
<1>4. ASSUME NEW c \in Checks, c \in Asked(request[s].base)
      PROVE  /\ c # "supplyChain" => seen[s][c] \in Trees
             /\ s \notin moved => seen[s][c] = Missing \/ Identity[seen[s][c]] = key[s][1]
             /\ c = "base" /\ key[s][2] # Symbolic => compared[s] = key[s][2]
  <2>1. seen[s][c] # NotAsked /\ (s \notin moved => Current(seen[s][c]))
    BY <1>1, <1>4 DEF ChecksAgree
  <2>2. seen[s][c] # Pending  BY <1>2, ScanResultsAssumption
  <2>3. c # "supplyChain" => seen[s][c] \in Trees  BY <1>2, <1>3, <2>1
  <2>4. c = "base" /\ key[s][2] # Symbolic => compared[s] = key[s][2]
    BY <1>1, <2>3 DEF BaseAgrees
  <2>5. QED  BY <1>1, <2>1, <2>2, <2>3, <2>4 DEF Current
<1>5. ASSUME NEW c \in Checks, c \notin Asked(request[s].base)
      PROVE  seen[s][c] = NotAsked
  BY <1>1, <1>5 DEF ChecksAgree
<1>6. QED  BY <1>1, <1>4, <1>5 DEF EntryOK

\* A scan ends: its report is grounded, and whole if it is stored.
LEMMA FinishHolds ==
  ASSUME Inv, NEW s \in Scans, Finish(s)  PROVE Inv'
<1> USE DEF Inv
<1>0. /\ HeadDone(s) /\ phase[s] = "scanning" /\ seen[s]["base"] # Pending
      /\ phase' = [phase EXCEPT ![s] = "reported"] /\ loaded' = [loaded EXCEPT ![s] = {}]
      /\ spent' = spent \ {s}
      /\ UNCHANGED <<request, key, seen, compared, flags, memo, tree, named, moved, edits, troubles>>
  BY DEF Finish, HeadDone, treeVars
<1>1. PICK score \in Scores(s) :
        LET payload == [seen |-> seen[s], compared |-> compared[s], score |-> score,
                        manifest |-> Manifest[tree], steady |-> s \notin moved]
            entry == [key |-> key[s], createdAt |-> stores, payload |-> payload]
            ours == {e \in loaded[s] : e.key # key[s]} \cup {entry}
        IN  /\ report' = [report EXCEPT ![s] = payload]
            /\ \/ /\ key[s] # Off /\ ShouldStore(s)
                  /\ disk' \in {Persist(read, ours) : read \in Reads} \cup {disk}
                  /\ stores' = stores + 1
               \/ UNCHANGED <<disk, stores>>
  BY DEF Finish
<1> DEFINE payload == [seen |-> seen[s], compared |-> compared[s], score |-> score,
                       manifest |-> Manifest[tree], steady |-> s \notin moved]
           entry == [key |-> key[s], createdAt |-> stores, payload |-> payload]
<1>2. payload \in Payloads /\ score \in BOOLEAN
  <2>1. score \in BOOLEAN  BY DEF Scores
  <2>2. seen[s] \in [Checks -> Trees \cup {NotAsked, Missing}]
    <3>1. seen[s] \in [Checks -> Trees \cup {Pending, NotAsked, Missing}]  BY DEF TypeOK
    <3>2. \A c \in Checks : seen[s][c] # Pending  BY <1>0 DEF HeadDone, Checks
    <3>3. QED  BY <3>1, <3>2
  <2>3. Manifest[tree] \in {Manifest[t] : t \in Trees}  BY DEF TypeOK
  <2>5. compared[s] \in Commits \cup {NotAsked}  BY DEF TypeOK
  <2>4. QED  BY <2>1, <2>2, <2>3, <2>5 DEF Payloads
<1>3. report' = [report EXCEPT ![s] = payload]
  BY <1>1
<1>4. /\ disk' \subseteq Entries /\ stores' \in Nat /\ loaded' \in [Scans -> SUBSET Entries]
      /\ CacheOK'
  <2>1. loaded' \in [Scans -> SUBSET Entries] /\ \A t \in Scans : loaded'[t] \subseteq loaded[t]
    BY <1>0 DEF TypeOK
  <2>2. CASE UNCHANGED <<disk, stores>>
    BY <2>1, <2>2 DEF TypeOK, CacheOK, EntryOK
  <2>3. CASE key[s] # Off /\ ShouldStore(s)
             /\ disk' \in {Persist(read, {e \in loaded[s] : e.key # key[s]} \cup {entry}) :
                             read \in Reads} \cup {disk}
             /\ stores' = stores + 1
    <3>1. entry \in Entries
      BY <1>2, <2>3 DEF Entries, TypeOK
    <3>2. EntryOK(entry)
      BY <1>0, <2>3, <3>1, StoredEntryOK
    <3>3. disk' \subseteq disk \cup loaded[s] \cup {entry}
      <4>1. ASSUME NEW read \in Reads, NEW kept  PROVE Persist(read, kept) \subseteq disk \cup kept
        BY DEF Persist, Newest, Reads
      <4> DEFINE ours == {e \in loaded[s] : e.key # key[s]} \cup {entry}
      <4>2. CASE disk' = disk  BY <4>2
      <4>3. CASE \E read \in Reads : disk' = Persist(read, ours)
        <5>1. PICK read \in Reads : disk' = Persist(read, ours)  BY <4>3
        <5>2. disk' \subseteq disk \cup ours
          <6> HIDE DEF ours
          <6>1. QED  BY <4>1, <5>1
        <5>3. QED  BY <5>2
      <4>4. QED  BY <2>3, <4>2, <4>3
    <3>4. \A e \in disk \cup loaded[s] \cup {entry} : e \in Entries /\ EntryOK(e)
      BY <3>1, <3>2 DEF TypeOK, CacheOK
    <3>5. \A e : EntryOK(e)' <=> EntryOK(e)  BY DEF EntryOK
    <3>6. CacheOK'
      BY <2>1, <3>3, <3>4, <3>5 DEF CacheOK
    <3>7. QED  BY <2>1, <2>3, <3>3, <3>4, <3>6 DEF TypeOK
  <2>4. QED  BY <1>1, <2>2, <2>3
<1>5. TypeOK'
  BY <1>0, <1>2, <1>3, <1>4 DEF TypeOK
<1>6. ReportsAreGrounded'
  <2>1. score => flags[s] \cap {"lintFailed", "bindingMissing", "maintainabilityFailed"} = {}
    BY DEF Scores
  <2>2. /\ seen[s]["maintainability"] # NotAsked /\ seen[s]["lint"] # NotAsked
        /\ seen[s]["maintainability"] # Pending /\ seen[s]["lint"] # Pending
    BY <1>0, Asking DEF ChecksAgree, HeadDone, HeadChecks, Checks, TypeOK
  <2>3. seen[s]["maintainability"] \in Trees \cup {Missing} /\ seen[s]["lint"] \in Trees \cup {Missing}
    BY <2>2 DEF TypeOK, Checks, HeadChecks
  <2>4. score => seen[s]["maintainability"] \in Trees
    BY <1>0, <2>1, <2>3 DEF MarkersTell
  <2>5. seen[s]["base"] \in Trees =>
          /\ seen[s]["maintainability"] \in Trees
          /\ seen[s]["lint"] \in Trees \/ "rulesDropped" \in flags[s]
    BY <1>0, <2>3 DEF MarkersTell, IsComparable
  <2>6. report'[s] = payload /\ flags' = flags
    BY <1>0, <1>3 DEF TypeOK
  <2>7. \A t \in Scans : t # s => report'[t] = report[t] /\ phase'[t] = phase[t]
    BY <1>0, <1>3 DEF TypeOK
  <2>8. QED  BY <2>1, <2>4, <2>5, <2>6, <2>7 DEF ReportsAreGrounded
<1>7. ASSUME NEW t \in Scans  PROVE MemoAgrees(t)' /\ KeyAgrees(t)' /\ ChecksAgree(t)' /\ MarkersTell(t)' /\ BaseAgrees(t)'
  <2>1. CASE t = s
    <3>1. phase'[s] = "reported"  BY <1>0 DEF TypeOK
    <3>2. QED  BY <1>0, <2>1, <3>1 DEF MemoAgrees, KeyAgrees, ChecksAgree, MarkersTell, BaseAgrees
  <2>2. CASE t # s
    <3>1. phase'[t] = phase[t]  BY <1>0, <2>2 DEF TypeOK
    <3>2. QED
      BY <1>0, <3>1 DEF MemoAgrees, KeyAgrees, ChecksAgree, Current, MarkersTell, BaseAgrees, HeadDone, IsComparable
  <2>3. QED  BY <2>1, <2>2
<1>8. QED  BY <1>4, <1>5, <1>6, <1>7

\* A scan that is thrown out leaves nothing behind.
LEMMA ThrowHolds ==
  ASSUME Inv, NEW s \in Scans, Throw(s)  PROVE Inv'
<1> USE DEF Inv, Throw, cacheVars, treeVars
<1>1. TypeOK'  BY DEF TypeOK
<1>2. CacheOK'
  <2>1. \A t \in Scans : loaded'[t] \subseteq loaded[t]  BY DEF TypeOK
  <2>2. QED  BY <2>1 DEF CacheOK, EntryOK
<1>3. /\ phase'[s] = "thrown"
      /\ \A t \in Scans : t # s => phase'[t] = phase[t] /\ flags'[t] = flags[t] /\ seen'[t] = seen[t]
                                        /\ compared'[t] = compared[t]
  BY DEF TypeOK
<1>4. ReportsAreGrounded'  BY <1>3 DEF ReportsAreGrounded
<1>5. ASSUME NEW t \in Scans  PROVE MemoAgrees(t)' /\ KeyAgrees(t)' /\ ChecksAgree(t)' /\ MarkersTell(t)' /\ BaseAgrees(t)'
  <2>1. CASE t = s
    BY <1>3, <2>1 DEF MemoAgrees, KeyAgrees, ChecksAgree, MarkersTell, BaseAgrees
  <2>2. CASE t # s
    BY <1>3, <2>2 DEF MemoAgrees, KeyAgrees, ChecksAgree, Current, MarkersTell, BaseAgrees, HeadDone, IsComparable
  <2>3. QED  BY <2>1, <2>2
<1>6. QED  BY <1>1, <1>2, <1>4, <1>5

\* The worktree changes: if git tells, what any run has looked at is old from then on.
LEMMA EditHolds ==
  ASSUME Inv, NEW u \in Trees, Edit(u)  PROVE Inv'
<1> USE DEF Inv, Edit, scanVars, cacheVars
<1>1. TypeOK'  BY DEF TypeOK
<1>2. CacheOK' /\ ReportsAreGrounded'  BY DEF CacheOK, EntryOK, ReportsAreGrounded
<1>3. ASSUME NEW t \in Scans  PROVE MemoAgrees(t)' /\ KeyAgrees(t)' /\ ChecksAgree(t)' /\ MarkersTell(t)' /\ BaseAgrees(t)'
  <2>1. \/ Identity[u] = Identity[tree] /\ moved' = moved
        \/ memo[t] # Unread => t \in moved'
    OBVIOUS
  <2>2. MemoAgrees(t)' /\ KeyAgrees(t)'
    BY <2>1 DEF MemoAgrees, KeyAgrees
  <2>3. ChecksAgree(t)'
    BY <2>1 DEF ChecksAgree, Current, KeyAgrees
  <2>4. MarkersTell(t)' /\ BaseAgrees(t)'
    BY DEF MarkersTell, BaseAgrees, HeadDone, IsComparable
  <2>5. QED  BY <2>2, <2>3, <2>4
<1>4. QED  BY <1>1, <1>2, <1>3

\* The name of a base moves: nothing that a scan has rests on where it is now.
LEMMA MoveNameHolds ==
  ASSUME Inv, NEW commit \in Commits, MoveName(commit)  PROVE Inv'
<1> USE DEF Inv, MoveName, scanVars, cacheVars
<1>1. TypeOK'  BY DEF TypeOK
<1>2. CacheOK' /\ ReportsAreGrounded'  BY DEF CacheOK, EntryOK, ReportsAreGrounded
<1>3. ASSUME NEW t \in Scans  PROVE MemoAgrees(t)' /\ KeyAgrees(t)' /\ ChecksAgree(t)' /\ MarkersTell(t)' /\ BaseAgrees(t)'
  BY DEF MemoAgrees, KeyAgrees, ChecksAgree, Current, MarkersTell, BaseAgrees, HeadDone, IsComparable
<1>4. QED  BY <1>1, <1>2, <1>3

\* Every step preserves the invariant.
LEMMA StepHolds == Inv /\ [Next]_vars => Inv'
<1> SUFFICES ASSUME Inv, [Next]_vars  PROVE Inv'
  OBVIOUS
<1>1. ASSUME NEW s \in Scans, ScanStep(s)  PROVE Inv'
  BY <1>1, SiblingHolds, BeginHolds, SecurityHolds, SupplyChainHolds, LintHolds, MaintainabilityHolds,
     SkipHolds, DeadlineHolds, BaseHolds, FinishHolds, ThrowHolds
  DEF ScanStep
<1>2. ASSUME NEW u \in Trees, Edit(u)  PROVE Inv'
  BY <1>2, EditHolds
<1>5. ASSUME NEW commit \in Commits, MoveName(commit)  PROVE Inv'
  BY <1>5, MoveNameHolds
<1>3. CASE UNCHANGED vars
  BY <1>3 DEF vars, scanVars, cacheVars, treeVars, Inv, TypeOK, CacheOK, EntryOK, ReportsAreGrounded,
     MemoAgrees, KeyAgrees, ChecksAgree, Current, MarkersTell, BaseAgrees, HeadDone, IsComparable
<1>4. QED  BY <1>1, <1>2, <1>3, <1>5 DEF Next

----------------------------------------------------------------------------
\* The variables keep their types.
THEOREM ScanTypeCorrect == Spec => []TypeOK
<1>1. Inv => TypeOK  BY DEF Inv
<1>2. QED  BY <1>1, InitHolds, StepHolds, PTL DEF Spec

\* Apart from the supply chain, whatever is in the cache is complete.
THEOREM StoredResultsComplete == Spec => []StoredIsComplete
<1>1. Inv => StoredIsComplete
  <2> SUFFICES ASSUME Inv, NEW e \in disk, NEW c \in Asked(e.key[2]) \ {"supplyChain"}
               PROVE  e.payload.seen[c] \in Trees
    BY DEF StoredIsComplete
  <2>1. e \in Entries /\ EntryOK(e)  BY DEF Inv, TypeOK, CacheOK
  <2>2. c \in Checks  BY <2>1, EntryTyped, Asking
  <2>3. QED  BY <2>1, <2>2 DEF EntryOK
<1>2. QED  BY <1>1, InitHolds, StepHolds, PTL DEF Spec

\* No report, computed or replayed, has a score or a delta on partial work.
THEOREM ReportsRest == Spec => []ReportsAreGrounded
<1>1. Inv => ReportsAreGrounded  BY DEF Inv
<1>2. QED  BY <1>1, InitHolds, StepHolds, PTL DEF Spec

\* In a repository that git says is at rest, a replay is what the scan would find, as far
\* as git can tell, and its delta is one against the commit asked for.
THEOREM ReplaysRest == Spec => ReplaysAreCurrent
<1>1. ASSUME Inv, [Next]_vars, NEW s \in Scans, phase[s] = "idle", phase'[s] = "replayed",
             s \notin moved, report'[s].steady, NEW c \in Checks
      PROVE  IF c \in Asked(request'[s].base)
             THEN \/ report'[s].seen[c] = Missing
                  \/ /\ Identity[report'[s].seen[c]] = Identity[tree]
                     /\ c = "base" /\ request'[s].base # Symbolic =>
                          report'[s].compared = request'[s].base
             ELSE report'[s].seen[c] = NotAsked
  <2> USE DEF Inv
  <2>1. PICK asked \in Requests[s], identity \in Identities(s), read \in Reads :
               Begin(s, asked, identity, read)
    <3>1. PICK t \in Scans : \/ ScanStep(t) \/ \E u \in Trees : Edit(u)
                             \/ \E commit \in Commits : MoveName(commit)
      BY <1>1 DEF Next, vars, scanVars
    <3>2. /\ ~\E u \in Trees : Edit(u)
          /\ ~\E commit \in Commits : MoveName(commit)
      BY <1>1 DEF Edit, MoveName, scanVars
    <3>3. \/ Sibling(t)
          \/ \E asked \in Requests[t], identity \in Identities(t), read \in Reads :
               Begin(t, asked, identity, read)
          \/ phase[t] = "scanning" /\ phase' \in {phase, [phase EXCEPT ![t] = "reported"],
                                                [phase EXCEPT ![t] = "thrown"]}
      <4>1. CASE Security(t) \/ SupplyChain(t) \/ Lint(t)
        BY <4>1 DEF Security, SupplyChain, Lint, IsDue, CheckFrame, Unmoved
      <4>2. CASE Maintainability(t) \/ SkipMaintainability(t)
        BY <4>2 DEF Maintainability, SkipMaintainability, MaintainabilityIsDue, IsDue, CheckFrame, Unmoved
      <4>3. CASE Deadline(t) \/ Base(t)
        BY <4>3 DEF Deadline, Base, IsDue, Unmoved
      <4>4. CASE Finish(t) \/ Throw(t)
        BY <4>4 DEF Finish, Throw, HeadDone
      <4>5. QED  BY <3>1, <3>2, <4>1, <4>2, <4>3, <4>4 DEF ScanStep
    <3>4. ~Sibling(t)  BY <1>1 DEF Sibling, scanVars
    <3>5. ~(phase[t] = "scanning" /\ phase' \in {phase, [phase EXCEPT ![t] = "reported"],
                                               [phase EXCEPT ![t] = "thrown"]})
      BY <1>1 DEF TypeOK
    <3>6. PICK asked \in Requests[t], identity \in Identities(t), read \in Reads :
                 Begin(t, asked, identity, read)
      BY <3>3, <3>4, <3>5
    <3>7. \A r \in Scans : r # t => phase'[r] = phase[r]
      <4>1. \/ phase' = [phase EXCEPT ![t] = "scanning"]
            \/ phase' = [phase EXCEPT ![t] = "replayed"]
        BY <3>6 DEF Begin
      <4>2. QED  BY <1>1, <4>1 DEF TypeOK
    <3>8. t = s  BY <1>1, <3>7
    <3>9. QED  BY <3>6, <3>8
  <2> DEFINE k == IF identity = Off THEN Off ELSE <<identity, asked.base>>
             hits == Replayable(IF k = Off THEN {} ELSE read, k)
  <2>2. request'[s] = asked
    <3>1. request' = [request EXCEPT ![s] = asked]  BY <2>1 DEF Begin
    <3>2. QED  BY <1>1, <3>1 DEF TypeOK
  <2>3. hits # {}
    <3>1. hits = {} => phase' = [phase EXCEPT ![s] = "scanning"]  BY <2>1 DEF Begin
    <3>2. QED  BY <1>1, <3>1 DEF TypeOK
  <2>4. PICK e \in hits : report' = [report EXCEPT ![s] = e.payload]
    BY <2>1, <2>3 DEF Begin
  <2>5. /\ e \in Entries /\ EntryOK(e) /\ k # Off /\ e.key = k
    BY <1>1, <2>4 DEF TypeOK, CacheOK, Replayable, Reads
  <2>a. report'[s] = e.payload
    BY <1>1, <2>4 DEF TypeOK
  <2>6. identity # Off /\ e.key[1] = identity /\ e.key[2] = asked.base
    BY <2>5, EntryTyped
  <2>7. identity = Identity[tree]
    BY <1>1, <2>6 DEF Identities, MemoAgrees, TypeOK
  <2>8. QED  BY <1>1, <2>2, <2>5, <2>a, <2>6, <2>7 DEF EntryOK
<1>2. Inv /\ [Next]_vars =>
        [\A s \in Scans :
           /\ phase[s] = "idle" /\ phase'[s] = "replayed"
           /\ s \notin moved /\ report'[s].steady
           => \A c \in Checks :
                IF c \in Asked(request'[s].base)
                THEN \/ report'[s].seen[c] = Missing
                     \/ /\ Identity[report'[s].seen[c]] = Identity[tree]
                        /\ c = "base" /\ request'[s].base # Symbolic =>
                             report'[s].compared = request'[s].base
                ELSE report'[s].seen[c] = NotAsked]_vars
  BY <1>1
<1>3. QED  BY <1>2, InitHolds, StepHolds, PTL DEF Spec, ReplaysAreCurrent
=============================================================================
