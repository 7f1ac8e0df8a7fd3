------------------------ MODULE NeutralizeDirectives ------------------------
(***************************************************************************)
(* neutralizeDisableDirectives of                                          *)
(* packages/core/src/neutralize-disable-directives.ts.  In audit mode a    *)
(* scan rewrites `eslint-disable` to `eslint_disable` in the user's own    *)
(* sources, lints, and writes the sources back.  Scans of nested           *)
(* directories run at once in one process and share the files: a file is   *)
(* leased, with the content to restore and the number of scans that hold   *)
(* the lease, and the initializations of overlapping scans take turns.     *)
(*                                                                         *)
(* A step is the code between two awaits.  The user may save a file        *)
(* between any two steps, and the process may exit there.  A file that a   *)
(* scan cannot resolve or read is passed over in silence.                  *)
(***************************************************************************)
EXTENDS Integers, FiniteSets

CONSTANTS
  Scans,     \* the calls of neutralizeDisableDirectives
  Files,     \* the source files, by their real path
  Scope,     \* Scope[s]: the files under the root of s that s was asked for
  GivenPaths, \* the scans that were asked for includePaths, not for the root
  Overlap,   \* the pairs of scans for whose roots directoriesOverlap holds
  NoLease,   \* no entry in neutralizedFileLeases
  MaxEdits   \* bound: how often the user saves any one file

\* What a file holds: which save of the user it comes from, and whether its
\* directives are live, neutralized, or it has none.
Spellings == {"live", "neutralized", "none"}
Contents == [save : 0..MaxEdits, spelling : Spellings]
Leases == [original : Contents, referenceCount : Nat \ {0}]

ASSUME NeutralizeAssumption ==
  /\ IsFiniteSet(Scans)
  /\ Scope \in [Scans -> SUBSET Files]
  /\ GivenPaths \subseteq Scans
  /\ MaxEdits \in Nat
  /\ NoLease \notin Leases
  /\ Overlap \subseteq Scans \X Scans
  /\ \A s, u \in Scans : <<s, u>> \in Overlap => <<u, s>> \in Overlap
  \* Real paths: a file under two roots means that one root is in the other.
  /\ \A s, u \in Scans : Scope[s] \cap Scope[u] # {} => <<s, u>> \in Overlap

VARIABLES
  phase,       \* how far each scan is
  blockers,    \* the initializations a scan waits for
  observed,    \* the files a discovery has looked at
  found,       \* the files in which it saw a live directive
  leasedPaths, \* the files each scan holds a lease on
  leases,      \* neutralizedFileLeases
  disk,        \* the content of every file
  exited,      \* the process is gone
  unrestored,  \* history: the files whose restoring write failed
  disturbed,   \* history: the files saved while a scan was on them
  unread,      \* history: the files each scan passed over
  settled      \* history: the last save of each file outside every scan

scanVars == <<phase, blockers, observed, found, unread>>
fileVars == <<leasedPaths, leases, disk>>
history == <<unrestored, disturbed, settled>>
vars == <<scanVars, fileVars, exited, history>>

Phases == {"idle", "waiting", "discovering", "failed", "linting", "ended"}

\* The members of activeNeutralizationInitializations.
Initializing == {s \in Scans : phase[s] \in {"waiting", "discovering"}}

\* The scans whose exit listener is registered.
Active == {s \in Scans : phase[s] \in {"waiting", "discovering", "failed", "linting"}}

Covering(f) == {s \in Active : f \in Scope[s]}

Holders(f) == {s \in Scans : f \in leasedPaths[s]}

Init ==
  /\ phase = [s \in Scans |-> "idle"]
  /\ blockers = [s \in Scans |-> {}]
  /\ observed = [s \in Scans |-> {}]
  /\ found = [s \in Scans |-> {}]
  /\ leasedPaths = [s \in Scans |-> {}]
  /\ leases = [f \in Files |-> NoLease]
  /\ disk \in [Files -> {[save |-> 0, spelling |-> sp] : sp \in {"live", "none"}}]
  /\ exited = FALSE
  /\ unrestored = {}
  /\ disturbed = {}
  /\ unread = [s \in Scans |-> {}]
  /\ settled = [f \in Files |-> 0]

\* neutralizeContent
Neutralized(content) ==
  IF content.spelling = "live" THEN [content EXCEPT !.spelling = "neutralized"] ELSE content

----------------------------------------------------------------------------
(* The lease map *)

\* leaseCandidatePath for every path of S: an existing lease gets one more
\* reference, a file with a live directive is rewritten and leased.
LeaseCandidates(s, S) ==
  LET fresh == S \ leasedPaths[s]
      adopted == {f \in fresh : leases[f] # NoLease}
      rewritten == {f \in fresh \ adopted : Neutralized(disk[f]) # disk[f]}
  IN /\ leasedPaths' = [leasedPaths EXCEPT ![s] = @ \cup adopted \cup rewritten]
     /\ leases' = [f \in Files |->
          IF f \in adopted
          THEN [leases[f] EXCEPT !.referenceCount = leases[f].referenceCount + 1]
          ELSE IF f \in rewritten THEN [original |-> disk[f], referenceCount |-> 1]
          ELSE leases[f]]
     /\ disk' = [f \in Files |-> IF f \in rewritten THEN Neutralized(disk[f]) ELSE disk[f]]

\* collectNeutralizationCandidatePaths and leaseCandidatePath over the paths of
\* S: a path that realpathSync or readFileSync fails on is passed over.  One
\* that is leased is not read, and resolved only where paths were given.
LeaseReadable(s, S) ==
  \E failing \in SUBSET {f \in S \ leasedPaths[s] : leases[f] # NoLease => s \in GivenPaths} :
    /\ LeaseCandidates(s, S \ failing)
    /\ unread' = [unread EXCEPT ![s] = @ \cup failing]

\* A zero-reference entry stays in the map.
MutantRestore(s) ==
  LET given == {f \in leasedPaths[s] : leases[f] # NoLease}
      last == {f \in given : leases[f].referenceCount <= 1}
  IN /\ leasedPaths' = [leasedPaths EXCEPT ![s] = {}]
     /\ leases' = [f \in Files |->
          IF f \in given
          THEN [leases[f] EXCEPT !.referenceCount = leases[f].referenceCount - 1]
          ELSE leases[f]]
     /\ disk' = [f \in Files |-> IF f \in last THEN leases[f].original ELSE disk[f]]
     /\ UNCHANGED unrestored

\* restore: the scan gives back its references; with the last one the lease is
\* deleted and then its content written back, which may fail.
Restore(s) ==
  LET given == {f \in leasedPaths[s] : leases[f] # NoLease}
      last == {f \in given : leases[f].referenceCount <= 1}
  IN /\ leasedPaths' = [leasedPaths EXCEPT ![s] = {}]
     /\ leases' = [f \in Files |->
          IF f \in last THEN NoLease
          ELSE IF f \in given
          THEN [leases[f] EXCEPT !.referenceCount = leases[f].referenceCount - 1]
          ELSE leases[f]]
     /\ \E failing \in SUBSET last :
          /\ unrestored' = unrestored \cup failing
          /\ disk' = [f \in Files |-> IF f \in last \ failing THEN leases[f].original ELSE disk[f]]

\* History: a file that no running scan covers any more is undisturbed again.
Forget(s) ==
  /\ disturbed' = {f \in disturbed : Covering(f) \ {s} # {}}
  /\ unread' = [unread EXCEPT ![s] = {}]

----------------------------------------------------------------------------
(* One scan *)

\* The initialization joins the active ones before it looks at them.
MutantWaitsForItself(s) == {u \in Initializing \cup {s} : <<s, u>> \in Overlap}

\* The initializations under way on overlapping roots, when s registers.
BlockersOf(s) == {u \in Initializing : <<s, u>> \in Overlap}

\* The call: the exit listener is registered, the initialization joins the
\* active ones before it waits for those it found there.
Begin(s) ==
  /\ ~exited
  /\ phase[s] = "idle"
  /\ phase' = [phase EXCEPT ![s] = "waiting"]
  /\ blockers' = [blockers EXCEPT ![s] = BlockersOf(s)]
  /\ UNCHANGED <<observed, found, unread, fileVars, exited, history>>

\* Discovery without the adoption of the leases that are active when it starts.
MutantAdopt(s) ==
  /\ ~exited
  /\ phase[s] = "waiting"
  /\ blockers[s] \cap Initializing = {}
  /\ phase' = [phase EXCEPT ![s] = "discovering"]
  /\ UNCHANGED <<blockers, observed, found, unread, fileVars, exited, history>>

\* Its turn: it adopts the active leases in its scope before the discovery
\* looks at any file.
Adopt(s) ==
  /\ ~exited
  /\ phase[s] = "waiting"
  /\ blockers[s] \cap Initializing = {}
  /\ phase' = [phase EXCEPT ![s] = "discovering"]
  /\ blockers' = [blockers EXCEPT ![s] = {}]
  /\ LeaseReadable(s, {f \in Scope[s] : leases[f] # NoLease})
  /\ UNCHANGED <<observed, found, exited, history>>

\* git grep, or the walk of the fallback, reads one file of the scope, or
\* cannot read it.
Observe(s, f) ==
  /\ ~exited
  /\ phase[s] = "discovering"
  /\ f \in Scope[s] \ observed[s]
  /\ observed' = [observed EXCEPT ![s] = @ \cup {f}]
  /\ \/ /\ found' = [found EXCEPT ![s] = IF disk[f].spelling = "live" THEN @ \cup {f} ELSE @]
        /\ UNCHANGED unread
     \/ /\ unread' = [unread EXCEPT ![s] = @ \cup ({f} \ leasedPaths[s])]
        /\ UNCHANGED found
  /\ UNCHANGED <<phase, blockers, fileVars, exited, history>>

\* The initialization is over, with `outcome`, and the lock is released.
Unlock(s, outcome) ==
  /\ phase' = [phase EXCEPT ![s] = outcome]
  /\ observed' = [observed EXCEPT ![s] = {}]
  /\ found' = [found EXCEPT ![s] = {}]

\* collectNeutralizationCandidatePaths after the discovery.
Candidates(s) == found[s] \cup {f \in Scope[s] : leases[f] # NoLease}

\* The discovery answers and every candidate that can be read is leased.
Lease(s) ==
  /\ ~exited
  /\ phase[s] = "discovering"
  /\ observed[s] = Scope[s]
  /\ LeaseReadable(s, Candidates(s))
  /\ Unlock(s, "linting")
  /\ UNCHANGED <<blockers, exited, history>>

\* The call is over and what it leased stays so until the process exits.
MutantInitializationFails(s) ==
  /\ ~exited
  /\ phase[s] = "discovering"
  /\ Unlock(s, "ended")
  /\ UNCHANGED <<blockers, unread, fileVars, exited, history>>

\* The discovery throws, or the rewriting of a candidate does when some of the
\* others are leased already.  The catch that restores runs after the unlock.
InitializationFails(s) ==
  /\ ~exited
  /\ phase[s] = "discovering"
  /\ \E S \in SUBSET Candidates(s) :
       /\ S = {} \/ (observed[s] = Scope[s] /\ S # Candidates(s))
       /\ LeaseCandidates(s, S)
  /\ Unlock(s, "failed")
  /\ UNCHANGED <<blockers, unread, exited, history>>

\* restore runs, from the catch or from the finally block of runOxlint, and the
\* exit listener is removed.
EndScan(s) ==
  /\ ~exited
  /\ phase[s] \in {"failed", "linting"}
  /\ Restore(s)
  /\ Forget(s)
  /\ phase' = [phase EXCEPT ![s] = "ended"]
  /\ UNCHANGED <<blockers, observed, found, exited, settled>>

----------------------------------------------------------------------------
(* The process and the user *)

\* process.exit: from here on only the exit listeners run.
Exit ==
  /\ ~exited
  /\ exited' = TRUE
  /\ UNCHANGED <<scanVars, fileVars, history>>

\* onExit, registered by the call and removed when it is over.
ExitListener(s) ==
  /\ exited
  /\ s \in Active
  /\ Restore(s)
  /\ Forget(s)
  /\ Unlock(s, "ended")
  /\ blockers' = [blockers EXCEPT ![s] = {}]
  /\ UNCHANGED <<exited, settled>>

\* The user saves a file, with live directives or without.
Save(f) ==
  /\ disk[f].save < MaxEdits
  /\ \E spelling \in {"live", "none"} :
       disk' = [disk EXCEPT ![f] = [save |-> @.save + 1, spelling |-> spelling]]
  /\ IF Covering(f) = {}
     THEN settled' = [settled EXCEPT ![f] = disk[f].save + 1] /\ UNCHANGED disturbed
     ELSE disturbed' = disturbed \cup {f} /\ UNCHANGED settled
  /\ unrestored' = unrestored \ {f}
  /\ UNCHANGED <<scanVars, leasedPaths, leases, exited>>

Next ==
  \/ \E s \in Scans :
       \/ Begin(s) \/ Adopt(s) \/ (\E f \in Files : Observe(s, f)) \/ Lease(s)
       \/ InitializationFails(s) \/ EndScan(s) \/ ExitListener(s)
  \/ Exit
  \/ \E f \in Files : Save(f)

\* A resolved promise runs its continuation; git grep and the walk answer; a
\* lint pass ends, by its own timeouts at the latest; exit listeners all run.
Fairness ==
  \A s \in Scans :
    /\ WF_vars(Adopt(s)) /\ WF_vars(Lease(s)) /\ WF_vars(EndScan(s))
    /\ WF_vars(ExitListener(s))
    /\ \A f \in Files : WF_vars(Observe(s, f))

Spec == Init /\ [][Next]_vars

FairSpec == Spec /\ Fairness

----------------------------------------------------------------------------
(* Properties *)

\* The types; a lease in the map counts at least one scan.
TypeOK ==
  /\ phase \in [Scans -> Phases]
  /\ blockers \in [Scans -> SUBSET Scans]
  /\ observed \in [Scans -> SUBSET Files]
  /\ found \in [Scans -> SUBSET Files]
  /\ leasedPaths \in [Scans -> SUBSET Files]
  /\ leases \in [Files -> Leases \cup {NoLease}]
  /\ disk \in [Files -> Contents]
  /\ exited \in BOOLEAN
  /\ unrestored \in SUBSET Files
  /\ disturbed \in SUBSET Files
  /\ unread \in [Scans -> SUBSET Files]
  /\ settled \in [Files -> 0..MaxEdits]

\* The count of a lease is the number of running scans that hold it, so that a
\* lease exists exactly as long as somebody does.
ReferenceCountsExact ==
  \A f \in Files :
    /\ leases[f] = NoLease <=> Holders(f) = {}
    /\ leases[f] # NoLease => leases[f].referenceCount = Cardinality(Holders(f))
    /\ Holders(f) \subseteq Covering(f)

\* The user's sources come back: a file is left neutralized only while a scan
\* holds its lease, or because its restoring write failed, and when the process
\* is gone nobody holds one.
SourcesRestored ==
  /\ \A f \in Files :
       disk[f].spelling = "neutralized" => leases[f] # NoLease \/ f \in unrestored
  /\ exited /\ Active = {} => \A f \in Files : leases[f] = NoLease

\* An audit scan lints without live directives: whatever overlapping scans
\* begin, end or fail meanwhile, a file of its scope that the user left alone
\* carries none, unless this scan could not read that file, which the code
\* passes over without a word: no other scan's failure costs it a file.
LintSeesNoDirective ==
  \A s \in Scans : phase[s] = "linting" =>
    \A f \in Scope[s] \ (disturbed \cup unread[s]) : disk[f].spelling # "live"

\* What the user saved while no scan was on the file is never overwritten by an
\* older content.
SavesOutsideScansSurvive == \A f \in Files : disk[f].save >= settled[f]

\* The initialization lock: overlapping scans never initialize at once.
InitializationsExclusive ==
  \A s, u \in Scans :
    /\ s # u /\ <<s, u>> \in Overlap
    => ~(phase[s] = "discovering" /\ phase[u] = "discovering")

\* No scan waits for its turn for ever.
EveryScanGetsItsTurn == \A s \in Scans : phase[s] = "waiting" ~> phase[s] # "waiting"

=============================================================================
