----------------------------- MODULE CliState -----------------------------
(***************************************************************************)
(* The per-user state file of the CLI (cli/utils/cli-state-store.ts) and   *)
(* the gates, migrations and preferences kept in it (cli-lifecycle.ts).    *)
(* Nothing locks the file: several runs of the CLI, and of a newer release *)
(* of it, read it, change what they have read and write the whole of it.   *)
(*                                                                         *)
(* An item is a gate (a question asked once) or a migration (a change made *)
(* once), of the machine or of one project.  Its record is reduced to the  *)
(* version it was answered or applied at, 0 if it never was.               *)
(***************************************************************************)
EXTENDS Naturals

CONSTANTS
  Runs,             \* processes of this release
  Items,            \* gates and migrations, each with its scope
  GlobalItems,      \* those whose scope is the machine
  FireWhenUnknown,  \* the gates that fire when the file cannot be read
  Version,          \* the version each has in this release
  Bumped,           \* the items with a higher version in a newer release
  Picks,            \* what a preference can be
  NoPick,
  InitialFiles      \* the files left by earlier releases

Current == 2        \* CLI_STATE_SCHEMA_VERSION
Newer == 3          \* the schema of some release to come
Files == [schema : {1, Current, Newer}, legacy : SUBSET Items,
          records : [Items -> Nat], preference : Picks \cup {NoPick}]

ASSUME CliStateAssumption ==
  /\ GlobalItems \subseteq Items /\ FireWhenUnknown \subseteq Items /\ Bumped \subseteq Items
  /\ Version \in [Items -> Nat \ {0}]
  /\ NoPick \notin Picks
  /\ InitialFiles \subseteq Files
  /\ \A f \in InitialFiles :
       IF f.schema = 1 THEN f.records = [i \in Items |-> 0] /\ f.preference = NoPick
       ELSE f.legacy = {}

VARIABLES
  file,      \* on disk; a file of no release yet is one of schema 1 with nothing in it
  stage,     \* where each run is in its call of the store, or in what the gate guards
  task,      \* that call: the item it checks or records, or the preference it remembers
  snapshot,  \* the state a run has read and is about to write
  landed,    \* history: the highest version each item was ever recorded at
  raced      \* history: items another run had touched since the writer read them

runVars == <<stage, task, snapshot>>
vars == <<file, runVars, landed, raced>>

Tasks == [op : {"check", "record"}, item : Items] \cup [op : {"remember"}, pick : Picks]
NoTask == [op |-> "none"]
NoFile == [schema |-> 0]

\* The version an item is recorded at, in the old layout or the new one.
Recorded(f, i) == IF i \in f.legacy THEN 1 ELSE f.records[i]

Init ==
  /\ file \in InitialFiles
  /\ stage = [p \in Runs |-> "idle"]
  /\ task = [p \in Runs |-> NoTask]
  /\ snapshot = [p \in Runs |-> NoFile]
  /\ landed = [i \in Items |-> Recorded(file, i)]
  /\ raced = {}

----------------------------------------------------------------------------
(* The store *)

\* A slip: the global scope starts empty, whatever the old layout said of it.
MutantMigrated(f) ==
  IF f.schema >= Current THEN f
  ELSE [schema |-> Current, legacy |-> {}, preference |-> NoPick,
        records |-> [i \in Items |->
          IF i \in GlobalItems THEN 0 ELSE IF i \in f.legacy THEN 1 ELSE f.records[i]]]

\* A slip: only a file of this very schema is left as it is.
MutantRewrites(f) ==
  IF f.schema = Current THEN f
  ELSE [schema |-> Current, legacy |-> {}, preference |-> f.preference,
        records |-> [i \in Items |-> Recorded(f, i)]]

\* migrateCliState: the old layout's answers become records of version 1.
Migrated(f) ==
  IF f.schema >= Current THEN f
  ELSE [schema |-> Current, legacy |-> {}, preference |-> NoPick,
        records |-> [i \in Items |->
          IF i \in f.legacy THEN 1 ELSE IF i \in GlobalItems THEN 0 ELSE f.records[i]]]

\* A slip: remembering a preference starts its scope afresh.
MutantUpdated(f, t) ==
  IF t.op = "record" THEN [f EXCEPT !.records[t.item] = Version[t.item]]
  ELSE [f EXCEPT !.preference = t.pick,
                 !.records = [i \in Items |-> IF i \in GlobalItems THEN 0 ELSE f.records[i]]]

\* recordGate, recordMigration, writePreference.
Updated(f, t) ==
  IF t.op = "record" THEN [f EXCEPT !.records[t.item] = Version[t.item]]
  ELSE [f EXCEPT !.preference = t.pick]

\* isGatePending, isMigrationPending.
IsPending(f, i) == f.records[i] < Version[i]

Touched(p) == {i \in Items : Recorded(snapshot[p], i) # Recorded(file, i)}

Lands(i, v) == landed' = [landed EXCEPT ![i] = IF @ < v THEN v ELSE @]

\* The run is done with what it read, and with its task unless it is to ask.
Goes(p, to) ==
  /\ stage' = [stage EXCEPT ![p] = to]
  /\ task' = IF to = "idle" THEN [task EXCEPT ![p] = NoTask] ELSE task
  /\ snapshot' = [snapshot EXCEPT ![p] = NoFile]

\* A call of the store starts: openMigratedStore reads the file.
Open(p, t) ==
  /\ task' = [task EXCEPT ![p] = t]
  /\ \/ /\ Migrated(file) = file
        /\ stage' = [stage EXCEPT ![p] = "opened"]
        /\ UNCHANGED snapshot
     \/ /\ Migrated(file) # file
        /\ stage' = [stage EXCEPT ![p] = "upgrading"]
        /\ snapshot' = [snapshot EXCEPT ![p] = file]
  /\ UNCHANGED <<file, landed, raced>>

\* A gate or a migration is checked.
Check(p, i) == stage[p] = "idle" /\ Open(p, [op |-> "check", item |-> i])

\* The user has answered, the migration has been applied.
Record(p) == stage[p] = "asking" /\ Open(p, [op |-> "record", item |-> task[p].item])

Remember(p, pick) == stage[p] = "idle" /\ Open(p, [op |-> "remember", pick |-> pick])

\* openMigratedStore writes what it has made of the state it read.
Upgrade(p) ==
  /\ stage[p] = "upgrading"
  /\ file' = Migrated(snapshot[p])
  /\ raced' = raced \cup Touched(p)
  /\ Goes(p, "opened")
  /\ UNCHANGED landed

\* readCliState reads the file again, and selects.
Select(p) ==
  /\ stage[p] = "opened" /\ task[p].op = "check"
  /\ Goes(p, IF IsPending(file, task[p].item) THEN "asking" ELSE "idle")
  /\ UNCHANGED <<file, landed, raced>>

\* updateCliState reads it again, too, ...
Reread(p) ==
  /\ stage[p] = "opened" /\ task[p].op # "check"
  /\ stage' = [stage EXCEPT ![p] = "updating"]
  /\ snapshot' = [snapshot EXCEPT ![p] = file]
  /\ UNCHANGED <<file, task, landed, raced>>

\* ... and writes the updated state.
Update(p) ==
  /\ stage[p] = "updating"
  /\ file' = Updated(snapshot[p], task[p])
  /\ IF task[p].op = "record"
     THEN LET i == task[p].item IN
          /\ raced' = (raced \cup Touched(p)) \ {i}
          /\ Lands(i, Version[i])
     ELSE /\ raced' = raced \cup Touched(p)
          /\ UNCHANGED landed
  /\ Goes(p, "idle")

\* The file cannot be read or written: a check falls back, an update is not remembered.
Fail(p) ==
  /\ stage[p] \in {"upgrading", "opened", "updating"}
  /\ Goes(p, IF task[p].op = "check" /\ task[p].item \in FireWhenUnknown THEN "asking" ELSE "idle")
  /\ UNCHANGED <<file, landed, raced>>

\* The prompt is cancelled, the migration has nothing to do or throws, the run is killed.
Leave(p) ==
  /\ stage[p] # "idle"
  /\ Goes(p, "idle")
  /\ UNCHANGED <<file, landed, raced>>

\* A newer release, where item i has a higher version, is used as well.
NewerRecords(i) ==
  /\ Migrated(file).records[i] <= Version[i]
  /\ file' = [Migrated(file) EXCEPT !.schema = Newer, !.records[i] = Version[i] + 1]
  /\ Lands(i, Version[i] + 1)
  /\ raced' = raced \ {i}
  /\ UNCHANGED runVars

RunStep(p) ==
  \/ \E i \in Items : Check(p, i)
  \/ \E pick \in Picks : Remember(p, pick)
  \/ Record(p) \/ Upgrade(p) \/ Select(p) \/ Reread(p) \/ Update(p) \/ Fail(p) \/ Leave(p)

Next == (\E p \in Runs : RunStep(p)) \/ (\E i \in Bumped : NewerRecords(i))

Spec == Init /\ [][Next]_vars

----------------------------------------------------------------------------
(* Properties *)

\* The values the variables may have.
TypeOK ==
  /\ file \in Files
  /\ stage \in [Runs -> {"idle", "upgrading", "opened", "updating", "asking"}]
  /\ task \in [Runs -> Tasks \cup {NoTask}]
  /\ snapshot \in [Runs -> Files \cup {NoFile}]
  /\ landed \in [Items -> Nat]
  /\ raced \subseteq Items

\* What was answered or applied once, in the old layout or the new, is not asked or
\* applied again, upgrades and failures notwithstanding, unless a run that had read the
\* state before wrote it back over the answer; only the gates that fire when the file
\* cannot be read may (cli-state-store.ts, line 150; cli-lifecycle.ts, line 45).
NeverNags ==
  [][\A p \in Runs :
       stage[p] # "asking" /\ stage'[p] = "asking" =>
         LET i == task[p].item IN
         landed[i] < Version[i] \/ i \in raced \cup FireWhenUnknown]_vars

\* The state file of a newer release is never taken back to this one's schema, and a run
\* that only reads never writes it, except for a run that had read the file before it was
\* a newer one (cli-state-store.ts, lines 147 and 206).
NewerStateSurvives ==
  [][\A p \in Runs :
       file.schema = Newer /\ file' # file /\ stage'[p] # stage[p] =>
         \/ snapshot[p].schema < Newer
         \/ file'.schema = Newer /\ task[p].op # "check"]_vars

\* A record or the preference is lost or changed only by a run that records or remembers
\* just that, or whose snapshot is older than what it overwrites (cli-lifecycle.ts,
\* line 84).
OthersAreKept ==
  [][/\ \A i \in Items : Recorded(file', i) < Recorded(file, i) =>
          \E p \in Runs : /\ stage'[p] # stage[p]
                          /\ \/ i \in Touched(p)
                             \/ task[p].op = "record" /\ task[p].item = i
     /\ file'.preference # file.preference =>
          \E p \in Runs : /\ stage'[p] # stage[p]
                          /\ \/ snapshot[p].preference # file.preference
                             \/ task[p].op = "remember"]_vars
=============================================================================
