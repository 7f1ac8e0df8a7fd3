-------------------------- MODULE CliStateProofs --------------------------
(***************************************************************************)
(* Proofs about CliState, for any number of runs, items and releases' old  *)
(* files.  The reason an answer lasts is that what it was recorded at      *)
(* (Recorded) is the same before and after every upgrade and every update  *)
(* of something else, as long as the state written back is not stale;      *)
(* raced is where it was (AnswersLast).                                    *)
(***************************************************************************)
EXTENDS CliState, TLAPS

USE CliStateAssumption DEF Current, Newer

\* The old layout has no records yet, the new one no legacy answers any more.
LayoutOK(f) ==
  IF f.schema = 1 THEN f.records = [i \in Items |-> 0] /\ f.preference = NoPick
  ELSE f.legacy = {}

RunOK(p) ==
  /\ stage[p] # "idle" => task[p] \in Tasks
  /\ stage[p] = "asking" => task[p] \in [op : {"check"}, item : Items]
  /\ stage[p] = "upgrading" => snapshot[p] \in Files /\ LayoutOK(snapshot[p]) /\ snapshot[p].schema = 1
  /\ stage[p] \in {"opened", "updating"} => file.schema # 1
  /\ stage[p] = "updating" =>
       /\ snapshot[p] \in Files /\ LayoutOK(snapshot[p]) /\ snapshot[p].schema # 1
       /\ task[p].op # "check"

AnswersLast ==
  \A i \in Items : i \notin raced /\ landed[i] >= Version[i] => Recorded(file, i) >= Version[i]

Inv == TypeOK /\ LayoutOK(file) /\ (\A p \in Runs : RunOK(p)) /\ AnswersLast

----------------------------------------------------------------------------
\* The tasks, and what each is about.
LEMMA TaskTyped ==
  ASSUME NEW t \in Tasks
  PROVE  /\ t.op \in {"check", "record", "remember"}
         /\ t.op # "remember" => t \in [op : {"check", "record"}, item : Items] /\ t.item \in Items
         /\ t.op = "remember" => t.pick \in Picks
BY DEF Tasks

\* An upgrade preserves everything that was answered.
LEMMA MigratedKeeps ==
  ASSUME NEW f \in Files, LayoutOK(f)
  PROVE  /\ Migrated(f) \in Files /\ LayoutOK(Migrated(f)) /\ Migrated(f).schema # 1
         /\ Migrated(f) = f <=> f.schema # 1
         /\ \A i \in Items : Recorded(Migrated(f), i) = Recorded(f, i)
         /\ Migrated(f).preference = f.preference
         /\ Migrated(f).legacy = {} /\ Migrated(f).records \in [Items -> Nat]
<1>1. CASE f.schema = 1
  <2> DEFINE r == [i \in Items |-> IF i \in f.legacy THEN 1 ELSE IF i \in GlobalItems THEN 0 ELSE f.records[i]]
  <2>1. Migrated(f) = [schema |-> 2, legacy |-> {}, preference |-> NoPick, records |-> r]
    BY <1>1 DEF Migrated
  <2>2. r \in [Items -> Nat]  BY DEF Files
  <2>3. Migrated(f) \in Files /\ LayoutOK(Migrated(f)) /\ Migrated(f).schema = 2
    BY <2>1, <2>2 DEF Files, LayoutOK
  <2>4. \A i \in Items : Recorded(Migrated(f), i) = Recorded(f, i)
    BY <1>1, <2>1 DEF Recorded, LayoutOK
  <2>5. QED  BY <1>1, <2>1, <2>2, <2>3, <2>4 DEF LayoutOK
<1>2. CASE f.schema # 1
  <2>1. Migrated(f) = f  BY <1>2 DEF Migrated, Files
  <2>2. QED  BY <1>2, <2>1 DEF LayoutOK, Files
<1>3. QED  BY <1>1, <1>2

\* An update changes what it is about and nothing else.
LEMMA UpdatedKeeps ==
  ASSUME NEW f \in Files, LayoutOK(f), f.schema # 1, NEW t \in Tasks, t.op # "check"
  PROVE  /\ Updated(f, t) \in Files /\ LayoutOK(Updated(f, t)) /\ Updated(f, t).schema = f.schema
         /\ \A i \in Items : t.op = "record" /\ i = t.item => Recorded(Updated(f, t), i) = Version[i]
         /\ \A i \in Items : t.op = "remember" \/ i # t.item => Recorded(Updated(f, t), i) = Recorded(f, i)
         /\ t.op = "record" => Updated(f, t).preference = f.preference
<1>1. CASE t.op = "record"
  <2>1. Updated(f, t) = [f EXCEPT !.records[t.item] = Version[t.item]] /\ t.item \in Items
    BY <1>1, TaskTyped DEF Updated
  <2>2. Updated(f, t).records = [f.records EXCEPT ![t.item] = Version[t.item]]
    BY <2>1 DEF Files
  <2>3. /\ Updated(f, t) \in Files /\ Updated(f, t).schema = f.schema /\ Updated(f, t).legacy = f.legacy
        /\ Updated(f, t).preference = f.preference
    BY <2>1, <2>2 DEF Files
  <2>4. f.legacy = {} /\ f.records \in [Items -> Nat]  BY DEF LayoutOK, Files
  <2>5. QED  BY <1>1, <2>1, <2>2, <2>3, <2>4 DEF LayoutOK, Recorded
<1>2. CASE t.op = "remember"
  <2>1. Updated(f, t) = [f EXCEPT !.preference = t.pick] /\ t.pick \in Picks
    BY <1>2, TaskTyped DEF Updated
  <2>2. QED  BY <1>2, <2>1 DEF Files, LayoutOK, Recorded
<1>3. QED  BY <1>1, <1>2, TaskTyped

----------------------------------------------------------------------------
\* Nothing is under way initially, and what the file holds has landed.
LEMMA InitHolds == Init => Inv
<1> SUFFICES ASSUME Init  PROVE Inv
  OBVIOUS
<1>1. file \in Files /\ LayoutOK(file)  BY DEF Init, LayoutOK
<1>2. \A i \in Items : Recorded(file, i) \in Nat  BY <1>1 DEF Recorded, Files
<1>3. TypeOK  BY <1>1, <1>2 DEF Init, TypeOK
<1>4. (\A p \in Runs : RunOK(p)) /\ AnswersLast  BY DEF Init, RunOK, AnswersLast
<1>5. QED  BY <1>1, <1>3, <1>4 DEF Inv

\* What happens to one run while the file stays what it is, and the others wait.
Moves(p, to) ==
  /\ stage' = [stage EXCEPT ![p] = to]
  /\ \A q \in Runs : q # p => task'[q] = task[q] /\ snapshot'[q] = snapshot[q]

\* A step that moves one run, and leaves the file in the new layout if it was, preserves
\* what holds of the others.
LEMMA OthersOK ==
  ASSUME Inv, NEW p \in Runs, NEW to, Moves(p, to), file.schema # 1 => file'.schema # 1, RunOK(p)'
  PROVE  \A q \in Runs : RunOK(q)'
<1> SUFFICES ASSUME NEW q \in Runs, q # p  PROVE RunOK(q)'
  OBVIOUS
<1>1. stage'[q] = stage[q] /\ task'[q] = task[q] /\ snapshot'[q] = snapshot[q]
  BY DEF Moves, Inv, TypeOK
<1>2. RunOK(q)  BY DEF Inv
<1>3. LayoutOK(snapshot[q]) => LayoutOK(snapshot'[q])  BY <1>1
<1>4. QED  BY <1>1, <1>2 DEF RunOK, LayoutOK

\* The store is opened.
LEMMA OpenHolds ==
  ASSUME Inv, NEW p \in Runs, NEW t \in Tasks, Open(p, t)  PROVE Inv'
<1> USE DEF Inv
<1>1. UNCHANGED <<file, landed, raced>> /\ task' = [task EXCEPT ![p] = t]
  BY DEF Open
<1>2. CASE Migrated(file) = file /\ stage' = [stage EXCEPT ![p] = "opened"] /\ UNCHANGED snapshot
  <2>1. TypeOK'  BY <1>1, <1>2 DEF TypeOK
  <2>2. file.schema # 1  BY <1>2, MigratedKeeps DEF TypeOK
  <2>3. Moves(p, "opened") /\ RunOK(p)'
    BY <1>1, <1>2, <2>2 DEF Moves, RunOK, TypeOK
  <2>4. QED  BY <1>1, <2>1, <2>3, OthersOK DEF AnswersLast, LayoutOK, Recorded
<1>3. CASE /\ Migrated(file) # file /\ stage' = [stage EXCEPT ![p] = "upgrading"]
           /\ snapshot' = [snapshot EXCEPT ![p] = file]
  <2>1. TypeOK'  BY <1>1, <1>3 DEF TypeOK
  <2>2. file.schema = 1  BY <1>3, MigratedKeeps DEF TypeOK
  <2>3. snapshot'[p] = file /\ stage'[p] = "upgrading" /\ task'[p] = t
    BY <1>1, <1>3 DEF TypeOK
  <2>4. Moves(p, "upgrading") /\ RunOK(p)'
    BY <1>1, <1>3, <2>2, <2>3 DEF Moves, RunOK, TypeOK, LayoutOK
  <2>5. QED  BY <1>1, <2>1, <2>4, OthersOK DEF AnswersLast, LayoutOK, Recorded
<1>4. QED  BY <1>2, <1>3 DEF Open

\* What a run does when it is done with what it read.
LEMMA GoesMoves ==
  ASSUME Inv, NEW p \in Runs, NEW to \in {"idle", "opened", "asking"}, Goes(p, to)
  PROVE  /\ Moves(p, to) /\ stage'[p] = to
         /\ to # "idle" => task'[p] = task[p]
         /\ stage' \in [Runs -> {"idle", "upgrading", "opened", "updating", "asking"}]
         /\ task' \in [Runs -> Tasks \cup {NoTask}]
         /\ snapshot' \in [Runs -> Files \cup {NoFile}]
<1>1. CASE to = "idle"  BY <1>1 DEF Goes, Moves, Inv, TypeOK
<1>2. CASE to # "idle"  BY <1>2 DEF Goes, Moves, Inv, TypeOK
<1>3. QED  BY <1>1, <1>2

\* A run goes on, or stops, without having written.
LEMMA GoesHolds ==
  ASSUME Inv, NEW p \in Runs, NEW to \in {"idle", "asking"}, Goes(p, to),
         UNCHANGED <<file, landed, raced>>,
         to = "asking" => task[p] \in [op : {"check"}, item : Items]
  PROVE  Inv'
<1>1. TypeOK'  BY GoesMoves DEF Inv, TypeOK
<1>2. [op : {"check"}, item : Items] \subseteq Tasks  BY DEF Tasks
<1>3. RunOK(p)'  BY <1>2, GoesMoves DEF RunOK
<1>4. \A q \in Runs : RunOK(q)'  BY <1>3, GoesMoves, OthersOK
<1>5. QED  BY <1>1, <1>4 DEF Inv, AnswersLast, LayoutOK, Recorded

\* The upgraded state is written over the file.
LEMMA UpgradeHolds ==
  ASSUME Inv, NEW p \in Runs, Upgrade(p)  PROVE Inv'
<1> USE DEF Inv
<1>1. /\ stage[p] = "upgrading" /\ file' = Migrated(snapshot[p]) /\ raced' = raced \cup Touched(p)
      /\ landed' = landed /\ Goes(p, "opened")
  BY DEF Upgrade
<1>2. snapshot[p] \in Files /\ LayoutOK(snapshot[p])  BY <1>1 DEF RunOK
<1>3. /\ file' \in Files /\ LayoutOK(file)' /\ file'.schema # 1
      /\ \A i \in Items : Recorded(file', i) = Recorded(snapshot[p], i)
  BY <1>1, <1>2, MigratedKeeps DEF LayoutOK
<1>4. TypeOK'  BY <1>1, <1>3, GoesMoves DEF TypeOK, Touched
<1>5. RunOK(p)'
  BY <1>1, <1>3, GoesMoves DEF RunOK
<1>6. \A q \in Runs : RunOK(q)'  BY <1>1, <1>3, <1>5, GoesMoves, OthersOK
<1>7. AnswersLast'
  <2> SUFFICES ASSUME NEW i \in Items, i \notin raced', landed[i] >= Version[i]
               PROVE  Recorded(file', i) >= Version[i]
    BY <1>1 DEF AnswersLast, Recorded
  <2>1. Recorded(snapshot[p], i) = Recorded(file, i)  BY <1>1 DEF Touched
  <2>2. QED  BY <1>1, <1>3, <2>1 DEF AnswersLast
<1>8. QED  BY <1>3, <1>4, <1>6, <1>7

\* The state is read again before an update.
LEMMA RereadHolds ==
  ASSUME Inv, NEW p \in Runs, Reread(p)  PROVE Inv'
<1> USE DEF Inv, Reread
<1>1. TypeOK'  BY DEF TypeOK
<1>2. stage'[p] = "updating" /\ snapshot'[p] = file /\ task' = task  BY DEF TypeOK
<1>3. RunOK(p)'  BY <1>2 DEF RunOK, TypeOK, LayoutOK
<1>4. Moves(p, "updating")  BY DEF Moves, TypeOK
<1>5. QED  BY <1>1, <1>3, <1>4, OthersOK DEF AnswersLast, LayoutOK, Recorded

\* The updated state is written over the file.
LEMMA UpdateHolds ==
  ASSUME Inv, NEW p \in Runs, Update(p)  PROVE Inv'
<1> USE DEF Inv
<1>1. stage[p] = "updating" /\ file' = Updated(snapshot[p], task[p]) /\ Goes(p, "idle")
  BY DEF Update
<1>2. /\ snapshot[p] \in Files /\ LayoutOK(snapshot[p]) /\ snapshot[p].schema # 1
      /\ task[p] \in Tasks /\ task[p].op \in {"record", "remember"}
  BY <1>1, TaskTyped DEF RunOK
<1>3. file' \in Files /\ LayoutOK(file)' /\ file'.schema # 1
  BY <1>1, <1>2, UpdatedKeeps DEF LayoutOK
<1>4. CASE task[p].op = "record"
  <2> DEFINE i == task[p].item
  <2>1. /\ i \in Items /\ raced' = (raced \cup Touched(p)) \ {i}
        /\ landed' = [landed EXCEPT ![i] = IF @ < Version[i] THEN Version[i] ELSE @]
    BY <1>2, <1>4, TaskTyped DEF Update, Lands
  <2>2. TypeOK'  BY <1>1, <1>3, <2>1, GoesMoves DEF TypeOK, Touched
  <2>3. ASSUME NEW j \in Items, j \notin raced', landed'[j] >= Version[j]
        PROVE  Recorded(file', j) >= Version[j]
    <3>1. CASE j = i
      <4>1. Recorded(file', j) = Version[j] /\ Version[j] \in Nat
        BY <1>1, <1>2, <1>4, <3>1, UpdatedKeeps
      <4>2. QED  BY <4>1
    <3>2. CASE j # i
      <4>1. landed'[j] = landed[j] /\ j \notin raced /\ j \notin Touched(p)
        BY <2>1, <2>3, <3>2 DEF TypeOK
      <4>2. Recorded(file', j) = Recorded(snapshot[p], j)
        BY <1>1, <1>2, <1>4, <3>2, UpdatedKeeps
      <4>3. QED  BY <2>3, <4>1, <4>2 DEF AnswersLast, Touched
    <3>3. QED  BY <3>1, <3>2
  <2>4. QED
    <3>1. RunOK(p)'  BY <1>1, GoesMoves DEF RunOK
    <3>2. \A q \in Runs : RunOK(q)'  BY <1>1, <1>3, <3>1, GoesMoves, OthersOK
    <3>3. AnswersLast'  BY <2>3 DEF AnswersLast, Recorded
    <3>4. QED  BY <1>3, <2>2, <3>2, <3>3
<1>5. CASE task[p].op = "remember"
  <2>1. raced' = raced \cup Touched(p) /\ landed' = landed
    BY <1>5 DEF Update
  <2>2. TypeOK'  BY <1>1, <1>3, <2>1, GoesMoves DEF TypeOK, Touched
  <2>3. ASSUME NEW j \in Items, j \notin raced', landed'[j] >= Version[j]
        PROVE  Recorded(file', j) >= Version[j]
    <3>1. Recorded(file', j) = Recorded(snapshot[p], j)
      BY <1>1, <1>2, <1>5, UpdatedKeeps
    <3>2. QED  BY <2>1, <2>3, <3>1 DEF AnswersLast, Touched
  <2>4. QED
    <3>1. RunOK(p)'  BY <1>1, GoesMoves DEF RunOK
    <3>2. \A q \in Runs : RunOK(q)'  BY <1>1, <1>3, <3>1, GoesMoves, OthersOK
    <3>3. AnswersLast'  BY <2>3 DEF AnswersLast, Recorded
    <3>4. QED  BY <1>3, <2>2, <3>2, <3>3
<1>6. QED  BY <1>2, <1>4, <1>5

\* A newer release records item i.
LEMMA NewerHolds ==
  ASSUME Inv, NEW i \in Bumped, NewerRecords(i)  PROVE Inv'
<1> USE DEF Inv
<1> DEFINE m == Migrated(file)
<1>1. /\ m \in Files /\ m.legacy = {} /\ m.records \in [Items -> Nat] /\ i \in Items
      /\ \A j \in Items : Recorded(m, j) = Recorded(file, j)
  BY MigratedKeeps DEF TypeOK
<1>2. /\ file' = [m EXCEPT !.schema = 3, !.records[i] = Version[i] + 1]
      /\ landed' = [landed EXCEPT ![i] = IF @ < Version[i] + 1 THEN Version[i] + 1 ELSE @] /\ raced' = raced \ {i}
      /\ UNCHANGED <<stage, task, snapshot>>
  BY DEF NewerRecords, Lands, runVars
<1> HIDE DEF m
<1>3. /\ file'.schema = 3 /\ file'.legacy = {} /\ file'.preference = m.preference
      /\ file'.records = [m.records EXCEPT ![i] = Version[i] + 1] /\ file' \in Files
  <2>1. [m.records EXCEPT ![i] = Version[i] + 1] \in [Items -> Nat]  BY <1>1
  <2>2. file' = [schema |-> 3, legacy |-> m.legacy, preference |-> m.preference,
                 records |-> [m.records EXCEPT ![i] = Version[i] + 1]]
    BY <1>1, <1>2 DEF Files
  <2>3. m.preference \in Picks \cup {NoPick}  BY <1>1 DEF Files
  <2>4. QED  BY <1>1, <2>1, <2>2, <2>3 DEF Files
<1>4. TypeOK' /\ LayoutOK(file)'  BY <1>1, <1>2, <1>3 DEF TypeOK, LayoutOK
<1>5. ASSUME NEW q \in Runs  PROVE RunOK(q)'
  BY <1>2, <1>3 DEF RunOK, LayoutOK
<1>6. AnswersLast'
  <2> SUFFICES ASSUME NEW j \in Items, j \notin raced', landed'[j] >= Version[j]
               PROVE  Recorded(file', j) >= Version[j]
    BY DEF AnswersLast, Recorded
  <2>1. CASE j = i  BY <1>1, <1>3, <2>1 DEF Recorded
  <2>2. CASE j # i
    <3>1. Recorded(file', j) = Recorded(file, j)
      BY <1>1, <1>3, <2>2 DEF Recorded
    <3>2. QED  BY <1>2, <2>2, <3>1 DEF AnswersLast, TypeOK
  <2>3. QED  BY <2>1, <2>2
<1>7. QED  BY <1>4, <1>5, <1>6

\* Every step preserves the invariant.
LEMMA StepHolds == Inv /\ [Next]_vars => Inv'
<1> SUFFICES ASSUME Inv, [Next]_vars  PROVE Inv'
  OBVIOUS
<1>1. ASSUME NEW p \in Runs, NEW i \in Items, Check(p, i)  PROVE Inv'
  <2>1. [op |-> "check", item |-> i] \in Tasks  BY DEF Tasks
  <2>2. QED  BY <1>1, <2>1, OpenHolds DEF Check
<1>2. ASSUME NEW p \in Runs, NEW pick \in Picks, Remember(p, pick)  PROVE Inv'
  <2>1. [op |-> "remember", pick |-> pick] \in Tasks  BY DEF Tasks
  <2>2. QED  BY <1>2, <2>1, OpenHolds DEF Remember
<1>3. ASSUME NEW p \in Runs, Record(p)  PROVE Inv'
  <2>1. [op |-> "record", item |-> task[p].item] \in Tasks  BY <1>3 DEF Record, Inv, RunOK, Tasks
  <2>2. QED  BY <1>3, <2>1, OpenHolds DEF Record
<1>4. ASSUME NEW p \in Runs, Upgrade(p)  PROVE Inv'  BY <1>4, UpgradeHolds
<1>5. ASSUME NEW p \in Runs, Select(p)  PROVE Inv'
  <2>1. task[p] \in [op : {"check"}, item : Items]
    BY <1>5, TaskTyped DEF Select, Inv, RunOK
  <2>2. QED  BY <1>5, <2>1, GoesHolds DEF Select
<1>6. ASSUME NEW p \in Runs, Reread(p)  PROVE Inv'  BY <1>6, RereadHolds
<1>7. ASSUME NEW p \in Runs, Update(p)  PROVE Inv'  BY <1>7, UpdateHolds
<1>8. ASSUME NEW p \in Runs, Fail(p)  PROVE Inv'
  <2>1. task[p].op = "check" => task[p] \in [op : {"check"}, item : Items]
    BY <1>8, TaskTyped DEF Fail, Inv, RunOK
  <2>2. QED  BY <1>8, <2>1, GoesHolds DEF Fail
<1>9. ASSUME NEW p \in Runs, Leave(p)  PROVE Inv'  BY <1>9, GoesHolds DEF Leave
<1>10. ASSUME NEW i \in Bumped, NewerRecords(i)  PROVE Inv'  BY <1>10, NewerHolds
<1>11. CASE UNCHANGED vars
  BY <1>11 DEF vars, runVars, Inv, TypeOK, LayoutOK, RunOK, AnswersLast, Recorded
<1>12. QED
  BY <1>1, <1>2, <1>3, <1>4, <1>5, <1>6, <1>7, <1>8, <1>9, <1>10, <1>11 DEF Next, RunStep

----------------------------------------------------------------------------
\* The variables keep their types.
THEOREM CliTypeCorrect == Spec => []TypeOK
<1>1. Inv => TypeOK  BY DEF Inv
<1>2. QED  BY <1>1, InitHolds, StepHolds, PTL DEF Spec

\* A step that makes a run ask is a check that found the item pending, or could not tell.
LEMMA AskingSteps ==
  ASSUME Inv, [Next]_vars, NEW p \in Runs, stage[p] # "asking", stage'[p] = "asking"
  PROVE  \/ Select(p) /\ IsPending(file, task[p].item)
         \/ task[p].item \in FireWhenUnknown
<1> USE DEF Inv
<1>1. PICK q \in Runs : RunStep(q)
  <2>1. ~\E i \in Bumped : NewerRecords(i)  BY DEF NewerRecords, runVars
  <2>2. stage' # stage  OBVIOUS
  <2>3. QED  BY <2>1, <2>2 DEF Next, vars, runVars
<1>2. \E to : stage' = [stage EXCEPT ![q] = to]
  BY <1>1 DEF RunStep, Check, Remember, Record, Open, Upgrade, Select, Reread, Update, Fail, Leave, Goes
<1>3. q = p  BY <1>2 DEF TypeOK
<1>4. Select(p) \/ Fail(p)
  BY <1>1, <1>3 DEF TypeOK, RunStep, Check, Remember, Record, Open, Upgrade, Reread, Update, Leave, Goes
<1>5. CASE Select(p)  BY <1>5 DEF Select, Goes, TypeOK
<1>6. CASE Fail(p)  BY <1>6 DEF Fail, Goes, TypeOK
<1>7. QED  BY <1>4, <1>5, <1>6

\* No answer that was not written over by a stale state is asked for again.
THEOREM AnswersAreRemembered == Spec => NeverNags
<1>1. ASSUME Inv, [Next]_vars, NEW p \in Runs, stage[p] # "asking", stage'[p] = "asking"
      PROVE  LET i == task[p].item IN landed[i] < Version[i] \/ i \in raced \cup FireWhenUnknown
  <2>1. CASE Select(p) /\ IsPending(file, task[p].item)
    <3> DEFINE i == task[p].item
    <3>1. i \in Items /\ file.schema # 1
      BY <1>1, <2>1, TaskTyped DEF Select, Inv, RunOK
    <3>2. file.records[i] < Version[i] /\ file.legacy = {}
      BY <1>1, <2>1, <3>1 DEF IsPending, Inv, LayoutOK
    <3>3. Recorded(file, i) = file.records[i] /\ file.records[i] \in Nat /\ Version[i] \in Nat /\ landed[i] \in Nat
      BY <1>1, <3>1, <3>2 DEF Recorded, Inv, TypeOK, Files
    <3>4. i \notin raced => ~(landed[i] >= Version[i])
      BY <1>1, <3>1, <3>2, <3>3 DEF Inv, AnswersLast
    <3>5. QED  BY <3>3, <3>4
  <2>2. QED  BY <1>1, <2>1, AskingSteps
<1>2. Inv /\ [Next]_vars =>
        [\A p \in Runs : stage[p] # "asking" /\ stage'[p] = "asking" =>
           LET i == task[p].item IN
           landed[i] < Version[i] \/ i \in raced \cup FireWhenUnknown]_vars
  BY <1>1
<1>3. QED  BY <1>2, InitHolds, StepHolds, PTL DEF Spec, NeverNags

\* The runs that write the file.
LEMMA WritingSteps ==
  ASSUME Inv, [Next]_vars, file' # file
  PROVE  \/ \E p \in Runs : (Upgrade(p) \/ Update(p)) /\ stage'[p] # stage[p]
                            /\ \A q \in Runs : q # p => stage'[q] = stage[q]
         \/ \E i \in Bumped : NewerRecords(i)
<1> USE DEF Inv
<1>1. CASE \E p \in Runs : RunStep(p)
  <2>1. PICK p \in Runs : RunStep(p)  BY <1>1
  <2>2. Upgrade(p) \/ Update(p)
    BY <2>1 DEF RunStep, Check, Remember, Record, Open, Select, Reread, Fail, Leave
  <2>3. CASE Upgrade(p)  BY <2>3 DEF Upgrade, Goes, TypeOK
  <2>4. CASE Update(p)  BY <2>4 DEF Update, Goes, TypeOK
  <2>5. QED  BY <2>2, <2>3, <2>4
<1>2. QED  BY <1>1 DEF Next, vars

\* A newer release's state is not taken back, but by a run that read an older one.
THEOREM NewerStateIsKept == Spec => NewerStateSurvives
<1>1. ASSUME Inv, [Next]_vars, NEW p \in Runs, file.schema = Newer, file' # file, stage'[p] # stage[p]
      PROVE  snapshot[p].schema < Newer \/ (file'.schema = Newer /\ task[p].op # "check")
  <2>1. Upgrade(p) \/ Update(p)
    <3>1. ~\E i \in Bumped : NewerRecords(i)  BY <1>1 DEF NewerRecords, runVars
    <3>2. QED  BY <1>1, <3>1, WritingSteps
  <2>2. CASE Upgrade(p)
    BY <1>1, <2>2 DEF Upgrade, Inv, RunOK
  <2>3. CASE Update(p)
    <3>1. /\ snapshot[p] \in Files /\ LayoutOK(snapshot[p]) /\ snapshot[p].schema # 1
          /\ task[p] \in Tasks /\ task[p].op # "check" /\ file' = Updated(snapshot[p], task[p])
      BY <1>1, <2>3 DEF Update, Inv, RunOK
    <3>2. file'.schema = snapshot[p].schema /\ snapshot[p].schema \in {1, 2, 3}
      BY <3>1, UpdatedKeeps DEF Files
    <3>3. QED  BY <3>1, <3>2
  <2>4. QED  BY <2>1, <2>2, <2>3
<1>2. Inv /\ [Next]_vars =>
        [\A p \in Runs :
           file.schema = Newer /\ file' # file /\ stage'[p] # stage[p] =>
             \/ snapshot[p].schema < Newer
             \/ file'.schema = Newer /\ task[p].op # "check"]_vars
  BY <1>1
<1>3. QED  BY <1>2, InitHolds, StepHolds, PTL DEF Spec, NewerStateSurvives

\* An answer or a preference is lost only to its own writer or to a stale state.
THEOREM OthersAreLeftAlone == Spec => OthersAreKept
<1>1. ASSUME Inv, [Next]_vars, NEW i \in Items, Recorded(file', i) < Recorded(file, i)
      PROVE  \E p \in Runs : /\ stage'[p] # stage[p]
                             /\ i \in Touched(p) \/ (task[p].op = "record" /\ task[p].item = i)
  <2>1. file' # file
    <3>1. Recorded(file, i) \in Nat  BY <1>1 DEF Inv, TypeOK, Files, Recorded
    <3>2. QED  BY <1>1, <3>1
  <2>2. ASSUME NEW p \in Runs, Upgrade(p), stage'[p] # stage[p]
        PROVE  i \in Touched(p)
    <3>1. Recorded(file', i) = Recorded(snapshot[p], i)
      BY <1>1, <2>2, MigratedKeeps DEF Upgrade, Inv, RunOK
    <3>2. Recorded(file, i) \in Nat  BY <1>1 DEF Inv, TypeOK, Files, Recorded
    <3>3. QED  BY <1>1, <3>1, <3>2 DEF Touched
  <2>3. ASSUME NEW p \in Runs, Update(p), stage'[p] # stage[p]
        PROVE  i \in Touched(p) \/ (task[p].op = "record" /\ task[p].item = i)
    <3>1. /\ snapshot[p] \in Files /\ LayoutOK(snapshot[p]) /\ snapshot[p].schema # 1
          /\ task[p] \in Tasks /\ task[p].op # "check" /\ file' = Updated(snapshot[p], task[p])
      BY <1>1, <2>3 DEF Update, Inv, RunOK
    <3>2. ~(task[p].op = "record" /\ task[p].item = i) => Recorded(file', i) = Recorded(snapshot[p], i)
      BY <3>1, TaskTyped, UpdatedKeeps
    <3>3. Recorded(file, i) \in Nat  BY <1>1 DEF Inv, TypeOK, Files, Recorded
    <3>4. QED  BY <1>1, <3>2, <3>3 DEF Touched
  <2>4. ASSUME NEW j \in Bumped, NewerRecords(j)  PROVE FALSE
    <3> DEFINE m == Migrated(file)
    <3>1. /\ m \in Files /\ m.legacy = {} /\ m.records \in [Items -> Nat] /\ j \in Items
          /\ Recorded(m, i) = Recorded(file, i)
      BY <1>1, MigratedKeeps DEF Inv, TypeOK
    <3>2. file' = [m EXCEPT !.schema = 3, !.records[j] = Version[j] + 1] /\ m.records[j] <= Version[j]
      BY <2>4 DEF NewerRecords
    <3> HIDE DEF m
    <3>3. file'.legacy = {} /\ file'.records = [m.records EXCEPT ![j] = Version[j] + 1]
      BY <3>1, <3>2 DEF Files
    <3>4. Recorded(file', i) >= Recorded(m, i)
      BY <3>1, <3>2, <3>3 DEF Recorded
    <3>5. Recorded(file', i) \in Nat /\ Recorded(m, i) \in Nat
      BY <3>1, <3>3 DEF Recorded
    <3>6. QED  BY <1>1, <3>1, <3>4, <3>5
  <2>5. QED  BY <1>1, <2>1, <2>2, <2>3, <2>4, WritingSteps
<1>2. ASSUME Inv, [Next]_vars, file'.preference # file.preference
      PROVE  \E p \in Runs : /\ stage'[p] # stage[p]
                             /\ snapshot[p].preference # file.preference \/ task[p].op = "remember"
  <2>1. ASSUME NEW p \in Runs, Upgrade(p)
        PROVE  snapshot[p].preference # file.preference
    BY <1>2, <2>1, MigratedKeeps DEF Upgrade, Inv, RunOK
  <2>2. ASSUME NEW p \in Runs, Update(p)
        PROVE  snapshot[p].preference # file.preference \/ task[p].op = "remember"
    <3>1. /\ snapshot[p] \in Files /\ LayoutOK(snapshot[p]) /\ snapshot[p].schema # 1
          /\ task[p] \in Tasks /\ task[p].op # "check" /\ file' = Updated(snapshot[p], task[p])
      BY <1>2, <2>2 DEF Update, Inv, RunOK
    <3>2. QED  BY <1>2, <3>1, TaskTyped, UpdatedKeeps
  <2>3. ASSUME NEW j \in Bumped, NewerRecords(j)  PROVE FALSE
    <3> DEFINE m == Migrated(file)
    <3>1. m \in Files /\ m.preference = file.preference
      BY <1>2, MigratedKeeps DEF Inv, TypeOK
    <3>2. file' = [m EXCEPT !.schema = 3, !.records[j] = Version[j] + 1]
      BY <2>3 DEF NewerRecords
    <3> HIDE DEF m
    <3>3. file'.preference = m.preference  BY <3>1, <3>2 DEF Files
    <3>4. QED  BY <1>2, <3>1, <3>3
  <2>4. file' # file  BY <1>2
  <2>5. QED  BY <1>2, <2>1, <2>2, <2>3, <2>4, WritingSteps
<1>3. Inv /\ [Next]_vars =>
        [/\ \A i \in Items : Recorded(file', i) < Recorded(file, i) =>
               \E p \in Runs : /\ stage'[p] # stage[p]
                               /\ \/ i \in Touched(p)
                                  \/ task[p].op = "record" /\ task[p].item = i
         /\ file'.preference # file.preference =>
               \E p \in Runs : /\ stage'[p] # stage[p]
                               /\ \/ snapshot[p].preference # file.preference
                                  \/ task[p].op = "remember"]_vars
  BY <1>1, <1>2
<1>4. QED  BY <1>3, InitHolds, StepHolds, PTL DEF Spec, OthersAreKept
=============================================================================
