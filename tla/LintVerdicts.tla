---------------------------- MODULE LintVerdicts ----------------------------
(***************************************************************************)
(* What packages/core/src/run-oxlint.ts depends on in the rules of         *)
(* oxlint-plugin-react-doctor and in their dependency collectors.  The     *)
(* diagnostics of a family of rules for a file are abstracted to what the  *)
(* rules saw: they are the same when the same was seen, which is the most  *)
(* that any rule may tell apart.                                           *)
(***************************************************************************)

CONSTANTS
  Scans,        \* the processes that scan the project
  Files,        \* the paths of the project
  Contents,     \* the contents of files
  Missing,      \* the content of a path that is no file
  Unreadable,   \* the content of a file that cannot be read
  Unparseable,  \* the contents that the collectors cannot parse
  Trees,        \* the states of the project
  Reads(_, _),  \* what the bounded cross-file rules ask for a file in a tree
  Probes(_, _)  \* what the collectors trace for a file in a tree

\* A probe asks for the content of a path, or for what is there.
AllProbes == {"content", "exists"} \X Files

\* createSidecarProbeAnswerResolver
Answer(probe, tree) ==
  LET there == tree[probe[2]] IN
    IF probe[1] = "content"
    THEN IF there \in {Missing, Unreadable} THEN "absent" ELSE there
    ELSE IF there = Missing THEN "none" ELSE "file"

Answered(probes, tree) == {<<p, Answer(p, tree)>> : p \in probes}

\* Rules of "own" see the file itself; "bounded" rules also see other files, which
\* a collector traces; "unbounded" rules may see anything.
Families == {"own", "bounded", "unbounded"}

Saw(family, file, tree) ==
  IF family = "own" THEN tree[file]
  ELSE IF family = "bounded" THEN Answered(Reads(file, tree), tree)
  ELSE tree

Finding(family, file, tree) == [family |-> family, file |-> file, saw |-> Saw(family, file, tree)]

\* The diagnostics of the families for the files A.
Lint(families, A, tree) == {Finding(m, f, tree) : m \in families, f \in A}

Candidates(tree) == {f \in Files : tree[f] # Missing}

\* What the plugin owes the cache: the collectors trace all that the rules ask for,
\* and both depend on the file and on what was found so far, and on nothing else.
ASSUME VerdictsAssumption ==
  /\ Trees \subseteq [Files -> Contents]
  /\ Missing # Unreadable
  /\ \A f \in Files, t \in Trees : Reads(f, t) \subseteq Probes(f, t)
  /\ \A f \in Files, t \in Trees : Probes(f, t) \subseteq AllProbes
  /\ \A f \in Files, t, u \in Trees :
       t[f] = u[f] /\ (\A p \in Probes(f, t) : Answer(p, t) = Answer(p, u))
         => Reads(f, u) = Reads(f, t)

=============================================================================
