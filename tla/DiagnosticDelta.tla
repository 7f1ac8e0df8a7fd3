-------------------------- MODULE DiagnosticDelta --------------------------
(***************************************************************************)
(* computeDiagnosticDelta (core/src/compute-diagnostic-delta.ts): the      *)
(* findings of the head are matched with those of the base, in three       *)
(* passes from the narrowest key to the widest; what is left over in the   *)
(* head is new, what is left over in the base is fixed.                    *)
(*                                                                         *)
(* No key spans two rules, and none but an explicit identity two messages: *)
(* the findings here are those of one rule with one message.               *)
(***************************************************************************)
EXTENDS Naturals, Sequences, FiniteSets

CONSTANTS
  FilePaths,
  Texts,      \* normalized source ranges, or explicit identities
  NoText,     \* the source of the finding could not be read, or is blank
  NoKey,
  MaxFindings \* bound: of the head, and of the base

ASSUME DiagnosticDeltaAssumption ==
  /\ NoText \notin Texts
  /\ NoKey \notin FilePaths \cup Texts \cup (FilePaths \X Texts)
  /\ MaxFindings \in Nat

VARIABLES
  rule,      \* how its findings are told apart
  head, base,
  pass, at,  \* the loops of matchCandidates: the pass and the finding of the head
  match,     \* per finding of the head, that of the base it is matched with, or 0
  crossFileMatchCount

inputVars == <<rule, head, base>>
deltaVars == <<inputVars, pass, at, match, crossFileMatchCount>>

Rules == {"identified", "byOccurrence", "byEvidence"}
Findings(r) == [file : FilePaths, text : Texts \cup (IF r = "identified" THEN {} ELSE {NoText})]
Inputs(r) == UNION {[1..n -> Findings(r)] : n \in 0..MaxFindings}

DeltaInit ==
  /\ rule \in Rules
  /\ head \in Inputs(rule) /\ base \in Inputs(rule)
  /\ pass = 1 /\ at = 1
  /\ match = [h \in DOMAIN head |-> 0]
  /\ crossFileMatchCount = 0

\* getDiagnosticMatchKeys
StableEvidenceKey(d) == IF d.text = NoText THEN NoKey ELSE d.text
SameFileStableEvidenceKey(d) == IF d.text = NoText THEN NoKey ELSE <<d.file, d.text>>
SameFileFallbackKey(d) ==
  IF rule # "identified" /\ (rule = "byOccurrence" \/ d.text = NoText) THEN d.file ELSE NoKey

KeyOf(kind, d) ==
  CASE kind = "sameFile" -> SameFileStableEvidenceKey(d)
    [] kind = "fallback" -> SameFileFallbackKey(d)
    [] kind = "anyFile" -> StableEvidenceKey(d)

\* Slips: the fallback comes first; it comes last.
MutantFallbackFirst == <<"fallback", "sameFile", "anyFile">>
MutantFallbackLast == <<"sameFile", "anyFile", "fallback">>

Passes == <<"sameFile", "fallback", "anyFile">>

Bucket(kind, d) ==
  {b \in DOMAIN base : KeyOf(kind, d) # NoKey /\ KeyOf(kind, base[b]) = KeyOf(kind, d)}
Matched == {match[h] : h \in DOMAIN head} \ {0}

\* A slip: the search ends at the first of the bucket, matched or not.
MutantFree(kind, d) ==
  {b \in Bucket(kind, d) \ Matched : \A c \in Bucket(kind, d) : b <= c}

\* takeMatchingDiagnosticIndex: the bucket without what is matched already.
Free(kind, d) == Bucket(kind, d) \ Matched

\* One turn of the loop: the finding takes the first that is free.
MatchCandidate ==
  /\ pass <= Len(Passes) /\ at <= Len(head)
  /\ LET free == Free(Passes[pass], head[at]) IN
     IF match[at] = 0 /\ free # {}
     THEN \E b \in free :
            /\ \A c \in free : b <= c
            /\ match' = [match EXCEPT ![at] = b]
            /\ crossFileMatchCount' = IF Passes[pass] = "anyFile" /\ base[b].file # head[at].file
                                      THEN crossFileMatchCount + 1 ELSE crossFileMatchCount
     ELSE UNCHANGED <<match, crossFileMatchCount>>
  /\ at' = at + 1
  /\ UNCHANGED <<inputVars, pass>>

NextPass ==
  /\ pass <= Len(Passes) /\ at > Len(head)
  /\ pass' = pass + 1 /\ at' = 1
  /\ UNCHANGED <<inputVars, match, crossFileMatchCount>>

DeltaNext == MatchCandidate \/ NextPass

DeltaSpec == DeltaInit /\ [][DeltaNext]_deltaVars

DeltaTypeOK ==
  /\ rule \in Rules
  /\ head \in Seq(Findings(rule)) /\ base \in Seq(Findings(rule))
  /\ pass \in 1..(Len(Passes) + 1)
  /\ at \in 1..(Len(head) + 1)
  /\ match \in [DOMAIN head -> 0..Len(base)]
  /\ crossFileMatchCount \in Nat

----------------------------------------------------------------------------
(* Properties *)

Done == pass > Len(Passes)
NewDiagnostics == {h \in DOMAIN head : match[h] = 0}
Fixed == DOMAIN base \ Matched
FixedCount == Len(base) - Cardinality(Matched)

\* A finding whose file and source are unchanged is reported as new only if there are
\* more such findings than in the base: neither a copy in another file nor a changed
\* finding of the same file has taken its place (compute-diagnostic-delta.ts, line 108).
UnchangedIsNotNew ==
  Done => \A h \in NewDiagnostics, b \in DOMAIN base :
            head[h] = base[b] /\ head[h].text # NoText =>
              \E other \in DOMAIN head : match[other] = b /\ head[other] = head[h]

\* No match is missed, and none is counted twice: what is new and what is fixed have no
\* key in common, and there are as many more of the one than of the other as there
\* are findings (compute-diagnostic-delta.ts, line 189).
NoMatchIsMissed ==
  Done =>
    /\ \A h \in NewDiagnostics, b \in Fixed : \A kind \in {"sameFile", "fallback", "anyFile"} :
         KeyOf(kind, head[h]) = KeyOf(kind, base[b]) => KeyOf(kind, head[h]) = NoKey
    /\ Cardinality(NewDiagnostics) + Len(base) = FixedCount + Len(head)

\* A copy in another file never takes the place of a finding that was only reformatted
\* where it is, so that the latter would be new (compute-diagnostic-delta.ts, line 120).
CopiesDoNotConsume ==
  Done => \A copy \in DOMAIN head, h \in NewDiagnostics :
            match[copy] # 0 /\ head[copy].file # base[match[copy]].file =>
              \/ SameFileFallbackKey(head[h]) = NoKey
              \/ SameFileFallbackKey(head[h]) # SameFileFallbackKey(base[match[copy]])
=============================================================================
