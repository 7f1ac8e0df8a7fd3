---------------------------- MODULE MCLintCache ----------------------------
(***************************************************************************)
(* Two runs of one ruleset, which share a bucket, and one of another;      *)
(* three keys, and room for two of them, and for one bucket.               *)
(***************************************************************************)
EXTENDS LintCache, TLC

CONSTANTS r1, r2, r3, h1, h2, a, b, c

MCRuns == {r1, r2, r3}
MCHashes == {h1, h2}
MCHashOf == r1 :> h1 @@ r2 :> h1 @@ r3 :> h2
MCKeys == {a, b, c}
MCSymmetry == Permutations(MCKeys)

=============================================================================
