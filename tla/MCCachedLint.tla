---------------------------- MODULE MCCachedLint ----------------------------
(***************************************************************************)
(* A page imports ./util, which may be missing, unreadable, or not parse.  *)
(***************************************************************************)
EXTENDS CachedLint, TLC

CONSTANTS s1, s2, page, util, text, other, broken

MCScans == {s1, s2}
MCFiles == {page, util}
MCContents == {text, other, broken, Missing, Unreadable}
MCUnparseable == {broken}
MCTrees == {t \in [MCFiles -> MCContents] : t[page] = text}

\* The import of the page is resolved, and what it resolves to is read.
MCReads(f, t) ==
  IF f = util THEN {}
  ELSE {<<"exists", util>>} \cup IF t[util] = Missing THEN {} ELSE {<<"content", util>>}

\* The collector traces all that the resolution tries, and tries to read.
MCProbes(f, t) == IF f = util THEN {} ELSE {"exists", "content"} \X {util}

MCSymmetry == Permutations(MCScans)

=============================================================================
