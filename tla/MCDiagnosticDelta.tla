------------------------ MODULE MCDiagnosticDelta ------------------------
(* Up to three findings on either side, in two files, of two texts; the     *)
(* texts are interchangeable, and so are the files.                         *)
EXTENDS DiagnosticDelta, TLC

CONSTANTS page, util, x, y

MCFiles == {page, util}
MCTexts == {x, y}
MCSymmetry == Permutations(MCFiles) \cup Permutations(MCTexts)
=============================================================================
