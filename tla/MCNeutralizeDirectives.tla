----------------------- MODULE MCNeutralizeDirectives -----------------------
(***************************************************************************)
(* A monorepo: a scan of its root, which covers both files, and two scans  *)
(* of one package, which share a file with it and with each other; one of  *)
(* these is given the path of its file.                                    *)
(***************************************************************************)
EXTENDS NeutralizeDirectives

CONSTANTS root, pkg, pkgAgain, inPkg, outside

MCScans == {root, pkg, pkgAgain}
MCFiles == {inPkg, outside}
MCScope == [s \in MCScans |-> IF s = root THEN MCFiles ELSE {inPkg}]
MCGivenPaths == {pkgAgain}
MCOverlap == MCScans \X MCScans

=============================================================================
