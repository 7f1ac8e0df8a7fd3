--------------------------- MODULE MCSpawnBatches ---------------------------
(* Two workers, a batch of four files, which splits down to the depth cap of
   one, and a batch of a single file.  The files 2 and 3, which end in the two
   halves of their batch, are the two lint paths of one .astro source.  *)
EXTENDS SpawnBatches

MCFileBatches == <<{1, 2, 3, 4}, {5}>>
MCSourcePath == [f \in 1..5 |-> IF f = 3 THEN 2 ELSE f]

=============================================================================
