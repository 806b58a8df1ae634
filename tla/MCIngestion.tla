----------------------------- MODULE MCIngestion -----------------------------
(* Instances of Ingestion for TLC.                                         *)
EXTENDS Ingestion, TLC

CONSTANTS r1, r2, r3, r4, f1, f2, c1, c2

\* Content c1 is cut into one chunk, c2 into two.
MCPieces == c1 :> 1 @@ c2 :> 2

\* No action tells one call from another, or one file name from another.
Symmetry == Permutations(Request) \cup Permutations(Filename)
=============================================================================
