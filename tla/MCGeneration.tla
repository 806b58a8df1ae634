---------------------------- MODULE MCGeneration ----------------------------
(* Instances of Generation for TLC.                                        *)
EXTENDS Generation, TLC

CONSTANTS r1, r2, r3, r4, r5, d1, d2, p1, p2

\* No action tells calls, documents or postings apart.
Symmetry == Permutations(Request) \cup Permutations(Document) \cup Permutations(Posting)
=============================================================================
