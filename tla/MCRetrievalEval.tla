---------------------------- MODULE MCRetrievalEval ---------------------------
(* Instances of RetrievalEval for TLC.                                     *)
EXTENDS RetrievalEval

CONSTANTS k1, k2, k3, k4, a, b, t, u

\* Chunks are compared by their ranks only, labels and texts for equality.
Symmetry == Permutations(Chunk) \cup Permutations(DocId) \cup Permutations(Text)
===============================================================================
