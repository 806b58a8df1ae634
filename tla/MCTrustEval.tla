------------------------------ MODULE MCTrustEval -----------------------------
(* Instances of TrustEval for TLC.                                         *)
EXTENDS TrustEval

\* The default gate, the ends of the scale, and a gate between two scores that
\* round to one number of points.
MCGate == {<<9000, 8500>>, <<0, 10000>>, <<10000, 0>>, <<6700, 8500>>}
===============================================================================
