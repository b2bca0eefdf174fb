--------------------------- MODULE MCSemLifecycle ---------------------------
(* Small instances of SemLifecycle for TLC.                                *)
EXTENDS SemLifecycle, TLC

\* The processes other than init are interchangeable.
Symmetry == Permutations(Others)

\* A bound on how many kinds of things go wrong between two clean-ups.
MaxDisturbed == 3

FewDisturbances == Cardinality(disturbed) <= MaxDisturbed
=============================================================================
