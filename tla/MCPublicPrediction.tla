--------------------------- MODULE MCPublicPrediction ---------------------------
(* Small instances of PublicPrediction for TLC.                            *)
EXTENDS PublicPrediction, TLC

CONSTANTS f1, f2, m1, m2, c1, c2

OneWindow == [r \in Revisions |-> 1]
EndsAt3 == [r \in Revisions |-> 3]
\* A second revision is captured later, in a window of a single minute.
Ends12 == [r \in Revisions |-> r]

Symmetry == Permutations(Freezes) \cup Permutations(Controllers) \cup Permutations(Models)
=================================================================================
