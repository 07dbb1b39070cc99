------------------------------- MODULE MCDeltaNews ------------------------------
(* Three reports of one story, so that one more than the slots can be under way.  *)
EXTENDS DeltaNews, TLC

CONSTANTS u1, u2, u3

MCSymmetry == Permutations(Urls)
MCFingerprint == [u \in Urls |-> 1]
=============================================================================
