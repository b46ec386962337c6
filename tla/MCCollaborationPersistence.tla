---------------------- MODULE MCCollaborationPersistence ----------------------
(* Model checking CollaborationPersistence: updates that overlap, so that a  *)
(* checkpoint is smaller than the tail it replaces and a document rotates    *)
(* twice, and three keys, so that retries, reuse by another kind of sender   *)
(* and new writes interleave.                                                *)
EXTENDS CollaborationPersistence, TLC

CONSTANTS a, b, c, k1, k2, k3, alice, pr

MCPayloads == {{a}, {a, b}, {c}}

MCSymmetry == Permutations({k1, k2, k3})

=============================================================================
