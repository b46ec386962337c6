--------------------------- MODULE MCDocumentWorkflow ---------------------------
(* Model checking DocumentWorkflow: two edits, a budget that only a large     *)
(* second one outgrows, and enough revisions to approve twice.                 *)
EXTENDS DocumentWorkflow, TLC

CONSTANTS a, b, k1, k2, alice, pr

MCPayloads == {{a}, {b}, {a, b}}

MCSymmetry == Permutations({k1, k2}) \cup Permutations({a, b})

=============================================================================
