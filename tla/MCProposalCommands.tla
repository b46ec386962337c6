-------------------------- MODULE MCProposalCommands --------------------------
(* Model checking ProposalCommands: proposals that follow one another in one *)
(* range, one that changes nothing, and one that deletes.                    *)
EXTENDS ProposalCommands, TLC

CONSTANTS p, q, h1, h2, A, B, C, k1, k2, alice

MCRegion == p :> 1 @@ q :> 1
MCTarget == p :> A @@ q :> B
MCReplacement == p :> B @@ q :> C
MCOriginal == 1 :> A

MCPairRegion == p :> 1 @@ q :> 2
MCPairTarget == p :> A @@ q :> B
MCPairReplacement == p :> NoText @@ q :> B
MCPairOriginal == 1 :> A @@ 2 :> B

MCApply(k, items) ==
    [kind |-> "apply", command |-> k, principal |-> alice, items |-> items]

\* A batch, one of its proposals alone under the same command id, and the other
\* one, in the mode that changes nothing, under another id.
MCPairSent ==
    {MCApply(k1, p :> "replace" @@ q :> "insert_below"),
     MCApply(k1, p :> "replace"), MCApply(k2, q :> "replace")}
MCPairTyped == {<<<<1, "below">>, B>>, <<<<1, "text">>, NoText>>}

\* Both proposals in one range, the second on top of the first.
MCStackSent == {MCApply(k1, p :> "replace"), MCApply(k2, q :> "replace")}

MCSymmetry == Permutations({h1, h2})

=============================================================================
