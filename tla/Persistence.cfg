SPECIFICATION Spec
CONSTANTS
    a = a
    b = b
    c = c
    k1 = k1
    k2 = k2
    k3 = k3
    alice = alice
    pr = pr
    Ops = {a, b, c}
    Keys = {k1, k2, k3}
    Principals = {alice}
    Origins = {"client", "proposal_command"}
    Payloads <- MCPayloads
    Proposals = {pr}
    CheckpointLimit = 4
    CumulativeLimit = 5
    MaxSeq = 3
    MaxRevision = 1
INVARIANT
    KeysSpentOnce
    GaplessHistory
    RecoveryExact
    ProjectionExact
    StorageBounded
PROPERTY
    RevisionCountsChanges
    ImplementsAcceptedHistory
SYMMETRY MCSymmetry
