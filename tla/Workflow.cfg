SPECIFICATION WorkflowSpec
CONSTANTS
    a = a
    b = b
    k1 = k1
    k2 = k2
    alice = alice
    pr = pr
    Ops = {a, b}
    Keys = {k1, k2}
    Principals = {alice}
    Origins = {"client", "proposal_command"}
    Payloads <- MCPayloads
    Proposals = {pr}
    CheckpointLimit = 3
    CumulativeLimit = 5
    MaxSeq = 2
    MaxRevision = 5
    MaxApprovals = 2
SYMMETRY MCSymmetry
INVARIANT
    ApprovalBindsContent
    ApprovalTrail
PROPERTY
    ArchiveFreezes
    NotificationsAdvance
CHECK_DEADLOCK FALSE
