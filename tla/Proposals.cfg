\* Two proposals in two ranges, one of which changes nothing when it replaces.
SPECIFICATION Spec
CONSTANTS
    p = p
    q = q
    h1 = h1
    h2 = h2
    A = A
    B = B
    C = C
    k1 = k1
    k2 = k2
    alice = alice
    Sent <- MCPairSent
    Typed <- MCPairTyped
    NoText = NoText
    Proposals = {p, q}
    Commands = {k1, k2}
    Principals = {alice}
    Handlers = {h1, h2}
    Regions = {1, 2}
    Texts = {A, B}
    Region <- MCPairRegion
    Target <- MCPairTarget
    Replacement <- MCPairReplacement
    Original <- MCPairOriginal
    MaxSeq = 3
    MaxGeneration = 2
    MaxRevision = 1
SYMMETRY MCSymmetry
INVARIANTS
    AcceptedByOneChange
    OneResult
PROPERTIES
    CommandPublishes
CHECK_DEADLOCK FALSE
