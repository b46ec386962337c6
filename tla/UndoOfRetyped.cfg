\* Two proposals in one range, the second on top of what the first wrote.
SPECIFICATION Spec
CONSTANTS
    p = p
    q = q
    h1 = h1
    h2 = h2
    A = A
    B = B
    C = C
    k1 = k1
    k2 = k2
    alice = alice
    NoText = NoText
    Proposals = {p, q}
    Commands = {k1, k2, k3, k4}
    Principals = {alice}
    Handlers = {h1}
    Regions = {1}
    Texts = {A, B, C}
    Region <- MCRegion
    Target <- MCTarget
    Replacement <- MCReplacement
    Original <- MCOriginal
    Sent <- MCStackSent
    Typed = {}
    MaxSeq = 4
    MaxGeneration = 1
    MaxRevision = 0
PROPERTY UndoRestores
CHECK_DEADLOCK FALSE
