SPECIFICATION Spec
CONSTANTS
    Size = 2
    Power <- Powers31
    a = a
    b = b
    c = c
    Blocks = {a, b}
    Valid = {a, b}
    NilBlock = NilBlock
    NoBlock = NoBlock
    NoVote = NoVote
    NoSig = NoSig
    Peers = {}
    Faulty = {}
    FaultyMsgs <- Equivocations
    Proposer = 0
    Arg <- MCArg
    MaxCalls = 2
    MayCancel = {}
CHECK_DEADLOCK FALSE
SYMMETRY BlockSymmetry
INVARIANT CommitsAreCurrent
