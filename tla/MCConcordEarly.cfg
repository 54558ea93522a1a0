SPECIFICATION Spec
CONSTANTS
    Size = 3
    Power <- Powers111
    a = a
    b = b
    c = c
    Blocks = {a, b}
    Valid = {a, b}
    NilBlock = NilBlock
    NoBlock = NoBlock
    NoVote = NoVote
    NoSig = NoSig
    Peers = {}
    Faulty = {}
    FaultyMsgs <- Equivocations
    Proposer = 0
    Arg <- MCArg
    MaxCalls = 1
    MayCancel = {}
CHECK_DEADLOCK FALSE
INVARIANT NoCrash
