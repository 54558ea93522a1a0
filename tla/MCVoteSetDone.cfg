SPECIFICATION Spec
CONSTANTS
    Size = 4
    Power <- MCPower
    a = a
    b = b
    Blocks = {a, b}
    NilBlock = NilBlock
    NoBlock = NoBlock
    NoVote = NoVote
    NoSig = NoSig
    Peers = {p1}
    SignedMsgType = "precommit"
    Offered <- EquivocatingVotes
INVARIANT DoneMeansMajority
