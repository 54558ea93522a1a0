SPECIFICATION Spec
CONSTANTS
    Size = 3
    Power <- MCPower
    Blocks = {a, b}
    NilBlock = NilBlock
    Peers = {}
    NoBlock = NoBlock
    NoVote = NoVote
    NoSig = NoSig
    a = a
    b = b
    Commits <- MCCommits
    TrustLevels <- MCTrustLevels
INVARIANTS
    TwoThirdsSigned LightAgrees TrustedShareSigned VerifiedCommitRebuilds
