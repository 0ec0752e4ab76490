CONSTANTS
    w1 = w1
    w2 = w2
    b1 = b1
    b2 = b2
    Workers = {w1}
    Blocks = {b1, b2}
    PreCapella = {b1}
    MergeBlocks = {b1}
    Ops = {"untrusted", "trusted_blinded", "perform", "gossip", "validate"}
SPECIFICATION Spec
INVARIANT
    VerificationHonoured
