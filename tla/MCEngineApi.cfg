CONSTANTS
    prop = prop
    sync = sync
    u1 = u1
    u2 = u2
    Requests = {prop, sync}
    Urls = {u1, u2}
    Original <- MCOriginal
    Up = {}
    Proposer = prop
SPECIFICATION Spec
INVARIANTS
    VersionsAgree
