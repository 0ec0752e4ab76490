CONSTANTS
    r1 = r1
    r2 = r2
    u1 = u1
    u2 = u2
    u3 = u3
    Requests = {r1}
    Urls = {u1, u2, u3}
    Original <- MCOriginal3
    Up = {}
SPECIFICATION Spec
INVARIANT ExhaustedAfterTryingAll
