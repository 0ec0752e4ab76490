CONSTANTS
    rd = rd
    ot = ot
    u1 = u1
    u2 = u2
    fa = fa
    fb = fb
    Requests = {rd}
    Urls = {u1, u2}
    Original <- MCOriginal
    Up = {}
    Reader = rd
    Lo = 1
    Hi = 2
    Forks = {fa, fb}
    View <- MCView
    DepositCount <- MCDepositCount
    MaxDepositEvents = 1
SPECIFICATION Spec
INVARIANT DepositsOfOwnBlock
