SPECIFICATION FairSpec
CONSTANTS
    p1 = p1
    p2 = p2
    p3 = p3
    Pairs = {p1, p2, p3}
    NoPair = NoPair
    Requests = {r1, r2}
    Admins = {a1, a2}
    Plans <- MCPlans
INVARIANTS TypeOK SpentPairsAreRefused
PROPERTY AccountChangesTakeHold
CHECK_DEADLOCK FALSE
