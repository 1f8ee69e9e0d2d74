SPECIFICATION Spec
CONSTANTS
    Users <- MCUsers
    NoUser = NoUser
    Requests = {r1, r2}
    startFriends <- MCStartFriends
    Plans <- MCPlans
INVARIANTS TypeOK SquadShape
PROPERTY NoWayBack
SYMMETRY MCSymmetry
CHECK_DEADLOCK FALSE
