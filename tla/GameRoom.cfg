\* One room, two users on any two seats, with any moves brought; all three moves; up to three rounds.
CONSTANTS
    Users = {u1, u2}
    Rooms = {r1}
    NoUser = NoUser
    MaxRounds = 3
SPECIFICATION Spec
INVARIANTS
    TypeOK
    ScoreMatchesRounds
    VerdictMatchesScore
    StoredRoundsBackVerdict
    BroadcastsTellTheRoom
PROPERTIES
    
    CommittedMoveStands
    VerdictStands
    FinishedMatchIsStored
    ImplementsBestOfThree
