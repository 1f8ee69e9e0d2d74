\* As GameRoom.cfg, for the announcement of rounds.
CONSTANTS
    Users = {u1, u2}
    Rooms = {r1}
    NoUser = NoUser
    MaxRounds = 3
SPECIFICATION Spec
INVARIANTS
    RoundAnnouncedOnce
