SPECIFICATION Spec
CONSTANTS
    ann = ann
    bob = bob
    cyd = cyd
    ann1 = ann1
    ann2 = ann2
    bob1 = bob1
    cyd1 = cyd1
    Users = {ann, bob, cyd}
    Sockets = {ann1, ann2, bob1, cyd1}
    owner <- OwnerOf
    Verified = {ann}
    Joiners = {ann1, bob1, cyd1}
    MaxEntries = 3
    MaxJoins = 2
    MaxRooms = 2
    MaxPlayed = 1
INVARIANTS
    TypeOK
    OneSeatPerUser
    ArenaShape
PROPERTIES
    NobodyVanishes
    QueueIsFair
    ImplementsKingOfTheHill
    QuitterLoses
    RankedMatchReleases
CHECK_DEADLOCK FALSE
