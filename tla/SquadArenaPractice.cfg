SPECIFICATION Spec
CONSTANTS
    ann = ann
    bob = bob
    cyd = cyd
    ann1 = ann1
    ann2 = ann2
    bob1 = bob1
    cyd1 = cyd1
    Users = {ann, bob, cyd}
    Sockets = {ann1, bob1, cyd1}
    owner <- OwnerOf
    Verified = {ann}
    Joiners = {ann1, bob1, cyd1}
    MaxEntries = 3
    MaxJoins = 2
    MaxRooms = 3
    MaxPlayed = 1
INVARIANTS
    EndedMatchIsReleased
CHECK_DEADLOCK FALSE
