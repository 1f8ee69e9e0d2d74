SPECIFICATION Spec
CONSTANTS
    ann = ann
    bob = bob
    ann1 = ann1
    ann2 = ann2
    bob1 = bob1
    Users = {ann, bob}
    Sockets = {ann1, ann2, bob1}
    owner <- OwnerOf
    NoSocket = NoSocket
    MaxRooms = 2
INVARIANTS
    TypeOK
    OneWaits
    SeatsDiffer
    QueueIsLive
    OnlineIsLive
    PlayersHearTheirRoom
PROPERTIES
    NobodyIsDropped
    ReconnectedIsSeated
CHECK_DEADLOCK FALSE
