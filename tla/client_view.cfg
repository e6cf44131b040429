CONSTANTS
    u = u
    v = v
    Users = {u, v}
    Visitors = {u, v}
    Moves <- StatusMovesOf
    MaxItems = 1
    MaxMounts = 2
    Nobody = Nobody
SPECIFICATION FairSpec
PROPERTY StoredIsRooms
PROPERTY CardCatchesUp
CHECK_DEADLOCK FALSE
