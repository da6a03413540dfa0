SPECIFICATION PublisherSpec
CONSTANTS
    Sessions = {"a1", "a2", "b1", "p1"}
    Identity <- Ident
    MaxRooms = 3
    RoomScopes <- AllRooms
    Publisher = "p1"
    Cids = {"c", "d"}
    MaxMedia = 2
    MaxAdds = 3
    MaxPending = 1
    MaxQueued = 2
    PublishScopes <- DeleteScenario
    AnswererTracks = {"v1", "v2"}
    AnswererScopes <- SilentScenario
INVARIANT ActiveRoomIsFound
CHECK_DEADLOCK FALSE
