SPECIFICATION PublisherSpec
CONSTANTS
    Sessions = {"a1", "a2", "b1", "p1"}
    Identity <- Ident
    MaxRooms = 3
    RoomScopes <- AllRooms
    Publisher = "p1"
    Cids = {"c", "d"}
    MaxMedia = 2
    MaxAdds = 3
    MaxPending = 2
    MaxQueued = 2
    PublishScopes <- Scenarios
    AnswererTracks = {"v1", "v2"}
    AnswererScopes <- Answers
INVARIANTS PublishTypeOK LiveStaysMember NobodyStaysInClosedRoom NothingForgotten MuteIsApplied RevokedIsRemoved LiveIsMonitored ClosedIsForgotten
PROPERTIES ClosedIsRemoved SessionsReturn AnswererSettles
CHECK_DEADLOCK FALSE
