SPECIFICATION FairSessionsSpec
CONSTANTS
    RoomID = {r1}
    ParticipantID = {p1, p2}
    Conn = {c1, c2}
    NoRoom = NoRoom
    Nobody = Nobody
    NoConn = NoConn
    NoClient = NoClient
INVARIANTS
    SessionsTypeOK
    HubHoldsLiveHandlers
    UnregisteredIsBeingClosed
    MemberIsServed
PROPERTIES
    UnregisteredEnds
    ClosedPagesLeave
    DissolvedIsDisconnected
CHECK_DEADLOCK FALSE
