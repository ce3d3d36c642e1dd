SPECIFICATION SessionsSpec
CONSTANTS
    RoomID = {r1}
    ParticipantID = {p1, p2}
    Conn = {c1, c2, c3}
    NoRoom = NoRoom
    Nobody = Nobody
    NoConn = NoConn
    NoClient = NoClient
PROPERTY OnlyCurrentClientLeaves
CHECK_DEADLOCK FALSE
