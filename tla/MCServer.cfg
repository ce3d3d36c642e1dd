SPECIFICATION ServerSpec
CONSTANTS
    RoomID = {r1}
    ParticipantID = {p1, p2, p3, p4}
    NoRoom = NoRoom
    Nobody = Nobody
    Token = {t1, t2}
    Origin = {o1, o2}
    NoOrigin = NoOrigin
    Blank = Blank
    Missing = Missing
    MaxPort = 2
SYMMETRY Symmetry
INVARIANTS
    RoomsTypeOK
    OrderMatchesParticipants
    OwnerIsParticipant
    ServerTypeOK
    StartsIffWellFormed
    AdmittedByTheToken
    OnlyAllowedPagesEnter
    EntrantKnowsTheOwner
PROPERTY OwnershipIsSeniority
CHECK_DEADLOCK FALSE
