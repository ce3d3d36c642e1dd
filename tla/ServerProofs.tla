---------------------------- MODULE ServerProofs ----------------------------
(***************************************************************************)
(* Proofs about Server.  The rooms behind it change as in Rooms, so what   *)
(* is proved there holds here; on top of that, one invariant follows the   *)
(* request through its checks, and every property is a consequence of it.  *)
(***************************************************************************)
EXTENDS Server, RoomsProofs, FiniteSetTheorems

\* The request has passed the check of its token, or of its page.
PastToken == stage \in {"verified", "created"} \/ member # Nobody
PastPage == \/ stage \in {"posted", "decoded"} /\ request.body # "text"
            \/ stage = "decoded" \/ PastToken

ServerInv ==
    /\ RoomsInv
    /\ ServerTypeOK
    /\ process # "serving" => stage = "idle" /\ member = Nobody
    /\ member # Nobody <=> status \in {200, 201} \/ stage = "created"
    /\ stage # "answered" => status = 0
    /\ stage # "idle" /\ request.token = tokenFile => held
    /\ PastToken => held /\ request.token # Blank
    /\ PastPage /\ request.origin # NoOrigin => request.origin \in config
    /\ stage = "created" =>
        /\ request.room \in RoomID \cap created
        /\ ~used => Exists(request.room) /\ rooms[request.room].owner = member
    /\ EntrantKnowsTheOwner
    /\ StartsIffWellFormed
-----------------------------------------------------------------------------
(* What room.info() counts is finite, and not nothing.                     *)
LEMMA WellFormedIsFinite ==
    ASSUME NEW room, WellFormed(room)
    PROVE  /\ IsFiniteSet(room.participants)
           /\ Cardinality(room.participants) \in Nat
           /\ Cardinality(room.participants) >= 1
           /\ room.owner \in room.participants
<1>1. /\ room.order \in Seq(ParticipantID) /\ room.order # <<>>
      /\ ToSet(room.order) = room.participants
      /\ room.owner = Head(room.order)
    BY DEF WellFormed, Room
<1>2. DOMAIN room.order = 1..Len(room.order) /\ Len(room.order) \in Nat
    BY <1>1
<1>3. room.order \in Surjection(1..Len(room.order), room.participants)
    BY <1>1, <1>2 DEF ToSet, Surjection
<1>4. IsFiniteSet(room.participants)
    BY <1>2, <1>3, FS_Interval, FS_Surjection
<1>5. room.owner \in room.participants
    BY <1>1, <1>2 DEF ToSet
<1> QED BY <1>4, <1>5, FS_CardinalityType, FS_EmptySet

(* The rooms change as room.Manager lets them, whatever the step.          *)
LEMMA ServerStepIsRoomsStep == ServerTypeOK /\ [ServerNext]_vars => [RoomsNext]_roomVars
<1> SUFFICES ASSUME ServerTypeOK, [ServerNext]_vars
             PROVE  [RoomsNext]_roomVars
    OBVIOUS
<1>1. CASE \/ Load \/ Listen \/ (\E q \in Request : Ask(q))
           \/ \E content \in Token \cup {Blank, Missing} : Rotate(content)
           \/ Preflight \/ decodeJSON \/ verifyAccessToken \/ writeRoomError \/ DescribeRoom
    BY <1>1 DEF Load, Listen, Ask, Rotate, Preflight, decodeJSON, verifyAccessToken,
                writeRoomError, DescribeRoom
<1>2. ASSUME NEW r \in RoomID, NEW p \in ParticipantID, createRoom(r, p)
      PROVE  RoomsNext
    BY <1>2 DEF createRoom, RoomsNext
<1>3. ASSUME NEW p \in ParticipantID, joinRoom(p)
      PROVE  RoomsNext
    <2>1. request.room \in RoomID
        BY <1>3 DEF joinRoom, ServerTypeOK, Request
    <2> QED BY <1>3, <2>1 DEF joinRoom, RoomsNext
<1>4. CASE Others
    BY <1>4 DEF Others, RoomsNext
<1>5. CASE UNCHANGED vars
    BY <1>5 DEF vars, roomVars
<1> QED BY <1>1, <1>2, <1>3, <1>4, <1>5 DEF ServerNext, Serve

LEMMA ServerInvInit == ServerInit => ServerInv
<1> SUFFICES ASSUME ServerInit
             PROVE  ServerInv
    OBVIOUS
<1>1. RoomsInv
    BY RoomsInvInit DEF ServerInit
<1>2. ServerTypeOK
    BY DEF ServerInit, ServerTypeOK, NoRequest, Request, NoInfo, Settings
<1> QED BY <1>1, <1>2, RoomsAssumption
        DEF ServerInit, ServerInv, PastToken, PastPage, EntrantKnowsTheOwner,
            StartsIffWellFormed

\* parsePort and validate accept both limits or neither.
LEMMA LimitsAccepted ==
    ASSUME NEW min \in {Blank} \cup Int, NEW max \in {Blank} \cup Int
    PROVE  (validPort(min) /\ validPort(max) /\ validate(parsePort(min), parsePort(max)))
                <=> \/ min = Blank /\ max = Blank
                    \/ \E m \in 1..MaxPort : max = m /\ min \in 1..m
<1>1. Blank \notin Int /\ MaxPort \in Nat
    BY ServerAssumption
<1>2. CASE min = Blank
    BY <1>1, <1>2 DEF validPort, parsePort, validate
<1>3. CASE min \in Int /\ max = Blank
    BY <1>1, <1>3 DEF validPort, parsePort, validate
<1>4. CASE min \in Int /\ max \in Int
    <2>1. validPort(min) /\ validPort(max) <=> min \in 1..MaxPort /\ max \in 1..MaxPort
        BY <1>1, <1>4 DEF validPort
    <2>2. parsePort(min) = min /\ parsePort(max) = max
        BY <1>1, <1>4 DEF parsePort
    <2> QED BY <1>1, <1>4, <2>1, <2>2 DEF validate
<1> QED BY <1>2, <1>3, <1>4

\* What a step of main leaves alone.
LEMMA MainInv == ASSUME ServerInv, RoomsInv', Load \/ Listen
                 PROVE  ServerInv'
<1>1. CASE Load
    <2>1. ServerTypeOK'
        BY <1>1 DEF ServerInv, ServerTypeOK, Load, requestVars, splitValues, Settings, NoSettings
    <2>2. StartsIffWellFormed'
        <3> DEFINE min == settings.udpPortMin
                   max == settings.udpPortMax
        <3>1. settings \in Settings
            BY <1>1 DEF ServerInv, ServerTypeOK, NoSettings, Settings, RawPort
        <3>2. min \in {Blank} \cup Int /\ max \in {Blank} \cup Int
            BY <3>1, ServerAssumption DEF Settings, RawPort
        <3>3. (/\ validPort(min) /\ validPort(max) /\ validate(parsePort(min), parsePort(max)))
                <=> \/ min = Blank /\ max = Blank
                    \/ \E m \in 1..MaxPort : max = m /\ min \in 1..m
            <4> HIDE DEF min, max
            <4> QED BY <3>2, LimitsAccepted
        <3>4. splitValues(settings.frontendOrigins) # {}
                <=> \E o \in Origin : o \in settings.frontendOrigins
            BY <3>1, ServerAssumption DEF Settings, splitValues
        <3> QED BY <1>1, <3>3, <3>4 DEF Load, loadServerConfig, StartsIffWellFormed
    <2>3. /\ stage = "idle" /\ member = Nobody /\ process' \in {"listening", "refused"}
          /\ UNCHANGED <<roomVars, tokenFile, requestVars>>
        BY <1>1 DEF Load, ServerInv
    <2> QED BY <2>1, <2>2, <2>3
            DEF ServerInv, requestVars, PastToken, PastPage, EntrantKnowsTheOwner
<1>2. CASE Listen
    <2>1. ServerTypeOK'
        BY <1>2 DEF ServerInv, ServerTypeOK, Listen, requestVars
    <2> QED BY <1>2, <2>1
            DEF Listen, ServerInv, requestVars, roomVars, PastToken, PastPage,
                EntrantKnowsTheOwner, StartsIffWellFormed, Exists
<1> QED BY <1>1, <1>2

\* A new request has passed nothing yet.
LEMMA AskInv == ASSUME ServerInv, RoomsInv', NEW q \in Request, Ask(q)
                PROVE  ServerInv'
<1>1. ServerTypeOK'
    BY DEF ServerInv, ServerTypeOK, Ask, mainVars, NoInfo
<1>2. StartsIffWellFormed'
    BY DEF ServerInv, StartsIffWellFormed, Ask, mainVars
<1>3. request'.token = tokenFile' => held'
    BY Zenon DEF Ask
<1>4. /\ process' = "serving" /\ stage' \in {"preflight", "posted"} /\ status' = 0
      /\ member' = Nobody /\ request' = q /\ config' = config
      /\ stage' = "posted" /\ q.body # "text" => q.origin = NoOrigin
    BY DEF Ask, ServerInv, mainVars
<1> QED BY <1>1, <1>2, <1>3, <1>4
        DEF ServerInv, PastToken, PastPage, EntrantKnowsTheOwner

\* The checks: each lets the request go on only if it is in order.
LEMMA CheckInv ==
    ASSUME ServerInv, RoomsInv',
           Preflight \/ decodeJSON \/ verifyAccessToken \/ writeRoomError
    PROVE  ServerInv'
<1>1. /\ ServerTypeOK'
      /\ UNCHANGED <<roomVars, process, settings, config, tokenFile, request,
                     member, info, held, used>>
    BY DEF ServerInv, ServerTypeOK, Preflight, decodeJSON, verifyAccessToken,
           writeRoomError, mainVars, roomVars, Continue, Answered
<1>2. StartsIffWellFormed'
    BY <1>1 DEF ServerInv, StartsIffWellFormed
<1> USE <1>1, <1>2 DEF ServerInv, roomVars, Exists, Continue, Answered, PastToken, PastPage, EntrantKnowsTheOwner
<1>3. CASE Preflight
    BY <1>3 DEF Preflight, originAllowed
<1>4. CASE decodeJSON
    BY <1>4 DEF decodeJSON
<1>5. CASE verifyAccessToken
    <2>1. Verify(request.token) = "valid" => held /\ request.token # Blank
        BY <1>5 DEF verifyAccessToken, Verify
    <2> QED BY <1>5, <2>1 DEF verifyAccessToken
<1>6. CASE writeRoomError
    BY <1>6 DEF writeRoomError
<1> QED BY <1>3, <1>4, <1>5, <1>6

\* Entering a room: the participant is new, and its room is as it left it.
LEMMA EnterInv ==
    ASSUME ServerInv, RoomsInv',
           \/ \E r \in RoomID, p \in ParticipantID : createRoom(r, p)
           \/ \E p \in ParticipantID : joinRoom(p)
           \/ DescribeRoom
    PROVE  ServerInv'
<1>1. ASSUME NEW r \in RoomID, NEW p \in ParticipantID, createRoom(r, p)
      PROVE  ServerInv'
    <2>1. /\ rooms'[r].owner = p /\ r \in created'
          /\ p # Nobody
        BY <1>1, RoomsAssumption DEF createRoom, Create, ServerInv, RoomsInv, RoomsTypeOK
    <2>2. Exists(r)'
        <3>1. rooms'[r] \in Room
            BY <1>1, NewRoomWellFormed
               DEF createRoom, Create, ServerInv, RoomsInv, RoomsTypeOK, WellFormed
        <3> QED BY <3>1, RoomsAssumption DEF Exists
    <2>3. /\ stage = "verified" /\ stage' = "created" /\ status' = status
          /\ request' = [request EXCEPT !.room = r] /\ member' = p
          /\ UNCHANGED <<process, settings, config, tokenFile, info, held, used>>
        BY <1>1 DEF createRoom, Continue, mainVars
    <2>4. request'.room = r /\ UNCHANGED <<request.token, request.origin, request.body>>
        BY <2>3 DEF ServerInv, ServerTypeOK, Request
    <2>5. request' \in Request
        BY <2>3 DEF ServerInv, ServerTypeOK, Request
    <2>6. ServerTypeOK'
        BY <2>3, <2>5 DEF ServerInv, ServerTypeOK
    <2>7. StartsIffWellFormed'
        BY <2>3 DEF ServerInv, StartsIffWellFormed
    <2> QED BY <1>1, <2>1, <2>2, <2>3, <2>4, <2>6, <2>7
            DEF ServerInv, PastToken, PastPage, EntrantKnowsTheOwner
<1>2. ASSUME NEW p \in ParticipantID, joinRoom(p)
      PROVE  ServerInv'
    <2> DEFINE r == request.room
    <2>1. /\ stage = "verified" /\ stage' = "answered" /\ status' = 200
          /\ member' = p /\ info' = InfoOf(rooms'[r])
          /\ UNCHANGED <<process, settings, config, tokenFile, request, held, used>>
          /\ r \in RoomID /\ Join(r, p)
        BY <1>2 DEF joinRoom, Answered, mainVars, ServerInv, ServerTypeOK, Request
    <2>2. /\ WellFormed(rooms[r]) /\ p \notin rooms[r].participants
          /\ rooms'[r].owner = rooms[r].owner
          /\ rooms'[r].participants = rooms[r].participants \cup {p}
        <3> HIDE DEF r
        <3>1. /\ rooms[r] \in Room /\ WellFormed(rooms[r])
              /\ rooms[r].participants \subseteq issued /\ p \notin issued
              /\ rooms \in [RoomID -> Room \cup {NoRoom}]
            BY <2>1 DEF ServerInv, RoomsInv, RoomsTypeOK, Join, WellFormed
        <3> QED BY <2>1, <3>1 DEF Join, Room
    <2>3. /\ info'.owner \in ParticipantID /\ info'.owner # p
          /\ info'.count \in Nat /\ info'.count >= 2
        <3> HIDE DEF r
        <3>1. /\ rooms[r].owner \in ParticipantID /\ rooms[r].owner # p
              /\ IsFiniteSet(rooms[r].participants)
              /\ Cardinality(rooms[r].participants) \in Nat
              /\ Cardinality(rooms[r].participants) >= 1
            BY <2>2, WellFormedIsFinite DEF WellFormed, Room
        <3>2. Cardinality(rooms[r].participants \cup {p}) = Cardinality(rooms[r].participants) + 1
            BY <2>2, <3>1, FS_AddElement
        <3> QED BY <2>1, <2>2, <3>1, <3>2 DEF InfoOf
    <2>4. ServerTypeOK'
        BY <2>1, <2>3 DEF ServerInv, ServerTypeOK
    <2>5. p # Nobody /\ info'.owner # Nobody
        BY <2>3, RoomsAssumption
    <2>6. StartsIffWellFormed'
        BY <2>1 DEF ServerInv, StartsIffWellFormed
    <2> HIDE DEF r
    <2> QED BY <1>1, <2>1, <2>3, <2>4, <2>5, <2>6
            DEF ServerInv, PastToken, PastPage, EntrantKnowsTheOwner
<1>3. CASE DescribeRoom
    <2> DEFINE r == request.room
    <2>1. /\ stage = "created" /\ stage' = "answered" /\ status' = 201
          /\ info' \in IF Exists(r) THEN {InfoOf(rooms[r])} ELSE RoomInfo
          /\ r \in RoomID
          /\ UNCHANGED <<roomVars, process, settings, config, tokenFile, request, member, held, used>>
        BY <1>3 DEF DescribeRoom, Answered, mainVars, ServerInv
    <2>2. /\ Exists(r) => WellFormed(rooms[r])
          /\ ~used => Exists(r) /\ rooms[r].owner = member
        BY <2>1 DEF ServerInv, RoomsInv
    <2>3. /\ info'.owner \in ParticipantID \cup {Nobody} /\ info'.count \in Nat
          /\ ~used => info'.owner = member /\ info'.count >= 1
        <3> HIDE DEF r
        <3>1. CASE Exists(r)
            <4>1. rooms[r].owner \in ParticipantID
                BY <2>2, <3>1 DEF WellFormed, Room
            <4> QED BY <2>1, <2>2, <3>1, <4>1, WellFormedIsFinite DEF InfoOf
        <3>2. CASE ~Exists(r)
            <4>1. info' \in RoomInfo
                BY <2>1, <3>2
            <4>2. info'.owner \in ParticipantID \cup {Nobody}
                  /\ info'.count \in 0..Cardinality(ParticipantID)
                BY <4>1 DEF RoomInfo
            <4> QED BY <2>2, <3>2, <4>2
        <3> QED BY <3>1, <3>2
    <2>4. ServerTypeOK'
        BY <2>1, <2>3 DEF ServerInv, ServerTypeOK
    <2>5. StartsIffWellFormed'
        BY <2>1 DEF ServerInv, StartsIffWellFormed
    <2> HIDE DEF r
    <2> QED BY <2>1, <2>3, <2>4, <2>5
            DEF ServerInv, PastToken, PastPage, EntrantKnowsTheOwner
<1> QED BY <1>1, <1>2, <1>3

LEMMA RotateInv ==
    ASSUME ServerInv, RoomsInv', NEW content \in Token \cup {Blank, Missing}, Rotate(content)
    PROVE  ServerInv'
<1>1. /\ ServerTypeOK'
      /\ UNCHANGED <<roomVars, process, settings, config, stage, request, member, info, status, used>>
    BY DEF ServerInv, ServerTypeOK, Rotate, mainVars
<1>2. StartsIffWellFormed'
    BY <1>1 DEF ServerInv, StartsIffWellFormed
<1>3. (held => held') /\ (request'.token = tokenFile' => held')
    BY <1>1, Zenon DEF Rotate
<1> QED BY <1>1, <1>2, <1>3
        DEF ServerInv, roomVars, Exists, PastToken, PastPage, EntrantKnowsTheOwner

\* The creator's room is out of the others' reach unless they use its ID.
LEMMA OthersInv ==
    ASSUME ServerInv, RoomsInv', Others
    PROVE  ServerInv'
<1>1. /\ UNCHANGED <<process, settings, config, tokenFile, stage, request, member, info,
                     status, held>>
      /\ \/ used' = used
         \/ used' = (used \/ stage = "created")
    BY DEF Others, mainVars
<1>0. /\ ServerTypeOK' /\ (used => used')
      /\ (used' # used => stage = "created")
    <2>1. used \in BOOLEAN
        BY DEF ServerInv, ServerTypeOK
    <2>2. used' \in BOOLEAN /\ (used => used') /\ (used' # used => stage = "created")
        <3>1. CASE used' = used
            BY <2>1, <3>1
        <3>2. CASE used' = (used \/ stage = "created") /\ stage = "created"
            BY <2>1, <3>2
        <3>3. CASE used' = (used \/ stage = "created") /\ stage # "created"
            BY <2>1, <3>3
        <3> QED BY <1>1, <3>1, <3>2, <3>3
    <2> QED BY <1>1, <2>2 DEF ServerInv, ServerTypeOK
<1>2. stage = "created" => request.room \in created'
    <2>1. created \subseteq created'
        BY DEF Others, Create, Join, Leave, Dissolve, RemoveParticipant, SetMuted
    <2> QED BY <2>1 DEF ServerInv
<1>3. ASSUME stage = "created", ~used'
      PROVE  Exists(request.room)' /\ rooms'[request.room].owner = member
    <2> DEFINE s == request.room
    <2>1. /\ s \in RoomID \cap created /\ rooms[s].owner = member
          /\ rooms[s] \in Room /\ WellFormed(rooms[s]) /\ rooms[s] # NoRoom
          /\ rooms \in [RoomID -> Room \cup {NoRoom}]
          /\ member \in rooms[s].participants
        BY <1>1, <1>3, WellFormedIsFinite DEF ServerInv, RoomsInv, RoomsTypeOK, WellFormed, Exists
    <2>2. SUFFICES rooms'[s] # NoRoom /\ rooms'[s].owner = member
        BY <1>1 DEF Exists
    <2> HIDE DEF s
    <2>3. \E r \in RoomID, p \in ParticipantID :
              \/ Create(r, p)
              \/ Join(r, p)
              \/ p # member /\ (Leave(r, p) \/ Dissolve(r, p))
              \/ \E o \in ParticipantID :
                    \/ RemoveParticipant(r, o, p)
                    \/ \E muted \in BOOLEAN : SetMuted(r, o, p, muted)
        BY <1>3 DEF Others
    <2>4. ASSUME NEW r \in RoomID, NEW p \in ParticipantID, Create(r, p) \/ Join(r, p)
          PROVE  rooms'[s] # NoRoom /\ rooms'[s].owner = member
        <3>1. rooms'[s] # NoRoom
            BY <2>1, <2>4, RoomsAssumption DEF Create, Join, Room
        <3> QED BY <2>1, <2>4, <3>1 DEF Create, Join, Room
    <2>5. ASSUME NEW r \in RoomID, NEW p \in ParticipantID, p # member,
                 Leave(r, p) \/ Dissolve(r, p)
          PROVE  rooms'[s] # NoRoom /\ rooms'[s].owner = member
        <3>1. CASE r # s
            BY <2>1, <2>5, <3>1 DEF Leave, Dissolve
        <3>2. CASE r = s /\ Dissolve(r, p)
            BY <2>1, <2>5, <3>2 DEF Dissolve, ownerRoom
        <3>3. CASE r = s /\ Leave(r, p)
            <4> DEFINE left == Removed(rooms[s], p)
            <4>1. p \in rooms[s].participants
                BY <3>3 DEF Leave, GetParticipant
            <4>2. /\ left.participants = rooms[s].participants \ {p}
                  /\ left.owner = rooms[s].owner
                  /\ left \in Room
                BY <2>1, <4>1, RemovedWellFormed
            <4>3. left.participants # {} /\ Succession(left, p) = left /\ left # NoRoom
                BY <2>1, <2>5, <4>2, RoomsAssumption DEF Succession
            <4>4. rooms' = [rooms EXCEPT ![s] = left] /\ created' = created
                BY <3>3, <4>3 DEF Leave
            <4> HIDE DEF left
            <4> QED BY <2>1, <4>2, <4>3, <4>4
        <3> QED BY <2>5, <3>1, <3>2, <3>3
    <2>6. ASSUME NEW r \in RoomID, NEW p \in ParticipantID, NEW o \in ParticipantID,
                 RemoveParticipant(r, o, p)
          PROVE  rooms'[s] # NoRoom /\ rooms'[s].owner = member
        <3>1. WellFormed(rooms[r]) /\ p \in rooms[r].participants
            BY <2>6 DEF RemoveParticipant, ownerRoom, ServerInv, RoomsInv
        <3>2. Removed(rooms[r], p) \in Room /\ Removed(rooms[r], p).owner = rooms[r].owner
            BY <3>1, RemovedWellFormed
        <3> QED BY <2>1, <2>6, <3>2, RoomsAssumption DEF RemoveParticipant
    <2>7. ASSUME NEW r \in RoomID, NEW p \in ParticipantID, NEW o \in ParticipantID,
                 NEW muted \in BOOLEAN, SetMuted(r, o, p, muted)
          PROVE  rooms'[s] # NoRoom /\ rooms'[s].owner = member
        <3> DEFINE new == IF muted THEN rooms[r].muted \cup {p} ELSE rooms[r].muted \ {p}
        <3>1. rooms' = [rooms EXCEPT ![r].muted = new] /\ created' = created
            BY <2>7 DEF SetMuted
        <3>2. rooms'[s] \in Room \cup {NoRoom} /\ rooms[r] \in Room /\ new \subseteq ParticipantID
            BY <2>1, <2>7 DEF SetMuted, ownerRoom, Exists, RoomsInv, RoomsTypeOK, Room
        <3> HIDE DEF new
        <3>3. [rooms[r] EXCEPT !.muted = new] \in Room
            BY <3>2 DEF Room
        <3> QED BY <2>1, <3>1, <3>2, <3>3, RoomsAssumption DEF Room
    <2> QED BY <2>3, <2>4, <2>5, <2>6, <2>7
<1> QED BY <1>1, <1>0, <1>2, <1>3
        DEF ServerInv, PastToken, PastPage, EntrantKnowsTheOwner, StartsIffWellFormed

LEMMA ServerInvStep == ServerInv /\ [ServerNext]_vars => ServerInv'
<1> SUFFICES ASSUME ServerInv, [ServerNext]_vars
             PROVE  ServerInv'
    OBVIOUS
<1>1. RoomsInv'
    BY ServerStepIsRoomsStep, RoomsInvStep DEF ServerInv
<1>2. CASE Load \/ Listen
    BY <1>1, <1>2, MainInv
<1>3. ASSUME NEW q \in Request, Ask(q)
      PROVE  ServerInv'
    BY <1>1, <1>3, AskInv
<1>4. CASE Serve
    BY <1>1, <1>4, CheckInv, EnterInv DEF Serve
<1>5. ASSUME NEW content \in Token \cup {Blank, Missing}, Rotate(content)
      PROVE  ServerInv'
    BY <1>1, <1>5, RotateInv
<1>6. CASE Others
    BY <1>1, <1>6, OthersInv
<1>7. CASE UNCHANGED vars
    <2>1. ServerTypeOK' /\ StartsIffWellFormed'
        BY <1>7 DEF vars, mainVars, requestVars, ServerInv, ServerTypeOK, StartsIffWellFormed
    <2> QED BY <1>1, <1>7, <2>1
            DEF vars, mainVars, roomVars, requestVars, ServerInv, Exists, PastToken, PastPage,
                EntrantKnowsTheOwner
<1> QED BY <1>2, <1>3, <1>4, <1>5, <1>6, <1>7 DEF ServerNext
-----------------------------------------------------------------------------
(* Every step keeps the invariant, for any rooms, tokens, origins, ports.  *)
THEOREM ServerInvariant == ServerSpec => []ServerInv
BY ServerInvInit, ServerInvStep, PTL DEF ServerSpec

(* The server's rooms are room.Manager's: it takes no step of its own on   *)
(* them, so ownership by seniority holds of the whole server.              *)
THEOREM ServerImplementsRooms == ServerSpec => RoomsSpec
<1>1. ServerInit => RoomsInit
    BY DEF ServerInit
<1>2. ServerInv /\ [ServerNext]_vars => [RoomsNext]_roomVars
    BY ServerStepIsRoomsStep DEF ServerInv
<1> QED BY <1>1, <1>2, ServerInvariant, PTL DEF ServerSpec, RoomsSpec

THEOREM ServerTypeCorrect == ServerSpec => []ServerTypeOK
<1>1. ServerInv => ServerTypeOK
    BY DEF ServerInv
<1> QED BY <1>1, ServerInvariant, PTL

(* What main starts with is exactly what README.md:83-97 asks for.         *)
THEOREM ConfigurationChecked == ServerSpec => []StartsIffWellFormed
<1>1. ServerInv => StartsIffWellFormed
    BY DEF ServerInv
<1> QED BY <1>1, ServerInvariant, PTL

(* Nobody enters without a token that the file held during the request.    *)
THEOREM TokenRequired == ServerSpec => []AdmittedByTheToken
<1>1. ServerInv => AdmittedByTheToken
    BY DEF ServerInv, PastToken, AdmittedByTheToken
<1> QED BY <1>1, ServerInvariant, PTL

(* No page of an origin that is not configured enters a room.              *)
THEOREM OriginRequired == ServerSpec => []OnlyAllowedPagesEnter
<1>1. ServerInv => OnlyAllowedPagesEnter
    BY DEF ServerInv, PastToken, PastPage, OnlyAllowedPagesEnter
<1> QED BY <1>1, ServerInvariant, PTL

(* The answer names the owner as of the moment of entry: to whom creates,  *)
(* itself, unless its ID was used before Create had read the room again.   *)
THEOREM EntrantsToldTheTruth == ServerSpec => []EntrantKnowsTheOwner
<1>1. ServerInv => EntrantKnowsTheOwner
    BY DEF ServerInv
<1> QED BY <1>1, ServerInvariant, PTL
=============================================================================
