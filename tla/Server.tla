------------------------------- MODULE Server -------------------------------
(***************************************************************************)
(* The server process from its command line to its answers: the settings   *)
(* that cmd/server and internal/media accept, and one POST request that    *)
(* enters a room (internal/api, internal/access), step by step, while the  *)
(* access token is replaced and other clients use the rooms.               *)
(*                                                                         *)
(* One request is followed, and the next one after its answer; all other   *)
(* requests and commands are what they do to the rooms.  The GET requests  *)
(* change nothing and are left out.  A browser is external: a page of      *)
(* another origin asks with OPTIONS before it posts JSON, and posts        *)
(* nothing when that is refused.  An ID is all that a command needs, and   *)
(* GET /api/rooms lists the IDs: anybody may act for any participant.      *)
(***************************************************************************)
EXTENDS Rooms, Integers

CONSTANTS
    Token,      \* access tokens, none of them blank
    Origin,     \* origins of pages
    NoOrigin,   \* a client that is not a page of another origin
    Blank,      \* text that TrimSpace leaves empty
    Missing,    \* the token file does not exist
    MaxPort     \* 65535

ASSUME ServerAssumption ==
    /\ MaxPort \in Nat
    /\ Blank \notin Token \cup Origin \cup Int
    /\ Missing \notin Token \cup {Blank}
    /\ NoOrigin \notin Origin

VARIABLES
    process,    \* the step of main
    settings,   \* flags and environment, until they are loaded
    config,     \* serverConfig, as far as it is used later
    tokenFile,  \* what the access token file holds
    stage,      \* the next step of the followed request
    request,    \* what it asks for
    member,     \* the participant that Create or Join has made for it
    info,       \* the room.Info it is answered with
    status,     \* the HTTP status it is answered with
    held,       \* the file has held its token at some moment since it began
    used        \* history: somebody has used member's ID before Create described its room

mainVars == <<process, settings, config>>
requestVars == <<stage, request, member, info, status, held, used>>
vars == <<roomVars, mainVars, tokenFile, requestVars>>

RawPort == {Blank, -1} \cup 0..(MaxPort + 1)    \* -1: anything ParseUint refuses

Settings == [listenAddress : {Blank, "address"}, frontendOrigins : SUBSET (Origin \cup {Blank}),
             accessTokenFile : {Blank, "path"}, udpPortMin : RawPort, udpPortMax : RawPort]

\* The body is not JSON, without names, in order, or in order but sent as text;
\* without a room it asks for a new one.
Request == [origin : Origin \cup {NoOrigin}, body : {"text", "garbled", "nameless", "proper"},
            token : Token \cup {Blank}, room : RoomID \cup {NoRoom}]

NoRequest == [origin |-> NoOrigin, body |-> "text", token |-> Blank, room |-> NoRoom]
NoSettings == [listenAddress |-> Blank, frontendOrigins |-> {}, accessTokenFile |-> Blank,
               udpPortMin |-> Blank, udpPortMax |-> Blank]
RoomInfo == [owner : ParticipantID \cup {Nobody}, count : 0..Cardinality(ParticipantID)]
NoInfo == [owner |-> Nobody, count |-> 0]
-----------------------------------------------------------------------------
\* parsePort: the port, and whether there is no error.
parsePort(value) == IF value = Blank THEN 0 ELSE value
validPort(value) == value = Blank \/ value \in 1..MaxPort

splitValues_KeepsBlank(items) == items

splitValues(items) == items \ {Blank}

loadServerConfig(s) ==
    /\ s.listenAddress # Blank
    /\ splitValues(s.frontendOrigins) # {}
    /\ s.accessTokenFile # Blank
    /\ validPort(s.udpPortMin)
    /\ validPort(s.udpPortMax)

validate_NoPair(min, max) == min <= max

\* media.Config.validate; SetEphemeralUDPPortRange has nothing to add.
validate(min, max) ==
    \/ min = 0 /\ max = 0
    \/ min # 0 /\ max # 0 /\ min <= max

ServerInit ==
    /\ RoomsInit
    /\ process = "loading"
    /\ settings \in Settings
    /\ config = {}
    /\ tokenFile \in Token \cup {Blank, Missing}
    /\ stage = "idle"
    /\ request = NoRequest
    /\ member = Nobody
    /\ info = NoInfo
    /\ status = 0
    /\ held = FALSE
    /\ used = FALSE

\* main up to ListenAndServe: everything is checked before anything is served.
Load ==
    /\ process = "loading"
    /\ process' = IF /\ loadServerConfig(settings)
                     /\ validate(parsePort(settings.udpPortMin), parsePort(settings.udpPortMax))
                  THEN "listening" ELSE "refused"
    /\ config' = splitValues(settings.frontendOrigins)
    /\ UNCHANGED <<roomVars, settings, tokenFile, requestVars>>

\* log.Fatal when the address cannot be used; otherwise the settings, which
\* nothing reads again, are forgotten.
Listen ==
    /\ process = "listening"
    /\ process' \in {"serving", "stopped"}
    /\ settings' = NoSettings
    /\ UNCHANGED <<roomVars, config, tokenFile, requestVars>>
-----------------------------------------------------------------------------
Answered(code) ==
    /\ stage' = "answered"
    /\ status' = code

Continue(from, to) == stage = from /\ stage' = to /\ UNCHANGED status

originAllowed(origin) == origin \in config

\* A client sends a request; a page whose JSON goes to another origin asks first.
Ask(q) ==
    /\ process = "serving"
    /\ stage \in {"idle", "answered"}
    /\ stage' = IF q.origin # NoOrigin /\ q.body # "text" THEN "preflight" ELSE "posted"
    /\ request' = q
    /\ held' = (q.token = tokenFile)
    /\ used' = FALSE
    /\ member' = Nobody
    /\ info' = NoInfo
    /\ status' = 0
    /\ UNCHANGED <<roomVars, mainVars, tokenFile>>

\* WithCORS on OPTIONS, and what the browser makes of its answer.
Preflight ==
    /\ stage = "preflight"
    /\ IF originAllowed(request.origin) THEN Continue("preflight", "posted") ELSE Answered(403)
    /\ UNCHANGED <<roomVars, mainVars, tokenFile, request, member, info, held, used>>

decodeJSON_AnyType ==
    /\ stage = "posted"
    /\ IF request.body = "garbled" THEN Answered(400) ELSE Continue("posted", "decoded")
    /\ UNCHANGED <<roomVars, mainVars, tokenFile, request, member, info, held, used>>

decodeJSON ==
    /\ stage = "posted"
    /\ \/ request.body = "text" /\ Answered(415)
       \/ request.body = "garbled" /\ Answered(400)
       \/ request.body \notin {"text", "garbled"} /\ Continue("posted", "decoded")
    /\ UNCHANGED <<roomVars, mainVars, tokenFile, request, member, info, held, used>>

Verify_FailsOpen(token) ==
    IF tokenFile = Missing THEN "valid"
    ELSE IF token = Blank \/ token # tokenFile THEN "invalid" ELSE "valid"

\* FileVerifier.Verify reads the file at every call.
Verify(token) ==
    IF tokenFile \in {Missing, Blank} THEN "unavailable"
    ELSE IF token = Blank \/ token # tokenFile THEN "invalid" ELSE "valid"

verifyAccessToken ==
    /\ stage = "decoded"
    /\ \/ Verify(request.token) = "valid" /\ Continue("decoded", "verified")
       \/ Verify(request.token) = "invalid" /\ Answered(403)
       \/ Verify(request.token) = "unavailable" /\ Answered(503)
    /\ UNCHANGED <<roomVars, mainVars, tokenFile, request, member, info, held, used>>

InfoOf(room) == [owner |-> room.owner, count |-> Cardinality(room.participants)]

\* Manager.Create up to the unlock.
createRoom(r, p) ==
    /\ request.room = NoRoom /\ request.body # "nameless"
    /\ Continue("verified", "created")
    /\ Create(r, p)
    /\ request' = [request EXCEPT !.room = r]
    /\ member' = p
    /\ UNCHANGED <<mainVars, tokenFile, info, held, used>>

\* Manager.Create line 53: room.info() without the lock, whatever has become of
\* the room; one that is no longer in the map has some values left.
DescribeRoom ==
    /\ stage = "created"
    /\ Answered(201)
    /\ info' \in IF Exists(request.room) THEN {InfoOf(rooms[request.room])} ELSE RoomInfo
    /\ UNCHANGED <<roomVars, mainVars, tokenFile, request, member, held, used>>

joinRoom(p) ==
    /\ stage = "verified" /\ request.room # NoRoom /\ request.body # "nameless"
    /\ Answered(200)
    /\ Join(request.room, p)
    /\ member' = p
    /\ info' = InfoOf(rooms'[request.room])
    /\ UNCHANGED <<mainVars, tokenFile, request, held, used>>

\* writeRoomError: no name or nickname, or no such room.
writeRoomError ==
    /\ stage = "verified"
    /\ \/ request.body = "nameless" /\ Answered(400)
       \/ /\ request.body # "nameless"
          /\ request.room # NoRoom /\ ~Exists(request.room)
          /\ Answered(404)
    /\ UNCHANGED <<roomVars, mainVars, tokenFile, request, member, info, held, used>>
-----------------------------------------------------------------------------
\* scripts/set-access-token.sh moves a new file into place; somebody may also
\* empty or delete it.
Rotate(content) ==
    /\ process = "serving"
    /\ tokenFile' = content
    /\ held' = (held \/ request.token = content)
    /\ UNCHANGED <<roomVars, mainVars, stage, request, member, info, status, used>>

\* The other requests, and the commands of participants over WebSocket.
Others ==
    /\ process = "serving"
    /\ \E r \in RoomID, p \in ParticipantID :
          \/ /\ \/ Create(r, p)
                \/ Join(r, p)
                \/ p # member /\ (Leave(r, p) \/ Dissolve(r, p))
                \/ \E o \in ParticipantID :
                      \/ RemoveParticipant(r, o, p)
                      \/ \E muted \in BOOLEAN : SetMuted(r, o, p, muted)
             /\ UNCHANGED used
          \/ /\ p = member /\ (Leave(r, p) \/ Dissolve(r, p))
             /\ used' = (used \/ stage = "created")
    /\ UNCHANGED <<mainVars, tokenFile, stage, request, member, info, status, held>>

Serve ==
    \/ Preflight \/ decodeJSON \/ verifyAccessToken \/ writeRoomError
    \/ \E r \in RoomID, p \in ParticipantID : createRoom(r, p)
    \/ DescribeRoom
    \/ \E p \in ParticipantID : joinRoom(p)

ServerNext ==
    \/ Load \/ Listen
    \/ \E q \in Request : Ask(q)
    \/ Serve
    \/ \E content \in Token \cup {Blank, Missing} : Rotate(content)
    \/ Others

ServerSpec == ServerInit /\ [][ServerNext]_vars
-----------------------------------------------------------------------------
(* The values of main's state and of the followed request.                 *)
ServerTypeOK ==
    /\ process \in {"loading", "listening", "serving", "refused", "stopped"}
    /\ settings \in Settings \cup {NoSettings}
    /\ config \subseteq Origin
    /\ tokenFile \in Token \cup {Blank, Missing}
    /\ stage \in {"idle", "preflight", "posted", "decoded", "verified", "created", "answered"}
    /\ request \in Request
    /\ member \in ParticipantID \cup {Nobody}
    /\ info.owner \in ParticipantID \cup {Nobody}
    /\ info.count \in Nat
    /\ status \in {0, 200, 201, 400, 403, 404, 415, 503}
    /\ held \in BOOLEAN /\ used \in BOOLEAN

(* README.md:83-97: an address, an origin and a token file are required,   *)
(* and "both UDP limits or neither", each from 1 to 65535 and in order.    *)
(* parsePort and validate share this check: 0 stands for a limit that is   *)
(* not set after the first and must not be accepted by it as a port.       *)
StartsIffWellFormed ==
    process \in {"listening", "refused"} =>
        (process = "listening" <=>
            /\ settings.listenAddress # Blank /\ settings.accessTokenFile # Blank
            /\ \E o \in Origin : o \in settings.frontendOrigins
            /\ \/ settings.udpPortMin = Blank /\ settings.udpPortMax = Blank
               \/ \E max \in 1..MaxPort :
                    settings.udpPortMax = max /\ settings.udpPortMin \in 1..max)

(* README.md:101, "updating the file rotates the token immediately", while *)
(* the file may be replaced, emptied or deleted at any moment: whoever     *)
(* enters a room has sent a token that is not blank and that the file held *)
(* at some moment between the request and its answer.                      *)
AdmittedByTheToken ==
    member # Nobody => held /\ request.token # Blank

(* README.md:90: "Origins allowed to access the HTTP API".  WithCORS turns *)
(* down preflights only, and a page need not ask before it posts text: it  *)
(* takes the Content-Type check as well to keep the other pages out.       *)
OnlyAllowedPagesEnter ==
    member # Nobody /\ request.origin # NoOrigin => request.origin \in config

(* Who creates a room is told that it is theirs, although Create reads the *)
(* room again after its unlock; who joins is told of another owner, and of *)
(* at least two participants.  The exception: from the unlock on anybody   *)
(* can find the creator's ID in GET /api/rooms and leave or dissolve the   *)
(* room with it, before Create has read the room.                          *)
EntrantKnowsTheOwner ==
    /\ status = 201 /\ ~used => info.owner = member /\ info.count >= 1
    /\ status = 200 => info.owner \notin {member, Nobody} /\ info.count >= 2
=============================================================================
