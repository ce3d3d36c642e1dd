------------------------------ MODULE Sessions ------------------------------
(***************************************************************************)
(* signaling.Handler and signaling.Hub (internal/signaling) over           *)
(* room.Manager: one WebSocket connection c is one goroutine running       *)
(* ServeHTTP, and pc[c] is where it stands between two lock acquisitions.  *)
(* Every call on the hub, the room manager and the media manager is a step *)
(* of its own, because other connections run between any two of them.      *)
(*                                                                         *)
(* Of the media manager only the map of peers is kept (ClosePeer and       *)
(* CloseRoom take a peer out of it in one critical section); Publications  *)
(* and Negotiation model the rest of it.  set-muted commands belong to     *)
(* Publications, and messages to browsers are left out, except that a      *)
(* client whose queue is full is closed, which is one way to Lose it.      *)
(***************************************************************************)
EXTENDS Rooms

CONSTANTS
    Conn,       \* WebSocket connections, with the goroutine serving each
    NoConn,     \* nil *Client
    NoClient    \* a connection that has not authenticated

Key == RoomID \X ParticipantID

ASSUME SessionsAssumption == NoConn \notin Conn /\ NoClient \notin Key

VARIABLES
    pc,         \* pc[c]: the next step of c's handler
    who,        \* who[c]: the room and participant that c authenticated for
    open,       \* open[c]: the WebSocket is open
    hub,        \* hub[k]: Hub.rooms, the client registered for k
    closing,    \* closing[c]: clients c took out of the hub and has to close
    target,     \* target[c]: whom the remove_participant command names
    peers,      \* peers[k]: media peer of k, named after the c that made it
    gone        \* the participants whose page was closed

connVars == <<pc, who, open, hub, closing, target, peers, gone>>
vars == <<roomVars, connVars>>

Member(k) == GetParticipant(k[1], k[2])

Step(c, from, to) == pc[c] = from /\ pc' = [pc EXCEPT ![c] = to]

\* Between Hub.Add and the Hub.Remove of the deferred disconnect.
Registered(c) ==
    pc[c] \in {"added", "serving", "offered", "answering", "removing", "taking",
               "closing", "dissolving", "takingRoom", "returning"}
-----------------------------------------------------------------------------
SessionsInit ==
    /\ RoomsInit
    /\ pc = [c \in Conn |-> "idle"]
    /\ who = [c \in Conn |-> NoClient]
    /\ open = [c \in Conn |-> FALSE]
    /\ hub = [k \in Key |-> NoConn]
    /\ closing = [c \in Conn |-> {}]
    /\ target = [c \in Conn |-> Nobody]
    /\ peers = [k \in Key |-> NoConn]
    /\ gone = {}

(* The HTTP API: a page creates a room, or joins one.                      *)
HTTPCreate(r, p) == Create(r, p) /\ UNCHANGED connVars
HTTPJoin(r, p) == Join(r, p) /\ UNCHANGED connVars

(* authenticate: the connection is accepted and its first message names a  *)
(* member.  Any other first message ends in reject and changes nothing.    *)
Authenticate(c, k) ==
    /\ Step(c, "idle", "authenticated")
    /\ k[2] \notin gone
    /\ Member(k)
    /\ who' = [who EXCEPT ![c] = k]
    /\ open' = [open EXCEPT ![c] = TRUE]
    /\ UNCHANGED <<roomVars, hub, closing, target, peers, gone>>

\* hub.Add: the client it replaces, if any, is closed next.
HubAdd_NilPrevious(c) ==
    /\ Step(c, "authenticated", "added")
    /\ hub' = [hub EXCEPT ![who[c]] = c]
    /\ closing' = [closing EXCEPT ![c] = {hub[who[c]]}]
    /\ UNCHANGED <<roomVars, who, open, target, peers, gone>>

HubAdd(c) ==
    /\ Step(c, "authenticated", "added")
    /\ hub' = [hub EXCEPT ![who[c]] = c]
    /\ closing' = [closing EXCEPT ![c] = {hub[who[c]]} \ {NoConn}]
    /\ UNCHANGED <<roomVars, who, open, target, peers, gone>>

\* Client.Close or CloseWithStatus on a client that was taken out of the hub.
CloseTaken_Skip(c, d) ==
    /\ d \in closing[c]
    /\ closing' = [closing EXCEPT ![c] = @ \ {d}]
    /\ UNCHANGED <<roomVars, pc, who, open, hub, target, peers, gone>>

CloseTaken(c, d) ==
    /\ d \in closing[c]
    /\ closing' = [closing EXCEPT ![c] = @ \ {d}]
    /\ open' = [open EXCEPT ![d] = FALSE]
    /\ UNCHANGED <<roomVars, pc, who, hub, target, peers, gone>>

\* sendSnapshot and the participant_connected broadcast.  The snapshot needs
\* the room, and room in the client's queue; without either ServeHTTP returns.
SendSnapshot_Ignored(c) ==
    /\ closing[c] = {}
    /\ Step(c, "added", "serving")
    /\ UNCHANGED <<roomVars, who, open, hub, closing, target, peers, gone>>

SendSnapshot_LateDefer(c) ==
    /\ closing[c] = {}
    /\ \/ Step(c, "added", "serving") /\ Exists(who[c][1])
       \/ Step(c, "added", "done")
    /\ UNCHANGED <<roomVars, who, open, hub, closing, target, peers, gone>>

SendSnapshot(c) ==
    /\ closing[c] = {}
    /\ \/ Step(c, "added", "serving") /\ Exists(who[c][1])
       \/ Step(c, "added", "returning")
    /\ UNCHANGED <<roomVars, who, open, hub, closing, target, peers, gone>>

(* The read loop: the read fails once the socket is closed, and a leave    *)
(* message returns as well.                                                *)
ReadFails(c) ==
    /\ ~open[c]
    /\ Step(c, "serving", "returning")
    /\ UNCHANGED <<roomVars, who, open, hub, closing, target, peers, gone>>

ReadLeave(c) ==
    /\ open[c]
    /\ Step(c, "serving", "returning")
    /\ UNCHANGED <<roomVars, who, open, hub, closing, target, peers, gone>>
-----------------------------------------------------------------------------
(* handleOffer: HandleOffer closes the old peer, then publishes the new    *)
(* one, then completes the exchange or closes whatever peer is there.      *)
OfferClosePeer(c) ==
    /\ open[c]
    /\ Step(c, "serving", "offered")
    /\ peers' = [peers EXCEPT ![who[c]] = NoConn]
    /\ UNCHANGED <<roomVars, who, open, hub, closing, target, gone>>

OfferInsertPeer(c) ==
    /\ Step(c, "offered", "answering")
    /\ peers' = [peers EXCEPT ![who[c]] = c]
    /\ UNCHANGED <<roomVars, who, open, hub, closing, target, gone>>

\* NewPeerConnection fails: the old peer is gone and no new one comes.
OfferRefused(c) ==
    /\ Step(c, "offered", "serving")
    /\ UNCHANGED <<roomVars, who, open, hub, closing, target, peers, gone>>

OfferAnswer(c) ==
    /\ Step(c, "answering", "serving")
    /\ peers' \in {peers, [peers EXCEPT ![who[c]] = NoConn]}
    /\ UNCHANGED <<roomVars, who, open, hub, closing, target, gone>>

(* removeParticipant: room manager, media manager, hub, then the close.    *)
RemoveFromRoom(c, p) ==
    /\ open[c]
    /\ Step(c, "serving", "removing")
    /\ RemoveParticipant(who[c][1], who[c][2], p)
    /\ target' = [target EXCEPT ![c] = p]
    /\ UNCHANGED <<who, open, hub, closing, peers, gone>>

RemovePeer(c) ==
    /\ Step(c, "removing", "taking")
    /\ peers' = [peers EXCEPT ![<<who[c][1], target[c]>>] = NoConn]
    /\ UNCHANGED <<roomVars, who, open, hub, closing, target, gone>>

HubTake_Own(c) ==
    /\ Step(c, "taking", "closing")
    /\ closing' = [closing EXCEPT ![c] = {hub[who[c]]} \ {NoConn}]
    /\ hub' = [hub EXCEPT ![who[c]] = NoConn]
    /\ target' = [target EXCEPT ![c] = Nobody]
    /\ UNCHANGED <<roomVars, who, open, peers, gone>>

HubTake(c) ==
    LET k == <<who[c][1], target[c]>>
    IN  /\ Step(c, "taking", "closing")
        /\ closing' = [closing EXCEPT ![c] = {hub[k]} \ {NoConn}]
        /\ hub' = [hub EXCEPT ![k] = NoConn]
        /\ target' = [target EXCEPT ![c] = Nobody]
        /\ UNCHANGED <<roomVars, who, open, peers, gone>>

(* dissolveRoom: the same order, for everybody in the room, c included.    *)
DissolveRoom(c) ==
    /\ open[c]
    /\ Step(c, "serving", "dissolving")
    /\ Dissolve(who[c][1], who[c][2])
    /\ UNCHANGED <<who, open, hub, closing, target, peers, gone>>

CloseRoom(c) ==
    /\ Step(c, "dissolving", "takingRoom")
    /\ peers' = [k \in Key |-> IF k[1] = who[c][1] THEN NoConn ELSE peers[k]]
    /\ UNCHANGED <<roomVars, who, open, hub, closing, target, gone>>

HubTakeRoom(c) ==
    LET mine == {k \in Key : k[1] = who[c][1]}
    IN  /\ Step(c, "takingRoom", "closing")
        /\ closing' = [closing EXCEPT ![c] = {hub[k] : k \in mine} \ {NoConn}]
        /\ hub' = [k \in Key |-> IF k \in mine THEN NoConn ELSE hub[k]]
        /\ UNCHANGED <<roomVars, who, open, target, peers, gone>>

CommandDone(c) ==
    /\ closing[c] = {}
    /\ Step(c, "closing", "serving")
    /\ UNCHANGED <<roomVars, who, open, hub, closing, target, peers, gone>>
-----------------------------------------------------------------------------
(* disconnect, deferred by ServeHTTP: hub.Remove compares pointers; only   *)
(* when it held this very client do ClosePeer and Leave follow.  The       *)
(* deferred connection.Close is the last thing that happens.               *)
HubRemove_AnyClient(c) ==
    /\ Step(c, "returning", "releasing")
    /\ hub' = [hub EXCEPT ![who[c]] = NoConn]
    /\ UNCHANGED <<roomVars, who, open, closing, target, peers, gone>>

HubRemove_KeepEntry(c) ==
    /\ Step(c, "returning", "releasing")
    /\ hub[who[c]] = c
    /\ UNCHANGED <<roomVars, who, open, hub, closing, target, peers, gone>>

HubRemove(c) ==
    /\ Step(c, "returning", "releasing")
    /\ hub[who[c]] = c
    /\ hub' = [hub EXCEPT ![who[c]] = NoConn]
    /\ UNCHANGED <<roomVars, who, open, closing, target, peers, gone>>

HubRemoveRefused(c) ==
    /\ Step(c, "returning", "done")
    /\ hub[who[c]] # c
    /\ open' = [open EXCEPT ![c] = FALSE]
    /\ UNCHANGED <<roomVars, who, hub, closing, target, peers, gone>>

ReleasePeer(c) ==
    /\ Step(c, "releasing", "leaving")
    /\ peers' = [peers EXCEPT ![who[c]] = NoConn]
    /\ UNCHANGED <<roomVars, who, open, hub, closing, target, gone>>

LeaveRoom(c) ==
    /\ Step(c, "leaving", "done")
    /\ \/ Leave(who[c][1], who[c][2])
       \/ ~Member(who[c]) /\ UNCHANGED roomVars
    /\ open' = [open EXCEPT ![c] = FALSE]
    /\ UNCHANGED <<who, hub, closing, target, peers, gone>>
-----------------------------------------------------------------------------
(* The network and the browsers.  A connection is lost (or closed by a     *)
(* Broadcast that found its queue full); a page is closed for good; a      *)
(* peer's transport fails and closeIfCurrent drops it.                     *)
Lose(c) ==
    /\ open[c]
    /\ open' = [open EXCEPT ![c] = FALSE]
    /\ UNCHANGED <<roomVars, pc, who, hub, closing, target, peers, gone>>

ClosePage(p) ==
    /\ p \in issued \ gone
    /\ gone' = gone \cup {p}
    /\ open' = [c \in Conn |-> open[c] /\ who[c] \notin RoomID \X {p}]
    /\ UNCHANGED <<roomVars, pc, who, hub, closing, target, peers>>

PeerFails(k) ==
    /\ peers[k] # NoConn
    /\ peers' = [peers EXCEPT ![k] = NoConn]
    /\ UNCHANGED <<roomVars, pc, who, open, hub, closing, target, gone>>
-----------------------------------------------------------------------------
\* What the goroutine of c does by itself, once it has something to do.
Handle(c) ==
    \/ HubAdd(c)
    \/ \E d \in Conn : CloseTaken(c, d)
    \/ SendSnapshot(c)
    \/ ReadFails(c)
    \/ OfferInsertPeer(c) \/ OfferRefused(c) \/ OfferAnswer(c)
    \/ RemovePeer(c) \/ HubTake(c)
    \/ CloseRoom(c) \/ HubTakeRoom(c)
    \/ CommandDone(c)
    \/ HubRemove(c) \/ HubRemoveRefused(c)
    \/ ReleasePeer(c) \/ LeaveRoom(c)

\* What a browser may send, or not.
Receive(c) ==
    \/ \E k \in Key : Authenticate(c, k)
    \/ ReadLeave(c)
    \/ OfferClosePeer(c)
    \/ \E p \in ParticipantID : RemoveFromRoom(c, p)
    \/ DissolveRoom(c)

SessionsNext ==
    \/ \E r \in RoomID, p \in ParticipantID : HTTPCreate(r, p) \/ HTTPJoin(r, p)
    \/ \E c \in Conn : Handle(c) \/ Receive(c) \/ Lose(c)
    \/ \E p \in ParticipantID : ClosePage(p)
    \/ \E k \in Key : PeerFails(k)

SessionsSpec == SessionsInit /\ [][SessionsNext]_vars

\* The Go scheduler runs every goroutine that can run; browsers, the network
\* and the HTTP API owe nothing.
FairSessionsSpec == SessionsSpec /\ \A c \in Conn : WF_vars(Handle(c))
-----------------------------------------------------------------------------
(* The values of the connections' state.                                   *)
SessionsTypeOK ==
    /\ RoomsTypeOK
    /\ pc \in [Conn -> {"idle", "authenticated", "added", "serving", "offered",
                        "answering", "removing", "taking", "closing",
                        "dissolving", "takingRoom", "returning", "releasing",
                        "leaving", "done"}]
    /\ who \in [Conn -> Key \cup {NoClient}]
    /\ open \in [Conn -> BOOLEAN]
    /\ hub \in [Key -> Conn \cup {NoConn}]
    /\ closing \in [Conn -> SUBSET Conn]
    /\ target \in [Conn -> ParticipantID \cup {Nobody}]
    /\ peers \in [Key -> Conn \cup {NoConn}]
    /\ gone \subseteq ParticipantID

(* The hub never keeps the client of a handler that has finished, nor one  *)
(* under somebody else's name: broadcasts and forwarded signals always     *)
(* reach a goroutine that can still deliver them.                          *)
HubHoldsLiveHandlers ==
    \A k \in Key : hub[k] # NoConn => /\ who[hub[k]] = k
                                     /\ Registered(hub[k])

(* A handler that reads commands but is no longer in the hub (replaced,    *)
(* kicked or dissolved) has a closed socket, or somebody about to close    *)
(* it: nobody takes a client out of the hub and then forgets it.           *)
UnregisteredIsBeingClosed ==
    \A c \in Conn : Registered(c) /\ hub[who[c]] # c =>
        ~open[c] \/ \E d \in Conn : c \in closing[d]

(* README.md:5: a member leaves when their connection is lost, and it is   *)
(* the handlers alone that see to it.  So whoever is a member and has ever *)
(* connected has a handler that has not finished, although every handler   *)
(* that finds itself replaced ends without a word to the room manager.     *)
MemberIsServed ==
    \A k \in Key : Member(k) /\ (\E c \in Conn : who[c] = k) =>
        \E d \in Conn : who[d] = k /\ pc[d] # "done"

(* Such a handler ends, whatever it was doing when it was taken out.       *)
UnregisteredEnds ==
    \A c \in Conn : (Registered(c) /\ hub[who[c]] # c) ~> (pc[c] = "done")

(* Once a page is closed while one of its connections is being served, its *)
(* participant leaves, through whatever reconnections, removals and        *)
(* dissolutions were going on (README.md:5).                               *)
ClosedPagesLeave ==
    \A k \in Key :
        (k[2] \in gone /\ \E c \in Conn : who[c] = k /\ pc[c] # "done")
            ~> ~Member(k)

(* When the owner dissolves the room, every handler of that room ends, one *)
(* that has passed authenticate and reaches the hub only after TakeRoom    *)
(* included: its snapshot fails.                                           *)
DissolvedIsDisconnected ==
    \A c, d \in Conn :
        (/\ pc[d] = "dissolving"
         /\ pc[c] \notin {"idle", "done"}
         /\ who[c][1] = who[d][1]) ~> (pc[c] = "done")

(* handler.go:145-146: "Only the Client that Hub currently holds is        *)
(* allowed to remove the participant from the room", so a member does not  *)
(* leave through an old connection while the hub holds a newer one.        *)
OnlyCurrentClientLeaves ==
    [][\A c \in Conn :
        pc[c] = "leaving" /\ pc'[c] = "done" /\ Member(who[c])
            => hub[who[c]] \in {c, NoConn}]_vars
=============================================================================
