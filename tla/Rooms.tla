------------------------------- MODULE Rooms -------------------------------
(***************************************************************************)
(* room.Manager (internal/room): every operation runs under one lock, so   *)
(* each is one action.  A call that returns an error changes nothing and   *)
(* is a disabled action here.  Names, nicknames and timestamps are left    *)
(* out; IDs are 16 random bytes (newID) and are taken never to repeat.     *)
(***************************************************************************)
EXTENDS SequencesExt

CONSTANTS
    RoomID, ParticipantID,
    NoRoom,     \* what the rooms map answers for an absent key
    Nobody      \* the empty participant ID

Room == [owner        : ParticipantID,
         participants : SUBSET ParticipantID,
         muted        : SUBSET ParticipantID,   \* those with MutedByOwner set
         order        : Seq(ParticipantID)]

ASSUME RoomsAssumption == NoRoom \notin Room /\ Nobody \notin ParticipantID

VARIABLES
    rooms,      \* Manager.rooms
    created,    \* the room IDs handed out so far
    issued      \* the participant IDs handed out so far

roomVars == <<rooms, created, issued>>

Exists(r) == rooms[r] # NoRoom

\* GetParticipant: p currently belongs to r.
GetParticipant(r, p) == Exists(r) /\ p \in rooms[r].participants

\* ownerRoom: the check in front of every owner command.
ownerRoom(r, o) == Exists(r) /\ o = rooms[r].owner
-----------------------------------------------------------------------------
RoomsInit ==
    /\ rooms = [r \in RoomID |-> NoRoom]
    /\ created = {}
    /\ issued = {}

Create_NoOwner(r, p) ==
    /\ r \notin created
    /\ p \notin issued
    /\ rooms' = [rooms EXCEPT ![r] = [owner |-> Nobody, participants |-> {p},
                                      muted |-> {}, order |-> <<p>>]]
    /\ created' = created \cup {r}
    /\ issued' = issued \cup {p}

Create(r, p) ==
    /\ r \notin created
    /\ p \notin issued
    /\ rooms' = [rooms EXCEPT ![r] = [owner |-> p, participants |-> {p},
                                      muted |-> {}, order |-> <<p>>]]
    /\ created' = created \cup {r}
    /\ issued' = issued \cup {p}

Join(r, p) ==
    /\ Exists(r)
    /\ p \notin issued
    /\ rooms' = [rooms EXCEPT ![r].participants = @ \cup {p},
                              ![r].order = Append(@, p)]
    /\ issued' = issued \cup {p}
    /\ UNCHANGED created

removeFromOrder_Keep(order, p) == order

removeFromOrder(order, p) == RemoveFirst(order, p)

\* The room after delete(participants, p) and removeFromOrder(p).
Removed(room, p) ==
    [room EXCEPT !.participants = @ \ {p},
                 !.muted = @ \ {p},
                 !.order = removeFromOrder(@, p)]

Succession_Keep(room, p) == room

Succession_Newest(room, p) ==
    IF room.owner = p THEN [room EXCEPT !.owner = Last(room.order)] ELSE room

\* Leave lines 121-124: when the owner p left, the first in order takes over.
Succession(room, p) ==
    IF room.owner = p THEN [room EXCEPT !.owner = Head(room.order)] ELSE room

Leave_KeepsEmpty(r, p) ==
    /\ GetParticipant(r, p)
    /\ LET room == Removed(rooms[r], p)
       IN  rooms' = [rooms EXCEPT ![r] = IF room.participants = {}
                                         THEN room
                                         ELSE Succession(room, p)]
    /\ UNCHANGED <<created, issued>>

Leave(r, p) ==
    /\ GetParticipant(r, p)
    /\ LET room == Removed(rooms[r], p)
       IN  rooms' = [rooms EXCEPT ![r] = IF room.participants = {}
                                         THEN NoRoom
                                         ELSE Succession(room, p)]
    /\ UNCHANGED <<created, issued>>

RemoveParticipant(r, o, p) ==
    /\ ownerRoom(r, o)
    /\ p # rooms[r].owner
    /\ p \in rooms[r].participants
    /\ rooms' = [rooms EXCEPT ![r] = Removed(@, p)]
    /\ UNCHANGED <<created, issued>>

SetMuted(r, o, p, muted) ==
    /\ ownerRoom(r, o)
    /\ p \in rooms[r].participants
    /\ rooms' = [rooms EXCEPT ![r].muted = IF muted THEN @ \cup {p} ELSE @ \ {p}]
    /\ UNCHANGED <<created, issued>>

Dissolve(r, o) ==
    /\ ownerRoom(r, o)
    /\ rooms' = [rooms EXCEPT ![r] = NoRoom]
    /\ UNCHANGED <<created, issued>>

RoomsNext ==
    \E r \in RoomID, p \in ParticipantID :
        \/ Create(r, p)
        \/ Join(r, p)
        \/ Leave(r, p)
        \/ \E o \in ParticipantID : RemoveParticipant(r, o, p)
        \/ \E o \in ParticipantID, muted \in BOOLEAN : SetMuted(r, o, p, muted)
        \/ Dissolve(r, p)

RoomsSpec == RoomsInit /\ [][RoomsNext]_roomVars
-----------------------------------------------------------------------------
(* The values the manager's state takes. *)
RoomsTypeOK ==
    /\ rooms \in [RoomID -> Room \cup {NoRoom}]
    /\ created \subseteq RoomID
    /\ issued \subseteq ParticipantID

(* participantOrder lists exactly the keys of the participants map, each    *)
(* once: ListParticipants indexes the map with it and Leave takes its first *)
(* element as the next owner.                                               *)
OrderMatchesParticipants ==
    \A r \in RoomID : Exists(r) =>
        /\ IsInjective(rooms[r].order)
        /\ ToSet(rooms[r].order) = rooms[r].participants

(* A room in the map is owned by somebody who is in it, so it always has a  *)
(* member who can mute, remove and dissolve, whatever sequence of leaves,   *)
(* removals and joins came before; and a mute never outlives its member.    *)
OwnerIsParticipant ==
    \A r \in RoomID : Exists(r) =>
        /\ rooms[r].owner \in rooms[r].participants
        /\ rooms[r].muted \subseteq rooms[r].participants

(* The promise of README.md:5, "the longest-standing remaining participant  *)
(* becomes the owner" and "the room is deleted after its last participant   *)
(* leaves": the map, the order slice and the owner field together behave    *)
(* as one queue whose head leads.                                           *)
Queue == INSTANCE RoomQueue WITH
    queue  <- [r \in RoomID |-> IF Exists(r) THEN rooms[r].order ELSE <<>>],
    leader <- [r \in RoomID |-> IF Exists(r) THEN rooms[r].owner ELSE Nobody],
    opened <- created

OwnershipIsSeniority == Queue!Spec
=============================================================================
