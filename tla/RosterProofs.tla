---------------------------- MODULE RosterProofs ----------------------------
(***************************************************************************)
(* Proofs about Roster: its handlers change the room as room.Manager does, *)
(* so what is proved of Rooms holds with all of them at work, and every    *)
(* event that any of them sends names a participant, in a queue that never *)
(* exceeds its capacity.  For the names, the invariant says at which steps *)
(* a handler still holds what it has read.  Then, that a page which has    *)
(* read its queue shows everybody who is being served.                     *)
(***************************************************************************)
EXTENDS Roster, RoomsProofs

\* Where a handler is about to tell the others about somebody.
Telling == {"authenticated", "added", "reading", "sending", "announcing", "muting",
            "taking", "removing", "succession"}

HoldsWhatItTells == \A p \in ParticipantID : stage[p] \in Telling => holds[p].id # Nobody

Stage == {"idle", "authenticated", "added", "reading", "sending",
          "announcing", "serving", "muting", "taking", "removing",
          "returning", "leaving", "left", "succession", "done"}

Queued == Event \cup [type : {"room_snapshot"}, page : Page] \cup [type : {"other"}]

RosterInv == RoomsInv /\ RosterTypeOK /\ HoldsWhatItTells
-----------------------------------------------------------------------------
(* The room changes as room.Manager lets it, whatever the step.            *)
LEMMA RosterStepIsRoomsStep == [RosterNext]_vars => [RoomsNext]_roomVars
<1> SUFFICES ASSUME [RosterNext]_vars
             PROVE  [RoomsNext]_roomVars
    OBVIOUS
<1>1. ASSUME NEW p \in ParticipantID, Handle(p) /\ ~LeaveRoom(p)
      PROVE  UNCHANGED roomVars
    BY <1>1 DEF Handle, HubAdd, OtherSnapshot, AnnounceConnected, SnapshotRoom,
                SnapshotMembers, SnapshotSend, SnapshotFails, AnnounceMuted, HubTake,
                AnnounceRemoved, HubRemove, LeaveFails, AnnounceLeft, AnnounceOwner
<1>2. ASSUME NEW p \in ParticipantID, LeaveRoom(p)
      PROVE  RoomsNext
    BY <1>2, RosterAssumption DEF LeaveRoom, RoomsNext
<1>3. ASSUME NEW p \in ParticipantID, HTTPEnter(p)
      PROVE  RoomsNext
    BY <1>3, RosterAssumption DEF HTTPEnter, RoomsNext
<1>4. ASSUME NEW p \in ParticipantID, NEW q \in ParticipantID, RemoveFromRoom(p, q)
      PROVE  RoomsNext
    BY <1>4, RosterAssumption DEF RemoveFromRoom, RoomsNext
<1>5. ASSUME NEW p \in ParticipantID, NEW q \in ParticipantID, NEW value \in BOOLEAN,
             MuteRoom(p, q, value)
      PROVE  RoomsNext
    BY <1>5, RosterAssumption DEF MuteRoom, RoomsNext
<1>6. ASSUME NEW p \in ParticipantID, Authenticate(p) \/ Return(p) \/ Reply
      PROVE  UNCHANGED roomVars
    BY <1>6 DEF Authenticate, Return, Reply
<1>7. CASE handleSignal \/ SendTo \/ UNCHANGED vars
    BY <1>7 DEF handleSignal, SendTo, vars
<1> QED BY <1>1, <1>2, <1>3, <1>4, <1>5, <1>6, <1>7 DEF RosterNext, Receive, Handle

LEMMA RosterInvInit == RosterInit => RosterInv
<1> SUFFICES ASSUME RosterInit
             PROVE  RosterInv
    OBVIOUS
<1>1. RoomsInv /\ RoomsTypeOK
    BY RoomsInvInit DEF RosterInit, RoomsInv
<1>2. queue \in Seq(Queued) /\ Len(queue) <= QueueSize
    BY RosterAssumption DEF RosterInit
<1>3. view \in Page /\ snapshot \in Page
    BY DEF RosterInit, EmptyPage, Page
<1> QED BY <1>1, <1>2, <1>3
        DEF RosterInit, RosterInv, RosterTypeOK, HoldsWhatItTells, Telling, Nothing, Queued

(* One step of the handler of p, which goes on holding what it held, ...   *)
LEMMA HandlerKeeps ==
    ASSUME RosterInv, NEW p \in ParticipantID, NEW s \in Stage, NEW t \in Stage, Move(p, s, t),
           UNCHANGED holds, t \in Telling => s \in Telling \/ holds[p].id # Nobody
    PROVE  /\ stage' \in [ParticipantID -> Stage]
           /\ holds' \in [ParticipantID -> [id : ParticipantID \cup {Nobody}, muted : BOOLEAN]]
           /\ HoldsWhatItTells'
<1>1. /\ stage \in [ParticipantID -> Stage]
      /\ holds \in [ParticipantID -> [id : ParticipantID \cup {Nobody}, muted : BOOLEAN]]
      /\ HoldsWhatItTells
    BY DEF RosterInv, RosterTypeOK, Stage
<1>2. stage' \in [ParticipantID -> Stage] /\ stage[p] = s /\ stage'[p] = t
      /\ \A q \in ParticipantID \ {p} : stage'[q] = stage[q]
    BY <1>1 DEF Move
<1> QED BY <1>1, <1>2 DEF HoldsWhatItTells

(* ... or holds something new, or nothing any more.                        *)
LEMMA HandlerHolds ==
    ASSUME RosterInv, NEW p \in ParticipantID, NEW s \in Stage, NEW t \in Stage, Move(p, s, t),
           NEW id \in ParticipantID \cup {Nobody}, NEW muted \in BOOLEAN,
           Hold(p, id, muted), t \in Telling => id # Nobody
    PROVE  /\ stage' \in [ParticipantID -> Stage]
           /\ holds' \in [ParticipantID -> [id : ParticipantID \cup {Nobody}, muted : BOOLEAN]]
           /\ HoldsWhatItTells'
<1>1. /\ stage \in [ParticipantID -> Stage]
      /\ holds \in [ParticipantID -> [id : ParticipantID \cup {Nobody}, muted : BOOLEAN]]
      /\ HoldsWhatItTells
    BY DEF RosterInv, RosterTypeOK, Stage
<1>2. stage' \in [ParticipantID -> Stage] /\ stage'[p] = t
      /\ \A q \in ParticipantID \ {p} : stage'[q] = stage[q]
    BY <1>1 DEF Move
<1>3. /\ holds' \in [ParticipantID -> [id : ParticipantID \cup {Nobody}, muted : BOOLEAN]]
      /\ holds'[p].id = id
      /\ \A q \in ParticipantID \ {p} : holds'[q] = holds[q]
    BY <1>1 DEF Hold
<1> QED BY <1>1, <1>2, <1>3 DEF HoldsWhatItTells

LEMMA DropIsHold == ASSUME NEW p, Drop(p) PROVE Hold(p, Nobody, FALSE)
BY DEF Drop, Hold, Nothing

(* A message that is sent, or a socket that is closed for lack of room.    *)
LEMMA BroadcastType ==
    ASSUME RosterInv, NEW m \in Queued, Broadcast(m)
    PROVE  /\ queue' \in Seq(Queued) /\ Len(queue') <= QueueSize
           /\ closed' \in BOOLEAN /\ view' \in Page
<1>1. /\ queue \in Seq(Queued) /\ Len(queue) <= QueueSize
      /\ closed \in BOOLEAN /\ view \in Page
    BY DEF RosterInv, RosterTypeOK, Queued
<1>2. CASE Viewer \in registered /\ ~closed /\ ~Full
    <2>1. queue' = Append(queue, m) /\ Len(queue) < QueueSize /\ UNCHANGED <<closed, view>>
        BY <1>1, <1>2, RosterAssumption DEF Broadcast, Send, Full
    <2> HIDE DEF Queued
    <2> QED BY <1>1, <2>1, RosterAssumption
<1>3. CASE CloseViewer
    <2>1. EmptyPage \in Page
        BY DEF EmptyPage, Page
    <2> QED BY <1>3, <2>1, RosterAssumption DEF CloseViewer
<1>4. CASE UNCHANGED <<closed, queue, view>>
    BY <1>1, <1>4
<1> QED BY <1>2, <1>3, <1>4 DEF Broadcast, CloseIf

(* Closing Viewer's socket or not keeps the types, too.                    *)
LEMMA CloseIfType ==
    ASSUME RosterInv, NEW c, CloseIf(c)
    PROVE  /\ queue' \in Seq(Queued) /\ Len(queue') <= QueueSize
           /\ closed' \in BOOLEAN /\ view' \in Page
<1>1. /\ queue \in Seq(Queued) /\ Len(queue) <= QueueSize
      /\ closed \in BOOLEAN /\ view \in Page
    BY DEF RosterInv, RosterTypeOK, Queued
<1>2. EmptyPage \in Page
    BY DEF EmptyPage, Page
<1>3. CASE CloseViewer
    BY <1>2, <1>3, RosterAssumption DEF CloseViewer
<1>4. CASE UNCHANGED <<closed, queue, view>>
    BY <1>1, <1>4
<1> QED BY <1>3, <1>4 DEF CloseIf

(* What the room shows is in type, for a snapshot of it.                   *)
LEMMA RoomType ==
    ASSUME RoomsInv, Exists(TheRoom)
    PROVE  /\ theRoom.owner \in ParticipantID
           /\ theRoom.participants \subseteq ParticipantID
           /\ theRoom.muted \subseteq ParticipantID
BY RosterAssumption DEF RoomsInv, WellFormed, Room, theRoom

\* What a step leaves to prove when the room is taken care of.
Rest ==
    /\ stage \in [ParticipantID -> Stage]
    /\ holds \in [ParticipantID -> [id : ParticipantID \cup {Nobody}, muted : BOOLEAN]]
    /\ HoldsWhatItTells
    /\ registered \subseteq ParticipantID
    /\ snapshot \in Page
    /\ queue \in Seq(Queued) /\ Len(queue) <= QueueSize
    /\ closed \in BOOLEAN
    /\ view \in Page
    /\ overlooked \subseteq ParticipantID

LEMMA RestSplit == RosterInv <=> RoomsInv /\ Rest
BY DEF RosterInv, RoomsInv, RosterTypeOK, Rest, Stage, Queued

(* Coming in: the answer of the HTTP server, authentication, registration  *)
(* and the snapshot.                                                       *)
LEMMA ArrivalType ==
    ASSUME RosterInv, RoomsInv', NEW p \in ParticipantID,
           \/ HTTPEnter(p) \/ Authenticate(p) \/ HubAdd(p) \/ OtherSnapshot(p)
           \/ SnapshotRoom \/ SnapshotMembers \/ SnapshotSend \/ SnapshotFails
    PROVE  Rest'
<1> USE RestSplit
<1>0. Nobody \notin ParticipantID
    BY RoomsAssumption
<1>1. CASE HTTPEnter(p)
    <2>1. rooms'[TheRoom].owner \in ParticipantID
        <3>1. Exists(TheRoom)'
            <4>1. CASE Create(TheRoom, p)
                <5>1. rooms'[TheRoom] \in Room
                    BY <4>1, RosterAssumption, NewRoomWellFormed
                       DEF Create, RosterInv, RoomsInv, RoomsTypeOK, WellFormed
                <5> QED BY <5>1, RoomsAssumption DEF Exists
            <4>2. CASE Join(TheRoom, p)
                <5>1. WellFormed(rooms[TheRoom]) /\ p \notin rooms[TheRoom].participants
                    BY <4>2, RosterAssumption DEF Join, RosterInv, RoomsInv
                <5> DEFINE room == [rooms[TheRoom] EXCEPT !.participants = @ \cup {p},
                                                          !.order = Append(@, p)]
                <5>2. rooms'[TheRoom] = room
                    BY <4>2, <5>1, RosterAssumption
                       DEF Join, RosterInv, RoomsInv, RoomsTypeOK, WellFormed, Room
                <5>3. WellFormed(room)
                    BY <5>1, JoinedWellFormed
                <5> HIDE DEF room
                <5> QED BY <5>2, <5>3, RoomsAssumption DEF Exists, WellFormed
            <4> QED BY <1>1, <4>1, <4>2 DEF HTTPEnter
        <3> QED BY <3>1, RosterAssumption DEF RoomsInv, WellFormed, Room
    <2>2. view' \in Page
        BY <1>1, <2>1 DEF HTTPEnter, Rest, Page
    <2> QED BY <1>1, <2>2 DEF HTTPEnter, Rest, HoldsWhatItTells
<1>2. CASE Authenticate(p)
    <2>1. Hold(p, p, IsMuted(p)) /\ IsMuted(p) \in BOOLEAN
        BY <1>2 DEF Authenticate, IsMuted
    <2>2. /\ stage' \in [ParticipantID -> Stage]
          /\ holds' \in [ParticipantID -> [id : ParticipantID \cup {Nobody}, muted : BOOLEAN]]
          /\ HoldsWhatItTells'
        <3>1. Move(p, "idle", "authenticated")
            BY <1>2 DEF Authenticate
        <3> HIDE DEF IsMuted
        <3> QED BY <1>0, <2>1, <3>1, HandlerHolds DEF Stage
    <2> QED BY <1>2, <2>2 DEF Authenticate, Rest
<1>3. CASE HubAdd(p)
    <2>1. /\ stage' \in [ParticipantID -> Stage]
          /\ holds' \in [ParticipantID -> [id : ParticipantID \cup {Nobody}, muted : BOOLEAN]]
          /\ HoldsWhatItTells'
        BY <1>3, HandlerKeeps DEF HubAdd, Stage, Telling
    <2> QED BY <1>3, <2>1 DEF HubAdd, Rest
<1>4. CASE OtherSnapshot(p)
    <2>1. /\ stage' \in [ParticipantID -> Stage]
          /\ holds' \in [ParticipantID -> [id : ParticipantID \cup {Nobody}, muted : BOOLEAN]]
          /\ HoldsWhatItTells'
        <3>1. UNCHANGED holds /\ (Move(p, "added", "announcing") \/ Move(p, "added", "returning"))
            BY <1>4 DEF OtherSnapshot
        <3> QED BY <3>1, HandlerKeeps DEF Stage, Telling
    <2> QED BY <1>4, <2>1 DEF OtherSnapshot, Rest
<1>5. CASE SnapshotRoom \/ SnapshotMembers \/ SnapshotSend \/ SnapshotFails
    <2>1. /\ stage' \in [ParticipantID -> Stage]
          /\ holds' \in [ParticipantID -> [id : ParticipantID \cup {Nobody}, muted : BOOLEAN]]
          /\ HoldsWhatItTells'
        <3>1. /\ UNCHANGED holds
              /\ \E s, t \in {"added", "reading", "sending", "announcing", "returning"} :
                    Move(Viewer, s, t) /\ s \in Telling
            BY <1>5 DEF SnapshotRoom, SnapshotMembers, SnapshotSend, SnapshotFails, Telling
        <3>2. PICK s \in Stage, t \in Stage : Move(Viewer, s, t) /\ s \in Telling
            BY <3>1 DEF Stage
        <3> QED BY <3>1, <3>2, HandlerKeeps, RosterAssumption
    <2>2. snapshot' \in Page
        <3>1. snapshot \in Page /\ EmptyPage \in Page
            BY DEF Rest, Page, EmptyPage
        <3>2. CASE SnapshotRoom \/ SnapshotMembers
            BY <3>1, <3>2, RoomType DEF SnapshotRoom, SnapshotMembers, Page, RosterInv
        <3> QED BY <1>5, <3>1, <3>2 DEF SnapshotSend, SnapshotFails
    <2>3. queue' \in Seq(Queued) /\ Len(queue') <= QueueSize
        <3>1. queue \in Seq(Queued) /\ Len(queue) <= QueueSize
            BY DEF Rest
        <3>2. CASE SnapshotSend
            <4> DEFINE m == [type |-> "room_snapshot", page |-> snapshot]
            <4>1. m \in Queued
                BY DEF Rest, Queued
            <4>2. queue' = Append(queue, m) /\ Len(queue) < QueueSize
                BY <3>1, <3>2, RosterAssumption DEF SnapshotSend, Send, Full
            <4> HIDE DEF m, Queued
            <4> QED BY <3>1, <4>1, <4>2, RosterAssumption
        <3> QED BY <1>5, <3>1, <3>2 DEF SnapshotRoom, SnapshotMembers, SnapshotFails
    <2> QED BY <1>5, <2>1, <2>2, <2>3
            DEF SnapshotRoom, SnapshotMembers, SnapshotSend, SnapshotFails, Rest
<1> QED BY <1>1, <1>2, <1>3, <1>4, <1>5

(* Every event that is broadcast names a participant.                      *)
LEMMA MessageType ==
    ASSUME Rest, NEW p \in ParticipantID, holds[p].id # Nobody,
           NEW type \in {"participant_connected", "participant_muted",
                         "participant_removed", "owner_changed"}
    PROVE  Message(type, p) \in Queued
BY DEF Rest, Message, Queued, Event

(* The four announcements of what the handler holds.                       *)
LEMMA AnnouncementType ==
    ASSUME RosterInv, NEW p \in ParticipantID,
           AnnounceConnected(p) \/ AnnounceMuted(p) \/ AnnounceRemoved(p) \/ AnnounceOwner(p)
    PROVE  Rest'
<1> USE RestSplit
<1>1. PICK s \in Telling, t \in {"serving", "done"} : Move(p, s, t)
    BY DEF AnnounceConnected, AnnounceMuted, AnnounceRemoved, AnnounceOwner, Telling
<1>2. holds[p].id # Nobody
    BY <1>1 DEF Move, Rest, HoldsWhatItTells
<1>3. PICK type \in {"participant_connected", "participant_muted",
                     "participant_removed", "owner_changed"} : Broadcast(Message(type, p))
    BY DEF AnnounceConnected, AnnounceMuted, AnnounceRemoved, AnnounceOwner
<1>4. /\ queue' \in Seq(Queued) /\ Len(queue') <= QueueSize
      /\ closed' \in BOOLEAN /\ view' \in Page
    BY <1>2, <1>3, MessageType, BroadcastType
<1>5. /\ stage' \in [ParticipantID -> Stage]
      /\ holds' \in [ParticipantID -> [id : ParticipantID \cup {Nobody}, muted : BOOLEAN]]
      /\ HoldsWhatItTells'
    <2>1. Hold(p, Nobody, FALSE)
        BY DropIsHold DEF AnnounceConnected, AnnounceMuted, AnnounceRemoved, AnnounceOwner
    <2>2. s \in Stage /\ t \in Stage /\ t \notin Telling
        BY <1>1 DEF Stage, Telling
    <2> QED BY <1>1, <2>1, <2>2, HandlerHolds
<1>6. UNCHANGED <<registered, snapshot>> /\ overlooked' \subseteq ParticipantID
    BY DEF AnnounceConnected, AnnounceMuted, AnnounceRemoved, AnnounceOwner, Rest
<1> QED BY <1>4, <1>5, <1>6 DEF Rest

(* The owner's commands, and the end of a removed member's connection.     *)
LEMMA CommandType ==
    ASSUME RosterInv, NEW p \in ParticipantID,
           \/ \E q \in ParticipantID, value \in BOOLEAN : MuteRoom(p, q, value)
           \/ \E q \in ParticipantID : RemoveFromRoom(p, q)
           \/ HubTake(p)
    PROVE  Rest'
<1> USE RestSplit
<1>0. Nobody \notin ParticipantID
    BY RoomsAssumption
<1>1. ASSUME NEW q \in ParticipantID, NEW value \in BOOLEAN, MuteRoom(p, q, value)
      PROVE  Rest'
    <2>1. Move(p, "serving", "muting") /\ Hold(p, q, value)
          /\ UNCHANGED <<registered, snapshot, queue, closed, view, overlooked>>
        BY <1>1 DEF MuteRoom
    <2>2. /\ stage' \in [ParticipantID -> Stage]
          /\ holds' \in [ParticipantID -> [id : ParticipantID \cup {Nobody}, muted : BOOLEAN]]
          /\ HoldsWhatItTells'
        BY <1>0, <2>1, HandlerHolds DEF Stage
    <2> QED BY <2>1, <2>2 DEF Rest
<1>2. ASSUME NEW q \in ParticipantID, RemoveFromRoom(p, q)
      PROVE  Rest'
    <2>1. Move(p, "serving", "taking") /\ Hold(p, q, IsMuted(q)) /\ IsMuted(q) \in BOOLEAN
          /\ UNCHANGED <<registered, snapshot, queue, closed, view, overlooked>>
        BY <1>2 DEF RemoveFromRoom, IsMuted
    <2>2. /\ stage' \in [ParticipantID -> Stage]
          /\ holds' \in [ParticipantID -> [id : ParticipantID \cup {Nobody}, muted : BOOLEAN]]
          /\ HoldsWhatItTells'
        <3> HIDE DEF IsMuted
        <3> QED BY <1>0, <2>1, HandlerHolds DEF Stage
    <2> QED BY <2>1, <2>2 DEF Rest
<1>3. CASE HubTake(p)
    <2>1. Move(p, "taking", "removing") /\ UNCHANGED holds
          /\ registered' \subseteq registered /\ UNCHANGED <<snapshot, overlooked>>
        BY <1>3 DEF HubTake
    <2>2. /\ stage' \in [ParticipantID -> Stage]
          /\ holds' \in [ParticipantID -> [id : ParticipantID \cup {Nobody}, muted : BOOLEAN]]
          /\ HoldsWhatItTells'
        BY <2>1, HandlerKeeps DEF Stage, Telling
    <2>3. /\ queue' \in Seq(Queued) /\ Len(queue') <= QueueSize
          /\ closed' \in BOOLEAN /\ view' \in Page
        BY <1>3, CloseIfType DEF HubTake
    <2> QED BY <2>1, <2>2, <2>3 DEF Rest
<1> QED BY <1>1, <1>2, <1>3

(* The end of a handler, and what it tells the others of it.               *)
LEMMA DepartureType ==
    ASSUME RosterInv, RoomsInv', NEW p \in ParticipantID,
           Return(p) \/ HubRemove(p) \/ LeaveRoom(p) \/ LeaveFails(p) \/ AnnounceLeft(p)
    PROVE  Rest'
<1> USE RestSplit
<1>0. Nobody \notin ParticipantID
    BY RoomsAssumption
<1>1. CASE Return(p) \/ LeaveFails(p)
    <2>1. PICK s \in Stage, t \in {"returning", "done"} : Move(p, s, t)
        BY <1>1 DEF Return, LeaveFails, Stage
    <2>2. /\ stage' \in [ParticipantID -> Stage]
          /\ holds' \in [ParticipantID -> [id : ParticipantID \cup {Nobody}, muted : BOOLEAN]]
          /\ HoldsWhatItTells'
        <3>1. t \in Stage /\ t \notin Telling /\ UNCHANGED holds
            BY <1>1, <2>1 DEF Return, LeaveFails, Stage, Telling
        <3> QED BY <2>1, <3>1, HandlerKeeps
    <2>3. /\ queue' \in Seq(Queued) /\ Len(queue') <= QueueSize
          /\ closed' \in BOOLEAN /\ view' \in Page
        BY <1>1, CloseIfType DEF Return, LeaveFails, Rest
    <2> QED BY <1>1, <2>2, <2>3 DEF Return, LeaveFails, Rest
<1>2. CASE HubRemove(p)
    <2>1. PICK t \in {"leaving", "done"} : Move(p, "returning", t)
        BY <1>2 DEF HubRemove
    <2>2. /\ stage' \in [ParticipantID -> Stage]
          /\ holds' \in [ParticipantID -> [id : ParticipantID \cup {Nobody}, muted : BOOLEAN]]
          /\ HoldsWhatItTells'
        <3>1. t \in Stage /\ t \notin Telling /\ "returning" \in Stage
            BY <2>1 DEF Stage, Telling
        <3>2. Hold(p, Nobody, FALSE)
            BY <1>2, DropIsHold DEF HubRemove
        <3> QED BY <2>1, <3>1, <3>2, HandlerHolds
    <2>3. /\ queue' \in Seq(Queued) /\ Len(queue') <= QueueSize
          /\ closed' \in BOOLEAN /\ view' \in Page
        BY <1>2, CloseIfType DEF HubRemove
    <2> QED BY <1>2, <2>2, <2>3 DEF HubRemove, Rest
<1>3. CASE LeaveRoom(p)
    <2> DEFINE id == IF theRoom.owner = p /\ Exists(TheRoom)' THEN rooms'[TheRoom].owner
                                                              ELSE Nobody
    <2>1. id \in ParticipantID \cup {Nobody}
        BY RosterAssumption DEF RoomsInv, WellFormed, Room
    <2>2. Move(p, "leaving", "left") /\ Hold(p, id, FALSE)
          /\ UNCHANGED <<registered, snapshot, queue, closed, view, overlooked>>
        BY <1>3 DEF LeaveRoom
    <2> HIDE DEF id
    <2>3. /\ stage' \in [ParticipantID -> Stage]
          /\ holds' \in [ParticipantID -> [id : ParticipantID \cup {Nobody}, muted : BOOLEAN]]
          /\ HoldsWhatItTells'
        BY <2>1, <2>2, HandlerHolds DEF Stage, Telling
    <2> QED BY <2>2, <2>3 DEF Rest
<1>4. CASE AnnounceLeft(p)
    <2> DEFINE t == IF holds[p].id = Nobody THEN "done" ELSE "succession"
    <2>1. Move(p, "left", t) /\ UNCHANGED <<holds, registered, snapshot, overlooked>>
        BY <1>4 DEF AnnounceLeft
    <2>2. t \in Stage /\ (t \in Telling => holds[p].id # Nobody)
        BY DEF Stage, Telling
    <2> HIDE DEF t
    <2>3. /\ stage' \in [ParticipantID -> Stage]
          /\ holds' \in [ParticipantID -> [id : ParticipantID \cup {Nobody}, muted : BOOLEAN]]
          /\ HoldsWhatItTells'
        <3>1. "left" \in Stage
            BY DEF Stage
        <3> QED BY <2>1, <2>2, <3>1, HandlerKeeps
    <2>4. /\ queue' \in Seq(Queued) /\ Len(queue') <= QueueSize
          /\ closed' \in BOOLEAN /\ view' \in Page
        <3>1. [type |-> "participant_left", id |-> p, muted |-> FALSE] \in Queued
            BY DEF Queued, Event
        <3> QED BY <1>4, <3>1, BroadcastType DEF AnnounceLeft
    <2> QED BY <2>1, <2>3, <2>4 DEF Rest
<1> QED BY <1>1, <1>2, <1>3, <1>4

(* Replies, media signals, and the page's next message.                    *)
LEMMA SignalType ==
    ASSUME RosterInv, Reply \/ SendTo \/ handleSignal
    PROVE  Rest'
<1> USE RestSplit
<1>1. [type |-> "other"] \in Queued
    BY DEF Queued
<1>2. queue \in Seq(Queued) /\ Len(queue) \in Nat /\ Len(queue) <= QueueSize /\ view \in Page
    BY DEF Rest
<1>3. CASE Reply
    <2>1. queue' = Append(queue, [type |-> "other"]) /\ Len(queue) < QueueSize
        BY <1>2, <1>3, RosterAssumption DEF Reply, Send, Full
    <2>2. queue' \in Seq(Queued) /\ Len(queue') <= QueueSize
        <3> HIDE DEF Queued
        <3> QED BY <1>1, <1>2, <2>1, RosterAssumption
    <2> QED BY <1>3, <2>2 DEF Reply, Rest, HoldsWhatItTells
<1>4. CASE SendTo
    <2>1. /\ queue' \in Seq(Queued) /\ Len(queue') <= QueueSize
          /\ closed' \in BOOLEAN /\ view' \in Page
        BY <1>1, <1>4, BroadcastType DEF SendTo
    <2> QED BY <1>4, <2>1 DEF SendTo, Rest, HoldsWhatItTells
<1>5. CASE handleSignal
    <2>1. /\ Head(queue) \in Queued /\ Tail(queue) \in Seq(Queued)
          /\ Len(Tail(queue)) <= QueueSize
        <3> HIDE DEF Queued
        <3> QED BY <1>2, <1>5, RosterAssumption DEF handleSignal
    <2>2. ASSUME NEW m \in Queued
          PROVE  Shown(view, m) \in Page
        <3>1. CASE m \in Event
            BY <1>2, <3>1 DEF Shown, Event, Page, upsertParticipant
        <3>2. CASE m \in [type : {"room_snapshot"}, page : Page]
            BY <3>2 DEF Shown
        <3>3. CASE m \in [type : {"other"}]
            BY <1>2, <3>3 DEF Shown
        <3> QED BY <3>1, <3>2, <3>3 DEF Queued
    <2> QED BY <1>5, <2>1, <2>2 DEF handleSignal, Rest, HoldsWhatItTells
<1> QED BY <1>3, <1>4, <1>5

LEMMA RosterInvStep == RosterInv /\ [RosterNext]_vars => RosterInv'
<1> SUFFICES ASSUME RosterInv, [RosterNext]_vars
             PROVE  RosterInv'
    OBVIOUS
<1>1. RoomsInv'
    BY RosterStepIsRoomsStep, RoomsInvStep DEF RosterInv
<1>2. ASSUME NEW p \in ParticipantID, Handle(p)
      PROVE  Rest'
    BY <1>1, <1>2, ArrivalType, AnnouncementType, CommandType, DepartureType DEF Handle
<1>3. ASSUME NEW p \in ParticipantID, Receive(p)
      PROVE  Rest'
    BY <1>1, <1>3, ArrivalType, CommandType, DepartureType, SignalType DEF Receive
<1>4. ASSUME handleSignal \/ SendTo
      PROVE  Rest'
    BY <1>4, SignalType
<1>5. ASSUME UNCHANGED vars
      PROVE  Rest'
    BY <1>5, RestSplit DEF vars, rosterVars, Rest, HoldsWhatItTells
<1>6. Rest'
    BY <1>2, <1>3, <1>4, <1>5 DEF RosterNext
<1> QED BY <1>1, <1>6
        DEF Rest, RosterInv, RoomsInv, RosterTypeOK, Stage, Queued
-----------------------------------------------------------------------------
(* All of it stays in type, for any number of participants and any queue:  *)
(* client.go:37 bounds the queue, handler.go never announces nobody.       *)
THEOREM RosterInvariant == RosterSpec => []RosterInv
BY RosterInvInit, RosterInvStep, PTL DEF RosterSpec

THEOREM RosterTypeCorrect == RosterSpec => []RosterTypeOK
<1>1. RosterInv => RosterTypeOK
    BY DEF RosterInv
<1> QED BY <1>1, RosterInvariant, PTL

(* With every handler at work, the rooms are those of room.Manager alone.  *)
THEOREM RosterImplementsRooms == RosterSpec => RoomsSpec
<1>1. RosterInit => RoomsInit
    BY DEF RosterInit
<1> QED BY <1>1, RosterStepIsRoomsStep, PTL DEF RosterSpec, RoomsSpec

(* README.md:5: so ownership goes by seniority here, too.                  *)
THEOREM RosterSeniority == RosterSpec => OwnershipIsSeniority
BY RosterImplementsRooms, RoomsRefineQueue, PTL
-----------------------------------------------------------------------------
(***************************************************************************)
(* Who is shown.  An ID that has left never comes back, so the queue holds *)
(* no farewell of a member.  ShownInv follows a member from its arrival:   *)
(* it is in the snapshot that is on its way, or the page or something in   *)
(* the queue has it and nothing behind that takes it off again.            *)
(***************************************************************************)
Serving == {"serving", "muting", "taking", "removing"}

\* p was in the room and is not any more.
Gone(p) == p \in issued /\ ~GetParticipant(TheRoom, p)

Farewells == {"participant_left", "participant_removed"}

\* Handling m puts p on the page, or takes p off.
Lists(m, p) ==
    \/ m.type = "room_snapshot" /\ p \in m.page.members
    \/ m.type \in {"participant_connected", "participant_muted"} /\ m.id = p

Undoes(m, p) ==
    \/ m.type = "room_snapshot" /\ p \notin m.page.members
    \/ m.type \in Farewells /\ m.id = p

\* p is on the page once the queue has been read.
WillBeShown(p) ==
    \/ p \in view.members /\ \A j \in DOMAIN queue : ~Undoes(queue[j], p)
    \/ \E i \in DOMAIN queue :
          /\ Lists(queue[i], p)
          /\ \A j \in DOMAIN queue : i < j => ~Undoes(queue[j], p)

\* What the handlers know is true, and stays so.
HandlersTrue ==
    /\ \A p \in ParticipantID : stage[p] # "idle" => p \in issued
    /\ \A p \in ParticipantID : stage[p] = "left" => Gone(p)
    /\ \A p \in ParticipantID : stage[p] \in {"taking", "removing"} => Gone(holds[p].id)
    /\ \A p \in ParticipantID :
          stage[p] \in {"authenticated", "added", "reading", "sending", "announcing"}
              => holds[p].id = p

\* Broadcasts reach Viewer from hub.Add to the end of its connection.
Reached ==
    stage[Viewer] \in {"added", "reading", "sending", "announcing"} \cup Serving /\ ~closed =>
        Viewer \in registered

FarewellsTrue ==
    \A i \in DOMAIN queue : queue[i].type \in Farewells => Gone(queue[i].id)

SnapshotComplete ==
    stage[Viewer] = "sending" =>
        \A p \in ParticipantID \ overlooked : Present(p) => p \in snapshot.members

PageComplete ==
    stage[Viewer] \in {"announcing"} \cup Serving /\ ~closed =>
        \A p \in ParticipantID \ overlooked : Present(p) => WillBeShown(p)

ShownInv == HandlersTrue /\ Reached /\ FarewellsTrue /\ SnapshotComplete /\ PageComplete

(* Nobody comes back, and only a member can have been let in.              *)
LEMMA RoomForgetsNobody ==
    ASSUME RosterInv, [RosterNext]_vars
    PROVE  /\ issued \subseteq issued'
           /\ \A p \in issued : GetParticipant(TheRoom, p)' => GetParticipant(TheRoom, p)
           /\ \A p : Gone(p) => Gone(p)'
           /\ \A p : GetParticipant(TheRoom, p) => p \in issued
<1>1. /\ issued \subseteq issued'
      /\ \A p \in issued : GetParticipant(TheRoom, p)' => GetParticipant(TheRoom, p)
    BY RosterStepIsRoomsStep, NothingReturns, RosterAssumption DEF RosterInv
<1>2. \A p : GetParticipant(TheRoom, p) => p \in issued
    BY RosterAssumption DEF RosterInv, RoomsInv, GetParticipant
<1> QED BY <1>1, <1>2 DEF Gone

(* One handler's step leaves what the others know alone.                   *)
LEMMA HandlerStepTrue ==
    ASSUME RosterInv, HandlersTrue, [RosterNext]_vars,
           NEW p \in ParticipantID, NEW s, NEW t, Move(p, s, t),
           \A q \in ParticipantID \ {p} : holds'[q] = holds[q],
           t # "idle" => p \in issued,
           t = "left" => Gone(p)',
           t \in {"taking", "removing"} => Gone(holds[p].id)',
           t \in {"authenticated", "added", "reading", "sending", "announcing"}
               => holds'[p].id = p
    PROVE  HandlersTrue'
<1>1. stage'[p] = t /\ \A q \in ParticipantID \ {p} : stage'[q] = stage[q]
    BY DEF Move, RosterInv, RosterTypeOK
<1>2. \A q : Gone(q) => Gone(q)'
    BY RoomForgetsNobody
<1>3. \A q \in ParticipantID : stage'[q] # "idle" => q \in issued'
    BY <1>1, RoomForgetsNobody DEF HandlersTrue
<1>4. \A q \in ParticipantID : stage'[q] = "left" => Gone(q)'
    BY <1>1, <1>2 DEF HandlersTrue
<1>5. \A q \in ParticipantID : stage'[q] \in {"taking", "removing"} => Gone(holds[q].id)'
    <2> SUFFICES ASSUME NEW q \in ParticipantID \ {p}, stage'[q] \in {"taking", "removing"}
                 PROVE  Gone(holds[q].id)'
        BY <1>1
    <2>1. Gone(holds'[q].id)
        BY <1>1 DEF HandlersTrue
    <2> QED BY <2>1, RoomForgetsNobody DEF Gone
<1> QED BY <1>1, <1>3, <1>4, <1>5 DEF HandlersTrue

LEMMA HandlersTrueStep ==
    ASSUME RosterInv, RosterInv', HandlersTrue, [RosterNext]_vars
    PROVE  HandlersTrue'
<1>0. /\ \A p : Gone(p) => Gone(p)'
      /\ \A p : GetParticipant(TheRoom, p) => p \in issued
      /\ holds \in [ParticipantID -> [id : ParticipantID \cup {Nobody}, muted : BOOLEAN]]
    BY RoomForgetsNobody DEF RosterInv, RosterTypeOK
<1>1. ASSUME UNCHANGED <<stage, holds>>
      PROVE  HandlersTrue'
    <2>1. \A p \in ParticipantID : Gone(holds[p].id) => Gone(holds[p].id)'
        BY <1>1, RoomForgetsNobody DEF Gone
    <2> QED BY <1>0, <1>1, <2>1, RoomForgetsNobody DEF HandlersTrue
<1>2. ASSUME NEW p \in ParticipantID, HTTPEnter(p) \/ Reply \/ SendTo \/ handleSignal
      PROVE  HandlersTrue'
    BY <1>1, <1>2 DEF HTTPEnter, Reply, SendTo, handleSignal
<1>3. ASSUME NEW p \in ParticipantID, Authenticate(p)
      PROVE  HandlersTrue'
    <2>1. holds'[p].id = p /\ \A q \in ParticipantID \ {p} : holds'[q] = holds[q]
        BY <1>0, <1>3 DEF Authenticate, Hold
    <2> QED BY <1>0, <1>3, <2>1, HandlerStepTrue DEF Authenticate
<1>4. ASSUME NEW p \in ParticipantID,
             \/ HubAdd(p) \/ OtherSnapshot(p) \/ Return(p) \/ LeaveFails(p)
             \/ p = Viewer /\ (SnapshotRoom \/ SnapshotMembers \/ SnapshotSend \/ SnapshotFails)
      PROVE  HandlersTrue'
    <2>1. UNCHANGED holds
        BY <1>4 DEF HubAdd, OtherSnapshot, Return, LeaveFails, SnapshotRoom, SnapshotMembers,
                    SnapshotSend, SnapshotFails
    <2>2. PICK s, t : /\ Move(p, s, t) /\ s # "idle" /\ t \notin {"left", "taking", "removing"}
                      /\ t \in {"added", "reading", "sending", "announcing"}
                            => s \in {"authenticated", "added", "reading", "sending"}
        BY <1>4 DEF HubAdd, OtherSnapshot, Return, LeaveFails, SnapshotRoom, SnapshotMembers,
                    SnapshotSend, SnapshotFails
    <2>3. t # "authenticated" \/ holds[p].id = p
        BY <1>4, <2>2 DEF HubAdd, OtherSnapshot, Return, LeaveFails, SnapshotRoom, SnapshotMembers,
                          SnapshotSend, SnapshotFails, Move, RosterInv, RosterTypeOK
    <2>4. p \in issued
        BY <2>2 DEF HandlersTrue, Move
    <2>5. t \in {"added", "reading", "sending", "announcing"} => holds[p].id = p
        BY <2>2 DEF HandlersTrue, Move
    <2> QED BY <2>1, <2>2, <2>3, <2>4, <2>5, HandlerStepTrue
<1>5. ASSUME NEW p \in ParticipantID,
             \/ AnnounceConnected(p) \/ AnnounceMuted(p) \/ AnnounceRemoved(p)
             \/ AnnounceOwner(p) \/ HubRemove(p)
      PROVE  HandlersTrue'
    <2>1. \A q \in ParticipantID \ {p} : holds'[q] = holds[q]
        BY <1>0, <1>5 DEF AnnounceConnected, AnnounceMuted, AnnounceRemoved, AnnounceOwner,
                          HubRemove, Drop
    <2>2. PICK s, t : Move(p, s, t) /\ s # "idle" /\ t \in {"serving", "done", "leaving"}
        BY <1>5 DEF AnnounceConnected, AnnounceMuted, AnnounceRemoved, AnnounceOwner, HubRemove
    <2>3. p \in issued
        BY <2>2 DEF HandlersTrue, Move
    <2> QED BY <2>1, <2>2, <2>3, HandlerStepTrue
<1>6. ASSUME NEW p \in ParticipantID, NEW q \in ParticipantID, NEW value \in BOOLEAN,
             MuteRoom(p, q, value)
      PROVE  HandlersTrue'
    <2>1. \A r \in ParticipantID \ {p} : holds'[r] = holds[r]
        BY <1>0, <1>6 DEF MuteRoom, Hold
    <2>2. Move(p, "serving", "muting") /\ p \in issued
        BY <1>6 DEF MuteRoom, Move, HandlersTrue
    <2> QED BY <2>1, <2>2, HandlerStepTrue
<1>7. ASSUME NEW p \in ParticipantID, NEW q \in ParticipantID, RemoveFromRoom(p, q)
      PROVE  HandlersTrue'
    <2>1. holds'[p].id = q /\ \A r \in ParticipantID \ {p} : holds'[r] = holds[r]
        BY <1>0, <1>7 DEF RemoveFromRoom, Hold
    <2>2. Move(p, "serving", "taking") /\ p \in issued
        BY <1>7 DEF RemoveFromRoom, Move, HandlersTrue
    <2>3. q \in issued'
        BY <1>0, <1>7, RoomForgetsNobody DEF RemoveFromRoom, RemoveParticipant, GetParticipant,
                                             ownerRoom
    <2>4. ~GetParticipant(TheRoom, q)'
        BY <1>7, RosterAssumption, RemovedIsGone DEF RemoveFromRoom, GetParticipant, Exists,
                                                     RosterInv
    <2>5. Gone(holds[p].id)'
        BY <2>1, <2>3, <2>4 DEF Gone
    <2> QED BY <2>1, <2>2, <2>5, HandlerStepTrue
<1>8. ASSUME NEW p \in ParticipantID, HubTake(p) \/ AnnounceLeft(p)
      PROVE  HandlersTrue'
    <2>1. UNCHANGED holds
        BY <1>8 DEF HubTake, AnnounceLeft
    <2>2. \/ Move(p, "taking", "removing")
          \/ \E t \in {"done", "succession"} : Move(p, "left", t)
        BY <1>8 DEF HubTake, AnnounceLeft
    <2>3. p \in issued
        BY <2>2 DEF HandlersTrue, Move
    <2>4. Move(p, "taking", "removing") => Gone(holds[p].id)'
        BY <2>1, RoomForgetsNobody DEF HandlersTrue, Move, Gone
    <2> QED BY <2>1, <2>2, <2>3, <2>4, HandlerStepTrue
<1>9. ASSUME NEW p \in ParticipantID, LeaveRoom(p)
      PROVE  HandlersTrue'
    <2>1. \A r \in ParticipantID \ {p} : holds'[r] = holds[r]
        BY <1>0, <1>9 DEF LeaveRoom, Hold
    <2>2. Move(p, "leaving", "left") /\ p \in issued /\ p \in issued'
        BY <1>9, RoomForgetsNobody DEF LeaveRoom, Move, HandlersTrue
    <2>3. Gone(p)'
        BY <1>9, <2>2, LeftIsGone, RosterAssumption
           DEF LeaveRoom, Gone, GetParticipant, Exists, RosterInv
    <2> QED BY <2>1, <2>2, <2>3, HandlerStepTrue
<1>10. CASE UNCHANGED vars
    BY <1>1, <1>10 DEF vars, rosterVars
<1> QED BY <1>2, <1>3, <1>4, <1>5, <1>6, <1>7, <1>8, <1>9, <1>10, RosterAssumption
        DEF RosterNext, Handle, Receive

LEMMA ReachedStep ==
    ASSUME RosterInv, Reached, [RosterNext]_vars
    PROVE  Reached'
<1> DEFINE Connected == {"added", "reading", "sending", "announcing"} \cup Serving
<1>0. stage \in [ParticipantID -> Stage] /\ Viewer \in ParticipantID
    BY RosterAssumption DEF RosterInv, RosterTypeOK, Stage
<1>1. ASSUME stage'[Viewer] \in Connected => stage[Viewer] \in Connected,
             UNCHANGED registered, closed \/ closed' => closed'
      PROVE  Reached'
    BY <1>1 DEF Reached
<1>2. ASSUME NEW m, Broadcast(m)
      PROVE  closed => closed'
    BY <1>2 DEF Broadcast, CloseIf, CloseViewer
<1>3. ASSUME NEW p \in ParticipantID,
             \/ HTTPEnter(p) \/ Authenticate(p) \/ OtherSnapshot(p)
             \/ SnapshotRoom \/ SnapshotMembers \/ SnapshotSend \/ SnapshotFails
             \/ \E q \in ParticipantID, value \in BOOLEAN : MuteRoom(p, q, value)
             \/ \E q \in ParticipantID : RemoveFromRoom(p, q)
             \/ LeaveRoom(p) \/ LeaveFails(p) \/ Reply \/ handleSignal
      PROVE  Reached'
    BY <1>0, <1>1, <1>3
       DEF HTTPEnter, Authenticate, OtherSnapshot, SnapshotRoom, SnapshotMembers, SnapshotSend,
           SnapshotFails, MuteRoom, RemoveFromRoom, LeaveRoom, LeaveFails, Reply, handleSignal,
           Move, Serving
<1>4. ASSUME NEW p \in ParticipantID,
             \/ AnnounceConnected(p) \/ AnnounceMuted(p) \/ AnnounceRemoved(p)
             \/ AnnounceLeft(p) \/ AnnounceOwner(p) \/ SendTo
      PROVE  Reached'
    <2>1. closed => closed'
        BY <1>2, <1>4 DEF AnnounceConnected, AnnounceMuted, AnnounceRemoved, AnnounceLeft,
                          AnnounceOwner, SendTo
    <2> QED BY <1>0, <1>1, <1>4, <2>1
            DEF AnnounceConnected, AnnounceMuted, AnnounceRemoved, AnnounceLeft, AnnounceOwner,
                SendTo, Move, Serving
<1>5. ASSUME NEW p \in ParticipantID, HubAdd(p)
      PROVE  Reached'
    BY <1>0, <1>5 DEF HubAdd, Move, Reached, Serving
<1>6. ASSUME NEW p \in ParticipantID, HubTake(p) \/ HubRemove(p) \/ Return(p)
      PROVE  Reached'
    BY <1>0, <1>6 DEF HubTake, HubRemove, Return, CloseIf, CloseViewer, Move, Reached, Serving
<1>7. CASE UNCHANGED vars
    BY <1>7 DEF vars, rosterVars, Reached
<1> QED BY <1>3, <1>4, <1>5, <1>6, <1>7, RosterAssumption DEF RosterNext, Handle, Receive

(* The queue: what is appended behind leaves a member to be shown, unless  *)
(* it takes them off; what puts them on makes up for everything before.    *)
LEMMA AppendKeepsShown ==
    ASSUME RosterInv, NEW m, NEW p, queue' = Append(queue, m), UNCHANGED view,
           (WillBeShown(p) /\ ~Undoes(m, p)) \/ Lists(m, p)
    PROVE  WillBeShown(p)'
<1>1. /\ Len(queue) \in Nat /\ DOMAIN queue = 1 .. Len(queue)
      /\ DOMAIN queue' = 1 .. Len(queue) + 1
      /\ queue'[Len(queue) + 1] = m
      /\ \A i \in DOMAIN queue : queue'[i] = queue[i]
    BY DEF RosterInv, RosterTypeOK
<1>2. CASE Lists(m, p)
    <2>1. Len(queue) + 1 \in DOMAIN queue' /\ Lists(queue'[Len(queue) + 1], p)
        BY <1>1, <1>2
    <2>2. \A j \in DOMAIN queue' : ~(Len(queue) + 1 < j)
        BY <1>1
    <2> QED BY <2>1, <2>2 DEF WillBeShown
<1>3. CASE WillBeShown(p) /\ ~Undoes(m, p)
    <2>1. \A j \in DOMAIN queue' : j \in DOMAIN queue \/ queue'[j] = m
        BY <1>1
    <2>2. ASSUME p \in view.members, \A j \in DOMAIN queue : ~Undoes(queue[j], p)
          PROVE  WillBeShown(p)'
        BY <1>1, <1>3, <2>1, <2>2 DEF WillBeShown
    <2>3. ASSUME NEW i \in DOMAIN queue, Lists(queue[i], p),
                 \A j \in DOMAIN queue : i < j => ~Undoes(queue[j], p)
          PROVE  WillBeShown(p)'
        <3>1. i \in DOMAIN queue' /\ Lists(queue'[i], p)
            BY <1>1, <2>3
        <3>2. \A j \in DOMAIN queue' : i < j => ~Undoes(queue'[j], p)
            BY <1>1, <1>3, <2>1, <2>3
        <3> QED BY <3>1, <3>2 DEF WillBeShown
    <2> QED BY <1>3, <2>2, <2>3 DEF WillBeShown
<1> QED BY <1>2, <1>3

(* Reading does what the queue has promised.                               *)
LEMMA ReadingKeepsShown ==
    ASSUME RosterInv, NEW p, handleSignal, WillBeShown(p)
    PROVE  WillBeShown(p)'
<1>1. /\ Len(queue) \in Nat /\ DOMAIN queue = 1 .. Len(queue) /\ Len(queue) # 0
      /\ queue \in Seq(Queued) /\ view \in Page
    BY DEF RosterInv, RosterTypeOK, handleSignal, Queued
<1>2. /\ DOMAIN queue' = 1 .. Len(queue) - 1
      /\ \A i \in DOMAIN queue' : queue'[i] = queue[i + 1] /\ i + 1 \in DOMAIN queue
      /\ \A i \in DOMAIN queue : i # 1 => i - 1 \in DOMAIN queue' /\ queue'[i - 1] = queue[i]
      /\ 1 \in DOMAIN queue /\ queue[1] \in Queued /\ view' = Shown(view, queue[1])
    <2> HIDE DEF Queued
    <2> QED BY <1>1 DEF handleSignal
<1>3. Lists(queue[1], p) => p \in view'.members
    BY <1>1, <1>2 DEF Lists, Shown, upsertParticipant, Queued, Event, Page
<1>4. p \in view.members /\ ~Undoes(queue[1], p) => p \in view'.members
    BY <1>1, <1>2 DEF Undoes, Farewells, Shown, upsertParticipant, Queued, Event, Page
<1>5. CASE p \in view'.members /\ \A j \in DOMAIN queue : 1 < j => ~Undoes(queue[j], p)
    BY <1>1, <1>2, <1>5 DEF WillBeShown
<1>6. ASSUME NEW i \in DOMAIN queue, i # 1, Lists(queue[i], p),
             \A j \in DOMAIN queue : i < j => ~Undoes(queue[j], p)
      PROVE  WillBeShown(p)'
    <2>1. i - 1 \in DOMAIN queue' /\ Lists(queue'[i - 1], p)
        BY <1>2, <1>6
    <2>2. \A j \in DOMAIN queue' : i - 1 < j => ~Undoes(queue'[j], p)
        BY <1>1, <1>2, <1>6
    <2> QED BY <2>1, <2>2 DEF WillBeShown
<1> QED BY <1>2, <1>3, <1>4, <1>5, <1>6 DEF WillBeShown

(* A handler comes to serve, to announce itself or to have its snapshot    *)
(* ready by one kind of step each.                                         *)
LEMMA WhereFrom ==
    ASSUME RosterInv, [RosterNext]_vars, NEW p \in ParticipantID
    PROVE  /\ stage'[p] \in Serving => stage[p] \in Serving \/ AnnounceConnected(p)
           /\ stage'[Viewer] = "sending" => stage[Viewer] = "sending" \/ SnapshotMembers
           /\ stage'[Viewer] \in {"announcing"} \cup Serving =>
                 stage[Viewer] \in {"announcing"} \cup Serving \/ SnapshotSend
<1> DEFINE Goal == /\ stage'[p] \in Serving => stage[p] \in Serving \/ AnnounceConnected(p)
                   /\ stage'[Viewer] = "sending" => stage[Viewer] = "sending" \/ SnapshotMembers
                   /\ stage'[Viewer] \in {"announcing"} \cup Serving =>
                         stage[Viewer] \in {"announcing"} \cup Serving \/ SnapshotSend
<1>0. stage \in [ParticipantID -> Stage] /\ Viewer \in ParticipantID
    BY RosterAssumption DEF RosterInv, RosterTypeOK, Stage
<1>1. ASSUME NEW q \in ParticipantID,
             \/ HubAdd(q) \/ OtherSnapshot(q) \/ AnnounceMuted(q) \/ HubTake(q)
             \/ AnnounceRemoved(q) \/ HubRemove(q) \/ LeaveRoom(q) \/ LeaveFails(q)
             \/ AnnounceLeft(q) \/ AnnounceOwner(q) \/ Authenticate(q) \/ Return(q)
             \/ SnapshotRoom \/ SnapshotFails
             \/ \E r \in ParticipantID : RemoveFromRoom(q, r)
             \/ \E r \in ParticipantID, value \in BOOLEAN : MuteRoom(q, r, value)
      PROVE  Goal
    <2>1. CASE \/ HubAdd(q) \/ HubTake(q) \/ LeaveRoom(q) \/ LeaveFails(q) \/ AnnounceOwner(q)
               \/ Authenticate(q) \/ Return(q) \/ AnnounceMuted(q) \/ AnnounceRemoved(q)
               \/ \E r \in ParticipantID : RemoveFromRoom(q, r)
               \/ \E r \in ParticipantID, value \in BOOLEAN : MuteRoom(q, r, value)
        <3>1. \/ Move(q, "authenticated", "added") \/ Move(q, "taking", "removing")
              \/ Move(q, "leaving", "left") \/ Move(q, "leaving", "done")
              \/ Move(q, "succession", "done") \/ Move(q, "idle", "authenticated")
              \/ Move(q, "serving", "returning") \/ Move(q, "muting", "serving")
              \/ Move(q, "removing", "serving") \/ Move(q, "serving", "taking")
              \/ Move(q, "serving", "muting")
            BY <2>1 DEF HubAdd, HubTake, LeaveRoom, LeaveFails, AnnounceOwner, Authenticate,
                        Return, AnnounceMuted, AnnounceRemoved, RemoveFromRoom, MuteRoom
        <3> QED BY <1>0, <3>1 DEF Move, Serving
    <2>2. CASE HubRemove(q) \/ OtherSnapshot(q) \/ AnnounceLeft(q)
        <3>1. \/ Move(q, "returning", "leaving") \/ Move(q, "returning", "done")
              \/ Move(q, "added", "announcing") /\ q # Viewer
              \/ Move(q, "added", "returning")
              \/ Move(q, "left", "done") \/ Move(q, "left", "succession")
            BY <2>2 DEF HubRemove, OtherSnapshot, AnnounceLeft
        <3> QED BY <1>0, <3>1 DEF Move, Serving
    <2>3. CASE SnapshotRoom \/ SnapshotFails
        BY <1>0, <2>3 DEF SnapshotRoom, SnapshotFails, Move, Serving
    <2> QED BY <1>1, <2>1, <2>2, <2>3
<1>2. ASSUME NEW q \in ParticipantID, AnnounceConnected(q)
      PROVE  Goal
    BY <1>0, <1>2 DEF AnnounceConnected, Move, Serving
<1>3. CASE SnapshotMembers \/ SnapshotSend
    BY <1>0, <1>3 DEF SnapshotMembers, SnapshotSend, Move, Serving
<1>4. ASSUME NEW q \in ParticipantID,
             HTTPEnter(q) \/ Reply \/ SendTo \/ handleSignal \/ UNCHANGED vars
      PROVE  Goal
    BY <1>4 DEF HTTPEnter, Reply, SendTo, handleSignal, vars, rosterVars
<1> QED BY <1>0, <1>1, <1>2, <1>3, <1>4 DEF RosterNext, Handle, Receive

(* Who is served now was a member before.                                  *)
LEMMA PresentBefore ==
    ASSUME RosterInv, HandlersTrue, [RosterNext]_vars, NEW p \in ParticipantID, Present(p)'
    PROVE  Present(p) \/ AnnounceConnected(p)
<1>1. CASE stage[p] \in Serving
    <2>1. p \in issued
        BY <1>1 DEF HandlersTrue, Serving
    <2> QED BY <1>1, <2>1, RoomForgetsNobody DEF Present, Serving
<1> QED BY <1>1, WhereFrom DEF Present, Serving

(* What a step that queues nothing has to leave as it is.                  *)
LEMMA QuietStep ==
    ASSUME RosterInv, ShownInv, [RosterNext]_vars, overlooked \subseteq overlooked',
           \A p \in ParticipantID : ~AnnounceConnected(p),
           closed => closed',
           UNCHANGED queue \/ (closed' /\ queue' = <<>>),
           UNCHANGED view \/ closed' \/ stage'[Viewer] = "idle",
           stage'[Viewer] = "sending" => stage[Viewer] = "sending" /\ UNCHANGED snapshot,
           ~SnapshotSend
    PROVE  FarewellsTrue' /\ SnapshotComplete' /\ PageComplete'
<1>1. \A p \in ParticipantID : Present(p)' => Present(p)
    BY PresentBefore DEF ShownInv
<1>2. FarewellsTrue'
    BY RoomForgetsNobody DEF ShownInv, FarewellsTrue, Gone
<1>3. SnapshotComplete'
    BY <1>1 DEF ShownInv, SnapshotComplete
<1>4. PageComplete'
    <2> SUFFICES ASSUME stage'[Viewer] \in {"announcing"} \cup Serving, ~closed',
                        NEW p \in ParticipantID \ overlooked', Present(p)'
                 PROVE  WillBeShown(p)'
        BY DEF PageComplete
    <2>1. stage[Viewer] \in {"announcing"} \cup Serving /\ ~closed
        BY WhereFrom, RosterAssumption
    <2>2. UNCHANGED <<queue, view>>
        BY DEF Serving
    <2>3. WillBeShown(p)
        BY <1>1, <2>1 DEF ShownInv, PageComplete
    <2> QED BY <2>2, <2>3 DEF WillBeShown
<1> QED BY <1>2, <1>3, <1>4

(* A broadcast reaches the page, fills the queue up or finds it closed.    *)
LEMMA BroadcastStep ==
    ASSUME RosterInv, ShownInv, [RosterNext]_vars, overlooked \subseteq overlooked',
           NEW m, Broadcast(m), m.type # "room_snapshot",
           m.type \in Farewells => Gone(m.id),
           \A p \in ParticipantID \ overlooked' : AnnounceConnected(p) =>
               Lists(m, p) /\ (stage[Viewer] = "sending" => p \in snapshot.members),
           stage'[Viewer] = "sending" => stage[Viewer] = "sending" /\ UNCHANGED snapshot,
           ~SnapshotSend
    PROVE  FarewellsTrue' /\ SnapshotComplete' /\ PageComplete'
<1>1. \A p \in ParticipantID : Present(p)' => Present(p) \/ AnnounceConnected(p)
    BY PresentBefore DEF ShownInv
<1>2. FarewellsTrue'
    <2>1. CASE queue' = Append(queue, m)
        <3>1. /\ Len(queue) \in Nat /\ DOMAIN queue = 1 .. Len(queue)
              /\ DOMAIN queue' = 1 .. Len(queue) + 1
              /\ queue'[Len(queue) + 1] = m
              /\ \A i \in DOMAIN queue : queue'[i] = queue[i]
            BY <2>1 DEF RosterInv, RosterTypeOK
        <3>2. \A i \in DOMAIN queue' : queue'[i].type \in Farewells => Gone(queue'[i].id)
            BY <3>1 DEF ShownInv, FarewellsTrue
        <3> QED BY <3>2, RoomForgetsNobody DEF FarewellsTrue, Gone
    <2>2. CASE UNCHANGED queue \/ queue' = <<>>
        BY <2>2, RoomForgetsNobody DEF ShownInv, FarewellsTrue, Gone
    <2> QED BY <2>1, <2>2 DEF Broadcast, Send, CloseIf, CloseViewer
<1>3. SnapshotComplete'
    BY <1>1 DEF ShownInv, SnapshotComplete
<1>4. PageComplete'
    <2> SUFFICES ASSUME stage'[Viewer] \in {"announcing"} \cup Serving, ~closed',
                        NEW p \in ParticipantID \ overlooked', Present(p)'
                 PROVE  WillBeShown(p)'
        BY DEF PageComplete
    <2>1. stage[Viewer] \in {"announcing"} \cup Serving
        BY WhereFrom, RosterAssumption
    <2>2. ~closed
        BY DEF Broadcast, CloseIf, CloseViewer
    <2>3. Viewer \in registered
        BY <2>1, <2>2 DEF ShownInv, Reached
    <2>4. queue' = Append(queue, m) /\ UNCHANGED view
        BY <2>2, <2>3 DEF Broadcast, Send, CloseIf, CloseViewer
    <2>5. CASE Present(p)
        <3>1. WillBeShown(p)
            BY <2>1, <2>2, <2>5 DEF ShownInv, PageComplete
        <3>2. ~Undoes(m, p)
            BY <2>5 DEF Undoes, Gone, Present
        <3> QED BY <2>4, <3>1, <3>2, AppendKeepsShown
    <2>6. CASE AnnounceConnected(p)
        BY <2>4, <2>6, AppendKeepsShown
    <2> QED BY <1>1, <2>5, <2>6
<1> QED BY <1>2, <1>3, <1>4

(* The page's own reading, and the snapshot as it is read and queued.      *)
LEMMA ReadingStep ==
    ASSUME RosterInv, ShownInv, [RosterNext]_vars, handleSignal
    PROVE  FarewellsTrue' /\ SnapshotComplete' /\ PageComplete'
<1>1. \A p \in ParticipantID : Present(p)' => Present(p)
    BY DEF handleSignal, Present, GetParticipant, Exists, theRoom, roomVars
<1>2. \A i \in DOMAIN queue' : i + 1 \in DOMAIN queue /\ queue'[i] = queue[i + 1]
    BY DEF handleSignal, RosterInv, RosterTypeOK
<1>3. FarewellsTrue'
    BY <1>2, RoomForgetsNobody DEF ShownInv, FarewellsTrue, Gone
<1>4. SnapshotComplete'
    BY <1>1 DEF handleSignal, ShownInv, SnapshotComplete
<1>5. PageComplete'
    BY <1>1, ReadingKeepsShown DEF handleSignal, ShownInv, PageComplete
<1> QED BY <1>3, <1>4, <1>5

LEMMA SnapshotStep ==
    ASSUME RosterInv, ShownInv, [RosterNext]_vars, SnapshotMembers \/ SnapshotSend
    PROVE  FarewellsTrue' /\ SnapshotComplete' /\ PageComplete'
<1>0. /\ stage \in [ParticipantID -> Stage] /\ Viewer \in ParticipantID /\ snapshot \in Page
    BY RosterAssumption DEF RosterInv, RosterTypeOK, Stage
<1>1. \A p \in ParticipantID : ~AnnounceConnected(p)
    BY <1>0 DEF SnapshotMembers, SnapshotSend, AnnounceConnected, Move
<1>2. \A p \in ParticipantID : Present(p)' => Present(p)
    BY <1>1, PresentBefore DEF ShownInv
<1>3. CASE SnapshotMembers
    <2>1. FarewellsTrue'
        BY <1>3, RoomForgetsNobody DEF SnapshotMembers, ShownInv, FarewellsTrue, Gone
    <2>2. snapshot'.members = theRoom.participants
        BY <1>0, <1>3 DEF SnapshotMembers, Page
    <2>3. SnapshotComplete'
        BY <1>2, <2>2 DEF SnapshotComplete, Present, GetParticipant, theRoom
    <2>4. PageComplete'
        BY <1>0, <1>3 DEF SnapshotMembers, Move, PageComplete, Serving
    <2> QED BY <2>1, <2>3, <2>4
<1>4. CASE SnapshotSend
    <2> DEFINE m == [type |-> "room_snapshot", page |-> snapshot]
    <2>1. /\ stage[Viewer] = "sending" /\ stage'[Viewer] = "announcing"
          /\ queue' = Append(queue, m) /\ UNCHANGED <<view, overlooked>>
        BY <1>0, <1>4 DEF SnapshotSend, Send, Move
    <2>2. m.type \notin Farewells /\ \A p \in snapshot.members : Lists(m, p)
        BY DEF Farewells, Lists
    <2> HIDE DEF m
    <2>3. FarewellsTrue'
        <3>1. /\ Len(queue) \in Nat /\ DOMAIN queue = 1 .. Len(queue)
              /\ DOMAIN queue' = 1 .. Len(queue) + 1
              /\ queue'[Len(queue) + 1] = m
              /\ \A i \in DOMAIN queue : queue'[i] = queue[i]
            BY <2>1 DEF RosterInv, RosterTypeOK
        <3>2. \A i \in DOMAIN queue' : queue'[i].type \in Farewells => Gone(queue'[i].id)
            BY <2>2, <3>1 DEF ShownInv, FarewellsTrue
        <3> QED BY <3>2, RoomForgetsNobody DEF FarewellsTrue, Gone
    <2>4. PageComplete'
        <3>1. \A p \in ParticipantID \ overlooked : Present(p) => p \in snapshot.members
            BY <2>1 DEF ShownInv, SnapshotComplete
        <3>2. \A p \in snapshot.members : WillBeShown(p)'
            BY <2>1, <2>2, AppendKeepsShown
        <3> QED BY <1>2, <2>1, <3>1, <3>2 DEF PageComplete
    <2> QED BY <2>1, <2>3, <2>4 DEF SnapshotComplete
<1> QED BY <1>3, <1>4

LEMMA ShownInvInit == RosterInit => ShownInv
BY RosterAssumption
   DEF RosterInit, ShownInv, HandlersTrue, Reached, FarewellsTrue, SnapshotComplete,
       PageComplete, Serving

LEMMA ShownInvStep ==
    ASSUME RosterInv, RosterInv', ShownInv, [RosterNext]_vars
    PROVE  ShownInv'
<1> DEFINE Goal == FarewellsTrue' /\ SnapshotComplete' /\ PageComplete'
<1>0. stage \in [ParticipantID -> Stage] /\ Viewer \in ParticipantID
    BY RosterAssumption DEF RosterInv, RosterTypeOK, Stage
<1>1. HandlersTrue' /\ Reached'
    BY HandlersTrueStep, ReachedStep DEF ShownInv
<1>2. ASSUME NEW p \in ParticipantID, HTTPEnter(p)
      PROVE  Goal
    <2>1. p \notin issued
        BY <1>2 DEF HTTPEnter, Create, Join
    <2>2. stage[p] = "idle" /\ UNCHANGED <<stage, queue, closed, snapshot, overlooked>>
        BY <1>2, <2>1 DEF HTTPEnter, ShownInv, HandlersTrue
    <2>3. UNCHANGED view \/ stage'[Viewer] = "idle"
        BY <1>2, <2>2 DEF HTTPEnter
    <2>4. ~SnapshotSend /\ \A q \in ParticipantID : ~AnnounceConnected(q)
        BY <1>0, <2>2 DEF SnapshotSend, AnnounceConnected, Move
    <2> QED BY <2>2, <2>3, <2>4, QuietStep
<1>3. ASSUME NEW p \in ParticipantID,
             \/ Authenticate(p) \/ HubAdd(p) \/ OtherSnapshot(p) \/ SnapshotRoom \/ SnapshotFails
             \/ LeaveRoom(p) \/ LeaveFails(p)
             \/ \E q \in ParticipantID : RemoveFromRoom(p, q)
             \/ \E q \in ParticipantID, value \in BOOLEAN : MuteRoom(p, q, value)
      PROVE  Goal
    <2>1. UNCHANGED <<queue, view, closed, overlooked>>
        BY <1>3 DEF Authenticate, HubAdd, OtherSnapshot, SnapshotRoom, SnapshotFails,
                    LeaveRoom, LeaveFails, RemoveFromRoom, MuteRoom
    <2>2. ~SnapshotSend /\ \A q \in ParticipantID : ~AnnounceConnected(q)
        BY <1>0, <1>3 DEF Authenticate, HubAdd, OtherSnapshot, SnapshotRoom, SnapshotFails,
                    LeaveRoom, LeaveFails, RemoveFromRoom, MuteRoom, SnapshotSend,
                    AnnounceConnected, Move
    <2>3. stage'[Viewer] = "sending" => stage[Viewer] = "sending" /\ UNCHANGED snapshot
        BY <1>0, <1>3 DEF Authenticate, HubAdd, OtherSnapshot, SnapshotRoom, SnapshotFails,
                    LeaveRoom, LeaveFails, RemoveFromRoom, MuteRoom, Move
    <2> QED BY <2>1, <2>2, <2>3, QuietStep
<1>4. ASSUME NEW p \in ParticipantID, HubTake(p) \/ Return(p) \/ HubRemove(p)
      PROVE  Goal
    <2>1. /\ UNCHANGED <<snapshot, overlooked>>
          /\ closed => closed'
          /\ UNCHANGED <<queue, view>> \/ (closed' /\ queue' = <<>>)
        BY <1>4 DEF HubTake, Return, HubRemove, CloseIf, CloseViewer
    <2>2. ~SnapshotSend /\ \A q \in ParticipantID : ~AnnounceConnected(q)
        BY <1>0, <1>4 DEF HubTake, Return, HubRemove, SnapshotSend, AnnounceConnected, Move
    <2>3. stage'[Viewer] = "sending" => stage[Viewer] = "sending"
        BY <1>0, <1>4 DEF HubTake, Return, HubRemove, Move
    <2> QED BY <2>1, <2>2, <2>3, QuietStep
<1>5. ASSUME NEW p \in ParticipantID, AnnounceConnected(p)
      PROVE  Goal
    <2> DEFINE m == Message("participant_connected", p)
    <2>1. /\ m.type = "participant_connected" /\ m.id = p /\ Broadcast(m)
          /\ stage[p] = "announcing" /\ stage'[p] = "serving"
          /\ \A q \in ParticipantID \ {p} : stage'[q] = stage[q]
        BY <1>0, <1>5 DEF AnnounceConnected, Message, Move, ShownInv, HandlersTrue
    <2> HIDE DEF m
    <2>2. \A q \in ParticipantID : AnnounceConnected(q) => q = p
        BY <1>0, <2>1 DEF AnnounceConnected, Move
    <2>3. stage'[Viewer] = "sending" => stage[Viewer] = "sending"
        BY <1>0, <2>1 DEF SnapshotSend, Move
    <2>4. ~SnapshotSend
        BY <1>0, <2>1 DEF SnapshotSend, Move
    <2>5. UNCHANGED snapshot /\ overlooked \subseteq overlooked'
        BY <1>5 DEF AnnounceConnected
    <2>6. p \notin overlooked' /\ stage[Viewer] = "sending" => p \in snapshot.members
        BY <1>5 DEF AnnounceConnected
    <2>7. Lists(m, p) /\ m.type # "room_snapshot" /\ m.type \notin Farewells
        BY <2>1 DEF Lists, Farewells
    <2> QED BY <2>1, <2>2, <2>3, <2>4, <2>5, <2>6, <2>7, BroadcastStep
<1>6. ASSUME NEW p \in ParticipantID, NEW m, Broadcast(m), m.type # "room_snapshot",
             m.type \in Farewells => Gone(m.id), UNCHANGED <<snapshot, overlooked>>,
             UNCHANGED stage \/ \E s, t : /\ Move(p, s, t) /\ s # "announcing"
                                          /\ t \notin {"sending", "announcing"}
      PROVE  Goal
    <2>1. ~SnapshotSend /\ \A q \in ParticipantID : ~AnnounceConnected(q)
        BY <1>0, <1>6 DEF SnapshotSend, AnnounceConnected, Move
    <2>2. stage'[Viewer] = "sending" => stage[Viewer] = "sending"
        BY <1>0, <1>6 DEF Move
    <2> QED BY <1>6, <2>1, <2>2, BroadcastStep
<1>7. ASSUME NEW p \in ParticipantID, AnnounceMuted(p) \/ AnnounceOwner(p)
      PROVE  Goal
    <2>1. PICK type \in {"participant_muted", "owner_changed"} : Broadcast(Message(type, p))
        BY <1>7 DEF AnnounceMuted, AnnounceOwner
    <2>2. Message(type, p).type = type
        BY DEF Message
    <2>3. Move(p, "muting", "serving") \/ Move(p, "succession", "done")
        BY <1>7 DEF AnnounceMuted, AnnounceOwner
    <2>4. UNCHANGED <<snapshot, overlooked>>
        BY <1>7 DEF AnnounceMuted, AnnounceOwner
    <2> QED BY <1>6, <2>1, <2>2, <2>3, <2>4 DEF Farewells
<1>8. ASSUME NEW p \in ParticipantID, AnnounceRemoved(p)
      PROVE  Goal
    <2> DEFINE m == Message("participant_removed", p)
    <2>1. m.type = "participant_removed" /\ m.id = holds[p].id /\ Gone(holds[p].id)
        BY <1>8 DEF AnnounceRemoved, Message, Move, ShownInv, HandlersTrue
    <2>2. Broadcast(m) /\ Move(p, "removing", "serving") /\ UNCHANGED <<snapshot, overlooked>>
        BY <1>8 DEF AnnounceRemoved
    <2> HIDE DEF m
    <2> QED BY <1>6, <2>1, <2>2
<1>9. ASSUME NEW p \in ParticipantID, AnnounceLeft(p)
      PROVE  Goal
    <2> DEFINE m == [type |-> "participant_left", id |-> p, muted |-> FALSE]
    <2>1. m.type = "participant_left" /\ m.id = p /\ Gone(p)
        BY <1>9 DEF AnnounceLeft, Move, ShownInv, HandlersTrue
    <2>2. Broadcast(m) /\ UNCHANGED <<snapshot, overlooked>>
        BY <1>9 DEF AnnounceLeft
    <2>3. Move(p, "left", "done") \/ Move(p, "left", "succession")
        BY <1>9 DEF AnnounceLeft
    <2> HIDE DEF m
    <2> QED BY <1>6, <2>1, <2>2, <2>3
<1>10. ASSUME Reply \/ SendTo
       PROVE  Goal
    <2> DEFINE m == [type |-> "other"]
    <2>1. Reply => Viewer \in registered
        BY DEF Reply, ShownInv, Reached, Serving
    <2>2. Broadcast(m) /\ UNCHANGED <<stage, snapshot, overlooked>>
        BY <1>10, <2>1 DEF Reply, SendTo, Broadcast
    <2>3. m.type # "room_snapshot" /\ m.type \notin Farewells
        BY DEF Farewells
    <2>4. UNCHANGED stage /\ UNCHANGED <<snapshot, overlooked>>
        BY <2>2
    <2> HIDE DEF m
    <2> QED BY <1>0, <1>6, <2>2, <2>3, <2>4
<1>11. ASSUME UNCHANGED vars
       PROVE  Goal
    <2>1. UNCHANGED <<stage, queue, view, closed, snapshot, overlooked>>
        BY <1>11 DEF vars, rosterVars
    <2>2. ~SnapshotSend /\ \A q \in ParticipantID : ~AnnounceConnected(q)
        BY <1>0, <2>1 DEF SnapshotSend, AnnounceConnected, Move
    <2> QED BY <2>1, <2>2, QuietStep
<1>12. ASSUME NEW p \in ParticipantID, Handle(p) \/ Receive(p)
       PROVE  Goal
    <2> HIDE DEF Goal
    <2> QED BY <1>2, <1>3, <1>4, <1>5, <1>7, <1>8, <1>9, <1>10, <1>12, SnapshotStep
            DEF Handle, Receive, Goal
<1>13. Goal
    <2> HIDE DEF Goal
    <2> QED BY <1>10, <1>11, <1>12, ReadingStep DEF RosterNext, Goal
<1> QED BY <1>1, <1>13 DEF ShownInv

(* The inductive invariant of what the page shows: the handlers tell the   *)
(* truth about who has gone, a broadcast finds Viewer in the hub, and      *)
(* whoever is served is in the snapshot, on the page or in the queue.      *)
THEOREM ShownInvariant == RosterSpec => [](RosterInv /\ ShownInv)
<1>1. RosterInit => RosterInv /\ ShownInv
    BY RosterInvInit, ShownInvInit
<1>2. RosterInv /\ ShownInv /\ [RosterNext]_vars => (RosterInv /\ ShownInv)'
    BY RosterInvStep, ShownInvStep
<1> QED BY <1>1, <1>2, PTL DEF RosterSpec

(* README.md:34 for every number of participants, every capacity of the    *)
(* queue and every order of the handlers' steps: a page that has read what *)
(* is queued shows every member served, but for those that were announced  *)
(* between the reading of its snapshot and its sending.                    *)
THEOREM EverybodyIsShown == RosterSpec => []EverybodyShown
<1>1. RosterInv /\ ShownInv => EverybodyShown
    <2> SUFFICES ASSUME RosterInv, ShownInv, stage[Viewer] = "serving", ~closed, queue = <<>>,
                        NEW p \in ParticipantID \ overlooked, Present(p)
                 PROVE  p \in view.members
        BY DEF EverybodyShown
    <2>1. WillBeShown(p)
        BY DEF ShownInv, PageComplete, Serving
    <2>2. DOMAIN queue = {}
        OBVIOUS
    <2> QED BY <2>1, <2>2 DEF WillBeShown
<1> QED BY <1>1, ShownInvariant, PTL

=============================================================================
