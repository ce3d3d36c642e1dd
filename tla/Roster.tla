------------------------------- MODULE Roster -------------------------------
(***************************************************************************)
(* What a browser shows of its room: the handlers' broadcasts, the bounded *)
(* queue of one client, and the state that App.tsx keeps, over             *)
(* room.Manager.  Every participant has one connection, whose handler      *)
(* reads or changes the room in one step and tells the others in a later   *)
(* one; Viewer is the participant whose queue and page are followed.       *)
(*                                                                         *)
(* Reconnections and dissolve_room are in Sessions.  Broadcast collects    *)
(* the clients and then fills their queues; one step does both here, since *)
(* a client that comes in between is not told and one that goes in between *)
(* is not followed any more.                                               *)
(***************************************************************************)
EXTENDS Rooms

CONSTANTS
    TheRoom, Viewer,
    QueueSize       \* bound: the capacity of a client's queue, 32 in the code

ASSUME RosterAssumption ==
    /\ TheRoom \in RoomID
    /\ Viewer \in ParticipantID
    /\ QueueSize \in Nat \ {0}

VARIABLES
    stage,          \* stage[p]: the next step of p's handler
    holds,          \* holds[p]: what the handler has read and not yet sent
    registered,     \* the participants whose client is in the hub
    snapshot,       \* the room_snapshot that Viewer's handler puts together
    queue,          \* Client.send of Viewer
    closed,         \* Viewer's socket has been closed
    view,           \* the room and participants state of Viewer's page
    overlooked      \* history: who was announced to Viewer before a snapshot
                    \* that had been read already, and had not got them

rosterVars == <<stage, holds, registered, snapshot, queue, closed, view, overlooked>>
vars == <<roomVars, rosterVars>>

Nothing == [id |-> Nobody, muted |-> FALSE]
EmptyPage == [owner |-> Nobody, members |-> {}, muted |-> {}]

theRoom == rooms[TheRoom]
IsMuted(p) == p \in theRoom.muted
Move(p, from, to) == stage[p] = from /\ stage' = [stage EXCEPT ![p] = to]
Hold(p, id, isMuted) == holds' = [holds EXCEPT ![p] = [id |-> id, muted |-> isMuted]]
Drop(p) == holds' = [holds EXCEPT ![p] = Nothing]

\* newMessage, and Client.Send to Viewer.
Message(type, p) == [type |-> type, id |-> holds[p].id, muted |-> holds[p].muted]
Full == Len(queue) >= QueueSize
Send(m) == queue' = Append(queue, m)

\* Viewer's socket is closed: WriteLoop ends, and finishRoom empties the page.
CloseViewer ==
    /\ closed' = TRUE
    /\ queue' = <<>>
    /\ view' = EmptyPage

CloseIf(condition) ==
    IF condition THEN CloseViewer ELSE UNCHANGED <<closed, queue, view>>

Broadcast_Skips(m) ==
    IF Viewer \in registered /\ ~closed /\ ~Full
    THEN Send(m) /\ UNCHANGED <<closed, view>>
    ELSE UNCHANGED <<closed, queue, view>>

\* Hub.Broadcast, as far as Viewer gets it.
Broadcast(m) ==
    IF Viewer \in registered /\ ~closed /\ ~Full
    THEN Send(m) /\ UNCHANGED <<closed, view>>
    ELSE CloseIf(Viewer \in registered /\ Full)
-----------------------------------------------------------------------------
RosterInit ==
    /\ RoomsInit
    /\ stage = [p \in ParticipantID |-> "idle"]
    /\ holds = [p \in ParticipantID |-> Nothing]
    /\ registered = {}
    /\ snapshot = EmptyPage
    /\ queue = <<>>
    /\ closed = FALSE
    /\ view = EmptyPage
    /\ overlooked = {}

\* The answer of POST /api/rooms or /join: the room and the new participant.
HTTPEnter(p) ==
    /\ Create(TheRoom, p) \/ Join(TheRoom, p)
    /\ view' = IF p = Viewer
               THEN [owner |-> rooms'[TheRoom].owner, members |-> {p}, muted |-> {}]
               ELSE view
    /\ UNCHANGED <<stage, holds, registered, snapshot, queue, closed, overlooked>>

Authenticate(p) ==
    /\ Move(p, "idle", "authenticated")
    /\ GetParticipant(TheRoom, p)
    /\ Hold(p, p, IsMuted(p))
    /\ UNCHANGED <<roomVars, registered, snapshot, queue, closed, view, overlooked>>

HubAdd(p) ==
    /\ Move(p, "authenticated", "added")
    /\ registered' = registered \cup {p}
    /\ UNCHANGED <<roomVars, holds, snapshot, queue, closed, view, overlooked>>

\* sendSnapshot for the others; it may fail.
OtherSnapshot(p) ==
    /\ p # Viewer
    /\ \/ Move(p, "added", "announcing") /\ Exists(TheRoom)
       \/ Move(p, "added", "returning")
    /\ UNCHANGED <<roomVars, holds, registered, snapshot, queue, closed, view, overlooked>>

\* sendSnapshot for Viewer: Get, ListParticipants and Send, one after another.
SnapshotRoom ==
    /\ Move(Viewer, "added", "reading")
    /\ Exists(TheRoom)
    /\ snapshot' = [snapshot EXCEPT !.owner = theRoom.owner]
    /\ UNCHANGED <<roomVars, holds, registered, queue, closed, view, overlooked>>

SnapshotMembers ==
    /\ Move(Viewer, "reading", "sending")
    /\ Exists(TheRoom)
    /\ snapshot' = [snapshot EXCEPT !.members = theRoom.participants,
                                    !.muted = theRoom.muted]
    /\ UNCHANGED <<roomVars, holds, registered, queue, closed, view, overlooked>>

SnapshotSend ==
    /\ Move(Viewer, "sending", "announcing")
    /\ ~Full
    /\ Send([type |-> "room_snapshot", page |-> snapshot])
    /\ snapshot' = EmptyPage
    /\ UNCHANGED <<roomVars, holds, registered, closed, view, overlooked>>

\* The room is gone, or the queue is full already.
SnapshotFails ==
    /\ \/ Move(Viewer, "added", "returning") /\ ~Exists(TheRoom)
       \/ Move(Viewer, "reading", "returning") /\ ~Exists(TheRoom)
       \/ Move(Viewer, "sending", "returning") /\ Full
    /\ snapshot' = EmptyPage
    /\ UNCHANGED <<roomVars, holds, registered, queue, closed, view, overlooked>>

\* ServeHTTP line 66: everybody is told what authenticate has read.
AnnounceConnected(p) ==
    /\ Move(p, "announcing", "serving")
    /\ Broadcast(Message("participant_connected", p))
    /\ Drop(p)
    /\ overlooked' = IF stage[Viewer] = "sending" /\ p \notin snapshot.members
                     THEN overlooked \cup {p} ELSE overlooked
    /\ UNCHANGED <<roomVars, registered, snapshot>>
-----------------------------------------------------------------------------
(* The owner's commands: the room first, then the others are told.         *)
MuteRoom(o, p, value) ==
    /\ Move(o, "serving", "muting")
    /\ SetMuted(TheRoom, o, p, value)
    /\ Hold(o, p, value)
    /\ UNCHANGED <<registered, snapshot, queue, closed, view, overlooked>>

AnnounceMuted(o) ==
    /\ Move(o, "muting", "serving")
    /\ Broadcast(Message("participant_muted", o))
    /\ Drop(o)
    /\ UNCHANGED <<roomVars, registered, snapshot, overlooked>>

RemoveFromRoom(o, p) ==
    /\ Move(o, "serving", "taking")
    /\ RemoveParticipant(TheRoom, o, p)
    /\ Hold(o, p, IsMuted(p))
    /\ UNCHANGED <<registered, snapshot, queue, closed, view, overlooked>>

\* hub.Take and CloseWithStatus.
HubTake(o) ==
    /\ Move(o, "taking", "removing")
    /\ registered' = registered \ {holds[o].id}
    /\ CloseIf(holds[o].id = Viewer /\ Viewer \in registered)
    /\ UNCHANGED <<roomVars, holds, snapshot, overlooked>>

AnnounceRemoved(o) ==
    /\ Move(o, "removing", "serving")
    /\ Broadcast(Message("participant_removed", o))
    /\ Drop(o)
    /\ UNCHANGED <<roomVars, registered, snapshot, overlooked>>

\* An answer, a pong or an error of Viewer's handler.  With a full queue it is
\* dropped and nothing else happens: the result of Send is not looked at.
Reply ==
    /\ stage[Viewer] = "serving" /\ ~closed
    /\ ~Full
    /\ Send([type |-> "other"])
    /\ UNCHANGED <<roomVars, stage, holds, registered, snapshot, closed, view, overlooked>>

\* Hub.SendTo, with an offer or a candidate of Viewer's peer, which HubRemove closes.
SendTo ==
    /\ stage[Viewer] \in {"serving", "muting", "taking", "removing", "returning"}
    /\ Broadcast([type |-> "other"])
    /\ UNCHANGED <<roomVars, stage, holds, registered, snapshot, overlooked>>
-----------------------------------------------------------------------------
(* The read loop returns, by a leave message or a failed read; disconnect. *)
Return(p) ==
    /\ Move(p, "serving", "returning")
    /\ CloseIf(p = Viewer)
    /\ UNCHANGED <<roomVars, holds, registered, snapshot, overlooked>>

HubRemove(p) ==
    /\ \/ Move(p, "returning", "leaving") /\ p \in registered
       \/ Move(p, "returning", "done") /\ p \notin registered
    /\ registered' = registered \ {p}
    /\ CloseIf(p = Viewer)
    /\ Drop(p)
    /\ UNCHANGED <<roomVars, snapshot, overlooked>>

LeaveRoom(p) ==
    /\ Move(p, "leaving", "left")
    /\ Leave(TheRoom, p)
    /\ Hold(p, IF theRoom.owner = p /\ Exists(TheRoom)' THEN rooms'[TheRoom].owner
                                                       ELSE Nobody, FALSE)
    /\ UNCHANGED <<registered, snapshot, queue, closed, view, overlooked>>

LeaveFails(p) ==
    /\ Move(p, "leaving", "done")
    /\ ~GetParticipant(TheRoom, p)
    /\ UNCHANGED <<roomVars, holds, registered, snapshot, queue, closed, view, overlooked>>

AnnounceLeft_AlwaysOwner(p) ==
    /\ Move(p, "left", "succession")
    /\ Broadcast([type |-> "participant_left", id |-> p, muted |-> FALSE])
    /\ UNCHANGED <<roomVars, holds, registered, snapshot, overlooked>>

AnnounceLeft_Silent(p) ==
    /\ Move(p, "left", IF holds[p].id = Nobody THEN "done" ELSE "succession")
    /\ UNCHANGED <<roomVars, holds, registered, snapshot, queue, closed, view, overlooked>>

AnnounceLeft_NoSuccession(p) ==
    /\ Move(p, "left", "done")
    /\ Broadcast([type |-> "participant_left", id |-> p, muted |-> FALSE])
    /\ UNCHANGED <<roomVars, holds, registered, snapshot, overlooked>>

AnnounceLeft(p) ==
    /\ Move(p, "left", IF holds[p].id = Nobody THEN "done" ELSE "succession")
    /\ Broadcast([type |-> "participant_left", id |-> p, muted |-> FALSE])
    /\ UNCHANGED <<roomVars, holds, registered, snapshot, overlooked>>

AnnounceOwner(p) ==
    /\ Move(p, "succession", "done")
    /\ Broadcast(Message("owner_changed", p))
    /\ Drop(p)
    /\ UNCHANGED <<roomVars, registered, snapshot, overlooked>>
-----------------------------------------------------------------------------
(* The page: handleSignal on the next message.                             *)
upsertParticipant_Known(page, m) ==
    IF m.id \notin page.members THEN page
    ELSE [page EXCEPT !.muted = IF m.muted THEN @ \cup {m.id} ELSE @ \ {m.id}]

upsertParticipant(page, m) ==
    [page EXCEPT !.members = @ \cup {m.id},
                 !.muted = IF m.muted THEN @ \cup {m.id} ELSE @ \ {m.id}]

Shown(page, m) ==
    CASE m.type = "room_snapshot" -> m.page
      [] m.type \in {"participant_connected", "participant_muted"} ->
            upsertParticipant(page, m)
      [] m.type \in {"participant_left", "participant_removed"} ->
            [page EXCEPT !.members = @ \ {m.id}, !.muted = @ \ {m.id}]
      [] m.type = "owner_changed" -> [page EXCEPT !.owner = m.id]
      [] m.type = "other" -> page

handleSignal ==
    /\ ~closed /\ queue # <<>>
    /\ queue' = Tail(queue)
    /\ view' = Shown(view, Head(queue))
    /\ UNCHANGED <<roomVars, stage, holds, registered, snapshot, closed, overlooked>>
-----------------------------------------------------------------------------
\* What the handler of p does by itself, once it has something to do.
Handle(p) ==
    \/ HubAdd(p) \/ OtherSnapshot(p) \/ AnnounceConnected(p)
    \/ p = Viewer /\ (SnapshotRoom \/ SnapshotMembers \/ SnapshotSend \/ SnapshotFails)
    \/ AnnounceMuted(p) \/ HubTake(p) \/ AnnounceRemoved(p)
    \/ HubRemove(p) \/ LeaveRoom(p) \/ LeaveFails(p)
    \/ AnnounceLeft(p) \/ AnnounceOwner(p)

\* What the browser of p asks for, or not.
Receive(p) ==
    \/ HTTPEnter(p) \/ Authenticate(p) \/ Return(p)
    \/ \E q \in ParticipantID : RemoveFromRoom(p, q)
    \/ \E q \in ParticipantID, value \in BOOLEAN : MuteRoom(p, q, value)
    \/ p = Viewer /\ Reply

RosterNext == handleSignal \/ SendTo \/ \E p \in ParticipantID : Handle(p) \/ Receive(p)

RosterSpec == RosterInit /\ [][RosterNext]_vars

\* Goroutines run, and the page reads what is queued for it.
FairRosterSpec ==
    /\ RosterSpec
    /\ \A p \in ParticipantID : WF_vars(Handle(p))
    /\ WF_vars(handleSignal)
-----------------------------------------------------------------------------
Page == [owner : ParticipantID \cup {Nobody},
         members : SUBSET ParticipantID,
         muted : SUBSET ParticipantID]

Event == [type : {"participant_connected", "participant_muted", "participant_left",
                  "participant_removed", "owner_changed"},
          id : ParticipantID, muted : BOOLEAN]

(* The values of the handlers' state, the queue and the page: no event     *)
(* goes out without a participant, and the queue keeps to its capacity.    *)
RosterTypeOK ==
    /\ RoomsTypeOK
    /\ stage \in [ParticipantID ->
                    {"idle", "authenticated", "added", "reading", "sending",
                     "announcing", "serving", "muting", "taking", "removing",
                     "returning", "leaving", "left", "succession", "done"}]
    /\ holds \in [ParticipantID -> [id : ParticipantID \cup {Nobody}, muted : BOOLEAN]]
    /\ registered \subseteq ParticipantID
    /\ snapshot \in Page
    /\ queue \in Seq(Event \cup [type : {"room_snapshot"}, page : Page]
                           \cup [type : {"other"}])
    /\ Len(queue) <= QueueSize
    /\ closed \in BOOLEAN
    /\ view \in Page
    /\ overlooked \subseteq ParticipantID

\* A member whose handler has announced it and still serves it.
Present(p) ==
    /\ GetParticipant(TheRoom, p)
    /\ stage[p] \in {"serving", "muting", "taking", "removing"}

(* README.md:34: joins are pushed to everybody.  A page that has read what *)
(* is queued for it shows every member that is being served, whoever came, *)
(* left or was removed before, after and during its snapshot, and however  *)
(* full its queue has been; all but those its snapshot has overlooked.     *)
EverybodyShown ==
    (stage[Viewer] = "serving" /\ ~closed /\ queue = <<>>) =>
        \A p \in ParticipantID \ overlooked : Present(p) => p \in view.members

(* Who connects once the page has its snapshot on the way is shown.        *)
LaterArrivalsShown ==
    \A p \in ParticipantID :
        (stage[Viewer] = "serving" /\ stage[p] = "announcing")
            ~> (p \in view.members \/ closed)

(* Who leaves from then on is taken off the page.                          *)
DeparturesShown ==
    \A p \in ParticipantID :
        (stage[Viewer] = "serving" /\ stage[p] = "left")
            ~> (p \notin view.members \/ closed)

(* Who becomes the owner by a departure is shown as the owner, so that the *)
(* next in line gets to know that the commands are now theirs.             *)
SuccessionShown ==
    \A p, q \in ParticipantID :
        (stage[Viewer] = "serving" /\ stage[p] = "left" /\ holds[p].id = q)
            ~> (view.owner = q \/ closed)

\* No handler is on its way, and the page has read everything.
Settled ==
    /\ \A p \in ParticipantID : stage[p] \in {"idle", "serving", "done"}
    /\ stage[Viewer] = "serving" /\ ~closed
    /\ queue = <<>>

(* README.md:5: "losing the WebSocket connection removes that              *)
(* participant", and README.md:34 pushes leaves and owner actions to       *)
(* everybody: at rest the page shows nobody who is not in the room.        *)
NoGhosts == Settled => view.members \subseteq theRoom.participants
=============================================================================
