--------------------------- MODULE SessionsProofs ---------------------------
(***************************************************************************)
(* Proofs about Sessions, for any number of rooms, participants and        *)
(* connections: the hub and the handlers agree, and every step of the      *)
(* handlers is a step of Rooms, so all that RoomsProofs proves of the      *)
(* manager alone holds when handlers race on it.                           *)
(***************************************************************************)
EXTENDS Sessions, RoomsProofs

ConnTypeOK ==
    /\ pc \in [Conn -> {"idle", "authenticated", "added", "serving", "offered",
                        "answering", "removing", "taking", "closing",
                        "dissolving", "takingRoom", "returning", "releasing",
                        "leaving", "done"}]
    /\ who \in [Conn -> Key \cup {NoClient}]
    /\ open \in [Conn -> BOOLEAN]
    /\ hub \in [Key -> Conn \cup {NoConn}]
    /\ closing \in [Conn -> SUBSET Conn]
    /\ target \in [Conn -> ParticipantID \cup {Nobody}]
    /\ peers \in [Key -> Conn \cup {NoConn}]
    /\ gone \subseteq ParticipantID

Identified == \A c \in Conn : pc[c] # "idle" => who[c] \in Key

TargetNamed ==
    \A c \in Conn : pc[c] \in {"removing", "taking"} => target[c] \in ParticipantID

ClosingInProgress ==
    \A c \in Conn : closing[c] # {} => pc[c] \in {"added", "closing"}

ConnInv ==
    /\ ConnTypeOK
    /\ Identified
    /\ TargetNamed
    /\ ClosingInProgress
    /\ HubHoldsLiveHandlers
    /\ UnregisteredIsBeingClosed
-----------------------------------------------------------------------------
LEMMA AuthenticateInv ==
    ASSUME ConnInv, NEW c \in Conn, NEW k \in Key, Authenticate(c, k)
    PROVE  ConnInv'
BY SessionsAssumption
   DEF Authenticate, ConnInv, ConnTypeOK, Identified, TargetNamed, ClosingInProgress,
       HubHoldsLiveHandlers, UnregisteredIsBeingClosed, Registered, Step, Key

LEMMA HubAddInv ==
    ASSUME ConnInv, NEW c \in Conn, HubAdd(c)
    PROVE  ConnInv'
BY SessionsAssumption
   DEF HubAdd, ConnInv, ConnTypeOK, Identified, TargetNamed, ClosingInProgress,
       HubHoldsLiveHandlers, UnregisteredIsBeingClosed, Registered, Step, Key

LEMMA CloseTakenInv ==
    ASSUME ConnInv, NEW c \in Conn, NEW d \in Conn, CloseTaken(c, d)
    PROVE  ConnInv'
BY SessionsAssumption
   DEF CloseTaken, ConnInv, ConnTypeOK, Identified, TargetNamed, ClosingInProgress,
       HubHoldsLiveHandlers, UnregisteredIsBeingClosed, Registered, Step, Key

LEMMA SendSnapshotInv ==
    ASSUME ConnInv, NEW c \in Conn, SendSnapshot(c)
    PROVE  ConnInv'
BY SessionsAssumption
   DEF SendSnapshot, ConnInv, ConnTypeOK, Identified, TargetNamed, ClosingInProgress,
       HubHoldsLiveHandlers, UnregisteredIsBeingClosed, Registered, Step, Key

LEMMA ReadFailsInv ==
    ASSUME ConnInv, NEW c \in Conn, ReadFails(c)
    PROVE  ConnInv'
BY SessionsAssumption
   DEF ReadFails, ConnInv, ConnTypeOK, Identified, TargetNamed, ClosingInProgress,
       HubHoldsLiveHandlers, UnregisteredIsBeingClosed, Registered, Step, Key

LEMMA ReadLeaveInv ==
    ASSUME ConnInv, NEW c \in Conn, ReadLeave(c)
    PROVE  ConnInv'
BY SessionsAssumption
   DEF ReadLeave, ConnInv, ConnTypeOK, Identified, TargetNamed, ClosingInProgress,
       HubHoldsLiveHandlers, UnregisteredIsBeingClosed, Registered, Step, Key

LEMMA OfferClosePeerInv ==
    ASSUME ConnInv, NEW c \in Conn, OfferClosePeer(c)
    PROVE  ConnInv'
BY SessionsAssumption
   DEF OfferClosePeer, ConnInv, ConnTypeOK, Identified, TargetNamed, ClosingInProgress,
       HubHoldsLiveHandlers, UnregisteredIsBeingClosed, Registered, Step, Key

LEMMA OfferInsertPeerInv ==
    ASSUME ConnInv, NEW c \in Conn, OfferInsertPeer(c)
    PROVE  ConnInv'
BY SessionsAssumption
   DEF OfferInsertPeer, ConnInv, ConnTypeOK, Identified, TargetNamed, ClosingInProgress,
       HubHoldsLiveHandlers, UnregisteredIsBeingClosed, Registered, Step, Key

LEMMA OfferRefusedInv ==
    ASSUME ConnInv, NEW c \in Conn, OfferRefused(c)
    PROVE  ConnInv'
BY SessionsAssumption
   DEF OfferRefused, ConnInv, ConnTypeOK, Identified, TargetNamed, ClosingInProgress,
       HubHoldsLiveHandlers, UnregisteredIsBeingClosed, Registered, Step, Key

LEMMA OfferAnswerInv ==
    ASSUME ConnInv, NEW c \in Conn, OfferAnswer(c)
    PROVE  ConnInv'
BY SessionsAssumption
   DEF OfferAnswer, ConnInv, ConnTypeOK, Identified, TargetNamed, ClosingInProgress,
       HubHoldsLiveHandlers, UnregisteredIsBeingClosed, Registered, Step, Key

LEMMA RemoveFromRoomInv ==
    ASSUME ConnInv, NEW c \in Conn, NEW p \in ParticipantID, RemoveFromRoom(c, p)
    PROVE  ConnInv'
BY SessionsAssumption
   DEF RemoveFromRoom, ConnInv, ConnTypeOK, Identified, TargetNamed, ClosingInProgress,
       HubHoldsLiveHandlers, UnregisteredIsBeingClosed, Registered, Step, Key

LEMMA RemovePeerInv ==
    ASSUME ConnInv, NEW c \in Conn, RemovePeer(c)
    PROVE  ConnInv'
BY SessionsAssumption
   DEF RemovePeer, ConnInv, ConnTypeOK, Identified, TargetNamed, ClosingInProgress,
       HubHoldsLiveHandlers, UnregisteredIsBeingClosed, Registered, Step, Key

LEMMA HubTakeInv ==
    ASSUME ConnInv, NEW c \in Conn, HubTake(c)
    PROVE  ConnInv'
<1>1. PICK k \in Key : /\ closing' = [closing EXCEPT ![c] = {hub[k]} \ {NoConn}]
                       /\ hub' = [hub EXCEPT ![k] = NoConn]
    <2>1. who[c] \in Key /\ target[c] \in ParticipantID
        BY DEF HubTake, ConnInv, ConnTypeOK, Identified, TargetNamed, Step
    <2>2. <<who[c][1], target[c]>> \in Key
        BY <2>1 DEF Key
    <2> QED BY <2>2 DEF HubTake
<1>2. /\ pc[c] = "taking"
      /\ pc' = [pc EXCEPT ![c] = "closing"]
      /\ target' = [target EXCEPT ![c] = Nobody]
      /\ UNCHANGED <<who, open, peers, gone>>
    BY DEF HubTake, Step
<1>3. ConnTypeOK' /\ Identified' /\ TargetNamed'
    BY <1>1, <1>2 DEF ConnInv, ConnTypeOK, Identified, TargetNamed
<1>4. ClosingInProgress'
    BY <1>1, <1>2 DEF ConnInv, ConnTypeOK, ClosingInProgress
<1>5. HubHoldsLiveHandlers'
    BY <1>1, <1>2, SessionsAssumption
       DEF ConnInv, ConnTypeOK, HubHoldsLiveHandlers, Registered
<1>6. UnregisteredIsBeingClosed'
    <2> SUFFICES ASSUME NEW e \in Conn, Registered(e)', hub'[who'[e]] # e, open'[e]
                 PROVE  \E d \in Conn : e \in closing'[d]
        BY DEF UnregisteredIsBeingClosed
    <2>1. Registered(e) /\ who[e] \in Key /\ open[e]
        BY <1>2 DEF ConnInv, ConnTypeOK, Identified, Registered
    <2>2. closing[c] = {}
        BY <1>2 DEF ConnInv, ConnTypeOK, ClosingInProgress
    <2>3. CASE hub[who[e]] = e
        <3>1. who[e] = k /\ hub[k] = e
            BY <1>1, <1>2, <2>1, <2>3 DEF ConnInv, ConnTypeOK
        <3>2. e \in closing'[c]
            BY <1>1, <3>1, SessionsAssumption DEF ConnInv, ConnTypeOK
        <3> QED BY <3>2
    <2>4. CASE hub[who[e]] # e
        <3>1. PICK d \in Conn : e \in closing[d]
            BY <2>1, <2>4 DEF ConnInv, UnregisteredIsBeingClosed
        <3>2. e \in closing'[d]
            BY <3>1, <2>2, <1>1 DEF ConnInv, ConnTypeOK
        <3> QED BY <3>2
    <2> QED BY <2>3, <2>4
<1> QED BY <1>3, <1>4, <1>5, <1>6 DEF ConnInv

LEMMA DissolveRoomInv ==
    ASSUME ConnInv, NEW c \in Conn, DissolveRoom(c)
    PROVE  ConnInv'
BY SessionsAssumption
   DEF DissolveRoom, ConnInv, ConnTypeOK, Identified, TargetNamed, ClosingInProgress,
       HubHoldsLiveHandlers, UnregisteredIsBeingClosed, Registered, Step, Key

LEMMA CloseRoomInv ==
    ASSUME ConnInv, NEW c \in Conn, CloseRoom(c)
    PROVE  ConnInv'
BY SessionsAssumption
   DEF CloseRoom, ConnInv, ConnTypeOK, Identified, TargetNamed, ClosingInProgress,
       HubHoldsLiveHandlers, UnregisteredIsBeingClosed, Registered, Step, Key

LEMMA HubTakeRoomInv ==
    ASSUME ConnInv, NEW c \in Conn, HubTakeRoom(c)
    PROVE  ConnInv'
BY SessionsAssumption
   DEF HubTakeRoom, ConnInv, ConnTypeOK, Identified, TargetNamed, ClosingInProgress,
       HubHoldsLiveHandlers, UnregisteredIsBeingClosed, Registered, Step, Key

LEMMA CommandDoneInv ==
    ASSUME ConnInv, NEW c \in Conn, CommandDone(c)
    PROVE  ConnInv'
BY SessionsAssumption
   DEF CommandDone, ConnInv, ConnTypeOK, Identified, TargetNamed, ClosingInProgress,
       HubHoldsLiveHandlers, UnregisteredIsBeingClosed, Registered, Step, Key

LEMMA HubRemoveInv ==
    ASSUME ConnInv, NEW c \in Conn, HubRemove(c)
    PROVE  ConnInv'
BY SessionsAssumption
   DEF HubRemove, ConnInv, ConnTypeOK, Identified, TargetNamed, ClosingInProgress,
       HubHoldsLiveHandlers, UnregisteredIsBeingClosed, Registered, Step, Key

LEMMA HubRemoveRefusedInv ==
    ASSUME ConnInv, NEW c \in Conn, HubRemoveRefused(c)
    PROVE  ConnInv'
BY SessionsAssumption
   DEF HubRemoveRefused, ConnInv, ConnTypeOK, Identified, TargetNamed, ClosingInProgress,
       HubHoldsLiveHandlers, UnregisteredIsBeingClosed, Registered, Step, Key

LEMMA ReleasePeerInv ==
    ASSUME ConnInv, NEW c \in Conn, ReleasePeer(c)
    PROVE  ConnInv'
BY SessionsAssumption
   DEF ReleasePeer, ConnInv, ConnTypeOK, Identified, TargetNamed, ClosingInProgress,
       HubHoldsLiveHandlers, UnregisteredIsBeingClosed, Registered, Step, Key

LEMMA LeaveRoomInv ==
    ASSUME ConnInv, NEW c \in Conn, LeaveRoom(c)
    PROVE  ConnInv'
BY SessionsAssumption
   DEF LeaveRoom, ConnInv, ConnTypeOK, Identified, TargetNamed, ClosingInProgress,
       HubHoldsLiveHandlers, UnregisteredIsBeingClosed, Registered, Step, Key

LEMMA LoseInv ==
    ASSUME ConnInv, NEW c \in Conn, Lose(c)
    PROVE  ConnInv'
BY SessionsAssumption
   DEF Lose, ConnInv, ConnTypeOK, Identified, TargetNamed, ClosingInProgress,
       HubHoldsLiveHandlers, UnregisteredIsBeingClosed, Registered, Step, Key

LEMMA ClosePageInv ==
    ASSUME ConnInv, NEW p \in ParticipantID, ClosePage(p)
    PROVE  ConnInv'
BY DEF ClosePage, ConnInv, ConnTypeOK, Identified, TargetNamed, ClosingInProgress,
       HubHoldsLiveHandlers, UnregisteredIsBeingClosed, Registered

LEMMA PeerFailsInv ==
    ASSUME ConnInv, NEW k \in Key, PeerFails(k)
    PROVE  ConnInv'
BY DEF PeerFails, ConnInv, ConnTypeOK, Identified, TargetNamed, ClosingInProgress,
       HubHoldsLiveHandlers, UnregisteredIsBeingClosed, Registered

LEMMA UnchangedConnInv ==
    ASSUME ConnInv, UNCHANGED connVars
    PROVE  ConnInv'
BY DEF connVars, ConnInv, ConnTypeOK, Identified, TargetNamed, ClosingInProgress,
       HubHoldsLiveHandlers, UnregisteredIsBeingClosed, Registered

LEMMA ConnInvInit == SessionsInit => ConnInv
BY SessionsAssumption
   DEF SessionsInit, ConnInv, ConnTypeOK, Identified, TargetNamed, ClosingInProgress,
       HubHoldsLiveHandlers, UnregisteredIsBeingClosed, Registered

LEMMA ConnInvStep == ConnInv /\ [SessionsNext]_vars => ConnInv'
<1> SUFFICES ASSUME ConnInv, [SessionsNext]_vars
             PROVE  ConnInv'
    OBVIOUS
<1>1. CASE UNCHANGED vars
    BY <1>1, UnchangedConnInv DEF vars
<1>2. ASSUME NEW r \in RoomID, NEW p \in ParticipantID,
             HTTPCreate(r, p) \/ HTTPJoin(r, p)
      PROVE  ConnInv'
    BY <1>2, UnchangedConnInv DEF HTTPCreate, HTTPJoin
<1>3. ASSUME NEW c \in Conn, Handle(c)
      PROVE  ConnInv'
    BY <1>3, HubAddInv, CloseTakenInv, SendSnapshotInv, ReadFailsInv,
       OfferInsertPeerInv, OfferRefusedInv, OfferAnswerInv, RemovePeerInv, HubTakeInv,
       CloseRoomInv, HubTakeRoomInv, CommandDoneInv, HubRemoveInv,
       HubRemoveRefusedInv, ReleasePeerInv, LeaveRoomInv
       DEF Handle
<1>4. ASSUME NEW c \in Conn, Receive(c)
      PROVE  ConnInv'
    BY <1>4, AuthenticateInv, ReadLeaveInv, OfferClosePeerInv, RemoveFromRoomInv,
       DissolveRoomInv
       DEF Receive
<1>5. ASSUME NEW c \in Conn, Lose(c)
      PROVE  ConnInv'
    BY <1>5, LoseInv
<1>6. ASSUME NEW p \in ParticipantID, ClosePage(p)
      PROVE  ConnInv'
    BY <1>6, ClosePageInv
<1>7. ASSUME NEW k \in Key, PeerFails(k)
      PROVE  ConnInv'
    BY <1>7, PeerFailsInv
<1> QED BY <1>1, <1>2, <1>3, <1>4, <1>5, <1>6, <1>7 DEF SessionsNext
-----------------------------------------------------------------------------
(* A command that a handler runs on the room manager is one of the         *)
(* manager's own operations, on the room and participant it authenticated  *)
(* for.                                                                    *)
LEMMA SessionsStepIsRoomsStep ==
    ConnInv /\ [SessionsNext]_vars => [RoomsNext]_roomVars
<1> SUFFICES ASSUME ConnInv, [SessionsNext]_vars
             PROVE  [RoomsNext]_roomVars
    OBVIOUS
<1>1. CASE UNCHANGED vars
    BY <1>1 DEF vars
<1>2. ASSUME NEW r \in RoomID, NEW p \in ParticipantID,
             HTTPCreate(r, p) \/ HTTPJoin(r, p)
      PROVE  RoomsNext
    BY <1>2 DEF HTTPCreate, HTTPJoin, RoomsNext
<1>3. ASSUME NEW c \in Conn, pc[c] # "idle"
      PROVE  who[c][1] \in RoomID /\ who[c][2] \in ParticipantID
    BY <1>3 DEF ConnInv, Identified, Key
<1>4. ASSUME NEW c \in Conn, Handle(c)
      PROVE  [RoomsNext]_roomVars
    <2>1. CASE LeaveRoom(c)
        BY <2>1, <1>3 DEF LeaveRoom, Step, RoomsNext
    <2>2. CASE ~LeaveRoom(c)
        BY <2>2, <1>4
           DEF Handle, HubAdd, CloseTaken, SendSnapshot, ReadFails, OfferInsertPeer,
               OfferRefused, OfferAnswer, RemovePeer, HubTake, CloseRoom, HubTakeRoom,
               CommandDone, HubRemove, HubRemoveRefused, ReleasePeer
    <2> QED BY <2>1, <2>2
<1>5. ASSUME NEW c \in Conn, Receive(c)
      PROVE  [RoomsNext]_roomVars
    <2>1. CASE \E p \in ParticipantID : RemoveFromRoom(c, p)
        BY <2>1, <1>3 DEF RemoveFromRoom, Step, RoomsNext
    <2>2. CASE DissolveRoom(c)
        BY <2>2, <1>3 DEF DissolveRoom, Step, RoomsNext
    <2>3. CASE (\E k \in Key : Authenticate(c, k)) \/ ReadLeave(c) \/ OfferClosePeer(c)
        BY <2>3 DEF Authenticate, ReadLeave, OfferClosePeer
    <2> QED BY <2>1, <2>2, <2>3, <1>5 DEF Receive
<1>6. ASSUME NEW c \in Conn, Lose(c)
      PROVE  UNCHANGED roomVars
    BY <1>6 DEF Lose
<1>7. ASSUME NEW p \in ParticipantID, ClosePage(p)
      PROVE  UNCHANGED roomVars
    BY <1>7 DEF ClosePage
<1>8. ASSUME NEW k \in Key, PeerFails(k)
      PROVE  UNCHANGED roomVars
    BY <1>8 DEF PeerFails
<1> QED BY <1>1, <1>2, <1>4, <1>5, <1>6, <1>7, <1>8 DEF SessionsNext
-----------------------------------------------------------------------------
(***************************************************************************)
(* MemberIsServed says less than is needed to keep it: what a member has   *)
(* is a servant, a handler that is about to register, is registered, or    *)
(* has been and is about to leave the room for them.  Somebody else takes  *)
(* a servant out of the hub only when its participant is not a member any  *)
(* more, and IDs are not issued twice, so that this stays so.              *)
(***************************************************************************)
Servant(c, k) ==
    who[c] = k /\ (pc[c] \in {"authenticated", "releasing", "leaving"} \/ hub[k] = c)

Known ==
    /\ \A r \in RoomID : Exists(r) => r \in created
    /\ \A c \in Conn : pc[c] = "idle" => who[c] = NoClient
    /\ \A c \in Conn : pc[c] # "idle" => who[c][1] \in created /\ who[c][2] \in issued

\* Who is being taken out of the hub has been removed, or their room has.
TakenAreGone ==
    /\ \A c \in Conn : pc[c] \in {"removing", "taking"} =>
            target[c] \in issued /\ ~GetParticipant(who[c][1], target[c])
    /\ \A c \in Conn : pc[c] \in {"dissolving", "takingRoom"} => ~Exists(who[c][1])

EveryMemberServed ==
    \A k \in Key : Member(k) /\ (\E c \in Conn : who[c] = k) => \E d \in Conn : Servant(d, k)

\* p is in room r of the map R.
Among(R, r, p) == R[r] # NoRoom /\ p \in R[r].participants

ServedInv == RoomsInv /\ ConnInv /\ Known /\ TakenAreGone /\ EveryMemberServed

(* The room manager's part of a step.                                      *)
LEMMA RoomSide ==
    ASSUME ServedInv, [SessionsNext]_vars
    PROVE  /\ RoomsInv' /\ ConnInv'
           /\ issued \subseteq issued' /\ created \subseteq created'
           /\ \A r \in RoomID : /\ Exists(r)' /\ ~Exists(r) => r \in created' \ created
                                /\ \A p \in issued : GetParticipant(r, p)' => GetParticipant(r, p)
           /\ \A r \in RoomID, p \in ParticipantID : GetParticipant(r, p) => p \in issued
<1>1. [RoomsNext]_roomVars
    BY SessionsStepIsRoomsStep DEF ServedInv
<1>2. ASSUME NEW r \in RoomID, NEW p \in ParticipantID, GetParticipant(r, p)
      PROVE  p \in issued
    BY <1>2 DEF ServedInv, RoomsInv, GetParticipant
<1>3. RoomsInv' /\ ConnInv'
    BY <1>1, RoomsInvStep, ConnInvStep DEF ServedInv
<1>4. ASSUME NEW r \in RoomID
      PROVE  /\ issued \subseteq issued' /\ created \subseteq created'
             /\ Exists(r)' /\ ~Exists(r) => r \in created' \ created
             /\ \A p \in issued : GetParticipant(r, p)' => GetParticipant(r, p)
    BY <1>1, NothingReturns DEF ServedInv
<1>5. issued \subseteq issued' /\ created \subseteq created'
    BY <1>1 DEF RoomsNext, Create, Join, Leave, RemoveParticipant, SetMuted, Dissolve, roomVars
<1> QED BY <1>2, <1>3, <1>4, <1>5

(* A step that takes the handler of c from one place to another keeps the  *)
(* invariant when the command that c is at is well founded and no member   *)
(* is left without a servant.                                              *)
LEMMA MoveInv ==
    ASSUME ServedInv, [SessionsNext]_vars, NEW c \in Conn, NEW to,
           pc[c] # "idle", to # "idle", pc' = [pc EXCEPT ![c] = to], who' = who,
           \A d \in Conn \ {c} : target'[d] = target[d],
           to \in {"removing", "taking"} => target'[c] \in issued' /\ ~Among(rooms', who[c][1], target'[c]),
           to \in {"dissolving", "takingRoom"} => rooms'[who[c][1]] = NoRoom,
           \A k \in Key, d \in Conn :
                Servant(d, k) /\ Member(k)' => \E e \in Conn : Servant(e, k)'
    PROVE  ServedInv'
<1>1. /\ RoomsInv' /\ ConnInv'
      /\ issued \subseteq issued' /\ created \subseteq created'
      /\ \A r \in RoomID : /\ Exists(r)' /\ ~Exists(r) => r \in created' \ created
                           /\ \A p \in issued : GetParticipant(r, p)' => GetParticipant(r, p)
    BY RoomSide
<1>2. ASSUME NEW d \in Conn, pc[d] # "idle"
      PROVE  /\ who[d] \in Key /\ who[d][1] \in RoomID
             /\ who[d][1] \in created /\ who[d][2] \in issued
    BY <1>2 DEF ServedInv, ConnInv, Identified, Key, Known
<1>3. \A d \in Conn : pc'[d] = IF d = c THEN to ELSE pc[d]
    BY DEF ServedInv, ConnInv, ConnTypeOK
<1>4. Known'
    BY <1>1, <1>3 DEF ServedInv, Known
<1>5. TakenAreGone'
    <2>1. ASSUME NEW d \in Conn, pc'[d] \in {"removing", "taking"}
          PROVE  target'[d] \in issued' /\ ~Among(rooms', who'[d][1], target'[d])
        <3>1. CASE d = c
            BY <3>1, <1>3, <2>1
        <3>2. CASE d # c
            <4>1. target[d] \in issued /\ ~GetParticipant(who[d][1], target[d])
                BY <3>2, <1>3, <2>1 DEF ServedInv, TakenAreGone
            <4> QED BY <4>1, <3>2, <1>1, <1>2, <1>3, <2>1 DEF Among, GetParticipant, Exists
        <3> QED BY <3>1, <3>2
    <2>2. ASSUME NEW d \in Conn, pc'[d] \in {"dissolving", "takingRoom"}
          PROVE  rooms'[who'[d][1]] = NoRoom
        BY <1>1, <1>2, <1>3, <2>2 DEF ServedInv, TakenAreGone, Exists
    <2> QED BY <2>1, <2>2 DEF TakenAreGone, Among, GetParticipant, Exists
<1>6. EveryMemberServed'
    <2> SUFFICES ASSUME NEW k \in Key, Member(k)', NEW d \in Conn, who[d] = k
                 PROVE  \E e \in Conn : Servant(e, k)'
        BY DEF EveryMemberServed
    <2>1. k # NoClient /\ k[1] \in RoomID
        BY SessionsAssumption DEF Key
    <2>2. k[2] \in issued
        BY <2>1, <1>2 DEF ServedInv, Known
    <2>3. Member(k)
        BY <1>1, <2>1, <2>2 DEF Member
    <2>4. PICK e \in Conn : Servant(e, k)
        BY <2>3 DEF ServedInv, EveryMemberServed
    <2> QED BY <2>4
<1> QED BY <1>1, <1>4, <1>5, <1>6 DEF ServedInv

(* A step that moves no handler and leaves the hub alone keeps it, too.    *)
LEMMA StillInv ==
    ASSUME ServedInv, [SessionsNext]_vars, UNCHANGED <<pc, who, hub, target>>
    PROVE  ServedInv'
<1>1. /\ RoomsInv' /\ ConnInv'
      /\ issued \subseteq issued' /\ created \subseteq created'
      /\ \A r \in RoomID : /\ Exists(r)' /\ ~Exists(r) => r \in created' \ created
                           /\ \A p \in issued : GetParticipant(r, p)' => GetParticipant(r, p)
    BY RoomSide
<1>2. ASSUME NEW d \in Conn, pc[d] # "idle"
      PROVE  /\ who[d] \in Key /\ who[d][1] \in RoomID
             /\ who[d][1] \in created /\ who[d][2] \in issued
    BY <1>2 DEF ServedInv, ConnInv, Identified, Key, Known
<1>3. Known'
    BY <1>1 DEF ServedInv, Known
<1>4. TakenAreGone'
    <2>1. ASSUME NEW d \in Conn, pc[d] \in {"removing", "taking"}
          PROVE  target[d] \in issued' /\ ~(GetParticipant(who[d][1], target[d])')
        <3>1. target[d] \in issued /\ ~GetParticipant(who[d][1], target[d])
            BY <2>1 DEF ServedInv, TakenAreGone
        <3> QED BY <3>1, <1>1, <1>2, <2>1
    <2>2. ASSUME NEW d \in Conn, pc[d] \in {"dissolving", "takingRoom"}
          PROVE  ~(Exists(who[d][1])')
        BY <1>1, <1>2, <2>2 DEF ServedInv, TakenAreGone
    <2> QED BY <2>1, <2>2 DEF TakenAreGone, GetParticipant, Exists
<1>5. EveryMemberServed'
    <2> SUFFICES ASSUME NEW k \in Key, Member(k)', NEW d \in Conn, who[d] = k
                 PROVE  \E e \in Conn : Servant(e, k)'
        BY DEF EveryMemberServed
    <2>1. k # NoClient /\ k[1] \in RoomID
        BY SessionsAssumption DEF Key
    <2>2. k[2] \in issued
        BY <2>1, <1>2 DEF ServedInv, Known
    <2>3. Member(k)
        BY <1>1, <2>1, <2>2 DEF Member
    <2>4. PICK e \in Conn : Servant(e, k)
        BY <2>3 DEF ServedInv, EveryMemberServed
    <2> QED BY <2>4 DEF Servant
<1> QED BY <1>1, <1>3, <1>4, <1>5 DEF ServedInv

(* authenticate: the handler now serves the member that it names.          *)
LEMMA AuthenticateServed ==
    ASSUME ServedInv, [SessionsNext]_vars, NEW c \in Conn, NEW k \in Key, Authenticate(c, k)
    PROVE  ServedInv'
<1>1. /\ RoomsInv' /\ ConnInv'
      /\ \A r \in RoomID, p \in ParticipantID : GetParticipant(r, p) => p \in issued
    BY RoomSide
<1>2. /\ pc[c] = "idle" /\ who[c] = NoClient /\ UNCHANGED <<rooms, created, issued, hub, target>>
      /\ \A d \in Conn : pc'[d] = IF d = c THEN "authenticated" ELSE pc[d]
      /\ \A d \in Conn : who'[d] = IF d = c THEN k ELSE who[d]
      /\ GetParticipant(k[1], k[2]) /\ k[1] \in RoomID /\ k[2] \in ParticipantID
    BY DEF Authenticate, Step, Member, roomVars, Key, ServedInv, ConnInv, ConnTypeOK, Known
<1>3. Known'
    BY <1>1, <1>2 DEF ServedInv, Known, Exists, GetParticipant
<1>4. TakenAreGone'
    BY <1>2 DEF ServedInv, TakenAreGone, Exists, GetParticipant
<1>5. EveryMemberServed'
    <2> SUFFICES ASSUME NEW l \in Key, Member(l)', NEW d \in Conn, who'[d] = l
                 PROVE  \E e \in Conn : Servant(e, l)'
        BY DEF EveryMemberServed
    <2>1. CASE l = k
        BY <2>1, <1>2 DEF Servant
    <2>2. CASE l # k
        <3>1. who[d] = l /\ Member(l)
            BY <2>2, <1>2 DEF Member, GetParticipant, Exists
        <3>2. PICK e \in Conn : Servant(e, l)
            BY <3>1 DEF ServedInv, EveryMemberServed
        <3>3. e # c
            BY <3>2, <1>2, SessionsAssumption DEF Servant
        <3> QED BY <3>2, <3>3, <1>2 DEF Servant
    <2> QED BY <2>1, <2>2
<1> QED BY <1>1, <1>3, <1>4, <1>5 DEF ServedInv

(* A handler that registers takes over from the one it replaces.           *)
LEMMA HubAddServed ==
    ASSUME ServedInv, [SessionsNext]_vars, NEW c \in Conn, HubAdd(c)
    PROVE  ServedInv'
<1>1. /\ pc[c] = "authenticated" /\ pc' = [pc EXCEPT ![c] = "added"] /\ who' = who
      /\ target' = target /\ hub' = [hub EXCEPT ![who[c]] = c] /\ who[c] \in Key
    BY DEF HubAdd, Step, ServedInv, ConnInv, Identified
<1>2. ASSUME NEW k \in Key, NEW d \in Conn, Servant(d, k)
      PROVE  \E e \in Conn : Servant(e, k)'
    <2>1. CASE k = who[c]
        BY <2>1, <1>1 DEF Servant, ServedInv, ConnInv, ConnTypeOK
    <2>2. CASE k # who[c]
        BY <2>2, <1>1, <1>2 DEF Servant, ServedInv, ConnInv, ConnTypeOK
    <2> QED BY <2>1, <2>2
<1> QED BY <1>1, <1>2, MoveInv

(* A handler that goes on without touching the hub serves as it did.       *)
LEMMA GoOnServed ==
    ASSUME ServedInv, [SessionsNext]_vars, NEW c \in Conn, NEW to,
           Registered(c) \/ pc[c] = "releasing",
           to \notin {"idle", "removing", "taking", "dissolving", "takingRoom"},
           pc[c] # "releasing" \/ to = "leaving",
           pc' = [pc EXCEPT ![c] = to], UNCHANGED <<who, hub, target>>
    PROVE  ServedInv'
<1>1. pc[c] # "idle" /\ pc[c] \notin {"authenticated", "leaving"}
    BY DEF Registered
<1>2. ASSUME NEW k \in Key, NEW d \in Conn, Servant(d, k)
      PROVE  Servant(d, k)'
    BY <1>1, <1>2 DEF Servant, ServedInv, ConnInv, ConnTypeOK
<1> QED BY <1>1, <1>2, MoveInv

(* removeParticipant: the member goes before its servant.                  *)
LEMMA RemoveFromRoomServed ==
    ASSUME ServedInv, [SessionsNext]_vars, NEW c \in Conn, NEW p \in ParticipantID,
           RemoveFromRoom(c, p)
    PROVE  ServedInv'
<1>1. /\ pc[c] = "serving" /\ pc' = [pc EXCEPT ![c] = "removing"] /\ who' = who
      /\ target' = [target EXCEPT ![c] = p] /\ hub' = hub
      /\ RemoveParticipant(who[c][1], who[c][2], p)
    BY DEF RemoveFromRoom, Step
<1>2. who[c][1] \in RoomID
    BY <1>1 DEF ServedInv, ConnInv, Identified, Key
<1>3. target'[c] = p /\ \A d \in Conn \ {c} : target'[d] = target[d]
    BY <1>1 DEF ServedInv, ConnInv, ConnTypeOK
<1>4. p \in issued' /\ ~Among(rooms', who[c][1], p)
    <2>1. p \in issued
        BY <1>1, <1>2, RoomSide DEF RemoveParticipant, ownerRoom, GetParticipant
    <2>2. p \notin rooms'[who[c][1]].participants
        BY <1>1, <1>2
           DEF RemoveParticipant, ownerRoom, Exists, Removed, ServedInv, RoomsInv, RoomsTypeOK, Room
    <2> QED BY <2>1, <2>2, <1>1 DEF RemoveParticipant, Among
<1>5. ASSUME NEW k \in Key, NEW d \in Conn, Servant(d, k)
      PROVE  Servant(d, k)'
    BY <1>1, <1>5 DEF Servant, ServedInv, ConnInv, ConnTypeOK
<1> QED BY <1>1, <1>3, <1>4, <1>5, MoveInv

LEMMA RemovePeerServed ==
    ASSUME ServedInv, [SessionsNext]_vars, NEW c \in Conn, RemovePeer(c)
    PROVE  ServedInv'
<1>1. /\ pc[c] = "removing" /\ pc' = [pc EXCEPT ![c] = "taking"]
      /\ UNCHANGED <<rooms, issued, who, hub, target>>
    BY DEF RemovePeer, Step, roomVars
<1>2. target'[c] \in issued' /\ ~Among(rooms', who[c][1], target'[c])
    BY <1>1 DEF ServedInv, TakenAreGone, GetParticipant, Exists, Among
<1>3. ASSUME NEW k \in Key, NEW d \in Conn, Servant(d, k)
      PROVE  Servant(d, k)'
    BY <1>1, <1>3 DEF Servant, ServedInv, ConnInv, ConnTypeOK
<1> QED BY <1>1, <1>2, <1>3, MoveInv

(* The servant that is taken out of the hub served no member.              *)
LEMMA HubTakeServed ==
    ASSUME ServedInv, [SessionsNext]_vars, NEW c \in Conn, HubTake(c)
    PROVE  ServedInv'
<1> DEFINE k == <<who[c][1], target[c]>>
<1>1. /\ pc[c] = "taking" /\ pc' = [pc EXCEPT ![c] = "closing"]
      /\ UNCHANGED <<rooms, who>> /\ hub' = [hub EXCEPT ![k] = NoConn]
      /\ target' = [target EXCEPT ![c] = Nobody]
    BY DEF HubTake, Step, roomVars
<1>2. k \in Key /\ ~Member(k)
    BY <1>1 DEF ServedInv, TakenAreGone, ConnInv, Identified, TargetNamed, Key, Member
<1>3. \A d \in Conn \ {c} : target'[d] = target[d]
    BY <1>1 DEF ServedInv, ConnInv, ConnTypeOK
<1>4. ASSUME NEW l \in Key, NEW d \in Conn, Servant(d, l), Member(l)'
      PROVE  Servant(d, l)'
    <2>1. l # k
        BY <1>1, <1>2, <1>4 DEF Member, GetParticipant, Exists
    <2> HIDE DEF k
    <2> QED BY <2>1, <1>1, <1>4 DEF Servant, ServedInv, ConnInv, ConnTypeOK
<1> HIDE DEF k
<1> QED BY <1>1, <1>3, <1>4, MoveInv

(* dissolveRoom: likewise, for everybody in the room.                      *)
LEMMA DissolveRoomServed ==
    ASSUME ServedInv, [SessionsNext]_vars, NEW c \in Conn, DissolveRoom(c)
    PROVE  ServedInv'
<1>1. /\ pc[c] = "serving" /\ pc' = [pc EXCEPT ![c] = "dissolving"]
      /\ UNCHANGED <<who, hub, target>> /\ rooms' = [rooms EXCEPT ![who[c][1]] = NoRoom]
    BY DEF DissolveRoom, Step, Dissolve
<1>2. rooms'[who[c][1]] = NoRoom
    BY <1>1 DEF ServedInv, ConnInv, Identified, Key, RoomsInv, RoomsTypeOK
<1>3. ASSUME NEW k \in Key, NEW d \in Conn, Servant(d, k)
      PROVE  Servant(d, k)'
    BY <1>1, <1>3 DEF Servant, ServedInv, ConnInv, ConnTypeOK
<1> QED BY <1>1, <1>2, <1>3, MoveInv

LEMMA CloseRoomServed ==
    ASSUME ServedInv, [SessionsNext]_vars, NEW c \in Conn, CloseRoom(c)
    PROVE  ServedInv'
<1>1. /\ pc[c] = "dissolving" /\ pc' = [pc EXCEPT ![c] = "takingRoom"]
      /\ UNCHANGED <<rooms, who, hub, target>>
    BY DEF CloseRoom, Step, roomVars
<1>2. rooms'[who[c][1]] = NoRoom
    BY <1>1 DEF ServedInv, TakenAreGone, Exists
<1>3. ASSUME NEW k \in Key, NEW d \in Conn, Servant(d, k)
      PROVE  Servant(d, k)'
    BY <1>1, <1>3 DEF Servant, ServedInv, ConnInv, ConnTypeOK
<1> QED BY <1>1, <1>2, <1>3, MoveInv

LEMMA HubTakeRoomServed ==
    ASSUME ServedInv, [SessionsNext]_vars, NEW c \in Conn, HubTakeRoom(c)
    PROVE  ServedInv'
<1>1. /\ pc[c] = "takingRoom" /\ pc' = [pc EXCEPT ![c] = "closing"]
      /\ UNCHANGED <<rooms, who, target>>
      /\ \A l \in Key : hub'[l] = IF l[1] = who[c][1] THEN NoConn ELSE hub[l]
    BY DEF HubTakeRoom, Step, roomVars
<1>2. rooms[who[c][1]] = NoRoom
    BY <1>1 DEF ServedInv, TakenAreGone, Exists
<1>3. ASSUME NEW l \in Key, NEW d \in Conn, Servant(d, l), Member(l)'
      PROVE  Servant(d, l)'
    <2>1. l[1] # who[c][1]
        BY <1>1, <1>2, <1>3 DEF Member, GetParticipant, Exists
    <2> QED BY <2>1, <1>1, <1>3 DEF Servant, ServedInv, ConnInv, ConnTypeOK
<1> QED BY <1>1, <1>3, MoveInv

(* disconnect: the handler that the hub held is about to leave the room.   *)
LEMMA HubRemoveServed ==
    ASSUME ServedInv, [SessionsNext]_vars, NEW c \in Conn, HubRemove(c)
    PROVE  ServedInv'
<1>1. /\ pc[c] = "returning" /\ pc' = [pc EXCEPT ![c] = "releasing"]
      /\ UNCHANGED <<who, target>> /\ hub[who[c]] = c /\ hub' = [hub EXCEPT ![who[c]] = NoConn]
    BY DEF HubRemove, Step
<1>2. ASSUME NEW k \in Key, NEW d \in Conn, Servant(d, k)
      PROVE  Servant(d, k)'
    BY <1>1, <1>2 DEF Servant, ServedInv, ConnInv, ConnTypeOK
<1> QED BY <1>1, <1>2, MoveInv

(* A handler that the hub does not hold was nobody's servant.              *)
LEMMA HubRemoveRefusedServed ==
    ASSUME ServedInv, [SessionsNext]_vars, NEW c \in Conn, HubRemoveRefused(c)
    PROVE  ServedInv'
<1>1. /\ pc[c] = "returning" /\ pc' = [pc EXCEPT ![c] = "done"]
      /\ UNCHANGED <<who, target, hub>> /\ hub[who[c]] # c
    BY DEF HubRemoveRefused, Step
<1>2. ASSUME NEW k \in Key, NEW d \in Conn, Servant(d, k)
      PROVE  Servant(d, k)'
    BY <1>1, <1>2 DEF Servant, ServedInv, ConnInv, ConnTypeOK
<1> QED BY <1>1, <1>2, MoveInv

(* Whoever has left, or was not a member, needs no servant.                *)
LEMMA LeaveRoomServed ==
    ASSUME ServedInv, [SessionsNext]_vars, NEW c \in Conn, LeaveRoom(c)
    PROVE  ServedInv'
<1>1. /\ pc[c] = "leaving" /\ pc' = [pc EXCEPT ![c] = "done"]
      /\ UNCHANGED <<who, target, hub>>
      /\ Leave(who[c][1], who[c][2]) \/ (~Member(who[c]) /\ rooms' = rooms)
    BY DEF LeaveRoom, Step, roomVars
<1>2. who[c] \in Key /\ who[c][1] \in RoomID /\ who[c][2] \in ParticipantID
    BY <1>1 DEF ServedInv, ConnInv, Identified, Key
<1>3. ~Among(rooms', who[c][1], who[c][2])
    <2>1. CASE Leave(who[c][1], who[c][2])
        BY <2>1, <1>2, LeftIsGone DEF ServedInv, Among, GetParticipant, Exists
    <2>2. CASE ~Member(who[c]) /\ rooms' = rooms
        BY <2>2 DEF Member, GetParticipant, Exists, Among
    <2> QED BY <2>1, <2>2, <1>1
<1>4. ASSUME NEW k \in Key, NEW d \in Conn, Servant(d, k), Member(k)'
      PROVE  Servant(d, k)'
    <2>1. k # who[c]
        BY <1>3, <1>4 DEF Member, GetParticipant, Exists, Among
    <2>2. d # c
        BY <2>1, <1>4 DEF Servant
    <2> QED BY <2>2, <1>1, <1>4 DEF Servant, ServedInv, ConnInv, ConnTypeOK
<1> QED BY <1>1, <1>4, MoveInv

LEMMA ServedInvInit == SessionsInit => ServedInv
<1> SUFFICES ASSUME SessionsInit
             PROVE  ServedInv
    OBVIOUS
<1>1. RoomsInv /\ ConnInv
    BY RoomsInvInit, ConnInvInit DEF SessionsInit
<1>2. Known /\ TakenAreGone
    BY DEF SessionsInit, RoomsInit, Known, TakenAreGone, Exists
<1>3. EveryMemberServed
    BY DEF SessionsInit, RoomsInit, EveryMemberServed, Member, GetParticipant, Exists, Key
<1> QED BY <1>1, <1>2, <1>3 DEF ServedInv

LEMMA ServedInvStep == ServedInv /\ [SessionsNext]_vars => ServedInv'
<1> SUFFICES ASSUME ServedInv, [SessionsNext]_vars
             PROVE  ServedInv'
    OBVIOUS
<1>1. CASE UNCHANGED <<pc, who, hub, target>>
    BY <1>1, StillInv
<1>2. ASSUME NEW c \in Conn, Handle(c)
      PROVE  ServedInv'
    <2>1. CASE HubAdd(c)
        BY <2>1, HubAddServed
    <2>2. CASE \E d \in Conn : CloseTaken(c, d)
        BY <2>2, <1>1 DEF CloseTaken
    <2>3. CASE SendSnapshot(c) \/ ReadFails(c)
        BY <2>3, GoOnServed DEF SendSnapshot, ReadFails, Step, Registered
    <2>4. CASE OfferInsertPeer(c) \/ OfferRefused(c) \/ OfferAnswer(c) \/ CommandDone(c)
        BY <2>4, GoOnServed DEF OfferInsertPeer, OfferRefused, OfferAnswer, CommandDone, Step, Registered
    <2>5. CASE ReleasePeer(c)
        BY <2>5, GoOnServed DEF ReleasePeer, Step, Registered
    <2> QED BY <1>2, <2>1, <2>2, <2>3, <2>4, <2>5, RemovePeerServed, HubTakeServed,
               CloseRoomServed, HubTakeRoomServed, HubRemoveServed, HubRemoveRefusedServed,
               LeaveRoomServed
            DEF Handle
<1>3. ASSUME NEW c \in Conn, Receive(c)
      PROVE  ServedInv'
    <2>1. CASE ReadLeave(c) \/ OfferClosePeer(c)
        BY <2>1, GoOnServed DEF ReadLeave, OfferClosePeer, Step, Registered
    <2> QED BY <1>3, <2>1, AuthenticateServed, RemoveFromRoomServed, DissolveRoomServed
            DEF Receive
<1>4. CASE \E r \in RoomID, p \in ParticipantID : HTTPCreate(r, p) \/ HTTPJoin(r, p)
    BY <1>4, <1>1 DEF HTTPCreate, HTTPJoin, connVars
<1>5. CASE \/ \E c \in Conn : Lose(c)
           \/ \E p \in ParticipantID : ClosePage(p)
           \/ \E k \in Key : PeerFails(k)
    BY <1>5, <1>1 DEF Lose, ClosePage, PeerFails
<1>6. CASE UNCHANGED vars
    BY <1>6, <1>1 DEF vars, connVars
<1> QED BY <1>2, <1>3, <1>4, <1>5, <1>6 DEF SessionsNext
-----------------------------------------------------------------------------
(* The inductive invariant of the connections.                             *)
THEOREM SessionsInvariant == SessionsSpec => []ConnInv
BY ConnInvInit, ConnInvStep, PTL DEF SessionsSpec

(* Handlers racing on the room manager only ever make it do what Rooms     *)
(* allows.                                                                 *)
THEOREM SessionsImplementRooms == SessionsSpec => RoomsSpec
<1>1. SessionsInit => RoomsInit
    BY DEF SessionsInit
<1> QED BY <1>1, SessionsStepIsRoomsStep, SessionsInvariant, PTL
        DEF SessionsSpec, RoomsSpec

(* Connections, hub and rooms stay within their types.                     *)
THEOREM SessionsTypeCorrect == SessionsSpec => []SessionsTypeOK
<1>1. ConnInv /\ RoomsTypeOK => SessionsTypeOK
    BY DEF ConnInv, ConnTypeOK, SessionsTypeOK
<1> QED BY <1>1, SessionsInvariant, SessionsImplementRooms, RoomsTypeCorrect, PTL

(* Whoever is in the hub is being served, under its own name.              *)
THEOREM HubCorrect == SessionsSpec => []HubHoldsLiveHandlers
<1>1. ConnInv => HubHoldsLiveHandlers
    BY DEF ConnInv
<1> QED BY <1>1, SessionsInvariant, PTL

(* No client taken out of the hub is forgotten.                            *)
THEOREM TakenIsClosed == SessionsSpec => []UnregisteredIsBeingClosed
<1>1. ConnInv => UnregisteredIsBeingClosed
    BY DEF ConnInv
<1> QED BY <1>1, SessionsInvariant, PTL

(* README.md:5 under concurrency: however the handlers' leaves, removals   *)
(* and dissolutions interleave, ownership goes by seniority.               *)
THEOREM SessionsSeniority == SessionsSpec => OwnershipIsSeniority
BY SessionsImplementRooms, RoomsRefineQueue, PTL

(* The inductive invariant that joins the members to their handlers.       *)
THEOREM ServedInvariant == SessionsSpec => []ServedInv
BY ServedInvInit, ServedInvStep, PTL DEF SessionsSpec

(* README.md:5: no member who ever connected is without a handler, so that *)
(* somebody is left to take them out of the room.                          *)
THEOREM MembersServed == SessionsSpec => []MemberIsServed
<1>1. ServedInv => MemberIsServed
    <2> SUFFICES ASSUME ServedInv, NEW k \in Key, NEW d \in Conn, Servant(d, k)
                 PROVE  who[d] = k /\ pc[d] # "done"
        BY DEF ServedInv, EveryMemberServed, MemberIsServed
    <2>1. hub[k] = d => pc[d] # "done"
        BY SessionsAssumption DEF ServedInv, ConnInv, HubHoldsLiveHandlers, Registered
    <2> QED BY <2>1 DEF Servant
<1> QED BY <1>1, ServedInvariant, PTL
=============================================================================
