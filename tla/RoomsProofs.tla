---------------------------- MODULE RoomsProofs ----------------------------
(***************************************************************************)
(* Proofs about Rooms.  The inductive invariant says of each room that its *)
(* order is a duplicate-free, non-empty listing of its participants whose  *)
(* head is the owner; the three properties and the refinement follow.      *)
(***************************************************************************)
EXTENDS Rooms, SequenceTheorems, TLAPS

WellFormed(room) ==
    /\ room \in Room
    /\ IsInjective(room.order)
    /\ ToSet(room.order) = room.participants
    /\ room.order # <<>>
    /\ room.owner = Head(room.order)
    /\ room.muted \subseteq room.participants

RoomsInv ==
    /\ RoomsTypeOK
    /\ \A r \in RoomID : Exists(r) => /\ WellFormed(rooms[r])
                                      /\ rooms[r].participants \subseteq issued
-----------------------------------------------------------------------------
(* Dropping one position of a duplicate-free sequence drops one element.   *)
LEMMA RemoveAtProperties ==
    ASSUME NEW S, NEW s \in Seq(S), IsInjective(s), NEW k \in DOMAIN s
    PROVE  /\ RemoveAt(s, k) \in Seq(S)
           /\ IsInjective(RemoveAt(s, k))
           /\ ToSet(RemoveAt(s, k)) = ToSet(s) \ {s[k]}
           /\ k # 1 => RemoveAt(s, k) # <<>> /\ Head(RemoveAt(s, k)) = Head(s)
<1> DEFINE a == SubSeq(s, 1, k - 1)
           b == SubSeq(s, k + 1, Len(s))
           t == RemoveAt(s, k)
<1>0. k \in 1 .. Len(s) /\ Len(s) \in Nat /\ DOMAIN s = 1 .. Len(s)
    OBVIOUS
<1>1. a \in Seq(S) /\ Len(a) = k - 1 /\ \A i \in 1 .. k - 1 : a[i] = s[i]
    <2>1. \A i \in 1 .. k - 1 : s[i] \in S
        BY <1>0
    <2> QED BY <1>0, <2>1, SubSeqProperties
<1>2. /\ b \in Seq(S)
      /\ Len(b) = Len(s) - k
      /\ \A i \in 1 .. Len(s) - k : b[i] = s[k + i]
    <2>1. \A i \in k + 1 .. Len(s) : s[i] \in S
        BY <1>0
    <2> QED BY <1>0, <2>1, SubSeqProperties
<1>3. /\ t \in Seq(S)
      /\ Len(t) = Len(s) - 1
      /\ \A i \in 1 .. Len(s) - 1 : t[i] = IF i < k THEN s[i] ELSE s[i + 1]
    <2>1. t = a \o b
        BY DEF RemoveAt
    <2>2. t \in Seq(S) /\ Len(t) = Len(a) + Len(b)
          /\ \A i \in 1 .. Len(a) + Len(b) :
                t[i] = IF i <= Len(a) THEN a[i] ELSE b[i - Len(a)]
        <3>1. a \in Seq(S) /\ b \in Seq(S)
            BY <1>1, <1>2
        <3> HIDE DEF a, b
        <3>2. /\ a \o b \in Seq(S) /\ Len(a \o b) = Len(a) + Len(b)
              /\ \A i \in 1 .. Len(a) + Len(b) :
                    (a \o b)[i] = IF i <= Len(a) THEN a[i] ELSE b[i - Len(a)]
            BY <3>1, ConcatProperties
        <3> QED BY <2>1, <3>2
    <2>3. ASSUME NEW i \in 1 .. Len(s) - 1
          PROVE  t[i] = IF i < k THEN s[i] ELSE s[i + 1]
        <3>1. CASE i < k
            <4>1. i <= Len(a) /\ i \in 1 .. k - 1 /\ i \in 1 .. Len(a) + Len(b)
                BY <3>1, <1>0, <1>1, <1>2
            <4>2. t[i] = a[i]
                BY <4>1, <2>2
            <4>3. a[i] = s[i]
                BY <4>1, <1>1
            <4> QED BY <3>1, <4>2, <4>3
        <3>2. CASE ~(i < k)
            <4>1. ~(i <= k - 1) /\ i \in 1 .. Len(a) + Len(b)
                BY <3>2, <1>0, <1>1, <1>2
            <4>2. t[i] = b[i - (k - 1)]
                BY <4>1, <1>1, <2>2
            <4>3. i - (k - 1) \in 1 .. Len(s) - k /\ k + (i - (k - 1)) = i + 1
                BY <3>2, <1>0
            <4>4. b[i - (k - 1)] = s[k + (i - (k - 1))]
                BY <4>3, <1>2
            <4> QED BY <3>2, <4>2, <4>3, <4>4
        <3> QED BY <3>1, <3>2
    <2> QED BY <1>0, <1>1, <1>2, <2>2, <2>3
<1> HIDE DEF t
<1>4. DOMAIN t = 1 .. Len(s) - 1
    BY <1>3, <1>0
<1>5. ASSUME NEW i \in DOMAIN t, NEW j \in DOMAIN t, t[i] = t[j]
      PROVE  i = j
    <2> DEFINE up(n) == IF n < k THEN n ELSE n + 1
    <2>1. up(i) \in DOMAIN s /\ up(j) \in DOMAIN s
        BY <1>0, <1>4
    <2>2. s[up(i)] = s[up(j)]
        BY <1>3, <1>4, <1>5
    <2>3. up(i) = up(j)
        BY <2>1, <2>2 DEF IsInjective
    <2> QED BY <2>3, <1>0, <1>4
<1>6. ToSet(t) = ToSet(s) \ {s[k]}
    <2>1. ASSUME NEW i \in DOMAIN t PROVE t[i] \in ToSet(s) \ {s[k]}
        <3>1. CASE i < k
            BY <3>1, <1>0, <1>3, <1>4 DEF ToSet, IsInjective
        <3>2. CASE ~(i < k)
            <4>1. i + 1 \in DOMAIN s /\ i + 1 # k /\ t[i] = s[i + 1]
                BY <3>2, <1>0, <1>3, <1>4
            <4> QED BY <4>1, <1>0 DEF ToSet, IsInjective
        <3> QED BY <3>1, <3>2
    <2>2. ASSUME NEW i \in DOMAIN s, s[i] # s[k] PROVE s[i] \in ToSet(t)
        <3>1. CASE i < k
            <4>1. i \in DOMAIN t /\ t[i] = s[i]
                BY <3>1, <1>0, <1>3, <1>4
            <4> QED BY <4>1 DEF ToSet
        <3>2. CASE i > k
            <4>1. i - 1 \in DOMAIN t /\ ~(i - 1 < k) /\ (i - 1) + 1 = i
                BY <3>2, <1>0, <1>4
            <4>2. t[i - 1] = s[i]
                BY <4>1, <1>3, <1>4
            <4> QED BY <4>1, <4>2 DEF ToSet
        <3> QED BY <3>1, <3>2, <2>2, <1>0
    <2> QED BY <2>1, <2>2 DEF ToSet
<1>7. ASSUME k # 1 PROVE t # <<>> /\ Head(t) = Head(s)
    <2>1. 1 \in 1 .. Len(s) - 1 /\ 1 < k
        BY <1>7, <1>0
    <2>2. t[1] = s[1] /\ Len(t) # 0
        BY <2>1, <1>3
    <2> QED BY <2>2, <1>3, <1>0
<1> QED BY <1>3, <1>5, <1>6, <1>7 DEF t, IsInjective

(* Room.removeFromOrder takes out the one position that holds p, and the   *)
(* head stays where it is unless p was the head.                           *)
LEMMA RemoveFromOrderProperties ==
    ASSUME NEW S, NEW s \in Seq(S), IsInjective(s), NEW p \in ToSet(s)
    PROVE  /\ removeFromOrder(s, p) \in Seq(S)
           /\ IsInjective(removeFromOrder(s, p))
           /\ ToSet(removeFromOrder(s, p)) = ToSet(s) \ {p}
           /\ p # Head(s) => /\ removeFromOrder(s, p) # <<>>
                             /\ Head(removeFromOrder(s, p)) = Head(s)
           /\ \E k \in DOMAIN s : removeFromOrder(s, p) = RemoveAt(s, k)
<1>1. PICK k \in DOMAIN s : s[k] = p
    BY DEF ToSet
<1>2. k \in 1 .. Len(s) /\ Len(s) \in Nat /\ DOMAIN s = 1 .. Len(s)
    OBVIOUS
<1>3. {i \in 1 .. Len(s) : s[i] = p} = {k}
    BY <1>1, <1>2 DEF IsInjective
<1>4. Min({k}) = k
    BY <1>2 DEF Min
<1>5. SelectInSeq(s, LAMBDA v : v = p) = k
    BY <1>3, <1>4 DEF SelectInSeq
<1>6. removeFromOrder(s, p) = RemoveAt(s, k)
    BY <1>1, <1>2, <1>5 DEF removeFromOrder, RemoveFirst
<1>7. p # Head(s) => k # 1
    BY <1>1, <1>2
<1> QED BY <1>1, <1>6, <1>7, RemoveAtProperties
-----------------------------------------------------------------------------
(* delete(participants, p) plus removeFromOrder(p), for a member other     *)
(* than the owner, leaves a well-formed room.                              *)
LEMMA RemovedWellFormed ==
    ASSUME NEW room, WellFormed(room), NEW p \in room.participants
    PROVE  /\ Removed(room, p) \in Room
           /\ Removed(room, p).participants = room.participants \ {p}
           /\ Removed(room, p).owner = room.owner
           /\ IsInjective(Removed(room, p).order)
           /\ ToSet(Removed(room, p).order) = room.participants \ {p}
           /\ Removed(room, p).muted \subseteq room.participants \ {p}
           /\ p # room.owner => WellFormed(Removed(room, p))
<1>1. /\ room.order \in Seq(ParticipantID)
      /\ IsInjective(room.order)
      /\ p \in ToSet(room.order)
    BY DEF WellFormed, Room
<1>2. /\ removeFromOrder(room.order, p) \in Seq(ParticipantID)
      /\ IsInjective(removeFromOrder(room.order, p))
      /\ ToSet(removeFromOrder(room.order, p)) = room.participants \ {p}
      /\ p # Head(room.order) =>
            /\ removeFromOrder(room.order, p) # <<>>
            /\ Head(removeFromOrder(room.order, p)) = Head(room.order)
    BY <1>1, RemoveFromOrderProperties DEF WellFormed
<1> QED BY <1>2 DEF WellFormed, Removed, Room

(* When the owner leaves and somebody remains, the room with the first in  *)
(* order as its new owner is well formed again.                            *)
LEMMA SuccessionWellFormed ==
    ASSUME NEW room, WellFormed(room), NEW p \in room.participants,
           Removed(room, p).participants # {}
    PROVE  /\ WellFormed(Succession(Removed(room, p), p))
           /\ Succession(Removed(room, p), p).participants
                  = room.participants \ {p}
           /\ Succession(Removed(room, p), p).order = Removed(room, p).order
<1> DEFINE left == Removed(room, p)
<1>1. /\ left \in Room
      /\ left.participants = room.participants \ {p}
      /\ left.owner = room.owner
      /\ IsInjective(left.order)
      /\ ToSet(left.order) = left.participants
      /\ left.muted \subseteq left.participants
      /\ p # room.owner => WellFormed(left)
    <2>1. /\ left \in Room
          /\ left.participants = room.participants \ {p}
          /\ left.owner = room.owner
          /\ IsInjective(left.order)
          /\ ToSet(left.order) = room.participants \ {p}
          /\ left.muted \subseteq room.participants \ {p}
          /\ p # room.owner => WellFormed(left)
        BY RemovedWellFormed
    <2> HIDE DEF left
    <2> QED BY <2>1
<1>2. left.order \in Seq(ParticipantID) /\ left.order # <<>>
    BY <1>1 DEF ToSet, Room
<1>3. Head(left.order) \in ParticipantID
    BY <1>2
<1> HIDE DEF left
<1>4. /\ WellFormed(Succession(left, p))
      /\ Succession(left, p).participants = left.participants
      /\ Succession(left, p).order = left.order
    <2>1. CASE room.owner = p
        BY <1>1, <1>2, <1>3, <2>1 DEF Succession, WellFormed, Room
    <2>2. CASE room.owner # p
        BY <1>1, <2>2 DEF Succession
    <2> QED BY <2>1, <2>2
<1> QED BY <1>1, <1>4 DEF left

(* A room that Create has just made.                                       *)
LEMMA NewRoomWellFormed ==
    ASSUME NEW p \in ParticipantID
    PROVE  WellFormed([owner |-> p, participants |-> {p},
                       muted |-> {}, order |-> <<p>>])
BY DEF WellFormed, Room, IsInjective, ToSet

(* Join appends a member nobody has seen before.                           *)
LEMMA JoinedWellFormed ==
    ASSUME NEW room, WellFormed(room),
           NEW p \in ParticipantID, p \notin room.participants
    PROVE  WellFormed([room EXCEPT !.participants = @ \cup {p},
                                   !.order = Append(@, p)])
<1> DEFINE q == Append(room.order, p)
<1>1. room.order \in Seq(ParticipantID) /\ Len(room.order) \in Nat
    BY DEF WellFormed, Room
<1>2. /\ q \in Seq(ParticipantID)
      /\ q # <<>>
      /\ Len(q) = Len(room.order) + 1
      /\ \A i \in 1 .. Len(room.order) : q[i] = room.order[i]
      /\ q[Len(room.order) + 1] = p
    BY <1>1, AppendProperties
<1>3. DOMAIN room.order = 1 .. Len(room.order) /\ DOMAIN q = 1 .. Len(room.order) + 1
    BY <1>1, <1>2
<1>4. \A i \in DOMAIN room.order : room.order[i] \in room.participants
    BY DEF WellFormed, ToSet
<1> HIDE DEF q
<1>5. ToSet(q) = room.participants \cup {p}
    <2>1. ToSet(q) \subseteq room.participants \cup {p}
        BY <1>1, <1>2, <1>3, <1>4 DEF ToSet
    <2>2. ASSUME NEW x \in room.participants PROVE x \in ToSet(q)
        <3>1. PICK i \in DOMAIN room.order : room.order[i] = x
            BY DEF WellFormed, ToSet
        <3> QED BY <3>1, <1>1, <1>2, <1>3 DEF ToSet
    <2>3. p \in ToSet(q)
        BY <1>1, <1>2, <1>3 DEF ToSet
    <2> QED BY <2>1, <2>2, <2>3
<1>6. IsInjective(q)
    <2>1. ASSUME NEW i \in DOMAIN q, NEW j \in DOMAIN q, q[i] = q[j], i < j
          PROVE  FALSE
        <3>1. i \in DOMAIN room.order /\ q[i] = room.order[i]
            BY <2>1, <1>1, <1>2, <1>3
        <3>2. q[j] # p
            BY <3>1, <2>1, <1>4
        <3>3. j \in DOMAIN room.order /\ q[j] = room.order[j]
            BY <3>2, <1>1, <1>2, <1>3
        <3>4. room.order[i] = room.order[j]
            BY <3>1, <3>3, <2>1
        <3>5. i = j
            BY <3>1, <3>3, <3>4 DEF WellFormed, IsInjective
        <3> QED BY <3>5, <2>1, <1>3, <1>1
    <2> QED BY <2>1, <1>1, <1>3 DEF IsInjective
<1>7. Head(q) = Head(room.order)
    BY <1>1, <1>2 DEF WellFormed
<1> QED BY <1>2, <1>5, <1>6, <1>7 DEF q, WellFormed, Room
-----------------------------------------------------------------------------
(* Only the room r that an operation touches has to be looked at again.    *)
LEMMA OneRoomChanges ==
    ASSUME RoomsInv,
           created' \subseteq RoomID,
           issued' \subseteq ParticipantID,
           issued \subseteq issued',
           NEW r \in RoomID,
           NEW room,
           rooms' = [rooms EXCEPT ![r] = room],
           room # NoRoom => /\ WellFormed(room)
                            /\ room.participants \subseteq issued'
    PROVE  RoomsInv'
<1>1. room = NoRoom \/ room \in Room
    BY DEF WellFormed
<1>2. RoomsTypeOK'
    BY <1>1 DEF RoomsInv, RoomsTypeOK
<1>3. ASSUME NEW s \in RoomID, rooms'[s] # NoRoom
      PROVE  WellFormed(rooms'[s]) /\ rooms'[s].participants \subseteq issued'
    <2>1. CASE s = r
        BY <2>1, <1>3 DEF RoomsInv, RoomsTypeOK
    <2>2. CASE s # r
        <3>1. rooms'[s] = rooms[s]
            BY <2>2 DEF RoomsInv, RoomsTypeOK
        <3> QED BY <3>1, <1>3 DEF RoomsInv, Exists
    <2> QED BY <2>1, <2>2
<1> QED BY <1>2, <1>3 DEF RoomsInv, Exists, WellFormed

LEMMA CreateInv ==
    ASSUME RoomsInv, NEW r \in RoomID, NEW p \in ParticipantID, Create(r, p)
    PROVE  RoomsInv'
<1> DEFINE room == [owner |-> p, participants |-> {p},
                    muted |-> {}, order |-> <<p>>]
<1>1. WellFormed(room)
    BY NewRoomWellFormed
<1>2. room.participants \subseteq issued'
    BY DEF Create
<1>3. /\ rooms' = [rooms EXCEPT ![r] = room]
      /\ created' \subseteq RoomID
      /\ issued' \subseteq ParticipantID
      /\ issued \subseteq issued'
    BY DEF Create, RoomsInv, RoomsTypeOK
<1> HIDE DEF room
<1> QED BY <1>1, <1>2, <1>3, OneRoomChanges

LEMMA JoinInv ==
    ASSUME RoomsInv, NEW r \in RoomID, NEW p \in ParticipantID, Join(r, p)
    PROVE  RoomsInv'
<1> DEFINE room == [rooms[r] EXCEPT !.participants = @ \cup {p},
                                    !.order = Append(@, p)]
<1>1. /\ WellFormed(rooms[r])
      /\ rooms[r].participants \subseteq issued
      /\ p \notin rooms[r].participants
    BY DEF RoomsInv, Join
<1>2. WellFormed(room)
    BY <1>1, JoinedWellFormed
<1>3. room.participants \subseteq issued'
    BY <1>1 DEF Join, WellFormed, Room
<1>4. /\ rooms' = [rooms EXCEPT ![r] = room]
      /\ created' \subseteq RoomID
      /\ issued' \subseteq ParticipantID
      /\ issued \subseteq issued'
    BY <1>1 DEF Join, RoomsInv, RoomsTypeOK, WellFormed, Room
<1> HIDE DEF room
<1> QED BY <1>2, <1>3, <1>4, OneRoomChanges

LEMMA LeaveInv ==
    ASSUME RoomsInv, NEW r \in RoomID, NEW p \in ParticipantID, Leave(r, p)
    PROVE  RoomsInv'
<1> DEFINE left == Removed(rooms[r], p)
           room == IF left.participants = {} THEN NoRoom ELSE Succession(left, p)
<1>1. /\ WellFormed(rooms[r])
      /\ rooms[r].participants \subseteq issued
      /\ p \in rooms[r].participants
    BY DEF RoomsInv, Leave, GetParticipant
<1>2. ASSUME left.participants # {}
      PROVE  /\ WellFormed(Succession(left, p))
             /\ Succession(left, p).participants \subseteq issued
    <2>1. Succession(left, p).participants = rooms[r].participants \ {p}
          /\ WellFormed(Succession(left, p))
        BY <1>1, <1>2, SuccessionWellFormed
    <2> HIDE DEF left
    <2> QED BY <1>1, <2>1
<1>3. /\ rooms' = [rooms EXCEPT ![r] = room]
      /\ created' \subseteq RoomID
      /\ issued' \subseteq ParticipantID
      /\ issued' = issued
    BY DEF Leave, RoomsInv, RoomsTypeOK
<1>4. room # NoRoom => /\ WellFormed(room)
                       /\ room.participants \subseteq issued'
    <2> HIDE DEF left
    <2> QED BY <1>2, <1>3
<1> HIDE DEF left, room
<1> QED BY <1>3, <1>4, OneRoomChanges

LEMMA RemoveParticipantInv ==
    ASSUME RoomsInv, NEW r \in RoomID, NEW o \in ParticipantID,
           NEW p \in ParticipantID, RemoveParticipant(r, o, p)
    PROVE  RoomsInv'
<1> DEFINE room == Removed(rooms[r], p)
<1>1. /\ WellFormed(rooms[r])
      /\ rooms[r].participants \subseteq issued
      /\ p \in rooms[r].participants
      /\ p # rooms[r].owner
    BY DEF RoomsInv, RemoveParticipant, ownerRoom
<1>2. WellFormed(room) /\ room.participants = rooms[r].participants \ {p}
    BY <1>1, RemovedWellFormed
<1>3. /\ rooms' = [rooms EXCEPT ![r] = room]
      /\ created' \subseteq RoomID
      /\ issued' \subseteq ParticipantID
      /\ issued' = issued
    BY DEF RemoveParticipant, RoomsInv, RoomsTypeOK
<1> HIDE DEF room
<1>4. room.participants \subseteq issued'
    BY <1>1, <1>2, <1>3
<1> QED BY <1>2, <1>3, <1>4, OneRoomChanges

LEMMA SetMutedInv ==
    ASSUME RoomsInv, NEW r \in RoomID, NEW o \in ParticipantID,
           NEW p \in ParticipantID, NEW muted \in BOOLEAN,
           SetMuted(r, o, p, muted)
    PROVE  RoomsInv'
<1> DEFINE room == [rooms[r] EXCEPT !.muted = IF muted THEN @ \cup {p}
                                                       ELSE @ \ {p}]
<1>1. /\ WellFormed(rooms[r])
      /\ rooms[r].participants \subseteq issued
      /\ p \in rooms[r].participants
    BY DEF RoomsInv, SetMuted, ownerRoom
<1>2. WellFormed(room) /\ room.participants = rooms[r].participants
    BY <1>1 DEF WellFormed, Room
<1>3. /\ rooms' = [rooms EXCEPT ![r] = room]
      /\ created' \subseteq RoomID
      /\ issued' \subseteq ParticipantID
      /\ issued' = issued
    BY <1>1 DEF SetMuted, RoomsInv, RoomsTypeOK, WellFormed, Room
<1> HIDE DEF room
<1>4. room.participants \subseteq issued'
    BY <1>1, <1>2, <1>3
<1> QED BY <1>2, <1>3, <1>4, OneRoomChanges

LEMMA DissolveInv ==
    ASSUME RoomsInv, NEW r \in RoomID, NEW o \in ParticipantID, Dissolve(r, o)
    PROVE  RoomsInv'
<1>1. /\ rooms' = [rooms EXCEPT ![r] = NoRoom]
      /\ created' \subseteq RoomID
      /\ issued' \subseteq ParticipantID
      /\ issued' = issued
    BY DEF Dissolve, RoomsInv, RoomsTypeOK
<1> QED BY <1>1, OneRoomChanges

LEMMA RoomsInvInit == RoomsInit => RoomsInv
BY DEF RoomsInit, RoomsInv, RoomsTypeOK, Exists

LEMMA RoomsInvStep == RoomsInv /\ [RoomsNext]_roomVars => RoomsInv'
<1> SUFFICES ASSUME RoomsInv, [RoomsNext]_roomVars
             PROVE  RoomsInv'
    OBVIOUS
<1>1. CASE UNCHANGED roomVars
    BY <1>1 DEF roomVars, RoomsInv, RoomsTypeOK, Exists, WellFormed
<1>2. ASSUME NEW r \in RoomID, NEW p \in ParticipantID, Create(r, p)
      PROVE  RoomsInv'
    BY <1>2, CreateInv
<1>3. ASSUME NEW r \in RoomID, NEW p \in ParticipantID, Join(r, p)
      PROVE  RoomsInv'
    BY <1>3, JoinInv
<1>4. ASSUME NEW r \in RoomID, NEW p \in ParticipantID, Leave(r, p)
      PROVE  RoomsInv'
    BY <1>4, LeaveInv
<1>5. ASSUME NEW r \in RoomID, NEW p \in ParticipantID, NEW o \in ParticipantID,
             RemoveParticipant(r, o, p)
      PROVE  RoomsInv'
    BY <1>5, RemoveParticipantInv
<1>6. ASSUME NEW r \in RoomID, NEW p \in ParticipantID, NEW o \in ParticipantID,
             NEW muted \in BOOLEAN, SetMuted(r, o, p, muted)
      PROVE  RoomsInv'
    BY <1>6, SetMutedInv
<1>7. ASSUME NEW r \in RoomID, NEW p \in ParticipantID, Dissolve(r, p)
      PROVE  RoomsInv'
    BY <1>7, DissolveInv
<1> QED BY <1>1, <1>2, <1>3, <1>4, <1>5, <1>6, <1>7 DEF RoomsNext
-----------------------------------------------------------------------------
(* Whoever becomes a member had not been issued before, and a room that    *)
(* comes into being had not been created: nobody and nothing comes back.   *)
LEMMA NothingReturns ==
    ASSUME RoomsInv, [RoomsNext]_roomVars, NEW r \in RoomID
    PROVE  /\ issued \subseteq issued' /\ created \subseteq created'
           /\ Exists(r)' /\ ~Exists(r) => r \in created' \ created
           /\ \A p \in issued : GetParticipant(r, p)' => GetParticipant(r, p)
<1> USE DEF Exists, GetParticipant
<1>1. CASE UNCHANGED roomVars
    BY <1>1 DEF roomVars
<1>2. ASSUME NEW s \in RoomID, NEW p \in ParticipantID, Create(s, p) \/ Join(s, p)
      PROVE  /\ issued \subseteq issued' /\ created \subseteq created'
             /\ rooms'[r] # NoRoom /\ rooms[r] = NoRoom => r \in created' \ created
             /\ \A q \in issued : rooms'[r] # NoRoom /\ q \in rooms'[r].participants
                    => rooms[r] # NoRoom /\ q \in rooms[r].participants
    BY <1>2 DEF Create, Join, RoomsInv, RoomsTypeOK, WellFormed, Room
<1>3. ASSUME NEW s \in RoomID, NEW room, rooms' = [rooms EXCEPT ![s] = room],
             UNCHANGED <<created, issued>>,
             room # NoRoom => /\ rooms[s] # NoRoom
                              /\ room.participants \subseteq rooms[s].participants
      PROVE  /\ issued \subseteq issued' /\ created \subseteq created'
             /\ rooms'[r] # NoRoom /\ rooms[r] = NoRoom => r \in created' \ created
             /\ \A q \in issued : rooms'[r] # NoRoom /\ q \in rooms'[r].participants
                    => rooms[r] # NoRoom /\ q \in rooms[r].participants
    BY <1>3 DEF RoomsInv, RoomsTypeOK
<1>4. ASSUME NEW s \in RoomID, NEW p \in ParticipantID, Leave(s, p)
      PROVE  \E room : /\ rooms' = [rooms EXCEPT ![s] = room]
                       /\ UNCHANGED <<created, issued>>
                       /\ room # NoRoom => /\ rooms[s] # NoRoom
                                           /\ room.participants \subseteq rooms[s].participants
    <2> DEFINE left == Removed(rooms[s], p)
    <2>1. WellFormed(rooms[s]) /\ p \in rooms[s].participants /\ rooms[s] # NoRoom
        BY <1>4 DEF Leave, RoomsInv
    <2>2. left.participants # {} =>
              Succession(left, p).participants \subseteq rooms[s].participants
        <3>1. left.participants # {} =>
                  Succession(left, p).participants = rooms[s].participants \ {p}
            BY <2>1, SuccessionWellFormed
        <3> HIDE DEF left
        <3> QED BY <3>1
    <2> QED BY <1>4, <2>1, <2>2 DEF Leave
<1>5. ASSUME NEW s \in RoomID, NEW p \in ParticipantID, NEW o \in ParticipantID,
             RemoveParticipant(s, o, p)
      PROVE  \E room : /\ rooms' = [rooms EXCEPT ![s] = room]
                       /\ UNCHANGED <<created, issued>>
                       /\ room # NoRoom => /\ rooms[s] # NoRoom
                                           /\ room.participants \subseteq rooms[s].participants
    <2>1. WellFormed(rooms[s]) /\ p \in rooms[s].participants /\ rooms[s] # NoRoom
        BY <1>5 DEF RemoveParticipant, ownerRoom, RoomsInv
    <2>2. Removed(rooms[s], p).participants = rooms[s].participants \ {p}
        BY <2>1, RemovedWellFormed
    <2> QED BY <1>5, <2>1, <2>2 DEF RemoveParticipant
<1>6. ASSUME NEW s \in RoomID, NEW p \in ParticipantID, NEW o \in ParticipantID,
             NEW muted \in BOOLEAN, SetMuted(s, o, p, muted)
      PROVE  \E room : /\ rooms' = [rooms EXCEPT ![s] = room]
                       /\ UNCHANGED <<created, issued>>
                       /\ room # NoRoom => /\ rooms[s] # NoRoom
                                           /\ room.participants \subseteq rooms[s].participants
    <2> DEFINE room == [rooms[s] EXCEPT !.muted = IF muted THEN @ \cup {p} ELSE @ \ {p}]
    <2>1. rooms[s] \in Room /\ rooms[s] # NoRoom
        BY <1>6 DEF SetMuted, ownerRoom, RoomsInv, RoomsTypeOK
    <2>2. room.participants = rooms[s].participants
        BY <2>1 DEF Room
    <2>3. rooms' = [rooms EXCEPT ![s] = room] /\ UNCHANGED <<created, issued>>
        BY <1>6 DEF SetMuted
    <2> QED BY <2>1, <2>2, <2>3
<1>7. ASSUME NEW s \in RoomID, NEW p \in ParticipantID, Dissolve(s, p)
      PROVE  rooms' = [rooms EXCEPT ![s] = NoRoom] /\ UNCHANGED <<created, issued>>
    BY <1>7 DEF Dissolve
<1> QED BY <1>1, <1>2, <1>3, <1>4, <1>5, <1>6, <1>7 DEF RoomsNext

(* Whoever leaves is not in the room any more, if there still is one.      *)
LEMMA LeftIsGone ==
    ASSUME RoomsInv, NEW r \in RoomID, NEW p \in ParticipantID, Leave(r, p)
    PROVE  rooms'[r] # NoRoom => p \notin rooms'[r].participants
<1> DEFINE left == Removed(rooms[r], p)
<1>1. WellFormed(rooms[r]) /\ p \in rooms[r].participants
    BY DEF Leave, RoomsInv, GetParticipant, Exists
<1>2. left \in Room /\ left.participants = rooms[r].participants \ {p}
    BY <1>1, RemovedWellFormed
<1>3. Succession(left, p).participants = left.participants
    BY <1>2 DEF Succession, Room
<1>4. rooms'[r] = IF left.participants = {} THEN NoRoom ELSE Succession(left, p)
    BY DEF Leave, RoomsInv, RoomsTypeOK
<1> HIDE DEF left
<1> QED BY <1>2, <1>3, <1>4

(* So is whoever is removed.                                               *)
LEMMA RemovedIsGone ==
    ASSUME RoomsInv, NEW r \in RoomID, NEW o, NEW p \in ParticipantID, RemoveParticipant(r, o, p)
    PROVE  p \notin rooms'[r].participants
<1>1. WellFormed(rooms[r]) /\ p \in rooms[r].participants
    BY DEF RemoveParticipant, ownerRoom, RoomsInv
<1>2. rooms'[r] = Removed(rooms[r], p)
    BY DEF RemoveParticipant, RoomsInv, RoomsTypeOK
<1> QED BY <1>1, <1>2, RemovedWellFormed

(* The inductive invariant holds of every reachable state.                 *)
THEOREM RoomsInvariant == RoomsSpec => []RoomsInv
BY RoomsInvInit, RoomsInvStep, PTL DEF RoomsSpec

(* The manager's maps, slices and flags stay within their types.           *)
THEOREM RoomsTypeCorrect == RoomsSpec => []RoomsTypeOK
<1>1. RoomsInv => RoomsTypeOK
    BY DEF RoomsInv
<1> QED BY <1>1, RoomsInvariant, PTL

(* participantOrder and the participants map never come apart.             *)
THEOREM OrderCorrect == RoomsSpec => []OrderMatchesParticipants
<1>1. RoomsInv => OrderMatchesParticipants
    BY DEF RoomsInv, WellFormed, OrderMatchesParticipants
<1> QED BY <1>1, RoomsInvariant, PTL

(* Every room is owned by one of its members.                              *)
THEOREM OwnerCorrect == RoomsSpec => []OwnerIsParticipant
<1>1. RoomsInv => OwnerIsParticipant
    <2> SUFFICES ASSUME RoomsInv, NEW r \in RoomID, Exists(r)
                 PROVE  /\ rooms[r].owner \in rooms[r].participants
                        /\ rooms[r].muted \subseteq rooms[r].participants
        BY DEF OwnerIsParticipant
    <2>1. WellFormed(rooms[r])
        BY DEF RoomsInv
    <2>2. /\ rooms[r].order \in Seq(ParticipantID)
          /\ rooms[r].order # <<>>
        BY <2>1 DEF WellFormed, Room
    <2>3. 1 \in DOMAIN rooms[r].order /\ Head(rooms[r].order) = rooms[r].order[1]
        BY <2>2
    <2> QED BY <2>1, <2>3 DEF WellFormed, ToSet
<1> QED BY <1>1, RoomsInvariant, PTL
-----------------------------------------------------------------------------
(* A sequence that lists nobody is empty.                                  *)
LEMMA EmptyListing ==
    ASSUME NEW S, NEW s \in Seq(S), ToSet(s) = {}
    PROVE  s = <<>>
<1>1. DOMAIN s = 1 .. Len(s) /\ Len(s) \in Nat
    OBVIOUS
<1>2. \A i \in DOMAIN s : s[i] \in ToSet(s)
    BY DEF ToSet
<1>3. 1 \notin 1 .. Len(s)
    BY <1>1, <1>2
<1> QED BY <1>1, <1>3

(* The mapped variables of RoomQueue.                                      *)
queueOf == [r \in RoomID |-> IF Exists(r) THEN rooms[r].order ELSE <<>>]
leaderOf == [r \in RoomID |-> IF Exists(r) THEN rooms[r].owner ELSE Nobody]

LEMMA HeadLeadsHolds == RoomsInv' => Queue!HeadLeads
<1> SUFFICES ASSUME RoomsInv'
             PROVE  leaderOf' = [r \in RoomID |->
                        IF queueOf'[r] = <<>> THEN Nobody ELSE Head(queueOf'[r])]
    BY DEF Queue!HeadLeads, leaderOf, queueOf
<1>1. ASSUME NEW r \in RoomID
      PROVE  leaderOf'[r] = IF queueOf'[r] = <<>> THEN Nobody
                                                  ELSE Head(queueOf'[r])
    BY DEF RoomsInv, Exists, WellFormed, leaderOf, queueOf
<1> QED BY <1>1 DEF leaderOf

(* Somebody not issued yet stands in no queue.                             *)
LEMMA NotIssuedNotQueued ==
    ASSUME RoomsInv, NEW p, p \notin issued, NEW s \in RoomID
    PROVE  ~Queue!In(queueOf[s], p)
<1>1. CASE Exists(s)
    <2>1. queueOf[s] = rooms[s].order /\ p \notin ToSet(rooms[s].order)
        BY <1>1 DEF RoomsInv, WellFormed, queueOf
    <2> QED BY <2>1 DEF Queue!In, ToSet
<1>2. CASE ~Exists(s)
    BY <1>2 DEF Queue!In, queueOf
<1> QED BY <1>1, <1>2

(* A step that replaces the record of room r replaces the queue of r.      *)
LEMMA QueueChanges ==
    ASSUME RoomsInv, NEW r \in RoomID, NEW room, NEW q,
           rooms' = [rooms EXCEPT ![r] = room],
           room # NoRoom => q = room.order,
           room = NoRoom => q = <<>>
    PROVE  queueOf' = [queueOf EXCEPT ![r] = q]
<1>1. ASSUME NEW s \in RoomID
      PROVE  queueOf'[s] = [queueOf EXCEPT ![r] = q][s]
    BY DEF RoomsInv, RoomsTypeOK, queueOf, Exists
<1> QED BY <1>1 DEF queueOf

(* Removing member p from the order of room r is a departure.              *)
LEMMA RemovalDeparts ==
    ASSUME RoomsInv, NEW r \in RoomID, Exists(r),
           NEW p \in rooms[r].participants,
           queueOf' = [queueOf EXCEPT ![r] = Removed(rooms[r], p).order],
           created' = created
    PROVE  Queue!Depart(r)
<1>1. WellFormed(rooms[r])
    BY DEF RoomsInv
<1>2. /\ rooms[r].order \in Seq(ParticipantID)
      /\ IsInjective(rooms[r].order)
      /\ p \in ToSet(rooms[r].order)
    BY <1>1 DEF WellFormed, Room
<1>3. PICK k \in DOMAIN rooms[r].order :
            removeFromOrder(rooms[r].order, p) = RemoveAt(rooms[r].order, k)
    BY <1>2, RemoveFromOrderProperties
<1>4. Removed(rooms[r], p).order = Queue!Without(rooms[r].order, k)
    BY <1>1, <1>3 DEF Removed, RemoveAt, Queue!Without, WellFormed, Room
<1>5. queueOf[r] = rooms[r].order
    BY DEF queueOf
<1>6. queueOf' = [queueOf EXCEPT ![r] = Queue!Without(queueOf[r], k)]
    BY <1>4, <1>5
<1> QED BY <1>5, <1>6 DEF Queue!Depart, queueOf

LEMMA QueueInit == RoomsInit => Queue!Init
BY DEF RoomsInit, Queue!Init, Exists

LEMMA QueueStep ==
    RoomsInv /\ RoomsInv' /\ [RoomsNext]_roomVars => [Queue!Next]_(Queue!vars)
<1> SUFFICES ASSUME RoomsInv, RoomsInv', [RoomsNext]_roomVars
             PROVE  [Queue!Next]_(Queue!vars)
    OBVIOUS
<1>0. Queue!HeadLeads
    BY HeadLeadsHolds
<1>1. CASE UNCHANGED roomVars
    BY <1>1 DEF roomVars, Queue!vars, Exists
<1>2. ASSUME NEW r \in RoomID, NEW p \in ParticipantID, Create(r, p)
      PROVE  Queue!Next
    <2>1. queueOf' = [queueOf EXCEPT ![r] = <<p>>]
        <3> DEFINE room == [owner |-> p, participants |-> {p},
                            muted |-> {}, order |-> <<p>>]
        <3>1. rooms' = [rooms EXCEPT ![r] = room] /\ room # NoRoom
            BY <1>2, NewRoomWellFormed, RoomsAssumption DEF Create, WellFormed
        <3>2. room.order = <<p>>
            OBVIOUS
        <3> HIDE DEF room
        <3> QED BY <3>1, <3>2, QueueChanges
    <2>2. \A s \in RoomID : ~Queue!In(queueOf[s], p)
        BY <1>2, NotIssuedNotQueued DEF Create
    <2>3. Queue!Open(r, p)
        BY <1>2, <2>1, <2>2 DEF Queue!Open, Create, queueOf
    <2> QED BY <2>3, <1>0 DEF Queue!Next
<1>3. ASSUME NEW r \in RoomID, NEW p \in ParticipantID, Join(r, p)
      PROVE  Queue!Next
    <2> DEFINE room == [rooms[r] EXCEPT !.participants = @ \cup {p},
                                        !.order = Append(@, p)]
    <2>1. WellFormed(rooms[r]) /\ p \notin rooms[r].participants
        BY <1>3 DEF RoomsInv, Join
    <2>2. WellFormed(room)
        BY <2>1, JoinedWellFormed
    <2>3. rooms' = [rooms EXCEPT ![r] = room] /\ room.order = Append(rooms[r].order, p)
        BY <1>3, <2>1 DEF Join, WellFormed, Room, RoomsInv, RoomsTypeOK
    <2>4. queueOf[r] = rooms[r].order /\ queueOf[r] # <<>>
        BY <1>3, <2>1 DEF queueOf, Join, WellFormed
    <2> HIDE DEF room
    <2>5. queueOf' = [queueOf EXCEPT ![r] = Append(queueOf[r], p)]
        <3>1. room # NoRoom
            BY <2>2, RoomsAssumption DEF WellFormed
        <3> QED BY <2>3, <2>4, <3>1, QueueChanges
    <2>6. \A s \in RoomID : ~Queue!In(queueOf[s], p)
        BY <1>3, NotIssuedNotQueued DEF Join
    <2>7. Queue!Enter(r, p)
        BY <1>3, <2>4, <2>5, <2>6 DEF Queue!Enter, Join, queueOf
    <2> QED BY <2>7, <1>0 DEF Queue!Next
<1>4. ASSUME NEW r \in RoomID, NEW p \in ParticipantID, Leave(r, p)
      PROVE  Queue!Next
    <2> DEFINE left == Removed(rooms[r], p)
               room == IF left.participants = {} THEN NoRoom
                                                 ELSE Succession(left, p)
    <2>1. /\ Exists(r)
          /\ WellFormed(rooms[r])
          /\ p \in rooms[r].participants
          /\ rooms' = [rooms EXCEPT ![r] = room]
          /\ created' = created
        BY <1>4 DEF RoomsInv, Leave, GetParticipant
    <2>2. /\ left.order \in Seq(ParticipantID)
          /\ left.participants = ToSet(left.order)
        <3>1. /\ left \in Room
              /\ left.participants = rooms[r].participants \ {p}
              /\ ToSet(left.order) = rooms[r].participants \ {p}
            BY <2>1, RemovedWellFormed
        <3> HIDE DEF left
        <3> QED BY <3>1 DEF Room
    <2>3. ASSUME left.participants # {}
          PROVE  /\ Succession(left, p) # NoRoom
                 /\ Succession(left, p).order = left.order
        BY <2>1, <2>3, SuccessionWellFormed, RoomsAssumption DEF WellFormed
    <2> HIDE DEF left
    <2>4. /\ room # NoRoom => left.order = room.order
          /\ room = NoRoom => left.order = <<>>
        <3>1. CASE left.participants = {}
            <4>1. left.order = <<>>
                BY <2>2, <3>1, EmptyListing
            <4> QED BY <3>1, <4>1
        <3>2. CASE left.participants # {}
            BY <3>2, <2>3
        <3> QED BY <3>1, <3>2
    <2> HIDE DEF room
    <2>5. queueOf' = [queueOf EXCEPT ![r] = left.order]
        BY <2>1, <2>4, QueueChanges
    <2>6. Queue!Depart(r)
        BY <2>1, <2>5, RemovalDeparts DEF left
    <2> QED BY <2>6, <1>0 DEF Queue!Next
<1>5. ASSUME NEW r \in RoomID, NEW p \in ParticipantID, NEW o \in ParticipantID,
             RemoveParticipant(r, o, p)
      PROVE  Queue!Next
    <2> DEFINE room == Removed(rooms[r], p)
    <2>1. /\ Exists(r)
          /\ WellFormed(rooms[r])
          /\ p \in rooms[r].participants
          /\ rooms' = [rooms EXCEPT ![r] = room]
          /\ created' = created
        BY <1>5 DEF RoomsInv, RemoveParticipant, ownerRoom
    <2>2. room # NoRoom
        BY <2>1, RemovedWellFormed, RoomsAssumption
    <2> HIDE DEF room
    <2>3. queueOf' = [queueOf EXCEPT ![r] = room.order]
        BY <2>1, <2>2, QueueChanges
    <2>4. Queue!Depart(r)
        BY <2>1, <2>3, RemovalDeparts DEF room
    <2> QED BY <2>4, <1>0 DEF Queue!Next
<1>6. ASSUME NEW r \in RoomID, NEW p \in ParticipantID, NEW o \in ParticipantID,
             NEW muted \in BOOLEAN, SetMuted(r, o, p, muted)
      PROVE  UNCHANGED Queue!vars
    <2> DEFINE room == [rooms[r] EXCEPT !.muted = IF muted THEN @ \cup {p}
                                                           ELSE @ \ {p}]
    <2>1. /\ Exists(r)
          /\ WellFormed(rooms[r])
          /\ created' = created
        BY <1>6 DEF RoomsInv, SetMuted, ownerRoom
    <2>2. /\ rooms' = [rooms EXCEPT ![r] = room]
          /\ room \in Room
          /\ room.order = rooms[r].order
          /\ room.owner = rooms[r].owner
        BY <1>6, <2>1 DEF SetMuted, WellFormed, Room, RoomsInv, RoomsTypeOK
    <2> HIDE DEF room
    <2>3. room # NoRoom
        BY <2>2, RoomsAssumption
    <2>4. \A s \in RoomID : queueOf'[s] = queueOf[s] /\ leaderOf'[s] = leaderOf[s]
        BY <2>1, <2>2, <2>3 DEF queueOf, leaderOf, Exists, RoomsInv, RoomsTypeOK
    <2>5. queueOf' = queueOf /\ leaderOf' = leaderOf
        BY <2>4 DEF queueOf, leaderOf
    <2> QED BY <2>1, <2>5 DEF Queue!vars, queueOf, leaderOf
<1>7. ASSUME NEW r \in RoomID, NEW p \in ParticipantID, Dissolve(r, p)
      PROVE  Queue!Next
    <2>1. queueOf' = [queueOf EXCEPT ![r] = <<>>]
        BY <1>7, QueueChanges DEF Dissolve
    <2>2. queueOf[r] # <<>>
        BY <1>7 DEF Dissolve, ownerRoom, RoomsInv, WellFormed, queueOf
    <2>3. Queue!Close(r)
        BY <1>7, <2>1, <2>2 DEF Queue!Close, Dissolve, queueOf
    <2> QED BY <2>3, <1>0 DEF Queue!Next
<1> QED BY <1>1, <1>2, <1>3, <1>4, <1>5, <1>6, <1>7 DEF RoomsNext

(* The manager implements the queue whose head leads: README.md:5.         *)
THEOREM RoomsRefineQueue == RoomsSpec => OwnershipIsSeniority
BY QueueInit, QueueStep, RoomsInvariant, PTL
   DEF RoomsSpec, OwnershipIsSeniority, Queue!Spec
=============================================================================
