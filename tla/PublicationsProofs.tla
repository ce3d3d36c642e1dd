------------------------ MODULE PublicationsProofs ------------------------
(***************************************************************************)
(* Safety of the forwarding tables for any number of participants, peers,  *)
(* tracks and goroutines: the tables keep their types, a publication       *)
(* without a peer behind it always has somebody about to unlist it, at     *)
(* rest every peer hears whoever has published but once, and a connection  *)
(* that was not overtaken has its track listed.                            *)
(*                                                                         *)
(* The types are not inductive by themselves: a goroutine that has begun   *)
(* must know which participant it works for, or it would index the tables  *)
(* with Nobody.  PubInv adds that; HearInv and Present, further down, add  *)
(* what the last two properties need.                                      *)
(***************************************************************************)
EXTENDS Publications, TLAPS

\* A goroutine that has begun works for a participant.
SubjectsNamed ==
    \A t \in Task : stage[t] # "idle" => subject[t] \in ParticipantID

PubInv == PublicationsTypeOK /\ SubjectsNamed /\ UnservedIsBeingUnlisted

Senders == [Peer -> [ParticipantID -> Pub \cup {NoPub}]]

(* The two operations on a listener keep the table of senders.             *)
LEMMA RemoveSenderType ==
    ASSUME NEW y, NEW p, senders \in Senders, removeSender(y, p)
    PROVE  senders' \in Senders
BY DEF Senders, removeSender

LEMMA AddPublicationType ==
    ASSUME NEW y, NEW p, NEW b \in Pub, senders \in Senders,
           addPublicationToPeer(y, p, b)
    PROVE  senders' \in Senders
BY DEF Senders, addPublicationToPeer

(* The others in the room are peers.                                       *)
LEMMA PeersInRoomType ==
    ASSUME PublicationsTypeOK, NEW p
    PROVE  peersInRoom(p) \subseteq Peer
BY DEF PublicationsTypeOK, peersInRoom
-----------------------------------------------------------------------------
LEMMA ClosePeerInv ==
    ASSUME PubInv, NEW t \in Closer \cup Peer, NEW p \in ParticipantID,
           ClosePeer(t, p)
    PROVE  PubInv'
<1>1. PublicationsTypeOK'
    BY PublicationsAssumption
       DEF PubInv, ClosePeer, Drop, At, Goto, Task, PublicationsTypeOK,
           SubjectsNamed
<1>2. SubjectsNamed'
    BY PublicationsAssumption
       DEF PubInv, ClosePeer, Drop, At, Goto, Task, PublicationsTypeOK,
           SubjectsNamed
<1>3. UnservedIsBeingUnlisted'
    BY PublicationsAssumption
       DEF PubInv, ClosePeer, Drop, At, Goto, Task, PublicationsTypeOK,
           SubjectsNamed,
           UnservedIsBeingUnlisted
<1> QED BY <1>1, <1>2, <1>3 DEF PubInv

LEMMA CloseIfCurrentInv ==
    ASSUME PubInv, NEW t \in Closer, NEW x \in Peer, CloseIfCurrent(t, x)
    PROVE  PubInv'
<1>1. PublicationsTypeOK'
    BY PublicationsAssumption
       DEF PubInv, CloseIfCurrent, Drop, At, Goto, Task, PublicationsTypeOK,
           SubjectsNamed
<1>2. SubjectsNamed'
    BY PublicationsAssumption
       DEF PubInv, CloseIfCurrent, Drop, At, Goto, Task, PublicationsTypeOK,
           SubjectsNamed
<1>3. UnservedIsBeingUnlisted'
    BY PublicationsAssumption
       DEF PubInv, CloseIfCurrent, Drop, At, Goto, Task, PublicationsTypeOK,
           SubjectsNamed,
           UnservedIsBeingUnlisted
<1> QED BY <1>1, <1>2, <1>3 DEF PubInv

LEMMA CloseRoomInv ==
    ASSUME PubInv, NEW t \in Closer, CloseRoom(t)
    PROVE  PubInv'
<1>1. PublicationsTypeOK'
    BY PublicationsAssumption
       DEF PubInv, CloseRoom, goroutines, At, Goto, Task, PublicationsTypeOK,
           SubjectsNamed
<1>2. SubjectsNamed'
    BY PublicationsAssumption
       DEF PubInv, CloseRoom, goroutines, At, Goto, Task, PublicationsTypeOK,
           SubjectsNamed
<1>3. UnservedIsBeingUnlisted'
    BY PublicationsAssumption
       DEF PubInv, CloseRoom, goroutines, At, Goto, Task, PublicationsTypeOK,
           SubjectsNamed,
           UnservedIsBeingUnlisted
<1> QED BY <1>1, <1>2, <1>3 DEF PubInv

LEMMA UnlistInv ==
    ASSUME PubInv, NEW t \in Task, Unlist(t)
    PROVE  PubInv'
<1>1. PublicationsTypeOK'
    <2>1. publications' \in [ParticipantID -> Pub \cup {NoPub}]
        BY DEF PubInv, PublicationsTypeOK, Unlist
    <2>2. UNCHANGED <<peers, closed, senders, source, muted, mutedByOwner,
                      subject, evict, order, raced, overtaken>>
        BY DEF Unlist
    <2>3. stage' \in {[stage EXCEPT ![t] = s] :
                          s \in {"idle", "done", "insert", "unlink", "unlinkFailed"}}
        BY DEF Unlist, Goto, AfterUnlink
    <2>4. todo' \in [Task -> SUBSET (Peer \cup Pub)]
        BY PeersInRoomType DEF PubInv, PublicationsTypeOK, Unlist
    <2> QED BY <2>1, <2>2, <2>3, <2>4 DEF PubInv, PublicationsTypeOK
<1>2. SubjectsNamed'
    BY PublicationsAssumption
       DEF PubInv, Unlist, Unlisted, AfterUnlink, peersInRoom, At, Goto, Task,
           PublicationsTypeOK, SubjectsNamed
<1>3. UnservedIsBeingUnlisted'
    BY PublicationsAssumption
       DEF PubInv, Unlist, Unlisted, AfterUnlink, peersInRoom, At, Goto, Task,
           PublicationsTypeOK, SubjectsNamed,
           UnservedIsBeingUnlisted
<1> QED BY <1>1, <1>2, <1>3 DEF PubInv

LEMMA UnlinkInv ==
    ASSUME PubInv, NEW t \in Task, Unlink(t)
    PROVE  PubInv'
<1>1. PublicationsTypeOK'
    <2>1. senders' \in Senders
        BY RemoveSenderType DEF PubInv, PublicationsTypeOK, Unlink, Senders
    <2>2. UNCHANGED <<peers, publications, closed, source, muted, mutedByOwner,
                      subject, evict, order, raced, overtaken>>
        BY DEF Unlink
    <2>3. stage' \in [Task -> {"idle", "unlist", "unlink", "unlistFailed",
                               "unlinkFailed", "insert", "collect", "adding",
                               "answered", "register", "replace", "evicting",
                               "reading", "find", "store", "done"}]
        BY DEF PubInv, PublicationsTypeOK, Unlink, Goto, AfterUnlink
    <2>4. todo' \in [Task -> SUBSET (Peer \cup Pub)]
        BY DEF PubInv, PublicationsTypeOK, Unlink
    <2> QED BY <2>1, <2>2, <2>3, <2>4 DEF PubInv, PublicationsTypeOK, Senders
<1>2. SubjectsNamed'
    BY PublicationsAssumption
       DEF PubInv, Unlink, AfterUnlink, removeSender, At, Goto, Task,
           PublicationsTypeOK, SubjectsNamed
<1>3. UnservedIsBeingUnlisted'
    BY PublicationsAssumption
       DEF PubInv, Unlink, AfterUnlink, removeSender, At, Goto, Task,
           PublicationsTypeOK, SubjectsNamed,
           UnservedIsBeingUnlisted
<1> QED BY <1>1, <1>2, <1>3 DEF PubInv

LEMMA OfferInsertInv ==
    ASSUME PubInv, NEW x \in Peer, OfferInsert(x)
    PROVE  PubInv'
<1>1. PublicationsTypeOK'
    BY PublicationsAssumption
       DEF PubInv, OfferInsert, At, Goto, Task, PublicationsTypeOK, SubjectsNamed
<1>2. SubjectsNamed'
    BY PublicationsAssumption
       DEF PubInv, OfferInsert, At, Goto, Task, PublicationsTypeOK, SubjectsNamed
<1>3. UnservedIsBeingUnlisted'
    BY PublicationsAssumption
       DEF PubInv, OfferInsert, At, Goto, Task, PublicationsTypeOK, SubjectsNamed,
           UnservedIsBeingUnlisted
<1> QED BY <1>1, <1>2, <1>3 DEF PubInv

LEMMA OfferRefusedInv ==
    ASSUME PubInv, NEW x \in Peer, OfferRefused(x)
    PROVE  PubInv'
<1>1. PublicationsTypeOK'
    BY PublicationsAssumption
       DEF PubInv, OfferRefused, At, Goto, Task, PublicationsTypeOK, SubjectsNamed
<1>2. SubjectsNamed'
    BY PublicationsAssumption
       DEF PubInv, OfferRefused, At, Goto, Task, PublicationsTypeOK, SubjectsNamed
<1>3. UnservedIsBeingUnlisted'
    BY PublicationsAssumption
       DEF PubInv, OfferRefused, At, Goto, Task, PublicationsTypeOK, SubjectsNamed,
           UnservedIsBeingUnlisted
<1> QED BY <1>1, <1>2, <1>3 DEF PubInv

LEMMA OfferCollectInv ==
    ASSUME PubInv, NEW x \in Peer, OfferCollect(x)
    PROVE  PubInv'
<1>1. PublicationsTypeOK'
    BY PublicationsAssumption
       DEF PubInv, OfferCollect, At, Goto, Task, PublicationsTypeOK, SubjectsNamed
<1>2. SubjectsNamed'
    BY PublicationsAssumption
       DEF PubInv, OfferCollect, At, Goto, Task, PublicationsTypeOK, SubjectsNamed
<1>3. UnservedIsBeingUnlisted'
    BY PublicationsAssumption
       DEF PubInv, OfferCollect, At, Goto, Task, PublicationsTypeOK, SubjectsNamed,
           UnservedIsBeingUnlisted
<1> QED BY <1>1, <1>2, <1>3 DEF PubInv

LEMMA OfferAddInv ==
    ASSUME PubInv, NEW x \in Peer, NEW b \in Pub, OfferAdd(x, b)
    PROVE  PubInv'
<1>1. PublicationsTypeOK'
    BY PublicationsAssumption
       DEF PubInv, OfferAdd, addPublicationToPeer, At, Goto, Task,
           PublicationsTypeOK, SubjectsNamed
<1>2. SubjectsNamed'
    BY PublicationsAssumption
       DEF PubInv, OfferAdd, addPublicationToPeer, At, Goto, Task,
           PublicationsTypeOK, SubjectsNamed
<1>3. UnservedIsBeingUnlisted'
    BY PublicationsAssumption
       DEF PubInv, OfferAdd, addPublicationToPeer, At, Goto, Task,
           PublicationsTypeOK, SubjectsNamed,
           UnservedIsBeingUnlisted
<1> QED BY <1>1, <1>2, <1>3 DEF PubInv

LEMMA OfferAnsweredInv ==
    ASSUME PubInv, NEW x \in Peer, OfferAnswered(x)
    PROVE  PubInv'
<1>1. PublicationsTypeOK'
    BY PublicationsAssumption
       DEF PubInv, OfferAnswered, At, Goto, Task, PublicationsTypeOK, SubjectsNamed
<1>2. SubjectsNamed'
    BY PublicationsAssumption
       DEF PubInv, OfferAnswered, At, Goto, Task, PublicationsTypeOK, SubjectsNamed
<1>3. UnservedIsBeingUnlisted'
    BY PublicationsAssumption
       DEF PubInv, OfferAnswered, At, Goto, Task, PublicationsTypeOK, SubjectsNamed,
           UnservedIsBeingUnlisted
<1> QED BY <1>1, <1>2, <1>3 DEF PubInv

LEMMA OfferFailsInv ==
    ASSUME PubInv, NEW x \in Peer, OfferFails(x)
    PROVE  PubInv'
<1>1. PublicationsTypeOK'
    BY PublicationsAssumption
       DEF PubInv, OfferFails, Drop, At, Goto, Task, PublicationsTypeOK,
           SubjectsNamed
<1>2. SubjectsNamed'
    BY PublicationsAssumption
       DEF PubInv, OfferFails, Drop, At, Goto, Task, PublicationsTypeOK,
           SubjectsNamed
<1>3. UnservedIsBeingUnlisted'
    BY PublicationsAssumption
       DEF PubInv, OfferFails, Drop, At, Goto, Task, PublicationsTypeOK,
           SubjectsNamed,
           UnservedIsBeingUnlisted
<1> QED BY <1>1, <1>2, <1>3 DEF PubInv

LEMMA PublishLoadInv ==
    ASSUME PubInv, NEW b \in Pub, NEW x \in Peer, PublishLoad(b, x)
    PROVE  PubInv'
<1>1. PublicationsTypeOK'
    BY PublicationsAssumption
       DEF PubInv, PublishLoad, At, Goto, Task, PublicationsTypeOK, SubjectsNamed
<1>2. SubjectsNamed'
    BY PublicationsAssumption
       DEF PubInv, PublishLoad, At, Goto, Task, PublicationsTypeOK, SubjectsNamed
<1>3. UnservedIsBeingUnlisted'
    BY PublicationsAssumption
       DEF PubInv, PublishLoad, At, Goto, Task, PublicationsTypeOK, SubjectsNamed,
           UnservedIsBeingUnlisted
<1> QED BY <1>1, <1>2, <1>3 DEF PubInv

LEMMA PublishRegisterInv ==
    ASSUME PubInv, NEW b \in Pub, PublishRegister(b)
    PROVE  PubInv'
<1>1. PublicationsTypeOK'
    <2>1. publications' \in [ParticipantID -> Pub \cup {NoPub}]
        BY DEF PubInv, PublicationsTypeOK, PublishRegister
    <2>2. /\ UNCHANGED <<peers, closed, senders, source, muted, mutedByOwner, subject,
                         evict, order, raced>>
          /\ overtaken' \subseteq ParticipantID
        BY DEF PubInv, PublicationsTypeOK, SubjectsNamed, PublishRegister, At, Task
    <2>3. stage' \in {[stage EXCEPT ![b] = s] : s \in {"done", "adding", "replace"}}
        BY DEF PublishRegister, Goto
    <2>4. todo' \in [Task -> SUBSET (Peer \cup Pub)]
        BY PeersInRoomType DEF PubInv, PublicationsTypeOK, PublishRegister
    <2> QED BY <2>1, <2>2, <2>3, <2>4 DEF PubInv, PublicationsTypeOK
<1>2. SubjectsNamed'
    BY PublicationsAssumption
       DEF PubInv, PublishRegister, At, Goto, Task, PublicationsTypeOK,
           SubjectsNamed
<1>3. UnservedIsBeingUnlisted'
    BY PublicationsAssumption
       DEF PubInv, PublishRegister, At, Goto, Task, PublicationsTypeOK,
           SubjectsNamed,
           UnservedIsBeingUnlisted
<1> QED BY <1>1, <1>2, <1>3 DEF PubInv

LEMMA PublishReplaceInv ==
    ASSUME PubInv, NEW b \in Pub, PublishReplace(b)
    PROVE  PubInv'
<1>1. PublicationsTypeOK'
    BY PublicationsAssumption
       DEF PubInv, PublishReplace, peersInRoom, At, Goto, Task,
           PublicationsTypeOK, SubjectsNamed
<1>2. SubjectsNamed'
    BY PublicationsAssumption
       DEF PubInv, PublishReplace, peersInRoom, At, Goto, Task,
           PublicationsTypeOK, SubjectsNamed
<1>3. UnservedIsBeingUnlisted'
    BY PublicationsAssumption
       DEF PubInv, PublishReplace, peersInRoom, At, Goto, Task,
           PublicationsTypeOK, SubjectsNamed,
           UnservedIsBeingUnlisted
<1> QED BY <1>1, <1>2, <1>3 DEF PubInv

LEMMA PublishEvictInv ==
    ASSUME PubInv, NEW b \in Pub, PublishEvict(b)
    PROVE  PubInv'
<1>1. PublicationsTypeOK'
    <2>1. senders' \in Senders
        BY RemoveSenderType DEF PubInv, PublicationsTypeOK, PublishEvict, Senders
    <2>2. UNCHANGED <<peers, publications, closed, source, muted, mutedByOwner,
                      subject, todo, order, raced, overtaken>>
        BY DEF PublishEvict
    <2>3. stage' = stage \/ stage' = [stage EXCEPT ![b] = "adding"]
        BY DEF PublishEvict, Goto
    <2>4. evict' \in [Pub -> SUBSET Peer]
        BY DEF PubInv, PublicationsTypeOK, PublishEvict
    <2> QED BY <2>1, <2>2, <2>3, <2>4 DEF PubInv, PublicationsTypeOK, Senders
<1>2. SubjectsNamed'
    BY PublicationsAssumption
       DEF PubInv, PublishEvict, At, Goto, Task, PublicationsTypeOK, SubjectsNamed
<1>3. UnservedIsBeingUnlisted'
    BY PublicationsAssumption
       DEF PubInv, PublishEvict, At, Goto, Task, PublicationsTypeOK, SubjectsNamed,
           UnservedIsBeingUnlisted
<1> QED BY <1>1, <1>2, <1>3 DEF PubInv

LEMMA PublishAddInv ==
    ASSUME PubInv, NEW b \in Pub, PublishAdd(b)
    PROVE  PubInv'
<1>1. PublicationsTypeOK'
    <2>1. senders' \in Senders
        BY AddPublicationType DEF PubInv, PublicationsTypeOK, PublishAdd, Senders
    <2>2. UNCHANGED <<peers, publications, closed, source, muted, mutedByOwner,
                      subject, evict, order, raced, overtaken>>
        BY DEF PublishAdd
    <2>3. stage' = stage \/ stage' = [stage EXCEPT ![b] = "reading"]
        BY DEF PublishAdd, Goto
    <2>4. todo' \in [Task -> SUBSET (Peer \cup Pub)]
        BY DEF PubInv, PublicationsTypeOK, PublishAdd
    <2> QED BY <2>1, <2>2, <2>3, <2>4 DEF PubInv, PublicationsTypeOK, Senders
<1>2. SubjectsNamed'
    BY PublicationsAssumption
       DEF PubInv, PublishAdd, At, Goto, Task, PublicationsTypeOK, SubjectsNamed
<1>3. UnservedIsBeingUnlisted'
    BY PublicationsAssumption
       DEF PubInv, PublishAdd, At, Goto, Task, PublicationsTypeOK, SubjectsNamed,
           UnservedIsBeingUnlisted
<1> QED BY <1>1, <1>2, <1>3 DEF PubInv

LEMMA PublishReadFailsInv ==
    ASSUME PubInv, NEW b \in Pub, PublishReadFails(b)
    PROVE  PubInv'
<1>1. PublicationsTypeOK'
    BY PublicationsAssumption
       DEF PubInv, PublishReadFails, At, Goto, Task, PublicationsTypeOK,
           SubjectsNamed
<1>2. SubjectsNamed'
    BY PublicationsAssumption
       DEF PubInv, PublishReadFails, At, Goto, Task, PublicationsTypeOK,
           SubjectsNamed
<1>3. UnservedIsBeingUnlisted'
    BY PublicationsAssumption
       DEF PubInv, PublishReadFails, At, Goto, Task, PublicationsTypeOK,
           SubjectsNamed,
           UnservedIsBeingUnlisted
<1> QED BY <1>1, <1>2, <1>3 DEF PubInv

LEMMA MuteRoomInv ==
    ASSUME PubInv, NEW m \in Muter, NEW p \in ParticipantID,
           NEW value \in BOOLEAN, MuteRoom(m, p, value)
    PROVE  PubInv'
<1>1. PublicationsTypeOK'
    <2>1. order' \in [Muter -> [value : BOOLEAN, pub : Pub \cup {NoPub}]]
        BY DEF PubInv, PublicationsTypeOK, MuteRoom
    <2>2. /\ mutedByOwner' \subseteq ParticipantID
          /\ subject' \in [Task -> ParticipantID \cup {Nobody}]
          /\ raced' \subseteq ParticipantID
        BY DEF PubInv, PublicationsTypeOK, MuteRoom
    <2>3. stage' = [stage EXCEPT ![m] = "find"]
        BY DEF MuteRoom, Goto
    <2>4. UNCHANGED <<peers, publications, closed, senders, source, muted, todo, evict,
                      overtaken>>
        BY DEF MuteRoom
    <2> QED BY <2>1, <2>2, <2>3, <2>4 DEF PubInv, PublicationsTypeOK
<1>2. SubjectsNamed'
    BY PublicationsAssumption
       DEF PubInv, MuteRoom, At, Goto, Task, PublicationsTypeOK, SubjectsNamed
<1>3. UnservedIsBeingUnlisted'
    BY PublicationsAssumption
       DEF PubInv, MuteRoom, At, Goto, Task, PublicationsTypeOK, SubjectsNamed,
           UnservedIsBeingUnlisted
<1> QED BY <1>1, <1>2, <1>3 DEF PubInv

LEMMA MuteFindInv ==
    ASSUME PubInv, NEW m \in Muter, MuteFind(m)
    PROVE  PubInv'
<1>1. PublicationsTypeOK'
    <2>1. order' \in [Muter -> [value : BOOLEAN, pub : Pub \cup {NoPub}]]
        BY DEF PubInv, PublicationsTypeOK, SubjectsNamed, MuteFind, At, Task
    <2>2. raced' \subseteq ParticipantID
        BY DEF PubInv, PublicationsTypeOK, SubjectsNamed, MuteFind, At, Task
    <2>3. stage' = [stage EXCEPT ![m] = "store"]
        BY DEF MuteFind, Goto
    <2>4. UNCHANGED <<peers, publications, closed, senders, source, muted, mutedByOwner,
                      subject, todo, evict, overtaken>>
        BY DEF MuteFind
    <2> QED BY <2>1, <2>2, <2>3, <2>4 DEF PubInv, PublicationsTypeOK
<1>2. SubjectsNamed'
    BY PublicationsAssumption
       DEF PubInv, MuteFind, At, Goto, Task, PublicationsTypeOK, SubjectsNamed
<1>3. UnservedIsBeingUnlisted'
    BY PublicationsAssumption
       DEF PubInv, MuteFind, At, Goto, Task, PublicationsTypeOK, SubjectsNamed,
           UnservedIsBeingUnlisted
<1> QED BY <1>1, <1>2, <1>3 DEF PubInv

LEMMA MuteStoreInv ==
    ASSUME PubInv, NEW m \in Muter, MuteStore(m)
    PROVE  PubInv'
<1>1. PublicationsTypeOK'
    BY PublicationsAssumption
       DEF PubInv, MuteStore, NoOrder, At, Goto, Task, PublicationsTypeOK,
           SubjectsNamed
<1>2. SubjectsNamed'
    BY PublicationsAssumption
       DEF PubInv, MuteStore, NoOrder, At, Goto, Task, PublicationsTypeOK,
           SubjectsNamed
<1>3. UnservedIsBeingUnlisted'
    BY PublicationsAssumption
       DEF PubInv, MuteStore, NoOrder, At, Goto, Task, PublicationsTypeOK,
           SubjectsNamed,
           UnservedIsBeingUnlisted
<1> QED BY <1>1, <1>2, <1>3 DEF PubInv

LEMMA PubInvUnchanged ==
    ASSUME PubInv, UNCHANGED vars
    PROVE  PubInv'
BY DEF PubInv, vars, PublicationsTypeOK, SubjectsNamed, UnservedIsBeingUnlisted
-----------------------------------------------------------------------------
LEMMA PubInvInit == PublicationsInit => PubInv
<1>1. PublicationsInit => PublicationsTypeOK
    BY DEF PublicationsInit, PublicationsTypeOK, NoOrder
<1>2. PublicationsInit => SubjectsNamed /\ UnservedIsBeingUnlisted
    BY DEF PublicationsInit, SubjectsNamed, UnservedIsBeingUnlisted
<1> QED BY <1>1, <1>2 DEF PubInv

LEMMA PubInvStep == PubInv /\ [PublicationsNext]_vars => PubInv'
<1> SUFFICES ASSUME PubInv, [PublicationsNext]_vars
             PROVE  PubInv'
    OBVIOUS
<1>1. CASE UNCHANGED vars
    BY <1>1, PubInvUnchanged
<1>2. ASSUME NEW t \in Closer \cup Peer, NEW p \in ParticipantID, ClosePeer(t, p)
      PROVE  PubInv'
    BY <1>2, ClosePeerInv
<1>3. ASSUME NEW t \in Closer, NEW x \in Peer, CloseIfCurrent(t, x)
      PROVE  PubInv'
    BY <1>3, CloseIfCurrentInv
<1>4. ASSUME NEW t \in Closer, CloseRoom(t)
      PROVE  PubInv'
    BY <1>4, CloseRoomInv
<1>5. ASSUME NEW b \in Pub, NEW x \in Peer, PublishLoad(b, x)
      PROVE  PubInv'
    BY <1>5, PublishLoadInv
<1>6. ASSUME NEW m \in Muter, NEW p \in ParticipantID, NEW value \in BOOLEAN,
             MuteRoom(m, p, value)
      PROVE  PubInv'
    BY <1>6, MuteRoomInv
<1>7. ASSUME NEW t \in Task, Run(t)
      PROVE  PubInv'
    BY <1>7, UnlistInv, UnlinkInv, OfferInsertInv, OfferRefusedInv, OfferCollectInv,
       OfferAddInv, OfferAnsweredInv, OfferFailsInv, PublishRegisterInv,
       PublishReplaceInv, PublishEvictInv, PublishAddInv, PublishReadFailsInv,
       MuteFindInv, MuteStoreInv
       DEF Run
<1> QED BY <1>1, <1>2, <1>3, <1>4, <1>5, <1>6, <1>7 DEF PublicationsNext

(* The inductive invariant of the forwarding tables.                       *)
THEOREM PublicationsInvariant == PublicationsSpec => []PubInv
BY PubInvInit, PubInvStep, PTL DEF PublicationsSpec

(* Tables and goroutines of media.Manager stay within their types.         *)
THEOREM PublicationsTypeCorrect == PublicationsSpec => []PublicationsTypeOK
<1>1. PubInv => PublicationsTypeOK
    BY DEF PubInv
<1> QED BY <1>1, PublicationsInvariant, PTL

(* However ClosePeer, CloseRoom, closeIfCurrent, HandleOffer and publish   *)
(* interleave, no publication is left behind without a peer.               *)
THEOREM NoOrphanPublication == PublicationsSpec => []UnservedIsBeingUnlisted
<1>1. PubInv => UnservedIsBeingUnlisted
    BY DEF PubInv
<1> QED BY <1>1, PublicationsInvariant, PTL
-----------------------------------------------------------------------------
(***************************************************************************)
(* Every peer hears whoever publishes for the first time.  HearInv follows *)
(* the track b of p from the moment it is listed to the sender of each     *)
(* listener y: y is still about to look at the publications, or has b in   *)
(* its loop, or b has y in its loop, or the sender is there.  It is p's    *)
(* one offer that keeps the sender: a second one would evict it.           *)
(***************************************************************************)
Begun(b) == stage[b] \notin {"idle", "register"}

\* A track comes from one answered connection of its participant.
Sourced ==
    /\ \A x \in Peer : stage[x] = "idle" => subject[x] = Nobody
    /\ \A b \in Pub : stage[b] # "idle" =>
          /\ source[b] \in Peer /\ stage[source[b]] = "answered"
          /\ subject[b] = subject[source[b]]
    /\ \A b, c \in Pub : source[b] = source[c] => b = c \/ source[b] = NoPeer

\* The peers map holds open peers, each under its own participant.
Mapped ==
    /\ \A q \in ParticipantID : peers[q] # NoPeer =>
          /\ subject[peers[q]] = q /\ peers[q] \notin closed
          /\ stage[peers[q]] \in {"collect", "adding", "answered"}
    /\ \A x \in closed : stage[x] \notin {"idle", "unlist", "unlink", "insert"}

\* So do the publications and the senders.
Listed ==
    /\ \A p \in ParticipantID : publications[p] # NoPub =>
          subject[publications[p]] = p /\ Begun(publications[p])
    /\ \A y \in Peer, p \in ParticipantID : senders[y][p] # NoPub =>
          subject[senders[y][p]] = p /\ Begun(senders[y][p])
    /\ \A y \in Peer : stage[y] = "adding" => todo[y] \subseteq {b \in Pub : Begun(b)}

\* With one offer there is one track, and whoever unlinks it has unlisted it.
Once ==
    /\ \A t \in Task, p \in ParticipantID :
          stage[t] \in {"unlink", "unlinkFailed"} /\ subject[t] = p /\ OneOffer(p) =>
             /\ publications[p] = NoPub
             /\ \E b \in Pub : subject[b] = p /\ Begun(b)
    /\ \A b \in Pub, p \in ParticipantID :
          stage[b] \in {"replace", "evicting"} /\ subject[b] = p => ~OneOffer(p)

\* y has a sender for b, or one of the two loops is about to add it.
Hears(y, p, b) ==
    \/ senders[y][p] = b
    \/ stage[y] = "collect"
    \/ stage[y] = "adding" /\ b \in todo[y]
    \/ stage[b] = "adding" /\ y \in todo[b]

Heard ==
    \A p, q \in ParticipantID :
        p # q /\ publications[p] # NoPub /\ peers[q] # NoPeer /\ OneOffer(p) =>
            Hears(peers[q], p, publications[p])

HearInv == Sourced /\ Mapped /\ Listed /\ Once /\ Heard

(* Of one offer comes one track.                                           *)
LEMMA OneTrack ==
    ASSUME PubInv, Sourced, NEW p \in ParticipantID, OneOffer(p),
           NEW b \in Pub, NEW c \in Pub, stage[b] # "idle", stage[c] # "idle",
           subject[b] = p, subject[c] = p
    PROVE  b = c
<1>1. source[b] \in Peer /\ source[c] \in Peer
      /\ subject[source[b]] = p /\ subject[source[c]] = p
    BY DEF Sourced
<1>2. source[b] = source[c]
    BY <1>1 DEF OneOffer
<1> QED BY <1>1, <1>2, PublicationsAssumption DEF Sourced

(* What the tables hold.                                                   *)
LEMMA PeerType ==
    ASSUME PubInv
    PROVE  \A q \in ParticipantID : peers[q] \in Peer \cup {NoPeer}
BY DEF PubInv, PublicationsTypeOK

LEMMA ClosedType ==
    ASSUME PubInv
    PROVE  closed \subseteq Peer
BY DEF PubInv, PublicationsTypeOK

LEMMA SenderType ==
    ASSUME PubInv
    PROVE  \A z \in Peer, p \in ParticipantID : senders[z][p] \in Pub \cup {NoPub}
BY DEF PubInv, PublicationsTypeOK

(* removePublication clears one sender; addPublicationToPeer fills one that*)
(* was free, and leaves no open peer without.                              *)
LEMMA RemoveSenderEffect ==
    ASSUME senders \in Senders, NEW y \in Peer, NEW p0 \in ParticipantID,
           removeSender(y, p0)
    PROVE  \A z \in Peer, p \in ParticipantID :
               \/ senders'[z][p] = senders[z][p]
               \/ senders'[z][p] = NoPub /\ p = p0
BY DEF Senders, removeSender

LEMMA AddPublicationEffect ==
    ASSUME senders \in Senders, NEW y \in Peer, NEW p0 \in ParticipantID,
           NEW c \in Pub,
           addPublicationToPeer(y, p0, c)
    PROVE  /\ \A z \in Peer, p \in ParticipantID :
                 \/ senders'[z][p] = senders[z][p]
                 \/ p = p0 /\ senders[z][p] = NoPub /\ senders'[z][p] = c
           /\ y \notin closed /\ subject[y] # p0 => senders'[y][p0] # NoPub
BY PublicationsAssumption DEF Senders, addPublicationToPeer

-----------------------------------------------------------------------------
(* HearInv, action by action.                                              *)
LEMMA ClosePeerHears ==
    ASSUME PubInv, HearInv, NEW t \in Closer \cup Peer, NEW q0 \in ParticipantID,
           ClosePeer(t, q0)
    PROVE  HearInv'
<1> USE PublicationsAssumption
        DEF PubInv, PublicationsTypeOK, SubjectsNamed, HearInv, Task, At, Goto,
            ClosePeer, Drop
<1>0. \A p \in ParticipantID : OneOffer(p)' => OneOffer(p)
    BY DEF OneOffer, Sourced
<1>1. Sourced'
    BY DEF Sourced
<1>2. Mapped'
    BY DEF Mapped
<1>3. Listed'
    BY DEF Listed, Begun, Sourced
<1>4. Once'
    <2>1. \A u \in Task : u # t => stage'[u] = stage[u] /\ subject'[u] = subject[u]
        OBVIOUS
    <2>2. stage'[t] \notin {"unlink", "unlinkFailed"} /\ t \notin Pub
        OBVIOUS
    <2>3. publications' = publications /\ Pub \subseteq Task
        OBVIOUS
    <2> HIDE DEF ClosePeer, Drop, PublicationsTypeOK, SubjectsNamed, Task, PubInv
    <2> QED BY <1>0, <2>1, <2>2, <2>3 DEF Once, Begun
<1>5. Heard'
    BY <1>0, OneTrack DEF Heard, Hears, Once, Begun, Sourced, Listed, Mapped
<1> QED BY <1>1, <1>2, <1>3, <1>4, <1>5

LEMMA CloseIfCurrentHears ==
    ASSUME PubInv, HearInv, NEW t \in Closer, NEW x \in Peer, CloseIfCurrent(t, x)
    PROVE  HearInv'
<1> USE PublicationsAssumption
        DEF PubInv, PublicationsTypeOK, SubjectsNamed, HearInv, Task, At, Goto,
            CloseIfCurrent, Drop
<1>0. \A p \in ParticipantID : OneOffer(p)' => OneOffer(p)
    BY DEF OneOffer, Sourced
<1>1. Sourced'
    BY DEF Sourced
<1>2. Mapped'
    BY DEF Mapped
<1>3. Listed'
    BY DEF Listed, Begun, Sourced
<1>4. Once'
    <2>1. \A u \in Task : u # t => stage'[u] = stage[u] /\ subject'[u] = subject[u]
        OBVIOUS
    <2>2. stage'[t] \notin {"unlink", "unlinkFailed"} /\ t \notin Pub
        OBVIOUS
    <2>3. publications' = publications /\ Pub \subseteq Task
        OBVIOUS
    <2> HIDE DEF CloseIfCurrent, Drop, PublicationsTypeOK, SubjectsNamed, Task, PubInv
    <2> QED BY <1>0, <2>1, <2>2, <2>3 DEF Once, Begun
<1>5. Heard'
    BY <1>0, OneTrack DEF Heard, Hears, Once, Begun, Sourced, Listed, Mapped
<1> QED BY <1>1, <1>2, <1>3, <1>4, <1>5

LEMMA CloseRoomHears ==
    ASSUME PubInv, HearInv, NEW t \in Closer, CloseRoom(t)
    PROVE  HearInv'
<1> USE PublicationsAssumption
        DEF PubInv, PublicationsTypeOK, SubjectsNamed, HearInv, Task, At, Goto,
            CloseRoom, goroutines
<1>0. \A p \in ParticipantID : OneOffer(p)' => OneOffer(p)
    BY DEF OneOffer, Sourced
<1>1. Sourced'
    BY DEF Sourced
<1>2. Mapped'
    <2>1. /\ UNCHANGED <<stage, subject>> /\ \A q \in ParticipantID : peers'[q] = NoPeer
          /\ \A x \in closed' : x \in closed \/ \E q \in ParticipantID : x = peers[q] /\ x # NoPeer
        OBVIOUS
    <2> HIDE DEF PubInv, PublicationsTypeOK, SubjectsNamed, Task, At, Goto, CloseRoom
    <2> QED BY <2>1 DEF Mapped
<1>3. Listed'
    BY DEF Listed, Begun, Sourced
<1>4. Once'
    BY <1>0, OneTrack DEF Once, Begun, Sourced, Listed
<1>5. Heard'
    BY <1>0, OneTrack DEF Heard, Hears, Once, Begun, Sourced, Listed, Mapped
<1> QED BY <1>1, <1>2, <1>3, <1>4, <1>5

LEMMA UnlistHears ==
    ASSUME PubInv, HearInv, NEW t \in Task, Unlist(t)
    PROVE  HearInv'
<1> USE PublicationsAssumption
        DEF PubInv, PublicationsTypeOK, SubjectsNamed, HearInv, Task, At, Goto,
            Unlist, Unlisted, AfterUnlink
<1>0. \A p \in ParticipantID : OneOffer(p)' => OneOffer(p)
    BY DEF OneOffer
<1>1. Sourced'
    BY DEF Sourced
<1>3. \A u \in Task : u # t => stage'[u] = stage[u] /\ todo'[u] = todo[u]
    OBVIOUS
<1>4. /\ stage[t] \in {"unlist", "unlistFailed"}
      /\ stage'[t] \in {"unlink", "unlinkFailed", "idle", "done", "insert"}
      /\ t \in Pub => stage'[t] \in {"unlink", "unlinkFailed", "done"}
      /\ t \in Peer /\ stage[t] = "unlistFailed" => stage'[t] \in {"unlinkFailed", "done"}
    OBVIOUS
<1>5. \A p \in ParticipantID :
          \/ publications'[p] = publications[p]
          \/ publications'[p] = NoPub /\ p = subject[t]
    OBVIOUS
<1>6. stage'[t] \in {"unlink", "unlinkFailed"} =>
          publications[subject[t]] \in Pub /\ publications'[subject[t]] = NoPub
    OBVIOUS
<1>7. UNCHANGED <<peers, closed, senders, source, subject>>
    OBVIOUS
<1>8. \A p \in ParticipantID : publications[p] \in Pub \cup {NoPub}
    OBVIOUS
<1>9. \A b \in Pub : Begun(b) => Begun(b)'
    BY <1>3, <1>4 DEF Begun
<1>2. Peer \subseteq Task
    OBVIOUS
<1> HIDE DEF PubInv, PublicationsTypeOK, SubjectsNamed, Unlist, Unlisted, AfterUnlink
<1>13. Mapped'
    <2>1. \A q \in ParticipantID : peers[q] # NoPeer => peers[q] \in Peer \ {t}
        BY <1>4, PeerType DEF Mapped
    <2>2. \A x \in closed : stage'[x] \notin {"idle", "unlist", "unlink", "insert"}
        BY <1>2, <1>3, <1>4, ClosedType DEF Mapped
    <2> QED BY <1>2, <1>3, <1>7, <2>1, <2>2 DEF Mapped
<1>10. Listed'
    BY <1>3, <1>4, <1>5, <1>7, <1>8, <1>9, SenderType DEF Listed
<1>11. Once'
    <2>1. ASSUME NEW u \in Task, NEW p \in ParticipantID,
                 stage'[u] \in {"unlink", "unlinkFailed"},
                 subject[u] = p, OneOffer(p)
          PROVE  publications'[p] = NoPub /\ \E b \in Pub : subject[b] = p /\ Begun(b)
        <3>1. CASE u = t
            BY <3>1, <2>1, <1>6 DEF Listed
        <3>2. CASE u # t
            BY <3>2, <2>1, <1>3, <1>5 DEF Once
        <3> QED BY <3>1, <3>2
    <2>2. ASSUME NEW b \in Pub, NEW p \in ParticipantID,
                 stage'[b] \in {"replace", "evicting"},
                 subject[b] = p
          PROVE  ~OneOffer(p)
        BY <2>2, <1>3, <1>4 DEF Once
    <2> QED BY <1>0, <1>7, <1>9, <2>1, <2>2 DEF Once
<1>12. Heard'
    BY <1>0, <1>3, <1>4, <1>5, <1>7, <1>8, PeerType DEF Heard, Hears
<1> QED BY <1>1, <1>13, <1>10, <1>11, <1>12
LEMMA UnlinkHears ==
    ASSUME PubInv, HearInv, NEW t \in Task, Unlink(t)
    PROVE  HearInv'
<1> USE PublicationsAssumption
        DEF PubInv, PublicationsTypeOK, SubjectsNamed, HearInv, Task, At, Goto,
            Unlink, AfterUnlink
<1>0. \A p \in ParticipantID : OneOffer(p)' => OneOffer(p)
    BY DEF OneOffer
<1>1. Sourced'
    BY DEF Sourced
<1>2. Mapped'
    <2>1. /\ UNCHANGED <<peers, closed, subject>> /\ t \in Task
          /\ \A u \in Task : u # t => stage'[u] = stage[u]
          /\ stage[t] \in {"unlink", "unlinkFailed"}
          /\ stage'[t] \in {"unlink", "unlinkFailed", "idle", "done", "insert"}
          /\ \A q \in ParticipantID : peers[q] # NoPeer => peers[q] \in Task
          /\ closed \subseteq Peer /\ Peer \subseteq Task
          /\ t \in Peer /\ stage[t] = "unlinkFailed" => stage'[t] \in {"unlinkFailed", "done"}
        OBVIOUS
    <2> HIDE DEF PubInv, PublicationsTypeOK, SubjectsNamed, Task, At, Goto, Unlink, AfterUnlink
    <2> QED BY <2>1 DEF Mapped
<1>3. \A u \in Task : u # t => stage'[u] = stage[u] /\ todo'[u] = todo[u]
    OBVIOUS
<1>4. /\ stage[t] \in {"unlink", "unlinkFailed"}
      /\ stage'[t] \in {"unlink", "unlinkFailed", "idle", "done", "insert"}
      /\ t \in Pub => stage'[t] \in {"unlink", "unlinkFailed", "done"}
    OBVIOUS
<1>5. UNCHANGED <<peers, publications, closed, source, subject>>
    OBVIOUS
<1>6. subject[t] \in ParticipantID /\ senders \in Senders
    BY DEF Senders
<1>7. \A z \in Peer, p \in ParticipantID :
          \/ senders'[z][p] = senders[z][p]
          \/ senders'[z][p] = NoPub /\ p = subject[t]
    <2>1. CASE UNCHANGED senders
        BY <2>1
    <2>2. ASSUME NEW y \in todo[t], removeSender(y, subject[t]), ~UNCHANGED senders
          PROVE  y \in Peer
        BY <2>2, <1>6 DEF removeSender, Senders
    <2> QED BY <1>6, <2>1, <2>2, RemoveSenderEffect
<1>8. \A p \in ParticipantID : publications[p] \in Pub \cup {NoPub}
    OBVIOUS
<1>9. \A b \in Pub : Begun(b) => Begun(b)'
    BY <1>3, <1>4 DEF Begun
<1> HIDE DEF PubInv, PublicationsTypeOK, SubjectsNamed, Unlink
<1>10. Listed'
    BY <1>3, <1>4, <1>5, <1>7, <1>8, <1>9, SenderType DEF Listed
<1>11. Once'
    BY <1>0, <1>3, <1>4, <1>5, <1>9 DEF Once
<1>12. Heard'
    BY <1>0, <1>3, <1>4, <1>5, <1>6, <1>7, <1>8, PeerType DEF Heard, Hears, Once
<1> QED BY <1>1, <1>2, <1>10, <1>11, <1>12
LEMMA OfferInsertHears ==
    ASSUME PubInv, HearInv, NEW x \in Peer, OfferInsert(x)
    PROVE  HearInv'
<1> USE PublicationsAssumption
        DEF PubInv, PublicationsTypeOK, SubjectsNamed, HearInv, Task, At, Goto,
            OfferInsert
<1>0. \A p \in ParticipantID : OneOffer(p)' => OneOffer(p)
    BY DEF OneOffer, Sourced
<1>1. Sourced'
    BY DEF Sourced
<1>2. Mapped'
    BY DEF Mapped
<1>3. Listed'
    BY DEF Listed, Begun, Sourced
<1>4. Once'
    BY <1>0, OneTrack DEF Once, Begun, Sourced, Listed
<1>5. Heard'
    BY <1>0, OneTrack DEF Heard, Hears, Once, Begun, Sourced, Listed, Mapped
<1> QED BY <1>1, <1>2, <1>3, <1>4, <1>5

LEMMA OfferRefusedHears ==
    ASSUME PubInv, HearInv, NEW x \in Peer, OfferRefused(x)
    PROVE  HearInv'
<1> USE PublicationsAssumption
        DEF PubInv, PublicationsTypeOK, SubjectsNamed, HearInv, Task, At, Goto,
            OfferRefused
<1>0. \A p \in ParticipantID : OneOffer(p)' => OneOffer(p)
    BY DEF OneOffer, Sourced
<1>1. Sourced'
    BY DEF Sourced
<1>2. Mapped'
    BY DEF Mapped
<1>3. Listed'
    BY DEF Listed, Begun, Sourced
<1>4. Once'
    BY <1>0, OneTrack DEF Once, Begun, Sourced, Listed
<1>5. Heard'
    BY <1>0, OneTrack DEF Heard, Hears, Once, Begun, Sourced, Listed, Mapped
<1> QED BY <1>1, <1>2, <1>3, <1>4, <1>5

LEMMA OfferCollectHears ==
    ASSUME PubInv, HearInv, NEW x \in Peer, OfferCollect(x)
    PROVE  HearInv'
<1> USE PublicationsAssumption
        DEF PubInv, PublicationsTypeOK, SubjectsNamed, HearInv, Task, At, Goto,
            OfferCollect
<1>0. \A p \in ParticipantID : OneOffer(p)' => OneOffer(p)
    BY DEF OneOffer, Sourced
<1>1. Sourced'
    BY DEF Sourced
<1>2. Mapped'
    BY DEF Mapped
<1>3. Listed'
    BY DEF Listed, Begun, Sourced
<1>4. Once'
    BY <1>0, OneTrack DEF Once, Begun, Sourced, Listed
<1>5. Heard'
    BY <1>0, OneTrack DEF Heard, Hears, Once, Begun, Sourced, Listed, Mapped
<1> QED BY <1>1, <1>2, <1>3, <1>4, <1>5

LEMMA OfferAddHears ==
    ASSUME PubInv, HearInv, NEW x \in Peer, NEW c \in Pub, OfferAdd(x, c)
    PROVE  HearInv'
<1> USE PublicationsAssumption
        DEF PubInv, PublicationsTypeOK, SubjectsNamed, HearInv, Task, At, Goto,
            OfferAdd, addPublicationToPeer
<1>0. \A p \in ParticipantID : OneOffer(p)' => OneOffer(p)
    BY DEF OneOffer, Sourced
<1>1. Sourced'
    BY DEF Sourced
<1>2. Mapped'
    BY DEF Mapped
<1>3. Listed'
    BY DEF Listed, Begun, Sourced
<1>4. Once'
    BY <1>0, OneTrack DEF Once, Begun, Sourced, Listed
<1>5. Heard'
    BY <1>0, OneTrack DEF Heard, Hears, Once, Begun, Sourced, Listed, Mapped
<1> QED BY <1>1, <1>2, <1>3, <1>4, <1>5

LEMMA OfferAnsweredHears ==
    ASSUME PubInv, HearInv, NEW x \in Peer, OfferAnswered(x)
    PROVE  HearInv'
<1> USE PublicationsAssumption
        DEF PubInv, PublicationsTypeOK, SubjectsNamed, HearInv, Task, At, Goto,
            OfferAnswered
<1>0. \A p \in ParticipantID : OneOffer(p)' => OneOffer(p)
    BY DEF OneOffer, Sourced
<1>1. Sourced'
    BY DEF Sourced
<1>2. Mapped'
    BY DEF Mapped
<1>3. Listed'
    BY DEF Listed, Begun, Sourced
<1>4. Once'
    BY <1>0, OneTrack DEF Once, Begun, Sourced, Listed
<1>5. Heard'
    BY <1>0, OneTrack DEF Heard, Hears, Once, Begun, Sourced, Listed, Mapped
<1> QED BY <1>1, <1>2, <1>3, <1>4, <1>5

LEMMA OfferFailsHears ==
    ASSUME PubInv, HearInv, NEW x \in Peer, OfferFails(x)
    PROVE  HearInv'
<1> USE PublicationsAssumption
        DEF PubInv, PublicationsTypeOK, SubjectsNamed, HearInv, Task, At, Goto,
            OfferFails, Drop
<1>0. \A p \in ParticipantID : OneOffer(p)' => OneOffer(p)
    BY DEF OneOffer, Sourced
<1>1. Sourced'
    BY DEF Sourced
<1>2. Mapped'
    BY DEF Mapped
<1>3. Listed'
    BY DEF Listed, Begun, Sourced
<1>4. Once'
    BY <1>0, OneTrack DEF Once, Begun, Sourced, Listed
<1>5. Heard'
    BY <1>0, OneTrack DEF Heard, Hears, Once, Begun, Sourced, Listed, Mapped
<1> QED BY <1>1, <1>2, <1>3, <1>4, <1>5

LEMMA PublishLoadHears ==
    ASSUME PubInv, HearInv, NEW c \in Pub, NEW x \in Peer, PublishLoad(c, x)
    PROVE  HearInv'
<1> USE PublicationsAssumption
        DEF PubInv, PublicationsTypeOK, SubjectsNamed, HearInv, Task, At, Goto,
            PublishLoad
<1>0. \A p \in ParticipantID : OneOffer(p)' => OneOffer(p)
    BY DEF OneOffer, Sourced
<1>1. Sourced'
    BY DEF Sourced
<1>2. Mapped'
    BY DEF Mapped
<1>3. Listed'
    BY DEF Listed, Begun, Sourced
<1>4. Once'
    <2>1. /\ \A t \in Task \ {c} : stage'[t] = stage[t] /\ subject'[t] = subject[t]
          /\ stage[c] = "idle" /\ stage'[c] = "register"
          /\ Once /\ UNCHANGED publications /\ Pub \subseteq Task
        OBVIOUS
    <2> HIDE DEF PubInv, PublicationsTypeOK, SubjectsNamed, HearInv, Task, At, Goto, PublishLoad
    <2> QED BY <1>0, <2>1 DEF Once, Begun
<1>5. Heard'
    BY <1>0, OneTrack DEF Heard, Hears, Once, Begun, Sourced, Listed, Mapped
<1> QED BY <1>1, <1>2, <1>3, <1>4, <1>5

LEMMA PublishRegisterHears ==
    ASSUME PubInv, HearInv, NEW c \in Pub, PublishRegister(c)
    PROVE  HearInv'
<1> USE PublicationsAssumption
        DEF PubInv, PublicationsTypeOK, SubjectsNamed, HearInv, Task, At, Goto,
            PublishRegister, peersInRoom
<1>0. \A p \in ParticipantID : OneOffer(p)' => OneOffer(p)
    BY DEF OneOffer, Sourced
<1>1. Sourced'
    BY DEF Sourced
<1>2. Mapped'
    BY DEF Mapped
<1>3. Listed'
    <2>1. /\ \A t \in Task \ {c} : stage'[t] = stage[t] /\ todo'[t] = todo[t]
          /\ stage[c] = "register" /\ stage'[c] \in {"done", "adding", "replace"}
          /\ \A p \in ParticipantID :
                publications'[p] = publications[p] \/ (p = subject[c] /\ publications'[p] = c)
          /\ \A p \in ParticipantID : publications[p] # NoPub => publications[p] \in Pub
          /\ \A y \in Peer, p \in ParticipantID : senders[y][p] # NoPub => senders[y][p] \in Pub
          /\ UNCHANGED <<subject, senders>> /\ Listed
          /\ Pub \subseteq Task /\ Peer \subseteq Task \ {c}
        OBVIOUS
    <2> HIDE DEF PubInv, PublicationsTypeOK, SubjectsNamed, HearInv, Task, At, Goto,
                 PublishRegister, peersInRoom
    <2>2. \A b \in Pub : Begun(b) => Begun(b)'
        BY <2>1 DEF Begun
    <2>3. Begun(c)'
        BY <2>1 DEF Begun
    <2> QED BY <2>1, <2>2, <2>3 DEF Listed
<1>4. Once'
    <2>1. /\ \A t \in Task \ {c} : stage'[t] = stage[t]
          /\ stage[c] = "register" /\ stage'[c] \in {"done", "adding", "replace"}
          /\ stage'[c] = "replace" => publications[subject[c]] # NoPub
          /\ \A p \in ParticipantID : p # subject[c] => publications'[p] = publications[p]
          /\ \A p \in ParticipantID : publications[p] # NoPub => publications[p] \in Pub
          /\ subject[c] \in ParticipantID
          /\ Once /\ Sourced /\ Listed /\ UNCHANGED subject /\ Pub \subseteq Task
        OBVIOUS
    <2> HIDE DEF PubInv, PublicationsTypeOK, SubjectsNamed, HearInv, Task, At, Goto,
                 PublishRegister, peersInRoom
    <2>2. ASSUME NEW d \in Pub, subject[d] = subject[c], Begun(d)
          PROVE  ~OneOffer(subject[c])
        BY <2>1, <2>2, OneTrack DEF Begun
    <2>3. ASSUME NEW t \in Task, NEW p \in ParticipantID,
                 stage'[t] \in {"unlink", "unlinkFailed"}, subject'[t] = p, OneOffer(p)'
          PROVE  /\ publications'[p] = NoPub
                 /\ \E d \in Pub : subject'[d] = p /\ Begun(d)'
        <3>1. /\ publications[p] = NoPub
              /\ \E d \in Pub : subject[d] = p /\ Begun(d)
            BY <1>0, <2>1, <2>3 DEF Once
        <3>2. p # subject[c]
            BY <1>0, <2>2, <2>3, <3>1
        <3> QED BY <2>1, <3>1, <3>2 DEF Begun
    <2>4. ASSUME NEW d \in Pub, NEW p \in ParticipantID,
                 stage'[d] \in {"replace", "evicting"}, subject'[d] = p
          PROVE  ~OneOffer(p)'
        <3>1. CASE d = c
            BY <1>0, <2>1, <2>2, <2>4, <3>1 DEF Listed
        <3>2. CASE d # c
            BY <1>0, <2>1, <2>4, <3>2 DEF Once
        <3> QED BY <3>1, <3>2
    <2> QED BY <2>1, <2>3, <2>4 DEF Once
<1>5. Heard'
    <2> SUFFICES ASSUME NEW p \in ParticipantID, NEW q \in ParticipantID, p # q,
                        publications'[p] # NoPub, peers[q] # NoPeer, OneOffer(p)
                 PROVE  Hears(peers[q], p, publications[p])'
        BY <1>0 DEF Heard
    <2>1. /\ \A t \in Task \ {c} : stage'[t] = stage[t] /\ todo'[t] = todo[t]
          /\ stage[c] = "register" /\ stage'[c] \in {"done", "adding", "replace"}
          /\ publications' = publications
                \/ /\ publications' = [publications EXCEPT ![subject[c]] = c]
                   /\ todo'[c] = peersInRoom(subject[c])
                   /\ stage'[c] = IF publications[subject[c]] = NoPub THEN "adding"
                                                                     ELSE "replace"
          /\ UNCHANGED <<subject, senders, peers>>
          /\ publications \in [ParticipantID -> Pub \cup {NoPub}]
          /\ peers[q] \in Peer /\ Peer \subseteq Task \ {c} /\ Pub \subseteq Task
        BY DEF peersInRoom
    <2> HIDE DEF PubInv, PublicationsTypeOK, SubjectsNamed, Task, At, Goto,
                 PublishRegister, peersInRoom
    <2>2. CASE publications'[p] = publications[p]
        <3>1. Hears(peers[q], p, publications[p]) /\ Begun(publications[p])
            BY <2>2 DEF HearInv, Heard, Listed
        <3> QED BY <2>1, <2>2, <3>1 DEF Hears, Begun
    <2>3. CASE publications'[p] # publications[p]
        <3>1. p = subject[c] /\ publications'[p] = c /\ todo'[c] = peersInRoom(p)
              /\ stage'[c] = IF publications[p] = NoPub THEN "adding" ELSE "replace"
            BY <2>1, <2>3
        <3>2. peers[q] \in peersInRoom(p)
            BY DEF peersInRoom
        <3>3. publications[p] = NoPub
            <4> SUFFICES ASSUME publications[p] # NoPub
                         PROVE  FALSE
                OBVIOUS
            <4>1. /\ publications[p] \in Pub /\ subject[publications[p]] = p
                  /\ stage[publications[p]] \notin {"idle", "register"}
                BY <2>1 DEF HearInv, Listed, Begun
            <4> QED BY <2>1, <3>1, <4>1, OneTrack DEF HearInv
        <3> QED BY <2>1, <3>1, <3>2, <3>3 DEF Hears
    <2> QED BY <2>2, <2>3
<1> QED BY <1>1, <1>2, <1>3, <1>4, <1>5

LEMMA PublishReplaceHears ==
    ASSUME PubInv, HearInv, NEW c \in Pub, PublishReplace(c)
    PROVE  HearInv'
<1> USE PublicationsAssumption
        DEF PubInv, PublicationsTypeOK, SubjectsNamed, HearInv, Task, At, Goto,
            PublishReplace
<1>0. \A p \in ParticipantID : OneOffer(p)' => OneOffer(p)
    BY DEF OneOffer, Sourced
<1>1. Sourced'
    BY DEF Sourced
<1>2. Mapped'
    BY DEF Mapped
<1>3. Listed'
    BY DEF Listed, Begun, Sourced
<1>4. Once'
    BY <1>0, OneTrack DEF Once, Begun, Sourced, Listed
<1>5. Heard'
    BY <1>0, OneTrack DEF Heard, Hears, Once, Begun, Sourced, Listed, Mapped
<1> QED BY <1>1, <1>2, <1>3, <1>4, <1>5

LEMMA PublishEvictHears ==
    ASSUME PubInv, HearInv, NEW c \in Pub, PublishEvict(c)
    PROVE  HearInv'
<1> USE PublicationsAssumption
        DEF PubInv, PublicationsTypeOK, SubjectsNamed, HearInv, Task, At, Goto,
            PublishEvict
<1>0. \A p \in ParticipantID : OneOffer(p)' => OneOffer(p)
    BY DEF OneOffer
<1>1. Sourced'
    BY DEF Sourced
<1>3. \A u \in Task : u # c => stage'[u] = stage[u]
    OBVIOUS
<1>4. stage[c] = "evicting" /\ stage'[c] \in {"evicting", "adding"}
    OBVIOUS
<1>5. UNCHANGED <<peers, publications, closed, source, subject, todo>>
    OBVIOUS
<1>6. subject[c] \in ParticipantID /\ senders \in Senders
    BY DEF Senders
<1>7. \A z \in Peer, p \in ParticipantID :
          \/ senders'[z][p] = senders[z][p]
          \/ senders'[z][p] = NoPub /\ p = subject[c]
    BY <1>6, RemoveSenderEffect
<1>8. \A p \in ParticipantID : publications[p] \in Pub \cup {NoPub}
    OBVIOUS
<1>9. \A b \in Pub : Begun(b) => Begun(b)'
    BY <1>3, <1>4 DEF Begun
<1> HIDE DEF PubInv, PublicationsTypeOK, SubjectsNamed, PublishEvict
<1>2. Mapped'
    <2>1. \A x \in Peer : stage'[x] = stage[x]
        BY <1>3
    <2> QED BY <2>1, <1>5, PeerType, ClosedType DEF Mapped
<1>10. Listed'
    BY <1>3, <1>4, <1>5, <1>7, <1>8, <1>9, SenderType DEF Listed
<1>11. Once'
    BY <1>0, <1>3, <1>4, <1>5, <1>9 DEF Once
<1>12. Heard'
    BY <1>0, <1>3, <1>4, <1>5, <1>6, <1>7, <1>8, PeerType DEF Heard, Hears, Once
<1> QED BY <1>1, <1>2, <1>10, <1>11, <1>12
LEMMA PublishAddHears ==
    ASSUME PubInv, HearInv, NEW c \in Pub, PublishAdd(c)
    PROVE  HearInv'
<1> USE PublicationsAssumption
        DEF PubInv, PublicationsTypeOK, SubjectsNamed, HearInv, Task, At, Goto,
            PublishAdd
<1>0. \A p \in ParticipantID : OneOffer(p)' => OneOffer(p)
    BY DEF OneOffer
<1>1. Sourced'
    BY DEF Sourced
<1>2. Mapped'
    BY DEF Mapped
<1>3. \A u \in Task : u # c => stage'[u] = stage[u] /\ todo'[u] = todo[u]
    OBVIOUS
<1>4. /\ stage[c] = "adding" /\ stage'[c] \in {"adding", "reading"}
      /\ stage'[c] = "reading" => todo[c] = {}
    OBVIOUS
<1>5. UNCHANGED <<peers, publications, closed, source, subject>>
    OBVIOUS
<1>6. subject[c] \in ParticipantID /\ senders \in Senders
    BY DEF Senders
<1>7. /\ \A z \in Peer, p \in ParticipantID :
            \/ senders'[z][p] = senders[z][p]
            \/ p = subject[c] /\ senders[z][p] = NoPub /\ senders'[z][p] = c
      /\ \A z \in todo[c] :
            \/ z \in todo'[c] \/ z \notin Peer \/ z \in closed
            \/ subject[z] = subject[c] \/ senders'[z][subject[c]] # NoPub
    <2>2. ASSUME NEW y \in todo[c], y \in Peer,
                 addPublicationToPeer(y, subject[c], c),
                 todo' = [todo EXCEPT ![c] = @ \ {y}]
          PROVE  <1>7!1 /\ <1>7!2
        <3>1. \A z \in todo[c] : z # y => z \in todo'[c]
            BY <2>2
        <3> QED BY <1>6, <2>2, <3>1, AddPublicationEffect
    <2>3. ASSUME NEW y \in todo[c], y \notin Peer,
                 addPublicationToPeer(y, subject[c], c),
                 todo' = [todo EXCEPT ![c] = @ \ {y}]
          PROVE  senders' = senders /\ \A z \in todo[c] : z # y => z \in todo'[c]
        BY <2>3, <1>6 DEF addPublicationToPeer, Senders
    <2>4. \/ UNCHANGED <<senders, todo>>
          \/ \E y \in todo[c] : /\ addPublicationToPeer(y, subject[c], c)
                                /\ todo' = [todo EXCEPT ![c] = @ \ {y}]
        OBVIOUS
    <2> HIDE DEF PubInv, PublicationsTypeOK, SubjectsNamed, PublishAdd
    <2>5. CASE UNCHANGED <<senders, todo>>
        BY <2>5
    <2>6. ASSUME NEW y \in todo[c], addPublicationToPeer(y, subject[c], c),
                 todo' = [todo EXCEPT ![c] = @ \ {y}]
          PROVE  <1>7!1 /\ <1>7!2
        BY <2>2, <2>3, <2>6
    <2> QED BY <2>4, <2>5, <2>6
<1>8. /\ \A p \in ParticipantID : publications[p] \in Pub \cup {NoPub}
      /\ Pub \subseteq Task /\ Peer \subseteq Task \ Pub
    OBVIOUS
<1>9. Begun(c) /\ \A b \in Pub : Begun(b) => Begun(b)'
    BY <1>3, <1>4 DEF Begun
<1> HIDE DEF PubInv, PublicationsTypeOK, SubjectsNamed, PublishAdd, Task
<1>10. Listed'
    BY <1>3, <1>4, <1>5, <1>7, <1>8, <1>9, SenderType DEF Listed
<1>11. Once'
    BY <1>0, <1>3, <1>4, <1>5, <1>8, <1>9 DEF Once
<1>12. Heard'
    <2> SUFFICES ASSUME NEW p \in ParticipantID, NEW q \in ParticipantID, p # q,
                        publications[p] # NoPub, peers[q] # NoPeer, OneOffer(p)
                 PROVE  Hears(peers[q], p, publications[p])'
        BY <1>0, <1>5 DEF Heard
    <2> DEFINE y == peers[q]
               b == publications[p]
    <2>1. /\ y \in Peer /\ y \notin closed /\ subject[y] = q
          /\ b \in Pub /\ subject[b] = p /\ Begun(b) /\ Hears(y, p, b)
        BY <1>8, PeerType DEF Heard, Mapped, Listed
    <2>2. y \in Task /\ y # c /\ stage'[y] = stage[y] /\ todo'[y] = todo[y]
        BY <2>1, <1>3, <1>8
    <2>3. CASE senders[y][p] # b /\ stage[b] = "adding" /\ y \in todo[b] /\ b # c
        BY <2>3, <2>1, <1>3, <1>5, <1>8 DEF Hears
    <2>4. CASE y \in todo[c] /\ b = c
        <3>1. senders'[y][p] # NoPub => senders'[y][p] = c
            <4>1. senders[y][p] # NoPub => senders[y][p] = c
                BY <2>1, <2>4, SenderType, OneTrack DEF Listed, Begun
            <4> QED BY <4>1, <2>1, <1>7
        <3>2. y \in todo'[c] => stage'[c] = "adding"
            BY <2>4, <1>4
        <3> QED BY <3>1, <3>2, <2>1, <2>4, <1>5, <1>7 DEF Hears
    <2>5. CASE senders[y][p] = b
        <3>1. senders'[y][p] = b
            BY <2>1, <2>5, <1>7, PublicationsAssumption
        <3> QED BY <3>1, <1>5 DEF Hears
    <2>6. CASE stage[y] = "collect" \/ (stage[y] = "adding" /\ b \in todo[y])
        BY <2>6, <2>2, <1>5 DEF Hears
    <2> QED BY <2>1, <2>3, <2>4, <2>5, <2>6 DEF Hears
<1> QED BY <1>1, <1>2, <1>10, <1>11, <1>12
LEMMA PublishReadFailsHears ==
    ASSUME PubInv, HearInv, NEW c \in Pub, PublishReadFails(c)
    PROVE  HearInv'
<1> USE PublicationsAssumption
        DEF PubInv, PublicationsTypeOK, SubjectsNamed, HearInv, Task, At, Goto,
            PublishReadFails
<1>0. \A p \in ParticipantID : OneOffer(p)' => OneOffer(p)
    BY DEF OneOffer, Sourced
<1>1. Sourced'
    BY DEF Sourced
<1>2. Mapped'
    BY DEF Mapped
<1>3. Listed'
    BY DEF Listed, Begun, Sourced
<1>4. Once'
    BY <1>0, OneTrack DEF Once, Begun, Sourced, Listed
<1>5. Heard'
    BY <1>0, OneTrack DEF Heard, Hears, Once, Begun, Sourced, Listed, Mapped
<1> QED BY <1>1, <1>2, <1>3, <1>4, <1>5

LEMMA MuteRoomHears ==
    ASSUME PubInv, HearInv, NEW m \in Muter, NEW q0 \in ParticipantID,
           NEW value \in BOOLEAN, MuteRoom(m, q0, value)
    PROVE  HearInv'
<1> USE PublicationsAssumption
        DEF PubInv, PublicationsTypeOK, SubjectsNamed, HearInv, Task, At, Goto,
            MuteRoom
<1>0. \A p \in ParticipantID : OneOffer(p)' => OneOffer(p)
    BY DEF OneOffer, Sourced
<1>1. Sourced'
    BY DEF Sourced
<1>2. Mapped'
    BY DEF Mapped
<1>3. Listed'
    BY DEF Listed, Begun, Sourced
<1>4. Once'
    <2>1. \A u \in Task : u # m => stage'[u] = stage[u] /\ subject'[u] = subject[u]
        OBVIOUS
    <2>2. stage'[m] \notin {"unlink", "unlinkFailed"} /\ m \notin Pub
        OBVIOUS
    <2>3. publications' = publications /\ Pub \subseteq Task
        OBVIOUS
    <2> HIDE DEF MuteRoom, PublicationsTypeOK, SubjectsNamed, Task, PubInv
    <2> QED BY <1>0, <2>1, <2>2, <2>3 DEF Once, Begun
<1>5. Heard'
    BY <1>0, OneTrack DEF Heard, Hears, Once, Begun, Sourced, Listed, Mapped
<1> QED BY <1>1, <1>2, <1>3, <1>4, <1>5

LEMMA MuteFindHears ==
    ASSUME PubInv, HearInv, NEW m \in Muter, MuteFind(m)
    PROVE  HearInv'
<1> USE PublicationsAssumption
        DEF PubInv, PublicationsTypeOK, SubjectsNamed, HearInv, Task, At, Goto,
            MuteFind
<1>0. \A p \in ParticipantID : OneOffer(p)' => OneOffer(p)
    BY DEF OneOffer, Sourced
<1>1. Sourced'
    BY DEF Sourced
<1>2. Mapped'
    BY DEF Mapped
<1>3. Listed'
    BY DEF Listed, Begun, Sourced
<1>4. Once'
    BY <1>0, OneTrack DEF Once, Begun, Sourced, Listed
<1>5. Heard'
    BY <1>0, OneTrack DEF Heard, Hears, Once, Begun, Sourced, Listed, Mapped
<1> QED BY <1>1, <1>2, <1>3, <1>4, <1>5

LEMMA MuteStoreHears ==
    ASSUME PubInv, HearInv, NEW m \in Muter, MuteStore(m)
    PROVE  HearInv'
<1> USE PublicationsAssumption
        DEF PubInv, PublicationsTypeOK, SubjectsNamed, HearInv, Task, At, Goto,
            MuteStore
<1>0. \A p \in ParticipantID : OneOffer(p)' => OneOffer(p)
    BY DEF OneOffer, Sourced
<1>1. Sourced'
    BY DEF Sourced
<1>2. Mapped'
    BY DEF Mapped
<1>3. Listed'
    BY DEF Listed, Begun, Sourced
<1>4. Once'
    <2>1. \A u \in Task : u # m => stage'[u] = stage[u] /\ subject'[u] = subject[u]
        OBVIOUS
    <2>2. stage'[m] \notin {"unlink", "unlinkFailed"} /\ m \notin Pub
        OBVIOUS
    <2>3. publications' = publications /\ Pub \subseteq Task
        OBVIOUS
    <2> HIDE DEF MuteStore, PublicationsTypeOK, SubjectsNamed, Task, PubInv
    <2> QED BY <1>0, <2>1, <2>2, <2>3 DEF Once, Begun
<1>5. Heard'
    BY <1>0, OneTrack DEF Heard, Hears, Once, Begun, Sourced, Listed, Mapped
<1> QED BY <1>1, <1>2, <1>3, <1>4, <1>5

-----------------------------------------------------------------------------
LEMMA HearInvInit == PublicationsInit => HearInv
BY PublicationsAssumption
   DEF PublicationsInit, HearInv, Sourced, Mapped, Listed, Once, Heard, Begun, Task

LEMMA HearInvStep == PubInv /\ HearInv /\ [PublicationsNext]_vars => HearInv'
<1> SUFFICES ASSUME PubInv, HearInv, [PublicationsNext]_vars
             PROVE  HearInv'
    OBVIOUS
<1>1. CASE UNCHANGED vars
    BY <1>1
       DEF vars, HearInv, Sourced, Mapped, Listed, Once, Heard, Begun, Hears,
           OneOffer
<1>2. ASSUME NEW t \in Closer \cup Peer, NEW p \in ParticipantID, ClosePeer(t, p)
      PROVE  HearInv'
    BY <1>2, ClosePeerHears
<1>3. ASSUME NEW t \in Closer, NEW x \in Peer, CloseIfCurrent(t, x)
      PROVE  HearInv'
    BY <1>3, CloseIfCurrentHears
<1>4. ASSUME NEW t \in Closer, CloseRoom(t)
      PROVE  HearInv'
    BY <1>4, CloseRoomHears
<1>5. ASSUME NEW b \in Pub, NEW x \in Peer, PublishLoad(b, x)
      PROVE  HearInv'
    BY <1>5, PublishLoadHears
<1>6. ASSUME NEW m \in Muter, NEW p \in ParticipantID, NEW value \in BOOLEAN,
             MuteRoom(m, p, value)
      PROVE  HearInv'
    BY <1>6, MuteRoomHears
<1>7. ASSUME NEW t \in Task, Run(t)
      PROVE  HearInv'
    BY <1>7, UnlistHears, UnlinkHears, OfferInsertHears, OfferRefusedHears,
       OfferCollectHears, OfferAddHears, OfferAnsweredHears, OfferFailsHears,
       PublishRegisterHears, PublishReplaceHears, PublishEvictHears, PublishAddHears,
       PublishReadFailsHears, MuteFindHears, MuteStoreHears
       DEF Run
<1> QED BY <1>1, <1>2, <1>3, <1>4, <1>5, <1>6, <1>7 DEF PublicationsNext

(* At rest, every peer hears whoever has offered but once: for any number  *)
(* of members, connections and tracks, however their goroutines interleave.*)
THEOREM FirstListenersServed == PublicationsSpec => []FirstPublicationHeard
<1>1. PubInv /\ HearInv => FirstPublicationHeard
    <2> SUFFICES ASSUME PubInv, HearInv, Quiet, NEW p \in ParticipantID,
                        NEW q \in ParticipantID, p # q, publications[p] # NoPub,
                        peers[q] # NoPeer, OneOffer(p)
                 PROVE  senders[peers[q]][p] = publications[p]
        BY DEF FirstPublicationHeard
    <2>1. Hears(peers[q], p, publications[p])
        BY DEF HearInv, Heard
    <2>2. peers[q] \in Task /\ publications[p] \in Task
        BY PeerType DEF PubInv, PublicationsTypeOK, Task
    <2> QED BY <2>1, <2>2 DEF Hears, Quiet
<1>2. PublicationsInit => PubInv /\ HearInv
    BY PubInvInit, HearInvInit
<1>3. PubInv /\ HearInv /\ [PublicationsNext]_vars => PubInv' /\ HearInv'
    BY PubInvStep, HearInvStep
<1> QED BY <1>1, <1>2, <1>3, PTL DEF PublicationsSpec
-----------------------------------------------------------------------------
(***************************************************************************)
(* The track of the present connection is the listed one.  Whoever may     *)
(* unlist any track of p has taken p's peer away, and no new one is made   *)
(* before it has done so, or p is overtaken; the reader of a replaced      *)
(* connection unlists its own; and the present connection has one track.   *)
(***************************************************************************)
Present ==
    /\ \A m \in Muter : stage[m] \in {"idle", "find", "store"}
    /\ \A p \in ParticipantID \ overtaken, t \in Closer \cup Peer :
          subject[t] = p /\ stage[t] \in {"unlist", "unlistFailed"} => peers[p] = NoPeer
    /\ \A b \in Pub :
          (/\ stage[b] \in {"replace", "evicting", "adding", "reading"}
           /\ subject[b] \in ParticipantID \ overtaken
           /\ peers[subject[b]] = source[b]) => publications[subject[b]] = b

(* Whoever takes a peer out of the map leaves nothing to be listed for.    *)
LEMMA DropPresent ==
    ASSUME PubInv, HearInv, Present, NEW t \in Closer \cup Peer, NEW p \in ParticipantID,
           Drop(p), subject' = [subject EXCEPT ![t] = p],
           stage' \in {[stage EXCEPT ![t] = s] : s \in {"unlist", "unlistFailed"}}
    PROVE  Present'
<1>1. /\ t \in Task \ (Pub \cup Muter) /\ Pub \cup Muter \subseteq Task
      /\ subject \in [Task -> ParticipantID \cup {Nobody}] /\ DOMAIN stage = Task
    BY PublicationsAssumption DEF Task, PubInv, PublicationsTypeOK
<1>2. /\ peers' = [peers EXCEPT ![p] = NoPeer] /\ DOMAIN peers = ParticipantID
      /\ UNCHANGED <<publications, source, overtaken>>
    BY DEF Drop, PubInv, PublicationsTypeOK
<1>3. \A b \in Pub : stage[b] # "idle" => source[b] # NoPeer
    BY PublicationsAssumption DEF HearInv, Sourced
<1> QED BY <1>1, <1>2, <1>3 DEF Present, Task

(* Most steps change neither table and start nothing.                      *)
LEMMA PresentKept ==
    ASSUME Present, NEW t \in Task,
           stage' = stage \/ \E s : stage' = [stage EXCEPT ![t] = s],
           stage'[t] \in {"unlist", "unlistFailed"} =>
                t \in Pub \/ stage[t] \in {"unlist", "unlistFailed"},
           t \in Muter => stage'[t] \in {"idle", "find", "store"},
           stage'[t] \in {"replace", "evicting", "adding", "reading"} =>
                t \in Peer \/ stage[t] \in {"replace", "evicting", "adding", "reading"},
           \A u \in Closer \cup Peer \cup Pub : subject'[u] = subject[u] \/ stage[u] = "idle",
           \A b \in Pub : source'[b] = source[b] \/ stage[b] = "idle",
           stage[t] = "idle" /\ t \notin Muter => stage'[t] \in {"idle", "register"},
           DOMAIN stage = Task,
           UNCHANGED <<peers, publications, overtaken>>
    PROVE  Present'
<1>1. \A u \in Task : u # t => stage'[u] = stage[u]
    OBVIOUS
<1>2. Closer \cup Peer \cup Pub \cup Muter \subseteq Task
    BY DEF Task
<1>3. \A m \in Muter : stage'[m] \in {"idle", "find", "store"}
    BY <1>1, <1>2 DEF Present
<1>4. ASSUME NEW u \in Closer \cup Peer, stage'[u] \in {"unlist", "unlistFailed"}
      PROVE  stage[u] \in {"unlist", "unlistFailed"} /\ subject'[u] = subject[u]
    BY <1>1, <1>2, <1>4, PublicationsAssumption
<1>5. ASSUME NEW b \in Pub, stage'[b] \in {"replace", "evicting", "adding", "reading"}
      PROVE  /\ stage[b] \in {"replace", "evicting", "adding", "reading"}
             /\ subject'[b] = subject[b] /\ source'[b] = source[b]
    BY <1>1, <1>2, <1>5, PublicationsAssumption
<1>6. ASSUME NEW p \in ParticipantID \ overtaken', NEW u \in Closer \cup Peer,
             subject'[u] = p, stage'[u] \in {"unlist", "unlistFailed"}
      PROVE  peers'[p] = NoPeer
    BY <1>4, <1>6 DEF Present
<1>7. ASSUME NEW b \in Pub, stage'[b] \in {"replace", "evicting", "adding", "reading"},
             subject'[b] \in ParticipantID \ overtaken', peers'[subject'[b]] = source'[b]
      PROVE  publications'[subject'[b]] = b
    BY <1>5, <1>7 DEF Present
<1> QED BY <1>3, <1>6, <1>7 DEF Present

LEMMA PresentStep ==
    ASSUME PubInv, HearInv, Present, [PublicationsNext]_vars
    PROVE  Present'
<1> USE PublicationsAssumption
<1>1. CASE UNCHANGED vars
    BY <1>1 DEF vars, Present
<1>2. ASSUME NEW t \in Closer \cup Peer, NEW p \in ParticipantID, ClosePeer(t, p)
      PROVE  Present'
    BY <1>2, DropPresent DEF ClosePeer, Goto
<1>3. ASSUME NEW t \in Closer, NEW x \in Peer, CloseIfCurrent(t, x)
      PROVE  Present'
    <2>1. subject[x] \in ParticipantID
        BY <1>3 DEF CloseIfCurrent, PubInv, PublicationsTypeOK, Task
    <2> QED BY <1>3, <2>1, DropPresent DEF CloseIfCurrent, Goto
<1>4. ASSUME NEW t \in Closer, CloseRoom(t)
      PROVE  Present'
    BY <1>4 DEF CloseRoom, goroutines, Present, HearInv, Sourced
<1>5. ASSUME NEW b \in Pub, NEW x \in Peer, PublishLoad(b, x)
      PROVE  Present'
    BY <1>5, PresentKept DEF PublishLoad, At, Goto, PubInv, PublicationsTypeOK, Task
<1>6. ASSUME NEW m \in Muter, NEW p \in ParticipantID, NEW value \in BOOLEAN,
             MuteRoom(m, p, value)
      PROVE  Present'
    BY <1>6, PresentKept DEF MuteRoom, At, Goto, PubInv, PublicationsTypeOK, Task
<1>7. ASSUME NEW m \in Muter, MuteFind(m) \/ MuteStore(m)
      PROVE  Present'
    <2>1. CASE MuteFind(m)
        BY <2>1, PresentKept DEF MuteFind, At, Goto, PubInv, PublicationsTypeOK, Task
    <2>2. CASE MuteStore(m)
        BY <2>2, PresentKept DEF MuteStore, At, Goto, PubInv, PublicationsTypeOK, Task
    <2> QED BY <1>7, <2>1, <2>2
<1>8. ASSUME NEW t \in Task, Unlist(t)
      PROVE  Present'
    <2>1. CASE t \in Closer \cup Peer
        <3> DEFINE p == subject[t]
        <3>1. /\ t \in Task \ (Pub \cup Muter) /\ Closer \cup Peer \cup Pub \cup Muter \subseteq Task
              /\ stage[t] \in {"unlist", "unlistFailed"}
            BY <1>8, <2>1 DEF Unlist, Task
        <3>2. /\ \A u \in Task : u # t => stage'[u] = stage[u]
              /\ stage'[t] \notin {"unlist", "unlistFailed"}
            BY <1>8, <3>1 DEF Unlist, AfterUnlink, At, Goto, PubInv, PublicationsTypeOK
        <3>3. /\ \A q \in ParticipantID : publications'[q] = publications[q] \/ q = p
              /\ UNCHANGED <<peers, subject, source, overtaken>>
            BY <1>8 DEF Unlist, PubInv, PublicationsTypeOK
        <3>4. p \notin ParticipantID \ overtaken \/ peers[p] = NoPeer
            BY <2>1, <3>1 DEF Present
        <3>5. \A b \in Pub : stage[b] # "idle" => source[b] # NoPeer
            BY PublicationsAssumption DEF HearInv, Sourced
        <3> HIDE DEF p
        <3> QED BY <3>1, <3>2, <3>3, <3>4, <3>5 DEF Present
    <2>2. CASE t \in Pub
        BY <1>8, <2>2
           DEF Unlist, Unlisted, AfterUnlink, At, Goto, PubInv, PublicationsTypeOK, Present, Task
    <2>3. CASE t \in Muter
        BY <1>8, <2>3 DEF Unlist, Present
    <2> QED BY <2>1, <2>2, <2>3 DEF Task
<1>9. ASSUME NEW t \in Task, Unlink(t)
      PROVE  Present'
    BY <1>9, PresentKept
       DEF Unlink, AfterUnlink, At, Goto, PubInv, PublicationsTypeOK, Present, Task
<1>10. ASSUME NEW x \in Peer, OfferInsert(x)
       PROVE  Present'
    <2>1. \A b \in Pub : stage[b] # "idle" => source[b] # x
        BY <1>10 DEF OfferInsert, At, HearInv, Sourced
    <2> QED BY <1>10, <2>1
            DEF OfferInsert, AboutToUnlist, At, Goto, PubInv, PublicationsTypeOK, Present, Task
<1>11. ASSUME NEW x \in Peer,
              \/ OfferRefused(x) \/ OfferCollect(x) \/ OfferAnswered(x)
              \/ \E b \in Pub : OfferAdd(x, b)
       PROVE  Present'
    BY <1>11, PresentKept
       DEF OfferRefused, OfferCollect, OfferAnswered, OfferAdd, At, Goto, PubInv,
           PublicationsTypeOK, Task
<1>12. ASSUME NEW x \in Peer, OfferFails(x)
       PROVE  Present'
    <2>1. subject[x] \in ParticipantID /\ subject' = [subject EXCEPT ![x] = subject[x]]
        BY <1>12 DEF OfferFails, At, PubInv, PublicationsTypeOK, SubjectsNamed, Task
    <2> QED BY <1>12, <2>1, DropPresent DEF OfferFails, Goto
<1>13. ASSUME NEW b \in Pub, PublishRegister(b)
       PROVE  Present'
    BY <1>13
       DEF PublishRegister, At, Goto, PubInv, PublicationsTypeOK, SubjectsNamed, HearInv,
           Sourced, Present, Task
<1>14. ASSUME NEW b \in Pub,
              PublishReplace(b) \/ PublishEvict(b) \/ PublishAdd(b) \/ PublishReadFails(b)
       PROVE  Present'
    BY <1>14, PresentKept
       DEF PublishReplace, PublishEvict, PublishAdd, PublishReadFails, At, Goto, PubInv,
           PublicationsTypeOK, Task
<1>15. ASSUME NEW t \in Task, Run(t)
       PROVE  Present'
    BY <1>7, <1>8, <1>9, <1>10, <1>11, <1>12, <1>13, <1>14, <1>15 DEF Run
<1> QED BY <1>1, <1>2, <1>3, <1>4, <1>5, <1>6, <1>15 DEF PublicationsNext

(* README.md:37: what a connection that was not overtaken delivers is what *)
(* is forwarded, for any number of members, connections and tracks.        *)
THEOREM PresentTrackListed == PublicationsSpec => []LiveTrackListedUnlessOvertaken
<1>1. PublicationsInit => PubInv /\ HearInv /\ Present
    <2>1. PublicationsInit => Present
        <3>1. Closer \cup Peer \cup Pub \cup Muter \subseteq Task
            BY DEF Task
        <3> QED BY <3>1 DEF PublicationsInit, Present
    <2> QED BY <2>1, PubInvInit, HearInvInit
<1>2. PubInv /\ HearInv /\ Present /\ [PublicationsNext]_vars => PubInv' /\ HearInv' /\ Present'
    BY PubInvStep, HearInvStep, PresentStep
<1>3. PubInv /\ HearInv /\ Present => LiveTrackListedUnlessOvertaken
    BY DEF Present, PubInv, SubjectsNamed, LiveTrackListedUnlessOvertaken, At, Task
<1> QED BY <1>1, <1>2, <1>3, PTL DEF PublicationsSpec
=============================================================================
