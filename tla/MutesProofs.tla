---------------------------- MODULE MutesProofs ----------------------------
(***************************************************************************)
(* An owner's command is enforced unless it has raced, for any number of   *)
(* members, connections, tracks and owners' connections.                   *)
(*                                                                         *)
(* MuteEnforcedUnlessRaced speaks of a member whom no command concerns at  *)
(* the moment.  While one is under way it is alone, carries the value that *)
(* room.Manager has, and is going to put right whatever flag is wrong; and *)
(* a track that is not listed yet counts like the one that is.             *)
(***************************************************************************)
EXTENDS PublicationsProofs

\* m's command concerns p.
Concerns(m, p) == stage[m] \in {"find", "store"} /\ subject[m] = p

OneCommand ==
    \A p \in ParticipantID \ raced : \A m, n \in Muter :
        Concerns(m, p) /\ Concerns(n, p) => m = n

CommandCurrent ==
    \A p \in ParticipantID \ raced : \A m \in Muter :
        Concerns(m, p) => (order[m].value <=> p \in mutedByOwner)

\* The publication that a command has found is one of its member's.
FoundIsTheirs ==
    \A m \in Muter : At(m, "store") /\ order[m].pub # NoPub =>
        /\ order[m].pub \in Pub
        /\ stage[order[m].pub] # "idle" /\ subject[order[m].pub] = subject[m]

\* b is p's track, or about to be.
Coming(b, p) == publications[p] = b \/ (At(b, "register") /\ subject[b] = p)

Righted(b, p) ==
    \E m \in Muter : /\ Concerns(m, p)
                     /\ At(m, "find") \/ order[m].pub = b

FlagsRight ==
    \A p \in ParticipantID \ raced : \A b \in Pub :
        Coming(b, p) => (muted[b] <=> p \in mutedByOwner) \/ Righted(b, p)

\* The handler of a mute runs no other loop.
MutersOnlyMute == \A m \in Muter : stage[m] \in {"idle", "find", "store"}

MuteInv == MutersOnlyMute /\ OneCommand /\ CommandCurrent /\ FoundIsTheirs /\ FlagsRight

(* A step that neither begins nor advances a command, and lists no track   *)
(* but one that was about to be, keeps it.                                 *)
LEMMA OtherStepMutes ==
    ASSUME PubInv, HearInv, MuteInv,
           UNCHANGED <<muted, mutedByOwner, order, raced>>,
           \A m \in Muter : stage'[m] = stage[m] /\ subject'[m] = subject[m],
           \A b \in Pub : stage[b] # "idle" => stage'[b] # "idle" /\ subject'[b] = subject[b],
           \A b \in Pub, p \in ParticipantID : Coming(b, p)' => Coming(b, p)
    PROVE  MuteInv'
<1>1. raced' = raced
    OBVIOUS
<1>2. \A m \in Muter, p \in ParticipantID : Concerns(m, p)' <=> Concerns(m, p)
    BY DEF Concerns
<1>3. OneCommand'
    BY <1>1, <1>2 DEF MuteInv, OneCommand
<1>4. CommandCurrent'
    BY <1>1, <1>2 DEF MuteInv, CommandCurrent
<1>5. FoundIsTheirs'
    BY DEF MuteInv, FoundIsTheirs, At
<1>6. \A b \in Pub, p \in ParticipantID : Righted(b, p) => Righted(b, p)'
    BY <1>2 DEF Righted, At
<1>7. FlagsRight'
    BY <1>1, <1>6 DEF MuteInv, FlagsRight
<1>8. MutersOnlyMute'
    BY DEF MuteInv, MutersOnlyMute
<1> QED BY <1>3, <1>4, <1>5, <1>7, <1>8 DEF MuteInv

(* publish reads the flag that room.Manager has.                           *)
LEMMA PublishLoadMutes ==
    ASSUME PubInv, HearInv, MuteInv, NEW b \in Pub, NEW x \in Peer, PublishLoad(b, x)
    PROVE  MuteInv'
<1> USE PublicationsAssumption
<1>1. /\ UNCHANGED <<mutedByOwner, order, publications>> /\ stage[b] = "idle"
      /\ \A t \in Task \ {b} : stage'[t] = stage[t] /\ subject'[t] = subject[t]
      /\ stage'[b] = "register" /\ subject'[b] = subject[x]
      /\ \A c \in Pub \ {b} : muted'[c] = muted[c]
      /\ muted'[b] = (subject[x] \in mutedByOwner)
      /\ Muter \subseteq Task \ {b} /\ Pub \subseteq Task
    BY DEF PublishLoad, At, Goto, PubInv, PublicationsTypeOK, Task
<1>3. raced' = raced
    BY DEF PublishLoad
<1>4. \A m \in Muter, p \in ParticipantID : Concerns(m, p)' <=> Concerns(m, p)
    BY <1>1 DEF Concerns
<1>5. OneCommand' /\ CommandCurrent'
    BY <1>1, <1>3, <1>4 DEF MuteInv, OneCommand, CommandCurrent
<1>6. FoundIsTheirs'
    BY <1>1 DEF MuteInv, FoundIsTheirs, At
<1>7. FlagsRight'
    <2> SUFFICES ASSUME NEW p \in ParticipantID \ raced', NEW c \in Pub, Coming(c, p)'
                 PROVE  (muted'[c] <=> p \in mutedByOwner') \/ Righted(c, p)'
        BY DEF FlagsRight
    <2>1. publications[p] # b
        BY <1>1, <1>3 DEF HearInv, Listed, Begun
    <2>2. CASE c = b
        BY <1>1, <2>1, <2>2 DEF Coming
    <2>3. CASE c # b
        <3>1. Coming(c, p)
            BY <1>1, <2>3 DEF Coming, At
        <3>2. (muted[c] <=> p \in mutedByOwner) \/ Righted(c, p)
            BY <1>3, <3>1 DEF MuteInv, FlagsRight
        <3> QED BY <1>1, <1>4, <2>3, <3>2 DEF Righted, At
    <2> QED BY <2>2, <2>3
<1>8. MutersOnlyMute'
    BY <1>1 DEF MuteInv, MutersOnlyMute
<1> QED BY <1>5, <1>6, <1>7, <1>8 DEF MuteInv

(* A command starts afresh for its member, or overlaps with another one.   *)
LEMMA MuteRoomMutes ==
    ASSUME PubInv, HearInv, MuteInv, NEW m \in Muter, NEW p \in ParticipantID,
           NEW value \in BOOLEAN, MuteRoom(m, p, value)
    PROVE  MuteInv'
<1> USE PublicationsAssumption
<1>1. /\ UNCHANGED <<publications, muted>> /\ stage[m] = "idle"
      /\ \A t \in Task \ {m} : stage'[t] = stage[t] /\ subject'[t] = subject[t]
      /\ stage'[m] = "find" /\ subject'[m] = p
      /\ \A n \in Muter \ {m} : order'[n] = order[n]
      /\ order'[m].value = value /\ (p \in mutedByOwner' <=> value)
      /\ \A q \in ParticipantID \ {p} : q \in mutedByOwner' <=> q \in mutedByOwner
      /\ Pub \subseteq Task \ {m} /\ Muter \subseteq Task
    BY DEF MuteRoom, At, Goto, PubInv, PublicationsTypeOK, Task
<1>3. raced' = IF InFlight(p) THEN raced \cup {p} ELSE raced \ {p}
    BY DEF MuteRoom
<1>4. /\ \A n \in Muter, q \in ParticipantID :
            Concerns(n, q)' <=> (Concerns(n, q) \/ (n = m /\ q = p))
      /\ \A n \in Muter : Concerns(n, p) => p \in raced'
      /\ \A q \in ParticipantID : ~Concerns(m, q)
    BY <1>1, <1>3 DEF Concerns, InFlight
<1>5. OneCommand'
    BY <1>3, <1>4 DEF MuteInv, OneCommand
<1>6. CommandCurrent'
    BY <1>1, <1>3, <1>4 DEF MuteInv, CommandCurrent
<1>7. FoundIsTheirs'
    BY <1>1 DEF MuteInv, FoundIsTheirs, At
<1>8. FlagsRight'
    <2> SUFFICES ASSUME NEW q \in ParticipantID \ raced', NEW b \in Pub, Coming(b, q)'
                 PROVE  (muted'[b] <=> q \in mutedByOwner') \/ Righted(b, q)'
        BY DEF FlagsRight
    <2>1. CASE q = p
        BY <1>1, <1>4, <2>1 DEF Righted, At
    <2>2. CASE q # p
        <3>1. q \notin raced /\ Coming(b, q)
            BY <1>1, <1>3, <2>2 DEF Coming, At
        <3>2. (muted[b] <=> q \in mutedByOwner) \/ Righted(b, q)
            BY <3>1 DEF MuteInv, FlagsRight
        <3>3. Righted(b, q) => Righted(b, q)'
            BY <1>1, <1>4 DEF Righted, At
        <3> QED BY <1>1, <2>2, <3>2, <3>3
    <2> QED BY <2>1, <2>2
<1>9. MutersOnlyMute'
    BY <1>1 DEF MuteInv, MutersOnlyMute
<1> QED BY <1>5, <1>6, <1>7, <1>8, <1>9 DEF MuteInv

(* A command that finds the listed publication misses the one that is not  *)
(* listed yet; unless that one has the right flag already, it has raced.   *)
LEMMA MuteFindMutes ==
    ASSUME PubInv, HearInv, MuteInv, NEW m \in Muter, MuteFind(m)
    PROVE  MuteInv'
<1> USE PublicationsAssumption
<1>1. /\ UNCHANGED <<publications, muted, mutedByOwner, subject>> /\ stage[m] = "find"
      /\ \A t \in Task \ {m} : stage'[t] = stage[t]
      /\ stage'[m] = "store" /\ subject[m] \in ParticipantID
      /\ \A n \in Muter \ {m} : order'[n] = order[n]
      /\ order'[m].value = order[m].value /\ order'[m].pub = publications[subject[m]]
      /\ Pub \subseteq Task \ {m} /\ Muter \subseteq Task
      /\ \A q \in ParticipantID : publications[q] \in Pub \cup {NoPub}
    BY DEF MuteFind, At, Goto, PubInv, PublicationsTypeOK, SubjectsNamed, Task
<1>2. raced' = IF Missed(m) THEN raced \cup {subject[m]} ELSE raced
    BY DEF MuteFind
<1>3. \A n \in Muter, q \in ParticipantID : Concerns(n, q)' <=> Concerns(n, q)
    BY <1>1 DEF Concerns
<1>4. OneCommand'
    BY <1>2, <1>3 DEF MuteInv, OneCommand
<1>5. CommandCurrent'
    BY <1>1, <1>2, <1>3 DEF MuteInv, CommandCurrent
<1>6. FoundIsTheirs'
    BY <1>1 DEF MuteInv, FoundIsTheirs, At, HearInv, Listed, Begun
<1>7. FlagsRight'
    <2> SUFFICES ASSUME NEW q \in ParticipantID \ raced', NEW b \in Pub, Coming(b, q)'
                 PROVE  (muted'[b] <=> q \in mutedByOwner') \/ Righted(b, q)'
        BY DEF FlagsRight
    <2>1. q \notin raced /\ (q = subject[m] => ~Missed(m)) /\ Coming(b, q)
        BY <1>1, <1>2 DEF Coming, At
    <2>2. (muted[b] <=> q \in mutedByOwner) \/ Righted(b, q)
        BY <2>1 DEF MuteInv, FlagsRight
    <2>3. CASE q # subject[m]
        BY <1>1, <1>3, <2>2, <2>3 DEF Righted, Concerns, At
    <2>4. CASE q = subject[m] /\ publications[q] = b
        BY <1>1, <1>3, <2>4 DEF Righted, Concerns, At
    <2>5. CASE q = subject[m] /\ At(b, "register") /\ subject[b] = q
        <3>1. muted[b] = order[m].value
            BY <1>1, <2>1, <2>5 DEF Missed, At
        <3>2. order[m].value <=> q \in mutedByOwner
            BY <1>1, <2>1, <2>5 DEF MuteInv, CommandCurrent, Concerns
        <3> QED BY <1>1, <3>1, <3>2
    <2> QED BY <2>1, <2>3, <2>4, <2>5 DEF Coming
<1>8. MutersOnlyMute'
    BY <1>1 DEF MuteInv, MutersOnlyMute
<1> QED BY <1>4, <1>5, <1>6, <1>7, <1>8 DEF MuteInv

(* The flag that was wrong is the one that the command stores.             *)
LEMMA MuteStoreMutes ==
    ASSUME PubInv, HearInv, MuteInv, NEW m \in Muter, MuteStore(m)
    PROVE  MuteInv'
<1> USE PublicationsAssumption
<1>1. /\ UNCHANGED <<publications, mutedByOwner>> /\ stage[m] = "store"
      /\ \A t \in Task \ {m} : stage'[t] = stage[t] /\ subject'[t] = subject[t]
      /\ stage'[m] = "idle" /\ subject[m] \in ParticipantID
      /\ \A n \in Muter \ {m} : order'[n] = order[n]
      /\ \A b \in Pub : muted'[b] = IF b = order[m].pub THEN order[m].value ELSE muted[b]
      /\ Pub \subseteq Task \ {m} /\ Muter \subseteq Task
    BY DEF MuteStore, At, Goto, PubInv, PublicationsTypeOK, SubjectsNamed, Task
<1>2. raced' = raced
    BY DEF MuteStore
<1>3. \A n \in Muter, q \in ParticipantID : Concerns(n, q)' <=> (Concerns(n, q) /\ n # m)
    BY <1>1 DEF Concerns
<1>4. OneCommand' /\ CommandCurrent'
    BY <1>1, <1>2, <1>3 DEF MuteInv, OneCommand, CommandCurrent
<1>5. FoundIsTheirs'
    BY <1>1 DEF MuteInv, FoundIsTheirs, At
<1>6. FlagsRight'
    <2> SUFFICES ASSUME NEW q \in ParticipantID \ raced', NEW b \in Pub, Coming(b, q)'
                 PROVE  (muted'[b] <=> q \in mutedByOwner') \/ Righted(b, q)'
        BY DEF FlagsRight
    <2>1. q \notin raced /\ Coming(b, q)
        BY <1>1, <1>2 DEF Coming, At
    <2>2. (muted[b] <=> q \in mutedByOwner) \/ Righted(b, q)
        BY <2>1 DEF MuteInv, FlagsRight
    <2>3. subject[b] = q
        BY <2>1 DEF Coming, HearInv, Listed
    <2>4. CASE q # subject[m]
        <3>1. b # order[m].pub
            BY <1>1, <2>3, <2>4 DEF MuteInv, FoundIsTheirs, At
        <3> QED BY <1>1, <1>3, <2>2, <2>4, <3>1 DEF Righted, Concerns, At
    <2>5. CASE q = subject[m]
        <3>1. order[m].value <=> q \in mutedByOwner
            BY <1>1, <2>1, <2>5 DEF MuteInv, CommandCurrent, Concerns
        <3>2. \A n \in Muter : Concerns(n, q) => n = m
            BY <1>1, <2>1, <2>5 DEF MuteInv, OneCommand, Concerns
        <3>3. Righted(b, q) => order[m].pub = b
            BY <1>1, <3>2 DEF Righted, At
        <3> QED BY <1>1, <2>2, <3>1, <3>3
    <2> QED BY <2>4, <2>5
<1>7. MutersOnlyMute'
    BY <1>1 DEF MuteInv, MutersOnlyMute
<1> QED BY <1>4, <1>5, <1>6, <1>7 DEF MuteInv

(* The goroutines that have nothing to do with mutes.                      *)
LEMMA TableStepMutes ==
    ASSUME PubInv, HearInv, MuteInv, NEW t \in Task, t \notin Muter,
           UNCHANGED <<muted, mutedByOwner, order, raced>>,
           \A u \in Task \ {t} : stage'[u] = stage[u] /\ subject'[u] = subject[u],
           t \in Pub => stage'[t] \notin {"idle", "register"} /\ subject'[t] = subject[t],
           \A p \in ParticipantID : \/ publications'[p] \in {publications[p], NoPub}
                                    \/ publications'[p] = t /\ Coming(t, p)
    PROVE  MuteInv'
<1>1. \A b \in Pub, p \in ParticipantID : Coming(b, p)' => Coming(b, p)
    BY PublicationsAssumption DEF Coming, At, Task
<1> QED BY <1>1, OtherStepMutes DEF Task

LEMMA MuteInvStep ==
    ASSUME PubInv, HearInv, MuteInv, [PublicationsNext]_vars
    PROVE  MuteInv'
<1> USE PublicationsAssumption
<1>1. CASE UNCHANGED vars
    BY <1>1 DEF vars, MuteInv, MutersOnlyMute, OneCommand, CommandCurrent,
                FoundIsTheirs, FlagsRight,
                Concerns, Righted, Coming, At
<1>2. CASE PublicationsNext
    <2>1. ASSUME NEW t \in Closer \cup Peer, NEW p \in ParticipantID, ClosePeer(t, p)
          PROVE  MuteInv'
        BY <2>1, TableStepMutes
           DEF ClosePeer, Drop, At, Goto, PubInv, PublicationsTypeOK, Task
    <2>2. ASSUME NEW t \in Closer, NEW x \in Peer, CloseIfCurrent(t, x)
          PROVE  MuteInv'
        BY <2>2, TableStepMutes
           DEF CloseIfCurrent, Drop, At, Goto, PubInv, PublicationsTypeOK, Task
    <2>3. ASSUME NEW t \in Closer, CloseRoom(t)
          PROVE  MuteInv'
        BY <2>3, TableStepMutes DEF CloseRoom, goroutines, At, Task
    <2>4. ASSUME NEW b \in Pub, NEW x \in Peer, PublishLoad(b, x)
          PROVE  MuteInv'
        BY <2>4, PublishLoadMutes
    <2>5. ASSUME NEW m \in Muter, NEW p \in ParticipantID, NEW value \in BOOLEAN,
                 MuteRoom(m, p, value)
          PROVE  MuteInv'
        BY <2>5, MuteRoomMutes
    <2>6. ASSUME NEW t \in Task, Unlist(t) \/ Unlink(t)
          PROVE  MuteInv'
        <3>1. /\ UNCHANGED <<muted, mutedByOwner, order, raced, subject>>
              /\ t \notin Muter
              /\ t \in Pub => stage'[t] \notin {"idle", "register"}
              /\ \A u \in Task \ {t} : stage'[u] = stage[u]
              /\ \A p \in ParticipantID : publications'[p] \in {publications[p], NoPub}
            <4>1. /\ UNCHANGED <<muted, mutedByOwner, order, raced, subject>>
                  /\ stage[t] \in {"unlist", "unlistFailed", "unlink", "unlinkFailed"}
                BY <2>6 DEF Unlist, Unlink
            <4>2. t \notin Muter
                BY <4>1 DEF MuteInv, MutersOnlyMute
            <4>3. \/ UNCHANGED stage
                  \/ \E s : Goto(t, s) /\ (t \in Pub => s \notin {"idle", "register"})
                BY <2>6, <4>1 DEF Unlist, Unlink, AfterUnlink
            <4>4. /\ t \in Pub => stage'[t] \notin {"idle", "register"}
                  /\ \A u \in Task \ {t} : stage'[u] = stage[u]
                BY <4>1, <4>3 DEF Goto, PubInv, PublicationsTypeOK
            <4>5. \A p \in ParticipantID : publications'[p] \in {publications[p], NoPub}
                BY <2>6 DEF Unlist, Unlink, PubInv, PublicationsTypeOK
            <4> QED BY <4>1, <4>2, <4>4, <4>5
        <3> QED BY <3>1, TableStepMutes
    <2>7. ASSUME NEW x \in Peer,
                 \/ OfferInsert(x) \/ OfferRefused(x) \/ OfferCollect(x)
                 \/ OfferAnswered(x) \/ OfferFails(x)
                 \/ \E b \in Pub : OfferAdd(x, b)
          PROVE  MuteInv'
        <3>1. /\ UNCHANGED <<muted, mutedByOwner, order, raced, subject, publications>>
              /\ \A u \in Task \ {x} : stage'[u] = stage[u]
            BY <2>7 DEF OfferInsert, OfferRefused, OfferCollect, OfferAnswered, OfferFails,
                        OfferAdd, Drop, At, Goto, PubInv, PublicationsTypeOK, Task
        <3> QED BY <3>1, TableStepMutes DEF Task
    <2>8. ASSUME NEW b \in Pub,
                 \/ PublishReplace(b) \/ PublishEvict(b) \/ PublishAdd(b) \/ PublishReadFails(b)
          PROVE  MuteInv'
        <3>1. /\ UNCHANGED <<muted, mutedByOwner, order, raced, subject, publications>>
              /\ stage'[b] \notin {"idle", "register"}
              /\ \A u \in Task \ {b} : stage'[u] = stage[u]
            BY <2>8 DEF PublishReplace, PublishEvict, PublishAdd, PublishReadFails, At, Goto,
                        PubInv, PublicationsTypeOK, Task
        <3> QED BY <3>1, TableStepMutes DEF Task
    <2>9. ASSUME NEW b \in Pub, PublishRegister(b)
           PROVE  MuteInv'
        <3>1. /\ UNCHANGED <<muted, mutedByOwner, order, raced, subject>>
              /\ At(b, "register") /\ stage'[b] \notin {"idle", "register"}
              /\ \A u \in Task \ {b} : stage'[u] = stage[u]
              /\ \A p \in ParticipantID : \/ publications'[p] = publications[p]
                                          \/ publications'[p] = b /\ p = subject[b]
            BY <2>9 DEF PublishRegister, At, Goto, PubInv, PublicationsTypeOK, Task
        <3>2. \A p \in ParticipantID : \/ publications'[p] \in {publications[p], NoPub}
                                       \/ publications'[p] = b /\ Coming(b, p)
            BY <3>1 DEF Coming
        <3> QED BY <3>1, <3>2, TableStepMutes DEF Task
    <2>10. ASSUME NEW m \in Muter, MuteFind(m) \/ MuteStore(m)
           PROVE  MuteInv'
        BY <2>10, MuteFindMutes, MuteStoreMutes
    <2> QED BY <1>2, <2>1, <2>2, <2>3, <2>4, <2>5, <2>6, <2>7, <2>8, <2>9, <2>10
            DEF PublicationsNext, Run
<1> QED BY <1>1, <1>2

LEMMA MuteInvInit == PublicationsInit => MuteInv
<1> SUFFICES ASSUME PublicationsInit
             PROVE  MuteInv
    OBVIOUS
<1>1. \A t \in Task : stage[t] = "idle"
    BY DEF PublicationsInit
<1>2. \A p \in ParticipantID : publications[p] = NoPub
    BY DEF PublicationsInit
<1> QED BY <1>1, <1>2, PublicationsAssumption
        DEF MuteInv, MutersOnlyMute, OneCommand, CommandCurrent, FoundIsTheirs, FlagsRight,
            Concerns, Coming, At, Task
-----------------------------------------------------------------------------
(* The invariant above holds: a command in flight that has not raced is    *)
(* the only one for its member, and a wrong flag is one it will store.     *)
THEOREM MutesInvariant == PublicationsSpec => [](PubInv /\ HearInv /\ MuteInv)
<1>1. PublicationsInit => PubInv /\ HearInv /\ MuteInv
    BY PubInvInit, HearInvInit, MuteInvInit
<1>2. PubInv /\ HearInv /\ MuteInv /\ [PublicationsNext]_vars => (PubInv /\ HearInv /\ MuteInv)'
    BY PubInvStep, HearInvStep, MuteInvStep
<1> QED BY <1>1, <1>2, PTL DEF PublicationsSpec

(* README.md:39: between commands the track that is forwarded has the flag *)
(* that room.Manager has for its member, whoever has replaced whose        *)
(* connection, unless the last command has raced: only a command that      *)
(* looked for the publication while publish had already read the other     *)
(* flag, or that overlapped with another one, can be lost.                 *)
THEOREM MutesEnforced == PublicationsSpec => []MuteEnforcedUnlessRaced
<1>1. HearInv /\ PubInv /\ MuteInv => MuteEnforcedUnlessRaced
    <2> SUFFICES ASSUME HearInv, PubInv, MuteInv, NEW p \in ParticipantID, p \notin raced,
                        ~InFlight(p), publications[p] # NoPub
                 PROVE  muted[publications[p]] <=> p \in mutedByOwner
        BY DEF MuteEnforcedUnlessRaced
    <2>1. publications[p] \in Pub /\ Coming(publications[p], p)
        BY DEF PubInv, PublicationsTypeOK, Coming
    <2>2. \A b \in Pub : ~Righted(b, p)
        BY DEF Righted, Concerns, InFlight
    <2> QED BY <2>1, <2>2 DEF MuteInv, FlagsRight
<1> QED BY <1>1, MutesInvariant, PTL
=============================================================================
