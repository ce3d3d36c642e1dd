---------------------------- MODULE Publications ----------------------------
(***************************************************************************)
(* The forwarding tables of media.Manager (internal/media/manager.go): who *)
(* has a peer, who publishes a track, which track each peer sends on, and  *)
(* the mute flag on its way from room.Manager to the packets.  One room:   *)
(* all keys carry the room ID and rooms share nothing.                     *)
(*                                                                         *)
(* The running goroutines are named after what they work for: a Peer is    *)
(* also the HandleOffer call that makes it, a Pub the publish call that    *)
(* makes it and then reads its packets; a Closer is a caller of ClosePeer, *)
(* CloseRoom or closeIfCurrent, a Muter the setMuted handler of one owner  *)
(* connection.  A step is one critical section of Manager.mu or peer.mu.   *)
(* p.close() is taken together with the deletion from the peers map before *)
(* it: it only concerns a peer that nobody finds any more.                 *)
(*                                                                         *)
(* Pion's AddTrack and RemoveTrack are taken to succeed on an open         *)
(* connection, and a connection to deliver one audio track, the microphone *)
(* of its browser.                                                         *)
(***************************************************************************)

CONSTANTS
    ParticipantID, Peer, Pub, Closer, Muter,
    Nobody, NoPeer, NoPub

Task == Peer \cup Pub \cup Closer \cup Muter

ASSUME PublicationsAssumption ==
    /\ Peer \cap (Pub \cup Closer \cup Muter) = {}
    /\ Pub \cap (Closer \cup Muter) = {}
    /\ Closer \cap Muter = {}
    /\ Nobody \notin ParticipantID
    /\ NoPeer \notin Peer
    /\ NoPub \notin Pub

VARIABLES
    peers,          \* Manager.peers of the room
    publications,   \* Manager.publications of the room
    closed,         \* peers with closed set
    senders,        \* peer.senders: the publication each sender forwards
    source,         \* source[b]: the peer whose remote track b forwards
    muted,          \* publication.muted
    mutedByOwner,   \* the members room.Manager has as muted
    stage,          \* stage[t]: the next step of goroutine t
    subject,        \* subject[t]: the participant t works on
    todo,           \* todo[t]: the rest of t's loop over listeners or tracks
    evict,          \* evict[b]: the rest of removePublicationFromPeers
    order,          \* order[m]: the muted argument, and the publication found
    raced,          \* history: the members whose last command has overlapped with
                    \* another one, or missed a track that was about to be listed
    overtaken       \* history: the members whose peer was made before the removal of
                    \* an earlier one was over, or has met a late track of one

vars == <<peers, publications, closed, senders, source, muted, mutedByOwner,
          stage, subject, todo, evict, order, raced, overtaken>>

goroutines == <<stage, subject, todo, evict, order>>

\* peersInRoomLocked: everybody's peer but p's.
peersInRoom(p) == {peers[q] : q \in ParticipantID \ {p}} \ {NoPeer}

At(t, s) == stage[t] = s
Goto(t, s) == stage' = [stage EXCEPT ![t] = s]

NoOrder == [value |-> FALSE, pub |-> NoPub]
-----------------------------------------------------------------------------
PublicationsInit ==
    /\ peers = [p \in ParticipantID |-> NoPeer]
    /\ publications = [p \in ParticipantID |-> NoPub]
    /\ closed = {}
    /\ senders = [x \in Peer |-> [p \in ParticipantID |-> NoPub]]
    /\ source = [b \in Pub |-> NoPeer]
    /\ muted = [b \in Pub |-> FALSE]
    /\ mutedByOwner = {}
    /\ stage = [t \in Task |-> "idle"]
    /\ subject = [t \in Task |-> Nobody]
    /\ todo = [t \in Task |-> {}]
    /\ evict = [b \in Pub |-> {}]
    /\ order = [m \in Muter |-> NoOrder]
    /\ raced = {}
    /\ overtaken = {}

(* peer.removePublication for listener y, and addPublicationToPeer of b,   *)
(* published by p, to y: both do nothing on a closed peer, and a peer      *)
(* never gets its own participant's audio, nor a second sender for the     *)
(* same participant.                                                       *)
removeSender(y, p) ==
    senders' = IF y \in closed THEN senders
                               ELSE [senders EXCEPT ![y][p] = NoPub]

addPublicationToPeer(y, p, b) ==
    senders' = IF subject[y] = p \/ y \in closed \/ senders[y][p] # NoPub
               THEN senders
               ELSE [senders EXCEPT ![y][p] = b]
-----------------------------------------------------------------------------
(* ClosePeer: Drop takes the peer of p out of the map and closes it,       *)
(* Unlist is the critical section of removePublication and Unlink its loop *)
(* over the listeners.  HandleOffer begins with it, so a Peer does too.    *)
Drop_NoNilCheck(p) ==
    /\ closed' = closed \cup {peers[p]}
    /\ peers' = [peers EXCEPT ![p] = NoPeer]
    /\ UNCHANGED <<publications, senders, source, muted, mutedByOwner,
                   todo, evict, order, raced, overtaken>>

Drop(p) ==
    /\ closed' = closed \cup ({peers[p]} \ {NoPeer})
    /\ peers' = [peers EXCEPT ![p] = NoPeer]
    /\ UNCHANGED <<publications, senders, source, muted, mutedByOwner,
                   todo, evict, order, raced, overtaken>>

ClosePeer(t, p) ==
    /\ t \in Closer \cup Peer
    /\ At(t, "idle")
    /\ Drop(p)
    /\ Goto(t, "unlist")
    /\ subject' = [subject EXCEPT ![t] = p]

\* closeIfCurrent, called when the transport of x failed.
CloseIfCurrent(t, x) ==
    LET p == subject[x]
    IN  /\ At(t, "idle")
        /\ p # Nobody /\ peers[p] = x
        /\ Drop(p)
        /\ Goto(t, "unlist")
        /\ subject' = [subject EXCEPT ![t] = p]

\* CloseRoom: one critical section empties both maps.
CloseRoom(t) ==
    /\ At(t, "idle")
    /\ closed' = closed \cup ({peers[p] : p \in ParticipantID} \ {NoPeer})
    /\ peers' = [p \in ParticipantID |-> NoPeer]
    /\ publications' = [p \in ParticipantID |-> NoPub]
    /\ UNCHANGED <<senders, source, muted, mutedByOwner, goroutines, raced, overtaken>>

\* Where t goes after removePublication.
AfterUnlink(t) ==
    IF t \in Closer THEN "idle"
    ELSE IF t \in Pub \/ stage[t] \in {"unlistFailed", "unlinkFailed"} THEN "done"
    ELSE "insert"

\* The publications removePublication(p, only) would remove; only is nil but
\* for the publish goroutine, which removes nothing but its own.
Unlisted_Any(t, p) == {publications[p]} \ {NoPub}

Unlisted_NotOwn(t, p) == IF t \in Pub THEN {} ELSE {publications[p]} \ {NoPub}

Unlisted(t, p) ==
    IF t \in Pub THEN {publications[p]} \cap {t} ELSE {publications[p]} \ {NoPub}

Unlist(t) ==
    LET p == subject[t]
        gone == Unlisted(t, p)
    IN  /\ stage[t] \in {"unlist", "unlistFailed"}
        /\ IF gone = {}
           THEN /\ Goto(t, AfterUnlink(t))
                /\ UNCHANGED <<publications, todo>>
           ELSE /\ publications' = [publications EXCEPT ![p] = NoPub]
                /\ todo' = [todo EXCEPT ![t] = peersInRoom(p)]
                /\ Goto(t, IF At(t, "unlist") THEN "unlink" ELSE "unlinkFailed")
        /\ UNCHANGED <<peers, closed, senders, source, muted, mutedByOwner,
                       subject, evict, order, raced, overtaken>>

Unlink(t) ==
    /\ stage[t] \in {"unlink", "unlinkFailed"}
    /\ \/ \E y \in todo[t] : /\ removeSender(y, subject[t])
                             /\ todo' = [todo EXCEPT ![t] = @ \ {y}]
                             /\ UNCHANGED stage
       \/ /\ todo[t] = {}
          /\ Goto(t, AfterUnlink(t))
          /\ UNCHANGED <<todo, senders>>
    /\ UNCHANGED <<peers, publications, closed, source, muted, mutedByOwner,
                   subject, evict, order, raced, overtaken>>
-----------------------------------------------------------------------------
(* HandleOffer after its ClosePeer.                                        *)
\* Those who have taken p's peer away and have yet to unlist its track.
AboutToUnlist(p) ==
    {t \in Closer \cup Peer : subject[t] = p /\ stage[t] \in {"unlist", "unlistFailed"}}

OfferInsert(x) ==
    LET p == subject[x]
    IN  /\ At(x, "insert")
        /\ peers' = [peers EXCEPT ![p] = x]
        /\ Goto(x, "collect")
        /\ overtaken' = IF AboutToUnlist(p) = {} THEN overtaken \ {p}
                                                 ELSE overtaken \cup {p}
        /\ UNCHANGED <<publications, closed, senders, source, muted, mutedByOwner,
                       subject, todo, evict, order, raced>>

\* NewPeerConnection fails: no peer is made.
OfferRefused(x) ==
    /\ At(x, "insert")
    /\ Goto(x, "done")
    /\ UNCHANGED <<peers, publications, closed, senders, source, muted, mutedByOwner,
                   subject, todo, evict, order, raced, overtaken>>

OfferCollect_Nothing(x) ==
    /\ At(x, "collect")
    /\ Goto(x, "adding")
    /\ UNCHANGED <<peers, publications, closed, senders, source, muted,
                   mutedByOwner, subject, todo, evict, order, raced, overtaken>>

\* roomPublications, without the participant's own.
OfferCollect(x) ==
    /\ At(x, "collect")
    /\ todo' = [todo EXCEPT ![x] =
                    {publications[q] : q \in ParticipantID \ {subject[x]}} \ {NoPub}]
    /\ Goto(x, "adding")
    /\ UNCHANGED <<peers, publications, closed, senders, source, muted,
                   mutedByOwner, subject, evict, order, raced, overtaken>>

OfferAdd(x, b) ==
    /\ At(x, "adding")
    /\ b \in todo[x]
    /\ addPublicationToPeer(x, subject[b], b)
    /\ todo' = [todo EXCEPT ![x] = @ \ {b}]
    /\ UNCHANGED <<peers, publications, closed, source, muted, mutedByOwner,
                   stage, subject, evict, order, raced, overtaken>>

\* SetRemoteDescription, CreateAnswer and SetLocalDescription: all fail on a
\* closed peer; when one fails, ClosePeer closes the participant's peer,
\* whichever that is by now.
OfferAnswered(x) ==
    /\ At(x, "adding")
    /\ todo[x] = {}
    /\ x \notin closed
    /\ Goto(x, "answered")
    /\ UNCHANGED <<peers, publications, closed, senders, source, muted,
                   mutedByOwner, subject, todo, evict, order, raced, overtaken>>

OfferFails(x) ==
    /\ At(x, "adding")
    /\ todo[x] = {}
    /\ Drop(subject[x])
    /\ Goto(x, "unlistFailed")
    /\ UNCHANGED subject
-----------------------------------------------------------------------------
(* publish, started by OnTrack of peer x, which may be closed by the time  *)
(* it runs: the mute flag is read before the tables are locked.            *)
PublishLoad_Unmuted(b, x) ==
    /\ At(b, "idle")
    /\ At(x, "answered")
    /\ \A c \in Pub : source[c] # x
    /\ source' = [source EXCEPT ![b] = x]
    /\ subject' = [subject EXCEPT ![b] = subject[x]]
    /\ Goto(b, "register")
    /\ UNCHANGED <<peers, publications, closed, senders, muted, mutedByOwner, todo,
                   evict, order, raced, overtaken>>

PublishLoad(b, x) ==
    /\ At(b, "idle")
    /\ At(x, "answered")
    /\ \A c \in Pub : source[c] # x
    /\ source' = [source EXCEPT ![b] = x]
    /\ subject' = [subject EXCEPT ![b] = subject[x]]
    /\ muted' = [muted EXCEPT ![b] = subject[x] \in mutedByOwner]
    /\ Goto(b, "register")
    /\ UNCHANGED <<peers, publications, closed, senders, mutedByOwner, todo,
                   evict, order, raced, overtaken>>

PublishRegister_NoPeerCheck(b) ==
    LET p == subject[b]
    IN  /\ At(b, "register")
        /\ publications' = [publications EXCEPT ![p] = b]
        /\ todo' = [todo EXCEPT ![b] = peersInRoom(p)]
        /\ Goto(b, IF publications[p] = NoPub THEN "adding" ELSE "replace")
        /\ overtaken' = IF peers[p] = source[b] THEN overtaken
                                                ELSE overtaken \cup {p}
        /\ UNCHANGED <<peers, closed, senders, source, muted, mutedByOwner, subject,
                       evict, order, raced>>

PublishRegister(b) ==
    LET p == subject[b]
    IN  /\ At(b, "register")
        /\ IF peers[p] = NoPeer
           THEN /\ Goto(b, "done")
                /\ UNCHANGED <<publications, todo, overtaken>>
           ELSE /\ publications' = [publications EXCEPT ![p] = b]
                /\ todo' = [todo EXCEPT ![b] = peersInRoom(p)]
                /\ Goto(b, IF publications[p] = NoPub THEN "adding" ELSE "replace")
                /\ overtaken' = IF peers[p] = source[b] THEN overtaken
                                                        ELSE overtaken \cup {p}
        /\ UNCHANGED <<peers, closed, senders, source, muted, mutedByOwner, subject,
                       evict, order, raced>>

\* removePublicationFromPeers: a second look at the peers, then the loop.
PublishReplace(b) ==
    /\ At(b, "replace")
    /\ evict' = [evict EXCEPT ![b] = peersInRoom(subject[b])]
    /\ Goto(b, "evicting")
    /\ UNCHANGED <<peers, publications, closed, senders, source, muted,
                   mutedByOwner, subject, todo, order, raced, overtaken>>

PublishEvict(b) ==
    /\ At(b, "evicting")
    /\ \/ \E y \in evict[b] : /\ removeSender(y, subject[b])
                              /\ evict' = [evict EXCEPT ![b] = @ \ {y}]
                              /\ UNCHANGED stage
       \/ /\ evict[b] = {}
          /\ Goto(b, "adding")
          /\ UNCHANGED <<senders, evict>>
    /\ UNCHANGED <<peers, publications, closed, source, muted, mutedByOwner,
                   subject, todo, order, raced, overtaken>>

PublishAdd(b) ==
    /\ At(b, "adding")
    /\ \/ \E y \in todo[b] : /\ addPublicationToPeer(y, subject[b], b)
                             /\ todo' = [todo EXCEPT ![b] = @ \ {y}]
                             /\ UNCHANGED stage
       \/ /\ todo[b] = {}
          /\ Goto(b, "reading")
          /\ UNCHANGED <<senders, todo>>
    /\ UNCHANGED <<peers, publications, closed, source, muted, mutedByOwner,
                   subject, evict, order, raced, overtaken>>

\* ReadRTP fails once the connection is closed; removePublication follows.
PublishReadFails(b) ==
    /\ At(b, "reading")
    /\ source[b] \in closed
    /\ Goto(b, "unlist")
    /\ UNCHANGED <<peers, publications, closed, senders, source, muted,
                   mutedByOwner, subject, todo, evict, order, raced, overtaken>>
-----------------------------------------------------------------------------
(* Handler.setMuted: the room manager first, then Manager.SetMuted, which  *)
(* finds the publication under the lock and stores the flag after it.      *)
\* A command on p is between the two.
InFlight(p) == \E m \in Muter : stage[m] \in {"find", "store"} /\ subject[m] = p

\* A track that has read the other flag is not listed yet when m looks for it.
Missed(m) ==
    \E b \in Pub : /\ At(b, "register") /\ subject[b] = subject[m]
                  /\ muted[b] # order[m].value

MuteRoom(m, p, value) ==
    /\ At(m, "idle")
    /\ mutedByOwner' = IF value THEN mutedByOwner \cup {p} ELSE mutedByOwner \ {p}
    /\ subject' = [subject EXCEPT ![m] = p]
    /\ order' = [order EXCEPT ![m].value = value]
    /\ raced' = IF InFlight(p) THEN raced \cup {p} ELSE raced \ {p}
    /\ Goto(m, "find")
    /\ UNCHANGED <<peers, publications, closed, senders, source, muted, todo, evict,
                   overtaken>>

MuteFind(m) ==
    /\ At(m, "find")
    /\ order' = [order EXCEPT ![m].pub = publications[subject[m]]]
    /\ raced' = IF Missed(m) THEN raced \cup {subject[m]} ELSE raced
    /\ Goto(m, "store")
    /\ UNCHANGED <<peers, publications, closed, senders, source, muted,
                   mutedByOwner, subject, todo, evict, overtaken>>

MuteStore_OnlyMutes(m) ==
    /\ At(m, "store")
    /\ muted' = IF order[m].pub = NoPub \/ ~order[m].value THEN muted
                ELSE [muted EXCEPT ![order[m].pub] = TRUE]
    /\ order' = [order EXCEPT ![m] = NoOrder]
    /\ subject' = [subject EXCEPT ![m] = Nobody]
    /\ Goto(m, "idle")
    /\ UNCHANGED <<peers, publications, closed, senders, source, mutedByOwner,
                   todo, evict, raced, overtaken>>

MuteStore(m) ==
    /\ At(m, "store")
    /\ muted' = IF order[m].pub = NoPub THEN muted
                ELSE [muted EXCEPT ![order[m].pub] = order[m].value]
    /\ order' = [order EXCEPT ![m] = NoOrder]
    /\ subject' = [subject EXCEPT ![m] = Nobody]
    /\ Goto(m, "idle")
    /\ UNCHANGED <<peers, publications, closed, senders, source, mutedByOwner,
                   todo, evict, raced, overtaken>>
-----------------------------------------------------------------------------
\* What a goroutine does once started.
Run(t) ==
    \/ Unlist(t) \/ Unlink(t)
    \/ t \in Peer /\ (OfferInsert(t) \/ OfferRefused(t) \/ OfferCollect(t))
    \/ t \in Peer /\ (OfferAnswered(t) \/ OfferFails(t))
    \/ t \in Peer /\ \E b \in Pub : OfferAdd(t, b)
    \/ t \in Pub /\ (PublishRegister(t) \/ PublishReplace(t) \/ PublishEvict(t))
    \/ t \in Pub /\ (PublishAdd(t) \/ PublishReadFails(t))
    \/ t \in Muter /\ (MuteFind(t) \/ MuteStore(t))

PublicationsNext ==
    \/ \E t \in Closer \cup Peer, p \in ParticipantID : ClosePeer(t, p)
    \/ \E t \in Closer, x \in Peer : CloseIfCurrent(t, x)
    \/ \E t \in Closer : CloseRoom(t)
    \/ \E b \in Pub, x \in Peer : PublishLoad(b, x)
    \/ \E m \in Muter, p \in ParticipantID, value \in BOOLEAN : MuteRoom(m, p, value)
    \/ \E t \in Task : Run(t)

PublicationsSpec == PublicationsInit /\ [][PublicationsNext]_vars

FairPublicationsSpec == PublicationsSpec /\ \A t \in Task : WF_vars(Run(t))
-----------------------------------------------------------------------------
(* The values of the tables and of the goroutines' state.                  *)
PublicationsTypeOK ==
    /\ peers \in [ParticipantID -> Peer \cup {NoPeer}]
    /\ publications \in [ParticipantID -> Pub \cup {NoPub}]
    /\ closed \subseteq Peer
    /\ senders \in [Peer -> [ParticipantID -> Pub \cup {NoPub}]]
    /\ source \in [Pub -> Peer \cup {NoPeer}]
    /\ muted \in [Pub -> BOOLEAN]
    /\ mutedByOwner \subseteq ParticipantID
    /\ stage \in [Task -> {"idle", "unlist", "unlink", "unlistFailed", "unlinkFailed",
                           "insert", "collect", "adding", "answered", "register",
                           "replace", "evicting", "reading", "find", "store", "done"}]
    /\ subject \in [Task -> ParticipantID \cup {Nobody}]
    /\ todo \in [Task -> SUBSET (Peer \cup Pub)]
    /\ evict \in [Pub -> SUBSET Peer]
    /\ order \in [Muter -> [value : BOOLEAN, pub : Pub \cup {NoPub}]]
    /\ raced \subseteq ParticipantID
    /\ overtaken \subseteq ParticipantID

\* No goroutine has anything left to do.
Quiet ==
    /\ \A t \in Task : stage[t] \in {"idle", "answered", "reading", "done"}
    /\ \A b \in Pub : At(b, "reading") => source[b] \notin closed

(* A publication whose participant has no peer is about to be unlisted:    *)
(* publish's second look at the peers map, under the lock, leaves no track *)
(* behind of a member that left while OnTrack was being delivered.         *)
UnservedIsBeingUnlisted ==
    \A p \in ParticipantID :
        publications[p] # NoPub /\ peers[p] = NoPeer =>
            \E t \in Closer \cup Peer : /\ subject[t] = p
                                       /\ stage[t] \in {"unlist", "unlistFailed"}

\* p has offered no second connection.
OneOffer(p) == \A x, y \in Peer : subject[x] = p /\ subject[y] = p => x = y

(* Whoever publishes for the first time is heard by every other peer, one  *)
(* that was being set up meanwhile included: either publish saw the peer   *)
(* in the map or HandleOffer saw the publication.                          *)
FirstPublicationHeard ==
    Quiet => \A p, q \in ParticipantID :
        (/\ p # q
         /\ publications[p] # NoPub
         /\ peers[q] # NoPeer
         /\ OneOffer(p)) => senders[peers[q]][p] = publications[p]

(* README.md:37: Pion "reads RTP audio published by one participant and    *)
(* forwards it": the track of the participant's present connection is the  *)
(* one that is published, through every replacement of the connection,     *)
(* late ends of earlier readers and repeated offers included.  Unless that *)
(* connection was overtaken: it was put in the map before somebody who had *)
(* taken out its predecessor had unlisted the predecessor's track, or a    *)
(* connection that was replaced delivered its track after it.              *)
LiveTrackListedUnlessOvertaken ==
    \A b \in Pub :
        (At(b, "reading") /\ peers[subject[b]] = source[b] /\ subject[b] \notin overtaken)
            => publications[subject[b]] = b

(* The track of a closed connection does not stay published.               *)
DeadTracksUnlisted ==
    \A p \in ParticipantID, b \in Pub :
        (publications[p] = b /\ source[b] \in closed) ~> (publications[p] # b)

(* An owner command reaches the track that is being forwarded: it ends up  *)
(* with the commanded flag, or is not published any more.                  *)
OwnerCommandLands ==
    \A m \in Muter, p \in ParticipantID, b \in Pub, value \in BOOLEAN :
        (/\ At(m, "find")
         /\ subject[m] = p
         /\ order[m].value = value
         /\ publications[p] = b) ~> (publications[p] # b \/ muted[b] = value)

(* README.md:39: "An owner mute is enforced by the server", and so is its  *)
(* end: once no command on p is under way, the track that is forwarded has *)
(* the flag of room.Manager, unless the last command has raced.            *)
MuteEnforcedUnlessRaced ==
    \A p \in ParticipantID :
        (p \notin raced /\ ~InFlight(p) /\ publications[p] # NoPub)
            => (muted[publications[p]] <=> p \in mutedByOwner)

(* README.md:37: Pion "reads RTP audio published by one participant and    *)
(* forwards it to other participants in the same room": at rest, the       *)
(* track of a connected peer is the one published.                         *)
LiveTrackIsPublished ==
    Quiet => \A b \in Pub :
        At(b, "reading") /\ peers[subject[b]] = source[b]
            => publications[subject[b]] = b

(* README.md:39: "An owner mute is enforced by the server: RTP from that   *)
(* participant is no longer forwarded to the room."                        *)
OwnerMuteIsEnforced ==
    Quiet => \A p \in mutedByOwner :
        publications[p] # NoPub => muted[publications[p]]
=============================================================================
