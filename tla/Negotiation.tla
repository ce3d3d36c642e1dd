---------------------------- MODULE Negotiation ----------------------------
(***************************************************************************)
(* One peer of media.Manager and its browser (internal/media/manager.go    *)
(* and frontend/src/App.tsx): the exchange that the browser starts, the    *)
(* offers the server sends when the peer's tracks change, and the flags    *)
(* that are to keep the two apart.  HandleOffer works on the connection    *)
(* without peer.mu, negotiate and HandleAnswer with it; a handler reads    *)
(* the browser's next message when it is done with the last.               *)
(*                                                                         *)
(* The peer may have replaced another one of its member whose messages are *)
(* still under way: they do not say which peer they are about.  Stopping   *)
(* the microphone tells the server nothing; starting it again makes a new  *)
(* connection and a new offer.  The browser takes its messages one at a    *)
(* time: where their awaits overlap, RTCPeerConnection queues the          *)
(* operations, and all but one of them fail.                               *)
(*                                                                         *)
(* Pion is external: SetRemoteDescription of an offer fails unless the     *)
(* connection is stable, an answer describes no more tracks than the       *)
(* offer has lines, and an offer describes every track that is attached.   *)
(***************************************************************************)
EXTENDS FiniteSetsExt, Naturals, Sequences

CONSTANTS
    Track,          \* the publications of the other members
    OfferedLines,   \* audio lines in a browser's offer
    MaxSpawned,     \* bound: negotiate goroutines waiting at a time
    MaxLeftover,    \* bound: messages, and offers to come, of replaced peers
    AfterMishap     \* bound: whether anything new may happen after a mishap, or
                    \* after closing: only what is under way goes on otherwise

ASSUME NegotiationAssumption ==
    /\ OfferedLines \in Nat
    /\ MaxSpawned \in Nat
    /\ MaxLeftover \in Nat
    /\ AfterMishap \in BOOLEAN

VARIABLES
    handshake,      \* the next step of HandleOffer
    existing,       \* the tracks HandleOffer has yet to add
    tracks,         \* the tracks with a sender on this peer
    signaling,      \* pc.SignalingState()
    negotiating, pending, closed,   \* the peer's flags
    spawned,        \* negotiate goroutines that have not begun
    emitting,       \* an offer that negotiate has yet to emit
    offered,        \* the tracks described by the server's last offer
    described,      \* the tracks described by the last completed exchange
    leftOut,        \* history: the tracks the browser's offer had no line for,
                    \* until an exchange of the server is completed
    late,           \* offers of replaced peers that negotiate has yet to emit
    toBrowser,      \* answers and offers queued for the browser
    toServer,       \* the browser's answers, and its next offer
    browser,        \* its connection: none, new (before its offer), or signalingState
    rejected,       \* Pion has failed on an answer, or on making an offer
    failed,         \* the browser's offer got no answer: no room in the queue, or the
                    \* browser failed on a description that was not this peer's offer
    missed,         \* the browser has not answered an offer of this peer
    crossed,        \* history: the answer to a replaced peer's offer was taken while
                    \* this peer waited for its own, or had a note
    hungUp          \* the WebSocket is closed

server == <<handshake, existing, tracks, signaling, negotiating, pending, closed,
            spawned, emitting, offered, described, leftOut>>
channels == <<late, toBrowser, toServer, browser>>
mishaps == <<rejected, failed, missed, crossed, hungUp>>
vars == <<server, channels, mishaps>>

\* Client.Send to the browser, and what its failure comes to: handleOffer
\* ignores it, SendTo closes the client.
Send(m) ==
    /\ ~hungUp
    /\ toBrowser' = Append(toBrowser, m)
    /\ UNCHANGED mishaps

HangUp ==
    /\ hungUp' = TRUE
    /\ toBrowser' = <<>>
    /\ UNCHANGED <<rejected, failed, missed, crossed>>


\* No more exchange is to be expected, or what is to come has got mixed up.
Broken == hungUp \/ rejected \/ missed \/ crossed

Followed == AfterMishap \/ ~(closed \/ Broken)
-----------------------------------------------------------------------------
\* HandleOffer has put the peer in the map.  What the browser has done since it
\* sent its offer it may as well do from now on.
NegotiationInit ==
    /\ handshake = "adding"
    /\ existing \in SUBSET Track
    /\ tracks = {}
    /\ signaling = "stable"
    /\ negotiating = FALSE
    /\ pending = FALSE
    /\ closed = FALSE
    /\ spawned = 0
    /\ emitting = FALSE
    /\ offered = {}
    /\ described = {}
    /\ leftOut = {}
    /\ late \in 0..MaxLeftover
    /\ \E n \in 0..(MaxLeftover - late) : toBrowser \in [1..n -> {"answer", "oldOffer"}]
    /\ toServer = <<>>
    /\ browser = "have-local-offer"
    /\ rejected = FALSE
    /\ failed = FALSE
    /\ missed = FALSE
    /\ crossed = FALSE
    /\ hungUp = FALSE

(* HandleOffer, from the loop over the publications that exist.            *)
AddExisting(t) ==
    /\ handshake = "adding"
    /\ t \in existing
    /\ existing' = existing \ {t}
    /\ tracks' = IF closed THEN tracks ELSE tracks \cup {t}
    /\ UNCHANGED <<handshake, signaling, negotiating, pending, closed, spawned,
                   emitting, offered, described, leftOut, channels, mishaps>>

SetRemoteOffer ==
    /\ handshake = "adding"
    /\ existing = {}
    /\ IF closed \/ signaling # "stable"
       THEN /\ handshake' = "failed"    \* ClosePeer
            /\ closed' = TRUE
            /\ UNCHANGED signaling
       ELSE /\ handshake' = "answer"
            /\ signaling' = "have-remote-offer"
            /\ UNCHANGED closed
    /\ UNCHANGED <<existing, tracks, negotiating, pending, spawned, emitting,
                   offered, described, leftOut, channels, mishaps>>

\* What an answer can describe: one track per line of the offer.
Answers == kSubset(Min({OfferedLines, Cardinality(tracks)}), tracks)

CreateAnswer ==
    /\ handshake = "answer"
    /\ IF closed
       THEN handshake' = "failed" /\ UNCHANGED <<offered, leftOut>>
       ELSE /\ handshake' = "local"
            /\ offered' \in Answers
            /\ leftOut' = tracks \ offered'
    /\ UNCHANGED <<existing, tracks, signaling, negotiating, pending, closed,
                   spawned, emitting, described, channels, mishaps>>

SetLocalAnswer ==
    /\ handshake = "local"
    /\ IF closed
       THEN handshake' = "failed" /\ UNCHANGED <<signaling, described>>
       ELSE /\ handshake' = "send"
            /\ signaling' = "stable"
            /\ described' = offered
    /\ UNCHANGED <<existing, tracks, negotiating, pending, closed, spawned,
                   emitting, offered, leftOut, channels, mishaps>>

\* handleOffer queues the answer for the browser, if there is room.
SendAnswer_Never ==
    /\ handshake = "send"
    /\ handshake' = "done"
    /\ UNCHANGED <<existing, tracks, signaling, negotiating, pending, closed, spawned,
                   emitting, offered, described, leftOut, channels, mishaps>>

SendAnswer ==
    /\ handshake = "send"
    /\ handshake' = "done"
    /\ \/ Send("answer")
       \/ failed' = TRUE /\ UNCHANGED <<toBrowser, rejected, missed, crossed, hungUp>>
    /\ UNCHANGED <<existing, tracks, signaling, negotiating, pending, closed, spawned,
                   emitting, offered, described, leftOut, late, toServer, browser>>
-----------------------------------------------------------------------------
(* Another member's publication comes or goes: addPublicationToPeer or     *)
(* peer.removePublication, followed by go negotiate.                       *)
AddTrack(t) ==
    /\ ~closed /\ Followed
    /\ spawned < MaxSpawned
    /\ t \notin tracks
    /\ tracks' = tracks \cup {t}
    /\ spawned' = spawned + 1
    /\ UNCHANGED <<handshake, existing, signaling, negotiating, pending, closed,
                   emitting, offered, described, leftOut, channels, mishaps>>

RemoveTrack(t) ==
    /\ ~closed /\ Followed
    /\ spawned < MaxSpawned
    /\ t \in tracks
    /\ tracks' = tracks \ {t}
    /\ spawned' = spawned + 1
    /\ UNCHANGED <<handshake, existing, signaling, negotiating, pending, closed,
                   emitting, offered, described, leftOut, channels, mishaps>>

Busy_Never == FALSE

Busy == negotiating \/ signaling # "stable"

\* negotiate, up to the unlock: nothing on a closed peer, a note when an
\* exchange is going on, and an offer otherwise.
Negotiate ==
    /\ spawned > 0
    /\ spawned' = spawned - 1
    /\ CASE closed -> UNCHANGED <<signaling, negotiating, pending, emitting, offered>>
         [] ~closed /\ Busy ->
                /\ pending' = TRUE
                /\ UNCHANGED <<signaling, negotiating, emitting, offered>>
         [] OTHER ->
                /\ negotiating' = TRUE
                /\ signaling' = "have-local-offer"
                /\ offered' = tracks
                /\ emitting' = TRUE
                /\ UNCHANGED pending
    /\ UNCHANGED <<handshake, existing, tracks, closed, described, leftOut,
                   channels, mishaps>>

\* CreateOffer or SetLocalDescription fails: the request is given up.
NegotiateFails ==
    /\ spawned > 0 /\ ~closed /\ ~Busy
    /\ spawned' = spawned - 1
    /\ rejected' = TRUE
    /\ UNCHANGED <<handshake, existing, tracks, signaling, negotiating, pending, closed,
                   emitting, offered, described, leftOut, channels,
                   failed, missed, crossed, hungUp>>

EmitOffer_NoType ==
    /\ emitting
    /\ emitting' = FALSE
    /\ Send("") \/ HangUp
    /\ UNCHANGED <<handshake, existing, tracks, signaling, negotiating, pending, closed,
                   spawned, offered, described, leftOut, late, toServer, browser>>

\* emit: hub.SendTo queues the offer, or closes the client for want of room.
EmitOffer ==
    /\ emitting
    /\ emitting' = FALSE
    /\ Send("offer") \/ HangUp
    /\ UNCHANGED <<handshake, existing, tracks, signaling, negotiating, pending, closed,
                   spawned, offered, described, leftOut, late, toServer, browser>>

\* A replaced peer's negotiate had made its offer before the peer was closed.
EmitLate ==
    /\ late > 0 /\ Followed
    /\ late' = late - 1
    /\ Send("oldOffer") \/ HangUp
    /\ UNCHANGED <<server, toServer, browser>>
-----------------------------------------------------------------------------
\* The handler reads the browser's next message when HandleOffer has returned.
Reads(kinds) ==
    /\ handshake \in {"done", "failed"}
    /\ toServer # <<>> /\ Head(toServer) \in kinds
    /\ toServer' = Tail(toServer)

Finished_Forgetful == /\ spawned' = spawned
                      /\ negotiating' = FALSE
                      /\ pending' = FALSE

\* The flags after an answer, and the goroutine for what is pending.
Finished == /\ spawned' = IF pending THEN spawned + 1 ELSE spawned
            /\ negotiating' = FALSE
            /\ pending' = FALSE

\* HandleAnswer finds the member's peer, whichever the answer was meant for.
Crosses == Head(toServer) = "oldAnswer" /\ (negotiating \/ pending)

\* HandleAnswer when Pion takes the answer.
HandleAnswer ==
    /\ Reads({"answer", "oldAnswer"})
    /\ ~closed
    /\ signaling = "have-local-offer"
    /\ signaling' = "stable"
    /\ described' = offered
    /\ leftOut' = {}
    /\ Finished
    /\ crossed' = (crossed \/ Crosses)
    /\ UNCHANGED <<handshake, existing, tracks, closed, emitting, offered, late, toBrowser,
                   browser, rejected, failed, missed, hungUp>>

\* Pion fails on the answer, before or after it has changed the signaling
\* state: the flags are reset all the same, and what was pending is dropped.
HandleBadAnswer ==
    /\ Reads({"answer", "oldAnswer"})
    /\ ~closed
    /\ signaling' \in {signaling, "stable"}
    /\ negotiating' = FALSE
    /\ pending' = FALSE
    /\ rejected' = (rejected \/ Head(toServer) = "answer")
    /\ crossed' = (crossed \/ Crosses)
    /\ UNCHANGED <<handshake, existing, tracks, closed, spawned, emitting, offered,
                   described, leftOut, late, toBrowser, browser, failed, missed, hungUp>>

\* HandleAnswer finds no peer, or the next one.
HandleLateAnswer ==
    /\ Reads({"answer", "oldAnswer"})
    /\ closed
    /\ UNCHANGED <<server, late, toBrowser, browser, mishaps>>

\* HandleOffer for the next connection begins with ClosePeer.
HandleNewOffer ==
    /\ Reads({"newOffer"})
    /\ closed' = TRUE
    /\ UNCHANGED <<handshake, existing, tracks, signaling, negotiating, pending, spawned,
                   emitting, offered, described, leftOut, late, toBrowser, browser, mishaps>>

\* ClosePeer from anywhere: the member leaves, or the transport fails.
ClosePeer ==
    /\ ~closed /\ Followed
    /\ closed' = TRUE
    /\ UNCHANGED <<handshake, existing, tracks, signaling, negotiating, pending, spawned,
                   emitting, offered, described, leftOut, channels, mishaps>>

(* The WebSocket is closed: what was queued for the browser is lost.       *)
LoseSocket ==
    /\ ~hungUp /\ Followed
    /\ HangUp
    /\ UNCHANGED <<server, late, toServer, browser>>
-----------------------------------------------------------------------------
(* The browser: an answer counts only while its own offer is open; an      *)
(* offer is answered, rolling back its own if that is still open.          *)
Gets(kinds) ==
    /\ toBrowser # <<>> /\ Head(toBrowser) \in kinds
    /\ toBrowser' = Tail(toBrowser)

\* receiveAnswer; the answer may be one to an earlier offer, or be refused.
BrowserGetsAnswer ==
    /\ Gets({"answer"})
    /\ \/ /\ browser # "have-local-offer"
          /\ UNCHANGED <<browser, failed>>
       \/ /\ browser = "have-local-offer"
          /\ browser' = "stable"
          /\ UNCHANGED failed
       \/ /\ browser = "have-local-offer"
          /\ failed' = TRUE
          /\ UNCHANGED browser
    /\ UNCHANGED <<server, late, toServer, rejected, missed, crossed, hungUp>>

\* receiveOffer to the end, on whichever connection the browser has.
BrowserAnswersOffer ==
    /\ Gets({"offer", "oldOffer"})
    /\ browser # "none"
    /\ toServer' = Append(toServer, IF Head(toBrowser) = "offer" THEN "answer" ELSE "oldAnswer")
    /\ browser' = IF browser = "new" THEN "new" ELSE "stable"
    /\ UNCHANGED <<server, late, mishaps>>

\* receiveOffer without a connection.
BrowserIgnoresOffer ==
    /\ Gets({"offer", "oldOffer"})
    /\ browser = "none"
    /\ missed' = (missed \/ Head(toBrowser) = "offer")
    /\ UNCHANGED <<server, late, toServer, browser, rejected, failed, crossed, hungUp>>

\* One of receiveOffer's awaits is rejected: a notice, and no answer.
BrowserFailsOnOffer ==
    /\ Gets({"offer", "oldOffer"})
    /\ browser # "none"
    /\ browser' \in {browser, "stable", "have-remote-offer"}
    /\ missed' = (missed \/ Head(toBrowser) = "offer")
    /\ failed' = (failed \/ Head(toBrowser) = "oldOffer")
    /\ UNCHANGED <<server, late, toServer, rejected, crossed, hungUp>>

StopMicrophone ==
    /\ browser # "none" /\ Followed
    /\ browser' = "none"
    /\ UNCHANGED <<server, late, toBrowser, toServer, mishaps>>

\* createPeerConnection up to its first await on the connection, and from there.
MakeConnection ==
    /\ browser = "none" /\ ~hungUp /\ Followed
    /\ browser' = "new"
    /\ UNCHANGED <<server, late, toBrowser, toServer, mishaps>>

\* One offer waits at a time (bound): the first that is read closes this peer.
SendNewOffer ==
    /\ browser = "new" /\ ~hungUp /\ Followed
    /\ \A i \in DOMAIN toServer : toServer[i] # "newOffer"
    /\ browser' = "have-local-offer"
    /\ toServer' = Append(toServer, "newOffer")
    /\ UNCHANGED <<server, late, toBrowser, mishaps>>
-----------------------------------------------------------------------------
HandleOfferStep ==
    \/ \E t \in Track : AddExisting(t)
    \/ SetRemoteOffer \/ CreateAnswer \/ SetLocalAnswer \/ SendAnswer

ReadMessage == HandleAnswer \/ HandleBadAnswer \/ HandleLateAnswer \/ HandleNewOffer

ReadSignal ==
    \/ BrowserGetsAnswer
    \/ BrowserAnswersOffer \/ BrowserIgnoresOffer \/ BrowserFailsOnOffer

NegotiationNext ==
    \/ HandleOfferStep
    \/ \E t \in Track : AddTrack(t) \/ RemoveTrack(t)
    \/ Negotiate \/ NegotiateFails
    \/ EmitOffer \/ EmitLate
    \/ ReadMessage
    \/ ClosePeer
    \/ LoseSocket
    \/ ReadSignal
    \/ StopMicrophone \/ MakeConnection \/ SendNewOffer

NegotiationSpec == NegotiationInit /\ [][NegotiationNext]_vars

\* Goroutines run and messages are read.  Whether a browser answers what it is
\* offered is up to it, and so are its microphone and the sockets.
FairNegotiationSpec ==
    /\ NegotiationSpec
    /\ WF_vars(HandleOfferStep)
    /\ WF_vars(Negotiate \/ NegotiateFails)
    /\ WF_vars(EmitOffer)
    /\ WF_vars(ReadMessage)
    /\ WF_vars(ReadSignal)
-----------------------------------------------------------------------------
(* The values of the peer's state.                                         *)
NegotiationTypeOK ==
    /\ handshake \in {"adding", "answer", "local", "send", "done", "failed"}
    /\ existing \subseteq Track
    /\ tracks \subseteq Track
    /\ signaling \in {"stable", "have-remote-offer", "have-local-offer"}
    /\ negotiating \in BOOLEAN /\ pending \in BOOLEAN /\ closed \in BOOLEAN
    /\ emitting \in BOOLEAN
    /\ rejected \in BOOLEAN /\ failed \in BOOLEAN /\ missed \in BOOLEAN
    /\ crossed \in BOOLEAN /\ hungUp \in BOOLEAN
    /\ spawned \in Nat
    /\ offered \subseteq Track
    /\ described \subseteq Track
    /\ leftOut \subseteq Track
    /\ late \in 0..MaxLeftover
    /\ toBrowser \in Seq({"answer", "offer", "oldOffer"})
    /\ toServer \in Seq({"answer", "oldAnswer", "newOffer"})
    /\ browser \in {"none", "new", "stable", "have-local-offer", "have-remote-offer"}

Queued(m, queue) == \E i \in DOMAIN queue : queue[i] = m

AtMostOnce(m, queue) ==
    \A i, j \in DOMAIN queue : queue[i] = m /\ queue[j] = m => i = j

OfferQueued == Queued("offer", toBrowser)

AnswerQueued == Queued("answer", toServer)

InFlight == emitting \/ OfferQueued \/ AnswerQueued

(* The peer has at most one offer on its way through emit, the queue, the  *)
(* browser and back, and while the socket is open exactly when negotiating *)
(* says so; meanwhile the connection waits for that answer.  So an answer  *)
(* is never applied to another offer of this peer than the one it answers. *)
(* The exceptions: the browser has not answered an offer (missed), after   *)
(* which negotiating stays set, and the answer to a replaced peer's offer  *)
(* has been taken for this peer's (crossed).                               *)
OneOfferInFlight ==
    ~crossed =>
    /\ ~(emitting /\ OfferQueued)
    /\ ~(OfferQueued /\ AnswerQueued)
    /\ ~(AnswerQueued /\ emitting)
    /\ AtMostOnce("answer", toServer)
    /\ AtMostOnce("offer", toBrowser)
    /\ ~closed /\ InFlight => negotiating
    /\ ~closed /\ ~hungUp /\ ~missed /\ negotiating => InFlight
    /\ ~closed /\ negotiating => signaling = "have-local-offer"

(* When nothing is on its way any more, neither end is in the middle of an *)
(* exchange, however the browser's offer, the server's offers, their       *)
(* answers and what replaced peers had sent overtook each other, unless    *)
(* one of the mishaps came between.                                        *)
SettledIsStable ==
    (/\ handshake = "done" /\ toBrowser = <<>> /\ toServer = <<>> /\ ~emitting /\ ~closed
     /\ ~rejected /\ ~failed /\ ~missed /\ ~crossed /\ ~hungUp)
        => signaling = "stable" /\ browser \in {"stable", "new", "none"}

(* The safety side of "When Pion needs to add a forwarded remote track to  *)
(* the browser, Pion sends an offer" (README.md:272): after the browser's  *)
(* exchange no change of the tracks is overlooked.  What is attached is    *)
(* what was described, or a goroutine, a note or an open offer stands for  *)
(* the difference.  The exception is what the browser's own offer had no   *)
(* line for, until an exchange of the server is completed: nobody asks for *)
(* that (EveryTrackIsNegotiated).                                          *)
ChangesAreNoted ==
    (handshake = "done" /\ ~closed /\ ~Broken) =>
        \/ spawned > 0 \/ pending
        \/ negotiating /\ offered = tracks
        \/ described \subseteq tracks /\ tracks \ described \subseteq leftOut

(* A request to negotiate that comes after the browser's own exchange is   *)
(* served: every track attached by then gets described, unless it is taken *)
(* off again, the peer is closed, Pion fails, the socket is lost, the      *)
(* browser leaves an offer unanswered, or an old answer has crossed.       *)
RequestIsServed ==
    \A t \in Track :
        (handshake = "done" /\ t \in tracks /\ (spawned > 0 \/ (pending /\ negotiating)))
            ~> (t \in described \/ t \notin tracks \/ closed \/ Broken)

(* README.md:272: "When Pion needs to add a forwarded remote track to the  *)
(* browser, Pion sends an offer and the browser replies with an answer",   *)
(* so a track with a sender does not stay undescribed.                     *)
EveryTrackIsNegotiated ==
    \A t \in Track :
        (t \in tracks) ~> (t \in described \/ t \notin tracks \/ closed \/ Broken)
=============================================================================
