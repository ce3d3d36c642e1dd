----------------------------- MODULE Microphone -----------------------------
(***************************************************************************)
(* The microphone of one page (frontend/src/App.tsx): startMicrophone and  *)
(* the awaits in it, which go on whatever happens meanwhile, the four refs *)
(* and two candidate buffers that all of them share, and the trickling of  *)
(* ICE candidates in both directions.  Nothing disables the button during  *)
(* an attempt, so attempts can overlap.                                    *)
(*                                                                         *)
(* Every attempt stands for the capture, the connection and the one local  *)
(* and one remote candidate that it comes to have.  The server's side is   *)
(* Manager.HandleOffer and AddICECandidate on the page's current peer; its *)
(* own offers and refusals are in Negotiation, full queues in Roster.  A   *)
(* closed connection settles no promise and fires no event.  Device lists, *)
(* volumes and the audio of others are left out.                           *)
(***************************************************************************)
EXTENDS SequencesExt

CONSTANTS
    Attempt,        \* calls of startMicrophone
    Nothing         \* a ref that is null

ASSUME MicrophoneAssumption == Nothing \notin Attempt

VARIABLES
    socket,             \* socketRef and its readyState
    stage,              \* stage[a]: the await that a is at
    capturing,          \* attempts whose capture is live
    open,               \* attempts whose connection exists and is not closed
    audio,              \* localAudioRef
    connection,         \* peerConnectionRef
    enabled,            \* microphoneEnabled
    offerSent,          \* offerSentRef
    localCandidates,    \* localCandidatesRef
    remoteCandidates,   \* remoteCandidatesRef
    gathered,           \* attempts that have found their local candidate
    answering,          \* connections at setRemoteDescription
    remote,             \* connections with a remoteDescription
    applied,            \* attempts whose server candidate their connection has
    toServer, toPage,   \* the messages on the WebSocket
    peer,               \* whose offer made the server's current peer
    answerDue,          \* HandleOffer has yet to answer
    emitted,            \* attempts whose server candidate is found
    received,           \* attempts whose local candidate their peer has
    overtaken           \* stopMicrophone has run during another's attempt

refs == <<audio, connection, enabled, offerSent, localCandidates, remoteCandidates>>
browser == <<capturing, open, gathered, answering, remote, applied>>
server == <<peer, answerDue, emitted, received>>
vars == <<socket, stage, refs, browser, toServer, toPage, server, overtaken>>

Pending == {a \in Attempt : stage[a] \notin {"idle", "done", "ended", "abandoned"}}

Advance(a, from, to) == stage[a] = from /\ stage' = [stage EXCEPT ![a] = to]

Send(messages) == toServer' = IF socket = "open" THEN toServer \o messages ELSE toServer

MicrophoneInit ==
    /\ socket = "none"
    /\ stage = [a \in Attempt |-> "idle"]
    /\ audio = Nothing /\ connection = Nothing
    /\ enabled = FALSE /\ offerSent = FALSE /\ overtaken = FALSE
    /\ localCandidates = {} /\ remoteCandidates = {}
    /\ capturing = {} /\ open = {} /\ gathered = {}
    /\ answering = {} /\ remote = {} /\ applied = {}
    /\ toServer = <<>> /\ toPage = <<>>
    /\ peer = Nothing /\ answerDue = FALSE /\ emitted = {} /\ received = {}
-----------------------------------------------------------------------------
stopMicrophone_KeepCapture(a) ==
    /\ UNCHANGED capturing
    /\ open' = open \ {connection}
    /\ audio' = Nothing /\ connection' = Nothing
    /\ localCandidates' = {} /\ remoteCandidates' = {}
    /\ offerSent' = FALSE /\ enabled' = FALSE
    /\ overtaken' = (overtaken \/ Pending \ {a} # {})

\* stopMicrophone, by attempt a or, when that is Nothing, by the user.
stopMicrophone(a) ==
    /\ capturing' = capturing \ {audio}
    /\ open' = open \ {connection}
    /\ audio' = Nothing /\ connection' = Nothing
    /\ localCandidates' = {} /\ remoteCandidates' = {}
    /\ offerSent' = FALSE /\ enabled' = FALSE
    /\ overtaken' = (overtaken \/ Pending \ {a} # {})

startMicrophone(a) ==
    /\ socket = "open"
    /\ Advance(a, "idle", "capturing")
    /\ stopMicrophone(a)
    /\ UNCHANGED <<socket, gathered, answering, remote, applied, toServer, toPage, server>>

getUserMedia(a) ==
    /\ Advance(a, "capturing", "resuming")
    /\ capturing' = capturing \cup {a}
    /\ UNCHANGED <<socket, refs, open, gathered, answering, remote, applied,
                   toServer, toPage, server, overtaken>>

\* Until the connection is made, refreshMicrophones and two fetches follow.
resume(a) ==
    /\ Advance(a, "resuming", "fetching")
    /\ audio' = a
    /\ UNCHANGED <<socket, connection, enabled, offerSent, localCandidates,
                   remoteCandidates, browser, toServer, toPage, server, overtaken>>

\* createOffer and setLocalDescription follow.
createPeerConnection(a) ==
    /\ Advance(a, "fetching", "describing")
    /\ connection' = a
    /\ open' = open \cup {a}
    /\ UNCHANGED <<socket, audio, enabled, offerSent, localCandidates, remoteCandidates,
                   capturing, gathered, answering, remote, applied, toServer, toPage,
                   server, overtaken>>

Offer_NoType(a) == [type |-> "", of |-> a]

Offer(a) == [type |-> "offer", of |-> a]
Answer(a) == [type |-> "answer", of |-> a]
Candidate(a) == [type |-> "ice_candidate", of |-> a]

onicecandidate_Direct(a) ==
    /\ a \in open \ gathered
    /\ stage[a] \in {"describing", "done"}
    /\ gathered' = gathered \cup {a}
    /\ Send(<<Candidate(a)>>)
    /\ UNCHANGED <<socket, stage, refs, capturing, open, answering, remote, applied,
                   toPage, server, overtaken>>

\* Gathering begins with setLocalDescription, before its promise is settled.
onicecandidate(a) ==
    /\ a \in open \ gathered
    /\ stage[a] \in {"describing", "done"}
    /\ gathered' = gathered \cup {a}
    /\ IF offerSent
       THEN Send(<<Candidate(a)>>) /\ UNCHANGED localCandidates
       ELSE localCandidates' = localCandidates \cup {a} /\ UNCHANGED toServer
    /\ UNCHANGED <<socket, stage, audio, connection, enabled, offerSent, remoteCandidates,
                   capturing, open, answering, remote, applied, toPage, server, overtaken>>

sendOffer_KeepBuffer(a) ==
    /\ a \in open
    /\ Advance(a, "describing", "done")
    /\ Send(<<Offer(a)>>)
    /\ offerSent' = TRUE
    /\ enabled' = TRUE
    /\ UNCHANGED <<socket, audio, connection, localCandidates, remoteCandidates, browser,
                   toPage, server, overtaken>>

\* setLocalDescription is done: the offer, what was gathered, and the end.
sendOffer(a) ==
    /\ a \in open
    /\ Advance(a, "describing", "done")
    /\ Send(<<Offer(a)>> \o SetToSeq({Candidate(c) : c \in localCandidates}))
    /\ offerSent' = TRUE
    /\ localCandidates' = {}
    /\ enabled' = TRUE
    /\ UNCHANGED <<socket, audio, connection, remoteCandidates, browser, toPage, server,
                   overtaken>>

\* Any of the awaits rejects; before line 251 nothing refers to the capture.
fail(a) ==
    /\ a \in Pending /\ (stage[a] = "describing" => a \in open)
    /\ stage' = [stage EXCEPT ![a] = IF @ = "resuming" THEN "abandoned" ELSE "ended"]
    /\ stopMicrophone(a)
    /\ UNCHANGED <<socket, gathered, answering, remote, applied, toServer, toPage, server>>

Disable ==
    /\ enabled
    /\ stopMicrophone(Nothing)
    /\ UNCHANGED <<socket, stage, gathered, answering, remote, applied, toServer, toPage, server>>
-----------------------------------------------------------------------------
receiveAnswer ==
    /\ toPage # <<>> /\ Head(toPage).type = "answer"
    /\ toPage' = Tail(toPage)
    /\ answering' = IF connection # Nothing /\ stage[connection] = "done"
                         /\ connection \notin remote      \* have-local-offer
                    THEN answering \cup {connection} ELSE answering
    /\ UNCHANGED <<socket, stage, refs, capturing, open, gathered, remote, applied, toServer,
                   server, overtaken>>

addPendingCandidates_Never(c) == UNCHANGED <<applied, remoteCandidates>>

\* The candidates of another connection are added too, and of no use.
addPendingCandidates(c) ==
    /\ applied' = applied \cup (remoteCandidates \cap {c})
    /\ remoteCandidates' = {}

setRemoteDescription(c) ==
    /\ c \in answering \cap open
    /\ answering' = answering \ {c}
    /\ remote' = remote \cup {c}
    /\ addPendingCandidates(c)
    /\ UNCHANGED <<socket, stage, audio, connection, enabled, offerSent, localCandidates,
                   capturing, open, gathered, toServer, toPage, server, overtaken>>

receiveCandidate_Drop ==
    /\ toPage # <<>> /\ Head(toPage).type = "ice_candidate"
    /\ toPage' = Tail(toPage)
    /\ applied' = IF connection \in remote THEN applied \cup ({Head(toPage).of} \cap {connection})
                                           ELSE applied
    /\ UNCHANGED <<socket, stage, refs, capturing, open, gathered, answering, remote, toServer,
                   server, overtaken>>

receiveCandidate ==
    /\ toPage # <<>> /\ Head(toPage).type = "ice_candidate"
    /\ toPage' = Tail(toPage)
    /\ LET c == Head(toPage).of
       IN  IF connection = Nothing \/ connection \notin remote
           THEN remoteCandidates' = remoteCandidates \cup {c} /\ UNCHANGED applied
           ELSE applied' = applied \cup ({c} \cap {connection}) /\ UNCHANGED remoteCandidates
    /\ UNCHANGED <<socket, stage, audio, connection, enabled, offerSent, localCandidates,
                   capturing, open, gathered, answering, remote, toServer, server, overtaken>>
-----------------------------------------------------------------------------
(* The server: one message after another, its candidates at any time.      *)
HandleOffer ==
    /\ toServer # <<>> /\ ~answerDue
    /\ Head(toServer).type = "offer"
    /\ toServer' = Tail(toServer)
    /\ peer' = Head(toServer).of
    /\ answerDue' = TRUE
    /\ UNCHANGED <<socket, stage, refs, browser, toPage, emitted, received, overtaken>>

SendAnswer ==
    /\ answerDue
    /\ answerDue' = FALSE
    /\ toPage' = Append(toPage, Answer(peer))
    /\ UNCHANGED <<socket, stage, refs, browser, toServer, peer, emitted, received, overtaken>>

OnICECandidate ==
    /\ peer \notin {Nothing} \cup emitted
    /\ emitted' = emitted \cup {peer}
    /\ toPage' = Append(toPage, Candidate(peer))
    /\ UNCHANGED <<socket, stage, refs, browser, toServer, peer, answerDue, received, overtaken>>

AddICECandidate ==
    /\ toServer # <<>> /\ ~answerDue
    /\ Head(toServer).type = "ice_candidate"
    /\ toServer' = Tail(toServer)
    /\ received' = received \cup ({Head(toServer).of} \cap {peer})
    /\ UNCHANGED <<socket, stage, refs, browser, toPage, peer, answerDue, emitted, overtaken>>
-----------------------------------------------------------------------------
connectSocket ==
    /\ \/ socket = "none" /\ socket' = "connecting"
       \/ socket = "connecting" /\ socket' = "open"
    /\ UNCHANGED <<stage, refs, browser, toServer, toPage, server, overtaken>>

\* By leaveRoom or by the loss of the socket; disconnect closes the peer.
finishRoom ==
    /\ socket # "none"
    /\ socket' = "none"
    /\ stopMicrophone(Nothing)
    /\ toServer' = <<>> /\ toPage' = <<>>
    /\ peer' = Nothing /\ answerDue' = FALSE
    /\ UNCHANGED <<stage, gathered, answering, remote, applied, emitted, received>>

Continue(a) ==
    getUserMedia(a) \/ resume(a) \/ createPeerConnection(a) \/ sendOffer(a) \/ fail(a)

ReadMessage == receiveAnswer \/ receiveCandidate

ServeMessage == HandleOffer \/ AddICECandidate

MicrophoneNext ==
    \/ connectSocket \/ finishRoom \/ Disable
    \/ \E a \in Attempt :
          startMicrophone(a) \/ Continue(a) \/ onicecandidate(a) \/ setRemoteDescription(a)
    \/ ReadMessage \/ ServeMessage \/ SendAnswer \/ OnICECandidate

MicrophoneSpec == MicrophoneInit /\ [][MicrophoneNext]_vars

\* Promises of open connections settle, and both ends read what is sent.
FairMicrophoneSpec ==
    /\ MicrophoneSpec
    /\ \A a \in Attempt : WF_vars(Continue(a)) /\ WF_vars(setRemoteDescription(a))
    /\ WF_vars(ReadMessage) /\ WF_vars(ServeMessage) /\ WF_vars(SendAnswer)
-----------------------------------------------------------------------------
Message(types) == [type : types, of : Attempt]

(* The values of the page's refs and of the two directions.                *)
MicrophoneTypeOK ==
    /\ socket \in {"none", "connecting", "open"}
    /\ stage \in [Attempt -> {"idle", "capturing", "resuming", "fetching", "describing",
                              "done", "ended", "abandoned"}]
    /\ audio \in Attempt \cup {Nothing} /\ connection \in Attempt \cup {Nothing}
    /\ peer \in Attempt \cup {Nothing} /\ (answerDue => peer \in Attempt)
    /\ enabled \in BOOLEAN /\ offerSent \in BOOLEAN
    /\ answerDue \in BOOLEAN /\ overtaken \in BOOLEAN
    /\ capturing \subseteq Attempt /\ open \subseteq Attempt /\ gathered \subseteq Attempt
    /\ localCandidates \subseteq Attempt /\ remoteCandidates \subseteq Attempt
    /\ answering \subseteq Attempt /\ remote \subseteq Attempt /\ applied \subseteq Attempt
    /\ emitted \subseteq Attempt /\ received \subseteq Attempt
    /\ toServer \in Seq(Message({"offer", "ice_candidate"}))
    /\ toPage \in Seq(Message({"answer", "ice_candidate"}))

(* App.tsx:441: "Sending audio" or "Off".  As long as no start and no stop *)
(* has overtaken an attempt, a settled page that says it is off has no     *)
(* live capture and no open connection left, and one that says it is       *)
(* sending has those of one attempt.  (An attempt that fails at resume     *)
(* leaves its capture: it is not in localAudioRef yet.)                    *)
NothingLeftBehind ==
    ~overtaken /\ Pending = {} =>
        LET mine == IF enabled THEN {connection} ELSE {}
        IN  /\ {a \in capturing : stage[a] # "abandoned"} = mine
            /\ open = mine /\ Nothing \notin mine

(* manager.go:196: "The browser buffers server candidates until it has an  *)
(* SDP", and no longer: candidates and the answer arrive in any order, and *)
(* none stays in the buffer of a connection that has its description.      *)
NoCandidateStranded ==
    connection \in remote => remoteCandidates = {}

\* The last offer in s before position i is a's; before the first one, a has the peer.
LastOffer(s, current, i, a) ==
    \/ \E j \in 1..(i - 1) : /\ s[j].type = "offer" /\ s[j].of = a
                             /\ \A k \in (j + 1)..(i - 1) : s[k].type # "offer"
    \/ current = a /\ \A k \in 1..(i - 1) : s[k].type # "offer"

(* manager.go:195: a browser's candidate is added "to its current peer     *)
(* connection", the one its own offer has made, although the page gathers  *)
(* candidates before it has sent the offer.                                *)
CandidatesFollowTheirOffer ==
    ~overtaken =>
        \A i \in DOMAIN toServer : toServer[i].type = "ice_candidate" =>
            LastOffer(toServer, peer, i, toServer[i].of)

(* manager.go:196 in both directions: nothing is lost between the buffers  *)
(* and the messages.  A candidate of the connection that the page is using *)
(* is still in a buffer or on its way, or the other end has it.            *)
NoCandidateLost ==
    ~overtaken =>
        \A a \in Attempt \cap {connection} :
            /\ a \in gathered =>
                  a \in localCandidates \cup received \/ Candidate(a) \in ToSet(toServer)
            /\ a \in emitted =>
                  a \in remoteCandidates \cup applied \/ Candidate(a) \in ToSet(toPage)

(* A candidate that the page gathers reaches the server's peer, unless the *)
(* connection is given up.                                                 *)
LocalCandidatesArrive ==
    \A a \in Attempt :
        (a \in gathered /\ connection = a) ~> (a \in received \/ connection # a \/ overtaken)

(* A candidate that the server finds reaches the page's connection, unless *)
(* that is given up: through the buffer or past it.  (An older attempt's   *)
(* connection can take the buffer; hence overtaken.)                       *)
RemoteCandidatesArrive ==
    \A a \in Attempt :
        (a \in emitted /\ connection = a) ~> (a \in applied \/ connection # a \/ overtaken)
=============================================================================
