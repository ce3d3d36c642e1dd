-------------------------- MODULE MicrophoneProofs --------------------------
(***************************************************************************)
(* Proofs about the microphone, for any number of attempts that overlap in *)
(* any way: the values of its state, candidates that are not stranded and  *)
(* that follow their offer, and a page that says "Off" and has let go of   *)
(* everything.                                                             *)
(*                                                                         *)
(* NothingLeftBehind speaks of a settled page only.  Between, the attempt  *)
(* at work owns what there is: its capture from getUserMedia on, the refs  *)
(* from the assignment on.  InHand says so await by await.                 *)
(***************************************************************************)
EXTENDS Microphone, FiniteSetTheorems, TLAPS

\* The captures that a ref still refers to, or is about to.
Kept == {a \in capturing : stage[a] # "abandoned"}

\* What attempt a holds while it is at an await.
HasCapture(a) == stage[a] # "capturing"
HasRef(a) == stage[a] \in {"fetching", "describing"}
HasConnection(a) == stage[a] = "describing"

InHand ==
    ~overtaken =>
        /\ \A a, b \in Pending : a = b
        /\ \A a \in Pending :
              /\ ~enabled
              /\ Kept = (IF HasCapture(a) THEN {a} ELSE {})
              /\ audio = (IF HasRef(a) THEN a ELSE Nothing)
              /\ connection = (IF HasConnection(a) THEN a ELSE Nothing)
              /\ open = (IF HasConnection(a) THEN {a} ELSE {})
        /\ Pending = {} =>
              /\ connection = audio
              /\ enabled <=> audio # Nothing
              /\ Kept = (IF enabled THEN {audio} ELSE {})
              /\ open = Kept

\* Only a connection that has sent its offer is given an answer.
AnsweredIsDone == \A a \in answering \cup remote : stage[a] = "done"

MicInv ==
    /\ MicrophoneTypeOK
    /\ IsFiniteSet(localCandidates)
    /\ AnsweredIsDone
    /\ NoCandidateStranded
    /\ InHand
-----------------------------------------------------------------------------
(* A finite set listed as a sequence: the community module's SetToSeq.     *)
LEMMA SetToSeqType ==
    ASSUME NEW S, IsFiniteSet(S)
    PROVE  SetToSeq(S) \in Seq(S)
<1>1. PICK n \in Nat : ExistsBijection(1..n, S)
    BY FS_NatBijection
<1>2. Cardinality(S) = n
    BY <1>1, FS_CountingElements
<1>3. \E f \in [1..n -> S] : IsInjective(f)
    BY <1>1 DEF ExistsBijection, Bijection, Injection
<1>4. SetToSeq(S) \in [1..n -> S]
    BY <1>2, <1>3 DEF SetToSeq
<1> QED BY <1>4

LEMMA EmptyType == \A M : <<>> \in Seq(M)
OBVIOUS

LEMMA ListType ==
    ASSUME NEW M, NEW x \in M, NEW s \in Seq(M)
    PROVE  <<x>> \in Seq(M) /\ <<x>> \o s \in Seq(M) /\ Append(s, x) \in Seq(M)
OBVIOUS

LEMMA JoinedType ==
    ASSUME NEW M, NEW s \in Seq(M), NEW t \in Seq(M)
    PROVE  s \o t \in Seq(M) /\ Len(s \o t) = Len(s) + Len(t)
OBVIOUS

(* What is sent on the WebSocket are messages about attempts.              *)
LEMMA SentType ==
    ASSUME NEW a \in Attempt, MicrophoneTypeOK, IsFiniteSet(localCandidates)
    PROVE  /\ <<Candidate(a)>> \in Seq(Message({"offer", "ice_candidate"}))
           /\ <<Offer(a)>> \o SetToSeq({Candidate(c) : c \in localCandidates})
                \in Seq(Message({"offer", "ice_candidate"}))
<1> DEFINE M == Message({"offer", "ice_candidate"})
           S == {Candidate(c) : c \in localCandidates}
           list == [c \in localCandidates |-> Candidate(c)]
<1>1. Offer(a) \in M /\ Candidate(a) \in M /\ S \subseteq M
    BY DEF Offer, Candidate, Message, MicrophoneTypeOK
<1>2. list \in Surjection(localCandidates, S)
    BY DEF Surjection
<1>3. IsFiniteSet(S)
    BY <1>2, FS_Surjection
<1>4. SetToSeq(S) \in Seq(M)
    <2>1. SetToSeq(S) \in Seq(S)
        BY <1>3, SetToSeqType
    <2> HIDE DEF S, M
    <2> QED BY <1>1, <2>1
<1> QED BY <1>1, <1>4, ListType

(* Reading a message leaves messages.                                      *)
LEMMA ReadType ==
    ASSUME NEW M, NEW s \in Seq(M), s # <<>>
    PROVE  Head(s) \in M /\ Tail(s) \in Seq(M)
OBVIOUS
-----------------------------------------------------------------------------
LEMMA MicInvInit == MicrophoneInit => MicInv
<1> SUFFICES ASSUME MicrophoneInit
             PROVE  MicInv
    OBVIOUS
<1>1. MicrophoneTypeOK
    <2>1. toServer \in Seq(Message({"offer", "ice_candidate"}))
          /\ toPage \in Seq(Message({"answer", "ice_candidate"}))
        BY EmptyType DEF MicrophoneInit
    <2> QED BY <2>1 DEF MicrophoneInit, MicrophoneTypeOK
<1>2. IsFiniteSet(localCandidates)
    BY FS_EmptySet DEF MicrophoneInit
<1>3. AnsweredIsDone /\ NoCandidateStranded
    BY DEF MicrophoneInit, AnsweredIsDone, NoCandidateStranded
<1>4. InHand
    BY DEF MicrophoneInit, InHand, Pending, Kept
<1> QED BY <1>1, <1>2, <1>3, <1>4 DEF MicInv

(* stopMicrophone keeps the types of what it resets.                       *)
LEMMA StopType ==
    ASSUME MicInv, NEW a, stopMicrophone(a),
           socket' \in {"none", "connecting", "open"},
           stage' \in [Attempt -> {"idle", "capturing", "resuming", "fetching", "describing",
                                   "done", "ended", "abandoned"}],
           peer' \in Attempt \cup {Nothing}, answerDue' \in BOOLEAN,
           answerDue' => peer' \in Attempt,
           toServer' \in Seq(Message({"offer", "ice_candidate"})),
           toPage' \in Seq(Message({"answer", "ice_candidate"})),
           UNCHANGED <<gathered, answering, remote, applied, emitted, received>>
    PROVE  MicrophoneTypeOK' /\ IsFiniteSet(localCandidates)'
<1>1. overtaken' \in BOOLEAN
    BY DEF stopMicrophone
<1>2. /\ audio' = Nothing /\ connection' = Nothing
      /\ enabled' = FALSE /\ offerSent' = FALSE
      /\ localCandidates' = {} /\ remoteCandidates' = {}
      /\ capturing' \subseteq capturing /\ open' \subseteq open
    BY DEF stopMicrophone
<1> QED BY <1>1, <1>2, FS_EmptySet DEF MicInv, MicrophoneTypeOK

LEMMA TypeStep ==
    ASSUME MicInv, [MicrophoneNext]_vars
    PROVE  MicrophoneTypeOK' /\ IsFiniteSet(localCandidates)'
<1> DEFINE up == Message({"offer", "ice_candidate"})
           down == Message({"answer", "ice_candidate"})
<1>1. CASE connectSocket
    BY <1>1 DEF connectSocket, MicInv, MicrophoneTypeOK, refs, browser, server
<1>2. CASE finishRoom
    <2>1. <<>> \in Seq(up) /\ <<>> \in Seq(down)
        OBVIOUS
    <2> QED BY <1>2, <2>1, StopType DEF finishRoom, MicInv, MicrophoneTypeOK
<1>3. CASE Disable
    BY <1>3, StopType DEF Disable, MicInv, MicrophoneTypeOK, server
<1>4. ASSUME NEW a \in Attempt, startMicrophone(a) \/ fail(a)
      PROVE  MicrophoneTypeOK' /\ IsFiniteSet(localCandidates)'
    <2>1. CASE startMicrophone(a)
        BY <2>1, StopType DEF startMicrophone, Advance, MicInv, MicrophoneTypeOK, server
    <2>2. CASE fail(a)
        BY <2>2, StopType DEF fail, MicInv, MicrophoneTypeOK, server
    <2> QED BY <1>4, <2>1, <2>2
<1>5. ASSUME NEW a \in Attempt, getUserMedia(a) \/ resume(a) \/ createPeerConnection(a)
      PROVE  MicrophoneTypeOK' /\ IsFiniteSet(localCandidates)'
    BY <1>5 DEF getUserMedia, resume, createPeerConnection, Advance, MicInv, MicrophoneTypeOK,
                refs, browser, server
<1>6. ASSUME NEW a \in Attempt, onicecandidate(a)
      PROVE  MicrophoneTypeOK' /\ IsFiniteSet(localCandidates)'
    <2>1. toServer' \in Seq(up)
        <3>1. toServer \in Seq(up)
            BY DEF MicInv, MicrophoneTypeOK
        <3> QED BY <1>6, <3>1, SentType, JoinedType DEF onicecandidate, Send, MicInv
    <2>2. localCandidates' \subseteq Attempt /\ IsFiniteSet(localCandidates)'
        BY <1>6, FS_AddElement DEF onicecandidate, MicInv, MicrophoneTypeOK
    <2> HIDE DEF up
    <2> QED BY <1>6, <2>1, <2>2 DEF onicecandidate, MicInv, MicrophoneTypeOK, server, up
<1>7. ASSUME NEW a \in Attempt, sendOffer(a)
      PROVE  MicrophoneTypeOK' /\ IsFiniteSet(localCandidates)'
    <2>1. toServer' \in Seq(up)
        <3>1. toServer \in Seq(up)
            BY DEF MicInv, MicrophoneTypeOK
        <3> QED BY <1>7, <3>1, SentType, JoinedType DEF sendOffer, Send, MicInv
    <2> QED BY <1>7, <2>1, FS_EmptySet
            DEF sendOffer, Advance, MicInv, MicrophoneTypeOK, browser, server
<1>8. ASSUME NEW a \in Attempt, setRemoteDescription(a)
      PROVE  MicrophoneTypeOK' /\ IsFiniteSet(localCandidates)'
    BY <1>8 DEF setRemoteDescription, addPendingCandidates, MicInv, MicrophoneTypeOK, server
<1>9. CASE ReadMessage
    <2>1. Head(toPage).of \in Attempt /\ Tail(toPage) \in Seq(down)
        <3>1. toPage \in Seq(down) /\ toPage # <<>>
            BY <1>9 DEF ReadMessage, receiveAnswer, receiveCandidate, MicInv, MicrophoneTypeOK
        <3>2. Head(toPage) \in down /\ Tail(toPage) \in Seq(down)
            BY <3>1, ReadType
        <3> QED BY <3>2 DEF Message
    <2>2. CASE receiveAnswer
        BY <2>1, <2>2 DEF receiveAnswer, MicInv, MicrophoneTypeOK, refs, server
    <2>3. CASE receiveCandidate
        BY <2>1, <2>3 DEF receiveCandidate, MicInv, MicrophoneTypeOK, server
    <2> QED BY <1>9, <2>2, <2>3 DEF ReadMessage
<1>10. CASE ServeMessage
    <2>1. Head(toServer).of \in Attempt /\ Tail(toServer) \in Seq(up)
        <3>1. toServer \in Seq(up) /\ toServer # <<>>
            BY <1>10 DEF ServeMessage, HandleOffer, AddICECandidate, MicInv, MicrophoneTypeOK
        <3>2. Head(toServer) \in up /\ Tail(toServer) \in Seq(up)
            BY <3>1, ReadType
        <3> QED BY <3>2 DEF Message
    <2> HIDE DEF up
    <2>2. CASE HandleOffer
        BY <2>1, <2>2 DEF HandleOffer, MicInv, MicrophoneTypeOK, refs, browser, up
    <2>3. CASE AddICECandidate
        BY <2>1, <2>3 DEF AddICECandidate, MicInv, MicrophoneTypeOK, refs, browser, up
    <2> QED BY <1>10, <2>2, <2>3 DEF ServeMessage
<1>11. CASE SendAnswer \/ OnICECandidate
    <2>1. peer \in Attempt => Answer(peer) \in down /\ Candidate(peer) \in down
        BY DEF Answer, Candidate, Message
    <2>2. toPage' \in Seq(down)
        <3>1. toPage \in Seq(down) /\ peer \in Attempt
            BY <1>11 DEF SendAnswer, OnICECandidate, MicInv, MicrophoneTypeOK
        <3> QED BY <1>11, <2>1, <3>1, ListType DEF SendAnswer, OnICECandidate
    <2> HIDE DEF down
    <2> QED BY <1>11, <2>2
            DEF SendAnswer, OnICECandidate, MicInv, MicrophoneTypeOK, refs, browser, down
<1>12. CASE UNCHANGED vars
    BY <1>12 DEF vars, refs, browser, server, MicInv, MicrophoneTypeOK
<1> QED BY <1>1, <1>2, <1>3, <1>4, <1>5, <1>6, <1>7, <1>8, <1>9, <1>10, <1>11, <1>12
        DEF MicrophoneNext, Continue

(* An answer is for a connection that has sent its offer, and what is      *)
(* buffered goes with it.                                                  *)
LEMMA CandidateStep ==
    ASSUME MicInv, [MicrophoneNext]_vars
    PROVE  AnsweredIsDone' /\ NoCandidateStranded'
<1> USE DEF MicInv, AnsweredIsDone, NoCandidateStranded
<1>1. Nothing \notin remote /\ DOMAIN stage = Attempt /\ remote \subseteq Attempt
      /\ answering \subseteq Attempt
    BY MicrophoneAssumption DEF MicrophoneTypeOK
<1>2. CASE connectSocket \/ ServeMessage \/ SendAnswer \/ OnICECandidate
    BY <1>2 DEF connectSocket, ServeMessage, HandleOffer, AddICECandidate, SendAnswer,
                OnICECandidate, refs, browser
<1>3. CASE finishRoom \/ Disable
    BY <1>1, <1>3 DEF finishRoom, Disable, stopMicrophone
<1>4. ASSUME NEW a \in Attempt, startMicrophone(a) \/ fail(a)
      PROVE  AnsweredIsDone' /\ NoCandidateStranded'
    BY <1>1, <1>4 DEF startMicrophone, fail, Advance, stopMicrophone, Pending
<1>5. ASSUME NEW a \in Attempt,
             getUserMedia(a) \/ resume(a) \/ onicecandidate(a) \/ sendOffer(a)
      PROVE  AnsweredIsDone' /\ NoCandidateStranded'
    BY <1>1, <1>5 DEF getUserMedia, resume, onicecandidate, sendOffer, Advance, refs, browser
<1>6. ASSUME NEW a \in Attempt, createPeerConnection(a)
      PROVE  AnsweredIsDone' /\ NoCandidateStranded'
    BY <1>1, <1>6 DEF createPeerConnection, Advance
<1>7. ASSUME NEW a \in Attempt, setRemoteDescription(a)
      PROVE  AnsweredIsDone' /\ NoCandidateStranded'
    BY <1>1, <1>7 DEF setRemoteDescription, addPendingCandidates
<1>8. CASE ReadMessage
    BY <1>1, <1>8 DEF ReadMessage, receiveAnswer, receiveCandidate, refs
<1>9. CASE UNCHANGED vars
    BY <1>9 DEF vars, refs, browser
<1> QED BY <1>2, <1>3, <1>4, <1>5, <1>6, <1>7, <1>8, <1>9 DEF MicrophoneNext, Continue

(* The awaits, one by one: what an attempt holds, and what is left.        *)
LEMMA InHandStep ==
    ASSUME MicInv, [MicrophoneNext]_vars
    PROVE  InHand'
<1> SUFFICES ASSUME ~overtaken'
             PROVE  /\ \A a, b \in Pending' : a = b
                    /\ \A a \in Pending' :
                          /\ ~enabled'
                          /\ Kept' = (IF HasCapture(a)' THEN {a} ELSE {})
                          /\ audio' = (IF HasRef(a)' THEN a ELSE Nothing)
                          /\ connection' = (IF HasConnection(a)' THEN a ELSE Nothing)
                          /\ open' = (IF HasConnection(a)' THEN {a} ELSE {})
                    /\ Pending' = {} =>
                          /\ connection' = audio'
                          /\ enabled' <=> audio' # Nothing
                          /\ Kept' = (IF enabled' THEN {audio'} ELSE {})
                          /\ open' = Kept'
    BY DEF InHand, HasCapture, HasRef, HasConnection
<1>1. DOMAIN stage = Attempt /\ capturing \subseteq Attempt /\ open \subseteq Attempt
      /\ enabled \in BOOLEAN
    BY DEF MicInv, MicrophoneTypeOK
<1>2. CASE \/ connectSocket \/ ServeMessage \/ SendAnswer \/ OnICECandidate
           \/ ReadMessage \/ UNCHANGED vars
           \/ \E a \in Attempt : onicecandidate(a) \/ setRemoteDescription(a)
    <2>1. UNCHANGED <<stage, capturing, open, audio, connection, enabled, overtaken>>
        BY <1>2 DEF connectSocket, ServeMessage, HandleOffer, AddICECandidate, SendAnswer,
                    OnICECandidate, ReadMessage, receiveAnswer, receiveCandidate,
                    onicecandidate, setRemoteDescription, vars, refs, browser
    <2> QED BY <2>1 DEF MicInv, InHand, Pending, Kept, HasCapture, HasRef, HasConnection
<1>3. CASE finishRoom \/ Disable
    <2>1. stopMicrophone(Nothing) /\ UNCHANGED stage
        BY <1>3 DEF finishRoom, Disable
    <2>2. ~overtaken /\ Pending = {} /\ Pending' = {}
        BY <2>1, MicrophoneAssumption DEF stopMicrophone, Pending
    <2>3. Kept \ {audio} = {} /\ open \ {connection} = {}
        BY <2>2 DEF MicInv, InHand
    <2> QED BY <2>1, <2>2, <2>3 DEF stopMicrophone, Kept
<1>4. ASSUME NEW a \in Attempt, startMicrophone(a)
      PROVE  InHand'
    <2>1. ~overtaken /\ Pending = {} /\ Pending' = {a} /\ stage'[a] = "capturing"
        BY <1>1, <1>4 DEF startMicrophone, Advance, stopMicrophone, Pending
    <2>2. Kept \ {audio} = {} /\ open \ {connection} = {}
        BY <2>1 DEF MicInv, InHand
    <2>3. Kept' = {}
        BY <1>1, <1>4, <2>2 DEF startMicrophone, Advance, stopMicrophone, Kept
    <2> QED BY <1>4, <2>1, <2>2, <2>3
            DEF startMicrophone, stopMicrophone, InHand, HasCapture, HasRef, HasConnection
<1>5. ASSUME NEW a \in Attempt, fail(a)
      PROVE  InHand'
    <2>1. ~overtaken /\ Pending = {a} /\ Pending' = {}
        BY <1>1, <1>5 DEF fail, stopMicrophone, Pending
    <2>2. a \in Pending /\ ~enabled
          /\ Kept = (IF HasCapture(a) THEN {a} ELSE {})
          /\ audio = (IF HasRef(a) THEN a ELSE Nothing)
          /\ connection = (IF HasConnection(a) THEN a ELSE Nothing)
          /\ open = (IF HasConnection(a) THEN {a} ELSE {})
        BY <2>1 DEF MicInv, InHand
    <2>3. stage[a] \in {"capturing", "resuming", "fetching", "describing"}
        BY <2>2 DEF Pending, MicInv, MicrophoneTypeOK
    <2>4. Kept' = {} /\ open' = {}
        BY <1>1, <1>5, <2>2, <2>3
           DEF fail, stopMicrophone, Kept, HasCapture, HasRef, HasConnection
    <2> QED BY <1>5, <2>1, <2>4 DEF fail, stopMicrophone, InHand
<1>6. ASSUME NEW a \in Attempt,
             getUserMedia(a) \/ resume(a) \/ createPeerConnection(a) \/ sendOffer(a)
      PROVE  InHand'
    <2>1. ~overtaken /\ a \in Pending
        BY <1>6 DEF getUserMedia, resume, createPeerConnection, sendOffer, Advance, Pending
    <2>2. Pending = {a} /\ ~enabled
          /\ Kept = (IF HasCapture(a) THEN {a} ELSE {})
          /\ audio = (IF HasRef(a) THEN a ELSE Nothing)
          /\ connection = (IF HasConnection(a) THEN a ELSE Nothing)
          /\ open = (IF HasConnection(a) THEN {a} ELSE {})
        BY <2>1 DEF MicInv, InHand
    <2>3. CASE getUserMedia(a)
        <3>1. Pending' = {a} /\ stage'[a] = "resuming" /\ stage[a] = "capturing"
            BY <1>1, <2>2, <2>3 DEF getUserMedia, Advance, Pending
        <3>2. Kept' = {a}
            BY <1>1, <2>2, <2>3, <3>1 DEF getUserMedia, Advance, Kept, HasCapture
        <3> QED BY <2>2, <2>3, <3>1, <3>2
                DEF getUserMedia, refs, InHand, HasCapture, HasRef, HasConnection
    <2>4. CASE resume(a)
        <3>1. Pending' = {a} /\ stage'[a] = "fetching" /\ stage[a] = "resuming"
            BY <1>1, <2>2, <2>4 DEF resume, Advance, Pending
        <3>2. Kept' = {a}
            BY <1>1, <2>2, <2>4, <3>1 DEF resume, Advance, Kept, HasCapture, browser
        <3> QED BY <2>2, <2>4, <3>1, <3>2
                DEF resume, browser, InHand, HasCapture, HasRef, HasConnection
    <2>5. CASE createPeerConnection(a)
        <3>1. Pending' = {a} /\ stage'[a] = "describing" /\ stage[a] = "fetching"
            BY <1>1, <2>2, <2>5 DEF createPeerConnection, Advance, Pending
        <3>2. Kept' = {a}
            BY <1>1, <2>2, <2>5, <3>1 DEF createPeerConnection, Advance, Kept, HasCapture
        <3> QED BY <2>2, <2>5, <3>1, <3>2
                DEF createPeerConnection, InHand, HasCapture, HasRef, HasConnection
    <2>6. CASE sendOffer(a)
        <3>1. Pending' = {} /\ stage'[a] = "done" /\ stage[a] = "describing"
            BY <1>1, <2>2, <2>6 DEF sendOffer, Advance, Pending
        <3>2. Kept' = {a}
            BY <1>1, <2>2, <2>6, <3>1 DEF sendOffer, Advance, Kept, HasCapture, browser
        <3> QED BY <2>2, <2>6, <3>1, <3>2, MicrophoneAssumption
                DEF sendOffer, browser, InHand, HasRef, HasConnection
    <2> QED BY <1>6, <2>3, <2>4, <2>5, <2>6
<1> QED BY <1>2, <1>3, <1>4, <1>5, <1>6
        DEF MicrophoneNext, Continue, InHand, HasCapture, HasRef, HasConnection
-----------------------------------------------------------------------------
(* MicInv holds however the attempts overlap.                              *)
THEOREM MicrophoneInvariant == MicrophoneSpec => []MicInv
<1>1. MicInv /\ [MicrophoneNext]_vars => MicInv'
    BY TypeStep, CandidateStep, InHandStep DEF MicInv
<1> QED BY <1>1, MicInvInit, PTL DEF MicrophoneSpec

THEOREM MicrophoneTypeCorrect == MicrophoneSpec => []MicrophoneTypeOK
<1>1. MicInv => MicrophoneTypeOK
    BY DEF MicInv
<1> QED BY <1>1, MicrophoneInvariant, PTL

(* App.tsx:326-339: no candidate of the server's waits in the buffer once  *)
(* the connection has its description, in whichever order they came.       *)
THEOREM CandidatesNotStranded == MicrophoneSpec => []NoCandidateStranded
<1>1. MicInv => NoCandidateStranded
    BY DEF MicInv
<1> QED BY <1>1, MicrophoneInvariant, PTL

(* App.tsx:262-275: a settled page that says "Off" holds no capture and no *)
(* connection, as long as nothing has overtaken an attempt.                *)
THEOREM MicrophoneLetsGo == MicrophoneSpec => []NothingLeftBehind
<1>1. MicInv => NothingLeftBehind
    BY MicrophoneAssumption DEF MicInv, InHand, NothingLeftBehind, MicrophoneTypeOK, Kept
<1> QED BY <1>1, MicrophoneInvariant, PTL
-----------------------------------------------------------------------------
(***************************************************************************)
(* CandidatesFollowTheirOffer looks at candidates on their way only.  What *)
(* makes the next one follow its offer is that a page that is sending has  *)
(* an open socket, and that its connection made the last offer on it.      *)
(***************************************************************************)
OfferGoesFirst ==
    ~overtaken =>
        /\ localCandidates \subseteq {connection}
        /\ offerSent = enabled
        /\ Pending # {} \/ enabled => socket = "open"
        /\ enabled => LastOffer(toServer, peer, Len(toServer) + 1, connection)

OrderInv == OfferGoesFirst /\ CandidatesFollowTheirOffer

(* Messages sent later do not change what is the last offer before.        *)
LEMMA LaterMessages ==
    ASSUME NEW M, NEW s \in Seq(M), NEW t \in Seq(M), NEW i \in 1..(Len(s) + 1),
           NEW p, NEW a, LastOffer(s, p, i, a)
    PROVE  LastOffer(s \o t, p, i, a)
<1>1. \A k \in 1..(i - 1) : (s \o t)[k] = s[k]
    OBVIOUS
<1>2. CASE p = a /\ \A k \in 1..(i - 1) : s[k].type # "offer"
    BY <1>1, <1>2 DEF LastOffer
<1>3. ASSUME NEW j \in 1..(i - 1), s[j].type = "offer", s[j].of = a,
             \A k \in (j + 1)..(i - 1) : s[k].type # "offer"
      PROVE  LastOffer(s \o t, p, i, a)
    <2>1. \A k \in (j + 1)..(i - 1) : k \in 1..(i - 1)
        OBVIOUS
    <2> QED BY <1>1, <1>3, <2>1 DEF LastOffer
<1> QED BY <1>2, <1>3 DEF LastOffer

(* The server has read the head of s, and made a peer of it when it is an  *)
(* offer.                                                                  *)
LEMMA HeadIsRead ==
    ASSUME NEW M, NEW s \in Seq(M), s # <<>>, NEW i \in 1..Len(s), NEW p, NEW a,
           LastOffer(s, p, i + 1, a)
    PROVE  LastOffer(Tail(s), IF Head(s).type = "offer" THEN Head(s).of ELSE p, i, a)
<1> DEFINE r == IF Head(s).type = "offer" THEN Head(s).of ELSE p
<1>1. \A k \in 1..(i - 1) : Tail(s)[k] = s[k + 1]
    OBVIOUS
<1>2. Head(s) = s[1] /\ 1 \in 1..i
    OBVIOUS
<1>3. CASE p = a /\ \A k \in 1..i : s[k].type # "offer"
    <2>1. r = a
        BY <1>2, <1>3
    <2>2. \A k \in 1..(i - 1) : Tail(s)[k].type # "offer"
        BY <1>1, <1>3
    <2> QED BY <2>1, <2>2 DEF LastOffer
<1>4. ASSUME NEW j \in 1..i, s[j].type = "offer", s[j].of = a,
             \A k \in (j + 1)..i : s[k].type # "offer"
      PROVE  LastOffer(Tail(s), r, i, a)
    <2>1. CASE j = 1
        <3>1. r = a
            BY <1>2, <1>4, <2>1
        <3>2. \A k \in 1..(i - 1) : Tail(s)[k].type # "offer"
            BY <1>1, <1>4, <2>1
        <3> QED BY <3>1, <3>2 DEF LastOffer
    <2>2. CASE j # 1
        <3>1. j - 1 \in 1..(i - 1) /\ Tail(s)[j - 1] = s[j]
            BY <1>1, <2>2
        <3>2. \A k \in ((j - 1) + 1)..(i - 1) : Tail(s)[k].type # "offer"
            BY <1>1, <1>4, <2>2
        <3> QED BY <1>4, <3>1, <3>2 DEF LastOffer
    <2> QED BY <2>1, <2>2
<1>5. (i + 1) - 1 = i
    OBVIOUS
<1> QED BY <1>3, <1>4, <1>5 DEF LastOffer

(* Nothing but the connection at work is open.                             *)
LEMMA OpenIsCurrent ==
    ASSUME MicInv, ~overtaken, NEW a \in open
    PROVE  connection = a /\ (stage[a] = "done" => enabled)
<1>1. CASE Pending = {}
    BY <1>1 DEF MicInv, InHand
<1>2. CASE Pending # {}
    BY <1>2 DEF MicInv, InHand, HasConnection
<1> QED BY <1>1, <1>2

(* The candidates that have waited for the offer are of its connection.    *)
LEMMA ListedCandidates ==
    ASSUME MicInv, NEW a \in Attempt, localCandidates \subseteq {a}
    PROVE  LET t == SetToSeq({Candidate(c) : c \in localCandidates})
           IN  /\ t \in Seq(Message({"offer", "ice_candidate"}))
               /\ \A i \in DOMAIN t : t[i] = Candidate(a)
<1> DEFINE S == {Candidate(c) : c \in localCandidates}
<1>1. S \subseteq {Candidate(a)}
    OBVIOUS
<1>2. IsFiniteSet(S)
    <2>1. S = {} \/ S = {Candidate(a)}
        BY <1>1
    <2>2. IsFiniteSet({}) /\ IsFiniteSet({} \cup {Candidate(a)})
        BY FS_EmptySet, FS_AddElement
    <2> QED BY <2>1, <2>2
<1>3. SetToSeq(S) \in Seq(S)
    BY <1>2, SetToSeqType
<1>4. Candidate(a) \in Message({"offer", "ice_candidate"})
    BY DEF Candidate, Message
<1> HIDE DEF S
<1>5. \A i \in DOMAIN SetToSeq(S) : SetToSeq(S)[i] = Candidate(a)
    BY <1>1, <1>3
<1>6. SetToSeq(S) \in Seq(Message({"offer", "ice_candidate"}))
    BY <1>1, <1>3, <1>4
<1> QED BY <1>5, <1>6 DEF S

LEMMA OrderInvInit == MicrophoneInit => OrderInv
<1> SUFFICES ASSUME MicrophoneInit
             PROVE  OrderInv
    OBVIOUS
<1>1. Pending = {} /\ DOMAIN toServer = {}
    BY DEF MicrophoneInit, Pending
<1> QED BY <1>1 DEF MicrophoneInit, OrderInv, OfferGoesFirst, CandidatesFollowTheirOffer

LEMMA OrderInvStep ==
    ASSUME MicInv, OrderInv, [MicrophoneNext]_vars
    PROVE  OrderInv'
<1> DEFINE up == Message({"offer", "ice_candidate"})
<1> SUFFICES ASSUME ~overtaken'
             PROVE  OrderInv'
    BY DEF OrderInv, OfferGoesFirst, CandidatesFollowTheirOffer
<1>1. /\ toServer \in Seq(up) /\ localCandidates \subseteq Attempt
      /\ DOMAIN stage = Attempt /\ enabled \in BOOLEAN /\ offerSent \in BOOLEAN
    BY DEF MicInv, MicrophoneTypeOK
<1>2. CASE ReadMessage \/ SendAnswer \/ OnICECandidate \/ UNCHANGED vars
           \/ (\E a \in Attempt : setRemoteDescription(a))
    <2>1. UNCHANGED <<socket, stage, connection, enabled, offerSent, localCandidates,
                      toServer, peer, overtaken>>
        BY <1>2 DEF ReadMessage, receiveAnswer, receiveCandidate, SendAnswer, OnICECandidate,
                    setRemoteDescription, vars, refs, browser, server
    <2> QED BY <2>1 DEF OrderInv, OfferGoesFirst, CandidatesFollowTheirOffer, Pending
<1>3. CASE connectSocket
    BY <1>3 DEF connectSocket, refs, server, OrderInv, OfferGoesFirst,
                CandidatesFollowTheirOffer, Pending
<1>4. CASE finishRoom
    <2>1. Pending' = {} /\ DOMAIN toServer' = {}
        <3>1. DOMAIN <<>> = {}
            OBVIOUS
        <3>2. Pending' = Pending /\ Pending \ {Nothing} = {}
            BY <1>4 DEF finishRoom, stopMicrophone, Pending
        <3> QED BY <1>4, <3>1, <3>2, MicrophoneAssumption DEF finishRoom, Pending
    <2> QED BY <1>4, <2>1 DEF finishRoom, stopMicrophone, OrderInv, OfferGoesFirst,
                               CandidatesFollowTheirOffer
<1>5. CASE Disable \/ (\E a \in Attempt : startMicrophone(a) \/ fail(a))
    <2>1. PICK a \in Attempt \cup {Nothing} : stopMicrophone(a)
        BY <1>5 DEF Disable, startMicrophone, fail
    <2>2. ~overtaken /\ UNCHANGED <<socket, toServer, peer>>
        BY <1>5, <2>1 DEF Disable, startMicrophone, fail, stopMicrophone, server
    <2>3. enabled' = FALSE /\ offerSent' = FALSE /\ localCandidates' = {}
        BY <2>1 DEF stopMicrophone
    <2>4. Pending' # {} => socket = "open"
        BY <1>1, <1>5, <2>2
           DEF Disable, startMicrophone, fail, Advance, Pending, OrderInv, OfferGoesFirst
    <2> QED BY <2>2, <2>3, <2>4 DEF OrderInv, OfferGoesFirst, CandidatesFollowTheirOffer
<1>6. ASSUME NEW a \in Attempt,
             getUserMedia(a) \/ resume(a) \/ createPeerConnection(a)
      PROVE  OrderInv'
    <2>1. a \in Pending /\ Pending' = Pending
        BY <1>1, <1>6 DEF getUserMedia, resume, createPeerConnection, Advance, Pending
    <2>2. /\ ~overtaken
          /\ UNCHANGED <<socket, enabled, offerSent, localCandidates, toServer, peer>>
        BY <1>6 DEF getUserMedia, resume, createPeerConnection, refs, server
    <2>3. ~enabled
        BY <2>1, <2>2 DEF MicInv, InHand
    <2>4. localCandidates \subseteq {connection'}
        <3>1. CASE createPeerConnection(a)
            <4>1. connection = Nothing
                BY <2>1, <2>2, <3>1
                   DEF createPeerConnection, Advance, MicInv, InHand, HasConnection
            <4> QED BY <1>1, <2>2, <4>1, MicrophoneAssumption DEF OrderInv, OfferGoesFirst
        <3>2. CASE getUserMedia(a) \/ resume(a)
            BY <2>2, <3>2 DEF getUserMedia, resume, refs, OrderInv, OfferGoesFirst
        <3> QED BY <1>6, <3>1, <3>2
    <2> QED BY <2>1, <2>2, <2>3, <2>4 DEF OrderInv, OfferGoesFirst, CandidatesFollowTheirOffer
<1>7. ASSUME NEW a \in Attempt, onicecandidate(a)
      PROVE  OrderInv'
    <2>1. ~overtaken /\ connection = a /\ (stage[a] = "done" => enabled)
        BY <1>7, OpenIsCurrent DEF onicecandidate
    <2>2. UNCHANGED <<socket, stage, connection, enabled, offerSent, peer, overtaken>>
          /\ Pending' = Pending
        BY <1>7 DEF onicecandidate, server, Pending
    <2>3. CASE ~offerSent
        BY <1>7, <2>1, <2>2, <2>3
           DEF onicecandidate, OrderInv, OfferGoesFirst, CandidatesFollowTheirOffer
    <2>4. CASE offerSent
        <3>1. enabled /\ socket = "open" /\ LastOffer(toServer, peer, Len(toServer) + 1, a)
            BY <2>1, <2>4 DEF OrderInv, OfferGoesFirst
        <3>2. toServer' = toServer \o <<Candidate(a)>> /\ UNCHANGED localCandidates
            BY <1>7, <2>4, <3>1 DEF onicecandidate, Send
        <3>3. Candidate(a) \in up /\ Candidate(a).type = "ice_candidate" /\ Candidate(a).of = a
            BY DEF Candidate, Message
        <3> HIDE DEF up
        <3>4. /\ Len(toServer') = Len(toServer) + 1
              /\ \A i \in 1..Len(toServer) : toServer'[i] = toServer[i]
              /\ toServer'[Len(toServer) + 1] = Candidate(a)
            BY <1>1, <3>2, <3>3
        <3>5. \A i \in 1..(Len(toServer) + 1) : \A c :
                  LastOffer(toServer, peer, i, c) => LastOffer(toServer', peer, i, c)
            <4>1. <<Candidate(a)>> \in Seq(up)
                BY <3>3
            <4> QED BY <1>1, <3>2, <4>1, LaterMessages
        <3>6. LastOffer(toServer', peer, Len(toServer') + 1, a)
            <4>1. LastOffer(toServer', peer, Len(toServer) + 1, a)
                BY <1>1, <3>1, <3>5
            <4> QED BY <1>1, <3>3, <3>4, <4>1 DEF LastOffer
        <3>7. CandidatesFollowTheirOffer'
            <4> SUFFICES ASSUME NEW i \in DOMAIN toServer', toServer'[i].type = "ice_candidate"
                         PROVE  LastOffer(toServer', peer, i, toServer'[i].of)
                BY <2>2 DEF CandidatesFollowTheirOffer
            <4>1. CASE i \in 1..Len(toServer)
                BY <1>1, <2>1, <3>4, <3>5, <4>1 DEF OrderInv, CandidatesFollowTheirOffer
            <4>2. CASE i = Len(toServer) + 1
                BY <1>1, <3>1, <3>3, <3>4, <3>5, <4>2
            <4>3. toServer' \in Seq(up)
                BY <1>1, <3>2, <3>3
            <4> QED BY <1>1, <3>4, <4>1, <4>2, <4>3
        <3> QED BY <2>1, <2>2, <3>1, <3>2, <3>6, <3>7 DEF OrderInv, OfferGoesFirst
    <2> QED BY <1>1, <2>3, <2>4
<1>8. ASSUME NEW a \in Attempt, sendOffer(a)
      PROVE  OrderInv'
    <2> DEFINE t == SetToSeq({Candidate(c) : c \in localCandidates})
    <2>1. /\ ~overtaken /\ a \in Pending /\ connection = a
          /\ socket = "open" /\ localCandidates \subseteq {a}
        <3>1. ~overtaken /\ a \in Pending /\ a \in open
            BY <1>8 DEF sendOffer, Advance, Pending
        <3> QED BY <3>1, OpenIsCurrent DEF OrderInv, OfferGoesFirst
    <2>2. /\ UNCHANGED <<socket, connection, peer, overtaken>>
          /\ enabled' = TRUE /\ offerSent' = TRUE /\ localCandidates' = {}
          /\ toServer' = toServer \o (<<Offer(a)>> \o t)
        BY <1>8, <2>1 DEF sendOffer, Send, server
    <2>3. /\ t \in Seq(up) /\ Offer(a) \in up
          /\ \A i \in DOMAIN t : t[i] = Candidate(a)
        BY <2>1, ListedCandidates DEF Offer, Message
    <2>4. /\ Offer(a).type = "offer" /\ Offer(a).of = a
          /\ Candidate(a).type = "ice_candidate" /\ Candidate(a).of = a
        BY DEF Offer, Candidate
    <2> HIDE DEF up, t
    <2> DEFINE u == <<Offer(a)>> \o t
               n == Len(toServer)
    <2>5. /\ u \in Seq(up) /\ Len(u) = 1 + Len(t)
          /\ u[1] = Offer(a)
          /\ \A i \in 2..Len(u) : u[i] = Candidate(a)
        BY <2>3
    <2> HIDE DEF u
    <2>6. /\ n \in Nat /\ Len(u) \in Nat \ {0}
          /\ toServer' \in Seq(up) /\ Len(toServer') = n + Len(u)
          /\ \A i \in 1..n : toServer'[i] = toServer[i]
          /\ toServer'[n + 1] = Offer(a)
          /\ \A i \in (n + 2)..(n + Len(u)) : toServer'[i] = Candidate(a)
        <3>1. toServer' = toServer \o u
            BY <2>2 DEF u
        <3>2. \A i \in 1..Len(u) : toServer'[n + i] = u[i]
            BY <1>1, <2>5, <3>1
        <3>4. /\ n \in Nat /\ Len(u) \in Nat \ {0}
              /\ toServer' \in Seq(up) /\ Len(toServer') = n + Len(u)
              /\ \A i \in 1..n : toServer'[i] = toServer[i]
            <4>1. Len(t) \in Nat
                BY <2>3
            <4>2. Len(u) \in Nat \ {0} /\ n \in Nat
                BY <1>1, <2>5, <4>1
            <4>3. toServer' \in Seq(up) /\ Len(toServer') = n + Len(u)
                BY <1>1, <2>5, <3>1, JoinedType
            <4>4. \A i \in 1..n : toServer'[i] = toServer[i]
                BY <1>1, <2>5, <3>1
            <4> QED BY <4>2, <4>3, <4>4
        <3>5. toServer'[n + 1] = Offer(a)
            BY <2>5, <3>2, <3>4
        <3>6. ASSUME NEW i \in (n + 2)..(n + Len(u))
              PROVE  toServer'[i] = Candidate(a)
            <4>1. i - n \in 2..Len(u) /\ i - n \in 1..Len(u) /\ n + (i - n) = i
                BY <3>4
            <4> QED BY <2>5, <3>2, <4>1
        <3> QED BY <3>4, <3>5, <3>6
    <2>7. ASSUME NEW i \in (n + 2)..(n + Len(u) + 1)
          PROVE  LastOffer(toServer', peer, i, a)
        <3>1. n + 1 \in 1..(i - 1) /\ (n + 1) + 1 = n + 2
            BY <2>6
        <3>2. \A k \in (n + 2)..(i - 1) : k \in (n + 2)..(n + Len(u))
            BY <2>6
        <3> QED BY <2>4, <2>6, <3>1, <3>2 DEF LastOffer
    <2>8. CandidatesFollowTheirOffer'
        <3> SUFFICES ASSUME NEW i \in DOMAIN toServer', toServer'[i].type = "ice_candidate"
                     PROVE  LastOffer(toServer', peer, i, toServer'[i].of)
            BY <2>2 DEF CandidatesFollowTheirOffer
        <3>1. CASE i \in 1..n
            <4>1. LastOffer(toServer, peer, i, toServer[i].of)
                BY <1>1, <2>1, <2>6, <3>1 DEF OrderInv, CandidatesFollowTheirOffer
            <4>2. toServer' = toServer \o u /\ i \in 1..(Len(toServer) + 1)
                BY <2>2, <2>6, <3>1 DEF u
            <4>3. LastOffer(toServer \o u, peer, i, toServer[i].of)
                BY <1>1, <2>5, <4>1, <4>2, LaterMessages
            <4> QED BY <2>6, <3>1, <4>2, <4>3
        <3>2. CASE i = n + 1
            BY <2>4, <2>6, <3>2
        <3>3. CASE i \in (n + 2)..(n + Len(u))
            BY <2>4, <2>6, <2>7, <3>3
        <3> QED BY <2>6, <3>1, <3>2, <3>3
    <2>9. LastOffer(toServer', peer, Len(toServer') + 1, a)
        BY <2>6, <2>7
    <2> QED BY <2>1, <2>2, <2>8, <2>9 DEF OrderInv, OfferGoesFirst
<1>9. CASE ServeMessage
    <2>1. UNCHANGED <<socket, stage, connection, enabled, offerSent, localCandidates, overtaken>>
          /\ Pending' = Pending
        BY <1>9 DEF ServeMessage, HandleOffer, AddICECandidate, refs, browser, Pending
    <2>2. /\ toServer # <<>> /\ toServer' = Tail(toServer)
          /\ peer' = IF Head(toServer).type = "offer" THEN Head(toServer).of ELSE peer
        BY <1>9 DEF ServeMessage, HandleOffer, AddICECandidate
    <2> HIDE DEF up
    <2>3. \A i \in 1..Len(toServer) : \A c :
              LastOffer(toServer, peer, i + 1, c) => LastOffer(toServer', peer', i, c)
        BY <1>1, <2>2, HeadIsRead
    <2>4. /\ Len(toServer) \in Nat \ {0} /\ Len(toServer') = Len(toServer) - 1
          /\ toServer' \in Seq(up)
          /\ \A i \in 1..Len(toServer') : toServer'[i] = toServer[i + 1]
        BY <1>1, <2>2
    <2>5. CandidatesFollowTheirOffer'
        <3> SUFFICES ASSUME NEW i \in DOMAIN toServer', toServer'[i].type = "ice_candidate"
                     PROVE  LastOffer(toServer', peer', i, toServer'[i].of)
            BY DEF CandidatesFollowTheirOffer
        <3>1. i \in 1..Len(toServer') /\ i + 1 \in DOMAIN toServer
            BY <1>1, <2>4
        <3>2. LastOffer(toServer, peer, i + 1, toServer[i + 1].of)
            BY <2>1, <2>4, <3>1 DEF OrderInv, CandidatesFollowTheirOffer
        <3> QED BY <2>3, <2>4, <3>1, <3>2
    <2>6. enabled => LastOffer(toServer', peer', Len(toServer') + 1, connection)
        <3>1. Len(toServer') + 1 = Len(toServer)
            BY <2>4
        <3> QED BY <2>1, <2>3, <2>4, <3>1 DEF OrderInv, OfferGoesFirst
    <2> QED BY <2>1, <2>5, <2>6 DEF OrderInv, OfferGoesFirst
<1> QED BY <1>2, <1>3, <1>4, <1>5, <1>6, <1>7, <1>8, <1>9 DEF MicrophoneNext, Continue

(* App.tsx:284-306: whatever the page gathers, before its offer or after,  *)
(* goes out behind that offer and before the next one, for any number of   *)
(* attempts of which none has been overtaken.                              *)
THEOREM CandidatesInOrder == MicrophoneSpec => []CandidatesFollowTheirOffer
<1>1. OrderInv => CandidatesFollowTheirOffer
    BY DEF OrderInv
<1>2. MicInv /\ OrderInv /\ [MicrophoneNext]_vars => MicInv' /\ OrderInv'
    BY TypeStep, CandidateStep, InHandStep, OrderInvStep DEF MicInv
<1> QED BY <1>1, <1>2, MicInvInit, OrderInvInit, PTL DEF MicrophoneSpec
-----------------------------------------------------------------------------
(***************************************************************************)
(* NoCandidateLost follows a candidate through the buffers and messages.   *)
(* When an attempt makes its connection the current one nothing must be    *)
(* known of its candidates yet, and when the server reads a candidate it   *)
(* must have that candidate's peer: CandidatesFollowTheirOffer again.      *)
(***************************************************************************)
Undescribed(a) == stage[a] \in {"idle", "capturing", "resuming", "fetching"}

NothingYet ==
    \A a \in Attempt : Undescribed(a) =>
        /\ a \notin gathered \cup localCandidates \cup emitted \cup {peer}
        /\ \A m \in ToSet(toServer) : m.of # a

LostInv == NothingYet /\ NoCandidateLost

LEMMA ToSetJoined ==
    ASSUME NEW M, NEW s \in Seq(M), NEW t \in Seq(M)
    PROVE  ToSet(s \o t) = ToSet(s) \cup ToSet(t)
<1>1. /\ Len(s) \in Nat /\ Len(t) \in Nat /\ s \o t \in Seq(M)
      /\ Len(s \o t) = Len(s) + Len(t)
    BY JoinedType
<1>2. ASSUME NEW i \in 1..Len(s)
      PROVE  (s \o t)[i] = s[i] /\ i \in 1..Len(s \o t)
    BY <1>1
<1>3. ASSUME NEW i \in 1..Len(t)
      PROVE  (s \o t)[Len(s) + i] = t[i] /\ Len(s) + i \in 1..Len(s \o t)
    BY <1>1
<1>4. ASSUME NEW x \in ToSet(s \o t)
      PROVE  x \in ToSet(s) \cup ToSet(t)
    <2>1. PICK i \in 1..Len(s \o t) : (s \o t)[i] = x
        BY <1>1, <1>4 DEF ToSet
    <2>2. CASE i \in 1..Len(s)
        BY <1>2, <2>1, <2>2 DEF ToSet
    <2>3. CASE i - Len(s) \in 1..Len(t)
        <3>1. Len(s) + (i - Len(s)) = i
            BY <1>1
        <3>2. (s \o t)[i] = t[i - Len(s)]
            BY <1>3, <2>3, <3>1
        <3> QED BY <2>1, <2>3, <3>2 DEF ToSet
    <2> QED BY <1>1, <2>1, <2>2, <2>3
<1>5. ToSet(s) \subseteq ToSet(s \o t)
    BY <1>1, <1>2 DEF ToSet
<1>6. ASSUME NEW i \in DOMAIN t
      PROVE  t[i] \in ToSet(s \o t)
    <2>1. Len(s) + i \in DOMAIN (s \o t) /\ (s \o t)[Len(s) + i] = t[i]
        BY <1>1, <1>3
    <2> QED BY <2>1 DEF ToSet
<1>7. ToSet(t) \subseteq ToSet(s \o t)
    BY <1>6 DEF ToSet
<1> QED BY <1>4, <1>5, <1>7

LEMMA ToSetOne ==
    ASSUME NEW M, NEW x \in M
    PROVE  <<x>> \in Seq(M) /\ ToSet(<<x>>) = {x}
BY DEF ToSet

LEMMA ToSetAppended ==
    ASSUME NEW M, NEW s \in Seq(M), NEW x \in M
    PROVE  ToSet(Append(s, x)) = ToSet(s) \cup {x}
<1> DEFINE u == <<x>>
<1>1. u \in Seq(M) /\ ToSet(u) = {x} /\ Append(s, x) = s \o u
    BY ToSetOne
<1> HIDE DEF u
<1> QED BY <1>1, ToSetJoined

LEMMA ToSetPrefixed ==
    ASSUME NEW M, NEW x \in M, NEW t \in Seq(M)
    PROVE  ToSet(<<x>> \o t) = {x} \cup ToSet(t)
<1> DEFINE u == <<x>>
<1>1. u \in Seq(M) /\ ToSet(u) = {x}
    BY ToSetOne
<1> HIDE DEF u
<1>2. ToSet(u \o t) = {x} \cup ToSet(t)
    BY <1>1, ToSetJoined
<1> QED BY <1>2 DEF u

LEMMA ToSetRead ==
    ASSUME NEW M, NEW s \in Seq(M), s # <<>>
    PROVE  ToSet(s) = {Head(s)} \cup ToSet(Tail(s))
<1>1. s = <<Head(s)>> \o Tail(s) /\ Head(s) \in M /\ Tail(s) \in Seq(M)
    OBVIOUS
<1> QED BY <1>1, ToSetPrefixed

(* What SetToSeq lists of one candidate.                                   *)
LEMMA OneCandidateListed ==
    ASSUME NEW x
    PROVE  ToSet(SetToSeq({x})) = {x}
<1>1. IsFiniteSet({x}) /\ Cardinality({x}) = 1
    BY FS_Singleton
<1>2. <<x>> \in [1..1 -> {x}] /\ IsInjective(<<x>>)
    BY DEF IsInjective
<1>3. SetToSeq({x}) \in [1..1 -> {x}]
    BY <1>1, <1>2 DEF SetToSeq
<1> QED BY <1>3 DEF ToSet

(* The messages that a page adds when it sends some.                       *)
LEMMA SendAdds ==
    ASSUME MicrophoneTypeOK, NEW t \in Seq(Message({"offer", "ice_candidate"})), Send(t)
    PROVE  /\ ToSet(toServer') \subseteq ToSet(toServer) \cup ToSet(t)
           /\ socket = "open" => ToSet(toServer') = ToSet(toServer) \cup ToSet(t)
BY ToSetJoined DEF Send, MicrophoneTypeOK

LEMMA LostInvInit == MicrophoneInit => LostInv
<1> SUFFICES ASSUME MicrophoneInit
             PROVE  LostInv
    OBVIOUS
<1>1. ToSet(toServer) = {}
    BY DEF MicrophoneInit, ToSet
<1> QED BY <1>1, MicrophoneAssumption
        DEF MicrophoneInit, LostInv, NothingYet, NoCandidateLost

LEMMA NothingYetStep ==
    ASSUME MicInv, NothingYet, [MicrophoneNext]_vars
    PROVE  NothingYet'
<1> DEFINE up == Message({"offer", "ice_candidate"})
<1> USE DEF Undescribed
<1>1. toServer \in Seq(up) /\ DOMAIN stage = Attempt /\ MicrophoneTypeOK
    BY DEF MicInv, MicrophoneTypeOK
<1>2. CASE UNCHANGED <<stage, gathered, localCandidates, emitted, peer, toServer>>
    BY <1>2 DEF NothingYet
<1>3. CASE finishRoom
    <2>1. toServer' = <<>> /\ ToSet(<<>>) = {}
        BY <1>3 DEF finishRoom, ToSet
    <2> QED BY <1>3, <2>1, MicrophoneAssumption DEF finishRoom, stopMicrophone, NothingYet
<1>4. CASE Disable \/ (\E a \in Attempt : startMicrophone(a) \/ fail(a))
    <2>1. localCandidates' = {} /\ UNCHANGED <<gathered, emitted, peer, toServer>>
        BY <1>4 DEF Disable, startMicrophone, fail, stopMicrophone, server
    <2>2. \A b \in Attempt : Undescribed(b)' => Undescribed(b)
        BY <1>1, <1>4 DEF Disable, startMicrophone, fail, Advance
    <2> QED BY <2>1, <2>2 DEF NothingYet
<1>5. ASSUME NEW a \in Attempt, getUserMedia(a) \/ resume(a) \/ createPeerConnection(a)
      PROVE  NothingYet'
    <2>1. UNCHANGED <<localCandidates, gathered, emitted, peer, toServer>>
        BY <1>5 DEF getUserMedia, resume, createPeerConnection, refs, browser, server
    <2>2. \A b \in Attempt : Undescribed(b)' => Undescribed(b)
        BY <1>1, <1>5 DEF getUserMedia, resume, createPeerConnection, Advance
    <2> QED BY <2>1, <2>2 DEF NothingYet
<1>6. ASSUME NEW a \in Attempt, onicecandidate(a)
      PROVE  NothingYet'
    <2>1. /\ gathered' = gathered \cup {a} /\ localCandidates' \subseteq localCandidates \cup {a}
          /\ UNCHANGED <<stage, emitted, peer>> /\ ~Undescribed(a)
        BY <1>6 DEF onicecandidate, server
    <2>2. Candidate(a) \in up /\ Candidate(a).of = a
        BY DEF Candidate, Message
    <2> HIDE DEF up
    <2>3. ToSet(toServer') \subseteq ToSet(toServer) \cup {Candidate(a)}
        <3>1. CASE offerSent
            BY <1>1, <1>6, <2>2, <3>1, SendAdds, ToSetOne DEF onicecandidate, up
        <3>2. CASE ~offerSent
            BY <1>6, <3>2 DEF onicecandidate
        <3> QED BY <3>1, <3>2
    <2> QED BY <2>1, <2>2, <2>3 DEF NothingYet
<1>7. ASSUME NEW a \in Attempt, sendOffer(a)
      PROVE  NothingYet'
    <2> DEFINE S == {Candidate(c) : c \in localCandidates}
               t == <<Offer(a)>> \o SetToSeq(S)
    <2>1. /\ localCandidates' = {} /\ UNCHANGED <<gathered, emitted, peer>>
          /\ \A b \in Attempt : Undescribed(b)' => Undescribed(b) /\ b # a
        BY <1>1, <1>7 DEF sendOffer, Advance, browser, server
    <2>2. t \in Seq(up)
        BY <1>1, SentType DEF MicInv
    <2>3. ToSet(toServer') \subseteq ToSet(toServer) \cup ToSet(t)
        BY <1>1, <1>7, <2>2, SendAdds DEF sendOffer
    <2>4. ASSUME NEW m \in ToSet(t)
          PROVE  m.of \in {a} \cup localCandidates
        <3>1. IsFiniteSet(S)
            <4> DEFINE list == [c \in localCandidates |-> Candidate(c)]
            <4>1. list \in Surjection(localCandidates, S)
                BY DEF Surjection
            <4> QED BY <4>1, FS_Surjection DEF MicInv
        <3>2. SetToSeq(S) \in Seq(S)
            BY <3>1, SetToSeqType
        <3>3. \A x \in S : x.of \in localCandidates
            BY DEF Candidate
        <3>4. ToSet(t) = {Offer(a)} \cup ToSet(SetToSeq(S))
            <4> DEFINE M == S \cup {Offer(a)}
            <4>1. Offer(a) \in M /\ SetToSeq(S) \in Seq(M)
                BY <3>2
            <4> HIDE DEF M
            <4> QED BY <4>1, ToSetPrefixed
        <3> HIDE DEF S
        <3>5. ToSet(SetToSeq(S)) \subseteq S
            BY <3>2 DEF ToSet
        <3>6. Offer(a).of = a
            BY DEF Offer
        <3> QED BY <2>4, <3>3, <3>4, <3>5, <3>6
    <2> HIDE DEF t
    <2> QED BY <2>1, <2>3, <2>4 DEF NothingYet
<1>8. CASE ServeMessage
    <2>1. UNCHANGED <<stage, localCandidates, gathered, emitted>>
        BY <1>8 DEF ServeMessage, HandleOffer, AddICECandidate, refs, browser
    <2>2. /\ toServer # <<>> /\ toServer' = Tail(toServer)
          /\ peer' \in {peer, Head(toServer).of}
        BY <1>8 DEF ServeMessage, HandleOffer, AddICECandidate
    <2>3. ToSet(toServer) = {Head(toServer)} \cup ToSet(toServer')
        BY <1>1, <2>2, ToSetRead
    <2> QED BY <2>1, <2>2, <2>3 DEF NothingYet
<1>9. CASE OnICECandidate
    BY <1>9 DEF OnICECandidate, refs, browser, NothingYet
<1>10. CASE ReadMessage \/ SendAnswer \/ connectSocket \/ UNCHANGED vars
            \/ (\E a \in Attempt : setRemoteDescription(a))
    BY <1>2, <1>10 DEF ReadMessage, receiveAnswer, receiveCandidate, SendAnswer, connectSocket,
                       setRemoteDescription, vars, refs, browser, server
<1> QED BY <1>3, <1>4, <1>5, <1>6, <1>7, <1>8, <1>9, <1>10 DEF MicrophoneNext, Continue

(* The candidate that the server reads belongs to its peer.                *)
LEMMA ReadCandidateIsPeers ==
    ASSUME MicInv, OrderInv, ~overtaken, AddICECandidate
    PROVE  Head(toServer).of = peer
<1>1. 1 \in DOMAIN toServer /\ Head(toServer) = toServer[1]
      /\ toServer[1].type = "ice_candidate"
    BY DEF AddICECandidate, MicInv, MicrophoneTypeOK
<1>2. LastOffer(toServer, peer, 1, toServer[1].of)
    BY <1>1 DEF OrderInv, CandidatesFollowTheirOffer
<1> QED BY <1>1, <1>2 DEF LastOffer

LEMMA NotLostStep ==
    ASSUME MicInv, OrderInv, LostInv, [MicrophoneNext]_vars
    PROVE  NoCandidateLost'
<1> DEFINE up == Message({"offer", "ice_candidate"})
           down == Message({"answer", "ice_candidate"})
<1> SUFFICES ASSUME ~overtaken', NEW a \in Attempt, connection' = a
             PROVE  /\ a \in gathered' =>
                          \/ a \in localCandidates' \cup received'
                          \/ Candidate(a) \in ToSet(toServer')
                    /\ a \in emitted' =>
                          \/ a \in remoteCandidates' \cup applied'
                          \/ Candidate(a) \in ToSet(toPage')
    BY DEF NoCandidateLost, Candidate
<1>1. /\ toServer \in Seq(up) /\ toPage \in Seq(down) /\ MicrophoneTypeOK
      /\ Candidate(a) \in up /\ Candidate(a) \in down
      /\ Candidate(a).type = "ice_candidate" /\ Candidate(a).of = a
    BY DEF MicInv, MicrophoneTypeOK, Candidate, Message
<1>2. ~overtaken /\ connection = a =>
          /\ a \in gathered =>
                a \in localCandidates \cup received \/ Candidate(a) \in ToSet(toServer)
          /\ a \in emitted =>
                a \in remoteCandidates \cup applied \/ Candidate(a) \in ToSet(toPage)
    BY DEF LostInv, NoCandidateLost
<1> HIDE DEF up, down
<1>3. CASE finishRoom \/ Disable \/ (\E c \in Attempt : startMicrophone(c) \/ fail(c))
    BY <1>3, MicrophoneAssumption DEF finishRoom, Disable, startMicrophone, fail, stopMicrophone
<1>4. ASSUME NEW c \in Attempt, createPeerConnection(c)
      PROVE  a \notin gathered' \cup emitted'
    <2>1. c = a /\ Undescribed(a)
        BY <1>4 DEF createPeerConnection, Advance, Undescribed
    <2> QED BY <1>4, <2>1 DEF createPeerConnection, server, LostInv, NothingYet
<1>5. ASSUME NEW c \in Attempt, getUserMedia(c) \/ resume(c)
      PROVE  /\ ~overtaken /\ connection = a
             /\ UNCHANGED <<gathered, localCandidates, received, toServer, emitted,
                            remoteCandidates, applied, toPage>>
    BY <1>5 DEF getUserMedia, resume, refs, browser, server
<1>6. CASE connectSocket \/ UNCHANGED vars
    BY <1>2, <1>6 DEF connectSocket, vars, refs, browser, server
<1>7. ASSUME NEW c \in Attempt, onicecandidate(c)
      PROVE  /\ ~overtaken /\ connection = a
             /\ a \in localCandidates' \/ Candidate(a) \in ToSet(toServer')
             /\ UNCHANGED <<emitted, remoteCandidates, applied, toPage>>
    <2>1. /\ ~overtaken /\ c \in open /\ stage[c] \in {"describing", "done"}
          /\ UNCHANGED <<connection, emitted, remoteCandidates, applied, toPage>>
        BY <1>7 DEF onicecandidate, server
    <2>2. connection = c /\ c = a
        BY <2>1, OpenIsCurrent
    <2>3. CASE offerSent
        <3>1. socket = "open"
            BY <2>1, <2>3 DEF OrderInv, OfferGoesFirst
        <3> DEFINE t == <<Candidate(a)>>
        <3>2. Send(t)
            BY <1>7, <2>2, <2>3 DEF onicecandidate
        <3>3. t \in Seq(up) /\ ToSet(t) = {Candidate(a)}
            BY <1>1, ToSetOne
        <3> HIDE DEF t
        <3>4. ToSet(toServer') = ToSet(toServer) \cup {Candidate(a)}
            BY <1>1, <3>1, <3>2, <3>3, SendAdds DEF up
        <3> QED BY <2>1, <2>2, <3>4
    <2>4. CASE ~offerSent
        BY <1>7, <2>1, <2>2, <2>4 DEF onicecandidate
    <2> QED BY <2>3, <2>4
<1>8. ASSUME NEW c \in Attempt, sendOffer(c)
      PROVE  /\ ~overtaken /\ connection = a
             /\ a \in localCandidates => Candidate(a) \in ToSet(toServer')
             /\ Candidate(a) \in ToSet(toServer) => Candidate(a) \in ToSet(toServer')
             /\ UNCHANGED <<gathered, received, emitted, remoteCandidates, applied, toPage>>
    <2> DEFINE S == {Candidate(x) : x \in localCandidates}
               t == <<Offer(a)>> \o SetToSeq(S)
    <2>1. /\ ~overtaken /\ c \in open /\ c \in Pending
          /\ UNCHANGED <<connection, gathered, received, emitted, remoteCandidates, applied, toPage>>
        BY <1>8 DEF sendOffer, Advance, Pending, browser, server
    <2>2. connection = c /\ c = a /\ socket = "open" /\ localCandidates \subseteq {a}
        BY <2>1, OpenIsCurrent DEF OrderInv, OfferGoesFirst
    <2>3. t \in Seq(up) /\ SetToSeq(S) \in Seq(up) /\ Offer(a) \in up
        <3>1. t \in Seq(up)
            BY <1>1, SentType DEF MicInv, up
        <3> QED BY <2>2, <3>1, ListedCandidates DEF up, Offer, Message
    <2>4. Send(t)
        BY <1>8, <2>2 DEF sendOffer
    <2>5. ToSet(t) = {Offer(a)} \cup ToSet(SetToSeq(S))
        BY <2>3, ToSetPrefixed
    <2>6. a \in localCandidates => S = {Candidate(a)}
        BY <2>2
    <2> HIDE DEF S, t
    <2>7. a \in localCandidates => Candidate(a) \in ToSet(t)
        BY <2>5, <2>6, OneCandidateListed
    <2>8. ToSet(toServer') = ToSet(toServer) \cup ToSet(t)
        BY <1>1, <2>2, <2>3, <2>4, SendAdds DEF up
    <2> QED BY <2>1, <2>2, <2>7, <2>8
<1>9. CASE ReadMessage
    <2>1. /\ ~overtaken /\ connection = a /\ toPage # <<>> /\ toPage' = Tail(toPage)
          /\ UNCHANGED <<gathered, localCandidates, received, emitted, toServer>>
        BY <1>9 DEF ReadMessage, receiveAnswer, receiveCandidate, refs, server
    <2>2. ToSet(toPage) = {Head(toPage)} \cup ToSet(toPage')
        BY <1>1, <2>1, ToSetRead
    <2>3. CASE receiveAnswer
        <3>1. Head(toPage).type = "answer" /\ UNCHANGED <<remoteCandidates, applied>>
            BY <2>3 DEF receiveAnswer, refs
        <3> QED BY <1>1, <1>2, <2>1, <2>2, <3>1
    <2>4. CASE receiveCandidate
        <3>1. /\ remoteCandidates \subseteq remoteCandidates' /\ applied \subseteq applied'
              /\ Head(toPage).of = a => a \in remoteCandidates' \cup applied'
            BY <2>1, <2>4 DEF receiveCandidate
        <3> QED BY <1>1, <1>2, <2>1, <2>2, <3>1
    <2> QED BY <1>9, <2>3, <2>4 DEF ReadMessage
<1>10. ASSUME NEW c \in Attempt, setRemoteDescription(c)
       PROVE  /\ ~overtaken /\ connection = a
              /\ remoteCandidates \cup applied \subseteq applied' \cup (remoteCandidates \ {a})
              /\ UNCHANGED <<gathered, localCandidates, received, emitted, toServer, toPage>>
    <2>1. /\ ~overtaken /\ c \in open
          /\ UNCHANGED <<connection, gathered, localCandidates, received, emitted, toServer, toPage>>
        BY <1>10 DEF setRemoteDescription, server
    <2>2. connection = c /\ c = a
        BY <2>1, OpenIsCurrent
    <2> QED BY <1>10, <2>1, <2>2 DEF setRemoteDescription, addPendingCandidates
<1>11. CASE ServeMessage
    <2>1. /\ ~overtaken /\ connection = a /\ toServer # <<>> /\ toServer' = Tail(toServer)
          /\ UNCHANGED <<gathered, localCandidates, emitted, remoteCandidates, applied, toPage>>
        BY <1>11 DEF ServeMessage, HandleOffer, AddICECandidate, refs, browser
    <2>2. ToSet(toServer) = {Head(toServer)} \cup ToSet(toServer')
        BY <1>1, <2>1, ToSetRead
    <2>3. CASE HandleOffer
        <3>1. Head(toServer).type = "offer" /\ UNCHANGED received
            BY <2>3 DEF HandleOffer
        <3> QED BY <1>1, <1>2, <2>1, <2>2, <3>1
    <2>4. CASE AddICECandidate
        <3>1. received' = received \cup {Head(toServer).of}
            BY <2>1, <2>4, ReadCandidateIsPeers DEF AddICECandidate
        <3> QED BY <1>1, <1>2, <2>1, <2>2, <3>1
    <2> QED BY <1>11, <2>3, <2>4 DEF ServeMessage
<1>12. CASE SendAnswer \/ OnICECandidate
    <2>1. /\ ~overtaken /\ connection = a
          /\ UNCHANGED <<gathered, localCandidates, received, toServer, remoteCandidates, applied>>
        BY <1>12 DEF SendAnswer, OnICECandidate, refs, browser
    <2>2. CASE SendAnswer
        <3>1. toPage' = Append(toPage, Answer(peer)) /\ emitted' = emitted
            BY <2>2 DEF SendAnswer
        <3>2. Answer(peer) \in down
            BY <1>1, <2>2 DEF SendAnswer, MicrophoneTypeOK, Answer, Message, down
        <3> QED BY <1>1, <1>2, <2>1, <3>1, <3>2, ToSetAppended
    <2>3. CASE OnICECandidate
        <3>1. toPage' = Append(toPage, Candidate(peer)) /\ emitted' = emitted \cup {peer}
            BY <2>3 DEF OnICECandidate
        <3>2. Candidate(peer) \in down
            BY <1>1, <2>3 DEF OnICECandidate, MicrophoneTypeOK, Candidate, Message, down
        <3> QED BY <1>1, <1>2, <2>1, <3>1, <3>2, ToSetAppended
    <2> QED BY <1>12, <2>2, <2>3
<1> QED BY <1>2, <1>3, <1>4, <1>5, <1>6, <1>7, <1>8, <1>9, <1>10, <1>11, <1>12
        DEF MicrophoneNext, Continue

(* App.tsx:284-339 and manager.go:196: candidates are buffered, sent and   *)
(* flushed without a gap in either direction, for any number of attempts   *)
(* of which none has been overtaken.                                       *)
THEOREM CandidatesNotLost == MicrophoneSpec => []NoCandidateLost
<1>1. LostInv => NoCandidateLost
    BY DEF LostInv
<1>2. MicInv /\ OrderInv /\ LostInv /\ [MicrophoneNext]_vars
          => MicInv' /\ OrderInv' /\ LostInv'
    BY TypeStep, CandidateStep, InHandStep, OrderInvStep, NothingYetStep, NotLostStep
       DEF MicInv, LostInv
<1> QED BY <1>1, <1>2, MicInvInit, OrderInvInit, LostInvInit, PTL DEF MicrophoneSpec
=============================================================================
