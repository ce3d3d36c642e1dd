------------------------- MODULE NegotiationProofs -------------------------
(***************************************************************************)
(* The negotiating flag does what it is for, for any set of tracks, any    *)
(* number of goroutines and any number of messages left over by replaced   *)
(* peers: one offer in flight at a time.                                   *)
(*                                                                         *)
(* OneOfferInFlight alone is not inductive.  HandleOffer sets the          *)
(* signaling state without peer.mu, so one must know that it only leaves   *)
(* have-remote-offer, never an offer of negotiate's.                       *)
(***************************************************************************)
EXTENDS Negotiation, TLAPS

\* Between SetRemoteDescription and SetLocalDescription of HandleOffer.
AnsweringIsRemote ==
    ~closed /\ handshake \in {"answer", "local"} => signaling = "have-remote-offer"

NegInv == NegotiationTypeOK /\ AnsweringIsRemote /\ OneOfferInFlight

ToBrowser == {"answer", "offer", "oldOffer"}

ToServer == {"answer", "oldAnswer", "newOffer"}

\* What reading the head of a queue does to the message m.
LEMMA ReadingHead ==
    ASSUME NEW S, NEW queue \in Seq(S), queue # <<>>, NEW m, AtMostOnce(m, queue)
    PROVE  /\ Tail(queue) \in Seq(S)
           /\ Head(queue) \in S
           /\ AtMostOnce(m, Tail(queue))
           /\ Head(queue) = m => ~Queued(m, Tail(queue)) /\ Queued(m, queue)
           /\ Head(queue) # m => (Queued(m, Tail(queue)) <=> Queued(m, queue))
<1>1. /\ Tail(queue) \in Seq(S) /\ Head(queue) = queue[1]
      /\ 1 \in DOMAIN queue /\ queue[1] \in S
    OBVIOUS
<1>2. \A i \in DOMAIN Tail(queue) : /\ i \in Nat /\ i > 0 /\ i + 1 \in DOMAIN queue
                                    /\ Tail(queue)[i] = queue[i + 1]
    OBVIOUS
<1>3. \A i \in DOMAIN queue : i # 1 => /\ i - 1 \in DOMAIN Tail(queue)
                                       /\ Tail(queue)[i - 1] = queue[i]
    OBVIOUS
<1>4. AtMostOnce(m, Tail(queue))
    <2> SUFFICES ASSUME NEW i \in DOMAIN Tail(queue), NEW j \in DOMAIN Tail(queue),
                        Tail(queue)[i] = m, Tail(queue)[j] = m
                 PROVE  i = j
        BY DEF AtMostOnce
    <2>1. i + 1 = j + 1
        BY <1>2 DEF AtMostOnce
    <2> QED BY <1>2, <2>1
<1>5. ASSUME Head(queue) = m
      PROVE  ~Queued(m, Tail(queue)) /\ Queued(m, queue)
    <2>1. \A i \in DOMAIN Tail(queue) : i + 1 # 1
        BY <1>2
    <2> QED BY <1>1, <1>2, <1>5, <2>1 DEF Queued, AtMostOnce
<1>6. ASSUME Head(queue) # m
      PROVE  Queued(m, Tail(queue)) <=> Queued(m, queue)
    BY <1>1, <1>2, <1>3, <1>6 DEF Queued
<1> QED BY <1>1, <1>4, <1>5, <1>6

\* A message stays queued while others are read and queued.
LEMMA StayingQueued ==
    ASSUME NEW S, NEW queue \in Seq(S), NEW n \in S, NEW m
    PROVE  /\ Queued(m, Append(queue, n)) <=> Queued(m, queue) \/ n = m
           /\ Queued(m, queue) /\ Head(queue) # m => Queued(m, Tail(queue))
<1>1. /\ \A i \in DOMAIN queue : /\ i \in DOMAIN Append(queue, n)
                                 /\ Append(queue, n)[i] = queue[i]
      /\ \A i \in DOMAIN Append(queue, n) : i \notin DOMAIN queue => i = Len(queue) + 1
      /\ Len(queue) + 1 \in DOMAIN Append(queue, n)
      /\ Append(queue, n)[Len(queue) + 1] = n
    OBVIOUS
<1>2. Head(queue) = queue[1]
    OBVIOUS
<1>3. \A i \in DOMAIN queue : i # 1 => /\ i - 1 \in DOMAIN Tail(queue)
                                       /\ Tail(queue)[i - 1] = queue[i]
    OBVIOUS
<1> QED BY <1>1, <1>2, <1>3 DEF Queued

\* What queueing n does to the message m.
LEMMA Queueing ==
    ASSUME NEW S, NEW queue \in Seq(S), NEW n \in S, NEW m, AtMostOnce(m, queue),
           n = m => ~Queued(m, queue)
    PROVE  /\ Append(queue, n) \in Seq(S)
           /\ AtMostOnce(m, Append(queue, n))
           /\ Queued(m, Append(queue, n)) <=> Queued(m, queue) \/ n = m
<1>1. /\ \A i \in DOMAIN queue : /\ i \in DOMAIN Append(queue, n)
                                 /\ Append(queue, n)[i] = queue[i]
      /\ \A i \in DOMAIN Append(queue, n) : i \notin DOMAIN queue => i = Len(queue) + 1
      /\ Len(queue) + 1 \in DOMAIN Append(queue, n)
      /\ Append(queue, n)[Len(queue) + 1] = n
    OBVIOUS
<1>2. AtMostOnce(m, Append(queue, n))
    <2> SUFFICES ASSUME NEW i \in DOMAIN Append(queue, n), NEW j \in DOMAIN Append(queue, n),
                        Append(queue, n)[i] = m, Append(queue, n)[j] = m
                 PROVE  i = j
        BY DEF AtMostOnce
    <2> QED BY <1>1 DEF AtMostOnce, Queued
<1>3. Queued(m, Append(queue, n)) <=> Queued(m, queue) \/ n = m
    BY StayingQueued
<1> QED BY <1>2, <1>3

\* The empty queue.
LEMMA EmptyQueue ==
    ASSUME NEW m
    PROVE  ~Queued(m, <<>>) /\ AtMostOnce(m, <<>>)
BY DEF Queued, AtMostOnce
-----------------------------------------------------------------------------
(* Steps of the server that leave the queues alone.                        *)
LEMMA HandleOfferInv ==
    ASSUME NegInv, HandleOfferStep, ~SendAnswer
    PROVE  NegInv'
<1> USE DEF NegInv, channels, mishaps
<1>1. ASSUME NEW t \in Track, AddExisting(t)
      PROVE  NegInv'
    <2>1. NegotiationTypeOK'
        BY <1>1 DEF AddExisting, NegotiationTypeOK
    <2>2. AnsweringIsRemote' /\ OneOfferInFlight'
        BY <1>1 DEF AddExisting, AnsweringIsRemote, OneOfferInFlight, OfferQueued,
                    AnswerQueued, InFlight
    <2> QED BY <2>1, <2>2
<1>2. CASE SetRemoteOffer
    <2>1. NegotiationTypeOK'
        BY <1>2 DEF SetRemoteOffer, NegotiationTypeOK
    <2>2. AnsweringIsRemote' /\ OneOfferInFlight'
        BY <1>2 DEF SetRemoteOffer, AnsweringIsRemote, OneOfferInFlight, OfferQueued,
                    AnswerQueued, InFlight
    <2> QED BY <2>1, <2>2
<1>3. CASE CreateAnswer
    <2>1. offered' \subseteq Track /\ leftOut' \subseteq Track
        BY <1>3 DEF CreateAnswer, Answers, kSubset, NegotiationTypeOK
    <2>2. NegotiationTypeOK'
        BY <1>3, <2>1 DEF CreateAnswer, NegotiationTypeOK
    <2>3. AnsweringIsRemote' /\ OneOfferInFlight'
        BY <1>3 DEF CreateAnswer, AnsweringIsRemote, OneOfferInFlight, OfferQueued,
                    AnswerQueued, InFlight
    <2> QED BY <2>2, <2>3
<1>4. CASE SetLocalAnswer
    <2>1. NegotiationTypeOK'
        BY <1>4 DEF SetLocalAnswer, NegotiationTypeOK
    <2>2. AnsweringIsRemote' /\ OneOfferInFlight'
        BY <1>4 DEF SetLocalAnswer, AnsweringIsRemote, OneOfferInFlight, OfferQueued,
                    AnswerQueued, InFlight
    <2> QED BY <2>1, <2>2
<1> QED BY <1>1, <1>2, <1>3, <1>4 DEF HandleOfferStep

LEMMA TracksInv ==
    ASSUME NegInv, NEW t \in Track, AddTrack(t) \/ RemoveTrack(t)
    PROVE  NegInv'
<1> USE DEF NegInv, channels, mishaps, AddTrack, RemoveTrack
<1>1. NegotiationTypeOK'
    BY DEF NegotiationTypeOK
<1>2. AnsweringIsRemote' /\ OneOfferInFlight'
    BY DEF AnsweringIsRemote, OneOfferInFlight, OfferQueued, AnswerQueued, InFlight
<1> QED BY <1>1, <1>2

LEMMA NegotiateInv ==
    ASSUME NegInv, Negotiate \/ NegotiateFails
    PROVE  NegInv'
<1> USE DEF NegInv
<1>1. NegotiationTypeOK'
    <2>1. spawned' \in Nat
        BY DEF NegotiationTypeOK, Negotiate, NegotiateFails
    <2>2. /\ negotiating' \in BOOLEAN /\ pending' \in BOOLEAN /\ emitting' \in BOOLEAN
          /\ signaling' \in {"stable", "have-remote-offer", "have-local-offer"}
          /\ offered' \subseteq Track /\ rejected' \in BOOLEAN
        BY DEF NegotiationTypeOK, Negotiate, NegotiateFails, mishaps
    <2>3. UNCHANGED <<handshake, existing, tracks, closed, described, leftOut, channels,
                      failed, missed, crossed, hungUp>>
        BY DEF Negotiate, NegotiateFails, mishaps
    <2> QED BY <2>1, <2>2, <2>3 DEF NegotiationTypeOK, channels
<1>2. CASE Negotiate
    BY <1>1, <1>2 DEF Negotiate, Busy, channels, mishaps, AnsweringIsRemote,
                      OneOfferInFlight, OfferQueued, AnswerQueued, InFlight
<1>3. CASE NegotiateFails
    BY <1>1, <1>3 DEF NegotiateFails, channels, AnsweringIsRemote, OneOfferInFlight,
                      OfferQueued, AnswerQueued, InFlight
<1> QED BY <1>2, <1>3

LEMMA ClosePeerInv ==
    ASSUME NegInv, ClosePeer
    PROVE  NegInv'
<1> USE DEF NegInv, channels, mishaps, ClosePeer
<1>1. NegotiationTypeOK'
    BY DEF NegotiationTypeOK
<1>2. AnsweringIsRemote' /\ OneOfferInFlight'
    BY DEF AnsweringIsRemote, OneOfferInFlight, OfferQueued, AnswerQueued, InFlight
<1> QED BY <1>1, <1>2
-----------------------------------------------------------------------------
(* Steps that queue something for the browser, or give the browser up.     *)
LEMMA SendingInv ==
    ASSUME NegInv, NEW m \in ToBrowser, Send(m) \/ HangUp,
           m = "offer" => emitting /\ ~emitting',
           m # "offer" => UNCHANGED emitting,
           emitting' \in {emitting, FALSE}, late' \in 0..MaxLeftover,
           handshake' \in {handshake, "done"},
           UNCHANGED <<existing, tracks, signaling, negotiating, pending, closed,
                       spawned, offered, described, leftOut, toServer, browser>>
    PROVE  NegInv'
<1> USE DEF NegInv
<1>1. toBrowser \in Seq(ToBrowser)
    BY DEF NegotiationTypeOK, ToBrowser
<1>2. AnsweringIsRemote'
    BY DEF AnsweringIsRemote
<1>3. ASSUME toBrowser' \in Seq(ToBrowser), hungUp' \in BOOLEAN,
             UNCHANGED <<rejected, failed, missed, crossed>>
      PROVE  NegotiationTypeOK'
    <2>1. emitting' \in BOOLEAN /\ toBrowser' \in Seq({"answer", "offer", "oldOffer"})
        BY <1>3 DEF NegotiationTypeOK, ToBrowser
    <2>2. handshake' \in {"adding", "answer", "local", "send", "done", "failed"}
        BY DEF NegotiationTypeOK
    <2> HIDE DEF NegInv
    <2> QED BY <1>3, <2>1, <2>2 DEF NegInv, NegotiationTypeOK
<1>4. CASE HangUp
    <2>1. toBrowser' \in Seq(ToBrowser) /\ ~OfferQueued' /\ AtMostOnce("offer", toBrowser')
        BY <1>4, EmptyQueue DEF HangUp, OfferQueued
    <2>2. hungUp' = TRUE /\ UNCHANGED <<rejected, failed, missed, crossed>>
        BY <1>4 DEF HangUp
    <2>3. NegotiationTypeOK'
        BY <1>3, <2>1, <2>2
    <2>4. OneOfferInFlight'
        BY <2>1, <2>2 DEF NegotiationTypeOK, OneOfferInFlight, AnswerQueued, InFlight
    <2> QED BY <1>2, <2>3, <2>4
<1>5. CASE Send(m)
    <2>1. UNCHANGED mishaps /\ toBrowser' = Append(toBrowser, m)
        BY <1>5 DEF Send
    <2>2. toBrowser' \in Seq(ToBrowser)
        BY <1>1, <2>1
    <2>3. NegotiationTypeOK'
        BY <1>3, <2>1, <2>2 DEF NegotiationTypeOK, mishaps
    <2>4. OneOfferInFlight'
        <3> SUFFICES ASSUME ~crossed
                     PROVE  OneOfferInFlight'
            BY <2>1 DEF OneOfferInFlight, mishaps
        <3>1. AtMostOnce("offer", toBrowser) /\ (emitting => ~OfferQueued)
            BY DEF OneOfferInFlight
        <3>2. m = "offer" => ~Queued("offer", toBrowser)
            BY <3>1 DEF OfferQueued
        <3>3. /\ AtMostOnce("offer", toBrowser')
              /\ OfferQueued' <=> OfferQueued \/ m = "offer"
            BY <1>1, <2>1, <3>1, <3>2, Queueing DEF OfferQueued
        <3> QED BY <2>1, <3>1, <3>3 DEF NegotiationTypeOK, OneOfferInFlight, AnswerQueued,
                                        InFlight, mishaps
    <2> QED BY <1>2, <2>3, <2>4
<1> QED BY <1>4, <1>5

LEMMA SendAnswerInv ==
    ASSUME NegInv, SendAnswer
    PROVE  NegInv'
<1>1. CASE Send("answer")
    BY <1>1, SendingInv DEF SendAnswer, ToBrowser, NegInv, NegotiationTypeOK
<1>2. CASE ~Send("answer")
    <2>1. NegotiationTypeOK'
        BY <1>2 DEF SendAnswer, NegInv, NegotiationTypeOK
    <2>2. AnsweringIsRemote' /\ OneOfferInFlight'
        BY <1>2 DEF SendAnswer, NegInv, AnsweringIsRemote, OneOfferInFlight, OfferQueued,
                    AnswerQueued, InFlight
    <2> QED BY <2>1, <2>2 DEF NegInv
<1> QED BY <1>1, <1>2

LEMMA EmitInv ==
    ASSUME NegInv, EmitOffer \/ EmitLate
    PROVE  NegInv'
<1>1. CASE EmitOffer
    BY <1>1, SendingInv DEF EmitOffer, ToBrowser, NegInv, NegotiationTypeOK
<1>2. CASE EmitLate
    <2>1. late' \in 0..MaxLeftover
        BY <1>2, NegotiationAssumption DEF EmitLate, NegInv, NegotiationTypeOK
    <2> QED BY <1>2, <2>1, SendingInv DEF EmitLate, ToBrowser, NegInv, NegotiationTypeOK, server
<1> QED BY <1>1, <1>2

LEMMA LoseSocketInv ==
    ASSUME NegInv, LoseSocket
    PROVE  NegInv'
BY SendingInv DEF LoseSocket, ToBrowser, NegInv, NegotiationTypeOK, server
-----------------------------------------------------------------------------
(* Messages of the browser that the handler reads.                         *)
LEMMA ReadInv ==
    ASSUME NegInv, ReadMessage
    PROVE  NegInv'
<1> USE DEF NegInv
<1>1. /\ handshake \in {"done", "failed"}
      /\ toServer \in Seq(ToServer) /\ toServer # <<>> /\ toServer' = Tail(toServer)
      /\ UNCHANGED <<handshake, existing, tracks, emitting, offered, late, toBrowser,
                     browser, failed, missed, hungUp>>
      /\ toServer' \in Seq(ToServer)
    <2>1. toServer \in Seq(ToServer)
        BY DEF NegotiationTypeOK, ToServer
    <2>2. toServer # <<>> /\ toServer' = Tail(toServer) /\ handshake \in {"done", "failed"}
        BY DEF ReadMessage, HandleAnswer, HandleBadAnswer, HandleLateAnswer, HandleNewOffer,
               Reads
    <2>3. UNCHANGED <<handshake, existing, tracks, emitting, offered, late, toBrowser,
                      browser, failed, missed, hungUp>>
        BY DEF ReadMessage, HandleAnswer, HandleBadAnswer, HandleLateAnswer, HandleNewOffer,
               server, mishaps
    <2> QED BY <2>1, <2>2, <2>3
<1>2. /\ spawned' \in Nat
      /\ negotiating' \in BOOLEAN /\ pending' \in BOOLEAN /\ closed' \in BOOLEAN
      /\ rejected' \in BOOLEAN /\ crossed' \in BOOLEAN
      /\ signaling' \in {signaling, "stable"}
      /\ described' \subseteq Track /\ leftOut' \subseteq Track
    <2>1. CASE HandleAnswer
        <3>1. spawned' \in Nat /\ negotiating' = FALSE /\ pending' = FALSE
            BY <2>1 DEF HandleAnswer, Finished, NegotiationTypeOK
        <3>2. /\ signaling' = "stable" /\ described' = offered /\ leftOut' = {}
              /\ crossed' = (crossed \/ Crosses) /\ UNCHANGED <<closed, rejected>>
            BY <2>1 DEF HandleAnswer
        <3> QED BY <3>1, <3>2 DEF NegotiationTypeOK
    <2>2. CASE HandleBadAnswer
        BY <2>2 DEF HandleBadAnswer, NegotiationTypeOK
    <2>3. CASE HandleLateAnswer \/ HandleNewOffer
        BY <2>3 DEF HandleLateAnswer, HandleNewOffer, NegotiationTypeOK, server, mishaps
    <2> QED BY <2>1, <2>2, <2>3 DEF ReadMessage
<1>3. NegotiationTypeOK'
    <2>1. toServer' \in Seq({"answer", "oldAnswer", "newOffer"})
        BY <1>1 DEF ToServer
    <2> HIDE DEF NegInv
    <2> QED BY <1>1, <1>2, <2>1 DEF NegInv, NegotiationTypeOK
<1>4. AnsweringIsRemote'
    BY <1>1 DEF AnsweringIsRemote
<1>5. OneOfferInFlight'
    <2> SUFFICES ASSUME ~crossed'
                 PROVE  OneOfferInFlight'
        BY DEF OneOfferInFlight
    <2>1. ~crossed
        BY DEF ReadMessage, HandleAnswer, HandleBadAnswer, HandleLateAnswer,
               HandleNewOffer, mishaps
    <2>2. AtMostOnce("answer", toServer)
        BY <2>1 DEF OneOfferInFlight
    <2>3. /\ AtMostOnce("answer", toServer')
          /\ Head(toServer) = "answer" => ~AnswerQueued' /\ AnswerQueued
          /\ Head(toServer) # "answer" => (AnswerQueued' <=> AnswerQueued)
        BY <1>1, <2>2, ReadingHead DEF AnswerQueued
    <2>4. CASE closed'
        BY <1>1, <2>1, <2>3, <2>4 DEF OneOfferInFlight, OfferQueued
    <2>5. CASE ~closed'
        <3>1. /\ ~closed /\ ~negotiating' /\ Head(toServer) # "newOffer"
              /\ HandleAnswer \/ HandleBadAnswer
            BY <2>5 DEF ReadMessage, HandleAnswer, HandleBadAnswer, HandleLateAnswer,
                        HandleNewOffer, Reads, server, Finished
        <3>2. Head(toServer) = "oldAnswer" => ~negotiating
            BY <3>1, <2>1 DEF HandleAnswer, HandleBadAnswer, Crosses
        <3>3. Head(toServer) \in {"answer", "oldAnswer"}
            BY <3>1 DEF HandleAnswer, HandleBadAnswer, Reads
        <3>4. ~InFlight'
            BY <1>1, <2>1, <2>3, <3>1, <3>2, <3>3 DEF OneOfferInFlight, InFlight, OfferQueued
        <3> QED BY <1>1, <2>1, <2>3, <3>1, <3>4 DEF OneOfferInFlight, InFlight, OfferQueued
    <2> QED BY <2>4, <2>5
<1> QED BY <1>3, <1>4, <1>5
-----------------------------------------------------------------------------
(* Messages of the server that the browser reads, and its microphone.      *)
LEMMA BrowserReadInv ==
    ASSUME NegInv, ReadSignal
    PROVE  NegInv'
<1> USE DEF NegInv
<1>1. /\ toBrowser \in Seq(ToBrowser) /\ toBrowser # <<>> /\ toBrowser' = Tail(toBrowser)
      /\ toServer \in Seq(ToServer)
      /\ UNCHANGED <<server, late, rejected, crossed, hungUp>>
      /\ toBrowser' \in Seq(ToBrowser)
    <2>1. toBrowser \in Seq(ToBrowser) /\ toServer \in Seq(ToServer)
        BY DEF NegotiationTypeOK, ToBrowser, ToServer
    <2>2. toBrowser # <<>> /\ toBrowser' = Tail(toBrowser)
        BY DEF ReadSignal, BrowserGetsAnswer, BrowserAnswersOffer, BrowserIgnoresOffer,
               BrowserFailsOnOffer, Gets
    <2>3. UNCHANGED <<server, late, rejected, crossed, hungUp>>
        BY DEF ReadSignal, BrowserGetsAnswer, BrowserAnswersOffer, BrowserIgnoresOffer,
               BrowserFailsOnOffer, mishaps
    <2> QED BY <2>1, <2>2, <2>3
<1>2. /\ browser' \in {"none", "new", "stable", "have-local-offer", "have-remote-offer"}
      /\ failed' \in BOOLEAN /\ missed' \in BOOLEAN
      /\ missed => missed'
    BY DEF ReadSignal, BrowserGetsAnswer, BrowserAnswersOffer, BrowserIgnoresOffer,
           BrowserFailsOnOffer, NegotiationTypeOK, mishaps
<1>3. /\ toServer' \in Seq(ToServer)
      /\ \/ /\ UNCHANGED toServer
            /\ Head(toBrowser) = "offer" => missed'
         \/ /\ toServer' = Append(toServer, "answer")
            /\ Head(toBrowser) = "offer"
         \/ /\ toServer' = Append(toServer, "oldAnswer")
            /\ Head(toBrowser) # "offer"
    <2>1. CASE BrowserAnswersOffer
        <3>1. \A m \in ToServer : Append(toServer, m) \in Seq(ToServer)
            BY <1>1
        <3> QED BY <2>1, <3>1 DEF BrowserAnswersOffer, Gets, ToServer
    <2>2. CASE BrowserGetsAnswer \/ BrowserIgnoresOffer \/ BrowserFailsOnOffer
        BY <1>1, <2>2 DEF BrowserGetsAnswer, BrowserIgnoresOffer, BrowserFailsOnOffer, Gets
    <2> QED BY <2>1, <2>2 DEF ReadSignal
<1>4. NegotiationTypeOK'
    <2>1. /\ toServer' \in Seq({"answer", "oldAnswer", "newOffer"})
          /\ toBrowser' \in Seq({"answer", "offer", "oldOffer"})
        BY <1>1, <1>3 DEF ToServer, ToBrowser
    <2> HIDE DEF NegInv
    <2> QED BY <1>1, <1>2, <2>1 DEF NegInv, NegotiationTypeOK, server
<1>5. AnsweringIsRemote'
    BY <1>1 DEF AnsweringIsRemote, server
<1>6. OneOfferInFlight'
    <2> SUFFICES ASSUME ~crossed
                 PROVE  OneOfferInFlight'
        BY <1>1 DEF OneOfferInFlight
    <2>1. /\ AtMostOnce("offer", toBrowser')
          /\ Head(toBrowser) = "offer" => ~OfferQueued' /\ OfferQueued
          /\ Head(toBrowser) # "offer" => (OfferQueued' <=> OfferQueued)
        BY <1>1, ReadingHead DEF OneOfferInFlight, OfferQueued
    <2>2. CASE UNCHANGED toServer /\ (Head(toBrowser) = "offer" => missed')
        BY <1>1, <1>2, <2>1, <2>2 DEF OneOfferInFlight, InFlight, AnswerQueued, server
    <2>3. CASE toServer' = Append(toServer, "answer") /\ Head(toBrowser) = "offer"
        <3>1. ~AnswerQueued /\ AtMostOnce("answer", toServer)
            BY <2>1, <2>3 DEF OneOfferInFlight
        <3>2. AtMostOnce("answer", toServer') /\ AnswerQueued'
            BY <1>1, <2>3, <3>1, Queueing DEF AnswerQueued, ToServer
        <3> QED BY <1>1, <1>2, <2>1, <2>3, <3>1, <3>2 DEF OneOfferInFlight, InFlight, server
    <2>4. CASE toServer' = Append(toServer, "oldAnswer") /\ Head(toBrowser) # "offer"
        <3>1. AtMostOnce("answer", toServer') /\ (AnswerQueued' <=> AnswerQueued)
            BY <1>1, <2>4, Queueing DEF AnswerQueued, ToServer, OneOfferInFlight
        <3> QED BY <1>1, <1>2, <2>1, <2>4, <3>1 DEF OneOfferInFlight, InFlight, server
    <2> QED BY <1>3, <2>2, <2>3, <2>4
<1> QED BY <1>4, <1>5, <1>6

LEMMA MicrophoneInv ==
    ASSUME NegInv, StopMicrophone \/ MakeConnection \/ SendNewOffer
    PROVE  NegInv'
<1> USE DEF NegInv
<1>1. /\ UNCHANGED <<server, late, toBrowser, mishaps>>
      /\ browser' \in {"none", "new", "have-local-offer"}
      /\ toServer \in Seq(ToServer)
      /\ toServer' \in {toServer, Append(toServer, "newOffer")}
    BY DEF StopMicrophone, MakeConnection, SendNewOffer, NegotiationTypeOK, ToServer
<1>2. NegotiationTypeOK'
    <2>1. toServer' \in Seq({"answer", "oldAnswer", "newOffer"})
        BY <1>1 DEF ToServer
    <2> HIDE DEF NegInv
    <2> QED BY <1>1, <2>1 DEF NegInv, NegotiationTypeOK, server, mishaps
<1>3. AnsweringIsRemote'
    BY <1>1 DEF AnsweringIsRemote, server
<1>4. OneOfferInFlight'
    <2> SUFFICES ASSUME ~crossed
                 PROVE  OneOfferInFlight'
        BY <1>1 DEF OneOfferInFlight, mishaps
    <2>1. AtMostOnce("answer", toServer)
        BY DEF OneOfferInFlight
    <2>2. "newOffer" \in ToServer
        BY DEF ToServer
    <2>3. AtMostOnce("answer", toServer') /\ (AnswerQueued' <=> AnswerQueued)
        <3>1. CASE toServer' = toServer
            BY <2>1, <3>1 DEF AnswerQueued
        <3>2. CASE toServer' = Append(toServer, "newOffer")
            BY <1>1, <2>1, <2>2, <3>2, Queueing DEF AnswerQueued
        <3> QED BY <1>1, <3>1, <3>2
    <2> QED BY <1>1, <2>3 DEF OneOfferInFlight, InFlight, OfferQueued, server, mishaps
<1> QED BY <1>2, <1>3, <1>4

LEMMA NegInvUnchanged ==
    ASSUME NegInv, UNCHANGED vars
    PROVE  NegInv'
BY DEF NegInv, vars, channels, server, mishaps, NegotiationTypeOK, AnsweringIsRemote,
       OneOfferInFlight, OfferQueued, AnswerQueued, InFlight
-----------------------------------------------------------------------------
LEMMA NegInvInit == NegotiationInit => NegInv
<1> SUFFICES ASSUME NegotiationInit
             PROVE  NegInv
    OBVIOUS
<1>1. PICK n \in 0..(MaxLeftover - late) : toBrowser \in [1..n -> {"answer", "oldOffer"}]
    BY DEF NegotiationInit
<1>2. n \in Nat /\ DOMAIN toBrowser = 1..n
    BY <1>1, NegotiationAssumption DEF NegotiationInit
<1>3. /\ toBrowser \in Seq({"answer", "offer", "oldOffer"})
      /\ toServer \in Seq({"answer", "oldAnswer", "newOffer"})
    BY <1>1, <1>2 DEF NegotiationInit
<1>4. ~OfferQueued /\ AtMostOnce("offer", toBrowser)
    BY <1>1, <1>2 DEF OfferQueued, Queued, AtMostOnce
<1>5. ~AnswerQueued /\ AtMostOnce("answer", toServer)
    BY EmptyQueue DEF NegotiationInit, AnswerQueued
<1>6. NegotiationTypeOK
    BY <1>3 DEF NegotiationInit, NegotiationTypeOK
<1>7. AnsweringIsRemote
    BY DEF NegotiationInit, AnsweringIsRemote
<1>8. OneOfferInFlight
    BY <1>4, <1>5 DEF NegotiationInit, OneOfferInFlight, InFlight
<1> QED BY <1>6, <1>7, <1>8 DEF NegInv

LEMMA NegInvStep == NegInv /\ [NegotiationNext]_vars => NegInv'
<1> SUFFICES ASSUME NegInv, [NegotiationNext]_vars
             PROVE  NegInv'
    OBVIOUS
<1>1. CASE UNCHANGED vars
    BY <1>1, NegInvUnchanged
<1>2. CASE HandleOfferStep /\ ~SendAnswer
    BY <1>2, HandleOfferInv
<1>3. CASE SendAnswer
    BY <1>3, SendAnswerInv
<1>4. ASSUME NEW t \in Track, AddTrack(t) \/ RemoveTrack(t)
      PROVE  NegInv'
    BY <1>4, TracksInv
<1>5. CASE Negotiate \/ NegotiateFails \/ EmitOffer \/ EmitLate
    BY <1>5, NegotiateInv, EmitInv
<1>6. CASE ReadMessage
    BY <1>6, ReadInv
<1>7. CASE ClosePeer \/ LoseSocket
    BY <1>7, ClosePeerInv, LoseSocketInv
<1>8. CASE ReadSignal
    BY <1>8, BrowserReadInv
<1>9. CASE StopMicrophone \/ MakeConnection \/ SendNewOffer
    BY <1>9, MicrophoneInv
<1> QED BY <1>1, <1>2, <1>3, <1>4, <1>5, <1>6, <1>7, <1>8, <1>9
        DEF NegotiationNext

(* The inductive invariant of one peer's negotiation, whatever the browser *)
(* does with its offers, its microphone and its socket, and whatever the   *)
(* peers it replaced have left over.                                       *)
THEOREM NegotiationInvariant == NegotiationSpec => []NegInv
BY NegInvInit, NegInvStep, PTL DEF NegotiationSpec

(* Flags, states and queues of a peer stay within their types.             *)
THEOREM NegotiationTypeCorrect == NegotiationSpec => []NegotiationTypeOK
<1>1. NegInv => NegotiationTypeOK
    BY DEF NegInv
<1> QED BY <1>1, NegotiationInvariant, PTL

(* Whatever tracks come and go and however negotiate, HandleOffer and      *)
(* HandleAnswer interleave, one offer of this peer is open at a time,      *)
(* until the answer to a replaced peer's offer is taken for its own.       *)
THEOREM OneOfferCorrect == NegotiationSpec => []OneOfferInFlight
<1>1. NegInv => OneOfferInFlight
    BY DEF NegInv
<1> QED BY <1>1, NegotiationInvariant, PTL
-----------------------------------------------------------------------------
(* Who is waiting for whom, as long as nothing has gone wrong.  A browser  *)
(* in the middle of an exchange waits for what is queued for it, or has    *)
(* asked for another peer; the server waits for HandleOffer itself or for  *)
(* the answer negotiating stands for.                                      *)
Waiting ==
    /\ handshake = "done" /\ ~failed /\ ~missed /\ ~hungUp /\ ~closed
            /\ browser \notin {"stable", "new", "none"}
        => toBrowser # <<>> \/ Queued("newOffer", toServer)
    /\ browser = "have-remote-offer" => failed \/ missed
    /\ ~closed /\ signaling = "have-remote-offer" => handshake \in {"answer", "local"}
    /\ ~closed /\ ~rejected /\ ~crossed /\ signaling = "have-local-offer" => negotiating

LEMMA WaitingInit == NegotiationInit => Waiting
BY DEF NegotiationInit, Waiting

LEMMA WaitingStep ==
    ASSUME NegInv, Waiting, [NegotiationNext]_vars
    PROVE  Waiting'
<1> USE DEF Waiting
<1>1. CASE UNCHANGED vars
    BY <1>1 DEF vars, server, channels, mishaps
<1>2. ASSUME NEW t \in Track, AddExisting(t) \/ AddTrack(t) \/ RemoveTrack(t)
      PROVE  Waiting'
    BY <1>2 DEF AddExisting, AddTrack, RemoveTrack, channels, mishaps
<1>3. CASE SetRemoteOffer \/ CreateAnswer \/ SetLocalAnswer
    BY <1>3 DEF SetRemoteOffer, CreateAnswer, SetLocalAnswer, channels, mishaps
<1>4. CASE SendAnswer
    <2>1. toBrowser' # <<>> \/ failed'
        BY <1>4 DEF SendAnswer, Send, NegInv, NegotiationTypeOK
    <2>2. UNCHANGED <<rejected, missed, crossed, hungUp>> /\ (failed => failed')
        BY <1>4 DEF SendAnswer, Send, mishaps
    <2> QED BY <1>4, <2>1, <2>2 DEF SendAnswer
<1>5. CASE Negotiate \/ NegotiateFails
    BY <1>5 DEF Negotiate, NegotiateFails, Busy, channels, mishaps
<1>6. CASE EmitOffer \/ EmitLate \/ LoseSocket
    <2>1. toBrowser' # <<>> \/ hungUp'
        BY <1>6 DEF EmitOffer, EmitLate, LoseSocket, Send, HangUp, NegInv, NegotiationTypeOK
    <2>2. UNCHANGED <<rejected, failed, missed, crossed>>
        BY <1>6 DEF EmitOffer, EmitLate, LoseSocket, Send, HangUp, mishaps
    <2>3. UNCHANGED <<handshake, signaling, negotiating, closed, toServer, browser>>
        BY <1>6 DEF EmitOffer, EmitLate, LoseSocket, server
    <2>4. hungUp => hungUp'
        BY <1>6 DEF EmitOffer, EmitLate, LoseSocket, Send, HangUp, mishaps
    <2> QED BY <2>1, <2>2, <2>3, <2>4
<1>7. CASE HandleAnswer \/ HandleBadAnswer
    <2>1. toServer \in Seq(ToServer) /\ "newOffer" \in ToServer
        BY DEF NegInv, NegotiationTypeOK, ToServer
    <2>2. Queued("newOffer", toServer) => Queued("newOffer", toServer')
        <3>1. toServer' = Tail(toServer) /\ Head(toServer) # "newOffer"
            BY <1>7 DEF HandleAnswer, HandleBadAnswer, Reads
        <3> QED BY <2>1, <3>1, StayingQueued
    <2>3. CASE HandleAnswer
        BY <2>2, <2>3 DEF HandleAnswer, Finished
    <2>4. CASE HandleBadAnswer
        <3>1. Head(toServer) \in {"answer", "oldAnswer"}
            BY <2>4 DEF HandleBadAnswer, Reads
        <3>2. ~rejected' /\ ~crossed' => ~rejected /\ ~crossed /\ ~negotiating
            BY <2>4, <3>1 DEF HandleBadAnswer, Crosses
        <3> QED BY <2>2, <2>4, <3>2 DEF HandleBadAnswer
    <2> QED BY <1>7, <2>3, <2>4
<1>8. CASE HandleLateAnswer \/ HandleNewOffer \/ ClosePeer
    BY <1>8 DEF HandleLateAnswer, HandleNewOffer, ClosePeer, server, channels, mishaps
<1>9. CASE ReadSignal
    <2>1. UNCHANGED <<server, rejected, crossed, hungUp>>
        BY <1>9 DEF ReadSignal, BrowserGetsAnswer, BrowserAnswersOffer, BrowserIgnoresOffer,
                    BrowserFailsOnOffer, mishaps
    <2>2. CASE BrowserGetsAnswer
        <3>1. browser \in {"none", "new", "stable", "have-local-offer", "have-remote-offer"}
            BY DEF NegInv, NegotiationTypeOK
        <3> QED BY <2>1, <2>2, <3>1 DEF BrowserGetsAnswer, server
    <2>3. CASE BrowserAnswersOffer
        BY <2>1, <2>3 DEF BrowserAnswersOffer, server, mishaps
    <2>4. CASE BrowserIgnoresOffer
        BY <2>1, <2>4 DEF BrowserIgnoresOffer, server
    <2>5. CASE BrowserFailsOnOffer
        <3>1. failed' \/ missed'
            BY <2>5 DEF BrowserFailsOnOffer, Gets
        <3> QED BY <2>1, <3>1 DEF server
    <2> QED BY <1>9, <2>2, <2>3, <2>4, <2>5 DEF ReadSignal
<1>10. CASE StopMicrophone \/ MakeConnection
    BY <1>10 DEF StopMicrophone, MakeConnection, server, mishaps
<1>11. CASE SendNewOffer
    <2>1. toServer \in Seq(ToServer) /\ "newOffer" \in ToServer
        BY DEF NegInv, NegotiationTypeOK, ToServer
    <2>2. Queued("newOffer", toServer')
        BY <1>11, <2>1, StayingQueued DEF SendNewOffer
    <2> QED BY <1>11, <2>2 DEF SendNewOffer, server, mishaps
<1> QED
    BY <1>1, <1>2, <1>3, <1>4, <1>5, <1>6, <1>7, <1>8, <1>9, <1>10, <1>11
       DEF NegotiationNext, HandleOfferStep, ReadMessage

(* A finished exchange leaves both ends stable, for any set of tracks, any *)
(* number of lines in the browser's offer and any leftovers, unless Pion   *)
(* or the browser failed, an offer was left unanswered, an old answer      *)
(* crossed or the socket was lost.                                         *)
THEOREM SettledCorrect == NegotiationSpec => []SettledIsStable
<1>1. NegInv /\ Waiting => SettledIsStable
    BY EmptyQueue DEF NegInv, NegotiationTypeOK, OneOfferInFlight, OfferQueued, AnswerQueued,
                      InFlight, Waiting, SettledIsStable
<1>2. NegInv /\ Waiting /\ [NegotiationNext]_vars => Waiting'
    BY WaitingStep
<1> QED BY <1>1, <1>2, WaitingInit, NegotiationInvariant, PTL DEF NegotiationSpec
-----------------------------------------------------------------------------
(* What keeps ChangesAreNoted: the same of the answer that HandleOffer is  *)
(* about to apply, and of the offer that is open while HandleOffer is past *)
(* the existing publications.  All three concern a peer that is not closed *)
(* and has met with no mishap.                                             *)
Complete(d) == d \subseteq tracks /\ tracks \ d \subseteq leftOut

Asked == spawned > 0 \/ pending

AnswerNoted == handshake = "local" => Asked \/ Complete(offered)

ExchangeNoted ==
    handshake \in {"send", "done"} =>
        Asked \/ (negotiating /\ offered = tracks) \/ Complete(described)

OfferNoted == handshake # "adding" /\ negotiating => Asked \/ offered = tracks

Noted == ~closed /\ ~Broken => AnswerNoted /\ ExchangeNoted /\ OfferNoted

LEMMA NotedInit == NegotiationInit => Noted
BY DEF NegotiationInit, Noted, AnswerNoted, ExchangeNoted, OfferNoted

LEMMA HandleOfferNoted ==
    ASSUME NegInv, Noted, HandleOfferStep
    PROVE  Noted'
<1> USE DEF Noted, Broken, AnswerNoted, ExchangeNoted, OfferNoted, Asked, Complete
<1>1. ASSUME NEW t \in Track, AddExisting(t)
      PROVE  Noted'
    BY <1>1 DEF AddExisting, mishaps
<1>2. CASE SetRemoteOffer
    <2>1. ~closed' /\ ~Broken' => ~negotiating'
        BY <1>2 DEF SetRemoteOffer, mishaps, NegInv, OneOfferInFlight
    <2> QED BY <1>2, <2>1 DEF SetRemoteOffer, mishaps
<1>3. CASE CreateAnswer
    <2>1. ~closed /\ ~Broken => ~negotiating
        BY <1>3 DEF CreateAnswer, NegInv, OneOfferInFlight, AnsweringIsRemote
    <2>2. ~closed' => offered' \subseteq tracks /\ leftOut' = tracks \ offered'
        BY <1>3 DEF CreateAnswer, Answers, kSubset
    <2> QED BY <1>3, <2>1, <2>2 DEF CreateAnswer, mishaps
<1>4. CASE SetLocalAnswer
    BY <1>4 DEF SetLocalAnswer, mishaps
<1>5. CASE SendAnswer
    <2>1. UNCHANGED <<rejected, missed, crossed, hungUp>>
        BY <1>5 DEF SendAnswer, Send, mishaps
    <2> QED BY <1>5, <2>1 DEF SendAnswer
<1> QED BY <1>1, <1>2, <1>3, <1>4, <1>5 DEF HandleOfferStep

LEMMA AnswerReadNoted ==
    ASSUME NegInv, Waiting, Noted, HandleAnswer \/ HandleBadAnswer
    PROVE  Noted'
<1> USE DEF Noted, Broken, AnswerNoted, ExchangeNoted, OfferNoted, Asked, Complete
<1> SUFFICES ASSUME ~closed', ~Broken'
             PROVE  Noted'
    OBVIOUS
<1>1. /\ ~closed /\ ~rejected /\ ~missed /\ ~crossed /\ ~hungUp
      /\ handshake \in {"done", "failed"} /\ UNCHANGED <<handshake, tracks, offered>>
    <2>1. CASE HandleAnswer
        BY <2>1 DEF HandleAnswer, Reads
    <2>2. CASE HandleBadAnswer
        BY <2>2 DEF HandleBadAnswer, Reads
    <2> QED BY <2>1, <2>2
<1>2. toServer # <<>> /\ Head(toServer) \in {"answer", "oldAnswer"}
    BY DEF HandleAnswer, HandleBadAnswer, Reads
<1>3. CASE HandleAnswer
    <2>1. negotiating
        BY <1>1, <1>3 DEF HandleAnswer, Waiting
    <2>2. /\ ~negotiating' /\ described' = offered
          /\ spawned' = IF pending THEN spawned + 1 ELSE spawned
        BY <1>3 DEF HandleAnswer, Finished
    <2>3. Asked => spawned' > 0
        BY <2>2 DEF NegInv, NegotiationTypeOK
    <2> QED BY <1>1, <2>1, <2>2, <2>3
<1>4. CASE HandleBadAnswer
    <2>1. Head(toServer) = "oldAnswer" /\ ~negotiating /\ ~pending
        BY <1>1, <1>2, <1>4 DEF HandleBadAnswer, Crosses
    <2> QED BY <1>1, <1>4, <2>1 DEF HandleBadAnswer
<1> QED BY <1>3, <1>4

LEMMA NotedStep ==
    ASSUME NegInv, Waiting, Noted, [NegotiationNext]_vars
    PROVE  Noted'
<1> USE DEF Noted, Broken, AnswerNoted, ExchangeNoted, OfferNoted, Asked, Complete
<1>1. CASE UNCHANGED vars
    BY <1>1 DEF vars, server, mishaps
<1>2. CASE HandleOfferStep
    BY <1>2, HandleOfferNoted
<1>3. ASSUME NEW t \in Track, AddTrack(t) \/ RemoveTrack(t)
      PROVE  Noted'
    <2>1. spawned' > 0
        BY <1>3 DEF AddTrack, RemoveTrack, NegInv, NegotiationTypeOK
    <2> QED BY <2>1
<1>4. CASE Negotiate
    <2>1. CASE closed
        BY <1>4, <2>1 DEF Negotiate
    <2>2. CASE ~closed /\ Busy
        BY <1>4, <2>2 DEF Negotiate
    <2>3. CASE ~closed /\ ~Busy
        <3>1. handshake \notin {"answer", "local"}
            BY <2>3 DEF Busy, NegInv, AnsweringIsRemote
        <3> QED BY <1>4, <2>3, <3>1 DEF Negotiate, mishaps
    <2> QED BY <2>1, <2>2, <2>3
<1>5. CASE NegotiateFails
    BY <1>5 DEF NegotiateFails
<1>6. CASE EmitOffer \/ EmitLate \/ LoseSocket
    BY <1>6 DEF EmitOffer, EmitLate, LoseSocket, Send, HangUp, server, mishaps
<1>7. CASE HandleAnswer \/ HandleBadAnswer
    BY <1>7, AnswerReadNoted
<1>8. CASE HandleLateAnswer
    BY <1>8 DEF HandleLateAnswer, server
<1>9. CASE HandleNewOffer \/ ClosePeer
    BY <1>9 DEF HandleNewOffer, ClosePeer
<1>10. CASE ReadSignal
    BY <1>10 DEF ReadSignal, BrowserGetsAnswer, BrowserAnswersOffer, BrowserIgnoresOffer,
                 BrowserFailsOnOffer, server, mishaps
<1>11. CASE StopMicrophone \/ MakeConnection \/ SendNewOffer
    BY <1>11 DEF StopMicrophone, MakeConnection, SendNewOffer, server, mishaps
<1> QED
    BY <1>1, <1>2, <1>3, <1>4, <1>5, <1>6, <1>7, <1>8, <1>9, <1>10, <1>11
       DEF NegotiationNext, ReadMessage

(* No change of the tracks is overlooked after the browser's exchange, for *)
(* any set of tracks, any number of lines in the browser's offer and any   *)
(* leftovers, save the tracks that this offer had no line for, until an    *)
(* exchange of the server is completed, and unless a mishap has happened.  *)
THEOREM ChangesNotedCorrect == NegotiationSpec => []ChangesAreNoted
<1>1. NegInv /\ Noted => ChangesAreNoted
    BY DEF Noted, ExchangeNoted, Asked, Complete, ChangesAreNoted
<1>2. NegInv /\ Waiting /\ [NegotiationNext]_vars => Waiting'
    BY WaitingStep
<1>3. NegInv /\ Waiting /\ Noted /\ [NegotiationNext]_vars => Noted'
    BY NotedStep
<1> QED
    BY <1>1, <1>2, <1>3, WaitingInit, NotedInit, NegotiationInvariant, PTL DEF NegotiationSpec
=============================================================================
