# Voiced: specifications, model checking and proofs

Voiced is a voice-room server in Go with a React page. This directory holds
TLA+ models of its core, TLC configurations for small instances, and TLAPS
proofs of the invariants for every instance. Everything is written from the
source; line numbers below and in `PROJECT.json` refer to the files of this
repository (`src/` in `PROJECT.json` is the repository root).

## 1. The system

### Components, their state and their operations

| component | code | state | operations |
|---|---|---|---|
| room manager | `internal/room` | `rooms`: room → owner, participants map, `participantOrder` slice, mute flags; one RWMutex | Create, Join, Leave, RemoveParticipant, SetMuted, Dissolve; reads: Get, List, ListParticipants, GetParticipant |
| signaling handler | `internal/signaling/handler.go` | one goroutine per WebSocket, where it stands in `ServeHTTP` | authenticate, snapshot, read loop with leave / offer / answer / ice / mute / remove / dissolve, deferred disconnect |
| hub | `internal/signaling/hub.go` | `rooms`: room → participant → `*Client`; one RWMutex | Add, Remove (compares pointers), Take, TakeRoom, Broadcast, SendTo |
| client | `internal/signaling/client.go` | queue of 32 messages, socket, close-once | Send (never blocks), WriteLoop, CloseWithStatus |
| media manager: tables | `internal/media/manager.go` | `peers`, `publications` under one mutex; `senders` and `closed` of each peer under the peer's own; an atomic mute flag per publication | HandleOffer, ClosePeer, CloseRoom, closeIfCurrent, publish, removePublication, SetMuted |
| media manager: negotiation | the same file, `frontend/src/App.tsx` | `negotiating`, `pending`, Pion's signaling state, the browser's signaling state | HandleOffer, negotiate, HandleAnswer; receiveAnswer, receiveOffer |
| page | `frontend/src/App.tsx` | `room`, `participants`, socket, peer connection, microphone | handleSignal, upsertParticipant, beginSession, finishRoom |
| microphone | the same file, `OnICECandidate` and `AddICECandidate` of `media/manager.go` | capture, connection, `offerSentRef`, one buffer of candidates per direction | startMicrophone with its awaits, stopMicrophone, createPeerConnection, receiveAnswer, receiveCandidate, addPendingCandidates |
| HTTP API | `internal/api/server.go` | none of its own | create, join, read-only endpoints, CORS, access token |
| access token | `internal/access/token.go` | a file read at every call | Verify |
| start-up | `cmd/server/main.go`, `internal/media/config.go` | configuration, read once | parsing, validation, wiring |
| scripts | `scripts/`, `frontend/vite.config.ts` | processes and files of the host | start, stop, deploy, set the token |

### How they interact

A page creates or joins a room over HTTP (room manager only), then opens a
WebSocket and authenticates with its participant ID. The connection's goroutine
adds its client to the hub (closing the client it replaces), queues a snapshot,
tells the others, and reads commands. Every command calls the room manager, the
media manager and the hub one after another, and each call takes that
component's lock alone: no lock is held across two components. So everything
that other connections do may fall between any two of these calls, and most of
the properties below are about what may and what may not happen then. An HTTP
request likewise checks its type, its token and the room one after another,
while the token file is replaced and the room dissolved.

Media callbacks run on goroutines of Pion: `OnTrack` runs `publish` and then
the packet loop, a failed transport runs `closeIfCurrent`, and a changed set of
tracks starts `go negotiate`, which calls back into the hub (`SendTo`).

### What is hard about it

* **Interleaving and atomicity.** disconnect, remove, dissolve and reconnect
  concern the same client and the same peer, in several critical sections each.
* **Stale reads.** The mute flag before the track is registered; the list of
  listeners before the loop; the member before its broadcast.
* **Two negotiations at a time.** Browser and server may both offer.
* **Awaits.** A start of the microphone goes on while the user stops it, starts
  it again or leaves, and all of these share the same refs.
* **Trickling.** Candidates are found before the offer is sent and arrive before
  the answer, in both directions.
* **Configuration and rotation.** Two functions share the check of a port range
  (0 stands for "unset" between them); a token may change during a request.
* **Bounded queues.** A full queue closes the client, or drops an answer.
* **Succession.** Three fields of a room are kept in step by hand.
* **Liveness.** A closed page, a kicked client and a pending request all rely
  on some goroutine that gets around to them.

`PROJECT.json` lists every hazard with its line and the properties about it.

## 2. The modules

```
RoomQueue            what room.Manager promises (abstract)
   ^ implemented by
Rooms                room.Manager
   ^ extended by
   |-- Server        start-up, and an HTTP request that enters a room
   |-- Sessions      handlers and hub over the room manager
   |-- Roster        broadcasts, one client's queue and its page
Publications         the forwarding tables of media.Manager (MutesProofs builds
                     on PublicationsProofs)
Negotiation          one media peer and its browser
Microphone           one page's microphone and the candidates of both ends
MC*                  instances for TLC
*Proofs              theorems, checked by TLAPS
```

### Rooms (and RoomQueue)

`rooms` is `Manager.rooms`; a room is a record of the owner, the set of keys of
the participants map, the set of those with `MutedByOwner`, and the order slice.
Every operation is one action, since it runs under one lock; an operation that
returns an error is a disabled action. `created` and `issued` are the IDs handed
out: IDs are 16 random bytes and are taken never to repeat.

`RoomQueue` is the promise of `README.md:5` and no bookkeeping: a room is a
queue in arrival order and whoever is at its head owns it. `OwnershipIsSeniority`
says that `Rooms` implements it under the mapping queue ← order, leader ← owner.

### Server

`process` is where `main` stands: `Load` is `loadServerConfig` and
`Config.validate`, `Listen` the rest of `main`. `settings` are the flags or
environment values (a port is a number, blank or unparsable), `config` the
origins that are kept. One POST request is followed at a time, `stage` being its
next step: the browser's preflight (external: a page of another origin asks
before it posts JSON, and need not ask before it posts text), `decodeJSON`,
`verifyAccessToken` which reads `tokenFile`, the room manager's operation, and
for a new room the unlocked `room.info()` at the end of `Create`. `Rotate`
replaces, empties or deletes the file at any moment. `Others` are all other
requests and commands, as what they do to the rooms, by any participant: also by
the one whose ID is yet to be answered, since `GET /api/rooms` shows it from
`Create`'s unlock on and an ID is all that a WebSocket needs. `held` and `used`
are history: the file has held the request's token at some moment since the
request began; somebody has left or dissolved by the new ID before `Create` has
described its room. The GET requests change nothing and are left out. Names, nicknames and timestamps are left out of
`Info`, which leaves the owner and the count.

### Sessions

`pc[c]` is where the handler of connection `c` stands; every call on hub, room
manager and media manager is a step. `closing[c]` are the clients `c` has taken
out of the hub and has yet to close. `peers` is the media manager's map, each
peer named after the connection that made it. The environment loses connections,
closes pages for good (`ClosePage`) and lets transports fail (`PeerFails`).
`Lose` also stands for a client closed by a broadcast that found its queue full.
`HTTPCreate` and `HTTPJoin` are the requests of `Server` in one step.
`mute_participant` is in `Publications` and `Roster`.

### Publications

The tables of one room (rooms share nothing). Goroutines are named after what
they work for: a `Peer` is also the `HandleOffer` call that makes it, a `Pub`
the `publish` call that makes it, a `Closer` a caller of `ClosePeer`, `CloseRoom`
or `closeIfCurrent`, a `Muter` the `setMuted` of one owner connection. A step is
one critical section: of `Manager.mu`, or of one listener's `peer.mu` in a loop.
`mutedByOwner` is the room manager's side of a mute, `muted` the flag the packet
loop looks at. Packets are not modelled: what is forwarded to whom is a matter
of `publications`, `senders` and `muted`. `raced` and `overtaken` are history
and no guard reads them. `raced`: the members whose last command overlapped
another one, or looked for a publication while a track that had read the old
flag was yet to be listed. `overtaken`: the members whose current peer was put in
the map while a closer of an earlier one had yet to unlist, or whose current
peer has lost the listing to a track of an earlier one.

### Negotiation

One peer: the steps of `HandleOffer` (which works on the connection without
`peer.mu`), `negotiate` up to its unlock and then its `emit`, `HandleAnswer`,
and the two receivers of the page. The handler reads the browser's next message
when `HandleOffer` has returned. A description is the set of tracks it
describes. Pion is external: an offer is refused unless the connection is
stable, an answer describes at most one track per line of the offer, and
`CreateOffer` or an answer may fail.

The peer may have replaced another one. What that one has left over is in the
queue at the start (`"answer"`, `"oldOffer"`) or still to be emitted (`late`,
since `negotiate` emits after its unlock); the browser answers such an offer like
any other (`"oldAnswer"`), and `HandleAnswer` looks the peer up by its member and
takes it for the current peer's. The tags are the model's: the messages carry
nothing to tell them apart, and neither end's actions do.

`browser` is the page's connection: none while the microphone is off, new until
its offer is sent, then `signalingState`. The user may stop the microphone, which
tells the server nothing, and start it again, which makes a new connection and
an offer (`"newOffer"`) whose arrival closes this peer. An offer that finds no
connection is ignored, one of the receivers' awaits may be rejected, and either
way nothing is sent (`BrowserIgnoresOffer`, `BrowserFailsOnOffer`).

Mishaps are recorded so that the properties can name their exceptions:
`rejected` (Pion failed on this peer's answer or on making an offer), `failed`
(the browser's own offer got no answer, the queue being full or the browser
failing on a description that is not this peer's offer), `missed` (this
peer's offer was not answered), `crossed` (an old answer was taken while this
peer waited for its own or had a note) and `hungUp`. `leftOut` is history: the
tracks that the browser's offer had no line for, until an exchange of the server
is completed. The page's receivers are one step each, although they await the
browser in between: where two of them overlap, `RTCPeerConnection` queues the
operations and all but one fail.

### Roster

The room manager again, with one connection per participant whose handler
reads or changes the room in one step and broadcasts in a later one. One
participant, `Viewer`, is followed: its queue, its snapshot (three steps: Get,
ListParticipants, Send), and the room and participants its page shows. `Reply`
is an answer, pong or error of its handler, which a full queue drops silently;
`SendTo` is the media manager's, which closes the client then, as broadcasts do.
`overlooked` is history: who was announced to `Viewer` after its snapshot had
been read without them and before it was queued. No guard reads it.
Reconnections and `dissolve_room` are left to `Sessions`.

### Microphone

An attempt is one call of `startMicrophone`, and gives its name to the capture,
the connection and the candidates it comes to have. `stage[a]` is the await it is
at: `getUserMedia`, `resume`, the two fetches before `createPeerConnection`, and
`createOffer` with `setLocalDescription`. `audio`, `connection`, `offerSent` and
the two buffers are the refs that all attempts share; nothing disables the
button during an attempt, so a stop, a second start or a leave may come between
any two awaits. `capturing` and `open` are what the browser really has open.
The server's end is the part of `HandleOffer`, `OnICECandidate` and
`AddICECandidate` that concerns the page's current peer; the server's own offers
are in `Negotiation`. `overtaken` is history: a start or stop has run during
somebody else's attempt; the properties that such an overlap breaks exclude it
(section 5 says how).

## 3. What the runs check

| run | instance | shows |
|---|---|---|
| `server` | 1 room, 4 participants, 2 tokens, 2 origins, ports to 2 | order, participants and owner agree and implement the queue, whatever requests come; a malformed configuration serves nothing; whoever enters had the token and an allowed origin, and is told the right owner unless somebody has used the ID first |
| `sessions` | 1 room, 2 participants, 2 connections, fair | hub entries are of live handlers; whoever is unregistered is closed and ends; closed pages leave; dissolved rooms are disconnected; a member that has connected always has a handler to see to its leaving |
| `sessions_replaced` | 3 connections | **violated**: a member leaves through an old connection while the hub holds its new one |
| `publications` | 2 participants, 3 connections, 2 tracks, 1 closer | no publication without a peer stays; first publications are heard; the track a current connection reads is the listed one unless an old removal has overtaken it |
| `publications_live` | 1 participant, 2 connections, 2 tracks, 1 closer, 1 owner, fair | dead tracks get unlisted; mutes reach the track that was published, and are in force between commands unless they have raced |
| `publications_lost` | as `publications` | **violated**: a live track is unlisted by somebody else's ClosePeer |
| `publications_mute` | as `publications`, 1 owner | **violated**: a muted participant is forwarded |
| `negotiation` | 2 tracks, 1 line in the offer, fair | one offer at a time; both ends get stable; later requests are served; after the first exchange no change of tracks goes unnoted; each up to the mishaps it names |
| `negotiation_lost` | 2 tracks, 2 lines, fair | **violated**: a track is never described |
| `roster` | 2 participants, queue of 2, fair | a page that has read its queue shows everybody who is served; arrivals, departures and new owners reach the page |
| `roster_ghost` | 3 participants, queue of 3 | **violated**: a page keeps showing somebody who was removed |
| `microphone` | 2 attempts, fair | a settled page that is off has nothing open; candidates follow their offer, are neither lost nor stranded in a buffer, and arrive in both directions |

### Bounds, and why they are enough

* *server*: four participants allow two successions with a removal between them;
  a participant ID is issued once, so the state space is finite by itself. Rooms
  share nothing, so one is enough. `MaxPort` stands for 65535: with 2 there are
  limits below, at and above it and pairs in both orders. Two tokens make a
  rotation, two origins an allowed one and another.
* *sessions*: a race needs two handlers, of one participant (a reconnection) or
  of two (a command and its target); both are in. A connection is used once, so
  each run of a handler is complete. `sessions_replaced` takes a third.
* *publications*: two peers of one participant make a replacement, the third is
  the listener; two tracks make an old and a new publication. In
  `publications_live` one participant suffices, since none of its properties
  mentions a listener, and commands on different members share nothing.
* *negotiation*: `MaxSpawned` bounds the `negotiate` goroutines that wait at a
  time for a change of tracks; with one (and the one that an answer starts), a
  request comes before, during and after the exchange that serves another, and
  two run at a time. One message or offer of a replaced peer (`MaxLeftover`) can
  fall anywhere into an exchange. With `AfterMishap = FALSE` nothing new begins
  once the peer is closed or a mishap has happened that the properties except,
  only what is under way plays out; the theorems also cover `TRUE`. At most one
  offer for the next peer is under way, as its arrival closes this one.
* *microphone*: a property is about one attempt and what another does to it, one
  after the other or overlapping; each attempt has one candidate per direction,
  which comes at every possible moment.
* *roster*: `QueueSize` stands for 32. Two is the smallest queue in which one
  message can be in front of another and a third finds it full.

Every invariant of a passing run (not the liveness properties) is proved for all
values of the bounds, so the small instances are no restriction for those; see
below.

`CHECK_DEADLOCK FALSE` is set everywhere: IDs, connections and goroutines are
used up, and a system in which everybody has left has nothing to do.

### Fairness

Weak fairness, and only of what a goroutine does by itself once it has begun:
the Go scheduler runs whatever can run, and mutexes are held for a few
statements. In `Roster` and `Negotiation` the page also reads what is queued for
it; whether it answers an offer is left open, as the code leaves it open. In
`Microphone` the promises of a connection that is open settle, one way or the
other, and both ends read what is sent; whether candidates are ever found is left
open. Browsers, users, the network and the HTTP API are under no obligation:
nobody has to leave, to reconnect or to offer.

## 4. What is proved

TLAPS proves, for all sets of rooms, participants, connections, peers and tracks:

* **RoomsProofs.** The inductive invariant is the type of a room together with
  `OrderMatchesParticipants`, "the owner is the head of the order" and "whoever
  is in a room was issued": the owner's membership alone is not inductive, since
  the successor is read from the order slice and not from the map. From it follow
  the three invariants and `RoomsRefineQueue`, the step-by-step proof that every
  operation is one of `RoomQueue`'s, `SetMuted` a stutter. Lemmas about
  `RemoveFirst` (it removes one position and keeps the rest in order) carry it.
* **ServerProofs.** The invariant ties each stage of the request to what has been
  checked by then: past the preflight a foreign page is allowed or has sent text,
  past `decodeJSON` it is allowed, past `verifyAccessToken` the token is not
  blank and was held. That creators and joiners are told the truth
  (`EntrantsToldTheTruth`) needs more than the room's own invariant: unless
  somebody has used the new ID, the creator is still the owner between `Create`'s
  unlock and its unlocked read, since owners do not remove themselves. Every
  step is one of `Rooms` or a stutter (`ServerImplementsRooms`).
* **SessionsProofs.** `SessionsTypeOK`, `HubHoldsLiveHandlers` and
  `UnregisteredIsBeingClosed` together are inductive: replaced clients are found
  through the hub entry they had, which had better be their own. Every step of
  `Sessions` is one of `Rooms` or a stutter (`SessionsImplementRooms`), so
  seniority carries over to any interleaving of connections
  (`SessionsSeniority`). `MembersServed` is about a member that has connected: a
  handler that ends because it was replaced must have been replaced by one that
  is still there. `ServedInv` says that such a member has a handler
  that is about to register, is in the hub, or is about to leave the room for
  them, and that whoever is being taken out of the hub is no member any more; it
  needs that an ID which has left a room never comes back to it (`NothingReturns`,
  `LeftIsGone` and `RemovedIsGone` of RoomsProofs).
* **PublicationsProofs.** `UnservedIsBeingUnlisted` needs that a goroutine in
  the middle of its work has a participant (`SubjectsNamed`); nothing else, which
  is why `publish`'s check at line 294 is enough. `FirstListenersServed` is the
  longest argument (`HearInv`): when a participant has made one offer, then for
  its publication and every other peer, either the peer has a sender for it or
  somebody still owes it one: the peer's `HandleOffer`, which has yet to list the
  publications or has this one in its loop, or `publish` with the peer in its.
  That nobody else takes the publication or the sender away meanwhile is the
  rest of the invariant, and where the one offer is needed.
  `PresentTrackListed` (`LiveTrackListedUnlessOvertaken`) has no limit on the
  offers: as long as a member is not overtaken, it has no peer while somebody is
  about to unlist whatever it has (`Present`), and the late reader of an old track
  unlists no other.
* **MutesProofs.** `MuteEnforcedUnlessRaced` speaks of members whom no command
  concerns. `MuteInv` says what a command in flight owes: unless it has raced it
  is alone, it carries the value that the room manager has, and every flag that
  differs (of the listed track, or of one about to be listed) is one it is yet to
  look for or has found. `raced` is the exception, and both of its causes are needed: without "missed a
  track" the invariant fails at line 290 (`publications_mute`), without
  "overlapped another command" at line 214, where two stores may come in the
  other order than the room manager's two updates.
* **NegotiationProofs.** `OneOfferInFlight` needs `AnsweringIsRemote`, because
  `HandleOffer` sets the signaling state without `peer.mu`; the lemmas on queues
  (`ReadingHead`, `Queueing`) say what reading and sending do to the one offer and
  the one answer among leftovers. `SettledIsStable` needs `Waiting`: an end that
  is not stable waits for something on its way. `ChangesNotedCorrect` needs that
  the answer which `HandleOffer` is about to apply lacks only what is `leftOut`,
  and that an open offer past the publications collected first describes the
  current tracks, or somebody has asked for another (`Noted`); of an old answer
  it needs `Waiting` again, since one that met an open offer would be `crossed`.
* **RosterProofs.** The type of queue, snapshot and page, and that every step,
  whatever it broadcasts, is one of `Rooms` or a stutter: seniority
  (`RosterSeniority`) holds there too. `EverybodyIsShown` rests on `ShownInv`:
  whoever is served is in the snapshot that is about to be queued
  (`SnapshotComplete`), or is on the page or listed by a queued message with
  nothing behind that takes it off (`PageComplete`). A farewell behind it is
  excluded because handlers only say farewell to IDs that have left for good
  (`HandlersTrue`, `FarewellsTrue`), a broadcast that passes it by because the
  client is in the hub from `hub.Add` on or its socket is closed (`Reached`), and
  a snapshot without it is what `overlooked` excepts.
* **MicrophoneProofs.** `NothingLeftBehind` needs, for each attempt and stage,
  which of capture and connection it holds and that the refs name them as long as
  nobody was overtaken (`InHand`): what no ref names, `stopMicrophone` cannot
  close. `CandidatesFollowTheirOffer` looks only at candidates on their way; what
  makes the next one follow is that whoever is sending has an open socket, that
  the last offer on it is its connection's, and that the buffer holds nobody
  else's candidates (`OfferGoesFirst`). `CandidatesNotLost` follows a candidate
  through buffers and messages; it needs that nothing is known of an attempt's
  candidates before it has a connection (`NothingYet`).

Assumptions are the named ones of the modules: absent values are none of the
values, the goroutine names are disjoint, bounds are naturals.

Only model-checked: the liveness properties (TLAPS does not do `ENABLED` and
fairness): `UnregisteredEnds`, `ClosedPagesLeave`, `DissolvedIsDisconnected`,
`DeadTracksUnlisted`, `OwnerCommandLands`, `RequestIsServed`,
`LaterArrivalsShown`, `DeparturesShown`, `SuccessionShown`,
`LocalCandidatesArrive` and `RemoteCandidatesArrive`.

## 5. Where code and documentation differ

Five runs find a promise of a README or comment violated; `PROJECT.json`
("findings") quotes each. In short:

1. `handler.go:152`: disconnect leaves the room after the hub has got a newer
   client of the same participant.
2. `media/manager.go:231`: `removePublication(..., nil)` after the unlock hits the
   track of a newer connection.
3. `media/manager.go:290`: a mute between the read of the flag and the
   registration of the track has no effect on the audio.
4. `media/manager.go:428`: `pending` set during the browser's own exchange is
   never looked at.
5. `handler.go:66`: a participant announced after its removal stays on the pages.

A sixth contradiction has no run of its own, since it breaks the property of the
fourth. `media/manager.go:138-139` says that adding the existing tracks before
the answer "includes them in this first negotiation". The page's offer has one
audio line, an answer describes at most one track per line, and nobody asks for a
further exchange: of several existing tracks one is described, until some other
track comes or goes (`leftOut`). TLC finds `EveryTrackIsNegotiated` violated this
way too, with `OfferedLines = 1` and, to rule out the fourth case,
`MaxSpawned = 0`; with two lines and no spawning it holds.

Further places where the code does less than one might read into the
documentation, without a run of their own (the hazards list has the lines):

* a page that is closed between `POST /api/rooms` and its WebSocket is never
  removed; two owner changes may be broadcast in the wrong order; who is announced
  between the reading and the queueing of a snapshot is undone by it and not
  shown (`overlooked` in `Roster`); a full queue drops an answer without closing the
  client; a listener may keep a sender for a track that has been replaced;
* the creator's ID is public before the creator has it: `GET /api/rooms`
  (`api/server.go:111-113`) shows it as the owner's from `Create`'s unlock on.
  If somebody leaves or dissolves by it before `room/manager.go:53`, the 201 shows
  another owner or a count of 0 (`used` in `Server`);
* a page whose microphone is off ignores an offer (`App.tsx:318`), and one whose
  `receiveOffer` is rejected at an await sends nothing: `negotiating` stays set and
  no later request of that peer is served, until the microphone is enabled again
  (`missed` in `Negotiation`);
* an offer or answer of a replaced peer may cross the current one's exchange:
  `HandleAnswer` (`media/manager.go:171`) takes it for the current peer, resets
  its flags, and the answer that belongs there is refused (`crossed`);
* an offer in flight makes a peer after its room was dissolved or its
  participant removed (`media/manager.go:135`), until its transport ends;
* with two attempts at the microphone overlapping, a stop finds in the refs only
  what has got there: a capture can stay live while the page says "Off"
  (`App.tsx:243-251`, `441`), and an attempt that started before a leave can
  finish in the next room; an attempt that fails in `resume` leaves its
  capture even when it is alone;
* the answer to an older offer is applied to the newer connection
  (`App.tsx:309-312`), an older connection's `setRemoteDescription` can take the
  newer one's buffered candidates, and the `catch` of an overtaken attempt stops
  the newer one;
* the form that creates or joins can be submitted twice before the first
  answer (`App.tsx:122`).

## 6. Not modelled

RTP packets and codecs, the audio elements, device lists and volumes of the
page, its rendering and stored session; the GET endpoints, `DebugInfo` and
`PublicConfig`, which only read; STUN URLs and the debug flag, which nothing can
refuse; the contents and errors of JSON payloads over WebSocket; timestamps (`JoinedAt`
is taken before the lock, `room/manager.go:57`, so it need not follow the order
slice, which is what seniority means here). The
scripts manage files and processes of the host; what `set-access-token.sh` does
to the token file is `Rotate`. The vendored Pion libraries and the browser are
external and modelled by how the code uses them.

A few parts are modelled apart although they meet: offers of both ends
(`Negotiation`) and candidates (`Microphone`) share one connection, and the media
calls of handlers (`Sessions`) are the callers of `Publications`. Each module
lets the other part's steps happen at any time or leaves out what they cannot
change.

## 7. Plan

Done: `RoomQueue`, `Rooms`, `Server`, `Sessions`, `Publications`, `Negotiation`,
`Roster`, `Microphone`, and proofs of every invariant of theirs.

Left, in this order:

1. `Forwarding`: `Sessions` and `Publications` composed, with the peers of
   `Sessions` as the callers of `Publications`, to see which races the handlers'
   order of calls excludes.
2. An abstract signaling channel (at most one open offer, answers in order) that
   `Negotiation` implements.
3. `Negotiation` and `Microphone` composed: candidates during the server's own
   offers.
