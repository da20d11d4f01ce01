# DeskLink in TLA+

DeskLink is a remote desktop: a host agent shows its screen, a client watches
and controls it, and two servers introduce them to each other. This directory
models the parts of it whose correctness depends on the order of events, checks
them with TLC and proves the core of them with TLAPS.

## 1. The system

| part | state | operations | hard because |
|---|---|---|---|
| **ConnectionManager** (`signaling-server/src/ws/connection.ts`) | `connections`, `deviceIndex`, `wsIndex`, `isAlive` of each socket | new connection, register, pong, sweep every 30 s, close event, shutdown, send | a device reconnects before the close event of its older socket comes; peers vanish without closing |
| **MessageHandler** (`ws/handler.ts`) | none of its own | one handler per message type | it relates sockets, devices and session records while devices come and go |
| **SessionManager**, **RedisAdapter** (`session/manager.ts`, `redis/adapter.ts`) | sessions, pair locks, rate counts, online flags, listeners: all in the memory of the process | create, update, look up, lock, count, publish | a restart forgets all of it while the applications remember |
| **server.ts** | the heartbeat timer | feeds WebSocket events to the above; shutdown | |
| **SignalingGateway** (`api-server/.../gateway`) | `connections`, `deviceIndex` | the same messages as the handler | every handler awaits the database, so the handlers interleave |
| **DevicesService**, **SessionsService**, **AuthService** (`api-server/...`) | the tables devices, sessions, session_events, passcodes | find and save, without transactions | lost updates, writes of stale rows, crashes between two writes |
| **RedisService** (`api-server/.../redis`) | a map with expiry timers | get, set, setnx, del | timers that outlive the value they were started for |
| **useSignaling, useWebRTC, screens** (`client-ui`) | a socket, a peer connection, a reconnect timer | offer, answer, candidates, ICE restart, reconnect | answers that race timeouts, connections replaced under a running handler |
| **Host agent** (`apps/host-agent`: `App.tsx`, `WebRTCHost.tsx`) | a socket and a peer connection for each run of one effect, a reference to the latest, the status shown | accept, answer an offer, capture, rotate the passcode | a render replaces the socket under handlers that go on; an offer replaces a connection that is not closed |
| **Client application** (`apps/client-app/src/App.tsx`) | a socket and a peer connection for each try, references to the latest, the screen shown | the ways to connect, disconnect, the handlers of the socket | a try that starts while another one is under way; a timer and a request to the server that start one later |
| **common** | none | device ids, passcodes, hashing | boundaries of lengths and character sets |

Two servers implement the same protocol. The client-ui speaks to the signaling
server (port 8080), the host agent and the client application to the gateway in
the API server (port 3000). They share no state.

A session goes: both devices register; the client asks for the host; the server
creates a session and forwards the request; the host accepts (it does so at
once, without asking for the passcode); from then on the server relays their
WebRTC offers, answers and candidates, until one of them ends the session.

## 2. Modules

| module | of | state |
|---|---|---|
| `DeviceDirectory` | what a connection manager promises: each device has one owner, the latest claim wins, the superseded socket is expelled, nothing else takes a route away | `owner`, `status` |
| `ConnectionManager` | `connection.ts`, and the socket events, timer and shutdown of `server.ts` | `wsState`, `connections`, `deviceOf`, `isAlive`, `deviceIndex`, `silent`, `serverUp` |
| `ConnectionManagerProofs` | theorems about it | |
| `Signaling` (EXTENDS ConnectionManager) | `handler.ts`, `manager.ts`, `adapter.ts`, `server.ts` | those, and `online`, `subscribed`, `sessions`, `locks`, `rateLimits`; `learned` and `out` describe the surroundings |
| `SignalingProofs` | theorems about it | |
| `Gateway` | `signaling.gateway.ts` with `devices.service.ts`, the REST calls of `devices.controller.ts` and the lookups of `sessions.service.ts` | `connections`, `deviceOf`, `deviceIndex`, `devices`, `sessions`, and `task`: what each handler in flight waits for |
| `GatewayProofs` | theorems about it | |
| `SessionRecords` | `createSession`, `updateSession` and `logEvent`, for the gateway and over REST | `sessions`, `events`, `task` |
| `SessionRecordsProofs` | theorems about it | |
| `Passcodes` | `generatePasscode`, `verifyPasscode`, `resolvePasscode` | `passcodes`, `request` |
| `PasscodesProofs` | theorems about it | |
| `PeerConnection` | `useWebRTC.ts`, under the renders of `App.tsx` and the socket of `useSignaling.ts` | `pcs`, `pcRef`, `dcRef`, `channels`, `pending`, `attempts`, `timers`, `timerRef`, `status`, `app`, `shown`, `dirty`, `ws` |
| `PeerConnectionProofs` | theorems about it | |
| `Relay` | what is between the client application and the host agent: frames of a session on their way, which may be lost, refused, delayed and reordered | `frames`, `course` |
| `HostAgent` (EXTENDS Relay) | `WebRTCHost.tsx` under the inputs and the status of `App.tsx` | `hostWs`, `closing`, `status`, `hostPcs`, `hostPcRef` |
| `ClientApp` (EXTENDS Relay) | the connections of `client-app/src/App.tsx` | `sessionState`, `sockets`, `wsRef`, `clientPcs`, `clientPcRef`, `deferred` |
| `Negotiation` (EXTENDS HostAgent, ClientApp) | both ends together, and the data channel between them | those |
| `NegotiationProofs` | theorems about it | |
| `DeviceId` | `device-id.ts`, `device.ts` and the formatting of the connect screen | none: operators on sequences of characters |
| `ConnectionScreen` (EXTENDS DeviceId) | `ConnectionScreen.tsx` and what `App.tsx` keeps for it | `remoteId`, `localError`, `connectionError`, `isConnecting`, `requests` |
| `ConnectionScreenProofs` | theorems about it | |

`MC*` modules hold symmetry and definitions for TLC. Two modules are composed of
others: `Signaling` of the manager, whose actions its handlers extend, and
`Negotiation` of the two applications, which meet in the relay and in the data
channel. The two servers share no state, and each sees the applications as its
surroundings; the web client of `client-ui` sees the other end so.

How code becomes steps:

- *Signaling server.* Every method of ConnectionManager is synchronous. The
  handlers are `async`, but everything they await is an in-memory operation that
  resolves at once, so a handler is one step. Sockets are used once: a socket
  stands for the `WebSocket` object and the uuid the server gave it. Its state
  is `open`, `closing` (the server called `close()`; frames of the peer still
  arrive), `gone` (only the close event is to come) or `closed`.
- *API server.* Each `await` on the database is a point where other requests and
  events come in. A handler is split there, and what it remembers across it (the
  connection it looked up, the row it read) is in its `task` or `request`.
  TypeORM's `save()` reads the row again and writes the columns that differ;
  `SessionRecords` has these as two steps, `Passcodes` as the possible outcomes.
  A query may also fail (`DatabaseFails`): what is caught, and what is then sent,
  is as in the code. The tables have other writers than the gateway: a device is
  registered and claimed over REST (`HandleRestCall`), whether or not it has a
  socket, and a client of the REST interface appends to the log of a session what
  it likes (`PostEvent`).
- *Web client.* A handler of a message, a timer or an event of the browser runs
  to its first `await`, and the rest is in `pending`; after it the code reads
  `pcRef` again, and so does the model. A `setState` makes the page `dirty`;
  `Render` is the commit with its effects, which replace the peer connection when
  an input of the effect has changed. `app` is what App holds and `shown` what
  the effect last ran with. `fresh` says whether `iceServers` is a new array on
  every render: in App it is (`App.tsx:30`), and the runs have both, for the hook
  must also be right under a page that keeps it.
- *Host agent.* The component is one effect, run anew when the device id or the
  passcode changes (`Render`). Its handlers belong to the run, and so to the
  socket, that installed them: those of earlier runs go on (`OldSocketCloses`,
  and `live` of a connection whose answer would go to a closed socket). `pcRef` is
  shared by all runs, and counts as none when what it holds is closed.
- *Client application.* Each try has a socket of its own (`StartConnection`), and
  its handlers stay with it, while `wsRef` and `pcRef` hold the latest. What waits
  for a timer or the server before it starts a try is `deferred`.
- *Sessions of `Negotiation`.* A socket of the client asks for one session, which
  is accepted once and has one peer connection at either end, so all of them go
  by the name of the session. The channel opens between connections that applied
  each other's description, and the host notices when the other end is gone.
- *Relay.* It is left open what forwards the frames, so that the properties hold
  with either server. As they are, neither takes the client application through:
  it speaks to `:3000/signaling`, which the signaling server (`:8080/ws`) does not
  serve, and it never registers the device `DL-CLIENT-VIEWER` it names, so that
  the gateway finds no record for its session; and if there were one, the
  acceptance would fail (difference 3 below).
- *Connect screen.* The text of the field is a sequence of characters, as its
  formatter cuts and inserts them. Edits are at the end of the text; a paste is
  into an empty field.
- *Crashes.* `Restart` empties what is in memory. For the signaling server that
  is everything; for the API server the tables stay.
- *Out of view.* Payloads, logs, acknowledgements, JSON. A device id, session
  id, passcode or status is a model value; only the screen looks into an id. The
  signaling server writes the status, times and metrics of a session and never
  reads them, so its records have their two participants only. ICE candidates
  and media streams change nothing the properties tell apart. A closed peer
  connection raises no event and its promises are never settled, as browsers do
  it. `out` holds the frames that the last
  step wrote, as pairs of a socket and a frame.
- *Surroundings.* An application speaks about the sessions it was told of
  (`learned`), names itself when it registered, and announces one device per
  socket, but for the sockets in `Rebinders`. It may ask for any device, its own
  included: neither server compares the two ids of a request, and what a device
  says in a session with itself comes back to it.

Variables that the code does not have: `silent`, `learned`, `out`, `unsettled`,
`overlapped`, `affected`, `cut`, `accepted`, `failures`, `issued`, `replaced`,
`asked`, `pasted`, `buffer`, `recalled`, `course`. No guard of the program reads
them, except `silent` (a vanished peer sends nothing), `learned` (what an
application can name), `cut` (a session whose creation a crash cut short is known
from the history of its user) and `issued` (fresh keys).
`Unused` and `Spare` in `Negotiation` say when a session name may be used again;
they stand for names without end.

Each module also has operators described as *slips*: the action as it would be
with a plausible mistake in it. They are in no specification. Substituting one
for its original must break the property it belongs to.

## 3. What is checked

| run | instance | shows |
|---|---|---|
| `connection_manager` | 3 sockets, one of which may change its id; 2 devices | `IndexAgrees`, `NoOrphan`, `DanglingOnlyByRebinding`: the maps agree with each other and with the sockets. `ImplementsDirectory`: refinement of `DeviceDirectory`, so the late close event of an older socket never takes the route away. `SilentPeersAreDropped`: liveness of the sweep |
| `signaling` | 3 sockets, 2 devices, 2 session ids, limit 1, 2 submissions | `FramesReachTheirSide`: frames of a session go to the participant they are for. `NothingIsLost`: a request, a passcode, an answer, a relay and the end are written to every socket that participant has open, and so not lost over a reconnect; nothing is said of one that has none. `LockFollowsPair`: locks and records agree through a second request of a pair, whose lock is held by the first, and through restarts |
| `signaling_presence` | the same | a check that the code announces and does not make |
| `gateway` | 3 sockets, 2 devices, one of them the host and the one REST calls are about, 1 session, 2 handlers in flight | `NoDeadRoutes`, `GatewayFramesReachTheirSide` with lookups that outdate while the database is asked, or fails; `PresenceIsRecorded`: the online flag follows the connections, since the last registration over a socket that met nobody, unless calls raced for the row, a write failed, the server restarted or a device without a socket was registered over REST. `RouteIsLostToOlderSocket`: no handler in flight takes the route of an open socket away, only the late close event of an older one does |
| `gateway_notify` | the same | the end of a session is never told to the other side |
| `session_records` | 1 session, 3 updates at a time, 3 events, posted ones among them | `StatusIsLogged` however updates overlap. `LogTellsStatus`: overlaps, crashes and posted events part the log and the row, and the next update that sets the status on its own brings them together again |
| `passcodes` | 2 devices, 2 codes, 2 keys, 2 requests, 2 attempts | for a passcode whose device saw no requests overlap while it was there: `UsedOnce`; `GuessesAreLimited`: `verifyPasscode` answers a bounded number of wrong guesses (those at `resolvePasscode` are not limited). `OnePasscode`: what an overlap leaves in the table goes with the next rotation that meets nobody |
| `passcode_reuse` | the same | two overlapping verifications are let in with one passcode |
| `peer_connection` | 2 sessions, 2 peer connections, 3 attempts, `iceServers` new or kept | `OnlyCurrentOpen`, `SentIsCurrent`: renders, timers and prompts replace the connection under a running handler, yet one is open and what is sent is of it. `RetryMatchesFailure`, `ReconnectsAreBounded`, `FailureIsRetried`: the reconnect timer is there as long as it is needed, and no longer. `OfferIsAnswered` by a client |
| `peer_reconnect` | the same, `iceServers` new | the render that shows a connection as connected closes it |
| `connect_screen` | characters D, A, L and 0; 65 ids in 36 spellings each; 1 recent device; 2 requests | `FieldIsBuffer`: the formatter, applied to its own output at each key, adds and takes back one character. `SpellingsAreOne`: prefix and separators do not matter, to the screen and to `normalizeDeviceId`. `AskedIsShown`: the states of two components agree |
| `negotiation` | 2 sessions, 1 socket still closing | `ControlHasItsEnds`: a host that shows *Connected* has an open channel, and none is open to nobody. `ControlIsCurrent`, `NothingIsLeft`: while connections do not overlap, the references of both ends name the connections that share the channel, and disconnect closes all of the client. `EachOfferIsAnswered`, although the host never closes the connection before. `ControlEnds`: a host notices that the client is gone |

*Why the bounds are enough.* The races are between a device's older and newer
socket and a second device: three sockets and two devices have every such pair and
an onlooker. Two handlers (three updates, two requests) in flight are the least
that interleave, and the guarantees are per device or per session, whose requests
do not read one another's rows. Two session ids of the signaling server are a
session and the second request of its pair, or the one after a restart. In the
gateway sessions have no lock and records are never moved between ids, so one is
enough; `Hosts` bounds there who is asked for and whom REST calls are about, so
that one device takes either part. A limit of 1 or 2 has the boundary and one try
on either side. Rows, sockets and keys are used once, which bounds the runs
without counters; `MaxEvents`, `MaxSubmissions` and `MaxRequests` bound the log,
the count of submissions and the unanswered requests. Two peer connections are the
current one and either its successor or a closed one whose prompt is still open:
more only add closed ones, which no code reaches. Two sessions of `Negotiation`
are the latest and one that overlaps it or was left behind by it; a third is only
a second one of these, whose handlers read nothing of it, and a try that is
deferred still finds a name of its own. One socket of an earlier run that is still
closing does what more would do. The ids of `connect_screen` have all combinations
of four groups of two letters, so that a character put into the wrong group shows,
D so that a prefix may be mistaken for an id, and L, with which they spell one.

*Deadlock* is checked in every run: no part can come to a stop.

*Symmetry* is used in the runs of `Signaling` (sockets, devices, sessions; all
sockets have one address), `Gateway` (sockets, handlers), `SessionRecords` and
`Passcodes`, which have no liveness, over sets whose members no definition tells
apart.

*Fairness.* `FairSpec`: the interval timer fires again and again while the server
is up (`server.ts:89`), and ws emits the close event of every socket it gave up.
Nothing is assumed of peers. `PeerConnection!FairSpec`: the browser settles the
promises of an answer, an armed timer fires and React renders a dirty page;
nothing is assumed of the user, the network or the other end.
`Negotiation!FairSpec`: a frame that is not lost arrives, the promises the two
ends await are settled (an answer and its application are one step), and the
browser of the host reports a channel whose other end is gone. The user at the
prompt may wait for ever, as may whoever opens and closes sockets.

### Where the code and its documentation differ

1. `handler.ts:163`, *Check if target device is online*: nothing clears the
   online flag when a socket closes, so a request for a device that left makes a
   session nobody hears of (`OnlyOnlineHostsAreAsked`).
2. `auth.service.ts:126`, *so it cannot be used again*: two requests that read
   the row before either deletes it are both let in (`SingleUse`).
3. `signaling.gateway.ts:266`, *Notify the other peer*: the session is returned
   without its relations, and reading `session.hostDevice.deviceId` throws
   (`OtherPeerIsNotified`). By the same line of code, acceptances and rejections
   never reach the client of this gateway.
4. `useWebRTC.ts:188`, *Recreate PeerConnection with Exponential Backoff*, and
   README.md:12, *Survives network switches seamlessly*: `App.tsx:30` passes a
   literal array, so every render replaces the peer connection, that of a
   connection that has just connected included, and clears the timer of the
   backoff (`ConnectedIsKept`).

Seen while modelling, without a run of their own:

- The gateway answers *Target device is offline* (`signaling.gateway.ts:151`) for a
  host that has reconnected, once the close event of its older socket comes: line 73
  deletes the index entry whichever socket it names, and the host does not register
  again. `OwnerKeepsRoute` of the signaling server does not hold here; what is left
  of it is `RouteIsLostToOlderSocket`.
- README.md:8, *Easy 9-character IDs*: the field keeps eight characters of an id
  and takes them for complete, so the device asked for never exists.
- The host shows *Online & Ready* (host `App.tsx:98`) after its socket has closed,
  which nothing opens again, and when a socket of an earlier run closes, even in
  the middle of a session. Hence the converse of `ConnectedIsTrue` does not hold.
- The first run of the host's effect registers the placeholder `DL-000-000-000`
  (host `App.tsx:13`). A passcode that rotates ends the session that is under way,
  and the count of sessions stays.
- The host accepts every request; the comment of `WebRTCHost.tsx:69-71` speaks of
  those that match the passcode. No sender sets the passcode it would read, and
  the modal that would ask for one is never shown.
- Each session leaves one open peer connection at the host, and a try that starts
  while another one is under way leaves a socket, and perhaps a connection, at the
  client, which `disconnect` does not reach. The client does not compare the
  session ids of what it receives, so an answer can meet another offer.
- The client does not notice that its channel closed, and ignores
  `connection:error`. A socket error in a session hides the viewport and leaves the
  session running with no button to end it.
- `handleIdChange` starts its try with the id from before the paste
  (client `App.tsx:140`).
- `incrementRateLimit` ignores its window: a limited address stays limited until
  the server restarts (`adapter.ts:113`).
- implementation_plan.md:344, *Enables replay of session lifecycle*: row and event
  of a session are written without a transaction, and `POST :id/events` appends to
  the same log what the client says, *disconnected* included, so the log need not
  tell the status; `LogTellsStatus` says from when on it does. `SessionEventDto`
  refuses *active* and *failed*, which `updateSession` logs.
- implementation_plan.md:83, *rate-limited (5 attempts/min)*, 742, *lockout after 15
  failed attempts (30 min cooldown)*, 1139, *brute-force blocked*, and README.md:9:
  `resolvePasscode` compares each guess with every live passcode and counts none of
  the wrong ones (`auth.service.ts:139-141`), so a passcode may be guessed at there as
  often as one likes; it does refuse a passcode that `verifyPasscode` has locked.
  `verifyPasscode` counts per passcode, not per minute, and has no cooldown; guesses
  that overlap are counted once. In the model `ResolveRefused` changes nothing, and
  `GuessesAreLimited` is about what `verifyPasscode` answers.
- implementation_plan.md:343, *old ones are soft-deleted for audit; supports multiple
  active passcodes*: `generatePasscode` deletes every row of the device
  (`auth.service.ts:81-82`, *Deactivate previous passcodes*), as does the use of a
  passcode (127, 148). `OnePasscode` is about what the code does.
- A device that is registered over REST (`devices.controller.ts:12`) is online from
  then on although it has no socket, and no close event will come for it; until it
  registers over a socket `PresenceIsRecorded` says nothing of it.
- An acceptance for a client that has no open socket is lost: `handler.ts:259` publishes
  it to listeners that repeat the lookup which has just failed, and a host accepts once,
  in the handler that receives the request (`WebRTCHost.tsx:64-88`, `client-ui` `App.tsx:36`).
  The client is told of the session by nothing else.
- `handleRecentClick` asks for the id that was in the field before the click.
- The charset of the common library has 31 characters and not the 30 its comment
  says; the charsets of the web client and of the host agent also have L, and
  `normalizeDeviceId` refuses their ids that use it. A prefix typed by hand is
  taken for part of the id once the field has added its own.
- A request made while the socket is closed is dropped, and the screen says
  *Connecting* until it is reloaded.

## 4. What is proved

`ConnectionManagerProofs`, for any sets of sockets and devices, from
`ManagerAssumption` (the two sentinels are not sockets or devices). The
invariants are not inductive one by one: that dropping a tracked socket by its
`deviceId` removes its own route needs that the index agrees with the sockets,
and that a new connection takes no entry over needs that a socket not yet
connected is nowhere in the maps. Hence

    Inv == TypeOK /\ NewIsUnknown /\ IndexAgrees /\ NoOrphan /\ DanglingOnlyByRebinding

with one lemma per action. `RouteStability` and `DirectoryRefinement` follow
from it: every step maps to a claim, a join, a leave or a stutter of
`DeviceDirectory`.

Proved: `Typing`, `Invariance`, `IndexAgreement`, `OneSocketPerDevice`,
`NoOrphans`, `NoDangling`, `RouteStability`, `DirectoryRefinement`.

`PasscodesProofs`, for any sets of devices, codes, keys and requests and any
positive limit, from `PasscodesAssumption`. `UsedOnce` and `GuessesAreLimited` speak
of passcodes at whose device no two requests met (`affected` remembers the keys of
those where they did), `OnePasscode` of devices that had a rotation on its own since
(`overlapped` is the others). None is inductive: a request acts on what its lookup
found, so the invariant has to say what each request in flight found and that it is
still so while it is alone (`Found`, `Unused`), and that an affected key has a row
only while its device is overlapped (`Marked`), for a rotation deletes them all.

    PasscodesInv == PasscodesTypeOK /\ Filed /\ Marked /\ OneAtATime /\ Found
                    /\ Unused /\ Counted
                    /\ UsedOnce /\ GuessesAreLimited /\ OnePasscode

Proved: `PasscodesTyping`, `PasscodesInvariance`, `PasscodeIsUsedOnce`,
`WrongAnswersAreLimited`, `DeviceHasOnePasscode`.

`PeerConnectionProofs`, for any sets of sessions and peer connections and any
limit of attempts, from `PeerConnectionAssumption`. That what is sent is of the
current connection holds because what awaits the browser is of it, or is a
capture; that the number of new connections is bounded because it is what
`attempts` has counted, less one while a timer is armed. Hence

    PeerInv == PeerTypeOK /\ OnlyCurrentOpen /\ RoleIsShown /\ WorkIsCurrent
               /\ SentIsCurrent /\ TimerIsForFailure /\ AttemptsAreCounted
               /\ FailureHasARetry /\ OfferInHand

The last two are what liveness rests on here: whenever a connection has failed its
retry is armed or the attempts are used up, and a client that took an offer has the
answer in hand. That these go on to happen is `FailureIsRetried` and
`OfferIsAnswered`, which TLC checks.

Proved: `PeerTyping`, `PeerInvariance`, `OneConnectionIsOpen`, `SentIsOfCurrent`,
`RetriesMatchFailures`, `ReconnectsHaveABound`, `OffersAreInHand`.

`SignalingProofs`, for any sets of sockets, devices, sessions and addresses and any
limits, from `SignalingAssumption` and `ManagerAssumption`. `ManagerUnderneath`
shows that every step of the server is one of the manager or leaves it alone, so
`Invariance` of the manager holds here as well, and so does the refinement of
`DeviceDirectory` (`SignalingDirectory`). On top of it

    StoreInv == SignalingTypeOK /\ TwoSides /\ LocksExist /\ LockFollowsPair

says that a record has both participants, who may be one device, or, when an update
made it for an unknown id, none; and that a held lock is held by a session with a record, without
which a new session could take over the lock of another pair by its id. From both,
`FramesReachTheirSide` needs that a route names a socket that announced the device.
A socket that announces two may break that, and `DanglingOnlyByRebinding` says that
nothing else does: the frames such a socket gets are excepted, those of all others
are not, for any set of `Rebinders`. (The run has none.) `NothingIsLost` needs only
`NoOrphan` and `IndexAgrees`.

Proved: `ManagerUnderneath`, `SignalingDirectory`, `SignalingInvariance`, `SignalingTyping`,
`LockIsOfPair`, `SignalingFrames`, `MessagesAreWritten`.

`GatewayProofs`, for any sets of sockets, devices, sessions and handlers in flight,
from `GatewayAssumption`. A handler goes on with what it looked up before it awaited
the database, so the invariant says for each that it is `StillSo`: the socket of a
request still is of its host, for an index entry always names a socket that
announced its device (`IndexIsAnnounced`), and a socket announces one. A handler
whose query fails ends without an effect on the tables, so all of this survives it.
For the online flag, `Settled` says of a device that is not `unsettled` that one
call at most, of a handler or over REST, is at work on its record, that what it found
is still there, and that what it will write is still true. That no step takes the route of an open socket
away, but for the close event of another socket of the device, is an action property;
the proof goes through the steps that change the index.

Proved: `GatewayInvariance`, `GatewayTyping`, `RoutesAreAlive`,
`FramesReachTheirSide`, `OnlineIsRecorded`, `RoutesAreKept`.

`SessionRecordsProofs`, for any number of sessions, updates and events, from
`SessionRecordsAssumption` (a finite number of updates at a time, room for one event).
An update writes back an entity that may be older than the row, so the invariant says
that its status is logged or about to be (`EntityIsKnown`), which no later step makes
false. `Settled` says of a session that is not `unsettled` that one update at most is
in flight, and its `Stage` how far the log is behind the row: an update that sets the
status makes the two agree whatever it found, and one that does not only writes back
what stands already, which is why it does not settle a session by itself.

Proved: `RecordsInvariance`, `RecordsTyping`, `RowsShowWhatIsLogged`,
`LogTellsTheStatus`.

`NegotiationProofs`, for any set of sessions and any number of closing sockets, from
`RelayAssumption`, `HostAssumption` and `ClientAssumption`.

    Inv == NegotiationTypeOK /\ ConnectedIsTrue
           /\ InTurn /\ AloneUnlessOverlapped /\ UnderWayIfPlain

`InTurn`: the socket, the request, the acceptance, the connection and the offer of a
session come one after the other, so that a session has each of them once. `Alone`:
while connections do not overlap, all that is open at the client or on its way is of
one session, which both references name. `UnderWay`: while nothing was lost
either, the socket of each open connection of the client is open, and an offer is on
its way, before the user of the host or answered. `OfferIsUnderWay` needs both of the
last two, `ChannelHasItsEnd` only the first; they are the safety parts of
`EachOfferIsAnswered` and `ControlEnds`.

Proved: `NegotiationInvariance`, `NegotiationTyping`, `HostStatusIsTrue`,
`ControlIsOfCurrent`, `NothingIsLeftOpen`, `OffersAreUnderWay`.

`ConnectionScreenProofs`, for any charsets, any texts and any recent device, from
`DeviceIdAssumption` and `ScreenAssumption` (they say which characters are letters and
dashes, that the issued ids are sequences of them, and that the recent ones are shown
as the field shows them). The formatter is applied
to its own output at each key, so the proof is about its composition with itself: a
text is *shown* when it is a prefix, up to eight characters of the charset and the
dashes the formatter puts between them, and every edit takes a shown text to the text
that shows the edited characters. Hence

    Inv == Field /\ Pasted /\ Flags /\ Asked

`Field`: the text shows `buffer`. `Pasted`: until the field is edited again it shows
the text of the spelling that was pasted. `Flags` and `Asked`: a request is out
exactly while something was asked for, and then the field shows a whole id, the one
asked for, and no error. The formatter removes characters with a
recursive function of the text, about which facts are proved by induction over its
length: the set of lengths for which a fact fails has no least member, since `<` on
the natural numbers is well founded.

Proved: `ScreenTyping`, `FieldIsABuffer`, `SpellingsShowOneId`, `AskedIsInTheField`.

Every invariant and every action property of the passing runs is proved. Three more
are proved and in no run: `OwnerKeepsRoute`, which `ImplementsDirectory` entails, and
`OfferInHand` and `OfferIsUnderWay`, without which `OfferIsAnswered` and
`EachOfferIsAnswered` would fail; TLC finds them true on the instances of these runs.
Model-checked only: liveness (`SilentPeersAreDropped`,
`FailureIsRetried`, `OfferIsAnswered`, `EachOfferIsAnswered`, `ControlEnds`), which is
out of the prover's reach.

## 5. What is not modelled

- Accounts, tokens, organisations: no state in common with the rest.
- `RedisService` of the API server, with its timers and its switch to memory: it is
  injected nowhere, so nothing depends on what it keeps.
- `POST /api/v1/sessions` beside the gateway: no application calls it, and the
  session it makes sends nothing. What it writes is `CreateSession` of `SessionRecords`.
- Of the two applications: ICE candidates, media streams, the passcode messages (no
  step sends one), input events, and the lists of devices and sessions they show.
- `DiagnosticsService`: a function of one row to a text.
- `endSession`, `setDeviceOffline`, `releaseLock`, `deleteSession`,
  `unsubscribe`: nothing calls them.
- The number of listeners of a device, which grows with its registrations
  (`handler.ts:109`): each only repeats a lookup that has just failed.
- Bursts of frames of one socket, whose handlers are not awaited (`handler.ts:249`).
- `generateDeviceId`: a random choice.
- StrictMode's second run of effects, and a constructor of `RTCPeerConnection`
  that throws.
- Screen capture, input injection, layout, configuration.

## 6. Plan

Done: both servers, session records, passcodes, the peer connection of the web
client, its connect screen, the host agent and the client application with each
other; every invariant and action property of them is proved.
Left:

1. Two instances of `PeerConnection` over a relay. A host takes an offer and never
   answers it (`useWebRTC.ts:224`), so what an ICE restart of the client leads to has
   to be seen with both ends.
2. Bursts of frames of one socket (`handler.ts:249`): handlers that interleave at
   awaits of promises that are already resolved.
