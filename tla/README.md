# NeoNect Desktop: a TLA+ verification project

NeoNect Desktop is an end-to-end encrypted chat client (C++20, Qt 6, QML). Its
core is asynchronous: a GUI thread with an event loop, one SQL worker thread,
HTTP calls whose answers arrive at any time or never, a WebSocket, a relay that
redelivers what was not acknowledged, and a peer with several devices. This
project models that core in TLA+, checks it with TLC and proves its safety
properties with TLAPS for every value of the constants.

Paths below are relative to the repository root.

    tlc -workers 2 -config message_safety.cfg MCMessageService.tla
    tlapm MessageServiceProofs.tla

## 1. Inventory

| Component | State | Operations | Talks to |
|---|---|---|---|
| `MessageService` (`services/messageservice.cpp`) | `m_outgoingMessages`, `m_pendingMediaRequests`, `m_receivedMediaRequests`, `m_activeTransfers` with their timers | send, offer media, accept, decline, retry, cancel, delivery status, incoming packets, load | repository (jobs and callbacks), RelayService (signals both ways), chat view (signals) |
| `SqlMessageRepository` (`storage/sqlmessagerepository.cpp`) | the worker's job queue, the open database, the messages table | save, batch save, update status, mark seen, delete, find, page, switch database | one worker thread; callbacks are queued to the GUI thread |
| `ChatMessageModel` (`core/chatmessagemodel.cpp`) | items shown, active conversation, paging flags | add, update, remove, load, load older | signals of MessageService |
| `RelayService` (`services/relayservice.cpp`) | poll timer, `m_isPollingActive`, `m_processedMessageIds`, `m_retry401Count`, `m_isWsConnected` | start, stop, poll, push, acknowledge, send, 401 handling | HttpTransport, WebSocketClient, MessageService, FriendService, NetworkManager |
| `WebSocketClient` (`transport/websocketclient.cpp`) | `m_state`, `m_shouldBeConnected`, `m_handshakeComplete`, `m_readBuffer`, `m_reconnectAttempts`, reconnect timer, socket | open, close, handshake, parse frames, reconnect | QSslSocket; RelayService |
| `DeviceService` (`services/deviceservice.cpp`) | device id and key in the settings | register, with conflict and limit chains, logout of a device | HttpTransport, settings |
| `AuthService`, `NetworkManager` (`services/authservice.cpp`, `core/networkmanager.cpp`) | session, profile, bookmarks, view state | login, register, logout, session end, profile fetch | all services |
| `FriendService` (`services/friendservice.cpp`) | friends, incoming and outgoing requests, blocked | load, request, accept, reject, remove, block, friend packets | HttpTransport, RelayService |
| `Application` (`core/application.cpp`) | none of its own | wiring: the account's name selects its database | settings, repository |
| `SettingsRepository` (`storage/settingsrepository.cpp`) | cached values in front of QSettings, profile | getters, setters, clear session, set profile | everything |
| `NotificationManager` (`core/notificationmanager.cpp`) | bounded list, unread counter, stored switches | add, dismiss, dismiss by sender, mark read, clear | MessageService, FriendService |
| `CryptoService`, `CryptoManager` | the active key behind a reader-writer lock | encrypt, decrypt, derive | OpenSSL |
| `HttpTransport` | base URL, token | get, post, delete | QNetworkAccessManager |
| `AudioManager` (`core/audiomanager.cpp`) | capture and playback threads, their flags and buffers, volume | record, stop, cancel, play, pause, volume, mute | waveIn, waveOut and MCI of Windows |
| `VersionInfo`, QML, tests | build data, presentation | | |

Interactions that make the system hard:

* **Two threads.** Each repository call is queued to the worker; its callback is
  queued back. Cache, view and table are three copies of one status, written at
  different times (`messageservice.cpp:592-608`).
* **Three clocks on one message.** The POST's answer, a *simulated* progress
  timer, and the peer's receipts and answers set the same status
  (`messageservice.cpp:133-151`, `364-378`, `558-609`).
* **Redelivery.** The relay hands out an item until it is acknowledged; polls and
  pushes overlap; an acknowledgement is sent once and its answer ignored
  (`relayservice.cpp:345-350`, `577`).
* **Sessions.** An HTTP call carries the token of the moment it is made, its
  callback uses the session of the moment it runs. Logins, logouts, the third 401
  and late device registrations interleave with all of it.
* **Signals inside calls.** `QSslSocket::abort()` runs the `disconnected` slot of
  the client inside its own `open()` and `close()`; an `errorOccurred` handler may
  close the client that emits it.
* **Emits in order.** A change of the user's status is three or four signals, each
  with slots that run at once; which comes first decides what is sent.
* **Native threads.** The audio threads share flags with the GUI thread; a join
  waits inside a click.
* **Process end.** Nothing queued survives; the relay's state does.

What makes each component correct:

* MessageService: "sent" is the truth, a transmitted text is in the history, every
  send gets a verdict, cache and table agree, an offer is answered once and with
  the media it offered.
* RelayService: an item is handed over once, never lost by its own
  acknowledgement, delivered in the end; the link and the database are those of the
  account that is logged in.
* WebSocketClient: the connection flag is true, no stream leaks into the next
  connection, `close()` is final, a lost link is retried with the right delay.
* DeviceService: a login ends in a registered device or a reported failure; the
  chain of conflicts and limits terminates and overlaps with itself harmlessly.
* FriendService: local lists converge to the server's, across overlapping answers
  and packets.
* Settings and accounts: what an account change must clear is cleared.
* View and notifications: no item twice or out of order, block marks that fit,
  counters within range, no request left to answer that was answered.
* Status and presence: friends see the status the user sees; what the user sees of
  friends follows the server and what they report.
* Audio: a recording is what was captured; what sounds is what is shown.

## 2. Plan

Ordered by what a mistake would cost the user. Everything below is done; what
could still be added is at the end.

| Step | Module | Models |
|---|---|---|
| 1 | `MessageService`, `MessageServiceProofs` | sending, with worker, relay, peer, view, restart |
| 2 | `WebSocketClient`, `NetworkProofs` | the link's life cycle |
| 3 | `RelayService`, `RelayServiceProofs` | receiving, sessions, account databases |
| 4 | `Mailbox` | abstract: what the receiving side promises; `RelayService` implements it |
| 5 | `Session`, `SessionProofs` | login, logout, 401s, late profiles, the chains of device registration |
| 6 | `UserStatus`, `DesktopProofs` | the user's status, idleness, and whom it is told |
| 7 | `FriendService`, `Social`, `SocialProofs`, `Presence`, `NetworkProofs` | lists against the server; presence; friends wired to notifications |
| 8 | `ChatMessageModel`, `ChatMessageModelProofs`, `NotificationManager`, `Conversations` | rows and pages of a conversation; the notification list; the list of conversations |
| 9 | `WebSocketStream`, `WebSocketStreamProofs` | frames in a stream of bytes, cut anywhere |
| 10 | `SettingsStore`, `SettingsRepository`, `DesktopProofs` | abstract: settings without caches; the repository implements it |
| 11 | `AudioManager`, `DesktopProofs` | the two audio threads |

Compositions: `Social` composes `FriendService` with `NotificationManager` by the
connections that `Application` makes. `RelayService` contains the parts of
NetworkManager, AuthService, Application and the SQL worker that decide in whose
name an item is handled, and sees `WebSocketClient` only through its `connected`,
`disconnected` and `errorOccurred` signals; it takes a registration for one call,
whose inside is `Session`. `MessageService` contains the worker and the view it
writes to. `MCNetwork`, `MCSession` and `MCDesktop` extend several components and
run one of them at a time.

A proof module extends the components it is about: `SessionProofs` is about `Session`
and `Conversations`, `NetworkProofs` about `WebSocketClient` and `Presence`, `SocialProofs`
about `FriendService`, `NotificationManager` and `Social`, `DesktopProofs` about
`UserStatus`, `SettingsRepository`, `AudioManager` and, extending the proofs of the other
parts, about `MCDesktop` as a whole. Names of components that are extended together
are kept apart by a prefix (`ChatInit`, `AudioInit`, ...).

Left to do: the account change inside `MessageService`; receiving chat messages
and offers there; bookmarks and profiles.

## 3. How the modules correspond to the code

An action is a whole handler on the GUI thread: Qt runs one at a time and to its
end, with every direct signal it emits. A queued signal, a job of the worker, an
HTTP call and a timer are state of their own, consumed by a later action.
History variables (`faulted`, `late`, `dropped`, `strayed`, `conn`, `upgraded`,
`losses`, `relayed`) only record what happened; no guard of the program reads them, with
one exception: the peer can only answer what the relay has accepted (`relayed`).
Operators marked "Mutant:" are wrong versions of the definition below them. No
specification uses them; they document which mistake a property catches.

### MessageService

| Model | Code |
|---|---|
| `outgoing`, `pending` | `m_outgoingMessages` (status), `m_pendingMediaRequests` (the errorText, which holds the media type of an offer) |
| `registered`, `live` | keys of `m_activeTransfers`; the timers that really run. A second `insert` overwrites the key and leaves the older timer running, hence the two variables |
| `jobs`, `replies`, `rows` | the worker's event queue, callbacks queued to the GUI thread, the status column |
| `requests`, `responses`, `relayed` | POST `relay/send` before and after the relay has taken the message |
| `active`, `shown` | the conversation on screen and the status each bubble shows |
| `SendMessage`, `SendMediaRequest`, `Cancel`, `Retry`, `OpenConversation` | what the user can do, under the guards QML puts before it: a retry is offered on a failed bubble, and by the players after a playback error whatever the status |
| `TimerDone`, `DeliverySucceeded`, `DeliveryFailed` | last tick; `handleMessageDeliveryStatus` |
| `SeenReceipt`, `MediaAccept`, `LateAccept`, `MediaDecline` | branches of `handleIncomingMessages` |
| `WorkerStep`, `WorkerFault`, `On...` | a statement and its callback, or its failure |
| `Restart` | the end of the process and a new one |

Intermediate ticks only move a progress bar and are left out. A message is an id;
its content is abstracted, except the type of an offered medium. One peer and the
local saved-messages conversation are two sets of ids.

### WebSocketClient

`should`, `state`, `socket`, `handshake`, `attempts`, `timer` and `online` are the
members of the same meaning; `buffer` holds the number of the connection its bytes
came from. `Open` and `Close` are what RelayService calls, at any moment. The
socket is modelled as the class uses it: `disconnected()` is emitted, inside
`abort()` too, only by a socket that was connected; a connection that cannot be
established ends in `errorOccurred()` alone. `RefusedForGood` is the refusal whose
401 makes RelayService close the client from inside the signal. `open()` without a
server address or device id (an early return) is left out: RelayService checks the
device id first and the settings always hold an address. What happens *inside* the frames is
in `WebSocketStream`.

### RelayService

| Model | Code |
|---|---|
| `mailbox`, `AckArrives` | the relay: it keeps an item until its own account acknowledges it |
| `user`, `name` | whose the settings' token is, and their username, which also selects the device id; `Present` is what a request shows of the two |
| `Login`, `Logout`, `Handle401` | `loginResult`, `logoutUser`, `handle401Error` with the handlers of its two signals |
| `profiles`, `ProfileAnswered`, `ProfileFailed` | the `GET users/me` of each login, whose answer sets the username, and with it the database, in whatever session exists by then (`networkmanager.cpp:132`, `authservice.cpp:184-194`, `application.cpp:184-189`) |
| `polling`, `poll` | the poll timer; the one poll in flight (`m_isPollingActive`), the token and device it was asked with, and what the relay answered |
| `linkFor`, `link` | the token and device the WebSocket was opened with, and is connected with |
| `regs`, `sends`, `acks` | calls in flight, each of which may outlive its session |
| `processed`, `handed` | `m_processedMessageIds`, and how often an item was handed to the services |
| `jobs`, `db`, `rows` | the worker's queue of saves and database switches, the open database, the messages saved |
| `PollAnswered`, `Push` | `processIncomingRelayItem` for the items of an answer, and for one pushed item |

The save jobs of one answer are one record of the queue whose items are saved one
by one: their order among themselves changes nothing, every other job stays where
it is. A registration is one call here that succeeds or fails (its inside is in `Session`). A user logs in only
without a session: the login page is not reachable otherwise. An account stands for
its token; a name stands for the device id and keys the settings hold under it. After a late
profile the two belong to different accounts, and the relay, which is external, may then
answer with the items of either or with none, and may or may not prune.

`late` records the items that were handed over in another session than they were asked for
in, or while the name in the settings was not the session's. Such an item may be saved in
another account's database (a finding), and the properties except it; an item handed over in
its own session and name is not excepted, although its save may run long after.

`Mailbox` is the promise: a chat message the relay forgets is in its account's
database or waits to be saved there, unless an excuse is on record. The mapping
takes the messages of queued jobs for `waiting`, the worker's rows for `kept`, and
`late` and `dropped` for the excuses.

### Session

| Model | Code |
|---|---|
| `session`, `user` | `NetworkManager::m_sessionToken` (whose it is), the account the database belongs to |
| `saved`, `username`, `deviceIds` | what the settings hold: token, name, the device id of each name |
| `wire` | the token `HttpTransport` sends |
| `chains` | registrations under way, each at one of its calls: `register`, `limit`, `delete`, `taken` |
| `profiles`, `logging` | profile requests and the login under way |
| `polling`, `socket`, `retries` | what a successful registration starts; the 401 counter |
| `registered` | the server's devices of each account, oldest first |

`crossed` and `mixed` record that an answer of an earlier login was applied, and
that one of two chains took another id while both ran: the cases of two findings,
which the properties except. A chain's calls carry the token of their moment; its
callbacks read name and token when they run, as in the code.

### UserStatus and Presence

`UserStatus` holds what `NetworkManager` knows of the user's own status, and in
`announced` the last status packet each peer was sent. Slots run in the order of the
emits: `Tell` comes before `invisible'` takes effect, as in `setUserStatus`. `Presence`
is the other side: `statuses` is `m_peerStatuses`, written by the callbacks of
presence queries (`Answer`), by packets (`PresencePacket`) and by any other message of
a friend (`MessageFrom`).

### FriendService and Social

`friends` and `pending` are the lists in memory, `stored` their copies under each
account's key, `server` the server's lists, `calls` the HTTP calls under way with the
account whose token they carry and, once served, the answer they bring. `account` is the
name in the settings, whose lists are stored, `bearer` the account of the token; they part when a
profile answers late (`FriendProfile`), which loads no list. `strayed` records that a change was
stored under another name than the lists were loaded for. `signal` is
the last signal emitted; `Social` lets `Application`'s slots of that signal run in the same
step. Accounts and peers are names; a list is a set of names. Texts and times of
requests, and `lastSeen`, are left out.

### ChatMessageModel, Conversations, NotificationManager

A message of `ChatMessageModel` is its time of sending; `Joined` says which neighbours
belong to one block; `jobs` and `replies` are the worker's queue and its answers, of any length,
`fetching` is `ChatView.isFetchingMore`, the flag that keeps pages from overlapping.
`Inserted` is what `std::upper_bound` promises of the place of a new row; the rows may be out
of order (a finding), and then any place that meets the promise may be taken.
`Conversations` maps each open conversation to its unread count and time of last
activity; `savedLists` is the copy under each user's key. A late profile (`NameAnswered`) changes
`named`, the name the list is saved under, without loading its list; `strayed` records that a change
was saved so, until a list is loaded again. `NetworkManager::setProfile` would load a list too, but
nothing in the program calls it. In `NotificationManager` a notification
has an id in order of arrival, a type and a channel; messages wait in `arriving` for
the event loop, as their queued connection makes them.

### WebSocketStream

`bytes` is what waits in `m_readBuffer`, `wire` what is still to come, `switched` is
`m_handshakeComplete`; `SocketReadyRead(n)` takes n bytes off the wire and runs the
parser. `ProcessFrames` is its loop, one turn for each complete frame: as a frame has
bytes, as many turns as there are bytes are enough, and the turns without a complete
frame change nothing. The numbers of the protocol are constants: `Base` (256 values of a
byte), `Short` (125), `Two` and `Eight` (the widths of the extended lengths), `KeyLen`
(4 bytes of mask) and the operator `Xor`, of which `StreamAssumption` says only that it
undoes itself. The proofs hold for any such numbers; TLC takes small ones, so that the forms of a
length, and their borders, occur within a few bytes. `Encoded` is the encoding of
RFC 6455 that a server uses, in any form a frame may take; masks are applied and undone
byte by byte.

### SettingsStore and SettingsRepository

`SettingsStore` has no caches: a read returns what the profile, and for a user's setting
its user, last wrote. `SettingsRepository` adds `cachedToken`, `cachedUser` and `cached`, with
"" for "not cached". `stale` records that `setProfile` left a display name or avatar in its
cache (a finding). A read of such a value may differ, everything else has to refine.

### AudioManager

`mic` and `worker` are where the two threads stand; `micOn`, `workerOn` and `sounding` are the atomic
flags they poll (`m_recordThreadRunning`, `m_audioThreadRunning`, `m_audioPlaying`).
A handler that joins a thread is two actions: up to the join, and from it on; `doing` says which
handler waits, and nothing else of the GUI thread runs in between. `MicLoops` may do one more
pass after a stop, since `m_isRecording` is a plain `bool`. A recording is whole when the file
holds every buffer the thread had collected; what the device has filled and not handed over at a
stop is dropped by the code (`audiomanager.cpp:428-433`) and not counted. `Written` is what
`saveWavFile` leaves: the recording, or no file if it cannot be opened. `mci` and `device` are the MCI engine and
its loudness, `shared` the atomic volume of the own engine.

## 4. Runs

| Run | Question | Result |
|---|---|---|
| `message_safety` | Do cache, view, table and relay stay consistent under every interleaving, with failing statements and a restart? | holds |
| `message_liveness` | Does every send get its verdict, and every accepted payload reach the relay? | holds |
| `message_payload_type` | Does the payload have the type of the offer? | refuted |
| `message_seen_regress` | Does a message that was read stay read? | refuted |
| `message_false_sent` | Is a transfer that is called sent, at rest, transmitted? | refuted |
| `ws_safety` | Is the link's state right whenever `open()`, `close()`, failures and the timer come? Is a lost link recovered? Do frames arrive whole however they are cut? Does the presence of friends converge? | holds |
| `ws_keeps_trying` | Is a wanted link always tried again? | refuted |
| `relay_safety` | Is each item handed over once, saved in the right database, pruned only when kept, is the link the session's, and is `Mailbox` implemented, late profiles included? | holds |
| `relay_liveness` | Does a mailbox drain while its account is logged in and polling? | holds |
| `relay_isolation` | Is a message only ever saved in its own account's database? | refuted |
| `session_safety` | Do token, database and device follow the account? Is the list of conversations the saved one, also across late profiles? | holds |
| `desktop_safety` | Do friends hear every change of status? Friends, notifications, rows and pages, settings, audio: does each keep its promise under every order of its inputs? | holds |

**Parts.** `MCNetwork`, `MCSession` and `MCDesktop` run several components in one
model. A variable `part` chooses one in the initial state, and the others keep
their initial state. The model extends the components, so that its properties are theirs, but those of one
model share no variable and no call, so a step of one commutes with every step of another and the properties,
each about one component, cannot tell a mixed behaviour from its parts: leaving out
the mixed ones loses nothing and the states add up instead of multiplying. Where
components do interact they are composed for real (`Social`, `MessageService`, `RelayService`).
Fairness of a component that does not run holds vacuously, none of its fair
actions being enabled in the state it keeps, and its liveness properties hold there
of an unchanging state.

**Bounds.** `Budget` limits how often each kind of disturbance (retry, fault,
restart, login, 401, lost call, ...) may happen, `MaxEvents` how many of them one
behaviour may combine, `MaxMessages` how many messages it creates. Normal
operation (worker, timers, answers, polls) is not limited, and the first
conversation of a session is opened for free.

* `message_safety`: one text, one note to oneself, one payload, one offer, of which
  two are created in a behaviour, with two disturbances. An offer and its payload, a text and a
  transfer side by side, a second retry, a restart after a retry all fit. Messages interact only
  through the queue, so two are enough for their order to matter.
* `ws_safety`: two calls of `open()` and six faults. The delay reaches its cap
  after five losses in a row, and the sixth shows that it stays there. Streams of up
  to two frames of 18 kinds: every form of length and mask, payloads around the
  borders of the forms (1 for 125, 4 for 65536), pings, closes and frames that are
  ignored; every cut of the bytes. A byte is a bit, a mask two of them. Two frames are enough for one to end in the
  read that begins the next. Presence: one friend, two queries at once, five
  comings, goings, packets and switches of the heartbeat, one failed query; friends
  do not interact.
* `relay_safety`: two accounts, two chat messages of one of them (interchangeable, hence the
  symmetry), five of: two logins, a late profile, a logout, three 401s (the number that ends
  a session), a failed save, a restart. A message saved in the guest's database needs two of
  them, one in another account's database three by a late poll and four by a late profile
  (login, logout, login, profile). Lost calls and sends are left to `relay_liveness`; here polls
  and pushes redeliver whenever an acknowledgement is slow, and a call of an ended session is a poll.
* `session_safety`: two accounts with at most one device each, so that the limit is
  met at once; two chains, two attempts each, two logins, two 401s of which the second ends the
  session. It starts with a saved token of one account whose device id the server
  knows as the other's: the case of a conflict. Two users for the conversations, who log in and write to each other,
  each with one profile request under way at a time (`MaxAsked`).
* `desktop_safety`: two peers for the status; one account, itself and a friend among the names, two calls at
  once, a packet (`OnePacket`) and two sessions for the lists, and one profile request of the account under way
  (`OneProfile`), whose answer may follow a logout; with notifications wired to them
  (`Social`) one call at a time (`OneCall`), two packets, no answer of a profile (`Unanswered`; one that is in time
  changes nothing), and a request may come again in the second session; a
  notification list of two with four notifications of two senders; four messages of two conversations
  with pages of one and a window of two, opened twice, which is A, B with everything late;
  two profiles and one user next to none for the settings; two audio messages and
  recordings of up to two buffers.
* `relay_liveness`: a control packet of one account and an undecryptable item of the other, as
  chat messages are acknowledged like them; four of: two logins, a late profile, a logout, a
  lost call, a 401, a send.

The theorems prove the properties of `relay_safety` for any items, accounts and bounds.

**Deadlock.** Deadlock checking is off: when the bounds are used up and
everything has been answered, the system rests.

**Fairness.** Every assumption is weak fairness of one thing the platform does:
the worker thread runs its queue, the event loop runs callbacks and timers
(`LocalFairness`); a socket that is connecting connects or fails, one that is
closing closes, a server answers the upgrade; the poll timer fires. Two
assumptions go beyond what the code enforces: that each POST of a message and each poll
*ends* (`Outcome`, `PollServed`, `PollAnswered`), since `HttpTransport` sets no transfer timeout, so it is up
to the operating system; and that an acknowledgement that is not lost arrives. Nothing the
user, the peer or a failure does is fair. `PresenceConverges` assumes that the
heartbeat's timer fires while it runs and that a presence query ends. The runs that refute safety properties
need no fairness; `ws_keeps_trying` refutes a liveness property under the
fairness above.

**Properties.** `TypeOK` says in addition that a registered transfer has a
running timer (`MessageService`), that the delay is one of those the code can
compute (`WebSocketClient`), that the 401 counter stays below the limit
(`RelayService`) and that the list of notifications keeps its bound (`PartTypeOK` of `desktop_safety`). The others are stated, with the code they are about, where they
are defined.

## 5. Findings

Confirmed by a run:

1. **An offered image arrives as a "file"** (`message_payload_type`). The media type
   of an offer lives in its `errorText`, which the answer to the offer's own POST
   overwrites with "" (`messageservice.cpp:599-602`). The test of this exchange
   never delivers that answer.
2. **A read message falls back to "sent"** (`message_seen_regress`) when the receipt
   overtakes the answer of the POST.
3. **A transfer is called sent although it failed** (`message_false_sent`): a retry
   during a transfer leaves two timers, a failure stops one, the other reports success.
4. **One failed connection attempt ends all reconnection** (`ws_keeps_trying`): such
   an attempt emits no `disconnected()`, and nothing else schedules a retry.
   Messages still arrive by polling.
5. **A message is saved in another account's database and lost to its owner**
   (`relay_isolation`): a poll answered after a logout is processed in the session
   that exists then.

Met while modelling and listed in `PROJECT.json`, each with its line. A property that
one of them would refute excludes it through a history variable, which is named where
the property is defined:

* *Sessions*: late answers of an earlier login are applied to the next one (profile,
  conflict, registration). A late profile has the widest effect: messages of the present session are
  saved in the other account's database and acknowledged, and changes of friends and
  conversations are stored under the other name (`crossed`, `late`, `strayed`). Two registration chains for one id can leave the stored
  id unregistered; the end of a session by 401 leaves the heartbeat running.
* *Status*: leaving invisibility is told nobody; a restored do-not-disturb is
  overwritten at start-up; an invisible friend is turned online by the next query.
* *Friends*: a late list overwrites newer changes or another account's list; a
  rejection never reaches the server. No property covers these two: `CacheIsStored` compares
  the screen with the settings, `NoAnsweredRequest` is about notifications.
* *Chat view*: a message between a page's query and its arrival is wiped; a hole
  behind the window of 150; a filtered offer ends paging; a stale page of an
  earlier visit is prepended.
* *Settings*: `setProfile` keeps display name and avatar; `ReadsWhatWasWritten` excepts them
  (`stale`). The run leaves the caches of the device id and key out, the theorem has them.
* *Registration*: one that fails once is not tried again until the next login or 401.
  `DeviceIsRegistered` speaks of chains that ended with a success and does not cover it.
* *Audio*: the first play without MCI, and a resume at the wrong moment, are silent.
* *Documents*: back-off cap, `close()` during an attempt, masked and fragmented
  frames, the 401 counter, timeouts, registration back-off, the bound of 5
  notifications, durations, speeds and locks of the audio manager.

What a restart leaves behind (by design of the code, not a finding): rows that
were `Sending` stay so until the user retries them, though the view only offers
that on failed ones; an accepted offer whose process restarted is deleted
without a payload.

## 6. Proofs

Eight modules prove, for any sets of messages, accounts, peers, items and any bounds:

| Module | Theorem | Says |
|---|---|---|
| `MessageServiceProofs` | `TypeCorrect` | every reachable state is well typed; a registered transfer has a running timer |
| | `SentCorrect`, `DurableCorrect` | `SentOnlyAfterRelay`, `DurableBeforeRelayed` |
| | `CacheCorrect`, `PayloadCorrect` | `CacheAgreesWithStore`, `PayloadOnce` |
| | `VerdictCorrect`, `NothingLeftSending` | `VerdictIsUnderWay`; what is at rest is not "sending" |
| `NetworkProofs` | `OnlineCorrect`, `StreamCorrect`, `RetryCorrect`, `LostCorrect`, `BackoffCorrect`, `TypeCorrect` | the safety properties of the connections in `ws_safety` |
| | `ReportsCorrect` | `ReportedStatusKept` of the presence of friends |
| `WebSocketStreamProofs` | `StreamKept` | `StreamInv`, the inductive invariant of the parser |
| | `TextsCorrect`, `AnswersCorrect` | `TextsArriveWhole`, `PingsAreAnswered` |
| `RelayServiceProofs` | `TypeCorrect` | the counter of 401s stays below its limit, all else is well typed |
| | `HandedCorrect`, `LinkCorrect`, `SavedCorrect`, `PrunedCorrect` | the safety properties of `relay_safety` |
| | `PromiseKept` | `RelayService` implements `Mailbox` |
| `SessionProofs` | `TypeCorrect` | session, chains and the server's lists are well typed |
| | `TokensCorrect`, `DatabaseCorrect`, `DeviceCorrect` | `TokensAgree`, `DatabaseFollowsAccount`, `DeviceIsRegistered` |
| | `ConversationsCorrect` | `ConversationsSaved` |
| `SocialProofs` | `CacheCorrect`, `WiredCacheCorrect` | `CacheIsStored` of the friend service, alone and wired |
| | `UnreadCorrect`, `WiringImplementsCentre` | `UnreadBounded` of the notification centre; the wiring implements the centre |
| | `AnswersCorrect` | `NoAnsweredRequest` |
| `ChatMessageModelProofs` | `TypeCorrect`, `MarksCorrect`, `OrderCorrect` | `ChatTypeOK`, `MarksAgree`, `RowsInOrder` |
| `DesktopProofs` | `CachesAreInvisible` | `SettingsRepository` implements `SettingsStore` (`ReadsWhatWasWritten`) |
| | `RecordingCorrect`, `PlaybackCorrect` | `RecordingIsWhole`, `PlaysWhatIsShown` |
| | `IdleCorrect`, `StatusToldCorrect` | `IdleIsWatched`, `FriendsSeeCurrentStatus` |
| | `PartsAreTheirOwn` | every behaviour of `MCDesktop` is one of each of its parts; of the friend service, whose `signal` the wired centre's own steps clear, up to that |
| | `TypesCorrect` | `PartTypeOK`, the types of all parts |

The only assumptions are those the modules name: disjoint sets of ids, an owner
for each item, bounds that are natural numbers (`FriendAssumption` among others), a name for nobody that is no
account, no user and no message (`SessionAssumption`, `ConversationsAssumption`,
`AudioAssumption`), finitely many accounts and chains, a notification list, pages and a window of at least
one (`NotificationAssumption`, `ChatAssumption`), every friend a possible sender of a
notification (`SocialAssumption`), a byte of at least two values, positive widths of the extended
lengths and of a mask, an `Xor` that undoes itself, and frames of the server that fit the form of
their length (`StreamAssumption`), kinds of settings that do not overlap and an empty
string that is no value (`SettingsAssumption`).

**SentOnlyAfterRelay** is not inductive: a queued statement or a page on its way to
the view may carry "sent". `SentInv` adds that every job, every reply and every page
that says "sent" about a text or an offer is about a message the relay has. A page
is a copy of the table, and the table is written by jobs, so the circle closes.

**DurableBeforeRelayed** needs the way of a message to the relay. Call a text stored
when its row exists or one of its statements has failed. `DurableInv` adds that a
text is stored when a POST of it is under way in either direction, or when its
bubble shows "failed" (which lets the user retry it), and that every save callback
that waits, and every page or lookup, speaks of a stored text. A stored text stays
stored: no statement removes one. So each of the two ways to the relay, the save
callback and the retry, starts from a stored text.

**CacheAgreesWithStore** speaks of the last statement queued about a message. An `UPDATE` of a row
that is not there changes nothing, so it is not inductive: `StoreInv` adds that a cached
message has its row or an `INSERT` in the queue, and that a finished lookup found a row that
stays. `EndsIn` is the property for one message and any set of statuses; one lemma says what
appending a statement does to it, one what running the first does.

**PayloadOnce** counts. A retry of an offer may still be a lookup in the queue or a reply of
the worker, so `OfferInv` counts those with the payloads and the open offer; a message not
sent yet has none of them, and each step moves one unit or spends a retry. The lemmas
`AtAppend` and `AtTail` say how the number of matching items of a queue changes.

**SendingEnds** is a liveness property and stays with TLC; its safety half is proved, with restarts
and failing statements, which the run leaves out. `VerdictIsUnderWay`: while the cache says
"sending", an `INSERT`, its callback, a POST or a timer is under way, unless a statement about
the message failed. A saved message is never posted, so `VerdictInv` says that its timer runs,
and that a callback that would stop it reports a failure on record. With
`CacheAgreesWithStore` it follows that no message the process knows is left "sending"
once nothing is under way (`NothingLeftSending`).

**WebSocketClient**: `LinkInv` says which combinations of `state`, `socket`,
`handshake`, `buffer` and `timer` occur; the four properties follow from it. `BackoffInv`
adds that `attempts` is the number of losses since the last success.

**WebSocketStream**: that the parser's loop takes exactly the frames that are there is an
induction over the bytes. The library's induction theorems cannot be used with these provers,
so `Induction` states it over sets of numbers, proved from the least element of a set;
`Recursion` draws the equations of a function defined by recursion from it, once for `Power`, `Number`,
`FlattenSeq` and the turns of the loop. `NumberOfDigits` says that the digits a length is written in give the length
back; `WholeFrame` that a buffer that begins with a frame's encoding is complete, and that
payload and rest are the frame's and what follows; `PartOfFrame` that a beginning of an
encoding is not complete. `StreamInv` says of every state: what has been read and what is still on the wire
are together the answer to the upgrade and the encodings of the frames sent; of these a first
part has been handled, in order, and the buffer is a proper beginning of the next frame's
encoding. The properties alone are not inductive, since they say nothing of the buffer. A turn of the
loop moves one frame to the handled ones (`Turn`), and with as many turns as bytes none is left
(`LoopIsDone`).

**RelayService**: `HandedInv` adds to `HandedOnce` that an item that was handed over is in
`processed`, the fact that makes `Fresh` exclude it. `LinkIsOwn` is inductive by
itself, because every step that ends a session also closes the link in the same
handler, and a late profile changes the name, not the token. `KeptInv`, for `SavedInOwnDatabase` and
`PrunedIsKept` together, adds that
the answer of a poll holds items of the account of the token or of the device that asked, that the last database
switch of the queue is to the present name (`CurrentUsername`; without a switch in the queue, the open
database is that name's), whoever's session it is, and that not only a pruned message is accounted for but also one
that is in `processed` or has an acknowledgement of its account under way: these
are the ones the relay may prune next. Lemmas about positions of the queue
(`RunsUnique`, `RunsSame`, `RunsBehindSave`, `RunsShift`) carry these facts over
every append and every finished job.

**Mailbox**: the proof needs that what waits in the queue waits once and is in `processed`
(`QueueInv`), so that a `Receive` never adds what waits already, and `KeptInv` for the
moment the relay forgets. A poll's answer is one `Receive` of all its messages, a
restart one `Lose` of the queue, a switch of the database a stutter.

**Session**: `SessionInv` adds that no session exists while a login is under way, and that an
answer numbered with the present login was asked for with the present token (`Awaited`); an answer of
an older number sets `crossed`. `DeviceInv`, for the device that polls, adds that every chain of
the present login registers, or asks for the keys of, the account of the session, and
does so for the id in the settings unless another chain took one while it ran (`mixed`).
A chain that takes a new id writes it before it registers it, and a chain that deletes a device
is not over: the last chain to end decides the result, at a moment when the server
knows its id.

**Conversations**: the list on the screen and the stored one change in one handler, under the name
in the settings. Either that is the name the list was loaded for, or the change is recorded as `strayed`; so
`ConversationsSaved` is inductive with the types of the lists. The rest of the work is in the operators,
which never add the user himself.

**UserStatus**: `StatusInv` adds that the link is up in a session only, that only an online user
idles, and that packets are held back exactly under the preference "offline": then all
friends were told "offline", and the case of the finding is the exception.

**Presence**: `ReportedStatusKept` alone would allow an entry that says absent while the report
stands, and the next sign of life to turn it into online. `PresenceInv` is stronger: a
report of being away is what the entry says, so an entry that ends takes the report with it.

**FriendService**: every list that changes is written under the name in the settings in the same
handler (`Update`, `SetFriends`), which is the name it was loaded for unless the step sets `strayed`, and
`LoadFriends` ends that. A late profile and an end of the session move the name and no list. `FriendInv` adds
no more than that the settings have both lists of every account.

**NotificationManager**: `NotificationInv` adds that ids are given in order, so that a cut
removes exactly one entry and only from a full list.

**Social**: each wired step is a step of the friend service and, by the slots of its signal, a
step or stutter of the notification centre; so `SocialSpec` implies the centre's specification and
`CacheIsStored` carries over. `NoAnsweredRequest` is inductive: a name becomes answered only with the signal
whose slot dismisses its requests, and a new request of that name takes it out again.

**ChatMessageModel**: `RowsInv` says that rows, queued jobs and pages are of messages of their
conversation. The marks are recomputed from the neighbours after every change (`Redrawn`), so the
proof is about the line of unread messages, which is at most one before and after. For
the order, `OrderInv` uses that the worker answers in the order of the questions: a page asked
for before the conversation was opened again is followed by its load (`LoadsFollow`), and when
no load is under way at most one page is, guarded by `fetching`, all of it older than
what is shown (`PageFits`). Lemmas about ranks (`Nth`, `Newest`) and about inserting into,
cutting and joining sorted sequences do the rest.

**SettingsRepository**: `CachesAgree` says that a cache is empty or equals what is stored for
the present profile and user; each getter then reads what the store would.

**AudioManager**: `RecordInv` says that a thread captures only while a recording is on or being
stopped, and that until then nothing is written or forgotten. `PlayInv` lists what each wait
for a thread has already stopped, where the thread is while a message is shown as playing,
and that the MCI engine and the thread never both play; `VolumeInv` that both engines and
the stored value follow slider and mute.

Each proof has one step per action and, under it, one per part of the invariant
the action can disturb; a temporal theorem combines the initial and the step case.

**MCDesktop**: a step is one of one part (`PartStep`), the notification centre's in the wired system
by `StepImplements`, the friend service's or `NotificationStep`, which moves nothing of it but `signal`; so
the theorems of the parts hold of the model that TLC runs, and the
types follow. (`NoAnsweredRequest` relates the two and is a theorem of `SocialSpec`.) Two of them needed an invariant of their own: `TypeOK` of the status, and
`FriendTypeInv`, which adds to `FriendTypeOK` that every call but the question for the list names
a user, so that no answer puts anything else on a list.

Only model-checked: the liveness properties, since the prover has no ENABLED (the safety half
of `SendingEnds` is a theorem). All other
properties of the passing runs are theorems. Refuted properties have their counterexamples.

## 7. Not modelled

* Cryptography: calls into OpenSSL. An item that cannot be decrypted is a kind of item.
* VersionInfo (read only), QML beyond the guards of user actions, start-up I/O, the mock
  server and the tests.
* NetworkManager: bookmarks, `setProfile` (which nothing calls) and the verification of a server, each one call
  guarded by `isLoading` with no state to race with; the creation of an account;
  `initializeCustom`, which the program's own interface does not use.
* MessageService: receiving chat messages and offers, the change of the account.
* SettingsRepository: bookmarks and server address, per profile and uncached.
* NotificationManager: sound, preview, corner and do-not-disturb, stored switches; toasts.
* AudioManager: seeking, speed, levels and file formats.
* Ids of a second server, which share `m_processedMessageIds` with those of the first.
* FriendService: `loadFriends()` with an HTTP token and no login (`friendservice.cpp:41-43`).
* WebSocketStream: frames of 2^31 bytes and more, whose length the code casts to `int` (the
  theorems speak of the code for frames below that), and bytes
  that a server sends after its close frame, which RFC 6455 forbids.
