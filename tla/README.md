# cucoudle: specification and verification

cucoudle lets a phone watch and steer the coding agents that run in terminals on
a computer. This directory holds TLA+ models of the parts of it that exchange
messages and keep state, TLC configurations that check them on small instances,
and proofs, checked by TLAPS, of theorems about them for every instance.

## The system

```
 shim (terminal) ──unix socket──► daemon ──websocket──► relay ◄──websocket── phone
   ipc.py, shim_template.py        daemon.py             state.ts             mobileClient.ts
                                   registry.py           handlers.ts          connectionCoordinator.ts
                                   session.py (pty)      app.ts               createMobileRuntime.ts
                                   render.py                                  sessionReducer.ts
                                   interactions.py                            screens
                                   relay_client.py
```

| part | state it keeps | operations | talks to |
| --- | --- | --- | --- |
| Relay broker (`apps/relay/src`) | `desktops`, `pairings`, `mobileSessions`, `links`, `pending`; all in memory | register, create a code, pair, resume, forward a request, route its response, time it out, fan out events, socket closes | daemons and phones |
| Session registry (`registry.py`) | entries with status, bounded output buffer, active interaction; one output counter | create, record output, mark running, waiting, ended, remove, `subscribe_view` | called by the daemon |
| Daemon (`daemon.py`) | shim writers, decoders, timers of rendering and of detection, paired devices | shim frames, output, detection, requests of phones, control commands, start, shutdown | shims, ptys, relay client |
| Relay client (`relay_client.py`) | websocket, registered flag, pending requests | connect with backoff, register, send events, answer requests, step down | relay |
| Interactions (`interactions.py`) | none: detection and the binding of options to bytes | classify the end of the output | daemon |
| PTY session (`session.py`) | master fd, process, exited | start, read, write, resize, signal, reap | operating system |
| Renderer (`render.py`) | emulator screen, styled history, lines consumed, frame number | feed, take a frame, snapshot | daemon |
| Protocol client (`mobileClient.ts`) | socket, connection state, pending requests | connect, close, request, dispatch of responses and events | relay |
| Coordinator (`connectionCoordinator.ts`) | status, profile, timer, run version, transport flags | start, retry, synchronise, failure, reconnect | protocol client, reducer |
| Runtime (`createMobileRuntime.ts`, `AppProvider.tsx`) | sessions being subscribed, session opened last, profile shown, routes | bootstrap, pair, save and clear a profile, open a session, send input, respond | coordinator, client, storage |
| Pairing (`pairing/`, `PairingScreen.tsx`) | the stored profile, one submission per screen | read, replace, clear; scan and submit | runtime, secure storage |
| Session state (`sessionReducer.ts`, `terminalBuffer.ts`, `renderBuffer.ts`) | sessions, terminals, frames, interactions, open session, activity | one reducer action per change | screens |
| Action zones (`StructuredActionZone.tsx`, in a card of the inbox and on the session screen) | phase, pending reference | show, submit, be given another interaction; dismiss a card | runtime, reducer |

How they interact: the daemon is one asyncio loop and the relay and the phone
one JavaScript loop each, so code between two awaits is atomic and everything
else interleaves. Requests go phone → relay → daemon and their responses back,
matched by id; events go daemon → relay → every linked phone. No message is ever
sent again: what a closing websocket loses is lost, and the phone makes up for it
by resuming, listing and subscribing.

What is hard in it, and what makes each part correct:

- **Relay.** Timers, answers and closes compete for the same pending request; a
  daemon may replace another; codes and tokens expire. Correct means that a
  request is settled once and its answer goes to the phone that asked, that only
  granted phones are linked and hear a desktop, and that a code is traded for one
  token, once, in time.
- **Registry.** A bounded buffer, numbered by a counter that all sessions share.
  Correct means that a phone that asks for what follows `afterSeq` gets all of it
  or a snapshot, never a part.
- **Daemon and phone.** Events are sent by tasks of their own, and responses
  overtake them; connections end at any time; the coordinator drops events until
  it is online; the user opens sessions meanwhile. Correct means that a terminal
  shows outputs once, in order and, after a view and as long as nothing is lost,
  without a gap; that list, status and interaction end up as the daemon has
  them; and that a synchronisation ends.
- **Interactions.** Answers race detection, each other, the terminal and the exit.
  Correct means that an interaction is answered at most once, that its keys do
  what was chosen, and that cards and screen agree when all is quiet.
- **Coordinator and app.** Runs of synchronisation, the timer, retries, refusals, new
  profiles and storage calls overlap. Correct means that one thing at a time
  drives the phone to the profile it holds, that online is said of that profile
  only, that one computer is stored, shown and served, and that the app never
  says for ever that it is connecting.
- **Action zones.** Two zones show the same interaction, drawing lags behind the
  reducer, answers come late or never. Correct means that a zone answers what it
  shows at most once, that none says "sending" for ever, and that a dismissal or
  an old answer does not take the next prompt's card away.
- **Daemon start and shutdown.** Two daemons share one socket path and one desktop
  id. Correct means that one is left and that it is reachable.
- **Renderer.** Frames and snapshots consume the same history. Correct means that
  frames after a snapshot continue it.

## Modules

| module | role | models |
| --- | --- | --- |
| `Relay` | component | `state.ts`, `handlers.ts`, `app.ts` |
| `PairingLedger` | abstract specification | what pairing promises |
| `RelayLedger` | refinement | `Relay` implements `PairingLedger` |
| `RelayProofs`, `RelayLedgerProofs` | theorems | |
| `SessionRegistry` | component | `registry.py`, the session handlers of `daemon.py` |
| `PhoneState` | component | `sessionReducer.ts`, `terminalBuffer.ts` |
| `SessionSync` | composition | the two, with `relay_client.py`, `connectionCoordinator.ts`, `openSession` |
| `Transcript` | abstract specification | what a remote terminal promises |
| `Interactions` | component | detection, `interaction.respond`, input and exit in `daemon.py`; `session.py`, `interactions.py` |
| `PromptProgram` | environment | the program in the pty and its prompts |
| `ConnectionCoordinator` | component, and the specification `MobileApp` implements | `connectionCoordinator.ts` on `mobileClient.ts` |
| `MobileApp` | composition | `AppProvider.tsx`, `createMobileRuntime.ts`, `PairingScreen.tsx`, `pairing/` around the coordinator |
| `ActionCards` | component | `StructuredActionZone.tsx`, `AttentionCard.tsx`, `InboxScreen.tsx`, `SessionScreen.tsx`, `inboxSelectors.ts` |
| `RegistryProofs`, `SyncProofs`, `ChannelProofs`, `InteractionsProofs`, `CoordinatorProofs`, `CardsProofs` | theorems | |
| `MCRelay`, `MCSessionRegistry`, `MCSessionSync`, `MCInteractions`, `MCMobileApp`, `MCActionCards` | instances for TLC | |

### Relay

One variable per map of `RelayState`, in the code's names, `socket` for the state
of each websocket (handlers drop what they send to one that is not open), `now`
for `Date.now`, and `out`, the messages the last handler sent. `inbox`, `ackedAs`
and `outcome` are what the clients know: the requests a daemon still has to
answer, the desktop id it was told it is registered under, and how each request
ended for its phone. `grants` is history: every token issued.

Each action is a whole handler; the methods of `RelayState` that change its maps are
operators of the same names. `DesktopRegister` closes the socket it replaces;
`DesktopClose` settles the requests of the desktop id that socket still owns, if
it owns one; `Forward` refuses, or enters the request in the pending table, where
`DesktopResponse`, `RequestTimeout`, `DesktopClose` and `MobileClose` compete for
it; `RelayRestart` forgets everything. The clients are as well behaved as the
code's: a phone pairs or resumes once per socket and does not reuse its own
request ids; a daemon answers a request at most once, in any order, or never.

The refinement of `PairingLedger` reads the offers of a desktop off `pairings`
and the tokens granted off the `grants` of this run of the relay.

### SessionRegistry

`status`, `buffer`, `active` per session, the shared counter `seq`, and `events`,
the tasks `_emit` has created and the loop has not run yet. An output chunk is
its number. `Launch` and `Announce` are the two sides of the `drain` in
`_handle_shim`, `LaunchFails` and `Cleanup` those of the one in its error path
(it yields only when the shim is slow or closing, so that window is short).
`Detect` is `_detect_interaction` when it finds a new prompt, with the
`_resolve_interaction` of the old one inside it; `Resolve` is an answer, a cancel
or a detection that finds nothing. `written` is history: all output.

`Mode` and `SubscribeView` are `subscribe_view` case by case.

### PhoneState, SessionSync

`PhoneState` has one operator per reducer action. `SessionSync` adds `toPhone` and
`toDaemon`, ordered channels over both websockets, and the coordinator:

- `phase` is its status, with `resyncing` split by what it waits for: `listing`,
  `subscribing`. `away` is the time until the reconnect timer has connected and
  resumed; `recovery` waits for the user.
- `SendEvent` runs the oldest task of `_emit`; `HandleRequest` answers in the
  receive loop. The two are separate steps, so responses overtake events.
- `DaemonDrop` and `DaemonCrash` cut the daemon's websocket: any suffix of what was
  sent is lost, and the relay rejects the requests in flight. `DaemonRegister`
  tells every session again, as `on_relay_registered` does.
- `Disconnect` and `Retry` end the phone's socket. A retry replaces the socket, so
  the close of the old one rejects no pending request and `opening`, the set
  `subscribingSessionIds`, keeps its sessions. What is on its way on the old
  socket is taken to be lost.
- `ReceivePushed`, `ReceiveList`, `ReceiveSync`, `ReceiveOpened` and `ReceiveError`
  are the arrivals; `OpenSession` is the user's.

`intact` and `skipped` are history, for properties that hold while nothing was
lost or dropped: the sessions the phone has had a view of since the last loss,
and those whose events arrived too early since the last list.

The refinement maps the `view` of `Transcript` to the text the phone shows.

### PromptProgram, Interactions

One session in full detail of its prompts; `SessionRegistry` has the same
interactions with all sessions and without the screen. `PromptProgram` is the
program, which the repository only meets through the pty: it shows a prompt,
reads the keys in `input`, redraws, goes on without an answer, exits. `screen` is
what it shows and `seen` what the daemon has read of it; `dirty` is output in
between. Two prompts may have one signature.

`ReadOutput` is `_on_readable` with `_on_output`: it takes all there is and arms
`timer`. `Detect` is `_detect_interaction`, with the old interaction superseded and
the new one registered in the same step; `asked` keeps, for each id, the prompt it
was made from, whose `cursor` is the one the bytes of its options count from.
`Respond` is an accepted `interaction.respond`: refusals change nothing. It clears
`active` before it writes; a text is followed by an element of `enters`, the
Enters that `_submit_enter` has scheduled. `Type` and `InputText` are the terminal
and `session.input`. `NoticeExit` is `_finalize` with `_on_exit`; until it runs, what
is written to a program that has exited is lost.

Any phone may answer any interaction at any time, which covers delays, second
phones and repeated requests; what it may answer with is what
`StructuredActionZone` offers, a cancel, and an option without bytes. `typed` bounds
the terminal. `keys`, `taken`, `events` and `replies` are history.

A menu opens with its cursor on any option, and the bytes of an option are the
arrows from there. What is typed is echoed behind a prompt for a line: a question is
then not found (`_detect_text` looks at the end of the line), an approval or a
numbered list is, with another text and so another signature (`Detectable`,
`Signature`). The option a menu has selected is no part of its signature, so that
a detection after the cursor moved keeps the old bytes: `AnswersTaken` speaks of
answers that no key from elsewhere disturbs.

Abstracted: what text is a prompt. The code looks for patterns in the last line or
on the rendered screen; here a prompt on the screen is found. The two delays, 60
and 200 ms, may expire in any order. A write to a program that lives does not
fail.

### ConnectionCoordinator, MobileApp

`ConnectionCoordinator` has the variables of `createMobileClient` (`socket`,
`state`, `asked` for the requests of the app: `orphan` once the socket they went
out on was replaced, `stranded` once that one has closed) and of the coordinator
(`status`, `profile`, `timer`, `transport`, `run`). An action is one event of
JavaScript with all that follows in the same turn: `SocketCloses` rejects the
pending requests, tells the connection listener, which schedules, and fails the
run that was waiting. `Synchronize` is the part of `synchronize` before its first
await; `run` is the run with the latest `runVersion` and the answer it awaits (an
older run does nothing any more: it compares versions after every await). `StartNone` leaves the run of before to go on, as the code does,
for `runVersion` is not increased: `onmessage` looks neither at the socket nor at
the state, so an answer that comes before the close event counts (`Awaits`), the
next request of the run is dropped by the closing socket (`sent`), and the last
answer makes the app `online` without a computer, on a socket that is closing or
closed (`OnlineServesProfile`). Retry is offered in every status, as Settings
does. `linked` is history: whom the current socket has resumed. `caps` is whose
capabilities the app holds; an answer may leave them out.

`MobileApp` adds `ops`, the calls of the secure storage that have not returned, in
order, each with the code that awaits it; the navigation `stack` and
`exitRecovery`, which follow the status (`FollowStatus`); and the submissions of
pairing screens, `flow`, with the sockets of the one `pairingClient` they share.
`Submit` needs the screen's own `pairingInProgress` to be free, so that a new
screen can submit beside an old one; `IdentityReady` connects, superseding the
connect of another, whose `finally` closes the new socket. `Kill` restarts the app,
and some of the storage calls under way have taken effect. Storage may fail to
read, write and delete. `crossed` is history: a delete was issued behind a save
that had not returned, or the storage failed; `OneActiveUnlessCrossed` is about the
time before.

Assumed of the platform: a socket that is closing does not open, messages are
delivered until the close event, a connecting socket opens or closes. Assumed of
React: a screen is drawn again before a lost connection is back, so that the app
asks for nothing by what it drew while it was online before (`Ask`).

### ActionCards

One session, two `Places` that show its prompt. `known`, `card` and `dismissed` are
the reducer's; `seen` is what the screens were drawn with last, and `zone` the
phase, the phase that was drawn, and `pendingRef`. `Render` draws: a zone that is
new is mounted, one that is given another interaction *object* shows it (`fresh`;
the wire makes a new object each time, be it the same interaction), and the card of
the inbox is another one when its key changes. The effect that resets a zone for
its new object (`useEffect` on `interaction`) is a step of its own, `Effects`, for the
zones in `due`: a tap, a message or a lost connection may come between, and only
the next drawing has to wait for it. A tap acts on what was
drawn (`CanSubmit`). `asked` are the responses the client awaits, each with the
place that sent it, and whether that zone still stands. `Settle` is the rest of
`submit` after its await: it sets the phase of whatever the zone shows by then.

`net` and `linked` are the two connections, `PhoneLost` and `DaemonLost` their ends.
`Retry`, in every status as Settings offers it, and the reconnection timer after a
failed run (`RunFails`, `TimerFires`) replace the phone's websocket (`Replace`): what is
on its way on the old one goes on until the next one has resumed (`Reconnects`),
and then its responses are `adrift` and `openSession` is `stuck`, until a connection is
lost. `TimesOut` is the relay's. The daemon's part is as coarse as a card allows:
`Prompts`, `Withdraws`, `Touched`, `Exits` change status, time and interaction and
tell of it; `Handles` takes the requests. `sent`, `hasty`, `replied`, `crossed` and
`ignored` are history, since a zone was mounted: how often it was used for the
object it shows, whether once before its effect, for what it was used at all,
whether it got another object with a response on its way, and which interactions
were dismissed.

Assumed: structured interactions are negotiated, both sockets keep their order,
two changes never have the same microsecond, events are sent in the order they
are emitted and at once (`SessionSync` has the tasks between), a websocket that is
replaced has closed by the time the next one has resumed, and the subscription of
`openSession` is not given up by the relay. The composer and a
choice's free text go through the same `submit`, as one tap.

## Runs

Every run takes about three minutes at most with two workers. Deadlock is not
checked: the bounds stop every model.

| run | instance | shows |
| --- | --- | --- |
| `relay_requests` | 2 daemon sockets, 2 phones with ids of their own, 1 desktop | `TypeOK`, `RegisteredIsReachable`, `RequestAccounting`, `RoutedToOriginator`, `SettledOnce`; with fairness `RequestsSettle` |
| `relay_pairing` | 2 desktops, daemon sockets, phones, devices, codes, tokens; 1 tick, 1 restart | `EventsOnlyToGranted`, `LinksAuthorized`, `RefinesLedger` |
| `registry` | 2 sessions, buffers of 2, 3 outputs, 2 interactions, 1 restart | `BufferIsRecent`, `ViewsAreComplete`, `WaitingHasInteraction` |
| `sync_output` | 1 session, buffer and text of 2, 3 outputs, 1 loss on each side, 1 crash | `TypeOK`, `TranscriptOrdered`, `NoGapSinceView`, `RefinesTranscript`; with fairness `ResyncEndsUnlessGone` |
| `sync_interactions` | 1 session, 1 output, 2 interactions, 2 reconnections of the phone, 1 loss of the daemon's | `CurrentSinceView` |
| `sync_list` | 2 sessions without output, 1 loss on each side | `ListCurrentUnlessSkipped`, `OnlyResyncReopens`, `OpeningIsOnItsWay` |
| `mobile_app` | 2 computers, 2 submissions, 1 request, 4 acts of the user or kills, 1 fault | `AppTypeOK`, `OneDriver`, `OnlineServesProfile`, `OneActiveUnlessCrossed`, `OnlyUserStrands`; with fairness `ConnectionSettles` |
| `cards` | 2 prompts, 3 taps, outputs, retries or faults | `CardsTypeOK`, `OneAnswerPerShowing`, `SubmittingIsSettled`, `UndismissedIsShown`, `OwnUnlessInFlight` |
| `interactions` | a menu of 2 options, a question and an approval, 2 prompts, 2 interactions, 2 replies, 1 key or text typed | `TypeOK`, `EventsTellActive`, `RepliesOnce`, `SettledAgree`, `AnswersTaken`; with fairness `AnswerCloses`, `QuietPromptIsOffered` |

Runs that are expected to fail, each a statement of the repository the code does
not keep:

| run | statement | what happens |
| --- | --- | --- |
| `relay_shared_ids` | responses go back to the originating phone (`docs/protocol-contracts.md:653`, `:979`) | an id is free again after a timeout or a close, and the late answer meets another phone's request |
| `interactions_newer` | stale responses are rejected rather than sent to a newer prompt (MVP design `:90`) | until the detection of the newer prompt, 200 ms after its output, the answer to the older one is accepted and typed into the newer |
| `mobile_stranded` | pending requests are rejected for certain when the connection is lost (`docs/FINAL_IMPLEMENTATION.md:29`) | Retry, offered while online, replaces the socket; the close of the old one is not that of the current one and rejects nothing (`mobileClient.ts:96`) |

More disagreements were read off the code and have no run. Events that arrive
between the list and the end of a synchronisation are dropped, so the list of a
phone that stays online is stale (`connectionCoordinator.test.ts:129`;
`ListCurrentUnlessSkipped` states the rest). A session opened while the
coordinator subscribes another is replaced by it (`AppProvider.test.tsx:380`;
`OnlyResyncReopens` states the rest). A prompt whose answer is not read yet may be
offered again, under a new id, by a detection that was armed before, so that two
phones answer it and the second answer goes to the prompt after it (the MVP
design's "exactly once", `:302`; `RepliesOnce` holds per id). Events
`interaction.*` go to every linked phone, negotiated or not (`handlers.ts:120`,
against `docs/protocol-contracts.md:213`). A session whose opening a retry
interrupted stays in `subscribingSessionIds`, so that opening it again while
online sends nothing (`AppProvider.test.tsx:306`); `OpeningIsOnItsWay` states what
holds apart from that. The requests of a daemon that a newer connection has
replaced are not rejected when it closes (`docs/protocol-contracts.md:989`): they
time out (`RequestsSettle`). `SESSION_NOT_FOUND` of the open session is treated as
a lost connection and resynchronised for ever (mobile design `:235`);
`ResyncEndsUnlessGone` states the rest. What `mobile_stranded` shows leaves a zone
"sending" until the next loss of a connection; `OnlyUserStrands` and
`SubmittingIsSettled` say when that cannot be. The entries of a replay carry no
event name (`docs/protocol-contracts.md:435`), so the reducer ignores them, and
the plain text of a terminal misses them; the terminal itself is restored by the
snapshot of its screen that every answer to a subscription carries
(`registry.py:226`, `sessionReducer.ts:286`), which `SessionScreen` prefers and no
module models. A refused profile whose deletion is issued while a pairing screen
saves another one deletes the new one (the mobile design's one active computer,
`:68`; `OneActiveUnlessCrossed`). An answer that comes when the zone shows the
next prompt marks that one as answered or failed, with its buttons disabled
(`OwnUnlessInFlight`). A response of unknown fate is to stay blocked until the
next interaction object (`docs/PROGRESS.md:445`): the card of the inbox is another
one as soon as `lastActivityAt` changes, a view that was taken before the response
gives the zone of the session screen a new object, and a tap between the drawing
of an object and its effect is undone by the effect: each accepts a second
response (`OneAnswerPerShowing` bounds the last). The card of a stopped session that
was dismissed comes back with the next list, because `session.ended` carries no
`lastActivityAt`. Interactions that ended while the phone was away stay on the
cards of sessions that are not open.

### Bounds

All are constants, and all bound the environment, not a state the code could be
stuck in: numbers of outputs, interactions, reconnections, restarts, ticks. Two
of a kind are enough to confuse one with the other: two phones with one id, two
daemons on one desktop, an old and a new code, two sessions sharing the counter.
Three outputs fill a buffer of two and evict, which reaches the three modes of a
subscription and both sides of each boundary. `MaxQueue` makes the daemon wait
when its queue of tasks, or the channel to the phone, is long; two entries are
what a response needs to overtake an event and leave another behind. Sessions
are symmetric, as are all sets of `relay_pairing`; runs with temporal properties
under fairness use no symmetry. In `mobile_app`, four acts suffice for two
submissions of which one is made on another screen, with a retry or a clearing
between; one fault fails a run, a socket or the storage at any point. In `cards`,
three events are a tap on each zone and a lost connection or a retry between, two
taps and an output that re-keys the card, or one tap before an effect, one after it
and one more that must not count; the second prompt takes the first one's place
at any point of that.

### Fairness

`Relay!Fairness`: a timer that was set fires unless it is cleared, and a socket
that is closing gets its close event; no client has to do anything.
`SessionSync!Fairness`: tasks of the daemon's loop run, requests and messages on a
connection that stays up are handled, and the timer of `scheduleReconnect`
fires. Nothing brings a daemon back, opens a session, or retries for the user.
`MobileApp!AppFairness`: the storage answers, the reconnect timer fires, a socket that
is connecting opens (or closes) and one that is closing closes, and the relay
answers the requests of a run, at the latest with its timeout. The user has to do
nothing, and nothing keeps the connection from failing again.
`Interactions!Fairness`: output is read, an exit is noticed and the delayed Enter is
written, as the loop does; the debounce timer fires if output stays away, which is
weaker than fairness of `Detect`, because a program that never stops drawing does
postpone it for ever; a program reads the keys it is sent.

## Proofs

TLAPS proves, for all values of the constants that meet the assumptions:

- `RelayProofs!TypeCorrect` (`TypeOK`): The relay's maps and the clients' books keep their types for every number of sockets, ids, codes and tokens.
- `RelayProofs!NoSilentSupersession` (`RegisteredIsReachable`): A daemon that was told it is registered, on an open socket, is the one the phones reach.
- `RelayProofs!LinksAreAuthorized` (`LinksAuthorized`): Every link of an open phone stems from a grant of this run of the relay to its device for its desktop.
- `RelayProofs!RequestsAccountedFor` (`RequestAccounting`): The pending table and the requests the phones wait for agree in every state.
- `RelayProofs!RequestsSettleOnce` (`SettledOnce`): No request is settled twice, whatever the order of answers, timeouts and closes.
- `RelayProofs!AnswersReturnToSender` (`RoutedToOriginator`): If no two phones share a request id, a response reaches the phone that sent the request.
- `RelayProofs!EventsStayPrivate` (`EventsOnlyToGranted`): Events reach only phones that hold a grant for the desktop id of the daemon that emitted them.
- `RelayLedgerProofs!RelayImplementsLedger` (`RefinesLedger`): Every behaviour of the relay is a behaviour of the pairing ledger.
- `RegistryProofs!RegistryTyped`: Sessions, buffers and the queue of events keep their types.
- `RegistryProofs!BufferRecent` (`BufferIsRecent`): For every buffer size a session's buffer is the longest suffix of its output that fits.
- `RegistryProofs!ViewsComplete` (`ViewsAreComplete`): From every afterSeq, a live or replayed subscription leaves no output of the session out, however the sessions share the counter.
- `RegistryProofs!Waiting` (`WaitingHasInteraction`): A session waits exactly while an interaction is active in it.
- `SyncProofs!SyncTyped` (`TypeOK`): The phone, the daemon and both channels keep their types under every loss, restart and retry.
- `SyncProofs!Ordered` (`TranscriptOrdered`): The phone's terminal shows outputs of its session, in order, each once, and remembers the last.
- `SyncProofs!TerminalImplementsTranscript` (`RefinesTranscript`): Every behaviour of phone, daemon and connection is, seen through the terminal, a behaviour of Transcript.
- `SyncProofs!Reopening` (`OnlyResyncReopens`): Only the user, the answer to what was opened last and a resynchronisation change the open session.
- `ChannelProofs!OpeningAwaited` (`OpeningIsOnItsWay`): A session that is being opened, and cannot be opened again until it has an answer, has its request or its answer on the way, through any loss, restart and refusal.
- `ChannelProofs!NoGap` (`NoGapSinceView`): Since a view of a session, and until a connection is lost, the phone's terminal is a stretch of the session's output without a hole, although responses overtake events.
- `ChannelProofs!ListCurrent` (`ListCurrentUnlessSkipped`): Once everything sent has arrived, the phone's list has the status of every session announced, but for sessions of which the coordinator dropped an event.
- `ChannelProofs!Current` (`CurrentSinceView`): Of a session viewed since the last loss the phone has, once everything sent has arrived, the last output, the status and the interaction.
- `InteractionsProofs!InteractionsTyped` (`TypeOK`): Screens, keys, interactions, events and replies keep their types, for any number of options.
- `InteractionsProofs!TellsActive` (`EventsTellActive`): Requests and resolutions alternate under ids never used before, and the one that is not resolved is the active interaction.
- `InteractionsProofs!AnsweredOnce` (`RepliesOnce`): No interaction is answered twice, and the phones are told answered or cancelled exactly of those that were.
- `InteractionsProofs!SettledAgrees` (`SettledAgree`): Once nothing is left to happen the active interaction is the one of the prompt on the screen, and a prompt without one was left open by a reply.
- `InteractionsProofs!AnswerIsTaken` (`AnswersTaken`): An answer that reaches the prompt it was given to, and shares it with no key from elsewhere, closes it with the option chosen or with one line of text, for a menu of any length, whichever option it opened on.
- `CoordinatorProofs!AppTyped` (`AppTypeOK`): Storage, routes and operations of the app keep their types, next to the coordinator's.
- `CoordinatorProofs!OneActive` (`OneActiveUnlessCrossed`): The profile the coordinator serves is the one stored and shown, and none is left behind when it serves none, as long as no delete was issued behind a save and the storage has not failed.
- `CoordinatorProofs!Driver` (`OneDriver`): While the phone tells its user that it is connecting to a profile, exactly one of a run and the timer is there to do it, for any number of profiles and requests.
- `CoordinatorProofs!Online` (`OnlineServesProfile`): Online with a computer, the current socket is open, has resumed the profile the coordinator holds, and nothing is about to replace it; online without one, after a start(null) that a last answer overtook, the socket is closing or closed.
- `CoordinatorProofs!Stranded` (`OnlyUserStrands`): No request of the app is left behind on a replaced socket unless its user retried or paired a computer: the reconnection timer never runs over one.
- `CardsProofs!CardsTyped` (`CardsTypeOK`): Session, list, zones, dismissals and awaited responses keep their types, for any number of prompts and taps.
- `CardsProofs!ResponsesSettle` (`SubmittingIsSettled`): A zone that is submitting awaits a response, and every response the client awaits is on its way or its answer is, whatever connections were lost and whenever the user retried; a response that Retry or the reconnection timer left on a websocket that has closed is named as the exception.
- `CardsProofs!UndismissedShown` (`UndismissedIsShown`): Once everything sent has arrived and is drawn, a prompt the session waits with has its card in the inbox unless the user dismissed the card of that very prompt.
- `CardsProofs!AnsweredOnce` (`OneAnswerPerShowing`): A zone sends one response for the object it is shown, or two when the first tap came between the drawing and its effect, and never a third, for any number of prompts and taps.
- `CardsProofs!UsedZones` (`OwnUnlessInFlight`): Once its effect has run, a zone that takes no answer was used for the interaction it shows, or was given it while its response was on its way.

They assume of the constants what the modules state by `ASSUME`: phones and
daemons use different sockets, `None` is none of the values it is compared with,
buffers hold at least one chunk, the set of sessions is finite. The bounds are
arbitrary numbers in the proofs, and the sets of sockets, ids and sessions have
any size. `AnswersReturnToSender` has one hypothesis more, `IdsAreGlobal`, that no
two phones draw the same request id; without it the run `relay_shared_ids` shows
the statement false.

How the arguments go:

- **Relay.** Types first. `RequestAccounting` (an entry of the pending table belongs to
  a phone that waits for it and is linked to that desktop, and a waiting request
  has an entry) becomes inductive with `NewIsIdle`: a phone sends nothing before
  its websocket is connected. That `LinksAuthorized` gives each phone one desktop
  makes the entry unique, so taking it before anything is sent, which every
  handler does, keeps the books (`TakingKeepsAccounts`). `SettledOnce` and
  `RoutedToOriginator` are read off the steps under that invariant.
  `LinksAuthorized` holds because a token is stored only with its grant, and
  events reach only links. For the ledger, each handler leaves codes and grants
  alone (`LedgerStutters`), or removes or adds what one action of the ledger does.
- **Registry.** `BufferIsRecent` is proved in a pointwise form, `Window`, that Append
  and Tail are easily followed through, with `Rising`: seqs grow within a session
  and none is above the counter. The second is what makes the boundary of
  `subscribe_view` right although other sessions take numbers in between: what is
  newer than `afterSeq >= earliest - 1` lies in the window
  (`ModesAreComplete`). Both hold only of sessions that have started, so the
  invariant, `BufferInv`, also says that the others have nothing.
- **Phone and daemon.** `TranscriptOrdered` is not inductive, since anything may be in
  the channels. `SyncInv` gives the channels sharper types: an output event carries
  an output of its session (`SoundEvent`), a snapshot is a stretch of the history
  (`SoundView`), and both stay so while histories grow (`SoundGrows`). Nothing has
  to be said of the order of what is in the channels: the phone's own test of
  `seq` (`AppendKeeps`) restores the order whatever overtakes what. The refinement
  follows step by step: an output is `Write`, an event the phone takes is `Show`, a
  snapshot is `Replace`, everything else leaves the transcript alone.
- **What is on its way.** The properties of a phone that has heard everything say
  nothing of the moments before, so `ChannelInv` says for every moment what is
  still due. `Way` is what will reach the phone in that order: the channel, then the
  events the daemon has not sent. `Says` states that who knows one value and then
  hears the way is left with another: they agree and nothing about it comes, or the
  last telling on the way is right. `Lists` and `Carries` do the same for the
  listing of a session and for its outputs. `Due` then says of everybody who may
  start from something that the way completes it: of a list in the channel
  (`ListsDue`), of a view in it (`ViewsDue`), of what the phone knows (`KnownDue`), and
  of the sessions viewed since the last loss (`IntactDue`), each from its own place
  on the way. Responses are not delayed behind events, so a view may have passed
  events that are older than it: they say what is no longer so, but `Told` has the
  last of them right (`QueueAgrees`), and outputs come in the order they were written
  (`InOrder`). `Asked` has the eras: a view of an earlier connection of the daemon comes
  before those of this one and promises less. That a coordinator that waits has one
  request or one answer under way, and nothing else has (`Alone`), gives
  `OpeningAwaited` by itself and is what makes a list or a view meet the phone in the
  state it was asked from. A registry step is reduced to what it tells (`Tells`,
  `ActsKeep`); each message the phone receives, to a way that is longer, has one answer
  more, or is without its first.
- **Interactions.** Only three kinds of step tell the phones anything
  (`StepsThatTell`), which makes `EventsTellActive` inductive: the parity of the
  number of events says whether something is active. From it follows that the end
  of what is active was never told (`ActiveIsOpen`), which is why a reply to it is
  the first (`RepliesInv`, the same statement for ids never asked as well).
  `SettledAgree` looks at the end of a race only; `AgreeInv` follows the race: what
  was read is what the screen shows unless there is more output, a detection
  that has run has made the interaction of what was read, and an answer since then
  leaves keys on the way, which will cause output, or leaves the prompt open. For
  `AnswersTaken`, `WayInv` follows the keys: whoever has sent one was answered with
  something to write (`Senders`), so that what is active has sent none
  (`ActiveIsSilent`); until it has read a key, a prompt has the cursor its interaction
  was made with (`Origins`), so that an answer which has its prompt to itself was
  counted from where the cursor is, whichever option the menu opened on; and the rest of such an answer is in
  the pty, in one piece for a menu, as far from Enter as the cursor is from the option
  (`MenuWay`), and for a line the text once and first (`LineWay`). Keys of others may
  lie around it (`MenuWayKept`, `LineWayKept`), and reading a key brings cursor and
  Enter one closer to it (`MenuWayGoesOn`).
- **Coordinator.** `OnlineServesProfile` and `Quiet`, that a request of the app is in
  flight only between runs and with no timer set, are inductive together with three facts about the parts: `Wired`, that the
  client's state, its socket and the stage of the run agree; `Driven`, that the run
  is for the profile held, except the one `start(null)` left behind, whose socket
  is closing and which may still end online, and that a busy status has a run or a timer, never both; `Resumed`,
  that a run past its resume has resumed its own profile. What begins a run is
  always the same (`Synchronized`). `OneDriver` follows, and `OnlyUserStrands` is read off
  the steps (`Stranding`): the timer finds no request in flight, because of `Quiet`.
- **App.** `AppStep` and `AppCoordinates`, lemmas, show that `MobileApp` implements
  `ConnectionCoordinator`, step by step; all they need of the app is that calls of
  the storage and submissions carry profiles (`OpsOK`, `FlowOK`), so that a profile
  that was read or saved is one the coordinator may start. The properties of the
  coordinator then hold in the app (`AppConnected`). For `OneActiveUnlessCrossed`,
  `ActiveInv` says what the calls of the storage that have not returned will do: the
  profile in use is stored and shown (`Served`), a delete is issued when the profile
  has been given up and behind no save (`DeletesLast`), and one that was given up
  stays stored until its delete is done (`Cleared`). It holds until a delete is
  issued behind a save or the storage fails (`crossed`), which is what the property
  excepts. The types rest on `Greatest`, that a nonempty set of numbers below a bound
  has a greatest one: it follows from the library's well-founded inclusion of finite
  sets and needs no induction of its own.
- **Action zones.** `AnsweredOnce` holds because `pendingRef` is set by the response to
  a showing and cleared only by the effect on another object (`PendingMarks`); the
  phase that is drawn is not enough, it lags. An effect that is due may undo one
  response (`Early`), and is not due a second time before the next object. For `UsedZones`
  the invariant looks at the phase behind the drawn one and at responses still on
  their way, and ties the drawn interaction to the reducer's as long as no new
  object has come (`UsedForItsOwn`): a late answer then sets the phase of a zone that
  sent it for what it shows, or that has crossed. `SubmittingIsSettled` comes
  from the order of the phone's socket: what the client awaits is in one of the two
  channels (`OnItsWay`) or adrift (`Settling`), a connection that ends takes the channels
  and what is awaited together, one that is replaced sets it adrift, and what stays in
  a channel stays on its way (`StaysOnItsWay`). The types need that a zone has sent
  no more than was spent.
  `UndismissedIsShown` needs that one request of a run, or its answer, is on its way
  at a time (`OneRun`), so that no answer of a run is taken for that of another, that
  the last telling on the way agrees with the daemon
  (`Current`), and that the time a waiting session carries is of one prompt only
  (`Stamped`), the daemon's, the phone's and those on the wire alike: the key of a
  dismissal is that time, and it must not hide a later prompt.
Every invariant and every safety property of a step that a passing run checks is
stated by one of these theorems. `ChannelInv`, the largest of the inductive
invariants, was checked by TLC on the instances of its module before it was proved.

Only model-checked: liveness (`RequestsSettle`, `ResyncEndsUnlessGone`,
`AnswerCloses`, `QuietPromptIsOffered`, `ConnectionSettles`). It holds under fairness,
whose proof needs ENABLED, which is beyond the prover. Their safety halves are
proved where they have one: a request that is being waited for has an entry that a
timer will take (`RequestAccounting`), a session that is being opened has its request
or its answer on the way (`OpeningAwaited`), and a coordinator that is busy has a run
or a timer (`Driver`).

## Not modelled

- Prompt detection on text, the terminal emulator, schema validation and the
  validation of pairing payloads, logging: functions of strings, for which an
  enumeration of a few inputs would say little.
- On the phone: the composer (its draft and its attempts), the terminal views, the
  session list with its filters, the activity list, rendered frames, settings but
  for retry and forgetting the computer, and all wording and layout.
- The installer, the command line and deployment: sequential, no shared state but
  the start of the daemon.
- Rendering of frames, the control socket, and start, shutdown and stepping down
  of the daemon: planned.

The components of `PROJECT.json` say so of each part.

## Plan

Done, in this order: `Relay`, its ledger and their proofs; `SessionRegistry`,
`PhoneState`, `SessionSync` and `Transcript`; `PromptProgram` and `Interactions`;
`ConnectionCoordinator` and `MobileApp`; `ActionCards`; the proofs of each.
Next:

1. `DaemonStart`: probe, unlink, bind, register, step down and shut down, of two
   daemons over one socket path and one desktop id.
2. `RenderHistory`: frames, snapshots and the bounded history between them.
3. The composer: a draft, an attempt per text, and what a failed send leaves.
4. Framing of the Unix socket (`ipc.py`) as functions over bounded inputs.
5. Presence: pairing and main sockets of a phone and the daemon's list of devices.

To prove next: what the new modules of this plan promise, one daemon per socket
first; and steps from which the liveness properties follow, such as that an answer on
its way is brought closer to its prompt by every key that is read
(`MenuWayGoesOn` has it for menus).
