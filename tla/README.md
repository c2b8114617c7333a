# Pulse Hub in TLA+

Pulse Hub is an inbox for several WhatsApp sessions: a Next.js dashboard
(`apps/web`), a Go backend (`apps/wa-core`) and an older NestJS backend
(`apps/server`) that the Go one replaces. This directory holds TLA+ models of the
parts whose correctness depends on what runs at the same time or fails half-way,
the TLC configurations that check them on small instances, and TLAPS proofs of the
properties that matter most, for every instance.

    tlc -workers 2 -config MCHubSingle.cfg MCHub     # one run
    tlapm HubProofs.tla                              # one set of proofs

`PROJECT.json` maps every definition to the lines of code it stands for, lists the
runs, and gives for each property a faulty variant of the code that breaks it. The
faulty variants are in the modules, in front of the definition they spoil, marked
`Faulty variant`; no specification uses them.

## 1. The system

Paths are relative to `src/apps/wa-core` unless they begin with `apps/`.

| Part | State it keeps | Operations | Where it is hard |
| --- | --- | --- | --- |
| Realtime hub (`internal/ws/hub.go`) | maps of WebSocket clients and SSE subscribers, a bounded queue per client, a Redis subscription | upgrade, subscribe, Broadcast, read and write pumps, consumeRedis, Close | five kinds of goroutine remove one client; full queues; Redis hands a publish back, repeats it, delays it |
| WhatsApp sessions (`internal/whatsapp/manager.go`) | rows of `app_session`, `Manager.runtimes` with one whatsmeow client each, a connecting flag, the device store | create, connect by QR, disconnect, delete, one handler per connection event, reset, Start | rows are updated by read-change-save without a lock; clients live on after their session; crashes |
| Lock of the manager (`Manager.mu`) | a `sync.RWMutex` | every call takes it one to four times, one handler twice at once | deadlock, writers that starve, a map read while it is written |
| Message ingestion and receipts (`manager.go`, `internal/store/postgres.go`) | rows of `chats` and `messages` | realtime message, history sync, send, reaction, receipt, mark as read | one message arrives by several ways; a chat and its messages are separate statements; rows are listed, receipts sent, then rows marked |
| Contacts, groups, photos (`manager.go`) | rows of `contacts` | contact sync, group names, pictures | a name is replaced by a better one only; two identifiers of one person |
| Authentication (`internal/http/auth.go`, `internal/auth/auth.go`, `internal/http/security.go`) | users, cookie sessions, one-time WebSocket tokens, rate limiter | sign in and out, revoke, change roles | expiry, a token used twice, the last administrator |
| Overview cache (`internal/http/handlers.go`) | one entry with a lifetime of three seconds | fill, invalidate | a fill that began before an invalidation |
| Quick replies, labels, kanban, CRM (`handlers.go`, `postgres.go`) | their tables | create, change, delete, reorder | check, then insert; a deleted label that an edit brings back |
| Paging and merging (`handlers.go`, `postgres.go`) | none | cursors, merging of the rows of one conversation | equal timestamps at the border of a page |
| Instagram publishing (`internal/instagram/client.go`) | none | create a container, poll, publish | retries after a timeout |
| Web dashboard (`apps/web`, nearly all in `components/dashboard-client.tsx`) | per browser: the messages of the open conversation and caches of others, the overview and its pages, drafts, the CRM's lists, the user and his view, toasts and switches, the forms | intervals, timers, effects, the WebSocket and the user all start requests | answers land after the user has gone elsewhere, or after an event that was newer; events are lost while the socket is away; a change is shown first and refused later |
| Legacy server, sessions (`apps/server`, `whatsapp.service.ts` over `engine/*.ts`) | a row per session, a runtime with three intervals (WPPConnect) or a socket (Baileys) | connect, disconnect, the intervals, callbacks that save the row | nothing is locked; every callback reads the row, awaits, and saves a copy |
| Legacy server, conversations (`whatsapp.service.ts`, `whatsapp.store.ts`, `redis.service.ts`) | rows with an unread count, a cached overview | poll, open, mark as read, send, restore | counts computed from a row read before; a cache filled by a reader that is late |

How they meet: requests of the dashboard and events of whatsmeow call the manager;
the manager writes rows through the store and ends most operations with
`hub.Broadcast`, which reaches the browsers of this instance directly and those of
other instances through Redis; the browser applies some events itself and asks the
HTTP API for the rest. The legacy server has no socket; its dashboard polls.

What makes each part correct, in a sentence:

- hub: every queue has one closer, no client that stays misses an event, no client
  holds a broadcast up, nobody gets an event twice on the instance it came from,
  and two broadcasts arrive in their order;
- sessions: the stored status agrees with the sockets once everything is quiet, a
  session has one client, and a connect that failed does not block later ones;
- lock: what it guards is never read while it is written, and every call returns;
- ingestion: no message is lost, each has one row and one notice, whatever way it
  arrives; what is stored as read got its receipt;
- authentication: a token opens one socket, a revoked session opens nothing, an
  administrator is always left;
- cache: nobody reads what was invalid before he asked;
- catalogues: names are unique, a deleted label is on no contact;
- paging: every row is on exactly one page;
- dashboard, messages: the timeline is of the open conversation and comes to show its
  newest messages, no older message is out of reach, and no indicator of loading stays;
- dashboard, lists: pages are complete, the overview and the CRM come to agree with the
  server;
- dashboard, user: what he selects, writes, configures and reads is not changed by an
  answer to something older, and a view that is not for his role is left;
- legacy sessions: whoever polls or is connected can be stopped, and the row says what
  the engine has; legacy conversations: each message is counted and stored once.

## 2. Plan

Done are 1 to 4, 9 and 10. The order is that of importance; each component gets its module,
an MC module with configurations, and a proof module where the properties are
invariants.

1. `Hub`, `MCHub`, `HubProofs`. Next: an abstract event bus (who is a member, what
   each member was owed and got) that Hub implements, with the refinement proved for
   each step.
2. `Sessions`, `MCSessions`, `SessionsProofs`.
3. `ManagerLock`, `MCManagerLock`, `ManagerLockProofs`.
4. `Conversations`, `MCConversations`, `ConversationsProofs`. Next: crashes, display
   names (a better one replaces a worse one), previews and times, which the paging
   sorts by.
5. `Auth`: cookie sessions, WebSocket tokens, the limiter, administrators that
   change each other. To prove: a token is consumed once.
6. `OverviewCache`: fills and invalidations; the age of what is read.
7. `Catalog`: quick replies, labels and CRM tags under concurrent edits.
8. `Paging`: cursors and merging as operators, checked against a reference over all
   small tables.
9. `WppSessions`, `LegacyInbox`, `Baileys`, composed by `MCLegacy`; `WppSessionsProofs` and
   `LegacyProofs`.
10. The dashboard: `Refresher`, the abstract loader; `Timeline`, which implements it, with
    `MCTimeline` and `TimelineProofs`; `ConversationList`, `Crm`, `Workspace`, `Composer`,
    `VirtualList`, `Viewport`, `Alerts` and `Settings`, composed by `MCWeb`, with `WebProofs`.
    Next: `Timeline` composed with an abstract hub.

## 3. What is modelled

### Hub

One action per step another goroutine can see: a critical section of `h.mu` or
`c.mu`, a channel operation, a socket call. The actors are the callers of
`Broadcast` (one per event), `consumeRedis` of each instance, the two pumps of each
client, the SSE handler of each stream, and `Close`.

| Code | Model |
| --- | --- |
| `Hub.clients` / `Hub.subscribers` of all instances | `registered`; `stream` and `HubOf` |
| `client.send`, `client.closed`, the socket | `send`, `closed`, `conn` |
| where a pump stands | `reader`, `writer`, and `writing` for the payload in its hands |
| the snapshot of `emitLocal` still to be served | `pending`, and `rejected` for a client whose `enqueue` has just failed |
| `Broadcast` | `phase`: emit, publish, done or failed |
| Redis | `channel` per instance, `attempts`, `limbo` (timed out, may still arrive) |
| `Close` | `shut`, and `closing` for clients out of the map and not yet closed |

Payloads are names of events. The driver's retries, the loss of a subscription and a
publish that arrives after its timeout are modelled as Redis and go-redis permit them
(`PublishRetry`, `RedisLoss`, `LateArrival`); they are external.
`received`, `offered` and `prior` are history variables.

### Sessions

A task is a goroutine: a request and the Connect goroutine it leaves behind, the
handler of an event, the reader of a QR channel. Its record says what it does
(`op`), where it stands (`step`), what comes after an update (`then`), which client
it holds (`arg`) and which row it has read and not yet saved (`saw`). Every change
of a row is two steps, `Read` and `Save`, as `updateSessionByID` makes them.
A whatsmeow client is its identity (`store`: a device, none, or a nil store), its
socket (`link`), and whether it has logged in (`auth`). whatsmeow itself is external:
it dials again by itself after a pairing and after a lost socket (`Redial`).
`Crash` ends the process at any point and leaves rows and devices; `BootReconnects`
and `BootWaits` are `Manager.Start`. The legacy fields `m.client` and `m.connecting`
are written and never read, and left out. `disturbed` is a history variable: the
sessions whose updates overlapped or failed, or whose client was dialing when the
session was deleted or reset.

### ManagerLock

What calls do under the lock is in `Sessions`; here a call is the sequence of
critical sections it goes through (`Program`), and the lock is Go's `RWMutex` to the
letter: a writer that has announced itself keeps new readers out, waits for those
that are in, and lets all waiting readers in when it leaves. The section "nested" is
`handleHistorySync`, which holds the read lock and calls `clientForSession`.

### Conversations

The chats and messages of one session. A task is the handler of an event or a
request; its record says what it does (`op`), which statement, broadcast or call of
WhatsApp comes next (`step`), for which chat or message (`item`), and what a history
sync has still to go through (`rest`).

| Code | Model |
| --- | --- |
| rows of `chats` | `chats`, a set: a chat is there or not |
| `ack_status` of the rows of `messages` | `ack`, "none" without a row |
| `ensureChatRecord` | `Probe`, `Upsert`, `ChatNew`: the answer of the lookup is in the task's `fresh` |
| `SaveMessageBySession` | `Insert`, `InsertNothing`: a row already, or the foreign key |
| `message.new` | `Announce`; a history sync has one `chat.new` at its end instead |
| `MarkChatReadBySession` of the manager | `MarkRead` lists, `Tell` sends the receipts, `Mark` is the update |
| `UpdateMessageAckBySession` | `Receipt`, in no order |
| `DeleteSessionByID` | `Purge`, one transaction |

A step that fails in the code is `Fails`: a request or an event handler ends, a
history sync goes on with its next item. `notices`, `owed`, `delivered` and `excused`
are history variables. The unread count is left out because nothing in wa-core ever
raises it: `ensureChatRecord` writes back what it read, and no statement adds to it.

### WppSessions, Baileys and LegacyInbox

Node runs one piece of code at a time, so a step is what runs from one await to the
next, and a task is an asynchronous call between two of its awaits. In `WppSessions` a
task that calls back goes through `Read` and `Save`, as `getSessionOrFail` and
`saveSession` do. Runtimes are objects: one nobody can reach (`Reachable`) is used again
for the next. `Tick` is an interval, which does not wait for the last one to end.
WPPConnect and the phone are `phone`, external but for how the engine hears it: `Heard`
has `readConnectionState`, which takes "Disconnected" for a connection. `orphaned` and
`disturbed` are history variables: runtimes that polling and connecting have separated
from the map, and updates of the row that were overtaken.

`LegacyInbox` is one conversation. `appendMessage` is two steps (its SELECT, its UPDATE),
since READ COMMITTED lets another transaction in between. `since`, `raced`, `failed`,
`late` and `stale` are history variables that say what was counted and who has read
before somebody else wrote.

`Baileys` has two state machines of one engine: the sockets, with the reconnection that
waits 1.2 s, and the cached thread of a chat, with the reading that awaits WhatsApp. The
module is not provided by `WhatsappModule`, which binds WPPConnect; it implements the
same interface.

### The dashboard

The browser, too, runs one callback at a time. A step is a handler together with the
effects React runs after it, or one end of a request: a request that is "asked" is on
its way to the server, "answered" on its way back. The server is as much of wa-core as
the answers need. In each module the server's state comes first and the browser's
after it, named as the hooks and refs are (in the comments where the name differs).

| Module | Code | What it is about |
| --- | --- | --- |
| `Refresher` | `loadMessages`, `loadOverview` | the promise of a loader: one request at a time, and who asks meanwhile gets another; `Timeline` keeps it for each conversation (`SingleFlight`), `ConversationList` for the overview (`OverviewJoined`) |
| `Timeline` | `loadMessages`, `loadOlderMessages`, prefetches, the poll, `message.*` events, sends, opening and leaving | which messages are shown, cached, loading |
| `ConversationList` | `loadOverview`, the pages of a session, `markConversationAsRead`, the events that move a conversation | which conversations are listed, with which badge |
| `VirtualList` | `useVirtualList` | which rows of a list are rendered |
| `Workspace` | `login-form.tsx`, the views, `pendingSessionAction`, the selection | who sees which view and which session |
| `Composer` | the composer, its drafts and the search after a slash | what is written, sent, offered |
| `Viewport` | the scroll handlers and the layout effect | the divider, the counter, the position |
| `Crm` | stages, profiles, boards, labels, users, quick replies | a copy that is changed first and refused later |
| `Alerts` | toasts, notifications, the sound | what the user is told |
| `Settings` | sections and dialogs by role, Instagram's form, a user's sessions | what a change of role or a repeated click may do |

`MCWeb` and `MCLegacy` compose modules that share no state: `part` says which of them a
behaviour is of, and the others stand still, so that a run checks each of them in full
and not their product. The bounds named `Worlds` (`Timeline`), `Habits`
(`ConversationList`), `Ways` (`Composer`), `about` (`Crm`), `Subjects` (`Alerts`) and `Topics`
(`Settings`) do the same within a module: they say which kinds of things happen together
in a behaviour, and every kind happens in some.

## 4. Runs

| Run | Instance | What it shows |
| --- | --- | --- |
| `hub_single` | one instance, no Redis, one client, one stream, two events, queues of one, Close | types, ownership of the close, a registered client is served, no gap, no send on a closed channel; and, with fairness, every Broadcast returns, a dead peer is forgotten, Close ends both pumps |
| `hub_cluster` | two instances on Redis, a client on the one that does not broadcast, two events, the first accepted up to twice | order of two broadcasts on another instance, under retries, losses and late arrivals |
| `hub_echo` | two instances, a client on each, one event accepted up to twice | the instance an event comes from delivers it once |
| `sessions` | one session (the default one), one device, two clients, two tasks, all requests and events, statements that fail, crashes | types; the status agrees with the sockets when all is quiet; no client is left behind |
| `sessions_race` | the same requests with no device to pair with, every overlap | the connecting flag is never stranded; a session gets one client |
| `lock` | three goroutines making any of seven calls for ever | no data race; only a stuck history sync keeps a call from returning |
| `lock_history` | the same | violation, see section 7 |
| `conversations` | one chat, a message from outside and one of the user's own, two tasks doing anything, again and again, one deletion, statements that fail | a row is announced once; none stays unknown to the browsers; no message is lost, and the foreign key never loses one |
| `conversations_read` | realtime messages and mark-as-read, no failures | violation, see section 7 |
| `web_timeline` | two conversations, pages of one message, eight worlds: sends; arrivals while another conversation takes the place of the open one; arrivals while the socket is cut; acknowledgements while the view is left; prefetches; recovery of an empty timeline with requests that fail; older pages with requests that fail; older pages of three messages while messages arrive | types; a timeline that is mixed is being replaced; older messages stay within reach; no skeleton or spinner without its request; the newest messages come to be shown; the loader implements `Refresher` |
| `web_lists` | one part of the dashboard at a time: two conversations on pages of one; two calls of the CRM with two items and three changes; two sessions; two chats to write in; four messages and a screen of one; seven rows; two toasts and the switches; two blob URLs, two lists of sessions | types; pages complete; the overview settles; the CRM agrees; selection, views, settings and alerts are kept; drafts, offers, divider, position and rows are kept |
| `legacy` | two runtimes, two calls at a time, one restart; two incoming messages and one sent; two Baileys sockets, threads of three messages and four events | types; who polls or is connected is owned; the row says what the engine has; a message is ingested once; what the unread count and the cache may be wrong about |

Why the bounds are enough for the interesting cases. A queue of one is full after a
single event, so with two events eviction, drop and order all happen, and both
broadcasts can be in `emitLocal` at once. Two acceptances of one event are a retry
and also a late arrival after a failure. Two clients of one session are what a reset
needs (the old one and its successor); two tasks make every pair of overlapping
calls; a chain of a request and its Connect goroutine is one task. Three goroutines
are a reader, a writer and a bystander, the least the stall of the lock needs. Two tasks of
`conversations` are two ways for one message at once (the live copy and the history
sync, a send and its echo), and since tasks begin anew all the time a message meets
any number of copies one after another; one deletion makes rows that are born twice.

In the dashboard two conversations are the one on the screen and one an answer
is late for; a page of one message makes every second message an older one; one event
under way and one failed request at a time are enough for each pair of an answer and
an event, in both orders. Two calls in flight (`Tasks`, `Calls`, `lookups`, `lists`) are the
two that overtake each other. Two toasts known to two held actions are what a text
needs to be shown twice. Four messages on a screen of one, fetched by two, make older
pages that are full, short and empty. In `legacy` a third call adds only a third copy of
what two can do to one row, since a call holds one row at a time.

What the bounds leave out. `sessions` follows a history only until two updates of a
row overlap or a statement fails (`CONSTRAINT Calm`), since after that the code
promises nothing about the status of that session: SettledStatus and OneClient speak of
undisturbed sessions only. That the others are no danger to those is proved
(`StatusIsTracked`, `NoClientLeftBehind`). `sessions_race` has no
device, hence no login and no reset; that ClientKept and FlagHasOwner hold with them
too is what `SessionsProofs` proves. One session and one device leave out that the
default session may take the device of another (`LoadDevice` has the choice).
In `legacy` a history of `WppSessions` is followed until an update is overtaken (`Calm`),
for the same reason; its other parts are followed to the end. `web_lists` has two
sessions; `Workspace` alone also holds with three.
Deadlock is checked in the runs of `Conversations`, where handlers begin anew for
ever, and in no other: messages, events and failures are bounded in those of the dashboard and
the legacy server; clients, streams and events are finite and used
once, and the calls of the lock do come to a standstill.

## 5. Fairness

- `Hub!Fairness`: weak fairness of each goroutine's own steps. A goroutine that can
  run does; `WriteMessage` returns within `websocketWriteTimeout`, a read from a dead
  peer fails within `websocketPongTimeout`, `Publish` has a context of five seconds.
  Nothing is assumed of peers, requests, pings, Redis or the operator.
- `ManagerLock!Fairness`: weak fairness of the steps; strong fairness of `Announce`,
  because writers queue on a `sync.Mutex`, whose starvation mode hands it to the one
  that has waited longest. No call is ever forced to begin.
- `Timeline!Fairness`: weak fairness of `Serve` and `Land`, since the server answers every
  request or the browser fails it, and of `Poll`, the interval of the open conversation.
  The interval runs while the session is active, the page is visible and the view of
  the conversations is open: `CatchesUp` is a claim about such a time. Nothing is assumed
  of the socket, so what is shown does not depend on events.
- `ConversationList!Fairness` (`MCFairness` in `MCWeb`): the same for the overview.
- `Refresher!Spec`: weak fairness of `Finish`. It follows from `Serve` and `Land`, and the run
  checks that with the steps, so a call that was joined is followed by another.
- `Sessions`, `Conversations`, the legacy server and the other parts of the dashboard assume
  none: their properties are safety properties.

## 6. Proofs

All proofs are for any values of the constants under the assumption named in the
module (`HubAssumption`, `SessionsAssumption`, `LockAssumption`, `ConversationsAssumption`,
`TimelineAssumption`, `WppAssumption`, `LegacyAssumption`, `ListAssumption`, `WebAssumption`). These
say that bounds are numbers of
the right kind, that names which are compared are different, and that what is counted is
finite. TLC also finds the inductive invariants of the hub's deliveries, of the dashboard and of
the legacy server to hold on the instances of section 4.

- `HubProofs`. `TypeCorrect`: types and the bounds of the queues. `OneCloser`: a
  client's channel belongs to the map, to Close, or is closed. It is not inductive
  alone: an emission may remove a client from a snapshot, so the snapshot may only
  name clients that were added (`TargetsStarted`), and so for the pumps
  (`PumpsStarted`). `RegisteredServed` is proved on top of these: the write pump
  leaves only after `removeClient` or when its queue was closed, and a client never comes back to the map.
  The deliveries are proved of a client's line: what it has received, what its pump is
  writing, and its queue. `NothingSentOnClosed` is an action property: `enqueue` finds the
  channel open and appends in one step, and every other step leaves a line alone or takes
  from it. `ClientsHaveNoGap` needs in addition (`GapInv`) that a pump holds a payload only while it
  writes (`HandEmpty`) and that a client begins with nothing offered (`FreshClients`). For
  `NoClientHearsEcho`, `EchoBound` counts every copy: those in the line, the one an emission
  still owes the client, and on another instance those in the Redis channel, together no more
  than the calls and Redis have put there. `BroadcastsInOrder` needs `OrderInv`: the order
  holds on the whole way of an event, in the channel, between channel and emission, between
  emission and line, and in the line (`WayInv`), an event that is not broadcast yet is nowhere, and
  only a call that failed can still reach Redis (`CallInv`).
- `SessionsProofs`. The invariant `Inv` is the types, what a task can be at each of
  its steps (`Fine`), and that a client anybody can reach has a session
  (`ClientsOwned`). From it: `SessionsTypeCorrect`; `OneClientEach`, step by step,
  since the only writers of `runtimes` are EnsureClient, the reset, the delete and a
  crash; and `FlagNeverStranded`: each step that raises the flag or moves a task that
  lowers it leaves a task of that session which still has to pass `Unflag` or the
  error return of the QR channel. The statement failures are part of `Next`.
  `StatusIsTracked` and `NoClientLeftBehind` need what an undisturbed session keeps while
  work is under way. Overlapping updates disturb (`Solo`), and a task, its client and the runtime
  agree on whose they are (`Ground`). `CalmInv` then says of each session: the client a
  request has looked up is still the session's (`ClientHeld`); during a delete no socket is up or
  dialing (`DeletedIsCut`); "active" is on its way to the row only while there is a socket
  (`ClaimHolds`); a row that says "active" without one has a task that will take it back
  (`ActiveExplained`); and no client but the runtime's has a socket (`OneClientOf`). A step
  concerns one session (`Within`): for the others nothing changes, and for its own the
  one task that writes (`Alone`) establishes `CalmInv` again.
- `ManagerLockProofs`. `LockTypeCorrect`, and `NoRaceEver` from `LockInv`: a goroutine
  that writes is the announced one, and nobody is counted as a reader meanwhile.
- `ConversationsProofs`. `Inv` is the types, what a task can be at each step (`Fine`),
  and the foreign key (`RowsHaveChats`). `RowsAnnouncedOnce` needs `NoticesPast`: a
  message without a row has no notice, sent or on its way, since the last deletion, so
  the task that inserts the row is the only one to announce it. `RowsGetAnnounced` is
  inductive with `Inv`. `MessagesGetStored` needs `StoreInv`: a task stores only what
  was delivered, so a deletion excuses all of it, and the chat of what it is about to
  insert has its row; a reaction gets that from the row it reacts to.

- `TimelineProofs`. `LoadingIsForALoad` needs that a request which is not out does not spin
  (`IdleInv`). `LoadsAreSingleFlight`: each step of `Timeline` is, for each conversation, a
  step of `Refresher` or a stutter, which is the refinement without its fairness.
  `MixturesHeal` needs that a mixture, unless it strayed in, has the load of the open
  conversation out, whose failure empties the timeline (`MixInv`). `MessagesWithinReach` needs
  `ReachInv`: what is shown of the open conversation, and what a request for older messages
  has asked from, has no gap above it, so that a page lands below the first message and never beside a hole.
- `WppSessionsProofs`. `SessionTypes` needs what a call holds at each await (`TasksHold`).
  `RuntimesAreKept`: before its first poll nobody but a disconnect knows a runtime
  (`StartsAlone`); the check that reports a login has set the runtime's flag, and is the only
  one to report it (`ReadyWord`); the code is not asked for after that (`CodeAsked`).
  `RowSettled` needs `Corrected`: unless it was disturbed, a row that differs from the engine has a
  call in flight that will correct it, one clause for each way to differ (`ActiveRow`,
  `ReadyRow`, `GoneRow`, `ConnectingRow`); and `NoOldCode`.
- `LegacyProofs`. The parts share no state, so the invariant of `MCLegacy` is that of each
  part. Of a conversation (`InboxInv`): a call that has seen the row is of one that is there
  (`Rowed`); a message being taken in has arrived and was noted (`Itemed`); a count exceeds the
  messages by no more than those that were counted, each once (`Bounded`), which is
  why it never outgrows its type; and an overview that differs from the row has a call that is
  about to drop it (`CacheKept`). Of the sockets (`SocketInv`): what a call holds (`JobsHold`);
  the mark of a reconnection stands for exactly one call (`OneRetry`); a service that believes in
  a connection it has not is about to be told by a call in flight (`ToBeTold`). Of a thread
  (`ThreadInv`): no message twice, sorted unless retimed, and a count above what is unread; its lemmas
  `Places` and `PlacesTaken` show that the places of a stable sort are a permutation
  (`ResortedIsSorted`), for threads of any length.
- `WebProofs`. A step of one part leaves the others as they are, so `WebInv` is an invariant
  for each part. From it: `WebTypes`, `PagesAreComplete`, `CrmIsTheServers`, `FrameIsKept`,
  `ScreenIsKept`.
  - Lists: what the pages lack is behind the cursor, or its event is coming; an
    answer under way, joined with what is there, keeps that (`PagesInv`).
  - CRM: a call that nobody crossed brings what the server has, or puts back what it had
    (`CallHolds`, `Converges`).
  - Frame: an answer has what is shown if it still exists (`AnswerHas`), and a session about to
    be made is unknown to everybody (`NewIsNew`).
  - Timeline on the screen: until newer messages come the divider counts the unread ones
    (`MarkerCounts`); the position is kept
    while older messages are awaited, and the lock goes with it (`PositionAwaited`,
    `LockExplained`). Rows: the position never exceeds the last one (`VirtualInv`), which
    with an overscan of at least one row covers the window.
  - Composer: drafts are stored under their own conversation (`StoredOwn`) and the composer on the
    screen sends one thing at a time (`OneHere`); the last search asks for what is written, and is current unless an
    event is to come (`LastSearch`).
  - Settings: a form that was posted and does not say so has lost the answer (`Posted`); while one list is asked for at a time and none is lost, a session shown too long has
    its revocation to be answered or another list coming (`ListsKnown`).
  - Alerts: toasts have identities of their own, each has its timer (`Timed`), and a text is shown twice only
    when an action held an old list (`TwiceWhenStale`, `HeldKnown`); the switches are stored as they are and on only where
    the browser permits it (`Permitted`).

  `OverviewIsSingleFlight`: each step of the overview is a step of `Refresher` or a stutter
  (`OverviewJoined`, which no run checks: it is proved without one).

What the proofs found about the models, none of which the small instances had shown. In
`Timeline`, a message that comes after the load of its page had left it out, and lands below
the first one shown, makes `loadOlderMessages` ask from there and step over the messages in between: a gap
in OlderReachable that needs three messages. It is now one of the exceptions (`Late`, which
sets `misled`), and a world of three messages was added to the run. In `LegacyInbox` the type invariant
had a conjunct that bound as an implication and left the row's type out; and UnreadKept turned
out to hold at every moment, where it was stated for moments of rest.

Only model-checked. All liveness: `BroadcastReturns`, `DeadPeerForgotten`, `CloseEndsPumps`,
`OnlyHistoryStalls`, `CatchesUp`, `ListSettles`, and the fairness part of SingleFlight. Fairness is
a statement about ENABLED, which is out of the prover's reach. Every invariant and every action
property of a passing run is a theorem.

## 7. Where code and documentation disagree

- `lock_history`: `handleHistorySync` (`internal/whatsapp/manager.go:1682-1684`) holds
  `m.mu.RLock` and calls `clientForSession`, which takes it again. A connect, delete or
  reset that asks for the lock in between waits for the first acquisition, and the
  second waits for it. Every later call of the manager joins them.
- `conversations_read`: `MarkChatReadBySession` (`manager.go:1317-1349`) sends receipts
  for the messages it listed, and `postgres.go:1955-1959` then marks every incoming row
  of the chat. A message saved in between counts as read from then on, and its sender
  never gets a receipt, against "read receipts" in `README.md:24`.

Seen while modelling and not made into a run, as nothing in the repository promises
otherwise: after a logout the row keeps its device, so the next client has a nil
store and no QR code is offered until the session is deleted; the default session
takes the first device in the store, also that of another session; `Start` leaves rows
in `qr_ready` as they are; when `GetDevice` fails, a session gets a client with a new
device; `CreateOrUpdateSession` uses the row it reads back without a nil check; two
connects can both pass the connecting check, and the loser marks a connected session
as `error`; an SSE stream that is full drops events without a trace; a WebSocket client
added after `Close` is never closed; a failed `MarkRead` is logged and the rows are
marked all the same; receipts are handled in goroutines of their own, so a status can go
back from read to delivered, and a receipt that comes before its row changes nothing;
the preview and the time of a chat are those of the message saved last, also when a
history sync brings an older one; a group event that names an unknown chat makes its
row without `chat.new`; `chats.unread_count` stays zero; an event that was taken from
whatsmeow and not yet saved is lost when the process ends.

In the sessions of wa-core, against sentences of the dashboard but not kept as runs:
`InitSession` (`manager.go:243-248`) takes a socket for a login, so that a second connect
request while the QR code is on the screen sets the session to `active`, which the
dashboard shows as Online with nobody logged in; `DeleteSessionByID` (`manager.go:323`)
disconnects only a client that is connected, so that one that is dialing comes up after
the delete and its events make `updateSessionByID` create the row again; connected and
disconnected are handled in goroutines of their own and may be handled in the other order.

In the dashboard (lines of `dashboard-client.tsx`). Each of these is why a property has its
exception, and the exception is a history variable that says when:

- messages: the response to a send lands in the timeline that is open by then, of
  another conversation too, until the next load (3307-3338); a failing load of an
  earlier conversation clears the timeline (2584-2588); opening a conversation whose
  silent load is out leaves its spinner on; an older page of another conversation
  overwrites `hasOlderMessages` (3142-3149), and one that overtakes a reload leaves a hole; a
  load answered before an event removes the message of the event until the next poll;
- lists: the pages of a session are never loaded again, so a conversation whose event was
  lost stays away; a first page that fails is asked for again at once, in a loop; every
  overview clears the badges the browser has counted, the server's counts being zero;
- frame: making a session joins a load that may have begun before, and another session
  stays selected; removing the selected one overrides a choice made meanwhile; a
  sign-out whose request fails leaves the cookie valid;
- CRM: a refusal, a late answer or a lost event brings back what had been changed
  meanwhile; removing a board sets the list of its closure; a stored custom board is
  reset before the boards are there (1560-1581); the reload of the quick replies ignores the search;
- composer: a draft that is being sent comes back after a switch; what is written less
  than 220 ms before leaving is lost; a sticker clears the text unsent; a file dropped
  during an upload is cleared unsent; a late reload replaces the offers;
- viewport: the divider moves down with each message; a message that comes before the
  older page uses up the position; the lock stays after a page that failed or was empty;
- alerts: a permission given in the browser's settings makes the switch turn itself off
  again while a toast says it is on (1301-1312, 1506-1510); a switch closes and reopens the
  socket (2985), and events are lost; two held actions show a text twice;
- settings: a lost answer and a retry publish twice; of two lists of sessions the older may land last
  and show a revoked session again.

In the legacy server: a disconnect or a second connect during start-session leaves
intervals nobody can stop; `onQr` and `onAuthenticated` that come late overwrite `active`; a
token that cannot be made leaves the row in `initializing`; "Disconnected" is read as
connected (`wppconnect.engine.ts:524`); a restored chat counts a message again when it is
polled; `appendMessage` and `loadConversationMessages` save a count that was read before;
the overview is cached by a reader that is late, and `markConversationAsRead` compares with
an old count; a new runtime forgets which messages it has seen. In the Baileys engine a
late close takes the next socket out of the map, a disconnect during the 1.2 s of a
reconnection does nothing, two connects leave a socket nobody can end, a message that
comes again counts as unread again, and a reading clears what came meanwhile.

Hazards no property covers, besides those of `PROJECT.json` that have a note: a login that
is left after a logout, the default session's choice of a device, and messages that are
being handled when the process ends, all three in `manager.go` and described above.

## 8. What is not modelled, and why

- Next in the order of section 2: authentication of wa-core, its overview cache, catalogues
  and paging, and Instagram publishing on the server. The browser's side of the sign-in
  and of the publishing is in `Workspace` and `Settings`.
- Of the dashboard: search and filters, the forms, drag and drop, the recording of
  audio, the preview and download of media, `quick-replies.tsx` (markup and text), the
  two badges of a conversation as two numbers (the pages count again what the overview
  has counted, and nothing corrects them), and who is typing.
- Of the legacy server: names and pictures of contacts, the parsing of WPPConnect's and
  WhatsApp's answers, the schema, login and dashboard of `apps/server`, which read seeded records.
- The text of SQL statements, migrations, the audit trail, configuration, logging:
  no property is about them.
- `internal/models`, generated and vendored files, styles, translations and the
  rendering of the dashboard: data declarations and presentation without state.
- What an event says, message bodies, media, JSON: payloads are names.
- whatsmeow, go-redis, Postgres and Redis: modelled only as their callers meet them,
  and marked external in the map.
