# TLA+ models of the group-study platform

The platform gives study groups permanent *rooms*. A room has members, a chat, and meetings; a
meeting has a LiveKit call and a shared whiteboard. The backend (NestJS, `src/backend`) runs as
several instances over one MongoDB (without transactions), one Redis and one LiveKit server; the
frontend (Next.js, `src/frontend`) talks to it over HTTP and Socket.IO. Almost everything that can
go wrong here goes wrong *between* two awaits: each handler is a chain of separate commands to
Mongo, Redis and LiveKit, any number of handlers run at once on any instance, and any command may
fail. That is what these models are about: **one action per awaited command**, all interleavings,
failures between any two of them.

Contents: 1 the system, 2 the modules, 3 the runs, 4 fairness, 5 what the code and its documents
disagree on, 6 the proofs, 7 what is only model-checked, 8 what is not modelled, 9 the plan.

## 1. The system

| component | state it keeps | operations | how it meets the others |
|---|---|---|---|
| whiteboard (server), `modules/whiteboard` | Redis: hash `wb:{id}`, `wb:seq`, `wb:alive`, `wb:persist-lock`, `wb:closed`; Mongo: `whiteboards` | `applyOps` (one Lua script), background save, `finalizeBoard`, snapshot | called by the gateway for each batch and by `endMeeting` |
| whiteboard (client), `useWhiteboardSync.ts`, the gateway's `meeting:join`, `wb:ops` | versions already sent or received, the scene, the socket and its join | send changed elements, merge remote ones, reload on reconnection, renewal of the token | Socket.IO; every client's batches meet in the server's merge |
| meeting lifecycle, `meetings.service.ts` | Mongo: `meetings`; LiveKit rooms; `meetingCount` | start, join, end by host, `room_finished`, self-healing, dissolution | calls LiveKit, the whiteboard; called by rooms and by the webhook |
| participants and presence, the same service | Mongo: `meeting_participants` with sessions per `sid`; Redis set `presence:{id}`; peak and totals | `onParticipantJoined/Left`, `finalize`, `removeFromActiveMeeting` | driven by LiveKit webhooks, which are repeated until answered |
| rooms and members, `rooms.service.ts` | Mongo: `rooms` (with `memberCount`), `room_members` | create, join, add, kick, leave, dissolve | evicts sockets through the publisher, people through meetings |
| gateway and publisher, `modules/realtime` | the channels of Socket.IO, over the Redis adapter | `room:subscribe`, `chat:send`, `meeting:join`, `wb:ops`, revocations | checks membership, calls chat and whiteboard |
| chat, `chat.service.ts`, `useRoomChat.ts` | Mongo: `messages`, `files`; Redis `chat:seq`; `messageCount` of a meeting; the list on the page | send, list, upload | published to the channel of the room |
| sessions, `auth.service.ts`, `auth.context.tsx` | Mongo: hashed refresh tokens; the cookie of each browser | login, refresh (rotation with 10 s of grace), logout, change of password | all tabs share the cookie |
| accounts, `users.service.ts`, `auth.service.ts` | Mongo: `users` with three unique indexes | register, password check, Google sign-in and link, change of password | an answer begins a session |
| files, `chat.service.ts`, the S3 adapter, `useRoomChat.ts`, `RoomChat.tsx` | Mongo: `files`; objects in S3; the composer | presigned upload, completion, a message with a file | bytes go to S3 past the backend |
| pages, `features/*` of the frontend | what each page has loaded, asks and offers; the access token of the tab | join a meeting, load a room, its dialogs, lists, search, forms | HTTP; the token of `auth.context.tsx` |
| bootstrap, AI assistant, infrastructure | | | not modelled, section 8 |

What makes each hard, and what makes it correct:

* **whiteboard** - saves are read-then-write and may be arbitrarily slow, the lock that keeps them
  apart expires, several finalizations may run. Correct: a saved copy is a real board under its own
  sequence number, never goes back, is the last board before the live one is deleted; the counter
  of visible elements kept by increments is exact.
* **meetings** - four ways to end a meeting, each in several steps and each repeated after a
  failure, racing with starts and with the dissolution of the room. Correct: one meeting at a time,
  the first end stands, self-healing never ends a meeting with a live call, an ended meeting gets
  its figures.
* **presence** - events come one at a time, but an event whose answer is late is sent again while
  its first handler still runs; kicks and the end of the meeting run beside it. Correct: presence
  is who is in the call, the figures are those of the sessions.
* **rooms, gateway** - counts are kept by `$inc` beside the documents; a removal has to reach
  sockets on every instance. Correct: the counts follow the documents, removed users' sockets leave
  the channel.
* **chat** - a message may be sent twice and its sender may stop between storing, counting and
  publishing it. Correct: stored once, published once, counted once; a page that reconnects misses
  nothing.
* **whiteboard, client** - sockets come and go while batches, publications and a snapshot are on
  their way in any order, and the page decides by a version number what it still has to send.
  Correct: at rest everybody has the server's board, and what was drawn has arrived.
* **files** - anyone may make the three calls in any order and repeat them, and the socket may be
  another one when an upload ends. Correct: a message points at a file that is there.
* **accounts** - look-ups and inserts are separate commands. Correct: one account per person.
* **pages** - requests overlap, nothing orders their answers, tokens change under them. Correct: a
  page never waits for nothing, does not forget its user's own work, shows the latest answer.
* **sessions** - two tabs rotate the same cookie, answers arrive in any order. Correct: one live
  token per session, nobody logged out by his other tab.

`PROJECT.json` lists these hazards with the line at which each one bites.

## 2. The modules

| module | what it is | code |
|---|---|---|
| `WbMerge` | the merge script as pure operators: which elements of a batch win, the counter's change, the limits | `whiteboard.lua.ts`, `element.validator.ts` |
| `BoardStore` | *abstract*: a log of boards and a durable copy that moves forward along it | what `whiteboard.service.ts` promises |
| `Whiteboard` | one board in Redis and Mongo, saves, finalizations, expiry of keys | `whiteboard.service.ts` |
| `RoomLifecycle` | *abstract*: one meeting at a time, ends once, settled after its end | what `meetings.service.ts` promises |
| `Meetings` | the meetings of one room over Mongo and LiveKit | `meetings.service.ts` 90-320, 400-430 |
| `Presence` | participants, sessions, presence and figures of one meeting over LiveKit's event queue | `meetings.service.ts` 185-400, the webhook controller |
| `Rooms` | one room, its members and count, the sockets in its channel | `rooms.service.ts`, `room-access.service.ts`, publisher, gateway |
| `Chat` (extends `Rooms`) | messages, their publication and count, what pages show | `chat.service.ts`, gateway, `useRoomChat.ts` |
| `RefreshTokens` | the refresh tokens of one account and the cookies of its browsers | `auth.service.ts`, `auth.controller.ts`, `auth.context.tsx` |
| `WbSync` (uses `WbMerge`) | the clients of one board: scenes, sent versions, sockets, join, batches and publications | `useWhiteboardSync.ts`, `meeting.gateway.ts`, `realtime-publisher.service.ts` |
| `Files` | attachments: documents, objects, messages that point at them, the composer of one page | `chat.service.ts`, the S3 adapter, `useRoomChat.ts`, `RoomChat.tsx` |
| `Accounts` (uses `AuthContext`) | `users` and the requests about them; the login, register and settings pages | `users.service.ts`, `auth.service.ts`, the forms |
| `AuthContext` | the access token of one tab | `auth.context.tsx` |
| `MeetingPage` (extends `AuthContext`) | joins of one meeting's page, its call and its dialogs | `MeetingWorkspace.tsx` and its parts |
| `RoomPage` (extends `AuthContext`) | loads, dialogs and requests of one room's page | `RoomView.tsx` and its parts |
| `RoomLists` (extends `AuthContext`) | the paged list of rooms, the dashboard, the search for users | `RoomListView.tsx`, `DashboardView.tsx`, `InviteDialog.tsx`, `listMyRooms` |
| `Web` | all pages under the router | the `app` directory |
| `MC*` | instances for TLC | |
| `*_proofs` | theorems and their proofs; `Web_proofs` has those of `Files`, `Accounts`, `AuthContext` and the pages | |

How a module corresponds to the code: a variable is a document, a key, a connection or the program
counter and locals of a running handler (`at`/`pc`/`step` says what it does next); an action is one
awaited command with the code up to the next one, and is named after the function or the command.
A condition in a query (`{ status: ACTIVE }`, `$lt: seq`, a unique index) is part of the action of
that command, for Mongo applies it atomically. `updateOne` with `upsert` is *not* one action: it is
a match and an insert, and `MatchDocument`, `InsertDocument`, `RetryUpdate` are separate. Variables
marked *ghost* exist for properties only.

Choices in each model worth knowing:

* `WbMerge`, `Whiteboard`: an element is its version, nonce and deleted flag; the 5,000 and 20,000
  element limits are `MaxAlive` and `MaxTotal`. A batch is atomic, as the Lua script is. A save
  reads the hash and the sequence in one MULTI, the lock may expire at any moment. With
  `Expiry = TRUE` the 24 h TTLs run out, at any time: more than the real clock allows. A finalization
  that fails is over (`finalizeBoard` and `closeBoard` log the error and return): the ghost
  `abandoned` remembers it.
* `Meetings`: LiveKit closes a call when everybody has left, may be told to close it, and may die
  without a word (bounded by `MaxLost`). The statistics of an ended meeting are one step here;
  `Presence` has the detail.
* `Presence`: LiveKit's queue delivers one event at a time, but an answer that is late (`TimeOut`)
  lets the next delivery start beside the first handler. A second tab has the same identity, so
  LiveKit drops the first one. An end that failed after `EndMeeting` had set the status leaves the
  call up until it is repeated; a kick then finds no ACTIVE meeting (`FindActive`) and drops nobody.
  `KickedLeavesCall` therefore speaks of a running meeting, and of an ended one in which nothing
  failed: with two requests (`MaxRequests = 2`) TLC has the counterexample to more than that.
* `Rooms`: the code of a room is known to its members only, so nobody joins before the host's own
  document exists. `socketsLeave` is published in Redis and carried out by each instance later
  (`leaving`). What kicking and dissolving do to a meeting stands between two of the steps here and
  is modelled in `Presence` and `Meetings`. The role table is fixed in the code: the host is the
  user who created the room, and only he may add, kick and dissolve.
* `WbSync`: a batch is applied in one step, as the script is; what saves and finalizations do with
  the board is the matter of `Whiteboard`. A message of a socket that has gone may still arrive. An
  element of a type that is never sent (`LocalOnly`) is kept to show that it stays where it is.
  A removal is three things at three times: the membership goes (`DeleteMember`), and later the
  message that takes the user's sockets out of the channel arrives (`Evict`), or it is never sent
  (`LoseEviction`: the count, the look-up of the meeting or the publication failed; the errors are
  swallowed, and a second kick is a 404). Publishing and arriving are one step: only the arrival has
  an effect. Until it the removed member's batches and publications go on; a page that is evicted
  between joining and reading still gets its snapshot. That he joins the room again by its code is
  not modelled. When Excalidraw throws on a batch, the page tries each element by itself
  (`useWhiteboardSync.ts:92-104`): `Outcomes` has every subset that may be left out.
* `Files`: size and MIME type are one *shape*; `Accepted` are the shapes the limits allow. `api`
  makes any legal call at any time, for the three calls are open to whoever has a token. A signed
  URL stays good after the confirmation, so the object may be written again; S3 takes what the
  signature fixes, the type and the length, and the content is not told apart beyond them.
* `Accounts`: a Google identity has one e-mail (`EmailOf`) and a base for its username (`BaseOf`).
  `ensureUniqueUsername` tries one name per step. Three unique indexes decide an insert.
* `MeetingPage`, `RoomPage`, `RoomLists`: a page mounts afresh when it is entered, and what it asked
  before it was left may still be answered. The server of `RoomPage` is a count of changes for each
  thing loaded; a load is three requests, each read at its own moment, and the ghost `begun` keeps what
  the user had done when each load began. What the page says without having asked (`Pretend`, no
  token) and the filter `removedMembers` are apart from what is drawn. `RoomLists` fetches page by
  page with skip and limit while memberships change. `InviteDialog` keeps users and error in two
  states, `result` and `searchError`: typing clears both, an answer sets its own and leaves the other.
* `Web`: the pages share the access token only, which each of them extends; so a behaviour is about
  one page, chosen at the start, and the run checks them side by side without their product.
* `Chat`: a message is its `clientMsgId`; refusals because of a tag or a file are a choice. A page
  subscribes and asks for the history at the same moment; both take several steps. Everything is
  handed to sockets through Redis. A history is read whole; the code reads the last 50 messages.
  The ghost `cut` holds the messages whose send failed after they were stored.
* `RefreshTokens`: a token is its hash; passing time is the single step after which a rotated token
  is out of its ten seconds of grace, and only when no running request still carries it.

## 3. The runs

Each takes under four minutes with two workers. Bounds are constants of the modules, in the guards
of the actions that count (`MaxOps`, `MaxFailures`, `MaxLost`, `MaxRequests`, `MaxTimeouts`,
`MaxFaults`, `MaxEdits`, `MaxLoads`, ...) or the sizes of sets (`Tokens`, `Meetings`, `Calls`).

| run | question | instance |
|---|---|---|
| `wb_counts` | are the counter and the limits exact for batches that hide, show, add and replace, and does Mongo ever go back, also when keys expire? | 3 ids, batches of up to 2, room for 1 visible and 2 stored, 3 batches, 1 save, 1 finalization, expiry |
| `wb_safety` | saves, finalizations and failures racing: is the saved copy right, is the store implemented, does every accepted batch reach Mongo, unless a finalization fails? | 1 id, 2 batches, 2 saves, 2 finalizations, 1 failure |
| `meetings` | the four ends racing with starts and dissolution; is each meeting counted once; when all is quiet, does an ended meeting have figures and a dissolved room no meeting? | 2 meetings, 2 requests, 1 webhook, 1 failure, 1 loss |
| `presence` | presence, peak and figures with two tabs, a request, and repeated events | 2 users, 3 connections, 2 handlers, 1 request, 1 fault of any kind |
| `presence_redelivery` | *violated*: is a repeated event harmless for presence? | 1 connection, 1 late answer |
| `tokens_safety` | rotation by tabs of two browsers | 2 browsers, 2 requests, 4 tokens, 1 failure |
| `tokens_password` | *violated*: is the current session kept by a change of password? | 1 browser, 3 tokens |
| `chat_safety` | counts, eviction, one publication | host and guest, 1 socket, 2 requests or sends at once, 1 message, 1 failure |
| `chat_reconnect` | *violated*: does a reconnection lose nothing? | the same, no failure, one thing at a time |
| `sync` | do all clients end on the server's board, does what they draw arrive, and is a removed member soon out of the channel? | 2 clients, 1 shared and 1 local element, 2 edits, 2 sockets of one client, 1 removal with its eviction later or lost, 1 fault |
| `sync_tie` | *violated*: is a local change that wins a tie kept to be sent? | 2 clients, 1 element, 2 edits, no fault |
| `web` | the pages under any order of answers, failures and changes of the token | 2 tokens; 1 file, 2 sends, 2 calls, 1 fault; 4 joins; 2 loads, 2 changes of the room; 2 rooms on pages of 1, 3 runs, 2 queries; 2 e-mails, 2 identities, 3 requests |

Why the bounds are enough. Every hazard here is a race of two or three chains of commands over one
document or key: two saves and a finalization, two ends of a meeting, two tabs, two requests about
one user, an event and its repetition, two loads of one page. Each run has that many of each, and
enough data to tell the outcomes apart: three board values, so that a version can win, lose by nonce
and delete; limits of one and two, so that they are reached; two tabs of one user, so that "somebody
still in" differs from "this one"; two rooms on pages of one, so that a list has a second page and an
end. One failure at any point of any chain is the unit in which the code recovers. In `presence` the
one fault is of a kind TLC chooses: a failed handler, a late answer or a lost event. The theorems of
section 6 then lift every invariant of these runs to all sizes. `CHECK_DEADLOCK FALSE` stands where the system may really
come to rest: all meetings ended, all tokens drawn, all connections used, a page left.

Things that must happen in the end are stated in two ways. `AcceptedReachesMongo`, `WorkArrives` and
`RemovedIsOut` are temporal. `EndedIsTallied`, `DissolvedRoomEnds`, `KickedLeavesCall`, `EndedIsSettled`,
`CookieIsCurrent` and `Converged` are about states at rest: no handler runs, nothing is queued. Such
an invariant needs no fairness and fails just when a chain can end without having done its work.

Each property of a passing run has a mutant in `PROJECT.json`, a plausible bug (a dropped guard, a
lost retry, a flag not set) kept beside the definition it changes, that breaks it under the same
configuration.

## 4. Fairness

`FairSpec` of `Whiteboard` (run `wb_safety`): every step of a save or finalization that is running is
eventually taken (Node runs the continuation of an await), and the meeting is ended at least once
(`FirstFinalize`: LiveKit closes the empty room and its webhook calls `endMeeting`). A finalization
that has failed is *not* repeated: `finalizeBoard` and `closeBoard` swallow the error,
`endMeeting` succeeds and the webhook is answered 200. So `AcceptedReachesMongo` says: each accepted
batch is in the end in Mongo for good, or a finalization was abandoned and the batch is for good on the
board in Redis (no key expires in this run).
That a batch triggers a save is not fair either, for most lose the lock.

`FairSpec` of `WbSync` (run `sync`): a client's flush, which a timer calls, its connecting and its join
go on, Socket.IO connects again by itself, messages arrive or are dropped with their socket, and a
`socketsLeave` whose sending did not fail arrives (`Evict`). Nobody has to edit, and no fault has to
happen. All other runs use none.

## 5. What the code and its documents disagree on

1. **Repeated `participant_joined`** (`presence_redelivery`, `meetings.service.ts:378`). The
   comment at line 187 and `meeting_module_spec.md:239` say that every step is idempotent and a
   repetition while the first handler runs is safe. A first handler stalled before its `SADD` adds
   the user after `participant_left` has removed him. The sessions in Mongo do stay right, which
   `SessionsSurviveRedelivery` shows in `presence`.
2. **Change of password** (`tokens_password`, `auth.service.ts:213`). ADR-027 and the comment at
   line 191 say that the current session is kept. When another tab refreshes during the bcrypt
   calls, the spared token has been rotated and its heir is revoked.
3. **Reconnection of the chat** (`chat_reconnect`, `useRoomChat.ts:111`). ADR-006 says that a lost
   connection loses no data because of a resync by `seq`. Nobody reads `seq`; the page reads the
   history while its subscription is being checked, and a message between the two is missed. The
   whiteboard's handler joins first and reads then.

4. **A tie on the whiteboard** (`sync_tie`, `useWhiteboardSync.ts:116`). The comment at line 113 says
   that an element in local work is kept in order to be sent. When a remote copy of the same version
   comes and the local one wins by its nonce, the page keeps it and notes the version as sent: it is
   never sent, and the author alone sees it, also after a reconnection. `Converged` in `sync` says
   what is left: `behind` marks such elements until a newer version of them comes.

More was met on the way and has no run, because no document says what should happen.

* `whiteboard_sync_spec.md:309` says that `wb:seq` never starts again from 1; the flag `wb:closed`
  lives 24 hours (`whiteboard.service.ts:155`), so in `Whiteboard` with `Expiry = TRUE` batches are
  accepted again and `FinalCopyStands` fails once the new sequence has passed the saved `lastSeq`;
  `wb_safety` and the theorem `FinalCorrect` therefore speak of the life of the keys.
* A `room:subscribe` that was checked before its user was removed joins the channel after the
  eviction has been carried out: `slipped` in `Rooms` marks such sockets, and `late` in `WbSync`
  those of `meeting:join`; `RevokedSocketsLeave` and `RemovedIsOut` are about all others. When the
  eviction was never sent (`LoseEviction`), a removed member's socket stays in the channel for as long
  as it is open, and draws; `RemovedIsOut` excuses it (`rooms.service.ts:338`,
  `meetings.service.ts:212`). A reconnection is refused in each case.
* When the finalization of a meeting fails, the board stays in Redis for the life of its keys and is
  lost with them, but for what a save had written before. `whiteboard_sync_spec.md:151,192` accepts
  it: log, keep the keys, the meeting ends.
* A send that fails after storing its message is answered with an error, and the resend finds the
  message and publishes nothing (`meeting.gateway.ts:135`): others see it with their next history.
  `StoredIsPublishedOnce` is exact for all messages but these (`cut`).
* Two concurrent changes of a password are both checked against the old one. `linkGoogleAccount`
  overwrites an identity an account already has. When another tab sets the first password,
  `SettingsView` still shows the form without the current one and cannot succeed.
* An answer to a refresh that arrives after a logout signs the tab in again, and one after a login
  replaces its token (`auth.context.tsx:150`).
* Text typed while a file uploads is erased with it (`RoomChat.tsx:48`). Files whose message is never
  sent stay in S3 and in `files`.
* Without a token the handlers of `RoomView` report success and do nothing (`RoomView.tsx:219`).
  `removedMembers` hides a user for as long as the page lives, also when he is invited again
  (`MembersTab.tsx:26`, `RoomView.tsx:64,210`). Nothing orders the answers of two loads: the earlier
  one's may come last and stays drawn until the next load. `OwnWorkIsShown` says what it has at least,
  all that the user had done on this page when that load began, and that there always is a load that
  began after all he has done; it does not say that the latest answer is the one drawn. An
  older answer of `listMeetings` may show a meeting that has ended; `MeetingsTab` hands the id of a
  meeting to `onEndMeeting`, which ends the running one; a notification closes whatever dialog is
  open. `DashboardView` and `RoomView` do not mark answers of an effect that is over.
* Blanks typed around a query in `InviteDialog` take the result away and start no search (line 90);
  the dialog says that it searches, for ever, and `SearchGoesOn` excuses it. A renewed token repeats a
  search (line 59); if the first run of the query failed and the second succeeds, the error stays in
  front of the users found (line 101) until a key is pressed, and `SearchIsLatest` excuses it.
* Lists by skip and limit miss or repeat a room when memberships change between two pages
  (`rooms.service.ts:159`); `LatestAnswerShown` says a list is whole if none did.
* `isJoining` of `MeetingWorkspace` decides nothing.

## 6. The proofs

TLAPS checks these for every value of the constants that satisfies the named assumptions of the
modules (finite sets of calls, users, ids; bounds that are naturals; null values outside the sets
they stand beside). No fairness and no bound on sizes is used.

* `WbMerge_proofs`. What the script does to any board: `MergeCounts` (the increments give the new
  number of visible elements; the difficulty is that one batch hides, shows and replaces, so the
  sets of losers, hidden and shown are taken apart and counted), `MergeMonotone`, and the theorem
  `MergeCommutes`: two batches in either order give one board, if version and nonce identify an
  element's content. That is the assumption under which last-writer-wins converges.
* `Whiteboard_proofs`. `TypeCorrect`, `AliveCorrect` from `CountInv`: the counter is the number of
  visible elements, and is deleted with the hash. `SavedCorrect`, `KeysCorrect`, `FinalCorrect` and
  `Refinement` need `SaveInv`: what a process has read is a board of the history under its number
  (`ReadInv`), the live board is the last of the history (`LiveInv`), and a finalization past its
  save, with the flag set, has left the last board in Mongo (`FinalInv`, `DoneInv`). It is not
  enough that *it* has written: another save may have written first and made its guard fail, so
  `FinalInv` says that Mongo has the end of the history, whoever put it there. `SavedMonotone`
  needs no history and holds with expiry too. `ForwardCorrect` follows from `MergeMonotone` along
  the history.
* `WbSync_proofs`. The difficulty is that versions are compared in three places by different rules:
  the script and the page decide by version and nonce (`Leq`), the map of versions sent by the
  version alone. `IInv` keeps them together: a client's batches are no newer than its scene,
  publications and snapshots no newer than the board (`OldInv`); what the board has, a client in the
  meeting has, is about to get or has put aside (`DownInv`), through the channel it joined *before*
  it read the snapshot; what a client has, the board has, or it will be sent, is on its way on the
  present socket, or was refused (`UpInv`). Nothing of this is inductive without `NotedIsHeld`.
  `NotedCorrect` and `ConvergeCorrect` follow (a client that was evicted gets nothing more, and
  `DownInv` is about the others); at rest the ways down
  and up are empty, and two copies each no newer than the other are one. That last step needs
  `NoncesAssumption`: version and nonce identify a copy. The code draws nonces at random.
  `EvictedCorrect` is the safety half of `RemovedIsOut`: once the eviction has arrived no socket of the
  removed member is in the channel, nor gets into it, but for a join past its check; `JoinInv` has it
  for each step of the join.
* `Meetings_proofs`. `IInv` has `CallInv` (what each call has in hand at each step), `IdInv` (two
  starts never hold the same id), `MediaInv` (a meeting in Mongo has had its media room),
  `OneActive` (the unique index) and `HealInv`: a call that will end a meeting as AUTO_EMPTY has
  seen its media room closed, before the room was dissolved; media rooms never open again. From it
  come `TypeCorrect`, `HealCorrect`, `EmptyCorrect`, `EndCorrect` (the end that came first stands,
  which the refinement implies) and `LifecycleRefinement`: each step is a `Begin`, `Finish` or `Settle` of `RoomLifecycle`, or a stutter. `TallyCorrect` and
  `DissolveCorrect` need `SettleInv`: as long as a meeting runs or lacks its statistics, and LiveKit
  has lost nothing, its media room is open or its `room_finished` is still to be delivered
  (`ReportInv`); a meeting is stored only while its media room is open (`CreateInv`), for the undo of a
  failed start closes nobody else's (`UndoInv`). No call is trusted to finish: any of them may fail,
  and LiveKit alone comes back. `CountedCorrect`: the figure of the room plus the starts that have yet
  to count theirs is never above the meetings in Mongo, and below them by failed starts only, for a
  step either stores a meeting and makes its start due, or ends a due start, with its increment or
  with a failure (`CountStep`).
* `Presence_proofs`. What `Presence` promises holds at rest; the inductive `IInv` says what holds on
  the way. `CallsInv`: who takes which step for which event, and while no answer was late only the
  handler LiveKit waits for works. `OrderInv`: the queue, and each handler's event, keep the order of
  what happened in the call, each event once. `DataInv`: what a handler has read stays true as far
  as it uses it. On these rest, one per promise:
  `KickInv` (a connection of somebody who is no member has its join still to be checked, or a kick on
  its way; in an ended meeting the host's request has still to close the room) for `KickCorrect`;
  `TabsInv` (without a session the join is still queued, without `leftAt` the leave) for
  `SessionsCorrect`, which holds with any number of late answers;
  `CalmInv` and `CallInv` (presence, open sessions and connections differ only by the oldest event,
  half handled) for `PresenceCorrect`;
  `PeakInv` for `PeakCorrect`: `Seen(k)` are the users LiveKit had when it told of the k-th event, at
  most `crowd` for every k, so a handler late in real time counts a crowd that was real when its
  event was told; and presence without the one who is just joining has been counted;
  `FinalInv` for `EndCorrect`: the event `room_finished` is the last of the queue, so its finalize runs
  beside no join and no leave, and once it is answered the sessions are closed and the presence set
  empty, whatever other finalizations do (`ClosedInv`); if it meets no other finalize, what it has
  read is what is stored (`ExactInv`), and a later one reads and writes the same. The assumptions are
  that hooks and requests are different calls, and finite sets.
* `RefreshTokens_proofs`. `TypeCorrect`, and `HeirCorrect`: a session never has two tokens that can
  still be rotated. `DrawInv` and `RootInv` say that a drawn token belongs to one request and that
  nothing descends from a token nobody has drawn, so that the atomic claim, which takes the one live
  token of the session away, decides for the whole session. `NobodyIsLockedOut` and
  `CookieStaysCurrent` need more and only while nothing fails (`GInv`): a cookie is live, or its heir
  is on its way to this very browser (`Claimed`), or its session was ended on purpose (`CookieInv`);
  hence a token that a request carries is never too old when it is looked up (`RequestInv`). `Own`
  keeps a session within one browser and `Unseen` a token secret until its answer arrives.
* `Chat_proofs`. `TypeCorrect`; `CountCorrect`, for which `LifeInv` says that one request creates
  the room and that nobody gets anywhere before the host's document, and `GapMoves` reduces each
  step to the change of the one request that takes it; `RevokedCorrect` (`ChannelInv`: the channel
  holds connected sockets, and a room is deleted after a failure only); `PublishedCorrect` and
  `CountedCorrect` (a message on its way is stored, and the unique index lets one send go on; a send
  that fails on the way puts its message in `cut`, which never holds one that is published).
* `Web_proofs`, files. `AttachmentStays` from `FileInv`: a READY document has an object of the
  declared shape (`ReadyInv`), and what a call or a send has found out stays true between its
  commands (`CallInv`, `SendInv`), because a document is never changed back and an object is written
  under a signature that fixes its shape. `ComposerCounts` counts the sends of the page against the
  times the composer was emptied (`SentInv`).
* `Web_proofs`, accounts. `OneAccountStays` from `AccountInv`: the indexes hold (`AccountsOK`),
  accounts are added and never lose an e-mail or a name (`Grows`), so what a request has found stays
  found (`HandlerOK`) and an answer once given stays right (`AnswerOK`). The difficulty is Google: an
  identity is linked to the account of its e-mail or was used to create it, however sign-ins pass
  each other (`Belongs`).
* `Web_proofs`, pages. `SpinnerEnds` from `JoinInv`: with a token and a valid id the latest join is
  on its way or has left a trace on the page. `OwnWorkStays` from `LoadInv`: a
  load begins with what the user has done, which is not ahead of the server (`BegunInv`: each request
  of a dialog begins a new load when it is done), so no answer, on its way or drawn, is behind what
  its own load began with (`AnswersInv`). `LatestStays` from `ListInv`: the latest search is for what
  is typed, and once over it has left its users or its error, until a key is pressed (`SearchInv`);
  and while nothing
  changes, a run that has asked for n pages has the first rooms, n pages of them (`Fetched`; that
  the first n and the next page make the first n + 1 is a fact about cardinalities, `First`).
  `PagesKeepPromises` puts the six together for `WebSpec`, the specification the run `web` checks:
  each page's invariant is kept by its own steps and by the router, which leaves its variables alone.

## 7. What is only model-checked

* Liveness (`AcceptedReachesMongo`, `WorkArrives`, `RemovedIsOut`): out of the prover's reach, and `ENABLED` with it.
* The four violations.

No module uses a recursive operator.

## 8. What is not modelled

* The rate limit of `joinRoom` and of search: `INCR` and `EXPIRE` are two commands, and a failure
  between them leaves a key without an end. No document says what should follow.
* Histories longer than the 50 messages a page reads; downloads, which carry no state.
* Pointers and collaborators on the whiteboard, which are volatile by design, and the canvas.
* Profiles, which are read; the landing page, devices, themes, layout.
* JWT and webhook signatures, validation of payloads: constants of the models (a request is one the
  code has accepted).
* Configuration, deployment, the AI assistant (schemas without operations), load and end-to-end
  scripts.
* The loss of Redis, documented in `whiteboard_sync_spec.md` 13.4 as accepted.
* S3, LiveKit, Mongo, Redis and Socket.IO themselves: what the code relies on is part of the actions
  that use them.

## 9. The plan

Done in the order of importance: whiteboard, meetings, presence, sessions, rooms and chat, the
clients of the whiteboard, files, accounts and the pages. Left:

1. The totals of a meeting whose finalizations overlap (ghost `overlap` of `Presence`): a bound on
   how far they can be from the sessions.
2. `TypeOK` of `Presence`, and that of `WbSync_proofs`, are proved with the other invariants; no run
   checks them by themselves.
3. Joining a room again after a removal whose eviction is still on its way, in `WbSync`.
4. A page's history limited to the newest messages, and several members' sockets, in `Chat`.
