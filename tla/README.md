# Arko in TLA+

Arko is a desktop and mobile chat client for Matrix, written in Go. A local
HTTP server renders pages; the window is a webview on that server; a websocket
pushes changes to the page. Underneath, one `MatrixSession` per account runs
the sync loop of the mautrix library and keeps, per room, a store of messages.

This directory models the parts of Arko that run concurrently, checks them with
TLC on small instances, and proves the safety properties with TLAPS for every
value of the constants. Line numbers are those of the modelled commit.

## The system

Paths are under `src/internal/` unless they say otherwise.

| Component | State | Operations | Hard behaviour |
|---|---|---|---|
| Cache (`cache/cache.go`) | map of entries with fetch times, a singleflight group | Get, Invalidate, Clear | requests of callers and of background refreshes share flights; invalidation while one is in the air |
| Message store (`matrix/message_tree.go`, `helpers.go`) | B-tree, `messagesMap`, `nonces`, `rawEncryptedEvents`, position in the history | Initialize, LoadNextMessages, SendMessage, Listen, Set, DeleteMessage, RetryDecryptMessage, fetchAndApplyEmbeds, Close | a goroutine per event of a page, the receiver of live events, retries, previews and sends all write the same message; placeholders that must be replaced |
| Hub and websocket clients (`ws/`, `handlers/ws.go`) | buckets of clients per user, a channel and two goroutines per client | Register, Unregister, Push, BroadcastToRoom; Send, Close, the pumps | clients come and go during a push; slow clients; two goroutines that both close |
| Matrix session (`matrix/session.go`) | listeners, trees, caches, verification state | sync handlers, listenEvents, GetMessageTree, IsVerified, Close | blocking fan-out to the listeners, channels closed under a sender, two trees of one room |
| Session store (`session/session.go`) | the keyring, a cache of it, the list of known users, the last user | Get, Update, UpdateAndGet, Delete | read-modify-writes of several goroutines, crashes between writes, a keyring that refuses |
| Session manager, token refresh (`matrix/manager.go`, `refresh.go`, `sso.go`) | running sessions, the manager's context | NewManager, Login, Logout, Shutdown, refresh loop | logout during a refresh, restore without network, restart |
| Typing tracker (`matrix/typing.go`) | who types in each room and until when, listeners | SetTyping, GetTypingUsers, Listen, CloseListener | notifications from unordered goroutines, a channel closed under a sender |
| Device verification (`matrix/verification.go`, `txn_store.go`, `service/verify.go`) | transactions, the state shown | request, confirm, cancel, callbacks | callbacks against requests, events waited for |
| Chat service (`service/chat.go`) | rooms listened to, typing subscriptions | GetRoomMessageTree, SubscribeTyping | the page is edited by events that may be late, lost or out of order |
| Window service, webview binding (`service/webview.go`, `webview/`) | main and child windows, a table of posted functions | SetTitle, OpenChildWindow, Close..., Dispatch | functions run later, on another thread |
| Key backup (`matrix/key_backup.go`) | the backup key; the homeserver's account data | Init, RestoreRoomKeys, BackupRoomKeys | several uploads that can fail half way |
| Rooms, spaces, direct chats (`matrix/rooms.go`, `dm.go`, `create.go`) | none but the caches | requests to the homeserver | the map of direct chats is read, changed and written back |
| URL previews (`url_previews/`) | a rate limiter per host | FetchEmbed | none beyond waiting |
| HTTP handlers, middleware, router, configuration, errors, models, bridge, programs | none | one request each | Auth checks and then uses a session |
| User interface, packaging (`src/components`, `src/pages`, `src/frontend`, `src/mobile`, `src/build`) | none | rendering | none |

How they interact. The sync goroutine of a `MatrixSession` sends each timeline
event to every tree's receiver over a channel of 16 and invalidates caches on
state events. A tree sends its changes over a channel to its transmitter, which
calls the chat service, which renders them and broadcasts them through the hub
to the clients that show the room. The manager creates, restores and closes
sessions and keeps their tokens in the session store; the refresh loop of each
session writes new tokens there.

What makes each correct: the cache never goes back in time and one request is
out per key; the store shows every message once, replaces every placeholder,
never shows what was redacted, and leaves no hole in the history; the hub
reaches exactly those connected and never blocks a pusher; a stored session is
restored after a restart until it is deleted, and not after; the page ends up
showing what the store holds; verification ends in the state the other device
saw. `PROJECT.json` lists the hazards at their lines with the properties that
cover them.

## The modules

### Cache.tla

`truth[k]` is the version of a value at the homeserver, `store[k]` the version
cached (0: none), `expired[k]` that the entry is past its TTL. `Callers` run
`Get`; `Refreshers` are the goroutines `Get` starts when it serves an expired
entry (cache.go:36). The singleflight group is a library: `leader[k]` is the
goroutine whose function runs, the others `Join` and wait for `Finish`.

`Hit`, `HitExpired` and `Miss` are the branches of lines 32-48; `Lead` and
`Join` are `Do`; `Check` is the second look at the store (49-51); `Fetch`,
`FetchFails` and `Store` are the request and the store of lines 36-57;
`Finish` is the return to all who wait, with the type assertion of line 65;
`Invalidate` and `Clear` are lines 68-74. The values are versions because the
properties only compare them in time; a flight is per key, so one key shows
everything, while the proofs are for any set of keys.

`Register.tla` is what this promises its callers: a register per key that may be
read late, never ahead of the homeserver and never back in time. `Cache`
instantiates it with `value <- truth` and the version each key served last as
`read`, and `MonotonicReads` is its specification: every Expire, Lead, Store or
Finish of the cache is a stutter or a `Read`, every change at the homeserver a
`Write`.

### MessageTree.tla

One room. The tree is a function from ids to kinds of message, and so is
`messagesMap`. An event's id, its "decrypting-" placeholder and the "pending-"
id of a send are different numbers (the code hashes them to 32 bits; collisions
are left out). `Set` is one operator, used by every writer as in the code.

| Model | Code |
|---|---|
| `Arrive`, `Redact`, `Live` | the homeserver's timeline and the handlers of session.go:247-300 |
| `SendMessage`, `SendAccepted`, `SendFails` | 497-536 |
| `LoadPage`, `Initialize`, `LoadNextMessages`, `PageDone` | 115-121, 181-195, 260-282, 325-329 |
| `Hist...` | the goroutine of one event of a page, 282-325, with handleEncrypted, 217-258; what cannot be decrypted is kept for a retry (`HistKeeps`, 299-302) before it is stored (`HistUndecryptable`, 303) |
| `Listen`, `Receive...`, `DeleteMessage`, `SetRedacted` | 393-453, 197-215 |
| `Chronological`, `Retry...` | 369-391, 331-367; the raw event is deleted (`RetrySucceeds`, 364) before the message is stored (`RetryStores`, 365) |
| `FetchEmbeds`, `ApplyEmbeds`, `NoEmbeds` | 159-173 |

`Set` starts `fetchAndApplyEmbeds` for every copy that is neither pending nor
being decrypted, an undecryptable one too (594-596). `jobs[i]` is the set of the
copies, by their kind, that some such goroutine holds. The previews are cached
by room and id, not by copy (160): `embedCache` holds the events whose entry has
previews. A copy with a body can bring them there (`FetchEmbeds`); any copy
whose goroutine finds them stores itself, whole, over what the store has by then
(`ApplyEmbeds`). An undecryptable copy that comes back like this when its raw
event is gone is `revived`: no retry finds it again.

Abstractions. A message's text, author and time are not kept: an id has one
timestamp. `pendingRedactions` has no writer in the code and is left out. The
branch of RetryDecryptMessage for a redacted event is not taken by the events
that get there: an event whose redaction was known when the page was read never
becomes undecryptable. Retries of one message that stand at the same stage do
the same thing, so `retry[e]` is the set of stages at which some retry stands,
and a step either leaves others behind or not; `jobs[i]` is a set for the same
reason. An entry of `embedCache` that is empty, or has expired, is the choice of
`NoEmbeds`. Delivery is in order and only while `listening`: listenEvents has
stored a channel by then, and the sync goroutine blocks when it is full.
Notifications to the page are left for `Feed`, below.

### Hub.tla

A client is a connection. `handler[c]` is HandleWS with its ReadPump,
`writer[c]` the goroutine of WritePump, `closing[c]` how far the one run of
Close has got (client.go:41-51). A push holds the read lock from `Push` or
`BroadcastToRoom` to `EndPush` and visits the clients one by one; Register and
Unregister need `Unlocked`. `Send` drops the message when the channel is full.
Of the requests a browser sends, two matter here: SUBSCRIBE_ROOM, and
SAS_CANCEL, with which the handler's own goroutine pushes.

`owed[c]` is history: the messages pushed while `c` was connected that have
been neither written nor lost to a full channel.

### SessionStore.tla

A session is the set of updates made to it. `keyring`, `known` and `lastUser`
are what the operating system keeps for Arko; `cache`, `heap` and `lastCached`
are the program's memory. The cache holds pointers and Get returns them, so a
session in memory is an object of the heap: two Updates may change one, and an
Update that fails leaves its change in it. `Collect` clears the objects nobody
points to, so that the bound `Objects` is met only by what is in use.

| Model | Code (session.go) |
|---|---|
| `StartGet`, `ReadKeyring`, `NotFound`, `Fill` | Get, 108-130; in an Update also what it does with ErrNotFound |
| `StartUpdate`, `Apply` | Update and UpdateAndGet, 136-162 |
| `Marshal`, `SetSession`, `SetRefused`, `CacheSession` | save, 89-100 |
| `AlreadyKnown`, `ReadKnown`, `WriteKnown`, `WriteRefused` | addKnownUser, removeKnownUser, 220-252 |
| `RememberUser`, `StoreLastUser`, `LastUserRefused` | the global settings, 172-218 |
| `DeleteSession`, `DeleteRefused`, `DropCached` | Delete, 164-170 |
| `Crash` | the program ends, at any point, and starts again |

The keyring may refuse any read or write. To Get a refused read is a session
that does not exist, and Update then stores a new one over it; a list that could
not be read is empty, and addKnownUser and removeKnownUser write it back so.
The list is a set (it has no duplicates as long as it is read), a session is
never stored before an Update, and a Get that finds its session cached changes
nothing and is left out.

The code has no lock around a read and the write that follows, so it promises
something only where nobody comes in between; the history variables say where.
`clean` holds the writers that have been their user's only ones and that no
older Get can overtake, `stale` those about to write a list that is not the
keyring's. From them `sealed`, `saved` and `kept` collect what has been promised.

### Typing.tla

One room. `typing[u]` is the user's entry in `TypingTracker.rooms`: absent,
there, or there with its deadline passed (`Deadline`). `sync` is the handler of
typing events (session.go:323-345): it sets the users of the list one by one,
then ranges over the map and removes who is not listed. Each `SetTyping` starts
a goroutine, a notifier (`stage`, `sends`, `users`): `CopyListeners`, then the
read section of getTypingUsersForRoom (`StartSnapshot` to `Snapshot`, with
cleanupExpired, which deletes under the read lock), then `Send`, which drops
the snapshot at a full channel, or `Skip`. `OpenPage` to `Render` is
HandleChannelsPage: SubscribeTyping and GetTypingUsers; `SubscribeRoom` is what
the page sends when it has loaded; `Broadcast` is listenTypingEvents.

Two things end the program, and the model has both: a send to a channel that
CloseListener has closed, and, if the Go runtime notices it, a map written by a
reader while another reads it or the handler ranges over it. Names and avatars
are left out: a snapshot is a set of users.

### FanOut.tla

The timeline is a sequence of rooms, an event is its number in it. `Sync`,
`Visit`, `Send`, `EndRange` are one handler of session.go:247-300: Range visits
every listener that stays (`must`), may or may not visit one that comes or goes,
and blocks on a full channel. A tree has a room, its `listening` flag, the
channel the session has of it (`listener`, `events`) and a goroutine
(`receiver`). A request takes the steps `Auth`, `GetMessageTree` (with
`MakeTree` if there is none, after the homeserver was asked, no lock held),
`Compute` on `initializedTree`, inside it `Listen`, which sets the flag,
`MakeChannel`, `listenEvents` and `StartReceiver`, and `Answer`. `Close`
cancels, `CloseTree` is the Close of each tree, which waits for the receiver,
`CloseListeners` the rest. A send on a closed channel ends the program, and so
does the Close of a tree that has its flag and not yet its channel: it closes
nil (394-407, 492). What a receiver does with an event is `MessageTree`'s.

### Feed.tla

Messages are numbered in the order of the tree. A version of one is its text,
which tells its copies apart (undecryptable, decrypted, redacted), and whether
it has its previews. `Set`, `DeleteMessage`, `ApplyEmbeds` are the writes, each
with the event that it sends: Set under the tree's lock, the other two after it
has been released (`SendRemove`, `SendEmbeds`). One receiver redacts, one
message at a time. `copies[m]` are the texts that have been stored, each of
which a goroutine may hold and store again with the previews; `embeds[m]`
counts, for each text, those that have stored it and not yet sent it. Two of
them may store in one order and send in the other (`Overtaken`): the page is
then left with the older copy. An event carries its message, a nonce it
replaces, and the neighbours at the time of the write. `sendEventToListeners`
puts it in the channel or, if that is full, leaves it to a goroutine (`late`)
that sends it later or gives up. `Callback` is the change the chat service makes
to the page: insert beside a neighbour, draw again, remove, and draw the bubble
before again. `Transmit` may find the client's own channel full. The page is
rendered by `Chronological` and hears of events once it has subscribed. `After`
is the page when the callback has been given each event of the channel in turn.

The redaction of a message is another text of it. Who writes what, and when, is
`MessageTree`'s; here a write is any that it makes. checkRegrouping draws the
previous bubble again if its author and time ask for it; here always, with the
version the event carries.

### Sessions.tla

One account. A process is a request, the sync loop of a session that logs out on
an unknown token, or the main goroutine that restores: `stage[p]` says how far
it has come, `token[p]` and `of[p]` with what. An instance is a `MatrixSession`:
`sync[i]` is its sync loop, `closes[i]` the number of its Closes, `refresh[i]`
its refresh loop, with the token it `holds` and the `next` one, that it has been
answered with; `mapped` the manager's map. A token stands for the pair it was
issued with; the homeserver takes a refresh token once and issues the next.

`stored` is what the keyring has, `cached` the object in the cache. Sessions in
memory are shared by pointer, so what Get returns is an object (`sess[p]`) whose
fields (`copy`) whoever has it may change, and a deleted one lives on with
whoever got it. session.Update takes no lock, and it is three steps:
`UpdateGets`, `UpdateChanges`, which changes the object and marshals it
(`data[p]`), and the write, `Saves` or `SaveRefused`, which is part of the
action of whoever updates: a login (`LoginStores`, `Submit`), NewMatrixSession
(`ReadSession`), the keys (`KeysReady`, `KeysFail`), a theme (`SetTheme`), the
refresh loop (`RefreshStores`), the start (`RestoreStores`). Any of them may
overlap.

| Model | Code |
|---|---|
| `NewManager`, `Restore...`, `Forget` | NewManager, restoreSession (manager.go:37-55, 228-274), doRefreshToken |
| `Login...`, `Submit` | Login (108-199) and HandleLoginSubmit, which writes the session again |
| `StartSync`, `ReadSession`, `NewMatrixSession`, `KeysReady`, `KeysFail` | startSync (341-358), NewMatrixSession (session.go:102-235), KeyBackupManager.Init |
| `HandleLogout`, `UnknownToken`, `TakeSession`, `Revoke`, `CloseSession`, `DeleteSession` | HandleLogout, the sync loop, Logout (276-285) |
| `UpdateGets`, `UpdateChanges`, `Saves`, `SaveRefused` | Update and UpdateAndGet (session/session.go:136-162), save (90-100) |
| `Auth`, `SetTheme` | Auth, which deletes a session without a client (auth.go:33-38) and lets the others on; the two handlers of theme.go |
| `Timer`, `Refresh...` | tokenRefreshLoop (refresh.go) |
| `Shutdown`, `Clear`, `Crash` | Shutdown (287-295), the end of the program at any point |

Every call may fail: the network, the keyring, the homeserver's answer may be
lost on its way. Where the code panics the request ends, or with a sync loop
the program (`NothingToTake`). A Delete that the keyring refuses leaves the
session there: its error is ignored (session/session.go:165), and so it is here
(`DeleteSession`, `Forget`).

What stays one step here, and is `SessionStore`'s in its own steps: the write to
the keyring with that to the cache after it; the delete in the one with that in
the other; a Get that fills the cache. The load of SessionMiddleware is one step
with the check of Auth or HandleLogout that follows it. The other fields of a
session are left out: a theme's Update matters here for what it writes along.

### Verification.tla

`txn[t]` is what the library's helper makes of a transaction; it and the other
device are external, and call back one step at a time. `ui` is
VerificationUIState, the one state that all callbacks set; `keys` and `verified`
what HasCrossSigningKeys and IsVerified answer. `window` is the window: a path,
and how far its page has come. `Handler` says for each path what its handler
answers, as a function of the state: show, redirect, or clear the state and
redirect (`ClearVerificationState` is a step of its own, between which callbacks
come). A handler looks at the state (`Handle`), waits for GetCurrentUser, and
reads the state again for what it shows (`Render`), which may have changed or
gone by then; it may also fail (`ServerError`). Its look is one step although it
reads several flags: a callback between two of these reads can only set one, so
that the answer is that of a look before or after it, or a redirect to a page
that looks at all the flags again, or a page shown to a device verified in
between, which the properties do not tell apart; what takes flags back,
ClearVerificationState, is called by the handlers of the one window.

A request starts the transaction (`Request`) and then sets its flag
(`SASRequested`, `QRRequested`); the request is `starting` in between, and one
that fails changes nothing.

`ListenVerifyEvents` is the type assertion of service/verify.go:38, modelled by
the methods both sides have; since it fails no event is pushed (`Tell`), and
pages move only by their own redirects, links and reloads. A confirmation goes
to any transaction in the right stage: the transaction store forgets none and a
map's order decides. `VInit`, `VNext` and `VTypeOK` carry a V so that the module
can stand beside `Feed` in `PageProofs`.

## The runs

| Run | Question | Bounds |
|---|---|---|
| `cache` | one fetch per key; it is a register that lags; an Invalidate is a fence; Get returns | 1 key, 2 callers, 1 refresher, 3 versions |
| `cache_assertion` | is the type assertion of cache.go:65 safe? No | 1 key, 2 callers, 1 refresher, 2 versions |
| `message_tree` | the store, under every writer; placeholders and pending messages go in the end | 2 events, one encrypted and one plain, each before or after the tree is made; the encrypted one may be redacted; 1 send; pages of 1 |
| `session_store` | what is stored, listed and cached after updates, deletes, refusals and crashes | 2 users, 2 goroutines, 4 objects, 2 updates |
| `hub` | the hub is exact and misses nobody | 2 windows of one user, 1 room, 1 pusher, channels of 1, 2 messages |
| `hub_live` | pushes return, lost clients leave | the same without rooms and pushers: the handlers push |
| `typing` | who is listed, and whom the page shows | 2 users, one of them the own; 2 notifiers, a channel of 1 |
| `fan_out` | one listener per room, the one shown; each event once and in order; no tree holds up sync | 2 rooms, 2 trees, 2 requests, channels of 1, 2 events |
| `feed` | the page and the events under way add up to the tree | 4 messages, 2 of them placeholders; 2 texts; a channel of 2; 4 writes |
| `sessions` | sessions closed once, logged out for good, owned; a stored token that works | 1 request, 2 instances, 2 objects, 2 tokens |
| `verification` | live emojis and codes; redirects end | 3 transactions |
| `verification_waiting` | is the waiting page redirected? No | 2 transactions |

Why they are enough. Interference in the cache is between two goroutines of one
key: two callers and a refresher give a leader, one who joins and one who
refreshes; three versions let a value change twice under one flight. In the
store the actors that can be in each other's way write the same message: two
events, each in the history, live or both, give an encrypted and a plain one,
pages of one make two pages with a boundary between them, and one send gives an
echo. Two windows make a bucket that empties and fills; a channel of one is full
after one push. The list of known users is spoilt by two goroutines with two
users, and a session by two goroutines with one; two cached objects and two in
the hands of goroutines are all there can be.

Two notifiers are enough to overtake one another, and a channel of one to be
full. Two requests make two trees of one room or one each of two; an event for
the one is in the other's channel while the second comes. A placeholder and its
message with a neighbour on either side give every case of Insert and of
neighbours that have changed; with two placeholders a message takes over one
that stands where it does not belong; two texts are two copies whose previews
cross. With one request and two instances a login runs beside the start and a
restored session's loops, a logout of the request beside one of a sync loop, and
an Update of the request beside one of a refresh loop or of the start; two
objects in memory are the cached one and one that outlived its delete; two
tokens are one that was spent and one that came for it. A second request, which
adds two logins that overlap, makes more than 15 million states; the theorems
are for any number of requests, and `StoredTokenIsValid` is checked for this one
only. Two transactions can disagree about the state they share, and a third
comes when both are over.

What the smaller instances show for the safety properties the proofs show for
all.

Two runs end in a violation.

* `cache_assertion`: a background refresh returns `nil, nil` to the group; a Get
  that misses joins its flight and asserts that this nil is an entry. The
  goroutine panics. In the trace the Get had looked for the entry before there
  was one; an Invalidate while the refresh runs has the same effect.
* `verification_waiting`: the page that waits for the other device says that it
  redirects automatically. The forwarder that would push the redirect starts
  only if the session is a `VerificationClient`, and `*MatrixSession` has not
  its methods: the page stays.

Symmetry is used in `session_store` (users, goroutines, objects), `typing`
(notifiers), `fan_out` (rooms, trees, requests) and `sessions` (requests,
instances, objects): they check invariants only, none of which names
one of them.

Deadlock is checked in the runs of the cache and of the session store. The
other systems may stop: every message sent, every client gone, the session
closed, the program down with its bounds used up.

## Fairness

* Cache: each goroutine inside Get is scheduled, and `fn` comes back: it is an
  HTTP request of a client with a deadline or a cancelled context.
* Message store: the goroutines of a page and the receiver are scheduled. The
  wait for a session key has a deadline of five seconds (243). Nothing is
  assumed of the homeserver, of retries, or of the user.
* Hub: the pumps, Close and a push under way are scheduled. ReadPump has a read
  deadline and WritePump a write deadline (vars.go), so a dead connection shows.
  For the two steps that need the hub's lock fairness is strong: a Go RWMutex
  lets a waiting writer in before later readers, so a writer is not starved by
  pushes that keep coming.
* Verification: a page that is loading is answered or fails (GetCurrentUser asks
  the homeserver with a client that gives up), and a shown one opens its
  websocket (`WF` of `Page`). Nothing is assumed of the callbacks or the user.
  `RedirectsEnd` needs no more, because a chain of redirects under one state has
  an end, and each page that clears the state leaves fewer flags to disagree
  about; callbacks that come in between are bounded by the transactions.

The other modules have safety properties only and no fairness.

## The proofs

Each proof module has an inductive invariant, in named parts, and the three
facts: it holds at first, each step keeps it, and it gives the properties. TLC
checked the parts before they were proved.

* `CacheProofs`: `TypeCorrect`, `SingleFetch`, `InvalidateFences`,
  `CacheIsARegister` (the refinement) and `ReadsAreMonotonic`, that the
  register, and with it the cache, never goes back. What is needed beyond the
  properties: who is inside a flight is its leader (`Leadership`); no version in
  the air or in the store is ahead of the homeserver or, once served, behind
  what was served (`Versions`); nothing older than a fence survives it
  (`Fenced`), and a Get under way started no later than the fence it is measured
  by (`Since`).
* `MessageTreeProofs`: `TreeTypes`, `OneStore`, `NoncesTrackPlaceholders`,
  `RetriesFindTheirMessage`, `RedactionsStick`, `HistoryIsComplete`. Needed
  beyond: an event goes through its page once, no copy of it is undecryptable
  before that, and its raw form and its nonce are kept together until a retry
  has decrypted it (`Retriable`), live events reach the receiver in timeline
  order (`InboxInOrder`, `MessagesAhead`), a nonce of the homeserver is a
  pending id (`TxnIsPending`), a sealed event has no copy under way that could
  undo it (`SealedIsFinal`), and what has been read of the history is contiguous
  (`Pages`).
* `HubProofs`: `HubTypes`, `HubIsExact`, `PushesReachAll`. Needed beyond: a
  pump runs only for a registered client (`PumpsAfterRegister`), and a push
  holds the lock exactly while it has clients to visit (`PushesUnderLock`).

* `SessionStoreProofs`: `StoreTypes`, `DeletesStick`, `SavesAreRestorable`,
  `UpdatesAreKept`. Needed beyond: a clean writer is alone (`Exclusive`), an
  update stays in its object until it is stored (`Numbers`), what a clean update
  has stored is in every copy a Get is about to cache (`CleanUpdate`), what has
  returned is in every copy there is (`KeptEverywhere`), a list that is not
  stale is the keyring's (`FreshLists`), and after a clean Delete nobody is
  about to cache the session (`CleanDelete`, `Sealed`). Each part is a lemma,
  with one step per action; `Grown`, that objects in use lose nothing, serves
  several.

* `TypingProofs`: `TypingTypes`, `OnlyTheListedType`, `ThePageShowsTypists`.
  Needed beyond: while the handler ranges, whoever is in the map is listed or
  yet to come (`Listed`); the snapshots held are in an order, and only one that
  is held is late (`Order`); while no notifier is about to take a snapshot, the
  newest one held, or else the last in the channel, or else what the page
  shows, is who types (`Newest`).
* `FanOutProofs`: `FanOutTypes`, `OneListens`, `TheShownListens`,
  `SyncIsNotHeldUp`, `EventsComeInOrder`. Needed beyond: a request inside Compute
  owns its room's entry, which is not yet stored, and works on a tree of that
  room (`CallersInv`); a tree with a listener has a receiver or such a request
  (`TreesInv`, `RoomsInv`); what a listener has been sent is counted by how far
  the sync goroutine has come (`Delivery`).
* `PageProofs` has both kinds of pages, which share no state. Of `Feed`:
  `FeedTypes`, `PageCatchesUpAlways`. A page shows a tree (`Shows`) if it has
  each of its messages once, in order and in its version; only one page does
  (`ShowsOnePage`), and `Bubbles` is that one (`BubblesShow`). Needed beyond:
  the page with the events on their way to it shows a tree that differs from the
  real one only in a redaction or previews whose event is still to be sent
  (`Carried`, `Announced`), no event is late, and while there are unsent
  previews of a message, those that the tree holds are among them (`Pending`).
  Each kind of event takes a page of one tree to a page of the next
  (`CallbackAdds`, `CallbackUpdates`, `CallbackTakesOver`, `CallbackRemoves`);
  it may be drawn before or after the others on their way (`AfterAppend`,
  `AfterTail`). Events carry what the callback draws (`SoundEvents`), which
  keeps a page a page even when it has gone astray. `After` and `Bubbles` are
  recursive functions. That their recursion has a solution, and what it is, is
  proved by induction, which the library states with an operator as a parameter
  and no prover here can instantiate: `Induction` states it for a set of
  numbers, from the well-foundedness of their order.
* `PageProofs`, of `Verification`: `VerificationTypes`, `PagesShowTheLive`.
  Needed beyond: the emojis and the code in the state are not a cancelled
  transaction's, unless the state says that one was cancelled (`FlagsAreLive`);
  a page that shows them looks at that first, and what comes into the state
  while it waits to be rendered was live then too (`LookedIsLive`).

* `SessionsProofs`: `SessionsTypes`, `SessionsAreClosedOnce`, `ALogoutLasts`,
  `RunningLoopsAreOwned`. Needed beyond: whoever reads a session, or has marshalled
  one, has an object (`Pointed`); an instance has one owner, the map or one process
  (`Owners`); starts that do not overlap find the map empty (`Alone`); after a
  logout the cache is empty, nobody is on the way through an Update, and the loops
  that are left only wait (`Quiet`, `Sealed`).

The proofs assume what the modules' ASSUMEs say of the constants and nothing
else; TLC evaluates those on every run. Only model-checked: the liveness
properties (`GetReturns`, `DecryptingEnds`, `EchoReplacesPending`,
`PushReturns`, `LostClientsLeave`, `RedirectsEnd`), which need fairness and are
out of the prover's reach, and `StoredTokenIsValid`: which Updates lack which
change (`stale`) would have to be said of every object that any two goroutines
hold, and has not been. Every other safety property that a passing run checks is
proved.

## What is promised, exactly

Some properties hold with an exception, and the exception is the code's.

* A redaction can be undone by a copy of the message that was taken before it:
  a preview being looked for, a page being stored, a retry. `RedactionSticks`
  therefore speaks of redactions that find no such copy (`sealed`).
* A message that a retry has decrypted can become undecryptable again, for good:
  the previews' goroutine of its undecryptable copy finds the previews of the
  decrypted one under the same key and stores its own copy. `UndecryptableReplaceable`
  excepts it (`revived`).
* An Invalidate is undone by a fetch that began before it. `InvalidateIsAFence`
  speaks of those that no flight undercuts.
* An encrypted event that is not a message keeps its placeholder: there is
  nothing to replace it (309-324). `DecryptingEnds` is about messages.
* A failed send keeps its pending message.
* The session store promises nothing of two writers of one user at once, of a
  Get that read the keyring before a writer and caches after it, or of the users
  in a list that another goroutine wrote over: see `clean` and `stale`. Until
  the list is written, a crash leaves a session that no start restores.
* A snapshot of who types can be overtaken by an older one, dropped at a full
  channel, or be broadcast before the page has subscribed, and an expired entry
  is removed by whoever reads next, which tells nobody: `PageShowsTypists`
  speaks of the rest (`astray`). A next snapshot that arrives does not end
  these: only a page rendered anew does.
* Two requests that make a tree of one room at once leave one that listens and
  another that is shown (`raced`). `ShownIsListened` speaks of the other rooms.
* After Close has begun the sync loop may send to a channel that is closed, or
  wait for a receiver that has ended.
* The page misses what finds a channel full, is broadcast between rendering and
  subscribing, or goes out after the lock is released while Set runs; two copies
  of a message whose previews are stored in one order and sent in the other
  leave it with the older one. `PageCatchesUp` lists them. Sooner or later the
  page is rendered again.
* A verification that is cancelled while a page of emojis or of a code waits for
  GetCurrentUser is shown all the same: `ShownIsLive` speaks of what the handler
  saw.
* A refresh token is lost with an answer that does not arrive or cannot be
  stored, when the device is signed out, or when an Update writes its older
  token over one that was stored since it got the session (`lost`). Two
  overlapping logins run two sync loops, one of which nobody closes (`raced`),
  and so does a failure to get the backup keys (`leaked`). A login, a start or a
  refresh that is on its way when Logout deletes the session stores it again:
  `sealed` says when there is none.

## Not modelled

* The window service and the webview binding: a lock, a table and calls into a C
  library whose main loop runs what was posted. (Dispatch reads the shared index
  again after it unlocks, webview.go:222.)
* Of the Matrix session: the caches around requests for profiles, aliases and
  members, each of which is a `Cache`; `crossSigningEvent` and the wait of
  IsVerified, which rest on the library's device trust. Of the session store: the
  cookies; Put and UpdateGlobalSettings have no caller outside their package. Of
  the verification: HandleVerifyQRStatus, which no page asks for, and a logout in
  the middle.
* Which access token is stored: `Sessions` follows refresh tokens.
* Key backup beyond Init, rooms, spaces, direct chats: requests to the homeserver
  with no state of their own; their races are over account data there. The
  cryptography is the library's.
* Fetching and parsing of previews, the SSO exchange, HTTP decoding: input and
  output; where they can fail, the models let them.
* Templates and the Go code generated from them (`*_templ.go`), which are most
  of the lines of `src/components` and `src/pages`, styles, mobile shells,
  packaging: rendering and glue without behaviour over time. The generated code
  alone is more than half of the Go code, so that the models stand for a small
  share of all lines and for most of the code that keeps state.

## What could come next

In this order: the window service; a
composition of `MessageTree` and `Feed`, in place of "a write is any that the
store makes"; a proof of `StoredTokenIsValid`.
