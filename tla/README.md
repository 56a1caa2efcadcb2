# bus-tester in TLA+

bus-tester is a browser tool for trying out a message broker. An ASP.NET Core
process keeps one RabbitMQ connection, and an Angular page connects, sends
messages, subscribes to queues and watches what they deliver. This directory
specifies the adapter, the use cases, the hub and the panels of the page, checks
them with TLC and proves much of it with TLAPS.

    browser tab                          server process                    broker
    -----------                          --------------                    ------
    ConnectComponent  --HTTP-->  controllers -> use cases -> RabbitMqAdapter -> connection
    SendComponent     --HTTP-->                    |              |             channels
    MessagesComponent --HTTP-->                    v              v             consumers
         ^                        SubscriptionCoordinator <- OnMessage callback <---'
         |                                         |
    BusHubService <--SignalR-- BusHub groups <- SignalRMessageBroadcaster

Paths below are relative to the repository: `Adapter` is
`src/BusTester.Infrastructure/RabbitMqAdapter.cs`, the use cases are in
`src/BusTester.Application/UseCases/`.

## 1. Inventory

| Component | State | Operations | What makes it correct |
|---|---|---|---|
| RabbitMqAdapter (`IBusPort`) | `_connection`, `_subscriptionChannels`, `_subscriptionsLock` | connect, disconnect, teardown, subscribe, declare reply queue, unsubscribe, send | no connection or consumer is left behind, the dictionary is not changed while it is enumerated, the semaphore is always released, one operation does not touch another's channel |
| Use cases and SubscriptionCoordinator | the closure variable `handle`, `_messagesByHandle` | subscribe, unsubscribe, send, send-with-reply, the delivery callback | the registry knows what the adapter consumes for, before a reply can come; a failed send cleans up; the feed is in order |
| SignalR hub and broadcaster | groups by connection id | join, leave, broadcast | a shown subscription is in its group |
| BusHubService, ReplySubscriptionService, MessagesComponent | memoised start, connection state, message list, chips, pending replies, pause | start, join, leave, clear, subscribe, unsubscribe, pause, search | joins wait for the start, clearing is scoped, the list is newest first, no gap, no duplicate chip |
| SendComponent, ReplyDraftService, SendHistoryService | form signals, reply mode, snapshot, recent sends, templates | edit, respond, send, recall, save | a reply goes back to its sender, unsaved edits are never overwritten silently, the history is capped and true |
| ConnectComponent | `pending`, `connected`, `errorMessage` | connect, disconnect | pending ends with its request, however that ends; what it says of the connection is true |
| Domain values | none | validation of messages and connection configurations | refuses what the port cannot take |
| Controllers, BusExceptionHandler | none | translate requests and exceptions | every exception of the port has its status code |
| ApiClientService, JsonPrettyPipe | none | HTTP wrapper, pretty printer | layout only |
| Program.cs, app.config.ts | none | wiring | singletons: all requests share one adapter |
| `frontend/libs/ui/utils` (`hlm.ts`) | a class manager for each styled element, one observer for all | register a source, run its effect, observe, clean up | an element at rest shows the right classes, the observer settles, transitions come back |
| the rest of `frontend/libs/ui` | none | generated styling directives | no program state |

How they interact: HTTP requests run concurrently and share the adapter and the
coordinator, which are singletons; the broker's client library calls `OnMessage`
on threads of its own; a broadcast goes to the SignalR group of its subscription;
the tab learns a subscription's id from the HTTP response and joins the group
with a hub call afterwards.

What is hard:

* every `await` of the adapter lets the other requests run, and `_connection` is
  read again after awaits without a lock (Adapter 99-110);
* the teardown awaits inside a `foreach` over the dictionary (Adapter 82-90);
* consumers are live before they are registered, at three levels: dictionary
  (Adapter 242-268), coordinator (`SubscribeUseCase.cs` 34-36) and SignalR group
  (`messages.component.ts` 177-182);
* the broker refuses things, drops the connection and recovers it by itself;
* the client of a request may abort it, at any await;
* the hub connection may not start, drop, reconnect under a new id or close;
* answers of overlapping requests come in any order, after the form they were sent
  from has changed, or not at all because the page was reloaded;
* a Responder click acts on a row that may be frozen or gone, and its effect runs
  later than the click (`send.component.ts` 192);
* the class observer sees its own writes, and runs after effects that came later
  than the change it is told of (`hlm.ts` 177-211).

All places where these bite are listed in `PROJECT.json` under `hazards`, each
with the property that would notice it going wrong, or why there is none.

## 2. Modules

| Module | Models | Proofs |
|---|---|---|
| `RabbitMqAdapter` | the adapter and the broker as it sees it | `RabbitMqAdapterProofs` |
| `UseCases` (extends the adapter) | use cases, coordinator and callbacks composed with the adapter's own steps | `UseCasesProofs` |
| `ConnectPanel` (extends the adapter) | the connect panel of a tab over the adapter's own steps | `ConnectPanelProofs` |
| `ArrayFilter` | `Array.prototype.filter`, which the message list and its display use | `ArrayFilterProofs` |
| `MessageList` | abstract: what the message list and the lists of subscriptions promise the page | |
| `LiveFeed` | hub, groups and one browser tab; implements `MessageList` | `LiveFeedProofs` |
| `FeedDisplay` (extends `MessageList`) | pause, search, highlight, counters, reply panel | `PageProofs` |
| `SendHeaders`, `SendHistory` | merging and splitting headers; recent sends, templates and localStorage | `SendPanelProofs` |
| `SendPanel` (extends both) | the form, reply mode, unsaved edits, requests in flight | `SendPanelProofs` |
| `Page` (extends `SendPanel` and `FeedDisplay`) | the two panels with the Responder click between them | `PageProofs` |
| `ClassManager` | `classes()` of `hlm.ts` | `ClassManagerProofs` |

`MessageList` is the seam of the browser part: `LiveFeed` shows that network, hub
and server can do no more to the page than `MessageList` says, and `FeedDisplay` is
written against `MessageList` alone, so it need not carry the network along.

The modules `MC...` give the constants that a `.cfg` cannot write, the symmetry
sets, and the bounds of section 9 (`MCConnectPanel`, `MCUseCases`, `MCPage`).

What could still be added: the server's promise to a tab as an abstract
specification that `UseCases` implements, as `MessageList` is for the tab.

## 3. RabbitMqAdapter

One variable `pc[r]` for each request names the step it performs next; a step is
what the code does from one `await` to the next, so each interleaving the runtime
can produce at an await is a behaviour. `conn`, `channel`, `handle` and `todo` are
the locals of the method `op[r]`; `outcome` is the exception or result it ends
with and `cancelled` its token. `subscriptionChannels`, `subscriptionsLock` and
`connection` are the three fields. The remaining variables are the broker and
the client library.

* Connect, Disconnect: `TeardownLock` takes the semaphore and the enumerator;
  `TeardownChannel`, `TeardownChannelClosed` and `TeardownChannelThrows` are one
  turn of the loop; `TeardownClear` is the end of the `try` and the `finally`.
  `TeardownCheck`, `TeardownIsOpen`, `TeardownClose`, `TeardownDispose` and
  `TeardownNull` each read the field again, and `NullReference` is what happens
  when it is null there. `ConnectOpen` and `ConnectUnreachable` create the
  connection.
* Subscribe and the reply variant: `UseConnection` copies the field into a local,
  then `CreateChannel`, `DeclareQueue`, `Consume`, `RegisterSubscription`, and
  `CreateChannelFails`, `WireFails` for the error paths, which dispose nothing.
* Unsubscribe: `RemoveSubscription` under the semaphore, then `CloseUnsubscribed`
  (or `CloseUnsubscribedThrows`) and `DisposeUnsubscribed` outside of it.
* Send: `DeclareExchange`, `Publish`, `SendFails`, `SendCancelled`, `DisposeSend`.
* `AwaitCancelled` is any await with the token throwing
  `OperationCanceledException`; what was asked of the broker, a consumer or a close,
  may or may not have been done. `TeardownChannelThrows` is the same inside the loop.

Two history variables say how far the code keeps its promises, and are read by nothing
else. `raced` holds the connections that were assigned to the field inside another
request's window (`InsideWindow`): while the other waits for a connection of its own,
which it will assign over this one, or while it has disposed of the old one and is about
to set the field to null. `OrphansAreRaced` says that no other connection is ever
orphaned, however connects and disconnects overlap, fail or are aborted. `abandoned`
holds the channels of requests aborted at `BasicConsumeAsync`, at the wait for the
semaphore after it, or at the `CloseAsync` of an unsubscribe: `NoUntrackedConsumer` says
that no other consumer escapes.

Assumed of what is not in the repository:

* closing and disposing are one state `closed`; disposing ends automatic recovery;
* closing an object that is not open does nothing or throws;
* recovery, on by default, brings back the channels and consumers that the
  application had not closed;
* a broker has a limit of channels: when no channel is unused, creating one fails;
* a handle is a GUID and never handed out twice. When `Handle` is used up a
  subscribe waits in `register`; that is the bound, not the code, and the
  run that checks liveness, `connect_panel`, has as many handles as channels.

## 4. UseCases

`UseCases` extends the adapter: a use case's call of the port *is* the adapter's
steps, and `phase[r]` is how far the use case around them has got. Each write
that a callback can see is a step of its own: `AssignHandle` (the closure
variable), `RegisterHandle`, `UnregisterHandle`. A channel's callback is
`Deliver` (look up handle and queue, or discard), `Enqueue`, `Broadcast` or
`BroadcastFails`; `DeliverRefused` is a delivery whose `new BusMessage` throws, so that
the callback is never called. The library runs one callback of a channel at a time.
`SendFailed` and `CleanedUp` are the `catch` of send-with-reply, `RejectMessage` is the
constructor of `BusMessage` throwing before the `try`. `PortStep` lifts a step of the adapter
and records which channels carry a reply queue and which of them the world has
learned of: a publish that was aborted or lost its channel may have reached the broker
all the same, so a reply can come to a send that failed.

The temporary reply queue is exclusive and auto-delete, so it lives as long as its
one consumer, and the channel stands for it. `messagesByHandle` is `None` where
the registry has no entry; `feed` is what was broadcast.

Recovery may start a second dispatcher while a callback of the first one is still
running. That overlap belongs to the client library and is not modelled, so the run
explores deliveries without a dropped connection.

The comment of send-with-reply promises that no reply queue is left "for a message that
was never published": `FailedSendLeavesNoReplyQueue`, which the code breaks. What it
keeps is `CaughtSendLeavesNoReplyQueue`: each send that its `catch` sees fail is cleaned
up, beside teardowns, aborts of others and lost connections, unless its own client went
away, whose token ends the clean-up too (`SendMessageWithReplyUseCase.cs` 66).

## 5. LiveFeed

One action is one JavaScript task with its microtasks: a click, an HTTP response,
a SignalR event. `startPromise` is the memoised promise, `join[s]` the chain
`hubReady.then(join)` of a subscription: `HubStarts` runs all the joins that wait
for it, `PostReturns` runs its own at once if the start is over. `invocations` are
hub calls under way and `inbox` events under way on the current connection.
`HubDrops` loses both, rejects open calls and empties the groups, because the
server's groups hold connection ids; `HubReconnects` only changes the status,
as `onreconnected` does. `FinishUnsubscribe` stands for both ends of a DELETE, as
the code treats success and failure alike, for chips and replies.

The server is reduced to `active` (it consumes for a subscription), `dispatching`
(a callback of it is running, and may finish after the subscription ended, as in
`UseCases`) and the broadcasts; `BrokerTeardown` is a connect or disconnect by any
tab. Left out: error texts and what messages contain; `content` is the position of
a message among the broadcasts of its subscription, which the properties need and
the code does not have.

`ImplementsMessageList` is the refinement: `messages`, `nextSeq`, `subscriptions`
and `pending` are the abstract variables, and a subscription is known once its join
has begun. It says in one formula that messages are only added at the front with
the next number, and only removed with their subscription, and all of them then.

## 6. ConnectPanel

A request of the panel is a request of the adapter: `connect` begins `Connect`, or
`RejectConfig` when `BusConnectionConfig` refuses what was entered. `Answered` is
the two handlers of the answer, `AnswerLost` the error handler when the network
fails; the adapter goes on with the request, which it may notice as an abort
(`Abandon`). `Reload` leaves a request behind in the same way and forgets what the
panel knew. `OtherRequest` is everything the other panels and tabs ask for; other
tabs do not connect or disconnect except as requests that a reload left behind. The
run leaves out reply queues, which the adapter treats like other subscriptions, and
most plain sends, which touch nothing the panel depends on.

`ConnectedHasConnection` and `NoPartialConnection` are stated for histories without
overlapping connects and disconnects (`overlapped`), as overlapping ones break
them in the way `adapter_two_connects` shows; what an overlap can do to the connection
is `OrphansAreRaced`'s. One dropped connection may be in such
a history: a connection that is down and will be recovered counts as there.

## 7. FeedDisplay, SendPanel and Page

`FeedDisplay`: `displayState` is a `linkedSignal`. Its source changes with
`MessagesChange` and `togglePause`; `Render` is change detection, which computes it
again (`Compute`), applies the search and tells the rows that start the animation
(`playing`): one that gets the class, or that is created with it. `shownBefore` and
`hidden` are history: which messages were on the screen, and which of them a search took
off it. Events are coalesced, so several may come before one `Render`. Clicks
go to what is on `screen`, which may lag behind or be frozen.

`HighlightIsFresh` is about the animations that start, not about `newSeqs`: none for a
message that came during a pause, none for one that was on the screen before, unless a
search hid it and shows it again, where the code plays it again. `FrozenWhilePaused` says
nothing of the rows of a removed chip: in the code they stay, and the specification wants
them gone (section 9).

`SendPanel`: one action is one input, click or response. `send` captures the content,
`SendSucceeds` records that content and takes the form as it is by then for saved, as
the code does; when recording throws, it does not. A template and a recent send hold a
`Contents` record, with its headers as a function from names to values. The effect that
applies a draft (`applyReplyDraft`, or `DeclineReplyDraft` when the user keeps the
edits) runs with a later change detection: any event may come between. `kept` is a
history variable for `EditsAreGuarded`: the last content that the panel filled in or
that was sent. The code breaks that property (section 9). As `currentSnapshot` does in
the code, it compares exchange, routing key, payload and headers, not the correlation
id. `sendLog` is history for `RecentSendsAreNewest`. `RestoredForms` is a set, because
the order of keys of a JavaScript object, which the rows come back in, is not
represented.

`SendHistory`: an entry of localStorage is the set of the list it holds, empty when
it is missing or unreadable. `SetItem` may throw, after the signal was set: the list on
the screen is then ahead of what is stored until the next write (`outOfStep`), and what
the caller does after it is not done. `OutsideWrite` is another tab writing its own list, or
the user clearing the data; TLC is given the latter.

`Page`: `respond` hands the reply target of a row on the screen to `Request`;
`PageReload` starts both panels anew. No other state is shared, so a step of one
panel leaves the other alone.

Left out: the key order of headers (two maps that differ in order only are the same
here and two snapshots in the code), the order of templates, times, toasts.

## 8. ClassManager

One variable for each field of a manager. `Create` is the construction of all
directives of an element, `FirstEffects` their first effects, which Angular runs
together, `Effect` a later one. A class is written and recorded only when it
differs (`Writes`); `records` are the elements the observer has not been told of,
`ObserverCallback` handles all of them at once, and its own writes make records
again. `Destroy` is the end of all directives of an element.

tailwind-merge is modelled by what it does: classes that set the same property are
a `Group`, and the last one stays (`Applied`). Left out: the order of classes in the
attribute, two outside classes of one group, rendering on a server, and an element
whose directives come and go one by one.

When an effect runs between a change from outside and the observer's callback, it
writes the element from base classes that do not have the change yet: a class that was
removed comes back, one that was added is lost. The code has no defence against that and
no text that speaks of it. `unseen` holds the classes changed from outside that the
observer has not heard of, `overtaken` those that an effect wrote meanwhile, until others
change them again. `NoStrayClass` and `OutsideClassesKept` except these very classes and
no other class of the element.

## 9. The runs

| Run | Checks | Bounds |
|---|---|---|
| `adapter_concurrent` | `IndInv`, `OrphansAreRaced`, `NoUntrackedConsumer`, `EnumerationStable` | two requests, both connect, disconnect and abort; two connections, one channel and handle, one drop |
| `connect_panel` | `PendingMeansWaiting`, `ConnectedHasConnection`, `NoPartialConnection`, `RequestReturns` | two requests, both connect and disconnect, one may abort; one connection, channel and handle; one drop; no reply queues |
| `adapter_two_connects` | `NoOrphanedConnection`, violated | two overlapping connects, nothing else |
| `usecases` | `CoordinatorKnowsSubscriptions`, `ReplyRaceSafe`, `CaughtSendLeavesNoReplyQueue`, `FeedComesFromBuffer`, `FeedInOrder`, `RegisteredStaysOpen` | two requests, one of which connects and disconnects; two connections, channels (reply and send) and handles. In one part a drop, no abort, and no sends of who connects; in the others one connection and one subscription, with an aborting client, or with two messages a channel; refused messages in both |
| `usecases_invalid_message` | `FailedSendLeavesNoReplyQueue`, violated | refused messages, no drop, no abort |
| `usecases_early_message` | `ConsumedIsBroadcast`, violated | one subscription, one waiting message |
| `live_feed` | `LFTypeOK`, `NewestFirst`, `NoGapAfterFirst`, `JoinNeverRacesStart`, `JoinSettles`, `ImplementsMessageList` | two subscriptions of one queue or as replies; two messages each; one drop |
| `live_feed_reconnect` | `JoinedListens`, violated | one drop |
| `live_feed_duplicate` | `NoDuplicateChips`, violated | no drop |
| `page` | `SPTypeOK`, `FDTypeOK`, `ReloadLosesNothing`, `RecentSendsAreNewest`, `TemplateNamesUnique`, `RepliesMatchTheirRequest`, `RecalledHeadersAreSaved`, `HighlightIsFresh`, `CountersCoverScreen`, `NeverShownTwice`, `FrozenWhilePaused` | two subscriptions, three messages of three contents, one search term; two requests in flight, three sends, a history of two, two templates, two header rows, two Responder clicks |
| `page_edits` | `EditsAreGuarded`, violated | as `page` |
| `classes` | `CMTypeOK`, `QuietIsMerged`, `NoStrayClass`, `OutsideClassesKept`, `RecordsSettle`, `TransitionsComeBack` | two elements of two sources, five classes of which three conflict, two changes of sources or from outside |

Why the bounds are enough for the questions asked: the interference the adapter is
exposed to is between a request and one other, while the broker does one thing to
them (one drop, then recovery); an orphan needs two connections, a confusion of
channels needs two channels and two handles. A slot in `Request` is used again
after it returns, so a run holds histories of many requests, limited by fresh
connections, channels and handles. Order needs two messages of one subscription,
scoped clearing two subscriptions. A history of two entries is at its cap with the
third send, and the third send can overtake the second. Connections, channels and
handles run out, so a slot may find none: creating a channel then fails as at the
broker's limit, and `ConnectOpen` leaves `ConnectUnreachable`.

The parts of the page share little state, and their product is large and says
nothing new, so in `page` the user of a behaviour keeps to one of six repertoires of
`MCPage`: clicking and answering rows, the three fields, header fields, overlapping
sends, templates, or the feed with pause and search. Each lets its part do all it
can; the theorems of section 11 hold without repertoires. In `connect_panel` there
is one connection object, so a second connect after a success fails to open another
one: that a connect replaces a connection is `adapter_concurrent`'s, which has two.

`usecases` explores lost connections, aborting clients and deliveries each beside all the
requests, but not with one another: the part a behaviour belongs to is chosen at its
start (`MCUseCases`). Their product is too large, and the theorems hold without parts.

The adapter runs and `classes` never deadlock: a teardown can always be called, an
element always made or destroyed. `LiveFeed` and `Page` turn the deadlock check off:
with every subscription and send used up a tab has nothing left to do.

Aborted requests do leave things behind: a token that fires at the wait for the
semaphore leaves a live consumer that is in no dictionary, and the clean-up of
send-with-reply uses the token that ended the send. The repository says nothing of
aborts, so these are hazards and not findings; `NoUntrackedConsumer` and
`CaughtSendLeavesNoReplyQueue` except them by name and hold beside them.

### Disagreements found

1. Two overlapping connects leave an open, self-recovering connection that nothing
   refers to (`adapter_two_connects`). `openspec/specs/bus-connection/spec.md:57`
   excludes it, for a connect in general.
2. A send-with-reply whose message `BusMessage` refuses leaves its reply queue,
   consumer and registrations (`usecases_invalid_message`), against the comment at
   `SendMessageWithReplyUseCase.cs:19-20`.
3. What a queue delivers between `BasicConsume` and `Register` is acknowledged and
   thrown away (`usecases_early_message`), against
   `openspec/specs/message-consumption/spec.md:51`.
4. After an automatic reconnect no group is joined again (`live_feed_reconnect`),
   against lines 56-59 of the same file.
5. A second submit while the first POST is under way makes a duplicate chip
   (`live_feed_duplicate`), against lines 51 and 93.
6. Text typed while a plain send is in flight counts as saved when the answer comes, and
   the next Responder click replaces it without asking (`page_edits`), against the
   comment at `send.component.ts:190-191` and `openspec/specs/request-reply/spec.md:117`
   ("manual typing").

Also seen, without a run of their own:

* The correlation id is not in `currentSnapshot` (`send.component.ts:179-186`): one typed
  over in reply mode is replaced by the next Responder click without asking
  (`request-reply/spec.md:117`).
* A row that a search hides and shows again is a new element, and `isNewRow` asks only
  whether its number is still in `newSeqs` (`messages.component.ts:155`, template line
  105): it plays the highlight again, also when it has been seen before, and a row that
  arrived hidden plays it when the search is cleared. `ui-presentation/spec.md:124`
  excludes rows "revealed by filtering"; its scenario at 139-143 is about rows that are
  not new; the test at `messages.component.spec.ts:461` has the second case as the code.
* While the feed is paused the rows of a removed chip stay until it is resumed.
  `message-consumption/spec.md:51` and 99 want them removed with the chip, line 79 wants
  the displayed list left alone until the resume.
* A message on its way when its subscription is cleared comes back into `BusHubService`
  (against line 99 of the same file; never displayed). One with a blank payload is
  refused by `BusMessage` after it was acknowledged, and reaches no feed (line 51).
* Of two overlapping teardowns the second may find the field null after its check and
  fail with a `NullReferenceException` (Adapter 104-109), though the comment at Adapter
  74 says "Idempotent"; it is written of a call with nothing connected.
* A closed tab's subscriptions live on at the server (`request-reply/spec.md:23-24`
  expects otherwise); `SendComponent` starts the hub too (`connection-status/spec.md:47`
  names `MessagesComponent` as the sole caller); a send with reply is not recorded in the
  history; two tabs overwrite each other's history.

## 10. Fairness

`FairSpec`: weak fairness of each request's steps and of its response, because
the runtime schedules continuations and the broker answers a call or its failure
is noticed (the client library has timeouts). Strong fairness of the three steps
that take the semaphore, because `SemaphoreSlim` serves its asynchronous waiters
in turn: a waiter is admitted although others take and release the lock over and
over. No fairness of callers, aborts, drops or recovery. `RequestReturns` then
says that no path keeps the semaphore: a teardown whose `CloseAsync` throws
releases it in the `finally`.

`LFFairSpec`: weak fairness of the start settling (it has a timeout), of the hub
serving a call it got, and of an HTTP response reaching the tab. Nothing is
assumed of reconnecting, of users or of messages.

`CPFairSpec`: as `FairSpec`, of the adapter's steps beside the panel; a response is
delivered or its loss is noticed. With `RequestReturns`, `PendingMeansWaiting` says
that the panel is not pending for ever.

`CMFairSpec`: the browser delivers mutation records and runs requested animation
frames. Nothing is assumed of effects or of others.

## 11. What is proved

Every safety property of the passing runs, for all values of the constants and with no
hypothesis beyond the assumptions listed below, and the refinement
`ImplementsMessageList`. Each proof is an inductive invariant that the property follows
from; TLC checked the invariants on small instances first.

### The adapter (`RabbitMqAdapterProofs`)

* `InductiveInvariant`: `IndInv` = `TypeOK`, `LocalsInv` (what a step needs is in
  its locals), `LockInv` (the semaphore is held exactly in the loop of a teardown,
  whose remaining handles are registered and whose visited channels are closed),
  `ChannelInv` (a channel has one owner: the request that created it or took it
  out of the dictionary, or one entry) and `OpInv` (a step belongs to the method that
  was called; only those who may connect tear down). `TypeOK` alone is not inductive:
  that `subscriptionChannels[h]` is a channel after `RegisterSubscription` needs
  `LocalsInv`. Each part is preserved given the earlier ones (`TypeStep`,
  `LocalsStep`, `LockStep`, `ChannelStep`, `OpStep`), with one step for each action.
* `TypeCorrect`: `TypeOK`.
* `EnumerationIsStable`: nobody changes the dictionary under an enumeration. It
  follows from `LockInv`, as the other writers need the semaphore to be free.
* `RegisteredChannelsStayOpen`: from the single owner of `ChannelInv`.
* `OrphansOnlyRaced`: a connection that was not `raced` is never orphaned, with any
  number of overlapping connects and disconnects. `RacedInv` adds what keeps the field in
  place: while such a connection lives, nobody is inside the window. Without `raced` the
  statement is false, as `adapter_two_connects` shows.
* `ConsumersTracked`: every live consumer is in the dictionary, in the hands of a request
  or `abandoned`. `TrackedInv` extends the property to consumers that recovery may bring
  back, without which it is not inductive.

`ConnectionStep`, about the connection while one connect or disconnect at a time is under
way, is a lemma for the connect panel.

### The use cases (`UseCasesProofs`)

`UCInductiveInvariant` is about the composition. `AdapterPart` carries `IndInv` over: a
step of the use cases is a step of the adapter, or leaves it alone, or reenters the port
with the next call of a use case under way, which disturbs nothing either. On top of it,
one layer at a time:

* `PhaseInv` and `HandleInv`: at which step of the adapter each phase of a use case
  can be, and that a handle still in the hands of a use case is known to no client.
  Without the second an unsubscribe could remove a subscription while its subscribe is
  about to register it.
* `CaptureInv`: which handle each callback's closure has captured; each at most once.
* `RegistryInv`: the coordinator against the adapter's dictionary.
* `FeedInv`: what has been broadcast, what is buffered and the one message in between.

From it follow `UCTypeCorrect`, `CoordinatorKnows`, `RepliesAreHeard`,
`BroadcastInOrder` and `FeedFollowsBuffer`, for any number of requests, channels,
handles and messages, with aborts, drops, refused messages and failing broadcasts.
`FailedSendCleansUp` needs more: `ReplyInv`, which says where the reply queue of a request
that is not aborted is at each phase of a send-with-reply, and `CaughtInv`, that only a
send that failed is caught.

### The connect panel (`ConnectPanelProofs`)

* `PendingIsWaiting`: the panel is pending exactly while its request is in flight.
  `PanelInv` adds the types of `pc` and `op`; `StepMovesOn` says once for all steps of
  the adapter that they do not end a request.
* `ConnectedIsConnected` and `FailureKeepsNothing`: what the panel says of the
  connection is so, in histories without overlapping connects and disconnects, which
  is part of the two properties. They need `PanelSafe`: between an answer's computation
  and its arrival the connection may only change by the broker's doing, because the
  request in flight is the only one at the connection. `LifecycleEffect` says what each
  step of a connect or disconnect does to the field.

### The feed (`ArrayFilterProofs`, `LiveFeedProofs`, `PageProofs`)

`Filtered` is `SelectSeq` by positions: the prover knows nothing of the library's
`SelectSeq`, whose definition is recursive, and cannot use its induction theorems,
which take a predicate. `FilteredPicks` says what filtering returns for a list of any
length, by induction over a set of numbers (`NatSetInduction`), which is first-order.

* `JoinsNeverRaceStart`: from `StartInv`: while no connection was lost, started and
  connected are the same.
* `FeedIsMessageList`: the refinement. Every step of `LiveFeed` is a step of
  `MessageList` or leaves its variables alone, given `RefInv`: whatever is on its way
  for a subscription (a hub call, a DELETE, a message) is on its way for one whose
  POST has returned (`WireInv`), and lists and posts agree (`PanelInv`). Without it
  a message could arrive for a subscription the page has never seen.
* `ListIsNewestFirst`: `OrderInv` adds the events on their way, which are in order, come
  after what is in the list and are not ahead of what the server has sent.
* `NothingMissedAfterFirst`: `GapInv` adds that a shown subscription that has had a
  message is in its group as long as no connection was lost, since no leave is under
  way for it. The property alone does not know of groups.
* `LFTypeCorrect`: `LFTypeOK`, which needs that sequence numbers stay below the next.
* `OnlyNewRowsHighlighted`, `RepliesOnlyInTheirPanel`, `CountersAccount` and
  `DisplayTypes`: from `RowsInv`, that a row, however long it was frozen or hidden, is of
  no reply and its message is there as long as its chip is; and `FreshInv`, that a
  message once shown stays a row, on the screen or hidden by a search, and one held back
  by a pause waits for the resume. `HighlightIsFresh` alone is not inductive: a row could
  be forgotten and come back.
* `PauseFreezes`: what is on a paused screen changes by searching only, the rows of
  removed chips aside.

### The send panel (`SendPanelProofs`)

For every set of names and texts, every number of requests in flight and every cap,
over `SPSpec`, which has no repertoires:

* `SendPanelTypes`: `SPTypeOK`, with a lemma for each way a form, a map of headers or
  a list is made (`RowHeadersType`, `ResolvedHeadersType`, `RestoredFormsType`,
  `NewestType`, `RemovedRowType`).
* `RecalledHeaders`: from `HeadersRoundTrip`, that splitting a map of headers into
  fields and rows, in any order, and merging it again gives the map. It needs that
  the rows of a restored form have different keys (`DistinctRows`).
* `ReloadIsLossless`, `UniqueTemplates`, `RecentAreNewest`: from `HistoryStep`, which
  says how the history may change. `UniqueTemplates` is not inductive alone, as a
  reload reads what is stored: the invariant says it of stored templates too.
  `RecentAreNewest` rests on `NewestOfNewest`: capping before a send is added does
  not matter.
* `RepliesGoBack`: with `ReplyModeInv`, which says what the form holds in reply mode,
  since the request that is sent is only as good as the form it is taken from.

`PageRefinesSendPanel` says that every step of the page is one of `SendPanel` or leaves
it alone, so all these theorems hold in the page (`PageRepliesGoBack` is one of them).

### Class managers (`ClassManagerProofs`)

`ClassesInvariant`: of each element, that the class attribute holds nothing but what
sources produce or others put there, with all foreign classes of others, whether the
observer has been told or not; and that the base classes do so but for the changes it has
not been told of. Both except the classes an effect has overtaken (section 8).
Between a change from outside and its record the base classes are out of date, which is
why the four properties speak of elements at rest and none of them is inductive alone.
`AllSetIs` follows the first effects through any number of sources. From it:
`CMTypeCorrect`, `RestIsMerged`, `ClassesHaveSources`, `OthersKeepTheirs`.

### Assumptions

Those the modules state: `None` and the blank texts are not members of the sets they
are told from (`NoneAssumption`, `QueueAssumption`, `ErrorAssumption` and the like), the
sets of header names are disjoint, subsets are subsets, bounds are natural numbers, a
class manager has at least one source (the code makes one for a source), and its
sources and the others each set a property once.

### Only model-checked

* Liveness (`RequestReturns`, `JoinSettles`, `RecordsSettle`, `TransitionsComeBack`),
  because TLAPS does not treat fairness.
* The six violated properties, which are shown by their counterexamples.

## 12. Not modelled

* Controllers and exception mapping, capabilities, the HTTP client, the pretty
  printer, wiring: they keep no state. Which configurations and messages are refused
  is left open; that they may be is in the models.
* The generated components of `frontend/libs/ui`, except `hlm.ts`: inputs and class
  lists without program state.
* The growth of the coordinator's queues, which nothing reads or trims.
* A second tab, except that it may tear down the server's state, and clear what is
  stored. Restarts of the server, which for a tab are a dropped hub connection and a
  broker teardown.
* Texts: labels, toasts, error messages, the values of the connection form.
