------------------------------ MODULE UseCases ------------------------------
(***************************************************************************)
(* The application layer on top of the RabbitMQ adapter: the subscribe,    *)
(* unsubscribe and send-with-reply use cases, the SubscriptionCoordinator  *)
(* they share, and the consumer callbacks that run beside the requests.    *)
(*                                                                         *)
(* phase[r] is how far request r's use case has got; its calls of the port *)
(* are the adapter's own steps.  What the code does between two awaits of  *)
(* a use case runs in parallel with the callbacks, so each write the       *)
(* callbacks can see is a step of its own.                                 *)
(***************************************************************************)
EXTENDS RabbitMqAdapter, Sequences

CONSTANTS
    InvalidMessages,    \* whether there are messages BusMessage refuses, sent or received
    MaxMessages         \* bound: messages delivered on one channel

ASSUME MessagesAssumption == InvalidMessages \in BOOLEAN /\ MaxMessages \in Nat

\* A queue of messages is an object.
ASSUME QueueAssumption == None \notin Seq(Nat)

VARIABLES
    phase,              \* progress of r's use case
    queueName,          \* r's local queueName: the channel of its reply queue
    known,              \* handles a client has received in a response
    caught,             \* the exception r's catch block rethrows
    messagesByHandle,   \* the coordinator's registry: buffered messages, or None
    captured,           \* the variable handle a channel's OnMessage closes over
    replyQueues,        \* channels whose queue is a temporary reply queue
    published,          \* reply queues named in a message the broker has taken
    stage,              \* what a channel's OnMessage is doing
    count,              \* messages the broker has delivered on a channel
    feed,               \* messages broadcast for a handle, in order
    dropped             \* channels on which a delivered message was discarded or refused

useCase     == <<phase, queueName, known, caught>>
coordinator == <<messagesByHandle, captured>>
queues      == <<replyQueues, published>>
deliveries  == <<stage, count, feed, dropped>>
ucVars      == <<vars, useCase, coordinator, queues, deliveries>>

Phases == {"none", "subscribe", "register", "unsubscribe", "declare", "registerReply",
           "publish", "send", "cleanup", "complete", "failed"}

PortReturned(r, p, ok) ==
    pc[r] = "done" /\ phase[r] = p /\ (outcome[r] = "ok" <=> ok)

Proceed(r, p) == phase' = [phase EXCEPT ![r] = p]

-----------------------------------------------------------------------------
(* SubscribeUseCase and UnsubscribeUseCase *)

SubscribeCommand(r) ==
    /\ Subscribe(r)
    /\ Proceed(r, "subscribe")
    /\ UNCHANGED <<queueName, known, caught, coordinator, queues, deliveries>>

\* Mutant: the send-with-reply use case goes on to send without registering its handle.
AssignHandleUnregistered(r) ==
    /\ \/ PortReturned(r, "subscribe", TRUE) /\ Proceed(r, "register") /\ UNCHANGED queueName
       \/ /\ PortReturned(r, "declare", TRUE) /\ Proceed(r, "publish")
          /\ queueName' = [queueName EXCEPT ![r] = channel[r]]
    /\ captured' = [captured EXCEPT ![channel[r]] = handle[r]]
    /\ UNCHANGED <<vars, known, caught, messagesByHandle, queues, deliveries>>

\* handle = registeredHandle: from here on the callback knows its subscription.
AssignHandle(r) ==
    /\ \/ PortReturned(r, "subscribe", TRUE) /\ Proceed(r, "register") /\ UNCHANGED queueName
       \/ /\ PortReturned(r, "declare", TRUE) /\ Proceed(r, "registerReply")
          /\ queueName' = [queueName EXCEPT ![r] = channel[r]]
    /\ captured' = [captured EXCEPT ![channel[r]] = handle[r]]
    /\ UNCHANGED <<vars, known, caught, messagesByHandle, queues, deliveries>>

\* _coordinator.Register(registeredHandle)
RegisterHandle(r) ==
    /\ \/ phase[r] = "register" /\ Proceed(r, "complete")
       \/ phase[r] = "registerReply" /\ Proceed(r, "publish")
    /\ messagesByHandle' = [messagesByHandle EXCEPT ![handle[r]] = << >>]
    /\ UNCHANGED <<vars, queueName, known, caught, captured, queues, deliveries>>

\* Mutant: the coordinator forgets the subscription before the port has ended it.
UnsubscribeCommandForgets(r, h) ==
    /\ Unsubscribe(r, h)
    /\ Proceed(r, "unsubscribe")
    /\ messagesByHandle' = [messagesByHandle EXCEPT ![h] = None]
    /\ UNCHANGED <<queueName, known, caught, captured, queues, deliveries>>

\* A client unsubscribes a handle it was given, perhaps for the second time.
UnsubscribeCommand(r, h) ==
    /\ Unsubscribe(r, h)
    /\ Proceed(r, "unsubscribe")
    /\ UNCHANGED <<queueName, known, caught, coordinator, queues, deliveries>>

\* _coordinator.Unregister(handle), once the port has unsubscribed.
UnregisterHandle(r) ==
    /\ PortReturned(r, "unsubscribe", TRUE)
    /\ messagesByHandle' = [messagesByHandle EXCEPT ![handle[r]] = None]
    /\ Proceed(r, "complete")
    /\ UNCHANGED <<vars, queueName, known, caught, captured, queues, deliveries>>

-----------------------------------------------------------------------------
(* SendMessageWithReplyUseCase *)

SendWithReplyCommand(r) ==
    /\ DeclareReply(r)
    /\ Proceed(r, "declare")
    /\ UNCHANGED <<queueName, known, caught, coordinator, queues, deliveries>>

\* new BusMessage(...) refuses a target of blanks and a blank payload:
\* ArgumentException, thrown before the try.
RejectMessage(r) ==
    /\ InvalidMessages
    /\ phase[r] = "publish"
    /\ outcome' = [outcome EXCEPT ![r] = "fault"]
    /\ Proceed(r, "failed")
    /\ UNCHANGED <<pc, op, locals, cancelled, adapter, issued, broker, queueName, known, caught, coordinator,
                   queues, deliveries>>

\* await _busPort.SendAsync(message, ct)
SendMessage(r) ==
    /\ phase[r] = "publish"
    /\ EnterSend(r)
    /\ Proceed(r, "send")
    /\ UNCHANGED <<queueName, known, caught, coordinator, queues, deliveries>>

SendSucceeded(r) ==
    /\ PortReturned(r, "send", TRUE)
    /\ Proceed(r, "complete")
    /\ UNCHANGED <<vars, queueName, known, caught, coordinator, queues, deliveries>>

\* Mutant: a failed send is rethrown without the clean-up.
SendFailedNoCleanup(r) ==
    /\ PortReturned(r, "send", FALSE)
    /\ caught' = [caught EXCEPT ![r] = outcome[r]]
    /\ Proceed(r, "failed")
    /\ UNCHANGED <<vars, queueName, known, coordinator, queues, deliveries>>

\* catch: await _busPort.UnsubscribeAsync(registeredHandle, ct)
SendFailed(r) ==
    /\ PortReturned(r, "send", FALSE)
    /\ caught' = [caught EXCEPT ![r] = outcome[r]]
    /\ EnterUnsubscribe(r, handle[r])
    /\ Proceed(r, "cleanup")
    /\ UNCHANGED <<queueName, known, coordinator, queues, deliveries>>

\* _coordinator.Unregister(registeredHandle); throw;
CleanedUp(r) ==
    /\ PortReturned(r, "cleanup", TRUE)
    /\ messagesByHandle' = [messagesByHandle EXCEPT ![handle[r]] = None]
    /\ outcome' = [outcome EXCEPT ![r] = caught[r]]
    /\ Proceed(r, "failed")
    /\ UNCHANGED <<pc, op, locals, cancelled, adapter, issued, broker, queueName, known, caught, captured,
                   queues, deliveries>>

\* An exception of the port that no catch of the use case handles.
Failed(r) ==
    /\ \E p \in {"subscribe", "declare", "unsubscribe", "cleanup"} : PortReturned(r, p, FALSE)
    /\ Proceed(r, "failed")
    /\ UNCHANGED <<vars, queueName, known, caught, coordinator, queues, deliveries>>

-----------------------------------------------------------------------------
(* The callback OnMessage and SubscriptionCoordinator.OnMessageReceivedAsync. *)
(* The client library runs one callback of a channel at a time.              *)

\* Mutant: the callback broadcasts without storing the message.
DeliverWithoutStoring(k) ==
    /\ Live(k) /\ stage[k] = "idle" /\ count[k] < MaxMessages
    /\ k \in replyQueues => k \in published
    /\ count' = [count EXCEPT ![k] = @ + 1]
    /\ IF captured[k] # None /\ messagesByHandle[captured[k]] # None
       THEN stage' = [stage EXCEPT ![k] = "broadcast"] /\ UNCHANGED dropped
       ELSE dropped' = dropped \cup {k} /\ UNCHANGED stage
    /\ UNCHANGED <<vars, useCase, coordinator, queues, feed>>

\* A delivery (autoAck: the broker forgets the message). The callback asks for its
\* handle and for the queue of the coordinator; either may be missing.
Deliver(k) ==
    /\ Live(k) /\ stage[k] = "idle" /\ count[k] < MaxMessages
    /\ k \in replyQueues => k \in published
    /\ count' = [count EXCEPT ![k] = @ + 1]
    /\ IF captured[k] # None /\ messagesByHandle[captured[k]] # None
       THEN stage' = [stage EXCEPT ![k] = "enqueue"] /\ UNCHANGED dropped
       ELSE dropped' = dropped \cup {k} /\ UNCHANGED stage
    /\ UNCHANGED <<vars, useCase, coordinator, queues, feed>>

\* A delivery with a blank payload: new BusMessage throws in the consumer's event
\* handler, before the callback, and the client library goes on.
DeliverRefused(k) ==
    /\ InvalidMessages
    /\ Live(k) /\ stage[k] = "idle" /\ count[k] < MaxMessages
    /\ k \in replyQueues => k \in published
    /\ count' = [count EXCEPT ![k] = @ + 1]
    /\ dropped' = dropped \cup {k}
    /\ UNCHANGED <<vars, useCase, coordinator, queues, stage, feed>>

\* queue.Enqueue(message): into the registry, unless the queue was removed meanwhile.
Enqueue(k) ==
    /\ stage[k] = "enqueue"
    /\ messagesByHandle' =
         [messagesByHandle EXCEPT ![captured[k]] = IF @ = None THEN None ELSE Append(@, count[k])]
    /\ stage' = [stage EXCEPT ![k] = "broadcast"]
    /\ UNCHANGED <<vars, useCase, captured, queues, count, feed, dropped>>

\* Mutant: the broadcast is sent twice.
BroadcastTwice(k) ==
    /\ stage[k] = "broadcast"
    /\ feed' = [feed EXCEPT ![captured[k]] = @ \o <<count[k], count[k]>>]
    /\ stage' = [stage EXCEPT ![k] = "idle"]
    /\ UNCHANGED <<vars, useCase, coordinator, queues, count, dropped>>

\* await _broadcaster.BroadcastAsync(handle, message, ct), and the callback is over.
Broadcast(k) ==
    /\ stage[k] = "broadcast"
    /\ feed' = [feed EXCEPT ![captured[k]] = Append(@, count[k])]
    /\ stage' = [stage EXCEPT ![k] = "idle"]
    /\ UNCHANGED <<vars, useCase, coordinator, queues, count, dropped>>

\* BroadcastAsync throws: the message stays in the buffer and reaches no feed.
BroadcastFails(k) ==
    /\ stage[k] = "broadcast"
    /\ stage' = [stage EXCEPT ![k] = "idle"]
    /\ UNCHANGED <<vars, useCase, coordinator, queues, count, feed, dropped>>

-----------------------------------------------------------------------------
\* A step of the port: the broker learns of a reply queue when it is declared, and
\* others learn its name when the message that carries it is published, which a publish
\* that was aborted or lost its channel may have been as well.
PortStep(r) ==
    /\ Step(r)
    /\ replyQueues' = IF pc[r] = "declareQueue" /\ pc'[r] = "consume"
                      THEN replyQueues \cup {channel[r]} ELSE replyQueues
    /\ IF pc[r] = "publish" /\ phase[r] = "send"
       THEN \/ published' = published \cup {queueName[r]}
            \/ outcome'[r] # "ok" /\ UNCHANGED published
       ELSE UNCHANGED published
    /\ UNCHANGED <<useCase, coordinator, deliveries>>

\* The other endpoints call the port and nothing else.
OtherCommand(r) ==
    /\ Connect(r) \/ Disconnect(r) \/ Send(r)
    /\ UNCHANGED <<useCase, coordinator, queues, deliveries>>

\* The response; one to an aborted request reaches nobody.
Respond(r) ==
    /\ phase[r] \in {"none", "complete", "failed"}
    /\ Return(r)
    /\ Proceed(r, "none")
    /\ queueName' = [queueName EXCEPT ![r] = None]
    /\ caught' = [caught EXCEPT ![r] = "ok"]
    /\ known' = IF phase[r] = "complete" /\ ~cancelled[r] THEN known \cup {handle[r]} ELSE known
    /\ UNCHANGED <<coordinator, queues, deliveries>>

Environment ==
    /\ \/ \E r \in Request : Cancel(r)
       \/ \E c \in Conn : Drop(c) \/ Recover(c)
    /\ UNCHANGED <<useCase, coordinator, queues, deliveries>>

UCInit ==
    /\ Init
    /\ phase = [r \in Request |-> "none"]
    /\ queueName = [r \in Request |-> None]
    /\ known = {}
    /\ caught = [r \in Request |-> "ok"]
    /\ messagesByHandle = [h \in Handle |-> None]
    /\ captured = [k \in Channel |-> None]
    /\ replyQueues = {}
    /\ published = {}
    /\ stage = [k \in Channel |-> "idle"]
    /\ count = [k \in Channel |-> 0]
    /\ feed = [h \in Handle |-> << >>]
    /\ dropped = {}

Command(r) ==
    \/ SubscribeCommand(r) \/ SendWithReplyCommand(r) \/ OtherCommand(r)
    \/ \E h \in known : UnsubscribeCommand(r, h)

Continue(r) ==
    \/ AssignHandle(r) \/ RegisterHandle(r) \/ UnregisterHandle(r)
    \/ RejectMessage(r) \/ SendMessage(r) \/ SendSucceeded(r) \/ SendFailed(r) \/ CleanedUp(r)
    \/ Failed(r) \/ Respond(r)

Callback(k) ==
    Deliver(k) \/ DeliverRefused(k) \/ Enqueue(k) \/ Broadcast(k) \/ BroadcastFails(k)

UCNext ==
    \/ \E r \in Request : Command(r) \/ PortStep(r) \/ Continue(r)
    \/ \E k \in Channel : Callback(k)
    \/ Environment

UCSpec == UCInit /\ [][UCNext]_ucVars

-----------------------------------------------------------------------------
(* Properties *)

UCTypeOK ==
    /\ TypeOK
    /\ phase \in [Request -> Phases]
    /\ queueName \in [Request -> Channel \cup {None}]
    /\ caught \in [Request -> Outcomes]
    /\ known \subseteq Handle
    /\ messagesByHandle \in [Handle -> Seq(1..MaxMessages) \cup {None}]
    /\ captured \in [Channel -> Handle \cup {None}]
    /\ replyQueues \subseteq Channel /\ published \subseteq Channel /\ dropped \subseteq Channel
    /\ stage \in [Channel -> {"idle", "enqueue", "broadcast"}]
    /\ count \in [Channel -> 0..MaxMessages]
    /\ feed \in [Handle -> Seq(1..MaxMessages)]

\* A subscription the adapter holds, and keeps consuming for, is known to the
\* coordinator, which otherwise discards what is consumed; the only gap is between
\* the port's return and Register in the request that created it.
CoordinatorKnowsSubscriptions ==
    \A h \in Registered : messagesByHandle[h] = None =>
        \E r \in Request :
            handle[r] = h /\ phase[r] \in {"subscribe", "register", "declare", "registerReply"}

\* SendMessageWithReplyUseCase subscribes before it sends: once the message that names
\* the reply queue is out, so that a reply may come, the callback and the coordinator
\* know the subscription for as long as the adapter has it.
ReplyRaceSafe ==
    \A k \in published :
        /\ captured[k] # None
        /\ subscriptionChannels[captured[k]] = k => messagesByHandle[captured[k]] # None

\* Nothing is left of a reply queue: no consumer, and no dictionary entry.
QueueGone(k) == ~Alive(chanState[k]) /\ \A h \in Handle : subscriptionChannels[h] # k

\* "No orphaned temp queue is left registered for a message that was never
\* published": when the send-with-reply use case throws, nothing is left of the reply
\* queue it declared.
FailedSendLeavesNoReplyQueue ==
    \A r \in Request : phase[r] = "failed" /\ queueName[r] # None => QueueGone(queueName[r])

\* As far as the code keeps that promise: the catch block cleans up after each send it
\* sees fail, beside teardowns, lost connections, aborts of other requests and replies
\* that come all the same. Only a client that goes away itself cuts it short.
CaughtSendLeavesNoReplyQueue ==
    \A r \in Request : phase[r] = "failed" /\ caught[r] # "ok" =>
        cancelled[r] \/ QueueGone(queueName[r])

\* The numbers of the messages in s.
Elements(s) == {s[i] : i \in 1..Len(s)}

\* What the feed has shown of a subscription the coordinator has buffered for it:
\* nothing is broadcast before it is stored, also if the subscription ends meanwhile.
FeedComesFromBuffer ==
    \A h \in Handle : messagesByHandle[h] # None =>
        Elements(feed[h]) \subseteq Elements(messagesByHandle[h])

\* A subscription's messages are broadcast in the order they were delivered, each once.
FeedInOrder ==
    \A h \in Handle : \A i, j \in 1..Len(feed[h]) : i < j => feed[h][i] < feed[h][j]

\* "Each consumed message" is pushed to the UI: a message is discarded only on a
\* subscription that was unregistered.
ConsumedIsBroadcast ==
    \A k \in dropped : captured[k] # None /\ messagesByHandle[captured[k]] = None
=============================================================================
