--------------------------- MODULE RabbitMqAdapter ---------------------------
(***************************************************************************)
(* The RabbitMQ implementation of the bus port: one process-wide adapter   *)
(* object, called concurrently by HTTP requests.  Every await of the code  *)
(* is a point where the other requests run, so an operation is a sequence  *)
(* of steps, pc[r] naming the one request r performs next.                 *)
(*                                                                         *)
(* The three fields of the object are subscriptionChannels (the            *)
(* dictionary), subscriptionsLock (the semaphore that guards it) and       *)
(* connection, which is guarded by nothing.  The broker and its client     *)
(* library are external: a connection or a channel is unused (not created  *)
(* yet), open, down (lost, the client's automatic recovery may bring it    *)
(* back) or closed for good.  Closing and disposing are not told apart.    *)
(***************************************************************************)
EXTENDS Naturals, FiniteSets

CONSTANTS
    Request,            \* HTTP requests that can be in flight together
    LifecycleRequest,   \* those that may call Connect and Disconnect
    Cancellable,        \* those whose client may abort the HTTP request
    Conn,               \* broker connections
    Channel,            \* broker channels
    Handle,             \* subscription handles (fresh GUIDs)
    None,               \* C# null
    MaxDrops            \* bound: how many times the broker drops a connection

ASSUME RequestsAssumption ==
    /\ LifecycleRequest \subseteq Request
    /\ Cancellable \subseteq Request

ASSUME NoneAssumption ==
    /\ None \notin Request
    /\ None \notin Conn
    /\ None \notin Channel
    /\ None \notin Handle

ASSUME DropsAssumption == MaxDrops \in Nat

VARIABLES
    pc,                     \* the step request r performs next
    op,                     \* the adapter method r is in
    conn,                   \* r's local variable connection
    channel,                \* r's local variable channel
    handle,                 \* r's argument or result
    todo,                   \* handles r's foreach has not visited yet
    outcome,                \* how r's call ended
    cancelled,              \* r's CancellationToken
    subscriptionChannels,   \* field: the dictionary, None where absent
    subscriptionsLock,      \* field: the request holding the semaphore
    connection,             \* field
    issued,                 \* handles already handed out
    connState, chanState,   \* state of each connection and channel
    chanConn,               \* the connection a channel was created on
    consuming,              \* channels with a consumer at the broker
    drops,                  \* connections dropped so far
    raced,                  \* history: connections assigned inside another's window
    abandoned               \* history: channels whose request was aborted holding them

adapter == <<subscriptionChannels, subscriptionsLock, connection>>
locals  == <<conn, channel, handle, todo>>
history == <<raced, abandoned>>
broker  == <<connState, chanState, chanConn, consuming, drops, history>>
vars    == <<pc, op, locals, outcome, cancelled, adapter, issued, broker>>

TeardownSteps == {"tdLock", "tdLoop", "tdChannel", "tdCheck", "tdIsOpen",
                  "tdClose", "tdDispose", "tdNull"}
Steps == TeardownSteps \cup
    {"idle", "connecting", "createChannel", "declareQueue", "consume", "register",
     "remove", "closeChannel", "disposeChannel", "declareExchange", "publish",
     "disposeSend", "done"}
Ops == {"connect", "disconnect", "subscribe", "declareReply", "unsubscribe", "send"}
Link == {"unused", "open", "down", "closed"}

\* What the caller sees: success, one of the three typed domain exceptions, the
\* token's OperationCanceledException, or an exception nobody translates.
Outcomes == {"ok", "connection", "subscription", "publish", "cancelled", "fault"}

Registered == {h \in Handle : subscriptionChannels[h] # None}
Free == subscriptionsLock = None
Alive(s) == s \in {"open", "down"}
Live(k) == chanState[k] = "open" /\ consuming[k]

-----------------------------------------------------------------------------
(* Steps of a request *)

Goto(r, l) == pc' = [pc EXCEPT ![r] = l]

Finish(r, o) ==
    /\ pc' = [pc EXCEPT ![r] = "done"]
    /\ outcome' = [outcome EXCEPT ![r] = o]

Idle(r) == pc[r] = "idle"

\* A method starts at its first step.
Begin(r, o, l) ==
    /\ op' = [op EXCEPT ![r] = o]
    /\ Goto(r, l)

\* Mutant: the null check of RequireConnection is forgotten.
UseConnectionUnchecked(r, o) ==
    /\ op' = [op EXCEPT ![r] = o]
    /\ conn' = [conn EXCEPT ![r] = connection]
    /\ Goto(r, "createChannel")
    /\ UNCHANGED <<channel, handle, todo, outcome, cancelled, adapter, issued, broker>>

\* The methods that take the connection into a local variable at entry, or throw.
UseConnection(r, o) ==
    /\ op' = [op EXCEPT ![r] = o]
    /\ IF connection = None
       THEN Finish(r, "connection") /\ UNCHANGED conn
       ELSE /\ Goto(r, "createChannel")
            /\ conn' = [conn EXCEPT ![r] = connection]
            /\ UNCHANGED outcome
    /\ UNCHANGED <<channel, handle, todo, cancelled, adapter, issued, broker>>

\* The effect on channels of closing or losing their connection c.
ChannelsFollow(c, from, to) ==
    chanState' = [k \in Channel |->
                    IF chanConn[k] = c /\ chanState[k] \in from THEN to ELSE chanState[k]]

CloseConn(c) ==
    /\ connState' = [connState EXCEPT ![c] = "closed"]
    /\ ChannelsFollow(c, {"open", "down"}, "closed")
    /\ UNCHANGED <<chanConn, consuming, drops, history>>

CloseChan(k) ==
    /\ chanState' = [chanState EXCEPT ![k] = "closed"]
    /\ UNCHANGED <<connState, chanConn, consuming, drops, history>>

\* The network round trip of r on its channel fails: the channel is not open any more.
ChannelLost(r) == chanState[channel[r]] # "open"

-----------------------------------------------------------------------------
(* ConnectAsync, DisconnectAsync and the teardown they share *)

\* Mutant: a connect while connected does not tear the old connection down.
ConnectWithoutTeardown(r) ==
    /\ Idle(r) /\ r \in LifecycleRequest
    /\ Begin(r, "connect", "connecting")
    /\ UNCHANGED <<locals, outcome, cancelled, adapter, issued, broker>>

Connect(r) ==
    /\ Idle(r) /\ r \in LifecycleRequest
    /\ Begin(r, "connect", "tdLock")
    /\ UNCHANGED <<locals, outcome, cancelled, adapter, issued, broker>>

Disconnect(r) ==
    /\ Idle(r) /\ r \in LifecycleRequest
    /\ Begin(r, "disconnect", "tdLock")
    /\ UNCHANGED <<locals, outcome, cancelled, adapter, issued, broker>>

\* await _subscriptionsLock.WaitAsync(ct), then the foreach takes its enumerator.
TeardownLock(r) ==
    /\ pc[r] = "tdLock" /\ Free /\ ~cancelled[r]
    /\ subscriptionsLock' = r
    /\ todo' = [todo EXCEPT ![r] = Registered]
    /\ Goto(r, "tdLoop")
    /\ UNCHANGED <<op, conn, channel, handle, outcome, cancelled, subscriptionChannels,
                   connection, issued, broker>>

\* Mutant: the foreach skips channels that are not open instead of disposing them.
TeardownChannelIfOpen(r) ==
    /\ pc[r] = "tdLoop"
    /\ \E h \in todo[r] :
         LET k == subscriptionChannels[h] IN
         /\ todo' = [todo EXCEPT ![r] = @ \ {h}]
         /\ channel' = [channel EXCEPT ![r] = k]
         /\ Goto(r, IF chanState[k] = "open" THEN "tdChannel" ELSE "tdLoop")
    /\ UNCHANGED <<op, conn, handle, outcome, cancelled, adapter, issued, broker>>

\* One turn of the foreach: an open channel is to be closed first (an await), one
\* that is not open is only disposed.
TeardownChannel(r) ==
    /\ pc[r] = "tdLoop"
    /\ \E h \in todo[r] :
         LET k == subscriptionChannels[h] IN
         /\ todo' = [todo EXCEPT ![r] = @ \ {h}]
         /\ channel' = [channel EXCEPT ![r] = k]
         /\ IF chanState[k] = "open"
            THEN Goto(r, "tdChannel") /\ UNCHANGED broker
            ELSE Goto(r, "tdLoop") /\ CloseChan(k)
    /\ UNCHANGED <<op, conn, handle, outcome, cancelled, adapter, issued>>

\* CloseAsync and DisposeAsync have returned.
TeardownChannelClosed(r) ==
    /\ pc[r] = "tdChannel"
    /\ CloseChan(channel[r])
    /\ Goto(r, "tdLoop")
    /\ UNCHANGED <<op, locals, outcome, cancelled, adapter, issued>>

\* CloseAsync throws, cancelled or because the connection went away under it; the
\* close may or may not have been performed. The finally releases the lock and the
\* dictionary keeps its entries.
TeardownChannelThrows(r) ==
    /\ pc[r] = "tdChannel"
    /\ cancelled[r] \/ connState[chanConn[channel[r]]] # "open"
    /\ CloseChan(channel[r]) \/ UNCHANGED broker
    /\ Finish(r, IF cancelled[r] THEN "cancelled" ELSE "fault")
    /\ subscriptionsLock' = None
    /\ UNCHANGED <<op, locals, cancelled, subscriptionChannels, connection, issued>>

\* Mutant: an empty dictionary is left early, with the semaphore taken.
TeardownClearStaysLocked(r) ==
    /\ pc[r] = "tdLoop" /\ todo[r] = {}
    /\ subscriptionChannels' = [h \in Handle |-> None]
    /\ subscriptionsLock' = IF Registered = {} THEN r ELSE None
    /\ Goto(r, "tdCheck")
    /\ UNCHANGED <<op, locals, outcome, cancelled, connection, issued, broker>>

\* End of the loop: Clear and Release.
TeardownClear(r) ==
    /\ pc[r] = "tdLoop" /\ todo[r] = {}
    /\ subscriptionChannels' = [h \in Handle |-> None]
    /\ subscriptionsLock' = None
    /\ Goto(r, "tdCheck")
    /\ UNCHANGED <<op, locals, outcome, cancelled, connection, issued, broker>>

\* Where the teardown returns to.
TeardownReturns(r) ==
    IF op[r] = "connect"
    THEN Goto(r, "connecting") /\ UNCHANGED outcome
    ELSE Finish(r, "ok")

\* if (_connection is null) return;
TeardownCheck(r) ==
    /\ pc[r] = "tdCheck"
    /\ IF connection = None
       THEN TeardownReturns(r)
       ELSE Goto(r, "tdIsOpen") /\ UNCHANGED outcome
    /\ UNCHANGED <<op, locals, cancelled, adapter, issued, broker>>

\* Each of the steps below reads the field again: null there is a
\* NullReferenceException.
NullReference(r) ==
    /\ pc[r] \in {"tdIsOpen", "tdClose", "tdDispose"}
    /\ connection = None
    /\ Finish(r, "fault")
    /\ UNCHANGED <<op, locals, cancelled, adapter, issued, broker>>

TeardownIsOpen(r) ==
    /\ pc[r] = "tdIsOpen" /\ connection # None
    /\ Goto(r, IF connState[connection] = "open" THEN "tdClose" ELSE "tdDispose")
    /\ UNCHANGED <<op, locals, outcome, cancelled, adapter, issued, broker>>

\* await _connection.CloseAsync(ct)
TeardownClose(r) ==
    /\ pc[r] = "tdClose" /\ connection # None /\ connState[connection] = "open"
    /\ CloseConn(connection)
    /\ Goto(r, "tdDispose")
    /\ UNCHANGED <<op, locals, outcome, cancelled, adapter, issued>>

\* The connection stopped being open after IsOpen was read: the library closes
\* what is left without complaint, or throws.
TeardownCloseLate(r) ==
    /\ pc[r] = "tdClose" /\ connection # None /\ connState[connection] # "open"
    /\ \/ Goto(r, "tdDispose") /\ UNCHANGED outcome
       \/ Finish(r, "fault")
    /\ UNCHANGED <<op, locals, cancelled, adapter, issued, broker>>

\* await _connection.DisposeAsync(), which also ends automatic recovery.
TeardownDispose(r) ==
    /\ pc[r] = "tdDispose" /\ connection # None
    /\ CloseConn(connection)
    /\ Goto(r, "tdNull")
    /\ UNCHANGED <<op, locals, outcome, cancelled, adapter, issued>>

\* _connection = null
TeardownNull(r) ==
    /\ pc[r] = "tdNull"
    /\ connection' = None
    /\ TeardownReturns(r)
    /\ UNCHANGED <<op, locals, cancelled, subscriptionChannels, subscriptionsLock,
                   issued, broker>>

\* Another request has disposed of the connection it found and is about to set the
\* field to null, or waits for one of its own to assign.
InsideWindow(r) == \E q \in Request \ {r} : pc[q] \in {"tdNull", "connecting"}

\* _connection = await factory.CreateConnectionAsync(ct)
ConnectOpen(r) ==
    /\ pc[r] = "connecting" /\ ~cancelled[r]
    /\ \E c \in Conn :
         /\ connState[c] = "unused"
         /\ connState' = [connState EXCEPT ![c] = "open"]
         /\ connection' = c
         /\ raced' = IF InsideWindow(r) THEN raced \cup {c} ELSE raced
    /\ Finish(r, "ok")
    /\ UNCHANGED <<op, locals, cancelled, subscriptionChannels, subscriptionsLock, issued,
                   chanState, chanConn, consuming, drops, abandoned>>

\* The broker cannot be reached: BusConnectionException.
ConnectUnreachable(r) ==
    /\ pc[r] = "connecting"
    /\ Finish(r, "connection")
    /\ UNCHANGED <<op, locals, cancelled, adapter, issued, broker>>

-----------------------------------------------------------------------------
(* SubscribeAsync and DeclareTemporaryReplyQueueAndSubscribeAsync *)

Subscribe(r) == Idle(r) /\ UseConnection(r, "subscribe")
DeclareReply(r) == Idle(r) /\ UseConnection(r, "declareReply")

\* connection.CreateChannelAsync on the local copy; the first await of a
\* subscription and of a send.
CreateChannel(r) ==
    /\ pc[r] = "createChannel" /\ ~cancelled[r]
    /\ connState[conn[r]] = "open"
    /\ \E k \in Channel :
         /\ chanState[k] = "unused"
         /\ chanState' = [chanState EXCEPT ![k] = "open"]
         /\ chanConn' = [chanConn EXCEPT ![k] = conn[r]]
         /\ channel' = [channel EXCEPT ![r] = k]
    /\ \/ op[r] = "subscribe" /\ Goto(r, "consume")
       \/ op[r] = "declareReply" /\ Goto(r, "declareQueue")
       \/ op[r] = "send" /\ pc' \in {[pc EXCEPT ![r] = l] : l \in {"declareExchange", "publish"}}
    /\ UNCHANGED <<op, conn, handle, todo, outcome, cancelled, adapter, issued, connState,
                   consuming, drops, history>>

\* The domain exception a broker failure inside the method's try is turned into.
Translated(r) == IF op[r] = "send" THEN "publish" ELSE "subscription"

\* The local connection is not open any more (AlreadyClosedException, translated;
\* ObjectDisposedException, not), or the broker's channel limit is reached (not).
CreateChannelFails(r) ==
    /\ pc[r] = "createChannel"
    /\ \/ connState[conn[r]] # "open" /\ Finish(r, Translated(r))
       \/ connState[conn[r]] = "closed" /\ Finish(r, "fault")
       \/ (\A k \in Channel : chanState[k] # "unused") /\ Finish(r, "fault")
    /\ UNCHANGED <<op, locals, cancelled, adapter, issued, broker>>

\* QueueDeclareAsync of the temporary queue. The queue lives as long as the
\* consumer on it, so the channel stands for both.
DeclareQueue(r) ==
    /\ pc[r] = "declareQueue" /\ ~ChannelLost(r) /\ ~cancelled[r]
    /\ Goto(r, "consume")
    /\ UNCHANGED <<op, locals, outcome, cancelled, adapter, issued, broker>>

\* BasicConsumeAsync: deliveries start here, before the handle is registered.
Consume(r) ==
    /\ pc[r] = "consume" /\ ~ChannelLost(r) /\ ~cancelled[r]
    /\ consuming' = [consuming EXCEPT ![channel[r]] = TRUE]
    /\ Goto(r, "register")
    /\ UNCHANGED <<op, locals, outcome, cancelled, adapter, issued, connState, chanState,
                   chanConn, drops, history>>

\* The queue does not exist, so the broker closes the channel, or the channel is
\* already lost: BusSubscriptionException. The channel is not disposed.
WireFails(r) ==
    /\ \/ pc[r] = "consume" /\ op[r] = "subscribe" /\ ~ChannelLost(r) /\ CloseChan(channel[r])
       \/ pc[r] \in {"declareQueue", "consume"} /\ ChannelLost(r) /\ UNCHANGED broker
    /\ Finish(r, "subscription")
    /\ UNCHANGED <<op, locals, cancelled, adapter, issued>>

\* Mutant: the dictionary is written without taking the semaphore.
RegisterSubscriptionUnlocked(r) ==
    /\ pc[r] = "register" /\ ~cancelled[r]
    /\ \E h \in Handle \ issued :
         /\ issued' = issued \cup {h}
         /\ handle' = [handle EXCEPT ![r] = h]
         /\ subscriptionChannels' = [subscriptionChannels EXCEPT ![h] = channel[r]]
    /\ Finish(r, "ok")
    /\ UNCHANGED <<op, conn, channel, todo, cancelled, subscriptionsLock, connection, broker>>

\* RegisterSubscriptionAsync. Nothing is awaited while the lock is held, so the
\* critical section is one step.
RegisterSubscription(r) ==
    /\ pc[r] = "register" /\ Free /\ ~cancelled[r]
    /\ \E h \in Handle \ issued :
         /\ issued' = issued \cup {h}
         /\ handle' = [handle EXCEPT ![r] = h]
         /\ subscriptionChannels' = [subscriptionChannels EXCEPT ![h] = channel[r]]
    /\ Finish(r, "ok")
    /\ UNCHANGED <<op, conn, channel, todo, cancelled, subscriptionsLock, connection, broker>>

-----------------------------------------------------------------------------
(* UnsubscribeAsync *)

EnterUnsubscribe(r, h) ==
    /\ Begin(r, "unsubscribe", "remove")
    /\ handle' = [handle EXCEPT ![r] = h]
    /\ UNCHANGED <<conn, channel, todo, outcome, cancelled, adapter, issued, broker>>

Unsubscribe(r, h) == Idle(r) /\ EnterUnsubscribe(r, h)

\* Mutant: the entry is looked up and stays in the dictionary.
RemoveSubscriptionKeepsEntry(r) ==
    /\ pc[r] = "remove" /\ Free /\ ~cancelled[r]
    /\ channel' = [channel EXCEPT ![r] = subscriptionChannels[handle[r]]]
    /\ IF channel'[r] = None
       THEN Finish(r, "ok")
       ELSE Goto(r, "closeChannel") /\ UNCHANGED outcome
    /\ UNCHANGED <<op, conn, handle, todo, cancelled, adapter, issued, broker>>

RemoveSubscription(r) ==
    /\ pc[r] = "remove" /\ Free /\ ~cancelled[r]
    /\ channel' = [channel EXCEPT ![r] = subscriptionChannels[handle[r]]]
    /\ subscriptionChannels' = [subscriptionChannels EXCEPT ![handle[r]] = None]
    /\ IF channel'[r] = None
       THEN Finish(r, "ok")
       ELSE Goto(r, "closeChannel") /\ UNCHANGED outcome
    /\ UNCHANGED <<op, conn, handle, todo, cancelled, subscriptionsLock, connection,
                   issued, broker>>

\* CloseAsync without asking IsOpen. A channel that was lost is closed for good too.
CloseUnsubscribed(r) ==
    /\ pc[r] = "closeChannel" /\ ~cancelled[r]
    /\ CloseChan(channel[r])
    /\ Goto(r, "disposeChannel")
    /\ UNCHANGED <<op, locals, outcome, cancelled, adapter, issued>>

CloseUnsubscribedThrows(r) ==
    /\ pc[r] = "closeChannel" /\ ChannelLost(r)
    /\ CloseChan(channel[r])
    /\ Finish(r, "fault")
    /\ UNCHANGED <<op, locals, cancelled, adapter, issued>>

DisposeUnsubscribed(r) ==
    /\ pc[r] = "disposeChannel"
    /\ Finish(r, "ok")
    /\ UNCHANGED <<op, locals, cancelled, adapter, issued, broker>>

-----------------------------------------------------------------------------
(* SendAsync *)

\* A blank routing key: ArgumentException before anything is done.
RejectBlankRoutingKey(r) ==
    /\ op' = [op EXCEPT ![r] = "send"]
    /\ Finish(r, "fault")
    /\ UNCHANGED <<locals, cancelled, adapter, issued, broker>>

EnterSend(r) == UseConnection(r, "send") \/ RejectBlankRoutingKey(r)

Send(r) == Idle(r) /\ EnterSend(r)

\* The exchange exists.
DeclareExchange(r) ==
    /\ pc[r] = "declareExchange" /\ ~ChannelLost(r) /\ ~cancelled[r]
    /\ Goto(r, "publish")
    /\ UNCHANGED <<op, locals, outcome, cancelled, adapter, issued, broker>>

Publish(r) ==
    /\ pc[r] = "publish" /\ ~ChannelLost(r) /\ ~cancelled[r]
    /\ outcome' = [outcome EXCEPT ![r] = "ok"]
    /\ Goto(r, "disposeSend")
    /\ UNCHANGED <<op, locals, cancelled, adapter, issued, broker>>

\* The exchange is missing (the broker closes the channel) or the channel is lost.
SendFails(r) ==
    /\ \/ pc[r] = "declareExchange" /\ ~ChannelLost(r) /\ CloseChan(channel[r])
       \/ pc[r] \in {"declareExchange", "publish"} /\ ChannelLost(r) /\ UNCHANGED broker
    /\ outcome' = [outcome EXCEPT ![r] = "publish"]
    /\ Goto(r, "disposeSend")
    /\ UNCHANGED <<op, locals, cancelled, adapter, issued>>

SendCancelled(r) ==
    /\ pc[r] \in {"declareExchange", "publish"} /\ cancelled[r]
    /\ outcome' = [outcome EXCEPT ![r] = "cancelled"]
    /\ Goto(r, "disposeSend")
    /\ UNCHANGED <<op, locals, cancelled, adapter, issued, broker>>

\* await using: the channel is disposed on every path.
DisposeSend(r) ==
    /\ pc[r] = "disposeSend"
    /\ CloseChan(channel[r])
    /\ Goto(r, "done")
    /\ UNCHANGED <<op, locals, outcome, cancelled, adapter, issued>>

-----------------------------------------------------------------------------
(* The caller and the broker *)

\* The client of the HTTP request goes away.
Cancel(r) ==
    /\ r \in Cancellable /\ pc[r] \notin {"idle", "done"} /\ ~cancelled[r]
    /\ cancelled' = [cancelled EXCEPT ![r] = TRUE]
    /\ UNCHANGED <<pc, op, locals, outcome, adapter, issued, broker>>

\* Awaits with the token throw. What was created before stays as it is; what was
\* asked of the broker, a consumer or a close, may or may not have been performed.
AwaitCancelled(r) ==
    /\ cancelled[r]
    /\ \/ /\ pc[r] \in {"tdLock", "connecting", "createChannel", "declareQueue", "remove"}
          /\ UNCHANGED broker
       \/ /\ pc[r] = "tdClose" /\ connection # None
          /\ CloseConn(connection) \/ UNCHANGED broker
       \/ /\ pc[r] \in {"consume", "register", "closeChannel"}
          /\ abandoned' = abandoned \cup {channel[r]}
          /\ \/ UNCHANGED <<chanState, consuming>>
             \/ /\ pc[r] = "consume" /\ ~ChannelLost(r) /\ UNCHANGED chanState
                /\ consuming' = [consuming EXCEPT ![channel[r]] = TRUE]
             \/ /\ pc[r] = "closeChannel" /\ UNCHANGED consuming
                /\ chanState' = [chanState EXCEPT ![channel[r]] = "closed"]
          /\ UNCHANGED <<connState, chanConn, drops, raced>>
    /\ Finish(r, "cancelled")
    /\ UNCHANGED <<op, locals, cancelled, adapter, issued>>

\* The response is written and the slot is free for another request.
Return(r) ==
    /\ pc[r] = "done"
    /\ Goto(r, "idle")
    /\ outcome' = [outcome EXCEPT ![r] = "ok"]
    /\ cancelled' = [cancelled EXCEPT ![r] = FALSE]
    /\ conn' = [conn EXCEPT ![r] = None]
    /\ channel' = [channel EXCEPT ![r] = None]
    /\ handle' = [handle EXCEPT ![r] = None]
    /\ todo' = [todo EXCEPT ![r] = {}]
    /\ op' = [op EXCEPT ![r] = "disconnect"]
    /\ UNCHANGED <<adapter, issued, broker>>

\* The broker, or the network, drops a connection and all its channels.
Drop(c) ==
    /\ connState[c] = "open" /\ drops < MaxDrops
    /\ drops' = drops + 1
    /\ connState' = [connState EXCEPT ![c] = "down"]
    /\ ChannelsFollow(c, {"open"}, "down")
    /\ UNCHANGED <<pc, op, locals, outcome, cancelled, adapter, issued, chanConn, consuming,
                   history>>

\* Automatic recovery, on by default in the client library: the channels and
\* their consumers come back with the connection.
Recover(c) ==
    /\ connState[c] = "down"
    /\ connState' = [connState EXCEPT ![c] = "open"]
    /\ ChannelsFollow(c, {"down"}, "open")
    /\ UNCHANGED <<pc, op, locals, outcome, cancelled, adapter, issued, chanConn, consuming,
                   drops, history>>

-----------------------------------------------------------------------------
Init ==
    /\ pc = [r \in Request |-> "idle"]
    /\ op = [r \in Request |-> "disconnect"]
    /\ conn = [r \in Request |-> None]
    /\ channel = [r \in Request |-> None]
    /\ handle = [r \in Request |-> None]
    /\ todo = [r \in Request |-> {}]
    /\ outcome = [r \in Request |-> "ok"]
    /\ cancelled = [r \in Request |-> FALSE]
    /\ subscriptionChannels = [h \in Handle |-> None]
    /\ subscriptionsLock = None
    /\ connection = None
    /\ issued = {}
    /\ connState = [c \in Conn |-> "unused"]
    /\ chanState = [k \in Channel |-> "unused"]
    /\ chanConn = [k \in Channel |-> None]
    /\ consuming = [k \in Channel |-> FALSE]
    /\ drops = 0
    /\ raced = {}
    /\ abandoned = {}

Call(r) ==
    \/ Connect(r) \/ Disconnect(r) \/ Subscribe(r) \/ DeclareReply(r)
    \/ Send(r)
    \/ \E h \in issued : Unsubscribe(r, h)

TeardownStep(r) ==
    \/ TeardownLock(r) \/ TeardownChannel(r) \/ TeardownChannelClosed(r)
    \/ TeardownChannelThrows(r) \/ TeardownClear(r) \/ TeardownCheck(r)
    \/ NullReference(r) \/ TeardownIsOpen(r) \/ TeardownClose(r) \/ TeardownCloseLate(r)
    \/ TeardownDispose(r) \/ TeardownNull(r)

SubscribeStep(r) ==
    \/ CreateChannel(r) \/ CreateChannelFails(r) \/ DeclareQueue(r) \/ Consume(r)
    \/ WireFails(r) \/ RegisterSubscription(r)

Step(r) ==
    \/ TeardownStep(r) \/ ConnectOpen(r) \/ ConnectUnreachable(r)
    \/ SubscribeStep(r)
    \/ RemoveSubscription(r) \/ CloseUnsubscribed(r) \/ CloseUnsubscribedThrows(r)
    \/ DisposeUnsubscribed(r)
    \/ DeclareExchange(r) \/ Publish(r) \/ SendFails(r) \/ SendCancelled(r) \/ DisposeSend(r)
    \/ AwaitCancelled(r)

Next ==
    \/ \E r \in Request : Call(r) \/ Step(r) \/ Return(r) \/ Cancel(r)
    \/ \E c \in Conn : Drop(c) \/ Recover(c)

Spec == Init /\ [][Next]_vars

\* Requests keep running, the broker answers or fails what it was asked, and the
\* semaphore admits its waiters in turn.
AcquiresLock(r) == TeardownLock(r) \/ RegisterSubscription(r) \/ RemoveSubscription(r)
Fairness == \A r \in Request :
    WF_vars(Step(r)) /\ WF_vars(Return(r)) /\ SF_vars(AcquiresLock(r))
FairSpec == Spec /\ Fairness

-----------------------------------------------------------------------------
(* Properties *)

\* Every variable has its type.
TypeOK ==
    /\ pc \in [Request -> Steps]
    /\ op \in [Request -> Ops]
    /\ conn \in [Request -> Conn \cup {None}]
    /\ channel \in [Request -> Channel \cup {None}]
    /\ handle \in [Request -> Handle \cup {None}]
    /\ todo \in [Request -> SUBSET Handle]
    /\ outcome \in [Request -> Outcomes]
    /\ cancelled \in [Request -> BOOLEAN]
    /\ subscriptionChannels \in [Handle -> Channel \cup {None}]
    /\ subscriptionsLock \in Request \cup {None}
    /\ connection \in Conn \cup {None}
    /\ issued \in SUBSET Handle
    /\ connState \in [Conn -> Link]
    /\ chanState \in [Channel -> Link]
    /\ chanConn \in [Channel -> Conn \cup {None}]
    /\ consuming \in [Channel -> BOOLEAN]
    /\ drops \in 0..MaxDrops
    /\ raced \in SUBSET Conn
    /\ abandoned \in SUBSET Channel

\* A consumer the broker delivers to can always be stopped: its channel is in the
\* dictionary, or a request that has not returned yet is about to put it there or
\* to close it (SubscribeAsync, UnsubscribeAsync), or the client went away in one of
\* the three awaits that leave a consumer behind.
NoUntrackedConsumer ==
    \A k \in Channel : Live(k) =>
        \/ \E h \in Handle : subscriptionChannels[h] = k
        \/ \E r \in Request : channel[r] = k /\ pc[r] \in {"register", "closeChannel"}
        \/ k \in abandoned

\* No connection is orphaned: one that is open, or that automatic recovery may
\* reopen, is the one the field connection names, so the next teardown releases it
\* (ConnectAsync, TeardownAsync).
NoOrphanedConnection == \A c \in Conn : Alive(connState[c]) => connection = c

\* However connects and disconnects overlap, fail or are aborted, a connection is
\* orphaned in one way only: it was assigned to the field while another request was
\* inside CreateConnectionAsync (which overwrites it), or between its DisposeAsync
\* and its "_connection = null" (which forgets it).
OrphansAreRaced ==
    \A c \in Conn : Alive(connState[c]) /\ c \notin raced => connection = c

\* TeardownAsync checks the field connection once and reads it three times more
\* after awaits. Holds while one request at a time is in there.
TeardownSeesConnection ==
    \A r \in Request : pc[r] \in {"tdIsOpen", "tdClose", "tdDispose"} => connection # None

\* While TeardownAsync enumerates the dictionary nobody changes it (the enumerator
\* would throw): the only change is its own Clear after the last entry.
EnumerationStable ==
    [][\A r \in Request : pc[r] \in {"tdLoop", "tdChannel"} =>
          \/ subscriptionChannels' = subscriptionChannels
          \/ pc[r] = "tdLoop" /\ todo[r] = {} /\ pc'[r] = "tdCheck"]_vars

\* An unsubscribe, a send or a failed subscribe tears down only its own channel: a
\* channel still in the dictionary is closed by a teardown that visits it, or
\* together with its connection.
RegisteredStaysOpen ==
    [][\A h \in Registered :
          LET k == subscriptionChannels[h] IN
          chanState[k] # "closed" /\ chanState'[k] = "closed" =>
            \/ \E r \in Request : pc[r] = "tdLoop" /\ h \in todo[r]
            \/ \E r \in Request : pc[r] = "tdChannel" /\ channel[r] = k
            \/ connState'[chanConn[k]] = "closed"]_vars

\* No request waits for ever: the semaphore is released on every path, failures
\* and cancellations included.
RequestReturns == \A r \in Request : pc[r] # "idle" ~> pc[r] = "idle"

-----------------------------------------------------------------------------
(* The inductive invariants behind these properties *)

\* r holds a channel no other request and no dictionary entry refers to.
Owns(r) == pc[r] \in {"declareQueue", "consume", "register", "declareExchange", "publish",
                      "disposeSend", "closeChannel", "disposeChannel"}

LocalsInv == \A r \in Request :
    /\ pc[r] = "createChannel" => conn[r] \in Conn
    /\ pc[r] = "remove" => handle[r] \in Handle
    /\ Owns(r) \/ pc[r] = "tdChannel" => channel[r] \in Channel

\* The semaphore is held exactly during the foreach; what has been visited is closed,
\* but for the channel that is being closed.
LockInv == \A r \in Request :
    /\ subscriptionsLock = r <=> pc[r] \in {"tdLoop", "tdChannel"}
    /\ pc[r] \in {"tdLoop", "tdChannel"} =>
          /\ todo[r] \subseteq Registered
          /\ \A h \in Registered \ todo[r] :
                \/ chanState[subscriptionChannels[h]] = "closed"
                \/ pc[r] = "tdChannel" /\ subscriptionChannels[h] = channel[r]
    /\ pc[r] = "tdChannel" => \E h \in Registered \ todo[r] : subscriptionChannels[h] = channel[r]

ChannelInv ==
    /\ Registered \subseteq issued
    /\ \A h1, h2 \in Registered :
          subscriptionChannels[h1] = subscriptionChannels[h2] => h1 = h2
    /\ \A r \in Request : Owns(r) =>
          /\ \A h \in Handle : subscriptionChannels[h] # channel[r]
          /\ \A q \in Request : Owns(q) /\ channel[q] = channel[r] => q = r
    /\ \A k \in Channel : chanState[k] = "unused" =>
          /\ \A h \in Handle : subscriptionChannels[h] # k
          /\ \A r \in Request : Owns(r) => channel[r] # k

\* NoUntrackedConsumer, for channels that recovery may bring back as well.
TrackedInv ==
    /\ \A k \in Channel : chanState[k] = "unused" => ~consuming[k]
    /\ \A r \in Request : pc[r] \in {"declareQueue", "consume", "declareExchange", "publish"}
          => ~consuming[channel[r]]
    /\ \A k \in Channel : Alive(chanState[k]) /\ consuming[k] =>
          \/ \E h \in Handle : subscriptionChannels[h] = k
          \/ \E r \in Request : channel[r] = k /\ pc[r] \in {"register", "closeChannel"}
          \/ k \in abandoned

\* OrphansAreRaced, with what keeps the field in place: while a connection that was not
\* raced lives, nobody is inside the window.
RacedInv ==
    \A c \in Conn : Alive(connState[c]) /\ c \notin raced =>
        /\ connection = c
        /\ \A r \in Request : pc[r] \notin {"tdNull", "connecting"}

\* What the field connection holds while a teardown or a connect is under way, as long
\* as there is one of them at a time.
ConnectionInv ==
    /\ NoOrphanedConnection
    /\ TeardownSeesConnection
    /\ \A r \in Request :
          /\ pc[r] = "tdNull" => connection # None /\ connState[connection] = "closed"
          /\ pc[r] = "connecting" => connection = None

\* The steps that close a channel already taken out of the dictionary.
Closing == {"closeChannel", "disposeChannel"}

\* A step belongs to one method of the port, or to the few that share it.
OpInv == \A r \in Request :
    /\ pc[r] \in TeardownSteps \cup {"connecting"} =>
          op[r] \in {"connect", "disconnect"} /\ r \in LifecycleRequest
    /\ pc[r] = "createChannel" => op[r] \in {"subscribe", "declareReply", "send"}
    /\ pc[r] \in {"declareQueue", "consume", "register"} => op[r] \in {"subscribe", "declareReply"}
    /\ pc[r] \in {"declareExchange", "publish", "disposeSend"} => op[r] = "send"
    /\ pc[r] \in {"remove"} \cup Closing => op[r] = "unsubscribe"

\* What holds whoever connects and whoever aborts.
IndInv ==
    /\ TypeOK /\ LocalsInv /\ LockInv /\ ChannelInv /\ OpInv
    /\ TrackedInv /\ RacedInv
=============================================================================
