------------------------------ MODULE LiveFeed ------------------------------
(***************************************************************************)
(* The path of a consumed message from the server to one browser tab: the  *)
(* SignalR hub and its groups, BusHubService, ReplySubscriptionService and *)
(* the subscriptions of MessagesComponent and SendComponent.               *)
(*                                                                         *)
(* JavaScript runs a callback and the microtasks it triggers to the end,   *)
(* so an action is one event: a click, an HTTP response, a SignalR event.  *)
(* A subscription is named by the id the server gives it, from the moment  *)
(* its POST is sent.  A subscription without a queue name is the one of a  *)
(* send-with-reply.  The server is reduced to what the tab can notice of   *)
(* it: the subscriptions it consumes for and its delivery callbacks.       *)
(***************************************************************************)
EXTENDS ArrayFilter

CONSTANTS
    Sub,            \* subscriptions
    Queue,          \* queue names a user may enter
    None,           \* the queue name of a reply subscription
    MaxMessages,    \* bound: messages consumed for one subscription
    MaxDeletes,     \* bound: DELETE requests of one subscription in flight
    MaxDrops        \* bound: how many times the hub connection is lost

ASSUME LiveFeedAssumption ==
    /\ None \notin Queue
    /\ MaxMessages \in Nat /\ MaxDeletes \in Nat /\ MaxDrops \in Nat

VARIABLES
    post,               \* the POST that creates a subscription
    queueName,          \* the queue it names
    subscriptions,      \* MessagesComponent: the chips
    pending,            \* ReplySubscriptionService: pending replies
    join,               \* the promise chain that joins a subscription's group
    deletes,            \* DELETE requests in flight
    startPromise,       \* BusHubService: the memoised start
    connectionState,    \* BusHubService
    messages,           \* BusHubService: newest first
    nextSeq,            \* BusHubService
    invocations,        \* hub calls on their way to the server
    inbox,              \* MessageReceived events on their way to the tab
    groups,             \* groups the tab's current connection id is in
    active,             \* subscriptions the server consumes for
    dispatching,        \* subscriptions with a delivery callback running
    sent,               \* messages broadcast for a subscription; their numbers stand
                        \* for their contents
    drops

requests == <<post, queueName, deletes>>
panel    == <<subscriptions, pending, join>>
hub      == <<startPromise, connectionState>>
received == <<messages, nextSeq>>
wire     == <<invocations, inbox>>
server   == <<active, dispatching, sent>>
lfVars   == <<requests, panel, hub, received, wire, groups, server, drops>>

Shown == subscriptions \cup pending
Connected == connectionState = "connected"

\* connection.invoke: sent when connected, rejected at once otherwise.
Invoke(method, S) ==
    invocations' = [s \in Sub |-> IF s \in S /\ Connected THEN Append(invocations[s], method)
                                  ELSE invocations[s]]

-----------------------------------------------------------------------------
(* BusHubService.start, and what waits for it *)

\* start(): only the first call does anything.
Start ==
    IF startPromise = "null"
    THEN startPromise' = "pending" /\ connectionState' = "connecting"
    ELSE UNCHANGED hub

Waiting == {s \in Sub : join[s] = "waiting"}

\* Mutant: the callbacks waiting for the start are forgotten.
HubStartsAlone ==
    /\ startPromise = "pending"
    /\ startPromise' = "resolved"
    /\ connectionState' = "connected"
    /\ UNCHANGED <<requests, panel, received, wire, groups, server, drops>>

\* The start resolves: every join that waited for it is invoked.
HubStarts ==
    /\ startPromise = "pending"
    /\ startPromise' = "resolved"
    /\ connectionState' = "connected"
    /\ invocations' = [s \in Sub |-> IF s \in Waiting THEN Append(invocations[s], "join")
                                     ELSE invocations[s]]
    /\ join' = [s \in Sub |-> IF s \in Waiting THEN "invoked" ELSE join[s]]
    /\ UNCHANGED <<requests, subscriptions, pending, received, inbox, groups, server, drops>>

\* The start is rejected, and so is every join that waited for it.
HubStartFails ==
    /\ startPromise = "pending"
    /\ startPromise' = "rejected"
    /\ connectionState' = "disconnected"
    /\ join' = [s \in Sub |-> IF s \in Waiting THEN "failed" ELSE join[s]]
    /\ UNCHANGED <<requests, subscriptions, pending, received, wire, groups, server, drops>>

-----------------------------------------------------------------------------
(* Subscribing *)

\* subscribeToQueue: refused when a chip has the same queue name.
SubscribeToQueue(s, q) ==
    /\ post[s] = "none"
    /\ \A t \in subscriptions : queueName[t] # q
    /\ Start
    /\ post' = [post EXCEPT ![s] = "sent"]
    /\ queueName' = [queueName EXCEPT ![s] = q]
    /\ UNCHANGED <<deletes, panel, received, wire, groups, server, drops>>

SendWithReply(s) ==
    /\ post[s] = "none"
    /\ Start
    /\ post' = [post EXCEPT ![s] = "sent"]
    /\ UNCHANGED <<queueName, deletes, panel, received, wire, groups, server, drops>>

\* The server subscribes, and consumes from then on, or refuses.
ServerAnswers(s) ==
    /\ post[s] = "sent"
    /\ \/ post' = [post EXCEPT ![s] = "created"] /\ active' = active \cup {s}
       \/ post' = [post EXCEPT ![s] = "refused"] /\ UNCHANGED active
    /\ UNCHANGED <<queueName, deletes, panel, hub, received, wire, groups, dispatching, sent, drops>>

Show(s) ==
    IF queueName[s] = None
    THEN pending' = pending \cup {s} /\ UNCHANGED subscriptions
    ELSE subscriptions' = subscriptions \cup {s} /\ UNCHANGED pending

\* Mutant: the join does not wait for the start.
PostReturnsJoinsAtOnce(s) ==
    /\ post[s] = "created"
    /\ post' = [post EXCEPT ![s] = "settled"]
    /\ Show(s)
    /\ join' = [join EXCEPT ![s] = IF Connected THEN "invoked" ELSE "failed"]
    /\ Invoke("join", {s})
    /\ UNCHANGED <<queueName, deletes, hub, received, inbox, groups, server, drops>>

\* The response of a successful POST: the chip or the pending reply is shown, and
\* hubReady.then(join) waits, runs at once, or is rejected with the start.
PostReturns(s) ==
    /\ post[s] = "created"
    /\ post' = [post EXCEPT ![s] = "settled"]
    /\ Show(s)
    /\ \/ /\ startPromise = "pending"
          /\ join' = [join EXCEPT ![s] = "waiting"]
          /\ UNCHANGED invocations
       \/ /\ startPromise = "resolved"
          /\ join' = [join EXCEPT ![s] = IF Connected THEN "invoked" ELSE "failed"]
          /\ Invoke("join", {s})
       \/ /\ startPromise = "rejected"
          /\ join' = [join EXCEPT ![s] = "failed"]
          /\ UNCHANGED invocations
    /\ UNCHANGED <<queueName, deletes, hub, received, inbox, groups, server, drops>>

PostFails(s) ==
    /\ post[s] = "refused"
    /\ post' = [post EXCEPT ![s] = "settled"]
    /\ UNCHANGED <<queueName, deletes, panel, hub, received, wire, groups, server, drops>>

-----------------------------------------------------------------------------
(* Unsubscribing *)

\* A click on a chip's or a pending reply's button, which stays enabled.
Unsubscribe(s) ==
    /\ s \in Shown /\ deletes[s] < MaxDeletes
    /\ deletes' = [deletes EXCEPT ![s] = @ + 1]
    /\ UNCHANGED <<post, queueName, panel, hub, received, wire, groups, server, drops>>

ServerUnsubscribes(s) ==
    /\ deletes[s] > 0
    /\ active' = active \ {s}
    /\ UNCHANGED <<requests, panel, hub, received, wire, groups, dispatching, sent, drops>>

\* Mutant: the messages of every subscription are cleared.
FinishUnsubscribeClearsAll(s) ==
    /\ deletes[s] > 0
    /\ deletes' = [deletes EXCEPT ![s] = @ - 1]
    /\ Invoke("leave", {s})
    /\ messages' = << >>
    /\ subscriptions' = subscriptions \ {s}
    /\ pending' = pending \ {s}
    /\ UNCHANGED <<post, queueName, join, hub, nextSeq, inbox, groups, server, drops>>

\* The DELETE returns, performed or failed: both ends are treated alike.
FinishUnsubscribe(s) ==
    /\ deletes[s] > 0
    /\ deletes' = [deletes EXCEPT ![s] = @ - 1]
    /\ Invoke("leave", {s})
    /\ messages' = Filtered(messages, {i \in 1..Len(messages) : messages[i].subscriptionId # s})
    /\ subscriptions' = subscriptions \ {s}
    /\ pending' = pending \ {s}
    /\ UNCHANGED <<post, queueName, join, hub, nextSeq, inbox, groups, server, drops>>

-----------------------------------------------------------------------------
(* BusHub: the calls of one connection are served one after the other; those for *)
(* different subscriptions do not touch each other. *)

JoinSubscription(s) ==
    /\ invocations[s] # << >> /\ Head(invocations[s]) = "join"
    /\ invocations' = [invocations EXCEPT ![s] = Tail(@)]
    /\ groups' = groups \cup {s}
    /\ join' = [join EXCEPT ![s] = "joined"]
    /\ UNCHANGED <<requests, subscriptions, pending, hub, received, inbox, server, drops>>

\* Mutant: the connection leaves all its groups.
LeaveAll(s) ==
    /\ invocations[s] # << >> /\ Head(invocations[s]) = "leave"
    /\ invocations' = [invocations EXCEPT ![s] = Tail(@)]
    /\ groups' = {}
    /\ UNCHANGED <<requests, panel, hub, received, inbox, server, drops>>

LeaveSubscription(s) ==
    /\ invocations[s] # << >> /\ Head(invocations[s]) = "leave"
    /\ invocations' = [invocations EXCEPT ![s] = Tail(@)]
    /\ groups' = groups \ {s}
    /\ UNCHANGED <<requests, panel, hub, received, inbox, server, drops>>

-----------------------------------------------------------------------------
(* Messages *)

\* The broker delivers: the callback of a subscription runs once at a time.
Consume(s) ==
    /\ s \in active \ dispatching /\ sent[s] < MaxMessages
    /\ dispatching' = dispatching \cup {s}
    /\ UNCHANGED <<requests, panel, hub, received, wire, groups, active, sent, drops>>

\* BroadcastAsync: to the members of the group at that moment. The callback may
\* finish after its subscription has ended.
Broadcast(s) ==
    /\ s \in dispatching
    /\ dispatching' = dispatching \ {s}
    /\ sent' = [sent EXCEPT ![s] = @ + 1]
    /\ inbox' = IF s \in groups
                THEN Append(inbox, [subscriptionId |-> s, content |-> sent[s] + 1])
                ELSE inbox
    /\ UNCHANGED <<requests, panel, hub, received, invocations, groups, active, drops>>

Stamp(m) == [subscriptionId |-> m.subscriptionId, content |-> m.content, seq |-> nextSeq]

\* Mutant: the newest message is put at the end.
MessageReceivedLast ==
    /\ inbox # << >>
    /\ messages' = messages \o <<Stamp(Head(inbox))>>
    /\ nextSeq' = nextSeq + 1
    /\ inbox' = Tail(inbox)
    /\ UNCHANGED <<requests, panel, hub, invocations, groups, server, drops>>

\* Mutant: the sequence number is not counted on.
MessageReceivedUncounted ==
    /\ inbox # << >>
    /\ messages' = <<Stamp(Head(inbox))>> \o messages
    /\ inbox' = Tail(inbox)
    /\ UNCHANGED <<requests, panel, hub, nextSeq, invocations, groups, server, drops>>

MessageReceived ==
    /\ inbox # << >>
    /\ messages' = <<Stamp(Head(inbox))>> \o messages
    /\ nextSeq' = nextSeq + 1
    /\ inbox' = Tail(inbox)
    /\ UNCHANGED <<requests, panel, hub, invocations, groups, server, drops>>

-----------------------------------------------------------------------------
(* The hub connection and the server's broker connection *)

\* The connection is lost with what was on it: the client rejects its open calls,
\* the server forgets the connection id and its groups. The client tries to
\* reconnect, unless the server closed the connection for good.
HubDrops ==
    /\ Connected /\ drops < MaxDrops
    /\ drops' = drops + 1
    /\ connectionState' \in {"reconnecting", "disconnected"}
    /\ join' = [s \in Sub |-> IF join[s] = "invoked" THEN "failed" ELSE join[s]]
    /\ invocations' = [s \in Sub |-> << >>]
    /\ inbox' = << >>
    /\ groups' = {}
    /\ UNCHANGED <<requests, subscriptions, pending, startPromise, received, server>>

\* onreconnected, under a new connection id; onclose when the retries are used up.
HubReconnects ==
    /\ connectionState = "reconnecting"
    /\ connectionState' \in {"connected", "disconnected"}
    /\ UNCHANGED <<requests, panel, startPromise, received, wire, groups, server, drops>>

\* A connect or disconnect of any tab ends all subscriptions at the server.
BrokerTeardown ==
    /\ active # {}
    /\ active' = {}
    /\ UNCHANGED <<requests, panel, hub, received, wire, groups, dispatching, sent, drops>>

-----------------------------------------------------------------------------
LFInit ==
    /\ post = [s \in Sub |-> "none"]
    /\ queueName = [s \in Sub |-> None]
    /\ subscriptions = {}
    /\ pending = {}
    /\ join = [s \in Sub |-> "none"]
    /\ deletes = [s \in Sub |-> 0]
    /\ startPromise = "null"
    /\ connectionState = "idle"
    /\ messages = << >>
    /\ nextSeq = 0
    /\ invocations = [s \in Sub |-> << >>]
    /\ inbox = << >>
    /\ groups = {}
    /\ active = {}
    /\ dispatching = {}
    /\ sent = [s \in Sub |-> 0]
    /\ drops = 0

HubSettles == HubStarts \/ HubStartFails

HubCall(s) == JoinSubscription(s) \/ LeaveSubscription(s)

LFNext ==
    \/ \E s \in Sub :
          \/ \E q \in Queue : SubscribeToQueue(s, q)
          \/ SendWithReply(s) \/ ServerAnswers(s) \/ PostReturns(s) \/ PostFails(s)
          \/ Unsubscribe(s) \/ ServerUnsubscribes(s) \/ FinishUnsubscribe(s)
          \/ HubCall(s) \/ Consume(s) \/ Broadcast(s)
    \/ HubSettles \/ MessageReceived \/ HubDrops \/ HubReconnects \/ BrokerTeardown

LFSpec == LFInit /\ [][LFNext]_lfVars

\* The start settles, the hub serves the calls it gets, HTTP responses arrive.
LFFairness ==
    /\ WF_lfVars(HubSettles)
    /\ \A s \in Sub : WF_lfVars(HubCall(s)) /\ WF_lfVars(PostReturns(s))
LFFairSpec == LFSpec /\ LFFairness

-----------------------------------------------------------------------------
(* Properties *)

Event == [subscriptionId : Sub, content : 1..MaxMessages]
Received == [subscriptionId : Sub, content : 1..MaxMessages, seq : 0..(nextSeq - 1)]

LFTypeOK ==
    /\ post \in [Sub -> {"none", "sent", "created", "refused", "settled"}]
    /\ queueName \in [Sub -> Queue \cup {None}]
    /\ subscriptions \subseteq Sub /\ pending \subseteq Sub
    /\ join \in [Sub -> {"none", "waiting", "invoked", "joined", "failed"}]
    /\ deletes \in [Sub -> 0..MaxDeletes]
    /\ startPromise \in {"null", "pending", "resolved", "rejected"}
    /\ connectionState \in {"idle", "connecting", "connected", "reconnecting", "disconnected"}
    /\ nextSeq \in Nat
    /\ messages \in Seq(Received)
    /\ invocations \in [Sub -> Seq({"join", "leave"})]
    /\ inbox \in Seq(Event)
    /\ groups \subseteq Sub /\ active \subseteq Sub /\ dispatching \subseteq Sub
    /\ sent \in [Sub -> 0..MaxMessages]
    /\ drops \in 0..MaxDrops

\* BusHubService keeps the newest message first, by arrival and, within one
\* subscription, by the order of the server's broadcasts, whatever was cleared or
\* lost in between.
NewestFirst ==
    \A i, j \in 1..Len(messages) : i < j =>
        /\ messages[i].seq > messages[j].seq
        /\ messages[i].subscriptionId = messages[j].subscriptionId =>
              messages[i].content > messages[j].content

Arrived(s) ==
    {messages[i].content : i \in {j \in 1..Len(messages) : messages[j].subscriptionId = s}}
    \cup {inbox[i].content : i \in {j \in 1..Len(inbox) : inbox[j].subscriptionId = s}}

\* While the hub connection holds, a shown subscription misses at most what was
\* broadcast before its join: from the first message that got through on, all are
\* there or on their way, whoever else subscribes or unsubscribes.
NoGapAfterFirst ==
    drops = 0 => \A s \in Shown : \A n \in Arrived(s) : n..sent[s] \subseteq Arrived(s)

\* What the rest of the page relies on: nothing that happens between the server and the
\* tab adds, reorders or removes messages except as MessageList has it. So "unsubscribing
\* one chip removes only that chip's messages".
Known == {s \in Sub : join[s] # "none"}

ML == INSTANCE MessageList WITH
    Subscription <- Sub, MessageContent <- 1..MaxMessages, feed <- messages, next <- nextSeq,
    chips <- subscriptions, replies <- pending, known <- Known

ImplementsMessageList == ML!MLSpec

\* A join never races the connection's start (the regression the comments at
\* subscribeToQueue and sendWithReply tell of): it fails only if the start failed, or
\* the connection was lost.
JoinNeverRacesStart ==
    \A s \in Sub : join[s] = "failed" => startPromise = "rejected" \/ drops > 0

\* No chip stays for ever between subscribed and joined: its join succeeds or fails,
\* and a failure is shown.
JoinSettles ==
    \A s \in Sub : post[s] = "created" ~> join[s] \in {"joined", "failed"}

\* "The SignalR hub pushes it to the UI": a shown subscription that joined its group
\* and is consumed for listens whenever the hub status says connected.
JoinedListens ==
    \A s \in Shown \cap active : join[s] = "joined" /\ Connected => s \in groups

\* "The system MUST NOT permit two active subscriptions with the same queueName".
NoDuplicateChips ==
    \A s, t \in subscriptions : queueName[s] = queueName[t] => s = t
=============================================================================
