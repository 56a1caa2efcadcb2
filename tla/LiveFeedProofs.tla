--------------------------- MODULE LiveFeedProofs ---------------------------
(***************************************************************************)
(* Theorems about LiveFeed, for every number of subscriptions, messages    *)
(* and lost connections: joins wait for the start, LiveFeed implements     *)
(* MessageList, every variable keeps its type, the list is newest first    *)
(* and no message is missed after the first.                               *)
(***************************************************************************)
EXTENDS LiveFeed, ArrayFilterProofs

\* While the connection has never been lost, started and connected are the same, and
\* only a failed start can make a join fail.
StartInv ==
    /\ join \in [Sub -> {"none", "waiting", "invoked", "joined", "failed"}]
    /\ drops \in Nat
    /\ connectionState \in {"connected", "reconnecting"} => startPromise = "resolved"
    /\ startPromise = "resolved" /\ drops = 0 => Connected
    /\ JoinNeverRacesStart

\* Nothing is started or joined at first.
LEMMA StartInit == LFInit => StartInv
BY DEF LFInit, StartInv, Connected, JoinNeverRacesStart

\* Each event keeps the relation between the start, the connection and the joins.
LEMMA StartStep ==
    ASSUME StartInv, [LFNext]_lfVars
    PROVE  StartInv'
<1> USE DEF StartInv, Connected, JoinNeverRacesStart, requests, panel, hub, received, wire,
            server, Start
<1>1. ASSUME NEW s \in Sub, NEW q \in Queue, SubscribeToQueue(s, q) PROVE StartInv'
  BY <1>1 DEF SubscribeToQueue
<1>2. ASSUME NEW s \in Sub, SendWithReply(s) PROVE StartInv'
  BY <1>2 DEF SendWithReply
<1>3. ASSUME NEW s \in Sub, ServerAnswers(s) PROVE StartInv'
  BY <1>3 DEF ServerAnswers
<1>4. ASSUME NEW s \in Sub, PostReturns(s) PROVE StartInv'
  BY <1>4 DEF PostReturns
<1>5. ASSUME NEW s \in Sub, PostFails(s) PROVE StartInv'
  BY <1>5 DEF PostFails
<1>6. ASSUME NEW s \in Sub, Unsubscribe(s) PROVE StartInv'
  BY <1>6 DEF Unsubscribe
<1>7. ASSUME NEW s \in Sub, ServerUnsubscribes(s) PROVE StartInv'
  BY <1>7 DEF ServerUnsubscribes
<1>8. ASSUME NEW s \in Sub, FinishUnsubscribe(s) PROVE StartInv'
  BY <1>8 DEF FinishUnsubscribe
<1>9. ASSUME NEW s \in Sub, HubCall(s) PROVE StartInv'
  BY <1>9 DEF HubCall, JoinSubscription, LeaveSubscription
<1>10. ASSUME NEW s \in Sub, Consume(s) PROVE StartInv'
  BY <1>10 DEF Consume
<1>11. ASSUME NEW s \in Sub, Broadcast(s) PROVE StartInv'
  BY <1>11 DEF Broadcast
<1>12. CASE HubStarts
  BY <1>12 DEF HubStarts, Waiting
<1>13. CASE HubStartFails
  BY <1>13 DEF HubStartFails, Waiting
<1>14. CASE MessageReceived
  BY <1>14 DEF MessageReceived
<1>15. CASE HubDrops
  <2>1. drops' \in Nat /\ drops' # 0
    BY <1>15 DEF HubDrops
  <2>2. ~Connected' /\ join' \in [Sub -> {"none", "waiting", "invoked", "joined", "failed"}]
    BY <1>15 DEF HubDrops
  <2>3. startPromise' = "resolved"
    BY <1>15 DEF HubDrops
  <2> QED
    BY <2>1, <2>2, <2>3
<1>16. CASE HubReconnects
  BY <1>16 DEF HubReconnects
<1>17. CASE BrokerTeardown
  BY <1>17 DEF BrokerTeardown
<1>18. CASE UNCHANGED lfVars
  BY <1>18 DEF lfVars
<1> QED
  BY <1>1, <1>2, <1>3, <1>4, <1>5, <1>6, <1>7, <1>8, <1>9, <1>10, <1>11, <1>12, <1>13,
     <1>14, <1>15, <1>16, <1>17, <1>18
     DEF LFNext, HubSettles

\* A join fails only after a failed start or a lost connection, never because the
\* connection had not started yet (subscribeToQueue, sendWithReply).
THEOREM JoinsNeverRaceStart == LFSpec => []JoinNeverRacesStart
<1>1. StartInv => JoinNeverRacesStart
  BY DEF StartInv
<1> QED
  BY <1>1, StartInit, StartStep, PTL DEF LFSpec

-----------------------------------------------------------------------------
(* LiveFeed implements MessageList *)

\* Whatever is on its way for a subscription, a call, a DELETE or a message, is on its
\* way for one whose POST has returned.
WireInv ==
    /\ \A s \in Sub : invocations[s] # << >> => s \in Known
    /\ \A s \in Sub : deletes[s] > 0 => s \in Known
    /\ groups \subseteq Known
    /\ \A i \in 1..Len(inbox) : inbox[i].subscriptionId \in Known

\* What the page shows or waits for is a subscription it was told of.
PanelInv ==
    /\ subscriptions \subseteq Known /\ pending \subseteq Known
    /\ \A s \in Sub : post[s] # "settled" => s \notin Known

\* The shapes of the calls and events in flight, as far as the steps need them; no
\* callback broadcasts past the bound.
LFShape ==
    /\ join \in [Sub -> {"none", "waiting", "invoked", "joined", "failed"}]
    /\ post \in [Sub -> {"none", "sent", "created", "refused", "settled"}]
    /\ invocations \in [Sub -> Seq({"join", "leave"})]
    /\ deletes \in [Sub -> Nat]
    /\ inbox \in Seq(Event)
    /\ sent \in [Sub -> 0..MaxMessages]
    /\ \A s \in dispatching : sent[s] < MaxMessages

\* What the refinement needs to know of the state.
RefInv == LFShape /\ PanelInv /\ WireInv

\* Nothing is known and nothing in flight at first.
LEMMA RefInit == LFInit => RefInv
BY LiveFeedAssumption DEF LFInit, RefInv, LFShape, PanelInv, WireInv, Known

\* invoke() appends one of the two calls or nothing.
LEMMA InvokeShape ==
    ASSUME NEW S, NEW method \in {"join", "leave"}, Invoke(method, S),
           invocations \in [Sub -> Seq({"join", "leave"})]
    PROVE  invocations' \in [Sub -> Seq({"join", "leave"})]
<1>1. \A t \in Sub : Append(invocations[t], method) \in Seq({"join", "leave"})
  OBVIOUS
<1> QED
  BY <1>1 DEF Invoke

\* The variables of LFShape keep their types.
LEMMA ShapeStep ==
    ASSUME LFShape, [LFNext]_lfVars
    PROVE  LFShape'
<1> USE LiveFeedAssumption
        DEF LFShape, Connected, requests, panel, hub, received, wire, server, Start
<1>1. ASSUME NEW s \in Sub, NEW q \in Queue, SubscribeToQueue(s, q) PROVE LFShape'
  BY <1>1 DEF SubscribeToQueue
<1>2. ASSUME NEW s \in Sub, SendWithReply(s) PROVE LFShape'
  BY <1>2 DEF SendWithReply
<1>3. ASSUME NEW s \in Sub, ServerAnswers(s) PROVE LFShape'
  BY <1>3 DEF ServerAnswers
<1>4. ASSUME NEW s \in Sub, PostReturns(s) PROVE LFShape'
  <2>1. invocations' \in [Sub -> Seq({"join", "leave"})]
    BY <1>4, InvokeShape DEF PostReturns
  <2>2. join' \in [Sub -> {"none", "waiting", "invoked", "joined", "failed"}]
    BY <1>4 DEF PostReturns
  <2> QED
    BY <1>4, <2>1, <2>2 DEF PostReturns
<1>5. ASSUME NEW s \in Sub, PostFails(s) PROVE LFShape'
  BY <1>5 DEF PostFails
<1>6. ASSUME NEW s \in Sub, Unsubscribe(s) PROVE LFShape'
  BY <1>6 DEF Unsubscribe
<1>7. ASSUME NEW s \in Sub, ServerUnsubscribes(s) PROVE LFShape'
  BY <1>7 DEF ServerUnsubscribes
<1>8. ASSUME NEW s \in Sub, FinishUnsubscribe(s) PROVE LFShape'
  <2>1. invocations' \in [Sub -> Seq({"join", "leave"})]
    BY <1>8, InvokeShape DEF FinishUnsubscribe
  <2>2. deletes' \in [Sub -> Nat]
    BY <1>8 DEF FinishUnsubscribe
  <2>3. UNCHANGED <<join, post, inbox, sent, dispatching>>
    BY <1>8 DEF FinishUnsubscribe
  <2> QED
    BY <2>1, <2>2, <2>3
<1>9. ASSUME NEW s \in Sub, HubCall(s) PROVE LFShape'
  <2>1. Tail(invocations[s]) \in Seq({"join", "leave"})
    BY <1>9 DEF HubCall, JoinSubscription, LeaveSubscription
  <2>2. invocations' \in [Sub -> Seq({"join", "leave"})]
    BY <1>9, <2>1 DEF HubCall, JoinSubscription, LeaveSubscription
  <2>3. CASE JoinSubscription(s)
    BY <2>2, <2>3 DEF JoinSubscription
  <2>4. CASE LeaveSubscription(s)
    BY <2>2, <2>4 DEF LeaveSubscription
  <2> QED
    BY <1>9, <2>3, <2>4 DEF HubCall
<1>10. ASSUME NEW s \in Sub, Consume(s) PROVE LFShape'
  BY <1>10 DEF Consume
<1>11. ASSUME NEW s \in Sub, Broadcast(s) PROVE LFShape'
  <2>1. sent[s] + 1 \in 1..MaxMessages
    BY <1>11 DEF Broadcast
  <2>2. [subscriptionId |-> s, content |-> sent[s] + 1] \in Event
    BY <2>1 DEF Event
  <2>3. inbox' \in Seq(Event)
    BY <1>11, <2>2 DEF Broadcast
  <2>4. sent' \in [Sub -> 0..MaxMessages] /\ \A t \in dispatching' : sent'[t] < MaxMessages
    BY <1>11, <2>1 DEF Broadcast
  <2> QED
    BY <1>11, <2>3, <2>4 DEF Broadcast
<1>12. CASE HubStarts
  BY <1>12 DEF HubStarts, Waiting
<1>13. CASE HubStartFails
  BY <1>13 DEF HubStartFails, Waiting
<1>14. CASE MessageReceived
  BY <1>14 DEF MessageReceived
<1>15. CASE HubDrops
  BY <1>15 DEF HubDrops
<1>16. CASE HubReconnects
  BY <1>16 DEF HubReconnects
<1>17. CASE BrokerTeardown
  BY <1>17 DEF BrokerTeardown
<1>18. CASE UNCHANGED lfVars
  BY <1>18 DEF lfVars
<1> QED
  BY <1>1, <1>2, <1>3, <1>4, <1>5, <1>6, <1>7, <1>8, <1>9, <1>10, <1>11, <1>12, <1>13,
     <1>14, <1>15, <1>16, <1>17, <1>18
     DEF LFNext, HubSettles

\* A subscription that is known stays known; only the answer to its POST makes it so.
LEMMA KnownStep ==
    ASSUME RefInv, [LFNext]_lfVars
    PROVE  /\ Known \subseteq Known'
           /\ \A s \in Known' \ Known : PostReturns(s)
<1> USE DEF RefInv, LFShape, WireInv, Known, requests, panel, hub, received, wire, server,
            Start
<1>1. ASSUME NEW s \in Sub, NEW q \in Queue, SubscribeToQueue(s, q) PROVE Known' = Known
  BY <1>1 DEF SubscribeToQueue
<1>2. ASSUME NEW s \in Sub, SendWithReply(s) PROVE Known' = Known
  BY <1>2 DEF SendWithReply
<1>3. ASSUME NEW s \in Sub, ServerAnswers(s) PROVE Known' = Known
  BY <1>3 DEF ServerAnswers
<1>4. ASSUME NEW s \in Sub, PostReturns(s) PROVE Known' = Known \cup {s}
  <2>0. PICK j \in {"waiting", "invoked", "failed"} : join' = [join EXCEPT ![s] = j]
    BY <1>4, Zenon DEF PostReturns
  <2>1. join' \in [Sub -> {"waiting", "invoked", "joined", "failed", "none"}]
    BY <2>0
  <2>2. join'[s] # "none" /\ \A t \in Sub \ {s} : join'[t] = join[t]
    BY <2>0
  <2> QED
    BY <2>1, <2>2
<1>5. ASSUME NEW s \in Sub, PostFails(s) PROVE Known' = Known
  BY <1>5 DEF PostFails
<1>6. ASSUME NEW s \in Sub, Unsubscribe(s) \/ ServerUnsubscribes(s) PROVE Known' = Known
  BY <1>6 DEF Unsubscribe, ServerUnsubscribes
<1>7. ASSUME NEW s \in Sub, FinishUnsubscribe(s) PROVE Known' = Known
  BY <1>7 DEF FinishUnsubscribe
<1>8. ASSUME NEW s \in Sub, HubCall(s) PROVE Known' = Known
  BY <1>8 DEF HubCall, JoinSubscription, LeaveSubscription
<1>9. ASSUME NEW s \in Sub, Consume(s) \/ Broadcast(s) PROVE Known' = Known
  BY <1>9 DEF Consume, Broadcast
<1>10. CASE HubSettles
  BY <1>10 DEF HubSettles, HubStarts, HubStartFails, Waiting
<1>11. CASE MessageReceived \/ HubReconnects \/ BrokerTeardown
  BY <1>11 DEF MessageReceived, HubReconnects, BrokerTeardown
<1>12. CASE HubDrops
  BY <1>12 DEF HubDrops
<1>13. CASE UNCHANGED lfVars
  BY <1>13 DEF lfVars
<1> QED
  BY <1>1, <1>2, <1>3, <1>4, <1>5, <1>6, <1>7, <1>8, <1>9, <1>10, <1>11, <1>12, <1>13
     DEF LFNext

\* Only the answer to a POST makes a subscription known, and what is shown stays known.
LEMMA PanelStep ==
    ASSUME RefInv, [LFNext]_lfVars
    PROVE  PanelInv'
<1> USE DEF RefInv, LFShape, PanelInv, requests, panel, hub, received, wire, server
<1>1. Known \subseteq Known' /\ \A s \in Known' \ Known : PostReturns(s)
  BY KnownStep
<1>2. ASSUME NEW s \in Sub, PostReturns(s) PROVE PanelInv'
  <2>1. s \in Known'
    BY <1>2 DEF PostReturns, Known
  <2>2. subscriptions' \subseteq Known' /\ pending' \subseteq Known'
    BY <1>1, <1>2, <2>1 DEF PostReturns, Show
  <2>3. ASSUME NEW t \in Sub, post'[t] # "settled" PROVE t \notin Known'
    BY <1>2, <2>3 DEF PostReturns, Known
  <2> QED
    BY <2>2, <2>3
<1>3. ASSUME \A s \in Sub : ~PostReturns(s),
             subscriptions' \subseteq subscriptions, pending' \subseteq pending,
             \A s \in Sub : post[s] = "settled" => post'[s] = "settled"
      PROVE  PanelInv'
  <2>1. Known' = Known
    BY <1>1, <1>3 DEF Known
  <2> QED
    BY <1>3, <2>1
<1>4. ASSUME NEW s \in Sub, NEW q \in Queue, SubscribeToQueue(s, q) PROVE
        /\ UNCHANGED <<subscriptions, pending>>
        /\ \A t \in Sub : post[t] = "settled" => post'[t] = "settled"
  BY <1>4 DEF SubscribeToQueue
<1>5. ASSUME NEW s \in Sub, SendWithReply(s) \/ ServerAnswers(s) \/ PostFails(s) PROVE
        /\ UNCHANGED <<subscriptions, pending>>
        /\ \A t \in Sub : post[t] = "settled" => post'[t] = "settled"
  BY <1>5 DEF SendWithReply, ServerAnswers, PostFails
<1>6. ASSUME NEW s \in Sub,
             Unsubscribe(s) \/ ServerUnsubscribes(s) \/ HubCall(s) \/ Consume(s) \/ Broadcast(s)
      PROVE  UNCHANGED <<subscriptions, pending, post>>
  BY <1>6
     DEF Unsubscribe, ServerUnsubscribes, HubCall, JoinSubscription, LeaveSubscription,
         Consume, Broadcast
<1>7. ASSUME NEW s \in Sub, FinishUnsubscribe(s) PROVE
        subscriptions' \subseteq subscriptions /\ pending' \subseteq pending /\ UNCHANGED post
  BY <1>7 DEF FinishUnsubscribe
<1>8. ASSUME HubSettles \/ MessageReceived \/ HubDrops \/ HubReconnects \/ BrokerTeardown
      PROVE  UNCHANGED <<subscriptions, pending, post>>
  BY <1>8
     DEF HubSettles, HubStarts, HubStartFails, MessageReceived, HubDrops, HubReconnects,
         BrokerTeardown
<1>9. CASE UNCHANGED lfVars
  BY <1>1, <1>3, <1>9 DEF lfVars, Known
<1> QED
  BY <1>2, <1>3, <1>4, <1>5, <1>6, <1>7, <1>8, <1>9 DEF LFNext

\* Only known subscriptions are joined, left, deleted or heard of.
LEMMA WireStep ==
    ASSUME RefInv, [LFNext]_lfVars
    PROVE  WireInv'
<1> USE DEF RefInv, LFShape, PanelInv, WireInv, requests, panel, hub, received, wire,
            server, Start
<1>1. Known \subseteq Known'
  BY KnownStep
<1>2. ASSUME UNCHANGED <<invocations, deletes, groups, inbox>> PROVE WireInv'
  BY <1>1, <1>2
<1>3. ASSUME NEW s \in Sub, NEW q \in Queue, SubscribeToQueue(s, q) PROVE WireInv'
  BY <1>2, <1>3 DEF SubscribeToQueue
<1>4. ASSUME NEW s \in Sub, SendWithReply(s) \/ ServerAnswers(s) \/ PostFails(s) PROVE WireInv'
  BY <1>2, <1>4 DEF SendWithReply, ServerAnswers, PostFails
<1>5. ASSUME NEW s \in Sub, PostReturns(s) PROVE WireInv'
  <2>1. s \in Known'
    BY <1>5 DEF PostReturns, Known
  <2>2. \A t \in Sub \ {s} : invocations'[t] = invocations[t]
    BY <1>5 DEF PostReturns, Invoke
  <2>3. UNCHANGED <<deletes, groups, inbox>>
    BY <1>5 DEF PostReturns
  <2> QED
    BY <1>1, <2>1, <2>2, <2>3
<1>6. ASSUME NEW s \in Sub, Unsubscribe(s) PROVE WireInv'
  <2>1. s \in Known'
    BY <1>1, <1>6 DEF Unsubscribe, Shown
  <2>2. \A t \in Sub \ {s} : deletes'[t] = deletes[t]
    BY <1>6 DEF Unsubscribe
  <2>3. UNCHANGED <<invocations, groups, inbox>>
    BY <1>6 DEF Unsubscribe
  <2> QED
    BY <1>1, <2>1, <2>2, <2>3
<1>7. ASSUME NEW s \in Sub, ServerUnsubscribes(s) \/ Consume(s) PROVE WireInv'
  BY <1>2, <1>7 DEF ServerUnsubscribes, Consume
<1>8. ASSUME NEW s \in Sub, FinishUnsubscribe(s) PROVE WireInv'
  <2>1. s \in Known'
    BY <1>1, <1>8 DEF FinishUnsubscribe
  <2>2. \A t \in Sub \ {s} : deletes'[t] = deletes[t] /\ invocations'[t] = invocations[t]
    BY <1>8 DEF FinishUnsubscribe, Invoke
  <2>3. UNCHANGED <<groups, inbox>>
    BY <1>8 DEF FinishUnsubscribe
  <2> QED
    BY <1>1, <2>1, <2>2, <2>3
<1>9. ASSUME NEW s \in Sub, HubCall(s) PROVE WireInv'
  <2>1. s \in Known'
    BY <1>1, <1>9 DEF HubCall, JoinSubscription, LeaveSubscription
  <2>2. \A t \in Sub \ {s} : invocations'[t] = invocations[t]
    BY <1>9 DEF HubCall, JoinSubscription, LeaveSubscription
  <2>3. groups' \subseteq groups \cup {s} /\ UNCHANGED <<deletes, inbox>>
    BY <1>9 DEF HubCall, JoinSubscription, LeaveSubscription
  <2> QED
    BY <1>1, <2>1, <2>2, <2>3
<1>10. ASSUME NEW s \in Sub, Broadcast(s) PROVE WireInv'
  <2>1. CASE s \in groups
    <3> DEFINE m == [subscriptionId |-> s, content |-> sent[s] + 1]
    <3>1. inbox' = Append(inbox, m) /\ m.subscriptionId \in Known
      BY <1>10, <2>1 DEF Broadcast
    <3>2. \A i \in 1..Len(inbox') : inbox'[i].subscriptionId \in Known
      BY <3>1
    <3> QED
      BY <1>1, <1>10, <3>2 DEF Broadcast
  <2>2. CASE s \notin groups
    BY <1>2, <1>10, <2>2 DEF Broadcast
  <2> QED
    BY <2>1, <2>2
<1>11. CASE HubStarts
  <2>1. \A t \in Sub : invocations'[t] # << >> => t \in Known
    BY <1>11 DEF HubStarts, Waiting, Known
  <2> QED
    BY <1>1, <1>11, <2>1 DEF HubStarts
<1>12. CASE HubStartFails
  BY <1>2, <1>12 DEF HubStartFails
<1>13. CASE MessageReceived
  <2>1. inbox' = Tail(inbox) /\ inbox # << >>
    BY <1>13 DEF MessageReceived
  <2>2. \A i \in 1..Len(inbox') : inbox'[i] = inbox[i + 1] /\ i + 1 \in 1..Len(inbox)
    BY <2>1
  <2> QED
    BY <1>1, <1>13, <2>2 DEF MessageReceived
<1>14. CASE HubDrops
  BY <1>1, <1>14 DEF HubDrops
<1>15. CASE HubReconnects \/ BrokerTeardown
  BY <1>2, <1>15 DEF HubReconnects, BrokerTeardown
<1>16. CASE UNCHANGED lfVars
  BY <1>2, <1>16 DEF lfVars
<1> QED
  BY <1>3, <1>4, <1>5, <1>6, <1>7, <1>8, <1>9, <1>10, <1>11, <1>12, <1>13, <1>14, <1>15,
     <1>16
     DEF LFNext, HubSettles

\* The three together are inductive.
LEMMA RefInvStep ==
    ASSUME RefInv, [LFNext]_lfVars
    PROVE  RefInv'
BY ShapeStep, PanelStep, WireStep DEF RefInv

\* The empty page is the empty list.
LEMMA MapsInit == LFInit => ML!MLInit
BY DEF LFInit, ML!MLInit, Known

\* The answer to a POST puts one subscription on the screen, the removal of one takes its
\* messages along, an event received is the next message; nothing else is seen.
LEMMA MapsStep ==
    ASSUME RefInv, [LFNext]_lfVars
    PROVE  [ML!MLNext]_(ML!mlVars)
<1> USE DEF RefInv, LFShape, PanelInv, WireInv, requests, panel, hub, received, wire,
            server, Start
<1>0. Known \subseteq Known' /\ \A s \in Known' \ Known : PostReturns(s)
  BY KnownStep
<1>1. ASSUME \A s \in Sub : ~PostReturns(s) PROVE Known' = Known
  BY <1>0, <1>1 DEF Known
<1>2. ASSUME NEW s \in Sub, PostReturns(s) PROVE ML!Put(s)
  <2>1. s \notin Known
    BY <1>2 DEF PostReturns
  <2>2. join'[s] # "none" /\ \A t \in Sub \ {s} : join'[t] = join[t]
    BY <1>2 DEF PostReturns
  <2>3. Known' = Known \cup {s}
    BY <2>2 DEF Known
  <2>4. UNCHANGED <<messages, nextSeq>>
    BY <1>2 DEF PostReturns
  <2>5. \/ subscriptions' = subscriptions \cup {s} /\ UNCHANGED pending
        \/ pending' = pending \cup {s} /\ UNCHANGED subscriptions
    BY <1>2 DEF PostReturns, Show
  <2> QED
    BY <2>1, <2>3, <2>4, <2>5 DEF ML!Put
<1>3. ASSUME NEW s \in Sub, FinishUnsubscribe(s) PROVE ML!RemoveSubscription(s)
  <2>1. s \in Known /\ UNCHANGED <<join, nextSeq>>
    BY <1>3 DEF FinishUnsubscribe
  <2>2. Known' = Known
    BY <2>1 DEF Known
  <2>3. /\ messages' = Filtered(messages, {i \in 1..Len(messages) :
                                             messages[i].subscriptionId # s})
        /\ subscriptions' = subscriptions \ {s}
        /\ pending' = pending \ {s}
    BY <1>3, Zenon DEF FinishUnsubscribe
  <2>4. ML!Without(s) = Filtered(messages, {i \in 1..Len(messages) :
                                               messages[i].subscriptionId # s})
    BY Zenon DEF ML!Without, ML!Filtered, Filtered
  <2> QED
    BY <2>1, <2>2, <2>3, <2>4, Zenon DEF ML!RemoveSubscription
<1>4. CASE MessageReceived
  <2> DEFINE e == Head(inbox)
  <2>1. e \in Event /\ e.subscriptionId \in Known
    <3>1. inbox # << >> /\ inbox \in Seq(Event)
      BY <1>4 DEF MessageReceived
    <3>2. 1 \in 1..Len(inbox) /\ e = inbox[1] /\ e \in Event
      BY <3>1
    <3> QED
      BY <3>2
  <2>2. /\ messages' = <<[subscriptionId |-> e.subscriptionId, content |-> e.content,
                          seq |-> nextSeq]>> \o messages
        /\ nextSeq' = nextSeq + 1
        /\ UNCHANGED <<subscriptions, pending, join>>
    BY <1>4 DEF MessageReceived, Stamp
  <2>3. Known' = Known
    BY <2>2 DEF Known
  <2>4. e.subscriptionId \in Sub /\ e.content \in 1..MaxMessages
    BY <2>1 DEF Event
  <2>5. ML!Arrive(e.subscriptionId, e.content)
    BY <2>1, <2>2, <2>3 DEF ML!Arrive
  <2> QED
    BY <2>4, <2>5 DEF ML!MLNext
<1>5. ASSUME UNCHANGED <<messages, nextSeq, subscriptions, pending>>,
             \A s \in Sub : ~PostReturns(s)
      PROVE  UNCHANGED ML!mlVars
  BY <1>1, <1>5 DEF ML!mlVars
<1>6. ASSUME NEW s \in Sub, NEW q \in Queue, SubscribeToQueue(s, q) PROVE
        UNCHANGED <<messages, nextSeq, subscriptions, pending>>
  BY <1>6 DEF SubscribeToQueue
<1>7. ASSUME NEW s \in Sub, SendWithReply(s) \/ ServerAnswers(s) \/ PostFails(s) PROVE
        UNCHANGED <<messages, nextSeq, subscriptions, pending>>
  BY <1>7 DEF SendWithReply, ServerAnswers, PostFails
<1>8. ASSUME NEW s \in Sub,
             Unsubscribe(s) \/ ServerUnsubscribes(s) \/ HubCall(s) \/ Consume(s) \/ Broadcast(s)
      PROVE  UNCHANGED <<messages, nextSeq, subscriptions, pending>>
  BY <1>8
     DEF Unsubscribe, ServerUnsubscribes, HubCall, JoinSubscription, LeaveSubscription,
         Consume, Broadcast
<1>9. ASSUME HubSettles \/ HubDrops \/ HubReconnects \/ BrokerTeardown
      PROVE  UNCHANGED <<messages, nextSeq, subscriptions, pending>>
  BY <1>9 DEF HubSettles, HubStarts, HubStartFails, HubDrops, HubReconnects, BrokerTeardown
<1>10. CASE UNCHANGED lfVars
  BY <1>10 DEF lfVars, Known, ML!mlVars
<1>11. (\E s \in Sub : PostReturns(s)) => ML!MLNext
  BY <1>2 DEF ML!MLNext
<1>12. (\E s \in Sub : FinishUnsubscribe(s)) => ML!MLNext
  BY <1>3 DEF ML!MLNext
<1> QED
  BY <1>4, <1>5, <1>6, <1>7, <1>8, <1>9, <1>10, <1>11, <1>12 DEF LFNext

\* Whatever happens between the server and the tab, the page's lists of messages, chips
\* and pending replies change only as MessageList has it.
THEOREM FeedIsMessageList == LFSpec => ImplementsMessageList
<1>1. LFSpec => []RefInv
  BY RefInit, RefInvStep, PTL DEF LFSpec
<1> QED
  BY <1>1, MapsInit, MapsStep, PTL DEF LFSpec, ImplementsMessageList, ML!MLSpec

-----------------------------------------------------------------------------
(* The order of the messages *)

\* A message of the list, whatever nextSeq is.
ListedMessage == [subscriptionId : Sub, content : 1..MaxMessages, seq : Nat]

\* The same type as LFTypeOK's, in terms that do not change with nextSeq.
MessagesInv ==
    /\ nextSeq \in Nat
    /\ messages \in Seq(ListedMessage)
    /\ \A i \in 1..Len(messages) : messages[i].seq < nextSeq

\* What is on its way for a subscription is in the order of its broadcasts and newer
\* than all that has arrived.
OrderInv ==
    /\ NewestFirst
    /\ \A i \in 1..Len(messages) : messages[i].content <= sent[messages[i].subscriptionId]
    /\ \A j \in 1..Len(inbox) : inbox[j].content <= sent[inbox[j].subscriptionId]
    /\ \A i, j \in 1..Len(inbox) :
          i < j /\ inbox[i].subscriptionId = inbox[j].subscriptionId =>
              inbox[i].content < inbox[j].content
    /\ \A i \in 1..Len(messages), j \in 1..Len(inbox) :
          messages[i].subscriptionId = inbox[j].subscriptionId =>
              messages[i].content < inbox[j].content

\* A shown subscription that has had a message is still in its group while the
\* connection holds, since nobody asked the hub to leave it.
GapInv ==
    /\ \A i \in 1..Len(messages) : messages[i].subscriptionId \in Known
    /\ \A s \in Shown : \A k \in 1..Len(invocations[s]) : invocations[s][k] # "leave"
    /\ drops = 0 => \A s \in Shown : Arrived(s) # {} => s \in groups
    /\ NoGapAfterFirst

\* MessageReceived and FinishUnsubscribe are the only steps that change the list.
LEMMA MessagesOnly ==
    ASSUME [LFNext]_lfVars, ~MessageReceived, \A s \in Sub : ~FinishUnsubscribe(s)
    PROVE  UNCHANGED <<messages, nextSeq>>
<1> USE DEF received
<1>1. ASSUME NEW s \in Sub,
             \/ \E q \in Queue : SubscribeToQueue(s, q)
             \/ SendWithReply(s) \/ ServerAnswers(s) \/ PostReturns(s) \/ PostFails(s)
      PROVE  UNCHANGED <<messages, nextSeq>>
  BY <1>1 DEF SubscribeToQueue, SendWithReply, ServerAnswers, PostReturns, PostFails
<1>2. ASSUME NEW s \in Sub,
             Unsubscribe(s) \/ ServerUnsubscribes(s) \/ HubCall(s) \/ Consume(s) \/ Broadcast(s)
      PROVE  UNCHANGED <<messages, nextSeq>>
  BY <1>2
     DEF Unsubscribe, ServerUnsubscribes, HubCall, JoinSubscription, LeaveSubscription,
         Consume, Broadcast
<1>3. ASSUME HubSettles \/ HubDrops \/ HubReconnects \/ BrokerTeardown
      PROVE  UNCHANGED <<messages, nextSeq>>
  BY <1>3 DEF HubSettles, HubStarts, HubStartFails, HubDrops, HubReconnects, BrokerTeardown
<1> QED
  BY <1>1, <1>2, <1>3 DEF LFNext, lfVars

\* Only these steps, broadcasts and a lost connection touch what is on its way.
LEMMA InboxOnly ==
    ASSUME [LFNext]_lfVars, ~MessageReceived, ~HubDrops, \A s \in Sub : ~Broadcast(s)
    PROVE  UNCHANGED <<inbox, sent>>
<1> USE DEF wire, server
<1>1. ASSUME NEW s \in Sub,
             \/ \E q \in Queue : SubscribeToQueue(s, q)
             \/ SendWithReply(s) \/ ServerAnswers(s) \/ PostReturns(s) \/ PostFails(s)
      PROVE  UNCHANGED <<inbox, sent>>
  BY <1>1 DEF SubscribeToQueue, SendWithReply, ServerAnswers, PostReturns, PostFails
<1>2. ASSUME NEW s \in Sub,
             \/ Unsubscribe(s) \/ ServerUnsubscribes(s) \/ FinishUnsubscribe(s)
             \/ HubCall(s) \/ Consume(s)
      PROVE  UNCHANGED <<inbox, sent>>
  BY <1>2
     DEF Unsubscribe, ServerUnsubscribes, FinishUnsubscribe, HubCall, JoinSubscription,
         LeaveSubscription, Consume
<1>3. ASSUME HubSettles \/ HubReconnects \/ BrokerTeardown
      PROVE  UNCHANGED <<inbox, sent>>
  BY <1>3 DEF HubSettles, HubStarts, HubStartFails, HubReconnects, BrokerTeardown
<1> QED
  BY <1>1, <1>2, <1>3 DEF LFNext, lfVars

\* What arithmetic needs to know of the messages.
LEMMA MessageFields ==
    ASSUME RefInv, MessagesInv
    PROVE  /\ \A i \in 1..Len(messages) :
                /\ messages[i].subscriptionId \in Sub
                /\ messages[i].content \in Int /\ messages[i].seq \in Int
                /\ messages[i].seq < nextSeq
           /\ \A j \in 1..Len(inbox) :
                inbox[j].subscriptionId \in Sub /\ inbox[j].content \in Int
           /\ nextSeq \in Int
<1>1. \A m \in ListedMessage : m.subscriptionId \in Sub /\ m.content \in Int /\ m.seq \in Int
  BY DEF ListedMessage
<1>2. \A e \in Event : e.subscriptionId \in Sub /\ e.content \in Int
  BY DEF Event
<1>3. \A i \in 1..Len(messages) : messages[i] \in ListedMessage
  BY DEF MessagesInv
<1>4. \A j \in 1..Len(inbox) : inbox[j] \in Event
  BY DEF RefInv, LFShape
<1> QED
  BY <1>1, <1>2, <1>3, <1>4 DEF MessagesInv

\* What clearing a subscription leaves: every message of the others, where it was.
LEMMA Cleared ==
    ASSUME NEW s \in Sub, FinishUnsubscribe(s), MessagesInv
    PROVE  /\ messages' \in Seq(ListedMessage)
           /\ \E at \in [1..Len(messages') -> 1..Len(messages)] :
                /\ \A k \in 1..Len(messages') :
                      messages'[k] = messages[at[k]] /\ messages'[k].subscriptionId # s
                /\ \A j, k \in 1..Len(messages') : j < k => at[j] < at[k]
                /\ \A i \in 1..Len(messages) : messages[i].subscriptionId # s =>
                      \E k \in 1..Len(messages') : at[k] = i
<1> DEFINE kept == {i \in 1..Len(messages) : messages[i].subscriptionId # s}
<1>1. messages' = Filtered(messages, kept)
  BY DEF FinishUnsubscribe
<1>2. messages \in Seq(ListedMessage)
  BY DEF MessagesInv
<1> HIDE DEF kept
<1>3. /\ messages' \in Seq(ListedMessage)
      /\ \E at : Picks(at, messages', messages, kept, Len(messages))
  BY <1>1, <1>2, FilteredPicks
<1>4. PICK at : Picks(at, messages', messages, kept, Len(messages))
  BY <1>3
<1>5. \A i \in 1..Len(messages) : messages[i].subscriptionId # s => i \in kept
  BY DEF kept
<1>6. \A i \in kept : messages[i].subscriptionId # s
  BY DEF kept
<1>7. /\ at \in [1..Len(messages') -> 1..Len(messages)]
      /\ \A k \in 1..Len(messages') : at[k] \in kept /\ messages'[k] = messages[at[k]]
      /\ \A j, k \in 1..Len(messages') : j < k => at[j] < at[k]
      /\ \A i \in kept \cap 1..Len(messages) : \E k \in 1..Len(messages') : at[k] = i
  BY <1>4, Zenon DEF Picks
<1>8. \A k \in 1..Len(messages') : messages'[k].subscriptionId # s
  BY <1>6, <1>7
<1>9. \A i \in 1..Len(messages) : messages[i].subscriptionId # s =>
         \E k \in 1..Len(messages') : at[k] = i
  BY <1>5, <1>7
<1> QED
  BY <1>3, <1>7, <1>8, <1>9

\* The oldest message on its way becomes the newest of the list.
LEMMA Listed ==
    ASSUME RefInv, MessagesInv, MessageReceived
    PROVE  /\ Len(messages') = Len(messages) + 1 /\ Len(inbox) = Len(inbox') + 1
           /\ messages' \in Seq(ListedMessage) /\ nextSeq' = nextSeq + 1
           /\ messages'[1] = [subscriptionId |-> inbox[1].subscriptionId,
                              content |-> inbox[1].content, seq |-> nextSeq]
           /\ \A i \in 1..Len(messages) : messages'[i + 1] = messages[i]
           /\ \A j \in 1..Len(inbox') : inbox'[j] = inbox[j + 1]
           /\ inbox[1] \in Event /\ 1 \in 1..Len(inbox)
<1> DEFINE e == inbox[1]
           new == [subscriptionId |-> e.subscriptionId, content |-> e.content, seq |-> nextSeq]
<1>1. inbox # << >> /\ inbox \in Seq(Event) /\ inbox' = Tail(inbox) /\ nextSeq' = nextSeq + 1
  BY DEF MessageReceived, RefInv, LFShape
<1>2. /\ 1 \in 1..Len(inbox) /\ e \in Event /\ Head(inbox) = e /\ Len(inbox) = Len(inbox') + 1
      /\ \A j \in 1..Len(inbox') : inbox'[j] = inbox[j + 1]
  BY <1>1
<1>3. new \in ListedMessage
  BY <1>2 DEF MessagesInv, ListedMessage, Event
<1>4. messages' = <<new>> \o messages /\ messages \in Seq(ListedMessage)
  BY <1>2 DEF MessageReceived, Stamp, MessagesInv, ListedMessage
<1> HIDE DEF new
<1>5. /\ messages' \in Seq(ListedMessage) /\ Len(messages') = Len(messages) + 1
      /\ messages'[1] = new /\ \A i \in 1..Len(messages) : messages'[i + 1] = messages[i]
  BY <1>3, <1>4
<1> QED
  BY <1>1, <1>2, <1>5 DEF new

\* A message received pushes the others back by one.
LEMMA Shifted ==
    ASSUME RefInv, MessagesInv, MessageReceived, NEW i \in 1..Len(messages'), i # 1
    PROVE  i - 1 \in 1..Len(messages) /\ messages'[i] = messages[i - 1]
<1>1. i - 1 \in 1..Len(messages) /\ (i - 1) + 1 = i
  BY Listed DEF MessagesInv
<1> QED
  BY <1>1, Listed

\* The list keeps its type, and its sequence numbers are below the next one.
LEMMA MessagesStep ==
    ASSUME RefInv, MessagesInv, [LFNext]_lfVars
    PROVE  MessagesInv'
<1>1. ASSUME NEW s \in Sub, FinishUnsubscribe(s) PROVE MessagesInv'
  <2>1. nextSeq' = nextSeq
    BY <1>1 DEF FinishUnsubscribe
  <2> QED
    BY <1>1, <2>1, Cleared, MessageFields DEF MessagesInv
<1>2. CASE MessageReceived
  <2>1. \A i \in 1..Len(messages) : messages[i].seq \in Int /\ messages[i].seq < nextSeq
    BY MessageFields
  <2>2. ASSUME NEW i \in 1..Len(messages') PROVE messages'[i].seq < nextSeq'
    <3>1. nextSeq' = nextSeq + 1 /\ nextSeq \in Nat
      BY <1>2, Listed DEF MessagesInv
    <3>2. CASE i = 1
      BY <1>2, <3>1, <3>2, Listed
    <3>3. CASE i # 1
      <4>1. messages'[i] = messages[i - 1] /\ i - 1 \in 1..Len(messages)
        BY <1>2, <3>3, Shifted
      <4> QED
        BY <2>1, <3>1, <4>1
    <3> QED
      BY <3>2, <3>3
  <2> QED
    BY <1>2, <2>2, Listed DEF MessagesInv
<1>3. CASE ~MessageReceived /\ \A s \in Sub : ~FinishUnsubscribe(s)
  BY <1>3, MessagesOnly DEF MessagesInv
<1> QED
  BY <1>1, <1>2, <1>3

\* Clearing leaves the rest in order, and what arrives is newer than what was there.
LEMMA OrderStep ==
    ASSUME RefInv, MessagesInv, OrderInv, [LFNext]_lfVars
    PROVE  OrderInv'
<1> USE DEF OrderInv, NewestFirst
<1>0. /\ \A i \in 1..Len(messages) :
            /\ messages[i].subscriptionId \in Sub
            /\ messages[i].content \in Int /\ messages[i].seq \in Int
            /\ messages[i].seq < nextSeq
      /\ \A j \in 1..Len(inbox) : inbox[j].subscriptionId \in Sub /\ inbox[j].content \in Int
      /\ Len(messages) \in Nat /\ Len(inbox) \in Nat /\ Len(inbox') \in Nat
  BY MessageFields, RefInvStep DEF MessagesInv, RefInv, LFShape
<1>1. ASSUME NEW s \in Sub, FinishUnsubscribe(s) PROVE OrderInv'
  <2>1. UNCHANGED <<inbox, sent>>
    BY <1>1 DEF FinishUnsubscribe, server
  <2>2. PICK at \in [1..Len(messages') -> 1..Len(messages)] :
           /\ \A k \in 1..Len(messages') : messages'[k] = messages[at[k]]
           /\ \A j, k \in 1..Len(messages') : j < k => at[j] < at[k]
    BY <1>1, Cleared
  <2>3. \A k \in 1..Len(messages') : at[k] \in 1..Len(messages)
    BY <2>2
  <2>4. NewestFirst'
    BY <2>2, <2>3
  <2> QED
    BY <2>1, <2>2, <2>3, <2>4
<1>2. CASE MessageReceived
  <2>1. sent' = sent
    BY <1>2 DEF MessageReceived, server
  <2>2. \A i \in 1..Len(messages') : i # 1 =>
           i - 1 \in 1..Len(messages) /\ messages'[i] = messages[i - 1]
    BY <1>2, Shifted
  <2>3. /\ messages'[1].seq = nextSeq /\ messages'[1].content = inbox[1].content
        /\ messages'[1].subscriptionId = inbox[1].subscriptionId
        /\ 1 \in 1..Len(inbox)
    BY <1>2, Listed
  <2>4. \A j \in 1..Len(inbox') : j + 1 \in 1..Len(inbox) /\ 1 < j + 1 /\ inbox'[j] = inbox[j + 1]
    BY <1>2, Listed
  <2>5. NewestFirst'
    <3> SUFFICES ASSUME NEW i \in 1..Len(messages'), NEW j \in 1..Len(messages'), i < j
                 PROVE  /\ messages'[i].seq > messages'[j].seq
                        /\ messages'[i].subscriptionId = messages'[j].subscriptionId =>
                              messages'[i].content > messages'[j].content
      OBVIOUS
    <3>1. j - 1 \in 1..Len(messages) /\ messages'[j] = messages[j - 1]
      BY <2>2
    <3>2. CASE i = 1
      BY <1>0, <2>3, <3>1, <3>2
    <3>3. CASE i # 1
      <4>1. i - 1 \in 1..Len(messages) /\ messages'[i] = messages[i - 1] /\ i - 1 < j - 1
        BY <2>2, <3>3
      <4> QED
        BY <3>1, <4>1
    <3> QED
      BY <3>2, <3>3
  <2>6. \A i \in 1..Len(messages') : messages'[i].content <= sent'[messages'[i].subscriptionId]
    BY <1>0, <2>1, <2>2, <2>3
  <2>7. /\ \A j \in 1..Len(inbox') : inbox'[j].content <= sent'[inbox'[j].subscriptionId]
        /\ \A i, j \in 1..Len(inbox') :
              i < j /\ inbox'[i].subscriptionId = inbox'[j].subscriptionId =>
                  inbox'[i].content < inbox'[j].content
    <3>1. \A j \in 1..Len(inbox') : inbox'[j].content <= sent'[inbox'[j].subscriptionId]
      BY <2>1, <2>4
    <3>2. \A i, j \in 1..Len(inbox') : i < j => i + 1 < j + 1
      BY <1>0
    <3> QED
      BY <2>4, <3>1, <3>2
  <2>8. \A i \in 1..Len(messages'), j \in 1..Len(inbox') :
           messages'[i].subscriptionId = inbox'[j].subscriptionId =>
               messages'[i].content < inbox'[j].content
    <3> SUFFICES ASSUME NEW i \in 1..Len(messages'), NEW j \in 1..Len(inbox'),
                        messages'[i].subscriptionId = inbox'[j].subscriptionId
                 PROVE  messages'[i].content < inbox'[j].content
      OBVIOUS
    <3>1. j + 1 \in 1..Len(inbox) /\ 1 < j + 1 /\ inbox'[j] = inbox[j + 1]
      BY <2>4
    <3>2. CASE i = 1
      BY <2>3, <3>1, <3>2
    <3>3. CASE i # 1
      BY <2>2, <3>1, <3>3
    <3> QED
      BY <3>2, <3>3
  <2> QED
    BY <2>5, <2>6, <2>7, <2>8
<1>3. ASSUME NEW s \in Sub, Broadcast(s) PROVE OrderInv'
  <2> DEFINE e == [subscriptionId |-> s, content |-> sent[s] + 1]
  <2>1. /\ messages' = messages /\ sent' = [sent EXCEPT ![s] = @ + 1]
        /\ inbox' = inbox \/ inbox' = Append(inbox, e)
        /\ inbox \in Seq(Event) /\ sent \in [Sub -> 0..MaxMessages]
    BY <1>3 DEF Broadcast, received, RefInv, LFShape
  <2>2. \A t \in Sub : sent[t] <= sent'[t] /\ sent[t] \in Int /\ sent'[t] \in Int
    <3>1. \A t \in Sub : sent[t] \in Int /\ sent'[t] = IF t = s THEN sent[t] + 1 ELSE sent[t]
      BY <2>1, LiveFeedAssumption
    <3> QED
      BY <3>1
  <2>3. \A i \in 1..Len(messages) :
           /\ messages[i].subscriptionId \in Sub /\ messages[i].content \in Int
           /\ messages[i].content <= sent'[messages[i].subscriptionId]
    <3> SUFFICES ASSUME NEW i \in 1..Len(messages)
                 PROVE  messages[i].content <= sent'[messages[i].subscriptionId]
      BY <1>0
    <3> DEFINE t == messages[i].subscriptionId
    <3>1. t \in Sub /\ messages[i].content \in Int /\ messages[i].content <= sent[t]
      BY <1>0
    <3> QED
      BY <2>2, <3>1
  <2>4. \A j \in 1..Len(inbox) :
           /\ inbox[j].subscriptionId \in Sub /\ inbox[j].content \in Int
           /\ inbox[j].content <= sent'[inbox[j].subscriptionId]
    <3> SUFFICES ASSUME NEW j \in 1..Len(inbox)
                 PROVE  inbox[j].content <= sent'[inbox[j].subscriptionId]
      BY <1>0
    <3> DEFINE t == inbox[j].subscriptionId
    <3>1. t \in Sub /\ inbox[j].content \in Int /\ inbox[j].content <= sent[t]
      BY <1>0
    <3> QED
      BY <2>2, <3>1
  <2>5. CASE inbox' = inbox
    BY <2>1, <2>3, <2>4, <2>5
  <2>6. CASE inbox' = Append(inbox, e)
    <3>1. /\ Len(inbox') = Len(inbox) + 1 /\ Len(inbox) \in Nat
          /\ \A j \in 1..Len(inbox) : inbox'[j] = inbox[j]
          /\ inbox'[Len(inbox) + 1].subscriptionId = s
          /\ inbox'[Len(inbox) + 1].content = sent[s] + 1
          /\ sent'[s] = sent[s] + 1
      BY <2>1, <2>6
    <3>2. \A j \in 1..Len(inbox') : j = Len(inbox) + 1 \/ j \in 1..Len(inbox)
      BY <3>1
    <3>3. \A j \in 1..Len(inbox') : inbox'[j].content <= sent'[inbox'[j].subscriptionId]
      BY <2>2, <2>4, <3>1, <3>2
    <3>4. \A i, j \in 1..Len(inbox') :
              i < j /\ inbox'[i].subscriptionId = inbox'[j].subscriptionId =>
                  inbox'[i].content < inbox'[j].content
      <4> SUFFICES ASSUME NEW i \in 1..Len(inbox'), NEW j \in 1..Len(inbox'), i < j,
                          inbox'[i].subscriptionId = inbox'[j].subscriptionId
                   PROVE  inbox'[i].content < inbox'[j].content
        OBVIOUS
      <4>1. i \in 1..Len(inbox) /\ inbox'[i] = inbox[i]
        BY <3>1, <3>2
      <4>2. CASE j \in 1..Len(inbox)
        BY <3>1, <4>1, <4>2
      <4>3. CASE j = Len(inbox) + 1
        BY <2>2, <2>4, <3>1, <4>1, <4>3
      <4> QED
        BY <3>2, <4>2, <4>3
    <3>5. \A i \in 1..Len(messages), j \in 1..Len(inbox') :
             messages[i].subscriptionId = inbox'[j].subscriptionId =>
                 messages[i].content < inbox'[j].content
      <4> SUFFICES ASSUME NEW i \in 1..Len(messages), NEW j \in 1..Len(inbox'),
                          messages[i].subscriptionId = inbox'[j].subscriptionId
                   PROVE  messages[i].content < inbox'[j].content
        OBVIOUS
      <4>1. CASE j \in 1..Len(inbox)
        BY <3>1, <4>1
      <4>2. CASE j = Len(inbox) + 1
        <5>1. messages[i].content <= sent[s] /\ messages[i].content \in Int
          BY <1>0, <3>1, <4>2
        <5> QED
          BY <2>2, <3>1, <4>2, <5>1
      <4> QED
        BY <3>2, <4>1, <4>2
    <3> QED
      BY <2>1, <2>3, <3>3, <3>4, <3>5
  <2> QED
    BY <2>1, <2>5, <2>6
<1>4. CASE HubDrops
  BY <1>4 DEF HubDrops, received, server
<1>5. CASE ~MessageReceived /\ ~HubDrops /\ \A s \in Sub : ~FinishUnsubscribe(s) /\ ~Broadcast(s)
  BY <1>5, MessagesOnly, InboxOnly
<1> QED
  BY <1>1, <1>2, <1>3, <1>4, <1>5

-----------------------------------------------------------------------------
(* No message is missed after the first *)

\* A message has arrived when it is in the list or on its way to it.
LEMMA ArrivedMeans ==
    ASSUME NEW s, NEW n
    PROVE  n \in Arrived(s) <=>
             \/ \E i \in 1..Len(messages) :
                   messages[i].subscriptionId = s /\ messages[i].content = n
             \/ \E j \in 1..Len(inbox) : inbox[j].subscriptionId = s /\ inbox[j].content = n
BY DEF Arrived

\* Of the steps only a broadcast to the group adds to what has arrived for a shown
\* subscription, and none takes from it while the connection holds.
LEMMA ArrivedStep ==
    ASSUME RefInv, MessagesInv, [LFNext]_lfVars, ~HubDrops, NEW s \in Sub
    PROVE  \/ Arrived(s)' = Arrived(s) /\ sent'[s] = sent[s]
           \/ FinishUnsubscribe(s)
           \/ /\ Broadcast(s) /\ sent'[s] = sent[s] + 1
              /\ Arrived(s)' = IF s \in groups THEN Arrived(s) \cup {sent[s] + 1} ELSE Arrived(s)
<1> DEFINE InList(n) == \E i \in 1..Len(messages) :
                           messages[i].subscriptionId = s /\ messages[i].content = n
           InBox(n) == \E j \in 1..Len(inbox) :
                           inbox[j].subscriptionId = s /\ inbox[j].content = n
<1>1. /\ \A n : n \in Arrived(s) <=> InList(n) \/ InBox(n)
      /\ \A n : n \in Arrived(s)' <=> InList(n)' \/ InBox(n)'
  BY DEF Arrived
<1>2. ASSUME NEW t \in Sub, FinishUnsubscribe(t), s # t
      PROVE  Arrived(s)' = Arrived(s) /\ sent'[s] = sent[s]
  <2>1. UNCHANGED <<inbox, sent>>
    BY <1>2 DEF FinishUnsubscribe, server
  <2>2. PICK at \in [1..Len(messages') -> 1..Len(messages)] :
           /\ \A k \in 1..Len(messages') : messages'[k] = messages[at[k]]
           /\ \A i \in 1..Len(messages) : messages[i].subscriptionId # t =>
                 \E k \in 1..Len(messages') : at[k] = i
    BY <1>2, Cleared
  <2>3. \A n : InList(n)' => InList(n)
    BY <2>2
  <2>4. ASSUME NEW n, InList(n) PROVE InList(n)'
    <3>1. PICK i \in 1..Len(messages) : messages[i].subscriptionId = s /\ messages[i].content = n
      BY <2>4
    <3>2. PICK k \in 1..Len(messages') : at[k] = i
      BY <1>2, <2>2, <3>1
    <3>3. messages'[k] = messages[i]
      BY <2>2, <3>2
    <3> QED
      BY <3>1, <3>3
  <2> QED
    BY <1>1, <2>1, <2>3, <2>4
<1>3. CASE MessageReceived
  <2>1. sent' = sent
    BY <1>3 DEF MessageReceived, server
  <2>2. /\ 1 \in 1..Len(inbox) /\ 1 \in 1..Len(messages')
        /\ messages'[1].subscriptionId = inbox[1].subscriptionId
        /\ messages'[1].content = inbox[1].content
    BY <1>3, Listed DEF MessagesInv
  <2>3. \A i \in 1..Len(messages) : i + 1 \in 1..Len(messages') /\ messages'[i + 1] = messages[i]
    BY <1>3, Listed DEF MessagesInv
  <2>4. \A i \in 1..Len(messages') :
           i = 1 \/ (i - 1 \in 1..Len(messages) /\ messages'[i] = messages[i - 1])
    BY <1>3, Shifted
  <2>5. \A j \in 1..Len(inbox') : j + 1 \in 1..Len(inbox) /\ inbox'[j] = inbox[j + 1]
    BY <1>3, Listed
  <2>6. \A j \in 1..Len(inbox) : j = 1 \/ (j - 1 \in 1..Len(inbox') /\ inbox[j] = inbox'[j - 1])
    <3> SUFFICES ASSUME NEW j \in 1..Len(inbox), j # 1
                 PROVE  j - 1 \in 1..Len(inbox') /\ inbox[j] = inbox'[j - 1]
      OBVIOUS
    <3>1. Len(inbox) = Len(inbox') + 1 /\ Len(inbox') \in Nat
      BY <1>3, Listed, RefInvStep DEF RefInv, LFShape
    <3>2. j - 1 \in 1..Len(inbox') /\ (j - 1) + 1 = j
      BY <3>1
    <3> QED
      BY <1>3, <3>2, Listed
  <2>7. \A n : InList(n)' => InList(n) \/ InBox(n)
    BY <2>2, <2>4
  <2>8. \A n : InBox(n)' => InBox(n)
    BY <2>5
  <2>9. \A n : InList(n) => InList(n)'
    BY <2>3
  <2>10. \A n : InBox(n) => InList(n)' \/ InBox(n)'
    BY <2>2, <2>6
  <2> HIDE DEF InList, InBox
  <2> QED
    BY <1>1, <2>1, <2>7, <2>8, <2>9, <2>10
<1>4. ASSUME NEW t \in Sub, Broadcast(t)
      PROVE  /\ sent'[s] = IF s = t THEN sent[s] + 1 ELSE sent[s]
             /\ Arrived(s)' = IF s = t /\ s \in groups THEN Arrived(s) \cup {sent[s] + 1}
                              ELSE Arrived(s)
  <2> DEFINE e == [subscriptionId |-> t, content |-> sent[t] + 1]
  <2>1. /\ messages' = messages /\ sent' = [sent EXCEPT ![t] = @ + 1]
        /\ inbox' = IF t \in groups THEN Append(inbox, e) ELSE inbox
        /\ inbox \in Seq(Event) /\ sent \in [Sub -> 0..MaxMessages]
    BY <1>4 DEF Broadcast, received, RefInv, LFShape
  <2>2. CASE t \notin groups
    BY <1>1, <2>1, <2>2
  <2>3. CASE t \in groups
    <3>1. /\ Len(inbox') = Len(inbox) + 1 /\ Len(inbox) \in Nat
          /\ \A j \in 1..Len(inbox) : inbox'[j] = inbox[j]
          /\ inbox'[Len(inbox) + 1].subscriptionId = t
          /\ inbox'[Len(inbox) + 1].content = sent[t] + 1
      BY <2>1, <2>3
    <3>2. \A n : InBox(n)' <=> InBox(n) \/ (s = t /\ n = sent[s] + 1)
      BY <3>1
    <3>3. \A n : InList(n)' <=> InList(n)
      BY <2>1
    <3> HIDE DEF InList, InBox
    <3>4. \A n : n \in Arrived(s)' <=> n \in Arrived(s) \/ (s = t /\ n = sent[s] + 1)
      BY <1>1, <3>2, <3>3
    <3> QED
      BY <2>1, <2>3, <3>4
  <2> QED
    BY <2>2, <2>3
<1>5. CASE ~MessageReceived /\ \A t \in Sub : ~FinishUnsubscribe(t) /\ ~Broadcast(t)
  <2>1. UNCHANGED <<messages, inbox, sent>>
    BY <1>5, MessagesOnly, InboxOnly
  <2> QED
    BY <1>1, <2>1
<1> QED
  BY <1>2, <1>3, <1>4, <1>5

\* Only the answer to its POST shows a subscription, only a LeaveSubscription or a lost
\* connection takes one out of its group.
LEMMA ShownStep ==
    ASSUME [LFNext]_lfVars, NEW s \in Sub
    PROVE  /\ s \in Shown' => ~FinishUnsubscribe(s) /\ (s \in Shown \/ PostReturns(s))
           /\ s \in groups \ groups' => LeaveSubscription(s) \/ HubDrops
<1> USE DEF Shown, panel, hub, received, wire, server
<1>1. s \in Shown' => ~FinishUnsubscribe(s)
  BY DEF FinishUnsubscribe
<1>2. ASSUME NEW t \in Sub,
             \/ \E q \in Queue : SubscribeToQueue(t, q)
             \/ SendWithReply(t) \/ ServerAnswers(t) \/ PostFails(t)
      PROVE  UNCHANGED <<subscriptions, pending, groups>>
  BY <1>2 DEF SubscribeToQueue, SendWithReply, ServerAnswers, PostFails
<1>3. ASSUME NEW t \in Sub, PostReturns(t)
      PROVE  /\ UNCHANGED groups /\ subscriptions' \subseteq subscriptions \cup {t}
             /\ pending' \subseteq pending \cup {t}
  BY <1>3 DEF PostReturns, Show
<1>4. ASSUME NEW t \in Sub, Unsubscribe(t) \/ ServerUnsubscribes(t) \/ Consume(t) \/ Broadcast(t)
      PROVE  UNCHANGED <<subscriptions, pending, groups>>
  BY <1>4 DEF Unsubscribe, ServerUnsubscribes, Consume, Broadcast
<1>5. ASSUME NEW t \in Sub, FinishUnsubscribe(t)
      PROVE  /\ UNCHANGED groups /\ subscriptions' \subseteq subscriptions
             /\ pending' \subseteq pending
  BY <1>5 DEF FinishUnsubscribe
<1>6. ASSUME NEW t \in Sub, JoinSubscription(t)
      PROVE  UNCHANGED <<subscriptions, pending>> /\ groups \subseteq groups'
  BY <1>6 DEF JoinSubscription
<1>7. ASSUME NEW t \in Sub, LeaveSubscription(t)
      PROVE  UNCHANGED <<subscriptions, pending>> /\ groups' = groups \ {t}
  BY <1>7 DEF LeaveSubscription
<1>8. ASSUME HubSettles \/ MessageReceived \/ HubReconnects \/ BrokerTeardown
      PROVE  UNCHANGED <<subscriptions, pending, groups>>
  BY <1>8
     DEF HubSettles, HubStarts, HubStartFails, MessageReceived, HubReconnects,
         BrokerTeardown
<1>9. CASE HubDrops
  BY <1>1, <1>9 DEF HubDrops
<1>10. CASE UNCHANGED lfVars
  BY <1>1, <1>10 DEF lfVars
<1> QED
  BY <1>1, <1>2, <1>3, <1>4, <1>5, <1>6, <1>7, <1>8, <1>9, <1>10 DEF LFNext, HubCall

\* A call to leave a group is only made when its subscription goes off the screen.
LEMMA LeaveStep ==
    ASSUME RefInv, [LFNext]_lfVars, NEW s \in Sub, s \in Shown',
           s \in Shown => \A k \in 1..Len(invocations[s]) : invocations[s][k] # "leave"
    PROVE  \A k \in 1..Len(invocations'[s]) : invocations'[s][k] # "leave"
<1> USE DEF RefInv, LFShape, requests, panel, hub, received, wire, server
<1>0. ~FinishUnsubscribe(s) /\ (s \in Shown \/ PostReturns(s))
  BY ShownStep
<1>1. \A k \in 1..Len(invocations[s]) : invocations[s][k] # "leave"
  <2>1. PostReturns(s) => invocations[s] = << >>
    BY DEF PostReturns, PanelInv, WireInv
  <2> QED
    BY <1>0, <2>1
<1>2. ASSUME \/ UNCHANGED invocations \/ invocations'[s] = << >>
             \/ invocations'[s] = invocations[s]
             \/ invocations'[s] = Append(invocations[s], "join")
             \/ invocations[s] # << >> /\ invocations'[s] = Tail(invocations[s])
      PROVE  \A k \in 1..Len(invocations'[s]) : invocations'[s][k] # "leave"
  <2>1. invocations[s] \in Seq({"join", "leave"})
    OBVIOUS
  <2>2. CASE invocations'[s] = Append(invocations[s], "join")
    BY <1>1, <2>1, <2>2
  <2>3. CASE invocations[s] # << >> /\ invocations'[s] = Tail(invocations[s])
    BY <1>1, <2>1, <2>3
  <2>4. CASE invocations'[s] = << >>
    <3>1. Len(invocations'[s]) = 0
      BY <2>4
    <3> QED
      BY <3>1
  <2>5. CASE invocations'[s] = invocations[s]
    BY <1>1, <2>5, Zenon
  <2> QED
    BY <1>2, <2>2, <2>3, <2>4, <2>5
<1>3. ASSUME NEW t \in Sub,
             \/ \E q \in Queue : SubscribeToQueue(t, q)
             \/ SendWithReply(t) \/ ServerAnswers(t) \/ PostFails(t)
      PROVE  UNCHANGED invocations
  BY <1>3 DEF SubscribeToQueue, SendWithReply, ServerAnswers, PostFails
<1>4. ASSUME NEW t \in Sub, PostReturns(t)
      PROVE  \/ invocations'[s] = invocations[s]
             \/ invocations'[s] = Append(invocations[s], "join")
  BY <1>4 DEF PostReturns, Invoke
<1>5. ASSUME NEW t \in Sub, Unsubscribe(t) \/ ServerUnsubscribes(t) \/ Consume(t) \/ Broadcast(t)
      PROVE  UNCHANGED invocations
  BY <1>5 DEF Unsubscribe, ServerUnsubscribes, Consume, Broadcast
<1>6. ASSUME NEW t \in Sub, t # s, FinishUnsubscribe(t)
      PROVE  invocations'[s] = invocations[s]
  BY <1>6 DEF FinishUnsubscribe, Invoke
<1>7. ASSUME NEW t \in Sub, HubCall(t)
      PROVE  \/ invocations'[s] = invocations[s]
             \/ invocations[s] # << >> /\ invocations'[s] = Tail(invocations[s])
  BY <1>7 DEF HubCall, JoinSubscription, LeaveSubscription
<1>8. CASE HubStarts
  <2>1. \/ invocations'[s] = invocations[s]
        \/ invocations'[s] = Append(invocations[s], "join")
    BY <1>8 DEF HubStarts
  <2> QED
    BY <1>2, <2>1
<1>9. ASSUME HubStartFails \/ MessageReceived \/ HubReconnects \/ BrokerTeardown
      PROVE  UNCHANGED invocations
  BY <1>9 DEF HubStartFails, MessageReceived, HubReconnects, BrokerTeardown
<1>10. CASE HubDrops
  BY <1>2, <1>10 DEF HubDrops
<1>11. CASE UNCHANGED lfVars
  BY <1>2, <1>11 DEF lfVars
<1> QED
  BY <1>0, <1>2, <1>3, <1>4, <1>5, <1>6, <1>7, <1>8, <1>9, <1>10, <1>11
     DEF LFNext, HubSettles

\* Only a lost connection counts as one.
LEMMA DropsStep ==
    ASSUME drops \in Nat, [LFNext]_lfVars
    PROVE  IF HubDrops THEN drops' # 0 /\ drops' \in Nat ELSE drops' = drops
<1>1. ASSUME NEW t \in Sub,
             \/ \E q \in Queue : SubscribeToQueue(t, q)
             \/ SendWithReply(t) \/ ServerAnswers(t) \/ PostReturns(t) \/ PostFails(t)
      PROVE  drops' = drops
  BY <1>1 DEF SubscribeToQueue, SendWithReply, ServerAnswers, PostReturns, PostFails
<1>2. ASSUME NEW t \in Sub,
             \/ Unsubscribe(t) \/ ServerUnsubscribes(t) \/ FinishUnsubscribe(t)
             \/ HubCall(t) \/ Consume(t) \/ Broadcast(t)
      PROVE  drops' = drops
  BY <1>2
     DEF Unsubscribe, ServerUnsubscribes, FinishUnsubscribe, HubCall, JoinSubscription,
         LeaveSubscription, Consume, Broadcast
<1>3. ASSUME HubSettles \/ MessageReceived \/ HubReconnects \/ BrokerTeardown
      PROVE  drops' = drops
  BY <1>3
     DEF HubSettles, HubStarts, HubStartFails, MessageReceived, HubReconnects,
         BrokerTeardown
<1>4. CASE HubDrops
  BY <1>4 DEF HubDrops
<1> QED
  BY <1>1, <1>2, <1>3, <1>4 DEF LFNext, lfVars

\* As long as the connection holds, a tab that has had a message of a shown subscription
\* is in the group and gets the next one too.
LEMMA GapStep ==
    ASSUME RefInv, MessagesInv, drops \in Nat, GapInv, [LFNext]_lfVars
    PROVE  GapInv'
<1> USE DEF GapInv
<1>1. \A i \in 1..Len(messages') : messages'[i].subscriptionId \in Known'
  <2>1. Known \subseteq Known'
    BY KnownStep
  <2>2. ASSUME NEW s \in Sub, FinishUnsubscribe(s), NEW i \in 1..Len(messages')
        PROVE  messages'[i].subscriptionId \in Known
    BY <2>2, Cleared
  <2>3. ASSUME MessageReceived, NEW i \in 1..Len(messages')
        PROVE  messages'[i].subscriptionId \in Known
    <3>1. CASE i = 1
      BY <2>3, <3>1, Listed DEF RefInv, WireInv
    <3>2. CASE i # 1
      BY <2>3, <3>2, Shifted
    <3> QED
      BY <3>1, <3>2
  <2>4. CASE ~MessageReceived /\ \A s \in Sub : ~FinishUnsubscribe(s)
    BY <2>1, <2>4, MessagesOnly
  <2> QED
    BY <2>1, <2>2, <2>3, <2>4
<1>2. \A s \in Shown' : s \in Sub
  BY RefInvStep DEF RefInv, PanelInv, Known, Shown
<1>3. \A s \in Shown' : \A k \in 1..Len(invocations'[s]) : invocations'[s][k] # "leave"
  BY <1>2, LeaveStep
<1>4. ASSUME drops' = 0, NEW s \in Shown'
      PROVE  /\ Arrived(s)' # {} => s \in groups'
             /\ \A n \in Arrived(s)' : n..sent'[s] \subseteq Arrived(s)'
  <2>1. drops = 0 /\ ~HubDrops /\ s \in Sub
    BY <1>2, <1>4, DropsStep
  <2>2. ~FinishUnsubscribe(s) /\ (s \in Shown \/ PostReturns(s))
    BY <1>4, <2>1, ShownStep
  <2>3. CASE s \notin Shown
    <3>1. s \notin Known
      BY <2>1, <2>2, <2>3 DEF PostReturns, RefInv, PanelInv
    <3>2. \A n : n \notin Arrived(s)
      BY <3>1, ArrivedMeans DEF RefInv, WireInv
    <3>3. s \notin groups
      BY <3>1 DEF RefInv, WireInv
    <3>4. Arrived(s)' = {}
      BY <2>1, <2>2, <3>2, <3>3, ArrivedStep
    <3> QED
      BY <3>4
  <2>4. CASE s \in Shown
    <3>1. /\ Arrived(s) # {} => s \in groups
          /\ \A n \in Arrived(s) : n..sent[s] \subseteq Arrived(s)
      BY <2>1, <2>4 DEF NoGapAfterFirst
    <3>2. s \in groups => s \in groups'
      <4>1. ~LeaveSubscription(s)
        <5>1. invocations[s] \in Seq({"join", "leave"})
          BY <2>1 DEF RefInv, LFShape
        <5>2. invocations[s] # << >> =>
                 1 \in 1..Len(invocations[s]) /\ Head(invocations[s]) = invocations[s][1]
          BY <5>1
        <5> QED
          BY <2>4, <5>2 DEF LeaveSubscription
      <4> QED
        BY <2>1, <4>1, ShownStep
    <3>3. CASE Arrived(s)' = Arrived(s) /\ sent'[s] = sent[s]
      BY <3>1, <3>2, <3>3
    <3>4. CASE s \notin groups
      <4>1. Arrived(s)' = {}
        BY <2>1, <2>2, <3>1, <3>4, ArrivedStep
      <4> QED
        BY <4>1
    <3>5. CASE s \in groups /\ sent'[s] = sent[s] + 1 /\ Arrived(s)' = Arrived(s) \cup {sent[s] + 1}
      <4>1. sent[s] \in Int /\ \A n \in Arrived(s) : n \in Int
        <5>1. sent[s] \in Int
          BY <2>1, LiveFeedAssumption DEF RefInv, LFShape
        <5> QED
          BY <5>1, ArrivedMeans, MessageFields
      <4>2. \A n \in Int : n..(sent[s] + 1) \subseteq n..sent[s] \cup {sent[s] + 1}
        BY <4>1
      <4>3. \A n \in Arrived(s) : n..sent'[s] \subseteq Arrived(s)'
        BY <3>1, <3>5, <4>1, <4>2
      <4>4. (sent[s] + 1)..sent'[s] \subseteq Arrived(s)'
        BY <3>5, <4>1
      <4> QED
        BY <3>2, <3>5, <4>3, <4>4
    <3> QED
      BY <2>1, <2>2, <3>3, <3>4, <3>5, ArrivedStep
  <2> QED
    BY <2>3, <2>4
<1>5. NoGapAfterFirst'
  BY <1>4 DEF NoGapAfterFirst
<1>6. drops' = 0 => \A s \in Shown' : Arrived(s)' # {} => s \in groups'
  BY <1>4
<1> QED
  BY <1>1, <1>3, <1>5, <1>6

-----------------------------------------------------------------------------
(* Types *)

\* What LFTypeOK says of the variables LFShape leaves out.
RestTypes ==
    /\ queueName \in [Sub -> Queue \cup {None}]
    /\ deletes \in [Sub -> 0..MaxDeletes]
    /\ startPromise \in {"null", "pending", "resolved", "rejected"}
    /\ connectionState \in {"idle", "connecting", "connected", "reconnecting", "disconnected"}
    /\ active \subseteq Sub /\ dispatching \subseteq Sub
    /\ drops \in 0..MaxDrops

\* The variables the other invariants do not speak of keep their types.
LEMMA RestStep ==
    ASSUME RestTypes, [LFNext]_lfVars
    PROVE  RestTypes'
<1> USE LiveFeedAssumption
        DEF RestTypes, Connected, requests, panel, hub, received, wire, server, Start
<1>1. ASSUME NEW s \in Sub, NEW q \in Queue, SubscribeToQueue(s, q) PROVE RestTypes'
  BY <1>1 DEF SubscribeToQueue
<1>2. ASSUME NEW s \in Sub, SendWithReply(s) PROVE RestTypes'
  BY <1>2 DEF SendWithReply
<1>3. ASSUME NEW s \in Sub, ServerAnswers(s) PROVE RestTypes'
  BY <1>3 DEF ServerAnswers
<1>4. ASSUME NEW s \in Sub, PostReturns(s) PROVE RestTypes'
  BY <1>4 DEF PostReturns
<1>5. ASSUME NEW s \in Sub, PostFails(s) PROVE RestTypes'
  BY <1>5 DEF PostFails
<1>6. ASSUME NEW s \in Sub, Unsubscribe(s) PROVE RestTypes'
  BY <1>6 DEF Unsubscribe
<1>7. ASSUME NEW s \in Sub, ServerUnsubscribes(s) PROVE RestTypes'
  BY <1>7 DEF ServerUnsubscribes
<1>8. ASSUME NEW s \in Sub, FinishUnsubscribe(s) PROVE RestTypes'
  BY <1>8 DEF FinishUnsubscribe
<1>9. ASSUME NEW s \in Sub, HubCall(s) PROVE RestTypes'
  BY <1>9 DEF HubCall, JoinSubscription, LeaveSubscription
<1>10. ASSUME NEW s \in Sub, Consume(s) PROVE RestTypes'
  BY <1>10 DEF Consume
<1>11. ASSUME NEW s \in Sub, Broadcast(s) PROVE RestTypes'
  BY <1>11 DEF Broadcast
<1>12. CASE HubSettles
  BY <1>12 DEF HubSettles, HubStarts, HubStartFails
<1>13. CASE MessageReceived
  BY <1>13 DEF MessageReceived
<1>14. CASE HubDrops
  BY <1>14 DEF HubDrops
<1>15. CASE HubReconnects \/ BrokerTeardown
  BY <1>15 DEF HubReconnects, BrokerTeardown
<1>16. CASE UNCHANGED lfVars
  BY <1>16 DEF lfVars
<1> QED
  BY <1>1, <1>2, <1>3, <1>4, <1>5, <1>6, <1>7, <1>8, <1>9, <1>10, <1>11, <1>12, <1>13,
     <1>14, <1>15, <1>16
     DEF LFNext

\* The parts make up LFTypeOK.
LEMMA TypesSuffice ==
    ASSUME RefInv, MessagesInv, RestTypes
    PROVE  LFTypeOK
<1>1. messages \in Seq(Received)
  <2>1. \A m \in ListedMessage : m.seq < nextSeq => m \in Received
    <3> SUFFICES ASSUME NEW m \in ListedMessage, m.seq < nextSeq PROVE m \in Received
      OBVIOUS
    <3>1. m.seq \in 0..(nextSeq - 1)
      BY DEF ListedMessage, MessagesInv
    <3> QED
      BY <3>1 DEF ListedMessage, Received
  <2>2. messages \in Seq(ListedMessage) /\ \A i \in 1..Len(messages) : messages[i].seq < nextSeq
    BY DEF MessagesInv
  <2>3. \A i \in 1..Len(messages) : messages[i] \in Received
    BY <2>1, <2>2
  <2> QED
    BY <2>2, <2>3
<1>2. subscriptions \subseteq Sub /\ pending \subseteq Sub /\ groups \subseteq Sub
  BY DEF RefInv, PanelInv, WireInv, Known
<1> QED
  BY <1>1, <1>2 DEF LFTypeOK, RefInv, LFShape, RestTypes, MessagesInv

-----------------------------------------------------------------------------
(* The invariants *)

\* The inductive invariant.
LFInv == RefInv /\ RestTypes /\ MessagesInv /\ OrderInv /\ GapInv

\* It holds initially, and every step keeps it.
LEMMA LFInvariant == LFSpec => []LFInv
<1>1. LFInit => LFInv
  <2> SUFFICES ASSUME LFInit PROVE LFInv
    OBVIOUS
  <2>1. RefInv
    BY RefInit
  <2>2. RestTypes
    BY LiveFeedAssumption DEF LFInit, RestTypes
  <2>3. messages = << >> /\ inbox = << >> /\ nextSeq = 0
    BY DEF LFInit
  <2>4. MessagesInv /\ OrderInv
    BY <2>3 DEF MessagesInv, OrderInv, NewestFirst
  <2>5. Shown = {}
    BY DEF LFInit, Shown
  <2>6. GapInv
    BY <2>3, <2>5 DEF GapInv, NoGapAfterFirst
  <2> QED
    BY <2>1, <2>2, <2>4, <2>6 DEF LFInv
<1>2. LFInv /\ [LFNext]_lfVars => LFInv'
  <2>1. RestTypes => drops \in Nat
    BY LiveFeedAssumption DEF RestTypes
  <2> QED
    BY <2>1, RefInvStep, RestStep, MessagesStep, OrderStep, GapStep DEF LFInv
<1> QED
  BY <1>1, <1>2, PTL DEF LFSpec

\* Every variable of the path from the server to the tab keeps its type.
THEOREM LFTypeCorrect == LFSpec => []LFTypeOK
<1>1. LFInv => LFTypeOK
  BY TypesSuffice DEF LFInv
<1> QED
  BY <1>1, LFInvariant, PTL

\* onMessage puts the newest first, and whatever clearSubscription takes out, what stays
\* is in the order the server broadcast it.
THEOREM ListIsNewestFirst == LFSpec => []NewestFirst
<1>1. LFInv => NewestFirst
  BY DEF LFInv, OrderInv
<1> QED
  BY <1>1, LFInvariant, PTL

\* While the hub connection holds, a subscription on the screen misses nothing after the
\* first message that got through: joins and clears of the others do not cost it any.
THEOREM NothingMissedAfterFirst == LFSpec => []NoGapAfterFirst
<1>1. LFInv => NoGapAfterFirst
  BY DEF LFInv, GapInv
<1> QED
  BY <1>1, LFInvariant, PTL
=============================================================================
