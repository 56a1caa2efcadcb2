--------------------------- MODULE UseCasesProofs ---------------------------
(***************************************************************************)
(* Theorems about UseCases, for every number of requests, connections,     *)
(* channels, handles and messages.                                         *)
(*                                                                         *)
(* A channel is bound to the handle its callback has captured, or will     *)
(* capture when the request that created both comes to it.  The parts of   *)
(* the invariant say where each use case is, to whom a handle is known,    *)
(* what a channel is bound to, what the coordinator holds and what has     *)
(* been broadcast; each part is shown to be kept with the help of the ones *)
(* before it.  Steps of the port enter through StepEffect alone.           *)
(***************************************************************************)
EXTENDS UseCases, RabbitMqAdapterProofs, SequenceTheorems

\* Channel k serves the subscription h and no other: while h is registered it is with k,
\* no other handle is, and only a request that is closing k still holds it.
Bound(k, h) ==
    /\ chanState[k] # "unused"
    /\ h \in issued
    /\ subscriptionChannels[h] \in {k, None}
    /\ \A g \in Handle : subscriptionChannels[g] = k => g = h
    /\ \A q \in Request : Owns(q) /\ channel[q] = k => pc[q] \in Closing

\* r's use case waits for the port's SubscribeAsync or DeclareReplyQueueAsync; has not
\* registered the handle it returned yet; has a reply queue to send, or to clean up, for.
Creating(r) == phase[r] \in {"subscribe", "declare"}
\* A subscribe that has not told the coordinator yet.
Announcing(r) == phase[r] \in {"subscribe", "declare", "register", "registerReply"}
\* A send-with-reply that has its reply queue.
Replying(r) == phase[r] \in {"registerReply", "publish", "send", "cleanup"}
\* No client has been told the handle r works with.
Private(r) == Announcing(r) \/ Replying(r)

\* What r's locals and its call of the port are at each point of its use case.
PhaseOK(r) ==
    /\ pc[r] = "idle" => phase[r] = "none" /\ channel[r] = None
    /\ phase[r] = "none" => /\ handle[r] = None /\ queueName[r] = None
                            /\ op[r] \in {"connect", "disconnect", "send"}
    /\ phase[r] \in {"subscribe", "register"} => op[r] = "subscribe"
    /\ phase[r] \in {"declare", "registerReply", "publish"} => op[r] = "declareReply"
    /\ phase[r] = "send" => op[r] = "send"
    /\ phase[r] \in {"unsubscribe", "cleanup"} => op[r] = "unsubscribe" /\ handle[r] # None
    /\ phase[r] \in {"register", "registerReply", "publish", "complete", "failed"} => pc[r] = "done"
    /\ Creating(r) => (handle[r] # None <=> pc[r] = "done" /\ outcome[r] = "ok")
    /\ Creating(r) /\ handle[r] # None => channel[r] # None
    /\ phase[r] = "register" => channel[r] # None /\ captured[channel[r]] = handle[r]
    /\ Replying(r) => queueName[r] # None
    /\ queueName[r] # None =>
          /\ Replying(r) \/ phase[r] \in {"complete", "failed"}
          /\ handle[r] # None /\ captured[queueName[r]] = handle[r]
    /\ phase[r] \in {"register", "complete"} \/ Replying(r) => handle[r] # None

\* The phase of every request fits the step of the adapter it is in.
PhaseInv == \A r \in Request : PhaseOK(r)

\* Clients know handles that were issued; one that is still private to a use case is known
\* to no client and in no other request's hands.
HandleInv ==
    /\ known \subseteq issued
    /\ \A r \in Request : handle[r] \in issued \cup {None}
    /\ \A r \in Request : Private(r) /\ handle[r] # None =>
          handle[r] \notin known /\ \A q \in Request : handle[q] = handle[r] => q = r

\* A callback has captured the handle its channel is bound to, and each handle was captured
\* at most once; a channel just created waits for its handle; a reply queue others know of
\* has a callback that knows its subscription, announced to the coordinator before.
CaptureInv ==
    /\ \A k \in Channel, h \in Handle : captured[k] = h => Bound(k, h)
    /\ \A k1, k2 \in Channel : captured[k1] # None /\ captured[k1] = captured[k2] => k1 = k2
    /\ \A k \in Channel : chanState[k] = "unused" =>
          \A r \in Request : Creating(r) => channel[r] # k
    /\ \A r \in Request : Creating(r) =>
          /\ channel[r] # None => captured[channel[r]] = None
          /\ \A k \in Channel, h \in Handle :
                handle[r] = h => (channel[r] = k => Bound(k, h)) /\ captured[k] # h
          /\ \A q \in Request : Creating(q) /\ channel[q] = channel[r] /\ channel[r] # None => q = r
    /\ \A k \in published : captured[k] # None
          /\ \A r \in Request : Announcing(r) => captured[k] # handle[r]

\* A request whose call has returned can enter the port again.
LEMMA ReentryStep ==
    ASSUME IndInv, NEW r \in Request, pc[r] = "done",
           EnterSend(r) \/ (handle[r] \in Handle /\ EnterUnsubscribe(r, handle[r]))
    PROVE  IndInv'
<1> USE NoneAssumption
        DEF IndInv, Steps, TeardownSteps, Ops, Outcomes, Closing, locals, adapter, broker,
            history, Goto, Finish, Begin, UseConnection, EnterSend, RejectBlankRoutingKey,
            EnterUnsubscribe, TypeOK
<1>1. TypeOK'
  OBVIOUS
<1>2. LocalsInv'
  BY DEF LocalsInv, Owns
<1>3. LockInv'
  BY DEF LockInv, Registered
<1>4. ChannelInv'
  BY DEF ChannelInv, Owns, Registered
<1>5. OpInv'
  BY DEF OpInv
<1>6. TrackedInv'
  BY DEF TrackedInv, Alive
<1>7. RacedInv'
  BY DEF RacedInv, Alive
<1> QED
  BY <1>1, <1>2, <1>3, <1>4, <1>5, <1>6, <1>7

\* The use cases, the port below them and the handles in their hands.
CallInv == UCTypeOK /\ IndInv /\ PhaseInv /\ HandleInv

\* The adapter's invariant survives the layer above: the use cases reenter the port with
\* calls of their own, and change of its state only how a call ended.
LEMMA AdapterPart ==
    ASSUME CallInv, [UCNext]_ucVars
    PROVE  IndInv'
<1> USE DEF CallInv, HandleInv
<1>1. CASE [Next]_vars
  BY <1>1, IndStep
<1>2. ASSUME NEW r \in Request, SendMessage(r) PROVE IndInv'
  BY <1>2, ReentryStep DEF SendMessage, PhaseInv, PhaseOK
<1>3. ASSUME NEW r \in Request, SendFailed(r) PROVE IndInv'
  BY <1>3, ReentryStep
     DEF SendFailed, PhaseInv, PhaseOK, Replying, PortReturned, UCTypeOK, TypeOK
<1>4. ASSUME NEW r \in Request, RejectMessage(r) \/ CleanedUp(r) PROVE IndInv'
  <2>1. /\ UNCHANGED <<pc, op, locals, cancelled, adapter, issued, broker>>
        /\ \E o \in Outcomes : outcome' = [outcome EXCEPT ![r] = o]
    BY <1>4 DEF RejectMessage, CleanedUp, UCTypeOK, Outcomes
  <2> QED
    BY <2>1
       DEF IndInv, TypeOK, LocalsInv, LockInv, ChannelInv, OpInv, TrackedInv, RacedInv,
           Alive, Owns, Registered, locals, adapter, broker, history
<1>5. ASSUME NEW r \in Request, Command(r) PROVE [Next]_vars
  BY <1>5
     DEF Command, SubscribeCommand, SendWithReplyCommand, OtherCommand, UnsubscribeCommand,
         Next, Call
<1>6. ASSUME NEW r \in Request, PortStep(r) \/ Respond(r) PROVE [Next]_vars
  BY <1>6 DEF PortStep, Respond, Next
<1>7. ASSUME NEW r \in Request, \/ AssignHandle(r) \/ RegisterHandle(r) \/ UnregisterHandle(r)
                                \/ SendSucceeded(r) \/ Failed(r)
      PROVE  [Next]_vars
  BY <1>7 DEF AssignHandle, RegisterHandle, UnregisterHandle, SendSucceeded, Failed
<1>8. ASSUME NEW k \in Channel, Callback(k) PROVE [Next]_vars
  BY <1>8 DEF Callback, Deliver, DeliverRefused, Enqueue, Broadcast, BroadcastFails
<1>9. CASE Environment
  BY <1>1, <1>9 DEF Environment, Next
<1>10. CASE UNCHANGED ucVars
  BY <1>1, <1>10 DEF ucVars
<1> QED
  BY <1>1, <1>2, <1>3, <1>4, <1>5, <1>6, <1>7, <1>8, <1>9, <1>10 DEF UCNext, Continue

\* A channel stays with its subscription for good.
LEMMA BoundStep ==
    ASSUME CallInv, [UCNext]_ucVars, NEW k \in Channel, NEW h \in Handle, Bound(k, h)
    PROVE  Bound(k, h)'
<1> USE DEF CallInv, HandleInv
<1>0. IndInv'
  BY AdapterPart
<1> USE NoneAssumption DEF Bound, Owns, Closing
<1>1. ASSUME NEW r \in Request, Step(r) PROVE Bound(k, h)'
  <2>1. Frame(r) /\ (Creates(r) \/ Registers(r) \/ Removes(r) \/ Clears(r) \/ Works(r))
    BY <1>1, StepEffect
  <2>2. CASE Creates(r)
    BY <2>1, <2>2 DEF Frame, Creates, IndInv, TypeOK
  <2>3. CASE Registers(r)
    BY <2>1, <2>3 DEF Frame, Registers, IndInv, TypeOK
  <2>4. CASE Removes(r)
    BY <2>1, <2>4 DEF Frame, Removes, IndInv, TypeOK, LocalsInv
  <2>5. CASE Clears(r)
    BY <2>1, <2>5 DEF Frame, Clears, IndInv, TypeOK
  <2>6. CASE Works(r)
    BY <2>1, <2>6 DEF Frame, Works, IndInv, TypeOK, OpInv
  <2> QED
    BY <2>1, <2>2, <2>3, <2>4, <2>5, <2>6
<1>2. ASSUME NEW r \in Request, pc[r] \in {"idle", "done"},
             pc'[r] \notin {"declareQueue", "consume", "register", "declareExchange", "publish",
                           "disposeSend", "closeChannel", "disposeChannel"},
             \A q \in Request \ {r} : pc'[q] = pc[q] /\ channel'[q] = channel[q],
             UNCHANGED <<subscriptionChannels, issued, chanState>>
      PROVE  Bound(k, h)'
  BY <1>2
<1> USE DEF locals, adapter, broker, Goto, Finish, Idle, Begin, UseConnection, EnterSend,
            RejectBlankRoutingKey, EnterUnsubscribe, IndInv, TypeOK
<1>3. ASSUME NEW r \in Request, Command(r) PROVE Bound(k, h)'
  <2>1. CASE SubscribeCommand(r) \/ SendWithReplyCommand(r) \/ OtherCommand(r)
    BY <1>2, <2>1
       DEF SubscribeCommand, Subscribe, SendWithReplyCommand, DeclareReply, OtherCommand,
           Connect, Disconnect, Send
  <2>2. ASSUME NEW g \in known, UnsubscribeCommand(r, g) PROVE Bound(k, h)'
    BY <1>2, <2>2 DEF UnsubscribeCommand, Unsubscribe
  <2> QED
    BY <1>3, <2>1, <2>2 DEF Command
<1>4. ASSUME NEW r \in Request, Continue(r) PROVE Bound(k, h)'
  <2>1. CASE SendMessage(r)
    BY <1>2, <2>1 DEF SendMessage, PhaseInv, PhaseOK
  <2>2. CASE SendFailed(r)
    BY <1>2, <2>2 DEF SendFailed, PortReturned
  <2>3. CASE Respond(r)
    BY <1>2, <2>3 DEF Respond, Return
  <2>4. CASE UNCHANGED <<pc, channel, subscriptionChannels, issued, chanState>>
    BY <2>4
  <2> QED
    BY <1>4, <2>1, <2>2, <2>3, <2>4
       DEF Continue, AssignHandle, RegisterHandle, UnregisterHandle, RejectMessage,
           SendSucceeded, CleanedUp, Failed, vars
<1>5. ASSUME NEW j \in Channel, Callback(j) PROVE Bound(k, h)'
  BY <1>5 DEF Callback, Deliver, DeliverRefused, Enqueue, Broadcast, BroadcastFails, vars
<1>6. CASE Environment
  <2>1. /\ UNCHANGED <<pc, channel, subscriptionChannels, issued>>
        /\ chanState'[k] = "unused" => chanState[k] = "unused"
    BY <1>6 DEF Environment, Cancel, Drop, Recover, ChannelsFollow
  <2> QED
    BY <2>1
<1>7. CASE UNCHANGED ucVars
  BY <1>7 DEF ucVars, vars
<1> QED
  BY <1>1, <1>3, <1>4, <1>5, <1>6, <1>7 DEF UCNext, PortStep

\* What nothing happens to stays as it is.
LEMMA PhaseFrame ==
    ASSUME CallInv, [UCNext]_ucVars, NEW q \in Request,
           pc'[q] = pc[q], op'[q] = op[q], outcome'[q] = outcome[q], handle'[q] = handle[q],
           channel'[q] = channel[q], phase'[q] = phase[q], queueName'[q] = queueName[q],
           \A k \in Channel : captured[k] # None => captured'[k] = captured[k]
    PROVE  PhaseOK(q)'
<1> USE DEF CallInv
<1>1. /\ channel[q] \in Channel \cup {None} /\ handle[q] \in Handle \cup {None}
      /\ queueName[q] \in Channel \cup {None}
  BY DEF UCTypeOK, TypeOK
<1>3. PhaseOK(q)
  BY DEF PhaseInv
<1> QED
  BY <1>1, <1>3 DEF PhaseOK, Creating, Replying

\* With what the callbacks have captured.
BoundInv == CallInv /\ CaptureInv

\* The locals of a use case follow its progress: one step per action, and of a step of the
\* port only what it does to the state of the request.
LEMMA PhaseStep ==
    ASSUME BoundInv, [UCNext]_ucVars
    PROVE  PhaseInv'
<1> DEFINE Still(q) ==
             /\ pc'[q] = pc[q] /\ op'[q] = op[q] /\ outcome'[q] = outcome[q]
             /\ handle'[q] = handle[q] /\ channel'[q] = channel[q]
             /\ phase'[q] = phase[q] /\ queueName'[q] = queueName[q]
           Kept == \A k \in Channel : captured[k] # None => captured'[k] = captured[k]
<1>0. ASSUME NEW q \in Request, Still(q), Kept PROVE PhaseOK(q)'
  BY <1>0, PhaseFrame DEF BoundInv
<1>1. ASSUME NEW r \in Request, Kept, \A q \in Request \ {r} : Still(q), PhaseOK(r)'
      PROVE  PhaseInv'
  BY <1>0, <1>1 DEF PhaseInv
<1>2. ASSUME Kept, \A q \in Request : Still(q) PROVE PhaseInv'
  BY <1>0, <1>2 DEF PhaseInv
<1>3. \A r \in Request : PhaseOK(r)
  BY DEF BoundInv, CallInv, PhaseInv
<1>4. UCTypeOK /\ TypeOK /\ CaptureInv /\ OpInv /\ IndInv
  BY DEF BoundInv, CallInv, IndInv, UCTypeOK
<1> USE NoneAssumption
        DEF useCase, coordinator, queues, deliveries, locals, adapter, broker, Proceed,
            Goto, Finish, Idle, Begin, UseConnection, EnterSend, RejectBlankRoutingKey,
            EnterUnsubscribe, UCTypeOK, TypeOK, Creating, Replying, PortReturned
<1> HIDE DEF Still, Kept
<1>5. ASSUME NEW r \in Request, SubscribeCommand(r) \/ SendWithReplyCommand(r) PROVE PhaseInv'
  <2>1. Kept /\ \A q \in Request \ {r} : Still(q)
    BY <1>4, <1>5
       DEF Still, Kept, SubscribeCommand, SendWithReplyCommand, Subscribe, DeclareReply
  <2>2. PhaseOK(r)'
    BY <1>3, <1>4, <1>5
       DEF PhaseOK, SubscribeCommand, SendWithReplyCommand, Subscribe, DeclareReply
  <2> QED
    BY <1>1, <2>1, <2>2
<1>6. ASSUME NEW r \in Request, OtherCommand(r) PROVE PhaseInv'
  <2>1. Kept /\ \A q \in Request \ {r} : Still(q)
    BY <1>4, <1>6 DEF Still, Kept, OtherCommand, Connect, Disconnect, Send
  <2>2. PhaseOK(r)'
    BY <1>3, <1>4, <1>6 DEF PhaseOK, OtherCommand, Connect, Disconnect, Send
  <2> QED
    BY <1>1, <2>1, <2>2
<1>7. ASSUME NEW r \in Request, NEW h \in known, UnsubscribeCommand(r, h) PROVE PhaseInv'
  <2>1. Kept /\ \A q \in Request \ {r} : Still(q)
    BY <1>4, <1>7 DEF Still, Kept, UnsubscribeCommand, Unsubscribe
  <2>2. PhaseOK(r)'
    BY <1>3, <1>4, <1>7 DEF PhaseOK, UnsubscribeCommand, Unsubscribe
  <2> QED
    BY <1>1, <2>1, <2>2
<1>8. ASSUME NEW r \in Request, PortStep(r) PROVE PhaseInv'
  <2>1. Frame(r) /\ (Creates(r) \/ Registers(r) \/ Removes(r) \/ Clears(r) \/ Works(r))
    BY <1>4, <1>8, StepEffect DEF PortStep
  <2>2. Kept /\ \A q \in Request \ {r} : Still(q)
    BY <1>4, <1>8, <2>1 DEF Still, Kept, PortStep, Frame
  <2>3. PhaseOK(r)'
    <3>1. /\ op'[r] = op[r] /\ phase'[r] = phase[r] /\ queueName'[r] = queueName[r]
          /\ captured' = captured
          /\ pc[r] \notin {"idle", "done"} /\ pc'[r] # "idle"
      BY <1>8, <2>1 DEF PortStep, Frame
    <3>2. CASE Creates(r)
      BY <1>3, <1>4, <2>1, <3>1, <3>2 DEF PhaseOK, Creates, OpInv
    <3>3. CASE Registers(r)
      BY <1>3, <1>4, <2>1, <3>1, <3>3 DEF PhaseOK, Registers, OpInv, IndInv, LocalsInv, Owns
    <3>4. CASE Removes(r)
      BY <1>3, <1>4, <2>1, <3>1, <3>4 DEF PhaseOK, Removes, OpInv
    <3>5. CASE Clears(r)
      BY <1>3, <1>4, <2>1, <3>1, <3>5 DEF PhaseOK, Clears, OpInv
    <3>6. CASE Works(r)
      <4>1. handle'[r] = handle[r]
        BY <3>6 DEF Works
      <4>2. Creating(r) => /\ ~(pc'[r] = "done" /\ outcome'[r] = "ok")
                           /\ ~(pc[r] = "done" /\ outcome[r] = "ok")
        BY <1>3, <1>4, <3>1, <3>6 DEF PhaseOK, Works, OpInv, Steps, TeardownSteps, Closing
      <4> QED
        BY <1>3, <3>1, <4>1, <4>2 DEF PhaseOK
    <3> QED
      BY <2>1, <3>2, <3>3, <3>4, <3>5, <3>6
  <2> QED
    BY <1>1, <2>2, <2>3
<1>9. ASSUME NEW r \in Request, AssignHandle(r) PROVE PhaseInv'
  <2>1. Creating(r) /\ pc[r] = "done" /\ outcome[r] = "ok"
    BY <1>9 DEF AssignHandle
  <2>2. handle[r] # None /\ channel[r] \in Channel /\ captured[channel[r]] = None
    BY <1>3, <1>4, <2>1 DEF PhaseOK, CaptureInv
  <2>3. Kept /\ \A q \in Request \ {r} : Still(q)
    BY <1>4, <1>9, <2>2 DEF Still, Kept, AssignHandle, vars
  <2>4. PhaseOK(r)'
    <3>1. /\ pc'[r] = pc[r] /\ op'[r] = op[r] /\ outcome'[r] = outcome[r] /\ handle'[r] = handle[r]
          /\ channel'[r] = channel[r] /\ captured'[channel[r]] = handle[r]
      BY <1>4, <1>9, <2>2 DEF AssignHandle, vars
    <3>2. CASE phase[r] = "subscribe" /\ phase'[r] = "register" /\ queueName'[r] = queueName[r]
      BY <1>3, <2>1, <2>2, <3>1, <3>2 DEF PhaseOK
    <3>3. CASE phase[r] = "declare" /\ phase'[r] = "registerReply" /\ queueName'[r] = channel[r]
      BY <1>3, <2>1, <2>2, <3>1, <3>3 DEF PhaseOK
    <3> QED
      BY <1>4, <1>9, <3>2, <3>3 DEF AssignHandle
  <2> QED
    BY <1>1, <2>3, <2>4
<1>10. ASSUME NEW r \in Request, \/ RegisterHandle(r) \/ UnregisterHandle(r) \/ RejectMessage(r)
                                 \/ SendSucceeded(r) \/ CleanedUp(r) \/ Failed(r)
       PROVE  PhaseInv'
  <2>1. Kept /\ \A q \in Request \ {r} : Still(q)
    BY <1>4, <1>10
       DEF Still, Kept, RegisterHandle, UnregisterHandle, RejectMessage, SendSucceeded,
           CleanedUp, Failed, vars
  <2>2. PhaseOK(r)'
    BY <1>3, <1>4, <1>10
       DEF PhaseOK, RegisterHandle, UnregisterHandle, RejectMessage, SendSucceeded,
           CleanedUp, Failed, vars
  <2> QED
    BY <1>1, <2>1, <2>2
<1>11. ASSUME NEW r \in Request, SendMessage(r) \/ SendFailed(r) PROVE PhaseInv'
  <2>1. Kept /\ \A q \in Request \ {r} : Still(q)
    BY <1>4, <1>11 DEF Still, Kept, SendMessage, SendFailed
  <2>2. PhaseOK(r)'
    BY <1>3, <1>4, <1>11 DEF PhaseOK, SendMessage, SendFailed
  <2> QED
    BY <1>1, <2>1, <2>2
<1>12. ASSUME NEW r \in Request, Respond(r) PROVE PhaseInv'
  <2>1. Kept /\ \A q \in Request \ {r} : Still(q)
    BY <1>4, <1>12 DEF Still, Kept, Respond, Return
  <2>2. PhaseOK(r)'
    BY <1>3, <1>4, <1>12 DEF PhaseOK, Respond, Return
  <2> QED
    BY <1>1, <2>1, <2>2
<1>13. ASSUME NEW k \in Channel, Callback(k) PROVE PhaseInv'
  BY <1>2, <1>13
     DEF Callback, Deliver, DeliverRefused, Enqueue, Broadcast, BroadcastFails, vars, Still,
         Kept
<1>14. CASE Environment
  BY <1>2, <1>14 DEF Environment, Cancel, Drop, Recover, Still, Kept
<1>15. CASE UNCHANGED ucVars
  BY <1>2, <1>15 DEF ucVars, vars, Still, Kept
<1> QED
  BY <1>5, <1>6, <1>7, <1>8, <1>9, <1>10, <1>11, <1>12, <1>13, <1>14, <1>15
     DEF UCNext, Command, Continue

\* A handle becomes known with the response that carries it, and not before.
LEMMA HandleStep ==
    ASSUME BoundInv, [UCNext]_ucVars
    PROVE  HandleInv'
<1>1. UCTypeOK /\ TypeOK /\ IndInv /\ OpInv /\ HandleInv /\ \A r \in Request : PhaseOK(r)
  BY DEF BoundInv, CallInv, IndInv, UCTypeOK, PhaseInv
<1>2. ASSUME \A q \in Request : Private(q)' /\ handle[q] # None => Private(q),
             UNCHANGED <<handle, known>>, issued \subseteq issued'
      PROVE  HandleInv'
  BY <1>1, <1>2 DEF HandleInv
<1> USE NoneAssumption
        DEF useCase, coordinator, queues, deliveries, locals, adapter, broker, Proceed,
            Goto, Finish, Idle, Begin, UseConnection, EnterSend, RejectBlankRoutingKey,
            EnterUnsubscribe, UCTypeOK, TypeOK, Announcing, Replying, Private, PortReturned
<1>3. ASSUME NEW r \in Request, SubscribeCommand(r) \/ SendWithReplyCommand(r) \/ OtherCommand(r)
      PROVE  HandleInv'
  <2>1. handle[r] = None
    BY <1>1, <1>3
       DEF PhaseOK, SubscribeCommand, SendWithReplyCommand, Subscribe, DeclareReply,
           OtherCommand, Connect, Disconnect, Send
  <2> QED
    BY <1>1, <1>2, <1>3, <2>1
       DEF SubscribeCommand, SendWithReplyCommand, Subscribe, DeclareReply, OtherCommand,
           Connect, Disconnect, Send
<1>4. ASSUME NEW r \in Request, NEW h \in known, UnsubscribeCommand(r, h) PROVE HandleInv'
  BY <1>1, <1>4 DEF HandleInv, UnsubscribeCommand, Unsubscribe
<1>5. ASSUME NEW r \in Request, PortStep(r) PROVE HandleInv'
  <2>1. Frame(r) /\ (Creates(r) \/ Registers(r) \/ Removes(r) \/ Clears(r) \/ Works(r))
    BY <1>1, <1>5, StepEffect DEF PortStep
  <2>2. UNCHANGED <<phase, known>>
    BY <1>5 DEF PortStep
  <2>3. CASE Registers(r)
    BY <1>1, <2>2, <2>3 DEF HandleInv, Registers
  <2>4. CASE ~Registers(r)
    BY <1>2, <2>1, <2>2, <2>4 DEF Creates, Removes, Clears, Works
  <2> QED
    BY <2>3, <2>4
<1>6. ASSUME NEW r \in Request, Continue(r), ~Respond(r), ~SendFailed(r) PROVE HandleInv'
  BY <1>1, <1>2, <1>6
     DEF Continue, AssignHandle, RegisterHandle, UnregisterHandle, RejectMessage,
         SendMessage, SendSucceeded, CleanedUp, Failed, vars
<1>7. ASSUME NEW r \in Request, SendFailed(r) PROVE HandleInv'
  BY <1>1, <1>2, <1>7 DEF SendFailed
<1>8. ASSUME NEW r \in Request, Respond(r) PROVE HandleInv'
  <2>1. /\ handle' = [handle EXCEPT ![r] = None] /\ issued' = issued
        /\ phase' = [phase EXCEPT ![r] = "none"]
        /\ known' = known \/ (phase[r] = "complete" /\ known' = known \cup {handle[r]})
    BY <1>8 DEF Respond, Return
  <2>2. known' \subseteq issued' /\ \A q \in Request : handle'[q] \in issued' \cup {None}
    BY <1>1, <2>1 DEF HandleInv, PhaseOK
  <2>3. \A q \in Request : Private(q)' => Private(q) /\ q # r
    BY <1>1, <2>1
  <2>4. ASSUME NEW q \in Request, Private(q)', handle'[q] # None
        PROVE  handle'[q] \notin known' /\ \A p \in Request : handle'[p] = handle'[q] => p = q
    BY <1>1, <2>1, <2>3, <2>4 DEF HandleInv
  <2> QED
    BY <2>2, <2>4 DEF HandleInv
<1>9. ASSUME NEW k \in Channel, Callback(k) PROVE HandleInv'
  BY <1>2, <1>9
     DEF Callback, Deliver, DeliverRefused, Enqueue, Broadcast, BroadcastFails, vars
<1>10. CASE Environment
  BY <1>2, <1>10 DEF Environment, Cancel, Drop, Recover
<1>11. CASE UNCHANGED ucVars
  BY <1>2, <1>11 DEF ucVars, vars
<1> QED
  BY <1>3, <1>4, <1>5, <1>6, <1>7, <1>8, <1>9, <1>10, <1>11 DEF UCNext, Command, Continue

\* A request that registers a subscription is the only one to use its channel.
LEMMA NewBound ==
    ASSUME IndInv, NEW r \in Request, Registers(r), Frame(r), NEW h \in Handle, handle'[r] = h
    PROVE  /\ channel'[r] \in Channel /\ h \notin issued
           /\ \A k \in Channel : channel[r] = k => Bound(k, h)'
<1>1. PICK g \in Handle \ issued :
         /\ issued' = issued \cup {g}
         /\ handle' = [handle EXCEPT ![r] = g]
         /\ subscriptionChannels' = [subscriptionChannels EXCEPT ![g] = channel[r]]
  BY DEF Registers
<1>2. g = h
  BY <1>1 DEF IndInv, TypeOK
<1>3. Owns(r) /\ channel[r] \in Channel
  BY DEF Registers, Owns, IndInv, LocalsInv
<1>4. ASSUME NEW k \in Channel, channel[r] = k PROVE Bound(k, h)'
  BY <1>1, <1>2, <1>3, <1>4, NoneAssumption
     DEF Registers, Frame, Bound, Owns, IndInv, TypeOK, ChannelInv, Closing
<1> QED
  BY <1>1, <1>2, <1>3, <1>4 DEF Registers

\* Assigning the handle binds the callback to the one subscription of its channel.
LEMMA CaptureStep ==
    ASSUME BoundInv, [UCNext]_ucVars
    PROVE  CaptureInv'
<1>1. /\ UCTypeOK /\ TypeOK /\ IndInv /\ OpInv
      /\ HandleInv /\ CaptureInv /\ \A r \in Request : PhaseOK(r)
  BY DEF BoundInv, CallInv, IndInv, UCTypeOK, PhaseInv
<1>2. \A k \in Channel, h \in Handle : Bound(k, h) => Bound(k, h)'
  BY BoundStep DEF BoundInv
<1>3. \A k \in Channel : chanState[k] = "unused" => captured[k] = None
  BY <1>1 DEF CaptureInv, Bound, UCTypeOK
<1>4. ASSUME \A q \in Request : Creating(q)' =>
                \/ handle'[q] = None /\ channel'[q] = None
                \/ Creating(q) /\ handle'[q] = handle[q] /\ channel'[q] = channel[q],
             \A q \in Request : Announcing(q)' =>
                \/ handle'[q] = None
                \/ Announcing(q) /\ handle'[q] = handle[q],
             \A k \in Channel : chanState'[k] = "unused" => chanState[k] = "unused",
             UNCHANGED <<captured, published>>
      PROVE  CaptureInv'
  <2>1. \A k \in Channel, h \in Handle : captured'[k] = h => Bound(k, h)'
    BY <1>1, <1>2, <1>4 DEF CaptureInv
  <2>2. \A k1, k2 \in Channel : captured'[k1] # None /\ captured'[k1] = captured'[k2] => k1 = k2
    BY <1>1, <1>4 DEF CaptureInv
  <2>3. \A k \in Channel : chanState'[k] = "unused" =>
           \A r \in Request : Creating(r)' => channel'[r] # k
    BY <1>1, <1>4, NoneAssumption DEF CaptureInv
  <2>4. ASSUME NEW r \in Request, Creating(r)'
        PROVE  /\ channel'[r] # None => captured'[channel'[r]] = None
               /\ \A k \in Channel, h \in Handle :
                     handle'[r] = h => (channel'[r] = k => Bound(k, h)') /\ captured'[k] # h
               /\ \A q \in Request :
                     Creating(q)' /\ channel'[q] = channel'[r] /\ channel'[r] # None => q = r
    BY <1>1, <1>2, <1>4, <2>4, NoneAssumption DEF CaptureInv
  <2>5. \A k \in published' : /\ captured'[k] # None
                              /\ \A r \in Request : Announcing(r)' => captured'[k] # handle'[r]
    BY <1>1, <1>4 DEF CaptureInv
  <2> QED
    BY <2>1, <2>2, <2>3, <2>4, <2>5 DEF CaptureInv
<1> USE NoneAssumption
        DEF useCase, coordinator, queues, deliveries, locals, adapter, broker, Proceed,
            Goto, Finish, Idle, Begin, UseConnection, EnterSend, RejectBlankRoutingKey,
            EnterUnsubscribe, UCTypeOK, TypeOK, Creating, Announcing, PortReturned
<1>5. ASSUME NEW r \in Request, SubscribeCommand(r) \/ SendWithReplyCommand(r) \/ OtherCommand(r)
      PROVE  CaptureInv'
  <2>1. handle[r] = None /\ channel[r] = None
    BY <1>1, <1>5
       DEF PhaseOK, SubscribeCommand, SendWithReplyCommand, Subscribe, DeclareReply,
           OtherCommand, Connect, Disconnect, Send
  <2> QED
    BY <1>1, <1>4, <1>5, <2>1
       DEF SubscribeCommand, SendWithReplyCommand, Subscribe, DeclareReply, OtherCommand,
           Connect, Disconnect, Send
<1>6. ASSUME NEW r \in Request, NEW h \in known, UnsubscribeCommand(r, h) PROVE CaptureInv'
  BY <1>1, <1>4, <1>6 DEF UnsubscribeCommand, Unsubscribe
<1>7. ASSUME NEW r \in Request, PortStep(r) PROVE CaptureInv'
  <2>1. Frame(r) /\ (Creates(r) \/ Registers(r) \/ Removes(r) \/ Clears(r) \/ Works(r))
    BY <1>1, <1>7, StepEffect DEF PortStep
  <2>2. UNCHANGED <<phase, captured>>
    BY <1>7 DEF PortStep
  <2>3. CASE Creates(r)
    <3>1. PICK k \in Channel : /\ chanState[k] = "unused"
                               /\ chanState' = [chanState EXCEPT ![k] = "open"]
                               /\ channel' = [channel EXCEPT ![r] = k]
      BY <2>3 DEF Creates
    <3>2. Creating(r) => handle[r] = None
      BY <1>1, <2>3 DEF PhaseOK, Creates
    <3>3. published' = published /\ handle' = handle
      BY <1>7, <2>3 DEF PortStep, Creates
    <3> QED
      BY <1>1, <1>2, <1>3, <2>2, <3>1, <3>2, <3>3 DEF CaptureInv
  <2>4. CASE Registers(r)
    <3>1. PICK h \in Handle \ issued : handle' = [handle EXCEPT ![r] = h]
      BY <2>4 DEF Registers
    <3>2. \A k \in Channel : channel[r] = k => Bound(k, h)'
      BY <1>1, <2>1, <2>4, <3>1, NewBound
    <3>3. \A k \in Channel : captured[k] # h
      BY <1>1, <3>1 DEF CaptureInv, Bound
    <3>4. published' = published /\ channel' = channel /\ chanState' = chanState
      BY <1>7, <2>4 DEF PortStep, Registers
    <3> QED
      BY <1>1, <1>2, <2>2, <3>1, <3>2, <3>3, <3>4 DEF CaptureInv
  <2>5. CASE Removes(r) \/ Clears(r) \/ Works(r)
    <3>1. handle' = handle /\ \A q \in Request : Creating(q) => channel'[q] = channel[q]
      BY <1>1, <2>1, <2>5 DEF Removes, Clears, Works, Frame, PhaseOK, OpInv
    <3>2. \A k \in Channel : chanState'[k] = "unused" => chanState[k] = "unused"
      BY <2>1 DEF Frame
    <3>3. CASE published' = published
      BY <1>4, <2>2, <3>1, <3>2, <3>3
    <3>4. CASE phase[r] = "send" /\ published' = published \cup {queueName[r]}
      <4>1. /\ captured[queueName[r]] # None
            /\ \A q \in Request : Announcing(q) => captured[queueName[r]] # handle[q]
        BY <1>1, <3>4 DEF PhaseOK, HandleInv, Replying, Private
      <4> QED
        BY <1>1, <1>2, <2>2, <3>1, <3>2, <3>4, <4>1 DEF CaptureInv
    <3> QED
      BY <1>7, <3>3, <3>4 DEF PortStep
  <2> QED
    BY <2>1, <2>3, <2>4, <2>5
<1>8. ASSUME NEW r \in Request, AssignHandle(r) PROVE CaptureInv'
  <2>1. Creating(r) /\ pc[r] = "done" /\ outcome[r] = "ok"
    BY <1>8 DEF AssignHandle
  <2>2. PICK k \in Channel, h \in Handle : channel[r] = k /\ handle[r] = h
    BY <1>1, <2>1 DEF PhaseOK
  <2>3. /\ captured' = [captured EXCEPT ![k] = h] /\ Bound(k, h) /\ captured[k] = None
        /\ \A j \in Channel : captured[j] # h
    BY <1>1, <1>8, <2>1, <2>2 DEF AssignHandle, CaptureInv
  <2>4. /\ \A q \in Request :
             Creating(q)' => Creating(q) /\ q # r /\ channel[q] # k /\ handle[q] # h
        /\ \A q \in Request : Announcing(q)' => Announcing(q)
    BY <1>1, <1>8, <2>1, <2>2 DEF AssignHandle, CaptureInv, HandleInv, Private
  <2>5. UNCHANGED <<handle, channel, chanState, published>>
    BY <1>8 DEF AssignHandle, vars
  <2>6. \A j \in published : captured'[j] = captured[j]
    BY <1>1, <2>3 DEF CaptureInv
  <2> QED
    BY <1>1, <1>2, <2>3, <2>4, <2>5, <2>6 DEF CaptureInv
<1>9. ASSUME NEW r \in Request, Continue(r), ~AssignHandle(r) PROVE CaptureInv'
  <2>1. CASE SendMessage(r) \/ SendFailed(r) \/ Respond(r)
    BY <1>1, <1>4, <2>1 DEF SendMessage, SendFailed, Respond, Return
  <2>2. CASE ~(SendMessage(r) \/ SendFailed(r) \/ Respond(r))
    BY <1>1, <1>4, <1>9, <2>2
       DEF Continue, RegisterHandle, UnregisterHandle, RejectMessage, SendSucceeded,
           CleanedUp, Failed, vars
  <2> QED
    BY <2>1, <2>2
<1>10. ASSUME NEW k \in Channel, Callback(k) PROVE CaptureInv'
  BY <1>4, <1>10
     DEF Callback, Deliver, DeliverRefused, Enqueue, Broadcast, BroadcastFails, vars
<1>11. CASE Environment
  BY <1>1, <1>4, <1>11 DEF Environment, Cancel, Drop, Recover, ChannelsFollow
<1>12. CASE UNCHANGED ucVars
  BY <1>4, <1>12 DEF ucVars, vars
<1> QED
  BY <1>5, <1>6, <1>7, <1>8, <1>9, <1>10, <1>11, <1>12 DEF UCNext, Command, Continue

\* A new queue of the coordinator is not the absence of one.
LEMMA EmptyIsQueue == << >> # None
<1>1. << >> \in Seq(Nat)
  OBVIOUS
<1> QED
  BY <1>1, QueueAssumption

\* Neither is one a message was added to.
LEMMA AppendIsQueue ==
    ASSUME NEW q \in Seq(1..MaxMessages), NEW c \in 0..MaxMessages
    PROVE  Append(q, c) # None
<1>1. q \in Seq(Nat) /\ c \in Nat
  BY MessagesAssumption, SeqMonotonic
<1>2. Append(q, c) \in Seq(Nat)
  BY <1>1
<1> QED
  BY <1>2, QueueAssumption

\* r's unsubscribe has taken the subscription out of the dictionary.
Removed(r) ==
    /\ phase[r] \in {"unsubscribe", "cleanup"}
    /\ pc[r] \in Closing \/ (pc[r] = "done" /\ outcome[r] = "ok")

\* The coordinator against the dictionary of the adapter: it has a queue for each
\* subscription the adapter holds but those being announced, for none that no callback
\* delivers to, and forgets one only when the adapter has let go of it.
RegistryInv ==
    /\ CoordinatorKnowsSubscriptions
    /\ \A h \in Handle : messagesByHandle[h] # None => \E k \in Channel : captured[k] = h
    /\ \A r \in Request, h \in Handle :
          Announcing(r) /\ handle[r] = h => messagesByHandle[h] = None
    /\ \A r \in Request, h \in Handle :
          Removed(r) /\ handle[r] = h => subscriptionChannels[h] = None

\* Register and Unregister keep up with what the port has done.
LEMMA RegistryStep ==
    ASSUME BoundInv, RegistryInv, [UCNext]_ucVars
    PROVE  RegistryInv'
<1>1. /\ UCTypeOK /\ TypeOK /\ IndInv /\ OpInv
      /\ HandleInv /\ CaptureInv /\ \A r \in Request : PhaseOK(r)
  BY DEF BoundInv, CallInv, IndInv, UCTypeOK, PhaseInv
<1>2. /\ \A h \in Handle : subscriptionChannels[h] # None /\ messagesByHandle[h] = None =>
            \E r \in Request : handle[r] = h /\ Announcing(r)
      /\ \A h \in Handle : messagesByHandle[h] # None => \E k \in Channel : captured[k] = h
      /\ \A r \in Request, h \in Handle :
            Announcing(r) /\ handle[r] = h => messagesByHandle[h] = None
      /\ \A r \in Request, h \in Handle :
            Removed(r) /\ handle[r] = h => subscriptionChannels[h] = None
  BY DEF RegistryInv, CoordinatorKnowsSubscriptions, Announcing, Registered
<1>3. SUFFICES
        /\ \A h \in Handle : subscriptionChannels'[h] # None /\ messagesByHandle'[h] = None =>
              \E r \in Request : handle'[r] = h /\ Announcing(r)'
        /\ \A h \in Handle : messagesByHandle'[h] # None => \E k \in Channel : captured'[k] = h
        /\ \A r \in Request, h \in Handle :
              Announcing(r)' /\ handle'[r] = h => messagesByHandle'[h] = None
        /\ \A r \in Request, h \in Handle :
              Removed(r)' /\ handle'[r] = h => subscriptionChannels'[h] = None
  BY DEF RegistryInv, CoordinatorKnowsSubscriptions, Announcing, Registered
<1> DEFINE Goal ==
        /\ \A h \in Handle : subscriptionChannels'[h] # None /\ messagesByHandle'[h] = None =>
              \E r \in Request : handle'[r] = h /\ Announcing(r)'
        /\ \A h \in Handle : messagesByHandle'[h] # None => \E k \in Channel : captured'[k] = h
        /\ \A r \in Request, h \in Handle :
              Announcing(r)' /\ handle'[r] = h => messagesByHandle'[h] = None
        /\ \A r \in Request, h \in Handle :
              Removed(r)' /\ handle'[r] = h => subscriptionChannels'[h] = None
<1>4. ASSUME \A q \in Request : \/ handle'[q] = handle[q] /\ (Announcing(q)' <=> Announcing(q))
                                \/ /\ ~(Announcing(q) /\ handle[q] # None)
                                   /\ ~(Announcing(q)' /\ handle'[q] # None),
             \A q \in Request : Removed(q)' => Removed(q) /\ handle'[q] = handle[q],
             UNCHANGED <<captured, subscriptionChannels>>,
             \A h \in Handle : messagesByHandle'[h] = None <=> messagesByHandle[h] = None
      PROVE  Goal
  BY <1>1, <1>2, <1>4, NoneAssumption
<1> HIDE DEF Goal
<1> USE NoneAssumption
        DEF useCase, coordinator, queues, deliveries, locals, adapter, broker, Proceed,
            Goto, Finish, Idle, Begin, UseConnection, EnterSend, RejectBlankRoutingKey,
            EnterUnsubscribe, UCTypeOK, TypeOK, Creating, Announcing, PortReturned, Removed,
            Closing
<1>5. ASSUME NEW r \in Request, SubscribeCommand(r) \/ SendWithReplyCommand(r) \/ OtherCommand(r)
      PROVE  Goal
  <2>1. handle[r] = None
    BY <1>1, <1>5
       DEF PhaseOK, SubscribeCommand, SendWithReplyCommand, Subscribe, DeclareReply,
           OtherCommand, Connect, Disconnect, Send
  <2> QED
    BY <1>1, <1>4, <1>5, <2>1
       DEF SubscribeCommand, SendWithReplyCommand, Subscribe, DeclareReply, OtherCommand,
           Connect, Disconnect, Send
<1>6. ASSUME NEW r \in Request, NEW h \in known, UnsubscribeCommand(r, h) PROVE Goal
  BY <1>1, <1>4, <1>6 DEF UnsubscribeCommand, Unsubscribe, PhaseOK
<1>7. ASSUME NEW r \in Request, PortStep(r) PROVE Goal
  <2>1. Frame(r) /\ (Creates(r) \/ Registers(r) \/ Removes(r) \/ Clears(r) \/ Works(r))
    BY <1>1, <1>7, StepEffect DEF PortStep
  <2>2. UNCHANGED <<phase, captured, messagesByHandle>>
    BY <1>7 DEF PortStep
  <2>3. CASE Creates(r)
    BY <1>1, <1>4, <2>1, <2>2, <2>3 DEF Creates, Frame
  <2>4. CASE Registers(r)
    <3>1. PICK g \in Handle \ issued :
            /\ handle' = [handle EXCEPT ![r] = g]
            /\ subscriptionChannels' = [subscriptionChannels EXCEPT ![g] = channel[r]]
      BY <2>4 DEF Registers
    <3>2. messagesByHandle[g] = None
      BY <1>1, <1>2, <3>1 DEF CaptureInv, Bound
    <3>3. Announcing(r) /\ handle[r] = None /\ ~Removed(r)
      BY <1>1, <2>4 DEF Registers, PhaseOK, OpInv, Phases
    <3>4. \A q \in Request : Removed(q)' => Removed(q) /\ q # r
      BY <1>1, <2>1, <2>2, <3>3 DEF Frame
    <3>5. \A q \in Request : handle[q] # g
      BY <1>1, <3>1 DEF HandleInv
    <3> QED
      BY <1>1, <1>2, <2>2, <3>1, <3>2, <3>3, <3>4, <3>5 DEF Goal
  <2>5. CASE Removes(r)
    <3>1. handle' = handle /\ handle[r] \in Handle
      BY <1>1, <2>5 DEF Removes, IndInv, LocalsInv
    <3>2. \A q \in Request : Removed(q)' => Removed(q) \/ q = r
      BY <1>1, <2>1, <2>2 DEF Frame
    <3>3. subscriptionChannels' = [subscriptionChannels EXCEPT ![handle[r]] = None]
      BY <2>5 DEF Removes
    <3> QED
      BY <1>1, <1>2, <2>2, <3>1, <3>2, <3>3 DEF Goal
  <2>6. CASE Clears(r)
    BY <1>1, <1>2, <2>2, <2>6 DEF Clears, Goal
  <2>7. CASE Works(r)
    <3>1. \A q \in Request : Removed(q)' => Removed(q)
      <4>1. ASSUME Removed(r)' PROVE Removed(r)
        <5>1. op[r] = "unsubscribe" /\ pc[r] \in {"remove", "closeChannel", "disposeChannel"}
          <6>1. op[r] = "unsubscribe"
            BY <1>1, <2>2, <4>1 DEF PhaseOK
          <6> QED
            BY <1>1, <2>1, <2>2, <4>1, <6>1 DEF Frame, OpInv, PhaseOK, Steps, TeardownSteps
        <5> QED
          BY <2>2, <2>7, <4>1, <5>1 DEF Works
      <4>2. \A q \in Request \ {r} : Removed(q)' => Removed(q)
        BY <2>1, <2>2 DEF Frame
      <4> QED
        BY <4>1, <4>2
    <3> QED
      BY <1>4, <2>2, <2>7, <3>1 DEF Works
  <2> QED
    BY <2>1, <2>3, <2>4, <2>5, <2>6, <2>7
<1>8. ASSUME NEW r \in Request, AssignHandle(r) PROVE Goal
  <2>1. PICK k \in Channel : channel[r] = k /\ captured[k] = None
    BY <1>1, <1>8 DEF AssignHandle, PhaseOK, CaptureInv
  <2>2. captured' = [captured EXCEPT ![k] = handle[r]]
    BY <1>8, <2>1 DEF AssignHandle
  <2>3. UNCHANGED <<handle, messagesByHandle, subscriptionChannels>>
    BY <1>8 DEF AssignHandle, vars
  <2>4. \A q \in Request : (Announcing(q)' <=> Announcing(q)) /\ (Removed(q)' => Removed(q))
    BY <1>1, <1>8 DEF AssignHandle, vars
  <2>5. \A h \in Handle :
           (\E j \in Channel : captured[j] = h) => \E j \in Channel : captured'[j] = h
    BY <1>1, <2>1, <2>2
  <2>6. \A h \in Handle : subscriptionChannels'[h] # None /\ messagesByHandle'[h] = None =>
              \E q \in Request : handle'[q] = h /\ Announcing(q)'
    BY <1>2, <2>3, <2>4
  <2>7. \A h \in Handle : messagesByHandle'[h] # None => \E j \in Channel : captured'[j] = h
    BY <1>2, <2>3, <2>5
  <2>8. \A q \in Request, h \in Handle :
           Announcing(q)' /\ handle'[q] = h => messagesByHandle'[h] = None
    BY <1>2, <2>3, <2>4
  <2>9. \A q \in Request, h \in Handle :
           Removed(q)' /\ handle'[q] = h => subscriptionChannels'[h] = None
    BY <1>2, <2>3, <2>4
  <2> QED
    BY <2>6, <2>7, <2>8, <2>9 DEF Goal
<1>9. ASSUME NEW r \in Request, RegisterHandle(r) PROVE Goal
  <2>0. handle[r] \in Handle
    BY <1>1, <1>9 DEF RegisterHandle, PhaseOK, Replying
  <2>1. PICK h \in Handle : /\ handle[r] = h
                            /\ messagesByHandle' = [messagesByHandle EXCEPT ![h] = << >>]
    BY <1>9, <2>0 DEF RegisterHandle
  <2>2. << >> # None
    BY EmptyIsQueue
  <2>3. Announcing(r) /\ \E k \in Channel : captured[k] = h
    BY <1>1, <1>9, <2>1 DEF RegisterHandle, PhaseOK, Replying
  <2>4. \A q \in Request : handle[q] = h => q = r
    BY <1>1, <2>1, <2>3 DEF HandleInv, Private
  <2>5. UNCHANGED <<handle, captured, subscriptionChannels>>
    BY <1>9 DEF RegisterHandle, vars
  <2>6. /\ ~Announcing(r)' /\ \A q \in Request \ {r} : Announcing(q)' <=> Announcing(q)
        /\ \A q \in Request : Removed(q)' => Removed(q)
    BY <1>1, <1>9 DEF RegisterHandle, vars
  <2> QED
    BY <1>1, <1>2, <2>1, <2>2, <2>3, <2>4, <2>5, <2>6 DEF Goal
<1>10. ASSUME NEW r \in Request, UnregisterHandle(r) \/ CleanedUp(r) PROVE Goal
  <2>1. Removed(r) /\ handle[r] \in Handle
    BY <1>1, <1>10 DEF UnregisterHandle, CleanedUp, PhaseOK
  <2>2. messagesByHandle' = [messagesByHandle EXCEPT ![handle[r]] = None]
    BY <1>10 DEF UnregisterHandle, CleanedUp
  <2>3. UNCHANGED <<handle, captured, subscriptionChannels>>
    BY <1>10 DEF UnregisterHandle, CleanedUp, vars
  <2>4. \A q \in Request : (Announcing(q)' <=> Announcing(q)) /\ (Removed(q)' => Removed(q))
    BY <1>1, <1>10 DEF UnregisterHandle, CleanedUp, vars
  <2> QED
    BY <1>1, <1>2, <2>1, <2>2, <2>3, <2>4 DEF Goal
<1>11. ASSUME NEW r \in Request, RejectMessage(r) \/ SendSucceeded(r) \/ Failed(r) PROVE Goal
  BY <1>1, <1>4, <1>11 DEF RejectMessage, SendSucceeded, Failed, PhaseOK, vars
<1>12. ASSUME NEW r \in Request, SendMessage(r) \/ SendFailed(r) PROVE Goal
  BY <1>1, <1>4, <1>12 DEF SendMessage, SendFailed, PhaseOK
<1>13. ASSUME NEW r \in Request, Respond(r) PROVE Goal
  BY <1>1, <1>4, <1>13 DEF Respond, Return, PhaseOK
<1>14. ASSUME NEW k \in Channel, Callback(k), ~Enqueue(k) PROVE Goal
  BY <1>4, <1>14 DEF Callback, Deliver, DeliverRefused, Broadcast, BroadcastFails, vars
<1>15. ASSUME NEW k \in Channel, Enqueue(k) PROVE Goal
  <2>1. \A h \in Handle : messagesByHandle'[h] = None <=> messagesByHandle[h] = None
    <3>1. \A h \in Handle :
             messagesByHandle[h] # None => Append(messagesByHandle[h], count[k]) # None
      BY <1>1, AppendIsQueue
    <3>2. messagesByHandle' =
             [messagesByHandle EXCEPT ![captured[k]] =
                IF messagesByHandle[captured[k]] = None
                THEN None ELSE Append(messagesByHandle[captured[k]], count[k])]
      BY <1>15 DEF Enqueue
    <3> QED
      BY <1>1, <3>1, <3>2
  <2> QED
    BY <1>4, <1>15, <2>1 DEF Enqueue, vars
<1>16. ASSUME Environment PROVE Goal
  BY <1>1, <1>4, <1>16 DEF Environment, Cancel, Drop, Recover
<1>17. ASSUME UNCHANGED ucVars PROVE Goal
  BY <1>4, <1>17 DEF ucVars, vars
<1> QED
  BY <1>5, <1>6, <1>7, <1>8, <1>9, <1>10, <1>11, <1>12, <1>13, <1>14, <1>15, <1>16, <1>17
     DEF UCNext, Command, Continue, Goal

\* A message delivered after those of an increasing feed keeps it increasing.
LEMMA AppendIncreasing ==
    ASSUME NEW M \in Nat, NEW s \in Seq(1..M), NEW c \in 1..M,
           \A i \in 1..Len(s) : s[i] < c,
           \A i, j \in 1..Len(s) : i < j => s[i] < s[j]
    PROVE  /\ Append(s, c) \in Seq(1..M)
           /\ \A i \in 1..Len(Append(s, c)) : Append(s, c)[i] <= c
           /\ \A i, j \in 1..Len(Append(s, c)) : i < j => Append(s, c)[i] < Append(s, c)[j]
<1>1. /\ Append(s, c) \in Seq(1..M) /\ Len(Append(s, c)) = Len(s) + 1
      /\ \A i \in 1..Len(s) : Append(s, c)[i] = s[i]
      /\ Append(s, c)[Len(s) + 1] = c
  BY AppendProperties
<1>2. Len(s) \in Nat /\ \A i \in 1..Len(s) : s[i] \in 1..M
  OBVIOUS
<1>3. \A i \in 1..Len(Append(s, c)) : i \in 1..Len(s) \/ i = Len(s) + 1
  BY <1>1, <1>2
<1>4. \A i \in 1..Len(Append(s, c)) : Append(s, c)[i] <= c
  BY <1>1, <1>2, <1>3
<1>5. ASSUME NEW i \in 1..Len(Append(s, c)), NEW j \in 1..Len(Append(s, c)), i < j
      PROVE  Append(s, c)[i] < Append(s, c)[j]
  <2>1. i \in 1..Len(s) /\ Append(s, c)[i] = s[i]
    BY <1>1, <1>2, <1>5
  <2>2. CASE j \in 1..Len(s)
    BY <1>1, <1>5, <2>1, <2>2
  <2>3. CASE j = Len(s) + 1
    BY <1>1, <2>1, <2>3
  <2> QED
    BY <1>3, <2>2, <2>3
<1> QED
  BY <1>1, <1>4, <1>5

\* A message added to a sequence is one of its messages, with those it had.
LEMMA ElementsOfAppend ==
    ASSUME NEW S, NEW s \in Seq(S), NEW c \in S
    PROVE  Elements(Append(s, c)) = Elements(s) \cup {c}
<1>1. /\ Len(Append(s, c)) = Len(s) + 1 /\ Len(s) \in Nat
      /\ \A i \in 1..Len(s) : Append(s, c)[i] = s[i]
      /\ Append(s, c)[Len(s) + 1] = c
  BY AppendProperties
<1>2. 1..Len(Append(s, c)) = 1..Len(s) \cup {Len(s) + 1}
  BY <1>1
<1> QED
  BY <1>1, <1>2 DEF Elements

\* The callback of r's channel knows its handle, the coordinator does not yet.
Awaiting(r) == phase[r] \in {"register", "registerReply"}

\* The feed against the buffer: the callback of a channel is at one message at a time, past
\* all it has broadcast; the buffer has what was broadcast and the message about to be; and
\* nothing was broadcast for a subscription before it was announced.
FeedInv ==
    /\ \A k \in Channel : stage[k] # "idle" => captured[k] # None /\ count[k] > 0
    /\ \A k \in Channel, h \in Handle : captured[k] = h =>
          \A i \in 1..Len(feed[h]) :
             feed[h][i] <= count[k] /\ (stage[k] # "idle" => feed[h][i] < count[k])
    /\ \A k \in Channel, h \in Handle : captured[k] = h /\ messagesByHandle[h] # None =>
          /\ Elements(feed[h]) \subseteq Elements(messagesByHandle[h])
          /\ stage[k] = "broadcast" => count[k] \in Elements(messagesByHandle[h])
    /\ \A h \in Handle : (\A k \in Channel : captured[k] # h) => feed[h] = << >>
    /\ \A r \in Request, h \in Handle : Awaiting(r) /\ handle[r] = h =>
          feed[h] = << >> /\ \A k \in Channel : captured[k] = h => stage[k] = "idle"
    /\ FeedInOrder

\* What holds of the application layer whoever calls it.
UCInv == BoundInv /\ RegistryInv /\ FeedInv

\* Each action keeps every variable in its type.
LEMMA UCTypeStep ==
    ASSUME UCInv, [UCNext]_ucVars
    PROVE  UCTypeOK'
<1>1. /\ UCTypeOK /\ TypeOK /\ IndInv /\ OpInv /\ CaptureInv /\ FeedInv
      /\ \A r \in Request : PhaseOK(r)
      /\ TypeOK' /\ known' \subseteq Handle
  <2>1. HandleInv' /\ IndInv'
    BY HandleStep, AdapterPart DEF UCInv, BoundInv
  <2>2. known' \subseteq Handle /\ TypeOK'
    BY <2>1 DEF HandleInv, IndInv, TypeOK
  <2> QED
    BY <2>2 DEF UCInv, BoundInv, CallInv, IndInv, UCTypeOK, PhaseInv
<1> USE NoneAssumption, MessagesAssumption
        DEF useCase, coordinator, queues, deliveries, Proceed, Phases
<1>2. ASSUME NEW r \in Request, Command(r) PROVE UCTypeOK'
  BY <1>1, <1>2
     DEF Command, SubscribeCommand, SendWithReplyCommand, OtherCommand, UnsubscribeCommand,
         UCTypeOK
<1>3. ASSUME NEW r \in Request, PortStep(r) PROVE UCTypeOK'
  <2>1. pc[r] = "declareQueue" => channel[r] \in Channel
    BY <1>1 DEF IndInv, LocalsInv, Owns
  <2>2. phase[r] = "send" => queueName[r] \in Channel
    BY <1>1 DEF PhaseOK, UCTypeOK, Replying
  <2> QED
    BY <1>1, <1>3, <2>1, <2>2 DEF PortStep, UCTypeOK
<1>4. ASSUME NEW r \in Request, AssignHandle(r) PROVE UCTypeOK'
  <2>1. channel[r] \in Channel \cup {None} /\ handle[r] \in Handle \cup {None}
    BY <1>1 DEF TypeOK
  <2> QED
    BY <1>1, <1>4, <2>1 DEF AssignHandle, UCTypeOK
<1>5. ASSUME NEW r \in Request, RegisterHandle(r) \/ UnregisterHandle(r) \/ CleanedUp(r)
      PROVE  UCTypeOK'
  <2>1. << >> \in Seq(1..MaxMessages)
    OBVIOUS
  <2>2. messagesByHandle' \in [Handle -> Seq(1..MaxMessages) \cup {None}]
    BY <1>1, <1>5, <2>1 DEF RegisterHandle, UnregisterHandle, CleanedUp, UCTypeOK
  <2> QED
    BY <1>1, <1>5, <2>2 DEF RegisterHandle, UnregisterHandle, CleanedUp, UCTypeOK
<1>6. ASSUME NEW r \in Request, \/ RejectMessage(r) \/ SendMessage(r) \/ SendSucceeded(r)
                                \/ SendFailed(r) \/ Failed(r) \/ Respond(r)
      PROVE UCTypeOK'
  <2>1. outcome[r] \in Outcomes /\ "ok" \in Outcomes
    BY <1>1 DEF TypeOK, Outcomes
  <2>2. phase' \in [Request -> Phases] /\ queueName' \in [Request -> Channel \cup {None}]
    BY <1>1, <1>6
       DEF RejectMessage, SendMessage, SendSucceeded, SendFailed, Failed, Respond, UCTypeOK
  <2>3. caught' \in [Request -> Outcomes]
    BY <1>1, <1>6, <2>1
       DEF RejectMessage, SendMessage, SendSucceeded, SendFailed, Failed, Respond, UCTypeOK
  <2> QED
    BY <1>1, <1>6, <2>2, <2>3
       DEF RejectMessage, SendMessage, SendSucceeded, SendFailed, Failed, Respond, UCTypeOK
<1>7. ASSUME NEW k \in Channel, Deliver(k) \/ DeliverRefused(k) \/ BroadcastFails(k)
      PROVE  UCTypeOK'
  <2>1. CASE Deliver(k)
    BY <1>1, <2>1 DEF Deliver, UCTypeOK
  <2>2. CASE DeliverRefused(k)
    BY <1>1, <2>2 DEF DeliverRefused, UCTypeOK
  <2>3. CASE BroadcastFails(k)
    BY <1>1, <2>3 DEF BroadcastFails, UCTypeOK
  <2> QED
    BY <1>7, <2>1, <2>2, <2>3
<1>8. ASSUME NEW k \in Channel, Enqueue(k) \/ Broadcast(k) PROVE UCTypeOK'
  <2>1. captured[k] \in Handle /\ count[k] \in 1..MaxMessages
    <3>1. stage[k] # "idle"
      BY <1>8 DEF Enqueue, Broadcast
    <3>2. captured[k] # None /\ count[k] > 0
      BY <1>1, <3>1 DEF FeedInv
    <3>3. captured[k] \in Handle \cup {None} /\ count[k] \in 0..MaxMessages
      BY <1>1 DEF UCTypeOK
    <3> QED
      BY <3>2, <3>3, MessagesAssumption
  <2>2. Append(feed[captured[k]], count[k]) \in Seq(1..MaxMessages)
    BY <1>1, <2>1 DEF UCTypeOK
  <2>3. messagesByHandle[captured[k]] # None =>
           Append(messagesByHandle[captured[k]], count[k]) \in Seq(1..MaxMessages)
    BY <1>1, <2>1 DEF UCTypeOK
  <2>4. CASE Enqueue(k)
    BY <1>1, <2>1, <2>3, <2>4 DEF Enqueue, UCTypeOK
  <2>5. CASE Broadcast(k)
    BY <1>1, <2>1, <2>2, <2>5 DEF Broadcast, UCTypeOK
  <2> QED
    BY <1>8, <2>4, <2>5
<1>9. CASE Environment
  BY <1>1, <1>9 DEF Environment, UCTypeOK
<1>10. CASE UNCHANGED ucVars
  BY <1>1, <1>10 DEF ucVars, UCTypeOK
<1> QED
  BY <1>2, <1>3, <1>4, <1>5, <1>6, <1>7, <1>8, <1>9, <1>10 DEF UCNext, Continue, Callback

\* A delivery, its place in the buffer and its broadcast keep feed and buffer together.
LEMMA FeedStep ==
    ASSUME UCInv, [UCNext]_ucVars
    PROVE  FeedInv'
<1> DEFINE Before(k) == \A h \in Handle : captured[k] = h => \A i \in 1..Len(feed[h]) :
                           feed[h][i] <= count[k] /\ (stage[k] # "idle" => feed[h][i] < count[k])
           Stored(k) == \A h \in Handle : captured[k] = h /\ messagesByHandle[h] # None =>
                           /\ Elements(feed[h]) \subseteq Elements(messagesByHandle[h])
                           /\ stage[k] = "broadcast" => count[k] \in Elements(messagesByHandle[h])
           Busy(k) == stage[k] # "idle" => captured[k] # None /\ count[k] > 0
           Unheard(h) == (\A k \in Channel : captured[k] # h) => feed[h] = << >>
           Quiet(r) == \A h \in Handle : Awaiting(r) /\ handle[r] = h =>
                           /\ feed[h] = << >>
                           /\ \A k \in Channel : captured[k] = h => stage[k] = "idle"
           Increasing(h) == \A i, j \in 1..Len(feed[h]) : i < j => feed[h][i] < feed[h][j]
<1>1. /\ UCTypeOK /\ TypeOK /\ HandleInv /\ CaptureInv /\ RegistryInv /\ FeedInv
      /\ \A r \in Request : PhaseOK(r)
  BY DEF UCInv, BoundInv, CallInv, UCTypeOK, PhaseInv
<1>2. /\ \A k \in Channel : Before(k) /\ Stored(k) /\ Busy(k)
      /\ \A h \in Handle : Unheard(h) /\ Increasing(h)
      /\ \A r \in Request : Quiet(r)
  BY <1>1 DEF FeedInv, FeedInOrder
<1>3. SUFFICES /\ \A k \in Channel : Before(k)' /\ Stored(k)' /\ Busy(k)'
               /\ \A h \in Handle : Unheard(h)' /\ Increasing(h)'
               /\ \A r \in Request : Quiet(r)'
  BY DEF FeedInv, FeedInOrder
<1> DEFINE Goal == /\ \A k \in Channel : Before(k)' /\ Stored(k)' /\ Busy(k)'
                   /\ \A h \in Handle : Unheard(h)' /\ Increasing(h)'
                   /\ \A r \in Request : Quiet(r)'
<1>4. ASSUME UNCHANGED <<captured, stage, count, feed>>,
             \A h \in Handle : \/ messagesByHandle'[h] = messagesByHandle[h]
                               \/ messagesByHandle'[h] = None,
             \A r \in Request : Awaiting(r)' => Awaiting(r) /\ handle'[r] = handle[r]
      PROVE  Goal
  <2>1. \A k \in Channel : Before(k)' /\ Stored(k)' /\ Busy(k)'
    BY <1>2, <1>4
  <2>2. \A h \in Handle : Unheard(h)' /\ Increasing(h)'
    BY <1>2, <1>4
  <2>3. \A r \in Request : Quiet(r)'
    BY <1>2, <1>4
  <2> QED
    BY <2>1, <2>2, <2>3
<1> HIDE DEF Goal, Before, Stored, Busy, Unheard, Quiet, Increasing
<1> USE NoneAssumption
        DEF useCase, coordinator, queues, deliveries, locals, adapter, broker, Proceed,
            Goto, Finish, Idle, Begin, UseConnection, EnterSend, RejectBlankRoutingKey,
            EnterUnsubscribe, PortReturned
<1>5. ASSUME NEW r \in Request, SubscribeCommand(r) \/ SendWithReplyCommand(r) \/ OtherCommand(r)
      PROVE  Goal
  BY <1>1, <1>4, <1>5
     DEF SubscribeCommand, SendWithReplyCommand, Subscribe, DeclareReply, OtherCommand,
         Connect, Disconnect, Send, Awaiting, UCTypeOK
<1>6. ASSUME NEW r \in Request, NEW h \in known, UnsubscribeCommand(r, h) PROVE Goal
  BY <1>1, <1>4, <1>6 DEF UnsubscribeCommand, Unsubscribe, Awaiting, UCTypeOK, TypeOK
<1>7. ASSUME NEW r \in Request, PortStep(r) PROVE Goal
  <2>1. Frame(r) /\ \A q \in Request : Awaiting(q) => q # r
    BY <1>1, <1>7, StepEffect
       DEF UCInv, BoundInv, CallInv, PortStep, Frame, PhaseOK, Awaiting
  <2> QED
    BY <1>1, <1>4, <1>7, <2>1 DEF PortStep, Frame, Awaiting
<1>8. ASSUME NEW r \in Request, AssignHandle(r) PROVE Goal
  <2>1. Creating(r) /\ pc[r] = "done" /\ outcome[r] = "ok"
    BY <1>8 DEF AssignHandle, Creating
  <2>2. PICK k \in Channel, h \in Handle : channel[r] = k /\ handle[r] = h
    BY <1>1, <2>1 DEF PhaseOK, UCTypeOK, TypeOK
  <2>3. /\ captured' = [captured EXCEPT ![k] = h] /\ captured[k] = None
        /\ UNCHANGED <<messagesByHandle, stage, count, feed, handle>>
        /\ \A j \in Channel : captured[j] # h
    BY <1>1, <1>8, <2>1, <2>2 DEF AssignHandle, CaptureInv, vars
  <2>4. /\ feed[h] = << >> /\ messagesByHandle[h] = None /\ stage[k] = "idle"
        /\ \A q \in Request : handle[q] = h => q = r
    BY <1>1, <1>2, <2>1, <2>2, <2>3
       DEF Unheard, Busy, RegistryInv, HandleInv, Private, Announcing, Creating
  <2>5. \A q \in Request : Awaiting(q)' => Awaiting(q) \/ q = r
    BY <1>1, <1>8 DEF AssignHandle, Awaiting, UCTypeOK
  <2>6. captured' = [j \in Channel |-> IF j = k THEN h ELSE captured[j]]
    BY <1>1, <2>3 DEF UCTypeOK
  <2>7. ASSUME NEW j \in Channel PROVE Before(j)' /\ Stored(j)' /\ Busy(j)'
    BY <1>2, <2>3, <2>4, <2>6 DEF Before, Stored, Busy
  <2>8. ASSUME NEW g \in Handle PROVE Unheard(g)' /\ Increasing(g)'
    BY <1>2, <2>3, <2>4, <2>6 DEF Unheard, Increasing
  <2>9. ASSUME NEW q \in Request PROVE Quiet(q)'
    BY <1>2, <2>2, <2>3, <2>4, <2>5, <2>6 DEF Quiet
  <2> QED
    BY <2>7, <2>8, <2>9 DEF Goal
<1>9. ASSUME NEW r \in Request, RegisterHandle(r) PROVE Goal
  <2>1. PICK h \in Handle : handle[r] = h
    BY <1>1, <1>9 DEF RegisterHandle, PhaseOK, Replying, UCTypeOK, TypeOK
  <2>2. Awaiting(r) /\ messagesByHandle' = [messagesByHandle EXCEPT ![h] = << >>]
    BY <1>9, <2>1 DEF RegisterHandle, Awaiting
  <2>3. feed[h] = << >> /\ \A k \in Channel : captured[k] = h => stage[k] = "idle"
    BY <1>2, <2>1, <2>2 DEF Quiet
  <2>4. UNCHANGED <<captured, stage, count, feed, handle>>
    BY <1>9 DEF RegisterHandle, vars
  <2>5. \A q \in Request : Awaiting(q)' => Awaiting(q)
    BY <1>1, <1>9 DEF RegisterHandle, Awaiting, UCTypeOK
  <2>6. ASSUME NEW k \in Channel PROVE Before(k)' /\ Stored(k)' /\ Busy(k)'
    BY <1>1, <1>2, <2>2, <2>3, <2>4 DEF Before, Stored, Busy, UCTypeOK
  <2>7. ASSUME NEW g \in Handle PROVE Unheard(g)' /\ Increasing(g)'
    BY <1>2, <2>4 DEF Unheard, Increasing
  <2>8. ASSUME NEW q \in Request PROVE Quiet(q)'
    BY <1>2, <2>4, <2>5 DEF Quiet
  <2> QED
    BY <2>6, <2>7, <2>8 DEF Goal
<1>10. ASSUME NEW r \in Request, UnregisterHandle(r) \/ CleanedUp(r) PROVE Goal
  BY <1>1, <1>4, <1>10 DEF UnregisterHandle, CleanedUp, Awaiting, UCTypeOK, vars
<1>11. ASSUME NEW r \in Request, RejectMessage(r) \/ SendSucceeded(r) \/ Failed(r) PROVE Goal
  BY <1>1, <1>4, <1>11 DEF RejectMessage, SendSucceeded, Failed, Awaiting, UCTypeOK, vars
<1>12. ASSUME NEW r \in Request, SendMessage(r) \/ SendFailed(r) PROVE Goal
  BY <1>1, <1>4, <1>12 DEF SendMessage, SendFailed, Awaiting, UCTypeOK, TypeOK
<1>13. ASSUME NEW r \in Request, Respond(r) PROVE Goal
  BY <1>1, <1>4, <1>13 DEF Respond, Return, Awaiting, UCTypeOK, TypeOK
<1>14. ASSUME NEW k \in Channel, Deliver(k) PROVE Goal
  <2>1. /\ stage[k] = "idle" /\ count' = [count EXCEPT ![k] = count[k] + 1]
        /\ UNCHANGED <<captured, messagesByHandle, feed, phase, handle>>
        /\ \/ stage' = stage
           \/ /\ captured[k] # None /\ messagesByHandle[captured[k]] # None
              /\ stage' = [stage EXCEPT ![k] = "enqueue"]
    BY <1>14 DEF Deliver, vars
  <2>2. count[k] \in Nat /\ \A h \in Handle : \A i \in 1..Len(feed[h]) : feed[h][i] \in Nat
    <3>1. \A h \in Handle : feed[h] \in Seq(1..MaxMessages)
      BY <1>1 DEF UCTypeOK
    <3> QED
      BY <1>1, <3>1, MessagesAssumption, ElementOfSeq DEF UCTypeOK
  <2>3. ASSUME NEW j \in Channel PROVE Before(j)' /\ Stored(j)' /\ Busy(j)'
    <3>1. CASE j = k
      BY <1>1, <1>2, <2>1, <2>2, <3>1 DEF Before, Stored, Busy, UCTypeOK
    <3>2. CASE j # k
      BY <1>1, <1>2, <2>1, <3>2 DEF Before, Stored, Busy, UCTypeOK
    <3> QED
      BY <3>1, <3>2
  <2>4. ASSUME NEW h \in Handle PROVE Unheard(h)' /\ Increasing(h)'
    BY <1>2, <2>1 DEF Unheard, Increasing
  <2>5. ASSUME NEW r \in Request PROVE Quiet(r)'
    <3>1. ASSUME NEW h \in Handle, Awaiting(r), handle[r] = h
          PROVE  /\ feed[h] = << >> /\ messagesByHandle[h] = None
                 /\ \A j \in Channel : captured[j] = h => stage[j] = "idle"
      BY <1>1, <1>2, <3>1 DEF Quiet, RegistryInv, Awaiting, Announcing
    <3>2. ASSUME NEW h \in Handle, messagesByHandle[h] = None,
                 NEW j \in Channel, captured[j] = h, stage[j] = "idle"
          PROVE  stage'[j] = "idle"
      BY <1>1, <2>1, <3>2 DEF UCTypeOK
    <3>3. Awaiting(r)' => Awaiting(r) /\ handle'[r] = handle[r]
      BY <2>1 DEF Awaiting
    <3> QED
      BY <2>1, <3>1, <3>2, <3>3 DEF Quiet
  <2> QED
    BY <2>3, <2>4, <2>5 DEF Goal
<1>15. ASSUME NEW k \in Channel, Enqueue(k) PROVE Goal
  <2>1. stage[k] = "enqueue" /\ stage' = [stage EXCEPT ![k] = "broadcast"]
        /\ UNCHANGED <<captured, count, feed, phase, handle>>
    BY <1>15 DEF Enqueue, vars
  <2>2. PICK h \in Handle : captured[k] = h
    BY <1>1, <1>2, <2>1 DEF Busy, UCTypeOK
  <2>3. messagesByHandle' =
           [messagesByHandle EXCEPT ![h] = IF messagesByHandle[h] = None
                                           THEN None ELSE Append(messagesByHandle[h], count[k])]
    BY <1>15, <2>2 DEF Enqueue
  <2>4. messagesByHandle[h] # None =>
           /\ messagesByHandle'[h] # None
           /\ Elements(messagesByHandle'[h]) = Elements(messagesByHandle[h]) \cup {count[k]}
    <3> DEFINE M == 1..MaxMessages
    <3>1. count[k] \in 0..MaxMessages /\ messagesByHandle[h] \in Seq(M) \cup {None}
      BY <1>1 DEF UCTypeOK
    <3>2. count[k] \in M
      BY <1>2, <2>1, <3>1, MessagesAssumption DEF Busy
    <3>3. messagesByHandle[h] # None => messagesByHandle'[h] = Append(messagesByHandle[h], count[k])
      BY <1>1, <2>3 DEF UCTypeOK
    <3>4. ASSUME messagesByHandle[h] \in Seq(M)
          PROVE  Append(messagesByHandle[h], count[k]) # None
      BY <3>1, <3>4, AppendIsQueue
    <3>5. ASSUME messagesByHandle[h] \in Seq(M)
          PROVE  Elements(Append(messagesByHandle[h], count[k])) =
                    Elements(messagesByHandle[h]) \cup {count[k]}
      <4> HIDE DEF M
      <4> QED
        BY <3>2, <3>5, ElementsOfAppend
    <3> QED
      BY <3>1, <3>3, <3>4, <3>5
  <2>5. \A j \in Channel : captured[j] = h => j = k
    BY <1>1, <2>2 DEF CaptureInv
  <2>6. ASSUME NEW j \in Channel PROVE Before(j)' /\ Stored(j)' /\ Busy(j)'
    <3>1. CASE j = k
      <4>1. messagesByHandle'[h] # None => messagesByHandle[h] # None
        BY <1>1, <2>3 DEF UCTypeOK
      <4>2. Stored(k)'
        BY <1>2, <2>1, <2>2, <2>4, <4>1 DEF Stored
      <4> QED
        BY <1>1, <1>2, <2>1, <2>2, <3>1, <4>2 DEF Before, Busy, UCTypeOK
    <3>2. CASE j # k
      BY <1>1, <1>2, <2>1, <2>2, <2>3, <2>5, <3>2 DEF Before, Stored, Busy, UCTypeOK
    <3> QED
      BY <3>1, <3>2
  <2>7. ASSUME NEW g \in Handle PROVE Unheard(g)' /\ Increasing(g)'
    BY <1>2, <2>1 DEF Unheard, Increasing
  <2>8. ASSUME NEW r \in Request PROVE Quiet(r)'
    <3>1. ASSUME NEW g \in Handle, Awaiting(r), handle[r] = g
          PROVE  /\ feed[g] = << >>
                 /\ \A j \in Channel : captured[j] = g => j # k /\ stage[j] = "idle"
      BY <1>2, <2>1, <3>1 DEF Quiet
    <3>2. Awaiting(r)' = Awaiting(r) /\ \A j \in Channel : j # k => stage'[j] = stage[j]
      BY <1>1, <2>1 DEF Awaiting, UCTypeOK
    <3> QED
      BY <2>1, <3>1, <3>2 DEF Quiet
  <2> QED
    BY <2>6, <2>7, <2>8 DEF Goal
<1>16. ASSUME NEW k \in Channel, Broadcast(k) PROVE Goal
  <2>1. stage[k] = "broadcast" /\ stage' = [stage EXCEPT ![k] = "idle"]
        /\ UNCHANGED <<captured, count, messagesByHandle, phase, handle>>
    BY <1>16 DEF Broadcast, vars
  <2>2. PICK h \in Handle : captured[k] = h
    BY <1>1, <1>2, <2>1 DEF Busy, UCTypeOK
  <2>3. feed' = [feed EXCEPT ![h] = Append(feed[h], count[k])]
    BY <1>16, <2>2 DEF Broadcast
  <2>4. count[k] \in 1..MaxMessages /\ feed[h] \in Seq(1..MaxMessages)
    BY <1>1, <1>2, <2>1, MessagesAssumption DEF Busy, UCTypeOK
  <2>5. \A i \in 1..Len(feed[h]) : feed[h][i] < count[k]
    BY <1>2, <2>1, <2>2 DEF Before
  <2>6. /\ \A i \in 1..Len(feed'[h]) : feed'[h][i] <= count[k]
        /\ \A i, j \in 1..Len(feed'[h]) : i < j => feed'[h][i] < feed'[h][j]
    <3>1. feed'[h] = Append(feed[h], count[k])
      BY <1>1, <2>3 DEF UCTypeOK
    <3> QED
      BY <1>2, <2>4, <2>5, <3>1, MessagesAssumption, AppendIncreasing DEF Increasing
  <2>7. \A g \in Handle : g # h => feed'[g] = feed[g]
    BY <1>1, <2>3 DEF UCTypeOK
  <2>8. \A j \in Channel : captured[j] = h => j = k
    BY <1>1, <2>2 DEF CaptureInv
  <2>9. ASSUME NEW j \in Channel PROVE Before(j)' /\ Stored(j)' /\ Busy(j)'
    <3>1. CASE j = k
      <4>1. feed'[h] = Append(feed[h], count[k])
        BY <1>1, <2>3 DEF UCTypeOK
      <4>2. Elements(feed'[h]) = Elements(feed[h]) \cup {count[k]}
        <5> DEFINE M == 1..MaxMessages
        <5>1. feed[h] \in Seq(M) /\ count[k] \in M
          BY <2>4
        <5> HIDE DEF M
        <5> QED
          BY <4>1, <5>1, ElementsOfAppend
      <4>3. stage'[k] = "idle"
        BY <1>1, <2>1 DEF UCTypeOK
      <4>4. Stored(k)'
        BY <1>2, <2>1, <2>2, <4>2, <4>3 DEF Stored
      <4> QED
        BY <1>1, <1>2, <2>1, <2>2, <2>6, <3>1, <4>3, <4>4 DEF Before, Busy, UCTypeOK
    <3>2. CASE j # k
      BY <1>1, <1>2, <2>1, <2>2, <2>7, <2>8, <3>2 DEF Before, Stored, Busy, UCTypeOK
    <3> QED
      BY <3>1, <3>2
  <2>10. ASSUME NEW g \in Handle PROVE Unheard(g)' /\ Increasing(g)'
    BY <1>2, <2>1, <2>2, <2>6, <2>7 DEF Unheard, Increasing
  <2>11. ASSUME NEW r \in Request PROVE Quiet(r)'
    <3>1. ASSUME NEW g \in Handle, Awaiting(r), handle[r] = g
          PROVE  g # h /\ feed[g] = << >> /\ \A j \in Channel : captured[j] = g => stage[j] = "idle"
      BY <1>2, <2>1, <2>2, <3>1 DEF Quiet
    <3>2. \A j \in Channel : stage[j] = "idle" => stage'[j] = "idle"
      BY <1>1, <2>1 DEF UCTypeOK
    <3>3. Awaiting(r)' => Awaiting(r) /\ handle'[r] = handle[r]
      BY <2>1 DEF Awaiting
    <3> QED
      BY <2>1, <2>7, <3>1, <3>2, <3>3 DEF Quiet
  <2> QED
    BY <2>9, <2>10, <2>11 DEF Goal
<1>17. ASSUME NEW k \in Channel, DeliverRefused(k) \/ BroadcastFails(k) PROVE Goal
  <2>1. /\ stage'[k] = "idle" /\ \A j \in Channel \ {k} : stage'[j] = stage[j]
        /\ count[k] \in Nat /\ count'[k] \in {count[k], count[k] + 1}
        /\ \A j \in Channel \ {k} : count'[j] = count[j]
        /\ UNCHANGED <<captured, messagesByHandle, feed, phase, handle>>
    BY <1>1, <1>17 DEF DeliverRefused, BroadcastFails, UCTypeOK, vars
  <2>2. \A h \in Handle : \A i \in 1..Len(feed[h]) : feed[h][i] \in Nat
    <3>1. \A h \in Handle : feed[h] \in Seq(1..MaxMessages)
      BY <1>1 DEF UCTypeOK
    <3> QED
      BY <3>1, MessagesAssumption, ElementOfSeq
  <2>3. ASSUME NEW j \in Channel PROVE Before(j)' /\ Stored(j)' /\ Busy(j)'
    <3>1. CASE j = k
      <4>1. ASSUME NEW h \in Handle, captured[k] = h, NEW i \in 1..Len(feed[h])
            PROVE  feed[h][i] <= count'[k]
        <5>1. feed[h][i] <= count[k] /\ feed[h][i] \in Nat
          BY <1>2, <2>2, <4>1 DEF Before
        <5> QED
          BY <2>1, <5>1
      <4>2. Before(k)'
        BY <2>1, <4>1 DEF Before
      <4>3. Stored(k)' /\ Busy(k)'
        BY <1>2, <2>1 DEF Stored, Busy
      <4> QED
        BY <3>1, <4>2, <4>3
    <3>2. CASE j # k
      BY <1>2, <2>1, <3>2 DEF Before, Stored, Busy
    <3> QED
      BY <3>1, <3>2
  <2>4. ASSUME NEW h \in Handle PROVE Unheard(h)' /\ Increasing(h)'
    BY <1>2, <2>1 DEF Unheard, Increasing
  <2>5. ASSUME NEW r \in Request PROVE Quiet(r)'
    <3>1. \A j \in Channel : stage[j] = "idle" => stage'[j] = "idle"
      BY <2>1
    <3> QED
      BY <1>2, <2>1, <3>1 DEF Quiet, Awaiting
  <2> QED
    BY <2>3, <2>4, <2>5 DEF Goal
<1>18. ASSUME Environment PROVE Goal
  BY <1>1, <1>4, <1>18 DEF Environment, Cancel, Drop, Recover, Awaiting
<1>19. ASSUME UNCHANGED ucVars PROVE Goal
  BY <1>4, <1>19 DEF ucVars, vars, Awaiting
<1> QED
  BY <1>5, <1>6, <1>7, <1>8, <1>9, <1>10, <1>11, <1>12, <1>13, <1>14, <1>15, <1>16, <1>17,
     <1>18, <1>19
     DEF UCNext, Command, Continue, Callback, Goal

\* Nothing is subscribed in the beginning.
LEMMA UCInitially == UCInit => UCInv
<1> SUFFICES ASSUME UCInit PROVE UCInv
  OBVIOUS
<1>1. IndInv /\ TypeOK
  BY IndInit DEF UCInit, IndInv
<1> USE NoneAssumption, MessagesAssumption DEF UCInit, Init
<1>2. UCTypeOK
  BY <1>1 DEF UCTypeOK, Phases, Outcomes
<1>3. OpInv /\ PhaseInv /\ HandleInv
  BY DEF OpInv, Steps, TeardownSteps, Closing, PhaseInv, PhaseOK, Creating, Replying,
         HandleInv, Private, Announcing
<1>4. CaptureInv
  BY DEF CaptureInv, Creating, Announcing
<1>5. RegistryInv
  BY DEF RegistryInv, CoordinatorKnowsSubscriptions, Registered, Announcing, Removed
<1>6. FeedInv
  BY DEF FeedInv, FeedInOrder, Awaiting
<1> QED
  BY <1>1, <1>2, <1>3, <1>4, <1>5, <1>6 DEF UCInv, BoundInv, CallInv

\* Every step keeps the whole invariant.
LEMMA UCStep == UCInv /\ [UCNext]_ucVars => UCInv'
<1> SUFFICES ASSUME UCInv, [UCNext]_ucVars PROVE UCInv'
  OBVIOUS
<1>1. CallInv /\ BoundInv /\ RegistryInv
  BY DEF UCInv, BoundInv
<1>2. UCTypeOK' /\ IndInv'
  BY <1>1, UCTypeStep, AdapterPart
<1>3. PhaseInv' /\ HandleInv' /\ CaptureInv'
  BY <1>1, PhaseStep, HandleStep, CaptureStep
<1>4. RegistryInv' /\ FeedInv'
  BY <1>1, RegistryStep, FeedStep
<1> QED
  BY <1>2, <1>3, <1>4 DEF UCInv, BoundInv, CallInv

\* The invariant of the application layer, over an adapter that keeps its own.
THEOREM UCInductiveInvariant == UCSpec => []UCInv
BY UCInitially, UCStep, PTL DEF UCSpec

\* Every variable of the application layer keeps its type.
THEOREM UCTypeCorrect == UCSpec => []UCTypeOK
<1>1. UCInv => UCTypeOK
  BY DEF UCInv, BoundInv, CallInv
<1> QED
  BY UCInductiveInvariant, <1>1, PTL

\* SubscriptionCoordinator has a queue for every subscription the adapter consumes for,
\* but between the port's return and Register, whatever is unsubscribed, aborted or
\* disconnected meanwhile.
THEOREM CoordinatorKnows == UCSpec => []CoordinatorKnowsSubscriptions
<1>1. UCInv => CoordinatorKnowsSubscriptions
  BY DEF UCInv, RegistryInv
<1> QED
  BY UCInductiveInvariant, <1>1, PTL

\* SendMessageWithReplyUseCase registers before it sends: once a message that names the
\* reply queue is out, a reply finds its callback and its queue.
THEOREM RepliesAreHeard == UCSpec => []ReplyRaceSafe
<1>1. UCInv => ReplyRaceSafe
  <2> SUFFICES ASSUME UCInv, NEW k \in published
               PROVE  /\ captured[k] # None
                      /\ subscriptionChannels[captured[k]] = k =>
                            messagesByHandle[captured[k]] # None
    BY DEF ReplyRaceSafe
  <2>1. k \in Channel /\ captured[k] \in Handle \cup {None}
    BY DEF UCInv, BoundInv, CallInv, UCTypeOK
  <2>2. captured[k] # None /\ \A r \in Request : Announcing(r) => captured[k] # handle[r]
    BY DEF UCInv, BoundInv, CaptureInv
  <2>3. ASSUME subscriptionChannels[captured[k]] = k PROVE messagesByHandle[captured[k]] # None
    <3>1. captured[k] \in Registered
      BY <2>1, <2>2, <2>3, NoneAssumption DEF Registered
    <3> QED
      BY <2>2, <3>1 DEF UCInv, RegistryInv, CoordinatorKnowsSubscriptions, Announcing
  <2> QED
    BY <2>2, <2>3
<1> QED
  BY UCInductiveInvariant, <1>1, PTL

\* OnMessageReceivedAsync broadcasts what a subscription receives in order, each once.
THEOREM BroadcastInOrder == UCSpec => []FeedInOrder
<1>1. UCInv => FeedInOrder
  BY DEF UCInv, FeedInv
<1> QED
  BY UCInductiveInvariant, <1>1, PTL

\* OnMessageReceivedAsync broadcasts nothing it has not stored, also when the broadcast
\* fails or the subscription is unregistered between look-up and enqueue.
THEOREM FeedFollowsBuffer == UCSpec => []FeedComesFromBuffer
<1>1. UCInv => FeedComesFromBuffer
  BY DEF UCInv, RegistryInv, FeedInv, FeedComesFromBuffer
<1> QED
  BY UCInductiveInvariant, <1>1, PTL

\* The port can still close channel k for h, or it is closed; h and its channel are gone.
Held(h, k) == subscriptionChannels[h] = k \/ chanState[k] = "closed"
\* A subscription of which nothing is left.
Gone(h, k) == subscriptionChannels[h] = None /\ chanState[k] = "closed"

\* Until the clean-up the reply queue can be removed, and after it nothing is left of it;
\* a use case that fails before its try has caught nothing.
ReplyOK(r) == \A k \in Channel, h \in Handle : handle[r] = h =>
    /\ Creating(r) /\ channel[r] = k => Held(h, k)
    /\ queueName[r] = k =>
          /\ phase[r] \in {"registerReply", "publish", "send"} => Held(h, k)
          /\ phase[r] = "cleanup" => /\ pc[r] = "remove" => Held(h, k)
                                     /\ pc[r] = "closeChannel" => channel[r] = k
                                     /\ pc[r] \in {"disposeChannel", "done"} => Gone(h, k)
          /\ phase[r] = "failed" => caught[r] = "ok" \/ Gone(h, k)

\* No reply queue is lost track of, unless its own client goes away.
ReplyInv == \A r \in Request : cancelled[r] \/ ReplyOK(r)

\* Only a failed send is caught, and it has a reply queue to clean up.
CaughtInv == \A r \in Request : caught[r] # "ok" =>
    phase[r] \in {"cleanup", "failed"} /\ queueName[r] # None

\* The catch block is entered from the try, and left with the response.
LEMMA CaughtStep ==
    ASSUME UCInv, CaughtInv, [UCNext]_ucVars
    PROVE  CaughtInv'
<1>1. UCTypeOK /\ TypeOK /\ \A r \in Request : PhaseOK(r)
  BY DEF UCInv, BoundInv, CallInv, UCTypeOK, PhaseInv
<1> USE DEF CaughtInv, UCTypeOK, useCase, Proceed, PortReturned
<1>2. ASSUME NEW r \in Request, Command(r) PROVE CaughtInv'
  <2>1. phase[r] = "none" /\ UNCHANGED <<caught, queueName>>
    BY <1>1, <1>2
       DEF Command, SubscribeCommand, Subscribe, UseConnection, SendWithReplyCommand,
           DeclareReply, OtherCommand, Connect, Disconnect, Send, UnsubscribeCommand,
           Unsubscribe, EnterSend, EnterUnsubscribe, Idle, PhaseOK
  <2>2. \A q \in Request \ {r} : phase'[q] = phase[q]
    BY <1>1, <1>2
       DEF Command, SubscribeCommand, SendWithReplyCommand, OtherCommand, UnsubscribeCommand
  <2> QED
    BY <2>1, <2>2
<1>3. ASSUME NEW r \in Request, PortStep(r) PROVE CaughtInv'
  BY <1>3 DEF PortStep
<1>4. ASSUME NEW r \in Request, SendFailed(r) PROVE CaughtInv'
  <2>1. queueName[r] # None
    BY <1>1, <1>4 DEF SendFailed, PhaseOK, Replying
  <2> QED
    BY <1>1, <1>4, <2>1 DEF SendFailed
<1>5. ASSUME NEW r \in Request, Continue(r), ~SendFailed(r) PROVE CaughtInv'
  BY <1>1, <1>5
     DEF Continue, AssignHandle, RegisterHandle, UnregisterHandle, RejectMessage,
         SendMessage, SendSucceeded, CleanedUp, Failed, Respond
<1>6. ASSUME NEW k \in Channel, Callback(k) PROVE CaughtInv'
  BY <1>6 DEF Callback, Deliver, DeliverRefused, Enqueue, Broadcast, BroadcastFails
<1>7. CASE Environment
  BY <1>7 DEF Environment
<1>8. CASE UNCHANGED ucVars
  BY <1>8 DEF ucVars
<1> QED
  BY <1>2, <1>3, <1>4, <1>5, <1>6, <1>7, <1>8 DEF UCNext

\* Only the request that removes h's entry can take a channel out of reach.
LEMMA HeldStep ==
    ASSUME UCInv, [UCNext]_ucVars, NEW k \in Channel, NEW h \in issued
    PROVE  /\ Gone(h, k) => Gone(h, k)'
           /\ /\ Held(h, k)
              /\ \A q \in Request : handle[q] = h => pc[q] # "remove" \/ pc'[q] = "remove"
             => Held(h, k)'
<1>1. /\ UCTypeOK /\ TypeOK /\ IndInv /\ OpInv
  BY DEF UCInv, BoundInv, CallInv, IndInv, UCTypeOK
<1>2. h \in Handle
  BY <1>1 DEF TypeOK
<1>3. ASSUME subscriptionChannels' = subscriptionChannels,
             chanState[k] = "closed" => chanState'[k] = "closed"
      PROVE  (Gone(h, k) => Gone(h, k)') /\ (Held(h, k) => Held(h, k)')
  BY <1>3 DEF Gone, Held
<1>4. ASSUME NEW r \in Request, PortStep(r)
      PROVE  /\ Gone(h, k) => Gone(h, k)'
             /\ /\ Held(h, k)
                /\ \A q \in Request : handle[q] = h => pc[q] # "remove" \/ pc'[q] = "remove"
               => Held(h, k)'
  <2>1. Frame(r) /\ (Creates(r) \/ Registers(r) \/ Removes(r) \/ Clears(r) \/ Works(r))
    BY <1>1, <1>4, StepEffect DEF PortStep
  <2>2. chanState[k] = "closed" => chanState'[k] = "closed"
    BY <2>1 DEF Frame
  <2>3. CASE Creates(r) \/ Works(r)
    BY <1>3, <2>2, <2>3 DEF Creates, Works
  <2>4. CASE Registers(r)
    BY <1>1, <1>2, <2>2, <2>4 DEF Registers, Gone, Held, TypeOK
  <2>5. CASE Removes(r)
    BY <1>1, <1>2, <2>2, <2>5, NoneAssumption DEF Removes, Gone, Held, TypeOK
  <2>6. CASE Clears(r)
    BY <1>1, <1>2, <2>2, <2>6, NoneAssumption DEF Clears, Gone, Held, TypeOK, Registered
  <2> QED
    BY <2>1, <2>3, <2>4, <2>5, <2>6
<1> USE DEF useCase, coordinator, queues, deliveries, locals, adapter, broker, Goto, Begin,
            Finish, UseConnection, EnterSend, RejectBlankRoutingKey, EnterUnsubscribe
<1>5. ASSUME NEW r \in Request, Command(r) PROVE UNCHANGED <<subscriptionChannels, chanState>>
  BY <1>5
     DEF Command, SubscribeCommand, Subscribe, SendWithReplyCommand, DeclareReply,
         OtherCommand, Connect, Disconnect, Send, UnsubscribeCommand, Unsubscribe
<1>6. ASSUME NEW r \in Request, Continue(r) PROVE UNCHANGED <<subscriptionChannels, chanState>>
  BY <1>6
     DEF Continue, AssignHandle, RegisterHandle, UnregisterHandle, RejectMessage,
         SendMessage, SendSucceeded, SendFailed, CleanedUp, Failed, Respond, Return, vars
<1>7. ASSUME NEW j \in Channel, Callback(j)
      PROVE  UNCHANGED <<subscriptionChannels, chanState>>
  BY <1>7 DEF Callback, Deliver, DeliverRefused, Enqueue, Broadcast, BroadcastFails, vars
<1>8. CASE Environment
  <2>1. /\ subscriptionChannels' = subscriptionChannels
        /\ chanState[k] = "closed" => chanState'[k] = "closed"
    BY <1>1, <1>8 DEF Environment, Cancel, Drop, Recover, ChannelsFollow, TypeOK
  <2> QED
    BY <1>3, <2>1
<1>9. CASE UNCHANGED ucVars
  BY <1>3, <1>9 DEF ucVars, vars
<1> QED
  BY <1>3, <1>4, <1>5, <1>6, <1>7, <1>8, <1>9 DEF UCNext

\* What other requests do to the port leaves the reply queue of r where it was.
LEMMA ReplyFrame ==
    ASSUME UCInv, [UCNext]_ucVars, NEW r \in Request, ReplyOK(r),
           UNCHANGED <<handle[r], channel[r], queueName[r], phase[r], caught[r], pc[r]>>
    PROVE  ReplyOK(r)'
<1>1. ASSUME NEW k \in Channel, NEW h \in Handle, handle[r] = h
      PROVE  /\ Gone(h, k) => Gone(h, k)'
             /\ Private(r) /\ Held(h, k) => Held(h, k)'
  <2>1. h \in issued /\ (Private(r) => \A q \in Request : handle[q] = h => q = r)
    BY <1>1, NoneAssumption DEF UCInv, BoundInv, CallInv, HandleInv
  <2> QED
    BY <2>1, HeldStep
<1>2. Creating(r) \/ phase[r] \in {"registerReply", "publish", "send", "cleanup"} => Private(r)
  BY DEF Creating, Private, Announcing, Replying
<1> QED
  BY <1>1, <1>2 DEF ReplyOK, Creating

\* A send that fails goes through the whole of UnsubscribeAsync before it is rethrown.
LEMMA ReplyStep ==
    ASSUME UCInv, ReplyInv, CaughtInv, [UCNext]_ucVars
    PROVE  ReplyInv'
<1>1. /\ UCTypeOK /\ TypeOK /\ IndInv /\ OpInv /\ HandleInv /\ CaptureInv /\ RegistryInv
      /\ \A r \in Request : PhaseOK(r) /\ (cancelled[r] \/ ReplyOK(r))
  BY DEF UCInv, BoundInv, CallInv, IndInv, UCTypeOK, PhaseInv, ReplyInv
<1> DEFINE Still(q) ==
             /\ UNCHANGED <<handle[q], channel[q], queueName[q], phase[q], caught[q], pc[q]>>
             /\ cancelled[q] => cancelled'[q]
<1>2. ASSUME NEW r \in Request, \A q \in Request \ {r} : Still(q),
             cancelled[r] => cancelled'[r] \/ ReplyOK(r)', ~cancelled[r] => ReplyOK(r)'
      PROVE  ReplyInv'
  <2>1. \A q \in Request \ {r} : cancelled'[q] \/ ReplyOK(q)'
    BY <1>1, <1>2, ReplyFrame
  <2> QED
    BY <1>2, <2>1 DEF ReplyInv
<1>3. ASSUME \A q \in Request : Still(q) PROVE ReplyInv'
  BY <1>1, <1>3, ReplyFrame DEF ReplyInv
<1>4. ASSUME NEW k \in Channel, NEW h \in Handle, NEW r \in Request, handle[r] = h
      PROVE  /\ Gone(h, k) => Gone(h, k)'
             /\ Private(r) /\ Held(h, k) /\ pc[r] # "remove" => Held(h, k)'
  <2>1. h \in issued /\ (Private(r) => \A q \in Request : handle[q] = h => q = r)
    BY <1>1, <1>4, NoneAssumption DEF HandleInv
  <2> QED
    BY <2>1, HeldStep
<1> USE NoneAssumption
        DEF useCase, coordinator, queues, deliveries, locals, adapter, broker, Proceed,
            Goto, Finish, Idle, Begin, UseConnection, EnterSend, RejectBlankRoutingKey,
            EnterUnsubscribe, UCTypeOK, TypeOK, Creating, PortReturned
<1>5. ASSUME NEW r \in Request, SubscribeCommand(r) \/ SendWithReplyCommand(r) \/ OtherCommand(r)
      PROVE  ReplyInv'
  <2>1. handle[r] = None
    BY <1>1, <1>5
       DEF PhaseOK, SubscribeCommand, SendWithReplyCommand, Subscribe, DeclareReply,
           OtherCommand, Connect, Disconnect, Send
  <2>2. handle' = handle /\ cancelled' = cancelled
    BY <1>5
       DEF SubscribeCommand, SendWithReplyCommand, Subscribe, DeclareReply, OtherCommand,
           Connect, Disconnect, Send
  <2>3. ReplyOK(r)'
    BY <2>1, <2>2 DEF ReplyOK
  <2>4. \A q \in Request \ {r} :
           UNCHANGED <<channel[q], queueName[q], phase[q], caught[q], pc[q]>>
    BY <1>1, <1>5
       DEF SubscribeCommand, SendWithReplyCommand, Subscribe, DeclareReply, OtherCommand,
           Connect, Disconnect, Send
  <2> QED
    BY <1>1, <1>2, <2>2, <2>3, <2>4
<1>6. ASSUME NEW r \in Request, NEW g \in known, UnsubscribeCommand(r, g) PROVE ReplyInv'
  <2>1. phase'[r] = "unsubscribe"
    BY <1>1, <1>6 DEF UnsubscribeCommand, Unsubscribe
  <2>2. ReplyOK(r)'
    BY <2>1 DEF ReplyOK
  <2> QED
    BY <1>1, <1>2, <1>6, <2>2 DEF UnsubscribeCommand, Unsubscribe
<1>7. ASSUME NEW r \in Request, PortStep(r) PROVE ReplyInv'
  <2>1. Frame(r) /\ (Creates(r) \/ Registers(r) \/ Removes(r) \/ Clears(r) \/ Works(r))
    BY <1>1, <1>7, StepEffect DEF PortStep
  <2>2. UNCHANGED <<phase, queueName, op>>
    BY <1>7, <2>1 DEF PortStep, Frame
  <2>3. pc[r] \notin {"idle", "done"} /\ pc'[r] # "idle" /\ pc'[r] \in Steps /\ OpInv'
    BY <1>1, <2>1, AdapterPart DEF Frame, UCInv, BoundInv, IndInv
  <2>4. phase[r] \in {"none", "subscribe", "declare", "unsubscribe", "send", "cleanup"}
    BY <1>1, <2>3 DEF PhaseOK, Phases
  <2>5. phase[r] = "cleanup" => pc[r] \in {"remove", "closeChannel", "disposeChannel"}
                             /\ pc'[r] \in {"remove", "closeChannel", "disposeChannel", "done"}
    <3>1. phase[r] = "cleanup" => op[r] = "unsubscribe" /\ op'[r] = "unsubscribe"
      BY <1>1, <2>2 DEF PhaseOK
    <3>2. op[r] = "unsubscribe" => pc[r] \in {"remove", "closeChannel", "disposeChannel"}
      BY <1>1, <2>3 DEF OpInv, Steps, TeardownSteps
    <3>3. op'[r] = "unsubscribe" => pc'[r] \in {"remove", "closeChannel", "disposeChannel", "done"}
      BY <2>3 DEF OpInv, Steps, TeardownSteps
    <3> QED
      BY <3>1, <3>2, <3>3
  <2>6. ASSUME ~cancelled[r] PROVE ReplyOK(r)'
    <3>0. ReplyOK(r)
      BY <1>1, <2>6
    <3> SUFFICES ASSUME NEW k \in Channel, NEW h \in Handle, handle'[r] = h
                 PROVE  /\ Creating(r) /\ channel'[r] = k => Held(h, k)'
                        /\ queueName[r] = k =>
                             /\ phase[r] = "send" => Held(h, k)'
                             /\ phase[r] = "cleanup" =>
                                   /\ pc'[r] = "remove" => Held(h, k)'
                                   /\ pc'[r] = "closeChannel" => channel'[r] = k
                                   /\ pc'[r] \in {"disposeChannel", "done"} => Gone(h, k)'
      BY <2>2, <2>4 DEF ReplyOK
    <3>1. CASE Creates(r)
      BY <1>1, <3>0, <1>4, <2>1, <2>2, <2>3, <2>5, <3>1
         DEF Creates, ReplyOK, PhaseOK, OpInv, Private, Replying
    <3>2. CASE Registers(r)
      BY <1>1, <3>0, <2>2, <2>5, <3>2 DEF Registers, Held, PhaseOK, OpInv
    <3>3. CASE Removes(r)
      <4>1. op[r] = "unsubscribe" /\ handle[r] = h
        BY <1>1, <3>0, <3>3 DEF Removes, OpInv
      <4>2. phase[r] \notin {"subscribe", "declare", "send"}
        BY <1>1, <3>0, <4>1 DEF PhaseOK
      <4>3. ASSUME queueName[r] = k, phase[r] = "cleanup"
            PROVE  /\ subscriptionChannels[h] = None => chanState[k] = "closed"
                   /\ subscriptionChannels[h] \in {k, None}
        BY <1>1, <3>0, <3>3, <4>1, <4>3
           DEF ReplyOK, PhaseOK, CaptureInv, Bound, Removes, Held
      <4>4. subscriptionChannels'[h] = None /\ (chanState[k] = "closed" => chanState'[k] = "closed")
        BY <1>1, <3>0, <2>1, <3>3, <4>1 DEF Removes, Frame
      <4> QED
        BY <1>1, <3>0, <3>3, <4>1, <4>2, <4>3, <4>4 DEF Removes, Gone
    <3>4. CASE Clears(r)
      BY <1>1, <3>0, <2>2, <2>4, <3>4 DEF Clears, PhaseOK
    <3>5. CASE Works(r)
      <4>1. handle[r] = h
        BY <3>5 DEF Works
      <4>2. Creating(r) => handle[r] = None
        BY <1>1, <3>0, <2>3 DEF PhaseOK
      <4>3. phase[r] = "send" /\ queueName[r] = k => Held(h, k)'
        <5>1. phase[r] = "send" => Private(r) /\ pc[r] # "remove"
          BY <1>1 DEF Private, Replying, PhaseOK, OpInv
        <5> QED
          BY <1>1, <3>0, <1>4, <4>1, <5>1 DEF ReplyOK
      <4>4. ASSUME phase[r] = "cleanup", queueName[r] = k
            PROVE  /\ pc'[r] = "remove" => Held(h, k)'
                   /\ pc'[r] = "closeChannel" => channel'[r] = k
                   /\ pc'[r] \in {"disposeChannel", "done"} => Gone(h, k)'
        <5>1. pc'[r] \notin {"remove", "closeChannel"}
          BY <2>3, <3>5 DEF Works, Closing
        <5>2. CASE pc[r] = "disposeChannel"
          BY <1>1, <3>0, <1>4, <4>1, <4>4, <5>1, <5>2 DEF ReplyOK
        <5>3. CASE pc[r] = "closeChannel"
          <6>1. channel[r] = k /\ subscriptionChannels[h] = None
            BY <1>1, <3>0, <4>1, <4>4, <5>3 DEF ReplyOK, RegistryInv, Removed, Closing
          <6>2. chanState'[k] = "closed" /\ subscriptionChannels' = subscriptionChannels
            BY <1>1, <2>6, <3>5, <5>3, <6>1 DEF Works
          <6> QED
            BY <5>1, <6>1, <6>2 DEF Gone
        <5>4. CASE pc[r] = "remove"
          BY <1>1, <2>6, <3>5, <5>4 DEF Works
        <5> QED
          BY <2>5, <4>4, <5>2, <5>3, <5>4
      <4> QED
        BY <4>1, <4>2, <4>3, <4>4
    <3> QED
      BY <2>1, <3>1, <3>2, <3>3, <3>4, <3>5
  <2>7. \A q \in Request \ {r} : Still(q)
    <3>1. UNCHANGED cancelled /\ \A q \in Request \ {r} : UNCHANGED <<handle[q], channel[q], pc[q]>>
      BY <2>1 DEF Frame
    <3>2. caught' = caught
      BY <1>7 DEF PortStep
    <3> QED
      BY <2>2, <3>1, <3>2
  <2>8. cancelled' = cancelled
    BY <2>1 DEF Frame
  <2> QED
    BY <1>2, <2>6, <2>7, <2>8
<1>8. ASSUME NEW r \in Request, AssignHandle(r) PROVE ReplyInv'
  <2>1. Creating(r) /\ pc[r] = "done" /\ Private(r)
    BY <1>8 DEF AssignHandle, Private, Announcing
  <2>2. ASSUME ~cancelled[r] PROVE ReplyOK(r)'
    <3>1. /\ handle' = handle /\ ~Creating(r)'
          /\ queueName'[r] = queueName[r] \/ queueName'[r] = channel[r]
          /\ phase'[r] \in {"register", "registerReply"}
          /\ (phase'[r] = "registerReply" => queueName'[r] = channel[r])
      BY <1>1, <1>8 DEF AssignHandle, vars
    <3> QED
      BY <1>1, <1>4, <2>1, <2>2, <3>1 DEF ReplyOK
  <2> QED
    BY <1>1, <1>2, <1>8, <2>2 DEF AssignHandle, vars
<1>9. ASSUME NEW r \in Request, RegisterHandle(r) \/ SendMessage(r) \/ SendSucceeded(r)
      PROVE  ReplyInv'
  <2>1. /\ UNCHANGED <<handle, queueName>>
        /\ phase'[r] \in {"complete", "publish", "send"}
        /\ phase'[r] \in {"publish", "send"} =>
              phase[r] \in {"registerReply", "publish"} /\ pc[r] = "done"
    BY <1>1, <1>9 DEF RegisterHandle, SendMessage, SendSucceeded, PhaseOK, vars
  <2>2. phase[r] \in {"registerReply", "publish"} => Private(r)
    BY DEF Private, Replying
  <2>3. ASSUME ~cancelled[r] PROVE ReplyOK(r)'
    BY <1>1, <1>4, <2>1, <2>2, <2>3 DEF ReplyOK
  <2>4. /\ UNCHANGED <<channel, cancelled, caught>>
        /\ \A q \in Request \ {r} : UNCHANGED <<phase[q], pc[q]>>
    BY <1>1, <1>9 DEF RegisterHandle, SendMessage, SendSucceeded, vars
  <2> QED
    BY <1>1, <1>2, <2>1, <2>3, <2>4
<1>10. ASSUME NEW r \in Request, SendFailed(r) PROVE ReplyInv'
  <2>1. /\ UNCHANGED <<handle, queueName>>
        /\ phase'[r] = "cleanup" /\ pc'[r] = "remove" /\ phase[r] = "send" /\ pc[r] = "done"
    BY <1>1, <1>10 DEF SendFailed
  <2>2. ASSUME ~cancelled[r] PROVE ReplyOK(r)'
    BY <1>1, <1>4, <2>1, <2>2 DEF ReplyOK, Private, Replying
  <2> QED
    BY <1>1, <1>2, <1>10, <2>2 DEF SendFailed
<1>11. ASSUME NEW r \in Request,
              UnregisterHandle(r) \/ RejectMessage(r) \/ CleanedUp(r) \/ Failed(r)
       PROVE  ReplyInv'
  <2>1. /\ UNCHANGED <<handle, queueName, caught, pc>> /\ pc[r] = "done"
        /\ phase'[r] \in {"complete", "failed"}
        /\ phase'[r] = "failed" => \/ phase[r] \in {"subscribe", "declare", "unsubscribe", "cleanup"}
                                   \/ phase[r] = "publish" /\ caught[r] = "ok"
    BY <1>1, <1>11
       DEF UnregisterHandle, RejectMessage, CleanedUp, Failed, CaughtInv, PhaseOK, vars
  <2>2. phase[r] \in {"subscribe", "declare", "unsubscribe"} => queueName[r] = None
    BY <1>1 DEF PhaseOK, Replying
  <2>3. ASSUME ~cancelled[r] PROVE ReplyOK(r)'
    BY <1>1, <1>4, <2>1, <2>2, <2>3 DEF ReplyOK
  <2>4. UNCHANGED <<channel, cancelled>> /\ \A q \in Request \ {r} : phase'[q] = phase[q]
    BY <1>1, <1>11 DEF UnregisterHandle, RejectMessage, CleanedUp, Failed, vars
  <2> QED
    BY <1>1, <1>2, <2>1, <2>3, <2>4
<1>12. ASSUME NEW r \in Request, Respond(r) PROVE ReplyInv'
  <2>1. handle'[r] = None
    BY <1>1, <1>12 DEF Respond, Return
  <2>2. ReplyOK(r)'
    BY <2>1 DEF ReplyOK
  <2> QED
    BY <1>1, <1>2, <1>12, <2>2 DEF Respond, Return
<1>13. ASSUME NEW k \in Channel, Callback(k) PROVE ReplyInv'
  BY <1>3, <1>13
     DEF Callback, Deliver, DeliverRefused, Enqueue, Broadcast, BroadcastFails, vars
<1>14. CASE Environment
  <2>1. UNCHANGED <<handle, channel, queueName, phase, caught, pc>>
    BY <1>14 DEF Environment, Cancel, Drop, Recover
  <2>2. \A q \in Request : cancelled[q] => cancelled'[q]
    <3>1. CASE \E r \in Request : Cancel(r)
      <4> PICK r \in Request : Cancel(r)
        BY <3>1
      <4>1. cancelled' = [cancelled EXCEPT ![r] = TRUE]
        BY DEF Cancel
      <4>2. cancelled \in [Request -> BOOLEAN]
        BY <1>1 DEF TypeOK
      <4> QED
        BY <4>1, <4>2
    <3>2. CASE \E c \in Conn : Drop(c) \/ Recover(c)
      <4>1. cancelled' = cancelled
        BY <3>2 DEF Drop, Recover
      <4> QED
        BY <4>1
    <3> QED
      BY <1>14, <3>1, <3>2 DEF Environment
  <2> QED
    BY <1>3, <2>1, <2>2
<1>15. CASE UNCHANGED ucVars
  BY <1>3, <1>15 DEF ucVars, vars
<1> QED
  BY <1>5, <1>6, <1>7, <1>8, <1>9, <1>10, <1>11, <1>12, <1>13, <1>14, <1>15
     DEF UCNext, Command, Continue

\* SendMessageWithReplyUseCase cleans up after a failed send: whatever is disconnected, lost,
\* refused or delivered meanwhile, no consumer and no dictionary entry of its reply queue is
\* left when it rethrows what it caught, unless its own client aborts the clean-up.
THEOREM FailedSendCleansUp == UCSpec => []CaughtSendLeavesNoReplyQueue
<1>1. UCInit => ReplyInv /\ CaughtInv
  BY NoneAssumption DEF UCInit, Init, ReplyInv, ReplyOK, CaughtInv
<1>2. UCInv /\ ReplyInv /\ CaughtInv /\ [UCNext]_ucVars => ReplyInv' /\ CaughtInv'
  BY ReplyStep, CaughtStep
<1>3. UCInv /\ ReplyInv /\ CaughtInv => CaughtSendLeavesNoReplyQueue
  <2> SUFFICES ASSUME UCInv, ReplyInv, CaughtInv, NEW r \in Request,
                      phase[r] = "failed", caught[r] # "ok", ~cancelled[r]
               PROVE  QueueGone(queueName[r])
    BY DEF CaughtSendLeavesNoReplyQueue
  <2>1. PICK k \in Channel, h \in Handle : queueName[r] = k /\ handle[r] = h /\ captured[k] = h
    BY DEF CaughtInv, UCInv, BoundInv, CallInv, UCTypeOK, TypeOK, PhaseInv, PhaseOK
  <2>2. Gone(h, k) /\ Bound(k, h)
    BY <2>1 DEF ReplyInv, ReplyOK, UCInv, BoundInv, CaptureInv
  <2> QED
    BY <2>1, <2>2, NoneAssumption DEF Gone, Bound, Alive, QueueGone
<1> QED
  BY UCInductiveInvariant, <1>1, <1>2, <1>3, PTL DEF UCSpec
=============================================================================
