-------------------------- MODULE ConnectPanelProofs --------------------------
(***************************************************************************)
(* Theorems about ConnectPanel, for every number of requests, connections  *)
(* and channels: the panel is pending only while its request is under way; *)
(* and as long as no two connects or disconnects overlap, a panel that     *)
(* says connected has a connection and a failed connect leaves none.  The  *)
(* last two need PanelSafe, over the adapter's IndInv and ConnectionInv.   *)
(***************************************************************************)
EXTENDS ConnectPanel, RabbitMqAdapterProofs

\* A panel waits for a request of its own, or for none.
PanelInv ==
    /\ pc \in [Request -> Steps] /\ op \in [Request -> Ops]
    /\ request \in Request \cup {None}
    /\ PendingMeansWaiting

\* A step of a request moves this request on; its method stays what it is.
LEMMA StepMovesOn ==
    ASSUME NEW r \in Request, pc \in [Request -> Steps], Step(r)
    PROVE  UNCHANGED op /\ \E l \in Steps \ {"idle"} : pc' = [pc EXCEPT ![r] = l]
<1> USE DEF Goto, Finish, Steps, TeardownSteps
<1>1. CASE TeardownLock(r) \/ TeardownChannel(r) \/ TeardownChannelClosed(r)
  BY <1>1 DEF TeardownLock, TeardownChannel, TeardownChannelClosed
<1>2. CASE TeardownChannelThrows(r) \/ TeardownClear(r) \/ TeardownCheck(r)
  BY <1>2 DEF TeardownChannelThrows, TeardownClear, TeardownCheck, TeardownReturns
<1>3. CASE NullReference(r) \/ TeardownIsOpen(r) \/ TeardownClose(r) \/ TeardownCloseLate(r)
  BY <1>3 DEF NullReference, TeardownIsOpen, TeardownClose, TeardownCloseLate
<1>4. CASE TeardownDispose(r) \/ TeardownNull(r)
  BY <1>4 DEF TeardownDispose, TeardownNull, TeardownReturns
<1>5. CASE ConnectOpen(r) \/ ConnectUnreachable(r)
  BY <1>5 DEF ConnectOpen, ConnectUnreachable
<1>6. CASE CreateChannel(r)
  BY <1>6 DEF CreateChannel
<1>7. CASE CreateChannelFails(r) \/ DeclareQueue(r) \/ Consume(r)
  BY <1>7 DEF CreateChannelFails, DeclareQueue, Consume
<1>8. CASE WireFails(r) \/ RegisterSubscription(r)
  BY <1>8 DEF WireFails, RegisterSubscription
<1>9. CASE RemoveSubscription(r) \/ CloseUnsubscribed(r) \/ CloseUnsubscribedThrows(r)
  BY <1>9 DEF RemoveSubscription, CloseUnsubscribed, CloseUnsubscribedThrows
<1>10. CASE DisposeUnsubscribed(r) \/ DeclareExchange(r) \/ Publish(r)
  BY <1>10 DEF DisposeUnsubscribed, DeclareExchange, Publish
<1>11. CASE SendFails(r) \/ SendCancelled(r) \/ DisposeSend(r) \/ AwaitCancelled(r)
  BY <1>11 DEF SendFails, SendCancelled, DisposeSend, AwaitCancelled
<1> QED
  BY <1>1, <1>2, <1>3, <1>4, <1>5, <1>6, <1>7, <1>8, <1>9, <1>10, <1>11
     DEF Step, TeardownStep, SubscribeStep

\* Calls start at an idle request.
LEMMA CallStarts ==
    ASSUME NEW r \in Request, pc \in [Request -> Steps], op \in [Request -> Ops],
           Subscribe(r) \/ DeclareReply(r) \/ Send(r) \/ \E h \in issued : Unsubscribe(r, h)
    PROVE  /\ pc[r] = "idle"
           /\ \E l \in Steps : pc' = [pc EXCEPT ![r] = l]
           /\ \E o \in Ops \ {"connect", "disconnect"} : op' = [op EXCEPT ![r] = o]
<1> USE DEF Goto, Finish, Steps, TeardownSteps, Ops, Idle, UseConnection
<1>1. CASE Subscribe(r) \/ DeclareReply(r)
  BY <1>1 DEF Subscribe, DeclareReply
<1>2. CASE Send(r)
  BY <1>2 DEF Send, EnterSend, RejectBlankRoutingKey
<1>3. ASSUME NEW h \in issued, Unsubscribe(r, h)
      PROVE  /\ pc[r] = "idle"
             /\ \E l \in Steps : pc' = [pc EXCEPT ![r] = l]
             /\ \E o \in Ops \ {"connect", "disconnect"} : op' = [op EXCEPT ![r] = o]
  BY <1>3 DEF Unsubscribe, EnterUnsubscribe, Begin
<1> QED
  BY <1>1, <1>2, <1>3

\* No step leaves a panel pending without a request.
LEMMA PanelStep ==
    ASSUME PanelInv, [CPNext]_cpVars
    PROVE  PanelInv'
<1> USE DEF PanelInv, PendingMeansWaiting, panel, vars
<1>1. ASSUME NEW r \in Request, connect(r) PROVE PanelInv'
  <2>1. \E l \in Steps \ {"idle"} : pc' = [pc EXCEPT ![r] = l]
    BY <1>1 DEF connect, Connect, RejectConfig, Begin, Goto, Finish, Steps, TeardownSteps
  <2>2. op' = [op EXCEPT ![r] = "connect"]
    BY <1>1 DEF connect, Connect, RejectConfig, Begin
  <2> QED
    BY <1>1, <2>1, <2>2, NoneAssumption DEF connect, Waits, Ops
<1>2. ASSUME NEW r \in Request, disconnect(r) PROVE PanelInv'
  <2>1. \E l \in Steps \ {"idle"} : pc' = [pc EXCEPT ![r] = l]
    BY <1>2 DEF disconnect, Disconnect, Begin, Goto, Steps, TeardownSteps
  <2>2. op' = [op EXCEPT ![r] = "disconnect"]
    BY <1>2 DEF disconnect, Disconnect, Begin
  <2> QED
    BY <1>2, <2>1, <2>2, NoneAssumption DEF disconnect, Waits, Ops
<1>3. ASSUME NEW r \in Request, Return(r) PROVE
        /\ pc' = [pc EXCEPT ![r] = "idle"] /\ op' = [op EXCEPT ![r] = "disconnect"]
        /\ pc' \in [Request -> Steps] /\ op' \in [Request -> Ops]
  BY <1>3 DEF Return, Goto, Steps, Ops
<1>4. ASSUME NEW r \in Request, Answered(r) PROVE PanelInv'
  BY <1>3, <1>4 DEF Answered, Settled
<1>5. ASSUME NEW r, Abandon(r) PROVE UNCHANGED <<pc, op>>
  BY <1>5 DEF Abandon, Cancel
<1>6. ASSUME NEW r \in Request, AnswerLost(r) PROVE PanelInv'
  BY <1>5, <1>6 DEF AnswerLost, Settled
<1>7. CASE Reload
  BY <1>5, <1>7 DEF Reload
<1>8. ASSUME NEW r \in Request, AdapterStep(r) PROVE PanelInv'
  BY <1>8, StepMovesOn DEF AdapterStep
<1>9. ASSUME NEW r \in Request, OtherRequest(r) PROVE PanelInv'
  <2>1. CASE Subscribe(r) \/ DeclareReply(r) \/ Send(r) \/ \E h \in issued : Unsubscribe(r, h)
    BY <1>9, <2>1, CallStarts DEF OtherRequest
  <2>2. CASE r # request /\ Return(r)
    BY <1>3, <1>9, <2>2 DEF OtherRequest
  <2>3. CASE r # request /\ Cancel(r)
    BY <1>9, <2>3 DEF OtherRequest, Cancel
  <2> QED
    BY <1>9, <2>1, <2>2, <2>3 DEF OtherRequest
<1>10. ASSUME NEW c \in Conn, Drop(c) \/ Recover(c), UNCHANGED panel PROVE PanelInv'
  BY <1>10 DEF Drop, Recover
<1>11. CASE UNCHANGED cpVars
  BY <1>11 DEF cpVars
<1> QED
  BY <1>1, <1>2, <1>4, <1>6, <1>7, <1>8, <1>9, <1>10, <1>11 DEF CPNext

\* The panel is pending exactly while a connect or disconnect of its own is in flight,
\* through lost answers, reloads and whatever the other requests do.
THEOREM PendingIsWaiting == CPSpec => []PendingMeansWaiting
<1>1. CPInit => PanelInv
  <2> SUFFICES ASSUME CPInit PROVE PanelInv
    OBVIOUS
  <2>1. pc \in [Request -> Steps] /\ op \in [Request -> Ops]
    BY DEF CPInit, Init, Steps, Ops
  <2>2. ~pending /\ request = None
    BY DEF CPInit
  <2>3. pending = (request # None)
    BY DEF CPInit
  <2> QED
    BY <2>1, <2>2, <2>3 DEF PanelInv, PendingMeansWaiting
<1>2. PanelInv => PendingMeansWaiting
  BY DEF PanelInv
<1> QED
  BY <1>1, <1>2, PanelStep, PTL DEF CPSpec

\* Only connects and disconnects touch the connection, and a connect ends as the field says.
LEMMA LifecycleEffect ==
    ASSUME TypeOK, OpInv, NEW r \in Request, Step(r)
    PROVE  /\ op[r] \notin {"connect", "disconnect"} => UNCHANGED <<connection, connState>>
           /\ op[r] = "connect" /\ pc'[r] = "done" =>
                 /\ outcome'[r] = "ok" => HasConnection'
                 /\ outcome'[r] = "connection" => pc[r] = "connecting" /\ connection' = connection
<1> DEFINE Effect ==
             /\ op[r] \notin {"connect", "disconnect"} => UNCHANGED <<connection, connState>>
             /\ op[r] = "connect" /\ pc'[r] = "done" =>
                   /\ outcome'[r] = "ok" => HasConnection'
                   /\ outcome'[r] = "connection" => pc[r] = "connecting" /\ connection' = connection
<1> USE NoneAssumption
        DEF TypeOK, OpInv, HasConnection, Alive, TeardownSteps, Closing, locals, adapter,
            broker, Goto, Finish, CloseConn, CloseChan
<1>1. CASE TeardownLock(r) \/ TeardownChannel(r) \/ TeardownChannelClosed(r)
  BY <1>1 DEF TeardownLock, TeardownChannel, TeardownChannelClosed
<1>2. CASE TeardownChannelThrows(r) \/ TeardownClear(r)
  BY <1>2 DEF TeardownChannelThrows, TeardownClear
<1>3. CASE TeardownCheck(r) \/ NullReference(r) \/ TeardownIsOpen(r)
  BY <1>3 DEF TeardownCheck, NullReference, TeardownIsOpen, TeardownReturns
<1>4. CASE TeardownClose(r) \/ TeardownCloseLate(r)
  BY <1>4 DEF TeardownClose, TeardownCloseLate
<1>5. CASE TeardownDispose(r) \/ TeardownNull(r)
  BY <1>5 DEF TeardownDispose, TeardownNull, TeardownReturns
<1>6. CASE ConnectOpen(r) \/ ConnectUnreachable(r)
  BY <1>6 DEF ConnectOpen, ConnectUnreachable
<1>7. CASE CreateChannel(r) \/ CreateChannelFails(r) \/ DeclareQueue(r) \/ Consume(r)
  BY <1>7 DEF CreateChannel, CreateChannelFails, DeclareQueue, Consume
<1>8. CASE WireFails(r) \/ RegisterSubscription(r) \/ RemoveSubscription(r)
  BY <1>8 DEF WireFails, RegisterSubscription, RemoveSubscription
<1>9. CASE CloseUnsubscribed(r) \/ CloseUnsubscribedThrows(r) \/ DisposeUnsubscribed(r)
  BY <1>9 DEF CloseUnsubscribed, CloseUnsubscribedThrows, DisposeUnsubscribed
<1>10. CASE DeclareExchange(r) \/ Publish(r) \/ SendFails(r) \/ SendCancelled(r) \/ DisposeSend(r)
  BY <1>10 DEF DeclareExchange, Publish, SendFails, SendCancelled, DisposeSend
<1>11. CASE AwaitCancelled(r)
  BY <1>11 DEF AwaitCancelled
<1> QED
  BY <1>1, <1>2, <1>3, <1>4, <1>5, <1>6, <1>7, <1>8, <1>9, <1>10, <1>11
     DEF Step, TeardownStep, SubscribeStep

\* A configuration refused on the way changes nothing in the adapter.
LEMMA RejectStep ==
    ASSUME IndInv, NEW r \in Request, RejectConfig(r)
    PROVE  IndInv' /\ (ConnectionInv => ConnectionInv')
<1> USE DEF RejectConfig, IndInv, TypeOK, Idle, Finish, Steps, TeardownSteps, Ops, Outcomes,
            locals, adapter, broker, history
<1>1. TypeOK'
  OBVIOUS
<1>2. LocalsInv' /\ LockInv'
  BY DEF LocalsInv, LockInv, Owns, Registered
<1>3. ChannelInv' /\ OpInv'
  BY DEF ChannelInv, Owns, Registered, OpInv, Closing
<1>4. TrackedInv' /\ RacedInv'
  BY DEF TrackedInv, RacedInv
<1>5. ConnectionInv => ConnectionInv'
  BY DEF ConnectionInv, NoOrphanedConnection, TeardownSeesConnection, Alive
<1> QED
  BY <1>1, <1>2, <1>3, <1>4, <1>5

\* Beside that the panel and its answers are calls and steps of the adapter.
LEMMA PanelCalls ==
    ASSUME PanelInv, [CPNext]_cpVars
    PROVE  [Next]_vars \/ \E r \in Request : RejectConfig(r)
<1>1. ASSUME NEW r \in Request, connect(r) \/ disconnect(r)
      PROVE  [Next]_vars \/ \E q \in Request : RejectConfig(q)
  BY <1>1 DEF connect, disconnect, Next, Call
<1>2. ASSUME NEW r \in Request, Answered(r) \/ AnswerLost(r) \/ AdapterStep(r)
      PROVE  [Next]_vars
  BY <1>2 DEF Answered, AnswerLost, Abandon, AdapterStep, Next
<1>3. ASSUME NEW r \in Request, OtherRequest(r)
      PROVE  [Next]_vars
  BY <1>3 DEF OtherRequest, Next, Call
<1>4. ASSUME PanelInv, Reload PROVE [Next]_vars
  BY <1>4 DEF Reload, Abandon, Next, PanelInv
<1>5. ASSUME NEW c \in Conn, Drop(c) \/ Recover(c) PROVE [Next]_vars
  BY <1>5 DEF Next
<1> QED
  BY <1>1, <1>2, <1>3, <1>4, <1>5 DEF CPNext, cpVars

-----------------------------------------------------------------------------
(* The panel against the connection the process holds *)

\* Rest is what PanelSafe says beside ConnectionInv. A click begins the only lifecycle
\* request there is; the answer to it, or its loss, leaves none that counts; and what the
\* adapter does for another request touches neither the connection nor the panel.
LEMMA PanelSafeStep ==
    ASSUME IndInv, PanelInv, PanelSafe, [CPNext]_cpVars
    PROVE  PanelSafe'
<1> DEFINE Serial == \A r1, r2 \in Request : Lifecycle(r1) /\ Lifecycle(r2) => r1 = r2
           Quiet == \A r \in Request : ~Lifecycle(r)
           Own == request # None => \A r \in Request : Lifecycle(r) => r = request
           Result == request # None /\ pc[request] = "done" /\ op[request] = "connect" =>
                        /\ outcome[request] = "ok" => HasConnection
                        /\ outcome[request] = "connection" => connection = None
           Settles == connected /\ request = None => HasConnection /\ Quiet
           Failure == errorMessage = "connection" =>
                         ~connected /\ request = None /\ connection = None /\ Quiet
           Rest == Serial /\ Own /\ Result /\ Settles /\ Failure
<1>1. /\ TypeOK /\ OpInv /\ IndInv'
      /\ pending = (request # None) /\ request \in Request \cup {None}
      /\ pending => pc[request] # "idle" /\ op[request] \in {"connect", "disconnect"}
  <2>1. IndInv'
    BY PanelCalls, IndStep, RejectStep
  <2> QED
    BY <2>1 DEF IndInv, PanelInv, PendingMeansWaiting
<1>2. ~overlapped => ConnectionInv /\ Rest
  BY DEF PanelSafe
<1>3. SUFFICES ASSUME ~overlapped' PROVE ConnectionInv' /\ Rest'
  BY DEF PanelSafe
<1>4. ASSUME ~overlapped PROVE ConnectionInv'
  <2>1. \A r1, r2 \in Request : TearingDown(r1) /\ TearingDown(r2) => r1 = r2
    BY <1>1, <1>2, <1>4 DEF TearingDown, Lifecycle, OpInv, TeardownSteps
  <2> QED
    BY <1>2, <1>4, <2>1, PanelCalls, ConnectionStep, RejectStep DEF IndInv
<1> HIDE DEF Rest
<1> USE NoneAssumption, ErrorAssumption
        DEF Idle, Begin, Goto, Finish, locals, adapter, broker, panel, vars, Outcomes,
            TypeOK
<1>5. ASSUME NEW r \in Request, connect(r) PROVE ConnectionInv' /\ Rest'
  <2>1. ~overlapped /\ Quiet /\ request = None
    BY <1>1, <1>3, <1>5 DEF connect, Waits
  <2>2. /\ request' = r /\ connected' = FALSE /\ errorMessage' = None
        /\ pc' = [pc EXCEPT ![r] = pc'[r]] /\ op' = [op EXCEPT ![r] = "connect"]
        /\ pc'[r] = "done" => outcome'[r] = "fault"
    BY <1>1, <1>5 DEF connect, Connect, RejectConfig, Waits
  <2>3. \A q \in Request : Lifecycle(q)' => q = r
    BY <1>1, <2>1, <2>2 DEF Lifecycle
  <2>4. Serial' /\ Own'
    BY <2>2, <2>3
  <2>5. Result' /\ Settles' /\ Failure'
    BY <2>2
  <2> QED
    BY <1>4, <2>1, <2>4, <2>5 DEF Rest
<1>6. ASSUME NEW r \in Request, disconnect(r) PROVE ConnectionInv' /\ Rest'
  <2>1. ~overlapped /\ Quiet /\ request = None /\ errorMessage # "connection"
    BY <1>1, <1>2, <1>3, <1>6 DEF disconnect, Waits, Rest
  <2>2. /\ request' = r /\ errorMessage' = errorMessage
        /\ pc' = [pc EXCEPT ![r] = "tdLock"] /\ op' = [op EXCEPT ![r] = "disconnect"]
    BY <1>6 DEF disconnect, Disconnect, Waits
  <2>3. \A q \in Request : Lifecycle(q)' => q = r
    BY <1>1, <2>1, <2>2 DEF Lifecycle
  <2>4. Serial' /\ Own'
    BY <2>2, <2>3
  <2>5. Result' /\ Settles' /\ Failure'
    BY <1>1, <2>1, <2>2
  <2> QED
    BY <1>4, <2>1, <2>4, <2>5 DEF Rest
<1>7. ASSUME NEW r \in Request, Answered(r) PROVE ConnectionInv' /\ Rest'
  <2>1. /\ ~overlapped /\ request = r /\ pc[r] = "done"
        /\ request' = None /\ connected' = (op[r] = "connect" /\ outcome[r] = "ok")
        /\ errorMessage' = IF op[r] = "connect" /\ outcome[r] # "ok"
                              THEN outcome[r] ELSE errorMessage
        /\ pc' = [pc EXCEPT ![r] = "idle"] /\ op' = [op EXCEPT ![r] = "disconnect"]
        /\ connection' = connection /\ connState' = connState
    BY <1>3, <1>7 DEF Answered, Return, Settled
  <2>2. Rest /\ Quiet
    BY <1>2, <2>1 DEF Rest, Lifecycle
  <2>3. Quiet'
    BY <1>1, <2>1, <2>2 DEF Lifecycle
  <2>4. Serial' /\ Own' /\ Result'
    BY <2>1, <2>3
  <2>5. Settles'
    BY <2>1, <2>2, <2>3 DEF Rest, HasConnection
  <2>6. Failure'
    BY <2>1, <2>2, <2>3 DEF Rest
  <2> QED
    BY <1>4, <2>1, <2>4, <2>5, <2>6 DEF Rest
<1>8. ASSUME NEW r, Abandon(r), ~overlapped, request' = None, connected' = FALSE,
             errorMessage' # "connection"
      PROVE  ConnectionInv' /\ Rest'
  <2>1. pc' = pc /\ op' = op
    BY <1>8 DEF Abandon, Cancel
  <2>2. Serial'
    BY <1>2, <1>8, <2>1 DEF Rest, Lifecycle
  <2>3. Own' /\ Result' /\ Settles' /\ Failure'
    BY <1>8
  <2> QED
    BY <1>4, <1>8, <2>2, <2>3 DEF Rest
<1>9. ASSUME NEW r \in Request, AnswerLost(r) PROVE ConnectionInv' /\ Rest'
  <2>1. ~overlapped /\ request = r /\ errorMessage # "connection"
    BY <1>2, <1>3, <1>9 DEF AnswerLost, Settled, Rest
  <2> QED
    BY <1>8, <1>9, <2>1 DEF AnswerLost, Settled
<1>10. CASE Reload
  <2>1. ~overlapped
    BY <1>3, <1>10 DEF Reload
  <2>2. CASE request # None
    BY <1>8, <1>10, <2>1, <2>2 DEF Reload
  <2>3. CASE request = None
    <3>1. UNCHANGED vars /\ request' = None /\ connected' = FALSE /\ errorMessage' = None
      BY <1>10, <2>3 DEF Reload
    <3>2. Serial'
      BY <1>2, <2>1, <3>1 DEF Rest, Lifecycle
    <3>3. Own' /\ Result' /\ Settles' /\ Failure'
      BY <3>1
    <3> QED
      BY <1>4, <2>1, <3>2, <3>3 DEF Rest
  <2> QED
    BY <2>2, <2>3
\* The panel looks on while the adapter works.
<1>11. ASSUME UNCHANGED panel,
              \A q \in Request : Lifecycle(q)' => Lifecycle(q),
              connection' = connection, \A c \in Conn : Alive(connState[c]) => Alive(connState'[c]),
              \A q \in Request : pc'[q] = "done" /\ op'[q] = "connect" =>
                 pc[q] = "done" /\ op[q] = "connect" /\ outcome'[q] = outcome[q]
       PROVE  ConnectionInv' /\ Rest'
  <2>1. ~overlapped /\ Rest
    BY <1>2, <1>3, <1>11
  <2>2. HasConnection => HasConnection'
    BY <1>1, <1>11 DEF HasConnection
  <2>3. Serial' /\ Own'
    BY <1>11, <2>1 DEF Rest
  <2>4. Result'
    BY <1>1, <1>11, <2>1, <2>2 DEF Rest
  <2>5. Settles' /\ Failure'
    BY <1>11, <2>1, <2>2 DEF Rest
  <2> QED
    BY <1>4, <2>1, <2>3, <2>4, <2>5 DEF Rest
<1>12. ASSUME NEW r \in Request, AdapterStep(r) PROVE ConnectionInv' /\ Rest'
  <2>1. ~overlapped /\ Rest /\ Step(r) /\ UNCHANGED panel
    BY <1>2, <1>3, <1>12 DEF AdapterStep
  <2>2. /\ op' = op /\ pc[r] \notin {"idle", "done"}
        /\ \A q \in Request \ {r} : pc'[q] = pc[q] /\ outcome'[q] = outcome[q]
    BY <2>1, StepEffect DEF Frame
  <2>3. /\ op[r] \notin {"connect", "disconnect"} => UNCHANGED <<connection, connState>>
        /\ op[r] = "connect" /\ pc'[r] = "done" =>
              /\ outcome'[r] = "ok" => HasConnection'
              /\ outcome'[r] = "connection" => pc[r] = "connecting" /\ connection' = connection
    BY <1>1, <2>1, LifecycleEffect
  <2>4. \A q \in Request : Lifecycle(q)' => Lifecycle(q)
    BY <2>2 DEF Lifecycle
  <2>5. CASE op[r] \notin {"connect", "disconnect"}
    BY <1>11, <2>1, <2>2, <2>3, <2>4, <2>5
  <2>6. CASE op[r] \in {"connect", "disconnect"}
    <3>1. Lifecycle(r)
      BY <2>2, <2>6 DEF Lifecycle
    <3>2. Serial' /\ Own'
      BY <2>1, <2>4 DEF Rest
    <3>3. Settles' /\ Failure'
      BY <2>1, <3>1 DEF Rest
    <3>4. Result'
      <4>1. request # None => request = r
        BY <2>1, <3>1 DEF Rest
      <4>2. pc[r] = "connecting" => connection = None
        BY <1>2, <2>1 DEF ConnectionInv
      <4> QED
        BY <2>1, <2>2, <2>3, <4>1, <4>2
    <3> QED
      BY <1>4, <2>1, <3>2, <3>3, <3>4 DEF Rest
  <2> QED
    BY <2>5, <2>6
<1>13. ASSUME NEW r \in Request, OtherRequest(r) PROVE ConnectionInv' /\ Rest'
  <2>1. UNCHANGED panel
    BY <1>13 DEF OtherRequest
  <2>2. CASE Subscribe(r) \/ DeclareReply(r) \/ Send(r) \/ \E h \in issued : Unsubscribe(r, h)
    <3>1. /\ \E l \in Steps : pc' = [pc EXCEPT ![r] = l]
          /\ \E o \in Ops \ {"connect", "disconnect"} : op' = [op EXCEPT ![r] = o]
      BY <1>1, <2>2, CallStarts
    <3>2. UNCHANGED <<connection, connState>> /\ \A q \in Request \ {r} : outcome'[q] = outcome[q]
      BY <1>1, <2>2
         DEF Subscribe, DeclareReply, Send, EnterSend, RejectBlankRoutingKey, UseConnection,
             Unsubscribe, EnterUnsubscribe
    <3> QED
      BY <1>1, <1>11, <2>1, <3>1, <3>2 DEF Lifecycle
  <2>3. CASE r # request /\ Return(r)
    BY <1>1, <1>11, <2>1, <2>3 DEF Return, Lifecycle
  <2>4. CASE r # request /\ Cancel(r)
    BY <1>1, <1>11, <2>1, <2>4 DEF Cancel, Lifecycle
  <2> QED
    BY <1>13, <2>2, <2>3, <2>4 DEF OtherRequest
<1>14. ASSUME NEW c \in Conn, Drop(c) \/ Recover(c), UNCHANGED panel PROVE ConnectionInv' /\ Rest'
  <2>1. /\ UNCHANGED <<pc, op, outcome, connection>>
        /\ \A d \in Conn : Alive(connState[d]) => Alive(connState'[d])
    BY <1>1, <1>14 DEF Drop, Recover, Alive
  <2> QED
    BY <1>11, <1>14, <2>1 DEF Lifecycle
<1>15. CASE UNCHANGED cpVars
  BY <1>11, <1>15 DEF cpVars, Lifecycle
<1> QED
  BY <1>5, <1>6, <1>7, <1>9, <1>10, <1>12, <1>13, <1>14, <1>15 DEF CPNext

\* The adapter's invariant and the panel's hold together.
LEMMA PanelInvariant == CPSpec => [](IndInv /\ PanelInv /\ PanelSafe)
<1>1. CPInit => IndInv /\ PanelInv /\ PanelSafe
  <2> SUFFICES ASSUME CPInit PROVE IndInv /\ PanelInv /\ PanelSafe
    OBVIOUS
  <2>1. IndInv
    BY IndInit DEF CPInit
  <2>2. pc \in [Request -> Steps] /\ op \in [Request -> Ops] /\ request = None
    BY DEF CPInit, Init, Steps, Ops
  <2>3. PanelInv
    <3>1. ~pending /\ pending = (request # None)
      BY DEF CPInit
    <3> QED
      BY <2>2, <3>1 DEF PanelInv, PendingMeansWaiting
  <2>4. ConnectionInv
    BY NoneAssumption
       DEF CPInit, Init, ConnectionInv, NoOrphanedConnection, TeardownSeesConnection, Alive
  <2>5. \A r \in Request : ~Lifecycle(r)
    BY DEF CPInit, Init, Lifecycle
  <2>6. ~connected /\ errorMessage = None
    BY DEF CPInit
  <2> QED
    BY <2>1, <2>2, <2>3, <2>4, <2>5, <2>6, ErrorAssumption DEF PanelSafe, Outcomes
<1>2. IndInv /\ PanelInv /\ PanelSafe /\ [CPNext]_cpVars => (IndInv /\ PanelInv /\ PanelSafe)'
  BY PanelCalls, IndStep, RejectStep, PanelStep, PanelSafeStep
<1> QED
  BY <1>1, <1>2, PTL DEF CPSpec

\* After any failure, lost answer or reload, as long as no two connects or disconnects
\* have overlapped, a panel that says connected finds a connection to disconnect.
THEOREM ConnectedIsConnected == CPSpec => []ConnectedHasConnection
<1>1. PanelInv /\ PanelSafe => ConnectedHasConnection
  BY DEF PanelInv, PendingMeansWaiting, PanelSafe, ConnectedHasConnection, HasConnection
<1> QED
  BY <1>1, PanelInvariant, PTL

\* Under the same condition a connect that failed for want of a broker leaves no
\* connection behind, neither its own nor the one there was before.
THEOREM FailureKeepsNothing == CPSpec => []NoPartialConnection
<1>1. IndInv /\ PanelSafe => NoPartialConnection
  BY NoneAssumption
     DEF PanelSafe, ConnectionInv, NoOrphanedConnection, NoPartialConnection, Alive
<1> QED
  BY <1>1, PanelInvariant, PTL
=============================================================================
