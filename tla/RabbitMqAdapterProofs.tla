----------------------- MODULE RabbitMqAdapterProofs -----------------------
(***************************************************************************)
(* Theorems about RabbitMqAdapter, for every number of requests,           *)
(* connections, channels, handles and broker failures.                     *)
(***************************************************************************)
EXTENDS RabbitMqAdapter, TLAPS

\* Each step keeps every variable in its type.
LEMMA TypeStep ==
    ASSUME TypeOK, LocalsInv, [Next]_vars
    PROVE  TypeOK'
<1> USE NoneAssumption, DropsAssumption
        DEF TypeOK, Steps, TeardownSteps, Ops, Link, Outcomes, locals, adapter, broker, history,
            Goto, Finish, Idle, Begin, UseConnection, ChannelsFollow, CloseConn, CloseChan
<1>1. ASSUME NEW r \in Request, Connect(r) PROVE TypeOK'
  BY <1>1 DEF Connect
<1>2. ASSUME NEW r \in Request, Disconnect(r) PROVE TypeOK'
  BY <1>2 DEF Disconnect
<1>3. ASSUME NEW r \in Request, Subscribe(r) PROVE TypeOK'
  BY <1>3 DEF Subscribe
<1>4. ASSUME NEW r \in Request, DeclareReply(r) PROVE TypeOK'
  BY <1>4 DEF DeclareReply
<1>5. ASSUME NEW r \in Request, Send(r) PROVE TypeOK'
  BY <1>5 DEF Send, EnterSend, RejectBlankRoutingKey
<1>6. ASSUME NEW r \in Request, TeardownLock(r) PROVE TypeOK'
  BY <1>6 DEF TeardownLock, Registered
<1>7. ASSUME NEW r \in Request, TeardownChannel(r) PROVE TypeOK'
  <2>1. PICK h \in todo[r] :
          /\ todo' = [todo EXCEPT ![r] = todo[r] \ {h}]
          /\ CloseChan(subscriptionChannels[h]) \/ UNCHANGED broker
          /\ channel' = [channel EXCEPT ![r] = subscriptionChannels[h]]
          /\ pc' = [pc EXCEPT ![r] = "tdChannel"] \/ pc' = [pc EXCEPT ![r] = "tdLoop"]
    BY <1>7 DEF TeardownChannel
  <2>2. todo[r] \ {h} \in SUBSET Handle /\ h \in Handle
    OBVIOUS
  <2>3. pc' \in [Request -> Steps] /\ todo' \in [Request -> SUBSET Handle]
    BY <2>1, <2>2
  <2>4. channel' \in [Request -> Channel \cup {None}]
    BY <2>1, <2>2
  <2> QED
    BY <1>7, <2>1, <2>3, <2>4 DEF TeardownChannel
<1>8. ASSUME NEW r \in Request, TeardownChannelClosed(r) PROVE TypeOK'
  BY <1>8 DEF TeardownChannelClosed
<1>9. ASSUME NEW r \in Request, TeardownChannelThrows(r) PROVE TypeOK'
  BY <1>9 DEF TeardownChannelThrows
<1>10. ASSUME NEW r \in Request, TeardownClear(r) PROVE TypeOK'
  BY <1>10 DEF TeardownClear
<1>11. ASSUME NEW r \in Request, TeardownCheck(r) PROVE TypeOK'
  BY <1>11 DEF TeardownCheck, TeardownReturns
<1>12. ASSUME NEW r \in Request, NullReference(r) PROVE TypeOK'
  BY <1>12 DEF NullReference
<1>13. ASSUME NEW r \in Request, TeardownIsOpen(r) PROVE TypeOK'
  BY <1>13 DEF TeardownIsOpen
<1>14. ASSUME NEW r \in Request, TeardownClose(r) PROVE TypeOK'
  BY <1>14 DEF TeardownClose
<1>15. ASSUME NEW r \in Request, TeardownCloseLate(r) PROVE TypeOK'
  BY <1>15 DEF TeardownCloseLate
<1>16. ASSUME NEW r \in Request, TeardownDispose(r) PROVE TypeOK'
  BY <1>16 DEF TeardownDispose
<1>17. ASSUME NEW r \in Request, TeardownNull(r) PROVE TypeOK'
  BY <1>17 DEF TeardownNull, TeardownReturns
<1>18. ASSUME NEW r \in Request, ConnectOpen(r) PROVE TypeOK'
  BY <1>18 DEF ConnectOpen
<1>19. ASSUME NEW r \in Request, ConnectUnreachable(r) PROVE TypeOK'
  BY <1>19 DEF ConnectUnreachable
<1>20. ASSUME NEW r \in Request, CreateChannel(r) PROVE TypeOK'
  BY <1>20 DEF CreateChannel, LocalsInv
<1>21. ASSUME NEW r \in Request, CreateChannelFails(r) PROVE TypeOK'
  BY <1>21 DEF CreateChannelFails, Translated
<1>22. ASSUME NEW r \in Request, DeclareQueue(r) PROVE TypeOK'
  BY <1>22 DEF DeclareQueue
<1>23. ASSUME NEW r \in Request, Consume(r) PROVE TypeOK'
  BY <1>23 DEF Consume, LocalsInv, Owns
<1>24. ASSUME NEW r \in Request, WireFails(r) PROVE TypeOK'
  BY <1>24 DEF WireFails
<1>25. ASSUME NEW r \in Request, RegisterSubscription(r) PROVE TypeOK'
  BY <1>25 DEF RegisterSubscription, LocalsInv, Owns
<1>26. ASSUME NEW r \in Request, RemoveSubscription(r) PROVE TypeOK'
  BY <1>26 DEF RemoveSubscription, LocalsInv
<1>27. ASSUME NEW r \in Request, CloseUnsubscribed(r) PROVE TypeOK'
  BY <1>27 DEF CloseUnsubscribed
<1>28. ASSUME NEW r \in Request, CloseUnsubscribedThrows(r) PROVE TypeOK'
  BY <1>28 DEF CloseUnsubscribedThrows
<1>29. ASSUME NEW r \in Request, DisposeUnsubscribed(r) PROVE TypeOK'
  BY <1>29 DEF DisposeUnsubscribed
<1>30. ASSUME NEW r \in Request, DeclareExchange(r) PROVE TypeOK'
  BY <1>30 DEF DeclareExchange
<1>31. ASSUME NEW r \in Request, Publish(r) PROVE TypeOK'
  BY <1>31 DEF Publish
<1>32. ASSUME NEW r \in Request, SendFails(r) PROVE TypeOK'
  BY <1>32 DEF SendFails
<1>33. ASSUME NEW r \in Request, SendCancelled(r) PROVE TypeOK'
  BY <1>33 DEF SendCancelled
<1>34. ASSUME NEW r \in Request, DisposeSend(r) PROVE TypeOK'
  BY <1>34 DEF DisposeSend
<1>35. ASSUME NEW r \in Request, AwaitCancelled(r) PROVE TypeOK'
  <2>1. /\ pc' = [pc EXCEPT ![r] = "done"]
        /\ outcome' = [outcome EXCEPT ![r] = "cancelled"]
        /\ UNCHANGED <<op, locals, cancelled, adapter, issued>>
    BY <1>35 DEF AwaitCancelled
  <2>2. CASE pc[r] \in {"consume", "register", "closeChannel"}
    <3>1. channel[r] \in Channel
      BY <2>2 DEF LocalsInv, Owns
    <3>2. /\ abandoned' = abandoned \cup {channel[r]}
          /\ UNCHANGED <<connState, chanConn, drops, raced>>
          /\ chanState' \in {chanState, [chanState EXCEPT ![channel[r]] = "closed"]}
          /\ consuming' \in {consuming, [consuming EXCEPT ![channel[r]] = TRUE]}
      BY <1>35, <2>2 DEF AwaitCancelled
    <3>3. chanState' \in [Channel -> Link]
      BY <3>1, <3>2
    <3>4. consuming' \in [Channel -> BOOLEAN]
      <4>1. consuming \in [Channel -> BOOLEAN]
        OBVIOUS
      <4> QED
        BY <3>2, <4>1
    <3>5. raced' \in SUBSET Conn /\ abandoned' \in SUBSET Channel
      BY <3>1, <3>2
    <3> QED
      BY <2>1, <3>2, <3>3, <3>4, <3>5
  <2>3. CASE pc[r] \notin {"consume", "register", "closeChannel"}
    BY <1>35, <2>1, <2>3 DEF AwaitCancelled
  <2> QED
    BY <2>2, <2>3
<1>36. ASSUME NEW r \in Request, Return(r) PROVE TypeOK'
  BY <1>36 DEF Return
<1>37. ASSUME NEW r \in Request, Cancel(r) PROVE TypeOK'
  BY <1>37 DEF Cancel
<1>38. ASSUME NEW r \in Request, NEW h \in Handle, Unsubscribe(r, h) PROVE TypeOK'
  BY <1>38 DEF Unsubscribe, EnterUnsubscribe
<1>39. ASSUME NEW c \in Conn, Drop(c) PROVE TypeOK'
  BY <1>39 DEF Drop
<1>40. ASSUME NEW c \in Conn, Recover(c) PROVE TypeOK'
  BY <1>40 DEF Recover
<1>41. CASE UNCHANGED vars
  BY <1>41 DEF vars
<1> QED
  BY <1>1, <1>2, <1>3, <1>4, <1>5, <1>6, <1>7, <1>8, <1>9, <1>10, <1>11, <1>12, <1>13,
     <1>14, <1>15, <1>16, <1>17, <1>18, <1>19, <1>20, <1>21, <1>22, <1>23, <1>24, <1>25,
     <1>26, <1>27, <1>28, <1>29, <1>30, <1>31, <1>32, <1>33, <1>34, <1>35, <1>36, <1>37,
     <1>38, <1>39, <1>40, <1>41
     DEF Next, Call, Step, TeardownStep, SubscribeStep

\* What a request needs at a step, the step before has put into its locals.
LEMMA LocalsStep ==
    ASSUME TypeOK, LocalsInv, LockInv, [Next]_vars
    PROVE  LocalsInv'
<1> USE NoneAssumption
        DEF TypeOK, LocalsInv, Owns, Steps, TeardownSteps, Ops, locals, Goto, Finish, Idle,
            Begin, UseConnection
<1>1. ASSUME NEW r \in Request, Connect(r) PROVE LocalsInv'
  BY <1>1 DEF Connect
<1>2. ASSUME NEW r \in Request, Disconnect(r) PROVE LocalsInv'
  BY <1>2 DEF Disconnect
<1>3. ASSUME NEW r \in Request, Subscribe(r) PROVE LocalsInv'
  BY <1>3 DEF Subscribe
<1>4. ASSUME NEW r \in Request, DeclareReply(r) PROVE LocalsInv'
  BY <1>4 DEF DeclareReply
<1>5. ASSUME NEW r \in Request, Send(r) PROVE LocalsInv'
  BY <1>5 DEF Send, EnterSend, RejectBlankRoutingKey
<1>6. ASSUME NEW r \in Request, TeardownLock(r) PROVE LocalsInv'
  BY <1>6 DEF TeardownLock
<1>7. ASSUME NEW r \in Request, TeardownChannel(r) PROVE LocalsInv'
  BY <1>7 DEF TeardownChannel, LockInv, Registered
<1>8. ASSUME NEW r \in Request, TeardownChannelClosed(r) PROVE LocalsInv'
  BY <1>8 DEF TeardownChannelClosed
<1>9. ASSUME NEW r \in Request, TeardownChannelThrows(r) PROVE LocalsInv'
  BY <1>9 DEF TeardownChannelThrows
<1>10. ASSUME NEW r \in Request, TeardownClear(r) PROVE LocalsInv'
  BY <1>10 DEF TeardownClear
<1>11. ASSUME NEW r \in Request, TeardownCheck(r) PROVE LocalsInv'
  BY <1>11 DEF TeardownCheck, TeardownReturns
<1>12. ASSUME NEW r \in Request, NullReference(r) PROVE LocalsInv'
  BY <1>12 DEF NullReference
<1>13. ASSUME NEW r \in Request, TeardownIsOpen(r) PROVE LocalsInv'
  BY <1>13 DEF TeardownIsOpen
<1>14. ASSUME NEW r \in Request, TeardownClose(r) PROVE LocalsInv'
  BY <1>14 DEF TeardownClose
<1>15. ASSUME NEW r \in Request, TeardownCloseLate(r) PROVE LocalsInv'
  BY <1>15 DEF TeardownCloseLate
<1>16. ASSUME NEW r \in Request, TeardownDispose(r) PROVE LocalsInv'
  BY <1>16 DEF TeardownDispose
<1>17. ASSUME NEW r \in Request, TeardownNull(r) PROVE LocalsInv'
  BY <1>17 DEF TeardownNull, TeardownReturns
<1>18. ASSUME NEW r \in Request, ConnectOpen(r) PROVE LocalsInv'
  BY <1>18 DEF ConnectOpen
<1>19. ASSUME NEW r \in Request, ConnectUnreachable(r) PROVE LocalsInv'
  BY <1>19 DEF ConnectUnreachable
<1>20. ASSUME NEW r \in Request, CreateChannel(r) PROVE LocalsInv'
  BY <1>20 DEF CreateChannel
<1>21. ASSUME NEW r \in Request, CreateChannelFails(r) PROVE LocalsInv'
  BY <1>21 DEF CreateChannelFails
<1>22. ASSUME NEW r \in Request, DeclareQueue(r) PROVE LocalsInv'
  BY <1>22 DEF DeclareQueue
<1>23. ASSUME NEW r \in Request, Consume(r) PROVE LocalsInv'
  BY <1>23 DEF Consume
<1>24. ASSUME NEW r \in Request, WireFails(r) PROVE LocalsInv'
  BY <1>24 DEF WireFails
<1>25. ASSUME NEW r \in Request, RegisterSubscription(r) PROVE LocalsInv'
  BY <1>25 DEF RegisterSubscription
<1>26. ASSUME NEW r \in Request, RemoveSubscription(r) PROVE LocalsInv'
  BY <1>26 DEF RemoveSubscription
<1>27. ASSUME NEW r \in Request, CloseUnsubscribed(r) PROVE LocalsInv'
  BY <1>27 DEF CloseUnsubscribed
<1>28. ASSUME NEW r \in Request, CloseUnsubscribedThrows(r) PROVE LocalsInv'
  BY <1>28 DEF CloseUnsubscribedThrows
<1>29. ASSUME NEW r \in Request, DisposeUnsubscribed(r) PROVE LocalsInv'
  BY <1>29 DEF DisposeUnsubscribed
<1>30. ASSUME NEW r \in Request, DeclareExchange(r) PROVE LocalsInv'
  BY <1>30 DEF DeclareExchange
<1>31. ASSUME NEW r \in Request, Publish(r) PROVE LocalsInv'
  BY <1>31 DEF Publish
<1>32. ASSUME NEW r \in Request, SendFails(r) PROVE LocalsInv'
  BY <1>32 DEF SendFails
<1>33. ASSUME NEW r \in Request, SendCancelled(r) PROVE LocalsInv'
  BY <1>33 DEF SendCancelled
<1>34. ASSUME NEW r \in Request, DisposeSend(r) PROVE LocalsInv'
  BY <1>34 DEF DisposeSend
<1>35. ASSUME NEW r \in Request, AwaitCancelled(r) PROVE LocalsInv'
  BY <1>35 DEF AwaitCancelled
<1>36. ASSUME NEW r \in Request, Return(r) PROVE LocalsInv'
  BY <1>36 DEF Return
<1>37. ASSUME NEW r \in Request, Cancel(r) PROVE LocalsInv'
  BY <1>37 DEF Cancel
<1>38. ASSUME NEW r \in Request, NEW h \in Handle, Unsubscribe(r, h) PROVE LocalsInv'
  BY <1>38 DEF Unsubscribe, EnterUnsubscribe
<1>39. ASSUME NEW c \in Conn, Drop(c) PROVE LocalsInv'
  BY <1>39 DEF Drop
<1>40. ASSUME NEW c \in Conn, Recover(c) PROVE LocalsInv'
  BY <1>40 DEF Recover
<1>41. CASE UNCHANGED vars
  BY <1>41 DEF vars
<1> QED
  BY <1>1, <1>2, <1>3, <1>4, <1>5, <1>6, <1>7, <1>8, <1>9, <1>10, <1>11, <1>12, <1>13,
     <1>14, <1>15, <1>16, <1>17, <1>18, <1>19, <1>20, <1>21, <1>22, <1>23, <1>24, <1>25,
     <1>26, <1>27, <1>28, <1>29, <1>30, <1>31, <1>32, <1>33, <1>34, <1>35, <1>36, <1>37,
     <1>38, <1>39, <1>40, <1>41
     DEF Next, Call, Step, TeardownStep, SubscribeStep

\* Only the foreach of a teardown holds the semaphore across steps, and nobody else
\* writes the dictionary meanwhile.
LEMMA LockStep ==
    ASSUME TypeOK, LocalsInv, LockInv, [Next]_vars
    PROVE  LockInv'
<1> USE NoneAssumption
        DEF TypeOK, LocalsInv, LockInv, Owns, Steps, TeardownSteps, Ops, Link, Free, locals,
            adapter, broker, history, Registered, Goto, Finish, Idle, Begin, UseConnection,
            ChannelsFollow, CloseConn, CloseChan
<1>1. ASSUME NEW r \in Request, Connect(r) PROVE LockInv'
  BY <1>1 DEF Connect
<1>2. ASSUME NEW r \in Request, Disconnect(r) PROVE LockInv'
  BY <1>2 DEF Disconnect
<1>3. ASSUME NEW r \in Request, Subscribe(r) PROVE LockInv'
  BY <1>3 DEF Subscribe
<1>4. ASSUME NEW r \in Request, DeclareReply(r) PROVE LockInv'
  BY <1>4 DEF DeclareReply
<1>5. ASSUME NEW r \in Request, Send(r) PROVE LockInv'
  BY <1>5 DEF Send, EnterSend, RejectBlankRoutingKey
<1>6. ASSUME NEW r \in Request, TeardownLock(r) PROVE LockInv'
  BY <1>6 DEF TeardownLock
<1>7. ASSUME NEW r \in Request, TeardownChannel(r) PROVE LockInv'
  BY <1>7 DEF TeardownChannel
<1>8. ASSUME NEW r \in Request, TeardownChannelClosed(r) PROVE LockInv'
  BY <1>8 DEF TeardownChannelClosed
<1>9. ASSUME NEW r \in Request, TeardownChannelThrows(r) PROVE LockInv'
  BY <1>9 DEF TeardownChannelThrows
<1>10. ASSUME NEW r \in Request, TeardownClear(r) PROVE LockInv'
  BY <1>10 DEF TeardownClear
<1>11. ASSUME NEW r \in Request, TeardownCheck(r) PROVE LockInv'
  BY <1>11 DEF TeardownCheck, TeardownReturns
<1>12. ASSUME NEW r \in Request, NullReference(r) PROVE LockInv'
  BY <1>12 DEF NullReference
<1>13. ASSUME NEW r \in Request, TeardownIsOpen(r) PROVE LockInv'
  BY <1>13 DEF TeardownIsOpen
<1>14. ASSUME NEW r \in Request, TeardownClose(r) PROVE LockInv'
  BY <1>14 DEF TeardownClose
<1>15. ASSUME NEW r \in Request, TeardownCloseLate(r) PROVE LockInv'
  BY <1>15 DEF TeardownCloseLate
<1>16. ASSUME NEW r \in Request, TeardownDispose(r) PROVE LockInv'
  BY <1>16 DEF TeardownDispose
<1>17. ASSUME NEW r \in Request, TeardownNull(r) PROVE LockInv'
  BY <1>17 DEF TeardownNull, TeardownReturns
<1>18. ASSUME NEW r \in Request, ConnectOpen(r) PROVE LockInv'
  BY <1>18 DEF ConnectOpen
<1>19. ASSUME NEW r \in Request, ConnectUnreachable(r) PROVE LockInv'
  BY <1>19 DEF ConnectUnreachable
<1>20. ASSUME NEW r \in Request, CreateChannel(r) PROVE LockInv'
  BY <1>20 DEF CreateChannel
<1>21. ASSUME NEW r \in Request, CreateChannelFails(r) PROVE LockInv'
  BY <1>21 DEF CreateChannelFails
<1>22. ASSUME NEW r \in Request, DeclareQueue(r) PROVE LockInv'
  BY <1>22 DEF DeclareQueue
<1>23. ASSUME NEW r \in Request, Consume(r) PROVE LockInv'
  BY <1>23 DEF Consume
<1>24. ASSUME NEW r \in Request, WireFails(r) PROVE LockInv'
  BY <1>24 DEF WireFails
<1>25. ASSUME NEW r \in Request, RegisterSubscription(r) PROVE LockInv'
  BY <1>25 DEF RegisterSubscription
<1>26. ASSUME NEW r \in Request, RemoveSubscription(r) PROVE LockInv'
  BY <1>26 DEF RemoveSubscription
<1>27. ASSUME NEW r \in Request, CloseUnsubscribed(r) PROVE LockInv'
  BY <1>27 DEF CloseUnsubscribed
<1>28. ASSUME NEW r \in Request, CloseUnsubscribedThrows(r) PROVE LockInv'
  BY <1>28 DEF CloseUnsubscribedThrows
<1>29. ASSUME NEW r \in Request, DisposeUnsubscribed(r) PROVE LockInv'
  BY <1>29 DEF DisposeUnsubscribed
<1>30. ASSUME NEW r \in Request, DeclareExchange(r) PROVE LockInv'
  BY <1>30 DEF DeclareExchange
<1>31. ASSUME NEW r \in Request, Publish(r) PROVE LockInv'
  BY <1>31 DEF Publish
<1>32. ASSUME NEW r \in Request, SendFails(r) PROVE LockInv'
  BY <1>32 DEF SendFails
<1>33. ASSUME NEW r \in Request, SendCancelled(r) PROVE LockInv'
  BY <1>33 DEF SendCancelled
<1>34. ASSUME NEW r \in Request, DisposeSend(r) PROVE LockInv'
  BY <1>34 DEF DisposeSend
<1>35. ASSUME NEW r \in Request, AwaitCancelled(r) PROVE LockInv'
  BY <1>35 DEF AwaitCancelled
<1>36. ASSUME NEW r \in Request, Return(r) PROVE LockInv'
  BY <1>36 DEF Return
<1>37. ASSUME NEW r \in Request, Cancel(r) PROVE LockInv'
  BY <1>37 DEF Cancel
<1>38. ASSUME NEW r \in Request, NEW h \in Handle, Unsubscribe(r, h) PROVE LockInv'
  BY <1>38 DEF Unsubscribe, EnterUnsubscribe
<1>39. ASSUME NEW c \in Conn, Drop(c) PROVE LockInv'
  BY <1>39 DEF Drop
<1>40. ASSUME NEW c \in Conn, Recover(c) PROVE LockInv'
  BY <1>40 DEF Recover
<1>41. CASE UNCHANGED vars
  BY <1>41 DEF vars
<1> QED
  BY <1>1, <1>2, <1>3, <1>4, <1>5, <1>6, <1>7, <1>8, <1>9, <1>10, <1>11, <1>12, <1>13,
     <1>14, <1>15, <1>16, <1>17, <1>18, <1>19, <1>20, <1>21, <1>22, <1>23, <1>24, <1>25,
     <1>26, <1>27, <1>28, <1>29, <1>30, <1>31, <1>32, <1>33, <1>34, <1>35, <1>36, <1>37,
     <1>38, <1>39, <1>40, <1>41
     DEF Next, Call, Step, TeardownStep, SubscribeStep

\* A channel has one owner: the request that created it, one dictionary entry, or
\* the request that took it out to close it.
LEMMA ChannelStep ==
    ASSUME TypeOK, LocalsInv, LockInv, ChannelInv, [Next]_vars
    PROVE  ChannelInv'
<1> USE NoneAssumption
        DEF TypeOK, LocalsInv, LockInv, ChannelInv, Owns, Steps, TeardownSteps, Ops, Link,
            Free, locals, adapter, broker, history, Registered, Goto, Finish, Idle, Begin,
            UseConnection, ChannelsFollow, CloseConn, CloseChan
<1>1. ASSUME NEW r \in Request, Connect(r) PROVE ChannelInv'
  BY <1>1 DEF Connect
<1>2. ASSUME NEW r \in Request, Disconnect(r) PROVE ChannelInv'
  BY <1>2 DEF Disconnect
<1>3. ASSUME NEW r \in Request, Subscribe(r) PROVE ChannelInv'
  BY <1>3 DEF Subscribe
<1>4. ASSUME NEW r \in Request, DeclareReply(r) PROVE ChannelInv'
  BY <1>4 DEF DeclareReply
<1>5. ASSUME NEW r \in Request, Send(r) PROVE ChannelInv'
  BY <1>5 DEF Send, EnterSend, RejectBlankRoutingKey
<1>6. ASSUME NEW r \in Request, TeardownLock(r) PROVE ChannelInv'
  BY <1>6 DEF TeardownLock
<1>7. ASSUME NEW r \in Request, TeardownChannel(r) PROVE ChannelInv'
  BY <1>7 DEF TeardownChannel
<1>8. ASSUME NEW r \in Request, TeardownChannelClosed(r) PROVE ChannelInv'
  BY <1>8 DEF TeardownChannelClosed
<1>9. ASSUME NEW r \in Request, TeardownChannelThrows(r) PROVE ChannelInv'
  BY <1>9 DEF TeardownChannelThrows
<1>10. ASSUME NEW r \in Request, TeardownClear(r) PROVE ChannelInv'
  BY <1>10 DEF TeardownClear
<1>11. ASSUME NEW r \in Request, TeardownCheck(r) PROVE ChannelInv'
  BY <1>11 DEF TeardownCheck, TeardownReturns
<1>12. ASSUME NEW r \in Request, NullReference(r) PROVE ChannelInv'
  BY <1>12 DEF NullReference
<1>13. ASSUME NEW r \in Request, TeardownIsOpen(r) PROVE ChannelInv'
  BY <1>13 DEF TeardownIsOpen
<1>14. ASSUME NEW r \in Request, TeardownClose(r) PROVE ChannelInv'
  BY <1>14 DEF TeardownClose
<1>15. ASSUME NEW r \in Request, TeardownCloseLate(r) PROVE ChannelInv'
  BY <1>15 DEF TeardownCloseLate
<1>16. ASSUME NEW r \in Request, TeardownDispose(r) PROVE ChannelInv'
  BY <1>16 DEF TeardownDispose
<1>17. ASSUME NEW r \in Request, TeardownNull(r) PROVE ChannelInv'
  BY <1>17 DEF TeardownNull, TeardownReturns
<1>18. ASSUME NEW r \in Request, ConnectOpen(r) PROVE ChannelInv'
  BY <1>18 DEF ConnectOpen
<1>19. ASSUME NEW r \in Request, ConnectUnreachable(r) PROVE ChannelInv'
  BY <1>19 DEF ConnectUnreachable
<1>20. ASSUME NEW r \in Request, CreateChannel(r) PROVE ChannelInv'
  BY <1>20 DEF CreateChannel
<1>21. ASSUME NEW r \in Request, CreateChannelFails(r) PROVE ChannelInv'
  BY <1>21 DEF CreateChannelFails
<1>22. ASSUME NEW r \in Request, DeclareQueue(r) PROVE ChannelInv'
  BY <1>22 DEF DeclareQueue
<1>23. ASSUME NEW r \in Request, Consume(r) PROVE ChannelInv'
  BY <1>23 DEF Consume
<1>24. ASSUME NEW r \in Request, WireFails(r) PROVE ChannelInv'
  BY <1>24 DEF WireFails
<1>25. ASSUME NEW r \in Request, RegisterSubscription(r) PROVE ChannelInv'
  BY <1>25 DEF RegisterSubscription
<1>26. ASSUME NEW r \in Request, RemoveSubscription(r) PROVE ChannelInv'
  BY <1>26 DEF RemoveSubscription
<1>27. ASSUME NEW r \in Request, CloseUnsubscribed(r) PROVE ChannelInv'
  BY <1>27 DEF CloseUnsubscribed
<1>28. ASSUME NEW r \in Request, CloseUnsubscribedThrows(r) PROVE ChannelInv'
  BY <1>28 DEF CloseUnsubscribedThrows
<1>29. ASSUME NEW r \in Request, DisposeUnsubscribed(r) PROVE ChannelInv'
  BY <1>29 DEF DisposeUnsubscribed
<1>30. ASSUME NEW r \in Request, DeclareExchange(r) PROVE ChannelInv'
  BY <1>30 DEF DeclareExchange
<1>31. ASSUME NEW r \in Request, Publish(r) PROVE ChannelInv'
  BY <1>31 DEF Publish
<1>32. ASSUME NEW r \in Request, SendFails(r) PROVE ChannelInv'
  BY <1>32 DEF SendFails
<1>33. ASSUME NEW r \in Request, SendCancelled(r) PROVE ChannelInv'
  BY <1>33 DEF SendCancelled
<1>34. ASSUME NEW r \in Request, DisposeSend(r) PROVE ChannelInv'
  BY <1>34 DEF DisposeSend
<1>35. ASSUME NEW r \in Request, AwaitCancelled(r) PROVE ChannelInv'
  BY <1>35 DEF AwaitCancelled
<1>36. ASSUME NEW r \in Request, Return(r) PROVE ChannelInv'
  BY <1>36 DEF Return
<1>37. ASSUME NEW r \in Request, Cancel(r) PROVE ChannelInv'
  BY <1>37 DEF Cancel
<1>38. ASSUME NEW r \in Request, NEW h \in Handle, Unsubscribe(r, h) PROVE ChannelInv'
  BY <1>38 DEF Unsubscribe, EnterUnsubscribe
<1>39. ASSUME NEW c \in Conn, Drop(c) PROVE ChannelInv'
  BY <1>39 DEF Drop
<1>40. ASSUME NEW c \in Conn, Recover(c) PROVE ChannelInv'
  BY <1>40 DEF Recover
<1>41. CASE UNCHANGED vars
  BY <1>41 DEF vars
<1> QED
  BY <1>1, <1>2, <1>3, <1>4, <1>5, <1>6, <1>7, <1>8, <1>9, <1>10, <1>11, <1>12, <1>13,
     <1>14, <1>15, <1>16, <1>17, <1>18, <1>19, <1>20, <1>21, <1>22, <1>23, <1>24, <1>25,
     <1>26, <1>27, <1>28, <1>29, <1>30, <1>31, <1>32, <1>33, <1>34, <1>35, <1>36, <1>37,
     <1>38, <1>39, <1>40, <1>41
     DEF Next, Call, Step, TeardownStep, SubscribeStep

\* A step stays with the method it belongs to.
LEMMA OpStep ==
    ASSUME TypeOK, OpInv, [Next]_vars
    PROVE  OpInv'
<1> USE NoneAssumption
        DEF TypeOK, OpInv, Steps, TeardownSteps, Ops, Closing, locals, Goto, Finish, Idle,
            Begin, UseConnection
<1>1. ASSUME NEW r \in Request, Call(r) PROVE OpInv'
  <2>1. CASE Connect(r) \/ Disconnect(r) \/ Subscribe(r) \/ DeclareReply(r) \/ Send(r)
    BY <2>1
       DEF Connect, Disconnect, Subscribe, DeclareReply, Send, EnterSend,
           RejectBlankRoutingKey
  <2>2. CASE \E h \in issued : Unsubscribe(r, h)
    BY <2>2 DEF Unsubscribe, EnterUnsubscribe
  <2> QED
    BY <1>1, <2>1, <2>2 DEF Call
<1>2. ASSUME NEW r \in Request, TeardownStep(r) PROVE OpInv'
  BY <1>2
     DEF TeardownStep, TeardownLock, TeardownChannel, TeardownChannelClosed,
         TeardownChannelThrows, TeardownClear, TeardownCheck, TeardownReturns,
         NullReference, TeardownIsOpen, TeardownClose, TeardownCloseLate, TeardownDispose,
         TeardownNull
<1>3. ASSUME NEW r \in Request, SubscribeStep(r) PROVE OpInv'
  <2>1. CASE CreateChannel(r)
    BY <2>1 DEF CreateChannel
  <2>2. CASE ~CreateChannel(r)
    BY <1>3, <2>2
       DEF SubscribeStep, CreateChannelFails, DeclareQueue, Consume, WireFails,
           RegisterSubscription
  <2> QED
    BY <2>1, <2>2
<1>4. ASSUME NEW r \in Request, Step(r), ~TeardownStep(r), ~SubscribeStep(r) PROVE OpInv'
  BY <1>4
     DEF Step, ConnectOpen, ConnectUnreachable, RemoveSubscription, CloseUnsubscribed,
         CloseUnsubscribedThrows, DisposeUnsubscribed, DeclareExchange, Publish, SendFails,
         SendCancelled, DisposeSend, AwaitCancelled
<1>5. ASSUME NEW r \in Request, Return(r) \/ Cancel(r) PROVE OpInv'
  BY <1>5 DEF Return, Cancel
<1>6. ASSUME NEW c \in Conn, Drop(c) \/ Recover(c) PROVE OpInv'
  BY <1>6 DEF Drop, Recover
<1>7. CASE UNCHANGED vars
  BY <1>7 DEF vars
<1> QED
  BY <1>1, <1>2, <1>3, <1>4, <1>5, <1>6, <1>7 DEF Next

\* r is in ConnectAsync or DisconnectAsync.
TearingDown(r) == pc[r] \in TeardownSteps \cup {"connecting"}

\* With one request connecting or disconnecting at a time, the field names the only
\* connection that is not closed.
LEMMA ConnectionStep ==
    ASSUME TypeOK, LocalsInv, ConnectionInv,
           \A r1, r2 \in Request : TearingDown(r1) /\ TearingDown(r2) => r1 = r2,
           [Next]_vars
    PROVE  ConnectionInv'
<1> USE NoneAssumption
        DEF TypeOK, LocalsInv, ConnectionInv, NoOrphanedConnection, Alive,
            TeardownSeesConnection, Steps, TeardownSteps, TearingDown, Ops, Link, locals,
            adapter, broker, history, Goto, Finish, Idle, Begin, UseConnection, ChannelsFollow,
            CloseConn, CloseChan
<1>1. ASSUME NEW r \in Request, Connect(r) PROVE ConnectionInv'
  BY <1>1 DEF Connect
<1>2. ASSUME NEW r \in Request, Disconnect(r) PROVE ConnectionInv'
  BY <1>2 DEF Disconnect
<1>3. ASSUME NEW r \in Request, Subscribe(r) PROVE ConnectionInv'
  BY <1>3 DEF Subscribe
<1>4. ASSUME NEW r \in Request, DeclareReply(r) PROVE ConnectionInv'
  BY <1>4 DEF DeclareReply
<1>5. ASSUME NEW r \in Request, Send(r) PROVE ConnectionInv'
  BY <1>5 DEF Send, EnterSend, RejectBlankRoutingKey
<1>6. ASSUME NEW r \in Request, TeardownLock(r) PROVE ConnectionInv'
  BY <1>6 DEF TeardownLock
<1>7. ASSUME NEW r \in Request, TeardownChannel(r) PROVE ConnectionInv'
  BY <1>7 DEF TeardownChannel
<1>8. ASSUME NEW r \in Request, TeardownChannelClosed(r) PROVE ConnectionInv'
  BY <1>8 DEF TeardownChannelClosed
<1>9. ASSUME NEW r \in Request, TeardownChannelThrows(r) PROVE ConnectionInv'
  BY <1>9 DEF TeardownChannelThrows
<1>10. ASSUME NEW r \in Request, TeardownClear(r) PROVE ConnectionInv'
  BY <1>10 DEF TeardownClear
<1>11. ASSUME NEW r \in Request, TeardownCheck(r) PROVE ConnectionInv'
  BY <1>11 DEF TeardownCheck, TeardownReturns
<1>12. ASSUME NEW r \in Request, NullReference(r) PROVE ConnectionInv'
  BY <1>12 DEF NullReference
<1>13. ASSUME NEW r \in Request, TeardownIsOpen(r) PROVE ConnectionInv'
  BY <1>13 DEF TeardownIsOpen
<1>14. ASSUME NEW r \in Request, TeardownClose(r) PROVE ConnectionInv'
  BY <1>14 DEF TeardownClose
<1>15. ASSUME NEW r \in Request, TeardownCloseLate(r) PROVE ConnectionInv'
  BY <1>15 DEF TeardownCloseLate
<1>16. ASSUME NEW r \in Request, TeardownDispose(r) PROVE ConnectionInv'
  BY <1>16 DEF TeardownDispose
<1>17. ASSUME NEW r \in Request, TeardownNull(r) PROVE ConnectionInv'
  BY <1>17 DEF TeardownNull, TeardownReturns
<1>18. ASSUME NEW r \in Request, ConnectOpen(r) PROVE ConnectionInv'
  BY <1>18 DEF ConnectOpen
<1>19. ASSUME NEW r \in Request, ConnectUnreachable(r) PROVE ConnectionInv'
  BY <1>19 DEF ConnectUnreachable
<1>20. ASSUME NEW r \in Request, CreateChannel(r) PROVE ConnectionInv'
  BY <1>20 DEF CreateChannel
<1>21. ASSUME NEW r \in Request, CreateChannelFails(r) PROVE ConnectionInv'
  BY <1>21 DEF CreateChannelFails
<1>22. ASSUME NEW r \in Request, DeclareQueue(r) PROVE ConnectionInv'
  BY <1>22 DEF DeclareQueue
<1>23. ASSUME NEW r \in Request, Consume(r) PROVE ConnectionInv'
  BY <1>23 DEF Consume
<1>24. ASSUME NEW r \in Request, WireFails(r) PROVE ConnectionInv'
  BY <1>24 DEF WireFails
<1>25. ASSUME NEW r \in Request, RegisterSubscription(r) PROVE ConnectionInv'
  BY <1>25 DEF RegisterSubscription
<1>26. ASSUME NEW r \in Request, RemoveSubscription(r) PROVE ConnectionInv'
  BY <1>26 DEF RemoveSubscription
<1>27. ASSUME NEW r \in Request, CloseUnsubscribed(r) PROVE ConnectionInv'
  BY <1>27 DEF CloseUnsubscribed
<1>28. ASSUME NEW r \in Request, CloseUnsubscribedThrows(r) PROVE ConnectionInv'
  BY <1>28 DEF CloseUnsubscribedThrows
<1>29. ASSUME NEW r \in Request, DisposeUnsubscribed(r) PROVE ConnectionInv'
  BY <1>29 DEF DisposeUnsubscribed
<1>30. ASSUME NEW r \in Request, DeclareExchange(r) PROVE ConnectionInv'
  BY <1>30 DEF DeclareExchange
<1>31. ASSUME NEW r \in Request, Publish(r) PROVE ConnectionInv'
  BY <1>31 DEF Publish
<1>32. ASSUME NEW r \in Request, SendFails(r) PROVE ConnectionInv'
  BY <1>32 DEF SendFails
<1>33. ASSUME NEW r \in Request, SendCancelled(r) PROVE ConnectionInv'
  BY <1>33 DEF SendCancelled
<1>34. ASSUME NEW r \in Request, DisposeSend(r) PROVE ConnectionInv'
  BY <1>34 DEF DisposeSend
<1>35. ASSUME NEW r \in Request, AwaitCancelled(r) PROVE ConnectionInv'
  BY <1>35 DEF AwaitCancelled
<1>36. ASSUME NEW r \in Request, Return(r) PROVE ConnectionInv'
  BY <1>36 DEF Return
<1>37. ASSUME NEW r \in Request, Cancel(r) PROVE ConnectionInv'
  BY <1>37 DEF Cancel
<1>38. ASSUME NEW r \in Request, NEW h \in Handle, Unsubscribe(r, h) PROVE ConnectionInv'
  BY <1>38 DEF Unsubscribe, EnterUnsubscribe
<1>39. ASSUME NEW c \in Conn, Drop(c) PROVE ConnectionInv'
  BY <1>39 DEF Drop
<1>40. ASSUME NEW c \in Conn, Recover(c) PROVE ConnectionInv'
  BY <1>40 DEF Recover
<1>41. CASE UNCHANGED vars
  BY <1>41 DEF vars
<1> QED
  BY <1>1, <1>2, <1>3, <1>4, <1>5, <1>6, <1>7, <1>8, <1>9, <1>10, <1>11, <1>12, <1>13,
     <1>14, <1>15, <1>16, <1>17, <1>18, <1>19, <1>20, <1>21, <1>22, <1>23, <1>24, <1>25,
     <1>26, <1>27, <1>28, <1>29, <1>30, <1>31, <1>32, <1>33, <1>34, <1>35, <1>36, <1>37,
     <1>38, <1>39, <1>40, <1>41
     DEF Next, Call, Step, TeardownStep, SubscribeStep

\* A live consumer leaves the dictionary and the hands of a request only when that
\* request is aborted.
LEMMA TrackedStep ==
    ASSUME TypeOK, LocalsInv, LockInv, ChannelInv, TrackedInv, [Next]_vars
    PROVE  TrackedInv'
<1> USE NoneAssumption
        DEF TypeOK, LocalsInv, LockInv, ChannelInv, TrackedInv, Alive, Owns, Steps,
            TeardownSteps, Ops, Link, Free, locals, adapter, broker, history, Registered, Goto,
            Finish, Idle, Begin, UseConnection, ChannelsFollow, CloseConn, CloseChan
<1>1. ASSUME NEW r \in Request, Connect(r) PROVE TrackedInv'
  BY <1>1 DEF Connect
<1>2. ASSUME NEW r \in Request, Disconnect(r) PROVE TrackedInv'
  BY <1>2 DEF Disconnect
<1>3. ASSUME NEW r \in Request, Subscribe(r) PROVE TrackedInv'
  BY <1>3 DEF Subscribe
<1>4. ASSUME NEW r \in Request, DeclareReply(r) PROVE TrackedInv'
  BY <1>4 DEF DeclareReply
<1>5. ASSUME NEW r \in Request, Send(r) PROVE TrackedInv'
  BY <1>5 DEF Send, EnterSend, RejectBlankRoutingKey
<1>6. ASSUME NEW r \in Request, TeardownLock(r) PROVE TrackedInv'
  BY <1>6 DEF TeardownLock
<1>7. ASSUME NEW r \in Request, TeardownChannel(r) PROVE TrackedInv'
  BY <1>7 DEF TeardownChannel
<1>8. ASSUME NEW r \in Request, TeardownChannelClosed(r) PROVE TrackedInv'
  BY <1>8 DEF TeardownChannelClosed
<1>9. ASSUME NEW r \in Request, TeardownChannelThrows(r) PROVE TrackedInv'
  BY <1>9 DEF TeardownChannelThrows
<1>10. ASSUME NEW r \in Request, TeardownClear(r) PROVE TrackedInv'
  BY <1>10 DEF TeardownClear
<1>11. ASSUME NEW r \in Request, TeardownCheck(r) PROVE TrackedInv'
  BY <1>11 DEF TeardownCheck, TeardownReturns
<1>12. ASSUME NEW r \in Request, NullReference(r) PROVE TrackedInv'
  BY <1>12 DEF NullReference
<1>13. ASSUME NEW r \in Request, TeardownIsOpen(r) PROVE TrackedInv'
  BY <1>13 DEF TeardownIsOpen
<1>14. ASSUME NEW r \in Request, TeardownClose(r) PROVE TrackedInv'
  BY <1>14 DEF TeardownClose
<1>15. ASSUME NEW r \in Request, TeardownCloseLate(r) PROVE TrackedInv'
  BY <1>15 DEF TeardownCloseLate
<1>16. ASSUME NEW r \in Request, TeardownDispose(r) PROVE TrackedInv'
  BY <1>16 DEF TeardownDispose
<1>17. ASSUME NEW r \in Request, TeardownNull(r) PROVE TrackedInv'
  BY <1>17 DEF TeardownNull, TeardownReturns
<1>18. ASSUME NEW r \in Request, ConnectOpen(r) PROVE TrackedInv'
  BY <1>18 DEF ConnectOpen
<1>19. ASSUME NEW r \in Request, ConnectUnreachable(r) PROVE TrackedInv'
  BY <1>19 DEF ConnectUnreachable
<1>20. ASSUME NEW r \in Request, CreateChannel(r) PROVE TrackedInv'
  <2>1. PICK k \in Channel :
          /\ chanState[k] = "unused"
          /\ chanState' = [chanState EXCEPT ![k] = "open"]
          /\ channel' = [channel EXCEPT ![r] = k]
    BY <1>20 DEF CreateChannel
  <2>2. UNCHANGED <<consuming, abandoned, subscriptionChannels>> /\ pc[r] = "createChannel"
    BY <1>20 DEF CreateChannel
  <2>3. \A q \in Request : q # r => pc'[q] = pc[q] /\ channel'[q] = channel[q]
    BY <1>20, <2>1 DEF CreateChannel
  <2>4. ~consuming[k]
    BY <2>1
  <2>5. \A q \in Request : pc'[q] \in {"declareQueue", "consume", "declareExchange", "publish"}
          => ~consuming'[channel'[q]]
    BY <2>1, <2>2, <2>3, <2>4
  <2>6. ASSUME NEW j \in Channel, Alive(chanState'[j]), consuming'[j]
        PROVE  \/ \E h \in Handle : subscriptionChannels'[h] = j
               \/ \E q \in Request : channel'[q] = j /\ pc'[q] \in {"register", "closeChannel"}
               \/ j \in abandoned'
    <3>1. Alive(chanState[j]) /\ consuming[j]
      BY <2>1, <2>2, <2>4, <2>6
    <3>2. CASE \E h \in Handle : subscriptionChannels[h] = j
      BY <3>2, <2>2
    <3>3. CASE \E q \in Request : channel[q] = j /\ pc[q] \in {"register", "closeChannel"}
      BY <3>3, <2>2, <2>3
    <3> QED
      BY <2>2, <3>1, <3>2, <3>3
  <2> QED
    BY <2>1, <2>2, <2>5, <2>6
<1>21. ASSUME NEW r \in Request, CreateChannelFails(r) PROVE TrackedInv'
  BY <1>21 DEF CreateChannelFails
<1>22. ASSUME NEW r \in Request, DeclareQueue(r) PROVE TrackedInv'
  BY <1>22 DEF DeclareQueue
<1>23. ASSUME NEW r \in Request, Consume(r) PROVE TrackedInv'
  BY <1>23 DEF Consume
<1>24. ASSUME NEW r \in Request, WireFails(r) PROVE TrackedInv'
  BY <1>24 DEF WireFails
<1>25. ASSUME NEW r \in Request, RegisterSubscription(r) PROVE TrackedInv'
  BY <1>25 DEF RegisterSubscription
<1>26. ASSUME NEW r \in Request, RemoveSubscription(r) PROVE TrackedInv'
  <2>1. /\ UNCHANGED <<chanState, consuming, abandoned>>
        /\ handle[r] \in Handle /\ pc[r] = "remove" /\ pc'[r] \in {"done", "closeChannel"}
        /\ channel'[r] = subscriptionChannels[handle[r]]
    BY <1>26 DEF RemoveSubscription
  <2>2. /\ \A q \in Request \ {r} : pc'[q] = pc[q] /\ channel'[q] = channel[q]
        /\ channel'[r] # None => pc'[r] = "closeChannel"
    BY <1>26 DEF RemoveSubscription
  <2>3. \A h \in Handle \ {handle[r]} : subscriptionChannels'[h] = subscriptionChannels[h]
    BY <1>26 DEF RemoveSubscription
  <2>4. \A q \in Request : pc'[q] \in {"declareQueue", "consume", "declareExchange", "publish"}
          => ~consuming'[channel'[q]]
    BY <2>1, <2>2
  <2>5. ASSUME NEW k \in Channel, Alive(chanState'[k]), consuming'[k]
        PROVE  \/ \E h \in Handle : subscriptionChannels'[h] = k
               \/ \E q \in Request : channel'[q] = k /\ pc'[q] \in {"register", "closeChannel"}
               \/ k \in abandoned'
    <3>1. Alive(chanState[k]) /\ consuming[k]
      BY <2>1, <2>5
    <3>2. CASE \E h \in Handle : subscriptionChannels[h] = k
      BY <3>2, <2>1, <2>2, <2>3
    <3>3. CASE \E q \in Request : channel[q] = k /\ pc[q] \in {"register", "closeChannel"}
      BY <3>3, <2>1, <2>2
    <3> QED
      BY <2>1, <3>1, <3>2, <3>3
  <2> QED
    BY <2>1, <2>4, <2>5
<1>27. ASSUME NEW r \in Request, CloseUnsubscribed(r) PROVE TrackedInv'
  BY <1>27 DEF CloseUnsubscribed
<1>28. ASSUME NEW r \in Request, CloseUnsubscribedThrows(r) PROVE TrackedInv'
  BY <1>28 DEF CloseUnsubscribedThrows
<1>29. ASSUME NEW r \in Request, DisposeUnsubscribed(r) PROVE TrackedInv'
  BY <1>29 DEF DisposeUnsubscribed
<1>30. ASSUME NEW r \in Request, DeclareExchange(r) PROVE TrackedInv'
  BY <1>30 DEF DeclareExchange
<1>31. ASSUME NEW r \in Request, Publish(r) PROVE TrackedInv'
  BY <1>31 DEF Publish
<1>32. ASSUME NEW r \in Request, SendFails(r) PROVE TrackedInv'
  BY <1>32 DEF SendFails
<1>33. ASSUME NEW r \in Request, SendCancelled(r) PROVE TrackedInv'
  BY <1>33 DEF SendCancelled
<1>34. ASSUME NEW r \in Request, DisposeSend(r) PROVE TrackedInv'
  BY <1>34 DEF DisposeSend
<1>35. ASSUME NEW r \in Request, AwaitCancelled(r) PROVE TrackedInv'
  BY <1>35 DEF AwaitCancelled
<1>36. ASSUME NEW r \in Request, Return(r) PROVE TrackedInv'
  BY <1>36 DEF Return
<1>37. ASSUME NEW r \in Request, Cancel(r) PROVE TrackedInv'
  BY <1>37 DEF Cancel
<1>38. ASSUME NEW r \in Request, NEW h \in Handle, Unsubscribe(r, h) PROVE TrackedInv'
  BY <1>38 DEF Unsubscribe, EnterUnsubscribe
<1>39. ASSUME NEW c \in Conn, Drop(c) PROVE TrackedInv'
  BY <1>39 DEF Drop
<1>40. ASSUME NEW c \in Conn, Recover(c) PROVE TrackedInv'
  BY <1>40 DEF Recover
<1>41. CASE UNCHANGED vars
  BY <1>41 DEF vars
<1> QED
  BY <1>1, <1>2, <1>3, <1>4, <1>5, <1>6, <1>7, <1>8, <1>9, <1>10, <1>11, <1>12, <1>13,
     <1>14, <1>15, <1>16, <1>17, <1>18, <1>19, <1>20, <1>21, <1>22, <1>23, <1>24, <1>25,
     <1>26, <1>27, <1>28, <1>29, <1>30, <1>31, <1>32, <1>33, <1>34, <1>35, <1>36, <1>37,
     <1>38, <1>39, <1>40, <1>41
     DEF Next, Call, Step, TeardownStep, SubscribeStep

\* While a connection lives that was assigned outside the window of every other request,
\* the field names it and nobody enters the window but by disposing of it.
LEMMA RacedStep ==
    ASSUME TypeOK, LocalsInv, RacedInv, [Next]_vars
    PROVE  RacedInv'
<1> USE NoneAssumption
        DEF TypeOK, RacedInv, Alive, Steps, TeardownSteps, Ops, Link, locals, adapter, broker,
            history, Goto, Finish, Idle, Begin, ChannelsFollow, CloseConn, CloseChan
<1>1. ASSUME NEW r \in Request, Call(r) PROVE RacedInv'
  BY <1>1
     DEF Call, Connect, Disconnect, Subscribe, DeclareReply, Send, EnterSend, UseConnection,
         RejectBlankRoutingKey, Unsubscribe, EnterUnsubscribe
<1>2. ASSUME NEW r \in Request, TeardownStep(r) PROVE RacedInv'
  <2>1. CASE TeardownLock(r) \/ TeardownChannel(r) \/ TeardownChannelClosed(r)
    BY <2>1 DEF TeardownLock, TeardownChannel, TeardownChannelClosed
  <2>2. CASE TeardownChannelThrows(r) \/ TeardownClear(r)
    BY <2>2 DEF TeardownChannelThrows, TeardownClear
  <2>3. CASE TeardownCheck(r)
    BY <2>3 DEF TeardownCheck, TeardownReturns
  <2>4. CASE NullReference(r) \/ TeardownIsOpen(r) \/ TeardownCloseLate(r)
    BY <2>4 DEF NullReference, TeardownIsOpen, TeardownCloseLate
  <2>5. CASE TeardownClose(r) \/ TeardownDispose(r)
    BY <2>5 DEF TeardownClose, TeardownDispose
  <2>6. CASE TeardownNull(r)
    BY <2>6 DEF TeardownNull, TeardownReturns
  <2> QED
    BY <1>2, <2>1, <2>2, <2>3, <2>4, <2>5, <2>6 DEF TeardownStep
<1>3. ASSUME NEW r \in Request, ConnectOpen(r) PROVE RacedInv'
  <2>1. PICK c \in Conn :
          /\ connState[c] = "unused"
          /\ connState' = [connState EXCEPT ![c] = "open"]
          /\ connection' = c
          /\ raced' = IF InsideWindow(r) THEN raced \cup {c} ELSE raced
    BY <1>3 DEF ConnectOpen
  <2>2. pc[r] = "connecting" /\ pc' = [pc EXCEPT ![r] = "done"]
    BY <1>3 DEF ConnectOpen
  <2>3. \A d \in Conn : Alive(connState[d]) => d \in raced
    BY <2>2
  <2>4. SUFFICES ASSUME NEW d \in Conn, Alive(connState'[d]), d \notin raced'
                 PROVE  d = c /\ \A q \in Request : pc'[q] \notin {"tdNull", "connecting"}
    BY <2>1
  <2>5. d = c
    BY <2>1, <2>3, <2>4
  <2>6. ~InsideWindow(r)
    BY <2>1, <2>4, <2>5
  <2> QED
    BY <2>2, <2>5, <2>6 DEF InsideWindow
<1>4. ASSUME NEW r \in Request, SubscribeStep(r) PROVE RacedInv'
  <2>1. CASE CreateChannel(r)
    BY <2>1 DEF CreateChannel
  <2>2. CASE ~CreateChannel(r)
    BY <1>4, <2>2
       DEF SubscribeStep, CreateChannelFails, DeclareQueue, Consume, WireFails,
           RegisterSubscription
  <2> QED
    BY <2>1, <2>2
<1>5. ASSUME NEW r \in Request, Step(r), ~TeardownStep(r), ~SubscribeStep(r), ~ConnectOpen(r)
      PROVE  RacedInv'
  BY <1>5
     DEF Step, ConnectUnreachable, RemoveSubscription, CloseUnsubscribed,
         CloseUnsubscribedThrows, DisposeUnsubscribed, DeclareExchange, Publish, SendFails,
         SendCancelled, DisposeSend, AwaitCancelled
<1>6. ASSUME NEW r \in Request, Return(r) \/ Cancel(r) PROVE RacedInv'
  BY <1>6 DEF Return, Cancel
<1>7. ASSUME NEW c \in Conn, Drop(c) \/ Recover(c) PROVE RacedInv'
  BY <1>7 DEF Drop, Recover
<1>8. CASE UNCHANGED vars
  BY <1>8 DEF vars
<1> QED
  BY <1>1, <1>2, <1>3, <1>4, <1>5, <1>6, <1>7, <1>8 DEF Next

-----------------------------------------------------------------------------
(* Theorems *)

\* At first nobody holds the semaphore, and there are no channels.
LEMMA IndInit == Init => IndInv
BY NoneAssumption, DropsAssumption
   DEF Init, IndInv, TypeOK, LocalsInv, LockInv, ChannelInv, OpInv, TrackedInv, RacedInv,
       Alive, Owns, Registered, Steps, TeardownSteps, Closing, Ops, Link, Outcomes

\* Every step keeps the seven parts.
LEMMA IndStep == IndInv /\ [Next]_vars => IndInv'
BY TypeStep, LocalsStep, LockStep, ChannelStep, OpStep, TrackedStep, RacedStep DEF IndInv

\* The invariant of the adapter: the semaphore is held during a teardown's loop only,
\* the loop sees a dictionary that does not change, and every channel has one owner.
THEOREM InductiveInvariant == Spec => []IndInv
BY IndInit, IndStep, PTL DEF Spec

\* Every variable keeps its type.
THEOREM TypeCorrect == Spec => []TypeOK
<1>1. IndInv => TypeOK
  BY DEF IndInv
<1> QED
  BY InductiveInvariant, <1>1, PTL

\* TeardownAsync's enumeration of the dictionary is never disturbed, whoever
\* subscribes, unsubscribes, connects or aborts meanwhile.
THEOREM EnumerationIsStable == Spec => EnumerationStable
<1> DEFINE A == \A r \in Request : pc[r] \in {"tdLoop", "tdChannel"} =>
                  \/ subscriptionChannels' = subscriptionChannels
                  \/ pc[r] = "tdLoop" /\ todo[r] = {} /\ pc'[r] = "tdCheck"
<1>1. IndInv /\ [Next]_vars => A
  <2> SUFFICES ASSUME IndInv, [Next]_vars, NEW r \in Request, pc[r] \in {"tdLoop", "tdChannel"},
                      subscriptionChannels' # subscriptionChannels
               PROVE  pc[r] = "tdLoop" /\ todo[r] = {} /\ pc'[r] = "tdCheck"
    OBVIOUS
  <2>1. subscriptionsLock = r
    BY DEF IndInv, LockInv
  <2>2. PICK q \in Request : \/ TeardownClear(q) \/ RegisterSubscription(q)
                             \/ RemoveSubscription(q)
    <3>1. ASSUME NEW q \in Request, Call(q) \/ Return(q) \/ Cancel(q)
          PROVE  FALSE
      BY <3>1
         DEF Call, Connect, Disconnect, Subscribe, DeclareReply, Send, EnterSend,
             RejectBlankRoutingKey, EnterUnsubscribe, Unsubscribe, UseConnection, Return,
             Cancel, adapter
    <3>2. ASSUME NEW q \in Request, TeardownStep(q), ~TeardownClear(q)
          PROVE  FALSE
      BY <3>2
         DEF TeardownStep, TeardownLock, TeardownChannel, TeardownChannelClosed,
             TeardownChannelThrows, TeardownCheck, NullReference, TeardownIsOpen,
             TeardownClose, TeardownCloseLate, TeardownDispose, TeardownNull, adapter
    <3>3. ASSUME NEW q \in Request, SubscribeStep(q), ~RegisterSubscription(q)
          PROVE  FALSE
      BY <3>3
         DEF SubscribeStep, CreateChannel, CreateChannelFails, DeclareQueue, Consume,
             WireFails, adapter
    <3>4. ASSUME NEW q \in Request, Step(q), ~TeardownStep(q), ~SubscribeStep(q),
                 ~RemoveSubscription(q)
          PROVE  FALSE
      BY <3>4
         DEF Step, ConnectOpen, ConnectUnreachable, CloseUnsubscribed,
             CloseUnsubscribedThrows, DisposeUnsubscribed, DeclareExchange, Publish,
             SendFails, SendCancelled, DisposeSend, AwaitCancelled, adapter
    <3>5. ASSUME NEW c \in Conn, Drop(c) \/ Recover(c)
          PROVE  FALSE
      BY <3>5 DEF Drop, Recover, adapter
    <3>6. CASE UNCHANGED vars
      BY <3>6 DEF vars, adapter
    <3> QED
      BY <3>1, <3>2, <3>3, <3>4, <3>5, <3>6 DEF Next
  <2>3. ~RegisterSubscription(q) /\ ~RemoveSubscription(q)
    BY <2>1, NoneAssumption DEF RegisterSubscription, RemoveSubscription, Free
  <2>4. TeardownClear(q) /\ q = r
    BY <2>1, <2>2, <2>3 DEF TeardownClear, IndInv, LockInv
  <2> QED
    BY <2>4 DEF TeardownClear, Goto, IndInv, TypeOK
<1>2. IndInv /\ [Next]_vars => [A]_vars
  BY <1>1
<1> QED
  BY InductiveInvariant, <1>2, PTL DEF Spec, EnumerationStable

\* Whatever overlaps, fails or is aborted, a connection is orphaned in one way only: it
\* was assigned to the field while another request was about to overwrite it.
THEOREM OrphansOnlyRaced == Spec => []OrphansAreRaced
<1>1. IndInv => OrphansAreRaced
  BY DEF IndInv, RacedInv, OrphansAreRaced
<1> QED
  BY InductiveInvariant, <1>1, PTL

\* Every live consumer can be stopped, unless the client whose request made or removed
\* it went away at one of the three awaits that leave it behind.
THEOREM ConsumersTracked == Spec => []NoUntrackedConsumer
<1>1. IndInv => NoUntrackedConsumer
  BY DEF IndInv, TrackedInv, NoUntrackedConsumer, Live, Alive
<1> QED
  BY InductiveInvariant, <1>1, PTL

\* Nobody but a visiting teardown, or the end of its connection, closes a channel that
\* is still registered: an unsubscribe, a send or a failed subscribe closes only its own.
THEOREM RegisteredChannelsStayOpen == Spec => RegisteredStaysOpen
<1> DEFINE Allowed(h) ==
             \/ \E r \in Request : pc[r] = "tdLoop" /\ h \in todo[r]
             \/ \E r \in Request : pc[r] = "tdChannel" /\ channel[r] = subscriptionChannels[h]
             \/ connState'[chanConn[subscriptionChannels[h]]] = "closed"
           Closes(h) == /\ chanState[subscriptionChannels[h]] # "closed"
                        /\ chanState'[subscriptionChannels[h]] = "closed"
           A == \A h \in Registered : Closes(h) => Allowed(h)
<1>1. IndInv /\ [Next]_vars => A
  <2> SUFFICES ASSUME IndInv, [Next]_vars, NEW h \in Registered, Closes(h)
               PROVE  Allowed(h)
    OBVIOUS
  <2> DEFINE k == subscriptionChannels[h]
  <2>1. k \in Channel /\ h \in Handle
    BY DEF IndInv, TypeOK, Registered
  <2>2. \A r \in Request : Owns(r) => channel[r] # k
    BY <2>1 DEF IndInv, ChannelInv
  <2>3. chanState' # chanState
    OBVIOUS
  <2>4. ASSUME NEW r \in Request, Owns(r), CloseChan(channel[r])
        PROVE  FALSE
    BY <2>1, <2>2, <2>4 DEF CloseChan, IndInv, TypeOK, LocalsInv
  <2>5. ASSUME NEW c \in Conn, CloseConn(c)
        PROVE  Allowed(h)
    BY <2>1, <2>5 DEF CloseConn, ChannelsFollow, IndInv, TypeOK
  <2>6. ASSUME NEW r \in Request, Call(r) \/ Return(r) \/ Cancel(r)
        PROVE  FALSE
    BY <2>3, <2>6
       DEF Call, Connect, Disconnect, Subscribe, DeclareReply, Send, EnterSend,
           RejectBlankRoutingKey, EnterUnsubscribe, Unsubscribe, UseConnection, Return,
           Cancel, broker
  <2>7. ASSUME NEW r \in Request, TeardownStep(r)
        PROVE  Allowed(h)
    <3>1. CASE TeardownChannel(r)
      <4>1. PICK g \in todo[r] : CloseChan(subscriptionChannels[g])
        BY <2>3, <3>1 DEF TeardownChannel, broker
      <4>2. g \in Registered /\ pc[r] = "tdLoop"
        BY <3>1, <4>1 DEF TeardownChannel, IndInv, LockInv
      <4>3. subscriptionChannels[g] = k
        BY <2>1, <4>1, <4>2 DEF CloseChan, IndInv, TypeOK, Registered
      <4>4. g = h
        BY <4>2, <4>3 DEF IndInv, ChannelInv
      <4> QED
        BY <4>1, <4>2, <4>4
    <3>2. CASE TeardownClose(r) \/ TeardownDispose(r)
      BY <2>5, <3>2 DEF TeardownClose, TeardownDispose, IndInv, TypeOK
    <3>3. CASE TeardownChannelClosed(r) \/ TeardownChannelThrows(r)
      <4>1. CloseChan(channel[r]) /\ pc[r] = "tdChannel" /\ channel[r] \in Channel
        BY <2>3, <3>3
           DEF TeardownChannelClosed, TeardownChannelThrows, broker, IndInv, LocalsInv
      <4>2. channel[r] = k
        BY <2>1, <4>1 DEF CloseChan, IndInv, TypeOK
      <4> QED
        BY <4>1, <4>2
    <3>4. CASE ~TeardownChannel(r) /\ ~TeardownClose(r) /\ ~TeardownDispose(r)
               /\ ~TeardownChannelClosed(r) /\ ~TeardownChannelThrows(r)
      BY <2>3, <2>7, <3>4
         DEF TeardownStep, TeardownLock, TeardownClear, TeardownCheck, NullReference,
             TeardownIsOpen, TeardownCloseLate, TeardownNull, broker
    <3> QED
      BY <3>1, <3>2, <3>3, <3>4
  <2>8. ASSUME NEW r \in Request, SubscribeStep(r)
        PROVE  FALSE
    <3>1. CASE CreateChannel(r)
      BY <2>1, <3>1 DEF CreateChannel, IndInv, TypeOK
    <3>2. CASE WireFails(r)
      BY <2>3, <2>4, <3>2 DEF WireFails, Owns, broker
    <3>3. CASE ~CreateChannel(r) /\ ~WireFails(r)
      BY <2>3, <2>8, <3>3
         DEF SubscribeStep, CreateChannelFails, DeclareQueue, Consume, RegisterSubscription,
             broker
    <3> QED
      BY <3>1, <3>2, <3>3
  <2>9. ASSUME NEW r \in Request, Step(r), ~TeardownStep(r), ~SubscribeStep(r)
        PROVE  Allowed(h)
    <3>1. CASE CloseUnsubscribed(r) \/ CloseUnsubscribedThrows(r) \/ DisposeSend(r) \/ SendFails(r)
      BY <2>3, <2>4, <3>1
         DEF CloseUnsubscribed, CloseUnsubscribedThrows, DisposeSend, SendFails, Owns,
             broker
    <3>2. CASE AwaitCancelled(r)
      <4>1. ASSUME Owns(r), chanState' = [chanState EXCEPT ![channel[r]] = "closed"]
            PROVE  FALSE
        BY <2>1, <2>2, <4>1 DEF IndInv, TypeOK, LocalsInv
      <4> QED
        BY <2>3, <2>5, <3>2, <4>1 DEF AwaitCancelled, Owns, broker, IndInv, TypeOK
    <3>3. CASE \/ ConnectOpen(r) \/ ConnectUnreachable(r) \/ RemoveSubscription(r)
               \/ DisposeUnsubscribed(r) \/ DeclareExchange(r) \/ Publish(r) \/ SendCancelled(r)
      BY <2>3, <3>3
         DEF ConnectOpen, ConnectUnreachable, RemoveSubscription, DisposeUnsubscribed,
             DeclareExchange, Publish, SendCancelled, broker
    <3> QED
      BY <2>9, <3>1, <3>2, <3>3 DEF Step
  <2>10. ASSUME NEW c \in Conn, Drop(c) \/ Recover(c)
         PROVE  FALSE
    BY <2>1, <2>10 DEF Drop, Recover, ChannelsFollow, IndInv, TypeOK
  <2>11. CASE UNCHANGED vars
    BY <2>3, <2>11 DEF vars, broker
  <2> QED
    BY <2>6, <2>7, <2>8, <2>9, <2>10, <2>11 DEF Next
<1> HIDE DEF A
<1>2. IndInv /\ [Next]_vars =>
        [\A h \in Registered :
            LET k == subscriptionChannels[h] IN
            chanState[k] # "closed" /\ chanState'[k] = "closed" =>
              \/ \E r \in Request : pc[r] = "tdLoop" /\ h \in todo[r]
              \/ \E r \in Request : pc[r] = "tdChannel" /\ channel[r] = k
              \/ connState'[chanConn[k]] = "closed"]_vars
  BY <1>1 DEF A
<1> QED
  BY InductiveInvariant, <1>2, PTL DEF Spec, RegisteredStaysOpen

-----------------------------------------------------------------------------
(* What a step of the port does to the state the layers above it see: it makes a
   channel, enters a subscription, takes one out, empties the dictionary, or works on
   what the request already has. *)

\* r gets a channel nobody had before.
Creates(r) ==
    /\ pc[r] = "createChannel"
    /\ \E k \in Channel :
         /\ chanState[k] = "unused"
         /\ chanState' = [chanState EXCEPT ![k] = "open"]
         /\ channel' = [channel EXCEPT ![r] = k]
    /\ pc'[r] \in {"declareQueue", "consume", "declareExchange", "publish"}
    /\ UNCHANGED <<handle, subscriptionChannels, issued>>

\* r returns a new handle, in the dictionary with the channel r has made.
Registers(r) ==
    /\ pc[r] = "register" /\ pc'[r] = "done" /\ outcome'[r] = "ok"
    /\ \E h \in Handle \ issued :
         /\ issued' = issued \cup {h}
         /\ handle' = [handle EXCEPT ![r] = h]
         /\ subscriptionChannels' = [subscriptionChannels EXCEPT ![h] = channel[r]]
    /\ UNCHANGED <<channel, chanState>>

\* r takes the entry of its handle, if there is one, and has its channel to close.
Removes(r) ==
    /\ pc[r] = "remove"
    /\ channel' = [channel EXCEPT ![r] = subscriptionChannels[handle[r]]]
    /\ subscriptionChannels' = [subscriptionChannels EXCEPT ![handle[r]] = None]
    /\ IF subscriptionChannels[handle[r]] = None
       THEN pc'[r] = "done" /\ outcome'[r] = "ok"
       ELSE pc'[r] = "closeChannel"
    /\ UNCHANGED <<handle, issued, chanState>>

\* A teardown empties the dictionary, of channels it has closed.
Clears(r) ==
    /\ op[r] \in {"connect", "disconnect"} /\ pc'[r] = "tdCheck"
    /\ subscriptionChannels' = [h \in Handle |-> None]
    /\ \A h \in Registered : chanState[subscriptionChannels[h]] = "closed"
    /\ UNCHANGED <<channel, handle, issued, chanState>>

\* The other steps leave the dictionary alone; a channel is closed before its request
\* leaves it, and a call succeeds only at its end.
Works(r) ==
    /\ UNCHANGED <<handle, subscriptionChannels, issued>>
    /\ op[r] \notin {"connect", "disconnect"} => UNCHANGED channel
    /\ \A l \in {"declareQueue", "consume", "register", "declareExchange", "publish",
                "disposeSend"} :
          pc'[r] = l => Owns(r) /\ pc[r] \notin Closing
    /\ pc'[r] \in Closing => pc[r] = "closeChannel" /\ pc'[r] = "disposeChannel"
    /\ pc'[r] \notin {"remove"}
    /\ pc'[r] = "done" /\ outcome'[r] = "ok" =>
          pc[r] \notin {"createChannel", "declareQueue", "consume", "register", "remove"}
    /\ pc[r] = "closeChannel" /\ ~cancelled[r] => chanState'[channel[r]] = "closed"
    /\ pc[r] = "remove" => cancelled[r]

\* What no step of r does: touch another request, or use a channel again.
Frame(r) ==
    /\ \A q \in Request \ {r} : /\ pc'[q] = pc[q] /\ outcome'[q] = outcome[q]
                                /\ channel'[q] = channel[q] /\ handle'[q] = handle[q]
    /\ UNCHANGED <<op, cancelled>>
    /\ pc[r] \notin {"idle", "done"} /\ pc'[r] # "idle"
    /\ \A k \in Channel : chanState'[k] = "unused" => chanState[k] = "unused"
    /\ \A k \in Channel : chanState[k] = "closed" => chanState'[k] = "closed"

\* Each step of the port is of one of these kinds.
LEMMA StepEffect ==
    ASSUME IndInv, NEW r \in Request, Step(r)
    PROVE  /\ Frame(r)
           /\ Creates(r) \/ Registers(r) \/ Removes(r) \/ Clears(r) \/ Works(r)
<1> USE NoneAssumption
        DEF IndInv, TypeOK, Steps, TeardownSteps, Ops, Link, Outcomes, Closing, OpInv,
            locals, adapter, broker, Goto, Finish, ChannelsFollow, CloseConn, CloseChan,
            Owns
<1> DEFINE Effect == Creates(r) \/ Registers(r) \/ Removes(r) \/ Clears(r) \/ Works(r)
<1> HIDE DEF Effect
<1>1. CASE TeardownLock(r) \/ TeardownChannelClosed(r)
  <2>1. Frame(r)
    BY <1>1 DEF Frame, TeardownLock, TeardownChannelClosed
  <2>2. Works(r)
    BY <1>1 DEF TeardownLock, TeardownChannelClosed, Works
  <2> QED BY <2>1, <2>2 DEF Effect
<1>2. CASE TeardownChannel(r)
  <2>1. Frame(r)
    BY <1>2 DEF Frame, TeardownChannel, LockInv, Registered
  <2>2. Works(r)
    BY <1>2 DEF TeardownChannel, Works, LockInv, Registered
  <2> QED BY <2>1, <2>2 DEF Effect
<1>3. CASE TeardownChannelThrows(r) \/ TeardownCheck(r)
  <2>1. Frame(r)
    BY <1>3 DEF Frame, TeardownChannelThrows, TeardownCheck, TeardownReturns
  <2>2. Works(r)
    BY <1>3 DEF TeardownChannelThrows, TeardownCheck, TeardownReturns, Works
  <2> QED BY <2>1, <2>2 DEF Effect
<1>4. CASE TeardownClear(r)
  <2>1. Frame(r)
    BY <1>4 DEF Frame, TeardownClear, LockInv, Registered
  <2>2. Clears(r)
    BY <1>4 DEF TeardownClear, Clears, LockInv, Registered
  <2> QED BY <2>1, <2>2 DEF Effect
<1>5. CASE NullReference(r) \/ TeardownIsOpen(r) \/ TeardownCloseLate(r)
  <2>1. Frame(r)
    BY <1>5 DEF Frame, NullReference, TeardownIsOpen, TeardownCloseLate
  <2>2. Works(r)
    BY <1>5 DEF NullReference, TeardownIsOpen, TeardownCloseLate, Works
  <2> QED BY <2>1, <2>2 DEF Effect
<1>6. CASE TeardownClose(r) \/ TeardownDispose(r) \/ TeardownNull(r)
  <2>1. Frame(r)
    BY <1>6 DEF Frame, TeardownClose, TeardownDispose, TeardownNull, TeardownReturns
  <2>2. Works(r)
    BY <1>6 DEF TeardownClose, TeardownDispose, TeardownNull, TeardownReturns, Works
  <2> QED BY <2>1, <2>2 DEF Effect
<1>7. CASE ConnectOpen(r) \/ ConnectUnreachable(r)
  <2>0. op[r] \in {"connect", "disconnect"} /\ pc[r] = "connecting"
    BY <1>7 DEF ConnectOpen, ConnectUnreachable
  <2>1. Frame(r)
    BY <1>7 DEF Frame, ConnectOpen, ConnectUnreachable
  <2>2. Works(r)
    BY <1>7, <2>0 DEF ConnectOpen, ConnectUnreachable, Works
  <2> QED BY <2>1, <2>2 DEF Effect
<1>8. CASE CreateChannel(r)
  <2>1. Frame(r)
    BY <1>8 DEF Frame, CreateChannel
  <2>2. /\ pc'[r] \in {"declareQueue", "consume", "declareExchange", "publish"}
        /\ pc[r] = "createChannel" /\ UNCHANGED <<handle, subscriptionChannels, issued>>
    BY <1>8 DEF CreateChannel
  <2>3. Creates(r)
    BY <1>8, <2>2 DEF CreateChannel, Creates
  <2> QED BY <2>1, <2>3 DEF Effect
<1>9. CASE CreateChannelFails(r) \/ DeclareQueue(r) \/ Consume(r)
  <2>1. Frame(r)
    BY <1>9 DEF Frame, CreateChannelFails, Translated, DeclareQueue, Consume
  <2>2. Works(r)
    BY <1>9 DEF CreateChannelFails, Translated, DeclareQueue, Consume, Works
  <2> QED BY <2>1, <2>2 DEF Effect
<1>10. CASE WireFails(r)
  <2>1. Frame(r)
    BY <1>10 DEF Frame, WireFails, ChannelLost, ChannelInv, LocalsInv
  <2>2. Works(r)
    BY <1>10 DEF WireFails, ChannelLost, Works, ChannelInv, LocalsInv
  <2> QED BY <2>1, <2>2 DEF Effect
<1>11. CASE RegisterSubscription(r)
  <2>1. Frame(r)
    BY <1>11 DEF Frame, RegisterSubscription
  <2>2. Registers(r)
    BY <1>11 DEF RegisterSubscription, Registers
  <2> QED BY <2>1, <2>2 DEF Effect
<1>12. CASE RemoveSubscription(r)
  <2>1. Frame(r)
    BY <1>12 DEF Frame, RemoveSubscription, LocalsInv
  <2>2. Removes(r)
    BY <1>12 DEF RemoveSubscription, Removes, LocalsInv
  <2> QED BY <2>1, <2>2 DEF Effect
<1>13. CASE CloseUnsubscribed(r) \/ CloseUnsubscribedThrows(r) \/ DisposeUnsubscribed(r)
  <2>1. Frame(r)
    BY <1>13
       DEF Frame, CloseUnsubscribed, CloseUnsubscribedThrows, DisposeUnsubscribed,
           ChannelLost, LocalsInv
  <2>2. Works(r)
    BY <1>13
       DEF CloseUnsubscribed, CloseUnsubscribedThrows, DisposeUnsubscribed, ChannelLost,
           Works, LocalsInv
  <2> QED BY <2>1, <2>2 DEF Effect
<1>14. CASE DeclareExchange(r) \/ Publish(r) \/ SendCancelled(r)
  <2>1. Frame(r)
    BY <1>14 DEF Frame, DeclareExchange, Publish, SendCancelled
  <2>2. Works(r)
    BY <1>14 DEF DeclareExchange, Publish, SendCancelled, Works
  <2> QED BY <2>1, <2>2 DEF Effect
<1>15. CASE SendFails(r) \/ DisposeSend(r)
  <2>1. Frame(r)
    BY <1>15 DEF Frame, SendFails, DisposeSend, ChannelLost, LocalsInv
  <2>2. Works(r)
    BY <1>15 DEF SendFails, DisposeSend, ChannelLost, Works, LocalsInv
  <2> QED BY <2>1, <2>2 DEF Effect
<1>16. CASE AwaitCancelled(r)
  <2>1. Frame(r)
    BY <1>16 DEF Frame, AwaitCancelled, LocalsInv
  <2>2. Works(r)
    BY <1>16 DEF AwaitCancelled, Works, LocalsInv
  <2> QED BY <2>1, <2>2 DEF Effect
<1> HIDE DEF IndInv, TypeOK, Steps, TeardownSteps, Ops, Link, Outcomes, Closing, OpInv,
             locals, adapter, broker, Goto, Finish, ChannelsFollow, CloseConn, CloseChan,
             Owns
<1> QED
  BY <1>1, <1>2, <1>3, <1>4, <1>5, <1>6, <1>7, <1>8, <1>9, <1>10, <1>11, <1>12, <1>13,
     <1>14, <1>15, <1>16
     DEF Step, TeardownStep, SubscribeStep
=============================================================================
