----------------------------- MODULE ConnectPanel -----------------------------
(***************************************************************************)
(* ConnectComponent in one tab, over the adapter its requests reach: the   *)
(* pending and connected flags against the connection the process holds.   *)
(*                                                                         *)
(* A request of the panel is a connect or a disconnect of the adapter; the *)
(* other requests are those of the other panels.  A reload, or a network   *)
(* failure, leaves the request behind: the server notices as a             *)
(* cancellation and goes on until an await asks for it, beside what the    *)
(* new page asks for.  What hubStatusLabel shows is LiveFeed's.            *)
(***************************************************************************)
EXTENDS RabbitMqAdapter

VARIABLES
    pending, connected,
    errorMessage,   \* how the last connect failed, None
    request,        \* the request this page waits for, None
    overlapped      \* history: a connect or disconnect began while another ran

\* No error is not the name of one.
ASSUME ErrorAssumption == None \notin Outcomes

panel  == <<pending, connected, errorMessage, request, overlapped>>
cpVars == <<vars, panel>>

Lifecycle(r) == pc[r] \notin {"idle", "done"} /\ op[r] \in {"connect", "disconnect"}

\* What a click on either button begins.
Waits(r) ==
    /\ pending' = TRUE
    /\ request' = r
    /\ overlapped' = (overlapped \/ \E q \in Request : Lifecycle(q))
    /\ UNCHANGED connected

\* BuildConfig: a configuration BusConnectionConfig refuses never reaches the adapter.
RejectConfig(r) ==
    /\ Idle(r) /\ r \in LifecycleRequest
    /\ op' = [op EXCEPT ![r] = "connect"]
    /\ Finish(r, "fault")
    /\ UNCHANGED <<locals, cancelled, adapter, issued, broker>>

\* The buttons are disabled while a request is pending.
connect(r) ==
    /\ ~connected /\ ~pending
    /\ Connect(r) \/ RejectConfig(r)
    /\ errorMessage' = None
    /\ Waits(r)

disconnect(r) ==
    /\ connected /\ ~pending
    /\ Disconnect(r)
    /\ Waits(r)
    /\ UNCHANGED errorMessage

\* The handlers of the answer: only a connect that succeeded leaves the panel connected.
Settled(o, result) ==
    /\ pending' = FALSE
    /\ request' = None
    /\ connected' = (o = "connect" /\ result = "ok")
    /\ errorMessage' = IF o = "connect" /\ result # "ok" THEN result ELSE errorMessage
    /\ UNCHANGED overlapped

\* Mutant: the error handler of a connect leaves the panel connected.
AnsweredIgnoresError(r) ==
    /\ request = r /\ Return(r)
    /\ pending' = FALSE /\ request' = None
    /\ connected' = (op[r] = "connect")
    /\ UNCHANGED <<errorMessage, overlapped>>

Answered(r) == request = r /\ Return(r) /\ Settled(op[r], outcome[r])

\* The client of r is gone, whatever r has come to.
Abandon(r) == IF pc[r] = "done" THEN UNCHANGED vars ELSE Cancel(r)

\* Mutant: the error handler does not reset pending.
AnswerLostStaysPending(r) ==
    /\ request = r /\ Abandon(r)
    /\ request' = None /\ connected' = FALSE
    /\ UNCHANGED <<pending, errorMessage, overlapped>>

\* The network fails between the browser and the server: an error like any other.
AnswerLost(r) == request = r /\ Abandon(r) /\ Settled(op[r], "fault")

\* A reload: the new page knows of no connection.
Reload ==
    /\ IF request = None THEN UNCHANGED vars ELSE Abandon(request)
    /\ pending' = FALSE /\ connected' = FALSE
    /\ errorMessage' = None /\ request' = None
    /\ UNCHANGED overlapped

OtherRequest(r) ==
    /\ \/ Subscribe(r) \/ DeclareReply(r) \/ Send(r)
       \/ \E h \in issued : Unsubscribe(r, h)
       \/ r # request /\ (Return(r) \/ Cancel(r))
    /\ UNCHANGED panel

AdapterStep(r) == Step(r) /\ UNCHANGED panel

CPInit ==
    /\ Init
    /\ pending = FALSE /\ connected = FALSE
    /\ errorMessage = None /\ request = None
    /\ overlapped = FALSE

CPNext ==
    \/ \E r \in Request :
          \/ connect(r) \/ disconnect(r) \/ Answered(r) \/ AnswerLost(r)
          \/ AdapterStep(r) \/ OtherRequest(r)
    \/ Reload
    \/ \E c \in Conn : (Drop(c) \/ Recover(c)) /\ UNCHANGED panel

CPSpec == CPInit /\ [][CPNext]_cpVars

\* As in RabbitMqAdapter, with every answer delivered or lost.
CPFairness == \A r \in Request :
    /\ WF_cpVars(AdapterStep(r))
    /\ WF_cpVars(Answered(r) \/ (r # request /\ Return(r) /\ UNCHANGED panel))
    /\ SF_cpVars(AcquiresLock(r) /\ UNCHANGED panel)
CPFairSpec == CPSpec /\ CPFairness

-----------------------------------------------------------------------------
(* Properties *)

\* "The pending state clears and the corresponding button re-enables": the panel is
\* pending exactly while a connect or disconnect of its own is in flight, so it is
\* pending for ever only if that request never returns, which RequestReturns excludes.
PendingMeansWaiting ==
    /\ pending = (request # None)
    /\ pending => pc[request] # "idle" /\ op[request] \in {"connect", "disconnect"}

\* A panel that says connected has a connection to disconnect: the process holds one
\* that is not closed, whatever failed, was lost or was left by an earlier page. Holds
\* as long as no two connects or disconnects overlap.
ConnectedHasConnection ==
    connected /\ ~pending /\ ~overlapped =>
        connection # None /\ Alive(connState[connection])

\* "A clear failure message with no partial connection retained": after a connect to
\* an unreachable broker no connection is left, the one before included.
NoPartialConnection ==
    errorMessage = "connection" /\ ~pending /\ ~overlapped =>
        connection = None /\ \A c \in Conn : ~Alive(connState[c])

-----------------------------------------------------------------------------
(* The inductive invariant behind the last two *)

HasConnection == connection # None /\ Alive(connState[connection])

\* As long as no two connects or disconnects have overlapped, the adapter is at one of
\* them at a time, the page's own if it waits for one; what it has answered, or is about
\* to answer, is what the field holds.
PanelSafe == ~overlapped =>
    /\ ConnectionInv
    /\ \A r1, r2 \in Request : Lifecycle(r1) /\ Lifecycle(r2) => r1 = r2
    /\ request # None => \A r \in Request : Lifecycle(r) => r = request
    /\ request # None /\ pc[request] = "done" /\ op[request] = "connect" =>
          /\ outcome[request] = "ok" => HasConnection
          /\ outcome[request] = "connection" => connection = None
    /\ connected /\ request = None => HasConnection /\ \A r \in Request : ~Lifecycle(r)
    /\ errorMessage = "connection" =>
          /\ ~connected /\ request = None /\ connection = None
          /\ \A r \in Request : ~Lifecycle(r)
=============================================================================
