-------------------------------- MODULE MCPage --------------------------------
(***************************************************************************)
(* Model checking of Page.  Its parts share little state, so the user of   *)
(* one behavior keeps to one of several repertoires: each explores the     *)
(* parts it uses, and the product of parts that do not touch each other is *)
(* left out.                                                               *)
(***************************************************************************)
EXTENDS Page, TLC

VARIABLE repertoire

MCTarget == {[routingKey |-> "r1", correlationId |-> "c1"],
             [routingKey |-> "r2", correlationId |-> None]}
MCReplyTarget == [k1 |-> [routingKey |-> "r1", correlationId |-> "c1"],
                  k2 |-> [routingKey |-> "r2", correlationId |-> None],
                  k3 |-> None]
MCFinds == [t1 |-> {"k1", "k3"}]
MCAnswers == [s \in Subscription |-> {"k1"}]

FirstPost == CHOOSE p \in Post : TRUE

\* Two messages come, one with and one without a correlation id, their chip may go;
\* then their rows are clicked and replies are written, redirected and sent.
Respond ==
    \/ /\ draft = None /\ sendLog = << >> /\ FeedStep
       /\ Cardinality(known') <= 1 /\ replies' = {} /\ ~paused' /\ searchTerm' = NoTerm
       /\ [i \in 1..Len(feed') |-> feed'[i].content] \in {<< >>, <<"k1">>, <<"k2", "k1">>}
    \/ /\ {m.content : m \in In(screen)} = {"k1", "k2"}
       /\ \/ \E m \in In(screen) : respond(m)
          \/ /\ UNCHANGED fdVars
             /\ \/ onRoutingKeyInput("r2") \/ onExchangeInput("x1") \/ PayloadInput("p1")
                \/ ToggleExpectReply \/ ReplyInput \/ Recalling
                \/ send(FirstPost) /\ Len(sendLog) < 2
                \/ SendSucceeds(FirstPost) \/ SendSettles(FirstPost)

\* Every value of the three fields, seen and sent.
Fields ==
    /\ \/ AddressInput \/ \E f \in SendField : onBlur(f)
       \/ sendBlocked \/ send(FirstPost)
    /\ UNCHANGED fdVars

\* Header fields, saved and loaded again; no write fails.
Headers ==
    /\ \/ /\ HeaderInput
          /\ \A k \in ComunesKey : headersForm'.comunes[k] # "v1"
          /\ \A i \in 1..Len(headersForm'.rows) : headersForm'.rows[i].value \in {Empty, "v1"}
       \/ \E n \in TemplateName : saveTemplate(n) /\ templates = {}
       \/ \E t \in templates : useTemplate(t) \/ deleteTemplate(t.name)
    /\ outOfStep' = {}
    /\ UNCHANGED fdVars

\* Sends that overlap, and recalling them.
History ==
    /\ \/ onRoutingKeyInput("r1") \/ onExchangeInput("x1") \/ PayloadInput("p1")
       \/ ToggleExpectReply \/ Sending \/ Recalling \/ OutsideWrite("recentSends", {})
    /\ UNCHANGED fdVars

\* Templates of the same and of different names.
Saving ==
    /\ \/ onRoutingKeyInput("r1") \/ PayloadInput("p1")
       \/ Templates \/ OutsideWrite("templates", {})
    /\ UNCHANGED fdVars

MCNext ==
    /\ UNCHANGED repertoire
    /\ \/ repertoire = "respond" /\ Respond
       \/ repertoire = "fields" /\ Fields
       \/ repertoire = "headers" /\ Headers
       \/ repertoire = "history" /\ History
       \/ repertoire = "saving" /\ Saving
       \/ repertoire = "feed" /\ FeedStep /\ \A m \in In(feed') : m.content # "k3"
       \/ PageReload

MCInit == repertoire \in {"respond", "fields", "headers", "history", "saving", "feed"} /\ PageInit
MCSpec == MCInit /\ [][MCNext]_<<pageVars, repertoire>>

\* Subscriptions are interchangeable.
Symmetry == Permutations(Subscription)
=============================================================================
