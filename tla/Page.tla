--------------------------------- MODULE Page ---------------------------------
(***************************************************************************)
(* The two panels of the page that hand something over: a click on the     *)
(* Responder button of a row on the screen is a request to the send panel. *)
(***************************************************************************)
EXTENDS SendPanel, FeedDisplay

CONSTANT ReplyTarget    \* the reply target of each content, None without a replyTo

ASSUME PageAssumption ==
    /\ ReplyTarget \in [MessageContent -> Target \cup {None}]
    /\ Target = {ReplyTarget[c] : c \in MessageContent} \ {None}

pageVars == <<spVars, fdVars>>

\* respond: the button is there in rows with a replyTo.  The row may be of a message
\* that is gone, of a chip that is gone, or frozen.
respond(m) ==
    /\ ReplyTarget[m.content] \in Target
    /\ Request(ReplyTarget[m.content])
    /\ UNCHANGED fdVars

SendPanelStep ==
    /\ \/ \E f \in SendField : onBlur(f)
       \/ AddressInput \/ HeaderInput \/ ToggleExpectReply
       \/ ReplyInput \/ Sending \/ Recalling \/ Templates
       \/ \E list \in {"recentSends", "templates"} : OutsideWrite(list, {})
    /\ UNCHANGED fdVars

FeedStep == FDNext /\ UNCHANGED spVars

\* A reload starts both panels anew.
PageReload ==
    /\ Reload
    /\ feed' = << >> /\ next' = 0 /\ chips' = {} /\ replies' = {}
    /\ paused' = FALSE /\ searchTerm' = NoTerm
    /\ changed' = FALSE /\ sourcePaused' = FALSE
    /\ rows' = << >> /\ newSeqs' = {}
    /\ screen' = << >> /\ playing' = {} /\ shownBefore' = {} /\ hidden' = {}
    /\ held' = {}
    /\ UNCHANGED known

PageInit == SPInit /\ FDInit

PageNext ==
    \/ \E m \in In(screen) : respond(m)
    \/ SendPanelStep \/ FeedStep \/ PageReload

PageSpec == PageInit /\ [][PageNext]_pageVars
=============================================================================
