----------------------------- MODULE FeedDisplay -----------------------------
(***************************************************************************)
(* MessagesComponent as a reader of the message list: pausing, searching,  *)
(* the highlight of new rows, the counters of the chips and the replies.   *)
(*                                                                         *)
(* displayState is a linkedSignal: it is computed again when it is read    *)
(* after its source changed, and change detection reads it.  Events are    *)
(* coalesced: several may come before one Render.  A user acts on what is  *)
(* rendered, so a click follows the rendering of the click before.         *)
(***************************************************************************)
EXTENDS MessageList, FiniteSets

CONSTANTS
    Term,               \* search terms, not blank
    NoTerm,             \* an empty or blank search field
    Finds,              \* the contents each term is found in
    Answers,            \* the contents with the correlation id of each subscription
    MaxArrivals         \* bound: messages

ASSUME FeedDisplayAssumption ==
    /\ NoTerm \notin Term
    /\ Finds \in [Term -> SUBSET MessageContent]
    /\ Answers \in [Subscription -> SUBSET MessageContent]
    /\ MaxArrivals \in Nat

VARIABLES
    paused, searchTerm,
    changed,        \* the source of displayState changed since it was computed
    sourcePaused,   \* the paused it was computed from
    rows, newSeqs,  \* its value
    screen,         \* the rows on the screen
    playing,        \* history: rows the last render started the animation of
    shownBefore,    \* history: messages on the screen before the last render
    hidden,         \* history: messages a search took off the screen the last time they left it
    held            \* history: messages that arrived while the feed was paused

display == <<changed, sourcePaused, rows, newSeqs, screen, playing, shownBefore, hidden>>
fdVars  == <<mlVars, paused, searchTerm, display, held>>

In(list) == {list[i] : i \in 1..Len(list)}
Seqs(list) == {m.seq : m \in In(list)}

OfSubscriptions(list, subscriptions) ==
    Filtered(list, {i \in 1..Len(list) : list[i].subscriptionId \in subscriptions})

visibleMessages == OfSubscriptions(feed, chips)

filteredMessages(list) ==
    IF searchTerm = NoTerm THEN list
    ELSE Filtered(list, {i \in 1..Len(list) : list[i].content \in Finds[searchTerm]})

chipCounts == [s \in chips |-> Cardinality({m \in In(feed) : m.subscriptionId = s})]

replyPanel == [s \in replies |-> {m \in In(feed) : m.subscriptionId = s /\ m.content \in Answers[s]}]

-----------------------------------------------------------------------------
(* The source of the rows *)

\* messages or subscriptions changed.
MessagesChange(s) ==
    /\ \/ Put(s) /\ changed' = (changed \/ chips' # chips) /\ UNCHANGED held
       \/ RemoveSubscription(s) /\ changed' = TRUE /\ UNCHANGED held
       \/ /\ next < MaxArrivals
          /\ \E c \in MessageContent : Arrive(s, c)
          /\ changed' = TRUE
          /\ held' = IF paused THEN held \cup {next} ELSE held
    /\ UNCHANGED <<paused, searchTerm, sourcePaused, rows, newSeqs, screen, playing, shownBefore,
                   hidden>>

\* A click on the button that says what is rendered.
togglePause ==
    /\ sourcePaused = paused
    /\ paused' = ~paused
    /\ changed' = TRUE
    /\ UNCHANGED <<mlVars, searchTerm, sourcePaused, rows, newSeqs, screen, playing, shownBefore,
                   hidden, held>>

SearchInput(term) ==
    /\ searchTerm # term
    /\ searchTerm' = term
    /\ UNCHANGED <<mlVars, paused, display, held>>

-----------------------------------------------------------------------------
(* displayState *)

\* Mutant: a resumed feed is compared with the frozen rows.
ComputeHighlightsResumed ==
    IF paused THEN UNCHANGED <<rows, newSeqs>>
    ELSE /\ rows' = visibleMessages
         /\ newSeqs' = Seqs(rows') \ Seqs(rows)

\* Mutant: the rows follow the messages while paused.
ComputeUnfrozen ==
    /\ rows' = visibleMessages
    /\ newSeqs' = IF paused \/ sourcePaused THEN {} ELSE Seqs(rows') \ Seqs(rows)

\* Mutant: highlights are added to the earlier ones.
ComputeHighlightsAccumulate ==
    IF paused THEN UNCHANGED <<rows, newSeqs>>
    ELSE /\ rows' = visibleMessages
         /\ newSeqs' = newSeqs \cup IF sourcePaused THEN {} ELSE Seqs(rows') \ Seqs(rows)

\* The computation: frozen while paused, no highlight for what a resume catches up
\* with, otherwise a highlight for what was not a row the last time.
Compute ==
    IF paused THEN UNCHANGED <<rows, newSeqs>>
    ELSE /\ rows' = visibleMessages
         /\ newSeqs' = IF sourcePaused THEN {} ELSE Seqs(rows') \ Seqs(rows)

\* isNewRow
Highlighted(list, seqs) == {m \in In(list) : m.seq \in seqs}

\* Change detection: rows keep their elements by seq; an element that gets the class,
\* or is created with it, plays the animation.
Render ==
    /\ changed \/ screen # filteredMessages(rows)
    /\ IF changed THEN Compute /\ sourcePaused' = paused
       ELSE UNCHANGED <<rows, newSeqs, sourcePaused>>
    /\ changed' = FALSE
    /\ screen' = filteredMessages(rows')
    /\ playing' = Highlighted(screen', newSeqs') \ Highlighted(screen, newSeqs)
    /\ shownBefore' = shownBefore \cup Seqs(screen)
    /\ hidden' = (hidden \ Seqs(screen)) \cup ((Seqs(screen) \ Seqs(screen')) \cap Seqs(rows'))
    /\ UNCHANGED <<mlVars, paused, searchTerm, held>>

-----------------------------------------------------------------------------
FDInit ==
    /\ MLInit
    /\ paused = FALSE /\ searchTerm = NoTerm
    /\ changed = FALSE /\ sourcePaused = FALSE
    /\ rows = << >> /\ newSeqs = {}
    /\ screen = << >> /\ playing = {} /\ shownBefore = {} /\ hidden = {}
    /\ held = {}

FDNext ==
    \/ \E s \in Subscription : MessagesChange(s)
    \/ togglePause
    \/ \E term \in Term \cup {NoTerm} : SearchInput(term)
    \/ Render

FDSpec == FDInit /\ [][FDNext]_fdVars

-----------------------------------------------------------------------------
(* Properties *)

FDTypeOK ==
    /\ feed \in Seq(Message) /\ next \in 0..MaxArrivals
    /\ chips \subseteq known /\ replies \subseteq known /\ known \subseteq Subscription
    /\ paused \in BOOLEAN /\ searchTerm \in Term \cup {NoTerm}
    /\ changed \in BOOLEAN /\ sourcePaused \in BOOLEAN
    /\ rows \in Seq(Message) /\ screen \in Seq(Message) /\ playing \subseteq In(screen)
    /\ newSeqs \subseteq Seqs(rows) /\ shownBefore \subseteq 0..(next - 1)
    /\ hidden \subseteq 0..(next - 1) /\ held \subseteq 0..(next - 1)

\* "Genuinely new messages arriving while the feed is live": the animation of a row
\* starts only if the row was not on the screen before and did not arrive during a
\* pause, whatever was cleared, paused, resumed and searched in between.  It starts
\* again only in a row that a search hid and shows again.
HighlightIsFresh ==
    \A m \in playing :
        /\ m.seq \notin held
        /\ m.seq \in shownBefore => m.seq \in hidden

\* While the feed is paused nothing new comes to the screen except by searching, and
\* the rows of every chip that is still there stay as they are, though messages arrive
\* and others are unsubscribed.
FrozenWhilePaused ==
    [][paused /\ paused' /\ searchTerm' = searchTerm /\ screen = filteredMessages(rows)
          => /\ In(screen') \subseteq In(screen)
             /\ OfSubscriptions(screen', chips') = OfSubscriptions(screen, chips')]_fdVars

\* The counter of a chip accounts for every row of it on the screen, even for frozen
\* and filtered rows while the counters go on.
CountersCoverScreen ==
    \A s \in chips :
        Cardinality({m \in In(screen) : m.subscriptionId = s}) <= chipCounts[s]

\* A reply is shown in the reply panel or in the feed, never in both.
NeverShownTwice ==
    \A s \in replies : replyPanel[s] \cap In(screen) = {}
=============================================================================
