------------------------------ MODULE PageProofs ------------------------------
(***************************************************************************)
(* Theorems about Page: the send panel in the page is the send panel its   *)
(* theorems are about, a paused feed stands still, and what the feed shows *)
(* of the messages that arrived: the animation is for rows that are new or *)
(* come back from a search, a reply is in its own panel only, and the      *)
(* counters account for the screen.                                        *)
(***************************************************************************)
EXTENDS Page, SendPanelProofs, ArrayFilterProofs, FiniteSetTheorems

\* A Responder click asks for a reply to some target, and every other step is one of the
\* send panel or leaves it alone.
LEMMA PageStepIsPanelStep ==
    ASSUME [PageNext]_pageVars
    PROVE  [SPNext]_spVars
<1>1. ASSUME NEW m \in In(screen), respond(m) PROVE SPNext
  BY <1>1 DEF respond, SPNext
<1>2. CASE SendPanelStep
  BY <1>2 DEF SendPanelStep, SPNext
<1>3. CASE FeedStep
  BY <1>3 DEF FeedStep
<1>4. CASE PageReload
  BY <1>4 DEF PageReload, SPNext
<1>5. CASE UNCHANGED pageVars
  BY <1>5 DEF pageVars
<1> QED
  BY <1>1, <1>2, <1>3, <1>4, <1>5 DEF PageNext

\* Whatever the page does with the messages, its send panel behaves as SendPanel says,
\* which carries every theorem about the panel over to the page.
THEOREM PageRefinesSendPanel == PageSpec => SPSpec
<1>1. PageInit => SPInit
  BY DEF PageInit
<1> QED
  BY <1>1, PageStepIsPanelStep, PTL DEF PageSpec, SPSpec

\* A request sent in reply mode goes back to its sender, whichever row was clicked.
THEOREM PageRepliesGoBack == PageSpec => []RepliesMatchTheirRequest
  BY PageRefinesSendPanel, RepliesGoBack, PTL

\* A step of a paused feed leaves the screen alone, unless it is a search.
LEMMA PausedStepFreezes ==
    ASSUME [PageNext]_pageVars,
           paused, paused', searchTerm' = searchTerm, screen = filteredMessages(rows)
    PROVE  screen' = screen
<1>1. CASE \E m \in In(screen) : respond(m)
  BY <1>1 DEF respond, fdVars, display
<1>2. CASE SendPanelStep
  BY <1>2 DEF SendPanelStep, fdVars, display
<1>3. CASE FeedStep
  <2>1. CASE \E s \in Subscription : MessagesChange(s)
    BY <2>1 DEF MessagesChange
  <2>2. CASE togglePause
    BY <2>2 DEF togglePause
  <2>3. CASE \E term \in Term \cup {NoTerm} : SearchInput(term)
    BY <2>3 DEF SearchInput, display
  <2>4. CASE Render
    BY <2>4 DEF Render, Compute
  <2> QED
    BY <1>3, <2>1, <2>2, <2>3, <2>4 DEF FeedStep, FDNext
<1>4. CASE PageReload
  BY <1>4 DEF PageReload
<1>5. CASE UNCHANGED pageVars
  BY <1>5 DEF pageVars, fdVars, display
<1> QED
  BY <1>1, <1>2, <1>3, <1>4, <1>5 DEF PageNext

\* Nothing new comes to the screen of a paused feed and the rows of the chips that are
\* still there stay, through arrivals, removed chips and resets of the computation, for
\* every set of messages and subscriptions.
THEOREM PauseFreezes == PageSpec => FrozenWhilePaused
<1>1. [PageNext]_pageVars =>
        [paused /\ paused' /\ searchTerm' = searchTerm /\ screen = filteredMessages(rows)
            => /\ In(screen') \subseteq In(screen)
               /\ OfSubscriptions(screen', chips') = OfSubscriptions(screen, chips')]_fdVars
  BY PausedStepFreezes
<1> QED
  BY <1>1, PTL DEF PageSpec, FrozenWhilePaused

-----------------------------------------------------------------------------
(* The rows on the screen against the messages there are *)

\* The rows, and those of them the search lets through.
OnScreen == In(rows) \cup In(screen)

\* A row, however long ago it was frozen or filtered, is of a subscription that was put on
\* the screen and is not a reply; if its chip is still there, so is its message.  No two
\* messages have the same number.
RowsInv ==
    /\ chips \cap replies = {}
    /\ \A m, n \in OnScreen \cup In(feed) : m.seq = n.seq => m = n
    /\ \A m \in In(feed) : m.seq < next /\ m.subscriptionId \in known
    /\ \A m \in OnScreen :
          /\ m.seq < next /\ m.subscriptionId \in known \ replies
          /\ m.subscriptionId \in chips => m \in In(feed)

\* Messages that are or were on the screen.
Shown == shownBefore \cup Seqs(screen)

\* No row highlighted as new came during a pause.  A message of a chip that was shown is
\* a row, for as long as there is the chip; a row that was shown is on the screen unless
\* a search hid it; a message that is no row and came during a pause waits for the resume.
FreshInv ==
    /\ HighlightIsFresh
    /\ newSeqs \cap held = {}
    /\ Seqs(rows) \cap shownBefore \subseteq Seqs(screen) \cup hidden
    /\ \A m \in In(feed) : m.subscriptionId \in chips =>
          /\ m.seq \in Shown => m.seq \in Seqs(rows)
          /\ m.seq \in held => m.seq \in Seqs(rows) \/ paused \/ sourcePaused

\* The inductive invariant of the feed's display.
FDInv == FDTypeOK /\ RowsInv /\ FreshInv

\* filter takes elements out of a list and adds none.
LEMMA FilteredIn ==
    ASSUME NEW S, NEW list \in Seq(S), NEW passing
    PROVE  /\ Filtered(list, passing) \in Seq(S)
           /\ In(Filtered(list, passing)) = {list[i] : i \in passing \cap 1..Len(list)}
<1> DEFINE t == Filtered(list, passing)
<1>1. t \in Seq(S) /\ \E at : Picks(at, t, list, passing, Len(list))
  BY FilteredPicks
<1> HIDE DEF t
<1>2. PICK at : Picks(at, t, list, passing, Len(list))
  BY <1>1
<1>3. /\ at \in [1..Len(t) -> 1..Len(list)]
      /\ \A k \in 1..Len(t) : at[k] \in passing /\ t[k] = list[at[k]]
      /\ \A i \in passing \cap 1..Len(list) : \E k \in 1..Len(t) : at[k] = i
  BY <1>2, Zenon DEF Picks
<1>4. In(t) = {list[i] : i \in passing \cap 1..Len(list)}
  <2>1. \A k \in 1..Len(t) : at[k] \in passing \cap 1..Len(list) /\ t[k] = list[at[k]]
    BY <1>3
  <2>2. \A i \in passing \cap 1..Len(list) : \E k \in 1..Len(t) : t[k] = list[i]
    BY <1>3
  <2> QED
    BY <2>1, <2>2 DEF In
<1> QED
  BY <1>1, <1>4 DEF t

\* The elements of a list are of its type.
LEMMA InTyped == ASSUME NEW S, NEW list \in Seq(S) PROVE \A m \in In(list) : m \in S
BY DEF In

\* visibleMessages: the messages of the chips.
LEMMA VisibleIn ==
    ASSUME feed \in Seq(Message)
    PROVE  /\ visibleMessages \in Seq(Message)
           /\ In(visibleMessages) = {m \in In(feed) : m.subscriptionId \in chips}
<1> DEFINE passing == {i \in 1..Len(feed) : feed[i].subscriptionId \in chips}
<1>1. /\ Filtered(feed, passing) \in Seq(Message)
      /\ In(Filtered(feed, passing)) = {feed[i] : i \in passing \cap 1..Len(feed)}
  <2> HIDE DEF passing
  <2> QED
    BY FilteredIn
<1>2. {feed[i] : i \in passing \cap 1..Len(feed)} = {m \in In(feed) : m.subscriptionId \in chips}
  BY DEF In
<1> QED
  BY <1>1, <1>2 DEF visibleMessages, OfSubscriptions

\* clearSubscription: the messages of the other subscriptions.
LEMMA WithoutIn ==
    ASSUME feed \in Seq(Message), NEW s
    PROVE  /\ Without(s) \in Seq(Message)
           /\ In(Without(s)) = {m \in In(feed) : m.subscriptionId # s}
<1> DEFINE passing == {i \in 1..Len(feed) : feed[i].subscriptionId # s}
<1>1. /\ Filtered(feed, passing) \in Seq(Message)
      /\ In(Filtered(feed, passing)) = {feed[i] : i \in passing \cap 1..Len(feed)}
  <2> HIDE DEF passing
  <2> QED
    BY FilteredIn
<1>2. {feed[i] : i \in passing \cap 1..Len(feed)} = {m \in In(feed) : m.subscriptionId # s}
  BY DEF In
<1> QED
  BY <1>1, <1>2 DEF Without

\* filteredMessages: some of the rows.
LEMMA SearchedIn ==
    ASSUME NEW list \in Seq(Message)
    PROVE  /\ filteredMessages(list) \in Seq(Message)
           /\ In(filteredMessages(list)) \subseteq In(list)
<1> DEFINE passing == {i \in 1..Len(list) : list[i].content \in Finds[searchTerm]}
<1>1. /\ Filtered(list, passing) \in Seq(Message)
      /\ In(Filtered(list, passing)) = {list[i] : i \in passing \cap 1..Len(list)}
  <2> HIDE DEF passing
  <2> QED
    BY FilteredIn
<1>2. {list[i] : i \in passing \cap 1..Len(list)} \subseteq In(list)
  BY DEF In
<1> QED
  BY <1>1, <1>2 DEF filteredMessages

\* Sequence numbers are numbers.
LEMMA SeqIsNat == \A m \in Message : m.seq \in Nat
BY DEF Message

\* A message arrives in front of the others.
LEMMA ArriveIn ==
    ASSUME feed \in Seq(Message), next \in Nat, NEW s \in Subscription, NEW c \in MessageContent,
           Arrive(s, c)
    PROVE  /\ feed' \in Seq(Message)
           /\ In(feed') = In(feed) \cup {[subscriptionId |-> s, content |-> c, seq |-> next]}
<1> DEFINE e == [subscriptionId |-> s, content |-> c, seq |-> next]
<1>1. e \in Message
  BY DEF Message
<1>2. feed' = <<e>> \o feed
  BY DEF Arrive
<1> HIDE DEF e
<1>3. feed' \in Seq(Message)
  BY <1>1, <1>2
<1>4. /\ Len(feed') = Len(feed) + 1 /\ Len(feed) \in Nat /\ feed'[1] = e
      /\ \A i \in 1..Len(feed) : i + 1 \in 1..Len(feed') /\ feed'[i + 1] = feed[i]
  BY <1>1, <1>2
<1>5. \A i \in 1..Len(feed') : i = 1 \/ (i - 1 \in 1..Len(feed) /\ feed'[i] = feed[i - 1])
  BY <1>1, <1>2, <1>4
<1>6. In(feed') = In(feed) \cup {e}
  BY <1>4, <1>5 DEF In
<1> QED
  BY <1>3, <1>6 DEF e

\* A chip or a pending reply is added, for a subscription that is new.
LEMMA PutStep ==
    ASSUME FDInv, NEW s \in Subscription, Put(s),
           changed' = (changed \/ chips' # chips) /\ UNCHANGED held,
           UNCHANGED <<paused, searchTerm, sourcePaused, rows, newSeqs, screen, playing,
                       shownBefore, hidden>>
    PROVE  FDInv'
<1> USE DEF FDInv, Put
<1>1. FDTypeOK'
  BY DEF FDTypeOK
<1>2. RowsInv'
  BY DEF RowsInv, FDTypeOK, OnScreen, In
<1>3. FreshInv'
  <2>1. \A m \in In(feed) : m.subscriptionId \in chips' => m.subscriptionId \in chips
    BY DEF RowsInv
  <2> QED
    BY <2>1 DEF FreshInv, HighlightIsFresh, Shown, Seqs, In
<1> QED
  BY <1>1, <1>2, <1>3

\* A chip goes with its messages, and leaves at most frozen rows behind.
LEMMA RemoveStep ==
    ASSUME FDInv, NEW s \in Subscription, RemoveSubscription(s),
           changed' = TRUE /\ UNCHANGED held,
           UNCHANGED <<paused, searchTerm, sourcePaused, rows, newSeqs, screen, playing,
                       shownBefore, hidden>>
    PROVE  FDInv'
<1> USE DEF FDInv, RemoveSubscription
<1>1. feed' \in Seq(Message) /\ In(feed') = {m \in In(feed) : m.subscriptionId # s}
  BY WithoutIn DEF FDTypeOK
<1>2. FDTypeOK'
  BY <1>1 DEF FDTypeOK
<1>3. RowsInv'
  <2>1. UNCHANGED OnScreen
    BY DEF OnScreen, In
  <2> QED
    BY <1>1, <2>1 DEF RowsInv
<1>4. FreshInv'
  <2>1. UNCHANGED <<Seqs(rows), Seqs(screen)>>
    BY DEF Seqs, In
  <2> QED
    BY <1>1, <2>1 DEF FreshInv, HighlightIsFresh, Shown
<1> QED
  BY <1>2, <1>3, <1>4

\* A message that arrives is not on the screen yet; during a pause it is held back.
LEMMA ArriveStep ==
    ASSUME FDInv, NEW s \in Subscription, NEW c \in MessageContent, Arrive(s, c),
           next < MaxArrivals,
           changed' = TRUE, held' = IF paused THEN held \cup {next} ELSE held,
           UNCHANGED <<paused, searchTerm, sourcePaused, rows, newSeqs, screen, playing,
                       shownBefore, hidden>>
    PROVE  FDInv'
<1> DEFINE e == [subscriptionId |-> s, content |-> c, seq |-> next]
<1> USE DEF FDInv
<1>1. next \in Nat /\ next' = next + 1 /\ UNCHANGED <<chips, replies, known>> /\ s \in known
  BY FeedDisplayAssumption DEF FDTypeOK, Arrive
<1>2. feed' \in Seq(Message) /\ In(feed') = In(feed) \cup {e}
  BY <1>1, ArriveIn DEF FDTypeOK
<1>3. e.seq = next /\ e.subscriptionId = s
  OBVIOUS
<1> HIDE DEF e
<1>4. UNCHANGED <<OnScreen, Seqs(rows), Seqs(screen), In(screen)>>
  BY DEF OnScreen, Seqs, In
<1>5. \A m \in In(feed) \cup OnScreen : m.seq \in Int
  <2>1. \A m \in In(feed) \cup In(rows) \cup In(screen) : m \in Message
    BY InTyped DEF FDTypeOK
  <2> QED
    BY <2>1, SeqIsNat DEF OnScreen
<1>6. FDTypeOK'
  <2>1. /\ shownBefore \subseteq 0..next /\ hidden \subseteq 0..next /\ held' \subseteq 0..next
        /\ next' \in 0..MaxArrivals /\ next' - 1 = next
    BY <1>1, FeedDisplayAssumption DEF FDTypeOK
  <2> QED
    BY <1>1, <1>2, <1>4, <2>1 DEF FDTypeOK
<1>7. RowsInv'
  <2>1. \A m \in OnScreen \cup In(feed) : m.seq # next
    BY <1>1, <1>5 DEF RowsInv
  <2>2. \A m, n \in OnScreen' \cup In(feed') : m.seq = n.seq => m = n
    BY <1>2, <1>3, <1>4, <2>1 DEF RowsInv
  <2> QED
    BY <1>1, <1>2, <1>3, <1>4, <1>5, <2>2 DEF RowsInv
<1>8. next \notin Shown \cup held \cup newSeqs /\ \A m \in playing : m.seq # next
  <2>1. \A x \in newSeqs \cup Seqs(screen) : \E m \in OnScreen : x = m.seq
    BY DEF FDTypeOK, Seqs, OnScreen
  <2>2. \A x \in shownBefore \cup held : x # next
    BY <1>1 DEF FDTypeOK
  <2>3. \A m \in OnScreen : m.seq # next
    BY <1>1, <1>5 DEF RowsInv
  <2> QED
    BY <2>1, <2>2, <2>3 DEF Shown, FDTypeOK, OnScreen
<1>9. FreshInv'
  <2>1. /\ held' = held \cup (IF paused THEN {next} ELSE {})
        /\ UNCHANGED <<chips, newSeqs, shownBefore, hidden, playing, Shown>>
    BY <1>1, <1>4 DEF Shown
  <2>2. HighlightIsFresh' /\ newSeqs' \cap held' = {}
    BY <1>8, <2>1 DEF FreshInv, HighlightIsFresh
  <2>3. ASSUME NEW m \in In(feed'), m.subscriptionId \in chips'
        PROVE  /\ m.seq \in Shown' => m.seq \in Seqs(rows)'
               /\ m.seq \in held' => m.seq \in Seqs(rows)' \/ paused' \/ sourcePaused'
    <3>1. CASE m = e
      BY <1>3, <1>8, <2>1, <3>1
    <3>2. CASE m # e
      <4>1. m \in In(feed) /\ m.seq # next
        BY <1>1, <1>2, <1>5, <2>3, <3>2 DEF RowsInv
      <4> QED
        BY <1>4, <2>1, <2>3, <4>1 DEF FreshInv
    <3> QED
      BY <3>1, <3>2
  <2> QED
    BY <1>4, <2>1, <2>2, <2>3 DEF FreshInv
<1> QED
  BY <1>6, <1>7, <1>9

\* The rows are computed again, or stay as they are, and are searched.
LEMMA RenderStep ==
    ASSUME FDInv, Render
    PROVE  FDInv'
<1> USE DEF FDInv
<1>1. /\ UNCHANGED <<mlVars, paused, searchTerm, held>> /\ changed' = FALSE
      /\ screen' = filteredMessages(rows')
      /\ playing' = Highlighted(screen', newSeqs') \ Highlighted(screen, newSeqs)
      /\ shownBefore' = Shown
      /\ hidden' = (hidden \ Seqs(screen))
                     \cup ((Seqs(screen) \ Seqs(screen')) \cap Seqs(rows'))
      /\ \/ /\ UNCHANGED <<rows, newSeqs>>
            /\ sourcePaused' = sourcePaused \/ sourcePaused' = paused
            /\ sourcePaused' = sourcePaused \/ paused
         \/ /\ ~paused /\ sourcePaused' = paused /\ rows' = visibleMessages
            /\ newSeqs' = IF sourcePaused THEN {} ELSE Seqs(rows') \ Seqs(rows)
  BY DEF Render, Compute, Shown
<1>2. /\ visibleMessages \in Seq(Message)
      /\ In(visibleMessages) = {m \in In(feed) : m.subscriptionId \in chips}
  BY VisibleIn DEF FDTypeOK
<1>3. rows' \in Seq(Message)
  BY <1>1, <1>2 DEF FDTypeOK
<1>4. screen' \in Seq(Message) /\ In(screen') \subseteq In(rows')
  BY <1>1, <1>3, SearchedIn
<1>5. \A m \in In(rows') : m \in In(rows) \/ (m \in In(feed) /\ m.subscriptionId \in chips)
  BY <1>1, <1>2
<1>6. \A m \in In(screen) : m.seq \in 0..(next - 1)
  <2>1. next \in Nat /\ \A m \in In(screen) : m \in Message
    BY InTyped, FeedDisplayAssumption DEF FDTypeOK
  <2> QED
    BY <2>1, SeqIsNat DEF RowsInv, OnScreen
<1>7. Seqs(screen) \subseteq 0..(next - 1)
  BY <1>6 DEF Seqs
<1>8. FDTypeOK'
  <2>1. newSeqs' \subseteq Seqs(rows') /\ playing' \subseteq In(screen')
    BY <1>1 DEF FDTypeOK, Highlighted
  <2>2. shownBefore' \subseteq 0..(next' - 1) /\ hidden' \subseteq 0..(next' - 1)
    BY <1>1, <1>7 DEF FDTypeOK, Shown, mlVars
  <2> QED
    BY <1>1, <1>3, <1>4, <2>1, <2>2 DEF FDTypeOK, mlVars
<1>9. RowsInv'
  <2>1. UNCHANGED In(feed)
    BY <1>1 DEF mlVars
  <2>2. OnScreen' \subseteq OnScreen \cup In(feed)
    BY <1>4, <1>5 DEF OnScreen
  <2>3. \A m, n \in OnScreen' \cup In(feed') : m.seq = n.seq => m = n
    BY <2>1, <2>2 DEF RowsInv
  <2> QED
    BY <1>1, <1>4, <1>5, <2>1, <2>3 DEF RowsInv, OnScreen, mlVars
<1>10. UNCHANGED <<In(feed), chips, paused, held>>
  BY <1>1 DEF mlVars
<1>11. Seqs(screen') \subseteq Seqs(rows')
  BY <1>4 DEF Seqs
<1>12. CASE UNCHANGED <<rows, newSeqs>> /\ (sourcePaused' = sourcePaused \/ paused)
  <2>1. UNCHANGED Seqs(rows)
    BY <1>12
  <2>2. Seqs(rows') \cap shownBefore' \subseteq Seqs(screen') \cup hidden'
    BY <1>1, <2>1 DEF FreshInv, Shown
  <2>3. ASSUME NEW m \in playing', m.seq \in shownBefore' PROVE m.seq \in hidden'
    <3>1. m \in In(screen') /\ m.seq \in newSeqs /\ m \notin In(screen)
      BY <1>1, <1>12, <2>3 DEF Highlighted
    <3>2. m \in OnScreen /\ m.seq \in Seqs(rows)
      BY <1>4, <1>12, <3>1 DEF OnScreen, Seqs
    <3>3. m.seq \notin Seqs(screen)
      BY <3>1, <3>2 DEF RowsInv, OnScreen, Seqs
    <3> QED
      BY <1>1, <2>3, <3>2, <3>3 DEF FreshInv, Shown
  <2>4. \A m \in playing' : m.seq \notin held'
    BY <1>1, <1>10, <1>12 DEF Highlighted, FreshInv
  <2>5. \A m \in In(feed) : m.subscriptionId \in chips /\ m.seq \in Shown' => m.seq \in Seqs(rows)
    BY <1>1, <1>11, <2>1 DEF FreshInv, Shown
  <2>6. HighlightIsFresh'
    BY <2>3, <2>4 DEF HighlightIsFresh
  <2> QED
    BY <1>8, <1>9, <1>10, <1>12, <2>1, <2>2, <2>5, <2>6 DEF FreshInv
<1>13. CASE /\ ~paused /\ sourcePaused' = paused /\ rows' = visibleMessages
            /\ newSeqs' = IF sourcePaused THEN {} ELSE Seqs(rows') \ Seqs(rows)
  <2>1. \A m \in In(feed) : m.subscriptionId \in chips => m.seq \in Seqs(rows')
    BY <1>2, <1>13 DEF Seqs
  <2>2. \A x \in Seqs(rows') : \E m \in In(feed) : m.subscriptionId \in chips /\ m.seq = x
    BY <1>2, <1>13 DEF Seqs
  <2>3. \A x \in Seqs(rows') \cap Shown : x \in Seqs(rows)
    BY <2>2 DEF FreshInv
  <2>4. newSeqs' \cap held' = {} /\ newSeqs' \cap Shown = {}
    <3>1. CASE sourcePaused
      BY <1>13, <3>1
    <3>2. CASE ~sourcePaused
      BY <1>10, <1>13, <2>2, <2>3, <3>2 DEF FreshInv
    <3> QED
      BY <3>1, <3>2
  <2>5. HighlightIsFresh'
    BY <1>1, <2>4 DEF Highlighted, HighlightIsFresh
  <2>6. Seqs(rows') \cap shownBefore' \subseteq Seqs(screen') \cup hidden'
    BY <1>1, <2>3 DEF FreshInv, Shown
  <2> QED
    BY <1>8, <1>9, <1>10, <2>1, <2>4, <2>5, <2>6 DEF FreshInv
<1> QED
  BY <1>1, <1>12, <1>13

\* Every step of the display keeps its invariant.
LEMMA FDStep ==
    ASSUME FDInv, [FDNext]_fdVars
    PROVE  FDInv'
<1>1. ASSUME NEW s \in Subscription, MessagesChange(s) PROVE FDInv'
  BY <1>1, PutStep, RemoveStep, ArriveStep DEF MessagesChange
<1>2. CASE togglePause
  <2>1. UNCHANGED <<In(feed), OnScreen, Seqs(rows), Seqs(screen), In(screen)>>
    BY <1>2 DEF togglePause, mlVars, OnScreen
  <2>2. FDTypeOK'
    BY <1>2, <2>1 DEF togglePause, mlVars, FDInv, FDTypeOK
  <2>3. RowsInv'
    BY <1>2, <2>1 DEF togglePause, mlVars, FDInv, RowsInv
  <2>4. FreshInv'
    BY <1>2, <2>1
       DEF togglePause, mlVars, FDInv, FreshInv, HighlightIsFresh, Shown, FDTypeOK
  <2> QED
    BY <2>2, <2>3, <2>4 DEF FDInv
<1>3. ASSUME UNCHANGED <<mlVars, paused, display, held>>, searchTerm' \in Term \cup {NoTerm}
      PROVE  FDInv'
  <2>1. UNCHANGED <<In(feed), OnScreen, Seqs(rows), Seqs(screen), In(screen)>>
    BY <1>3 DEF mlVars, display, OnScreen
  <2>2. FDTypeOK'
    BY <1>3, <2>1 DEF mlVars, display, FDInv, FDTypeOK
  <2>3. RowsInv'
    BY <1>3, <2>1 DEF mlVars, FDInv, RowsInv
  <2>4. FreshInv'
    BY <1>3, <2>1 DEF mlVars, display, FDInv, FreshInv, HighlightIsFresh, Shown
  <2> QED
    BY <2>2, <2>3, <2>4 DEF FDInv
<1>4. ASSUME NEW term \in Term \cup {NoTerm}, SearchInput(term) PROVE FDInv'
  BY <1>3, <1>4 DEF SearchInput
<1>5. CASE UNCHANGED fdVars
  BY <1>3, <1>5 DEF fdVars, FDInv, FDTypeOK
<1> QED
  BY <1>1, <1>2, <1>4, <1>5, RenderStep DEF FDNext

\* A page that has just been loaded shows nothing, whatever subscriptions there were.
EmptyPage ==
    /\ known \subseteq Subscription
    /\ feed = << >> /\ next = 0 /\ chips = {} /\ replies = {}
    /\ paused = FALSE /\ searchTerm = NoTerm /\ changed = FALSE /\ sourcePaused = FALSE
    /\ rows = << >> /\ newSeqs = {} /\ screen = << >> /\ playing = {}
    /\ shownBefore = {} /\ hidden = {} /\ held = {}

\* An empty page shows nothing wrong.
LEMMA EmptyPageInv == EmptyPage => FDInv
<1> SUFFICES ASSUME EmptyPage PROVE FDInv
  OBVIOUS
<1>1. FDTypeOK
  <2>1. << >> \in Seq(Message)
    OBVIOUS
  <2>2. 0 \in 0..MaxArrivals
    BY FeedDisplayAssumption
  <2> QED
    BY <2>1, <2>2 DEF EmptyPage, FDTypeOK
<1>2. In(feed) = {} /\ OnScreen = {}
  BY DEF EmptyPage, In, OnScreen
<1>3. chips = {} /\ replies = {} /\ newSeqs = {} /\ playing = {} /\ shownBefore = {}
  BY DEF EmptyPage
<1> QED
  BY <1>1, <1>2, <1>3 DEF FDInv, RowsInv, FreshInv, HighlightIsFresh

\* The page keeps the display's invariant, a reload included.
LEMMA DisplayInvariant == PageSpec => []FDInv
<1>1. PageInit => FDInv
  <2>1. PageInit => EmptyPage
    BY DEF PageInit, FDInit, MLInit, EmptyPage
  <2> QED
    BY <2>1, EmptyPageInv
<1>2. FDInv /\ [PageNext]_pageVars => FDInv'
  <2> SUFFICES ASSUME FDInv, [PageNext]_pageVars PROVE FDInv'
    OBVIOUS
  <2>1. CASE PageReload
    <3>1. EmptyPage'
      BY <2>1 DEF PageReload, FDInv, FDTypeOK, EmptyPage
    <3>2. EmptyPage' => FDInv'
      BY EmptyPageInv, PTL
    <3> QED
      BY <3>1, <3>2
  <2>2. CASE [FDNext]_fdVars
    BY <2>2, FDStep
  <2> QED
    BY <2>1, <2>2 DEF PageNext, respond, SendPanelStep, FeedStep, pageVars
<1> QED
  BY <1>1, <1>2, PTL DEF PageSpec

\* Every variable of the feed's display keeps its type.
THEOREM DisplayTypes == PageSpec => []FDTypeOK
<1>1. FDInv => FDTypeOK
  BY DEF FDInv
<1> QED
  BY <1>1, DisplayInvariant, PTL

\* The animation of a row starts only if the row was not on the screen before, or a search
\* hid it and shows it again, and never for a message that came during a pause.
THEOREM OnlyNewRowsHighlighted == PageSpec => []HighlightIsFresh
<1>1. FDInv => HighlightIsFresh
  BY DEF FDInv, FreshInv
<1> QED
  BY <1>1, DisplayInvariant, PTL

\* A reply is never among the rows, frozen and filtered ones included.
THEOREM RepliesOnlyInTheirPanel == PageSpec => []NeverShownTwice
<1>1. FDInv => NeverShownTwice
  BY DEF FDInv, RowsInv, OnScreen, NeverShownTwice, replyPanel
<1> QED
  BY <1>1, DisplayInvariant, PTL

\* The counter of a chip is never less than the rows of it on the screen.
THEOREM CountersAccount == PageSpec => []CountersCoverScreen
<1>1. ASSUME FDInv, NEW s \in chips
      PROVE  Cardinality({m \in In(screen) : m.subscriptionId = s}) <= chipCounts[s]
  <2> DEFINE there == {m \in In(feed) : m.subscriptionId = s}
             seen  == {m \in In(screen) : m.subscriptionId = s}
  <2>1. seen \subseteq there
    BY <1>1 DEF FDInv, RowsInv, OnScreen
  <2>2. IsFiniteSet(there)
    <3>1. IsFiniteSet(1..Len(feed))
      BY <1>1, FS_Interval DEF FDInv, FDTypeOK
    <3>2. IsFiniteSet({feed[i] : i \in 1..Len(feed)})
      <4> DEFINE f == [i \in 1..Len(feed) |-> feed[i]]
      <4>1. f \in Surjection(1..Len(feed), {feed[i] : i \in 1..Len(feed)})
        BY DEF Surjection
      <4> HIDE DEF f
      <4> QED
        BY <3>1, <4>1, FS_Surjection
    <3> QED
      BY <3>2, FS_Subset DEF In
  <2>3. Cardinality(seen) <= Cardinality(there)
    BY <2>1, <2>2, FS_Subset
  <2> QED
    BY <2>3 DEF chipCounts
<1>2. FDInv => CountersCoverScreen
  BY <1>1 DEF CountersCoverScreen
<1> QED
  BY <1>2, DisplayInvariant, PTL
=============================================================================
