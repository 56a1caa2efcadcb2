----------------------------- MODULE MessageList -----------------------------
(***************************************************************************)
(* What BusHubService and the two lists of subscriptions promise to the    *)
(* rest of the page, whatever the network does: the abstract specification *)
(* LiveFeed implements and FeedDisplay is written against.                 *)
(*                                                                         *)
(* A subscription is put on the screen once, as a chip or as a pending     *)
(* reply; messages of subscriptions that were put there arrive one by one, *)
(* each with the next sequence number; removing a subscription removes all *)
(* its messages and no other.                                              *)
(***************************************************************************)
EXTENDS ArrayFilter

CONSTANTS
    Subscription,   \* subscription ids
    MessageContent  \* what the properties tell apart of a message

VARIABLES
    feed,           \* messages: newest first
    next,           \* nextSeq
    chips,          \* subscriptions
    replies,        \* pending replies
    known           \* history: subscriptions that were put on the screen

mlVars == <<feed, next, chips, replies, known>>

Message == [subscriptionId : Subscription, content : MessageContent, seq : Nat]

\* messages.filter(m => m.subscriptionId !== id)
Without(s) == Filtered(feed, {i \in 1..Len(feed) : feed[i].subscriptionId # s})

MLInit == feed = << >> /\ next = 0 /\ chips = {} /\ replies = {} /\ known = {}

\* Mutant: a pending reply is a chip as well.
PutReplyAmongChips(s) ==
    /\ s \notin known
    /\ known' = known \cup {s}
    /\ chips' = chips \cup {s}
    /\ replies' = replies \cup {s} \/ UNCHANGED replies
    /\ UNCHANGED <<feed, next>>

\* The POST of a subscription returns.
Put(s) ==
    /\ s \notin known
    /\ known' = known \cup {s}
    /\ \/ chips' = chips \cup {s} /\ UNCHANGED replies
       \/ replies' = replies \cup {s} /\ UNCHANGED chips
    /\ UNCHANGED <<feed, next>>

\* MessageReceived; one may still come after its subscription was removed.
Arrive(s, c) ==
    /\ s \in known
    /\ feed' = <<[subscriptionId |-> s, content |-> c, seq |-> next]>> \o feed
    /\ next' = next + 1
    /\ UNCHANGED <<chips, replies, known>>

\* Mutant: the messages go, the chip stays.
RemoveMessagesOnly(s) ==
    /\ s \in known
    /\ feed' = Without(s)
    /\ replies' = replies \ {s}
    /\ UNCHANGED <<next, chips, known>>

\* finishUnsubscribe, clearSubscription
RemoveSubscription(s) ==
    /\ s \in known
    /\ feed' = Without(s)
    /\ chips' = chips \ {s}
    /\ replies' = replies \ {s}
    /\ UNCHANGED <<next, known>>

MLNext ==
    \E s \in Subscription :
        Put(s) \/ RemoveSubscription(s) \/ \E c \in MessageContent : Arrive(s, c)

MLSpec == MLInit /\ [][MLNext]_mlVars
=============================================================================
