------------------------------- MODULE SendPanel -------------------------------
(***************************************************************************)
(* SendComponent with ReplyDraftService: the form a message is sent from,  *)
(* the reply mode a Responder click puts it in, the check for unsaved      *)
(* edits, the requests on their way, recalling and saving.                 *)
(*                                                                         *)
(* An action is one event: an input of the user, a click, a response.  The *)
(* effect that applies a Responder click runs with the next change         *)
(* detection, which eventCoalescing lets come after further events.  What  *)
(* follows a successful send-with-reply (its subscription) is in LiveFeed. *)
(***************************************************************************)
EXTENDS SendHeaders, SendHistory

CONSTANTS
    None,               \* nothing: no correlation id, no draft, no request
    Exchange,           \* exchanges, not blank
    RoutingKey,         \* routing keys, not blank
    Payload,            \* payloads, not blank
    Target,             \* reply targets of the messages in the feed
    TypedCorrelationId, \* correlation ids a user types over the one of a target
    CorrelationIdKey,   \* the named field "Generar" fills
    Guid,               \* what it fills it with
    TemplateName,
    Post,               \* requests that may be in flight
    MaxRows,            \* bound: free header rows
    MaxSends,           \* bound: sends and recalled entries a page remembers
    MaxDrafts           \* bound: Responder clicks

Correlations(targets) == {t.correlationId : t \in targets} \ {None}

Contents == [exchange : Exchange \cup {Empty, Blank}, routingKey : RoutingKey \cup {Empty, Blank},
             payload : Payload \cup {Empty, Blank}, headers : HeaderMap]
Template == [name : TemplateName, content : Contents]

ASSUME SendPanelAssumption ==
    /\ CorrelationIdKey \in ComunesKey /\ Guid \in HeaderValue
    /\ \A t \in Exchange \cup RoutingKey \cup Payload : ~IsBlank(t)
    /\ \A t \in Target : /\ DOMAIN t = {"routingKey", "correlationId"}
                         /\ t.routingKey \in RoutingKey
                         /\ ~IsBlank(t.correlationId)
    /\ None \notin Correlations(Target) \cup TypedCorrelationId \cup {Empty, Blank}
    /\ TypedCorrelationId \cap Correlations(Target) = {}
    /\ MaxRows \in Nat /\ MaxSends \in Nat /\ MaxDrafts \in Nat

VARIABLES
    exchange, routingKey, payload, expectReply,
    headersForm,            \* headersEnabled, the named fields and additionalHeaders
    replyMode, correlationId,
    touched,
    lastAppliedSnapshot,
    draft,                  \* ReplyDraftService
    lastAppliedDraftSeq,
    posts,                  \* requests in flight: what they carry
    kept                    \* history: the last content of the form that was filled in or sent

address  == <<exchange, routingKey, payload>>
form     == <<address, headersForm>>
reply    == <<replyMode, correlationId>>
baseline == <<lastAppliedSnapshot, kept>>
drafts   == <<draft, lastAppliedDraftSeq>>
spVars   == <<form, reply, expectReply, touched, baseline, drafts, posts, historyVars>>

SendField == {"exchange", "routingKey", "payload"}

resolvedHeaders == ResolvedHeaders(headersForm)

Content(e, r, p, h) == [exchange |-> e, routingKey |-> r, payload |-> p, headers |-> h]
EmptySnapshot == Content(Empty, Empty, Empty, NoHeaders)
currentSnapshot == Content(exchange, routingKey, payload, resolvedHeaders)

isDirty == currentSnapshot # lastAppliedSnapshot

\* Reply mode accepts an exactly empty exchange.
exchangeError == IsBlank(exchange) /\ ~(replyMode /\ exchange = Empty)
payloadError == IsBlank(payload)
routingKeyError == routingKey # Empty /\ IsBlank(routingKey)
hasErrors == exchangeError \/ payloadError \/ routingKeyError

-----------------------------------------------------------------------------
(* The fields *)

\* What an input into the content of the message leaves alone.
Edited == UNCHANGED <<expectReply, touched, baseline, drafts, posts, historyVars>>

\* The exchange is a read-only chip in reply mode.
onBlur(field) ==
    /\ field = "exchange" => ~replyMode
    /\ touched' = touched \cup {field}
    /\ UNCHANGED <<form, reply, expectReply, baseline, drafts, posts, historyVars>>

onExchangeInput(value) ==
    /\ ~replyMode
    /\ exchange' = value
    /\ replyMode' = FALSE
    /\ Edited /\ UNCHANGED <<routingKey, payload, headersForm, correlationId>>

\* Mutant: editing the routing key stays in reply mode.
onRoutingKeyInputStays(value) ==
    /\ routingKey' = value
    /\ Edited /\ UNCHANGED <<exchange, payload, headersForm, reply>>

onRoutingKeyInput(value) ==
    /\ routingKey' = value
    /\ replyMode' = FALSE
    /\ Edited /\ UNCHANGED <<exchange, payload, headersForm, correlationId>>

PayloadInput(value) ==
    /\ payload' = value
    /\ Edited /\ UNCHANGED <<exchange, routingKey, headersForm, reply>>

\* The field is there in reply mode only.
CorrelationIdInput(value) ==
    /\ replyMode
    /\ correlationId' = value
    /\ UNCHANGED <<form, replyMode, expectReply, touched, baseline, drafts, posts, historyVars>>

ToggleExpectReply ==
    /\ expectReply' = ~expectReply
    /\ UNCHANGED <<form, reply, touched, baseline, drafts, posts, historyVars>>

SetHeaders(headers) == headersForm' = headers /\ Edited /\ UNCHANGED <<address, reply>>

ToggleHeaders == SetHeaders([headersForm EXCEPT !.enabled = ~@])

\* The fields below are there while the section is enabled.
ComunesInput(key, value) ==
    headersForm.enabled /\ SetHeaders([headersForm EXCEPT !.comunes[key] = value])

generateCorrelationId == ComunesInput(CorrelationIdKey, Guid)

addHeaderRow ==
    /\ headersForm.enabled /\ Len(headersForm.rows) < MaxRows
    /\ SetHeaders([headersForm EXCEPT !.rows = Append(@, [key |-> Empty, value |-> Empty])])

removeHeaderRow(i) ==
    headersForm.enabled /\ SetHeaders([headersForm EXCEPT !.rows = RemoveAt(@, i)])

updateHeaderRowKey(i, key) ==
    headersForm.enabled /\ SetHeaders([headersForm EXCEPT !.rows[i].key = key])

updateHeaderRowValue(i, value) ==
    headersForm.enabled /\ SetHeaders([headersForm EXCEPT !.rows[i].value = value])

-----------------------------------------------------------------------------
(* The Responder click *)

\* captureSnapshot after the program filled in the form.
Filled(content) ==
    /\ lastAppliedSnapshot' = content
    /\ kept' = content

\* ReplyDraftService.request
Request(target) ==
    LET seq == IF draft = None THEN 1 ELSE draft.seq + 1
    IN  /\ seq <= MaxDrafts
        /\ draft' = [target |-> target, seq |-> seq]
        /\ UNCHANGED <<form, reply, expectReply, touched, baseline, lastAppliedDraftSeq, posts,
                       historyVars>>

DraftWaits == draft # None /\ draft.seq # lastAppliedDraftSeq

\* confirmOverwrite: the user keeps the unsaved edits.
DeclineReplyDraft ==
    /\ DraftWaits /\ isDirty
    /\ lastAppliedDraftSeq' = draft.seq
    /\ UNCHANGED <<form, reply, expectReply, touched, baseline, draft, posts, historyVars>>

\* Mutant: a target without a correlation id leaves none, instead of an empty text.
applyReplyDraftNull ==
    /\ DraftWaits
    /\ lastAppliedDraftSeq' = draft.seq
    /\ replyMode' = TRUE
    /\ exchange' = Empty
    /\ routingKey' = draft.target.routingKey
    /\ correlationId' = draft.target.correlationId
    /\ payload' = Empty
    /\ Filled(Content(exchange', routingKey', payload', resolvedHeaders))
    /\ UNCHANGED <<headersForm, expectReply, touched, draft, posts, historyVars>>

\* applyReplyDraft, with nothing to lose or confirmed; the headers stay as they are.
applyReplyDraft ==
    /\ DraftWaits
    /\ lastAppliedDraftSeq' = draft.seq
    /\ replyMode' = TRUE
    /\ exchange' = Empty
    /\ routingKey' = draft.target.routingKey
    /\ correlationId' = IF draft.target.correlationId = None THEN Empty
                        ELSE draft.target.correlationId
    /\ payload' = Empty
    /\ Filled(Content(exchange', routingKey', payload', resolvedHeaders))
    /\ UNCHANGED <<headersForm, expectReply, touched, draft, posts, historyVars>>

-----------------------------------------------------------------------------
(* Sending *)

\* The correlation id a plain send carries; a send-with-reply has none.
CarriedCorrelationId ==
    IF replyMode /\ ~expectReply /\ ~IsBlank(correlationId) THEN correlationId ELSE None

sendBlocked ==
    /\ hasErrors
    /\ touched' = SendField
    /\ UNCHANGED <<form, reply, expectReply, baseline, drafts, posts, historyVars>>

send(p) ==
    /\ ~hasErrors
    /\ posts[p] = None
    /\ posts' = [posts EXCEPT ![p] = [withReply |-> expectReply, content |-> currentSnapshot,
                                      correlationId |-> CarriedCorrelationId]]
    /\ UNCHANGED <<form, reply, expectReply, touched, baseline, drafts, historyVars>>

Settled(p) ==
    posts[p] # None /\ posts' = [posts EXCEPT ![p] = None]

\* Mutant: the form as it is when the answer comes is recorded.
RecordAnswered(p) == currentSnapshot

\* What is recorded of a send: what was sent.
Recorded(p) == posts[p].content

\* What was sent is recorded; what is in the form by now is the new baseline, unless
\* recording threw.
SendSucceeds(p) ==
    /\ Settled(p) /\ ~posts[p].withReply
    /\ RecordSend(Recorded(p))
    /\ sendLog' = <<posts[p].content>> \o sendLog
    /\ IF Thrown("recentSends") THEN UNCHANGED baseline
       ELSE /\ lastAppliedSnapshot' = currentSnapshot
            /\ kept' = IF posts[p].content = currentSnapshot THEN currentSnapshot ELSE kept
    /\ UNCHANGED <<form, reply, expectReply, touched, drafts>>

\* A send-with-reply succeeds, or any send fails: the panel shows a toast only.
SendSettles(p) ==
    /\ Settled(p)
    /\ UNCHANGED <<form, reply, expectReply, touched, baseline, drafts, historyVars>>

-----------------------------------------------------------------------------
(* Recalling and saving *)

Recall(content, headers) ==
    /\ replyMode' = FALSE
    /\ exchange' = content.exchange
    /\ routingKey' = content.routingKey
    /\ payload' = content.payload
    /\ headersForm' = headers
    /\ Filled(Content(exchange', routingKey', payload', ResolvedHeaders(headers)))
    /\ UNCHANGED <<expectReply, correlationId, drafts, posts, historyVars>>

useRecent(entry) ==
    /\ \E headers \in RestoredForms(entry.headers) : Recall(entry, headers)
    /\ UNCHANGED touched

useTemplate(template) ==
    /\ \E headers \in RestoredForms(template.content.headers) : Recall(template.content, headers)
    /\ touched' = SendField

saveTemplate(name) ==
    /\ StoreTemplate([name |-> name, content |-> currentSnapshot])
    /\ UNCHANGED <<form, reply, expectReply, touched, baseline, drafts, posts>>

deleteTemplate(name) ==
    /\ DropTemplate(name)
    /\ UNCHANGED <<form, reply, expectReply, touched, baseline, drafts, posts>>

-----------------------------------------------------------------------------
(* The page *)

\* A reload: what is on its way may still be sent, but no answer comes back.
Reload ==
    /\ exchange' = Empty /\ routingKey' = Empty /\ payload' = Empty
    /\ expectReply' = FALSE
    /\ headersForm' = EmptyHeaderForm
    /\ replyMode' = FALSE /\ correlationId' = Empty
    /\ touched' = {}
    /\ Filled(EmptySnapshot)
    /\ draft' = None /\ lastAppliedDraftSeq' = 0
    /\ posts' = [p \in Post |-> None]
    /\ ReloadHistory

\* Something else writes one of the lists: another tab one of its own, or the user
\* clears the data.
OutsideWrite(list, raw) ==
    /\ StorageChanges(list, raw)
    /\ UNCHANGED <<form, reply, expectReply, touched, baseline, drafts, posts>>

SPInit ==
    /\ exchange = Empty /\ routingKey = Empty /\ payload = Empty
    /\ expectReply = FALSE
    /\ headersForm = EmptyHeaderForm
    /\ replyMode = FALSE /\ correlationId = Empty
    /\ touched = {}
    /\ lastAppliedSnapshot = EmptySnapshot
    /\ kept = EmptySnapshot
    /\ draft = None /\ lastAppliedDraftSeq = 0
    /\ posts = [p \in Post |-> None]
    /\ LoadHistory([recentSends |-> {}, templates |-> {}])

\* Requests in flight and recorded sends stay within the bound.
MaySend == Len(sendLog) + Cardinality({p \in Post : posts[p] # None}) < MaxSends

AddressInput ==
    \/ \E v \in Exchange \cup {Empty, Blank} : onExchangeInput(v)
    \/ \E v \in RoutingKey \cup {Empty, Blank} : onRoutingKeyInput(v)
    \/ \E v \in Payload \cup {Empty, Blank} : PayloadInput(v)

HeaderInput ==
    \/ ToggleHeaders
    \/ \E k \in ComunesKey, v \in HeaderText : ComunesInput(k, v)
    \/ generateCorrelationId
    \/ addHeaderRow
    \/ \E i \in 1..Len(headersForm.rows) :
          \/ removeHeaderRow(i)
          \/ \E k \in HeaderKey \cup {Empty, Blank} : updateHeaderRowKey(i, k)
          \/ \E v \in HeaderText : updateHeaderRowValue(i, v)

ReplyInput ==
    \/ \E v \in TypedCorrelationId \cup {Empty, Blank} : CorrelationIdInput(v)
    \/ DeclineReplyDraft \/ applyReplyDraft

Sending ==
    \/ sendBlocked
    \/ MaySend /\ \E p \in Post : send(p)
    \/ \E p \in Post : SendSucceeds(p) \/ SendSettles(p)

Recalling == \E i \in 1..Len(recentSends) : useRecent(recentSends[i])

Templates ==
    \/ \E n \in TemplateName : saveTemplate(n)
    \/ \E t \in templates : useTemplate(t) \/ deleteTemplate(t.name)

SPNext ==
    \/ \E f \in SendField : onBlur(f)
    \/ AddressInput \/ HeaderInput \/ ToggleExpectReply
    \/ \E t \in Target : Request(t)
    \/ ReplyInput \/ Sending \/ Recalling \/ Templates \/ Reload
    \/ \E list \in {"recentSends", "templates"} : OutsideWrite(list, {})

SPSpec == SPInit /\ [][SPNext]_spVars

-----------------------------------------------------------------------------
(* Properties *)

CorrelationId == Correlations(Target) \cup TypedCorrelationId
PostBody == [withReply : BOOLEAN, content : Contents, correlationId : CorrelationId \cup {None}]

SPTypeOK ==
    /\ exchange \in Exchange \cup {Empty, Blank}
    /\ routingKey \in RoutingKey \cup {Empty, Blank}
    /\ payload \in Payload \cup {Empty, Blank}
    /\ expectReply \in BOOLEAN
    /\ headersForm \in HeaderForm
    /\ replyMode \in BOOLEAN
    /\ correlationId \in CorrelationId \cup {Empty, Blank}
    /\ touched \subseteq SendField
    /\ lastAppliedSnapshot \in Contents
    /\ kept \in Contents
    /\ draft \in [target : Target, seq : 1..MaxDrafts] \cup {None}
    /\ lastAppliedDraftSeq \in 0..MaxDrafts
    /\ posts \in [Post -> PostBody \cup {None}]
    /\ recentSends \in Seq(Contents)
    /\ templates \subseteq Template
    /\ stored \in [recentSends : SUBSET Seq(Contents),
                   templates : SUBSET SUBSET Template]
    /\ sendLog \in Seq(Contents)

\* A reply goes where it was asked for: only a Responder click makes a send use the
\* default exchange, to a queue some message named in replyTo, and a correlation id
\* taken from a message goes to the queue of a message that has this very id.
RepliesMatchTheirRequest ==
    \A p \in Post : posts[p] # None =>
        LET content == posts[p].content  id == posts[p].correlationId
        IN  /\ content.exchange = Empty =>
                  \E t \in Target : t.routingKey = content.routingKey
            /\ id # None => content.exchange = Empty
            /\ id \in Correlations(Target) =>
                  \E t \in Target : t.correlationId = id /\ t.routingKey = content.routingKey

\* "Unsaved edits are never silently overwritten": a Responder click that is about to
\* be applied without asking finds in the form only what the panel filled in itself or
\* what was sent.
EditsAreGuarded == DraftWaits /\ ~isDirty => currentSnapshot = kept

\* No entry that is saved or on its way can come back altered: however its headers are
\* laid out in the form again, they are the headers it was sent or saved with.
RecalledHeadersAreSaved ==
    LET entries == Range(recentSends) \cup {t.content : t \in templates}
    IN  \A e \in entries : \A headers \in RestoredForms(e.headers) :
            ResolvedHeaders(headers) = e.headers
=============================================================================
