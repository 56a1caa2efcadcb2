---------------------------- MODULE SendPanelProofs ----------------------------
(***************************************************************************)
(* Theorems about SendPanel, for every set of texts, every number of       *)
(* requests in flight and every size of the history: its types, where      *)
(* replies go, what counts as saved, and what comes back from the history. *)
(***************************************************************************)
EXTENDS SendPanel, FiniteSetTheorems, SequenceTheorems, WellFoundedInduction, TLAPS

(* The headers *)

LEMMA IntervalSubsetFinite ==
    ASSUME NEW n \in Nat, NEW V \in SUBSET (1..n)
    PROVE  IsFiniteSet(V)
<1>1. IsFiniteSet(1..n)
  BY FS_Interval
<1> QED
  BY <1>1, FS_Subset

LEMMA MaxExists ==
    ASSUME NEW n \in Nat, NEW T \in SUBSET (1..n), T # {}
    PROVE  \E m \in T : \A k \in T : k <= m
<1> DEFINE From(k) == T \cap (k..n)
           U == {From(k) : k \in T}
           R == StrictSubsetOrdering(1..n)
           F == FiniteSubsetsOf(1..n)
<1>1. \A V \in SUBSET (1..n) : IsFiniteSet(V)
  BY IntervalSubsetFinite
<1>2. U \subseteq F /\ U # {}
  BY <1>1 DEF FiniteSubsetsOf
<1>3. IsWellFoundedOn(R, F)
  BY FS_StrictSubsetOrderingWellFounded
<1>4. \E x \in U : \A y \in U : ~(<<y, x>> \in R)
  <2> HIDE DEF U, R, F
  <2> QED
    BY <1>2, <1>3, WFMin
<1>5. PICK m \in T : \A y \in U : ~(<<y, From(m)>> \in R)
  BY <1>4
<1>6. ASSUME NEW k \in T, k > m PROVE FALSE
  <2>1. From(k) \in U /\ From(k) \subseteq From(m) /\ m \in From(m) /\ m \notin From(k)
    BY <1>6
  <2> QED
    BY <1>5, <2>1 DEF StrictSubsetOrdering
<1> QED
  BY <1>6

\* A finite set of indices has a finite set of keys.
LEMMA ImageFinite ==
    ASSUME NEW n \in Nat, NEW rows, NEW C \in SUBSET (1..n)
    PROVE  IsFiniteSet({rows[i].key : i \in C})
<1> DEFINE T == {rows[i].key : i \in C}
           f == [i \in C |-> rows[i].key]
<1>1. IsFiniteSet(C)
  BY IntervalSubsetFinite
<1>2. f \in Surjection(C, T)
  BY DEF Surjection
<1> HIDE DEF T, f
<1> QED
  BY <1>1, <1>2, FS_Surjection DEF T

LEMMA RowHeadersType ==
    ASSUME NEW rows \in Seq(HeaderRow)
    PROVE  RowHeaders(rows) \in HeaderMap
<1> DEFINE counted == {i \in 1..Len(rows) : ~IsBlank(rows[i].key) /\ ~IsBlank(rows[i].value)}
           last(k) == CHOOSE i \in counted :
                        rows[i].key = k /\ \A j \in counted : rows[j].key = k => j <= i
           K == {rows[i].key : i \in counted}
<1>1. ASSUME NEW i \in counted
      PROVE  rows[i].key \in HeaderKey /\ rows[i].value \in HeaderValue
  <2>1. rows[i] \in HeaderRow
    OBVIOUS
  <2> QED
    BY <2>1 DEF HeaderRow, HeaderText, IsBlank
<1>2. ASSUME NEW k \in K PROVE last(k) \in counted
  <2> DEFINE T == {i \in counted : rows[i].key = k}
  <2>1. T \in SUBSET (1..Len(rows)) /\ T # {} /\ Len(rows) \in Nat
    OBVIOUS
  <2>2. PICK m \in T : \A j \in T : j <= m
    <3> HIDE DEF T
    <3> QED
      BY <2>1, MaxExists
  <2> QED
    BY <2>2
<1>3. IsFiniteSet(K) /\ K \subseteq HeaderKey
  <2>1. Len(rows) \in Nat /\ counted \in SUBSET (1..Len(rows))
    OBVIOUS
  <2>2. IsFiniteSet(K)
    <3> HIDE DEF counted
    <3> QED
      BY <2>1, ImageFinite
  <2> QED
    BY <2>2, <1>1
<1>4. RowHeaders(rows) = [k \in K |-> rows[last(k)].value]
  BY DEF RowHeaders
<1>5. \A k \in K : rows[last(k)].value \in HeaderValue
  BY <1>1, <1>2
<1> QED
  <2> HIDE DEF K, last
  <2> QED
    BY <1>3, <1>4, <1>5 DEF HeaderMap

LEMMA ResolvedHeadersType ==
    ASSUME NEW headers \in HeaderForm
    PROVE  ResolvedHeaders(headers) \in HeaderMap
<1> DEFINE comunes == {k \in ComunesKey : ~IsBlank(headers.comunes[k])}
           additional == RowHeaders(headers.rows)
           D == comunes \cup DOMAIN additional
           value(k) == IF k \in comunes THEN headers.comunes[k] ELSE additional[k]
<1>1. additional \in HeaderMap
  BY RowHeadersType DEF HeaderForm
<1>2. PICK K \in SUBSET HeaderKey : IsFiniteSet(K) /\ additional \in [K -> HeaderValue]
  <2> HIDE DEF additional
  <2> QED
    BY <1>1 DEF HeaderMap
<1>3. DOMAIN additional = K
  <2> HIDE DEF additional
  <2> QED
    BY <1>2
<1>4. IsFiniteSet(comunes)
  BY FS_Subset, HeadersAssumption
<1>5. IsFiniteSet(D) /\ D \in SUBSET HeaderKey
  <2> HIDE DEF comunes, additional
  <2>1. IsFiniteSet(comunes \cup K)
    BY <1>2, <1>4, FS_Union
  <2>2. comunes \subseteq ComunesKey
    BY DEF comunes
  <2> QED
    BY <1>3, <2>1, <2>2 DEF HeaderKey
<1>6. \A k \in comunes : headers.comunes[k] \in HeaderValue
  BY DEF HeaderForm, HeaderText, IsBlank
<1>7. \A k \in D : value(k) \in HeaderValue
  <2> HIDE DEF comunes, additional
  <2> QED
    BY <1>2, <1>3, <1>6
<1>8. [k \in D |-> value(k)] \in HeaderMap
  <2> HIDE DEF D, value
  <2> QED
    BY <1>5, <1>7 DEF HeaderMap
<1>9. NoHeaders \in HeaderMap
  <2>1. NoHeaders \in [{} -> HeaderValue] /\ IsFiniteSet({})
    BY FS_EmptySet DEF NoHeaders
  <2> QED
    BY <2>1 DEF HeaderMap
<1> QED
  BY <1>8, <1>9 DEF ResolvedHeaders

\* What restoreHeaders lays out is a form.
LEMMA RestoredFormsType ==
    ASSUME NEW headers \in HeaderMap
    PROVE  RestoredForms(headers) \subseteq HeaderForm
<1>1. PICK K \in SUBSET HeaderKey : IsFiniteSet(K) /\ headers \in [K -> HeaderValue]
  BY DEF HeaderMap
<1>2. DOMAIN headers = K
  BY <1>1
<1>3. SUFFICES ASSUME NEW keys \in SetToSeqs(K \ ComunesKey)
               PROVE  [enabled |-> K # {},
                       comunes |-> [k \in ComunesKey |-> IF k \in K THEN headers[k] ELSE Empty],
                       rows |-> [i \in DOMAIN keys |-> [key |-> keys[i], value |-> headers[keys[i]]]]]
                      \in HeaderForm
  BY <1>2 DEF RestoredForms
<1>4. PICK n \in Nat : keys \in [1..n -> K \ ComunesKey]
  <2>1. IsFiniteSet(K \ ComunesKey)
    BY <1>1, FS_Difference
  <2>2. Cardinality(K \ ComunesKey) \in Nat
    BY <2>1, FS_CardinalityType
  <2> QED
    BY <1>3, <2>2 DEF SetToSeqs
<1>5. [i \in DOMAIN keys |-> [key |-> keys[i], value |-> headers[keys[i]]]] \in Seq(HeaderRow)
  <2>1. \A i \in 1..n : [key |-> keys[i], value |-> headers[keys[i]]] \in HeaderRow
    BY <1>1, <1>4 DEF HeaderRow, HeaderText
  <2>2. DOMAIN keys = 1..n
    BY <1>4
  <2> QED
    BY <2>1, <2>2, IsASeq
<1>6. [k \in ComunesKey |-> IF k \in K THEN headers[k] ELSE Empty] \in [ComunesKey -> HeaderText]
  BY <1>1 DEF HeaderText
<1> QED
  BY <1>5, <1>6 DEF HeaderForm

\* The rows list the n keys of S, each once, with their values in headers.
RowsList(rows, n, keys, S, headers) ==
    /\ n \in Nat /\ keys \in [1..n -> S]
    /\ \A i, j \in 1..n : i # j => keys[i] # keys[j]
    /\ \A k \in S : \E i \in 1..n : keys[i] = k
    /\ \A k \in S : ~IsBlank(k) /\ ~IsBlank(headers[k])
    /\ Len(rows) = n
    /\ \A i \in 1..n : rows[i].key = keys[i] /\ rows[i].value = headers[keys[i]]

\* Rows that have a key and a value each, and no key twice, are a map.
LEMMA DistinctRows ==
    ASSUME NEW rows, NEW n, NEW keys, NEW S, NEW headers, RowsList(rows, n, keys, S, headers)
    PROVE  RowHeaders(rows) = [k \in S |-> headers[k]]
<1> USE DEF RowsList
<1> DEFINE counted == {i \in 1..Len(rows) : ~IsBlank(rows[i].key) /\ ~IsBlank(rows[i].value)}
           last(k) == CHOOSE i \in counted :
                        rows[i].key = k /\ \A j \in counted : rows[j].key = k => j <= i
           K == {rows[i].key : i \in counted}
<1>1. counted = 1..n
  <2>1. ASSUME NEW i \in 1..n PROVE ~IsBlank(rows[i].key) /\ ~IsBlank(rows[i].value)
    <3>1. keys[i] \in S /\ rows[i].key = keys[i] /\ rows[i].value = headers[keys[i]]
      OBVIOUS
    <3>2. ~IsBlank(keys[i]) /\ ~IsBlank(headers[keys[i]])
      BY <3>1
    <3> QED
      BY <3>1, <3>2, Zenon
  <2> QED
    BY <2>1
<1>2. K = S
  <2> HIDE DEF counted
  <2> QED
    BY <1>1
<1>3. ASSUME NEW i \in 1..n PROVE last(keys[i]) = i
  <2> HIDE DEF counted
  <2>1. \A j \in counted : rows[j].key = keys[i] => j = i
    BY <1>1
  <2>2. /\ i \in counted /\ rows[i].key = keys[i]
        /\ \A j \in counted : rows[j].key = keys[i] => j <= i
    BY <1>1, <2>1
  <2> QED
    BY <2>1, <2>2
<1>4. RowHeaders(rows) = [k \in K |-> rows[last(k)].value]
  BY DEF RowHeaders
<1>5. ASSUME NEW k \in S PROVE rows[last(k)].value = headers[k]
  <2>1. PICK i \in 1..n : keys[i] = k
    OBVIOUS
  <2> HIDE DEF last
  <2> QED
    BY <1>3, <2>1
<1> HIDE DEF K, last
<1> QED
  BY <1>2, <1>4, <1>5

\* restoreHeaders followed by resolvedHeaders is the identity: every key comes back
\* once, with its value, in whichever half of the form it was put.
LEMMA HeadersRoundTrip ==
    ASSUME NEW headers \in HeaderMap, NEW restored \in RestoredForms(headers)
    PROVE  ResolvedHeaders(restored) = headers
<1>1. PICK K \in SUBSET HeaderKey : IsFiniteSet(K) /\ headers \in [K -> HeaderValue]
  BY DEF HeaderMap
<1>2. DOMAIN headers = K
  BY <1>1
<1> DEFINE S == K \ ComunesKey
<1>3. PICK keys \in SetToSeqs(S) :
        restored = [enabled |-> K # {},
                    comunes |-> [k \in ComunesKey |-> IF k \in K THEN headers[k] ELSE Empty],
                    rows |-> [i \in DOMAIN keys |-> [key |-> keys[i], value |-> headers[keys[i]]]]]
  BY <1>2 DEF RestoredForms
<1>4. CASE K = {}
  <2>1. ~restored.enabled
    BY <1>3, <1>4
  <2>2. ResolvedHeaders(restored) = NoHeaders
    BY <2>1 DEF ResolvedHeaders
  <2> QED
    BY <1>1, <1>4, <2>2 DEF NoHeaders
<1>5. CASE K # {}
  <2> DEFINE n == Cardinality(S)
             rows == restored.rows
             comunes == {k \in ComunesKey : ~IsBlank(restored.comunes[k])}
  <2>1. n \in Nat /\ IsFiniteSet(S)
    BY <1>1, FS_Difference, FS_CardinalityType
  <2>2. keys \in [1..n -> S] /\ \A i, j \in 1..n : i # j => keys[i] # keys[j]
    BY <1>3 DEF SetToSeqs
  <2>3. \A k \in S : \E i \in 1..n : keys[i] = k
    <3> HIDE DEF S
    <3>1. keys \in Injection(1..n, S)
      BY <2>2 DEF Injection, IsInjective
    <3>2. Cardinality(1..n) = n
      BY <2>1, FS_Interval
    <3>3. keys \in Surjection(1..n, S)
      BY <2>1, <3>1, <3>2, FS_Injection
    <3> QED
      BY <3>3 DEF Surjection
  <2>4. RowHeaders(rows) = [k \in S |-> headers[k]]
    <3>1. rows = [i \in 1..n |-> [key |-> keys[i], value |-> headers[keys[i]]]]
      BY <1>3, <2>1, <2>2
    <3>2. Len(rows) = n
      BY <2>1, <3>1
    <3>3. \A i \in 1..n : rows[i].key = keys[i] /\ rows[i].value = headers[keys[i]]
      BY <3>1
    <3>4. \A k \in S : ~IsBlank(k) /\ ~IsBlank(headers[k])
      BY <1>1, HeadersAssumption DEF HeaderKey
    <3>5. keys \in [1..n -> S]
      BY <2>2
    <3>6. \A i, j \in 1..n : i # j => keys[i] # keys[j]
      BY <2>2
    <3>7. n \in Nat
      BY <2>1
    <3>8. RowsList(rows, n, keys, S, headers)
      BY <2>3, <3>2, <3>3, <3>4, <3>5, <3>6, <3>7 DEF RowsList
    <3> HIDE DEF rows, S, n
    <3> QED
      BY <3>8, DistinctRows
  <2>5. comunes = K \cap ComunesKey
    <3>1. \A k \in ComunesKey : restored.comunes[k] = IF k \in K THEN headers[k] ELSE Empty
      BY <1>3
    <3>2. \A k \in K : ~IsBlank(headers[k])
      BY <1>1, HeadersAssumption
    <3> QED
      BY <3>1, <3>2 DEF IsBlank
  <2>6. \A k \in comunes : restored.comunes[k] = headers[k]
    BY <1>3, <2>5
  <2>7. ResolvedHeaders(restored)
           = [k \in comunes \cup S |-> IF k \in comunes THEN restored.comunes[k]
                                      ELSE [j \in S |-> headers[j]][k]]
    <3>1. restored.enabled
      BY <1>3, <1>5
    <3>2. DOMAIN [j \in S |-> headers[j]] = S
      OBVIOUS
    <3> HIDE DEF S
    <3> QED
      BY <2>4, <3>1, <3>2 DEF ResolvedHeaders
  <2>8. comunes \cup S = K
    BY <2>5
  <2>9. ResolvedHeaders(restored) = [k \in K |-> headers[k]]
    <3> HIDE DEF comunes
    <3> QED
      BY <2>6, <2>7, <2>8
  <2> QED
    BY <1>1, <2>9
<1> QED
  BY <1>4, <1>5

-----------------------------------------------------------------------------
(* Types *)

\* What is in the form is a content.
LEMMA ContentType ==
    ASSUME NEW e \in Exchange \cup {Empty, Blank}, NEW r \in RoutingKey \cup {Empty, Blank},
           NEW p \in Payload \cup {Empty, Blank}, NEW headers \in HeaderForm
    PROVE  Content(e, r, p, ResolvedHeaders(headers)) \in Contents
BY ResolvedHeadersType DEF Content, Contents

\* The newest entries of a list of entries are such a list, within the cap.
LEMMA NewestType ==
    ASSUME NEW S, NEW list \in Seq(S)
    PROVE  Newest(list) \in Seq(S) /\ Len(Newest(list)) <= RecentSendsCap
<1> DEFINE n == IF Len(list) < RecentSendsCap THEN Len(list) ELSE RecentSendsCap
<1>1. n \in Nat /\ n <= Len(list) /\ n <= RecentSendsCap
  BY HistoryAssumption
<1>2. \A i \in 1..n : list[i] \in S
  BY <1>1
<1>3. SubSeq(list, 1, n) \in Seq(S) /\ Len(SubSeq(list, 1, n)) = IF 1 <= n THEN n - 1 + 1 ELSE 0
  <2> HIDE DEF n
  <2> QED
    BY <1>1, <1>2, SubSeqProperties
<1>4. Newest(list) = SubSeq(list, 1, n)
  BY DEF Newest
<1> HIDE DEF n
<1> QED
  BY <1>1, <1>3, <1>4

\* A row removed or changed leaves rows.
LEMMA RemovedRowType ==
    ASSUME NEW rows \in Seq(HeaderRow), NEW i \in 1..Len(rows)
    PROVE  RemoveAt(rows, i) \in Seq(HeaderRow)
<1>1. SubSeq(rows, 1, i - 1) \in Seq(HeaderRow)
  <2>1. \A j \in 1..(i - 1) : rows[j] \in HeaderRow
    OBVIOUS
  <2> QED
    BY <2>1, SubSeqProperties
<1>2. SubSeq(rows, i + 1, Len(rows)) \in Seq(HeaderRow)
  <2>1. \A j \in (i + 1)..Len(rows) : rows[j] \in HeaderRow
    OBVIOUS
  <2> QED
    BY <2>1, SubSeqProperties
<1> QED
  BY <1>1, <1>2, ConcatProperties DEF RemoveAt

LEMMA HeaderFormStep ==
    ASSUME headersForm \in HeaderForm, HeaderInput
    PROVE  headersForm' \in HeaderForm
<1> USE DEF SetHeaders
<1>1. CASE ToggleHeaders
  BY <1>1 DEF ToggleHeaders, HeaderForm
<1>2. ASSUME NEW k \in ComunesKey, NEW v \in HeaderText, ComunesInput(k, v)
      PROVE  headersForm' \in HeaderForm
  BY <1>2 DEF ComunesInput, HeaderForm
<1>3. CASE generateCorrelationId
  BY <1>2, <1>3, SendPanelAssumption DEF generateCorrelationId, HeaderText
<1>4. CASE addHeaderRow
  <2>1. [key |-> Empty, value |-> Empty] \in HeaderRow
    BY DEF HeaderRow, HeaderText
  <2>2. Append(headersForm.rows, [key |-> Empty, value |-> Empty]) \in Seq(HeaderRow)
    BY <2>1 DEF HeaderForm
  <2> QED
    BY <1>4, <2>2 DEF addHeaderRow, HeaderForm
<1>5. ASSUME NEW i \in 1..Len(headersForm.rows), removeHeaderRow(i)
      PROVE  headersForm' \in HeaderForm
  BY <1>5, RemovedRowType DEF removeHeaderRow, HeaderForm
<1>6. ASSUME NEW i \in 1..Len(headersForm.rows), NEW k \in HeaderKey \cup {Empty, Blank},
             updateHeaderRowKey(i, k)
      PROVE  headersForm' \in HeaderForm
  <2>1. headersForm.rows[i] \in HeaderRow
    BY DEF HeaderForm
  <2>2. [headersForm.rows[i] EXCEPT !.key = k] \in HeaderRow
    BY <2>1 DEF HeaderRow
  <2>3. [headersForm.rows EXCEPT ![i].key = k] \in Seq(HeaderRow)
    BY <2>2, ExceptSeq DEF HeaderForm
  <2> QED
    BY <1>6, <2>3 DEF updateHeaderRowKey, HeaderForm
<1>7. ASSUME NEW i \in 1..Len(headersForm.rows), NEW v \in HeaderText,
             updateHeaderRowValue(i, v)
      PROVE  headersForm' \in HeaderForm
  <2>1. headersForm.rows[i] \in HeaderRow
    BY DEF HeaderForm
  <2>2. [headersForm.rows[i] EXCEPT !.value = v] \in HeaderRow
    BY <2>1 DEF HeaderRow
  <2>3. [headersForm.rows EXCEPT ![i].value = v] \in Seq(HeaderRow)
    BY <2>2, ExceptSeq DEF HeaderForm
  <2> QED
    BY <1>7, <2>3 DEF updateHeaderRowValue, HeaderForm
<1> QED
  BY <1>1, <1>2, <1>3, <1>4, <1>5, <1>6, <1>7 DEF HeaderInput

AddressOK ==
    /\ exchange \in Exchange \cup {Empty, Blank}
    /\ routingKey \in RoutingKey \cup {Empty, Blank}
    /\ payload \in Payload \cup {Empty, Blank}
    /\ headersForm \in HeaderForm

ReplyOK ==
    /\ replyMode \in BOOLEAN /\ expectReply \in BOOLEAN
    /\ correlationId \in CorrelationId \cup {Empty, Blank}
    /\ touched \subseteq SendField

BaselineOK == lastAppliedSnapshot \in Contents /\ kept \in Contents

DraftsOK ==
    /\ draft \in [target : Target, seq : 1..MaxDrafts] \cup {None}
    /\ lastAppliedDraftSeq \in 0..MaxDrafts

PostsOK == posts \in [Post -> PostBody \cup {None}]

HistoryOK ==
    /\ recentSends \in Seq(Contents) /\ sendLog \in Seq(Contents)
    /\ templates \subseteq Template
    /\ stored \in [recentSends : SUBSET Seq(Contents), templates : SUBSET SUBSET Template]

\* The type invariant in parts, each of its own variables.
LEMMA TypeParts ==
    SPTypeOK <=> AddressOK /\ ReplyOK /\ BaselineOK /\ DraftsOK /\ PostsOK /\ HistoryOK
BY DEF SPTypeOK, AddressOK, ReplyOK, BaselineOK, DraftsOK, PostsOK, HistoryOK

\* The form starts empty, and the lists are read from what is stored.
LEMMA EmptyFormType == EmptyHeaderForm \in HeaderForm /\ EmptySnapshot \in Contents
<1>1. EmptyHeaderForm \in HeaderForm
  BY DEF EmptyHeaderForm, HeaderForm, HeaderText
<1>2. NoHeaders \in HeaderMap
  <2>1. NoHeaders \in [{} -> HeaderValue] /\ IsFiniteSet({})
    BY FS_EmptySet DEF NoHeaders
  <2> QED
    BY <2>1 DEF HeaderMap
<1> QED
  BY <1>1, <1>2 DEF EmptySnapshot, Content, Contents

\* What a reload reads back has its type.
LEMMA ReadType ==
    ASSUME NEW raw \in [recentSends : SUBSET Seq(Contents), templates : SUBSET SUBSET Template]
    PROVE  ReadSends(raw) \in Seq(Contents) /\ ReadTemplates(raw) \in SUBSET Template
<1>1. ReadSends(raw) \in Seq(Contents)
  <2>1. raw.recentSends \subseteq Seq(Contents)
    OBVIOUS
  <2>2. CASE raw.recentSends = {}
    BY <2>2 DEF ReadSends, ReadArray
  <2>3. CASE raw.recentSends # {}
    BY <2>1, <2>3 DEF ReadSends, ReadArray
  <2> QED
    BY <2>2, <2>3
<1>2. ReadTemplates(raw) \in SUBSET Template
  <2>1. raw.templates \subseteq SUBSET Template
    OBVIOUS
  <2>2. CASE raw.templates = {}
    BY <2>2 DEF ReadTemplates, ReadArray
  <2>3. CASE raw.templates # {}
    BY <2>1, <2>3 DEF ReadTemplates, ReadArray
  <2> QED
    BY <2>2, <2>3
<1> QED
  BY <1>1, <1>2

\* The empty form.
LEMMA TypeInit == SPInit => SPTypeOK
<1> SUFFICES ASSUME SPInit PROVE SPTypeOK
  OBVIOUS
<1>1. AddressOK /\ ReplyOK
  BY EmptyFormType DEF SPInit, AddressOK, ReplyOK
<1>2. BaselineOK
  BY EmptyFormType DEF SPInit, BaselineOK
<1>3. DraftsOK /\ PostsOK
  BY SendPanelAssumption DEF SPInit, DraftsOK, PostsOK
<1>4. HistoryOK
  <2>1. stored \in [recentSends : SUBSET Seq(Contents), templates : SUBSET SUBSET Template]
    BY DEF SPInit, LoadHistory
  <2> QED
    BY <2>1, ReadType DEF SPInit, LoadHistory, HistoryOK
<1> QED
  BY <1>1, <1>2, <1>3, <1>4, TypeParts

\* The snapshot of the form.
LEMMA CurrentType == AddressOK => currentSnapshot \in Contents
BY ContentType DEF AddressOK, currentSnapshot, resolvedHeaders

\* An entry that is recalled fills the form with what it holds.
LEMMA RecallType ==
    ASSUME SPTypeOK, NEW content \in Contents, NEW headers \in RestoredForms(content.headers),
           Recall(content, headers)
    PROVE  AddressOK' /\ BaselineOK' /\ replyMode' = FALSE
<1>1. content.headers \in HeaderMap
  BY DEF Contents
<1>2. headers \in HeaderForm
  BY <1>1, RestoredFormsType
<1>3. AddressOK' /\ replyMode' = FALSE
  BY <1>2 DEF Recall, AddressOK, Contents
<1>4. Content(exchange', routingKey', payload', ResolvedHeaders(headers)) \in Contents
  BY <1>2, <1>3, ContentType DEF AddressOK
<1> QED
  BY <1>3, <1>4 DEF Recall, Filled, BaselineOK

\* Every event keeps the types.
LEMMA TypeStep ==
    ASSUME SPTypeOK, [SPNext]_spVars
    PROVE  SPTypeOK'
<1>0. AddressOK /\ ReplyOK /\ BaselineOK /\ DraftsOK /\ PostsOK /\ HistoryOK
  BY TypeParts
<1>h. AddressOK' /\ ReplyOK' /\ BaselineOK' /\ DraftsOK' /\ PostsOK' /\ HistoryOK' => SPTypeOK'
  BY DEF SPTypeOK, AddressOK, ReplyOK, BaselineOK, DraftsOK, PostsOK, HistoryOK
<1> USE DEF form, address, reply, baseline, drafts, historyVars
<1>a. ASSUME UNCHANGED historyVars PROVE HistoryOK'
  BY <1>0, <1>a DEF HistoryOK
<1>b. ASSUME UNCHANGED posts PROVE PostsOK'
  BY <1>0, <1>b DEF PostsOK
<1>c. ASSUME UNCHANGED drafts PROVE DraftsOK'
  BY <1>0, <1>c DEF DraftsOK
<1>d. ASSUME UNCHANGED baseline PROVE BaselineOK'
  BY <1>0, <1>d DEF BaselineOK
<1>e. ASSUME UNCHANGED form PROVE AddressOK'
  BY <1>0, <1>e DEF AddressOK
<1>f. ASSUME UNCHANGED <<reply, expectReply, touched>> PROVE ReplyOK'
  BY <1>0, <1>f DEF ReplyOK
<1>g. ASSUME Edited PROVE BaselineOK' /\ DraftsOK' /\ PostsOK' /\ HistoryOK'
  <2>1. BaselineOK'
    BY <1>0, <1>g DEF Edited, BaselineOK
  <2> QED
    BY <1>a, <1>b, <1>c, <1>g, <2>1 DEF Edited
<1>1. ASSUME NEW f \in SendField, onBlur(f) PROVE SPTypeOK'
  <2>1. ReplyOK'
    BY <1>0, <1>1 DEF onBlur, ReplyOK
  <2> QED
    BY <1>1, <1>a, <1>b, <1>c, <1>d, <1>e, <2>1, <1>h DEF onBlur
<1>2. CASE AddressInput
  <2>1. Edited
    BY <1>2 DEF AddressInput, onExchangeInput, onRoutingKeyInput, PayloadInput
  <2>2. AddressOK'
    BY <1>0, <1>2
       DEF AddressInput, onExchangeInput, onRoutingKeyInput, PayloadInput, AddressOK
  <2>3. ReplyOK'
    BY <1>0, <1>2
       DEF AddressInput, onExchangeInput, onRoutingKeyInput, PayloadInput, Edited, ReplyOK
  <2> QED
    BY <1>g, <2>1, <2>2, <2>3, <1>h
<1>3. CASE HeaderInput
  <2>1. Edited /\ UNCHANGED <<address, reply>>
    BY <1>3
       DEF HeaderInput, ToggleHeaders, ComunesInput, generateCorrelationId, addHeaderRow,
           removeHeaderRow, updateHeaderRowKey, updateHeaderRowValue, SetHeaders
  <2>2. AddressOK'
    BY <1>0, <1>3, <2>1, HeaderFormStep DEF AddressOK
  <2>3. ReplyOK'
    BY <1>f, <2>1 DEF Edited
  <2> QED
    BY <1>g, <2>1, <2>2, <2>3, <1>h
<1>4. CASE ToggleExpectReply
  <2>1. ReplyOK'
    BY <1>0, <1>4 DEF ToggleExpectReply, ReplyOK
  <2> QED
    BY <1>4, <1>a, <1>b, <1>c, <1>d, <1>e, <2>1, <1>h DEF ToggleExpectReply
<1>5. ASSUME NEW t \in Target, Request(t) PROVE SPTypeOK'
  <2>1. DraftsOK'
    BY <1>0, <1>5, SendPanelAssumption DEF Request, DraftsOK
  <2> QED
    BY <1>5, <1>a, <1>b, <1>d, <1>e, <1>f, <2>1, <1>h DEF Request
<1>6. ASSUME NEW v \in TypedCorrelationId \cup {Empty, Blank}, CorrelationIdInput(v)
      PROVE  SPTypeOK'
  <2>1. ReplyOK'
    BY <1>0, <1>6 DEF CorrelationIdInput, ReplyOK, CorrelationId
  <2> QED
    BY <1>6, <1>a, <1>b, <1>c, <1>d, <1>e, <2>1, <1>h DEF CorrelationIdInput
<1>7. CASE DeclineReplyDraft
  <2>1. DraftsOK'
    BY <1>0, <1>7 DEF DeclineReplyDraft, DraftWaits, DraftsOK
  <2> QED
    BY <1>7, <1>a, <1>b, <1>d, <1>e, <1>f, <2>1, <1>h DEF DeclineReplyDraft
<1>8. CASE applyReplyDraft
  <2>1. draft \in [target : Target, seq : 1..MaxDrafts]
    BY <1>0, <1>8 DEF applyReplyDraft, DraftWaits, DraftsOK
  <2>2. draft.target \in Target /\ draft.target.routingKey \in RoutingKey
    BY <2>1, SendPanelAssumption
  <2>3. AddressOK'
    BY <1>0, <1>8, <2>2 DEF applyReplyDraft, AddressOK
  <2>4. ReplyOK'
    <3>1. correlationId' \in CorrelationId \cup {Empty}
      BY <1>8, <2>2 DEF applyReplyDraft, CorrelationId, Correlations
    <3> QED
      BY <1>0, <1>8, <3>1 DEF applyReplyDraft, ReplyOK
  <2>5. BaselineOK'
    <3>1. Content(exchange', routingKey', payload', resolvedHeaders) \in Contents
      BY <1>0, <1>8, <2>3, ContentType DEF AddressOK, resolvedHeaders, applyReplyDraft
    <3> QED
      BY <1>8, <3>1 DEF applyReplyDraft, Filled, BaselineOK
  <2>6. DraftsOK'
    BY <1>0, <1>8, <2>1 DEF applyReplyDraft, DraftsOK
  <2> QED
    BY <1>8, <1>a, <1>b, <2>3, <2>4, <2>5, <2>6, <1>h DEF applyReplyDraft
<1>9. CASE sendBlocked
  <2>1. ReplyOK'
    BY <1>0, <1>9 DEF sendBlocked, ReplyOK
  <2> QED
    BY <1>9, <1>a, <1>b, <1>c, <1>d, <1>e, <2>1, <1>h DEF sendBlocked
<1>10. ASSUME NEW p \in Post, send(p) PROVE SPTypeOK'
  <2>1. CarriedCorrelationId \in CorrelationId \cup {None}
    BY <1>0 DEF CarriedCorrelationId, IsBlank, ReplyOK
  <2>2. [withReply |-> expectReply, content |-> currentSnapshot,
         correlationId |-> CarriedCorrelationId] \in PostBody
    BY <1>0, <2>1, CurrentType DEF PostBody, ReplyOK
  <2>3. PostsOK'
    BY <1>0, <1>10, <2>2 DEF send, PostsOK
  <2> QED
    BY <1>10, <1>a, <1>c, <1>d, <1>e, <1>f, <2>3, <1>h DEF send
<1>11. ASSUME NEW p \in Post, SendSucceeds(p) PROVE SPTypeOK'
  <2>1. PostsOK'
    BY <1>0, <1>11 DEF SendSucceeds, Settled, PostsOK
  <2>2. posts[p].content \in Contents
    BY <1>0, <1>11 DEF SendSucceeds, Settled, PostsOK, PostBody
  <2>3. BaselineOK'
    BY <1>0, <1>11, <2>2, CurrentType DEF SendSucceeds, BaselineOK
  <2>4. recentSends' \in Seq(Contents)
    <3>1. <<posts[p].content>> \o recentSends \in Seq(Contents)
      BY <1>0, <2>2 DEF HistoryOK
    <3> QED
      BY <1>11, <3>1, NewestType DEF SendSucceeds, RecordSend, Recorded
  <2>5. HistoryOK'
    <3>1. stored' \in [recentSends : SUBSET Seq(Contents), templates : SUBSET SUBSET Template]
      <4>1. SetItem("recentSends", recentSends')
        BY <1>11 DEF SendSucceeds, RecordSend
      <4>2. {recentSends'} \in SUBSET Seq(Contents)
        BY <2>4
      <4> QED
        BY <1>0, <4>1, <4>2 DEF SetItem, HistoryOK
    <3>2. sendLog' \in Seq(Contents) /\ templates' \subseteq Template
      BY <1>0, <1>11, <2>2 DEF SendSucceeds, RecordSend, HistoryOK
    <3> QED
      BY <2>4, <3>1, <3>2 DEF HistoryOK
  <2> QED
    BY <1>11, <1>c, <1>e, <1>f, <2>1, <2>3, <2>5, <1>h DEF SendSucceeds
<1>12. ASSUME NEW p \in Post, SendSettles(p) PROVE SPTypeOK'
  <2>1. PostsOK'
    BY <1>0, <1>12 DEF SendSettles, Settled, PostsOK
  <2> QED
    BY <1>12, <1>a, <1>c, <1>d, <1>e, <1>f, <2>1, <1>h DEF SendSettles
<1>13. ASSUME NEW e \in Contents, useRecent(e) PROVE SPTypeOK'
  <2>1. PICK headers \in RestoredForms(e.headers) : Recall(e, headers) /\ UNCHANGED touched
    BY <1>13 DEF useRecent
  <2>2. AddressOK' /\ BaselineOK' /\ replyMode' = FALSE
    BY <2>1, RecallType
  <2>3. ReplyOK'
    BY <1>0, <2>1, <2>2 DEF Recall, ReplyOK
  <2> QED
    BY <1>a, <1>b, <1>c, <2>1, <2>2, <2>3, <1>h DEF Recall
<1>14. ASSUME NEW t \in templates, useTemplate(t) PROVE SPTypeOK'
  <2>1. t.content \in Contents
    BY <1>0 DEF HistoryOK, Template
  <2>2. PICK headers \in RestoredForms(t.content.headers) :
          Recall(t.content, headers) /\ touched' = SendField
    BY <1>14 DEF useTemplate
  <2>3. AddressOK' /\ BaselineOK' /\ replyMode' = FALSE
    BY <2>1, <2>2, RecallType
  <2>4. ReplyOK'
    BY <1>0, <2>2, <2>3 DEF Recall, ReplyOK
  <2> QED
    BY <1>a, <1>b, <1>c, <2>2, <2>3, <2>4, <1>h DEF Recall
<1>15. ASSUME NEW S \in SUBSET Template, StoreTemplates(S) PROVE HistoryOK'
  BY <1>0, <1>15 DEF StoreTemplates, SetItem, HistoryOK
<1>16. ASSUME NEW n \in TemplateName, saveTemplate(n) PROVE SPTypeOK'
  <2>1. [name |-> n, content |-> currentSnapshot] \in Template
    BY <1>0, CurrentType DEF Template
  <2>2. HistoryOK'
    BY <1>0, <1>15, <1>16, <2>1 DEF saveTemplate, StoreTemplate, HistoryOK
  <2> QED
    BY <1>16, <1>b, <1>c, <1>d, <1>e, <1>f, <2>2, <1>h DEF saveTemplate
<1>17. ASSUME NEW n, deleteTemplate(n) PROVE SPTypeOK'
  <2>1. HistoryOK'
    BY <1>0, <1>15, <1>17 DEF deleteTemplate, DropTemplate, HistoryOK
  <2> QED
    BY <1>17, <1>b, <1>c, <1>d, <1>e, <1>f, <2>1, <1>h DEF deleteTemplate
<1>18. CASE Reload
  <2>1. AddressOK' /\ ReplyOK'
    BY <1>18, EmptyFormType DEF Reload, AddressOK, ReplyOK
  <2>2. BaselineOK'
    BY <1>18, EmptyFormType DEF Reload, Filled, BaselineOK
  <2>3. DraftsOK' /\ PostsOK'
    BY <1>18, SendPanelAssumption DEF Reload, DraftsOK, PostsOK
  <2>4. HistoryOK'
    BY <1>0, <1>18, ReadType DEF Reload, ReloadHistory, HistoryOK
  <2> QED
    BY <2>1, <2>2, <2>3, <2>4, <1>h
<1>19. ASSUME NEW list \in {"recentSends", "templates"}, OutsideWrite(list, {}) PROVE SPTypeOK'
  <2>1. HistoryOK'
    BY <1>0, <1>19 DEF OutsideWrite, StorageChanges, HistoryOK
  <2> QED
    BY <1>19, <1>b, <1>c, <1>d, <1>e, <1>f, <2>1, <1>h DEF OutsideWrite
<1>20. CASE UNCHANGED spVars
  BY <1>20, <1>a, <1>b, <1>c, <1>d, <1>e, <1>f, <1>h DEF spVars
<1>21. CASE ReplyInput
  BY <1>6, <1>7, <1>8, <1>21 DEF ReplyInput
<1>22. CASE Sending
  BY <1>9, <1>10, <1>11, <1>12, <1>22 DEF Sending
<1>23. CASE Recalling
  BY <1>0, <1>13, <1>23 DEF Recalling, HistoryOK
<1>24. CASE Templates
  BY <1>14, <1>16, <1>17, <1>24 DEF Templates
<1> QED
  BY <1>1, <1>2, <1>3, <1>4, <1>5, <1>18, <1>19, <1>20, <1>21, <1>22, <1>23, <1>24
     DEF SPNext

\* The send panel and its history hold what their types say.
THEOREM SendPanelTypes == SPSpec => []SPTypeOK
BY TypeInit, TypeStep, PTL DEF SPSpec

\* However the headers of an entry of the history are laid out in the form again, they
\* are the headers it was sent or saved with (restoreHeaders, resolvedHeaders).
THEOREM RecalledHeaders == SPSpec => []RecalledHeadersAreSaved
<1>1. SPTypeOK => RecalledHeadersAreSaved
  <2> SUFFICES ASSUME SPTypeOK PROVE RecalledHeadersAreSaved
    OBVIOUS
  <2>1. \A e \in Range(recentSends) : e.headers \in HeaderMap
    <3>1. Range(recentSends) \subseteq Contents
      BY RangeOfSeq DEF SPTypeOK
    <3> QED
      BY <3>1 DEF Contents
  <2>2. \A t \in templates : t.content.headers \in HeaderMap
    BY DEF SPTypeOK, Template, Contents
  <2>3. ASSUME NEW e \in Range(recentSends) \cup {t.content : t \in templates}
        PROVE  e.headers \in HeaderMap
    BY <2>1, <2>2
  <2>4. ASSUME NEW e \in Range(recentSends) \cup {t.content : t \in templates},
               NEW headers \in RestoredForms(e.headers)
        PROVE  ResolvedHeaders(headers) = e.headers
    BY <2>3, <2>4, HeadersRoundTrip
  <2> QED
    BY <2>4, Zenon DEF RecalledHeadersAreSaved
<1> QED
  BY <1>1, SendPanelTypes, PTL

-----------------------------------------------------------------------------
(* The history *)

LEMMA ReadStored ==
    ASSUME NEW list
    PROVE  \A empty : ReadArray({list}, empty) = list
BY DEF ReadArray

\* A write changes the entry it names, or none; the list is out of step if none.
LEMMA SetItemEffect ==
    ASSUME SPTypeOK, NEW list \in {"recentSends", "templates"}, NEW value, SetItem(list, value)
    PROVE  /\ \/ stored'[list] = {value}
              \/ stored'[list] = stored[list] /\ list \in outOfStep'
           /\ \A other \in {"recentSends", "templates"} \ {list} :
                 /\ stored'[other] = stored[other]
                 /\ other \in outOfStep' <=> other \in outOfStep
<1>1. stored = [recentSends |-> stored.recentSends, templates |-> stored.templates]
  BY DEF SPTypeOK
<1> QED
  BY <1>1 DEF SetItem

\* The three ways the history changes, and what it looks like otherwise.
LEMMA HistoryStep ==
    ASSUME [SPNext]_spVars
    PROVE  \/ \E p \in Post : SendSucceeds(p)
           \/ \E n \in TemplateName : StoreTemplate([name |-> n, content |-> currentSnapshot])
           \/ \E n : DropTemplate(n)
           \/ ReloadHistory
           \/ \E list \in {"recentSends", "templates"} : StorageChanges(list, {})
           \/ UNCHANGED historyVars
<1>1. CASE AddressInput \/ HeaderInput
  <2>1. Edited
    BY <1>1
       DEF AddressInput, onExchangeInput, onRoutingKeyInput, PayloadInput, HeaderInput,
           ToggleHeaders, ComunesInput, generateCorrelationId, addHeaderRow,
           removeHeaderRow, updateHeaderRowKey, updateHeaderRowValue, SetHeaders
  <2> QED
    BY <2>1 DEF Edited
<1>2. CASE ToggleExpectReply \/ ReplyInput
  BY <1>2
     DEF ToggleExpectReply, ReplyInput, CorrelationIdInput, DeclineReplyDraft,
         applyReplyDraft
<1>3. CASE Sending
  BY <1>3 DEF Sending, sendBlocked, send, SendSettles
<1>4. CASE Recalling
  BY <1>4 DEF Recalling, useRecent, Recall
<1>5. CASE Templates
  BY <1>5 DEF Templates, saveTemplate, deleteTemplate, useTemplate, Recall
<1>6. CASE Reload
  BY <1>6 DEF Reload
<1>7. ASSUME NEW f \in SendField, onBlur(f) PROVE UNCHANGED historyVars
  BY <1>7 DEF onBlur
<1>8. ASSUME NEW t \in Target, Request(t) PROVE UNCHANGED historyVars
  BY <1>8 DEF Request
<1>9. ASSUME NEW list \in {"recentSends", "templates"}, OutsideWrite(list, {})
      PROVE  StorageChanges(list, {})
  BY <1>9 DEF OutsideWrite
<1>10. CASE UNCHANGED spVars
  BY <1>10 DEF spVars
<1> QED
  BY <1>1, <1>2, <1>3, <1>4, <1>5, <1>6, <1>7, <1>8, <1>9, <1>10 DEF SPNext

\* A reload at any moment brings back both lists as they are, unless something else
\* wrote them since or this tab's last write threw (SendHistoryService writes a list
\* whenever its signal changes).
THEOREM ReloadIsLossless == SPSpec => []ReloadLosesNothing
<1>1. SPInit => ReloadLosesNothing
  BY DEF SPInit, LoadHistory, ReloadLosesNothing
<1>2. ASSUME SPTypeOK, ReloadLosesNothing, [SPNext]_spVars PROVE ReloadLosesNothing'
  <2> USE DEF ReloadLosesNothing, ReadSends, ReadTemplates
  <2>1. stored = [recentSends |-> stored.recentSends, templates |-> stored.templates]
    BY <1>2 DEF SPTypeOK
  <2>2. ASSUME NEW p \in Post, SendSucceeds(p) PROVE ReloadLosesNothing'
    <3>1. SetItem("recentSends", recentSends') /\ UNCHANGED templates
      BY <2>2 DEF SendSucceeds, RecordSend
    <3>2. /\ stored'.recentSends = {recentSends'} \/ "recentSends" \in outOfStep'
          /\ stored'.templates = stored.templates
          /\ "templates" \in outOfStep' <=> "templates" \in outOfStep
      BY <1>2, <3>1, SetItemEffect
    <3> QED
      BY <1>2, <3>1, <3>2, ReadStored
  <2>3. ASSUME NEW S, StoreTemplates(S) PROVE ReloadLosesNothing'
    <3>1. SetItem("templates", templates') /\ UNCHANGED recentSends
      BY <2>3 DEF StoreTemplates
    <3>2. /\ stored'.templates = {templates'} \/ "templates" \in outOfStep'
          /\ stored'.recentSends = stored.recentSends
          /\ "recentSends" \in outOfStep' <=> "recentSends" \in outOfStep
      BY <1>2, <3>1, SetItemEffect
    <3> QED
      BY <1>2, <3>1, <3>2, ReadStored
  <2>4. CASE ReloadHistory
    BY <2>4 DEF ReloadHistory
  <2>5. ASSUME NEW list \in {"recentSends", "templates"}, StorageChanges(list, {})
        PROVE  ReloadLosesNothing'
    BY <1>2, <2>1, <2>5 DEF StorageChanges
  <2>6. CASE UNCHANGED historyVars
    BY <1>2, <2>6 DEF historyVars
  <2> QED
    BY <1>2, <2>2, <2>3, <2>4, <2>5, <2>6, HistoryStep DEF StoreTemplate, DropTemplate
<1> QED
  BY <1>1, <1>2, SendPanelTypes, PTL DEF SPSpec

\* No two templates of the set have the same name.
UniqueNames(set) == \A t, u \in set : t.name = u.name => t = u

\* No two templates have the same name, after a reload either.
THEOREM UniqueTemplates == SPSpec => []TemplateNamesUnique
<1> DEFINE Inv == UniqueNames(templates) /\ \A set \in stored.templates : UniqueNames(set)
<1>1. SPInit => Inv
  BY DEF SPInit, LoadHistory, ReadTemplates, ReadArray, UniqueNames
<1>2. ASSUME SPTypeOK, Inv, [SPNext]_spVars PROVE Inv'
  <2>1. stored = [recentSends |-> stored.recentSends, templates |-> stored.templates]
    BY <1>2 DEF SPTypeOK
  <2>2. ASSUME NEW p \in Post, SendSucceeds(p) PROVE Inv'
    <3>1. SetItem("recentSends", recentSends') /\ UNCHANGED templates
      BY <2>2 DEF SendSucceeds, RecordSend
    <3>2. stored'.templates = stored.templates
      BY <1>2, <3>1, SetItemEffect
    <3> QED
      BY <1>2, <3>1, <3>2
  <2>3. ASSUME NEW S, StoreTemplates(S), UniqueNames(S) PROVE Inv'
    <3>1. SetItem("templates", S) /\ templates' = S
      BY <2>3 DEF StoreTemplates
    <3>2. stored'.templates \in {{S}, stored.templates}
      BY <1>2, <3>1, SetItemEffect
    <3> QED
      BY <1>2, <2>3, <3>1, <3>2
  <2>4. ASSUME NEW t, StoreTemplate(t) PROVE Inv'
    <3>1. UniqueNames({u \in templates : u.name # t.name} \cup {t})
      BY <1>2 DEF UniqueNames
    <3> QED
      BY <2>3, <2>4, <3>1 DEF StoreTemplate
  <2>5. ASSUME NEW n, DropTemplate(n) PROVE Inv'
    <3>1. UniqueNames({u \in templates : u.name # n})
      BY <1>2 DEF UniqueNames
    <3> QED
      BY <2>3, <2>5, <3>1 DEF DropTemplate
  <2>6. CASE ReloadHistory
    <3>1. templates' \in stored.templates \/ templates' = {}
      BY <2>6 DEF ReloadHistory, ReadTemplates, ReadArray
    <3>2. UNCHANGED stored
      BY <2>6 DEF ReloadHistory
    <3> QED
      BY <1>2, <3>1, <3>2 DEF UniqueNames
  <2>7. ASSUME NEW list \in {"recentSends", "templates"}, StorageChanges(list, {}) PROVE Inv'
    <3>1. stored'.templates \subseteq stored.templates /\ UNCHANGED templates
      BY <2>1, <2>7 DEF StorageChanges
    <3> QED
      BY <1>2, <3>1
  <2>8. CASE UNCHANGED historyVars
    BY <1>2, <2>8 DEF historyVars
  <2> QED
    BY <1>2, <2>2, <2>4, <2>5, <2>6, <2>7, <2>8, HistoryStep
<1>3. Inv => TemplateNamesUnique
  BY DEF UniqueNames, TemplateNamesUnique
<1> QED
  BY <1>1, <1>2, <1>3, SendPanelTypes, PTL DEF SPSpec

\* An entry put before the newest entries of a list, or before the list itself: the newest
\* of either are the same.
LEMMA NewestOfNewest ==
    ASSUME NEW S, NEW e \in S, NEW list \in Seq(S)
    PROVE  Newest(<<e>> \o Newest(list)) = Newest(<<e>> \o list)
<1> DEFINE cap == RecentSendsCap
           new == Newest(list)
           l1 == <<e>> \o new
           l2 == <<e>> \o list
           n == IF Len(list) < cap THEN Len(list) ELSE cap
<1>1. cap \in Nat \ {0} /\ Len(list) \in Nat /\ n \in Nat /\ n <= Len(list)
  BY HistoryAssumption
<1>2. new = SubSeq(list, 1, n)
  BY DEF Newest
<1>3. new \in Seq(S) /\ Len(new) = n /\ \A i \in 1..n : new[i] = list[i]
  <2>1. \A i \in 1..n : list[i] \in S
    BY <1>1
  <2> HIDE DEF n, new
  <2>2. /\ SubSeq(list, 1, n) \in Seq(S)
        /\ Len(SubSeq(list, 1, n)) = IF 1 <= n THEN n - 1 + 1 ELSE 0
        /\ \A i \in 1..(n - 1 + 1) : SubSeq(list, 1, n)[i] = list[1 + i - 1]
    BY <1>1, <2>1, SubSeqProperties
  <2> QED
    BY <1>1, <1>2, <2>2
<1> HIDE DEF new
<1>4. /\ l1 \in Seq(S) /\ Len(l1) = n + 1
      /\ \A i \in 1..(n + 1) : l1[i] = IF i = 1 THEN e ELSE new[i - 1]
  BY <1>1, <1>3
<1>5. /\ l2 \in Seq(S) /\ Len(l2) = Len(list) + 1
      /\ \A i \in 1..(Len(list) + 1) : l2[i] = IF i = 1 THEN e ELSE list[i - 1]
  BY <1>1
<1>6. \A i \in 1..(n + 1) : l1[i] = l2[i]
  BY <1>1, <1>3, <1>4, <1>5
<1> DEFINE m == IF Len(l1) < cap THEN Len(l1) ELSE cap
<1>7. m = (IF Len(l2) < cap THEN Len(l2) ELSE cap) /\ m \in Nat /\ m <= n + 1 /\ m <= Len(l2)
  BY <1>1, <1>4, <1>5
<1>8. Newest(l1) = SubSeq(l1, 1, m) /\ Newest(l2) = SubSeq(l2, 1, m)
  BY <1>7 DEF Newest
<1> HIDE DEF l1, l2, m
<1>9. (\A i \in 1..m : l1[i] \in S) /\ (\A i \in 1..m : l2[i] \in S)
  BY <1>1, <1>4, <1>5, <1>7
<1>10. /\ SubSeq(l1, 1, m) \in Seq(S)
       /\ Len(SubSeq(l1, 1, m)) = IF 1 <= m THEN m - 1 + 1 ELSE 0
       /\ \A i \in 1..(m - 1 + 1) : SubSeq(l1, 1, m)[i] = l1[1 + i - 1]
  BY <1>7, <1>9, SubSeqProperties
<1>11. /\ SubSeq(l2, 1, m) \in Seq(S)
       /\ Len(SubSeq(l2, 1, m)) = IF 1 <= m THEN m - 1 + 1 ELSE 0
       /\ \A i \in 1..(m - 1 + 1) : SubSeq(l2, 1, m)[i] = l2[1 + i - 1]
  BY <1>7, <1>9, SubSeqProperties
<1>12. Len(SubSeq(l1, 1, m)) = m /\ Len(SubSeq(l2, 1, m)) = m
  BY <1>7, <1>10, <1>11
<1>13. \A i \in 1..m : SubSeq(l1, 1, m)[i] = SubSeq(l2, 1, m)[i]
  <2> SUFFICES ASSUME NEW i \in 1..m PROVE SubSeq(l1, 1, m)[i] = SubSeq(l2, 1, m)[i]
    OBVIOUS
  <2>1. i \in 1..(m - 1 + 1) /\ 1 + i - 1 = i /\ i \in 1..(n + 1)
    BY <1>1, <1>7
  <2>2. SubSeq(l1, 1, m)[i] = l1[i] /\ SubSeq(l2, 1, m)[i] = l2[i]
    BY <1>10, <1>11, <2>1
  <2> QED
    BY <1>6, <2>1, <2>2
<1>14. SubSeq(l1, 1, m) = SubSeq(l2, 1, m)
  BY <1>10, <1>11, <1>12, <1>13, SeqEqual
<1> QED
  BY <1>8, <1>14 DEF l1, l2, new

\* A list within the cap is its own newest part.
LEMMA NewestOfShort ==
    ASSUME NEW S, NEW list \in Seq(S), Len(list) <= RecentSendsCap
    PROVE  Newest(list) = list
<1>1. (IF Len(list) < RecentSendsCap THEN Len(list) ELSE RecentSendsCap) = Len(list)
  BY HistoryAssumption
<1> QED
  BY <1>1, SubSeqFull DEF Newest

\* The recent sends are the newest of what was loaded and sent since, newest first, each
\* as it was sent (SendHistoryService.recordSend, called when the answer comes).
THEOREM RecentAreNewest == SPSpec => []RecentSendsAreNewest
<1> DEFINE Inv == RecentSendsAreNewest
                  /\ \A list \in stored.recentSends : Len(list) <= RecentSendsCap
<1>1. SPInit => Inv
  <2>1. << >> \in Seq(Contents) /\ Len(<< >>) <= RecentSendsCap
    BY HistoryAssumption
  <2>2. Newest(<< >>) = << >>
    BY <2>1, NewestOfShort
  <2> QED
    BY <2>2 DEF SPInit, LoadHistory, ReadSends, ReadArray, RecentSendsAreNewest
<1>2. ASSUME SPTypeOK, Inv, [SPNext]_spVars PROVE Inv'
  <2>1. stored = [recentSends |-> stored.recentSends, templates |-> stored.templates]
    BY <1>2 DEF SPTypeOK
  <2>2. ASSUME UNCHANGED <<recentSends, sendLog>>,
               stored'.recentSends \subseteq stored.recentSends
        PROVE  Inv'
    BY <1>2, <2>2 DEF RecentSendsAreNewest, Newest
  <2>3. ASSUME NEW p \in Post, SendSucceeds(p) PROVE Inv'
    <3> DEFINE e == posts[p].content
    <3>1. e \in Contents /\ sendLog \in Seq(Contents)
      BY <1>2, <2>3 DEF SPTypeOK, PostBody, SendSucceeds, Settled
    <3>2. recentSends = Newest(sendLog)
      BY <1>2 DEF RecentSendsAreNewest
    <3>3. /\ recentSends' = Newest(<<e>> \o recentSends)
          /\ sendLog' = <<e>> \o sendLog
          /\ SetItem("recentSends", recentSends')
      BY <2>3 DEF SendSucceeds, RecordSend, Recorded
    <3>8. stored'.recentSends \in {{recentSends'}, stored.recentSends}
      BY <1>2, <3>3, SetItemEffect
    <3> HIDE DEF e
    <3>4. recentSends' = Newest(<<e>> \o sendLog)
      BY <3>1, <3>2, <3>3, NewestOfNewest
    <3>5. <<e>> \o sendLog \in Seq(Contents)
      BY <3>1
    <3>6. Len(recentSends') <= RecentSendsCap
      BY <3>4, <3>5, NewestType
    <3>7. RecentSendsAreNewest'
      BY <3>3, <3>4 DEF RecentSendsAreNewest, Newest
    <3> QED
      BY <1>2, <3>6, <3>7, <3>8
  <2>4. ASSUME NEW S, StoreTemplates(S) PROVE Inv'
    <3>1. SetItem("templates", S) /\ UNCHANGED <<recentSends, sendLog>>
      BY <2>4 DEF StoreTemplates
    <3>2. stored'.recentSends = stored.recentSends
      BY <1>2, <3>1, SetItemEffect
    <3> QED
      BY <2>2, <3>1, <3>2
  <2>5. CASE ReloadHistory
    <3>1. sendLog' = recentSends' /\ recentSends' = ReadSends(stored) /\ UNCHANGED stored
      BY <2>5 DEF ReloadHistory
    <3>2. recentSends' \in Seq(Contents) /\ Len(recentSends') <= RecentSendsCap
      <4>1. stored.recentSends \subseteq Seq(Contents)
        BY <1>2 DEF SPTypeOK
      <4>2. CASE stored.recentSends = {}
        BY <3>1, <4>2, HistoryAssumption DEF ReadSends, ReadArray
      <4>3. CASE stored.recentSends # {}
        BY <1>2, <3>1, <4>1, <4>3 DEF ReadSends, ReadArray
      <4> QED
        BY <4>2, <4>3
    <3>3. Newest(recentSends') = recentSends'
      BY <3>2, NewestOfShort
    <3>4. RecentSendsAreNewest'
      BY <3>1, <3>3 DEF RecentSendsAreNewest, Newest
    <3> QED
      BY <1>2, <3>1, <3>4
  <2>6. ASSUME NEW list \in {"recentSends", "templates"}, StorageChanges(list, {}) PROVE Inv'
    BY <2>1, <2>2, <2>6 DEF StorageChanges
  <2>7. CASE UNCHANGED historyVars
    BY <2>2, <2>7 DEF historyVars
  <2> QED
    BY <1>2, <2>3, <2>4, <2>5, <2>6, <2>7, HistoryStep DEF StoreTemplate, DropTemplate
<1> QED
  BY <1>1, <1>2, SendPanelTypes, PTL DEF SPSpec

-----------------------------------------------------------------------------
(* Where replies go *)

\* In reply mode the form has the default exchange and the queue of some message's
\* replyTo, and a correlation id of a message only beside the queue of one that has it.
ReplyModeInv ==
    replyMode =>
        /\ exchange = Empty
        /\ \E t \in Target : /\ t.routingKey = routingKey
                             /\ correlationId \in Correlations(Target) =>
                                   t.correlationId = correlationId

\* A reply goes where it was asked for: only a Responder click makes a send use the
\* default exchange, to a queue some message named in replyTo, and a correlation id taken
\* from a message goes to the queue of a message that has this very id.
THEOREM RepliesGoBack == SPSpec => []RepliesMatchTheirRequest
<1> DEFINE Inv == ReplyModeInv /\ RepliesMatchTheirRequest
<1>1. SPInit => Inv
  BY DEF SPInit, ReplyModeInv, RepliesMatchTheirRequest
<1>2. ASSUME SPTypeOK, Inv, [SPNext]_spVars PROVE Inv'
  <2> USE DEF address, form, reply, baseline, drafts, historyVars
  <2>1. ASSUME UNCHANGED posts PROVE RepliesMatchTheirRequest'
    BY <1>2, <2>1 DEF RepliesMatchTheirRequest
  <2>2. ASSUME UNCHANGED <<exchange, routingKey, reply>> PROVE ReplyModeInv'
    BY <1>2, <2>2 DEF ReplyModeInv
  <2>3. ASSUME replyMode' = FALSE PROVE ReplyModeInv'
    BY <2>3 DEF ReplyModeInv
  <2>4. ASSUME NEW f \in SendField, onBlur(f) PROVE Inv'
    BY <2>1, <2>2, <2>4 DEF onBlur
  <2>5. CASE AddressInput
    BY <2>1, <2>2, <2>3, <2>5
       DEF AddressInput, onExchangeInput, onRoutingKeyInput, PayloadInput, Edited
  <2>6. CASE HeaderInput
    BY <2>1, <2>2, <2>6
       DEF HeaderInput, ToggleHeaders, ComunesInput, generateCorrelationId, addHeaderRow,
           removeHeaderRow, updateHeaderRowKey, updateHeaderRowValue, SetHeaders, Edited
  <2>7. CASE ToggleExpectReply
    BY <2>1, <2>2, <2>7 DEF ToggleExpectReply
  <2>8. ASSUME NEW t \in Target, Request(t) PROVE Inv'
    BY <2>1, <2>2, <2>8 DEF Request
  <2>9. ASSUME NEW v \in TypedCorrelationId \cup {Empty, Blank}, CorrelationIdInput(v)
        PROVE  Inv'
    <3>1. v \notin Correlations(Target)
      BY SendPanelAssumption DEF Correlations, IsBlank
    <3>2. ReplyModeInv'
      BY <1>2, <2>9, <3>1 DEF CorrelationIdInput, ReplyModeInv
    <3> QED
      BY <2>1, <2>9, <3>2 DEF CorrelationIdInput
  <2>10. CASE DeclineReplyDraft
    BY <2>1, <2>2, <2>10 DEF DeclineReplyDraft
  <2>11. CASE applyReplyDraft
    <3>1. draft.target \in Target
      BY <1>2, <2>11 DEF applyReplyDraft, DraftWaits, SPTypeOK
    <3>2. Empty \notin Correlations(Target)
      BY SendPanelAssumption DEF Correlations, IsBlank
    <3>3. exchange' = Empty /\ routingKey' = draft.target.routingKey
      BY <2>11 DEF applyReplyDraft
    <3>4. correlationId' \in Correlations(Target) => draft.target.correlationId = correlationId'
      BY <2>11, <3>2 DEF applyReplyDraft
    <3> QED
      BY <2>1, <2>11, <3>1, <3>3, <3>4 DEF applyReplyDraft, ReplyModeInv
  <2>12. CASE sendBlocked
    BY <2>1, <2>2, <2>12 DEF sendBlocked
  <2>13. ASSUME NEW p \in Post, send(p) PROVE Inv'
    <3> DEFINE body == [withReply |-> expectReply, content |-> currentSnapshot,
                        correlationId |-> CarriedCorrelationId]
    <3>1. posts' = [posts EXCEPT ![p] = body] /\ ~hasErrors
      BY <2>13 DEF send
    <3>2. exchange = Empty => replyMode
      BY <3>1 DEF hasErrors, exchangeError, IsBlank
    <3>3. CarriedCorrelationId # None => replyMode /\ CarriedCorrelationId = correlationId
      BY DEF CarriedCorrelationId
    <3>4. None \notin Correlations(Target)
      BY DEF Correlations
    <3>5. /\ body.content.exchange = Empty =>
                \E t \in Target : t.routingKey = body.content.routingKey
          /\ body.correlationId # None => body.content.exchange = Empty
          /\ body.correlationId \in Correlations(Target) =>
                \E t \in Target : /\ t.correlationId = body.correlationId
                                  /\ t.routingKey = body.content.routingKey
      BY <1>2, <3>2, <3>3, <3>4 DEF currentSnapshot, Content, ReplyModeInv
    <3>6. \A q \in Post : posts'[q] = IF q = p THEN body ELSE posts[q]
      BY <1>2, <3>1 DEF SPTypeOK
    <3> HIDE DEF body
    <3>7. RepliesMatchTheirRequest'
      BY <1>2, <3>5, <3>6 DEF RepliesMatchTheirRequest
    <3> QED
      BY <2>2, <2>13, <3>7 DEF send
  <2>14. ASSUME NEW p \in Post, SendSucceeds(p) \/ SendSettles(p) PROVE Inv'
    <3>1. \A q \in Post : posts'[q] # None => posts'[q] = posts[q]
      BY <1>2, <2>14 DEF SendSucceeds, SendSettles, Settled, SPTypeOK
    <3>2. RepliesMatchTheirRequest'
      BY <1>2, <3>1 DEF RepliesMatchTheirRequest
    <3> QED
      BY <2>2, <2>14, <3>2 DEF SendSucceeds, SendSettles
  <2>15. CASE Recalling
    BY <2>1, <2>3, <2>15 DEF Recalling, useRecent, Recall
  <2>16. CASE Templates
    BY <2>1, <2>2, <2>3, <2>16
       DEF Templates, saveTemplate, deleteTemplate, useTemplate, Recall
  <2>17. CASE Reload
    <3>1. RepliesMatchTheirRequest'
      BY <2>17 DEF Reload, RepliesMatchTheirRequest
    <3> QED
      BY <2>3, <2>17, <3>1 DEF Reload
  <2>18. ASSUME NEW list \in {"recentSends", "templates"}, OutsideWrite(list, {}) PROVE Inv'
    BY <2>1, <2>2, <2>18 DEF OutsideWrite
  <2>19. CASE UNCHANGED spVars
    BY <2>1, <2>2, <2>19 DEF spVars
  <2> QED
    BY <1>2, <2>4, <2>5, <2>6, <2>7, <2>8, <2>9, <2>10, <2>11, <2>12, <2>13, <2>14, <2>15,
       <2>16, <2>17, <2>18, <2>19
       DEF SPNext, ReplyInput, Sending
<1> QED
  BY <1>1, <1>2, SendPanelTypes, PTL DEF SPSpec

=============================================================================
