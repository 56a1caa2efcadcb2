------------------------------ MODULE SendHeaders ------------------------------
(***************************************************************************)
(* The custom headers of the send panel: five named fields (Comunes), free *)
(* rows (Adicionales) and a switch, merged into one map when a message is  *)
(* sent or saved, and split again when a saved entry is recalled.          *)
(*                                                                         *)
(* A header map is a function from its keys to its values.  A text is one  *)
(* of the given values, empty or all blanks.  The order of keys in the     *)
(* JavaScript object is not represented: rows come back in any order.      *)
(***************************************************************************)
EXTENDS Naturals, Sequences, FiniteSets, SequencesExt

CONSTANTS
    ComunesKey,     \* header names of the five named fields
    AdditionalKey,  \* other header names a user may enter
    HeaderValue     \* header values that are not blank

Empty == ""
Blank == " "
IsBlank(text) == text \in {Empty, Blank}

ASSUME HeadersAssumption ==
    /\ ComunesKey \cap AdditionalKey = {}
    /\ IsFiniteSet(ComunesKey)
    /\ \A t \in ComunesKey \cup AdditionalKey \cup HeaderValue : ~IsBlank(t)

HeaderKey == ComunesKey \cup AdditionalKey
HeaderMap == UNION {[K -> HeaderValue] : K \in {J \in SUBSET HeaderKey : IsFiniteSet(J)}}
NoHeaders == [k \in {} |-> Empty]

HeaderText == HeaderValue \cup {Empty, Blank}
HeaderRow == [key : HeaderKey \cup {Empty, Blank}, value : HeaderText]
HeaderForm == [enabled : BOOLEAN, comunes : [ComunesKey -> HeaderText], rows : Seq(HeaderRow)]

EmptyHeaderForm ==
    [enabled |-> FALSE, comunes |-> [k \in ComunesKey |-> Empty], rows |-> << >>]

\* The rows with a key and a value; the last one wins where a key is repeated.
RowHeaders(rows) ==
    LET counted == {i \in 1..Len(rows) : ~IsBlank(rows[i].key) /\ ~IsBlank(rows[i].value)}
        last(k) == CHOOSE i \in counted :
                     rows[i].key = k /\ \A j \in counted : rows[j].key = k => j <= i
    IN  [k \in {rows[i].key : i \in counted} |-> rows[last(k)].value]

\* resolvedHeaders: the named fields win; a disabled section has no headers,
\* whatever is still in its fields.
ResolvedHeaders(form) ==
    IF ~form.enabled THEN NoHeaders
    ELSE LET comunes == {k \in ComunesKey : ~IsBlank(form.comunes[k])}
             additional == RowHeaders(form.rows)
         IN  [k \in comunes \cup DOMAIN additional |->
                IF k \in comunes THEN form.comunes[k] ELSE additional[k]]

\* Mutant: restoring keeps the section as it was switched.
RestoredFormsDisabled(headers) ==
    {[enabled |-> FALSE,
      comunes |-> [k \in ComunesKey |-> IF k \in DOMAIN headers THEN headers[k] ELSE Empty],
      rows |-> [i \in DOMAIN keys |-> [key |-> keys[i], value |-> headers[keys[i]]]]] :
        keys \in SetToSeqs(DOMAIN headers \ ComunesKey)}

\* restoreHeaders: each key of a named field goes there, the others become rows;
\* the section is enabled when there are headers.
RestoredForms(headers) ==
    {[enabled |-> DOMAIN headers # {},
      comunes |-> [k \in ComunesKey |-> IF k \in DOMAIN headers THEN headers[k] ELSE Empty],
      rows |-> [i \in DOMAIN keys |-> [key |-> keys[i], value |-> headers[keys[i]]]]] :
        keys \in SetToSeqs(DOMAIN headers \ ComunesKey)}
=============================================================================
