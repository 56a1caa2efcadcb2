------------------------------ MODULE SendHistory ------------------------------
(***************************************************************************)
(* SendHistoryService: the recent sends and the named templates of a tab,  *)
(* each kept in a signal and written to localStorage at every change.      *)
(*                                                                         *)
(* An entry of localStorage is the set of the list it holds, empty when it *)
(* is missing, is not JSON or is no array.  The templates are a set: the   *)
(* order they are listed in means nothing.  The time of a send is left out.*)
(***************************************************************************)
EXTENDS Naturals, Sequences

CONSTANT RecentSendsCap \* RECENT_SENDS_CAP

ASSUME HistoryAssumption == RecentSendsCap \in Nat \ {0}

VARIABLES
    recentSends,    \* newest first
    templates,
    stored,         \* localStorage: the entries of both lists
    outOfStep,      \* history: lists whose entry something else wrote since, or a write of
                    \* this tab failed to
    sendLog         \* history: what was loaded and every plain send answered since, newest first

historyVars == <<recentSends, templates, stored, outOfStep, sendLog>>

\* Missing, malformed and non-array data is an empty list.
ReadArray(raw, empty) == IF raw = {} THEN empty ELSE CHOOSE list \in raw : TRUE
ReadSends(raw) == ReadArray(raw.recentSends, << >>)
ReadTemplates(raw) == ReadArray(raw.templates, {})

Newest(list) == SubSeq(list, 1, IF Len(list) < RecentSendsCap THEN Len(list) ELSE RecentSendsCap)

\* The signals are initialised from what localStorage holds.
LoadHistory(raw) ==
    /\ stored = raw
    /\ recentSends = ReadSends(raw)
    /\ templates = ReadTemplates(raw)
    /\ outOfStep = {}
    /\ sendLog = ReadSends(raw)

\* A reload: the service is created anew.
ReloadHistory ==
    /\ recentSends' = ReadSends(stored)
    /\ templates' = ReadTemplates(stored)
    /\ outOfStep' = {}
    /\ sendLog' = recentSends'
    /\ UNCHANGED stored

\* localStorage.setItem, after the signal was set: it throws when there is no room left
\* or storing is not allowed, and what the caller does next is not done.
SetItem(list, value) ==
    \/ /\ stored' = [stored EXCEPT ![list] = {value}]
       /\ outOfStep' = outOfStep \ {list}
    \/ /\ outOfStep' = outOfStep \cup {list}
       /\ UNCHANGED stored

Thrown(list) == list \in outOfStep'

\* Mutant: the new list is not written.
RecordSendInMemory(entry) ==
    /\ recentSends' = Newest(<<entry>> \o recentSends)
    /\ outOfStep' = outOfStep \ {"recentSends"}
    /\ UNCHANGED <<templates, stored>>

RecordSend(entry) ==
    /\ recentSends' = Newest(<<entry>> \o recentSends)
    /\ SetItem("recentSends", recentSends')
    /\ UNCHANGED templates

StoreTemplates(set) ==
    /\ templates' = set
    /\ SetItem("templates", set)
    /\ UNCHANGED <<recentSends, sendLog>>

\* Mutant: a template of the same name stays.
StoreTemplateAppends(template) == StoreTemplates(templates \cup {template})

\* saveTemplate: replaces a template of the same name.
StoreTemplate(template) ==
    StoreTemplates({t \in templates : t.name # template.name} \cup {template})

\* deleteTemplate
DropTemplate(name) == StoreTemplates({t \in templates : t.name # name})

\* Something else writes an entry: another tab of the application, the user
\* clearing or editing the site's data.  This tab does not notice.
StorageChanges(list, raw) ==
    /\ stored' = [stored EXCEPT ![list] = raw]
    /\ outOfStep' = outOfStep \cup {list}
    /\ UNCHANGED <<recentSends, templates, sendLog>>

-----------------------------------------------------------------------------
(* Properties *)

\* "Each list is restored from its own localStorage key": a reload at any moment
\* brings back both lists as they are, the newest change included, unless something
\* else wrote the entry since or the last write of this tab threw.
ReloadLosesNothing ==
    /\ "recentSends" \in outOfStep \/ ReadSends(stored) = recentSends
    /\ "templates" \in outOfStep \/ ReadTemplates(stored) = templates

\* The recent sends are the newest of what was sent, newest first, each as it was
\* sent, in whatever order the answers came and whatever was typed before they did.
RecentSendsAreNewest == recentSends = Newest(sendLog)

\* A name is the name of one template: loading and deleting by name mean one entry.
TemplateNamesUnique ==
    \A t, u \in templates : t.name = u.name => t = u
=============================================================================
