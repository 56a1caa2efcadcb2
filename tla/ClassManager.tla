----------------------------- MODULE ClassManager -----------------------------
(***************************************************************************)
(* hlm.ts: the class attribute of an element styled by one or more         *)
(* directives.  Each directive is a source of classes that an effect keeps *)
(* up to date; a MutationObserver on the whole document tells the manager  *)
(* of changes, its own included, and what no source put there is kept as   *)
(* base classes.  Transitions are off until the first classes are painted. *)
(*                                                                         *)
(* A step is one effect, one observer callback (a microtask, for all the   *)
(* records there are), one animation frame or one change from outside.     *)
(* Classes that set the same property are of one group, and tailwind-merge *)
(* keeps the last of a group; the order in the attribute is left out.      *)
(* isUpdating is left out: it is false whenever another step runs.         *)
(***************************************************************************)
EXTENDS Naturals

CONSTANTS
    Element,
    Sources,            \* how many directives an element has
    Class, Group,       \* Group[c]: what c sets
    Palettes,           \* what a source may produce: classes of different groups
    Initially,          \* what the sources of a new element compute
    HostClasses,        \* the class attributes in the templates
    Others,             \* the classes others add; no two set the same property
    None,
    MaxChanges          \* bound: changes from outside, and of sources

Source == 1..Sources    \* in the order of their registration

OneOfEach(set) == \A c, d \in set : Group[c] = Group[d] => c = d

ASSUME ClassManagerAssumption ==
    /\ Sources \in Nat \ {0}
    /\ \A set \in Palettes : set \subseteq Class /\ OneOfEach(set)
    /\ Others \subseteq Class /\ OneOfEach(Others)
    /\ HostClasses \subseteq SUBSET Others
    /\ (\A set \in SUBSET Class : set # None) /\ Initially \in [Source -> Palettes]
    /\ MaxChanges \in Nat

VARIABLES
    className,      \* the element's classes, None while it is not in the document
    computed,       \* what each source computes by now
    sources,        \* manager.sources: what its effect has set, None before
    baseClasses,
    hasInitialized,
    transition,     \* the inline style: "own" or "none"
    transitionsSuppressed,
    restoreRafId,   \* an animation frame is requested
    observed,       \* observedElements; the elements with a manager
    records,        \* elements with mutation records the observer has not seen
    outside,        \* history: the classes of the template or put there by others
    unseen,         \* history: classes others changed, of which the observer has not heard
    overtaken,      \* history: classes an effect wrote while they were unseen, until others
                    \* change them again
    changes

managers == <<sources, baseClasses, hasInitialized>>
styles   == <<transition, transitionsSuppressed, restoreRafId>>
byOthers == <<outside, unseen, overtaken>>
cmVars   == <<className, computed, managers, styles, observed, records, byOthers, changes>>

Produced(srcs) == UNION {srcs[s] : s \in {t \in Source : srcs[t] # None}}

\* hlm([...allSourceClasses, ...baseClasses]): base classes win over sources, and a
\* source over the ones before it.
Applied(srcs, base) ==
    LET Later(s) == base \cup Produced([t \in Source |-> IF t > s THEN srcs[t] ELSE None])
        Wins(c, s) == \A d \in Later(s) : Group[d] = Group[c] => d = c
    IN  base \cup UNION {{c \in srcs[s] : Wins(c, s)} : s \in {t \in Source : srcs[t] # None}}

\* A manager as a value: what updateElement reads and writes.
Manager(e) == [name |-> className[e], srcs |-> sources[e], base |-> baseClasses[e],
               init |-> hasInitialized[e]]

\* updateElement: the first time, what is on the element and of no source is base.
updateElement(m) ==
    LET first == ~m.init /\ \E s \in Source : m.srcs[s] # None
        base == IF first
                THEN m.base \cup (m.name \ Produced(m.srcs))
                ELSE m.base
    IN  [m EXCEPT !.name = Applied(m.srcs, base), !.base = base, !.init = m.init \/ first]

Store(e, m) ==
    /\ className' = [className EXCEPT ![e] = m.name]
    /\ sources' = [sources EXCEPT ![e] = m.srcs]
    /\ baseClasses' = [baseClasses EXCEPT ![e] = m.base]
    /\ hasInitialized' = [hasInitialized EXCEPT ![e] = m.init]

\* Mutant: className is assigned even when it is the same.
WritesAlways(e, name) == TRUE

\* The attribute is only written, and a record made, when the classes differ.
Writes(e, name) == name # className[e]

Recorded(e) == records' = IF Writes(e, className'[e]) THEN records \cup {e} ELSE records

-----------------------------------------------------------------------------
(* classes() *)

\* The directives of a new element are constructed: one manager for all of them, and
\* the document is observed. Transitions are suppressed.
Create(e, host) ==
    /\ className[e] = None
    /\ className' = [className EXCEPT ![e] = host]
    /\ sources' = [sources EXCEPT ![e] = [s \in Source |-> None]]
    /\ baseClasses' = [baseClasses EXCEPT ![e] = host]
    /\ hasInitialized' = [hasInitialized EXCEPT ![e] = FALSE]
    /\ transition' = [transition EXCEPT ![e] = "none"]
    /\ transitionsSuppressed' = [transitionsSuppressed EXCEPT ![e] = TRUE]
    /\ restoreRafId' = [restoreRafId EXCEPT ![e] = FALSE]
    /\ observed' = observed \cup {e}
    /\ outside' = [outside EXCEPT ![e] = host]
    /\ UNCHANGED <<computed, records, unseen, overtaken, changes>>

\* A source's value changes: its effect is scheduled.
SourceChanges(e, s, list) ==
    /\ e \in observed /\ list # computed[e][s] /\ changes < MaxChanges
    /\ computed' = [computed EXCEPT ![e][s] = list]
    /\ changes' = changes + 1
    /\ UNCHANGED <<className, managers, styles, observed, records, byOthers>>

SetSource(e, m, s) == updateElement([m EXCEPT !.srcs[s] = computed[e][s]])

\* The manager of e when the effects of its first n sources have run.
AllSet(e) ==
    LET m[n \in 0..Sources] == IF n = 0 THEN Manager(e) ELSE SetSource(e, m[n - 1], n)
    IN  m

\* The effect takes the base classes for what they were before the unseen changes.
Overtakes(e) ==
    /\ overtaken' = [overtaken EXCEPT ![e] = @ \cup unseen[e]]
    /\ UNCHANGED <<outside, unseen>>

\* The first change detection of the element runs all its effects; the first one asks
\* for a frame to restore transitions in.
FirstEffects(e) ==
    /\ e \in observed /\ sources[e] = [s \in Source |-> None]
    /\ Store(e, AllSet(e)[Sources])
    /\ Recorded(e)
    /\ transitionsSuppressed' = [transitionsSuppressed EXCEPT ![e] = FALSE]
    /\ restoreRafId' = [restoreRafId EXCEPT ![e] = TRUE]
    /\ Overtakes(e)
    /\ UNCHANGED <<computed, transition, observed, changes>>

\* A later run of one effect.
Effect(e, s) ==
    /\ e \in observed /\ sources[e][s] \notin {None, computed[e][s]}
    /\ Store(e, SetSource(e, Manager(e), s))
    /\ Recorded(e)
    /\ Overtakes(e)
    /\ UNCHANGED <<computed, styles, observed, changes>>

\* Mutant: the frame does nothing once the classes changed again.
AnimationFrameSkips(e) ==
    /\ restoreRafId[e]
    /\ restoreRafId' = [restoreRafId EXCEPT ![e] = FALSE]
    /\ transition' = [transition EXCEPT ![e] = IF e \in records THEN @ ELSE "own"]
    /\ UNCHANGED <<className, computed, managers, transitionsSuppressed, observed, records,
                   byOthers, changes>>

\* The requested frame: restoreTransitionSuppression.
AnimationFrame(e) ==
    /\ restoreRafId[e]
    /\ restoreRafId' = [restoreRafId EXCEPT ![e] = FALSE]
    /\ transition' = [transition EXCEPT ![e] = "own"]
    /\ UNCHANGED <<className, computed, managers, transitionsSuppressed, observed, records,
                   byOthers, changes>>

-----------------------------------------------------------------------------
(* Changes from outside and the observer *)

\* Somebody else changes a class of an element in the document.
OutsideChanges(e, c) ==
    /\ e \in observed /\ changes < MaxChanges
    /\ records' = records \cup {e}
    /\ unseen' = [unseen EXCEPT ![e] = @ \cup {c}]
    /\ overtaken' = [overtaken EXCEPT ![e] = @ \ {c}]
    /\ changes' = changes + 1
    /\ UNCHANGED <<computed, managers, styles, observed>>

\* A class comes or goes; the status classes of NgModel do, for one.
OutsideAdds(e, c) ==
    /\ OutsideChanges(e, c) /\ c \notin className[e]
    /\ className' = [className EXCEPT ![e] = @ \cup {c}]
    /\ outside' = [outside EXCEPT ![e] = @ \cup {c}]

OutsideRemoves(e, c) ==
    /\ OutsideChanges(e, c) /\ c \in className[e]
    /\ className' = [className EXCEPT ![e] = @ \ {c}]
    /\ outside' = [outside EXCEPT ![e] = @ \ {c}]

\* Mutant: classes of sources become base classes.
RebasedAll(m) == updateElement([m EXCEPT !.base = m.name])

\* Mutant: the old base classes are not cleared.
RebasedNotCleared(m) ==
    updateElement([m EXCEPT !.base = @ \cup (m.name \ Produced(m.srcs))])

\* What the callback does with an element: what is of no source is base from now on.
Rebased(m) == updateElement([m EXCEPT !.base = m.name \ Produced(m.srcs)])

\* The observer's callback: all records at once; its own writes make new ones.
ObserverCallback ==
    /\ records # {}
    /\ \E after \in {[e \in Element |-> IF e \in records THEN Rebased(Manager(e)) ELSE Manager(e)]} :
         /\ className' = [e \in Element |-> after[e].name]
         /\ baseClasses' = [e \in Element |-> after[e].base]
         /\ hasInitialized' = [e \in Element |-> after[e].init]
         /\ records' = {e \in records : Writes(e, after[e].name)}
    /\ unseen' = [e \in Element |-> {}]
    /\ UNCHANGED <<computed, sources, styles, observed, outside, overtaken, changes>>

-----------------------------------------------------------------------------
(* Destruction *)

\* Mutant: the observer is disconnected with any element.
CleanupManagerDisconnects(e) ==
    /\ observed' = observed \ {e}
    /\ records' = {}

\* cleanupManager: with the last element the observer goes, and its records.
cleanupManager(e) ==
    /\ observed' = observed \ {e}
    /\ records' = IF observed' = {} THEN {} ELSE records \ {e}

\* Mutant: the frame is not cancelled.
DestroyLeavesFrame(e) ==
    /\ e \in observed
    /\ cleanupManager(e)
    /\ className' = [className EXCEPT ![e] = None]
    /\ sources' = [sources EXCEPT ![e] = [s \in Source |-> None]]
    /\ baseClasses' = [baseClasses EXCEPT ![e] = {}]
    /\ hasInitialized' = [hasInitialized EXCEPT ![e] = FALSE]
    /\ transition' = [transition EXCEPT ![e] = IF transitionsSuppressed[e] THEN "own" ELSE @]
    /\ transitionsSuppressed' = [transitionsSuppressed EXCEPT ![e] = FALSE]
    /\ outside' = [outside EXCEPT ![e] = {}]
    /\ unseen' = [unseen EXCEPT ![e] = {}]
    /\ overtaken' = [overtaken EXCEPT ![e] = {}]
    /\ computed' = [computed EXCEPT ![e] = Initially]
    /\ UNCHANGED <<restoreRafId, changes>>

\* The element is removed with its directives: their callbacks run one after the other
\* and leave nothing of the manager; nobody sees what they write on the way.
Destroy(e) ==
    /\ e \in observed
    /\ cleanupManager(e)
    /\ className' = [className EXCEPT ![e] = None]
    /\ sources' = [sources EXCEPT ![e] = [s \in Source |-> None]]
    /\ baseClasses' = [baseClasses EXCEPT ![e] = {}]
    /\ hasInitialized' = [hasInitialized EXCEPT ![e] = FALSE]
    /\ restoreRafId' = [restoreRafId EXCEPT ![e] = FALSE]
    /\ transition' = [transition EXCEPT ![e] = IF transitionsSuppressed[e] THEN "own" ELSE @]
    /\ transitionsSuppressed' = [transitionsSuppressed EXCEPT ![e] = FALSE]
    /\ outside' = [outside EXCEPT ![e] = {}]
    /\ unseen' = [unseen EXCEPT ![e] = {}]
    /\ overtaken' = [overtaken EXCEPT ![e] = {}]
    /\ computed' = [computed EXCEPT ![e] = Initially]
    /\ UNCHANGED changes

-----------------------------------------------------------------------------
CMInit ==
    /\ className = [e \in Element |-> None]
    /\ computed = [e \in Element |-> Initially]
    /\ sources = [e \in Element |-> [s \in Source |-> None]]
    /\ baseClasses = [e \in Element |-> {}]
    /\ hasInitialized = [e \in Element |-> FALSE]
    /\ transition = [e \in Element |-> "own"]
    /\ transitionsSuppressed = [e \in Element |-> FALSE]
    /\ restoreRafId = [e \in Element |-> FALSE]
    /\ observed = {}
    /\ records = {}
    /\ outside = [e \in Element |-> {}]
    /\ unseen = [e \in Element |-> {}]
    /\ overtaken = [e \in Element |-> {}]
    /\ changes = 0

CMNext ==
    \/ ObserverCallback
    \/ \E e \in Element :
          \/ \E host \in HostClasses : Create(e, host)
          \/ \E s \in Source, list \in Palettes : SourceChanges(e, s, list)
          \/ FirstEffects(e) \/ AnimationFrame(e) \/ Destroy(e)
          \/ \E s \in Source : Effect(e, s)
          \/ (\E c \in Others : OutsideAdds(e, c)) \/ (\E c \in Class : OutsideRemoves(e, c))

CMSpec == CMInit /\ [][CMNext]_cmVars

\* The browser delivers records and runs requested frames.
CMFairness ==
    /\ WF_cmVars(ObserverCallback)
    /\ \A e \in Element : WF_cmVars(AnimationFrame(e))
CMFairSpec == CMSpec /\ CMFairness

-----------------------------------------------------------------------------
(* Properties *)

\* Every variable has its type, and of an element that is gone nothing is left: no
\* record and no frame (cleanupManager, cancelAnimationFrame).
CMTypeOK ==
    /\ \A e \in Element :
          /\ className[e] = None \/ className[e] \subseteq Class
          /\ \A s \in Source : computed[e][s] \in Palettes /\ sources[e][s] \in Palettes \cup {None}
          /\ baseClasses[e] \subseteq Class
          /\ hasInitialized[e] \in BOOLEAN
          /\ transition[e] \in {"own", "none"}
          /\ transitionsSuppressed[e] \in BOOLEAN
          /\ restoreRafId[e] \in BOOLEAN
          /\ outside[e] \subseteq Class
          /\ unseen[e] \subseteq Class /\ overtaken[e] \subseteq Class
          /\ e \in observed <=> className[e] # None
          /\ e \notin observed => e \notin records /\ ~restoreRafId[e]
    /\ records \subseteq Element
    /\ changes \in 0..MaxChanges

\* The effects of e have run and the observer has seen every change of its classes.
Quiet(e) == e \in observed /\ hasInitialized[e] /\ e \notin records

\* An element at rest shows exactly what its sources and its base classes make: no
\* change is missed while other elements come and go (cleanupManager, globalObserver).
QuietIsMerged ==
    \A e \in Element : Quiet(e) => className[e] = Applied(sources[e], baseClasses[e])

\* Classes added by this function do not outlive their source: every class is produced
\* by a source now or came from outside (comment of classes(), point 2).  Only an effect
\* that overtakes the record of a removal brings the very class back that was removed.
NoStrayClass ==
    \A e \in Element : Quiet(e) =>
        className[e] \subseteq Produced(sources[e]) \cup outside[e] \cup overtaken[e]

\* Classes no source can produce.
Foreign == {c \in Class : \A list \in Palettes : c \notin list}

\* What others add stays and what they remove stays away, whatever the sources do
\* meanwhile (the observer's callback), except for the classes an effect wrote between
\* their change and its record.
OutsideClassesKept ==
    \A e \in Element : Quiet(e) =>
        \A c \in Foreign \ overtaken[e] : c \in className[e] <=> c \in outside[e]

\* The observer, which sees its own writes, does not answer them for ever.
RecordsSettle == \A e \in Element : e \in records ~> e \notin records

\* Transitions switched off at construction come back once the first classes are
\* written, unless the element goes first.
TransitionsComeBack ==
    \A e \in Element : hasInitialized[e] ~> transition[e] = "own" \/ e \notin observed
=============================================================================
