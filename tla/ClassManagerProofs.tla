------------------------- MODULE ClassManagerProofs -------------------------
(***************************************************************************)
(* Theorems about ClassManager, for any number of elements, directives and *)
(* classes: an element at rest shows what its sources and base classes     *)
(* make, no class outlives its source, and what others did is kept.        *)
(***************************************************************************)
EXTENDS ClassManager, ArrayFilterProofs

\* What the sources compute, and what their effects have set.
Lists == [Source -> Palettes]
Slots == [Source -> Palettes \cup {None}]

\* The types, without what ElementInv adds.
Shape ==
    /\ className \in [Element -> {None} \cup SUBSET Class]
    /\ computed \in [Element -> Lists]
    /\ sources \in [Element -> Slots]
    /\ baseClasses \in [Element -> SUBSET Class]
    /\ hasInitialized \in [Element -> BOOLEAN]
    /\ transition \in [Element -> {"own", "none"}]
    /\ transitionsSuppressed \in [Element -> BOOLEAN]
    /\ restoreRafId \in [Element -> BOOLEAN]
    /\ outside \in [Element -> SUBSET Class]
    /\ unseen \in [Element -> SUBSET Class]
    /\ overtaken \in [Element -> SUBSET Class]
    /\ observed \subseteq Element /\ records \subseteq Element
    /\ changes \in 0..MaxChanges

\* Classes against what others put there: nothing else but what the sources produce, and
\* the classes no source can produce are all of them.  Nothing is said of those in lost.
Accounted(set, produced, out, lost) ==
    /\ set \subseteq produced \cup out \cup lost
    /\ \A c \in Foreign \ lost : c \in set <=> c \in out

\* What holds of one element. Before the observer has seen a change from outside, the base
\* classes are those of before the change; what an effect makes of them then is what
\* overtaken excepts.
ElementInv(e) ==
    /\ e \in observed <=> className[e] # None
    /\ e \notin observed => e \notin records /\ ~restoreRafId[e] /\ overtaken[e] = {}
    /\ e \notin records => unseen[e] = {}
    /\ hasInitialized[e] <=> \E s \in Source : sources[e][s] # None
    /\ Quiet(e) => className[e] = Applied(sources[e], baseClasses[e])
    /\ e \in observed =>
          /\ Accounted(className[e], Produced(sources[e]), outside[e], overtaken[e])
          /\ Accounted(baseClasses[e], {}, outside[e], overtaken[e] \cup unseen[e])

\* The inductive invariant.
CMInv == Shape /\ \A e \in Element : ElementInv(e)

-----------------------------------------------------------------------------
(* updateElement *)

\* A manager as updateElement reads and writes it.
Managers == [name : SUBSET Class, srcs : Slots,
             base : SUBSET Class, init : BOOLEAN]

\* An effect has run.
Started(srcs) == \E s \in Source : srcs[s] # None

\* Sources produce classes, and no foreign ones.
LEMMA ProducedIn ==
    ASSUME NEW srcs \in Slots
    PROVE  /\ Produced(srcs) \subseteq Class /\ Produced(srcs) \cap Foreign = {}
           /\ ~Started(srcs) => Produced(srcs) = {}
BY ClassManagerAssumption DEF Produced, Foreign, Started, Slots

\* Base classes win, and nothing is applied but them and the sources'.
LEMMA AppliedIn ==
    ASSUME NEW srcs, NEW base
    PROVE  /\ base \subseteq Applied(srcs, base)
           /\ Applied(srcs, base) \subseteq base \cup Produced(srcs)
BY DEF Applied, Produced

\* What updateElement makes of a manager.
LEMMA UpdateIs ==
    ASSUME NEW m \in Managers
    PROVE  LET u == updateElement(m)
           IN  /\ u \in Managers /\ u.srcs = m.srcs
               /\ u.name = Applied(u.srcs, u.base)
               /\ u.init <=> m.init \/ Started(m.srcs)
               /\ u.base = IF ~m.init /\ Started(m.srcs)
                           THEN m.base \cup (m.name \ Produced(m.srcs)) ELSE m.base
<1> DEFINE first == ~m.init /\ Started(m.srcs)
           base == IF first THEN m.base \cup (m.name \ Produced(m.srcs)) ELSE m.base
           u == [m EXCEPT !.name = Applied(m.srcs, base), !.base = base, !.init = m.init \/ first]
<1>1. updateElement(m) = u
  BY DEF updateElement, Started
<1>2. base \subseteq Class
  BY DEF Managers
<1>3. Applied(m.srcs, base) \subseteq Class
  <2>1. m.srcs \in Slots
    BY DEF Managers
  <2> HIDE DEF base
  <2> QED
    BY <1>2, <2>1, AppliedIn, ProducedIn
<1>4. first \in BOOLEAN
  OBVIOUS
<1>5. /\ u.srcs = m.srcs /\ u.name = Applied(m.srcs, base) /\ u.base = base
      /\ u.init = (m.init \/ first)
  <2> HIDE DEF base, first
  <2> QED
    BY DEF Managers
<1>6. u \in Managers
  <2> HIDE DEF base, first
  <2> QED
    BY <1>2, <1>3, <1>4 DEF Managers
<1> QED
  BY <1>1, <1>5, <1>6

\* More may be lost.
LEMMA AccountedMonotone ==
    ASSUME NEW set, NEW produced, NEW out, NEW lost, NEW more,
           Accounted(set, produced, out, lost), lost \subseteq more
    PROVE  Accounted(set, produced, out, more)
BY DEF Accounted

\* A manager that accounts for all its classes.
Settled(m, out, lost) ==
    /\ m.init <=> Started(m.srcs)
    /\ Accounted(m.name, Produced(m.srcs), out, lost) /\ Accounted(m.base, {}, out, lost)

\* updateElement in general: the classes are accounted for if the base classes are.
LEMMA UpdateSettles ==
    ASSUME NEW m \in Managers, NEW out, NEW lost, Accounted(m.base, {}, out, lost),
           m.init \/ Accounted(m.name, {}, out, lost)
    PROVE  LET u == updateElement(m)
           IN  Accounted(u.name, Produced(u.srcs), out, lost) /\ Accounted(u.base, {}, out, lost)
<1> DEFINE u == updateElement(m)
<1>1. /\ u \in Managers /\ u.name = Applied(u.srcs, u.base) /\ u.srcs = m.srcs
      /\ u.base = IF ~m.init /\ Started(m.srcs)
                  THEN m.base \cup (m.name \ Produced(m.srcs)) ELSE m.base
  BY UpdateIs
<1> HIDE DEF u
<1>2. u.srcs \in Slots
  BY <1>1 DEF Managers
<1>3. Accounted(u.base, {}, out, lost)
  BY <1>1 DEF Accounted
<1>4. Accounted(u.name, Produced(u.srcs), out, lost)
  BY <1>1, <1>2, <1>3, AppliedIn, ProducedIn DEF Accounted
<1> QED
  BY <1>3, <1>4 DEF u

\* An effect sets its source.
LEMMA SetSourceIs ==
    ASSUME NEW m \in Managers, NEW e \in Element, NEW s \in Source,
           computed[e][s] \in Palettes, m.init <=> Started(m.srcs),
           NEW u, u = SetSource(e, m, s)
    PROVE  /\ u \in Managers
           /\ u.init /\ Started(u.srcs) /\ u.name = Applied(u.srcs, u.base)
           /\ \A out, lost : Settled(m, out, lost) => Settled(u, out, lost)
<1> DEFINE k == [m EXCEPT !.srcs[s] = computed[e][s]]
<1>0. u = updateElement(k)
  BY DEF SetSource
<1>1. /\ k \in Managers /\ k.srcs = [m.srcs EXCEPT ![s] = computed[e][s]]
      /\ k.name = m.name /\ k.base = m.base /\ k.init = m.init
  BY DEF Managers, Slots
<1>2. k.srcs[s] # None
  BY <1>1, ClassManagerAssumption DEF Managers, Slots
<1> HIDE DEF k
<1>3. Started(k.srcs)
  BY <1>2 DEF Started
<1>4. /\ u \in Managers /\ u.srcs = k.srcs /\ u.name = Applied(u.srcs, u.base)
      /\ u.init <=> k.init \/ Started(k.srcs)
  BY <1>0, <1>1, UpdateIs
<1>5. ASSUME NEW out, NEW lost, Settled(m, out, lost) PROVE Settled(u, out, lost)
  <2>1. m.srcs \in Slots
    BY DEF Managers
  <2>2. k.init \/ Accounted(k.name, {}, out, lost)
    BY <1>1, <1>5, <2>1, ProducedIn DEF Settled, Accounted
  <2>3. Accounted(u.name, Produced(u.srcs), out, lost) /\ Accounted(u.base, {}, out, lost)
    BY <1>0, <1>1, <1>5, <2>2, UpdateSettles DEF Settled
  <2> QED
    BY <1>3, <1>4, <2>3 DEF Settled
<1> QED
  BY <1>3, <1>4, <1>5

\* The observer's callback: the base classes are what is of no source.
LEMMA RebasedIs ==
    ASSUME NEW m \in Managers, m.init <=> Started(m.srcs)
    PROVE  LET u == Rebased(m)
           IN  /\ u \in Managers /\ u.srcs = m.srcs /\ u.init = m.init
               /\ u.name = Applied(u.srcs, u.base)
               /\ \A out, lost : Accounted(m.name, Produced(m.srcs), out, lost) => Settled(u, out, lost)
<1> DEFINE k == [m EXCEPT !.base = m.name \ Produced(m.srcs)]
           u == updateElement(k)
<1>1. /\ k \in Managers /\ k.srcs = m.srcs /\ k.name = m.name /\ k.init = m.init
      /\ k.base = m.name \ Produced(m.srcs)
  BY DEF Managers
<1> HIDE DEF k
<1>2. /\ u \in Managers /\ u.srcs = k.srcs /\ u.name = Applied(u.srcs, u.base)
      /\ u.init <=> k.init \/ Started(k.srcs)
  BY <1>1, UpdateIs
<1>3. u.init = m.init
  BY <1>1, <1>2 DEF Managers
<1>4. ASSUME NEW out, NEW lost, Accounted(m.name, Produced(m.srcs), out, lost) PROVE Settled(u, out, lost)
  <2>1. m.srcs \in Slots
    BY DEF Managers
  <2>2. Accounted(k.base, {}, out, lost) /\ (k.init \/ Accounted(k.name, {}, out, lost))
    BY <1>1, <1>4, <2>1, ProducedIn DEF Accounted
  <2>3. Accounted(u.name, Produced(u.srcs), out, lost) /\ Accounted(u.base, {}, out, lost)
    BY <1>1, <2>2, UpdateSettles
  <2> HIDE DEF u
  <2> QED
    BY <1>1, <1>2, <1>3, <2>3 DEF Settled
<1>5. Rebased(m) = u
  BY DEF Rebased, k
<1> HIDE DEF u
<1> QED
  BY <1>1, <1>2, <1>3, <1>4, <1>5

-----------------------------------------------------------------------------
(* The first effects *)

\* The step of AllSet's recursive definition, with f for m.
Turn(e, f, n) == IF n = 0 THEN Manager(e) ELSE SetSource(e, f[n - 1], n)

\* A function that is at every n what AllSet says it is.
LEMMA TurnsExist ==
    ASSUME NEW e, NEW n \in Nat
    PROVE  \E f : f = [i \in 0..n |-> Turn(e, f, i)]
<1> DEFINE T == {m \in Nat : \E f : f = [i \in 0..m |-> Turn(e, f, i)]}
<1>1. 0 \in T
  <2>1. [i \in 0..0 |-> Manager(e)] = [i \in 0..0 |-> Turn(e, [j \in 0..0 |-> Manager(e)], i)]
    BY DEF Turn
  <2> QED
    BY <2>1
<1>2. ASSUME NEW m \in Nat, m \in T PROVE m + 1 \in T
  <2>1. PICK g : g = [i \in 0..m |-> Turn(e, g, i)]
    BY <1>2
  <2> DEFINE h == [i \in 0..(m + 1) |-> IF i = m + 1 THEN Turn(e, g, m + 1) ELSE g[i]]
  <2>2. \A i \in 0..(m + 1) : h[i] = Turn(e, h, i)
    <3> SUFFICES ASSUME NEW i \in 0..(m + 1) PROVE h[i] = Turn(e, h, i)
      OBVIOUS
    <3>1. i # 0 => h[i - 1] = g[i - 1]
      OBVIOUS
    <3>2. Turn(e, h, i) = Turn(e, g, i)
      <4> HIDE DEF h
      <4> QED
        BY <3>1 DEF Turn
    <3>3. CASE i = m + 1
      BY <3>2, <3>3
    <3>4. CASE i # m + 1
      <4>1. i \in 0..m /\ h[i] = g[i]
        BY <3>4
      <4>2. g[i] = Turn(e, g, i)
        BY <2>1, <4>1
      <4> QED
        BY <3>2, <4>1, <4>2
    <3> QED
      BY <3>3, <3>4
  <2>3. h = [i \in 0..(m + 1) |-> h[i]]
    OBVIOUS
  <2> HIDE DEF h
  <2>4. h = [i \in 0..(m + 1) |-> Turn(e, h, i)]
    BY <2>2, <2>3
  <2> QED
    BY <2>4
<1>3. Nat \subseteq T
  <2> HIDE DEF T
  <2> QED
    BY <1>1, <1>2, NatSetInduction
<1> QED
  BY <1>3

\* All effects of an element have run: whatever they find is accounted for, and they
\* leave the merged classes.
LEMMA AllSetIs ==
    ASSUME NEW e \in Element, Manager(e) \in Managers,
           computed[e] \in Lists,
           hasInitialized[e] <=> Started(sources[e])
    PROVE  LET u == AllSet(e)[Sources]
           IN  /\ u \in Managers /\ u.init /\ Started(u.srcs)
               /\ u.name = Applied(u.srcs, u.base)
               /\ \A out, lost : Settled(Manager(e), out, lost) => Settled(u, out, lost)
<1> DEFINE f == CHOOSE f : f = [n \in 0..Sources |-> Turn(e, f, n)]
           Good(n, u) == /\ u \in Managers /\ (u.init <=> Started(u.srcs))
                         /\ n # 0 => u.init /\ u.name = Applied(u.srcs, u.base)
                         /\ \A out, lost : Settled(Manager(e), out, lost) => Settled(u, out, lost)
           T == {n \in Nat : n <= Sources => Good(n, f[n])}
<1>0. Sources \in Nat \ {0}
  BY ClassManagerAssumption
<1>1. f = [n \in 0..Sources |-> Turn(e, f, n)]
  BY <1>0, TurnsExist
<1>2. AllSet(e) = f
  BY DEF AllSet, Turn
<1> HIDE DEF f
<1>3. 0 \in T
  <2>1. f[0] = Manager(e)
    <3>1. f[0] = Turn(e, f, 0)
      BY <1>0, <1>1
    <3> QED
      BY <3>1 DEF Turn
  <2>2. Manager(e).init = hasInitialized[e] /\ Manager(e).srcs = sources[e]
    BY DEF Manager
  <2>3. Good(0, f[0])
    BY <2>1, <2>2
  <2> HIDE DEF Good
  <2> QED
    BY <2>3
<1>4. ASSUME NEW n \in Nat, n \in T PROVE n + 1 \in T
  <2> SUFFICES ASSUME n + 1 <= Sources PROVE Good(n + 1, f[n + 1])
    BY <1>4
  <2>1. n + 1 \in Source /\ n + 1 # 0 /\ (n + 1) - 1 = n
    BY <1>0 DEF Source
  <2>2. f[n + 1] = SetSource(e, f[n], n + 1)
    <3>1. f[n + 1] = Turn(e, f, n + 1)
      BY <1>0, <1>1
    <3> QED
      BY <2>1, <3>1 DEF Turn
  <2>3. Good(n, f[n])
    BY <1>0, <1>4
  <2>4. computed[e][n + 1] \in Palettes
    BY <2>1 DEF Lists
  <2>5. /\ f[n + 1] \in Managers /\ f[n + 1].init /\ Started(f[n + 1].srcs)
        /\ f[n + 1].name = Applied(f[n + 1].srcs, f[n + 1].base)
        /\ \A out, lost : Settled(f[n], out, lost) => Settled(f[n + 1], out, lost)
    BY <2>1, <2>2, <2>3, <2>4, SetSourceIs
  <2> QED
    BY <2>1, <2>3, <2>5
<1>5. Nat \subseteq T
  <2> HIDE DEF T
  <2> QED
    BY <1>3, <1>4, NatSetInduction
<1>6. Good(Sources, f[Sources])
  <2> HIDE DEF Good
  <2> QED
    BY <1>0, <1>5
<1> QED
  BY <1>0, <1>2, <1>6

-----------------------------------------------------------------------------
(* The steps *)

\* An element none of whose state changes.
LEMMA OtherElement ==
    ASSUME NEW d \in Element, ElementInv(d),
           className'[d] = className[d], sources'[d] = sources[d],
           baseClasses'[d] = baseClasses[d], hasInitialized'[d] = hasInitialized[d],
           restoreRafId'[d] = restoreRafId[d], outside'[d] = outside[d],
           unseen'[d] = unseen[d], overtaken'[d] = overtaken[d],
           d \in observed' <=> d \in observed, d \in records' <=> d \in records
    PROVE  ElementInv(d)'
BY DEF ElementInv, Quiet

\* A new element: its classes are base classes, and from outside.
LEMMA CreateStep ==
    ASSUME CMInv, NEW e \in Element, NEW host \in HostClasses, Create(e, host)
    PROVE  CMInv'
<1>1. host \subseteq Class /\ host # None /\ [s \in Source |-> None] \in Slots
  BY ClassManagerAssumption DEF Slots
<1>2. Shape'
  BY <1>1 DEF CMInv, Shape, Create
<1>3. ElementInv(e)'
  BY <1>1 DEF CMInv, Shape, Create, ElementInv, Quiet, Accounted
<1>4. ASSUME NEW d \in Element, d # e PROVE ElementInv(d)'
  BY <1>4, OtherElement DEF CMInv, Shape, Create
<1> QED
  BY <1>2, <1>3, <1>4 DEF CMInv

\* An element goes; the records of the others are only dropped when there are no others.
LEMMA DestroyStep ==
    ASSUME CMInv, NEW e \in Element, Destroy(e)
    PROVE  CMInv'
<1>1. Shape'
  <2>1. Initially \in Lists /\ [s \in Source |-> None] \in Slots
    BY ClassManagerAssumption DEF Lists, Slots
  <2>2. records' \subseteq Element /\ observed' \subseteq Element
    BY DEF CMInv, Shape, Destroy, cleanupManager
  <2> QED
    BY <2>1, <2>2 DEF CMInv, Shape, Destroy
<1>2. ElementInv(e)'
  BY DEF CMInv, Shape, Destroy, cleanupManager, ElementInv, Quiet
<1>3. ASSUME NEW d \in Element, d # e PROVE ElementInv(d)'
  <2>1. d \in observed' <=> d \in observed
    BY <1>3 DEF Destroy, cleanupManager
  <2>2. d \in records' <=> d \in records
    BY <1>3, <2>1 DEF CMInv, ElementInv, Destroy, cleanupManager
  <2> QED
    BY <1>3, <2>1, <2>2, OtherElement DEF CMInv, Shape, Destroy
<1> QED
  BY <1>1, <1>2, <1>3 DEF CMInv

\* An element in the document has a class attribute.
LEMMA InDocument ==
    ASSUME CMInv, NEW e \in observed
    PROVE  e \in Element /\ className[e] \subseteq Class
<1>1. e \in Element
  BY DEF CMInv, Shape
<1>2. className[e] # None
  BY <1>1 DEF CMInv, ElementInv
<1>3. className[e] \in {None} \cup SUBSET Class
  BY <1>1 DEF CMInv, Shape
<1> QED
  BY <1>1, <1>2, <1>3

\* Somebody else changes the classes: they are accounted for, and the record tells of it.
LEMMA OutsideStep ==
    ASSUME CMInv, NEW e \in Element, NEW c \in Class, OutsideAdds(e, c) \/ OutsideRemoves(e, c)
    PROVE  CMInv'
<1>1. className[e] \subseteq Class
  BY InDocument DEF OutsideAdds, OutsideRemoves, OutsideChanges
<1>2. /\ OutsideChanges(e, c)
      /\ unseen'[e] = unseen[e] \cup {c} /\ overtaken'[e] = overtaken[e] \ {c}
  BY DEF OutsideAdds, OutsideRemoves, OutsideChanges, CMInv, Shape
<1>3. PICK set, out :
        /\ className' = [className EXCEPT ![e] = set] /\ outside' = [outside EXCEPT ![e] = out]
        /\ set \subseteq Class /\ out \subseteq Class
        /\ \A produced, lost :
              Accounted(className[e], produced, outside[e], lost) =>
                  Accounted(set, produced, out, lost \ {c})
        /\ \A base, lost : Accounted(base, {}, outside[e], lost) =>
                            Accounted(base, {}, out, lost \cup {c})
  <2>1. CASE OutsideAdds(e, c)
    <3>1. \A produced, lost :
              Accounted(className[e], produced, outside[e], lost) =>
                  Accounted(className[e] \cup {c}, produced, outside[e] \cup {c}, lost \ {c})
      BY DEF Accounted
    <3>2. \A base, lost : Accounted(base, {}, outside[e], lost) =>
                          Accounted(base, {}, outside[e] \cup {c}, lost \cup {c})
      BY DEF Accounted
    <3>3. /\ className' = [className EXCEPT ![e] = className[e] \cup {c}]
          /\ outside' = [outside EXCEPT ![e] = outside[e] \cup {c}]
          /\ className[e] \cup {c} \subseteq Class /\ outside[e] \cup {c} \subseteq Class
      BY <1>1, <2>1 DEF OutsideAdds, CMInv, Shape
    <3> QED
      BY <3>1, <3>2, <3>3
  <2>2. CASE OutsideRemoves(e, c)
    <3>1. \A produced, lost :
              Accounted(className[e], produced, outside[e], lost) =>
                  Accounted(className[e] \ {c}, produced, outside[e] \ {c}, lost \ {c})
      BY DEF Accounted
    <3>2. \A base, lost : Accounted(base, {}, outside[e], lost) =>
                          Accounted(base, {}, outside[e] \ {c}, lost \cup {c})
      BY DEF Accounted
    <3>3. /\ className' = [className EXCEPT ![e] = className[e] \ {c}]
          /\ outside' = [outside EXCEPT ![e] = outside[e] \ {c}]
          /\ className[e] \ {c} \subseteq Class /\ outside[e] \ {c} \subseteq Class
      BY <1>1, <2>2 DEF OutsideRemoves, CMInv, Shape
    <3> QED
      BY <3>1, <3>2, <3>3
  <2> QED
    BY <2>1, <2>2
<1>4. /\ e \in observed /\ e \in records'
      /\ \A d \in Element : d # e => (d \in records' <=> d \in records)
      /\ UNCHANGED <<computed, managers, styles, observed>>
  BY <1>2 DEF OutsideChanges
<1>5. Shape'
  BY <1>2, <1>3, ClassManagerAssumption DEF OutsideChanges, CMInv, Shape, managers, styles
<1>6. ElementInv(e)'
  <2>1. className'[e] = set /\ outside'[e] = out /\ set # None
    BY <1>3, ClassManagerAssumption DEF CMInv, Shape
  <2>0. /\ Accounted(className[e], Produced(sources[e]), outside[e], overtaken[e])
        /\ Accounted(baseClasses[e], {}, outside[e], overtaken[e] \cup unseen[e])
    BY <1>4 DEF CMInv, ElementInv
  <2>2. Accounted(set, Produced(sources[e]), out, overtaken'[e])
    BY <1>2, <1>3, <2>0
  <2>3. Accounted(baseClasses[e], {}, out, (overtaken[e] \cup unseen[e]) \cup {c})
    BY <1>3, <2>0
  <2>4. overtaken'[e] \cup unseen'[e] = (overtaken[e] \cup unseen[e]) \cup {c}
    BY <1>2
  <2> QED
    BY <1>4, <2>1, <2>2, <2>3, <2>4 DEF CMInv, ElementInv, Quiet, managers, styles
<1>7. ASSUME NEW d \in Element, d # e PROVE ElementInv(d)'
  BY <1>2, <1>3, <1>4, <1>7, OtherElement DEF OutsideChanges, CMInv, Shape, managers, styles
<1> QED
  BY <1>5, <1>6, <1>7 DEF CMInv

\* What an effect, or the first ones, store.
LEMMA StoreStep ==
    ASSUME CMInv, NEW e \in Element, e \in observed, NEW u \in Managers, Store(e, u), Recorded(e),
           u.init, Started(u.srcs), u.name = Applied(u.srcs, u.base),
           \A out, lost : Settled(Manager(e), out, lost) => Settled(u, out, lost),
           Overtakes(e),
           restoreRafId' \in [Element -> BOOLEAN],
           \A d \in Element : d # e => restoreRafId'[d] = restoreRafId[d],
           transitionsSuppressed' \in [Element -> BOOLEAN],
           UNCHANGED <<computed, transition, observed, changes>>
    PROVE  CMInv'
<1>1. /\ u.name \subseteq Class /\ u.srcs \in Slots
      /\ u.base \subseteq Class /\ u.init \in BOOLEAN
  BY DEF Managers
<1>2. /\ className'[e] = u.name /\ sources'[e] = u.srcs /\ baseClasses'[e] = u.base
      /\ hasInitialized'[e] = u.init
  BY DEF Store, CMInv, Shape
<1>3. records' \subseteq records \cup {e} /\ records \subseteq records'
  BY DEF Recorded
<1>4. Shape'
  BY <1>1, <1>3 DEF CMInv, Shape, Store, Overtakes
<1>5. ElementInv(e)'
  <2>1. u.name # None
    BY <1>1, ClassManagerAssumption
  <2>2. /\ overtaken'[e] = overtaken[e] \cup unseen[e] /\ UNCHANGED <<outside, unseen>>
        /\ overtaken'[e] \cup unseen'[e] = overtaken'[e]
    BY DEF Overtakes, CMInv, Shape
  <2>3. /\ Accounted(className[e], Produced(sources[e]), outside[e], overtaken[e] \cup unseen[e])
        /\ Accounted(baseClasses[e], {}, outside[e], overtaken[e] \cup unseen[e])
        /\ hasInitialized[e] <=> Started(sources[e])
    <3>1. /\ Accounted(className[e], Produced(sources[e]), outside[e], overtaken[e])
          /\ Accounted(baseClasses[e], {}, outside[e], overtaken[e] \cup unseen[e])
          /\ hasInitialized[e] <=> Started(sources[e])
      BY DEF CMInv, ElementInv, Started
    <3>2. Accounted(className[e], Produced(sources[e]), outside[e], overtaken[e] \cup unseen[e])
      BY <3>1, AccountedMonotone
    <3> QED
      BY <3>1, <3>2
  <2>4. Settled(Manager(e), outside[e], overtaken'[e])
    BY <2>2, <2>3 DEF Settled, Manager
  <2>5. /\ Accounted(u.name, Produced(u.srcs), outside'[e], overtaken'[e])
        /\ Accounted(u.base, {}, outside'[e], overtaken'[e] \cup unseen'[e])
    BY <2>2, <2>4 DEF Settled
  <2>6. e \notin records' => unseen'[e] = {}
    BY <1>3, <2>2 DEF CMInv, ElementInv
  <2> QED
    BY <1>2, <2>1, <2>5, <2>6 DEF ElementInv, Quiet, Started
<1>6. ASSUME NEW d \in Element, d # e PROVE ElementInv(d)'
  <2>1. d \in records' <=> d \in records
    BY <1>3, <1>6
  <2> QED
    BY <1>6, <2>1, OtherElement DEF CMInv, Shape, Store, Overtakes
<1> QED
  BY <1>4, <1>5, <1>6 DEF CMInv

\* The manager of an element in the document.
LEMMA ManagerIs ==
    ASSUME CMInv, NEW e \in observed
    PROVE  /\ e \in Element /\ Manager(e) \in Managers
           /\ Manager(e).init <=> Started(Manager(e).srcs)
           /\ hasInitialized[e] <=> Started(sources[e])
           /\ computed[e] \in Lists
<1>1. e \in Element /\ className[e] \subseteq Class
  BY InDocument
<1>2. hasInitialized[e] <=> Started(sources[e])
  BY <1>1 DEF CMInv, ElementInv, Started
<1> QED
  BY <1>1, <1>2 DEF CMInv, Shape, Manager, Managers

\* The first effects of an element, and later ones.
LEMMA EffectsStep ==
    ASSUME CMInv, NEW e \in Element,
           FirstEffects(e) \/ \E s \in Source : Effect(e, s)
    PROVE  CMInv'
<1>1. CASE FirstEffects(e)
  <2> DEFINE u == AllSet(e)[Sources]
  <2>1. e \in observed
    BY <1>1 DEF FirstEffects
  <2>2. /\ u \in Managers /\ u.init /\ Started(u.srcs) /\ u.name = Applied(u.srcs, u.base)
        /\ \A out, lost : Settled(Manager(e), out, lost) => Settled(u, out, lost)
    BY <2>1, ManagerIs, AllSetIs
  <2>3. Store(e, u) /\ Recorded(e)
    BY <1>1 DEF FirstEffects
  <2> HIDE DEF u
  <2> QED
    <3>1. Overtakes(e)
      BY <1>1 DEF FirstEffects
    <3>2. /\ restoreRafId' \in [Element -> BOOLEAN]
          /\ \A d \in Element : d # e => restoreRafId'[d] = restoreRafId[d]
          /\ transitionsSuppressed' \in [Element -> BOOLEAN]
          /\ UNCHANGED <<computed, transition, observed, changes>>
      BY <1>1 DEF FirstEffects, CMInv, Shape
    <3> QED
      BY <2>1, <2>2, <2>3, <3>1, <3>2, StoreStep
<1>2. ASSUME NEW s \in Source, Effect(e, s) PROVE CMInv'
  <2> DEFINE u == SetSource(e, Manager(e), s)
  <2>1. e \in observed
    BY <1>2 DEF Effect
  <2>2. /\ u \in Managers /\ u.init /\ Started(u.srcs) /\ u.name = Applied(u.srcs, u.base)
        /\ \A out, lost : Settled(Manager(e), out, lost) => Settled(u, out, lost)
    <3>1. computed[e][s] \in Palettes
      BY <2>1, ManagerIs DEF Lists
    <3>2. e \in Element /\ Manager(e) \in Managers
          /\ (Manager(e).init <=> Started(Manager(e).srcs))
      BY <2>1, ManagerIs
    <3> QED
      BY <3>1, <3>2, SetSourceIs
  <2>3. Store(e, u) /\ Recorded(e)
    BY <1>2 DEF Effect
  <2> HIDE DEF u
  <2> QED
    BY <1>2, <2>1, <2>2, <2>3, StoreStep DEF Effect, CMInv, Shape, styles
<1> QED
  BY <1>1, <1>2

\* The observer's callback does right by the elements that have records.
LEMMA ObserverStep ==
    ASSUME CMInv, ObserverCallback
    PROVE  CMInv'
<1> DEFINE after == [e \in Element |-> IF e \in records THEN Rebased(Manager(e)) ELSE Manager(e)]
<1>1. /\ className' = [e \in Element |-> after[e].name]
      /\ baseClasses' = [e \in Element |-> after[e].base]
      /\ hasInitialized' = [e \in Element |-> after[e].init]
      /\ records' = {e \in records : Writes(e, after[e].name)}
      /\ unseen' = [e \in Element |-> {}]
      /\ UNCHANGED <<computed, sources, styles, observed, outside, overtaken, changes>>
  BY DEF ObserverCallback
<1>2. ASSUME NEW e \in records
      PROVE  /\ e \in Element /\ e \in observed
             /\ after[e] \in Managers /\ after[e].srcs = sources[e]
             /\ after[e].init = hasInitialized[e]
             /\ after[e].name = Applied(sources[e], after[e].base)
             /\ \A out, lost :
                   Accounted(className[e], Produced(sources[e]), out, lost) =>
                       Settled(after[e], out, lost)
  <2>1. e \in Element /\ e \in observed
    BY DEF CMInv, Shape, ElementInv
  <2>2. Manager(e) \in Managers /\ (Manager(e).init <=> Started(Manager(e).srcs))
    BY <2>1, ManagerIs
  <2>3. after[e] = Rebased(Manager(e))
    BY <2>1
  <2>4. /\ Manager(e).srcs = sources[e] /\ Manager(e).init = hasInitialized[e]
        /\ Manager(e).name = className[e]
    BY DEF Manager
  <2> QED
    BY <2>1, <2>2, <2>3, <2>4, RebasedIs
<1>3. ASSUME NEW e \in Element, e \notin records
      PROVE  /\ after[e].name = className[e] /\ after[e].base = baseClasses[e]
             /\ after[e].init = hasInitialized[e]
  BY <1>3 DEF Manager
<1> HIDE DEF after
<1>4. Shape'
  <2>1. ASSUME NEW e \in Element
        PROVE  /\ after[e].name \in {None} \cup SUBSET Class
               /\ after[e].base \in SUBSET Class /\ after[e].init \in BOOLEAN
    <3>1. CASE e \in records
      BY <1>2, <3>1 DEF Managers
    <3>2. CASE e \notin records
      BY <1>3, <3>2 DEF CMInv, Shape
    <3> QED
      BY <3>1, <3>2
  <2> QED
    BY <1>1, <2>1 DEF CMInv, Shape, styles
<1>5. ASSUME NEW e \in Element PROVE ElementInv(e)'
  <2>1. CASE e \in records
    <3>1. className'[e] # None
      BY <1>1, <1>2, <2>1, ClassManagerAssumption DEF Managers
    <3>2. className'[e] = Applied(sources'[e], baseClasses'[e])
      BY <1>1, <1>2, <2>1
    <3>3. /\ Accounted(className'[e], Produced(sources'[e]), outside'[e], overtaken'[e])
          /\ Accounted(baseClasses'[e], {}, outside'[e], overtaken'[e] \cup unseen'[e])
      <4>1. Settled(after[e], outside[e], overtaken[e])
        BY <1>2, <2>1 DEF CMInv, ElementInv
      <4>2. overtaken[e] \cup unseen'[e] = overtaken[e]
        BY <1>1
      <4> QED
        BY <1>1, <1>2, <2>1, <4>1, <4>2 DEF Settled
    <3> QED
      BY <1>1, <1>2, <2>1, <3>1, <3>2, <3>3 DEF CMInv, ElementInv, Quiet, styles
  <2>2. CASE e \notin records
    <3>1. ElementInv(e)
      BY DEF CMInv
    <3>2. /\ className'[e] = className[e] /\ baseClasses'[e] = baseClasses[e]
          /\ hasInitialized'[e] = hasInitialized[e] /\ sources'[e] = sources[e]
      BY <1>1, <1>3, <2>2
    <3>3. unseen'[e] = unseen[e]
      BY <1>1, <2>2, <3>1 DEF ElementInv
    <3>4. /\ e \notin records' /\ observed' = observed /\ restoreRafId'[e] = restoreRafId[e]
          /\ outside'[e] = outside[e] /\ overtaken'[e] = overtaken[e]
      BY <1>1, <2>2 DEF styles
    <3> QED
      BY <2>2, <3>1, <3>2, <3>3, <3>4, OtherElement
  <2> QED
    BY <2>1, <2>2
<1> QED
  BY <1>4, <1>5 DEF CMInv

\* A source that changes its value, and a frame, change no classes.
LEMMA NoClassesStep ==
    ASSUME CMInv, NEW e \in Element,
           AnimationFrame(e) \/ \E s \in Source, list \in Palettes : SourceChanges(e, s, list)
    PROVE  CMInv'
<1>1. CASE AnimationFrame(e)
  <2>1. Shape'
    BY <1>1 DEF CMInv, Shape, AnimationFrame, managers, byOthers
  <2>2. ASSUME NEW d \in Element PROVE ElementInv(d)'
    <3>1. restoreRafId'[d] => restoreRafId[d]
      BY <1>1 DEF CMInv, Shape, AnimationFrame
    <3>2. UNCHANGED <<className, managers, observed, records, byOthers>>
      BY <1>1 DEF AnimationFrame
    <3>3. ElementInv(d)
      BY DEF CMInv
    <3> QED
      BY <3>1, <3>2, <3>3 DEF ElementInv, Quiet, managers, byOthers
  <2> QED
    BY <2>1, <2>2 DEF CMInv
<1>2. ASSUME NEW s \in Source, NEW list \in Palettes, SourceChanges(e, s, list) PROVE CMInv'
  <2>1. Shape'
    <3>1. [computed[e] EXCEPT ![s] = list] \in Lists
      BY DEF CMInv, Shape, Lists
    <3>2. changes + 1 \in 0..MaxChanges
      BY <1>2, ClassManagerAssumption DEF SourceChanges, CMInv, Shape
    <3> QED
      BY <1>2, <3>1, <3>2 DEF CMInv, Shape, SourceChanges, managers, styles, byOthers
  <2>2. ASSUME NEW d \in Element PROVE ElementInv(d)'
    BY <1>2, OtherElement DEF CMInv, SourceChanges, managers, styles, byOthers
  <2> QED
    BY <2>1, <2>2 DEF CMInv
<1> QED
  BY <1>1, <1>2

\* The invariant is inductive.
LEMMA CMStep ==
    ASSUME CMInv, [CMNext]_cmVars
    PROVE  CMInv'
<1>1. Others \subseteq Class
  BY ClassManagerAssumption
<1>2. CASE UNCHANGED cmVars
  <2>1. Shape'
    BY <1>2 DEF cmVars, managers, styles, byOthers, CMInv, Shape
  <2>2. ASSUME NEW e \in Element PROVE ElementInv(e)'
    BY <1>2, OtherElement DEF cmVars, managers, styles, byOthers, CMInv
  <2> QED
    BY <2>1, <2>2 DEF CMInv
<1> QED
  BY <1>1, <1>2, CreateStep, DestroyStep, OutsideStep, EffectsStep, ObserverStep,
     NoClassesStep
     DEF CMNext

\* CMInv holds throughout.
THEOREM ClassesInvariant == CMSpec => []CMInv
<1>1. CMInit => CMInv
  <2> SUFFICES ASSUME CMInit PROVE CMInv
    OBVIOUS
  <2>1. /\ Initially \in Lists /\ [s \in Source |-> None] \in Slots
        /\ 0 \in 0..MaxChanges
    BY ClassManagerAssumption DEF Lists, Slots
  <2>2. Shape
    BY <2>1 DEF CMInit, Shape
  <2>3. ASSUME NEW e \in Element PROVE ElementInv(e)
    BY DEF CMInit, ElementInv, Quiet
  <2> QED
    BY <2>2, <2>3 DEF CMInv
<1>2. CMInv /\ [CMNext]_cmVars => CMInv'
  BY CMStep
<1> QED
  BY <1>1, <1>2, PTL DEF CMSpec

\* Every variable keeps its type, and of an element that is gone nothing is left.
THEOREM CMTypeCorrect == CMSpec => []CMTypeOK
<1>1. CMInv => CMTypeOK
  <2> SUFFICES ASSUME CMInv PROVE CMTypeOK
    OBVIOUS
  <2>1. ASSUME NEW e \in Element
        PROVE  /\ className[e] = None \/ className[e] \subseteq Class
               /\ \A s \in Source : computed[e][s] \in Palettes
               /\ \A s \in Source : sources[e][s] \in Palettes \cup {None}
    <3>1. /\ className[e] \in {None} \cup SUBSET Class
          /\ computed[e] \in Lists /\ sources[e] \in Slots
      BY DEF CMInv, Shape
    <3> QED
      BY <3>1 DEF Lists, Slots
  <2>2. ASSUME NEW e \in Element
        PROVE  /\ e \in observed <=> className[e] # None
               /\ e \notin observed => e \notin records /\ ~restoreRafId[e]
    BY DEF CMInv, ElementInv
  <2> QED
    BY <2>1, <2>2 DEF CMInv, Shape, CMTypeOK
<1> QED
  BY <1>1, ClassesInvariant, PTL

\* The observer misses no change, whichever elements come and go meanwhile: at rest an
\* element shows what its sources and base classes make.
THEOREM RestIsMerged == CMSpec => []QuietIsMerged
<1>1. CMInv => QuietIsMerged
  BY DEF CMInv, ElementInv, QuietIsMerged, Quiet
<1> QED
  BY <1>1, ClassesInvariant, PTL

\* At rest, every class is produced by a source now or came from outside.
THEOREM ClassesHaveSources == CMSpec => []NoStrayClass
<1>1. CMInv => NoStrayClass
  BY DEF CMInv, ElementInv, NoStrayClass, Quiet, Accounted
<1> QED
  BY <1>1, ClassesInvariant, PTL

\* At rest, what others added is there, and what they removed is not.
THEOREM OthersKeepTheirs == CMSpec => []OutsideClassesKept
<1>1. CMInv => OutsideClassesKept
  BY DEF CMInv, ElementInv, OutsideClassesKept, Quiet, Accounted
<1> QED
  BY <1>1, ClassesInvariant, PTL
=============================================================================
