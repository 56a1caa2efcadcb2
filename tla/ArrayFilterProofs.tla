-------------------------- MODULE ArrayFilterProofs --------------------------
(***************************************************************************)
(* Theorems about Array.prototype.filter: what is in a filtered list, and  *)
(* in what order.                                                          *)
(***************************************************************************)
EXTENDS ArrayFilter, TLAPS, WellFoundedInduction

\* Induction over the natural numbers, as a fact about sets.
LEMMA NatSetInduction ==
    ASSUME NEW T, 0 \in T, \A n \in Nat : n \in T => n + 1 \in T
    PROVE  Nat \subseteq T
<1> DEFINE Less == {p \in Nat \X Nat : p[1] < p[2]}
           Rest == Nat \ T
<1>1. IsWellFoundedOn(Less, Nat)
  BY NatLessThanWellFounded DEF OpToRel
<1>2. SUFFICES ASSUME Rest # {} PROVE FALSE
  OBVIOUS
<1>3. PICK n \in Rest : \A m \in Rest : <<m, n>> \notin Less
  <2> HIDE DEF Less, Rest
  <2>1. Rest \subseteq Nat
    BY DEF Rest
  <2> QED
    BY <1>1, <1>2, <2>1, WFMin, Zenon
<1>4. n - 1 \in Nat
  BY <1>3
<1>5. <<n - 1, n>> \in Less
  BY <1>4
<1> QED
  BY <1>3, <1>4, <1>5

\* What Filtered says of its upTo[i], with f for upTo.
Body(list, kept, f, i) ==
    IF i = 0 THEN << >>
    ELSE IF i \in kept THEN Append(f[i - 1], list[i])
    ELSE f[i - 1]

\* A function that is at every i what Filtered says it is.
LEMMA UpToExists ==
    ASSUME NEW list, NEW kept, NEW n \in Nat
    PROVE  \E f : f = [i \in 0..n |-> Body(list, kept, f, i)]
<1> DEFINE T == {m \in Nat : \E f : f = [i \in 0..m |-> Body(list, kept, f, i)]}
<1>1. 0 \in T
  <2>1. [i \in 0..0 |-> << >>] = [i \in 0..0 |-> Body(list, kept, [j \in 0..0 |-> << >>], i)]
    BY DEF Body
  <2> QED
    BY <2>1
<1>2. ASSUME NEW m \in Nat, m \in T PROVE m + 1 \in T
  <2>1. PICK g : g = [i \in 0..m |-> Body(list, kept, g, i)]
    BY <1>2
  <2> DEFINE h == [i \in 0..(m + 1) |-> IF i = m + 1 THEN Body(list, kept, g, m + 1) ELSE g[i]]
  <2>2. \A i \in 0..(m + 1) : h[i] = Body(list, kept, h, i)
    <3> SUFFICES ASSUME NEW i \in 0..(m + 1) PROVE h[i] = Body(list, kept, h, i)
      OBVIOUS
    <3>1. i # 0 => h[i - 1] = g[i - 1]
      OBVIOUS
    <3>2. Body(list, kept, h, i) = Body(list, kept, g, i)
      <4> HIDE DEF h
      <4> QED
        BY <3>1 DEF Body
    <3>3. CASE i = m + 1
      BY <3>2, <3>3
    <3>4. CASE i # m + 1
      <4>1. i \in 0..m /\ h[i] = g[i]
        BY <3>4
      <4>2. g[i] = Body(list, kept, g, i)
        BY <2>1, <4>1
      <4> QED
        BY <3>2, <4>1, <4>2
    <3> QED
      BY <3>3, <3>4
  <2>3. h = [i \in 0..(m + 1) |-> h[i]]
    OBVIOUS
  <2> HIDE DEF h
  <2>4. h = [i \in 0..(m + 1) |-> Body(list, kept, h, i)]
    BY <2>2, <2>3
  <2> QED
    BY <2>4
<1>3. Nat \subseteq T
  <2> HIDE DEF T
  <2> QED
    BY <1>1, <1>2, NatSetInduction
<1> QED
  BY <1>3

\* t is what list has at the positions in kept, up to n: the k-th element of t is the
\* one at position at[k].
Picks(at, t, list, kept, n) ==
    /\ at \in [1..Len(t) -> 1..n]
    /\ \A k \in 1..Len(t) : at[k] \in kept /\ t[k] = list[at[k]]
    /\ \A j, k \in 1..Len(t) : j < k => at[j] < at[k]
    /\ \A i \in kept \cap 1..n : \E k \in 1..Len(t) : at[k] = i

\* The next element passes, and is appended.
LEMMA PicksAppend ==
    ASSUME NEW S, NEW list \in Seq(S), NEW kept, NEW n \in Nat, n + 1 \in 1..Len(list),
           n + 1 \in kept,
           NEW t \in Seq(S), NEW at, Picks(at, t, list, kept, n)
    PROVE  \E bt : Picks(bt, Append(t, list[n + 1]), list, kept, n + 1)
<1> DEFINE u == Append(t, list[n + 1])
           bt == [k \in 1..Len(u) |-> IF k = Len(u) THEN n + 1 ELSE at[k]]
<1>1. /\ u \in Seq(S) /\ Len(u) = Len(t) + 1 /\ u[Len(u)] = list[n + 1]
      /\ \A k \in 1..Len(t) : u[k] = t[k]
      /\ Len(t) \in Nat
  OBVIOUS
<1> HIDE DEF u
<1> USE DEF Picks
<1>2. bt \in [1..Len(u) -> 1..(n + 1)]
  BY <1>1
<1>3. \A k \in 1..Len(u) : bt[k] \in kept /\ u[k] = list[bt[k]]
  BY <1>1
<1>4. \A j, k \in 1..Len(u) : j < k => bt[j] < bt[k]
  <2> SUFFICES ASSUME NEW j \in 1..Len(u), NEW k \in 1..Len(u), j < k PROVE bt[j] < bt[k]
    OBVIOUS
  <2>1. j \in 1..Len(t) /\ bt[j] = at[j] /\ at[j] \in 1..n
    BY <1>1
  <2>2. k # Len(u) => bt[k] = at[k] /\ at[j] < at[k]
    <3> SUFFICES ASSUME k # Len(u) PROVE bt[k] = at[k] /\ at[j] < at[k]
      OBVIOUS
    <3>1. k \in 1..Len(t)
      BY <1>1
    <3> QED
      BY <2>1, <3>1
  <2> QED
    BY <1>1, <2>1, <2>2
<1>5. \A i \in kept \cap 1..(n + 1) : \E k \in 1..Len(u) : bt[k] = i
  <2> SUFFICES ASSUME NEW i \in kept \cap 1..(n + 1) PROVE \E k \in 1..Len(u) : bt[k] = i
    OBVIOUS
  <2>1. CASE i = n + 1
    <3>1. Len(u) \in 1..Len(u) /\ bt[Len(u)] = n + 1
      BY <1>1
    <3> QED
      BY <2>1, <3>1
  <2>2. CASE i # n + 1
    <3>1. PICK k \in 1..Len(t) : at[k] = i
      BY <2>2
    <3> QED
      BY <1>1, <3>1
  <2> QED
    BY <2>1, <2>2
<1> HIDE DEF bt
<1>6. Picks(bt, u, list, kept, n + 1)
  BY <1>2, <1>3, <1>4, <1>5
<1> QED
  BY <1>6 DEF u

\* The next element does not pass.
LEMMA PicksSkip ==
    ASSUME NEW list, NEW kept, NEW n \in Nat, n + 1 \notin kept, NEW t, Len(t) \in Nat,
           NEW at, Picks(at, t, list, kept, n)
    PROVE  Picks(at, t, list, kept, n + 1)
<1>1. \A i \in kept \cap 1..(n + 1) : i \in kept \cap 1..n
  OBVIOUS
<1>2. at \in [1..Len(t) -> 1..(n + 1)]
  BY DEF Picks
<1> QED
  BY <1>1, <1>2 DEF Picks

\* filter(): the elements that pass, all of them, in the order they had.
THEOREM FilteredPicks ==
    ASSUME NEW S, NEW list \in Seq(S), NEW kept
    PROVE  /\ Filtered(list, kept) \in Seq(S)
           /\ \E at : Picks(at, Filtered(list, kept), list, kept, Len(list))
<1> DEFINE upTo == CHOOSE f : f = [i \in 0..Len(list) |-> Body(list, kept, f, i)]
           T == {n \in Nat : n <= Len(list) =>
                   upTo[n] \in Seq(S) /\ \E at : Picks(at, upTo[n], list, kept, n)}
<1>1. upTo = [i \in 0..Len(list) |-> Body(list, kept, upTo, i)]
  BY UpToExists
<1>2. Filtered(list, kept) = upTo[Len(list)]
  BY DEF Filtered, Body
<1> HIDE DEF upTo
<1>3. 0 \in T
  <2>1. upTo[0] = << >>
    <3>1. upTo[0] = Body(list, kept, upTo, 0)
      BY <1>1
    <3> QED
      BY <3>1 DEF Body
  <2>2. Picks([k \in 1..0 |-> 1], << >>, list, kept, 0)
    BY DEF Picks
  <2>3. upTo[0] \in Seq(S) /\ \E at : Picks(at, upTo[0], list, kept, 0)
    BY <2>1, <2>2
  <2> QED
    BY <2>3
<1>4. ASSUME NEW n \in Nat, n \in T PROVE n + 1 \in T
  <2> SUFFICES ASSUME n + 1 <= Len(list)
               PROVE  upTo[n + 1] \in Seq(S) /\ \E at : Picks(at, upTo[n + 1], list, kept, n + 1)
    OBVIOUS
  <2>1. upTo[n + 1] = IF n + 1 \in kept THEN Append(upTo[n], list[n + 1]) ELSE upTo[n]
    <3>1. upTo[n + 1] = Body(list, kept, upTo, n + 1)
      BY <1>1
    <3>2. n + 1 # 0 /\ (n + 1) - 1 = n
      OBVIOUS
    <3> QED
      BY <3>1, <3>2 DEF Body
  <2>2. PICK at : upTo[n] \in Seq(S) /\ Picks(at, upTo[n], list, kept, n)
    BY <1>4
  <2>3. CASE n + 1 \in kept
    BY <2>1, <2>2, <2>3, PicksAppend
  <2>4. CASE n + 1 \notin kept
    BY <2>1, <2>2, <2>4, PicksSkip
  <2> QED
    BY <2>3, <2>4
<1>5. Nat \subseteq T
  <2> HIDE DEF T
  <2> QED
    BY <1>3, <1>4, NatSetInduction
<1> QED
  BY <1>2, <1>5
=============================================================================
