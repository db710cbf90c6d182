-------------------------- MODULE RecursionTheorems --------------------------
(***************************************************************************)
(* Induction in a form the provers can use: over a set of numbers, not     *)
(* over a predicate.  From it, that a function defined by recursion on     *)
(* 0..n exists and is what its recursion says, and what Selected returns.  *)
(***************************************************************************)
EXTENDS Selection, WellFoundedInduction, TLAPS

\* A set of numbers that has something has a least element.
LEMMA LeastElement ==
  ASSUME NEW T \in SUBSET Nat, T # {}
  PROVE  \E x \in T : \A y \in T : x <= y
<1> DEFINE R == OpToRel(<, Nat)
<1>1. IsWellFoundedOn(R, Nat)
  BY NatLessThanWellFounded
<1>2. \A x, y \in Nat : <<x, y>> \in R <=> x < y
  BY DEF OpToRel
<1> HIDE DEF R
<1>3. PICK x \in T : \A y \in T : ~ (<<y, x>> \in R)
  BY <1>1, WFMin
<1>4. ASSUME NEW y \in T PROVE x <= y
  <2>1. x \in Nat /\ y \in Nat /\ ~ (y < x)
    BY <1>2, <1>3
  <2> QED
    BY <2>1
<1> QED
  BY <1>4

\* Induction up to a bound.
LEMMA SetInduction ==
  ASSUME NEW n \in Nat, NEW S, 0 \in S,
         \A i \in 0 .. (n - 1) : i \in S => i + 1 \in S
  PROVE  0 .. n \subseteq S
<1> SUFFICES ASSUME (0 .. n) \ S # {} PROVE FALSE
  OBVIOUS
<1> DEFINE T == (0 .. n) \ S
<1>1. T \in SUBSET Nat /\ T # {}
  OBVIOUS
<1> HIDE DEF T
<1>2. PICK x \in T : \A y \in T : x <= y
  BY <1>1, LeastElement
<1> USE DEF T
<1>3. x # 0 /\ x - 1 \in 0 .. (n - 1) /\ x - 1 + 1 = x
  BY <1>2
<1>4. x - 1 \in S
  BY <1>2, <1>3
<1> QED
  BY <1>2, <1>3, <1>4

\* n steps from a start, in D.
Iterates(h, n, D, start, step) ==
    /\ h \in [0 .. n -> D]
    /\ h[0] = start
    /\ \A i \in 1 .. n : h[i] = step[<<h[i - 1], i>>]

\* A step that maps D to D can be taken n times from any start.
LEMMA RecursionExists ==
  ASSUME NEW n \in Nat, NEW D, NEW start \in D, NEW step \in [D \X (1 .. n) -> D]
  PROVE  \E h : Iterates(h, n, D, start, step)
<1> DEFINE Taken(m) == {h \in [0 .. m -> D] :
                          h[0] = start /\ \A i \in 1 .. m : h[i] = step[<<h[i - 1], i>>]}
           S == {m \in 0 .. n : Taken(m) # {}}
<1>1. 0 \in S
  <2>1. [i \in 0 .. 0 |-> start] \in Taken(0)
    OBVIOUS
  <2> QED
    BY <2>1
<1>2. ASSUME NEW m \in 0 .. (n - 1), m \in S
      PROVE  m + 1 \in S
  <2>1. PICK h \in Taken(m) : TRUE
    BY <1>2
  <2> DEFINE g == [i \in 0 .. (m + 1) |-> IF i = m + 1 THEN step[<<h[m], m + 1>>] ELSE h[i]]
  <2>2. h[m] \in D /\ <<h[m], m + 1>> \in D \X (1 .. n)
    BY <2>1
  <2>3. g \in [0 .. (m + 1) -> D] /\ g[0] = start
    <3>1. step[<<h[m], m + 1>>] \in D
      BY <2>2
    <3>2. \A i \in 0 .. (m + 1) : i # m + 1 => h[i] \in D
      BY <2>1
    <3> QED
      BY <2>1, <3>1, <3>2
  <2>4. ASSUME NEW i \in 1 .. (m + 1)
        PROVE  g[i] = step[<<g[i - 1], i>>]
    <3>0. i \in 0 .. (m + 1) /\ i - 1 \in 0 .. m /\ i - 1 # m + 1
      OBVIOUS
    <3>1. CASE i = m + 1
      <4>1. g[i] = step[<<h[m], m + 1>>] /\ g[i - 1] = h[m]
        BY <3>0, <3>1
      <4> QED
        BY <4>1, <3>1
    <3>2. CASE i # m + 1
      <4>1. i \in 1 .. m /\ g[i] = h[i] /\ g[i - 1] = h[i - 1]
        BY <3>0, <3>2
      <4> QED
        BY <4>1, <2>1
    <3> QED
      BY <3>1, <3>2
  <2> HIDE DEF g
  <2>5. g \in Taken(m + 1)
    BY <2>3, <2>4
  <2>6. m + 1 \in 0 .. n
    OBVIOUS
  <2> HIDE DEF Taken
  <2> QED
    BY <2>5, <2>6
<1> HIDE DEF S
<1>3. 0 .. n \subseteq S
  BY <1>1, <1>2, SetInduction
<1>4. n \in S
  BY <1>3
<1>5. PICK h \in Taken(n) : TRUE
  BY <1>4 DEF S
<1> QED
  BY <1>5 DEF Iterates
-----------------------------------------------------------------------------
(* Selected                                                                *)

\* Its recursion, unfolded: among[i] is what is selected of the first i elements.
Unfolds(among, T, s, S) ==
    /\ among \in [0 .. Len(s) -> Seq(T)]
    /\ among[0] = <<>>
    /\ \A i \in 1 .. Len(s) :
         among[i] = IF s[i] \in S THEN Append(among[i - 1], s[i]) ELSE among[i - 1]

LEMMA SelectedUnfolds ==
  ASSUME NEW T, NEW s \in Seq(T), NEW S
  PROVE  \E among : Unfolds(among, T, s, S) /\ Selected(s, S) = among[Len(s)]
<1> DEFINE step == [x \in Seq(T) \X (1 .. Len(s)) |->
                      IF s[x[2]] \in S THEN Append(x[1], s[x[2]]) ELSE x[1]]
           body(f) == [i \in 0 .. Len(s) |->
                         IF i = 0 THEN <<>>
                         ELSE IF s[i] \in S THEN Append(f[i - 1], s[i]) ELSE f[i - 1]]
<1>1. step \in [Seq(T) \X (1 .. Len(s)) -> Seq(T)] /\ <<>> \in Seq(T) /\ Len(s) \in Nat
  OBVIOUS
<1>2. PICK h : Iterates(h, Len(s), Seq(T), <<>>, step)
  <2> HIDE DEF step
  <2> QED
    BY <1>1, RecursionExists
<1>3. ASSUME NEW i \in 1 .. Len(s)
      PROVE  h[i] = IF s[i] \in S THEN Append(h[i - 1], s[i]) ELSE h[i - 1]
  <2>1. <<h[i - 1], i>> \in Seq(T) \X (1 .. Len(s))
    BY <1>2 DEF Iterates
  <2> QED
    BY <1>2, <2>1 DEF Iterates
<1>4. h = body(h)
  <2>1. ASSUME NEW i \in 0 .. Len(s) PROVE h[i] = body(h)[i]
    <3>1. CASE i = 0
      BY <1>2, <3>1 DEF Iterates
    <3>2. CASE i # 0
      <4>1. i \in 1 .. Len(s)
        BY <3>2
      <4> QED
        BY <1>3, <3>2, <4>1
    <3> QED
      BY <3>1, <3>2
  <2> QED
    BY <1>2, <2>1 DEF Iterates
<1> DEFINE g == CHOOSE f : f = body(f)
<1>5. g = body(g)
  BY <1>4
<1>6. Selected(s, S) = g[Len(s)]
  BY DEF Selected
<1> HIDE DEF g
<1>7. \A i \in 0 .. Len(s) : g[i] = h[i]
  <2> DEFINE Same == {i \in 0 .. Len(s) : g[i] = h[i]}
  <2>1. 0 \in Same
    BY <1>2, <1>5 DEF Iterates
  <2>2. ASSUME NEW i \in 0 .. (Len(s) - 1), i \in Same
        PROVE  i + 1 \in Same
    <3>1. i + 1 \in 1 .. Len(s) /\ i + 1 - 1 = i
      OBVIOUS
    <3>2. g[i + 1] = body(g)[i + 1]
      BY <1>5
    <3>3. i + 1 \in 0 .. Len(s) /\ i + 1 # 0
      OBVIOUS
    <3>4. body(g)[i + 1] = IF s[i + 1] \in S THEN Append(g[i], s[i + 1]) ELSE g[i]
      BY <3>1, <3>3
    <3> QED
      BY <3>4, <1>3, <2>2, <3>1, <3>2
  <2> HIDE DEF Same
  <2>3. 0 .. Len(s) \subseteq Same
    BY <1>1, <2>1, <2>2, SetInduction
  <2> QED
    BY <2>3 DEF Same
<1>8. Selected(s, S) = h[Len(s)]
  BY <1>1, <1>6, <1>7
<1> QED
  BY <1>2, <1>3, <1>8 DEF Unfolds, Iterates

\* What has been selected of the first n elements, and where it was.
Embeds(sel, at, s, S, n) ==
    /\ at \in [1 .. Len(sel) -> 1 .. n]
    /\ \A k \in 1 .. Len(sel) : sel[k] = s[at[k]] /\ sel[k] \in S
    /\ \A j, k \in 1 .. Len(sel) : j < k => at[j] < at[k]
    /\ \A i \in 1 .. n : s[i] \in S => \E k \in 1 .. Len(sel) : at[k] = i

\* Selected keeps the elements of the set, all of them, in their order.
THEOREM SelectedEmbeds ==
  ASSUME NEW T, NEW s \in Seq(T), NEW S
  PROVE  /\ Selected(s, S) \in Seq(T)
         /\ \E at : Embeds(Selected(s, S), at, s, S, Len(s))
<1>1. PICK among : Unfolds(among, T, s, S) /\ Selected(s, S) = among[Len(s)]
  BY SelectedUnfolds
<1> DEFINE Done == {i \in 0 .. Len(s) : \E at : Embeds(among[i], at, s, S, i)}
<1>2. 0 \in Done
  <2>1. Embeds(<<>>, <<>>, s, S, 0)
    BY DEF Embeds
  <2> QED
    BY <1>1, <2>1 DEF Unfolds
<1>3. ASSUME NEW i \in 0 .. (Len(s) - 1), i \in Done
      PROVE  i + 1 \in Done
  <2> DEFINE old == among[i]
             new == among[i + 1]
  <2>1. PICK at : Embeds(old, at, s, S, i)
    BY <1>3
  <2>2. /\ i + 1 \in 1 .. Len(s) /\ i \in 0 .. Len(s) /\ old \in Seq(T) /\ i \in Nat
        /\ new = IF s[i + 1] \in S THEN Append(old, s[i + 1]) ELSE old
    <3>1. i + 1 \in 1 .. Len(s) /\ i + 1 - 1 = i /\ i \in 0 .. Len(s) /\ i \in Nat
      OBVIOUS
    <3> QED
      BY <1>1, <3>1 DEF Unfolds
  <2>3. s[i + 1] \in T
    BY <2>2
  <2> HIDE DEF old, new
  <2>4. CASE s[i + 1] \notin S
    <3>1. Embeds(new, at, s, S, i + 1)
      BY <2>1, <2>2, <2>4 DEF Embeds
    <3> QED
      BY <2>2, <3>1 DEF new
  <2>5. CASE s[i + 1] \in S
    <3> DEFINE l == Len(old)
               more == [k \in 1 .. (l + 1) |-> IF k = l + 1 THEN i + 1 ELSE at[k]]
    <3>1. /\ l \in Nat /\ Len(new) = l + 1 /\ new[l + 1] = s[i + 1]
          /\ \A k \in 1 .. l : new[k] = old[k]
      BY <2>2, <2>3, <2>5
    <3>2. /\ more[l + 1] = i + 1
          /\ \A k \in 1 .. l : more[k] = at[k] /\ at[k] \in 1 .. i
      BY <2>1, <3>1 DEF Embeds
    <3>3. more \in [1 .. (l + 1) -> 1 .. (i + 1)]
      <4>1. ASSUME NEW k \in 1 .. (l + 1) PROVE more[k] \in 1 .. (i + 1)
        <5>1. k = l + 1 \/ k \in 1 .. l
          BY <3>1
        <5> HIDE DEF more
        <5> QED
          BY <2>2, <3>2, <5>1
      <4> QED
        BY <4>1
    <3> HIDE DEF more, l
    <3>4. \A k \in 1 .. (l + 1) : k = l + 1 \/ k \in 1 .. l
      BY <3>1
    <3>5. \A k \in 1 .. (l + 1) : new[k] = s[more[k]] /\ new[k] \in S
      BY <2>1, <2>5, <3>1, <3>2, <3>4 DEF Embeds, l
    <3>6. \A j, k \in 1 .. (l + 1) : j < k => more[j] < more[k]
      <4> SUFFICES ASSUME NEW j \in 1 .. (l + 1), NEW k \in 1 .. (l + 1), j < k
                   PROVE  more[j] < more[k]
        OBVIOUS
      <4>1. j \in 1 .. l
        BY <3>1
      <4>2. CASE k \in 1 .. l
        BY <2>1, <3>2, <4>1, <4>2 DEF Embeds, l
      <4>3. CASE k = l + 1
        BY <2>2, <3>2, <4>1, <4>3
      <4> QED
        BY <3>4, <4>2, <4>3
    <3>7. ASSUME NEW m \in 1 .. (i + 1), s[m] \in S
          PROVE  \E k \in 1 .. (l + 1) : more[k] = m
      <4>1. CASE m = i + 1
        BY <3>1, <3>2, <4>1
      <4>2. CASE m \in 1 .. i
        <5>1. PICK k \in 1 .. l : at[k] = m
          BY <2>1, <3>7, <4>2 DEF Embeds, l
        <5>2. k \in 1 .. (l + 1) /\ more[k] = m
          BY <3>1, <3>2, <5>1
        <5> QED
          BY <5>2
      <4> QED
        BY <2>2, <4>1, <4>2
    <3>8. Embeds(new, more, s, S, i + 1)
      BY <3>1, <3>3, <3>5, <3>6, <3>7 DEF Embeds
    <3> QED
      BY <2>2, <3>8 DEF new
  <2> QED
    BY <2>4, <2>5
<1> HIDE DEF Done
<1>4. 0 .. Len(s) \subseteq Done
  <2>1. Len(s) \in Nat
    OBVIOUS
  <2> QED
    BY <1>2, <1>3, <2>1, SetInduction
<1>5. Len(s) \in Done
  BY <1>4
<1> QED
  BY <1>1, <1>5 DEF Done, Unfolds
=============================================================================
