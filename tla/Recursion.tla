------------------------------ MODULE Recursion ------------------------------
(***************************************************************************)
(* Induction over the naturals with a set for the predicate, and a         *)
(* function of the naturals for every way to take steps.  The theorems of  *)
(* the library say the same of an operator, with which the provers can do  *)
(* nothing; these they can apply.                                          *)
(***************************************************************************)
EXTENDS Integers, WellFoundedInduction, TLAPS

\* A set of naturals that is not empty has a least element.
LEMMA LeastNatural ==
    ASSUME NEW T \in SUBSET Nat, T # {}
    PROVE  \E x \in T : \A y \in T : x <= y
<1> DEFINE Less == {pair \in Nat \X Nat : pair[1] < pair[2]}
<1>1. IsWellFoundedOn(Less, Nat)
  BY NatLessThanWellFounded, Zenon DEF OpToRel
<1>2. PICK x \in T : \A y \in T : ~ (<<y, x>> \in Less)
  BY <1>1, WFMin
<1>3. \A y \in T : ~ (y < x)
  BY <1>2
<1> QED BY <1>3

\* A set with 0 and with the successor of each of its naturals has them all.
THEOREM SetInduction ==
    ASSUME NEW S, 0 \in S, \A n \in Nat : n \in S => n + 1 \in S
    PROVE  Nat \subseteq S
<1> SUFFICES ASSUME Nat \ S # {} PROVE FALSE
  OBVIOUS
<1>1. PICK x \in Nat \ S : \A y \in Nat \ S : x <= y
  BY LeastNatural
<1>2. x - 1 \in Nat
  BY <1>1
<1> QED BY <1>1, <1>2

\* What n steps from the first element of S make of it.
Steps(S, first, step, n) ==
    {g \in [0..n -> S] : g[0] = first /\ \A i \in 0..(n - 1) : g[i + 1] = step[g[i]]}

\* There are such steps, of any number.
LEMMA StepsExist ==
    ASSUME NEW S, NEW first \in S, NEW step \in [S -> S], NEW n \in Nat
    PROVE  Steps(S, first, step, n) # {}
<1> DEFINE Good == {m \in Nat : Steps(S, first, step, m) # {}}
<1>1. 0 \in Good
  <2>1. [i \in 0..0 |-> first] \in Steps(S, first, step, 0)
    BY DEF Steps
  <2> QED BY <2>1
<1>2. ASSUME NEW m \in Nat, m \in Good PROVE m + 1 \in Good
  <2>1. PICK g \in Steps(S, first, step, m) : TRUE
    BY <1>2
  <2> DEFINE h == [i \in 0..(m + 1) |-> IF i = m + 1 THEN step[g[m]] ELSE g[i]]
  <2>2. h \in [0..(m + 1) -> S] /\ h[0] = first
    BY <2>1 DEF Steps
  <2>3. ASSUME NEW i \in 0..m PROVE h[i + 1] = step[h[i]]
    <3>1. CASE i = m
      BY <3>1
    <3>2. CASE i # m
      <4>1. i \in 0..(m - 1) /\ g[i + 1] = step[g[i]]
        BY <2>1, <3>2 DEF Steps
      <4> QED BY <4>1
    <3> QED BY <3>1, <3>2
  <2>4. h \in Steps(S, first, step, m + 1)
    BY <2>2, <2>3 DEF Steps
  <2> QED BY <2>4
<1>3. Nat \subseteq Good
  <2> HIDE DEF Good
  <2> QED BY <1>1, <1>2, SetInduction
<1> QED BY <1>3

\* Where they lead is the same whichever is taken, and however far it goes on.
LEMMA StepsAgree ==
    ASSUME NEW S, NEW first \in S, NEW step \in [S -> S],
           NEW m \in Nat, NEW n \in Nat,
           NEW g \in Steps(S, first, step, m), NEW h \in Steps(S, first, step, n)
    PROVE  \A i \in Nat : i <= m /\ i <= n => g[i] = h[i]
<1> DEFINE Same == {i \in Nat : i <= m /\ i <= n => g[i] = h[i]}
<1>1. 0 \in Same
  BY DEF Steps
<1>2. ASSUME NEW i \in Nat, i \in Same PROVE i + 1 \in Same
  <2> SUFFICES ASSUME i + 1 <= m, i + 1 <= n PROVE g[i + 1] = h[i + 1]
    OBVIOUS
  <2>1. i \in 0..(m - 1) /\ i \in 0..(n - 1) /\ g[i] = h[i]
    BY <1>2
  <2> QED BY <2>1 DEF Steps
<1>3. Nat \subseteq Same
  <2> HIDE DEF Same
  <2> QED BY <1>1, <1>2, SetInduction
<1> QED BY <1>3

\* Steps that go on for ever: a function of the naturals by its first value and
\* how each follows from the one before.
THEOREM RecursionExists ==
    ASSUME NEW S, NEW first \in S, NEW step \in [S -> S]
    PROVE  \E f \in [Nat -> S] : f[0] = first /\ \A n \in Nat : f[n + 1] = step[f[n]]
<1> DEFINE some(n) == CHOOSE g \in Steps(S, first, step, n) : TRUE
           f == [n \in Nat |-> some(n)[n]]
<1>1. \A n \in Nat : some(n) \in Steps(S, first, step, n)
  BY StepsExist
<1> HIDE DEF some
<1>2. f \in [Nat -> S] /\ f[0] = first
  BY <1>1 DEF Steps
<1>3. ASSUME NEW n \in Nat PROVE f[n + 1] = step[f[n]]
  <2>1. some(n + 1)[n + 1] = step[some(n + 1)[n]]
    BY <1>1 DEF Steps
  <2>2. some(n + 1)[n] = some(n)[n]
    BY <1>1, StepsAgree
  <2> QED BY <2>1, <2>2
<1> QED BY <1>2, <1>3

\* The same by name, for sets the provers would look into.
CanFollow(S, first, step) == first \in S /\ step \in [S -> S]
Following(S, step) == {f \in [Nat -> S] : \A n \in Nat : f[n + 1] = step[f[n]]}

LEMMA SomeFollow == \A S, first, step : CanFollow(S, first, step) => Following(S, step) # {}
BY RecursionExists DEF CanFollow, Following

\* One of two cases of what is below a successor.
LEMMA BelowSuccessor ==
    ASSUME NEW a \in Nat, NEW n \in Nat, a < n + 1
    PROVE  a = n \/ a < n
OBVIOUS

\* A step that makes the value at x of the values at what is smaller than x.
Grounded(D, S, size, step) ==
    /\ S # {} /\ size \in [D -> Nat] /\ step \in [[D -> S] -> [D -> S]]
    /\ \A g, h \in [D -> S] : \A x \in D :
          (\A y \in D : size[y] < size[x] => g[y] = h[y]) => step[g][x] = step[h][x]

Fixed(D, S, step) == {f \in [D -> S] : f = step[f]}

\* Such a step has a fixed point: what a function defined by recursion over data
\* of a size is.
THEOREM SizeRecursion ==
    ASSUME NEW D, NEW S, NEW size, NEW step, Grounded(D, S, size, step)
    PROVE  Fixed(D, S, step) # {}
<1> SUFFICES ASSUME S # {}, size \in [D -> Nat], step \in [[D -> S] -> [D -> S]],
                    \A g, h \in [D -> S] : \A x \in D :
                        (\A y \in D : size[y] < size[x] => g[y] = h[y])
                            => step[g][x] = step[h][x]
             PROVE  \E f \in [D -> S] : f = step[f]
  BY DEF Grounded, Fixed
<1>1. PICK s \in S : TRUE
  OBVIOUS
<1>2. [x \in D |-> s] \in [D -> S]
  OBVIOUS
<1>3. PICK h \in [Nat -> [D -> S]] : \A n \in Nat : h[n + 1] = step[h[n]]
  <2>1. CanFollow([D -> S], [x \in D |-> s], step)
    BY <1>2 DEF CanFollow
  <2>2. Following([D -> S], step) # {}
    BY <2>1, SomeFollow, Zenon
  <2> QED BY <2>2, Zenon DEF Following
<1> DEFINE Stays == {n \in Nat : \A x \in D : size[x] < n => h[n + 1][x] = h[n][x]}
<1>4. Nat \subseteq Stays
  <2>1. 0 \in Stays
    OBVIOUS
  <2>2. ASSUME NEW n \in Nat, n \in Stays PROVE n + 1 \in Stays
    <3> SUFFICES ASSUME NEW x \in D, size[x] < n + 1 PROVE h[n + 2][x] = h[n + 1][x]
      OBVIOUS
    <3>1. h[n + 2] = step[h[n + 1]] /\ h[n + 1] = step[h[n]]
      BY <1>3
    <3>2. h[n + 1] \in [D -> S] /\ h[n] \in [D -> S]
      OBVIOUS
    <3>3. ASSUME NEW y \in D, size[y] < size[x] PROVE h[n + 1][y] = h[n][y]
      <4>1. size[y] < n
        BY <3>3
      <4> QED BY <4>1, <2>2
    <3>4. step[h[n + 1]][x] = step[h[n]][x]
      BY <3>2, <3>3
    <3> QED BY <3>1, <3>4
  <2> HIDE DEF Stays
  <2> QED BY <2>1, <2>2, SetInduction
<1> DEFINE f == [x \in D |-> h[size[x] + 1][x]]
           Settled == {n \in Nat : \A x \in D : size[x] < n => h[n][x] = f[x]}
<1>5. Nat \subseteq Settled
  <2>1. 0 \in Settled
    OBVIOUS
  <2>2. ASSUME NEW n \in Nat, n \in Settled PROVE n + 1 \in Settled
    <3> SUFFICES ASSUME NEW x \in D, size[x] < n + 1 PROVE h[n + 1][x] = f[x]
      OBVIOUS
    <3>1. CASE size[x] = n
      BY <3>1
    <3>2. CASE size[x] < n
      <4>1. n \in Stays
        BY <1>4
      <4>2. h[n + 1][x] = h[n][x] /\ h[n][x] = f[x]
        BY <4>1, <3>2, <2>2
      <4> QED BY <4>2
    <3>3. size[x] = n \/ size[x] < n
      BY BelowSuccessor
    <3> HIDE DEF f
    <3> QED BY <3>1, <3>2, <3>3
  <2> HIDE DEF Settled
  <2> QED BY <2>1, <2>2, SetInduction
<1>6. f \in [D -> S]
  OBVIOUS
<1>7. ASSUME NEW x \in D PROVE f[x] = step[f][x]
  <2>1. f[x] = step[h[size[x]]][x]
    BY <1>3
  <2>2. \A y \in D : size[y] < size[x] => h[size[x]][y] = f[y]
    BY <1>5
  <2>3. h[size[x]] \in [D -> S]
    OBVIOUS
  <2> HIDE DEF f
  <2>4. step[h[size[x]]][x] = step[f][x]
    BY <1>6, <2>2, <2>3
  <2> QED BY <2>1, <2>4
<1>8. step[f] \in [D -> S]
  BY <1>6
<1> HIDE DEF f
<1>9. f = step[f]
  BY <1>6, <1>7, <1>8
<1> QED BY <1>6, <1>9
=============================================================================
