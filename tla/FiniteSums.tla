------------------------------- MODULE FiniteSums -------------------------------
(***************************************************************************)
(* Facts about SumFunctionOnSet, the fold the models add amounts up with,  *)
(* and the inductions the proofs about amounts need.                       *)
(*                                                                         *)
(* The fold is a recursive function on the subsets of a set; that it is    *)
(* well defined, and what it adds up to, goes by induction on the subsets  *)
(* of a finite set: a smallest subset for which a fact failed would have   *)
(* smaller ones for which it holds.  Climb, Grow and Recursion state that  *)
(* argument once for intervals and for finite sets, with the fact to be    *)
(* shown given as a set.                                                   *)
(***************************************************************************)
EXTENDS Integers, FiniteSets, Functions, FiniteSetTheorems, WellFoundedInduction, TLAPS

\* The element the fold takes first.
Pick(S) == CHOOSE x \in S : TRUE

\* The recursive function whose value at S is the sum.
IsSum(g, f, S) ==
    g = [s \in SUBSET S |-> IF s = {} THEN 0 ELSE f[Pick(s)] + g[s \ {Pick(s)}]]

\* The sum in terms of the recursive function.
LEMMA SumUnfold ==
    ASSUME NEW f, NEW S
    PROVE  SumFunctionOnSet(f, S) = (CHOOSE g : IsSum(g, f, S))[S]
BY DEF SumFunctionOnSet, FoldFunctionOnSet, MapThenFoldSet, IsSum, Pick

\* Among any subsets of a finite set there is one without a smaller one.
LEMMA SmallestSubset ==
    ASSUME NEW S, IsFiniteSet(S), NEW T \in SUBSET SUBSET S, T # {}
    PROVE  \E A \in T : \A B \in T : B \subseteq A => B = A
<1>1. T \subseteq FiniteSubsetsOf(S)
  BY FS_FiniteSubsetsOfFinite
<1>2. PICK A \in T : \A B \in T : ~ (<<B, A>> \in StrictSubsetOrdering(S))
  <2> HIDE DEF IsFiniteSet
  <2>1. IsWellFoundedOn(StrictSubsetOrdering(S), FiniteSubsetsOf(S))
    BY FS_StrictSubsetOrderingWellFounded
  <2> QED BY <1>1, <2>1, WFMin
<1>3. ASSUME NEW B \in T, B \subseteq A, B # A PROVE FALSE
  <2>1. <<B, A>> \in StrictSubsetOrdering(S)
    BY <1>3 DEF StrictSubsetOrdering
  <2> QED BY <2>1, <1>2
<1> QED BY <1>2, <1>3

\* The element that is picked is one.
LEMMA PickIn == ASSUME NEW s, s # {} PROVE Pick(s) \in s
BY DEF Pick

\* One step of the recursion.
LEMMA SumStep ==
    ASSUME NEW g, NEW f, NEW S, IsSum(g, f, S), NEW s \in SUBSET S
    PROVE  g[s] = IF s = {} THEN 0 ELSE f[Pick(s)] + g[s \ {Pick(s)}]
<1> DEFINE h == [t \in SUBSET S |-> IF t = {} THEN 0 ELSE f[Pick(t)] + g[t \ {Pick(t)}]]
<1>1. g = h BY DEF IsSum
<1>2. h[s] = IF s = {} THEN 0 ELSE f[Pick(s)] + g[s \ {Pick(s)}] OBVIOUS
<1> HIDE DEF h
<1> QED BY <1>1, <1>2

\* The recursive functions of a set and of its subset agree on the smaller one.
LEMMA SumUnique ==
    ASSUME NEW f, NEW B, IsFiniteSet(B), NEW A \in SUBSET B,
           NEW g, IsSum(g, f, A), NEW h, IsSum(h, f, B)
    PROVE  \A s \in SUBSET A : g[s] = h[s]
<1> DEFINE T == {s \in SUBSET A : g[s] # h[s]}
<1>1. SUFFICES ASSUME T # {} PROVE FALSE
  OBVIOUS
<1>2. T \in SUBSET SUBSET B OBVIOUS
<1>3. PICK s \in T : \A t \in T : t \subseteq s => t = s
  <2> HIDE DEF T
  <2> QED BY <1>1, <1>2, SmallestSubset
<1>4. s \in SUBSET A /\ s \in SUBSET B /\ g[s] # h[s] BY <1>3
<1>5. s # {} BY <1>4, SumStep
<1> DEFINE t == s \ {Pick(s)}
<1>6. t # s /\ t \subseteq s BY <1>5, PickIn
<1>7. g[t] = h[t] BY <1>3, <1>4, <1>6
<1>8. g[s] = f[Pick(s)] + g[t] BY <1>4, <1>5, SumStep
<1>9. h[s] = f[Pick(s)] + h[t] BY <1>4, <1>5, SumStep
<1> QED BY <1>4, <1>7, <1>8, <1>9

\* Every subset of a finite set has its recursive function: the sum is defined.
LEMMA SumExists ==
    ASSUME NEW f, NEW S, IsFiniteSet(S)
    PROVE  \A A \in SUBSET S : \E g : IsSum(g, f, A)
<1> DEFINE T == {A \in SUBSET S : ~ \E g : IsSum(g, f, A)}
<1>1. SUFFICES ASSUME T # {} PROVE FALSE
  OBVIOUS
<1>2. T \in SUBSET SUBSET S OBVIOUS
<1>3. PICK A \in T : \A B \in T : B \subseteq A => B = A
  <2> HIDE DEF T
  <2> QED BY <1>1, <1>2, SmallestSubset
<1>4. A \in SUBSET S /\ ~ \E g : IsSum(g, f, A) OBVIOUS
<1> DEFINE G(s) == CHOOSE g : IsSum(g, f, s)
           P(s) == s \ {Pick(s)}
           val(s) == IF s = {} THEN 0 ELSE f[Pick(s)] + G(P(s))[P(s)]
           k == [s \in SUBSET A |-> val(s)]
<1>5. ASSUME NEW s \in SUBSET A, s # A PROVE IsSum(G(s), f, s)
  BY <1>3, <1>4, <1>5
<1>6. ASSUME NEW s \in SUBSET A, s # {} PROVE k[P(s)] = G(P(s))[P(s)]
  <2>1. P(s) \in SUBSET A /\ P(s) # A BY <1>6, PickIn
  <2>2. IsSum(G(P(s)), f, P(s)) BY <1>5, <2>1
  <2>3. k[P(s)] = val(P(s)) BY <2>1
  <2> DEFINE u == P(s)
  <2>4. CASE u = {}
    <3>1. G(u)[u] = 0 BY <2>2, <2>4, SumStep
    <3> QED BY <3>1, <2>3, <2>4
  <2>5. CASE u # {}
    <3>1. P(u) \in SUBSET A /\ P(u) # A /\ P(u) \in SUBSET u BY <2>1, <2>5, PickIn
    <3>2. IsSum(G(P(u)), f, P(u)) BY <1>5, <3>1
    <3>3. G(u)[u] = f[Pick(u)] + G(u)[P(u)]
      <4>1. IsSum(G(u), f, u) /\ u \in SUBSET u BY <2>2
      <4> HIDE DEF G, u
      <4> QED BY <2>5, <4>1, SumStep
    <3>4. G(u)[P(u)] = G(P(u))[P(u)]
      <4>1. P(u) \in SUBSET u /\ P(u) \in SUBSET P(u) OBVIOUS
      <4>2. IsSum(G(u), f, u) BY <2>2
      <4>3. IsFiniteSet(u) BY <1>4, <2>1, FS_Subset
      <4> HIDE DEF G, u, P
      <4> QED BY <3>2, <4>1, <4>2, <4>3, SumUnique
    <3> QED BY <2>3, <2>5, <3>3, <3>4
  <2> QED BY <2>4, <2>5
<1>7. k = [s \in SUBSET A |-> IF s = {} THEN 0 ELSE f[Pick(s)] + k[P(s)]]
  <2>1. ASSUME NEW s \in SUBSET A
        PROVE  val(s) = IF s = {} THEN 0 ELSE f[Pick(s)] + k[P(s)]
    <3> HIDE DEF k, P, G
    <3> QED BY <1>6
  <2> HIDE DEF val, P
  <2> QED BY <2>1
<1>8. IsSum(k, f, A)
  <2> HIDE DEF k
  <2> QED BY <1>7 DEF IsSum
<1> QED BY <1>4, <1>8

\* Nothing adds up to zero.
LEMMA SumEmpty == ASSUME NEW f PROVE SumFunctionOnSet(f, {}) = 0
<1>1. IsSum(CHOOSE g : IsSum(g, f, {}), f, {})
  BY SumExists, FS_EmptySet
<1> QED BY <1>1, SumStep, SumUnfold

\* The sum is the picked element's value and the sum of the others.
LEMMA SumPicked ==
    ASSUME NEW f, NEW S, IsFiniteSet(S), S # {}
    PROVE  /\ Pick(S) \in S
           /\ SumFunctionOnSet(f, S) = f[Pick(S)] + SumFunctionOnSet(f, S \ {Pick(S)})
<1> DEFINE G(s) == CHOOSE g : IsSum(g, f, s)
           R == S \ {Pick(S)}
<1>1. Pick(S) \in S BY PickIn
<1>2. R \in SUBSET S /\ S \in SUBSET S /\ R \in SUBSET R OBVIOUS
<1>3. IsSum(G(S), f, S) /\ IsSum(G(R), f, R)
  <2> HIDE DEF R
  <2> QED BY <1>2, SumExists
<1>4. G(S)[S] = f[Pick(S)] + G(S)[R]
  <2> HIDE DEF G
  <2> QED BY <1>3, SumStep
<1>5. G(S)[R] = G(R)[R]
  <2> HIDE DEF G, R
  <2> QED BY <1>2, <1>3, SumUnique
<1>6. SumFunctionOnSet(f, S) = G(S)[S] /\ SumFunctionOnSet(f, R) = G(R)[R]
  BY SumUnfold
<1> QED BY <1>1, <1>4, <1>5, <1>6-----------------------------------------------------------------------------
(* What sums add up to.                                                      *)

\* Integers add up to an integer.
LEMMA SumInt ==
    ASSUME NEW f, NEW S, IsFiniteSet(S), \A x \in S : f[x] \in Int
    PROVE  SumFunctionOnSet(f, S) \in Int
<1> DEFINE T == {A \in SUBSET S : SumFunctionOnSet(f, A) \notin Int}
<1>1. SUFFICES ASSUME T # {} PROVE FALSE
  OBVIOUS
<1>2. T \in SUBSET SUBSET S OBVIOUS
<1>3. PICK A \in T : \A B \in T : B \subseteq A => B = A
  <2> HIDE DEF T
  <2> QED BY <1>1, <1>2, SmallestSubset
<1>4. A \in SUBSET S /\ SumFunctionOnSet(f, A) \notin Int BY <1>3
<1>5. A # {} BY <1>4, SumEmpty
<1>6. IsFiniteSet(A) BY <1>4, FS_Subset
<1>7. Pick(A) \in A /\ SumFunctionOnSet(f, A) = f[Pick(A)] + SumFunctionOnSet(f, A \ {Pick(A)})
  BY <1>5, <1>6, SumPicked
<1>8. SumFunctionOnSet(f, A \ {Pick(A)}) \in Int
  BY <1>3, <1>4, <1>7
<1>9. f[Pick(A)] \in Int BY <1>4, <1>7
<1> QED BY <1>4, <1>7, <1>8, <1>9

\* Natural numbers add up to a natural number.
LEMMA SumNat ==
    ASSUME NEW f, NEW S, IsFiniteSet(S), \A x \in S : f[x] \in Nat
    PROVE  SumFunctionOnSet(f, S) \in Nat
<1> DEFINE T == {A \in SUBSET S : SumFunctionOnSet(f, A) \notin Nat}
<1>1. SUFFICES ASSUME T # {} PROVE FALSE
  OBVIOUS
<1>2. T \in SUBSET SUBSET S OBVIOUS
<1>3. PICK A \in T : \A B \in T : B \subseteq A => B = A
  <2> HIDE DEF T
  <2> QED BY <1>1, <1>2, SmallestSubset
<1>4. A \in SUBSET S /\ SumFunctionOnSet(f, A) \notin Nat BY <1>3
<1>5. A # {} BY <1>4, SumEmpty
<1>6. IsFiniteSet(A) BY <1>4, FS_Subset
<1>7. Pick(A) \in A /\ SumFunctionOnSet(f, A) = f[Pick(A)] + SumFunctionOnSet(f, A \ {Pick(A)})
  BY <1>5, <1>6, SumPicked
<1>8. SumFunctionOnSet(f, A \ {Pick(A)}) \in Nat
  BY <1>3, <1>4, <1>7
<1>9. f[Pick(A)] \in Nat BY <1>4, <1>7
<1> QED BY <1>4, <1>7, <1>8, <1>9

\* The sum depends on the values in the set only.
LEMMA SumSame ==
    ASSUME NEW f, NEW g, NEW S, IsFiniteSet(S), \A x \in S : f[x] = g[x]
    PROVE  SumFunctionOnSet(f, S) = SumFunctionOnSet(g, S)
<1> DEFINE T == {A \in SUBSET S : SumFunctionOnSet(f, A) # SumFunctionOnSet(g, A)}
<1>1. SUFFICES ASSUME T # {} PROVE FALSE
  OBVIOUS
<1>2. T \in SUBSET SUBSET S OBVIOUS
<1>3. PICK A \in T : \A B \in T : B \subseteq A => B = A
  <2> HIDE DEF T
  <2> QED BY <1>1, <1>2, SmallestSubset
<1>4. A \in SUBSET S /\ SumFunctionOnSet(f, A) # SumFunctionOnSet(g, A) BY <1>3
<1>5. A # {} BY <1>4, SumEmpty
<1>6. IsFiniteSet(A) BY <1>4, FS_Subset
<1>7. /\ Pick(A) \in A
      /\ SumFunctionOnSet(f, A) = f[Pick(A)] + SumFunctionOnSet(f, A \ {Pick(A)})
      /\ SumFunctionOnSet(g, A) = g[Pick(A)] + SumFunctionOnSet(g, A \ {Pick(A)})
  BY <1>5, <1>6, SumPicked
<1>8. SumFunctionOnSet(f, A \ {Pick(A)}) = SumFunctionOnSet(g, A \ {Pick(A)})
  BY <1>3, <1>4, <1>7
<1> QED BY <1>4, <1>7, <1>8

\* Any element can be taken out of the sum.
LEMMA SumTake ==
    ASSUME NEW f, NEW S, IsFiniteSet(S), \A x \in S : f[x] \in Int, NEW x \in S
    PROVE  SumFunctionOnSet(f, S) = f[x] + SumFunctionOnSet(f, S \ {x})
<1> DEFINE Sum(A) == SumFunctionOnSet(f, A)
           T == {A \in SUBSET S : \E y \in A : Sum(A) # f[y] + Sum(A \ {y})}
<1>1. SUFFICES ASSUME T # {} PROVE FALSE
  OBVIOUS
<1>2. T \in SUBSET SUBSET S OBVIOUS
<1>3. PICK A \in T : \A B \in T : B \subseteq A => B = A
  <2> HIDE DEF T
  <2> QED BY <1>1, <1>2, SmallestSubset
<1>4. PICK y \in A : Sum(A) # f[y] + Sum(A \ {y})
  BY <1>3
<1> DEFINE p == Pick(A)
<1>5. A \in SUBSET S BY <1>3
<1>6. IsFiniteSet(A) BY <1>5, FS_Subset
<1>7. p \in A /\ Sum(A) = f[p] + Sum(A \ {p})
  BY <1>4, <1>6, SumPicked
<1>8. p # y BY <1>4, <1>7
<1>9. Sum(A \ {p}) = f[y] + Sum((A \ {p}) \ {y})
  <2>1. A \ {p} \notin T /\ A \ {p} \in SUBSET S /\ y \in A \ {p}
    BY <1>3, <1>5, <1>7, <1>8
  <2> HIDE DEF Sum, p
  <2> QED BY <2>1
<1>10. Sum(A \ {y}) = f[p] + Sum((A \ {y}) \ {p})
  <2>1. A \ {y} \notin T /\ A \ {y} \in SUBSET S /\ p \in A \ {y}
    BY <1>3, <1>4, <1>5, <1>7, <1>8
  <2> HIDE DEF Sum, p
  <2> QED BY <2>1
<1>11. (A \ {p}) \ {y} = (A \ {y}) \ {p} OBVIOUS
<1>12. Sum((A \ {p}) \ {y}) \in Int
  <2>1. (A \ {p}) \ {y} \in SUBSET S BY <1>5
  <2>2. IsFiniteSet((A \ {p}) \ {y}) BY <2>1, FS_Subset
  <2> QED BY <2>1, <2>2, SumInt
<1>13. f[p] \in Int /\ f[y] \in Int BY <1>4, <1>5, <1>7
<1>14. Sum(A \ {y}) = f[p] + Sum((A \ {p}) \ {y}) BY <1>10, <1>11
<1> DEFINE r == Sum((A \ {p}) \ {y})
           fy == f[y]
           fp == f[p]
           a == Sum(A)
           ap == Sum(A \ {p})
           ay == Sum(A \ {y})
<1>15. /\ a # fy + ay /\ a = fp + ap /\ ap = fy + r /\ ay = fp + r
       /\ r \in Int /\ fy \in Int /\ fp \in Int
  BY <1>4, <1>7, <1>9, <1>12, <1>13, <1>14
<1> HIDE DEF r, fy, fp, a, ap, ay
<1> QED BY <1>15

\* A change of one value changes the sum by as much.
LEMMA SumChange ==
    ASSUME NEW f, NEW g, NEW S, IsFiniteSet(S), NEW x \in S,
           \A y \in S : f[y] \in Int /\ g[y] \in Int, \A y \in S \ {x} : g[y] = f[y]
    PROVE  SumFunctionOnSet(g, S) = SumFunctionOnSet(f, S) - f[x] + g[x]
<1>1. IsFiniteSet(S \ {x}) BY FS_Subset
<1>2. SumFunctionOnSet(f, S) = f[x] + SumFunctionOnSet(f, S \ {x}) BY SumTake
<1>3. SumFunctionOnSet(g, S) = g[x] + SumFunctionOnSet(g, S \ {x}) BY SumTake
<1>4. SumFunctionOnSet(g, S \ {x}) = SumFunctionOnSet(f, S \ {x}) BY <1>1, SumSame
<1>5. SumFunctionOnSet(f, S \ {x}) \in Int BY <1>1, SumInt
<1> QED BY <1>2, <1>3, <1>4, <1>5

\* Elements with value zero can be left out.
LEMMA SumSupport ==
    ASSUME NEW f, NEW S, IsFiniteSet(S), \A x \in S : f[x] \in Int,
           NEW R \in SUBSET S, \A x \in S \ R : f[x] = 0
    PROVE  SumFunctionOnSet(f, S) = SumFunctionOnSet(f, R)
<1> DEFINE T == {A \in SUBSET S : R \subseteq A /\ SumFunctionOnSet(f, A) # SumFunctionOnSet(f, R)}
<1>1. SUFFICES ASSUME T # {} PROVE FALSE
  OBVIOUS
<1>2. T \in SUBSET SUBSET S OBVIOUS
<1>3. PICK A \in T : \A B \in T : B \subseteq A => B = A
  <2> HIDE DEF T
  <2> QED BY <1>1, <1>2, SmallestSubset
<1>4. A \in SUBSET S /\ R \subseteq A /\ SumFunctionOnSet(f, A) # SumFunctionOnSet(f, R) BY <1>3
<1>5. PICK x \in A : x \notin R BY <1>4
<1>6. IsFiniteSet(A) /\ IsFiniteSet(A \ {x}) BY <1>4, FS_Subset
<1>7. SumFunctionOnSet(f, A) = f[x] + SumFunctionOnSet(f, A \ {x}) BY <1>4, <1>6, SumTake
<1>8. SumFunctionOnSet(f, A \ {x}) = SumFunctionOnSet(f, R) BY <1>3, <1>4, <1>5
<1>9. SumFunctionOnSet(f, A \ {x}) \in Int BY <1>4, <1>6, SumInt
<1>10. f[x] = 0 BY <1>4, <1>5
<1> QED BY <1>4, <1>7, <1>8, <1>9, <1>10

\* Smaller values have a smaller sum.
LEMMA SumAtMost ==
    ASSUME NEW f, NEW g, NEW S, IsFiniteSet(S),
           \A x \in S : f[x] \in Int /\ g[x] \in Int /\ f[x] <= g[x]
    PROVE  SumFunctionOnSet(f, S) <= SumFunctionOnSet(g, S)
<1> DEFINE T == {A \in SUBSET S : ~(SumFunctionOnSet(f, A) <= SumFunctionOnSet(g, A))}
<1>1. SUFFICES ASSUME T # {} PROVE FALSE
  OBVIOUS
<1>2. T \in SUBSET SUBSET S OBVIOUS
<1>3. PICK A \in T : \A B \in T : B \subseteq A => B = A
  <2> HIDE DEF T
  <2> QED BY <1>1, <1>2, SmallestSubset
<1>4. A \in SUBSET S /\ ~(SumFunctionOnSet(f, A) <= SumFunctionOnSet(g, A)) BY <1>3
<1>5. A # {} BY <1>4, SumEmpty
<1> DEFINE R == A \ {Pick(A)}
<1>6. IsFiniteSet(A) /\ IsFiniteSet(R) /\ R \in SUBSET S BY <1>4, FS_Subset
<1>7. /\ Pick(A) \in A
      /\ SumFunctionOnSet(f, A) = f[Pick(A)] + SumFunctionOnSet(f, R)
      /\ SumFunctionOnSet(g, A) = g[Pick(A)] + SumFunctionOnSet(g, R)
  BY <1>5, <1>6, SumPicked
<1>8. SumFunctionOnSet(f, R) <= SumFunctionOnSet(g, R)
  BY <1>3, <1>4, <1>7
<1>9. SumFunctionOnSet(f, R) \in Int /\ SumFunctionOnSet(g, R) \in Int
  <2> HIDE DEF R
  <2> QED BY <1>6, SumInt
<1>10. f[Pick(A)] \in Int /\ g[Pick(A)] \in Int /\ f[Pick(A)] <= g[Pick(A)] BY <1>4, <1>7
<1> QED BY <1>4, <1>7, <1>8, <1>9, <1>10

-----------------------------------------------------------------------------
(* Induction along an interval and along the subsets of a finite set, with   *)
(* the fact to be shown given as the set of what it holds for.               *)

\* What holds at 0 and carries over from i - 1 to i holds up to n.
LEMMA Climb ==
    ASSUME NEW n \in Nat, NEW T, 0 \in T, \A i \in 1..n : i - 1 \in T => i \in T
    PROVE  \A i \in 0..n : i \in T
<1> SUFFICES ASSUME NEW k \in 0..n, k \notin T PROVE FALSE
  OBVIOUS
<1> DEFINE K == 0..k
           U == {A \in SUBSET K : \E j \in K : A = 0..j /\ j \notin T}
<1>1. U \in SUBSET SUBSET K OBVIOUS
<1>2. U # {}
  <2>1. K \in U OBVIOUS
  <2> QED BY <2>1
<1>3. IsFiniteSet(K)
  BY FS_Interval, k \in Int, 0 \in Int, Zenon
<1>4. PICK A \in U : \A B \in U : B \subseteq A => B = A
  <2> HIDE DEF U, K
  <2> QED BY <1>1, <1>2, <1>3, SmallestSubset
<1>5. PICK j \in 0..k : A = 0..j /\ j \notin T BY <1>4
<1>6. j \in 1..n /\ j - 1 \in 0..k /\ j - 1 \notin T BY <1>5
<1>7. 0..(j - 1) \in U BY <1>6
<1>8. 0..(j - 1) \subseteq A BY <1>5, <1>6
<1>9. 0..(j - 1) = 0..j BY <1>4, <1>5, <1>7, <1>8
<1>10. j \in Nat BY <1>5
<1>11. j \in 0..j /\ j \notin 0..(j - 1) BY <1>10
<1> QED BY <1>9, <1>11

\* What holds for the empty set and carries over from A less an element to A
\* holds for a finite set.
LEMMA Grow ==
    ASSUME NEW S, IsFiniteSet(S), NEW T, {} \in T,
           \A A \in SUBSET S : A # {} /\ (\A x \in A : A \ {x} \in T) => A \in T
    PROVE  \A A \in SUBSET S : A \in T
<1> DEFINE U == {A \in SUBSET S : A \notin T}
<1>1. SUFFICES ASSUME U # {} PROVE FALSE
  OBVIOUS
<1>2. U \in SUBSET SUBSET S OBVIOUS
<1>3. PICK A \in U : \A B \in U : B \subseteq A => B = A
  <2> HIDE DEF U
  <2> QED BY <1>1, <1>2, SmallestSubset
<1>4. A \in SUBSET S /\ A \notin T /\ A # {} BY <1>3
<1>5. \A x \in A : A \ {x} \in SUBSET S /\ A \ {x} # A BY <1>4
<1>6. \A x \in A : A \ {x} \in T BY <1>3, <1>5
<1> QED BY <1>4, <1>6

\* f starts at base, and step i of g leads from its value at i - 1 to that at i.
Iterates(f, g, V, n, base) ==
    f \in [0..n -> V] /\ f[0] = base /\ \A i \in 1..n : f[i] = g[i][f[i - 1]]

\* A recursion along an interval whose steps stay in a set defines a sequence of
\* elements of that set.
LEMMA Recursion ==
    ASSUME NEW V, NEW n \in Nat, NEW base \in V, NEW g \in [1..n -> [V -> V]]
    PROVE  \E f : Iterates(f, g, V, n, base)
<1> DEFINE T == {k \in 0..n : \E f : Iterates(f, g, V, k, base)}
<1>1. 0 \in T
  <2> DEFINE f == [i \in 0..0 |-> base]
  <2>1. f \in [0..0 -> V] /\ f[0] = base OBVIOUS
  <2>2. \A i \in 1..0 : f[i] = g[i][f[i - 1]] OBVIOUS
  <2> HIDE DEF f
  <2>3. Iterates(f, g, V, 0, base) BY <2>1, <2>2 DEF Iterates
  <2> QED BY <2>3
<1>2. ASSUME NEW k \in 1..n, k - 1 \in T PROVE k \in T
  <2>1. PICK f \in [0..(k - 1) -> V] :
               f[0] = base /\ \A i \in 1..(k - 1) : f[i] = g[i][f[i - 1]]
    BY <1>2 DEF Iterates
  <2> DEFINE h == [i \in 0..k |-> IF i = k THEN g[k][f[k - 1]] ELSE f[i]]
  <2>2. f[k - 1] \in V BY <2>1
  <2>3. g[k][f[k - 1]] \in V
    <3>1. g[k] \in [V -> V] OBVIOUS
    <3> QED BY <2>2, <3>1
  <2>4. h \in [0..k -> V] BY <2>1, <2>3
  <2>5. h[0] = base BY <2>1
  <2>6. ASSUME NEW i \in 1..k PROVE h[i] = g[i][h[i - 1]]
    <3>1. h[i - 1] = f[i - 1] OBVIOUS
    <3>2. i # k => i \in 1..(k - 1) /\ h[i] = f[i] OBVIOUS
    <3>3. h[k] = g[k][f[k - 1]] OBVIOUS
    <3> HIDE DEF h
    <3> QED BY <2>1, <3>1, <3>2, <3>3
  <2> HIDE DEF h
  <2>7. Iterates(h, g, V, k, base) BY <2>4, <2>5, <2>6 DEF Iterates
  <2> QED BY <2>7
<1>3. \A i \in 0..n : i \in T
  <2> HIDE DEF T
  <2> QED BY <1>1, <1>2, Climb
<1>4. n \in T BY <1>3
<1> QED BY <1>4
-----------------------------------------------------------------------------
(* More sums.                                                                *)

\* A sum of naturals is at least each of them.
LEMMA SumMember ==
    ASSUME NEW f, NEW S, IsFiniteSet(S), \A x \in S : f[x] \in Nat, NEW x \in S
    PROVE  f[x] <= SumFunctionOnSet(f, S)
<1>1. SumFunctionOnSet(f, S) = f[x] + SumFunctionOnSet(f, S \ {x}) BY SumTake
<1>2. IsFiniteSet(S \ {x}) BY FS_Subset
<1>3. SumFunctionOnSet(f, S \ {x}) \in Nat BY <1>2, SumNat
<1> QED BY <1>1, <1>3

\* h is f less c times g.
Combines(h, f, c, g, S) ==
    \A x \in S : f[x] \in Int /\ g[x] \in Int /\ h[x] = f[x] - c * g[x]

\* A sum of differences is the difference of the sums, a factor taken out.
LEMMA SumLinear ==
    ASSUME NEW f, NEW g, NEW h, NEW S, IsFiniteSet(S), NEW c \in Int, Combines(h, f, c, g, S)
    PROVE  SumFunctionOnSet(h, S) = SumFunctionOnSet(f, S) - c * SumFunctionOnSet(g, S)
<1> DEFINE T == {A \in SUBSET S :
                   SumFunctionOnSet(h, A) = SumFunctionOnSet(f, A) - c * SumFunctionOnSet(g, A)}
<1>1. {} \in T
  <2>1. c * 0 = 0 OBVIOUS
  <2> QED BY <2>1, SumEmpty
<1>2. ASSUME NEW A \in SUBSET S, A # {}, \A x \in A : A \ {x} \in T PROVE A \in T
  <2>1. PICK x \in A : TRUE BY <1>2
  <2>2. IsFiniteSet(A) /\ IsFiniteSet(A \ {x}) BY FS_Subset
  <2> DEFINE sf == SumFunctionOnSet(f, A \ {x})
             sg == SumFunctionOnSet(g, A \ {x})
             sh == SumFunctionOnSet(h, A \ {x})
  <2>3. \A y \in A : f[y] \in Int /\ g[y] \in Int /\ h[y] = f[y] - c * g[y] BY DEF Combines
  <2>4. \A y \in A : h[y] \in Int BY <2>3
  <2>5. /\ SumFunctionOnSet(f, A) = f[x] + sf
        /\ SumFunctionOnSet(g, A) = g[x] + sg
        /\ SumFunctionOnSet(h, A) = h[x] + sh
    BY <2>2, <2>3, <2>4, SumTake
  <2>6. sf \in Int /\ sg \in Int BY <2>2, <2>3, SumInt
  <2>7. sh = sf - c * sg BY <1>2, <2>1
  <2>8. f[x] \in Int /\ g[x] \in Int /\ h[x] = f[x] - c * g[x] BY <2>3
  <2> HIDE DEF sf, sg, sh
  <2>9. c * (g[x] + sg) = c * g[x] + c * sg BY <2>6, <2>8
  <2>10. c * g[x] \in Int /\ c * sg \in Int BY <2>6, <2>8
  <2>11. SumFunctionOnSet(h, A) = SumFunctionOnSet(f, A) - c * SumFunctionOnSet(g, A)
    BY <2>5, <2>6, <2>7, <2>8, <2>9, <2>10
  <2> QED BY <2>11
<1>3. \A A \in SUBSET S : A \in T
  <2> HIDE DEF T
  <2> QED BY <1>1, <1>2, Grow
<1> QED BY <1>3

\* A factor can be taken out of a sum.
LEMMA SumScaled ==
    ASSUME NEW f, NEW g, NEW S, IsFiniteSet(S), NEW c \in Int,
           \A x \in S : f[x] \in Int, \A x \in S : g[x] = c * f[x]
    PROVE  SumFunctionOnSet(g, S) = c * SumFunctionOnSet(f, S)
<1> DEFINE zero == [x \in S |-> 0]
<1>2. Combines(g, zero, -c, f, S)
  <2>1. \A x \in S : zero[x] = 0 /\ f[x] \in Int /\ g[x] = 0 - (-c) * f[x]
    <3> SUFFICES ASSUME NEW x \in S PROVE g[x] = 0 - (-c) * f[x] OBVIOUS
    <3>1. f[x] \in Int /\ g[x] = c * f[x] OBVIOUS
    <3> QED BY <3>1
  <2> QED BY <2>1 DEF Combines
<1>3. SumFunctionOnSet(zero, S) = 0
  <2>1. \A x \in S : zero[x] = 0 OBVIOUS
  <2> HIDE DEF zero
  <2>2. SumFunctionOnSet(zero, S) = SumFunctionOnSet(zero, {}) BY <2>1, SumSupport
  <2> QED BY <2>2, SumEmpty
<1>4. SumFunctionOnSet(f, S) \in Int BY SumInt
<1> HIDE DEF zero
<1>5. SumFunctionOnSet(g, S) = SumFunctionOnSet(zero, S) - (-c) * SumFunctionOnSet(f, S)
  <2>1. -c \in Int OBVIOUS
  <2> QED BY <1>2, <2>1, SumLinear
<1> QED BY <1>3, <1>4, <1>5

\* Renaming the elements leaves the sum as it is.
LEMMA SumRenamed ==
    ASSUME NEW f, NEW g, NEW R, IsFiniteSet(R), NEW S, NEW o \in Bijection(R, S),
           \A y \in S : f[y] \in Int, \A x \in R : g[x] = f[o[x]]
    PROVE  SumFunctionOnSet(g, R) = SumFunctionOnSet(f, S)
<1> DEFINE img(A) == {o[x] : x \in A}
           T == {A \in SUBSET R : SumFunctionOnSet(g, A) = SumFunctionOnSet(f, img(A))}
<1>1. {} \in T
  <2>1. img({}) = {} OBVIOUS
  <2> QED BY <2>1, SumEmpty
<1>2. o \in [R -> S] /\ (\A x, y \in R : o[x] = o[y] => x = y) /\ \A y \in S : \E x \in R : o[x] = y
  BY DEF Bijection, Injection, Surjection, IsInjective
<1>3. ASSUME NEW A \in SUBSET R, A # {}, \A x \in A : A \ {x} \in T PROVE A \in T
  <2>1. PICK x \in A : TRUE BY <1>3
  <2>2. IsFiniteSet(A) BY FS_Subset
  <2>3. IsFiniteSet(img(A))
    <3> DEFINE r == [y \in A |-> o[y]]
    <3>1. r \in [A -> S] BY <1>2
    <3>2. img(A) = Range(r) BY DEF Range
    <3>3. r \in Surjection(A, Range(r)) BY <3>1 DEF Surjection, Range
    <3> HIDE DEF r, img
    <3> QED BY <2>2, <3>2, <3>3, FS_Surjection, Zenon
  <2>4. img(A \ {x}) = img(A) \ {o[x]} BY <1>2
  <2>5. o[x] \in img(A) /\ img(A) \subseteq S BY <1>2
  <2>6. \A y \in A : g[y] \in Int BY <1>2
  <2>7. SumFunctionOnSet(g, A) = g[x] + SumFunctionOnSet(g, A \ {x})
    BY <2>2, <2>6, SumTake
  <2>8. SumFunctionOnSet(f, img(A)) = f[o[x]] + SumFunctionOnSet(f, img(A) \ {o[x]})
    <3> HIDE DEF img
    <3> QED BY <2>3, <2>5, SumTake
  <2>9. SumFunctionOnSet(g, A \ {x}) = SumFunctionOnSet(f, img(A \ {x}))
    BY <1>3, <2>1
  <2>10. SumFunctionOnSet(g, A) = SumFunctionOnSet(f, img(A))
    <3> HIDE DEF img
    <3> QED BY <2>4, <2>7, <2>8, <2>9
  <2> QED BY <2>10
<1>4. \A A \in SUBSET R : A \in T
  <2> HIDE DEF T
  <2> QED BY <1>1, <1>3, Grow
<1>5. img(R) = S BY <1>2
<1>6. SumFunctionOnSet(g, R) = SumFunctionOnSet(f, img(R)) BY <1>4
<1> QED BY <1>5, <1>6
=============================================================================
