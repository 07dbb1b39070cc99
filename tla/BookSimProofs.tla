----------------------------- MODULE BookSimProofs ------------------------------
(***************************************************************************)
(* The fill simulation, for books of any number of rows, in any order and  *)
(* of any size, any request, scale and fee rate: a market sale takes the   *)
(* best prices, a resting limit never does better than one, and a buy      *)
(* stays within its budget and leaves little of it.                        *)
(*                                                                         *)
(* First the book in order of price, then the walk along it, then what the *)
(* walk is worth against every other way to take as many shares.  For a    *)
(* buy, the two walks are followed level by level in whole numbers over a  *)
(* common denominator: the second, with the smaller budget, is never ahead *)
(* of the first, pays no more for a share and so has no larger fee.        *)
(***************************************************************************)
EXTENDS BookSim, FiniteSums, SequenceTheorems

\* A one-to-one numbering of a set, spelled out.
LEMMA Numbering ==
    ASSUME NEW R, NEW S, NEW o
    PROVE  o \in Bijection(R, S) <=>
             /\ o \in [R -> S]
             /\ \A i, j \in R : o[i] = o[j] => i = j
             /\ \A x \in S : \E i \in R : o[i] = x
BY Zenon DEF Bijection, Injection, Surjection, IsInjective

\* What a numbering is.
LEMMA Numbered ==
    ASSUME NEW R, NEW S, NEW o, o \in Bijection(R, S)
    PROVE  /\ o \in [R -> S]
           /\ \A i \in R : o[i] \in S
           /\ \A i, j \in R : o[i] = o[j] => i = j
           /\ \A x \in S : \E i \in R : o[i] = x
<1>1. o \in [R -> S] BY Numbering, Zenon
<1>2. \A i \in R : o[i] \in S BY <1>1
<1> QED BY <1>1, <1>2, Numbering, Zenon

\* o numbers the elements of S from 1 to m.
Numbers(o, m, S) ==
    /\ o \in Bijection(1..m, S)
    /\ \A i \in 1..m : o[i] \in S
    /\ \A i, j \in 1..m : o[i] = o[j] => i = j
    /\ \A x \in S : \E i \in 1..m : o[i] = x

\* Every bijection from 1..m is such a numbering.
LEMMA BijectionNumbers ==
    ASSUME NEW S, NEW m, NEW o, o \in Bijection(1..m, S)
    PROVE  Numbers(o, m, S)
<1> DEFINE R == 1..m
<1>1. o \in Bijection(R, S) OBVIOUS
<1> HIDE DEF R
<1>2. /\ \A i \in R : o[i] \in S
      /\ \A i, j \in R : o[i] = o[j] => i = j
      /\ \A x \in S : \E i \in R : o[i] = x
  BY <1>1, Numbered
<1> QED BY <1>1, <1>2 DEF Numbers, R

\* A finite set has an element with the greatest key.
LEMMA Greatest ==
    ASSUME NEW S, IsFiniteSet(S), NEW key, \A x \in S : key[x] \in Int, S # {}
    PROVE  \E x \in S : \A y \in S : key[y] <= key[x]
<1> DEFINE T == {A \in SUBSET S : A # {} => \E x \in A : \A y \in A : key[y] <= key[x]}
<1>1. {} \in T OBVIOUS
<1>2. ASSUME NEW A \in SUBSET S, A # {}, \A x \in A : A \ {x} \in T PROVE A \in T
  <2>1. PICK x \in A : TRUE BY <1>2
  <2>2. CASE A \ {x} = {}
    <3>1. \A y \in A : y = x BY <2>2
    <3>2. \A y \in A : key[y] <= key[x] BY <3>1
    <3> QED BY <2>1, <3>2
  <2>3. CASE A \ {x} # {}
    <3>1. PICK z \in A \ {x} : \A y \in A \ {x} : key[y] <= key[z] BY <1>2, <2>3
    <3>2. key[x] \in Int /\ key[z] \in Int /\ \A y \in A : key[y] \in Int OBVIOUS
    <3>3. CASE key[x] <= key[z]
      <4>1. \A y \in A : key[y] <= key[z] BY <3>1, <3>3
      <4> QED BY <4>1
    <3>4. CASE key[z] <= key[x]
      <4>1. \A y \in A : key[y] <= key[x] BY <3>1, <3>2, <3>4
      <4> QED BY <4>1
    <3> QED BY <3>2, <3>3, <3>4
  <2> QED BY <2>2, <2>3
<1>3. \A A \in SUBSET S : A \in T
  <2> HIDE DEF T
  <2> QED BY <1>1, <1>2, Grow
<1> QED BY <1>3

\* A numbering of S along which the key does not fall.
Rising(o, S, key) ==
    /\ o \in Bijection(1..Cardinality(S), S)
    /\ \A i, j \in 1..Cardinality(S) : i < j => key[o[i]] <= key[o[j]]

\* Every finite set can be put in order of its keys.
LEMMA OrderExists ==
    ASSUME NEW S, IsFiniteSet(S), NEW key, \A x \in S : key[x] \in Int
    PROVE  \E o : Rising(o, S, key)
<1> DEFINE T == {A \in SUBSET S : \E o : Rising(o, A, key)}
<1>1. {} \in T
  <2>1. Cardinality({}) = 0 BY FS_EmptySet
  <2>2. <<>> \in [1..0 -> {}] OBVIOUS
  <2>3. Rising(<<>>, {}, key)
    <3>1. <<>> \in Bijection(1..0, {})
      <4>1. 1..0 = {} OBVIOUS
      <4> QED BY <2>2, <4>1, Numbering
    <3> QED BY <2>1, <3>1 DEF Rising
  <2> QED BY <2>3
<1>2. ASSUME NEW A \in SUBSET S, A # {}, \A x \in A : A \ {x} \in T PROVE A \in T
  <2>1. IsFiniteSet(A) BY FS_Subset
  <2>2. PICK x \in A : \A y \in A : key[y] <= key[x]
    BY <1>2, <2>1, Greatest
  <2>3. PICK p : Rising(p, A \ {x}, key) BY <1>2
  <2> DEFINE n == Cardinality(A)
  <2>4. n \in Nat /\ n # 0 /\ Cardinality(A \ {x}) = n - 1
    BY <2>1, <1>2, FS_CardinalityType, FS_EmptySet, FS_RemoveElement
  <2> HIDE DEF n
  <2>5. /\ p \in [1..(n - 1) -> A \ {x}]
        /\ \A i, j \in 1..(n - 1) : p[i] = p[j] => i = j
        /\ \A y \in A \ {x} : \E i \in 1..(n - 1) : p[i] = y
        /\ \A i, j \in 1..(n - 1) : i < j => key[p[i]] <= key[p[j]]
    <3>1. p \in Bijection(1..(n - 1), A \ {x}) BY <2>3, <2>4 DEF Rising
    <3>2. \A i, j \in 1..(n - 1) : i < j => key[p[i]] <= key[p[j]] BY <2>3, <2>4 DEF Rising
    <3>3. /\ p \in [1..(n - 1) -> A \ {x}]
          /\ \A i, j \in 1..(n - 1) : p[i] = p[j] => i = j
          /\ \A y \in A \ {x} : \E i \in 1..(n - 1) : p[i] = y
      <4> DEFINE R == 1..(n - 1)
                 B == A \ {x}
      <4>1. p \in Bijection(R, B) BY <3>1
      <4> HIDE DEF R, B
      <4>2. /\ p \in [R -> B]
            /\ \A i, j \in R : p[i] = p[j] => i = j
            /\ \A y \in B : \E i \in R : p[i] = y
        BY <4>1, Numbered
      <4> QED BY <4>2 DEF R, B
    <3> QED BY <3>2, <3>3
  <2> DEFINE o == [i \in 1..n |-> IF i = n THEN x ELSE p[i]]
  <2>6. \A i \in 1..n : i # n => i \in 1..(n - 1) /\ o[i] = p[i] /\ o[i] \in A \ {x}
    BY <2>4, <2>5
  <2>7. o[n] = x /\ n \in 1..n BY <2>4
  <2>8. o \in [1..n -> A] BY <2>5, <2>4
  <2> HIDE DEF o
  <2>9. \A i, j \in 1..n : o[i] = o[j] => i = j BY <2>5, <2>6, <2>7
  <2>10. \A y \in A : \E i \in 1..n : o[i] = y
    <3> SUFFICES ASSUME NEW y \in A PROVE \E i \in 1..n : o[i] = y
      OBVIOUS
    <3>1. CASE y = x BY <2>7, <3>1
    <3>2. CASE y # x
      <4>1. PICK i \in 1..(n - 1) : p[i] = y BY <2>5, <3>2
      <4>2. i \in 1..n /\ i # n BY <2>4
      <4> QED BY <2>6, <4>1, <4>2
    <3> QED BY <3>1, <3>2
  <2>11. \A i, j \in 1..n : i < j => key[o[i]] <= key[o[j]]
    <3> SUFFICES ASSUME NEW i \in 1..n, NEW j \in 1..n, i < j PROVE key[o[i]] <= key[o[j]]
      OBVIOUS
    <3>1. i # n BY <2>4
    <3>2. CASE j = n BY <2>2, <2>6, <2>7, <3>1, <3>2
    <3>3. CASE j # n BY <2>5, <2>6, <3>1, <3>3
    <3> QED BY <3>2, <3>3
  <2>12. Rising(o, A, key)
    <3>1. o \in Bijection(1..n, A) BY <2>8, <2>9, <2>10, Numbering
    <3> QED BY <2>11, <3>1 DEF Rising, n
  <2> QED BY <2>12
<1>3. \A A \in SUBSET S : A \in T
  <2> HIDE DEF T
  <2> QED BY <1>1, <1>2, Grow
<1> QED BY <1>3
-----------------------------------------------------------------------------
(* The book in order.                                                        *)

\* b is seq with the rows that show nothing left out and the others in order of
\* price, row o[i] at place i.
Ordered(b, o, seq, dir) ==
    /\ b \in Seq(Level)
    /\ Numbers(o, Len(b), Shown(seq))
    /\ \A i \in 1..Len(b) : b[i] = seq[o[i]] /\ b[i].size > 0
    /\ \A i, j \in 1..Len(b) : i < j => dir * b[i].price <= dir * b[j].price

\* Rows of a book are a finite set.
LEMMA RowsFinite ==
    ASSUME NEW seq \in Seq(Level)
    PROVE  /\ DOMAIN seq = 1..Len(seq) /\ Len(seq) \in Nat
           /\ IsFiniteSet(DOMAIN seq) /\ IsFiniteSet(Shown(seq)) /\ Shown(seq) \subseteq DOMAIN seq
           /\ \A i \in DOMAIN seq : seq[i] \in Level /\ seq[i].price \in Nat /\ seq[i].size \in Nat
<1>1. DOMAIN seq = 1..Len(seq) /\ Len(seq) \in Nat
  BY LenProperties
<1>2. IsFiniteSet(1..Len(seq))
  BY <1>1, FS_Interval, 1 \in Int, Len(seq) \in Int, Zenon
<1>3. Shown(seq) \subseteq DOMAIN seq
  BY DEF Shown
<1>4. \A i \in DOMAIN seq : seq[i] \in Level
  BY <1>1, ElementOfSeq
<1>5. \A l \in Level : l.price \in Nat /\ l.size \in Nat
  BY BookAssumption DEF Level, BookAssumption
<1> QED BY <1>1, <1>2, <1>3, <1>4, <1>5, FS_Subset

\* The book that is walked is in order (fetchBook: filter and sort).
LEMMA ByPriceOrdered ==
    ASSUME NEW seq \in Seq(Level), NEW dir \in {-1, 1}
    PROVE  \E o : Ordered(ByPrice(seq, dir), o, seq, dir)
<1> DEFINE S == Shown(seq)
           n == Cardinality(S)
           key == [i \in S |-> dir * seq[i].price]
           Sorted(o) == \A i, j \in 1..n : i < j => dir * seq[o[i]].price <= dir * seq[o[j]].price
           order == CHOOSE o \in Bijection(1..n, S) : Sorted(o)
           b == [i \in 1..n |-> seq[order[i]]]
<1>1. IsFiniteSet(S) /\ S \subseteq DOMAIN seq /\ n \in Nat
  BY RowsFinite, FS_CardinalityType
<1>2. \A i \in S : seq[i] \in Level /\ seq[i].price \in Nat /\ seq[i].size > 0
  <2>1. \A i \in S : seq[i].size > 0 BY DEF Shown
  <2> QED BY <1>1, <2>1, RowsFinite
<1>3. \A i \in S : key[i] \in Int
  BY <1>2
<1>4. PICK o1 : Rising(o1, S, key)
  <2> HIDE DEF key, S
  <2> QED BY <1>1, <1>3, OrderExists
<1>5. o1 \in Bijection(1..n, S) /\ Sorted(o1)
  <2>1. o1 \in Bijection(1..n, S) BY <1>4 DEF Rising
  <2>2. \A i \in 1..n : o1[i] \in S BY <2>1, Numbered, Zenon
  <2>3. \A i, j \in 1..n : i < j => key[o1[i]] <= key[o1[j]] BY <1>4 DEF Rising
  <2> HIDE DEF S, n
  <2> QED BY <2>1, <2>2, <2>3
<1>6. order \in Bijection(1..n, S) /\ Sorted(order)
  <2> HIDE DEF Sorted, S, n
  <2> QED BY <1>5
<1>7. ByPrice(seq, dir) = b
  BY DEF ByPrice
<1> HIDE DEF order, S
<1>8. \A i \in 1..n : order[i] \in S
  BY <1>6, Numbered, Zenon
<1> HIDE DEF n
<1>9. b \in [1..n -> Level]
  BY <1>2, <1>8
<1>10. b \in Seq(Level) /\ Len(b) = n
  <2> HIDE DEF b
  <2>1. b \in Seq(Level) BY <1>1, <1>9, SeqDef
  <2>2. DOMAIN b = 1..n /\ DOMAIN b = 1..Len(b) /\ Len(b) \in Nat BY <1>9, <2>1, LenProperties
  <2> QED BY <1>1, <2>1, <2>2
<1>11. \A i \in 1..n : b[i] = seq[order[i]] /\ b[i].size > 0
  BY <1>2, <1>8
<1>12. \A i, j \in 1..n : i < j => dir * b[i].price <= dir * b[j].price
  BY <1>6
<1> HIDE DEF b
<1>13. Ordered(b, order, seq, dir)
  <2>1. Numbers(order, n, S) BY <1>6, BijectionNumbers
  <2> QED BY <1>10, <1>11, <1>12, <2>1 DEF Ordered, S
<1> QED BY <1>7, <1>13

\* Bids are walked from the highest price down.
LEMMA BidsFall ==
    ASSUME NEW seq \in Seq(Level)
    PROVE  /\ Bids(seq) \in Seq(Level)
           /\ \A i, j \in 1..Len(Bids(seq)) : i < j => Bids(seq)[j].price <= Bids(seq)[i].price
<1> DEFINE b == ByPrice(seq, -1)
<1>1. PICK o : Ordered(b, o, seq, -1)
  BY ByPriceOrdered, -1 \in {-1, 1}
<1> HIDE DEF b
<1>2. b \in Seq(Level) /\ \A i, j \in 1..Len(b) : i < j => (-1) * b[i].price <= (-1) * b[j].price
  BY <1>1, Zenon DEF Ordered
<1>3. \A i \in 1..Len(b) : b[i].price \in Nat
  BY <1>2, RowsFinite
<1>4. ASSUME NEW i \in 1..Len(b), NEW j \in 1..Len(b), i < j PROVE b[j].price <= b[i].price
  <2>1. (-1) * b[i].price <= (-1) * b[j].price BY <1>2, <1>4
  <2>2. b[i].price \in Nat /\ b[j].price \in Nat BY <1>3
  <2> QED BY <2>1, <2>2
<1> QED BY <1>2, <1>4 DEF Bids, b

\* Asks are walked from the lowest price up.
LEMMA AsksRise ==
    ASSUME NEW seq \in Seq(Level)
    PROVE  /\ Asks(seq) \in Seq(Level)
           /\ \A i, j \in 1..Len(Asks(seq)) : i < j => Asks(seq)[i].price <= Asks(seq)[j].price
<1> DEFINE b == ByPrice(seq, 1)
<1>1. PICK o : Ordered(b, o, seq, 1)
  BY ByPriceOrdered, 1 \in {-1, 1}
<1> HIDE DEF b
<1>2. b \in Seq(Level) /\ \A i, j \in 1..Len(b) : i < j => 1 * b[i].price <= 1 * b[j].price
  BY <1>1, Zenon DEF Ordered
<1>3. \A i \in 1..Len(b) : b[i].price \in Nat
  BY <1>2, RowsFinite
<1>4. ASSUME NEW i \in 1..Len(b), NEW j \in 1..Len(b), i < j PROVE b[i].price <= b[j].price
  <2>1. 1 * b[i].price <= 1 * b[j].price BY <1>2, <1>4
  <2>2. b[i].price \in Nat /\ b[j].price \in Nat BY <1>3
  <2> QED BY <2>1, <2>2
<1> QED BY <1>2, <1>4 DEF Asks, b

-----------------------------------------------------------------------------
(* The walk along the levels.                                                *)

\* f[i] shares are still wanted after i levels.
IsWalk(f, levels, n) ==
    f = [i \in 0..Len(levels) |->
            IF i = 0 THEN n
            ELSE IF f[i - 1] <= levels[i].size THEN 0
            ELSE f[i - 1] - levels[i].size]

\* What each level gives.
Given(f, levels) == [i \in 1..Len(levels) |-> f[i - 1] - f[i]]
Paid(f, levels) == [i \in 1..Len(levels) |-> (f[i - 1] - f[i]) * levels[i].price]

\* One step of the walk.
LEMMA WalkStep ==
    ASSUME NEW levels, NEW n, NEW f, IsWalk(f, levels, n), NEW i \in 0..Len(levels)
    PROVE  f[i] = IF i = 0 THEN n
                  ELSE IF f[i - 1] <= levels[i].size THEN 0
                  ELSE f[i - 1] - levels[i].size
<1> DEFINE g == [j \in 0..Len(levels) |->
                    IF j = 0 THEN n
                    ELSE IF f[j - 1] <= levels[j].size THEN 0
                    ELSE f[j - 1] - levels[j].size]
<1>1. f = g BY DEF IsWalk
<1>2. g[i] = IF i = 0 THEN n
             ELSE IF f[i - 1] <= levels[i].size THEN 0
             ELSE f[i - 1] - levels[i].size
  OBVIOUS
<1> HIDE DEF g
<1> QED BY <1>1, <1>2

\* The loop of walk is well defined, and what it returns.
LEMMA WalkDefined ==
    ASSUME NEW levels \in Seq(Level), NEW n \in Nat
    PROVE  \E f : /\ IsWalk(f, levels, n)
                  /\ Walk(levels, n) = [shares   |-> n - f[Len(levels)],
                                        notional |-> SumFunctionOnSet(Paid(f, levels), 1..Len(levels))]
<1> DEFINE m == Len(levels)
           V == Int
           g == [i \in 1..m |-> [x \in V |-> IF x <= levels[i].size THEN 0
                                             ELSE x - levels[i].size]]
           f0 == CHOOSE f : IsWalk(f, levels, n)
<1>1. m \in Nat /\ DOMAIN levels = 1..m
  BY LenProperties
<1>2. \A i \in 1..m : levels[i].size \in Nat
  BY <1>1, RowsFinite
<1>3. \A x \in V, i \in 1..m : g[i][x] = (IF x <= levels[i].size THEN 0 ELSE x - levels[i].size)
  OBVIOUS
<1>4. g \in [1..m -> [V -> V]]
  BY <1>2
<1>5. \E f : Iterates(f, g, V, m, n)
  <2>1. n \in V OBVIOUS
  <2>2. m \in Nat BY <1>1
  <2> HIDE DEF g, m, V
  <2> QED BY <1>4, <2>1, <2>2, Recursion
<1>6. PICK f \in [0..m -> V] : f[0] = n /\ \A i \in 1..m : f[i] = g[i][f[i - 1]]
  BY <1>5 DEF Iterates
<1>7. IsWalk(f, levels, n)
  <2> DEFINE h == [i \in 0..m |-> IF i = 0 THEN n
                                  ELSE IF f[i - 1] <= levels[i].size THEN 0
                                  ELSE f[i - 1] - levels[i].size]
  <2>1. ASSUME NEW i \in 0..m PROVE f[i] = h[i]
    <3>1. CASE i = 0 BY <1>6, <3>1
    <3>2. CASE i # 0
      <4>1. i \in 1..m /\ i - 1 \in 0..m BY <1>1, <3>2
      <4>2. f[i] = g[i][f[i - 1]] /\ f[i - 1] \in V BY <1>6, <4>1
      <4>3. h[i] = IF f[i - 1] <= levels[i].size THEN 0 ELSE f[i - 1] - levels[i].size
        BY <3>2
      <4> HIDE DEF g, h, V
      <4> QED BY <1>3, <4>1, <4>2, <4>3
    <3> QED BY <3>1, <3>2
  <2>2. f = h
    <3>1. h = [i \in 0..m |-> h[i]] /\ f = [i \in 0..m |-> f[i]] BY <1>6
    <3> HIDE DEF h
    <3> QED BY <2>1, <3>1
  <2> QED BY <2>2 DEF IsWalk
<1>8. IsWalk(f0, levels, n)
  BY <1>7
<1>9. Walk(levels, n) = [shares |-> n - f0[m],
                         notional |-> SumFunctionOnSet(Paid(f0, levels), 1..m)]
  <2>1. Walk(levels, n) = [shares |-> n - f0[m],
                           notional |-> SumFunction([i \in DOMAIN levels |->
                                            (f0[i - 1] - f0[i]) * levels[i].price])]
    BY DEF Walk, IsWalk
  <2> HIDE DEF f0
  <2> QED BY <1>1, <2>1 DEF SumFunction, Paid
<1> HIDE DEF f0
<1> QED BY <1>8, <1>9

\* Levels give what they have until nothing is wanted, and nothing afterwards.
LEMMA WalkTakes ==
    ASSUME NEW levels \in Seq(Level), NEW n \in Nat, NEW f, IsWalk(f, levels, n)
    PROVE  /\ f[0] = n
           /\ \A i \in 0..Len(levels) : f[i] \in 0..n
           /\ \A i \in 1..Len(levels) :
                /\ i - 1 \in 0..Len(levels)
                /\ f[i - 1] - f[i] \in 0..levels[i].size
                /\ f[i] > 0 => f[i - 1] - f[i] = levels[i].size /\ f[i - 1] > 0
                /\ f[i - 1] = 0 => f[i] = 0
<1> DEFINE m == Len(levels)
<1>1. m \in Nat /\ \A i \in 1..m : levels[i].size \in Nat
  BY RowsFinite
<1>2. f[0] = n BY <1>1, WalkStep
<1>3. \A i \in 1..m : f[i] = IF f[i - 1] <= levels[i].size THEN 0 ELSE f[i - 1] - levels[i].size
  BY <1>1, WalkStep
<1> HIDE DEF m
<1>4. \A i \in 0..m : f[i] \in 0..n
  <2> DEFINE T == {i \in 0..m : f[i] \in 0..n}
  <2>1. 0 \in T BY <1>1, <1>2
  <2>2. ASSUME NEW i \in 1..m, i - 1 \in T PROVE i \in T
    BY <1>1, <1>3, <2>2
  <2>3. \A i \in 0..m : i \in T
    <3> HIDE DEF T
    <3> QED BY <1>1, <2>1, <2>2, Climb
  <2> QED BY <2>3
<1>5. ASSUME NEW i \in 1..m
      PROVE  /\ i - 1 \in 0..m
             /\ f[i - 1] - f[i] \in 0..levels[i].size
             /\ f[i] > 0 => f[i - 1] - f[i] = levels[i].size /\ f[i - 1] > 0
             /\ f[i - 1] = 0 => f[i] = 0
  <2>1. i - 1 \in 0..m /\ i \in 0..m BY <1>1
  <2>2. f[i - 1] \in Nat /\ f[i] \in Nat /\ levels[i].size \in Nat
    BY <1>1, <1>4, <2>1
  <2>3. f[i] = IF f[i - 1] <= levels[i].size THEN 0 ELSE f[i - 1] - levels[i].size BY <1>3
  <2> QED BY <2>1, <2>2, <2>3, SMTT(30)
<1> QED BY <1>2, <1>4, <1>5 DEF m

\* Together they give what is no longer wanted.
LEMMA WalkGives ==
    ASSUME NEW levels \in Seq(Level), NEW n \in Nat, NEW f, IsWalk(f, levels, n)
    PROVE  SumFunctionOnSet(Given(f, levels), 1..Len(levels)) = n - f[Len(levels)]
<1> DEFINE m == Len(levels)
           t == Given(f, levels)
           T == {k \in 0..m : SumFunctionOnSet(t, 1..k) = n - f[k]}
<1>1. m \in Nat BY LenProperties
<1>2. f[0] = n /\ (\A i \in 0..m : f[i] \in Int) /\ \A i \in 1..m : t[i] = f[i - 1] - f[i] /\ t[i] \in Int
  BY WalkTakes DEF Given
<1> HIDE DEF t, m
<1>3. 0 \in T
  <2>1. 1..0 = {} OBVIOUS
  <2> QED BY <1>1, <1>2, <2>1, SumEmpty
<1>4. ASSUME NEW k \in 1..m, k - 1 \in T PROVE k \in T
  <2>1. IsFiniteSet(1..k) BY FS_Interval, 1 \in Int, k \in Int
  <2>2. k \in 1..k /\ (1..k) \ {k} = 1..(k - 1) BY <1>1
  <2>3. \A i \in 1..k : t[i] \in Int BY <1>2, <1>1
  <2>4. SumFunctionOnSet(t, 1..k) = t[k] + SumFunctionOnSet(t, 1..(k - 1))
    BY <2>1, <2>2, <2>3, SumTake
  <2>5. SumFunctionOnSet(t, 1..(k - 1)) = n - f[k - 1] BY <1>4
  <2>6. k - 1 \in 0..m /\ k \in 0..m BY <1>1
  <2> QED BY <1>2, <2>4, <2>5, <2>6
<1>5. \A k \in 0..m : k \in T
  <2> HIDE DEF T
  <2> QED BY <1>1, <1>3, <1>4, Climb
<1>6. m \in 0..m BY <1>1
<1> QED BY <1>5, <1>6 DEF m, t

\* Once nothing is wanted nothing is wanted.
LEMMA WalkStops ==
    ASSUME NEW levels \in Seq(Level), NEW n \in Nat, NEW f, IsWalk(f, levels, n),
           NEW i \in 0..Len(levels), f[i] = 0
    PROVE  \A j \in i..Len(levels) : f[j] = 0
<1> DEFINE m == Len(levels)
           T == {j \in 0..m : j >= i => f[j] = 0}
<1>1. m \in Nat BY LenProperties
<1>2. \A j \in 1..m : f[j - 1] = 0 => f[j] = 0 BY WalkTakes
<1> HIDE DEF m
<1>3. i \in 0..m BY DEF m
<1>4. 0 \in T BY <1>1, <1>3
<1>5. ASSUME NEW j \in 1..m, j - 1 \in T PROVE j \in T
  BY <1>1, <1>2, <1>3, <1>5
<1>6. \A j \in 0..m : j \in T
  <2> HIDE DEF T
  <2> QED BY <1>1, <1>4, <1>5, Climb
<1> QED BY <1>1, <1>3, <1>6 DEF m

\* A walk takes all of every level above some price, nothing below it, and
\* everything there is when it falls short.
FromTheTop(f, levels) ==
    /\ \E cut \in Nat :
          \A i \in 1..Len(levels) :
              /\ levels[i].price > cut => f[i - 1] - f[i] = levels[i].size
              /\ levels[i].price < cut => f[i - 1] - f[i] = 0
    /\ f[Len(levels)] > 0 =>
          \A i \in 1..Len(levels) : f[i - 1] - f[i] = levels[i].size

\* Along falling prices there is a price above which everything is taken and
\* below which nothing is; a walk that wants more at the end has taken all.
LEMMA WalkThreshold ==
    ASSUME NEW levels \in Seq(Level), NEW n \in Nat \ {0}, NEW f, IsWalk(f, levels, n),
           \A i, j \in 1..Len(levels) : i < j => levels[j].price <= levels[i].price
    PROVE  FromTheTop(f, levels)
<1> SUFFICES /\ \E cut \in Nat :
                  \A i \in 1..Len(levels) :
                      /\ levels[i].price > cut => f[i - 1] - f[i] = levels[i].size
                      /\ levels[i].price < cut => f[i - 1] - f[i] = 0
             /\ f[Len(levels)] > 0 =>
                  \A i \in 1..Len(levels) : f[i - 1] - f[i] = levels[i].size
  BY DEF FromTheTop
<1> DEFINE m == Len(levels)
           full(i) == f[i - 1] - f[i] = levels[i].size
<1>1. m \in Nat /\ \A i \in 1..m : levels[i].size \in Nat /\ levels[i].price \in Nat
  BY RowsFinite
<1>2. /\ f[0] = n
      /\ \A i \in 0..m : f[i] \in Nat
      /\ \A i \in 1..m : f[i] > 0 => full(i)
  <2>1. f[0] = n /\ \A i \in 0..m : f[i] \in 0..n BY WalkTakes
  <2>2. \A i \in 1..m : f[i] > 0 => full(i) BY WalkTakes
  <2> QED BY <2>1, <2>2
<1>3. \A i \in 0..m : f[i] = 0 => \A j \in i..m : f[j] = 0
  BY WalkStops
<1>4. CASE f[m] > 0
  <2>1. ASSUME NEW i \in 1..m PROVE full(i)
    <3>1. i \in 0..m /\ m \in i..m BY <1>1
    <3>2. f[i] # 0 BY <1>3, <1>4, <3>1
    <3>3. f[i] > 0 BY <1>2, <3>1, <3>2
    <3> QED BY <1>2, <3>3
  <2>2. \A i \in 1..m : levels[i].price < 0 => f[i - 1] - f[i] = 0 BY <1>1
  <2> HIDE DEF full
  <2>3. 0 \in Nat OBVIOUS
  <2> QED BY <2>1, <2>2, <2>3 DEF full
<1>5. CASE ~(f[m] > 0)
  <2>1. f[m] = 0 BY <1>1, <1>2, <1>5
  <2> DEFINE T == {i \in 0..m : f[i] # 0}
  <2>2. PICK k \in 1..m : k - 1 \in T /\ k \notin T
    <3>1. 0 \in T BY <1>1, <1>2
    <3>2. m \in 0..m /\ m \notin T BY <1>1, <2>1
    <3> HIDE DEF T, m
    <3> QED BY <1>1, <3>1, <3>2, Climb
  <2>3. f[k - 1] # 0 /\ f[k] = 0 BY <2>2
  <2>4. ASSUME NEW i \in 1..m, i < k PROVE full(i)
    <3>1. i \in 0..m /\ k - 1 \in i..m BY <1>1, <2>4
    <3>2. f[i] # 0 BY <1>3, <2>3, <3>1
    <3> QED BY <1>2, <3>1, <3>2
  <2>5. ASSUME NEW i \in 1..m, i > k PROVE f[i - 1] - f[i] = 0
    <3>1. k \in 0..m /\ i - 1 \in k..m /\ i \in k..m BY <1>1, <2>5
    <3>2. f[i - 1] = 0 /\ f[i] = 0 BY <1>3, <2>3, <3>1
    <3> QED BY <3>2
  <2> DEFINE cut == levels[k].price
  <2>6. cut \in Nat BY <1>1
  <2>7. ASSUME NEW i \in 1..m, levels[i].price > cut PROVE i < k
    <3>1. \A j \in 1..m : j < i => levels[i].price <= levels[j].price OBVIOUS
    <3>2. ~(k < i) /\ k # i BY <1>1, <2>6, <2>7, <3>1
    <3> QED BY <3>2
  <2>8. ASSUME NEW i \in 1..m, levels[i].price < cut PROVE i > k
    <3>1. \A j \in 1..m : i < j => levels[j].price <= levels[i].price OBVIOUS
    <3>2. ~(i < k) /\ k # i BY <1>1, <2>6, <2>8, <3>1
    <3> QED BY <3>2
  <2> HIDE DEF cut
  <2> QED BY <1>5, <2>4, <2>5, <2>6, <2>7, <2>8
<1> QED BY <1>4, <1>5

-----------------------------------------------------------------------------
(* A market sale against every other way to sell as many shares.             *)

\* What each row gives when level i, which is row o[i], gives t[i].
ByRow(t, m, o, seq) ==
    [x \in DOMAIN seq |-> IF x \in Shown(seq) THEN t[CHOOSE i \in 1..m : o[i] = x] ELSE 0]

\* A gives row by row what the levels give, also when it is priced at c.
SameByRow(A, t, m, o, seq, c) ==
    /\ A \in [DOMAIN seq -> Nat]
    /\ \A i \in 1..m : A[o[i]] = t[i]
    /\ \A x \in DOMAIN seq \ Shown(seq) : A[x] = 0
    /\ SumFunctionOnSet([x \in DOMAIN seq |-> A[x] * c[x]], DOMAIN seq)
         = SumFunctionOnSet([i \in 1..m |-> t[i] * c[o[i]]], 1..m)

\* What the levels give, told row by row, has the same sums.
LEMMA RowSums ==
    ASSUME NEW seq \in Seq(Level), NEW m \in Nat, NEW o, Numbers(o, m, Shown(seq)),
           NEW t \in [1..m -> Nat], NEW c \in [DOMAIN seq -> Nat]
    PROVE  SameByRow(ByRow(t, m, o, seq), t, m, o, seq, c)
<1> DEFINE A == ByRow(t, m, o, seq)
           D == DOMAIN seq
           S == Shown(seq)
           R == 1..m
           at == [x \in S |-> CHOOSE i \in R : o[i] = x]
           F == [x \in D |-> A[x] * c[x]]
           G == [i \in R |-> t[i] * c[o[i]]]
<1>1. IsFiniteSet(D) /\ S \subseteq D /\ IsFiniteSet(R)
  <2>1. IsFiniteSet(R) BY FS_Interval, 1 \in Int, m \in Int, Zenon
  <2> QED BY <2>1, RowsFinite
<1>2. /\ \A i \in R : o[i] \in S
      /\ \A i, j \in R : o[i] = o[j] => i = j
      /\ \A x \in S : \E i \in R : o[i] = x
  BY DEF Numbers
<1>3. \A x \in S : at[x] \in R /\ o[at[x]] = x
  BY <1>2
<1>4. \A i \in R : at[o[i]] = i
  <2> HIDE DEF at, R, S
  <2> QED BY <1>2, <1>3
<1>5. \A x \in D : A[x] = IF x \in S THEN t[at[x]] ELSE 0
  BY DEF ByRow
<1>6. DOMAIN A = D /\ A = [x \in D |-> A[x]]
  BY DEF ByRow
<1> HIDE DEF A, at
<1>7. \A x \in D : A[x] \in Nat
  BY <1>3, <1>5, SMTT(30)
<1>8. A \in [D -> Nat]
  BY <1>6, <1>7
<1>9. \A i \in R : A[o[i]] = t[i]
  BY <1>1, <1>2, <1>4, <1>5
<1>10. \A x \in D \ S : A[x] = 0
  BY <1>5
<1>11. \A x \in D : F[x] = A[x] * c[x] /\ F[x] \in Int
  BY <1>7
<1>12. \A x \in D \ S : F[x] = 0
  BY <1>10, <1>11
<1>13. \A i \in R : G[i] = F[o[i]]
  <2>1. \A i \in R : o[i] \in D BY <1>1, <1>2
  <2> HIDE DEF F
  <2> QED BY <1>9, <1>11, <2>1
<1>14. SumFunctionOnSet(F, D) = SumFunctionOnSet(F, S)
  <2> HIDE DEF F, D, S
  <2> QED BY <1>1, <1>11, <1>12, SumSupport
<1>15. SumFunctionOnSet(G, R) = SumFunctionOnSet(F, S)
  <2>1. o \in Bijection(R, S) BY DEF Numbers
  <2>2. \A x \in S : F[x] \in Int BY <1>1, <1>11
  <2> HIDE DEF F, G, R, S
  <2> QED BY <1>1, <1>13, <2>1, <2>2, SumRenamed, SMTT(30)
<1> HIDE DEF F, G
<1> QED BY <1>8, <1>9, <1>10, <1>14, <1>15 DEF F, G, A, SameByRow

\* A takes from the rows what w sells of n shares, above the price cut all there
\* is and below it nothing.
BestSale(A, cut, seq, n, w) ==
    /\ A \in [DOMAIN seq -> Nat] /\ cut \in Nat
    /\ \A x \in DOMAIN seq : A[x] <= seq[x].size
    /\ \A x \in DOMAIN seq : /\ seq[x].price > cut => A[x] = seq[x].size
                             /\ seq[x].price < cut => A[x] = 0
    /\ w.shares \in 0..n
    /\ w.shares < n => \A x \in DOMAIN seq : A[x] = seq[x].size
    /\ SumFunctionOnSet(A, DOMAIN seq) = w.shares
    /\ SumFunctionOnSet([x \in DOMAIN seq |-> A[x] * seq[x].price], DOMAIN seq) = w.notional

\* A market sale is such an allocation.
LEMMA SaleAllocation ==
    ASSUME NEW seq \in Seq(Level), NEW n \in Nat \ {0}
    PROVE  \E A, cut : BestSale(A, cut, seq, n, Walk(Bids(seq), n))
<1> DEFINE b == Bids(seq)
           m == Len(b)
           D == DOMAIN seq
           S == Shown(seq)
<1>1. PICK o : Ordered(b, o, seq, -1)
  <2>1. \E o : Ordered(ByPrice(seq, -1), o, seq, -1) BY ByPriceOrdered, -1 \in {-1, 1}
  <2> QED BY <2>1 DEF Bids
<1> HIDE DEF b
<1>2. /\ b \in Seq(Level) /\ m \in Nat
      /\ Numbers(o, m, S)
      /\ \A i \in 1..m : b[i] = seq[o[i]]
      /\ \A i, j \in 1..m : i < j => -1 * b[i].price <= -1 * b[j].price
  BY <1>1, RowsFinite DEF Ordered
<1>3. PICK f : /\ IsWalk(f, b, n)
               /\ Walk(b, n) = [shares   |-> n - f[m],
                                notional |-> SumFunctionOnSet(Paid(f, b), 1..m)]
  BY <1>2, WalkDefined
<1> DEFINE t == Given(f, b)
           w == Walk(b, n)
<1>4. /\ f[m] \in 0..n
      /\ \A i \in 1..m : t[i] = f[i - 1] - f[i] /\ t[i] \in 0..b[i].size
  <2>1. m \in 0..m BY <1>2
  <2>2. \A i \in 0..m : f[i] \in 0..n BY <1>2, <1>3, WalkTakes
  <2>3. \A i \in 1..m : f[i - 1] - f[i] \in 0..b[i].size BY <1>2, <1>3, WalkTakes
  <2>4. \A i \in 1..m : t[i] = f[i - 1] - f[i] BY DEF Given
  <2> QED BY <2>1, <2>2, <2>3, <2>4
<1>5. SumFunctionOnSet(t, 1..m) = w.shares /\ w.shares = n - f[m] /\ w.notional = SumFunctionOnSet(Paid(f, b), 1..m)
  BY <1>2, <1>3, WalkGives
<1>6. /\ \E cut \in Nat : \A i \in 1..m : /\ b[i].price > cut => t[i] = b[i].size
                                          /\ b[i].price < cut => t[i] = 0
      /\ f[m] > 0 => \A i \in 1..m : t[i] = b[i].size
  <2>1. \A i \in 1..m : b[i].price \in Nat BY <1>2, RowsFinite
  <2>2. \A i, j \in 1..m : i < j => b[j].price <= b[i].price BY <1>2, <2>1
  <2>3. /\ \E cut \in Nat : \A i \in 1..m : /\ b[i].price > cut => f[i - 1] - f[i] = b[i].size
                                            /\ b[i].price < cut => f[i - 1] - f[i] = 0
        /\ f[m] > 0 => \A i \in 1..m : f[i - 1] - f[i] = b[i].size
    <3>1. FromTheTop(f, b) BY <1>2, <1>3, <2>2, WalkThreshold
    <3> QED BY <3>1 DEF FromTheTop
  <2> HIDE DEF t
  <2> QED BY <1>4, <2>3
<1>7. PICK cut \in Nat : \A i \in 1..m : /\ b[i].price > cut => t[i] = b[i].size
                                         /\ b[i].price < cut => t[i] = 0
  BY <1>6
<1> HIDE DEF t
<1> DEFINE A == ByRow(t, m, o, seq)
           one == [x \in D |-> 1]
           p == [x \in D |-> seq[x].price]
<1>8. \A x \in D : seq[x].price \in Nat /\ seq[x].size \in Nat BY RowsFinite
<1>9. t \in [1..m -> Nat]
  <2>1. \A i \in 1..m : b[i].size \in Nat BY <1>2, RowsFinite
  <2>2. \A i \in 1..m : f[i - 1] - f[i] \in Nat BY <1>4, <2>1, SMTT(30)
  <2> QED BY <2>2 DEF Given, t
<1>10. SameByRow(A, t, m, o, seq, one) /\ SameByRow(A, t, m, o, seq, p)
  <2>1. one \in [D -> Nat] /\ p \in [D -> Nat] BY <1>8
  <2> HIDE DEF m, one, p
  <2> QED BY <1>2, <1>9, <2>1, RowSums
<1> HIDE DEF A
<1>11. /\ A \in [D -> Nat]
       /\ \A i \in 1..m : A[o[i]] = t[i]
       /\ \A x \in D \ S : A[x] = 0
       /\ SumFunctionOnSet([x \in D |-> A[x] * one[x]], D)
            = SumFunctionOnSet([i \in 1..m |-> t[i] * one[o[i]]], 1..m)
       /\ SumFunctionOnSet([x \in D |-> A[x] * p[x]], D)
            = SumFunctionOnSet([i \in 1..m |-> t[i] * p[o[i]]], 1..m)
  <2> HIDE DEF one, p, m
  <2> QED BY <1>10 DEF SameByRow
<1>12. /\ \A i \in 1..m : o[i] \in D /\ o[i] \in S
       /\ \A x \in S : \E i \in 1..m : o[i] = x
  BY <1>2, RowsFinite DEF Numbers
<1>13. SumFunctionOnSet(A, D) = w.shares
  <2> DEFINE a1 == [x \in D |-> A[x] * one[x]]
             t1 == [i \in 1..m |-> t[i] * one[o[i]]]
  <2>1. \A x \in D : a1[x] = A[x] BY <1>11
  <2>2. \A i \in 1..m : t1[i] = t[i] BY <1>9, <1>12
  <2>3. IsFiniteSet(D) BY RowsFinite
  <2>4. IsFiniteSet(1..m) BY <1>2, RowsFinite
  <2>5. SumFunctionOnSet(a1, D) = SumFunctionOnSet(t1, 1..m) BY <1>11
  <2> HIDE DEF a1, t1, D
  <2>6. SumFunctionOnSet(a1, D) = SumFunctionOnSet(A, D) BY <2>1, <2>3, SumSame
  <2>7. SumFunctionOnSet(t1, 1..m) = SumFunctionOnSet(t, 1..m)
    <3> DEFINE R == 1..m
    <3>1. IsFiniteSet(R) /\ \A i \in R : t1[i] = t[i] BY <2>2, <2>4
    <3> HIDE DEF R
    <3>2. SumFunctionOnSet(t1, R) = SumFunctionOnSet(t, R) BY <3>1, SumSame
    <3> QED BY <3>2 DEF R
  <2> QED BY <1>5, <2>5, <2>6, <2>7
<1>14. SumFunctionOnSet([x \in D |-> A[x] * seq[x].price], D) = w.notional
  <2>1. [x \in D |-> A[x] * seq[x].price] = [x \in D |-> A[x] * p[x]] OBVIOUS
  <2>2. [i \in 1..m |-> t[i] * p[o[i]]] = Paid(f, b)
    <3>1. \A i \in 1..m : p[o[i]] = b[i].price BY <1>2, <1>12
    <3> HIDE DEF p
    <3> QED BY <1>4, <3>1 DEF Paid
  <2> QED BY <1>5, <1>11, <2>1, <2>2
<1>15. ASSUME NEW x \in D
       PROVE  /\ A[x] <= seq[x].size
              /\ seq[x].price > cut => A[x] = seq[x].size
              /\ seq[x].price < cut => A[x] = 0
              /\ f[m] > 0 => A[x] = seq[x].size
  <2>1. CASE x \in S
    <3>1. PICK i \in 1..m : o[i] = x BY <1>12, <2>1
    <3>2. A[x] = t[i] /\ b[i] = seq[x] /\ t[i] \in 0..b[i].size BY <1>2, <1>4, <1>11, <3>1
    <3>3. /\ b[i].price > cut => t[i] = b[i].size
          /\ b[i].price < cut => t[i] = 0
          /\ f[m] > 0 => t[i] = b[i].size
      BY <1>6, <1>7
    <3>4. seq[x].size \in Nat BY <1>8
    <3> QED BY <3>2, <3>3, <3>4
  <2>2. CASE x \notin S
    <3>1. A[x] = 0 /\ ~(seq[x].size > 0) BY <1>11, <2>2 DEF Shown
    <3>2. seq[x].size = 0 BY <1>8, <3>1
    <3> QED BY <3>1, <3>2
  <2> QED BY <2>1, <2>2
<1> HIDE DEF w
<1>16. w.shares \in 0..n /\ (w.shares < n => f[m] > 0)
  BY <1>4, <1>5
<1>17. BestSale(A, cut, seq, n, w)
  BY <1>11, <1>13, <1>14, <1>15, <1>16 DEF BestSale
<1> QED BY <1>17 DEF w, b

\* Products of naturals rise with their factors.
LEMMA ProductRises ==
    ASSUME NEW u \in Int, NEW v \in Int, u <= v, NEW d \in Nat
    PROVE  u * d \in Int /\ v * d \in Int /\ u * d <= v * d
<1>1. (v - u) * d >= 0
  <2> DEFINE k == v - u
  <2>1. k \in Nat OBVIOUS
  <2> HIDE DEF k
  <2>2. k * d \in Nat BY <2>1
  <2> QED BY <2>2 DEF k
<1>2. (v - u) * d = v * d - u * d OBVIOUS
<1> DEFINE ud == u * d
           vd == v * d
<1>3. ud \in Int /\ vd \in Int OBVIOUS
<1> HIDE DEF ud, vd
<1>4. vd - ud >= 0 BY <1>1, <1>2 DEF ud, vd
<1> QED BY <1>3, <1>4 DEF ud, vd

\* The same in a form that can be looked up.
BelowTimes(u, v, d) == u * d \in Int /\ v * d \in Int /\ u * d <= v * d

\* A factor that is not negative keeps the order.
LEMMA ProductBelow ==
    ASSUME NEW u \in Int, NEW v \in Int, u <= v, NEW d \in Nat
    PROVE  BelowTimes(u, v, d)
BY ProductRises DEF BelowTimes

\* Above the price cut a row gains by what it gives more, below it by what it
\* gives less.
LEMMA RowGains ==
    ASSUME NEW a \in Nat, NEW b \in Nat, NEW s \in Nat, NEW p \in Nat, NEW cut \in Nat,
           a <= s, p > cut => b = s, p < cut => b = 0
    PROVE  a * p - cut * a <= b * p - cut * b
<1>1. CASE p = cut
  <2>1. a * p - cut * a = 0 /\ b * p - cut * b = 0 BY <1>1
  <2> QED BY <2>1
<1>2. CASE p > cut
  <2> DEFINE d == p - cut
  <2>1. d \in Nat BY <1>2
  <2>2. a * p - cut * a = a * d /\ b * p - cut * b = b * d OBVIOUS
  <2>3. a <= b BY <1>2
  <2> HIDE DEF d
  <2>4. a * d <= b * d BY <2>1, <2>3, ProductRises
  <2> QED BY <2>2, <2>4
<1>3. CASE p < cut
  <2> DEFINE d == cut - p
  <2>1. d \in Nat BY <1>3
  <2>2. a * p - cut * a = -(a * d) OBVIOUS
  <2>3. b = 0 /\ b * p - cut * b = 0 BY <1>3
  <2> HIDE DEF d
  <2>4. a * d \in Nat BY <2>1
  <2> QED BY <2>2, <2>3, <2>4
<1> QED BY <1>1, <1>2, <1>3

\* No other allocation of as many shares brings more, and when the sale falls
\* short there is no larger one.
LEMMA SaleIsBest ==
    ASSUME NEW seq \in Seq(Level), NEW n \in Nat, NEW A, NEW cut, NEW w,
           BestSale(A, cut, seq, n, w),
           NEW a \in [DOMAIN seq -> Nat], \A x \in DOMAIN seq : a[x] <= seq[x].size
    PROVE  /\ SumFunctionOnSet(a, DOMAIN seq) = w.shares =>
                SumFunctionOnSet([x \in DOMAIN seq |-> a[x] * seq[x].price], DOMAIN seq) <= w.notional
           /\ w.shares < n => SumFunctionOnSet(a, DOMAIN seq) <= w.shares
<1> DEFINE D == DOMAIN seq
           ap == [x \in D |-> a[x] * seq[x].price]
           Ap == [x \in D |-> A[x] * seq[x].price]
           ha == [x \in D |-> ap[x] - cut * a[x]]
           hA == [x \in D |-> Ap[x] - cut * A[x]]
<1>1. /\ A \in [D -> Nat] /\ cut \in Nat
      /\ \A x \in D : A[x] <= seq[x].size
      /\ \A x \in D : /\ seq[x].price > cut => A[x] = seq[x].size
                      /\ seq[x].price < cut => A[x] = 0
      /\ w.shares < n => \A x \in D : A[x] = seq[x].size
      /\ SumFunctionOnSet(A, D) = w.shares /\ SumFunctionOnSet(Ap, D) = w.notional
  BY DEF BestSale
<1>2. IsFiniteSet(D) /\ \A x \in D : seq[x].price \in Nat /\ seq[x].size \in Nat
  BY RowsFinite
<1>3. \A x \in D : /\ a[x] \in Int /\ A[x] \in Int /\ ap[x] \in Int /\ Ap[x] \in Int
                   /\ ha[x] = ap[x] - cut * a[x] /\ hA[x] = Ap[x] - cut * A[x]
                   /\ ha[x] \in Int /\ hA[x] \in Int
  BY <1>1, <1>2, SMTT(30)
<1>4. \A x \in D : ha[x] <= hA[x]
  <2> SUFFICES ASSUME NEW x \in D PROVE ha[x] <= hA[x]
    OBVIOUS
  <2>1. /\ a[x] \in Nat /\ A[x] \in Nat /\ a[x] <= seq[x].size
        /\ seq[x].price \in Nat /\ seq[x].size \in Nat
    BY <1>1, <1>2
  <2>2. a[x] * seq[x].price - cut * a[x] <= A[x] * seq[x].price - cut * A[x]
    BY <1>1, <2>1, RowGains
  <2> QED BY <2>2
<1> HIDE DEF ha, hA, ap, Ap, D
<1>5. SumFunctionOnSet(ha, D) = SumFunctionOnSet(ap, D) - cut * SumFunctionOnSet(a, D)
  <2>1. Combines(ha, ap, cut, a, D) BY <1>3 DEF Combines
  <2>2. cut \in Int BY <1>1
  <2> QED BY <1>2, <2>1, <2>2, SumLinear
<1>6. SumFunctionOnSet(hA, D) = SumFunctionOnSet(Ap, D) - cut * SumFunctionOnSet(A, D)
  <2>1. Combines(hA, Ap, cut, A, D) BY <1>3 DEF Combines
  <2>2. cut \in Int BY <1>1
  <2> QED BY <1>2, <2>1, <2>2, SumLinear
<1>7. SumFunctionOnSet(ha, D) <= SumFunctionOnSet(hA, D)
  BY <1>2, <1>3, <1>4, SumAtMost
<1>8. SumFunctionOnSet(ap, D) \in Int /\ SumFunctionOnSet(Ap, D) \in Int /\ SumFunctionOnSet(A, D) \in Int
  BY <1>2, <1>3, SumInt
<1>9. SumFunctionOnSet(a, D) = w.shares => SumFunctionOnSet(ap, D) <= w.notional
  <2> SUFFICES ASSUME SumFunctionOnSet(a, D) = w.shares PROVE SumFunctionOnSet(ap, D) <= w.notional
    OBVIOUS
  <2> DEFINE c == cut * SumFunctionOnSet(A, D)
  <2>1. c \in Int BY <1>1, <1>8
  <2>2. SumFunctionOnSet(ha, D) = SumFunctionOnSet(ap, D) - c BY <1>1, <1>5
  <2>3. SumFunctionOnSet(hA, D) = SumFunctionOnSet(Ap, D) - c BY <1>6
  <2> HIDE DEF c
  <2> QED BY <1>1, <1>7, <1>8, <2>1, <2>2, <2>3
<1>10. w.shares < n => SumFunctionOnSet(a, D) <= w.shares
  <2> SUFFICES ASSUME w.shares < n PROVE SumFunctionOnSet(a, D) <= SumFunctionOnSet(A, D)
    BY <1>1
  <2>1. \A x \in D : a[x] \in Int /\ A[x] \in Int /\ a[x] <= A[x] BY <1>1, <1>3 DEF D
  <2> QED BY <1>2, <2>1, SumAtMost
<1> QED BY <1>9, <1>10 DEF D, ap

-----------------------------------------------------------------------------
(* What a request leaves is what its simulation returned.                    *)

\* The rows stay those of a book, and a fill is the simulation of its request.
BookInv ==
    /\ rows \in Seq(Level)
    /\ fill = NoFill
       \/ (\E n \in 1..MaxShares :
              fill = [kind |-> "sell", asked |-> n, got |-> SimulateMarketSell(rows, n)])
       \/ (\E usd \in 1..MaxUsd :
              fill = [kind |-> "buy", asked |-> usd, got |-> SimulateMarketBuy(rows, usd)])
       \/ (\E price \in 1..(One - 1), n \in 1..MaxShares :
              fill = [kind |-> "limit", asked |-> n, price |-> price,
                      got |-> LimitSellFilled(rows, price, n)])

\* A fill is made once, from the rows that stay.
LEMMA FillsOnce == Spec => []BookInv
<1>1. Init => BookInv
  <2> SUFFICES ASSUME Init PROVE BookInv
    OBVIOUS
  <2>1. rows \in BoundedSeq(Levels, MaxRows) /\ fill = NoFill BY DEF Init
  <2>2. PICK m \in 0..MaxRows : rows \in [1..m -> Levels]
    BY <2>1 DEF BoundedSeq, SeqOf
  <2>3. Levels \subseteq Level /\ m \in Nat BY BookAssumption
  <2>4. rows \in [1..m -> Level] BY <2>2, <2>3
  <2>5. rows \in Seq(Level) BY <2>3, <2>4, SeqDef
  <2> QED BY <2>1, <2>5 DEF BookInv
<1>2. BookInv /\ [Next]_vars => BookInv'
  <2> SUFFICES ASSUME BookInv, [Next]_vars PROVE BookInv'
    OBVIOUS
  <2>1. ASSUME NEW n \in 1..MaxShares, MarketSell(n) PROVE BookInv'
    BY <2>1, Zenon DEF MarketSell, BookInv
  <2>2. ASSUME NEW usd \in 1..MaxUsd, MarketBuy(usd) PROVE BookInv'
    BY <2>2, Zenon DEF MarketBuy, BookInv
  <2>3. ASSUME NEW price \in 1..(One - 1), NEW n \in 1..MaxShares, LimitSell(price, n)
        PROVE  BookInv'
    BY <2>3, Zenon DEF LimitSell, BookInv
  <2>4. CASE UNCHANGED vars
    BY <2>4, Zenon DEF vars, BookInv
  <2> QED BY <2>1, <2>2, <2>3, <2>4 DEF Next
<1> QED BY <1>1, <1>2, PTL DEF Spec

\* What a fill of a kind is.
LEMMA FillOfKind ==
    ASSUME BookInv
    PROVE  /\ fill.kind = "sell" =>
                \E n \in 1..MaxShares : fill.asked = n /\ fill.got = SimulateMarketSell(rows, n)
           /\ fill.kind = "buy" =>
                \E usd \in 1..MaxUsd : fill.asked = usd /\ fill.got = SimulateMarketBuy(rows, usd)
           /\ fill.kind = "limit" =>
                \E price \in 1..(One - 1), n \in 1..MaxShares :
                    /\ fill.asked = n /\ fill.price = price
                    /\ fill.got = LimitSellFilled(rows, price, n)
<1> DEFINE sell(n) == [kind |-> "sell", asked |-> n, got |-> SimulateMarketSell(rows, n)]
           buy(u) == [kind |-> "buy", asked |-> u, got |-> SimulateMarketBuy(rows, u)]
           limit(p, n) == [kind |-> "limit", asked |-> n, price |-> p,
                           got |-> LimitSellFilled(rows, p, n)]
<1>1. \/ fill = NoFill
      \/ \E n \in 1..MaxShares : fill = sell(n)
      \/ \E usd \in 1..MaxUsd : fill = buy(usd)
      \/ \E price \in 1..(One - 1), n \in 1..MaxShares : fill = limit(price, n)
  BY DEF BookInv
<1>2. CASE fill = NoFill
  <2>1. fill.kind = "none" BY <1>2 DEF NoFill
  <2> QED BY <2>1
<1>3. ASSUME NEW n \in 1..MaxShares, fill = sell(n)
      PROVE  fill.kind = "sell" /\ fill.asked = n /\ fill.got = SimulateMarketSell(rows, n)
  BY <1>3
<1>4. ASSUME NEW u \in 1..MaxUsd, fill = buy(u)
      PROVE  fill.kind = "buy" /\ fill.asked = u /\ fill.got = SimulateMarketBuy(rows, u)
  BY <1>4
<1>5. ASSUME NEW p \in 1..(One - 1), NEW n \in 1..MaxShares, fill = limit(p, n)
      PROVE  /\ fill.kind = "limit" /\ fill.asked = n /\ fill.price = p
             /\ fill.got = LimitSellFilled(rows, p, n)
  BY <1>5
<1> HIDE DEF sell, buy, limit
<1> QED BY <1>1, <1>2, <1>3, <1>4, <1>5

\* A market sale fills as much as the book shows and brings what the best
\* allocation of these shares to its rows would, for a book of any rows in any
\* order (walk, simulateMarketSell).
THEOREM BestPrices == Spec => []SellTakesBestPrices
<1>1. BookInv => SellTakesBestPrices
  <2> SUFFICES ASSUME BookInv, fill.kind = "sell"
               PROVE  LET got   == fill.got.shares
                          gains == {Gain(a) : a \in Allocations(got)}
                      IN  /\ fill.got.notional \in gains
                          /\ \A g \in gains : g <= fill.got.notional
                          /\ got < fill.asked => Allocations(got + 1) = {}
    BY DEF SellTakesBestPrices
  <2> DEFINE D == DOMAIN rows
             got == fill.got.shares
             gain == fill.got.notional
  <2>1. rows \in Seq(Level) BY DEF BookInv
  <2>2. PICK n \in 1..MaxShares : fill.asked = n /\ fill.got = SimulateMarketSell(rows, n)
    BY FillOfKind
  <2> DEFINE w == Walk(Bids(rows), n)
  <2>3. got = w.shares /\ gain = w.notional
    BY <2>2 DEF SimulateMarketSell
  <2>4. n \in Nat \ {0} OBVIOUS
  <2>5. PICK A, cut : BestSale(A, cut, rows, n, w)
    BY <2>1, <2>4, SaleAllocation
  <2> HIDE DEF w
  <2>6. /\ A \in [D -> Nat] /\ got \in Nat
        /\ \A x \in D : A[x] <= rows[x].size
        /\ SumFunctionOnSet(A, D) = got
        /\ SumFunctionOnSet([x \in D |-> A[x] * rows[x].price], D) = gain
    BY <2>3, <2>5 DEF BestSale
  <2>7. IsFiniteSet(D) /\ \A x \in D : rows[x].price \in Nat /\ rows[x].size \in Nat
    BY <2>1, RowsFinite
  <2> HIDE DEF got, gain
  <2>8. \A a : Gain(a) = SumFunctionOnSet([x \in D |-> a[x] * rows[x].price], D)
    BY DEF Gain, SumFunction
  <2>9. ASSUME NEW k \in Nat, NEW a \in Allocations(k)
        PROVE  /\ a \in [D -> Nat] /\ \A x \in D : a[x] <= rows[x].size
               /\ SumFunctionOnSet(a, D) = k
    <3>1. a \in [D -> 0..k] /\ (\A x \in D : a[x] <= rows[x].size) /\ SumFunction(a) = k
      BY DEF Allocations
    <3>2. a \in [D -> Nat] /\ DOMAIN a = D BY <3>1
    <3> QED BY <3>1, <3>2 DEF SumFunction
  <2>10. A \in Allocations(got)
    <3>1. \A x \in D : A[x] \in Nat /\ A[x] <= got
      <4>1. \A x \in D : A[x] \in Nat BY <2>6
      <4> QED BY <2>6, <2>7, <4>1, SumMember
    <3>2. A \in [D -> 0..got] BY <2>6, <3>1
    <3>3. SumFunction(A) = got BY <2>6 DEF SumFunction
    <3> QED BY <2>6, <3>2, <3>3 DEF Allocations
  <2>11. Gain(A) = gain BY <2>6, <2>8
  <2>12. ASSUME NEW a \in Allocations(got) PROVE Gain(a) <= gain
    <3>1. a \in [D -> Nat] /\ (\A x \in D : a[x] <= rows[x].size) /\ SumFunctionOnSet(a, D) = got
      BY <2>6, <2>9
    <3>2. SumFunctionOnSet([x \in D |-> a[x] * rows[x].price], D) <= gain
      BY <2>1, <2>3, <2>4, <2>5, <3>1, SaleIsBest
    <3> QED BY <2>8, <3>2
  <2>13. ASSUME got < n, NEW a \in Allocations(got + 1) PROVE FALSE
    <3>1. got + 1 \in Nat BY <2>6
    <3>2. a \in [D -> Nat] /\ (\A x \in D : a[x] <= rows[x].size) /\ SumFunctionOnSet(a, D) = got + 1
      BY <2>9, <3>1
    <3>3. SumFunctionOnSet(a, D) <= got
      BY <2>1, <2>3, <2>4, <2>5, <2>13, <3>2, SaleIsBest
    <3> QED BY <2>6, <3>2, <3>3
  <2>14. gain \in {Gain(a) : a \in Allocations(got)} BY <2>10, <2>11
  <2>15. \A g \in {Gain(a) : a \in Allocations(got)} : g <= gain BY <2>12
  <2>16. got < fill.asked => Allocations(got + 1) = {} BY <2>2, <2>13
  <2> QED BY <2>14, <2>15, <2>16 DEF got, gain
<1> QED BY <1>1, FillsOnce, PTL

-----------------------------------------------------------------------------
(* A resting limit.                                                          *)

\* The levels of b that pay the price, and what they show.
Paying(b, price) == {i \in 1..Len(b) : b[i].price >= price}
Sizes(b) == [i \in 1..Len(b) |-> b[i].size]
Visible(b, price) == SumFunctionOnSet(Sizes(b), Paying(b, price))

\* A walk that wants no more than these levels show is paid the price for all of it.
LEMMA WalkPays ==
    ASSUME NEW b \in Seq(Level), NEW g \in Nat, NEW price \in Nat,
           \A i, j \in 1..Len(b) : i < j => b[j].price <= b[i].price,
           g <= Visible(b, price)
    PROVE  g * price <= Walk(b, g).notional
<1> DEFINE m == Len(b)
           R == 1..m
           E == Paying(b, price)
<1>1. PICK f : /\ IsWalk(f, b, g)
               /\ Walk(b, g) = [shares   |-> g - f[m],
                                notional |-> SumFunctionOnSet(Paid(f, b), R)]
  BY WalkDefined
<1> DEFINE t == Given(f, b)
           p == Paid(f, b)
           s == Sizes(b)
           q == [i \in R |-> price * t[i]]
           tE == [i \in R |-> IF i \in E THEN t[i] ELSE 0]
           qE == [i \in R |-> price * tE[i]]
<1>2. /\ IsFiniteSet(R) /\ E \subseteq R /\ IsFiniteSet(E) /\ m \in Nat
      /\ \A i \in R : b[i].size \in Nat /\ b[i].price \in Nat
  <2>1. E \subseteq R BY DEF Paying
  <2>2. IsFiniteSet(R) BY RowsFinite
  <2> HIDE DEF E
  <2> QED BY <2>1, <2>2, FS_Subset, RowsFinite
<1>3. /\ \A i \in R : t[i] = f[i - 1] - f[i] /\ t[i] \in 0..b[i].size /\ t[i] \in Nat
      /\ f[m] \in Nat
  <2>1. \A i \in R : f[i - 1] - f[i] \in 0..b[i].size BY <1>1, WalkTakes
  <2>2. \A i \in R : t[i] = f[i - 1] - f[i] BY DEF Given
  <2>3. m \in 0..m BY <1>2
  <2>4. f[m] \in 0..g BY <1>1, <2>3, WalkTakes
  <2> QED BY <2>1, <2>2, <2>4, <1>2
<1>4. \A i \in R : p[i] = t[i] * b[i].price /\ p[i] \in Nat
  <2>1. \A i \in R : p[i] = (f[i - 1] - f[i]) * b[i].price BY DEF Paid
  <2> HIDE DEF p, t
  <2> QED BY <1>2, <1>3, <2>1
<1>5. SumFunctionOnSet(t, R) = g - f[m]
  BY <1>1, WalkGives
<1>6. Walk(b, g).notional = SumFunctionOnSet(p, R) /\ SumFunctionOnSet(p, R) \in Nat
  <2>1. Walk(b, g).notional = SumFunctionOnSet(p, R) BY <1>1
  <2> HIDE DEF p, R
  <2> QED BY <1>2, <1>4, <2>1, SumNat
<1>7. CASE g = 0
  <2>1. g * price = 0 BY <1>7
  <2> QED BY <1>6, <2>1
<1>8. CASE g # 0
  <2>1. g \in Nat \ {0} BY <1>8
  <2>2. /\ \E cut \in Nat : \A i \in R : /\ b[i].price > cut => f[i - 1] - f[i] = b[i].size
                                         /\ b[i].price < cut => f[i - 1] - f[i] = 0
        /\ f[m] > 0 => \A i \in R : f[i - 1] - f[i] = b[i].size
    <3>1. FromTheTop(f, b) BY <1>1, <2>1, WalkThreshold
    <3> QED BY <3>1 DEF FromTheTop
  <2>3. PICK cut \in Nat : \A i \in R : /\ b[i].price > cut => t[i] = b[i].size
                                        /\ b[i].price < cut => t[i] = 0
    <3> HIDE DEF t
    <3> QED BY <2>2, <1>3
  <2>4. f[m] > 0 => \A i \in R : t[i] = b[i].size
    <3> HIDE DEF t
    <3> QED BY <2>2, <1>3
  <2>5. \A i \in R : s[i] = b[i].size BY DEF Sizes
  <2>6. \A i \in R : i \in E <=> b[i].price >= price BY DEF Paying
  <2>7. g <= SumFunctionOnSet(s, E) BY DEF Visible
  <2> HIDE DEF t, p, s, E, R
  <2>8. /\ SumFunctionOnSet(t, R) \in Nat /\ SumFunctionOnSet(t, E) \in Nat
        /\ SumFunctionOnSet(tE, R) = SumFunctionOnSet(t, E)
        /\ SumFunctionOnSet(t, E) <= SumFunctionOnSet(t, R)
    <3>1. \A i \in R : tE[i] = IF i \in E THEN t[i] ELSE 0 OBVIOUS
    <3> HIDE DEF tE
    <3>2. \A i \in R : t[i] \in Int /\ tE[i] \in Int /\ tE[i] <= t[i] BY <1>3, <3>1
    <3>3. SumFunctionOnSet(tE, R) <= SumFunctionOnSet(t, R) BY <1>2, <3>2, SumAtMost
    <3>4. \A i \in R \ E : tE[i] = 0 BY <3>1
    <3>5. SumFunctionOnSet(tE, R) = SumFunctionOnSet(tE, E) BY <1>2, <3>2, <3>4, SumSupport
    <3>6. \A i \in E : tE[i] = t[i] BY <1>2, <3>1
    <3>7. SumFunctionOnSet(tE, E) = SumFunctionOnSet(t, E) BY <1>2, <3>6, SumSame
    <3>8. \A i \in E : t[i] \in Nat BY <1>2, <1>3
    <3> QED BY <1>2, <1>3, <3>3, <3>5, <3>7, <3>8, SumNat
  <2>9. (\A i \in E : t[i] = b[i].size) => g <= SumFunctionOnSet(t, E)
    <3> SUFFICES ASSUME \A i \in E : t[i] = b[i].size PROVE g <= SumFunctionOnSet(t, E)
      OBVIOUS
    <3>1. \A i \in E : t[i] = s[i] BY <1>2, <2>5
    <3>2. SumFunctionOnSet(t, E) = SumFunctionOnSet(s, E) BY <1>2, <3>1, SumSame
    <3> QED BY <2>7, <3>2
  <2>10. CASE cut < price
    <3>1. \A i \in E : t[i] = b[i].size BY <1>2, <2>3, <2>6, <2>10
    <3>2. \A i \in R : tE[i] = (IF i \in E THEN t[i] ELSE 0) /\ qE[i] = price * tE[i] OBVIOUS
    <3> HIDE DEF tE, qE
    <3>3. \A i \in R : qE[i] \in Int /\ qE[i] <= p[i]
      <4> SUFFICES ASSUME NEW i \in R PROVE qE[i] \in Int /\ qE[i] <= p[i]
        OBVIOUS
      <4>1. CASE i \in E
        <5>1. price <= b[i].price /\ t[i] \in Nat /\ b[i].price \in Nat BY <1>2, <1>3, <2>6, <4>1
        <5>2. BelowTimes(price, b[i].price, t[i]) BY <5>1, ProductBelow
        <5>3. qE[i] = price * t[i] BY <3>2, <4>1
        <5>4. p[i] = b[i].price * t[i] BY <1>4, <5>1
        <5> QED BY <5>2, <5>3, <5>4 DEF BelowTimes
      <4>2. CASE i \notin E
        <5>1. qE[i] = 0 BY <3>2, <4>2
        <5> QED BY <1>4, <5>1
      <4> QED BY <4>1, <4>2
    <3>4. SumFunctionOnSet(qE, R) <= SumFunctionOnSet(p, R) BY <1>2, <1>4, <3>3, SumAtMost
    <3>5. SumFunctionOnSet(qE, R) = price * SumFunctionOnSet(tE, R)
      <4>1. \A i \in R : tE[i] \in Int BY <1>3, <3>2
      <4> QED BY <1>2, <3>2, <4>1, SumScaled
    <3>6. g <= SumFunctionOnSet(tE, R) /\ SumFunctionOnSet(tE, R) \in Int BY <2>8, <2>9, <3>1
    <3>7. g * price <= SumFunctionOnSet(tE, R) * price BY <3>6, ProductRises
    <3> DEFINE T == SumFunctionOnSet(tE, R)
               P == SumFunctionOnSet(p, R)
    <3>8. T \in Int /\ g * price <= T * price /\ price * T <= P
      BY <3>4, <3>5, <3>6, <3>7
    <3>9. P \in Nat /\ Walk(b, g).notional = P BY <1>6
    <3> HIDE DEF T, P
    <3>10. T * price = price * T BY <3>8
    <3> DEFINE u == g * price
               v == T * price
    <3>11. u \in Int /\ v \in Int /\ u <= v /\ v <= P BY <3>8, <3>10
    <3> HIDE DEF u, v
    <3>12. u <= P BY <3>9, <3>11
    <3> QED BY <3>9, <3>12 DEF u
  <2>11. CASE cut >= price
    <3>1. f[m] = 0
      <4> SUFFICES ASSUME f[m] > 0 PROVE FALSE BY <1>3
      <4>1. \A i \in E : t[i] = b[i].size BY <1>2, <2>4
      <4> QED BY <1>3, <1>5, <2>8, <2>9, <4>1
    <3>2. \A i \in R : q[i] = price * t[i] OBVIOUS
    <3> HIDE DEF q
    <3>3. \A i \in R : q[i] \in Int /\ q[i] <= p[i]
      <4> SUFFICES ASSUME NEW i \in R PROVE q[i] \in Int /\ q[i] <= p[i]
        OBVIOUS
      <4>1. t[i] \in Nat /\ b[i].price \in Nat BY <1>2, <1>3
      <4>2. CASE t[i] = 0
        <5>1. price * t[i] = 0 BY <4>2
        <5> QED BY <1>4, <3>2, <5>1
      <4>3. CASE t[i] # 0
        <5>1. price <= b[i].price BY <2>3, <2>11, <4>1, <4>3
        <5>2. BelowTimes(price, b[i].price, t[i]) BY <4>1, <5>1, ProductBelow
        <5>3. p[i] = b[i].price * t[i] BY <1>4, <4>1
        <5> QED BY <3>2, <5>2, <5>3 DEF BelowTimes
      <4> QED BY <4>2, <4>3
    <3>4. SumFunctionOnSet(q, R) <= SumFunctionOnSet(p, R) BY <1>2, <1>4, <3>3, SumAtMost
    <3>5. SumFunctionOnSet(q, R) = price * SumFunctionOnSet(t, R)
      BY <1>2, <1>3, <3>2, SumScaled
    <3>6. SumFunctionOnSet(t, R) = g BY <1>5, <3>1
    <3> QED BY <1>6, <3>4, <3>5, <3>6
  <2> QED BY <2>10, <2>11
<1> QED BY <1>7, <1>8

\* What a limit fills: as much as it asks for of what the paying levels show, and
\* something whenever there is such a level.
LEMMA LimitFills ==
    ASSUME NEW seq \in Seq(Level), NEW n \in Nat \ {0}, NEW price \in Nat
    PROVE  LET g == LimitSellFilled(seq, price, n)
           IN  /\ g \in 0..n /\ g <= Visible(Bids(seq), price)
               /\ (g = 0) = (\A x \in DOMAIN seq : seq[x].size = 0 \/ seq[x].price < price)
<1> DEFINE b == Bids(seq)
           m == Len(b)
           E == Paying(b, price)
           s == Sizes(b)
           V == SumFunctionOnSet(s, E)
           S == Shown(seq)
<1>1. PICK o : Ordered(b, o, seq, -1)
  <2>1. \E o : Ordered(ByPrice(seq, -1), o, seq, -1) BY ByPriceOrdered, -1 \in {-1, 1}
  <2> QED BY <2>1 DEF Bids
<1> HIDE DEF b
<1>2. /\ b \in Seq(Level) /\ m \in Nat /\ DOMAIN b = 1..m
      /\ Numbers(o, m, S)
      /\ \A i \in 1..m : b[i] = seq[o[i]] /\ b[i].size > 0 /\ b[i].size \in Nat /\ b[i].price \in Nat
  BY <1>1, RowsFinite DEF Ordered
<1>3. /\ E = {i \in DOMAIN b : b[i].price >= price} /\ E \subseteq 1..m /\ IsFiniteSet(E)
      /\ \A i \in 1..m : i \in E <=> b[i].price >= price
  <2>1. E = {i \in DOMAIN b : b[i].price >= price} /\ E \subseteq 1..m BY <1>2 DEF Paying
  <2>2. IsFiniteSet(DOMAIN b) BY <1>2, RowsFinite
  <2>3. \A i \in 1..m : i \in E <=> b[i].price >= price BY DEF Paying
  <2> HIDE DEF E
  <2>4. E \subseteq DOMAIN b BY <2>1
  <2> QED BY <2>1, <2>2, <2>3, <2>4, FS_Subset
<1>4. \A i \in E : s[i] = b[i].size /\ s[i] > 0 /\ s[i] \in Nat
  BY <1>2, <1>3 DEF Sizes
<1> HIDE DEF E, s
<1>5. SumFunction([i \in E |-> b[i].size]) = V
  <2> DEFINE r == [i \in E |-> b[i].size]
  <2>1. DOMAIN r = E /\ \A i \in E : r[i] = s[i] BY <1>4
  <2> HIDE DEF r
  <2>2. SumFunctionOnSet(r, E) = SumFunctionOnSet(s, E) BY <1>3, <2>1, SumSame
  <2> QED BY <2>1, <2>2 DEF SumFunction, r
<1>6. LimitSellFilled(seq, price, n) = IF n <= V THEN n ELSE V
  BY <1>3, <1>5 DEF LimitSellFilled, b
<1>7. V \in Nat
  <2>1. \A i \in E : s[i] \in Nat BY <1>4
  <2> QED BY <1>3, <2>1, SumNat
<1>8. V = 0 <=> E = {}
  <2>1. CASE E = {} BY <2>1, SumEmpty
  <2>2. ASSUME NEW i \in E PROVE V > 0
    <3>1. \A j \in E : s[j] \in Nat BY <1>4
    <3>2. s[i] <= V BY <1>3, <3>1, SumMember
    <3> HIDE DEF V
    <3> QED BY <1>4, <1>7, <3>2
  <2> HIDE DEF V
  <2> QED BY <1>7, <2>1, <2>2
<1>9. E = {} <=> \A x \in DOMAIN seq : seq[x].size = 0 \/ seq[x].price < price
  <2>1. \A x \in DOMAIN seq : seq[x].price \in Nat /\ seq[x].size \in Nat BY RowsFinite
  <2>2. \A i \in 1..m : o[i] \in S BY <1>2 DEF Numbers
  <2>3. \A x \in S : \E i \in 1..m : o[i] = x BY <1>2 DEF Numbers
  <2>4. \A x \in DOMAIN seq : x \in S <=> seq[x].size > 0 BY DEF Shown
  <2>5. S \subseteq DOMAIN seq BY DEF Shown
  <2> HIDE DEF S
  <2>6. ASSUME NEW x \in DOMAIN seq, ~(seq[x].size = 0 \/ seq[x].price < price) PROVE E # {}
    <3>1. seq[x].size > 0 /\ seq[x].price >= price BY <2>1, <2>6
    <3>2. x \in S BY <2>4, <3>1
    <3>3. PICK i \in 1..m : o[i] = x BY <2>3, <3>2
    <3>4. b[i].price >= price BY <1>2, <3>1, <3>3
    <3> QED BY <1>3, <3>4
  <2>7. ASSUME NEW i \in E
        PROVE  \E x \in DOMAIN seq : ~(seq[x].size = 0 \/ seq[x].price < price)
    <3>1. i \in 1..m /\ b[i].price >= price BY <1>3
    <3>2. o[i] \in DOMAIN seq /\ b[i] = seq[o[i]] /\ b[i].size > 0 BY <1>2, <2>2, <2>5, <3>1
    <3>3. seq[o[i]].price >= price /\ seq[o[i]].size > 0 BY <3>1, <3>2
    <3>4. ~(seq[o[i]].size = 0 \/ seq[o[i]].price < price) BY <2>1, <3>2, <3>3
    <3> QED BY <3>2, <3>4
  <2> QED BY <2>6, <2>7
<1> DEFINE g == LimitSellFilled(seq, price, n)
<1>10. V = Visible(b, price) BY DEF Visible, E, s
<1> HIDE DEF V
<1>11. g \in 0..n /\ g <= V /\ (g = 0 <=> V = 0) BY <1>6, <1>7
<1> HIDE DEF g
<1>12. (g = 0) = (\A x \in DOMAIN seq : seq[x].size = 0 \/ seq[x].price < price)
  BY <1>8, <1>9, <1>11
<1> QED BY <1>10, <1>11, <1>12 DEF g, b

\* A resting limit never does better than a market sale of the same shares, never
\* sells more than it has, and fills whenever a bid reaches it (limitSellFilled).
THEOREM LimitsAreConservative == Spec => []LimitFillIsConservative
<1>1. BookInv => LimitFillIsConservative
  <2> SUFFICES ASSUME BookInv, fill.kind = "limit"
               PROVE  /\ fill.got <= fill.asked
                      /\ fill.got * fill.price <= SimulateMarketSell(rows, fill.got).notional
                      /\ (fill.got = 0) = (\A i \in DOMAIN rows :
                                               rows[i].size = 0 \/ rows[i].price < fill.price)
    BY DEF LimitFillIsConservative
  <2>1. rows \in Seq(Level) BY DEF BookInv
  <2>2. PICK price \in 1..(One - 1), n \in 1..MaxShares :
           fill.asked = n /\ fill.price = price /\ fill.got = LimitSellFilled(rows, price, n)
    BY FillOfKind
  <2> DEFINE g == LimitSellFilled(rows, price, n)
             b == Bids(rows)
  <2>3. n \in Nat \ {0} /\ price \in Nat
    BY BookAssumption
  <2>4. /\ g \in 0..n /\ g <= Visible(b, price)
        /\ (g = 0) = (\A x \in DOMAIN rows : rows[x].size = 0 \/ rows[x].price < price)
    BY <2>1, <2>3, LimitFills
  <2>5. SimulateMarketSell(rows, g).notional = Walk(b, g).notional
    BY DEF SimulateMarketSell
  <2>6. b \in Seq(Level) /\ \A i, j \in 1..Len(b) : i < j => b[j].price <= b[i].price
    BY <2>1, BidsFall
  <2> HIDE DEF g, b
  <2>7. g \in Nat BY <2>3, <2>4
  <2>8. g * price <= Walk(b, g).notional
    BY <2>3, <2>4, <2>6, <2>7, WalkPays
  <2>9. fill.got = g BY <2>2 DEF g
  <2>10. fill.got <= fill.asked BY <2>2, <2>3, <2>4, <2>9
  <2>11. fill.got * fill.price <= SimulateMarketSell(rows, fill.got).notional
    BY <2>2, <2>5, <2>8, <2>9
  <2>12. (fill.got = 0) = (\A i \in DOMAIN rows : rows[i].size = 0 \/ rows[i].price < fill.price)
    BY <2>2, <2>4, <2>9
  <2> QED BY <2>10, <2>11, <2>12
<1> QED BY <1>1, FillsOnce, PTL

-----------------------------------------------------------------------------
(* Rationals over a common denominator.                                      *)

Rational == Int \X (Nat \ {0})

\* The rational a is u / d.
Over(a, d, u) == a[1] * d = u * a[2]

\* A positive factor can be cancelled.
LEMMA Cancel ==
    ASSUME NEW x \in Int, NEW y \in Int, NEW k \in Nat \ {0}
    PROVE  /\ x * k <= y * k <=> x <= y
           /\ x * k = y * k <=> x = y
<1>1. ASSUME NEW u \in Int, NEW v \in Int, u < v PROVE u * k < v * k
  <2> DEFINE e == v - u
  <2>1. e \in Nat \ {0} BY <1>1
  <2>2. v = u + e OBVIOUS
  <2> HIDE DEF e
  <2>3. e * k > 0
    <3>1. 1 * k <= e * k BY <2>1, ProductRises
    <3> QED BY <2>1, <3>1
  <2> DEFINE uk == u * k
             ek == e * k
  <2>4. v * k = uk + ek BY <2>1, <2>2
  <2>5. uk \in Int /\ ek \in Int BY <2>1
  <2>6. ek > 0 BY <2>3
  <2> HIDE DEF uk, ek
  <2>7. uk < uk + ek BY <2>5, <2>6
  <2> QED BY <2>4, <2>7 DEF uk
<1> DEFINE xk == x * k
           yk == y * k
<1>2. xk \in Int /\ yk \in Int OBVIOUS
<1>3. x < y => xk < yk BY <1>1
<1>4. y < x => yk < xk BY <1>1
<1>5. x = y => xk = yk OBVIOUS
<1> HIDE DEF xk, yk
<1>6. (xk <= yk <=> x <= y) /\ (xk = yk <=> x = y) BY <1>2, <1>3, <1>4, <1>5
<1> QED BY <1>6 DEF xk, yk

\* Sums, differences and products of rationals are rationals.
LEMMA RationalTyped ==
    ASSUME NEW a \in Rational, NEW b \in Rational
    PROVE  /\ a[1] \in Int /\ a[2] \in Nat \ {0}
           /\ Plus(a, b) \in Rational /\ Minus(a, b) \in Rational /\ Times(a, b) \in Rational
           /\ Least(a, b) \in Rational
<1>1. a[1] \in Int /\ a[2] \in Nat \ {0} /\ b[1] \in Int /\ b[2] \in Nat \ {0}
  BY DEF Rational
<1>2. a[2] * b[2] \in Nat \ {0}
  <2> DEFINE u == a[2]
             v == b[2]
  <2>1. u \in Nat \ {0} /\ v \in Nat \ {0} BY <1>1
  <2> HIDE DEF u, v
  <2>2. 1 * v <= u * v BY <2>1, ProductRises
  <2>3. u * v \in Nat BY <2>1
  <2> DEFINE w == u * v
  <2> HIDE DEF w
  <2>4. v <= w /\ w \in Nat BY <2>1, <2>2, <2>3 DEF w
  <2>5. w # 0 BY <2>1, <2>4
  <2> QED BY <2>4, <2>5 DEF u, v, w
<1>3. a[1] * b[2] + b[1] * a[2] \in Int /\ a[1] * b[2] - b[1] * a[2] \in Int /\ a[1] * b[1] \in Int
  BY <1>1
<1>4. Plus(a, b) \in Rational BY <1>2, <1>3 DEF Plus, Rational
<1>5. Minus(a, b) \in Rational BY <1>2, <1>3 DEF Minus, Rational
<1>6. Times(a, b) \in Rational BY <1>2, <1>3 DEF Times, Rational
<1>7. Least(a, b) \in Rational BY DEF Least
<1> QED BY <1>1, <1>4, <1>5, <1>6, <1>7

\* Any rational is over its own denominator.
LEMMA OverItself ==
    ASSUME NEW a \in Rational
    PROVE  a[1] \in Int /\ a[2] \in Nat \ {0} /\ Over(a, a[2], a[1])
BY DEF Rational, Over

\* Sums and differences over a common denominator.
LEMMA OverSum ==
    ASSUME NEW a \in Rational, NEW b \in Rational, NEW d \in Nat, NEW u \in Int, NEW v \in Int,
           Over(a, d, u), Over(b, d, v)
    PROVE  Over(Plus(a, b), d, u + v) /\ Over(Minus(a, b), d, u - v)
<1> DEFINE a1 == a[1]
           a2 == a[2]
           b1 == b[1]
           b2 == b[2]
<1>1. a1 \in Int /\ a2 \in Int /\ b1 \in Int /\ b2 \in Int /\ a1 * d = u * a2 /\ b1 * d = v * b2
  BY DEF Rational, Over
<1> HIDE DEF a1, a2, b1, b2
<1>2. (a1 * d) * b2 = (u * a2) * b2 /\ (b1 * d) * a2 = (v * b2) * a2
  BY <1>1
<1>3. (a1 * b2 + b1 * a2) * d = (u + v) * (a2 * b2)
  BY <1>1, <1>2
<1>4. (a1 * b2 - b1 * a2) * d = (u - v) * (a2 * b2)
  BY <1>1, <1>2
<1> QED BY <1>3, <1>4 DEF Over, Plus, Minus, a1, a2, b1, b2

\* Rationals over a common denominator are in the order of their numerators.
LEMMA OverOrder ==
    ASSUME NEW a \in Rational, NEW b \in Rational, NEW d \in Nat \ {0}, NEW u \in Int, NEW v \in Int,
           Over(a, d, u), Over(b, d, v)
    PROVE  /\ Leq(a, b) <=> u <= v
           /\ Over(Least(a, b), d, IF u <= v THEN u ELSE v)
<1> DEFINE a1 == a[1]
           a2 == a[2]
           b1 == b[1]
           b2 == b[2]
<1>1. /\ a1 \in Int /\ a2 \in Nat \ {0} /\ b1 \in Int /\ b2 \in Nat \ {0}
      /\ a1 * d = u * a2 /\ b1 * d = v * b2
  BY DEF Rational, Over
<1> HIDE DEF a1, a2, b1, b2
<1>2. (a1 * b2) * d = (u * b2) * a2 /\ (b1 * a2) * d = (v * b2) * a2
  <2>1. (a1 * d) * b2 = (u * a2) * b2 /\ (b1 * d) * a2 = (v * b2) * a2 BY <1>1
  <2> QED BY <1>1, <2>1
<1>3. a1 * b2 <= b1 * a2 <=> (a1 * b2) * d <= (b1 * a2) * d
  <2>1. a1 * b2 \in Int /\ b1 * a2 \in Int BY <1>1
  <2> QED BY <2>1, Cancel
<1>4. (u * b2) * a2 <= (v * b2) * a2 <=> u * b2 <= v * b2
  <2>1. u * b2 \in Int /\ v * b2 \in Int BY <1>1
  <2> QED BY <1>1, <2>1, Cancel
<1>5. u * b2 <= v * b2 <=> u <= v
  BY <1>1, Cancel
<1>6. a1 * b2 <= b1 * a2 <=> u <= v
  BY <1>2, <1>3, <1>4, <1>5
<1>7. Leq(a, b) <=> u <= v BY <1>6 DEF Leq, a1, a2, b1, b2
<1> QED BY <1>7 DEF Least

\* The same rational over a multiple of the denominator, and a rational divided
\* by the factor.
LEMMA OverMultiple ==
    ASSUME NEW a \in Rational, NEW d \in Nat, NEW u \in Int, NEW p \in Nat \ {0}, Over(a, d, u)
    PROVE  /\ Over(a, d * p, u * p)
           /\ <<1, p>> \in Rational /\ Over(Times(a, <<1, p>>), d * p, u)
<1> DEFINE a1 == a[1]
           a2 == a[2]
<1>1. a1 \in Int /\ a2 \in Int /\ a1 * d = u * a2
  BY DEF Rational, Over
<1> HIDE DEF a1, a2
<1>2. a1 * (d * p) = (u * p) * a2
  <2>1. (a1 * d) * p = (u * a2) * p BY <1>1
  <2> QED BY <1>1, <2>1
<1>3. (a1 * 1) * (d * p) = u * (a2 * p)
  <2>1. (a1 * d) * p = (u * a2) * p BY <1>1
  <2> QED BY <1>1, <2>1
<1>4. Over(a, d * p, u * p) BY <1>2 DEF Over, a1, a2
<1>5. Times(a, <<1, p>>) = <<a1 * 1, a2 * p>> BY DEF Times, a1, a2
<1>6. Over(Times(a, <<1, p>>), d * p, u) BY <1>3, <1>5 DEF Over
<1>7. <<1, p>> \in Rational BY DEF Rational
<1> QED BY <1>4, <1>6, <1>7

\* a is u / d, both multiplied by p.
OverBy(a, d, u, p) == Over(a, d * p, u * p)

\* The same rational over a multiple of its denominator.
LEMMA OverScaled ==
    ASSUME NEW a \in Rational, NEW d \in Nat, NEW u \in Int, NEW p \in Nat \ {0}, Over(a, d, u)
    PROVE  OverBy(a, d, u, p)
BY OverMultiple DEF OverBy

-----------------------------------------------------------------------------
(* One level of a budget walk, over a common denominator.                    *)

Account == [left : Rational, shares : Rational, notional : Rational]

\* The account holds l, s and n over the denominator d.
AccountOver(acc, d, l, s, n) ==
    /\ acc \in Account
    /\ Over(acc.left, d, l) /\ Over(acc.shares, d, s) /\ Over(acc.notional, d, n)

\* What a level of price p and size z gives, over the denominator d * p.
TakenAt(l, d, p, z) == IF l <= z * (d * p) THEN l ELSE z * (d * p)

\* A product of positive numbers is positive.
LEMMA ProductPositive ==
    ASSUME NEW u \in Nat \ {0}, NEW v \in Nat \ {0}
    PROVE  u * v \in Nat \ {0}
<1>1. 1 * v <= u * v BY ProductRises
<1>2. u * v \in Nat OBVIOUS
<1> DEFINE w == u * v
<1>3. w \in Nat /\ v <= w BY <1>1, <1>2
<1> HIDE DEF w
<1>4. w # 0 BY <1>3
<1> QED BY <1>3, <1>4 DEF w

\* Spending on a level, in whole numbers over the new denominator.
LEMMA SpendOver ==
    ASSUME NEW acc, NEW lv \in Level, NEW d \in Nat \ {0},
           NEW l \in Nat, NEW s \in Int, NEW n \in Int, AccountOver(acc, d, l, s, n)
    PROVE  LET p == lv.price
               t == TakenAt(l, d, p, lv.size)
           IN  AccountOver(Spend(acc, lv), d * p, l * p - p * t, s * p + t, n * p + p * t)
<1> DEFINE p == lv.price
           z == lv.size
           e == d * p
           K == z * e
           t == TakenAt(l, d, p, z)
           take == Least(Times(acc.left, <<1, p>>), Whole(z))
           paid == Least(acc.left, Whole(z * p))
           new == [left     |-> Minus(acc.left, paid),
                   shares   |-> Plus(acc.shares, take),
                   notional |-> Plus(acc.notional, paid)]
<1>1. p \in Nat \ {0} /\ z \in Nat /\ e \in Nat \ {0}
  <2>1. p \in Nat \ {0} /\ z \in Nat BY BookAssumption DEF Level
  <2> HIDE DEF p
  <2>2. e \in Nat \ {0} BY <2>1, ProductPositive
  <2> QED BY <2>1, <2>2
<1>2. /\ acc.left \in Rational /\ acc.shares \in Rational /\ acc.notional \in Rational
      /\ Over(acc.left, d, l) /\ Over(acc.shares, d, s) /\ Over(acc.notional, d, n)
      /\ acc = [left |-> acc.left, shares |-> acc.shares, notional |-> acc.notional]
  BY DEF AccountOver, Account
<1>3. Spend(acc, lv) = IF Leq(acc.left, Whole(0)) THEN acc ELSE new
  BY DEF Spend
<1>4. t = IF l <= K THEN l ELSE K
  BY DEF TakenAt
<1> HIDE DEF p, z, t
<1>5. /\ Over(acc.left, e, l * p) /\ Over(acc.shares, e, s * p) /\ Over(acc.notional, e, n * p)
      /\ <<1, p>> \in Rational /\ Over(Times(acc.left, <<1, p>>), e, l)
  BY <1>1, <1>2, OverMultiple
<1> HIDE DEF e
<1>6. K \in Nat /\ Whole(z) \in Rational /\ Over(Whole(z), e, K)
  <2>1. K \in Nat /\ K = z * e BY <1>1
  <2> HIDE DEF K
  <2> QED BY <1>1, <2>1 DEF Whole, Rational, Over
<1>7. take \in Rational /\ Over(take, e, t)
  <2>1. Times(acc.left, <<1, p>>) \in Rational BY <1>2, <1>5, RationalTyped
  <2> DEFINE q == Times(acc.left, <<1, p>>)
             w == Whole(z)
  <2>2. q \in Rational /\ Over(q, e, l) /\ w \in Rational /\ Over(w, e, K) BY <1>5, <1>6, <2>1
  <2> HIDE DEF q, w, K
  <2>3. Least(q, w) \in Rational BY <2>2, RationalTyped
  <2>4. Over(Least(q, w), e, IF l <= K THEN l ELSE K) BY <1>1, <1>6, <2>2, OverOrder
  <2> QED BY <1>4, <2>3, <2>4 DEF q, w
<1>8. paid \in Rational /\ Over(paid, e, p * t)
  <2> DEFINE w == Whole(z * p)
             k == (z * p) * e
             lp == l * p
  <2>1. z * p \in Nat /\ k \in Nat /\ lp \in Nat BY <1>1
  <2>2. w \in Rational /\ Over(w, e, k)
    <3> DEFINE zp == z * p
    <3>1. zp \in Nat /\ k \in Nat /\ k = zp * e BY <2>1
    <3> HIDE DEF zp, k
    <3>2. Whole(zp) \in Rational /\ Over(Whole(zp), e, k) BY <1>1, <3>1 DEF Whole, Rational, Over
    <3> QED BY <3>2 DEF zp
  <2>3. k = K * p BY <1>1
  <2>4. (IF lp <= k THEN lp ELSE k) = p * t
    <3>1. l * p <= K * p <=> l <= K BY <1>1, <1>6, Cancel
    <3> HIDE DEF K
    <3>2. l * p = p * l /\ K * p = p * K BY <1>1, <1>6
    <3> QED BY <1>4, <2>3, <3>1, <3>2
  <2> HIDE DEF k, lp, w
  <2>5. Over(acc.left, e, lp) BY <1>5 DEF lp
  <2>6. Least(acc.left, w) \in Rational BY <1>2, <2>2, RationalTyped
  <2>7. Over(Least(acc.left, w), e, IF lp <= k THEN lp ELSE k)
    BY <1>1, <1>2, <2>1, <2>2, <2>5, OverOrder
  <2> QED BY <2>4, <2>6, <2>7 DEF w
<1> HIDE DEF take, paid, K
<1>9. t \in Nat BY <1>4, <1>6
<1> DEFINE lp == l * p
           sp == s * p
           np == n * p
           pt == p * t
<1>10. lp \in Int /\ sp \in Int /\ np \in Int /\ pt \in Int BY <1>1, <1>9
<1>11. Over(acc.left, e, lp) /\ Over(acc.shares, e, sp) /\ Over(acc.notional, e, np) /\ Over(paid, e, pt)
  BY <1>5, <1>8
<1>12. AccountOver(new, e, lp - pt, sp + t, np + pt)
  <2> HIDE DEF lp, sp, np, pt
  <2>1. Minus(acc.left, paid) \in Rational /\ Over(Minus(acc.left, paid), e, lp - pt)
    BY <1>1, <1>2, <1>8, <1>10, <1>11, RationalTyped, OverSum
  <2>2. Plus(acc.shares, take) \in Rational /\ Over(Plus(acc.shares, take), e, sp + t)
    BY <1>1, <1>2, <1>7, <1>9, <1>10, <1>11, RationalTyped, OverSum
  <2>3. Plus(acc.notional, paid) \in Rational /\ Over(Plus(acc.notional, paid), e, np + pt)
    BY <1>1, <1>2, <1>8, <1>10, <1>11, RationalTyped, OverSum
  <2> QED BY <2>1, <2>2, <2>3 DEF AccountOver, Account
<1>13. Leq(acc.left, Whole(0)) <=> l <= 0
  <2>1. Whole(0) \in Rational /\ Over(Whole(0), d, 0)
    <3>1. 0 * d = 0 * 1 OBVIOUS
    <3> QED BY <3>1 DEF Whole, Rational, Over
  <2> QED BY <1>2, <2>1, OverOrder
<1>14. l = 0 => t = 0 /\ lp = 0 /\ pt = 0
  <2>1. l = 0 => t = 0 BY <1>4, <1>6
  <2> QED BY <1>1, <2>1
<1>15. l = 0 => AccountOver(acc, e, lp - pt, sp + t, np + pt)
  <2> SUFFICES ASSUME l = 0 PROVE AccountOver(acc, e, lp - pt, sp + t, np + pt)
    OBVIOUS
  <2>1. lp - pt = lp /\ sp + t = sp /\ np + pt = np
    <3> HIDE DEF lp, sp, np, pt
    <3> QED BY <1>10, <1>14
  <2> HIDE DEF lp, sp, np, pt
  <2> QED BY <1>2, <1>11, <2>1 DEF AccountOver, Account
<1> HIDE DEF new, lp, sp, np, pt
<1>16. AccountOver(Spend(acc, lv), e, lp - pt, sp + t, np + pt)
  <2>1. CASE l = 0 BY <1>3, <1>13, <1>15, <2>1
  <2>2. CASE l # 0
    <3>1. ~ (l <= 0) BY <2>2
    <3> QED BY <1>3, <1>12, <1>13, <3>1
  <2> QED BY <2>1, <2>2
<1> QED BY <1>16 DEF e, lp, sp, np, pt, t, p, z

-----------------------------------------------------------------------------
(* Two budgets spent on the same levels, in whole numbers over the           *)
(* denominator d: l is left, s shares were bought, n was paid; the first     *)
(* budget is the larger one.  q is the price reached, c what the levels so   *)
(* far cost in all.                                                          *)

Pair(d, l1, s1, n1, l2, s2, n2, q, c) ==
    /\ l1 \in Nat /\ s1 \in Nat /\ n1 \in Nat
    /\ l2 \in Nat /\ s2 \in Nat /\ n2 \in Nat
    /\ l2 <= l1 /\ n2 <= n1
    /\ n1 <= One * s1 /\ n2 <= One * s2
    /\ One * s2 - n2 <= One * s1 - n1
    /\ l2 > 0 => n1 = n2 /\ s1 = s2
    /\ n2 * s1 <= n1 * s2
    /\ n2 <= q * s2
    /\ l1 > 0 => n1 = d * c

\* The smaller budget takes no more, and as much unless it is used up; K is there.
InOrder(l1, l2, t1, t2, K) ==
    /\ t1 \in Nat /\ t2 \in Nat /\ t2 <= t1 /\ t1 <= l1 /\ t2 <= l2
    /\ l2 - t2 <= l1 - t1
    /\ t2 < l2 => t1 = t2
    /\ t1 < l1 => t1 = K

\* What a level gives to the two budgets.
LEMMA TakenInOrder ==
    ASSUME NEW l1 \in Nat, NEW l2 \in Nat, l2 <= l1,
           NEW d \in Nat \ {0}, NEW p \in Nat \ {0}, NEW z \in Nat
    PROVE  InOrder(l1, l2, TakenAt(l1, d, p, z), TakenAt(l2, d, p, z), z * (d * p))
<1> DEFINE K == z * (d * p)
<1>1. K \in Nat
  <2> DEFINE e == d * p
  <2>1. e \in Nat OBVIOUS
  <2> HIDE DEF e
  <2> QED BY <2>1
<1> HIDE DEF K
<1>2. TakenAt(l1, d, p, z) = (IF l1 <= K THEN l1 ELSE K) /\ TakenAt(l2, d, p, z) = (IF l2 <= K THEN l2 ELSE K)
  BY DEF TakenAt, K
<1> DEFINE t1 == TakenAt(l1, d, p, z)
           t2 == TakenAt(l2, d, p, z)
<1>3. t1 = (IF l1 <= K THEN l1 ELSE K) /\ t2 = (IF l2 <= K THEN l2 ELSE K) BY <1>2
<1> HIDE DEF t1, t2
<1>4. /\ t1 \in Nat /\ t2 \in Nat /\ t2 <= t1 /\ t1 <= l1 /\ t2 <= l2
      /\ l2 - t2 <= l1 - t1
      /\ t2 < l2 => t1 = t2
      /\ t1 < l1 => t1 = K
  BY <1>1, <1>3
<1> QED BY <1>4 DEF t1, t2, K, InOrder

\* What one level does to both budgets.
LEMMA PairStep ==
    ASSUME NEW d \in Nat \ {0}, NEW l1, NEW s1, NEW n1, NEW l2, NEW s2, NEW n2,
           NEW q \in Nat, NEW c \in Nat, Pair(d, l1, s1, n1, l2, s2, n2, q, c),
           NEW p \in 1..(One - 1), q <= p, NEW z \in Nat
    PROVE  LET t1 == TakenAt(l1, d, p, z)
               t2 == TakenAt(l2, d, p, z)
           IN  Pair(d * p, l1 * p - p * t1, s1 * p + t1, n1 * p + p * t1,
                           l2 * p - p * t2, s2 * p + t2, n2 * p + p * t2, p, c + p * z)
<1> DEFINE t1 == TakenAt(l1, d, p, z)
           t2 == TakenAt(l2, d, p, z)
           L1 == l1 * p - p * t1
           S1 == s1 * p + t1
           N1 == n1 * p + p * t1
           L2 == l2 * p - p * t2
           S2 == s2 * p + t2
           N2 == n2 * p + p * t2
<1>1. /\ l1 \in Nat /\ s1 \in Nat /\ n1 \in Nat
      /\ l2 \in Nat /\ s2 \in Nat /\ n2 \in Nat
      /\ l2 <= l1 /\ n2 <= n1
      /\ n1 <= One * s1 /\ n2 <= One * s2
      /\ One * s2 - n2 <= One * s1 - n1
      /\ l2 > 0 => n1 = n2 /\ s1 = s2
      /\ n2 * s1 <= n1 * s2
      /\ n2 <= q * s2
      /\ l1 > 0 => n1 = d * c
  BY DEF Pair
<1>2. p \in Nat \ {0} /\ One \in Nat /\ One - p \in Nat
  BY BookAssumption
<1>3. /\ t1 \in Nat /\ t2 \in Nat /\ t2 <= t1 /\ t1 <= l1 /\ t2 <= l2
      /\ l2 - t2 <= l1 - t1
      /\ t2 < l2 => t1 = t2
      /\ t1 < l1 => t1 = z * (d * p)
  <2>1. InOrder(l1, l2, t1, t2, z * (d * p)) BY <1>1, <1>2, TakenInOrder
  <2> HIDE DEF t1, t2
  <2> QED BY <2>1 DEF InOrder
<1> HIDE DEF t1, t2
<1>4. S1 \in Nat /\ N1 \in Nat /\ S2 \in Nat /\ N2 \in Nat
  BY <1>1, <1>2, <1>3
<1>5. L1 = (l1 - t1) * p /\ L2 = (l2 - t2) * p /\ N1 = (n1 + t1) * p /\ N2 = (n2 + t2) * p
  BY <1>1, <1>2, <1>3
<1>6. L1 \in Nat /\ L2 \in Nat /\ L2 <= L1 /\ (L2 > 0 => t2 < l2) /\ (L1 > 0 => t1 < l1)
  <2> DEFINE x1 == l1 - t1
             x2 == l2 - t2
  <2>1. x1 \in Nat /\ x2 \in Nat /\ x2 <= x1 /\ (x1 > 0 => t1 < l1) /\ (x2 > 0 => t2 < l2)
    BY <1>1, <1>3
  <2>2. L1 = x1 * p /\ L2 = x2 * p BY <1>5
  <2> HIDE DEF x1, x2, L1, L2
  <2>3. BelowTimes(x2, x1, p) BY <1>2, <2>1, ProductBelow
  <2>4. x1 * p \in Nat /\ x2 * p \in Nat BY <1>2, <2>1
  <2>5. (x1 = 0 => x1 * p = 0) /\ (x2 = 0 => x2 * p = 0) BY <1>2
  <2>6. L2 <= L1 BY <2>2, <2>3 DEF BelowTimes
  <2>7. (L2 > 0 => x2 # 0) /\ (L1 > 0 => x1 # 0) BY <2>2, <2>5
  <2> QED BY <2>1, <2>2, <2>4, <2>6, <2>7
<1>7. N2 <= N1
  <2> DEFINE x1 == n1 + t1
             x2 == n2 + t2
  <2>1. x1 \in Nat /\ x2 \in Nat /\ x2 <= x1 BY <1>1, <1>3
  <2>2. N1 = x1 * p /\ N2 = x2 * p BY <1>5
  <2> HIDE DEF x1, x2, N1, N2
  <2>3. BelowTimes(x2, x1, p) BY <1>2, <2>1, ProductBelow
  <2> QED BY <2>2, <2>3 DEF BelowTimes
<1>8. ASSUME NEW n \in Nat, NEW s \in Nat, NEW t \in Nat, n <= One * s
      PROVE  n * p + p * t <= One * (s * p + t)
  <2> DEFINE os == One * s
             a == n * p
             b == p * t
             A == os * p
             B == One * t
  <2>1. os \in Nat /\ a \in Nat /\ b \in Nat /\ A \in Nat /\ B \in Nat BY <1>2
  <2>2. a <= A
    <3> HIDE DEF os
    <3>1. BelowTimes(n, os, p) BY <1>2, <1>8, <2>1, ProductBelow DEF os
    <3> QED BY <3>1 DEF BelowTimes
  <2>3. b <= B
    <3>1. BelowTimes(p, One, t) BY <1>2, ProductBelow
    <3> QED BY <3>1 DEF BelowTimes
  <2>4. One * (s * p + t) = A + B BY <1>2
  <2> HIDE DEF a, b, A, B
  <2>5. a + b <= A + B BY <2>1, <2>2, <2>3
  <2> QED BY <2>4, <2>5 DEF a, b
<1>9. N1 <= One * S1 /\ N2 <= One * S2
  BY <1>1, <1>3, <1>8
<1>10. One * S2 - N2 <= One * S1 - N1
  <2> DEFINE x1 == One * s1 - n1
             x2 == One * s2 - n2
             e == One - p
  <2>1. x1 \in Int /\ x2 \in Int /\ x2 <= x1 /\ e \in Nat BY <1>1, <1>2
  <2>2. One * S1 - N1 = x1 * p + t1 * e /\ One * S2 - N2 = x2 * p + t2 * e
    BY <1>1, <1>2, <1>3
  <2> HIDE DEF x1, x2, e, S1, S2, N1, N2
  <2>3. BelowTimes(x2, x1, p) /\ BelowTimes(t2, t1, e) BY <1>2, <1>3, <2>1, ProductBelow
  <2> DEFINE a1 == x1 * p
             a2 == x2 * p
             b1 == t1 * e
             b2 == t2 * e
  <2>4. a1 \in Int /\ a2 \in Int /\ b1 \in Int /\ b2 \in Int /\ a2 <= a1 /\ b2 <= b1
    BY <2>3 DEF BelowTimes
  <2>5. One * S1 - N1 = a1 + b1 /\ One * S2 - N2 = a2 + b2 BY <2>2
  <2> HIDE DEF a1, a2, b1, b2
  <2> QED BY <2>4, <2>5
<1>11. L2 > 0 => N1 = N2 /\ S1 = S2
  BY <1>1, <1>3, <1>6
<1>12. n2 <= p * s2
  <2>1. BelowTimes(q, p, s2) BY <1>1, <1>2, ProductBelow
  <2> DEFINE a == q * s2
             b == p * s2
  <2>2. a \in Int /\ b \in Int /\ a <= b /\ n2 <= a BY <1>1, <2>1 DEF BelowTimes
  <2> HIDE DEF a, b
  <2>3. n2 <= b BY <1>1, <2>2
  <2> QED BY <2>3 DEF b
<1>13. N2 <= p * S2
  <2> DEFINE x == n2 + t2
             y == p * s2 + t2
  <2>1. x \in Int /\ y \in Int /\ x <= y BY <1>1, <1>2, <1>3, <1>12
  <2>2. N2 = x * p /\ p * S2 = y * p BY <1>1, <1>2, <1>3
  <2> HIDE DEF x, y, N2, S2
  <2>3. BelowTimes(x, y, p) BY <1>2, <2>1, ProductBelow
  <2> QED BY <2>2, <2>3 DEF BelowTimes
<1>14. (n2 + t2) * S1 <= (n1 + t1) * S2
  <2>1. CASE l2 = 0
    <3>1. t2 = 0 BY <1>3, <2>1
    <3> DEFINE a == n2 * s1
               b == n1 * s2
               x == n2 * t1
               y == (p * s2) * t1
    <3>2. a \in Int /\ b \in Int /\ a <= b BY <1>1
    <3>3. BelowTimes(a, b, p) BY <1>2, <3>2, ProductBelow
    <3>4. x \in Int /\ y \in Int /\ x <= y
      <4> DEFINE ps == p * s2
      <4>1. ps \in Int /\ n2 <= ps BY <1>1, <1>2, <1>12
      <4> HIDE DEF ps
      <4>2. BelowTimes(n2, ps, t1) BY <1>1, <1>3, <4>1, ProductBelow
      <4> QED BY <4>2 DEF BelowTimes, ps
    <3>5. (n2 + t2) * S1 = a * p + x /\ (n1 + t1) * S2 = b * p + y
      <4>1. (n2 + t2) * S1 = n2 * (s1 * p + t1) /\ (n1 + t1) * S2 = (n1 + t1) * (s2 * p)
        BY <1>1, <1>2, <1>3, <3>1
      <4>2. n2 * (s1 * p + t1) = (n2 * s1) * p + n2 * t1 BY <1>1, <1>2, <1>3
      <4>3. (n1 + t1) * (s2 * p) = (n1 * s2) * p + (p * s2) * t1 BY <1>1, <1>2, <1>3
      <4> QED BY <4>1, <4>2, <4>3
    <3> HIDE DEF a, b, x, y, S1, S2
    <3> DEFINE u == a * p
               v == b * p
    <3>6. u \in Int /\ v \in Int /\ u <= v BY <3>3 DEF BelowTimes
    <3>7. (n2 + t2) * S1 = u + x /\ (n1 + t1) * S2 = v + y BY <3>5
    <3> HIDE DEF u, v
    <3> QED BY <3>4, <3>6, <3>7
  <2>2. CASE l2 # 0
    <3>1. n1 = n2 /\ s1 = s2 BY <1>1, <2>2
    <3> DEFINE k == t1 - t2
               ps == p * s2
    <3>2. k \in Nat /\ ps \in Int /\ n2 <= ps BY <1>1, <1>2, <1>3, <1>12
    <3>3. (n1 + t1) * S2 - (n2 + t2) * S1 = ps * k - n2 * k
      <4>1. (n2 + t1) * (s2 * p + t2) - (n2 + t2) * (s2 * p + t1) = (p * s2) * (t1 - t2) - n2 * (t1 - t2)
        BY <1>1, <1>2, <1>3
      <4> QED BY <3>1, <4>1
    <3> DEFINE X == (n1 + t1) * S2
               Y == (n2 + t2) * S1
    <3>4. X \in Int /\ Y \in Int BY <1>1, <1>3, <1>4
    <3> HIDE DEF k, ps, S1, S2
    <3>5. BelowTimes(n2, ps, k) BY <1>1, <3>2, ProductBelow
    <3> DEFINE u == ps * k
               v == n2 * k
    <3>6. u \in Int /\ v \in Int /\ v <= u BY <3>5 DEF BelowTimes
    <3>7. X - Y = u - v BY <3>3
    <3> HIDE DEF u, v, X, Y
    <3>8. Y <= X BY <3>4, <3>6, <3>7
    <3> QED BY <3>8 DEF X, Y
  <2> QED BY <2>1, <2>2
<1>15. N2 * S1 <= N1 * S2
  <2> DEFINE x == (n2 + t2) * S1
             y == (n1 + t1) * S2
  <2>1. x \in Int /\ y \in Int /\ x <= y BY <1>1, <1>3, <1>4, <1>14
  <2>2. N2 * S1 = x * p /\ N1 * S2 = y * p
    <3> HIDE DEF S1, S2, N1, N2
    <3>1. N1 = (n1 + t1) * p /\ N2 = (n2 + t2) * p BY <1>5
    <3> QED BY <1>1, <1>2, <1>3, <1>4, <3>1
  <2> HIDE DEF x, y, S1, S2, N1, N2
  <2>3. BelowTimes(x, y, p) BY <1>2, <2>1, ProductBelow
  <2> QED BY <2>2, <2>3 DEF BelowTimes
<1>16. L1 > 0 => N1 = (d * p) * (c + p * z)
  <2> SUFFICES ASSUME L1 > 0 PROVE N1 = (d * p) * (c + p * z)
    OBVIOUS
  <2>1. t1 = z * (d * p) /\ n1 = d * c BY <1>1, <1>3, <1>6
  <2>2. N1 = (d * c) * p + p * (z * (d * p)) BY <2>1
  <2>3. (d * c) * p + p * (z * (d * p)) = (d * p) * (c + p * z) BY <1>2
  <2> QED BY <2>2, <2>3
<1> HIDE DEF L1, L2, S1, S2, N1, N2
<1>17. Pair(d * p, L1, S1, N1, L2, S2, N2, p, c + p * z)
  BY <1>4, <1>6, <1>7, <1>9, <1>10, <1>11, <1>13, <1>15, <1>16 DEF Pair
<1> QED BY <1>17 DEF L1, L2, S1, S2, N1, N2, t1, t2

-----------------------------------------------------------------------------
(* The budget walk.                                                          *)

Opening(budget) == [left |-> budget, shares |-> Whole(0), notional |-> Whole(0)]

\* f[i] is the account after i levels.
IsSpending(f, levels, budget) ==
    f = [i \in 0..Len(levels) |->
            IF i = 0 THEN Opening(budget) ELSE Spend(f[i - 1], levels[i])]

\* One step of the walk.
LEMMA SpendingStep ==
    ASSUME NEW levels, NEW budget, NEW f, IsSpending(f, levels, budget), NEW i \in 0..Len(levels)
    PROVE  f[i] = IF i = 0 THEN Opening(budget) ELSE Spend(f[i - 1], levels[i])
<1> DEFINE g == [j \in 0..Len(levels) |->
                    IF j = 0 THEN Opening(budget) ELSE Spend(f[j - 1], levels[j])]
<1>1. f = g BY DEF IsSpending
<1>2. g[i] = IF i = 0 THEN Opening(budget) ELSE Spend(f[i - 1], levels[i])
  OBVIOUS
<1> HIDE DEF g
<1> QED BY <1>1, <1>2

\* Spending on a level leaves an account.
LEMMA SpendTyped ==
    ASSUME NEW acc \in Account, NEW lv \in Level
    PROVE  Spend(acc, lv) \in Account
<1> DEFINE take == Least(Times(acc.left, <<1, lv.price>>), Whole(lv.size))
           paid == Least(acc.left, Whole(lv.size * lv.price))
           new == [left     |-> Minus(acc.left, paid),
                   shares   |-> Plus(acc.shares, take),
                   notional |-> Plus(acc.notional, paid)]
<1>1. acc.left \in Rational /\ acc.shares \in Rational /\ acc.notional \in Rational
  BY DEF Account
<1>2. lv.price \in Nat \ {0} /\ lv.size \in Nat BY BookAssumption DEF Level
<1>3. <<1, lv.price>> \in Rational /\ Whole(lv.size) \in Rational BY <1>2 DEF Rational, Whole
<1>4. Whole(lv.size * lv.price) \in Rational BY <1>2 DEF Rational, Whole
<1>5. take \in Rational BY <1>1, <1>3, RationalTyped
<1>6. paid \in Rational BY <1>1, <1>4, RationalTyped
<1> HIDE DEF take, paid
<1>7. new \in Account BY <1>1, <1>5, <1>6, RationalTyped DEF Account
<1>8. Spend(acc, lv) = IF Leq(acc.left, Whole(0)) THEN acc ELSE new
  BY DEF Spend, take, paid
<1> HIDE DEF new
<1> QED BY <1>7, <1>8

\* The loop of walkBudget is well defined, and what it returns.
LEMMA SpendingDefined ==
    ASSUME NEW levels \in Seq(Level), NEW budget \in Rational
    PROVE  \E f : /\ IsSpending(f, levels, budget)
                  /\ WalkBudget(levels, budget) = f[Len(levels)]
<1> DEFINE m == Len(levels)
           V == Account
           base == Opening(budget)
           g == [i \in 1..m |-> [x \in V |-> Spend(x, levels[i])]]
           f0 == CHOOSE f : IsSpending(f, levels, budget)
<1>1. m \in Nat /\ \A i \in 1..m : levels[i] \in Level
  BY RowsFinite
<1>2. \A x \in V, i \in 1..m : g[i][x] = Spend(x, levels[i])
  OBVIOUS
<1>3. g \in [1..m -> [V -> V]]
  BY <1>1, SpendTyped
<1>4. base \in V
  <2>1. Whole(0) \in Rational BY DEF Whole, Rational
  <2> QED BY <2>1 DEF Opening, Account
<1>5. \E f : Iterates(f, g, V, m, base)
  <2> HIDE DEF g, m, V, base
  <2> QED BY <1>1, <1>3, <1>4, Recursion
<1>6. PICK f \in [0..m -> V] : f[0] = base /\ \A i \in 1..m : f[i] = g[i][f[i - 1]]
  BY <1>5 DEF Iterates
<1>7. IsSpending(f, levels, budget)
  <2> DEFINE h == [i \in 0..m |-> IF i = 0 THEN base ELSE Spend(f[i - 1], levels[i])]
  <2>1. ASSUME NEW i \in 0..m PROVE f[i] = h[i]
    <3>1. CASE i = 0 BY <1>6, <3>1
    <3>2. CASE i # 0
      <4>1. i \in 1..m /\ i - 1 \in 0..m BY <1>1, <3>2
      <4>2. f[i] = g[i][f[i - 1]] /\ f[i - 1] \in V BY <1>6, <4>1
      <4>3. h[i] = Spend(f[i - 1], levels[i]) BY <3>2
      <4> HIDE DEF g, h, V
      <4> QED BY <1>2, <4>1, <4>2, <4>3
    <3> QED BY <3>1, <3>2
  <2>2. f = h
    <3>1. h = [i \in 0..m |-> h[i]] /\ f = [i \in 0..m |-> f[i]] BY <1>6
    <3> HIDE DEF h
    <3> QED BY <2>1, <3>1
  <2> QED BY <2>2 DEF IsSpending
<1>8. IsSpending(f0, levels, budget)
  BY <1>7
<1>9. WalkBudget(levels, budget) = f0[m]
  BY DEF WalkBudget, IsSpending, Opening
<1> HIDE DEF f0
<1> QED BY <1>8, <1>9

\* What the first i levels cost, and the price they reach.
Costs(levels) == [i \in 1..Len(levels) |-> levels[i].price * levels[i].size]
CostUpTo(levels, i) == SumFunctionOnSet(Costs(levels), 1..i)
PriceUpTo(levels, i) == IF i = 0 THEN 0 ELSE levels[i].price

\* After i levels the accounts x and y, opened with the budgets B1 and B2, stand
\* to each other as Pair says.
SideBySide(levels, i, x, y, B1, B2, d, l1, s1, n1, l2, s2, n2) ==
    /\ d \in Nat \ {0}
    /\ AccountOver(x, d, l1, s1, n1) /\ AccountOver(y, d, l2, s2, n2)
    /\ Over(B1, d, n1 + l1) /\ Over(B2, d, n2 + l2)
    /\ Pair(d, l1, s1, n1, l2, s2, n2, PriceUpTo(levels, i), CostUpTo(levels, i))

Together(levels, i, x, y, B1, B2) ==
    \E d, l1, s1, n1, l2, s2, n2 :
        SideBySide(levels, i, x, y, B1, B2, d, l1, s1, n1, l2, s2, n2)

\* One level keeps that.
LEMMA TogetherStep ==
    ASSUME NEW levels \in Seq(Level), NEW i \in 1..Len(levels), NEW x, NEW y,
           NEW B1 \in Rational, NEW B2 \in Rational,
           \A j, k \in 1..Len(levels) : j < k => levels[j].price <= levels[k].price,
           Together(levels, i - 1, x, y, B1, B2)
    PROVE  Together(levels, i, Spend(x, levels[i]), Spend(y, levels[i]), B1, B2)
<1> DEFINE lv == levels[i]
           p == lv.price
           z == lv.size
           q == PriceUpTo(levels, i - 1)
           c == CostUpTo(levels, i - 1)
<1>0. PICK d, l1, s1, n1, l2, s2, n2 :
        SideBySide(levels, i - 1, x, y, B1, B2, d, l1, s1, n1, l2, s2, n2)
  BY DEF Together
<1>1. /\ d \in Nat \ {0}
      /\ l1 \in Nat /\ s1 \in Nat /\ n1 \in Nat /\ l2 \in Nat /\ s2 \in Nat /\ n2 \in Nat
      /\ AccountOver(x, d, l1, s1, n1) /\ AccountOver(y, d, l2, s2, n2)
      /\ Over(B1, d, n1 + l1) /\ Over(B2, d, n2 + l2)
      /\ Pair(d, l1, s1, n1, l2, s2, n2, q, c)
  BY <1>0 DEF SideBySide, Pair
<1>2. /\ lv \in Level /\ p \in 1..(One - 1) /\ p \in Nat \ {0} /\ z \in Nat
      /\ \A j \in 1..Len(levels) : levels[j].price \in Nat /\ levels[j].size \in Nat
      /\ Len(levels) \in Nat
  <2>1. levels[i] \in Level /\ Len(levels) \in Nat BY RowsFinite
  <2>2. \A j \in 1..Len(levels) : levels[j].price \in Nat /\ levels[j].size \in Nat BY RowsFinite
  <2>3. p \in 1..(One - 1) /\ z \in Nat BY <2>1 DEF Level
  <2> HIDE DEF p, z
  <2>4. p \in Nat \ {0} BY <2>3, BookAssumption
  <2> QED BY <2>1, <2>2, <2>3, <2>4
<1>3. q \in Nat /\ q <= p
  <2>1. CASE i = 1
    <3>1. q = 0 BY <2>1 DEF PriceUpTo
    <3> HIDE DEF q, p
    <3> QED BY <1>2, <3>1
  <2>2. CASE i # 1
    <3>1. i - 1 \in 1..Len(levels) /\ i - 1 < i BY <1>2, <2>2
    <3>2. q = levels[i - 1].price BY <2>2 DEF PriceUpTo
    <3> HIDE DEF q
    <3> QED BY <1>2, <3>1, <3>2
  <2> QED BY <2>1, <2>2
<1>4. CostUpTo(levels, i) = c + p * z /\ c \in Nat
  <2> DEFINE h == Costs(levels)
             R == 1..i
             Q == 1..(i - 1)
             pz == p * z
  <2>1. \A j \in 1..Len(levels) : h[j] = levels[j].price * levels[j].size BY DEF Costs
  <2>2. \A j \in 1..Len(levels) : h[j] \in Nat
    <3> HIDE DEF h
    <3> QED BY <1>2, <2>1
  <2>3. h[i] = pz BY <2>1
  <2>4. IsFiniteSet(R) /\ IsFiniteSet(Q)
    <3>1. i \in Int /\ i - 1 \in Int OBVIOUS
    <3> QED BY FS_Interval, <3>1, 1 \in Int, Zenon
  <2>5. i \in R /\ R \ {i} = Q /\ (\A j \in R : j \in 1..Len(levels)) /\ \A j \in Q : j \in 1..Len(levels)
    BY <1>2
  <2> HIDE DEF h, R, Q, pz
  <2>6. (\A j \in R : h[j] \in Int) /\ \A j \in Q : h[j] \in Nat BY <2>2, <2>5
  <2>7. SumFunctionOnSet(h, R) = h[i] + SumFunctionOnSet(h, R \ {i}) BY <2>4, <2>5, <2>6, SumTake
  <2>8. SumFunctionOnSet(h, Q) \in Nat BY <2>4, <2>6, SumNat
  <2>9. c = SumFunctionOnSet(h, Q) /\ CostUpTo(levels, i) = SumFunctionOnSet(h, R)
    BY DEF CostUpTo, h, Q, R
  <2>10. pz \in Nat BY <2>2, <2>3
  <2> HIDE DEF c
  <2> DEFINE sq == SumFunctionOnSet(h, Q)
  <2>11. CostUpTo(levels, i) = pz + sq /\ c = sq /\ sq \in Nat BY <2>3, <2>5, <2>7, <2>8, <2>9
  <2> HIDE DEF sq
  <2>12. pz + sq = sq + pz BY <2>10, <2>11
  <2> QED BY <2>11, <2>12 DEF pz
<1>5. PriceUpTo(levels, i) = p
  BY DEF PriceUpTo
<1> DEFINE t1 == TakenAt(l1, d, p, z)
           t2 == TakenAt(l2, d, p, z)
           e == d * p
           L1 == l1 * p - p * t1
           S1 == s1 * p + t1
           N1 == n1 * p + p * t1
           L2 == l2 * p - p * t2
           S2 == s2 * p + t2
           N2 == n2 * p + p * t2
<1>6. AccountOver(Spend(x, lv), e, L1, S1, N1) /\ AccountOver(Spend(y, lv), e, L2, S2, N2)
  <2>1. AccountOver(Spend(x, lv), e, L1, S1, N1)
    <3> HIDE DEF lv
    <3> QED BY <1>1, <1>2, SpendOver
  <2>2. AccountOver(Spend(y, lv), e, L2, S2, N2)
    <3> HIDE DEF lv
    <3> QED BY <1>1, <1>2, SpendOver
  <2> QED BY <2>1, <2>2
<1>7. Pair(e, L1, S1, N1, L2, S2, N2, p, c + p * z)
  <2> HIDE DEF p, z, q, c
  <2> QED BY <1>1, <1>2, <1>3, <1>4, PairStep
<1>8. e \in Nat \ {0}
  <2> HIDE DEF p
  <2> QED BY <1>1, <1>2, ProductPositive
<1>9. Over(B1, e, N1 + L1) /\ Over(B2, e, N2 + L2)
  <2> DEFINE b1 == n1 + l1
             b2 == n2 + l2
  <2>1. b1 \in Int /\ b2 \in Int BY <1>1
  <2>2. t1 \in Int /\ t2 \in Int
    <3> HIDE DEF p, z
    <3> QED BY <1>1, <1>2 DEF TakenAt
  <2>3. N1 + L1 = b1 * p /\ N2 + L2 = b2 * p
    <3> HIDE DEF t1, t2, p
    <3> QED BY <1>1, <1>2, <2>2
  <2>4. Over(B1, d, b1) /\ Over(B2, d, b2) BY <1>1
  <2> HIDE DEF b1, b2, p, N1, L1, N2, L2
  <2>5. Over(B1, e, b1 * p) /\ Over(B2, e, b2 * p) BY <1>1, <1>2, <2>1, <2>4, OverMultiple
  <2> QED BY <2>3, <2>5
<1> HIDE DEF e, L1, S1, N1, L2, S2, N2, p, z, c, q, lv
<1>10. SideBySide(levels, i, Spend(x, lv), Spend(y, lv), B1, B2, e, L1, S1, N1, L2, S2, N2)
  BY <1>4, <1>5, <1>6, <1>7, <1>8, <1>9 DEF SideBySide
<1>11. Together(levels, i, Spend(x, lv), Spend(y, lv), B1, B2)
  BY <1>10 DEF Together
<1> QED BY <1>11 DEF lv

\* Two budgets walked along the same rising levels stand together to the end.
LEMMA WalksTogether ==
    ASSUME NEW levels \in Seq(Level),
           \A j, k \in 1..Len(levels) : j < k => levels[j].price <= levels[k].price,
           NEW B1 \in Rational, NEW B2 \in Rational, NEW d \in Nat \ {0},
           NEW b1 \in Nat, NEW b2 \in Nat, b2 <= b1, Over(B1, d, b1), Over(B2, d, b2)
    PROVE  Together(levels, Len(levels), WalkBudget(levels, B1), WalkBudget(levels, B2), B1, B2)
<1> DEFINE m == Len(levels)
<1>1. m \in Nat BY RowsFinite
<1>2. PICK f : IsSpending(f, levels, B1) /\ WalkBudget(levels, B1) = f[m]
  BY SpendingDefined
<1>3. PICK g : IsSpending(g, levels, B2) /\ WalkBudget(levels, B2) = g[m]
  BY SpendingDefined
<1> DEFINE T == {i \in 0..m : Together(levels, i, f[i], g[i], B1, B2)}
<1>4. 0 \in T
  <2>1. 0 \in 0..m BY <1>1
  <2>2. f[0] = Opening(B1) /\ g[0] = Opening(B2) BY <1>2, <1>3, <2>1, SpendingStep
  <2>3. Whole(0) \in Rational /\ Over(Whole(0), d, 0)
    <3>1. 0 * d = 0 * 1 OBVIOUS
    <3> QED BY <3>1 DEF Whole, Rational, Over
  <2>4. AccountOver(Opening(B1), d, b1, 0, 0) /\ AccountOver(Opening(B2), d, b2, 0, 0)
    BY <2>3 DEF AccountOver, Opening, Account
  <2>5. CostUpTo(levels, 0) = 0
    <3>1. 1..0 = {} OBVIOUS
    <3> QED BY <3>1, SumEmpty DEF CostUpTo
  <2>6. PriceUpTo(levels, 0) = 0 BY DEF PriceUpTo
  <2>7. Pair(d, b1, 0, 0, b2, 0, 0, 0, 0)
    <3>1. One * 0 = 0 /\ d * 0 = 0 /\ 0 * 0 = 0 BY BookAssumption
    <3> QED BY <3>1 DEF Pair
  <2>8. 0 + b1 = b1 /\ 0 + b2 = b2 OBVIOUS
  <2>9. SideBySide(levels, 0, Opening(B1), Opening(B2), B1, B2, d, b1, 0, 0, b2, 0, 0)
    BY <2>4, <2>5, <2>6, <2>7, <2>8 DEF SideBySide
  <2>10. Together(levels, 0, Opening(B1), Opening(B2), B1, B2) BY <2>9 DEF Together
  <2> QED BY <2>1, <2>2, <2>10
<1>5. ASSUME NEW i \in 1..m, i - 1 \in T PROVE i \in T
  <2>1. i \in 0..m /\ i # 0 BY <1>1
  <2>2. f[i] = Spend(f[i - 1], levels[i]) /\ g[i] = Spend(g[i - 1], levels[i])
    BY <1>2, <1>3, <2>1, SpendingStep
  <2>3. Together(levels, i - 1, f[i - 1], g[i - 1], B1, B2) BY <1>5
  <2>4. Together(levels, i, Spend(f[i - 1], levels[i]), Spend(g[i - 1], levels[i]), B1, B2)
    BY <2>3, TogetherStep
  <2> QED BY <2>1, <2>2, <2>4
<1>6. \A i \in 0..m : i \in T
  <2> HIDE DEF T, m
  <2> QED BY <1>1, <1>4, <1>5, Climb
<1>7. m \in T BY <1>1, <1>6
<1> QED BY <1>2, <1>3, <1>7

\* A number over a denominator is determined.
LEMMA OverOnce ==
    ASSUME NEW a \in Rational, NEW d \in Nat, NEW u \in Int, NEW v \in Int, Over(a, d, u), Over(a, d, v)
    PROVE  u = v
<1> DEFINE a2 == a[2]
<1>1. a2 \in Nat \ {0} BY DEF Rational
<1>2. u * a2 = v * a2 BY DEF Over
<1> HIDE DEF a2
<1> QED BY <1>1, <1>2, Cancel

\* A product with a whole number, and with the rate.
LEMMA OverTimes ==
    ASSUME NEW a \in Rational, NEW d \in Nat, NEW u \in Int, Over(a, d, u)
    PROVE  /\ Times(a, Whole(One)) \in Rational /\ Over(Times(a, Whole(One)), d, One * u)
           /\ Times(Rate, a) \in Rational /\ Over(Times(Rate, a), d * Rate[2], Rate[1] * u)
<1> DEFINE a1 == a[1]
           a2 == a[2]
           r == Rate[1]
           k == Rate[2]
<1>1. a1 \in Int /\ a2 \in Nat \ {0} /\ a1 * d = u * a2 BY DEF Rational, Over
<1>2. r \in Nat /\ k \in Nat \ {0} /\ One \in Nat BY BookAssumption
<1>3. Times(a, Whole(One)) = <<a1 * One, a2 * 1>> BY DEF Times, Whole
<1>4. Times(Rate, a) = <<r * a1, k * a2>> BY DEF Times
<1> HIDE DEF a1, a2, r, k
<1>5. (a1 * One) * d = (One * u) * (a2 * 1)
  <2>1. (a1 * d) * One = (u * a2) * One BY <1>1
  <2> QED BY <1>1, <1>2, <2>1
<1>6. (r * a1) * (d * k) = (r * u) * (k * a2)
  <2>1. (a1 * d) * (r * k) = (u * a2) * (r * k) BY <1>1
  <2> QED BY <1>1, <1>2, <2>1
<1>7. a1 * One \in Int /\ a2 * 1 \in Nat \ {0} /\ r * a1 \in Int /\ k * a2 \in Nat \ {0}
  BY <1>1, <1>2, ProductPositive
<1>8. Times(a, Whole(One)) \in Rational /\ Times(Rate, a) \in Rational
  BY <1>3, <1>4, <1>7 DEF Rational
<1> QED BY <1>3, <1>4, <1>5, <1>6, <1>8 DEF Over, r, k

\* The cheaper side of s shares that cost n.
Cheaper(s, n) == IF n <= One * s - n THEN n ELSE One * s - n

\* The fee, over a denominator.
LEMMA FeeOver ==
    ASSUME NEW acc, NEW d \in Nat \ {0}, NEW l, NEW s \in Nat, NEW n \in Nat, AccountOver(acc, d, l, s, n)
    PROVE  LET fee == FeeOn(acc.shares, acc.notional)
           IN  fee \in Rational /\ Over(fee, d * Rate[2], Rate[1] * Cheaper(s, n))
<1> DEFINE S == acc.shares
           N == acc.notional
           W == Times(S, Whole(One))
           C == Minus(W, N)
           u == One * s
           c == u - n
           M == Least(N, C)
<1>1. S \in Rational /\ N \in Rational /\ Over(S, d, s) /\ Over(N, d, n)
  BY DEF AccountOver, Account
<1>2. u \in Int /\ c \in Int BY BookAssumption
<1>3. W \in Rational /\ Over(W, d, u) BY <1>1, OverTimes
<1>4. C \in Rational /\ Over(C, d, c)
  <2> HIDE DEF W, S, N, u
  <2> QED BY <1>1, <1>2, <1>3, RationalTyped, OverSum
<1>5. M \in Rational /\ Over(M, d, Cheaper(s, n))
  <2>1. Cheaper(s, n) = IF n <= c THEN n ELSE c BY DEF Cheaper
  <2> HIDE DEF C, N, c
  <2> QED BY <1>1, <1>2, <1>4, <2>1, RationalTyped, OverOrder
<1>6. Cheaper(s, n) \in Int BY <1>2 DEF Cheaper
<1>7. FeeOn(S, N) = Times(Rate, M) BY DEF FeeOn
<1> HIDE DEF M, S, N
<1>8. Times(Rate, M) \in Rational /\ Over(Times(Rate, M), d * Rate[2], Rate[1] * Cheaper(s, n))
  BY <1>5, <1>6, OverTimes
<1> QED BY <1>7, <1>8 DEF S, N

-----------------------------------------------------------------------------
(* A market buy, over a common denominator.                                  *)

\* The first walk had the whole budget; the second what its fee leaves of it, or
\* nothing.
Bought(usd, d, l1, s1, n1, l2, s2, n2, q, c) ==
    /\ d \in Nat \ {0} /\ Pair(d, l1, s1, n1, l2, s2, n2, q, c)
    /\ n1 + l1 = usd * d
    /\ \/ (n2 + l2) * Rate[2] = usd * (d * Rate[2]) - Rate[1] * Cheaper(s1, n1)
       \/ usd * (d * Rate[2]) < Rate[1] * Cheaper(s1, n1) /\ n2 + l2 = 0

\* The cheaper sides of both walks are not negative, and the first's is not less.
LEMMA CheaperInOrder ==
    ASSUME NEW d, NEW l1, NEW s1, NEW n1, NEW l2, NEW s2, NEW n2, NEW q, NEW c,
           Pair(d, l1, s1, n1, l2, s2, n2, q, c)
    PROVE  /\ Cheaper(s1, n1) \in Nat /\ Cheaper(s2, n2) \in Nat
           /\ Cheaper(s2, n2) <= Cheaper(s1, n1)
           /\ Rate[1] * Cheaper(s1, n1) \in Nat /\ Rate[1] * Cheaper(s2, n2) \in Nat
           /\ Rate[1] * Cheaper(s2, n2) <= Rate[1] * Cheaper(s1, n1)
<1> DEFINE u1 == One * s1
           u2 == One * s2
           m1 == Cheaper(s1, n1)
           m2 == Cheaper(s2, n2)
           r == Rate[1]
<1>1. r \in Nat /\ One \in Nat BY BookAssumption
<1>2. /\ n1 \in Nat /\ n2 \in Nat /\ u1 \in Nat /\ u2 \in Nat
      /\ n2 <= n1 /\ n1 <= u1 /\ n2 <= u2 /\ u2 - n2 <= u1 - n1
  BY <1>1 DEF Pair
<1>3. m1 = (IF n1 <= u1 - n1 THEN n1 ELSE u1 - n1) /\ m2 = (IF n2 <= u2 - n2 THEN n2 ELSE u2 - n2)
  BY DEF Cheaper
<1> HIDE DEF u1, u2, m1, m2, r
<1>4. m1 \in Nat /\ m2 \in Nat /\ m2 <= m1 BY <1>2, <1>3
<1>5. BelowTimes(m2, m1, r) BY <1>1, <1>4, ProductBelow
<1>6. r * m1 \in Nat /\ r * m2 \in Nat BY <1>1, <1>4
<1>7. r * m1 = m1 * r /\ r * m2 = m2 * r BY <1>1, <1>4
<1>8. r * m2 <= r * m1 BY <1>5, <1>7 DEF BelowTimes
<1> QED BY <1>4, <1>6, <1>8 DEF m1, m2, r

\* The buy of this book ends with the account acc of the second walk.
IsBuy(seq, usd, acc, d, l1, s1, n1, l2, s2, n2, q) ==
    /\ Bought(usd, d, l1, s1, n1, l2, s2, n2, q, CostUpTo(Asks(seq), Len(Asks(seq))))
    /\ AccountOver(acc, d, l2, s2, n2)
    /\ SimulateMarketBuy(seq, usd).notional = acc.notional
    /\ SimulateMarketBuy(seq, usd).fee = FeeOn(acc.shares, acc.notional)

\* Every market buy is one.
LEMMA BuySides ==
    ASSUME NEW seq \in Seq(Level), NEW usd \in Nat
    PROVE  \E acc, d, l1, s1, n1, l2, s2, n2, q : IsBuy(seq, usd, acc, d, l1, s1, n1, l2, s2, n2, q)
<1> DEFINE a == Asks(seq)
           m == Len(a)
           B == Whole(usd)
           first == WalkBudget(a, B)
           est == FeeOn(first.shares, first.notional)
           less == Minus(B, est)
           zero == Whole(0)
           rest == IF Leq(zero, less) THEN less ELSE zero
           second == IF Leq(est, zero) THEN first ELSE WalkBudget(a, rest)
           r == Rate[1]
           k == Rate[2]
           c == CostUpTo(a, m)
           q == PriceUpTo(a, m)
<1>1. /\ SimulateMarketBuy(seq, usd).notional = second.notional
      /\ SimulateMarketBuy(seq, usd).fee = FeeOn(second.shares, second.notional)
  BY DEF SimulateMarketBuy
<1> HIDE DEF second
<1>2. a \in Seq(Level) /\ \A i, j \in 1..m : i < j => a[i].price <= a[j].price
  BY AsksRise
<1> HIDE DEF a
<1>3. r \in Nat /\ k \in Nat \ {0} BY BookAssumption
<1>4. B \in Rational /\ zero \in Rational BY DEF Whole, Rational
<1>5. \A d \in Nat : Over(zero, d, 0) /\ \A u \in Int : Over(B, d, u) <=> u = usd * d
  <2> SUFFICES ASSUME NEW d \in Nat PROVE Over(zero, d, 0) /\ \A u \in Int : Over(B, d, u) <=> u = usd * d
    OBVIOUS
  <2>1. 0 * d = 0 * 1 OBVIOUS
  <2>2. \A u \in Int : u * 1 = u OBVIOUS
  <2> QED BY <2>1, <2>2 DEF Over, Whole
<1> HIDE DEF B, zero
<1>6. PICK d, l1, s1, n1, l2, s2, n2 :
         SideBySide(a, m, first, first, B, B, d, l1, s1, n1, l2, s2, n2)
  <2>1. usd * 1 = usd OBVIOUS
  <2>2. Over(B, 1, usd) BY <1>5, <2>1
  <2>3. Together(a, m, first, first, B, B) BY <1>2, <1>4, <2>2, WalksTogether
  <2> HIDE DEF first
  <2> QED BY <2>3 DEF Together
<1> HIDE DEF first
<1>7. /\ d \in Nat \ {0} /\ Pair(d, l1, s1, n1, l2, s2, n2, q, c)
      /\ AccountOver(first, d, l1, s1, n1) /\ AccountOver(first, d, l2, s2, n2)
      /\ Over(B, d, n1 + l1) /\ Over(B, d, n2 + l2)
  BY <1>6 DEF SideBySide
<1>8. /\ l1 \in Nat /\ s1 \in Nat /\ n1 \in Nat /\ l2 \in Nat /\ s2 \in Nat /\ n2 \in Nat
  BY <1>7 DEF Pair
<1> DEFINE m1 == Cheaper(s1, n1)
           rm == r * m1
           e == d * k
           ue == usd * e
<1>9. rm \in Nat /\ e \in Nat \ {0} /\ ue \in Nat
  <2>1. rm \in Nat BY <1>7, CheaperInOrder
  <2>2. e \in Nat \ {0} BY <1>3, <1>7, ProductPositive
  <2> HIDE DEF rm, e
  <2> QED BY <2>1, <2>2
<1>10. est \in Rational /\ Over(est, e, rm)
  BY <1>7, <1>8, FeeOver
<1> HIDE DEF est
<1>11. Over(B, e, ue) /\ Over(zero, e, 0)
  <2> HIDE DEF e
  <2> QED BY <1>5, <1>9
<1> HIDE DEF rm, e, ue
<1>12. less \in Rational /\ Over(less, e, ue - rm)
  BY <1>4, <1>9, <1>10, <1>11, RationalTyped, OverSum
<1> HIDE DEF less
<1>13. (Leq(est, zero) <=> rm <= 0) /\ (Leq(zero, less) <=> 0 <= ue - rm) /\ (Leq(less, B) <=> ue - rm <= ue)
  <2>1. Leq(est, zero) <=> rm <= 0 BY <1>4, <1>9, <1>10, <1>11, OverOrder
  <2> DEFINE x == ue - rm
  <2>2. x \in Int /\ Over(less, e, x) BY <1>9, <1>12
  <2> HIDE DEF x
  <2>3. Leq(zero, less) <=> 0 <= x BY <1>4, <1>9, <1>11, <1>12, <2>2, OverOrder
  <2>4. Leq(less, B) <=> x <= ue BY <1>4, <1>9, <1>11, <1>12, <2>2, OverOrder
  <2> QED BY <2>1, <2>3, <2>4 DEF x
<1>14. CASE Leq(est, zero)
  <2>1. second = first BY <1>14 DEF second
  <2>2. rm = 0 BY <1>9, <1>13, <1>14
  <2>3. n1 + l1 = usd * d /\ n2 + l2 = usd * d
    <3>1. n1 + l1 \in Int /\ n2 + l2 \in Int BY <1>8
    <3> QED BY <1>5, <1>7, <3>1
  <2>4. (n2 + l2) * k = ue - rm
    <3>1. (usd * d) * k = usd * (d * k) BY <1>3, <1>7
    <3>2. ue = usd * (d * k) BY DEF ue, e
    <3> QED BY <1>9, <2>2, <2>3, <3>1, <3>2
  <2>5. Bought(usd, d, l1, s1, n1, l2, s2, n2, q, c)
    BY <1>7, <2>3, <2>4 DEF Bought, ue, e, rm, r, k
  <2>6. IsBuy(seq, usd, second, d, l1, s1, n1, l2, s2, n2, q)
    BY <1>1, <1>7, <2>1, <2>5 DEF IsBuy, c, a
  <2> QED BY <2>6
<1>15. CASE ~Leq(est, zero)
  <2>1. second = WalkBudget(a, rest) BY <1>15 DEF second
  <2> DEFINE d0 == rest[2]
             b2 == rest[1]
             b1 == usd * d0
  <2>2. rest \in Rational BY <1>4, <1>12
  <2>3. b2 \in Int /\ d0 \in Nat \ {0} /\ Over(rest, d0, b2) BY <2>2, OverItself
  <2>4. b1 \in Nat /\ Over(B, d0, b1) /\ Over(zero, d0, 0)
    <3> HIDE DEF d0
    <3> QED BY <1>5, <2>3
  <2>5. Leq(zero, rest) /\ Leq(rest, B)
    <3>1. Leq(less, B) BY <1>9, <1>13
    <3>2. Leq(zero, zero) BY <1>4, <1>9, <1>11, OverOrder
    <3>3. Leq(zero, B) BY <1>4, <1>9, <1>11, OverOrder
    <3> QED BY <3>1, <3>2, <3>3
  <2> HIDE DEF b1, b2, d0, rest
  <2>6. b2 \in Nat /\ b2 <= b1
    <3>1. Leq(zero, rest) <=> 0 <= b2 BY <1>4, <2>2, <2>3, <2>4, OverOrder
    <3>2. Leq(rest, B) <=> b2 <= b1 BY <1>4, <2>2, <2>3, <2>4, OverOrder
    <3> QED BY <2>3, <2>5, <3>1, <3>2
  <2>7. Together(a, m, first, second, B, rest)
    BY <1>2, <1>4, <2>1, <2>2, <2>3, <2>4, <2>6, WalksTogether DEF first
  <2>8. PICK D, L1, S1, N1, L2, S2, N2 :
           SideBySide(a, m, first, second, B, rest, D, L1, S1, N1, L2, S2, N2)
    BY <2>7 DEF Together
  <2>9. /\ D \in Nat \ {0} /\ Pair(D, L1, S1, N1, L2, S2, N2, q, c)
        /\ AccountOver(first, D, L1, S1, N1) /\ AccountOver(second, D, L2, S2, N2)
        /\ Over(B, D, N1 + L1) /\ Over(rest, D, N2 + L2)
    BY <2>8 DEF SideBySide
  <2>10. L1 \in Nat /\ S1 \in Nat /\ N1 \in Nat /\ L2 \in Nat /\ S2 \in Nat /\ N2 \in Nat
    BY <2>9 DEF Pair
  <2>11. N1 + L1 = usd * D
    <3>1. N1 + L1 \in Int BY <2>10
    <3> QED BY <1>5, <2>9, <3>1
  <2> DEFINE E == D * k
             rM == r * Cheaper(S1, N1)
             uE == usd * E
             y == (N2 + L2) * k
  <2>12. rM \in Nat /\ E \in Nat \ {0} /\ uE \in Nat /\ y \in Nat
    <3>1. rM \in Nat BY <2>9, CheaperInOrder
    <3>2. E \in Nat \ {0} BY <1>3, <2>9, ProductPositive
    <3>3. y \in Nat BY <1>3, <2>10
    <3> HIDE DEF rM, E, y
    <3> QED BY <3>1, <3>2, <3>3
  <2>13. Over(est, E, rM)
    BY <2>9, <2>10, FeeOver DEF est
  <2>14. Over(B, E, uE) /\ Over(zero, E, 0)
    <3> HIDE DEF E
    <3> QED BY <1>5, <2>12
  <2>15. Over(rest, E, y)
    <3> DEFINE x == N2 + L2
    <3>1. x \in Int /\ Over(rest, D, x) BY <2>9, <2>10
    <3> HIDE DEF x
    <3>2. Over(rest, D * k, x * k) BY <1>3, <2>2, <2>9, <3>1, OverMultiple
    <3> QED BY <3>2 DEF x
  <2> HIDE DEF E, rM, uE, y
  <2>16. Over(less, E, uE - rM)
    BY <1>4, <1>10, <2>12, <2>13, <2>14, OverSum DEF less
  <2>17. y = uE - rM \/ (uE < rM /\ y = 0)
    <3> DEFINE x == uE - rM
    <3>1. x \in Int /\ Over(less, E, x) BY <2>12, <2>16
    <3> HIDE DEF x
    <3>2. CASE Leq(zero, less)
      <4>1. rest = less BY <3>2 DEF rest
      <4>2. y = x BY <1>12, <2>12, <2>15, <3>1, <4>1, OverOnce
      <4> QED BY <4>2 DEF x
    <3>3. CASE ~Leq(zero, less)
      <4>1. rest = zero BY <3>3 DEF rest
      <4>2. y = 0 BY <1>4, <2>12, <2>14, <2>15, <4>1, OverOnce
      <4>3. ~(0 <= x) BY <1>4, <1>12, <2>12, <2>14, <3>1, <3>3, OverOrder
      <4>4. uE < rM BY <2>12, <4>3 DEF x
      <4> QED BY <4>2, <4>4
    <3> QED BY <3>2, <3>3
  <2>18. y = 0 => N2 + L2 = 0
    <3> DEFINE x == N2 + L2
    <3>1. x \in Nat /\ y = x * k BY <2>10 DEF y
    <3> HIDE DEF x
    <3>2. y = 0 => x * k = 0 * k BY <1>3, <3>1
    <3>3. y = 0 => x = 0 BY <1>3, <3>1, <3>2, Cancel
    <3> QED BY <3>3 DEF x
  <2>19. Bought(usd, D, L1, S1, N1, L2, S2, N2, q, c)
    BY <2>9, <2>11, <2>17, <2>18 DEF Bought, uE, E, rM, y, r, k
  <2>20. IsBuy(seq, usd, second, D, L1, S1, N1, L2, S2, N2, q)
    BY <1>1, <2>9, <2>19 DEF IsBuy, c, a
  <2> QED BY <2>20
<1> QED BY <1>14, <1>15

\* What was paid and its fee stay within the budget.
LEMMA BudgetKept ==
    ASSUME NEW usd \in Nat, NEW d, NEW l1, NEW s1, NEW n1, NEW l2, NEW s2, NEW n2, NEW q, NEW c,
           Bought(usd, d, l1, s1, n1, l2, s2, n2, q, c)
    PROVE  n2 * Rate[2] + Rate[1] * Cheaper(s2, n2) <= usd * (d * Rate[2])
<1> DEFINE k == Rate[2]
           f1 == Rate[1] * Cheaper(s1, n1)
           f2 == Rate[1] * Cheaper(s2, n2)
           m2 == Cheaper(s2, n2)
           u == usd * (d * k)
           x == n2 * k
           y == l2 * k
<1>1. /\ d \in Nat \ {0} /\ Pair(d, l1, s1, n1, l2, s2, n2, q, c)
      /\ (n2 + l2) * k = u - f1 \/ (u < f1 /\ n2 + l2 = 0)
  BY DEF Bought
<1>2. n2 \in Nat /\ l2 \in Nat /\ s2 \in Nat /\ n2 <= One * s2 BY <1>1 DEF Pair
<1>3. f1 \in Nat /\ f2 \in Nat /\ f2 <= f1 BY <1>1, CheaperInOrder
<1>4. k \in Nat BY BookAssumption
<1>5. u \in Nat
  <2> DEFINE e == d * k
  <2>1. e \in Nat /\ u = usd * e BY <1>1, <1>4
  <2> HIDE DEF e, u
  <2> QED BY <2>1
<1>6. x \in Nat /\ y \in Nat /\ (n2 + l2) * k = x + y BY <1>2, <1>4
<1>7. n2 = 0 => f2 = 0 /\ x = 0
  <2>1. n2 = 0 => m2 = 0
    <3> DEFINE os == One * s2
    <3>1. os \in Nat BY <1>2, BookAssumption
    <3>2. m2 = IF n2 <= os - n2 THEN n2 ELSE os - n2 BY DEF Cheaper
    <3> HIDE DEF os, m2
    <3> QED BY <1>2, <3>1, <3>2
  <2>2. f2 = Rate[1] * m2 OBVIOUS
  <2>3. Rate[1] * 0 = 0 /\ 0 * k = 0 BY <1>4, BookAssumption
  <2> HIDE DEF m2, f2, k
  <2> QED BY <2>1, <2>2, <2>3
<1> HIDE DEF k, f1, f2, u, x, y
<1>8. x + f2 <= u
  <2>1. CASE (n2 + l2) * k = u - f1 BY <1>3, <1>5, <1>6, <2>1
  <2>2. CASE n2 + l2 = 0 BY <1>2, <1>5, <1>7, <2>2
  <2> QED BY <1>1, <2>1, <2>2
<1> QED BY <1>8 DEF x, f2, u, k

\* Cash cannot go negative by a buy: notional and the fee that is really charged
\* stay within the budget, although the fee was estimated on a different fill
\* (simulateMarketBuy, header of book-sim.ts).
THEOREM BudgetsHold == Spec => []BuyStaysInBudget
<1>1. BookInv => BuyStaysInBudget
  <2> SUFFICES ASSUME BookInv, fill.kind = "buy"
               PROVE  Leq(Plus(fill.got.notional, fill.got.fee), Whole(fill.asked))
    BY DEF BuyStaysInBudget
  <2>1. rows \in Seq(Level) BY DEF BookInv
  <2>2. PICK usd \in 1..MaxUsd : fill.asked = usd /\ fill.got = SimulateMarketBuy(rows, usd)
    BY FillOfKind
  <2>3. usd \in Nat BY BookAssumption
  <2>4. PICK acc, d, l1, s1, n1, l2, s2, n2, q : IsBuy(rows, usd, acc, d, l1, s1, n1, l2, s2, n2, q)
    BY <2>1, <2>3, BuySides
  <2> DEFINE c == CostUpTo(Asks(rows), Len(Asks(rows)))
             k == Rate[2]
             e == d * k
             paid == acc.notional
             fee == FeeOn(acc.shares, acc.notional)
             x == n2 * k
             y == Rate[1] * Cheaper(s2, n2)
             u == usd * e
  <2>5. /\ Bought(usd, d, l1, s1, n1, l2, s2, n2, q, c) /\ AccountOver(acc, d, l2, s2, n2)
        /\ fill.got.notional = paid /\ fill.got.fee = fee
    BY <2>2, <2>4 DEF IsBuy
  <2>6. d \in Nat \ {0} /\ Pair(d, l1, s1, n1, l2, s2, n2, q, c) BY <2>5 DEF Bought
  <2>7. s2 \in Nat /\ n2 \in Nat BY <2>6 DEF Pair
  <2>8. k \in Nat \ {0} BY BookAssumption
  <2>9. e \in Nat \ {0} BY <2>6, <2>8, ProductPositive
  <2>10. y \in Nat BY <2>6, CheaperInOrder
  <2>11. x \in Nat /\ u \in Nat
    <3> HIDE DEF e
    <3> QED BY <2>7, <2>8, <2>9
  <2>12. fee \in Rational /\ Over(fee, e, y) BY <2>5, <2>6, <2>7, FeeOver
  <2>13. paid \in Rational /\ Over(paid, e, x)
    <3>1. paid \in Rational /\ Over(paid, d, n2) BY <2>5 DEF AccountOver, Account
    <3> HIDE DEF paid, k
    <3>2. OverBy(paid, d, n2, k) BY <2>6, <2>7, <2>8, <3>1, OverScaled
    <3> QED BY <3>1, <3>2 DEF OverBy
  <2>14. Whole(usd) \in Rational /\ Over(Whole(usd), e, u)
    <3> HIDE DEF e
    <3>1. usd * e = u * 1 BY <2>11
    <3> QED BY <2>3, <3>1 DEF Whole, Rational, Over
  <2>15. x + y <= u BY <2>3, <2>5, BudgetKept
  <2> HIDE DEF paid, fee, e, x, y, u
  <2> DEFINE w == x + y
  <2>16. Plus(paid, fee) \in Rational /\ Over(Plus(paid, fee), e, w) /\ w \in Int
    BY <2>9, <2>10, <2>11, <2>12, <2>13, RationalTyped, OverSum
  <2>17. w <= u BY <2>15
  <2> HIDE DEF w
  <2>18. Leq(Plus(paid, fee), Whole(usd)) BY <2>9, <2>11, <2>14, <2>16, <2>17, OverOrder
  <2> QED BY <2>2, <2>5, <2>18
<1> QED BY <1>1, FillsOnce, PTL

-----------------------------------------------------------------------------
(* One pass is enough.                                                       *)

\* All levels together cost what all rows together cost.
LEMMA DepthIsCost ==
    ASSUME NEW seq \in Seq(Level)
    PROVE  SumFunction([x \in DOMAIN seq |-> seq[x].price * seq[x].size])
             = CostUpTo(Asks(seq), Len(Asks(seq)))
<1> DEFINE b == Asks(seq)
           m == Len(b)
           D == DOMAIN seq
           S == Shown(seq)
           R == 1..m
<1>1. PICK o : Ordered(b, o, seq, 1)
  <2>1. \E o : Ordered(ByPrice(seq, 1), o, seq, 1) BY ByPriceOrdered, 1 \in {-1, 1}
  <2> QED BY <2>1 DEF Asks
<1> HIDE DEF b
<1>2. /\ b \in Seq(Level) /\ m \in Nat /\ Numbers(o, m, S)
      /\ \A i \in R : b[i] = seq[o[i]] /\ b[i].size \in Nat
  BY <1>1, RowsFinite DEF Ordered
<1>3. /\ IsFiniteSet(D) /\ IsFiniteSet(R) /\ S \subseteq D
      /\ \A x \in D : seq[x].price \in Nat /\ seq[x].size \in Nat
  BY <1>2, RowsFinite
<1> DEFINE t == Sizes(b)
           p == [x \in D |-> seq[x].price]
           A == ByRow(t, m, o, seq)
           Ap == [x \in D |-> A[x] * p[x]]
           tp == [i \in R |-> t[i] * p[o[i]]]
           F == [x \in D |-> seq[x].price * seq[x].size]
           G == Costs(b)
<1>4. t \in [R -> Nat] /\ \A i \in R : t[i] = b[i].size BY <1>2 DEF Sizes
<1>5. p \in [D -> Nat] /\ \A x \in D : p[x] = seq[x].price BY <1>3
<1>6. SameByRow(A, t, m, o, seq, p)
  <2> HIDE DEF m, p, t
  <2> QED BY <1>2, <1>4, <1>5, RowSums DEF R
<1>7. \A i \in R : o[i] \in S /\ o[i] \in D BY <1>2, <1>3 DEF Numbers
<1>8. \A x \in S : \E i \in R : o[i] = x BY <1>2 DEF Numbers
<1>9. \A x \in D : x \notin S => seq[x].size = 0
  <2>1. \A x \in D : x \notin S => ~(seq[x].size > 0) BY DEF Shown
  <2> HIDE DEF S
  <2> QED BY <1>3, <2>1
<1> HIDE DEF A, t, p
<1>10. /\ \A i \in R : A[o[i]] = t[i]
       /\ \A x \in D \ S : A[x] = 0
       /\ SumFunctionOnSet(Ap, D) = SumFunctionOnSet(tp, R)
  BY <1>6 DEF SameByRow
<1> HIDE DEF R, S
<1>11. \A x \in D : F[x] = Ap[x]
  <2> SUFFICES ASSUME NEW x \in D PROVE seq[x].price * seq[x].size = A[x] * p[x]
    OBVIOUS
  <2>1. A[x] = seq[x].size
    <3>1. CASE x \in S
      <4>1. PICK i \in R : o[i] = x BY <1>8, <3>1
      <4> QED BY <1>2, <1>4, <1>10, <4>1
    <3>2. CASE x \notin S BY <1>9, <1>10, <3>2
    <3> QED BY <3>1, <3>2
  <2>2. p[x] = seq[x].price BY <1>5
  <2>3. seq[x].price \in Nat /\ seq[x].size \in Nat BY <1>3
  <2> QED BY <2>1, <2>2, <2>3
<1>12. \A i \in R : G[i] = tp[i]
  <2> SUFFICES ASSUME NEW i \in R PROVE G[i] = t[i] * p[o[i]]
    OBVIOUS
  <2>1. G[i] = b[i].price * b[i].size BY DEF Costs, R
  <2>2. t[i] = b[i].size /\ p[o[i]] = b[i].price BY <1>2, <1>4, <1>5, <1>7
  <2>3. b[i].price \in Nat /\ b[i].size \in Nat BY <1>2, RowsFinite DEF R
  <2> HIDE DEF G
  <2> QED BY <2>1, <2>2, <2>3
<1>13. SumFunction(F) = SumFunctionOnSet(F, D)
  BY DEF SumFunction
<1> HIDE DEF F, G, Ap, tp
<1>14. SumFunctionOnSet(F, D) = SumFunctionOnSet(Ap, D) BY <1>3, <1>11, SumSame
<1>15. SumFunctionOnSet(G, R) = SumFunctionOnSet(tp, R) BY <1>3, <1>12, SumSame
<1> QED BY <1>10, <1>13, <1>14, <1>15 DEF CostUpTo, F, G, R, b

\* When the budget is cut by r / k of the cheaper side, the cheaper side shrinks by
\* no more than r / k of the budget: the shares that are given up cost more than
\* the others.
LEMMA SideShrinks ==
    ASSUME NEW n1 \in Nat \ {0}, NEW c1 \in Nat, NEW n2 \in Nat, NEW c2 \in Nat,
           n2 <= n1, c2 <= c1, n2 * c1 <= n1 * c2,
           NEW r \in Nat, NEW k \in Nat \ {0},
           NEW m1 \in Nat, NEW m2 \in Nat,
           m1 = IF n1 <= c1 THEN n1 ELSE c1, m2 = IF n2 <= c2 THEN n2 ELSE c2,
           (n1 - n2) * k = r * m1
    PROVE  (m1 - m2) * k <= r * n1
<1> DEFINE rn == r * n1
           rm == r * m1
<1>1. rm <= rn
  <2>1. BelowTimes(m1, n1, r) BY ProductBelow
  <2>2. m1 * r = rm /\ n1 * r = rn OBVIOUS
  <2> HIDE DEF rm, rn
  <2> QED BY <2>1, <2>2 DEF BelowTimes
<1>2. CASE n2 <= c2
  <2> DEFINE x == m1 - m2
             y == n1 - n2
  <2>1. x \in Int /\ y \in Int /\ x <= y BY <1>2
  <2>2. y * k = rm OBVIOUS
  <2> HIDE DEF x, y, rm, rn
  <2>3. BelowTimes(x, y, k) BY <2>1, ProductBelow
  <2> DEFINE xk == x * k
             yk == y * k
  <2>4. xk \in Int /\ yk \in Int /\ xk <= yk /\ yk = rm BY <2>2, <2>3 DEF BelowTimes
  <2>5. rm \in Int /\ rn \in Int BY DEF rm, rn
  <2> HIDE DEF xk, yk
  <2>6. xk <= rn BY <1>1, <2>4, <2>5
  <2> QED BY <2>6 DEF xk, x, rn
<1>3. CASE c2 < n2
  <2> DEFINE a == n2 * c1
             b == n1 * c2
  <2>1. a \in Int /\ b \in Int /\ a <= b OBVIOUS
  <2>2. c1 < n1
    <3> SUFFICES ASSUME n1 <= c1 PROVE FALSE OBVIOUS
    <3>1. BelowTimes(n1, c1, n2) BY ProductBelow
    <3>2. n1 * n2 = n2 * n1 /\ c1 * n2 = a /\ b = c2 * n1 OBVIOUS
    <3> DEFINE u == n2 * n1
               v == c2 * n1
    <3>3. u \in Int /\ u <= a /\ b = v BY <3>1, <3>2 DEF BelowTimes
    <3> HIDE DEF a, b, u, v
    <3>4. u <= v BY <2>1, <3>3
    <3>5. n2 * n1 <= c2 * n1 BY <3>4 DEF u, v
    <3>6. n2 <= c2 BY <3>5, Cancel
    <3> QED BY <1>3, <3>6
  <2>3. m1 = c1 /\ m2 = c2 BY <1>3, <2>2
  <2> DEFINE y == c1 - c2
             yk == y * k
             cc == c1 * n1
             w == cc - b
             v == cc - a
  <2>4. y \in Nat /\ yk \in Int /\ cc \in Int /\ w \in Int /\ v \in Int /\ w <= v
    <3>1. cc \in Int /\ y \in Nat OBVIOUS
    <3> HIDE DEF a, b, cc
    <3>2. w \in Int /\ v \in Int /\ w <= v BY <2>1, <3>1
    <3>3. yk \in Int BY <3>1
    <3> QED BY <3>1, <3>2, <3>3
  <2>5. yk * n1 = w * k
    <3>1. ((c1 - c2) * k) * n1 = (c1 * n1 - n1 * c2) * k OBVIOUS
    <3> QED BY <3>1
  <2>6. v * k = rm * c1
    <3>1. v * k = ((n1 - n2) * k) * c1 OBVIOUS
    <3> QED BY <3>1
  <2>7. rm \in Int /\ rn \in Int OBVIOUS
  <2> HIDE DEF w, v, yk, rm, rn
  <2>8. BelowTimes(w, v, k) BY <2>4, ProductBelow
  <2>9. BelowTimes(rm, rn, c1) BY <1>1, <2>7, ProductBelow
  <2>10. BelowTimes(c1, n1, rn)
    <3>1. rn \in Nat BY DEF rn
    <3> QED BY <2>2, <3>1, ProductBelow
  <2> DEFINE A1 == yk * n1
             A2 == v * k
             A3 == rn * c1
             A4 == rn * n1
  <2>11. A1 \in Int /\ A2 \in Int /\ A1 <= A2 BY <2>5, <2>8 DEF BelowTimes
  <2>12. A3 \in Int /\ A2 <= A3 BY <2>6, <2>9 DEF BelowTimes
  <2>13. A4 \in Int /\ A3 <= A4
    <3>1. c1 * rn = A3 /\ n1 * rn = A4 BY <2>7
    <3> HIDE DEF A3, A4
    <3> QED BY <2>10, <3>1 DEF BelowTimes
  <2> HIDE DEF A1, A2, A3, A4
  <2>14. A1 <= A4 BY <2>11, <2>12, <2>13
  <2>15. yk * n1 <= rn * n1 BY <2>14 DEF A1, A4
  <2>16. yk <= rn BY <2>4, <2>7, <2>15, Cancel
  <2> QED BY <2>3, <2>16 DEF yk, rn
<1> QED BY <1>2, <1>3

\* A book that costs more than the budget takes all of it in the first walk.
LEMMA BudgetUsed ==
    ASSUME NEW usd \in Nat \ {0}, NEW d, NEW l1, NEW s1, NEW n1, NEW l2, NEW s2, NEW n2, NEW q,
           NEW c \in Nat, Bought(usd, d, l1, s1, n1, l2, s2, n2, q, c), usd <= c
    PROVE  n1 = usd * d /\ n1 \in Nat \ {0} /\ l2 = 0
<1> DEFINE ud == usd * d
           dc == d * c
<1>1. d \in Nat \ {0} /\ n1 + l1 = ud /\ Pair(d, l1, s1, n1, l2, s2, n2, q, c) BY DEF Bought
<1>2. n1 \in Nat /\ l1 \in Nat /\ l2 \in Nat /\ l2 <= l1 /\ (l1 > 0 => n1 = dc) BY <1>1 DEF Pair
<1>3. ud <= dc /\ dc \in Int
  <2>1. BelowTimes(usd, c, d) BY <1>1, ProductBelow
  <2>2. c * d = dc BY <1>1
  <2> QED BY <2>1, <2>2 DEF BelowTimes
<1>4. ud \in Nat \ {0} BY <1>1, ProductPositive
<1> HIDE DEF ud, dc
<1>5. l1 = 0 BY <1>1, <1>2, <1>3, <1>4
<1> QED BY <1>1, <1>2, <1>4, <1>5 DEF ud

\* What the buy leaves of such a budget is of the second order in the rate r / k.
LEMMA LittleIsLeft ==
    ASSUME NEW usd \in Nat \ {0}, NEW d, NEW l1, NEW s1, NEW n1, NEW l2, NEW s2, NEW n2, NEW q,
           NEW c \in Nat, Bought(usd, d, l1, s1, n1, l2, s2, n2, q, c), usd <= c
    PROVE  (usd * (d * Rate[2]) - (n2 * Rate[2] + Rate[1] * Cheaper(s2, n2))) * Rate[2]
              <= (usd * d) * (Rate[1] * Rate[1])
<1> DEFINE r == Rate[1]
           k == Rate[2]
           m1 == Cheaper(s1, n1)
           m2 == Cheaper(s2, n2)
           c1 == One * s1 - n1
           c2 == One * s2 - n2
<1>1. /\ d \in Nat \ {0} /\ Pair(d, l1, s1, n1, l2, s2, n2, q, c)
      /\ (n2 + l2) * k = usd * (d * k) - r * m1 \/ (usd * (d * k) < r * m1 /\ n2 + l2 = 0)
  BY DEF Bought
<1>2. n1 = usd * d /\ n1 \in Nat \ {0} /\ l2 = 0 BY BudgetUsed
<1>3. r \in Nat /\ k \in Nat \ {0} /\ One \in Nat BY BookAssumption
<1>4. /\ s1 \in Nat /\ s2 \in Nat /\ n2 \in Nat /\ n2 <= n1 /\ n2 + l2 = n2
      /\ n1 <= One * s1 /\ n2 <= One * s2
      /\ One * s2 - n2 <= One * s1 - n1 /\ n2 * s1 <= n1 * s2
  BY <1>1, <1>2 DEF Pair
<1>5. m1 \in Nat /\ m2 \in Nat /\ m2 <= m1 BY <1>1, CheaperInOrder
<1>6. /\ c1 \in Nat /\ c2 \in Nat /\ c2 <= c1
      /\ m1 = (IF n1 <= c1 THEN n1 ELSE c1) /\ m2 = (IF n2 <= c2 THEN n2 ELSE c2)
  <2> DEFINE u1 == One * s1
             u2 == One * s2
  <2>1. u1 \in Nat /\ u2 \in Nat BY <1>3, <1>4
  <2>2. n1 <= u1 /\ n2 <= u2 /\ u2 - n2 <= u1 - n1 BY <1>4
  <2>3. m1 = (IF n1 <= c1 THEN n1 ELSE c1) /\ m2 = (IF n2 <= c2 THEN n2 ELSE c2)
    BY DEF Cheaper
  <2> HIDE DEF u1, u2, m1, m2
  <2> QED BY <1>2, <1>4, <2>1, <2>2, <2>3 DEF u1, u2
<1>7. n2 * c1 <= n1 * c2
  <2> DEFINE x == n2 * s1
             y == n1 * s2
             z == n2 * n1
             xo == One * x
             yo == One * y
  <2>1. x \in Nat /\ y \in Nat /\ z \in Nat /\ x <= y BY <1>2, <1>4
  <2>2. n2 * c1 = One * x - z /\ n1 * c2 = One * y - z
    <3>1. n2 * (One * s1 - n1) = One * (n2 * s1) - n2 * n1 BY <1>2, <1>3, <1>4
    <3>2. n1 * (One * s2 - n2) = One * (n1 * s2) - n2 * n1 BY <1>2, <1>3, <1>4
    <3> QED BY <3>1, <3>2
  <2> HIDE DEF x, y, z
  <2>3. xo \in Int /\ yo \in Int /\ xo <= yo
    <3>1. BelowTimes(x, y, One) BY <1>3, <2>1, ProductBelow
    <3>2. x * One = xo /\ y * One = yo BY <1>3, <2>1
    <3> QED BY <3>1, <3>2 DEF BelowTimes
  <2> HIDE DEF xo, yo
  <2>4. xo - z <= yo - z BY <2>1, <2>3
  <2> QED BY <2>2, <2>4 DEF xo, yo
<1> DEFINE ud == usd * d
           nk == n1 * k
           rm == r * m1
           n2k == n2 * k
           rm2 == r * m2
           rr == r * r
<1>8. usd * (d * k) = nk
  <2>1. usd * (d * k) = (usd * d) * k BY <1>1, <1>3
  <2> QED BY <1>2, <2>1
<1>9. nk \in Nat /\ rm \in Nat /\ n2k \in Nat /\ rm2 \in Nat /\ rr \in Nat
  BY <1>2, <1>3, <1>4, <1>5
<1>10. n2k = nk - rm \/ (nk < rm /\ n2 = 0) BY <1>1, <1>2, <1>4, <1>8
<1>11. (nk - (n2k + rm2)) * k <= n1 * rr
  <2>1. CASE n2k = nk - rm
    <3> DEFINE x == (m1 - m2) * k
               y == r * n1
    <3>1. (n1 - n2) * k = r * m1
      <4>1. (n1 - n2) * k = nk - n2k BY <1>2, <1>3, <1>4
      <4> HIDE DEF nk, n2k, rm
      <4> QED BY <1>9, <2>1, <4>1 DEF rm
    <3>2. x <= y
      <4> HIDE DEF c1, c2, m1, m2, r, k
      <4> QED BY <1>2, <1>3, <1>4, <1>5, <1>6, <1>7, <3>1, SideShrinks
    <3>3. x \in Int /\ y \in Int BY <1>2, <1>3, <1>5
    <3>4. BelowTimes(x, y, r)
      <4> HIDE DEF x, y, r
      <4> QED BY <1>3, <3>2, <3>3, ProductBelow
    <3>5. x * r = (rm - rm2) * k BY <1>3, <1>5
    <3>6. y * r = n1 * rr BY <1>2, <1>3
    <3>7. nk - (n2k + rm2) = rm - rm2
      <4> HIDE DEF nk, n2k, rm, rm2
      <4> QED BY <1>9, <2>1
    <3> HIDE DEF x, y
    <3> QED BY <3>4, <3>5, <3>6, <3>7 DEF BelowTimes
  <2>2. CASE nk < rm /\ n2 = 0
    <3>1. m2 = 0 BY <1>5, <1>6, <2>2
    <3>2. n2k = 0 /\ rm2 = 0 BY <1>3, <2>2, <3>1
    <3>3. k <= r
      <4> SUFFICES ASSUME r < k PROVE FALSE BY <1>3
      <4>1. m1 <= n1 BY <1>2, <1>5, <1>6
      <4>2. BelowTimes(m1, n1, r)
        <5> HIDE DEF m1, r
        <5> QED BY <1>2, <1>3, <1>5, <4>1, ProductBelow
      <4>3. BelowTimes(r, k, n1)
        <5> HIDE DEF r, k
        <5> QED BY <1>2, <1>3, ProductBelow
      <4> DEFINE rn == r * n1
      <4>4. m1 * r = rm /\ n1 * r = rn /\ k * n1 = nk BY <1>2, <1>3, <1>5
      <4>5. rn \in Int BY <1>2, <1>3
      <4> HIDE DEF rn, nk, rm
      <4>6. rm <= rn BY <4>2, <4>4 DEF BelowTimes
      <4>7. rn <= nk BY <4>3, <4>4 DEF BelowTimes, rn
      <4> QED BY <1>9, <2>2, <4>5, <4>6, <4>7
    <3> DEFINE kk == k * k
               rk == r * k
    <3>4. kk <= rr
      <4>1. BelowTimes(k, r, k) /\ BelowTimes(k, r, r)
        <5> HIDE DEF r, k
        <5> QED BY <1>3, <3>3, ProductBelow
      <4>2. k * r = rk BY <1>3
      <4>3. kk \in Int /\ rk \in Int /\ rr \in Int BY <1>3
      <4> HIDE DEF kk, rk, rr
      <4>4. kk <= rk BY <4>1 DEF BelowTimes, kk, rk
      <4>5. rk <= rr BY <4>1, <4>2 DEF BelowTimes, rr
      <4> QED BY <4>3, <4>4, <4>5
    <3>5. BelowTimes(kk, rr, n1)
      <4>1. kk \in Int /\ rr \in Int BY <1>3
      <4> HIDE DEF kk, rr
      <4> QED BY <1>2, <3>4, <4>1, ProductBelow
    <3>6. kk * n1 = nk * k /\ rr * n1 = n1 * rr BY <1>2, <1>3
    <3>7. nk - (n2k + rm2) = nk
      <4> HIDE DEF nk, n2k, rm2
      <4> QED BY <1>9, <3>2
    <3> HIDE DEF kk
    <3> QED BY <3>5, <3>6, <3>7 DEF BelowTimes
  <2> QED BY <1>10, <2>1, <2>2
<1> QED BY <1>2, <1>8, <1>11

\* One pass is enough: unless the book is empty-handed, the part of the budget a
\* buy leaves unspent is of the second order in the fee rate (simulateMarketBuy,
\* "converges in one pass").
THEOREM BuysConverge == Spec => []BuyConverges
<1>1. BookInv => BuyConverges
  <2> SUFFICES ASSUME BookInv, fill.kind = "buy", DepthCost >= fill.asked
               PROVE  Leq(Minus(Whole(fill.asked), Plus(fill.got.notional, fill.got.fee)),
                          Times(Whole(fill.asked), Times(Rate, Rate)))
    BY DEF BuyConverges
  <2>1. rows \in Seq(Level) BY DEF BookInv
  <2>2. PICK usd \in 1..MaxUsd : fill.asked = usd /\ fill.got = SimulateMarketBuy(rows, usd)
    BY FillOfKind
  <2>3. usd \in Nat \ {0} BY BookAssumption
  <2>4. PICK acc, d, l1, s1, n1, l2, s2, n2, q : IsBuy(rows, usd, acc, d, l1, s1, n1, l2, s2, n2, q)
    BY <2>1, <2>3, BuySides
  <2> DEFINE c == CostUpTo(Asks(rows), Len(Asks(rows)))
             r == Rate[1]
             k == Rate[2]
             e == d * k
             paid == acc.notional
             fee == FeeOn(acc.shares, acc.notional)
             x == n2 * k
             y == r * Cheaper(s2, n2)
             u == usd * e
             rr == r * r
             kk == k * k
             bound == Times(Whole(usd), Times(Rate, Rate))
  <2>5. /\ Bought(usd, d, l1, s1, n1, l2, s2, n2, q, c) /\ AccountOver(acc, d, l2, s2, n2)
        /\ fill.got.notional = paid /\ fill.got.fee = fee
    BY <2>2, <2>4 DEF IsBuy
  <2>6. d \in Nat \ {0} /\ Pair(d, l1, s1, n1, l2, s2, n2, q, c) BY <2>5 DEF Bought
  <2>7. s2 \in Nat /\ n2 \in Nat BY <2>6 DEF Pair
  <2>8. r \in Nat /\ k \in Nat \ {0} BY BookAssumption
  <2>9. e \in Nat \ {0} BY <2>6, <2>8, ProductPositive
  <2>10. y \in Nat BY <2>6, CheaperInOrder
  <2>11. x \in Nat /\ u \in Nat
    <3> HIDE DEF e
    <3> QED BY <2>3, <2>7, <2>8, <2>9
  <2>12. fee \in Rational /\ Over(fee, e, y) BY <2>5, <2>6, <2>7, FeeOver
  <2>13. paid \in Rational /\ Over(paid, e, x)
    <3>1. paid \in Rational /\ Over(paid, d, n2) BY <2>5 DEF AccountOver, Account
    <3> HIDE DEF paid, k
    <3>2. OverBy(paid, d, n2, k) BY <2>6, <2>7, <2>8, <3>1, OverScaled
    <3> QED BY <3>1, <3>2 DEF OverBy
  <2>14. Whole(usd) \in Rational /\ Over(Whole(usd), e, u)
    <3> HIDE DEF e
    <3>1. usd * e = u * 1 BY <2>3, <2>9, <2>11
    <3> QED BY <2>3, <3>1 DEF Whole, Rational, Over
  <2>15. c \in Nat /\ usd <= c
    <3> DEFINE F == [i \in DOMAIN rows |-> rows[i].price * rows[i].size]
    <3>1. IsFiniteSet(DOMAIN rows) /\ \A i \in DOMAIN rows : F[i] \in Nat BY <2>1, RowsFinite
    <3>2. SumFunction(F) = SumFunctionOnSet(F, DOMAIN rows) BY DEF SumFunction
    <3>3. SumFunction(F) = c BY <2>1, DepthIsCost
    <3>4. DepthCost = SumFunction(F) BY DEF DepthCost
    <3> HIDE DEF F, c
    <3>5. c \in Nat BY <3>1, <3>2, <3>3, SumNat
    <3> QED BY <2>2, <2>3, <3>3, <3>4, <3>5
  <2>16. (u - (x + y)) * k <= (usd * d) * rr
    <3> HIDE DEF c
    <3> QED BY <2>3, <2>5, <2>15, LittleIsLeft
  <2>17. rr \in Nat /\ kk \in Nat \ {0} BY <2>8, ProductPositive
  <2>18. bound = <<usd * rr, 1 * kk>> BY DEF Times, Whole
  <2>19. bound \in Rational /\ Over(bound, e * k, (usd * d) * rr)
    <3>1. (usd * rr) * (e * k) = ((usd * d) * rr) * (1 * kk)
      <4>1. e * k = d * kk BY <2>6, <2>8
      <4> HIDE DEF rr, kk, e
      <4>2. (usd * rr) * (d * kk) = ((usd * d) * rr) * (1 * kk) BY <2>3, <2>6, <2>17
      <4> QED BY <4>1, <4>2
    <3>2. usd * rr \in Int /\ 1 * kk \in Nat \ {0}
      <4> HIDE DEF rr, kk
      <4> QED BY <2>3, <2>17
    <3> HIDE DEF bound, rr, kk, e, k
    <3> QED BY <2>18, <3>1, <3>2 DEF Rational, Over
  <2> HIDE DEF paid, fee, e, x, y, u, bound, rr
  <2> DEFINE w == x + y
             left == Minus(Whole(usd), Plus(paid, fee))
             z == u - w
  <2>20. Plus(paid, fee) \in Rational /\ Over(Plus(paid, fee), e, w) /\ w \in Int
    BY <2>9, <2>10, <2>11, <2>12, <2>13, RationalTyped, OverSum
  <2>21. z * k <= (usd * d) * rr BY <2>16
  <2> HIDE DEF w
  <2>22. left \in Rational /\ Over(left, e, z) /\ z \in Int
    BY <2>9, <2>11, <2>14, <2>20, RationalTyped, OverSum
  <2> HIDE DEF left, z
  <2> DEFINE ek == e * k
             zk == z * k
             b == (usd * d) * rr
  <2>23. Over(left, ek, zk) /\ zk \in Int
    <3>1. OverBy(left, e, z, k) 
      <4> HIDE DEF k
      <4> QED BY <2>8, <2>9, <2>22, OverScaled
    <3> QED BY <2>8, <2>22, <3>1 DEF OverBy
  <2>24. ek \in Nat \ {0} BY <2>8, <2>9, ProductPositive
  <2>25. b \in Int BY <2>3, <2>6, <2>17
  <2>26. zk <= b /\ Over(bound, ek, b) /\ bound \in Rational BY <2>19, <2>21
  <2> HIDE DEF ek, zk, b
  <2>27. Leq(left, bound) BY <2>22, <2>23, <2>24, <2>25, <2>26, OverOrder
  <2> QED BY <2>2, <2>5, <2>27 DEF left, bound
<1> QED BY <1>1, FillsOnce, PTL
=============================================================================
