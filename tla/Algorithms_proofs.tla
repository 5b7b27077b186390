---------------------------- MODULE Algorithms_proofs ----------------------------
(***************************************************************************)
(* Proofs about the computations of the two services: for every width of   *)
(* an integer, every delay, every cart, every catalog of items and order.  *)
(***************************************************************************)
EXTENDS Algorithms, FiniteSetTheorems, SequenceTheorems, TLAPS

-----------------------------------------------------------------------------
(* Induction and recursion.  The library's theorems of that name are about  *)
(* an operator; these are about a set and a function, and so can be used   *)
(* by instantiation.                                                       *)

LEMMA SetInduction ==
  ASSUME NEW S \in SUBSET Nat, 0 \in S, \A n \in S : n + 1 \in S
  PROVE  \A n \in Nat : n \in S
<1> SUFFICES ASSUME NEW n \in Nat, n \notin S PROVE FALSE
  OBVIOUS
<1> DEFINE R == OpToRel(<, Nat)
           T == Nat \ S
<1>1. IsWellFoundedOn(R, Nat)
  BY NatLessThanWellFounded, Zenon
<1>2. R = {ss \in Nat \X Nat : ss[1] < ss[2]}
  BY Zenon DEF OpToRel
<1>3. T \subseteq Nat /\ T # {}
  OBVIOUS
<1> HIDE DEF R
<1>4. PICK m \in T : \A k \in T : ~ (<<k, m>> \in R)
  <2> HIDE DEF T
  <2> QED
    BY <1>1, <1>3, WFMin
<1>5. m \in Nat /\ m # 0
  BY <1>4
<1>6. m - 1 \in Nat /\ m - 1 < m
  BY <1>5
<1>7. m - 1 \notin T
  BY <1>2, <1>4, <1>5, <1>6
<1>8. m - 1 + 1 \in S
  BY <1>6, <1>7
<1>9. QED
  BY <1>4, <1>5, <1>8

(* h is computed up to n from c by the steps Step. *)
Computes(h, n, c, Step) ==
  h[0] = c /\ \A i \in 1 .. n : h[i] = Step[i][h[i - 1]]

LEMMA ComputationExists ==
  ASSUME NEW N \in Nat, NEW S, NEW c \in S, NEW Step \in [1 .. N -> [S -> S]]
  PROVE  \E h \in [0 .. N -> S] : Computes(h, N, c, Step)
<1> DEFINE G == {n \in Nat : n <= N => \E h \in [0 .. n -> S] : Computes(h, n, c, Step)}
<1>1. 0 \in G
  <2> DEFINE h == [i \in 0 .. 0 |-> c]
  <2>1. h \in [0 .. 0 -> S] /\ Computes(h, 0, c, Step)
    BY DEF Computes
  <2>2. QED
    BY <2>1
<1>2. ASSUME NEW n \in G PROVE n + 1 \in G
  <2> SUFFICES ASSUME n + 1 <= N
               PROVE  \E h \in [0 .. n + 1 -> S] : Computes(h, n + 1, c, Step)
    OBVIOUS
  <2>1. PICK h \in [0 .. n -> S] : Computes(h, n, c, Step)
    BY <1>2
  <2> DEFINE g == [i \in 0 .. n + 1 |-> IF i = n + 1 THEN Step[n + 1][h[n]] ELSE h[i]]
  <2>2. n \in Nat /\ n + 1 \in 1 .. N
    BY <1>2
  <2>3. Step[n + 1][h[n]] \in S
    BY <2>1, <2>2
  <2>4. g \in [0 .. n + 1 -> S]
    BY <2>1, <2>2, <2>3
  <2>5. g[0] = c
    BY <2>1, <2>2 DEF Computes
  <2>6. ASSUME NEW i \in 1 .. n + 1 PROVE g[i] = Step[i][g[i - 1]]
    <3>1. CASE i = n + 1
      BY <2>2, <3>1
    <3>2. CASE i # n + 1
      <4>1. i \in 1 .. n /\ i - 1 \in 0 .. n /\ i - 1 # n + 1
        BY <2>2, <3>2
      <4>2. g[i] = h[i] /\ g[i - 1] = h[i - 1]
        BY <2>2, <3>2, <4>1
      <4>3. QED
        BY <2>1, <4>1, <4>2 DEF Computes
    <3>3. QED
      BY <3>1, <3>2
  <2>7. QED
    BY <2>4, <2>5, <2>6 DEF Computes
<1>3. N \in G
  <2>1. G \in SUBSET Nat
    OBVIOUS
  <2> HIDE DEF G
  <2>2. QED
    BY <1>1, <1>2, <2>1, SetInduction
<1>4. QED
  BY <1>3

LEMMA ComputationUnique ==
  ASSUME NEW n \in Nat, NEW c, NEW Step, NEW g, NEW h, NEW m \in Nat, n <= m,
         Computes(g, n, c, Step), Computes(h, m, c, Step)
  PROVE  \A i \in 0 .. n : g[i] = h[i]
<1> DEFINE E == {i \in Nat : i <= n => g[i] = h[i]}
<1>1. 0 \in E
  BY DEF Computes
<1>2. ASSUME NEW i \in E PROVE i + 1 \in E
  <2> SUFFICES ASSUME i + 1 <= n PROVE g[i + 1] = h[i + 1]
    OBVIOUS
  <2>1. /\ i + 1 \in 1 .. n /\ i + 1 \in 1 .. m
        /\ (i + 1) - 1 = i
    BY <1>2
  <2>2. g[i] = h[i]
    BY <1>2
  <2>3. /\ g[i + 1] = Step[i + 1][g[(i + 1) - 1]]
        /\ h[i + 1] = Step[i + 1][h[(i + 1) - 1]]
    BY <2>1 DEF Computes
  <2>4. QED
    BY <2>1, <2>2, <2>3
<1>3. \A i \in Nat : i \in E
  <2>1. E \in SUBSET Nat
    OBVIOUS
  <2> HIDE DEF E
  <2>2. QED
    BY <1>1, <1>2, <2>1, SetInduction
<1>4. QED
  BY <1>3

(* What holds at the start of a computation and after each of its steps     *)
(* holds of all that it computes.                                          *)
LEMMA ComputationRange ==
  ASSUME NEW N \in Nat, NEW S, NEW s, s[0] \in S,
         \A n \in 1 .. N : s[n - 1] \in S => s[n] \in S
  PROVE  \A n \in 0 .. N : s[n] \in S
<1> DEFINE T == {n \in Nat : n <= N => s[n] \in S}
<1>1. 0 \in T
  OBVIOUS
<1>2. ASSUME NEW n \in T PROVE n + 1 \in T
  <2> SUFFICES ASSUME n + 1 <= N PROVE s[n + 1] \in S
    OBVIOUS
  <2>1. n + 1 \in 1 .. N /\ (n + 1) - 1 = n /\ s[n] \in S
    BY <1>2
  <2>2. s[(n + 1) - 1] \in S => s[n + 1] \in S
    BY <2>1
  <2>3. QED
    BY <2>1, <2>2
<1>3. \A n \in Nat : n \in T
  <2>1. T \in SUBSET Nat
    OBVIOUS
  <2> HIDE DEF T
  <2>2. QED
    BY <1>1, <1>2, <2>1, SetInduction
<1>4. QED
  BY <1>3

(* A function that is computed step by step from 0 on exists. *)
IsComputed(f, c, Step) ==
  f[0] = c /\ \A n \in Nat : f[n + 1] = Step[n + 1][f[n]]

LEMMA Recursion ==
  ASSUME NEW S, NEW c \in S, NEW Step \in [Nat -> [S -> S]]
  PROVE  \E f \in [Nat -> S] : IsComputed(f, c, Step)
<1> DEFINE H(n) == CHOOSE h \in [0 .. n -> S] : Computes(h, n, c, Step)
           f == [n \in Nat |-> H(n)[n]]
<1>1. ASSUME NEW n \in Nat PROVE H(n) \in [0 .. n -> S] /\ Computes(H(n), n, c, Step)
  <2>1. \E h \in [0 .. n -> S] : Computes(h, n, c, [i \in 1 .. n |-> Step[i]])
    <3>1. [i \in 1 .. n |-> Step[i]] \in [1 .. n -> [S -> S]]
      OBVIOUS
    <3>2. QED
      BY <3>1, ComputationExists
  <2>2. \E h \in [0 .. n -> S] : Computes(h, n, c, Step)
    BY <2>1 DEF Computes
  <2>3. QED
    BY <2>2
<1> HIDE DEF H
<1>2. f \in [Nat -> S]
  BY <1>1
<1>3. f[0] = c
  BY <1>1 DEF Computes
<1>4. ASSUME NEW n \in Nat PROVE f[n + 1] = Step[n + 1][f[n]]
  <2>1. n + 1 \in Nat /\ n <= n + 1 /\ n \in 0 .. n /\ n + 1 \in 1 .. n + 1
    OBVIOUS
  <2>2. H(n)[n] = H(n + 1)[n]
    BY <1>1, <2>1, ComputationUnique
  <2>3. H(n + 1)[n + 1] = Step[n + 1][H(n + 1)[(n + 1) - 1]]
    BY <1>1, <2>1 DEF Computes
  <2>4. (n + 1) - 1 = n
    OBVIOUS
  <2>5. QED
    BY <2>1, <2>2, <2>3, <2>4
<1>5. QED
  BY <1>2, <1>3, <1>4 DEF IsComputed

-----------------------------------------------------------------------------
(* Integers of a fixed width.                                              *)

LEMMA PowerFact ==
  /\ PowerOfTwo[0] = 1
  /\ \A n \in Nat : PowerOfTwo[n + 1] = 2 * PowerOfTwo[n] /\ PowerOfTwo[n] \in Nat \ {0}
<1> DEFINE Eq(g) == g = [n \in Nat |-> IF n = 0 THEN 1 ELSE 2 * g[n - 1]]
           Pos == Nat \ {0}
           Step == [n \in Nat |-> [x \in Pos |-> 2 * x]]
<1>1. PICK f \in [Nat -> Pos] : IsComputed(f, 1, Step)
  <2>1. Step \in [Nat -> [Pos -> Pos]] /\ 1 \in Pos
    OBVIOUS
  <2> HIDE DEF Step, Pos
  <2>2. QED
    BY <2>1, Recursion
<1>2. \A n \in Nat : f[n] = IF n = 0 THEN 1 ELSE 2 * f[n - 1]
  <2>1. ASSUME NEW n \in Nat, n # 0 PROVE f[n] = 2 * f[n - 1]
    <3>1. n - 1 \in Nat /\ (n - 1) + 1 = n
      BY <2>1
    <3>2. f[n - 1] \in Nat \ {0}
      BY <3>1
    <3>3. f[n] = Step[n][f[n - 1]]
      BY <1>1, <3>1 DEF IsComputed
    <3>4. QED
      BY <3>2, <3>3
  <2>2. QED
    BY <1>1, <2>1 DEF IsComputed
<1>3. Eq(f)
  BY <1>2
<1>4. Eq(PowerOfTwo)
  <2>1. PowerOfTwo = CHOOSE g : Eq(g)
    BY DEF PowerOfTwo
  <2> HIDE DEF Eq
  <2>2. QED
    BY <1>3, <2>1
<1> DEFINE P == {n \in Nat : PowerOfTwo[n] \in Nat \ {0}}
<1>5. PowerOfTwo[0] = 1 /\ \A n \in Nat : PowerOfTwo[n + 1] = 2 * PowerOfTwo[n]
  BY <1>4
<1>6. \A n \in Nat : n \in P
  <2>1. 0 \in P /\ \A n \in P : n + 1 \in P
    BY <1>5
  <2>2. P \in SUBSET Nat
    OBVIOUS
  <2> HIDE DEF P
  <2>3. QED
    BY <2>1, <2>2, SetInduction
<1>7. QED
  BY <1>5, <1>6

LEMMA MaxIntType == Half \in Nat \ {0} /\ MaxInt \in Nat /\ MaxInt = Half - 1
BY PowerFact, WidthAssumption DEF Half, MaxInt

(* A result that fits is what it is. *)
LEMMA WrappedFits ==
  ASSUME NEW n \in Nat, n <= MaxInt
  PROVE  Wrapped(n) = n
<1>1. n + Half \in 0 .. 2 * Half - 1
  BY MaxIntType
<1>2. (n + Half) % (2 * Half) = n + Half
  BY <1>1, MaxIntType
<1>3. QED
  BY <1>2, MaxIntType DEF Wrapped

LEMMA TimesIsMonotonic ==
  ASSUME NEW p \in Nat, NEW r \in Nat, p <= r, NEW q \in Nat
  PROVE  p * q <= r * q /\ p * q \in Nat
OBVIOUS

(* Dividing the bound tells whether a product passes it. *)
LEMMA FitsByDivision ==
  ASSUME NEW p \in Nat, NEW q \in Nat \ {0}, NEW bound \in Nat
  PROVE  p > bound \div q <=> p * q > bound
<1> DEFINE d == bound \div q
<1>1. d \in Nat /\ d * q <= bound /\ bound < (d + 1) * q
  OBVIOUS
<1> HIDE DEF d
<1>2. CASE p <= d
  <2>1. p * q <= d * q
    BY <1>1, <1>2, TimesIsMonotonic
  <2>2. QED
    BY <1>1, <1>2, <2>1 DEF d
<1>3. CASE p > d
  <2>1. (d + 1) * q <= p * q
    BY <1>1, <1>3, TimesIsMonotonic
  <2>2. QED
    BY <1>1, <1>3, <2>1 DEF d
<1>4. QED
  BY <1>1, <1>2, <1>3

-----------------------------------------------------------------------------
(* The delay of a retry.                                                   *)

(* One turn of the loop. *)
NextDelay(d, max) ==
  IF d >= max THEN d ELSE IF d > max \div 2 THEN max ELSE Wrapped(2 * d)

(* A turn doubles the delay, or cuts it at the maximum; it never wraps. *)
LEMMA NextDelayDoubles ==
  ASSUME NEW max \in 1 .. MaxInt, NEW d \in 1 .. max
  PROVE  NextDelay(d, max) = IF 2 * d > max THEN max ELSE 2 * d
<1>1. max \in Nat /\ max <= MaxInt /\ d \in Nat /\ 2 * d \in Nat
  BY MaxIntType
<1>2. d > max \div 2 <=> 2 * d > max
  BY <1>1
<1>3. CASE d >= max
  BY <1>1, <1>3 DEF NextDelay
<1>4. CASE d < max /\ 2 * d > max
  BY <1>1, <1>2, <1>4 DEF NextDelay
<1>5. CASE 2 * d <= max
  <2>1. Wrapped(2 * d) = 2 * d
    BY <1>1, <1>5, MaxIntType, WrappedFits
  <2>2. d < max \/ d = 2 * d
    BY <1>1, <1>5
  <2>3. QED
    BY <1>1, <1>2, <1>5, <2>1, <2>2 DEF NextDelay
<1>6. QED
  BY <1>1, <1>3, <1>4, <1>5

LEMMA DelayEquation ==
  ASSUME NEW max \in 1 .. MaxInt, NEW base \in 1 .. max
  PROVE  /\ DelayAfter(base, max)[1] = base
         /\ \A n \in Nat \ {0} :
              DelayAfter(base, max)[n + 1] = NextDelay(DelayAfter(base, max)[n], max)
<1> DEFINE S == 1 .. max
           Eq(g) == g = [n \in Nat |-> IF n <= 1 THEN base
                                       ELSE NextDelay(g[n - 1], max)]
           Step == [n \in Nat |-> [d \in S |-> IF n <= 1 THEN base
                                               ELSE NextDelay(d, max)]]
<1>1. PICK f \in [Nat -> S] : IsComputed(f, base, Step)
  <2>1. \A d \in S : NextDelay(d, max) \in S
    BY NextDelayDoubles, MaxIntType
  <2>2. Step \in [Nat -> [S -> S]] /\ base \in S
    BY <2>1
  <2> HIDE DEF S, Step
  <2>3. QED
    BY <2>2, Recursion
<1>2. \A n \in Nat : f[n] = IF n <= 1 THEN base ELSE NextDelay(f[n - 1], max)
  <2>1. ASSUME NEW n \in Nat, n # 0
        PROVE  f[n] = IF n <= 1 THEN base ELSE NextDelay(f[n - 1], max)
    <3>1. n - 1 \in Nat /\ (n - 1) + 1 = n
      BY <2>1
    <3>2. f[n - 1] \in S
      BY <3>1
    <3>3. f[n] = Step[n][f[n - 1]]
      BY <1>1, <3>1 DEF IsComputed
    <3> HIDE DEF S
    <3>4. QED
      BY <3>2, <3>3
  <2>2. QED
    BY <1>1, <2>1 DEF IsComputed
<1>3. Eq(f)
  BY <1>2
<1>4. Eq(DelayAfter(base, max))
  <2>1. DelayAfter(base, max) = CHOOSE g : Eq(g)
    BY DEF DelayAfter, NextDelay
  <2> HIDE DEF Eq
  <2>2. QED
    BY <1>3, <2>1
<1>5. QED
  BY <1>4

(* The delay is the base doubled n times over, cut at the maximum. *)
LEMMA DelayDoubles ==
  ASSUME NEW max \in 1 .. MaxInt, NEW base \in 1 .. max
  PROVE  \A n \in Nat :
           DelayAfter(base, max)[n + 1] =
             IF base * PowerOfTwo[n] > max THEN max ELSE base * PowerOfTwo[n]
<1> DEFINE delay == DelayAfter(base, max)
           Cut(n) == IF base * PowerOfTwo[n] > max THEN max ELSE base * PowerOfTwo[n]
           D == {n \in Nat : delay[n + 1] = Cut(n)}
<1>1. max \in Nat /\ base \in Nat /\ base >= 1 /\ base <= max
  BY MaxIntType
<1>2. delay[1] = base /\ \A n \in Nat \ {0} : delay[n + 1] = NextDelay(delay[n], max)
  BY DelayEquation
<1> HIDE DEF delay
<1>3. 0 \in D
  BY <1>1, <1>2, PowerFact
<1>4. ASSUME NEW n \in D PROVE n + 1 \in D
  <2> DEFINE x == base * PowerOfTwo[n]
  <2>1. n \in Nat /\ PowerOfTwo[n] \in Nat \ {0} /\ PowerOfTwo[n + 1] = 2 * PowerOfTwo[n]
    BY PowerFact
  <2>2. x \in Nat /\ x >= 1 /\ base * PowerOfTwo[n + 1] = 2 * x
    BY <1>1, <2>1
  <2>3. delay[n + 1] = IF x > max THEN max ELSE x
    OBVIOUS
  <2>4. delay[(n + 1) + 1] = NextDelay(delay[n + 1], max)
    BY <1>2, <2>1
  <2> HIDE DEF x
  <2>5. delay[n + 1] \in 1 .. max
    BY <1>1, <2>2, <2>3
  <2>6. NextDelay(delay[n + 1], max) =
          IF 2 * delay[n + 1] > max THEN max ELSE 2 * delay[n + 1]
    BY <2>5, NextDelayDoubles
  <2>7. delay[(n + 1) + 1] = IF 2 * x > max THEN max ELSE 2 * x
    BY <1>1, <2>2, <2>3, <2>4, <2>6
  <2>8. QED
    BY <2>1, <2>2, <2>7
<1>5. \A n \in Nat : n \in D
  <2>1. D \in SUBSET Nat
    OBVIOUS
  <2> HIDE DEF D
  <2>2. QED
    BY <1>3, <1>4, <2>1, SetInduction
<1>6. QED
  BY <1>5 DEF delay

-----------------------------------------------------------------------------
(* The subtotal of a cart.                                                 *)

Subtotals == (0 .. MaxInt) \cup {Invalid}

LEMMA LinePrice ==
  ASSUME NEW line \in Lines
  PROVE  /\ line.price \in 0 .. MaxInt
         /\ line.quantity \in Nat \ {0}
         /\ line.price * line.quantity \in Nat
<1>1. line.price \in 0 .. MaxInt /\ line.quantity \in Nat \ {0}
  BY BoundsAssumption DEF Lines
<1>2. line.price \in Nat
  BY <1>1, MaxIntType
<1>3. QED
  BY <1>1, <1>2, TimesIsMonotonic

(* A line is added in full, or the cart is refused; nothing wraps. *)
LEMMA AddLineExact ==
  ASSUME NEW line \in Lines, NEW subtotal \in Subtotals
  PROVE  AddLine(subtotal, line) =
           IF subtotal = Invalid \/ subtotal + line.price * line.quantity > MaxInt
           THEN Invalid ELSE subtotal + line.price * line.quantity
<1> DEFINE cost == line.price * line.quantity
<1>1. /\ line.price \in Nat /\ line.quantity \in Nat \ {0} /\ cost \in Nat
      /\ MaxInt \in Nat
      /\ subtotal \in Nat \/ subtotal = Invalid
  BY LinePrice, MaxIntType DEF Subtotals
<1>2. line.price > MaxInt \div line.quantity <=> cost > MaxInt
  BY <1>1, FitsByDivision
<1> HIDE DEF cost
<1>3. CASE subtotal = Invalid
  BY <1>3 DEF AddLine
<1>4. CASE subtotal # Invalid /\ cost > MaxInt
  BY <1>1, <1>2, <1>4 DEF AddLine, cost
<1>5. CASE subtotal # Invalid /\ cost <= MaxInt
  <2>1. Wrapped(cost) = cost
    BY <1>1, <1>5, WrappedFits
  <2>2. ~ (line.price > MaxInt \div line.quantity)
    BY <1>1, <1>2, <1>5
  <2>3. subtotal > MaxInt - cost <=> subtotal + cost > MaxInt
    BY <1>1, <1>5
  <2>4. subtotal + cost <= MaxInt => Wrapped(subtotal + cost) = subtotal + cost
    BY <1>1, <1>5, WrappedFits
  <2>5. AddLine(subtotal, line) =
          IF subtotal > MaxInt - cost THEN Invalid ELSE Wrapped(subtotal + cost)
    BY <1>5, <2>1, <2>2 DEF AddLine, cost
  <2>6. subtotal \in Nat
    BY <1>1, <1>5
  <2>7. QED
    BY <1>1, <1>5, <2>3, <2>4, <2>5, <2>6 DEF cost
<1>6. QED
  BY <1>1, <1>3, <1>4, <1>5

LEMMA AddLineType ==
  ASSUME NEW line \in Lines, NEW subtotal \in Subtotals
  PROVE  AddLine(subtotal, line) \in Subtotals
<1>1. /\ MaxInt \in Nat
      /\ line.price * line.quantity \in Nat
      /\ subtotal \in Nat \/ subtotal = Invalid
  BY LinePrice, MaxIntType DEF Subtotals
<1>2. AddLine(subtotal, line) =
        IF subtotal = Invalid \/ subtotal + line.price * line.quantity > MaxInt
        THEN Invalid ELSE subtotal + line.price * line.quantity
  BY AddLineExact
<1>3. QED
  BY <1>1, <1>2 DEF Subtotals

(* The loop of Subtotal. *)
LEMMA SubtotalLoop ==
  ASSUME NEW N \in Nat, NEW lines \in [1 .. N -> Lines]
  PROVE  \E s \in [0 .. N -> Subtotals] :
           /\ Subtotal(lines) = s[N]
           /\ s[0] = 0
           /\ \A n \in 1 .. N : s[n] = AddLine(s[n - 1], lines[n])
<1> DEFINE Eq(g) == g = [n \in 0 .. Len(lines) |->
                           IF n = 0 THEN 0 ELSE AddLine(g[n - 1], lines[n])]
           Step == [n \in 1 .. N |-> [x \in Subtotals |-> AddLine(x, lines[n])]]
           s == CHOOSE g : Eq(g)
<1>1. Len(lines) = N
  BY LenProperties, IsASeq
<1>2. 0 \in Subtotals
  BY MaxIntType DEF Subtotals
<1>3. \A n \in 1 .. N, x \in Subtotals : AddLine(x, lines[n]) \in Subtotals
  BY AddLineType
<1>4. PICK h \in [0 .. N -> Subtotals] : Computes(h, N, 0, Step)
  <2>1. Step \in [1 .. N -> [Subtotals -> Subtotals]]
    BY <1>3
  <2> HIDE DEF Step
  <2>2. QED
    BY <1>2, <2>1, ComputationExists
<1>5. \A n \in 0 .. N : h[n] = IF n = 0 THEN 0 ELSE AddLine(h[n - 1], lines[n])
  <2>1. ASSUME NEW n \in 1 .. N PROVE h[n] = AddLine(h[n - 1], lines[n])
    <3>1. h[n - 1] \in Subtotals
      OBVIOUS
    <3>2. h[n] = Step[n][h[n - 1]]
      BY <1>4 DEF Computes
    <3>3. QED
      BY <3>1, <3>2
  <2>2. QED
    BY <1>4, <2>1 DEF Computes
<1>6. Eq(s)
  <2>1. Eq(h)
    BY <1>1, <1>5
  <2> HIDE DEF Eq
  <2>2. QED
    BY <2>1
<1>7. Subtotal(lines) = s[N]
  BY <1>1 DEF Subtotal
<1> HIDE DEF s
<1>8. s[0] = 0 /\ \A n \in 1 .. N : s[n] = AddLine(s[n - 1], lines[n])
  BY <1>1, <1>6
<1>9. \A n \in 0 .. N : s[n] \in Subtotals
  <2>1. \A n \in 1 .. N : s[n - 1] \in Subtotals => s[n] \in Subtotals
    BY <1>3, <1>8
  <2>2. QED
    BY <1>2, <1>8, <2>1, ComputationRange
<1>10. s \in [0 .. N -> Subtotals]
  <2>1. s = [n \in 0 .. N |-> IF n = 0 THEN 0 ELSE AddLine(s[n - 1], lines[n])]
    BY <1>1, <1>6
  <2>2. s = [n \in 0 .. N |-> s[n]]
    BY <2>1
  <2>3. QED
    BY <1>9, <2>2
<1>11. QED
  BY <1>7, <1>8, <1>10

(* The loop of TrueTotal. *)
LEMMA TrueTotalLoop ==
  ASSUME NEW N \in Nat, NEW lines \in [1 .. N -> Lines]
  PROVE  \E t \in [0 .. N -> Nat] :
           /\ TrueTotal(lines) = t[N]
           /\ t[0] = 0
           /\ \A n \in 1 .. N : t[n] = t[n - 1] + lines[n].price * lines[n].quantity
<1> DEFINE Eq(g) == g = [n \in 0 .. Len(lines) |->
                           IF n = 0 THEN 0
                           ELSE g[n - 1] + lines[n].price * lines[n].quantity]
           Step == [n \in 1 .. N |->
                      [x \in Nat |-> x + lines[n].price * lines[n].quantity]]
           t == CHOOSE g : Eq(g)
<1>1. Len(lines) = N
  BY LenProperties, IsASeq
<1>2. \A n \in 1 .. N : lines[n].price * lines[n].quantity \in Nat
  BY LinePrice
<1>3. PICK h \in [0 .. N -> Nat] : Computes(h, N, 0, Step)
  <2>1. Step \in [1 .. N -> [Nat -> Nat]]
    <3>1. \A n \in 1 .. N, x \in Nat : x + lines[n].price * lines[n].quantity \in Nat
      BY <1>2
    <3>2. QED
      BY <3>1
  <2> HIDE DEF Step
  <2>2. QED
    BY <2>1, ComputationExists
<1>4. \A n \in 0 .. N :
        h[n] = IF n = 0 THEN 0 ELSE h[n - 1] + lines[n].price * lines[n].quantity
  <2>1. ASSUME NEW n \in 1 .. N
        PROVE  h[n] = h[n - 1] + lines[n].price * lines[n].quantity
    <3>1. h[n - 1] \in Nat
      OBVIOUS
    <3>2. h[n] = Step[n][h[n - 1]]
      BY <1>3 DEF Computes
    <3>3. QED
      BY <3>1, <3>2
  <2>2. QED
    BY <1>3, <2>1 DEF Computes
<1>5. Eq(t)
  <2>1. Eq(h)
    BY <1>1, <1>4
  <2> HIDE DEF Eq
  <2>2. QED
    BY <2>1
<1>6. TrueTotal(lines) = t[N]
  BY <1>1 DEF TrueTotal
<1> HIDE DEF t
<1>7. t[0] = 0 /\ \A n \in 1 .. N : t[n] = t[n - 1] + lines[n].price * lines[n].quantity
  BY <1>1, <1>5
<1>8. \A n \in 0 .. N : t[n] \in Nat
  <2>1. ASSUME NEW n \in 1 .. N, t[n - 1] \in Nat PROVE t[n] \in Nat
    <3> DEFINE cost == lines[n].price * lines[n].quantity
    <3>1. cost \in Nat /\ t[n] = t[n - 1] + cost
      BY <1>2, <1>7
    <3> HIDE DEF cost
    <3>2. QED
      BY <2>1, <3>1
  <2>2. t[0] \in Nat
    BY <1>7
  <2>3. QED
    BY <2>1, <2>2, ComputationRange, Zenon
<1>9. t \in [0 .. N -> Nat]
  <2>1. t = [n \in 0 .. N |->
               IF n = 0 THEN 0 ELSE t[n - 1] + lines[n].price * lines[n].quantity]
    BY <1>1, <1>5
  <2>2. t = [n \in 0 .. N |-> t[n]]
    BY <2>1
  <2>3. QED
    BY <1>8, <2>2
<1>10. QED
  BY <1>6, <1>7, <1>9

(* After every line the subtotal is the true total, or the cart is refused  *)
(* because the true total has left the range, where it stays: no line costs *)
(* less than nothing.                                                      *)
LEMMA SubtotalExact ==
  ASSUME NEW N \in Nat, NEW lines \in [1 .. N -> Lines]
  PROVE  Subtotal(lines) =
           IF TrueTotal(lines) <= MaxInt THEN TrueTotal(lines) ELSE Invalid
<1>1. PICK s \in [0 .. N -> Subtotals] :
        /\ Subtotal(lines) = s[N]
        /\ s[0] = 0
        /\ \A n \in 1 .. N : s[n] = AddLine(s[n - 1], lines[n])
  BY SubtotalLoop
<1>2. PICK t \in [0 .. N -> Nat] :
        /\ TrueTotal(lines) = t[N]
        /\ t[0] = 0
        /\ \A n \in 1 .. N : t[n] = t[n - 1] + lines[n].price * lines[n].quantity
  BY TrueTotalLoop
<1> DEFINE Same(n) == s[n] = IF t[n] <= MaxInt THEN t[n] ELSE Invalid
           T == {n \in Nat : n <= N => Same(n)}
<1>3. 0 \in T
  BY <1>1, <1>2, MaxIntType
<1>4. ASSUME NEW n \in T PROVE n + 1 \in T
  <2> SUFFICES ASSUME n + 1 <= N PROVE Same(n + 1)
    OBVIOUS
  <2>1. n \in 0 .. N /\ n + 1 \in 1 .. N /\ (n + 1) - 1 = n
    BY <1>4
  <2> DEFINE cost == lines[n + 1].price * lines[n + 1].quantity
  <2>2. lines[n + 1] \in Lines /\ s[n] \in Subtotals /\ t[n] \in Nat
    BY <1>1, <1>2, <2>1
  <2>3. cost \in Nat
    BY <2>2, LinePrice
  <2>4. s[n + 1] = IF s[n] = Invalid \/ s[n] + cost > MaxInt THEN Invalid ELSE s[n] + cost
    BY <1>1, <2>1, <2>2, AddLineExact
  <2>5. t[n + 1] = t[n] + cost
    BY <1>2, <2>1
  <2>6. Same(n)
    BY <2>1
  <2> HIDE DEF cost
  <2>7. QED
    BY <2>2, <2>3, <2>4, <2>5, <2>6, MaxIntType DEF Invalid
<1>5. \A n \in Nat : n \in T
  <2>1. T \in SUBSET Nat
    OBVIOUS
  <2> HIDE DEF T
  <2>2. QED
    BY <1>3, <1>4, <2>1, SetInduction
<1>6. Same(N)
  BY <1>5
<1>7. QED
  BY <1>1, <1>2, <1>6

-----------------------------------------------------------------------------
(* The decision on an order.                                               *)

LEMMA NeedType ==
  ASSUME NEW p \in Items, NEW q \in Nat
  PROVE  /\ Parts(p) \subseteq Items
         /\ \A i \in Parts(p) : Need(p, q, i) \in Nat
<1>1. Parts(p) \subseteq Items
  BY ItemsAssumption DEF Parts
<1>2. ASSUME NEW i \in Parts(p) PROVE Need(p, q, i) \in Nat
  <2>1. CASE Kind[p] = "physical"
    BY <2>1 DEF Need
  <2>2. CASE Kind[p] # "physical"
    <3>1. Kind[p] = "composite"
      BY <2>2, <1>2, ItemsAssumption DEF Parts
    <3>2. Recipe[p][i] \in Nat /\ Scale \in Nat /\ Scale > 0
      BY <3>1, <1>2, ItemsAssumption DEF Parts
    <3>3. Recipe[p][i] * q \in Nat
      BY <3>2, TimesIsMonotonic
    <3>4. Ceiling(Recipe[p][i] * q) \in Nat
      <4> DEFINE amount == Recipe[p][i] * q
      <4>1. amount \in Nat
        BY <3>3
      <4> HIDE DEF amount
      <4>2. Ceiling(amount) \in Nat
        BY <3>2, <4>1 DEF Ceiling
      <4>3. QED
        BY <4>2 DEF amount
    <3>5. QED
      BY <2>2, <3>4 DEF Need
  <2>3. QED
    BY <2>1, <2>2
<1>3. QED
  BY <1>1, <1>2

IsOrder(order) ==
  DOMAIN order \subseteq Items /\ \A p \in DOMAIN order : order[p] \in Nat

(* The units of item i that line p of an order takes. *)
LineUnits(order, p, i) ==
  IF i \in Parts(p) THEN {p} \X (1 .. Need(p, order[p], i)) ELSE {}

LEMMA LineUnitsCount ==
  ASSUME NEW order, IsOrder(order), NEW p \in DOMAIN order, NEW i
  PROVE  /\ IsFiniteSet(LineUnits(order, p, i))
         /\ Cardinality(LineUnits(order, p, i))
              = IF i \in Parts(p) THEN Need(p, order[p], i) ELSE 0
<1>1. CASE i \in Parts(p)
  <2> DEFINE need == Need(p, order[p], i)
  <2>1. need \in Nat
    BY <1>1, NeedType DEF IsOrder
  <2>2. LineUnits(order, p, i) = {p} \X (1 .. need)
    BY <1>1 DEF LineUnits
  <2> HIDE DEF need
  <2>3. IsFiniteSet(1 .. need) /\ Cardinality(1 .. need) = need
    BY <2>1, FS_Interval
  <2>4. IsFiniteSet({p}) /\ Cardinality({p}) = 1
    BY FS_Singleton
  <2>5. /\ IsFiniteSet({p} \X (1 .. need))
        /\ Cardinality({p} \X (1 .. need)) = Cardinality({p}) * Cardinality(1 .. need)
    BY <2>3, <2>4, FS_Product
  <2>6. 1 * need = need
    BY <2>1
  <2>7. QED
    BY <1>1, <2>2, <2>3, <2>4, <2>5, <2>6 DEF need
<1>2. CASE i \notin Parts(p)
  BY <1>2, FS_EmptySet DEF LineUnits
<1>3. QED
  BY <1>1, <1>2

(* The lines of an order, each once, one after the other. *)
LEMMA SequenceOfAll ==
  ASSUME NEW D, IsFiniteSet(D)
  PROVE  /\ Cardinality(D) \in Nat
         /\ SetToSeq(D) \in [1 .. Cardinality(D) -> D]
         /\ IsInjective(SetToSeq(D))
         /\ \A p \in D : \E n \in 1 .. Cardinality(D) : SetToSeq(D)[n] = p
<1> DEFINE N == Cardinality(D)
           f == SetToSeq(D)
<1>1. N \in Nat /\ ExistsBijection(1 .. N, D)
  BY FS_CardinalityType
<1>2. \E g \in [1 .. N -> D] : IsInjective(g)
  BY <1>1 DEF ExistsBijection, Bijection, Injection
<1>3. f \in [1 .. N -> D] /\ IsInjective(f)
  BY <1>2 DEF SetToSeq
<1>4. IsFiniteSet(1 .. N) /\ Cardinality(1 .. N) = N
  BY <1>1, FS_Interval
<1>5. f \in Surjection(1 .. N, D)
  <2>1. f \in Injection(1 .. N, D)
    BY <1>3 DEF Injection
  <2> HIDE DEF f
  <2>2. QED
    BY <1>4, <2>1, FS_Injection
<1>6. QED
  BY <1>1, <1>3, <1>5 DEF Surjection

Levels == [Items -> Int]

LEMMA ServeType ==
  ASSUME NEW order, IsOrder(order), NEW p \in DOMAIN order, NEW left \in Levels
  PROVE  Serve(order, left, p) \in Levels
<1>1. \A i \in Items :
        left[i] - (IF i \in Parts(p) THEN Need(p, order[p], i) ELSE 0) \in Int
  BY NeedType DEF IsOrder, Levels
<1>2. QED
  BY <1>1 DEF Serve, Levels

(* The loop of LeftAfter. *)
LEMMA LeftLoop ==
  ASSUME NEW order, IsOrder(order), NEW stock \in Levels,
         NEW N \in Nat, N = Cardinality(DOMAIN order),
         NEW line \in [1 .. N -> DOMAIN order], line = SetToSeq(DOMAIN order)
  PROVE  \E left \in [0 .. N -> Levels] :
           /\ LeftAfter(order, stock) = left[N]
           /\ left[0] = stock
           /\ \A n \in 1 .. N : left[n] = Serve(order, left[n - 1], line[n])
<1> DEFINE Eq(g) == g = [n \in 0 .. Len(line) |->
                           IF n = 0 THEN stock ELSE Serve(order, g[n - 1], line[n])]
           Step == [n \in 1 .. N |-> [x \in Levels |-> Serve(order, x, line[n])]]
           left == CHOOSE g : Eq(g)
<1>1. Len(line) = N
  BY LenProperties, IsASeq
<1>2. \A n \in 1 .. N, x \in Levels : Serve(order, x, line[n]) \in Levels
  BY ServeType
<1>3. PICK h \in [0 .. N -> Levels] : Computes(h, N, stock, Step)
  <2>1. Step \in [1 .. N -> [Levels -> Levels]]
    BY <1>2
  <2> HIDE DEF Step
  <2>2. QED
    BY <2>1, ComputationExists
<1>4. \A n \in 0 .. N : h[n] = IF n = 0 THEN stock ELSE Serve(order, h[n - 1], line[n])
  <2>1. ASSUME NEW n \in 1 .. N PROVE h[n] = Serve(order, h[n - 1], line[n])
    <3>1. h[n - 1] \in Levels
      OBVIOUS
    <3>2. h[n] = Step[n][h[n - 1]]
      BY <1>3 DEF Computes
    <3>3. QED
      BY <3>1, <3>2
  <2>2. QED
    BY <1>3, <2>1 DEF Computes
<1>5. Eq(left)
  <2>1. Eq(h)
    BY <1>1, <1>4
  <2> HIDE DEF Eq
  <2>2. QED
    BY <2>1
<1>6. LeftAfter(order, stock) = left[N]
  BY <1>1 DEF LeftAfter
<1> HIDE DEF left
<1>7. left[0] = stock /\ \A n \in 1 .. N : left[n] = Serve(order, left[n - 1], line[n])
  BY <1>1, <1>5
<1>8. \A n \in 0 .. N : left[n] \in Levels
  <2>1. \A n \in 1 .. N : left[n - 1] \in Levels => left[n] \in Levels
    BY <1>2, <1>7
  <2>2. QED
    BY <1>7, <2>1, ComputationRange
<1>9. left \in [0 .. N -> Levels]
  <2>1. left = [n \in 0 .. N |->
                  IF n = 0 THEN stock ELSE Serve(order, left[n - 1], line[n])]
    BY <1>1, <1>5
  <2>2. left = [n \in 0 .. N |-> left[n]]
    BY <2>1
  <2>3. QED
    BY <1>8, <2>2
<1>10. QED
  BY <1>6, <1>7, <1>9

(* The units of item i that the first n lines take. *)
UnitsUpTo(order, line, n, i) ==
  UNION {LineUnits(order, line[k], i) : k \in 1 .. n}

LEMMA UnitsUpToNext ==
  ASSUME NEW order, IsOrder(order), NEW N \in Nat, NEW line \in [1 .. N -> DOMAIN order],
         IsInjective(line), NEW n \in Nat, n + 1 <= N, NEW i,
         IsFiniteSet(UnitsUpTo(order, line, n, i))
  PROVE  /\ IsFiniteSet(UnitsUpTo(order, line, n + 1, i))
         /\ Cardinality(UnitsUpTo(order, line, n + 1, i))
              = Cardinality(UnitsUpTo(order, line, n, i))
                  + Cardinality(LineUnits(order, line[n + 1], i))
<1> DEFINE A == UnitsUpTo(order, line, n, i)
           B == LineUnits(order, line[n + 1], i)
<1>1. n + 1 \in 1 .. N /\ line[n + 1] \in DOMAIN order
  OBVIOUS
<1>2. UnitsUpTo(order, line, n + 1, i) = A \cup B
  <2>1. 1 .. n + 1 = (1 .. n) \cup {n + 1}
    OBVIOUS
  <2>2. QED
    BY <2>1 DEF UnitsUpTo
<1>3. A \cap B = {}
  <2> SUFFICES ASSUME NEW u \in A, u \in B PROVE FALSE
    OBVIOUS
  <2>1. PICK k \in 1 .. n : u \in LineUnits(order, line[k], i)
    BY DEF UnitsUpTo
  <2>2. u[1] = line[k] /\ u[1] = line[n + 1]
    BY <2>1 DEF LineUnits
  <2>3. k \in DOMAIN line /\ n + 1 \in DOMAIN line /\ k # n + 1
    BY <1>1
  <2>4. QED
    BY <2>2, <2>3 DEF IsInjective
<1>4. IsFiniteSet(B) /\ Cardinality(B) \in Nat
  BY <1>1, LineUnitsCount, FS_CardinalityType
<1>5. Cardinality(A) \in Nat
  BY FS_CardinalityType
<1> HIDE DEF A, B
<1>6. IsFiniteSet(A)
  BY DEF A
<1>7. /\ IsFiniteSet(A \cup B)
      /\ Cardinality(A \cup B) = Cardinality(A) + Cardinality(B) - Cardinality(A \cap B)
  BY <1>4, <1>6, FS_Union
<1>8. Cardinality(A \cap B) = 0
  BY <1>3, FS_EmptySet
<1>9. Cardinality(A \cup B) = Cardinality(A) + Cardinality(B)
  BY <1>4, <1>5, <1>7, <1>8
<1>10. QED
  BY <1>2, <1>7, <1>9 DEF A, B

LEMMA LeftType ==
  ASSUME NEW order, IsOrder(order), NEW stock \in Levels
  PROVE  LeftAfter(order, stock) \in Levels
<1> DEFINE N == Cardinality(DOMAIN order)
           line == SetToSeq(DOMAIN order)
<1>1. IsFiniteSet(DOMAIN order)
  BY ItemsAssumption, FS_Subset DEF IsOrder
<1>2. N \in Nat /\ line \in [1 .. N -> DOMAIN order]
  BY <1>1, SequenceOfAll
<1>3. N = Cardinality(DOMAIN order) /\ line = SetToSeq(DOMAIN order)
  OBVIOUS
<1> HIDE DEF N, line
<1>4. QED
  BY <1>2, <1>3, LeftLoop

(* What serving the lines one by one leaves of an item is what taking all   *)
(* their units together would leave, if every line is on sale.             *)
LEMMA LeftIsStockLessDemand ==
  ASSUME NEW order, IsOrder(order), NEW stock \in Levels, NEW active,
         \A p \in DOMAIN order : active[p], NEW i \in Items
  PROVE  /\ Demand(order, active, i) \in Nat
         /\ LeftAfter(order, stock)[i] = stock[i] - Demand(order, active, i)
<1> DEFINE D == DOMAIN order
           N == Cardinality(D)
           line == SetToSeq(D)
<1>1. IsFiniteSet(D)
  BY ItemsAssumption, FS_Subset DEF IsOrder
<1>2. /\ N \in Nat /\ line \in [1 .. N -> D] /\ IsInjective(line)
      /\ \A p \in D : \E n \in 1 .. N : line[n] = p
  BY <1>1, SequenceOfAll
<1>3. PICK left \in [0 .. N -> Levels] :
        /\ LeftAfter(order, stock) = left[N]
        /\ left[0] = stock
        /\ \A n \in 1 .. N : left[n] = Serve(order, left[n - 1], line[n])
  <2>1. N = Cardinality(DOMAIN order) /\ line = SetToSeq(DOMAIN order)
    OBVIOUS
  <2> HIDE DEF N, line
  <2>2. QED
    BY <1>2, <2>1, LeftLoop
<1> DEFINE Taken(n) == UnitsUpTo(order, line, n, i)
           Good(n) == /\ IsFiniteSet(Taken(n))
                      /\ left[n][i] = stock[i] - Cardinality(Taken(n))
           T == {n \in Nat : n <= N => Good(n)}
<1> HIDE DEF N, line
<1>4. 0 \in T
  <2>1. Taken(0) = {}
    BY DEF UnitsUpTo
  <2>2. IsFiniteSet(Taken(0)) /\ Cardinality(Taken(0)) = 0
    BY <2>1, FS_EmptySet
  <2> HIDE DEF Taken
  <2>3. stock[i] - 0 = stock[i]
    BY DEF Levels
  <2>4. QED
    BY <1>3, <2>2, <2>3
<1>5. ASSUME NEW n \in T PROVE n + 1 \in T
  <2> SUFFICES ASSUME n + 1 <= N PROVE Good(n + 1)
    OBVIOUS
  <2>1. /\ n \in Nat /\ n \in 0 .. N /\ n + 1 \in 1 .. N /\ (n + 1) - 1 = n
        /\ line[n + 1] \in D
    BY <1>2, <1>5
  <2>2. Good(n)
    BY <1>2, <2>1
  <2> DEFINE p == line[n + 1]
             need == IF i \in Parts(p) THEN Need(p, order[p], i) ELSE 0
  <2>3. left[n + 1] = Serve(order, left[n], p)
    BY <1>3, <2>1
  <2>4. left[n + 1][i] = left[n][i] - need
    BY <2>3 DEF Serve
  <2>5. Cardinality(LineUnits(order, p, i)) = need /\ need \in Nat
    BY <2>1, LineUnitsCount, FS_CardinalityType
  <2>6. /\ IsFiniteSet(Taken(n + 1))
        /\ Cardinality(Taken(n + 1)) = Cardinality(Taken(n)) + need
    <3>1. line \in [1 .. N -> DOMAIN order] /\ IsInjective(line) /\ N \in Nat
      BY <1>2
    <3>2. IsFiniteSet(UnitsUpTo(order, line, n, i))
      BY <2>2
    <3> HIDE DEF need, D
    <3>3. /\ IsFiniteSet(UnitsUpTo(order, line, n + 1, i))
          /\ Cardinality(UnitsUpTo(order, line, n + 1, i))
               = Cardinality(UnitsUpTo(order, line, n, i))
                   + Cardinality(LineUnits(order, p, i))
      BY <2>1, <3>1, <3>2, UnitsUpToNext
    <3>4. QED
      BY <2>5, <3>3
  <2>7. Cardinality(Taken(n)) \in Nat /\ stock[i] \in Int
    BY <2>2, FS_CardinalityType DEF Levels
  <2> HIDE DEF need, Taken
  <2>8. QED
    BY <2>2, <2>4, <2>5, <2>6, <2>7
<1>6. Good(N)
  <2>1. T \in SUBSET Nat
    OBVIOUS
  <2>2. \A n \in Nat : n \in T
    <3> HIDE DEF T
    <3>1. QED
      BY <1>4, <1>5, <2>1, SetInduction
  <2>3. QED
    BY <1>2, <2>2
<1>7. Taken(N) = Units(order, active, i)
  <2>1. Sold(order, active) = D
    BY DEF Sold
  <2>2. Units(order, active, i) = UNION {LineUnits(order, p, i) : p \in D}
    BY <2>1 DEF Units, LineUnits
  <2>3. QED
    BY <1>2, <2>2 DEF UnitsUpTo
<1>8. QED
  BY <1>3, <1>6, <1>7, FS_CardinalityType DEF Demand

LEMMA CommittedWhenCovered ==
  ASSUME NEW order, NEW active, NEW stock
  PROVE  Status(order, active, stock) = "COMMITTED" <=>
           \A p \in DOMAIN order :
             /\ active[p]
             /\ Kind[p] = "composite" => Parts(p) # {}
             /\ \A i \in Parts(p) : Covered(order, active, stock, i)
BY DEF Status, Unavailable

(* What commitOnce decides is what serving the lines one after the other    *)
(* comes to.                                                               *)
LEMMA DecidedAsServed ==
  ASSUME IsOrder(input.order), input.stock \in Levels,
         \A i \in Items : input.stock[i] >= 0
  PROVE  AsIfServed
<1> DEFINE order == input.order
           active == input.active
           stock == input.stock
           OnSale == \A p \in DOMAIN order : active[p]
<1>1. ASSUME OnSale, NEW i \in Items
      PROVE  /\ Demand(order, active, i) \in Nat
             /\ Left[i] = stock[i] - Demand(order, active, i)
  BY <1>1, LeftIsStockLessDemand DEF Left
<1>2. ASSUME OnSale, NEW i \in Items
      PROVE  Left[i] >= 0 <=> stock[i] >= Demand(order, active, i)
  <2>1. stock[i] \in Int
    BY DEF Levels
  <2> HIDE DEF stock, order, active, OnSale
  <2>2. QED
    BY <1>1, <1>2, <2>1
<1>3. ASSUME NEW i \in Items, \A p \in DOMAIN order : i \notin Parts(p)
      PROVE  Demand(order, active, i) = 0
  <2>1. Units(order, active, i) = {}
    BY <1>3 DEF Units, Sold
  <2>2. QED
    BY <2>1, FS_EmptySet DEF Demand
<1>4. \A p \in DOMAIN order : p \in Items /\ Parts(p) \subseteq Items
  BY NeedType DEF IsOrder
<1>5. \A p \in DOMAIN order : Kind[p] = "composite" => Parts(p) = DOMAIN Recipe[p]
  BY DEF Parts
<1>6. Left = [i \in Items |-> Left[i]]
  BY LeftType DEF Left, Levels
<1>7. \A i \in Items : stock[i] >= 0
  OBVIOUS
<1> HIDE DEF order, active, stock
<1>8. ASSUME Status(order, active, stock) = "COMMITTED" PROVE Servable
  <2>1. \A p \in DOMAIN order :
          /\ active[p]
          /\ Kind[p] = "composite" => Parts(p) # {}
          /\ \A i \in Parts(p) : Covered(order, active, stock, i)
    BY <1>8, CommittedWhenCovered
  <2>2. \A p \in DOMAIN order :
          /\ active[p]
          /\ Kind[p] = "composite" => DOMAIN Recipe[p] # {}
          /\ \A i \in Parts(p) : active[i] /\ i \in Physical
    BY <1>4, <1>5, <2>1 DEF Covered, Physical
  <2>3. ASSUME NEW i \in Items PROVE Left[i] >= 0
    <3>1. CASE \E p \in DOMAIN order : i \in Parts(p)
      BY <1>2, <2>1, <3>1 DEF Covered
    <3>2. CASE \A p \in DOMAIN order : i \notin Parts(p)
      BY <1>2, <1>3, <1>7, <2>1, <3>2
    <3>3. QED
      BY <3>1, <3>2
  <2>4. QED
    BY <2>2, <2>3 DEF Servable, order, active
<1>9. ASSUME Servable
      PROVE  /\ Status(order, active, stock) = "COMMITTED"
             /\ Deducted(order, active, stock) = Left
  <2>1. /\ \A p \in DOMAIN order :
             /\ active[p]
             /\ Kind[p] = "composite" => DOMAIN Recipe[p] # {}
             /\ \A i \in Parts(p) : active[i] /\ i \in Physical
        /\ \A i \in Items : Left[i] >= 0
    BY <1>9 DEF Servable, order, active
  <2>2. \A i \in Items : stock[i] >= Demand(order, active, i)
    BY <1>2, <2>1
  <2>3. \A p \in DOMAIN order : \A i \in Parts(p) : Covered(order, active, stock, i)
    BY <1>4, <2>1, <2>2 DEF Covered, Physical
  <2>4. Status(order, active, stock) = "COMMITTED"
    BY <1>5, <2>1, <2>3, CommittedWhenCovered
  <2>5. \A i \in Items : Left[i] = stock[i] - Demand(order, active, i)
    BY <1>1, <2>1
  <2>6. Deducted(order, active, stock) = Left
    BY <1>6, <2>5 DEF Deducted
  <2>7. QED
    BY <2>4, <2>6
<1>10. QED
  BY <1>8, <1>9 DEF AsIfServed, order, active, stock

(* One of a product takes of each of its parts what the catalog looks for.  *)
LEMMA DemandOfOne ==
  ASSUME NEW p \in Items, NEW active, active[p], NEW i \in Parts(p)
  PROVE  Demand([x \in {p} |-> 1], active, i) = Need(p, 1, i)
<1> DEFINE one == [x \in {p} |-> 1]
<1>1. IsOrder(one) /\ p \in DOMAIN one /\ one[p] = 1
  BY DEF IsOrder
<1>2. Units(one, active, i) = LineUnits(one, p, i)
  BY DEF Units, Sold, LineUnits
<1> HIDE DEF one
<1>3. Cardinality(LineUnits(one, p, i)) = Need(p, 1, i)
  BY <1>1, LineUnitsCount
<1>4. QED
  BY <1>2, <1>3 DEF Demand, one

(* What the catalog shows of one product is what commitOnce would decide on *)
(* an order for one of it.                                                 *)
LEMMA OfferedIsCommitted ==
  ASSUME NEW p \in Items, NEW active, NEW stock \in Levels, Parts(p) \subseteq Physical
  PROVE  Offered(p, active, stock)
           <=> Status([x \in {p} |-> 1], active, stock) = "COMMITTED"
<1> DEFINE one == [x \in {p} |-> 1]
<1>1. Kind[p] \in {"physical", "untracked", "composite"}
  BY ItemsAssumption
<1>2. Status(one, active, stock) = "COMMITTED" <=>
        /\ active[p]
        /\ Kind[p] = "composite" => Parts(p) # {}
        /\ \A i \in Parts(p) : Covered(one, active, stock, i)
  <2>1. \A x \in DOMAIN one : x = p
    OBVIOUS
  <2>2. p \in DOMAIN one
    OBVIOUS
  <2> HIDE DEF one
  <2>3. QED
    BY <2>1, <2>2, CommittedWhenCovered
<1>3. ASSUME active[p], NEW i \in Parts(p)
      PROVE  Covered(one, active, stock, i) <=> active[i] /\ stock[i] >= Need(p, 1, i)
  <2>1. Kind[i] = "physical"
    BY DEF Physical
  <2>2. Demand(one, active, i) = Need(p, 1, i)
    BY <1>3, DemandOfOne
  <2> HIDE DEF one
  <2>3. QED
    BY <2>1, <2>2 DEF Covered
<1> HIDE DEF one
<1>4. CASE Kind[p] = "untracked"
  <2>1. Parts(p) = {}
    BY <1>4 DEF Parts
  <2>2. QED
    BY <1>2, <1>4, <2>1 DEF Offered, one
<1>5. CASE Kind[p] = "physical"
  <2>1. Parts(p) = {p} /\ Need(p, 1, p) = 1
    BY <1>5 DEF Parts, Need
  <2>2. stock[p] > 0 <=> stock[p] >= 1
    BY DEF Levels
  <2>3. Offered(p, active, stock) <=> active[p] /\ stock[p] > 0
    BY <1>5 DEF Offered
  <2>4. QED
    BY <1>2, <1>3, <1>5, <2>1, <2>2, <2>3 DEF one
<1>6. CASE Kind[p] = "composite"
  <2>1. Parts(p) = DOMAIN Recipe[p]
    BY <1>6 DEF Parts
  <2>2. ASSUME NEW i \in Parts(p) PROVE Need(p, 1, i) = Ceiling(Recipe[p][i])
    <3>1. Recipe[p][i] \in Nat
      BY <2>1, ItemsAssumption
    <3>2. Recipe[p][i] * 1 = Recipe[p][i]
      BY <3>1
    <3>3. QED
      BY <1>6, <3>2 DEF Need
  <2>3. \A i \in Parts(p) : Kind[i] # "untracked"
    BY DEF Physical
  <2>4. Offered(p, active, stock) <=>
          /\ active[p]
          /\ Parts(p) # {}
          /\ \A i \in Parts(p) : active[i] /\ stock[i] >= Ceiling(Recipe[p][i])
    BY <1>6, <2>3 DEF Offered
  <2>5. QED
    BY <1>2, <1>3, <1>6, <2>2, <2>4 DEF one
<1>7. QED
  BY <1>1, <1>4, <1>5, <1>6

-----------------------------------------------------------------------------
(* The theorems.  The input never changes, so that Init is the inductive    *)
(* invariant.                                                              *)

LEMMA InputIsInit == Spec => []Init
<1>1. Init /\ [Next]_vars => Init'
  <2> SUFFICES ASSUME Init, [Next]_vars PROVE Init'
    OBVIOUS
  <2>1. input' = input
    BY DEF Next, vars
  <2>2. QED
    BY <2>1 DEF Init, Retry, Cart, Order
<1>2. QED
  BY <1>1, PTL DEF Spec

LEMMA OrderType ==
  ASSUME Init, input.of = "order"
  PROVE  /\ IsOrder(input.order)
         /\ input.stock \in Levels
         /\ \A i \in Items : input.stock[i] >= 0
<1>1. Order
  BY DEF Init, Retry, Cart
<1>2. \E P, off \in SUBSET Items, s \in [Physical -> 0 .. MaxStock] :
        \E o \in [P -> 1 .. MaxQuantity] :
          input = [of |-> "order", order |-> o, active |-> [i \in Items |-> i \notin off],
                   stock |-> [i \in Items |-> IF i \in Physical THEN s[i] ELSE 0]]
  BY <1>1 DEF Order
<1>3. MaxStock \in Nat /\ MaxQuantity \in Nat
  BY BoundsAssumption
<1>4. IsOrder(input.order)
  <2>1. PICK P \in SUBSET Items : input.order \in [P -> 1 .. MaxQuantity]
    BY <1>2
  <2>2. QED
    BY <1>3, <2>1 DEF IsOrder
<1>5. PICK s \in [Physical -> 0 .. MaxStock] :
        input.stock = [i \in Items |-> IF i \in Physical THEN s[i] ELSE 0]
  BY <1>2
<1>6. \A i \in Items : input.stock[i] \in Nat
  BY <1>3, <1>5
<1>7. input.stock \in Levels
  BY <1>5, <1>6 DEF Levels
<1>8. QED
  BY <1>4, <1>6, <1>7

(* The delay before the nth attempt is the base doubled n - 1 times and cut *)
(* at the maximum, for every width of an integer, every base and maximum    *)
(* that fit and every n: no doubling overflows.  (Worker.retryDelay)        *)
THEOREM DelayMatchesDoubling == Spec => []MatchesDoubling
<1>1. Init => MatchesDoubling
  <2> SUFFICES ASSUME Init, input.of = "retry" PROVE MatchesDoubling
    BY DEF MatchesDoubling
  <2>1. Retry
    BY DEF Init, Cart, Order
  <2>2. PICK max \in 1 .. MaxInt : \E base \in 1 .. max, n \in 1 .. MaxAttempts :
          input = [of |-> "retry", base |-> base, max |-> max, attempt |-> n]
    BY <2>1 DEF Retry
  <2>3. PICK base \in 1 .. max, n \in 1 .. MaxAttempts :
          input = [of |-> "retry", base |-> base, max |-> max, attempt |-> n]
    BY <2>2
  <2>4. n - 1 \in Nat /\ (n - 1) + 1 = n
    BY BoundsAssumption
  <2>5. DelayAfter(base, max)[n] =
          IF base * PowerOfTwo[n - 1] > max THEN max ELSE base * PowerOfTwo[n - 1]
    BY <2>4, DelayDoubles
  <2>6. QED
    BY <2>3, <2>5 DEF MatchesDoubling, retryDelay
<1>2. QED
  BY <1>1, InputIsInit, PTL

(* For every width and every cart: the subtotal is the true sum of the      *)
(* lines, or the cart is refused because that sum does not fit.            *)
(* (Service.PlaceOrder)                                                    *)
THEOREM SubtotalIsExact == Spec => []ExactOrRefused
<1>1. Init => ExactOrRefused
  <2> SUFFICES ASSUME Init, input.of = "cart" PROVE ExactOrRefused
    BY DEF ExactOrRefused
  <2>1. Cart
    BY DEF Init, Retry, Order
  <2>2. PICK n \in 1 .. MaxLines : \E lines \in [1 .. n -> Lines] :
          input = [of |-> "cart", lines |-> lines]
    BY <2>1 DEF Cart
  <2>3. input.lines \in [1 .. n -> Lines]
    BY <2>2
  <2>4. n \in Nat
    BY BoundsAssumption
  <2>5. QED
    BY <2>3, <2>4, SubtotalExact DEF ExactOrRefused
<1>2. QED
  BY <1>1, InputIsInit, PTL

(* For every catalog of items and every order: it is committed exactly when *)
(* its lines can be served one after the other, and it then takes what that *)
(* would take.  (commitOnce)                                               *)
THEOREM DecisionIsAsIfServed == Spec => []AsIfServed
<1>1. Init => AsIfServed
  <2>1. CASE input.of = "order"
    BY <2>1, OrderType, DecidedAsServed
  <2>2. CASE input.of # "order"
    BY <2>2 DEF AsIfServed
  <2>3. QED
    BY <2>1, <2>2
<1>2. QED
  BY <1>1, InputIsInit, PTL

(* For every catalog of items, every stock and every product made of items  *)
(* whose stock is kept: the catalog shows it as available exactly when one  *)
(* of it would be committed.  (catalog.go, commitOnce)                      *)
THEOREM OfferIsKept == Spec => []OfferKept
<1>1. Init => OfferKept
  <2> SUFFICES ASSUME Init, input.of = "order" PROVE OfferKept
    BY DEF OfferKept
  <2>1. input.stock \in Levels
    BY OrderType
  <2>2. QED
    BY <2>1, OfferedIsCommitted DEF OfferKept
<1>2. QED
  BY <1>1, InputIsInit, PTL

=============================================================================
