------------------------- MODULE ArrayQueue_proofs -------------------------
(***************************************************************************)
(* Proofs about the bounded lock-free queue, for any number of threads,    *)
(* any values, any positive capacity, any starting lap and any number of   *)
(* operations below the one at which a position word recurs.               *)
(* Positions are counted without wrap-around: At(n) is the word of the     *)
(* n-th position and Ord its inverse.                                      *)
(***************************************************************************)
EXTENDS ArrayQueue, FiniteSetTheorems, TLAPS

LEMMA Split ==
  ASSUME NEW c \in Nat, c > 0, NEW n \in Nat
  PROVE  /\ n \div c \in Nat /\ n % c \in 0 .. c - 1
         /\ n = (n \div c) * c + (n % c)
  OBVIOUS

LEMMA Unique ==
  ASSUME NEW c \in Nat, c > 0, NEW q \in Nat, NEW r \in 0 .. c - 1
  PROVE  (q * c + r) \div c = q /\ (q * c + r) % c = r
  OBVIOUS

LEMMA Unique2 ==
  ASSUME NEW c \in Nat, c > 0, NEW q \in Nat, NEW r \in 0 .. c - 1,
         NEW k \in Nat, NEW s \in 0 .. c - 1, q * c + r = k * c + s
  PROVE  q = k /\ r = s
  OBVIOUS

\* Induction on the naturals for a set: the successor maps the members below a
\* missing one into those that are not 0, and there is one fewer of these.
LEMMA NatSetInduction ==
  ASSUME NEW S, 0 \in S, \A n \in Nat : n \in S => n + 1 \in S
  PROVE  Nat \subseteq S
<1> SUFFICES ASSUME NEW n \in Nat, n \notin S PROVE FALSE
  OBVIOUS
<1> DEFINE T == {k \in Nat : k \in S /\ k < n}
           f == [k \in T |-> k + 1]
<1>1. IsFiniteSet(T) /\ Cardinality(T) \in Nat
  <2>1. T \in SUBSET Nat /\ \A k \in T : k <= n
    OBVIOUS
  <2> HIDE DEF T
  <2>2. IsFiniteSet(T)
    BY <2>1, FS_BoundedSetOfNaturals
  <2> QED BY <2>2, FS_CardinalityType
<1>2. 0 \in T
  OBVIOUS
<1>3. IsFiniteSet(T \ {0}) /\ Cardinality(T \ {0}) = Cardinality(T) - 1
  BY <1>1, <1>2, FS_RemoveElement
<1>4. f \in [T -> T \ {0}]
  <2> SUFFICES ASSUME NEW k \in T PROVE k + 1 \in T \ {0}
    OBVIOUS
  <2> QED OBVIOUS
<1>5. PICK x \in T, y \in T : x # y /\ f[x] = f[y]
  <2> HIDE DEF f, T
  <2>1. Cardinality(T \ {0}) < Cardinality(T)
    BY <1>1, <1>3
  <2> QED BY <1>1, <1>3, <1>4, <2>1, FS_PigeonHole
<1> QED
  BY <1>5

\* Twice a power of two is one.
LEMMA Doubled ==
  ASSUME NEW n \in Nat \ {0}, PowerOfTwo(n)
  PROVE  PowerOfTwo(2 * n)
<1> SUFFICES ASSUME NEW d \in 1 .. 2 * n, (2 * n) % d = 0, d % 2 # 0
             PROVE  d = 1
  BY DEF PowerOfTwo
<1> DEFINE q == (2 * n) \div d
           p == q \div 2
           e == d \div 2
<1>1. q \in Nat /\ 2 * n = q * d
  OBVIOUS
<1>2. e \in Nat /\ d = 2 * e + 1
  OBVIOUS
<1>3. p \in Nat /\ (q = 2 * p \/ q = 2 * p + 1)
  <2> HIDE DEF q
  <2> QED BY <1>1
<1> HIDE DEF q, p, e
<1>4. q = 2 * p
  <2> SUFFICES ASSUME q = 2 * p + 1 PROVE FALSE
    BY <1>3
  <2>1. q * d = 2 * (q * e) + q
    <3>1. q * d = q * (2 * e + 1)
      BY <1>2
    <3>2. q * (2 * e + 1) = 2 * (q * e) + q
      BY <1>1, <1>2
    <3> QED BY <3>1, <3>2
  <2>2. q * e \in Nat
    BY <1>1, <1>2
  <2> DEFINE m == q * e
  <2>3. m \in Nat /\ 2 * n = 2 * m + (2 * p + 1)
    BY <1>1, <2>1, <2>2
  <2> HIDE DEF m
  <2> QED BY <2>3, <1>3
<1>5. n = p * d
  <2>1. q * d = 2 * (p * d)
    BY <1>3, <1>4
  <2>2. p * d \in Nat
    BY <1>3
  <2> QED BY <1>1, <2>1, <2>2
<1>6. n % d = 0 /\ d <= n
  <2>1. p # 0
    BY <1>5
  <2>2. p * d >= d
    BY <1>3, <2>1
  <2>3. (p * d + 0) % d = 0
    BY <1>3, Unique
  <2> QED BY <1>5, <2>2, <2>3, <1>3
<1> QED BY <1>6 DEF PowerOfTwo

\* A power of two stands above every capacity and at most at its double, so OneLap is one.
LEMMA LapIs == OneLap \in Nat /\ OneLap > Cap /\ Cap \in Nat /\ Cap > 0
<1> DEFINE Reach(c) == \E n \in (c + 2) .. (2 * c + 2) : PowerOfTwo(n)
           S == {c \in Nat : Reach(c)}
<1>1. Reach(0)
  <2>1. PowerOfTwo(2)
    BY DEF PowerOfTwo
  <2> QED BY <2>1
<1>2. ASSUME NEW c \in Nat, c \in S PROVE c + 1 \in S
  <2>1. PICK n \in (c + 2) .. (2 * c + 2) : PowerOfTwo(n)
    BY <1>2
  <2>2. CASE n = c + 2
    <3>1. PowerOfTwo(2 * n)
      BY <2>1, Doubled
    <3>2. 2 * n \in ((c + 1) + 2) .. (2 * (c + 1) + 2)
      BY <2>2
    <3> QED BY <3>1, <3>2
  <2>3. CASE n # c + 2
    <3>1. n \in ((c + 1) + 2) .. (2 * (c + 1) + 2)
      BY <2>3
    <3> QED BY <2>1, <3>1
  <2> QED BY <2>2, <2>3
<1>3. Nat \subseteq S
  <2>1. 0 \in S
    BY <1>1
  <2>2. \A c \in Nat : c \in S => c + 1 \in S
    BY <1>2
  <2> HIDE DEF S
  <2> QED BY <2>1, <2>2, NatSetInduction
<1>4. Cap - 1 \in Nat /\ Cap \in Nat /\ Cap > 0
  BY CapAssumption
<1>5. Reach(Cap - 1)
  BY <1>3, <1>4
<1>6. \E n \in (Cap + 1) .. (2 * Cap) : PowerOfTwo(n)
  <2>1. PICK n \in ((Cap - 1) + 2) .. (2 * (Cap - 1) + 2) : PowerOfTwo(n)
    BY <1>5
  <2>2. n \in (Cap + 1) .. (2 * Cap)
    BY <1>4
  <2> QED BY <2>1, <2>2
<1>7. OneLap \in (Cap + 1) .. (2 * Cap)
  BY <1>6 DEF OneLap
<1> QED BY <1>4, <1>7

\* The word of the n-th position counted from the start of the behaviour, the lap it is
\* in, its slot, and the stamp of that slot once it is filled.
At(n) == Position(Start * Cap + n)
Turn(n) == (Start + (n \div Cap)) % Laps
Cell(n) == n % Cap
Filled(n) == (At(n) + 1) % Word

LEMMA AtIs ==
  ASSUME NEW n \in Nat
  PROVE  /\ At(n) = Turn(n) * OneLap + Cell(n)
         /\ Turn(n) \in 0 .. Laps - 1 /\ Cell(n) \in 0 .. Cap - 1
         /\ n \div Cap \in Nat
  <1> DEFINE q == n \div Cap
             r == n % Cap
  <1>1. /\ Cap \in Nat /\ Cap > 0 /\ Start \in Nat /\ Laps \in Nat /\ Laps > 0
    BY LapIs, CapAssumption, StartAssumption
  <1>2. q \in Nat /\ r \in 0 .. Cap - 1 /\ n = q * Cap + r
    BY <1>1, Split
  <1> HIDE DEF q, r
  <1>3. Start * Cap + n = (Start + q) * Cap + r
    BY <1>1, <1>2
  <1>4. (Start * Cap + n) \div Cap = Start + q /\ (Start * Cap + n) % Cap = r
    BY <1>1, <1>2, <1>3, Unique
  <1>5. At(n) = ((Start + q) % Laps) * OneLap + r
    BY <1>4 DEF At, Position
  <1>6. (Start + q) % Laps \in 0 .. Laps - 1
    BY <1>1, <1>2
  <1> QED BY <1>2, <1>5, <1>6 DEF Turn, Cell, q, r

LEMMA TurnNext ==
  ASSUME NEW n \in Nat
  PROVE  /\ Cell(n + Cap) = Cell(n)
         /\ Turn(n + Cap) = IF Turn(n) + 1 < Laps THEN Turn(n) + 1 ELSE 0
         /\ Cell(n) + 1 < Cap => Cell(n + 1) = Cell(n) + 1 /\ Turn(n + 1) = Turn(n)
         /\ Cell(n) + 1 >= Cap => Cell(n + 1) = 0 /\ Turn(n + 1) = Turn(n + Cap)
  <1> DEFINE q == n \div Cap
             r == n % Cap
  <1>1. /\ Cap \in Nat /\ Cap > 0 /\ Start \in Nat /\ Laps \in Nat /\ Laps > 0
    BY LapIs, CapAssumption, StartAssumption
  <1>2. q \in Nat /\ r \in 0 .. Cap - 1 /\ n = q * Cap + r
    BY <1>1, Split
  <1>0. Cell(n) = r
    BY DEF Cell
  <1> HIDE DEF q, r
  <1>3. (n + Cap) \div Cap = q + 1 /\ (n + Cap) % Cap = r
    <2>1. n + Cap = (q + 1) * Cap + r
      BY <1>1, <1>2
    <2> QED BY <1>1, <1>2, <2>1, Unique
  <1>4. Turn(n) = (Start + q) % Laps /\ Turn(n + Cap) = (Start + q + 1) % Laps
    BY <1>1, <1>2, <1>3 DEF Turn, q
  <1>5. (Start + q + 1) % Laps = IF ((Start + q) % Laps) + 1 < Laps
                                   THEN ((Start + q) % Laps) + 1 ELSE 0
    <2> DEFINE m == Start + q
               a == m \div Laps
               b == m % Laps
    <2>1. a \in Nat /\ b \in 0 .. Laps - 1 /\ m = a * Laps + b
      BY <1>1, <1>2, Split
    <2> HIDE DEF a, b, m
    <2>2. CASE b + 1 < Laps
      <3>1. m + 1 = a * Laps + (b + 1)
        BY <1>1, <2>1
      <3>2. (m + 1) % Laps = b + 1
        BY <1>1, <2>1, <2>2, <3>1, Unique
      <3> QED BY <2>2, <3>2 DEF b, m
    <2>3. CASE ~(b + 1 < Laps)
      <3>1. m + 1 = (a + 1) * Laps + 0
        BY <1>1, <2>1, <2>3
      <3>2. (m + 1) % Laps = 0
        BY <1>1, <2>1, <3>1, Unique
      <3> QED BY <2>3, <3>2 DEF b, m
    <2> QED BY <2>2, <2>3
  <1>6. CASE r + 1 < Cap
    <2>1. n + 1 = q * Cap + (r + 1)
      BY <1>1, <1>2
    <2>2. (n + 1) \div Cap = q /\ (n + 1) % Cap = r + 1
      BY <1>1, <1>2, <1>6, <2>1, Unique
    <2>3. Turn(n + 1) = Turn(n)
      BY <1>4, <2>2 DEF Turn
    <2> QED BY <1>0, <1>1, <1>2, <1>3, <1>4, <1>5, <1>6, <2>2, <2>3 DEF Cell
  <1>7. CASE ~(r + 1 < Cap)
    <2>1. n + 1 = (q + 1) * Cap + 0
      BY <1>1, <1>2, <1>7
    <2>2. (n + 1) \div Cap = q + 1 /\ (n + 1) % Cap = 0
      BY <1>1, <1>2, <2>1, Unique
    <2>3. Turn(n + 1) = (Start + (q + 1)) % Laps
      BY <2>2 DEF Turn
    <2>4. Turn(n + 1) = Turn(n + Cap)
      BY <1>3, <2>3 DEF Turn
    <2> QED BY <1>0, <1>1, <1>2, <1>3, <1>4, <1>5, <1>7, <2>2, <2>4 DEF Cell
  <1> QED BY <1>6, <1>7

LEMMA IndexIs ==
  ASSUME NEW a \in Nat, NEW i \in 0 .. OneLap - 1
  PROVE  /\ Index(a * OneLap + i) = i /\ Lap(a * OneLap + i) = a * OneLap
         /\ (a * OneLap + i) \div OneLap = a
  <1>1. OneLap \in Nat /\ OneLap > 0
    BY LapIs
  <1>2. (a * OneLap + i) % OneLap = i /\ (a * OneLap + i) \div OneLap = a
    BY <1>1, Unique
  <1> QED BY <1>1, <1>2 DEF Index, Lap

LEMMA WordIs ==
  ASSUME NEW a \in 0 .. Laps - 1, NEW i \in 0 .. OneLap - 1
  PROVE  /\ a * OneLap + i \in 0 .. Word - 1
         /\ (a * OneLap + i) % Word = a * OneLap + i
         /\ (Laps * OneLap + i) % Word = i
         /\ Word = Laps * OneLap /\ Word \in Nat /\ Word > 0
  <1>1. /\ OneLap \in Nat /\ OneLap > 0 /\ Laps \in Nat /\ Laps > 0
    BY LapIs, CapAssumption
  <1>2. Word = Laps * OneLap /\ Word \in Nat /\ Word > 0
    BY <1>1 DEF Word
  <1>3. a * OneLap + i \in 0 .. Word - 1
    BY <1>1, <1>2
  <1>4. i \in 0 .. Word - 1
    BY <1>1, <1>2
  <1>5. (0 * Word + (a * OneLap + i)) % Word = a * OneLap + i
    BY <1>2, <1>3, Unique
  <1>6. (1 * Word + i) % Word = i
    BY <1>2, <1>4, Unique
  <1> QED BY <1>1, <1>2, <1>3, <1>5, <1>6

\* The arithmetic of the queue's words, in terms of the positions they stand for.
LEMMA AtMoves ==
  ASSUME NEW n \in Nat
  PROVE  /\ Index(At(n)) = Cell(n)
         /\ Advance(At(n)) = At(n + 1)
         /\ AddLap(At(n)) = At(n + Cap)
         /\ SubLap(At(n + Cap)) = At(n)
         /\ Filled(n) = At(n) + 1
         /\ Index(Filled(n)) = Cell(n) + 1
         /\ AddLap(Filled(n)) = Filled(n + Cap)
         /\ Ordinal(At(n)) = Turn(n) * Cap + Cell(n)
  <1> DEFINE a == Turn(n)
             i == Cell(n)
             b == Turn(n + Cap)
             L == OneLap
  <1>1. /\ L \in Nat /\ L > Cap /\ Cap \in Nat /\ Cap > 0 /\ Laps \in Nat /\ Laps > 0
    BY LapIs, CapAssumption
  <1>2. At(n) = a * L + i /\ a \in 0 .. Laps - 1 /\ i \in 0 .. Cap - 1
    BY AtIs
  <1>3. /\ At(n + Cap) = b * L + i /\ b \in 0 .. Laps - 1
        /\ b = IF a + 1 < Laps THEN a + 1 ELSE 0
    <2>1. n + Cap \in Nat
      BY <1>1
    <2> QED BY <2>1, AtIs, TurnNext
  <1>4. /\ i + 1 < Cap => At(n + 1) = a * L + (i + 1)
        /\ i + 1 >= Cap => At(n + 1) = b * L + 0
    <2>1. n + 1 \in Nat
      OBVIOUS
    <2>2. At(n + 1) = Turn(n + 1) * L + Cell(n + 1)
      BY <2>1, AtIs
    <2> QED BY <2>2, TurnNext
  <1>5. Ordinal(At(n)) = a * Cap + i /\ Index(At(n)) = i /\ Lap(At(n)) = a * L
    <2>1. a \in Nat /\ i \in 0 .. L - 1
      BY <1>1, <1>2
    <2> QED BY <1>2, <2>1, IndexIs DEF Ordinal
  <1> HIDE DEF a, i, b
  <1>6. \A x \in 0 .. L - 1 : AddLap(a * L + x) = b * L + x
    <2> SUFFICES ASSUME NEW x \in 0 .. L - 1
                 PROVE  AddLap(a * L + x) = b * L + x
      OBVIOUS
    <2>1. CASE a + 1 < Laps
      <3>1. a * L + x + L = (a + 1) * L + x /\ a + 1 \in 0 .. Laps - 1
        BY <1>1, <1>2, <2>1
      <3> QED BY <1>3, <2>1, <3>1, WordIs DEF AddLap
    <2>2. CASE ~(a + 1 < Laps)
      <3>1. a * L + x + L = Laps * L + x
        BY <1>1, <1>2, <2>2
      <3>2. (Laps * L + x) % Word = x
        BY <1>2, WordIs
      <3>3. b * L + x = x
        BY <1>1, <1>3, <2>2
      <3> QED BY <3>1, <3>2, <3>3 DEF AddLap
    <2> QED BY <2>1, <2>2
  <1>7. AddLap(At(n)) = At(n + Cap)
    BY <1>1, <1>2, <1>3, <1>6
  <1>8. Filled(n) = a * L + (i + 1) /\ i + 1 \in 0 .. L - 1
    <2>1. i + 1 \in 0 .. L - 1 /\ a * L + i + 1 = a * L + (i + 1)
      BY <1>1, <1>2
    <2> QED BY <1>2, <2>1, WordIs DEF Filled
  <1>9. Filled(n + Cap) = b * L + (i + 1)
    <2>1. i + 1 \in 0 .. L - 1 /\ b * L + i + 1 = b * L + (i + 1)
      BY <1>1, <1>2, <1>3
    <2> QED BY <1>3, <2>1, WordIs DEF Filled
  <1>10. AddLap(Filled(n)) = Filled(n + Cap)
    BY <1>6, <1>8, <1>9
  <1>11. Index(Filled(n)) = i + 1
    BY <1>2, <1>8, IndexIs
  <1>12. Filled(n) = At(n) + 1
    BY <1>1, <1>2, <1>8
  <1>13. Advance(At(n)) = At(n + 1)
    <2>1. CASE i + 1 < Cap
      BY <1>1, <1>2, <1>4, <1>5, <2>1 DEF Advance
    <2>2. CASE i + 1 >= Cap
      <3>1. Advance(At(n)) = (a * L + L) % Word
        BY <1>1, <1>2, <1>5, <2>2 DEF Advance
      <3>2. AddLap(a * L + 0) = b * L + 0
        BY <1>1, <1>6
      <3>3. a * L + 0 = a * L
        BY <1>1, <1>2
      <3> QED BY <1>4, <2>2, <3>1, <3>2, <3>3 DEF AddLap
    <2> QED BY <1>1, <1>2, <2>1, <2>2
  <1>14. SubLap(At(n + Cap)) = At(n)
    <2>0. Word = Laps * L /\ Word \in Nat /\ Word > 0
      <3>1. i \in 0 .. L - 1
        BY <1>1, <1>2
      <3> QED BY <1>2, <3>1, WordIs
    <2>1. CASE a + 1 < Laps
      <3>1. At(n + Cap) + Word - L = Word + At(n) /\ At(n) \in 0 .. Word - 1
        <4>1. At(n + Cap) = (a + 1) * L + i
          BY <1>3, <2>1
        <4>2. At(n) \in 0 .. Word - 1
          <5>1. i \in 0 .. L - 1
            BY <1>1, <1>2
          <5> QED BY <1>2, <5>1, WordIs
        <4>3. (a + 1) * L + i - L = a * L + i
          BY <1>1, <1>2
        <4> QED BY <1>1, <1>2, <2>0, <4>1, <4>2, <4>3
      <3>2. (1 * Word + At(n)) % Word = At(n)
        BY <1>1, <2>0, <3>1, Unique
      <3>3. 1 * Word = Word
        BY <1>1, <2>0
      <3> QED BY <3>1, <3>2, <3>3 DEF SubLap
    <2>2. CASE ~(a + 1 < Laps)
      <3>1. At(n + Cap) + Word - L = At(n)
        <4>1. At(n + Cap) = i /\ a = Laps - 1
          BY <1>1, <1>2, <1>3, <2>2
        <4> QED BY <1>1, <1>2, <2>0, <4>1
      <3>2. At(n) % Word = At(n)
        <4>1. i \in 0 .. L - 1
          BY <1>1, <1>2
        <4> QED BY <1>2, <4>1, WordIs
      <3> QED BY <3>1, <3>2 DEF SubLap
    <2> QED BY <2>1, <2>2
  <1> QED BY <1>5, <1>7, <1>10, <1>11, <1>12, <1>13, <1>14 DEF a, i

\* Words are told apart over the positions a behaviour can reach.
Top == Laps * Cap - 1

LEMMA CountsIs ==
  /\ Cap \in Nat /\ Cap > 0 /\ Laps \in Nat /\ Laps > 2 /\ Start \in 0 .. Laps - 1
  /\ Laps * Cap \in Nat /\ Laps * Cap > 2 * Cap /\ Top \in Nat
  /\ MaxOps \in Nat /\ MaxOps + Cap <= Top
  <1>1. Cap \in Nat /\ Cap > 0 /\ Laps \in Nat /\ Laps > 2 /\ Start \in 0 .. Laps - 1
    BY LapIs, CapAssumption, StartAssumption
  <1>2. MaxOps \in Nat /\ MaxOps < (Laps - 1) * Cap
    BY BudgetAssumption
  <1>3. (Laps - 1) * Cap = Laps * Cap - Cap
    BY <1>1
  <1>4. Laps * Cap \in Nat /\ Laps * Cap > 2 * Cap
    BY <1>1
  <1> QED BY <1>1, <1>2, <1>3, <1>4 DEF Top

LEMMA AtInjective ==
  ASSUME NEW m \in 0 .. Top, NEW n \in 0 .. Top, At(m) = At(n)
  PROVE  m = n
  <1> DEFINE a == m \div Cap
             b == n \div Cap
  <1>1. /\ Cap \in Nat /\ Cap > 0 /\ Laps \in Nat /\ Laps > 0 /\ Start \in 0 .. Laps - 1
        /\ m \in Nat /\ n \in Nat /\ m < Laps * Cap /\ n < Laps * Cap
        /\ OneLap \in Nat /\ OneLap > Cap
    BY CountsIs, LapIs DEF Top
  <1>2. /\ a \in Nat /\ Cell(m) \in 0 .. Cap - 1 /\ m = a * Cap + Cell(m)
        /\ b \in Nat /\ Cell(n) \in 0 .. Cap - 1 /\ n = b * Cap + Cell(n)
    BY <1>1, Split DEF Cell
  <1>3. Turn(m) = (Start + a) % Laps /\ Turn(n) = (Start + b) % Laps
    BY DEF Turn
  <1>4. Turn(m) = Turn(n) /\ Cell(m) = Cell(n)
    <2>1. /\ Turn(m) \in Nat /\ Turn(n) \in Nat
          /\ Cell(m) \in 0 .. OneLap - 1 /\ Cell(n) \in 0 .. OneLap - 1
          /\ Turn(m) * OneLap + Cell(m) = Turn(n) * OneLap + Cell(n)
      BY <1>1, AtIs
    <2>2. \A q, k \in Nat, r, t \in 0 .. OneLap - 1 :
            q * OneLap + r = k * OneLap + t => q = k /\ r = t
      BY <1>1, Unique2
    <2> HIDE DEF a, b
    <2> QED BY ONLY <2>1, <2>2
  <1> HIDE DEF a, b
  <1>5. a < Laps /\ b < Laps
    BY <1>1, <1>2
  <1>6. a = b
    <2>1. \A x \in 0 .. Laps - 1 :
            (Start + x) % Laps = IF Start + x < Laps THEN Start + x ELSE Start + x - Laps
      <3> TAKE x \in 0 .. Laps - 1
      <3>1. CASE Start + x < Laps
        <4>1. (0 * Laps + (Start + x)) % Laps = Start + x
          BY <1>1, <3>1, Unique
        <4> QED BY <1>1, <3>1, <4>1
      <3>2. CASE ~(Start + x < Laps)
        <4>1. Start + x - Laps \in 0 .. Laps - 1 /\ Start + x = 1 * Laps + (Start + x - Laps)
          BY <1>1, <3>2
        <4>2. (1 * Laps + (Start + x - Laps)) % Laps = Start + x - Laps
          BY <1>1, <4>1, Unique
        <4> QED BY <3>2, <4>1, <4>2
      <3> QED BY <3>1, <3>2
    <2>2. (Start + a) % Laps = (Start + b) % Laps
      BY <1>3, <1>4
    <2>3. /\ (Start + a) % Laps = IF Start + a < Laps THEN Start + a ELSE Start + a - Laps
          /\ (Start + b) % Laps = IF Start + b < Laps THEN Start + b ELSE Start + b - Laps
      BY <1>1, <1>2, <1>5, <2>1
    <2> QED BY <1>1, <1>2, <1>5, <2>2, <2>3
  <1> QED BY <1>2, <1>4, <1>6

LEMMA FilledInjective ==
  ASSUME NEW m \in 0 .. Top, NEW n \in 0 .. Top, Filled(m) = Filled(n)
  PROVE  m = n
  <1>1. m \in Nat /\ n \in Nat
    BY CountsIs
  <1>2. /\ At(m) \in Nat /\ At(n) \in Nat
        /\ Filled(m) = At(m) + 1 /\ Filled(n) = At(n) + 1
    <2>1. \A k \in Nat : At(k) \in Nat
      <3> TAKE k \in Nat
      <3>1. /\ At(k) = Turn(k) * OneLap + Cell(k) /\ Turn(k) \in Nat /\ Cell(k) \in Nat
            /\ OneLap \in Nat
        BY AtIs, LapIs
      <3> QED BY <3>1
    <2> QED BY <1>1, <2>1, AtMoves
  <1>3. At(m) = At(n)
    BY ONLY <1>2, Filled(m) = Filled(n)
  <1> QED BY <1>3, AtInjective

\* A stamp says whether its slot is free or filled.
LEMMA StampsApart ==
  ASSUME NEW m \in Nat, NEW n \in Nat, Cell(m) = Cell(n)
  PROVE  At(m) # Filled(n) /\ AddLap(At(m)) # Filled(n)
  <1>1. Cell(n) \in Nat /\ m + Cap \in Nat
    BY AtIs, CountsIs
  <1>2. Index(At(m)) = Cell(n) /\ Index(Filled(n)) = Cell(n) + 1
    BY AtMoves
  <1>3. AddLap(At(m)) = At(m + Cap) /\ Index(At(m + Cap)) = Cell(m + Cap)
        /\ Cell(m + Cap) = Cell(n)
    BY <1>1, AtMoves, TurnNext
  <1> QED BY <1>1, <1>2, <1>3

LEMMA CellsApart ==
  ASSUME NEW h \in Nat, NEW m \in h .. h + Cap - 1, NEW n \in h .. h + Cap - 1,
         Cell(m) = Cell(n)
  PROVE  m = n
  <1> DEFINE a == m \div Cap
             b == n \div Cap
  <1>1. Cap \in Nat /\ Cap > 0 /\ m \in Nat /\ n \in Nat /\ m - n < Cap /\ n - m < Cap
    BY CountsIs
  <1>2. /\ a \in Nat /\ Cell(m) \in 0 .. Cap - 1 /\ m = a * Cap + Cell(m)
        /\ b \in Nat /\ Cell(n) \in 0 .. Cap - 1 /\ n = b * Cap + Cell(n)
    BY <1>1, Split DEF Cell
  <1> HIDE DEF a, b
  <1>3. a = b
    BY <1>1, <1>2
  <1> QED BY <1>2, <1>3

LEMMA PositionPeriodic ==
  ASSUME NEW x \in Nat, NEW w \in Nat
  PROVE  Position(x + w * (Laps * Cap)) = Position(x)
  <1> DEFINE q == x \div Cap
             r == x % Cap
             a == q \div Laps
             b == q % Laps
  <1>1. Cap \in Nat /\ Cap > 0 /\ Laps \in Nat /\ Laps > 0
    BY CountsIs
  <1>2. q \in Nat /\ r \in 0 .. Cap - 1 /\ x = q * Cap + r
    BY <1>1, Split
  <1>3. a \in Nat /\ b \in 0 .. Laps - 1 /\ q = a * Laps + b
    BY <1>1, <1>2, Split
  <1>4. Position(x) = b * OneLap + r
    BY DEF Position
  <1> HIDE DEF q, r, a, b
  <1>5. q + w * Laps = (a + w) * Laps + b
    BY <1>1, <1>2, <1>3
  <1>6. x + w * (Laps * Cap) = (q + w * Laps) * Cap + r /\ q + w * Laps \in Nat
    BY <1>1, <1>2
  <1>7. /\ (x + w * (Laps * Cap)) \div Cap = q + w * Laps
        /\ (x + w * (Laps * Cap)) % Cap = r
    BY <1>1, <1>2, <1>6, Unique
  <1>8. (q + w * Laps) % Laps = b
    BY <1>1, <1>3, <1>5, Unique
  <1> QED BY <1>4, <1>7, <1>8 DEF Position

\* Ordinal forgets whole cycles of the word.
LEMMA OrdinalIs ==
  ASSUME NEW n \in Nat
  PROVE  /\ Ordinal(At(n)) \in 0 .. Top
         /\ \E w \in Nat : Start * Cap + n = Ordinal(At(n)) + w * (Laps * Cap)
  <1> DEFINE q == n \div Cap
             r == Cell(n)
             w == (Start + q) \div Laps
             b == (Start + q) % Laps
  <1>1. Cap \in Nat /\ Cap > 0 /\ Laps \in Nat /\ Laps > 0 /\ Start \in Nat
    BY CountsIs
  <1>2. q \in Nat /\ r \in 0 .. Cap - 1 /\ n = q * Cap + r
    BY <1>1, Split DEF Cell
  <1>3. w \in Nat /\ b \in 0 .. Laps - 1 /\ Start + q = w * Laps + b
    BY <1>1, <1>2, Split
  <1>4. Ordinal(At(n)) = b * Cap + r
    BY AtMoves DEF Turn
  <1> HIDE DEF q, r, w, b
  <1>5. Start * Cap + n = (Start + q) * Cap + r
    BY <1>1, <1>2
  <1>6. (w * Laps + b) * Cap + r = b * Cap + r + w * (Laps * Cap)
    BY <1>1, <1>2, <1>3
  <1>7. b * Cap + r \in 0 .. Top
    BY <1>1, <1>2, <1>3 DEF Top
  <1> QED BY <1>3, <1>4, <1>5, <1>6, <1>7

LEMMA PositionIs ==
  ASSUME NEW n \in Nat, NEW k \in Nat
  PROVE  Position(Ordinal(At(n)) + k) = At(n + k)
  <1>1. PICK w \in Nat : Start * Cap + n = Ordinal(At(n)) + w * (Laps * Cap)
    BY OrdinalIs
  <1>2. Ordinal(At(n)) \in Nat /\ Start * Cap \in Nat /\ w * (Laps * Cap) \in Nat
    BY OrdinalIs, CountsIs
  <1> DEFINE o == Ordinal(At(n))
             z == w * (Laps * Cap)
             s == Start * Cap
  <1>3. o \in Nat /\ z \in Nat /\ s \in Nat /\ s + n = o + z
    BY <1>1, <1>2
  <1>4. Position((o + k) + z) = Position(o + k)
    BY <1>2, PositionPeriodic
  <1>5. At(n + k) = Position(s + (n + k))
    BY DEF At
  <1> HIDE DEF o, z, s
  <1>6. s + (n + k) = (o + k) + z
    BY <1>3
  <1> QED BY <1>4, <1>5, <1>6 DEF o

LEMMA DistanceIs ==
  ASSUME NEW h \in Nat, NEW n \in h .. h + Cap
  PROVE  (Ordinal(At(n)) + Laps * Cap - Ordinal(At(h))) % (Laps * Cap) = n - h
  <1> DEFINE c == Laps * Cap
             a == Ordinal(At(h))
             b == Ordinal(At(n))
             s == Start * Cap
  <1>1. c \in Nat /\ c > 2 * Cap /\ Cap \in Nat /\ Cap > 0 /\ s \in Nat /\ n \in Nat
    BY CountsIs
  <1>2. a \in 0 .. c - 1 /\ b \in 0 .. c - 1
    BY <1>1, OrdinalIs DEF Top
  <1>3. PICK v \in Nat : s + h = a + v * c
    BY OrdinalIs
  <1>4. PICK w \in Nat : s + n = b + w * c
    BY <1>1, OrdinalIs
  <1> HIDE DEF a, b, c, s
  <1>5. b + c - a = (1 + v - w) * c + (n - h)
    BY <1>1, <1>2, <1>3, <1>4
  <1>6. n - h \in 0 .. c - 1
    BY <1>1
  <1>7. 1 + v - w \in Nat
    <2>1. b + c - a > 0
      BY <1>1, <1>2
    <2>2. 1 + v - w < 0 => (1 + v - w) * c <= 0 - c
      BY <1>1
    <2> QED BY <1>1, <1>2, <1>5, <1>6, <2>1, <2>2
  <1>8. ((1 + v - w) * c + (n - h)) % c = n - h
    BY <1>1, <1>6, <1>7, Unique
  <1> QED BY <1>5, <1>8 DEF a, b, c

\* Below the first lap there is no position that a behaviour reaches.
LEMMA NoLapBelow ==
  ASSUME NEW n \in Nat, n < Cap, NEW h \in 0 .. MaxOps
  PROVE  At(h) # SubLap(At(n))
  <1> DEFINE m == n + (Laps - 1) * Cap
  <1>1. /\ Cap \in Nat /\ Cap > 0 /\ Laps \in Nat /\ Laps > 2 /\ Start * Cap \in Nat
        /\ MaxOps \in Nat /\ MaxOps < (Laps - 1) * Cap
    BY CountsIs, BudgetAssumption
  <1>2. m \in 0 .. Top /\ m + Cap = n + Laps * Cap
    BY <1>1 DEF Top
  <1>3. At(n + Laps * Cap) = At(n)
    <2> DEFINE s == Start * Cap
               z == Laps * Cap
               one == 1
    <2>1. s \in Nat /\ z \in Nat /\ s + n \in Nat /\ one \in Nat
      BY <1>1, CountsIs
    <2> HIDE DEF one
    <2>2. Position((s + n) + one * z) = Position(s + n)
      BY <2>1, PositionPeriodic
    <2> HIDE DEF s, z
    <2>3. (s + n) + one * z = s + (n + z)
      BY <2>1 DEF one
    <2> QED BY <2>2, <2>3 DEF At, s, z
  <1>4. m \in Nat /\ h \in 0 .. Top /\ h # m
    BY <1>1, <1>2, CountsIs
  <1> HIDE DEF m
  <1>5. SubLap(At(n)) = At(m)
    BY <1>2, <1>3, <1>4, AtMoves
  <1> QED BY <1>2, <1>4, <1>5, AtInjective

-----------------------------------------------------------------------------
(* The invariant.  Words stand for positions: Ord gives the position of a word. *)

Words == {At(n) : n \in 0 .. Top}
Ord(x) == CHOOSE n \in 0 .. Top : At(n) = x

LEMMA OrdIs ==
  /\ \A n \in 0 .. Top : At(n) \in Words /\ Ord(At(n)) = n
  /\ \A x \in Words : Ord(x) \in 0 .. Top /\ At(Ord(x)) = x /\ Index(x) = Cell(Ord(x))
  <1>1. \A n \in 0 .. Top : At(n) \in Words
    BY DEF Words
  <1>2. \A x \in Words : Ord(x) \in 0 .. Top /\ At(Ord(x)) = x
    BY DEF Words, Ord
  <1>3. \A n \in 0 .. Top : Ord(At(n)) = n
    BY <1>1, <1>2, AtInjective
  <1>4. \A x \in Words : Index(x) = Cell(Ord(x))
    BY <1>2, AtMoves, CountsIs
  <1> QED BY <1>1, <1>2, <1>3, <1>4

Pushing == {"push", "force"}
Owning == {"write", "publish", "read", "forceTail", "forceSwap"}

Pcs == {"idle", "load", "stamp", "cas", "write", "publish", "full", "forceTail",
        "forceSwap", "read", "empty", "done"}
Calls == [pc : Pcs, op : Pushing \cup {"none", "pop"}, pos : Nat,
          arg : Values \cup {None}, ret : Values \cup {None}]

TypeOK ==
  /\ head \in Words /\ tail \in Words
  /\ stamp \in [Slots -> Nat] /\ value \in [Slots -> Values \cup {None}]
  /\ th \in [Threads -> Calls] /\ started \in 0 .. MaxOps

\* The operation of a thread and the step of it that it has reached.
ShapeOk(r) ==
  /\ r.pc = "idle" => r = Idle
  /\ r.pc # "idle" => r.op # "none"
  /\ r.pc \in {"write", "full"} => r.op \in Pushing
  /\ r.pc \in {"forceTail", "forceSwap"} => r.op = "force"
  /\ r.pc \in {"read", "empty"} => r.op = "pop"
  /\ IF r.op \in Pushing THEN r.arg \in Values ELSE r.arg = None
  /\ r.pc \in {"load", "stamp", "cas", "write", "full", "empty"} => r.ret = None

\* What thread record r has learnt of the slot it is about to claim, when the positions
\* of head and tail are h and n, the stamps st.
LearntOk(r, h, n, st) ==
  LET p == Ord(r.pos)
      s == st[Cell(p)]
  IN  /\ r.pc \notin {"idle", "load", "done"} => r.pos \in Words
      /\ r.pc \in {"stamp", "cas", "full"} /\ r.op # "pop" => p <= n
      /\ r.pc \in {"stamp", "cas", "empty"} /\ r.op = "pop" => p <= h
      /\ r.pc = "cas" /\ r.op # "pop" /\ p = n => n < h + Cap /\ s = At(n)
      /\ r.pc = "cas" /\ r.op = "pop" /\ p = h => h < n /\ s = Filled(h)
      /\ r.pc = "full" /\ p = h + Cap => s = Filled(h)
      /\ r.pc = "empty" /\ p = n => s = At(n)

\* The position that the slot of an owner has in the window of Cap positions from head.
Place(r) == IF r.op = "pop" THEN Ord(r.pos) + Cap ELSE Ord(r.pos)

\* The slot that thread record r owns, its stamp and its value.
OwnerOk(r, h, n, st, vl) ==
  LET p == Ord(r.pos)
      s == st[Cell(p)]
      v == vl[Cell(p)]
  IN  /\ r.pos \in Words /\ h <= Place(r) /\ Place(r) < h + Cap
      /\ r.op = "pop" => n <= Place(r) /\ s = Filled(p)
      /\ r.op # "pop" => IF r.pc = "forceTail" THEN p = n ELSE p < n
      /\ r.pc = "write" => s = At(p)
      /\ r.pc \in {"forceTail", "forceSwap"} => Cap <= p /\ s = Filled(p - Cap)
      /\ r.pc = "publish" /\ r.op # "pop" =>
            s = At(p) \/ (Cap <= p /\ s = Filled(p - Cap))
      /\ IF r.pc = "write" \/ (r.pc = "publish" /\ r.op = "pop") THEN v = None
         ELSE v \in Values

ThreadOk(r, h, n, st, vl) ==
  /\ ShapeOk(r) /\ LearntOk(r, h, n, st)
  /\ r.pc \in Owning => OwnerOk(r, h, n, st, vl)

\* The slot of position k, when nobody owns it.
SlotOk(k, n, st, vl) ==
  IF k < n THEN st[Cell(k)] = Filled(k) /\ vl[Cell(k)] \in Values
           ELSE st[Cell(k)] = At(k) /\ vl[Cell(k)] = None

Window(h, n) == h <= n /\ n <= h + Cap /\ n <= MaxOps

\* Two owners own different positions of the window.
OwnersApart(ths) ==
  \A t, u \in Threads : /\ t # u /\ ths[t].pc \in Owning /\ ths[u].pc \in Owning
                        => Place(ths[t]) # Place(ths[u])

SlotsOk(ths, h, n, st, vl) ==
  \A k \in h .. h + Cap - 1 :
     \/ \E t \in Threads : ths[t].pc \in Owning /\ Place(ths[t]) = k
     \/ SlotOk(k, n, st, vl)

\* Operations that may still append to the queue.
Claiming == {"load", "stamp", "cas", "full", "forceTail"}
Claims(ths) == {t \in Threads : ths[t].op \in Pushing /\ ths[t].pc \in Claiming}
Budget(ths, n, k) == IsFiniteSet(Claims(ths)) /\ n + Cardinality(Claims(ths)) <= k

Shared(ths, h, n, st, vl) ==
  /\ Window(h, n) /\ OwnersApart(ths) /\ SlotsOk(ths, h, n, st, vl)
  /\ \A t \in Threads : ThreadOk(ths[t], h, n, st, vl)

QueueInv ==
  /\ TypeOK /\ Shared(th, Ord(head), Ord(tail), stamp, value)
  /\ Budget(th, Ord(tail), started)

-----------------------------------------------------------------------------
(* Owners and the slots they own *)

LEMMA PlaceIs ==
  ASSUME NEW r, r.pos \in Words
  PROVE  /\ Ord(r.pos) \in 0 .. Top /\ Ord(r.pos) \in Nat /\ Place(r) \in Nat
         /\ Cell(Place(r)) = Cell(Ord(r.pos)) /\ Cell(Ord(r.pos)) \in Slots
         /\ Index(r.pos) = Cell(Ord(r.pos)) /\ r.pos = At(Ord(r.pos))
  <1> DEFINE p == Ord(r.pos)
  <1>1. p \in 0 .. Top /\ p \in Nat /\ Index(r.pos) = Cell(p) /\ r.pos = At(p)
    BY OrdIs, CountsIs
  <1> HIDE DEF p
  <1>2. Cell(p + Cap) = Cell(p) /\ Cell(p) \in Slots /\ p + Cap \in Nat
    BY <1>1, TurnNext, AtIs, CountsIs DEF Slots
  <1> QED BY <1>1, <1>2 DEF p, Place

\* Positions of the window are known by their slots.
LEMMA WindowCells ==
  ASSUME NEW h \in Nat, NEW j \in Nat, NEW k \in Nat,
         h <= j, j < h + Cap, h <= k, k < h + Cap, Cell(j) = Cell(k)
  PROVE  j = k
  <1>1. j \in h .. h + Cap - 1 /\ k \in h .. h + Cap - 1
    BY CountsIs
  <1> QED BY <1>1, CellsApart

\* The slot of an owner is neither free for the push at tail nor filled for the pop at
\* head.
LEMMA OwnerStamp ==
  ASSUME NEW h \in Nat, NEW n \in Nat, NEW st, NEW vl, NEW r, Window(h, n),
         r.pc \in Owning, ShapeOk(r), OwnerOk(r, h, n, st, vl)
  PROVE  /\ Place(r) = n => st[Cell(n)] # At(n)
         /\ h < n /\ Place(r) = h => st[Cell(h)] # Filled(h)
  <1> DEFINE p == Ord(r.pos)
             s == st[Cell(p)]
  <1>1. /\ p \in 0 .. Top /\ p \in Nat /\ Place(r) \in Nat /\ Cell(Place(r)) = Cell(p)
        /\ Place(r) = IF r.op = "pop" THEN p + Cap ELSE p
    BY PlaceIs DEF OwnerOk, Place
  <1>2. Cap \in Nat /\ Cap > 0
    BY CountsIs
  <1>3. CASE r.op = "pop"
    <2>1. s = Filled(p) /\ n <= Place(r)
      BY <1>3 DEF OwnerOk
    <2> HIDE DEF p
    <2>2. Place(r) = n => Filled(p) # At(n)
      BY <1>1, StampsApart
    <2>3. ~(h < n /\ Place(r) = h)
      BY <1>1, <2>1
    <2> QED BY <1>1, <2>1, <2>2, <2>3
  <1>4. CASE r.op # "pop"
    <2>1. Place(r) = p
      BY <1>1, <1>4
    <2>2. \/ s = At(p) /\ p < n
          \/ Cap <= p /\ s = Filled(p - Cap)
      BY <1>4 DEF OwnerOk, ShapeOk, Owning
    <2> HIDE DEF p
    <2>3. CASE s = At(p) /\ p < n
      <3>1. At(p) # Filled(p)
        BY <1>1, StampsApart
      <3> QED BY <1>1, <2>1, <2>3, <3>1
    <2>4. CASE Cap <= p /\ s = Filled(p - Cap)
      <3>1. p - Cap \in Nat /\ p - Cap \in 0 .. Top /\ (p - Cap) + Cap = p
        <4>1. Top \in Nat /\ Cap <= p
          BY <2>4, CountsIs
        <4> QED BY ONLY <1>1, <1>2, <4>1
      <3>2. Cell(p - Cap) = Cell(p)
        BY <3>1, TurnNext
      <3>3. Filled(p - Cap) # At(p)
        BY <1>1, <3>1, <3>2, StampsApart
      <3>4. Filled(p - Cap) # Filled(p)
        <4>1. p - Cap # p
          BY <1>1, <1>2
        <4> QED BY <1>1, <3>1, <4>1, FilledInjective
      <3> QED BY <1>1, <2>1, <2>4, <3>3, <3>4
    <2> QED BY <2>2, <2>3, <2>4
  <1> QED BY <1>3, <1>4

LEMMA TailFrame ==
  ASSUME NEW h \in Nat, NEW n \in Nat, NEW st, NEW vl, NEW r, Window(h, n), n < h + Cap,
         ThreadOk(r, h, n, st, vl), r.pc \in Owning => Place(r) # n
  PROVE  ThreadOk(r, h, n + 1, st, vl)
  <1> DEFINE p == Ord(r.pos)
             s == st[Cell(p)]
  <1>1. Cap \in Nat /\ Cap > 0 /\ (r.pos \in Words => p \in Nat /\ Place(r) \in Nat)
    BY CountsIs, PlaceIs
  <1>2. LearntOk(r, h, n + 1, st)
    <2>1. LearntOk(r, h, n, st) /\ ShapeOk(r)
      BY DEF ThreadOk
    <2>2. r.pc = "full" => r.op # "pop"
      BY <2>1 DEF ShapeOk, Pushing
    <2>3. r.pc = "empty" => r.op = "pop"
      BY <2>1 DEF ShapeOk
    <2> QED BY <1>1, <2>1, <2>2, <2>3 DEF LearntOk, Window
  <1>3. ASSUME r.pc \in Owning
        PROVE  OwnerOk(r, h, n + 1, st, vl)
    <2>1. OwnerOk(r, h, n, st, vl) /\ Place(r) # n
      BY <1>3 DEF ThreadOk
    <2>2. r.op # "pop" => Place(r) = p
      BY DEF Place
    <2>3. r.pc # "forceTail" \/ r.op = "pop"
      BY <2>1, <2>2 DEF OwnerOk
    <2>4. r.pos \in Words /\ r.pc # "forceTail"
      BY <2>1, <2>3 DEF OwnerOk, ShapeOk, ThreadOk
    <2>5. r.op = "pop" => n + 1 <= Place(r)
      BY <1>1, <2>1, <2>4 DEF OwnerOk
    <2>6. r.op # "pop" => p < n + 1
      BY <1>1, <2>1, <2>4 DEF OwnerOk
    <2> QED BY <2>1, <2>4, <2>5, <2>6 DEF OwnerOk
  <1> QED BY <1>2, <1>3 DEF ThreadOk

LEMMA HeadFrame ==
  ASSUME NEW h \in Nat, NEW n \in Nat, NEW st, NEW vl, NEW r, Window(h, n), h < n,
         ThreadOk(r, h, n, st, vl), r.pc \in Owning => Place(r) # h
  PROVE  ThreadOk(r, h + 1, n, st, vl)
  <1> DEFINE p == Ord(r.pos)
             s == st[Cell(p)]
  <1>1. Cap \in Nat /\ Cap > 0 /\ (r.pos \in Words => p \in Nat /\ Place(r) \in Nat)
    BY CountsIs, PlaceIs
  <1>2. LearntOk(r, h + 1, n, st)
    <2>1. LearntOk(r, h, n, st) /\ ShapeOk(r)
      BY DEF ThreadOk
    <2>2. r.pc = "full" => r.op # "pop"
      BY <2>1 DEF ShapeOk, Pushing
    <2>3. r.pc = "empty" => r.op = "pop"
      BY <2>1 DEF ShapeOk
    <2> QED BY <1>1, <2>1, <2>2, <2>3 DEF LearntOk, Window
  <1>3. ASSUME r.pc \in Owning
        PROVE  OwnerOk(r, h + 1, n, st, vl)
    <2>1. OwnerOk(r, h, n, st, vl) /\ Place(r) # h /\ r.pos \in Words
      BY <1>3 DEF ThreadOk, OwnerOk
    <2>2. h + 1 <= Place(r) /\ Place(r) < h + 1 + Cap
      BY <1>1, <2>1 DEF OwnerOk
    <2> QED BY <2>1, <2>2 DEF OwnerOk
  <1> QED BY <1>2, <1>3 DEF ThreadOk

LEMMA ValueFrame ==
  ASSUME NEW h, NEW n, NEW st, NEW vl, NEW r, NEW w, NEW i,
         \A j \in Slots : j # i => w[j] = vl[j], ThreadOk(r, h, n, st, vl),
         r.pc \in Owning => Cell(Ord(r.pos)) # i
  PROVE  ThreadOk(r, h, n, st, w)
  <1>1. ASSUME r.pc \in Owning
        PROVE  OwnerOk(r, h, n, st, w)
    <2>1. OwnerOk(r, h, n, st, vl) /\ Cell(Ord(r.pos)) \in Slots
      BY <1>1, PlaceIs DEF ThreadOk, OwnerOk
    <2>2. w[Cell(Ord(r.pos))] = vl[Cell(Ord(r.pos))]
      BY <1>1, <2>1
    <2> QED BY <2>1, <2>2 DEF OwnerOk
  <1> QED BY <1>1 DEF ThreadOk

\* An owner o restamps its slot.
LEMMA StampFrame ==
  ASSUME NEW h \in Nat, NEW n \in Nat, NEW st, NEW vl, NEW r, NEW o, NEW w, Window(h, n),
         o.pc \in Owning, ThreadOk(o, h, n, st, vl), ThreadOk(r, h, n, st, vl),
         \A j \in Slots : j # Cell(Place(o)) => w[j] = st[j],
         r.pc \in Owning => Place(r) # Place(o)
  PROVE  ThreadOk(r, h, n, w, vl)
  <1> DEFINE p == Ord(r.pos)
  <1>1. Cap \in Nat /\ Cap > 0 /\ h <= n /\ n <= h + Cap
    BY CountsIs DEF Window
  <1>2. OwnerOk(o, h, n, st, vl) /\ ShapeOk(o) /\ Place(o) \in Nat
    BY PlaceIs DEF ThreadOk, OwnerOk
  <1>3. h <= Place(o) /\ Place(o) < h + Cap
    BY <1>2 DEF OwnerOk
  <1>4. n < h + Cap /\ st[Cell(n)] = At(n) => Cell(n) # Cell(Place(o))
    BY <1>1, <1>2, <1>3, WindowCells, OwnerStamp
  <1>5. h < n /\ st[Cell(h)] = Filled(h) => Cell(h) # Cell(Place(o))
    <2>1. h <= h /\ h < h + Cap
      BY <1>1
    <2> QED BY <1>1, <1>2, <1>3, <2>1, WindowCells, OwnerStamp
  <1>6. \A j \in Nat : Cell(j) \in Slots
    BY AtIs DEF Slots
  <1>7. r.pos \in Words => p \in Nat /\ Place(r) \in Nat /\ Cell(Place(r)) = Cell(p)
    BY PlaceIs
  <1>8. LearntOk(r, h, n, w)
    <2>1. LearntOk(r, h, n, st) /\ ShapeOk(r)
      BY DEF ThreadOk
    <2>2. r.pc = "full" => r.op # "pop"
      BY <2>1 DEF ShapeOk, Pushing
    <2>3. r.pc = "empty" => r.op = "pop"
      BY <2>1 DEF ShapeOk
    <2>4. ASSUME r.pc = "cas", r.op # "pop", p = n
          PROVE  n < h + Cap /\ w[Cell(p)] = At(n)
      BY <1>4, <1>6, <2>1, <2>4 DEF LearntOk
    <2>5. ASSUME r.pc = "cas", r.op = "pop", p = h
          PROVE  h < n /\ w[Cell(p)] = Filled(h)
      BY <1>5, <1>6, <2>1, <2>5 DEF LearntOk
    <2>6. ASSUME r.pc = "full", p = h + Cap
          PROVE  w[Cell(p)] = Filled(h)
      <3>1. Cell(p) = Cell(h)
        BY <2>6, TurnNext
      <3>2. h < n /\ st[Cell(p)] = Filled(h)
        BY <1>1, <1>7, <2>1, <2>2, <2>6 DEF LearntOk
      <3> QED BY <1>5, <1>6, <3>1, <3>2
    <2>7. ASSUME r.pc = "empty", p = n
          PROVE  w[Cell(p)] = At(n)
      <3>1. n < h + Cap /\ st[Cell(p)] = At(n)
        BY <1>1, <1>7, <2>1, <2>3, <2>7 DEF LearntOk
      <3> QED BY <1>4, <1>6, <2>7, <3>1
    <2> QED BY <2>1, <2>4, <2>5, <2>6, <2>7 DEF LearntOk
  <1>9. ASSUME r.pc \in Owning
        PROVE  OwnerOk(r, h, n, w, vl)
    <2>1. OwnerOk(r, h, n, st, vl) /\ Place(r) # Place(o) /\ r.pos \in Words
      BY <1>9 DEF ThreadOk, OwnerOk
    <2>2. h <= Place(r) /\ Place(r) < h + Cap
      BY <2>1 DEF OwnerOk
    <2>3. Cell(Place(r)) # Cell(Place(o))
      BY <1>2, <1>3, <1>7, <2>1, <2>2, WindowCells
    <2>4. w[Cell(p)] = st[Cell(p)]
      BY <1>6, <1>7, <2>1, <2>3
    <2> QED BY <2>1, <2>4 DEF OwnerOk
  <1> QED BY <1>8, <1>9 DEF ThreadOk

-----------------------------------------------------------------------------
(* The five ways in which a step of one thread moves the queue *)

LEMMA LocalMove ==
  ASSUME NEW h \in Nat, NEW n \in Nat, NEW st, NEW vl, NEW f, NEW g, NEW t \in Threads,
         Shared(f, h, n, st, vl), \A u \in Threads : u # t => g[u] = f[u],
         f[t].pc \notin Owning, g[t].pc \notin Owning, ThreadOk(g[t], h, n, st, vl)
  PROVE  Shared(g, h, n, st, vl)
  <1>1. OwnersApart(g)
    BY DEF Shared, OwnersApart
  <1>2. SlotsOk(g, h, n, st, vl)
    BY DEF Shared, SlotsOk
  <1>3. \A u \in Threads : ThreadOk(g[u], h, n, st, vl)
    BY DEF Shared
  <1> QED BY <1>1, <1>2, <1>3 DEF Shared

\* The push at tail is claimed: by the thread that moves tail, or earlier by a force_push.
LEMMA TailMove ==
  ASSUME NEW h \in Nat, NEW n \in Nat, NEW st, NEW vl, NEW f, NEW g, NEW t \in Threads,
         Shared(f, h, n, st, vl), \A u \in Threads : u # t => g[u] = f[u],
         n < h + Cap, n < MaxOps,
         \A u \in Threads : u # t /\ f[u].pc \in Owning => Place(f[u]) # n,
         f[t].pc \in Owning => Place(f[t]) = n,
         g[t].pc \in Owning, Place(g[t]) = n, ThreadOk(g[t], h, n + 1, st, vl)
  PROVE  Shared(g, h, n + 1, st, vl)
  <1>1. Window(h, n) /\ MaxOps \in Nat /\ Cap \in Nat
    BY CountsIs DEF Shared
  <1>2. Window(h, n + 1)
    BY <1>1 DEF Window
  <1>3. OwnersApart(g)
    BY DEF Shared, OwnersApart
  <1>4. SlotsOk(g, h, n + 1, st, vl)
    <2> SUFFICES ASSUME NEW k \in h .. h + Cap - 1,
                        ~\E u \in Threads : g[u].pc \in Owning /\ Place(g[u]) = k
                 PROVE  SlotOk(k, n + 1, st, vl)
      BY DEF SlotsOk
    <2>1. k # n /\ ~\E u \in Threads : f[u].pc \in Owning /\ Place(f[u]) = k
      OBVIOUS
    <2>2. SlotOk(k, n, st, vl)
      BY <2>1 DEF Shared, SlotsOk
    <2>3. k < n <=> k < n + 1
      BY <1>1, <2>1
    <2> QED BY <2>2, <2>3 DEF SlotOk
  <1>5. \A u \in Threads : ThreadOk(g[u], h, n + 1, st, vl)
    <2> SUFFICES ASSUME NEW u \in Threads, u # t
                 PROVE  ThreadOk(f[u], h, n + 1, st, vl)
      OBVIOUS
    <2>1. ThreadOk(f[u], h, n, st, vl)
      BY DEF Shared
    <2> QED BY <1>1, <2>1, TailFrame
  <1> QED BY <1>2, <1>3, <1>4, <1>5 DEF Shared

\* The pop at head is claimed: by a pop, or by a force_push that evicts.
LEMMA HeadMove ==
  ASSUME NEW h \in Nat, NEW n \in Nat, NEW st, NEW vl, NEW f, NEW g, NEW t \in Threads,
         Shared(f, h, n, st, vl), \A u \in Threads : u # t => g[u] = f[u],
         h < n, f[t].pc \notin Owning,
         \A u \in Threads : f[u].pc \in Owning => Place(f[u]) # h,
         g[t].pc \in Owning, Place(g[t]) = h + Cap, ThreadOk(g[t], h + 1, n, st, vl)
  PROVE  Shared(g, h + 1, n, st, vl)
  <1>1. Window(h, n) /\ MaxOps \in Nat /\ Cap \in Nat /\ Cap > 0
    BY CountsIs DEF Shared
  <1>2. Window(h + 1, n)
    BY <1>1 DEF Window
  <1>3. OwnersApart(g)
    <2>1. \A u \in Threads : f[u].pc \in Owning => Place(f[u]) # h + Cap
      <3> SUFFICES ASSUME NEW u \in Threads, f[u].pc \in Owning
                   PROVE  Place(f[u]) # h + Cap
        OBVIOUS
      <3>1. OwnerOk(f[u], h, n, st, vl)
        BY DEF Shared, ThreadOk
      <3>2. Place(f[u]) \in Nat /\ Place(f[u]) < h + Cap
        BY <3>1, PlaceIs DEF OwnerOk
      <3> QED BY <1>1, <3>2
    <2> QED BY <2>1 DEF Shared, OwnersApart
  <1>4. SlotsOk(g, h + 1, n, st, vl)
    <2> SUFFICES ASSUME NEW k \in h + 1 .. h + 1 + Cap - 1,
                        ~\E u \in Threads : g[u].pc \in Owning /\ Place(g[u]) = k
                 PROVE  SlotOk(k, n, st, vl)
      BY DEF SlotsOk
    <2>1. k # h + Cap /\ ~\E u \in Threads : f[u].pc \in Owning /\ Place(f[u]) = k
      OBVIOUS
    <2>2. k \in h .. h + Cap - 1
      BY <1>1, <2>1
    <2> QED BY <2>1, <2>2 DEF Shared, SlotsOk
  <1>5. \A u \in Threads : ThreadOk(g[u], h + 1, n, st, vl)
    <2> SUFFICES ASSUME NEW u \in Threads, u # t
                 PROVE  ThreadOk(f[u], h + 1, n, st, vl)
      OBVIOUS
    <2>1. ThreadOk(f[u], h, n, st, vl)
      BY DEF Shared
    <2> QED BY <1>1, <2>1, HeadFrame
  <1> QED BY <1>2, <1>3, <1>4, <1>5 DEF Shared

LEMMA OwnerPlace ==
  ASSUME NEW h \in Nat, NEW n \in Nat, NEW st, NEW vl, NEW f, NEW t \in Threads,
         Shared(f, h, n, st, vl), f[t].pc \in Owning
  PROVE  /\ f[t].pos \in Words /\ Place(f[t]) \in Nat /\ Place(f[t]) \in h .. h + Cap - 1
         /\ Cell(Place(f[t])) = Cell(Ord(f[t].pos))
         /\ \A k \in h .. h + Cap - 1 : Cell(k) = Cell(Place(f[t])) => k = Place(f[t])
         /\ \A u \in Threads : u # t /\ f[u].pc \in Owning =>
              /\ Place(f[u]) # Place(f[t])
              /\ Cell(Ord(f[u].pos)) # Cell(Place(f[t]))
  <1>1. \A u \in Threads : f[u].pc \in Owning =>
          /\ f[u].pos \in Words /\ Place(f[u]) \in Nat /\ Place(f[u]) \in h .. h + Cap - 1
          /\ Cell(Place(f[u])) = Cell(Ord(f[u].pos))
    <2> SUFFICES ASSUME NEW u \in Threads, f[u].pc \in Owning
                 PROVE  /\ f[u].pos \in Words /\ Place(f[u]) \in Nat
                        /\ Place(f[u]) \in h .. h + Cap - 1
                        /\ Cell(Place(f[u])) = Cell(Ord(f[u].pos))
      OBVIOUS
    <2>1. OwnerOk(f[u], h, n, st, vl)
      BY DEF Shared, ThreadOk
    <2>2. f[u].pos \in Words /\ h <= Place(f[u]) /\ Place(f[u]) < h + Cap
      BY <2>1 DEF OwnerOk
    <2>3. Place(f[u]) \in Nat /\ Cell(Place(f[u])) = Cell(Ord(f[u].pos))
      BY <2>2, PlaceIs
    <2> QED BY <2>2, <2>3, CountsIs
  <1>2. \A k \in h .. h + Cap - 1 : Cell(k) = Cell(Place(f[t])) => k = Place(f[t])
    BY <1>1, CellsApart
  <1>3. \A u \in Threads : u # t /\ f[u].pc \in Owning => Place(f[u]) # Place(f[t])
    BY DEF Shared, OwnersApart
  <1> QED BY <1>1, <1>2, <1>3

\* An owner moves a value into or out of its slot.
LEMMA ValueMove ==
  ASSUME NEW h \in Nat, NEW n \in Nat, NEW st, NEW vl, NEW w, NEW f, NEW g,
         NEW t \in Threads,
         Shared(f, h, n, st, vl), \A u \in Threads : u # t => g[u] = f[u],
         f[t].pc \in Owning, g[t].pc \in Owning, Place(g[t]) = Place(f[t]),
         \A j \in Slots : j # Cell(Place(f[t])) => w[j] = vl[j],
         ThreadOk(g[t], h, n, st, w)
  PROVE  Shared(g, h, n, st, w)
  <1>0. /\ \A k \in h .. h + Cap - 1 : Cell(k) = Cell(Place(f[t])) => k = Place(f[t])
        /\ \A u \in Threads : u # t /\ f[u].pc \in Owning =>
              /\ Place(f[u]) # Place(f[t])
              /\ Cell(Ord(f[u].pos)) # Cell(Place(f[t]))
    BY ONLY h \in Nat, n \in Nat, t \in Threads, Shared(f, h, n, st, vl),
            f[t].pc \in Owning, OwnerPlace
  <1>1. OwnersApart(g)
    BY DEF Shared, OwnersApart
  <1>2. SlotsOk(g, h, n, st, w)
    <2> SUFFICES ASSUME NEW k \in h .. h + Cap - 1,
                        ~\E u \in Threads : g[u].pc \in Owning /\ Place(g[u]) = k
                 PROVE  SlotOk(k, n, st, w)
      BY DEF SlotsOk
    <2>1. k # Place(f[t]) /\ ~\E u \in Threads : f[u].pc \in Owning /\ Place(f[u]) = k
      OBVIOUS
    <2>2. SlotOk(k, n, st, vl)
      BY <2>1 DEF Shared, SlotsOk
    <2>3. k \in Nat /\ Cell(k) # Cell(Place(f[t])) /\ Cell(k) \in Slots
      <3>1. k \in Nat
        BY CountsIs
      <3>2. Cell(k) \in Slots
        BY <3>1, AtIs DEF Slots
      <3> QED BY <1>0, <2>1, <3>1, <3>2
    <2> QED BY <2>2, <2>3 DEF SlotOk
  <1>3. \A u \in Threads : ThreadOk(g[u], h, n, st, w)
    <2> SUFFICES ASSUME NEW u \in Threads, u # t
                 PROVE  ThreadOk(f[u], h, n, st, w)
      OBVIOUS
    <2>1. ThreadOk(f[u], h, n, st, vl)
      BY DEF Shared
    <2>2. f[u].pc \in Owning => Cell(Ord(f[u].pos)) # Cell(Place(f[t]))
      BY <1>0
    <2> QED BY <2>1, <2>2, ValueFrame
  <1> QED BY <1>1, <1>2, <1>3 DEF Shared

\* An owner publishes the stamp of its slot and leaves it.
LEMMA PublishMove ==
  ASSUME NEW h \in Nat, NEW n \in Nat, NEW st, NEW vl, NEW w, NEW f, NEW g,
         NEW t \in Threads,
         Shared(f, h, n, st, vl), \A u \in Threads : u # t => g[u] = f[u],
         f[t].pc \in Owning, g[t].pc \notin Owning,
         \A j \in Slots : j # Cell(Place(f[t])) => w[j] = st[j],
         SlotOk(Place(f[t]), n, w, vl), ThreadOk(g[t], h, n, w, vl)
  PROVE  Shared(g, h, n, w, vl)
  <1>0. /\ \A k \in h .. h + Cap - 1 : Cell(k) = Cell(Place(f[t])) => k = Place(f[t])
        /\ \A u \in Threads : u # t /\ f[u].pc \in Owning =>
              /\ Place(f[u]) # Place(f[t])
              /\ Cell(Ord(f[u].pos)) # Cell(Place(f[t]))
    BY ONLY h \in Nat, n \in Nat, t \in Threads, Shared(f, h, n, st, vl),
            f[t].pc \in Owning, OwnerPlace
  <1>1. OwnersApart(g)
    BY DEF Shared, OwnersApart
  <1>2. SlotsOk(g, h, n, w, vl)
    <2> SUFFICES ASSUME NEW k \in h .. h + Cap - 1, k # Place(f[t]),
                        ~\E u \in Threads : g[u].pc \in Owning /\ Place(g[u]) = k
                 PROVE  SlotOk(k, n, w, vl)
      BY DEF SlotsOk
    <2>1. ~\E u \in Threads : f[u].pc \in Owning /\ Place(f[u]) = k
      OBVIOUS
    <2>2. SlotOk(k, n, st, vl)
      BY <2>1 DEF Shared, SlotsOk
    <2>3. k \in Nat /\ Cell(k) # Cell(Place(f[t])) /\ Cell(k) \in Slots
      <3>1. k \in Nat
        BY CountsIs
      <3>2. Cell(k) \in Slots
        BY <3>1, AtIs DEF Slots
      <3> QED BY <1>0, <3>1, <3>2
    <2> QED BY <2>2, <2>3 DEF SlotOk
  <1>3. \A u \in Threads : ThreadOk(g[u], h, n, w, vl)
    <2> SUFFICES ASSUME NEW u \in Threads, u # t
                 PROVE  ThreadOk(f[u], h, n, w, vl)
      OBVIOUS
    <2>1. ThreadOk(f[u], h, n, st, vl) /\ ThreadOk(f[t], h, n, st, vl) /\ Window(h, n)
      BY DEF Shared
    <2>2. f[u].pc \in Owning => Place(f[u]) # Place(f[t])
      BY <1>0
    <2> QED BY <2>1, <2>2, StampFrame
  <1> QED BY <1>1, <1>2, <1>3 DEF Shared

-----------------------------------------------------------------------------
(* The budget of operations bounds the positions *)

LEMMA BudgetMove ==
  ASSUME NEW f, NEW g, NEW t \in Threads, NEW n \in Nat, NEW k \in Nat,
         Budget(f, n, k), \A u \in Threads : u # t => g[u] = f[u]
  PROVE  /\ IsFiniteSet(Claims(g))
         /\ t \in Claims(f) <=> t \in Claims(g) => Budget(g, n, k)
         /\ t \in Claims(f) /\ t \notin Claims(g) => n < k /\ Budget(g, n, k) /\ Budget(g, n + 1, k)
         /\ t \notin Claims(f) => Budget(g, n, k + 1)
  <1> DEFINE c == Cardinality(Claims(f))
             d == Cardinality(Claims(g))
  <1>1. IsFiniteSet(Claims(f)) /\ c \in Nat /\ n + c <= k
    BY FS_CardinalityType DEF Budget
  <1>2. /\ Claims(g) \subseteq Claims(f) \cup {t} /\ IsFiniteSet(Claims(f) \cup {t})
    BY <1>1, FS_AddElement DEF Claims
  <1>3. IsFiniteSet(Claims(g)) /\ d \in Nat
    BY <1>2, FS_Subset, FS_CardinalityType
  <1>4. (t \in Claims(f) <=> t \in Claims(g)) => d = c
    <2>1. (t \in Claims(f) <=> t \in Claims(g)) => Claims(f) = Claims(g)
      BY DEF Claims
    <2> QED BY <2>1
  <1>5. t \in Claims(f) /\ t \notin Claims(g) => d = c - 1
    <2>1. t \in Claims(f) /\ t \notin Claims(g) => Claims(g) = Claims(f) \ {t}
      BY DEF Claims
    <2> QED BY <1>1, <2>1, FS_RemoveElement
  <1>6. t \notin Claims(f) /\ t \in Claims(g) => d = c + 1
    <2>1. t \notin Claims(f) /\ t \in Claims(g) => Claims(g) = Claims(f) \cup {t}
      BY DEF Claims
    <2> QED BY <1>1, <2>1, FS_AddElement
  <1> HIDE DEF c, d
  <1>7. \A m, j \in Nat : Budget(g, m, j) <=> m + d <= j
    BY <1>3 DEF Budget, d
  <1> QED BY <1>1, <1>3, <1>4, <1>5, <1>6, <1>7

-----------------------------------------------------------------------------
(* Steps of one thread *)

LEMMA StateIs ==
  ASSUME QueueInv
  PROVE  /\ Ord(head) \in 0 .. Top /\ Ord(head) \in Nat /\ head = At(Ord(head))
         /\ Ord(tail) \in 0 .. Top /\ Ord(tail) \in Nat /\ tail = At(Ord(tail))
         /\ Ord(tail) <= MaxOps /\ Window(Ord(head), Ord(tail))
         /\ Ord(head) <= Ord(tail) /\ Ord(tail) <= Ord(head) + Cap
         /\ th \in [Threads -> Calls] /\ stamp \in [Slots -> Nat]
         /\ value \in [Slots -> Values \cup {None}] /\ started \in Nat /\ started <= MaxOps
         /\ Shared(th, Ord(head), Ord(tail), stamp, value)
         /\ Budget(th, Ord(tail), started)
         /\ \A t \in Threads : ThreadOk(th[t], Ord(head), Ord(tail), stamp, value)
  <1>1. TypeOK /\ Shared(th, Ord(head), Ord(tail), stamp, value)
    BY DEF QueueInv
  <1>2. /\ Ord(head) \in 0 .. Top /\ head = At(Ord(head))
        /\ Ord(tail) \in 0 .. Top /\ tail = At(Ord(tail)) /\ MaxOps \in Nat
    BY <1>1, OrdIs, CountsIs DEF TypeOK
  <1>3. Window(Ord(head), Ord(tail))
    BY <1>1 DEF Shared
  <1>4. Ord(head) \in Nat /\ Ord(tail) \in Nat
    BY <1>2
  <1>5. started \in Nat /\ started <= MaxOps
    BY <1>1, <1>2 DEF TypeOK
  <1> QED BY <1>1, <1>2, <1>3, <1>4, <1>5 DEF QueueInv, TypeOK, Shared, Window

LEMMA WentTo ==
  ASSUME NEW t \in Threads, NEW c \in Pcs, th \in [Threads -> Calls],
         Goto(t, c)
  PROVE  /\ th' \in [Threads -> Calls] /\ \A u \in Threads : u # t => th'[u] = th[u]
         /\ th'[t].pc = c /\ th'[t].op = th[t].op /\ th'[t].pos = th[t].pos
         /\ th'[t].arg = th[t].arg /\ th'[t].ret = th[t].ret
  BY DEF Goto, Reread, Calls

LEMMA ReadAgain ==
  ASSUME NEW t \in Threads, NEW c \in Pcs, th \in [Threads -> Calls], NEW x \in Nat,
         Reread(t, c, x)
  PROVE  /\ th' \in [Threads -> Calls] /\ \A u \in Threads : u # t => th'[u] = th[u]
         /\ th'[t].pc = c /\ th'[t].op = th[t].op /\ th'[t].pos = x
         /\ th'[t].arg = th[t].arg /\ th'[t].ret = th[t].ret
  BY DEF Goto, Reread, Calls

LEMMA Answered ==
  ASSUME NEW t \in Threads, NEW c \in Pcs, th \in [Threads -> Calls], NEW x \in Values \cup {None},
         th' = [th EXCEPT ![t].pc = c, ![t].ret = x]
  PROVE  /\ th' \in [Threads -> Calls] /\ \A u \in Threads : u # t => th'[u] = th[u]
         /\ th'[t].pc = c /\ th'[t].op = th[t].op /\ th'[t].pos = th[t].pos
         /\ th'[t].arg = th[t].arg /\ th'[t].ret = x
  BY DEF Goto, Reread, Calls

\* A step that changes nothing shared and owns nothing before or after.
LEMMA LocalStep ==
  ASSUME QueueInv, NEW t \in Threads, UNCHANGED <<head, tail, stamp, value, started>>,
         th' \in [Threads -> Calls], \A u \in Threads : u # t => th'[u] = th[u],
         th[t].pc \notin Owning, th'[t].pc \notin Owning,
         t \in Claims(th') => t \in Claims(th),
         ThreadOk(th'[t], Ord(head), Ord(tail), stamp, value)
  PROVE  QueueInv'
  <1> DEFINE h == Ord(head)
             n == Ord(tail)
  <1>1. /\ h \in Nat /\ n \in Nat /\ Shared(th, h, n, stamp, value)
        /\ Budget(th, n, started) /\ started \in Nat
    BY StateIs
  <1>2. TypeOK'
    BY DEF QueueInv, TypeOK
  <1>3. Shared(th', h, n, stamp, value)
    <2> HIDE DEF h, n
    <2>1. ThreadOk(th'[t], h, n, stamp, value)
      BY DEF h, n
    <2> QED BY <1>1, <2>1, LocalMove
  <1>4. Budget(th', n, started)
    <2> HIDE DEF h, n
    <2> QED BY <1>1, BudgetMove
  <1> QED BY <1>2, <1>3, <1>4 DEF QueueInv

LEMMA WordsNat == \A x \in Words : x \in Nat
  <1> SUFFICES ASSUME NEW n \in 0 .. Top
               PROVE  At(n) \in Nat
    BY DEF Words
  <1>1. n \in Nat
    BY CountsIs
  <1>2. /\ At(n) = Turn(n) * OneLap + Cell(n) /\ Turn(n) \in Nat /\ Cell(n) \in Nat
        /\ OneLap \in Nat
    BY <1>1, AtIs, LapIs
  <1> QED BY <1>2

LEMMA CallStep ==
  ASSUME QueueInv, NEW t \in Threads, NEW op \in Pushing \cup {"pop"}, NEW v,
         IF op = "pop" THEN v = None ELSE v \in Values, Call(t, op, v)
  PROVE  QueueInv'
  <1> DEFINE h == Ord(head)
             n == Ord(tail)
             r == [Idle EXCEPT !.pc = "load", !.op = op, !.arg = v]
  <1>1. /\ h \in Nat /\ n \in Nat /\ Shared(th, h, n, stamp, value)
        /\ Budget(th, n, started) /\ started \in Nat /\ th \in [Threads -> Calls]
    BY StateIs
  <1>2. r \in Calls
    BY DEF Idle, Calls, Pcs, Pushing
  <1>3. r.pc = "load" /\ r.op = op /\ r.arg = v /\ r.ret = None
    BY DEF Idle
  <1>4. /\ th[t].pc = "idle" /\ started < MaxOps /\ started' = started + 1
        /\ th' = [th EXCEPT ![t] = r] /\ UNCHANGED <<head, tail, stamp, value>>
    BY DEF Call
  <1> HIDE DEF r
  <1>5. /\ th' \in [Threads -> Calls] /\ th'[t] = r
        /\ \A u \in Threads : u # t => th'[u] = th[u]
    BY <1>1, <1>2, <1>4
  <1>6. TypeOK'
    <2>1. started' \in 0 .. MaxOps
      BY <1>1, <1>4, CountsIs
    <2> QED BY <1>4, <1>5, <2>1 DEF QueueInv, TypeOK
  <1>7. ThreadOk(r, h, n, stamp, value)
    BY <1>3 DEF ThreadOk, ShapeOk, LearntOk, Owning, Pushing
  <1>8. Shared(th', h, n, stamp, value)
    <2> HIDE DEF h, n
    <2>1. th[t].pc \notin Owning /\ th'[t].pc \notin Owning
      BY <1>3, <1>4, <1>5 DEF Owning
    <2> QED BY <1>1, <1>5, <1>7, <2>1, LocalMove
  <1>9. Budget(th', n, started + 1)
    <2> HIDE DEF h, n
    <2>1. t \notin Claims(th)
      BY <1>4 DEF Claims, Claiming
    <2> QED BY <1>1, <1>5, <2>1, BudgetMove
  <1> QED BY <1>4, <1>6, <1>8, <1>9 DEF QueueInv

LEMMA LoadStep ==
  ASSUME QueueInv, NEW t \in Threads, PushLoad(t) \/ PopLoad(t)
  PROVE  QueueInv'
  <1> DEFINE h == Ord(head)
             n == Ord(tail)
  <1>1. /\ h \in Nat /\ n \in Nat /\ th \in [Threads -> Calls] /\ h <= n
        /\ ThreadOk(th[t], h, n, stamp, value) /\ head \in Words /\ tail \in Words
    BY StateIs DEF QueueInv, TypeOK
  <1>2. PICK x \in Nat : /\ Reread(t, "stamp", x) /\ x \in Words
                         /\ x = IF th[t].op = "pop" THEN head ELSE tail
    BY <1>1, WordsNat DEF PushLoad, PopLoad
  <1>3. th[t].pc = "load" /\ UNCHANGED <<head, tail, stamp, value, started>>
    BY DEF PushLoad, PopLoad
  <1>4. "stamp" \in Pcs
    BY DEF Pcs
  <1>5. /\ th' \in [Threads -> Calls] /\ \A u \in Threads : u # t => th'[u] = th[u]
        /\ th'[t].pc = "stamp" /\ th'[t].op = th[t].op /\ th'[t].pos = x
        /\ th'[t].arg = th[t].arg /\ th'[t].ret = th[t].ret
    BY <1>1, <1>2, <1>4, ReadAgain
  <1>6. ThreadOk(th'[t], h, n, stamp, value)
    <2>1. ShapeOk(th'[t])
      BY <1>1, <1>3, <1>5 DEF ThreadOk, ShapeOk
    <2>2. x \in Words /\ Ord(x) = IF th[t].op = "pop" THEN h ELSE n
      BY <1>2
    <2> HIDE DEF h, n
    <2>3. LearntOk(th'[t], h, n, stamp)
      BY <1>1, <1>5, <2>2 DEF LearntOk
    <2> QED BY <1>5, <2>1, <2>3 DEF ThreadOk, Owning
  <1>7. /\ th[t].pc \notin Owning /\ th'[t].pc \notin Owning
        /\ t \in Claims(th') => t \in Claims(th)
    BY <1>3, <1>5 DEF Owning, Claims, Claiming
  <1> QED BY <1>3, <1>5, <1>6, <1>7, LocalStep

\* What a thread learns from the stamp of the slot at its position.
LEMMA SlotStamp ==
  ASSUME QueueInv, NEW k \in Ord(head) .. Ord(head) + Cap - 1
  PROVE  /\ k \in Nat
         /\ stamp[Cell(k)] = At(k) \/ stamp[Cell(k)] = Filled(k)
            \/ (Cap <= k /\ stamp[Cell(k)] = Filled(k - Cap))
         /\ Ord(tail) <= k => \/ stamp[Cell(k)] = At(k)
                              \/ (Cap <= k /\ stamp[Cell(k)] = Filled(k - Cap))
  <1> DEFINE h == Ord(head)
             n == Ord(tail)
             s == stamp[Cell(k)]
  <1>1. /\ h \in Nat /\ n \in Nat /\ Shared(th, h, n, stamp, value) /\ Cap \in Nat
    BY StateIs, CountsIs
  <1>2. k \in Nat
    BY <1>1
  <1>3. CASE SlotOk(k, n, stamp, value)
    BY <1>1, <1>2, <1>3 DEF SlotOk
  <1>4. CASE \E t \in Threads : th[t].pc \in Owning /\ Place(th[t]) = k
    <2>1. PICK t \in Threads : th[t].pc \in Owning /\ Place(th[t]) = k
      BY <1>4
    <2> DEFINE p == Ord(th[t].pos)
    <2>2. OwnerOk(th[t], h, n, stamp, value) /\ ShapeOk(th[t])
      BY <1>1, <2>1 DEF Shared, ThreadOk
    <2>3. p \in Nat /\ Cell(p) = Cell(k) /\ k = IF th[t].op = "pop" THEN p + Cap ELSE p
      BY <2>1, <2>2, PlaceIs DEF OwnerOk, Place
    <2>4. CASE th[t].op = "pop"
      <3>1. s = Filled(p) /\ n <= k
        BY <2>1, <2>2, <2>3, <2>4 DEF OwnerOk
      <3> HIDE DEF p
      <3>2. Cap <= k /\ k - Cap = p
        BY <1>1, <2>3, <2>4
      <3> QED BY <1>1, <1>2, <3>1, <3>2
    <2>5. CASE th[t].op # "pop"
      <3>1. s = At(k) \/ (Cap <= k /\ s = Filled(k - Cap))
        BY <2>1, <2>2, <2>3, <2>5 DEF OwnerOk, ShapeOk, Owning
      <3> QED BY <1>1, <1>2, <3>1
    <2> QED BY <2>4, <2>5
  <1> QED BY <1>1, <1>2, <1>3, <1>4 DEF Shared, SlotsOk

\* The thread's own view: its position, and the slot there.
LEMMA ThreadIs ==
  ASSUME QueueInv, NEW t \in Threads, th[t].pc \notin {"idle", "load", "done"}
  PROVE  /\ th[t].pos \in Words /\ Ord(th[t].pos) \in 0 .. Top /\ Ord(th[t].pos) \in Nat
         /\ th[t].pos = At(Ord(th[t].pos)) /\ slot(t) = Cell(Ord(th[t].pos))
         /\ slot(t) \in Slots /\ (th[t].pos + 1) % Word = Filled(Ord(th[t].pos))
         /\ Cell(Place(th[t])) = slot(t)
  <1>1. th[t].pos \in Words
    BY StateIs DEF ThreadOk, LearntOk
  <1> QED BY <1>1, PlaceIs DEF slot, Filled

LEMMA InspectStep ==
  ASSUME QueueInv, NEW t \in Threads, PushInspect(t) \/ PopInspect(t)
  PROVE  QueueInv'
  <1> DEFINE h == Ord(head)
             n == Ord(tail)
             p == Ord(th[t].pos)
             s == stamp[Cell(p)]
             c == th'[t].pc
  <1>1. /\ h \in Nat /\ n \in Nat /\ h \in 0 .. Top /\ n \in 0 .. Top
        /\ th \in [Threads -> Calls] /\ h <= n /\ n <= h + Cap
        /\ Cap \in Nat /\ Cap > 0
    BY StateIs, CountsIs
  <1>2. th[t].pc = "stamp" /\ UNCHANGED <<head, tail, stamp, value, started>>
    BY DEF PushInspect, PopInspect
  <1>3. /\ p \in 0 .. Top /\ p \in Nat /\ th[t].pos = At(p) /\ slot(t) = Cell(p)
        /\ (th[t].pos + 1) % Word = Filled(p) /\ th[t].pos \in Words
    BY <1>2, ThreadIs
  <1>4. ShapeOk(th[t]) /\ IF th[t].op = "pop" THEN p <= h ELSE p <= n
    BY <1>2, StateIs DEF ThreadOk, LearntOk
  <1>5. PICK e \in Pcs : /\ Goto(t, e) /\ e \in {"load", "cas", "full", "empty"}
                         /\ e = "cas" => s = IF th[t].op = "pop" THEN Filled(p) ELSE At(p)
                         /\ e = "full" => th[t].op # "pop" /\ AddLap(s) = Filled(p)
                         /\ e = "empty" => th[t].op = "pop" /\ s = At(p)
    <2>1. CASE PushInspect(t)
      BY <1>3, <2>1 DEF PushInspect, Pcs
    <2>2. CASE PopInspect(t)
      BY <1>3, <2>2 DEF PopInspect, Pcs
    <2> QED BY <2>1, <2>2
  <1>6. /\ th' \in [Threads -> Calls] /\ \A u \in Threads : u # t => th'[u] = th[u]
        /\ th'[t].pc = e /\ th'[t].op = th[t].op /\ th'[t].pos = th[t].pos
        /\ th'[t].arg = th[t].arg /\ th'[t].ret = th[t].ret
    BY <1>1, <1>5, WentTo
  <1>7. ShapeOk(th'[t])
    <2>1. th[t].op \in Pushing \cup {"none", "pop"} /\ th[t].op # "none"
      BY <1>1, <1>2, <1>4 DEF Calls, ShapeOk
    <2> QED BY <1>2, <1>4, <1>5, <1>6, <2>1 DEF ShapeOk
  <1>8. \A k \in h .. h + Cap - 1 :
          /\ k \in Nat
          /\ stamp[Cell(k)] = At(k) \/ stamp[Cell(k)] = Filled(k)
             \/ (Cap <= k /\ stamp[Cell(k)] = Filled(k - Cap))
          /\ n <= k => \/ stamp[Cell(k)] = At(k)
                       \/ (Cap <= k /\ stamp[Cell(k)] = Filled(k - Cap))
    BY SlotStamp
  <1>9. \A k \in 0 .. Top : Cap <= k => /\ k - Cap \in Nat /\ k - Cap \in 0 .. Top
                                        /\ Cell(k - Cap) = Cell(k)
                                        /\ AddLap(Filled(k - Cap)) = Filled(k)
    <2> SUFFICES ASSUME NEW k \in 0 .. Top, Cap <= k
                 PROVE  /\ k - Cap \in Nat /\ k - Cap \in 0 .. Top
                        /\ Cell(k - Cap) = Cell(k) /\ AddLap(Filled(k - Cap)) = Filled(k)
      OBVIOUS
    <2>1. k - Cap \in Nat /\ k - Cap \in 0 .. Top /\ (k - Cap) + Cap = k
      BY <1>1, CountsIs
    <2> QED BY <2>1, TurnNext, AtMoves
  <1>10. h \in h .. h + Cap - 1 /\ Cell(h + Cap) = Cell(h)
    BY <1>1, TurnNext
  <1> HIDE DEF h, n, p
  <1>11. ASSUME e = "cas", th[t].op # "pop", p = n
         PROVE  n < h + Cap /\ s = At(n)
    <2>1. s = At(n)
      BY <1>5, <1>11
    <2>2. n # h + Cap
      <3> SUFFICES ASSUME n = h + Cap
                   PROVE  FALSE
        OBVIOUS
      <3>1. stamp[Cell(h)] = At(n) /\ Cell(h) = Cell(n)
        BY <1>10, <1>11, <2>1
      <3>2. At(h) # At(n)
        <4>1. h # n
          BY <1>1
        <4> QED BY <1>1, <4>1, AtInjective
      <3>3. Filled(h) # At(n)
        BY <1>1, <3>1, StampsApart
      <3>4. Cap <= h => Filled(h - Cap) # At(n)
        BY <1>1, <1>9, <3>1, StampsApart
      <3> QED BY <1>8, <1>10, <3>1, <3>2, <3>3, <3>4
    <2> QED BY <1>1, <2>1, <2>2
  <1>12. ASSUME e = "cas", th[t].op = "pop", p = h
         PROVE  h < n /\ s = Filled(h)
    <2>1. s = Filled(h)
      BY <1>5, <1>12
    <2>2. h # n
      <3> SUFFICES ASSUME h = n
                   PROVE  FALSE
        OBVIOUS
      <3>1. At(h) # Filled(h)
        BY <1>1, StampsApart
      <3>2. Cap <= h => Filled(h - Cap) # Filled(h)
        <4> SUFFICES ASSUME Cap <= h, Filled(h - Cap) = Filled(h)
                     PROVE  FALSE
          OBVIOUS
        <4>1. h - Cap = h
          BY <1>1, <1>9, FilledInjective
        <4> QED BY <1>1, <4>1
      <3> QED BY <1>1, <1>8, <1>10, <1>12, <2>1, <3>1, <3>2
    <2> QED BY <1>1, <2>1, <2>2
  <1>13. ASSUME e = "full", p = h + Cap
         PROVE  s = Filled(h)
    <2>1. Cell(p) = Cell(h) /\ AddLap(stamp[Cell(h)]) = Filled(p)
      BY <1>5, <1>10, <1>13
    <2>2. AddLap(At(h)) # Filled(p)
      BY <1>1, <1>3, <2>1, StampsApart
    <2>3. Cap <= h => AddLap(Filled(h - Cap)) # Filled(p)
      <3> SUFFICES ASSUME Cap <= h, Filled(h) = Filled(p)
                   PROVE  FALSE
        BY <1>1, <1>9
      <3>1. h = p
        BY <1>1, <1>3, FilledInjective
      <3> QED BY <1>1, <1>13, <3>1
    <2> QED BY <1>8, <1>10, <2>1, <2>2, <2>3
  <1>14. ASSUME e = "empty", p = n
         PROVE  s = At(n)
    BY <1>5, <1>14
  <1>15. ThreadOk(th'[t], h, n, stamp, value)
    <2>1. Ord(th'[t].pos) = p
      BY <1>6 DEF p
    <2>2. LearntOk(th'[t], h, n, stamp)
      BY <1>3, <1>4, <1>5, <1>6, <1>11, <1>12, <1>13, <1>14, <2>1 DEF LearntOk
    <2> QED BY <1>5, <1>6, <1>7, <2>2 DEF ThreadOk, Owning
  <1>16. /\ th[t].pc \notin Owning /\ th'[t].pc \notin Owning
         /\ t \in Claims(th') => t \in Claims(th)
    BY <1>2, <1>5, <1>6 DEF Owning, Claims, Claiming
  <1> QED BY <1>2, <1>6, <1>15, <1>16, LocalStep DEF h, n

\* A thread gives up or starts over: nothing it has learnt is kept.
LEMMA BackStep ==
  ASSUME QueueInv, NEW t \in Threads, UNCHANGED <<head, tail, stamp, value, started>>,
         th' \in [Threads -> Calls], \A u \in Threads : u # t => th'[u] = th[u],
         th[t].pc \in {"full", "empty"}, th'[t].pc \in {"load", "done"},
         th'[t].op = th[t].op, th'[t].arg = th[t].arg,
         th'[t].pc = "load" => th'[t].ret = th[t].ret
  PROVE  QueueInv'
  <1>1. ThreadOk(th[t], Ord(head), Ord(tail), stamp, value)
    BY StateIs
  <1>2. ThreadOk(th'[t], Ord(head), Ord(tail), stamp, value)
    <2>1. ShapeOk(th'[t])
      BY <1>1 DEF ThreadOk, ShapeOk, Pushing
    <2>2. LearntOk(th'[t], Ord(head), Ord(tail), stamp)
      BY DEF LearntOk
    <2> QED BY <2>1, <2>2 DEF ThreadOk, Owning
  <1>3. /\ th[t].pc \notin Owning /\ th'[t].pc \notin Owning
        /\ t \in Claims(th') => t \in Claims(th)
    <2>1. th[t].pc = "empty" => th[t].op = "pop"
      BY <1>1 DEF ThreadOk, ShapeOk
    <2> QED BY <2>1 DEF Owning, Claims, Claiming, Pushing
  <1> QED BY <1>2, <1>3, LocalStep

LEMMA GiveUpStep ==
  ASSUME QueueInv, NEW t \in Threads,
         \/ PushFull(t) \/ PopEmpty(t)
         \/ ForceHead(t) /\ head # SubLap(th[t].pos)
  PROVE  QueueInv'
  <1>1. /\ th[t].pc \in {"full", "empty"} /\ UNCHANGED <<head, tail, stamp, value, started>>
        /\ \/ Goto(t, "load") \/ Goto(t, "done")
           \/ th' = [th EXCEPT ![t].pc = "done", ![t].ret = th[t].arg]
    BY DEF PushFull, PopEmpty, ForceHead
  <1>2. /\ th \in [Threads -> Calls] /\ "load" \in Pcs /\ "done" \in Pcs
        /\ th[t].arg \in Values \cup {None}
    BY StateIs DEF Pcs, Calls
  <1>3. CASE Goto(t, "load")
    BY <1>1, <1>2, <1>3, WentTo, BackStep
  <1>4. CASE Goto(t, "done")
    BY <1>1, <1>2, <1>4, WentTo, BackStep
  <1>5. CASE th' = [th EXCEPT ![t].pc = "done", ![t].ret = th[t].arg]
    <2>1. /\ th' \in [Threads -> Calls] /\ \A u \in Threads : u # t => th'[u] = th[u]
          /\ th'[t].pc = "done" /\ th'[t].op = th[t].op /\ th'[t].arg = th[t].arg
      BY <1>2, <1>5, Answered
    <2> QED BY <1>1, <2>1, BackStep
  <1> QED BY <1>1, <1>3, <1>4, <1>5

LEMMA ReturnStep ==
  ASSUME QueueInv, NEW t \in Threads, Return(t)
  PROVE  QueueInv'
  <1>1. /\ th[t].pc = "done" /\ UNCHANGED <<head, tail, stamp, value, started>>
        /\ th' = [th EXCEPT ![t] = Idle] /\ th \in [Threads -> Calls]
    BY StateIs DEF Return
  <1>2. Idle \in Calls /\ Idle.pc = "idle" /\ Idle.op = "none" /\ Idle.arg = None
    BY DEF Idle, Calls, Pcs
  <1>3. /\ th' \in [Threads -> Calls] /\ \A u \in Threads : u # t => th'[u] = th[u]
        /\ th'[t] = Idle
    BY <1>1, <1>2
  <1>4. ThreadOk(Idle, Ord(head), Ord(tail), stamp, value)
    BY <1>2 DEF ThreadOk, ShapeOk, LearntOk, Owning, Pushing
  <1>5. /\ th[t].pc \notin Owning /\ th'[t].pc \notin Owning
        /\ t \in Claims(th') => t \in Claims(th)
    BY <1>1, <1>2, <1>3 DEF Owning, Claims, Claiming
  <1> QED BY <1>1, <1>3, <1>4, <1>5, LocalStep

LEMMA LostRaceStep ==
  ASSUME QueueInv, NEW t \in Threads,
         \/ PushCas(t) /\ tail # th[t].pos
         \/ PopCas(t) /\ head # th[t].pos
  PROVE  QueueInv'
  <1> DEFINE h == Ord(head)
             n == Ord(tail)
  <1>1. /\ h \in Nat /\ n \in Nat /\ th \in [Threads -> Calls] /\ h <= n
        /\ ThreadOk(th[t], h, n, stamp, value) /\ head \in Words /\ tail \in Words
    BY StateIs DEF QueueInv, TypeOK
  <1>2. PICK x \in Nat : /\ Reread(t, "stamp", x) /\ x \in Words
                         /\ x = IF th[t].op = "pop" THEN head ELSE tail
    BY <1>1, WordsNat DEF PushCas, PopCas
  <1>3. th[t].pc = "cas" /\ UNCHANGED <<head, tail, stamp, value, started>>
    BY DEF PushCas, PopCas
  <1>4. "stamp" \in Pcs
    BY DEF Pcs
  <1>5. /\ th' \in [Threads -> Calls] /\ \A u \in Threads : u # t => th'[u] = th[u]
        /\ th'[t].pc = "stamp" /\ th'[t].op = th[t].op /\ th'[t].pos = x
        /\ th'[t].arg = th[t].arg /\ th'[t].ret = th[t].ret
    BY <1>1, <1>2, <1>4, ReadAgain
  <1>6. ThreadOk(th'[t], h, n, stamp, value)
    <2>1. ShapeOk(th'[t])
      BY <1>1, <1>3, <1>5 DEF ThreadOk, ShapeOk
    <2>2. x \in Words /\ Ord(x) = IF th[t].op = "pop" THEN h ELSE n
      BY <1>2
    <2> HIDE DEF h, n
    <2>3. LearntOk(th'[t], h, n, stamp)
      BY <1>1, <1>5, <2>2 DEF LearntOk
    <2> QED BY <1>5, <2>1, <2>3 DEF ThreadOk, Owning
  <1>7. /\ th[t].pc \notin Owning /\ th'[t].pc \notin Owning
        /\ t \in Claims(th') => t \in Claims(th)
    BY <1>3, <1>5 DEF Owning, Claims, Claiming
  <1> QED BY <1>3, <1>5, <1>6, <1>7, LocalStep

\* What tells a thread that its compare-and-exchange took a free, or a filled, slot.
LEMMA WonTail ==
  ASSUME QueueInv, NEW t \in Threads, PushCas(t), tail = th[t].pos
  PROVE  /\ Ord(th[t].pos) = Ord(tail) /\ Ord(tail) < Ord(head) + Cap
         /\ Ord(tail) < MaxOps /\ Budget(th', Ord(tail) + 1, started)
         /\ stamp[Cell(Ord(tail))] = At(Ord(tail)) /\ value[Cell(Ord(tail))] = None
         /\ \A u \in Threads : th[u].pc \in Owning => Place(th[u]) # Ord(tail)
         /\ th' \in [Threads -> Calls] /\ \A u \in Threads : u # t => th'[u] = th[u]
         /\ th'[t].pc = "write" /\ th'[t].op = th[t].op /\ th'[t].pos = th[t].pos
         /\ th'[t].arg = th[t].arg /\ th'[t].ret = th[t].ret
         /\ th[t].pc = "cas" /\ th[t].op \in Pushing /\ tail' = At(Ord(tail) + 1)
         /\ UNCHANGED <<head, stamp, value, started>>
  <1> DEFINE h == Ord(head)
             n == Ord(tail)
  <1>1. /\ h \in Nat /\ n \in Nat /\ th \in [Threads -> Calls] /\ h <= n /\ tail = At(n)
        /\ Shared(th, h, n, stamp, value) /\ ThreadOk(th[t], h, n, stamp, value)
        /\ Window(h, n) /\ Budget(th, n, started) /\ started \in Nat /\ started <= MaxOps
        /\ Cap \in Nat /\ MaxOps \in Nat
    BY StateIs, CountsIs
  <1>2. /\ th[t].pc = "cas" /\ th[t].op # "pop" /\ tail' = Advance(tail) /\ Goto(t, "write")
        /\ UNCHANGED <<head, stamp, value, started>> /\ "write" \in Pcs
    BY DEF PushCas, Pcs
  <1>3. n < h + Cap /\ stamp[Cell(n)] = At(n)
    BY <1>1, <1>2 DEF ThreadOk, LearntOk
  <1>4. th[t].op \in Pushing
    BY <1>1, <1>2 DEF ThreadOk, ShapeOk, Calls
  <1>5. /\ th' \in [Threads -> Calls] /\ \A u \in Threads : u # t => th'[u] = th[u]
        /\ th'[t].pc = "write" /\ th'[t].op = th[t].op /\ th'[t].pos = th[t].pos
        /\ th'[t].arg = th[t].arg /\ th'[t].ret = th[t].ret
    BY <1>1, <1>2, WentTo
  <1> HIDE DEF h, n
  <1>6. \A u \in Threads : th[u].pc \in Owning => Place(th[u]) # n
    BY <1>1, <1>3, OwnerStamp DEF Shared, ThreadOk
  <1>7. value[Cell(n)] = None
    <2>1. n \in h .. h + Cap - 1
      BY <1>1, <1>3
    <2>2. SlotOk(n, n, stamp, value)
      BY <1>1, <1>6, <2>1 DEF Shared, SlotsOk
    <2> QED BY <1>1, <2>2 DEF SlotOk
  <1>8. n < started /\ Budget(th', n + 1, started)
    <2>1. t \in Claims(th) /\ t \notin Claims(th')
      BY <1>2, <1>4, <1>5 DEF Claims, Claiming
    <2> QED BY <1>1, <1>5, <2>1, BudgetMove
  <1>9. n < MaxOps
    BY <1>1, <1>8
  <1>10. tail' = At(n + 1)
    BY <1>1, <1>2, AtMoves
  <1> QED BY <1>2, <1>3, <1>4, <1>5, <1>6, <1>7, <1>8, <1>9, <1>10 DEF h, n

LEMMA PushCasStep ==
  ASSUME QueueInv, NEW t \in Threads, PushCas(t), tail = th[t].pos
  PROVE  QueueInv'
  <1> DEFINE h == Ord(head)
             n == Ord(tail)
  <1>1. /\ h \in Nat /\ n \in Nat /\ h <= n /\ Shared(th, h, n, stamp, value)
        /\ ThreadOk(th[t], h, n, stamp, value) /\ th[t].pos \in Words
        /\ Cap \in Nat /\ n + 1 \in 0 .. Top
    <2>1. n < MaxOps
      BY WonTail
    <2>2. th[t].pos \in Words
      BY DEF QueueInv, TypeOK
    <2> QED BY <2>1, <2>2, StateIs, CountsIs
  <1>2. /\ Ord(th[t].pos) = n /\ n < h + Cap /\ n < MaxOps /\ Budget(th', n + 1, started)
        /\ stamp[Cell(n)] = At(n) /\ value[Cell(n)] = None
        /\ \A u \in Threads : th[u].pc \in Owning => Place(th[u]) # n
        /\ th' \in [Threads -> Calls] /\ \A u \in Threads : u # t => th'[u] = th[u]
        /\ th'[t].pc = "write" /\ th'[t].op = th[t].op /\ th'[t].pos = th[t].pos
        /\ th'[t].arg = th[t].arg /\ th'[t].ret = th[t].ret
        /\ th[t].pc = "cas" /\ th[t].op \in Pushing /\ tail' = At(n + 1)
        /\ UNCHANGED <<head, stamp, value, started>>
    BY WonTail
  <1> HIDE DEF h, n
  <1>3. Ord(th'[t].pos) = n /\ Place(th'[t]) = n /\ th'[t].pc \in Owning
    BY <1>2 DEF Place, Owning, Pushing
  <1>4. ThreadOk(th'[t], h, n + 1, stamp, value)
    <2>1. ShapeOk(th'[t])
      BY <1>1, <1>2 DEF ThreadOk, ShapeOk
    <2>2. LearntOk(th'[t], h, n + 1, stamp)
      BY <1>1, <1>2 DEF LearntOk
    <2>3. OwnerOk(th'[t], h, n + 1, stamp, value)
      BY <1>1, <1>2, <1>3 DEF OwnerOk, Pushing
    <2> QED BY <2>1, <2>2, <2>3 DEF ThreadOk
  <1>5. Shared(th', h, n + 1, stamp, value)
    BY <1>1, <1>2, <1>3, <1>4, TailMove DEF Owning
  <1>6. tail' \in Words /\ Ord(tail') = n + 1
    BY <1>1, <1>2, OrdIs
  <1>7. TypeOK'
    BY <1>2, <1>6 DEF QueueInv, TypeOK
  <1> QED BY <1>2, <1>5, <1>6, <1>7 DEF QueueInv, h

\* Nobody owns the slot that is filled for the pop at head.
LEMMA FilledFree ==
  ASSUME QueueInv, Ord(head) < Ord(tail), stamp[Cell(Ord(head))] = Filled(Ord(head))
  PROVE  /\ value[Cell(Ord(head))] \in Values
         /\ \A u \in Threads : th[u].pc \in Owning => Place(th[u]) # Ord(head)
  <1> DEFINE h == Ord(head)
             n == Ord(tail)
  <1>1. /\ h \in Nat /\ n \in Nat /\ Shared(th, h, n, stamp, value) /\ Window(h, n)
        /\ Cap \in Nat /\ Cap > 0
    BY StateIs, CountsIs
  <1>2. h < n /\ stamp[Cell(h)] = Filled(h)
    OBVIOUS
  <1> HIDE DEF h, n
  <1>3. \A u \in Threads : th[u].pc \in Owning => Place(th[u]) # h
    BY <1>1, <1>2, OwnerStamp DEF Shared, ThreadOk
  <1>4. h \in h .. h + Cap - 1
    BY <1>1
  <1>5. SlotOk(h, n, stamp, value)
    BY <1>1, <1>3, <1>4 DEF Shared, SlotsOk
  <1> QED BY <1>2, <1>3, <1>5 DEF SlotOk, h

LEMMA WonHead ==
  ASSUME QueueInv, NEW t \in Threads, PopCas(t), head = th[t].pos
  PROVE  /\ Ord(th[t].pos) = Ord(head) /\ Ord(head) < Ord(tail)
         /\ stamp[Cell(Ord(head))] = Filled(Ord(head)) /\ value[Cell(Ord(head))] \in Values
         /\ \A u \in Threads : th[u].pc \in Owning => Place(th[u]) # Ord(head)
         /\ th' \in [Threads -> Calls] /\ \A u \in Threads : u # t => th'[u] = th[u]
         /\ th'[t].pc = "read" /\ th'[t].op = th[t].op /\ th'[t].pos = th[t].pos
         /\ th'[t].arg = th[t].arg /\ th'[t].ret = th[t].ret
         /\ th[t].pc = "cas" /\ th[t].op = "pop" /\ head' = At(Ord(head) + 1)
         /\ UNCHANGED <<tail, stamp, value, started>>
  <1> DEFINE h == Ord(head)
             n == Ord(tail)
  <1>1. /\ h \in Nat /\ th \in [Threads -> Calls] /\ head = At(h)
        /\ ThreadOk(th[t], h, n, stamp, value)
    BY StateIs
  <1>2. /\ th[t].pc = "cas" /\ th[t].op = "pop" /\ head' = Advance(head) /\ Goto(t, "read")
        /\ UNCHANGED <<tail, stamp, value, started>> /\ "read" \in Pcs
    BY DEF PopCas, Pcs
  <1>3. h < n /\ stamp[Cell(h)] = Filled(h)
    BY <1>1, <1>2 DEF ThreadOk, LearntOk
  <1>4. /\ th' \in [Threads -> Calls] /\ \A u \in Threads : u # t => th'[u] = th[u]
        /\ th'[t].pc = "read" /\ th'[t].op = th[t].op /\ th'[t].pos = th[t].pos
        /\ th'[t].arg = th[t].arg /\ th'[t].ret = th[t].ret
    BY <1>1, <1>2, WentTo
  <1>5. head' = At(h + 1)
    BY <1>1, <1>2, AtMoves
  <1> QED BY <1>2, <1>3, <1>4, <1>5, FilledFree

\* force_push wins the head only of a full queue.
LEMMA WonForce ==
  ASSUME QueueInv, NEW t \in Threads, ForceHead(t), head = SubLap(th[t].pos)
  PROVE  /\ Ord(th[t].pos) = Ord(tail) /\ Ord(tail) = Ord(head) + Cap
         /\ stamp[Cell(Ord(head))] = Filled(Ord(head)) /\ value[Cell(Ord(head))] \in Values
         /\ Cell(Ord(tail)) = Cell(Ord(head)) /\ Ord(head) < Ord(tail)
         /\ \A u \in Threads : th[u].pc \in Owning => Place(th[u]) # Ord(head)
         /\ th' \in [Threads -> Calls] /\ \A u \in Threads : u # t => th'[u] = th[u]
         /\ th'[t].pc = "forceTail" /\ th'[t].op = th[t].op /\ th'[t].pos = th[t].pos
         /\ th'[t].arg = th[t].arg /\ th'[t].ret = th[t].ret
         /\ th[t].pc = "full" /\ th[t].op = "force" /\ head' = At(Ord(head) + 1)
         /\ UNCHANGED <<tail, stamp, value, started>> /\ th[t].pos \in Words
  <1> DEFINE h == Ord(head)
             n == Ord(tail)
             p == Ord(th[t].pos)
  <1>1. /\ h \in Nat /\ n \in Nat /\ h \in 0 .. Top /\ th \in [Threads -> Calls]
        /\ head = At(h) /\ ThreadOk(th[t], h, n, stamp, value) /\ n <= MaxOps
        /\ h <= n /\ n <= h + Cap /\ Cap \in Nat /\ Cap > 0 /\ MaxOps \in Nat /\ Top \in Nat
    BY StateIs, CountsIs
  <1>2. /\ th[t].pc = "full" /\ th[t].op = "force" /\ head' = SubLap(Advance(th[t].pos))
        /\ Goto(t, "forceTail") /\ UNCHANGED <<tail, stamp, value, started>>
        /\ "forceTail" \in Pcs
    BY DEF ForceHead, Pcs
  <1>3. /\ p \in Nat /\ p \in 0 .. Top /\ th[t].pos = At(p) /\ th[t].pos \in Words /\ p <= n
    <2>1. p <= n
      BY <1>1, <1>2 DEF ThreadOk, LearntOk
    <2> QED BY <1>2, <2>1, ThreadIs
  <1>4. p = h + Cap => stamp[Cell(p)] = Filled(h)
    BY <1>1, <1>2 DEF ThreadOk, LearntOk
  <1>5. /\ th' \in [Threads -> Calls] /\ \A u \in Threads : u # t => th'[u] = th[u]
        /\ th'[t].pc = "forceTail" /\ th'[t].op = th[t].op /\ th'[t].pos = th[t].pos
        /\ th'[t].arg = th[t].arg /\ th'[t].ret = th[t].ret
    BY <1>1, <1>2, WentTo
  <1> HIDE DEF h, n, p
  <1>6. Cap <= p
    <2> SUFFICES ASSUME p < Cap
                 PROVE  FALSE
      BY <1>1, <1>3
    <2>1. h \in 0 .. MaxOps
      BY <1>1
    <2>2. At(h) # SubLap(At(p))
      BY <1>3, <2>1, NoLapBelow
    <2> QED BY <1>1, <1>3, <2>2
  <1>7. p = h + Cap /\ p = n
    <2>1. p - Cap \in Nat /\ p - Cap \in 0 .. Top /\ (p - Cap) + Cap = p
      BY <1>1, <1>3, <1>6
    <2>2. SubLap(At(p)) = At(p - Cap)
      BY <2>1, AtMoves
    <2>3. h = p - Cap
      BY <1>1, <1>3, <2>1, <2>2, AtInjective
    <2> QED BY <1>1, <1>3, <2>1, <2>3
  <1>8. Cell(n) = Cell(h) /\ h < n /\ stamp[Cell(h)] = Filled(h)
    BY <1>1, <1>4, <1>7, TurnNext
  <1>9. head' = At(h + 1)
    <2>1. Advance(th[t].pos) = At(p + 1) /\ p + 1 = (h + 1) + Cap /\ h + 1 \in Nat
      BY <1>1, <1>3, <1>7, AtMoves
    <2> QED BY <1>2, <2>1, AtMoves
  <1>10. /\ value[Cell(h)] \in Values
         /\ \A u \in Threads : th[u].pc \in Owning => Place(th[u]) # h
    BY <1>8, FilledFree DEF h, n
  <1> QED BY <1>2, <1>3, <1>5, <1>7, <1>8, <1>9, <1>10 DEF h, n, p

LEMMA HeadStep ==
  ASSUME QueueInv, NEW t \in Threads,
         \/ PopCas(t) /\ head = th[t].pos
         \/ ForceHead(t) /\ head = SubLap(th[t].pos)
  PROVE  QueueInv'
  <1> DEFINE h == Ord(head)
             n == Ord(tail)
             p == Ord(th[t].pos)
  <1>1. /\ h \in Nat /\ n \in Nat /\ n <= h + Cap /\ Shared(th, h, n, stamp, value)
        /\ ThreadOk(th[t], h, n, stamp, value) /\ Budget(th, n, started)
        /\ Cap \in Nat /\ Cap > 0 /\ n \in 0 .. Top /\ Top \in Nat /\ started \in Nat
    BY StateIs, CountsIs
  <1>2. /\ h < n /\ stamp[Cell(h)] = Filled(h) /\ value[Cell(h)] \in Values
        /\ \A u \in Threads : th[u].pc \in Owning => Place(th[u]) # h
        /\ th' \in [Threads -> Calls] /\ \A u \in Threads : u # t => th'[u] = th[u]
        /\ th'[t].op = th[t].op /\ th'[t].pos = th[t].pos /\ th'[t].arg = th[t].arg
        /\ th'[t].ret = th[t].ret /\ head' = At(h + 1) /\ th[t].pos \in Words
        /\ UNCHANGED <<tail, stamp, value, started>>
        /\ \/ /\ th[t].op = "pop" /\ th[t].pc = "cas" /\ th'[t].pc = "read" /\ p = h
           \/ /\ th[t].op = "force" /\ th[t].pc = "full" /\ th'[t].pc = "forceTail"
              /\ p = n /\ n = h + Cap /\ Cell(n) = Cell(h)
    <2>1. head \in Words
      BY DEF QueueInv, TypeOK
    <2>2. CASE PopCas(t) /\ head = th[t].pos
      BY <2>1, <2>2, WonHead
    <2>3. CASE ForceHead(t) /\ head = SubLap(th[t].pos)
      BY <2>3, WonForce
    <2> QED BY <2>2, <2>3
  <1>3. th[t].pc \notin Owning /\ th'[t].pc \in Owning /\ Place(th'[t]) = h + Cap
    BY <1>2 DEF Owning, Place
  <1> HIDE DEF h, n, p
  <1>4. Ord(th'[t].pos) = p
    BY <1>2 DEF p
  <1>5. ThreadOk(th'[t], h + 1, n, stamp, value)
    <2>1. ShapeOk(th'[t])
      BY <1>1, <1>2 DEF ThreadOk, ShapeOk
    <2>2. LearntOk(th'[t], h + 1, n, stamp)
      BY <1>2 DEF LearntOk
    <2>3. OwnerOk(th'[t], h + 1, n, stamp, value)
      <3>1. CASE th[t].op = "pop"
        BY <1>1, <1>2, <1>3, <1>4, <3>1 DEF OwnerOk
      <3>2. CASE th[t].op = "force"
        <4>1. p - Cap = h /\ Cap <= p
          BY <1>1, <1>2, <3>2
        <4> QED BY <1>1, <1>2, <1>3, <1>4, <3>2, <4>1 DEF OwnerOk
      <3> QED BY <1>2, <3>1, <3>2
    <2> QED BY <2>1, <2>2, <2>3 DEF ThreadOk
  <1>6. Shared(th', h + 1, n, stamp, value)
    BY <1>1, <1>2, <1>3, <1>5, HeadMove
  <1>7. head' \in Words /\ Ord(head') = h + 1
    <2>1. h + 1 \in 0 .. Top
      BY <1>1, <1>2
    <2> QED BY <1>2, <2>1, OrdIs
  <1>8. TypeOK'
    BY <1>2, <1>7 DEF QueueInv, TypeOK
  <1>9. Budget(th', n, started)
    <2>1. t \in Claims(th) <=> t \in Claims(th')
      BY <1>2 DEF Claims, Claiming, Pushing
    <2> QED BY <1>1, <1>2, <2>1, BudgetMove
  <1> QED BY <1>2, <1>6, <1>7, <1>8, <1>9 DEF QueueInv, n

LEMMA ForceTailStep ==
  ASSUME QueueInv, NEW t \in Threads, ForceTail(t)
  PROVE  QueueInv'
  <1> DEFINE h == Ord(head)
             n == Ord(tail)
  <1>1. /\ h \in Nat /\ n \in Nat /\ h <= n /\ Shared(th, h, n, stamp, value)
        /\ ThreadOk(th[t], h, n, stamp, value) /\ Budget(th, n, started)
        /\ Cap \in Nat /\ started \in Nat /\ started <= MaxOps /\ th \in [Threads -> Calls]
    BY StateIs, CountsIs
  <1>2. /\ th[t].pc = "forceTail" /\ tail' = Advance(th[t].pos) /\ Goto(t, "forceSwap")
        /\ UNCHANGED <<head, stamp, value, started>> /\ "forceSwap" \in Pcs
    BY DEF ForceTail, Pcs
  <1>3. th[t].pc \in Owning /\ th[t].op = "force" /\ OwnerOk(th[t], h, n, stamp, value)
    BY <1>1, <1>2 DEF ThreadOk, ShapeOk, Owning
  <1>4. /\ Ord(th[t].pos) = n /\ Place(th[t]) = n /\ th[t].pos = At(n) /\ n < h + Cap
        /\ th[t].pos \in Words
    BY <1>2, <1>3, ThreadIs DEF OwnerOk, Place
  <1>5. /\ th' \in [Threads -> Calls] /\ \A u \in Threads : u # t => th'[u] = th[u]
        /\ th'[t].pc = "forceSwap" /\ th'[t].op = th[t].op /\ th'[t].pos = th[t].pos
        /\ th'[t].arg = th[t].arg /\ th'[t].ret = th[t].ret
    BY <1>1, <1>2, WentTo
  <1> HIDE DEF h, n
  <1>6. n < started /\ Budget(th', n + 1, started)
    <2>1. t \in Claims(th) /\ t \notin Claims(th')
      BY <1>2, <1>3, <1>5 DEF Claims, Claiming, Pushing
    <2> QED BY <1>1, <1>5, <2>1, BudgetMove
  <1>7. n < MaxOps /\ n + 1 \in 0 .. Top
    BY <1>1, <1>6, CountsIs
  <1>8. \A u \in Threads : u # t /\ th[u].pc \in Owning => Place(th[u]) # n
    BY <1>1, <1>3, <1>4, OwnerPlace
  <1>9. Place(th'[t]) = n /\ Ord(th'[t].pos) = n /\ th'[t].pc \in Owning
    BY <1>3, <1>4, <1>5 DEF Place, Owning
  <1>10. ThreadOk(th'[t], h, n + 1, stamp, value)
    <2>1. ShapeOk(th'[t])
      BY <1>1, <1>2, <1>5 DEF ThreadOk, ShapeOk
    <2>2. LearntOk(th'[t], h, n + 1, stamp)
      BY <1>4, <1>5 DEF LearntOk
    <2>3. OwnerOk(th'[t], h, n + 1, stamp, value)
      BY <1>1, <1>2, <1>3, <1>4, <1>5, <1>9 DEF OwnerOk
    <2> QED BY <2>1, <2>2, <2>3 DEF ThreadOk
  <1>11. Shared(th', h, n + 1, stamp, value)
    BY <1>1, <1>4, <1>5, <1>7, <1>8, <1>9, <1>10, TailMove
  <1>12. tail' \in Words /\ Ord(tail') = n + 1
    <2>1. tail' = At(n + 1)
      BY <1>1, <1>2, <1>4, AtMoves
    <2> QED BY <1>7, <2>1, OrdIs
  <1>13. TypeOK'
    BY <1>2, <1>5, <1>12 DEF QueueInv, TypeOK
  <1> QED BY <1>2, <1>6, <1>11, <1>12, <1>13 DEF QueueInv, h

\* The owner of a slot takes the value out of it or puts its own in.
LEMMA ValueStep ==
  ASSUME QueueInv, NEW t \in Threads, PushWrite(t) \/ ForceSwap(t) \/ PopRead(t)
  PROVE  QueueInv'
  <1> DEFINE h == Ord(head)
             n == Ord(tail)
             p == Ord(th[t].pos)
  <1>1. /\ h \in Nat /\ n \in Nat /\ Shared(th, h, n, stamp, value)
        /\ ThreadOk(th[t], h, n, stamp, value) /\ Budget(th, n, started) /\ started \in Nat
        /\ th \in [Threads -> Calls] /\ value \in [Slots -> Values \cup {None}]
    BY StateIs
  <1>2. /\ th[t].pc \in {"write", "forceSwap", "read"}
        /\ UNCHANGED <<head, tail, stamp, started>> /\ "publish" \in Pcs
        /\ value' = [value EXCEPT ![slot(t)] = IF th[t].pc = "read" THEN None ELSE th[t].arg]
        /\ \/ th[t].pc = "write" /\ Goto(t, "publish")
           \/ /\ th[t].pc # "write"
              /\ th' = [th EXCEPT ![t].pc = "publish", ![t].ret = value[slot(t)]]
    BY DEF PushWrite, ForceSwap, PopRead, Pcs
  <1>3. th[t].pc \in Owning /\ OwnerOk(th[t], h, n, stamp, value) /\ ShapeOk(th[t])
    BY <1>1, <1>2 DEF ThreadOk, Owning
  <1>4. /\ slot(t) = Cell(p) /\ slot(t) \in Slots /\ Cell(Place(th[t])) = slot(t)
        /\ th[t].pos \in Words
    BY <1>2, ThreadIs
  <1>5. /\ th' \in [Threads -> Calls] /\ \A u \in Threads : u # t => th'[u] = th[u]
        /\ th'[t].pc = "publish" /\ th'[t].op = th[t].op /\ th'[t].pos = th[t].pos
        /\ th'[t].arg = th[t].arg
    <2>1. CASE Goto(t, "publish")
      BY <1>1, <1>2, <2>1, WentTo
    <2>2. CASE th' = [th EXCEPT ![t].pc = "publish", ![t].ret = value[slot(t)]]
      <3>1. value[slot(t)] \in Values \cup {None}
        BY <1>1, <1>4
      <3> QED BY <1>1, <1>2, <2>2, <3>1, Answered
    <2> QED BY <1>2, <2>1, <2>2
  <1>6. th[t].pc # "read" => th[t].op # "pop" /\ th[t].arg \in Values
    BY <1>2, <1>3 DEF ShapeOk, Pushing
  <1>7. /\ value' \in [Slots -> Values \cup {None}]
        /\ value'[Cell(p)] = IF th[t].pc = "read" THEN None ELSE th[t].arg
        /\ \A j \in Slots : j # Cell(Place(th[t])) => value'[j] = value[j]
    BY <1>1, <1>2, <1>4, <1>6
  <1>8. Place(th'[t]) = Place(th[t]) /\ Ord(th'[t].pos) = p /\ th'[t].pc \in Owning
    BY <1>5 DEF Place, Owning
  <1> HIDE DEF h, n, p
  <1>9. ThreadOk(th'[t], h, n, stamp, value')
    <2>1. ShapeOk(th'[t])
      BY <1>2, <1>3, <1>5 DEF ShapeOk
    <2>2. LearntOk(th'[t], h, n, stamp)
      BY <1>4, <1>5 DEF LearntOk
    <2>3. OwnerOk(th'[t], h, n, stamp, value')
      <3>1. th[t].pc = "read" => th[t].op = "pop"
        BY <1>3 DEF ShapeOk
      <3> QED BY <1>2, <1>3, <1>5, <1>6, <1>7, <1>8, <3>1 DEF OwnerOk, p
    <2> QED BY <2>1, <2>2, <2>3 DEF ThreadOk
  <1>10. Shared(th', h, n, stamp, value')
    BY <1>1, <1>3, <1>5, <1>7, <1>8, <1>9, ValueMove
  <1>11. Budget(th', n, started)
    <2>1. t \in Claims(th) <=> t \in Claims(th')
      BY <1>2, <1>5 DEF Claims, Claiming
    <2> QED BY <1>1, <1>5, <2>1, BudgetMove
  <1>12. TypeOK'
    BY <1>2, <1>5, <1>7 DEF QueueInv, TypeOK
  <1> QED BY <1>2, <1>10, <1>11, <1>12 DEF QueueInv, h, n

LEMMA PublishStep ==
  ASSUME QueueInv, NEW t \in Threads, PushPublish(t) \/ PopPublish(t)
  PROVE  QueueInv'
  <1> DEFINE h == Ord(head)
             n == Ord(tail)
             p == Ord(th[t].pos)
             k == Place(th[t])
  <1>1. /\ h \in Nat /\ n \in Nat /\ Shared(th, h, n, stamp, value)
        /\ ThreadOk(th[t], h, n, stamp, value) /\ Budget(th, n, started) /\ started \in Nat
        /\ th \in [Threads -> Calls] /\ stamp \in [Slots -> Nat]
        /\ Cap \in Nat /\ n <= MaxOps /\ h <= n
    BY StateIs, CountsIs
  <1>2. /\ th[t].pc = "publish" /\ Goto(t, "done") /\ "done" \in Pcs
        /\ UNCHANGED <<head, tail, value, started>>
        /\ stamp' = [stamp EXCEPT ![slot(t)] = IF th[t].op = "pop" THEN AddLap(th[t].pos)
                                               ELSE (th[t].pos + 1) % Word]
    BY DEF PushPublish, PopPublish, Pcs
  <1>3. th[t].pc \in Owning /\ OwnerOk(th[t], h, n, stamp, value) /\ ShapeOk(th[t])
    BY <1>1, <1>2 DEF ThreadOk, Owning
  <1>4. /\ slot(t) = Cell(p) /\ slot(t) \in Slots /\ Cell(k) = slot(t)
        /\ p \in Nat /\ th[t].pos = At(p) /\ (th[t].pos + 1) % Word = Filled(p)
    BY <1>2, ThreadIs
  <1>5. /\ th' \in [Threads -> Calls] /\ \A u \in Threads : u # t => th'[u] = th[u]
        /\ th'[t].pc = "done" /\ th'[t].op = th[t].op /\ th'[t].arg = th[t].arg
    BY <1>1, <1>2, WentTo
  <1>6. k = IF th[t].op = "pop" THEN p + Cap ELSE p
    BY DEF Place
  <1>7. k < h + Cap
    BY <1>3 DEF OwnerOk
  <1>8. IF th[t].op = "pop" THEN n <= k /\ value[Cell(k)] = None
                            ELSE k < n /\ value[Cell(k)] \in Values
    BY <1>2, <1>3, <1>4, <1>6 DEF OwnerOk
  <1> HIDE DEF h, n, p, k
  <1>9. stamp' = [stamp EXCEPT ![Cell(k)] = IF th[t].op = "pop" THEN At(k) ELSE Filled(k)]
    <2>1. AddLap(At(p)) = At(p + Cap)
      BY <1>4, AtMoves
    <2> QED BY <1>2, <1>4, <1>6, <2>1
  <1>10. k \in 0 .. Top /\ At(k) \in Nat /\ Filled(k) \in Nat
    <2>1. k \in 0 .. Top /\ k \in Nat
      BY <1>1, <1>4, <1>6, <1>7, CountsIs
    <2>2. At(k) \in Nat
      BY <2>1, WordsNat, OrdIs
    <2> QED BY <2>1, <2>2, AtMoves
  <1>11. /\ stamp' \in [Slots -> Nat]
         /\ stamp'[Cell(k)] = IF th[t].op = "pop" THEN At(k) ELSE Filled(k)
         /\ \A j \in Slots : j # Cell(k) => stamp'[j] = stamp[j]
    BY <1>1, <1>4, <1>9, <1>10
  <1>12. SlotOk(k, n, stamp', value)
    BY <1>1, <1>8, <1>10, <1>11 DEF SlotOk
  <1>13. ThreadOk(th'[t], h, n, stamp', value)
    <2>1. ShapeOk(th'[t])
      BY <1>2, <1>3, <1>5 DEF ShapeOk
    <2> QED BY <1>5, <2>1 DEF ThreadOk, LearntOk, Owning
  <1>14. Shared(th', h, n, stamp', value)
    <2>1. th'[t].pc \notin Owning
      BY <1>5 DEF Owning
    <2> QED BY <1>1, <1>3, <1>5, <1>11, <1>12, <1>13, <2>1, PublishMove DEF k
  <1>15. Budget(th', n, started)
    <2>1. t \in Claims(th) <=> t \in Claims(th')
      BY <1>2, <1>5 DEF Claims, Claiming
    <2> QED BY <1>1, <1>5, <2>1, BudgetMove
  <1>16. TypeOK'
    BY <1>2, <1>5, <1>11 DEF QueueInv, TypeOK
  <1> QED BY <1>2, <1>14, <1>15, <1>16 DEF QueueInv, h, n

-----------------------------------------------------------------------------
(* push_mut and pop_mut *)

\* With every thread idle only the slots count.
LEMMA IdleShared ==
  ASSUME NEW f, NEW h, NEW n, NEW st, NEW vl,
         \A t \in Threads : f[t].pc = "idle" /\ ShapeOk(f[t]),
         Window(h, n), SlotsOk(f, h, n, st, vl)
  PROVE  Shared(f, h, n, st, vl)
  <1>1. \A t \in Threads : ThreadOk(f[t], h, n, st, vl)
    BY DEF ThreadOk, LearntOk, Owning
  <1>2. OwnersApart(f)
    BY DEF OwnersApart, Owning
  <1> QED BY <1>1, <1>2 DEF Shared

LEMMA IdleSlots ==
  ASSUME QueueInv, \A t \in Threads : th[t].pc = "idle"
  PROVE  \A k \in Ord(head) .. Ord(head) + Cap - 1 :
           SlotOk(k, Ord(tail), stamp, value) /\ k \in Nat /\ Cell(k) \in Slots
  <1> DEFINE h == Ord(head)
  <1>1. h \in Nat /\ Cap \in Nat
    BY StateIs, CountsIs
  <1>2. \A k \in h .. h + Cap - 1 : k \in Nat /\ Cell(k) \in Slots
    <2> SUFFICES ASSUME NEW k \in h .. h + Cap - 1
                 PROVE  k \in Nat /\ Cell(k) \in Slots
      OBVIOUS
    <2>1. k \in Nat
      BY <1>1
    <2> QED BY <2>1, AtIs DEF Slots
  <1>3. \A k \in h .. h + Cap - 1 : SlotOk(k, Ord(tail), stamp, value)
    BY DEF QueueInv, Shared, SlotsOk, Owning
  <1> QED BY <1>2, <1>3

LEMMA PushMutStep ==
  ASSUME QueueInv, NEW v \in Values, PushMut(v)
  PROVE  QueueInv'
  <1> DEFINE h == Ord(head)
             n == Ord(tail)
  <1>1. /\ h \in Nat /\ n \in Nat /\ h \in 0 .. Top /\ n \in 0 .. Top /\ n <= h + Cap
        /\ Shared(th, h, n, stamp, value) /\ Budget(th, n, started) /\ h <= n
        /\ started \in Nat /\ head = At(h) /\ tail = At(n)
        /\ stamp \in [Slots -> Nat] /\ value \in [Slots -> Values \cup {None}]
        /\ Cap \in Nat /\ Cap > 0 /\ MaxOps \in Nat /\ MaxOps + Cap <= Top /\ Top \in Nat
    BY StateIs, CountsIs
  <1>2. /\ \A t \in Threads : th[t].pc = "idle"
        /\ started < MaxOps /\ started' = started + 1 /\ UNCHANGED <<head, th>>
        /\ AddLap(head) # tail /\ tail' = Advance(tail)
        /\ value' = [value EXCEPT ![Index(tail)] = v]
        /\ stamp' = [stamp EXCEPT ![Index(tail)] = (tail + 1) % Word]
    BY DEF PushMut
  <1>3. \A k \in h .. h + Cap - 1 :
          SlotOk(k, n, stamp, value) /\ k \in Nat /\ Cell(k) \in Slots
    BY <1>2, IdleSlots
  <1> HIDE DEF h, n
  <1>4. Index(tail) = Cell(n) /\ tail' = At(n + 1) /\ (tail + 1) % Word = Filled(n)
        /\ AddLap(head) = At(h + Cap)
    BY <1>1, <1>2, AtMoves DEF Filled
  <1>5. n < h + Cap
    BY <1>1, <1>2, <1>4
  <1>6. n \in h .. h + Cap - 1
    BY <1>1, <1>5
  <1>7. n <= started /\ Budget(th, n + 1, started + 1)
    <2> DEFINE c == Cardinality(Claims(th))
    <2>1. IsFiniteSet(Claims(th)) /\ c \in Nat /\ n + c <= started
      BY <1>1, FS_CardinalityType DEF Budget
    <2> HIDE DEF c
    <2>2. n <= started /\ n + 1 + c <= started + 1
      BY <1>1, <2>1
    <2> QED BY <2>1, <2>2 DEF Budget, c
  <1>8. n + 1 <= MaxOps /\ n + 1 \in 0 .. Top
    BY <1>1, <1>2, <1>7
  <1>9. Filled(n) \in Nat
    BY <1>1, AtMoves, WordsNat, OrdIs
  <1>10. /\ stamp' \in [Slots -> Nat] /\ stamp'[Cell(n)] = Filled(n)
         /\ value' \in [Slots -> Values \cup {None}] /\ value'[Cell(n)] = v
         /\ \A j \in Slots : j # Cell(n) => stamp'[j] = stamp[j] /\ value'[j] = value[j]
    BY <1>1, <1>2, <1>3, <1>4, <1>6, <1>9
  <1>11. Shared(th, h, n + 1, stamp', value')
    <2>1. Window(h, n + 1)
      BY <1>1, <1>5, <1>8 DEF Window
    <2>2. \A k \in h .. h + Cap - 1 : SlotOk(k, n + 1, stamp', value')
      <3> SUFFICES ASSUME NEW k \in h .. h + Cap - 1
                   PROVE  SlotOk(k, n + 1, stamp', value')
        OBVIOUS
      <3>1. CASE k = n
        BY <1>1, <1>10, <3>1 DEF SlotOk
      <3>2. CASE k # n
        <4>1. Cell(k) # Cell(n)
          BY <1>1, <1>6, <3>2, CellsApart
        <4>2. k < n <=> k < n + 1
          BY <1>1, <1>3, <3>2
        <4> QED BY <1>3, <1>10, <4>1, <4>2 DEF SlotOk
      <3> QED BY <3>1, <3>2
    <2>3. SlotsOk(th, h, n + 1, stamp', value')
      BY <2>2 DEF SlotsOk
    <2>4. \A t \in Threads : ShapeOk(th[t])
      BY <1>1 DEF Shared, ThreadOk
    <2> QED BY <1>2, <2>1, <2>3, <2>4, IdleShared
  <1>12. tail' \in Words /\ Ord(tail') = n + 1
    BY <1>4, <1>8, OrdIs
  <1>13. TypeOK'
    <2>1. started' \in 0 .. MaxOps
      BY <1>1, <1>2
    <2> QED BY <1>2, <1>10, <1>12, <2>1 DEF QueueInv, TypeOK
  <1> QED BY <1>2, <1>7, <1>11, <1>12, <1>13 DEF QueueInv, h

LEMMA PopMutStep ==
  ASSUME QueueInv, PopMut
  PROVE  QueueInv'
  <1> DEFINE h == Ord(head)
             n == Ord(tail)
  <1>1. /\ h \in Nat /\ n \in Nat /\ h \in 0 .. Top /\ n \in 0 .. Top /\ n <= h + Cap
        /\ Shared(th, h, n, stamp, value) /\ Budget(th, n, started) /\ h <= n
        /\ started \in Nat /\ head = At(h) /\ tail = At(n) /\ n <= MaxOps
        /\ stamp \in [Slots -> Nat] /\ value \in [Slots -> Values \cup {None}]
        /\ Cap \in Nat /\ Cap > 0 /\ MaxOps \in Nat /\ MaxOps + Cap <= Top /\ Top \in Nat
    BY StateIs, CountsIs
  <1>2. /\ \A t \in Threads : th[t].pc = "idle"
        /\ started < MaxOps /\ started' = started + 1 /\ UNCHANGED <<tail, th>>
        /\ tail # head /\ head' = Advance(head)
        /\ value' = [value EXCEPT ![Index(head)] = None]
        /\ stamp' = [stamp EXCEPT ![Index(head)] = AddLap(head)]
    BY DEF PopMut
  <1>3. \A k \in h .. h + Cap - 1 :
          SlotOk(k, n, stamp, value) /\ k \in Nat /\ Cell(k) \in Slots
    BY <1>2, IdleSlots
  <1> HIDE DEF h, n
  <1>4. Index(head) = Cell(h) /\ head' = At(h + 1) /\ AddLap(head) = At(h + Cap)
        /\ Cell(h + Cap) = Cell(h)
    BY <1>1, <1>2, AtMoves, TurnNext
  <1>5. h < n
    BY <1>1, <1>2
  <1>6. h \in h .. h + Cap - 1 /\ h + 1 \in 0 .. Top /\ h + Cap \in 0 .. Top
    BY <1>1, <1>5
  <1>7. Budget(th, n, started + 1)
    <2> DEFINE c == Cardinality(Claims(th))
    <2>1. IsFiniteSet(Claims(th)) /\ c \in Nat /\ n + c <= started
      BY <1>1, FS_CardinalityType DEF Budget
    <2> HIDE DEF c
    <2>2. n + c <= started + 1
      BY <1>1, <2>1
    <2> QED BY <2>1, <2>2 DEF Budget, c
  <1>8. At(h + Cap) \in Nat
    BY <1>6, WordsNat, OrdIs
  <1>9. /\ stamp' \in [Slots -> Nat] /\ stamp'[Cell(h)] = At(h + Cap)
        /\ value' \in [Slots -> Values \cup {None}] /\ value'[Cell(h)] = None
        /\ \A j \in Slots : j # Cell(h) => stamp'[j] = stamp[j] /\ value'[j] = value[j]
    BY <1>1, <1>2, <1>3, <1>4, <1>6, <1>8
  <1>10. Shared(th, h + 1, n, stamp', value')
    <2>1. Window(h + 1, n)
      BY <1>1, <1>5 DEF Window
    <2>2. \A k \in h + 1 .. h + 1 + Cap - 1 : SlotOk(k, n, stamp', value')
      <3> SUFFICES ASSUME NEW k \in h + 1 .. h + 1 + Cap - 1
                   PROVE  SlotOk(k, n, stamp', value')
        OBVIOUS
      <3>1. CASE k = h + Cap
        BY <1>1, <1>4, <1>9, <3>1 DEF SlotOk
      <3>2. CASE k # h + Cap
        <4>1. k \in h .. h + Cap - 1 /\ k # h
          BY <1>1, <3>2
        <4>2. Cell(k) # Cell(h)
          BY <1>1, <1>6, <4>1, CellsApart
        <4> QED BY <1>3, <1>9, <4>1, <4>2 DEF SlotOk
      <3> QED BY <3>1, <3>2
    <2>3. SlotsOk(th, h + 1, n, stamp', value')
      BY <2>2 DEF SlotsOk
    <2>4. \A t \in Threads : ShapeOk(th[t])
      BY <1>1 DEF Shared, ThreadOk
    <2> QED BY <1>2, <2>1, <2>3, <2>4, IdleShared
  <1>11. head' \in Words /\ Ord(head') = h + 1
    BY <1>4, <1>6, OrdIs
  <1>12. TypeOK'
    <2>1. started' \in 0 .. MaxOps
      BY <1>1, <1>2
    <2> QED BY <1>2, <1>9, <1>11, <2>1 DEF QueueInv, TypeOK
  <1> QED BY <1>2, <1>7, <1>10, <1>11, <1>12 DEF QueueInv, n

-----------------------------------------------------------------------------
(* The invariant *)

LEMMA FirstLap ==
  ASSUME NEW i \in 0 .. Cap - 1
  PROVE  At(i) = Start * OneLap + i /\ Cell(i) = i
  <1>1. Cap \in Nat /\ Cap > 0 /\ Laps \in Nat /\ Laps > 0 /\ Start \in 0 .. Laps - 1 /\ i \in Nat
    BY CountsIs
  <1>2. (0 * Cap + i) \div Cap = 0 /\ (0 * Cap + i) % Cap = i
    BY <1>1, Unique
  <1>3. 0 * Cap + i = i
    BY <1>1
  <1>4. i \div Cap = 0 /\ Cell(i) = i
    BY <1>2, <1>3 DEF Cell
  <1>5. (0 * Laps + Start) % Laps = Start
    BY <1>1, Unique
  <1>6. Turn(i) = Start
    BY <1>1, <1>4, <1>5 DEF Turn
  <1> QED BY <1>1, <1>4, <1>6, AtIs

LEMMA QueueInit == Init => QueueInv
  <1> SUFFICES ASSUME Init
               PROVE  QueueInv
    OBVIOUS
  <1>1. /\ Cap \in Nat /\ Cap > 0 /\ Top \in Nat /\ MaxOps \in Nat /\ MaxOps + Cap <= Top
        /\ Start \in Nat /\ OneLap \in Nat
    BY CountsIs, LapIs
  <1>2. /\ head = At(0) /\ tail = At(0)
    <2>1. At(0) = Start * OneLap + 0
      BY <1>1, FirstLap
    <2> QED BY <1>1, <2>1 DEF Init
  <1>3. head \in Words /\ Ord(head) = 0 /\ tail \in Words /\ Ord(tail) = 0
    BY <1>1, <1>2, OrdIs
  <1>4. Idle \in Calls /\ Idle.pc = "idle" /\ Idle.op = "none" /\ Idle.arg = None
    BY DEF Idle, Calls, Pcs
  <1>5. /\ th = [t \in Threads |-> Idle] /\ value = [i \in Slots |-> None] /\ started = 0
        /\ stamp = [i \in Slots |-> Start * OneLap + i]
    BY DEF Init
  <1>6. TypeOK
    <2>1. stamp \in [Slots -> Nat]
      BY <1>1, <1>5 DEF Slots
    <2> QED BY <1>1, <1>3, <1>4, <1>5, <2>1 DEF TypeOK
  <1>7. Shared(th, 0, 0, stamp, value)
    <2>1. \A t \in Threads : th[t].pc = "idle" /\ ShapeOk(th[t])
      BY <1>4, <1>5 DEF ShapeOk, Pushing
    <2>2. Window(0, 0)
      BY <1>1 DEF Window
    <2>3. SlotsOk(th, 0, 0, stamp, value)
      <3> SUFFICES ASSUME NEW k \in 0 .. 0 + Cap - 1
                   PROVE  SlotOk(k, 0, stamp, value)
        BY DEF SlotsOk
      <3>1. k \in 0 .. Cap - 1 /\ k \in Slots /\ ~(k < 0)
        BY <1>1 DEF Slots
      <3>2. At(k) = Start * OneLap + k /\ Cell(k) = k
        BY <3>1, FirstLap
      <3> QED BY <1>5, <3>1, <3>2 DEF SlotOk
    <2> QED BY <2>1, <2>2, <2>3, IdleShared
  <1>8. Budget(th, 0, started)
    <2>1. Claims(th) = {}
      BY <1>4, <1>5 DEF Claims, Claiming
    <2>2. IsFiniteSet({}) /\ Cardinality({}) = 0
      BY FS_EmptySet
    <2> QED BY <1>5, <2>1, <2>2 DEF Budget
  <1> QED BY <1>3, <1>6, <1>7, <1>8 DEF QueueInv

LEMMA StepKeeps ==
  ASSUME QueueInv, NEW t \in Threads, Step(t)
  PROVE  QueueInv'
  <1>1. CASE PushLoad(t) \/ PopLoad(t)
    BY <1>1, LoadStep
  <1>2. CASE PushInspect(t) \/ PopInspect(t)
    BY <1>2, InspectStep
  <1>3. CASE PushCas(t)
    BY <1>3, PushCasStep, LostRaceStep
  <1>4. CASE PopCas(t)
    BY <1>4, HeadStep, LostRaceStep
  <1>5. CASE ForceHead(t)
    BY <1>5, HeadStep, GiveUpStep
  <1>6. CASE PushFull(t) \/ PopEmpty(t)
    BY <1>6, GiveUpStep
  <1>7. CASE ForceTail(t)
    BY <1>7, ForceTailStep
  <1>8. CASE PushWrite(t) \/ ForceSwap(t) \/ PopRead(t)
    BY <1>8, ValueStep
  <1>9. CASE PushPublish(t) \/ PopPublish(t)
    BY <1>9, PublishStep
  <1>10. CASE Return(t)
    BY <1>10, ReturnStep
  <1> QED BY <1>1, <1>2, <1>3, <1>4, <1>5, <1>6, <1>7, <1>8, <1>9, <1>10 DEF Step

LEMMA QueueNext == QueueInv /\ [Next]_vars => QueueInv'
  <1> SUFFICES ASSUME QueueInv, [Next]_vars
               PROVE  QueueInv'
    OBVIOUS
  <1>1. ASSUME NEW t \in Threads,
               \/ \E v \in Values : Call(t, "push", v) \/ Call(t, "force", v)
               \/ Call(t, "pop", None)
        PROVE  QueueInv'
    <2>1. CASE Call(t, "pop", None)
      BY <2>1, CallStep
    <2>2. CASE \E v \in Values : Call(t, "push", v)
      <3>1. PICK v \in Values : Call(t, "push", v)
        BY <2>2
      <3> QED BY <3>1, CallStep DEF Pushing
    <2>3. CASE \E v \in Values : Call(t, "force", v)
      <3>1. PICK v \in Values : Call(t, "force", v)
        BY <2>3
      <3> QED BY <3>1, CallStep DEF Pushing
    <2> QED BY <1>1, <2>1, <2>2, <2>3
  <1>2. ASSUME NEW t \in Threads, Step(t)
        PROVE  QueueInv'
    BY <1>2, StepKeeps
  <1>3. CASE \E v \in Values : PushMut(v)
    BY <1>3, PushMutStep
  <1>4. CASE PopMut
    BY <1>4, PopMutStep
  <1>5. CASE UNCHANGED vars
    <2>1. UNCHANGED <<head, tail, stamp, value, th, started>>
      BY <1>5 DEF vars
    <2>2. TypeOK'
      BY <2>1 DEF QueueInv, TypeOK
    <2>3. Shared(th, Ord(head), Ord(tail), stamp, value)'
      BY <2>1 DEF QueueInv
    <2>4. Budget(th, Ord(tail), started)'
      BY <2>1 DEF QueueInv
    <2> QED BY <2>2, <2>3, <2>4 DEF QueueInv
  <1> QED BY <1>1, <1>2, <1>3, <1>4, <1>5 DEF Next

\* Every slot of the window from head is free, filled or owned by one thread, stamped as
\* the next operation on it expects, and each thread's view of its slot is right.
THEOREM QueueInvariant == Spec => []QueueInv
  BY QueueInit, QueueNext, PTL DEF Spec

-----------------------------------------------------------------------------
(* What it implies *)

\* A thread that won a position has the slot to itself (the unsafe blocks of push_or_else,
\* force_push and pop).
THEOREM QueueSlotOwnership == Spec => []SlotOwnership
  <1>1. QueueInv => SlotOwnership
    <2> SUFFICES ASSUME QueueInv, NEW t \in Threads, NEW u \in Threads, t # u,
                        th[t].pc \in Owning, th[u].pc \in Owning
                 PROVE  slot(t) # slot(u)
      BY DEF SlotOwnership, Owning
    <2> DEFINE h == Ord(head)
               n == Ord(tail)
    <2>1. h \in Nat /\ n \in Nat /\ Shared(th, h, n, stamp, value)
      BY StateIs
    <2>2. /\ slot(t) = Cell(Ord(th[t].pos)) /\ Cell(Place(th[t])) = slot(t)
          /\ slot(u) = Cell(Ord(th[u].pos))
      BY ThreadIs DEF Owning
    <2> HIDE DEF h, n
    <2>3. Cell(Ord(th[u].pos)) # Cell(Place(th[t]))
      BY <2>1, OwnerPlace
    <2> QED BY <2>2, <2>3
  <1> QED BY <1>1, QueueInvariant, PTL

\* A slot is written only when it is empty and read only when it holds a value.
THEOREM QueueSlotInitialised == Spec => []SlotInitialised
  <1>1. QueueInv => SlotInitialised
    <2> SUFFICES ASSUME QueueInv, NEW t \in Threads,
                        th[t].pc \in {"write", "read", "forceSwap"}
                 PROVE  IF th[t].pc = "write" THEN value[slot(t)] = None
                                              ELSE value[slot(t)] \in Values
      BY DEF SlotInitialised
    <2>1. slot(t) = Cell(Ord(th[t].pos))
      BY ThreadIs
    <2>2. OwnerOk(th[t], Ord(head), Ord(tail), stamp, value)
      BY StateIs DEF ThreadOk, Owning
    <2> QED BY <2>1, <2>2 DEF OwnerOk
  <1> QED BY <1>1, QueueInvariant, PTL

\* Between operations every slot is stamped for whoever comes next.
THEOREM QueueNobodyStuck == Spec => []NobodyStuck
  <1>1. QueueInv => NobodyStuck
    <2> SUFFICES ASSUME QueueInv, \A t \in Threads : th[t].pc \in {"idle", "done"},
                        NEW k \in Slots
                 PROVE  LET x == Position(Ordinal(head) + k)
                        IN  stamp[Index(x)] = IF k < Length THEN (x + 1) % Word ELSE x
      BY DEF NobodyStuck
    <2> DEFINE h == Ord(head)
               n == Ord(tail)
    <2>1. /\ h \in Nat /\ n \in Nat /\ Shared(th, h, n, stamp, value) /\ head = At(h)
          /\ tail = At(n) /\ h <= n /\ n <= h + Cap /\ Cap \in Nat /\ k \in Nat /\ k < Cap
      BY StateIs, CountsIs DEF Slots
    <2>2. LogicalTail = tail
      BY DEF LogicalTail
    <2> HIDE DEF h, n
    <2>3. Length = n - h
      <3>1. n \in h .. h + Cap
        BY <2>1
      <3> QED BY <2>1, <2>2, <3>1, DistanceIs DEF Length
    <2>4. Position(Ordinal(head) + k) = At(h + k) /\ Index(At(h + k)) = Cell(h + k)
      BY <2>1, PositionIs, AtMoves
    <2>5. h + k \in h .. h + Cap - 1
      BY <2>1
    <2>6. SlotOk(h + k, n, stamp, value)
      BY <2>1, <2>5 DEF Shared, SlotsOk, Owning
    <2>7. k < Length <=> h + k < n
      BY <2>1, <2>3
    <2> QED BY <2>4, <2>6, <2>7 DEF SlotOk, Filled
  <1> QED BY <1>1, QueueInvariant, PTL


-----------------------------------------------------------------------------
(* Linearizability.  The contents of the queue in terms of positions. *)

Items == Values \cup {None}

\* What e holds at the positions from h to just before m.
Run(e, h, m) == [j \in 1 .. m - h |-> e[h + j - 1]]

LEMMA RunIs ==
  ASSUME NEW e, \A k \in Nat : e[k] \in Items, NEW h \in Nat, NEW m \in Nat, h <= m
  PROVE  /\ Run(e, h, m) \in Seq(Items) /\ Len(Run(e, h, m)) = m - h
         /\ \A j \in 1 .. m - h : Run(e, h, m)[j] = e[h + j - 1]
  <1>1. m - h \in Nat
    OBVIOUS
  <1>2. \A j \in 1 .. m - h : e[h + j - 1] \in Items
    OBVIOUS
  <1> QED BY <1>1, <1>2 DEF Run

LEMMA RunAppend ==
  ASSUME NEW e, \A k \in Nat : e[k] \in Items, NEW h \in Nat, NEW m \in Nat, h <= m
  PROVE  Run(e, h, m + 1) = Append(Run(e, h, m), e[m])
  <1> DEFINE s == Run(e, h, m)
             x == m + 1
             q == Run(e, h, x)
  <1>1. /\ s \in Seq(Items) /\ Len(s) = m - h
        /\ \A j \in 1 .. m - h : s[j] = e[h + j - 1]
    BY RunIs
  <1>2. x \in Nat /\ h <= x /\ x = m + 1
    OBVIOUS
  <1> HIDE DEF x
  <1>3. /\ q \in Seq(Items) /\ Len(q) = x - h
        /\ \A j \in 1 .. x - h : q[j] = e[h + j - 1]
    BY <1>2, RunIs
  <1> HIDE DEF s, q
  <1>4. e[m] \in Items /\ Append(s, e[m]) \in Seq(Items) /\ Len(Append(s, e[m])) = Len(s) + 1
    BY <1>1
  <1>5. Len(Append(s, e[m])) = Len(q)
    BY <1>1, <1>2, <1>3, <1>4
  <1>6. \A j \in 1 .. Len(q) : Append(s, e[m])[j] = q[j]
    <2> TAKE j \in 1 .. Len(q)
    <2>1. CASE j = m - h + 1
      <3>1. Append(s, e[m])[j] = e[m] /\ h + j - 1 = m
        BY <1>1, <2>1
      <3>2. j \in 1 .. x - h
        BY <1>3
      <3> QED BY <1>3, <3>1, <3>2
    <2>2. CASE j # m - h + 1
      <3>1. j \in 1 .. m - h /\ j \in 1 .. x - h
        BY <1>1, <1>2, <1>3, <2>2
      <3>2. Append(s, e[m])[j] = s[j]
        BY <1>1, <3>1
      <3> QED BY <1>1, <1>3, <3>1, <3>2
    <2> QED BY <2>1, <2>2
  <1>7. q = Append(s, e[m])
    BY <1>3, <1>4, <1>5, <1>6
  <1> QED BY <1>7 DEF s, q, x

LEMMA RunTail ==
  ASSUME NEW e, \A k \in Nat : e[k] \in Items, NEW h \in Nat, NEW m \in Nat, h < m
  PROVE  /\ Run(e, h + 1, m) = Tail(Run(e, h, m))
         /\ Head(Run(e, h, m)) = e[h]
  <1> DEFINE s == Run(e, h, m)
             q == Run(e, h + 1, m)
  <1>1. /\ s \in Seq(Items) /\ Len(s) = m - h
        /\ \A j \in 1 .. m - h : s[j] = e[h + j - 1]
    BY RunIs
  <1>0. h + 1 \in Nat /\ h + 1 <= m /\ h <= m
    OBVIOUS
  <1>2. /\ q \in Seq(Items) /\ Len(q) = m - (h + 1)
        /\ \A j \in 1 .. m - (h + 1) : q[j] = e[(h + 1) + j - 1]
    BY <1>0, RunIs
  <1> HIDE DEF s, q
  <1>3. s # <<>> /\ Tail(s) \in Seq(Items) /\ Len(Tail(s)) = Len(q) /\ Head(s) = s[1]
    BY <1>1, <1>2
  <1>4. \A j \in 1 .. Len(q) : Tail(s)[j] = q[j]
    BY <1>1, <1>2, <1>3
  <1>5. Tail(s) = q
    BY <1>2, <1>3, <1>4
  <1>6. s[1] = e[h]
    BY <1>1
  <1> QED BY <1>3, <1>5, <1>6 DEF s, q

LEMMA RunSame ==
  ASSUME NEW e, NEW d, NEW h \in Nat, NEW m \in Nat,
         \A k \in Nat : h <= k /\ k < m => e[k] = d[k]
  PROVE  Run(e, h, m) = Run(d, h, m)
  <1>1. \A j \in 1 .. m - h : h + j - 1 \in Nat /\ h <= h + j - 1 /\ h + j - 1 < m
    OBVIOUS
  <1> QED BY <1>1 DEF Run

\* ElementAt, LogicalTail, Contents and Observed of a state whose threads are f and whose
\* slots hold vl.
Bring == {"write", "forceTail", "forceSwap"}
Bringers(f, x) == {t \in Threads : f[t].pc \in Bring /\ f[t].pos = x}
Element(f, vl, x) == IF Bringers(f, x) = {} THEN vl[Index(x)]
                     ELSE f[CHOOSE t \in Bringers(f, x) : TRUE].arg
Elements(f, vl) == [k \in Nat |-> Element(f, vl, At(k))]
Forcing(f) == {t \in Threads : f[t].pc = "forceTail"}
Rear(f, x) == IF Forcing(f) = {} THEN x
              ELSE Advance(f[CHOOSE t \in Forcing(f) : TRUE].pos)
Back(f, n) == IF Forcing(f) = {} THEN n ELSE n + 1
List(f, h, n, vl) == Run(Elements(f, vl), h, Back(f, n))
Effective == {"write", "publish", "read", "forceTail", "forceSwap", "done"}
Holding == {"read", "forceTail", "forceSwap"}
Obs(r, vl) == [op |-> r.op, arg |-> r.arg, done |-> r.pc \in Effective,
               ret |-> IF r.pc \in Holding THEN vl[Index(r.pos)] ELSE r.ret]

LEMMA BackIs ==
  ASSUME NEW h \in Nat, NEW n \in Nat, NEW st, NEW vl, NEW f, Shared(f, h, n, st, vl)
  PROVE  /\ \A t \in Forcing(f) : /\ f[t].pos = At(n) /\ f[t].pos \in Words
                                  /\ Place(f[t]) = n /\ n < h + Cap /\ f[t].pc \in Owning
         /\ \A t, u \in Forcing(f) : t = u
         /\ Rear(f, At(n)) = At(Back(f, n))
         /\ Back(f, n) \in Nat /\ h <= Back(f, n) /\ n <= Back(f, n) /\ Back(f, n) <= h + Cap
         /\ Back(f, n) <= n + 1
  <1>1. h <= n /\ n <= h + Cap /\ Cap \in Nat
    BY CountsIs DEF Shared, Window
  <1>2. \A t \in Forcing(f) : /\ f[t].pos = At(n) /\ f[t].pos \in Words
                              /\ Place(f[t]) = n /\ n < h + Cap /\ f[t].pc \in Owning
    <2> SUFFICES ASSUME NEW t \in Threads, f[t].pc = "forceTail"
                 PROVE  /\ f[t].pos = At(n) /\ f[t].pos \in Words
                        /\ Place(f[t]) = n /\ n < h + Cap /\ f[t].pc \in Owning
      BY DEF Forcing
    <2>1. f[t].pc \in Owning /\ f[t].op = "force" /\ OwnerOk(f[t], h, n, st, vl)
      BY DEF Shared, ThreadOk, ShapeOk, Owning
    <2>2. Ord(f[t].pos) = n /\ f[t].pos \in Words /\ Place(f[t]) = n /\ n < h + Cap
      BY <2>1 DEF OwnerOk, Place
    <2> QED BY <2>1, <2>2, PlaceIs
  <1>3. \A t, u \in Forcing(f) : t = u
    <2>1. \A t, u \in Threads : t # u /\ f[t].pc \in Owning /\ f[u].pc \in Owning
             => Place(f[t]) # Place(f[u])
      BY DEF Shared, OwnersApart
    <2> QED BY <1>2, <2>1 DEF Forcing
  <1>4. Rear(f, At(n)) = At(Back(f, n))
    BY <1>2, AtMoves DEF Rear, Back
  <1> QED BY <1>1, <1>2, <1>3, <1>4 DEF Back

LEMMA ElementIs ==
  ASSUME NEW h \in Nat, NEW n \in Nat, NEW st, NEW vl \in [Slots -> Items],
         NEW f \in [Threads -> Calls], Shared(f, h, n, st, vl), NEW k \in Nat
  PROVE  /\ Element(f, vl, At(k)) \in Items
         /\ \A t \in Threads : f[t].pc \in Bring /\ f[t].pos = At(k)
               => Element(f, vl, At(k)) = f[t].arg
         /\ (\A t \in Threads : ~(f[t].pc \in Bring /\ f[t].pos = At(k)))
               => Element(f, vl, At(k)) = vl[Cell(k)]
  <1> DEFINE B == Bringers(f, At(k))
  <1>1. Index(At(k)) = Cell(k) /\ Cell(k) \in Slots
    BY AtMoves, AtIs DEF Slots
  <1>2. \A t, u \in B : t = u
    <2> SUFFICES ASSUME NEW t \in Threads, NEW u \in Threads, f[t].pc \in Bring,
                        f[u].pc \in Bring, f[t].pos = f[u].pos
                 PROVE  t = u
      BY DEF Bringers
    <2>1. f[t].pc \in Owning /\ f[u].pc \in Owning
      BY DEF Bring, Owning
    <2>2. f[t].op # "pop" /\ f[u].op # "pop"
      BY DEF Shared, ThreadOk, ShapeOk, Bring, Pushing
    <2>3. Place(f[t]) = Place(f[u])
      BY <2>2 DEF Place
    <2> QED BY <2>1, <2>3 DEF Shared, OwnersApart
  <1>3. \A t \in B : f[t].arg \in Items /\ t \in Threads
    BY DEF Bringers, Calls, Items
  <1>4. B # {} => Element(f, vl, At(k)) \in Items /\ \A t \in B : Element(f, vl, At(k)) = f[t].arg
    BY <1>2, <1>3 DEF Element
  <1>5. B = {} => Element(f, vl, At(k)) \in Items /\ Element(f, vl, At(k)) = vl[Cell(k)]
    BY <1>1 DEF Element
  <1> QED BY <1>4, <1>5 DEF Bringers

LEMMA ListIs ==
  ASSUME NEW h \in Nat, NEW n \in Nat, NEW st, NEW vl \in [Slots -> Items],
         NEW f \in [Threads -> Calls], Shared(f, h, n, st, vl)
  PROVE  /\ \A k \in Nat : Elements(f, vl)[k] \in Items
         /\ \A k \in Nat : Elements(f, vl)[k] = Element(f, vl, At(k))
         /\ List(f, h, n, vl) =
              [k \in 1 .. ((Ordinal(Rear(f, At(n))) + Laps * Cap - Ordinal(At(h)))
                             % (Laps * Cap))
                 |-> Element(f, vl, Position(Ordinal(At(h)) + k - 1))]
  <1> DEFINE b == Back(f, n)
  <1>1. /\ b \in Nat /\ h <= b /\ b <= h + Cap /\ Rear(f, At(n)) = At(b) /\ Cap \in Nat
    BY BackIs, CountsIs
  <1>2. \A k \in Nat : /\ Elements(f, vl)[k] \in Items
                       /\ Elements(f, vl)[k] = Element(f, vl, At(k))
    BY ElementIs DEF Elements
  <1> HIDE DEF b
  <1>3. b \in h .. h + Cap
    BY <1>1
  <1>4. (Ordinal(At(b)) + Laps * Cap - Ordinal(At(h))) % (Laps * Cap) = b - h
    BY <1>3, DistanceIs
  <1>5. \A k \in 1 .. b - h : /\ Position(Ordinal(At(h)) + k - 1) = At(h + k - 1)
                              /\ h + k - 1 \in Nat
    <2> SUFFICES ASSUME NEW k \in 1 .. b - h
                 PROVE  /\ Position(Ordinal(At(h)) + k - 1) = At(h + k - 1)
                        /\ h + k - 1 \in Nat
      OBVIOUS
    <2> DEFINE j == k - 1
               o == Ordinal(At(h))
    <2>1. j \in Nat /\ o \in Nat /\ k \in Nat
      BY <1>1, OrdinalIs, CountsIs
    <2>2. Position(o + j) = At(h + j)
      BY <2>1, PositionIs
    <2> HIDE DEF o
    <2>3. o + j = o + k - 1 /\ h + j = h + k - 1
      BY <2>1
    <2> QED BY <2>1, <2>2, <2>3 DEF o
  <1>6. List(f, h, n, vl) = [k \in 1 .. b - h |-> Element(f, vl, At(h + k - 1))]
    BY <1>2, <1>5 DEF List, Run, b
  <1> QED BY <1>1, <1>2, <1>4, <1>5, <1>6

LEMMA SeeNow ==
  ASSUME QueueInv
  PROVE  /\ Contents = List(th, Ord(head), Ord(tail), value)
         /\ \A t \in Threads : Observed(t) = Obs(th[t], value)
  <1>1. /\ Ord(head) \in Nat /\ Ord(tail) \in Nat /\ head = At(Ord(head)) /\ tail = At(Ord(tail))
        /\ th \in [Threads -> Calls] /\ value \in [Slots -> Items]
        /\ Shared(th, Ord(head), Ord(tail), stamp, value)
    BY StateIs DEF Items
  <1>2. \A x : ElementAt(x) = Element(th, value, x)
    BY DEF ElementAt, Element, Bringers, Bring
  <1>3. LogicalTail = Rear(th, tail)
    BY DEF LogicalTail, Rear, Forcing
  <1>4. List(th, Ord(head), Ord(tail), value) =
          [k \in 1 .. ((Ordinal(Rear(th, tail)) + Laps * Cap - Ordinal(head)) % (Laps * Cap))
             |-> Element(th, value, Position(Ordinal(head) + k - 1))]
    BY <1>1, ListIs
  <1>5. Contents = List(th, Ord(head), Ord(tail), value)
    BY <1>2, <1>3, <1>4 DEF Contents, Length
  <1> QED BY <1>5 DEF Observed, Obs, Effective, Holding, slot

LEMMA SeeThen ==
  ASSUME QueueInv'
  PROVE  /\ Contents' = List(th', Ord(head'), Ord(tail'), value')
         /\ \A t \in Threads : Observed(t)' = Obs(th'[t], value')
  <1>1. /\ head' \in Words /\ tail' \in Words /\ th' \in [Threads -> Calls]
        /\ value' \in [Slots -> Items] /\ Shared(th', Ord(head'), Ord(tail'), stamp', value')
    BY DEF QueueInv, TypeOK, Items
  <1>2. /\ Ord(head') \in Nat /\ Ord(tail') \in Nat /\ head' = At(Ord(head'))
        /\ tail' = At(Ord(tail'))
    BY <1>1, OrdIs, CountsIs
  <1>3. \A x : ElementAt(x)' = Element(th', value', x)
    BY DEF ElementAt, Element, Bringers, Bring
  <1>4. LogicalTail' = Rear(th', tail')
    BY DEF LogicalTail, Rear, Forcing
  <1>5. List(th', Ord(head'), Ord(tail'), value') =
          [k \in 1 .. ((Ordinal(Rear(th', tail')) + Laps * Cap - Ordinal(head')) % (Laps * Cap))
             |-> Element(th', value', Position(Ordinal(head') + k - 1))]
    BY <1>1, <1>2, ListIs
  <1>6. Contents' = List(th', Ord(head'), Ord(tail'), value')
    BY <1>3, <1>4, <1>5 DEF Contents, Length
  <1> QED BY <1>6 DEF Observed, Obs, Effective, Holding, slot

\* Thread record r brings the element of position k and has not written it yet.
Brings(r, k) == r.pc \in Bring /\ r.pos = At(k)

\* The element of position k is the same after a step that takes a thread from r to q and
\* the values from vl to w: its slot and its bringer are left alone, or what the thread
\* brought is written.
Kept(r, q, vl, w, k) ==
  \/ /\ Brings(r, k) <=> Brings(q, k)
     /\ Brings(r, k) => q.arg = r.arg
     /\ w[Cell(k)] = vl[Cell(k)]
  \/ /\ Brings(r, k) /\ ~Brings(q, k)
     /\ w[Cell(k)] = r.arg

LEMMA ElementMove ==
  ASSUME NEW h \in Nat, NEW n \in Nat, NEW st, NEW vl \in [Slots -> Items],
         NEW f \in [Threads -> Calls], Shared(f, h, n, st, vl),
         NEW i \in Nat, NEW m \in Nat, NEW su, NEW w \in [Slots -> Items],
         NEW g \in [Threads -> Calls], Shared(g, i, m, su, w),
         NEW t \in Threads, \A u \in Threads : u # t => g[u] = f[u],
         NEW k \in Nat, Kept(f[t], g[t], vl, w, k)
  PROVE  Elements(g, w)[k] = Elements(f, vl)[k]
  <1> DEFINE e == Elements(f, vl)[k]
             d == Elements(g, w)[k]
  <1>1. /\ \A u \in Threads : Brings(f[u], k) => e = f[u].arg
        /\ (\A u \in Threads : ~Brings(f[u], k)) => e = vl[Cell(k)]
    BY ElementIs DEF Brings, Elements
  <1>2. /\ \A u \in Threads : Brings(g[u], k) => d = g[u].arg
        /\ (\A u \in Threads : ~Brings(g[u], k)) => d = w[Cell(k)]
    BY ElementIs DEF Brings, Elements
  <1>3. \A u, v \in Threads : Brings(f[u], k) /\ Brings(f[v], k) => u = v
    <2> SUFFICES ASSUME NEW u \in Threads, NEW v \in Threads, Brings(f[u], k),
                        Brings(f[v], k)
                 PROVE  u = v
      OBVIOUS
    <2>1. f[u].pc \in Owning /\ f[v].pc \in Owning
      BY DEF Brings, Bring, Owning
    <2>2. f[u].op # "pop" /\ f[v].op # "pop"
      BY DEF Shared, ThreadOk, ShapeOk, Brings, Bring, Pushing
    <2>3. Place(f[u]) = Place(f[v])
      BY <2>2 DEF Place, Brings
    <2> QED BY <2>1, <2>3 DEF Shared, OwnersApart
  <1> HIDE DEF e, d
  <1>4. CASE /\ Brings(f[t], k) <=> Brings(g[t], k)
             /\ Brings(f[t], k) => g[t].arg = f[t].arg
             /\ w[Cell(k)] = vl[Cell(k)]
    <2>1. CASE \E u \in Threads : Brings(f[u], k)
      <3>1. PICK u \in Threads : Brings(f[u], k)
        BY <2>1
      <3>2. Brings(g[u], k) /\ g[u].arg = f[u].arg
        BY <1>4, <3>1
      <3>3. e = f[u].arg
        BY <1>1, <3>1
      <3>4. d = g[u].arg
        BY <1>2, <3>2
      <3>5. d = e
        BY <3>2, <3>3, <3>4
      <3> QED BY <3>5 DEF d, e
    <2>2. CASE \A u \in Threads : ~Brings(f[u], k)
      <3>1. \A u \in Threads : ~Brings(g[u], k)
        BY <1>4, <2>2
      <3>2. d = e
        BY <1>1, <1>2, <1>4, <2>2, <3>1
      <3> QED BY <3>2 DEF d, e
    <2> QED BY <2>1, <2>2
  <1>5. CASE /\ Brings(f[t], k) /\ ~Brings(g[t], k)
             /\ w[Cell(k)] = f[t].arg
    <2>1. \A u \in Threads : ~Brings(g[u], k)
      BY <1>3, <1>5
    <2>2. d = f[t].arg /\ e = f[t].arg
      BY <1>1, <1>2, <1>5, <2>1
    <2> QED BY <2>2 DEF d, e
  <1> QED BY <1>4, <1>5 DEF Kept

\* What a thread is seen to do depends on its record and on the slot it owns.
LEMMA ObsFrame ==
  ASSUME NEW h \in Nat, NEW n \in Nat, NEW st, NEW vl, NEW w, NEW f, NEW t \in Threads,
         Shared(f, h, n, st, vl), f[t].pc \in Owning,
         \A j \in Slots : j # Cell(Place(f[t])) => w[j] = vl[j],
         NEW u \in Threads, u # t
  PROVE  Obs(f[u], w) = Obs(f[u], vl)
  <1>1. CASE f[u].pc \in Holding
    <2>1. f[u].pc \in Owning
      BY <1>1 DEF Holding, Owning
    <2>2. f[u].pos \in Words /\ Cell(Ord(f[u].pos)) # Cell(Place(f[t]))
      <3>1. \A v \in Threads : f[v].pc \in Owning => f[v].pos \in Words
        BY DEF Shared, ThreadOk, OwnerOk
      <3>2. f[u].pos \in Words /\ f[t].pos \in Words
        BY <2>1, <3>1
      <3>3. /\ h <= Place(f[u]) /\ Place(f[u]) < h + Cap /\ h <= Place(f[t])
            /\ Place(f[t]) < h + Cap /\ Place(f[u]) # Place(f[t])
        BY <2>1 DEF Shared, ThreadOk, OwnerOk, OwnersApart
      <3>4. /\ Place(f[u]) \in Nat /\ Cell(Place(f[u])) = Cell(Ord(f[u].pos))
            /\ Place(f[t]) \in Nat
        BY <3>2, PlaceIs
      <3> QED BY <3>2, <3>3, <3>4, WindowCells
    <2>3. Index(f[u].pos) = Cell(Ord(f[u].pos)) /\ Cell(Ord(f[u].pos)) \in Slots
      BY <2>2, PlaceIs
    <2>4. w[Index(f[u].pos)] = vl[Index(f[u].pos)]
      BY <2>2, <2>3
    <2> QED BY <2>4 DEF Obs
  <1>2. CASE f[u].pc \notin Holding
    BY <1>2 DEF Obs
  <1> QED BY <1>1, <1>2

\* Bringing in terms of ordinals.
LEMMA BringsIs ==
  ASSUME NEW r, r.pos \in Words, NEW k \in 0 .. Top
  PROVE  Brings(r, k) <=> r.pc \in Bring /\ Ord(r.pos) = k
  BY OrdIs DEF Brings

\* Steps that leave the contents alone.
LEMMA ListSame ==
  ASSUME NEW h \in Nat, NEW n \in Nat, NEW st, NEW vl \in [Slots -> Items],
         NEW f \in [Threads -> Calls], Shared(f, h, n, st, vl),
         NEW m \in Nat, NEW su, NEW w \in [Slots -> Items],
         NEW g \in [Threads -> Calls], Shared(g, h, m, su, w),
         NEW t \in Threads, \A u \in Threads : u # t => g[u] = f[u],
         Back(g, m) = Back(f, n),
         \A k \in Nat : h <= k /\ k < Back(f, n) => Kept(f[t], g[t], vl, w, k)
  PROVE  List(g, h, m, w) = List(f, h, n, vl)
  <1>1. \A k \in Nat : h <= k /\ k < Back(f, n) => Elements(g, w)[k] = Elements(f, vl)[k]
    <2> SUFFICES ASSUME NEW k \in Nat, h <= k, k < Back(f, n)
                 PROVE  Elements(g, w)[k] = Elements(f, vl)[k]
      OBVIOUS
    <2>1. Kept(f[t], g[t], vl, w, k)
      OBVIOUS
    <2> QED BY <2>1, ElementMove
  <1>2. Back(f, n) \in Nat
    BY BackIs
  <1>3. Run(Elements(g, w), h, Back(f, n)) = Run(Elements(f, vl), h, Back(f, n))
    BY <1>1, <1>2, RunSame
  <1> QED BY <1>3 DEF List

\* The elements from position h to just before m stay what they are.
Stay(e, d, h, m) == \A k \in Nat : h <= k /\ k < m => d[k] = e[k]

\* push wins the position at the tail: its element is appended.
LEMMA RunPush ==
  ASSUME NEW e, NEW d, \A k \in Nat : e[k] \in Items, \A k \in Nat : d[k] \in Items,
         NEW h \in Nat, NEW n \in Nat, h <= n, Stay(e, d, h, n)
  PROVE  /\ Run(d, h, n + 1) = Append(Run(e, h, n), d[n])
         /\ Len(Run(e, h, n)) = n - h
  <1>1. Run(d, h, n + 1) = Append(Run(d, h, n), d[n])
    BY RunAppend
  <1>2. Run(d, h, n) = Run(e, h, n)
    BY RunSame DEF Stay
  <1>3. Len(Run(e, h, n)) = n - h
    BY RunIs
  <1> QED BY <1>1, <1>2, <1>3

\* pop wins the position at the head: the oldest element is taken out.
LEMMA RunPop ==
  ASSUME NEW e, NEW d, \A k \in Nat : e[k] \in Items,
         NEW h \in Nat, NEW n \in Nat, h < n, Stay(e, d, h + 1, n)
  PROVE  /\ Run(d, h + 1, n) = Tail(Run(e, h, n))
         /\ Run(e, h, n) # <<>> /\ Head(Run(e, h, n)) = e[h]
         /\ Len(Run(e, h, n)) = n - h
  <1>1. h <= n /\ h + 1 \in Nat
    OBVIOUS
  <1>2. Run(e, h + 1, n) = Tail(Run(e, h, n)) /\ Head(Run(e, h, n)) = e[h]
    BY RunTail
  <1>3. \A k \in Nat : h + 1 <= k /\ k < n => d[k] = e[k]
    BY DEF Stay
  <1>4. Run(d, h + 1, n) = Run(e, h + 1, n)
    BY <1>1, <1>3, RunSame
  <1>5. Run(e, h, n) \in Seq(Items) /\ Len(Run(e, h, n)) = n - h
    BY <1>1, RunIs
  <1>6. Run(e, h, n) # <<>>
    BY <1>5
  <1> QED BY <1>2, <1>4, <1>5, <1>6

\* force_push wins the position at the tail of a full queue: the oldest element makes
\* room for its own.
LEMMA RunForce ==
  ASSUME NEW e, NEW d, \A k \in Nat : e[k] \in Items, \A k \in Nat : d[k] \in Items,
         NEW h \in Nat, NEW n \in Nat, h < n, Stay(e, d, h + 1, n)
  PROVE  /\ Run(d, h + 1, n + 1) = Append(Tail(Run(e, h, n)), d[n])
         /\ Len(Run(e, h, n)) = n - h /\ Head(Run(e, h, n)) = e[h]
  <1>1. h + 1 \in Nat /\ h + 1 <= n
    OBVIOUS
  <1>2. Run(d, h + 1, n) = Tail(Run(e, h, n)) /\ Len(Run(e, h, n)) = n - h
        /\ Head(Run(e, h, n)) = e[h]
    BY RunPop
  <1>3. Run(d, h + 1, n + 1) = Append(Run(d, h + 1, n), d[n])
    BY <1>1, RunAppend
  <1> QED BY <1>2, <1>3

-----------------------------------------------------------------------------
(* The steps of the queue as steps of the abstract one *)

LEMMA ThenIs ==
  ASSUME QueueInv'
  PROVE  /\ Ord(head') \in Nat /\ Ord(tail') \in Nat
         /\ th' \in [Threads -> Calls] /\ value' \in [Slots -> Items]
         /\ Shared(th', Ord(head'), Ord(tail'), stamp', value')
  <1>1. /\ head' \in Words /\ tail' \in Words /\ th' \in [Threads -> Calls]
        /\ value' \in [Slots -> Items] /\ Shared(th', Ord(head'), Ord(tail'), stamp', value')
    BY DEF QueueInv, TypeOK, Items
  <1> QED BY <1>1, OrdIs, CountsIs

\* A step that nobody sees.
LEMMA Unseen ==
  ASSUME Contents' = Contents, \A t \in Threads : Observed(t)' = Observed(t)
  PROVE  [Abstract!Next]_(Abstract!absVars)
  <1>1. [t \in Threads |-> Observed(t)]' = [t \in Threads |-> Observed(t)]
    OBVIOUS
  <1> QED BY <1>1 DEF Abstract!absVars

\* A step in which the operation of t ends with r.
LEMMA EndsIs ==
  ASSUME NEW t \in Threads, NEW r,
         \A u \in Threads : u # t => Observed(u)' = Observed(u),
         Observed(t)' = [op |-> th[t].op, arg |-> th[t].arg, done |-> TRUE, ret |-> r]
  PROVE  Abstract!Ends(t, r)
  <1> DEFINE c == [u \in Threads |-> Observed(u)]
             o == th[t].op
             a == th[t].arg
             b == th[t].pc \in {"write", "publish", "read", "forceTail", "forceSwap", "done"}
             x == IF th[t].pc \in {"read", "forceTail", "forceSwap"} THEN value[slot(t)]
                  ELSE th[t].ret
             y == TRUE
             p == c[t]
             q == [p EXCEPT !.done = y, !.ret = r]
             z == [op |-> o, arg |-> a, done |-> y, ret |-> r]
             S == [op : {o}, arg : {a}, done : {b, y}, ret : {x, r}]
  <1>1. Observed(t) = [op |-> o, arg |-> a, done |-> b, ret |-> x]
    BY DEF Observed
  <1>2. p = [op |-> o, arg |-> a, done |-> b, ret |-> x]
    BY <1>1
  <1>0. c' = [u \in Threads |-> IF u = t THEN z ELSE Observed(u)]
    OBVIOUS
  <1> HIDE DEF o, a, b, x, y
  <1>3. z \in S
    OBVIOUS
  <1>4. q = z
    <2> HIDE DEF p
    <2>1. p \in S
      BY <1>2
    <2>2. q \in S
      BY <2>1
    <2>3. q.op = z.op /\ q.arg = z.arg /\ q.done = z.done /\ q.ret = z.ret
      BY <1>2
    <2> HIDE DEF q, z
    <2> QED BY <1>3, <2>2, <2>3
  <1>5. [c EXCEPT ![t].done = y, ![t].ret = r] = [c EXCEPT ![t] = q]
    OBVIOUS
  <1> HIDE DEF z, q
  <1>6. [c EXCEPT ![t] = z] = [u \in Threads |-> IF u = t THEN z ELSE Observed(u)]
    OBVIOUS
  <1>7. [c EXCEPT ![t].done = y, ![t].ret = r] = c'
    BY <1>0, <1>4, <1>5, <1>6
  <1> QED BY <1>7 DEF y, Abstract!Ends

\* What a thread that took no part in the step is seen to do.
LEMMA OthersSeen ==
  ASSUME QueueInv, QueueInv', NEW t \in Threads,
         \A u \in Threads : u # t => th'[u] = th[u],
         \/ UNCHANGED value
         \/ /\ th[t].pc \in Owning
            /\ \A j \in Slots : j # Cell(Place(th[t])) => value'[j] = value[j]
  PROVE  \A u \in Threads : u # t => Observed(u)' = Observed(u)
  <1> SUFFICES ASSUME NEW u \in Threads, u # t
               PROVE  Observed(u)' = Observed(u)
    OBVIOUS
  <1>1. Observed(u) = Obs(th[u], value) /\ Observed(u)' = Obs(th'[u], value')
    BY SeeNow, SeeThen
  <1>2. th'[u] = th[u]
    OBVIOUS
  <1>3. Obs(th[u], value') = Obs(th[u], value)
    <2>1. CASE UNCHANGED value
      BY <2>1
    <2>2. CASE /\ th[t].pc \in Owning
               /\ \A j \in Slots : j # Cell(Place(th[t])) => value'[j] = value[j]
      <3>1. /\ Ord(head) \in Nat /\ Ord(tail) \in Nat
            /\ Shared(th, Ord(head), Ord(tail), stamp, value)
        BY StateIs
      <3> QED BY <2>2, <3>1, ObsFrame
    <2> QED BY <2>1, <2>2
  <1> QED BY <1>1, <1>2, <1>3

\* A step of t that neither wins nor brings nor writes an element.
LEMMA QuietStep ==
  ASSUME QueueInv, QueueInv', NEW t \in Threads, UNCHANGED <<head, tail, value>>,
         \A u \in Threads : u # t => th'[u] = th[u],
         th[t].pc \notin Bring, th'[t].pc \notin Bring
  PROVE  /\ Contents' = Contents
         /\ \A u \in Threads : u # t => Observed(u)' = Observed(u)
  <1> DEFINE f == th
             g == th'
             h == Ord(head)
             n == Ord(tail)
             w == value'
             su == stamp'
  <1>1. /\ h \in Nat /\ n \in Nat /\ f \in [Threads -> Calls] /\ value \in [Slots -> Items]
        /\ Shared(f, h, n, stamp, value)
    BY StateIs DEF Items
  <1>2. /\ g \in [Threads -> Calls] /\ w \in [Slots -> Items] /\ Shared(g, h, n, su, w)
    BY ThenIs
  <1>3. Contents = List(f, h, n, value) /\ Contents' = List(g, h, n, w)
    BY SeeNow, SeeThen
  <1>4. Forcing(g) = Forcing(f)
    BY DEF Forcing, Bring
  <1>5. Back(g, n) = Back(f, n)
    BY <1>4 DEF Back
  <1>6. \A k \in Nat : h <= k /\ k < Back(f, n) => Kept(f[t], g[t], value, w, k)
    BY DEF Kept, Brings
  <1>7. \A u \in Threads : u # t => g[u] = f[u]
    OBVIOUS
  <1>8. \A u \in Threads : u # t => Observed(u)' = Observed(u)
    BY OthersSeen
  <1> HIDE DEF f, g, h, n, w, su
  <1>9. List(g, h, n, w) = List(f, h, n, value)
    BY <1>1, <1>2, <1>5, <1>6, <1>7, ListSame
  <1> QED BY <1>3, <1>8, <1>9

\* A step of t between two accesses of the loops.
LEMMA QuietUnseen ==
  ASSUME QueueInv, QueueInv', NEW t \in Threads, UNCHANGED <<head, tail, value>>,
         \A u \in Threads : u # t => th'[u] = th[u],
         th[t].pc \notin Bring \cup Holding, th'[t].pc \notin Bring \cup Holding,
         th'[t].op = th[t].op, th'[t].arg = th[t].arg, th'[t].ret = th[t].ret,
         th[t].pc \in Effective <=> th'[t].pc \in Effective
  PROVE  [Abstract!Next]_(Abstract!absVars)
  <1>1. /\ Contents' = Contents
        /\ \A u \in Threads : u # t => Observed(u)' = Observed(u)
    BY QuietStep
  <1>2. Observed(t) = Obs(th[t], value) /\ Observed(t)' = Obs(th'[t], value')
    BY SeeNow, SeeThen
  <1>3. (th[t].pc \in Effective) = (th'[t].pc \in Effective)
    BY DEF Effective
  <1>4. Obs(th'[t], value') = Obs(th[t], value)
    BY <1>3 DEF Obs
  <1> QED BY <1>1, <1>2, <1>4, Unseen

LEMMA RetryImplements ==
  ASSUME QueueInv, QueueInv', NEW t \in Threads,
         \/ PushLoad(t) \/ PushInspect(t) \/ PopLoad(t) \/ PopInspect(t)
         \/ PushCas(t) /\ tail # th[t].pos
         \/ PopCas(t) /\ head # th[t].pos
         \/ PushFull(t) /\ AddLap(head) # th[t].pos
         \/ ForceHead(t) /\ head # SubLap(th[t].pos)
         \/ PopEmpty(t) /\ tail # th[t].pos
         \/ PushPublish(t) \/ PopPublish(t)
  PROVE  [Abstract!Next]_(Abstract!absVars)
  <1>1. th \in [Threads -> Calls] /\ head \in Nat /\ tail \in Nat
    BY StateIs, OrdIs, WordsNat DEF QueueInv, TypeOK
  <1>2. UNCHANGED <<head, tail, value>>
    BY DEF PushLoad, PushInspect, PopLoad, PopInspect, PushCas, PopCas, PushFull, ForceHead,
           PopEmpty, PushPublish, PopPublish
  <1>3. \/ \E c \in {"load", "stamp", "cas", "full", "empty"} :
              /\ Goto(t, c) \/ (\E x \in {head, tail} : Reread(t, c, x))
              /\ th[t].pc \in {"load", "stamp", "cas", "full", "empty"}
        \/ th[t].pc = "publish" /\ Goto(t, "done")
    <2>1. CASE PushLoad(t) \/ PopLoad(t)
      BY <2>1 DEF PushLoad, PopLoad
    <2>2. CASE PushInspect(t)
      BY <2>2 DEF PushInspect
    <2>3. CASE PopInspect(t)
      BY <2>3 DEF PopInspect
    <2>4. CASE (PushCas(t) /\ tail # th[t].pos) \/ (PopCas(t) /\ head # th[t].pos)
      BY <2>4 DEF PushCas, PopCas
    <2>5. CASE \/ PushFull(t) /\ AddLap(head) # th[t].pos
               \/ ForceHead(t) /\ head # SubLap(th[t].pos)
               \/ PopEmpty(t) /\ tail # th[t].pos
      BY <2>5 DEF PushFull, ForceHead, PopEmpty
    <2>6. CASE PushPublish(t) \/ PopPublish(t)
      BY <2>6 DEF PushPublish, PopPublish
    <2> QED BY <2>1, <2>2, <2>3, <2>4, <2>5, <2>6
  <1>4. /\ \A u \in Threads : u # t => th'[u] = th[u]
        /\ th'[t].op = th[t].op /\ th'[t].arg = th[t].arg /\ th'[t].ret = th[t].ret
        /\ \/ /\ th[t].pc \in {"load", "stamp", "cas", "full", "empty"}
              /\ th'[t].pc \in {"load", "stamp", "cas", "full", "empty"}
           \/ th[t].pc = "publish" /\ th'[t].pc = "done"
    <2>1. CASE th[t].pc = "publish" /\ Goto(t, "done")
      BY <1>1, <2>1, WentTo DEF Pcs
    <2>2. CASE \E c \in {"load", "stamp", "cas", "full", "empty"} :
                  /\ Goto(t, c) \/ (\E x \in {head, tail} : Reread(t, c, x))
                  /\ th[t].pc \in {"load", "stamp", "cas", "full", "empty"}
      <3>1. PICK c \in {"load", "stamp", "cas", "full", "empty"} :
                  /\ Goto(t, c) \/ (\E x \in {head, tail} : Reread(t, c, x))
                  /\ th[t].pc \in {"load", "stamp", "cas", "full", "empty"}
        BY <2>2
      <3>2. c \in Pcs
        BY DEF Pcs
      <3>3. CASE Goto(t, c)
        BY <1>1, <3>1, <3>2, <3>3, WentTo
      <3>4. CASE \E x \in {head, tail} : Reread(t, c, x)
        <4>1. PICK x \in {head, tail} : Reread(t, c, x)
          BY <3>4
        <4>2. x \in Nat
          BY <1>1
        <4> QED BY <1>1, <3>1, <3>2, <4>1, <4>2, ReadAgain
      <3> QED BY <3>1, <3>3, <3>4
    <2> QED BY <1>3, <2>1, <2>2
  <1>5. /\ th[t].pc \notin Bring \cup Holding /\ th'[t].pc \notin Bring \cup Holding
        /\ th[t].pc \in Effective <=> th'[t].pc \in Effective
    BY <1>4 DEF Bring, Holding, Effective
  <1> QED BY <1>2, <1>4, <1>5, QuietUnseen

\* The eviction has appended already when tail follows head.
LEMMA ForceTailImplements ==
  ASSUME QueueInv, QueueInv', NEW t \in Threads, ForceTail(t)
  PROVE  [Abstract!Next]_(Abstract!absVars)
  <1> DEFINE f == th
             g == th'
             h == Ord(head)
             n == Ord(tail)
             m == Ord(tail')
             w == value'
             su == stamp'
  <1>1. /\ h \in Nat /\ n \in Nat /\ f \in [Threads -> Calls] /\ value \in [Slots -> Items]
        /\ Shared(f, h, n, stamp, value) /\ n <= MaxOps
    BY StateIs DEF Items
  <1>0. head' = head /\ value' = value /\ Goto(t, "forceSwap") /\ f[t].pc = "forceTail"
        /\ tail' = Advance(f[t].pos)
    BY DEF ForceTail
  <1>2. /\ g \in [Threads -> Calls] /\ w \in [Slots -> Items] /\ Shared(g, h, m, su, w)
        /\ m \in Nat
    BY <1>0, ThenIs
  <1>3. Contents = List(f, h, n, value) /\ Contents' = List(g, h, m, w)
    BY <1>0, SeeNow, SeeThen
  <1>4. /\ \A u \in Threads : u # t => g[u] = f[u]
        /\ g[t].pc = "forceSwap" /\ g[t].op = f[t].op /\ g[t].pos = f[t].pos
        /\ g[t].arg = f[t].arg /\ g[t].ret = f[t].ret
    <2>1. "forceSwap" \in Pcs
      BY DEF Pcs
    <2> QED BY <1>0, <1>1, <2>1, WentTo
  <1>5. f[t].pos = At(n) /\ \A u \in Forcing(f) : u = t
    <2>1. t \in Forcing(f)
      BY <1>0 DEF Forcing
    <2> QED BY <1>1, <2>1, BackIs
  <1>6. m = n + 1
    <2>1. tail' = At(n + 1)
      BY <1>0, <1>1, <1>5, AtMoves
    <2>2. n + 1 \in 0 .. Top
      BY <1>1, CountsIs
    <2> QED BY <2>1, <2>2, OrdIs
  <1>7. Forcing(g) = {} /\ Forcing(f) # {}
    BY <1>0, <1>4, <1>5 DEF Forcing
  <1>8. Back(g, m) = Back(f, n)
    BY <1>6, <1>7 DEF Back
  <1>9. \A k \in Nat : h <= k /\ k < Back(f, n) => Kept(f[t], g[t], value, w, k)
    BY <1>0, <1>4 DEF Kept, Brings, Bring
  <1>10. \A u \in Threads : u # t => Observed(u)' = Observed(u)
    BY <1>0, <1>4, OthersSeen
  <1>11. Observed(t)' = Observed(t)
    <2>1. Observed(t) = Obs(f[t], value) /\ Observed(t)' = Obs(g[t], w)
      BY SeeNow, SeeThen
    <2>2. (f[t].pc \in Effective) = (g[t].pc \in Effective)
      BY <1>0, <1>4 DEF Effective
    <2>3. Obs(g[t], w) = Obs(f[t], value)
      BY <1>0, <1>4, <2>2 DEF Obs, Holding
    <2> QED BY <2>1, <2>3
  <1> HIDE DEF f, g, h, n, m, w, su
  <1>12. List(g, h, m, w) = List(f, h, n, value)
    BY <1>1, <1>2, <1>4, <1>8, <1>9, ListSame
  <1>13. Contents' = Contents
    BY <1>3, <1>12
  <1> QED BY <1>10, <1>11, <1>13, Unseen

\* The writes to the slots move an element between a thread and the slot it won.
LEMMA ValueImplements ==
  ASSUME QueueInv, QueueInv', NEW t \in Threads, PushWrite(t) \/ ForceSwap(t) \/ PopRead(t)
  PROVE  [Abstract!Next]_(Abstract!absVars)
  <1> DEFINE f == th
             g == th'
             h == Ord(head)
             n == Ord(tail)
             p == Ord(th[t].pos)
             w == value'
             su == stamp'
  <1>1. /\ h \in Nat /\ n \in Nat /\ f \in [Threads -> Calls] /\ value \in [Slots -> Items]
        /\ Shared(f, h, n, stamp, value) /\ n <= MaxOps
        /\ ThreadOk(f[t], h, n, stamp, value)
    BY StateIs DEF Items
  <1>2. /\ f[t].pc \in {"write", "forceSwap", "read"}
        /\ UNCHANGED <<head, tail>> /\ "publish" \in Pcs
        /\ value' = [value EXCEPT ![slot(t)] = IF f[t].pc = "read" THEN None ELSE f[t].arg]
        /\ \/ f[t].pc = "write" /\ Goto(t, "publish")
           \/ /\ f[t].pc # "write"
              /\ th' = [th EXCEPT ![t].pc = "publish", ![t].ret = value[slot(t)]]
    BY DEF PushWrite, ForceSwap, PopRead, Pcs
  <1>3. /\ g \in [Threads -> Calls] /\ w \in [Slots -> Items] /\ Shared(g, h, n, su, w)
    BY <1>2, ThenIs
  <1>4. Contents = List(f, h, n, value) /\ Contents' = List(g, h, n, w)
    BY <1>2, SeeNow, SeeThen
  <1>5. /\ slot(t) = Cell(p) /\ slot(t) \in Slots /\ Cell(Place(f[t])) = slot(t)
        /\ f[t].pos \in Words /\ p \in 0 .. Top /\ slot(t) = Index(f[t].pos)
    BY <1>2, ThreadIs DEF slot
  <1>6. /\ \A u \in Threads : u # t => g[u] = f[u]
        /\ g[t].pc = "publish" /\ g[t].op = f[t].op /\ g[t].pos = f[t].pos
        /\ g[t].arg = f[t].arg
        /\ g[t].ret = IF f[t].pc = "write" THEN f[t].ret ELSE value[slot(t)]
    <2>1. CASE f[t].pc = "write" /\ Goto(t, "publish")
      BY <1>1, <1>2, <2>1, WentTo
    <2>2. CASE /\ f[t].pc # "write"
               /\ th' = [th EXCEPT ![t].pc = "publish", ![t].ret = value[slot(t)]]
      <3>1. value[slot(t)] \in Values \cup {None}
        BY <1>1, <1>5 DEF Items
      <3> QED BY <1>1, <1>2, <2>2, <3>1, Answered
    <2> QED BY <1>2, <2>1, <2>2
  <1>7. f[t].pc \in Owning /\ OwnerOk(f[t], h, n, stamp, value) /\ ShapeOk(f[t])
    BY <1>1, <1>2 DEF ThreadOk, Owning
  <1>8. /\ w[Cell(p)] = IF f[t].pc = "read" THEN None ELSE f[t].arg
        /\ \A j \in Slots : j # Cell(Place(f[t])) => w[j] = value[j]
    BY <1>1, <1>2, <1>5
  <1>9. \A u \in Threads : u # t => Observed(u)' = Observed(u)
    BY <1>6, <1>7, <1>8, OthersSeen
  <1>10. Observed(t)' = Observed(t)
    <2>1. Observed(t) = Obs(f[t], value) /\ Observed(t)' = Obs(g[t], w)
      BY SeeNow, SeeThen
    <2>2. (f[t].pc \in Effective) = (g[t].pc \in Effective)
      BY <1>2, <1>6 DEF Effective
    <2>3. Obs(g[t], w) = Obs(f[t], value)
      BY <1>2, <1>5, <1>6, <2>2 DEF Obs, Holding
    <2> QED BY <2>1, <2>3
  <1>11. Forcing(g) = Forcing(f)
    BY <1>2, <1>6 DEF Forcing
  <1>12. Back(g, n) = Back(f, n)
    BY <1>11 DEF Back
  <1> HIDE DEF f, g, h, n, p, w, su
  <1>13. /\ Back(f, n) \in Nat /\ Back(f, n) <= h + Cap /\ Back(f, n) <= n + 1
         /\ (Back(f, n) # n => \E u \in Forcing(f) : Place(f[u]) = n /\ f[u].pc \in Owning)
    BY <1>1, BackIs DEF Back
  <1>14. \A k \in Nat : h <= k /\ k < Back(f, n) => Kept(f[t], g[t], value, w, k)
    <2> SUFFICES ASSUME NEW k \in Nat, h <= k, k < Back(f, n)
                 PROVE  Kept(f[t], g[t], value, w, k)
      OBVIOUS
    <2>1. /\ k \in 0 .. Top /\ k \in h .. h + Cap - 1 /\ k <= n
      BY <1>1, <1>13, CountsIs
    <2>2. ~Brings(g[t], k)
      BY <1>6 DEF Brings, Bring
    <2>3. Cell(k) \in Slots
      BY AtIs DEF Slots
    <2>4. Cell(k) = Cell(Place(f[t])) => k = Place(f[t])
      BY <1>1, <1>7, <2>1, OwnerPlace
    <2>5. CASE f[t].pc = "read"
      <3>1. ~Brings(f[t], k)
        BY <2>5 DEF Brings, Bring
      <3>2. k # Place(f[t])
        <4> SUFFICES ASSUME k = Place(f[t]) PROVE FALSE
          OBVIOUS
        <4>1. f[t].op = "pop" /\ n <= k
          BY <1>7, <2>5 DEF ShapeOk, OwnerOk
        <4>2. k = n /\ Back(f, n) # n
          BY <1>1, <1>13, <2>1, <4>1
        <4>3. PICK u \in Forcing(f) : Place(f[u]) = n /\ f[u].pc \in Owning
          BY <1>13, <4>2
        <4>4. u # t /\ u \in Threads
          BY <2>5, <4>3 DEF Forcing
        <4> QED BY <1>1, <1>7, <4>2, <4>3, <4>4 DEF Shared, OwnersApart
      <3>3. w[Cell(k)] = value[Cell(k)]
        BY <1>8, <2>3, <2>4, <3>2
      <3> QED BY <2>2, <3>1, <3>3 DEF Kept
    <2>6. CASE f[t].pc # "read"
      <3>1. f[t].pc \in Bring /\ Place(f[t]) = p
        BY <1>2, <1>7, <2>6 DEF Bring, ShapeOk, Place, Pushing, p, f
      <3>2. Brings(f[t], k) <=> p = k
        BY <1>5, <2>1, <3>1, BringsIs DEF p, f
      <3>3. CASE k = p
        BY <1>8, <2>2, <2>6, <3>2, <3>3 DEF Kept
      <3>4. CASE k # p
        <4>1. w[Cell(k)] = value[Cell(k)]
          BY <1>8, <2>3, <2>4, <3>1, <3>4
        <4> QED BY <2>2, <3>2, <3>4, <4>1 DEF Kept
      <3> QED BY <3>3, <3>4
    <2> QED BY <2>5, <2>6
  <1>15. List(g, h, n, w) = List(f, h, n, value)
    BY <1>1, <1>3, <1>6, <1>12, <1>14, ListSame
  <1>16. Contents' = Contents
    BY <1>4, <1>15
  <1> QED BY <1>9, <1>10, <1>16, Unseen

\* A step in which the operation of t takes effect and answers r.
LEMMA EffectIs ==
  ASSUME NEW t \in Threads, NEW r, th[t].pc \notin Effective, th[t].op # "none",
         \A u \in Threads : u # t => Observed(u)' = Observed(u),
         Observed(t)' = [op |-> th[t].op, arg |-> th[t].arg, done |-> TRUE, ret |-> r],
         \/ /\ th[t].op \in Pushing /\ Len(Contents) < Cap /\ r = None
            /\ Contents' = Append(Contents, th[t].arg)
         \/ /\ th[t].op = "push" /\ Len(Contents) = Cap /\ r = th[t].arg
            /\ Contents' = Contents
         \/ /\ th[t].op = "force" /\ Len(Contents) = Cap /\ r = Head(Contents)
            /\ Contents' = Append(Tail(Contents), th[t].arg)
         \/ /\ th[t].op = "pop" /\ Contents # <<>> /\ r = Head(Contents)
            /\ Contents' = Tail(Contents)
         \/ /\ th[t].op = "pop" /\ Contents = <<>> /\ r = None
            /\ Contents' = Contents
  PROVE  [Abstract!Next]_(Abstract!absVars)
  <1> DEFINE c == [u \in Threads |-> Observed(u)]
  <1>1. Abstract!Ends(t, r)
    BY EndsIs
  <1>2. c[t].op = th[t].op /\ c[t].arg = th[t].arg /\ ~c[t].done
    BY DEF Observed, Effective
  <1> HIDE DEF c
  <1>3. Abstract!TakeEffect(t)
    <2>1. CASE /\ th[t].op \in Pushing /\ Len(Contents) < Cap /\ r = None
               /\ Contents' = Append(Contents, th[t].arg)
      BY <1>1, <1>2, <2>1 DEF Abstract!TakeEffect, c, Pushing
    <2>2. CASE /\ th[t].op = "push" /\ Len(Contents) = Cap /\ r = th[t].arg
               /\ Contents' = Contents
      BY <1>1, <1>2, <2>2 DEF Abstract!TakeEffect, c
    <2>3. CASE /\ th[t].op = "force" /\ Len(Contents) = Cap /\ r = Head(Contents)
               /\ Contents' = Append(Tail(Contents), th[t].arg)
      BY <1>1, <1>2, <2>3 DEF Abstract!TakeEffect, c
    <2>4. CASE /\ th[t].op = "pop" /\ Contents # <<>> /\ r = Head(Contents)
               /\ Contents' = Tail(Contents)
      BY <1>1, <1>2, <2>4 DEF Abstract!TakeEffect, c
    <2>5. CASE /\ th[t].op = "pop" /\ Contents = <<>> /\ r = None
               /\ Contents' = Contents
      BY <1>1, <1>2, <2>5 DEF Abstract!TakeEffect, c
    <2> QED BY <2>1, <2>2, <2>3, <2>4, <2>5
  <1> QED BY <1>3 DEF Abstract!Next

\* push and force_push take effect when they win the position at the tail.
LEMMA PushCasImplements ==
  ASSUME QueueInv, QueueInv', NEW t \in Threads, PushCas(t), tail = th[t].pos
  PROVE  [Abstract!Next]_(Abstract!absVars)
  <1> DEFINE f == th
             g == th'
             h == Ord(head)
             n == Ord(tail)
             m == Ord(tail')
             w == value'
             su == stamp'
  <1>1. /\ h \in Nat /\ n \in Nat /\ f \in [Threads -> Calls] /\ value \in [Slots -> Items]
        /\ Shared(f, h, n, stamp, value) /\ n <= MaxOps /\ h <= n
        /\ ThreadOk(f[t], h, n, stamp, value)
    BY StateIs DEF Items
  <1>2. /\ Ord(f[t].pos) = n /\ n < h + Cap /\ tail' = At(n + 1)
        /\ \A u \in Threads : f[u].pc \in Owning => Place(f[u]) # n
        /\ \A u \in Threads : u # t => g[u] = f[u]
        /\ g[t].pc = "write" /\ g[t].op = f[t].op /\ g[t].pos = f[t].pos
        /\ g[t].arg = f[t].arg /\ g[t].ret = f[t].ret
        /\ f[t].pc = "cas" /\ f[t].op \in Pushing
        /\ head' = head /\ value' = value
    BY WonTail
  <1>3. /\ g \in [Threads -> Calls] /\ w \in [Slots -> Items] /\ Shared(g, h, m, su, w)
        /\ m \in Nat
    BY <1>2, ThenIs
  <1>4. Contents = List(f, h, n, value) /\ Contents' = List(g, h, m, w)
    BY <1>2, SeeNow, SeeThen
  <1>5. m = n + 1
    <2>1. n + 1 \in 0 .. Top
      BY <1>1, CountsIs
    <2> QED BY <1>2, <2>1, OrdIs
  <1>6. \A u \in Threads : u # t => Observed(u)' = Observed(u)
    BY <1>2, OthersSeen
  <1>7. f[t].ret = None
    BY <1>1, <1>2 DEF ThreadOk, ShapeOk
  <1>8. Observed(t)' = [op |-> f[t].op, arg |-> f[t].arg, done |-> TRUE, ret |-> None]
    <2>1. Observed(t)' = Obs(g[t], w)
      BY SeeThen
    <2>2. (g[t].pc \in Effective) = TRUE /\ g[t].pc \notin Holding
      BY <1>2 DEF Effective, Holding
    <2> QED BY <1>2, <1>7, <2>1, <2>2 DEF Obs
  <1>0. f[t].pos = At(n) /\ f[t].pos \in Words
    BY <1>1, <1>2, StateIs DEF QueueInv, TypeOK
  <1>13. f[t].pc \notin Effective /\ f[t].op # "none" /\ Len(Contents) = Len(List(f, h, n, value))
    BY <1>2, <1>4 DEF Effective, Pushing
  <1>14. f = th
    OBVIOUS
  <1> HIDE DEF f, g, h, n, m, w, su
  <1>9. Forcing(f) = {}
    <2>1. \A u \in Forcing(f) : u \in Threads /\ Place(f[u]) = n /\ f[u].pc \in Owning
      BY <1>1, BackIs DEF Forcing
    <2> QED BY <1>2, <2>1
  <1>10. Forcing(g) = {}
    BY <1>2, <1>9 DEF Forcing
  <1>11. Stay(Elements(f, value), Elements(g, w), h, n)
    <2> SUFFICES ASSUME NEW k \in Nat, h <= k, k < n
                 PROVE  Elements(g, w)[k] = Elements(f, value)[k]
      BY DEF Stay
    <2>1. k \in 0 .. Top /\ g[t].pos \in Words
      BY <1>0, <1>1, <1>2, CountsIs
    <2>2. ~Brings(g[t], k)
      <3>1. Brings(g[t], k) <=> g[t].pc \in Bring /\ Ord(g[t].pos) = k
        BY <2>1, BringsIs
      <3> QED BY <1>1, <1>2, <3>1
    <2>3. ~Brings(f[t], k)
      BY <1>2 DEF Brings, Bring
    <2>4. Kept(f[t], g[t], value, w, k)
      BY <1>2, <2>2, <2>3 DEF Kept, w
    <2> QED BY <1>1, <1>2, <1>3, <2>4, ElementMove
  <1>12. Elements(g, w)[n] = f[t].arg
    <2>1. Elements(g, w)[n] = Element(g, w, At(n))
      BY <1>1 DEF Elements
    <2>2. g[t].pc \in Bring /\ g[t].pos = At(n)
      BY <1>0, <1>2 DEF Bring
    <2>3. Element(g, w, At(n)) = g[t].arg
      BY <1>1, <1>3, <2>2, ElementIs
    <2> QED BY <1>2, <2>1, <2>3
  <1>15. /\ List(g, h, m, w) = Append(List(f, h, n, value), Elements(g, w)[n])
         /\ Len(List(f, h, n, value)) = n - h
    <2> DEFINE e == Elements(f, value)
               d == Elements(g, w)
    <2>1. (\A k \in Nat : e[k] \in Items) /\ (\A k \in Nat : d[k] \in Items)
      BY <1>1, <1>3, ListIs
    <2>2. List(f, h, n, value) = Run(e, h, n) /\ List(g, h, m, w) = Run(d, h, n + 1)
      BY <1>5, <1>9, <1>10 DEF Back, List
    <2> HIDE DEF e, d
    <2>3. Run(d, h, n + 1) = Append(Run(e, h, n), d[n]) /\ Len(Run(e, h, n)) = n - h
      BY <1>1, <1>11, <2>1, RunPush DEF e, d
    <2> QED BY <2>2, <2>3 DEF d
  <1>16. Contents' = Append(Contents, f[t].arg) /\ Len(Contents) < Cap
    <2>1. n - h < Cap
      BY <1>1, <1>2, CountsIs
    <2> QED BY <1>4, <1>5, <1>12, <1>13, <1>15, <2>1
  <1>17. /\ th[t].pc \notin Effective /\ th[t].op # "none" /\ th[t].op \in Pushing
         /\ Contents' = Append(Contents, th[t].arg) /\ Len(Contents) < Cap
         /\ Observed(t)' = [op |-> th[t].op, arg |-> th[t].arg, done |-> TRUE, ret |-> None]
    BY <1>2, <1>8, <1>13, <1>14, <1>16
  <1> QED BY <1>6, <1>17, EffectIs

\* pop takes effect when it wins the position at the head.
LEMMA PopCasImplements ==
  ASSUME QueueInv, QueueInv', NEW t \in Threads, PopCas(t), head = th[t].pos
  PROVE  [Abstract!Next]_(Abstract!absVars)
  <1> DEFINE f == th
             g == th'
             h == Ord(head)
             i == Ord(head')
             n == Ord(tail)
             w == value'
             su == stamp'
  <1>1. /\ h \in Nat /\ n \in Nat /\ f \in [Threads -> Calls] /\ value \in [Slots -> Items]
        /\ Shared(f, h, n, stamp, value) /\ n <= MaxOps /\ h <= n
    BY StateIs DEF Items
  <1>2. /\ Ord(f[t].pos) = h /\ h < n /\ head' = At(h + 1)
        /\ \A u \in Threads : f[u].pc \in Owning => Place(f[u]) # h
        /\ \A u \in Threads : u # t => g[u] = f[u]
        /\ g[t].pc = "read" /\ g[t].op = f[t].op /\ g[t].pos = f[t].pos
        /\ g[t].arg = f[t].arg
        /\ f[t].pc = "cas" /\ f[t].op = "pop"
        /\ tail' = tail /\ value' = value
    BY WonHead
  <1>3. /\ g \in [Threads -> Calls] /\ w \in [Slots -> Items] /\ Shared(g, i, n, su, w)
    BY <1>2, ThenIs
  <1>4. Contents = List(f, h, n, value) /\ Contents' = List(g, i, n, w)
    BY <1>2, SeeNow, SeeThen
  <1>5. i = h + 1
    <2>1. h + 1 \in 0 .. Top
      BY <1>1, <1>2, CountsIs
    <2> QED BY <1>2, <2>1, OrdIs
  <1>6. \A u \in Threads : u # t => Observed(u)' = Observed(u)
    BY <1>2, OthersSeen
  <1>0. f[t].pos = At(h) /\ Index(f[t].pos) = Cell(h) /\ h \in 0 .. Top
    BY <1>1, <1>2, StateIs, AtMoves
  <1>8. Observed(t)' = [op |-> f[t].op, arg |-> f[t].arg, done |-> TRUE, ret |-> value[Cell(h)]]
    <2>1. Observed(t)' = Obs(g[t], w)
      BY SeeThen
    <2>2. (g[t].pc \in Effective) = TRUE /\ g[t].pc \in Holding
      BY <1>2 DEF Effective, Holding
    <2> QED BY <1>0, <1>2, <2>1, <2>2 DEF Obs
  <1>14. f = th
    OBVIOUS
  <1> HIDE DEF f, g, h, n, i, w, su
  <1>9. Back(g, n) = Back(f, n) /\ h < Back(f, n)
    <2>1. Forcing(g) = Forcing(f)
      BY <1>2 DEF Forcing
    <2> QED BY <1>1, <1>2, <2>1, BackIs DEF Back
  <1>11. Stay(Elements(f, value), Elements(g, w), i, Back(f, n))
    <2> SUFFICES ASSUME NEW k \in Nat
                 PROVE  Elements(g, w)[k] = Elements(f, value)[k]
      BY DEF Stay
    <2>1. Kept(f[t], g[t], value, w, k)
      BY <1>2 DEF Kept, Brings, Bring, w
    <2>2. i \in Nat
      BY <1>1, <1>5
    <2> QED BY <1>1, <1>2, <1>3, <2>1, <2>2, ElementMove
  <1>12. Elements(f, value)[h] = value[Cell(h)]
    <2>1. Elements(f, value)[h] = Element(f, value, At(h))
      BY <1>1, ListIs
    <2>2. ASSUME NEW u \in Threads, f[u].pc \in Bring, f[u].pos = At(h)
          PROVE  FALSE
      <3>1. f[u].pc \in Owning
        BY <2>2 DEF Bring, Owning
      <3>2. f[u].op # "pop"
        BY <1>1, <2>2 DEF Shared, ThreadOk, ShapeOk, Bring, Pushing
      <3>3. Place(f[u]) = h
        BY <1>0, <2>2, <3>2, OrdIs DEF Place
      <3> QED BY <1>2, <3>1, <3>3
    <2>3. \A u \in Threads : ~(f[u].pc \in Bring /\ f[u].pos = At(h))
      BY <2>2
    <2>4. Element(f, value, At(h)) = value[Cell(h)]
      BY <1>1, <2>3, ElementIs
    <2> QED BY <2>1, <2>4
  <1>15. /\ List(g, i, n, w) = Tail(List(f, h, n, value))
         /\ List(f, h, n, value) # <<>>
         /\ Head(List(f, h, n, value)) = Elements(f, value)[h]
    <2> DEFINE e == Elements(f, value)
               d == Elements(g, w)
               b == Back(f, n)
    <2>1. (\A k \in Nat : e[k] \in Items) /\ b \in Nat
      BY <1>1, ListIs, BackIs
    <2>2. List(f, h, n, value) = Run(e, h, b) /\ List(g, i, n, w) = Run(d, h + 1, b)
      BY <1>5, <1>9 DEF List
    <2>3. Stay(e, d, h + 1, b) /\ h < b
      BY <1>5, <1>9, <1>11
    <2> HIDE DEF e, d, b
    <2>4. /\ Run(d, h + 1, b) = Tail(Run(e, h, b))
          /\ Run(e, h, b) # <<>> /\ Head(Run(e, h, b)) = e[h]
      BY <1>1, <2>1, <2>3, RunPop
    <2> QED BY <2>2, <2>4 DEF e
  <1>17. /\ th[t].pc \notin Effective /\ th[t].op # "none" /\ th[t].op = "pop"
         /\ Contents' = Tail(Contents) /\ Contents # <<>> /\ Head(Contents) = value[Cell(h)]
         /\ Observed(t)' = [op |-> th[t].op, arg |-> th[t].arg, done |-> TRUE,
                            ret |-> value[Cell(h)]]
    BY <1>2, <1>4, <1>5, <1>8, <1>12, <1>14, <1>15 DEF Effective
  <1> QED BY <1>6, <1>17, EffectIs

\* force_push takes effect on a full queue when it wins the position at the head.
LEMMA ForceHeadImplements ==
  ASSUME QueueInv, QueueInv', NEW t \in Threads, ForceHead(t), head = SubLap(th[t].pos)
  PROVE  [Abstract!Next]_(Abstract!absVars)
  <1> DEFINE f == th
             g == th'
             h == Ord(head)
             i == Ord(head')
             n == Ord(tail)
             w == value'
             su == stamp'
  <1>1. /\ h \in Nat /\ n \in Nat /\ f \in [Threads -> Calls] /\ value \in [Slots -> Items]
        /\ Shared(f, h, n, stamp, value) /\ n <= MaxOps /\ h <= n
    BY StateIs DEF Items
  <1>2. /\ Ord(f[t].pos) = n /\ h < n /\ n = h + Cap /\ head' = At(h + 1)
        /\ \A u \in Threads : f[u].pc \in Owning => Place(f[u]) # h
        /\ \A u \in Threads : u # t => g[u] = f[u]
        /\ g[t].pc = "forceTail" /\ g[t].op = f[t].op /\ g[t].pos = f[t].pos
        /\ g[t].arg = f[t].arg /\ f[t].pos \in Words /\ Cell(n) = Cell(h)
        /\ f[t].pc = "full" /\ f[t].op = "force"
        /\ tail' = tail /\ value' = value
    BY WonForce
  <1>3. /\ g \in [Threads -> Calls] /\ w \in [Slots -> Items] /\ Shared(g, i, n, su, w)
    BY <1>2, ThenIs
  <1>4. Contents = List(f, h, n, value) /\ Contents' = List(g, i, n, w)
    BY <1>2, SeeNow, SeeThen
  <1>5. i = h + 1
    <2>1. h + 1 \in 0 .. Top
      BY <1>1, <1>2, CountsIs
    <2> QED BY <1>2, <2>1, OrdIs
  <1>6. \A u \in Threads : u # t => Observed(u)' = Observed(u)
    BY <1>2, OthersSeen
  <1>0. f[t].pos = At(n) /\ Index(f[t].pos) = Cell(h) /\ h \in 0 .. Top /\ n \in 0 .. Top
    BY <1>1, <1>2, StateIs, OrdIs
  <1>8. Observed(t)' = [op |-> f[t].op, arg |-> f[t].arg, done |-> TRUE, ret |-> value[Cell(h)]]
    <2>1. Observed(t)' = Obs(g[t], w)
      BY SeeThen
    <2>2. (g[t].pc \in Effective) = TRUE /\ g[t].pc \in Holding
      BY <1>2 DEF Effective, Holding
    <2> QED BY <1>0, <1>2, <2>1, <2>2 DEF Obs
  <1>14. f = th
    OBVIOUS
  <1> HIDE DEF f, g, h, n, i, w, su
  <1>9. Back(f, n) = n /\ Back(g, n) = n + 1
    <2>1. \A u \in Forcing(f) : n < h + Cap
      BY <1>1, BackIs
    <2>2. Forcing(f) = {} /\ t \in Forcing(g)
      BY <1>1, <1>2, <2>1, CountsIs DEF Forcing
    <2> QED BY <2>2 DEF Back
  <1>10. i \in Nat
    BY <1>1, <1>5
  <1>11. Stay(Elements(f, value), Elements(g, w), i, n)
    <2> SUFFICES ASSUME NEW k \in Nat, i <= k, k < n
                 PROVE  Elements(g, w)[k] = Elements(f, value)[k]
      BY DEF Stay
    <2>1. k \in 0 .. Top /\ g[t].pos \in Words
      BY <1>1, <1>2, CountsIs
    <2>2. ~Brings(g[t], k)
      <3>1. Brings(g[t], k) <=> g[t].pc \in Bring /\ Ord(g[t].pos) = k
        BY <2>1, BringsIs
      <3>2. Ord(g[t].pos) = n /\ k # n
        BY <1>1, <1>2
      <3> QED BY <3>1, <3>2
    <2>3. ~Brings(f[t], k)
      BY <1>2 DEF Brings, Bring
    <2>4. Kept(f[t], g[t], value, w, k)
      BY <1>2, <2>2, <2>3 DEF Kept, w
    <2>5. \A u \in Threads : u # t => g[u] = f[u]
      BY <1>2
    <2>6. /\ h \in Nat /\ n \in Nat /\ f \in [Threads -> Calls] /\ value \in [Slots -> Items]
          /\ Shared(f, h, n, stamp, value)
      BY <1>1
    <2> QED BY ONLY <1>3, <1>10, <2>4, <2>5, <2>6, ElementMove, k \in Nat, t \in Threads
  <1>12. Elements(f, value)[h] = value[Cell(h)]
    <2>1. Elements(f, value)[h] = Element(f, value, At(h))
      BY <1>1 DEF Elements
    <2>2. ASSUME NEW u \in Threads, f[u].pc \in Bring, f[u].pos = At(h)
          PROVE  FALSE
      <3>1. f[u].pc \in Owning
        BY <2>2 DEF Bring, Owning
      <3>2. f[u].op # "pop"
        BY <1>1, <2>2 DEF Shared, ThreadOk, ShapeOk, Bring, Pushing
      <3>3. Place(f[u]) = h
        BY <1>0, <2>2, <3>2, OrdIs DEF Place
      <3> QED BY <1>2, <3>1, <3>3
    <2>3. \A u \in Threads : ~(f[u].pc \in Bring /\ f[u].pos = At(h))
      BY <2>2
    <2>4. Element(f, value, At(h)) = value[Cell(h)]
      BY <1>1, <2>3, ElementIs
    <2> QED BY <2>1, <2>4
  <1>13. Elements(g, w)[n] = f[t].arg
    <2>1. Elements(g, w)[n] = Element(g, w, At(n))
      BY <1>1 DEF Elements
    <2>2. g[t].pc \in Bring /\ g[t].pos = At(n)
      BY <1>0, <1>2 DEF Bring
    <2>3. Element(g, w, At(n)) = g[t].arg
      BY <1>1, <1>3, <1>10, <2>2, ElementIs
    <2> QED BY <1>2, <2>1, <2>3
  <1>15. /\ List(g, i, n, w) = Append(Tail(List(f, h, n, value)), Elements(g, w)[n])
         /\ Len(List(f, h, n, value)) = n - h
         /\ Head(List(f, h, n, value)) = Elements(f, value)[h]
    <2> DEFINE e == Elements(f, value)
               d == Elements(g, w)
    <2>1. (\A k \in Nat : e[k] \in Items) /\ (\A k \in Nat : d[k] \in Items)
      BY <1>1, <1>3, <1>10, ListIs
    <2>2. List(f, h, n, value) = Run(e, h, n) /\ List(g, i, n, w) = Run(d, h + 1, n + 1)
      BY <1>5, <1>9 DEF List
    <2>3. Stay(e, d, h + 1, n)
      BY <1>5, <1>11
    <2> HIDE DEF e, d
    <2>4. /\ Run(d, h + 1, n + 1) = Append(Tail(Run(e, h, n)), d[n])
          /\ Len(Run(e, h, n)) = n - h /\ Head(Run(e, h, n)) = e[h]
      BY <1>1, <1>2, <2>1, <2>3, RunForce
    <2> QED BY <2>2, <2>4 DEF e, d
  <1>16. n - h = Cap
    BY <1>1, <1>2, CountsIs
  <1>17. /\ th[t].pc \notin Effective /\ th[t].op # "none" /\ th[t].op = "force"
         /\ Contents' = Append(Tail(Contents), th[t].arg) /\ Len(Contents) = Cap
         /\ Head(Contents) = value[Cell(h)]
         /\ Observed(t)' = [op |-> th[t].op, arg |-> th[t].arg, done |-> TRUE,
                            ret |-> value[Cell(h)]]
    BY <1>2, <1>4, <1>8, <1>12, <1>13, <1>14, <1>15, <1>16 DEF Effective
  <1> QED BY <1>6, <1>17, EffectIs

\* push refuses only while the queue is full.
LEMMA PushFullImplements ==
  ASSUME QueueInv, QueueInv', NEW t \in Threads, PushFull(t), AddLap(head) = th[t].pos
  PROVE  [Abstract!Next]_(Abstract!absVars)
  <1> DEFINE h == Ord(head)
             n == Ord(tail)
             p == Ord(th[t].pos)
  <1>1. /\ h \in Nat /\ n \in Nat /\ th \in [Threads -> Calls] /\ value \in [Slots -> Items]
        /\ Shared(th, h, n, stamp, value) /\ n <= MaxOps /\ h <= n /\ n <= h + Cap
        /\ ThreadOk(th[t], h, n, stamp, value) /\ head = At(h)
    BY StateIs DEF Items
  <1>2. /\ th[t].pc = "full" /\ th[t].op = "push"
        /\ th' = [th EXCEPT ![t].pc = "done", ![t].ret = th[t].arg]
        /\ UNCHANGED <<head, tail, value>> /\ "done" \in Pcs
    BY DEF PushFull, Pcs
  <1>3. th[t].arg \in Values
    BY <1>1, <1>2 DEF ThreadOk, ShapeOk, Pushing
  <1>4. /\ \A u \in Threads : u # t => th'[u] = th[u]
        /\ th'[t].pc = "done" /\ th'[t].op = th[t].op /\ th'[t].arg = th[t].arg
        /\ th'[t].ret = th[t].arg
    BY <1>1, <1>2, <1>3, Answered
  <1>5. /\ Contents' = Contents
        /\ \A u \in Threads : u # t => Observed(u)' = Observed(u)
    BY <1>2, <1>4, QuietStep DEF Bring
  <1>6. Observed(t)' = [op |-> th[t].op, arg |-> th[t].arg, done |-> TRUE, ret |-> th[t].arg]
    <2>1. Observed(t)' = Obs(th'[t], value')
      BY SeeThen
    <2>2. (th'[t].pc \in Effective) = TRUE /\ th'[t].pc \notin Holding
      BY <1>4 DEF Effective, Holding
    <2> QED BY <1>4, <2>1, <2>2 DEF Obs
  <1>7. n = h + Cap
    <2>1. p <= n
      BY <1>1, <1>2 DEF ThreadOk, LearntOk
    <2>2. th[t].pos = At(h + Cap)
      BY <1>1, AtMoves
    <2>3. h + Cap \in 0 .. Top
      BY <1>1, CountsIs
    <2>4. p = h + Cap
      BY <2>2, <2>3, OrdIs
    <2> QED BY <1>1, <2>1, <2>4, CountsIs
  <1>8. Contents = List(th, h, n, value)
    BY SeeNow
  <1> HIDE DEF h, n, p
  <1>9. Back(th, n) = n
    <2>1. Back(th, n) \in Nat /\ n <= Back(th, n) /\ Back(th, n) <= h + Cap
      BY <1>1, BackIs
    <2> QED BY <1>1, <1>7, <2>1, CountsIs
  <1>10. Len(Contents) = Cap
    <2> DEFINE e == Elements(th, value)
    <2>1. \A k \in Nat : e[k] \in Items
      BY <1>1, ListIs
    <2>2. Contents = Run(e, h, n)
      BY <1>8, <1>9 DEF List
    <2> HIDE DEF e
    <2>3. Len(Run(e, h, n)) = n - h
      BY <1>1, <2>1, RunIs
    <2> QED BY <1>1, <1>7, <2>2, <2>3, CountsIs
  <1>11. th[t].pc \notin Effective /\ th[t].op # "none"
    BY <1>2 DEF Effective
  <1> QED BY <1>2, <1>5, <1>6, <1>10, <1>11, EffectIs

\* pop answers None only while the queue is empty.
LEMMA PopEmptyImplements ==
  ASSUME QueueInv, QueueInv', NEW t \in Threads, PopEmpty(t), tail = th[t].pos
  PROVE  [Abstract!Next]_(Abstract!absVars)
  <1> DEFINE h == Ord(head)
             n == Ord(tail)
  <1>1. /\ h \in Nat /\ n \in Nat /\ th \in [Threads -> Calls] /\ value \in [Slots -> Items]
        /\ Shared(th, h, n, stamp, value) /\ h <= n /\ Window(h, n)
        /\ ThreadOk(th[t], h, n, stamp, value)
    BY StateIs DEF Items
  <1>2. /\ th[t].pc = "empty" /\ Goto(t, "done")
        /\ UNCHANGED <<head, tail, value>> /\ "done" \in Pcs
    BY DEF PopEmpty, Pcs
  <1>3. th[t].op = "pop" /\ th[t].ret = None
    BY <1>1, <1>2 DEF ThreadOk, ShapeOk
  <1>4. /\ \A u \in Threads : u # t => th'[u] = th[u]
        /\ th'[t].pc = "done" /\ th'[t].op = th[t].op /\ th'[t].arg = th[t].arg
        /\ th'[t].ret = None
    BY <1>1, <1>2, <1>3, WentTo
  <1>5. /\ Contents' = Contents
        /\ \A u \in Threads : u # t => Observed(u)' = Observed(u)
    BY <1>2, <1>4, QuietStep DEF Bring
  <1>6. Observed(t)' = [op |-> th[t].op, arg |-> th[t].arg, done |-> TRUE, ret |-> None]
    <2>1. Observed(t)' = Obs(th'[t], value')
      BY SeeThen
    <2>2. (th'[t].pc \in Effective) = TRUE /\ th'[t].pc \notin Holding
      BY <1>4 DEF Effective, Holding
    <2> QED BY <1>4, <2>1, <2>2 DEF Obs
  <1>7. n = h /\ stamp[Cell(n)] = At(n)
    <2>1. Ord(th[t].pos) = n /\ LearntOk(th[t], h, n, stamp)
      BY <1>1 DEF ThreadOk
    <2>2. n <= h /\ stamp[Cell(n)] = At(n)
      BY <1>2, <1>3, <2>1 DEF LearntOk
    <2> QED BY <1>1, <2>2
  <1>8. Contents = List(th, h, n, value)
    BY SeeNow
  <1> HIDE DEF h, n
  <1>9. Back(th, n) = n
    <2>1. ASSUME NEW u \in Forcing(th)
          PROVE  FALSE
      <3>1. u \in Threads /\ Place(th[u]) = n /\ th[u].pc \in Owning
        BY <1>1, BackIs DEF Forcing
      <3>2. ShapeOk(th[u]) /\ OwnerOk(th[u], h, n, stamp, value)
        BY <1>1, <3>1 DEF Shared, ThreadOk
      <3> QED BY <1>1, <1>7, <3>1, <3>2, OwnerStamp
    <2> QED BY <2>1 DEF Back
  <1>10. Contents = <<>>
    <2> DEFINE e == Elements(th, value)
    <2>1. \A k \in Nat : e[k] \in Items
      BY <1>1, ListIs
    <2>2. Contents = Run(e, h, n)
      BY <1>8, <1>9 DEF List
    <2> HIDE DEF e
    <2>3. Run(e, h, n) \in Seq(Items) /\ Len(Run(e, h, n)) = n - h
      BY <1>1, <2>1, RunIs
    <2>4. Len(Run(e, h, n)) = 0
      BY <1>1, <1>7, <2>3
    <2> QED BY <2>2, <2>3, <2>4
  <1>11. th[t].pc \notin Effective /\ th[t].op # "none"
    BY <1>2, <1>3 DEF Effective
  <1> QED BY <1>3, <1>5, <1>6, <1>10, <1>11, EffectIs

LEMMA InvokeIs ==
  ASSUME NEW t \in Threads, NEW op, NEW v, Contents' = Contents,
         \A u \in Threads : u # t => Observed(u)' = Observed(u),
         Observed(t) = [op |-> "none", arg |-> None, done |-> FALSE, ret |-> None],
         Observed(t)' = [op |-> op, arg |-> v, done |-> FALSE, ret |-> None]
  PROVE  Abstract!Invoke(t, op, v)
  <1> DEFINE c == [u \in Threads |-> Observed(u)]
             z == [op |-> op, arg |-> v, done |-> FALSE, ret |-> None]
  <1>1. c[t] = Abstract!Rest
    BY DEF Abstract!Rest
  <1>2. Observed(t)' = z
    OBVIOUS
  <1> HIDE DEF z
  <1>3. c' = [c EXCEPT ![t] = z]
    BY <1>2
  <1> QED BY <1>1, <1>3 DEF Abstract!Invoke, z

LEMMA ReturnIs ==
  ASSUME NEW t \in Threads, Contents' = Contents,
         \A u \in Threads : u # t => Observed(u)' = Observed(u),
         Observed(t).done,
         Observed(t)' = [op |-> "none", arg |-> None, done |-> FALSE, ret |-> None]
  PROVE  Abstract!Return(t)
  <1> DEFINE c == [u \in Threads |-> Observed(u)]
             z == Abstract!Rest
  <1>1. Observed(t)' = z
    BY DEF Abstract!Rest
  <1>2. c[t].done
    OBVIOUS
  <1> HIDE DEF z
  <1>3. c' = [c EXCEPT ![t] = z]
    BY <1>1
  <1> QED BY <1>2, <1>3 DEF Abstract!Return, z

\* What a thread between two operations is seen to do.
LEMMA IdleSeen ==
  ASSUME NEW vl
  PROVE  Obs(Idle, vl) = [op |-> "none", arg |-> None, done |-> FALSE, ret |-> None]
  <1>1. (Idle.pc \in Effective) = FALSE /\ Idle.pc \notin Holding
    BY DEF Idle, Effective, Holding
  <1>2. Idle.op = "none" /\ Idle.arg = None /\ Idle.ret = None
    BY DEF Idle
  <1> QED BY <1>1, <1>2 DEF Obs

LEMMA CallImplements ==
  ASSUME QueueInv, QueueInv', NEW t \in Threads, NEW op, NEW v, Call(t, op, v)
  PROVE  Abstract!Invoke(t, op, v)
  <1> DEFINE r == [Idle EXCEPT !.pc = "load", !.op = op, !.arg = v]
  <1>1. th \in [Threads -> Calls] /\ \A u \in Threads : ShapeOk(th[u])
    BY StateIs DEF ThreadOk
  <1>2. r.pc = "load" /\ r.op = op /\ r.arg = v /\ r.ret = None
    BY DEF Idle
  <1>3. /\ th[t].pc = "idle" /\ th' = [th EXCEPT ![t] = r] /\ UNCHANGED <<head, tail, value>>
    BY DEF Call
  <1> HIDE DEF r
  <1>4. th'[t] = r /\ \A u \in Threads : u # t => th'[u] = th[u]
    BY <1>1, <1>3
  <1>5. th[t] = Idle
    BY <1>1, <1>3 DEF ShapeOk
  <1>6. /\ Contents' = Contents
        /\ \A u \in Threads : u # t => Observed(u)' = Observed(u)
    <2>1. th[t].pc \notin Bring /\ th'[t].pc \notin Bring
      BY <1>2, <1>3, <1>4 DEF Bring
    <2> QED BY <1>3, <1>4, <2>1, QuietStep
  <1>7. Observed(t) = [op |-> "none", arg |-> None, done |-> FALSE, ret |-> None]
    BY <1>5, IdleSeen, SeeNow
  <1>8. Observed(t)' = [op |-> op, arg |-> v, done |-> FALSE, ret |-> None]
    <2>1. Observed(t)' = Obs(r, value')
      BY <1>4, SeeThen
    <2>2. (r.pc \in Effective) = FALSE /\ r.pc \notin Holding
      BY <1>2 DEF Effective, Holding
    <2> QED BY <1>2, <2>1, <2>2 DEF Obs
  <1> QED BY <1>6, <1>7, <1>8, InvokeIs

LEMMA ReturnImplements ==
  ASSUME QueueInv, QueueInv', NEW t \in Threads, Return(t)
  PROVE  [Abstract!Next]_(Abstract!absVars)
  <1>1. /\ th[t].pc = "done" /\ UNCHANGED <<head, tail, value>>
        /\ th' = [th EXCEPT ![t] = Idle] /\ th \in [Threads -> Calls]
    BY StateIs DEF Return
  <1>2. th'[t] = Idle /\ \A u \in Threads : u # t => th'[u] = th[u]
    BY <1>1
  <1>3. /\ Contents' = Contents
        /\ \A u \in Threads : u # t => Observed(u)' = Observed(u)
    <2>1. th[t].pc \notin Bring /\ th'[t].pc \notin Bring
      BY <1>1, <1>2 DEF Bring, Idle
    <2> QED BY <1>1, <1>2, <2>1, QuietStep
  <1>4. Observed(t).done
    BY <1>1 DEF Observed
  <1>5. Observed(t)' = [op |-> "none", arg |-> None, done |-> FALSE, ret |-> None]
    BY <1>2, IdleSeen, SeeThen
  <1>6. Abstract!Return(t)
    BY <1>3, <1>4, <1>5, ReturnIs
  <1> QED BY <1>6 DEF Abstract!Next

\* While nobody runs an operation the elements are in the slots.
LEMMA IdleList ==
  ASSUME NEW f, NEW vl \in [Slots -> Items], \A t \in Threads : f[t].pc = "idle"
  PROVE  /\ \A n : Back(f, n) = n
         /\ \A k \in Nat : Elements(f, vl)[k] = vl[Cell(k)] /\ Elements(f, vl)[k] \in Items
  <1>1. Forcing(f) = {}
    BY DEF Forcing
  <1>2. \A k \in Nat : Elements(f, vl)[k] = vl[Cell(k)] /\ Elements(f, vl)[k] \in Items
    <2> SUFFICES ASSUME NEW k \in Nat
                 PROVE  Elements(f, vl)[k] = vl[Cell(k)] /\ Elements(f, vl)[k] \in Items
      OBVIOUS
    <2>1. Bringers(f, At(k)) = {}
      BY DEF Bringers, Bring
    <2>2. Index(At(k)) = Cell(k) /\ Cell(k) \in Slots
      BY AtMoves, AtIs DEF Slots
    <2> QED BY <2>1, <2>2 DEF Elements, Element
  <1> QED BY <1>1, <1>2 DEF Back

\* A step under the only reference to the queue.
LEMMA ExclusiveIs ==
  ASSUME NEW v \in Values, UNCHANGED th,
         \A t \in Threads : th[t] = Idle,
         \/ Len(Contents) < Cap /\ Contents' = Append(Contents, v)
         \/ Contents # <<>> /\ Contents' = Tail(Contents),
         QueueInv, QueueInv'
  PROVE  [Abstract!Next]_(Abstract!absVars)
  <1> DEFINE c == [u \in Threads |-> Observed(u)]
  <1>1. \A t \in Threads : Observed(t) = Abstract!Rest /\ Observed(t)' = Abstract!Rest
    BY IdleSeen, SeeNow, SeeThen DEF Abstract!Rest
  <1>2. c' = c /\ \A t \in Threads : c[t] = Abstract!Rest
    BY <1>1
  <1> HIDE DEF c
  <1>3. Abstract!Exclusive(v)
    BY <1>2 DEF Abstract!Exclusive, c
  <1> QED BY <1>3 DEF Abstract!Next

LEMMA PushMutImplements ==
  ASSUME QueueInv, QueueInv', NEW v \in Values, PushMut(v)
  PROVE  [Abstract!Next]_(Abstract!absVars)
  <1> DEFINE h == Ord(head)
             n == Ord(tail)
             e == Elements(th, value)
             d == Elements(th, value')
  <1>1. /\ h \in Nat /\ n \in Nat /\ n <= h + Cap /\ h <= n /\ n <= MaxOps
        /\ value \in [Slots -> Items] /\ head = At(h) /\ tail = At(n)
        /\ \A t \in Threads : ShapeOk(th[t])
    BY StateIs DEF Items, ThreadOk
  <1>2. /\ \A t \in Threads : th[t].pc = "idle"
        /\ UNCHANGED <<head, th>> /\ AddLap(head) # tail /\ tail' = Advance(tail)
        /\ value' = [value EXCEPT ![Index(tail)] = v]
    BY DEF PushMut
  <1>3. \A t \in Threads : th[t] = Idle
    BY <1>1, <1>2 DEF ShapeOk
  <1>4. Index(tail) = Cell(n) /\ tail' = At(n + 1) /\ AddLap(head) = At(h + Cap)
        /\ Cell(n) \in Slots
    BY <1>1, <1>2, AtMoves, AtIs DEF Slots
  <1>5. n < h + Cap
    BY <1>1, <1>2, <1>4, CountsIs
  <1>6. Ord(tail') = n + 1
    <2>1. n + 1 \in 0 .. Top
      BY <1>1, CountsIs
    <2> QED BY <1>4, <2>1, OrdIs
  <1>7. /\ value' \in [Slots -> Items] /\ value'[Cell(n)] = v
        /\ \A j \in Slots : j # Cell(n) => value'[j] = value[j]
    BY <1>1, <1>2, <1>4 DEF Items
  <1>8. Contents = Run(e, h, n) /\ Contents' = Run(d, h, n + 1)
    <2>1. Contents = List(th, h, n, value) /\ Contents' = List(th, h, n + 1, value')
      BY <1>2, <1>6, SeeNow, SeeThen
    <2>2. Back(th, n) = n /\ Back(th, n + 1) = n + 1
      BY <1>1, <1>2, IdleList
    <2> QED BY <2>1, <2>2 DEF List
  <1>9. /\ \A k \in Nat : e[k] = value[Cell(k)] /\ e[k] \in Items
        /\ \A k \in Nat : d[k] = value'[Cell(k)] /\ d[k] \in Items
    <2>1. \A k \in Nat : e[k] = value[Cell(k)] /\ e[k] \in Items
      BY <1>1, <1>2, IdleList
    <2> DEFINE w == value'
    <2>2. w \in [Slots -> Items]
      BY <1>7
    <2> HIDE DEF w
    <2>3. \A k \in Nat : Elements(th, w)[k] = w[Cell(k)] /\ Elements(th, w)[k] \in Items
      BY <1>2, <2>2, IdleList
    <2> QED BY <2>1, <2>3 DEF w
  <1> HIDE DEF h, n, e, d
  <1>10. Stay(e, d, h, n)
    <2> SUFFICES ASSUME NEW k \in Nat, h <= k, k < n
                 PROVE  d[k] = e[k]
      BY DEF Stay
    <2>1. k < h + Cap /\ n < h + Cap /\ k # n /\ h <= n
      BY <1>1, <1>5, CountsIs
    <2>2. Cell(k) # Cell(n)
      BY <1>1, <2>1, WindowCells
    <2>3. Cell(k) \in Slots
      BY AtIs DEF Slots
    <2> QED BY <1>7, <1>9, <2>2, <2>3
  <1>11. Run(d, h, n + 1) = Append(Run(e, h, n), d[n]) /\ Len(Run(e, h, n)) = n - h
    BY <1>1, <1>9, <1>10, RunPush
  <1>12. Contents' = Append(Contents, v) /\ Len(Contents) < Cap
    <2>1. d[n] = v /\ n - h < Cap
      BY <1>1, <1>5, <1>7, <1>9, CountsIs
    <2> QED BY <1>8, <1>11, <2>1
  <1> QED BY <1>2, <1>3, <1>12, ExclusiveIs

LEMMA PopMutImplements ==
  ASSUME QueueInv, QueueInv', PopMut
  PROVE  [Abstract!Next]_(Abstract!absVars)
  <1> DEFINE h == Ord(head)
             n == Ord(tail)
             e == Elements(th, value)
             d == Elements(th, value')
  <1>1. /\ h \in Nat /\ n \in Nat /\ n <= h + Cap /\ h <= n /\ n <= MaxOps
        /\ value \in [Slots -> Items] /\ head = At(h) /\ tail = At(n)
        /\ \A t \in Threads : ShapeOk(th[t])
    BY StateIs DEF Items, ThreadOk
  <1>2. /\ \A t \in Threads : th[t].pc = "idle"
        /\ UNCHANGED <<tail, th>> /\ tail # head /\ head' = Advance(head)
        /\ value' = [value EXCEPT ![Index(head)] = None]
    BY DEF PopMut
  <1>3. \A t \in Threads : th[t] = Idle
    BY <1>1, <1>2 DEF ShapeOk
  <1>4. Index(head) = Cell(h) /\ head' = At(h + 1) /\ Cell(h) \in Slots
    BY <1>1, <1>2, AtMoves, AtIs DEF Slots
  <1>5. h < n
    BY <1>1, <1>2
  <1>6. Ord(head') = h + 1
    <2>1. h + 1 \in 0 .. Top
      BY <1>1, <1>5, CountsIs
    <2> QED BY <1>4, <2>1, OrdIs
  <1>7. /\ value' \in [Slots -> Items]
        /\ \A j \in Slots : j # Cell(h) => value'[j] = value[j]
    BY <1>1, <1>2, <1>4 DEF Items
  <1>8. Contents = Run(e, h, n) /\ Contents' = Run(d, h + 1, n)
    <2>1. Contents = List(th, h, n, value) /\ Contents' = List(th, h + 1, n, value')
      BY <1>2, <1>6, SeeNow, SeeThen
    <2>2. Back(th, n) = n
      BY <1>1, <1>2, IdleList
    <2> QED BY <2>1, <2>2 DEF List
  <1>9. /\ \A k \in Nat : e[k] = value[Cell(k)] /\ e[k] \in Items
        /\ \A k \in Nat : d[k] = value'[Cell(k)] /\ d[k] \in Items
    <2>1. \A k \in Nat : e[k] = value[Cell(k)] /\ e[k] \in Items
      BY <1>1, <1>2, IdleList
    <2> DEFINE w == value'
    <2>2. w \in [Slots -> Items]
      BY <1>7
    <2> HIDE DEF w
    <2>3. \A k \in Nat : Elements(th, w)[k] = w[Cell(k)] /\ Elements(th, w)[k] \in Items
      BY <1>2, <2>2, IdleList
    <2> QED BY <2>1, <2>3 DEF w
  <1>0. value[Cell(h)] \in Values
    <2>1. h \in h .. h + Cap - 1
      BY <1>1, CountsIs
    <2>2. SlotOk(h, n, stamp, value)
      BY <1>2, <2>1, IdleSlots
    <2> QED BY <1>5, <2>2 DEF SlotOk
  <1> HIDE DEF h, n, e, d
  <1>10. Stay(e, d, h + 1, n)
    <2> SUFFICES ASSUME NEW k \in Nat, h + 1 <= k, k < n
                 PROVE  d[k] = e[k]
      BY DEF Stay
    <2>1. k < h + Cap /\ h <= k /\ k # h /\ h < h + Cap
      BY <1>1, CountsIs
    <2>2. Cell(k) # Cell(h)
      BY <1>1, <2>1, WindowCells
    <2>3. Cell(k) \in Slots
      BY AtIs DEF Slots
    <2> QED BY <1>7, <1>9, <2>2, <2>3
  <1>11. Run(d, h + 1, n) = Tail(Run(e, h, n)) /\ Run(e, h, n) # <<>>
    BY <1>1, <1>5, <1>9, <1>10, RunPop
  <1>12. Contents' = Tail(Contents) /\ Contents # <<>>
    BY <1>8, <1>11
  <1>13. PICK v \in Values : TRUE
    BY <1>0
  <1> QED BY <1>2, <1>3, <1>12, <1>13, ExclusiveIs

LEMMA InitImplements == Init => Abstract!Init
  <1> SUFFICES ASSUME Init PROVE Abstract!Init
    OBVIOUS
  <1> DEFINE h == Ord(head)
             n == Ord(tail)
             e == Elements(th, value)
  <1>1. QueueInv
    BY QueueInit
  <1>2. head = tail /\ \A t \in Threads : th[t] = Idle
    BY DEF Init
  <1>3. h \in Nat /\ n \in Nat /\ h = n /\ value \in [Slots -> Items]
    BY <1>1, <1>2, StateIs DEF Items
  <1>4. \A t \in Threads : th[t].pc = "idle"
    BY <1>2 DEF Idle
  <1>5. Contents = Run(e, h, n)
    BY <1>1, <1>3, <1>4, IdleList, SeeNow DEF List
  <1>6. \A k \in Nat : e[k] \in Items
    BY <1>3, <1>4, IdleList
  <1> HIDE DEF h, n, e
  <1>7. Run(e, h, n) \in Seq(Items) /\ Len(Run(e, h, n)) = 0
    <2>1. h <= n /\ n - h = 0
      BY <1>3
    <2>2. Run(e, h, n) \in Seq(Items) /\ Len(Run(e, h, n)) = n - h
      BY <1>3, <1>6, <2>1, RunIs
    <2> QED BY <2>1, <2>2
  <1>8. Contents = <<>>
    BY <1>5, <1>7
  <1>9. \A t \in Threads : Observed(t) = Abstract!Rest
    BY <1>1, <1>2, IdleSeen, SeeNow DEF Abstract!Rest
  <1> QED BY <1>8, <1>9 DEF Abstract!Init

LEMMA StepImplements ==
  ASSUME QueueInv, QueueInv', NEW t \in Threads, Step(t)
  PROVE  [Abstract!Next]_(Abstract!absVars)
  <1>1. CASE \/ PushLoad(t) \/ PushInspect(t) \/ PopLoad(t) \/ PopInspect(t)
             \/ PushPublish(t) \/ PopPublish(t)
    BY <1>1, RetryImplements
  <1>2. CASE PushCas(t)
    BY <1>2, RetryImplements, PushCasImplements
  <1>3. CASE PopCas(t)
    BY <1>3, RetryImplements, PopCasImplements
  <1>4. CASE PushFull(t)
    BY <1>4, RetryImplements, PushFullImplements
  <1>5. CASE ForceHead(t)
    BY <1>5, RetryImplements, ForceHeadImplements
  <1>6. CASE PopEmpty(t)
    BY <1>6, RetryImplements, PopEmptyImplements
  <1>7. CASE ForceTail(t)
    BY <1>7, ForceTailImplements
  <1>8. CASE PushWrite(t) \/ ForceSwap(t) \/ PopRead(t)
    BY <1>8, ValueImplements
  <1>9. CASE Return(t)
    BY <1>9, ReturnImplements
  <1> QED BY <1>1, <1>2, <1>3, <1>4, <1>5, <1>6, <1>7, <1>8, <1>9 DEF Step

LEMMA NextImplements ==
  QueueInv /\ QueueInv' /\ [Next]_vars => [Abstract!Next]_(Abstract!absVars)
  <1> SUFFICES ASSUME QueueInv, QueueInv', [Next]_vars
               PROVE  [Abstract!Next]_(Abstract!absVars)
    OBVIOUS
  <1>1. CASE UNCHANGED vars
    <2>1. UNCHANGED <<head, tail, stamp, value, th, started>>
      BY <1>1 DEF vars
    <2>2. Contents' = Contents /\ \A t \in Threads : Observed(t)' = Observed(t)
      BY <2>1, SeeNow, SeeThen
    <2> QED BY <2>2, Unseen
  <1>2. ASSUME NEW t \in Threads, NEW v \in Values, Call(t, "push", v) \/ Call(t, "force", v)
        PROVE  [Abstract!Next]_(Abstract!absVars)
    <2>1. Abstract!Invoke(t, "push", v) \/ Abstract!Invoke(t, "force", v)
      BY <1>2, CallImplements
    <2> QED BY <2>1 DEF Abstract!Next
  <1>3. ASSUME NEW t \in Threads, Call(t, "pop", None)
        PROVE  [Abstract!Next]_(Abstract!absVars)
    <2>1. Abstract!Invoke(t, "pop", None)
      BY <1>3, CallImplements
    <2> QED BY <2>1 DEF Abstract!Next
  <1>4. ASSUME NEW t \in Threads, Step(t)
        PROVE  [Abstract!Next]_(Abstract!absVars)
    BY <1>4, StepImplements
  <1>5. ASSUME NEW v \in Values, PushMut(v)
        PROVE  [Abstract!Next]_(Abstract!absVars)
    BY <1>5, PushMutImplements
  <1>6. CASE PopMut
    BY <1>6, PopMutImplements
  <1> QED BY <1>1, <1>2, <1>3, <1>4, <1>5, <1>6 DEF Next

\* push, force_push, pop, push_mut and pop_mut implement the bounded first-in first-out
\* queue of BoundedQueue: each takes effect at one instant, in order, push refuses only
\* while the queue is full and pop answers None only while it is empty.
THEOREM QueueLinearizable == Spec => Linearizable
  <1>1. Spec => Abstract!Init
    BY InitImplements DEF Spec
  <1> QED BY <1>1, QueueInvariant, NextImplements, PTL DEF Spec, Linearizable, Abstract!Spec
=============================================================================
