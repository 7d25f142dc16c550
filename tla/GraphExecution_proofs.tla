------------------------ MODULE GraphExecution_proofs ------------------------
(***************************************************************************)
(* Proofs about WaveScheduler, for every list of fragments, every          *)
(* depends_on relation, cyclic ones included, and every number of threads: *)
(* the rounds of compute_waves are disjoint and each depends on earlier    *)
(* ones only; the stripes of a wave hold each of its fragments once; and   *)
(* so every fragment is at any moment finished, in one queue, or in one    *)
(* wave to come.                                                           *)
(***************************************************************************)
EXTENDS GraphExecution, FiniteSetTheorems, TLAPS

-----------------------------------------------------------------------------
(* Induction, stripes and sorted waves *)

\* Induction on the naturals for a set: the successor maps the members below a
\* missing one into those that are not 0, and there is one fewer of these.
LEMMA NatSetInduction ==
  ASSUME NEW S, 0 \in S, \A n \in Nat : n \in S => n + 1 \in S
  PROVE  Nat \subseteq S
<1> SUFFICES ASSUME NEW n \in Nat, n \notin S PROVE FALSE
  OBVIOUS
<1> DEFINE T == {k \in Nat : k \in S /\ k < n}
           f == [k \in T |-> k + 1]
<1>1. IsFiniteSet(T) /\ Cardinality(T) \in Nat
  <2>1. T \in SUBSET Nat /\ \A k \in T : k <= n
    OBVIOUS
  <2> HIDE DEF T
  <2>2. IsFiniteSet(T)
    BY <2>1, FS_BoundedSetOfNaturals
  <2> QED BY <2>2, FS_CardinalityType
<1>2. 0 \in T
  OBVIOUS
<1>3. IsFiniteSet(T \ {0}) /\ Cardinality(T \ {0}) = Cardinality(T) - 1
  BY <1>1, <1>2, FS_RemoveElement
<1>4. f \in [T -> T \ {0}]
  <2> SUFFICES ASSUME NEW k \in T PROVE k + 1 \in T \ {0}
    OBVIOUS
  <2> QED OBVIOUS
<1>5. PICK x \in T, y \in T : x # y /\ f[x] = f[y]
  <2> HIDE DEF f, T
  <2>1. Cardinality(T \ {0}) < Cardinality(T)
    BY <1>1, <1>3
  <2> QED BY <1>1, <1>3, <1>4, <2>1, FS_PigeonHole
<1> QED
  BY <1>5

LEMMA DivBound ==
  ASSUME NEW m \in Nat, NEW n \in Nat \ {0}, NEW k \in Nat
  PROVE  k <= m \div n <=> k * n <= m
<1> DEFINE q == m \div n
           r == m % n
<1>1. q \in Nat /\ r \in 0 .. n - 1 /\ m = q * n + r
  OBVIOUS
<1> HIDE DEF q, r
<1>2. ASSUME k <= q PROVE k * n <= m
  <2>1. k * n <= q * n
    BY <1>1, <1>2
  <2> QED BY <1>1, <2>1
<1>3. ASSUME q < k PROVE k * n > m
  <2>1. (q + 1) * n <= k * n
    BY <1>1, <1>3
  <2>2. (q + 1) * n = q * n + n
    BY <1>1
  <2> QED BY <1>1, <2>1, <2>2
<1> QED BY <1>1, <1>2, <1>3 DEF q

\* The share of thread t of n in a wave of length L.
Share(L, t, n) == (L - t + n) \div n

LEMMA ShareInside ==
  ASSUME NEW L \in Nat, NEW n \in Nat \ {0}, n <= L, NEW t \in 1 .. n
  PROVE  /\ Share(L, t, n) \in Nat
         /\ \A k \in 1 .. Share(L, t, n) : t + (k - 1) * n \in 1 .. L
<1> DEFINE m == L - t + n
<1>1. m \in Nat
  OBVIOUS
<1>2. Share(L, t, n) \in Nat
  BY <1>1 DEF Share
<1>3. ASSUME NEW k \in 1 .. Share(L, t, n)
      PROVE  t + (k - 1) * n \in 1 .. L
  <2>1. k \in Nat /\ k >= 1 /\ k <= m \div n
    BY <1>2 DEF Share
  <2> HIDE DEF m
  <2>2. k * n <= m
    BY <1>1, <2>1, DivBound
  <2>3. (k - 1) * n = k * n - n /\ k * n \in Nat
    BY <2>1
  <2>4. (k - 1) * n \in Nat
    BY <2>1
  <2> QED BY <2>2, <2>3, <2>4 DEF m
<1> QED BY <1>2, <1>3

LEMMA ShareCovers ==
  ASSUME NEW L \in Nat, NEW n \in Nat \ {0}, n <= L, NEW x \in 1 .. L
  PROVE  \E t \in 1 .. n : \E k \in 1 .. Share(L, t, n) : x = t + (k - 1) * n
<1> DEFINE q == (x - 1) \div n
           r == (x - 1) % n
<1>1. x - 1 \in Nat /\ x \in Nat /\ x <= L
  OBVIOUS
<1>2. q \in Nat /\ r \in 0 .. n - 1 /\ x - 1 = q * n + r
  BY <1>1
<1> HIDE DEF q, r
<1> DEFINE t == r + 1
           k == q + 1
<1>3. t \in 1 .. n /\ k \in Nat /\ k >= 1 /\ x = t + (k - 1) * n
  BY <1>1, <1>2
<1>4. k * n = q * n + n
  BY <1>2
<1>5. k * n <= L - t + n /\ L - t + n \in Nat
  BY <1>1, <1>2, <1>4
<1> HIDE DEF t, k
<1>6. k <= Share(L, t, n)
  BY <1>3, <1>5, DivBound DEF Share
<1>7. Share(L, t, n) \in Nat
  BY <1>3, ShareInside
<1>8. k \in 1 .. Share(L, t, n)
  BY <1>3, <1>6, <1>7
<1> QED BY <1>3, <1>8

LEMMA ShareApart ==
  ASSUME NEW n \in Nat \ {0}, NEW t \in 1 .. n, NEW u \in 1 .. n, NEW k \in Nat, NEW l \in Nat,
         t + (k - 1) * n = u + (l - 1) * n
  PROVE  t = u /\ k = l
<1>1. ASSUME NEW a \in Nat, NEW b \in Nat, NEW x \in 1 .. n, NEW y \in 1 .. n,
             x + (a - 1) * n = y + (b - 1) * n
      PROVE  ~(a < b)
  <2> SUFFICES ASSUME a < b PROVE FALSE
    OBVIOUS
  <2>1. (b - a) * n >= n
    <3>1. b - a >= 1 /\ b - a \in Nat
      OBVIOUS
    <3> QED BY <3>1
  <2>2. (b - 1) * n - (a - 1) * n = (b - a) * n
    OBVIOUS
  <2>3. (b - 1) * n \in Int /\ (a - 1) * n \in Int /\ (b - a) * n \in Int
    OBVIOUS
  <2>4. x - y < n
    OBVIOUS
  <2> QED BY <1>1, <2>1, <2>2, <2>3, <2>4
<1>2. ~(k < l) /\ ~(l < k)
  BY <1>1
<1>3. k = l
  BY <1>2
<1>4. (k - 1) * n \in Int
  OBVIOUS
<1> QED BY <1>3, <1>4

\* A set of fragments can be listed in ascending order.
Ascending(s) == \A i, j \in DOMAIN s : i < j => s[i] < s[j]

LEMMA SubsetOfInterval ==
  ASSUME NEW n \in Nat, NEW S \in SUBSET (1 .. n)
  PROVE  IsFiniteSet(S) /\ Cardinality(S) \in Nat /\ Cardinality(S) <= n
<1>1. IsFiniteSet(1 .. n) /\ Cardinality(1 .. n) = n
  BY FS_Interval
<1>2. IsFiniteSet(S) /\ Cardinality(S) <= Cardinality(1 .. n)
  BY <1>1, FS_Subset
<1> QED BY <1>1, <1>2, FS_CardinalityType

Listable(n) ==
  \A S \in SUBSET (1 .. n) : \E s \in [1 .. Cardinality(S) -> S] : Ascending(s)

LEMMA SortedExists == \A n \in Nat : Listable(n)
<1> DEFINE T == {n \in Nat : Listable(n)}
<1>1. 0 \in T
  <2> SUFFICES ASSUME NEW S \in SUBSET (1 .. 0)
               PROVE  \E s \in [1 .. Cardinality(S) -> S] : Ascending(s)
    BY DEF Listable
  <2>1. S = {}
    OBVIOUS
  <2>2. Cardinality(S) = 0
    BY <2>1, FS_EmptySet
  <2> DEFINE s == [i \in 1 .. 0 |-> 0]
  <2>3. s \in [1 .. Cardinality(S) -> S] /\ Ascending(s)
    BY <2>2 DEF Ascending
  <2> QED BY <2>3
<1>2. \A n \in Nat : n \in T => n + 1 \in T
  <2> SUFFICES ASSUME NEW n \in Nat, Listable(n) PROVE Listable(n + 1)
    OBVIOUS
  <2> SUFFICES ASSUME NEW S \in SUBSET (1 .. n + 1)
               PROVE  \E s \in [1 .. Cardinality(S) -> S] : Ascending(s)
    BY DEF Listable
  <2>1. CASE n + 1 \notin S
    <3>1. S \in SUBSET (1 .. n)
      BY <2>1
    <3> QED BY <3>1 DEF Listable
  <2>2. CASE n + 1 \in S
    <3> DEFINE R == S \ {n + 1}
               c == Cardinality(R)
    <3>1. R \in SUBSET (1 .. n)
      OBVIOUS
    <3>2. PICK s \in [1 .. c -> R] : Ascending(s)
      BY <3>1 DEF Listable
    <3>3. IsFiniteSet(S) /\ c \in Nat
      BY <3>1, SubsetOfInterval
    <3>4. Cardinality(S) = c + 1
      <4>1. IsFiniteSet(S) /\ Cardinality(S) \in Nat
        BY SubsetOfInterval
      <4>2. c = Cardinality(S) - 1
        BY <2>2, <4>1, FS_RemoveElement
      <4> QED BY <4>1, <4>2
    <3> HIDE DEF c
    <3> DEFINE u == [i \in 1 .. c + 1 |-> IF i = c + 1 THEN n + 1 ELSE s[i]]
    <3>5. \A i \in 1 .. c : s[i] \in R /\ s[i] \in 1 .. n
      BY <3>1, <3>2
    <3>6. u \in [1 .. c + 1 -> S]
      <4> SUFFICES ASSUME NEW i \in 1 .. c + 1 PROVE (IF i = c + 1 THEN n + 1 ELSE s[i]) \in S
        OBVIOUS
      <4>1. i = c + 1 \/ i \in 1 .. c
        BY <3>3
      <4> QED BY <2>2, <3>5, <4>1
    <3>7. Ascending(u)
      <4> SUFFICES ASSUME NEW i \in 1 .. c + 1, NEW j \in 1 .. c + 1, i < j
                   PROVE  u[i] < u[j]
        BY DEF Ascending
      <4>1. i \in 1 .. c /\ u[i] = s[i] /\ s[i] \in 1 .. n
        BY <3>3, <3>5
      <4>2. CASE j = c + 1
        BY <4>1, <4>2
      <4>3. CASE j # c + 1
        <5>1. j \in 1 .. c /\ u[j] = s[j]
          BY <3>3, <4>3
        <5>2. s[i] < s[j]
          BY <3>2, <4>1, <5>1 DEF Ascending
        <5> QED BY <4>1, <5>1, <5>2
      <4> QED BY <4>2, <4>3
    <3> QED BY <3>4, <3>6, <3>7
  <2> QED BY <2>1, <2>2
<1> HIDE DEF T
<1>3. Nat \subseteq T
  BY <1>1, <1>2, NatSetInduction
<1> QED BY <1>3 DEF T

LEMMA SortedIs ==
  ASSUME NEW n \in Nat, NEW S \in SUBSET (1 .. n)
  PROVE  LET s == Sorted(S) IN
         /\ s \in [1 .. Cardinality(S) -> S] /\ Cardinality(S) \in Nat
         /\ \A i, j \in 1 .. Cardinality(S) : s[i] = s[j] => i = j
         /\ \A x \in S : \E i \in 1 .. Cardinality(S) : s[i] = x
<1> DEFINE s == Sorted(S)
           c == Cardinality(S)
<1>1. s \in [1 .. c -> S] /\ Ascending(s)
  <2>1. \E r \in [1 .. c -> S] : Ascending(r)
    BY SortedExists DEF Listable
  <2> QED BY <2>1 DEF Sorted, Ascending
<1>2. IsFiniteSet(S) /\ c \in Nat
  BY SubsetOfInterval
<1> HIDE DEF s
<1>3. ASSUME NEW i \in 1 .. c, NEW j \in 1 .. c, s[i] = s[j] PROVE i = j
  <2>1. s[i] \in 1 .. n
    BY <1>1
  <2>2. ~(i < j) /\ ~(j < i)
    BY <1>1, <1>3, <2>1 DEF Ascending
  <2> HIDE DEF c
  <2> QED BY <1>2, <2>2
<1>4. ASSUME NEW x \in S, \A i \in 1 .. c : s[i] # x PROVE FALSE
  <2> DEFINE R == S \ {x}
             I == 1 .. c
  <2>1. IsFiniteSet(R) /\ Cardinality(R) = c - 1
    BY <1>2, FS_RemoveElement
  <2>2. s \in [I -> R]
    BY <1>1, <1>4
  <2>3. IsFiniteSet(I) /\ Cardinality(I) = c
    BY <1>2, FS_Interval
  <2> HIDE DEF R, I, c
  <2>4. Cardinality(R) < Cardinality(I)
    BY <1>2, <2>1, <2>3
  <2>5. \E i, j \in I : i # j /\ s[i] = s[j]
    BY <2>1, <2>2, <2>3, <2>4, FS_PigeonHole
  <2> QED BY <1>3, <2>5 DEF I
<1> QED BY <1>1, <1>2, <1>3, <1>4 DEF s

-----------------------------------------------------------------------------
(* The waves of the dependencies *)

Rounds(g, n) ==
  \A k \in 0 .. n : g[k] = IF k = 0 THEN {} ELSE g[k - 1] \cup Ready(g[k - 1])

LEMMA RoundsExist == \A n \in Nat : \E g \in [0 .. n -> SUBSET Fragments] : Rounds(g, n)
<1> DEFINE T == {n \in Nat : \E g \in [0 .. n -> SUBSET Fragments] : Rounds(g, n)}
<1>1. 0 \in T
  <2> DEFINE g == [k \in 0 .. 0 |-> {}]
  <2>1. g \in [0 .. 0 -> SUBSET Fragments] /\ Rounds(g, 0)
    BY DEF Rounds
  <2> QED BY <2>1
<1>2. \A n \in Nat : n \in T => n + 1 \in T
  <2> SUFFICES ASSUME NEW n \in Nat, n \in T
               PROVE  \E g \in [0 .. n + 1 -> SUBSET Fragments] : Rounds(g, n + 1)
    OBVIOUS
  <2>1. PICK g \in [0 .. n -> SUBSET Fragments] : Rounds(g, n)
    OBVIOUS
  <2> DEFINE e == g[n] \cup Ready(g[n])
             h == [k \in 0 .. n + 1 |-> IF k = n + 1 THEN e ELSE g[k]]
  <2>2. e \in SUBSET Fragments
    BY <2>1 DEF Ready
  <2> HIDE DEF e
  <2>3. h \in [0 .. n + 1 -> SUBSET Fragments]
    BY <2>1, <2>2
  <2>4. Rounds(h, n + 1)
    <3> SUFFICES ASSUME NEW k \in 0 .. n + 1
                 PROVE  h[k] = IF k = 0 THEN {} ELSE h[k - 1] \cup Ready(h[k - 1])
      BY DEF Rounds
    <3>1. CASE k = n + 1
      <4>1. h[k] = e /\ k # 0 /\ k - 1 = n /\ h[k - 1] = g[n]
        BY <3>1
      <4> QED BY <4>1 DEF e
    <3>2. CASE k # n + 1
      <4>1. k \in 0 .. n /\ (k # 0 => k - 1 \in 0 .. n)
        BY <3>2
      <4>2. g[k] = IF k = 0 THEN {} ELSE g[k - 1] \cup Ready(g[k - 1])
        BY <4>1, <2>1 DEF Rounds
      <4>3. h[k] = g[k] /\ (k # 0 => h[k - 1] = g[k - 1])
        BY <4>1, <3>2
      <4> QED BY <4>2, <4>3
    <3> QED BY <3>1, <3>2
  <2> QED BY <2>3, <2>4
<1> HIDE DEF T
<1>3. Nat \subseteq T
  BY <1>1, <1>2, NatSetInduction
<1> QED BY <1>3 DEF T

LEMMA CompletedIs ==
  ASSUME Len(prog) \in Nat
  PROVE  Rounds(Completed, Len(prog))
<1> DEFINE F(f) == [k \in 0 .. Len(prog) |-> IF k = 0 THEN {} ELSE f[k - 1] \cup Ready(f[k - 1])]
           c == CHOOSE f : f = F(f)
<1>1. PICK g \in [0 .. Len(prog) -> SUBSET Fragments] : Rounds(g, Len(prog))
  BY RoundsExist
<1>2. g = F(g)
  BY <1>1 DEF Rounds
<1>3. c = F(c)
  BY <1>2
<1>4. Completed = c
  BY DEF Completed
<1>5. Rounds(c, Len(prog))
  BY <1>3 DEF Rounds
<1> QED BY <1>4, <1>5

\* What is completed is what the waves so far hold.
LEMMA RoundsHold ==
  ASSUME NEW N \in Nat, NEW g, Rounds(g, N)
  PROVE  \A k \in 0 .. N : g[k] = UNION {Ready(g[j - 1]) : j \in 1 .. k}
<1> DEFINE Earlier(k) == UNION {Ready(g[j - 1]) : j \in 1 .. k}
           T == {n \in Nat : n <= N => g[n] = Earlier(n)}
<1>1. \A k \in 0 .. N : g[k] = IF k = 0 THEN {} ELSE g[k - 1] \cup Ready(g[k - 1])
  BY DEF Rounds
<1>2. 0 \in T
  <2>0. 0 \in 0 .. N
    OBVIOUS
  <2>1. g[0] = {}
    BY <1>1, <2>0, Zenon
  <2>2. Earlier(0) = {}
    OBVIOUS
  <2> QED BY <2>1, <2>2
<1>3. \A n \in Nat : n \in T => n + 1 \in T
  <2> SUFFICES ASSUME NEW n \in Nat, n \in T, n + 1 <= N
               PROVE  g[n + 1] = Earlier(n + 1)
    OBVIOUS
  <2>1. g[n] = Earlier(n)
    OBVIOUS
  <2>2. g[n + 1] = g[n] \cup Ready(g[n])
    <3>1. n + 1 \in 0 .. N /\ n + 1 # 0 /\ (n + 1) - 1 = n
      OBVIOUS
    <3> QED BY <1>1, <3>1
  <2>3. Earlier(n + 1) = Earlier(n) \cup Ready(g[n])
    <3>1. 1 .. n + 1 = (1 .. n) \cup {n + 1} /\ (n + 1) - 1 = n
      OBVIOUS
    <3> QED BY <3>1
  <2> QED BY <2>1, <2>2, <2>3
<1> HIDE DEF T
<1>4. Nat \subseteq T
  BY <1>2, <1>3, NatSetInduction
<1>5. \A k \in 0 .. N : k \in Nat /\ k <= N
  OBVIOUS
<1> QED BY <1>4, <1>5 DEF T

-----------------------------------------------------------------------------
(* Where every fragment is *)

Elements(s) == {s[k] : k \in DOMAIN s}
Once(s) == \A i, j \in DOMAIN s : s[i] = s[j] => i = j

\* The same for a function whose values are lists: queues, or waves.
AllOf(q) == UNION {Elements(q[t]) : t \in DOMAIN q}
Apart(q) ==
  /\ \A t \in DOMAIN q : Once(q[t])
  /\ \A t, u \in DOMAIN q : t # u => Elements(q[t]) \cap Elements(q[u]) = {}

Earlier(ws, w) == UNION {Elements(ws[u]) : u \in 1 .. w - 1}

\* The waves still to come hold what is neither finished nor queued, and none
\* depends on itself or a later one.
Waiting(pr, fin, q, ws) ==
  /\ ws \in Seq(Seq(1 .. Len(pr))) /\ Apart(ws)
  /\ AllOf(ws) \cap AllOf(q) = {} /\ AllOf(ws) \cap Elements(fin) = {}
  /\ \A w \in DOMAIN ws : \A x \in Elements(ws[w]) :
       pr[x].deps \subseteq Elements(fin) \cup AllOf(q) \cup Earlier(ws, w)
  /\ 1 .. Len(pr) \subseteq Elements(fin) \cup AllOf(q) \cup AllOf(ws)

\* A fragment is finished once, or queued in one place with its dependencies
\* finished.
Placed(pr, fin, q) ==
  /\ Len(pr) \in Nat
  /\ fin \in Seq(1 .. Len(pr)) /\ Once(fin)
  /\ \A t \in DOMAIN q : q[t] \in Seq(1 .. Len(pr))
  /\ Apart(q) /\ AllOf(q) \cap Elements(fin) = {}
  /\ \A x \in AllOf(q) : pr[x].deps \subseteq Elements(fin)

LEMMA ElementsOf ==
  ASSUME NEW S, NEW s \in Seq(S)
  PROVE  /\ Elements(s) \subseteq S
         /\ s = <<>> => Elements(s) = {}
         /\ s # <<>> => /\ Elements(s) = {Head(s)} \cup Elements(Tail(s))
                        /\ Head(s) \in S /\ Tail(s) \in Seq(S)
                        /\ Once(s) => Once(Tail(s)) /\ Head(s) \notin Elements(Tail(s))
         /\ \A e \in S : /\ Append(s, e) \in Seq(S)
                         /\ Elements(Append(s, e)) = Elements(s) \cup {e}
                         /\ Once(s) /\ e \notin Elements(s) => Once(Append(s, e))
<1>1. DOMAIN s = 1 .. Len(s) /\ Len(s) \in Nat /\ \A k \in 1 .. Len(s) : s[k] \in S
  OBVIOUS
<1>2. Elements(s) \subseteq S /\ (s = <<>> => Elements(s) = {})
  BY <1>1 DEF Elements
<1>3. ASSUME s # <<>>
      PROVE  /\ Elements(s) = {Head(s)} \cup Elements(Tail(s))
             /\ Head(s) \in S /\ Tail(s) \in Seq(S)
             /\ Once(s) => Once(Tail(s)) /\ Head(s) \notin Elements(Tail(s))
  <2> DEFINE u == Tail(s)
  <2>1. /\ u \in Seq(S) /\ Len(s) >= 1 /\ Len(u) = Len(s) - 1 /\ DOMAIN u = 1 .. Len(u)
        /\ Head(s) = s[1] /\ Head(s) \in S /\ \A k \in 1 .. Len(u) : u[k] = s[k + 1]
    BY <1>1, <1>3
  <2> HIDE DEF u
  <2>2. \A k \in 1 .. Len(u) : k + 1 \in 1 .. Len(s) /\ k + 1 # 1
    BY <1>1, <2>1
  <2>3. \A k \in 1 .. Len(s) : k = 1 \/ (k - 1 \in 1 .. Len(u) /\ (k - 1) + 1 = k)
    BY <1>1, <2>1
  <2>4. Elements(s) = {Head(s)} \cup Elements(u)
    <3>1. 1 \in 1 .. Len(s)
      BY <1>1, <2>1
    <3>2. Elements(u) \subseteq Elements(s) /\ Head(s) \in Elements(s)
      BY <1>1, <2>1, <2>2, <3>1 DEF Elements
    <3>3. ASSUME NEW k \in 1 .. Len(s) PROVE s[k] \in {Head(s)} \cup Elements(u)
      <4>1. CASE k = 1
        BY <2>1, <4>1
      <4>2. CASE k # 1
        <5>1. k - 1 \in 1 .. Len(u) /\ u[k - 1] = s[k]
          BY <2>1, <2>3, <4>2
        <5> QED BY <2>1, <5>1 DEF Elements
      <4> QED BY <4>1, <4>2
    <3> QED BY <1>1, <3>2, <3>3 DEF Elements
  <2>5. Once(s) => Once(u) /\ Head(s) \notin Elements(u)
    <3> SUFFICES ASSUME Once(s) PROVE Once(u) /\ Head(s) \notin Elements(u)
      OBVIOUS
    <3>1. ASSUME NEW i \in 1 .. Len(u), NEW j \in 1 .. Len(u), u[i] = u[j] PROVE i = j
      <4>1. s[i + 1] = s[j + 1]
        BY <2>1, <3>1
      <4>2. i + 1 = j + 1
        BY <1>1, <2>2, <4>1 DEF Once
      <4> QED BY <4>2
    <3>2. ASSUME NEW i \in 1 .. Len(u), u[i] = Head(s) PROVE FALSE
      <4>1. s[i + 1] = s[1] /\ 1 \in 1 .. Len(s)
        BY <1>1, <2>1, <3>2
      <4> QED BY <1>1, <2>2, <4>1 DEF Once
    <3> QED BY <2>1, <3>1, <3>2 DEF Once, Elements
  <2> QED BY <2>1, <2>4, <2>5 DEF u
<1>4. ASSUME NEW e \in S
      PROVE  /\ Append(s, e) \in Seq(S)
             /\ Elements(Append(s, e)) = Elements(s) \cup {e}
             /\ Once(s) /\ e \notin Elements(s) => Once(Append(s, e))
  <2> DEFINE u == Append(s, e)
  <2>1. /\ u \in Seq(S) /\ DOMAIN u = 1 .. Len(s) + 1 /\ u[Len(s) + 1] = e
        /\ \A k \in 1 .. Len(s) : u[k] = s[k]
    BY <1>1
  <2> HIDE DEF u
  <2>2. 1 .. Len(s) + 1 = (1 .. Len(s)) \cup {Len(s) + 1} /\ Len(s) + 1 \notin 1 .. Len(s)
    BY <1>1
  <2>3. Elements(u) = Elements(s) \cup {e}
    BY <1>1, <2>1, <2>2 DEF Elements
  <2>4. Once(s) /\ e \notin Elements(s) => Once(u)
    BY <1>1, <2>1, <2>2 DEF Once, Elements
  <2> QED BY <2>1, <2>3, <2>4 DEF u
<1> QED BY <1>2, <1>3, <1>4

\* A fragment leaves the head of one queue and is finished.
LEMMA FinishPlaced ==
  ASSUME NEW pr, NEW fin, NEW q, NEW r, NEW t \in DOMAIN q, Placed(pr, fin, q), q[t] # <<>>,
         DOMAIN r = DOMAIN q, r[t] = Tail(q[t]), \A u \in DOMAIN q : u # t => r[u] = q[u]
  PROVE  /\ Placed(pr, Append(fin, Head(q[t])), r)
         /\ \A ws : Waiting(pr, fin, q, ws) => Waiting(pr, Append(fin, Head(q[t])), r, ws)
<1> DEFINE S == 1 .. Len(pr)
           x == Head(q[t])
           g == Append(fin, x)
<1>1. fin \in Seq(S) /\ Once(fin) /\ \A u \in DOMAIN q : q[u] \in Seq(S)
  BY DEF Placed
<1>2. q[t] \in Seq(S) /\ Once(q[t])
  BY <1>1 DEF Placed, Apart
<1>3. /\ Elements(q[t]) = {x} \cup Elements(r[t]) /\ x \in S /\ r[t] \in Seq(S)
      /\ Once(r[t]) /\ x \notin Elements(r[t])
  BY <1>2, ElementsOf
<1>4. x \in AllOf(q) /\ x \notin Elements(fin)
  BY <1>3 DEF AllOf, Placed
<1> HIDE DEF x
<1>5. g \in Seq(S) /\ Elements(g) = Elements(fin) \cup {x} /\ Once(g)
  BY <1>1, <1>3, <1>4, ElementsOf
<1> HIDE DEF S, g
<1>6. \A u \in DOMAIN q : u # t => x \notin Elements(q[u])
  BY <1>3 DEF Placed, Apart
<1>7. AllOf(r) = AllOf(q) \ {x}
  <2>1. \A u \in DOMAIN q : Elements(r[u]) = Elements(q[u]) \ {x}
    BY <1>3, <1>6
  <2> QED BY <2>1 DEF AllOf
<1>8. Apart(r)
  <2>1. \A u \in DOMAIN q : Elements(r[u]) \subseteq Elements(q[u]) /\ Once(r[u])
    BY <1>3 DEF Placed, Apart
  <2> QED BY <2>1 DEF Placed, Apart
<1>9. Placed(pr, g, r)
  <2>1. \A u \in DOMAIN r : r[u] \in Seq(S)
    BY <1>1, <1>3
  <2>2. AllOf(r) \cap Elements(g) = {}
    BY <1>5, <1>7 DEF Placed
  <2>3. \A y \in AllOf(r) : pr[y].deps \subseteq Elements(g)
    BY <1>5, <1>7 DEF Placed
  <2> QED BY <1>5, <1>8, <2>1, <2>2, <2>3 DEF Placed, S
<1>10. ASSUME NEW ws, Waiting(pr, fin, q, ws) PROVE Waiting(pr, g, r, ws)
  <2>1. Elements(g) \cup AllOf(r) = Elements(fin) \cup AllOf(q)
    BY <1>4, <1>5, <1>7
  <2>2. AllOf(ws) \cap AllOf(r) = {} /\ AllOf(ws) \cap Elements(g) = {}
    BY <1>4, <1>5, <1>7, <1>10 DEF Waiting
  <2>3. \A w \in DOMAIN ws : \A y \in Elements(ws[w]) :
          pr[y].deps \subseteq Elements(g) \cup AllOf(r) \cup Earlier(ws, w)
    BY <1>10, <2>1 DEF Waiting
  <2>4. 1 .. Len(pr) \subseteq Elements(g) \cup AllOf(r) \cup AllOf(ws)
    BY <1>10, <2>1 DEF Waiting
  <2> QED BY <1>10, <2>2, <2>3, <2>4 DEF Waiting
<1> QED BY <1>9, <1>10 DEF g, x

\* Queues that are empty may as well not be there.
LEMMA EmptyPlaced ==
  ASSUME NEW pr, NEW fin, NEW q, NEW r, Placed(pr, fin, q),
         \A t \in DOMAIN r : r[t] = <<>>
  PROVE  /\ Placed(pr, fin, r) /\ AllOf(r) = {}
         /\ AllOf(q) = {} => \A ws : Waiting(pr, fin, q, ws) => Waiting(pr, fin, r, ws)
<1>1. \A t \in DOMAIN r : r[t] \in Seq(1 .. Len(pr)) /\ Elements(r[t]) = {} /\ Once(r[t])
  <2> DEFINE e == <<>>
  <2>1. e \in Seq(1 .. Len(pr)) /\ DOMAIN e = {}
    OBVIOUS
  <2>2. \A t \in DOMAIN r : r[t] = e
    OBVIOUS
  <2> HIDE DEF e
  <2>3. Elements(e) = {} /\ Once(e)
    BY <2>1 DEF Elements, Once
  <2> QED BY <2>1, <2>2, <2>3
<1>2. AllOf(r) = {}
  BY <1>1 DEF AllOf
<1>3. Apart(r)
  BY <1>1 DEF Apart
<1>4. Placed(pr, fin, r)
  BY <1>1, <1>2, <1>3 DEF Placed
<1>5. AllOf(q) = {} => \A ws : Waiting(pr, fin, q, ws) => Waiting(pr, fin, r, ws)
  BY <1>2 DEF Waiting
<1> QED BY <1>2, <1>4, <1>5

\* The queues of a wave hold its fragments, each once.
LEMMA StripesOf ==
  ASSUME NEW S, NEW wave \in Seq(S), Once(wave), NEW n \in Nat, n <= Len(wave),
         n = 0 => Len(wave) = 0, NEW q, DOMAIN q = 1 .. n,
         \A t \in 1 .. n : q[t] = Stripe(wave, t, n)
  PROVE  /\ \A t \in DOMAIN q : q[t] \in Seq(S)
         /\ AllOf(q) = Elements(wave) /\ Apart(q)
<1> DEFINE L == Len(wave)
<1>1. L \in Nat /\ DOMAIN wave = 1 .. L /\ \A k \in 1 .. L : wave[k] \in S
  OBVIOUS
<1>2. CASE n = 0
  <2>1. DOMAIN q = {} /\ DOMAIN wave = {}
    BY <1>1, <1>2
  <2> QED BY <2>1 DEF AllOf, Apart, Elements
<1>3. CASE n # 0
  <2> HIDE DEF L
  <2>0. n \in Nat \ {0} /\ n <= L
    BY <1>3 DEF L
  <2>1. \A t \in 1 .. n :
          /\ Share(L, t, n) \in Nat
          /\ \A k \in 1 .. Share(L, t, n) : t + (k - 1) * n \in 1 .. L
    BY <1>1, <2>0, ShareInside
  <2>2. \A t \in 1 .. n : q[t] = [k \in 1 .. Share(L, t, n) |-> wave[t + (k - 1) * n]]
    BY DEF Stripe, Share, L
  <2>3. \A t \in 1 .. n :
          /\ DOMAIN q[t] = 1 .. Share(L, t, n)
          /\ \A k \in 1 .. Share(L, t, n) : q[t][k] = wave[t + (k - 1) * n]
    BY <2>2
  <2>4. ASSUME NEW t \in 1 .. n PROVE q[t] \in Seq(S) /\ Elements(q[t]) \subseteq Elements(wave)
    <3> DEFINE c == Share(L, t, n)
    <3>1. c \in Nat /\ \A k \in 1 .. c : t + (k - 1) * n \in 1 .. L
      BY <2>1
    <3>2. q[t] = [k \in 1 .. c |-> wave[t + (k - 1) * n]]
      BY <2>2
    <3> HIDE DEF c
    <3>3. \A k \in 1 .. c : wave[t + (k - 1) * n] \in S /\ wave[t + (k - 1) * n] \in Elements(wave)
      BY <1>1, <3>1 DEF Elements
    <3>4. q[t] \in [1 .. c -> S]
      BY <3>2, <3>3
    <3>5. q[t] \in Seq(S)
      BY <3>1, <3>4
    <3>6. Elements(q[t]) \subseteq Elements(wave)
      BY <3>2, <3>3 DEF Elements
    <3> QED BY <3>5, <3>6
  <2>5. ASSUME NEW x \in 1 .. L PROVE wave[x] \in AllOf(q)
    <3>1. PICK t \in 1 .. n : \E k \in 1 .. Share(L, t, n) : x = t + (k - 1) * n
      BY <1>1, <2>0, ShareCovers
    <3>2. PICK k \in 1 .. Share(L, t, n) : x = t + (k - 1) * n
      BY <3>1
    <3>3. q[t][k] = wave[x] /\ k \in DOMAIN q[t]
      BY <2>3, <3>2
    <3> QED BY <3>3 DEF AllOf, Elements
  <2>6. AllOf(q) = Elements(wave)
    <3>1. Elements(wave) \subseteq AllOf(q)
      BY <1>1, <2>5 DEF Elements
    <3>2. AllOf(q) \subseteq Elements(wave)
      BY <2>4 DEF AllOf
    <3> QED BY <3>1, <3>2
  <2>7. ASSUME NEW t \in 1 .. n, NEW u \in 1 .. n,
               NEW k \in DOMAIN q[t], NEW l \in DOMAIN q[u], q[t][k] = q[u][l]
        PROVE  t = u /\ k = l
    <3> DEFINE a == t + (k - 1) * n
               b == u + (l - 1) * n
    <3>1. k \in 1 .. Share(L, t, n) /\ l \in 1 .. Share(L, u, n)
      BY <2>3
    <3>2. k \in Nat /\ l \in Nat /\ a \in 1 .. L /\ b \in 1 .. L
      BY <2>1, <3>1
    <3>3. wave[a] = wave[b]
      BY <2>3, <2>7, <3>1
    <3>4. a = b
      <4> HIDE DEF a, b
      <4> QED BY <1>1, <3>2, <3>3 DEF Once
    <3> QED BY <2>0, <3>2, <3>4, ShareApart
  <2>8. Apart(q)
    <3>1. \A t \in 1 .. n : Once(q[t])
      BY <2>7 DEF Once
    <3>2. \A t, u \in 1 .. n : t # u => Elements(q[t]) \cap Elements(q[u]) = {}
      BY <2>7 DEF Elements
    <3> QED BY <3>1, <3>2 DEF Apart
  <2> QED BY <2>4, <2>6, <2>8
<1> QED BY <1>2, <1>3

\* The first wave of the ones to come, and the rest of them.
LEMMA FirstWave ==
  ASSUME NEW S, NEW ws \in Seq(Seq(S)), ws # <<>>, Apart(ws)
  PROVE  LET h == Head(ws)
             r == Tail(ws)
         IN  /\ h \in Seq(S) /\ Once(h) /\ r \in Seq(Seq(S)) /\ Apart(r)
             /\ AllOf(ws) = Elements(h) \cup AllOf(r)
             /\ Elements(h) \cap AllOf(r) = {}
             /\ 1 \in DOMAIN ws /\ h = ws[1] /\ Earlier(ws, 1) = {}
             /\ \A w \in DOMAIN r : /\ w + 1 \in DOMAIN ws /\ r[w] = ws[w + 1]
                                    /\ Earlier(ws, w + 1) = Elements(h) \cup Earlier(r, w)
<1> DEFINE h == Head(ws)
           r == Tail(ws)
<1>1. /\ h \in Seq(S) /\ r \in Seq(Seq(S)) /\ Len(ws) \in Nat /\ Len(ws) >= 1
      /\ DOMAIN ws = 1 .. Len(ws) /\ DOMAIN r = 1 .. Len(r) /\ Len(r) = Len(ws) - 1
      /\ h = ws[1] /\ \A w \in 1 .. Len(r) : r[w] = ws[w + 1]
  OBVIOUS
<1> HIDE DEF h, r
<1>2. 1 \in DOMAIN ws /\ \A w \in DOMAIN r : w + 1 \in DOMAIN ws /\ w + 1 # 1
  BY <1>1
<1>3. \A w \in DOMAIN ws : w = 1 \/ (w - 1 \in DOMAIN r /\ r[w - 1] = ws[w])
  BY <1>1
<1>4. AllOf(ws) = Elements(h) \cup AllOf(r)
  <2>1. Elements(h) \cup AllOf(r) \subseteq AllOf(ws)
    BY <1>1, <1>2 DEF AllOf
  <2>2. ASSUME NEW w \in DOMAIN ws PROVE Elements(ws[w]) \subseteq Elements(h) \cup AllOf(r)
    <3>1. CASE w = 1
      BY <1>1, <3>1
    <3>2. CASE w # 1
      <4>1. w - 1 \in DOMAIN r /\ r[w - 1] = ws[w]
        BY <1>3, <3>2
      <4> QED BY <4>1 DEF AllOf
    <3> QED BY <3>1, <3>2
  <2>3. AllOf(ws) \subseteq Elements(h) \cup AllOf(r)
    BY <2>2 DEF AllOf
  <2> QED BY <2>1, <2>3
<1>5. Elements(h) \cap AllOf(r) = {}
  <2>1. \A w \in DOMAIN r : Elements(h) \cap Elements(r[w]) = {}
    BY <1>1, <1>2 DEF Apart
  <2> QED BY <2>1 DEF AllOf
<1>6. Once(h)
  BY <1>1, <1>2 DEF Apart
<1>7. Apart(r)
  <2>1. \A t \in DOMAIN r : Once(r[t])
    BY <1>1, <1>2 DEF Apart
  <2>2. ASSUME NEW t \in DOMAIN r, NEW u \in DOMAIN r, t # u
        PROVE  Elements(r[t]) \cap Elements(r[u]) = {}
    <3>1. t \in 1 .. Len(r) /\ u \in 1 .. Len(r)
      BY <1>1
    <3>2. r[t] = ws[t + 1] /\ r[u] = ws[u + 1]
      BY <1>1, <3>1
    <3>3. t + 1 # u + 1
      BY <2>2, <3>1
    <3> QED BY <1>2, <3>2, <3>3 DEF Apart
  <2> QED BY <2>1, <2>2 DEF Apart
<1>8. Earlier(ws, 1) = {}
  BY DEF Earlier
<1>9. ASSUME NEW w \in DOMAIN r PROVE Earlier(ws, w + 1) = Elements(h) \cup Earlier(r, w)
  <2>1. w \in Nat /\ w >= 1 /\ w <= Len(r) /\ Len(r) \in Nat /\ (w + 1) - 1 = w
    BY <1>1
  <2>2. \A u \in 1 .. w - 1 : u + 1 \in 1 .. w /\ r[u] = ws[u + 1]
    <3>1. \A u \in 1 .. w - 1 : u + 1 \in 1 .. w /\ u \in 1 .. Len(r)
      BY <2>1
    <3> QED BY <1>1, <3>1
  <2>3. \A u \in 1 .. w : u = 1 \/ (u - 1 \in 1 .. w - 1 /\ r[u - 1] = ws[u])
    <3>1. \A u \in 1 .. w :
            u = 1 \/ (u - 1 \in 1 .. w - 1 /\ u - 1 \in 1 .. Len(r) /\ (u - 1) + 1 = u)
      BY <2>1
    <3>2. \A u \in 1 .. w : u - 1 \in 1 .. Len(r) => r[u - 1] = ws[(u - 1) + 1]
      BY <1>1
    <3> QED BY <3>1, <3>2
  <2>4. 1 \in 1 .. w
    BY <2>1
  <2>5. UNION {Elements(ws[u]) : u \in 1 .. w}
          = Elements(h) \cup UNION {Elements(r[u]) : u \in 1 .. w - 1}
    BY <1>1, <2>2, <2>3, <2>4
  <2> QED BY <2>1, <2>5 DEF Earlier
<1> QED BY <1>1, <1>2, <1>4, <1>5, <1>6, <1>7, <1>8, <1>9 DEF h, r

\* With every queue empty, the next wave is shared out.
LEMMA StartPlaced ==
  ASSUME NEW pr, NEW fin, NEW q, NEW ws, Placed(pr, fin, q), Waiting(pr, fin, q, ws),
         AllOf(q) = {}, ws # <<>>,
         NEW n \in Nat, n <= Len(Head(ws)), n = 0 => Len(Head(ws)) = 0,
         NEW r, DOMAIN r = 1 .. n, \A t \in 1 .. n : r[t] = Stripe(Head(ws), t, n)
  PROVE  Placed(pr, fin, r) /\ Waiting(pr, fin, r, Tail(ws))
<1> DEFINE S == 1 .. Len(pr)
           h == Head(ws)
           z == Tail(ws)
<1>1. ws \in Seq(Seq(S)) /\ Apart(ws)
  BY DEF Waiting
<1>2. /\ h \in Seq(S) /\ Once(h) /\ z \in Seq(Seq(S)) /\ Apart(z)
      /\ AllOf(ws) = Elements(h) \cup AllOf(z) /\ Elements(h) \cap AllOf(z) = {}
      /\ 1 \in DOMAIN ws /\ h = ws[1] /\ Earlier(ws, 1) = {}
      /\ \A w \in DOMAIN z : /\ w + 1 \in DOMAIN ws /\ z[w] = ws[w + 1]
                             /\ Earlier(ws, w + 1) = Elements(h) \cup Earlier(z, w)
  <2> HIDE DEF S
  <2> QED BY <1>1, FirstWave
<1> HIDE DEF S, h, z
<1>3. (\A t \in DOMAIN r : r[t] \in Seq(S)) /\ AllOf(r) = Elements(h) /\ Apart(r)
  <2>1. n <= Len(h) /\ (n = 0 => Len(h) = 0) /\ \A t \in 1 .. n : r[t] = Stripe(h, t, n)
    BY DEF h
  <2> QED BY <1>2, <2>1, StripesOf
<1>4. AllOf(r) \cap Elements(fin) = {} /\ AllOf(z) \cap Elements(fin) = {}
  BY <1>2, <1>3 DEF Waiting
<1>5. \A x \in AllOf(r) : pr[x].deps \subseteq Elements(fin)
  BY <1>2, <1>3 DEF Waiting
<1>6. Placed(pr, fin, r)
  BY <1>3, <1>4, <1>5 DEF Placed, S
<1>7. \A w \in DOMAIN z : \A x \in Elements(z[w]) :
        pr[x].deps \subseteq Elements(fin) \cup AllOf(r) \cup Earlier(z, w)
  BY <1>2, <1>3 DEF Waiting
<1>8. /\ AllOf(z) \cap AllOf(r) = {}
      /\ 1 .. Len(pr) \subseteq Elements(fin) \cup AllOf(r) \cup AllOf(z)
  BY <1>2, <1>3 DEF Waiting
<1>9. Waiting(pr, fin, r, z)
  BY <1>2, <1>4, <1>7, <1>8 DEF Waiting, S
<1> QED BY <1>6, <1>9 DEF z

\* The waves of compute_waves, when they hold every fragment.
LEMMA PlanPlaced ==
  ASSUME Len(prog) \in Nat, NEW ws, ws = compute_waves, UNION {ws[i] : i \in DOMAIN ws} = Fragments,
         NEW q, DOMAIN q = {}
  PROVE  Waiting(prog, <<>>, q, [i \in DOMAIN ws |-> Sorted(ws[i])])
<1> DEFINE N == Len(prog)
           W(k) == Ready(Completed[k - 1])
           R == Cardinality({r \in 1 .. N : W(r) # {}})
           v == [i \in DOMAIN ws |-> Sorted(ws[i])]
<1>1. Rounds(Completed, N)
  BY CompletedIs
<1>2. \A k \in 0 .. N : Completed[k] = UNION {W(j) : j \in 1 .. k}
  BY <1>1, RoundsHold
<1>3. R \in Nat /\ R <= N
  BY SubsetOfInterval
<1>4. ws = [k \in 1 .. R |-> W(k)]
  BY DEF compute_waves, Fragments
<1> HIDE DEF N, R
<1>5. /\ DOMAIN ws = 1 .. R /\ DOMAIN v = 1 .. R
      /\ \A k \in 1 .. R : ws[k] = W(k) /\ v[k] = Sorted(W(k))
  BY <1>4
<1>6. \A k : W(k) \subseteq 1 .. N
  BY DEF Ready, Fragments, N
<1>7. ASSUME NEW k \in 1 .. R PROVE v[k] \in Seq(1 .. N) /\ Once(v[k]) /\ Elements(v[k]) = W(k)
  <2> DEFINE S == W(k)
             s == Sorted(S)
             c == Cardinality(S)
  <2>1. S \in SUBSET (1 .. N) /\ N \in Nat
    BY <1>6 DEF N
  <2> HIDE DEF S
  <2>2. /\ s \in [1 .. c -> S] /\ c \in Nat
        /\ \A i, j \in 1 .. c : s[i] = s[j] => i = j
        /\ \A x \in S : \E i \in 1 .. c : s[i] = x
    BY <2>1, SortedIs
  <2> HIDE DEF s, c
  <2>3. s \in Seq(1 .. N)
    <3> DEFINE I == 1 .. N
    <3>1. S \subseteq I
      BY <2>1
    <3> HIDE DEF I
    <3>2. s \in [1 .. c -> I]
      BY <2>2, <3>1
    <3>3. s \in Seq(I)
      BY <2>2, <3>2
    <3> QED BY <3>3 DEF I
  <2>4. Once(s) /\ Elements(s) = S
    BY <2>2 DEF Once, Elements
  <2>5. v[k] = s
    BY <1>5 DEF s, S
  <2> QED BY <2>3, <2>4, <2>5 DEF S
<1> HIDE DEF v
<1>8. ASSUME NEW k \in 1 .. R
      PROVE  /\ k \in 1 .. N /\ k - 1 \in 0 .. N /\ k \in Nat
             /\ W(k) \cap Completed[k - 1] = {}
             /\ \A x \in W(k) : prog[x].deps \subseteq Completed[k - 1]
             /\ Completed[k - 1] = UNION {W(j) : j \in 1 .. k - 1}
  <2>1. k \in 1 .. N /\ k - 1 \in 0 .. N /\ k \in Nat
    BY <1>3 DEF N
  <2> QED BY <1>2, <2>1 DEF Ready
<1>9. ASSUME NEW k \in 1 .. R PROVE Earlier(v, k) = Completed[k - 1]
  <2>1. \A u \in 1 .. k - 1 : u \in 1 .. R
    BY <1>3
  <2>2. \A u \in 1 .. k - 1 : Elements(v[u]) = W(u)
    BY <1>7, <2>1
  <2> QED BY <1>8, <2>2 DEF Earlier
<1>10. v \in Seq(Seq(1 .. N))
  <2> DEFINE Q == Seq(1 .. N)
  <2>1. \A k \in 1 .. R : v[k] \in Q
    BY <1>7
  <2> HIDE DEF Q
  <2>2. v \in [1 .. R -> Q]
    BY <1>5, <2>1 DEF v
  <2>3. v \in Seq(Q)
    BY <1>3, <2>2
  <2> QED BY <2>3 DEF Q
<1>11. Apart(v)
  <2>1. ASSUME NEW t \in 1 .. R, NEW u \in 1 .. R, t < u PROVE W(t) \cap W(u) = {}
    <3>1. t \in 1 .. u - 1
      BY <1>3, <2>1
    <3>2. W(t) \subseteq Completed[u - 1]
      BY <1>8, <3>1
    <3> QED BY <1>8, <3>2
  <2>2. ASSUME NEW t \in 1 .. R, NEW u \in 1 .. R, t # u PROVE W(t) \cap W(u) = {}
    <3>1. t < u \/ u < t
      BY <1>3, <2>2
    <3> QED BY <2>1, <3>1
  <2> QED BY <1>5, <1>7, <2>2 DEF Apart
<1>12. AllOf(v) = 1 .. N
  <2>1. UNION {ws[i] : i \in DOMAIN ws} = 1 .. N
    BY DEF Fragments, N
  <2>2. AllOf(v) = UNION {ws[i] : i \in DOMAIN ws}
    BY <1>5, <1>7 DEF AllOf
  <2> QED BY <2>1, <2>2
<1>13. AllOf(q) = {} /\ Elements(<<>>) = {}
  BY DEF AllOf, Elements
<1>14. \A w \in DOMAIN v : \A x \in Elements(v[w]) : prog[x].deps \subseteq Earlier(v, w)
  BY <1>5, <1>7, <1>8, <1>9
<1> QED BY <1>10, <1>11, <1>12, <1>13, <1>14 DEF Waiting, N, v

-----------------------------------------------------------------------------
(* WaveScheduler::execute *)

Queues == [t \in DOMAIN threads |-> threads[t].queue]

\* Along the scheduler's path every fragment is finished, queued, or, until a
\* panic, in a wave to come.
Scheduled ==
  /\ stage \in {"plan", "waves", "done"} /\ cores \in Nat \ {0}
  /\ stage = "plan" => threads = <<>> /\ finished = <<>> /\ waves = <<>> /\ verdict = "ok"
  /\ \A t \in DOMAIN threads : "queue" \in DOMAIN threads[t]
  /\ Placed(prog, finished, Queues)
  /\ stage # "plan" /\ verdict = "ok" => Waiting(prog, finished, Queues, waves)
  /\ stage = "done" /\ verdict = "ok" => AllOf(waves) = {} /\ AllOf(Queues) = {}

SInv ==
  /\ \E j \in DOMAIN Programs : program = Programs[j]
  /\ stage = "base" => path = "none" /\ finished = <<>> /\ waves = <<>> /\ verdict = "ok"
  /\ path = "scheduler" => Scheduled

LEMMA ProgramIs ==
  ASSUME \E j \in DOMAIN Programs : program = Programs[j]
  PROVE  Len(prog) \in Nat /\ program.cores \subseteq Nat \ {0}
BY GraphAssumption DEF prog

LEMMA NothingPlaced ==
  ASSUME NEW pr, Len(pr) \in Nat, NEW q, DOMAIN q = {}
  PROVE  Placed(pr, <<>>, q) /\ AllOf(q) = {}
<1> DEFINE e == <<>>
<1>1. e \in Seq(1 .. Len(pr)) /\ DOMAIN e = {}
  OBVIOUS
<1> HIDE DEF e
<1>2. Elements(e) = {} /\ Once(e)
  BY <1>1 DEF Elements, Once
<1>3. AllOf(q) = {} /\ Apart(q)
  BY DEF AllOf, Apart
<1>4. Placed(pr, e, q)
  BY <1>1, <1>2, <1>3 DEF Placed
<1> QED BY <1>3, <1>4 DEF e

LEMMA SInit == Init => SInv
BY DEF Init, SInv

\* A step that leaves the queues, what is finished and the waves as they are.
LEMMA SameQueues ==
  ASSUME Scheduled, prog' = prog, finished' = finished, waves' = waves, verdict' = verdict,
         stage' = stage, stage # "plan", cores' = cores, DOMAIN threads' = DOMAIN threads,
         \A t \in DOMAIN threads : /\ DOMAIN threads'[t] = DOMAIN threads[t]
                                   /\ threads'[t].queue = threads[t].queue
  PROVE  Scheduled'
<1>1. Queues' = Queues
  BY DEF Queues
<1> QED BY <1>1 DEF Scheduled

LEMMA SPlan == SInv /\ PlanScheduler => SInv'
<1> SUFFICES ASSUME SInv, PlanScheduler PROVE SInv'
  OBVIOUS
<1>1. /\ stage = "plan" /\ path = "scheduler" /\ program' = program /\ path' = path
      /\ cores' = cores /\ threads' = threads /\ finished' = finished /\ prog' = prog
  BY DEF PlanScheduler, prog
<1>2. /\ Scheduled /\ threads = <<>> /\ finished = <<>> /\ verdict = "ok"
      /\ cores \in Nat \ {0} /\ Placed(prog, <<>>, Queues)
  BY <1>1 DEF SInv, Scheduled
<1>3. Queues' = Queues /\ DOMAIN Queues = {} /\ DOMAIN threads' = {}
  BY <1>1, <1>2 DEF Queues
<1>4. Len(prog) \in Nat
  BY ProgramIs DEF SInv
<1>5. AllOf(Queues) = {}
  BY <1>3, <1>4, NothingPlaced
<1> DEFINE ws == compute_waves
<1>6. CASE UNION {ws[i] : i \in DOMAIN ws} # Fragments
  <2>1. stage' = "done" /\ verdict' = "deadlock"
    BY <1>6 DEF PlanScheduler
  <2> QED BY <1>1, <1>2, <1>3, <2>1 DEF SInv, Scheduled
<1>7. CASE UNION {ws[i] : i \in DOMAIN ws} = Fragments
  <2>1. /\ waves' = [i \in DOMAIN ws |-> Sorted(ws[i])] /\ verdict' = "ok"
        /\ stage' = IF ws = <<>> THEN "done" ELSE "waves"
    BY <1>2, <1>7 DEF PlanScheduler
  <2> HIDE DEF ws
  <2>2. Waiting(prog, <<>>, Queues, waves')
    BY <1>3, <1>4, <1>7, <2>1, PlanPlaced DEF ws
  <2>3. stage' = "done" => AllOf(waves') = {}
    <3>1. ws = <<>> => DOMAIN ws = {}
      OBVIOUS
    <3> QED BY <2>1, <3>1 DEF AllOf
  <2>4. stage' \in {"waves", "done"}
    BY <2>1
  <2>5. Scheduled'
    BY <1>1, <1>2, <1>3, <1>5, <2>1, <2>2, <2>3, <2>4 DEF Scheduled
  <2> QED BY <1>1, <2>4, <2>5 DEF SInv
<1> QED BY <1>6, <1>7

LEMMA SStart == SInv /\ StartScheduler => SInv'
<1> SUFFICES ASSUME SInv, StartScheduler PROVE SInv'
  OBVIOUS
<1> DEFINE wave == Head(waves)
           n == IF Len(wave) < cores THEN Len(wave) ELSE cores
<1>1. /\ stage = "waves" /\ path = "scheduler" /\ threads = <<>> /\ waves # <<>> /\ verdict = "ok"
      /\ waves' = Tail(waves) /\ program' = program /\ path' = path /\ stage' = stage
      /\ cores' = cores /\ finished' = finished /\ verdict' = verdict /\ prog' = prog
      /\ threads' = [t \in 1 .. n |-> Thread(Stripe(wave, t, n), WholeBuffer(buf), "ready")]
  BY DEF StartScheduler, prog
<1>2. Scheduled
  BY <1>1 DEF SInv
<1>3. /\ cores \in Nat \ {0} /\ Placed(prog, finished, Queues)
      /\ Waiting(prog, finished, Queues, waves)
  BY <1>1, <1>2 DEF Scheduled
<1>4. DOMAIN Queues = {}
  BY <1>1 DEF Queues
<1>5. AllOf(Queues) = {}
  BY <1>4 DEF AllOf
<1>6. Len(wave) \in Nat
  <2>1. waves \in Seq(Seq(1 .. Len(prog)))
    BY <1>3 DEF Waiting
  <2> QED BY <1>1, <2>1
<1>7. n \in Nat /\ n <= Len(wave) /\ (n = 0 => Len(wave) = 0)
  BY <1>3, <1>6
<1> DEFINE r == Queues'
<1>8. /\ DOMAIN r = 1 .. n /\ DOMAIN threads' = 1 .. n
      /\ \A t \in 1 .. n : "queue" \in DOMAIN threads'[t] /\ r[t] = Stripe(wave, t, n)
  <2> HIDE DEF n, wave
  <2> QED BY <1>1 DEF Queues, Thread
<1>9. Placed(prog, finished, r) /\ Waiting(prog, finished, r, Tail(waves))
  <2> HIDE DEF n, r
  <2> QED BY <1>1, <1>3, <1>5, <1>7, <1>8, StartPlaced
<1>10. Scheduled'
  BY <1>1, <1>3, <1>8, <1>9 DEF Scheduled
<1> QED BY <1>1, <1>10 DEF SInv

\* A thread arrives, locks, or executes an instruction.
LEMMA SThread ==
  ASSUME SInv, NEW t, Arrive(t) \/ LockBuffer(t) \/ LockedStep(t)
  PROVE  SInv'
<1>1. /\ stage = "waves" /\ path = "scheduler" /\ t \in DOMAIN threads
      /\ program' = program /\ path' = path /\ stage' = stage /\ cores' = cores
      /\ waves' = waves /\ finished' = finished /\ verdict' = verdict /\ prog' = prog
  BY DEF Arrive, LockBuffer, LockedStep, RunOp, Running, prog
<1>2. \/ \E a : threads' = [threads EXCEPT ![t].at = a]
      \/ \E m : threads' = [threads EXCEPT ![t].m = m]
  BY DEF Arrive, LockBuffer, LockedStep, RunOp, Becomes
<1>3. /\ DOMAIN threads' = DOMAIN threads
      /\ \A u \in DOMAIN threads : /\ DOMAIN threads'[u] = DOMAIN threads[u]
                                   /\ "queue" \in DOMAIN threads[u]
                                        => threads'[u].queue = threads[u].queue
  BY <1>2
<1>4. Scheduled
  BY <1>1 DEF SInv
<1>5. \A u \in DOMAIN threads : threads'[u].queue = threads[u].queue
  BY <1>3, <1>4 DEF Scheduled
<1>6. Scheduled'
  BY <1>1, <1>3, <1>4, <1>5, SameQueues
<1> QED BY <1>1, <1>6 DEF SInv

LEMMA SDone ==
  ASSUME SInv, NEW t, WorkerDone(t)
  PROVE  SInv'
<1>1. /\ stage = "waves" /\ t \in DOMAIN threads /\ threads[t].queue # <<>>
      /\ program' = program /\ path' = path /\ stage' = stage /\ cores' = cores
      /\ waves' = waves /\ prog' = prog
  BY DEF WorkerDone, Running, prog
<1>2. CASE path # "scheduler"
  BY <1>1, <1>2 DEF SInv
<1>3. CASE path = "scheduler"
  <2>1. Scheduled /\ cores \in Nat \ {0} /\ \A u \in DOMAIN threads : "queue" \in DOMAIN threads[u]
    BY <1>3 DEF SInv, Scheduled
  <2>2. Placed(prog, finished, Queues) /\ (verdict = "ok" => Waiting(prog, finished, Queues, waves))
    BY <1>1, <2>1 DEF Scheduled
  <2> DEFINE q == Queues
             r == Queues'
  <2>3. DOMAIN q = DOMAIN threads /\ DOMAIN r = DOMAIN threads'
        /\ (\A u \in DOMAIN threads : q[u] = threads[u].queue)
        /\ \A u \in DOMAIN threads' : r[u] = threads'[u].queue
    BY DEF Queues
  <2>4. CASE threads[t].m.out = "panic"
    <3>1. /\ verdict' = "panic" /\ finished' = finished
          /\ threads' = [u \in DOMAIN threads |-> [threads[u] EXCEPT !.queue = <<>>]]
      BY <1>3, <2>4 DEF WorkerDone
    <3>2. /\ DOMAIN threads' = DOMAIN threads
          /\ \A u \in DOMAIN threads : "queue" \in DOMAIN threads'[u] /\ threads'[u].queue = <<>>
      BY <2>1, <3>1
    <3>3. \A u \in DOMAIN r : r[u] = <<>>
      BY <2>3, <3>2
    <3> HIDE DEF q, r
    <3>4. Placed(prog, finished, r)
      BY <2>2, <3>3, EmptyPlaced
    <3> QED BY <1>1, <2>1, <3>1, <3>2, <3>4 DEF SInv, Scheduled, r
  <2>5. CASE threads[t].m.out # "panic"
    <3> DEFINE a == IF path = "scheduler" THEN "wait" ELSE "run"
    <3>1. finished' = Append(finished, Head(threads[t].queue)) /\ verdict' = verdict
      BY <2>5 DEF WorkerDone
    <3>2. threads' = [threads EXCEPT ![t].queue = Tail(@), ![t].m = NextMachine(t), ![t].at = a]
      BY <2>5 DEF WorkerDone
    <3> HIDE DEF a
    <3>3. /\ DOMAIN threads' = DOMAIN threads /\ threads'[t].queue = Tail(threads[t].queue)
          /\ \A u \in DOMAIN threads : DOMAIN threads'[u] = DOMAIN threads[u]
          /\ \A u \in DOMAIN threads : u # t => threads'[u] = threads[u]
      BY <1>1, <2>1, <3>2
    <3>4. /\ DOMAIN r = DOMAIN q /\ r[t] = Tail(q[t]) /\ q[t] # <<>> /\ t \in DOMAIN q
          /\ \A u \in DOMAIN q : u # t => r[u] = q[u]
      BY <1>1, <2>3, <3>3
    <3>5. finished' = Append(finished, Head(q[t]))
      BY <1>1, <2>3, <3>1
    <3> HIDE DEF q, r
    <3>6. /\ Placed(prog, finished', r)
          /\ Waiting(prog, finished, q, waves) => Waiting(prog, finished', r, waves)
      BY <2>2, <3>4, <3>5, FinishPlaced DEF q
    <3> QED BY <1>1, <2>1, <2>2, <3>1, <3>3, <3>6 DEF SInv, Scheduled, q, r
  <2> QED BY <2>4, <2>5
<1> QED BY <1>2, <1>3

LEMMA SJoin == SInv /\ Join => SInv'
<1> SUFFICES ASSUME SInv, Join PROVE SInv'
  OBVIOUS
<1>1. /\ stage = "waves" /\ \A t \in DOMAIN threads : threads[t].queue = <<>>
      /\ program' = program /\ path' = path /\ cores' = cores /\ prog' = prog
      /\ waves' = waves /\ finished' = finished /\ verdict' = verdict /\ threads' = <<>>
      /\ stage' = IF waves = <<>> \/ verdict # "ok" THEN "done" ELSE "waves"
  BY DEF Join, prog
<1>2. stage' \in {"waves", "done"}
  BY <1>1
<1>3. CASE path # "scheduler"
  BY <1>1, <1>2, <1>3 DEF SInv
<1>4. CASE path = "scheduler"
  <2>1. /\ Scheduled /\ cores \in Nat \ {0} /\ Placed(prog, finished, Queues)
        /\ verdict = "ok" => Waiting(prog, finished, Queues, waves)
    BY <1>1, <1>4 DEF SInv, Scheduled
  <2> DEFINE q == Queues
             r == Queues'
  <2>2. DOMAIN r = {} /\ DOMAIN threads' = {} /\ \A t \in DOMAIN q : q[t] = <<>>
    BY <1>1 DEF Queues
  <2> HIDE DEF q, r
  <2>3. AllOf(q) = {}
    BY <2>1, <2>2, EmptyPlaced DEF q
  <2>4. /\ Placed(prog, finished, r) /\ AllOf(r) = {}
        /\ verdict = "ok" => Waiting(prog, finished, r, waves)
    BY <2>1, <2>2, <2>3, EmptyPlaced DEF q
  <2>5. waves = <<>> => AllOf(waves) = {}
    BY DEF AllOf
  <2>6. Scheduled'
    BY <1>1, <1>2, <2>1, <2>2, <2>4, <2>5 DEF Scheduled, r
  <2> QED BY <1>1, <1>2, <2>6 DEF SInv
<1> QED BY <1>3, <1>4

LEMMA SBase == SInv /\ BaseDone => SInv'
<1> SUFFICES ASSUME SInv, BaseDone PROVE SInv'
  OBVIOUS
<1>1. /\ stage = "base" /\ threads' = <<>> /\ program' = program /\ waves' = waves
      /\ finished' = finished /\ verdict' = verdict /\ prog' = prog
      /\ \/ stage' = "plan" /\ cores' \in CoresOf(path')
         \/ stage' = "done" /\ path' = path
  BY DEF BaseDone, prog
<1>2. path = "none" /\ finished = <<>> /\ waves = <<>> /\ verdict = "ok"
  BY <1>1 DEF SInv
<1>3. ASSUME path' = "scheduler" PROVE Scheduled'
  <2>1. stage' = "plan" /\ cores' \in program.cores
    BY <1>1, <1>2, <1>3 DEF CoresOf
  <2>2. Len(prog) \in Nat /\ cores' \in Nat \ {0}
    BY <2>1, ProgramIs DEF SInv
  <2>3. DOMAIN Queues' = {} /\ DOMAIN threads' = {}
    BY <1>1 DEF Queues
  <2>4. Placed(prog, <<>>, Queues')
    BY <2>2, <2>3, NothingPlaced
  <2> QED BY <1>1, <1>2, <2>1, <2>2, <2>3, <2>4 DEF Scheduled
<1> QED BY <1>1, <1>3 DEF SInv

\* The steps of the other paths.
LEMMA SOthers ==
  ASSUME SInv,
         \/ SequentialStep \/ SequentialNext \/ ExecDone \/ PlanCores \/ StartCores
         \/ (\E t \in 1 .. Len(prog) : WorkerStep(t)) \/ Validate \/ WalkStep \/ Admitted
  PROVE  SInv'
<1>1. /\ program' = program /\ path' = path
      /\ \/ stage' = stage /\ waves' = waves /\ finished' = finished /\ verdict' = verdict
            /\ stage \in {"base", "exec"}
         \/ stage' # "base" /\ path # "scheduler"
         \/ stage' # "base" /\ stage \in {"exec", "walk"}
  BY DEF SequentialStep, SequentialNext, ExecDone, PlanCores, StartCores, WorkerStep, Validate,
         WalkStep, Admitted
<1> QED BY <1>1 DEF SInv, Scheduled

LEMMA SStep == SInv /\ [Next]_vars => SInv'
<1> SUFFICES ASSUME SInv, [Next]_vars PROVE SInv'
  OBVIOUS
<1>1. CASE UNCHANGED vars
  <2>1. /\ program' = program /\ path' = path /\ stage' = stage /\ cores' = cores
        /\ waves' = waves /\ finished' = finished /\ verdict' = verdict /\ threads' = threads
    BY <1>1 DEF vars
  <2> QED BY <2>1 DEF SInv, Scheduled, Queues, prog
<1>2. CASE Next
  BY <1>1, <1>2, SBase, SPlan, SStart, SThread, SDone, SJoin, SOthers DEF Next, Terminated
<1> QED BY <1>1, <1>2

LEMMA SImplies == SInv => SchedulerRespectsDependencies
<1> SUFFICES ASSUME SInv, path = "scheduler" PROVE SchedulerRespectsDependencies
  BY DEF SchedulerRespectsDependencies
<1>1. Scheduled /\ Placed(prog, finished, Queues)
  BY DEF SInv, Scheduled
<1>2. FinishedSet = Elements(finished)
  BY DEF FinishedSet, Elements
<1>3. ASSUME NEW t \in DOMAIN threads, Running(t) PROVE Current(t).deps \subseteq FinishedSet
  <2> DEFINE s == Queues[t]
  <2>1. s = threads[t].queue /\ t \in DOMAIN Queues /\ s # <<>>
    BY <1>3 DEF Queues, Running
  <2>2. s \in Seq(1 .. Len(prog))
    BY <1>1, <2>1 DEF Placed
  <2> HIDE DEF s
  <2>3. Head(s) \in Elements(s)
    BY <2>1, <2>2, ElementsOf
  <2>4. Head(s) \in AllOf(Queues)
    BY <2>1, <2>3 DEF AllOf, s
  <2> QED BY <1>1, <1>2, <2>1, <2>4 DEF Placed, Current
<1>4. \A i, j \in DOMAIN finished : finished[i] = finished[j] => i = j
  BY <1>1 DEF Placed, Once
<1>5. ASSUME stage = "done", verdict = "ok" PROVE FinishedSet = Fragments
  <2>1. Waiting(prog, finished, Queues, waves) /\ AllOf(waves) = {} /\ AllOf(Queues) = {}
    BY <1>1, <1>5 DEF Scheduled
  <2>2. Elements(finished) \subseteq 1 .. Len(prog)
    BY <1>1 DEF Placed, Elements
  <2> QED BY <1>2, <2>1, <2>2 DEF Waiting, Fragments
<1> QED BY <1>3, <1>4, <1>5 DEF SchedulerRespectsDependencies

\* WaveScheduler::execute runs a fragment only when what it depends on has been
\* run, never runs one twice, and when it returns without an error has run them
\* all: for every program, every depends_on relation and every number of threads.
THEOREM SchedulerKeepsDependencies == Spec => []SchedulerRespectsDependencies
<1>1. SInv => SchedulerRespectsDependencies
  BY SImplies
<1> QED BY <1>1, SInit, SStep, PTL DEF Spec

=============================================================================
