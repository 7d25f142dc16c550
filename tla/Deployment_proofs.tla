-------------------------- MODULE Deployment_proofs --------------------------
(***************************************************************************)
(* Published artifacts are whole, for any number of processes, versions of *)
(* the source and kernels, and whatever the processes of a scenario do.    *)
(*                                                                         *)
(* A process is a list of file operations, and what it may rely on at one  *)
(* of them is what the operations before it have established.  The lists   *)
(* are therefore described by a relation: Follows(a, b) says that b may    *)
(* come right after a, and a list is a Chain of it.  The first part proves *)
(* that every script of Deployment, and every list that a process goes on  *)
(* with, is such a chain, whatever the number of kernels, ranges and       *)
(* workers.  The invariant PInv then says of the operation a process has   *)
(* come to what it knows there (Knows), what the only publisher of a       *)
(* directory has written so far (Writing), and what a process that makes a *)
(* resource file has in its temporary (Bundling).                          *)
(***************************************************************************)
EXTENDS Deployment, FiniteSetTheorems, TLAPS

-----------------------------------------------------------------------------
(* Induction, tuples and flattened sequences *)

\* Induction on the naturals for a set: the successor maps the members below a
\* missing one into those that are not 0, and there is one fewer of these.
LEMMA NatSetInduction ==
  ASSUME NEW S, 0 \in S, \A n \in Nat : n \in S => n + 1 \in S
  PROVE  Nat \subseteq S
<1> SUFFICES ASSUME NEW n \in Nat, n \notin S PROVE FALSE
  OBVIOUS
<1> DEFINE T == {k \in Nat : k \in S /\ k < n}
           f == [k \in T |-> k + 1]
<1>1. IsFiniteSet(T) /\ Cardinality(T) \in Nat
  <2>1. T \in SUBSET Nat /\ \A k \in T : k <= n
    OBVIOUS
  <2> HIDE DEF T
  <2>2. IsFiniteSet(T)
    BY <2>1, FS_BoundedSetOfNaturals
  <2> QED BY <2>2, FS_CardinalityType
<1>2. 0 \in T
  OBVIOUS
<1>3. IsFiniteSet(T \ {0}) /\ Cardinality(T \ {0}) = Cardinality(T) - 1
  BY <1>1, <1>2, FS_RemoveElement
<1>4. f \in [T -> T \ {0}]
  <2> SUFFICES ASSUME NEW k \in T PROVE k + 1 \in T \ {0}
    OBVIOUS
  <2> QED OBVIOUS
<1>5. PICK x \in T, y \in T : x # y /\ f[x] = f[y]
  <2> HIDE DEF f, T
  <2>1. Cardinality(T \ {0}) < Cardinality(T)
    BY <1>1, <1>3
  <2> QED BY <1>1, <1>3, <1>4, <2>1, FS_PigeonHole
<1> QED
  BY <1>5

\* A sequence of two or of four is the tuple of its elements.
LEMMA TwoOf ==
  ASSUME NEW S, NEW s \in Seq(S), NEW a, NEW b, Len(s) = 2, s[1] = a, s[2] = b
  PROVE  s = <<a, b>>
  OBVIOUS

LEMMA FourOf ==
  ASSUME NEW S, NEW s \in Seq(S), NEW a, NEW b, NEW c, NEW d,
         Len(s) = 4, s[1] = a, s[2] = b, s[3] = c, s[4] = d
  PROVE  s = <<a, b, c, d>>
  OBVIOUS

\* The name of a file, and the directory it is in.
LEMMA PathIs ==
  ASSUME NEW a, NEW b, NEW c, NEW d
  PROVE  Path(<<a, b>>, c, d) = <<a, b, c, d>>
<1> DEFINE S == {a, b, c, d}
           s == <<a, b>> \o <<c, d>>
<1>1. s \in Seq(S) /\ Len(s) = 4 /\ s[1] = a /\ s[2] = b /\ s[3] = c /\ s[4] = d
  OBVIOUS
<1> HIDE DEF S, s
<1>2. s = <<a, b, c, d>>
  BY <1>1, FourOf
<1> QED BY <1>2 DEF Path, s

LEMMA PathSub ==
  ASSUME NEW a, NEW b, NEW c, NEW d
  PROVE  SubSeq(<<a, b, c, d>>, 1, 2) = <<a, b>>
<1> DEFINE S == {a, b, c, d}
           s == SubSeq(<<a, b, c, d>>, 1, 2)
<1>1. <<a, b, c, d>> \in Seq(S)
  OBVIOUS
<1>2. s \in Seq(S) /\ Len(s) = 2 /\ s[1] = a /\ s[2] = b
  BY <1>1
<1> HIDE DEF S, s
<1>3. s = <<a, b>>
  BY <1>2, TwoOf
<1> QED BY <1>3 DEF s

\* The recursive function behind FlattenSeq satisfies its equation.
Flattened(s, g, n) ==
  \A i \in 1 .. n : g[i] = IF i = 1 THEN s[i] ELSE g[i - 1] \o s[i]

LEMMA FlattenExists ==
  ASSUME NEW S, NEW s \in Seq(Seq(S))
  PROVE  \A n \in Nat : n <= Len(s) => \E g \in [1 .. n -> Seq(S)] : Flattened(s, g, n)
<1> DEFINE T == {n \in Nat : n <= Len(s) => \E g \in [1 .. n -> Seq(S)] : Flattened(s, g, n)}
<1>1. 0 \in T
  <2> DEFINE g == [i \in 1 .. 0 |-> <<>>]
  <2>1. g \in [1 .. 0 -> Seq(S)] /\ Flattened(s, g, 0)
    BY DEF Flattened
  <2> QED BY <2>1
<1>2. \A n \in Nat : n \in T => n + 1 \in T
  <2> SUFFICES ASSUME NEW n \in Nat, n \in T, n + 1 <= Len(s)
               PROVE  \E g \in [1 .. n + 1 -> Seq(S)] : Flattened(s, g, n + 1)
    OBVIOUS
  <2>1. PICK g \in [1 .. n -> Seq(S)] : Flattened(s, g, n)
    OBVIOUS
  <2>2. s[n + 1] \in Seq(S)
    OBVIOUS
  <2> DEFINE e == IF n = 0 THEN s[1] ELSE g[n] \o s[n + 1]
             h == [i \in 1 .. n + 1 |-> IF i = n + 1 THEN e ELSE g[i]]
  <2>3. e \in Seq(S)
    BY <2>2
  <2>4. h \in [1 .. n + 1 -> Seq(S)]
    BY <2>3
  <2>5. Flattened(s, h, n + 1)
    <3> SUFFICES ASSUME NEW i \in 1 .. n + 1
                 PROVE  h[i] = IF i = 1 THEN s[i] ELSE h[i - 1] \o s[i]
      BY DEF Flattened
    <3>1. CASE i = n + 1
      BY <3>1
    <3>2. CASE i # n + 1
      <4>1. i \in 1 .. n /\ (i # 1 => i - 1 \in 1 .. n)
        BY <3>2
      <4>2. g[i] = IF i = 1 THEN s[i] ELSE g[i - 1] \o s[i]
        BY <4>1, <2>1 DEF Flattened
      <4>3. h[i] = g[i] /\ (i # 1 => h[i - 1] = g[i - 1])
        BY <4>1, <3>2
      <4> QED BY <4>2, <4>3
    <3> QED BY <3>1, <3>2
  <2> QED BY <2>4, <2>5
<1> HIDE DEF T
<1>3. Nat \subseteq T
  BY <1>1, <1>2, NatSetInduction
<1> QED BY <1>3 DEF T

LEMMA FlattenIs ==
  ASSUME NEW S, NEW s \in Seq(Seq(S)), s # <<>>
  PROVE  \E g \in [1 .. Len(s) -> Seq(S)] :
           Flattened(s, g, Len(s)) /\ FlattenSeq(s) = g[Len(s)]
<1> DEFINE F(f) == [i \in 1 .. Len(s) |-> IF i = 1 THEN s[i] ELSE f[i - 1] \o s[i]]
           c == CHOOSE f : f = F(f)
<1>1. PICK g \in [1 .. Len(s) -> Seq(S)] : Flattened(s, g, Len(s))
  BY FlattenExists
<1>2. g = F(g)
  BY <1>1 DEF Flattened
<1>3. c = F(c)
  BY <1>2
<1>4. FlattenSeq(s) = c[Len(s)]
  BY DEF FlattenSeq
<1>5. Flattened(s, c, Len(s))
  BY <1>3 DEF Flattened
<1> DEFINE T == {n \in Nat : n \in 1 .. Len(s) => c[n] = g[n]}
<1> HIDE DEF c, F
<1>6. \A n \in Nat : n \in T => n + 1 \in T
  <2> SUFFICES ASSUME NEW n \in Nat, n \in T, n + 1 \in 1 .. Len(s)
               PROVE  c[n + 1] = g[n + 1]
    OBVIOUS
  <2>1. n = 0 \/ (n \in 1 .. Len(s) /\ c[n] = g[n])
    OBVIOUS
  <2>2. c[n + 1] = IF n + 1 = 1 THEN s[n + 1] ELSE c[(n + 1) - 1] \o s[n + 1]
    BY <1>5 DEF Flattened
  <2>3. g[n + 1] = IF n + 1 = 1 THEN s[n + 1] ELSE g[(n + 1) - 1] \o s[n + 1]
    BY <1>1 DEF Flattened
  <2>4. (n + 1) - 1 = n
    OBVIOUS
  <2> QED BY <2>1, <2>2, <2>3, <2>4
<1>7. 0 \in T
  OBVIOUS
<1> HIDE DEF T
<1>8. Nat \subseteq T
  BY <1>6, <1>7, NatSetInduction
<1>9. Len(s) \in Nat /\ Len(s) \in 1 .. Len(s)
  OBVIOUS
<1>10. c[Len(s)] = g[Len(s)]
  BY <1>8, <1>9 DEF T
<1> QED
  BY <1>1, <1>4, <1>10

-----------------------------------------------------------------------------
(* Scripts: which instruction may follow which *)

\* A list of instructions of S in which neighbours are related by R.
Chain(S, R, t) ==
  t \in Seq(S) /\ \A k \in 1 .. Len(t) - 1 : <<t[k], t[k + 1]>> \in R

\* A list that starts with a and ends with b.
Segment(S, R, t, a, b) == Chain(S, R, t) /\ t # <<>> /\ t[1] = a /\ t[Len(t)] = b

LEMMA ChainTail ==
  ASSUME NEW S, NEW R, NEW t, Chain(S, R, t), t # <<>>
  PROVE  /\ Chain(S, R, Tail(t))
         /\ Head(t) = t[1] /\ t[1] \in S
         /\ Tail(t) # <<>> => <<t[1], Tail(t)[1]>> \in R /\ Tail(t)[1] \in S
         /\ Tail(t) # <<>> => Len(t) >= 2 /\ Tail(t)[1] = t[2]
         /\ Tail(t) # <<>> => Tail(t)[Len(Tail(t))] = t[Len(t)]
<1>1. t \in Seq(S) /\ Len(t) \in Nat /\ Len(t) > 0
  BY DEF Chain
<1>2. Tail(t) \in Seq(S) /\ Len(Tail(t)) = Len(t) - 1
      /\ \A k \in 1 .. Len(t) - 1 : Tail(t)[k] = t[k + 1]
  BY <1>1
<1> DEFINE u == Tail(t)
<1> HIDE DEF u
<1>3. ASSUME NEW k \in 1 .. Len(u) - 1
      PROVE  <<u[k], u[k + 1]>> \in R
  <2>1. k \in 1 .. Len(t) - 1 /\ k + 1 \in 1 .. Len(t) - 1
    BY <1>1, <1>2 DEF u
  <2>2. u[k] = t[k + 1] /\ u[k + 1] = t[(k + 1) + 1]
    BY <1>2, <2>1 DEF u
  <2> QED BY <2>1, <2>2 DEF Chain
<1>4. Chain(S, R, u)
  BY <1>2, <1>3 DEF Chain, u
<1>5. Head(t) = t[1] /\ t[1] \in S
  BY <1>1
<1>6. u # <<>> => Len(t) >= 2 /\ u[1] = t[2] /\ u[1] \in S
  BY <1>1, <1>2 DEF u
<1>7. u # <<>> => <<t[1], u[1]>> \in R
  BY <1>1, <1>6 DEF Chain
<1>8. u # <<>> => u[Len(u)] = t[Len(t)]
  BY <1>1, <1>2, <1>6 DEF u
<1> QED
  BY <1>4, <1>5, <1>6, <1>7, <1>8 DEF u

LEMMA SegmentOne ==
  ASSUME NEW S, NEW R, NEW a \in S
  PROVE  Segment(S, R, <<a>>, a, a)
  BY DEF Segment, Chain

LEMMA SegmentTwo ==
  ASSUME NEW S, NEW R, NEW a \in S, NEW b \in S, <<a, b>> \in R
  PROVE  Segment(S, R, <<a, b>>, a, b)
<1>1. <<a, b>> \in Seq(S) /\ Len(<<a, b>>) = 2
  OBVIOUS
<1>2. \A k \in 1 .. 1 : k = 1
  OBVIOUS
<1> QED
  BY <1>1, <1>2 DEF Segment, Chain

LEMMA SegmentJoin ==
  ASSUME NEW S, NEW R, NEW s, NEW t, NEW a, NEW b, NEW c, NEW d,
         Segment(S, R, s, a, b), Segment(S, R, t, c, d), <<b, c>> \in R
  PROVE  Segment(S, R, s \o t, a, d)
<1>1. s \in Seq(S) /\ t \in Seq(S) /\ Len(s) \in Nat /\ Len(t) \in Nat
      /\ Len(s) > 0 /\ Len(t) > 0
  BY DEF Segment, Chain
<1> DEFINE u == s \o t
<1>2. /\ u \in Seq(S) /\ Len(u) = Len(s) + Len(t)
      /\ \A k \in 1 .. Len(s) : u[k] = s[k]
      /\ \A k \in 1 .. Len(t) : u[Len(s) + k] = t[k]
  BY <1>1
<1> HIDE DEF u
<1>3. ASSUME NEW k \in 1 .. Len(u) - 1
      PROVE  <<u[k], u[k + 1]>> \in R
  <2>1. CASE k < Len(s)
    <3>1. k \in 1 .. Len(s) - 1 /\ k \in 1 .. Len(s) /\ k + 1 \in 1 .. Len(s)
      BY <1>1, <1>2, <2>1
    <3>2. u[k] = s[k] /\ u[k + 1] = s[k + 1]
      BY <1>2, <3>1
    <3> QED BY <3>1, <3>2 DEF Segment, Chain
  <2>2. CASE k = Len(s)
    <3>1. u[k] = s[Len(s)]
      BY <1>1, <1>2, <2>2
    <3>2. u[k + 1] = t[1]
      BY <1>1, <1>2, <2>2
    <3> QED BY <3>1, <3>2 DEF Segment
  <2>3. CASE k > Len(s)
    <3> DEFINE l == k - Len(s)
    <3>1. l \in 1 .. Len(t) - 1 /\ l \in 1 .. Len(t) /\ l + 1 \in 1 .. Len(t)
          /\ k = Len(s) + l /\ k + 1 = Len(s) + (l + 1)
      BY <1>1, <1>2, <2>3
    <3> HIDE DEF l
    <3>2. u[k] = t[l] /\ u[k + 1] = t[l + 1]
      BY <1>2, <3>1
    <3> QED BY <3>1, <3>2 DEF Segment, Chain
  <2> QED BY <1>1, <1>2, <2>1, <2>2, <2>3
<1>4. u[1] = a /\ u # <<>>
  BY <1>1, <1>2 DEF Segment
<1>5. u[Len(u)] = d
  BY <1>1, <1>2 DEF Segment
<1> QED
  BY <1>2, <1>3, <1>4, <1>5 DEF Segment, Chain, u

\* Segments one after another, each of which may follow the one before it.
LEMMA SegmentFlatten ==
  ASSUME NEW S, NEW R, NEW s \in Seq(Seq(S)), s # <<>>,
         NEW a, NEW b,
         \A i \in 1 .. Len(s) : Segment(S, R, s[i], a[i], b[i]),
         \A i \in 1 .. Len(s) - 1 : <<b[i], a[i + 1]>> \in R
  PROVE  Segment(S, R, FlattenSeq(s), a[1], b[Len(s)])
<1>1. PICK g \in [1 .. Len(s) -> Seq(S)] :
        Flattened(s, g, Len(s)) /\ FlattenSeq(s) = g[Len(s)]
  BY FlattenIs
<1> DEFINE T == {n \in Nat : n \in 1 .. Len(s) => Segment(S, R, g[n], a[1], b[n])}
<1>2. 0 \in T
  OBVIOUS
<1>3. \A n \in Nat : n \in T => n + 1 \in T
  <2> SUFFICES ASSUME NEW n \in Nat, n \in T PROVE n + 1 \in T
    OBVIOUS
  <2> SUFFICES ASSUME n + 1 \in 1 .. Len(s)
               PROVE  Segment(S, R, g[n + 1], a[1], b[n + 1])
    BY n + 1 \in Nat
  <2>1. g[n + 1] = IF n + 1 = 1 THEN s[n + 1] ELSE g[(n + 1) - 1] \o s[n + 1]
    BY <1>1 DEF Flattened
  <2>2. Segment(S, R, s[n + 1], a[n + 1], b[n + 1])
    <3> HIDE DEF T
    <3> DEFINE m == n + 1
    <3>1. m \in 1 .. Len(s)
      OBVIOUS
    <3> HIDE DEF m
    <3>2. Segment(S, R, s[m], a[m], b[m])
      BY <3>1
    <3> QED BY <3>2 DEF m
  <2>3. CASE n = 0
    BY <2>1, <2>2, <2>3
  <2>4. CASE n # 0
    <3>1. n \in 1 .. Len(s) /\ n \in 1 .. Len(s) - 1 /\ (n + 1) - 1 = n
      BY <2>4
    <3>2. Segment(S, R, g[n], a[1], b[n]) /\ <<b[n], a[n + 1]>> \in R
      BY <3>1
    <3>3. g[n + 1] = g[n] \o s[n + 1]
      BY <2>1, <2>4, <3>1
    <3>4. Segment(S, R, g[n] \o s[n + 1], a[1], b[n + 1])
      BY <2>2, <3>2, SegmentJoin
    <3> QED BY <3>3, <3>4
  <2> QED BY <2>3, <2>4
<1> HIDE DEF T
<1>4. Nat \subseteq T
  BY <1>2, <1>3, NatSetInduction
<1>5. Len(s) \in Nat /\ Len(s) \in 1 .. Len(s)
  OBVIOUS
<1> QED
  BY <1>1, <1>4, <1>5 DEF T

-----------------------------------------------------------------------------
(* The instructions of a process and the order of a script *)

Dirs(p) == {ModelDir, Prepared, ShardDir, AotDir, Snapshot(p)} \cup {Remote(i) : i \in Nat}

OpNames ==
  {"check empty", "make all", "compile", "create", "fill", "read manifest", "read trusted",
   "open source", "read kernel", "before", "pin", "same", "keep", "native", "symbolic",
   "assign", "require v4", "make", "make shard", "open copy", "copy", "scp status",
   "read descriptor", "read payload",
   "read plan", "match plan", "mkdir", "serve", "ready", "is file", "plan workers",
   "connect", "answer", "coverage", "open gguf", "open resource", "absent",
   "create temporary", "fill temporary", "link"}
FileNames ==
  {"", "symbolic.json", "causal.json", "kernel", "weights.bin", "weights.json", "plan.json",
   "model.bin", "app", "native", "v1", "v2", "v3", "v4"}

Publishes(j) == j.role \in {"compile", "causal"}
Bundles(j) == j.role \in {"write model", "append"}
Destination(j) == IF j.role = "write model" THEN "model.bin" ELSE "app"
ManifestNames == {"symbolic.json", "causal.json"}

\* A compiler works in the artifact directory only.
PublisherMay(o) ==
  /\ o.dir = ModelDir
  /\ \/ o.op \in {"check empty", "make all"}
     \/ o.op = "compile" /\ o.file \in Profiles
     \/ /\ o.op \in {"create", "fill"}
        /\ \/ o.file = "kernel" /\ o.i \in 1 .. Kernels
           \/ o.file \in ManifestNames /\ o.i = 0

\* A process that makes a resource file links one destination.
BundlerMay(j, o) ==
  /\ o.dir = AotDir /\ o.i = 0
  /\ \/ o.op = "open resource"
     \/ /\ o.op \in {"open gguf", "absent", "create temporary", "fill temporary", "link"}
        /\ o.file = Destination(j)

\* Any other process leaves the artifact directory and the resource files alone.
OtherMay(p, j, o) ==
  /\ o.op \in {"read manifest", "read trusted", "open source", "read kernel", "before", "pin",
               "same", "keep", "native", "symbolic", "assign", "require v4", "make",
               "make shard", "open copy", "copy", "scp status", "create", "fill", "read descriptor", "read payload",
               "read plan", "match plan", "mkdir", "serve", "ready", "is file",
               "plan workers", "connect", "answer", "coverage"}
  /\ o.op = "read kernel" => o.i \in 1 .. Kernels
  /\ o.op \in {"create", "fill"} => /\ o.dir \in {Prepared, ShardDir, Snapshot(p)}
                                    /\ o.file \in {"weights.bin", "weights.json", "plan.json"}
  /\ o.op \in {"open copy", "copy"} => o.to \in {Prepared, Snapshot(p)} \cup {Remote(i) : i \in Nat}
  /\ o.op = "make" => o.dir \in {Prepared, Snapshot(p)}
  /\ o.op = "make shard" => o.dir \in {Prepared, ShardDir}
  /\ o.op \in {"serve", "ready"} => j.role = "worker"

Instrs(p, j) ==
  {o \in [op : OpNames, dir : Dirs(p), file : FileNames, i : Nat, to : Dirs(p), slot : Nat] :
     IF Publishes(j) THEN PublisherMay(o)
     ELSE IF Bundles(j) THEN BundlerMay(j, o) ELSE OtherMay(p, j, o)}

\* The instructions that use what has just been loaded.
AfterLoad == {"keep", "assign", "match plan", "plan workers"}

\* What has to come right before an instruction.
Follows(a, b) ==
  /\ b.op = "open source" /\ b.i = 0 => a.op = "read manifest"
  /\ b.op = "read kernel" => \/ /\ b.i = 1
                                /\ a.op = "read trusted" \/ (a.op = "open source" /\ a.i = 0)
                             \/ a.op = "read kernel" /\ b.i = a.i + 1
  /\ b.op \in AfterLoad => a.op = "read kernel" /\ a.i = Kernels
  /\ b.op = "check empty" => a.op \in {"compile", "make all"}
  /\ b.op = "make all" => a.op \in {"compile", "check empty"}
  /\ b.op = "create" /\ b.dir = ModelDir =>
       \/ a.op = "check empty" /\ b.file = "kernel" /\ b.i = 1
       \/ /\ a.op = "fill" /\ a.dir = ModelDir /\ a.file = "kernel"
          /\ IF b.file = "kernel" THEN b.i = a.i + 1 ELSE a.i = Kernels
  /\ b.op = "fill" /\ b.dir = ModelDir =>
       a.op = "create" /\ a.dir = ModelDir /\ a.file = b.file /\ a.i = b.i
  /\ b.op = "absent" => a.op \in {"open gguf", "open resource"}
  /\ b.op = "create temporary" => a.op = "absent"
  /\ b.op = "fill temporary" => a.op = "create temporary"
  /\ b.op = "link" => a.op = "fill temporary"

Order(p, j) == {c \in Instrs(p, j) \X Instrs(p, j) : Follows(c[1], c[2])}
Listed(p, j, t) == Chain(Instrs(p, j), Order(p, j), t)

-----------------------------------------------------------------------------
(* The inductive invariant of PublishedIsWhole *)

\* The first n kernels that m's manifest names have been read and verified.
Loaded(m, n) ==
  /\ m.manifest \in Manifests
  /\ m.source \in {None, m.manifest.source}
  /\ m.kernels = [i \in 1 .. n |-> m.manifest.kernels[i]]

\* What a process knows when it comes to an instruction.
Knows(j, t, m) ==
  t # <<>> =>
    /\ t[1].op = "open source" /\ t[1].i = 0 => Loaded(m, 0) /\ m.source = None
    /\ t[1].op = "read kernel" => Loaded(m, t[1].i - 1)
    /\ t[1].op \in AfterLoad => Loaded(m, Kernels)
    /\ Publishes(j) /\ ( \/ t[1].op \in {"make all", "create", "fill"}
                         \/ t[1].op = "check empty" /\ Len(t) >= 2 /\ t[2].op # "compile")
         => m.manifest \in Manifests
    /\ t[1].op \in {"absent", "create temporary", "fill temporary"} => m.source.kind = "resource"

MemoryFields == {"before", "manifest", "source", "kernels", "shard", "ids", "model", "plan",
                 "ranges", "shards", "native", "owns", "copied", "partial"}
IsMemory(m) == m = [field \in MemoryFields |-> m[field]]

\* What a file is said to hold.
Content(content) == content.kind = "manifest" => content \in Manifests

Remembers(p, m) ==
  /\ IsMemory(m)
  /\ m.manifest \in {None} \cup Manifests
  /\ m.plan = None \/ m.plan.kind = "plan"
  /\ m.owns \in {<<>>, Prepared, ShardDir, Snapshot(p), Temporary(p)}
  /\ m.model.manifest # None => Whole(m.model)
  /\ Content(m.copied)

\* Every file that says it is a manifest is one, and resource files are complete.
Sound(f) ==
  /\ Source \in DOMAIN f => f[Source] \in Sources
  /\ \A path \in DOMAIN f : f[path].kind = "manifest" => f[path] \in Manifests
  /\ \A path \in DOMAIN f : SubSeq(path, 1, 2) = AotDir => f[path].kind = "resource"

KernelAt(f, i, kernels) ==
  /\ Path(ModelDir, "kernel", i) \in DOMAIN f
  /\ f[Path(ModelDir, "kernel", i)] = kernels[i]

ManifestAt(f, name) ==
  Path(ModelDir, name, 0) \in DOMAIN f /\ f[Path(ModelDir, name, 0)].kind = "manifest"

ModelWhole(f) ==
  \A name \in ManifestNames : ManifestAt(f, name) =>
    \A i \in 1 .. Kernels : KernelAt(f, i, f[Path(ModelDir, name, 0)].kernels)

\* The only publisher writes: no manifest yet, and the kernels so far are there.
Writing(t, m, f) ==
  t # <<>> /\ t[1].op \in {"create", "fill"} =>
    /\ \A name \in ManifestNames : ~ManifestAt(f, name)
    /\ \A i \in 1 .. Kernels : t[1].file # "kernel" \/ i < t[1].i =>
         KernelAt(f, i, m.manifest.kernels)

\* A bundler: its list ends with the link, which finds a complete temporary.
Bundling(p, j, t, f, st) ==
  /\ st \in {"run", "ok", "failed"}
  /\ t # <<>> => t[Len(t)].op = "link"
  /\ t # <<>> /\ t[1].op = "link" =>
       /\ Path(Temporary(p), t[1].file, 0) \in DOMAIN f
       /\ f[Path(Temporary(p), t[1].file, 0)].kind = "resource"
  /\ st = "ok" => Path(AotDir, Destination(j), 0) \in DOMAIN f /\ t = <<>>

PInv ==
  /\ \E s \in Scenarios : job = s.job
  /\ DOMAIN todo = Procs /\ DOMAIN mem = Procs /\ DOMAIN status = Procs
  /\ \A p \in Procs :
       /\ Listed(p, job[p], todo[p])
       /\ Knows(job[p], todo[p], mem[p])
       /\ Remembers(p, mem[p])
       /\ status[p] = "serving" => job[p].role = "worker"
       /\ Bundles(job[p]) => Bundling(p, job[p], todo[p], fs, status[p])
       /\ Publishers = {p} => ModelWhole(fs) /\ Writing(todo[p], mem[p], fs)
  /\ Sound(fs)
  /\ \A p, q \in Procs :
       (Bundles(job[p]) /\ job[p].role = job[q].role /\ status[p] = "ok" /\ status[q] = "ok")
         => p = q

-----------------------------------------------------------------------------
(* The scripts keep the order *)

\* An instruction that may follow any other.
Free(o) ==
  /\ o.op \notin AfterLoad \cup {"read kernel", "check empty", "make all", "absent",
                  "create temporary", "fill temporary", "link"}
  /\ o.op = "open source" => o.i # 0
  /\ o.op \in {"create", "fill"} => o.dir # ModelDir

FreeList(p, j, t) == Listed(p, j, t) /\ t # <<>> /\ Free(t[1])

LEMMA FreeFollows ==
  ASSUME NEW p, NEW j, NEW a \in Instrs(p, j), NEW b \in Instrs(p, j), Free(b)
  PROVE  <<a, b>> \in Order(p, j)
<1>1. Follows(a, b)
  BY DEF Free, AfterLoad, Follows
<1> QED BY <1>1 DEF Order

LEMMA ListedSegment ==
  ASSUME NEW p, NEW j, NEW t, Listed(p, j, t), t # <<>>
  PROVE  /\ Segment(Instrs(p, j), Order(p, j), t, t[1], t[Len(t)])
         /\ t \in Seq(Instrs(p, j))
         /\ t[1] \in Instrs(p, j) /\ t[Len(t)] \in Instrs(p, j)
<1>1. t \in Seq(Instrs(p, j))
  BY DEF Listed, Chain
<1> QED BY <1>1 DEF Listed, Segment, Chain

LEMMA SegmentListed ==
  ASSUME NEW p, NEW j, NEW t, NEW a, NEW b, Segment(Instrs(p, j), Order(p, j), t, a, b)
  PROVE  Listed(p, j, t) /\ t # <<>> /\ t[1] = a /\ t[Len(t)] = b
  BY DEF Segment, Listed

LEMMA FreeJoin ==
  ASSUME NEW p, NEW j, NEW s, NEW t, Listed(p, j, s), s # <<>>, FreeList(p, j, t)
  PROVE  Listed(p, j, s \o t) /\ s \o t # <<>> /\ (s \o t)[1] = s[1]
<1>1. Segment(Instrs(p, j), Order(p, j), s, s[1], s[Len(s)]) /\ s[Len(s)] \in Instrs(p, j)
  BY ListedSegment
<1>2. /\ Segment(Instrs(p, j), Order(p, j), t, t[1], t[Len(t)])
      /\ t[1] \in Instrs(p, j) /\ Free(t[1])
  BY ListedSegment DEF FreeList
<1>3. <<s[Len(s)], t[1]>> \in Order(p, j)
  BY <1>1, <1>2, FreeFollows
<1>4. Segment(Instrs(p, j), Order(p, j), s \o t, s[1], t[Len(t)])
  BY <1>1, <1>2, <1>3, SegmentJoin
<1> QED BY <1>4, SegmentListed

LEMMA FreeJoins ==
  ASSUME NEW p, NEW j, NEW s, NEW t, FreeList(p, j, s), FreeList(p, j, t)
  PROVE  FreeList(p, j, s \o t)
<1>1. Listed(p, j, s) /\ s # <<>> /\ Free(s[1])
  BY DEF FreeList
<1>2. Listed(p, j, s \o t) /\ s \o t # <<>> /\ (s \o t)[1] = s[1]
  BY <1>1, FreeJoin
<1> QED BY <1>1, <1>2 DEF FreeList

\* A list of instructions that may all follow any other.
LEMMA FreeAll ==
  ASSUME NEW p, NEW j, NEW t \in Seq(Instrs(p, j)), t # <<>>,
         \A k \in 1 .. Len(t) : Free(t[k])
  PROVE  FreeList(p, j, t)
<1>1. Len(t) \in Nat /\ Len(t) > 0
  OBVIOUS
<1>2. ASSUME NEW k \in 1 .. Len(t) - 1 PROVE <<t[k], t[k + 1]>> \in Order(p, j)
  <2>1. t[k] \in Instrs(p, j) /\ t[k + 1] \in Instrs(p, j) /\ k + 1 \in 1 .. Len(t)
    BY <1>1
  <2>2. Free(t[k + 1])
    BY <2>1
  <2> QED BY <2>1, <2>2, FreeFollows
<1> QED BY <1>1, <1>2 DEF FreeList, Listed, Chain

\* A loop over lists that may follow any instruction.
LEMMA FreeFlatten ==
  ASSUME NEW p, NEW j, NEW n \in Nat, n > 0, NEW s,
         s = [i \in 1 .. n |-> s[i]],
         \A i \in 1 .. n : FreeList(p, j, s[i])
  PROVE  FreeList(p, j, FlattenSeq(s))
<1> DEFINE S == Instrs(p, j)
           R == Order(p, j)
           a == [i \in 1 .. n |-> s[i][1]]
           b == [i \in 1 .. n |-> s[i][Len(s[i])]]
<1>1. ASSUME NEW i \in 1 .. n
      PROVE  /\ Segment(S, R, s[i], a[i], b[i]) /\ s[i] \in Seq(S)
             /\ a[i] \in S /\ b[i] \in S /\ Free(a[i])
  <2>1. Listed(p, j, s[i]) /\ s[i] # <<>> /\ Free(s[i][1])
    BY DEF FreeList
  <2> QED BY <2>1, ListedSegment
<1>2. s \in Seq(Seq(S)) /\ Len(s) = n /\ s # <<>>
  <2> HIDE DEF S
  <2>1. \A i \in 1 .. n : s[i] \in Seq(S)
    BY <1>1
  <2>2. s \in [1 .. n -> Seq(S)]
    BY <2>1
  <2> QED BY ONLY n \in Nat, n > 0, <2>2
<1>3. ASSUME NEW i \in 1 .. n - 1 PROVE <<b[i], a[i + 1]>> \in R
  <2>1. i \in 1 .. n /\ i + 1 \in 1 .. n
    OBVIOUS
  <2> HIDE DEF a, b
  <2>2. b[i] \in S /\ a[i + 1] \in S /\ Free(a[i + 1])
    BY <1>1, <2>1
  <2> QED BY <2>2, FreeFollows
<1> HIDE DEF S, R, a, b
<1>4. Segment(S, R, FlattenSeq(s), a[1], b[Len(s)])
  BY <1>1, <1>2, <1>3, SegmentFlatten
<1>5. Free(a[1])
  BY <1>1
<1> QED
  BY <1>4, <1>5, SegmentListed DEF FreeList, S, R

\* The processes that neither publish an artifact nor make a resource file.
Other(j) == ~Publishes(j) /\ ~Bundles(j)

Remotes == {Remote(i) : i \in Nat}

LEMMA DirsOf ==
  ASSUME NEW p
  PROVE  /\ {ModelDir, Prepared, ShardDir, AotDir, Snapshot(p)} \subseteq Dirs(p)
         /\ \A i \in Nat : Remote(i) \in Dirs(p) /\ Remote(i) \in Remotes
         /\ Remotes \subseteq Dirs(p)
  BY DEF Dirs, Remotes

LEMMA OpToIs ==
  ASSUME NEW op, NEW dir, NEW to, NEW file, NEW i
  PROVE  OpTo(op, dir, to, file, i) =
           [op |-> op, dir |-> dir, file |-> file, i |-> i, to |-> to, slot |-> 0]
  BY DEF Op, OpTo

LEMMA SlotIs ==
  ASSUME NEW op, NEW dir, NEW slot
  PROVE  Slot(op, dir, slot) =
           [op |-> op, dir |-> dir, file |-> "symbolic.json", i |-> 0, to |-> dir, slot |-> slot]
  BY DEF Op, Slot

LEMMA OtherInstr ==
  ASSUME NEW p, NEW j, Other(j), NEW op \in OpNames, NEW dir \in Dirs(p), NEW file \in FileNames,
         NEW i \in Nat, NEW to \in Dirs(p), NEW slot \in Nat, NEW o,
         o = [op |-> op, dir |-> dir, file |-> file, i |-> i, to |-> to, slot |-> slot],
         OtherMay(p, j, o)
  PROVE  o \in Instrs(p, j)
  BY DEF Other, Instrs

LEMMA OtherOp ==
  ASSUME NEW p, NEW j, Other(j), NEW op \in OpNames, NEW dir \in Dirs(p), NEW file \in FileNames,
         NEW i \in Nat, OtherMay(p, j, Op(op, dir, file, i))
  PROVE  Op(op, dir, file, i) \in Instrs(p, j)
  BY DEF Other, Instrs, Op

PlainOps == {"read manifest", "read trusted", "before", "pin", "same", "native", "symbolic",
             "require v4", "read descriptor", "read payload", "read plan",
             "mkdir", "scp status", "is file", "connect", "answer", "coverage"}

LEMMA PlainOp ==
  ASSUME NEW p, NEW j, Other(j), NEW op \in PlainOps, NEW dir \in Dirs(p), NEW file \in FileNames,
         NEW i \in Nat
  PROVE  Op(op, dir, file, i) \in Instrs(p, j) /\ Free(Op(op, dir, file, i))
<1>1. op \in OpNames
  BY DEF PlainOps, OpNames
<1>2. OtherMay(p, j, Op(op, dir, file, i))
  BY DEF PlainOps, OtherMay, Op
<1>3. Free(Op(op, dir, file, i))
  BY DEF PlainOps, Free, AfterLoad, Op
<1> QED BY <1>1, <1>2, <1>3, OtherOp

LEMMA PlainSlot ==
  ASSUME NEW p, NEW j, Other(j), NEW op \in PlainOps, NEW dir \in Dirs(p), NEW slot \in Nat
  PROVE  Slot(op, dir, slot) \in Instrs(p, j) /\ Free(Slot(op, dir, slot))
<1> DEFINE o == Slot(op, dir, slot)
<1>1. o = [op |-> op, dir |-> dir, file |-> "symbolic.json", i |-> 0, to |-> dir, slot |-> slot]
  BY SlotIs
<1> HIDE DEF o
<1>2. op \in OpNames /\ "symbolic.json" \in FileNames /\ 0 \in Nat
  BY DEF PlainOps, OpNames, FileNames
<1>3. OtherMay(p, j, o) /\ Free(o)
  BY <1>1 DEF PlainOps, OtherMay, Free, AfterLoad
<1>4. o \in Instrs(p, j)
  BY <1>1, <1>2, <1>3, OtherInstr
<1> QED BY <1>3, <1>4 DEF o

LEMMA KernelsAssumption == Kernels \in Nat /\ Kernels > 0
  BY DeploymentAssumption

LEMMA OpenOp ==
  ASSUME NEW p, NEW j, Other(j), NEW dir \in Dirs(p), NEW i \in Nat
  PROVE  /\ Op("open source", dir, "", i) \in Instrs(p, j)
         /\ i # 0 => Free(Op("open source", dir, "", i))
<1>1. "open source" \in OpNames /\ "" \in FileNames
  BY DEF OpNames, FileNames
<1>2. OtherMay(p, j, Op("open source", dir, "", i))
  BY DEF OtherMay, Op
<1>3. i # 0 => Free(Op("open source", dir, "", i))
  BY DEF Free, AfterLoad, Op
<1> QED BY <1>1, <1>2, <1>3, OtherOp

LEMMA KernelOp ==
  ASSUME NEW p, NEW j, Other(j), NEW dir \in Dirs(p)
  PROVE  /\ \A i \in 1 .. Kernels : Op("read kernel", dir, "kernel", i) \in Instrs(p, j)
         /\ Op("read kernel", dir, "kernel", 1) \in Instrs(p, j)
         /\ Op("read kernel", dir, "kernel", Kernels) \in Instrs(p, j)
         /\ Op("keep", dir, "", 0) \in Instrs(p, j)
<1>1. /\ {"read kernel", "keep"} \subseteq OpNames
      /\ {"", "kernel"} \subseteq FileNames /\ 0 \in Nat
  BY DEF OpNames, FileNames
<1>2. ASSUME NEW i \in 1 .. Kernels PROVE Op("read kernel", dir, "kernel", i) \in Instrs(p, j)
  <2>1. OtherMay(p, j, Op("read kernel", dir, "kernel", i)) /\ i \in Nat
    BY KernelsAssumption DEF OtherMay, Op
  <2> QED BY <1>1, <2>1, OtherOp
<1>3. OtherMay(p, j, Op("keep", dir, "", 0))
  BY DEF OtherMay, Op
<1>4. Op("keep", dir, "", 0) \in Instrs(p, j)
  BY <1>1, <1>3, OtherOp
<1>5. 1 \in 1 .. Kernels /\ Kernels \in 1 .. Kernels
  BY KernelsAssumption
<1> QED BY <1>2, <1>4, <1>5

LEMMA WriteOp ==
  ASSUME NEW p, NEW j, Other(j), NEW i \in Nat, NEW dir \in {Prepared, ShardDir, Snapshot(p)},
         NEW op \in {"create", "fill"}, NEW file \in {"weights.bin", "weights.json", "plan.json"}
  PROVE  Op(op, dir, file, i) \in Instrs(p, j) /\ Free(Op(op, dir, file, i))
<1>1. dir \in Dirs(p)
  BY DirsOf
<1>2. dir # ModelDir
  BY DEF Prepared, ShardDir, Snapshot, ModelDir
<1>3. op \in OpNames /\ file \in FileNames
  BY DEF OpNames, FileNames
<1>4. OtherMay(p, j, Op(op, dir, file, i))
  BY DEF OtherMay, Op
<1>5. Free(Op(op, dir, file, i))
  BY <1>2 DEF Free, AfterLoad, Op
<1> QED BY <1>1, <1>3, <1>4, <1>5, OtherOp

LEMMA CopyOp ==
  ASSUME NEW p, NEW j, Other(j), NEW i \in Nat, NEW dir \in Dirs(p), NEW file \in FileNames,
         NEW to \in {Prepared, Snapshot(p)} \cup Remotes, NEW op \in {"open copy", "copy"}
  PROVE  OpTo(op, dir, to, file, i) \in Instrs(p, j) /\ Free(OpTo(op, dir, to, file, i))
<1> DEFINE o == OpTo(op, dir, to, file, i)
<1>1. o = [op |-> op, dir |-> dir, file |-> file, i |-> i, to |-> to, slot |-> 0]
  BY OpToIs
<1> HIDE DEF o
<1>2. to \in Dirs(p)
  BY DirsOf
<1>3. op \in OpNames /\ 0 \in Nat
  BY DEF OpNames
<1>4. OtherMay(p, j, o)
  BY <1>1 DEF OtherMay, Remotes
<1>5. Free(o)
  BY <1>1 DEF Free, AfterLoad
<1>6. o \in Instrs(p, j)
  BY <1>1, <1>2, <1>3, <1>4, OtherInstr
<1> QED BY <1>5, <1>6 DEF o

LEMMA MakeOp ==
  ASSUME NEW p, NEW j, Other(j), NEW i \in Nat
  PROVE  /\ \A dir \in {Prepared, Snapshot(p)} :
              Op("make", dir, "", 0) \in Instrs(p, j) /\ Free(Op("make", dir, "", 0))
         /\ \A dir \in {Prepared, ShardDir} :
              /\ Op("make shard", dir, "weights.bin", i) \in Instrs(p, j)
              /\ Free(Op("make shard", dir, "weights.bin", i))
         /\ j.role = "worker" => \A dir \in Dirs(p), op \in {"serve", "ready"} :
              Op(op, dir, "", i) \in Instrs(p, j) /\ Free(Op(op, dir, "", i))
<1>0. /\ {"make", "make shard", "serve", "ready"} \subseteq OpNames
      /\ {"", "weights.bin"} \subseteq FileNames
  BY DEF OpNames, FileNames
<1>1. ASSUME NEW dir \in {Prepared, Snapshot(p)}
      PROVE  Op("make", dir, "", 0) \in Instrs(p, j) /\ Free(Op("make", dir, "", 0))
  <2>1. dir \in Dirs(p)
    BY DirsOf
  <2>2. OtherMay(p, j, Op("make", dir, "", 0)) /\ Free(Op("make", dir, "", 0))
    BY DEF OtherMay, Free, AfterLoad, Op
  <2> QED BY <1>0, <2>1, <2>2, OtherOp
<1>2. ASSUME NEW dir \in {Prepared, ShardDir}
      PROVE  /\ Op("make shard", dir, "weights.bin", i) \in Instrs(p, j)
             /\ Free(Op("make shard", dir, "weights.bin", i))
  <2>1. dir \in Dirs(p)
    BY DirsOf
  <2>2. /\ OtherMay(p, j, Op("make shard", dir, "weights.bin", i))
        /\ Free(Op("make shard", dir, "weights.bin", i))
    BY DEF OtherMay, Free, AfterLoad, Op
  <2> QED BY <1>0, <2>1, <2>2, OtherOp
<1>3. ASSUME j.role = "worker", NEW dir \in Dirs(p), NEW op \in {"serve", "ready"}
      PROVE  Op(op, dir, "", i) \in Instrs(p, j) /\ Free(Op(op, dir, "", i))
  <2>1. OtherMay(p, j, Op(op, dir, "", i)) /\ Free(Op(op, dir, "", i))
    BY <1>3 DEF OtherMay, Free, AfterLoad, Op
  <2> QED BY <1>0, <2>1, OtherOp
<1> QED BY <1>1, <1>2, <1>3

LEMMA FreeOne ==
  ASSUME NEW p, NEW j, NEW a \in Instrs(p, j), Free(a)
  PROVE  FreeList(p, j, <<a>>)
<1>1. <<a>> \in Seq(Instrs(p, j)) /\ <<a>> # <<>> /\ Len(<<a>>) = 1
  OBVIOUS
<1>2. \A k \in 1 .. Len(<<a>>) : Free(<<a>>[k])
  OBVIOUS
<1> QED BY <1>1, <1>2, FreeAll

LEMMA FreeTwo ==
  ASSUME NEW p, NEW j, NEW a \in Instrs(p, j), Free(a), NEW b \in Instrs(p, j), Free(b)
  PROVE  FreeList(p, j, <<a, b>>)
<1> DEFINE t == <<a, b>>
<1>1. t \in Seq(Instrs(p, j)) /\ t # <<>> /\ Len(t) = 2 /\ t[1] = a /\ t[2] = b
  OBVIOUS
<1> HIDE DEF t
<1>2. \A k \in 1 .. Len(t) : Free(t[k])
  BY <1>1
<1>3. FreeList(p, j, t)
  BY <1>1, <1>2, FreeAll
<1> QED BY <1>3 DEF t

LEMMA FreeThree ==
  ASSUME NEW p, NEW j, NEW a \in Instrs(p, j), Free(a), NEW b \in Instrs(p, j), Free(b),
         NEW c \in Instrs(p, j), Free(c)
  PROVE  FreeList(p, j, <<a, b, c>>)
<1> DEFINE t == <<a, b, c>>
<1>1. t \in Seq(Instrs(p, j)) /\ t # <<>> /\ Len(t) = 3 /\ t[1] = a /\ t[2] = b /\ t[3] = c
  OBVIOUS
<1> HIDE DEF t
<1>2. \A k \in 1 .. Len(t) : Free(t[k])
  BY <1>1
<1>3. FreeList(p, j, t)
  BY <1>1, <1>2, FreeAll
<1> QED BY <1>3 DEF t

LEMMA OrderIs ==
  ASSUME NEW p, NEW j, NEW a \in Instrs(p, j), NEW b \in Instrs(p, j), Follows(a, b)
  PROVE  <<a, b>> \in Order(p, j)
  BY DEF Order

LEMMA KernelReadsSegment ==
  ASSUME NEW p, NEW j, Other(j), NEW dir \in Dirs(p)
  PROVE  Segment(Instrs(p, j), Order(p, j), KernelReads(dir),
                 Op("read kernel", dir, "kernel", 1), Op("read kernel", dir, "kernel", Kernels))
<1> DEFINE e(i) == Op("read kernel", dir, "kernel", i)
           t == [i \in 1 .. Kernels |-> e(i)]
<1>1. \A i \in 1 .. Kernels : e(i) \in Instrs(p, j)
  BY KernelOp
<1>2. \A i \in 1 .. Kernels - 1 : Follows(e(i), e(i + 1))
  BY KernelsAssumption DEF Follows, AfterLoad, Op
<1> HIDE DEF e
<1>3. /\ t \in Seq(Instrs(p, j)) /\ Len(t) = Kernels /\ t # <<>>
      /\ \A i \in 1 .. Kernels : t[i] = e(i)
  BY <1>1, KernelsAssumption
<1> HIDE DEF t
<1>4. ASSUME NEW k \in 1 .. Len(t) - 1 PROVE <<t[k], t[k + 1]>> \in Order(p, j)
  <2>1. k \in 1 .. Kernels /\ k + 1 \in 1 .. Kernels /\ k \in 1 .. Kernels - 1
    BY <1>3, KernelsAssumption
  <2>2. t[k] = e(k) /\ t[k + 1] = e(k + 1)
    BY <1>3, <2>1
  <2>3. e(k) \in Instrs(p, j) /\ e(k + 1) \in Instrs(p, j) /\ Follows(e(k), e(k + 1))
    BY <1>1, <1>2, <2>1
  <2> QED BY <2>2, <2>3, OrderIs
<1>5. t[1] = e(1) /\ t[Len(t)] = e(Kernels)
  BY <1>3, KernelsAssumption
<1>6. Segment(Instrs(p, j), Order(p, j), t, e(1), e(Kernels))
  BY <1>3, <1>4, <1>5 DEF Segment, Chain
<1> QED BY <1>6 DEF KernelReads, t, e

LEMMA LoadSegment ==
  ASSUME NEW p, NEW j, Other(j), NEW dir \in Dirs(p), NEW name \in ManifestNames
  PROVE  Segment(Instrs(p, j), Order(p, j),
                 <<Op("read manifest", dir, name, 0), Op("open source", dir, "", 0)>>
                   \o KernelReads(dir),
                 Op("read manifest", dir, name, 0), Op("read kernel", dir, "kernel", Kernels))
<1> DEFINE a == Op("read manifest", dir, name, 0)
           b == Op("open source", dir, "", 0)
           c == Op("read kernel", dir, "kernel", 1)
<1>1. a \in Instrs(p, j)
  <2>1. "read manifest" \in PlainOps /\ name \in FileNames /\ 0 \in Nat
    BY DEF PlainOps, FileNames, ManifestNames
  <2> QED BY <2>1, PlainOp
<1>2. b \in Instrs(p, j) /\ c \in Instrs(p, j)
  <2>1. 0 \in Nat
    OBVIOUS
  <2> QED BY <2>1, OpenOp, KernelOp
<1>3. Follows(a, b) /\ Follows(b, c)
  BY DEF Follows, AfterLoad, Op
<1>4. Segment(Instrs(p, j), Order(p, j), KernelReads(dir), c,
              Op("read kernel", dir, "kernel", Kernels))
  BY KernelReadsSegment
<1> HIDE DEF a, b, c
<1>5. <<a, b>> \in Order(p, j) /\ <<b, c>> \in Order(p, j)
  BY <1>1, <1>2, <1>3, OrderIs
<1>6. Segment(Instrs(p, j), Order(p, j), <<a, b>>, a, b)
  BY <1>1, <1>2, <1>5, SegmentTwo
<1>7. Segment(Instrs(p, j), Order(p, j), <<a, b>> \o KernelReads(dir), a,
              Op("read kernel", dir, "kernel", Kernels))
  BY <1>4, <1>5, <1>6, SegmentJoin
<1> QED BY <1>7 DEF a, b

\* What may come after a load.
LEMMA AfterOp ==
  ASSUME NEW p, NEW j, Other(j), NEW op \in AfterLoad, NEW dir \in Dirs(p)
  PROVE  Op(op, dir, "", 0) \in Instrs(p, j)
<1>1. op \in OpNames /\ "" \in FileNames /\ 0 \in Nat
  BY DEF OpNames, FileNames, AfterLoad
<1>2. OtherMay(p, j, Op(op, dir, "", 0))
  BY DEF OtherMay, Op, AfterLoad
<1> QED BY <1>1, <1>2, OtherOp

\* The loaders, alone and with an instruction that uses what was loaded.
LEMMA LoadThen ==
  ASSUME NEW p, NEW j, Other(j), NEW dir \in Dirs(p), NEW op \in AfterLoad, NEW to \in Dirs(p)
  PROVE  /\ FreeList(p, j, load_directory(dir))
         /\ FreeList(p, j, load_directory(dir) \o <<Op(op, to, "", 0)>>)
         /\ FreeList(p, j, causal_load(dir) \o <<Op(op, to, "", 0)>>)
<1>1. ASSUME NEW name \in ManifestNames, NEW t,
             t = <<Op("read manifest", dir, name, 0), Op("open source", dir, "", 0)>>
                   \o KernelReads(dir)
      PROVE  FreeList(p, j, t) /\ FreeList(p, j, t \o <<Op(op, to, "", 0)>>)
  <2> DEFINE a == Op("read manifest", dir, name, 0)
             b == Op("read kernel", dir, "kernel", Kernels)
             k == Op(op, to, "", 0)
  <2>1. Segment(Instrs(p, j), Order(p, j), t, a, b)
    BY <1>1, LoadSegment
  <2>2. Free(a)
    BY DEF Free, AfterLoad, Op
  <2>3. k \in Instrs(p, j) /\ b \in Instrs(p, j)
    BY KernelOp, AfterOp
  <2>4. Follows(b, k)
    BY DEF Follows, AfterLoad, Op
  <2> HIDE DEF a, b, k
  <2>5. <<b, k>> \in Order(p, j)
    BY <2>3, <2>4, OrderIs
  <2>6. Segment(Instrs(p, j), Order(p, j), <<k>>, k, k)
    BY <2>3, SegmentOne
  <2>7. Segment(Instrs(p, j), Order(p, j), t \o <<k>>, a, k)
    BY <2>1, <2>5, <2>6, SegmentJoin
  <2>8. FreeList(p, j, t)
    BY <2>1, <2>2, SegmentListed DEF FreeList
  <2>9. FreeList(p, j, t \o <<k>>)
    BY <2>7, <2>2, SegmentListed DEF FreeList
  <2> QED BY <2>8, <2>9 DEF k
<1>2. {"symbolic.json", "causal.json"} = ManifestNames
  BY DEF ManifestNames
<1> QED BY <1>1, <1>2 DEF load_directory, causal_load

LEMMA TrustedThen ==
  ASSUME NEW p, NEW j, Other(j), NEW dir \in Dirs(p), NEW op \in AfterLoad, NEW to \in Dirs(p)
  PROVE  /\ FreeList(p, j, load_directory_authenticated(dir))
         /\ FreeList(p, j, load_directory_authenticated(dir) \o <<Op(op, to, "", 0)>>)
<1> DEFINE a == Slot("read trusted", dir, 1)
           c == Op("read kernel", dir, "kernel", 1)
           b == Op("read kernel", dir, "kernel", Kernels)
           k == Op(op, to, "", 0)
           t == <<a>> \o KernelReads(dir)
<1>1. a \in Instrs(p, j) /\ Free(a)
  <2>1. "read trusted" \in PlainOps /\ 1 \in Nat
    BY DEF PlainOps
  <2> QED BY <2>1, PlainSlot
<1>2. c \in Instrs(p, j) /\ b \in Instrs(p, j) /\ k \in Instrs(p, j)
  BY KernelOp, AfterOp
<1>3. Follows(a, c)
  <2>1. a.op = "read trusted"
    BY SlotIs
  <2>2. c.op = "read kernel" /\ c.i = 1
    BY DEF Op
  <2> HIDE DEF a, c
  <2> QED BY <2>1, <2>2 DEF Follows, AfterLoad
<1>4. Follows(b, k)
  BY DEF Follows, AfterLoad, Op
<1>5. Segment(Instrs(p, j), Order(p, j), KernelReads(dir), c, b)
  BY KernelReadsSegment
<1> HIDE DEF a, b, c, k
<1>6. <<a, c>> \in Order(p, j) /\ <<b, k>> \in Order(p, j)
  BY <1>1, <1>2, <1>3, <1>4, OrderIs
<1>7. Segment(Instrs(p, j), Order(p, j), <<a>>, a, a)
  BY <1>1, SegmentOne
<1>8. Segment(Instrs(p, j), Order(p, j), <<k>>, k, k)
  BY <1>2, SegmentOne
<1>9. Segment(Instrs(p, j), Order(p, j), t, a, b)
  BY <1>5, <1>6, <1>7, SegmentJoin
<1> HIDE DEF t
<1>10. Segment(Instrs(p, j), Order(p, j), t \o <<k>>, a, k)
  BY <1>6, <1>8, <1>9, SegmentJoin
<1>11. FreeList(p, j, t) /\ FreeList(p, j, t \o <<k>>)
  BY <1>1, <1>9, <1>10, SegmentListed DEF FreeList
<1> QED BY <1>11 DEF t, a, k, load_directory_authenticated

LEMMA LoadLists ==
  ASSUME NEW p, NEW j, Other(j), NEW dir \in Dirs(p)
  PROVE  /\ FreeList(p, j, load_directory(dir))
         /\ FreeList(p, j, load_directory(dir) \o <<Op("keep", dir, "", 0)>>)
         /\ FreeList(p, j, causal_load(dir) \o <<Op("keep", dir, "", 0)>>)
<1>1. "keep" \in AfterLoad
  BY DEF AfterLoad
<1> QED BY <1>1, LoadThen

LEMMA TrustedList ==
  ASSUME NEW p, NEW j, Other(j), NEW dir \in Dirs(p)
  PROVE  /\ FreeList(p, j, load_directory_authenticated(dir))
         /\ FreeList(p, j, load_directory_authenticated(dir) \o <<Op("keep", dir, "", 0)>>)
<1>1. "keep" \in AfterLoad
  BY DEF AfterLoad
<1> QED BY <1>1, TrustedThen

\* A list of three parts, the last two of which belong together.
LEMMA FreeAssoc ==
  ASSUME NEW p, NEW j, NEW s, NEW t, NEW o,
         FreeList(p, j, s), FreeList(p, j, t), FreeList(p, j, t \o <<o>>)
  PROVE  FreeList(p, j, (s \o t) \o <<o>>)
<1> DEFINE S == Instrs(p, j) \cup {o}
           k == <<o>>
<1>1. s \in Seq(Instrs(p, j)) /\ t \in Seq(Instrs(p, j))
  BY DEF FreeList, Listed, Chain
<1>2. s \in Seq(S) /\ t \in Seq(S) /\ k \in Seq(S)
  <2>1. Instrs(p, j) \subseteq S
    OBVIOUS
  <2>2. k \in Seq(S)
    OBVIOUS
  <2> HIDE DEF S, k
  <2> QED BY <1>1, <2>1, <2>2
<1>3. FreeList(p, j, s \o (t \o k))
  BY FreeJoins
<1> HIDE DEF S, k
<1>4. (s \o t) \o k = s \o (t \o k)
  BY <1>2
<1> QED BY <1>3, <1>4 DEF k

LEMMA PlainList ==
  ASSUME NEW p, NEW j, Other(j), NEW op \in PlainOps, NEW dir \in Dirs(p), NEW file \in FileNames,
         NEW i \in Nat
  PROVE  FreeList(p, j, <<Op(op, dir, file, i)>>)
  BY PlainOp, FreeOne

LEMMA IdentityList ==
  ASSUME NEW p, NEW j, Other(j), NEW use \in {"pin", "same"}, NEW slot \in Nat
  PROVE  FreeList(p, j, checked_identity(ModelDir, use, slot))
<1>1. ModelDir \in Dirs(p)
  BY DirsOf
<1>2. "before" \in PlainOps /\ use \in PlainOps
  BY DEF PlainOps
<1>3. FreeList(p, j, <<Slot("before", ModelDir, slot)>>)
  BY <1>1, <1>2, PlainSlot, FreeOne
<1>4. FreeList(p, j, <<Slot(use, ModelDir, slot)>>)
  BY <1>1, <1>2, PlainSlot, FreeOne
<1>5. FreeList(p, j, load_directory(ModelDir))
  BY <1>1, LoadLists
<1>6. FreeList(p, j, <<Slot("before", ModelDir, slot)>> \o load_directory(ModelDir))
  BY <1>3, <1>5, FreeJoins
<1> QED BY <1>4, <1>6, FreeJoins DEF checked_identity

LEMMA VerifyList ==
  ASSUME NEW p, NEW j, Other(j), NEW dir \in Dirs(p), NEW i \in Nat
  PROVE  FreeList(p, j, VerifyShard(dir, i))
<1>1. /\ {"read descriptor", "read payload"} \subseteq PlainOps
      /\ {"weights.json", "weights.bin"} \subseteq FileNames
  BY DEF PlainOps, FileNames
<1> QED BY <1>1, PlainOp, FreeTwo DEF VerifyShard

LEMMA WriteList ==
  ASSUME NEW p, NEW j, Other(j), NEW dir \in {Prepared, ShardDir, Snapshot(p)}, NEW i \in Nat,
         NEW file \in {"weights.bin", "weights.json", "plan.json"}
  PROVE  FreeList(p, j, Write(dir, file, i))
  BY WriteOp, FreeTwo DEF Write

LEMMA ExportList ==
  ASSUME NEW p, NEW j, Other(j), NEW dir \in {Prepared, ShardDir}, NEW i \in Nat, i # 0
  PROVE  FreeList(p, j, export_layer_weights(dir, i))
<1>1. dir \in Dirs(p) /\ ModelDir \in Dirs(p)
  BY DirsOf
<1>2. /\ FreeList(p, j, checked_identity(ModelDir, "pin", 2))
      /\ FreeList(p, j, checked_identity(ModelDir, "same", 2))
  BY IdentityList
<1>3. FreeList(p, j, load_directory(ModelDir))
  BY <1>1, LoadLists
<1>4. FreeList(p, j, <<Op("open source", dir, "", i), Op("make shard", dir, "weights.bin", i)>>)
  BY <1>1, OpenOp, MakeOp, FreeTwo
<1>5. FreeList(p, j, Write(dir, "weights.bin", i)) /\ FreeList(p, j, Write(dir, "weights.json", i))
  BY WriteList
<1> QED BY <1>2, <1>3, <1>4, <1>5, FreeJoins DEF export_layer_weights

LEMMA ExportsList ==
  ASSUME NEW p, NEW j, Other(j), NEW n \in Nat, n > 0
  PROVE  FreeList(p, j, Each(n, LAMBDA i : export_layer_weights(Prepared, i)))
<1> DEFINE s == [i \in 1 .. n |-> export_layer_weights(Prepared, i)]
<1>1. s = [i \in 1 .. n |-> s[i]]
  OBVIOUS
<1>2. \A i \in 1 .. n : FreeList(p, j, s[i])
  BY ExportList
<1> HIDE DEF s
<1>3. FreeList(p, j, FlattenSeq(s))
  BY <1>1, <1>2, FreeFlatten
<1> QED BY <1>3 DEF Each, s

LEMMA CopyList ==
  ASSUME NEW p, NEW j, Other(j), NEW i \in Nat, NEW dir \in Dirs(p), NEW file \in FileNames,
         NEW to \in {Prepared, Snapshot(p)} \cup Remotes
  PROVE  FreeList(p, j, Copy(dir, to, file, i))
<1>1. \A op \in {"open copy", "copy"} :
        OpTo(op, dir, to, file, i) \in Instrs(p, j) /\ Free(OpTo(op, dir, to, file, i))
  BY CopyOp
<1> QED BY <1>1, FreeTwo DEF Copy

\* The kernels copied from one directory to another.
LEMMA CopyKernelsList ==
  ASSUME NEW p, NEW j, Other(j), NEW dir \in Dirs(p), NEW to \in {Prepared, Snapshot(p)} \cup Remotes
  PROVE  FreeList(p, j, CopyKernels(dir, to))
<1> DEFINE s == [i \in 1 .. Kernels |-> Copy(dir, to, "kernel", i)]
<1>1. s = [i \in 1 .. Kernels |-> s[i]]
  OBVIOUS
<1>2. "kernel" \in FileNames /\ \A i \in 1 .. Kernels : i \in Nat
  BY KernelsAssumption DEF FileNames
<1>3. \A i \in 1 .. Kernels : FreeList(p, j, s[i])
  BY <1>2, CopyList
<1> HIDE DEF s
<1>4. FreeList(p, j, FlattenSeq(s))
  BY <1>1, <1>3, KernelsAssumption, FreeFlatten
<1> QED BY <1>4 DEF CopyKernels, Each, s

LEMMA PrepareLists ==
  ASSUME NEW p, NEW j, Other(j)
  PROVE  /\ FreeList(p, j, prepare_shards)
         /\ FreeList(p, j, export_shard)
         /\ \A ranges : Len(ranges) \in Nat /\ Len(ranges) > 0 =>
              FreeList(p, j, PrepareRest(ranges))
<1>1. {ModelDir, Prepared, ShardDir} \subseteq Dirs(p) /\ {0, 1, 2} \subseteq Nat
  BY DirsOf
<1>2. /\ FreeList(p, j, checked_identity(ModelDir, "pin", 1))
      /\ FreeList(p, j, checked_identity(ModelDir, "same", 1))
  BY <1>1, IdentityList
<1>3. FreeList(p, j, load_directory(ModelDir))
  BY <1>1, LoadLists
<1>4. /\ "require v4" \in PlainOps /\ "assign" \in AfterLoad
      /\ {"", "symbolic.json", "plan.json"} \subseteq FileNames
  BY DEF PlainOps, FileNames, AfterLoad
<1>5. FreeList(p, j, prepare_shards)
  <2>1. FreeList(p, j, load_directory(ModelDir) \o <<Op("assign", Prepared, "", 0)>>)
    BY <1>1, <1>4, LoadThen
  <2> QED BY <1>2, <1>3, <2>1, FreeAssoc DEF prepare_shards
<1>6. FreeList(p, j, export_shard)
  <2>1. FreeList(p, j, <<Op("require v4", ShardDir, "", 0)>>)
    BY <1>1, <1>4, PlainList
  <2>2. FreeList(p, j, export_layer_weights(ShardDir, 1))
    BY <1>1, ExportList
  <2> QED BY <1>2, <1>3, <2>1, <2>2, FreeJoins DEF export_shard
<1>7. ASSUME NEW ranges, Len(ranges) \in Nat, Len(ranges) > 0
      PROVE  FreeList(p, j, PrepareRest(ranges))
  <2>1. /\ FreeList(p, j, <<Op("make", Prepared, "", 0)>>)
        /\ FreeList(p, j, Copy(ModelDir, Prepared, "symbolic.json", 0))
    BY <1>1, <1>4, MakeOp, CopyList, FreeOne
  <2>2. FreeList(p, j, CopyKernels(ModelDir, Prepared))
    BY <1>1, CopyKernelsList
  <2>3. FreeList(p, j, load_directory_authenticated(Prepared))
    BY <1>1, TrustedList
  <2>4. FreeList(p, j, Each(Len(ranges), LAMBDA i : export_layer_weights(Prepared, i)))
    BY <1>7, ExportsList
  <2>5. FreeList(p, j, Write(Prepared, "plan.json", 0))
    BY <1>1, WriteList
  <2> HIDE DEF checked_identity, Write, Copy
  <2> QED BY <1>2, <2>1, <2>2, <2>3, <2>4, <2>5, FreeJoins DEF PrepareRest
<1> QED BY <1>5, <1>6, <1>7

LEMMA DeployLists ==
  ASSUME NEW p, NEW j, Other(j)
  PROVE  /\ FreeList(p, j, deploy)
         /\ \A n \in Nat : FreeList(p, j, DeployRest(Snapshot(p), n))
<1>1. {Prepared, Snapshot(p)} \subseteq Dirs(p) /\ 0 \in Nat
  BY DirsOf
<1>2. /\ {"read plan", "mkdir", "scp status"} \subseteq PlainOps /\ "match plan" \in AfterLoad
      /\ {"", "symbolic.json", "plan.json", "weights.json", "weights.bin"} \subseteq FileNames
  BY DEF PlainOps, FileNames, AfterLoad
<1>3. FreeList(p, j, deploy)
  <2>1. FreeList(p, j, <<Op("read plan", Prepared, "plan.json", 0)>>)
    BY <1>1, <1>2, PlainList
  <2>2. /\ FreeList(p, j, load_directory_authenticated(Prepared))
        /\ FreeList(p, j, load_directory_authenticated(Prepared)
                          \o <<Op("match plan", Prepared, "", 0)>>)
    BY <1>1, <1>2, TrustedThen
  <2> QED BY <2>1, <2>2, FreeAssoc DEF deploy
<1>4. ASSUME NEW n \in Nat PROVE FreeList(p, j, DeployRest(Snapshot(p), n))
  <2> DEFINE v == [i \in 1 .. n |-> VerifyShard(Prepared, i)]
             g == [i \in 1 .. n |-> StagedShard(Snapshot(p), i)]
             r == [i \in 1 .. n |-> Provision(Snapshot(p), i)]
             w == <<Op("make", Snapshot(p), "", 0)>> \o Write(Snapshot(p), "plan.json", 0)
                  \o Copy(Prepared, Snapshot(p), "symbolic.json", 0)
                  \o CopyKernels(Prepared, Snapshot(p))
                  \o load_directory_authenticated(Snapshot(p))
  <2>1. ASSUME NEW i \in 1 .. n
        PROVE  FreeList(p, j, VerifyShard(Prepared, i))
    BY <1>1, VerifyList
  <2>2. ASSUME NEW i \in 1 .. n
        PROVE  FreeList(p, j, StagedShard(Snapshot(p), i))
    <3>1. /\ FreeList(p, j, Copy(Prepared, Snapshot(p), "weights.json", i))
          /\ FreeList(p, j, Copy(Prepared, Snapshot(p), "weights.bin", i))
      <4>1. i \in Nat
        OBVIOUS
      <4> QED BY <1>1, <1>2, <4>1, CopyList
    <3>2. FreeList(p, j, VerifyShard(Snapshot(p), i))
      BY <1>1, VerifyList
    <3> QED BY <3>1, <3>2, FreeJoins DEF StagedShard
  <2>3. ASSUME NEW i \in 1 .. n
        PROVE  FreeList(p, j, Provision(Snapshot(p), i))
    <3>1. Remote(i) \in Remotes /\ Remote(i) \in Dirs(p)
      BY DirsOf
    <3>2. /\ FreeList(p, j, <<Op("mkdir", Remote(i), "", 0)>>)
          /\ FreeList(p, j, <<Op("scp status", Remote(i), "", 0)>>)
      BY <1>1, <1>2, <3>1, PlainList
    <3>3. /\ FreeList(p, j, Copy(Snapshot(p), Remote(i), "plan.json", 0))
          /\ FreeList(p, j, Copy(Snapshot(p), Remote(i), "symbolic.json", 0))
      BY <1>1, <1>2, <3>1, CopyList
    <3>4. FreeList(p, j, CopyKernels(Snapshot(p), Remote(i)))
      BY <1>1, <3>1, CopyKernelsList
    <3>5. /\ FreeList(p, j, Copy(Snapshot(p), Remote(i), "weights.json", i))
          /\ FreeList(p, j, Copy(Snapshot(p), Remote(i), "weights.bin", i))
      <4>1. i \in Nat
        OBVIOUS
      <4> QED BY <1>1, <1>2, <3>1, <4>1, CopyList
    <3> QED BY <3>2, <3>3, <3>4, <3>5, FreeJoins DEF Provision
  <2>9. /\ FreeList(p, j, <<Op("make", Snapshot(p), "", 0)>>)
        /\ FreeList(p, j, Write(Snapshot(p), "plan.json", 0))
        /\ FreeList(p, j, Copy(Prepared, Snapshot(p), "symbolic.json", 0))
        /\ FreeList(p, j, CopyKernels(Prepared, Snapshot(p)))
        /\ FreeList(p, j, load_directory_authenticated(Snapshot(p)))
    <3>1. FreeList(p, j, <<Op("make", Snapshot(p), "", 0)>>)
      BY <1>1, MakeOp, FreeOne
    <3>2. FreeList(p, j, Write(Snapshot(p), "plan.json", 0))
      BY <1>1, WriteList
    <3>3. FreeList(p, j, Copy(Prepared, Snapshot(p), "symbolic.json", 0))
      BY <1>1, <1>2, CopyList
    <3>4. FreeList(p, j, CopyKernels(Prepared, Snapshot(p)))
      BY <1>1, CopyKernelsList
    <3>5. FreeList(p, j, load_directory_authenticated(Snapshot(p)))
      BY <1>1, TrustedList
    <3> QED BY <3>1, <3>2, <3>3, <3>4, <3>5
  <2>4. FreeList(p, j, w)
    BY <2>9, FreeJoins
  <2>5. /\ v = [i \in 1 .. n |-> v[i]] /\ g = [i \in 1 .. n |-> g[i]] /\ r = [i \in 1 .. n |-> r[i]]
        /\ \A i \in 1 .. n : FreeList(p, j, v[i]) /\ FreeList(p, j, g[i]) /\ FreeList(p, j, r[i])
    BY <2>1, <2>2, <2>3
  <2>6. DeployRest(Snapshot(p), n) =
          FlattenSeq(v) \o <<Op("make", Snapshot(p), "", 0)>> \o Write(Snapshot(p), "plan.json", 0)
          \o Copy(Prepared, Snapshot(p), "symbolic.json", 0) \o CopyKernels(Prepared, Snapshot(p))
          \o load_directory_authenticated(Snapshot(p)) \o FlattenSeq(g) \o FlattenSeq(r)
    BY DEF DeployRest, Each
  <2>7. CASE n = 0
    <3>1. FlattenSeq(v) = <<>> /\ FlattenSeq(g) = <<>> /\ FlattenSeq(r) = <<>>
      BY <2>7 DEF FlattenSeq
    <3> HIDE DEF v, g, r
    <3>2. FlattenSeq(v) \o <<Op("make", Snapshot(p), "", 0)>> = <<Op("make", Snapshot(p), "", 0)>>
      BY <3>1
    <3>3. w \o FlattenSeq(g) \o FlattenSeq(r) = w
      <4>1. w \in Seq(Instrs(p, j))
        BY <2>4 DEF FreeList, Listed, Chain
      <4> HIDE DEF w
      <4> QED BY <3>1, <4>1
    <3>4. DeployRest(Snapshot(p), n) = w
      BY <2>6, <3>2, <3>3
    <3> QED BY <2>4, <3>4
  <2>8. CASE n # 0
    <3>1. /\ FreeList(p, j, FlattenSeq(v)) /\ FreeList(p, j, FlattenSeq(g))
          /\ FreeList(p, j, FlattenSeq(r))
      <4> HIDE DEF v, g, r
      <4>1. n > 0
        BY <2>8
      <4> QED BY <2>5, <4>1, FreeFlatten
    <3> HIDE DEF v, g, r
    <3> QED BY <2>9, <2>6, <3>1, FreeJoins
  <2> QED BY <2>7, <2>8
<1> QED BY <1>3, <1>4

LEMMA ServerLists ==
  ASSUME NEW p, NEW j, Other(j), j.role = "worker", NEW i \in Nat
  PROVE  /\ FreeList(p, j, new_authenticated(Remote(i), i))
         /\ FreeList(p, j, new_server \o <<Op("serve", ModelDir, "", 1)>>)
         /\ FreeList(p, j, new_server \o with_weight_shard \o <<Op("serve", ModelDir, "", 1)>>)
         /\ \A mode \in {"prepared", "shard", "source"} :
              FreeList(p, j, serve_connection(mode, i))
<1>1. /\ {ModelDir, ShardDir, Remote(i)} \subseteq Dirs(p)
      /\ {0, 1, 2} \subseteq Nat
  BY DirsOf
<1>2. /\ FreeList(p, j, checked_identity(ModelDir, "pin", 1))
      /\ FreeList(p, j, checked_identity(ModelDir, "same", 1))
      /\ FreeList(p, j, checked_identity(ModelDir, "pin", 2))
      /\ FreeList(p, j, checked_identity(ModelDir, "same", 2))
  BY <1>1, IdentityList
<1>3. /\ "read plan" \in PlainOps /\ "plan.json" \in FileNames
  BY DEF PlainOps, FileNames
<1>4. FreeList(p, j, open_artifact(ModelDir))
  BY <1>1, LoadLists DEF open_artifact
<1>5. FreeList(p, j, VerifyShard(ShardDir, 1)) /\ FreeList(p, j, VerifyShard(Remote(i), i))
  BY <1>1, VerifyList
<1>6. FreeList(p, j, open_artifact_with_shard(ShardDir, 1))
  BY <1>2, <1>4, <1>5, FreeJoins DEF open_artifact_with_shard
<1>7. FreeList(p, j, new_server)
  BY <1>2, <1>4, FreeJoins DEF new_server
<1>8. /\ FreeList(p, j, <<Op("serve", ModelDir, "", 1)>>)
      /\ FreeList(p, j, <<Op("serve", Remote(i), "", i)>>)
      /\ FreeList(p, j, <<Op("ready", ModelDir, "", 0)>>)
  <2>1. \A k \in Nat, dir \in Dirs(p), op \in {"serve", "ready"} :
          Op(op, dir, "", k) \in Instrs(p, j) /\ Free(Op(op, dir, "", k))
    BY MakeOp
  <2> QED BY <1>1, <2>1, FreeOne
<1>9. /\ FreeList(p, j, load_directory_authenticated(Remote(i)))
      /\ FreeList(p, j, load_directory_authenticated(Remote(i)) \o <<Op("keep", Remote(i), "", 0)>>)
  BY <1>1, TrustedList
<1>10. FreeList(p, j, new_authenticated(Remote(i), i))
  <2>1. FreeList(p, j, <<Op("read plan", Remote(i), "plan.json", 0)>>)
    BY <1>1, <1>3, PlainList
  <2>2. FreeList(p, j, open_authenticated_shard(Remote(i), i))
    BY <1>5, <1>9, FreeJoins DEF open_authenticated_shard
  <2> QED BY <1>8, <2>1, <2>2, FreeJoins DEF new_authenticated, read_prepared_plan
<1>11. FreeList(p, j, new_server \o <<Op("serve", ModelDir, "", 1)>>)
  BY <1>7, <1>8, FreeJoins
<1>12. FreeList(p, j, new_server \o with_weight_shard \o <<Op("serve", ModelDir, "", 1)>>)
  BY <1>6, <1>7, <1>8, FreeJoins DEF with_weight_shard
<1>13. FreeList(p, j, serve_connection("shard", i))
  BY <1>2, <1>6, <1>8, FreeJoins DEF serve_connection
<1>14. FreeList(p, j, serve_connection("source", i))
  BY <1>2, <1>4, <1>8, FreeJoins DEF serve_connection
<1>15. FreeList(p, j, serve_connection("prepared", i))
  <2> DEFINE u == VerifyShard(Remote(i), i) \o load_directory_authenticated(Remote(i))
                    \o <<Op("keep", Remote(i), "", 0)>>
             r == <<Op("ready", ModelDir, "", 0)>>
  <2>1. serve_connection("prepared", i) = (u \o <<>>) \o r
    BY DEF serve_connection, open_authenticated_shard
  <2>2. FreeList(p, j, u)
    BY <1>5, <1>9, FreeAssoc
  <2> HIDE DEF u, r
  <2>3. u \in Seq(Instrs(p, j))
    BY <2>2 DEF FreeList, Listed, Chain
  <2>4. u \o <<>> = u
    BY <2>3
  <2> QED BY <1>8, <2>1, <2>2, <2>4, FreeJoins DEF r
<1>16. \A mode \in {"prepared", "shard", "source"} : FreeList(p, j, serve_connection(mode, i))
  BY <1>13, <1>14, <1>15
<1> QED BY <1>10, <1>11, <1>12, <1>16

LEMMA CoordinatorLists ==
  ASSUME NEW p, NEW j, Other(j)
  PROVE  /\ FreeList(p, j, distribute)
         /\ FreeList(p, j, text_open)
         /\ FreeList(p, j, open_artifact(ModelDir)) /\ FreeList(p, j, causal_open(ModelDir))
         /\ \A n \in Nat : n > 0 =>
              FreeList(p, j,
                Each(n, LAMBDA i : <<Op("connect", ModelDir, "", i), Op("answer", ModelDir, "", i)>>)
                \o pipeline_open)
<1>1. ModelDir \in Dirs(p) /\ {0, 1, 2} \subseteq Nat
  BY DirsOf
<1>2. /\ FreeList(p, j, checked_identity(ModelDir, "pin", 1))
      /\ FreeList(p, j, checked_identity(ModelDir, "pin", 2))
      /\ FreeList(p, j, checked_identity(ModelDir, "same", 2))
  BY <1>1, IdentityList
<1>3. /\ {"is file", "native", "symbolic", "coverage", "connect", "answer"} \subseteq PlainOps
      /\ {"", "symbolic.json", "causal.json"} \subseteq FileNames
      /\ "plan workers" \in AfterLoad
  BY DEF PlainOps, FileNames, AfterLoad
<1>4. FreeList(p, j, load_directory(ModelDir)) /\ FreeList(p, j, open_artifact(ModelDir))
      /\ FreeList(p, j, causal_open(ModelDir))
  BY <1>1, LoadLists DEF open_artifact, causal_open
<1>5. FreeList(p, j, distribute)
  <2> DEFINE s == <<Op("is file", ModelDir, "symbolic.json", 0)>>
                    \o checked_identity(ModelDir, "pin", 1)
  <2>1. FreeList(p, j, <<Op("is file", ModelDir, "symbolic.json", 0)>>)
    BY <1>1, <1>3, PlainList
  <2>2. FreeList(p, j, s)
    BY <1>2, <2>1, FreeJoins
  <2>3. FreeList(p, j, load_directory(ModelDir) \o <<Op("plan workers", ModelDir, "", 0)>>)
    BY <1>1, <1>3, LoadThen
  <2> HIDE DEF s
  <2>4. FreeList(p, j, (s \o load_directory(ModelDir)) \o <<Op("plan workers", ModelDir, "", 0)>>)
    BY <1>4, <2>2, <2>3, FreeAssoc
  <2> QED BY <2>4 DEF distribute, s
<1>6. FreeList(p, j, text_open)
  BY <1>1, <1>3, PlainOp, FreeTwo DEF text_open
<1>7. FreeList(p, j, pipeline_open)
  <2>1. FreeList(p, j, <<Op("coverage", ModelDir, "", 0)>>)
    BY <1>1, <1>3, PlainList
  <2> QED BY <1>2, <1>4, <2>1, FreeJoins DEF pipeline_open
<1>8. ASSUME NEW n \in Nat, n > 0
      PROVE  FreeList(p, j,
               Each(n, LAMBDA i : <<Op("connect", ModelDir, "", i), Op("answer", ModelDir, "", i)>>)
               \o pipeline_open)
  <2> DEFINE s == [i \in 1 .. n |-> <<Op("connect", ModelDir, "", i), Op("answer", ModelDir, "", i)>>]
  <2>1. s = [i \in 1 .. n |-> s[i]]
    OBVIOUS
  <2>2. ASSUME NEW i \in 1 .. n PROVE FreeList(p, j, s[i])
    <3>1. i \in Nat
      OBVIOUS
    <3> QED BY <1>1, <1>3, <3>1, PlainOp, FreeTwo
  <2> HIDE DEF s
  <2>3. FreeList(p, j, FlattenSeq(s))
    BY <1>8, <2>1, <2>2, FreeFlatten
  <2> QED BY <1>7, <2>3, FreeJoins DEF Each, s
<1> QED BY <1>4, <1>5, <1>6, <1>8

-----------------------------------------------------------------------------
(* The scripts of the compilers and of the resource files *)

LEMMA SegmentThree ==
  ASSUME NEW S, NEW R, NEW a \in S, NEW b \in S, NEW c \in S, <<a, b>> \in R, <<b, c>> \in R
  PROVE  Segment(S, R, <<a, b, c>>, a, c)
<1> DEFINE t == <<a, b, c>>
<1>1. t \in Seq(S) /\ Len(t) = 3 /\ t[1] = a /\ t[2] = b /\ t[3] = c
  OBVIOUS
<1> HIDE DEF t
<1>2. ASSUME NEW k \in 1 .. Len(t) - 1 PROVE <<t[k], t[k + 1]>> \in R
  <2>1. (k = 1 /\ k + 1 = 2) \/ (k = 2 /\ k + 1 = 3)
    BY <1>1
  <2> QED BY <1>1, <2>1
<1>3. Segment(S, R, t, a, c)
  BY <1>1, <1>2 DEF Segment, Chain
<1> QED BY <1>3 DEF t

LEMMA PublisherOp ==
  ASSUME NEW p, NEW j, Publishes(j), NEW op \in OpNames, NEW file \in FileNames, NEW i \in Nat,
         PublisherMay(Op(op, ModelDir, file, i))
  PROVE  Op(op, ModelDir, file, i) \in Instrs(p, j)
<1>1. ModelDir \in Dirs(p)
  BY DirsOf
<1> QED BY <1>1 DEF Instrs, Op

LEMMA PublisherOps ==
  ASSUME NEW p, NEW j, Publishes(j)
  PROVE  /\ Op("check empty", ModelDir, "", 0) \in Instrs(p, j)
         /\ Op("make all", ModelDir, "", 0) \in Instrs(p, j)
         /\ \A profile \in Profiles : Op("compile", ModelDir, profile, 0) \in Instrs(p, j)
         /\ \A op \in {"create", "fill"} :
              /\ \A i \in 1 .. Kernels : Op(op, ModelDir, "kernel", i) \in Instrs(p, j)
              /\ \A name \in ManifestNames : Op(op, ModelDir, name, 0) \in Instrs(p, j)
<1>0. /\ {"check empty", "make all", "compile", "create", "fill"} \subseteq OpNames
      /\ {"", "kernel"} \subseteq FileNames /\ Profiles \subseteq FileNames
      /\ ManifestNames \subseteq FileNames /\ 0 \in Nat
      /\ \A i \in 1 .. Kernels : i \in Nat
  BY KernelsAssumption
  DEF OpNames, FileNames, Profiles, SymbolicProfiles, CompiledProfiles, BOUNDED_PROFILE,
      LEGACY_PROFILE, ManifestNames
<1>1. \A op \in {"check empty", "make all"} : PublisherMay(Op(op, ModelDir, "", 0))
  BY DEF PublisherMay, Op
<1>2. \A profile \in Profiles : PublisherMay(Op("compile", ModelDir, profile, 0))
  BY DEF PublisherMay, Op
<1>3. \A op \in {"create", "fill"} :
        /\ \A i \in 1 .. Kernels : PublisherMay(Op(op, ModelDir, "kernel", i))
        /\ \A name \in ManifestNames : PublisherMay(Op(op, ModelDir, name, 0))
  BY DEF PublisherMay, Op
<1>4. \A op \in {"check empty", "make all"} : Op(op, ModelDir, "", 0) \in Instrs(p, j)
  BY <1>0, <1>1, PublisherOp
<1>5. \A profile \in Profiles : Op("compile", ModelDir, profile, 0) \in Instrs(p, j)
  BY <1>0, <1>2, PublisherOp
<1>6. ASSUME NEW op \in {"create", "fill"}
      PROVE  /\ \A i \in 1 .. Kernels : Op(op, ModelDir, "kernel", i) \in Instrs(p, j)
             /\ \A name \in ManifestNames : Op(op, ModelDir, name, 0) \in Instrs(p, j)
  BY <1>0, <1>3, PublisherOp
<1> QED BY <1>4, <1>5, <1>6

\* The kernels in order, each truncated and filled, then the manifest.
LEMMA KernelWrites ==
  ASSUME NEW p, NEW j, Publishes(j)
  PROVE  Segment(Instrs(p, j), Order(p, j), Each(Kernels, LAMBDA i : Write(ModelDir, "kernel", i)),
                 Op("create", ModelDir, "kernel", 1), Op("fill", ModelDir, "kernel", Kernels))
<1> DEFINE S == Instrs(p, j)
           R == Order(p, j)
           a == [i \in 1 .. Kernels |-> Op("create", ModelDir, "kernel", i)]
           b == [i \in 1 .. Kernels |-> Op("fill", ModelDir, "kernel", i)]
           s == [i \in 1 .. Kernels |-> Write(ModelDir, "kernel", i)]
<1>1. \A i \in 1 .. Kernels : a[i] \in S /\ b[i] \in S /\ s[i] = <<a[i], b[i]>>
  BY PublisherOps DEF Write
<1>2. \A i \in 1 .. Kernels : Follows(a[i], b[i])
  BY DEF Follows, AfterLoad, Op
<1>3. ASSUME NEW i \in 1 .. Kernels - 1 PROVE Follows(b[i], a[i + 1])
  <2>1. i \in 1 .. Kernels /\ i + 1 \in 1 .. Kernels
    BY KernelsAssumption
  <2> QED BY <2>1 DEF Follows, AfterLoad, Op
<1>4. s = [i \in 1 .. Kernels |-> s[i]] /\ a[1] = Op("create", ModelDir, "kernel", 1)
      /\ b[Kernels] = Op("fill", ModelDir, "kernel", Kernels)
  <2>1. 1 \in 1 .. Kernels /\ Kernels \in 1 .. Kernels
    BY KernelsAssumption
  <2> QED BY <2>1
<1> HIDE DEF a, b, s
<1>5. ASSUME NEW i \in 1 .. Kernels PROVE Segment(S, R, s[i], a[i], b[i]) /\ s[i] \in Seq(S)
  <2>1. a[i] \in S /\ b[i] \in S /\ s[i] = <<a[i], b[i]>> /\ Follows(a[i], b[i])
    BY <1>1, <1>2
  <2>2. <<a[i], b[i]>> \in R
    BY <2>1, OrderIs
  <2>3. Segment(S, R, s[i], a[i], b[i])
    BY <2>1, <2>2, SegmentTwo
  <2> QED BY <2>3 DEF Segment, Chain
<1>6. s \in Seq(Seq(S)) /\ Len(s) = Kernels /\ s # <<>>
  <2> HIDE DEF S
  <2>1. s \in [1 .. Kernels -> Seq(S)]
    BY <1>4, <1>5
  <2> QED BY ONLY KernelsAssumption, <2>1
<1>7. ASSUME NEW i \in 1 .. Kernels - 1 PROVE <<b[i], a[i + 1]>> \in R
  <2>1. i \in 1 .. Kernels /\ i + 1 \in 1 .. Kernels
    BY KernelsAssumption
  <2>2. b[i] \in S /\ a[i + 1] \in S
    BY <1>1, <2>1
  <2> QED BY <1>3, <2>2, OrderIs
<1> HIDE DEF S, R
<1>8. Segment(S, R, FlattenSeq(s), a[1], b[Len(s)])
  BY <1>5, <1>6, <1>7, SegmentFlatten
<1> QED BY <1>4, <1>6, <1>8 DEF S, R, Each, s

LEMMA ManifestWrite ==
  ASSUME NEW p, NEW j, Publishes(j), NEW name \in ManifestNames, NEW s, NEW x,
         Segment(Instrs(p, j), Order(p, j), s, x, Op("check empty", ModelDir, "", 0))
  PROVE  Segment(Instrs(p, j), Order(p, j),
                 s \o Each(Kernels, LAMBDA i : Write(ModelDir, "kernel", i))
                   \o Write(ModelDir, name, 0),
                 x, Op("fill", ModelDir, name, 0))
<1> DEFINE S == Instrs(p, j)
           R == Order(p, j)
           e == Op("check empty", ModelDir, "", 0)
           a == Op("create", ModelDir, "kernel", 1)
           b == Op("fill", ModelDir, "kernel", Kernels)
           c == Op("create", ModelDir, name, 0)
           d == Op("fill", ModelDir, name, 0)
           k == Each(Kernels, LAMBDA i : Write(ModelDir, "kernel", i))
           w == Write(ModelDir, name, 0)
<1>1. 1 \in 1 .. Kernels /\ Kernels \in 1 .. Kernels
  BY ONLY KernelsAssumption
<1>2. e \in S /\ a \in S /\ b \in S /\ c \in S /\ d \in S
  BY <1>1, PublisherOps
<1>3. Follows(e, a) /\ Follows(b, c) /\ Follows(c, d)
  BY DEF Follows, AfterLoad, Op, ManifestNames
<1>4. Segment(S, R, k, a, b)
  BY KernelWrites
<1>5. w = <<c, d>>
  BY DEF Write
<1> HIDE DEF e, a, b, c, d, k, w
<1>6. <<e, a>> \in R /\ <<b, c>> \in R /\ <<c, d>> \in R
  BY <1>2, <1>3, OrderIs
<1> HIDE DEF S, R
<1>7. Segment(S, R, w, c, d)
  BY <1>2, <1>5, <1>6, SegmentTwo
<1>8. Segment(S, R, s, x, e)
  BY DEF S, R, e
<1>9. Segment(S, R, s \o k, x, b)
  BY <1>4, <1>6, <1>8, SegmentJoin
<1>10. Segment(S, R, s \o k \o w, x, d)
  BY <1>6, <1>7, <1>9, SegmentJoin
<1> QED BY <1>10 DEF S, R, k, w, d

LEMMA PublisherLists ==
  ASSUME NEW p, NEW j, Publishes(j), NEW profile \in SymbolicProfiles
  PROVE  /\ LET t == compile_directory(ModelDir, profile) IN
            /\ Listed(p, j, t) /\ Len(t) >= 2
            /\ t[1].op = "check empty" /\ t[2].op = "compile"
         /\ LET t == causal_compile_directory(ModelDir) IN
            Listed(p, j, t) /\ t # <<>> /\ t[1].op = "compile"
<1> DEFINE S == Instrs(p, j)
           R == Order(p, j)
           e == Op("check empty", ModelDir, "", 0)
           m == Op("make all", ModelDir, "", 0)
           c == Op("compile", ModelDir, profile, 0)
           n == Op("compile", ModelDir, "native", 0)
<1>1. profile \in Profiles /\ "native" \in Profiles
  BY DEF Profiles
<1>2. e \in S /\ m \in S /\ c \in S /\ n \in S
  BY <1>1, PublisherOps
<1>3. Follows(e, c) /\ Follows(c, e) /\ Follows(e, m) /\ Follows(m, e) /\ Follows(n, m)
  BY DEF Follows, AfterLoad, Op
<1>4. MANIFEST(profile) \in ManifestNames /\ MANIFEST("native") \in ManifestNames
  BY DEF MANIFEST, ManifestNames
<1>5. e.op = "check empty" /\ c.op = "compile" /\ n.op = "compile"
  BY DEF Op
<1>6. /\ compile_directory(ModelDir, profile) =
           <<e, c>> \o (<<e, m, e>> \o Each(Kernels, LAMBDA i : Write(ModelDir, "kernel", i))
                                  \o Write(ModelDir, MANIFEST(profile), 0))
      /\ causal_compile_directory(ModelDir) =
           <<n, m, e>> \o Each(Kernels, LAMBDA i : Write(ModelDir, "kernel", i))
                       \o Write(ModelDir, MANIFEST("native"), 0)
  BY DEF compile_directory, publish, causal_compile_directory
<1> DEFINE v == <<e, m, e>> \o Each(Kernels, LAMBDA i : Write(ModelDir, "kernel", i))
                            \o Write(ModelDir, MANIFEST(profile), 0)
           u == <<n, m, e>> \o Each(Kernels, LAMBDA i : Write(ModelDir, "kernel", i))
                            \o Write(ModelDir, MANIFEST("native"), 0)
<1>7. /\ <<e, c>> \in R /\ <<c, e>> \in R /\ <<e, m>> \in R /\ <<m, e>> \in R /\ <<n, m>> \in R
  <2> HIDE DEF e, m, c, n
  <2> QED BY <1>2, <1>3, OrderIs
<1>8. Segment(S, R, <<e, m, e>>, e, e) /\ Segment(S, R, <<n, m, e>>, n, e)
  <2> HIDE DEF e, m, c, n, S, R
  <2> QED BY <1>2, <1>7, SegmentThree
<1>9. Segment(S, R, v, e, Op("fill", ModelDir, MANIFEST(profile), 0))
  BY <1>4, <1>8, ManifestWrite
<1>10. Segment(S, R, u, n, Op("fill", ModelDir, MANIFEST("native"), 0))
  BY <1>4, <1>8, ManifestWrite
<1> HIDE DEF e, m, c, n, v, u, S, R
<1>11. Segment(S, R, <<e, c>>, e, c)
  BY <1>2, <1>7, SegmentTwo
<1>12. Segment(S, R, <<e, c>> \o v, e, Op("fill", ModelDir, MANIFEST(profile), 0))
  BY <1>7, <1>9, <1>11, SegmentJoin
<1> DEFINE z == <<e, c>> \o v
<1>13. Len(z) >= 2 /\ z[1] = e /\ z[2] = c
  <2>1. v \in Seq(S) /\ <<e, c>> \in Seq(S)
    BY <1>9, <1>11 DEF Segment, Chain
  <2> QED BY <2>1
<1>14. Listed(p, j, z)
  BY <1>12, SegmentListed DEF S, R
<1>15. Listed(p, j, u) /\ u # <<>> /\ u[1] = n
  BY <1>10, SegmentListed DEF S, R
<1> HIDE DEF z
<1>16. compile_directory(ModelDir, profile) = z /\ causal_compile_directory(ModelDir) = u
  BY <1>6 DEF z, v, u
<1> QED BY <1>5, <1>13, <1>14, <1>15, <1>16

LEMMA SegmentFour ==
  ASSUME NEW S, NEW R, NEW a \in S, NEW b \in S, NEW c \in S, NEW d \in S,
         <<a, b>> \in R, <<b, c>> \in R, <<c, d>> \in R
  PROVE  Segment(S, R, <<a, b, c, d>>, a, d)
<1> DEFINE t == <<a, b, c, d>>
<1>1. t \in Seq(S) /\ Len(t) = 4 /\ t[1] = a /\ t[2] = b /\ t[3] = c /\ t[4] = d
  OBVIOUS
<1> HIDE DEF t
<1>2. ASSUME NEW k \in 1 .. Len(t) - 1 PROVE <<t[k], t[k + 1]>> \in R
  <2>1. (k = 1 /\ k + 1 = 2) \/ (k = 2 /\ k + 1 = 3) \/ (k = 3 /\ k + 1 = 4)
    BY <1>1
  <2> QED BY <1>1, <2>1
<1>3. Segment(S, R, t, a, d)
  BY <1>1, <1>2 DEF Segment, Chain
<1> QED BY <1>3 DEF t

LEMMA BundlerOp ==
  ASSUME NEW p, NEW j, Bundles(j), NEW op \in OpNames, NEW file \in FileNames,
         BundlerMay(j, Op(op, AotDir, file, 0))
  PROVE  Op(op, AotDir, file, 0) \in Instrs(p, j)
<1>1. AotDir \in Dirs(p) /\ 0 \in Nat
  BY DirsOf
<1>2. ~Publishes(j)
  BY DEF Bundles, Publishes
<1> QED BY <1>1, <1>2 DEF Instrs, Op

BundlerOpens(o) == o.op \in {"open gguf", "open resource"}

LEMMA BundlerList ==
  ASSUME NEW p, NEW j, Bundles(j), NEW o \in Instrs(p, j), BundlerOpens(o)
  PROVE  LET t == <<o>> \o Pending(Destination(j)) IN
         Listed(p, j, t) /\ t # <<>> /\ t[1] = o /\ t[Len(t)].op = "link"
<1> DEFINE S == Instrs(p, j)
           R == Order(p, j)
           file == Destination(j)
           a == Op("absent", AotDir, file, 0)
           b == Op("create temporary", AotDir, file, 0)
           c == Op("fill temporary", AotDir, file, 0)
           d == Op("link", AotDir, file, 0)
<1>1. \A op \in {"absent", "create temporary", "fill temporary", "link"} :
        Op(op, AotDir, file, 0) \in S
  <2>1. /\ {"absent", "create temporary", "fill temporary", "link"} \subseteq OpNames
        /\ file \in FileNames
    BY DEF OpNames, FileNames, Destination
  <2> HIDE DEF file
  <2>2. \A op \in {"absent", "create temporary", "fill temporary", "link"} :
          BundlerMay(j, Op(op, AotDir, file, 0))
    BY DEF BundlerMay, Op, file
  <2> QED BY <2>1, <2>2, BundlerOp
<1>2. Follows(o, a) /\ Follows(a, b) /\ Follows(b, c) /\ Follows(c, d) /\ d.op = "link"
  BY DEF Follows, AfterLoad, Op, BundlerOpens
<1>3. a \in S /\ b \in S /\ c \in S /\ d \in S
  BY <1>1
<1>4. Pending(file) = <<a, b, c, d>>
  BY DEF Pending
<1> HIDE DEF a, b, c, d, file
<1>5. <<o, a>> \in R /\ <<a, b>> \in R /\ <<b, c>> \in R /\ <<c, d>> \in R
  BY <1>2, <1>3, OrderIs
<1>6. o \in S
  OBVIOUS
<1> HIDE DEF S, R
<1>7. Segment(S, R, <<a, b, c, d>>, a, d)
  BY <1>3, <1>5, SegmentFour
<1>8. Segment(S, R, <<o>>, o, o)
  BY <1>6, SegmentOne
<1>9. Segment(S, R, <<o>> \o <<a, b, c, d>>, o, d)
  BY <1>5, <1>7, <1>8, SegmentJoin
<1>10. Segment(S, R, <<o>> \o Pending(file), o, d)
  BY <1>4, <1>9
<1> DEFINE t == <<o>> \o Pending(file)
<1> HIDE DEF t
<1>11. Listed(p, j, t) /\ t # <<>> /\ t[1] = o /\ t[Len(t)] = d
  BY <1>10, SegmentListed DEF S, R, t
<1> QED BY <1>2, <1>11 DEF t, file

\* How a list starts, and how a bundler's ends.
Starts(j, t) ==
  /\ t # <<>>
  /\ Other(j) => Free(t[1])
  /\ Publishes(j) => \/ t[1].op = "compile"
                     \/ t[1].op = "check empty" /\ Len(t) >= 2 /\ t[2].op = "compile"
  /\ Bundles(j) => BundlerOpens(t[1]) /\ t[Len(t)].op = "link"

LEMMA StartsKnows ==
  ASSUME NEW j, NEW t, NEW m, Starts(j, t)
  PROVE  Knows(j, t, m)
<1>1. CASE Other(j)
  BY <1>1 DEF Starts, Knows, Free, AfterLoad, Other
<1>2. CASE Publishes(j)
  BY <1>2 DEF Starts, Knows, AfterLoad
<1>3. CASE Bundles(j)
  BY <1>3 DEF Starts, Knows, BundlerOpens, AfterLoad, Bundles, Publishes
<1> QED BY <1>1, <1>2, <1>3 DEF Other

LEMMA FreeStarts ==
  ASSUME NEW p, NEW j, NEW t, Other(j), FreeList(p, j, t)
  PROVE  Listed(p, j, t) /\ Starts(j, t)
  BY DEF FreeList, Starts, Other

LEMMA ScriptStarts ==
  ASSUME NEW p, NEW j, Command(j)
  PROVE  Listed(p, j, Script(j)) /\ Starts(j, Script(j))
<1>1. CASE j.role = "compile"
  <2>1. Publishes(j) /\ ~Other(j) /\ ~Bundles(j) /\ j.profile \in SymbolicProfiles
    BY <1>1 DEF Publishes, Other, Bundles, Command, SymbolicProfiles
  <2>2. Script(j) = compile_directory(ModelDir, j.profile)
    BY <1>1 DEF Script
  <2> DEFINE t == compile_directory(ModelDir, j.profile)
  <2>3. Listed(p, j, t) /\ Len(t) >= 2 /\ t[1].op = "check empty" /\ t[2].op = "compile"
    BY <2>1, PublisherLists
  <2> HIDE DEF t
  <2>4. t # <<>>
    <3>1. ~(Len(<<>>) >= 2)
      OBVIOUS
    <3> QED BY ONLY <2>3, <3>1
  <2>5. Starts(j, t)
    BY <2>1, <2>3, <2>4 DEF Starts
  <2> QED BY <2>2, <2>3, <2>5 DEF t
<1>2. CASE j.role = "causal"
  <2>1. Publishes(j) /\ ~Other(j) /\ ~Bundles(j) /\ BOUNDED_PROFILE \in SymbolicProfiles
    BY <1>2 DEF Publishes, Other, Bundles, SymbolicProfiles, CompiledProfiles
  <2>2. Script(j) = causal_compile_directory(ModelDir)
    BY <1>2 DEF Script
  <2> DEFINE t == causal_compile_directory(ModelDir)
  <2>3. Listed(p, j, t) /\ t # <<>> /\ t[1].op = "compile"
    BY <2>1, PublisherLists
  <2> HIDE DEF t
  <2>4. Starts(j, t)
    BY <2>1, <2>3 DEF Starts
  <2> QED BY <2>2, <2>3, <2>4 DEF t
<1>3. CASE Bundles(j)
  <2> DEFINE o == IF j.role = "write model" THEN Op("open gguf", AotDir, "model.bin", 0)
                  ELSE Op("open resource", AotDir, "model.bin", 0)
             t == <<o>> \o Pending(Destination(j))
  <2>1. Script(j) = t
    BY <1>3 DEF Script, Bundles, write_model_file, append_to_executable, Destination
  <2>2. BundlerOpens(o)
    BY DEF BundlerOpens, Op
  <2>3. o \in Instrs(p, j)
    <3>1. {"open gguf", "open resource"} \subseteq OpNames /\ "model.bin" \in FileNames
      BY DEF OpNames, FileNames
    <3>2. CASE j.role = "write model"
      <4>1. BundlerMay(j, Op("open gguf", AotDir, "model.bin", 0))
        BY <3>2 DEF BundlerMay, Op, Destination
      <4> QED BY <1>3, <3>1, <3>2, <4>1, BundlerOp
    <3>3. CASE j.role # "write model"
      <4>1. BundlerMay(j, Op("open resource", AotDir, "model.bin", 0))
        BY DEF BundlerMay, Op
      <4> QED BY <1>3, <3>1, <3>3, <4>1, BundlerOp
    <3> QED BY <3>2, <3>3
  <2> HIDE DEF o
  <2>4. Listed(p, j, t) /\ t # <<>> /\ t[1] = o /\ t[Len(t)].op = "link"
    BY <1>3, <2>2, <2>3, BundlerList
  <2> HIDE DEF t
  <2>5. Starts(j, t)
    BY <1>3, <2>2, <2>4 DEF Starts, Other, Bundles, Publishes
  <2> QED BY <2>1, <2>4, <2>5
<1>4. CASE Other(j)
  <2>1. FreeList(p, j, Script(j))
    <3>1. CASE j.role = "run"
      BY <1>4, <3>1, CoordinatorLists DEF Script
    <3>2. CASE j.role \in {"prepare", "export"}
      BY <1>4, <3>2, PrepareLists DEF Script
    <3>3. CASE j.role = "deploy"
      BY <1>4, <3>3, DeployLists DEF Script
    <3>4. CASE j.role = "coordinator"
      BY <1>4, <3>4, CoordinatorLists DEF Script
    <3>5. CASE j.role = "worker"
      <4>1. j.mode \in {"prepared", "shard", "source"} /\ j.index \in Nat
        BY <3>5 DEF Command
      <4>2. /\ FreeList(p, j, new_authenticated(Remote(j.index), j.index))
            /\ FreeList(p, j, new_server \o <<Op("serve", ModelDir, "", 1)>>)
            /\ FreeList(p, j, new_server \o with_weight_shard \o <<Op("serve", ModelDir, "", 1)>>)
        BY <1>4, <3>5, <4>1, ServerLists
      <4>3. CASE j.mode = "prepared"
        BY <3>5, <4>2, <4>3 DEF Script
      <4>4. CASE j.mode = "source"
        BY <3>5, <4>2, <4>4 DEF Script
      <4>5. CASE j.mode = "shard"
        BY <3>5, <4>2, <4>5 DEF Script
      <4> QED BY <4>1, <4>3, <4>4, <4>5
    <3> QED BY <1>4, <3>1, <3>2, <3>3, <3>4, <3>5 DEF Command, Other, Publishes, Bundles
  <2> QED BY <1>4, <2>1, FreeStarts
<1> QED BY <1>1, <1>2, <1>3, <1>4 DEF Other, Publishes

-----------------------------------------------------------------------------
(* Files *)

LEMMA PathIn ==
  ASSUME NEW a, NEW b, NEW file, NEW i
  PROVE  SubSeq(Path(<<a, b>>, file, i), 1, 2) = <<a, b>>
  BY PathIs, PathSub

LEMMA PathSame ==
  ASSUME NEW a, NEW b, NEW file, NEW i, NEW c, NEW d, NEW other, NEW k,
         Path(<<a, b>>, file, i) = Path(<<c, d>>, other, k)
  PROVE  a = c /\ b = d /\ file = other /\ i = k
<1>1. <<a, b, file, i>> = <<c, d, other, k>>
  BY PathIs
<1> QED BY <1>1

\* The directories the processes other than compilers and bundlers work in.
Scratch(p) == {Prepared, ShardDir, Snapshot(p), Temporary(p)} \cup Remotes

LEMMA ScratchApart ==
  ASSUME NEW p, NEW dir \in Scratch(p), NEW file, NEW i
  PROVE  /\ SubSeq(Path(dir, file, i), 1, 2) = dir
         /\ dir # ModelDir /\ dir # AotDir
         /\ Path(dir, file, i) # Source
         /\ \A other, k : /\ Path(dir, file, i) # Path(ModelDir, other, k)
                          /\ Path(dir, file, i) # Path(AotDir, other, k)
         /\ \A q : q # p => /\ dir # Temporary(q)
                            /\ \A other, k : Path(dir, file, i) # Path(Temporary(q), other, k)
<1>1. PICK a, b :
        /\ a \in {"prepared", "shard", "snapshot", "temporary", "remote"}
        /\ dir = <<a, b>> /\ (a = "temporary" => b = p)
  BY DEF Scratch, Remotes, Prepared, ShardDir, Snapshot, Temporary, Remote
<1>2. SubSeq(Path(dir, file, i), 1, 2) = dir
  BY <1>1, PathIn
<1>3. dir # ModelDir /\ dir # AotDir
  BY <1>1 DEF ModelDir, AotDir
<1>4. Path(dir, file, i) # Source
  <2>1. Path(dir, file, i) = <<a, b, file, i>>
    BY <1>1, PathIs
  <2> QED BY <1>1, <2>1 DEF Source
<1>5. \A other, k : /\ Path(dir, file, i) # Path(ModelDir, other, k)
                    /\ Path(dir, file, i) # Path(AotDir, other, k)
  BY <1>1, PathSame DEF ModelDir, AotDir
<1>6. ASSUME NEW q, q # p
      PROVE  /\ dir # Temporary(q)
             /\ \A other, k : Path(dir, file, i) # Path(Temporary(q), other, k)
  BY <1>1, <1>6, PathSame DEF Temporary
<1> QED BY <1>2, <1>3, <1>4, <1>5, <1>6

\* The files of the artifact directory are the same.
SameModel(f, g) ==
  \A file, i :
    /\ Path(ModelDir, file, i) \in DOMAIN f <=> Path(ModelDir, file, i) \in DOMAIN g
    /\ Path(ModelDir, file, i) \in DOMAIN f
         => g[Path(ModelDir, file, i)] = f[Path(ModelDir, file, i)]

\* The temporary of a process, and the resource files, are still there.
SameTemporary(q, f, g) ==
  \A file : Path(Temporary(q), file, 0) \in DOMAIN f =>
    /\ Path(Temporary(q), file, 0) \in DOMAIN g
    /\ g[Path(Temporary(q), file, 0)] = f[Path(Temporary(q), file, 0)]
SameDestinations(f, g) ==
  \A file : Path(AotDir, file, 0) \in DOMAIN f => Path(AotDir, file, 0) \in DOMAIN g
SameResources(p, f, g) ==
  (\A q : q # p => SameTemporary(q, f, g)) /\ SameDestinations(f, g)

\* What a step of process p may do to the files.
Keeps(p, f, g) == Sound(g) /\ SameModel(f, g) /\ SameResources(p, f, g)

LEMMA KeepsNothing ==
  ASSUME NEW p, NEW f, Sound(f)
  PROVE  Keeps(p, f, f)
  BY DEF Keeps, SameModel, SameResources, SameTemporary, SameDestinations

LEMMA KeepsBoth ==
  ASSUME NEW p, NEW f, NEW g, NEW h, Keeps(p, f, g), Keeps(p, g, h)
  PROVE  Keeps(p, f, h)
<1>1. SameModel(f, h)
  BY DEF Keeps, SameModel
<1>2. SameResources(p, f, h)
  BY DEF Keeps, SameResources, SameTemporary, SameDestinations
<1> QED BY <1>1, <1>2 DEF Keeps

Written(f, path, content) ==
  [q \in DOMAIN f \cup {path} |-> IF q = path THEN content ELSE f[q]]

LEMMA KeepsWrite ==
  ASSUME NEW p, NEW f, Sound(f), NEW dir \in Scratch(p), NEW file, NEW i, NEW content,
         content.kind = "manifest" => content \in Manifests
  PROVE  Keeps(p, f, Written(f, Path(dir, file, i), content))
<1> DEFINE path == Path(dir, file, i)
           g == Written(f, path, content)
<1>1. /\ SubSeq(path, 1, 2) = dir /\ dir # ModelDir /\ dir # AotDir /\ path # Source
      /\ \A other, k : path # Path(ModelDir, other, k) /\ path # Path(AotDir, other, k)
      /\ \A q : q # p => \A other, k : path # Path(Temporary(q), other, k)
  BY ScratchApart
<1> HIDE DEF path
<1>2. /\ DOMAIN g = DOMAIN f \cup {path} /\ g[path] = content
      /\ \A q \in DOMAIN f : q # path => g[q] = f[q]
  BY DEF Written
<1> HIDE DEF g
<1>3. Sound(g)
  <2>1. Source \in DOMAIN g => g[Source] \in Sources
    BY <1>1, <1>2 DEF Sound
  <2>2. \A q \in DOMAIN g : g[q].kind = "manifest" => g[q] \in Manifests
    BY <1>2 DEF Sound
  <2>3. \A q \in DOMAIN g : SubSeq(q, 1, 2) = AotDir => g[q].kind = "resource"
    BY <1>1, <1>2 DEF Sound
  <2> QED BY <2>1, <2>2, <2>3 DEF Sound
<1>4. SameModel(f, g)
  BY <1>1, <1>2 DEF SameModel
<1>5. SameResources(p, f, g)
  BY <1>1, <1>2 DEF SameResources, SameTemporary, SameDestinations
<1> QED BY <1>3, <1>4, <1>5 DEF Keeps, g, path

LEMMA KeepsRemove ==
  ASSUME NEW p, NEW f, Sound(f), NEW D,
         \A q \in D : SubSeq(q, 1, 2) \in Scratch(p)
  PROVE  Keeps(p, f, [q \in DOMAIN f \ D |-> f[q]])
<1> DEFINE g == [q \in DOMAIN f \ D |-> f[q]]
<1>1. DOMAIN g = DOMAIN f \ D /\ \A q \in DOMAIN g : g[q] = f[q]
  OBVIOUS
<1> HIDE DEF g
<1>2. Sound(g)
  BY <1>1 DEF Sound
<1>3. ModelDir \notin Scratch(p) /\ AotDir \notin Scratch(p)
  BY ScratchApart
<1>4. \A file, i : Path(ModelDir, file, i) \notin D /\ Path(AotDir, file, i) \notin D
  <2>1. \A file, i : SubSeq(Path(ModelDir, file, i), 1, 2) = ModelDir
    BY PathIn DEF ModelDir
  <2>2. \A file, i : SubSeq(Path(AotDir, file, i), 1, 2) = AotDir
    BY PathIn DEF AotDir
  <2> QED BY <1>3, <2>1, <2>2
<1>5. \A q, file : q # p => Path(Temporary(q), file, 0) \notin D
  <2> SUFFICES ASSUME NEW q, NEW file, q # p PROVE Path(Temporary(q), file, 0) \notin D
    OBVIOUS
  <2>1. SubSeq(Path(Temporary(q), file, 0), 1, 2) = Temporary(q)
    BY PathIn DEF Temporary
  <2>2. Temporary(q) \notin Scratch(p)
    BY ScratchApart
  <2> QED BY <2>1, <2>2
<1>6. SameModel(f, g)
  BY <1>1, <1>4 DEF SameModel
<1>7. SameResources(p, f, g)
  BY <1>1, <1>4, <1>5 DEF SameResources, SameTemporary, SameDestinations
<1> QED BY <1>2, <1>6, <1>7 DEF Keeps, g

\* What the invariant says of the files is kept.
LEMMA KernelsKept ==
  ASSUME NEW f, NEW g, SameModel(f, g)
  PROVE  /\ \A i, kernels : KernelAt(f, i, kernels) <=> KernelAt(g, i, kernels)
         /\ \A name : ManifestAt(f, name) <=> ManifestAt(g, name)
         /\ \A name : ManifestAt(f, name) => f[Path(ModelDir, name, 0)] = g[Path(ModelDir, name, 0)]
         /\ ModelWhole(f) => ModelWhole(g)
         /\ \A t, m : Writing(t, m, f) => Writing(t, m, g)
<1>1. \A i, kernels : KernelAt(f, i, kernels) <=> KernelAt(g, i, kernels)
  BY DEF KernelAt, SameModel
<1>2. \A name : ManifestAt(f, name) <=> ManifestAt(g, name)
  BY DEF ManifestAt, SameModel
<1>3. \A name : ManifestAt(f, name) => f[Path(ModelDir, name, 0)] = g[Path(ModelDir, name, 0)]
  BY DEF ManifestAt, SameModel
<1>4. ModelWhole(f) => ModelWhole(g)
  BY <1>1, <1>2, <1>3 DEF ModelWhole
<1>5. \A t, m : Writing(t, m, f) => Writing(t, m, g)
  BY <1>1, <1>2 DEF Writing
<1> QED BY <1>1, <1>2, <1>3, <1>4, <1>5

LEMMA BundlingKept ==
  ASSUME NEW q, NEW f, NEW g, SameTemporary(q, f, g), SameDestinations(f, g),
         NEW j, NEW t, NEW st, Bundling(q, j, t, f, st)
  PROVE  Bundling(q, j, t, g, st)
  BY DEF Bundling, SameTemporary, SameDestinations

-----------------------------------------------------------------------------
(* One step of a process *)

\* b is a, but for its value at p.
Changed(a, b, p, v) ==
  DOMAIN b = DOMAIN a /\ b[p] = v /\ \A q \in DOMAIN a : q # p => b[q] = a[q]

LEMMA ChangedIs ==
  ASSUME NEW a, NEW p \in DOMAIN a, NEW v
  PROVE  Changed(a, [a EXCEPT ![p] = v], p, v) /\ Changed(a, a, p, a[p])
  BY DEF Changed

\* What the invariant says of one process alone.
Local(p, j, t, m, st) ==
  /\ Listed(p, j, t) /\ Knows(j, t, m) /\ Remembers(p, m)
  /\ st = "serving" => j.role = "worker"

\* What a process may leave behind.
Leaves(p, j, t, m, st, was, f, g) ==
  /\ Sound(g) /\ SameResources(p, f, g)
  /\ ~Publishes(j) => SameModel(f, g)
  /\ Bundles(j) => Bundling(p, j, t, g, st)
  /\ Bundles(j) /\ st = "ok" /\ was # "ok" => Path(AotDir, Destination(j), 0) \notin DOMAIN f

LEMMA ProcessStep ==
  ASSUME PInv, NEW p \in Procs, NEW t, NEW m, NEW st,
         job' = job, Changed(todo, todo', p, t), Changed(mem, mem', p, m),
         Changed(status, status', p, st),
         Local(p, job[p], t, m, st),
         Leaves(p, job[p], t, m, st, status[p], fs, fs'),
         Publishers = {p} => ModelWhole(fs') /\ Writing(t, m, fs')
  PROVE  PInv'
<1>1. /\ Procs' = Procs /\ Publishers' = Publishers /\ p \in DOMAIN todo /\ p \in DOMAIN mem
      /\ p \in DOMAIN status
  BY DEF Procs, Publishers, PInv
<1>2. /\ (\E s \in Scenarios : job = s.job)'
      /\ DOMAIN todo' = Procs' /\ DOMAIN mem' = Procs' /\ DOMAIN status' = Procs'
  BY <1>1 DEF PInv, Changed
<1>3. ASSUME NEW q \in Procs
      PROVE  /\ Listed(q, job[q], todo'[q])
             /\ Knows(job[q], todo'[q], mem'[q])
             /\ Remembers(q, mem'[q])
             /\ status'[q] = "serving" => job[q].role = "worker"
             /\ Bundles(job[q]) => Bundling(q, job[q], todo'[q], fs', status'[q])
             /\ Publishers = {q} => ModelWhole(fs') /\ Writing(todo'[q], mem'[q], fs')
  <2>1. CASE q = p
    BY <2>1 DEF Changed, Local, Leaves
  <2>2. CASE q # p
    <3>1. todo'[q] = todo[q] /\ mem'[q] = mem[q] /\ status'[q] = status[q]
      BY <2>2 DEF Changed, PInv
    <3>2. /\ Listed(q, job[q], todo[q]) /\ Knows(job[q], todo[q], mem[q])
          /\ Remembers(q, mem[q])
          /\ status[q] = "serving" => job[q].role = "worker"
      BY DEF PInv
    <3>3. Bundles(job[q]) => Bundling(q, job[q], todo[q], fs', status[q])
      <4>1. SameTemporary(q, fs, fs') /\ SameDestinations(fs, fs')
        BY <2>2 DEF Leaves, SameResources
      <4>2. Bundles(job[q]) => Bundling(q, job[q], todo[q], fs, status[q])
        BY DEF PInv
      <4> QED BY <4>1, <4>2, BundlingKept
    <3>4. Publishers = {q} => ModelWhole(fs') /\ Writing(todo[q], mem[q], fs')
      <4> SUFFICES ASSUME Publishers = {q}
                   PROVE  ModelWhole(fs') /\ Writing(todo[q], mem[q], fs')
        OBVIOUS
      <4>1. ~Publishes(job[p])
        BY <2>2 DEF Publishers, Publishes, Procs
      <4>2. SameModel(fs, fs')
        BY <4>1 DEF Leaves
      <4>3. ModelWhole(fs) /\ Writing(todo[q], mem[q], fs)
        BY DEF PInv
      <4> QED BY <4>2, <4>3, KernelsKept
    <3> QED BY <3>1, <3>2, <3>3, <3>4
  <2> QED BY <2>1, <2>2
<1>4. Sound(fs')
  BY DEF Leaves
<1>5. ASSUME NEW q \in Procs, NEW r \in Procs, Bundles(job[q]), job[q].role = job[r].role,
             status'[q] = "ok", status'[r] = "ok"
      PROVE  q = r
  <2>1. \A x \in Procs : x # p => status'[x] = status[x]
    BY DEF Changed, PInv
  <2>2. Destination(job[q]) = Destination(job[r]) /\ Bundles(job[r])
    BY <1>5 DEF Destination, Bundles
  <2>3. \A x \in Procs : Bundles(job[x]) /\ status[x] = "ok" =>
           Path(AotDir, Destination(job[x]), 0) \in DOMAIN fs
    BY DEF PInv, Bundling
  <2>4. \A x, y \in Procs :
          (Bundles(job[x]) /\ job[x].role = job[y].role /\ status[x] = "ok" /\ status[y] = "ok")
            => x = y
    BY DEF PInv
  <2>5. Bundles(job[p]) /\ status'[p] = "ok" /\ status[p] # "ok" =>
          Path(AotDir, Destination(job[p]), 0) \notin DOMAIN fs
    BY DEF Leaves, Changed
  <2> QED BY <1>5, <2>1, <2>2, <2>3, <2>4, <2>5
<1> QED BY <1>1, <1>2, <1>3, <1>4, <1>5 DEF PInv

LEMMA SameTrans ==
  ASSUME NEW p, NEW f, NEW g, NEW h
  PROVE  /\ SameModel(f, g) /\ SameModel(g, h) => SameModel(f, h)
         /\ SameResources(p, f, g) /\ SameResources(p, g, h) => SameResources(p, f, h)
<1>1. SameModel(f, g) /\ SameModel(g, h) => SameModel(f, h)
  BY DEF SameModel
<1>2. SameResources(p, f, g) /\ SameResources(p, g, h) => SameResources(p, f, h)
  BY DEF SameResources, SameTemporary, SameDestinations
<1> QED BY <1>1, <1>2

LEMMA FreshMemory ==
  ASSUME NEW p, NEW j, NEW m
  PROVE  Remembers(p, Fresh) /\ Knows(j, <<>>, m) /\ Listed(p, j, <<>>)
<1>1. Remembers(p, Fresh)
  BY DEF Remembers, IsMemory, MemoryFields, Fresh, NoModel, Content, None
<1>2. Knows(j, <<>>, m)
  BY DEF Knows
<1>3. Listed(p, j, <<>>)
  BY DEF Listed, Chain
<1> QED BY <1>1, <1>2, <1>3

\* An operation that fails keeps the invariant, whatever the process removes.
LEMMA FailsKeep ==
  ASSUME PInv, NEW p \in Procs, Fails(p), job' = job
  PROVE  PInv'
<1>1. p \in DOMAIN todo /\ p \in DOMAIN mem /\ p \in DOMAIN status
  BY DEF PInv
<1>2. /\ Remembers(p, mem[p]) /\ Sound(fs)
      /\ status[p] = "serving" => job[p].role = "worker"
      /\ Publishers = {p} => ModelWhole(fs)
  BY DEF PInv
<1>3. Changed(todo, todo', p, <<>>)
  BY <1>1, ChangedIs DEF Fails
<1>4. \A m, f : Writing(<<>>, m, f)
  BY DEF Writing
<1>5. CASE status[p] = "serving"
  <2>1. mem' = mem /\ status' = status /\ fs' = fs
    BY <1>5 DEF Fails
  <2>2. Changed(mem, mem', p, mem[p]) /\ Changed(status, status', p, status[p])
    BY <1>1, <2>1, ChangedIs
  <2>3. Local(p, job[p], <<>>, mem[p], status[p])
    BY <1>2, FreshMemory DEF Local
  <2>4. ~Bundles(job[p])
    BY <1>2, <1>5 DEF Bundles
  <2>5. Leaves(p, job[p], <<>>, mem[p], status[p], status[p], fs, fs')
    BY <1>2, <2>1, <2>4, KeepsNothing DEF Leaves, Keeps
  <2> QED BY <1>2, <1>3, <1>4, <2>1, <2>2, <2>3, <2>5, ProcessStep
<1>6. CASE status[p] # "serving"
  <2>1. mem' = [mem EXCEPT ![p] = Fresh] /\ status' = [status EXCEPT ![p] = "failed"]
    BY <1>6 DEF Fails
  <2>2. Changed(mem, mem', p, Fresh) /\ Changed(status, status', p, "failed")
    BY <1>1, <2>1, ChangedIs
  <2>3. Local(p, job[p], <<>>, Fresh, "failed")
    BY FreshMemory DEF Local
  <2>4. Keeps(p, fs, fs')
    <3>1. CASE fs' = fs
      BY <1>2, <3>1, KeepsNothing
    <3>2. CASE mem[p].owns # <<>> /\ fs' = Without(FilesIn(mem[p].owns))
      <4> DEFINE D == FilesIn(mem[p].owns)
      <4>1. mem[p].owns \in Scratch(p)
        BY <1>2, <3>2 DEF Remembers, Scratch
      <4>2. \A q \in D : SubSeq(q, 1, 2) \in Scratch(p)
        BY <4>1 DEF FilesIn
      <4> HIDE DEF D
      <4>3. Keeps(p, fs, [q \in DOMAIN fs \ D |-> fs[q]])
        BY <1>2, <4>2, KeepsRemove
      <4> QED BY <3>2, <4>3 DEF Without, D
    <3> QED BY <1>6, <3>1, <3>2 DEF Fails
  <2>5. Leaves(p, job[p], <<>>, Fresh, "failed", status[p], fs, fs')
    BY <2>4 DEF Leaves, Keeps, Bundling
  <2>6. Publishers = {p} => ModelWhole(fs')
    BY <1>2, <2>4, KernelsKept DEF Keeps
  <2> QED BY <1>3, <1>4, <2>2, <2>3, <2>5, <2>6, ProcessStep
<1> QED BY <1>5, <1>6

\* A bundler has a list that ends with the link, or has linked its destination.
Bundled(p, j, rest, f, g) ==
  \/ /\ rest # <<>> /\ rest[Len(rest)].op = "link"
     /\ rest[1].op = "link" => /\ Path(Temporary(p), rest[1].file, 0) \in DOMAIN g
                               /\ g[Path(Temporary(p), rest[1].file, 0)].kind = "resource"
  \/ /\ rest = <<>>
     /\ Path(AotDir, Destination(j), 0) \in DOMAIN g
     /\ Path(AotDir, Destination(j), 0) \notin DOMAIN f

\* An operation that succeeds.  At its end a process removes its own directories.
LEMMA AdvanceKeeps ==
  ASSUME PInv, NEW p \in Procs, todo[p] # <<>>,
         NEW m, NEW f, NEW d, NEW rest, Advance(p, m, f, d, rest), job' = job,
         Listed(p, job[p], rest), Knows(job[p], rest, m), Remembers(p, m),
         Sound(f), SameResources(p, fs, f), ~Publishes(job[p]) => SameModel(fs, f),
         Bundles(job[p]) => Bundled(p, job[p], rest, fs, f),
         Publishers = {p} => ModelWhole(f) /\ Writing(rest, m, f)
  PROVE  PInv'
<1> DEFINE ends == rest = <<>> /\ status[p] = "run"
           st == IF ends THEN "ok" ELSE status[p]
           D == Owned(f, p)
<1>1. /\ p \in DOMAIN todo /\ p \in DOMAIN mem /\ p \in DOMAIN status
      /\ status[p] = "serving" => job[p].role = "worker"
  BY DEF PInv
<1>2. /\ Changed(todo, todo', p, rest) /\ Changed(mem, mem', p, m)
      /\ Changed(status, status', p, st)
  BY <1>1, ChangedIs DEF Advance
<1>3. Local(p, job[p], rest, m, st)
  BY <1>1 DEF Local
<1>4. Keeps(p, f, fs')
  <2>1. CASE ends
    <3>1. \A q \in D : SubSeq(q, 1, 2) \in Scratch(p)
      BY DEF Owned, Scratch
    <3>2. fs' = [q \in DOMAIN f \ D |-> f[q]]
      BY <2>1 DEF Advance
    <3> HIDE DEF D
    <3> QED BY <3>1, <3>2, KeepsRemove
  <2>2. CASE ~ends
    <3>1. fs' = f
      BY <2>2 DEF Advance
    <3> QED BY <3>1, KeepsNothing
  <2> QED BY <2>1, <2>2
<1>5. /\ Sound(fs') /\ SameResources(p, fs, fs')
      /\ ~Publishes(job[p]) => SameModel(fs, fs')
  BY <1>4, SameTrans DEF Keeps
<1>6. ~ends => fs' = f
  BY DEF Advance
<1>7. ASSUME Bundles(job[p])
      PROVE  /\ Bundling(p, job[p], rest, fs', st)
             /\ st = "ok" => Path(AotDir, Destination(job[p]), 0) \notin DOMAIN fs
  <2>1. status[p] \in {"run", "failed"}
    BY <1>7 DEF PInv, Bundling
  <2>2. CASE rest # <<>>
    <3>1. st = status[p] /\ fs' = f
      BY <1>6, <2>2
    <3> HIDE DEF st, ends
    <3> QED BY <1>7, <2>1, <2>2, <3>1 DEF Bundled, Bundling
  <2>3. CASE rest = <<>>
    <3>1. /\ Path(AotDir, Destination(job[p]), 0) \in DOMAIN f
          /\ Path(AotDir, Destination(job[p]), 0) \notin DOMAIN fs
      BY <1>7, <2>3 DEF Bundled
    <3>2. Path(AotDir, Destination(job[p]), 0) \in DOMAIN fs'
      BY <1>4, <3>1 DEF Keeps, SameResources, SameDestinations
    <3>3. st \in {"ok", "run", "failed"}
      BY <2>1
    <3> HIDE DEF st, ends
    <3> QED BY <2>3, <3>1, <3>2, <3>3 DEF Bundling
  <2> QED BY <2>2, <2>3
<1>8. Leaves(p, job[p], rest, m, st, status[p], fs, fs')
  <2> HIDE DEF st, ends
  <2> QED BY <1>5, <1>7 DEF Leaves
<1>9. Publishers = {p} => ModelWhole(fs') /\ Writing(rest, m, fs')
  BY <1>4, KernelsKept DEF Keeps
<1> HIDE DEF st, ends, D
<1> QED BY <1>2, <1>3, <1>8, <1>9, ProcessStep

\* What a process must have learned from an instruction for the next one.
Learns(o, m) ==
  /\ o.op = "read manifest" => Loaded(m, 0) /\ m.source = None
  /\ o.op = "read trusted" => Loaded(m, 0)
  /\ o.op = "open source" /\ o.i = 0 => Loaded(m, 0)
  /\ o.op = "read kernel" => Loaded(m, o.i)

LEMMA LearnsKnows ==
  ASSUME NEW p, NEW j, Other(j), NEW t, Listed(p, j, t), t # <<>>, NEW m, Learns(t[1], m)
  PROVE  Listed(p, j, Tail(t)) /\ Knows(j, Tail(t), m)
<1> DEFINE a == t[1]
           u == Tail(t)
           b == u[1]
<1>1. Listed(p, j, u) /\ (u # <<>> => <<a, b>> \in Order(p, j))
  BY ChainTail DEF Listed
<1>2. u # <<>> => Follows(a, b) /\ a \in Instrs(p, j) /\ b \in Instrs(p, j)
  <2> HIDE DEF a, b, u
  <2> QED BY <1>1 DEF Order
<1>0. Learns(a, m)
  OBVIOUS
<1>3. u # <<>> => OtherMay(p, j, b) /\ a.i \in Nat /\ b.i \in Nat
  <2> HIDE DEF a, b, u
  <2> QED BY <1>2 DEF Instrs, Other
<1> HIDE DEF a, b, u
<1>6. \A x : x = 1 => x - 1 = 0
  OBVIOUS
<1>7. \A x, y \in Nat : x = y + 1 => x - 1 = y
  OBVIOUS
<1>4. ASSUME u # <<>>
      PROVE  /\ b.op = "open source" /\ b.i = 0 => Loaded(m, 0) /\ m.source = None
             /\ b.op = "read kernel" => Loaded(m, b.i - 1)
             /\ b.op \in AfterLoad => Loaded(m, Kernels)
             /\ b.op \notin {"absent", "create temporary", "fill temporary"}
  <2>1. b.op = "open source" /\ b.i = 0 => Loaded(m, 0) /\ m.source = None
    BY <1>0, <1>2, <1>4 DEF Follows, Learns
  <2>2. b.op = "read kernel" => Loaded(m, b.i - 1)
    <3> SUFFICES ASSUME b.op = "read kernel" PROVE Loaded(m, b.i - 1)
      OBVIOUS
    <3>1. CASE b.i = 1 /\ (a.op = "read trusted" \/ (a.op = "open source" /\ a.i = 0))
      <4>1. Loaded(m, 0)
        BY <1>0, <3>1 DEF Learns
      <4>2. b.i - 1 = 0
        BY <1>6, <3>1, Zenon
      <4> QED BY <4>1, <4>2
    <3>2. CASE a.op = "read kernel" /\ b.i = a.i + 1
      <4>1. Loaded(m, a.i)
        BY <1>0, <3>2 DEF Learns
      <4>2. b.i - 1 = a.i
        BY <1>3, <1>4, <1>7, <3>2, Zenon
      <4> QED BY <4>1, <4>2
    <3> QED BY <1>2, <1>4, <3>1, <3>2 DEF Follows
  <2>3. b.op \in AfterLoad => Loaded(m, Kernels)
    BY <1>0, <1>2, <1>4 DEF Follows, Learns
  <2>4. b.op \notin {"absent", "create temporary", "fill temporary"}
    BY <1>3, <1>4 DEF OtherMay
  <2> QED BY <2>1, <2>2, <2>3, <2>4
<1>5. Knows(j, u, m)
  BY <1>4 DEF Knows, Other, b
<1> QED BY <1>1, <1>5 DEF u

\* The next instruction of a process is one of its own.
LEMMA NextInstr ==
  ASSUME PInv, NEW p \in Procs, todo[p] # <<>>
  PROVE  /\ Instr(p) = todo[p][1] /\ Instr(p) \in Instrs(p, job[p])
         /\ Listed(p, job[p], todo[p]) /\ Listed(p, job[p], Tail(todo[p]))
         /\ Knows(job[p], todo[p], mem[p]) /\ Remembers(p, mem[p]) /\ Sound(fs)
<1>1. /\ Listed(p, job[p], todo[p]) /\ Knows(job[p], todo[p], mem[p])
      /\ Remembers(p, mem[p]) /\ Sound(fs)
  BY DEF PInv
<1>2. Chain(Instrs(p, job[p]), Order(p, job[p]), todo[p])
  BY <1>1 DEF Listed
<1>3. /\ Chain(Instrs(p, job[p]), Order(p, job[p]), Tail(todo[p]))
      /\ Head(todo[p]) = todo[p][1] /\ todo[p][1] \in Instrs(p, job[p])
  BY <1>2, ChainTail
<1> QED BY <1>1, <1>3 DEF Instr, Listed

\* The instructions only the other processes have.
OtherOps ==
  {"read manifest", "read trusted", "open source", "read kernel", "before", "pin",
   "same", "keep", "native", "symbolic", "assign", "require v4", "make",
   "make shard", "open copy", "copy", "scp status", "read descriptor", "read payload",
   "read plan", "match plan", "mkdir", "serve", "ready", "is file",
   "plan workers", "connect", "answer", "coverage"}

LEMMA OtherJob ==
  ASSUME NEW p, NEW j, NEW o \in Instrs(p, j), o.op \in OtherOps
  PROVE  Other(j) /\ OtherMay(p, j, o)
  BY DEF Instrs, OtherOps, PublisherMay, BundlerMay, Other

\* A step of another process, to a new list or to the rest of its list.
LEMMA OtherGoes ==
  ASSUME PInv, NEW p \in Procs, todo[p] # <<>>, Other(job[p]),
         NEW m, NEW f, NEW d, NEW rest, Advance(p, m, f, d, rest), job' = job,
         Listed(p, job[p], rest), Knows(job[p], rest, m), Remembers(p, m), Keeps(p, fs, f)
  PROVE  PInv'
<1>1. ~Bundles(job[p]) /\ ~Publishes(job[p])
  BY DEF Other
<1>2. Publishers # {p}
  BY <1>1 DEF Publishers, Publishes
<1>3. Sound(f) /\ SameResources(p, fs, f) /\ SameModel(fs, f)
  BY DEF Keeps
<1> QED BY <1>1, <1>2, <1>3, AdvanceKeeps

LEMMA OtherSteps ==
  ASSUME PInv, NEW p \in Procs, todo[p] # <<>>, Other(job[p]),
         NEW m, NEW f, NEW d, Advance(p, m, f, d, Tail(todo[p])), job' = job,
         Learns(Instr(p), m), Remembers(p, m), Keeps(p, fs, f)
  PROVE  PInv'
<1>1. Listed(p, job[p], todo[p]) /\ Instr(p) = todo[p][1]
  BY NextInstr
<1>2. Learns(todo[p][1], m)
  BY <1>1
<1>3. Listed(p, job[p], Tail(todo[p])) /\ Knows(job[p], Tail(todo[p]), m)
  BY <1>1, <1>2, LearnsKnows
<1> QED BY <1>3, OtherGoes

\* What a step may make of the memory of a process.
Updates(p, m, n) ==
  /\ IsMemory(n)
  /\ n.manifest = m.manifest \/ n.manifest \in Manifests
  /\ n.plan = m.plan \/ n.plan.kind = "plan"
  /\ n.owns = m.owns \/ n.owns \in {<<>>, Prepared, ShardDir, Snapshot(p), Temporary(p)}
  /\ n.model = m.model \/ Whole(n.model)
  /\ n.copied = m.copied \/ Content(n.copied)

LEMMA RemembersUpdate ==
  ASSUME NEW p, NEW m, Remembers(p, m), NEW n, Updates(p, m, n)
  PROVE  Remembers(p, n)
  BY DEF Remembers, Updates

\* An instruction after which nothing has to be known.
Forgets(o) == o.op \notin {"read manifest", "read trusted", "open source", "read kernel"}

LEMMA ForgetsLearns ==
  ASSUME NEW o, NEW m, Forgets(o)
  PROVE  Learns(o, m)
  BY DEF Forgets, Learns

\* The step of an action: it succeeds or it fails.
LEMMA OtherReads ==
  ASSUME PInv, NEW p \in Procs, todo[p] # <<>>, Other(job[p]), job' = job, NEW n,
         Advance(p, n, fs, dirs, Tail(todo[p])) \/ Fails(p),
         Updates(p, mem[p], n), Learns(Instr(p), n)
  PROVE  PInv'
<1>1. CASE Fails(p)
  BY <1>1, FailsKeep
<1>2. CASE Advance(p, n, fs, dirs, Tail(todo[p]))
  <2>1. Remembers(p, n) /\ Keeps(p, fs, fs)
    BY NextInstr, RemembersUpdate, KeepsNothing
  <2> QED BY <1>2, <2>1, OtherSteps
<1> QED BY <1>1, <1>2

LEMMA RecordIs ==
  ASSUME NEW p \in Procs, PInv, todo[p] # <<>>
  PROVE  IsMemory(mem[p])
  BY NextInstr DEF Remembers

LEMMA QuietReads ==
  ASSUME PInv, NEW p \in Procs, todo[p] # <<>>, Instr(p).op \in OtherOps, Forgets(Instr(p)),
         job' = job, NEW n, Advance(p, n, fs, dirs, Tail(todo[p])) \/ Fails(p),
         Updates(p, mem[p], n)
  PROVE  PInv'
<1>1. Other(job[p])
  BY NextInstr, OtherJob
<1> QED BY <1>1, ForgetsLearns, OtherReads

LEMMA SameUpdates ==
  ASSUME PInv, NEW p \in Procs, todo[p] # <<>>
  PROVE  Updates(p, mem[p], mem[p])
  BY RecordIs DEF Updates

LEMMA BeforeKeeps ==
  ASSUME PInv, NEW p \in Procs, Before(p)
  PROVE  PInv'
<1> DEFINE n == [mem[p] EXCEPT !.before = fs[Here(p)]]
<1>1. /\ todo[p] # <<>> /\ Instr(p).op = "before" /\ job' = job
      /\ Advance(p, n, fs, dirs, Tail(todo[p])) \/ Fails(p)
  BY DEF Before, Reads, Step
<1>2. Instr(p).op \in OtherOps /\ Forgets(Instr(p))
  BY <1>1 DEF OtherOps, Forgets
<1>3. Updates(p, mem[p], n)
  BY <1>1, RecordIs DEF IsMemory, MemoryFields, Updates
<1> HIDE DEF n
<1> QED BY <1>1, <1>2, <1>3, QuietReads

LEMMA PinKeeps ==
  ASSUME PInv, NEW p \in Procs, Pin(p)
  PROVE  PInv'
<1> DEFINE n == [mem[p] EXCEPT !.ids[Instr(p).slot] = Read(Here(p)), !.before = None]
<1>1. /\ todo[p] # <<>> /\ Instr(p).op = "pin" /\ job' = job
      /\ Advance(p, n, fs, dirs, Tail(todo[p])) \/ Fails(p)
  BY DEF Pin, Reads, Step
<1>2. Instr(p).op \in OtherOps /\ Forgets(Instr(p))
  BY <1>1 DEF OtherOps, Forgets
<1>3. Updates(p, mem[p], n)
  BY <1>1, RecordIs DEF IsMemory, MemoryFields, Updates
<1> HIDE DEF n
<1> QED BY <1>1, <1>2, <1>3, QuietReads

LEMMA SameKeeps ==
  ASSUME PInv, NEW p \in Procs, Same(p)
  PROVE  PInv'
<1> DEFINE n == [mem[p] EXCEPT !.before = None]
<1>1. /\ todo[p] # <<>> /\ Instr(p).op = "same" /\ job' = job
      /\ Advance(p, n, fs, dirs, Tail(todo[p])) \/ Fails(p)
  BY DEF Same, Reads, Step
<1>2. Instr(p).op \in OtherOps /\ Forgets(Instr(p))
  BY <1>1 DEF OtherOps, Forgets
<1>3. Updates(p, mem[p], n)
  BY <1>1, RecordIs DEF IsMemory, MemoryFields, Updates
<1> HIDE DEF n
<1> QED BY <1>1, <1>2, <1>3, QuietReads

LEMMA IsNativeKeeps ==
  ASSUME PInv, NEW p \in Procs, IsNative(p)
  PROVE  PInv'
<1> DEFINE n == [mem[p] EXCEPT !.native = Exists(Here(p))]
<1>1. /\ todo[p] # <<>> /\ Instr(p).op = "native" /\ job' = job
      /\ Advance(p, n, fs, dirs, Tail(todo[p])) \/ Fails(p)
  BY DEF IsNative, Reads, Step
<1>2. Instr(p).op \in OtherOps /\ Forgets(Instr(p))
  BY <1>1 DEF OtherOps, Forgets
<1>3. Updates(p, mem[p], n)
  BY <1>1, RecordIs DEF IsMemory, MemoryFields, Updates
<1> HIDE DEF n
<1> QED BY <1>1, <1>2, <1>3, QuietReads

LEMMA RequireBoundedKeeps ==
  ASSUME PInv, NEW p \in Procs, RequireBounded(p)
  PROVE  PInv'
<1>1. /\ todo[p] # <<>> /\ Instr(p).op = "require v4" /\ job' = job
      /\ Advance(p, mem[p], fs, dirs, Tail(todo[p])) \/ Fails(p)
  BY DEF RequireBounded, Reads, Step
<1>2. Instr(p).op \in OtherOps /\ Forgets(Instr(p))
  BY <1>1 DEF OtherOps, Forgets
<1> QED BY <1>1, <1>2, SameUpdates, QuietReads

LEMMA ReadDescriptorKeeps ==
  ASSUME PInv, NEW p \in Procs, ReadDescriptor(p)
  PROVE  PInv'
<1> DEFINE n == [mem[p] EXCEPT !.shard = Read(Here(p))]
<1>1. /\ todo[p] # <<>> /\ Instr(p).op = "read descriptor" /\ job' = job
      /\ Advance(p, n, fs, dirs, Tail(todo[p])) \/ Fails(p)
  BY DEF ReadDescriptor, Reads, Step
<1>2. Instr(p).op \in OtherOps /\ Forgets(Instr(p))
  BY <1>1 DEF OtherOps, Forgets
<1>3. Updates(p, mem[p], n)
  BY <1>1, RecordIs DEF IsMemory, MemoryFields, Updates
<1> HIDE DEF n
<1> QED BY <1>1, <1>2, <1>3, QuietReads

LEMMA ReadPayloadKeeps ==
  ASSUME PInv, NEW p \in Procs, ReadPayload(p)
  PROVE  PInv'
<1> DEFINE n == [mem[p] EXCEPT !.shard = Read(Here(p))]
<1>1. /\ todo[p] # <<>> /\ Instr(p).op = "read payload" /\ job' = job
      /\ Advance(p, n, fs, dirs, Tail(todo[p])) \/ Fails(p)
  BY DEF ReadPayload, Reads, Step
<1>2. Instr(p).op \in OtherOps /\ Forgets(Instr(p))
  BY <1>1 DEF OtherOps, Forgets
<1>3. Updates(p, mem[p], n)
  BY <1>1, RecordIs DEF IsMemory, MemoryFields, Updates
<1> HIDE DEF n
<1> QED BY <1>1, <1>2, <1>3, QuietReads

LEMMA IsFileKeeps ==
  ASSUME PInv, NEW p \in Procs, IsFile(p)
  PROVE  PInv'
<1>1. /\ todo[p] # <<>> /\ Instr(p).op = "is file" /\ job' = job
      /\ Advance(p, mem[p], fs, dirs, Tail(todo[p])) \/ Fails(p)
  BY DEF IsFile, Reads, Step
<1>2. Instr(p).op \in OtherOps /\ Forgets(Instr(p))
  BY <1>1 DEF OtherOps, Forgets
<1> QED BY <1>1, <1>2, SameUpdates, QuietReads

LEMMA AnswerKeeps ==
  ASSUME PInv, NEW p \in Procs, Answer(p)
  PROVE  PInv'
<1>1. /\ todo[p] # <<>> /\ Instr(p).op = "answer" /\ job' = job
      /\ Advance(p, mem[p], fs, dirs, Tail(todo[p])) \/ Fails(p)
  BY DEF Answer, Reads, Step
<1>2. Instr(p).op \in OtherOps /\ Forgets(Instr(p))
  BY <1>1 DEF OtherOps, Forgets
<1> QED BY <1>1, <1>2, SameUpdates, QuietReads

LEMMA CoverageKeeps ==
  ASSUME PInv, NEW p \in Procs, Coverage(p)
  PROVE  PInv'
<1>1. /\ todo[p] # <<>> /\ Instr(p).op = "coverage" /\ job' = job
      /\ Advance(p, mem[p], fs, dirs, Tail(todo[p])) \/ Fails(p)
  BY DEF Coverage, Reads, Step
<1>2. Instr(p).op \in OtherOps /\ Forgets(Instr(p))
  BY <1>1 DEF OtherOps, Forgets
<1> QED BY <1>1, <1>2, SameUpdates, QuietReads


\* A manifest that is found is one a compilation produced.
LEMMA FoundManifest ==
  ASSUME Sound(fs), NEW path, Read(path).kind = "manifest"
  PROVE  Read(path) \in Manifests
<1>1. Read(path) # None
  BY DEF None
<1> QED BY <1>1 DEF Read, Exists, Sound

LEMMA ManifestIs ==
  ASSUME NEW m \in Manifests
  PROVE  /\ m = Manifest(m.profile, m.source)
         /\ m.kernels = [i \in 1 .. Kernels |-> m.kernels[i]]
         /\ m.source \in Sources /\ m.source # None
         /\ m.kind = "manifest"
<1>1. PICK profile \in Profiles, source \in Sources : m = Manifest(profile, source)
  BY DEF Manifests
<1>2. m.profile = profile /\ m.source = source /\ m.kind = "manifest"
      /\ m.kernels = [i \in 1 .. Kernels |-> KernelFile(i, profile, source)]
  BY <1>1 DEF Manifest
<1>3. m.kernels = [i \in 1 .. Kernels |-> m.kernels[i]]
  BY <1>2
<1>4. source # None
  BY DEF Sources, Gguf, None
<1> QED BY <1>1, <1>2, <1>3, <1>4

LEMMA LoadingIs ==
  ASSUME PInv, NEW p \in Procs, todo[p] # <<>>, NEW found \in Manifests
  PROVE  /\ Updates(p, mem[p], Loading(p, found))
         /\ Loaded(Loading(p, found), 0) /\ Loading(p, found).source = None
<1> DEFINE n == Loading(p, found)
<1>1. /\ IsMemory(n) /\ n.manifest = found /\ n.plan = mem[p].plan /\ n.owns = mem[p].owns
      /\ n.model = mem[p].model /\ n.source = None /\ n.kernels = <<>>
      /\ n.copied = mem[p].copied
  BY RecordIs DEF IsMemory, MemoryFields, Loading
<1> HIDE DEF n
<1>2. <<>> = [i \in 1 .. 0 |-> n.manifest.kernels[i]]
  OBVIOUS
<1> QED BY <1>1, <1>2 DEF Updates, Loaded, n

LEMMA ReadManifestKeeps ==
  ASSUME PInv, NEW p \in Procs, ReadManifest(p)
  PROVE  PInv'
<1> DEFINE found == Read(Here(p))
<1>1. /\ todo[p] # <<>> /\ Instr(p).op = "read manifest" /\ job' = job
      /\ \/ Advance(p, Loading(p, found), fs, dirs, Tail(todo[p])) /\ found.kind = "manifest"
         \/ Fails(p)
  BY DEF ReadManifest, Reads, Step
<1>2. CASE Fails(p)
  BY <1>1, <1>2, FailsKeep
<1>3. CASE Advance(p, Loading(p, found), fs, dirs, Tail(todo[p])) /\ found.kind = "manifest"
  <2>1. Other(job[p])
    BY <1>1, NextInstr, OtherJob DEF OtherOps
  <2>2. found \in Manifests
    BY <1>1, <1>3, NextInstr, FoundManifest
  <2> HIDE DEF found
  <2>3. Updates(p, mem[p], Loading(p, found)) /\ Learns(Instr(p), Loading(p, found))
    BY <1>1, <2>2, LoadingIs DEF Learns
  <2> QED BY <1>1, <1>3, <2>1, <2>3, OtherReads
<1> QED BY <1>1, <1>2, <1>3

LEMMA ReadTrustedKeeps ==
  ASSUME PInv, NEW p \in Procs, ReadTrusted(p)
  PROVE  PInv'
<1> DEFINE found == Read(Here(p))
<1>1. /\ todo[p] # <<>> /\ Instr(p).op = "read trusted" /\ job' = job
      /\ \/ Advance(p, Loading(p, found), fs, dirs, Tail(todo[p])) /\ found.kind = "manifest"
         \/ Fails(p)
  BY DEF ReadTrusted, Reads, Step
<1>2. CASE Fails(p)
  BY <1>1, <1>2, FailsKeep
<1>3. CASE Advance(p, Loading(p, found), fs, dirs, Tail(todo[p])) /\ found.kind = "manifest"
  <2>1. Other(job[p])
    BY <1>1, NextInstr, OtherJob DEF OtherOps
  <2>2. found \in Manifests
    BY <1>1, <1>3, NextInstr, FoundManifest
  <2> HIDE DEF found
  <2>3. Updates(p, mem[p], Loading(p, found)) /\ Learns(Instr(p), Loading(p, found))
    BY <1>1, <2>2, LoadingIs DEF Learns
  <2> QED BY <1>1, <1>3, <2>1, <2>3, OtherReads
<1> QED BY <1>1, <1>2, <1>3

LEMMA OpenSourceKeeps ==
  ASSUME PInv, NEW p \in Procs, OpenSource(p)
  PROVE  PInv'
<1> DEFINE n == [mem[p] EXCEPT !.source = fs[Source]]
<1>1. /\ todo[p] # <<>> /\ Instr(p).op = "open source" /\ job' = job
      /\ \/ Advance(p, n, fs, dirs, Tail(todo[p])) /\ Read(Source) = mem[p].manifest.source
         \/ Fails(p)
  BY DEF OpenSource, Reads, Step
<1>2. CASE Fails(p)
  BY <1>1, <1>2, FailsKeep
<1>3. CASE Advance(p, n, fs, dirs, Tail(todo[p])) /\ Read(Source) = mem[p].manifest.source
  <2>1. Other(job[p]) /\ Instr(p) = todo[p][1] /\ Knows(job[p], todo[p], mem[p])
    BY <1>1, NextInstr, OtherJob DEF OtherOps
  <2>2. /\ Updates(p, mem[p], n) /\ n.manifest = mem[p].manifest /\ n.kernels = mem[p].kernels
        /\ n.source = fs[Source]
    BY <1>1, RecordIs DEF IsMemory, MemoryFields, Updates
  <2> HIDE DEF n
  <2>3. Instr(p).i = 0 => Loaded(n, 0)
    <3> SUFFICES ASSUME Instr(p).i = 0 PROVE Loaded(n, 0)
      OBVIOUS
    <3>1. Loaded(mem[p], 0)
      BY <1>1, <2>1 DEF Knows
    <3>2. mem[p].manifest \in Manifests
      BY <3>1 DEF Loaded
    <3>3. Read(Source) # None
      BY <1>3, <3>2, ManifestIs
    <3>4. fs[Source] = mem[p].manifest.source
      BY <1>3, <3>3 DEF Read
    <3> QED BY <2>2, <3>1, <3>4 DEF Loaded
  <2>4. Learns(Instr(p), n)
    BY <1>1, <2>3 DEF Learns
  <2> QED BY <1>1, <1>3, <2>1, <2>2, <2>4, OtherReads
<1> QED BY <1>1, <1>2, <1>3

LEMMA LoadedNext ==
  ASSUME NEW m, NEW n, NEW i \in 1 .. Kernels, Loaded(m, i - 1), n.manifest = m.manifest,
         n.source = m.source, n.kernels = Append(m.kernels, m.manifest.kernels[i])
  PROVE  Loaded(n, i)
<1> DEFINE k(x) == m.manifest.kernels[x]
           S == {k(x) : x \in 1 .. Kernels}
           s == [x \in 1 .. i - 1 |-> k(x)]
<1>1. i \in Nat /\ i - 1 \in Nat /\ \A x \in 1 .. i : x \in 1 .. Kernels
  BY KernelsAssumption
<1>2. \A x \in 1 .. Kernels : k(x) \in S
  OBVIOUS
<1> HIDE DEF k, S
<1>3. s \in Seq(S) /\ Len(s) = i - 1
  BY <1>1, <1>2
<1>4. Append(s, k(i)) = [x \in 1 .. i |-> k(x)]
  BY <1>1, <1>2, <1>3
<1>5. m.kernels = s
  BY DEF Loaded, s, k
<1>6. n.kernels = [x \in 1 .. i |-> n.manifest.kernels[x]]
  BY <1>4, <1>5 DEF k
<1> QED BY <1>6 DEF Loaded

LEMMA ReadKernelKeeps ==
  ASSUME PInv, NEW p \in Procs, ReadKernel(p)
  PROVE  PInv'
<1> DEFINE found == Read(Here(p))
           n == [mem[p] EXCEPT !.kernels = Append(@, found)]
<1>1. /\ todo[p] # <<>> /\ Instr(p).op = "read kernel" /\ job' = job
      /\ \/ Advance(p, n, fs, dirs, Tail(todo[p])) /\ found = mem[p].manifest.kernels[Instr(p).i]
         \/ Fails(p)
  BY DEF ReadKernel, Reads, Step, KernelVerified
<1>2. CASE Fails(p)
  BY <1>1, <1>2, FailsKeep
<1>3. CASE Advance(p, n, fs, dirs, Tail(todo[p])) /\ found = mem[p].manifest.kernels[Instr(p).i]
  <2>1. Instr(p) \in Instrs(p, job[p]) /\ Instr(p).op \in OtherOps
        /\ Instr(p) = todo[p][1] /\ Knows(job[p], todo[p], mem[p])
    BY <1>1, NextInstr DEF OtherOps
  <2>2. Other(job[p]) /\ Instr(p).i \in 1 .. Kernels
    BY <1>1, <2>1, OtherJob DEF OtherMay
  <2> HIDE DEF found
  <2>3. /\ Updates(p, mem[p], n) /\ n.manifest = mem[p].manifest /\ n.source = mem[p].source
        /\ n.kernels = Append(mem[p].kernels, found)
    BY <1>1, RecordIs DEF IsMemory, MemoryFields, Updates
  <2> HIDE DEF n
  <2>4. Loaded(mem[p], Instr(p).i - 1)
    BY <1>1, <2>1 DEF Knows
  <2>5. n.kernels = Append(mem[p].kernels, mem[p].manifest.kernels[Instr(p).i])
    BY <1>3, <2>3
  <2>6. Loaded(n, Instr(p).i)
    BY <2>2, <2>3, <2>4, <2>5, LoadedNext
  <2>7. Learns(Instr(p), n)
    BY <1>1, <2>6 DEF Learns
  <2> QED BY <1>1, <1>3, <2>2, <2>3, <2>7, OtherReads
<1> QED BY <1>1, <1>2, <1>3

LEMMA KeepKeeps ==
  ASSUME PInv, NEW p \in Procs, Keep(p)
  PROVE  PInv'
<1> DEFINE model == [manifest |-> mem[p].manifest, source |-> mem[p].source,
                     kernels |-> mem[p].kernels, shard |-> mem[p].shard]
           n == [mem[p] EXCEPT !.model = model, !.shard = None]
<1>1. /\ todo[p] # <<>> /\ Instr(p).op = "keep" /\ job' = job
      /\ Advance(p, n, fs, dirs, Tail(todo[p])) \/ Fails(p)
  BY DEF Keep, Reads, Step
<1>2. Instr(p).op \in OtherOps /\ Forgets(Instr(p)) /\ Instr(p).op \in AfterLoad
  BY <1>1 DEF OtherOps, Forgets, AfterLoad
<1>3. Loaded(mem[p], Kernels)
  BY <1>1, <1>2, NextInstr DEF Knows
<1>4. Whole(model)
  <2>1. mem[p].manifest \in Manifests
    BY <1>3 DEF Loaded
  <2>2. mem[p].kernels = mem[p].manifest.kernels
    BY <1>3, <2>1, ManifestIs DEF Loaded
  <2>3. mem[p].manifest = Manifest(mem[p].manifest.profile, mem[p].manifest.source)
    BY <2>1, ManifestIs
  <2> QED BY <1>3, <2>2, <2>3 DEF Loaded, Whole
<1> HIDE DEF model
<1>5. Updates(p, mem[p], n)
  BY <1>1, <1>4, RecordIs DEF IsMemory, MemoryFields, Updates
<1> HIDE DEF n
<1> QED BY <1>1, <1>2, <1>5, QuietReads

LEMMA ReadPlanKeeps ==
  ASSUME PInv, NEW p \in Procs, ReadPlan(p)
  PROVE  PInv'
<1> DEFINE found == Read(Here(p))
           n == [mem[p] EXCEPT !.plan = found, !.ids[1] = found.artifact]
<1>1. /\ todo[p] # <<>> /\ Instr(p).op = "read plan" /\ job' = job
      /\ \/ Advance(p, n, fs, dirs, Tail(todo[p])) /\ found.kind = "plan"
         \/ Fails(p)
  BY DEF ReadPlan, Reads, Step
<1>2. CASE Fails(p)
  BY <1>1, <1>2, FailsKeep
<1>3. CASE Advance(p, n, fs, dirs, Tail(todo[p])) /\ found.kind = "plan"
  <2>1. Instr(p).op \in OtherOps /\ Forgets(Instr(p))
    BY <1>1 DEF OtherOps, Forgets
  <2> HIDE DEF found
  <2>2. Updates(p, mem[p], n)
    BY <1>1, <1>3, RecordIs DEF IsMemory, MemoryFields, Updates
  <2> HIDE DEF n
  <2> QED BY <1>1, <1>3, <2>1, <2>2, QuietReads
<1> QED BY <1>1, <1>2, <1>3

\* The commands are those of the scenario.
LEMMA JobIs ==
  ASSUME PInv, NEW p \in Procs
  PROVE  Command(job[p]) /\ IsFiniteSet(Procs)
<1>1. PICK s \in Scenarios : job = s.job
  BY DEF PInv
<1> QED BY <1>1, ScenarioAssumption DEF Procs

\* The ranges of an artifact's layers.
LEMMA RangesOf ==
  ASSUME NEW m \in Manifests, NEW w \in Nat
  PROVE  /\ Len(layer_ranges(LayersOf(m), w)) \in Nat
         /\ layer_ranges(LayersOf(m), w) # <<>> => Len(layer_ranges(LayersOf(m), w)) > 0
<1>1. PICK v \in Range(Versions) : m.source = Gguf(v)
  BY ManifestIs DEF Sources
<1>2. LayersOf(m) \in Nat
  <2>1. Layers[v] \in Nat
    BY DeploymentAssumption
  <2>2. m.source.v = v
    BY <1>1 DEF Gguf
  <2> QED BY <2>1, <2>2 DEF LayersOf
<1> DEFINE layers == LayersOf(m)
           count == IF w < layers THEN w ELSE layers
           r == [i \in 1 .. count |-> <<((i - 1) * layers) \div count, (i * layers) \div count>>]
<1>3. count \in Nat
  BY <1>2
<1>4. layer_ranges(LayersOf(m), w) = r
  BY DEF layer_ranges
<1> HIDE DEF count, layers
<1>5. Len(r) = count /\ (r # <<>> => count > 0)
  BY <1>3
<1> QED BY <1>3, <1>4, <1>5

\* A process that goes on with another list.
LEMMA OtherRestarts ==
  ASSUME PInv, NEW p \in Procs, todo[p] # <<>>, Other(job[p]), job' = job, NEW n, NEW rest,
         Advance(p, n, fs, dirs, rest), FreeList(p, job[p], rest), Updates(p, mem[p], n)
  PROVE  PInv'
<1>1. Listed(p, job[p], rest) /\ Knows(job[p], rest, n)
  BY FreeStarts, StartsKnows
<1>2. Remembers(p, n) /\ Keeps(p, fs, fs)
  BY NextInstr, RemembersUpdate, KeepsNothing
<1> QED BY <1>1, <1>2, OtherGoes

LEMMA IsSymbolicKeeps ==
  ASSUME PInv, NEW p \in Procs, IsSymbolic(p)
  PROVE  PInv'
<1> DEFINE rest == IF mem[p].native THEN causal_open(ModelDir) ELSE open_artifact(ModelDir)
<1>1. /\ todo[p] # <<>> /\ Instr(p).op = "symbolic" /\ job' = job
      /\ Advance(p, mem[p], fs, dirs, rest) \/ Fails(p)
  BY DEF IsSymbolic, Step
<1>2. CASE Fails(p)
  BY <1>1, <1>2, FailsKeep
<1>3. CASE Advance(p, mem[p], fs, dirs, rest)
  <2>1. Other(job[p])
    BY <1>1, NextInstr, OtherJob DEF OtherOps
  <2>2. FreeList(p, job[p], rest)
    BY <2>1, CoordinatorLists
  <2> HIDE DEF rest
  <2> QED BY <1>1, <1>3, <2>1, <2>2, SameUpdates, OtherRestarts
<1> QED BY <1>1, <1>2, <1>3

LEMMA AssignKeeps ==
  ASSUME PInv, NEW p \in Procs, Assign(p)
  PROVE  PInv'
<1> DEFINE ranges == layer_ranges(LayersOf(mem[p].manifest), job[p].workers)
           n == [mem[p] EXCEPT !.ranges = ranges]
<1>1. /\ todo[p] # <<>> /\ Instr(p).op = "assign" /\ job' = job
      /\ \/ Advance(p, n, fs, dirs, PrepareRest(ranges)) /\ ranges # <<>>
         \/ Fails(p)
  BY DEF Assign, Step
<1>2. CASE Fails(p)
  BY <1>1, <1>2, FailsKeep
<1>3. CASE Advance(p, n, fs, dirs, PrepareRest(ranges)) /\ ranges # <<>>
  <2>1. Other(job[p]) /\ Instr(p).op \in AfterLoad
    BY <1>1, NextInstr, OtherJob DEF OtherOps, AfterLoad
  <2>2. mem[p].manifest \in Manifests /\ job[p].workers \in Nat
    BY <1>1, <2>1, NextInstr, JobIs DEF Knows, Loaded, Command
  <2>3. Len(ranges) \in Nat /\ Len(ranges) > 0
    BY <1>3, <2>2, RangesOf
  <2> HIDE DEF ranges
  <2>4. FreeList(p, job[p], PrepareRest(ranges))
    BY <2>1, <2>3, PrepareLists
  <2>5. Updates(p, mem[p], n)
    BY <1>1, RecordIs DEF IsMemory, MemoryFields, Updates
  <2> HIDE DEF n
  <2> QED BY <1>1, <1>3, <2>1, <2>4, <2>5, OtherRestarts
<1> QED BY <1>1, <1>2, <1>3

LEMMA MatchPlanKeeps ==
  ASSUME PInv, NEW p \in Procs, MatchPlan(p)
  PROVE  PInv'
<1> DEFINE count == Len(mem[p].plan.ranges)
           rest == DeployRest(Snapshot(p), count)
<1>1. /\ todo[p] # <<>> /\ Instr(p).op = "match plan" /\ job' = job
      /\ \/ Advance(p, mem[p], fs, dirs, rest) /\ count = job[p].workers
         \/ Fails(p)
  BY DEF MatchPlan, Step
<1>2. CASE Fails(p)
  BY <1>1, <1>2, FailsKeep
<1>3. CASE Advance(p, mem[p], fs, dirs, rest) /\ count = job[p].workers
  <2>1. Other(job[p])
    BY <1>1, NextInstr, OtherJob DEF OtherOps
  <2>2. count \in Nat
    BY <1>3, JobIs DEF Command
  <2> HIDE DEF count
  <2>3. FreeList(p, job[p], rest)
    BY <2>1, <2>2, DeployLists
  <2> HIDE DEF rest
  <2> QED BY <1>1, <1>3, <2>1, <2>3, SameUpdates, OtherRestarts
<1> QED BY <1>1, <1>2, <1>3

LEMMA PlanWorkersKeeps ==
  ASSUME PInv, NEW p \in Procs, PlanWorkers(p)
  PROVE  PInv'
<1> DEFINE ranges == layer_ranges(LayersOf(mem[p].manifest), job[p].workers)
           n == [mem[p] EXCEPT !.ranges = ranges]
           rest == Each(Len(ranges), LAMBDA i : <<Op("connect", ModelDir, "", i),
                                                  Op("answer", ModelDir, "", i)>>)
                   \o pipeline_open
<1>1. /\ todo[p] # <<>> /\ Instr(p).op = "plan workers" /\ job' = job
      /\ \/ Advance(p, n, fs, dirs, rest) /\ ranges # <<>>
         \/ Fails(p)
  BY DEF PlanWorkers, Step
<1>2. CASE Fails(p)
  BY <1>1, <1>2, FailsKeep
<1>3. CASE Advance(p, n, fs, dirs, rest) /\ ranges # <<>>
  <2> HIDE DEF rest
  <2>1. Other(job[p]) /\ Instr(p).op \in AfterLoad
    BY <1>1, NextInstr, OtherJob DEF OtherOps, AfterLoad
  <2>2. mem[p].manifest \in Manifests /\ job[p].workers \in Nat
    BY <1>1, <2>1, NextInstr, JobIs DEF Knows, Loaded, Command
  <2>3. Len(ranges) \in Nat /\ Len(ranges) > 0
    BY <1>3, <2>2, RangesOf
  <2> HIDE DEF ranges
  <2>4. FreeList(p, job[p], rest)
    BY <2>1, <2>3, CoordinatorLists DEF rest
  <2>5. Updates(p, mem[p], n)
    BY <1>1, RecordIs DEF IsMemory, MemoryFields, Updates
  <2> HIDE DEF n
  <2> QED BY <1>1, <1>3, <2>1, <2>4, <2>5, OtherRestarts
<1> QED BY <1>1, <1>2, <1>3

\* A step of another process that changes files or directories of its own.
LEMMA OtherWrites ==
  ASSUME PInv, NEW p \in Procs, todo[p] # <<>>, Other(job[p]), Forgets(Instr(p)), job' = job,
         NEW n, NEW f, NEW d, Advance(p, n, f, d, Tail(todo[p])),
         Keeps(p, fs, f), Updates(p, mem[p], n)
  PROVE  PInv'
<1>1. Remembers(p, n) /\ Learns(Instr(p), n)
  BY NextInstr, RemembersUpdate, ForgetsLearns
<1> QED BY <1>1, OtherSteps

LEMMA MkdirKeeps ==
  ASSUME PInv, NEW p \in Procs, Mkdir(p)
  PROVE  PInv'
<1> DEFINE d == dirs \cup {Instr(p).dir}
<1>1. /\ todo[p] # <<>> /\ Instr(p).op = "mkdir" /\ job' = job
      /\ Advance(p, mem[p], fs, d, Tail(todo[p])) \/ Fails(p)
  BY DEF Mkdir, Writes, Step
<1>2. CASE Fails(p)
  BY <1>1, <1>2, FailsKeep
<1>3. CASE Advance(p, mem[p], fs, d, Tail(todo[p]))
  <2>1. Other(job[p]) /\ Forgets(Instr(p)) /\ Keeps(p, fs, fs)
    BY <1>1, NextInstr, OtherJob, KeepsNothing DEF OtherOps, Forgets
  <2> HIDE DEF d
  <2> QED BY <1>1, <1>3, <2>1, SameUpdates, OtherWrites
<1> QED BY <1>1, <1>2, <1>3

LEMMA MakeKeeps ==
  ASSUME PInv, NEW p \in Procs, Make(p)
  PROVE  PInv'
<1> DEFINE d == dirs \cup {Instr(p).dir}
           n == [mem[p] EXCEPT !.owns = Instr(p).dir]
<1>1. /\ todo[p] # <<>> /\ Instr(p).op = "make" /\ job' = job
      /\ Advance(p, n, fs, d, Tail(todo[p])) \/ Fails(p)
  BY DEF Make, Step
<1>2. CASE Fails(p)
  BY <1>1, <1>2, FailsKeep
<1>3. CASE Advance(p, n, fs, d, Tail(todo[p]))
  <2>1. /\ Other(job[p]) /\ Forgets(Instr(p)) /\ Keeps(p, fs, fs)
        /\ Instr(p).dir \in {Prepared, Snapshot(p)}
    BY <1>1, NextInstr, OtherJob, KeepsNothing DEF OtherOps, Forgets, OtherMay
  <2>2. Updates(p, mem[p], n)
    BY <1>1, <2>1, RecordIs DEF IsMemory, MemoryFields, Updates
  <2> HIDE DEF d, n
  <2> QED BY <1>1, <1>3, <2>1, <2>2, OtherWrites
<1> QED BY <1>1, <1>2, <1>3

LEMMA MakeShardKeeps ==
  ASSUME PInv, NEW p \in Procs, MakeShard(p)
  PROVE  PInv'
<1> DEFINE d == dirs \cup {<<Instr(p).dir[1], Instr(p).i>>}
           n == [mem[p] EXCEPT !.owns = IF @ = <<>> THEN Instr(p).dir ELSE @]
<1>1. /\ todo[p] # <<>> /\ Instr(p).op = "make shard" /\ job' = job
      /\ Advance(p, n, fs, d, Tail(todo[p])) \/ Fails(p)
  BY DEF MakeShard, Step
<1>2. CASE Fails(p)
  BY <1>1, <1>2, FailsKeep
<1>3. CASE Advance(p, n, fs, d, Tail(todo[p]))
  <2>1. /\ Other(job[p]) /\ Forgets(Instr(p)) /\ Keeps(p, fs, fs)
        /\ Instr(p).dir \in {Prepared, ShardDir}
    BY <1>1, NextInstr, OtherJob, KeepsNothing DEF OtherOps, Forgets, OtherMay
  <2>2. Updates(p, mem[p], n)
    BY <1>1, <2>1, RecordIs DEF IsMemory, MemoryFields, Updates
  <2> HIDE DEF d, n
  <2> QED BY <1>1, <1>3, <2>1, <2>2, OtherWrites
<1> QED BY <1>1, <1>2, <1>3

LEMMA WithKeeps ==
  ASSUME Sound(fs), NEW p, NEW dir \in Scratch(p), NEW file, NEW i, NEW content, Content(content)
  PROVE  Keeps(p, fs, With(Path(dir, file, i), content))
<1>1. Keeps(p, fs, Written(fs, Path(dir, file, i), content))
  BY KeepsWrite DEF Content
<1> QED BY <1>1 DEF Written, With

\* A copy goes to a directory of the process or to a worker's machine.
LEMMA CopyInstr ==
  ASSUME PInv, NEW p \in Procs, todo[p] # <<>>, Instr(p).op \in {"open copy", "copy"}
  PROVE  /\ Other(job[p]) /\ Forgets(Instr(p)) /\ Sound(fs) /\ Instr(p).to \in Scratch(p)
         /\ Content(mem[p].copied)
         /\ \A path \in DOMAIN fs : Content(fs[path])
<1>1. /\ Other(job[p]) /\ OtherMay(p, job[p], Instr(p)) /\ Sound(fs) /\ Remembers(p, mem[p])
  BY NextInstr, OtherJob DEF OtherOps
<1>2. Instr(p).to \in Scratch(p)
  BY <1>1 DEF OtherMay, Scratch, Remotes
<1> QED BY <1>1, <1>2 DEF Forgets, Remembers, Sound, Content

LEMMA OpenCopyKeeps ==
  ASSUME PInv, NEW p \in Procs, OpenCopy(p)
  PROVE  PInv'
<1> DEFINE f == With(Path(Instr(p).to, Instr(p).file, Instr(p).i), Torn)
           n == [mem[p] EXCEPT !.copied = fs[Here(p)]]
<1>1. /\ todo[p] # <<>> /\ Instr(p).op = "open copy" /\ job' = job
      /\ \/ Advance(p, n, f, dirs, Tail(todo[p])) /\ Exists(Here(p))
         \/ Fails(p)
  BY DEF OpenCopy, Step, CopyTo
<1>2. CASE Fails(p)
  BY <1>1, <1>2, FailsKeep
<1>3. CASE Advance(p, n, f, dirs, Tail(todo[p])) /\ Exists(Here(p))
  <2>1. /\ Other(job[p]) /\ Forgets(Instr(p)) /\ Sound(fs) /\ Instr(p).to \in Scratch(p)
        /\ Content(fs[Here(p)])
    BY <1>1, <1>3, CopyInstr DEF Exists
  <2>2. Content(Torn)
    BY DEF Content, Torn
  <2>3. Keeps(p, fs, f)
    BY <2>1, <2>2, WithKeeps
  <2>4. Updates(p, mem[p], n)
    BY <1>1, <2>1, RecordIs DEF IsMemory, MemoryFields, Updates
  <2> HIDE DEF f, n
  <2> QED BY <1>1, <1>3, <2>1, <2>3, <2>4, OtherWrites
<1> QED BY <1>1, <1>2, <1>3

LEMMA CopyFileKeeps ==
  ASSUME PInv, NEW p \in Procs, CopyFile(p)
  PROVE  PInv'
<1>0. PICK content \in ReadThrough(mem[p].copied, Read(Here(p))) :
        Step(p, "copy", TRUE, [mem[p] EXCEPT !.copied = None], With(CopyTo(p), content), dirs,
             Tail(todo[p]))
  BY DEF CopyFile
<1> DEFINE f == With(Path(Instr(p).to, Instr(p).file, Instr(p).i), content)
           n == [mem[p] EXCEPT !.copied = None]
<1>1. /\ todo[p] # <<>> /\ Instr(p).op = "copy" /\ job' = job
      /\ Advance(p, n, f, dirs, Tail(todo[p]))
  BY <1>0 DEF Step, CopyTo
<1>2. /\ Other(job[p]) /\ Forgets(Instr(p)) /\ Sound(fs) /\ Instr(p).to \in Scratch(p)
      /\ Content(mem[p].copied) /\ \A path \in DOMAIN fs : Content(fs[path])
  BY <1>1, CopyInstr
<1>3. Content(None) /\ Content(Torn)
  BY DEF Content, None, Torn
<1>4. Content(Read(Here(p)))
  BY <1>2, <1>3 DEF Read, Exists
<1>5. Content(content)
  BY <1>2, <1>3, <1>4 DEF ReadThrough
<1>6. Keeps(p, fs, f)
  BY <1>2, <1>5, WithKeeps
<1>7. Updates(p, mem[p], n)
  BY <1>1, <1>3, RecordIs DEF IsMemory, MemoryFields, Updates
<1> HIDE DEF f, n
<1> QED BY <1>1, <1>2, <1>6, <1>7, OtherWrites

LEMMA SkipFileKeeps ==
  ASSUME PInv, NEW p \in Procs, SkipFile(p)
  PROVE  PInv'
<1> DEFINE n == [mem[p] EXCEPT !.copied = None, !.partial = @ + 1]
<1>1. /\ todo[p] # <<>> /\ Instr(p).op = "copy" /\ job' = job
      /\ Advance(p, n, fs, dirs, Tail(todo[p])) \/ Fails(p)
  BY DEF SkipFile, Reads, Step
<1>2. Instr(p).op \in OtherOps /\ Forgets(Instr(p)) /\ Content(None)
  BY <1>1 DEF OtherOps, Forgets, Content, None
<1>3. Updates(p, mem[p], n)
  BY <1>1, <1>2, RecordIs DEF IsMemory, MemoryFields, Updates
<1> HIDE DEF n
<1> QED BY <1>1, <1>2, <1>3, QuietReads

LEMMA ScpStatusKeeps ==
  ASSUME PInv, NEW p \in Procs, ScpStatus(p)
  PROVE  PInv'
<1>1. /\ todo[p] # <<>> /\ Instr(p).op = "scp status" /\ job' = job
      /\ Advance(p, mem[p], fs, dirs, Tail(todo[p])) \/ Fails(p)
  BY DEF ScpStatus, Reads, Step
<1>2. Instr(p).op \in OtherOps /\ Forgets(Instr(p))
  BY <1>1 DEF OtherOps, Forgets
<1> QED BY <1>1, <1>2, SameUpdates, QuietReads

\* Files that are not part of an artifact directory.
LEMMA OtherFile ==
  ASSUME NEW p, NEW j, Other(j), NEW o \in Instrs(p, j), o.op \in {"create", "fill"}
  PROVE  /\ o.dir \in Scratch(p) /\ Forgets(o)
         /\ o.file \in {"weights.bin", "weights.json", "plan.json"}
  BY DEF Other, Instrs, OtherMay, Scratch, Forgets

LEMMA CreateOther ==
  ASSUME PInv, NEW p \in Procs, Create(p), Other(job[p])
  PROVE  PInv'
<1> DEFINE f == With(Path(Instr(p).dir, Instr(p).file, Instr(p).i), Torn)
<1>1. /\ todo[p] # <<>> /\ Instr(p).op = "create" /\ job' = job
      /\ Advance(p, mem[p], f, dirs, Tail(todo[p])) \/ Fails(p)
  BY DEF Create, Writes, Step, Here
<1>2. CASE Fails(p)
  BY <1>1, <1>2, FailsKeep
<1>3. CASE Advance(p, mem[p], f, dirs, Tail(todo[p]))
  <2>1. Sound(fs) /\ Instr(p) \in Instrs(p, job[p]) /\ Instr(p).op \in {"create", "fill"}
    BY <1>1, NextInstr
  <2>2. Instr(p).dir \in Scratch(p) /\ Forgets(Instr(p))
    BY <2>1, OtherFile
  <2>3. Content(Torn)
    BY DEF Content, Torn
  <2>4. Keeps(p, fs, f)
    BY <2>1, <2>2, <2>3, WithKeeps
  <2> HIDE DEF f
  <2> QED BY <1>1, <1>3, <2>2, <2>4, SameUpdates, OtherWrites
<1> QED BY <1>1, <1>2, <1>3

LEMMA FillOther ==
  ASSUME PInv, NEW p \in Procs, Fill(p), Other(job[p])
  PROVE  PInv'
<1> DEFINE content == Produced(p, Instr(p).file, Instr(p).i)
           n == IF Instr(p).file # "weights.json" THEN mem[p]
                ELSE [mem[p] EXCEPT !.shards = Append(@, content),
                                    !.owns = IF @ = ShardDir THEN <<>> ELSE @]
           f == With(Path(Instr(p).dir, Instr(p).file, Instr(p).i), content)
<1>1. /\ todo[p] # <<>> /\ Instr(p).op = "fill" /\ job' = job
      /\ Advance(p, n, f, dirs, Tail(todo[p])) \/ Fails(p)
  BY DEF Fill, Step, Here
<1>2. CASE Fails(p)
  BY <1>1, <1>2, FailsKeep
<1>3. CASE Advance(p, n, f, dirs, Tail(todo[p]))
  <2>1. /\ Sound(fs) /\ Instr(p) \in Instrs(p, job[p]) /\ Instr(p).op \in {"create", "fill"}
        /\ Remembers(p, mem[p])
    BY <1>1, NextInstr
  <2>2. /\ Instr(p).dir \in Scratch(p) /\ Forgets(Instr(p))
        /\ Instr(p).file \in {"weights.bin", "weights.json", "plan.json"}
    BY <2>1, OtherFile
  <2>3. Content(content)
    <3>1. CASE Instr(p).file = "weights.bin"
      <4>1. content = Weights(mem[p].source, RangeOf(p, Instr(p).i))
        BY <3>1 DEF Produced
      <4> HIDE DEF content
      <4> QED BY <4>1 DEF Content, Weights
    <3>2. CASE Instr(p).file = "weights.json"
      <4>1. content = Descriptor(mem[p].ids[2], mem[p].source, RangeOf(p, Instr(p).i))
        BY <3>2 DEF Produced
      <4> HIDE DEF content
      <4> QED BY <4>1 DEF Content, Descriptor
    <3>3. CASE Instr(p).file = "plan.json"
      <4>1. content = IF mem[p].plan # None THEN mem[p].plan
                      ELSE Plan(mem[p].ids[1], mem[p].ranges, mem[p].shards)
        BY <3>3 DEF Produced
      <4> HIDE DEF content
      <4>2. content.kind = "plan"
        BY <2>1, <4>1 DEF Plan, Remembers
      <4> QED BY <4>2 DEF Content
    <3> QED BY <2>2, <3>1, <3>2, <3>3
  <2> HIDE DEF content
  <2>4. Keeps(p, fs, f)
    BY <2>1, <2>2, <2>3, WithKeeps
  <2>5. Updates(p, mem[p], n)
    BY <1>1, RecordIs DEF IsMemory, MemoryFields, Updates
  <2> HIDE DEF f, n
  <2> QED BY <1>1, <1>3, <2>2, <2>4, <2>5, OtherWrites
<1> QED BY <1>1, <1>2, <1>3

-----------------------------------------------------------------------------
(* Serving, crashes and the surroundings *)

LEMMA OtherQuiet ==
  ASSUME PInv, NEW p \in Procs, Other(job[p]), job' = job, fs' = fs, NEW t, NEW m, NEW st,
         Changed(todo, todo', p, t), Changed(mem, mem', p, m), Changed(status, status', p, st),
         Local(p, job[p], t, m, st)
  PROVE  PInv'
<1>1. ~Bundles(job[p]) /\ Publishers # {p}
  BY DEF Other, Publishers, Publishes
<1>2. Keeps(p, fs, fs')
  BY KeepsNothing DEF PInv
<1>3. Leaves(p, job[p], t, m, st, status[p], fs, fs')
  BY <1>1, <1>2 DEF Leaves, Keeps
<1> QED BY <1>1, <1>3, ProcessStep

LEMMA ServeKeeps ==
  ASSUME PInv, NEW p \in Procs, Serve(p)
  PROVE  PInv'
<1> DEFINE n == [Fresh EXCEPT !.ids[1] = mem[p].ids[1], !.plan = mem[p].plan]
           goes == /\ todo' = [todo EXCEPT ![p] = <<>>]
                   /\ mem' = [mem EXCEPT ![p] = n]
                   /\ status' = [status EXCEPT ![p] = "serving"]
                   /\ fs' = fs
<1>1. todo[p] # <<>> /\ Instr(p).op = "serve" /\ job' = job /\ (goes \/ Fails(p))
  BY DEF Serve
<1>2. CASE Fails(p)
  BY <1>1, <1>2, FailsKeep
<1>3. CASE goes
  <2>1. /\ Other(job[p]) /\ job[p].role = "worker" /\ Remembers(p, mem[p])
    BY <1>1, NextInstr, OtherJob DEF OtherOps, OtherMay
  <2>2. p \in DOMAIN todo /\ p \in DOMAIN mem /\ p \in DOMAIN status
    BY DEF PInv
  <2>3. Remembers(p, n)
    <3>1. IsMemory(Fresh)
      BY FreshMemory DEF Remembers
    <3>2. /\ IsMemory(n) /\ n.manifest = Fresh.manifest /\ n.plan = mem[p].plan
          /\ n.owns = Fresh.owns /\ n.model = Fresh.model /\ n.copied = Fresh.copied
      BY <3>1 DEF IsMemory, MemoryFields
    <3> HIDE DEF n
    <3> QED BY <2>1, <3>2 DEF Remembers, Fresh, NoModel, Content, None
  <2> HIDE DEF n
  <2>4. Changed(todo, todo', p, <<>>) /\ Changed(mem, mem', p, n)
        /\ Changed(status, status', p, "serving")
    BY <1>3, <2>2, ChangedIs
  <2>5. Local(p, job[p], <<>>, n, "serving")
    BY <2>1, <2>3, FreshMemory DEF Local
  <2> QED BY <1>1, <1>3, <2>1, <2>4, <2>5, OtherQuiet
<1> QED BY <1>1, <1>2, <1>3

LEMMA AcceptKeeps ==
  ASSUME PInv, NEW p \in Procs, Accept(p)
  PROVE  PInv'
<1> DEFINE rest == serve_connection(job[p].mode, job[p].index)
<1>1. /\ status[p] = "serving" /\ job' = job /\ fs' = fs /\ mem' = mem /\ status' = status
      /\ todo' = [todo EXCEPT ![p] = rest] \/ todo' = todo
  BY DEF Accept
<1>2. /\ job[p].role = "worker" /\ Command(job[p]) /\ Remembers(p, mem[p])
      /\ Listed(p, job[p], todo[p]) /\ Knows(job[p], todo[p], mem[p])
      /\ p \in DOMAIN todo /\ p \in DOMAIN mem /\ p \in DOMAIN status
  BY <1>1, JobIs DEF PInv
<1>3. Other(job[p]) /\ job[p].index \in Nat /\ job[p].mode \in {"prepared", "shard", "source"}
  BY <1>2 DEF Other, Publishes, Bundles, Command
<1>4. FreeList(p, job[p], rest)
  BY <1>2, <1>3, ServerLists
<1> HIDE DEF rest
<1>5. Listed(p, job[p], rest) /\ Knows(job[p], rest, mem[p])
  BY <1>3, <1>4, FreeStarts, StartsKnows
<1>6. Changed(mem, mem', p, mem[p]) /\ Changed(status, status', p, status[p])
  BY <1>1, <1>2, ChangedIs
<1>7. CASE todo' = [todo EXCEPT ![p] = rest]
  <2>1. Changed(todo, todo', p, rest)
    BY <1>2, <1>7, ChangedIs
  <2>2. Local(p, job[p], rest, mem[p], status[p])
    BY <1>2, <1>5 DEF Local
  <2> QED BY <1>1, <1>3, <1>6, <2>1, <2>2, OtherQuiet
<1>8. CASE todo' = todo
  <2>1. Changed(todo, todo', p, todo[p])
    BY <1>2, <1>8, ChangedIs
  <2>2. Local(p, job[p], todo[p], mem[p], status[p])
    BY <1>2 DEF Local
  <2> QED BY <1>1, <1>3, <1>6, <2>1, <2>2, OtherQuiet
<1> QED BY <1>1, <1>7, <1>8

LEMMA ReadyKeeps ==
  ASSUME PInv, NEW p \in Procs, Ready(p)
  PROVE  PInv'
<1>1. /\ todo[p] # <<>> /\ Instr(p).op = "ready" /\ job' = job /\ fs' = fs /\ mem' = mem
      /\ status' = status /\ todo' = [todo EXCEPT ![p] = <<>>]
  BY DEF Ready
<1>2. /\ Other(job[p]) /\ Remembers(p, mem[p])
      /\ p \in DOMAIN todo /\ p \in DOMAIN mem /\ p \in DOMAIN status
      /\ status[p] = "serving" => job[p].role = "worker"
  BY <1>1, NextInstr, OtherJob DEF OtherOps, PInv
<1>3. Changed(mem, mem', p, mem[p]) /\ Changed(status, status', p, status[p])
      /\ Changed(todo, todo', p, <<>>)
  BY <1>1, <1>2, ChangedIs
<1>4. Local(p, job[p], <<>>, mem[p], status[p])
  BY <1>2, FreshMemory DEF Local
<1> QED BY <1>1, <1>2, <1>3, <1>4, OtherQuiet

LEMMA ConnectKeeps ==
  ASSUME PInv, NEW p \in Procs, Connect(p)
  PROVE  PInv'
<1> DEFINE goes == /\ todo' = [todo EXCEPT ![p] = Tail(@)]
                   /\ mem' = mem /\ status' = status /\ fs' = fs
<1>1. todo[p] # <<>> /\ Instr(p).op = "connect" /\ job' = job /\ (goes \/ Fails(p))
  BY DEF Connect
<1>2. CASE Fails(p)
  BY <1>1, <1>2, FailsKeep
<1>3. CASE goes
  <2>1. /\ Other(job[p]) /\ Forgets(Instr(p)) /\ Instr(p) = todo[p][1]
        /\ Listed(p, job[p], todo[p]) /\ Remembers(p, mem[p])
        /\ p \in DOMAIN todo /\ p \in DOMAIN mem /\ p \in DOMAIN status
        /\ status[p] = "serving" => job[p].role = "worker"
    BY <1>1, NextInstr, OtherJob DEF OtherOps, Forgets, PInv
  <2>2. Learns(todo[p][1], mem[p])
    BY <2>1, ForgetsLearns
  <2>3. Listed(p, job[p], Tail(todo[p])) /\ Knows(job[p], Tail(todo[p]), mem[p])
    BY <1>1, <2>1, <2>2, LearnsKnows
  <2>4. Changed(mem, mem', p, mem[p]) /\ Changed(status, status', p, status[p])
        /\ Changed(todo, todo', p, Tail(todo[p]))
    BY <1>3, <2>1, ChangedIs
  <2>5. Local(p, job[p], Tail(todo[p]), mem[p], status[p])
    BY <2>1, <2>3 DEF Local
  <2> QED BY <1>1, <1>3, <2>1, <2>4, <2>5, OtherQuiet
<1> QED BY <1>1, <1>2, <1>3

LEMMA CrashKeeps ==
  ASSUME PInv, NEW p \in Procs, Crash(p)
  PROVE  PInv'
<1>1. /\ status[p] = "serving" /\ job' = job /\ fs' = fs /\ mem' = [mem EXCEPT ![p] = Fresh]
      /\ status' = [status EXCEPT ![p] = "dead"] /\ todo' = [todo EXCEPT ![p] = <<>>]
  BY DEF Crash
<1>2. Other(job[p]) /\ p \in DOMAIN todo /\ p \in DOMAIN mem /\ p \in DOMAIN status
  BY <1>1 DEF PInv, Other, Publishes, Bundles
<1>3. Changed(mem, mem', p, Fresh) /\ Changed(status, status', p, "dead")
      /\ Changed(todo, todo', p, <<>>)
  BY <1>1, <1>2, ChangedIs
<1>4. Local(p, job[p], <<>>, Fresh, "dead")
  BY FreshMemory DEF Local
<1> QED BY <1>1, <1>2, <1>3, <1>4, OtherQuiet

LEMMA IoErrorKeeps ==
  ASSUME PInv, NEW p \in Procs, IoError(p)
  PROVE  PInv'
  BY FailsKeep DEF IoError

\* A step that only changes files.
LEMMA FilesKeep ==
  ASSUME PInv, job' = job, todo' = todo, mem' = mem, status' = status, Sound(fs'),
         SameDestinations(fs, fs'), \A q \in Procs : SameTemporary(q, fs, fs'),
         \A p \in Procs : Publishers = {p} => ModelWhole(fs') /\ Writing(todo[p], mem[p], fs')
  PROVE  PInv'
<1>1. Procs' = Procs /\ Publishers' = Publishers
  BY DEF Procs, Publishers
<1>2. \A q \in Procs : Bundles(job[q]) => Bundling(q, job[q], todo[q], fs', status[q])
  BY BundlingKept DEF PInv
<1>3. (\E s \in Scenarios : job = s.job)'
  BY DEF PInv
<1> QED BY <1>1, <1>2, <1>3 DEF PInv

LEMMA SameModelKeeps ==
  ASSUME PInv, job' = job, todo' = todo, mem' = mem, status' = status, Sound(fs'),
         SameDestinations(fs, fs'), \A q \in Procs : SameTemporary(q, fs, fs'),
         SameModel(fs, fs')
  PROVE  PInv'
<1>1. \A p \in Procs : Publishers = {p} => ModelWhole(fs) /\ Writing(todo[p], mem[p], fs)
  BY DEF PInv
<1>2. \A p \in Procs : Publishers = {p} => ModelWhole(fs') /\ Writing(todo[p], mem[p], fs')
  BY <1>1, KernelsKept
<1> QED BY <1>2, FilesKeep

LEMMA SourceApart ==
  /\ SubSeq(Source, 1, 2) # AotDir
  /\ \A file, i : Source # Path(ModelDir, file, i) /\ Source # Path(AotDir, file, i)
  /\ \A q, file, i : Source # Path(Temporary(q), file, i)
<1>1. SubSeq(Source, 1, 2) = <<"source", 0>>
  BY PathSub DEF Source
<1>2. <<"source", 0>> # AotDir /\ <<"source", 0>> # ModelDir /\ \A q : <<"source", 0>> # Temporary(q)
  BY DEF AotDir, ModelDir, Temporary
<1>3. \A file, i : SubSeq(Path(ModelDir, file, i), 1, 2) = ModelDir
                   /\ SubSeq(Path(AotDir, file, i), 1, 2) = AotDir
  BY PathIn DEF ModelDir, AotDir
<1>4. \A q, file, i : SubSeq(Path(Temporary(q), file, i), 1, 2) = Temporary(q)
  BY PathIn DEF Temporary
<1> QED BY <1>1, <1>2, <1>3, <1>4

LEMMA ReplaceSourceKeeps ==
  ASSUME PInv, ReplaceSource
  PROVE  PInv'
<1>1. PICK k \in 1 .. Len(Versions) - 1 : fs' = With(Source, Gguf(Versions[k + 1]))
  BY DEF ReplaceSource
<1> DEFINE c == Gguf(Versions[k + 1])
<1>2. c \in Sources /\ c.kind # "manifest"
  <2>1. Versions \in Seq(Nat) /\ k + 1 \in 1 .. Len(Versions)
    BY DeploymentAssumption
  <2>2. Versions[k + 1] \in Range(Versions)
    BY <2>1 DEF Range
  <2> QED BY <2>2 DEF Sources, Gguf
<1> HIDE DEF c
<1>3. /\ DOMAIN fs' = DOMAIN fs \cup {Source} /\ fs'[Source] = c
      /\ \A q \in DOMAIN fs : q # Source => fs'[q] = fs[q]
  BY <1>1 DEF With, c
<1>4. Sound(fs)
  BY DEF PInv
<1>5. Sound(fs')
  <2>1. \A q \in DOMAIN fs' : fs'[q].kind = "manifest" => fs'[q] \in Manifests
    BY <1>2, <1>3, <1>4 DEF Sound
  <2>2. \A q \in DOMAIN fs' : SubSeq(q, 1, 2) = AotDir => fs'[q].kind = "resource"
    BY <1>3, <1>4, SourceApart DEF Sound
  <2> QED BY <1>2, <1>3, <2>1, <2>2 DEF Sound
<1>6. SameModel(fs, fs') /\ SameDestinations(fs, fs')
  BY <1>3, SourceApart DEF SameModel, SameDestinations
<1>7. \A q \in Procs : SameTemporary(q, fs, fs')
  BY <1>3, SourceApart DEF SameTemporary
<1>8. job' = job /\ todo' = todo /\ mem' = mem /\ status' = status
  BY DEF ReplaceSource
<1> QED BY <1>5, <1>6, <1>7, <1>8, SameModelKeeps

LEMMA TamperKeeps ==
  ASSUME PInv, Tamper
  PROVE  PInv'
<1>1. PICK path : /\ path \in FilesIn(Prepared) \cup (UNION {FilesIn(Remote(i)) : i \in 1 .. 2})
                  /\ fs' = With(path, Torn)
  BY DEF Tamper
<1>2. SubSeq(path, 1, 2) = Prepared \/ \E i : SubSeq(path, 1, 2) = Remote(i)
  <2>1. path \in FilesIn(Prepared) \/ \E i \in 1 .. 2 : path \in FilesIn(Remote(i))
    BY <1>1, Zenon
  <2>2. \A dir : path \in FilesIn(dir) => SubSeq(path, 1, 2) = dir
    BY DEF FilesIn
  <2> QED BY <2>1, <2>2
<1>3. /\ ModelDir # Prepared /\ AotDir # Prepared /\ SubSeq(Source, 1, 2) # Prepared
      /\ \A i : ModelDir # Remote(i) /\ AotDir # Remote(i) /\ SubSeq(Source, 1, 2) # Remote(i)
      /\ \A q : Temporary(q) # Prepared /\ \A i : Temporary(q) # Remote(i)
  <2>1. SubSeq(Source, 1, 2) = <<"source", 0>>
    BY PathSub DEF Source
  <2>2. SubSeq(Source, 1, 2) # Prepared /\ \A i : SubSeq(Source, 1, 2) # Remote(i)
    BY <2>1 DEF Prepared, Remote
  <2> QED BY <2>2 DEF ModelDir, AotDir, Temporary, Prepared, Remote
<1>4. \A file, i : SubSeq(Path(ModelDir, file, i), 1, 2) = ModelDir
                   /\ SubSeq(Path(AotDir, file, i), 1, 2) = AotDir
  BY PathIn DEF ModelDir, AotDir
<1>5. \A q, file, i : SubSeq(Path(Temporary(q), file, i), 1, 2) = Temporary(q)
  BY PathIn DEF Temporary
<1>6. /\ DOMAIN fs' = DOMAIN fs \cup {path} /\ fs'[path] = Torn
      /\ \A q \in DOMAIN fs : q # path => fs'[q] = fs[q]
  BY <1>1 DEF With
<1>7. Sound(fs)
  BY DEF PInv
<1>8. path # Source /\ SubSeq(path, 1, 2) # AotDir
      /\ (\A file, i : path # Path(ModelDir, file, i) /\ path # Path(AotDir, file, i))
      /\ (\A q, file, i : path # Path(Temporary(q), file, i))
  BY <1>2, <1>3, <1>4, <1>5
<1>9. Sound(fs')
  <2>1. \A q \in DOMAIN fs' : fs'[q].kind = "manifest" => fs'[q] \in Manifests
    BY <1>6, <1>7 DEF Sound, Torn
  <2>2. \A q \in DOMAIN fs' : SubSeq(q, 1, 2) = AotDir => fs'[q].kind = "resource"
    BY <1>6, <1>7, <1>8 DEF Sound
  <2> QED BY <1>6, <1>7, <1>8, <2>1, <2>2 DEF Sound
<1>10. SameModel(fs, fs') /\ SameDestinations(fs, fs')
  BY <1>6, <1>8 DEF SameModel, SameDestinations
<1>11. \A q \in Procs : SameTemporary(q, fs, fs')
  BY <1>6, <1>8 DEF SameTemporary
<1>12. job' = job /\ todo' = todo /\ mem' = mem /\ status' = status
  BY DEF Tamper
<1> QED BY <1>9, <1>10, <1>11, <1>12, SameModelKeeps

\* Clearing the artifact directory leaves no manifest, and no compiler is writing.
LEMMA ClearModelKeeps ==
  ASSUME PInv, ClearModel
  PROVE  PInv'
<1>1. /\ fs' = Without(FilesIn(ModelDir))
      /\ job' = job /\ todo' = todo /\ mem' = mem /\ status' = status
      /\ \A p \in Publishers : todo[p] # <<>> => Instr(p).op \notin {"create", "fill"}
  BY DEF ClearModel
<1>2. /\ DOMAIN fs' = DOMAIN fs \ FilesIn(ModelDir)
      /\ \A q \in DOMAIN fs' : fs'[q] = fs[q]
  BY <1>1 DEF Without
<1>3. \A file, i : SubSeq(Path(ModelDir, file, i), 1, 2) = ModelDir
                   /\ SubSeq(Path(AotDir, file, i), 1, 2) = AotDir
  BY PathIn DEF ModelDir, AotDir
<1>4. \A q, file, i : SubSeq(Path(Temporary(q), file, i), 1, 2) = Temporary(q)
  BY PathIn DEF Temporary
<1>5. AotDir # ModelDir /\ \A q : Temporary(q) # ModelDir
  BY DEF AotDir, ModelDir, Temporary
<1>6. Sound(fs')
  BY <1>2 DEF PInv, Sound
<1>7. SameDestinations(fs, fs') /\ \A q \in Procs : SameTemporary(q, fs, fs')
  BY <1>2, <1>3, <1>4, <1>5 DEF SameDestinations, SameTemporary, FilesIn
<1>8. \A file, i : Path(ModelDir, file, i) \notin DOMAIN fs'
  BY <1>2, <1>3 DEF FilesIn
<1>9. ModelWhole(fs')
  BY <1>8 DEF ModelWhole, ManifestAt
<1>10. ASSUME NEW p \in Procs, Publishers = {p}
       PROVE  Writing(todo[p], mem[p], fs')
  <2>1. todo[p] # <<>> => Instr(p).op \notin {"create", "fill"} /\ Instr(p) = todo[p][1]
    BY <1>1, <1>10, NextInstr
  <2> QED BY <2>1 DEF Writing
<1> QED BY <1>1, <1>6, <1>7, <1>9, <1>10, FilesKeep

-----------------------------------------------------------------------------
(* The compilers *)

LEMMA PublisherInstr ==
  ASSUME NEW p, NEW j, NEW o \in Instrs(p, j),
         o.op \in {"check empty", "make all", "compile"} \/ (~Other(j) /\ o.op \in {"create", "fill"})
  PROVE  Publishes(j) /\ PublisherMay(o)
  BY DEF Instrs, OtherMay, BundlerMay, Other

LEMMA PublisherGoes ==
  ASSUME PInv, NEW p \in Procs, todo[p] # <<>>, Publishes(job[p]), job' = job,
         NEW n, NEW f, NEW d, Advance(p, n, f, d, Tail(todo[p])),
         Knows(job[p], Tail(todo[p]), n), Updates(p, mem[p], n),
         Sound(f), SameResources(p, fs, f),
         Publishers = {p} => ModelWhole(f) /\ Writing(Tail(todo[p]), n, f)
  PROVE  PInv'
<1>1. Listed(p, job[p], Tail(todo[p])) /\ Remembers(p, n)
  BY NextInstr, RemembersUpdate
<1>2. ~Bundles(job[p])
  BY DEF Publishes, Bundles
<1> QED BY <1>1, <1>2, AdvanceKeeps

\* What may come next, and what a compiler has to know then.
LEMMA PublisherNext ==
  ASSUME NEW p, NEW j, Publishes(j), NEW t, Listed(p, j, t), t # <<>>, Tail(t) # <<>>
  PROVE  /\ Tail(t)[1] = t[2] /\ Len(t) >= 2
         /\ Follows(t[1], Tail(t)[1]) /\ PublisherMay(t[1]) /\ PublisherMay(Tail(t)[1])
<1> DEFINE a == t[1]
           b == Tail(t)[1]
<1>1. <<a, b>> \in Order(p, j) /\ Len(t) >= 2 /\ b = t[2]
  BY ChainTail DEF Listed
<1> HIDE DEF a, b
<1>2. Follows(a, b) /\ a \in Instrs(p, j) /\ b \in Instrs(p, j)
  BY <1>1 DEF Order
<1>3. PublisherMay(a) /\ PublisherMay(b)
  BY <1>2 DEF Instrs
<1> QED BY <1>1, <1>2, <1>3 DEF a, b

LEMMA PublisherKnows ==
  ASSUME NEW p, NEW j, Publishes(j), NEW t, Listed(p, j, t), t # <<>>, NEW n,
         Tail(t) # <<>> => t[2].op = "compile" \/ n.manifest \in Manifests
  PROVE  Knows(j, Tail(t), n)
<1> SUFFICES ASSUME Tail(t) # <<>> PROVE Knows(j, Tail(t), n)
  BY DEF Knows
<1>1. Tail(t)[1] = t[2] /\ PublisherMay(Tail(t)[1])
  BY PublisherNext
<1> DEFINE u == Tail(t)
<1> HIDE DEF u
<1>2. u[1].op \in {"check empty", "make all", "compile", "create", "fill"}
  BY <1>1 DEF PublisherMay, u
<1>3. u[1].op # "compile" => n.manifest \in Manifests
  BY <1>1 DEF u
<1>4. Knows(j, u, n)
  BY <1>2, <1>3 DEF Knows, AfterLoad
<1> QED BY <1>4 DEF u

LEMMA CheckEmptyKeeps ==
  ASSUME PInv, NEW p \in Procs, CheckEmpty(p)
  PROVE  PInv'
<1>1. /\ todo[p] # <<>> /\ Instr(p).op = "check empty" /\ job' = job
      /\ \/ Advance(p, mem[p], fs, dirs, Tail(todo[p])) /\ FilesIn(Instr(p).dir) = {}
         \/ Fails(p)
  BY DEF CheckEmpty, Writes, Step
<1>2. CASE Fails(p)
  BY <1>1, <1>2, FailsKeep
<1>3. CASE Advance(p, mem[p], fs, dirs, Tail(todo[p])) /\ FilesIn(Instr(p).dir) = {}
  <2> DEFINE t == todo[p]
  <2>1. /\ Publishes(job[p]) /\ Instr(p).dir = ModelDir /\ Instr(p) = t[1]
        /\ Listed(p, job[p], t) /\ Knows(job[p], t, mem[p]) /\ Sound(fs)
    BY <1>1, NextInstr, PublisherInstr DEF PublisherMay
  <2>2. t # <<>> /\ t[1].op = "check empty"
    BY <1>1, <2>1
  <2> HIDE DEF t
  <2>3. Tail(t) # <<>> => t[2].op = "compile" \/ mem[p].manifest \in Manifests
    BY <2>1, <2>2, PublisherNext DEF Knows
  <2>4. Knows(job[p], Tail(t), mem[p])
    BY <2>1, <2>2, <2>3, PublisherKnows
  <2>5. Writing(Tail(t), mem[p], fs)
    <3> SUFFICES ASSUME Tail(t) # <<>>, Tail(t)[1].op \in {"create", "fill"}
                 PROVE  /\ \A name \in ManifestNames : ~ManifestAt(fs, name)
                        /\ \A i \in 1 .. Kernels : ~(Tail(t)[1].file # "kernel" \/ i < Tail(t)[1].i)
      BY DEF Writing
    <3>1. Follows(t[1], Tail(t)[1]) /\ Tail(t)[1].dir = ModelDir
      BY <2>1, <2>2, PublisherNext DEF PublisherMay
    <3>2. Tail(t)[1].file = "kernel" /\ Tail(t)[1].i = 1
      BY <2>2, <3>1 DEF Follows
    <3>3. \A i \in 1 .. Kernels : ~(i < 1)
      BY KernelsAssumption
    <3>4. \A name : Path(ModelDir, name, 0) \notin DOMAIN fs
      <4>1. \A name : SubSeq(Path(ModelDir, name, 0), 1, 2) = ModelDir
        BY PathIn DEF ModelDir
      <4> QED BY <1>3, <2>1, <4>1 DEF FilesIn
    <3> QED BY <3>2, <3>3, <3>4 DEF ManifestAt
  <2>6. Publishers = {p} => ModelWhole(fs)
    BY DEF PInv
  <2>7. SameResources(p, fs, fs) /\ Updates(p, mem[p], mem[p])
    BY <1>1, <2>1, KeepsNothing, SameUpdates DEF Keeps
  <2> QED BY <1>1, <1>3, <2>1, <2>4, <2>5, <2>6, <2>7, PublisherGoes DEF t
<1> QED BY <1>1, <1>2, <1>3

\* Before the directory has been found empty nothing is written.
LEMMA NotWriting ==
  ASSUME NEW p, NEW j, Publishes(j), NEW t, Listed(p, j, t), t # <<>>,
         t[1].op \in {"make all", "compile"}, NEW m, NEW f
  PROVE  Writing(Tail(t), m, f)
<1> SUFFICES ASSUME Tail(t) # <<>>, Tail(t)[1].op \in {"create", "fill"} PROVE FALSE
  BY DEF Writing
<1>1. Follows(t[1], Tail(t)[1]) /\ Tail(t)[1].dir = ModelDir
  BY PublisherNext DEF PublisherMay
<1> QED BY <1>1 DEF Follows

LEMMA MakeAllKeeps ==
  ASSUME PInv, NEW p \in Procs, MakeAll(p)
  PROVE  PInv'
<1> DEFINE d == dirs \cup {Instr(p).dir}
           t == todo[p]
<1>1. /\ todo[p] # <<>> /\ Instr(p).op = "make all" /\ job' = job
      /\ Advance(p, mem[p], fs, d, Tail(todo[p]))
  BY DEF MakeAll, Writes, Step
<1>2. /\ Publishes(job[p]) /\ Instr(p) = t[1]
      /\ Listed(p, job[p], t) /\ Knows(job[p], t, mem[p]) /\ Sound(fs)
  BY <1>1, NextInstr, PublisherInstr
<1>3. t # <<>> /\ t[1].op = "make all"
  BY <1>1, <1>2
<1> HIDE DEF t, d
<1>4. mem[p].manifest \in Manifests
  BY <1>2, <1>3 DEF Knows
<1>5. Knows(job[p], Tail(t), mem[p]) /\ Writing(Tail(t), mem[p], fs)
  BY <1>2, <1>3, <1>4, PublisherKnows, NotWriting
<1>6. Publishers = {p} => ModelWhole(fs)
  BY DEF PInv
<1>7. SameResources(p, fs, fs) /\ Updates(p, mem[p], mem[p])
  BY <1>1, <1>2, KeepsNothing, SameUpdates DEF Keeps
<1> QED BY <1>1, <1>2, <1>5, <1>6, <1>7, PublisherGoes DEF t

LEMMA CompileSourceKeeps ==
  ASSUME PInv, NEW p \in Procs, CompileSource(p)
  PROVE  PInv'
<1> DEFINE c == Manifest(Instr(p).file, fs[Source])
           n == [mem[p] EXCEPT !.manifest = c]
<1>1. /\ todo[p] # <<>> /\ Instr(p).op = "compile" /\ job' = job
      /\ \/ Advance(p, n, fs, dirs, Tail(todo[p])) /\ Exists(Source)
         \/ Fails(p)
  BY DEF CompileSource, Reads, Step
<1>2. CASE Fails(p)
  BY <1>1, <1>2, FailsKeep
<1>3. CASE Advance(p, n, fs, dirs, Tail(todo[p])) /\ Exists(Source)
  <2> DEFINE t == todo[p]
  <2>1. /\ Publishes(job[p]) /\ Instr(p) = t[1] /\ Instr(p).file \in Profiles
        /\ Listed(p, job[p], t) /\ Sound(fs)
    BY <1>1, NextInstr, PublisherInstr DEF PublisherMay
  <2>2. t # <<>> /\ t[1].op = "compile"
    BY <1>1, <2>1
  <2>3. c \in Manifests
    BY <1>3, <2>1 DEF Sound, Exists, Manifests
  <2> HIDE DEF c
  <2>4. Updates(p, mem[p], n) /\ n.manifest = c
    BY <1>1, <2>3, RecordIs DEF IsMemory, MemoryFields, Updates
  <2> HIDE DEF n, t
  <2>5. n.manifest \in Manifests
    BY <2>3, <2>4
  <2>6. Knows(job[p], Tail(t), n) /\ Writing(Tail(t), n, fs)
    BY <2>1, <2>2, <2>5, PublisherKnows, NotWriting
  <2>7. Publishers = {p} => ModelWhole(fs)
    BY DEF PInv
  <2>8. SameResources(p, fs, fs)
    BY <2>1, KeepsNothing DEF Keeps
  <2> QED BY <1>1, <1>3, <2>1, <2>4, <2>6, <2>7, <2>8, PublisherGoes DEF t
<1> QED BY <1>1, <1>2, <1>3

\* A file written in the artifact directory.
LEMMA ModelWrite ==
  ASSUME NEW p, NEW f, Sound(f), NEW file, NEW i, NEW content, Content(content), NEW g,
         g = Written(f, Path(ModelDir, file, i), content)
  PROVE  /\ Sound(g) /\ SameResources(p, f, g)
         /\ Path(ModelDir, file, i) \in DOMAIN g /\ g[Path(ModelDir, file, i)] = content
         /\ \A other, k : other # file \/ k # i =>
              /\ Path(ModelDir, other, k) \in DOMAIN f <=> Path(ModelDir, other, k) \in DOMAIN g
              /\ Path(ModelDir, other, k) \in DOMAIN f
                   => g[Path(ModelDir, other, k)] = f[Path(ModelDir, other, k)]
<1> DEFINE path == Path(ModelDir, file, i)
<1>1. SubSeq(path, 1, 2) = ModelDir /\ path # Source
  BY PathIn, SourceApart DEF ModelDir
<1>2. AotDir # ModelDir /\ \A q : Temporary(q) # ModelDir
  BY DEF AotDir, ModelDir, Temporary
<1>3. \A other, k : SubSeq(Path(AotDir, other, k), 1, 2) = AotDir
  BY PathIn DEF AotDir
<1>4. \A q, other, k : SubSeq(Path(Temporary(q), other, k), 1, 2) = Temporary(q)
  BY PathIn DEF Temporary
<1>5. \A other, k : other # file \/ k # i => Path(ModelDir, other, k) # path
  BY PathSame DEF ModelDir
<1> HIDE DEF path
<1>6. /\ DOMAIN g = DOMAIN f \cup {path} /\ g[path] = content
      /\ \A q \in DOMAIN f : q # path => g[q] = f[q]
  BY DEF Written, path
<1>7. Sound(g)
  <2>1. \A q \in DOMAIN g : g[q].kind = "manifest" => g[q] \in Manifests
    BY <1>6 DEF Sound, Content
  <2>2. \A q \in DOMAIN g : SubSeq(q, 1, 2) = AotDir => g[q].kind = "resource"
    BY <1>1, <1>2, <1>6 DEF Sound
  <2> QED BY <1>1, <1>6, <2>1, <2>2 DEF Sound
<1>8. SameResources(p, f, g)
  BY <1>1, <1>2, <1>3, <1>4, <1>6 DEF SameResources, SameTemporary, SameDestinations
<1>9. \A other, k : other # file \/ k # i =>
        /\ Path(ModelDir, other, k) \in DOMAIN f <=> Path(ModelDir, other, k) \in DOMAIN g
        /\ Path(ModelDir, other, k) \in DOMAIN f
             => g[Path(ModelDir, other, k)] = f[Path(ModelDir, other, k)]
  BY <1>5, <1>6
<1> QED BY <1>6, <1>7, <1>8, <1>9 DEF path

\* The kernels and manifests that are not the file being written.
LEMMA ModelWriteKeeps ==
  ASSUME NEW p, NEW f, Sound(f), NEW file, NEW i, NEW content, Content(content), NEW g,
         g = Written(f, Path(ModelDir, file, i), content)
  PROVE  /\ \A k, kernels : file # "kernel" \/ k # i =>
              (KernelAt(f, k, kernels) => KernelAt(g, k, kernels))
         /\ \A name : name # file => (ManifestAt(g, name) => ManifestAt(f, name))
         /\ ManifestAt(g, file) /\ i = 0 => content.kind = "manifest"
<1>1. /\ Path(ModelDir, file, i) \in DOMAIN g /\ g[Path(ModelDir, file, i)] = content
      /\ \A other, k : other # file \/ k # i =>
           /\ Path(ModelDir, other, k) \in DOMAIN f <=> Path(ModelDir, other, k) \in DOMAIN g
           /\ Path(ModelDir, other, k) \in DOMAIN f
                => g[Path(ModelDir, other, k)] = f[Path(ModelDir, other, k)]
  BY ModelWrite
<1>2. \A k, kernels : file # "kernel" \/ k # i =>
        (KernelAt(f, k, kernels) => KernelAt(g, k, kernels))
  BY <1>1 DEF KernelAt
<1>3. \A name : name # file => (ManifestAt(g, name) => ManifestAt(f, name))
  BY <1>1 DEF ManifestAt
<1>4. ManifestAt(g, file) /\ i = 0 => content.kind = "manifest"
  BY <1>1 DEF ManifestAt
<1> QED BY <1>2, <1>3, <1>4

LEMMA CreatePublisher ==
  ASSUME PInv, NEW p \in Procs, Create(p), ~Other(job[p])
  PROVE  PInv'
<1> DEFINE o == Instr(p)
           t == todo[p]
           f == With(Path(ModelDir, o.file, o.i), Torn)
<1>1. /\ todo[p] # <<>> /\ Instr(p).op = "create" /\ job' = job
      /\ Advance(p, mem[p], With(Here(p), Torn), dirs, Tail(todo[p])) \/ Fails(p)
  BY DEF Create, Writes, Step
<1>2. CASE Fails(p)
  BY <1>1, <1>2, FailsKeep
<1>3. CASE Advance(p, mem[p], With(Here(p), Torn), dirs, Tail(todo[p]))
  <2>1. /\ Publishes(job[p]) /\ PublisherMay(o) /\ o = t[1]
        /\ Listed(p, job[p], t) /\ Knows(job[p], t, mem[p]) /\ Sound(fs)
    BY <1>1, NextInstr, PublisherInstr
  <2>2. t # <<>> /\ t[1].op = "create" /\ o.op = "create"
    BY <1>1, <2>1
  <2>3. o.dir = ModelDir /\ Advance(p, mem[p], f, dirs, Tail(t))
    BY <1>3, <2>1, <2>2 DEF PublisherMay, Here
  <2>4. \/ o.file = "kernel" /\ o.i \in 1 .. Kernels
        \/ o.file \in ManifestNames /\ o.i = 0
    BY <2>1, <2>2 DEF PublisherMay
  <2>5. f = Written(fs, Path(ModelDir, o.file, o.i), Torn) /\ Content(Torn)
        /\ Torn.kind # "manifest"
    BY DEF With, Written, Content, Torn
  <2>6. mem[p].manifest \in Manifests
    BY <2>1, <2>2 DEF Knows
  <2> HIDE DEF o, f, t
  <2>7. Sound(f) /\ SameResources(p, fs, f)
    BY <2>1, <2>5, ModelWrite
  <2>8. Knows(job[p], Tail(t), mem[p])
    BY <2>1, <2>2, <2>6, PublisherKnows
  <2>9. ASSUME Publishers = {p} PROVE ModelWhole(f) /\ Writing(Tail(t), mem[p], f)
    <3>1. Writing(t, mem[p], fs)
      BY <2>9 DEF PInv, t
    <3>2. /\ \A name \in ManifestNames : ~ManifestAt(fs, name)
          /\ \A k \in 1 .. Kernels : o.file # "kernel" \/ k < o.i =>
               KernelAt(fs, k, mem[p].manifest.kernels)
      BY <2>1, <2>2, <3>1 DEF Writing
    <3>3. \A name \in ManifestNames : ~ManifestAt(f, name)
      BY <2>1, <2>4, <2>5, <3>2, ModelWriteKeeps DEF ManifestNames
    <3>4. ASSUME NEW k \in 1 .. Kernels, o.file # "kernel" \/ k < o.i
          PROVE  KernelAt(f, k, mem[p].manifest.kernels)
      <4>1. o.file # "kernel" \/ k # o.i
        BY <2>4, <3>4, KernelsAssumption
      <4>2. KernelAt(fs, k, mem[p].manifest.kernels)
        BY <3>2, <3>4
      <4> QED BY <2>1, <2>5, <4>1, <4>2, ModelWriteKeeps
    <3>5. ModelWhole(f)
      BY <3>3 DEF ModelWhole
    <3>6. Writing(Tail(t), mem[p], f)
      <4> SUFFICES ASSUME Tail(t) # <<>>, Tail(t)[1].op \in {"create", "fill"}
                   PROVE  Tail(t)[1].file = o.file /\ Tail(t)[1].i = o.i
        BY <3>3, <3>4 DEF Writing
      <4>1. Follows(t[1], Tail(t)[1]) /\ Tail(t)[1].dir = ModelDir
        BY <2>1, <2>2, PublisherNext DEF PublisherMay
      <4> QED BY <2>1, <2>2, <4>1 DEF Follows
    <3> QED BY <3>5, <3>6
  <2>10. Updates(p, mem[p], mem[p])
    BY <1>1, SameUpdates
  <2> QED BY <1>1, <2>1, <2>3, <2>7, <2>8, <2>9, <2>10, PublisherGoes DEF t
<1> QED BY <1>1, <1>2, <1>3

LEMMA FillPublisher ==
  ASSUME PInv, NEW p \in Procs, Fill(p), ~Other(job[p])
  PROVE  PInv'
<1> DEFINE o == Instr(p)
           t == todo[p]
           content == Produced(p, o.file, o.i)
           f == With(Path(ModelDir, o.file, o.i), content)
<1>1. /\ todo[p] # <<>> /\ Instr(p).op = "fill" /\ job' = job
      /\ Instr(p).file # "weights.json" =>
           Advance(p, mem[p], With(Here(p), content), dirs, Tail(todo[p]))
  BY DEF Fill, Step
<1>2. /\ Publishes(job[p]) /\ PublisherMay(o) /\ o = t[1]
      /\ Listed(p, job[p], t) /\ Knows(job[p], t, mem[p]) /\ Sound(fs)
  BY <1>1, NextInstr, PublisherInstr
<1>3. t # <<>> /\ t[1].op = "fill" /\ o.op = "fill"
  BY <1>1, <1>2
<1>4. \/ o.file = "kernel" /\ o.i \in 1 .. Kernels
      \/ o.file \in ManifestNames /\ o.i = 0
  BY <1>2, <1>3 DEF PublisherMay
<1>5. o.dir = ModelDir /\ Advance(p, mem[p], f, dirs, Tail(t))
  BY <1>1, <1>2, <1>3, <1>4 DEF PublisherMay, Here, ManifestNames
<1>6. mem[p].manifest \in Manifests
  BY <1>2, <1>3 DEF Knows
<1>7. /\ o.file = "kernel" => content = mem[p].manifest.kernels[o.i]
      /\ o.file \in ManifestNames => content = mem[p].manifest
  BY DEF Produced, ManifestNames
<1>8. f = Written(fs, Path(ModelDir, o.file, o.i), content)
  BY DEF With, Written
<1> HIDE DEF o, f, t, content
<1>9. Content(content) /\ (o.file = "kernel" => content.kind # "manifest")
  <2>1. CASE o.file = "kernel" /\ o.i \in 1 .. Kernels
    <3>1. PICK profile \in Profiles, source \in Sources : mem[p].manifest = Manifest(profile, source)
      BY <1>6 DEF Manifests
    <3>2. content = KernelFile(o.i, profile, source)
      BY <1>7, <2>1, <3>1 DEF Manifest
    <3> QED BY <3>2 DEF KernelFile, Content
  <2>2. CASE o.file \in ManifestNames /\ o.i = 0
    BY <1>6, <1>7, <2>2 DEF Content, ManifestNames
  <2> QED BY <1>4, <2>1, <2>2
<1>10. /\ Sound(f) /\ SameResources(p, fs, f)
       /\ Path(ModelDir, o.file, o.i) \in DOMAIN f /\ f[Path(ModelDir, o.file, o.i)] = content
  BY <1>2, <1>8, <1>9, ModelWrite
<1>11. Knows(job[p], Tail(t), mem[p])
  BY <1>2, <1>3, <1>6, PublisherKnows
<1>12. ASSUME Publishers = {p} PROVE ModelWhole(f) /\ Writing(Tail(t), mem[p], f)
  <2>1. Writing(t, mem[p], fs)
    BY <1>12 DEF PInv, t
  <2>2. /\ \A name \in ManifestNames : ~ManifestAt(fs, name)
        /\ \A k \in 1 .. Kernels : o.file # "kernel" \/ k < o.i =>
             KernelAt(fs, k, mem[p].manifest.kernels)
    BY <1>2, <1>3, <2>1 DEF Writing
  <2>3. Tail(t) # <<>> /\ Tail(t)[1].op \in {"create", "fill"} =>
          /\ o.file = "kernel"
          /\ IF Tail(t)[1].file = "kernel" THEN Tail(t)[1].i = o.i + 1 ELSE o.i = Kernels
    <3> SUFFICES ASSUME Tail(t) # <<>>, Tail(t)[1].op \in {"create", "fill"}
                 PROVE  /\ o.file = "kernel"
                        /\ IF Tail(t)[1].file = "kernel" THEN Tail(t)[1].i = o.i + 1
                           ELSE o.i = Kernels
      OBVIOUS
    <3>1. Follows(t[1], Tail(t)[1]) /\ Tail(t)[1].dir = ModelDir
      BY <1>2, <1>3, PublisherNext DEF PublisherMay
    <3> QED BY <1>2, <1>3, <3>1 DEF Follows
  <2>4. CASE o.file = "kernel" /\ o.i \in 1 .. Kernels
    <3>1. \A name \in ManifestNames : ~ManifestAt(f, name)
      <4>1. \A name \in ManifestNames : name # o.file
        BY <2>4 DEF ManifestNames
      <4> QED BY <1>2, <1>8, <1>9, <2>2, <4>1, ModelWriteKeeps
    <3>2. ASSUME NEW k \in 1 .. Kernels, k <= o.i PROVE KernelAt(f, k, mem[p].manifest.kernels)
      <4>1. CASE k = o.i
        BY <1>7, <1>10, <2>4, <4>1 DEF KernelAt
      <4>2. CASE k # o.i
        <5>1. k < o.i
          BY <2>4, <3>2, <4>2, KernelsAssumption
        <5> QED BY <1>2, <1>8, <1>9, <2>2, <4>2, <5>1, ModelWriteKeeps
      <4> QED BY <4>1, <4>2
    <3>3. ModelWhole(f)
      BY <3>1 DEF ModelWhole
    <3>4. Writing(Tail(t), mem[p], f)
      <4> SUFFICES ASSUME Tail(t) # <<>>, Tail(t)[1].op \in {"create", "fill"},
                          NEW k \in 1 .. Kernels, Tail(t)[1].file # "kernel" \/ k < Tail(t)[1].i
                   PROVE  k <= o.i
        BY <3>1, <3>2 DEF Writing
      <4>1. CASE Tail(t)[1].file # "kernel"
        <5>1. o.i = Kernels
          BY <2>3, <4>1
        <5> QED BY <5>1, KernelsAssumption
      <4>2. CASE Tail(t)[1].file = "kernel"
        <5>1. k < o.i + 1
          BY <2>3, <4>2
        <5> QED BY <2>4, <5>1, KernelsAssumption
      <4> QED BY <4>1, <4>2
    <3> QED BY <3>3, <3>4
  <2>5. CASE o.file \in ManifestNames /\ o.i = 0
    <3>1. o.file # "kernel"
      BY <2>5 DEF ManifestNames
    <3>2. \A k \in 1 .. Kernels : KernelAt(f, k, mem[p].manifest.kernels)
      BY <1>2, <1>8, <1>9, <2>2, <3>1, ModelWriteKeeps
    <3>3. \A name \in ManifestNames : name # o.file => ~ManifestAt(f, name)
      BY <1>2, <1>8, <1>9, <2>2, ModelWriteKeeps
    <3>4. f[Path(ModelDir, o.file, 0)] = mem[p].manifest
      BY <1>7, <1>10, <2>5
    <3>5. ModelWhole(f)
      BY <3>2, <3>3, <3>4 DEF ModelWhole
    <3>6. Writing(Tail(t), mem[p], f)
      BY <2>3, <3>1 DEF Writing
    <3> QED BY <3>5, <3>6
  <2> QED BY <1>4, <2>4, <2>5
<1>13. Updates(p, mem[p], mem[p])
  BY <1>1, SameUpdates
<1> QED BY <1>1, <1>2, <1>5, <1>10, <1>11, <1>12, <1>13, PublisherGoes DEF t

LEMMA CreateKeeps ==
  ASSUME PInv, NEW p \in Procs, Create(p)
  PROVE  PInv'
  BY CreateOther, CreatePublisher

LEMMA FillKeeps ==
  ASSUME PInv, NEW p \in Procs, Fill(p)
  PROVE  PInv'
  BY FillOther, FillPublisher

-----------------------------------------------------------------------------
(* Steps of a process that makes a resource file *)

BundlerOps ==
  {"open gguf", "open resource", "absent", "create temporary", "fill temporary", "link"}

LEMMA BundlerInstr ==
  ASSUME NEW p, NEW j, NEW o \in Instrs(p, j), o.op \in BundlerOps
  PROVE  Bundles(j) /\ BundlerMay(j, o)
  BY DEF Instrs, OtherMay, PublisherMay, BundlerOps

\* The rest of the list: only the filled temporary is followed by the link.
LEMMA BundlerNext ==
  ASSUME NEW p, NEW j, Bundles(j), NEW t, Listed(p, j, t), t # <<>>, t[Len(t)].op = "link"
  PROVE  /\ BundlerMay(j, t[1])
         /\ Tail(t) = <<>> => t[1].op = "link"
         /\ Tail(t) # <<>> => /\ Tail(t)[Len(Tail(t))].op = "link"
                              /\ Follows(t[1], Tail(t)[1]) /\ BundlerMay(j, Tail(t)[1])
<1>1. Chain(Instrs(p, j), Order(p, j), t)
  BY DEF Listed
<1>2. ~Publishes(j)
  BY DEF Publishes, Bundles
<1>3. BundlerMay(j, t[1])
  <2> DEFINE a == t[1]
  <2>1. a \in Instrs(p, j)
    BY <1>1, ChainTail
  <2> HIDE DEF a
  <2>2. BundlerMay(j, a)
    BY <1>2, <2>1 DEF Instrs
  <2> QED BY <2>2 DEF a
<1>4. ASSUME Tail(t) = <<>> PROVE t[1].op = "link"
  <2>1. t \in Seq(Instrs(p, j)) /\ Len(Tail(t)) = 0
    BY <1>1, <1>4 DEF Chain
  <2>2. Len(t) = 1
    BY <2>1
  <2> QED BY <2>2
<1>5. ASSUME Tail(t) # <<>>
      PROVE  /\ Tail(t)[Len(Tail(t))].op = "link"
             /\ Follows(t[1], Tail(t)[1]) /\ BundlerMay(j, Tail(t)[1])
  <2> DEFINE a == t[1]
             b == Tail(t)[1]
  <2>1. <<a, b>> \in Order(p, j) /\ Tail(t)[Len(Tail(t))] = t[Len(t)]
    BY <1>1, <1>5, ChainTail
  <2> HIDE DEF a, b
  <2>2. Follows(a, b) /\ b \in Instrs(p, j)
    BY <2>1 DEF Order
  <2>3. BundlerMay(j, b)
    BY <1>2, <2>2 DEF Instrs
  <2> QED BY <2>1, <2>2, <2>3 DEF a, b
<1> QED BY <1>3, <1>4, <1>5

\* What a process at one of these instructions is.
LEMMA BundlerIs ==
  ASSUME PInv, NEW p \in Procs, todo[p] # <<>>, Instr(p).op \in BundlerOps
  PROVE  /\ Bundles(job[p]) /\ BundlerMay(job[p], Instr(p)) /\ Instr(p) = todo[p][1]
         /\ Listed(p, job[p], todo[p]) /\ Knows(job[p], todo[p], mem[p]) /\ Sound(fs)
         /\ todo[p][Len(todo[p])].op = "link"
         /\ Bundling(p, job[p], todo[p], fs, status[p])
<1>1. /\ Instr(p) = todo[p][1] /\ Instr(p) \in Instrs(p, job[p])
      /\ Listed(p, job[p], todo[p]) /\ Knows(job[p], todo[p], mem[p]) /\ Sound(fs)
  BY NextInstr
<1>2. Bundles(job[p]) /\ BundlerMay(job[p], Instr(p))
  BY <1>1, BundlerInstr
<1>3. Bundling(p, job[p], todo[p], fs, status[p])
  BY <1>2 DEF PInv
<1>4. todo[p][Len(todo[p])].op = "link"
  BY <1>3 DEF Bundling
<1> QED BY <1>1, <1>2, <1>3, <1>4

\* What it has to know for the next instruction.
LEMMA BundlerKnows ==
  ASSUME NEW p, NEW j, Bundles(j), NEW t, Listed(p, j, t), t # <<>>, t[Len(t)].op = "link",
         NEW n, t[1].op \in {"fill temporary", "link"} \/ n.source.kind = "resource"
  PROVE  Knows(j, Tail(t), n)
<1> SUFFICES ASSUME Tail(t) # <<>> PROVE Knows(j, Tail(t), n)
  BY DEF Knows
<1> DEFINE u == Tail(t)
<1>1. Follows(t[1], u[1]) /\ BundlerMay(j, u[1])
  BY BundlerNext
<1>0. ~Publishes(j)
  BY DEF Publishes, Bundles
<1> HIDE DEF u
<1>2. u[1].op \in {"open resource", "open gguf", "absent", "create temporary",
                   "fill temporary", "link"}
  BY <1>1 DEF BundlerMay
<1>3. u[1].op \in {"absent", "create temporary", "fill temporary"} => n.source.kind = "resource"
  BY <1>1 DEF Follows
<1>4. Knows(j, u, n)
  BY <1>0, <1>2, <1>3 DEF Knows, AfterLoad
<1> QED BY <1>4 DEF u

LEMMA BundlerGoes ==
  ASSUME PInv, NEW p \in Procs, todo[p] # <<>>, Instr(p).op \in BundlerOps, job' = job,
         NEW n, NEW f, NEW d, Advance(p, n, f, d, Tail(todo[p])),
         Instr(p).op \in {"fill temporary", "link"} \/ n.source.kind = "resource",
         Updates(p, mem[p], n), Sound(f), SameResources(p, fs, f), SameModel(fs, f),
         Bundled(p, job[p], Tail(todo[p]), fs, f)
  PROVE  PInv'
<1>1. /\ Bundles(job[p]) /\ Instr(p) = todo[p][1] /\ Listed(p, job[p], todo[p])
      /\ todo[p][Len(todo[p])].op = "link"
  BY BundlerIs
<1>2. Knows(job[p], Tail(todo[p]), n)
  BY <1>1, BundlerKnows
<1>3. Listed(p, job[p], Tail(todo[p])) /\ Remembers(p, n)
  BY NextInstr, RemembersUpdate
<1>4. Publishers # {p}
  BY <1>1 DEF Publishers, Bundles
<1> QED BY <1>2, <1>3, <1>4, AdvanceKeeps

\* A step to an instruction that is not the link.
LEMMA BundlerBundled ==
  ASSUME PInv, NEW p \in Procs, todo[p] # <<>>, Instr(p).op \in BundlerOps,
         Instr(p).op \notin {"fill temporary", "link"}, NEW f
  PROVE  Bundled(p, job[p], Tail(todo[p]), fs, f)
<1>1. /\ Bundles(job[p]) /\ Instr(p) = todo[p][1] /\ Listed(p, job[p], todo[p])
      /\ todo[p][Len(todo[p])].op = "link"
  BY BundlerIs
<1> DEFINE u == Tail(todo[p])
<1>2. u # <<>> /\ u[Len(u)].op = "link" /\ Follows(Instr(p), u[1])
  BY <1>1, BundlerNext
<1> HIDE DEF u
<1>3. u[1].op # "link"
  BY <1>2 DEF Follows
<1>4. Bundled(p, job[p], u, fs, f)
  BY <1>2, <1>3 DEF Bundled
<1> QED BY <1>4 DEF u

LEMMA BundlerReads ==
  ASSUME PInv, NEW p \in Procs, todo[p] # <<>>, Instr(p).op \in BundlerOps,
         Instr(p).op \notin {"fill temporary", "link"}, job' = job, NEW n,
         Advance(p, n, fs, dirs, Tail(todo[p])), n.source.kind = "resource",
         Updates(p, mem[p], n)
  PROVE  PInv'
<1>1. Sound(fs)
  BY BundlerIs
<1>2. SameResources(p, fs, fs) /\ SameModel(fs, fs)
  BY <1>1, KeepsNothing DEF Keeps
<1>3. Bundled(p, job[p], Tail(todo[p]), fs, fs)
  BY BundlerBundled
<1> QED BY <1>1, <1>2, <1>3, BundlerGoes

LEMMA OpenGgufKeeps ==
  ASSUME PInv, NEW p \in Procs, OpenGguf(p)
  PROVE  PInv'
<1> DEFINE c == Resource(fs[Source], FALSE)
           n == [mem[p] EXCEPT !.source = c]
<1>1. /\ todo[p] # <<>> /\ Instr(p).op = "open gguf" /\ job' = job
      /\ Advance(p, n, fs, dirs, Tail(todo[p])) \/ Fails(p)
  BY DEF OpenGguf, Reads, Step
<1>2. CASE Fails(p)
  BY <1>1, <1>2, FailsKeep
<1>3. CASE Advance(p, n, fs, dirs, Tail(todo[p]))
  <2>1. c.kind = "resource"
    BY DEF Resource
  <2> HIDE DEF c
  <2>2. Updates(p, mem[p], n) /\ n.source = c
    BY <1>1, RecordIs DEF IsMemory, MemoryFields, Updates
  <2> HIDE DEF n
  <2>3. Instr(p).op \in BundlerOps /\ Instr(p).op \notin {"fill temporary", "link"}
    BY <1>1 DEF BundlerOps
  <2> QED BY <1>1, <1>3, <2>1, <2>2, <2>3, BundlerReads
<1> QED BY <1>1, <1>2, <1>3

LEMMA OpenResourceKeeps ==
  ASSUME PInv, NEW p \in Procs, OpenResource(p)
  PROVE  PInv'
<1> DEFINE c == Resource(Read(Here(p)).source, TRUE)
           n == [mem[p] EXCEPT !.source = c]
<1>1. /\ todo[p] # <<>> /\ Instr(p).op = "open resource" /\ job' = job
      /\ Advance(p, n, fs, dirs, Tail(todo[p])) \/ Fails(p)
  BY DEF OpenResource, Reads, Step
<1>2. CASE Fails(p)
  BY <1>1, <1>2, FailsKeep
<1>3. CASE Advance(p, n, fs, dirs, Tail(todo[p]))
  <2>1. c.kind = "resource"
    BY DEF Resource
  <2> HIDE DEF c
  <2>2. Updates(p, mem[p], n) /\ n.source = c
    BY <1>1, RecordIs DEF IsMemory, MemoryFields, Updates
  <2> HIDE DEF n
  <2>3. Instr(p).op \in BundlerOps /\ Instr(p).op \notin {"fill temporary", "link"}
    BY <1>1 DEF BundlerOps
  <2> QED BY <1>1, <1>3, <2>1, <2>2, <2>3, BundlerReads
<1> QED BY <1>1, <1>2, <1>3

LEMMA AbsentKeeps ==
  ASSUME PInv, NEW p \in Procs, Absent(p)
  PROVE  PInv'
<1>1. /\ todo[p] # <<>> /\ Instr(p).op = "absent" /\ job' = job
      /\ Advance(p, mem[p], fs, dirs, Tail(todo[p])) \/ Fails(p)
  BY DEF Absent, Reads, Step
<1>2. CASE Fails(p)
  BY <1>1, <1>2, FailsKeep
<1>3. CASE Advance(p, mem[p], fs, dirs, Tail(todo[p]))
  <2>1. Instr(p).op \in BundlerOps /\ Instr(p).op \notin {"fill temporary", "link"}
    BY <1>1 DEF BundlerOps
  <2>2. Instr(p) = todo[p][1] /\ Knows(job[p], todo[p], mem[p])
    BY <1>1, <2>1, BundlerIs
  <2>3. mem[p].source.kind = "resource"
    BY <1>1, <2>2 DEF Knows
  <2> QED BY <1>1, <1>3, <2>1, <2>3, SameUpdates, BundlerReads
<1> QED BY <1>1, <1>2, <1>3

LEMMA CreateTemporaryKeeps ==
  ASSUME PInv, NEW p \in Procs, CreateTemporary(p)
  PROVE  PInv'
<1> DEFINE n == [mem[p] EXCEPT !.owns = Temporary(p)]
           f == With(Temp(p), Torn)
<1>1. /\ todo[p] # <<>> /\ Instr(p).op = "create temporary" /\ job' = job
      /\ Advance(p, n, f, dirs, Tail(todo[p]))
  BY DEF CreateTemporary, Step
<1>2. Instr(p).op \in BundlerOps /\ Instr(p).op \notin {"fill temporary", "link"}
  BY <1>1 DEF BundlerOps
<1>3. Instr(p) = todo[p][1] /\ Knows(job[p], todo[p], mem[p]) /\ Sound(fs)
  BY <1>1, <1>2, BundlerIs
<1>4. mem[p].source.kind = "resource"
  BY <1>1, <1>3 DEF Knows
<1>5. Updates(p, mem[p], n) /\ n.source = mem[p].source
  BY <1>1, RecordIs DEF IsMemory, MemoryFields, Updates
<1>6. Temporary(p) \in Scratch(p) /\ Content(Torn)
  BY DEF Scratch, Content, Torn
<1>7. Keeps(p, fs, f)
  BY <1>3, <1>6, WithKeeps DEF Temp
<1> HIDE DEF n, f
<1>8. Bundled(p, job[p], Tail(todo[p]), fs, f)
  BY <1>1, <1>2, BundlerBundled
<1>9. Sound(f) /\ SameResources(p, fs, f) /\ SameModel(fs, f)
  BY <1>7 DEF Keeps
<1> QED BY <1>1, <1>2, <1>4, <1>5, <1>8, <1>9, BundlerGoes

\* The temporary is complete when the link comes.
LEMMA FillTemporaryKeeps ==
  ASSUME PInv, NEW p \in Procs, FillTemporary(p)
  PROVE  PInv'
<1> DEFINE c == mem[p].source
           f == With(Temp(p), c)
           u == Tail(todo[p])
<1>1. /\ todo[p] # <<>> /\ Instr(p).op = "fill temporary" /\ job' = job
      /\ Advance(p, mem[p], f, dirs, u)
  BY DEF FillTemporary, Writes, Step
<1>2. Instr(p).op \in BundlerOps
  BY <1>1 DEF BundlerOps
<1>3. /\ Instr(p) = todo[p][1] /\ Knows(job[p], todo[p], mem[p]) /\ Sound(fs)
      /\ Bundles(job[p]) /\ BundlerMay(job[p], Instr(p)) /\ Listed(p, job[p], todo[p])
      /\ todo[p][Len(todo[p])].op = "link"
  BY <1>1, <1>2, BundlerIs
<1>4. c.kind = "resource"
  BY <1>1, <1>3 DEF Knows
<1>5. Temporary(p) \in Scratch(p) /\ Content(c)
  BY <1>4 DEF Scratch, Content
<1>6. Keeps(p, fs, f)
  BY <1>3, <1>5, WithKeeps DEF Temp
<1>7. Temp(p) \in DOMAIN f /\ f[Temp(p)] = c
  BY DEF With
<1>8. u # <<>> /\ u[Len(u)].op = "link" /\ BundlerMay(job[p], u[1])
  BY <1>1, <1>3, BundlerNext
<1>9. Instr(p).file = Destination(job[p])
  BY <1>1, <1>3 DEF BundlerMay
<1> HIDE DEF c, f, u
<1>10. u[1].op = "link" => Path(Temporary(p), u[1].file, 0) = Temp(p)
  BY <1>8, <1>9 DEF BundlerMay, Temp
<1>11. Bundled(p, job[p], u, fs, f)
  BY <1>4, <1>7, <1>8, <1>10 DEF Bundled
<1>12. Sound(f) /\ SameResources(p, fs, f) /\ SameModel(fs, f)
  BY <1>6 DEF Keeps
<1>13. Updates(p, mem[p], mem[p])
  BY <1>1, SameUpdates
<1> QED BY <1>1, <1>2, <1>11, <1>12, <1>13, BundlerGoes DEF u

\* A link makes the complete file visible, where there was none.
LEMMA LinkKeeps ==
  ASSUME PInv, NEW p \in Procs, Link(p)
  PROVE  PInv'
<1> DEFINE c == fs[Temp(p)]
           path == Path(AotDir, Destination(job[p]), 0)
           f == With(Here(p), c)
           u == Tail(todo[p])
<1>1. /\ todo[p] # <<>> /\ Instr(p).op = "link" /\ job' = job
      /\ \/ Advance(p, mem[p], f, dirs, u) /\ ~Exists(Here(p))
         \/ Fails(p)
  BY DEF Link, Writes, Step
<1>2. CASE Fails(p)
  BY <1>1, <1>2, FailsKeep
<1>3. CASE Advance(p, mem[p], f, dirs, u) /\ ~Exists(Here(p))
  <2>1. Instr(p).op \in BundlerOps
    BY <1>1 DEF BundlerOps
  <2>2. /\ Instr(p) = todo[p][1] /\ Sound(fs) /\ Bundling(p, job[p], todo[p], fs, status[p])
        /\ Bundles(job[p]) /\ BundlerMay(job[p], Instr(p)) /\ Listed(p, job[p], todo[p])
        /\ todo[p][Len(todo[p])].op = "link"
    BY <1>1, <2>1, BundlerIs
  <2>3. Instr(p).file = Destination(job[p]) /\ Instr(p).dir = AotDir /\ Instr(p).i = 0
    BY <1>1, <2>2 DEF BundlerMay
  <2>4. Here(p) = path /\ path \notin DOMAIN fs
    BY <1>3, <2>3 DEF Here, Exists
  <2>5. c.kind = "resource"
    BY <1>1, <2>2 DEF Bundling, Temp
  <2>6. /\ DOMAIN f = DOMAIN fs \cup {path} /\ f[path] = c
        /\ \A q \in DOMAIN fs : f[q] = fs[q]
    BY <2>4 DEF With
  <2>7. /\ path # Source /\ \A file, i : path # Path(ModelDir, file, i)
        /\ \A q, file : path # Path(Temporary(q), file, 0)
    <3>1. path = <<"aot", 0, Destination(job[p]), 0>>
      BY PathIs DEF AotDir
    <3>2. path # Source
      BY <3>1 DEF Source
    <3>3. \A file, i : path # Path(ModelDir, file, i)
      BY PathSame DEF AotDir, ModelDir
    <3>4. \A q, file : path # Path(Temporary(q), file, 0)
      BY PathSame DEF AotDir, Temporary
    <3> QED BY <3>2, <3>3, <3>4
  <2>8. u # <<>> => u[Len(u)].op = "link" /\ Follows(Instr(p), u[1])
    BY <1>1, <2>2, BundlerNext
  <2> HIDE DEF c, f, u, path
  <2>9. Sound(f)
    BY <2>2, <2>5, <2>6, <2>7 DEF Sound
  <2>10. SameModel(fs, f)
    BY <2>6, <2>7 DEF SameModel
  <2>11. SameResources(p, fs, f)
    BY <2>6 DEF SameResources, SameTemporary, SameDestinations
  <2>12. u # <<>> => u[1].op # "link"
    BY <1>1, <2>8 DEF Follows
  <2>13. Bundled(p, job[p], u, fs, f)
    <3>1. CASE u = <<>>
      BY <2>4, <2>6, <3>1 DEF Bundled, path
    <3>2. CASE u # <<>>
      BY <2>8, <2>12, <3>2 DEF Bundled
    <3> QED BY <3>1, <3>2
  <2>14. Updates(p, mem[p], mem[p])
    BY <1>1, SameUpdates
  <2> QED BY <1>1, <1>3, <2>1, <2>9, <2>10, <2>11, <2>13, <2>14, BundlerGoes DEF u
<1> QED BY <1>1, <1>2, <1>3

-----------------------------------------------------------------------------
(* The invariant *)

LEMMA InitInvariant == Init => PInv
<1> SUFFICES ASSUME Init PROVE PInv
  OBVIOUS
<1>1. PICK s \in Scenarios :
        /\ job = s.job /\ fs = s.fs
        /\ todo = [p \in DOMAIN s.job |-> Script(s.job[p])]
        /\ mem = [p \in DOMAIN s.job |-> Fresh]
        /\ status = [p \in DOMAIN s.job |-> "run"]
  BY DEF Init
<1>2. FoundOn(fs) /\ \A p \in Procs : Command(job[p])
  BY <1>1, ScenarioAssumption DEF Procs
<1>3. /\ DOMAIN todo = Procs /\ DOMAIN mem = Procs /\ DOMAIN status = Procs
      /\ \A p \in Procs : todo[p] = Script(job[p]) /\ mem[p] = Fresh /\ status[p] = "run"
  BY <1>1 DEF Procs
<1>4. Sound(fs)
  BY <1>2 DEF FoundOn, Sound
<1>5. ModelWhole(fs)
  <2> SUFFICES ASSUME NEW name \in ManifestNames, ManifestAt(fs, name)
               PROVE  \A i \in 1 .. Kernels : KernelAt(fs, i, fs[Path(ModelDir, name, 0)].kernels)
    BY DEF ModelWhole
  <2>1. PICK profile \in {"native", "v4"} : name = MANIFEST(profile)
    BY DEF ManifestNames, MANIFEST
  <2>2. Path(ModelDir, name, 0) \in DOMAIN fs /\ fs[Path(ModelDir, name, 0)].kind = "manifest"
    BY DEF ManifestAt
  <2>3. \A i \in 1 .. Kernels :
          /\ Path(ModelDir, "kernel", i) \in DOMAIN fs
          /\ fs[Path(ModelDir, "kernel", i)] = fs[Path(ModelDir, name, 0)].kernels[i]
    BY <1>2, <2>1, <2>2 DEF FoundOn
  <2> QED BY <2>3 DEF KernelAt
<1>6. ASSUME NEW p \in Procs
      PROVE  /\ Listed(p, job[p], todo[p])
             /\ Knows(job[p], todo[p], mem[p])
             /\ Remembers(p, mem[p])
             /\ status[p] # "serving"
             /\ Bundles(job[p]) => Bundling(p, job[p], todo[p], fs, status[p])
             /\ Publishers = {p} => Writing(todo[p], mem[p], fs)
  <2>1. Listed(p, job[p], todo[p]) /\ Starts(job[p], todo[p])
    BY <1>2, <1>3, ScriptStarts
  <2>2. Knows(job[p], todo[p], mem[p]) /\ Remembers(p, mem[p])
    BY <1>3, <2>1, StartsKnows, FreshMemory
  <2>3. ASSUME Bundles(job[p]) PROVE Bundling(p, job[p], todo[p], fs, status[p])
    <3>1. todo[p] # <<>> /\ todo[p][Len(todo[p])].op = "link" /\ todo[p][1].op # "link"
      BY <2>1, <2>3 DEF Starts, BundlerOpens
    <3> QED BY <1>3, <3>1 DEF Bundling
  <2>4. ASSUME Publishers = {p} PROVE Writing(todo[p], mem[p], fs)
    <3>1. Publishes(job[p])
      BY <2>4 DEF Publishers, Publishes
    <3>2. todo[p][1].op \notin {"create", "fill"}
      BY <2>1, <3>1 DEF Starts
    <3> QED BY <3>2 DEF Writing
  <2>5. status[p] # "serving"
    BY <1>3
  <2> QED BY <2>1, <2>2, <2>3, <2>4, <2>5
<1>7. \E r \in Scenarios : job = r.job
  BY <1>1
<1>8. \A p, q \in Procs : ~(status[p] = "ok")
  BY <1>3
<1> QED BY <1>3, <1>4, <1>5, <1>6, <1>7, <1>8 DEF PInv

LEMMA StutterKeeps ==
  ASSUME PInv, UNCHANGED vars
  PROVE  PInv'
  BY DEF vars, PInv, Procs, Publishers

LEMMA ProgramKeeps ==
  ASSUME PInv, NEW p \in Procs, Program(p)
  PROVE  PInv'
<1>1. CASE CheckEmpty(p) \/ MakeAll(p) \/ CompileSource(p) \/ Create(p) \/ Fill(p)
  BY <1>1, CheckEmptyKeeps, MakeAllKeeps, CompileSourceKeeps, CreateKeeps, FillKeeps
<1>2. CASE ReadManifest(p) \/ ReadTrusted(p) \/ OpenSource(p) \/ ReadKernel(p)
  BY <1>2, ReadManifestKeeps, ReadTrustedKeeps, OpenSourceKeeps, ReadKernelKeeps
<1>3. CASE Before(p) \/ Pin(p) \/ Same(p) \/ Keep(p) \/ IsNative(p) \/ IsSymbolic(p)
  BY <1>3, BeforeKeeps, PinKeeps, SameKeeps, KeepKeeps, IsNativeKeeps, IsSymbolicKeeps
<1>4. CASE Assign(p) \/ RequireBounded(p) \/ Make(p) \/ MakeShard(p)
  BY <1>4, AssignKeeps, RequireBoundedKeeps, MakeKeeps, MakeShardKeeps
<1>5. CASE ReadDescriptor(p) \/ ReadPayload(p) \/ ReadPlan(p) \/ MatchPlan(p) \/ Mkdir(p)
  BY <1>5, ReadDescriptorKeeps, ReadPayloadKeeps, ReadPlanKeeps, MatchPlanKeeps, MkdirKeeps
<1>6. CASE Serve(p) \/ Accept(p) \/ Ready(p) \/ IsFile(p) \/ PlanWorkers(p)
  BY <1>6, ServeKeeps, AcceptKeeps, ReadyKeeps, IsFileKeeps, PlanWorkersKeeps
<1>7. CASE Connect(p) \/ Answer(p) \/ Coverage(p)
  BY <1>7, ConnectKeeps, AnswerKeeps, CoverageKeeps
<1>8. CASE OpenGguf(p) \/ OpenResource(p) \/ Absent(p)
  BY <1>8, OpenGgufKeeps, OpenResourceKeeps, AbsentKeeps
<1>9. CASE CreateTemporary(p) \/ FillTemporary(p) \/ Link(p)
  BY <1>9, CreateTemporaryKeeps, FillTemporaryKeeps, LinkKeeps
<1>10. CASE OpenCopy(p) \/ CopyFile(p) \/ SkipFile(p) \/ ScpStatus(p)
  BY <1>10, OpenCopyKeeps, CopyFileKeeps, SkipFileKeeps, ScpStatusKeeps
<1> QED BY <1>1, <1>2, <1>3, <1>4, <1>5, <1>6, <1>7, <1>8, <1>9, <1>10 DEF Program

LEMMA NextKeeps == PInv /\ [Next]_vars => PInv'
<1> SUFFICES ASSUME PInv, [Next]_vars PROVE PInv'
  OBVIOUS
<1>1. ASSUME NEW p \in Procs, Program(p) PROVE PInv'
  BY <1>1, ProgramKeeps
<1>2. ASSUME NEW p \in Procs, IoError(p) PROVE PInv'
  BY <1>2, IoErrorKeeps
<1>3. ASSUME NEW p \in Procs, Crash(p) PROVE PInv'
  BY <1>3, CrashKeeps
<1>4. CASE ReplaceSource \/ ClearModel \/ Tamper
  BY <1>4, ReplaceSourceKeeps, ClearModelKeeps, TamperKeeps
<1>5. CASE UNCHANGED vars
  BY <1>5, StutterKeeps
<1> QED BY <1>1, <1>2, <1>3, <1>4, <1>5 DEF Next

LEMMA AtMostOne ==
  ASSUME NEW S, \A p, q \in S : p = q
  PROVE  Cardinality(S) <= 1
<1>1. CASE S = {}
  BY <1>1, FS_EmptySet
<1>2. CASE S # {}
  <2>1. PICK p \in S : TRUE
    BY <1>2
  <2>2. S = {p}
    BY <2>1
  <2>3. Cardinality(S) = 1
    BY <2>2, FS_Singleton
  <2> QED BY <2>3
<1> QED BY <1>1, <1>2

LEMMA InvariantPublished == PInv => PublishedIsWhole
<1> SUFFICES ASSUME PInv PROVE PublishedIsWhole
  OBVIOUS
<1>1. \A p \in Procs : mem[p].model.manifest # None => Whole(mem[p].model)
  BY DEF PInv, Remembers
<1>2. ASSUME NEW profile \in {"native", "v4"}, Cardinality(Publishers) = 1,
             Read(Path(ModelDir, MANIFEST(profile), 0)).kind = "manifest"
      PROVE  \A i \in 1 .. Kernels : Read(Path(ModelDir, "kernel", i))
                                      = Read(Path(ModelDir, MANIFEST(profile), 0)).kernels[i]
  <2> DEFINE name == MANIFEST(profile)
  <2>1. IsFiniteSet(Procs)
    BY ScenarioAssumption DEF PInv, Procs
  <2>2. PICK p : Publishers = {p}
    BY <1>2, <2>1, FS_Subset, FS_Singleton DEF Publishers
  <2>3. ModelWhole(fs)
    BY <2>2 DEF PInv, Publishers
  <2>4. name \in ManifestNames
    BY DEF MANIFEST, ManifestNames
  <2> HIDE DEF name
  <2>5. Path(ModelDir, name, 0) \in DOMAIN fs /\ ManifestAt(fs, name)
    BY <1>2 DEF name, Read, Exists, None, ManifestAt
  <2>6. \A i \in 1 .. Kernels : KernelAt(fs, i, fs[Path(ModelDir, name, 0)].kernels)
    BY <2>3, <2>4, <2>5 DEF ModelWhole
  <2> QED BY <2>5, <2>6 DEF KernelAt, Read, Exists, name
<1>3. \A path \in FilesIn(AotDir) : fs[path].kind = "resource"
  BY DEF PInv, Sound, FilesIn
<1>4. ASSUME NEW role \in {"write model", "append"}
      PROVE  Cardinality({p \in Procs : job[p].role = role /\ status[p] = "ok"}) <= 1
  <2> DEFINE S == {p \in Procs : job[p].role = role /\ status[p] = "ok"}
  <2>1. \A p, q \in S : p = q
    BY DEF PInv, Bundles
  <2> HIDE DEF S
  <2>2. Cardinality(S) <= 1
    BY <2>1, AtMostOne
  <2> QED BY <2>2 DEF S
<1> QED BY <1>1, <1>2, <1>3, <1>4 DEF PublishedIsWhole

\* In every behaviour of the programs, with any number of processes, versions
\* of the source and kernels: a model that a load returns (load_directory_inner)
\* is exactly what one compilation produced; in a directory that one publisher
\* uses, a manifest lies beside every kernel it names; a resource file that is
\* visible is complete, and one process at most has published each of them.
THEOREM DeploymentPublishes == Spec => []PublishedIsWhole
<1>1. Spec => []PInv
  BY InitInvariant, NextKeeps, PTL DEF Spec
<1> QED BY <1>1, InvariantPublished, PTL
==============================================================================
