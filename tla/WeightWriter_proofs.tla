-------------------------- MODULE WeightWriter_proofs --------------------------
(***************************************************************************)
(* Proofs about the transactional writer, for any number of writers of one *)
(* destination, any limits and any number of crashes.                      *)
(***************************************************************************)
EXTENDS WeightWriter, TLAPS

TensorRecs == [name : Names, elements : Nat \ {0}, first : Nat, count : Nat]
BlockRecs == [tensor : Nat, first : Nat, terms : Nat]

\* The catalogue of a writer in memory, as a reader would see it.
Upto(ts, t) == IF t = 0 THEN 0 ELSE ts[t].first + ts[t].count
Stop(bs, b) == bs[b].first + bs[b].terms

\* The bookkeeping of begin_tensor, write_block and end_tensor.  All but the
\* last tensor are complete; the last one is while none is open.
Catalog(ts, bs, wr, st) ==
  /\ \A t, u \in DOMAIN ts : t # u => ts[t].name # ts[u].name
  /\ \A t \in DOMAIN ts : ts[t].first = Upto(ts, t - 1) /\ Upto(ts, t) <= Len(bs)
  /\ Upto(ts, Len(ts)) = Len(bs)
  /\ \A t \in DOMAIN ts : \A b \in Upto(ts, t - 1) + 1 .. Upto(ts, t) :
       /\ bs[b].tensor = t
       /\ bs[b].terms > 0
       /\ bs[b].first = IF b = Upto(ts, t - 1) + 1 THEN 0 ELSE Stop(bs, b - 1)
  /\ \A t \in DOMAIN ts : t < Len(ts) \/ st = "Ready" =>
       ts[t].count > 0 /\ Stop(bs, Upto(ts, t)) = ts[t].elements
  /\ st = "TensorOpen" =>
       /\ ts # <<>>
       /\ wr = IF ts[Len(ts)].count = 0 THEN 0 ELSE Stop(bs, Len(bs))

\* Until a call fails, the catalogue is in order and the spool holds its blocks.
CatalogInv(w) ==
  state[w] # "Aborted" =>
    /\ Catalog(tensors[w], blocks[w], written[w], state[w])
    /\ spooled[w] = blocks[w]

Finishing == {"final", "body", "copy", "header", "verify", "unlink", "link", "report"}

\* How far finish has assembled its file.
AssemblyInv(w) ==
  /\ pc[w] \in Finishing => state[w] = "Ready" /\ tensors[w] # <<>>
  /\ pc[w] \in Finishing \ {"final", "body"} =>
       file[w].tensors = tensors[w] /\ file[w].blocks = blocks[w]
  /\ pc[w] \in Finishing \ {"final", "body", "copy"} => file[w].payload = blocks[w]
  /\ pc[w] \in Finishing \ {"final", "body", "copy", "header"} => file[w].header

\* Who the destination belongs to, and what its owner has told its caller.
CommitInv(w) ==
  /\ pc[w] = "report" => dest = w
  /\ outcome[w] = "failed" => pc[w] = "done"
  /\ outcome[w] = "ok" => dest = w
  /\ dest = w => /\ pc[w] \in {"report", "done", "dead"}
                 /\ outcome[w] # "failed"
                 /\ Readable(file[w]) /\ file[w].blocks = blocks[w]

\* Steps before which a writer has created its spool, and its final file.
Spooling == {"open", "final", "body", "copy", "header", "verify", "unlink", "link", "report"}
Assembling == {"body", "copy", "header", "verify", "unlink", "link", "report"}

\* The names of a writer at work are its own: taken from the counter, not used
\* by another one, and still referring to its files until it removes them.
NameInv(w) ==
  /\ pc[w] \in {"new", "spool"} => path[w]["spool"] = NoPath
  /\ pc[w] \in {"new", "spool", "open", "final"} => path[w]["final"] = NoPath
  /\ pc[w] \in Spooling => path[w]["spool"] \in 0 .. next - 1
  /\ pc[w] \in Assembling => path[w]["final"] \in 0 .. next - 1
  /\ pc[w] \in Assembling => tmp[path[w]["final"]] = <<w, "final">>
  /\ pc[w] \in Assembling => path[w]["final"] # path[w]["spool"]

Apart ==
  \A v, w \in Writers : v # w /\ pc[v] \in Calls /\ pc[w] \in Calls =>
     Held(v) \cap Held(w) = {}

Files == [header : BOOLEAN, tensors : Seq(TensorRecs), blocks : Seq(BlockRecs),
          payload : Seq(BlockRecs)]

MemoryType ==
  /\ state \in [Writers -> {"Ready", "TensorOpen", "Aborted"}]
  /\ tensors \in [Writers -> Seq(TensorRecs)]
  /\ blocks \in [Writers -> Seq(BlockRecs)]
  /\ written \in [Writers -> Nat]
  /\ spooled \in [Writers -> Seq(BlockRecs)]

ProcessType ==
  /\ pc \in [Writers -> Calls \cup {"new", "done", "dead"}]
  /\ file \in [Writers -> Files]
  /\ path \in [Writers -> [Kinds -> 0 .. MaxNames]]
  /\ outcome \in [Writers -> {"none", "ok", "failed"}]

DiskType ==
  /\ tmp \in [Paths -> {NoFile} \cup (Writers \X Kinds)]
  /\ dest \in {NoFile, Foreign} \cup Writers
  /\ next \in 0 .. MaxNames
  /\ stuck \subseteq Paths

WriterInv ==
  /\ MemoryType /\ ProcessType /\ DiskType
  /\ \A w \in Writers : CatalogInv(w) /\ AssemblyInv(w) /\ CommitInv(w) /\ NameInv(w)
  /\ Apart
  /\ NothingLeftBehind

-----------------------------------------------------------------------------
(* The catalogue *)

\* Sequences, as far as the catalogue needs them.
LEMMA SeqFacts ==
  ASSUME NEW S, NEW s \in Seq(S)
  PROVE  /\ Len(s) \in Nat /\ DOMAIN s = 1 .. Len(s)
         /\ \A n \in DOMAIN s : s[n] \in S
         /\ s = <<>> <=> Len(s) = 0
         /\ \A x \in S : /\ Append(s, x) \in Seq(S) /\ Len(Append(s, x)) = Len(s) + 1
                         /\ DOMAIN Append(s, x) = 1 .. Len(s) + 1
                         /\ \A n \in 1 .. Len(s) : Append(s, x)[n] = s[n]
                         /\ Append(s, x)[Len(s) + 1] = x
  <1>1. /\ Len(s) \in Nat /\ DOMAIN s = 1 .. Len(s)
        /\ \A n \in DOMAIN s : s[n] \in S
        /\ s = <<>> <=> Len(s) = 0
    OBVIOUS
  <1>2. ASSUME NEW x \in S
        PROVE  /\ Append(s, x) \in Seq(S) /\ Len(Append(s, x)) = Len(s) + 1
               /\ DOMAIN Append(s, x) = 1 .. Len(s) + 1
               /\ \A n \in 1 .. Len(s) : Append(s, x)[n] = s[n]
               /\ Append(s, x)[Len(s) + 1] = x
    OBVIOUS
  <1> QED BY <1>1, <1>2

\* A catalogue without an open tensor passes the reader's checks.
LEMMA CatalogReadable ==
  ASSUME NEW f, NEW wr, f.header, f.tensors \in Seq(TensorRecs), f.tensors # <<>>,
         f.blocks \in Seq(BlockRecs), f.payload = f.blocks,
         Catalog(f.tensors, f.blocks, wr, "Ready")
  PROVE  Readable(f)
  <1> DEFINE ts == f.tensors
             bs == f.blocks
  <1>1. /\ Len(ts) \in Nat /\ DOMAIN ts = 1 .. Len(ts) /\ Len(ts) # 0
        /\ \A t \in DOMAIN ts : ts[t] \in TensorRecs
        /\ Len(bs) \in Nat /\ (bs = <<>> <=> Len(bs) = 0)
    BY SeqFacts
  <1>2. \A t : End(f, t) = Upto(ts, t)
    BY DEF End, Upto
  <1>3. \A t \in DOMAIN ts : ts[t].first \in Nat /\ ts[t].count \in Nat
    BY <1>1 DEF TensorRecs
  <1>4. bs # <<>>
    <2>1. Len(ts) \in DOMAIN ts /\ Upto(ts, Len(ts)) = Len(bs) /\ ts[Len(ts)].count > 0
      BY <1>1 DEF Catalog
    <2>2. Len(bs) = ts[Len(ts)].first + ts[Len(ts)].count
      BY <1>1, <2>1 DEF Upto
    <2> QED BY <1>1, <1>3, <2>1, <2>2
  <1>5. TensorsCover(f)
    BY <1>1, <1>2 DEF TensorsCover, Catalog
  <1>6. BlocksCover(f)
    <2> SUFFICES ASSUME NEW t \in DOMAIN ts, NEW b \in Upto(ts, t - 1) + 1 .. Upto(ts, t)
                 PROVE  /\ bs[b].tensor = t
                        /\ bs[b].terms > 0
                        /\ bs[b].first = IF b = Upto(ts, t - 1) + 1 THEN 0
                                         ELSE Stop(bs, b - 1)
                        /\ b = Upto(ts, t) => Stop(bs, b) = ts[t].elements
      BY <1>2 DEF BlocksCover, Stop
    <2> QED BY DEF Catalog
  <1> QED BY <1>4, <1>5, <1>6 DEF Readable, Opens

\* begin_tensor.
LEMMA BeginCatalog ==
  ASSUME NEW ts \in Seq(TensorRecs), NEW bs \in Seq(BlockRecs), NEW wr,
         Catalog(ts, bs, wr, "Ready"),
         NEW r \in TensorRecs, r.first = Len(bs), r.count = 0,
         \A t \in DOMAIN ts : ts[t].name # r.name
  PROVE  Catalog(Append(ts, r), bs, 0, "TensorOpen")
  <1> DEFINE us == Append(ts, r)
             n == Len(ts)
  <1>1. /\ n \in Nat /\ DOMAIN ts = 1 .. n /\ Len(bs) \in Nat
        /\ us \in Seq(TensorRecs) /\ Len(us) = n + 1 /\ DOMAIN us = 1 .. n + 1
        /\ \A t \in 1 .. n : us[t] = ts[t] /\ us[n + 1] = r
        /\ us[n + 1] = r /\ us # <<>>
    BY SeqFacts
  <1> HIDE DEF us
  <1>2. \A t \in 0 .. n : Upto(us, t) = Upto(ts, t)
    BY <1>1 DEF Upto
  <1>3. Upto(us, n + 1) = Len(bs)
    BY <1>1 DEF Upto
  <1>4. Upto(ts, n) = Len(bs)
    BY DEF Catalog
  <1>5. \A t, u \in DOMAIN us : t # u => us[t].name # us[u].name
    BY <1>1 DEF Catalog
  <1>6. \A t \in DOMAIN us : us[t].first = Upto(us, t - 1) /\ Upto(us, t) <= Len(bs)
    <2> TAKE t \in DOMAIN us
    <2>1. CASE t = n + 1
      <3>1. t - 1 = n
        BY <1>1, <2>1
      <3> QED BY <1>1, <1>2, <1>3, <1>4, <2>1, <3>1
    <2>2. CASE t \in 1 .. n
      <3>1. t - 1 \in 0 .. n
        BY <1>1, <2>2
      <3> QED BY <1>1, <1>2, <2>2, <3>1 DEF Catalog
    <2> QED BY <1>1, <2>1, <2>2
  <1>7. \A t \in DOMAIN us : \A b \in Upto(us, t - 1) + 1 .. Upto(us, t) :
          /\ bs[b].tensor = t
          /\ bs[b].terms > 0
          /\ bs[b].first = IF b = Upto(us, t - 1) + 1 THEN 0 ELSE Stop(bs, b - 1)
    <2> TAKE t \in DOMAIN us
    <2>1. CASE t = n + 1
      <3>1. t - 1 = n
        BY <1>1, <2>1
      <3>2. Upto(us, t - 1) + 1 .. Upto(us, t) = {}
        BY <1>1, <1>2, <1>3, <1>4, <2>1, <3>1
      <3> QED BY <3>2
    <2>2. CASE t \in 1 .. n
      <3>1. t - 1 \in 0 .. n /\ t \in 0 .. n
        BY <1>1, <2>2
      <3> QED BY <1>1, <1>2, <2>2, <3>1 DEF Catalog
    <2> QED BY <1>1, <2>1, <2>2
  <1>8. \A t \in DOMAIN us : t < Len(us) =>
          us[t].count > 0 /\ Stop(bs, Upto(us, t)) = us[t].elements
    <2> SUFFICES ASSUME NEW t \in DOMAIN us, t < Len(us)
                 PROVE  us[t].count > 0 /\ Stop(bs, Upto(us, t)) = us[t].elements
      OBVIOUS
    <2>1. t \in 1 .. n /\ t \in 0 .. n
      BY <1>1
    <2> QED BY <1>1, <1>2, <2>1 DEF Catalog
  <1> QED BY <1>1, <1>3, <1>5, <1>6, <1>7, <1>8 DEF Catalog, us

\* end_tensor, when the open tensor is covered.
LEMMA EndCatalog ==
  ASSUME NEW ts \in Seq(TensorRecs), NEW bs \in Seq(BlockRecs), NEW wr,
         Catalog(ts, bs, wr, "TensorOpen"), wr = ts[Len(ts)].elements
  PROVE  Catalog(ts, bs, wr, "Ready")
  <1>1. /\ Len(ts) \in Nat /\ DOMAIN ts = 1 .. Len(ts) /\ Len(ts) # 0
        /\ \A t \in DOMAIN ts : ts[t] \in TensorRecs
    BY SeqFacts DEF Catalog
  <1>2. Len(ts) \in DOMAIN ts /\ ts[Len(ts)].elements # 0 /\ ts[Len(ts)].count \in Nat
    BY <1>1 DEF TensorRecs
  <1>3. ts[Len(ts)].count > 0 /\ Stop(bs, Upto(ts, Len(ts))) = wr
    BY <1>2 DEF Catalog
  <1>4. \A t \in DOMAIN ts : t < Len(ts) \/ t = Len(ts)
    BY <1>1
  <1>5. \A t \in DOMAIN ts : ts[t].count > 0 /\ Stop(bs, Upto(ts, t)) = ts[t].elements
    BY <1>3, <1>4 DEF Catalog
  <1> QED BY <1>5 DEF Catalog

\* Counting a block keeps a tensor's record a record.
LEMMA OneMoreBlock ==
  ASSUME NEW r \in TensorRecs
  PROVE  [r EXCEPT !.count = @ + 1] \in TensorRecs
  BY DEF TensorRecs

\* write_block.
LEMMA BlockCatalog ==
  ASSUME NEW ts \in Seq(TensorRecs), NEW bs \in Seq(BlockRecs), NEW wr \in Nat,
         Catalog(ts, bs, wr, "TensorOpen"), NEW terms \in Nat, terms > 0,
         NEW x, x = [tensor |-> Len(ts), first |-> wr, terms |-> terms]
  PROVE  /\ [ts EXCEPT ![Len(ts)].count = @ + 1] \in Seq(TensorRecs)
         /\ x \in BlockRecs
         /\ Catalog([ts EXCEPT ![Len(ts)].count = @ + 1], Append(bs, x), wr + terms,
                    "TensorOpen")
  <1> DEFINE n == Len(ts)
             us == [ts EXCEPT ![n].count = @ + 1]
             cs == Append(bs, x)
             k == Len(bs)
  <1>1. /\ n \in Nat /\ n # 0 /\ DOMAIN ts = 1 .. n /\ n \in DOMAIN ts
        /\ \A t \in DOMAIN ts : ts[t] \in TensorRecs
    BY SeqFacts DEF Catalog
  <1>2. x \in BlockRecs /\ x.tensor = n /\ x.first = wr /\ x.terms = terms
    BY <1>1 DEF BlockRecs
  <1>3. /\ k \in Nat /\ DOMAIN bs = 1 .. k /\ cs \in Seq(BlockRecs) /\ Len(cs) = k + 1
        /\ \A b \in 1 .. k : cs[b] = bs[b] /\ bs[b] \in BlockRecs
        /\ cs[k + 1] = x
    BY <1>2, SeqFacts
  <1>4. /\ us \in Seq(TensorRecs) /\ Len(us) = n /\ DOMAIN us = 1 .. n /\ us # <<>>
        /\ \A t \in 1 .. n : t # n => us[t] = ts[t]
        /\ us[n].name = ts[n].name /\ us[n].elements = ts[n].elements
        /\ us[n].first = ts[n].first /\ us[n].count = ts[n].count + 1
    <2>1. [ts[n] EXCEPT !.count = @ + 1] \in TensorRecs
      BY <1>1, OneMoreBlock
    <2>2. us \in Seq(TensorRecs) /\ Len(us) = n
      BY <1>1, <2>1
    <2>3. us[n] = [ts[n] EXCEPT !.count = @ + 1]
      BY <1>1
    <2>4. \A t \in 1 .. n : t # n => us[t] = ts[t]
      BY <1>1
    <2> HIDE DEF us
    <2> QED BY <1>1, <2>2, <2>3, <2>4, SeqFacts DEF TensorRecs
  <1> HIDE DEF us, cs
  <1>5. \A t \in DOMAIN ts : ts[t].first \in Nat /\ ts[t].count \in Nat
    BY <1>1 DEF TensorRecs
  <1>6. \A t \in 0 .. n - 1 : Upto(us, t) = Upto(ts, t)
    BY <1>1, <1>4 DEF Upto
  <1>7. Upto(ts, n) = k /\ Upto(us, n) = k + 1
    <2>1. Upto(ts, n) = k
      BY DEF Catalog
    <2>2. ts[n].first + ts[n].count = k
      BY <1>1, <2>1 DEF Upto
    <2>3. us[n].first + us[n].count = k + 1
      BY <1>1, <1>4, <1>5, <2>2
    <2> QED BY <1>1, <2>1, <2>3 DEF Upto
  <1>8. \A t, u \in DOMAIN us : t # u => us[t].name # us[u].name
    <2>1. \A t \in DOMAIN us : us[t].name = ts[t].name
      BY <1>1, <1>4
    <2> QED BY <1>1, <1>4, <2>1 DEF Catalog
  <1>9. \A t \in DOMAIN us : /\ t - 1 \in 0 .. n - 1 /\ us[t].first = ts[t].first
                             /\ ts[t].first = Upto(ts, t - 1) /\ Upto(ts, t) <= k
    BY <1>1, <1>4 DEF Catalog
  <1>10. \A t \in DOMAIN us : us[t].first = Upto(us, t - 1) /\ Upto(us, t) <= Len(cs)
    <2> TAKE t \in DOMAIN us
    <2>1. us[t].first = Upto(us, t - 1)
      BY <1>6, <1>9
    <2>2. Upto(us, t) <= k + 1
      <3>1. CASE t = n
        BY <1>3, <1>7, <3>1
      <3>2. CASE t # n
        <4>1. t \in 0 .. n - 1 /\ t \in DOMAIN ts
          BY <1>1, <1>4, <3>2
        <4>2. Upto(us, t) = Upto(ts, t) /\ Upto(ts, t) \in Nat
          BY <1>5, <1>6, <4>1 DEF Upto
        <4> QED BY <1>3, <1>9, <4>2
      <3> QED BY <3>1, <3>2
    <2> QED BY <1>3, <2>1, <2>2
  <1>11. ASSUME NEW t \in DOMAIN us, NEW b \in Upto(us, t - 1) + 1 .. Upto(us, t)
         PROVE  /\ cs[b].tensor = t
                /\ cs[b].terms > 0
                /\ cs[b].first = IF b = Upto(us, t - 1) + 1 THEN 0 ELSE Stop(cs, b - 1)
    <2>1. t - 1 \in 0 .. n - 1 /\ t \in 1 .. n /\ Upto(us, t - 1) = Upto(ts, t - 1)
          /\ Upto(ts, t - 1) = ts[t].first /\ ts[t].first \in Nat
      BY <1>1, <1>4, <1>5, <1>6, <1>9
    <2>2. CASE b \in Upto(ts, t - 1) + 1 .. Upto(ts, t)
      <3>1. /\ bs[b].tensor = t
            /\ bs[b].terms > 0
            /\ bs[b].first = IF b = Upto(ts, t - 1) + 1 THEN 0 ELSE Stop(bs, b - 1)
        BY <1>1, <2>1, <2>2 DEF Catalog
      <3>2. b \in 1 .. k /\ (b # Upto(ts, t - 1) + 1 => b - 1 \in 1 .. k)
        <4>1. Upto(ts, t) <= k /\ Upto(ts, t) \in Nat
          BY <1>1, <1>5, <1>9, <2>1 DEF Upto
        <4> QED BY <1>3, <2>1, <2>2, <4>1
      <3> QED BY <1>3, <2>1, <3>1, <3>2 DEF Stop
    <2>3. CASE ~(b \in Upto(ts, t - 1) + 1 .. Upto(ts, t))
      <3>1. t = n
        <4>1. t # n => Upto(us, t) = Upto(ts, t)
          BY <1>1, <1>6, <2>1
        <4> QED BY <2>1, <2>3, <4>1
      <3>2. b = k + 1
        BY <1>3, <1>7, <2>1, <2>3, <3>1
      <3>3. cs[b] = x
        BY <1>3, <3>2
      <3>4. x.first = IF b = Upto(us, t - 1) + 1 THEN 0 ELSE Stop(cs, b - 1)
        <4>1. wr = IF ts[n].count = 0 THEN 0 ELSE Stop(bs, k)
          BY DEF Catalog
        <4>2. ts[n].first + ts[n].count = k
          BY <1>1, <1>7 DEF Upto
        <4>3. b = Upto(us, t - 1) + 1 <=> ts[n].count = 0
          BY <1>1, <1>3, <1>5, <2>1, <3>1, <3>2, <4>2
        <4>4. ts[n].count # 0 => Stop(cs, b - 1) = Stop(bs, k)
          <5>1. ts[n].count # 0 => k \in 1 .. k /\ b - 1 = k
            BY <1>1, <1>3, <1>5, <3>2, <4>2
          <5> QED BY <1>3, <5>1 DEF Stop
        <4> QED BY <1>2, <4>1, <4>3, <4>4
      <3> QED BY <1>2, <3>1, <3>3, <3>4
    <2> QED BY <2>2, <2>3
  <1>12. ASSUME NEW t \in DOMAIN us, t < Len(us)
         PROVE  us[t].count > 0 /\ Stop(cs, Upto(us, t)) = us[t].elements
    <2>1. t \in DOMAIN ts /\ t < n /\ t \in 0 .. n - 1 /\ us[t] = ts[t]
          /\ Upto(us, t) = Upto(ts, t)
      BY <1>1, <1>4, <1>6, <1>12
    <2>2. ts[t].count > 0 /\ Stop(bs, Upto(ts, t)) = ts[t].elements
      BY <2>1 DEF Catalog
    <2>3. Upto(ts, t) \in 1 .. k
      BY <1>1, <1>3, <1>4, <1>5, <1>9, <2>1, <2>2 DEF Upto
    <2> QED BY <1>3, <2>1, <2>2, <2>3 DEF Stop
  <1>13. wr + terms = Stop(cs, Len(cs)) /\ us[n].count # 0
    BY <1>1, <1>2, <1>3, <1>4, <1>5 DEF Stop
  <1>14. Catalog(us, cs, wr + terms, "TensorOpen")
    BY <1>3, <1>4, <1>7, <1>8, <1>10, <1>11, <1>12, <1>13 DEF Catalog
  <1> QED BY <1>2, <1>4, <1>14 DEF us, cs

-----------------------------------------------------------------------------
(* The steps *)

\* The calls that touch the catalogue.
Cataloguing(w) ==
  \/ \E name \in Names, n \in 1 .. MaxElements : BeginTensor(w, name, n)
  \/ \E n \in 1 .. MaxElements : WriteBlock(w, n)
  \/ RefuseCall(w) \/ TornBlock(w) \/ EndTensor(w)

\* The other steps leave the catalogue and the spool alone.
LEMMA CatalogUntouched ==
  ASSUME [Next]_vars
  PROVE  \/ UNCHANGED <<memory, spooled>>
         \/ \E w \in Writers : Cataloguing(w)
  BY DEF Next, Step, Cataloguing, Create, TryName, NoName, Abort, Return, Finish,
         FinishFails, WriteCatalog, CopyPayload, WriteHeader, Verify, RemoveSpool,
         Publish, Report, Crash, OtherCreates, vars

\* The bookkeeping of the three calls keeps the catalogue in order.
LEMMA CatalogStep ==
  ASSUME MemoryType, \A w \in Writers : CatalogInv(w), [Next]_vars
  PROVE  MemoryType' /\ \A w \in Writers : CatalogInv(w)'
  <1>1. CASE UNCHANGED <<memory, spooled>>
    BY <1>1 DEF memory, MemoryType, CatalogInv
  <1>2. ASSUME NEW w \in Writers, NEW st, NEW ts, NEW bs, NEW wr, NEW sp, MemoryType',
               state'[w] = st, tensors'[w] = ts, blocks'[w] = bs, written'[w] = wr,
               spooled'[w] = sp,
               st = "Aborted" \/ (Catalog(ts, bs, wr, st) /\ sp = bs),
               \A v \in Writers : v # w =>
                 /\ state'[v] = state[v] /\ tensors'[v] = tensors[v]
                 /\ blocks'[v] = blocks[v] /\ written'[v] = written[v]
                 /\ spooled'[v] = spooled[v]
        PROVE  MemoryType' /\ \A v \in Writers : CatalogInv(v)'
    <2>1. ASSUME NEW v \in Writers PROVE CatalogInv(v)'
      <3>1. CASE v = w
        BY <1>2, <3>1 DEF CatalogInv
      <3>2. CASE v # w
        BY <1>2, <3>2 DEF CatalogInv
      <3> QED BY <3>1, <3>2
    <2> QED BY <1>2, <2>1
  <1>3. ASSUME NEW w \in Writers, Cataloguing(w)
        PROVE  MemoryType' /\ \A v \in Writers : CatalogInv(v)'
    <2>1. /\ state[w] \in {"Ready", "TensorOpen", "Aborted"}
          /\ tensors[w] \in Seq(TensorRecs) /\ blocks[w] \in Seq(BlockRecs)
          /\ written[w] \in Nat /\ spooled[w] \in Seq(BlockRecs)
          /\ state[w] # "Aborted" =>
               /\ Catalog(tensors[w], blocks[w], written[w], state[w])
               /\ spooled[w] = blocks[w]
      BY DEF MemoryType, CatalogInv
    <2>2. ASSUME NEW name \in Names, NEW n \in 1 .. MaxElements, BeginTensor(w, name, n)
          PROVE  MemoryType' /\ \A v \in Writers : CatalogInv(v)'
      <3> DEFINE r == [name |-> name, elements |-> n, first |-> Len(blocks[w]), count |-> 0]
                 ts == Append(tensors[w], r)
      <3>1. /\ r \in TensorRecs /\ r.first = Len(blocks[w]) /\ r.count = 0 /\ r.name = name
        BY <2>1, WriterAssumption, SeqFacts DEF TensorRecs
      <3>2. /\ state[w] = "Ready" /\ \A t \in DOMAIN tensors[w] : tensors[w][t].name # name
            /\ tensors' = [tensors EXCEPT ![w] = ts]
            /\ written' = [written EXCEPT ![w] = 0]
            /\ state' = [state EXCEPT ![w] = "TensorOpen"]
            /\ blocks' = blocks /\ spooled' = spooled
        BY <2>2 DEF BeginTensor
      <3> HIDE DEF r
      <3>3. Catalog(ts, blocks[w], 0, "TensorOpen") /\ ts \in Seq(TensorRecs)
        <4>1. Catalog(tensors[w], blocks[w], written[w], "Ready")
          BY <2>1, <3>2
        <4>2. \A t \in DOMAIN tensors[w] : tensors[w][t].name # r.name
          BY <3>1, <3>2
        <4>3. Catalog(ts, blocks[w], 0, "TensorOpen")
          BY <2>1, <3>1, <4>1, <4>2, BeginCatalog
        <4>4. ts \in Seq(TensorRecs)
          BY <2>1, <3>1, SeqFacts
        <4> QED BY <4>3, <4>4
      <3> HIDE DEF ts
      <3>4. MemoryType'
        BY <3>2, <3>3 DEF MemoryType
      <3>5. /\ state'[w] = "TensorOpen" /\ tensors'[w] = ts /\ blocks'[w] = blocks[w]
            /\ written'[w] = 0 /\ spooled'[w] = blocks[w]
        BY <2>1, <3>2 DEF MemoryType
      <3>6. \A v \in Writers : v # w =>
              /\ state'[v] = state[v] /\ tensors'[v] = tensors[v]
              /\ blocks'[v] = blocks[v] /\ written'[v] = written[v]
              /\ spooled'[v] = spooled[v]
        BY <3>2 DEF MemoryType
      <3> QED BY <1>2, <3>3, <3>4, <3>5, <3>6
    <2>3. ASSUME NEW n \in 1 .. MaxElements, WriteBlock(w, n)
          PROVE  MemoryType' /\ \A v \in Writers : CatalogInv(v)'
      <3> DEFINE t == Len(tensors[w])
                 b == [tensor |-> t, first |-> written[w], terms |-> n]
                 ts == [tensors[w] EXCEPT ![t].count = @ + 1]
                 bs == Append(blocks[w], b)
      <3>1. /\ state[w] = "TensorOpen"
            /\ spooled' = [spooled EXCEPT ![w] = Append(spooled[w], b)]
            /\ blocks' = [blocks EXCEPT ![w] = bs]
            /\ tensors' = [tensors EXCEPT ![w] = ts]
            /\ written' = [written EXCEPT ![w] = written[w] + n]
            /\ state' = state
        BY <2>3 DEF WriteBlock
      <3>2. n \in Nat /\ n > 0
        BY WriterAssumption
      <3>3. ts \in Seq(TensorRecs) /\ b \in BlockRecs
            /\ Catalog(ts, bs, written[w] + n, "TensorOpen")
        BY <2>1, <3>1, <3>2, BlockCatalog
      <3>4. bs \in Seq(BlockRecs) /\ written[w] + n \in Nat
        BY <2>1, <3>2, <3>3, SeqFacts
      <3>5. Append(spooled[w], b) = bs
        BY <2>1, <3>1
      <3> HIDE DEF ts, bs, b
      <3>6. spooled' = [spooled EXCEPT ![w] = bs]
        BY <3>1, <3>5
      <3>7. MemoryType'
        BY <3>1, <3>3, <3>4, <3>6 DEF MemoryType
      <3>8. /\ state'[w] = "TensorOpen" /\ tensors'[w] = ts /\ blocks'[w] = bs
            /\ written'[w] = written[w] + n /\ spooled'[w] = bs
        BY <3>1, <3>6 DEF MemoryType
      <3>9. \A v \in Writers : v # w =>
              /\ state'[v] = state[v] /\ tensors'[v] = tensors[v]
              /\ blocks'[v] = blocks[v] /\ written'[v] = written[v]
              /\ spooled'[v] = spooled[v]
        BY <3>1, <3>6 DEF MemoryType
      <3> QED BY <1>2, <3>3, <3>7, <3>8, <3>9
    <2>4. ASSUME NEW sp \in Seq(BlockRecs), spooled' = [spooled EXCEPT ![w] = sp],
                 NEW st \in {"Ready", "Aborted"}, state' = [state EXCEPT ![w] = st],
                 st = "Aborted" \/
                   (Catalog(tensors[w], blocks[w], written[w], st) /\ sp = blocks[w]),
                 UNCHANGED <<tensors, blocks, written>>
          PROVE  MemoryType' /\ \A v \in Writers : CatalogInv(v)'
      <3>1. MemoryType'
        BY <2>4 DEF MemoryType
      <3>2. /\ state'[w] = st /\ tensors'[w] = tensors[w] /\ blocks'[w] = blocks[w]
            /\ written'[w] = written[w] /\ spooled'[w] = sp
        BY <2>4 DEF MemoryType
      <3>3. \A v \in Writers : v # w =>
              /\ state'[v] = state[v] /\ tensors'[v] = tensors[v]
              /\ blocks'[v] = blocks[v] /\ written'[v] = written[v]
              /\ spooled'[v] = spooled[v]
        BY <2>4 DEF MemoryType
      <3> QED BY <1>2, <2>4, <3>1, <3>2, <3>3
    <2>5. CASE RefuseCall(w)
      <3>1. /\ state' = [state EXCEPT ![w] = "Aborted"]
            /\ UNCHANGED <<tensors, blocks, written, spooled>>
        BY <2>5 DEF RefuseCall, Poisoned
      <3>2. spooled' = [spooled EXCEPT ![w] = spooled[w]]
        BY <3>1 DEF MemoryType
      <3> QED BY <2>1, <2>4, <3>1, <3>2
    <2>6. CASE TornBlock(w)
      <3> DEFINE b == [tensor |-> Len(tensors[w]), first |-> written[w], terms |-> 0]
                 sp == Append(spooled[w], b)
      <3>1. b \in BlockRecs
        BY <2>1, SeqFacts DEF BlockRecs
      <3>2. /\ spooled' = [spooled EXCEPT ![w] = sp]
            /\ state' = [state EXCEPT ![w] = "Aborted"]
            /\ UNCHANGED <<tensors, blocks, written>>
        BY <2>6 DEF TornBlock, Poisoned
      <3> HIDE DEF b
      <3>3. sp \in Seq(BlockRecs)
        BY <2>1, <3>1, SeqFacts
      <3> HIDE DEF sp
      <3> QED BY <2>4, <3>2, <3>3
    <2>7. CASE EndTensor(w)
      <3> DEFINE st == IF state[w] = "TensorOpen"
                            /\ written[w] = tensors[w][Len(tensors[w])].elements
                       THEN "Ready" ELSE "Aborted"
      <3>1. /\ state' = [state EXCEPT ![w] = st]
            /\ UNCHANGED <<tensors, blocks, written, spooled>>
        BY <2>7 DEF EndTensor
      <3>2. \/ st = "Aborted"
            \/ Catalog(tensors[w], blocks[w], written[w], st) /\ spooled[w] = blocks[w]
        BY <2>1, EndCatalog
      <3>3. st \in {"Ready", "Aborted"}
        OBVIOUS
      <3> HIDE DEF st
      <3>4. spooled' = [spooled EXCEPT ![w] = spooled[w]]
        BY <3>1 DEF MemoryType
      <3> QED BY <2>1, <2>4, <3>1, <3>2, <3>3, <3>4
    <2> QED BY <1>3, <2>2, <2>3, <2>5, <2>6, <2>7 DEF Cataloguing
  <1> QED BY <1>1, <1>3, CatalogUntouched

-----------------------------------------------------------------------------
(* The steps, by what they do to the names, and to everything but the       *)
(* catalogue.                                                               *)

Moves == {<<"new", "spool">>, <<"new", "done">>, <<"open", "final">>, <<"body", "copy">>,
          <<"copy", "header">>, <<"header", "verify">>, <<"verify", "unlink">>,
          <<"link", "report">>}

\* Steps that leave the temporary files and their names alone.
Keeps(w) ==
  /\ UNCHANGED <<path, tmp, stuck>>
  /\ next' \in {next, next + 1} /\ next' <= MaxNames
  /\ \/ UNCHANGED pc
     \/ \E p \in Calls \cup {"done"} : <<pc[w], p>> \in Moves /\ pc' = [pc EXCEPT ![w] = p]

\* The end of a writer whose process lives.
Ends(w) ==
  /\ pc[w] \in Calls
  /\ pc' = [pc EXCEPT ![w] = "done"]
  /\ outcome' = [outcome EXCEPT ![w] = IF pc[w] = "report" THEN "ok" ELSE "failed"]
  /\ \E K \in SUBSET Held(w) : Remove(Held(w), K)
  /\ next' \in {next, next + 1} /\ next' <= MaxNames
  /\ UNCHANGED <<memory, spooled, file, path, dest>>

\* A temporary file is created.
Takes(w, kind, then) ==
  /\ pc[w] = kind
  /\ next < MaxNames /\ next' = next + 1
  /\ tmp[next] = NoFile
  /\ tmp' = [tmp EXCEPT ![next] = <<w, kind>>]
  /\ path' = [path EXCEPT ![w][kind] = next]
  /\ pc' = [pc EXCEPT ![w] = then]
  /\ UNCHANGED <<memory, spooled, file, outcome, dest, stuck>>

\* A name that was taken.
Retries(w) ==
  /\ next' = next + 1 /\ next' <= MaxNames
  /\ UNCHANGED <<pc, memory, spooled, file, path, outcome, tmp, dest, stuck>>

\* The calls that assemble the file, or go on.
Assembles(w) ==
  Finish(w) \/ WriteCatalog(w) \/ CopyPayload(w) \/ WriteHeader(w) \/ Verify(w)

\* Every step of a writer is one of these.
LEMMA StepCases ==
  ASSUME DiskType, NEW w \in Writers, Step(w)
  PROVE  \/ Cataloguing(w) \/ Create(w) \/ Assembles(w) \/ RemoveSpool(w) \/ Publish(w)
         \/ Retries(w) \/ Takes(w, "spool", "open") \/ Takes(w, "final", "body")
         \/ Ends(w)
  <1>1. CASE Abort(w) \/ FinishFails(w) \/ Report(w)
    <2>1. \/ pc[w] = "report" /\ Return(w, "ok")
          \/ /\ pc[w] \in Calls \ {"report"}
             /\ Return(w, "failed")
      BY <1>1 DEF Abort, FinishFails, Report, Calls
    <2>2. next' \in {next, next + 1} /\ next' <= MaxNames
      BY <2>1 DEF Return, DiskType
    <2> QED BY <2>1, <2>2 DEF Return, Ends, Calls
  <1>2. ASSUME NEW kind \in Kinds, NoName(w, kind)
        PROVE  Ends(w)
    <2>1. pc[w] = kind /\ pc[w] \in Calls /\ pc[w] # "report"
      BY <1>2 DEF NoName, Kinds, Calls
    <2>2. next' \in {next, next + 1} /\ next' <= MaxNames
      BY <1>2, WriterAssumption DEF NoName, DiskType
    <2> QED BY <1>2, <2>1, <2>2 DEF NoName, Ends
  <1>3. ASSUME NEW kind, NEW then, TryName(w, kind, then)
        PROVE  Retries(w) \/ Takes(w, kind, then)
    <2>1. CASE tmp[next] = NoFile
      BY <1>3, <2>1 DEF TryName, Takes
    <2>2. CASE tmp[next] # NoFile
      BY <1>3, <2>2, WriterAssumption DEF TryName, Retries, DiskType
    <2> QED BY <2>1, <2>2
  <1> QED BY <1>1, <1>2, <1>3 DEF Step, Cataloguing, Assembles, Kinds

\* A call on the catalogue is one of an open writer and touches nothing else.
LEMMA CataloguingFrame ==
  ASSUME NEW w \in Writers, Cataloguing(w)
  PROVE  pc[w] = "open" /\ UNCHANGED <<pc, file, path, outcome, disk>>
  BY DEF Cataloguing, BeginTensor, WriteBlock, RefuseCall, TornBlock, EndTensor, Poisoned

LEMMA StepKinds ==
  ASSUME DiskType, NEW w \in Writers, Step(w)
  PROVE  \/ Keeps(w) \/ Ends(w) \/ RemoveSpool(w)
         \/ Takes(w, "spool", "open") \/ Takes(w, "final", "body")
  <1>1. CASE Cataloguing(w)
    BY <1>1, CataloguingFrame, WriterAssumption DEF Keeps, DiskType, disk
  <1>2. CASE Create(w)
    <2>1. UNCHANGED <<path, tmp, stuck, next>> /\ next' <= MaxNames
      BY <1>2 DEF Create, disk, DiskType
    <2>2. \E p \in Calls \cup {"done"} : <<pc[w], p>> \in Moves /\ pc' = [pc EXCEPT ![w] = p]
      BY <1>2 DEF Create, Moves, Calls
    <2> QED BY <2>1, <2>2 DEF Keeps
  <1>3. CASE Assembles(w) \/ Publish(w)
    <2>1. UNCHANGED <<path, tmp, stuck, next>> /\ next' <= MaxNames
      BY <1>3 DEF Assembles, Finish, WriteCatalog, CopyPayload, WriteHeader, Verify, Publish,
                  disk, DiskType
    <2>2. \E p \in Calls \cup {"done"} : <<pc[w], p>> \in Moves /\ pc' = [pc EXCEPT ![w] = p]
      BY <1>3 DEF Assembles, Finish, WriteCatalog, CopyPayload, WriteHeader, Verify, Publish,
                  Goto, Moves, Calls
    <2> QED BY <2>1, <2>2 DEF Keeps
  <1>4. CASE Retries(w)
    BY <1>4 DEF Retries, Keeps
  <1> QED BY <1>1, <1>2, <1>3, <1>4, StepCases

\* The names of a writer at work, or not started, come from the counter.
LEMMA HeldBelow ==
  ASSUME ProcessType, DiskType, NEW v \in Writers, NameInv(v), pc[v] \in Calls \cup {"new"}
  PROVE  Held(v) \subseteq 0 .. next - 1
  <1>1. \A k \in Kinds : path[v][k] = NoPath \/ path[v][k] \in 0 .. next - 1
    BY DEF NameInv, Calls, Spooling, Assembling, Kinds
  <1>2. NoPath \notin Paths
    BY WriterAssumption DEF NoPath, Paths
  <1> QED BY <1>1, <1>2 DEF Held

\* The files of writers at work are apart.
LEMMA FinalHeld ==
  ASSUME ProcessType, DiskType, NEW v \in Writers, NameInv(v), pc[v] \in Assembling
  PROVE  /\ path[v]["final"] \in Held(v) /\ path[v]["final"] \in Paths
         /\ path[v]["spool"] \in Held(v) /\ path[v]["spool"] \in Paths
  <1>1. /\ path[v]["final"] \in 0 .. next - 1
        /\ path[v]["spool"] \in 0 .. next - 1
    BY DEF NameInv, Assembling, Spooling
  <1>2. 0 .. next - 1 \subseteq Paths
    BY WriterAssumption DEF DiskType, Paths
  <1> QED BY <1>1, <1>2 DEF Held, Kinds

NamesInv == (\A v \in Writers : NameInv(v)) /\ Apart /\ NothingLeftBehind

LEMMA KeepsNames ==
  ASSUME ProcessType, DiskType, NamesInv, NEW w \in Writers, Keeps(w)
  PROVE  NamesInv'
  <1>1. next \in Nat /\ next' \in Nat /\ 0 .. next - 1 \subseteq 0 .. next' - 1
    BY WriterAssumption DEF Keeps, DiskType
  <1>2. path' = path /\ tmp' = tmp /\ stuck' = stuck
    BY DEF Keeps
  <1>3. \A v \in Writers : pc'[v] = pc[v] \/ (v = w /\ <<pc[v], pc'[v]>> \in Moves)
    BY DEF Keeps, ProcessType
  <1>4. ASSUME NEW v \in Writers PROVE NameInv(v)'
    <2>1. CASE pc'[v] = pc[v]
      BY <1>1, <1>2, <2>1 DEF NamesInv, NameInv
    <2>2. CASE <<pc[v], pc'[v]>> \in Moves
      <3>1. /\ pc'[v] \in {"new", "spool"} => pc[v] \in {"new", "spool"}
            /\ pc'[v] \in {"new", "spool", "open", "final"} =>
                 pc[v] \in {"new", "spool", "open", "final"}
            /\ pc'[v] \in Spooling => pc[v] \in Spooling
            /\ pc'[v] \in Assembling => pc[v] \in Assembling
        BY <2>2 DEF Moves, Spooling, Assembling
      <3> QED BY <1>1, <1>2, <3>1 DEF NamesInv, NameInv
    <2> QED BY <1>3, <2>1, <2>2
  <1>5. \A v \in Writers : pc'[v] \in Calls => pc[v] \in Calls \cup {"new"}
    BY <1>3 DEF Moves, Calls
  <1>6. Apart'
    <2> SUFFICES ASSUME NEW u \in Writers, NEW v \in Writers, u # v,
                        pc'[u] \in Calls, pc'[v] \in Calls
                 PROVE  Held(u)' \cap Held(v)' = {}
      BY DEF Apart
    <2>1. Held(u)' = Held(u) /\ Held(v)' = Held(v)
      BY <1>2 DEF Held
    <2>2. ASSUME NEW x \in Writers, pc[x] = "new" PROVE Held(x) = {}
      <3>1. path[x]["spool"] = NoPath /\ path[x]["final"] = NoPath
        BY <2>2 DEF NamesInv, NameInv
      <3> QED BY <3>1, WriterAssumption DEF Held, Kinds, NoPath, Paths
    <2>3. CASE pc[u] = "new" \/ pc[v] = "new"
      BY <2>1, <2>2, <2>3
    <2>4. CASE pc[u] \in Calls /\ pc[v] \in Calls
      BY <2>1, <2>4 DEF NamesInv, Apart
    <2> QED BY <1>5, <2>3, <2>4
  <1>7. NothingLeftBehind'
    <2> SUFFICES ASSUME NEW n \in Paths, n \notin stuck', tmp'[n] # NoFile
                 PROVE  \E v \in Writers, k \in Kinds :
                          tmp'[n] = <<v, k>> /\ path'[v][k] = n /\ pc'[v] \in Calls
      BY DEF NothingLeftBehind
    <2>1. PICK v \in Writers, k \in Kinds :
            tmp[n] = <<v, k>> /\ path[v][k] = n /\ pc[v] \in Calls
      BY <1>2 DEF NamesInv, NothingLeftBehind
    <2>2. pc'[v] \in Calls
      BY <1>3, <2>1 DEF Moves, Calls
    <2> QED BY <1>2, <2>1, <2>2
  <1> QED BY <1>4, <1>6, <1>7 DEF NamesInv

LEMMA EndsNames ==
  ASSUME ProcessType, DiskType, NamesInv, NEW w \in Writers, Ends(w)
  PROVE  NamesInv'
  <1>1. next \in Nat /\ next' \in Nat /\ 0 .. next - 1 \subseteq 0 .. next' - 1
    BY WriterAssumption DEF Ends, DiskType
  <1>2. PICK K \in SUBSET Held(w) :
          /\ tmp' = [n \in Paths |-> IF n \in Held(w) \ K THEN NoFile ELSE tmp[n]]
          /\ stuck' = (stuck \ Held(w)) \cup K
    BY DEF Ends, Remove
  <1>3. path' = path /\ pc[w] \in Calls /\ pc'[w] = "done"
        /\ \A v \in Writers : v # w => pc'[v] = pc[v]
    BY DEF Ends, ProcessType
  <1>4. "done" \notin Calls \cup {"new", "spool", "open", "final"} \cup Spooling \cup Assembling
    BY DEF Calls, Spooling, Assembling
  <1>5. ASSUME NEW v \in Writers PROVE NameInv(v)'
    <2>1. CASE v = w
      BY <1>3, <1>4, <2>1 DEF NameInv
    <2>2. CASE v # w
      <3>1. ASSUME pc[v] \in Assembling
            PROVE  tmp'[path[v]["final"]] = tmp[path[v]["final"]]
        <4>1. path[v]["final"] \in Held(v) /\ path[v]["final"] \in Paths
          BY <3>1, FinalHeld DEF NamesInv
        <4>2. pc[v] \in Calls
          BY <3>1 DEF Assembling, Calls
        <4>3. path[v]["final"] \notin Held(w)
          BY <1>3, <2>2, <4>1, <4>2 DEF NamesInv, Apart
        <4> QED BY <1>2, <4>1, <4>3
      <3> QED BY <1>1, <1>3, <2>2, <3>1 DEF NamesInv, NameInv
    <2> QED BY <2>1, <2>2
  <1>6. Apart'
    <2>1. \A v \in Writers : Held(v)' = Held(v) /\ (pc'[v] \in Calls => pc[v] \in Calls)
      BY <1>3, <1>4 DEF Held
    <2> QED BY <2>1 DEF Apart, NamesInv
  <1>7. NothingLeftBehind'
    <2> SUFFICES ASSUME NEW n \in Paths, n \notin stuck', tmp'[n] # NoFile
                 PROVE  \E v \in Writers, k \in Kinds :
                          tmp'[n] = <<v, k>> /\ path'[v][k] = n /\ pc'[v] \in Calls
      BY DEF NothingLeftBehind
    <2>1. n \notin Held(w) /\ n \notin stuck /\ tmp'[n] = tmp[n]
      BY <1>2
    <2>2. PICK v \in Writers, k \in Kinds :
            tmp[n] = <<v, k>> /\ path[v][k] = n /\ pc[v] \in Calls
      BY <2>1 DEF NamesInv, NothingLeftBehind
    <2>3. v # w
      BY <2>1, <2>2 DEF Held
    <2> QED BY <1>3, <2>1, <2>2, <2>3
  <1> QED BY <1>5, <1>6, <1>7 DEF NamesInv

LEMMA TakesNames ==
  ASSUME ProcessType, DiskType, NamesInv, NEW w \in Writers, NEW kind \in Kinds, NEW then,
         <<kind, then>> \in {<<"spool", "open">>, <<"final", "body">>},
         Takes(w, kind, then)
  PROVE  NamesInv'
  <1>1. next \in Paths /\ next \in Nat /\ next' = next + 1 /\ pc[w] = kind
    BY WriterAssumption DEF Takes, DiskType, Paths
  <1>2. /\ tmp'[next] = <<w, kind>> /\ stuck' = stuck
        /\ \A n \in Paths : n # next => tmp'[n] = tmp[n]
    BY <1>1 DEF Takes, DiskType
  <1>3. /\ path'[w][kind] = next /\ pc'[w] = then
        /\ \A k \in Kinds : k # kind => path'[w][k] = path[w][k]
        /\ \A v \in Writers : v # w => path'[v] = path[v] /\ pc'[v] = pc[v]
    BY DEF Takes, ProcessType
  <1>4. kind \in Calls /\ then \in Calls
    BY DEF Calls
  <1>5. \A v \in Writers : pc[v] \in Calls => Held(v) \subseteq 0 .. next - 1
    BY HeldBelow DEF NamesInv
  <1>6. ASSUME NEW v \in Writers PROVE NameInv(v)'
    <2>1. CASE v = w /\ kind = "spool"
      <3>1. path[w]["final"] = NoPath /\ path'[w]["final"] = path[w]["final"] /\ then = "open"
        BY <1>1, <1>3, <2>1 DEF NamesInv, NameInv, Kinds
      <3> QED BY <1>1, <1>3, <2>1, <3>1 DEF NameInv, Spooling, Assembling
    <2>2. CASE v = w /\ kind = "final"
      <3>1. path[w]["spool"] \in 0 .. next - 1 /\ path'[w]["spool"] = path[w]["spool"]
            /\ then = "body"
        BY <1>1, <1>3, <2>2 DEF NamesInv, NameInv, Kinds, Spooling
      <3> QED BY <1>1, <1>2, <1>3, <2>2, <3>1 DEF NameInv
    <2>3. CASE v # w
      <3>1. ASSUME pc[v] \in Assembling
            PROVE  tmp'[path[v]["final"]] = tmp[path[v]["final"]]
        <4>1. path[v]["final"] \in 0 .. next - 1 /\ path[v]["final"] \in Paths
          BY <3>1, FinalHeld DEF NamesInv, NameInv
        <4> QED BY <1>1, <1>2, <4>1
      <3>2. 0 .. next - 1 \subseteq 0 .. next' - 1
        BY <1>1
      <3> QED BY <1>3, <2>3, <3>1, <3>2 DEF NamesInv, NameInv
    <2> QED BY <2>1, <2>2, <2>3 DEF Kinds
  <1>7. Apart'
    <2>1. next \notin 0 .. next - 1
      BY <1>1
    <2>2. \A v \in Writers : v # w => Held(v)' = Held(v) /\ pc'[v] = pc[v]
      BY <1>3 DEF Held
    <2>3. Held(w)' \subseteq Held(w) \cup {next} /\ pc[w] \in Calls
      BY <1>1, <1>3, <1>4 DEF Held
    <2>4. ASSUME NEW v \in Writers, v # w, pc[v] \in Calls
          PROVE  Held(v) \cap Held(w)' = {}
      <3>1. Held(v) \cap Held(w) = {}
        BY <2>3, <2>4 DEF NamesInv, Apart
      <3>2. next \notin Held(v)
        BY <1>5, <2>1, <2>4
      <3> QED BY <2>3, <3>1, <3>2
    <2> SUFFICES ASSUME NEW u \in Writers, NEW v \in Writers, u # v,
                        pc'[u] \in Calls, pc'[v] \in Calls
                 PROVE  Held(u)' \cap Held(v)' = {}
      BY DEF Apart
    <2>5. CASE u = w
      BY <2>2, <2>4, <2>5
    <2>6. CASE v = w
      BY <2>2, <2>4, <2>6
    <2>7. CASE u # w /\ v # w
      BY <2>2, <2>7 DEF NamesInv, Apart
    <2> QED BY <2>5, <2>6, <2>7
  <1>8. NothingLeftBehind'
    <2> SUFFICES ASSUME NEW n \in Paths, n \notin stuck', tmp'[n] # NoFile
                 PROVE  \E v \in Writers, k \in Kinds :
                          tmp'[n] = <<v, k>> /\ path'[v][k] = n /\ pc'[v] \in Calls
      BY DEF NothingLeftBehind
    <2>1. CASE n = next
      BY <1>2, <1>3, <1>4, <2>1
    <2>2. CASE n # next
      <3>1. PICK v \in Writers, k \in Kinds :
              tmp[n] = <<v, k>> /\ path[v][k] = n /\ pc[v] \in Calls
        BY <1>2, <2>2 DEF NamesInv, NothingLeftBehind
      <3>2. path[w][kind] \notin Paths
        BY <1>1, WriterAssumption DEF NamesInv, NameInv, NoPath, Paths
      <3>3. path'[v][k] = n /\ pc'[v] \in Calls
        BY <1>3, <1>4, <3>1, <3>2
      <3> QED BY <1>2, <2>2, <3>1, <3>3
    <2> QED BY <2>1, <2>2
  <1> QED BY <1>6, <1>7, <1>8 DEF NamesInv

LEMMA UnlinkNames ==
  ASSUME ProcessType, DiskType, NamesInv, NEW w \in Writers, RemoveSpool(w)
  PROVE  NamesInv'
  <1> DEFINE s == path[w]["spool"]
  <1>1. /\ pc[w] = "unlink" /\ pc'[w] = "link" /\ path' = path /\ next' = next
        /\ \A v \in Writers : v # w => pc'[v] = pc[v]
    BY DEF RemoveSpool, Goto, ProcessType
  <1>2. /\ tmp' = [n \in Paths |-> IF n = s THEN NoFile ELSE tmp[n]]
        /\ stuck' = stuck \ {s}
    BY DEF RemoveSpool, Remove
  <1>3. s \in Held(w) /\ path[w]["final"] \in Paths /\ path[w]["final"] # s
    BY <1>1, FinalHeld DEF NamesInv, NameInv, Assembling
  <1> HIDE DEF s
  <1>4. \A v \in Writers : pc'[v] \in Calls <=> pc[v] \in Calls
    BY <1>1 DEF Calls
  <1>5. ASSUME NEW v \in Writers PROVE NameInv(v)'
    <2>1. CASE v = w
      BY <1>1, <1>2, <1>3, <2>1 DEF NamesInv, NameInv, Assembling, Spooling
    <2>2. CASE v # w
      <3>1. ASSUME pc[v] \in Assembling
            PROVE  tmp'[path[v]["final"]] = tmp[path[v]["final"]]
        <4>1. path[v]["final"] \in Held(v) /\ path[v]["final"] \in Paths
          BY <3>1, FinalHeld DEF NamesInv
        <4>2. pc[v] \in Calls /\ pc[w] \in Calls
          BY <1>1, <3>1 DEF Assembling, Calls
        <4>3. path[v]["final"] # s
          BY <1>3, <2>2, <4>1, <4>2 DEF NamesInv, Apart
        <4> QED BY <1>2, <4>1, <4>3
      <3> QED BY <1>1, <2>2, <3>1 DEF NamesInv, NameInv
    <2> QED BY <2>1, <2>2
  <1>6. Apart'
    <2>1. \A v \in Writers : Held(v)' = Held(v)
      BY <1>1 DEF Held
    <2> QED BY <1>4, <2>1 DEF Apart, NamesInv
  <1>7. NothingLeftBehind'
    <2> SUFFICES ASSUME NEW n \in Paths, n \notin stuck', tmp'[n] # NoFile
                 PROVE  \E v \in Writers, k \in Kinds :
                          tmp'[n] = <<v, k>> /\ path'[v][k] = n /\ pc'[v] \in Calls
      BY DEF NothingLeftBehind
    <2>1. n # s /\ n \notin stuck /\ tmp'[n] = tmp[n]
      BY <1>2
    <2> QED BY <1>1, <1>4, <2>1 DEF NamesInv, NothingLeftBehind
  <1> QED BY <1>5, <1>6, <1>7 DEF NamesInv

\* A crash: nothing is at work any more.
LEMMA CrashNames ==
  ASSUME ProcessType, DiskType, NamesInv, Crash
  PROVE  NamesInv'
  <1>1. \A v \in Writers : pc'[v] \notin Calls /\ (pc'[v] = "new" => pc[v] = "new")
    BY DEF Crash, Calls, ProcessType
  <1>2. Calls = Spooling \cup Assembling \cup {"spool", "open", "final"}
    BY DEF Calls, Spooling, Assembling
  <1>3. path' = path /\ tmp' = tmp /\ stuck' = {n \in Paths : tmp[n] # NoFile}
    BY DEF Crash
  <1>4. ASSUME NEW v \in Writers PROVE NameInv(v)'
    BY <1>1, <1>2, <1>3 DEF NamesInv, NameInv
  <1>5. Apart' /\ NothingLeftBehind'
    BY <1>1, <1>3 DEF Apart, NothingLeftBehind
  <1> QED BY <1>4, <1>5 DEF NamesInv

-----------------------------------------------------------------------------
(* The assembly of the file and the commit point *)

\* A publication is the publication of the writer's own file.
LEMMA PublishOwn ==
  ASSUME NEW w \in Writers, NameInv(w), Publish(w)
  PROVE  dest = NoFile /\ dest' = w
  BY DEF Publish, NameInv, Assembling

\* What a step of a writer may do to its file, the destination and the outcome.
LEMMA StepFrame ==
  ASSUME DiskType, NEW w \in Writers, Step(w)
  PROVE  /\ WriteCatalog(w) \/ CopyPayload(w) \/ WriteHeader(w) \/ UNCHANGED file
         /\ Publish(w) \/ UNCHANGED dest
         /\ Create(w) \/ Ends(w) \/ UNCHANGED outcome
  <1>1. CASE Cataloguing(w)
    BY <1>1, CataloguingFrame DEF disk
  <1>2. CASE Create(w)
    BY <1>2 DEF Create, disk
  <1>3. CASE Assembles(w)
    BY <1>3 DEF Assembles, Finish, WriteCatalog, CopyPayload, WriteHeader, Verify, disk
  <1>4. CASE RemoveSpool(w) \/ Publish(w) \/ Retries(w)
    BY <1>4 DEF RemoveSpool, Publish, Retries
  <1>5. CASE Takes(w, "spool", "open") \/ Takes(w, "final", "body") \/ Ends(w)
    BY <1>5 DEF Takes, Ends
  <1> QED BY <1>1, <1>2, <1>3, <1>4, <1>5, StepCases

\* The files of the directory and the names stay what they are.
LEMMA TypeStep ==
  ASSUME MemoryType, ProcessType, DiskType, \A w \in Writers : NameInv(w), [Next]_vars
  PROVE  ProcessType' /\ DiskType'
  <1>1. ASSUME NEW w \in Writers, Step(w) PROVE ProcessType'
    <2>1. pc' \in [Writers -> Calls \cup {"new", "done", "dead"}]
          /\ path' \in [Writers -> [Kinds -> 0 .. MaxNames]]
      <3>1. CASE Keeps(w)
        BY <3>1 DEF Keeps, ProcessType
      <3>2. CASE Ends(w)
        BY <3>2 DEF Ends, ProcessType
      <3>3. CASE RemoveSpool(w)
        BY <3>3 DEF RemoveSpool, Goto, ProcessType, Calls
      <3>4. ASSUME NEW kind \in Kinds, NEW then \in Calls, Takes(w, kind, then)
            PROVE  pc' \in [Writers -> Calls \cup {"new", "done", "dead"}]
                   /\ path' \in [Writers -> [Kinds -> 0 .. MaxNames]]
        BY <3>4 DEF Takes, ProcessType, DiskType
      <3>5. "spool" \in Kinds /\ "final" \in Kinds /\ "open" \in Calls /\ "body" \in Calls
        BY DEF Kinds, Calls
      <3> QED BY <1>1, <3>1, <3>2, <3>3, <3>4, <3>5, StepKinds
    <2>2. file' \in [Writers -> Files]
      <3>1. CASE WriteCatalog(w)
        <4>1. file[w] \in Files /\ tensors[w] \in Seq(TensorRecs) /\ blocks[w] \in Seq(BlockRecs)
          BY DEF ProcessType, MemoryType
        <4>2. [file[w] EXCEPT !.tensors = tensors[w], !.blocks = blocks[w]] \in Files
          BY <4>1 DEF Files
        <4>3. file' = [file EXCEPT ![w] = [file[w] EXCEPT !.tensors = tensors[w],
                                                          !.blocks = blocks[w]]]
          BY <3>1 DEF WriteCatalog, ProcessType
        <4> QED BY <4>2, <4>3 DEF ProcessType
      <3>2. CASE CopyPayload(w)
        <4>1. file[w] \in Files /\ spooled[w] \in Seq(BlockRecs)
          BY DEF ProcessType, MemoryType
        <4>2. [file[w] EXCEPT !.payload = spooled[w]] \in Files
          BY <4>1 DEF Files
        <4> QED BY <3>2, <4>2 DEF CopyPayload, ProcessType
      <3>3. CASE WriteHeader(w)
        <4>1. file[w] \in Files
          BY DEF ProcessType
        <4>2. [file[w] EXCEPT !.header = TRUE] \in Files
          BY <4>1 DEF Files
        <4> QED BY <3>3, <4>2 DEF WriteHeader, ProcessType
      <3>4. CASE UNCHANGED file
        BY <3>4 DEF ProcessType
      <3> QED BY <1>1, <3>1, <3>2, <3>3, <3>4, StepFrame
    <2>3. outcome' \in [Writers -> {"none", "ok", "failed"}]
      <3>1. CASE Ends(w)
        BY <3>1 DEF Ends, ProcessType
      <3>2. CASE Create(w)
        BY <3>2 DEF Create, ProcessType
      <3>3. CASE UNCHANGED outcome
        BY <3>3 DEF ProcessType
      <3> QED BY <1>1, <3>1, <3>2, <3>3, StepFrame
    <2> QED BY <2>1, <2>2, <2>3 DEF ProcessType
  <1>2. ASSUME NEW w \in Writers, Step(w) PROVE DiskType'
    <2>1. dest' \in {NoFile, Foreign} \cup Writers
      BY <1>2, StepFrame, PublishOwn DEF DiskType
    <2>2. /\ tmp' \in [Paths -> {NoFile} \cup (Writers \X Kinds)]
          /\ next' \in 0 .. MaxNames /\ stuck' \subseteq Paths
      <3>1. CASE Keeps(w)
        BY <3>1, WriterAssumption DEF Keeps, DiskType
      <3>2. CASE Ends(w)
        <4>1. next' \in 0 .. MaxNames
          BY <3>2, WriterAssumption DEF Ends, DiskType
        <4>2. PICK K \in SUBSET Held(w) : Remove(Held(w), K)
          BY <3>2 DEF Ends
        <4> QED BY <4>1, <4>2 DEF Remove, Held, DiskType
      <3>3. CASE RemoveSpool(w)
        BY <3>3 DEF RemoveSpool, Remove, DiskType
      <3>4. ASSUME NEW kind \in Kinds, NEW then \in Calls, Takes(w, kind, then)
            PROVE  /\ tmp' \in [Paths -> {NoFile} \cup (Writers \X Kinds)]
                   /\ next' \in 0 .. MaxNames /\ stuck' \subseteq Paths
        <4>1. next' \in 0 .. MaxNames /\ stuck' \subseteq Paths
          BY <3>4, WriterAssumption DEF Takes, DiskType
        <4> DEFINE x == <<w, kind>>
        <4>2. x \in {NoFile} \cup (Writers \X Kinds)
          OBVIOUS
        <4>3. tmp' = [tmp EXCEPT ![next] = x]
          BY <3>4 DEF Takes
        <4> HIDE DEF x
        <4> QED BY <4>1, <4>2, <4>3 DEF DiskType
      <3>5. "spool" \in Kinds /\ "final" \in Kinds /\ "open" \in Calls /\ "body" \in Calls
        BY DEF Kinds, Calls
      <3> QED BY <1>2, <3>1, <3>2, <3>3, <3>4, <3>5, StepKinds
    <2> QED BY <2>1, <2>2 DEF DiskType
  <1>3. CASE Crash
    BY <1>3, WriterAssumption DEF Crash, ProcessType, DiskType
  <1>4. CASE OtherCreates
    BY <1>4 DEF OtherCreates, ProcessType, DiskType
  <1>5. CASE UNCHANGED vars
    BY <1>5 DEF vars, disk, ProcessType, DiskType
  <1> QED BY <1>1, <1>2, <1>3, <1>4, <1>5 DEF Next

\* A step of one writer leaves the memory and the file of another alone.
LEMMA OthersUntouched ==
  ASSUME MemoryType, ProcessType, DiskType, NEW w \in Writers, Step(w),
         NEW v \in Writers, v # w
  PROVE  /\ pc'[v] = pc[v] /\ outcome'[v] = outcome[v] /\ file'[v] = file[v]
         /\ state'[v] = state[v] /\ tensors'[v] = tensors[v] /\ blocks'[v] = blocks[v]
  <1>1. pc'[v] = pc[v]
    BY StepKinds DEF Keeps, Ends, RemoveSpool, Takes, Goto, ProcessType
  <1>2. outcome'[v] = outcome[v]
    BY StepFrame DEF Create, Ends, ProcessType
  <1>3. file'[v] = file[v]
    BY StepFrame DEF WriteCatalog, CopyPayload, WriteHeader, ProcessType
  <1>4. state'[v] = state[v] /\ tensors'[v] = tensors[v] /\ blocks'[v] = blocks[v]
    <2>1. CASE Cataloguing(w)
      BY <2>1 DEF Cataloguing, BeginTensor, WriteBlock, RefuseCall, TornBlock, EndTensor,
                  Poisoned, MemoryType
    <2>2. CASE UNCHANGED memory
      BY <2>2 DEF memory
    <2> QED BY <2>1, <2>2, StepCases
            DEF Create, Assembles, Finish, WriteCatalog, CopyPayload, WriteHeader, Verify,
                RemoveSpool, Publish, Retries, Takes, Ends
  <1> QED BY <1>1, <1>2, <1>3, <1>4

\* finish assembles its file from the catalogue in order.
LEMMA AssemblyStep ==
  ASSUME MemoryType, ProcessType, DiskType, [Next]_vars,
         \A w \in Writers : CatalogInv(w) /\ AssemblyInv(w)
  PROVE  \A w \in Writers : AssemblyInv(w)'
  <1>1. ASSUME NEW w \in Writers, Step(w) PROVE AssemblyInv(w)'
    <2> USE DEF Finishing
    <2>1. CASE Cataloguing(w)
      BY <2>1, CataloguingFrame DEF AssemblyInv
    <2>2. CASE Create(w)
      BY <2>2 DEF Create, ProcessType, AssemblyInv
    <2>3. CASE Takes(w, "spool", "open") \/ Ends(w)
      BY <2>3 DEF Takes, Ends, ProcessType, AssemblyInv
    <2>4. CASE Takes(w, "final", "body")
      BY <2>4 DEF Takes, ProcessType, AssemblyInv, memory
    <2>5. CASE Retries(w) \/ RemoveSpool(w) \/ Publish(w) \/ Verify(w)
      BY <2>5 DEF Retries, RemoveSpool, Publish, Verify, Goto, ProcessType, AssemblyInv, memory
    <2>6. CASE Finish(w)
      BY <2>6 DEF Finish, Goto, ProcessType, AssemblyInv, memory
    <2>7. CASE WriteCatalog(w)
      <3>1. file'[w].tensors = tensors[w] /\ file'[w].blocks = blocks[w]
        BY <2>7 DEF WriteCatalog, ProcessType, Files
      <3> QED BY <2>7, <3>1 DEF WriteCatalog, Goto, ProcessType, AssemblyInv, memory
    <2>8. CASE CopyPayload(w)
      <3>1. state[w] = "Ready" /\ spooled[w] = blocks[w]
        BY <2>8 DEF CopyPayload, AssemblyInv, CatalogInv
      <3>2. file'[w].tensors = file[w].tensors /\ file'[w].blocks = file[w].blocks
            /\ file'[w].payload = blocks[w]
        BY <2>8, <3>1 DEF CopyPayload, ProcessType, Files
      <3> QED BY <2>8, <3>2 DEF CopyPayload, Goto, ProcessType, AssemblyInv, memory
    <2>9. CASE WriteHeader(w)
      <3>1. file'[w].tensors = file[w].tensors /\ file'[w].blocks = file[w].blocks
            /\ file'[w].payload = file[w].payload /\ file'[w].header
        BY <2>9 DEF WriteHeader, ProcessType, Files
      <3> QED BY <2>9, <3>1 DEF WriteHeader, Goto, ProcessType, AssemblyInv, memory
    <2> QED BY <1>1, <2>1, <2>2, <2>3, <2>4, <2>5, <2>6, <2>7, <2>8, <2>9, StepCases
            DEF Assembles
  <1>2. ASSUME NEW w \in Writers, Step(w), NEW v \in Writers PROVE AssemblyInv(v)'
    <2>1. CASE v = w
      BY <1>1, <1>2, <2>1
    <2>2. CASE v # w
      BY <1>2, <2>2, OthersUntouched DEF AssemblyInv
    <2> QED BY <2>1, <2>2
  <1>3. CASE Crash
    BY <1>3 DEF Crash, ProcessType, AssemblyInv, Finishing, Calls, memory
  <1>4. CASE OtherCreates \/ UNCHANGED vars
    BY <1>4 DEF OtherCreates, vars, memory, AssemblyInv
  <1> QED BY <1>2, <1>3, <1>4 DEF Next

\* A file that finish has assembled passes the reader's checks.
LEMMA AssembledReadable ==
  ASSUME MemoryType, NEW w \in Writers, CatalogInv(w), AssemblyInv(w),
         pc[w] \in {"verify", "unlink", "link", "report"}
  PROVE  Readable(file[w]) /\ file[w].blocks = blocks[w]
  <1> DEFINE f == file[w]
  <1>1. /\ state[w] = "Ready" /\ tensors[w] # <<>> /\ f.tensors = tensors[w]
        /\ f.blocks = blocks[w] /\ f.payload = blocks[w] /\ f.header
    BY DEF AssemblyInv, Finishing
  <1>2. /\ tensors[w] \in Seq(TensorRecs) /\ blocks[w] \in Seq(BlockRecs)
        /\ Catalog(tensors[w], blocks[w], written[w], "Ready")
    BY <1>1 DEF MemoryType, CatalogInv
  <1> HIDE DEF f
  <1>3. Readable(f)
    BY <1>1, <1>2, CatalogReadable
  <1> QED BY <1>1, <1>3 DEF f

\* The commit point decides what a caller is told.
LEMMA CommitStep ==
  ASSUME MemoryType, ProcessType, DiskType, [Next]_vars,
         \A w \in Writers : CatalogInv(w) /\ AssemblyInv(w) /\ CommitInv(w) /\ NameInv(w)
  PROVE  \A w \in Writers : CommitInv(w)'
  <1>0. NoFile \notin Writers /\ Foreign \notin Writers
    BY WriterAssumption
  <1>1. ASSUME NEW w \in Writers, Publish(w) PROVE \A v \in Writers : CommitInv(v)'
    <2>1. dest = NoFile /\ dest' = w
      BY <1>1, PublishOwn
    <2>2. /\ pc[w] = "link" /\ pc'[w] = "report" /\ UNCHANGED <<outcome, file, blocks>>
          /\ \A v \in Writers : v # w => pc'[v] = pc[v]
      BY <1>1 DEF Publish, Goto, ProcessType, memory
    <2>3. Readable(file[w]) /\ file[w].blocks = blocks[w]
      BY <2>2, AssembledReadable
    <2>4. CommitInv(w)'
      BY <2>1, <2>2, <2>3 DEF CommitInv
    <2>5. ASSUME NEW v \in Writers, v # w PROVE CommitInv(v)'
      BY <1>0, <2>1, <2>2, <2>5 DEF CommitInv
    <2> QED BY <2>4, <2>5
  <1>2. ASSUME NEW w \in Writers, Step(w), dest' = dest, ~Publish(w) PROVE CommitInv(w)'
    <2>1. CASE Cataloguing(w)
      <3>1. pc[w] = "open" /\ UNCHANGED <<pc, file, outcome>>
        BY <2>1, CataloguingFrame
      <3> QED BY <1>2, <3>1 DEF CommitInv
    <2>2. CASE Create(w)
      BY <1>2, <2>2 DEF Create, CommitInv, ProcessType
    <2>3. CASE Ends(w)
      <3>1. pc[w] \in Calls /\ pc'[w] = "done" /\ UNCHANGED <<file, blocks>>
            /\ outcome'[w] = IF pc[w] = "report" THEN "ok" ELSE "failed"
        BY <2>3 DEF Ends, ProcessType, memory
      <3> QED BY <1>2, <3>1 DEF CommitInv, Calls
    <2>4. CASE \/ Takes(w, "spool", "open") \/ Takes(w, "final", "body") \/ RemoveSpool(w)
               \/ Assembles(w)
      <3>1. /\ pc[w] \notin {"report", "done", "dead"} /\ pc'[w] # "report"
            /\ outcome' = outcome
        BY <2>4 DEF Takes, RemoveSpool, Assembles, Finish, WriteCatalog, CopyPayload,
                    WriteHeader, Verify, Goto, ProcessType
      <3> QED BY <1>2, <3>1 DEF CommitInv
    <2>5. CASE Retries(w)
      BY <1>2, <2>5 DEF Retries, CommitInv, memory
    <2> QED BY <1>2, <2>1, <2>2, <2>3, <2>4, <2>5, StepCases
  <1>3. ASSUME NEW w \in Writers, Step(w), NEW v \in Writers PROVE CommitInv(v)'
    <2>1. CASE Publish(w)
      BY <1>1, <2>1
    <2>2. CASE ~Publish(w)
      <3>1. dest' = dest
        BY <1>3, <2>2, StepFrame
      <3>2. CASE v = w
        BY <1>2, <1>3, <2>2, <3>1, <3>2
      <3>3. CASE v # w
        BY <1>3, <3>1, <3>3, OthersUntouched DEF CommitInv
      <3> QED BY <3>2, <3>3
    <2> QED BY <2>1, <2>2
  <1>4. CASE Crash
    BY <1>4 DEF Crash, CommitInv, ProcessType, Calls, memory
  <1>5. CASE OtherCreates
    BY <1>0, <1>5 DEF OtherCreates, CommitInv, memory
  <1>6. CASE UNCHANGED vars
    BY <1>6 DEF vars, memory, disk, CommitInv
  <1> QED BY <1>3, <1>4, <1>5, <1>6 DEF Next

-----------------------------------------------------------------------------
(* The theorems *)

LEMMA WriterInit == Init => WriterInv
  <1> SUFFICES ASSUME Init PROVE WriterInv
    OBVIOUS
  <1>1. MemoryType /\ DiskType
    BY WriterAssumption DEF Init, MemoryType, DiskType, Paths
  <1>2. ProcessType
    <2>1. Blank \in Files
      BY DEF Blank, Files
    <2>2. NoPath \in 0 .. MaxNames
      BY WriterAssumption DEF NoPath
    <2> QED BY <2>1, <2>2 DEF Init, ProcessType
  <1>3. ASSUME NEW w \in Writers
        PROVE  CatalogInv(w) /\ AssemblyInv(w) /\ CommitInv(w) /\ NameInv(w)
    <2>1. CatalogInv(w)
      <3>1. Catalog(<<>>, <<>>, 0, "Ready")
        BY DEF Catalog, Upto
      <3> QED BY <3>1 DEF Init, CatalogInv
    <2>2. AssemblyInv(w) /\ NameInv(w)
      BY DEF Init, AssemblyInv, NameInv, Finishing, Spooling, Assembling, Kinds
    <2>3. CommitInv(w)
      BY WriterAssumption DEF Init, CommitInv
    <2> QED BY <2>1, <2>2, <2>3
  <1>4. Apart /\ NothingLeftBehind
    BY DEF Init, Apart, NothingLeftBehind, Calls
  <1> QED BY <1>1, <1>2, <1>3, <1>4 DEF WriterInv

LEMMA NamesStep ==
  ASSUME ProcessType, DiskType, NamesInv, [Next]_vars
  PROVE  NamesInv'
  <1>1. ASSUME NEW w \in Writers, Step(w) PROVE NamesInv'
    <2>1. CASE Takes(w, "spool", "open")
      BY <2>1, TakesNames DEF Kinds
    <2>2. CASE Takes(w, "final", "body")
      BY <2>2, TakesNames DEF Kinds
    <2> QED BY <1>1, <2>1, <2>2, StepKinds, KeepsNames, EndsNames, UnlinkNames
  <1>2. CASE OtherCreates \/ UNCHANGED vars
    <2>1. UNCHANGED <<pc, path, tmp, stuck, next>>
      BY <1>2 DEF OtherCreates, vars, disk
    <2> QED BY <2>1 DEF NamesInv, NameInv, Apart, Held, NothingLeftBehind
  <1> QED BY <1>1, <1>2, CrashNames DEF Next

LEMMA WriterStep == WriterInv /\ [Next]_vars => WriterInv'
  <1> SUFFICES ASSUME WriterInv, [Next]_vars PROVE WriterInv'
    OBVIOUS
  <1>1. /\ MemoryType /\ ProcessType /\ DiskType /\ NamesInv
        /\ \A w \in Writers : CatalogInv(w) /\ AssemblyInv(w) /\ CommitInv(w) /\ NameInv(w)
    BY DEF WriterInv, NamesInv
  <1>2. MemoryType' /\ \A w \in Writers : CatalogInv(w)'
    BY <1>1, CatalogStep
  <1>3. ProcessType' /\ DiskType'
    BY <1>1, TypeStep
  <1>4. \A w \in Writers : AssemblyInv(w)'
    BY <1>1, AssemblyStep
  <1>5. \A w \in Writers : CommitInv(w)'
    BY <1>1, CommitStep
  <1>6. NamesInv'
    BY <1>1, NamesStep
  <1> QED BY <1>2, <1>3, <1>4, <1>5, <1>6 DEF WriterInv, NamesInv

\* The invariant of the writers, their files and the directory holds in every
\* reachable state.
THEOREM WriterInvariant == Spec => []WriterInv
  BY WriterInit, WriterStep, PTL DEF Spec

\* finish never assembles a file that its own reader refuses: when it reopens
\* the file, the name still refers to it and every check of WeightReader holds.
THEOREM WriterFilesVerify == Spec => []FinishedFilesVerify
  <1>1. WriterInv => FinishedFilesVerify
    <2> SUFFICES ASSUME WriterInv, NEW w \in Writers, pc[w] = "verify"
                 PROVE  tmp[path[w]["final"]] = <<w, "final">> /\ Readable(file[w])
      BY DEF FinishedFilesVerify
    <2>1. Readable(file[w])
      BY AssembledReadable DEF WriterInv
    <2>2. tmp[path[w]["final"]] = <<w, "final">>
      BY DEF WriterInv, NameInv, Assembling
    <2> QED BY <2>1, <2>2
  <1> QED BY <1>1, WriterInvariant, PTL

\* What finish tells its caller is true of the destination, for any writers,
\* programs and crashes that meet there.
THEOREM WriterOutcomeTruthful == Spec => []OutcomeTruthful
  <1>1. WriterInv => OutcomeTruthful
    BY DEF WriterInv, CommitInv, OutcomeTruthful
  <1> QED BY <1>1, WriterInvariant, PTL

\* A temporary file that no removal failed on and no crash left belongs to a
\* writer at work.
THEOREM WriterNothingLeftBehind == Spec => []NothingLeftBehind
  <1>1. WriterInv => NothingLeftBehind
    BY DEF WriterInv
  <1> QED BY <1>1, WriterInvariant, PTL

\* No step replaces a destination or writes to the file published under it.
THEOREM WriterPublicationFinal == Spec => PublicationFinal
  <1>1. ASSUME WriterInv, [Next]_vars, dest # NoFile
        PROVE  dest' = dest /\ (dest \in Writers => file'[dest] = file[dest])
    <2>1. ASSUME NEW w \in Writers, Step(w)
          PROVE  dest' = dest /\ (dest \in Writers => file'[dest] = file[dest])
      <3>1. ~Publish(w)
        BY <1>1 DEF Publish
      <3>2. dest' = dest
        BY <1>1, <2>1, <3>1, StepFrame DEF WriterInv
      <3>3. ASSUME dest \in Writers PROVE file'[dest] = file[dest]
        <4>1. CASE dest # w
          BY <1>1, <2>1, <3>3, <4>1, OthersUntouched DEF WriterInv
        <4>2. CASE dest = w
          <5>1. pc[w] \in {"report", "done", "dead"}
            BY <1>1, <4>2 DEF WriterInv, CommitInv
          <5>2. ~WriteCatalog(w) /\ ~CopyPayload(w) /\ ~WriteHeader(w)
            BY <5>1 DEF WriteCatalog, CopyPayload, WriteHeader
          <5> QED BY <1>1, <2>1, <5>2, StepFrame DEF WriterInv
        <4> QED BY <4>1, <4>2
      <3> QED BY <3>2, <3>3
    <2>2. CASE Crash \/ OtherCreates \/ UNCHANGED vars
      BY <1>1, <2>2 DEF Crash, OtherCreates, vars, disk
    <2> QED BY <1>1, <2>1, <2>2 DEF Next
  <1>2. WriterInv /\ [Next]_vars =>
          [dest # NoFile => /\ dest' = dest
                            /\ dest \in Writers => file'[dest] = file[dest]]_vars
    BY <1>1
  <1> QED BY <1>2, WriterInvariant, PTL DEF Spec, PublicationFinal
================================================================================
