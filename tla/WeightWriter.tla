---------------------------- MODULE WeightWriter ----------------------------
(***************************************************************************)
(* The transactional writer of model-weight files (BMLGGUF), in            *)
(* crates/model-weights.  A caller declares tensors, hands over their      *)
(* weights block by block, and finishes.  The blocks go to a spool file;   *)
(* finish() assembles a second temporary file, reopens it with the reader  *)
(* that every consumer uses, and publishes it under its final name with a  *)
(* hard link.                                                              *)
(*                                                                         *)
(* The writers are the ones of a process with one destination in common.   *)
(* The process may crash and be started again with the process id it had,  *)
(* so its counter of temporary names starts over among the files it left   *)
(* behind; another program may create the destination at any moment.       *)
(*                                                                         *)
(* A weight is not a value here: a block is the range of elements it       *)
(* covers.  The limits on bytes, memory and replay steps depend on the     *)
(* weights, so they are a refusal that may or may not come.                *)
(***************************************************************************)
EXTENDS Integers, Sequences, FiniteSets

CONSTANTS
  Writers,      \* the writers the process creates
  Names,        \* the tensor names callers use
  MaxElements,  \* bound on the elements of a tensor
  MaxTensors,   \* limits.max_tensors
  MaxBlocks,    \* limits.max_blocks
  Attempts,     \* names Temporary::create tries (128 in the code)
  MaxNames,     \* bound on the counter of temporary names
  MaxCrashes,   \* bound on the crashes
  NoFile, Foreign

ASSUME WriterAssumption ==
  /\ {MaxElements, MaxTensors, MaxBlocks, Attempts, MaxNames} \subseteq Nat \ {0}
  /\ MaxCrashes \in Nat
  /\ NoFile # Foreign
  /\ Writers \cap {NoFile, Foreign} = {}

VARIABLES
  pc,        \* where each writer is: "new", between calls ("open"), in create
             \* or finish, "done", or "dead" with its process
  state,     \* WriterState of each
  tensors, blocks, written,   \* the catalogue each keeps in memory
  spooled,   \* what each has written to its spool, block by block
  file,      \* the contents of the final file of each
  path,      \* the temporary name of each one's spool and final file
  tries,     \* names tried so far in the current Temporary::create
  outcome,   \* "ok" when finish returned its report, "failed" for any other end
  tmp,       \* the directory's temporary names: the file each one refers to
  dest,      \* the file the destination refers to
  next,      \* NEXT, the process's counter of temporary names
  crashes,
  stuck      \* names whose last removal failed, or that a crash left behind

memory == <<state, tensors, blocks, written>>
disk == <<tmp, dest, next, stuck>>
vars == <<pc, memory, spooled, file, path, tries, outcome, disk, crashes>>

Kinds == {"spool", "final"}
NoPath == MaxNames
Paths == 0 .. MaxNames - 1
Calls == {"spool", "open", "final", "body", "copy", "header", "verify", "unlink",
          "link", "report"}
Blank == [header |-> FALSE, tensors |-> <<>>, blocks |-> <<>>, payload |-> <<>>]

Init ==
  /\ pc = [w \in Writers |-> "new"]
  /\ state = [w \in Writers |-> "Ready"]
  /\ tensors = [w \in Writers |-> <<>>]
  /\ blocks = [w \in Writers |-> <<>>]
  /\ written = [w \in Writers |-> 0]
  /\ spooled = [w \in Writers |-> <<>>]
  /\ file = [w \in Writers |-> Blank]
  /\ path = [w \in Writers |-> [k \in Kinds |-> NoPath]]
  /\ tries = [w \in Writers |-> 0]
  /\ outcome = [w \in Writers |-> "none"]
  /\ tmp = [n \in Paths |-> NoFile]
  /\ dest = NoFile
  /\ next = 0
  /\ crashes = 0
  /\ stuck = {}

----------------------------------------------------------------------------
(* WeightReader                                                            *)

\* The number of blocks up to the end of tensor t, as its record states it.
End(f, t) == IF t = 0 THEN 0 ELSE f.tensors[t].first + f.tensors[t].count

\* WeightReader::open, the tensor records: every name once, every tensor with
\* blocks, which follow those of the tensor before it and use all there are.
TensorsCover(f) ==
  /\ \A t, u \in DOMAIN f.tensors : t # u => f.tensors[t].name # f.tensors[u].name
  /\ \A t \in DOMAIN f.tensors : /\ f.tensors[t].count > 0
                                /\ f.tensors[t].first = End(f, t - 1)
  /\ End(f, Len(f.tensors)) = Len(f.blocks)

\* WeightReader::open, the block records: those of a tensor cover its elements
\* in order, without a gap or an overlap.
BlocksCover(f) ==
  LET stop(b) == f.blocks[b].first + f.blocks[b].terms
  IN  \A t \in DOMAIN f.tensors : \A b \in End(f, t - 1) + 1 .. End(f, t) :
        /\ f.blocks[b].tensor = t
        /\ f.blocks[b].terms > 0
        /\ f.blocks[b].first = IF b = End(f, t - 1) + 1 THEN 0 ELSE stop(b - 1)
        /\ b = End(f, t) => stop(b) = f.tensors[t].elements

\* WeightReader::open on a file, as a whole.
Opens(f) ==
  /\ f.header
  /\ f.tensors # <<>> /\ f.blocks # <<>>
  /\ TensorsCover(f)
  /\ BlocksCover(f)

\* open and then verify_all: every block of the payload has the bytes its
\* digest was taken of.
Readable(f) == Opens(f) /\ f.payload = f.blocks

----------------------------------------------------------------------------
(* Temporary files                                                         *)

\* Mutant: only the spool is removed when a writer goes out of scope.
HeldSpool(w) == {path[w]["spool"]} \cap Paths

\* The names writer w still answers for.
Held(w) == {path[w][k] : k \in Kinds} \cap Paths

\* remove_file on the names of N: a removal may fail, which leaves the file
\* (K), and a name that is already gone is no error.
Remove(N, K) ==
  /\ K \subseteq {n \in N : tmp[n] # NoFile}
  /\ tmp' = [n \in Paths |-> IF n \in N \ K THEN NoFile ELSE tmp[n]]
  /\ stuck' = (stuck \ N) \cup K

\* The call returns and the writer goes out of scope: Drop removes its files.
Return(w, result) ==
  /\ pc' = [pc EXCEPT ![w] = "done"]
  /\ outcome' = [outcome EXCEPT ![w] = result]
  /\ \E K \in SUBSET Held(w) : Remove(Held(w), K)
  /\ UNCHANGED <<memory, spooled, file, path, tries, dest, next, crashes>>

\* Temporary::create: one attempt per step.  create_new refuses a name that
\* is taken, and the next name is tried.
TryName(w, kind, then) ==
  /\ pc[w] = kind
  /\ next < MaxNames
  /\ next' = next + 1
  /\ IF tmp[next] = NoFile
     THEN /\ tmp' = [tmp EXCEPT ![next] = <<w, kind>>]
          /\ path' = [path EXCEPT ![w][kind] = next]
          /\ pc' = [pc EXCEPT ![w] = then]
          /\ tries' = [tries EXCEPT ![w] = 0]
     ELSE /\ tries[w] < Attempts - 1
          /\ tries' = [tries EXCEPT ![w] = @ + 1]
          /\ UNCHANGED <<tmp, path, pc>>
  /\ UNCHANGED <<memory, spooled, file, outcome, dest, stuck, crashes>>

\* The last attempt, or an error other than AlreadyExists.
NoName(w, kind) ==
  /\ pc[w] = kind
  /\ next < MaxNames
  /\ tmp[next] # NoFile => tries[w] = Attempts - 1
  /\ next' = next + 1
  /\ pc' = [pc EXCEPT ![w] = "done"]
  /\ outcome' = [outcome EXCEPT ![w] = "failed"]
  /\ \E K \in SUBSET Held(w) : Remove(Held(w), K)
  /\ UNCHANGED <<memory, spooled, file, path, tries, dest, crashes>>

----------------------------------------------------------------------------
(* The calls of WeightWriter                                               *)

\* WeightWriter::create, up to the creation of the spool.
Create(w) ==
  /\ pc[w] = "new"
  /\ \/ /\ dest = NoFile
        /\ pc' = [pc EXCEPT ![w] = "spool"]
        /\ UNCHANGED outcome
     \/ \* DestinationExists, or metadata over a limit
        /\ pc' = [pc EXCEPT ![w] = "done"]
        /\ outcome' = [outcome EXCEPT ![w] = "failed"]
  /\ UNCHANGED <<memory, spooled, file, path, tries, disk, crashes>>

\* poison: the state after a mutating call that failed.
Poisoned(w) ==
  /\ state' = [state EXCEPT ![w] = "Aborted"]
  /\ UNCHANGED <<pc, tensors, blocks, written, file, path, tries, outcome, disk, crashes>>

\* begin_tensor, accepted.
BeginTensor(w, name, elements) ==
  /\ pc[w] = "open"
  /\ state[w] = "Ready"
  /\ Len(tensors[w]) < MaxTensors
  /\ \A t \in DOMAIN tensors[w] : tensors[w][t].name # name
  /\ tensors' = [tensors EXCEPT ![w] = Append(@,
       [name |-> name, elements |-> elements, first |-> Len(blocks[w]), count |-> 0])]
  /\ written' = [written EXCEPT ![w] = 0]
  /\ state' = [state EXCEPT ![w] = "TensorOpen"]
  /\ UNCHANGED <<pc, blocks, spooled, file, path, tries, outcome, disk, crashes>>

\* begin_tensor or write_block, refused before it changed anything: out of
\* order, over a limit, a name used before, more elements than the tensor has.
RefuseCall(w) ==
  /\ pc[w] = "open"
  /\ Poisoned(w)
  /\ UNCHANGED spooled

\* write_block, accepted: every check, the bytes to the spool, the catalogue.
WriteBlock(w, terms) ==
  LET t == Len(tensors[w])
      b == [tensor |-> t, first |-> written[w], terms |-> terms]
  IN  /\ pc[w] = "open"
      /\ state[w] = "TensorOpen"
      /\ written[w] + terms <= tensors[w][t].elements
      /\ Len(blocks[w]) < MaxBlocks
      /\ spooled' = [spooled EXCEPT ![w] = Append(@, b)]
      /\ blocks' = [blocks EXCEPT ![w] = Append(@, b)]
      /\ tensors' = [tensors EXCEPT ![w][t].count = @ + 1]
      /\ written' = [written EXCEPT ![w] = @ + terms]
      /\ UNCHANGED <<pc, state, file, path, tries, outcome, disk, crashes>>

\* write_block, failed in write_all after some of the bytes (a block of no
\* terms stands for a cut-off one).
TornBlock(w) ==
  /\ pc[w] = "open"
  /\ state[w] = "TensorOpen"
  /\ spooled' = [spooled EXCEPT ![w] = Append(@,
       [tensor |-> Len(tensors[w]), first |-> written[w], terms |-> 0])]
  /\ Poisoned(w)

\* Mutant: end_tensor without the check of the tensor's coverage.
EndTensorUnchecked(w) ==
  /\ pc[w] = "open"
  /\ state' = [state EXCEPT ![w] = IF state[w] = "TensorOpen" THEN "Ready" ELSE "Aborted"]
  /\ UNCHANGED <<pc, tensors, blocks, written, spooled, file, path, tries, outcome,
                 disk, crashes>>

\* end_tensor.
EndTensor(w) ==
  /\ pc[w] = "open"
  /\ state' = [state EXCEPT ![w] =
       IF state[w] = "TensorOpen" /\ written[w] = tensors[w][Len(tensors[w])].elements
       THEN "Ready" ELSE "Aborted"]
  /\ UNCHANGED <<pc, tensors, blocks, written, spooled, file, path, tries, outcome,
                 disk, crashes>>

\* abort, a writer that goes out of scope between calls, or a finish that is
\* refused at once: out of order, without a tensor, over a limit.
Abort(w) ==
  /\ pc[w] = "open"
  /\ Return(w, "failed")

----------------------------------------------------------------------------
(* finish                                                                  *)

Goto(w, step) == pc' = [pc EXCEPT ![w] = step]

\* An I/O error, or a limit, in any step of finish before the publication.
FinishFails(w) ==
  /\ pc[w] \in {"body", "copy", "header", "verify", "unlink", "link"}
  /\ Return(w, "failed")

Finish(w) ==
  /\ pc[w] = "open"
  /\ state[w] = "Ready"
  /\ tensors[w] # <<>>
  /\ Goto(w, "final")
  /\ UNCHANGED <<memory, spooled, file, path, tries, outcome, disk, crashes>>

\* 256 zero bytes for the header, then the metadata and the catalogue.
WriteCatalog(w) ==
  /\ pc[w] = "body"
  /\ file' = [file EXCEPT ![w].tensors = tensors[w], ![w].blocks = blocks[w]]
  /\ Goto(w, "copy")
  /\ UNCHANGED <<memory, spooled, path, tries, outcome, disk, crashes>>

\* io::copy from the spool; a length other than payload_bytes is an error.
CopyPayload(w) ==
  /\ pc[w] = "copy"
  /\ Len(spooled[w]) = Len(blocks[w])
  /\ file' = [file EXCEPT ![w].payload = spooled[w]]
  /\ Goto(w, "header")
  /\ UNCHANGED <<memory, spooled, path, tries, outcome, disk, crashes>>

WriteHeader(w) ==
  /\ pc[w] = "header"
  /\ file' = [file EXCEPT ![w].header = TRUE]
  /\ Goto(w, "verify")
  /\ UNCHANGED <<memory, spooled, path, tries, outcome, disk, crashes>>

\* The file is opened again, by its name, and read from end to end.
Verify(w) ==
  LET n == path[w]["final"]
  IN  /\ pc[w] = "verify"
      /\ tmp[n] # NoFile
      /\ tmp[n][2] = "final"
      /\ Readable(file[tmp[n][1]])
      /\ Goto(w, "unlink")
      /\ UNCHANGED <<memory, spooled, file, path, tries, outcome, disk, crashes>>

\* The spool goes before the commit point; an error here ends finish.
RemoveSpool(w) ==
  /\ pc[w] = "unlink"
  /\ Remove({path[w]["spool"]}, {})
  /\ Goto(w, "link")
  /\ UNCHANGED <<memory, spooled, file, path, tries, outcome, dest, next, crashes>>

\* Mutant: rename, which replaces a destination that appeared meanwhile.
PublishReplacing(w) ==
  LET n == path[w]["final"]
  IN  /\ pc[w] = "link"
      /\ tmp[n] # NoFile
      /\ dest' = tmp[n][1]
      /\ Goto(w, "report")
      /\ UNCHANGED <<memory, spooled, file, path, tries, outcome, tmp, next, stuck, crashes>>

\* The commit point: hard_link by name, which never replaces a destination.
Publish(w) ==
  LET n == path[w]["final"]
  IN  /\ pc[w] = "link"
      /\ dest = NoFile
      /\ tmp[n] # NoFile
      /\ dest' = tmp[n][1]
      /\ Goto(w, "report")
      /\ UNCHANGED <<memory, spooled, file, path, tries, outcome, tmp, next, stuck, crashes>>

\* Mutant: the extra name is removed with the error passed on.
ReportCleanup(w) ==
  /\ pc[w] = "report"
  /\ \E result \in {"ok", "failed"} : Return(w, result)

\* The other name goes, as far as it can, and finish returns its report.
Report(w) ==
  /\ pc[w] = "report"
  /\ Return(w, "ok")

----------------------------------------------------------------------------
(* The process and the other programs                                      *)

\* The process dies: its files stay as they are, and the process that takes
\* its id counts its names from 0.
Crash ==
  /\ crashes < MaxCrashes
  /\ crashes' = crashes + 1
  /\ pc' = [w \in Writers |-> IF pc[w] \in Calls THEN "dead" ELSE pc[w]]
  /\ stuck' = {n \in Paths : tmp[n] # NoFile}
  /\ next' = 0
  /\ UNCHANGED <<memory, spooled, file, path, tries, outcome, tmp, dest>>

\* Another program creates the destination.
OtherCreates ==
  /\ dest = NoFile
  /\ dest' = Foreign
  /\ UNCHANGED <<pc, memory, spooled, file, path, tries, outcome, tmp, next, stuck, crashes>>

Step(w) ==
  \/ Create(w)
  \/ TryName(w, "spool", "open") \/ NoName(w, "spool")
  \/ \E name \in Names, n \in 1 .. MaxElements : BeginTensor(w, name, n)
  \/ \E n \in 1 .. MaxElements : WriteBlock(w, n)
  \/ RefuseCall(w) \/ TornBlock(w)
  \/ EndTensor(w)
  \/ Abort(w)
  \/ Finish(w) \/ FinishFails(w)
  \/ TryName(w, "final", "body") \/ NoName(w, "final")
  \/ WriteCatalog(w) \/ CopyPayload(w) \/ WriteHeader(w)
  \/ Verify(w) \/ RemoveSpool(w) \/ Publish(w) \/ Report(w)

Next == (\E w \in Writers : Step(w)) \/ Crash \/ OtherCreates

Spec == Init /\ [][Next]_vars

----------------------------------------------------------------------------
(* Properties                                                              *)

\* The bookkeeping of begin_tensor, write_block and end_tensor agrees with what
\* the reader demands: whatever calls were made, refused or torn, a file that
\* finish has assembled is still under the name it was created with and passes
\* the reader's checks, so finish fails only for I/O, limits or a destination.
FinishedFilesVerify ==
  \A w \in Writers : pc[w] = "verify" =>
    /\ tmp[path[w]["final"]] = <<w, "final">>
    /\ Readable(file[w])

\* What finish says is so: after its report the destination is this writer's
\* file, complete, and after an error from any call it is not, however many
\* writers, programs and crashes met at the commit point.
OutcomeTruthful ==
  \A w \in Writers :
    /\ outcome[w] = "ok" => dest = w
    /\ outcome[w] = "failed" => dest # w
    /\ dest = w => Readable(file[w]) /\ file[w].blocks = blocks[w]

\* A published destination is final: no step replaces it, nor writes to the
\* file it shares with the temporary name of the writer that published it.
PublicationFinal ==
  [][dest # NoFile => /\ dest' = dest
                      /\ dest \in Writers => file'[dest] = file[dest]]_vars

\* A temporary file outlives its writer only when its removal failed or the
\* process died: any other one belongs to a writer that is still at work.
NothingLeftBehind ==
  \A n \in Paths \ stuck : tmp[n] # NoFile =>
    \E w \in Writers, k \in Kinds :
      /\ tmp[n] = <<w, k>>
      /\ path[w][k] = n
      /\ pc[w] \in Calls
=============================================================================
