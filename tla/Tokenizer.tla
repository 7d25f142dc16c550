----------------------------- MODULE Tokenizer -----------------------------
(***************************************************************************)
(* The SentencePiece tokenizer of the `llama' profile (inference/src/      *)
(* tokenizer.rs) and the vocabulary the command line wraps around it       *)
(* (compiler/src/tokenizer.rs).  A text is a sequence of characters, Utf8  *)
(* gives the bytes of each; a spelling such as <s> or <0x61> that no text  *)
(* of the model can contain is one character of its own.                   *)
(***************************************************************************)
EXTENDS Integers, Sequences, FiniteSets, SequencesExt

CONSTANT Utf8                    \* the bytes of every character

Blank == " "
Space == "U+2581"
Kinds == {"normal", "unknown", "control", "user", "unused", "byte"}
NoByte == 0 - 1
NoId == 0 - 1

AllBytes == UNION {ToSet(Utf8[c]) : c \in DOMAIN Utf8}
Text8(text) == FlattenSeq([i \in DOMAIN text |-> Utf8[text[i]]])

(***************************************************************************)
(* A vocabulary: tokens is the sequence of [text, score, finite, kind,     *)
(* byte] in token-ID order (IDs count from 0), byte being what the         *)
(* spelling <0xXX> stands for, or NoByte.                                  *)
(***************************************************************************)
KindAt(spec, id) == IF id + 1 \in DOMAIN spec.tokens THEN spec.tokens[id + 1].kind ELSE "none"

validate(spec) ==
    LET ids == DOMAIN spec.tokens
        T(i) == spec.tokens[i] IN
    /\ ids /= {} /\ spec.sameLengths
    /\ \A i \in ids : T(i).text /= <<>> /\ T(i).finite /\ T(i).kind \in Kinds
    /\ \A i, j \in ids : T(i).text = T(j).text => i = j
    /\ \A i \in ids : T(i).kind = "byte" => T(i).byte /= NoByte
    /\ \A b \in AllBytes : \E i \in ids : T(i).kind = "byte" /\ T(i).byte = b
    /\ KindAt(spec, spec.bos) = "control"
    /\ KindAt(spec, spec.eos) = "control"
    /\ KindAt(spec, spec.unk) = "unknown"

\* Tokenizer::new: lookups by spelling and by byte (the last one wins), and the
\* user-defined tokens, the longest spelling first.
IdOf(spec, piece) ==
    LET hits == {i \in DOMAIN spec.tokens : spec.tokens[i].text = piece}
    IN IF hits = {} THEN NoId ELSE (CHOOSE i \in hits : \A j \in hits : j <= i) - 1

ByteId(spec, b) ==
    LET hits == {i \in DOMAIN spec.tokens :
                    spec.tokens[i].kind = "byte" /\ spec.tokens[i].byte = b}
    IN (CHOOSE i \in hits : \A j \in hits : j <= i) - 1

UserDefined(spec) ==
    LET Size(i) == Len(Text8(spec.tokens[i].text))
        users == {i \in DOMAIN spec.tokens : spec.tokens[i].kind = "user"}
    IN SetToSortSeq(users, LAMBDA i, j : Size(i) > Size(j) \/ (Size(i) = Size(j) /\ i < j))

(***************************************************************************)
(* partition: the text cut at every user-defined spelling, longer          *)
(* spellings first, each one left to right without overlap.                *)
(***************************************************************************)
Special(id) == [special |-> id, text |-> <<>>]
Plain(text) == [special |-> NoId, text |-> text]
Ordinary(text) == IF text = <<>> THEN <<>> ELSE <<Plain(text)>>

MatchAt(text, spelling, i) ==
    /\ i + Len(spelling) - 1 <= Len(text)
    /\ SubSeq(text, i, i + Len(spelling) - 1) = spelling

RECURSIVE Cut(_, _, _, _)
Cut(text, spelling, id, i) ==
    IF i > Len(text) THEN Ordinary(text)
    ELSE IF MatchAt(text, spelling, i)
    THEN Ordinary(SubSeq(text, 1, i - 1)) \o <<Special(id)>>
            \o Cut(SubSeq(text, i + Len(spelling), Len(text)), spelling, id, 1)
    ELSE Cut(text, spelling, id, i + 1)

RECURSIVE PartitionBy(_, _, _)
PartitionBy(spec, users, fragments) ==
    IF users = <<>> THEN fragments
    ELSE PartitionBy(spec, Tail(users),
            FlattenSeq([f \in DOMAIN fragments |->
                IF fragments[f].special /= NoId THEN <<fragments[f]>>
                ELSE Cut(fragments[f].text, spec.tokens[Head(users)].text, Head(users) - 1, 1)]))

partition(spec, text) == PartitionBy(spec, UserDefined(spec), Ordinary(text))

(***************************************************************************)
(* merge: the symbols are a linked list over the characters, the           *)
(* candidates a heap of adjacent pairs.  A popped pair that no longer      *)
(* describes two neighbours of that total length is stale and ignored.     *)
(***************************************************************************)
None == 0

candidate(spec, text, sym, left, right) ==
    LET id == IdOf(spec, SubSeq(text, sym[left].start, sym[right].end)) IN
    IF id = NoId THEN {}
    ELSE {[score |-> spec.tokens[id + 1].score, left |-> left, right |-> right,
           length |-> sym[right].end - sym[left].start]}

\* impl Ord for Pair: the highest score, then the leftmost pair.
PopsBefore(p, q) ==
    \/ p.score > q.score
    \/ p.score = q.score /\ p.left < q.left
    \/ p.score = q.score /\ p.left = q.left /\ p.right < q.right
    \/ p.score = q.score /\ p.left = q.left /\ p.right = q.right /\ p.length >= q.length

\* A heap that trusts its candidates (a mutant of Fresh).
FreshIfActive(sym, pair) == sym[pair.left].active /\ sym[pair.right].active

Fresh(sym, pair) ==
    /\ sym[pair.left].active /\ sym[pair.right].active
    /\ sym[pair.left].next = pair.right
    /\ sym[pair.right].end - sym[pair.left].start = pair.length

Joined(sym, left, right) ==
    [i \in DOMAIN sym |->
        IF i = left THEN [sym[i] EXCEPT !.end = sym[right].end, !.next = sym[right].next]
        ELSE IF i = right THEN [sym[i] EXCEPT !.active = FALSE]
        ELSE IF i = sym[right].next THEN [sym[i] EXCEPT !.previous = left]
        ELSE sym[i]]

RECURSIVE MergeLoop(_, _, _, _)
MergeLoop(spec, text, sym, heap) ==
    IF heap = {} THEN sym
    ELSE LET pair == CHOOSE p \in heap : \A q \in heap : PopsBefore(p, q)
             rest == heap \ {pair} IN
         IF ~Fresh(sym, pair) THEN MergeLoop(spec, text, sym, rest)
         ELSE LET new == Joined(sym, pair.left, pair.right)
                  next == new[pair.left].next
                  previous == new[pair.left].previous
              IN MergeLoop(spec, text, new, rest
                    \cup (IF next = None THEN {} ELSE candidate(spec, text, new, pair.left, next))
                    \cup (IF previous = None THEN {}
                          ELSE candidate(spec, text, new, previous, pair.left)))

PieceIds(spec, piece) ==
    IF IdOf(spec, piece) /= NoId THEN <<IdOf(spec, piece)>>
    ELSE [k \in DOMAIN Text8(piece) |-> ByteId(spec, Text8(piece)[k])]

merge(spec, text) ==
    LET n == Len(text)
        sym == [i \in 1..n |-> [start |-> i, end |-> i, previous |-> i - 1,
                                next |-> IF i = n THEN None ELSE i + 1, active |-> TRUE]]
        heap == UNION {candidate(spec, text, sym, i, i + 1) : i \in 1..(n - 1)}
        done == SelectSeq(MergeLoop(spec, text, sym, heap), LAMBDA s : s.active)
    IN FlattenSeq([k \in DOMAIN done |->
            PieceIds(spec, SubSeq(text, done[k].start, done[k].end))])

\* The fragment as merge sees it: blanks escaped, and a space in front of a
\* fragment that starts the text or follows a user-defined token.
Normalized(spec, fragments, k) ==
    (IF (k = 1 \/ fragments[k - 1].special /= NoId) /\ spec.addSpacePrefix
     THEN <<Space>> ELSE <<>>)
    \o [i \in DOMAIN fragments[k].text |->
            IF fragments[k].text[i] = Blank THEN Space ELSE fragments[k].text[i]]

encode(spec, text, addSpecial) ==
    LET parts == partition(spec, text) IN
    (IF addSpecial /\ spec.addBos THEN <<spec.bos>> ELSE <<>>)
    \o FlattenSeq([k \in DOMAIN parts |->
            IF parts[k].special /= NoId THEN <<parts[k].special>>
            ELSE merge(spec, Normalized(spec, parts, k))])
    \o (IF addSpecial /\ spec.addEos THEN <<spec.eos>> ELSE <<>>)

(***************************************************************************)
(* token_piece_bytes and decode_bytes.  An ID outside the vocabulary is an *)
(* error.                                                                  *)
(***************************************************************************)
InVocabulary(spec, ids) == \A k \in DOMAIN ids : ids[k] + 1 \in DOMAIN spec.tokens

token_piece_bytes(spec, id, skipSpecial) ==
    LET token == spec.tokens[id + 1] IN
    CASE token.kind = "normal" ->
            Text8([i \in DOMAIN token.text |->
                    IF token.text[i] = Space THEN Blank ELSE token.text[i]])
      [] token.kind = "byte" -> <<token.byte>>
      [] token.kind = "unused" -> <<>>
      [] token.kind \in {"unknown", "control"} /\ skipSpecial -> <<>>
      [] OTHER -> Text8(token.text)

decode_bytes(spec, ids, skipSpecial) ==
    LET skipBos == skipSpecial /\ spec.addBos /\ ids /= <<>> /\ ids[1] = spec.bos
        tail == IF skipBos THEN Tail(ids) ELSE ids
        skipEos == skipSpecial /\ spec.addEos /\ tail /= <<>> /\ Last(tail) = spec.eos
        body == IF skipEos THEN Front(tail) ELSE tail
        pieces == [k \in DOMAIN body |-> token_piece_bytes(spec, body[k], skipSpecial)]
        trim == spec.addSpacePrefix /\ ~skipBos /\ pieces /= <<>>
                    /\ pieces[1] /= <<>> /\ pieces[1][1] = Utf8[Blank][1]
    IN FlattenSeq([k \in DOMAIN pieces |->
            IF k = 1 /\ trim THEN Tail(pieces[1]) ELSE pieces[k]])

(***************************************************************************)
(* Reference: join, again and again, the neighbours whose joint spelling   *)
(* scores highest, the leftmost of them on a tie.                          *)
(***************************************************************************)
RECURSIVE ReferencePieces(_, _)
ReferencePieces(spec, pieces) ==
    LET Id(i) == IdOf(spec, pieces[i] \o pieces[i + 1])
        Score(i) == spec.tokens[Id(i) + 1].score
        open == {i \in 1..(Len(pieces) - 1) : Id(i) /= NoId} IN
    IF open = {} THEN pieces
    ELSE LET i == CHOOSE x \in open : \A y \in open :
                    Score(x) > Score(y) \/ (Score(x) = Score(y) /\ x <= y)
         IN ReferencePieces(spec, SubSeq(pieces, 1, i - 1) \o <<pieces[i] \o pieces[i + 1]>>
                                    \o SubSeq(pieces, i + 2, Len(pieces)))

ReferenceMerge(spec, text) ==
    LET pieces == ReferencePieces(spec, [i \in DOMAIN text |-> <<text[i]>>])
    IN FlattenSeq([k \in DOMAIN pieces |-> PieceIds(spec, pieces[k])])

\* The bytes that must come back: the text with the spaces its policy adds.
ReferenceBytes(spec, text, special) ==
    LET parts == partition(spec, text)
        bytes == FlattenSeq([k \in DOMAIN parts |->
            IF parts[k].special /= NoId THEN Text8(spec.tokens[parts[k].special + 1].text)
            ELSE LET t == Normalized(spec, parts, k)
                 IN Text8([i \in DOMAIN t |-> IF t[i] = Space THEN Blank ELSE t[i]])])
        prefixed == spec.addSpacePrefix /\ parts /= <<>> /\ parts[1].special = NoId
    IN IF prefixed /\ ~(special /\ spec.addBos) THEN Tail(bytes) ELSE bytes
=============================================================================
