---------------------------- MODULE GgufReader ----------------------------
(***************************************************************************)
(* GgufReader::open (gguf/src/gguf.rs): a file of `bytes' bytes whose      *)
(* header, metadata entries and tensor descriptors are read one after the  *)
(* other, and the ranges of its tensors in the mapped data section.        *)
(*                                                                         *)
(* A metadata entry is [key, type, ok, value, bytes] and a descriptor      *)
(* [name, dims, dtype, offset, bytes, values]: `bytes' is the room the     *)
(* entry takes in the file, `ok' says that its text is UTF-8, its booleans *)
(* are 0 or 1 and its type is known, and `values' are the decoded elements *)
(* (Infinite where an element is not finite), which only decode_f32 may    *)
(* look at.  Lengths keep the 64-bit arithmetic of the code as far as a    *)
(* bound goes: MaxSize stands for usize::MAX.                              *)
(***************************************************************************)
EXTENDS Integers, Sequences, SequencesExt

CONSTANT MaxSize

HeaderBytes == 24
Infinite == 0 - 1

Scalars == {"F32", "F16", "BF16", "I8", "I16", "I32", "I64", "F64"}
Blocked == {"Q4_0", "Q8_0", "Q6_K"}
\* Encodings that are known by name only.
Opaque == {"Q4_1", "Q5_0", "Q5_1", "Q8_1", "Q2_K", "Q3_K", "Q4_K", "Q5_K", "Q8_K",
           "IQ2_XXS", "IQ2_XS", "IQ3_XXS", "IQ1_S", "IQ4_NL", "IQ3_S", "IQ2_S", "IQ4_XS", "IQ1_M"}
TensorTypes == Scalars \cup Blocked \cup Opaque

MetadataTypes == {"u8", "i8", "u16", "i16", "u32", "i32", "f32", "bool", "string",
                  "array", "u64", "i64", "f64"}

element_size(dtype) ==
    CASE dtype \in {"F32", "I32"} -> 4
      [] dtype \in {"F16", "BF16", "I16"} -> 2
      [] dtype = "I8" -> 1
      [] dtype \in {"I64", "F64"} -> 8
      [] OTHER -> 0

supported_layout(dtype) == element_size(dtype) > 0 \/ dtype \in Blocked

\* The (elements, bytes) of one block of an encoding that can be decoded.
Decodable == {"F32", "F16", "Q4_0", "Q8_0", "Q6_K"}
encoding(dtype) ==
    CASE dtype = "F32" -> <<1, 4>> [] dtype = "F16" -> <<1, 2>>
      [] dtype = "Q4_0" -> <<32, 18>> [] dtype = "Q8_0" -> <<32, 34>>
      [] dtype = "Q6_K" -> <<256, 210>>

RECURSIVE Product(_)
Product(dims) == IF dims = <<>> THEN 1 ELSE Head(dims) * Product(Tail(dims))

Overflow == 0 - 1
\* checked_mul / checked_add against usize::MAX.
Fits(n) == IF n > MaxSize THEN Overflow ELSE n

encoded_tensor_len(info) ==
    LET elements == Product(info.dims) IN
    CASE info.dims = <<>> \/ 0 \in ToSet(info.dims) -> Overflow
      [] elements > MaxSize -> Overflow
      [] info.dtype \in Blocked ->
            LET e == encoding(info.dtype)
            IN IF info.dims[1] % e[1] /= 0 THEN Overflow ELSE Fits((elements \div e[1]) * e[2])
      [] element_size(info.dtype) > 0 -> Fits(elements * element_size(info.dtype))
      [] OTHER -> Overflow

\* decode_metadata_kv: the entry lies inside the file, its type is known, its
\* text is UTF-8, a boolean is 0 or 1, and an array holds no arrays.
MetadataReads(file, entry, offset) ==
    /\ offset + entry.bytes <= file.bytes
    /\ entry.type \in MetadataTypes
    /\ entry.ok

\* decode_tensor_info.
TensorInfoReads(file, info, offset) ==
    /\ offset + info.bytes <= file.bytes
    /\ info.ok
    /\ Len(info.dims) \in 1..4
    /\ 0 \notin ToSet(info.dims) /\ Product(info.dims) <= MaxSize
    /\ info.dtype \in TensorTypes

RECURSIVE ReadMetadata(_, _, _, _)
ReadMetadata(file, k, offset, seen) ==
    IF k > file.metadataCount THEN offset
    ELSE IF k > Len(file.metadata) \/ ~MetadataReads(file, file.metadata[k], offset)
            \/ file.metadata[k].key \in seen
    THEN Overflow
    ELSE ReadMetadata(file, k + 1, offset + file.metadata[k].bytes,
                      seen \cup {file.metadata[k].key})

RECURSIVE ReadTensorInfos(_, _, _, _)
ReadTensorInfos(file, k, offset, seen) ==
    IF k > file.tensorCount THEN offset
    ELSE IF k > Len(file.tensors) \/ ~TensorInfoReads(file, file.tensors[k], offset)
            \/ file.tensors[k].name \in seen
    THEN Overflow
    ELSE ReadTensorInfos(file, k + 1, offset + file.tensors[k].bytes,
                         seen \cup {file.tensors[k].name})

\* get_metadata: the entry of a key, or an entry of type "none".
NoEntry == [key |-> <<>>, type |-> "none", ok |-> TRUE, value |-> 0, bytes |-> 0]
get_metadata(file, key) ==
    LET hits == {k \in DOMAIN file.metadata : file.metadata[k].key = key}
    IN IF hits = {} THEN NoEntry ELSE file.metadata[CHOOSE k \in hits : TRUE]

\* general.alignment, or 0 when it is not one the reader accepts.
Alignment(file) ==
    LET entry == get_metadata(file, <<"alignment">>) IN
    CASE entry.type = "none" -> 32
      [] entry.type = "u32" /\ entry.value /= 0 /\ entry.value % 8 = 0 -> entry.value
      [] OTHER -> 0

\* tensor_data: the half-open byte range of a tensor, or <<>> outside the file.
RangeAt(file, start, size) ==
    IF size = Overflow \/ start + size > file.bytes THEN <<>> ELSE <<start, start + size>>

tensor_data(file, dataOffset, info) ==
    RangeAt(file, dataOffset + info.offset, encoded_tensor_len(info))

Rejected == [ok |-> FALSE, dataOffset |-> 0]
open_gguf(file) ==
    LET afterMetadata == ReadMetadata(file, 1, HeaderBytes, {})
        afterInfos == ReadTensorInfos(file, 1, afterMetadata, {})
        alignment == Alignment(file)
        dataOffset == ((afterInfos + alignment - 1) \div alignment) * alignment
    IN IF file.bytes < HeaderBytes \/ ~file.magic \/ file.version \notin 2..3
          \/ afterMetadata = Overflow \/ afterInfos = Overflow \/ alignment = 0
       THEN Rejected
       ELSE IF \E k \in DOMAIN file.tensors :
                LET info == file.tensors[k] IN
                \/ info.offset % alignment /= 0
                \/ supported_layout(info.dtype) /\ tensor_data(file, dataOffset, info) = <<>>
       THEN Rejected
       ELSE [ok |-> TRUE, dataOffset |-> dataOffset]

find_tensor(file, name) ==
    LET hits == {k \in DOMAIN file.tensors : file.tensors[k].name = name}
    IN IF hits = {} THEN 0 ELSE CHOOSE k \in hits : \A j \in hits : k <= j

(***************************************************************************)
(* tensor_view and the decoders.  A view is the descriptor with the length *)
(* of its range; decode_row_f32 returns the row's elements.                *)
(***************************************************************************)
Failed == <<>>
ViewOf(info, range) ==
    [ok |-> range /= <<>>, length |-> IF range = <<>> THEN 0 ELSE range[2] - range[1],
     name |-> info.name, dims |-> info.dims, dtype |-> info.dtype, values |-> info.values]

Views(file, reader) ==
    [k \in DOMAIN file.tensors |->
        ViewOf(file.tensors[k], tensor_data(file, reader.dataOffset, file.tensors[k]))]

\* decode_f32 on `length' bytes for `elements' elements of the encoding.
decode_f32(dtype, length, elements, values) ==
    IF dtype \notin Decodable THEN Failed
    ELSE LET e == encoding(dtype) IN
         IF elements % e[1] /= 0 \/ length /= (elements \div e[1]) * e[2] THEN Failed
         ELSE values

decode_row_f32(view, row) ==
    LET columns == view.dims[1]
        rows == Product(Tail(view.dims)) IN
    IF row >= rows \/ view.length % rows /= 0 THEN Failed
    ELSE decode_f32(view.dtype, view.length \div rows, columns,
                    SubSeq(view.values, row * columns + 1, (row + 1) * columns))

read_tensor_f32(view) ==
    IF ~view.ok THEN Failed
    ELSE decode_f32(view.dtype, view.length, Product(view.dims), view.values)
=============================================================================
