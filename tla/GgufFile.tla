------------------------------ MODULE GgufFile ------------------------------
(***************************************************************************)
(* The GGUF parser: one cursor over the bytes of the file, the metadata    *)
(* loop, the table of tensors, then the configuration taken from the       *)
(* metadata.  The bytes are abstracted to what a read returns: any value   *)
(* of the sets below, as long as the file is long enough.  Lengths and     *)
(* positions are in bytes.  A count or length read from the file is a     *)
(* member of Count or StrLen, where Many stands for every number larger than the file is long: *)
(* a loop counter that starts at Many never gets to zero.                  *)
(***************************************************************************)
EXTENDS Integers, Sequences, SequencesExt, FiniteSetsExt, Bitwise

CONSTANTS FileLen,   \* lengths of the file
          KeysAt,    \* keys the i-th metadata entry may have
          TypesAt,   \* value types the i-th metadata entry may have
          Elements,  \* element types of arrays
          NumAt,     \* values of the number in the i-th metadata entry
          Offsets,   \* values of TensorInfo.offset
          U32,       \* 2^32: a wider number loses its high bits in as_u32
          Count,     \* counts read from the file: entries, array elements, dimensions
          TensorCount,
          StrLen,    \* lengths of strings read from the file
          Many,
          Dims       \* sizes of tensor dimensions

GgufAssumption ==
  /\ FileLen \subseteq Nat /\ Dims \subseteq Nat /\ U32 \in Nat \ {0}
  /\ Many \in Count \cap StrLen /\ \A l \in FileLen : Many > l

VARIABLES len, pos,
          pc,        \* header, key, value, array, tensors, done or failed
          left,      \* entries of the current table still to read
          tensorCount,
          key,       \* key of the entry being read
          arrays,    \* arrays being read, the innermost last
          metadata, tensors, config, tensorDataOffset,
          reserved,  \* history: the largest capacity reserved
          rounds     \* history: loop iterations begun

vars == <<len, pos, pc, left, tensorCount, key, arrays, metadata, tensors, config,
          tensorDataOffset, reserved, rounds>>

Key == {"alignment", "hidden", "layers", "q_heads", "kv_heads", "ffn", "tokens", "vocab",
        "theta", "eps", "context", "other"}
Absent == [type |-> "none", val |-> 0]

\* Bytes of a value.
Width == [Uint8 |-> 1, Int8 |-> 1, Bool |-> 1, Uint16 |-> 2, Int16 |-> 2, Uint32 |-> 4,
          Int32 |-> 4, Float32 |-> 4, Uint64 |-> 8, Int64 |-> 8, Float64 |-> 8]

Init ==
  /\ len \in FileLen /\ pos = 0 /\ pc = "header" /\ left = 0 /\ tensorCount = 0
  /\ key = "other" /\ arrays = <<>> /\ metadata = [k \in Key |-> Absent]
  /\ tensors = <<>> /\ config = <<>> /\ tensorDataOffset = 0 /\ reserved = 0 /\ rounds = 0

-----------------------------------------------------------------------------
(* Reading.                                                                *)
Minus(n) == IF n = Many THEN Many ELSE n - 1
Remaining(p) == Max({len - p, 0})
Reserve(ns) == reserved' = Max({reserved} \cup ns)

\* variant: what the file says is reserved
CapNone(n, p) == n
Cap(n, p) == Min({n, Remaining(p)})

\* variant: the end of the input is not an error
ReadsLenient(n) == pos' = Min({pos + n, len})
\* A read_exact of n bytes.
Reads(n) == pos + n <= len /\ pos' = pos + n

\* An error ends the parse; the cursor is dropped with it.
Fails == /\ pc' = "failed"
         /\ UNCHANGED <<len, pos, left, tensorCount, key, arrays, metadata, tensors, config,
                        tensorDataOffset>>

\* Length prefix, check against what remains, then the bytes: length of the
\* string that starts after the first n bytes still to read.
FitsString(n, l) == l <= Remaining(pos + n + 8)
ReadsString(n, l) == FitsString(n, l) /\ Reads(n + 8 + l) /\ Reserve({l})

-----------------------------------------------------------------------------
(* Header, metadata.                                                       *)
\* The magic and the version are right, or not.
ReadHeader ==
  /\ pc = "header" /\ UNCHANGED rounds
  /\ \/ /\ \E n \in Count, t \in TensorCount :
             /\ left' = n /\ tensorCount' = t
             /\ Reserve({Cap(n, 24), Cap(t, 24)})
        /\ Reads(24) /\ pc' = "key"
        /\ UNCHANGED <<len, key, arrays, metadata, tensors, config, tensorDataOffset>>
     \/ Fails /\ UNCHANGED reserved

Entry == Cardinality({k \in Key : metadata[k] # Absent}) + 1

ReadKey ==
  /\ pc = "key" /\ left # 0 /\ rounds' = rounds + 1
  /\ \/ \E l \in StrLen, k \in KeysAt[Entry] :
          /\ ReadsString(0, l)
          /\ key' = k /\ pc' = "value"
          /\ UNCHANGED <<len, left, tensorCount, arrays, metadata, tensors, config,
                         tensorDataOffset>>
     \/ Fails /\ UNCHANGED reserved

Insert(v) == metadata' = [metadata EXCEPT ![key] = v] /\ left' = Minus(left) /\ pc' = "key"

\* read_metadata_value: the type code, then the value.  An unknown code, or
\* too short an input, fails.
ReadValue ==
  /\ pc = "value" /\ UNCHANGED rounds
  /\ \/ \E t \in TypesAt[Entry] \cap DOMAIN Width, x \in NumAt[Entry] :
          /\ Reads(4 + Width[t]) /\ Insert([type |-> t, val |-> x])
          /\ UNCHANGED <<len, arrays, reserved, tensorCount, key, tensors, config, tensorDataOffset>>
     \/ \E l \in StrLen :
          /\ "String" \in TypesAt[Entry]
          /\ ReadsString(4, l) /\ Insert([type |-> "String", val |-> 0])
          /\ UNCHANGED <<len, arrays, tensorCount, key, tensors, config, tensorDataOffset>>
     \/ \E e \in Elements, n \in Count :
          /\ "Array" \in TypesAt[Entry]
          /\ Reads(4 + 12) /\ Reserve({Cap(n, pos + 16)})
          /\ arrays' = <<[elem |-> e, left |-> n, size |-> n]>> /\ pc' = "array"
          /\ UNCHANGED <<len, left, tensorCount, key, metadata, tensors, config, tensorDataOffset>>
     \/ Fails /\ UNCHANGED reserved

Top == Last(arrays)
Counted == [arrays EXCEPT ![Len(arrays)].left = Minus(@)]

\* read_typed_value of the next element of the innermost array.
ReadElement ==
  /\ pc = "array" /\ Top.left # 0 /\ rounds' = rounds + 1
  /\ \/ /\ Top.elem \in DOMAIN Width /\ Reads(Width[Top.elem]) /\ arrays' = Counted
        /\ UNCHANGED <<len, pc, reserved, left, tensorCount, key, metadata, tensors, config,
                       tensorDataOffset>>
     \/ \E l \in StrLen :
          /\ Top.elem = "String" /\ ReadsString(0, l) /\ arrays' = Counted
          /\ UNCHANGED <<len, pc, left, tensorCount, key, metadata, tensors, config,
                         tensorDataOffset>>
     \/ \E e \in Elements, n \in Count :
          /\ Top.elem = "Array" /\ Reads(12) /\ Reserve({Cap(n, pos + 12)})
          /\ arrays' = Append(Counted, [elem |-> e, left |-> n, size |-> n])
          /\ UNCHANGED <<len, pc, left, tensorCount, key, metadata, tensors, config,
                         tensorDataOffset>>
     \/ /\ Top.elem \in DOMAIN Width => pos + Width[Top.elem] > len
        /\ Fails /\ UNCHANGED reserved

\* The innermost array is complete; the outermost one is the entry's value.
CloseArray ==
  /\ pc = "array" /\ Top.left = 0 /\ UNCHANGED rounds
  /\ arrays' = Front(arrays)
  /\ IF Len(arrays) = 1 THEN Insert([type |-> "Array", val |-> Top.size])
     ELSE UNCHANGED <<metadata, left, pc>>
  /\ UNCHANGED <<len, pos, tensorCount, key, tensors, config, tensorDataOffset, reserved>>

-----------------------------------------------------------------------------
(* Table of tensors.                                                       *)
MetadataRead ==
  /\ pc = "key" /\ left = 0 /\ UNCHANGED rounds
  /\ pc' = "tensors" /\ left' = tensorCount
  /\ UNCHANGED <<len, pos, tensorCount, key, arrays, metadata, tensors, config,
                 tensorDataOffset, reserved>>

\* The dimensions are stored innermost first.  A dtype code is unknown,
\* unsupported (the quantised ones), or one of DType.
DType == {"FP32", "FP16", "BF16", "INT8"}
ReadTensor ==
  /\ pc = "tensors" /\ left # 0 /\ rounds' = rounds + 1
  /\ \/ \E l \in StrLen, n \in 0 .. 2, d \in DType : \E dims \in [1 .. n -> Dims], o \in Offsets :
          /\ FitsString(0, l) /\ Reads(8 + l + 4 + 8 * n + 4 + 8)
          /\ Reserve({l, Cap(n, 24)})
          /\ tensors' = Append(tensors, [shape |-> Reverse(dims), dtype |-> d, offset |-> o])
          /\ left' = Minus(left)
          /\ UNCHANGED <<len, pc, tensorCount, key, arrays, metadata, config, tensorDataOffset>>
     \/ \E n \in Count : Reserve({Cap(n, 24)}) /\ Fails

-----------------------------------------------------------------------------
(* What the metadata says.                                                 *)
AsU32(v) ==
  IF v.type \in {"Uint32", "Uint64", "Int32", "Uint16", "Uint8"} THEN {v.val % U32} ELSE {}
AsF64(v) == IF v.type \in {"Float64", "Float32"} THEN {v.val} ELSE {}
OrElse(S, default) == IF S = {} THEN default ELSE CHOOSE x \in S : TRUE

GetAlignment(md) == OrElse(AsU32(md["alignment"]), 32)

\* variant: rounds down
AlignOffsetDown(offset, a) == IF a = 0 THEN offset ELSE offset - (offset & (a - 1))
\* (offset + a - 1) & !(a - 1)
AlignOffset(offset, a) ==
  IF a = 0 THEN offset ELSE (offset + a - 1) - ((offset + a - 1) & (a - 1))

VocabSize(md) == IF md["tokens"].type = "Array" THEN {md["tokens"].val} ELSE AsU32(md["vocab"])

\* variant: the heads are not compared
ValidateNoGroups(c) ==
  \A f \in {"hidden", "layers", "q_heads", "kv_heads", "vocab", "ffn", "context"} : c[f] > 0
Validate(c) ==
  /\ \A f \in {"hidden", "layers", "q_heads", "kv_heads", "vocab", "ffn", "context"} : c[f] > 0
  /\ c.head_dim = c.hidden \div c.q_heads
  /\ c.theta > 0 /\ c.eps > 0
  /\ c.q_heads % c.kv_heads = 0

\* The configuration, as a set: empty on an error.
ExtractModelConfig(md) ==
  LET required == {"hidden", "layers", "q_heads", "kv_heads", "ffn"}
      num(k) == OrElse(AsU32(md[k]), 0)
      c == [hidden |-> num("hidden"), layers |-> num("layers"), q_heads |-> num("q_heads"),
            kv_heads |-> num("kv_heads"), ffn |-> num("ffn"), vocab |-> OrElse(VocabSize(md), 0),
            context |-> OrElse(AsU32(md["context"]), 8192),
            theta |-> OrElse(AsF64(md["theta"]), 500000), eps |-> OrElse(AsF64(md["eps"]), 1),
            head_dim |-> IF num("q_heads") = 0 THEN 0 ELSE num("hidden") \div num("q_heads")]
  IN IF (\E k \in required : AsU32(md[k]) = {}) \/ VocabSize(md) = {} \/ c.q_heads = 0 \/ ~Validate(c)
     THEN {} ELSE {c}

Finish ==
  /\ pc = "tensors" /\ left = 0 /\ UNCHANGED rounds
  /\ \/ /\ config' \in ExtractModelConfig(metadata) /\ pc' = "done"
        /\ tensorDataOffset' = AlignOffset(pos, GetAlignment(metadata))
        /\ UNCHANGED <<len, pos, left, tensorCount, key, arrays, metadata, tensors, reserved>>
     \/ ExtractModelConfig(metadata) = {} /\ Fails /\ UNCHANGED reserved

Done == pc \in {"done", "failed"} /\ UNCHANGED vars

Next ==
  ReadHeader \/ ReadKey \/ ReadValue \/ ReadElement \/ CloseArray \/ MetadataRead \/ ReadTensor
  \/ Finish \/ Done

Spec == Init /\ [][Next]_vars

-----------------------------------------------------------------------------
\* However large the counts and lengths in the file, nothing is reserved that
\* is larger than the file (parse_header_bytes, read_gguf_string and
\* read_typed_value cap every with_capacity).
ReservedBounded == reserved <= len

\* No loop outlives its input: every iteration but the one that fails has
\* read at least one byte of its own ("every entry consumes at least one
\* byte"), so a count that no file can hold ends with the file.
WorkBounded == rounds <= pos + 1

\* The data of the tensors starts after the header that describes them, on
\* the next multiple of the file's alignment.
PowerOfTwo(a) == \E i \in 0 .. 16 : a = 2 ^ i
DataPastHeader ==
  pc = "done" =>
    LET a == GetAlignment(metadata)
    IN /\ tensorDataOffset >= pos
       /\ PowerOfTwo(a) => tensorDataOffset % a = 0 /\ tensorDataOffset < pos + a

\* A configuration the parser accepts is one the attention can run with: whole
\* groups of query heads per key-value head, and heads that fit the hidden size.
ConfigServable ==
  pc = "done" =>
    /\ config.q_heads % config.kv_heads = 0 /\ config.q_heads >= config.kv_heads
    /\ config.head_dim * config.q_heads <= config.hidden
    /\ config.vocab > 0 /\ config.context > 0
=============================================================================
