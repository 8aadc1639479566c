------------------------------- MODULE Codec -------------------------------
(***************************************************************************)
(* The protobuf code generated for every message of the repository (the    *)
(* files *.pb.go): Size, MarshalToSizedBuffer, Marshal, Unmarshal and the  *)
(* helpers encodeVarint, sov and skip, which differ between messages only  *)
(* in their fields.  Marshal writes backwards into a buffer of Size bytes. *)
(*                                                                         *)
(* A value of a message type is a record of its fields: numbers, Booleans, *)
(* sequences of bytes, records, and for a pointer or a repeated field a    *)
(* sequence (empty for nil).  Indexes into a buffer start at 0, as in Go.  *)
(* The width of integers is scaled down: WordBits for 64, HalfBits for 32; *)
(* WordBits is one more than a multiple of 7, as 64 is.                    *)
(***************************************************************************)
EXTENDS Integers, Sequences, SequencesExt, FiniteSets, FiniteSetsExt,
        ProtoFields

CONSTANTS WordBits, HalfBits

ASSUME CodecAssumption ==
    /\ WordBits \in Nat /\ WordBits % 7 = 1
    /\ HalfBits \in 8..WordBits

Word == 2 ^ WordBits
Half == 2 ^ HalfBits

\* x as a signed integer of the width.
Signed(x, width) ==
    LET y == x % width IN IF y < width \div 2 THEN y ELSE y - width

Numbers == {"uint64", "uint32", "int64", "enum", "bool"}

\* The names of the fields in the order of their numbers.
InOrder(type) ==
    [k \in 1..Cardinality(DOMAIN type) |->
        CHOOSE f \in DOMAIN type :
            Cardinality({g \in DOMAIN type : type[g].num <= type[f].num}) = k]

-----------------------------------------------------------------------------
(* Encoding *)

\* math/bits.Len64
RECURSIVE BitLen(_)
BitLen(x) == IF x = 0 THEN 0 ELSE 1 + BitLen(x \div 2)

\* Mutant: one byte too many for a number of exactly 7 bits.
sovRoundedUp(x) == (BitLen(IF x = 0 THEN 1 ELSE x) + 7) \div 7
\* The bytes of a varint; x|1 has the length of x, except for zero.
sov(x) == (BitLen(IF x = 0 THEN 1 ELSE x) + 6) \div 7

RECURSIVE Varint(_)
Varint(v) ==
    IF v >= 128 THEN <<(v % 128) + 128>> \o Varint(v \div 128) ELSE <<v>>

Zeros(n) == [i \in 1..n |-> 0]

\* sov decides where the varint starts, before what has been written already.
encodeVarint(written, v) ==
    LET b   == Varint(v)
        gap == sov(v) - Len(b)
    IN  IF gap >= 0
        THEN b \o Zeros(gap) \o written
        ELSE b \o SubSeq(written, 1 - gap, Len(written))

Bits(f, x) == IF f.kind = "bool" THEN (IF x THEN 1 ELSE 0) ELSE x % Word

\* What is written of a field: nothing of the zero value of proto3, every
\* element of a repeated field, and a custom type or struct in any case.
Items(f, x) ==
    CASE f.repeated \/ f.kind = "pointer"    -> x
      [] f.kind \in {"value", "custom"}      -> <<x>>
      [] f.kind \in {"text", "packed"}       -> IF x = <<>> THEN <<>> ELSE <<x>>
      [] f.kind \in Numbers                  -> IF Bits(f, x) = 0 THEN <<>> ELSE <<x>>

\* The tag of a field is written as literal bytes, without sov.
WireType(f) == IF f.kind \in Numbers THEN 0 ELSE 2
Tag(f) == Varint(8 * f.num + WireType(f))

\* The text of sdk.Dec and sdk.Int; a nil one is written as 0.
CustomMarshal(x) == IF x = <<>> THEN <<48>> ELSE x

RECURSIVE MarshalToSizedBuffer(_, _)
Delimited(f, x, written) ==
    LET body == CASE f.kind = "text"   -> x
                  [] f.kind = "custom" -> CustomMarshal(x)
                  [] f.kind = "packed" -> FlattenSeq([k \in DOMAIN x |-> Varint(x[k])])
                  [] OTHER             -> MarshalToSizedBuffer(f.type, x)
    IN  encodeVarint(body \o written, Len(body))

WriteItem(f, x, written) ==
    Tag(f) \o (IF f.kind \in Numbers THEN encodeVarint(written, Bits(f, x))
               ELSE Delimited(f, x, written))

WriteField(f, x, written) ==
    FoldRight(LAMBDA item, w : WriteItem(f, item, w), Items(f, x), written)

\* From the last field and the end of the buffer to the first.
MarshalToSizedBuffer(type, m) ==
    FoldRight(LAMBDA name, w : WriteField(type[name], m[name], w),
              InOrder(type), <<>>)

RECURSIVE Size(_, _)
BodySize(f, x) ==
    CASE f.kind = "text"   -> Len(x)
      [] f.kind = "custom" -> Len(CustomMarshal(x))
      [] f.kind = "packed" -> FoldLeft(LAMBDA n, e : n + sov(e), 0, x)
      [] OTHER             -> Size(f.type, x)

ItemSize(f, x) ==
    IF f.kind \in Numbers THEN Len(Tag(f)) + sov(Bits(f, x))
    ELSE LET l == BodySize(f, x) IN Len(Tag(f)) + l + sov(l)

Size(type, m) ==
    FoldLeft(LAMBDA n, name :
               FoldLeft(LAMBDA k, x : k + ItemSize(type[name], x), n,
                        Items(type[name], m[name])),
             0, InOrder(type))

\* Marshal returns as many bytes from the front of the buffer as were written
\* from its end.
Marshal(type, m) ==
    LET written == MarshalToSizedBuffer(type, m)
        buffer  == Zeros(Size(type, m) - Len(written)) \o written
    IN  SubSeq(buffer, 1, Len(written))

-----------------------------------------------------------------------------
(* Decoding.  A step yields a value and the next index, or an error; an index *)
(* or a slice out of range is the error "panic".                              *)

Ok(v, i) == [ok |-> TRUE, v |-> v, i |-> i]
Fail(e)  == [ok |-> FALSE, v |-> e, i |-> 0]

\* Mutant: the end of the buffer is not noticed.
NeverAtEnd(d, i) == FALSE
AtEnd(d, i) == i >= Len(d)

RECURSIVE VarintFrom(_, _, _, _)
VarintFrom(d, i, shift, v) ==
    IF shift >= WordBits THEN Fail("overflow")
    ELSE IF AtEnd(d, i) THEN Fail("EOF")
    ELSE IF i >= Len(d) THEN Fail("panic")
    ELSE LET b == d[i + 1]
             w == (v + (b % 128) * 2 ^ shift) % Word
         IN  IF b < 128 THEN Ok(w, i + 1) ELSE VarintFrom(d, i + 1, shift + 7, w)

ReadVarint(d, i) == VarintFrom(d, i, 0, 0)

Slice(d, i, post) ==
    IF i <= post /\ post <= Len(d) THEN Ok(SubSeq(d, i + 1, post), post)
    ELSE Fail("panic")

\* Mutant: bytes that are missing are not noticed.
ReadWhatIsThere(d, i) ==
    LET r    == ReadVarint(d, i)
        post == IF r.ok THEN Min({r.i + Signed(r.v, Word), Len(d)}) ELSE 0
    IN  IF ~ r.ok THEN r ELSE Slice(d, r.i, post)
\* A length and the bytes that follow it.
ReadDelimited(d, i) ==
    LET r    == ReadVarint(d, i)
        n    == Signed(r.v, Word)
        post == Signed(r.i + n, Word)
    IN  IF ~ r.ok THEN r
        ELSE IF n < 0 \/ post < 0 THEN Fail("length")
        ELSE IF post > Len(d) THEN Fail("EOF")
        ELSE Slice(d, r.i, post)

SkipDelimited(d, i) ==
    LET r == ReadVarint(d, i)
        n == Signed(r.v, Word)
    IN  IF ~ r.ok THEN r
        ELSE IF n < 0 THEN Fail("length") ELSE Ok(0, Signed(r.i + n, Word))

\* Mutant: only the tag of a field of 4 bytes is skipped.
FixedAsNothing(wireType) == IF wireType = 1 THEN 8 ELSE 0
FixedWidth(wireType) == IF wireType = 1 THEN 8 ELSE 4

\* One field, or a group with all that is in it.
RECURSIVE SkipFrom(_, _, _)
SkipFrom(d, i, depth) ==
    LET tag      == ReadVarint(d, i)
        wireType == tag.v % 8
        next     == CASE wireType = 0 -> ReadVarint(d, tag.i)
                      [] wireType = 2 -> SkipDelimited(d, tag.i)
                      [] wireType = 3 -> Ok(0, tag.i)
                      [] wireType = 4 -> IF depth = 0 THEN Fail("group")
                                         ELSE Ok(0, tag.i)
                      [] wireType \in {1, 5} -> Ok(0, tag.i + FixedWidth(wireType))
                      [] OTHER -> Fail("wiretype")
        level    == CASE wireType = 3 -> depth + 1
                      [] wireType = 4 -> depth - 1
                      [] OTHER        -> depth
    IN  IF i >= Len(d) THEN Fail("EOF")
        ELSE IF ~ tag.ok THEN tag
        ELSE IF ~ next.ok THEN next
        ELSE IF next.i < 0 THEN Fail("length")
        ELSE IF level = 0 THEN next ELSE SkipFrom(d, next.i, level)

\* The default case of Unmarshal.
SkipField(d, pre) ==
    LET r    == SkipFrom(SubSeq(d, pre + 1, Len(d)), 0, 0)
        post == Signed(pre + r.i, Word)
    IN  IF ~ r.ok THEN r
        ELSE IF r.i < 0 \/ post < 0 THEN Fail("length")
        ELSE IF post > Len(d) THEN Fail("EOF") ELSE Ok(0, post)

\* Mutant: the bits of a uint32 beyond its width are kept.
AsRead(f, w) ==
    CASE f.kind = "bool" -> w # 0
      [] f.kind = "int64" -> Signed(w, Word)
      [] OTHER -> w
Converted(f, w) ==
    CASE f.kind = "uint64" -> w
      [] f.kind = "uint32" -> w % Half
      [] f.kind = "int64"  -> Signed(w, Word)
      [] f.kind = "enum"   -> Signed(w, Half)
      [] f.kind = "bool"   -> w # 0

\* Unmarshal of sdk.Dec and sdk.Int: no text changes nothing.
CustomUnmarshal(old, text) ==
    IF text = <<>> THEN Ok(old, 0)
    ELSE IF \A k \in DOMAIN text : text[k] \in 48..57 THEN Ok(text, 0)
    ELSE Fail("text")

Zero(f, struct) ==
    CASE f.kind = "bool"  -> FALSE
      [] f.kind = "value" -> struct
      [] f.kind \in Numbers \ {"bool"} -> 0
      [] OTHER -> <<>>

RECURSIVE New(_)
New(type) == [name \in DOMAIN type |-> Zero(type[name], New(type[name].type))]

\* The elements of a packed field: each within the whole buffer.
RECURSIVE ReadPacked(_, _, _, _)
ReadPacked(d, i, post, elements) ==
    IF i >= post THEN Ok(elements, i)
    ELSE LET r == ReadVarint(d, i)
         IN  IF ~ r.ok THEN r ELSE ReadPacked(d, r.i, post, Append(elements, r.v))

RECURSIVE UnmarshalFrom(_, _, _, _)

\* The value of a field from the bytes of one item and the value it has.
ReadBody(f, old, body) ==
    CASE f.kind = "text" -> Ok(IF f.repeated THEN Append(old, body) ELSE body, 0)
      [] f.kind = "custom" -> CustomUnmarshal(old, body)
      [] f.kind = "value"  -> UnmarshalFrom(f.type, body, 0, old)
      [] f.kind = "pointer" ->
            LET r == UnmarshalFrom(f.type, body, 0,
                                   IF old = <<>> THEN New(f.type) ELSE old[1])
            IN  IF r.ok THEN Ok(<<r.v>>, 0) ELSE r
      [] f.kind = "message" ->
            LET r == UnmarshalFrom(f.type, body, 0, New(f.type))
            IN  IF r.ok THEN Ok(Append(old, r.v), 0) ELSE r

\* The case of Unmarshal for a field.
ReadField(f, wireType, d, i, old) ==
    CASE f.kind \in Numbers \/ (f.kind = "packed" /\ wireType = 0) ->
            LET r == ReadVarint(d, i)
            IN  IF wireType # 0 THEN Fail("wiretype")
                ELSE IF ~ r.ok THEN r
                ELSE IF f.kind = "packed" THEN Ok(Append(old, r.v), r.i)
                ELSE Ok(Converted(f, r.v), r.i)
      [] OTHER ->
            LET r == ReadDelimited(d, i)
                s == IF f.kind = "packed"
                     THEN ReadPacked(d, r.i - Len(r.v), r.i, old)
                     ELSE ReadBody(f, old, r.v)
            IN  IF wireType # 2 THEN Fail("wiretype")
                ELSE IF ~ r.ok THEN r
                ELSE IF ~ s.ok THEN s
                ELSE IF f.kind = "packed" THEN s ELSE Ok(s.v, r.i)

\* The loop of Unmarshal, for the message m decoded so far.
UnmarshalFrom(type, d, i, m) ==
    IF i > Len(d) THEN Fail("EOF")
    ELSE IF i = Len(d) THEN Ok(m, i)
    ELSE LET tag      == ReadVarint(d, i)
             num      == Signed(tag.v \div 8, Half)
             wireType == tag.v % 8
             names    == {f \in DOMAIN type : type[f].num = num}
             name     == CHOOSE f \in names : TRUE
             r == IF names = {} THEN SkipField(d, i)
                  ELSE ReadField(type[name], wireType, d, tag.i, m[name])
         IN  IF ~ tag.ok THEN tag
             ELSE IF wireType = 4 THEN Fail("group")
             ELSE IF num <= 0 THEN Fail("tag")
             ELSE IF ~ r.ok THEN r
             ELSE UnmarshalFrom(type, d, r.i,
                    IF names = {} THEN m ELSE [m EXCEPT ![name] = r.v])

Unmarshal(type, d) == UnmarshalFrom(type, d, 0, New(type))
=============================================================================
