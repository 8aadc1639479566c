----------------------------- MODULE ProtoFields -----------------------------
(***************************************************************************)
(* The fields of protobuf messages, as the generated Go code tells them    *)
(* apart.  A message type is a record of fields; module Codec encodes and  *)
(* decodes the values of a message type.                                   *)
(***************************************************************************)

LOCAL Field(n, kind, repeated, type) ==
    [num |-> n, kind |-> kind, repeated |-> repeated, type |-> type]

NoFields == [f \in {} |-> 0]

\* Numbers: uint64, uint32, int64, enumerations (int32) and bool.
Uint64(n) == Field(n, "uint64", FALSE, NoFields)
Uint32(n) == Field(n, "uint32", FALSE, NoFields)
Int64(n)  == Field(n, "int64", FALSE, NoFields)
Enum(n)   == Field(n, "enum", FALSE, NoFields)
Bool(n)   == Field(n, "bool", FALSE, NoFields)

\* Strings and byte slices, which the codec treats alike.
Text(n)  == Field(n, "text", FALSE, NoFields)
Texts(n) == Field(n, "text", TRUE, NoFields)
Bytes(n) == Field(n, "text", FALSE, NoFields)

\* sdk.Dec and sdk.Int, written as decimal text, always.
Custom(n) == Field(n, "custom", FALSE, NoFields)

\* A nested message: a struct (always written) or a pointer to one.
Value(n, type)    == Field(n, "value", FALSE, type)
Pointer(n, type)  == Field(n, "pointer", FALSE, type)
Messages(n, type) == Field(n, "message", TRUE, type)

\* []uint64
Packed(n) == Field(n, "packed", FALSE, NoFields)
=============================================================================
