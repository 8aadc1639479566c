-------------------------------- MODULE Wire --------------------------------
(***************************************************************************)
(* A message is marshalled by one node or version of the software, and     *)
(* unmarshalled by another after it has been in a store or on the network. *)
(* On the way the bytes may lose their end, have some of them replaced,    *)
(* gain a field of a newer version, or be followed by a second message of  *)
(* the same type.                                                          *)
(***************************************************************************)
EXTENDS Codec

CONSTANTS
    Types,          \* message types
    Later,          \* pairs of a type and the type that replaces it
    UnknownFields,  \* encodings of fields no type has
    Noise           \* bytes that may replace one byte

VARIABLES
    type,           \* the type of the message
    message,        \* what the reader is to decode
    bytes,
    stage,          \* "new", "written" or "read"
    fault,          \* what happened to the bytes
    result          \* what Unmarshal has returned

vars == <<type, message, bytes, stage, fault, result>>

-----------------------------------------------------------------------------
(* Messages to send: of each type the one that is all zeros, one with each  *)
(* field set in turn, and one with all of them set.                         *)

RECURSIVE Blank(_), Full(_)
Blank(t) ==
    [n \in DOMAIN t |->
        CASE t[n].kind = "custom" -> <<48>>
          [] t[n].kind = "value"  -> Blank(t[n].type)
          [] OTHER                -> Zero(t[n], <<>>)]

FieldSamples(f) ==
    CASE f.kind = "uint64" -> {127, 128, Word - 1}
      [] f.kind = "uint32" -> {Half - 1}
      [] f.kind = "int64"  -> {5, -1}
      [] f.kind = "enum"   -> {2}
      [] f.kind = "bool"   -> {TRUE}
      [] f.kind = "text"   -> IF f.repeated THEN {<<<<97>>>>, <<<<>>, <<98>>>>}
                              ELSE {<<97>>}
      [] f.kind = "custom" -> {<<49, 48>>}
      [] f.kind = "packed" -> {<<1>>, <<0, 300>>}
      [] f.kind = "value"  -> {Full(f.type)}
      [] f.kind = "pointer" -> {<<Blank(f.type)>>, <<Full(f.type)>>}
      [] f.kind = "message" -> {<<Blank(f.type)>>, <<Full(f.type), Blank(f.type)>>}

Full(t) ==
    [n \in DOMAIN t |->
        IF t[n].kind = "uint64" THEN 300 + t[n].num
        ELSE IF t[n].kind = "pointer" THEN <<Full(t[n].type)>>
        ELSE CHOOSE x \in FieldSamples(t[n]) : TRUE]

Samples(t) ==
    {Blank(t), Full(t)} \cup
    UNION {{[Blank(t) EXCEPT ![n] = x] : x \in FieldSamples(t[n])} : n \in DOMAIN t}

-----------------------------------------------------------------------------
\* What two messages of a type, one after the other, mean.
RECURSIVE Merge(_, _, _)
Merge(t, a, b) ==
    [n \in DOMAIN t |->
        CASE t[n].repeated \/ t[n].kind = "packed" -> a[n] \o b[n]
          [] t[n].kind = "value"   -> Merge(t[n].type, a[n], b[n])
          [] t[n].kind = "pointer" ->
                IF a[n] # <<>> /\ b[n] # <<>>
                THEN <<Merge(t[n].type, a[n][1], b[n][1])>>
                ELSE a[n] \o b[n]
          [] ~ t[n].repeated /\ t[n].kind \in Numbers \cup {"text", "custom"} ->
                IF Items(t[n], b[n]) = <<>> THEN a[n] ELSE b[n]]

\* The items of a message in the order in which they are read.
Parts(t, m) ==
    FlattenSeq([k \in DOMAIN InOrder(t) |->
        LET f == t[InOrder(t)[k]]
            x == Items(f, m[InOrder(t)[k]])
        IN  [j \in DOMAIN x |-> WriteItem(f, x[j], <<>>)]])

\* The lengths at which the bytes of a message end between two items.
Boundaries(t, m) ==
    {Len(FlattenSeq(SubSeq(Parts(t, m), 1, k))) : k \in 0..Len(Parts(t, m))}

\* m is a value of the Go type.
RECURSIVE Conforms(_, _)
Conforms(t, m) ==
    /\ DOMAIN m = DOMAIN t
    /\ \A n \in DOMAIN t :
          CASE t[n].kind = "uint64" -> m[n] \in 0..(Word - 1)
            [] t[n].kind = "uint32" -> m[n] \in 0..(Half - 1)
            [] t[n].kind = "int64"  -> m[n] \in -(Word \div 2)..(Word \div 2 - 1)
            [] t[n].kind = "enum"   -> m[n] \in -(Half \div 2)..(Half \div 2 - 1)
            [] t[n].kind = "bool"   -> m[n] \in BOOLEAN
            [] t[n].kind = "packed" -> \A k \in DOMAIN m[n] : m[n][k] \in 0..(Word - 1)
            [] t[n].kind = "value"  -> Conforms(t[n].type, m[n])
            [] t[n].kind \in {"pointer", "message"} ->
                  \A k \in DOMAIN m[n] : Conforms(t[n].type, m[n][k])
            [] OTHER -> TRUE

-----------------------------------------------------------------------------
Init ==
    /\ type \in Types
    /\ message \in Samples(type)
    /\ bytes = <<>> /\ stage = "new" /\ fault = "none" /\ result = Fail("none")

Write ==
    /\ stage = "new"
    /\ bytes' = Marshal(type, message)
    /\ stage' = "written"
    /\ UNCHANGED <<type, message, fault, result>>

Affect(f) ==
    /\ stage = "written" /\ fault = "none"
    /\ fault' = f
    /\ UNCHANGED <<type, stage, result>>

Cut ==
    /\ Affect("cut")
    /\ \E n \in 0..(Len(bytes) - 1) : bytes' = SubSeq(bytes, 1, n)
    /\ UNCHANGED message

Damage ==
    /\ Affect("damage")
    /\ \E n \in DOMAIN bytes, b \in Noise :
          bytes' = SubSeq(bytes, 1, n - 1) \o b \o SubSeq(bytes, n + 1, Len(bytes))
    /\ UNCHANGED message

\* A newer version of the writer has a field the reader does not know.
AddField ==
    /\ Affect("field")
    /\ \E n \in Boundaries(type, message), u \in UnknownFields :
          bytes' = SubSeq(bytes, 1, n) \o u \o SubSeq(bytes, n + 1, Len(bytes))
    /\ UNCHANGED message

AddMessage ==
    /\ Affect("message")
    /\ \E m \in Samples(type) :
          /\ bytes' = bytes \o Marshal(type, m)
          /\ message' = Merge(type, message, m)

\* The reader's type is that of the writer, or the one that has replaced it.
Read ==
    /\ stage = "written"
    /\ \E t \in {type} \cup {p[2] : p \in {q \in Later : q[1] = type}} :
          result' = Unmarshal(t, bytes)
    /\ stage' = "read"
    /\ UNCHANGED <<type, message, bytes, fault>>

Next == Write \/ Cut \/ Damage \/ AddField \/ AddMessage \/ Read

Spec == Init /\ [][Next]_vars

-----------------------------------------------------------------------------
(* Properties *)

Done(f) == stage = "read" /\ fault = f

\* Whatever the bytes, a message that Unmarshal accepts is one of its Go type:
\* numbers wider than their field lose their upper bits and no more.
DecodedIsTyped ==
    stage = "read" /\ result.ok => Conforms(type, result.v)

\* What Marshal has written in its buffer of Size bytes, Unmarshal reads back,
\* for every message of the repository; x/cork reads what version 1 stored.  Two
\* messages one after the other are read as their merge: the later number or
\* text wins, repeated fields are joined, nested messages merged.
RoundTrip ==
    Done("none") \/ Done("message") => result.ok /\ result.v = message

\* No bytes make Unmarshal index its buffer out of range, however they were
\* cut or damaged: it returns an error instead.
NeverOutOfRange == stage = "read" /\ ~ result.ok => result.v # "panic"

\* A message that has lost its end is refused, unless what is left ends just
\* between two of its items.
CutsAreNoticed ==
    Done("cut") /\ result.ok => Len(bytes) \in Boundaries(type, message)

\* A reader skips fields it does not know, of any wire type and at any place,
\* groups included, and reads all others.
UnknownFieldsSkipped == Done("field") => result.ok /\ result.v = message
=============================================================================
