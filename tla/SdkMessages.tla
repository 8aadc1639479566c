----------------------------- MODULE SdkMessages -----------------------------
(* The messages of cosmos-sdk that the repository's messages contain. *)
EXTENDS ProtoFields

Coin == [denom |-> Text(1), amount |-> Custom(2)]

PageRequest ==
    [key |-> Bytes(1), offset |-> Uint64(2), limit |-> Uint64(3),
     count_total |-> Bool(4), reverse |-> Bool(5)]

PageResponse == [next_key |-> Bytes(1), total |-> Uint64(2)]
=============================================================================
