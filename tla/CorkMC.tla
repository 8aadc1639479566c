------------------------------- MODULE CorkMC -------------------------------
(* Small instances of Cork for TLC. *)
EXTENDS Cork, TLC

CONSTANTS v1, v2

\* A holder of exactly the threshold; one just above it beside a validator that
\* is not bonded (the total was recorded before stake was slashed); a validator
\* removed.
MCPowerTables ==
    {[power |-> (v1 :> 67) @@ (v2 :> 33), total |-> 100],
     [power |-> (v1 :> 68) @@ (v2 :> 0), total |-> 100],
     [power |-> (v1 :> 5), total |-> 5]}
=============================================================================
