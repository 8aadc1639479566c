------------------------ MODULE IncentivesMessages ------------------------
(* The messages of x/incentives: for each the fields its Unmarshal knows. *)
EXTENDS ProtoFields, SdkMessages

Params ==
    [distribution_per_block |-> Value(1, Coin),
     incentives_cutoff_height |-> Uint64(2)]

GenesisState == [params |-> Value(1, Params)]

QueryParamsRequest == NoFields

QueryParamsResponse == [params |-> Value(1, Params)]

QueryAPYRequest == NoFields

QueryAPYResponse == [apy |-> Text(1)]

\* All messages, in the order of their definitions.
All ==
    <<Params, GenesisState, QueryParamsRequest, QueryParamsResponse,
      QueryAPYRequest, QueryAPYResponse>>
=============================================================================
