------------------------ MODULE CellarFeesMessages ------------------------
(* The messages of x/cellarfees: for each the fields its Unmarshal knows. *)
EXTENDS ProtoFields, SdkMessages

FeeAccrualCounter == [denom |-> Text(1), count |-> Uint64(2)]

FeeAccrualCounters == [counters |-> Messages(1, FeeAccrualCounter)]

Params ==
    [fee_accrual_auction_threshold |-> Uint64(1),
     reward_emission_period |-> Uint64(2),
     initial_price_decrease_rate |-> Custom(3),
     price_decrease_block_interval |-> Uint64(4),
     auction_interval |-> Uint64(5)]

GenesisState ==
    [params |-> Value(1, Params),
     fee_accrual_counters |-> Value(2, FeeAccrualCounters),
     last_reward_supply_peak |-> Custom(3)]

QueryParamsRequest == NoFields

QueryParamsResponse == [params |-> Value(1, Params)]

QueryModuleAccountsRequest == NoFields

QueryModuleAccountsResponse == [fees_address |-> Text(1)]

QueryLastRewardSupplyPeakRequest == NoFields

QueryLastRewardSupplyPeakResponse == [last_reward_supply_peak |-> Custom(1)]

QueryFeeAccrualCountersRequest == NoFields

QueryFeeAccrualCountersResponse ==
    [fee_accrual_counters |-> Value(1, FeeAccrualCounters)]

QueryAPYRequest == NoFields

QueryAPYResponse == [apy |-> Text(1)]

\* All messages, in the order of their definitions.
All ==
    <<FeeAccrualCounter, FeeAccrualCounters, Params, GenesisState,
      QueryParamsRequest, QueryParamsResponse, QueryModuleAccountsRequest,
      QueryModuleAccountsResponse, QueryLastRewardSupplyPeakRequest,
      QueryLastRewardSupplyPeakResponse, QueryFeeAccrualCountersRequest,
      QueryFeeAccrualCountersResponse, QueryAPYRequest, QueryAPYResponse>>
=============================================================================
