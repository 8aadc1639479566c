-------------------------- MODULE CorkV1Messages --------------------------
(* The messages of version 1 of x/cork, which its migration reads: for each the fields its Unmarshal knows. *)
EXTENDS ProtoFields, SdkMessages

Cork ==
    [encoded_contract_call |-> Bytes(1), target_contract_address |-> Text(2)]

ValidatorCork == [cork |-> Pointer(1, Cork), validator |-> Text(2)]

ScheduledCork ==
    [cork |-> Pointer(1, Cork), block_height |-> Uint64(2),
     validator |-> Text(3)]

CellarIDSet == [ids |-> Texts(1)]

Params == [vote_period |-> Int64(1), vote_threshold |-> Custom(2)]

GenesisState ==
    [params |-> Value(1, Params), cellar_ids |-> Value(2, CellarIDSet),
     invalidation_nonce |-> Uint64(3), corks |-> Messages(4, ValidatorCork),
     scheduled_corks |-> Messages(5, ScheduledCork)]

AddManagedCellarIDsProposal ==
    [title |-> Text(1), description |-> Text(2),
     cellar_ids |-> Pointer(3, CellarIDSet)]

AddManagedCellarIDsProposalWithDeposit ==
    [title |-> Text(1), description |-> Text(2), cellar_ids |-> Texts(3),
     deposit |-> Text(4)]

RemoveManagedCellarIDsProposal ==
    [title |-> Text(1), description |-> Text(2),
     cellar_ids |-> Pointer(3, CellarIDSet)]

RemoveManagedCellarIDsProposalWithDeposit ==
    [title |-> Text(1), description |-> Text(2), cellar_ids |-> Texts(3),
     deposit |-> Text(4)]

QueryParamsRequest == NoFields

QueryParamsResponse == [params |-> Value(1, Params)]

QuerySubmittedCorksRequest == NoFields

QuerySubmittedCorksResponse == [corks |-> Messages(1, Cork)]

QueryCommitPeriodRequest == NoFields

QueryCommitPeriodResponse ==
    [current_height |-> Int64(1), vote_period_start |-> Int64(2),
     vote_period_end |-> Int64(3)]

QueryCellarIDsRequest == NoFields

QueryCellarIDsResponse == [cellar_ids |-> Texts(1)]

QueryScheduledCorksRequest == NoFields

QueryScheduledCorksResponse == [corks |-> Messages(1, ScheduledCork)]

QueryScheduledBlockHeightsRequest == NoFields

QueryScheduledBlockHeightsResponse == [block_heights |-> Packed(1)]

QueryScheduledCorksByBlockHeightRequest == [block_height |-> Uint64(1)]

QueryScheduledCorksByBlockHeightResponse ==
    [corks |-> Messages(1, ScheduledCork)]

MsgSubmitCorkRequest == [cork |-> Pointer(1, Cork), signer |-> Text(2)]

MsgSubmitCorkResponse == NoFields

MsgScheduleCorkRequest ==
    [cork |-> Pointer(1, Cork), block_height |-> Uint64(2),
     signer |-> Text(3)]

MsgScheduleCorkResponse == NoFields

\* All messages, in the order of their definitions.
All ==
    <<Cork, ValidatorCork, ScheduledCork, CellarIDSet, Params, GenesisState,
      AddManagedCellarIDsProposal, AddManagedCellarIDsProposalWithDeposit,
      RemoveManagedCellarIDsProposal,
      RemoveManagedCellarIDsProposalWithDeposit, QueryParamsRequest,
      QueryParamsResponse, QuerySubmittedCorksRequest,
      QuerySubmittedCorksResponse, QueryCommitPeriodRequest,
      QueryCommitPeriodResponse, QueryCellarIDsRequest,
      QueryCellarIDsResponse, QueryScheduledCorksRequest,
      QueryScheduledCorksResponse, QueryScheduledBlockHeightsRequest,
      QueryScheduledBlockHeightsResponse,
      QueryScheduledCorksByBlockHeightRequest,
      QueryScheduledCorksByBlockHeightResponse, MsgSubmitCorkRequest,
      MsgSubmitCorkResponse, MsgScheduleCorkRequest, MsgScheduleCorkResponse>>
=============================================================================
