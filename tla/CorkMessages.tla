--------------------------- MODULE CorkMessages ---------------------------
(* The messages of x/cork: for each the fields its Unmarshal knows. *)
EXTENDS ProtoFields, SdkMessages

Cork ==
    [encoded_contract_call |-> Bytes(1), target_contract_address |-> Text(2)]

ScheduledCork ==
    [cork |-> Pointer(1, Cork), block_height |-> Uint64(2),
     validator |-> Text(3), id |-> Bytes(4)]

CorkResult ==
    [cork |-> Pointer(1, Cork), block_height |-> Uint64(2),
     approved |-> Bool(3), approval_percentage |-> Text(4)]

CellarIDSet == [ids |-> Texts(1)]

Params == [vote_threshold |-> Custom(1), max_corks_per_validator |-> Uint64(2)]

GenesisState ==
    [params |-> Value(1, Params), cellar_ids |-> Value(2, CellarIDSet),
     invalidation_nonce |-> Uint64(3),
     scheduled_corks |-> Messages(4, ScheduledCork),
     cork_results |-> Messages(5, CorkResult)]

AddManagedCellarIDsProposal ==
    [title |-> Text(1), description |-> Text(2),
     cellar_ids |-> Pointer(3, CellarIDSet), publisher_domain |-> Text(4)]

AddManagedCellarIDsProposalWithDeposit ==
    [title |-> Text(1), description |-> Text(2), cellar_ids |-> Texts(3),
     publisher_domain |-> Text(4), deposit |-> Text(5)]

RemoveManagedCellarIDsProposal ==
    [title |-> Text(1), description |-> Text(2),
     cellar_ids |-> Pointer(3, CellarIDSet)]

RemoveManagedCellarIDsProposalWithDeposit ==
    [title |-> Text(1), description |-> Text(2), cellar_ids |-> Texts(3),
     deposit |-> Text(4)]

ScheduledCorkProposal ==
    [title |-> Text(1), description |-> Text(2), block_height |-> Uint64(3),
     target_contract_address |-> Text(4),
     contract_call_proto_json |-> Text(5)]

ScheduledCorkProposalWithDeposit ==
    [title |-> Text(1), description |-> Text(2), block_height |-> Uint64(3),
     target_contract_address |-> Text(4),
     contract_call_proto_json |-> Text(5), deposit |-> Text(6)]

QueryParamsRequest == NoFields

QueryParamsResponse == [params |-> Value(1, Params)]

QueryCellarIDsRequest == NoFields

QueryCellarIDsResponse == [cellar_ids |-> Texts(1)]

QueryScheduledCorksRequest == NoFields

QueryScheduledCorksResponse == [corks |-> Messages(1, ScheduledCork)]

QueryScheduledBlockHeightsRequest == NoFields

QueryScheduledBlockHeightsResponse == [block_heights |-> Packed(1)]

QueryScheduledCorksByBlockHeightRequest == [block_height |-> Uint64(1)]

QueryScheduledCorksByBlockHeightResponse ==
    [corks |-> Messages(1, ScheduledCork)]

QueryScheduledCorksByIDRequest == [id |-> Text(1)]

QueryScheduledCorksByIDResponse == [corks |-> Messages(1, ScheduledCork)]

QueryCorkResultRequest == [id |-> Text(1)]

QueryCorkResultResponse == [corkResult |-> Pointer(1, CorkResult)]

QueryCorkResultsRequest == NoFields

QueryCorkResultsResponse == [corkResults |-> Messages(1, CorkResult)]

MsgScheduleCorkRequest ==
    [cork |-> Pointer(1, Cork), block_height |-> Uint64(2),
     signer |-> Text(3)]

MsgScheduleCorkResponse == [id |-> Text(1)]

\* All messages, in the order of their definitions.
All ==
    <<Cork, ScheduledCork, CorkResult, CellarIDSet, Params, GenesisState,
      AddManagedCellarIDsProposal, AddManagedCellarIDsProposalWithDeposit,
      RemoveManagedCellarIDsProposal,
      RemoveManagedCellarIDsProposalWithDeposit, ScheduledCorkProposal,
      ScheduledCorkProposalWithDeposit, QueryParamsRequest,
      QueryParamsResponse, QueryCellarIDsRequest, QueryCellarIDsResponse,
      QueryScheduledCorksRequest, QueryScheduledCorksResponse,
      QueryScheduledBlockHeightsRequest, QueryScheduledBlockHeightsResponse,
      QueryScheduledCorksByBlockHeightRequest,
      QueryScheduledCorksByBlockHeightResponse,
      QueryScheduledCorksByIDRequest, QueryScheduledCorksByIDResponse,
      QueryCorkResultRequest, QueryCorkResultResponse,
      QueryCorkResultsRequest, QueryCorkResultsResponse,
      MsgScheduleCorkRequest, MsgScheduleCorkResponse>>
=============================================================================
