------------------------ MODULE AxelarCorkMessages ------------------------
(* The messages of x/axelarcork: for each the fields its Unmarshal knows. *)
EXTENDS ProtoFields, SdkMessages

AxelarCork ==
    [encoded_contract_call |-> Bytes(1), chain_id |-> Uint64(2),
     target_contract_address |-> Text(3), deadline |-> Uint64(4)]

ScheduledAxelarCork ==
    [cork |-> Pointer(1, AxelarCork), block_height |-> Uint64(2),
     validator |-> Text(3), id |-> Text(4)]

ScheduledAxelarCorks == [scheduled_corks |-> Messages(1, ScheduledAxelarCork)]

AxelarCorkResult ==
    [cork |-> Pointer(1, AxelarCork), block_height |-> Uint64(2),
     approved |-> Bool(3), approval_percentage |-> Text(4)]

AxelarCorkResults == [cork_results |-> Messages(1, AxelarCorkResult)]

CellarIDSet == [chain_id |-> Uint64(1), ids |-> Texts(2)]

ChainConfiguration ==
    [name |-> Text(1), id |-> Uint64(2), proxy_address |-> Text(3),
     bridge_fees |-> Messages(4, Coin)]

ChainConfigurations == [configurations |-> Messages(1, ChainConfiguration)]

AxelarContractCallNonce ==
    [chain_id |-> Uint64(1), contract_address |-> Text(2),
     nonce |-> Uint64(3)]

AxelarUpgradeData ==
    [chain_id |-> Uint64(1), payload |-> Bytes(2),
     executable_height_threshold |-> Int64(3)]

ScheduleCorkEvent ==
    [signer |-> Text(1), validator |-> Text(2), cork |-> Text(3),
     block_height |-> Uint64(4), chain_id |-> Uint64(5)]

Params ==
    [enabled |-> Bool(1), ibc_channel |-> Text(2), ibc_port |-> Text(3),
     gmp_account |-> Text(4), executor_account |-> Text(5),
     timeout_duration |-> Uint64(6), cork_timeout_blocks |-> Uint64(7)]

GenesisState ==
    [params |-> Pointer(1, Params),
     chain_configurations |-> Value(2, ChainConfigurations),
     cellar_ids |-> Messages(3, CellarIDSet),
     scheduled_corks |-> Pointer(4, ScheduledAxelarCorks),
     cork_results |-> Pointer(5, AxelarCorkResults),
     axelar_contract_call_nonces |-> Messages(6, AxelarContractCallNonce),
     axelar_upgrade_data |-> Messages(7, AxelarUpgradeData)]

AddAxelarManagedCellarIDsProposal ==
    [title |-> Text(1), description |-> Text(2), chain_id |-> Uint64(3),
     cellar_ids |-> Pointer(4, CellarIDSet), publisher_domain |-> Text(5)]

AddAxelarManagedCellarIDsProposalWithDeposit ==
    [title |-> Text(1), description |-> Text(2), chain_id |-> Uint64(3),
     cellar_ids |-> Texts(4), publisher_domain |-> Text(5),
     deposit |-> Text(6)]

RemoveAxelarManagedCellarIDsProposal ==
    [title |-> Text(1), description |-> Text(2), chain_id |-> Uint64(3),
     cellar_ids |-> Pointer(4, CellarIDSet)]

RemoveAxelarManagedCellarIDsProposalWithDeposit ==
    [title |-> Text(1), description |-> Text(2), chain_id |-> Uint64(3),
     cellar_ids |-> Texts(4), deposit |-> Text(5)]

AxelarScheduledCorkProposal ==
    [title |-> Text(1), description |-> Text(2), block_height |-> Uint64(3),
     chain_id |-> Uint64(4), target_contract_address |-> Text(5),
     contract_call_proto_json |-> Text(6), deadline |-> Uint64(7)]

AxelarScheduledCorkProposalWithDeposit ==
    [title |-> Text(1), description |-> Text(2), block_height |-> Uint64(3),
     chain_id |-> Uint64(4), target_contract_address |-> Text(5),
     contract_call_proto_json |-> Text(6), deadline |-> Uint64(7),
     deposit |-> Text(8)]

AxelarCommunityPoolSpendProposal ==
    [title |-> Text(1), description |-> Text(2), recipient |-> Text(3),
     chain_id |-> Uint64(4), amount |-> Value(5, Coin)]

AxelarCommunityPoolSpendProposalForCLI ==
    [title |-> Text(1), description |-> Text(2), recipient |-> Text(3),
     chain_id |-> Uint64(4), amount |-> Text(5), deposit |-> Text(6)]

AddChainConfigurationProposal ==
    [title |-> Text(1), description |-> Text(2),
     chain_configuration |-> Pointer(3, ChainConfiguration)]

AddChainConfigurationProposalWithDeposit ==
    [title |-> Text(1), description |-> Text(2),
     chain_configuration |-> Pointer(3, ChainConfiguration),
     deposit |-> Text(4)]

RemoveChainConfigurationProposal ==
    [title |-> Text(1), description |-> Text(2), chain_id |-> Uint64(3)]

RemoveChainConfigurationProposalWithDeposit ==
    [title |-> Text(1), description |-> Text(2), chain_id |-> Uint64(3),
     deposit |-> Text(4)]

UpgradeAxelarProxyContractProposal ==
    [title |-> Text(1), description |-> Text(2), chain_id |-> Uint64(3),
     new_proxy_address |-> Text(4)]

UpgradeAxelarProxyContractProposalWithDeposit ==
    [title |-> Text(1), description |-> Text(2), chain_id |-> Uint64(3),
     new_proxy_address |-> Text(4), deposit |-> Text(5)]

CancelAxelarProxyContractUpgradeProposal ==
    [title |-> Text(1), description |-> Text(2), chain_id |-> Uint64(3)]

CancelAxelarProxyContractUpgradeProposalWithDeposit ==
    [title |-> Text(1), description |-> Text(2), chain_id |-> Uint64(3),
     deposit |-> Text(4)]

QueryParamsRequest == NoFields

QueryParamsResponse == [params |-> Value(1, Params)]

QueryCellarIDsRequest == NoFields

QueryCellarIDsResponse == [cellar_ids |-> Messages(1, CellarIDSet)]

QueryCellarIDsByChainIDRequest == [chain_id |-> Uint64(1)]

QueryCellarIDsByChainIDResponse == [cellar_ids |-> Texts(1)]

QueryScheduledCorksRequest == [chain_id |-> Uint64(1)]

QueryScheduledCorksResponse == [corks |-> Messages(1, ScheduledAxelarCork)]

QueryScheduledBlockHeightsRequest == [chain_id |-> Uint64(1)]

QueryScheduledBlockHeightsResponse == [block_heights |-> Packed(1)]

QueryScheduledCorksByBlockHeightRequest ==
    [block_height |-> Uint64(1), chain_id |-> Uint64(2)]

QueryScheduledCorksByBlockHeightResponse ==
    [corks |-> Messages(1, ScheduledAxelarCork)]

QueryScheduledCorksByIDRequest == [id |-> Text(1), chain_id |-> Uint64(2)]

QueryScheduledCorksByIDResponse == [corks |-> Messages(1, ScheduledAxelarCork)]

QueryCorkResultRequest == [id |-> Text(1), chain_id |-> Uint64(2)]

QueryCorkResultResponse == [corkResult |-> Pointer(1, AxelarCorkResult)]

QueryCorkResultsRequest == [chain_id |-> Uint64(1)]

QueryCorkResultsResponse == [corkResults |-> Messages(1, AxelarCorkResult)]

QueryChainConfigurationsRequest == NoFields

QueryChainConfigurationsResponse ==
    [configurations |-> Messages(1, ChainConfiguration)]

QueryAxelarContractCallNoncesRequest == NoFields

QueryAxelarContractCallNoncesResponse ==
    [contract_call_nonces |-> Messages(1, AxelarContractCallNonce)]

QueryAxelarProxyUpgradeDataRequest == NoFields

QueryAxelarProxyUpgradeDataResponse ==
    [proxy_upgrade_data |-> Messages(1, AxelarUpgradeData)]

MsgScheduleAxelarCorkRequest ==
    [cork |-> Pointer(1, AxelarCork), chain_id |-> Uint64(2),
     block_height |-> Uint64(3), signer |-> Text(4)]

MsgScheduleAxelarCorkResponse == [id |-> Text(1)]

MsgRelayAxelarCorkRequest ==
    [signer |-> Text(1), token |-> Value(2, Coin), fee |-> Uint64(3),
     chain_id |-> Uint64(4), target_contract_address |-> Text(5)]

MsgRelayAxelarCorkResponse == NoFields

MsgRelayAxelarProxyUpgradeRequest ==
    [signer |-> Text(1), token |-> Value(2, Coin), fee |-> Uint64(3),
     chain_id |-> Uint64(4)]

MsgRelayAxelarProxyUpgradeResponse == NoFields

MsgBumpAxelarCorkGasRequest ==
    [signer |-> Text(1), token |-> Value(2, Coin), message_id |-> Text(3)]

MsgBumpAxelarCorkGasResponse == NoFields

MsgCancelAxelarCorkRequest ==
    [signer |-> Text(1), chain_id |-> Uint64(2),
     target_contract_address |-> Text(3)]

MsgCancelAxelarCorkResponse == NoFields

\* All messages, in the order of their definitions.
All ==
    <<AxelarCork, ScheduledAxelarCork, ScheduledAxelarCorks,
      AxelarCorkResult, AxelarCorkResults, CellarIDSet, ChainConfiguration,
      ChainConfigurations, AxelarContractCallNonce, AxelarUpgradeData,
      ScheduleCorkEvent, Params, GenesisState,
      AddAxelarManagedCellarIDsProposal,
      AddAxelarManagedCellarIDsProposalWithDeposit,
      RemoveAxelarManagedCellarIDsProposal,
      RemoveAxelarManagedCellarIDsProposalWithDeposit,
      AxelarScheduledCorkProposal, AxelarScheduledCorkProposalWithDeposit,
      AxelarCommunityPoolSpendProposal,
      AxelarCommunityPoolSpendProposalForCLI, AddChainConfigurationProposal,
      AddChainConfigurationProposalWithDeposit,
      RemoveChainConfigurationProposal,
      RemoveChainConfigurationProposalWithDeposit,
      UpgradeAxelarProxyContractProposal,
      UpgradeAxelarProxyContractProposalWithDeposit,
      CancelAxelarProxyContractUpgradeProposal,
      CancelAxelarProxyContractUpgradeProposalWithDeposit,
      QueryParamsRequest, QueryParamsResponse, QueryCellarIDsRequest,
      QueryCellarIDsResponse, QueryCellarIDsByChainIDRequest,
      QueryCellarIDsByChainIDResponse, QueryScheduledCorksRequest,
      QueryScheduledCorksResponse, QueryScheduledBlockHeightsRequest,
      QueryScheduledBlockHeightsResponse,
      QueryScheduledCorksByBlockHeightRequest,
      QueryScheduledCorksByBlockHeightResponse,
      QueryScheduledCorksByIDRequest, QueryScheduledCorksByIDResponse,
      QueryCorkResultRequest, QueryCorkResultResponse,
      QueryCorkResultsRequest, QueryCorkResultsResponse,
      QueryChainConfigurationsRequest, QueryChainConfigurationsResponse,
      QueryAxelarContractCallNoncesRequest,
      QueryAxelarContractCallNoncesResponse,
      QueryAxelarProxyUpgradeDataRequest,
      QueryAxelarProxyUpgradeDataResponse, MsgScheduleAxelarCorkRequest,
      MsgScheduleAxelarCorkResponse, MsgRelayAxelarCorkRequest,
      MsgRelayAxelarCorkResponse, MsgRelayAxelarProxyUpgradeRequest,
      MsgRelayAxelarProxyUpgradeResponse, MsgBumpAxelarCorkGasRequest,
      MsgBumpAxelarCorkGasResponse, MsgCancelAxelarCorkRequest,
      MsgCancelAxelarCorkResponse>>
=============================================================================
