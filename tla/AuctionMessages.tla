-------------------------- MODULE AuctionMessages --------------------------
(* The messages of x/auction: for each the fields its Unmarshal knows. *)
EXTENDS ProtoFields, SdkMessages

Auction ==
    [id |-> Uint32(1), starting_tokens_for_sale |-> Value(2, Coin),
     start_block |-> Uint64(3), end_block |-> Uint64(4),
     initial_price_decrease_rate |-> Custom(5),
     current_price_decrease_rate |-> Custom(6),
     price_decrease_block_interval |-> Uint64(7),
     initial_unit_price_in_usomm |-> Custom(8),
     current_unit_price_in_usomm |-> Custom(9),
     remaining_tokens_for_sale |-> Value(10, Coin),
     funding_module_account |-> Text(11),
     proceeds_module_account |-> Text(12)]

Bid ==
    [id |-> Uint64(1), auction_id |-> Uint32(2), bidder |-> Text(3),
     max_bid_in_usomm |-> Value(4, Coin),
     sale_token_minimum_amount |-> Value(5, Coin),
     total_fulfilled_sale_tokens |-> Value(6, Coin),
     sale_token_unit_price_in_usomm |-> Custom(7),
     total_usomm_paid |-> Value(8, Coin), block_height |-> Uint64(9)]

TokenPrice ==
    [denom |-> Text(1), exponent |-> Uint64(2), usd_price |-> Custom(3),
     last_updated_block |-> Uint64(4)]

ProposedTokenPrice ==
    [denom |-> Text(1), exponent |-> Uint64(2), usd_price |-> Custom(3)]

Params ==
    [price_max_block_age |-> Uint64(1), minimum_bid_in_usomm |-> Uint64(2),
     minimum_sale_tokens_usd_value |-> Custom(3),
     auction_max_block_age |-> Uint64(4),
     auction_price_decrease_acceleration_rate |-> Custom(5),
     minimum_auction_height |-> Uint64(6)]

GenesisState ==
    [params |-> Value(1, Params), auctions |-> Messages(2, Auction),
     bids |-> Messages(3, Bid), token_prices |-> Messages(4, TokenPrice),
     last_auction_id |-> Uint32(5), last_bid_id |-> Uint64(6)]

SetTokenPricesProposal ==
    [title |-> Text(1), description |-> Text(2),
     token_prices |-> Messages(3, ProposedTokenPrice)]

SetTokenPricesProposalWithDeposit ==
    [title |-> Text(1), description |-> Text(2),
     token_prices |-> Messages(3, ProposedTokenPrice), deposit |-> Text(4)]

QueryParamsRequest == NoFields

QueryParamsResponse == [params |-> Value(1, Params)]

QueryActiveAuctionRequest == [auction_id |-> Uint32(1)]

QueryActiveAuctionResponse == [auction |-> Pointer(1, Auction)]

QueryEndedAuctionRequest == [auction_id |-> Uint32(1)]

QueryEndedAuctionResponse == [auction |-> Pointer(1, Auction)]

QueryActiveAuctionsRequest == NoFields

QueryActiveAuctionsResponse == [auctions |-> Messages(1, Auction)]

QueryEndedAuctionsRequest == [pagination |-> Value(1, PageRequest)]

QueryEndedAuctionsResponse ==
    [auctions |-> Messages(1, Auction), pagination |-> Value(2, PageResponse)]

QueryBidRequest == [bid_id |-> Uint64(1), auction_id |-> Uint32(2)]

QueryBidResponse == [bid |-> Pointer(1, Bid)]

QueryBidsByAuctionRequest ==
    [auction_id |-> Uint32(1), pagination |-> Value(2, PageRequest)]

QueryBidsByAuctionResponse ==
    [bids |-> Messages(1, Bid), pagination |-> Value(2, PageResponse)]

MsgSubmitBidRequest ==
    [auction_id |-> Uint32(1), signer |-> Text(2),
     max_bid_in_usomm |-> Value(3, Coin),
     sale_token_minimum_amount |-> Value(4, Coin)]

MsgSubmitBidResponse == [bid |-> Pointer(1, Bid)]

\* All messages, in the order of their definitions.
All ==
    <<Auction, Bid, TokenPrice, ProposedTokenPrice, Params, GenesisState,
      SetTokenPricesProposal, SetTokenPricesProposalWithDeposit,
      QueryParamsRequest, QueryParamsResponse, QueryActiveAuctionRequest,
      QueryActiveAuctionResponse, QueryEndedAuctionRequest,
      QueryEndedAuctionResponse, QueryActiveAuctionsRequest,
      QueryActiveAuctionsResponse, QueryEndedAuctionsRequest,
      QueryEndedAuctionsResponse, QueryBidRequest, QueryBidResponse,
      QueryBidsByAuctionRequest, QueryBidsByAuctionResponse,
      MsgSubmitBidRequest, MsgSubmitBidResponse>>
=============================================================================
