--------------------------- MODULE CellarFeesMC ---------------------------
(* Small instances of CellarFees for TLC. *)
EXTENDS CellarFees, TLC

CONSTANTS Alice, Auctions, usdc, weth, usomm

MCBank ==
    [acct \in Accounts |-> [d \in Denoms |->
        IF acct = Alice /\ d = usomm THEN 12 ELSE 0]]

MCParams ==
    {[priceMaxBlockAge |-> 2, minimumBidInUsomm |-> 1, auctionMaxBlockAge |-> 2,
      accelerationRate |-> 5, minimumAuctionHeight |-> 1]}

Price(u, e) == [usd |-> u, exponent |-> e]
MCPrices == {[d \in SaleDenoms |-> Price(20, 0)] @@ (usomm :> Price(100, 1))}

Order == [d \in SaleDenoms |-> IF d = usdc THEN 1 ELSE 2]

F(count, period, rate) ==
    [threshold |-> count, emissionPeriod |-> period, rate |-> rate,
     priceInterval |-> 1, auctionInterval |-> 2]
MCFeeParams == {F(1, 3, 6), F(2, 2, 6)}
\* Governance may also set a rate of one hundred percent.
FullRate == {F(1, 2, 6), F(1, 2, 10)}
=============================================================================
