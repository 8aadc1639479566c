----------------------------- MODULE AuctionMC -----------------------------
(* Small instances of Auction for TLC. *)
EXTENDS Auction, TLC

CONSTANTS Alice, Bob, Cellarfees, Auctions, usdc, weth, usomm

MCBank ==
    [acct \in Accounts |-> [d \in Denoms |->
        CASE acct = Cellarfees /\ d = usdc -> 4
          [] acct = Cellarfees /\ d = weth -> 2
          [] acct \in {Alice, Bob} /\ d = usomm -> 14
          [] OTHER -> 0]]

P(age, minBid, keep, accel) ==
    [priceMaxBlockAge |-> age, minimumBidInUsomm |-> minBid,
     auctionMaxBlockAge |-> keep, accelerationRate |-> accel,
     minimumAuctionHeight |-> 1]
\* A window that auctions leave, none, and one the chain is younger than.
MCParams == {P(2, 3, 2, 7), P(2, 0, 0, 0), P(2, 3, 5, 7)}

Price(u, e) == [usd |-> u, exponent |-> e]
\* The second makes the price of weth round to zero.
MCPrices == {(usdc :> Price(37, 0)) @@ (weth :> Price(25, 0)) @@ (usomm :> Price(100, 1)),
             (weth :> Price(4, 0)) @@ (usomm :> Price(1000, 1))}

\* For the other run: a token with decimals.
PriceOfWholeToken == {(usdc :> Price(370, 1)) @@ (usomm :> Price(100, 1))}

Symmetry == Permutations(Bidders)
=============================================================================
