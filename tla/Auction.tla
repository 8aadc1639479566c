------------------------------ MODULE Auction ------------------------------
(***************************************************************************)
(* x/auction: Dutch auctions of fee tokens for usomm.                      *)
(*                                                                         *)
(* A block is executed in phases: BeginBlock (where a funding module may   *)
(* begin auctions), the transactions (bids), the governance EndBlocker     *)
(* (token price and parameter proposals) and the module's EndBlocker       *)
(* (price decrease, end of auctions, pruning).  One step is one handler    *)
(* call.  A transaction that returns an error or panics is rolled back and *)
(* changes nothing, so its conditions are guards; a panic in a block       *)
(* handler halts the chain, which the variable halted records.             *)
(*                                                                         *)
(* The stores active, ended and bids are sets of records, each the value   *)
(* of one key.  The bank is the part of the bank module the auction uses.  *)
(***************************************************************************)
EXTENDS Dec, FiniteSets

CONSTANTS
    Usomm,              \* the base coin denomination
    SaleDenoms,         \* denominations that can be auctioned
    Bidders,            \* accounts that submit bids
    AuctionAccount,     \* the auction module account
    FundingModules,     \* fundingModuleAccounts of the keeper (app.go)
    ProceedsModules,    \* proceedsModuleAccounts of the keeper (app.go)
    CoinExponent,       \* params.CoinExponent, the decimals of SOMM
    UintModulus,        \* unsigned block heights wrap at this value (2^64)
    InitialBank,        \* balances at genesis
    ParamSets,          \* parameter values governance may set
    PriceProposals,     \* token price proposals governance may pass
    Amounts, Rates, Intervals,  \* arguments of BeginAuction
    MaxBids, MinAmounts,        \* arguments of MsgSubmitBid
    MaxHeight,          \* bound: last block
    MaxStartHeight,     \* bound: last block in which an auction begins
    MaxGovHeight,       \* bound: last block in which governance acts
    MaxBidCount         \* bound: number of bids

VARIABLES height, phase, params, tokenPrices, active, ended, bids,
          lastAuctionID, lastBidID, bank, halted

vars == <<height, phase, params, tokenPrices, active, ended, bids,
          lastAuctionID, lastBidID, bank, halted>>

Modules  == FundingModules \cup ProceedsModules
Accounts == Bidders \cup Modules \cup {AuctionAccount}
Denoms   == SaleDenoms \cup {Usomm}

Params == [priceMaxBlockAge : Nat, minimumBidInUsomm : Nat,
           auctionMaxBlockAge : Nat, accelerationRate : Nat,
           minimumAuctionHeight : Nat]

TokenPrice == [usd : Nat \ {0}, exponent : Exponents, updated : Nat]

ASSUME ConstantAssumption ==
    /\ Usomm \notin SaleDenoms
    /\ AuctionAccount \notin Bidders \cup Modules
    /\ Bidders \cap Modules = {}
    /\ CoinExponent \in Exponents /\ 0 \in Exponents
    /\ UintModulus \in Nat \ {0}
    /\ ParamSets \subseteq Params /\ ParamSets # {}
    /\ \A p \in PriceProposals :
          /\ DOMAIN p \subseteq Denoms
          /\ \A d \in DOMAIN p : p[d] \in [usd : Nat \ {0}, exponent : Exponents]
    /\ Amounts \subseteq Nat /\ Rates \subseteq Nat /\ Intervals \subseteq Nat
    /\ MaxBids \subseteq Nat \ {0} /\ MinAmounts \subseteq Nat \ {0}

\* The coins of d that the accounts of bk hold.  The supply is a sum, written as
\* the cardinality of the set of the coins summed.
CoinsOf(bk, d) == UNION {{acct} \X (1..bk[acct][d]) : acct \in Accounts}
Supply(bk, d)  == Cardinality(CoinsOf(bk, d))

\* At genesis the auction module account holds nothing, and finitely many coins
\* are in circulation.
ASSUME BankAssumption ==
    /\ InitialBank \in [Accounts -> [Denoms -> Nat]]
    /\ \A d \in Denoms : InitialBank[AuctionAccount][d] = 0
    /\ \A d \in Denoms : IsFiniteSet(CoinsOf(InitialBank, d))

-----------------------------------------------------------------------------
(* Records of the store *)

AuctionRec == [id : Nat \ {0}, denom : SaleDenoms, starting : Nat \ {0},
               remaining : Nat, startBlock : Nat, endBlock : Nat,
               initialRate : Nat, rate : Nat, interval : Nat \ {0},
               initialPrice : Nat \ {0}, price : Nat \ {0},
               funding : FundingModules, proceeds : ProceedsModules]

BidRec == [id : Nat \ {0}, auction : Nat \ {0}, bidder : Bidders,
           maxBid : Nat \ {0}, minAmount : Nat \ {0}, fulfilled : Nat,
           unitPrice : Nat \ {0}, paid : Nat, height : Nat]

\* Subtraction of unsigned block heights, which wraps around.
USub(a, b) == (a - b) % UintModulus

\* Moves amt of denomination d between two accounts.
SendCoins(b, from, to, d, amt) ==
    [b EXCEPT ![from][d] = @ - amt, ![to][d] = @ + amt]

\* Mutant: the bids are not selected by auction.
AllBids(bs, auctions) == IF auctions = {} THEN {} ELSE bs
\* The bids of a set of auctions (GetBidsByAuctionID).
BidsOf(bs, auctions) == {b \in bs : \E a \in auctions : b.auction = a.id}

\* Each bid of bs once for every usomm it paid, summed like the supply.
CoinsPaid(bs) == UNION {{b} \X (1..b.paid) : b \in bs}
UsommPaid(bs) == Cardinality(CoinsPaid(bs))

\* A panic in a block handler: the chain stops.
Halt(where) ==
    /\ halted' = where
    /\ UNCHANGED <<height, phase, params, tokenPrices, active, ended, bids,
                   lastAuctionID, lastBidID, bank>>

-----------------------------------------------------------------------------
(* FinishAuction *)

\* Mutant: the unsold sale tokens stay in the auction account.
OwedWithoutRefund(bk, bs, done, d) ==
    IF d = Usomm THEN UsommPaid(BidsOf(bs, done)) ELSE 0

\* Mutant: the proceeds are the whole usomm balance.
OwedWholeBalance(bk, bs, done, d) ==
    IF \E a \in done : d \in {Usomm, a.denom} THEN bk[AuctionAccount][d] ELSE 0

\* What finishing the auctions of done takes out of the auction account: all
\* usomm their bids paid, and the whole balance of their sale denominations.
Owed(bk, bs, done, d) ==
    IF d = Usomm THEN UsommPaid(BidsOf(bs, done))
    ELSE IF \E a \in done : a.denom = d THEN bk[AuctionAccount][d] ELSE 0

\* The auctions of done whose usomm (or unsold tokens) go to acct.
PaidTo(done, acct, d) ==
    {a \in done : acct = IF d = Usomm THEN a.proceeds ELSE a.funding}

\* The transfers succeed: the proceeds are there.
CanFinish(bk, bs, done) ==
    Owed(bk, bs, done, Usomm) <= bk[AuctionAccount][Usomm]

\* Mutant: the auction account pays but only the sale tokens arrive.
FinishWithoutProceeds(bk, bs, done) ==
    [acct \in Accounts |-> [d \in Denoms |->
       IF acct = AuctionAccount
       THEN bk[acct][d] - Owed(bk, bs, done, d)
       ELSE bk[acct][d] +
              IF d = Usomm THEN 0 ELSE Owed(bk, bs, PaidTo(done, acct, d), d)]]

\* The bank after the auctions of done are finished.  They have different
\* denominations, so finishing them one by one gives the same balances.
FinishAuctionBank(bk, bs, done) ==
    [acct \in Accounts |-> [d \in Denoms |->
       IF acct = AuctionAccount
       THEN bk[acct][d] - Owed(bk, bs, done, d)
       ELSE bk[acct][d] + Owed(bk, bs, PaidTo(done, acct, d), d)]]

\* The record FinishAuction moves to the ended auctions.
Finished(a) == [a EXCEPT !.endBlock = height]

-----------------------------------------------------------------------------
(* BeginAuction *)

HasPrice(d) == d \in DOMAIN tokenPrices

tokenPriceTooOld(d) ==
    USub(height, tokenPrices[d].updated) > params.priceMaxBlockAge

\* Value in USD of one smallest unit of d, whose decimals are given.
MinUnitValue(d, exponent) == Quo(tokenPrices[d].usd, TenToThe(exponent))

\* Smallest units of usomm for one smallest unit of d.
SaleTokenPriceInUsomm(d) ==
    Quo(MinUnitValue(d, tokenPrices[d].exponent),
        MinUnitValue(Usomm, CoinExponent))

\* Mutant: auctions of one denomination may overlap.
NeverOnSale(d) == FALSE
OnSale(d) == \E a \in active : a.denom = d

\* The checks of BeginAuction that return an error before the record is built.
BeginAuctionChecks(d, amount, funding, proceeds) ==
    /\ height > params.minimumAuctionHeight
    /\ amount > 0
    /\ funding \in FundingModules
    /\ proceeds \in ProceedsModules
    /\ HasPrice(d) /\ ~ tokenPriceTooOld(d)
    /\ HasPrice(Usomm) /\ ~ tokenPriceTooOld(Usomm)

\* The record passes Auction.ValidateBasic, and the division that computes its
\* price does not divide by zero; otherwise BeginAuction panics.
AuctionIsValid(d, rate, interval) ==
    /\ 0 < rate /\ rate < NewDec(1)
    /\ interval > 0
    /\ MinUnitValue(Usomm, CoinExponent) > 0
    /\ SaleTokenPriceInUsomm(d) > 0

NewAuction(d, amount, rate, interval, funding, proceeds) ==
    [id |-> lastAuctionID + 1, denom |-> d, starting |-> amount,
     remaining |-> amount, startBlock |-> height, endBlock |-> 0,
     initialRate |-> rate, rate |-> rate, interval |-> interval,
     initialPrice |-> SaleTokenPriceInUsomm(d),
     price |-> SaleTokenPriceInUsomm(d),
     funding |-> funding, proceeds |-> proceeds]

BeginAuction(d, amount, rate, interval, funding, proceeds) ==
    /\ phase = "begin" /\ halted = "no"
    /\ BeginAuctionChecks(d, amount, funding, proceeds)
    /\ AuctionIsValid(d, rate, interval)
    /\ ~ OnSale(d)
    /\ amount <= bank[funding][d]
    /\ bank' = SendCoins(bank, funding, AuctionAccount, d, amount)
    /\ active' = active \cup
                   {NewAuction(d, amount, rate, interval, funding, proceeds)}
    /\ lastAuctionID' = lastAuctionID + 1
    /\ UNCHANGED <<height, phase, params, tokenPrices, ended, bids, lastBidID,
                   halted>>

BeginAuctionPanics(d, amount, rate, interval, funding, proceeds) ==
    /\ phase = "begin" /\ halted = "no"
    /\ BeginAuctionChecks(d, amount, funding, proceeds)
    /\ ~ AuctionIsValid(d, rate, interval)
    /\ Halt("begin")

-----------------------------------------------------------------------------
(* SubmitBid *)

Smaller(m, n) == IF m <= n THEN m ELSE n

\* The minimum bid: the parameter, or what the remaining tokens are worth
\* when that is less.
MinimumBid(balance, price) ==
    LET value == Mul(NewDec(balance), price)
    IN  IF value < NewDec(params.minimumBidInUsomm)
        THEN TruncateInt(value) ELSE params.minimumBidInUsomm

\* Mutant: the payment is rounded down.
PaymentRoundedDown(amount, price) == TruncateInt(Mul(NewDec(amount), price))
\* usomm to pay for amount sale tokens, rounded up.
Payment(amount, price) == CeilInt(Mul(NewDec(amount), price))

\* How many sale tokens a bid of maxBid gets.
SaleTokensToPurchase(balance, price, maxBid) ==
    Smaller(TruncateInt(Quo(NewDec(maxBid), price)), balance)

\* The bid passes the checks on its amounts.
BidIsAccepted(balance, price, maxBid, minAmount) ==
    /\ maxBid >= MinimumBid(balance, price)
    /\ Payment(minAmount, price) <= maxBid
    /\ \/ balance >= TruncateInt(Quo(NewDec(maxBid), price))
       \/ balance >= minAmount

\* Mutant: the minimum asked for is recorded, not what was bought.
BidRecordingMinimum(a, bidder, maxBid, minAmount, fulfilled) ==
    [id |-> lastBidID + 1, auction |-> a.id, bidder |-> bidder,
     maxBid |-> maxBid, minAmount |-> minAmount, fulfilled |-> minAmount,
     unitPrice |-> a.price, paid |-> Payment(fulfilled, a.price),
     height |-> height]

NewBid(a, bidder, maxBid, minAmount, fulfilled) ==
    [id |-> lastBidID + 1, auction |-> a.id, bidder |-> bidder,
     maxBid |-> maxBid, minAmount |-> minAmount, fulfilled |-> fulfilled,
     unitPrice |-> a.price, paid |-> Payment(fulfilled, a.price),
     height |-> height]

\* Payment and purchase; an auction that has sold everything is finished in
\* the same transaction.
SubmitBid(bidder, a, maxBid, minAmount) ==
    LET balance   == bank[AuctionAccount][a.denom]
        fulfilled == SaleTokensToPurchase(balance, a.price, maxBid)
        bid       == NewBid(a, bidder, maxBid, minAmount, fulfilled)
        paidBank  == SendCoins(bank, bidder, AuctionAccount, Usomm, bid.paid)
        soldBank  == SendCoins(paidBank, AuctionAccount, bidder, a.denom,
                               fulfilled)
        sold      == [a EXCEPT !.remaining = balance - fulfilled]
        soldOut   == sold.remaining = 0
    IN  /\ phase \in {"begin", "deliver"} /\ halted = "no"
        /\ lastBidID < MaxBidCount
        /\ BidIsAccepted(balance, a.price, maxBid, minAmount)
        /\ bid.paid <= bank[bidder][Usomm]
        /\ fulfilled <= balance
        /\ soldOut => CanFinish(soldBank, bids \cup {bid}, {sold})
        /\ phase' = "deliver"
        /\ bids' = bids \cup {bid}
        /\ lastBidID' = bid.id
        /\ bank' = IF soldOut
                    THEN FinishAuctionBank(soldBank, bids \cup {bid}, {sold})
                    ELSE soldBank
        /\ active' = (active \ {a}) \cup (IF soldOut THEN {} ELSE {sold})
        /\ ended' = ended \cup (IF soldOut THEN {Finished(sold)} ELSE {})
        /\ UNCHANGED <<height, params, tokenPrices, lastAuctionID, halted>>

-----------------------------------------------------------------------------
(* Governance, executed by the EndBlocker of x/gov before that of x/auction *)

\* HandleSetTokenPricesProposal: the exponent of the proposal is not stored.
ApplyPrices(p) ==
    [d \in DOMAIN tokenPrices \cup DOMAIN p |->
        IF d \in DOMAIN p
        THEN [usd |-> p[d].usd, exponent |-> 0, updated |-> height]
        ELSE tokenPrices[d]]

SetTokenPrices(p) ==
    /\ halted = "no"
    /\ DOMAIN p # {}
    /\ phase' = "gov"
    /\ tokenPrices' = ApplyPrices(p)
    /\ UNCHANGED <<height, params, active, ended, bids, lastAuctionID,
                   lastBidID, bank, halted>>

ChangeParams(p) ==
    /\ halted = "no"
    /\ p # params
    /\ phase' = "gov"
    /\ params' = p
    /\ UNCHANGED <<height, tokenPrices, active, ended, bids, lastAuctionID,
                   lastBidID, bank, halted>>

-----------------------------------------------------------------------------
(* EndBlocker *)

PriceFalls(a) ==
    height # a.startBlock /\ (height - a.startBlock) % a.interval = 0

\* The most recent bid of a was made within the last price interval.
RecentBid(a) ==
    \E b \in BidsOf(bids, {a}) :
        /\ \A c \in BidsOf(bids, {a}) : c.id <= b.id
        /\ b.height >= USub(height, a.interval)

\* Mutant: the rate is multiplied by the acceleration rate alone.
RateWithoutOne(a) ==
    IF RecentBid(a) THEN a.initialRate ELSE Mul(a.rate, params.accelerationRate)
\* A bid resets the decrease rate, an interval without one accelerates it.
NextRate(a) ==
    IF RecentBid(a) THEN a.initialRate
    ELSE Mul(a.rate, NewDec(1) + params.accelerationRate)

\* Mutant: a bid resets the price instead of the rate.
PriceResetByBid(a) ==
    IF RecentBid(a) THEN a.initialPrice
    ELSE a.price - Mul(a.initialPrice, NextRate(a))
NextPrice(a) == a.price - Mul(a.initialPrice, NextRate(a))

\* Mutant: the price before the decrease is tested.
ExhaustedByCurrentPrice == {a \in active : PriceFalls(a) /\ a.price <= 0}
\* Auctions whose price would no longer be positive are finished.
Exhausted == {a \in active : PriceFalls(a) /\ NextPrice(a) <= 0}

Updated(a) ==
    IF PriceFalls(a)
    THEN [a EXCEPT !.rate = NextRate(a), !.price = NextPrice(a)]
    ELSE a

\* Mutant: an old auction is pruned even when it is the last one of its denom.
PrunableByAge(store) ==
    {a \in store : a.endBlock < USub(height, params.auctionMaxBlockAge)}
\* Ended auctions to delete: those older than the window that are not the
\* most recent one of their denomination.
Prunable(store) ==
    {a \in store :
        /\ params.auctionMaxBlockAge # 0
        /\ \E b \in store : b.denom = a.denom /\ b.id > a.id
        /\ a.endBlock < USub(height, params.auctionMaxBlockAge)}

EndBlockCompletes ==
    LET closed == {Finished([a EXCEPT !.rate = NextRate(a)]) : a \in Exhausted}
        pruned == Prunable(ended \cup closed)
    IN  /\ bank' = FinishAuctionBank(bank, bids, Exhausted)
        /\ active' = {Updated(a) : a \in active \ Exhausted}
        /\ ended' = (ended \cup closed) \ pruned
        /\ bids' = bids \ BidsOf(bids, pruned)
        /\ height' = height + 1
        /\ phase' = "begin"
        /\ UNCHANGED <<params, tokenPrices, lastAuctionID, lastBidID, halted>>

\* The whole EndBlocker; it panics when a transfer of FinishAuction fails.
EndBlocker ==
    /\ halted = "no" /\ height < MaxHeight
    /\ IF CanFinish(bank, bids, Exhausted) THEN EndBlockCompletes ELSE Halt("end")

-----------------------------------------------------------------------------
(* Genesis *)

\* Mutant: only the active auctions are exported.
ExportedActive == active
\* ExportGenesis writes the active and the ended auctions in one list.
ExportedAuctions == active \cup ended

\* InitGenesis tells them apart by their end blocks.  All else, the balances of
\* x/bank included, is exported and imported as it is.
ExportAndImport ==
    /\ halted = "no" /\ phase = "begin"
    /\ active' = {a \in ExportedAuctions : ~ (a.endBlock > 0)}
    /\ ended' = {a \in ExportedAuctions : a.endBlock > 0}
    /\ UNCHANGED <<height, phase, params, tokenPrices, bids, lastAuctionID,
                   lastBidID, bank, halted>>

-----------------------------------------------------------------------------
Init ==
    /\ height = 1 /\ phase = "begin"
    /\ params \in ParamSets
    /\ tokenPrices = [d \in {} |-> 0]
    /\ active = {} /\ ended = {} /\ bids = {}
    /\ lastAuctionID = 0 /\ lastBidID = 0
    /\ bank = InitialBank
    /\ halted = "no"

\* Auctions are begun by a funding module, up to the bound MaxStartHeight.
SomeBeginAuction ==
    /\ height <= MaxStartHeight
    /\ \E d \in SaleDenoms, amount \in Amounts, rate \in Rates,
           interval \in Intervals, f \in FundingModules, p \in ProceedsModules :
          \/ BeginAuction(d, amount, rate, interval, f, p)
          \/ BeginAuctionPanics(d, amount, rate, interval, f, p)

SomeBid ==
    \E bidder \in Bidders, a \in active, maxBid \in MaxBids,
       minAmount \in MinAmounts : SubmitBid(bidder, a, maxBid, minAmount)

Governance ==
    /\ height <= MaxGovHeight
    /\ \/ \E p \in PriceProposals : SetTokenPrices(p)
       \/ \E p \in ParamSets : ChangeParams(p)

Next ==
    \/ SomeBeginAuction
    \/ SomeBid
    \/ Governance
    \/ EndBlocker
    \/ ExportAndImport

Spec == Init /\ [][Next]_vars

-----------------------------------------------------------------------------
(* Properties *)

\* Every stored record is valid; the price of an auction stays positive while it
\* is active and no balance goes below zero.
TypeOK ==
    /\ height \in Nat \ {0} /\ phase \in {"begin", "deliver", "gov"}
    /\ params \in Params
    /\ DOMAIN tokenPrices \subseteq Denoms
    /\ \A d \in DOMAIN tokenPrices : tokenPrices[d] \in TokenPrice
    /\ active \subseteq AuctionRec /\ ended \subseteq AuctionRec
    /\ bids \subseteq BidRec
    /\ lastAuctionID \in Nat /\ lastBidID \in Nat
    /\ bank \in [Accounts -> [Denoms -> Nat]]
    /\ halted \in {"no", "begin", "end"}

\* Auctions are stored under one id each, active or ended but not both, and at
\* most one auction of a denomination is active: FinishAuction relies on it
\* when it returns "the balance" of a denomination (keeper.go:309).
StoreWellFormed ==
    /\ \A a, b \in active \cup ended : a.id = b.id => a = b
    /\ \A a \in active \cup ended : a.id <= lastAuctionID
    /\ \A a \in active : a.endBlock = 0
    /\ \A a \in ended : a.endBlock # 0
    /\ \A a, b \in active : a.denom = b.denom => a = b

\* The auction account holds, of each sale denomination, exactly what the
\* active auction of that denomination says remains for sale, and nothing
\* when there is none: no token is stranded and none is missing.
SaleTokensBacked ==
    \A d \in SaleDenoms :
        /\ \A a \in active : a.denom = d => bank[AuctionAccount][d] = a.remaining
        /\ ~ OnSale(d) => bank[AuctionAccount][d] = 0

\* The usomm in the auction account are exactly the payments of the bids on
\* active auctions: what FinishAuction will pay out as proceeds.
ProceedsBacked ==
    bank[AuctionAccount][Usomm] = UsommPaid(BidsOf(bids, active))

\* The EndBlocker never panics: the transfers of FinishAuction cannot fail
\* (the panic of abci.go:42 would halt the chain).
EndBlockNeverPanics == halted # "end"

\* No handler creates or destroys coins, whatever it rounds: a bid's payment and
\* purchase, and the proceeds and unsold tokens of all auctions that end in one
\* block, arrive where they are sent.
SupplyConserved == \A d \in Denoms : Supply(bank, d) = Supply(InitialBank, d)

\* Every stored bid got at least the minimum it asked for, at the price it
\* recorded: never for less than the price, and rounded up by less than one
\* usomm ("Round up to prevent exploitability", msg_server.go:80).  The two
\* roundings together take at most one usomm more than the maximum bid, as long
\* as a token costs less than 2 * Unit usomm; the bound grows with the price.
BidsAreFair ==
    \A b \in bids :
        /\ b.fulfilled >= b.minAmount
        /\ 2 * Unit * Unit * (b.paid - b.maxBid - 1) < b.unitPrice
        /\ b.fulfilled * b.unitPrice <= b.paid * Unit
        /\ b.paid * Unit < b.fulfilled * b.unitPrice + Unit

\* The tokens that bs bought, summed like UsommPaid.
CoinsBought(bs) == UNION {{b} \X (1..b.fulfilled) : b \in bs}
TokensBought(bs) == Cardinality(CoinsBought(bs))

\* Tokens are sold once: what an auction started with is what remains plus
\* what its stored bids bought, for active and ended auctions alike, until
\* the auction and its bids are pruned together.
SoldMatchesBids ==
    /\ \A a \in active \cup ended :
          a.starting = a.remaining + TokensBought(BidsOf(bids, {a}))
    /\ \A b \in bids : \E a \in active \cup ended : a.id = b.auction

\* The price of an auction falls in every interval by at least what its initial
\* rate takes: bids reset the rate and parameter changes slow its growth, but
\* neither delays the fall.
FallsOnSchedule ==
    \A a \in active : \A k \in 0..height :
        a.startBlock + k * a.interval < height =>
            a.price + k * Mul(a.initialPrice, a.initialRate) <= a.initialPrice

\* A later bid never pays a higher unit price than an earlier one, and the
\* current price is at most the last one and the initial one.
BidPricesFall ==
    /\ \A b, c \in bids :
          b.auction = c.auction /\ b.id < c.id =>
             c.unitPrice <= b.unitPrice /\ b.height <= c.height
    /\ \A a \in active : \A b \in BidsOf(bids, {a}) : a.price <= b.unitPrice
    /\ \A a \in active : a.price <= a.initialPrice

\* The price of an auction only falls, and falls on schedule: waiting never makes
\* a bid dearer, and nobody can keep an auction at a price.
LaterBidsAreNotDearer == BidPricesFall /\ FallsOnSchedule

\* "keep last inactive auction per denom (+ bids) at minimum" (abci.go:68):
\* an ended auction disappears only when a later one of its denomination
\* stays, and its bids disappear only with it.  It is kept for as many blocks
\* as the parameter says, once the chain is older than that: before, the
\* subtraction of heights wraps (abci.go:82).
LatestEndedKept ==
    [][/\ \A a \in ended \ ended' :
             /\ \E b \in ended' : b.denom = a.denom /\ b.id > a.id
             /\ \/ height > a.endBlock + params.auctionMaxBlockAge
                \/ height < params.auctionMaxBlockAge
       /\ \A b \in bids \ bids' : \E a \in ended \ ended' : a.id = b.auction]_vars

\* Every auction ends: as long as blocks are produced the price falls until
\* everything is sold or the price reaches zero, whatever bids and parameter
\* changes come (for auctions begun long enough before the bound MaxHeight).
AuctionsEnd == \A d \in SaleDenoms : OnSale(d) ~> ~ OnSale(d)

-----------------------------------------------------------------------------
(* The abstract specification *)

\* An active auction as a sale: what its stored bids paid is what it has raised.
SaleOf(a) ==
    [denom |-> a.denom, seller |-> a.funding, beneficiary |-> a.proceeds,
     unsold |-> a.remaining, raised |-> UsommPaid(BidsOf(bids, {a}))]

Escrow == INSTANCE Sales
            WITH Sellers <- FundingModules, Beneficiaries <- ProceedsModules,
                 Buyers <- Bidders,
                 wallets <- [acct \in Bidders \cup Modules |-> bank[acct]],
                 sales <- {SaleOf(a) : a \in active}

\* To its users the module is an escrow of separate sales: although FinishAuction
\* returns whole balances of one shared account and pays sums over the bids it
\* finds (keeper.go:307-335), each sale gives back what it has not sold and pays
\* out what it has raised, once and to its own modules; and a purchase is never
\* free or empty.
ImplementsSales == Escrow!Spec

-----------------------------------------------------------------------------
(* What the repository's comments say and the code does not do *)

\* auction.proto:54: a USD price is that of one whole token, "smallest unit of
\* the token * 10^exponent".  Every proposal states the exponent of its token;
\* an auction must start at the price per smallest unit that this gives.
StartPriceUsesExponent ==
    [][\A a \in active' \ active : a.startBlock = height /\ a.endBlock = 0 =>
          \A p \in PriceProposals :
             a.denom \in DOMAIN p /\ p[a.denom].usd = tokenPrices[a.denom].usd =>
                a.initialPrice =
                   Quo(MinUnitValue(a.denom, p[a.denom].exponent),
                       MinUnitValue(Usomm, CoinExponent))]_vars

=============================================================================
