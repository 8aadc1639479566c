---------------------------- MODULE CellarFees ----------------------------
(***************************************************************************)
(* x/cellarfees, composed with x/auction: the fees cellars send over the   *)
(* bridge are counted, auctioned for usomm when a denomination has been    *)
(* counted often enough, and the proceeds are emitted block by block to    *)
(* the fee collector as staking rewards.                                   *)
(*                                                                         *)
(* The module is both the funding and the proceeds module of its auctions, *)
(* so unsold fees, new fees and proceeds all meet in one account.  Its     *)
(* BeginBlocker runs first in every block (phase "begin"); the bids, then  *)
(* the proposals and bridge events (phase "gov") and the EndBlocker of     *)
(* x/auction follow.                                                       *)
(***************************************************************************)
EXTENDS Auction

CONSTANTS
    Cellarfees,     \* the cellarfees module account
    DenomOrder,     \* the position of a denomination in the sorted counters
    FeeParamSets,   \* parameter values governance may propose
    FeeAmounts,     \* amounts of SendToCosmos events
    MaxFees,        \* bound: what the account may hold after an event
    MaxFeeHeight    \* bound: last block with bridge events

VARIABLES
    counters,       \* FeeAccrualCounters; a missing counter is zero
    peak,           \* LastRewardSupplyPeak
    feeParams,      \* the parameters of cellarfees
    feeCollector    \* usomm sent to the fee collector

feeVars == <<counters, peak, feeParams, feeCollector>>
allVars == <<vars, feeVars>>

FeeParams == [threshold : Nat, emissionPeriod : Nat, rate : Nat,
              priceInterval : Nat, auctionInterval : Nat]

ASSUME FeeAssumption ==
    /\ Cellarfees \in FundingModules \cap ProceedsModules
    /\ DenomOrder \in [SaleDenoms -> Nat]
    /\ \A d, e \in SaleDenoms : DenomOrder[d] = DenomOrder[e] => d = e
    /\ FeeParamSets \subseteq FeeParams
    /\ FeeAmounts \subseteq Nat

-----------------------------------------------------------------------------
(* BeginBlocker: auctions *)

\* The validators of the parameters.  That of the decrease rate compares the
\* rate with zero and one by pointer, which refuses no value.
ValidFeeParams(p) ==
    /\ p.threshold # 0
    /\ p.emissionPeriod # 0
    /\ p.priceInterval # 0
    /\ p.auctionInterval # 0

\* The counters for which beginAuction gets as far as building an auction of
\* the whole balance.
Due ==
    {d \in SaleDenoms :
        /\ counters[d] >= feeParams.threshold
        /\ height % feeParams.auctionInterval = 0
        /\ ~ OnSale(d)
        /\ BeginAuctionChecks(d, bank[Cellarfees][d], Cellarfees, Cellarfees)}

\* The auction of d; the auctions of one block are numbered in the order of
\* the counters.
Begun(d) ==
    [NewAuction(d, bank[Cellarfees][d], feeParams.rate,
                feeParams.priceInterval, Cellarfees, Cellarfees)
     EXCEPT !.id = lastAuctionID +
                     Cardinality({e \in Due : DenomOrder[e] <= DenomOrder[d]})]

-----------------------------------------------------------------------------
(* BeginBlocker: emission (GetEmission) *)

NewPeak(remaining) == IF remaining > peak THEN remaining ELSE peak

PeakShare(remaining) == NewPeak(remaining) \div feeParams.emissionPeriod

\* Mutant: the emission is not limited to what remains.
UnlimitedEmission(remaining) ==
    IF PeakShare(remaining) = 0 THEN 1 ELSE PeakShare(remaining)
\* Mutant: small supplies are never emitted.
EmissionRoundedDown(remaining) == Smaller(PeakShare(remaining), remaining)
\* "at least 1usomm and at most the remaining reward supply"
Emission(remaining) ==
    IF PeakShare(remaining) = 0 THEN 1
    ELSE Smaller(PeakShare(remaining), remaining)

\* The last emission of a supply resets the peak.
PeakAfter(remaining) ==
    IF PeakShare(remaining) # 0 /\ PeakShare(remaining) >= remaining
    THEN 0 ELSE NewPeak(remaining)

\* The fees of Due move to the auction account and the emission leaves.
BankAfterBegin(emitted) ==
    [acct \in Accounts |-> [d \in Denoms |->
        CASE d = Usomm /\ acct = Cellarfees -> bank[acct][d] - emitted
          [] d \in Due /\ acct = Cellarfees -> 0
          [] d \in Due /\ acct = AuctionAccount -> bank[acct][d] + bank[Cellarfees][d]
          [] OTHER -> bank[acct][d]]]

\* Mutant: a counter is reset by the attempt, not by the auction.
ResetOnAttempt ==
    [d \in SaleDenoms |->
        IF counters[d] >= feeParams.threshold THEN 0 ELSE counters[d]]
ResetCounters == [d \in SaleDenoms |-> IF d \in Due THEN 0 ELSE counters[d]]

\* The whole BeginBlocker; an auction record that is not valid panics.
BeginBlockCompletes ==
    LET remaining == bank[Cellarfees][Usomm]
        emitted   == IF remaining = 0 THEN 0 ELSE Emission(remaining)
    IN  /\ phase' = "deliver"
        /\ active' = active \cup {Begun(d) : d \in Due}
        /\ lastAuctionID' = lastAuctionID + Cardinality(Due)
        /\ counters' = ResetCounters
        /\ bank' = BankAfterBegin(emitted)
        /\ feeCollector' = feeCollector + emitted
        /\ peak' = IF remaining = 0 THEN peak ELSE PeakAfter(remaining)
        /\ UNCHANGED <<height, params, tokenPrices, ended, bids, lastBidID,
                       halted, feeParams>>

BeginBlocker ==
    /\ phase = "begin" /\ halted = "no"
    /\ IF \A d \in Due : AuctionIsValid(d, feeParams.rate, feeParams.priceInterval)
       THEN BeginBlockCompletes
       ELSE Halt("begin") /\ UNCHANGED feeVars

-----------------------------------------------------------------------------
(* Bridge events and governance *)

\* Mutant: an event without coins is counted.
CountedWhenEmpty(d, amount, managed) == managed /\ d # Usomm
\* AfterSendToCosmosEvent for coins received by the cellarfees account: only
\* fees of a managed cellar, in a denomination other than usomm, are counted.
Counted(d, amount, managed) == amount # 0 /\ managed /\ d # Usomm

IncrementCounter(d) == [counters EXCEPT ![d] = @ + 1]

\* The bridge handles its events in its EndBlocker, after that of x/gov and
\* before that of x/auction; a proposal of the same block commutes with them.
SendToCosmos(d, amount, managed) ==
    /\ phase # "begin" /\ halted = "no"
    /\ height <= MaxFeeHeight /\ bank[Cellarfees][d] + amount <= MaxFees
    /\ phase' = "gov"
    /\ bank' = [bank EXCEPT ![Cellarfees][d] = @ + amount]
    /\ counters' = IF Counted(d, amount, managed)
                   THEN IncrementCounter(d) ELSE counters
    /\ UNCHANGED <<height, params, tokenPrices, active, ended, bids,
                   lastAuctionID, lastBidID, halted, peak, feeParams,
                   feeCollector>>

ChangeFeeParams(p) ==
    /\ phase # "begin" /\ halted = "no"
    /\ height <= MaxGovHeight
    /\ p # feeParams /\ ValidFeeParams(p)
    /\ phase' = "gov"
    /\ feeParams' = p
    /\ UNCHANGED <<height, params, tokenPrices, active, ended, bids,
                   lastAuctionID, lastBidID, bank, halted, counters, peak,
                   feeCollector>>

-----------------------------------------------------------------------------
FeesInit ==
    /\ Init
    /\ counters = [d \in SaleDenoms |-> 0]
    /\ peak = 0 /\ feeCollector = 0
    /\ feeParams \in {p \in FeeParamSets : ValidFeeParams(p)}

SomeFee ==
    \E d \in Denoms, amount \in FeeAmounts, managed \in BOOLEAN :
        SendToCosmos(d, amount, managed)

\* The steps of x/auction after BeginBlock.
AuctionStep ==
    /\ phase # "begin"
    /\ SomeBid \/ Governance \/ EndBlocker
    /\ UNCHANGED feeVars

\* The genesis of x/cellarfees has its parameters, counters and peak.
Restart == ExportAndImport /\ UNCHANGED feeVars

FeesNext ==
    \/ BeginBlocker
    \/ AuctionStep
    \/ Restart
    \/ SomeFee
    \/ \E p \in FeeParamSets : ChangeFeeParams(p)

\* Blocks keep being produced; bids, proposals and fees need not come.
FeesSpec ==
    /\ FeesInit /\ [][FeesNext]_allVars
    /\ WF_allVars(BeginBlocker)
    /\ WF_allVars(phase # "begin" /\ EndBlocker /\ UNCHANGED feeVars)

-----------------------------------------------------------------------------
(* Properties *)

\* With the records of x/auction, the counters and the last peak of the rewards are
\* natural numbers: neither a reset nor an emission takes more than there is.
FeesTypeOK ==
    /\ TypeOK
    /\ counters \in [SaleDenoms -> Nat]
    /\ peak \in Nat /\ feeCollector \in Nat
    /\ feeParams \in FeeParams

\* A positive counter stands for fees that are still in the account: the
\* beginAuction it triggers never finds a zero balance (auction.go:24).
CountedFeesHeld ==
    \A d \in SaleDenoms : counters[d] > 0 => bank[Cellarfees][d] > 0

\* Fees are forgotten by the counters only when they are put on sale: the fees
\* counted so far leave the account with the reset, into the auction account.
ResetMeansOnSale ==
    [][\A d \in SaleDenoms : counters'[d] < counters[d] =>
          /\ \E a \in active' \ active : a.denom = d /\ a.remaining = bank[Cellarfees][d]
          /\ bank'[Cellarfees][d] = 0]_allVars

\* The reward supply is emitted until nothing is left (abci.go:11: it "will
\* decrease linearly until exhausted"), whatever it was and whatever proceeds
\* and parameter changes come (for income early enough before MaxHeight).
RewardsAreEmitted ==
    bank[Cellarfees][Usomm] > 0 ~> bank[Cellarfees][Usomm] = 0

-----------------------------------------------------------------------------
(* What the repository's error messages say and the code does not do *)

\* params.go:112: an accepted initial price decrease rate is "0 < x < 1", so
\* that a parameter that passed validation cannot make BeginAuction panic in
\* the BeginBlocker and halt the chain.
AcceptedRateIsSafe ==
    halted = "begin" => 0 < feeParams.rate /\ feeParams.rate < NewDec(1)
=============================================================================
