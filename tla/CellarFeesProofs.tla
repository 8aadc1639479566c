-------------------------- MODULE CellarFeesProofs --------------------------
(***************************************************************************)
(* Proofs about CellarFees: the invariants of x/auction hold in the        *)
(* composition with x/cellarfees, whose BeginBlocker begins several        *)
(* auctions at once, the counters stand for fees that are held, rewards    *)
(* are emitted block by block, and only the bridge brings new coins.       *)
(***************************************************************************)
EXTENDS CellarFees, AuctionBidProofs, AuctionSupplyProofs

-----------------------------------------------------------------------------
(* The invariant *)

\* Every parameter passed its validator, so no period or threshold is zero.
ParamsAreValid == ValidFeeParams(feeParams)

\* The store holds finitely many counters.
FinitelyCounted == IsFiniteSet({d \in SaleDenoms : counters[d] > 0})

FInv ==
    /\ FeesTypeOK /\ CountedFeesHeld
    /\ ParamsAreValid /\ FinitelyCounted

\* The initial state satisfies the invariants.
LEMMA FeesInitInv == FeesInit => IInv /\ BInv /\ FInv
<1> SUFFICES ASSUME FeesInit PROVE IInv /\ BInv /\ FInv
  OBVIOUS
<1>1. IInv /\ BInv
  BY InitIInv, InitBInv DEF FeesInit
<1>2. FeesTypeOK /\ ParamsAreValid
  BY <1>1, FeeAssumption DEF FeesInit, FeesTypeOK, IInv, ParamsAreValid
<1>3. \A d \in SaleDenoms : ~ (counters[d] > 0)
  BY DEF FeesInit
<1>4. {d \in SaleDenoms : counters[d] > 0} = {}
  BY <1>3
<1> QED
  BY <1>1, <1>2, <1>3, <1>4, FS_EmptySet DEF FInv, CountedFeesHeld, FinitelyCounted

\* A step that changes no store of x/auction preserves its invariants.
LEMMA AuctionInvsKept ==
  ASSUME IInv, BInv, UNCHANGED vars
  PROVE  IInv' /\ BInv'
BY NextIInv, NextBInv

-----------------------------------------------------------------------------
(* BeginBlocker *)

\* The constants the module is instantiated with.
LEMMA FeeAccounts ==
  /\ Cellarfees \in Accounts /\ AuctionAccount \in Accounts
  /\ Cellarfees \in FundingModules /\ Cellarfees \in ProceedsModules
  /\ Cellarfees # AuctionAccount /\ Cellarfees \notin Bidders
  /\ SaleDenoms \subseteq Denoms /\ Usomm \in Denoms /\ Usomm \notin SaleDenoms
BY ConstantAssumption, FeeAssumption DEF Accounts, Modules, Denoms

\* Finitely many denominations are due.
LEMMA DueFinite ==
  ASSUME FInv
  PROVE  IsFiniteSet(Due) /\ Due \subseteq SaleDenoms /\ Cardinality(Due) \in Nat
<1>1. feeParams.threshold \in Nat \ {0}
  BY DEF FInv, FeesTypeOK, FeeParams, ParamsAreValid, ValidFeeParams
<1>2. \A d \in SaleDenoms : counters[d] \in Nat
  BY DEF FInv, FeesTypeOK
<1>3. Due \in SUBSET {d \in SaleDenoms : counters[d] > 0}
  BY <1>1, <1>2 DEF Due
<1> QED
  BY <1>3, FS_Subset, FS_CardinalityType DEF FInv, FinitelyCounted

\* The position of a denomination among those due.
Position(d) == Cardinality({e \in Due : DenomOrder[e] <= DenomOrder[d]})

\* Positions are numbered from one and tell the denominations apart.
LEMMA Positions ==
  ASSUME FInv
  PROVE  /\ \A d \in Due : Position(d) \in 1..Cardinality(Due)
         /\ \A d, e \in Due : Position(d) = Position(e) => d = e
<1> DEFINE upTo(d) == {e \in Due : DenomOrder[e] <= DenomOrder[d]}
<1>1. IsFiniteSet(Due) /\ Due \subseteq SaleDenoms /\ Cardinality(Due) \in Nat
  BY DueFinite
<1>2. \A d \in Due : DenomOrder[d] \in Nat
  BY <1>1, FeeAssumption
<1>3. \A d \in Due : upTo(d) \in SUBSET Due /\ d \in upTo(d)
  BY <1>2
<1>4. ASSUME NEW d \in Due PROVE Position(d) \in 1..Cardinality(Due)
  <2>1. IsFiniteSet(upTo(d)) /\ Cardinality(upTo(d)) <= Cardinality(Due)
    BY <1>1, <1>3, FS_Subset
  <2>2. Cardinality(upTo(d)) \in Nat /\ Cardinality(upTo(d)) # 0
    BY <1>3, <2>1, FS_EmptySet, FS_CardinalityType
  <2> QED
    BY <1>1, <2>1, <2>2 DEF Position
<1>5. ASSUME NEW d \in Due, NEW e \in Due, DenomOrder[d] < DenomOrder[e]
      PROVE  Position(d) # Position(e)
  <2>1. upTo(d) \in SUBSET upTo(e) /\ e \notin upTo(d) /\ e \in upTo(e)
    BY <1>2, <1>5
  <2>2. IsFiniteSet(upTo(e))
    BY <1>1, <1>3, FS_Subset
  <2> QED
    BY <2>1, <2>2, FS_Subset DEF Position
<1>6. ASSUME NEW d \in Due, NEW e \in Due, Position(d) = Position(e) PROVE d = e
  <2>1. DenomOrder[d] = DenomOrder[e]
    BY <1>2, <1>5, <1>6
  <2> QED
    BY <1>1, <2>1, FeeAssumption
<1> QED
  BY <1>4, <1>6

\* The auctions a BeginBlocker begins.
LEMMA BegunFacts ==
  ASSUME IInv, FInv, NEW d \in Due,
         AuctionIsValid(d, feeParams.rate, feeParams.priceInterval)
  PROVE  /\ Begun(d) \in AuctionRec
         /\ Begun(d).id = lastAuctionID + Position(d)
         /\ Begun(d).denom = d
         /\ Begun(d).starting = bank[Cellarfees][d]
         /\ Begun(d).remaining = bank[Cellarfees][d]
         /\ Begun(d).price = Begun(d).initialPrice
         /\ Begun(d).endBlock = 0
         /\ Begun(d).startBlock = height /\ Begun(d).rate = Begun(d).initialRate
<1> DEFINE new == NewAuction(d, bank[Cellarfees][d], feeParams.rate,
                             feeParams.priceInterval, Cellarfees, Cellarfees)
<1>1. /\ d \in SaleDenoms /\ height \in Nat /\ lastAuctionID \in Nat
      /\ bank[Cellarfees][d] \in Nat \ {0}
      /\ feeParams.rate \in Nat /\ feeParams.priceInterval \in Nat \ {0}
  <2>1. bank[Cellarfees][d] > 0 /\ d \in SaleDenoms
    BY DEF Due, BeginAuctionChecks
  <2>2. bank[Cellarfees][d] \in Nat
    BY <2>1, FeeAccounts DEF IInv, TypeOK
  <2>3. feeParams.rate \in Nat /\ feeParams.priceInterval \in Nat \ {0}
    BY DEF FInv, FeesTypeOK, FeeParams, ParamsAreValid, ValidFeeParams
  <2> QED
    BY <2>1, <2>2, <2>3 DEF IInv, TypeOK
<1>2. SaleTokenPriceInUsomm(d) \in Nat \ {0}
  <2>1. HasPrice(d) /\ HasPrice(Usomm)
    BY DEF Due, BeginAuctionChecks
  <2>2. SaleTokenPriceInUsomm(d) \in Nat
    BY <2>1, StartPriceNat DEF IInv, AuctionIsValid, HasPrice
  <2> QED
    BY <2>2 DEF AuctionIsValid
<1>3. Position(d) \in Nat \ {0}
  BY Positions, DueFinite
<1>4. Begun(d) = [new EXCEPT !.id = lastAuctionID + Position(d)]
  BY DEF Begun, Position
<1>5. lastAuctionID + Position(d) \in Nat \ {0}
  BY <1>1, <1>3
<1> QED
  BY <1>1, <1>2, <1>4, <1>5, FeeAccounts DEF NewAuction, AuctionRec

\* What the emission takes is there and is not nothing, and the peak stays a
\* number.
LEMMA EmissionCovered ==
  ASSUME FInv, NEW remaining \in Nat \ {0}
  PROVE  /\ Emission(remaining) \in Nat \ {0} /\ Emission(remaining) <= remaining
         /\ PeakAfter(remaining) \in Nat
<1>1. feeParams.emissionPeriod \in Nat \ {0} /\ peak \in Nat
  BY DEF FInv, FeesTypeOK, FeeParams, ParamsAreValid, ValidFeeParams
<1>2. NewPeak(remaining) \in Nat
  BY <1>1 DEF NewPeak
<1>3. PeakShare(remaining) \in Nat
  BY <1>1, <1>2, DivNat DEF PeakShare
<1> QED
  BY <1>2, <1>3 DEF Emission, PeakAfter, Smaller

\* What a BeginBlocker that completes does to the stores and the bank.
LEMMA BeginBlockFacts ==
  ASSUME IInv, BInv, FInv, BeginBlockCompletes,
         \A d \in Due : AuctionIsValid(d, feeParams.rate, feeParams.priceInterval)
  PROVE  /\ active' = active \cup {Begun(d) : d \in Due}
         /\ lastAuctionID' = lastAuctionID + Cardinality(Due)
         /\ UNCHANGED <<height, params, tokenPrices, ended, bids, lastBidID,
                        halted, feeParams>>
         /\ counters' = ResetCounters /\ phase' = "deliver"
         /\ bank' \in Bank
         /\ peak' \in Nat /\ feeCollector' \in Nat
         /\ \A d \in SaleDenoms :
              /\ bank'[Cellarfees][d] = IF d \in Due THEN 0 ELSE bank[Cellarfees][d]
              /\ bank'[AuctionAccount][d] =
                   bank[AuctionAccount][d] + IF d \in Due THEN bank[Cellarfees][d] ELSE 0
         /\ bank'[AuctionAccount][Usomm] = bank[AuctionAccount][Usomm]
         /\ bank[Cellarfees][Usomm] > 0 => bank'[Cellarfees][Usomm] < bank[Cellarfees][Usomm]
         /\ bank'[Cellarfees][Usomm] + feeCollector' = bank[Cellarfees][Usomm] + feeCollector
<1> DEFINE remaining == bank[Cellarfees][Usomm]
           emitted   == IF remaining = 0 THEN 0 ELSE Emission(remaining)
<1>1. bank \in Bank /\ remaining \in Nat /\ peak \in Nat /\ feeCollector \in Nat
  BY FeeAccounts DEF IInv, TypeOK, Bank, FInv, FeesTypeOK
<1>2. /\ emitted \in Nat /\ emitted <= remaining /\ (remaining # 0 => emitted # 0)
      /\ remaining # 0 => PeakAfter(remaining) \in Nat
  BY <1>1, EmissionCovered
<1>3. /\ bank' = BankAfterBegin(emitted) /\ feeCollector' = feeCollector + emitted
      /\ peak' = IF remaining = 0 THEN peak ELSE PeakAfter(remaining)
  BY DEF BeginBlockCompletes
<1>4. Due \subseteq SaleDenoms
  BY DEF Due
<1> HIDE DEF emitted
<1>5. \A acct \in Accounts, d \in Denoms : bank'[acct][d] =
         CASE d = Usomm /\ acct = Cellarfees -> bank[acct][d] - emitted
           [] d \in Due /\ acct = Cellarfees -> 0
           [] d \in Due /\ acct = AuctionAccount -> bank[acct][d] + bank[Cellarfees][d]
           [] OTHER -> bank[acct][d]
  BY <1>3 DEF BankAfterBegin
<1>6. /\ bank'[Cellarfees][Usomm] = remaining - emitted
      /\ bank'[AuctionAccount][Usomm] = bank[AuctionAccount][Usomm]
  BY <1>4, <1>5, FeeAccounts
<1>7. ASSUME NEW d \in SaleDenoms
      PROVE  /\ bank'[Cellarfees][d] = IF d \in Due THEN 0 ELSE bank[Cellarfees][d]
             /\ bank'[AuctionAccount][d] =
                  bank[AuctionAccount][d] + IF d \in Due THEN bank[Cellarfees][d] ELSE 0
  BY <1>1, <1>5, FeeAccounts DEF Bank
<1>8. \A acct \in Accounts \ {Cellarfees, AuctionAccount}, d \in Denoms :
         bank'[acct][d] = bank[acct][d]
  BY <1>5
<1>9. \A acct \in Accounts, d \in Denoms : bank'[acct][d] \in Nat
  <2> SUFFICES ASSUME NEW acct \in Accounts, NEW d \in Denoms
               PROVE  bank'[acct][d] \in Nat
    OBVIOUS
  <2>1. bank[acct][d] \in Nat /\ bank[Cellarfees][d] \in Nat
        /\ bank[AuctionAccount][d] \in Nat
    BY <1>1, FeeAccounts DEF Bank
  <2>2. CASE d = Usomm
    BY <1>1, <1>2, <1>6, <1>8, <2>1, <2>2
  <2>3. CASE d \in SaleDenoms
    BY <1>7, <1>8, <2>1, <2>3
  <2> QED
    BY <2>2, <2>3 DEF Denoms
<1>10. bank' \in Bank
  <2>1. bank' = [acct \in Accounts |-> [d \in Denoms |-> bank'[acct][d]]]
    BY <1>3 DEF BankAfterBegin
  <2> QED
    BY <1>9, <2>1 DEF Bank
<1>11. peak' \in Nat /\ feeCollector' \in Nat
  BY <1>1, <1>2, <1>3
<1>12. /\ remaining > 0 => bank'[Cellarfees][Usomm] < remaining
       /\ bank'[Cellarfees][Usomm] + feeCollector' = remaining + feeCollector
  BY <1>1, <1>2, <1>3, <1>6
<1> QED
  BY <1>6, <1>7, <1>10, <1>11, <1>12 DEF BeginBlockCompletes

\* Several auctions begun together take different new ids, and each is backed
\* by the fees moved with it.
LEMMA BeginBlockerIInv ==
  ASSUME IInv, BInv, FInv, BeginBlockCompletes,
         \A d \in Due : AuctionIsValid(d, feeParams.rate, feeParams.priceInterval)
  PROVE  IInv'
<1> DEFINE new == {Begun(d) : d \in Due}
<1>1. /\ active' = active \cup new
      /\ lastAuctionID' = lastAuctionID + Cardinality(Due)
      /\ UNCHANGED <<height, params, tokenPrices, ended, bids, lastBidID, halted>>
      /\ phase' = "deliver" /\ bank' \in Bank
      /\ \A d \in SaleDenoms : bank'[AuctionAccount][d] =
            bank[AuctionAccount][d] + IF d \in Due THEN bank[Cellarfees][d] ELSE 0
      /\ bank'[AuctionAccount][Usomm] = bank[AuctionAccount][Usomm]
  BY BeginBlockFacts
<1>2. \A d \in Due : /\ Begun(d) \in AuctionRec /\ Begun(d).id = lastAuctionID + Position(d)
                     /\ Begun(d).denom = d /\ Begun(d).endBlock = 0
                     /\ Begun(d).remaining = bank[Cellarfees][d]
  BY BegunFacts
<1>3. /\ \A d \in Due : Position(d) \in 1..Cardinality(Due)
      /\ \A d, e \in Due : Position(d) = Position(e) => d = e
  BY Positions
<1>4. Cardinality(Due) \in Nat /\ lastAuctionID \in Nat /\ Due \subseteq SaleDenoms
  BY DueFinite DEF IInv, TypeOK
<1>5. \A a \in new : /\ a \in AuctionRec /\ a.endBlock = 0 /\ a.denom \in Due
                     /\ a.id > lastAuctionID /\ a.id <= lastAuctionID + Cardinality(Due)
                     /\ a.remaining = bank[Cellarfees][a.denom]
  BY <1>2, <1>3, <1>4
<1>6. \A a, b \in new : (a.id = b.id => a = b) /\ (a.denom = b.denom => a = b)
  <2> SUFFICES ASSUME NEW d \in Due, NEW e \in Due
               PROVE  /\ Begun(d).id = Begun(e).id => Begun(d) = Begun(e)
                      /\ Begun(d).denom = Begun(e).denom => Begun(d) = Begun(e)
    OBVIOUS
  <2>1. Position(d) \in Nat /\ Position(e) \in Nat
    BY <1>3, <1>4
  <2>2. Begun(d).id = Begun(e).id => d = e
    BY <1>2, <1>3, <1>4, <2>1
  <2> QED
    BY <1>2, <2>2
<1>7. \A d \in Due : ~ OnSale(d)
  BY DEF Due
<1>8. \A d \in Due : Begun(d) \in new /\ Begun(d).denom = d
  BY <1>2
<1> HIDE DEF new
<1>9. TypeOK'
  <2>1. active' \subseteq AuctionRec /\ lastAuctionID' \in Nat
    BY <1>1, <1>4, <1>5 DEF IInv, TypeOK
  <2> QED
    BY <1>1, <2>1 DEF IInv, TypeOK, Bank
<1>10. StoreWellFormed'
  <2>1. \A a \in active \cup ended : a.id \in Nat /\ a.id <= lastAuctionID
    BY DEF IInv, TypeOK, StoreWellFormed, AuctionRec
  <2>2. \A a \in new : a.id \in Nat
    BY <1>5 DEF AuctionRec
  <2>3. \A a, b \in active' \cup ended' : a.id = b.id => a = b
    <3>1. \A a \in new, b \in active \cup ended : a.id # b.id
      BY <1>4, <1>5, <2>1, <2>2
    <3> QED
      BY <1>1, <1>6, <3>1 DEF IInv, StoreWellFormed
  <2>4. \A a \in active' \cup ended' : a.id <= lastAuctionID'
    BY <1>1, <1>4, <1>5, <2>1
  <2>5. \A a, b \in active' : a.denom = b.denom => a = b
    BY <1>1, <1>5, <1>6, <1>7 DEF IInv, StoreWellFormed, OnSale
  <2> QED
    BY <1>1, <1>5, <2>3, <2>4, <2>5 DEF IInv, StoreWellFormed
<1>11. BidsWellFormed'
  <2>1. \A b \in bids : b.auction \in Nat
    BY DEF IInv, TypeOK, BidRec
  <2> QED
    BY <1>1, <1>4, <2>1 DEF IInv, BidsWellFormed, CoinsPaid
<1>12. SaleTokensBacked'
  <2> SUFFICES ASSUME NEW d \in SaleDenoms
               PROVE  /\ \A a \in active' :
                            a.denom = d => bank'[AuctionAccount][d] = a.remaining
                      /\ ~ OnSale(d)' => bank'[AuctionAccount][d] = 0
    BY DEF SaleTokensBacked
  <2>1. bank[AuctionAccount][d] \in Nat /\ bank[Cellarfees][d] \in Nat
    BY FeeAccounts DEF IInv, TypeOK
  <2>2. CASE d \in Due
    <3>1. bank[AuctionAccount][d] = 0 /\ \A a \in active : a.denom # d
      BY <1>7, <2>2 DEF IInv, SaleTokensBacked, OnSale
    <3>2. bank'[AuctionAccount][d] = bank[Cellarfees][d]
      BY <1>1, <2>1, <2>2, <3>1
    <3> QED
      BY <1>1, <1>5, <1>8, <2>2, <3>1, <3>2 DEF OnSale
  <2>3. CASE d \notin Due
    <3>1. bank'[AuctionAccount][d] = bank[AuctionAccount][d]
      BY <1>1, <2>1, <2>3
    <3> QED
      BY <1>1, <1>5, <2>3, <3>1 DEF IInv, SaleTokensBacked, OnSale
  <2> QED
    BY <2>2, <2>3
<1>13. ProceedsBacked'
  <2>1. \A b \in bids : b.auction \in Nat /\ b.auction <= lastAuctionID
    BY DEF IInv, TypeOK, BidRec, BidsWellFormed
  <2>2. \A b \in bids : \A a \in new : b.auction # a.id
    BY <1>4, <1>5, <2>1
  <2>3. BidsOf(bids, active)' = BidsOf(bids, active)
    BY <1>1, <2>2 DEF BidsOf
  <2>4. UsommPaid(BidsOf(bids, active))' = UsommPaid(BidsOf(bids, active))
    BY <2>3 DEF UsommPaid, CoinsPaid
  <2> QED
    BY <1>1, <2>4 DEF IInv, ProceedsBacked
<1> QED
  BY <1>1, <1>9, <1>10, <1>11, <1>12, <1>13 DEF IInv, EndBlockNeverPanics

\* The auctions begun together have no bids and have sold nothing.
LEMMA BeginBlockerBInv ==
  ASSUME IInv, BInv, FInv, BeginBlockCompletes,
         \A d \in Due : AuctionIsValid(d, feeParams.rate, feeParams.priceInterval)
  PROVE  BInv'
<1> DEFINE new == {Begun(d) : d \in Due}
<1>1. active' = active \cup new /\ UNCHANGED <<height, ended, bids>>
  BY BeginBlockFacts
<1>2. \A a \in new : /\ a.starting = a.remaining /\ a.remaining \in Nat
                     /\ a.price = a.initialPrice /\ a.price \in Nat
                     /\ a.id > lastAuctionID /\ a.id \in Nat /\ lastAuctionID \in Nat
  <2> SUFFICES ASSUME NEW d \in Due
               PROVE  /\ Begun(d).starting = Begun(d).remaining
                      /\ Begun(d).remaining \in Nat
                      /\ Begun(d).price = Begun(d).initialPrice /\ Begun(d).price \in Nat
                      /\ Begun(d).id > lastAuctionID /\ Begun(d).id \in Nat
                      /\ lastAuctionID \in Nat
    OBVIOUS
  <2>1. lastAuctionID \in Nat /\ Position(d) \in Nat \ {0}
    BY DueFinite, Positions DEF IInv, TypeOK
  <2> QED
    BY <2>1, BegunFacts DEF AuctionRec
<1> HIDE DEF new
<1>3. \A b \in bids : \A a \in new : b.auction # a.id
  BY <1>2 DEF IInv, TypeOK, BidRec, BidsWellFormed
<1>4. \A a \in new : BidsOf(bids, {a}) = {}
  BY <1>3 DEF BidsOf
<1>5. BidsAreFair' /\ BidsAreOfPast' /\ FinitelySold'
  BY <1>1 DEF BInv, BidsAreFair, BidsAreOfPast, FinitelySold, CoinsBought
<1>6. SoldMatchesBids'
  <2>1. TokensBought({}) = 0
    <3>1. CoinsBought({}) = {}
      BY DEF CoinsBought
    <3> QED
      BY <3>1, FS_EmptySet DEF TokensBought
  <2>2. \A a \in active' \cup ended' :
          a.starting = a.remaining + TokensBought(BidsOf(bids, {a}))
    <3>1. \A a \in new : a.starting = a.remaining + TokensBought(BidsOf(bids, {a}))
      BY <1>2, <1>4, <2>1
    <3> QED
      BY <1>1, <3>1 DEF BInv, SoldMatchesBids
  <2>3. \A a : TokensBought(BidsOf(bids, {a}))' = TokensBought(BidsOf(bids, {a}))
    BY <1>1 DEF TokensBought, CoinsBought, BidsOf
  <2> QED
    BY <1>1, <2>2, <2>3 DEF BInv, SoldMatchesBids
<1>7. BidPricesFall'
  <2>1. \A a : BidsOf(bids', {a}) = BidsOf(bids, {a})
    BY <1>1 DEF BidsOf
  <2>2. \A a \in active' : \A b \in BidsOf(bids', {a}) : a.price <= b.unitPrice
    BY <1>1, <1>4, <2>1 DEF BInv, BidPricesFall
  <2>3. \A a \in active' : a.price <= a.initialPrice
    BY <1>1, <1>2 DEF BInv, BidPricesFall
  <2> QED
    BY <1>1, <2>2, <2>3 DEF BInv, BidPricesFall, BidsOf
<1>8. ActiveIsLatest'
  <2>1. \A a \in new, e \in ended : e.id < a.id
    <3>1. \A e \in ended : e.id \in Nat /\ e.id <= lastAuctionID
      BY DEF IInv, TypeOK, AuctionRec, StoreWellFormed
    <3> QED
      BY <1>2, <3>1
  <2> QED
    BY <1>1, <2>1 DEF BInv, ActiveIsLatest
<1>9. AllOnSchedule'
  <2>1. \A a \in new : OnSchedule(a, height)
    <3> SUFFICES ASSUME NEW d \in Due PROVE OnSchedule(Begun(d), height)
      BY DEF new
    <3> QED
      BY NewOnSchedule, BegunFacts DEF AuctionRec, IInv, TypeOK
  <2> QED
    BY <1>1, <2>1 DEF BInv, AllOnSchedule
<1> QED
  BY <1>5, <1>6, <1>7, <1>8, <1>9 DEF BInv

\* A reset takes the counted fees out of the account together with the count.
LEMMA BeginBlockerFInv ==
  ASSUME IInv, BInv, FInv, BeginBlockCompletes,
         \A d \in Due : AuctionIsValid(d, feeParams.rate, feeParams.priceInterval)
  PROVE  FInv'
<1>1. /\ UNCHANGED feeParams /\ counters' = ResetCounters
      /\ peak' \in Nat /\ feeCollector' \in Nat
      /\ \A d \in SaleDenoms :
            bank'[Cellarfees][d] = IF d \in Due THEN 0 ELSE bank[Cellarfees][d]
  BY BeginBlockFacts
<1>2. \A d \in SaleDenoms :
         counters[d] \in Nat /\ counters'[d] = IF d \in Due THEN 0 ELSE counters[d]
  BY <1>1 DEF ResetCounters, FInv, FeesTypeOK
<1>3. counters' \in [SaleDenoms -> Nat]
  BY <1>1, <1>2 DEF ResetCounters
<1>4. FeesTypeOK'
  BY <1>1, <1>3, BeginBlockerIInv DEF IInv, FInv, FeesTypeOK
<1>5. CountedFeesHeld'
  BY <1>1, <1>2 DEF FInv, CountedFeesHeld
<1>6. FinitelyCounted'
  <2>1. {d \in SaleDenoms : counters'[d] > 0}
            \in SUBSET {d \in SaleDenoms : counters[d] > 0}
    BY <1>2
  <2>2. IsFiniteSet({d \in SaleDenoms : counters'[d] > 0})
    BY <2>1, FS_Subset DEF FInv, FinitelyCounted
  <2> QED
    BY <2>2 DEF FinitelyCounted
<1> QED
  BY <1>1, <1>4, <1>5, <1>6 DEF FInv, ParamsAreValid, ValidFeeParams

\* The whole BeginBlocker, its panic included, preserves the invariants.
LEMMA BeginBlockerInv ==
  ASSUME IInv, BInv, FInv, BeginBlocker
  PROVE  IInv' /\ BInv' /\ FInv'
<1>1. CASE \A d \in Due : AuctionIsValid(d, feeParams.rate, feeParams.priceInterval)
  BY <1>1, BeginBlockerIInv, BeginBlockerBInv, BeginBlockerFInv DEF BeginBlocker
<1>2. CASE ~ \A d \in Due : AuctionIsValid(d, feeParams.rate, feeParams.priceInterval)
  <2>1. Halt("begin") /\ UNCHANGED feeVars
    BY <1>2 DEF BeginBlocker
  <2>2. IInv' /\ BInv'
    BY <2>1, HaltIInv, BInvKept DEF Halt
  <2>3. UNCHANGED <<bank, counters, peak, feeParams, feeCollector>>
    BY <2>1 DEF Halt, feeVars
  <2> QED
    BY <2>2, <2>3 DEF IInv, FInv, FeesTypeOK, CountedFeesHeld, ParamsAreValid,
       ValidFeeParams, FinitelyCounted
<1> QED
  BY <1>1, <1>2

-----------------------------------------------------------------------------
(* The steps of x/auction *)

\* Finishing auctions only adds to the balances of other accounts.
LEMMA FinishAdds ==
  ASSUME NEW bk \in Bank, NEW bs, IsFiniteSet(CoinsPaid(bs)), NEW done,
         NEW acct \in Accounts \ {AuctionAccount}, NEW d \in Denoms
  PROVE  FinishAuctionBank(bk, bs, done)[acct][d] >= bk[acct][d]
<1>1. UsommPaid(BidsOf(bs, PaidTo(done, acct, d))) \in Nat
  BY PaidSubset DEF BidsOf
<1>2. Owed(bk, bs, PaidTo(done, acct, d), d) \in Nat /\ bk[acct][d] \in Nat
  BY <1>1, FeeAccounts DEF Owed, Bank
<1>3. FinishAuctionBank(bk, bs, done)[acct][d] =
        bk[acct][d] + Owed(bk, bs, PaidTo(done, acct, d), d)
  BY DEF FinishAuctionBank
<1> QED
  BY <1>2, <1>3

\* No step of x/auction after BeginBlock takes anything from the account: bids
\* are paid by bidders, and unsold fees and proceeds come back to it.
LEMMA AuctionStepPays ==
  ASSUME IInv, SomeBid \/ Governance \/ EndBlocker, NEW d \in Denoms
  PROVE  bank'[Cellarfees][d] >= bank[Cellarfees][d]
<1> USE FeeAccounts
<1>1. bank \in Bank /\ bank[Cellarfees][d] \in Nat /\ IsFiniteSet(CoinsPaid(bids))
  BY DEF IInv, TypeOK, Bank, BidsWellFormed
<1>2. CASE Governance
  BY <1>1, <1>2 DEF Governance, SetTokenPrices, ChangeParams
<1>3. CASE EndBlocker
  <2>1. bank' = FinishAuctionBank(bank, bids, Exhausted) \/ bank' = bank
    BY <1>3 DEF EndBlocker, EndBlockCompletes, Halt
  <2> QED
    BY <1>1, <2>1, FinishAdds
<1>4. CASE SomeBid
  <2>1. PICK bidder \in Bidders, a \in active, maxBid \in MaxBids,
             minAmount \in MinAmounts : SubmitBid(bidder, a, maxBid, minAmount)
    BY <1>4 DEF SomeBid
  <2> DEFINE balance   == bank[AuctionAccount][a.denom]
             fulfilled == SaleTokensToPurchase(balance, a.price, maxBid)
             bid       == NewBid(a, bidder, maxBid, minAmount, fulfilled)
             paidBank  == SendCoins(bank, bidder, AuctionAccount, Usomm, bid.paid)
             soldBank  == SendCoins(paidBank, AuctionAccount, bidder, a.denom, fulfilled)
             sold      == [a EXCEPT !.remaining = balance - fulfilled]
             newBids   == bids \cup {bid}
  <2>2. /\ a \in AuctionRec /\ maxBid \in Nat \ {0}
        /\ bidder \in Accounts /\ bidder # AuctionAccount /\ bidder # Cellarfees
        /\ bids \subseteq BidRec /\ lastBidID \in Nat
    BY ConstantAssumption DEF IInv, TypeOK, Accounts
  <2>3. a.denom \in SaleDenoms /\ a.denom \in Denoms /\ a.price \in Nat \ {0}
        /\ a.denom # Usomm
    BY <2>2 DEF AuctionRec
  <2>4. balance \in Nat
    BY <1>1, <2>3 DEF Bank
  <2>5. fulfilled \in Nat /\ fulfilled <= balance /\ Payment(fulfilled, a.price) \in Nat
    BY <2>2, <2>3, <2>4, BidAmounts
  <2>6. /\ bid.paid <= bank[bidder][Usomm]
        /\ bank' = FinishAuctionBank(soldBank, newBids, {sold}) \/ bank' = soldBank
    BY <2>1 DEF SubmitBid
  <2> HIDE DEF fulfilled, balance
  <2>7. bid.paid \in Nat /\ bid.id = lastBidID + 1
    BY <2>5 DEF NewBid
  <2> HIDE DEF bid, sold
  <2>8. /\ paidBank \in Bank
        /\ paidBank[Cellarfees][d] = bank[Cellarfees][d]
        /\ paidBank[AuctionAccount][a.denom] = balance
    BY <1>1, <2>2, <2>3, <2>6, <2>7, SendBank DEF balance
  <2> HIDE DEF paidBank
  <2>9. soldBank \in Bank /\ soldBank[Cellarfees][d] = bank[Cellarfees][d]
    BY <2>2, <2>3, <2>5, <2>8, SendBank
  <2> HIDE DEF soldBank
  <2>10. bid \notin bids
    BY <2>2, <2>7 DEF IInv, BidsWellFormed, BidRec
  <2>11. IsFiniteSet(CoinsPaid(newBids))
    BY <1>1, <2>7, <2>10, PaidAdd
  <2>12. FinishAuctionBank(soldBank, newBids, {sold})[Cellarfees][d]
            >= soldBank[Cellarfees][d]
    BY <2>9, <2>11, FinishAdds
  <2> QED
    BY <1>1, <2>6, <2>9, <2>12
<1> QED
  BY <1>2, <1>3, <1>4

\* The steps of x/auction preserve the invariants of both modules.
LEMMA AuctionStepInv ==
  ASSUME IInv, BInv, FInv, AuctionStep
  PROVE  IInv' /\ BInv' /\ FInv'
<1>1. IInv' /\ BInv'
  BY NextIInv, NextBInv DEF AuctionStep, Next
<1>2. UNCHANGED <<counters, peak, feeParams, feeCollector>>
  BY DEF AuctionStep, feeVars
<1>3. FeesTypeOK' /\ ParamsAreValid' /\ FinitelyCounted'
  BY <1>1, <1>2 DEF IInv, FInv, FeesTypeOK, ParamsAreValid, ValidFeeParams,
     FinitelyCounted
<1>4. CountedFeesHeld'
  <2>1. \A d \in SaleDenoms : bank[Cellarfees][d] \in Nat /\ bank'[Cellarfees][d] \in Nat
    BY <1>1, FeeAccounts DEF IInv, TypeOK
  <2>2. \A d \in SaleDenoms : bank'[Cellarfees][d] >= bank[Cellarfees][d]
    BY AuctionStepPays, FeeAccounts DEF AuctionStep
  <2>3. \A d \in SaleDenoms : counters[d] > 0 => bank[Cellarfees][d] > 0
    BY DEF FInv, CountedFeesHeld
  <2> QED
    BY <1>2, <2>1, <2>2, <2>3 DEF CountedFeesHeld
<1> QED
  BY <1>1, <1>3, <1>4 DEF FInv

-----------------------------------------------------------------------------
(* Bridge events and parameters *)

\* A bridge event pays into the account, which no store of x/auction is about.
LEMMA SendToCosmosInv ==
  ASSUME IInv, BInv, FInv, NEW d \in Denoms, NEW amount \in Nat, NEW managed \in BOOLEAN,
         SendToCosmos(d, amount, managed)
  PROVE  IInv' /\ BInv' /\ FInv'
<1> USE FeeAccounts
<1>1. /\ UNCHANGED <<height, params, tokenPrices, active, ended, bids, lastAuctionID,
                     lastBidID, halted, peak, feeParams, feeCollector>>
      /\ phase' = "gov"
      /\ bank' = [bank EXCEPT ![Cellarfees][d] = @ + amount]
      /\ counters' = IF Counted(d, amount, managed) THEN IncrementCounter(d) ELSE counters
  BY DEF SendToCosmos
<1>2. bank \in Bank
  BY DEF IInv, TypeOK, Bank
<1>3. /\ bank' \in Bank
      /\ bank'[AuctionAccount] = bank[AuctionAccount]
      /\ bank'[Cellarfees] = [bank[Cellarfees] EXCEPT ![d] = bank[Cellarfees][d] + amount]
  <2>1. bank[Cellarfees] \in [Denoms -> Nat] /\ bank[Cellarfees][d] + amount \in Nat
    BY <1>2 DEF Bank
  <2> QED
    BY <1>1, <1>2, <2>1 DEF Bank
<1>4. IInv'
  <2>1. TypeOK'
    BY <1>1, <1>3 DEF IInv, TypeOK, Bank
  <2> QED
    BY <1>1, <1>3, <2>1 DEF IInv, StoreWellFormed, BidsWellFormed, SaleTokensBacked,
       ProceedsBacked, EndBlockNeverPanics, OnSale, BidsOf, UsommPaid, CoinsPaid
<1>5. BInv'
  BY <1>1, BInvKept
<1>6. counters \in [SaleDenoms -> Nat]
  BY DEF FInv, FeesTypeOK
<1>7. CASE Counted(d, amount, managed)
  <2>1. d \in SaleDenoms /\ amount > 0
    BY <1>7 DEF Counted, Denoms
  <2>2. counters' = [counters EXCEPT ![d] = counters[d] + 1]
    BY <1>1, <1>7 DEF IncrementCounter
  <2>3. counters' \in [SaleDenoms -> Nat]
    BY <1>6, <2>1, <2>2
  <2>4. FeesTypeOK' /\ ParamsAreValid'
    BY <1>1, <1>4, <2>3 DEF IInv, FInv, FeesTypeOK, ParamsAreValid, ValidFeeParams
  <2>5. CountedFeesHeld'
    <3> SUFFICES ASSUME NEW e \in SaleDenoms, counters'[e] > 0
                 PROVE  bank'[Cellarfees][e] > 0
      BY DEF CountedFeesHeld
    <3>1. bank[Cellarfees][e] \in Nat /\ bank[Cellarfees] \in [Denoms -> Nat]
      BY <1>2 DEF Bank
    <3>2. CASE e = d
      BY <1>3, <2>1, <3>1, <3>2
    <3>3. CASE e # d
      BY <1>3, <1>6, <2>1, <2>2, <3>1, <3>3 DEF FInv, CountedFeesHeld
    <3> QED
      BY <3>2, <3>3
  <2>6. FinitelyCounted'
    <3> DEFINE S == {e \in SaleDenoms : counters[e] > 0}
               T == {e \in SaleDenoms : counters'[e] > 0}
    <3>1. T \in SUBSET (S \cup {d})
      BY <1>6, <2>1, <2>2
    <3>2. IsFiniteSet(S \cup {d})
      BY FS_AddElement DEF FInv, FinitelyCounted
    <3>3. IsFiniteSet(T)
      BY <3>1, <3>2, FS_Subset
    <3> QED
      BY <3>3 DEF FinitelyCounted
  <2> QED
    BY <1>4, <1>5, <2>4, <2>5, <2>6 DEF FInv
<1>8. CASE ~ Counted(d, amount, managed)
  <2>1. counters' = counters
    BY <1>1, <1>8
  <2>2. FeesTypeOK' /\ ParamsAreValid' /\ FinitelyCounted'
    BY <1>1, <1>4, <2>1 DEF IInv, FInv, FeesTypeOK, ParamsAreValid, ValidFeeParams,
       FinitelyCounted
  <2>3. CountedFeesHeld'
    <3> SUFFICES ASSUME NEW e \in SaleDenoms, counters'[e] > 0
                 PROVE  bank'[Cellarfees][e] > 0
      BY DEF CountedFeesHeld
    <3>1. bank[Cellarfees][e] \in Nat /\ bank[Cellarfees] \in [Denoms -> Nat]
      BY <1>2 DEF Bank
    <3>2. bank[Cellarfees][e] > 0
      BY <2>1 DEF FInv, CountedFeesHeld
    <3> QED
      BY <1>3, <3>1, <3>2
  <2> QED
    BY <1>4, <1>5, <2>2, <2>3 DEF FInv
<1> QED
  BY <1>7, <1>8

\* Governance sets only parameters that their validators accept.
LEMMA ChangeFeeParamsInv ==
  ASSUME IInv, BInv, FInv, NEW p \in FeeParamSets, ChangeFeeParams(p)
  PROVE  IInv' /\ BInv' /\ FInv'
<1>1. /\ UNCHANGED <<height, params, tokenPrices, active, ended, bids, lastAuctionID,
                     lastBidID, bank, halted, counters, peak, feeCollector>>
      /\ phase' = "gov" /\ feeParams' = p /\ ValidFeeParams(p)
  BY DEF ChangeFeeParams
<1>2. IInv'
  <2>1. TypeOK'
    BY <1>1 DEF IInv, TypeOK
  <2> QED
    BY <1>1, <2>1 DEF IInv, StoreWellFormed, BidsWellFormed, SaleTokensBacked,
       ProceedsBacked, EndBlockNeverPanics, OnSale, BidsOf, UsommPaid, CoinsPaid
<1>3. BInv'
  BY <1>1, BInvKept
<1>4. FInv'
  BY <1>1, <1>2, FeeAssumption DEF IInv, FInv, FeesTypeOK, CountedFeesHeld,
     ParamsAreValid, ValidFeeParams, FinitelyCounted
<1> QED
  BY <1>2, <1>3, <1>4

-----------------------------------------------------------------------------
(* The theorems *)

\* A step that changes nothing preserves the invariants.
LEMMA AllKept ==
  ASSUME IInv, BInv, FInv, UNCHANGED allVars
  PROVE  IInv' /\ BInv' /\ FInv'
<1>1. UNCHANGED vars /\ UNCHANGED <<counters, peak, feeParams, feeCollector>>
  BY DEF allVars, feeVars
<1>2. UNCHANGED bank
  BY <1>1 DEF vars
<1>3. IInv' /\ BInv'
  BY <1>1, AuctionInvsKept
<1> QED
  BY <1>1, <1>2, <1>3 DEF IInv, FInv, FeesTypeOK, CountedFeesHeld, ParamsAreValid,
     ValidFeeParams, FinitelyCounted

\* Exporting and importing the genesis of both modules changes nothing.
LEMMA RestartKept ==
  ASSUME IInv, Restart
  PROVE  UNCHANGED allVars
BY GenesisRoundTrip DEF Restart, allVars

\* Every step of the composition preserves the invariants of both modules.
LEMMA FeesNextInv ==
  ASSUME IInv, BInv, FInv, [FeesNext]_allVars
  PROVE  IInv' /\ BInv' /\ FInv'
<1>1. CASE BeginBlocker
  BY <1>1, BeginBlockerInv
<1>2. CASE AuctionStep
  BY <1>2, AuctionStepInv
<1>3. CASE Restart
  BY <1>3, RestartKept, AllKept
<1>4. CASE SomeFee
  <2>1. PICK d \in Denoms, amount \in FeeAmounts, managed \in BOOLEAN :
               SendToCosmos(d, amount, managed)
    BY <1>4 DEF SomeFee
  <2>2. amount \in Nat
    BY FeeAssumption
  <2> QED
    BY <2>1, <2>2, SendToCosmosInv
<1>5. CASE \E p \in FeeParamSets : ChangeFeeParams(p)
  BY <1>5, ChangeFeeParamsInv
<1>6. CASE UNCHANGED allVars
  BY <1>6, AllKept
<1> QED
  BY <1>1, <1>2, <1>3, <1>4, <1>5, <1>6 DEF FeesNext

\* The invariants of x/auction and x/cellarfees hold in every reachable state
\* of their composition.
THEOREM FeesInvariance == FeesSpec => [](IInv /\ BInv /\ FInv)
<1>1. FeesSpec => FeesInit /\ [][FeesNext]_allVars
  BY PTL DEF FeesSpec
<1>2. IInv /\ BInv /\ FInv /\ [FeesNext]_allVars => (IInv /\ BInv /\ FInv)'
  BY FeesNextInv
<1> QED
  BY <1>1, <1>2, FeesInitInv, PTL

\* The records of both modules keep their types: an emission never takes more
\* than the account holds and no counter is reset below zero.
THEOREM FeesTypeCorrect == FeesSpec => []FeesTypeOK
<1>1. FInv => FeesTypeOK
  BY DEF FInv
<1> QED
  BY <1>1, FeesInvariance, PTL

\* A positive counter stands for fees that are still in the account, so that
\* the auction it triggers is never one of nothing.
THEOREM CountedFeesAreHeld == FeesSpec => []CountedFeesHeld
<1>1. FInv => CountedFeesHeld
  BY DEF FInv
<1> QED
  BY <1>1, FeesInvariance, PTL

\* The auction account stays backed when cellarfees begins several auctions in
\* one BeginBlocker, and unsold fees come back to the account they came from.
THEOREM FeesSaleTokensBacked == FeesSpec => []SaleTokensBacked
<1>1. IInv => SaleTokensBacked
  BY DEF IInv
<1> QED
  BY <1>1, FeesInvariance, PTL

\* What x/auction promises alone it keeps in the composition: the account can
\* always pay the proceeds, its EndBlocker does not halt the chain, bids are
\* fair, nothing is sold twice, prices fall on schedule and every auction whose
\* price falls at all has an end in sight.
THEOREM FeesKeepAuctionPromises ==
  FeesSpec => []( /\ ProceedsBacked /\ EndBlockNeverPanics
                  /\ BidsAreFair /\ SoldMatchesBids
                  /\ LaterBidsAreNotDearer /\ EndsInTime)
<1>1. IInv /\ BInv => /\ ProceedsBacked /\ EndBlockNeverPanics
                      /\ BidsAreFair /\ SoldMatchesBids
                      /\ LaterBidsAreNotDearer /\ EndsInTime
  BY PricesFallOf, EndInTime DEF IInv, BInv
<1> QED
  BY <1>1, FeesInvariance, PTL

\* The counter of a denomination falls only in the step that puts the whole
\* balance of that denomination on sale (abci.go:17, auction.go:17-64).
THEOREM ResetPutsOnSale == FeesSpec => ResetMeansOnSale
<1> DEFINE Reset ==
      \A d \in SaleDenoms : counters'[d] < counters[d] =>
          /\ \E a \in active' \ active : a.denom = d /\ a.remaining = bank[Cellarfees][d]
          /\ bank'[Cellarfees][d] = 0
<1>1. IInv /\ BInv /\ FInv /\ [FeesNext]_allVars => [Reset]_allVars
  <2> SUFFICES ASSUME IInv, BInv, FInv, FeesNext PROVE Reset \/ UNCHANGED allVars
    OBVIOUS
  <2>1. \A d \in SaleDenoms : counters[d] \in Nat
    BY DEF FInv, FeesTypeOK
  <2>2. CASE BeginBlockCompletes /\
             \A d \in Due : AuctionIsValid(d, feeParams.rate, feeParams.priceInterval)
    <3> SUFFICES ASSUME NEW d \in SaleDenoms, counters'[d] < counters[d]
                 PROVE  /\ \E a \in active' \ active :
                              a.denom = d /\ a.remaining = bank[Cellarfees][d]
                        /\ bank'[Cellarfees][d] = 0
      OBVIOUS
    <3>1. d \in Due
      BY <2>1, <2>2 DEF BeginBlockCompletes, ResetCounters
    <3>2. Begun(d) \in active' /\ bank'[Cellarfees][d] = 0
      BY <2>2, <3>1, BeginBlockFacts
    <3>3. Begun(d).denom = d /\ Begun(d).remaining = bank[Cellarfees][d]
      BY <2>2, <3>1, BegunFacts
    <3>4. Begun(d) \notin active
      BY <3>1, <3>3 DEF Due, OnSale
    <3> QED
      BY <3>2, <3>3, <3>4
  <2>3. CASE UNCHANGED counters
    BY <2>1, <2>3
  <2>4. CASE SomeFee
    <3>1. PICK d \in Denoms, amount \in FeeAmounts, managed \in BOOLEAN :
               SendToCosmos(d, amount, managed)
      BY <2>4 DEF SomeFee
    <3>2. counters' = counters \/ (counters' = [counters EXCEPT ![d] = counters[d] + 1])
      BY <3>1 DEF SendToCosmos, IncrementCounter
    <3>3. counters \in [SaleDenoms -> Nat]
      BY DEF FInv, FeesTypeOK
    <3>4. \A e \in SaleDenoms : ~ (counters'[e] < counters[e])
      BY <3>2, <3>3
    <3> QED
      BY <3>4
  <2> QED
    BY <2>2, <2>3, <2>4 DEF FeesNext, BeginBlocker, AuctionStep, Restart, ChangeFeeParams,
       feeVars
<1>2. FeesSpec => [][FeesNext]_allVars
  BY PTL DEF FeesSpec
<1>3. FeesSpec => [][Reset]_allVars
  BY <1>1, <1>2, FeesInvariance, PTL
<1> QED
  BY <1>3 DEF ResetMeansOnSale

\* The safety half of RewardsAreEmitted: every BeginBlocker that completes emits
\* something of a supply that is not empty, nothing else takes from the supply,
\* and what leaves it is exactly what the fee collector gets.
EmittedInBeginBlock ==
    /\ phase = "begin" /\ phase' # "begin" /\ bank[Cellarfees][Usomm] > 0
          => bank'[Cellarfees][Usomm] < bank[Cellarfees][Usomm]
    /\ bank'[Cellarfees][Usomm] < bank[Cellarfees][Usomm]
          => phase = "begin" /\ phase' # "begin"
    /\ feeCollector' # feeCollector \/ bank'[Cellarfees][Usomm] < bank[Cellarfees][Usomm]
          => bank'[Cellarfees][Usomm] + feeCollector'
                = bank[Cellarfees][Usomm] + feeCollector

\* The reward supply shrinks in every block until it is gone, by emission to the
\* fee collector alone (abci.go:11-40, cellarfees.go:29), whatever the auctions,
\* bids, bridge events and parameters of the other steps.
THEOREM RewardsShrink == FeesSpec => [][EmittedInBeginBlock]_allVars
<1>1. IInv /\ BInv /\ FInv /\ [FeesNext]_allVars => [EmittedInBeginBlock]_allVars
  <2> SUFFICES ASSUME IInv, BInv, FInv, FeesNext
               PROVE  EmittedInBeginBlock \/ UNCHANGED allVars
    OBVIOUS
  <2>1. bank[Cellarfees][Usomm] \in Nat /\ feeCollector \in Nat
    BY FeeAccounts DEF IInv, TypeOK, FInv, FeesTypeOK
  <2>2. bank'[Cellarfees][Usomm] \in Nat
    BY FeesNextInv, FeeAccounts DEF IInv, TypeOK
  <2>3. CASE BeginBlocker
    <3>1. CASE \A d \in Due : AuctionIsValid(d, feeParams.rate, feeParams.priceInterval)
      <4>1. BeginBlockCompletes /\ phase = "begin" /\ phase' = "deliver"
        BY <2>3, <3>1 DEF BeginBlocker, BeginBlockCompletes
      <4>2. /\ bank[Cellarfees][Usomm] > 0
                  => bank'[Cellarfees][Usomm] < bank[Cellarfees][Usomm]
            /\ bank'[Cellarfees][Usomm] + feeCollector'
                  = bank[Cellarfees][Usomm] + feeCollector
        BY <3>1, <4>1, BeginBlockFacts
      <4> QED
        BY <4>1, <4>2 DEF EmittedInBeginBlock
    <3>2. CASE ~ \A d \in Due : AuctionIsValid(d, feeParams.rate, feeParams.priceInterval)
      <4>1. UNCHANGED <<bank, feeCollector, phase>>
        BY <2>3, <3>2 DEF BeginBlocker, Halt, feeVars
      <4> QED
        BY <2>1, <4>1 DEF EmittedInBeginBlock
    <3> QED
      BY <3>1, <3>2
  <2>4. CASE AuctionStep
    <3>1. bank'[Cellarfees][Usomm] >= bank[Cellarfees][Usomm]
      BY <2>4, AuctionStepPays, FeeAccounts DEF AuctionStep
    <3>2. phase # "begin" /\ feeCollector' = feeCollector
      BY <2>4 DEF AuctionStep, feeVars
    <3> QED
      BY <2>1, <2>2, <3>1, <3>2 DEF EmittedInBeginBlock
  <2>5. CASE Restart
    BY <2>5, RestartKept
  <2>6. CASE SomeFee
    <3>1. PICK d \in Denoms, amount \in FeeAmounts, managed \in BOOLEAN :
               SendToCosmos(d, amount, managed)
      BY <2>6 DEF SomeFee
    <3>2. amount \in Nat /\ bank \in Bank
      BY FeeAssumption DEF IInv, TypeOK, Bank
    <3>3. /\ phase # "begin" /\ feeCollector' = feeCollector
          /\ bank' = [bank EXCEPT ![Cellarfees][d] = bank[Cellarfees][d] + amount]
      BY <3>1 DEF SendToCosmos
    <3>4. bank'[Cellarfees][Usomm] >= bank[Cellarfees][Usomm]
      BY <2>1, <3>2, <3>3, FeeAccounts DEF Bank
    <3> QED
      BY <2>1, <2>2, <3>3, <3>4 DEF EmittedInBeginBlock
  <2>7. CASE \E p \in FeeParamSets : ChangeFeeParams(p)
    <3>1. phase # "begin" /\ UNCHANGED <<bank, feeCollector>>
      BY <2>7 DEF ChangeFeeParams
    <3> QED
      BY <2>1, <3>1 DEF EmittedInBeginBlock
  <2> QED
    BY <2>3, <2>4, <2>5, <2>6, <2>7 DEF FeesNext
<1>2. FeesSpec => [][FeesNext]_allVars
  BY PTL DEF FeesSpec
<1> QED
  BY <1>1, <1>2, FeesInvariance, PTL

\* In the composition too pruning keeps the latest ended auction of every
\* denomination with its bids, and each for as long as the parameter promises.
THEOREM FeesKeepLatestEnded == FeesSpec => LatestEndedKept
<1> DEFINE Kept == /\ \A a \in ended \ ended' :
                        /\ \E b \in ended' : b.denom = a.denom /\ b.id > a.id
                        /\ \/ height > a.endBlock + params.auctionMaxBlockAge
                           \/ height < params.auctionMaxBlockAge
                   /\ \A b \in bids \ bids' : \E a \in ended \ ended' : a.id = b.auction
<1>1. IInv /\ BInv /\ FInv /\ [FeesNext]_allVars => [Kept]_vars
  <2> SUFFICES ASSUME IInv, BInv, [FeesNext]_allVars PROVE Kept \/ UNCHANGED vars
    OBVIOUS
  <2>1. CASE EndBlocker
    BY <2>1, EndBlockerKeepsLatest
  <2>2. CASE Restart
    BY <2>2, GenesisRoundTrip DEF Restart
  <2>3. CASE SomeBid
    <3>1. \A bidder, a, maxBid, minAmount :
             SubmitBid(bidder, a, maxBid, minAmount) =>
                ended \subseteq ended' /\ bids \subseteq bids'
      BY DEF SubmitBid
    <3>2. ended \subseteq ended' /\ bids \subseteq bids'
      BY <2>3, <3>1 DEF SomeBid
    <3> QED
      BY <3>2
  <2>4. CASE UNCHANGED <<ended, bids>>
    BY <2>4
  <2>5. Governance \/ BeginBlocker \/ SomeFee
           \/ (\E p \in FeeParamSets : ChangeFeeParams(p)) => UNCHANGED <<ended, bids>>
    BY DEF Governance, SetTokenPrices, ChangeParams, BeginBlocker, BeginBlockCompletes,
       Halt, SomeFee, SendToCosmos, ChangeFeeParams
  <2>6. CASE UNCHANGED allVars
    BY <2>6 DEF allVars
  <2> QED
    BY <2>1, <2>2, <2>3, <2>4, <2>5, <2>6 DEF FeesNext, AuctionStep
<1>2. FeesSpec => [][FeesNext]_allVars
  BY PTL DEF FeesSpec
<1>3. FeesSpec => [][Kept]_vars
  BY <1>1, <1>2, FeesInvariance, PTL
<1> QED
  BY <1>3 DEF LatestEndedKept

-----------------------------------------------------------------------------
(* The supply *)

\* Coins put on top of one balance are added to the supply.
LEMMA Minted ==
  ASSUME NEW bk \in Bank, NEW bk2 \in Bank, NEW d \in Denoms, NEW to \in Accounts,
         NEW amount \in Nat, bk2[to][d] = bk[to][d] + amount,
         \A acct \in Accounts \ {to} : bk2[acct][d] = bk[acct][d],
         IsFiniteSet(CoinsOf(bk, d))
  PROVE  /\ IsFiniteSet(CoinsOf(bk2, d))
         /\ Supply(bk, d) \in Nat /\ Supply(bk2, d) = Supply(bk, d) + amount
<1> DEFINE low == bk[to][d]
           new == {to} \X ((low + 1)..(low + amount))
           old == CoinsOf(bk, d)
<1>1. low \in Nat
  BY DEF Bank
<1>2. IsFiniteSet(new) /\ Cardinality(new) = amount
  <2>1. IsFiniteSet({to}) /\ Cardinality({to}) = 1
    BY FS_Singleton
  <2> HIDE DEF low
  <2>2. low + 1 \in Int /\ low + amount \in Int
    BY <1>1
  <2>3. /\ IsFiniteSet((low + 1)..(low + amount))
        /\ Cardinality((low + 1)..(low + amount)) =
              IF low + 1 > low + amount THEN 0 ELSE (low + amount) - (low + 1) + 1
    BY <2>2, FS_Interval
  <2>4. Cardinality((low + 1)..(low + amount)) = amount
    BY <1>1, <2>3
  <2>5. IsFiniteSet(new)
        /\ Cardinality(new) = Cardinality({to}) * Cardinality((low + 1)..(low + amount))
    BY <2>1, <2>3, FS_Product, Zenon
  <2> QED
    BY <2>1, <2>4, <2>5
<1>3. /\ \A e : e \in old <=> \E a \in Accounts : \E i \in 1..bk[a][d] : e = <<a, i>>
      /\ \A e : e \in CoinsOf(bk2, d) <=>
                   \E a \in Accounts : \E i \in 1..bk2[a][d] : e = <<a, i>>
      /\ \A e : e \in new <=> \E i \in (low + 1)..(low + amount) : e = <<to, i>>
  BY DEF CoinsOf
<1> HIDE DEF new, old
<1>4. \A a \in Accounts, i \in Int :
         /\ <<a, i>> \in old <=> i \in 1..bk[a][d]
         /\ <<a, i>> \in CoinsOf(bk2, d) <=> i \in 1..bk2[a][d]
         /\ <<a, i>> \in new <=> a = to /\ i \in (low + 1)..(low + amount)
  BY <1>3
<1>5. ASSUME NEW a \in Accounts, NEW i \in Int
      PROVE  /\ <<a, i>> \in CoinsOf(bk2, d) <=> <<a, i>> \in old \cup new
             /\ ~ (<<a, i>> \in old /\ <<a, i>> \in new)
  <2>1. CASE a = to
    BY <1>1, <1>4, <2>1
  <2>2. CASE a # to
    BY <1>4, <2>2
  <2> QED
    BY <2>1, <2>2
<1>6. \A e : e \in old \cup CoinsOf(bk2, d) \cup new =>
                \E a \in Accounts, i \in Int : e = <<a, i>>
  BY <1>3
<1>7. CoinsOf(bk2, d) = old \cup new /\ old \cap new = {}
  BY <1>5, <1>6
<1>8. IsFiniteSet(old) /\ Cardinality(old) \in Nat
  BY FS_CardinalityType DEF old
<1>9. /\ IsFiniteSet(old \cup new)
      /\ Cardinality(old \cup new) =
            Cardinality(old) + Cardinality(new) - Cardinality(old \cap new)
  BY <1>2, <1>8, FS_Union, Zenon
<1>10. Cardinality(old \cap new) = 0
  BY <1>7, FS_EmptySet
<1> QED
  BY <1>2, <1>7, <1>8, <1>9, <1>10 DEF Supply, old

\* Coins of d in the accounts of the model, with the rewards that have left them
\* for the fee collector.
Circulating(bk, collected, d) ==
    Supply(bk, d) + IF d = Usomm THEN collected ELSE 0

\* Coins of a denomination come into being only with a bridge event, which
\* brings exactly its amount, and they never vanish.
OnlyTheBridgeMints ==
    \A d \in Denoms :
        \/ Circulating(bank', feeCollector', d) = Circulating(bank, feeCollector, d)
        \/ \E amount \in FeeAmounts, managed \in BOOLEAN :
              /\ SendToCosmos(d, amount, managed)
              /\ Circulating(bank', feeCollector', d)
                    = Circulating(bank, feeCollector, d) + amount

AllFinite == \A d \in Denoms : IsFiniteSet(CoinsOf(bank, d))

\* The BeginBlocker moves the fees it sells and the rewards it emits.
LEMMA BeginBlockConserves ==
  ASSUME IInv, BInv, FInv, AllFinite, BeginBlockCompletes,
         \A d \in Due : AuctionIsValid(d, feeParams.rate, feeParams.priceInterval),
         NEW d \in Denoms
  PROVE  /\ IsFiniteSet(CoinsOf(bank', d))
         /\ Circulating(bank', feeCollector', d) = Circulating(bank, feeCollector, d)
<1> DEFINE remaining == bank[Cellarfees][Usomm]
<1>1. bank \in Bank /\ IsFiniteSet(CoinsOf(bank, d))
  BY DEF IInv, TypeOK, Bank, AllFinite
<1>2. /\ bank' \in Bank /\ feeCollector' \in Nat
      /\ remaining > 0 => bank'[Cellarfees][Usomm] < remaining
      /\ bank'[Cellarfees][Usomm] + feeCollector' = remaining + feeCollector
      /\ \A e \in SaleDenoms :
            /\ bank'[Cellarfees][e] = IF e \in Due THEN 0 ELSE bank[Cellarfees][e]
            /\ bank'[AuctionAccount][e] =
                 bank[AuctionAccount][e] + IF e \in Due THEN bank[Cellarfees][e] ELSE 0
      /\ bank'[AuctionAccount][Usomm] = bank[AuctionAccount][Usomm]
  BY BeginBlockFacts
<1>3. \A acct \in Accounts \ {Cellarfees, AuctionAccount} : bank'[acct][d] = bank[acct][d]
  BY DEF BeginBlockCompletes, BankAfterBegin
<1>4. feeCollector \in Nat
  BY DEF FInv, FeesTypeOK
<1>5. CASE d = Usomm
  <2> DEFINE left == bank'[Cellarfees][Usomm]
             n    == remaining - left
  <2>1. remaining \in Nat /\ left \in Nat
    BY <1>1, <1>2, FeeAccounts DEF Bank
  <2>2. left <= remaining
    BY <1>2, <1>4, <2>1, EmissionCovered DEF BeginBlockCompletes
  <2>3. n \in Nat /\ remaining = left + n /\ feeCollector' = feeCollector + n
    BY <1>2, <1>4, <2>1, <2>2
  <2>4. \A acct \in Accounts \ {Cellarfees} : bank[acct][d] = bank'[acct][d]
    BY <1>2, <1>3, <1>5
  <2>5. IsFiniteSet(CoinsOf(bank', d))
    <3>1. \A acct \in Accounts : bank'[acct][d] \in Nat /\ bank[acct][d] \in Nat
      BY <1>1, <1>2 DEF Bank
    <3>2. \A acct \in Accounts : bank'[acct][d] <= bank[acct][d]
      BY <1>5, <2>2, <2>4, <3>1
    <3>3. \A acct \in Accounts : 1..bank'[acct][d] \subseteq 1..bank[acct][d]
      BY <3>1, <3>2
    <3>4. CoinsOf(bank', d) \in SUBSET CoinsOf(bank, d)
      BY <3>3 DEF CoinsOf
    <3> QED
      BY <1>1, <3>4, FS_Subset
  <2>6. Supply(bank', d) \in Nat /\ Supply(bank, d) = Supply(bank', d) + n
    <3> HIDE DEF n
    <3> QED
      BY <1>1, <1>2, <1>5, <2>3, <2>4, <2>5, FeeAccounts, Minted
  <2> QED
    BY <1>2, <1>4, <1>5, <2>3, <2>5, <2>6 DEF Circulating
<1>6. CASE d # Usomm
  <2>1. d \in SaleDenoms
    BY <1>6 DEF Denoms
  <2>2. IsFiniteSet(CoinsOf(bank', d)) /\ Supply(bank', d) = Supply(bank, d)
    <3>1. CASE d \in Due
      <4> DEFINE amount == bank[Cellarfees][d]
                 sent   == SendCoins(bank, Cellarfees, AuctionAccount, d, amount)
      <4>1. amount \in Nat /\ amount <= bank[Cellarfees][d]
            /\ bank[AuctionAccount][d] \in Nat
        BY <1>1, FeeAccounts DEF Bank
      <4> HIDE DEF amount
      <4>2. /\ IsFiniteSet(CoinsOf(sent, d)) /\ Supply(sent, d) = Supply(bank, d)
        BY <1>1, <4>1, FeeAccounts, SendConserves DEF Conserved
      <4>3. \A acct \in Accounts : sent[acct][d] =
               IF acct = Cellarfees THEN bank[acct][d] - amount
               ELSE IF acct = AuctionAccount THEN bank[acct][d] + amount
               ELSE bank[acct][d]
        BY <1>1, <4>1, FeeAccounts, SendBank
      <4> HIDE DEF sent
      <4>4. \A acct \in Accounts : bank'[acct][d] = sent[acct][d]
        BY <1>2, <1>3, <2>1, <3>1, <4>1, <4>3, FeeAccounts DEF amount
      <4> QED
        BY <4>2, <4>4, SameCoins
    <3>2. CASE d \notin Due
      <4>1. bank[AuctionAccount][d] \in Nat
        BY <1>1, FeeAccounts DEF Bank
      <4>2. \A acct \in Accounts : bank'[acct][d] = bank[acct][d]
        BY <1>2, <1>3, <2>1, <3>2, <4>1
      <4> QED
        BY <1>1, <4>2, SameCoins
    <3> QED
      BY <3>1, <3>2
  <2> QED
    BY <1>6, <2>2 DEF Circulating
<1> QED
  BY <1>5, <1>6

\* A step that only moves coins among the accounts of the model.
LEMMA MovesKeepCirculating ==
  ASSUME AllFinite, Conserved(bank, bank'), UNCHANGED feeCollector
  PROVE  (\A d \in Denoms : IsFiniteSet(CoinsOf(bank', d))) /\ OnlyTheBridgeMints
BY DEF AllFinite, Conserved, OnlyTheBridgeMints, Circulating

\* Every step of the composition accounts for its coins.
LEMMA FeesNextConserves ==
  ASSUME IInv, BInv, FInv, AllFinite, [FeesNext]_allVars
  PROVE  (\A d \in Denoms : IsFiniteSet(CoinsOf(bank', d))) /\ OnlyTheBridgeMints
<1>1. ASSUME UNCHANGED <<bank, feeCollector>>
      PROVE  (\A d \in Denoms : IsFiniteSet(CoinsOf(bank', d))) /\ OnlyTheBridgeMints
  BY <1>1, MovesKeepCirculating DEF Conserved
<1>2. CASE BeginBlocker
  <2>1. CASE \A d \in Due : AuctionIsValid(d, feeParams.rate, feeParams.priceInterval)
    BY <1>2, <2>1, BeginBlockConserves DEF BeginBlocker, OnlyTheBridgeMints
  <2>2. CASE ~ \A d \in Due : AuctionIsValid(d, feeParams.rate, feeParams.priceInterval)
    BY <1>1, <1>2, <2>2 DEF BeginBlocker, Halt, feeVars
  <2> QED
    BY <2>1, <2>2
<1>3. CASE AuctionStep
  <2>1. Conserved(bank, bank')
    BY <1>3, NextConserves DEF AuctionStep, Next
  <2>2. UNCHANGED feeCollector
    BY <1>3 DEF AuctionStep, feeVars
  <2> QED
    BY <2>1, <2>2, MovesKeepCirculating
<1>4. CASE Restart
  BY <1>1, <1>4, RestartKept DEF allVars, vars, feeVars
<1>5. CASE SomeFee
  <2>1. PICK d \in Denoms, amount \in FeeAmounts, managed \in BOOLEAN :
             SendToCosmos(d, amount, managed)
    BY <1>5 DEF SomeFee
  <2>2. amount \in Nat /\ bank \in Bank /\ bank[Cellarfees][d] \in Nat
    BY FeeAssumption, FeeAccounts DEF IInv, TypeOK, Bank
  <2>3. /\ UNCHANGED feeCollector
        /\ bank' = [bank EXCEPT ![Cellarfees][d] = bank[Cellarfees][d] + amount]
    BY <2>1 DEF SendToCosmos
  <2>4. /\ bank'[Cellarfees][d] = bank[Cellarfees][d] + amount
        /\ \A acct \in Accounts, e \in Denoms :
              acct # Cellarfees \/ e # d => bank'[acct][e] = bank[acct][e]
    BY <2>2, <2>3, FeeAccounts DEF Bank
  <2>5. bank' \in Bank
    <3>1. bank[Cellarfees] \in [Denoms -> Nat] /\ bank[Cellarfees][d] + amount \in Nat
      BY <2>2, FeeAccounts DEF Bank
    <3> QED
      BY <2>2, <2>3, <3>1 DEF Bank
  <2>6. /\ IsFiniteSet(CoinsOf(bank', d))
        /\ Supply(bank, d) \in Nat /\ Supply(bank', d) = Supply(bank, d) + amount
    <3>1. \A acct \in Accounts \ {Cellarfees} : bank'[acct][d] = bank[acct][d]
      BY <2>4
    <3> QED
      BY <2>2, <2>4, <2>5, <3>1, FeeAccounts, Minted DEF AllFinite
  <2>7. \A e \in Denoms \ {d} : /\ IsFiniteSet(CoinsOf(bank', e))
                                /\ Supply(bank', e) = Supply(bank, e)
    BY <2>4, SameCoins DEF AllFinite
  <2>8. feeCollector \in Nat
    BY DEF FInv, FeesTypeOK
  <2>9. Circulating(bank', feeCollector', d) = Circulating(bank, feeCollector, d) + amount
    BY <2>2, <2>3, <2>6, <2>8 DEF Circulating
  <2>10. \A e \in Denoms \ {d} :
            Circulating(bank', feeCollector', e) = Circulating(bank, feeCollector, e)
    BY <2>3, <2>7 DEF Circulating
  <2> QED
    BY <2>1, <2>6, <2>7, <2>9, <2>10 DEF OnlyTheBridgeMints
<1>6. CASE \E p \in FeeParamSets : ChangeFeeParams(p)
  BY <1>1, <1>6 DEF ChangeFeeParams
<1>7. CASE UNCHANGED allVars
  BY <1>1, <1>7 DEF allVars, vars, feeVars
<1> QED
  BY <1>2, <1>3, <1>4, <1>5, <1>6, <1>7 DEF FeesNext

\* No handler of the two modules creates or destroys coins: auctions, bids and
\* emission move them (abci.go:12-48, auction.go:17-64), and only the bridge
\* brings new ones (hooks.go:38-64).
THEOREM FeesConserveSupply == FeesSpec => [][OnlyTheBridgeMints]_allVars
<1>1. FeesInit => AllFinite
  BY BankAssumption DEF FeesInit, Init, AllFinite
<1>2. IInv /\ BInv /\ FInv /\ AllFinite /\ [FeesNext]_allVars => AllFinite'
  BY FeesNextConserves DEF AllFinite, CoinsOf
<1>3. IInv /\ BInv /\ FInv /\ AllFinite /\ [FeesNext]_allVars => [OnlyTheBridgeMints]_allVars
  BY FeesNextConserves
<1>4. FeesSpec => FeesInit /\ [][FeesNext]_allVars
  BY PTL DEF FeesSpec
<1> QED
  BY <1>1, <1>2, <1>3, <1>4, FeesInvariance, PTL
=============================================================================
