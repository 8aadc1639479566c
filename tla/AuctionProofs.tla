--------------------------- MODULE AuctionProofs ---------------------------
(***************************************************************************)
(* Proofs about Auction, for every value of its constants: the type        *)
(* invariant and the two invariants that make the auction account solvent. *)
(***************************************************************************)
EXTENDS Auction, FiniteSetTheorems, TLAPS

-----------------------------------------------------------------------------
(* Fixed-point arithmetic *)

\* A quotient of naturals is a natural.
LEMMA DivNat ==
  ASSUME NEW x \in Nat, NEW y \in Nat \ {0}
  PROVE  x \div y \in Nat
  BY SMT

\* Rounding a natural to the precision of a decimal gives a natural.
LEMMA RoundNat ==
  ASSUME NEW x \in Nat
  PROVE  ChopPrecisionAndRound(x) \in Nat
<1>1. x \div Unit \in Nat
  BY DivNat, UnitAssumption
<1>2. QED
  BY <1>1 DEF ChopPrecisionAndRound

\* The product of naturals is a natural.
LEMMA TimesNat ==
  ASSUME NEW x \in Nat, NEW y \in Nat
  PROVE  x * y \in Nat
  BY SMT

\* sdk.Dec.Mul and Quo keep decimals non-negative.
LEMMA MulNat ==
  ASSUME NEW x \in Nat, NEW y \in Nat
  PROVE  Mul(x, y) \in Nat
  BY TimesNat, RoundNat DEF Mul

\* A quotient of decimals by a positive one is a natural.
LEMMA QuoNat ==
  ASSUME NEW x \in Nat, NEW y \in Nat \ {0}
  PROVE  Quo(x, y) \in Nat
<1>1. x * Unit * Unit \in Nat
  BY TimesNat, UnitAssumption
<1>2. QED
  BY <1>1, DivNat, RoundNat DEF Quo

\* The price an auction starts at is a natural number of decimal fractions.
LEMMA StartPriceNat ==
  ASSUME TypeOK, NEW d \in DOMAIN tokenPrices, Usomm \in DOMAIN tokenPrices,
         MinUnitValue(Usomm, CoinExponent) > 0
  PROVE  SaleTokenPriceInUsomm(d) \in Nat
<1>1. \A e \in Exponents : TenToThe(e) \in Nat \ {0}
  <2>. SUFFICES ASSUME NEW e \in Exponents PROVE TenToThe(e) \in Nat \ {0}
    OBVIOUS
  <2>1. 10^e \in Nat \ {0}
    BY ExponentAssumption
  <2>2. QED
    BY <2>1, UnitAssumption DEF TenToThe, NewDec
<1>2. \A c \in DOMAIN tokenPrices : \A e \in Exponents : MinUnitValue(c, e) \in Nat
  BY <1>1, QuoNat DEF TypeOK, TokenPrice, MinUnitValue
<1>3. QED
  BY <1>2, QuoNat, ConstantAssumption
     DEF TypeOK, TokenPrice, SaleTokenPriceInUsomm

-----------------------------------------------------------------------------
(* The sum of the payments of a set of bids *)

\* One more bid adds its payment.
LEMMA PaidAdd ==
  ASSUME NEW S, IsFiniteSet(CoinsPaid(S)), NEW b, b \notin S, b.paid \in Nat
  PROVE  /\ IsFiniteSet(CoinsPaid(S \cup {b}))
         /\ UsommPaid(S \cup {b}) = UsommPaid(S) + b.paid
<1> DEFINE new == {b} \X (1..b.paid)
<1>1. IsFiniteSet(new) /\ Cardinality(new) = b.paid
  <2>1. IsFiniteSet({b}) /\ Cardinality({b}) = 1
    BY FS_Singleton
  <2>2. IsFiniteSet(1..b.paid) /\ Cardinality(1..b.paid) = b.paid
    BY FS_Interval
  <2>3. IsFiniteSet(new) /\ Cardinality(new) = Cardinality({b}) * Cardinality(1..b.paid)
    BY <2>1, <2>2, FS_Product, Zenon
  <2>4. QED
    BY <2>1, <2>2, <2>3
<1>2. CoinsPaid(S \cup {b}) = CoinsPaid(S) \cup new
  BY DEF CoinsPaid
<1>3. CoinsPaid(S) \cap new = {}
  BY DEF CoinsPaid
<1>4. Cardinality(CoinsPaid(S)) \in Nat
  BY FS_CardinalityType
<1>5. /\ IsFiniteSet(CoinsPaid(S) \cup new)
      /\ Cardinality(CoinsPaid(S) \cup new) =
            Cardinality(CoinsPaid(S)) + Cardinality(new)
                - Cardinality(CoinsPaid(S) \cap new)
  BY <1>1, FS_Union, Zenon
<1>6. Cardinality(CoinsPaid(S) \cap new) = 0
  BY <1>3, FS_EmptySet
<1>. HIDE DEF new
<1>7. Cardinality(CoinsPaid(S) \cup new) = Cardinality(CoinsPaid(S)) + b.paid
  BY <1>1, <1>4, <1>5, <1>6, SMT
<1>8. QED
  BY <1>2, <1>5, <1>7, Zenon DEF UsommPaid

\* A part of a finite sum is finite and no larger.
LEMMA PaidSubset ==
  ASSUME NEW S, IsFiniteSet(CoinsPaid(S)), NEW T \in SUBSET S
  PROVE  /\ IsFiniteSet(CoinsPaid(T))
         /\ UsommPaid(T) \in Nat
         /\ UsommPaid(T) <= UsommPaid(S)
<1>1. CoinsPaid(T) \in SUBSET CoinsPaid(S)
  BY DEF CoinsPaid
<1>2. QED
  BY <1>1, FS_Subset, FS_CardinalityType DEF UsommPaid

\* The payments of a set of bids are those of a part plus those of the rest.
LEMMA PaidSplit ==
  ASSUME NEW S, IsFiniteSet(CoinsPaid(S)), NEW T \in SUBSET S
  PROVE  UsommPaid(S) = UsommPaid(T) + UsommPaid(S \ T)
<1>1. CoinsPaid(S) = CoinsPaid(T) \cup CoinsPaid(S \ T)
  BY DEF CoinsPaid
<1>2. CoinsPaid(T) \cap CoinsPaid(S \ T) = {}
  BY DEF CoinsPaid
<1>3. /\ IsFiniteSet(CoinsPaid(T)) /\ IsFiniteSet(CoinsPaid(S \ T))
      /\ UsommPaid(T) \in Nat /\ UsommPaid(S \ T) \in Nat
  BY PaidSubset
<1>4. Cardinality(CoinsPaid(T) \cup CoinsPaid(S \ T)) =
         Cardinality(CoinsPaid(T)) + Cardinality(CoinsPaid(S \ T))
             - Cardinality(CoinsPaid(T) \cap CoinsPaid(S \ T))
  BY <1>3, FS_Union, Zenon
<1>5. Cardinality(CoinsPaid(T) \cap CoinsPaid(S \ T)) = 0
  BY <1>2, FS_EmptySet
<1>6. QED
  BY <1>1, <1>3, <1>4, <1>5 DEF UsommPaid

-----------------------------------------------------------------------------
(* Transfers *)

Bank == [Accounts -> [Denoms -> Nat]]

\* A covered transfer moves the amount and touches nothing else.
LEMMA SendBank ==
  ASSUME NEW bk \in Bank, NEW from \in Accounts, NEW to \in Accounts, from # to,
         NEW c \in Denoms, NEW amt \in Nat, amt <= bk[from][c]
  PROVE  /\ SendCoins(bk, from, to, c, amt) \in Bank
         /\ \A acct \in Accounts, e \in Denoms :
               SendCoins(bk, from, to, c, amt)[acct][e] =
                  IF e # c THEN bk[acct][e]
                  ELSE IF acct = from THEN bk[acct][e] - amt
                  ELSE IF acct = to THEN bk[acct][e] + amt
                  ELSE bk[acct][e]
<1> DEFINE x == [bk EXCEPT ![from] = [bk[from] EXCEPT ![c] = bk[from][c] - amt]]
           y == [x EXCEPT ![to] = [x[to] EXCEPT ![c] = x[to][c] + amt]]
<1>1. bk[from] \in [Denoms -> Nat] /\ bk[to] \in [Denoms -> Nat]
  BY DEF Bank
<1>2. bk[from][c] - amt \in Nat /\ bk[to][c] + amt \in Nat
  BY <1>1
<1>3. SendCoins(bk, from, to, c, amt) = y
  BY DEF SendCoins
<1>4. /\ x \in Bank /\ x[to] = bk[to]
      /\ x[from] = [bk[from] EXCEPT ![c] = bk[from][c] - amt]
      /\ \A acct \in Accounts \ {from} : x[acct] = bk[acct]
  BY <1>1, <1>2 DEF Bank
<1>. HIDE DEF x
<1>5. /\ y \in Bank
      /\ y[to] = [bk[to] EXCEPT ![c] = bk[to][c] + amt]
      /\ \A acct \in Accounts \ {to} : y[acct] = x[acct]
  BY <1>1, <1>2, <1>4 DEF Bank
<1>. HIDE DEF y
<1>6. QED
  BY <1>1, <1>3, <1>4, <1>5

\* Finishing auctions takes their proceeds and unsold tokens out of the
\* auction account and nothing else.
LEMMA FinishBank ==
  ASSUME NEW bk \in Bank, NEW bs, IsFiniteSet(CoinsPaid(bs)),
         NEW done, CanFinish(bk, bs, done)
  PROVE  /\ FinishAuctionBank(bk, bs, done) \in Bank
         /\ FinishAuctionBank(bk, bs, done)[AuctionAccount][Usomm] =
               bk[AuctionAccount][Usomm] - UsommPaid(BidsOf(bs, done))
         /\ \A d \in SaleDenoms :
               FinishAuctionBank(bk, bs, done)[AuctionAccount][d] =
                  IF \E a \in done : a.denom = d THEN 0 ELSE bk[AuctionAccount][d]
<1>1. \A S : UsommPaid(BidsOf(bs, S)) \in Nat
  BY PaidSubset DEF BidsOf
<1>2. AuctionAccount \in Accounts /\ Usomm \in Denoms /\ Usomm \notin SaleDenoms
      /\ SaleDenoms \subseteq Denoms
  BY ConstantAssumption DEF Accounts, Denoms
<1>3. \A S : \A d \in Denoms : Owed(bk, bs, S, d) \in Nat
  BY <1>1, <1>2 DEF Owed, Bank
<1>4. \A d \in Denoms : Owed(bk, bs, done, d) <= bk[AuctionAccount][d]
  BY <1>2 DEF CanFinish, Owed, Bank
<1>5. FinishAuctionBank(bk, bs, done) \in Bank
  BY <1>2, <1>3, <1>4 DEF FinishAuctionBank, Bank
<1>6. \A d \in Denoms : FinishAuctionBank(bk, bs, done)[AuctionAccount][d] =
                            bk[AuctionAccount][d] - Owed(bk, bs, done, d)
  BY <1>2 DEF FinishAuctionBank
<1>7. QED
  BY <1>2, <1>5, <1>6 DEF Owed, Bank

-----------------------------------------------------------------------------
(* The inductive invariant *)

\* Bids name auctions that have begun, under ids that have been given out, and
\* only finitely many coins have been paid.
BidsWellFormed ==
    /\ \A b \in bids : b.id <= lastBidID /\ b.auction <= lastAuctionID
    /\ IsFiniteSet(CoinsPaid(bids))

IInv ==
    /\ TypeOK
    /\ StoreWellFormed
    /\ BidsWellFormed
    /\ SaleTokensBacked
    /\ ProceedsBacked
    /\ EndBlockNeverPanics

\* The initial state satisfies the invariant: all stores are empty.
LEMMA InitIInv == Init => IInv
<1>. SUFFICES ASSUME Init PROVE IInv
  OBVIOUS
<1>1. TypeOK
  BY ConstantAssumption, BankAssumption DEF Init, TypeOK
<1>2. CoinsPaid({}) = {} /\ BidsOf({}, {}) = {}
  BY DEF CoinsPaid, BidsOf
<1>3. IsFiniteSet({}) /\ Cardinality({}) = 0
  BY FS_EmptySet
<1>4. ProceedsBacked /\ BidsWellFormed
  BY <1>2, <1>3, BankAssumption DEF Init, ProceedsBacked, BidsWellFormed, UsommPaid, Denoms
<1>5. SaleTokensBacked
  BY BankAssumption DEF Init, SaleTokensBacked, OnSale, Denoms
<1>6. QED
  BY <1>1, <1>4, <1>5 DEF Init, IInv, StoreWellFormed, EndBlockNeverPanics

\* A halting step leaves every store as it is.
LEMMA HaltIInv ==
  ASSUME IInv, Halt("begin")
  PROVE  IInv'
<1>1. TypeOK'
  BY DEF IInv, TypeOK, Halt
<1>2. UNCHANGED <<active, ended, bids, bank, lastAuctionID, lastBidID>> /\ halted' = "begin"
  BY DEF Halt
<1>3. QED
  BY <1>1, <1>2 DEF IInv, StoreWellFormed, BidsWellFormed, SaleTokensBacked,
     ProceedsBacked, EndBlockNeverPanics, OnSale, BidsOf, UsommPaid, CoinsPaid

-----------------------------------------------------------------------------
(* BeginAuction *)

\* Beginning an auction moves its tokens into the account and takes a new id.
LEMMA BeginAuctionIInv ==
  ASSUME IInv,
         NEW d \in SaleDenoms, NEW amount \in Nat, NEW rate \in Nat,
         NEW interval \in Nat, NEW f \in FundingModules, NEW p \in ProceedsModules,
         BeginAuction(d, amount, rate, interval, f, p)
  PROVE  IInv'
<1> DEFINE new == NewAuction(d, amount, rate, interval, f, p)
<1>. USE DEF IInv
<1>1. /\ new \in AuctionRec /\ new.id = lastAuctionID + 1 /\ new.denom = d
      /\ new.remaining = amount /\ new.endBlock = 0
  <2>1. SaleTokenPriceInUsomm(d) \in Nat \ {0}
    BY StartPriceNat DEF BeginAuction, BeginAuctionChecks, AuctionIsValid, HasPrice
  <2>2. /\ height \in Nat \ {0} /\ lastAuctionID \in Nat /\ amount > 0
        /\ interval > 0
    BY DEF TypeOK, BeginAuction, BeginAuctionChecks, AuctionIsValid
  <2>3. QED
    BY <2>1, <2>2 DEF NewAuction, AuctionRec
<1>2. f \in Accounts /\ AuctionAccount \in Accounts /\ f # AuctionAccount
      /\ d \in Denoms /\ Usomm \in Denoms /\ d # Usomm
  BY ConstantAssumption DEF Accounts, Modules, Denoms
<1>3. /\ bank' \in Bank
      /\ \A c \in Denoms : bank'[AuctionAccount][c] =
             IF c = d THEN bank[AuctionAccount][c] + amount ELSE bank[AuctionAccount][c]
  <2>1. bank \in Bank /\ amount <= bank[f][d]
        /\ bank' = SendCoins(bank, f, AuctionAccount, d, amount)
    BY DEF TypeOK, BeginAuction, Bank
  <2>2. QED
    BY <1>2, <2>1, SendBank
<1>4. /\ active' = active \cup {new} /\ lastAuctionID' = lastAuctionID + 1
      /\ UNCHANGED <<height, phase, params, tokenPrices, ended, bids, lastBidID, halted>>
      /\ \A a \in active : a.denom # d
  BY DEF BeginAuction, OnSale
<1>. HIDE DEF new
<1>5. TypeOK'
  BY <1>1, <1>3, <1>4 DEF TypeOK, Bank
<1>6. StoreWellFormed'
  <2>1. \A a \in active \cup ended : a.id \in Nat /\ a.id <= lastAuctionID
    BY DEF TypeOK, StoreWellFormed, AuctionRec
  <2>2. lastAuctionID \in Nat
    BY DEF TypeOK
  <2>3. QED
    BY <1>1, <1>4, <2>1, <2>2 DEF StoreWellFormed
<1>7. BidsWellFormed'
  <2>1. \A b \in bids : b.auction \in Nat /\ lastAuctionID \in Nat
    BY DEF TypeOK, BidRec
  <2>2. QED
    BY <1>4, <2>1 DEF BidsWellFormed, CoinsPaid
<1>8. SaleTokensBacked'
  <2>. SUFFICES ASSUME NEW c \in SaleDenoms
                PROVE  /\ \A a \in active' :
                             a.denom = c => bank'[AuctionAccount][c] = a.remaining
                       /\ ~ OnSale(c)' => bank'[AuctionAccount][c] = 0
    BY DEF SaleTokensBacked
  <2>1. c \in Denoms
    BY DEF Denoms
  <2>2. CASE c = d
    <3>1. bank[AuctionAccount][d] = 0
      BY <1>4 DEF SaleTokensBacked, OnSale
    <3>2. bank'[AuctionAccount][c] = amount
      BY <1>3, <2>1, <2>2, <3>1
    <3>3. QED
      BY <1>1, <1>4, <2>2, <3>2 DEF OnSale
  <2>3. CASE c # d
    BY <1>1, <1>3, <1>4, <2>1, <2>3 DEF SaleTokensBacked, OnSale
  <2>4. QED
    BY <2>2, <2>3
<1>9. ProceedsBacked'
  <2>1. \A b \in bids : b.auction # new.id
    BY <1>1 DEF TypeOK, BidRec, BidsWellFormed
  <2>2. BidsOf(bids, active') = BidsOf(bids, active)
    BY <1>4, <2>1 DEF BidsOf
  <2>3. BidsOf(bids, active)' = BidsOf(bids, active)
    BY <1>4, <2>2 DEF BidsOf
  <2>4. UsommPaid(BidsOf(bids, active))' = UsommPaid(BidsOf(bids, active))
    BY <2>3 DEF UsommPaid, CoinsPaid
  <2>5. QED
    BY <1>2, <1>3, <2>4 DEF ProceedsBacked
<1>10. QED
  BY <1>4, <1>5, <1>6, <1>7, <1>8, <1>9 DEF EndBlockNeverPanics

-----------------------------------------------------------------------------
(* SubmitBid *)

\* What a bid buys and pays are naturals, and it buys no more than is left.
LEMMA BidAmounts ==
  ASSUME NEW balance \in Nat, NEW price \in Nat \ {0}, NEW maxBid \in Nat
  PROVE  LET fulfilled == SaleTokensToPurchase(balance, price, maxBid)
         IN  /\ fulfilled \in Nat
             /\ fulfilled <= balance
             /\ Payment(fulfilled, price) \in Nat
<1> DEFINE fulfilled == SaleTokensToPurchase(balance, price, maxBid)
<1>1. NewDec(maxBid) \in Nat
  BY TimesNat, UnitAssumption DEF NewDec
<1>2. TruncateInt(Quo(NewDec(maxBid), price)) \in Nat
  BY <1>1, QuoNat, DivNat, UnitAssumption DEF TruncateInt
<1>3. fulfilled \in Nat /\ fulfilled <= balance
  BY <1>2 DEF SaleTokensToPurchase, Smaller
<1>. HIDE DEF fulfilled
<1>4. NewDec(fulfilled) \in Nat
  BY <1>3, TimesNat, UnitAssumption DEF NewDec
<1>5. Mul(NewDec(fulfilled), price) \in Nat
  BY <1>4, MulNat
<1>6. Payment(fulfilled, price) \in Nat
  <2>1. Mul(NewDec(fulfilled), price) + Unit - 1 \in Nat
    BY <1>5, UnitAssumption
  <2>2. QED
    BY <2>1, DivNat, UnitAssumption DEF Payment, CeilInt
<1>7. QED
  BY <1>3, <1>6 DEF fulfilled

\* A bid keeps the account solvent: its payment is added to the usomm held for
\* the auction, its purchase is taken from the tokens held, and an auction
\* that is sold out pays its proceeds out in full.
LEMMA SubmitBidIInv ==
  ASSUME IInv, NEW bidder \in Bidders, NEW a \in active,
         NEW maxBid \in Nat \ {0}, NEW minAmount \in Nat \ {0},
         SubmitBid(bidder, a, maxBid, minAmount)
  PROVE  IInv'
<1> DEFINE balance   == bank[AuctionAccount][a.denom]
           fulfilled == SaleTokensToPurchase(balance, a.price, maxBid)
           bid       == NewBid(a, bidder, maxBid, minAmount, fulfilled)
           paidBank  == SendCoins(bank, bidder, AuctionAccount, Usomm, bid.paid)
           soldBank  == SendCoins(paidBank, AuctionAccount, bidder, a.denom, fulfilled)
           sold      == [a EXCEPT !.remaining = balance - fulfilled]
           newBids   == bids \cup {bid}
<1>. USE DEF IInv
<1>1. /\ a \in AuctionRec /\ bank \in Bank /\ bids \subseteq BidRec
      /\ height \in Nat \ {0} /\ lastBidID \in Nat /\ lastAuctionID \in Nat
      /\ active \subseteq AuctionRec /\ ended \subseteq AuctionRec
      /\ AuctionAccount \in Accounts /\ bidder \in Accounts /\ bidder # AuctionAccount
      /\ a.denom \in Denoms /\ Usomm \in Denoms /\ a.denom # Usomm
      /\ a.denom \in SaleDenoms /\ SaleDenoms \subseteq Denoms /\ Usomm \notin SaleDenoms
  <2>1. /\ a \in AuctionRec /\ bank \in Bank /\ bids \subseteq BidRec
        /\ height \in Nat \ {0} /\ lastBidID \in Nat /\ lastAuctionID \in Nat
        /\ active \subseteq AuctionRec /\ ended \subseteq AuctionRec
    BY DEF TypeOK, Bank
  <2>2. a.denom \in SaleDenoms
    BY <2>1 DEF AuctionRec
  <2>3. /\ AuctionAccount \in Accounts /\ bidder \in Accounts /\ bidder # AuctionAccount
        /\ Usomm \in Denoms /\ SaleDenoms \subseteq Denoms /\ Usomm \notin SaleDenoms
    BY ConstantAssumption DEF Accounts, Denoms
  <2>4. QED
    BY <2>1, <2>2, <2>3
<1>2. /\ balance \in Nat /\ fulfilled \in Nat /\ fulfilled <= balance
      /\ Payment(fulfilled, a.price) \in Nat
  <2>1. balance \in Nat /\ a.price \in Nat \ {0}
    BY <1>1 DEF Bank, AuctionRec
  <2>2. QED
    BY <2>1, BidAmounts
<1>3. /\ bid.paid <= bank[bidder][Usomm]
      /\ (sold.remaining = 0) => CanFinish(soldBank, newBids, {sold})
      /\ phase' = "deliver" /\ bids' = newBids /\ lastBidID' = bid.id
      /\ bank' = IF sold.remaining = 0
                  THEN FinishAuctionBank(soldBank, newBids, {sold}) ELSE soldBank
      /\ active' = (active \ {a}) \cup (IF sold.remaining = 0 THEN {} ELSE {sold})
      /\ ended' = ended \cup (IF sold.remaining = 0 THEN {Finished(sold)} ELSE {})
      /\ UNCHANGED <<height, params, tokenPrices, lastAuctionID, halted>>
  BY DEF SubmitBid
<1>. HIDE DEF fulfilled
<1>4. /\ bid \in BidRec /\ bid.id = lastBidID + 1 /\ bid.auction = a.id
      /\ bid.paid \in Nat
  BY <1>1, <1>2 DEF NewBid, BidRec, AuctionRec
<1>5. /\ sold \in AuctionRec /\ sold.id = a.id /\ sold.denom = a.denom
      /\ sold.endBlock = a.endBlock /\ sold.remaining = balance - fulfilled
      /\ Finished(sold) \in AuctionRec /\ Finished(sold).id = a.id
      /\ Finished(sold).endBlock = height
  <2>1. balance - fulfilled \in Nat
    BY <1>2
  <2>2. /\ sold \in AuctionRec /\ sold.id = a.id /\ sold.denom = a.denom
        /\ sold.endBlock = a.endBlock /\ sold.remaining = balance - fulfilled
    BY <1>1, <2>1 DEF AuctionRec
  <2>. HIDE DEF sold
  <2>3. QED
    BY <1>1, <2>2 DEF AuctionRec, Finished
<1>. HIDE DEF bid, sold, balance
<1>6. /\ soldBank \in Bank
      /\ soldBank[AuctionAccount][Usomm] = bank[AuctionAccount][Usomm] + bid.paid
      /\ soldBank[AuctionAccount][a.denom] = balance - fulfilled
      /\ \A d \in SaleDenoms \ {a.denom} :
            soldBank[AuctionAccount][d] = bank[AuctionAccount][d]
  <2>1. /\ paidBank \in Bank
        /\ paidBank[AuctionAccount][Usomm] = bank[AuctionAccount][Usomm] + bid.paid
        /\ \A d \in SaleDenoms : paidBank[AuctionAccount][d] = bank[AuctionAccount][d]
    BY <1>1, <1>3, <1>4, SendBank
  <2>. HIDE DEF paidBank
  <2>2. paidBank[AuctionAccount][a.denom] = balance
    BY <1>1, <2>1 DEF balance
  <2>3. fulfilled <= paidBank[AuctionAccount][a.denom]
    BY <1>2, <2>2
  <2>4. QED
    BY <1>1, <1>2, <2>1, <2>2, <2>3, SendBank
<1>. HIDE DEF soldBank
<1>7. /\ IsFiniteSet(CoinsPaid(newBids))
      /\ UsommPaid(BidsOf(newBids, active)) = bank[AuctionAccount][Usomm] + bid.paid
  <2>1. bid \notin bids
    BY <1>1, <1>4 DEF BidsWellFormed, BidRec
  <2>2. IsFiniteSet(CoinsPaid(newBids))
    BY <1>4, <2>1, PaidAdd DEF BidsWellFormed
  <2>3. BidsOf(newBids, active) = BidsOf(bids, active) \cup {bid}
    BY <1>4 DEF BidsOf
  <2>4. IsFiniteSet(CoinsPaid(BidsOf(bids, active))) /\ bid \notin BidsOf(bids, active)
    BY <2>1, PaidSubset DEF BidsWellFormed, BidsOf
  <2>5. UsommPaid(BidsOf(newBids, active)) = UsommPaid(BidsOf(bids, active)) + bid.paid
    BY <1>4, <2>3, <2>4, PaidAdd
  <2>6. QED
    BY <2>2, <2>5 DEF ProceedsBacked
<1>8. BidsWellFormed'
  <2>1. \A b \in bids : b.id \in Nat /\ b.id <= lastBidID /\ b.auction <= lastAuctionID
    BY <1>1 DEF BidsWellFormed, BidRec
  <2>2. a.id <= lastAuctionID
    BY DEF StoreWellFormed
  <2>3. CoinsPaid(bids)' = CoinsPaid(newBids)
    BY <1>3 DEF CoinsPaid
  <2>4. QED
    BY <1>1, <1>3, <1>4, <1>7, <2>1, <2>2, <2>3 DEF BidsWellFormed
<1>9. \A c \in active \cup ended : c.id = a.id => c = a
  BY DEF StoreWellFormed
<1>10. CASE sold.remaining # 0
  <2>1. active' = (active \ {a}) \cup {sold} /\ ended' = ended /\ bank' = soldBank
    BY <1>3, <1>10
  <2>2. TypeOK'
    <3>1. active' \subseteq AuctionRec /\ ended' \subseteq AuctionRec /\ bids' \subseteq BidRec
      BY <1>1, <1>3, <1>4, <1>5, <2>1
    <3>2. lastBidID' \in Nat /\ bank' \in Bank
      BY <1>1, <1>3, <1>4, <1>6, <2>1
    <3>3. QED
      BY <1>3, <3>1, <3>2 DEF TypeOK, Bank
  <2>3. StoreWellFormed'
    BY <1>3, <1>5, <1>9, <2>1 DEF StoreWellFormed
  <2>4. SaleTokensBacked'
    BY <1>1, <1>5, <1>6, <2>1 DEF SaleTokensBacked, StoreWellFormed, OnSale
  <2>5. ProceedsBacked'
    <3>1. BidsOf(bids, active)' = BidsOf(newBids, active)
      BY <1>3, <1>5, <2>1 DEF BidsOf
    <3>2. UsommPaid(BidsOf(bids, active))' = UsommPaid(BidsOf(newBids, active))
      BY <3>1 DEF UsommPaid, CoinsPaid
    <3>3. QED
      BY <1>6, <1>7, <2>1, <3>2 DEF ProceedsBacked
  <2>6. QED
    BY <1>3, <1>8, <2>2, <2>3, <2>4, <2>5 DEF EndBlockNeverPanics
<1>11. CASE sold.remaining = 0
  <2>1. active' = active \ {a} /\ ended' = ended \cup {Finished(sold)}
        /\ bank' = FinishAuctionBank(soldBank, newBids, {sold})
        /\ CanFinish(soldBank, newBids, {sold})
    BY <1>3, <1>11
  <2>2. /\ bank' \in Bank
        /\ bank'[AuctionAccount][Usomm] =
              soldBank[AuctionAccount][Usomm] - UsommPaid(BidsOf(newBids, {sold}))
        /\ \A d \in SaleDenoms : bank'[AuctionAccount][d] =
              IF \E c \in {sold} : c.denom = d THEN 0 ELSE soldBank[AuctionAccount][d]
    <3> DEFINE done == {sold}
    <3>1. CanFinish(soldBank, newBids, done) /\ IsFiniteSet(CoinsPaid(newBids))
          /\ soldBank \in Bank
      BY <1>6, <1>7, <2>1
    <3>. HIDE DEF newBids, done
    <3>2. /\ FinishAuctionBank(soldBank, newBids, done) \in Bank
          /\ FinishAuctionBank(soldBank, newBids, done)[AuctionAccount][Usomm] =
                soldBank[AuctionAccount][Usomm] - UsommPaid(BidsOf(newBids, done))
          /\ \A d \in SaleDenoms :
                FinishAuctionBank(soldBank, newBids, done)[AuctionAccount][d] =
                  IF \E c \in done : c.denom = d THEN 0 ELSE soldBank[AuctionAccount][d]
      BY <3>1, FinishBank
    <3>3. QED
      BY <2>1, <3>2 DEF done
  <2>3. TypeOK'
    <3>1. active' \subseteq AuctionRec /\ ended' \subseteq AuctionRec /\ bids' \subseteq BidRec
      BY <1>1, <1>3, <1>4, <1>5, <2>1
    <3>2. lastBidID' \in Nat /\ bank' \in Bank
      BY <1>1, <1>3, <1>4, <2>2
    <3>3. QED
      BY <1>3, <3>1, <3>2 DEF TypeOK, Bank
  <2>4. StoreWellFormed'
    BY <1>1, <1>3, <1>5, <1>9, <2>1 DEF StoreWellFormed
  <2>5. SaleTokensBacked'
    <3>1. \A d \in SaleDenoms : bank'[AuctionAccount][d] =
              IF d = a.denom THEN 0 ELSE bank[AuctionAccount][d]
      BY <1>5, <1>6, <2>2
    <3>2. \A c \in active : c.denom = a.denom => c = a
      BY DEF StoreWellFormed
    <3>3. QED
      BY <2>1, <3>1, <3>2 DEF SaleTokensBacked, OnSale
  <2>6. ProceedsBacked'
    <3>1. BidsOf(newBids, {sold}) \in SUBSET BidsOf(newBids, active)
      BY <1>5 DEF BidsOf
    <3>2. BidsOf(bids, active)' = BidsOf(newBids, active) \ BidsOf(newBids, {sold})
      BY <1>3, <1>5, <1>9, <2>1 DEF BidsOf
    <3>3. IsFiniteSet(CoinsPaid(BidsOf(newBids, active)))
      BY <1>7, PaidSubset DEF BidsOf
    <3>4. /\ UsommPaid(BidsOf(newBids, active)) = UsommPaid(BidsOf(newBids, {sold}))
                + UsommPaid(BidsOf(newBids, active) \ BidsOf(newBids, {sold}))
          /\ UsommPaid(BidsOf(newBids, {sold})) \in Nat
          /\ UsommPaid(BidsOf(newBids, active) \ BidsOf(newBids, {sold})) \in Nat
      BY <3>1, <3>3, PaidSplit, PaidSubset
    <3>5. UsommPaid(BidsOf(bids, active))' =
            UsommPaid(BidsOf(newBids, active) \ BidsOf(newBids, {sold}))
      BY <3>2 DEF UsommPaid, CoinsPaid
    <3>6. bank[AuctionAccount][Usomm] + bid.paid \in Nat
      BY <1>1, <1>4 DEF Bank
    <3>7. QED
      BY <1>6, <1>7, <2>2, <3>4, <3>5, <3>6 DEF ProceedsBacked
  <2>7. QED
    BY <1>3, <1>8, <2>3, <2>4, <2>5, <2>6 DEF EndBlockNeverPanics
<1>12. QED
  BY <1>10, <1>11

-----------------------------------------------------------------------------
(* Governance *)

\* Proposals change prices and parameters only.
LEMMA GovernanceIInv ==
  ASSUME IInv, Governance
  PROVE  IInv'
<1>1. UNCHANGED <<active, ended, bids, bank, lastAuctionID, lastBidID, halted, height>>
      /\ phase' = "gov"
  BY DEF Governance, SetTokenPrices, ChangeParams
<1>2. params' \in Params
  BY ConstantAssumption DEF IInv, TypeOK, Governance, SetTokenPrices, ChangeParams
<1>3. /\ DOMAIN tokenPrices' \subseteq Denoms
      /\ \A d \in DOMAIN tokenPrices' : tokenPrices'[d] \in TokenPrice
  <2>1. CASE UNCHANGED tokenPrices
    BY <2>1 DEF IInv, TypeOK
  <2>2. ASSUME NEW p \in PriceProposals, tokenPrices' = ApplyPrices(p)
        PROVE  /\ DOMAIN tokenPrices' \subseteq Denoms
               /\ \A d \in DOMAIN tokenPrices' : tokenPrices'[d] \in TokenPrice
    <3>1. \A d \in DOMAIN p : d \in Denoms /\ p[d].usd \in Nat \ {0}
      BY ConstantAssumption
    <3>2. DOMAIN tokenPrices' = DOMAIN tokenPrices \cup DOMAIN p
      BY <2>2 DEF ApplyPrices
    <3>3. \A d \in DOMAIN tokenPrices' : tokenPrices'[d] =
             IF d \in DOMAIN p
             THEN [usd |-> p[d].usd, exponent |-> 0, updated |-> height]
             ELSE tokenPrices[d]
      BY <2>2, <3>2 DEF ApplyPrices
    <3>4. height \in Nat /\ 0 \in Exponents
      BY ConstantAssumption DEF IInv, TypeOK
    <3>5. \A d \in DOMAIN tokenPrices : d \in Denoms /\ tokenPrices[d] \in TokenPrice
      BY DEF IInv, TypeOK
    <3>6. \A d \in DOMAIN p :
             [usd |-> p[d].usd, exponent |-> 0, updated |-> height] \in TokenPrice
      BY <3>1, <3>4 DEF TokenPrice
    <3>7. QED
      BY <3>1, <3>2, <3>3, <3>5, <3>6
  <2>3. QED
    BY <2>1, <2>2 DEF Governance, SetTokenPrices, ChangeParams
<1>4. TypeOK'
  BY <1>1, <1>2, <1>3 DEF IInv, TypeOK
<1>5. QED
  BY <1>1, <1>4 DEF IInv, StoreWellFormed, BidsWellFormed, SaleTokensBacked,
     ProceedsBacked, EndBlockNeverPanics, OnSale, BidsOf, UsommPaid, CoinsPaid

-----------------------------------------------------------------------------
(* EndBlocker *)

\* The updated record of an auction that goes on is well-formed.
LEMMA UpdatedRec ==
  ASSUME IInv, NEW a \in active
  PROVE  /\ NextRate(a) \in Nat
         /\ a \notin Exhausted =>
              /\ Updated(a) \in AuctionRec /\ Updated(a).id = a.id
              /\ Updated(a).denom = a.denom /\ Updated(a).endBlock = a.endBlock
              /\ Updated(a).remaining = a.remaining
<1>1. a \in AuctionRec /\ params.accelerationRate \in Nat
  BY DEF IInv, TypeOK, Params
<1>2. a.rate \in Nat /\ a.initialRate \in Nat /\ a.price \in Nat /\ a.initialPrice \in Nat
  BY <1>1 DEF AuctionRec
<1>3. NewDec(1) + params.accelerationRate \in Nat
  BY <1>1, UnitAssumption DEF NewDec
<1>4. NextRate(a) \in Nat
  BY <1>2, <1>3, MulNat DEF NextRate
<1>5. Mul(a.initialPrice, NextRate(a)) \in Nat
  BY <1>2, <1>4, MulNat
<1>6. PriceFalls(a) /\ a \notin Exhausted => NextPrice(a) \in Nat \ {0}
  BY <1>2, <1>5 DEF NextPrice, Exhausted
<1>7. QED
  BY <1>1, <1>4, <1>6 DEF Updated, AuctionRec

\* The transfers of the EndBlocker are covered, so it completes, and what is
\* left in the account is what the remaining auctions need.
LEMMA EndBlockerIInv ==
  ASSUME IInv, EndBlocker
  PROVE  IInv'
<1> DEFINE close(a) == Finished([a EXCEPT !.rate = NextRate(a)])
           closed == {close(a) : a \in Exhausted}
           pruned == Prunable(ended \cup closed)
           gone   == BidsOf(bids, Exhausted)
<1>. USE DEF IInv
<1>1. /\ active \subseteq AuctionRec /\ ended \subseteq AuctionRec /\ bids \subseteq BidRec
      /\ bank \in Bank /\ height \in Nat \ {0} /\ Exhausted \subseteq active
      /\ AuctionAccount \in Accounts /\ Usomm \in Denoms
  BY DEF TypeOK, Bank, Exhausted, Accounts, Denoms
<1>2. IsFiniteSet(CoinsPaid(BidsOf(bids, active))) /\ gone \in SUBSET BidsOf(bids, active)
  BY <1>1, PaidSubset DEF BidsWellFormed, BidsOf
<1>3. /\ UsommPaid(gone) \in Nat /\ UsommPaid(BidsOf(bids, active) \ gone) \in Nat
      /\ UsommPaid(gone) <= UsommPaid(BidsOf(bids, active))
      /\ UsommPaid(BidsOf(bids, active)) =
            UsommPaid(gone) + UsommPaid(BidsOf(bids, active) \ gone)
  BY <1>2, PaidSubset, PaidSplit
<1>4. CanFinish(bank, bids, Exhausted)
  BY <1>3 DEF CanFinish, Owed, ProceedsBacked
<1>5. /\ bank' = FinishAuctionBank(bank, bids, Exhausted)
      /\ active' = {Updated(a) : a \in active \ Exhausted}
      /\ ended' = (ended \cup closed) \ pruned
      /\ bids' = bids \ BidsOf(bids, pruned)
      /\ height' = height + 1 /\ phase' = "begin"
      /\ UNCHANGED <<params, tokenPrices, lastAuctionID, lastBidID, halted>>
  BY <1>4 DEF EndBlocker, EndBlockCompletes
<1>6. /\ bank' \in Bank
      /\ bank'[AuctionAccount][Usomm] = bank[AuctionAccount][Usomm] - UsommPaid(gone)
      /\ \A d \in SaleDenoms : bank'[AuctionAccount][d] =
            IF \E a \in Exhausted : a.denom = d THEN 0 ELSE bank[AuctionAccount][d]
  BY <1>1, <1>4, <1>5, FinishBank DEF BidsWellFormed
<1>7. \A a \in Exhausted :
         close(a) \in AuctionRec /\ close(a).id = a.id /\ close(a).endBlock = height
  <2>. SUFFICES ASSUME NEW a \in Exhausted
                PROVE  /\ close(a) \in AuctionRec /\ close(a).id = a.id
                       /\ close(a).endBlock = height
    OBVIOUS
  <2>1. a \in AuctionRec /\ NextRate(a) \in Nat
    BY <1>1, UpdatedRec
  <2>2. QED
    BY <1>1, <2>1 DEF AuctionRec, Finished
<1>. HIDE DEF close
<1>8. /\ closed \subseteq AuctionRec /\ \A c \in closed : c.endBlock # 0
      /\ \A c \in closed : \E a \in Exhausted : c.id = a.id
      /\ \A c, e \in closed : c.id = e.id => c = e
  <2>1. \A a, b \in Exhausted : a.id = b.id => a = b
    BY <1>1 DEF StoreWellFormed
  <2>2. QED
    BY <1>1, <1>7, <2>1
<1>9. \A a \in active' : \E b \in active \ Exhausted :
         /\ a = Updated(b) /\ a \in AuctionRec /\ a.id = b.id /\ a.denom = b.denom
         /\ a.endBlock = b.endBlock /\ a.remaining = b.remaining
  BY <1>5, UpdatedRec
<1>10. \A b \in active \ Exhausted :
          Updated(b) \in active' /\ Updated(b).id = b.id /\ Updated(b).denom = b.denom
  BY <1>5, UpdatedRec
<1>11. pruned \subseteq ended \cup closed /\ ended' \subseteq ended \cup closed
  BY <1>5 DEF Prunable
<1>. HIDE DEF closed, pruned, gone
<1>12. TypeOK'
  <2>1. active' \subseteq AuctionRec /\ ended' \subseteq AuctionRec /\ bids' \subseteq BidRec
    BY <1>1, <1>5, <1>8, <1>9, <1>11
  <2>2. height' \in Nat \ {0} /\ bank' \in Bank
    BY <1>1, <1>5, <1>6
  <2>3. QED
    BY <1>5, <2>1, <2>2 DEF TypeOK, Bank
<1>13. StoreWellFormed'
  <2>1. \A a, b \in active \cup ended : a.id = b.id => a = b
    BY DEF StoreWellFormed
  <2>2. \A a, b \in (active' \cup ended') : a.id = b.id => a = b
    <3>1. active \cap ended = {}
      BY DEF StoreWellFormed
    <3>2. \A a, b \in active' : a.id = b.id => a = b
      BY <1>9, <2>1
    <3>3. \A a, b \in ended \cup closed : a.id = b.id => a = b
      BY <1>1, <1>8, <2>1, <3>1
    <3>4. \A a \in active', b \in ended \cup closed : a.id # b.id
      BY <1>1, <1>8, <1>9, <2>1, <3>1
    <3>5. QED
      BY <1>11, <3>2, <3>3, <3>4
  <2>3. \A a \in (active' \cup ended') : a.id <= lastAuctionID
    BY <1>1, <1>8, <1>9, <1>11 DEF StoreWellFormed
  <2>4. QED
    BY <1>5, <1>8, <1>9, <1>11, <2>2, <2>3 DEF StoreWellFormed
<1>14. BidsWellFormed'
  <2>1. bids' \in SUBSET bids
    BY <1>5
  <2>2. IsFiniteSet(CoinsPaid(bids'))
    BY <2>1, PaidSubset DEF BidsWellFormed
  <2>3. CoinsPaid(bids)' = CoinsPaid(bids')
    BY DEF CoinsPaid
  <2>4. QED
    BY <1>5, <2>1, <2>2, <2>3 DEF BidsWellFormed
<1>15. SaleTokensBacked'
  <2>. SUFFICES ASSUME NEW d \in SaleDenoms
                PROVE  /\ \A a \in active' :
                             a.denom = d => bank'[AuctionAccount][d] = a.remaining
                       /\ ~ OnSale(d)' => bank'[AuctionAccount][d] = 0
    BY DEF SaleTokensBacked
  <2>1. \A a, b \in active : a.denom = b.denom => a = b
    BY DEF StoreWellFormed
  <2>2. \A a \in active' : a.denom = d => bank'[AuctionAccount][d] = a.remaining
    BY <1>1, <1>6, <1>9, <2>1 DEF SaleTokensBacked
  <2>3. ASSUME ~ OnSale(d)' PROVE bank'[AuctionAccount][d] = 0
    <3>1. \A a \in active \ Exhausted : a.denom # d
      BY <1>10, <2>3 DEF OnSale
    <3>2. QED
      BY <1>6, <3>1 DEF SaleTokensBacked, OnSale
  <2>4. QED
    BY <2>2, <2>3
<1>16. ProceedsBacked'
  <2>1. \A a, b \in active \cup ended : a.id = b.id => a = b
    BY DEF StoreWellFormed
  <2>2. \A b \in active \ Exhausted : \A c \in pruned \cup Exhausted : b.id # c.id
    <3>1. \A b \in active \ Exhausted : \A c \in ended \cup Exhausted : b.id # c.id
      <4>1. active \cap ended = {}
        BY DEF StoreWellFormed
      <4>2. QED
        BY <1>1, <2>1, <4>1
    <3>2. QED
      BY <1>8, <1>11, <3>1
  <2>3. BidsOf(bids', active') = BidsOf(bids, active) \ gone
    <3>1. BidsOf(bids', active') = BidsOf(bids', active \ Exhausted)
      BY <1>9, <1>10 DEF BidsOf
    <3>2. BidsOf(bids', active \ Exhausted) = BidsOf(bids, active \ Exhausted)
      BY <1>5, <2>2 DEF BidsOf
    <3>3. BidsOf(bids, active \ Exhausted) = BidsOf(bids, active) \ gone
      BY <1>1, <2>2 DEF BidsOf, gone
    <3>4. QED
      BY <3>1, <3>2, <3>3
  <2>4. UsommPaid(BidsOf(bids, active))' = UsommPaid(BidsOf(bids, active) \ gone)
    BY <2>3 DEF UsommPaid, CoinsPaid, BidsOf
  <2>5. QED
    BY <1>3, <1>6, <2>4 DEF ProceedsBacked
<1>17. QED
  BY <1>5, <1>12, <1>13, <1>14, <1>15, <1>16 DEF EndBlockNeverPanics

-----------------------------------------------------------------------------
(* The theorems *)

\* Exporting the genesis and importing it again changes nothing: the end blocks
\* sort the exported auctions into the stores they came from.
THEOREM GenesisRoundTrip ==
  ASSUME IInv, ExportAndImport
  PROVE  UNCHANGED vars
<1>1. \A a \in active : ~ (a.endBlock > 0)
  BY DEF IInv, StoreWellFormed
<1>2. \A a \in ended : a.endBlock \in Nat /\ a.endBlock # 0
  BY DEF IInv, TypeOK, StoreWellFormed, AuctionRec
<1>3. active' = active
  BY <1>1, <1>2 DEF ExportAndImport, ExportedAuctions
<1>4. ended' = ended
  BY <1>1, <1>2 DEF ExportAndImport, ExportedAuctions
<1>5. QED
  BY <1>3, <1>4 DEF ExportAndImport, vars

\* Every step preserves the invariant.
LEMMA NextIInv == IInv /\ [Next]_vars => IInv'
<1>. SUFFICES ASSUME IInv, [Next]_vars PROVE IInv'
  OBVIOUS
<1>1. CASE SomeBeginAuction
  <2>1. PICK d \in SaleDenoms, amount \in Amounts, rate \in Rates,
             interval \in Intervals, f \in FundingModules, p \in ProceedsModules :
               \/ BeginAuction(d, amount, rate, interval, f, p)
               \/ BeginAuctionPanics(d, amount, rate, interval, f, p)
    BY <1>1 DEF SomeBeginAuction
  <2>2. amount \in Nat /\ rate \in Nat /\ interval \in Nat
    BY ConstantAssumption
  <2>3. QED
    BY <2>1, <2>2, BeginAuctionIInv, HaltIInv DEF BeginAuctionPanics
<1>2. CASE SomeBid
  <2>1. PICK bidder \in Bidders, a \in active, maxBid \in MaxBids,
             minAmount \in MinAmounts : SubmitBid(bidder, a, maxBid, minAmount)
    BY <1>2 DEF SomeBid
  <2>2. maxBid \in Nat \ {0} /\ minAmount \in Nat \ {0}
    BY ConstantAssumption
  <2>3. QED
    BY <2>1, <2>2, SubmitBidIInv
<1>3. CASE Governance
  BY <1>3, GovernanceIInv
<1>4. CASE EndBlocker
  BY <1>4, EndBlockerIInv
<1>5. ASSUME UNCHANGED vars PROVE IInv'
  BY <1>5 DEF vars, IInv, TypeOK, StoreWellFormed, BidsWellFormed, SaleTokensBacked,
     ProceedsBacked, EndBlockNeverPanics, OnSale, BidsOf, UsommPaid, CoinsPaid
<1>6. CASE ExportAndImport
  BY <1>5, <1>6, GenesisRoundTrip
<1>7. QED
  BY <1>1, <1>2, <1>3, <1>4, <1>5, <1>6 DEF Next

\* The invariant holds in every reachable state.
THEOREM Invariance == Spec => []IInv
  BY InitIInv, NextIInv, PTL DEF Spec

\* The stores and the bank keep their types: in particular no balance and no
\* price ever becomes negative, in any run of the handlers.
THEOREM TypeCorrect == Spec => []TypeOK
<1>1. IInv => TypeOK
  BY DEF IInv
<1>2. QED
  BY <1>1, Invariance, PTL

\* Ids are unique and at most one auction of a denomination is active.
THEOREM StoresStayWellFormed == Spec => []StoreWellFormed
<1>1. IInv => StoreWellFormed
  BY DEF IInv
<1>2. QED
  BY <1>1, Invariance, PTL

\* The account holds exactly the tokens the active auctions still sell.
THEOREM SaleTokensAreBacked == Spec => []SaleTokensBacked
<1>1. IInv => SaleTokensBacked
  BY DEF IInv
<1>2. QED
  BY <1>1, Invariance, PTL

\* The account holds exactly the usomm the active auctions will pay out.
THEOREM ProceedsAreBacked == Spec => []ProceedsBacked
<1>1. IInv => ProceedsBacked
  BY DEF IInv
<1>2. QED
  BY <1>1, Invariance, PTL

\* The EndBlocker's FinishAuction never fails, so it never halts the chain.
THEOREM EndBlockerNeverHalts == Spec => []EndBlockNeverPanics
<1>1. IInv => EndBlockNeverPanics
  BY DEF IInv
<1>2. QED
  BY <1>1, Invariance, PTL
=============================================================================
