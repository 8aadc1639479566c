-------------------------- MODULE AuctionBidProofs --------------------------
(***************************************************************************)
(* More proofs about Auction, on top of the invariant of AuctionProofs:    *)
(* what bids pay and get, that nothing is sold twice, that prices fall and *)
(* which ended auctions are kept.                                          *)
(***************************************************************************)
EXTENDS AuctionProofs, WellFoundedInduction

-----------------------------------------------------------------------------
(* Fixed-point arithmetic: the errors of the roundings *)

\* Euclidean division.
LEMMA DivMod ==
  ASSUME NEW x \in Nat, NEW y \in Nat \ {0}
  PROVE  /\ x \div y \in Nat /\ x % y \in 0..(y - 1)
         /\ x = y * (x \div y) + (x % y)
         /\ y * (x \div y) <= x
  OBVIOUS

\* A quotient is the largest number that fits.
LEMMA DivLargest ==
  ASSUME NEW x \in Nat, NEW y \in Nat \ {0}, NEW k \in Nat, y * k <= x
  PROVE  k <= x \div y
<1> DEFINE q == x \div y
<1>1. q \in Nat /\ x % y \in 0..(y - 1) /\ x = y * q + (x % y)
  BY DivMod
<1> HIDE DEF q
<1>2. y * k < y * q + y
  <2>1. y * k \in Nat /\ y * q \in Nat
    BY <1>1
  <2> QED
    BY <1>1, <2>1
<1>3. y * q + y = y * (q + 1)
  BY <1>1
<1>4. ~ (k >= q + 1)
  <2> SUFFICES ASSUME k >= q + 1 PROVE FALSE
    OBVIOUS
  <2>1. y * k >= y * (q + 1)
    BY <1>1
  <2> QED
    BY <1>1, <1>2, <1>3, <2>1
<1> QED
  BY <1>1, <1>4 DEF q

\* Rounding moves a number by at most half a unit, and rounds no number below a
\* whole one that it has reached.
LEMMA RoundError ==
  ASSUME NEW x \in Nat
  PROVE  /\ 2 * (Unit * ChopPrecisionAndRound(x)) <= 2 * x + Unit
         /\ \A k \in Nat : Unit * k <= x => k <= ChopPrecisionAndRound(x)
         /\ \A k \in Nat : x = Unit * k => ChopPrecisionAndRound(x) = k
<1> DEFINE q == x \div Unit
           r == x % Unit
           c == ChopPrecisionAndRound(x)
<1>1. Unit \in Nat \ {0} /\ q \in Nat /\ r \in 0..(Unit - 1) /\ x = Unit * q + r
  BY DivMod, UnitAssumption
<1>2. c = (IF 2 * r > Unit \/ (2 * r = Unit /\ q % 2 = 1) THEN q + 1 ELSE q)
  BY DEF ChopPrecisionAndRound
<1>3. \A k \in Nat : Unit * k <= x => k <= q
  BY <1>1, DivLargest
<1> HIDE DEF q, r, c
<1>4. c \in Nat /\ c >= q
  BY <1>1, <1>2
<1>5. Unit * q \in Nat /\ Unit * (q + 1) = Unit * q + Unit
  BY <1>1
<1>6. 2 * (Unit * c) <= 2 * x + Unit
  BY <1>1, <1>2, <1>5
<1>7. \A k \in Nat : Unit * k <= x => k <= c
  BY <1>1, <1>3, <1>4
<1>8. ASSUME NEW k \in Nat, x = Unit * k PROVE c = k
  <2>1. Unit * k \in Nat /\ k <= q
    BY <1>1, <1>3, <1>8
  <2>2. Unit * q >= Unit * k /\ r = 0
    BY <1>1, <1>5, <1>8, <2>1
  <2>3. c = q
    BY <1>1, <1>2, <2>2
  <2>4. ~ (q >= k + 1)
    <3> SUFFICES ASSUME q >= k + 1 PROVE FALSE
      OBVIOUS
    <3>1. Unit * q >= Unit * (k + 1) /\ Unit * (k + 1) = Unit * k + Unit
      BY <1>1
    <3> QED
      BY <1>1, <1>5, <1>8, <2>1, <2>2, <3>1
  <2> QED
    BY <1>1, <2>1, <2>3, <2>4
<1> QED
  BY <1>6, <1>7, <1>8 DEF c

\* A multiple leaves no remainder.
LEMMA MultipleMod ==
  ASSUME NEW k \in Nat, NEW y \in Nat \ {0}
  PROVE  (k * y) % y = 0
<1> DEFINE x == k * y
           q == x \div y
           r == x % y
<1>1. x \in Nat /\ x = y * k
  OBVIOUS
<1> HIDE DEF x
<1>2. q \in Nat /\ r \in 0..(y - 1) /\ x = y * q + r
  BY <1>1, DivMod
<1>3. k <= q
  BY <1>1, DivLargest
<1> HIDE DEF q, r
<1>4. y * k <= y * q /\ y * k \in Nat /\ y * q \in Nat
  BY <1>2, <1>3
<1>5. r = 0
  BY <1>1, <1>2, <1>4
<1> QED
  BY <1>5 DEF r, x

\* Rounding keeps the order, and so does a product with a decimal.
LEMMA RoundMonotone ==
  ASSUME NEW x \in Nat, NEW y \in Nat, x <= y
  PROVE  ChopPrecisionAndRound(x) <= ChopPrecisionAndRound(y)
<1> DEFINE q == x \div Unit
           r == x % Unit
           p == y \div Unit
           t == y % Unit
<1>1. /\ Unit \in Nat \ {0} /\ q \in Nat /\ r \in 0..(Unit - 1) /\ x = Unit * q + r
      /\ p \in Nat /\ t \in 0..(Unit - 1) /\ y = Unit * p + t /\ Unit * q <= x
  BY DivMod, UnitAssumption
<1>2. q <= p
  <2>1. Unit * q \in Nat /\ Unit * q <= y
    BY <1>1
  <2> QED
    BY <1>1, <2>1, DivLargest
<1>3. /\ ChopPrecisionAndRound(x) =
            (IF 2 * r > Unit \/ (2 * r = Unit /\ q % 2 = 1) THEN q + 1 ELSE q)
      /\ ChopPrecisionAndRound(y) =
            (IF 2 * t > Unit \/ (2 * t = Unit /\ p % 2 = 1) THEN p + 1 ELSE p)
  BY DEF ChopPrecisionAndRound
<1> HIDE DEF q, r, p, t
<1>4. CASE q < p
  BY <1>1, <1>3, <1>4
<1>5. CASE q = p
  <2>1. r <= t
    <3> DEFINE z == Unit * q
    <3>1. z \in Nat /\ x = z + r /\ y = z + t
      BY <1>1, <1>5
    <3> HIDE DEF z
    <3> QED
      BY <1>1, <3>1
  <2> QED
    BY <1>1, <1>3, <1>5, <2>1
<1> QED
  BY <1>1, <1>2, <1>4, <1>5

LEMMA MulMonotone ==
  ASSUME NEW p \in Nat, NEW r \in Nat, NEW s \in Nat, r <= s
  PROVE  Mul(p, r) <= Mul(p, s)
<1>1. p * r \in Nat /\ p * s \in Nat /\ p * r <= p * s
  OBVIOUS
<1> QED
  BY <1>1, RoundMonotone DEF Mul

\* A payment is the price of the tokens, rounded up by less than one usomm.
LEMMA PaymentRounding ==
  ASSUME NEW n \in Nat, NEW p \in Nat
  PROVE  /\ Payment(n, p) \in Nat
         /\ n * p <= Unit * Payment(n, p)
         /\ Unit * Payment(n, p) < n * p + Unit
<1>1. Unit \in Nat \ {0} /\ n * p \in Nat
  BY UnitAssumption
<1>2. Mul(NewDec(n), p) = n * p
  <2>1. NewDec(n) * p = Unit * (n * p)
    BY <1>1 DEF NewDec
  <2>2. NewDec(n) * p \in Nat
    BY <1>1, <2>1
  <2> QED
    BY <1>1, <2>1, <2>2, RoundError DEF Mul
<1> DEFINE z == n * p
           x == z + Unit - 1
           q == x \div Unit
<1>3. z \in Nat /\ x \in Nat /\ x = z + Unit - 1 /\ Payment(n, p) = q
  BY <1>1, <1>2 DEF Payment, CeilInt
<1> HIDE DEF z, x
<1>4. q \in Nat /\ (x % Unit) \in 0..(Unit - 1) /\ x = Unit * q + (x % Unit)
  BY <1>1, <1>3, DivMod
<1> HIDE DEF q
<1>5. Unit * q \in Nat
  BY <1>1, <1>4
<1>6. z <= Unit * q /\ Unit * q < z + Unit
  BY <1>1, <1>3, <1>4, <1>5
<1> QED
  BY <1>3, <1>4, <1>6 DEF z

\* The tokens a maximum bid can buy are worth the bid plus the error of the
\* rounding of the quotient; and at least as many as it can pay for.
LEMMA PurchaseRounding ==
  ASSUME NEW m \in Nat, NEW p \in Nat \ {0}
  PROVE  LET t == TruncateInt(Quo(NewDec(m), p))
         IN  /\ t \in Nat
             /\ 2 * (Unit * (t * p)) <= 2 * (m * Unit * Unit) + p
             /\ \A n \in Nat : n * p <= m * Unit => n <= t
<1> DEFINE X == m * Unit * Unit * Unit
           y == X \div p
           R == ChopPrecisionAndRound(y)
           t == R \div Unit
<1>1. Unit \in Nat \ {0} /\ X \in Nat
  BY UnitAssumption
<1>2. TruncateInt(Quo(NewDec(m), p)) = t
  BY DEF TruncateInt, Quo, NewDec
<1> HIDE DEF X
<1>3. y \in Nat /\ p * y <= X
  BY <1>1, DivMod
<1>4. \A k \in Nat : p * k <= X => k <= y
  BY <1>1, DivLargest
<1> HIDE DEF y
<1>5. /\ R \in Nat /\ 2 * (Unit * R) <= 2 * y + Unit
      /\ \A k \in Nat : Unit * k <= y => k <= R
  BY <1>3, RoundError, RoundNat
<1> HIDE DEF R
<1>6. t \in Nat /\ Unit * t <= R
  BY <1>1, <1>5, DivMod
<1>7. \A k \in Nat : Unit * k <= R => k <= t
  BY <1>1, <1>5, DivLargest
<1> HIDE DEF t
<1>8. 2 * (Unit * (t * p)) <= 2 * (m * Unit * Unit) + p
  <2>1. Unit * (Unit * t) <= Unit * R
    BY <1>1, <1>5, <1>6
  <2>2. 2 * (Unit * (Unit * t)) <= 2 * y + Unit
    BY <1>1, <1>3, <1>5, <1>6, <2>1
  <2>3. p * (2 * (Unit * (Unit * t))) <= p * (2 * y + Unit)
    BY <1>1, <1>3, <1>6, <2>2
  <2>4. p * (2 * y + Unit) = 2 * (p * y) + Unit * p
    BY <1>1, <1>3
  <2>5. p * (2 * (Unit * (Unit * t))) = Unit * (2 * (Unit * (t * p)))
    BY <1>1, <1>6
  <2>6. X = Unit * (m * Unit * Unit)
    BY <1>1 DEF X
  <2>7. 2 * X + Unit * p = Unit * (2 * (m * Unit * Unit) + p)
    BY <1>1, <2>6
  <2>8. p * y \in Nat /\ Unit * p \in Nat
    BY <1>1, <1>3
  <2>9. Unit * (2 * (Unit * (t * p))) <= Unit * (2 * (m * Unit * Unit) + p)
    <3> DEFINE L == p * (2 * (Unit * (Unit * t)))
               M == p * (2 * y + Unit)
    <3>1. L \in Nat /\ L <= M /\ M = 2 * (p * y) + Unit * p
      BY <1>1, <1>6, <2>3, <2>4
    <3> HIDE DEF L, M
    <3>2. L <= 2 * X + Unit * p
      BY <1>1, <1>3, <2>8, <3>1
    <3> QED
      BY <2>5, <2>7, <3>2 DEF L
  <2>10. 2 * (Unit * (t * p)) \in Nat /\ 2 * (m * Unit * Unit) + p \in Nat
    BY <1>1, <1>6
  <2> DEFINE A == 2 * (Unit * (t * p))
             B == 2 * (m * Unit * Unit) + p
  <2>11. A \in Nat /\ B \in Nat /\ Unit * A <= Unit * B
    BY <2>9, <2>10
  <2> HIDE DEF A, B
  <2>12. A <= B
    BY <1>1, <2>11
  <2> QED
    BY <2>12 DEF A, B
<1>9. ASSUME NEW n \in Nat, n * p <= m * Unit PROVE n <= t
  <2>1. Unit * Unit * (n * p) <= Unit * Unit * (m * Unit)
    <3>1. n * p \in Nat /\ m * Unit \in Nat /\ Unit * Unit \in Nat
      BY <1>1
    <3> QED
      BY <1>9, <3>1
  <2>2. p * (Unit * (Unit * n)) <= X
    BY <1>1, <2>1 DEF X
  <2>3. Unit * (Unit * n) \in Nat /\ Unit * n \in Nat
    BY <1>1
  <2>4. Unit * (Unit * n) <= y
    BY <1>4, <2>2, <2>3
  <2>5. Unit * n <= R
    BY <1>5, <2>3, <2>4
  <2> QED
    BY <1>7, <2>5
<1> QED
  BY <1>2, <1>6, <1>8, <1>9

-----------------------------------------------------------------------------
(* The invariant *)

\* The facts the induction needs besides the properties: bids are not of later
\* blocks, finitely many tokens were sold, the active auction of a denomination is
\* the latest one, and each active auction is at most at the price that so many
\* decreases by the initial rate leave; its rate is never below the initial one.
BidsAreOfPast == \A b \in bids : b.height <= height
FinitelySold  == IsFiniteSet(CoinsBought(bids))
ActiveIsLatest == \A a \in active, e \in ended : a.denom = e.denom => e.id < a.id

OnSchedule(a, h) ==
    /\ a.startBlock <= h /\ a.initialRate <= a.rate
    /\ \A k \in Nat : a.startBlock + k * a.interval < h =>
          a.price + k * Mul(a.initialPrice, a.initialRate) <= a.initialPrice
AllOnSchedule == \A a \in active : OnSchedule(a, height)

BInv ==
    /\ BidsAreFair /\ SoldMatchesBids /\ BidPricesFall /\ AllOnSchedule
    /\ BidsAreOfPast /\ FinitelySold /\ ActiveIsLatest

\* One more bid adds the tokens it bought.
LEMMA BoughtAdd ==
  ASSUME NEW S, IsFiniteSet(CoinsBought(S)), NEW b, b \notin S, b.fulfilled \in Nat
  PROVE  /\ IsFiniteSet(CoinsBought(S \cup {b}))
         /\ TokensBought(S \cup {b}) = TokensBought(S) + b.fulfilled
<1> DEFINE new == {b} \X (1..b.fulfilled)
<1>1. IsFiniteSet(new) /\ Cardinality(new) = b.fulfilled
  <2>1. IsFiniteSet({b}) /\ Cardinality({b}) = 1
    BY FS_Singleton
  <2>2. IsFiniteSet(1..b.fulfilled) /\ Cardinality(1..b.fulfilled) = b.fulfilled
    BY FS_Interval
  <2>3. IsFiniteSet(new)
        /\ Cardinality(new) = Cardinality({b}) * Cardinality(1..b.fulfilled)
    BY <2>1, <2>2, FS_Product, Zenon
  <2> QED
    BY <2>1, <2>2, <2>3
<1>2. CoinsBought(S \cup {b}) = CoinsBought(S) \cup new /\ CoinsBought(S) \cap new = {}
  BY DEF CoinsBought
<1>3. /\ IsFiniteSet(CoinsBought(S) \cup new)
      /\ Cardinality(CoinsBought(S) \cup new) =
            Cardinality(CoinsBought(S)) + Cardinality(new)
                - Cardinality(CoinsBought(S) \cap new)
  BY <1>1, FS_Union, Zenon
<1>4. Cardinality(CoinsBought(S) \cap new) = 0 /\ Cardinality(CoinsBought(S)) \in Nat
  BY <1>2, FS_EmptySet, FS_CardinalityType
<1>. HIDE DEF new
<1>5. Cardinality(CoinsBought(S) \cup new) = Cardinality(CoinsBought(S)) + b.fulfilled
  BY <1>1, <1>3, <1>4, SMT
<1> QED
  BY <1>2, <1>3, <1>5, Zenon DEF TokensBought

\* The tokens of a part of the bids are finitely many.
LEMMA BoughtSubset ==
  ASSUME NEW S, IsFiniteSet(CoinsBought(S)), NEW T \in SUBSET S
  PROVE  IsFiniteSet(CoinsBought(T)) /\ TokensBought(T) \in Nat
<1>1. CoinsBought(T) \in SUBSET CoinsBought(S)
  BY DEF CoinsBought
<1> QED
  BY <1>1, FS_Subset, FS_CardinalityType DEF TokensBought

\* No bids have been bought anything at the beginning.
LEMMA InitBInv == Init => BInv
<1> SUFFICES ASSUME Init PROVE BInv
  OBVIOUS
<1>1. bids = {} /\ active = {} /\ ended = {}
  BY DEF Init
<1>2. CoinsBought(bids) = {}
  BY <1>1 DEF CoinsBought
<1> QED
  BY <1>1, <1>2, FS_EmptySet DEF BInv, BidsAreFair, SoldMatchesBids,
     BidPricesFall, AllOnSchedule, BidsAreOfPast, FinitelySold, ActiveIsLatest

\* A step that leaves auctions, bids and the height alone preserves it.
LEMMA BInvKept ==
  ASSUME BInv, UNCHANGED <<active, ended, bids, height>>
  PROVE  BInv'
BY DEF BInv, BidsAreFair, SoldMatchesBids, BidPricesFall, AllOnSchedule,
   OnSchedule, BidsAreOfPast, FinitelySold, ActiveIsLatest, BidsOf, TokensBought, CoinsBought

\* An auction that has just begun has no decrease behind it.
LEMMA NewOnSchedule ==
  ASSUME NEW a, a.startBlock = height, a.rate = a.initialRate, a.rate \in Nat,
         a.interval \in Nat, height \in Nat
  PROVE  OnSchedule(a, height)
<1>1. \A k \in Nat : ~ (a.startBlock + k * a.interval < height)
  <2> TAKE k \in Nat
  <2>1. k * a.interval \in Nat
    OBVIOUS
  <2> QED
    BY <2>1
<1> QED
  BY <1>1 DEF OnSchedule

\* A new auction has sold nothing and has no bids, for its id is new.
LEMMA BeginAuctionBInv ==
  ASSUME IInv, BInv,
         NEW d \in SaleDenoms, NEW amount \in Nat, NEW rate \in Nat,
         NEW interval \in Nat, NEW f \in FundingModules, NEW p \in ProceedsModules,
         BeginAuction(d, amount, rate, interval, f, p)
  PROVE  BInv'
<1> DEFINE new == NewAuction(d, amount, rate, interval, f, p)
<1>1. /\ active' = active \cup {new}
      /\ UNCHANGED <<height, ended, bids>>
  BY DEF BeginAuction
<1>2. /\ new.id = lastAuctionID + 1 /\ new.denom = d
      /\ new.starting = amount /\ new.remaining = amount
      /\ new.price = new.initialPrice
  BY DEF NewAuction
<1>3. SaleTokenPriceInUsomm(d) \in Nat
  BY StartPriceNat DEF IInv, BeginAuction, BeginAuctionChecks, AuctionIsValid, HasPrice
<1>4. new.price \in Nat
  BY <1>3 DEF NewAuction
<1> HIDE DEF new
<1>5. \A b \in bids : b.auction # new.id
  BY <1>2 DEF IInv, TypeOK, BidRec, BidsWellFormed
<1>6. BidsOf(bids, {new}) = {}
  BY <1>5 DEF BidsOf
<1>7. BidsAreFair' /\ BidsAreOfPast' /\ FinitelySold'
  BY <1>1 DEF BInv, BidsAreFair, BidsAreOfPast, FinitelySold, CoinsBought
<1>8. SoldMatchesBids'
  <2>1. TokensBought(BidsOf(bids, {new})) = 0
    <3>1. CoinsBought(BidsOf(bids, {new})) = {}
      BY <1>6 DEF CoinsBought
    <3> QED
      BY <3>1, FS_EmptySet DEF TokensBought
  <2>2. \A a \in active' \cup ended' :
          a.starting = a.remaining + TokensBought(BidsOf(bids, {a}))
    <3>1. new.starting = new.remaining + TokensBought(BidsOf(bids, {new}))
      BY <1>2, <2>1
    <3> QED
      BY <1>1, <3>1 DEF BInv, SoldMatchesBids
  <2>3. \A a : TokensBought(BidsOf(bids, {a}))' = TokensBought(BidsOf(bids, {a}))
    BY <1>1 DEF TokensBought, CoinsBought, BidsOf
  <2> QED
    BY <1>1, <2>2, <2>3 DEF BInv, SoldMatchesBids
<1>9. BidPricesFall'
  <2>1. \A a : BidsOf(bids', {a}) = BidsOf(bids, {a})
    BY <1>1 DEF BidsOf
  <2>2. \A a \in active' : \A b \in BidsOf(bids', {a}) : a.price <= b.unitPrice
    BY <1>1, <1>6, <2>1 DEF BInv, BidPricesFall
  <2>3. \A a \in active' : a.price <= a.initialPrice
    BY <1>1, <1>2, <1>4 DEF BInv, BidPricesFall
  <2> QED
    BY <1>1, <2>2, <2>3 DEF BInv, BidPricesFall, BidsOf
<1>10. ActiveIsLatest'
  <2>1. \A e \in ended : e.id < new.id
    BY <1>2 DEF IInv, TypeOK, AuctionRec, StoreWellFormed
  <2> QED
    BY <1>1, <2>1 DEF BInv, ActiveIsLatest
<1>11. AllOnSchedule'
  <2>1. OnSchedule(new, height)
    BY NewOnSchedule DEF new, NewAuction, IInv, TypeOK
  <2> QED
    BY <1>1, <2>1 DEF BInv, AllOnSchedule
<1> QED
  BY <1>7, <1>8, <1>9, <1>10, <1>11 DEF BInv

\* A bid that is accepted gets what it asks for and pays a fair price for it.
LEMMA FairBid ==
  ASSUME NEW balance \in Nat, NEW price \in Nat \ {0}, NEW maxBid \in Nat,
         NEW minAmount \in Nat, BidIsAccepted(balance, price, maxBid, minAmount),
         NEW n, n = SaleTokensToPurchase(balance, price, maxBid)
  PROVE  /\ n \in Nat /\ Payment(n, price) \in Nat
         /\ n >= minAmount
         /\ 2 * Unit * Unit * (Payment(n, price) - maxBid - 1) < price
         /\ n * price <= Payment(n, price) * Unit
         /\ Payment(n, price) * Unit < n * price + Unit
<1> DEFINE t == TruncateInt(Quo(NewDec(maxBid), price))
<1>0. Unit \in Nat \ {0}
  BY UnitAssumption
<1>1. /\ t \in Nat
      /\ 2 * (Unit * (t * price)) <= 2 * (maxBid * Unit * Unit) + price
      /\ \A k \in Nat : k * price <= maxBid * Unit => k <= t
  BY PurchaseRounding
<1>2. n = Smaller(t, balance)
  BY DEF SaleTokensToPurchase
<1>3. /\ Payment(minAmount, price) <= maxBid
      /\ balance >= t \/ balance >= minAmount
  BY DEF BidIsAccepted
<1> HIDE DEF t
<1>4. n \in Nat /\ n <= t
  BY <1>1, <1>2 DEF Smaller
<1> DEFINE P == Payment(n, price)
<1>5. P \in Nat /\ n * price <= Unit * P /\ Unit * P < n * price + Unit
  BY <1>4, PaymentRounding
<1> HIDE DEF P
<1>6. n >= minAmount
  <2>1. Payment(minAmount, price) \in Nat
        /\ minAmount * price <= Unit * Payment(minAmount, price)
    BY PaymentRounding
  <2>2. Unit * Payment(minAmount, price) <= Unit * maxBid
    BY <1>0, <1>3, <2>1
  <2>3. minAmount * price <= maxBid * Unit
    BY <1>0, <2>1, <2>2
  <2>4. minAmount <= t
    BY <1>1, <2>3
  <2> QED
    BY <1>1, <1>2, <1>3, <2>4 DEF Smaller
<1>7. 2 * Unit * Unit * (P - maxBid - 1) < price
  <2>1. n * price <= t * price /\ n * price \in Nat /\ t * price \in Nat
    BY <1>1, <1>4
  <2>2. Unit * P < t * price + Unit
    BY <1>0, <1>5, <2>1
  <2> DEFINE T == t * price
             Q == Unit * P
  <2>3. T \in Nat /\ Q \in Nat /\ Q < T + Unit
    BY <1>0, <1>5, <2>1, <2>2
  <2> HIDE DEF T, Q
  <2>4. 2 * (Unit * Q) < 2 * (Unit * T) + 2 * (Unit * Unit)
    <3>1. Q + 1 <= T + Unit
      BY <1>0, <2>3
    <3>2. Unit * (Q + 1) <= Unit * (T + Unit)
      BY <1>0, <2>3, <3>1
    <3>3. Unit * (Q + 1) = Unit * Q + Unit /\ Unit * (T + Unit) = Unit * T + Unit * Unit
      BY <1>0, <2>3
    <3>4. Unit * Q \in Nat /\ Unit * T \in Nat /\ Unit * Unit \in Nat
      BY <1>0, <2>3
    <3> QED
      BY <1>0, <3>2, <3>3, <3>4
  <2>5. 2 * (Unit * T) <= 2 * (maxBid * Unit * Unit) + price
    BY <1>1 DEF T
  <2>6. Unit * Q \in Nat /\ Unit * T \in Nat /\ Unit * Unit \in Nat
        /\ maxBid * Unit * Unit \in Nat
    BY <1>0, <2>3
  <2>7. 2 * (Unit * Q) < 2 * (maxBid * Unit * Unit) + price + 2 * (Unit * Unit)
    BY <2>4, <2>5, <2>6
  <2>8. 2 * Unit * Unit * (P - maxBid - 1) =
          2 * (Unit * (Unit * P)) - 2 * (maxBid * Unit * Unit) - 2 * (Unit * Unit)
    BY <1>0, <1>5
  <2> QED
    BY <2>6, <2>7, <2>8 DEF Q
<1>8. Unit * P = P * Unit
  BY <1>0, <1>5
<1> QED
  BY <1>4, <1>5, <1>6, <1>7, <1>8 DEF P

\* A bid is recorded with what it took from its auction, at the price of the
\* auction, which is at most that of every bid before it.
LEMMA SubmitBidBInv ==
  ASSUME IInv, BInv, NEW bidder \in Bidders, NEW a \in active,
         NEW maxBid \in Nat \ {0}, NEW minAmount \in Nat \ {0},
         SubmitBid(bidder, a, maxBid, minAmount)
  PROVE  BInv'
<1> DEFINE balance   == bank[AuctionAccount][a.denom]
           fulfilled == SaleTokensToPurchase(balance, a.price, maxBid)
           bid       == NewBid(a, bidder, maxBid, minAmount, fulfilled)
           sold      == [a EXCEPT !.remaining = balance - fulfilled]
           after     == IF sold.remaining = 0 THEN Finished(sold) ELSE sold
<1>1. /\ a \in AuctionRec /\ bids \subseteq BidRec /\ active \subseteq AuctionRec
      /\ ended \subseteq AuctionRec /\ lastBidID \in Nat /\ height \in Nat
      /\ balance \in Nat /\ balance = a.remaining
  <2>1. a \in AuctionRec /\ bids \subseteq BidRec /\ active \subseteq AuctionRec
        /\ ended \subseteq AuctionRec /\ lastBidID \in Nat /\ height \in Nat
    BY DEF IInv, TypeOK
  <2>2. a.denom \in SaleDenoms /\ a.remaining \in Nat
    BY <2>1 DEF AuctionRec
  <2>3. balance = a.remaining
    BY <2>2 DEF IInv, SaleTokensBacked
  <2> QED
    BY <2>1, <2>2, <2>3
<1>2. a.price \in Nat \ {0} /\ BidIsAccepted(balance, a.price, maxBid, minAmount)
      /\ fulfilled <= balance
  BY <1>1 DEF AuctionRec, SubmitBid
<1>3. /\ fulfilled \in Nat /\ Payment(fulfilled, a.price) \in Nat
      /\ fulfilled >= minAmount
      /\ 2 * Unit * Unit * (Payment(fulfilled, a.price) - maxBid - 1) < a.price
      /\ fulfilled * a.price <= Payment(fulfilled, a.price) * Unit
      /\ Payment(fulfilled, a.price) * Unit < fulfilled * a.price + Unit
  BY <1>1, <1>2, FairBid
<1>4. /\ bids' = bids \cup {bid} /\ height' = height
      /\ active' = (active \ {a}) \cup (IF sold.remaining = 0 THEN {} ELSE {sold})
      /\ ended' = ended \cup (IF sold.remaining = 0 THEN {Finished(sold)} ELSE {})
  BY DEF SubmitBid
<1> HIDE DEF fulfilled, balance
<1>5. /\ bid.id = lastBidID + 1 /\ bid.auction = a.id /\ bid.maxBid = maxBid
      /\ bid.minAmount = minAmount /\ bid.fulfilled = fulfilled
      /\ bid.unitPrice = a.price /\ bid.paid = Payment(fulfilled, a.price)
      /\ bid.height = height
  BY DEF NewBid
<1>6. /\ sold.id = a.id /\ sold.denom = a.denom /\ sold.starting = a.starting
      /\ sold.remaining = balance - fulfilled /\ sold.price = a.price
      /\ sold.initialPrice = a.initialPrice /\ sold.startBlock = a.startBlock
      /\ sold.interval = a.interval /\ sold.rate = a.rate
      /\ sold.initialRate = a.initialRate
  BY <1>1 DEF AuctionRec
<1>7. /\ after.id = a.id /\ after.denom = a.denom /\ after.starting = a.starting
      /\ after.remaining = balance - fulfilled
  <2>1. CASE sold.remaining = 0
    <3>1. after = [sold EXCEPT !.endBlock = height]
      BY <2>1 DEF Finished
    <3> QED
      BY <1>1, <1>6, <3>1 DEF AuctionRec
  <2>2. CASE sold.remaining # 0
    BY <1>6, <2>2
  <2> QED
    BY <2>1, <2>2
<1>8. /\ active' \cup ended' = ((active \cup ended) \ {a}) \cup {after}
      /\ active' \subseteq (active \ {a}) \cup {sold}
      /\ ended' \subseteq ended \cup {after}
      /\ sold.remaining = 0 => active' = active \ {a}
      /\ sold.remaining # 0 => ended' = ended
  <2>1. a \notin ended
    BY DEF IInv, StoreWellFormed
  <2> QED
    BY <1>4, <2>1
<1> HIDE DEF bid, sold, after
<1>9. bid \notin bids /\ \A b \in bids : b.id \in Nat /\ b.id < bid.id
  BY <1>1, <1>5 DEF IInv, BidsWellFormed, BidRec
<1>10. BidsAreFair'
  BY <1>3, <1>4, <1>5 DEF BInv, BidsAreFair
<1>11. FinitelySold'
  <2>1. IsFiniteSet(CoinsBought(bids \cup {bid}))
    BY <1>3, <1>5, <1>9, BoughtAdd DEF BInv, FinitelySold
  <2> QED
    BY <1>4, <2>1 DEF FinitelySold, CoinsBought
<1>12. SoldMatchesBids'
  <2>0. \A b \in bids' : \E c \in active' \cup ended' : c.id = b.auction
    <3>1. \A b \in bids : \E c \in active \cup ended : c.id = b.auction
      BY DEF BInv, SoldMatchesBids
    <3> QED
      BY <1>4, <1>5, <1>7, <1>8, <3>1
  <2>1. ASSUME NEW c \in active' \cup ended'
        PROVE  c.starting = c.remaining + TokensBought(BidsOf(bids', {c}))
    <3>1. CASE c = after
      <4>1. BidsOf(bids', {c}) = BidsOf(bids, {a}) \cup {bid}
        BY <1>4, <1>5, <1>7, <3>1 DEF BidsOf
      <4>2. IsFiniteSet(CoinsBought(BidsOf(bids, {a})))
            /\ TokensBought(BidsOf(bids, {a})) \in Nat /\ bid \notin BidsOf(bids, {a})
        <5>1. BidsOf(bids, {a}) \in SUBSET bids
          BY DEF BidsOf
        <5> QED
          BY <1>9, <5>1, BoughtSubset DEF BInv, FinitelySold
      <4>3. TokensBought(BidsOf(bids, {a}) \cup {bid}) =
              TokensBought(BidsOf(bids, {a})) + fulfilled
        BY <1>3, <1>5, <4>2, BoughtAdd
      <4>4. a.starting = a.remaining + TokensBought(BidsOf(bids, {a}))
        BY DEF BInv, SoldMatchesBids
      <4>5. after.starting = after.remaining + TokensBought(BidsOf(bids', {c}))
        <5> DEFINE k == TokensBought(BidsOf(bids, {a}))
        <5>1. TokensBought(BidsOf(bids', {c})) = k + fulfilled
          BY <4>1, <4>3
        <5>2. k \in Nat /\ a.starting = balance + k
          BY <1>1, <4>2, <4>4
        <5> HIDE DEF k
        <5> QED
          BY <1>1, <1>3, <1>7, <5>1, <5>2
      <4> QED
        BY <3>1, <4>5
    <3>2. CASE c \in (active \cup ended) \ {a}
      <4>1. c.id # a.id
        BY <3>2 DEF IInv, StoreWellFormed
      <4>2. BidsOf(bids', {c}) = BidsOf(bids, {c})
        BY <1>4, <1>5, <4>1 DEF BidsOf
      <4> QED
        BY <3>2, <4>2 DEF BInv, SoldMatchesBids
    <3> QED
      BY <1>8, <3>1, <3>2
  <2>2. \A c : TokensBought(BidsOf(bids, {c}))' = TokensBought(BidsOf(bids', {c}))
    BY DEF TokensBought, CoinsBought, BidsOf
  <2> QED
    BY <2>0, <2>1, <2>2 DEF SoldMatchesBids
<1>13. BidPricesFall'
  <2>1. \A b \in bids : b.auction = a.id => a.price <= b.unitPrice
    BY DEF BInv, BidPricesFall, BidsOf
  <2>2. ASSUME NEW b \in bids', NEW c \in bids', b.auction = c.auction, b.id < c.id
        PROVE  c.unitPrice <= b.unitPrice /\ b.height <= c.height
    <3>1. CASE b \in bids /\ c \in bids
      BY <2>2, <3>1 DEF BInv, BidPricesFall
    <3>2. CASE b \in bids /\ c = bid
      BY <1>5, <2>1, <2>2, <3>2 DEF BInv, BidsAreOfPast
    <3>3. b # bid
      BY <1>1, <1>4, <1>5, <1>9, <2>2
    <3> QED
      BY <1>4, <3>1, <3>2, <3>3
  <2>3. ASSUME NEW c \in active', NEW b \in bids', b.auction = c.id
        PROVE  c.price <= b.unitPrice
    <3>1. CASE c = sold
      BY <1>2, <1>4, <1>5, <1>6, <2>1, <2>3, <3>1
    <3>2. CASE c \in active \ {a}
      <4>1. c.id # a.id
        BY <3>2 DEF IInv, StoreWellFormed
      <4>2. b \in BidsOf(bids, {c})
        BY <1>4, <1>5, <2>3, <4>1 DEF BidsOf
      <4> QED
        BY <3>2, <4>2 DEF BInv, BidPricesFall
    <3> QED
      BY <1>8, <3>1, <3>2
  <2>4. \A c \in active' : c.price <= c.initialPrice
    BY <1>6, <1>8 DEF BInv, BidPricesFall
  <2> QED
    BY <2>2, <2>3, <2>4 DEF BidPricesFall, BidsOf
<1>14. BidsAreOfPast'
  BY <1>1, <1>4, <1>5 DEF BInv, BidsAreOfPast
<1>15. ActiveIsLatest'
  <2>1. \A c \in active : c.denom = a.denom => c = a
    BY DEF IInv, StoreWellFormed
  <2>2. CASE sold.remaining = 0
    BY <1>7, <1>8, <2>1, <2>2 DEF BInv, ActiveIsLatest
  <2>3. CASE sold.remaining # 0
    BY <1>6, <1>8, <2>3 DEF BInv, ActiveIsLatest
  <2> QED
    BY <2>2, <2>3
<1>16. AllOnSchedule'
  <2>1. OnSchedule(sold, height)
    BY <1>6 DEF BInv, AllOnSchedule, OnSchedule
  <2> QED
    BY <1>4, <1>8, <2>1 DEF BInv, AllOnSchedule
<1> QED
  BY <1>10, <1>11, <1>12, <1>13, <1>14, <1>15, <1>16 DEF BInv

-----------------------------------------------------------------------------
(* EndBlocker *)

\* The record of an auction that ends, and the auctions a block deletes.
Closing(a) == Finished([a EXCEPT !.rate = NextRate(a)])
ClosedNow == {Closing(a) : a \in Exhausted}
PrunedNow == Prunable(ended \cup ClosedNow)

\* What the EndBlocker does to the stores, knowing that it does not panic.
LEMMA EndBlockFacts ==
  ASSUME IInv, EndBlocker
  PROVE  /\ active' = {Updated(a) : a \in active \ Exhausted}
         /\ ended' = (ended \cup ClosedNow) \ PrunedNow
         /\ bids' = bids \ BidsOf(bids, PrunedNow)
         /\ height' = height + 1 /\ height \in Nat
         /\ UNCHANGED lastAuctionID
         /\ Exhausted \subseteq active
         /\ PrunedNow \subseteq ended \cup ClosedNow
<1>1. EndBlockNeverPanics'
  BY EndBlockerIInv DEF IInv
<1>2. CanFinish(bank, bids, Exhausted)
  BY <1>1 DEF EndBlocker, Halt, EndBlockNeverPanics
<1> QED
  BY <1>2 DEF EndBlocker, EndBlockCompletes, ClosedNow, Closing, PrunedNow, Prunable,
     Exhausted, IInv, TypeOK

\* An auction that goes on or ends keeps its identity and what it sold.
LEMMA SuccessorFacts ==
  ASSUME IInv, NEW a \in active
  PROVE  /\ a \notin Exhausted =>
              /\ Updated(a).id = a.id /\ Updated(a).denom = a.denom
              /\ Updated(a).starting = a.starting
              /\ Updated(a).remaining = a.remaining
              /\ Updated(a).initialPrice = a.initialPrice
              /\ Updated(a).price \in Nat /\ Updated(a).price <= a.price
         /\ Closing(a).id = a.id /\ Closing(a).denom = a.denom
         /\ Closing(a).starting = a.starting /\ Closing(a).remaining = a.remaining
         /\ Closing(a).endBlock = height
<1>1. a \in AuctionRec /\ NextRate(a) \in Nat /\ height \in Nat
  BY UpdatedRec DEF IInv, TypeOK
<1>2. a.price \in Nat /\ a.initialPrice \in Nat
  BY <1>1 DEF AuctionRec
<1>3. Mul(a.initialPrice, NextRate(a)) \in Nat
  BY <1>1, <1>2, MulNat
<1>4. NextPrice(a) \in Int /\ NextPrice(a) <= a.price
  BY <1>2, <1>3 DEF NextPrice
<1>5. ASSUME a \notin Exhausted
      PROVE  /\ Updated(a).id = a.id /\ Updated(a).denom = a.denom
             /\ Updated(a).starting = a.starting
             /\ Updated(a).remaining = a.remaining
             /\ Updated(a).initialPrice = a.initialPrice
             /\ Updated(a).price \in Nat /\ Updated(a).price <= a.price
  <2>1. CASE PriceFalls(a)
    <3>1. NextPrice(a) > 0
      BY <1>4, <1>5, <2>1 DEF Exhausted
    <3>2. Updated(a) = [a EXCEPT !.rate = NextRate(a), !.price = NextPrice(a)]
      BY <2>1 DEF Updated
    <3> QED
      BY <1>1, <1>4, <3>1, <3>2 DEF AuctionRec
  <2>2. CASE ~ PriceFalls(a)
    BY <1>2, <2>2 DEF Updated
  <2> QED
    BY <2>1, <2>2
<1>6. /\ Closing(a).id = a.id /\ Closing(a).denom = a.denom
      /\ Closing(a).starting = a.starting /\ Closing(a).remaining = a.remaining
      /\ Closing(a).endBlock = height
  BY <1>1 DEF Closing, Finished, AuctionRec
<1> QED
  BY <1>5, <1>6

\* The rate of a decrease is never below the initial rate: a bid resets it, and
\* the acceleration only raises it, the rounding of the product included.
LEMMA RateAtLeastInitial ==
  ASSUME IInv, NEW a \in active, a.initialRate <= a.rate
  PROVE  NextRate(a) \in Nat /\ a.initialRate <= NextRate(a)
<1>1. /\ a.rate \in Nat /\ a.initialRate \in Nat /\ params.accelerationRate \in Nat
      /\ NextRate(a) \in Nat /\ Unit \in Nat \ {0}
  BY UpdatedRec, UnitAssumption DEF IInv, TypeOK, AuctionRec, Params
<1> DEFINE x == a.rate * (NewDec(1) + params.accelerationRate)
<1>2. x \in Nat /\ Unit * a.rate <= x
  <2>1. x = Unit * a.rate + a.rate * params.accelerationRate
    BY <1>1 DEF NewDec
  <2>2. Unit * a.rate \in Nat /\ a.rate * params.accelerationRate \in Nat
    BY <1>1
  <2> HIDE DEF x
  <2> QED
    BY <2>1, <2>2
<1>3. a.rate <= ChopPrecisionAndRound(x) /\ ChopPrecisionAndRound(x) \in Nat
  BY <1>1, <1>2, RoundError, RoundNat
<1>4. NextRate(a) = a.initialRate \/ NextRate(a) = ChopPrecisionAndRound(x)
  BY DEF NextRate, Mul
<1> HIDE DEF x
<1> QED
  BY <1>1, <1>3, <1>4

\* A block keeps an auction on schedule: the decrease is due exactly when another
\* interval is over.
LEMMA NextOnSchedule ==
  ASSUME IInv, NEW a \in active, a \notin Exhausted, OnSchedule(a, height),
         a.price <= a.initialPrice
  PROVE  OnSchedule(Updated(a), height + 1)
<1> DEFINE u == Updated(a)
           D == Mul(a.initialPrice, a.initialRate)
<1>1. /\ a \in AuctionRec /\ height \in Nat
      /\ a.startBlock \in Nat /\ a.interval \in Nat \ {0} /\ a.price \in Nat
      /\ a.initialPrice \in Nat /\ a.initialRate \in Nat /\ a.rate \in Nat
  BY DEF IInv, TypeOK, AuctionRec
<1>2. /\ a.startBlock <= height /\ a.initialRate <= a.rate
      /\ \A k \in Nat : a.startBlock + k * a.interval < height =>
            a.price + k * D <= a.initialPrice
  BY DEF OnSchedule
<1>3. D \in Nat
  BY <1>1, MulNat
<1>4. CASE ~ PriceFalls(a)
  <2>1. u = a
    BY <1>4 DEF Updated
  <2>2. ASSUME NEW k \in Nat, a.startBlock + k * a.interval < height + 1
        PROVE  a.price + k * D <= a.initialPrice
    <3> DEFINE x == k * a.interval
    <3>1. x \in Nat /\ x % a.interval = 0 /\ (k # 0 => x # 0)
      <4> DEFINE n == a.interval
      <4>1. n \in Nat \ {0}
        BY <1>1
      <4> HIDE DEF n
      <4>2. k * n \in Nat /\ (k # 0 => k * n # 0)
        BY <4>1
      <4>3. (k * n) % n = 0
        BY <4>1, MultipleMod
      <4> QED
        BY <4>2, <4>3 DEF n
    <3>2. CASE a.startBlock + x < height
      BY <1>2, <3>2
    <3>3. CASE a.startBlock + x = height
      <4>1. height - a.startBlock = x
        BY <1>1, <3>1, <3>3
      <4>2. height = a.startBlock
        BY <1>4, <3>1, <4>1 DEF PriceFalls
      <4>3. x = 0
        BY <1>1, <4>1, <4>2
      <4>4. k = 0
        BY <3>1, <4>3
      <4> QED
        BY <1>1, <1>3, <4>4
    <3>4. a.startBlock + x < height + 1
      BY <2>2
    <3> HIDE DEF x
    <3>5. a.startBlock + x < height \/ a.startBlock + x = height
      BY <1>1, <3>1, <3>4
    <3> QED
      BY <3>2, <3>3, <3>5
  <2> QED
    BY <1>1, <1>2, <2>1, <2>2 DEF OnSchedule
<1>5. CASE PriceFalls(a)
  <2> DEFINE E == Mul(a.initialPrice, NextRate(a))
  <2>1. NextRate(a) \in Nat /\ a.initialRate <= NextRate(a)
    BY <1>2, RateAtLeastInitial
  <2>2. E \in Nat /\ D <= E
    BY <1>1, <2>1, MulNat, MulMonotone
  <2>3. /\ u.startBlock = a.startBlock /\ u.interval = a.interval
        /\ u.initialRate = a.initialRate /\ u.initialPrice = a.initialPrice
        /\ u.rate = NextRate(a) /\ u.price = a.price - E
    BY <1>1, <1>5 DEF Updated, NextPrice, AuctionRec
  <2> HIDE DEF u, D, E
  <2>4. ASSUME NEW k \in Nat, a.startBlock + k * a.interval < height + 1
        PROVE  u.price + k * D <= a.initialPrice
    <3>1. CASE k = 0
      <4>1. k * D = 0
        BY <1>3, <3>1
      <4> QED
        BY <1>1, <2>2, <2>3, <4>1
    <3>2. CASE k # 0
      <4> DEFINE j == k - 1
      <4>1. j \in Nat /\ k = j + 1
        BY <3>2
      <4> HIDE DEF j
      <4>2. /\ k * a.interval = j * a.interval + a.interval /\ j * a.interval \in Nat
            /\ k * D = j * D + D /\ j * D \in Nat
        BY <1>1, <1>3, <4>1
      <4>3. a.startBlock + j * a.interval < height
        <5> DEFINE y == j * a.interval
                   n == a.interval
        <5>1. y \in Nat /\ n \in Nat \ {0} /\ a.startBlock + (y + n) < height + 1
          BY <1>1, <2>4, <4>2
        <5> HIDE DEF y, n
        <5>2. a.startBlock + y < height
          BY <1>1, <5>1
        <5> QED
          BY <5>2 DEF y
      <4>4. a.price + j * D <= a.initialPrice
        BY <1>2, <4>1, <4>3
      <4> QED
        BY <1>1, <1>3, <2>2, <2>3, <4>2, <4>4
    <3> QED
      BY <3>1, <3>2
  <2>5. /\ u.startBlock <= height + 1 /\ u.initialRate <= u.rate
        /\ \A k \in Nat : u.startBlock + k * u.interval < height + 1 =>
              u.price + k * Mul(u.initialPrice, u.initialRate) <= u.initialPrice
    BY <1>1, <1>2, <2>1, <2>3, <2>4 DEF D
  <2> QED
    BY <2>5 DEF OnSchedule, u
<1> QED
  BY <1>4, <1>5

\* The ids of the auctions that stay are not those of the auctions deleted.
LEMMA PrunedIds ==
  ASSUME IInv, EndBlocker
  PROVE  /\ \A a, e \in ended \cup ClosedNow : a.id = e.id => a = e
         /\ \A a \in active' \cup ended' :
              /\ \A e \in PrunedNow : e.id # a.id
              /\ \E o \in active \cup ended :
                   /\ a.id = o.id /\ a.denom = o.denom
                   /\ a.starting = o.starting /\ a.remaining = o.remaining
<1> USE EndBlockFacts
<1>1. \A a, e \in active \cup ended : a.id = e.id => a = e
  BY DEF IInv, StoreWellFormed
<1>2. active \cap ended = {}
  BY DEF IInv, StoreWellFormed
<1>3. \A c \in ClosedNow : \E a \in Exhausted :
         /\ c = Closing(a) /\ c.id = a.id /\ c.denom = a.denom
         /\ c.starting = a.starting /\ c.remaining = a.remaining
  BY SuccessorFacts DEF ClosedNow
<1>4. \A a, e \in ended \cup ClosedNow : a.id = e.id => a = e
  BY <1>1, <1>2, <1>3
<1>5. \A a \in active' : \E o \in active \ Exhausted :
         /\ a.id = o.id /\ a.denom = o.denom
         /\ a.starting = o.starting /\ a.remaining = o.remaining
  BY SuccessorFacts
<1>6. \A a \in active' : \A e \in PrunedNow : e.id # a.id
  BY <1>1, <1>2, <1>3, <1>5
<1>7. \A a \in ended' : \A e \in PrunedNow : e.id # a.id
  BY <1>4
<1>8. \A a \in ended' : \E o \in active \cup ended :
         /\ a.id = o.id /\ a.denom = o.denom
         /\ a.starting = o.starting /\ a.remaining = o.remaining
  BY <1>3
<1> QED
  BY <1>4, <1>5, <1>6, <1>7, <1>8

\* The EndBlocker lowers prices and deletes auctions with all their bids.
LEMMA EndBlockerBInv ==
  ASSUME IInv, BInv, EndBlocker
  PROVE  BInv'
<1> USE EndBlockFacts
<1>1. bids' \subseteq bids /\ bids \subseteq BidRec
  BY DEF IInv, TypeOK
<1>2. \A a \in active' \cup ended' : BidsOf(bids', {a}) = BidsOf(bids, {a})
  BY PrunedIds DEF BidsOf
<1>3. BidsAreFair'
  BY <1>1 DEF BInv, BidsAreFair
<1>4. BidsAreOfPast'
  <2>1. \A b \in bids : b.height \in Nat /\ b.height <= height
    BY <1>1 DEF BInv, BidsAreOfPast, BidRec
  <2> QED
    BY <1>1, <2>1 DEF BidsAreOfPast
<1>5. FinitelySold'
  <2>1. IsFiniteSet(CoinsBought(bids'))
    BY <1>1, BoughtSubset DEF BInv, FinitelySold
  <2> QED
    BY <2>1 DEF FinitelySold, CoinsBought
<1>6. SoldMatchesBids'
  <2>1. ASSUME NEW a \in active' \cup ended'
        PROVE  a.starting = a.remaining + TokensBought(BidsOf(bids', {a}))
    <3>1. PICK o \in active \cup ended : a.id = o.id
              /\ a.starting = o.starting /\ a.remaining = o.remaining
      BY PrunedIds
    <3>2. BidsOf(bids', {a}) = BidsOf(bids, {o})
      BY <1>2, <3>1 DEF BidsOf
    <3>3. o.starting = o.remaining + TokensBought(BidsOf(bids, {o}))
      BY DEF BInv, SoldMatchesBids
    <3> QED
      BY <3>1, <3>2, <3>3
  <2>2. ASSUME NEW b \in bids'
        PROVE  \E a \in active' \cup ended' : a.id = b.auction
    <3>1. b \in bids /\ \A e \in PrunedNow : e.id # b.auction
      BY <1>1 DEF BidsOf
    <3>2. PICK o \in active \cup ended : o.id = b.auction
      BY <3>1 DEF BInv, SoldMatchesBids
    <3>3. CASE o \in active \ Exhausted
      <4>1. Updated(o) \in active' /\ Updated(o).id = o.id
        BY <3>3, SuccessorFacts
      <4> QED
        BY <3>2, <4>1
    <3>4. CASE o \in Exhausted
      <4>1. Closing(o) \in ClosedNow /\ Closing(o).id = o.id
        BY <3>4, SuccessorFacts DEF ClosedNow
      <4> QED
        BY <3>1, <3>2, <4>1
    <3>5. CASE o \in ended
      BY <3>1, <3>2, <3>5
    <3> QED
      BY <3>2, <3>3, <3>4, <3>5
  <2>3. \A a : TokensBought(BidsOf(bids, {a}))' = TokensBought(BidsOf(bids', {a}))
    BY DEF TokensBought, CoinsBought, BidsOf
  <2> QED
    BY <2>1, <2>2, <2>3 DEF SoldMatchesBids
<1>7. BidPricesFall'
  <2>1. ASSUME NEW a \in active'
        PROVE  /\ \A b \in BidsOf(bids', {a}) : a.price <= b.unitPrice
               /\ a.price <= a.initialPrice
    <3>1. PICK o \in active \ Exhausted : a = Updated(o)
      OBVIOUS
    <3>2. /\ a.id = o.id /\ a.initialPrice = o.initialPrice
          /\ a.price \in Nat /\ a.price <= o.price
      BY <3>1, SuccessorFacts
    <3>3. BidsOf(bids', {a}) = BidsOf(bids, {o})
      BY <1>2, <3>2 DEF BidsOf
    <3>4. o.price \in Nat /\ o.initialPrice \in Nat
      BY DEF IInv, TypeOK, AuctionRec
    <3>5. \A b \in BidsOf(bids, {o}) : b.unitPrice \in Nat /\ o.price <= b.unitPrice
      BY <1>1 DEF BInv, BidPricesFall, BidsOf, BidRec
    <3>6. o.price <= o.initialPrice
      BY DEF BInv, BidPricesFall
    <3>7. \A b \in BidsOf(bids', {a}) : a.price <= b.unitPrice
      <4> SUFFICES ASSUME NEW b \in BidsOf(bids', {a}) PROVE a.price <= b.unitPrice
        OBVIOUS
      <4>1. b.unitPrice \in Nat /\ o.price <= b.unitPrice
        BY <3>3, <3>5
      <4> HIDE EndBlockFacts
      <4> QED
        BY <3>2, <3>4, <4>1
    <3>8. a.price <= a.initialPrice
      BY <3>2, <3>4, <3>6
    <3> QED
      BY <3>7, <3>8
  <2>2. \A b, c \in bids' : b.auction = c.auction /\ b.id < c.id =>
           c.unitPrice <= b.unitPrice /\ b.height <= c.height
    BY <1>1 DEF BInv, BidPricesFall
  <2>3. \A a : BidsOf(bids, {a})' = BidsOf(bids', {a})
    BY DEF BidsOf
  <2> QED
    BY <2>1, <2>2, <2>3 DEF BidPricesFall
<1>8. ActiveIsLatest'
  <2>1. \A a, b \in active : a.denom = b.denom => a = b
    BY DEF IInv, StoreWellFormed
  <2>2. ASSUME NEW a \in active', NEW e \in ended', a.denom = e.denom
        PROVE  e.id < a.id
    <3>1. PICK o \in active \ Exhausted : a.id = o.id /\ a.denom = o.denom
      BY SuccessorFacts
    <3>2. e \notin ClosedNow
      <4>1. \A c \in ClosedNow : \E x \in Exhausted : c.denom = x.denom
        BY SuccessorFacts DEF ClosedNow
      <4>2. \A x \in Exhausted : x.denom # e.denom
        BY <2>1, <2>2, <3>1
      <4> QED
        BY <4>1, <4>2
    <3> QED
      BY <2>2, <3>1, <3>2 DEF BInv, ActiveIsLatest
  <2> QED
    BY <2>2 DEF ActiveIsLatest
<1>9. AllOnSchedule'
  <2> SUFFICES ASSUME NEW o \in active \ Exhausted PROVE OnSchedule(Updated(o), height + 1)
    BY DEF AllOnSchedule
  <2> QED
    BY NextOnSchedule DEF BInv, AllOnSchedule, BidPricesFall
<1> QED
  BY <1>3, <1>4, <1>5, <1>6, <1>7, <1>8, <1>9 DEF BInv

-----------------------------------------------------------------------------
(* The theorems *)

\* Every step preserves the invariant.
LEMMA NextBInv == IInv /\ BInv /\ [Next]_vars => BInv'
<1> SUFFICES ASSUME IInv, BInv, [Next]_vars PROVE BInv'
  OBVIOUS
<1>1. CASE SomeBeginAuction
  <2>1. PICK d \in SaleDenoms, amount \in Amounts, rate \in Rates,
             interval \in Intervals, f \in FundingModules, p \in ProceedsModules :
               \/ BeginAuction(d, amount, rate, interval, f, p)
               \/ BeginAuctionPanics(d, amount, rate, interval, f, p)
    BY <1>1 DEF SomeBeginAuction
  <2>2. amount \in Nat /\ rate \in Nat /\ interval \in Nat
    BY ConstantAssumption
  <2>3. CASE BeginAuction(d, amount, rate, interval, f, p)
    BY <2>2, <2>3, BeginAuctionBInv
  <2>4. CASE BeginAuctionPanics(d, amount, rate, interval, f, p)
    BY <2>4, BInvKept DEF BeginAuctionPanics, Halt
  <2> QED
    BY <2>1, <2>3, <2>4
<1>2. CASE SomeBid
  <2>1. PICK bidder \in Bidders, a \in active, maxBid \in MaxBids,
             minAmount \in MinAmounts : SubmitBid(bidder, a, maxBid, minAmount)
    BY <1>2 DEF SomeBid
  <2>2. maxBid \in Nat \ {0} /\ minAmount \in Nat \ {0}
    BY ConstantAssumption
  <2> QED
    BY <2>1, <2>2, SubmitBidBInv
<1>3. CASE Governance
  BY <1>3, BInvKept DEF Governance, SetTokenPrices, ChangeParams
<1>4. CASE EndBlocker
  BY <1>4, EndBlockerBInv
<1>5. ASSUME UNCHANGED vars PROVE BInv'
  BY <1>5, BInvKept DEF vars
<1>6. CASE ExportAndImport
  BY <1>5, <1>6, GenesisRoundTrip
<1> QED
  BY <1>1, <1>2, <1>3, <1>4, <1>5, <1>6 DEF Next

\* The invariant of the bids holds in every reachable state.
THEOREM BidInvariance == Spec => [](IInv /\ BInv)
<1>1. Init => IInv /\ BInv
  BY InitIInv, InitBInv
<1>2. (IInv /\ BInv) /\ [Next]_vars => (IInv /\ BInv)'
  BY NextIInv, NextBInv
<1> QED
  BY <1>1, <1>2, PTL DEF Spec

\* Every bid gets at least the minimum it asked for and pays the price of what
\* it gets, rounded up by less than one usomm, whatever the rounding of the
\* decimals and whatever the price (msg_server.go:50-107).
THEOREM BidsStayFair == Spec => []BidsAreFair
<1>1. BInv => BidsAreFair
  BY DEF BInv
<1> QED
  BY <1>1, BidInvariance, PTL

\* No token is sold twice and none disappears from the books: what an auction
\* started with is what remains plus what its stored bids bought.
THEOREM SoldOnce == Spec => []SoldMatchesBids
<1>1. BInv => SoldMatchesBids
  BY DEF BInv
<1> QED
  BY <1>1, BidInvariance, PTL

\* The invariant bounds every price by the schedule.
LEMMA PricesFallOf == IInv /\ BInv => LaterBidsAreNotDearer
<1> SUFFICES ASSUME IInv, BInv PROVE BidPricesFall /\ FallsOnSchedule
  BY DEF LaterBidsAreNotDearer
<1>1. height \in Nat
  BY DEF IInv, TypeOK
<1> QED
  BY <1>1 DEF BInv, AllOnSchedule, OnSchedule, FallsOnSchedule

\* Waiting never makes a bid dearer: the price of an auction only falls, and in
\* every interval by at least what the initial rate takes, for every parameter
\* change and every order of bids (abci.go:13-53).
THEOREM PricesFall == Spec => []LaterBidsAreNotDearer
BY PricesFallOf, BidInvariance, PTL

\* Once the decreases by the initial rate alone have used up the initial price,
\* after k intervals, the auction is over one block later, sold out or not.
EndsInTime ==
    \A a \in active : \A k \in Nat :
        k * Mul(a.initialPrice, a.initialRate) >= a.initialPrice =>
            height <= a.startBlock + k * a.interval

LEMMA EndInTime == IInv /\ BInv => EndsInTime
<1> SUFFICES ASSUME IInv, BInv, NEW a \in active, NEW k \in Nat,
                    k * Mul(a.initialPrice, a.initialRate) >= a.initialPrice,
                    ~ (height <= a.startBlock + k * a.interval)
             PROVE  FALSE
  BY DEF EndsInTime
<1> DEFINE D == Mul(a.initialPrice, a.initialRate)
<1>1. /\ a.startBlock \in Nat /\ a.interval \in Nat /\ a.price \in Nat \ {0}
      /\ a.initialPrice \in Nat /\ a.initialRate \in Nat /\ height \in Nat
  BY DEF IInv, TypeOK, AuctionRec
<1>2. D \in Nat
  BY <1>1, MulNat
<1> HIDE DEF D
<1>3. k * a.interval \in Nat /\ k * D \in Nat
  BY <1>1, <1>2
<1>4. a.startBlock + k * a.interval < height
  BY <1>1, <1>3
<1>5. a.price + k * D <= a.initialPrice
  BY <1>4 DEF BInv, AllOnSchedule, OnSchedule, D
<1>6. k * D >= a.initialPrice
  BY DEF D
<1> QED
  BY <1>1, <1>3, <1>5, <1>6

\* Auctions end in time, for every parameter change and whatever is bid: the
\* safety half of AuctionsEnd, with the bound (abci.go:13-53).
THEOREM AuctionsEndInTime == Spec => []EndsInTime
BY EndInTime, BidInvariance, PTL

-----------------------------------------------------------------------------
(* Which ended auctions are kept *)

\* Among auctions with bounded ids one has the largest id.
LEMMA LatestExists ==
  ASSUME NEW n \in Nat, NEW T, T # {}, \A x \in T : x.id \in Nat /\ x.id <= n
  PROVE  \E x \in T : \A y \in T : y.id <= x.id
<1> DEFINE G == {n - x.id : x \in T}
           R == OpToRel(<, Nat)
<1>1. G \subseteq Nat /\ G # {}
  OBVIOUS
<1>2. \E g \in G : \A h \in G : ~ (<<h, g>> \in R)
  BY <1>1, NatLessThanWellFounded, WFMin
<1>3. PICK x \in T : \A h \in G : ~ (<<h, n - x.id>> \in R)
  BY <1>2
<1>4. ASSUME NEW y \in T PROVE y.id <= x.id
  <2>1. n - y.id \in G /\ n - y.id \in Nat /\ n - x.id \in Nat
    OBVIOUS
  <2>2. ~ (n - y.id < n - x.id)
    BY <1>3, <2>1 DEF OpToRel
  <2> QED
    BY <2>1, <2>2
<1> QED
  BY <1>4

\* A difference of heights that does not wrap is at most the difference.
LEMMA WindowStart ==
  ASSUME NEW h \in Nat, NEW w \in Nat, h >= w
  PROVE  USub(h, w) \in Nat /\ USub(h, w) <= h - w
<1> DEFINE x == h - w
<1>1. x \in Nat /\ UintModulus \in Nat \ {0}
  BY ConstantAssumption
<1> HIDE DEF x
<1>2. /\ x \div UintModulus \in Nat /\ x % UintModulus \in 0..(UintModulus - 1)
      /\ x = UintModulus * (x \div UintModulus) + (x % UintModulus)
  BY <1>1, DivMod
<1>3. UintModulus * (x \div UintModulus) \in Nat
  BY <1>1, <1>2
<1>4. x % UintModulus \in Nat /\ x % UintModulus <= x
  BY <1>1, <1>2, <1>3
<1> QED
  BY <1>4 DEF x, USub

\* What an EndBlocker deletes: old ended auctions that are not the last of their
\* denomination, and with them their bids.
LEMMA EndBlockerKeepsLatest ==
  ASSUME IInv, BInv, EndBlocker
  PROVE  /\ \A a \in ended \ ended' :
              /\ \E b \in ended' : b.denom = a.denom /\ b.id > a.id
              /\ \/ height > a.endBlock + params.auctionMaxBlockAge
                 \/ height < params.auctionMaxBlockAge
         /\ \A b \in bids \ bids' : \E a \in ended \ ended' : a.id = b.auction
<1> DEFINE store == ended \cup ClosedNow
<1>1. /\ ended' = store \ PrunedNow /\ bids' = bids \ BidsOf(bids, PrunedNow)
      /\ Exhausted \subseteq active
  BY EndBlockFacts
<1>2. \A c \in ClosedNow : \E a \in Exhausted : c.id = a.id /\ c.denom = a.denom
  BY <1>1, SuccessorFacts DEF ClosedNow
<1>3. \A a \in active \cup ended : a.id \in Nat /\ a.id <= lastAuctionID
  BY DEF IInv, TypeOK, StoreWellFormed, AuctionRec
<1>4. \A a \in store : a.id \in Nat /\ a.id <= lastAuctionID
  BY <1>1, <1>2, <1>3
<1>5. \A a \in PrunedNow : /\ a \in store
                           /\ \E b \in store : b.denom = a.denom /\ b.id > a.id
                           /\ a.endBlock < USub(height, params.auctionMaxBlockAge)
  BY DEF PrunedNow, Prunable
<1>6. ASSUME NEW a \in PrunedNow
      PROVE  \E b \in ended' : b.denom = a.denom /\ b.id > a.id
  <2> DEFINE T == {b \in store : b.denom = a.denom /\ b.id > a.id}
  <2>1. T # {} /\ \A x \in T : x.id \in Nat /\ x.id <= lastAuctionID
    BY <1>4, <1>5
  <2>2. lastAuctionID \in Nat
    BY DEF IInv, TypeOK
  <2>3. PICK x \in T : \A y \in T : y.id <= x.id
    BY <2>1, <2>2, LatestExists
  <2>4. \A y \in store : y.denom = x.denom => ~ (y.id > x.id)
    <3> SUFFICES ASSUME NEW y \in store, y.denom = x.denom, y.id > x.id PROVE FALSE
      OBVIOUS
    <3>1. a.id \in Nat /\ x.id \in Nat /\ y.id \in Nat /\ x.id > a.id
      BY <1>4, <1>5
    <3>2. y \in T
      BY <3>1
    <3> QED
      BY <2>3, <3>1, <3>2
  <2>5. x \notin PrunedNow
    BY <1>5, <2>4
  <2> QED
    BY <1>1, <2>5
<1>7. \A a \in ended \ ended' : a \in PrunedNow
  BY <1>1
<1>8. ASSUME NEW a \in ended \ ended'
      PROVE  \/ height > a.endBlock + params.auctionMaxBlockAge
             \/ height < params.auctionMaxBlockAge
  <2>1. height \in Nat /\ params.auctionMaxBlockAge \in Nat /\ a.endBlock \in Nat
    BY DEF IInv, TypeOK, Params, AuctionRec
  <2>2. a.endBlock < USub(height, params.auctionMaxBlockAge)
    BY <1>5, <1>7, <1>8
  <2>3. CASE height >= params.auctionMaxBlockAge
    BY <2>1, <2>2, <2>3, WindowStart
  <2> QED
    BY <2>1, <2>3
<1>9. \A a \in PrunedNow : a \in ended
  <2> SUFFICES ASSUME NEW a \in PrunedNow, a \in ClosedNow PROVE FALSE
    BY <1>5
  <2>1. PICK o \in Exhausted : a.id = o.id /\ a.denom = o.denom
    BY <1>2
  <2>2. PICK b \in store : b.denom = a.denom /\ b.id > a.id
    BY <1>5
  <2>3. \A x, y \in active : x.denom = y.denom => x = y
    BY DEF IInv, StoreWellFormed
  <2>4. o.id \in Nat /\ b.id \in Nat
    BY <1>1, <1>3, <1>4
  <2>5. b \notin ended
    BY <1>1, <2>1, <2>2, <2>4 DEF BInv, ActiveIsLatest
  <2>6. b \notin ClosedNow
    BY <1>1, <1>2, <2>1, <2>2, <2>3, <2>4
  <2> QED
    BY <2>5, <2>6
<1>10. \A b \in bids \ bids' : \E a \in ended \ ended' : a.id = b.auction
  BY <1>1, <1>9 DEF BidsOf
<1> QED
  BY <1>6, <1>7, <1>8, <1>10

\* Pruning keeps the latest ended auction of every denomination with its bids,
\* and every ended auction for the time the parameter promises, in every step of
\* every run: the wrap-around of the heights is the only exception
\* (abci.go:68-100).
THEOREM LatestEndedIsKept == Spec => LatestEndedKept
<1> DEFINE Kept == /\ \A a \in ended \ ended' :
                        /\ \E b \in ended' : b.denom = a.denom /\ b.id > a.id
                        /\ \/ height > a.endBlock + params.auctionMaxBlockAge
                           \/ height < params.auctionMaxBlockAge
                   /\ \A b \in bids \ bids' : \E a \in ended \ ended' : a.id = b.auction
<1>1. IInv /\ BInv /\ [Next]_vars => [Kept]_vars
  <2> SUFFICES ASSUME IInv, BInv, Next PROVE Kept \/ UNCHANGED vars
    OBVIOUS
  <2>1. CASE EndBlocker
    BY <2>1, EndBlockerKeepsLatest
  <2>2. CASE ExportAndImport
    BY <2>2, GenesisRoundTrip
  <2>3. CASE SomeBeginAuction \/ SomeBid \/ Governance
    <3>1. ended \subseteq ended' /\ bids \subseteq bids'
      <4>1. CASE SomeBeginAuction
        BY <4>1 DEF SomeBeginAuction, BeginAuction, BeginAuctionPanics, Halt
      <4>2. CASE SomeBid
        <5>1. \A bidder, a, maxBid, minAmount :
                 SubmitBid(bidder, a, maxBid, minAmount) =>
                    ended \subseteq ended' /\ bids \subseteq bids'
          BY DEF SubmitBid
        <5> QED
          BY <4>2, <5>1 DEF SomeBid
      <4>3. CASE Governance
        BY <4>3 DEF Governance, SetTokenPrices, ChangeParams
      <4> QED
        BY <2>3, <4>1, <4>2, <4>3
    <3> QED
      BY <3>1
  <2> QED
    BY <2>1, <2>2, <2>3 DEF Next
<1>2. Spec => [][Kept]_vars
  BY <1>1, BidInvariance, PTL DEF Spec
<1> QED
  BY <1>2 DEF LatestEndedKept
=============================================================================
