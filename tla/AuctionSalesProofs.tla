------------------------ MODULE AuctionSalesProofs ------------------------
(***************************************************************************)
(* The proof that Auction implements Sales: every step of the handlers,    *)
(* seen by the accounts outside, is a step of an escrow of separate sales. *)
(***************************************************************************)
EXTENDS AuctionBidProofs, AuctionSupplyProofs

-----------------------------------------------------------------------------
(* The refinement mapping *)

\* The sale that auction a is when the stored bids are bs.
SaleIn(bs, a) ==
    [denom |-> a.denom, seller |-> a.funding, beneficiary |-> a.proceeds,
     unsold |-> a.remaining, raised |-> UsommPaid(BidsOf(bs, {a}))]

\* The accounts outside, their balances and the sales.
Users   == Bidders \cup Modules
Wallets == [acct \in Users |-> bank[acct]]
OnOffer == {SaleOf(a) : a \in active}

\* The sales before and after a step.
LEMMA SalesMapped ==
  /\ OnOffer = {SaleIn(bids, a) : a \in active}
  /\ OnOffer' = {SaleIn(bids', a) : a \in active'}
BY DEF OnOffer, SaleOf, SaleIn, UsommPaid, CoinsPaid, BidsOf

\* The accounts of the abstract specification are those of users and modules.
LEMMA UserAccounts ==
  /\ Escrow!Accounts = Users /\ Escrow!Denoms = Denoms
  /\ Users \subseteq Accounts /\ AuctionAccount \notin Users
  /\ Usomm \in Denoms /\ SaleDenoms \subseteq Denoms /\ Usomm \notin SaleDenoms
BY ConstantAssumption DEF Escrow!Accounts, Escrow!Denoms, Users, Modules, Accounts, Denoms

\* A sale with other amounts.
LEMMA SaleUpdated ==
  ASSUME NEW d, NEW f, NEW p, NEW n, NEW r, NEW n2, NEW r2, NEW s, NEW t,
         s = [denom |-> d, seller |-> f, beneficiary |-> p, unsold |-> n, raised |-> r],
         t = [s EXCEPT !.unsold = n2, !.raised = r2]
  PROVE  t = [denom |-> d, seller |-> f, beneficiary |-> p, unsold |-> n2, raised |-> r2]
<1>1. DOMAIN s = {"denom", "seller", "beneficiary", "unsold", "raised"}
  OBVIOUS
<1>2. DOMAIN t = DOMAIN s /\ t = [x \in DOMAIN t |-> t[x]]
  OBVIOUS
<1>3. t.denom = d /\ t.seller = f /\ t.beneficiary = p /\ t.unsold = n2 /\ t.raised = r2
  OBVIOUS
<1> QED
  BY <1>1, <1>2, <1>3

\* Auctions of different denominations are different sales.
LEMMA SalesDiffer ==
  ASSUME NEW bs, NEW A, \A a, b \in A : a.denom = b.denom => a = b
  PROVE  \A a, b \in A : SaleIn(bs, a) = SaleIn(bs, b) => a = b
BY DEF SaleIn

-----------------------------------------------------------------------------
(* What ending sales pays *)

\* Both specifications count with the same operator.
LEMMA SameCardinality ==
  ASSUME NEW S
  PROVE  Escrow!Cardinality(S) = Cardinality(S)
BY DEF Escrow!Cardinality, Cardinality

\* A payout counts the coins of the sales that concern the account.
LEMMA PayoutOfProceeds ==
  ASSUME NEW S, NEW acct, NEW Y,
         \A y : y \in Y <=> \E s \in S : /\ s.beneficiary = acct
                                         /\ \E i \in 1..s.raised : y = <<s, i>>
  PROVE  Escrow!Payout(S, acct, Usomm) = Cardinality(Y)
<1> DEFINE Z == UNION {{s} \X (1..s.raised) : s \in {t \in S : t.beneficiary = acct}}
<1>1. Escrow!Payout(S, acct, Usomm) = Cardinality(Z)
  BY SameCardinality DEF Escrow!Payout
<1>2. \A y : y \in Z <=> \E s \in S : /\ s.beneficiary = acct
                                      /\ \E i \in 1..s.raised : y = <<s, i>>
  OBVIOUS
<1> HIDE DEF Z
<1>3. Z = Y
  BY <1>2
<1> QED
  BY <1>1, <1>3

LEMMA PayoutOfTokens ==
  ASSUME NEW S, NEW acct, NEW d, d # Usomm, NEW Y,
         \A y : y \in Y <=> \E s \in S : /\ s.seller = acct /\ s.denom = d
                                         /\ \E i \in 1..s.unsold : y = <<s, i>>
  PROVE  Escrow!Payout(S, acct, d) = Cardinality(Y)
<1> DEFINE Z == UNION {{s} \X (1..s.unsold) : s \in {t \in S : t.seller = acct /\ t.denom = d}}
<1>1. Escrow!Payout(S, acct, d) = Cardinality(Z)
  BY SameCardinality DEF Escrow!Payout
<1>2. \A y : y \in Z <=> \E s \in S : /\ s.seller = acct /\ s.denom = d
                                      /\ \E i \in 1..s.unsold : y = <<s, i>>
  OBVIOUS
<1> HIDE DEF Z
<1>3. Z = Y
  BY <1>2
<1> QED
  BY <1>1, <1>3

\* The proceeds: the sum over the bids of all auctions for an account is the sum
\* over its sales of what each has raised, for no bid is on two auctions.
LEMMA ProceedsPaidOut ==
  ASSUME NEW bs, IsFiniteSet(CoinsPaid(bs)), NEW done,
         \A a, b \in done : a.id = b.id => a = b,
         \A a, b \in done : a.denom = b.denom => a = b,
         NEW acct
  PROVE  Escrow!Payout({SaleIn(bs, a) : a \in done}, acct, Usomm) =
            UsommPaid(BidsOf(bs, PaidTo(done, acct, Usomm)))
<1> DEFINE P == PaidTo(done, acct, Usomm)
           A == {SaleIn(bs, a) : a \in P}
           X == CoinsPaid(BidsOf(bs, P))
           of(s) == {a \in P : SaleIn(bs, a) = s}
           part == [s \in A |-> CoinsPaid(BidsOf(bs, of(s)))]
           low == [s \in A |-> 0]
           S == {SaleIn(bs, a) : a \in done}
           T == {t \in S : t.beneficiary = acct}
           Y == UNION {{s} \X (1..s.raised) : s \in T}
<1>1. \A a : a \in P <=> a \in done /\ a.proceeds = acct
  BY DEF PaidTo
<1>2. T = A
  <2>1. \A a : SaleIn(bs, a).beneficiary = a.proceeds
    BY DEF SaleIn
  <2>2. \A t : t \in T <=> \E a \in P : t = SaleIn(bs, a)
    BY <1>1, <2>1
  <2>3. \A t : t \in A <=> \E a \in P : t = SaleIn(bs, a)
    OBVIOUS
  <2> HIDE DEF T, A
  <2> QED
    BY <2>2, <2>3
<1>3. Escrow!Payout(S, acct, Usomm) = Cardinality(Y)
  <2>1. \A y : y \in Y <=> \E s \in S : /\ s.beneficiary = acct
                                        /\ \E i \in 1..s.raised : y = <<s, i>>
    <3> HIDE DEF S
    <3> QED
      OBVIOUS
  <2> HIDE DEF S, Y
  <2> QED
    BY <2>1, PayoutOfProceeds
<1> HIDE DEF T
<1> HIDE DEF P
<1>4. \A a \in P : of(SaleIn(bs, a)) = {a}
  BY <1>1 DEF SaleIn
<1>5. \A a \in P : part[SaleIn(bs, a)] = CoinsPaid(BidsOf(bs, {a}))
  BY <1>4
<1>6. \A a \in P : SaleIn(bs, a).raised = Cardinality(part[SaleIn(bs, a)])
  BY <1>5 DEF SaleIn, UsommPaid
<1>7. \A x : x \in X <=> \E b \in bs, a \in P : b.auction = a.id /\ x \in {b} \X (1..b.paid)
  BY DEF CoinsPaid, BidsOf
<1>8. \A a \in P : \A x : x \in CoinsPaid(BidsOf(bs, {a})) <=>
         \E b \in bs : b.auction = a.id /\ x \in {b} \X (1..b.paid)
  BY DEF CoinsPaid, BidsOf
<1>9. IsFiniteSet(X)
  BY PaidSubset DEF BidsOf
<1>10. DOMAIN part = A /\ \A a \in P : SaleIn(bs, a) \in A
  OBVIOUS
<1>11. \A s \in A : \E a \in P : s = SaleIn(bs, a)
  OBVIOUS
<1> HIDE DEF X
<1>12. part \in [A -> SUBSET X]
  <2>1. ASSUME NEW s \in A PROVE part[s] \in SUBSET X
    <3>1. PICK a \in P : s = SaleIn(bs, a)
      BY <1>11
    <3>2. part[s] = CoinsPaid(BidsOf(bs, {a}))
      BY <1>5, <3>1
    <3> QED
      BY <1>7, <1>8, <3>2
  <2> QED
    BY <2>1
<1> HIDE DEF part, A
<1>13. \A x \in X : \E s \in A : x \in part[s]
  <2> SUFFICES ASSUME NEW x \in X PROVE \E s \in A : x \in part[s]
    OBVIOUS
  <2>1. PICK b \in bs, a \in P : b.auction = a.id /\ x \in {b} \X (1..b.paid)
    BY <1>7
  <2>2. x \in CoinsPaid(BidsOf(bs, {a}))
    BY <1>8, <2>1
  <2>3. x \in part[SaleIn(bs, a)]
    BY <1>5, <2>2
  <2> QED
    BY <1>10, <2>3
<1>14. \A s, t \in A : s # t => part[s] \cap part[t] = {}
  <2> SUFFICES ASSUME NEW s \in A, NEW t \in A, s # t, NEW x, x \in part[s], x \in part[t]
               PROVE  FALSE
    OBVIOUS
  <2>1. PICK a \in P, b \in P : s = SaleIn(bs, a) /\ t = SaleIn(bs, b)
    BY <1>11
  <2>0. x \in CoinsPaid(BidsOf(bs, {a})) /\ x \in CoinsPaid(BidsOf(bs, {b}))
    BY <1>5, <2>1
  <2>2. PICK u \in bs, v \in bs : /\ u.auction = a.id /\ x \in {u} \X (1..u.paid)
                                  /\ v.auction = b.id /\ x \in {v} \X (1..v.paid)
    BY <1>8, <2>0
  <2>3. u = v
    BY <2>2
  <2>4. a.id = b.id
    BY <2>2, <2>3
  <2> QED
    BY <1>1, <2>1, <2>4
<1>15. \A y : y \in Y <=> \E s \in A :
          \E i \in (low[s] + 1)..(low[s] + Cardinality(part[s])) : y = <<s, i>>
  <2>1. \A s \in A : s.raised = Cardinality(part[s]) /\ Cardinality(part[s]) \in Nat
    <3>1. \A s \in A : s.raised = Cardinality(part[s])
      BY <1>6, <1>11
    <3>2. \A s \in A : IsFiniteSet(part[s])
      BY <1>9, <1>12, FS_Subset
    <3> QED
      BY <3>1, <3>2, FS_CardinalityType
  <2>2. \A s \in A : (low[s] + 1)..(low[s] + Cardinality(part[s])) = 1..s.raised
    BY <2>1
  <2>3. \A y : y \in Y <=> \E s \in A : \E i \in 1..s.raised : y = <<s, i>>
    BY <1>2
  <2> QED
    BY <2>2, <2>3
<1>16. low \in [A -> Nat]
  OBVIOUS
<1> HIDE DEF Y, low
<1>17. IsFiniteSet(Y) /\ Cardinality(Y) = Cardinality(X)
  BY <1>9, <1>12, <1>13, <1>14, <1>15, <1>16, Stacked
<1> QED
  BY <1>3, <1>17 DEF S, X, P, UsommPaid

\* What each account gets when auctions end is what their sales leave for it.
LEMMA PayoutIsOwed ==
  ASSUME NEW bk, NEW bs, IsFiniteSet(CoinsPaid(bs)), NEW done,
         \A a \in done : /\ a.denom \in SaleDenoms /\ a.remaining \in Nat
                         /\ bk[AuctionAccount][a.denom] = a.remaining,
         \A a, b \in done : a.id = b.id => a = b,
         \A a, b \in done : a.denom = b.denom => a = b,
         NEW acct, NEW d \in Denoms
  PROVE  /\ Escrow!Payout({SaleIn(bs, a) : a \in done}, acct, d) =
              Owed(bk, bs, PaidTo(done, acct, d), d)
         /\ Owed(bk, bs, PaidTo(done, acct, d), d) \in Nat
<1> DEFINE S == {SaleIn(bs, a) : a \in done}
<1>1. CASE d = Usomm
  <2>1. BidsOf(bs, PaidTo(done, acct, d)) \in SUBSET bs
    BY DEF BidsOf
  <2>2. UsommPaid(BidsOf(bs, PaidTo(done, acct, d))) \in Nat
    BY <2>1, PaidSubset
  <2> QED
    BY <1>1, <2>2, ProceedsPaidOut DEF Owed
<1>2. CASE d # Usomm
  <2> DEFINE P == {a \in done : a.funding = acct /\ a.denom = d}
  <2>1. \A a : SaleIn(bs, a).seller = a.funding /\ SaleIn(bs, a).denom = a.denom
               /\ SaleIn(bs, a).unsold = a.remaining
    BY DEF SaleIn
  <2>2. (\E a \in PaidTo(done, acct, d) : a.denom = d) <=> P # {}
    BY <1>2 DEF PaidTo
  <2>3. Owed(bk, bs, PaidTo(done, acct, d), d) = IF P # {} THEN bk[AuctionAccount][d] ELSE 0
    BY <1>2, <2>2 DEF Owed
  <2>4. CASE P = {}
    <3>1. \A y : y \in {} <=> \E s \in S : /\ s.seller = acct /\ s.denom = d
                                           /\ \E i \in 1..s.unsold : y = <<s, i>>
      BY <2>1, <2>4
    <3>2. Escrow!Payout(S, acct, d) = Cardinality({})
      <4> HIDE DEF S
      <4> QED
        BY <1>2, <3>1, PayoutOfTokens
    <3> QED
      BY <2>3, <2>4, <3>2, FS_EmptySet
  <2>5. ASSUME NEW a \in P
        PROVE  /\ Escrow!Payout(S, acct, d) = bk[AuctionAccount][d]
               /\ bk[AuctionAccount][d] \in Nat
    <3> DEFINE sale == SaleIn(bs, a)
               n == a.remaining
               Y == {sale} \X (1..n)
    <3>1. n \in Nat /\ bk[AuctionAccount][d] = n /\ sale.unsold = n
      BY <2>1
    <3>2. \A t \in S : t.denom = d => t = sale
      BY <2>1
    <3>3. sale \in S /\ sale.seller = acct /\ sale.denom = d
      BY <2>1
    <3>4. \A y : y \in Y <=> \E s \in S : /\ s.seller = acct /\ s.denom = d
                                          /\ \E i \in 1..s.unsold : y = <<s, i>>
      <4> HIDE DEF S, sale, n
      <4> QED
        BY <3>1, <3>2, <3>3
    <3>5. Cardinality(Y) = n
      <4> HIDE DEF n, sale
      <4>1. IsFiniteSet({sale}) /\ Cardinality({sale}) = 1
        BY FS_Singleton
      <4>2. IsFiniteSet(1..n) /\ Cardinality(1..n) = n
        BY <3>1, FS_Interval
      <4>3. Cardinality(Y) = Cardinality({sale}) * Cardinality(1..n)
        BY <4>1, <4>2, FS_Product, Zenon
      <4> HIDE DEF Y
      <4> QED
        BY <3>1, <4>1, <4>2, <4>3
    <3> HIDE DEF S, Y
    <3>6. Escrow!Payout(S, acct, d) = Cardinality(Y)
      BY <1>2, <3>4, PayoutOfTokens
    <3> QED
      BY <3>1, <3>5, <3>6
  <2> QED
    BY <2>3, <2>4, <2>5
<1> QED
  BY <1>1, <1>2

\* Nothing ends, nothing is paid.
LEMMA PayoutNone ==
  ASSUME NEW acct, NEW d \in Denoms
  PROVE  Escrow!Payout({}, acct, d) = 0
<1>1. Cardinality({}) = 0
  BY FS_EmptySet
<1>2. CASE d = Usomm
  BY <1>1, <1>2, PayoutOfProceeds
<1>3. CASE d # Usomm
  BY <1>1, <1>3, PayoutOfTokens
<1> QED
  BY <1>2, <1>3

-----------------------------------------------------------------------------
(* The abstract actions, of the wallets and sales before and after a step *)

LEMMA OpenIs ==
  ASSUME NEW f, NEW p, NEW d, NEW n,
         \A s \in OnOffer : s.denom # d,
         n \in 1..Wallets[f][d],
         OnOffer' = OnOffer \cup {[denom |-> d, seller |-> f, beneficiary |-> p,
                                   unsold |-> n, raised |-> 0]},
         Wallets' = [Wallets EXCEPT ![f][d] = @ - n]
  PROVE  Escrow!Open(f, p, d, n)
BY DEF Escrow!Open, OnOffer, Wallets, Users

LEMMA BuyIs ==
  ASSUME NEW buyer, NEW s, NEW n, NEW paid, NEW after, after = Escrow!Sold(s, n, paid),
         n \in 1..s.unsold,
         paid \in 1..Wallets[buyer][Usomm],
         OnOffer' = (OnOffer \ {s}) \cup ({after} \ Escrow!Over(after)),
         Wallets' = [acct \in Users |-> [d \in Denoms |->
              Wallets[acct][d] + Escrow!Payout(Escrow!Over(after), acct, d)
                + (IF acct = buyer /\ d = s.denom THEN n ELSE 0)
                - (IF acct = buyer /\ d = Usomm THEN paid ELSE 0)]]
  PROVE  Escrow!Buy(buyer, s, n, paid)
BY UserAccounts DEF Escrow!Buy, OnOffer, Wallets, Users

LEMMA CloseIs ==
  ASSUME NEW S,
         OnOffer' = OnOffer \ S,
         Wallets' = [acct \in Users |-> [d \in Denoms |->
                        Wallets[acct][d] + Escrow!Payout(S, acct, d)]]
  PROVE  Escrow!Close(S)
BY UserAccounts DEF Escrow!Close, OnOffer, Wallets, Users

-----------------------------------------------------------------------------
(* The steps *)

\* An auction that begins opens a sale.
LEMMA BeginAuctionOpens ==
  ASSUME IInv,
         NEW d \in SaleDenoms, NEW amount \in Nat, NEW rate \in Nat,
         NEW interval \in Nat, NEW f \in FundingModules, NEW p \in ProceedsModules,
         BeginAuction(d, amount, rate, interval, f, p)
  PROVE  amount \in 1..Wallets[f][d] /\ Escrow!Open(f, p, d, amount)
<1> DEFINE new == NewAuction(d, amount, rate, interval, f, p)
           sale == [denom |-> d, seller |-> f, beneficiary |-> p,
                    unsold |-> amount, raised |-> 0]
<1>1. /\ active' = active \cup {new} /\ bids' = bids
      /\ bank' = SendCoins(bank, f, AuctionAccount, d, amount)
      /\ amount > 0 /\ amount <= bank[f][d] /\ ~ OnSale(d)
  BY DEF BeginAuction, BeginAuctionChecks
<1>2. /\ f \in Users /\ f \in Accounts /\ AuctionAccount \in Accounts
      /\ f # AuctionAccount /\ d \in Denoms /\ bank \in Bank
  BY UserAccounts DEF Users, Modules, Accounts, IInv, TypeOK, Bank
<1>3. SaleIn(bids, new) = sale
  <2>1. /\ new.id = lastAuctionID + 1 /\ new.denom = d /\ new.funding = f
        /\ new.proceeds = p /\ new.remaining = amount
    BY DEF NewAuction
  <2> HIDE DEF new
  <2>2. \A b \in bids : b.auction # new.id
    BY <2>1 DEF IInv, TypeOK, BidRec, BidsWellFormed
  <2>3. CoinsPaid(BidsOf(bids, {new})) = {}
    BY <2>2 DEF BidsOf, CoinsPaid
  <2>4. UsommPaid(BidsOf(bids, {new})) = 0
    BY <2>3, FS_EmptySet DEF UsommPaid
  <2> QED
    BY <2>1, <2>4 DEF SaleIn
<1> HIDE DEF new
<1>4. OnOffer' = OnOffer \cup {sale}
  BY <1>1, <1>3, SalesMapped
<1>5. \A s \in OnOffer : s.denom # d
  <2>1. \A a : SaleIn(bids, a).denom = a.denom
    BY DEF SaleIn
  <2> QED
    BY <1>1, <2>1, SalesMapped DEF OnSale
<1>6. Wallets[f][d] = bank[f][d]
  BY <1>2 DEF Wallets
<1>7. amount \in 1..Wallets[f][d]
  BY <1>1, <1>2, <1>6 DEF Bank
<1>8. Wallets' = [Wallets EXCEPT ![f][d] = @ - amount]
  <2>1. /\ bank' \in Bank
        /\ \A acct \in Accounts, e \in Denoms : bank'[acct][e] =
              IF e # d THEN bank[acct][e]
              ELSE IF acct = f THEN bank[acct][e] - amount
              ELSE IF acct = AuctionAccount THEN bank[acct][e] + amount
              ELSE bank[acct][e]
    BY <1>1, <1>2, SendBank
  <2>2. \A acct \in Users : bank'[acct] =
           IF acct = f THEN [bank[f] EXCEPT ![d] = @ - amount] ELSE bank[acct]
    <3> SUFFICES ASSUME NEW acct \in Users
                 PROVE  bank'[acct] = IF acct = f THEN [bank[f] EXCEPT ![d] = @ - amount]
                                      ELSE bank[acct]
      OBVIOUS
    <3>1. acct \in Accounts /\ acct # AuctionAccount
      BY UserAccounts
    <3>2. bank'[acct] \in [Denoms -> Nat] /\ bank[acct] \in [Denoms -> Nat]
      BY <1>2, <2>1, <3>1 DEF Bank
    <3> QED
      BY <2>1, <3>1, <3>2
  <2> QED
    BY <1>2, <2>2 DEF Wallets
<1> QED
  BY <1>4, <1>5, <1>7, <1>8, OpenIs

\* Auctions that end without a bid, their prices exhausted, are closed sales; for
\* all others nothing changes: a bid that is deleted belongs to a deleted auction.
LEMMA EndBlockerCloses ==
  ASSUME IInv, EndBlocker
  PROVE  \E S \in SUBSET OnOffer : Escrow!Close(S)
<1> DEFINE S == {SaleIn(bids, a) : a \in Exhausted}
<1>1. /\ active' = {Updated(a) : a \in active \ Exhausted}
      /\ Exhausted \subseteq active
  BY EndBlockFacts
<1>2. /\ bank \in Bank /\ active \subseteq AuctionRec
      /\ \A a, b \in active : a.id = b.id => a = b
      /\ \A a, b \in active : a.denom = b.denom => a = b
      /\ IsFiniteSet(CoinsPaid(bids))
  BY DEF IInv, TypeOK, Bank, StoreWellFormed, BidsWellFormed
<1>3. bank' = FinishAuctionBank(bank, bids, Exhausted)
  <2>1. EndBlockNeverPanics'
    BY EndBlockerIInv DEF IInv
  <2>2. CanFinish(bank, bids, Exhausted)
    BY <2>1 DEF EndBlocker, Halt, EndBlockNeverPanics
  <2> QED
    BY <2>2 DEF EndBlocker, EndBlockCompletes
<1>4. ASSUME NEW a \in active \ Exhausted
      PROVE  SaleIn(bids', Updated(a)) = SaleIn(bids, a)
  <2>1. /\ Updated(a).id = a.id /\ Updated(a).denom = a.denom
        /\ Updated(a).remaining = a.remaining
        /\ Updated(a).funding = a.funding /\ Updated(a).proceeds = a.proceeds
    <3>1. Updated(a).funding = a.funding /\ Updated(a).proceeds = a.proceeds
      BY <1>2 DEF Updated, AuctionRec
    <3> QED
      BY <3>1, SuccessorFacts
  <2>2. BidsOf(bids', {Updated(a)}) = BidsOf(bids, {a})
    <3>1. Updated(a) \in active'
      BY <1>1
    <3>2. \A e \in PrunedNow : e.id # a.id
      BY <2>1, <3>1, PrunedIds
    <3>3. bids' = bids \ BidsOf(bids, PrunedNow)
      BY EndBlockFacts
    <3> QED
      BY <2>1, <3>2, <3>3 DEF BidsOf
  <2> QED
    BY <2>1, <2>2 DEF SaleIn
<1>5. OnOffer' = OnOffer \ S
  <2>1. OnOffer' = {SaleIn(bids, a) : a \in active \ Exhausted}
    BY <1>1, <1>4, SalesMapped
  <2>2. {SaleIn(bids, a) : a \in active \ Exhausted} = {SaleIn(bids, a) : a \in active} \ S
    <3>1. \A a, b \in active : SaleIn(bids, a) = SaleIn(bids, b) => a = b
      BY <1>2, SalesDiffer
    <3> QED
      BY <1>1, <3>1
  <2> QED
    BY <2>1, <2>2, SalesMapped
<1>6. S \in SUBSET OnOffer
  BY <1>1, SalesMapped
<1>7. /\ \A a \in Exhausted : /\ a.denom \in SaleDenoms /\ a.remaining \in Nat
                              /\ bank[AuctionAccount][a.denom] = a.remaining
      /\ \A a, b \in Exhausted : a.id = b.id => a = b
      /\ \A a, b \in Exhausted : a.denom = b.denom => a = b
  BY <1>1, <1>2 DEF AuctionRec, IInv, SaleTokensBacked
<1>8. \A acct \in Users, d \in Denoms :
         bank'[acct][d] = Wallets[acct][d] + Escrow!Payout(S, acct, d)
  <2> SUFFICES ASSUME NEW acct \in Users, NEW d \in Denoms
               PROVE  bank'[acct][d] = Wallets[acct][d] + Escrow!Payout(S, acct, d)
    OBVIOUS
  <2>1. acct \in Accounts /\ acct # AuctionAccount /\ Wallets[acct][d] = bank[acct][d]
    BY UserAccounts DEF Wallets
  <2>2. bank'[acct][d] = bank[acct][d] + Owed(bank, bids, PaidTo(Exhausted, acct, d), d)
    BY <1>3, <2>1 DEF FinishAuctionBank
  <2>3. /\ Escrow!Payout(S, acct, d) = Owed(bank, bids, PaidTo(Exhausted, acct, d), d)
        /\ Owed(bank, bids, PaidTo(Exhausted, acct, d), d) \in Nat
    BY <1>2, <1>7, PayoutIsOwed
  <2> QED
    BY <2>1, <2>2, <2>3
<1> HIDE DEF S
<1>9. Wallets' = [acct \in Users |-> [d \in Denoms |->
                    Wallets[acct][d] + Escrow!Payout(S, acct, d)]]
  <2>1. bank' \in Bank
    BY EndBlockerIInv DEF IInv, TypeOK, Bank
  <2> DEFINE F == [acct \in Users |-> [d \in Denoms |->
                      Wallets[acct][d] + Escrow!Payout(S, acct, d)]]
  <2>2. ASSUME NEW acct \in Users PROVE bank'[acct] = F[acct]
    <3>1. bank'[acct] \in [Denoms -> Nat]
      BY <2>1, UserAccounts DEF Bank
    <3> QED
      BY <1>8, <3>1
  <2> HIDE DEF F
  <2>3. Wallets' = [acct \in Users |-> bank'[acct]]
    BY DEF Wallets, Users
  <2>4. F = [acct \in Users |-> F[acct]]
    BY DEF F
  <2> QED
    BY <2>2, <2>3, <2>4 DEF F
<1>10. PICK T : T = S
  OBVIOUS
<1>11. Escrow!Close(T)
  BY <1>5, <1>9, <1>10, CloseIs
<1> QED
  BY <1>6, <1>10, <1>11

\* A bid that is accepted is a purchase: it gets at least one token and pays at
\* least one usomm, and an auction it sells out is a sale that ends.
LEMMA SubmitBidBuys ==
  ASSUME IInv, NEW bidder \in Bidders, NEW a \in active,
         NEW maxBid \in Nat \ {0}, NEW minAmount \in Nat \ {0},
         SubmitBid(bidder, a, maxBid, minAmount)
  PROVE  \E s \in OnOffer : \E n \in 1..s.unsold, paid \in 1..Wallets[bidder][Usomm] :
            Escrow!Buy(bidder, s, n, paid)
<1> DEFINE balance   == bank[AuctionAccount][a.denom]
           fulfilled == SaleTokensToPurchase(balance, a.price, maxBid)
           bid       == NewBid(a, bidder, maxBid, minAmount, fulfilled)
           paidBank  == SendCoins(bank, bidder, AuctionAccount, Usomm, bid.paid)
           soldBank  == SendCoins(paidBank, AuctionAccount, bidder, a.denom, fulfilled)
           sold      == [a EXCEPT !.remaining = balance - fulfilled]
           newBids   == bids \cup {bid}
<1>1. /\ a \in AuctionRec /\ bank \in Bank /\ bids \subseteq BidRec /\ lastBidID \in Nat
      /\ a.denom \in SaleDenoms /\ a.remaining \in Nat /\ a.price \in Nat \ {0}
      /\ balance = a.remaining
  <2>1. a \in AuctionRec /\ bank \in Bank /\ bids \subseteq BidRec /\ lastBidID \in Nat
    BY DEF IInv, TypeOK, Bank
  <2>2. a.denom \in SaleDenoms /\ a.remaining \in Nat /\ a.price \in Nat \ {0}
    BY <2>1 DEF AuctionRec
  <2>3. balance = a.remaining
    BY <2>2 DEF IInv, SaleTokensBacked
  <2> QED
    BY <2>1, <2>2, <2>3
<1>2. /\ AuctionAccount \in Accounts /\ bidder \in Accounts /\ bidder # AuctionAccount
      /\ Usomm \in Denoms /\ a.denom \in Denoms /\ a.denom # Usomm /\ bidder \in Users
  BY <1>1, UserAccounts DEF Users, Accounts
<1>3. /\ BidIsAccepted(balance, a.price, maxBid, minAmount)
      /\ bid.paid <= bank[bidder][Usomm] /\ fulfilled <= balance
      /\ bids' = newBids
      /\ bank' = IF sold.remaining = 0
                  THEN FinishAuctionBank(soldBank, newBids, {sold}) ELSE soldBank
      /\ active' = (active \ {a}) \cup (IF sold.remaining = 0 THEN {} ELSE {sold})
  BY DEF SubmitBid
<1>4. /\ fulfilled \in Nat /\ Payment(fulfilled, a.price) \in Nat
      /\ fulfilled >= minAmount
      /\ fulfilled * a.price <= Payment(fulfilled, a.price) * Unit
  BY <1>1, <1>3, FairBid
<1> HIDE DEF balance, fulfilled
<1>5. /\ bid.id = lastBidID + 1 /\ bid.auction = a.id
      /\ bid.paid = Payment(fulfilled, a.price)
  BY DEF NewBid
<1>6. /\ sold.id = a.id /\ sold.denom = a.denom /\ sold.funding = a.funding
      /\ sold.proceeds = a.proceeds /\ sold.remaining = balance - fulfilled
  BY <1>1 DEF AuctionRec
<1> HIDE DEF bid, sold
<1>7. PICK n, paid : n = fulfilled /\ paid = bid.paid
  OBVIOUS
<1>8. n \in 1..a.remaining /\ paid \in 1..bank[bidder][Usomm]
  <2>1. n >= 1 /\ n \in Nat /\ paid \in Nat
    BY <1>4, <1>5, <1>7
  <2>2. paid # 0
    <3> SUFFICES ASSUME paid = 0 PROVE FALSE
      OBVIOUS
    <3>1. n * a.price <= 0
      BY <1>4, <1>5, <1>7, UnitAssumption
    <3>2. n * a.price >= 1
      BY <1>1, <2>1
    <3> QED
      BY <1>1, <2>1, <3>1, <3>2
  <2>3. bank[bidder][Usomm] \in Nat
    BY <1>1, <1>2 DEF Bank
  <2> QED
    BY <1>1, <1>3, <1>7, <2>1, <2>2, <2>3
<1>9. /\ soldBank \in Bank
      /\ soldBank[AuctionAccount][a.denom] = sold.remaining
      /\ \A acct \in Users, d \in Denoms : soldBank[acct][d] =
            bank[acct][d] + (IF acct = bidder /\ d = a.denom THEN n ELSE 0)
                          - (IF acct = bidder /\ d = Usomm THEN paid ELSE 0)
  <2>1. n \in Nat /\ paid \in Nat /\ n <= balance
    BY <1>1, <1>3, <1>4, <1>5, <1>7
  <2>2. /\ paidBank \in Bank
        /\ \A acct \in Accounts, e \in Denoms : paidBank[acct][e] =
              IF e # Usomm THEN bank[acct][e]
              ELSE IF acct = bidder THEN bank[acct][e] - paid
              ELSE IF acct = AuctionAccount THEN bank[acct][e] + paid
              ELSE bank[acct][e]
    BY <1>1, <1>2, <1>3, <1>7, <2>1, SendBank
  <2>3. paidBank[AuctionAccount][a.denom] = balance
    BY <1>2, <2>2 DEF balance
  <2> HIDE DEF paidBank
  <2>4. /\ soldBank \in Bank
        /\ \A acct \in Accounts, e \in Denoms : soldBank[acct][e] =
              IF e # a.denom THEN paidBank[acct][e]
              ELSE IF acct = AuctionAccount THEN paidBank[acct][e] - n
              ELSE IF acct = bidder THEN paidBank[acct][e] + n
              ELSE paidBank[acct][e]
    BY <1>2, <1>7, <2>1, <2>2, <2>3, SendBank
  <2> HIDE DEF soldBank
  <2>5. soldBank[AuctionAccount][a.denom] = sold.remaining
    BY <1>2, <1>6, <1>7, <2>3, <2>4
  <2>6. ASSUME NEW acct \in Users, NEW d \in Denoms
        PROVE  soldBank[acct][d] =
                  bank[acct][d] + (IF acct = bidder /\ d = a.denom THEN n ELSE 0)
                                - (IF acct = bidder /\ d = Usomm THEN paid ELSE 0)
    <3>1. acct \in Accounts /\ acct # AuctionAccount /\ bank[acct][d] \in Nat
      BY <1>1, UserAccounts DEF Bank
    <3> QED
      BY <1>2, <2>1, <2>2, <2>4, <3>1
  <2> QED
    BY <2>4, <2>5, <2>6
<1> HIDE DEF soldBank
<1>10. bid \notin bids
  BY <1>1, <1>5 DEF IInv, BidsWellFormed, BidRec
<1>11. PICK s, after : s = SaleIn(bids, a) /\ after = SaleIn(newBids, sold)
  OBVIOUS
<1>12. s \in OnOffer /\ s.unsold = a.remaining /\ s.denom = a.denom
  <2>1. SaleIn(bids, a).unsold = a.remaining /\ SaleIn(bids, a).denom = a.denom
    BY DEF SaleIn
  <2> QED
    BY <1>11, <2>1, SalesMapped
<1>13. after = Escrow!Sold(s, n, paid) /\ after.unsold = sold.remaining
  <2>1. BidsOf(newBids, {sold}) = BidsOf(bids, {a}) \cup {bid}
    BY <1>5, <1>6 DEF BidsOf
  <2>2. IsFiniteSet(CoinsPaid(BidsOf(bids, {a}))) /\ bid \notin BidsOf(bids, {a})
    <3>1. BidsOf(bids, {a}) \in SUBSET bids
      BY DEF BidsOf
    <3> QED
      BY <1>10, <3>1, PaidSubset DEF IInv, BidsWellFormed
  <2>3. UsommPaid(BidsOf(newBids, {sold})) = UsommPaid(BidsOf(bids, {a})) + paid
    BY <1>4, <1>5, <1>7, <2>1, <2>2, PaidAdd
  <2> HIDE DEF newBids
  <2> DEFINE u == UsommPaid(BidsOf(bids, {a}))
  <2>4. after = [denom |-> a.denom, seller |-> a.funding, beneficiary |-> a.proceeds,
                 unsold |-> a.remaining - n, raised |-> u + paid]
    BY <1>1, <1>6, <1>7, <1>11, <2>3 DEF SaleIn
  <2>5. s = [denom |-> a.denom, seller |-> a.funding, beneficiary |-> a.proceeds,
             unsold |-> a.remaining, raised |-> u]
    BY <1>11 DEF SaleIn
  <2> HIDE DEF u
  <2>6. after = Escrow!Sold(s, n, paid)
    <3>1. Escrow!Sold(s, n, paid) = [s EXCEPT !.unsold = s.unsold - n, !.raised = s.raised + paid]
      BY <2>5 DEF Escrow!Sold
    <3>2. s.unsold = a.remaining /\ s.raised = u
      BY <2>5
    <3>3. PICK n2, r2, t : /\ n2 = a.remaining - n /\ r2 = u + paid
                           /\ t = Escrow!Sold(s, n, paid)
      OBVIOUS
    <3>4. t = [s EXCEPT !.unsold = n2, !.raised = r2]
      BY <3>1, <3>2, <3>3
    <3>5. t = [denom |-> a.denom, seller |-> a.funding, beneficiary |-> a.proceeds,
               unsold |-> n2, raised |-> r2]
      BY <2>5, <3>4, SaleUpdated
    <3> QED
      BY <2>4, <3>3, <3>5
  <2> QED
    BY <1>1, <1>6, <1>7, <2>4, <2>6
<1>14. OnOffer' = (OnOffer \ {s}) \cup ({after} \ Escrow!Over(after))
  <2>1. \A c, e \in active : c.denom = e.denom => c = e
    BY DEF IInv, StoreWellFormed
  <2>2. \A c, e \in active : SaleIn(bids, c) = SaleIn(bids, e) => c = e
    BY <2>1, SalesDiffer
  <2>3. ASSUME NEW c \in active \ {a} PROVE SaleIn(newBids, c) = SaleIn(bids, c)
    <3>1. c.id # a.id
      BY DEF IInv, StoreWellFormed
    <3>2. BidsOf(newBids, {c}) = BidsOf(bids, {c})
      BY <1>5, <3>1 DEF BidsOf
    <3> QED
      BY <3>2 DEF SaleIn
  <2> HIDE DEF newBids
  <2>4. {after} \ Escrow!Over(after) = IF sold.remaining = 0 THEN {} ELSE {after}
    BY <1>13 DEF Escrow!Over
  <2>5. \A x : x \in OnOffer <=> \E c \in active : x = SaleIn(bids, c)
    BY SalesMapped
  <2>6. \A x : x \in OnOffer' <=> \E c \in active' : x = SaleIn(newBids, c)
    BY <1>3, SalesMapped
  <2>7. \A x : x \in OnOffer \ {s} <=> \E c \in active \ {a} : x = SaleIn(bids, c)
    BY <1>11, <2>2, <2>5
  <2>8. \A x : x \in OnOffer' <=> \/ x \in OnOffer \ {s}
                                  \/ sold.remaining # 0 /\ x = after
    BY <1>3, <1>11, <2>3, <2>6, <2>7
  <2> QED
    BY <2>4, <2>8
<1>15. \A acct \in Users, d \in Denoms :
          /\ bank'[acct][d] = soldBank[acct][d] + Escrow!Payout(Escrow!Over(after), acct, d)
          /\ Escrow!Payout(Escrow!Over(after), acct, d) \in Nat
  <2> SUFFICES ASSUME NEW acct \in Users, NEW d \in Denoms
               PROVE  /\ bank'[acct][d] = soldBank[acct][d]
                                + Escrow!Payout(Escrow!Over(after), acct, d)
                      /\ Escrow!Payout(Escrow!Over(after), acct, d) \in Nat
    OBVIOUS
  <2>1. acct \in Accounts /\ acct # AuctionAccount /\ soldBank[acct][d] \in Nat
    BY <1>9, UserAccounts DEF Bank
  <2>2. CASE sold.remaining # 0
    <3>1. Escrow!Over(after) = {}
      BY <1>13, <2>2 DEF Escrow!Over
    <3> QED
      BY <1>3, <2>1, <2>2, <3>1, PayoutNone
  <2>3. CASE sold.remaining = 0
    <3> DEFINE done == {sold}
    <3>1. Escrow!Over(after) = {SaleIn(newBids, c) : c \in done}
      BY <1>11, <1>13, <2>3 DEF Escrow!Over
    <3>2. /\ \A c \in done : /\ c.denom \in SaleDenoms /\ c.remaining \in Nat
                             /\ soldBank[AuctionAccount][c.denom] = c.remaining
          /\ \A c, e \in done : c.id = e.id => c = e
          /\ \A c, e \in done : c.denom = e.denom => c = e
      BY <1>1, <1>6, <1>9, <2>3
    <3>3. IsFiniteSet(CoinsPaid(newBids))
      BY <1>4, <1>5, <1>10, PaidAdd DEF IInv, BidsWellFormed
    <3>4. bank'[acct][d] =
             soldBank[acct][d] + Owed(soldBank, newBids, PaidTo(done, acct, d), d)
      BY <1>3, <2>1, <2>3 DEF FinishAuctionBank
    <3> HIDE DEF done, newBids
    <3>5. /\ Escrow!Payout({SaleIn(newBids, c) : c \in done}, acct, d) =
               Owed(soldBank, newBids, PaidTo(done, acct, d), d)
          /\ Owed(soldBank, newBids, PaidTo(done, acct, d), d) \in Nat
      BY <3>2, <3>3, PayoutIsOwed
    <3> QED
      BY <3>1, <3>4, <3>5
  <2> QED
    BY <2>2, <2>3
<1>16. PICK F : F = [acct \in Users |-> [d \in Denoms |->
              Wallets[acct][d] + Escrow!Payout(Escrow!Over(after), acct, d)
                + (IF acct = bidder /\ d = s.denom THEN n ELSE 0)
                - (IF acct = bidder /\ d = Usomm THEN paid ELSE 0)]]
  OBVIOUS
<1>17. bank' \in Bank
  BY SubmitBidIInv DEF IInv, TypeOK, Bank
<1>18. ASSUME NEW acct \in Users PROVE bank'[acct] = F[acct]
  <2>1. bank'[acct] \in [Denoms -> Nat]
    BY <1>17, UserAccounts DEF Bank
  <2>2. ASSUME NEW d \in Denoms PROVE bank'[acct][d] = F[acct][d]
    <3> DEFINE e == Escrow!Payout(Escrow!Over(after), acct, d)
    <3>1. /\ bank'[acct][d] = soldBank[acct][d] + e
          /\ soldBank[acct][d] =
               bank[acct][d] + (IF acct = bidder /\ d = a.denom THEN n ELSE 0)
                             - (IF acct = bidder /\ d = Usomm THEN paid ELSE 0)
      BY <1>9, <1>15
    <3>2. F[acct][d] = bank[acct][d] + e + (IF acct = bidder /\ d = a.denom THEN n ELSE 0)
                                         - (IF acct = bidder /\ d = Usomm THEN paid ELSE 0)
      BY <1>12, <1>16 DEF Wallets
    <3>3. e \in Int /\ bank[acct][d] \in Int /\ n \in Int /\ paid \in Int
      <4>1. bank'[acct][d] \in Int /\ soldBank[acct][d] \in Int /\ bank[acct][d] \in Int
        BY <1>1, <1>9, <1>17, UserAccounts DEF Bank
      <4>2. e \in Nat
        BY <1>15
      <4> QED
        BY <1>8, <4>1, <4>2
    <3> HIDE DEF e
    <3> QED
      BY <3>1, <3>2, <3>3
  <2>3. F[acct] = [d \in Denoms |-> F[acct][d]]
    BY <1>16
  <2> QED
    BY <2>1, <2>2, <2>3
<1>19. Wallets' = F
  <2>1. Wallets' = [acct \in Users |-> bank'[acct]]
    BY DEF Wallets, Users
  <2>2. F = [acct \in Users |-> F[acct]]
    BY <1>16
  <2> QED
    BY <1>18, <2>1, <2>2
<1>20. Wallets[bidder][Usomm] = bank[bidder][Usomm]
  BY <1>2 DEF Wallets
<1>21. Escrow!Buy(bidder, s, n, paid)
  BY <1>8, <1>12, <1>13, <1>14, <1>16, <1>19, <1>20, BuyIs
<1> QED
  BY <1>8, <1>12, <1>20, <1>21

\* Every step is a step of the escrow or nothing that its users see.
LEMMA NextSales ==
  ASSUME IInv, [Next]_vars
  PROVE  Escrow!Next \/ UNCHANGED <<Wallets, OnOffer>>
<1>1. ASSUME UNCHANGED <<active, bids, bank>> PROVE UNCHANGED <<Wallets, OnOffer>>
  <2>1. OnOffer' = OnOffer
    BY <1>1, SalesMapped
  <2> QED
    BY <1>1, <2>1 DEF Wallets, Users
<1>2. CASE SomeBeginAuction
  <2>1. PICK d \in SaleDenoms, amount \in Amounts, rate \in Rates,
             interval \in Intervals, f \in FundingModules, p \in ProceedsModules :
               \/ BeginAuction(d, amount, rate, interval, f, p)
               \/ BeginAuctionPanics(d, amount, rate, interval, f, p)
    BY <1>2 DEF SomeBeginAuction
  <2>2. amount \in Nat /\ rate \in Nat /\ interval \in Nat
    BY ConstantAssumption
  <2>3. CASE BeginAuction(d, amount, rate, interval, f, p)
    <3>1. amount \in 1..Wallets[f][d] /\ Escrow!Open(f, p, d, amount)
      BY <2>2, <2>3, BeginAuctionOpens
    <3> QED
      BY <3>1 DEF Escrow!Next, Escrow!SomeOpen, Wallets, Users
  <2>4. CASE BeginAuctionPanics(d, amount, rate, interval, f, p)
    BY <1>1, <2>4 DEF BeginAuctionPanics, Halt
  <2> QED
    BY <2>1, <2>3, <2>4
<1>3. CASE SomeBid
  <2>1. PICK bidder \in Bidders, a \in active, maxBid \in MaxBids,
             minAmount \in MinAmounts : SubmitBid(bidder, a, maxBid, minAmount)
    BY <1>3 DEF SomeBid
  <2>2. maxBid \in Nat \ {0} /\ minAmount \in Nat \ {0}
    BY ConstantAssumption
  <2>3. PICK s \in OnOffer : \E n \in 1..s.unsold, paid \in 1..Wallets[bidder][Usomm] :
           Escrow!Buy(bidder, s, n, paid)
    BY <2>1, <2>2, SubmitBidBuys
  <2>4. PICK n \in 1..s.unsold, paid \in 1..Wallets[bidder][Usomm] :
           Escrow!Buy(bidder, s, n, paid)
    BY <2>3
  <2> QED
    BY <2>4 DEF Escrow!Next, Escrow!SomeBuy, Wallets, Users, OnOffer
<1>4. CASE Governance
  BY <1>1, <1>4 DEF Governance, SetTokenPrices, ChangeParams
<1>5. CASE EndBlocker
  <2>1. PICK S \in SUBSET OnOffer : Escrow!Close(S)
    BY <1>5, EndBlockerCloses
  <2> QED
    BY <2>1 DEF Escrow!Next, Escrow!SomeClose, OnOffer
<1>6. CASE ExportAndImport
  BY <1>1, <1>6, GenesisRoundTrip DEF vars
<1>7. CASE UNCHANGED vars
  BY <1>1, <1>7 DEF vars
<1> QED
  BY <1>2, <1>3, <1>4, <1>5, <1>6, <1>7 DEF Next

-----------------------------------------------------------------------------
(* The theorem *)

\* x/auction implements an escrow of separate sales, for every order of bids,
\* blocks and proposals and for any number of auctions that share the module
\* account: every sale gives back what it has not sold and pays out what it has
\* raised, once and to its own modules, and no purchase is free or empty
\* (keeper.go:307-335, msg_server.go:17-150).
THEOREM AuctionImplementsSales == Spec => ImplementsSales
<1>1. Init => Escrow!Init
  <2> SUFFICES ASSUME Init PROVE Escrow!Init
    OBVIOUS
  <2>1. active = {} /\ bank \in Bank
    BY BankAssumption DEF Init, Bank
  <2>2. Wallets \in [Escrow!Accounts -> [Escrow!Denoms -> Nat]]
    BY <2>1, UserAccounts DEF Wallets, Bank
  <2>3. OnOffer = {}
    BY <2>1 DEF OnOffer
  <2> QED
    BY <2>2, <2>3 DEF Escrow!Init, Wallets, Users, OnOffer
<1>2. IInv /\ [Next]_vars =>
        [Escrow!Next]_<<[acct \in Bidders \cup Modules |-> bank[acct]],
                        {SaleOf(a) : a \in active}>>
  BY NextSales DEF Wallets, Users, OnOffer
<1> QED
  BY <1>1, <1>2, Invariance, PTL DEF Spec, ImplementsSales, Escrow!Spec
=============================================================================
