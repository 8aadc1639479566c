------------------------ MODULE AuctionSupplyProofs ------------------------
(***************************************************************************)
(* The proof that the handlers of x/auction neither create nor destroy     *)
(* coins.  The supply is the number of elements of a set of coins, so that *)
(* a transfer is a set of coins that is exchanged for one of the same      *)
(* cardinality.                                                            *)
(***************************************************************************)
EXTENDS AuctionProofs

-----------------------------------------------------------------------------
(* Transfers *)

\* The coins added above the balances low of several accounts, one for each
\* element of the account's part of X, are as many as X has elements.
LEMMA Stacked ==
  ASSUME NEW A, NEW X, IsFiniteSet(X), NEW part \in [A -> SUBSET X],
         NEW low \in [A -> Nat],
         \A x \in X : \E a \in A : x \in part[a],
         \A a, b \in A : a # b => part[a] \cap part[b] = {},
         NEW Y,
         \A y : y \in Y <=>
            \E a \in A : \E i \in (low[a] + 1)..(low[a] + Cardinality(part[a])) : y = <<a, i>>
  PROVE  IsFiniteSet(Y) /\ Cardinality(Y) = Cardinality(X)
<1> DEFINE n == [a \in A |-> Cardinality(part[a])]
           g == [a \in A |-> CHOOSE f : f \in Bijection(1..n[a], part[a])]
           G == [y \in Y |-> g[y[1]][y[2] - low[y[1]]]]
<1>1. ASSUME NEW a \in A
      PROVE  n[a] \in Nat /\ g[a] \in Bijection(1..n[a], part[a])
  <2>1. IsFiniteSet(part[a])
    BY FS_Subset
  <2>2. n[a] \in Nat /\ ExistsBijection(1..n[a], part[a])
    BY <2>1, FS_CardinalityType
  <2>3. \E f : f \in Bijection(1..n[a], part[a])
    BY <2>2 DEF ExistsBijection
  <2> QED
    BY <2>2, <2>3
<1>2. ASSUME NEW a \in A
      PROVE  /\ \A i \in 1..n[a] : g[a][i] \in part[a]
             /\ \A i, j \in 1..n[a] : g[a][i] = g[a][j] => i = j
             /\ \A x \in part[a] : \E i \in 1..n[a] : g[a][i] = x
  <2> DEFINE f == g[a]
             m == n[a]
  <2>1. f \in Bijection(1..m, part[a])
    BY <1>1
  <2> HIDE DEF f, m
  <2>2. /\ \A i \in 1..m : f[i] \in part[a]
        /\ \A i, j \in 1..m : f[i] = f[j] => i = j
        /\ \A x \in part[a] : \E i \in 1..m : f[i] = x
    BY <2>1 DEF Bijection, Injection, Surjection, IsInjective
  <2> QED
    BY <2>2 DEF f, m
<1>3. \A y \in Y : /\ y[1] \in A /\ y = <<y[1], y[2]>>
                   /\ y[2] \in (low[y[1]] + 1)..(low[y[1]] + n[y[1]])
  OBVIOUS
<1>4. \A a \in A : \A i \in 1..n[a] : <<a, low[a] + i>> \in Y
  <2> SUFFICES ASSUME NEW a \in A, NEW i \in 1..n[a]
               PROVE  <<a, low[a] + i>> \in Y
    OBVIOUS
  <2>1. low[a] \in Nat /\ n[a] \in Nat /\ n[a] = Cardinality(part[a])
    BY <1>1
  <2>2. low[a] + i \in (low[a] + 1)..(low[a] + Cardinality(part[a]))
    BY <2>1
  <2> QED
    BY <2>2
<1> HIDE DEF n, g
<1>5. \A y \in Y : y[2] - low[y[1]] \in 1..n[y[1]]
  BY <1>1, <1>3
<1>6. \A y \in Y : G[y] \in part[y[1]]
  <2> SUFFICES ASSUME NEW y \in Y PROVE G[y] \in part[y[1]]
    OBVIOUS
  <2>1. y[1] \in A /\ y[2] - low[y[1]] \in 1..n[y[1]]
    BY <1>3, <1>5
  <2>2. g[y[1]][y[2] - low[y[1]]] \in part[y[1]]
    BY <1>2, <2>1
  <2> QED
    BY <2>2
<1>7. G \in [Y -> X]
  BY <1>3, <1>6
<1>8. ASSUME NEW y \in Y, NEW z \in Y, G[y] = G[z] PROVE y = z
  <2>1. y[1] = z[1]
    BY <1>3, <1>6, <1>8
  <2>2. y[2] - low[y[1]] = z[2] - low[y[1]]
    <3> DEFINE i == y[2] - low[y[1]]
               j == z[2] - low[y[1]]
    <3>1. i \in 1..n[y[1]] /\ j \in 1..n[y[1]]
      BY <1>5, <2>1
    <3>2. g[y[1]][i] = g[y[1]][j]
      BY <1>8, <2>1
    <3> HIDE DEF i, j
    <3>3. i = j
      BY <1>2, <1>3, <3>1, <3>2
    <3> QED
      BY <3>3 DEF i, j
  <2>3. y[2] \in Int /\ z[2] \in Int /\ low[y[1]] \in Int
    BY <1>1, <1>3
  <2>4. y[2] = z[2]
    BY <2>2, <2>3
  <2> QED
    BY <1>3, <2>1, <2>4
<1>9. ASSUME NEW x \in X PROVE \E y \in Y : G[y] = x
  <2>1. PICK a \in A : x \in part[a]
    OBVIOUS
  <2>2. PICK i \in 1..n[a] : g[a][i] = x
    BY <1>2, <2>1
  <2>3. low[a] \in Nat /\ i \in Int
    BY <1>1
  <2>4. (low[a] + i) - low[a] = i
    BY <2>3
  <2>5. G[<<a, low[a] + i>>] = x
    BY <1>4, <2>2, <2>4
  <2> QED
    BY <1>4, <2>5
<1> HIDE DEF G
<1>10. G \in Injection(Y, X) /\ G \in Surjection(Y, X)
  BY <1>7, <1>8, <1>9 DEF Injection, Surjection, IsInjective
<1> QED
  BY <1>10, FS_Injection

\* bk2 is bk after moving as many coins of d as X has elements from one account
\* to others, each of which gets its part.
Moves(bk, bk2, d, from, X, part) ==
    /\ IsFiniteSet(X) /\ part \in [Accounts -> SUBSET X] /\ part[from] = {}
    /\ \A x \in X : \E acct \in Accounts : x \in part[acct]
    /\ \A a, b \in Accounts : a # b => part[a] \cap part[b] = {}
    /\ Cardinality(X) <= bk[from][d]
    /\ bk2[from][d] = bk[from][d] - Cardinality(X)
    /\ \A acct \in Accounts \ {from} :
          bk2[acct][d] = bk[acct][d] + Cardinality(part[acct])

\* Moving coins keeps their number.
LEMMA MovesConserve ==
  ASSUME NEW bk \in Bank, NEW bk2 \in Bank, NEW d \in Denoms, NEW from \in Accounts,
         NEW X, NEW part, Moves(bk, bk2, d, from, X, part),
         IsFiniteSet(CoinsOf(bk, d))
  PROVE  IsFiniteSet(CoinsOf(bk2, d)) /\ Supply(bk2, d) = Supply(bk, d)
<1> DEFINE low  == [acct \in Accounts |-> bk[acct][d]]
           c    == Cardinality(X)
           kept == bk[from][d] - c
           gone == {from} \X ((kept + 1)..bk[from][d])
           Y    == UNION {{a} \X ((low[a] + 1)..(low[a] + Cardinality(part[a])))
                            : a \in Accounts}
           old  == CoinsOf(bk, d)
<1>1. c \in Nat /\ kept \in Nat /\ bk[from][d] \in Nat /\ kept + c = bk[from][d]
      /\ bk2[from][d] = kept
  BY FS_CardinalityType DEF Bank, Moves
<1>2. low \in [Accounts -> Nat] /\ \A acct \in Accounts : low[acct] = bk[acct][d]
  BY DEF Bank
<1>3. \A acct \in Accounts : Cardinality(part[acct]) \in Nat
  BY FS_Subset, FS_CardinalityType DEF Moves
<1>4. \A e : e \in Y <=>
         \E a \in Accounts :
            \E i \in (low[a] + 1)..(low[a] + Cardinality(part[a])) : e = <<a, i>>
  OBVIOUS
<1>5. IsFiniteSet(Y) /\ Cardinality(Y) = c
  <2> HIDE DEF Y, low
  <2> QED
    BY <1>2, <1>4, Stacked DEF Moves
<1>6. IsFiniteSet(gone) /\ Cardinality(gone) = c
  <2>1. IsFiniteSet({from}) /\ Cardinality({from}) = 1
    BY FS_Singleton
  <2>2. /\ IsFiniteSet((kept + 1)..bk[from][d])
        /\ Cardinality((kept + 1)..bk[from][d]) = c
    <3> DEFINE top == bk[from][d]
    <3>1. kept \in Nat /\ top \in Nat /\ c \in Nat /\ kept + c = top
      BY <1>1
    <3> HIDE DEF top, kept, c
    <3>2. kept + 1 \in Int /\ top \in Int
      BY <3>1
    <3>3. /\ IsFiniteSet((kept + 1)..top)
          /\ Cardinality((kept + 1)..top) =
                IF kept + 1 > top THEN 0 ELSE top - (kept + 1) + 1
      BY <3>2, FS_Interval
    <3>4. Cardinality((kept + 1)..top) = c
      BY <3>1, <3>3
    <3> QED
      BY <3>3, <3>4 DEF top
  <2>3. IsFiniteSet(gone)
        /\ Cardinality(gone) = Cardinality({from}) * Cardinality((kept + 1)..bk[from][d])
    BY <2>1, <2>2, FS_Product, Zenon
  <2> QED
    BY <1>1, <2>1, <2>2, <2>3
<1>7. \A e : e \in old <=> \E a \in Accounts : \E i \in 1..bk[a][d] : e = <<a, i>>
  BY DEF CoinsOf
<1>8. \A e : e \in CoinsOf(bk2, d) <=>
               \E a \in Accounts : \E i \in 1..bk2[a][d] : e = <<a, i>>
  BY DEF CoinsOf
<1>9. \A e : e \in gone <=> \E i \in (kept + 1)..bk[from][d] : e = <<from, i>>
  OBVIOUS
<1>10. Cardinality(part[from]) = 0
  BY FS_EmptySet DEF Moves
<1>11. \A a \in Accounts \ {from} :
          /\ bk[a][d] \in Nat /\ low[a] = bk[a][d]
          /\ bk2[a][d] = bk[a][d] + Cardinality(part[a])
  BY <1>2 DEF Bank, Moves
<1> HIDE DEF low, c, kept, gone, Y, old
<1>12. \A a \in Accounts, i \in Int :
          /\ <<a, i>> \in old <=> i \in 1..bk[a][d]
          /\ <<a, i>> \in CoinsOf(bk2, d) <=> i \in 1..bk2[a][d]
          /\ <<a, i>> \in Y <=> i \in (low[a] + 1)..(low[a] + Cardinality(part[a]))
          /\ <<a, i>> \in gone <=> a = from /\ i \in (kept + 1)..bk[from][d]
  BY <1>4, <1>7, <1>8, <1>9
<1>13. ASSUME NEW a \in Accounts, NEW i \in Int
       PROVE  /\ <<a, i>> \in CoinsOf(bk2, d) <=> <<a, i>> \in (old \ gone) \cup Y
              /\ ~ (<<a, i>> \in old /\ <<a, i>> \in Y)
              /\ <<a, i>> \in gone => <<a, i>> \in old
  <2>1. CASE a = from
    BY <1>1, <1>2, <1>10, <1>12, <2>1
  <2>2. CASE a # from
    BY <1>3, <1>11, <1>12, <2>2
  <2> QED
    BY <2>1, <2>2
<1>14. \A e : e \in old \cup CoinsOf(bk2, d) \cup Y \cup gone =>
                 \E a \in Accounts, i \in Int : e = <<a, i>>
  BY <1>4, <1>7, <1>8, <1>9
<1>15. CoinsOf(bk2, d) = (old \ gone) \cup Y /\ (old \ gone) \cap Y = {} /\ gone \subseteq old
  BY <1>13, <1>14
<1>16. IsFiniteSet(old) /\ Cardinality(old) \in Nat
  BY FS_CardinalityType DEF old
<1>17. IsFiniteSet(old \ gone) /\ Cardinality(old \ gone) = Cardinality(old) - c
  <2>1. old \cap gone = gone
    BY <1>15
  <2> QED
    BY <1>6, <1>16, <2>1, FS_Difference
<1>18. /\ IsFiniteSet((old \ gone) \cup Y)
       /\ Cardinality((old \ gone) \cup Y) =
             Cardinality(old \ gone) + Cardinality(Y) - Cardinality((old \ gone) \cap Y)
  BY <1>5, <1>17, FS_Union, Zenon
<1>19. Cardinality((old \ gone) \cap Y) = 0
  BY <1>15, FS_EmptySet
<1>20. Cardinality((old \ gone) \cup Y) = Cardinality(old)
  BY <1>1, <1>5, <1>16, <1>17, <1>18, <1>19
<1> QED
  BY <1>15, <1>18, <1>20 DEF Supply, old

\* bk2 has as many coins of each denomination as bk.
Conserved(bk, bk2) ==
    \A d \in Denoms : IsFiniteSet(CoinsOf(bk, d)) =>
        IsFiniteSet(CoinsOf(bk2, d)) /\ Supply(bk2, d) = Supply(bk, d)

\* Balances that stay the same are the same coins.
LEMMA SameCoins ==
  ASSUME NEW bk, NEW bk2, NEW d, \A acct \in Accounts : bk2[acct][d] = bk[acct][d]
  PROVE  CoinsOf(bk2, d) = CoinsOf(bk, d) /\ Supply(bk2, d) = Supply(bk, d)
<1>1. CoinsOf(bk2, d) = CoinsOf(bk, d)
  BY DEF CoinsOf
<1> QED
  BY <1>1 DEF Supply

\* Coins sent by one account arrive at the other.
LEMMA SendConserves ==
  ASSUME NEW bk \in Bank, NEW from \in Accounts, NEW to \in Accounts, from # to,
         NEW c \in Denoms, NEW amt \in Nat, amt <= bk[from][c]
  PROVE  Conserved(bk, SendCoins(bk, from, to, c, amt))
<1> DEFINE bk2 == SendCoins(bk, from, to, c, amt)
<1>1. /\ bk2 \in Bank
      /\ \A acct \in Accounts, e \in Denoms : bk2[acct][e] =
            IF e # c THEN bk[acct][e]
            ELSE IF acct = from THEN bk[acct][e] - amt
            ELSE IF acct = to THEN bk[acct][e] + amt
            ELSE bk[acct][e]
  BY SendBank
<1> HIDE DEF bk2
<1> SUFFICES ASSUME NEW d \in Denoms, IsFiniteSet(CoinsOf(bk, d))
             PROVE  IsFiniteSet(CoinsOf(bk2, d)) /\ Supply(bk2, d) = Supply(bk, d)
  BY DEF Conserved, bk2
<1>2. CASE d # c
  <2>1. \A acct \in Accounts : bk2[acct][d] = bk[acct][d]
    BY <1>1, <1>2
  <2> QED
    BY <2>1, SameCoins
<1>3. CASE d = c
  <2> DEFINE X == 1..amt
             part == [acct \in Accounts |-> IF acct = to THEN X ELSE {}]
  <2>1. IsFiniteSet(X) /\ Cardinality(X) = amt
    BY FS_Interval
  <2>2. part \in [Accounts -> SUBSET X] /\ part[from] = {} /\ part[to] = X
    OBVIOUS
  <2>3. \A acct \in Accounts \ {to} : Cardinality(part[acct]) = 0
    BY FS_EmptySet
  <2>4. \A x \in X : x \in part[to]
    BY <2>2
  <2>5. \A a, b \in Accounts : a # b => part[a] \cap part[b] = {}
    OBVIOUS
  <2> HIDE DEF X, part
  <2>6. \A acct \in Accounts \ {from} :
           bk2[acct][d] = bk[acct][d] + Cardinality(part[acct])
    <3> SUFFICES ASSUME NEW acct \in Accounts \ {from}
                 PROVE  bk2[acct][d] = bk[acct][d] + Cardinality(part[acct])
      OBVIOUS
    <3>1. bk[acct][d] \in Nat
      BY DEF Bank
    <3> QED
      BY <1>1, <1>3, <2>1, <2>2, <2>3, <3>1
  <2>7. bk2[from][d] = bk[from][d] - Cardinality(X) /\ Cardinality(X) <= bk[from][d]
    BY <1>1, <1>3, <2>1
  <2>8. Moves(bk, bk2, d, from, X, part)
    BY <2>1, <2>2, <2>4, <2>5, <2>6, <2>7 DEF Moves
  <2> QED
    BY <1>1, <2>8, MovesConserve
<1> QED
  BY <1>2, <1>3

\* What finished auctions give back and pay out arrives: the proceeds are the
\* payments of their bids, each sent to the module of its own auction.
LEMMA FinishConserves ==
  ASSUME NEW bk \in Bank, NEW bs, IsFiniteSet(CoinsPaid(bs)),
         NEW done, CanFinish(bk, bs, done),
         \A a \in done : a.funding \in FundingModules /\ a.proceeds \in ProceedsModules,
         \A a, b \in done : a.id = b.id => a = b,
         \A a, b \in done : a.denom = b.denom => a = b
  PROVE  Conserved(bk, FinishAuctionBank(bk, bs, done))
<1> DEFINE bk2 == FinishAuctionBank(bk, bs, done)
           own == AuctionAccount
<1>1. bk2 \in Bank
  BY FinishBank
<1>2. /\ own \in Accounts /\ Usomm \in Denoms /\ Usomm \notin SaleDenoms
      /\ \A a \in done : /\ a.funding \in Accounts /\ a.funding # own
                         /\ a.proceeds \in Accounts /\ a.proceeds # own
  BY ConstantAssumption DEF Accounts, Modules, Denoms
<1>3. \A acct \in Accounts, d \in Denoms : bk2[acct][d] =
         IF acct = own THEN bk[acct][d] - Owed(bk, bs, done, d)
         ELSE bk[acct][d] + Owed(bk, bs, PaidTo(done, acct, d), d)
  BY DEF FinishAuctionBank
<1>4. \A acct \in Accounts, d \in Denoms : bk[acct][d] \in Nat
  BY DEF Bank
<1> HIDE DEF bk2, own
<1>5. ASSUME IsFiniteSet(CoinsOf(bk, Usomm))
      PROVE  IsFiniteSet(CoinsOf(bk2, Usomm)) /\ Supply(bk2, Usomm) = Supply(bk, Usomm)
  <2> DEFINE X == CoinsPaid(BidsOf(bs, done))
             of(acct) == CoinsPaid(BidsOf(bs, PaidTo(done, acct, Usomm)))
             part == [acct \in Accounts |-> of(acct)]
  <2>1. IsFiniteSet(X) /\ Cardinality(X) = Owed(bk, bs, done, Usomm)
    BY PaidSubset DEF BidsOf, Owed, UsommPaid
  <2>2. \A acct \in Accounts : \A x :
           x \in of(acct) <=> \E b \in bs, a \in done : /\ b.auction = a.id
                                                        /\ a.proceeds = acct
                                                        /\ x \in {b} \X (1..b.paid)
    BY DEF CoinsPaid, BidsOf, PaidTo
  <2>3. \A x : x \in X <=> \E b \in bs, a \in done : /\ b.auction = a.id
                                                     /\ x \in {b} \X (1..b.paid)
    BY DEF CoinsPaid, BidsOf
  <2>4. \A acct \in Accounts :
           Cardinality(part[acct]) = Owed(bk, bs, PaidTo(done, acct, Usomm), Usomm)
    BY DEF Owed, UsommPaid
  <2>5. \A acct \in Accounts : part[acct] = of(acct)
    OBVIOUS
  <2> HIDE DEF X, of
  <2>6. part \in [Accounts -> SUBSET X]
    BY <2>2, <2>3
  <2> HIDE DEF part
  <2>7. part[own] = {}
    BY <1>2, <2>2, <2>5
  <2>8. \A x \in X : \E acct \in Accounts : x \in part[acct]
    BY <1>2, <2>2, <2>3, <2>5
  <2>9. \A p, q \in Accounts : p # q => part[p] \cap part[q] = {}
    <3> SUFFICES ASSUME NEW p \in Accounts, NEW q \in Accounts, p # q,
                        NEW x, x \in of(p), x \in of(q)
                 PROVE  FALSE
      BY <2>5
    <3>1. PICK b \in bs, a \in done : /\ b.auction = a.id /\ a.proceeds = p
                                      /\ x \in {b} \X (1..b.paid)
      BY <2>2
    <3>2. PICK c \in bs, e \in done : /\ c.auction = e.id /\ e.proceeds = q
                                      /\ x \in {c} \X (1..c.paid)
      BY <2>2
    <3>3. b = c
      BY <3>1, <3>2
    <3> QED
      BY <3>1, <3>2, <3>3
  <2>10. Cardinality(X) <= bk[own][Usomm]
    BY <2>1 DEF CanFinish, own
  <2>11. bk2[own][Usomm] = bk[own][Usomm] - Cardinality(X)
    BY <1>2, <1>3, <2>1
  <2>12. \A acct \in Accounts \ {own} :
            bk2[acct][Usomm] = bk[acct][Usomm] + Cardinality(part[acct])
    BY <1>2, <1>3, <2>4
  <2>13. Moves(bk, bk2, Usomm, own, X, part)
    BY <2>1, <2>6, <2>7, <2>8, <2>9, <2>10, <2>11, <2>12 DEF Moves
  <2> QED
    BY <1>1, <1>2, <1>5, <2>13, MovesConserve
<1>6. ASSUME NEW d \in SaleDenoms, IsFiniteSet(CoinsOf(bk, d))
      PROVE  IsFiniteSet(CoinsOf(bk2, d)) /\ Supply(bk2, d) = Supply(bk, d)
  <2>1. d \in Denoms /\ d # Usomm
    BY <1>2 DEF Denoms
  <2>2. CASE ~ \E a \in done : a.denom = d
    <3>1. \A S : S \subseteq done => Owed(bk, bs, S, d) = 0
      BY <2>1, <2>2 DEF Owed
    <3>2. \A acct \in Accounts : PaidTo(done, acct, d) \subseteq done
      BY DEF PaidTo
    <3>3. \A acct \in Accounts : bk2[acct][d] = bk[acct][d]
      BY <1>3, <1>4, <2>1, <3>1, <3>2
    <3> QED
      BY <1>6, <3>3, SameCoins
  <2>3. ASSUME NEW a \in done, a.denom = d
        PROVE  IsFiniteSet(CoinsOf(bk2, d)) /\ Supply(bk2, d) = Supply(bk, d)
    <3> DEFINE amt == bk[own][d]
               X == 1..amt
               part == [acct \in Accounts |-> IF acct = a.funding THEN X ELSE {}]
    <3>1. amt \in Nat
      BY <1>2, <1>4, <2>1
    <3>2. IsFiniteSet(X) /\ Cardinality(X) = amt
      <4> HIDE DEF amt
      <4> QED
        BY <3>1, FS_Interval
    <3>3. /\ part \in [Accounts -> SUBSET X] /\ part[own] = {}
          /\ \A acct \in Accounts : part[acct] = IF acct = a.funding THEN X ELSE {}
      BY <1>2
    <3> HIDE DEF X, part
    <3>4. Owed(bk, bs, done, d) = amt
      BY <2>1, <2>3 DEF Owed, own
    <3>5. \A acct \in Accounts : Owed(bk, bs, PaidTo(done, acct, d), d) =
             IF acct = a.funding THEN amt ELSE 0
      <4> SUFFICES ASSUME NEW acct \in Accounts
                   PROVE  Owed(bk, bs, PaidTo(done, acct, d), d) =
                            IF acct = a.funding THEN amt ELSE 0
        OBVIOUS
      <4>1. (\E b \in PaidTo(done, acct, d) : b.denom = d) <=> acct = a.funding
        BY <2>1, <2>3 DEF PaidTo
      <4> QED
        BY <2>1, <4>1 DEF Owed, own
    <3>6. \A acct \in Accounts : Cardinality(part[acct]) =
             IF acct = a.funding THEN amt ELSE 0
      BY <3>2, <3>3, FS_EmptySet
    <3>7. bk2[own][d] = bk[own][d] - Cardinality(X) /\ Cardinality(X) <= bk[own][d]
      BY <1>2, <1>3, <2>1, <3>1, <3>2, <3>4
    <3>8. \A acct \in Accounts \ {own} :
             bk2[acct][d] = bk[acct][d] + Cardinality(part[acct])
      BY <1>3, <2>1, <3>5, <3>6
    <3>9. \A x \in X : \E acct \in Accounts : x \in part[acct]
      BY <1>2, <3>3
    <3>10. \A p, q \in Accounts : p # q => part[p] \cap part[q] = {}
      BY <3>3
    <3>11. Moves(bk, bk2, d, own, X, part)
      BY <3>2, <3>3, <3>7, <3>8, <3>9, <3>10 DEF Moves
    <3> QED
      BY <1>1, <1>2, <1>6, <2>1, <3>11, MovesConserve
  <2> QED
    BY <2>2, <2>3
<1> QED
  BY <1>5, <1>6 DEF Conserved, Denoms, bk2

-----------------------------------------------------------------------------
(* The handlers *)

\* Conservation is transitive.
LEMMA ConservedTwice ==
  ASSUME NEW x, NEW y, NEW z, Conserved(x, y), Conserved(y, z)
  PROVE  Conserved(x, z)
  BY DEF Conserved

\* A bid moves its payment to the auction account and the tokens it bought to
\* the bidder, and finishes an auction that is sold out.
LEMMA SubmitBidConserves ==
  ASSUME IInv, NEW bidder \in Bidders, NEW a \in active,
         NEW maxBid \in Nat \ {0}, NEW minAmount \in Nat \ {0},
         SubmitBid(bidder, a, maxBid, minAmount)
  PROVE  Conserved(bank, bank')
<1> DEFINE balance   == bank[AuctionAccount][a.denom]
           fulfilled == SaleTokensToPurchase(balance, a.price, maxBid)
           bid       == NewBid(a, bidder, maxBid, minAmount, fulfilled)
           paidBank  == SendCoins(bank, bidder, AuctionAccount, Usomm, bid.paid)
           soldBank  == SendCoins(paidBank, AuctionAccount, bidder, a.denom, fulfilled)
           sold      == [a EXCEPT !.remaining = balance - fulfilled]
           newBids   == bids \cup {bid}
<1>1. /\ a \in AuctionRec /\ bank \in Bank /\ bids \subseteq BidRec /\ lastBidID \in Nat
      /\ a.denom \in SaleDenoms
      /\ a.funding \in FundingModules /\ a.proceeds \in ProceedsModules
  <2>1. a \in AuctionRec /\ bank \in Bank /\ bids \subseteq BidRec /\ lastBidID \in Nat
    BY DEF IInv, TypeOK, Bank
  <2> QED
    BY <2>1 DEF AuctionRec
<1>2. /\ AuctionAccount \in Accounts /\ bidder \in Accounts /\ bidder # AuctionAccount
      /\ Usomm \in Denoms /\ a.denom \in Denoms /\ a.denom # Usomm
  BY <1>1, ConstantAssumption DEF Accounts, Denoms
<1>3. /\ balance \in Nat /\ fulfilled \in Nat /\ fulfilled <= balance
      /\ Payment(fulfilled, a.price) \in Nat
  <2>1. balance \in Nat /\ a.price \in Nat \ {0}
    BY <1>1, <1>2 DEF Bank, AuctionRec
  <2> QED
    BY <2>1, BidAmounts
<1>4. /\ bid.paid <= bank[bidder][Usomm]
      /\ (sold.remaining = 0) => CanFinish(soldBank, newBids, {sold})
      /\ bank' = IF sold.remaining = 0
                  THEN FinishAuctionBank(soldBank, newBids, {sold}) ELSE soldBank
  BY DEF SubmitBid
<1> HIDE DEF fulfilled
<1>5. bid.paid \in Nat /\ bid.id = lastBidID + 1
  BY <1>3 DEF NewBid
<1>6. sold.funding = a.funding /\ sold.proceeds = a.proceeds
  BY <1>1 DEF AuctionRec
<1> HIDE DEF bid, sold
<1>7. /\ paidBank \in Bank /\ Conserved(bank, paidBank)
      /\ paidBank[AuctionAccount][a.denom] = balance
  BY <1>1, <1>2, <1>4, <1>5, SendBank, SendConserves
<1> HIDE DEF paidBank, balance
<1>8. soldBank \in Bank /\ Conserved(paidBank, soldBank)
  BY <1>2, <1>3, <1>7, SendBank, SendConserves
<1> HIDE DEF soldBank
<1>9. Conserved(bank, soldBank)
  BY <1>7, <1>8, ConservedTwice
<1>10. IsFiniteSet(CoinsPaid(newBids))
  <2>1. bid \notin bids
    BY <1>1, <1>5 DEF IInv, BidsWellFormed, BidRec
  <2> QED
    BY <1>5, <2>1, PaidAdd DEF IInv, BidsWellFormed
<1>11. CASE sold.remaining = 0
  <2> DEFINE done == {sold}
  <2>1. /\ CanFinish(soldBank, newBids, done)
        /\ \A c \in done : c.funding \in FundingModules /\ c.proceeds \in ProceedsModules
        /\ \A c, e \in done : c.id = e.id => c = e
        /\ \A c, e \in done : c.denom = e.denom => c = e
        /\ bank' = FinishAuctionBank(soldBank, newBids, done)
    BY <1>1, <1>4, <1>6, <1>11
  <2> HIDE DEF done, newBids
  <2>2. Conserved(soldBank, bank')
    BY <1>8, <1>10, <2>1, FinishConserves
  <2> QED
    BY <1>9, <2>2, ConservedTwice
<1>12. CASE sold.remaining # 0
  BY <1>4, <1>9, <1>12
<1> QED
  BY <1>11, <1>12

\* The EndBlocker pays out and gives back what the auctions it ends hold.
LEMMA EndBlockerConserves ==
  ASSUME IInv, EndBlocker
  PROVE  Conserved(bank, bank')
<1> DEFINE gone == BidsOf(bids, Exhausted)
<1>1. bank \in Bank /\ Exhausted \subseteq active /\ active \subseteq AuctionRec
  BY DEF IInv, TypeOK, Bank, Exhausted
<1>2. IsFiniteSet(CoinsPaid(BidsOf(bids, active))) /\ gone \in SUBSET BidsOf(bids, active)
  BY <1>1, PaidSubset DEF IInv, BidsWellFormed, BidsOf
<1>3. UsommPaid(gone) <= UsommPaid(BidsOf(bids, active))
  BY <1>2, PaidSubset
<1>4. CanFinish(bank, bids, Exhausted)
  BY <1>3 DEF CanFinish, Owed, IInv, ProceedsBacked
<1>5. bank' = FinishAuctionBank(bank, bids, Exhausted)
  BY <1>4 DEF EndBlocker, EndBlockCompletes
<1>6. /\ \A a \in Exhausted : a.funding \in FundingModules /\ a.proceeds \in ProceedsModules
      /\ \A a, b \in Exhausted : a.id = b.id => a = b
      /\ \A a, b \in Exhausted : a.denom = b.denom => a = b
  BY <1>1 DEF IInv, StoreWellFormed, AuctionRec
<1> QED
  BY <1>1, <1>4, <1>5, <1>6, FinishConserves DEF IInv, BidsWellFormed

\* No step of the chain creates or destroys coins.
LEMMA NextConserves ==
  ASSUME IInv, [Next]_vars
  PROVE  Conserved(bank, bank')
<1>1. ASSUME UNCHANGED bank PROVE Conserved(bank, bank')
  BY <1>1 DEF Conserved
<1>2. CASE SomeBeginAuction
  <2>1. PICK d \in SaleDenoms, amount \in Amounts, rate \in Rates,
             interval \in Intervals, f \in FundingModules, p \in ProceedsModules :
               \/ BeginAuction(d, amount, rate, interval, f, p)
               \/ BeginAuctionPanics(d, amount, rate, interval, f, p)
    BY <1>2 DEF SomeBeginAuction
  <2>2. /\ f \in Accounts /\ AuctionAccount \in Accounts /\ f # AuctionAccount
        /\ d \in Denoms /\ amount \in Nat /\ bank \in Bank
    BY ConstantAssumption DEF Accounts, Modules, Denoms, IInv, TypeOK, Bank
  <2>3. CASE BeginAuction(d, amount, rate, interval, f, p)
    <3>1. /\ amount <= bank[f][d]
          /\ bank' = SendCoins(bank, f, AuctionAccount, d, amount)
      BY <2>3 DEF BeginAuction
    <3> QED
      BY <2>2, <3>1, SendConserves
  <2>4. CASE BeginAuctionPanics(d, amount, rate, interval, f, p)
    BY <1>1, <2>4 DEF BeginAuctionPanics, Halt
  <2> QED
    BY <2>1, <2>3, <2>4
<1>3. CASE SomeBid
  <2>1. PICK bidder \in Bidders, a \in active, maxBid \in MaxBids,
             minAmount \in MinAmounts : SubmitBid(bidder, a, maxBid, minAmount)
    BY <1>3 DEF SomeBid
  <2>2. maxBid \in Nat \ {0} /\ minAmount \in Nat \ {0}
    BY ConstantAssumption
  <2> QED
    BY <2>1, <2>2, SubmitBidConserves
<1>4. CASE EndBlocker
  BY <1>4, EndBlockerConserves
<1>5. CASE Governance \/ ExportAndImport \/ UNCHANGED vars
  BY <1>1, <1>5 DEF Governance, SetTokenPrices, ChangeParams, ExportAndImport, vars
<1> QED
  BY <1>2, <1>3, <1>4, <1>5 DEF Next

-----------------------------------------------------------------------------
(* The theorem *)

\* The supply is the initial one, of finitely many coins.
SInv == /\ IInv
        /\ \A d \in Denoms : IsFiniteSet(CoinsOf(bank, d))
        /\ SupplyConserved

\* Every step preserves the invariant.
LEMMA NextSInv == SInv /\ [Next]_vars => SInv'
<1> SUFFICES ASSUME SInv, [Next]_vars PROVE SInv'
  OBVIOUS
<1>1. IInv' /\ Conserved(bank, bank')
  BY NextIInv, NextConserves DEF SInv
<1>2. \A d \in Denoms : /\ IsFiniteSet(CoinsOf(bank', d))
                        /\ Supply(bank', d) = Supply(InitialBank, d)
  BY <1>1 DEF SInv, SupplyConserved, Conserved
<1>3. \A d \in Denoms : CoinsOf(bank, d)' = CoinsOf(bank', d)
                        /\ Supply(bank, d)' = Supply(bank', d)
  BY DEF CoinsOf, Supply
<1>4. (\A d \in Denoms : IsFiniteSet(CoinsOf(bank, d)))'
  BY <1>2, <1>3
<1>5. SupplyConserved'
  BY <1>2, <1>3 DEF SupplyConserved
<1> QED
  BY <1>1, <1>4, <1>5 DEF SInv

\* The handlers of x/auction neither create nor destroy coins of any
\* denomination: BeginAuction, the payment and purchase of SubmitBid, and
\* FinishAuction for every set of auctions that ends in one block.
THEOREM SupplyIsConserved == Spec => []SupplyConserved
<1>1. Init => SInv
  BY InitIInv, BankAssumption DEF Init, SInv, SupplyConserved
<1>2. SInv => SupplyConserved
  BY DEF SInv
<1> QED
  BY <1>1, <1>2, NextSInv, PTL DEF Spec
=============================================================================
