------------------------------- MODULE Sales -------------------------------
(***************************************************************************)
(* What x/auction promises the accounts that deal with it: sales held in   *)
(* escrow.  A seller hands over tokens; buyers take some of them for usomm *)
(* they have; when a sale ends, what it has not sold goes back to its      *)
(* seller and what it has raised goes to its beneficiary.  There is no     *)
(* account of the auction module here, and no id, price, bid or block: a   *)
(* sale owns its tokens and its proceeds.  Module Auction, in which all    *)
(* sales share one account and the proceeds are summed over stored bids,   *)
(* is shown to implement Spec.                                             *)
(***************************************************************************)
EXTENDS Integers, FiniteSets

CONSTANTS Usomm, SaleDenoms, Sellers, Beneficiaries, Buyers

VARIABLES wallets,  \* the balances of the accounts
          sales     \* the sales going on

Accounts == Sellers \cup Beneficiaries \cup Buyers
Denoms   == SaleDenoms \cup {Usomm}

\* What the sales of S leave for acct in denomination d when they end: a sum,
\* written as the cardinality of the set of the coins summed.
Payout(S, acct, d) ==
    LET proceeds == UNION {{s} \X (1..s.raised) : s \in {t \in S : t.beneficiary = acct}}
        returned == UNION {{s} \X (1..s.unsold) :
                              s \in {t \in S : t.seller = acct /\ t.denom = d}}
    IN  IF d = Usomm THEN Cardinality(proceeds) ELSE Cardinality(returned)

-----------------------------------------------------------------------------
\* At most one sale of a denomination goes on.
Open(seller, beneficiary, d, n) ==
    /\ \A s \in sales : s.denom # d
    /\ n \in 1..wallets[seller][d]
    /\ sales' = sales \cup {[denom |-> d, seller |-> seller, beneficiary |-> beneficiary,
                             unsold |-> n, raised |-> 0]}
    /\ wallets' = [wallets EXCEPT ![seller][d] = @ - n]

\* The sale after n tokens were sold for paid usomm.
Sold(s, n, paid) == [s EXCEPT !.unsold = @ - n, !.raised = @ + paid]

\* A sale with nothing left to sell ends.
Over(s) == IF s.unsold = 0 THEN {s} ELSE {}

\* A purchase of at least one token for at least one usomm.
Buy(buyer, s, n, paid) ==
    /\ n \in 1..s.unsold
    /\ paid \in 1..wallets[buyer][Usomm]
    /\ sales' = (sales \ {s}) \cup ({Sold(s, n, paid)} \ Over(Sold(s, n, paid)))
    /\ wallets' = [acct \in Accounts |-> [d \in Denoms |->
          wallets[acct][d] + Payout(Over(Sold(s, n, paid)), acct, d)
            + (IF acct = buyer /\ d = s.denom THEN n ELSE 0)
            - (IF acct = buyer /\ d = Usomm THEN paid ELSE 0)]]

\* Sales end without a purchase.
Close(S) ==
    /\ sales' = sales \ S
    /\ wallets' = [acct \in Accounts |-> [d \in Denoms |->
                      wallets[acct][d] + Payout(S, acct, d)]]

Init ==
    /\ wallets \in [Accounts -> [Denoms -> Nat]]
    /\ sales = {}

SomeOpen ==
    \E seller \in Sellers, beneficiary \in Beneficiaries, d \in SaleDenoms :
        \E n \in 1..wallets[seller][d] : Open(seller, beneficiary, d, n)

SomeBuy ==
    \E buyer \in Buyers, s \in sales :
        \E n \in 1..s.unsold, paid \in 1..wallets[buyer][Usomm] :
            Buy(buyer, s, n, paid)

SomeClose == \E S \in SUBSET sales : Close(S)

Next == SomeClose \/ SomeOpen \/ SomeBuy

Spec == Init /\ [][Next]_<<wallets, sales>>
=============================================================================
