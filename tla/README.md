# TLA+ verification of the Sommelier chain modules

Sommelier is a Cosmos SDK application. Its own logic lives in six modules under
`x/`; everything else (bank, staking, governance, IBC, the gravity bridge) comes
from libraries. This directory models the modules of `x/` in TLA+, checks them with
TLC on small instances and proves their main invariants with TLAPS for all
instances.

## 1. Inventory

| component | state it keeps | operations | talks to |
|---|---|---|---|
| `x/auction` | active and ended auctions, bids, token prices, last ids, params | `BeginAuction`, `MsgSubmitBid`, `SetTokenPricesProposal`, EndBlocker (price decrease, end, pruning), genesis | bank; called by `x/cellarfees` |
| `x/cellarfees` | fee accrual counters, last reward supply peak, params | BeginBlocker (start auctions, emit rewards), `AfterSendToCosmosEvent`, genesis | `x/auction`, `x/cork` (is the sender a managed cellar), bank, gravity hooks |
| `x/cork` | scheduled corks, cork counts, results, managed cellars, invalidation nonce | `MsgScheduleCork`, add/remove cellars proposals, EndBlocker (tally), genesis | staking (power), gravity (contract calls), `x/pubsub` |
| `x/pubsub` | publishers, subscribers, publisher intents (2 indexes), subscriber intents (3 indexes), default subscriptions | 7 messages, 4 proposals, genesis | staking/gravity (who is a validator); called by `x/cork` and `x/axelarcork` |
| `x/axelarcork` | chain configurations and, per chain, what `x/cork` keeps, winning corks, contract call nonces, upgrade data | schedule, relay, bump gas, cancel, proposals, EndBlocker, IBC middleware | IBC transfer, `x/pubsub`, staking |
| `x/incentives` | params | EndBlocker: community pool to fee collector | distribution, bank |
| migration of `x/cork` | the store of version 1 | `Migrate1to2`, run by the v7 upgrade | `x/cork` |
| `*.pb.go` | none | `Size`, `Marshal`, `Unmarshal`, `skip` of 226 messages | everything that is stored, sent or exported |
| `app/` | none of its own | order of the block handlers, module accounts, upgrades, export | all |

A block runs BeginBlock of every module, the transactions, then EndBlock of every
module in the order of `app/app.go:608`: gov, staking, ..., gravity, cork,
axelarcork, cellarfees, auction, pubsub. A transaction that fails is rolled back;
a panic in a block handler halts the chain. There are no threads: what is hard here
is the order of messages, proposals, bridge events and block handlers of different
modules over shared accounts and stores, rounding and unsigned arithmetic at
boundaries, several indexes of one thing, genesis round trips and upgrades, and
bytes written by one version and read by another. Section
"hazards" of `PROJECT.json` lists the places, with the properties that cover each.

## 2. Modules

| module | models | notes |
|---|---|---|
| `Dec` | `sdk.Dec` as `x/auction` uses it (external) | fixed point with `Unit` fractions, half-to-even rounding |
| `Sales` | what `x/auction` is to the accounts that deal with it: sales held in escrow | abstract specification |
| `Auction` | `x/auction` and the part of the bank it uses | refines `Sales` |
| `CellarFees` | `x/cellarfees` composed with `Auction` | extends `Auction`; its BeginBlocker is the only source of auctions, as in the application |
| `DefaultSubscriptions` | what `x/cork` and `x/axelarcork` see of `x/pubsub` | abstract specification |
| `Cork` | `x/cork` | instantiates `DefaultSubscriptions` for the steps of `x/pubsub` |
| `Pubsub` | `x/pubsub` | refines `DefaultSubscriptions` |
| `Incentives` | `x/incentives` and the part of `x/distribution` it shares with `x/axelarcork` (external) | composed in `AxelarCork` |
| `AxelarCork` | `x/axelarcork` with the IBC packets it sends | instantiates `DefaultSubscriptions`, with a subscription id per chain and cellar, and `Incentives` |
| `CorkMigration` | `Migrate1to2` and what follows it | extends `Cork` |
| `ProtoFields`, `*Messages` | the fields of each message, as its `Unmarshal` knows them | one module per package; `SdkMessages` is external |
| `Codec` | the generated encoding and decoding, once for all messages | recursive: checked, not proved about |
| `Wire` | a message written, kept or sent, and read | extends `Codec` |
| `*MC` | small instances for TLC | |
| `AuctionProofs`, `AuctionBidProofs`, `AuctionSupplyProofs`, `AuctionSalesProofs`, `CellarFeesProofs`, `CorkProofs`, `PubsubProofs`, `AxelarCorkProofs` | theorems | section 4; `AuctionBidProofs` and `AuctionSupplyProofs` build on `AuctionProofs`, `AuctionSalesProofs` and `CellarFeesProofs` on all three |

Definitions carry the names of the code. An operator marked *Mutant* is a plausible
bug of the definition after it; replacing the definition by it makes the property
named with it in `PROJECT.json` fail.

### Auction
The stores `active`, `ended` and `bids` are sets of records (each the value of one
key), `tokenPrices` a function, `bank` the balances of bidders, module accounts and
the auction account. `phase` says how far the block is: `begin` (BeginBlock),
`deliver` (transactions), `gov` (EndBlockers before that of `x/auction`). Each
action is a whole handler. Errors are guards, because they change nothing; panics
set `halted`. `BeginAuction` is split in the case that stores an auction and
`BeginAuctionPanics` (invalid record or division by zero). `SubmitBid` includes the
`FinishAuction` of a sell-out. `EndBlocker` updates prices, finishes exhausted
auctions and prunes. The auctions finished in one EndBlocker have different
denominations, so the model finishes them in one step; a sum over bids is written
as the cardinality of the set of coins summed, which TLAPS can reason about.
Heights are unsigned: `USub` wraps at `UintModulus`. `ExportAndImport` writes active
and ended auctions in one list and tells them apart by their end block, as
`InitGenesis` does.

`Sales` says what this amounts to for bidders and modules: separate sales, each owning
its unsold tokens and what it has raised, and no account in between. The refinement
mapping (`SaleOf`) reads an active auction as a sale that has raised what its stored
bids paid, and hides the auction account, ids, prices, ended auctions and blocks.
`ImplementsSales` is the mapped specification: every handler is a step that opens one
sale, is one purchase, ends some sales, or changes nothing that users own.

### CellarFees
One account receives fees, funds auctions, gets back unsold tokens and receives
proceeds. The BeginBlocker starts an auction for each due counter and emits
rewards, in one step; the auctions of one block get ids in the order of the sorted
counters (`DenomOrder`). `SendToCosmos` is the bridge's transfer together with the
hook; `managed` is the answer of `x/cork`. The parameter validators are modelled by
what they do: the one for the decrease rate refuses nothing.

### Cork
The id of a cork is a hash of height, target and call; the model uses the triple.
`scheduled` holds one vote per height, cork and validator. The stakes an EndBlocker
finds are any of `PowerTables`; a validator absent from a table has been removed
from staking, and tallying its vote panics (`HaltInEndBlocker`). The calls of one
block take consecutive nonces in the order of the ids, which is any order.
`PubsubStep` lets `x/pubsub` act in between. `ExportAndImport` is a genesis round
trip.

### Pubsub
Every index is a variable of its own, and Set and Delete work on each index by that
index's key, so a forgotten index or a key too short would be seen. Subscribers are
reduced to whether they have a push URL, intents to method, allowed kind and list.
Refusals are guards; whether the signer is a validator is a free input.

### AxelarCork
Votes, winning corks and results are sets of records with the chain they are stored
under; `packets` is what the transfer module has sent. A call's body carries, as a
history field, the winning cork it was made from (`of`), an upgrade's body the height
at which its proposal passed (`passed`): the code does not read them.
`ValidateAxelarPacket` is part of the action that sends the packet, because an error
of it fails the message. `installed` says whether the middleware is in the send path,
as in the module's tests, or the transfer keeper sends through the channel keeper, as
`app/app.go` wires it; `Init` allows both, and no step changes it.
`SameID` and `Equals` are the two comparisons of corks the code uses; they disagree on
deadline and chain, so the tally counts apart what the store keeps under one key. The
order of the tally is that of hashes and addresses, so any order. `executed` counts the
proposals of a block: transactions come first, then governance, then the EndBlocker of
the module. The relayer's coins pass through the module account within one message
and are left out; the coins of the community pool and of the distribution account are
those of `Incentives`, in units of one spend. The timeout's subtraction wraps at `Word`.
A genesis is an initial state. Exporting one changes no state, and what `ExportGenesis`
writes cannot be imported (section 5), so there is no action for it.

### Incentives
The EndBlocker subtracts an amount from the community pool, whose coins have
fractions, and sends whole coins from the account of `x/distribution` to the fee
collector; the next BeginBlock distributes them to the pool and the validators, who
withdraw whole coins and leave the rest to the pool. `Panics` is the transfer that
fails. `Fraction` is the number of parts of a coin, `Tax` how many of them go to the
pool. `AxelarCork` composes these steps with the proposals that spend from the same
pool and the packets that come back.

### CorkMigration
A key of version 1 is a record of its parts. `Bech32` and `ValAddress` are the two
conversions the migration applies to a validator: the second takes the bytes of the
text that the first has made. After the migration the actions of `Cork` go on, and a
leftover key whose height has come halts the EndBlocker, which reads it in the layout
of version 2.

### Codec and Wire
The generated files repeat one scheme for each message. `Codec` states it once:
`Size` and the backwards writing of `MarshalToSizedBuffer` with `encodeVarint` placing
each varint where `sov` says; the loop of `Unmarshal` with its checks of index, length
and overflow; `skip` with groups. What differs between messages is the table of their
fields, and that is what the modules `*Messages` give: number, kind (`uint32`,
`string`, a struct or a pointer to one, `[]uint64`, ...) and type, in the order of the
cases of the message's `Unmarshal`. A value out of a buffer's range is the error
"panic". `Wire` is the life of one message: written, perhaps cut, damaged, given a
field of a newer version or followed by a second message, and read, by the same type
or, for what `x/cork` stored before the upgrade, by its successor.

## 3. Runs

| run | instance | shows |
|---|---|---|
| `auction` | 2 denominations, 2 bidders (symmetric), prices with remainders, intervals 1 and 2, 6 blocks, 2 bids (one of them below the minimum of the parameters, accepted when little is left), three sets of parameters, a genesis export in any block, one price that rounds to zero | accounts match stores, fair bids, sold equals bought, prices that fall at least as fast as the initial rate, no panic in the EndBlocker, refinement of `Sales`; pruning keeps the last auction of a denomination, and the others while they are in the window, except where the unsigned subtraction wraps |
| `fees` | 2 denominations, 1 bidder, thresholds 1 and 2, emission periods 2 and 3, 10 blocks | counters, balances and auctions agree; every auction ends and rewards are emitted to the end |
| `cork` | 2 validators, 2 cellars, three tables of power (at, just above the threshold, one validator gone), 5 blocks | every vote is tallied, one call per approved cork, cellars and subscriptions change together |
| `pubsub` | 2 accounts, 2 domains, 2 subscriptions, a listed push intent and a validators' intent | indexes agree, no orphans, refinement of `DefaultSubscriptions`; unbounded, deadlock checked |
| `axelar` | 2 validators, 2 chains, 1 cellar address on both, one call with two deadlines and one whose chain differs from its message's, two tables of power (above and exactly at the threshold, one validator gone), proposals in blocks 3 and 4, 2 packets, 5 blocks; with and without the middleware | nonces without gaps, only approved corks leave, upgrades wait and leave once, every coin of the distribution account is accounted for and the incentives never halt the chain, subscriptions per chain; with the middleware no cork leaves twice |
| `codec` | all 226 messages, each empty, full and with one field set; integers of 22 and 11 bits; five unknown fields, seven kinds of noise | round trips, also of two messages in a row, no index out of range, cuts noticed, unknown fields skipped |
| `auction_exponent`, `fees_rate`, `cork_genesis`, `cork_migration`, `axelar_relay`, `axelar_timeout` | small variants of the above | each violates what a comment, field or message of the code says: see "findings" |

Bounds. `MaxHeight`, `MaxStartHeight`, `MaxGovHeight`, `MaxFeeHeight`, `MaxBidCount`,
`MaxFees` and `MaxCount` end the runs; they leave room for an auction to start, fall
in price twice, sell out or expire and be followed by another of its denomination
that makes the first one prunable; for a fee to be counted, sold and emitted; for a
cork to be scheduled, re-sent, tallied and followed by another. In `axelar`,
`GovHeights`, `MaxProposals`, `VoteHeights`, `MaxVotes` and `MaxPackets` leave room for
two corks of one contract to win in one block or in two, for a relay before a chain is
removed and another after it is configured again, and for an upgrade to be proposed,
replaced or cancelled, and relayed; the chain names governance gives are distinct, and
the timeout of 5 blocks does not fire before the last block: deleting by timeout is the
subject of `axelar_timeout`, whose timeout is shorter. `Unit = 10` makes
rounding happen at every price instead of once in 10^18. `CHECK_DEADLOCK FALSE` is
set where the bound or a halt ends the behaviour.

In `axelar` a coin has `Fraction = 2` parts and `Tax = 1` of them goes to the pool, so
that every distribution leaves a part of a coin somewhere; incentives run in block 1
only or, once governance says so, to the end. In `codec`, `WordBits = 22` and
`HalfBits = 11` stand for 64 and 32: like 64, 22 is one more than a multiple of 7, so
the longest varint has one byte with a single useful bit and longer ones overflow; the
samples 127, 128 and the largest number are where `sov` changes. The lengths `Noise`
puts in are negative, just beyond the buffer, or such that adding them to an index
overflows.

Fairness. Only the block handlers are weakly fair: consensus keeps producing blocks.
Bids, messages, proposals and bridge events may never come. `AuctionsEnd` and
`RewardsAreEmitted` are checked under the fairness of `FeesSpec` (BeginBlocker,
EndBlocker), `EveryCorkIsDecided` under that of the EndBlocker of `x/cork`.

## 4. Proofs

Every theorem holds for all values of the constants that satisfy the named `ASSUME`s:
typing of the constants, an auction account distinct from other accounts and empty at
genesis, finite sets of validators, cellars and calls, denominations with different
places in the order of the counters. The bounds of the runs (`MaxHeight` and the like)
are arbitrary, so they limit nothing.

*AuctionProofs.* Inductive invariant `IInv`: types, `StoreWellFormed`, bids belong to ids
already given out, `SaleTokensBacked`, `ProceedsBacked`, no halt in the EndBlocker.
None of the main three is inductive alone: the balance returned by `FinishAuction`
is right only because there is one active auction per denomination; the proceeds are
there only because the account's usomm are exactly the payments on active auctions,
and those are found again because ids are unique and never reused. From
`ProceedsBacked` the guard of the EndBlocker's transfers holds in every state, so it
never panics. `GenesisRoundTrip` shows from the same invariant that exporting and
importing changes no store: an active auction has no end block and an ended one has
one, which is part of the types.

*AuctionBidProofs.* On top of `IInv`, the invariant `BInv`: `BidsAreFair`,
`SoldMatchesBids`, the bid prices of `LaterBidsAreNotDearer`, and four facts they need:
bids are of past blocks, finitely many tokens were sold, the active auction of a
denomination has the largest id of that denomination, and `OnSchedule` (below). The first part is arithmetic: `RoundError`,
`PaymentRounding` and `PurchaseRounding` bound the error of the half-to-even rounding of
`sdk.Dec` for every `Unit`. They show that a bid that passes the check on its minimum
really gets the minimum (the quotient is never rounded below a whole number of tokens
the bid can pay), and how far the payment can exceed the maximum bid. The second part
follows the sums through the stores: a bid takes from its auction what it records, and
pruning removes an auction with exactly its own bids, because ids are unique over
active, ended and just-closed auctions. `LatestEndedKept`, an action property, needs the
largest id of a denomination among the ended auctions, and that an auction closed in
this very block is never pruned: with the wrap-around of `USub` its age does not protect
it, only that it is the latest does.

`LaterBidsAreNotDearer` also says how fast prices fall, and that needs a lower bound on
the decrease rate: it is reset to the initial rate or multiplied by at least one, and
`RoundMonotone` and `MulMonotone` show that the half-to-even rounding of `sdk.Dec` keeps
that order, so the rate never falls below the initial one (`RateAtLeastInitial`). The
invariant `OnSchedule` counts: after k whole intervals the price and k decreases by the
initial rate together are at most the initial price. `AuctionsEndInTime` follows, the
safety half of the liveness property `AuctionsEnd`: when k such decreases reach the
initial price, an auction is over after k intervals. It says nothing of an auction whose
decrease rounds to zero, since no k reaches the price then; that auction would stay, as
the hazard at `x/auction/keeper/abci.go:35` says.

*AuctionSalesProofs.* `AuctionImplementsSales` is the refinement of `Sales`, from `IInv`,
`BInv` and the sums of `AuctionSupplyProofs`. The work is in FinishAuction: what it pays
to a module is the sum over the stored bids of all auctions that end and pay that module,
which must be the sum of what those sales have raised, each from its own bids; unique ids
make the parts disjoint. What it returns is a whole balance of the shared account, which
is the unsold rest of one sale only because that denomination has one active auction. A
purchase is never of nothing and never free, because a bid gets at least its minimum and
its payment is rounded up. Pruned bids belong to no active auction, so no sale
forgets what it has raised.

*AuctionSupplyProofs.* The supply of a denomination is the cardinality of the set of its
coins, pairs of an account and a number up to its balance: a sum over a set of any size,
with no induction over the accounts. `MovesConserve` is the core: coins taken off the top
of one balance and put on top of others are as many, by a bijection from the new coins to
the moved ones (`Stacked`). A transfer is the case of one receiver; `FinishAuctionBank` is
the case where each module account gets the payments of the bids on its own auctions. That
those shares do not overlap is where unique ids are needed, and that unsold tokens go to
one account only is where one active auction per denomination is. `CanFinish` is
needed too, and `ProceedsBacked` gives it. The assumption is that finitely many coins of
each denomination exist at genesis.

*CellarFeesProofs.* The BeginBlocker of `x/cellarfees` is no step of `Auction`: it begins
any number of auctions at once. `BeginBlockerIInv` and `BeginBlockerBInv` show that
`IInv` and `BInv` survive it, since the positions in the order of the counters give the
auctions different ids, and each denomination due has no active auction. The other steps
of `x/auction` are those of `AuctionProofs`. So all that is proved of `x/auction` alone
holds in the composition (`FeesKeepAuctionPromises`, `FeesKeepLatestEnded`,
`FeesSaleTokensBacked`). The
invariant of `x/cellarfees` itself is `FeesTypeOK` and `CountedFeesHeld`, with valid
parameters (a zero period would divide by zero) and finitely many positive counters.
`CountedFeesHeld` holds because no step of `x/auction` takes anything from the account
(`AuctionStepPays`): unsold fees and proceeds only come back. `ResetPutsOnSale` is the
action property that counters fall only together with the fees. `RewardsShrink` is the
safety half of `RewardsAreEmitted`: each completed BeginBlocker takes at least one usomm
of a supply that is not empty and gives it to the fee collector, and nothing else takes
any; so without new proceeds a supply of n is gone after at most n blocks.
`FeesConserveSupply` is the supply theorem of the composition, with the fee collector's
coins counted: coins appear only in a bridge event, which brings its amount (`Minted`),
and the BeginBlocker moves fees and rewards without losing any.

*CorkProofs.* Inductive invariant: types, finitely many votes, nothing left behind,
counts cover votes, results and calls are of past blocks, calls match results. That
results are of past blocks is what keeps a new tally from meeting an old one.
`CorksDecidedAtTheirHeight` is the safety half of `EveryCorkIsDecided`: a vote leaves the
schedule exactly when the EndBlocker of its block completes, and with a result.

*PubsubProofs.* Inductive invariant: the five checked invariants and that one index
has one intent per key. That indexes agree is preserved only because deletion by the
short keys deletes the same intents as by the long key, which is
`OnePublisherPerSubscription`. The refinement theorem maps each action to an action
of `DefaultSubscriptions` or a stutter.

*AxelarCorkProofs.* Inductive invariant, one part per store: `GovOK`, `VotesOK` (one vote
per key), `WinningOK` (a winning cork is of a past block, is the only one of its chain,
height and contract, and has a result), `PacketsOK` (sequence numbers tell packets apart),
`NoncesOK`, `UpgradesOK` (a stored upgrade is none of those that have left), `PoolOK`,
`RelayedAtMostOnce`, `RelayedWasApproved`. The last two need `WinningOK`: a cork that was
relayed cannot win again because winners are of the current block, and its deletion by
the middleware finds exactly it because no other winner has its key.
`RelayedAtMostOnce` holds when the middleware is installed and under `DistinctNames`,
that the configurations governance passes tell chains apart by their names: the
middleware looks the chain up by its name, and no validation of the code compares names,
so with two chains of one name it deletes at the wrong one. `BackedPool` follows each
coin of the distribution account through incentives, allocation, withdrawals, spends and
failed packets.

Only model-checked:
- the liveness properties `AuctionsEnd`, `RewardsAreEmitted`, `EveryCorkIsDecided`
  (liveness under fairness is out of the prover's reach; their safety halves are proved);
- the properties of `Wire`: the codec is recursive over the fields and bytes of a message,
  and what a recursive definition computes for every input is out of the prover's reach.

## 5. Findings

Each is a run that ends in a violation.

1. The exponent of a proposed token price is lost (`x/auction/keeper/proposal_handler.go:16`).
2. A decrease rate of 100% is accepted and halts the chain at the next auction
   (`x/cellarfees/types/params.go:111`).
3. A genesis with scheduled corks cannot be imported (`x/cork/keeper/genesis.go:21`).
4. The migration to version 2 of `x/cork` deletes no cork of version 1, because it makes
   its keys from the text of an address (`x/cork/migrations/v1/store.go:62`, `:88`); a
   scheduled one that is left halts the chain at its height.
5. The middleware that deletes a relayed cork is not in the send path (`app/app.go:417`),
   so the cork can be relayed again.
6. The timeout of winning corks deletes the young ones and keeps the old ones
   (`x/axelarcork/keeper/abci.go:44`).

Observed without a run of their own:
- a bidder can pay one usomm more than the maximum bid, because a quotient rounded to
  the nearest fraction is followed by a payment rounded up
  (`x/auction/keeper/msg_server.go:67`, `:81`); `BidsAreFair` bounds the excess: never two while a
  token costs less than `2 * Unit` usomm, and growing with the price beyond that, because
  the error of the quotient is multiplied by the price;
- pruning of ended auctions wraps below zero on a chain younger than the window
  (`x/auction/keeper/abci.go:82`, modelled by `USub`), so auctions that have just ended
  are pruned early; `LatestEndedKept` says when;
- exporting the genesis of `x/axelarcork` with a configured chain dereferences a nil
  pointer (`x/axelarcork/keeper/genesis.go:90`), and without one it writes nulls that
  `InitGenesis` dereferences (`:30`);
- the coins of a community pool spend whose packet fails go back to the account of
  `x/distribution` but not to the community pool: `PoolIsBacked` counts them as
  belonging to nobody.

## 6. Not modelled

- Queries and client commands change no state; the APY queries are arithmetic over
  parameters of other modules.
- Of the generated code the accessors, descriptors, gRPC stubs and HTTP gateways: calls
  passed on, without state.
- The upgrade handlers v4 to v7 write tables of constants once; only the step of v7 that
  `MigrateParamStore` depends on is modelled. `app/export.go` works on the stores of SDK
  modules, which are not part of the repository. The integration tests are a harness.
- Events and logs. In `SubmitBid`, amounts beyond 64 bits make `TruncateInt64` panic
  inside the transaction, which rolls back like an error.
- `CancelScheduledCork` and the scheduled cork proposals change no state.
- In `Codec`, the text of `sdk.Dec` and `sdk.Int` is digits; signs are left out, since
  the codec treats them as any other byte.

## 7. Plan

1. `Auction`, `CellarFees`, `Cork`, `Pubsub`, `AxelarCork` with their runs; proofs of
   `Auction`, `Cork` and `Pubsub` (done).
2. `Incentives` with the community pool, genesis of `x/auction` and `x/cellarfees`, the
   migration of `x/cork`, the generated codec (done).
3. Proofs of all safety properties of `AxelarCork`, of the bids and the pruning of
   `Auction`, and of the composition `CellarFees` (done).
4. Conservation of the supply by `x/auction` and in the composition `CellarFees`, the
   refinement of `Sales`, and the safety halves of the liveness properties (done).
5. Left: proofs about the codec, which need induction over the bytes of a message; the
   upgrade handlers before v7; and, should the timeout of `x/axelarcork` be corrected,
   `ApprovedStaysRelayable` as an invariant.
