------------------------------ MODULE AxelarCork ------------------------------
(***************************************************************************)
(* x/axelarcork: validators schedule contract calls ("corks") on cellars   *)
(* of other chains; the EndBlocker tallies them and keeps the approved     *)
(* ones as winning corks, which anyone may relay to Axelar's GMP account   *)
(* over IBC.  Proxy upgrades wait for a number of blocks and are relayed   *)
(* the same way.                                                           *)
(*                                                                         *)
(* An IBC middleware, ValidateAxelarPacket, is meant to see every packet   *)
(* of the transfer module.  Whether it does is a matter of wiring:         *)
(* installed is TRUE when the middleware is in the send path, as in the    *)
(* tests of the module, and FALSE when the transfer keeper sends through   *)
(* the channel keeper, as in app.go.                                       *)
(***************************************************************************)
EXTENDS Integers, FiniteSets, FiniteSetsExt, Functions

CONSTANTS
    Validators,     \* validators with an orchestrator (delegate key)
    Chains,         \* chain ids
    Cellars,        \* contract addresses
    Corks,          \* [chain, target, call, deadline]: what may be scheduled
    ChainConfigs,   \* [id, name, proxy]: configurations governance may set
    Proxies,        \* proxy contracts governance may upgrade to
    Domains,        \* domains of publishers
    PowerTables,    \* [power, total]: stakes an EndBlocker may find
    Gmp, Executor,  \* parameters GmpAccount and ExecutorAccount
    Accounts,       \* strings AccAddressFromBech32 accepts
    CorkTimeoutBlocks,
    HeightThreshold,  \* DefaultExecutableHeightThreshold
    Word,           \* 2^64, or any number beyond every height
    GenesisConfigs, GenesisCellars, \* configurations and cellars of genesis,
    GenesisPublishers,              \* and the publishers of x/pubsub's
    InitialPool,    \* coins of the community pool
    Fraction, Tax,  \* see module Incentives
    IncentivesParams, GenesisIncentives,
    MaxHeight,      \* bound: last block
    GovHeights,     \* bound: blocks in which governance acts
    MaxProposals,   \* bound: proposals executed in one block
    VoteHeights,    \* bound: blocks for which corks are scheduled
    MaxVotes,       \* bound: corks scheduled at a time
    MaxPackets      \* bound: packets sent

ASSUME AxelarCorkAssumption ==
    /\ IsFiniteSet(Validators) /\ IsFiniteSet(Chains)
    /\ Chains \subseteq Nat
    /\ Corks \subseteq [chain : Chains, target : Cellars, call : STRING,
                        deadline : Nat \ {0}]
    /\ ChainConfigs \subseteq [id : Chains, name : STRING, proxy : Proxies]
    /\ \A t \in PowerTables :
          /\ DOMAIN t.power \subseteq Validators
          /\ \A v \in DOMAIN t.power : t.power[v] \in Nat
          /\ t.total \in Nat \ {0}
    /\ CorkTimeoutBlocks \in Nat \ {0} /\ HeightThreshold \in Nat \ {0}
    /\ Word \in Nat /\ Word > MaxHeight /\ Word > CorkTimeoutBlocks
    /\ InitialPool \in Nat
    /\ Fraction \in Nat \ {0} /\ Tax \in 0..Fraction
    /\ IncentivesParams \subseteq [perBlock : Nat, cutoff : Nat]
    /\ GenesisIncentives \in IncentivesParams
    /\ GenesisConfigs \subseteq ChainConfigs
    /\ \A a, b \in GenesisConfigs : a.id = b.id => a = b
    /\ GenesisCellars \in [Chains -> SUBSET Cellars]
    /\ GenesisPublishers \subseteq Domains
    /\ MaxHeight \in Nat /\ MaxProposals \in Nat
    /\ VoteHeights \subseteq Nat
    /\ MaxVotes \in Nat /\ MaxPackets \in Nat

VARIABLES
    installed,      \* the middleware is in the send path
    height, halted,
    executed,       \* proposals executed in this block, after its transactions
    enabled,        \* parameter Enabled
    configs,        \* chain configurations, by id
    cellars,        \* the managed cellar ids, by chain
    approved,       \* domains of the approved publishers of x/pubsub
    subscriptions,  \* default subscriptions kept in x/pubsub
    scheduled,      \* scheduled corks
    winning,        \* winning corks
    results,        \* cork results
    nonces,         \* contract call nonces, by chain and contract
    upgrades,       \* proxy upgrade data, by chain
    packets,        \* packets sent, and for a call the winning cork it is of
    refunded,       \* sequence numbers of the packets that failed
    incentives,     \* parameters of x/incentives; with the next four, the
    pool,           \* community pool and the coins behind it, the variables
    outstanding,    \* of module Incentives
    held, collected

govVars    == <<enabled, configs, cellars, approved, subscriptions>>
corkVars   == <<scheduled, winning, results, nonces, upgrades>>
poolVars   == <<incentives, pool, outstanding, held, collected>>
packetVars == <<packets, refunded, poolVars>>
vars == <<installed, height, halted, executed, govVars, corkVars, packetVars>>

Pubsub == INSTANCE DefaultSubscriptions WITH SubscriptionIDs <- Chains \X Cellars
Incentives == INSTANCE Incentives

\* The BeginBlocker of x/distribution comes before all else of a block.
Running    == halted = FALSE /\ collected = 0
Delivering == Running /\ executed = 0

\* f with the value at x set to y.
Put(f, x, y) == [i \in DOMAIN f \cup {x} |-> IF i = x THEN y ELSE f[i]]
Drop(f, S)   == Restrict(f, DOMAIN f \ S)

-----------------------------------------------------------------------------
(* Scheduling *)

\* IDHash covers all of a cork but its deadline; Equals all but its chain.
SameID(c, d) == c.chain = d.chain /\ c.target = d.target /\ c.call = d.call
Equals(c, d) ==
    c.target = d.target /\ c.call = d.call /\ c.deadline = d.deadline

HasCellarID(chain, c) == c \in cellars[chain]

\* The key is the height, the id and the validator: a vote for the same call
\* with another deadline replaces the earlier one.
OtherVotes(chain, h, val, cork) ==
    {s \in scheduled : ~ (/\ s.chain = chain /\ s.height = h
                          /\ s.val = val /\ SameID(s.cork, cork))}

SetScheduledAxelarCork(chain, h, val, cork) ==
    scheduled' = OtherVotes(chain, h, val, cork) \cup
        {[chain |-> chain, height |-> h, val |-> val, cork |-> cork]}

\* The chain of the message and the chain in the cork are not compared.
ScheduleCork(val, chain, cork, h) ==
    /\ Delivering /\ enabled
    /\ Cardinality(scheduled) < MaxVotes
    /\ chain \in DOMAIN configs
    /\ HasCellarID(chain, cork.target)
    /\ h > height
    /\ SetScheduledAxelarCork(chain, h, val, cork)
    /\ UNCHANGED <<installed, height, halted, executed, govVars, winning, results,
                   nonces, upgrades, packetVars>>

-----------------------------------------------------------------------------
(* Packets *)

\* GetWinningAxelarCork: the oldest one of the contract.
Oldest(chain, target) ==
    {w \in winning :
        /\ w.chain = chain /\ w.cork.target = target
        /\ \A x \in winning :
              x.chain = chain /\ x.cork.target = target => w.height <= x.height}

\* GetChainConfigurationByName: the first configuration with the name.
ByName(name) ==
    {i \in DOMAIN configs :
        /\ configs[i].name = name
        /\ \A j \in DOMAIN configs : configs[j].name = name => i <= j}

\* What ValidateAxelarPacket accepts of a body sent by the module account:
\* the call of the oldest winning cork, or the stored upgrade.
ValidBody(b) ==
    \E i \in ByName(b.name) :
        /\ configs[i].proxy = b.dest
        /\ \/ /\ b.kind = "call" /\ b.nonce # 0
              /\ \E w \in Oldest(i, b.target) : w.cork.call = b.call
           \/ /\ b.kind = "upgrade" /\ b.targets # {}
              /\ i \in DOMAIN upgrades
              /\ upgrades[i].proxy = b.proxy /\ upgrades[i].targets = b.targets

Validated == installed /\ enabled

ValidateAxelarPacket(sender, receiver, b) ==
    Validated =>
        /\ Gmp \in Accounts /\ receiver \in Accounts
        /\ receiver = Gmp => sender = "axelarcork" /\ ValidBody(b)

\* Mutant: the winning cork stays after its packet has been accepted.
KeepWinning(b) == winning
\* The middleware deletes the winning cork it has accepted.
WinningAfter(b) ==
    IF Validated
    THEN winning \ UNION {Oldest(i, b.target) : i \in ByName(b.name)}
    ELSE winning

\* transferKeeper.Transfer: an error of the middleware fails the message.  The
\* coins of a relay pass through the module account, which has just been given
\* them by the signer.
Transfer(sender, receiver, b) ==
    /\ Cardinality(packets) < MaxPackets
    /\ ValidateAxelarPacket(sender, receiver, b)
    /\ packets' = packets \cup
         {[seq |-> Cardinality(packets) + 1, height |-> height,
           sender |-> sender, body |-> b]}

\* IncrementAxelarContractCallNonce
NextNonce(chain, target) == nonces[<<chain, target>>] + 1

RelayCork(chain, target) ==
    /\ Delivering /\ enabled
    /\ chain \in DOMAIN configs
    /\ \E w \in Oldest(chain, target) :
         LET b == [kind |-> "call", name |-> configs[chain].name,
                   dest |-> configs[chain].proxy, target |-> target,
                   nonce |-> NextNonce(chain, target),
                   deadline |-> w.cork.deadline, call |-> w.cork.call, of |-> w]
         IN  /\ Transfer("axelarcork", Gmp, b)
             /\ winning' = WinningAfter(b)
             /\ nonces' = [nonces EXCEPT ![<<chain, target>>] = b.nonce]
    /\ UNCHANGED <<installed, height, halted, executed, govVars, scheduled, results,
                   upgrades, refunded, poolVars>>

\* Mutant: the upgrade may be relayed at once.
AnyTime(u) == TRUE
Executable(u) == height >= u.threshold
UpgradesWithout(chain) == Drop(upgrades, {chain})

RelayProxyUpgrade(chain) ==
    /\ Delivering /\ enabled
    /\ chain \in DOMAIN configs
    /\ chain \in DOMAIN upgrades
    /\ Executable(upgrades[chain])
    /\ LET u == upgrades[chain]
       IN  Transfer("axelarcork", Gmp,
             [kind |-> "upgrade", name |-> configs[chain].name,
              dest |-> configs[chain].proxy, proxy |-> u.proxy,
              targets |-> u.targets, chain |-> chain, passed |-> u.passed])
    /\ upgrades' = UpgradesWithout(chain)
    /\ UNCHANGED <<installed, height, halted, executed, govVars, scheduled, winning,
                   results, nonces, refunded, poolVars>>

\* The signer pays the executor account; the memo is the id of a message.
BumpCorkGas ==
    /\ Delivering /\ enabled
    /\ Transfer("signer", Executor, [kind |-> "bump"])
    /\ UNCHANGED <<installed, height, halted, executed, govVars, corkVars,
                   refunded, poolVars>>

\* The packet times out or is acknowledged with an error: the middleware passes
\* it on and the transfer module pays the sender back.
PacketFails(p) ==
    /\ Delivering
    /\ p.seq \notin refunded
    /\ refunded' = refunded \cup {p.seq}
    /\ held' = IF p.sender = "distribution" THEN held + 1 ELSE held
    /\ UNCHANGED <<installed, height, halted, executed, govVars, corkVars, packets,
                   incentives, pool, outstanding, collected>>

-----------------------------------------------------------------------------
(* Proposals *)

\* Proposals are executed by the governance EndBlocker.
Govern ==
    /\ Running
    /\ height \in GovHeights /\ executed < MaxProposals
    /\ executed' = executed + 1

\* HandleAddManagedCellarsProposal
AddManagedCellars(chain, ids, publisher) ==
    /\ Govern
    /\ chain \in DOMAIN configs
    /\ publisher \in approved
    /\ cellars' = [cellars EXCEPT ![chain] = @ \cup ids]
    /\ LET new == {<<chain, c>> : c \in ids \ cellars[chain]}
       IN  subscriptions' = [s \in DOMAIN subscriptions \cup new |->
                               IF s \in new THEN publisher ELSE subscriptions[s]]
    /\ UNCHANGED <<installed, height, halted, enabled, configs, approved,
                   corkVars, packetVars>>

\* Mutant: the subscriptions of the address are deleted for every chain.
ForEveryChain(chain, ids) == Chains \X ids
SubscriptionIDs(chain, ids) == {chain} \X ids

\* HandleRemoveManagedCellarsProposal
RemoveManagedCellars(chain, ids) ==
    /\ Govern
    /\ chain \in DOMAIN configs
    /\ cellars' = [cellars EXCEPT ![chain] = @ \ ids]
    /\ subscriptions' = Drop(subscriptions, SubscriptionIDs(chain, ids))
    /\ UNCHANGED <<installed, height, halted, enabled, configs, approved,
                   corkVars, packetVars>>

\* HandleAddChainConfigurationProposal: overwrites the chain's configuration.
AddChainConfiguration(config) ==
    /\ Govern
    /\ configs' = Put(configs, config.id, config)
    /\ UNCHANGED <<installed, height, halted, enabled, cellars, approved,
                   subscriptions, corkVars, packetVars>>

\* Mutant: the nonces of a removed chain start again.
ForgetNonces(chain) ==
    [k \in DOMAIN nonces |-> IF k[1] = chain THEN 0 ELSE nonces[k]]
KeepNonces(chain) == nonces

\* HandleRemoveChainConfigurationProposal: all else of the chain stays.
RemoveChainConfiguration(chain) ==
    /\ Govern
    /\ configs' = Drop(configs, {chain})
    /\ nonces' = KeepNonces(chain)
    /\ UNCHANGED <<installed, height, halted, enabled, cellars, approved,
                   subscriptions, scheduled, winning, results, upgrades,
                   packetVars>>

\* HandleUpgradeAxelarProxyContractProposal: for the cellars managed now.
UpgradeProxyContract(chain, proxy) ==
    /\ Govern
    /\ chain \in DOMAIN configs
    /\ upgrades' = Put(upgrades, chain,
         [proxy |-> proxy, targets |-> cellars[chain],
          threshold |-> height + HeightThreshold, passed |-> height])
    /\ UNCHANGED <<installed, height, halted, govVars, scheduled, winning,
                   results, nonces, packetVars>>

\* HandleCancelAxelarProxyContractUpgradeProposal
CancelUpgrade(chain) ==
    /\ Govern
    /\ chain \in DOMAIN configs
    /\ upgrades' = Drop(upgrades, {chain})
    /\ UNCHANGED <<installed, height, halted, govVars, scheduled, winning,
                   results, nonces, packetVars>>

PoolCovers == pool >= Fraction
PoolReduced == pool - Fraction

\* HandleCommunityPoolSpendProposal: the pool is reduced once Transfer, which
\* takes the coins from the distribution account, has succeeded.
CommunityPoolSpend(chain) ==
    /\ Govern
    /\ chain \in DOMAIN configs
    /\ PoolCovers
    /\ Transfer("distribution", Gmp,
                [kind |-> "spend", name |-> configs[chain].name])
    /\ held' = held - 1
    /\ pool' = PoolReduced
    /\ UNCHANGED <<installed, height, halted, govVars, corkVars, refunded,
                   incentives, outstanding, collected>>

SetIncentives(p) ==
    /\ Govern
    /\ Incentives!SetParams(p)
    /\ UNCHANGED <<installed, height, halted, govVars, corkVars, packets, refunded>>

\* A parameter change.
SetEnabled(e) ==
    /\ Govern
    /\ enabled' = e
    /\ UNCHANGED <<installed, height, halted, configs, cellars, approved,
                   subscriptions, corkVars, packetVars>>

PubsubStep ==
    /\ Govern
    /\ Pubsub!Next
    /\ UNCHANGED <<installed, height, halted, enabled, configs, cellars,
                   corkVars, packetVars>>

-----------------------------------------------------------------------------
(* EndBlocker *)

Due(chain) == {s \in scheduled : s.chain = chain /\ s.height = height}
DueVotes == UNION {Due(chain) : chain \in DOMAIN configs}

\* Votes for equal corks are counted together, under the first one met.
Tallies(chain) ==
    {S \in SUBSET {s.cork : s \in Due(chain)} :
        \A s \in Due(chain) : Cardinality({c \in S : Equals(c, s.cork)}) = 1}

VotedPower(power, chain, cork) ==
    MapThenSumSet(LAMBDA s : power[s.val],
                  {s \in Due(chain) : Equals(s.cork, cork)})

\* CorkVoteThresholdStr: more than 67 percent of the total power.
QuorumReached(t, chain, cork) ==
    100 * VotedPower(t.power, chain, cork) > 67 * t.total

\* Results and winning corks are written in the order of the tally, which is
\* that of hashes and addresses: a later one replaces one with the same key.
LastOf(order, S) == {c \in S : \A d \in S : order[c] >= order[d]}

NewResults(t, chain, order) ==
    {[chain |-> chain, height |-> height, cork |-> c,
      approved |-> QuorumReached(t, chain, c)] :
        c \in UNION {LastOf(order, {d \in DOMAIN order : SameID(d, e)}) :
                       e \in DOMAIN order}}

\* Mutant: every tallied cork wins.
AllOf(t, chain, order) == DOMAIN order
Winners(t, chain, order) == {c \in DOMAIN order : QuorumReached(t, chain, c)}

NewWinning(t, chain, order) ==
    {[chain |-> chain, height |-> height, cork |-> c] :
        c \in UNION {LastOf(order, {d \in Winners(t, chain, order) :
                                      d.target = a}) : a \in Cellars}}

\* uint64 subtraction: wraps below zero.
timeoutHeight == (height - CorkTimeoutBlocks) % Word

\* The winning corks of a configured chain that the EndBlocker deletes.
TimedOut(w) == w.chain \in DOMAIN configs /\ w.height >= timeoutHeight

EndBlockCompletes(t, order) ==
    /\ scheduled' = scheduled \ DueVotes
    /\ results' = results \cup
         UNION {NewResults(t, chain, order[chain]) : chain \in DOMAIN configs}
    /\ winning' = {w \in winning \cup
                     UNION {NewWinning(t, chain, order[chain]) :
                              chain \in DOMAIN configs} : ~ TimedOut(w)}
    /\ height' = height + 1
    /\ executed' = 0
    /\ Incentives!EndBlocker(height)
    /\ UNCHANGED <<installed, halted, govVars, nonces, upgrades, packets, refunded>>

\* Asking a validator removed from the staking module for its power panics.
VotePanics(t) == \E s \in DueVotes : s.val \notin DOMAIN t.power

EndBlockPanics(t) == Incentives!Panics(height) \/ VotePanics(t)

\* The orders in which the corks of a chain may be tallied.
Orders(chain) == UNION {Bijection(S, 1..Cardinality(S)) : S \in Tallies(chain)}

EndBlocker(t) ==
    /\ Running /\ height < MaxHeight
    /\ ~ EndBlockPanics(t)
    /\ \E order \in [DOMAIN configs -> UNION {Orders(c) : c \in DOMAIN configs}] :
          /\ \A c \in DOMAIN configs : order[c] \in Orders(c)
          /\ EndBlockCompletes(t, order)

HaltInEndBlocker(t) ==
    /\ Running /\ height < MaxHeight
    /\ EndBlockPanics(t)
    /\ halted' = TRUE
    /\ UNCHANGED <<installed, height, executed, govVars, corkVars, packetVars>>

\* The steps of x/distribution.
BeginBlock ==
    /\ halted = FALSE
    /\ Incentives!AllocateTokens
    /\ UNCHANGED <<installed, height, halted, executed, govVars, corkVars, packets,
                   refunded>>

WithdrawRewards ==
    /\ Delivering
    /\ \E parts \in 1..outstanding : Incentives!WithdrawRewards(parts)
    /\ UNCHANGED <<installed, height, halted, executed, govVars, corkVars, packets,
                   refunded>>

-----------------------------------------------------------------------------
Init ==
    /\ installed \in BOOLEAN
    /\ height = 1 /\ executed = 0 /\ halted = FALSE
    /\ enabled = TRUE
    /\ configs = [i \in {c.id : c \in GenesisConfigs} |->
                    CHOOSE c \in GenesisConfigs : c.id = i]
    /\ cellars = GenesisCellars
    /\ approved = GenesisPublishers /\ subscriptions = [s \in {} |-> 0]
    /\ scheduled = {} /\ winning = {} /\ results = {}
    /\ nonces = [k \in Chains \X Cellars |-> 0]
    /\ upgrades = [i \in {} |-> 0]
    /\ packets = {} /\ refunded = {}
    /\ incentives = GenesisIncentives
    /\ pool = Fraction * InitialPool /\ outstanding = 0
    /\ held = InitialPool /\ collected = 0

SomeCork ==
    \E v \in Validators, chain \in Chains, c \in Corks, h \in VoteHeights :
        ScheduleCork(v, chain, c, h)

SomeRelay ==
    \/ \E chain \in Chains, target \in Cellars : RelayCork(chain, target)
    \/ \E chain \in Chains : RelayProxyUpgrade(chain)
    \/ BumpCorkGas
    \/ \E p \in packets : PacketFails(p)

Governance ==
    \/ \E chain \in Chains, ids \in (SUBSET Cellars) \ {{}} :
          \/ \E p \in Domains : AddManagedCellars(chain, ids, p)
          \/ RemoveManagedCellars(chain, ids)
    \/ \E c \in ChainConfigs : AddChainConfiguration(c)
    \/ \E chain \in Chains :
          \/ RemoveChainConfiguration(chain)
          \/ \E p \in Proxies : UpgradeProxyContract(chain, p)
          \/ CancelUpgrade(chain)
          \/ CommunityPoolSpend(chain)
    \/ \E e \in BOOLEAN : SetEnabled(e)
    \/ \E p \in IncentivesParams : SetIncentives(p)
    \/ PubsubStep

EndBlock == \E t \in PowerTables : EndBlocker(t) \/ HaltInEndBlocker(t)

Next ==
    \/ BeginBlock \/ SomeCork \/ SomeRelay \/ WithdrawRewards
    \/ Governance \/ EndBlock

Spec == Init /\ [][Next]_vars

-----------------------------------------------------------------------------
(* Properties *)

VoteRec    == [chain : Chains, height : Nat, val : Validators, cork : Corks]
WinningRec == [chain : Chains, height : Nat, cork : Corks]
ResultRec  == [chain : Chains, height : Nat, cork : Corks, approved : BOOLEAN]
UpgradeRec == [proxy : Proxies, targets : SUBSET Cellars, threshold : Nat,
               passed : Nat]

\* Each store holds one entry per key: a validator has one vote per height and
\* id, whatever the deadline, and a contract has one winning cork per height.
OneEntryPerKey ==
    /\ \A s, r \in scheduled :
          /\ s.chain = r.chain /\ s.height = r.height /\ s.val = r.val
          /\ SameID(s.cork, r.cork)
          => s = r
    /\ \A w, x \in winning :
          /\ w.chain = x.chain /\ w.height = x.height
          /\ w.cork.target = x.cork.target
          => w = x

\* The stores are well formed, and neither the community pool nor a balance
\* ever goes below zero.
TypeOK ==
    /\ OneEntryPerKey
    /\ installed \in BOOLEAN /\ halted \in BOOLEAN /\ enabled \in BOOLEAN
    /\ height \in Nat \ {0} /\ executed \in Nat
    /\ DOMAIN configs \subseteq Chains
    /\ \A i \in DOMAIN configs : configs[i] \in ChainConfigs /\ configs[i].id = i
    /\ cellars \in [Chains -> SUBSET Cellars]
    /\ approved \subseteq Domains
    /\ DOMAIN subscriptions \subseteq Chains \X Cellars
    /\ \A s \in DOMAIN subscriptions : subscriptions[s] \in Domains
    /\ scheduled \subseteq VoteRec
    /\ winning \subseteq WinningRec
    /\ results \subseteq ResultRec
    /\ nonces \in [Chains \X Cellars -> Nat]
    /\ DOMAIN upgrades \subseteq Chains
    /\ \A i \in DOMAIN upgrades : upgrades[i] \in UpgradeRec
    /\ refunded \subseteq {p.seq : p \in packets}
    /\ incentives \in IncentivesParams
    /\ pool \in Nat /\ outstanding \in Nat /\ held \in Nat /\ collected \in Nat

Calls       == {p \in packets : p.body.kind = "call"}
CallsTo(chain, target) ==
    {p \in Calls : p.body.of.chain = chain /\ p.body.target = target}
UpgradeCalls == {p \in packets : p.body.kind = "upgrade"}

\* The middleware looks a chain up by its name, and no validation compares the
\* names of two configurations: that they differ is up to the proposals.
DistinctNames == \A a, b \in ChainConfigs : a.name = b.name => a.id = b.id

\* With the middleware in the send path, and while names tell chains apart, an
\* approved cork is relayed at most once, also when its packet fails, when the
\* module is disabled and enabled, and when its chain is removed and configured
\* again.
RelayedAtMostOnce ==
    installed /\ DistinctNames =>
        /\ \A p, q \in Calls : p.body.of = q.body.of => p = q
        /\ \A p \in Calls : p.body.of \notin winning

\* The packets to one contract carry the nonces 1, 2, ... without a gap or a
\* repetition, across changes of the chain's configuration.
NoncesAreConsecutive ==
    \A chain \in Chains, target \in Cellars :
        /\ {p.body.nonce : p \in CallsTo(chain, target)} = 1..nonces[<<chain, target>>]
        /\ Cardinality(CallsTo(chain, target)) = nonces[<<chain, target>>]

\* What is relayed was tallied before for the same chain and height, and its
\* result says approved unless one with another deadline has replaced it.
RelayedWasApproved ==
    \A p \in Calls : \E r \in results :
        /\ r.chain = p.body.of.chain /\ r.height = p.body.of.height
        /\ r.height < p.height
        /\ r.cork.target = p.body.target /\ r.cork.call = p.body.call
        /\ r.cork.deadline = p.body.deadline => r.approved

\* An upgrade leaves once for each proposal that has passed, and not before the
\* blocks in which it may be cancelled have gone by.
UpgradesWaitAndLeaveOnce ==
    /\ \A p \in UpgradeCalls : p.height >= p.body.passed + HeightThreshold
    /\ \A p, q \in UpgradeCalls :
          p.body.chain = q.body.chain /\ p.body.passed = q.body.passed => p = q

Stranded == {p \in packets : p.body.kind = "spend" /\ p.seq \in refunded}

\* The distribution account holds exactly what the community pool and the
\* rewards of the validators are shares of, and the coins of the community pool
\* spends whose packets have failed, which belong to nobody: neither incentives
\* nor spends take coins from the validators, so neither can fail for lack of
\* them and halt the chain.
PoolIsBacked ==
    /\ pool + outstanding + Fraction * Cardinality(Stranded) = Fraction * held
    /\ ~ Incentives!Panics(height)

\* A proposal for the cellars of one chain leaves the subscriptions to the same
\* addresses on other chains alone, and a cellar that is no longer managed has
\* no subscription left.
SubscriptionsFollowCellars ==
    [][\A chain \in Chains : cellars'[chain] # cellars[chain] =>
         /\ \A s \in Chains \X Cellars : s[1] # chain =>
               /\ s \in DOMAIN subscriptions' <=> s \in DOMAIN subscriptions
               /\ s \in DOMAIN subscriptions => subscriptions'[s] = subscriptions[s]
         /\ \A c \in cellars[chain] \ cellars'[chain] :
               <<chain, c>> \notin DOMAIN subscriptions']_vars

-----------------------------------------------------------------------------
(* What the repository's comments say and the code does not do *)

\* msg_server.go:78: "winning cork will be deleted during the middleware pass".
RelayedIsDeleted == \A p \in Calls : p.body.of \notin winning

\* abci.go:18-20: the EndBlocker "stores all winning votes as corks that
\* strategists are allowed to relay via Axelar", until they time out.
ApprovedStaysRelayable ==
    \A r \in results :
        /\ r.approved /\ r.chain \in DOMAIN configs
        /\ height <= r.height + CorkTimeoutBlocks
        => \/ [chain |-> r.chain, height |-> r.height, cork |-> r.cork] \in winning
           \/ \E p \in Calls : p.body.of.chain = r.chain /\ p.body.of.cork = r.cork
=============================================================================
