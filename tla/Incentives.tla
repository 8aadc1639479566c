------------------------------ MODULE Incentives ------------------------------
(***************************************************************************)
(* x/incentives: until a cutoff height every block moves a fixed amount    *)
(* from the community pool to the fee collector, which x/distribution      *)
(* empties at the beginning of the next block.                             *)
(*                                                                         *)
(* The distribution account holds whole coins; the community pool and the  *)
(* rewards of the validators are shares of them, counted here in parts of  *)
(* a coin.  Module AxelarCork, whose proposals spend from the same pool,   *)
(* composes this module with its own actions.                              *)
(***************************************************************************)
EXTENDS Integers

CONSTANTS
    Fraction,       \* parts of a coin
    Tax,            \* parts of each coin of fees that go to the community pool
    IncentivesParams  \* [perBlock, cutoff]: parameters governance may set

VARIABLES
    incentives,     \* the parameters
    pool,           \* the community pool, in parts of a coin
    outstanding,    \* rewards the validators have not withdrawn, in parts
    held,           \* coins of the distribution account
    collected       \* coins of the fee collector

incentivesVars == <<incentives, pool, outstanding, held, collected>>

-----------------------------------------------------------------------------
Active(h) == h < incentives.cutoff /\ incentives.perBlock # 0

\* Mutant: the pool goes below zero.
NeverNegative == FALSE
\* SafeSub on the coins of the pool.
Negative == pool < Fraction * incentives.perBlock

Distributes(h) == Active(h) /\ ~ Negative

\* SendCoinsFromModuleToModule fails and its caller panics.
Panics(h) == Distributes(h) /\ held < incentives.perBlock

\* Mutant: the fee pool is not stored after the transfer.
PoolNotStored == pool
PoolAfter == pool - Fraction * incentives.perBlock

EndBlocker(h) ==
    IF Distributes(h)
    THEN /\ held' = held - incentives.perBlock
         /\ collected' = collected + incentives.perBlock
         /\ pool' = PoolAfter
         /\ UNCHANGED <<incentives, outstanding>>
    ELSE UNCHANGED incentivesVars

\* A proposal that changes the parameters.
SetParams(p) ==
    /\ incentives' = p
    /\ UNCHANGED <<pool, outstanding, held, collected>>

-----------------------------------------------------------------------------
(* x/distribution *)

\* Its BeginBlocker gives the fees of the last block to the community pool and
\* to the validators, and takes them into its account.
AllocateTokens ==
    /\ collected > 0
    /\ held' = held + collected
    /\ pool' = pool + Tax * collected
    /\ outstanding' = outstanding + (Fraction - Tax) * collected
    /\ collected' = 0
    /\ UNCHANGED incentives

\* Rewards are paid in whole coins; what is left of them goes to the pool.
WithdrawRewards(parts) ==
    /\ parts \in 1..outstanding
    /\ outstanding' = outstanding - parts
    /\ held' = held - (parts \div Fraction)
    /\ pool' = pool + (parts % Fraction)
    /\ UNCHANGED <<incentives, collected>>
=============================================================================
