---------------------------- MODULE AxelarCorkMC ----------------------------
(* Small instances of AxelarCork for TLC. *)
EXTENDS AxelarCork, TLC

CONSTANTS v1, v2, cellarA, proxyA

\* v1 alone is just above the threshold; v1 is exactly at it, and v2 has been
\* removed from the staking module.
MCPowerTables ==
    {[power |-> (v1 :> 68) @@ (v2 :> 32), total |-> 100],
     [power |-> (v1 :> 67), total |-> 100]}

\* One call with two deadlines, and another call for the same contract whose
\* chain is not that of the message it is scheduled with.
MCCorks ==
    {[chain |-> 1, target |-> cellarA, call |-> "rebalance", deadline |-> 1],
     [chain |-> 1, target |-> cellarA, call |-> "rebalance", deadline |-> 2],
     [chain |-> 2, target |-> cellarA, call |-> "withdraw", deadline |-> 1]}

OneCork ==
    {[chain |-> 1, target |-> cellarA, call |-> "rebalance", deadline |-> 1]}

MCChainConfigs ==
    {[id |-> 1, name |-> "arbitrum", proxy |-> proxyA],
     [id |-> 2, name |-> "avalanche", proxy |-> proxyA]}

MCGenesisConfigs == {c \in MCChainConfigs : c.id = 1}

MCGenesisIncentives == [perBlock |-> 1, cutoff |-> 2]
MCIncentivesParams == {MCGenesisIncentives, [perBlock |-> 1, cutoff |-> 6]}
NoIncentives == [perBlock |-> 0, cutoff |-> 0]
OnlyNoIncentives == {NoIncentives}

MCGenesisCellars == [c \in Chains |-> IF c = 1 THEN {cellarA} ELSE {}]
=============================================================================
