------------------------------- MODULE WireMC -------------------------------
(* All message types of the repository. *)
EXTENDS Wire

Auction    == INSTANCE AuctionMessages
AxelarCork == INSTANCE AxelarCorkMessages
CellarFees == INSTANCE CellarFeesMessages
Cork       == INSTANCE CorkMessages
CorkV1     == INSTANCE CorkV1Messages
Incentives == INSTANCE IncentivesMessages
Pubsub     == INSTANCE PubsubMessages

MCTypes ==
    UNION {ToSet(all) : all \in {Auction!All, AxelarCork!All, CellarFees!All,
                                 Cork!All, CorkV1!All, Incentives!All, Pubsub!All}}

\* What the store of x/cork keeps from version 1 on.
MCLater ==
    {<<CorkV1!Cork, Cork!Cork>>, <<CorkV1!CellarIDSet, Cork!CellarIDSet>>}

\* Field 31 with each wire type, and as a group with a number and a group in it.
MCUnknownFields ==
    {<<248, 1, 172, 2>>, <<249, 1, 8, 8, 8, 8, 8, 8, 8, 8>>, <<250, 1, 2, 8, 9>>,
     <<253, 1, 4, 4, 4, 4>>, <<251, 1, 8, 1, 19, 20, 252, 1>>}

\* A tag of zero, an illegal wire type, the end of a group, lengths that are
\* negative or too large, and a varint that is too long.
MCNoise ==
    {<<0>>, <<7>>, <<12>>, <<255>>, <<255, 255, 255, 1>>, <<255, 255, 127>>,
     <<128, 128, 128, 128, 0>>}
=============================================================================
