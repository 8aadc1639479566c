------------------------------ MODULE PubsubMC ------------------------------
(* A small instance of Pubsub for TLC. *)
EXTENDS Pubsub

CONSTANTS alice

\* A pushed intent for alice alone, and one that validators pull.
MCKinds == {[push |-> TRUE, allowed |-> "LIST", list |-> {alice}],
            [push |-> FALSE, allowed |-> "VALIDATORS", list |-> {}]}
=============================================================================
