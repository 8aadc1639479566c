----------------------- MODULE DefaultSubscriptions -----------------------
(***************************************************************************)
(* What x/cork and x/axelarcork see of x/pubsub: the approved publishers   *)
(* and the default subscriptions.  Module Pubsub models the whole          *)
(* component and is shown to implement Spec; modules Cork and AxelarCork   *)
(* take these actions as the steps of their environment.                   *)
(***************************************************************************)
EXTENDS Functions

CONSTANTS Domains,          \* publisher domains
          SubscriptionIDs   \* subscription ids ("<chain id>:<cellar address>")

VARIABLES approved,         \* domains of the approved publishers
          subscriptions     \* default subscriptions: a domain for some ids

AddPublisher(p) ==
    /\ p \notin approved
    /\ approved' = approved \cup {p}
    /\ UNCHANGED subscriptions

\* Removing a publisher removes the default subscriptions to it.
RemovePublisher(p) ==
    /\ p \in approved
    /\ approved' = approved \ {p}
    /\ subscriptions' = Restrict(subscriptions,
         {id \in DOMAIN subscriptions : subscriptions[id] # p})

\* The proposal to add a default subscription does not look at the publishers.
AddDefaultSubscription(id, p) ==
    /\ subscriptions' = [i \in DOMAIN subscriptions \cup {id} |->
                            IF i = id THEN p ELSE subscriptions[i]]
    /\ UNCHANGED approved

RemoveDefaultSubscription(id) ==
    /\ id \in DOMAIN subscriptions
    /\ subscriptions' = Restrict(subscriptions, DOMAIN subscriptions \ {id})
    /\ UNCHANGED approved

Init == approved = {} /\ subscriptions = [id \in {} |-> 0]

Next ==
    \/ \E p \in Domains :
          \/ AddPublisher(p)
          \/ RemovePublisher(p)
          \/ \E id \in SubscriptionIDs : AddDefaultSubscription(id, p)
    \/ \E id \in SubscriptionIDs : RemoveDefaultSubscription(id)

Spec == Init /\ [][Next]_<<approved, subscriptions>>
=============================================================================
