------------------------------- MODULE Pubsub -------------------------------
(***************************************************************************)
(* x/pubsub: publishers approved by governance announce the subscriptions  *)
(* they serve (publisher intents), subscribers choose one publisher for a  *)
(* subscription (subscriber intents), and governance sets defaults.        *)
(*                                                                         *)
(* The store keeps publisher intents under two keys and subscriber intents *)
(* under three, one index for each query.  An index is modelled as the set *)
(* of the values stored in it; Set and Delete work on each index by that   *)
(* index's own key, so that the indexes could come apart.  One step is one *)
(* message or proposal; a handler that returns an error changes nothing.   *)
(***************************************************************************)
EXTENDS Functions

CONSTANTS
    Addresses,        \* accounts of publishers and subscribers
    Domains,          \* publisher domains
    SubscriptionIDs,  \* subscription ids
    IntentKinds       \* [push, allowed, list] of publisher intents

Kinds == [push : BOOLEAN, allowed : {"ANY", "VALIDATORS", "LIST"},
          list : SUBSET Addresses]

ASSUME KindAssumption == IntentKinds \subseteq Kinds

VARIABLES
    publishers,     \* publisher address by domain
    subscribers,    \* by address: whether the subscriber has a push URL
    pubByDomain,    \* publisher intents, key (domain, subscription id)
    pubByID,        \* publisher intents, key (subscription id, domain)
    subByAddress,   \* subscriber intents, key (address, subscription id)
    subByID,        \* subscriber intents, key (subscription id, address)
    subByDomain,    \* subscriber intents, key (domain, address, subscription id)
    subscriptions   \* default subscriptions: a domain by subscription id

pubIndexes == <<pubByDomain, pubByID>>
subIndexes == <<subByAddress, subByID, subByDomain>>
vars == <<publishers, subscribers, pubIndexes, subIndexes, subscriptions>>

PublisherIntent  == [domain : Domains, id : SubscriptionIDs, kind : IntentKinds]
SubscriberIntent == [domain : Domains, id : SubscriptionIDs, addr : Addresses]

-----------------------------------------------------------------------------
(* The keeper's stores *)

\* f with the value v under the key k, as KVStore.Set does.
Put(f, k, v) == [x \in DOMAIN f \cup {k} |-> IF x = k THEN v ELSE f[x]]

SetPublisherIntent(pi) ==
    /\ pubByDomain' = {q \in pubByDomain : q.domain # pi.domain \/ q.id # pi.id} \cup {pi}
    /\ pubByID' = {q \in pubByID : q.domain # pi.domain \/ q.id # pi.id} \cup {pi}

SetSubscriberIntent(si) ==
    /\ subByAddress' = {t \in subByAddress : t.addr # si.addr \/ t.id # si.id} \cup {si}
    /\ subByID' = {t \in subByID : t.addr # si.addr \/ t.id # si.id} \cup {si}
    /\ subByDomain' = {t \in subByDomain : t # si} \cup {si}

\* Mutant: the domain index is forgotten.
DeleteFromTwoIndexes(gone) ==
    /\ subByAddress' = {t \in subByAddress : \A g \in gone : t.addr # g.addr \/ t.id # g.id}
    /\ subByID' = {t \in subByID : \A g \in gone : t.addr # g.addr \/ t.id # g.id}
    /\ UNCHANGED subByDomain
\* DeleteSubscriberIntent for each of gone.
DeleteSubscriberIntents(gone) ==
    /\ subByAddress' = {t \in subByAddress : \A g \in gone : t.addr # g.addr \/ t.id # g.id}
    /\ subByID' = {t \in subByID : \A g \in gone : t.addr # g.addr \/ t.id # g.id}
    /\ subByDomain' = {t \in subByDomain : t \notin gone}

\* Mutant: the subscribers of a deleted publisher intent keep theirs.
DeletePublisherIntentsOnly(gone) ==
    /\ pubByDomain' = {q \in pubByDomain : \A g \in gone : q.domain # g.domain \/ q.id # g.id}
    /\ pubByID' = {q \in pubByID : \A g \in gone : q.domain # g.domain \/ q.id # g.id}
    /\ UNCHANGED subIndexes
\* DeletePublisherIntent for each of gone: the subscriber intents for it are
\* found in the domain index.
DeletePublisherIntents(gone) ==
    /\ pubByDomain' = {q \in pubByDomain : \A g \in gone : q.domain # g.domain \/ q.id # g.id}
    /\ pubByID' = {q \in pubByID : \A g \in gone : q.domain # g.domain \/ q.id # g.id}
    /\ DeleteSubscriberIntents(
          {t \in subByDomain : \E g \in gone : t.domain = g.domain /\ t.id = g.id})

\* Mutant: the default subscriptions to a deleted publisher stay.
SubscriptionsKept(domain) == subscriptions
\* Mutant: the default subscriptions are left with an empty domain.
SubscriptionsEmptied(domain) ==
    [id \in DOMAIN subscriptions |->
        IF subscriptions[id] = domain THEN "" ELSE subscriptions[id]]
SubscriptionsWithout(domain) ==
    Restrict(subscriptions, {id \in DOMAIN subscriptions : subscriptions[id] # domain})

DeletePublisher(domain) ==
    /\ publishers' = Restrict(publishers, DOMAIN publishers \ {domain})
    /\ DeletePublisherIntents({q \in pubByDomain : q.domain = domain})
    /\ subscriptions' = SubscriptionsWithout(domain)

-----------------------------------------------------------------------------
(* Messages of publishers *)

\* Mutant: a publisher intent may be replaced.
NeverAnnounced(domain, id) == FALSE
HasPublisherIntent(domain, id) == \E q \in pubByDomain : q.domain = domain /\ q.id = id

\* The signer is the registered address of the publisher.
SignedBy(signer, domain) ==
    domain \in DOMAIN publishers /\ publishers[domain] = signer

AddPublisherIntent(signer, domain, id, kind) ==
    /\ SignedBy(signer, domain)
    /\ ~ HasPublisherIntent(domain, id)
    /\ SetPublisherIntent([domain |-> domain, id |-> id, kind |-> kind])
    /\ UNCHANGED <<publishers, subscribers, subIndexes, subscriptions>>

RemovePublisherIntent(signer, domain, id) ==
    /\ SignedBy(signer, domain)
    /\ HasPublisherIntent(domain, id)
    /\ DeletePublisherIntents({q \in pubByDomain : q.domain = domain /\ q.id = id})
    /\ UNCHANGED <<publishers, subscribers, subscriptions>>

RemovePublisher(signer, domain) ==
    /\ SignedBy(signer, domain)
    /\ DeletePublisher(domain)
    /\ UNCHANGED subscribers

-----------------------------------------------------------------------------
(* Messages of subscribers, signed by the subscriber *)

\* A subscriber that exists is overwritten.
AddSubscriber(signer, pushUrl) ==
    /\ subscribers' = Put(subscribers, signer, pushUrl)
    /\ UNCHANGED <<publishers, pubIndexes, subIndexes, subscriptions>>

\* isValidator: the staking module knows a validator for the signer, directly
\* or as its orchestrator.
Permits(kind, signer, isValidator) ==
    /\ kind.allowed = "VALIDATORS" => isValidator
    /\ kind.allowed = "LIST" => signer \in kind.list

\* Mutant: a subscriber may have several publishers for one subscription.
NeverSubscribed(signer, id) == FALSE
HasSubscriberIntent(signer, id) == \E t \in subByAddress : t.addr = signer /\ t.id = id

AddSubscriberIntent(signer, domain, id, isValidator) ==
    /\ signer \in DOMAIN subscribers
    /\ ~ HasSubscriberIntent(signer, id)
    /\ \E q \in pubByDomain :
          /\ q.domain = domain /\ q.id = id
          /\ q.kind.push => subscribers[signer]
          /\ Permits(q.kind, signer, isValidator)
    /\ SetSubscriberIntent([domain |-> domain, id |-> id, addr |-> signer])
    /\ UNCHANGED <<publishers, subscribers, pubIndexes, subscriptions>>

RemoveSubscriberIntent(signer, id) ==
    /\ signer \in DOMAIN subscribers
    /\ HasSubscriberIntent(signer, id)
    /\ DeleteSubscriberIntents({t \in subByAddress : t.addr = signer /\ t.id = id})
    /\ UNCHANGED <<publishers, subscribers, pubIndexes, subscriptions>>

RemoveSubscriber(signer) ==
    /\ signer \in DOMAIN subscribers
    /\ subscribers' = Restrict(subscribers, DOMAIN subscribers \ {signer})
    /\ DeleteSubscriberIntents({t \in subByAddress : t.addr = signer})
    /\ UNCHANGED <<publishers, pubIndexes, subscriptions>>

-----------------------------------------------------------------------------
(* Proposals *)

HandleAddPublisherProposal(domain, address) ==
    /\ domain \notin DOMAIN publishers
    /\ publishers' = Put(publishers, domain, address)
    /\ UNCHANGED <<subscribers, pubIndexes, subIndexes, subscriptions>>

HandleRemovePublisherProposal(domain) ==
    /\ domain \in DOMAIN publishers
    /\ DeletePublisher(domain)
    /\ UNCHANGED subscribers

HandleAddDefaultSubscriptionProposal(id, domain) ==
    /\ subscriptions' = Put(subscriptions, id, domain)
    /\ UNCHANGED <<publishers, subscribers, pubIndexes, subIndexes>>

HandleRemoveDefaultSubscriptionProposal(id) ==
    /\ id \in DOMAIN subscriptions
    /\ subscriptions' = Restrict(subscriptions, DOMAIN subscriptions \ {id})
    /\ UNCHANGED <<publishers, subscribers, pubIndexes, subIndexes>>

\* ExportGenesis reads one index of each kind, InitGenesis fills them all.
ExportAndImport ==
    /\ pubByID' = pubByDomain
    /\ subByID' = subByAddress
    /\ subByDomain' = subByAddress
    /\ UNCHANGED <<publishers, subscribers, pubByDomain, subByAddress, subscriptions>>

-----------------------------------------------------------------------------
Init ==
    /\ publishers = [d \in {} |-> 0] /\ subscribers = [a \in {} |-> FALSE]
    /\ pubByDomain = {} /\ pubByID = {}
    /\ subByAddress = {} /\ subByID = {} /\ subByDomain = {}
    /\ subscriptions = [id \in {} |-> 0]

PublisherMessage ==
    \E s \in Addresses, d \in Domains :
        \/ \E id \in SubscriptionIDs :
              \/ \E kind \in IntentKinds : AddPublisherIntent(s, d, id, kind)
              \/ RemovePublisherIntent(s, d, id)
        \/ RemovePublisher(s, d)

SubscriberMessage ==
    \E s \in Addresses :
        \/ \E url \in BOOLEAN : AddSubscriber(s, url)
        \/ \E id \in SubscriptionIDs :
              \/ \E d \in Domains, v \in BOOLEAN : AddSubscriberIntent(s, d, id, v)
              \/ RemoveSubscriberIntent(s, id)
        \/ RemoveSubscriber(s)

Proposal ==
    \/ \E d \in Domains :
          \/ \E a \in Addresses : HandleAddPublisherProposal(d, a)
          \/ HandleRemovePublisherProposal(d)
          \/ \E id \in SubscriptionIDs : HandleAddDefaultSubscriptionProposal(id, d)
    \/ \E id \in SubscriptionIDs : HandleRemoveDefaultSubscriptionProposal(id)

Next == PublisherMessage \/ SubscriberMessage \/ Proposal \/ ExportAndImport

Spec == Init /\ [][Next]_vars

-----------------------------------------------------------------------------
(* Properties *)

\* Every index holds valid intents, and the default subscriptions that are left
\* when a publisher is deleted still name a domain each.
TypeOK ==
    /\ DOMAIN publishers \subseteq Domains
    /\ \A d \in DOMAIN publishers : publishers[d] \in Addresses
    /\ DOMAIN subscribers \subseteq Addresses
    /\ \A a \in DOMAIN subscribers : subscribers[a] \in BOOLEAN
    /\ pubByDomain \subseteq PublisherIntent /\ pubByID \subseteq PublisherIntent
    /\ subByAddress \subseteq SubscriberIntent /\ subByID \subseteq SubscriberIntent
    /\ subByDomain \subseteq SubscriberIntent
    /\ DOMAIN subscriptions \subseteq SubscriptionIDs
    /\ \A id \in DOMAIN subscriptions : subscriptions[id] \in Domains

\* Every query sees the same intents, whichever index it reads, although the
\* domain index has a longer key than the other two; so a genesis exported
\* from one index and imported into all loses and invents nothing.
IndexesAgree ==
    /\ pubByDomain = pubByID
    /\ subByAddress = subByID /\ subByAddress = subByDomain

\* "a given subscriber can only subscribe to one publisher per subscription_id
\* at a time" (pubsub.proto:78), in the index by publisher too.
OnePublisherPerSubscription ==
    \A s, t \in subByDomain : s.addr = t.addr /\ s.id = t.id => s = t

\* No intent outlives what it refers to, however messages and proposals are
\* mixed: a publisher intent has its publisher, a subscriber intent its
\* subscriber and the publisher intent it subscribes to.
NoOrphans ==
    /\ \A q \in pubByDomain : q.domain \in DOMAIN publishers
    /\ \A t \in subByAddress :
          t.addr \in DOMAIN subscribers /\ HasPublisherIntent(t.domain, t.id)

\* Whoever is subscribed to an intent with a list is on the list: the intent
\* cannot be replaced under its subscribers.
ListsRespected ==
    \A t \in subByAddress, q \in pubByDomain :
        q.domain = t.domain /\ q.id = t.id /\ q.kind.allowed = "LIST" =>
            t.addr \in q.kind.list

\* The module does to publishers and default subscriptions only what the
\* interface x/cork relies on allows.
Interface == INSTANCE DefaultSubscriptions WITH approved <- DOMAIN publishers
ImplementsInterface == Interface!Spec
=============================================================================
