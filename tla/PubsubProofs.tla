---------------------------- MODULE PubsubProofs ----------------------------
(* The invariants of x/pubsub, and that it implements DefaultSubscriptions. *)
EXTENDS Pubsub, TLAPS

\* A publisher has one intent for a subscription: both are its key.
OneIntentPerKey ==
    \A q, r \in pubByDomain : q.domain = r.domain /\ q.id = r.id => q = r

\* The inductive invariant.  The cascades find the subscriber intents to
\* delete in one index and delete them from all three, so the integrity of
\* references, the agreement of the indexes and the uniqueness of the short
\* key hold only together.
IInv ==
    /\ TypeOK
    /\ IndexesAgree
    /\ OnePublisherPerSubscription
    /\ NoOrphans
    /\ ListsRespected
    /\ OneIntentPerKey

\* Deleting some of the stored subscriber intents deletes them, and no others,
\* from all three indexes.
LEMMA DeleteSubscribers ==
    ASSUME IInv, NEW gone \in SUBSET subByAddress, DeleteSubscriberIntents(gone)
    PROVE  /\ subByAddress' = subByAddress \ gone
           /\ subByID' = subByAddress \ gone
           /\ subByDomain' = subByAddress \ gone
<1>1. subByAddress = subByID /\ subByAddress = subByDomain
  BY DEF IInv, IndexesAgree
<1>2. subByDomain' = subByAddress \ gone
  BY <1>1 DEF DeleteSubscriberIntents
<1>3. \A t \in subByAddress :
          t \notin gone <=> \A g \in gone : t.addr # g.addr \/ t.id # g.id
  BY <1>1 DEF IInv, OnePublisherPerSubscription
<1> QED
  BY <1>1, <1>2, <1>3 DEF DeleteSubscriberIntents

\* Deleting stored publisher intents deletes them from both indexes, and the
\* subscriber intents for them from all three.
LEMMA DeletePublishersIntents ==
    ASSUME IInv, NEW gone \in SUBSET pubByDomain, DeletePublisherIntents(gone),
           \A q \in pubByDomain, g \in gone : q.domain = g.domain /\ q.id = g.id => q \in gone
    PROVE  /\ pubByDomain' = pubByDomain \ gone
           /\ pubByID' = pubByDomain \ gone
           /\ subByAddress' = {t \in subByAddress :
                 ~ \E g \in gone : t.domain = g.domain /\ t.id = g.id}
           /\ subByID' = subByAddress' /\ subByDomain' = subByAddress'
<1> DEFINE orphans == {t \in subByDomain : \E g \in gone : t.domain = g.domain /\ t.id = g.id}
<1>1. subByAddress = subByDomain /\ pubByDomain = pubByID
  BY DEF IInv, IndexesAgree
<1>2. orphans \in SUBSET subByAddress
  BY <1>1
<1>3. DeleteSubscriberIntents(orphans)
  BY DEF DeletePublisherIntents
<1>4. /\ subByAddress' = subByAddress \ orphans
      /\ subByID' = subByAddress \ orphans
      /\ subByDomain' = subByAddress \ orphans
  BY <1>2, <1>3, DeleteSubscribers
<1>5. pubByDomain' = pubByDomain \ gone /\ pubByID' = pubByDomain \ gone
  BY <1>1 DEF DeletePublisherIntents
<1> QED
  BY <1>1, <1>4, <1>5

\* The initial state satisfies the invariant: all stores are empty.
LEMMA InitIInv == Init => IInv
  BY DEF Init, IInv, TypeOK, IndexesAgree, OnePublisherPerSubscription,
     NoOrphans, ListsRespected, OneIntentPerKey

\* Removing a publisher, by message or by proposal, removes its intents, the
\* subscriber intents for them and the default subscriptions to it.
LEMMA DeletePublisherIInv ==
    ASSUME IInv, NEW domain \in Domains, DeletePublisher(domain),
           UNCHANGED subscribers
    PROVE  IInv'
<1> DEFINE gone == {q \in pubByDomain : q.domain = domain}
<1>1. DeletePublisherIntents(gone)
  BY DEF DeletePublisher
<1>2. /\ pubByDomain' = pubByDomain \ gone
      /\ pubByID' = pubByDomain \ gone
      /\ subByAddress' = {t \in subByAddress :
            ~ \E g \in gone : t.domain = g.domain /\ t.id = g.id}
      /\ subByID' = subByAddress' /\ subByDomain' = subByAddress'
  BY <1>1, DeletePublishersIntents
<1>3. /\ DOMAIN publishers' = DOMAIN publishers \ {domain}
      /\ \A d \in DOMAIN publishers' : publishers'[d] = publishers[d]
      /\ DOMAIN subscriptions' \subseteq DOMAIN subscriptions
      /\ \A id \in DOMAIN subscriptions' : subscriptions'[id] = subscriptions[id]
  BY DEF DeletePublisher, SubscriptionsWithout, Restrict, IInv, TypeOK
<1>4. TypeOK'
  BY <1>2, <1>3 DEF IInv, TypeOK
<1>5. IndexesAgree' /\ OnePublisherPerSubscription' /\ OneIntentPerKey'
  BY <1>2 DEF IInv, IndexesAgree, OnePublisherPerSubscription, OneIntentPerKey
<1>6. NoOrphans'
  BY <1>2, <1>3 DEF IInv, NoOrphans, HasPublisherIntent
<1>7. ListsRespected'
  BY <1>2 DEF IInv, ListsRespected
<1> QED
  BY <1>4, <1>5, <1>6, <1>7 DEF IInv

\* The messages of publishers preserve the invariant.
LEMMA PublisherMessageIInv == IInv /\ PublisherMessage => IInv'
<1> SUFFICES ASSUME IInv, PublisherMessage PROVE IInv'
  OBVIOUS
<1> PICK s \in Addresses, d \in Domains :
        \/ \E id \in SubscriptionIDs :
              \/ \E kind \in IntentKinds : AddPublisherIntent(s, d, id, kind)
              \/ RemovePublisherIntent(s, d, id)
        \/ RemovePublisher(s, d)
  BY DEF PublisherMessage
<1>1. ASSUME NEW id \in SubscriptionIDs, NEW kind \in IntentKinds,
             AddPublisherIntent(s, d, id, kind)
      PROVE  IInv'
  <2> DEFINE pi == [domain |-> d, id |-> id, kind |-> kind]
  <2>1. /\ UNCHANGED <<publishers, subscribers, subByAddress, subByID,
                       subByDomain, subscriptions>>
        /\ d \in DOMAIN publishers
        /\ \A q \in pubByDomain : q.domain # d \/ q.id # id
    BY <1>1 DEF AddPublisherIntent, subIndexes, SignedBy, HasPublisherIntent
  <2>2. pubByDomain' = pubByDomain \cup {pi} /\ pubByID' = pubByDomain \cup {pi}
    BY <1>1, <2>1 DEF AddPublisherIntent, SetPublisherIntent, IInv, IndexesAgree
  <2>3. pi \in PublisherIntent
    BY DEF PublisherIntent
  <2>4. TypeOK'
    BY <2>1, <2>2, <2>3 DEF IInv, TypeOK
  <2>5. IndexesAgree' /\ OnePublisherPerSubscription' /\ OneIntentPerKey'
    <3>1. IndexesAgree' /\ OnePublisherPerSubscription'
      BY <2>1, <2>2 DEF IInv, IndexesAgree, OnePublisherPerSubscription
    <3>2. ASSUME NEW q \in pubByDomain', NEW r \in pubByDomain',
                 q.domain = r.domain, q.id = r.id
          PROVE  q = r
      BY <2>1, <2>2, <3>2 DEF IInv, OneIntentPerKey
    <3>3. OneIntentPerKey'
      BY <3>2 DEF OneIntentPerKey
    <3> QED
      BY <3>1, <3>3
  <2>6. NoOrphans'
    BY <2>1, <2>2 DEF IInv, NoOrphans, HasPublisherIntent
  <2>7. ListsRespected'
    BY <2>1, <2>2 DEF IInv, ListsRespected, NoOrphans, HasPublisherIntent
  <2> QED
    BY <2>4, <2>5, <2>6, <2>7 DEF IInv
<1>2. ASSUME NEW id \in SubscriptionIDs, RemovePublisherIntent(s, d, id)
      PROVE  IInv'
  <2> DEFINE gone == {q \in pubByDomain : q.domain = d /\ q.id = id}
  <2>1. UNCHANGED <<publishers, subscribers, subscriptions>>
    BY <1>2 DEF RemovePublisherIntent
  <2>2. /\ pubByDomain' = pubByDomain \ gone
        /\ pubByID' = pubByDomain \ gone
        /\ subByAddress' = {t \in subByAddress :
              ~ \E g \in gone : t.domain = g.domain /\ t.id = g.id}
        /\ subByID' = subByAddress' /\ subByDomain' = subByAddress'
    BY <1>2, DeletePublishersIntents DEF RemovePublisherIntent
  <2>3. TypeOK'
    BY <2>1, <2>2 DEF IInv, TypeOK
  <2>4. IndexesAgree' /\ OnePublisherPerSubscription' /\ OneIntentPerKey'
    BY <2>2 DEF IInv, IndexesAgree, OnePublisherPerSubscription, OneIntentPerKey
  <2>5. NoOrphans'
    BY <2>1, <2>2 DEF IInv, NoOrphans, HasPublisherIntent
  <2>6. ListsRespected'
    BY <2>2 DEF IInv, ListsRespected
  <2> QED
    BY <2>3, <2>4, <2>5, <2>6 DEF IInv
<1>3. ASSUME RemovePublisher(s, d) PROVE IInv'
  BY <1>3, DeletePublisherIInv DEF RemovePublisher
<1> QED
  BY <1>1, <1>2, <1>3

\* Deleting stored subscriber intents and nothing else they refer to.
LEMMA FewerSubscribersIInv ==
    ASSUME IInv, NEW gone \in SUBSET subByAddress, DeleteSubscriberIntents(gone),
           UNCHANGED <<publishers, pubByDomain, pubByID, subscriptions>>,
           DOMAIN subscribers' \subseteq DOMAIN subscribers,
           \A a \in DOMAIN subscribers' : subscribers'[a] = subscribers[a],
           \A t \in subByAddress \ gone : t.addr \in DOMAIN subscribers'
    PROVE  IInv'
<1>1. /\ subByAddress' = subByAddress \ gone
      /\ subByID' = subByAddress \ gone
      /\ subByDomain' = subByAddress \ gone
  BY DeleteSubscribers
<1>2. TypeOK'
  BY <1>1 DEF IInv, TypeOK
<1>3. IndexesAgree' /\ OnePublisherPerSubscription' /\ OneIntentPerKey'
  BY <1>1 DEF IInv, IndexesAgree, OnePublisherPerSubscription, OneIntentPerKey
<1>4. NoOrphans' /\ ListsRespected'
  BY <1>1 DEF IInv, NoOrphans, ListsRespected, OneIntentPerKey, HasPublisherIntent
<1> QED
  BY <1>2, <1>3, <1>4 DEF IInv

\* The messages of subscribers preserve the invariant.
LEMMA SubscriberMessageIInv == IInv /\ SubscriberMessage => IInv'
<1> SUFFICES ASSUME IInv, SubscriberMessage PROVE IInv'
  OBVIOUS
<1> PICK s \in Addresses :
        \/ \E url \in BOOLEAN : AddSubscriber(s, url)
        \/ \E id \in SubscriptionIDs :
              \/ \E d \in Domains, v \in BOOLEAN : AddSubscriberIntent(s, d, id, v)
              \/ RemoveSubscriberIntent(s, id)
        \/ RemoveSubscriber(s)
  BY DEF SubscriberMessage
<1>1. ASSUME NEW url \in BOOLEAN, AddSubscriber(s, url) PROVE IInv'
  <2>1. /\ UNCHANGED <<publishers, pubByDomain, pubByID, subByAddress, subByID,
                       subByDomain, subscriptions>>
        /\ DOMAIN subscribers' = DOMAIN subscribers \cup {s}
        /\ subscribers'[s] = url
        /\ \A a \in DOMAIN subscribers' : a # s => subscribers'[a] = subscribers[a]
    BY <1>1 DEF AddSubscriber, Put, pubIndexes, subIndexes
  <2>2. TypeOK'
    BY <2>1 DEF IInv, TypeOK
  <2> QED
    BY <2>1, <2>2 DEF IInv, IndexesAgree, OnePublisherPerSubscription,
       NoOrphans, ListsRespected, OneIntentPerKey, HasPublisherIntent
<1>2. ASSUME NEW id \in SubscriptionIDs, NEW d \in Domains, NEW v \in BOOLEAN,
             AddSubscriberIntent(s, d, id, v)
      PROVE  IInv'
  <2> DEFINE si == [domain |-> d, id |-> id, addr |-> s]
  <2>1. /\ UNCHANGED <<publishers, subscribers, pubByDomain, pubByID, subscriptions>>
        /\ s \in DOMAIN subscribers
        /\ \A t \in subByAddress : t.addr # s \/ t.id # id
    BY <1>2 DEF AddSubscriberIntent, pubIndexes, HasSubscriberIntent
  <2>2. /\ subByAddress' = subByAddress \cup {si}
        /\ subByID' = subByAddress \cup {si}
        /\ subByDomain' = subByAddress \cup {si}
    BY <1>2, <2>1 DEF AddSubscriberIntent, SetSubscriberIntent, IInv, IndexesAgree
  <2>3. PICK q \in pubByDomain :
            /\ q.domain = d /\ q.id = id
            /\ Permits(q.kind, s, v)
    BY <1>2 DEF AddSubscriberIntent
  <2>4. TypeOK'
    <3>1. si \in SubscriberIntent
      BY DEF SubscriberIntent
    <3> QED
      BY <2>1, <2>2, <3>1 DEF IInv, TypeOK
  <2>5. IndexesAgree' /\ OnePublisherPerSubscription' /\ OneIntentPerKey'
    BY <2>1, <2>2 DEF IInv, IndexesAgree, OnePublisherPerSubscription, OneIntentPerKey
  <2>6. NoOrphans'
    BY <2>1, <2>2, <2>3 DEF IInv, NoOrphans, HasPublisherIntent
  <2>7. ListsRespected'
    BY <2>1, <2>2, <2>3 DEF IInv, ListsRespected, OneIntentPerKey, Permits
  <2> QED
    BY <2>4, <2>5, <2>6, <2>7 DEF IInv
<1>3. ASSUME NEW id \in SubscriptionIDs, RemoveSubscriberIntent(s, id) PROVE IInv'
  <2> DEFINE gone == {t \in subByAddress : t.addr = s /\ t.id = id}
  <2>1. /\ DeleteSubscriberIntents(gone)
        /\ UNCHANGED <<publishers, subscribers, pubByDomain, pubByID, subscriptions>>
    BY <1>3 DEF RemoveSubscriberIntent, pubIndexes
  <2>2. \A t \in subByAddress \ gone : t.addr \in DOMAIN subscribers'
    BY <2>1 DEF IInv, NoOrphans
  <2> QED
    BY <2>1, <2>2, FewerSubscribersIInv
<1>4. ASSUME RemoveSubscriber(s) PROVE IInv'
  <2> DEFINE gone == {t \in subByAddress : t.addr = s}
  <2>1. /\ DeleteSubscriberIntents(gone)
        /\ UNCHANGED <<publishers, pubByDomain, pubByID, subscriptions>>
        /\ DOMAIN subscribers' = DOMAIN subscribers \ {s}
        /\ \A a \in DOMAIN subscribers' : subscribers'[a] = subscribers[a]
    BY <1>4 DEF RemoveSubscriber, pubIndexes, Restrict
  <2>2. \A t \in subByAddress \ gone : t.addr \in DOMAIN subscribers'
    BY <2>1 DEF IInv, NoOrphans
  <2> QED
    BY <2>1, <2>2, FewerSubscribersIInv
<1> QED
  BY <1>1, <1>2, <1>3, <1>4

\* The proposals preserve the invariant.
LEMMA ProposalIInv == IInv /\ Proposal => IInv'
<1> SUFFICES ASSUME IInv, Proposal PROVE IInv'
  OBVIOUS
<1>1. ASSUME NEW d \in Domains, NEW a \in Addresses, HandleAddPublisherProposal(d, a)
      PROVE  IInv'
  <2>1. /\ UNCHANGED <<subscribers, pubByDomain, pubByID, subByAddress, subByID,
                       subByDomain, subscriptions>>
        /\ DOMAIN publishers' = DOMAIN publishers \cup {d}
        /\ publishers'[d] = a
        /\ \A e \in DOMAIN publishers' : e # d => publishers'[e] = publishers[e]
    BY <1>1 DEF HandleAddPublisherProposal, Put, pubIndexes, subIndexes
  <2>2. TypeOK'
    BY <2>1 DEF IInv, TypeOK
  <2> QED
    BY <2>1, <2>2 DEF IInv, IndexesAgree, OnePublisherPerSubscription,
       NoOrphans, ListsRespected, OneIntentPerKey, HasPublisherIntent
<1>2. ASSUME NEW d \in Domains, HandleRemovePublisherProposal(d) PROVE IInv'
  BY <1>2, DeletePublisherIInv DEF HandleRemovePublisherProposal
<1>3. ASSUME UNCHANGED <<publishers, subscribers, pubIndexes, subIndexes>>,
             DOMAIN subscriptions' \subseteq SubscriptionIDs,
             \A id \in DOMAIN subscriptions' : subscriptions'[id] \in Domains
      PROVE  IInv'
  <2>1. TypeOK'
    BY <1>3 DEF IInv, TypeOK, pubIndexes, subIndexes
  <2> QED
    BY <1>3, <2>1 DEF IInv, IndexesAgree, OnePublisherPerSubscription,
       NoOrphans, ListsRespected, OneIntentPerKey, HasPublisherIntent, pubIndexes, subIndexes
<1>4. ASSUME NEW d \in Domains, NEW id \in SubscriptionIDs,
             HandleAddDefaultSubscriptionProposal(id, d)
      PROVE  IInv'
  BY <1>3, <1>4 DEF HandleAddDefaultSubscriptionProposal, Put, IInv, TypeOK
<1>5. ASSUME NEW id \in SubscriptionIDs, HandleRemoveDefaultSubscriptionProposal(id)
      PROVE  IInv'
  BY <1>3, <1>5 DEF HandleRemoveDefaultSubscriptionProposal, Restrict, IInv, TypeOK
<1> QED
  BY <1>1, <1>2, <1>4, <1>5 DEF Proposal

\* Every step preserves the invariant; exporting and importing a genesis
\* changes nothing because the indexes agree.
LEMMA NextIInv == IInv /\ [Next]_vars => IInv'
<1> SUFFICES ASSUME IInv, [Next]_vars PROVE IInv'
  OBVIOUS
<1>1. CASE ExportAndImport
  BY <1>1 DEF ExportAndImport, IInv, TypeOK, IndexesAgree,
     OnePublisherPerSubscription, NoOrphans, ListsRespected, OneIntentPerKey, HasPublisherIntent
<1>2. CASE UNCHANGED vars
  BY <1>2 DEF vars, pubIndexes, subIndexes, IInv, TypeOK, IndexesAgree,
     OnePublisherPerSubscription, NoOrphans, ListsRespected, OneIntentPerKey, HasPublisherIntent
<1> QED
  BY <1>1, <1>2, PublisherMessageIInv, SubscriberMessageIInv, ProposalIInv DEF Next

\* The invariant holds in every reachable state.
THEOREM Invariance == Spec => []IInv
  BY InitIInv, NextIInv, PTL DEF Spec

\* Type correctness of x/pubsub.
THEOREM TypeCorrect == Spec => []TypeOK
<1>1. IInv => TypeOK
  BY DEF IInv
<1> QED
  BY <1>1, Invariance, PTL

\* The five intent indexes never come apart.
THEOREM IndexesAlwaysAgree == Spec => []IndexesAgree
<1>1. IInv => IndexesAgree
  BY DEF IInv
<1> QED
  BY <1>1, Invariance, PTL

\* A subscriber has one publisher per subscription.
THEOREM OnePublisher == Spec => []OnePublisherPerSubscription
<1>1. IInv => OnePublisherPerSubscription
  BY DEF IInv
<1> QED
  BY <1>1, Invariance, PTL

\* The cascading deletes leave no intent without what it refers to.
THEOREM ReferencesIntact == Spec => []NoOrphans
<1>1. IInv => NoOrphans
  BY DEF IInv
<1> QED
  BY <1>1, Invariance, PTL

\* Subscribers of an intent with a list are on the list.
THEOREM ListsAreRespected == Spec => []ListsRespected
<1>1. IInv => ListsRespected
  BY DEF IInv
<1> QED
  BY <1>1, Invariance, PTL

\* x/pubsub implements the interface that module Cork assumes of it.
THEOREM Refinement == Spec => ImplementsInterface
<1>1. Init => Interface!Init
  BY DEF Init, Interface!Init
<1>2. IInv /\ [Next]_vars => [Interface!Next]_<<DOMAIN publishers, subscriptions>>
  <2> SUFFICES ASSUME IInv, [Next]_vars, ~ UNCHANGED <<DOMAIN publishers, subscriptions>>
               PROVE  Interface!Next
    OBVIOUS
  <2>1. ASSUME NEW d \in Domains, d \in DOMAIN publishers, DeletePublisher(d)
        PROVE  Interface!RemovePublisher(d)
    BY <2>1 DEF DeletePublisher, SubscriptionsWithout, Restrict,
       Interface!RemovePublisher, Interface!Restrict
  <2>2. CASE PublisherMessage
    <3> PICK s \in Addresses, d \in Domains : RemovePublisher(s, d)
      BY <2>2 DEF PublisherMessage, AddPublisherIntent, RemovePublisherIntent
    <3> QED
      BY <2>1 DEF RemovePublisher, SignedBy, Interface!Next
  <2>3. CASE Proposal
    <3>1. ASSUME NEW d \in Domains, NEW a \in Addresses, HandleAddPublisherProposal(d, a)
          PROVE  Interface!AddPublisher(d)
      BY <3>1 DEF HandleAddPublisherProposal, Put, Interface!AddPublisher
    <3>2. ASSUME NEW d \in Domains, HandleRemovePublisherProposal(d)
          PROVE  Interface!RemovePublisher(d)
      BY <3>2, <2>1 DEF HandleRemovePublisherProposal
    <3>3. ASSUME NEW d \in Domains, NEW id \in SubscriptionIDs,
                 HandleAddDefaultSubscriptionProposal(id, d)
          PROVE  Interface!AddDefaultSubscription(id, d)
      BY <3>3 DEF HandleAddDefaultSubscriptionProposal, Put, Interface!AddDefaultSubscription
    <3>4. ASSUME NEW id \in SubscriptionIDs, HandleRemoveDefaultSubscriptionProposal(id)
          PROVE  Interface!RemoveDefaultSubscription(id)
      BY <3>4 DEF HandleRemoveDefaultSubscriptionProposal, Restrict,
         Interface!RemoveDefaultSubscription, Interface!Restrict
    <3> QED
      BY <2>3, <3>1, <3>2, <3>3, <3>4 DEF Proposal, Interface!Next
  <2>4. CASE SubscriberMessage
    BY <2>4 DEF SubscriberMessage, AddSubscriber, AddSubscriberIntent,
       RemoveSubscriberIntent, RemoveSubscriber
  <2>5. CASE ExportAndImport \/ UNCHANGED vars
    BY <2>5 DEF ExportAndImport, vars
  <2> QED
    BY <2>2, <2>3, <2>4, <2>5 DEF Next
<1> QED
  BY <1>1, <1>2, Invariance, PTL DEF Spec, ImplementsInterface, Interface!Spec
=============================================================================
