-------------------------- MODULE PubsubMessages --------------------------
(* The messages of x/pubsub: for each the fields its Unmarshal knows. *)
EXTENDS ProtoFields, SdkMessages

DefaultSubscription ==
    [subscription_id |-> Text(1), publisher_domain |-> Text(2)]

Params == NoFields

Publisher == [address |-> Text(1), domain |-> Text(2), ca_cert |-> Text(3)]

PublisherIntent ==
    [subscription_id |-> Text(1), publisher_domain |-> Text(2),
     method |-> Enum(3), pull_url |-> Text(4),
     allowed_subscribers |-> Enum(5), allowed_addresses |-> Texts(6)]

Subscriber == [address |-> Text(1), ca_cert |-> Text(2), push_url |-> Text(3)]

SubscriberIntent ==
    [subscription_id |-> Text(1), subscriber_address |-> Text(2),
     publisher_domain |-> Text(3)]

GenesisState ==
    [params |-> Value(1, Params), publishers |-> Messages(2, Publisher),
     subscribers |-> Messages(3, Subscriber),
     publisher_intents |-> Messages(4, PublisherIntent),
     subscriber_intents |-> Messages(5, SubscriberIntent),
     default_subscriptions |-> Messages(6, DefaultSubscription)]

AddPublisherProposal ==
    [title |-> Text(1), description |-> Text(2), domain |-> Text(3),
     address |-> Text(4), proof_url |-> Text(5), ca_cert |-> Text(6)]

AddPublisherProposalWithDeposit ==
    [title |-> Text(1), description |-> Text(2), domain |-> Text(3),
     address |-> Text(4), proof_url |-> Text(5), ca_cert |-> Text(6),
     deposit |-> Text(7)]

RemovePublisherProposal ==
    [title |-> Text(1), description |-> Text(2), domain |-> Text(3)]

RemovePublisherProposalWithDeposit ==
    [title |-> Text(1), description |-> Text(2), domain |-> Text(3),
     deposit |-> Text(4)]

AddDefaultSubscriptionProposal ==
    [title |-> Text(1), description |-> Text(2), subscription_id |-> Text(3),
     publisher_domain |-> Text(4)]

AddDefaultSubscriptionProposalWithDeposit ==
    [title |-> Text(1), description |-> Text(2), subscription_id |-> Text(3),
     publisher_domain |-> Text(4), deposit |-> Text(5)]

RemoveDefaultSubscriptionProposal ==
    [title |-> Text(1), description |-> Text(2), subscription_id |-> Text(3)]

RemoveDefaultSubscriptionProposalWithDeposit ==
    [title |-> Text(1), description |-> Text(2), subscription_id |-> Text(3),
     deposit |-> Text(4)]

QueryParamsRequest == NoFields

QueryParamsResponse == [params |-> Value(1, Params)]

QueryPublisherRequest == [publisher_domain |-> Text(1)]

QueryPublisherResponse == [publisher |-> Pointer(1, Publisher)]

QueryPublishersRequest == NoFields

QueryPublishersResponse == [publishers |-> Messages(1, Publisher)]

QuerySubscriberRequest == [subscriber_address |-> Text(1)]

QuerySubscriberResponse == [subscriber |-> Pointer(1, Subscriber)]

QuerySubscribersRequest == NoFields

QuerySubscribersResponse == [subscribers |-> Messages(1, Subscriber)]

QueryPublisherIntentRequest ==
    [publisher_domain |-> Text(1), subscription_id |-> Text(2)]

QueryPublisherIntentResponse ==
    [publisher_intent |-> Pointer(1, PublisherIntent)]

QueryPublisherIntentsRequest == NoFields

QueryPublisherIntentsResponse ==
    [publisher_intents |-> Messages(1, PublisherIntent)]

QueryPublisherIntentsByPublisherDomainRequest == [publisher_domain |-> Text(1)]

QueryPublisherIntentsByPublisherDomainResponse ==
    [publisher_intents |-> Messages(1, PublisherIntent)]

QueryPublisherIntentsBySubscriptionIDRequest == [subscription_id |-> Text(1)]

QueryPublisherIntentsBySubscriptionIDResponse ==
    [publisher_intents |-> Messages(1, PublisherIntent)]

QuerySubscriberIntentRequest ==
    [subscriber_address |-> Text(1), subscription_id |-> Text(2)]

QuerySubscriberIntentResponse ==
    [subscriber_intent |-> Pointer(1, SubscriberIntent)]

QuerySubscriberIntentsRequest == NoFields

QuerySubscriberIntentsResponse ==
    [subscriber_intents |-> Messages(1, SubscriberIntent)]

QuerySubscriberIntentsBySubscriberAddressRequest ==
    [subscriber_address |-> Text(1)]

QuerySubscriberIntentsBySubscriberAddressResponse ==
    [subscriber_intents |-> Messages(1, SubscriberIntent)]

QuerySubscriberIntentsBySubscriptionIDRequest == [subscription_id |-> Text(1)]

QuerySubscriberIntentsBySubscriptionIDResponse ==
    [subscriber_intents |-> Messages(1, SubscriberIntent)]

QuerySubscriberIntentsByPublisherDomainRequest ==
    [publisher_domain |-> Text(1)]

QuerySubscriberIntentsByPublisherDomainResponse ==
    [subscriber_intents |-> Messages(1, SubscriberIntent)]

QueryDefaultSubscriptionRequest == [subscription_id |-> Text(1)]

QueryDefaultSubscriptionResponse ==
    [default_subscription |-> Pointer(1, DefaultSubscription)]

QueryDefaultSubscriptionsRequest == NoFields

QueryDefaultSubscriptionsResponse ==
    [default_subscriptions |-> Messages(1, DefaultSubscription)]

MsgRemovePublisherRequest == [publisher_domain |-> Text(1), signer |-> Text(2)]

MsgRemovePublisherResponse == NoFields

MsgAddSubscriberRequest ==
    [subscriber |-> Pointer(1, Subscriber), signer |-> Text(2)]

MsgAddSubscriberResponse == NoFields

MsgRemoveSubscriberRequest ==
    [subscriber_address |-> Text(1), signer |-> Text(2)]

MsgRemoveSubscriberResponse == NoFields

MsgAddPublisherIntentRequest ==
    [publisher_intent |-> Pointer(1, PublisherIntent), signer |-> Text(2)]

MsgAddPublisherIntentResponse == NoFields

MsgRemovePublisherIntentRequest ==
    [subscription_id |-> Text(1), publisher_domain |-> Text(2),
     signer |-> Text(3)]

MsgRemovePublisherIntentResponse == NoFields

MsgAddSubscriberIntentRequest ==
    [subscriber_intent |-> Pointer(1, SubscriberIntent), signer |-> Text(2)]

MsgAddSubscriberIntentResponse == NoFields

MsgRemoveSubscriberIntentRequest ==
    [subscription_id |-> Text(1), subscriber_address |-> Text(2),
     signer |-> Text(3)]

MsgRemoveSubscriberIntentResponse == NoFields

\* All messages, in the order of their definitions.
All ==
    <<DefaultSubscription, Params, Publisher, PublisherIntent, Subscriber,
      SubscriberIntent, GenesisState, AddPublisherProposal,
      AddPublisherProposalWithDeposit, RemovePublisherProposal,
      RemovePublisherProposalWithDeposit, AddDefaultSubscriptionProposal,
      AddDefaultSubscriptionProposalWithDeposit,
      RemoveDefaultSubscriptionProposal,
      RemoveDefaultSubscriptionProposalWithDeposit, QueryParamsRequest,
      QueryParamsResponse, QueryPublisherRequest, QueryPublisherResponse,
      QueryPublishersRequest, QueryPublishersResponse,
      QuerySubscriberRequest, QuerySubscriberResponse,
      QuerySubscribersRequest, QuerySubscribersResponse,
      QueryPublisherIntentRequest, QueryPublisherIntentResponse,
      QueryPublisherIntentsRequest, QueryPublisherIntentsResponse,
      QueryPublisherIntentsByPublisherDomainRequest,
      QueryPublisherIntentsByPublisherDomainResponse,
      QueryPublisherIntentsBySubscriptionIDRequest,
      QueryPublisherIntentsBySubscriptionIDResponse,
      QuerySubscriberIntentRequest, QuerySubscriberIntentResponse,
      QuerySubscriberIntentsRequest, QuerySubscriberIntentsResponse,
      QuerySubscriberIntentsBySubscriberAddressRequest,
      QuerySubscriberIntentsBySubscriberAddressResponse,
      QuerySubscriberIntentsBySubscriptionIDRequest,
      QuerySubscriberIntentsBySubscriptionIDResponse,
      QuerySubscriberIntentsByPublisherDomainRequest,
      QuerySubscriberIntentsByPublisherDomainResponse,
      QueryDefaultSubscriptionRequest, QueryDefaultSubscriptionResponse,
      QueryDefaultSubscriptionsRequest, QueryDefaultSubscriptionsResponse,
      MsgRemovePublisherRequest, MsgRemovePublisherResponse,
      MsgAddSubscriberRequest, MsgAddSubscriberResponse,
      MsgRemoveSubscriberRequest, MsgRemoveSubscriberResponse,
      MsgAddPublisherIntentRequest, MsgAddPublisherIntentResponse,
      MsgRemovePublisherIntentRequest, MsgRemovePublisherIntentResponse,
      MsgAddSubscriberIntentRequest, MsgAddSubscriberIntentResponse,
      MsgRemoveSubscriberIntentRequest, MsgRemoveSubscriberIntentResponse>>
=============================================================================
