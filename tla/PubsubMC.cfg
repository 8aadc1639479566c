SPECIFICATION Spec
CONSTANTS
  alice = alice
  Addresses = {alice, bob}
  Domains = {d1, d2}
  SubscriptionIDs = {s1, s2}
  IntentKinds <- MCKinds
INVARIANTS
  TypeOK
  IndexesAgree
  OnePublisherPerSubscription
  NoOrphans
  ListsRespected
PROPERTIES
  ImplementsInterface
