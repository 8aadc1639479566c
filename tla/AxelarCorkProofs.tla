-------------------------- MODULE AxelarCorkProofs --------------------------
(***************************************************************************)
(* Proofs about x/axelarcork and the community pool it shares with         *)
(* x/incentives, for any validators, chains, contracts, corks, stakes,     *)
(* parameters and bounds.                                                  *)
(***************************************************************************)
EXTENDS AxelarCork, FiniteSetTheorems, WellFoundedInduction, TLAPS

(* The inductive invariant, one part per store and the stores it is about. *)

\* Governance: the configurations, the cellars and what x/pubsub keeps.
GovOK ==
    /\ installed \in BOOLEAN /\ halted \in BOOLEAN /\ enabled \in BOOLEAN
    /\ height \in Nat \ {0} /\ executed \in Nat
    /\ DOMAIN configs \subseteq Chains
    /\ \A i \in DOMAIN configs : configs[i] \in ChainConfigs /\ configs[i].id = i
    /\ cellars \in [Chains -> SUBSET Cellars]
    /\ approved \subseteq Domains
    /\ DOMAIN subscriptions \subseteq Chains \X Cellars
    /\ \A s \in DOMAIN subscriptions : subscriptions[s] \in Domains

\* Finitely many votes, one per key.
VotesOK ==
    /\ scheduled \subseteq VoteRec
    /\ IsFiniteSet(scheduled)
    /\ \A s, r \in scheduled :
          /\ s.chain = r.chain /\ s.height = r.height /\ s.val = r.val
          /\ SameID(s.cork, r.cork)
          => s = r

\* r is the result that says why w, a winning cork, has won.
ResultOf(r, w) ==
    /\ r.chain = w.chain /\ r.height = w.height
    /\ r.cork.target = w.cork.target /\ r.cork.call = w.cork.call
    /\ r.cork.deadline = w.cork.deadline => r.approved

\* Winning corks are of past blocks, and each has a result.
WinningOK ==
    /\ winning \subseteq WinningRec
    /\ results \subseteq ResultRec
    /\ \A w, x \in winning :
          /\ w.chain = x.chain /\ w.height = x.height
          /\ w.cork.target = x.cork.target
          => w = x
    /\ \A w \in winning : w.height < height /\ \E r \in results : ResultOf(r, w)

\* A body of a packet by its kind: a call is that of a winning cork of an
\* earlier block, an upgrade has waited, a spend is the distribution account's.
BodyOK(p) ==
    /\ p.body.kind = "call" =>
         /\ p.body.of \in WinningRec /\ p.body.of.height < p.height
         /\ p.body.target = p.body.of.cork.target
         /\ p.body.call = p.body.of.cork.call
         /\ p.body.deadline = p.body.of.cork.deadline
    /\ p.body.kind = "upgrade" =>
         p.body.passed \in Nat /\ p.height >= p.body.passed + HeightThreshold
    /\ p.body.kind = "spend" <=> p.sender = "distribution"

\* The sequence numbers of the packets tell them apart.
PacketsOK ==
    /\ IsFiniteSet(packets)
    /\ \A p \in packets :
          /\ p.seq \in 1..Cardinality(packets)
          /\ p.height \in Nat /\ p.height <= height
          /\ BodyOK(p)
    /\ \A p, q \in packets : p.seq = q.seq => p = q
    /\ refunded \subseteq {p.seq : p \in packets}

NoncesOK ==
    /\ nonces \in [Chains \X Cellars -> Nat]
    /\ NoncesAreConsecutive

\* A stored upgrade has not left yet, and waits for the blocks in which it may
\* be cancelled.
UpgradesOK ==
    /\ DOMAIN upgrades \subseteq Chains
    /\ \A i \in DOMAIN upgrades :
          /\ upgrades[i] \in UpgradeRec
          /\ upgrades[i].threshold = upgrades[i].passed + HeightThreshold
          /\ \A p \in UpgradeCalls :
                p.body.chain = i => p.body.passed # upgrades[i].passed
    /\ UpgradesWaitAndLeaveOnce

\* The balances are not negative and add up.
PoolOK ==
    /\ incentives \in IncentivesParams
    /\ pool \in Nat /\ outstanding \in Nat /\ held \in Nat /\ collected \in Nat
    /\ pool + outstanding + Fraction * Cardinality(Stranded) = Fraction * held

IInv ==
    /\ GovOK /\ VotesOK /\ WinningOK /\ PacketsOK /\ NoncesOK /\ UpgradesOK
    /\ PoolOK /\ RelayedAtMostOnce /\ RelayedWasApproved

-----------------------------------------------------------------------------
(* The parts of the invariant that a step leaves alone *)

\* The votes stay as they are while their store does.
LEMMA VotesKept == ASSUME VotesOK, UNCHANGED scheduled PROVE VotesOK'
BY DEF VotesOK, SameID

\* So do the winning corks and their results.
LEMMA WinningKept ==
    ASSUME WinningOK, UNCHANGED <<winning, results, height>> PROVE WinningOK'
BY DEF WinningOK, ResultOf

\* So do the packets.
LEMMA PacketsKept ==
    ASSUME PacketsOK, UNCHANGED <<packets, refunded, height>> PROVE PacketsOK'
BY DEF PacketsOK, BodyOK

\* So do the nonces and the packets that carry them.
LEMMA NoncesKept ==
    ASSUME NoncesOK, UNCHANGED <<nonces, packets>> PROVE NoncesOK'
BY DEF NoncesOK, NoncesAreConsecutive, CallsTo, Calls

\* So do the upgrades, stored and sent.
LEMMA UpgradesKept ==
    ASSUME UpgradesOK, UNCHANGED <<upgrades, packets>> PROVE UpgradesOK'
BY DEF UpgradesOK, UpgradesWaitAndLeaveOnce, UpgradeCalls

\* So do the community pool and the coins behind it.
LEMMA PoolKept ==
    ASSUME PoolOK, UNCHANGED <<poolVars, packets, refunded>> PROVE PoolOK'
BY DEF PoolOK, poolVars, Stranded

\* So does what is known of the calls that have been relayed.
LEMMA RelayedKept ==
    ASSUME RelayedAtMostOnce, RelayedWasApproved,
           UNCHANGED <<installed, winning, packets, results>>
    PROVE  RelayedAtMostOnce' /\ RelayedWasApproved'
BY DEF RelayedAtMostOnce, RelayedWasApproved, Calls

-----------------------------------------------------------------------------
(* Sets and numbers *)

\* Multiplication by the number of parts of a coin is monotone.
LEMMA Times ==
    ASSUME NEW F \in Nat \ {0}, NEW a \in Int, NEW b \in Int
    PROVE  /\ F * a \in Int /\ F * b \in Int
           /\ F * (a + b) = F * a + F * b /\ F * (a - b) = F * a - F * b
           /\ F * a >= F * b => a >= b
OBVIOUS

\* A nonempty set with numbers of a bounded range has one with the largest.
LEMMA LargestExists ==
    ASSUME NEW n \in Nat, NEW f, NEW T, T # {}, \A x \in T : f[x] \in 1..n
    PROVE  \E x \in T : \A y \in T : f[x] >= f[y]
<1> DEFINE G == {n - f[x] : x \in T}
           R == OpToRel(<, Nat)
<1>1. G \subseteq Nat /\ G # {}
  OBVIOUS
<1>2. \E g \in G : \A h \in G : ~ (<<h, g>> \in R)
  BY <1>1, NatLessThanWellFounded, WFMin
<1>3. PICK x \in T : \A h \in G : ~ (<<h, n - f[x]>> \in R)
  BY <1>2
<1>4. ASSUME NEW y \in T PROVE f[x] >= f[y]
  <2>1. n - f[y] \in G /\ n - f[y] \in Nat /\ n - f[x] \in Nat
    OBVIOUS
  <2>2. ~ (n - f[y] < n - f[x])
    BY <1>3, <2>1 DEF OpToRel
  <2> QED
    BY <2>1, <2>2
<1> QED
  BY <1>4

-----------------------------------------------------------------------------
(* Packets *)

\* A packet that is sent gets the next sequence number: it is none of the
\* packets sent before, and has not failed.
LEMMA Sent ==
    ASSUME PacketsOK, NEW sender, NEW receiver, NEW b, GovOK,
           Transfer(sender, receiver, b)
    PROVE  \E p :
             /\ packets' = packets \cup {p} /\ p \notin packets
             /\ p.height = height /\ p.sender = sender /\ p.body = b
             /\ p.seq \notin {q.seq : q \in packets} /\ p.seq \notin refunded
             /\ IsFiniteSet(packets')
             /\ p.seq \in 1..Cardinality(packets')
             /\ Cardinality(packets') = Cardinality(packets) + 1
             /\ Cardinality(packets) \in Nat
<1> DEFINE p == [seq |-> Cardinality(packets) + 1, height |-> height,
                 sender |-> sender, body |-> b]
<1>1. packets' = packets \cup {p}
  BY DEF Transfer
<1>2. Cardinality(packets) \in Nat
  BY FS_CardinalityType DEF PacketsOK
<1>3. p.seq \notin {q.seq : q \in packets} /\ p.seq = Cardinality(packets) + 1
  BY <1>2 DEF PacketsOK
<1>4. p \notin packets /\ p.seq \notin refunded
  BY <1>3 DEF PacketsOK
<1>5. IsFiniteSet(packets') /\ Cardinality(packets') = Cardinality(packets) + 1
  BY <1>1, <1>4, FS_AddElement DEF PacketsOK
<1>6. p.height = height /\ p.sender = sender /\ p.body = b
  OBVIOUS
<1> QED
  BY <1>1, <1>2, <1>3, <1>4, <1>5, <1>6

\* Sending leaves the packets in order if the new one is.
LEMMA SentPackets ==
    ASSUME PacketsOK, GovOK, NEW p,
           packets' = packets \cup {p}, p \notin packets,
           p.height = height, BodyOK(p),
           p.seq \notin {q.seq : q \in packets},
           IsFiniteSet(packets'), p.seq \in 1..Cardinality(packets'),
           Cardinality(packets') = Cardinality(packets) + 1,
           Cardinality(packets) \in Nat,
           UNCHANGED <<height, refunded>>
    PROVE  PacketsOK'
<1>1. ASSUME NEW q \in packets'
      PROVE  /\ q.seq \in 1..Cardinality(packets')
             /\ q.height \in Nat /\ q.height <= height'
             /\ BodyOK(q)
  <2>1. CASE q \in packets
    BY <2>1 DEF PacketsOK
  <2>2. CASE q = p
    BY <2>2 DEF GovOK
  <2> QED
    BY <2>1, <2>2
<1>2. \A q, r \in packets' : q.seq = r.seq => q = r
  BY DEF PacketsOK
<1>3. refunded' \subseteq {q.seq : q \in packets'}
  BY DEF PacketsOK
<1>4. \A q \in packets' : BodyOK(q)'
  BY <1>1 DEF BodyOK
<1> QED
  BY <1>1, <1>2, <1>3, <1>4 DEF PacketsOK

\* A packet that has not failed leaves what is stranded alone.
LEMMA SentStrandsNothing ==
    ASSUME NEW p, packets' = packets \cup {p}, p.seq \notin refunded,
           UNCHANGED refunded
    PROVE  Stranded' = Stranded
BY DEF Stranded

\* A packet that is no call leaves the calls alone, one that is no upgrade the
\* upgrades.
LEMMA SentCalls ==
    ASSUME NEW p, packets' = packets \cup {p}
    PROVE  /\ p.body.kind # "call" => Calls' = Calls
           /\ p.body.kind = "call" => Calls' = Calls \cup {p}
           /\ p.body.kind # "upgrade" => UpgradeCalls' = UpgradeCalls
           /\ p.body.kind = "upgrade" => UpgradeCalls' = UpgradeCalls \cup {p}
BY DEF Calls, UpgradeCalls

-----------------------------------------------------------------------------
(* The initial state *)

\* The initial state satisfies the invariant: nothing is stored or sent.
LEMMA InitIInv == Init => IInv
<1> SUFFICES ASSUME Init PROVE IInv
  OBVIOUS
<1>1. /\ scheduled = {} /\ winning = {} /\ results = {} /\ packets = {}
      /\ refunded = {} /\ height = 1 /\ DOMAIN upgrades = {}
      /\ nonces = [k \in Chains \X Cellars |-> 0]
  BY DEF Init
<1>2. Calls = {} /\ UpgradeCalls = {} /\ Stranded = {}
  BY <1>1 DEF Calls, UpgradeCalls, Stranded
<1>3. GovOK
  <2>1. ASSUME NEW i \in DOMAIN configs
        PROVE  i \in Chains /\ configs[i] \in ChainConfigs /\ configs[i].id = i
    <3>1. PICK c \in GenesisConfigs : c.id = i
      BY <2>1 DEF Init
    <3>2. configs[i] = CHOOSE d \in GenesisConfigs : d.id = i
      BY <2>1 DEF Init
    <3>3. configs[i] \in GenesisConfigs /\ configs[i].id = i
      BY <3>1, <3>2
    <3> QED
      BY <3>3, AxelarCorkAssumption
  <2>2. /\ DOMAIN subscriptions = {} /\ cellars \in [Chains -> SUBSET Cellars]
        /\ approved \subseteq Domains
    BY AxelarCorkAssumption DEF Init
  <2> QED
    <3>1. installed \in BOOLEAN /\ halted \in BOOLEAN /\ enabled \in BOOLEAN
      BY Zenon DEF Init
    <3>2. height \in Nat \ {0} /\ executed \in Nat
      BY DEF Init
    <3> QED
      BY <2>1, <2>2, <3>1, <3>2 DEF GovOK
<1>4. VotesOK
  BY <1>1, FS_EmptySet DEF VotesOK
<1>5. WinningOK
  BY <1>1 DEF WinningOK
<1>6. PacketsOK
  BY <1>1, FS_EmptySet DEF PacketsOK
<1>7. NoncesOK
  <2>1. ASSUME NEW chain \in Chains, NEW target \in Cellars
        PROVE  /\ {p.body.nonce : p \in CallsTo(chain, target)} =
                    1..nonces[<<chain, target>>]
               /\ Cardinality(CallsTo(chain, target)) = nonces[<<chain, target>>]
    <3>1. CallsTo(chain, target) = {} /\ nonces[<<chain, target>>] = 0
      BY <1>1, <1>2 DEF CallsTo
    <3> QED
      BY <3>1, FS_EmptySet
  <2> QED
    BY <1>1, <2>1 DEF NoncesOK, NoncesAreConsecutive
<1>8. UpgradesOK
  BY <1>1, <1>2 DEF UpgradesOK, UpgradesWaitAndLeaveOnce
<1>9. PoolOK
  BY <1>2, FS_EmptySet, AxelarCorkAssumption DEF PoolOK, Init
<1>10. RelayedAtMostOnce /\ RelayedWasApproved
  BY <1>2 DEF RelayedAtMostOnce, RelayedWasApproved
<1> QED
  BY <1>3, <1>4, <1>5, <1>6, <1>7, <1>8, <1>9, <1>10 DEF IInv

-----------------------------------------------------------------------------
(* Transactions *)

\* A vote replaces the one with its key.
LEMMA ScheduleCorkIInv ==
    ASSUME IInv, NEW val \in Validators, NEW chain \in Chains,
           NEW cork \in Corks, NEW h \in Nat, ScheduleCork(val, chain, cork, h)
    PROVE  IInv'
<1> DEFINE new == [chain |-> chain, height |-> h, val |-> val, cork |-> cork]
           others == OtherVotes(chain, h, val, cork)
<1>1. /\ scheduled' = others \cup {new}
      /\ UNCHANGED <<installed, height, halted, executed, govVars, winning, results,
                     nonces, upgrades, packetVars>>
  BY DEF ScheduleCork, SetScheduledAxelarCork
<1>2. others \subseteq scheduled
  BY DEF OtherVotes
<1>3. \A s \in others : ~ (/\ s.chain = chain /\ s.height = h
                           /\ s.val = val /\ SameID(s.cork, cork))
  BY DEF OtherVotes
<1>4. VotesOK'
  <2>1. scheduled' \subseteq VoteRec /\ IsFiniteSet(scheduled')
    <3>1. new \in VoteRec
      BY DEF VoteRec
    <3>2. IsFiniteSet(others)
      BY <1>2, FS_Subset DEF IInv, VotesOK
    <3> QED
      BY <1>1, <1>2, <3>1, <3>2, FS_AddElement DEF IInv, VotesOK
  <2>2. ASSUME NEW s \in scheduled', NEW r \in scheduled',
               s.chain = r.chain, s.height = r.height, s.val = r.val,
               SameID(s.cork, r.cork)
        PROVE  s = r
    <3>1. CASE s \in others /\ r \in others
      BY <1>2, <2>2, <3>1 DEF IInv, VotesOK
    <3>2. CASE s \in others /\ r = new
      BY <1>3, <2>2, <3>2
    <3>3. CASE s = new /\ r \in others
      BY <1>3, <2>2, <3>3 DEF SameID
    <3>4. CASE s = new /\ r = new
      BY <3>4
    <3> QED
      BY <1>1, <3>1, <3>2, <3>3, <3>4
  <2>3. \A s, r \in scheduled' : SameID(s.cork, r.cork)' = SameID(s.cork, r.cork)
    BY DEF SameID
  <2> QED
    BY <2>1, <2>2, <2>3 DEF VotesOK, SameID
<1>5. GovOK'
  BY <1>1 DEF IInv, GovOK, govVars
<1> QED
  BY <1>1, <1>4, <1>5, WinningKept, PacketsKept, NoncesKept, UpgradesKept, PoolKept,
     RelayedKept DEF IInv, packetVars

\* Relaying a cork: its call is the one sent, its nonce the next, and with the
\* middleware in the send path it is deleted from the winning corks.
LEMMA RelayCorkIInv ==
    ASSUME IInv, NEW chain \in Chains, NEW target \in Cellars,
           RelayCork(chain, target)
    PROVE  IInv'
<1> DEFINE key == <<chain, target>>
           Body(w) == [kind |-> "call", name |-> configs[chain].name,
                       dest |-> configs[chain].proxy, target |-> target,
                       nonce |-> NextNonce(chain, target),
                       deadline |-> w.cork.deadline, call |-> w.cork.call, of |-> w]
<1>1. PICK w \in Oldest(chain, target) :
        /\ Transfer("axelarcork", Gmp, Body(w))
        /\ winning' = WinningAfter(Body(w))
        /\ nonces' = [nonces EXCEPT ![key] = NextNonce(chain, target)]
  BY DEF RelayCork
<1>2. /\ enabled /\ chain \in DOMAIN configs
      /\ UNCHANGED <<installed, height, halted, executed, govVars, scheduled, results,
                     upgrades, refunded, poolVars>>
  BY DEF RelayCork
<1> DEFINE b == Body(w)
<1> HIDE DEF Body
<1>3. /\ b.kind = "call" /\ b.name = configs[chain].name /\ b.target = target
      /\ b.nonce = nonces[key] + 1 /\ b.of = w
      /\ b.deadline = w.cork.deadline /\ b.call = w.cork.call
  BY DEF Body, NextNonce
<1>4. w \in winning /\ w \in WinningRec /\ w.chain = chain /\ w.cork.target = target
      /\ w.height < height
  BY DEF Oldest, IInv, WinningOK
<1>5. PICK p :
             /\ packets' = packets \cup {p} /\ p \notin packets
             /\ p.height = height /\ p.sender = "axelarcork" /\ p.body = b
             /\ p.seq \notin {q.seq : q \in packets} /\ p.seq \notin refunded
             /\ IsFiniteSet(packets')
             /\ p.seq \in 1..Cardinality(packets')
             /\ Cardinality(packets') = Cardinality(packets) + 1
             /\ Cardinality(packets) \in Nat
  BY <1>1, Sent DEF IInv
<1>6. BodyOK(p)
  BY <1>3, <1>4, <1>5 DEF BodyOK
<1>7. PacketsOK'
  BY <1>2, <1>5, <1>6, SentPackets DEF IInv
<1>8. Calls' = Calls \cup {p} /\ UpgradeCalls' = UpgradeCalls /\ Stranded' = Stranded
  BY <1>2, <1>3, <1>5, SentCalls, SentStrandsNothing
<1>9. winning' \subseteq winning
  BY <1>1 DEF WinningAfter
<1>10. WinningOK'
  BY <1>2, <1>9 DEF IInv, WinningOK, ResultOf
<1>11. NoncesOK'
  <2>1. nonces \in [Chains \X Cellars -> Nat] /\ key \in Chains \X Cellars
    BY DEF IInv, NoncesOK
  <2>2. nonces' \in [Chains \X Cellars -> Nat] /\ nonces'[key] = nonces[key] + 1
    BY <1>1, <2>1 DEF NextNonce
  <2>3. ASSUME NEW c \in Chains, NEW a \in Cellars
        PROVE  /\ {q.body.nonce : q \in CallsTo(c, a)'} = 1..nonces'[<<c, a>>]
               /\ Cardinality(CallsTo(c, a)') = nonces'[<<c, a>>]
    <3>1. /\ {q.body.nonce : q \in CallsTo(c, a)} = 1..nonces[<<c, a>>]
          /\ Cardinality(CallsTo(c, a)) = nonces[<<c, a>>]
          /\ nonces[<<c, a>>] \in Nat
      BY <2>1 DEF IInv, NoncesOK, NoncesAreConsecutive
    <3>2. CASE c = chain /\ a = target
      <4>1. CallsTo(c, a)' = CallsTo(c, a) \cup {p}
        BY <1>3, <1>4, <1>5, <1>8, <3>2 DEF CallsTo
      <4>2. p \notin CallsTo(c, a) /\ IsFiniteSet(CallsTo(c, a))
        <5>1. CallsTo(c, a) \subseteq packets
          BY DEF CallsTo, Calls
        <5> QED
          BY <1>5, <5>1, FS_Subset DEF IInv, PacketsOK
      <4>3. Cardinality(CallsTo(c, a)') = nonces'[<<c, a>>]
        <5>1. Cardinality(CallsTo(c, a) \cup {p}) = Cardinality(CallsTo(c, a)) + 1
          BY <4>2, FS_AddElement
        <5> QED
          BY <2>2, <3>1, <3>2, <4>1, <5>1
      <4>4. {q.body.nonce : q \in CallsTo(c, a)'} =
              {q.body.nonce : q \in CallsTo(c, a)} \cup {nonces[key] + 1}
        BY <1>3, <1>5, <4>1
      <4>5. 1..(nonces[key] + 1) = (1..nonces[key]) \cup {nonces[key] + 1}
        BY <3>1, <3>2
      <4> QED
        BY <2>2, <3>1, <3>2, <4>3, <4>4, <4>5
    <3>3. CASE ~ (c = chain /\ a = target)
      <4>1. CallsTo(c, a)' = CallsTo(c, a)
        BY <1>3, <1>4, <1>5, <1>8, <3>3 DEF CallsTo
      <4>2. nonces'[<<c, a>>] = nonces[<<c, a>>]
        BY <1>1, <2>1, <3>3
      <4> QED
        BY <3>1, <4>1, <4>2
    <3> QED
      BY <3>2, <3>3
  <2> QED
    BY <2>2, <2>3 DEF NoncesOK, NoncesAreConsecutive
<1>12. UpgradesOK'
  BY <1>2, <1>8 DEF IInv, UpgradesOK, UpgradesWaitAndLeaveOnce
<1>13. PoolOK'
  BY <1>2, <1>8 DEF IInv, PoolOK, poolVars
<1>14. RelayedWasApproved'
  <2>1. PICK r \in results : ResultOf(r, w)
    BY <1>4 DEF IInv, WinningOK
  <2>2. /\ r.chain = p.body.of.chain /\ r.height = p.body.of.height
        /\ r.height < p.height
        /\ r.cork.target = p.body.target /\ r.cork.call = p.body.call
        /\ r.cork.deadline = p.body.deadline => r.approved
    BY <1>3, <1>4, <1>5, <2>1 DEF ResultOf
  <2> QED
    BY <1>2, <1>8, <2>2 DEF IInv, RelayedWasApproved
<1>15. RelayedAtMostOnce'
  <2> SUFFICES ASSUME installed', DistinctNames
               PROVE  /\ \A q, r \in Calls' : q.body.of = r.body.of => q = r
                      /\ \A q \in Calls' : q.body.of \notin winning'
    BY DEF RelayedAtMostOnce, DistinctNames
  <2>1. installed /\ Validated
    BY <1>2 DEF Validated
  <2>2. /\ \A q, r \in Calls : q.body.of = r.body.of => q = r
        /\ \A q \in Calls : q.body.of \notin winning
    BY <2>1 DEF IInv, RelayedAtMostOnce
  <2>3. w \notin winning'
    <3>1. ValidateAxelarPacket("axelarcork", Gmp, b)
      BY <1>1 DEF Transfer
    <3>2. PICK i \in ByName(b.name) : TRUE
      BY <2>1, <3>1 DEF ValidateAxelarPacket, ValidBody
    <3>3. i \in DOMAIN configs /\ configs[i].name = configs[chain].name
      BY <1>3, <3>2 DEF ByName
    <3>4. i = chain
      BY <1>2, <3>3 DEF DistinctNames, IInv, GovOK
    <3>5. w \in Oldest(i, b.target)
      BY <1>3, <3>4
    <3> QED
      BY <1>1, <2>1, <3>2, <3>5 DEF WinningAfter
  <2> QED
    BY <1>3, <1>4, <1>5, <1>8, <1>9, <2>2, <2>3
<1>16. GovOK' /\ VotesOK'
  BY <1>2, VotesKept DEF IInv, GovOK, govVars
<1> QED
  BY <1>7, <1>10, <1>11, <1>12, <1>13, <1>14, <1>15, <1>16 DEF IInv

\* Relaying an upgrade: it leaves the store as its packet is sent.
LEMMA RelayProxyUpgradeIInv ==
    ASSUME IInv, NEW chain \in Chains, RelayProxyUpgrade(chain)
    PROVE  IInv'
<1> DEFINE u == upgrades[chain]
           b == [kind |-> "upgrade", name |-> configs[chain].name,
                 dest |-> configs[chain].proxy, proxy |-> u.proxy,
                 targets |-> u.targets, chain |-> chain, passed |-> u.passed]
<1>1. /\ chain \in DOMAIN upgrades /\ height >= u.threshold
      /\ Transfer("axelarcork", Gmp, b)
      /\ upgrades' = [i \in DOMAIN upgrades \ {chain} |-> upgrades[i]]
      /\ UNCHANGED <<installed, height, halted, executed, govVars, scheduled, winning,
                     results, nonces, refunded, poolVars>>
  <2>1. UpgradesWithout(chain) = [i \in DOMAIN upgrades \ {chain} |-> upgrades[i]]
    BY DEF UpgradesWithout, Drop, Restrict
  <2> QED
    BY <2>1 DEF RelayProxyUpgrade, Executable
<1>2. b.kind = "upgrade" /\ b.chain = chain /\ b.passed = u.passed
  OBVIOUS
<1> HIDE DEF b
<1>3. u \in UpgradeRec /\ u.threshold = u.passed + HeightThreshold
  BY <1>1 DEF IInv, UpgradesOK
<1>4. PICK p :
             /\ packets' = packets \cup {p} /\ p \notin packets
             /\ p.height = height /\ p.sender = "axelarcork" /\ p.body = b
             /\ p.seq \notin {q.seq : q \in packets} /\ p.seq \notin refunded
             /\ IsFiniteSet(packets')
             /\ p.seq \in 1..Cardinality(packets')
             /\ Cardinality(packets') = Cardinality(packets) + 1
             /\ Cardinality(packets) \in Nat
  BY <1>1, Sent DEF IInv
<1>5. u.passed \in Nat /\ p.height >= u.passed + HeightThreshold
  BY <1>1, <1>3, <1>4 DEF UpgradeRec
<1>6. PacketsOK'
  <2>1. BodyOK(p)
    BY <1>2, <1>4, <1>5 DEF BodyOK
  <2> QED
    BY <1>1, <1>4, <2>1, SentPackets DEF IInv
<1>7. Calls' = Calls /\ UpgradeCalls' = UpgradeCalls \cup {p} /\ Stranded' = Stranded
  BY <1>1, <1>2, <1>4, SentCalls, SentStrandsNothing
<1>8. UpgradesOK'
  <2>1. \A q \in UpgradeCalls : q.body.chain = chain => q.body.passed # p.body.passed
    BY <1>1, <1>2, <1>4 DEF IInv, UpgradesOK
  <2>2. UpgradesWaitAndLeaveOnce'
    <3>1. \A q \in UpgradeCalls' : q.height >= q.body.passed + HeightThreshold
      BY <1>2, <1>4, <1>5, <1>7 DEF IInv, UpgradesOK, UpgradesWaitAndLeaveOnce
    <3>2. ASSUME NEW q \in UpgradeCalls', NEW r \in UpgradeCalls',
                 q.body.chain = r.body.chain, q.body.passed = r.body.passed
          PROVE  q = r
      BY <1>2, <1>4, <1>7, <2>1, <3>2 DEF IInv, UpgradesOK, UpgradesWaitAndLeaveOnce
    <3> QED
      BY <3>1, <3>2 DEF UpgradesWaitAndLeaveOnce
  <2>3. \A i \in DOMAIN upgrades' :
          /\ i \in DOMAIN upgrades /\ i # chain /\ upgrades'[i] = upgrades[i]
    BY <1>1
  <2>4. ASSUME NEW i \in DOMAIN upgrades', NEW q \in UpgradeCalls', q.body.chain = i
        PROVE  q.body.passed # upgrades'[i].passed
    <3>1. q # p
      BY <1>2, <1>4, <2>3, <2>4
    <3> QED
      BY <1>7, <2>3, <2>4, <3>1 DEF IInv, UpgradesOK
  <2> QED
    BY <2>2, <2>3, <2>4 DEF IInv, UpgradesOK
<1>9. NoncesOK'
  <2>1. ASSUME NEW c, NEW a PROVE CallsTo(c, a)' = CallsTo(c, a)
    BY <1>7 DEF CallsTo
  <2> QED
    BY <1>1, <2>1 DEF IInv, NoncesOK, NoncesAreConsecutive
<1>10. PoolOK'
  BY <1>1, <1>7 DEF IInv, PoolOK, poolVars
<1>11. RelayedAtMostOnce' /\ RelayedWasApproved'
  BY <1>1, <1>7 DEF IInv, RelayedAtMostOnce, RelayedWasApproved, DistinctNames
<1> QED
  BY <1>1, <1>6, <1>8, <1>9, <1>10, <1>11, VotesKept, WinningKept DEF IInv, GovOK, govVars

\* A packet that is neither a call nor an upgrade leaves the stores alone.
LEMMA SentElse ==
    ASSUME IInv, NEW sender, NEW receiver, NEW b, Transfer(sender, receiver, b),
           b.kind \notin {"call", "upgrade"},
           b.kind = "spend" <=> sender = "distribution",
           UNCHANGED <<height, installed, corkVars, refunded>>
    PROVE  /\ VotesOK' /\ WinningOK' /\ PacketsOK' /\ NoncesOK' /\ UpgradesOK'
           /\ RelayedAtMostOnce' /\ RelayedWasApproved'
           /\ Stranded' = Stranded
<1>1. PICK p :
             /\ packets' = packets \cup {p} /\ p \notin packets
             /\ p.height = height /\ p.sender = sender /\ p.body = b
             /\ p.seq \notin {q.seq : q \in packets} /\ p.seq \notin refunded
             /\ IsFiniteSet(packets')
             /\ p.seq \in 1..Cardinality(packets')
             /\ Cardinality(packets') = Cardinality(packets) + 1
             /\ Cardinality(packets) \in Nat
  BY Sent DEF IInv
<1>2. PacketsOK'
  <2>1. BodyOK(p)
    BY <1>1 DEF BodyOK
  <2> QED
    BY <1>1, <2>1, SentPackets DEF IInv
<1>3. Calls' = Calls /\ UpgradeCalls' = UpgradeCalls /\ Stranded' = Stranded
  BY <1>1, SentCalls, SentStrandsNothing
<1>4. NoncesOK'
  <2>1. ASSUME NEW c, NEW a PROVE CallsTo(c, a)' = CallsTo(c, a)
    BY <1>3 DEF CallsTo
  <2> QED
    BY <2>1 DEF IInv, NoncesOK, NoncesAreConsecutive, corkVars
<1>5. RelayedAtMostOnce' /\ RelayedWasApproved'
  BY <1>3 DEF IInv, RelayedAtMostOnce, RelayedWasApproved, DistinctNames, corkVars
<1>6. UpgradesOK'
  BY <1>3 DEF IInv, UpgradesOK, UpgradesWaitAndLeaveOnce, corkVars
<1> QED
  BY <1>2, <1>3, <1>4, <1>5, <1>6, VotesKept, WinningKept DEF IInv, corkVars

\* A transfer to the executor account.
LEMMA BumpCorkGasIInv == ASSUME IInv, BumpCorkGas PROVE IInv'
<1> DEFINE b == [kind |-> "bump"]
<1>1. /\ Transfer("signer", Executor, b)
      /\ UNCHANGED <<installed, height, halted, executed, govVars, corkVars,
                     refunded, poolVars>>
  BY DEF BumpCorkGas
<1>2. b.kind = "bump"
  OBVIOUS
<1> HIDE DEF b
<1>3. /\ VotesOK' /\ WinningOK' /\ PacketsOK' /\ NoncesOK' /\ UpgradesOK'
      /\ RelayedAtMostOnce' /\ RelayedWasApproved'
      /\ Stranded' = Stranded
  BY <1>1, <1>2, SentElse
<1>4. PoolOK'
  BY <1>1, <1>3 DEF IInv, PoolOK, poolVars
<1> QED
  BY <1>1, <1>3, <1>4 DEF IInv, GovOK, govVars

\* A packet fails: only the coins of a community pool spend come back to the
\* distribution account, and they are stranded there.
LEMMA PacketFailsIInv ==
    ASSUME IInv, NEW p \in packets, PacketFails(p) PROVE IInv'
<1>1. /\ p.seq \notin refunded /\ refunded' = refunded \cup {p.seq}
      /\ held' = IF p.sender = "distribution" THEN held + 1 ELSE held
      /\ UNCHANGED <<installed, height, halted, executed, govVars, corkVars, packets,
                     incentives, pool, outstanding, collected>>
  BY DEF PacketFails
<1>2. PacketsOK'
  BY <1>1 DEF IInv, PacketsOK, BodyOK
<1>3. PoolOK'
  <2>1. p.body.kind = "spend" <=> p.sender = "distribution"
    BY DEF IInv, PacketsOK, BodyOK
  <2>2. \A q \in packets : q.seq = p.seq => q = p
    BY DEF IInv, PacketsOK
  <2>3. IsFiniteSet(Stranded) /\ Cardinality(Stranded) \in Nat
    <3>1. Stranded \subseteq packets
      BY DEF Stranded
    <3> QED
      BY <3>1, FS_Subset, FS_CardinalityType DEF IInv, PacketsOK
  <2>4. CASE p.sender = "distribution"
    <3>1. Stranded' = Stranded \cup {p} /\ p \notin Stranded
      BY <1>1, <2>1, <2>2, <2>4 DEF Stranded
    <3>2. Cardinality(Stranded \cup {p}) = Cardinality(Stranded) + 1
      BY <2>3, <3>1, FS_AddElement
    <3>3. Cardinality(Stranded') = Cardinality(Stranded) + 1 /\ held' = held + 1
      BY <1>1, <2>4, <3>1, <3>2
    <3>4. /\ Fraction * (held + 1) = Fraction * held + Fraction
          /\ Fraction * (Cardinality(Stranded) + 1) =
               Fraction * Cardinality(Stranded) + Fraction
      BY <2>3, Times, AxelarCorkAssumption DEF IInv, PoolOK
    <3>5. /\ pool \in Nat /\ outstanding \in Nat /\ held \in Nat
          /\ Fraction \in Nat
          /\ Fraction * Cardinality(Stranded) \in Nat /\ Fraction * held \in Nat
      BY <2>3, AxelarCorkAssumption DEF IInv, PoolOK
    <3> QED
      BY <1>1, <3>3, <3>4, <3>5 DEF IInv, PoolOK
  <2>5. CASE p.sender # "distribution"
    <3>1. Stranded' = Stranded
      BY <1>1, <2>1, <2>2, <2>5 DEF Stranded
    <3> QED
      BY <1>1, <2>5, <3>1 DEF IInv, PoolOK
  <2> QED
    BY <2>4, <2>5
<1> QED
  BY <1>1, <1>2, <1>3, VotesKept, WinningKept, NoncesKept, UpgradesKept, RelayedKept
     DEF IInv, GovOK, govVars, corkVars

-----------------------------------------------------------------------------
(* Proposals *)

\* What the proposals about configurations, cellars, publishers and parameters
\* leave behind.
LEMMA GovernanceTypes ==
    ASSUME IInv, Governance
    PROVE  GovOK'
<1> USE DEF IInv, GovOK
<1>0. Govern => executed' \in Nat
  BY DEF Govern
<1>1. ASSUME NEW chain \in Chains, NEW ids \in SUBSET Cellars, NEW p \in Domains,
             AddManagedCellars(chain, ids, p)
      PROVE  GovOK'
  <2>1. cellars' \in [Chains -> SUBSET Cellars]
    BY <1>1 DEF AddManagedCellars
  <2>2. /\ DOMAIN subscriptions' \subseteq Chains \X Cellars
        /\ \A s \in DOMAIN subscriptions' : subscriptions'[s] \in Domains
    BY <1>1 DEF AddManagedCellars
  <2> QED
    BY <1>0, <1>1, <2>1, <2>2 DEF AddManagedCellars
<1>2. ASSUME NEW chain \in Chains, NEW ids \in SUBSET Cellars,
             RemoveManagedCellars(chain, ids)
      PROVE  GovOK'
  <2>1. cellars' \in [Chains -> SUBSET Cellars]
    BY <1>2 DEF RemoveManagedCellars
  <2>2. /\ DOMAIN subscriptions' \subseteq DOMAIN subscriptions
        /\ \A s \in DOMAIN subscriptions' : subscriptions'[s] = subscriptions[s]
    BY <1>2 DEF RemoveManagedCellars, Drop, Restrict
  <2> QED
    BY <1>0, <1>2, <2>1, <2>2 DEF RemoveManagedCellars
<1>3. ASSUME NEW c \in ChainConfigs, AddChainConfiguration(c)
      PROVE  GovOK'
  <2>1. c.id \in Chains
    BY AxelarCorkAssumption
  <2>2. /\ DOMAIN configs' \subseteq Chains
        /\ \A i \in DOMAIN configs' : configs'[i] \in ChainConfigs /\ configs'[i].id = i
    BY <1>3, <2>1 DEF AddChainConfiguration, Put
  <2> QED
    BY <1>0, <1>3, <2>2 DEF AddChainConfiguration
<1>4. ASSUME NEW chain \in Chains, RemoveChainConfiguration(chain)
      PROVE  GovOK'
  <2>1. /\ DOMAIN configs' \subseteq DOMAIN configs
        /\ \A i \in DOMAIN configs' : configs'[i] = configs[i]
    BY <1>4 DEF RemoveChainConfiguration, Drop, Restrict
  <2> QED
    BY <1>0, <1>4, <2>1 DEF RemoveChainConfiguration
<1>5. ASSUME NEW chain \in Chains,
             \/ \E p \in Proxies : UpgradeProxyContract(chain, p)
             \/ CancelUpgrade(chain) \/ CommunityPoolSpend(chain)
      PROVE  GovOK'
  BY <1>0, <1>5 DEF UpgradeProxyContract, CancelUpgrade, CommunityPoolSpend,
     govVars
<1>6. ASSUME NEW p \in IncentivesParams, SetIncentives(p)
      PROVE  GovOK'
  BY <1>0, <1>6 DEF SetIncentives, govVars
<1>7. ASSUME NEW e \in BOOLEAN, SetEnabled(e)
      PROVE  GovOK'
  BY <1>0, <1>7 DEF SetEnabled
<1>8. ASSUME PubsubStep PROVE GovOK'
  <2> DEFINE Kept == /\ approved' \subseteq Domains
                     /\ DOMAIN subscriptions' \subseteq Chains \X Cellars
                     /\ \A s \in DOMAIN subscriptions' : subscriptions'[s] \in Domains
  <2>1. ASSUME NEW p \in Domains, Pubsub!AddPublisher(p) PROVE Kept
    BY <2>1 DEF Pubsub!AddPublisher
  <2>2. ASSUME NEW p \in Domains, Pubsub!RemovePublisher(p) PROVE Kept
    BY <2>2 DEF Pubsub!RemovePublisher, Pubsub!Restrict
  <2>3. ASSUME NEW p \in Domains, NEW id \in Chains \X Cellars,
               Pubsub!AddDefaultSubscription(id, p)
        PROVE  Kept
    BY <2>3 DEF Pubsub!AddDefaultSubscription
  <2>4. ASSUME NEW id \in Chains \X Cellars, Pubsub!RemoveDefaultSubscription(id)
        PROVE  Kept
    BY <2>4 DEF Pubsub!RemoveDefaultSubscription, Pubsub!Restrict
  <2>5. Kept
    BY <1>8, <2>1, <2>2, <2>3, <2>4 DEF PubsubStep, Pubsub!Next
  <2> QED
    BY <1>0, <1>8, <2>5 DEF PubsubStep
<1> QED
  BY <1>1, <1>2, <1>3, <1>4, <1>5, <1>6, <1>7, <1>8 DEF Governance

\* A proposal to upgrade the proxy: no packet is as late as this block's.
LEMMA UpgradeProxyContractIInv ==
    ASSUME IInv, NEW chain \in Chains, NEW proxy \in Proxies,
           UpgradeProxyContract(chain, proxy)
    PROVE  UpgradesOK'
<1> DEFINE new == [proxy |-> proxy, targets |-> cellars[chain],
                   threshold |-> height + HeightThreshold, passed |-> height]
<1>1. upgrades' = [i \in DOMAIN upgrades \cup {chain} |->
                     IF i = chain THEN new ELSE upgrades[i]]
      /\ packets' = packets
  BY DEF UpgradeProxyContract, Put, packetVars
<1>2. height \in Nat /\ HeightThreshold \in Nat \ {0} /\ cellars[chain] \in SUBSET Cellars
  BY AxelarCorkAssumption DEF IInv, GovOK
<1>3. new \in UpgradeRec /\ new.threshold = new.passed + HeightThreshold
  BY <1>2 DEF UpgradeRec
<1>4. \A p \in UpgradeCalls : p.body.passed # height
  BY <1>2 DEF UpgradeCalls, IInv, PacketsOK, BodyOK
<1>5. UpgradeCalls' = UpgradeCalls
  BY <1>1 DEF UpgradeCalls
<1>6. ASSUME NEW i \in DOMAIN upgrades'
      PROVE  /\ i \in Chains /\ upgrades'[i] \in UpgradeRec
             /\ upgrades'[i].threshold = upgrades'[i].passed + HeightThreshold
             /\ \A p \in UpgradeCalls :
                   p.body.chain = i => p.body.passed # upgrades'[i].passed
  <2>1. CASE i = chain
    BY <1>1, <1>3, <1>4, <2>1
  <2>2. CASE i # chain
    BY <1>1, <2>2 DEF IInv, UpgradesOK
  <2> QED
    BY <2>1, <2>2
<1> QED
  BY <1>5, <1>6 DEF IInv, UpgradesOK, UpgradesWaitAndLeaveOnce

\* A proposal that spends from the community pool takes a coin that the pool
\* has shares of, so the account has it.
LEMMA CommunityPoolSpendIInv ==
    ASSUME IInv, NEW chain \in Chains, CommunityPoolSpend(chain)
    PROVE  /\ VotesOK' /\ WinningOK' /\ PacketsOK' /\ NoncesOK' /\ UpgradesOK'
           /\ RelayedAtMostOnce' /\ RelayedWasApproved' /\ PoolOK'
<1> DEFINE b == [kind |-> "spend", name |-> configs[chain].name]
<1>1. /\ pool >= Fraction
      /\ Transfer("distribution", Gmp, b)
      /\ held' = held - 1 /\ pool' = pool - Fraction
      /\ UNCHANGED <<installed, height, halted, govVars, corkVars, refunded,
                     incentives, outstanding, collected>>
  BY DEF CommunityPoolSpend, PoolCovers, PoolReduced
<1>2. b.kind = "spend"
  OBVIOUS
<1> HIDE DEF b
<1>3. /\ VotesOK' /\ WinningOK' /\ PacketsOK' /\ NoncesOK' /\ UpgradesOK'
      /\ RelayedAtMostOnce' /\ RelayedWasApproved'
      /\ Stranded' = Stranded
  BY <1>1, <1>2, SentElse
<1>4. PoolOK'
  <2>1. IsFiniteSet(Stranded) /\ Cardinality(Stranded) \in Nat
    <3>1. Stranded \subseteq packets
      BY DEF Stranded
    <3> QED
      BY <3>1, FS_Subset, FS_CardinalityType DEF IInv, PacketsOK
  <2>2. /\ Fraction \in Nat \ {0}
        /\ pool \in Nat /\ outstanding \in Nat /\ held \in Nat
        /\ pool + outstanding + Fraction * Cardinality(Stranded) = Fraction * held
    BY AxelarCorkAssumption DEF IInv, PoolOK
  <2>3. Fraction * (held - 1) = Fraction * held - Fraction
    BY <2>2, Times
  <2>4. Fraction * Cardinality(Stranded) \in Nat /\ Fraction * held \in Nat
    BY <2>1, <2>2
  <2>5. held # 0
    BY <1>1, <2>2, <2>4
  <2> QED
    BY <1>1, <1>3, <2>2, <2>3, <2>4, <2>5 DEF IInv, PoolOK
<1> QED
  BY <1>3, <1>4

\* Every proposal.
LEMMA GovernanceIInv == ASSUME IInv, Governance PROVE IInv'
<1> DEFINE Kept == /\ VotesOK' /\ WinningOK' /\ PacketsOK' /\ NoncesOK' /\ UpgradesOK'
                   /\ RelayedAtMostOnce' /\ RelayedWasApproved' /\ PoolOK'
<1>1. GovOK'
  BY GovernanceTypes
<1>2. ASSUME UNCHANGED <<installed, height, corkVars, packetVars>> PROVE Kept
  BY <1>2, VotesKept, WinningKept, PacketsKept, NoncesKept, UpgradesKept, RelayedKept,
     PoolKept DEF IInv, corkVars, packetVars
<1>3. ASSUME NEW chain \in Chains, NEW ids \in SUBSET Cellars, NEW p \in Domains,
             AddManagedCellars(chain, ids, p)
      PROVE  Kept
  BY <1>2, <1>3 DEF AddManagedCellars
<1>4. ASSUME NEW chain \in Chains, NEW ids \in SUBSET Cellars,
             RemoveManagedCellars(chain, ids)
      PROVE  Kept
  BY <1>2, <1>4 DEF RemoveManagedCellars
<1>5. ASSUME NEW c \in ChainConfigs, AddChainConfiguration(c) PROVE Kept
  BY <1>2, <1>5 DEF AddChainConfiguration
<1>6. ASSUME NEW chain \in Chains, RemoveChainConfiguration(chain) PROVE Kept
  BY <1>2, <1>6 DEF RemoveChainConfiguration, KeepNonces, corkVars
<1>7. ASSUME NEW chain \in Chains, NEW p \in Proxies, UpgradeProxyContract(chain, p)
      PROVE  Kept
  <2>1. UNCHANGED <<installed, height, scheduled, winning, results, nonces, packets,
                    refunded, poolVars>>
    BY <1>7 DEF UpgradeProxyContract, packetVars
  <2> QED
    BY <1>7, <2>1, UpgradeProxyContractIInv, VotesKept, WinningKept, PacketsKept,
       NoncesKept, RelayedKept, PoolKept DEF IInv
<1>8. ASSUME NEW chain \in Chains, CancelUpgrade(chain) PROVE Kept
  <2>1. UNCHANGED <<installed, height, scheduled, winning, results, nonces, packets,
                    refunded, poolVars>>
    BY <1>8 DEF CancelUpgrade, packetVars
  <2>2. /\ DOMAIN upgrades' \subseteq DOMAIN upgrades
        /\ \A i \in DOMAIN upgrades' : upgrades'[i] = upgrades[i]
    BY <1>8 DEF CancelUpgrade, Drop, Restrict
  <2>3. UpgradesOK'
    BY <2>1, <2>2 DEF IInv, UpgradesOK, UpgradesWaitAndLeaveOnce, UpgradeCalls
  <2> QED
    BY <2>1, <2>3, VotesKept, WinningKept, PacketsKept, NoncesKept, RelayedKept,
       PoolKept DEF IInv
<1>9. ASSUME NEW chain \in Chains, CommunityPoolSpend(chain) PROVE Kept
  BY <1>9, CommunityPoolSpendIInv
<1>10. ASSUME NEW p \in IncentivesParams, SetIncentives(p) PROVE Kept
  <2>1. /\ incentives' = p
        /\ UNCHANGED <<installed, height, corkVars, packets, refunded, pool,
                       outstanding, held, collected>>
    BY <1>10 DEF SetIncentives, Incentives!SetParams
  <2>2. PoolOK'
    BY <2>1 DEF IInv, PoolOK, Stranded
  <2> QED
    BY <2>1, <2>2, VotesKept, WinningKept, PacketsKept, NoncesKept, UpgradesKept,
       RelayedKept DEF IInv, corkVars
<1>11. ASSUME NEW e \in BOOLEAN, SetEnabled(e) PROVE Kept
  BY <1>2, <1>11 DEF SetEnabled
<1>12. ASSUME PubsubStep PROVE Kept
  BY <1>2, <1>12 DEF PubsubStep
<1>13. Kept
  BY <1>3, <1>4, <1>5, <1>6, <1>7, <1>8, <1>9, <1>10, <1>11, <1>12 DEF Governance
<1> QED
  BY <1>1, <1>13 DEF IInv

-----------------------------------------------------------------------------
(* Blocks *)

\* A tally puts finitely many corks in an order without ties.
LEMMA OrderFacts ==
    ASSUME IInv, NEW chain \in DOMAIN configs, NEW o \in Orders(chain)
    PROVE  \E n \in Nat :
             /\ DOMAIN o \subseteq Corks
             /\ \A c \in DOMAIN o : o[c] \in 1..n
             /\ \A c, d \in DOMAIN o : o[c] = o[d] => c = d
<1>1. PICK S \in Tallies(chain) : o \in Bijection(S, 1..Cardinality(S))
  BY DEF Orders
<1> DEFINE D == Due(chain)
           f == [s \in D |-> s.cork]
           V == {s.cork : s \in D}
<1>2. D \subseteq scheduled /\ D \subseteq VoteRec /\ IsFiniteSet(D)
  <2>1. D \subseteq scheduled
    BY DEF Due
  <2> QED
    BY <2>1, FS_Subset DEF IInv, VotesOK
<1>3. f \in Surjection(D, V)
  BY DEF Surjection
<1>4. IsFiniteSet(V) /\ V \subseteq Corks
  BY <1>2, <1>3, FS_Surjection DEF VoteRec
<1>5. S \subseteq V
  BY DEF Tallies
<1>6. Cardinality(S) \in Nat
  BY <1>4, <1>5, FS_Subset, FS_CardinalityType
<1>7. o \in [S -> 1..Cardinality(S)] /\ \A c, d \in S : o[c] = o[d] => c = d
  BY <1>1 DEF Bijection, Injection, Surjection, IsInjective
<1> QED
  BY <1>4, <1>5, <1>6, <1>7

\* What a tally makes of its votes: at most one winning cork per contract, and
\* for each a result with its call, which says approved if no other deadline of
\* the call was tallied after it.
LEMMA TallyFacts ==
    ASSUME IInv, NEW t, NEW chain \in DOMAIN configs, NEW o \in Orders(chain)
    PROVE  /\ NewWinning(t, chain, o) \subseteq WinningRec
           /\ NewResults(t, chain, o) \subseteq ResultRec
           /\ \A w \in NewWinning(t, chain, o) :
                 /\ w.chain = chain /\ w.height = height
                 /\ \E r \in NewResults(t, chain, o) : ResultOf(r, w)
           /\ \A w, x \in NewWinning(t, chain, o) :
                 w.cork.target = x.cork.target => w = x
<1>1. PICK n \in Nat :
             /\ DOMAIN o \subseteq Corks
             /\ \A c \in DOMAIN o : o[c] \in 1..n
             /\ \A c, d \in DOMAIN o : o[c] = o[d] => c = d
  BY OrderFacts
<1>2. chain \in Chains /\ height \in Nat
  BY DEF IInv, GovOK
<1>3. ASSUME NEW w \in NewWinning(t, chain, o)
      PROVE  /\ w.cork \in DOMAIN o /\ QuorumReached(t, chain, w.cork)
             /\ w = [chain |-> chain, height |-> height, cork |-> w.cork]
             /\ \A d \in DOMAIN o :
                   QuorumReached(t, chain, d) /\ d.target = w.cork.target
                   => o[w.cork] >= o[d]
  BY <1>3 DEF NewWinning, Winners, LastOf
<1>4. ASSUME NEW r \in NewResults(t, chain, o)
      PROVE  r \in ResultRec
  <2>1. PICK c \in DOMAIN o :
          r = [chain |-> chain, height |-> height, cork |-> c,
               approved |-> QuorumReached(t, chain, c)]
    BY <1>4 DEF NewResults, LastOf
  <2>2. QuorumReached(t, chain, c) \in BOOLEAN
    BY DEF QuorumReached
  <2> QED
    BY <1>1, <1>2, <2>1, <2>2 DEF ResultRec
<1>5. ASSUME NEW w \in NewWinning(t, chain, o)
      PROVE  \E r \in NewResults(t, chain, o) : ResultOf(r, w)
  <2> DEFINE c == w.cork
             T == {d \in DOMAIN o : SameID(d, c)}
  <2>1. c \in DOMAIN o /\ QuorumReached(t, chain, c)
        /\ w.chain = chain /\ w.height = height
    BY <1>3
  <2>2. c \in T
    BY <2>1 DEF SameID
  <2>3. PICK d \in T : \A e \in T : o[d] >= o[e]
    BY <1>1, <2>2, LargestExists
  <2> DEFINE r == [chain |-> chain, height |-> height, cork |-> d,
                   approved |-> QuorumReached(t, chain, d)]
  <2>4. d \in LastOf(o, T)
    BY <2>3 DEF LastOf
  <2>5. r \in NewResults(t, chain, o)
    BY <2>1, <2>4 DEF NewResults
  <2>6. SameID(d, c) /\ d \in Corks /\ c \in Corks
    BY <1>1, <2>1
  <2>7. d.deadline = c.deadline => d = c
    BY <2>6, AxelarCorkAssumption DEF SameID
  <2>8. ResultOf(r, w)
    BY <2>1, <2>6, <2>7 DEF ResultOf, SameID
  <2> QED
    BY <2>5, <2>8
<1>6. ASSUME NEW w \in NewWinning(t, chain, o), NEW x \in NewWinning(t, chain, o),
             w.cork.target = x.cork.target
      PROVE  w = x
  <2>1. o[w.cork] >= o[x.cork] /\ o[x.cork] >= o[w.cork]
        /\ o[w.cork] \in Nat /\ o[x.cork] \in Nat
    BY <1>1, <1>3, <1>6
  <2>2. w.cork = x.cork
    BY <1>1, <1>3, <2>1
  <2> QED
    BY <1>3, <2>2
<1>7. NewWinning(t, chain, o) \subseteq WinningRec
  BY <1>1, <1>2, <1>3 DEF WinningRec
<1>8. \A w \in NewWinning(t, chain, o) : w.chain = chain /\ w.height = height
  BY <1>3
<1> QED
  BY <1>4, <1>5, <1>6, <1>7, <1>8

\* The incentives of a block are covered by the coins of the account.
LEMMA NeverPanics == IInv => ~ Incentives!Panics(height)
<1> SUFFICES ASSUME IInv, Incentives!Panics(height) PROVE FALSE
  OBVIOUS
<1>1. held < incentives.perBlock /\ pool >= Fraction * incentives.perBlock
      /\ incentives.perBlock \in Nat /\ Fraction \in Nat \ {0}
      /\ pool \in Nat /\ outstanding \in Nat /\ held \in Nat
  BY AxelarCorkAssumption, Times
     DEF Incentives!Panics, Incentives!Distributes, Incentives!Negative, IInv, PoolOK
<1>2. Cardinality(Stranded) \in Nat
  <2>1. Stranded \subseteq packets
    BY DEF Stranded
  <2> QED
    BY <2>1, FS_Subset, FS_CardinalityType DEF IInv, PacketsOK
<1>3. Fraction * held \in Nat /\ Fraction * Cardinality(Stranded) \in Nat
      /\ Fraction * incentives.perBlock \in Nat
  BY <1>1, <1>2
<1>4. Fraction * held >= Fraction * incentives.perBlock
  BY <1>1, <1>3 DEF IInv, PoolOK
<1> QED
  BY <1>1, <1>4, Times

\* The EndBlocker: new winning corks are of this block, so none of them has
\* been relayed before, and the pool gives what the account gives.
LEMMA EndBlockerIInv ==
    ASSUME IInv, NEW t \in PowerTables, EndBlocker(t)
    PROVE  IInv'
<1> DEFINE C == DOMAIN configs
<1>1. PICK order : /\ \A c \in C : order[c] \in Orders(c)
                   /\ EndBlockCompletes(t, order)
  BY DEF EndBlocker
<1> DEFINE NW(c) == NewWinning(t, c, order[c])
           NR(c) == NewResults(t, c, order[c])
<1>2. /\ scheduled' = scheduled \ DueVotes
      /\ results' = results \cup UNION {NR(c) : c \in C}
      /\ winning' \subseteq winning \cup UNION {NW(c) : c \in C}
      /\ height' = height + 1 /\ executed' = 0
      /\ Incentives!EndBlocker(height)
      /\ UNCHANGED <<installed, halted, govVars, nonces, upgrades, packets, refunded>>
  BY <1>1 DEF EndBlockCompletes
<1>3. ASSUME NEW c \in C
      PROVE  /\ NW(c) \subseteq WinningRec /\ NR(c) \subseteq ResultRec
             /\ \A w \in NW(c) : /\ w.chain = c /\ w.height = height
                                 /\ \E r \in NR(c) : ResultOf(r, w)
             /\ \A w, x \in NW(c) : w.cork.target = x.cork.target => w = x
  BY <1>1, TallyFacts
<1> HIDE DEF NW, NR
<1>4. height \in Nat /\ height' \in Nat \ {0}
  BY <1>2 DEF IInv, GovOK
<1>5. GovOK'
  BY <1>2, <1>4 DEF IInv, GovOK, govVars
<1>6. VotesOK'
  <2>1. scheduled' \subseteq scheduled /\ IsFiniteSet(scheduled')
    BY <1>2, FS_Subset DEF IInv, VotesOK
  <2> QED
    BY <2>1 DEF IInv, VotesOK, SameID
<1>7. WinningOK'
  <2>1. winning' \subseteq WinningRec /\ results' \subseteq ResultRec
    BY <1>2, <1>3 DEF IInv, WinningOK
  <2>2. ASSUME NEW w \in winning' 
        PROVE  w.height < height' /\ \E r \in results' : ResultOf(r, w)
    <3>1. CASE w \in winning
      <4>1. w.height < height /\ w.height \in Nat
        BY <3>1 DEF IInv, WinningOK, WinningRec
      <4> QED
        BY <1>2, <1>4, <3>1, <4>1 DEF IInv, WinningOK
    <3>2. ASSUME NEW c \in C, w \in NW(c)
          PROVE  w.height < height' /\ \E r \in results' : ResultOf(r, w)
      BY <1>2, <1>3, <1>4, <3>2
    <3> QED
      BY <1>2, <3>1, <3>2
  <2>3. ASSUME NEW w \in winning', NEW x \in winning',
               w.chain = x.chain, w.height = x.height, w.cork.target = x.cork.target
        PROVE  w = x
    <3>1. CASE w \in winning /\ x \in winning
      BY <2>3, <3>1 DEF IInv, WinningOK
    <3>2. \A v \in winning : v.height # height
      BY <1>4 DEF IInv, WinningOK, WinningRec
    <3>3. ASSUME w \notin winning \/ x \notin winning PROVE w = x
      <4>1. PICK c \in C, d \in C : w \in NW(c) /\ x \in NW(d)
        BY <1>2, <1>3, <2>3, <3>2, <3>3
      <4>2. c = d
        BY <1>3, <2>3, <4>1
      <4> QED
        BY <1>3, <2>3, <4>1, <4>2
    <3> QED
      BY <3>1, <3>3
  <2> QED
    BY <2>1, <2>2, <2>3 DEF WinningOK, ResultOf
<1>8. PacketsOK'
  BY <1>2, <1>4 DEF IInv, PacketsOK, BodyOK
<1>9. RelayedAtMostOnce'
  <2> SUFFICES ASSUME installed', DistinctNames
               PROVE  /\ \A p, q \in Calls' : p.body.of = q.body.of => p = q
                      /\ \A p \in Calls' : p.body.of \notin winning'
    BY DEF RelayedAtMostOnce, DistinctNames
  <2>1. Calls' = Calls /\ installed
    BY <1>2 DEF Calls
  <2>2. \A p \in Calls : p.body.of.height # height
    BY <1>4 DEF Calls, IInv, PacketsOK, BodyOK, WinningRec
  <2> QED
    BY <1>2, <1>3, <2>1, <2>2 DEF IInv, RelayedAtMostOnce
<1>10. RelayedWasApproved'
  BY <1>2 DEF IInv, RelayedWasApproved, Calls
<1>11. PoolOK'
  <2>1. Stranded' = Stranded /\ Cardinality(Stranded) \in Nat
    <3>1. Stranded \subseteq packets /\ Stranded' = Stranded
      BY <1>2 DEF Stranded
    <3> QED
      BY <3>1, FS_Subset, FS_CardinalityType DEF IInv, PacketsOK
  <2>2. CASE Incentives!Distributes(height)
    <3>1. /\ held' = held - incentives.perBlock
          /\ collected' = collected + incentives.perBlock
          /\ pool' = pool - Fraction * incentives.perBlock
          /\ UNCHANGED <<incentives, outstanding>>
      BY <1>2, <2>2 DEF Incentives!EndBlocker, Incentives!PoolAfter
    <3>2. held >= incentives.perBlock
      BY <2>2, NeverPanics, AxelarCorkAssumption DEF Incentives!Panics, IInv, PoolOK
    <3>3. /\ Fraction \in Nat \ {0} /\ incentives.perBlock \in Nat
          /\ pool \in Nat /\ outstanding \in Nat /\ held \in Nat /\ collected \in Nat
          /\ pool + outstanding + Fraction * Cardinality(Stranded) = Fraction * held
      BY AxelarCorkAssumption DEF IInv, PoolOK
    <3>4. pool >= Fraction * incentives.perBlock /\ Fraction * incentives.perBlock \in Nat
      BY <2>2, <3>3 DEF Incentives!Distributes, Incentives!Negative
    <3>5. Fraction * (held - incentives.perBlock) =
            Fraction * held - Fraction * incentives.perBlock
      BY <3>3, Times
    <3>6. Fraction * held \in Nat /\ Fraction * Cardinality(Stranded) \in Nat
      BY <2>1, <3>3
    <3> QED
      BY <2>1, <3>1, <3>2, <3>3, <3>4, <3>5, <3>6 DEF IInv, PoolOK
  <2>3. CASE ~ Incentives!Distributes(height)
    BY <1>2, <2>1, <2>3 DEF Incentives!EndBlocker, Incentives!incentivesVars, IInv, PoolOK
  <2> QED
    BY <2>2, <2>3
<1> QED
  BY <1>2, <1>5, <1>6, <1>7, <1>8, <1>9, <1>10, <1>11, NoncesKept, UpgradesKept DEF IInv

\* The BeginBlocker of x/distribution shares out the fees it takes in.
LEMMA BeginBlockIInv == ASSUME IInv, BeginBlock PROVE IInv'
<1>1. /\ held' = held + collected
      /\ pool' = pool + Tax * collected
      /\ outstanding' = outstanding + (Fraction - Tax) * collected
      /\ collected' = 0
      /\ UNCHANGED <<incentives, installed, height, halted, executed, govVars,
                     corkVars, packets, refunded>>
  BY DEF BeginBlock, Incentives!AllocateTokens
<1>2. PoolOK'
  <2>1. Stranded' = Stranded /\ Cardinality(Stranded) \in Nat
    <3>1. Stranded \subseteq packets /\ Stranded' = Stranded
      BY <1>1 DEF Stranded
    <3> QED
      BY <3>1, FS_Subset, FS_CardinalityType DEF IInv, PacketsOK
  <2>2. /\ Fraction \in Nat \ {0} /\ Tax \in Nat /\ Fraction - Tax \in Nat
        /\ pool \in Nat /\ outstanding \in Nat /\ held \in Nat /\ collected \in Nat
        /\ pool + outstanding + Fraction * Cardinality(Stranded) = Fraction * held
    BY AxelarCorkAssumption DEF IInv, PoolOK
  <2>3. /\ Tax * collected \in Nat /\ (Fraction - Tax) * collected \in Nat
        /\ Fraction * Cardinality(Stranded) \in Nat /\ Fraction * held \in Nat
        /\ Fraction * collected \in Nat
    BY <2>1, <2>2
  <2>4. Tax * collected + (Fraction - Tax) * collected = Fraction * collected
    BY <2>2
  <2>5. Fraction * (held + collected) = Fraction * held + Fraction * collected
    BY <2>2, Times
  <2> QED
    BY <1>1, <2>1, <2>2, <2>3, <2>4, <2>5 DEF IInv, PoolOK
<1> QED
  BY <1>1, <1>2, VotesKept, WinningKept, PacketsKept, NoncesKept, UpgradesKept,
     RelayedKept DEF IInv, GovOK, govVars, corkVars

\* Rewards leave in whole coins, and the rest of them goes to the pool.
LEMMA WithdrawRewardsIInv == ASSUME IInv, WithdrawRewards PROVE IInv'
<1>1. PICK parts \in 1..outstanding :
        /\ outstanding' = outstanding - parts
        /\ held' = held - (parts \div Fraction)
        /\ pool' = pool + (parts % Fraction)
        /\ UNCHANGED <<incentives, collected>>
  BY DEF WithdrawRewards, Incentives!WithdrawRewards
<1>2. UNCHANGED <<installed, height, halted, executed, govVars, corkVars, packets,
                  refunded>>
  BY DEF WithdrawRewards
<1>3. PoolOK'
  <2> DEFINE q == parts \div Fraction
             r == parts % Fraction
  <2>1. Stranded' = Stranded /\ Cardinality(Stranded) \in Nat
    <3>1. Stranded \subseteq packets /\ Stranded' = Stranded
      BY <1>2 DEF Stranded
    <3> QED
      BY <3>1, FS_Subset, FS_CardinalityType DEF IInv, PacketsOK
  <2>2. /\ Fraction \in Nat \ {0} /\ parts \in Nat /\ parts <= outstanding
        /\ pool \in Nat /\ outstanding \in Nat /\ held \in Nat
        /\ pool + outstanding + Fraction * Cardinality(Stranded) = Fraction * held
    BY AxelarCorkAssumption DEF IInv, PoolOK
  <2>3. q \in Nat /\ r \in Nat /\ parts = Fraction * q + r
    BY <2>2
  <2> HIDE DEF q, r
  <2>4. /\ Fraction * q \in Nat /\ Fraction * held \in Nat
        /\ Fraction * Cardinality(Stranded) \in Nat
    BY <2>1, <2>2, <2>3
  <2>5. held >= q /\ Fraction * (held - q) = Fraction * held - Fraction * q
    <3>1. Fraction * held >= Fraction * q
      BY <2>2, <2>3, <2>4
    <3> QED
      BY <2>2, <2>3, <3>1, Times
  <2>6. outstanding' = outstanding - parts /\ held' = held - q /\ pool' = pool + r
    BY <1>1 DEF q, r
  <2>7. held' \in Nat /\ pool' \in Nat /\ outstanding' \in Nat
    BY <2>2, <2>3, <2>5, <2>6
  <2>8. pool' + outstanding' + Fraction * Cardinality(Stranded) = Fraction * held'
    BY <2>2, <2>3, <2>4, <2>5, <2>6
  <2> QED
    BY <1>1, <2>1, <2>7, <2>8 DEF IInv, PoolOK
<1> QED
  BY <1>2, <1>3, VotesKept, WinningKept, PacketsKept, NoncesKept, UpgradesKept,
     RelayedKept DEF IInv, GovOK, govVars, corkVars

\* Every step preserves the invariant.
LEMMA NextIInv == IInv /\ [Next]_vars => IInv'
<1> SUFFICES ASSUME IInv, [Next]_vars PROVE IInv'
  OBVIOUS
<1>1. ASSUME SomeCork PROVE IInv'
  BY <1>1, ScheduleCorkIInv, AxelarCorkAssumption DEF SomeCork
<1>2. ASSUME SomeRelay PROVE IInv'
  BY <1>2, RelayCorkIInv, RelayProxyUpgradeIInv, BumpCorkGasIInv, PacketFailsIInv
     DEF SomeRelay
<1>3. ASSUME Governance PROVE IInv'
  BY <1>3, GovernanceIInv
<1>4. ASSUME EndBlock PROVE IInv'
  <2>1. ASSUME NEW t \in PowerTables, HaltInEndBlocker(t) PROVE IInv'
    <3>1. /\ halted' = TRUE
          /\ UNCHANGED <<installed, height, executed, govVars, corkVars, packetVars>>
      BY <2>1 DEF HaltInEndBlocker
    <3>2. GovOK'
      BY <3>1 DEF IInv, GovOK, govVars
    <3> QED
      BY <3>1, <3>2, VotesKept, WinningKept, PacketsKept, NoncesKept, UpgradesKept,
         RelayedKept, PoolKept DEF IInv, corkVars, packetVars
  <2> QED
    BY <1>4, <2>1, EndBlockerIInv DEF EndBlock
<1>5. ASSUME UNCHANGED vars PROVE IInv'
  <2>1. /\ UNCHANGED <<installed, height, halted, executed, govVars, scheduled, winning>>
        /\ UNCHANGED <<results, nonces, upgrades, packets, refunded, poolVars>>
    BY <1>5 DEF vars, corkVars, packetVars
  <2> QED
    BY <2>1, VotesKept, WinningKept, PacketsKept, NoncesKept, UpgradesKept,
       RelayedKept, PoolKept DEF IInv, GovOK, govVars
<1> QED
  BY <1>1, <1>2, <1>3, <1>4, <1>5, BeginBlockIInv, WithdrawRewardsIInv DEF Next

\* The invariant holds in every reachable state.
THEOREM Invariance == Spec => []IInv
<1> QED
  BY InitIInv, NextIInv, PTL DEF Spec

-----------------------------------------------------------------------------
(* What it is for *)

\* The stores of x/axelarcork are well formed and hold one entry per key, and
\* neither the community pool nor a balance goes below zero.
THEOREM TypeCorrect == Spec => []TypeOK
<1>1. IInv => TypeOK
  BY DEF IInv, TypeOK, OneEntryPerKey, GovOK, VotesOK, WinningOK, PacketsOK, NoncesOK,
     UpgradesOK, PoolOK
<1> QED
  BY <1>1, Invariance, PTL

\* With the middleware in the send path and distinct chain names, RelayCork
\* sends an approved cork at most once.
THEOREM RelayedOnce == Spec => []RelayedAtMostOnce
<1>1. IInv => RelayedAtMostOnce
  BY DEF IInv
<1> QED
  BY <1>1, Invariance, PTL

\* The nonces of the calls to a contract have no gap and no repetition,
\* whatever governance does to the configuration of its chain.
THEOREM ConsecutiveNonces == Spec => []NoncesAreConsecutive
<1>1. IInv => NoncesAreConsecutive
  BY DEF IInv, NoncesOK
<1> QED
  BY <1>1, Invariance, PTL

\* What RelayCork sends was tallied in an earlier block, and approved.
THEOREM OnlyApprovedIsRelayed == Spec => []RelayedWasApproved
<1>1. IInv => RelayedWasApproved
  BY DEF IInv
<1> QED
  BY <1>1, Invariance, PTL

\* RelayProxyUpgrade sends an upgrade once, and not before its threshold.
THEOREM UpgradesLeaveOnce == Spec => []UpgradesWaitAndLeaveOnce
<1>1. IInv => UpgradesWaitAndLeaveOnce
  BY DEF IInv, UpgradesOK
<1> QED
  BY <1>1, Invariance, PTL

\* The coins of the distribution account back the community pool and the
\* rewards, so the EndBlocker of x/incentives never panics.
THEOREM BackedPool == Spec => []PoolIsBacked
<1>1. IInv => PoolIsBacked
  BY NeverPanics DEF IInv, PoolOK, PoolIsBacked
<1> QED
  BY <1>1, Invariance, PTL

\* A proposal for the cellars of one chain touches the subscriptions of that
\* chain only, and drops those of the cellars it removes.
THEOREM SubscriptionsFollow == Spec => SubscriptionsFollowCellars
<1> DEFINE Follow ==
      \A chain \in Chains : cellars'[chain] # cellars[chain] =>
         /\ \A s \in Chains \X Cellars : s[1] # chain =>
               /\ s \in DOMAIN subscriptions' <=> s \in DOMAIN subscriptions
               /\ s \in DOMAIN subscriptions => subscriptions'[s] = subscriptions[s]
         /\ \A c \in cellars[chain] \ cellars'[chain] :
               <<chain, c>> \notin DOMAIN subscriptions'
<1>1. ASSUME IInv, [Next]_vars PROVE [Follow]_vars
  <2>1. ASSUME NEW x \in Chains, NEW ids \in SUBSET Cellars, NEW p \in Domains,
               AddManagedCellars(x, ids, p)
        PROVE  Follow
    <3>1. cellars' = [cellars EXCEPT ![x] = @ \cup ids]
          /\ cellars \in [Chains -> SUBSET Cellars]
      BY <1>1, <2>1 DEF AddManagedCellars, IInv, GovOK
    <3> DEFINE new == {<<x, c>> : c \in ids \ cellars[x]}
    <3>2. subscriptions' = [s \in DOMAIN subscriptions \cup new |->
                              IF s \in new THEN p ELSE subscriptions[s]]
      BY <2>1 DEF AddManagedCellars
    <3>3. \A s \in new : s[1] = x
      OBVIOUS
    <3> HIDE DEF new
    <3> SUFFICES ASSUME NEW chain \in Chains, cellars'[chain] # cellars[chain]
                 PROVE  /\ \A s \in Chains \X Cellars : s[1] # chain =>
                             /\ s \in DOMAIN subscriptions' <=> s \in DOMAIN subscriptions
                             /\ s \in DOMAIN subscriptions =>
                                  subscriptions'[s] = subscriptions[s]
                        /\ \A c \in cellars[chain] \ cellars'[chain] :
                             <<chain, c>> \notin DOMAIN subscriptions'
      OBVIOUS
    <3>4. chain = x
      BY <3>1
    <3>5. cellars[chain] \ cellars'[chain] = {}
      BY <3>1, <3>4
    <3> QED
      BY <3>2, <3>3, <3>4, <3>5
  <2>2. ASSUME NEW x \in Chains, NEW ids \in SUBSET Cellars, RemoveManagedCellars(x, ids)
        PROVE  Follow
    <3>1. cellars' = [cellars EXCEPT ![x] = @ \ ids]
          /\ cellars \in [Chains -> SUBSET Cellars]
      BY <1>1, <2>2 DEF RemoveManagedCellars, IInv, GovOK
    <3>2. subscriptions' = [s \in DOMAIN subscriptions \ ({x} \X ids) |-> subscriptions[s]]
      <4>1. Drop(subscriptions, {x} \X ids) =
              [s \in DOMAIN subscriptions \ ({x} \X ids) |-> subscriptions[s]]
        BY DEF Drop, Restrict
      <4> QED
        BY <2>2, <4>1 DEF RemoveManagedCellars, SubscriptionIDs
    <3> SUFFICES ASSUME NEW chain \in Chains, cellars'[chain] # cellars[chain]
                 PROVE  /\ \A s \in Chains \X Cellars : s[1] # chain =>
                             /\ s \in DOMAIN subscriptions' <=> s \in DOMAIN subscriptions
                             /\ s \in DOMAIN subscriptions =>
                                  subscriptions'[s] = subscriptions[s]
                        /\ \A c \in cellars[chain] \ cellars'[chain] :
                             <<chain, c>> \notin DOMAIN subscriptions'
      OBVIOUS
    <3>3. chain = x
      BY <3>1
    <3>4. \A c \in cellars[chain] \ cellars'[chain] : c \in ids
      BY <3>1, <3>3
    <3>5. \A s \in Chains \X Cellars : s[1] # chain => s \notin {x} \X ids
      BY <3>3
    <3> QED
      BY <3>2, <3>3, <3>4, <3>5
  <2>3. ASSUME cellars' = cellars PROVE Follow
    BY <2>3
  <2>4. ASSUME Governance PROVE Follow
    <3>1. \/ \E x \in Chains, ids \in SUBSET Cellars :
               \/ \E p \in Domains : AddManagedCellars(x, ids, p)
               \/ RemoveManagedCellars(x, ids)
          \/ cellars' = cellars
      BY <2>4 DEF Governance, AddChainConfiguration, RemoveChainConfiguration,
         UpgradeProxyContract, CancelUpgrade, CommunityPoolSpend, SetEnabled,
         SetIncentives, PubsubStep, govVars
    <3> QED
      BY <2>1, <2>2, <2>3, <3>1
  <2>5. ASSUME Next, ~ Governance PROVE cellars' = cellars
    BY <2>5 DEF Next, BeginBlock, SomeCork, ScheduleCork, SomeRelay, RelayCork,
       RelayProxyUpgrade, BumpCorkGas, PacketFails, WithdrawRewards, EndBlock,
       EndBlocker, EndBlockCompletes, HaltInEndBlocker, govVars
  <2> QED
    BY <1>1, <2>3, <2>4, <2>5
<1> QED
  BY <1>1, Invariance, PTL DEF Spec, SubscriptionsFollowCellars
=============================================================================
