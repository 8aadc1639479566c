----------------------------- MODULE CorkProofs -----------------------------
(* Proofs about x/cork, for any validators, cellars, calls and stakes. *)
EXTENDS Cork, FiniteSetTheorems, TLAPS

\* The inductive invariant: the properties, and the facts their induction
\* rests on: finitely many votes, and results and calls only of past blocks.
PastOnly ==
    /\ \A r \in results : r.height < height
    /\ \A c \in calls : c.height < height

IInv ==
    /\ TypeOK
    /\ IsFiniteSet(scheduled)
    /\ NothingLeftBehind
    /\ CountsCoverScheduled
    /\ PastOnly
    /\ CallsMatchResults

\* Adding an element to a finite set adds at most one to its cardinality.
LEMMA AddOne ==
    ASSUME NEW S, IsFiniteSet(S), NEW x
    PROVE  /\ IsFiniteSet(S \cup {x})
           /\ Cardinality(S) \in Nat /\ Cardinality(S \cup {x}) \in Nat
           /\ Cardinality(S \cup {x}) <= Cardinality(S) + 1
<1>1. Cardinality(S) \in Nat
  BY FS_CardinalityType
<1>2. IsFiniteSet(S \cup {x})
  BY FS_AddElement
<1>3. Cardinality(S \cup {x}) = Cardinality(S) \/ Cardinality(S \cup {x}) = Cardinality(S) + 1
  BY FS_AddElement
<1> QED
  BY <1>1, <1>2, <1>3

\* Taking a part away from a finite set subtracts its cardinality.
LEMMA TakeAway ==
    ASSUME NEW S, IsFiniteSet(S), NEW T \in SUBSET S
    PROVE  /\ IsFiniteSet(T) /\ IsFiniteSet(S \ T)
           /\ Cardinality(S) \in Nat /\ Cardinality(T) \in Nat
           /\ Cardinality(S \ T) = Cardinality(S) - Cardinality(T)
           /\ Cardinality(T) <= Cardinality(S)
<1>1. IsFiniteSet(T) /\ IsFiniteSet(S \ T)
  BY FS_Subset
<1>2. S \cap T = T
  OBVIOUS
<1>3. Cardinality(S \ T) = Cardinality(S) - Cardinality(T)
  BY <1>2, FS_Difference
<1>4. Cardinality(T) <= Cardinality(S)
  BY FS_Subset
<1> QED
  BY <1>1, <1>3, <1>4, FS_CardinalityType

\* The initial state satisfies the invariant.
LEMMA InitIInv == Init => IInv
<1> SUFFICES ASSUME Init PROVE IInv
  OBVIOUS
<1>1. scheduled = {} /\ results = {} /\ calls = {} /\ cellars = {} /\ nonce = 0
      /\ DOMAIN subscriptions = {} /\ counts = [v \in Validators |-> 0]
      /\ height = 1
  BY DEF Init, Pubsub!Init
<1>2. TypeOK
  BY DEF Init, Pubsub!Init, TypeOK
<1>3. IsFiniteSet(scheduled)
  BY <1>1, FS_EmptySet
<1>4. CountsCoverScheduled
  <2> SUFFICES ASSUME NEW v \in Validators
               PROVE  counts[v] >= Cardinality({s \in scheduled : s.val = v})
    BY DEF CountsCoverScheduled
  <2>1. {s \in scheduled : s.val = v} = {}
    BY <1>1
  <2> QED
    BY <1>1, <2>1, FS_EmptySet
<1>5. CallsMatchResults
  <2>1. {c.nonce : c \in calls} = {} /\ 1..nonce = {}
    BY <1>1
  <2> QED
    BY <1>1, <2>1 DEF CallsMatchResults
<1> QED
  BY <1>1, <1>2, <1>3, <1>4, <1>5 DEF IInv, NothingLeftBehind, PastOnly

\* A scheduled cork is for a later block, and its validator's count goes up by
\* at least as much as the number of its scheduled corks.
LEMMA ScheduleCorkIInv ==
    ASSUME IInv, NEW val \in Validators, NEW cork \in Corks, NEW h \in Nat,
           ScheduleCork(val, cork, h)
    PROVE  IInv'
<1> DEFINE new == [height |-> h, cork |-> cork, val |-> val]
           Of(S, v) == {s \in S : s.val = v}
<1> USE DEF IInv
<1>1. /\ scheduled' = scheduled \cup {new}
      /\ counts' = [counts EXCEPT ![val] = @ + 1]
      /\ h > height
      /\ UNCHANGED <<height, phase, cellars, approved, subscriptions, results, nonce,
                     calls, halted>>
  BY DEF ScheduleCork, InTheFuture, SetScheduledCork
<1>2. new \in VoteRec
  BY DEF VoteRec
<1>3. TypeOK'
  <2>1. scheduled' \subseteq VoteRec
    BY <1>1, <1>2 DEF TypeOK
  <2>2. counts' \in [Validators -> Nat]
    BY <1>1 DEF TypeOK
  <2> QED
    BY <1>1, <2>1, <2>2 DEF TypeOK
<1>4. IsFiniteSet(scheduled)'
  BY <1>1, FS_AddElement
<1>5. NothingLeftBehind'
  BY <1>1 DEF NothingLeftBehind, TypeOK
<1>6. CountsCoverScheduled'
  <2> SUFFICES ASSUME NEW v \in Validators
               PROVE  counts'[v] >= Cardinality(Of(scheduled', v))
    BY DEF CountsCoverScheduled
  <2>1. counts[v] >= Cardinality(Of(scheduled, v)) /\ counts[v] \in Nat
    BY DEF CountsCoverScheduled, TypeOK
  <2>2. IsFiniteSet(Of(scheduled, v))
    BY FS_Subset
  <2>3. CASE v = val
    <3>1. Of(scheduled', v) = Of(scheduled, v) \cup {new}
      BY <1>1, <2>3
    <3>3. counts'[v] = counts[v] + 1
      BY <1>1, <2>3 DEF TypeOK
    <3>4. /\ Cardinality(Of(scheduled, v)) \in Nat
          /\ Cardinality(Of(scheduled', v)) \in Nat
          /\ Cardinality(Of(scheduled', v)) <= Cardinality(Of(scheduled, v)) + 1
      BY <3>1, <2>2, AddOne
    <3> QED
      BY <2>1, <3>3, <3>4
  <2>4. CASE v # val
    <3>1. Of(scheduled', v) = Of(scheduled, v)
      BY <1>1, <2>4
    <3>2. counts'[v] = counts[v]
      BY <1>1, <2>4 DEF TypeOK
    <3> QED
      BY <2>1, <3>1, <3>2
  <2> QED
    BY <2>3, <2>4
<1> QED
  BY <1>1, <1>3, <1>4, <1>5, <1>6
     DEF PastOnly, CallsMatchResults

\* Proposals and the steps of x/pubsub change the managed cellars, the
\* publishers and the subscriptions only.
LEMMA GovernanceIInv == IInv /\ (CellarProposal \/ PubsubStep) => IInv'
<1> SUFFICES ASSUME IInv, CellarProposal \/ PubsubStep PROVE IInv'
  OBVIOUS
<1> USE DEF IInv
<1>1. /\ UNCHANGED <<height, scheduled, counts, results, nonce, calls, halted>>
      /\ phase' \in {"deliver", "gov"}
  BY DEF CellarProposal, PubsubStep, AddManagedCellars, RemoveManagedCellars, TypeOK
<1>2. /\ cellars' \subseteq Cellars /\ approved' \subseteq Domains
      /\ DOMAIN subscriptions' \subseteq Cellars
      /\ \A c \in DOMAIN subscriptions' : subscriptions'[c] \in Domains
  <2> USE DEF TypeOK
  <2>1. ASSUME NEW ids \in SUBSET Cellars, NEW p \in Domains, AddManagedCellars(ids, p)
        PROVE  <1>2
    BY <2>1 DEF AddManagedCellars
  <2>2. ASSUME NEW ids \in SUBSET Cellars, RemoveManagedCellars(ids)
        PROVE  <1>2
    BY <2>2 DEF RemoveManagedCellars, DropSubscriptions, Restrict
  <2>3. ASSUME PubsubStep PROVE <1>2
    <3>1. cellars' = cellars /\ (Pubsub!Next \/ \E p \in Domains : Pubsub!RemovePublisher(p))
      BY <2>3 DEF PubsubStep
    <3>2. ASSUME NEW p \in Domains, Pubsub!AddPublisher(p) PROVE <1>2
      BY <3>1, <3>2 DEF Pubsub!AddPublisher
    <3>3. ASSUME NEW p \in Domains, Pubsub!RemovePublisher(p) PROVE <1>2
      BY <3>1, <3>3 DEF Pubsub!RemovePublisher, Pubsub!Restrict
    <3>4. ASSUME NEW p \in Domains, NEW id \in Cellars,
                 Pubsub!AddDefaultSubscription(id, p) PROVE <1>2
      BY <3>1, <3>4 DEF Pubsub!AddDefaultSubscription
    <3>5. ASSUME NEW id \in Cellars, Pubsub!RemoveDefaultSubscription(id) PROVE <1>2
      BY <3>1, <3>5 DEF Pubsub!RemoveDefaultSubscription, Pubsub!Restrict
    <3> QED
      BY <3>1, <3>2, <3>3, <3>4, <3>5 DEF Pubsub!Next
  <2> QED
    BY <2>1, <2>2, <2>3 DEF CellarProposal
<1> QED
  BY <1>1, <1>2 DEF TypeOK, NothingLeftBehind, CountsCoverScheduled, PastOnly,
     CallsMatchResults

\* The votes of a block are a finite part of the scheduled corks, and the
\* corks they are for are finitely many.
LEMMA TallyFinite ==
    ASSUME IInv, NEW t \in PowerTables
    PROVE  /\ Tallied \subseteq Corks /\ Approved(t) \subseteq Tallied
           /\ IsFiniteSet(Approved(t)) /\ Cardinality(Approved(t)) \in Nat
<1>1. DueVotes \subseteq scheduled /\ scheduled \subseteq VoteRec
  BY DEF IInv, TypeOK, DueVotes
<1>2. IsFiniteSet(DueVotes)
  BY <1>1, FS_Subset DEF IInv
<1>3. IsFiniteSet(Tallied)
  <2> DEFINE f == [s \in DueVotes |-> s.cork]
  <2>1. f \in Surjection(DueVotes, Tallied)
    BY DEF Surjection, Tallied
  <2> QED
    BY <1>2, <2>1, FS_Surjection
<1>4. Tallied \subseteq Corks
  BY <1>1 DEF Tallied, VoteRec
<1>5. Approved(t) \subseteq Tallied
  BY DEF Approved
<1> QED
  BY <1>3, <1>4, <1>5, FS_Subset, FS_CardinalityType

\* The EndBlocker: the tallied votes leave the schedule and the counts
\* together, the next nonces go one to each approved cork.
LEMMA EndBlockerIInv ==
    ASSUME IInv, NEW t \in PowerTables, EndBlocker(t)
    PROVE  IInv'
<1> USE DEF IInv
<1> DEFINE A == Approved(t)
           n == Cardinality(Approved(t))
           Of(S, v) == {s \in S : s.val = v}
<1>0. PICK order \in Bijection(A, 1..n) : EndBlockCompletes(t, order)
  BY DEF EndBlocker
<1>1. /\ scheduled' = scheduled \ DueVotes
      /\ counts' = [v \in Validators |-> DecrementedCount(v)]
      /\ nonce' = nonce + n
      /\ height' = height + 1
      /\ phase' = "deliver"
      /\ UNCHANGED <<cellars, approved, subscriptions, halted>>
  BY <1>0 DEF EndBlockCompletes
<1>2. /\ results' = results \cup
           {[height |-> height, cork |-> c, approved |-> c \in A] : c \in Tallied}
      /\ calls' = calls \cup
           {[nonce |-> nonce + order[c], height |-> height, cork |-> c] : c \in A}
  BY <1>0 DEF EndBlockCompletes, CallNonce
<1>3. height \in Nat /\ nonce \in Nat /\ n \in Nat
      /\ Tallied \subseteq Corks /\ A \subseteq Tallied
  BY TallyFinite DEF TypeOK
<1>4. /\ order \in [A -> 1..n]
      /\ \A c, d \in A : order[c] = order[d] => c = d
      /\ \A i \in 1..n : \E c \in A : order[c] = i
  BY <1>0 DEF Bijection, Injection, Surjection, IsInjective
<1>5. IsFiniteSet(scheduled)'
  BY <1>1, FS_Subset
<1>6. NothingLeftBehind'
  <2> SUFFICES ASSUME NEW s \in scheduled' PROVE s.height >= height + 1
    BY <1>1 DEF NothingLeftBehind
  <2>1. s \in scheduled /\ s.height # height /\ s.height \in Nat
    BY <1>1 DEF DueVotes, TypeOK, VoteRec
  <2>2. s.height >= height
    BY <2>1 DEF NothingLeftBehind
  <2> QED
    BY <1>3, <2>1, <2>2
<1>7. \A v \in Validators : counts'[v] \in Nat /\ counts'[v] >= Cardinality(Of(scheduled', v))
  <2> SUFFICES ASSUME NEW v \in Validators
               PROVE  counts'[v] \in Nat /\ counts'[v] >= Cardinality(Of(scheduled', v))
    OBVIOUS
  <2>1. Of(DueVotes, v) \in SUBSET Of(scheduled, v)
    BY DEF DueVotes
  <2>2. Of(scheduled', v) = Of(scheduled, v) \ Of(DueVotes, v)
    BY <1>1
  <2>3. IsFiniteSet(Of(scheduled, v))
    BY FS_Subset
  <2> HIDE DEF Of
  <2>4. /\ Cardinality(Of(scheduled, v)) \in Nat /\ Cardinality(Of(DueVotes, v)) \in Nat
        /\ Cardinality(Of(scheduled', v))
              = Cardinality(Of(scheduled, v)) - Cardinality(Of(DueVotes, v))
        /\ Cardinality(Of(DueVotes, v)) <= Cardinality(Of(scheduled, v))
    BY <2>1, <2>2, <2>3, TakeAway
  <2>5. counts[v] \in Nat /\ counts[v] >= Cardinality(Of(scheduled, v))
    BY DEF CountsCoverScheduled, TypeOK, Of
  <2>6. counts'[v] = IF counts[v] > Cardinality(Of(DueVotes, v))
                     THEN counts[v] - Cardinality(Of(DueVotes, v)) ELSE 0
    BY <1>1 DEF DecrementedCount, Of
  <2> QED
    BY <2>4, <2>5, <2>6
<1>8. CountsCoverScheduled'
  BY <1>7 DEF CountsCoverScheduled
<1>9. results' \subseteq ResultRec
  <2>1. \A c \in Tallied : [height |-> height, cork |-> c, approved |-> c \in A] \in ResultRec
    BY <1>3 DEF ResultRec
  <2> QED
    BY <1>2, <2>1 DEF TypeOK
<1>10. calls' \subseteq CallRec
  <2>1. \A c \in A : [nonce |-> nonce + order[c], height |-> height, cork |-> c] \in CallRec
    BY <1>3, <1>4 DEF CallRec
  <2> QED
    BY <1>2, <2>1 DEF TypeOK
<1>11. TypeOK'
  <2>1. scheduled' \subseteq VoteRec /\ counts' \in [Validators -> Nat]
    BY <1>1, <1>7 DEF TypeOK
  <2>2. height' \in Nat \ {0} /\ nonce' \in Nat
    BY <1>1, <1>3
  <2> QED
    BY <1>1, <1>9, <1>10, <2>1, <2>2 DEF TypeOK
<1>12. PastOnly'
  <2>1. \A r \in results' : r.height < height + 1
    <3> SUFFICES ASSUME NEW r \in results' PROVE r.height < height + 1
      OBVIOUS
    <3>1. CASE r \in results
      BY <1>3, <3>1 DEF PastOnly, TypeOK, ResultRec
    <3>2. CASE r \notin results
      BY <1>2, <1>3, <3>2
    <3> QED
      BY <3>1, <3>2
  <2>2. \A c \in calls' : c.height < height + 1
    <3> SUFFICES ASSUME NEW c \in calls' PROVE c.height < height + 1
      OBVIOUS
    <3>1. CASE c \in calls
      BY <1>3, <3>1 DEF PastOnly, TypeOK, CallRec
    <3>2. CASE c \notin calls
      BY <1>2, <1>3, <3>2
    <3> QED
      BY <3>1, <3>2
  <2> QED
    BY <1>1, <2>1, <2>2 DEF PastOnly
<1>13. CallsMatchResults'
  <2> DEFINE New(c) == [nonce |-> nonce + order[c], height |-> height, cork |-> c]
  <2>1. calls' = calls \cup {New(c) : c \in A}
    BY <1>2
  <2>2. \A c \in calls : c.height # height /\ c.nonce \in 1..nonce
    BY <1>3 DEF PastOnly, CallsMatchResults, TypeOK, CallRec
  <2>3. \A c \in A : New(c).nonce \notin 1..nonce /\ New(c).nonce \in 1..(nonce + n)
    BY <1>3, <1>4
  <2>4. ASSUME NEW r \in results'
        PROVE  r.approved <=> \E c \in calls' : c.height = r.height /\ c.cork = r.cork
    <3>1. CASE r \in results
      <4>1. r.height # height
        BY <1>3, <3>1 DEF PastOnly, TypeOK, ResultRec
      <4>2. r.approved <=> \E c \in calls : c.height = r.height /\ c.cork = r.cork
        BY <3>1 DEF CallsMatchResults
      <4> QED
        BY <2>1, <4>1, <4>2
    <3>2. CASE r \notin results
      <4>1. PICK k \in Tallied : r = [height |-> height, cork |-> k, approved |-> k \in A]
        BY <1>2, <3>2
      <4>2. r.height = height /\ r.cork = k /\ (r.approved <=> k \in A)
        BY <4>1
      <4>3. k \in A => \E c \in calls' : c.height = height /\ c.cork = k
        <5>1. New(k).height = height /\ New(k).cork = k
          OBVIOUS
        <5>2. k \in A => New(k) \in calls'
          BY <2>1
        <5> QED
          BY <5>1, <5>2
      <4>4. (\E c \in calls' : c.height = height /\ c.cork = k) => k \in A
        BY <2>1, <2>2
      <4> QED
        BY <4>2, <4>3, <4>4
    <3> QED
      BY <3>1, <3>2
  <2>5. ASSUME NEW c \in calls', NEW d \in calls',
               c.nonce = d.nonce \/ (c.height = d.height /\ c.cork = d.cork)
        PROVE  c = d
    <3>1. CASE c \in calls /\ d \in calls
      BY <2>5, <3>1 DEF CallsMatchResults
    <3>2. CASE c \in calls /\ d \notin calls
      BY <2>1, <2>2, <2>3, <2>5, <3>2
    <3>3. CASE c \notin calls /\ d \in calls
      BY <2>1, <2>2, <2>3, <2>5, <3>3
    <3>4. CASE c \notin calls /\ d \notin calls
      <4>1. PICK x \in A : c = New(x)
        BY <2>1, <3>4
      <4>2. PICK y \in A : d = New(y)
        BY <2>1, <3>4
      <4>3. x = y
        BY <1>3, <1>4, <2>5, <4>1, <4>2
      <4> QED
        BY <4>1, <4>2, <4>3
    <3> QED
      BY <3>1, <3>2, <3>3, <3>4
  <2>6. {c.nonce : c \in calls'} = 1..(nonce + n)
    <3>1. ASSUME NEW i \in 1..(nonce + n) PROVE \E c \in calls' : c.nonce = i
      <4>1. CASE i <= nonce
        <5>1. i \in {c.nonce : c \in calls}
          BY <1>3, <4>1 DEF CallsMatchResults
        <5> QED
          BY <2>1, <5>1
      <4>2. CASE i > nonce
        <5>1. i - nonce \in 1..n
          BY <1>3, <4>2
        <5>2. PICK c \in A : order[c] = i - nonce
          BY <1>4, <5>1
        <5>3. New(c).nonce = i
          BY <1>3, <5>2
        <5> QED
          BY <2>1, <5>3
      <4> QED
        BY <1>3, <4>1, <4>2
    <3>2. \A c \in calls' : c.nonce \in 1..(nonce + n)
      BY <1>3, <2>1, <2>2, <2>3
    <3> QED
      BY <3>1, <3>2
  <2> QED
    BY <1>1, <2>4, <2>5, <2>6 DEF CallsMatchResults
<1> QED
  BY <1>1, <1>5, <1>6, <1>8, <1>11, <1>12, <1>13 

\* Every step preserves the invariant.
LEMMA NextIInv == IInv /\ [Next]_vars => IInv'
<1> SUFFICES ASSUME IInv, [Next]_vars PROVE IInv'
  OBVIOUS
<1>1. CASE SomeCork
  BY <1>1, ScheduleCorkIInv, CorkAssumption DEF SomeCork
<1>2. CASE CellarProposal \/ PubsubStep
  BY <1>2, GovernanceIInv
<1>3. CASE EndBlock
  <2> PICK t \in PowerTables : EndBlocker(t) \/ HaltInEndBlocker(t)
    BY <1>3 DEF EndBlock
  <2>1. CASE EndBlocker(t)
    BY <2>1, EndBlockerIInv
  <2>2. CASE HaltInEndBlocker(t)
    BY <2>2 DEF HaltInEndBlocker, IInv, TypeOK, NothingLeftBehind,
       CountsCoverScheduled, PastOnly, CallsMatchResults
  <2> QED
    BY <2>1, <2>2
<1>4. CASE ExportAndImport
  <2>1. UNCHANGED <<height, phase, cellars, approved, subscriptions, scheduled, results,
                    nonce, calls>>
    BY <1>4 DEF ExportAndImport
  <2>2. TypeOK'
    BY <1>4 DEF ExportAndImport, IInv, TypeOK
  <2>3. CountsCoverScheduled'
    <3>1. CASE scheduled = {}
      <4> SUFFICES ASSUME NEW v \in Validators
                   PROVE  counts'[v] >= Cardinality({s \in scheduled' : s.val = v})
        BY DEF CountsCoverScheduled
      <4>1. {s \in scheduled' : s.val = v} = {} /\ counts'[v] = 0
        BY <1>4, <2>1, <3>1 DEF ExportAndImport
      <4> QED
        BY <4>1, FS_EmptySet
    <3>2. CASE scheduled # {}
      BY <1>4, <2>1, <3>2 DEF ExportAndImport, IInv, CountsCoverScheduled
    <3> QED
      BY <3>1, <3>2
  <2> QED
    BY <2>1, <2>2, <2>3 DEF IInv, NothingLeftBehind, PastOnly,
       CallsMatchResults
<1>5. CASE UNCHANGED vars
  BY <1>5 DEF vars, IInv, TypeOK, NothingLeftBehind, CountsCoverScheduled,
     PastOnly, CallsMatchResults
<1> QED
  BY <1>1, <1>2, <1>3, <1>4, <1>5 DEF Next

\* The invariant holds in every reachable state.
THEOREM Invariance == Spec => []IInv
<1>1. Init => IInv
  BY InitIInv
<1>2. IInv /\ [Next]_vars => IInv'
  BY NextIInv
<1> QED
  BY <1>1, <1>2, PTL DEF Spec

\* Type correctness of x/cork.
THEOREM TypeCorrect == Spec => []TypeOK
<1>1. IInv => TypeOK
  BY DEF IInv
<1> QED
  BY <1>1, Invariance, PTL

\* No vote is ever left behind by the tally (GetApprovedScheduledCorks looks
\* only at the votes of its own block).
THEOREM NoVoteIsLeftBehind == Spec => []NothingLeftBehind
<1>1. IInv => NothingLeftBehind
  BY DEF IInv
<1> QED
  BY <1>1, Invariance, PTL

\* A validator's cork count never falls below the number of its scheduled
\* corks, so DecrementValidatorCorkCount never meets a zero it should not.
THEOREM CountsNeverTooSmall == Spec => []CountsCoverScheduled
<1>1. IInv => CountsCoverScheduled
  BY DEF IInv
<1> QED
  BY <1>1, Invariance, PTL

\* Approved corks and contract calls correspond one to one, and the
\* invalidation nonces 1, 2, ... are each used exactly once.
THEOREM OneCallPerApprovedCork == Spec => []CallsMatchResults
<1>1. IInv => CallsMatchResults
  BY DEF IInv
<1> QED
  BY <1>1, Invariance, PTL

\* Every step that changes the managed cellars changes the default
\* subscriptions with them (the cellar proposals are the only such steps).
THEOREM CellarsAndSubscriptionsTogether == Spec => SubscriptionsFollowCellars
<1> DEFINE A == cellars' # cellars =>
         /\ \A c \in cellars' \ cellars :
               c \in DOMAIN subscriptions' /\ subscriptions'[c] \in approved
         /\ (cellars \ cellars') \cap DOMAIN subscriptions' = {}
         /\ \A c \in cellars \cap cellars' :
               /\ c \in DOMAIN subscriptions' <=> c \in DOMAIN subscriptions
               /\ c \in DOMAIN subscriptions => subscriptions'[c] = subscriptions[c]
<1>1. [Next]_vars => A
  <2> SUFFICES ASSUME [Next]_vars, cellars' # cellars PROVE A
    OBVIOUS
  <2>1. CellarProposal
    BY DEF Next, vars, SomeCork, ScheduleCork, PubsubStep, EndBlock, EndBlocker,
       EndBlockCompletes, HaltInEndBlocker, ExportAndImport
  <2> PICK ids \in SUBSET Cellars \ {{}} :
          \/ \E p \in Domains : AddManagedCellars(ids, p)
          \/ RemoveManagedCellars(ids)
    BY <2>1 DEF CellarProposal
  <2>2. ASSUME NEW p \in Domains, AddManagedCellars(ids, p) PROVE A
    BY <2>2 DEF AddManagedCellars
  <2>3. ASSUME RemoveManagedCellars(ids) PROVE A
    BY <2>3 DEF RemoveManagedCellars, DropSubscriptions, Restrict
  <2> QED
    BY <2>2, <2>3
<1>2. [Next]_vars => [A]_vars
  BY <1>1
<1> QED
  BY <1>2, PTL DEF Spec, SubscriptionsFollowCellars

\* The safety half of EveryCorkIsDecided: a vote leaves the schedule exactly when
\* the EndBlocker of its own block completes, and that leaves a result for its
\* cork.
DecidedAtItsHeight ==
    \A s \in scheduled :
        /\ s \notin scheduled' <=> s.height = height /\ height' = height + 1
        /\ s \notin scheduled' =>
              \E r \in results' : r.height = s.height /\ r.cork = s.cork

\* No proposal, removal of a cellar, genesis export or other block loses a vote
\* or moves it to another block (abci.go:40-51, keeper.go:279-329).
THEOREM CorksDecidedAtTheirHeight == Spec => [][DecidedAtItsHeight]_vars
<1>1. IInv /\ [Next]_vars => [DecidedAtItsHeight]_vars
  <2> SUFFICES ASSUME IInv, Next PROVE DecidedAtItsHeight
    OBVIOUS
  <2>1. height \in Nat
    BY DEF IInv, TypeOK
  <2>2. CASE \E t \in PowerTables : EndBlocker(t)
    <3>1. PICK t \in PowerTables : EndBlocker(t)
      BY <2>2
    <3>2. /\ scheduled' = scheduled \ DueVotes /\ height' = height + 1
          /\ results' = results \cup
               {[height |-> height, cork |-> c, approved |-> c \in Approved(t)] :
                   c \in Tallied}
      BY <3>1 DEF EndBlocker, EndBlockCompletes
    <3>3. ASSUME NEW s \in scheduled
          PROVE  s \notin scheduled' <=> s.height = height
      BY <3>2 DEF DueVotes
    <3>4. ASSUME NEW s \in DueVotes
          PROVE  \E r \in results' : r.height = s.height /\ r.cork = s.cork
      <4> DEFINE r == [height |-> height, cork |-> s.cork, approved |-> s.cork \in Approved(t)]
      <4>1. s.cork \in Tallied /\ s.height = height
        BY DEF Tallied, DueVotes
      <4>2. r \in results'
        BY <3>2, <4>1
      <4>3. r.height = s.height /\ r.cork = s.cork
        BY <4>1
      <4> QED
        BY <4>2, <4>3
    <3> QED
      BY <3>2, <3>3, <3>4 DEF DecidedAtItsHeight
  <2>3. CASE scheduled \subseteq scheduled' /\ height' = height
    BY <2>1, <2>3 DEF DecidedAtItsHeight
  <2>4. SomeCork => scheduled \subseteq scheduled' /\ height' = height
    BY DEF SomeCork, ScheduleCork, SetScheduledCork
  <2>5. CellarProposal \/ PubsubStep => scheduled' = scheduled /\ height' = height
    BY DEF CellarProposal, PubsubStep, AddManagedCellars, RemoveManagedCellars
  <2>6. ExportAndImport \/ (\E t \in PowerTables : HaltInEndBlocker(t))
           => scheduled' = scheduled /\ height' = height
    BY DEF ExportAndImport, HaltInEndBlocker
  <2> QED
    BY <2>2, <2>3, <2>4, <2>5, <2>6 DEF Next, EndBlock
<1> QED
  BY <1>1, Invariance, PTL DEF Spec
=============================================================================
