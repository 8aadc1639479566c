-------------------------------- MODULE Cork --------------------------------
(***************************************************************************)
(* x/cork: validators schedule contract calls ("corks") on managed cellars *)
(* for a future block; at that block the votes are tallied by power and    *)
(* each approved call is handed to the gravity bridge under a fresh nonce. *)
(*                                                                         *)
(* A block is a delivery phase (transactions), the governance EndBlocker   *)
(* and the module's own EndBlocker.  The stake of the validators is that   *)
(* of the staking module when the EndBlocker runs: any of PowerTables.     *)
(* The id of a cork, a hash of its height and contents, stands for them.   *)
(***************************************************************************)
EXTENDS Integers, FiniteSets, FiniteSetsExt, Functions

CONSTANTS
    Validators,     \* validators with an orchestrator (delegate key)
    Cellars,        \* contract addresses
    ContractCalls,  \* encoded contract calls
    Domains,        \* domains of publishers
    PowerTables,    \* [power, total]: stakes an EndBlocker may find
    MaxHeight,      \* bound: last block
    MaxGovHeight,   \* bound: last block in which governance acts
    MaxCount        \* bound: messages per validator not yet tallied

Corks == [target : Cellars, call : ContractCalls]

\* A validator missing from the domain of power has been removed from the
\* staking module; one that is not bonded has power zero.
ASSUME CorkAssumption ==
    /\ IsFiniteSet(Validators) /\ IsFiniteSet(Cellars)
    /\ IsFiniteSet(ContractCalls)
    /\ \A t \in PowerTables :
          /\ DOMAIN t.power \subseteq Validators
          /\ \A v \in DOMAIN t.power : t.power[v] \in Nat
          /\ t.total \in Nat \ {0}
    /\ MaxHeight \in Nat /\ MaxCount \in Nat /\ MaxGovHeight \in Nat

VARIABLES
    height, phase,
    cellars,        \* the managed cellar ids
    approved,       \* domains of the approved publishers of x/pubsub
    subscriptions,  \* default subscriptions kept in x/pubsub, by cellar
    scheduled,      \* scheduled corks: one per height, cork and validator
    counts,         \* validator cork counts
    results,        \* cork results, by height and cork
    nonce,          \* latest invalidation nonce
    calls,          \* contract calls created in the gravity bridge
    halted

vars == <<height, phase, cellars, approved, subscriptions, scheduled, counts,
          results, nonce, calls, halted>>

Pubsub == INSTANCE DefaultSubscriptions WITH SubscriptionIDs <- Cellars

-----------------------------------------------------------------------------
(* Messages *)

\* Mutant: a cork may be scheduled for the current or a past block.
AnyHeight(h) == TRUE
InTheFuture(h) == h > height

HasCellarID(c) == c \in cellars

\* The same cork of the same validator is overwritten.
SetScheduledCork(h, val, cork) ==
    scheduled' = scheduled \cup {[height |-> h, cork |-> cork, val |-> val]}

\* A cork sent again changes nothing but increments the count all the same.
ScheduleCork(val, cork, h) ==
    /\ halted = "no" /\ phase = "deliver"
    /\ counts[val] < MaxCount
    /\ HasCellarID(cork.target)
    /\ InTheFuture(h)
    /\ SetScheduledCork(h, val, cork)
    /\ counts' = [counts EXCEPT ![val] = @ + 1]
    /\ UNCHANGED <<height, phase, cellars, approved, subscriptions, results,
                   nonce, calls, halted>>

-----------------------------------------------------------------------------
(* Proposals *)

\* HandleAddManagedCellarsProposal: a new cellar gets a default subscription
\* to the publisher; one already managed keeps the one it has.
AddManagedCellars(ids, publisher) ==
    /\ halted = "no"
    /\ publisher \in approved
    /\ phase' = "gov"
    /\ cellars' = cellars \cup ids
    /\ subscriptions' =
         [c \in DOMAIN subscriptions \cup (ids \ cellars) |->
            IF c \in ids \ cellars THEN publisher ELSE subscriptions[c]]
    /\ UNCHANGED <<height, approved, scheduled, counts, results, nonce, calls,
                   halted>>

\* Mutant: the default subscriptions of removed cellars stay.
KeepSubscriptions(ids) == subscriptions
DropSubscriptions(ids) == Restrict(subscriptions, DOMAIN subscriptions \ ids)

\* HandleRemoveManagedCellarsProposal: scheduled corks are left alone.
RemoveManagedCellars(ids) ==
    /\ halted = "no"
    /\ phase' = "gov"
    /\ cellars' = cellars \ ids
    /\ subscriptions' = DropSubscriptions(ids)
    /\ UNCHANGED <<height, approved, scheduled, counts, results, nonce, calls,
                   halted>>

\* x/pubsub changes its publishers and default subscriptions: by proposals,
\* or by the message with which a publisher removes itself.
PubsubStep ==
    /\ halted = "no"
    /\ \/ phase' = "gov" /\ Pubsub!Next
       \/ phase' = phase /\ \E p \in Domains : Pubsub!RemovePublisher(p)
    /\ UNCHANGED <<height, cellars, scheduled, counts, results, nonce, calls,
                   halted>>

-----------------------------------------------------------------------------
(* EndBlocker *)

\* Mutant: the votes of the next block are taken.
NextBlockVotes == {s \in scheduled : s.height = height + 1}
DueVotes == {s \in scheduled : s.height = height}

\* The power of the validators that voted for cork.
VotedPower(power, cork) ==
    MapThenSumSet(LAMBDA s : power[s.val], {s \in DueVotes : s.cork = cork})

\* corkVoteThreshold: more than 67 percent of the total power.
QuorumReached(t, cork) == 100 * VotedPower(t.power, cork) > 67 * t.total

Tallied     == {s.cork : s \in DueVotes}
Approved(t) == {c \in Tallied : QuorumReached(t, c)}

\* Mutant: the calls of one block share a nonce.
SharedNonce(order, c) == nonce + 1
\* The nonces of one block follow the order of the ids.
CallNonce(order, c) == nonce + order[c]

\* Mutant: a decrement for every tallied cork, the other validators' too.
DecrementForAll(val) == counts[val] - Cardinality(DueVotes)
\* Mutant: a tally forgets all of a validator's corks.
ForgetCount(val) ==
    IF \E s \in DueVotes : s.val = val THEN 0 ELSE counts[val]
\* One decrement per tallied cork, never below zero.
DecrementedCount(val) ==
    LET n == Cardinality({s \in DueVotes : s.val = val})
    IN  IF counts[val] > n THEN counts[val] - n ELSE 0

\* The tally of the votes for this block and the calls that follow from it.
\* order is the order of the ids of the approved corks.
EndBlockCompletes(t, order) ==
    /\ scheduled' = scheduled \ DueVotes
    /\ counts' = [v \in Validators |-> DecrementedCount(v)]
    /\ results' = results \cup
         {[height |-> height, cork |-> c, approved |-> c \in Approved(t)] :
             c \in Tallied}
    /\ calls' = calls \cup
         {[nonce |-> CallNonce(order, c), height |-> height, cork |-> c] :
             c \in Approved(t)}
    /\ nonce' = nonce + Cardinality(Approved(t))
    /\ height' = height + 1
    /\ phase' = "deliver"
    /\ UNCHANGED <<cellars, approved, subscriptions, halted>>

\* stakingKeeper.Validator returns nil for a removed validator, and asking nil
\* for its power panics.
EndBlockPanics(t) == \E s \in DueVotes : s.val \notin DOMAIN t.power

EndBlocker(t) ==
    /\ halted = "no" /\ height < MaxHeight
    /\ ~ EndBlockPanics(t)
    /\ \E order \in Bijection(Approved(t), 1..Cardinality(Approved(t))) :
          EndBlockCompletes(t, order)

HaltInEndBlocker(t) ==
    /\ halted = "no" /\ height < MaxHeight
    /\ EndBlockPanics(t)
    /\ halted' = "end"
    /\ UNCHANGED <<height, phase, cellars, approved, subscriptions, scheduled,
                   counts, results, nonce, calls>>

-----------------------------------------------------------------------------
(* Genesis *)

\* ExportGenesis writes a scheduled cork's validator in bech32, InitGenesis
\* reads it as hex and panics.  The counts are not exported.
ExportAndImport ==
    /\ halted = "no" /\ phase = "deliver"
    /\ IF scheduled = {}
       THEN counts' = [v \in Validators |-> 0] /\ halted' = halted
       ELSE counts' = counts /\ halted' = "import"
    /\ UNCHANGED <<height, phase, cellars, approved, subscriptions, scheduled,
                   results, nonce, calls>>

-----------------------------------------------------------------------------
Init ==
    /\ height = 1 /\ phase = "deliver"
    /\ cellars = {} /\ Pubsub!Init
    /\ scheduled = {} /\ counts = [v \in Validators |-> 0]
    /\ results = {} /\ nonce = 0 /\ calls = {}
    /\ halted = "no"

SomeCork ==
    \E v \in Validators, c \in Corks, h \in 1..(MaxHeight - 1) :
        ScheduleCork(v, c, h)

CellarProposal ==
    \E ids \in SUBSET Cellars \ {{}} :
        \/ \E p \in Domains : AddManagedCellars(ids, p)
        \/ RemoveManagedCellars(ids)

EndBlock == \E t \in PowerTables : EndBlocker(t) \/ HaltInEndBlocker(t)

Next ==
    \/ SomeCork
    \/ height <= MaxGovHeight /\ (CellarProposal \/ PubsubStep)
    \/ EndBlock
    \/ ExportAndImport

Spec == Init /\ [][Next]_vars

\* Blocks keep being produced.
FairSpec == Spec /\ WF_vars(EndBlock)

-----------------------------------------------------------------------------
(* Properties *)

VoteRec   == [height : Nat, cork : Corks, val : Validators]
ResultRec == [height : Nat, cork : Corks, approved : BOOLEAN]
CallRec   == [nonce : Nat, height : Nat, cork : Corks]

\* Votes, results and calls are of known corks and validators, and the count of a
\* validator that the tally decrements never goes below zero.
TypeOK ==
    /\ height \in Nat \ {0} /\ phase \in {"deliver", "gov"}
    /\ cellars \subseteq Cellars
    /\ approved \subseteq Domains
    /\ DOMAIN subscriptions \subseteq Cellars
    /\ \A c \in DOMAIN subscriptions : subscriptions[c] \in Domains
    /\ scheduled \subseteq VoteRec
    /\ counts \in [Validators -> Nat]
    /\ results \subseteq ResultRec
    /\ nonce \in Nat
    /\ calls \subseteq CallRec
    /\ halted \in {"no", "end", "import"}

\* No vote is left behind: what is scheduled is for this block or a later one,
\* so the tally, which looks only at its own block's votes, sees every vote.
NothingLeftBehind == \A s \in scheduled : s.height >= height

\* A validator's count never falls below the number of its scheduled corks
\* (re-sent messages make it larger), so the decrement never misses one.
CountsCoverScheduled ==
    \A v \in Validators :
        counts[v] >= Cardinality({s \in scheduled : s.val = v})

\* Exactly one contract call is created for an approved cork and none for a
\* rejected one, and no two calls share a nonce, within and across blocks.
CallsMatchResults ==
    /\ \A r \in results : r.approved <=>
          \E c \in calls : c.height = r.height /\ c.cork = r.cork
    /\ \A c, d \in calls :
          c.nonce = d.nonce \/ (c.height = d.height /\ c.cork = d.cork) => c = d
    /\ {c.nonce : c \in calls} = 1..nonce

\* The managed cellars and the default subscriptions of x/pubsub change
\* together: a cellar that becomes managed is subscribed to an approved
\* publisher, one that is no longer managed has no subscription left, and the
\* subscriptions of the cellars that stay are not touched.
SubscriptionsFollowCellars ==
    [][cellars' # cellars =>
         /\ \A c \in cellars' \ cellars :
               c \in DOMAIN subscriptions' /\ subscriptions'[c] \in approved
         /\ (cellars \ cellars') \cap DOMAIN subscriptions' = {}
         /\ \A c \in cellars \cap cellars' :
               /\ c \in DOMAIN subscriptions' <=> c \in DOMAIN subscriptions
               /\ c \in DOMAIN subscriptions => subscriptions'[c] = subscriptions[c]]_vars

\* Every scheduled cork gets a result at its height, as long as blocks are
\* produced.
EveryCorkIsDecided ==
    \A c \in Corks, h \in 1..(MaxHeight - 1) :
        (\E s \in scheduled : s.height = h /\ s.cork = c) ~>
            \/ \E r \in results : r.height = h /\ r.cork = c
            \/ halted # "no"

-----------------------------------------------------------------------------
(* What the repository's comments say and the code does not do *)

\* genesis.go:30: ExportGenesis writes a genesis "which can be imported again
\* with InitGenesis".
ExportCanBeImported == halted # "import"
=============================================================================
