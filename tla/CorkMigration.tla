---------------------------- MODULE CorkMigration ----------------------------
(***************************************************************************)
(* The upgrade of x/cork from version 1 to version 2 of its store: the v7  *)
(* upgrade handler sets the parameters and Migrate1to2 then removes what   *)
(* version 1 kept.  After it the chain runs the actions of module Cork,    *)
(* over a store in which corks of version 1 may have been left.            *)
(*                                                                         *)
(* A key holds an address as bytes.  The migration reads the bytes of a    *)
(* validator from a key, keeps them as text (Bech32) and makes a key from  *)
(* the bytes of that text.                                                 *)
(***************************************************************************)
EXTENDS Cork

CONSTANT DefaultMaxCorks   \* DefaultParams().MaxCorksPerValidator

VARIABLES
    migrated,
    commitPeriod,   \* the start of the commit period is stored
    oldCorks,       \* keys of the corks validators committed to in version 1
    oldScheduled,   \* keys of the corks scheduled in version 1
    maxCorks        \* the parameter MaxCorksPerValidator: {} while unset

oldVars == <<migrated, commitPeriod, oldCorks, oldScheduled, maxCorks>>

-----------------------------------------------------------------------------
\* ValAddress.String, and the conversion of a string to a ValAddress: its bytes.
Bech32(val) == [text |-> val]
ValAddress(string) == string

\* GetCorkForValidatorAddressKey and GetScheduledCorkKey of version 1
CorkKey(val, contract) == [val |-> val, contract |-> contract]
ScheduledKey(h, val, contract) ==
    [height |-> h, val |-> val, contract |-> contract]

removeOldCorks ==
    /\ oldCorks' = oldCorks \
         {CorkKey(ValAddress(Bech32(k.val)), k.contract) : k \in oldCorks}
    /\ oldScheduled' = oldScheduled \
         {ScheduledKey(k.height, ValAddress(Bech32(k.val)), k.contract) :
            k \in oldScheduled}

\* The handler of the v7 upgrade sets the parameters before it runs the
\* migrations, so MigrateParamStore finds them set.
SetCorkParams == {DefaultMaxCorks}
MigrateParamStore(p) == IF p = {} THEN {DefaultMaxCorks} ELSE p

Migrate1to2 ==
    /\ ~ migrated
    /\ migrated' = TRUE
    /\ maxCorks' = MigrateParamStore(SetCorkParams)
    /\ commitPeriod' = FALSE
    /\ removeOldCorks
    /\ UNCHANGED vars

-----------------------------------------------------------------------------
\* A key of version 1 is shorter than one of version 2.  The EndBlocker of the
\* block it is for takes the first 32 bytes after the height for the id and the
\* last 8 for the validator, whom the staking module does not know: it panics.
LeftoverDue == \E k \in oldScheduled : k.height = height

HaltOnLeftover ==
    /\ halted = "no" /\ height < MaxHeight
    /\ LeftoverDue
    /\ halted' = "end"
    /\ UNCHANGED <<height, phase, cellars, approved, subscriptions, scheduled,
                   counts, results, nonce, calls>>

AfterMigration ==
    /\ migrated
    /\ \/ SomeCork
       \/ height <= MaxGovHeight /\ (CellarProposal \/ PubsubStep)
       \/ ~ LeftoverDue /\ EndBlock
       \/ HaltOnLeftover
    /\ UNCHANGED oldVars

\* Version 1 ran before: any corks it had stored, whatever their height.
MigrationInit ==
    /\ Init
    /\ migrated = FALSE /\ commitPeriod \in BOOLEAN
    /\ oldCorks \in SUBSET {CorkKey(v, c) : v \in Validators, c \in Cellars}
    /\ oldScheduled \in SUBSET {ScheduledKey(h, v, c) :
                           h \in {1, MaxHeight - 1}, v \in Validators, c \in Cellars}
    /\ maxCorks = {}

MigrationNext == Migrate1to2 \/ AfterMigration

MigrationSpec == MigrationInit /\ [][MigrationNext]_<<vars, oldVars>>

-----------------------------------------------------------------------------
\* store.go:42: the migration is to "wipe away all existing cork state during
\* upgrade -- there shouldn't be in-transit corks during the upgrade".
OldCorksAreWiped ==
    migrated => ~ commitPeriod /\ oldCorks = {} /\ oldScheduled = {}
=============================================================================
