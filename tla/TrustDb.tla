------------------------------- MODULE TrustDb -------------------------------
(***************************************************************************)
(* The tables of trust management (TrustDb) and the jobs that change them. *)
(*                                                                         *)
(* The tables are shared by all accounts and encryption protocols: a       *)
(* "store" is a pair of them.  A table is a function from the values of    *)
(* its primary key to those of the other columns.                          *)
(*                                                                         *)
(* Jobs that are not run in a transaction may be interrupted by the end of *)
(* the process.  Their steps are covered by jobs for fewer keys.           *)
(***************************************************************************)
EXTENDS FiniteSets

CONSTANTS
    Accounts,
    Encryptions,
    Owners,         \* addresses of the owners of keys
    Keys,           \* IDs of keys
    Levels,         \* QXmpp::TrustLevel
    Undecided,      \* the level of a key that is not stored
    Policies,       \* QXmpp::TrustSecurityPolicy without "no policy"
    NoPolicy, NoKey, Unknown

ASSUME ConstantsAssumption ==
    /\ IsFiniteSet(Owners) /\ IsFiniteSet(Keys)
    /\ Undecided \in Levels
    /\ NoPolicy \notin Policies /\ NoKey \notin Keys
    /\ Unknown \notin Levels /\ Unknown \notin [sender : Keys, trust : BOOLEAN]

VARIABLES
    policies,    \* trustSecurityPolicies: from stores to policies
    ownKeys,     \* trustOwnKeys: from stores to keys
    keys,        \* trustKeys: from stores, owners and keys to levels
    postponed    \* trustKeysUnprocessed: from stores, owners and keys to decisions

tables == <<policies, ownKeys, keys, postponed>>

Stores == [account : Accounts, encryption : Encryptions]
OwnedKeys == Owners \X Keys
Decisions == [sender : Keys, trust : BOOLEAN]

\* The tables with primary keys in P and values in V.
Tables(P, V) == UNION {[S -> V] : S \in SUBSET P}

TrustTypeOK ==
    /\ policies \in Tables(Stores, Policies)
    /\ ownKeys \in Tables(Stores, Keys)
    /\ keys \in Tables(Stores \X OwnedKeys, Levels)
    /\ postponed \in Tables(Stores \X OwnedKeys, Decisions)

-----------------------------------------------------------------------------
(* Statements.                                                             *)

\* INSERT OR REPLACE
Upserted(table, rows) ==
    [r \in DOMAIN table \cup DOMAIN rows |-> IF r \in DOMAIN rows THEN rows[r] ELSE table[r]]

\* DELETE
Without(table, R) == [r \in DOMAIN table \ R |-> table[r]]

Row(s, S) == {s} \X S
RowsOf(s) == Row(s, OwnedKeys)

-----------------------------------------------------------------------------
(* Queries.                                                                *)

SecurityPolicy(s) == IF s \in DOMAIN policies THEN policies[s] ELSE NoPolicy
OwnKey(s) == IF s \in DOMAIN ownKeys THEN ownKeys[s] ELSE NoKey

TrustLevel(s, k) == IF <<s, k>> \in DOMAIN keys THEN keys[<<s, k>>] ELSE Undecided

\* The keys of some owners with one of the levels; all levels if there is none.
KeysOf(s, owners, levels) ==
    {k \in owners \X Keys : <<s, k>> \in DOMAIN keys /\ (levels = {} \/ keys[<<s, k>>] \in levels)}

HasKey(s, owner, levels) == KeysOf(s, {owner}, levels) # {}

\* The postponed decisions of some senders; of all senders if there is none.
PostponedBy(s, senders) ==
    {k \in OwnedKeys : /\ <<s, k>> \in DOMAIN postponed
                       /\ senders = {} \/ postponed[<<s, k>>].sender \in senders}

-----------------------------------------------------------------------------
(* Jobs.                                                                   *)

TrustInit ==
    /\ policies = [s \in {} |-> NoPolicy]
    /\ ownKeys = [s \in {} |-> NoKey]
    /\ keys = [k \in {} |-> Undecided]
    /\ postponed = [k \in {} |-> Unknown]

SetSecurityPolicy(s, policy) ==
    /\ policies' = Upserted(policies, [r \in {s} |-> policy])
    /\ UNCHANGED <<ownKeys, keys, postponed>>

ResetSecurityPolicy(s) ==
    /\ policies' = Without(policies, {s})
    /\ UNCHANGED <<ownKeys, keys, postponed>>

SetOwnKey(s, key) ==
    /\ ownKeys' = Upserted(ownKeys, [r \in {s} |-> key])
    /\ UNCHANGED <<policies, keys, postponed>>

ResetOwnKey(s) ==
    /\ ownKeys' = Without(ownKeys, {s})
    /\ UNCHANGED <<policies, keys, postponed>>

\* A fault: rows are identified by owner and key.
AddKeysForAll(s, owner, K, level) ==
    /\ keys' = Upserted(keys, [r \in Stores \X ({owner} \X K) |-> level])
    /\ UNCHANGED <<policies, ownKeys, postponed>>

AddKeys(s, owner, K, level) ==
    /\ keys' = Upserted(keys, [r \in Row(s, {owner} \X K) |-> level])
    /\ UNCHANGED <<policies, ownKeys, postponed>>

\* removeKeys() by IDs, of one owner and of all owners.
RemoveKeys(s, owners, K) ==
    /\ keys' = Without(keys, Row(s, owners \X K))
    /\ UNCHANGED <<policies, ownKeys, postponed>>

\* The keys that setTrustLevel() reports as changed: those that were not stored, too.
Changed(s, K, level) == {k \in K : <<s, k>> \notin DOMAIN keys \/ keys[<<s, k>>] # level}

SetTrustLevel(s, K, level) ==
    /\ keys' = Upserted(keys, [r \in Row(s, Changed(s, K, level)) |-> level])
    /\ UNCHANGED <<policies, ownKeys, postponed>>

\* The other setTrustLevel(): all keys of some owners that have the old level.
ChangedFrom(s, owners, old) == KeysOf(s, owners, {old})

SetTrustLevels(s, owners, old, new) ==
    /\ keys' = Upserted(keys, [r \in Row(s, ChangedFrom(s, owners, old)) |-> new])
    /\ UNCHANGED <<policies, ownKeys, postponed>>

\* The decisions of a message about keys, of which those to distrust are inserted last.
AddPostponed(s, sender, trusted, distrusted) ==
    /\ postponed' = Upserted(postponed,
          [r \in Row(s, trusted \cup distrusted) |->
              [sender |-> sender, trust |-> r[2] \notin distrusted]])
    /\ UNCHANGED <<policies, ownKeys, keys>>

\* removeKeysForPostponedTrustDecisions() by decisions, by senders and all of them
RemoveMade(s, trusted, distrusted) ==
    /\ postponed' = Without(postponed,
          {r \in RowsOf(s) \cap DOMAIN postponed :
              r[2][2] \in IF postponed[r].trust THEN trusted ELSE distrusted})
    /\ UNCHANGED <<policies, ownKeys, keys>>

RemovePostponedBy(s, senders) ==
    /\ postponed' = Without(postponed,
          {r \in RowsOf(s) \cap DOMAIN postponed : postponed[r].sender \in senders})
    /\ UNCHANGED <<policies, ownKeys, keys>>

RemoveAllPostponed(s) ==
    /\ postponed' = Without(postponed, RowsOf(s))
    /\ UNCHANGED <<policies, ownKeys, keys>>

\* resetAll() for one protocol or for all of an account
ResetAll(S) ==
    /\ policies' = Without(policies, S)
    /\ ownKeys' = Without(ownKeys, S)
    /\ keys' = Without(keys, S \X OwnedKeys)
    /\ postponed' = Without(postponed, S \X OwnedKeys)

StoresOf(account) == {s \in Stores : s.account = account}

-----------------------------------------------------------------------------

\* One job for one store.
TrustJob(s) ==
    \/ \E p \in Policies : SetSecurityPolicy(s, p)
    \/ ResetSecurityPolicy(s)
    \/ \E k \in Keys : SetOwnKey(s, k)
    \/ ResetOwnKey(s)
    \/ \E o \in Owners, K \in SUBSET Keys, l \in Levels : AddKeys(s, o, K, l)
    \/ \E O \in SUBSET Owners, K \in SUBSET Keys : RemoveKeys(s, O, K)
    \/ \E K \in SUBSET OwnedKeys, l \in Levels : SetTrustLevel(s, K, l)
    \/ \E O \in SUBSET Owners, old, new \in Levels : SetTrustLevels(s, O, old, new)
    \/ \E k \in Keys, T, D \in SUBSET OwnedKeys : AddPostponed(s, k, T, D)
    \/ \E T, D \in SUBSET Keys : RemoveMade(s, T, D)
    \/ \E K \in SUBSET Keys : RemovePostponedBy(s, K)
    \/ RemoveAllPostponed(s)
    \/ ResetAll({s})

TrustNext ==
    \/ \E s \in Stores : TrustJob(s)
    \/ \E a \in Accounts : ResetAll(StoresOf(a))

TrustSpec == TrustInit /\ [][TrustNext]_tables

-----------------------------------------------------------------------------
(* Each store implements the storage QXmpp relies on.                      *)

LevelsOf(s) ==
    [k \in OwnedKeys |-> IF <<s, k>> \in DOMAIN keys THEN keys[<<s, k>>] ELSE Unknown]
DecisionsOf(s) ==
    [k \in OwnedKeys |-> IF <<s, k>> \in DOMAIN postponed THEN postponed[<<s, k>>] ELSE Unknown]

Storage(s) == INSTANCE TrustStorage WITH
    policy <- SecurityPolicy(s), ownKey <- OwnKey(s), level <- LevelsOf(s),
    decision <- DecisionsOf(s)

\* The jobs are steps of the storages that QXmpp relies on.  One account or protocol never sees
\* what another one stores (TrustDb.cpp): a job changes several storages only if it resets those
\* of an account.
StoragesImplemented ==
    /\ \A s \in Stores : Storage(s)!Init
    /\ [][/\ \A s \in Stores : [Storage(s)!Next]_(Storage(s)!storage)
          /\ \A r, s \in Stores :
                \/ r = s
                \/ UNCHANGED Storage(r)!storage
                \/ UNCHANGED Storage(s)!storage
                \/ r.account = s.account /\ Storage(r)!Reset /\ Storage(s)!Reset]_tables
=============================================================================
