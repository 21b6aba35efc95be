---------------------------- MODULE TrustStorage ----------------------------
(***************************************************************************)
(* What the trust management of QXmpp relies on: a storage that knows a    *)
(* policy and an own key, a level of trust for each key of each owner, and *)
(* decisions that are postponed until the key of their sender is           *)
(* authenticated, the last one for each key.                               *)
(*                                                                         *)
(* One storage belongs to one account and one encryption protocol.         *)
(* TrustDb implements it with tables shared by all accounts.               *)
(***************************************************************************)
CONSTANTS Owners, Keys, Levels, Policies, NoPolicy, NoKey, Unknown

VARIABLES
    policy,      \* the security policy, NoPolicy by default
    ownKey,      \* the own key or NoKey
    level,       \* the level of each key, Unknown if the key is not stored
    decision     \* the postponed decision about each key, Unknown if there is none

storage == <<policy, ownKey, level, decision>>

OwnedKeys == Owners \X Keys

\* A process starts with what earlier ones stored, which is nothing at first.
Init ==
    /\ policy \in Policies \cup {NoPolicy}
    /\ ownKey \in Keys \cup {NoKey}
    /\ level \in [OwnedKeys -> Levels \cup {Unknown}]
    /\ decision \in [OwnedKeys -> [sender : Keys, trust : BOOLEAN] \cup {Unknown}]

SetPolicy ==
    /\ policy' \in Policies \cup {NoPolicy}
    /\ UNCHANGED <<ownKey, level, decision>>

SetOwnKey ==
    /\ ownKey' \in Keys \cup {NoKey}
    /\ UNCHANGED <<policy, level, decision>>

\* Some keys get the same level or are forgotten.
SetLevels ==
    /\ \E K \in SUBSET OwnedKeys, l \in Levels \cup {Unknown} :
          level' = [k \in OwnedKeys |-> IF k \in K THEN l ELSE level[k]]
    /\ UNCHANGED <<policy, ownKey, decision>>

\* Decisions of one sender replace earlier ones about the same keys.
Postpone ==
    /\ \E sender \in Keys, K \in SUBSET OwnedKeys : \E T \in SUBSET K :
          decision' = [k \in OwnedKeys |->
                          IF k \in K THEN [sender |-> sender, trust |-> k \in T] ELSE decision[k]]
    /\ UNCHANGED <<policy, ownKey, level>>

\* Decisions that were made, or whose senders are not trusted, are forgotten.
Forget ==
    /\ \E K \in SUBSET OwnedKeys :
          decision' = [k \in OwnedKeys |-> IF k \in K THEN Unknown ELSE decision[k]]
    /\ UNCHANGED <<policy, ownKey, level>>

Reset ==
    /\ policy' = NoPolicy
    /\ ownKey' = NoKey
    /\ level' = [k \in OwnedKeys |-> Unknown]
    /\ decision' = [k \in OwnedKeys |-> Unknown]

Next == SetPolicy \/ SetOwnKey \/ SetLevels \/ Postpone \/ Forget \/ Reset

Spec == Init /\ [][Next]_storage
=============================================================================
