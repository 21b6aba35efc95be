-------------------------- MODULE ChatEncryption_proofs --------------------------
(***************************************************************************)
(* What ChatEncryption's runs check, for any accounts, users, keys and any *)
(* number of steps.                                                        *)
(*                                                                         *)
(* The first part shows that each store of TrustDb implements              *)
(* TrustStorage.  The second one shows EncryptionInv: what the queues      *)
(* hold explains the tables, the memory of the manager and the users of    *)
(* the open chat, so that nothing is missing when the queues are empty.    *)
(* The third one shows ViewInv for those queues: a view that is out of     *)
(* date is asked, queried or answered by something that is still queued.   *)
(***************************************************************************)
EXTENDS ChatEncryption, TLAPS, SequenceTheorems, FiniteSetTheorems

-----------------------------------------------------------------------------
(* The storages of trust.  Each job changes one of the tables: the lemmas  *)
(* say for each table which step of a storage a change of its rows is,     *)
(* whichever store the rows belong to.                                     *)

\* A job for the store r is a step of the storage s or leaves it as it is, and it leaves it as it
\* is if the storage belongs to another store.
StepOf(s, r) ==
    /\ [Storage(s)!Next]_(Storage(s)!storage)
    /\ s # r => UNCHANGED Storage(s)!storage

\* The tables of a new database are an initial storage.
LEMMA InitialStorage ==
    ASSUME NEW s \in Stores, TrustInit
    PROVE  Storage(s)!Init
BY DEF TrustInit, Storage!Init, SecurityPolicy, OwnKey, LevelsOf, DecisionsOf,
       Storage!OwnedKeys, OwnedKeys

\* A job for the policy of a store sets the policy of that storage only.
LEMMA PolicyJob ==
    ASSUME NEW s \in Stores, NEW r \in Stores,
           \/ \E p \in Policies : SetSecurityPolicy(r, p)
           \/ ResetSecurityPolicy(r)
    PROVE  StepOf(s, r)
<1>1. UNCHANGED <<OwnKey(s), LevelsOf(s), DecisionsOf(s)>>
  BY DEF SetSecurityPolicy, ResetSecurityPolicy, OwnKey, LevelsOf, DecisionsOf
<1>2. CASE r = s
  <2>1. SecurityPolicy(s)' \in Policies \cup {NoPolicy}
    BY <1>2 DEF SecurityPolicy, SetSecurityPolicy, ResetSecurityPolicy, Upserted, Without
  <2> QED BY <1>1, <1>2, <2>1 DEF StepOf, Storage!SetPolicy, Storage!Next
<1>3. CASE r # s
  <2>1. SecurityPolicy(s)' = SecurityPolicy(s)
    BY <1>3 DEF SecurityPolicy, SetSecurityPolicy, ResetSecurityPolicy, Upserted, Without
  <2> QED BY <1>1, <2>1 DEF StepOf, Storage!storage
<1> QED BY <1>2, <1>3

\* A job for the own key of a store sets the own key of that storage only.
LEMMA OwnKeyJob ==
    ASSUME NEW s \in Stores, NEW r \in Stores,
           \/ \E k \in Keys : SetOwnKey(r, k)
           \/ ResetOwnKey(r)
    PROVE  StepOf(s, r)
<1>1. UNCHANGED <<SecurityPolicy(s), LevelsOf(s), DecisionsOf(s)>>
  BY DEF SetOwnKey, ResetOwnKey, SecurityPolicy, LevelsOf, DecisionsOf
<1>2. CASE r = s
  <2>1. OwnKey(s)' \in Keys \cup {NoKey}
    BY <1>2 DEF OwnKey, SetOwnKey, ResetOwnKey, Upserted, Without
  <2> QED BY <1>1, <1>2, <2>1 DEF StepOf, Storage!SetOwnKey, Storage!Next
<1>3. CASE r # s
  <2>1. OwnKey(s)' = OwnKey(s)
    BY <1>3 DEF OwnKey, SetOwnKey, ResetOwnKey, Upserted, Without
  <2> QED BY <1>1, <2>1 DEF StepOf, Storage!storage
<1> QED BY <1>2, <1>3

\* Rows of one store that are upserted with one level are a step of that storage only.
LEMMA LevelsUpserted ==
    ASSUME NEW s \in Stores, NEW r \in Stores, NEW K \in SUBSET OwnedKeys, NEW l \in Levels,
           keys' = Upserted(keys, [x \in Row(r, K) |-> l]),
           UNCHANGED <<policies, ownKeys, postponed>>
    PROVE  StepOf(s, r)
<1>1. UNCHANGED <<SecurityPolicy(s), OwnKey(s), DecisionsOf(s)>>
  BY DEF SecurityPolicy, OwnKey, DecisionsOf
<1>2. CASE r = s
  <2>1. LevelsOf(s)' = [k \in OwnedKeys |-> IF k \in K THEN l ELSE LevelsOf(s)[k]]
    BY <1>2 DEF LevelsOf, Upserted, Row
  <2>2. Storage(s)!SetLevels
    BY <1>1, <2>1 DEF Storage!SetLevels, Storage!OwnedKeys, OwnedKeys
  <2> QED BY <2>2, <1>2 DEF StepOf, Storage!Next
<1>3. CASE r # s
  <2>1. LevelsOf(s)' = LevelsOf(s)
    BY <1>3 DEF LevelsOf, Upserted, Row
  <2> QED BY <1>1, <2>1 DEF StepOf, Storage!storage
<1> QED BY <1>2, <1>3

\* So are rows of one store that are removed.
LEMMA LevelsRemoved ==
    ASSUME NEW s \in Stores, NEW r \in Stores, NEW K \in SUBSET OwnedKeys,
           keys' = Without(keys, Row(r, K)),
           UNCHANGED <<policies, ownKeys, postponed>>
    PROVE  StepOf(s, r)
<1>1. UNCHANGED <<SecurityPolicy(s), OwnKey(s), DecisionsOf(s)>>
  BY DEF SecurityPolicy, OwnKey, DecisionsOf
<1>2. CASE r = s
  <2>1. LevelsOf(s)' = [k \in OwnedKeys |-> IF k \in K THEN Unknown ELSE LevelsOf(s)[k]]
    BY <1>2 DEF LevelsOf, Without, Row
  <2>2. Storage(s)!SetLevels
    BY <1>1, <2>1 DEF Storage!SetLevels, Storage!OwnedKeys, OwnedKeys
  <2> QED BY <2>2, <1>2 DEF StepOf, Storage!Next
<1>3. CASE r # s
  <2>1. LevelsOf(s)' = LevelsOf(s)
    BY <1>3 DEF LevelsOf, Without, Row
  <2> QED BY <1>1, <2>1 DEF StepOf, Storage!storage
<1> QED BY <1>2, <1>3

\* The jobs that change levels: each of them upserts or removes rows of its store.
LEMMA LevelsJob ==
    ASSUME NEW s \in Stores, NEW r \in Stores,
           \/ \E o \in Owners, K \in SUBSET Keys, l \in Levels : AddKeys(r, o, K, l)
           \/ \E O \in SUBSET Owners, K \in SUBSET Keys : RemoveKeys(r, O, K)
           \/ \E K \in SUBSET OwnedKeys, l \in Levels : SetTrustLevel(r, K, l)
           \/ \E O \in SUBSET Owners, old, new \in Levels : SetTrustLevels(r, O, old, new)
    PROVE  StepOf(s, r)
<1>1. ASSUME NEW o \in Owners, NEW K \in SUBSET Keys, NEW l \in Levels, AddKeys(r, o, K, l)
      PROVE  StepOf(s, r)
  <2>1. {o} \X K \in SUBSET OwnedKeys BY DEF OwnedKeys
  <2> QED BY <1>1, <2>1, LevelsUpserted DEF AddKeys
<1>2. ASSUME NEW O \in SUBSET Owners, NEW K \in SUBSET Keys, RemoveKeys(r, O, K)
      PROVE  StepOf(s, r)
  <2>1. O \X K \in SUBSET OwnedKeys BY DEF OwnedKeys
  <2> QED BY <1>2, <2>1, LevelsRemoved DEF RemoveKeys
<1>3. ASSUME NEW K \in SUBSET OwnedKeys, NEW l \in Levels, SetTrustLevel(r, K, l)
      PROVE  StepOf(s, r)
  <2>1. Changed(r, K, l) \in SUBSET OwnedKeys BY DEF Changed
  <2> QED BY <1>3, <2>1, LevelsUpserted DEF SetTrustLevel
<1>4. ASSUME NEW O \in SUBSET Owners, NEW old \in Levels, NEW new \in Levels,
             SetTrustLevels(r, O, old, new)
      PROVE  StepOf(s, r)
  <2>1. ChangedFrom(r, O, old) \in SUBSET OwnedKeys
    BY DEF ChangedFrom, KeysOf, OwnedKeys
  <2> QED BY <1>4, <2>1, LevelsUpserted DEF SetTrustLevels
<1> QED BY <1>1, <1>2, <1>3, <1>4

\* Decisions about keys of one store that are upserted for one sender
LEMMA DecisionsUpserted ==
    ASSUME NEW s \in Stores, NEW r \in Stores, NEW sender \in Keys,
           NEW T \in SUBSET OwnedKeys, NEW D \in SUBSET OwnedKeys,
           AddPostponed(r, sender, T, D)
    PROVE  StepOf(s, r)
<1>1. UNCHANGED <<SecurityPolicy(s), OwnKey(s), LevelsOf(s)>>
  BY DEF AddPostponed, SecurityPolicy, OwnKey, LevelsOf
<1>2. CASE r = s
  <2>1. DecisionsOf(s)' =
            [k \in OwnedKeys |-> IF k \in T \cup D
                                 THEN [sender |-> sender, trust |-> k \in T \ D]
                                 ELSE DecisionsOf(s)[k]]
    BY <1>2 DEF AddPostponed, DecisionsOf, Upserted, Row
  <2>2. /\ T \cup D \in SUBSET Storage(s)!OwnedKeys
        /\ T \ D \in SUBSET (T \cup D)
    BY DEF Storage!OwnedKeys, OwnedKeys
  <2>3. \E K \in SUBSET Storage(s)!OwnedKeys : \E U \in SUBSET K :
            DecisionsOf(s)' = [k \in Storage(s)!OwnedKeys |->
                IF k \in K THEN [sender |-> sender, trust |-> k \in U] ELSE DecisionsOf(s)[k]]
    <3>1. DecisionsOf(s)' = [k \in Storage(s)!OwnedKeys |->
              IF k \in T \cup D THEN [sender |-> sender, trust |-> k \in T \ D]
              ELSE DecisionsOf(s)[k]]
      BY <2>1 DEF Storage!OwnedKeys, OwnedKeys
    <3> USE <2>2
    <3> WITNESS T \cup D \in SUBSET Storage(s)!OwnedKeys
    <3> WITNESS T \ D \in SUBSET (T \cup D)
    <3> QED BY <3>1
  <2>4. Storage(s)!Postpone
    BY <1>1, <2>3 DEF Storage!Postpone
  <2> QED BY <2>4, <1>2 DEF StepOf, Storage!Next
<1>3. CASE r # s
  <2>1. DecisionsOf(s)' = DecisionsOf(s)
    BY <1>3 DEF AddPostponed, DecisionsOf, Upserted, Row
  <2> QED BY <1>1, <2>1 DEF StepOf, Storage!storage
<1> QED BY <1>2, <1>3

\* Decisions about keys of one store that are removed
LEMMA DecisionsRemoved ==
    ASSUME NEW s \in Stores, NEW r \in Stores, NEW R \in SUBSET RowsOf(r),
           postponed' = Without(postponed, R),
           UNCHANGED <<policies, ownKeys, keys>>
    PROVE  StepOf(s, r)
<1>1. UNCHANGED <<SecurityPolicy(s), OwnKey(s), LevelsOf(s)>>
  BY DEF SecurityPolicy, OwnKey, LevelsOf
<1>2. CASE r = s
  <2> DEFINE K == {k \in OwnedKeys : <<s, k>> \in R}
  <2>1. DecisionsOf(s)' =
            [k \in OwnedKeys |-> IF k \in K THEN Unknown ELSE DecisionsOf(s)[k]]
    BY <1>2 DEF DecisionsOf, Without
  <2>2. K \in SUBSET OwnedKeys OBVIOUS
  <2> HIDE DEF K
  <2>3. Storage(s)!Forget
    BY <1>1, <2>1, <2>2 DEF Storage!Forget, Storage!OwnedKeys, OwnedKeys
  <2> QED BY <2>3, <1>2 DEF StepOf, Storage!Next
<1>3. CASE r # s
  <2>1. DecisionsOf(s)' = DecisionsOf(s)
    BY <1>3 DEF DecisionsOf, Without, RowsOf, Row
  <2> QED BY <1>1, <2>1 DEF StepOf, Storage!storage
<1> QED BY <1>2, <1>3

\* The jobs that change decisions
LEMMA DecisionsJob ==
    ASSUME NEW s \in Stores, NEW r \in Stores,
           \/ \E k \in Keys, T, D \in SUBSET OwnedKeys : AddPostponed(r, k, T, D)
           \/ \E T, D \in SUBSET Keys : RemoveMade(r, T, D)
           \/ \E K \in SUBSET Keys : RemovePostponedBy(r, K)
           \/ RemoveAllPostponed(r)
    PROVE  StepOf(s, r)
<1>1. CASE \E k \in Keys, T, D \in SUBSET OwnedKeys : AddPostponed(r, k, T, D)
  BY <1>1, DecisionsUpserted
<1>2. CASE \E T, D \in SUBSET Keys : RemoveMade(r, T, D)
  BY <1>2, DecisionsRemoved DEF RemoveMade
<1>3. CASE \E K \in SUBSET Keys : RemovePostponedBy(r, K)
  BY <1>3, DecisionsRemoved DEF RemovePostponedBy
<1>4. CASE RemoveAllPostponed(r)
  BY <1>4, DecisionsRemoved DEF RemoveAllPostponed
<1> QED BY <1>1, <1>2, <1>3, <1>4

\* A reset empties the storages of its stores and no other one.
LEMMA ResetJob ==
    ASSUME NEW s \in Stores, NEW S \in SUBSET Stores, ResetAll(S)
    PROVE  IF s \in S THEN Storage(s)!Reset ELSE UNCHANGED Storage(s)!storage
<1>1. CASE s \in S
  <2>1. /\ SecurityPolicy(s)' = NoPolicy
        /\ OwnKey(s)' = NoKey
        /\ LevelsOf(s)' = [k \in OwnedKeys |-> Unknown]
        /\ DecisionsOf(s)' = [k \in OwnedKeys |-> Unknown]
    BY <1>1 DEF ResetAll, SecurityPolicy, OwnKey, LevelsOf, DecisionsOf, Without
  <2> QED BY <1>1, <2>1 DEF Storage!Reset, Storage!OwnedKeys, OwnedKeys
<1>2. CASE s \notin S
  <2>1. UNCHANGED <<SecurityPolicy(s), OwnKey(s), LevelsOf(s), DecisionsOf(s)>>
    BY <1>2 DEF ResetAll, SecurityPolicy, OwnKey, LevelsOf, DecisionsOf, Without
  <2> QED BY <1>2, <2>1 DEF Storage!storage
<1> QED BY <1>1, <1>2

\* What a step says about two storages
Together(r, s) ==
    \/ r = s
    \/ UNCHANGED Storage(r)!storage
    \/ UNCHANGED Storage(s)!storage
    \/ r.account = s.account /\ Storage(r)!Reset /\ Storage(s)!Reset

\* A job for one store
LEMMA OneStore ==
    ASSUME NEW q \in Stores, TrustJob(q), NEW s \in Stores
    PROVE  StepOf(s, q)
<1>1. CASE ResetAll({q})
  <2>1. IF s \in {q} THEN Storage(s)!Reset ELSE UNCHANGED Storage(s)!storage
    BY <1>1, ResetJob
  <2> QED BY <2>1 DEF StepOf, Storage!Next
<1> QED BY <1>1, PolicyJob, OwnKeyJob, LevelsJob, DecisionsJob DEF TrustJob

\* Each job is a step of each storage or leaves it as it is, and only resets change two of them.
LEMMA TrustStep ==
    ASSUME TrustNext
    PROVE  /\ \A s \in Stores : [Storage(s)!Next]_(Storage(s)!storage)
           /\ \A r, s \in Stores : Together(r, s)
<1>1. ASSUME NEW q \in Stores, TrustJob(q)
      PROVE  /\ \A s \in Stores : [Storage(s)!Next]_(Storage(s)!storage)
             /\ \A r, s \in Stores : Together(r, s)
  <2>1. \A s \in Stores : StepOf(s, q)
    BY <1>1, OneStore
  <2> QED BY <2>1 DEF StepOf, Together
<1>2. ASSUME NEW a \in Accounts, ResetAll(StoresOf(a))
      PROVE  /\ \A s \in Stores : [Storage(s)!Next]_(Storage(s)!storage)
             /\ \A r, s \in Stores : Together(r, s)
  <2>1. StoresOf(a) \in SUBSET Stores /\ \A s \in StoresOf(a) : s.account = a BY DEF StoresOf
  <2>2. \A s \in Stores : IF s \in StoresOf(a) THEN Storage(s)!Reset
                          ELSE UNCHANGED Storage(s)!storage
    BY <1>2, <2>1, ResetJob
  <2> QED BY <2>1, <2>2 DEF Together, Storage!Next
<1> QED BY <1>1, <1>2 DEF TrustNext

\* TrustDb is the storage QXmpp relies on, once for each account and protocol (TrustDb.cpp).
THEOREM TrustDbImplementsStorages == TrustSpec => StoragesImplemented
<1>1. TrustInit => \A s \in Stores : Storage(s)!Init
  BY InitialStorage
<1>2. [TrustNext]_tables =>
          [/\ \A s \in Stores : [Storage(s)!Next]_(Storage(s)!storage)
           /\ \A r, s \in Stores :
                 \/ r = s
                 \/ UNCHANGED Storage(r)!storage
                 \/ UNCHANGED Storage(s)!storage
                 \/ r.account = s.account /\ Storage(r)!Reset /\ Storage(s)!Reset]_tables
  BY TrustStep DEF Together
<1> QED BY <1>1, <1>2, PTL DEF TrustSpec, StoragesImplemented

-----------------------------------------------------------------------------
(* Sequences.                                                              *)

LEMMA SequenceOf ==
    ASSUME NEW S, NEW s \in Seq(S)
    PROVE  IsSequence(s)
<1>1. s \in [1..Len(s) -> S] /\ Len(s) \in Nat
  OBVIOUS
<1>2. s \in [1..Len(s) -> Range(s)]
  BY <1>1 DEF Range
<1>3. s \in Seq(Range(s))
  BY <1>1, <1>2, SeqDef
<1> QED BY <1>3 DEF IsSequence

\* The rest of a queue
LEMMA TailOf ==
    ASSUME NEW s, IsSequence(s), s # <<>>
    PROVE  /\ Len(s) \in Nat \ {0} /\ DOMAIN s = 1..Len(s)
           /\ IsSequence(Tail(s)) /\ Len(Tail(s)) = Len(s) - 1 /\ DOMAIN Tail(s) = 1..(Len(s) - 1)
           /\ \A i \in DOMAIN Tail(s) : i + 1 \in DOMAIN s /\ Tail(s)[i] = s[i + 1]
           /\ 1 \in DOMAIN s /\ Head(s) = s[1]
<1> DEFINE S == Range(s)
<1>1. s \in Seq(S)
  BY DEF IsSequence
<1> HIDE DEF S
<1>2. /\ Len(s) \in Nat \ {0} /\ DOMAIN s = 1..Len(s)
      /\ Tail(s) \in Seq(S) /\ Len(Tail(s)) = Len(s) - 1
      /\ \A i \in 1..(Len(s) - 1) : Tail(s)[i] = s[i + 1]
      /\ Head(s) = s[1]
  BY <1>1
<1>3. DOMAIN Tail(s) = 1..(Len(s) - 1)
  BY <1>2
<1>4. IsSequence(Tail(s))
  BY <1>2, SequenceOf
<1> QED BY <1>2, <1>3, <1>4

\* Two queues
LEMMA Joined ==
    ASSUME NEW s, NEW t, IsSequence(s), IsSequence(t)
    PROVE  /\ IsSequence(s \o t) /\ Len(s \o t) = Len(s) + Len(t)
           /\ Len(s) \in Nat /\ Len(t) \in Nat
           /\ DOMAIN s = 1..Len(s) /\ DOMAIN t = 1..Len(t)
           /\ DOMAIN (s \o t) = 1..(Len(s) + Len(t))
           /\ \A i \in DOMAIN s : i \in DOMAIN (s \o t) /\ (s \o t)[i] = s[i]
           /\ \A i \in DOMAIN t : /\ Len(s) + i \in DOMAIN (s \o t)
                                  /\ (s \o t)[Len(s) + i] = t[i]
           /\ \A i \in DOMAIN (s \o t) :
                 \/ i \in DOMAIN s /\ (s \o t)[i] = s[i]
                 \/ i > Len(s) /\ i - Len(s) \in DOMAIN t /\ (s \o t)[i] = t[i - Len(s)]
<1> DEFINE S == Range(s) \cup Range(t)
<1>1. s \in Seq(S) /\ t \in Seq(S)
  <2>1. s \in Seq(Range(s)) /\ t \in Seq(Range(t))
    BY DEF IsSequence
  <2> QED BY <2>1
<1> HIDE DEF S
<1>2. /\ s \o t \in Seq(S) /\ Len(s \o t) = Len(s) + Len(t)
      /\ Len(s) \in Nat /\ Len(t) \in Nat
      /\ DOMAIN s = 1..Len(s) /\ DOMAIN t = 1..Len(t)
      /\ \A i \in 1..(Len(s) + Len(t)) :
            (s \o t)[i] = IF i <= Len(s) THEN s[i] ELSE t[i - Len(s)]
  BY <1>1
<1>3. DOMAIN (s \o t) = 1..(Len(s) + Len(t))
  BY <1>2
<1>4. IsSequence(s \o t)
  BY <1>2, SequenceOf
<1> QED BY <1>2, <1>3, <1>4

\* Short queues
LEMMA EmptyQueue == IsSequence(<<>>) /\ DOMAIN <<>> = {} /\ Len(<<>>) = 0
<1>1. <<>> \in Seq(Range(<<>>))
  OBVIOUS
<1> QED BY <1>1 DEF IsSequence

LEMMA OneElement ==
    ASSUME NEW a
    PROVE  IsSequence(<<a>>) /\ DOMAIN <<a>> = {1} /\ <<a>>[1] = a /\ Len(<<a>>) = 1
<1>1. <<a>> \in Seq({a})
  OBVIOUS
<1>2. IsSequence(<<a>>)
  BY <1>1, SequenceOf
<1> QED BY <1>2

LEMMA TwoElements ==
    ASSUME NEW a, NEW b
    PROVE  /\ IsSequence(<<a, b>>) /\ DOMAIN <<a, b>> = {1, 2} /\ Len(<<a, b>>) = 2
           /\ <<a, b>>[1] = a /\ <<a, b>>[2] = b
<1>1. <<a, b>> \in Seq({a, b})
  OBVIOUS
<1>2. IsSequence(<<a, b>>)
  BY <1>1, SequenceOf
<1> QED BY <1>2

LEMMA ThreeElements ==
    ASSUME NEW a, NEW b, NEW c
    PROVE  /\ IsSequence(<<a, b, c>>) /\ DOMAIN <<a, b, c>> = {1, 2, 3} /\ Len(<<a, b, c>>) = 3
           /\ <<a, b, c>>[1] = a /\ <<a, b, c>>[2] = b /\ <<a, b, c>>[3] = c
<1>1. <<a, b, c>> \in Seq({a, b, c})
  OBVIOUS
<1>2. IsSequence(<<a, b, c>>)
  BY <1>1, SequenceOf
<1> QED BY <1>2

\* What a queue becomes that was empty
LEMMA FromEmpty ==
    ASSUME NEW s, IsSequence(s)
    PROVE  <<>> \o s = s
<1>1. s \in Seq(Range(s))
  BY DEF IsSequence
<1> QED BY <1>1

-----------------------------------------------------------------------------
(* Types of the tables of trust.                                           *)

\* A table is a function from some of its possible keys.
LEMMA TableOf ==
    ASSUME NEW P, NEW V, NEW table
    PROVE  table \in Tables(P, V) <=> DOMAIN table \subseteq P /\ table \in [DOMAIN table -> V]
<1>1. ASSUME table \in Tables(P, V)
      PROVE  DOMAIN table \subseteq P /\ table \in [DOMAIN table -> V]
  <2>1. PICK S \in SUBSET P : table \in [S -> V]
    BY <1>1 DEF Tables
  <2> QED BY <2>1
<1>2. ASSUME DOMAIN table \subseteq P, table \in [DOMAIN table -> V]
      PROVE  table \in Tables(P, V)
  <2>1. DOMAIN table \in SUBSET P
    BY <1>2
  <2>2. [DOMAIN table -> V] \in {[S -> V] : S \in SUBSET P}
    BY <2>1
  <2> QED BY <1>2, <2>2 DEF Tables
<1> QED BY <1>1, <1>2

LEMMA UpsertedTyped ==
    ASSUME NEW P, NEW V, NEW table \in Tables(P, V), NEW S \in SUBSET P, NEW v \in V
    PROVE  Upserted(table, [r \in S |-> v]) \in Tables(P, V)
<1> DEFINE new == Upserted(table, [r \in S |-> v])
<1>1. DOMAIN table \subseteq P /\ table \in [DOMAIN table -> V]
  BY TableOf
<1>2. DOMAIN new \subseteq P /\ new \in [DOMAIN new -> V]
  BY <1>1 DEF Upserted
<1> QED BY <1>2, TableOf

LEMMA WithoutTyped ==
    ASSUME NEW P, NEW V, NEW table \in Tables(P, V), NEW R
    PROVE  Without(table, R) \in Tables(P, V)
<1> DEFINE new == Without(table, R)
<1>1. DOMAIN table \subseteq P /\ table \in [DOMAIN table -> V]
  BY TableOf
<1>2. DOMAIN new \subseteq P /\ new \in [DOMAIN new -> V]
  BY <1>1 DEF Without
<1> QED BY <1>2, TableOf

\* The jobs of trust keep the types of its tables.
LEMMA TrustTyped ==
    ASSUME TrustTypeOK, TrustNext
    PROVE  TrustTypeOK'
<1> USE DEF TrustTypeOK
<1>1. ASSUME NEW s \in Stores, TrustJob(s)
      PROVE  TrustTypeOK'
  <2>1. ASSUME NEW p \in Policies, SetSecurityPolicy(s, p)
        PROVE  TrustTypeOK'
    <3>1. {s} \in SUBSET Stores
      OBVIOUS
    <3> QED BY <2>1, <3>1, UpsertedTyped DEF SetSecurityPolicy
  <2>2. CASE ResetSecurityPolicy(s)
    BY <2>2, WithoutTyped DEF ResetSecurityPolicy
  <2>3. ASSUME NEW k \in Keys, SetOwnKey(s, k)
        PROVE  TrustTypeOK'
    <3>1. {s} \in SUBSET Stores
      OBVIOUS
    <3> QED BY <2>3, <3>1, UpsertedTyped DEF SetOwnKey
  <2>4. CASE ResetOwnKey(s)
    BY <2>4, WithoutTyped DEF ResetOwnKey
  <2>5. ASSUME NEW o \in Owners, NEW K \in SUBSET Keys, NEW l \in Levels, AddKeys(s, o, K, l)
        PROVE  TrustTypeOK'
    <3>1. Row(s, {o} \X K) \in SUBSET (Stores \X OwnedKeys)
      BY DEF Row, OwnedKeys
    <3> QED BY <2>5, <3>1, UpsertedTyped DEF AddKeys
  <2>6. CASE \E O \in SUBSET Owners, K \in SUBSET Keys : RemoveKeys(s, O, K)
    BY <2>6, WithoutTyped DEF RemoveKeys
  <2>7. ASSUME NEW K \in SUBSET OwnedKeys, NEW l \in Levels, SetTrustLevel(s, K, l)
        PROVE  TrustTypeOK'
    <3>1. Row(s, Changed(s, K, l)) \in SUBSET (Stores \X OwnedKeys)
      BY DEF Row, Changed
    <3> QED BY <2>7, <3>1, UpsertedTyped DEF SetTrustLevel
  <2>8. ASSUME NEW O \in SUBSET Owners, NEW old \in Levels, NEW new \in Levels,
               SetTrustLevels(s, O, old, new)
        PROVE  TrustTypeOK'
    <3>1. Row(s, ChangedFrom(s, O, old)) \in SUBSET (Stores \X OwnedKeys)
      BY DEF Row, ChangedFrom, KeysOf, OwnedKeys
    <3> QED BY <2>8, <3>1, UpsertedTyped DEF SetTrustLevels
  <2>9. ASSUME NEW k \in Keys, NEW T \in SUBSET OwnedKeys, NEW D \in SUBSET OwnedKeys,
               AddPostponed(s, k, T, D)
        PROVE  TrustTypeOK'
    <3>1. Row(s, T \cup D) \subseteq Stores \X OwnedKeys
      BY DEF Row
    <3>2. DOMAIN postponed \subseteq Stores \X OwnedKeys /\ postponed \in [DOMAIN postponed -> Decisions]
      BY TableOf
    <3>3. /\ DOMAIN postponed' \subseteq Stores \X OwnedKeys
          /\ postponed' \in [DOMAIN postponed' -> Decisions]
      BY <2>9, <3>1, <3>2 DEF AddPostponed, Upserted, Decisions
    <3>4. postponed' \in Tables(Stores \X OwnedKeys, Decisions)
      BY <3>3, TableOf
    <3> QED BY <2>9, <3>4 DEF AddPostponed
  <2>10. CASE \E T, D \in SUBSET Keys : RemoveMade(s, T, D)
    BY <2>10, WithoutTyped DEF RemoveMade
  <2>11. CASE \E K \in SUBSET Keys : RemovePostponedBy(s, K)
    BY <2>11, WithoutTyped DEF RemovePostponedBy
  <2>12. CASE RemoveAllPostponed(s)
    BY <2>12, WithoutTyped DEF RemoveAllPostponed
  <2>13. CASE ResetAll({s})
    BY <2>13, WithoutTyped DEF ResetAll
  <2> QED BY <1>1, <2>1, <2>2, <2>3, <2>4, <2>5, <2>6, <2>7, <2>8, <2>9, <2>10, <2>11, <2>12,
             <2>13 DEF TrustJob
<1>2. CASE \E a \in Accounts : ResetAll(StoresOf(a))
  BY <1>2, WithoutTyped DEF ResetAll
<1> HIDE DEF TrustTypeOK
<1> QED BY <1>1, <1>2 DEF TrustNext

-----------------------------------------------------------------------------
(* The jobs of trust that are queued                                       *)

\* Each is a job of TrustDb for one store, or resets the stores of an account.
LEMMA TrustWorkIsJob ==
    ASSUME NEW job, JobOK(job), TrustWork(job)
    PROVE  TrustNext
<1> USE DEF JobOK, TrustOps, TrustArguments
<1>1. CASE job.op = "addKeys" /\ AddKeys(job.store, job.owner, job.keys, job.level)
  BY <1>1 DEF TrustNext, TrustJob
<1>2. CASE job.op = "removeKeys" /\ RemoveKeys(job.store, job.owners, job.keys)
  BY <1>2 DEF TrustNext, TrustJob
<1>3. CASE job.op = "setTrustLevel" /\ SetTrustLevel(job.store, job.keys, job.level)
  BY <1>3 DEF TrustNext, TrustJob
<1>4. CASE job.op = "setTrustLevels" /\ SetTrustLevels(job.store, job.owners, job.old, job.new)
  BY <1>4 DEF TrustNext, TrustJob
<1>5. CASE job.op = "addPostponed" /\ AddPostponed(job.store, job.sender, job.trusted, job.distrusted)
  BY <1>5 DEF TrustNext, TrustJob
<1>6. CASE job.op = "removeMade" /\ RemoveMade(job.store, job.trusted, job.distrusted)
  BY <1>6 DEF TrustNext, TrustJob
<1>7. CASE job.op = "setSecurityPolicy" /\ SetSecurityPolicy(job.store, job.policy)
  BY <1>7 DEF TrustNext, TrustJob
<1>8. CASE job.op = "setOwnKey" /\ SetOwnKey(job.store, job.key)
  BY <1>8 DEF TrustNext, TrustJob
<1>9. CASE job.op = "resetTrust" /\ ResetAll({job.store})
  BY <1>9 DEF TrustNext, TrustJob
<1>10. CASE job.op = "resetAccount" /\ ResetAll(StoresOf(job.account))
  BY <1>10 DEF TrustNext
<1> HIDE DEF JobOK, TrustOps, TrustArguments
<1> QED BY <1>1, <1>2, <1>3, <1>4, <1>5, <1>6, <1>7, <1>8, <1>9, <1>10 DEF TrustWork

-----------------------------------------------------------------------------
(* The jobs of OMEMO that are queued                                       *)

\* Other jobs leave the data as it is.
LEMMA NotApplied ==
    ASSUME NEW job, NEW data, job.op \notin OmemoOps
    PROVE  Applied(job, data) = data
BY DEF Applied, OmemoOps

LEMMA SetOwnDeviceApplied ==
    ASSUME TablesOK, UNCHANGED userRows, SetOwnDevice(Me, "device"), NEW job, job.op = "setOwnDevice",
           job.device = "device"
    PROVE  AllData(Me)' = Applied(job, AllData(Me)) /\ TablesOK'
<1>1. OwnDevice(Me)' = "device" /\ DOMAIN ownDevices' \subseteq {Me}
  BY DEF SetOwnDevice, OwnDevice, NoDevice, TablesOK
<1>2. UNCHANGED <<SignedPreKeyPairsOf(Me), PreKeyPairsOf(Me), DevicesOf(Me)>>
  BY DEF SetOwnDevice, SignedPreKeyPairsOf, PreKeyPairsOf, DevicesOf
<1>3. Applied(job, AllData(Me)) = [AllData(Me) EXCEPT !.ownDevice = "device"]
  BY DEF Applied
<1> QED BY <1>1, <1>2, <1>3 DEF AllData, TablesOK, SetOwnDevice

LEMMA AddSignedApplied ==
    ASSUME TablesOK, UNCHANGED userRows, NEW job, job.op = "addSignedPreKeyPair", job.id \in PairIds,
           AddSignedPreKeyPair(Me, job.id)
    PROVE  AllData(Me)' = Applied(job, AllData(Me)) /\ TablesOK'
<1>1. SignedPreKeyPairsOf(Me)' = SignedPreKeyPairsOf(Me) \cup {job.id}
  <2>1. \A x : x \in SignedPreKeyPairsOf(Me) <=> <<Me, x>> \in signedPreKeyPairs
    BY DEF SignedPreKeyPairsOf, TablesOK
  <2>2. signedPreKeyPairs' \subseteq {Me} \X PairIds
    BY DEF AddSignedPreKeyPair, TablesOK
  <2>3. \A x : x \in SignedPreKeyPairsOf(Me)' <=> <<Me, x>> \in signedPreKeyPairs'
    BY <2>2 DEF SignedPreKeyPairsOf
  <2> QED BY <2>1, <2>3 DEF AddSignedPreKeyPair
<1>2. UNCHANGED <<OwnDevice(Me), PreKeyPairsOf(Me), DevicesOf(Me)>>
  BY DEF AddSignedPreKeyPair, OwnDevice, PreKeyPairsOf, DevicesOf
<1>3. Applied(job, AllData(Me)) = [AllData(Me) EXCEPT !.signedPreKeyPairs = @ \cup {job.id}]
  BY DEF Applied
<1> QED BY <1>1, <1>2, <1>3 DEF AllData, TablesOK, AddSignedPreKeyPair

LEMMA RemoveSignedApplied ==
    ASSUME TablesOK, UNCHANGED userRows, NEW job, job.op = "removeSignedPreKeyPair", job.id \in PairIds,
           RemoveSignedPreKeyPair(Me, job.id)
    PROVE  AllData(Me)' = Applied(job, AllData(Me)) /\ TablesOK'
<1>1. SignedPreKeyPairsOf(Me)' = SignedPreKeyPairsOf(Me) \ {job.id}
  BY DEF RemoveSignedPreKeyPair, SignedPreKeyPairsOf, TablesOK
<1>2. UNCHANGED <<OwnDevice(Me), PreKeyPairsOf(Me), DevicesOf(Me)>>
  BY DEF RemoveSignedPreKeyPair, OwnDevice, PreKeyPairsOf, DevicesOf
<1>3. Applied(job, AllData(Me)) = [AllData(Me) EXCEPT !.signedPreKeyPairs = @ \ {job.id}]
  BY DEF Applied
<1> QED BY <1>1, <1>2, <1>3 DEF AllData, TablesOK, RemoveSignedPreKeyPair

LEMMA AddPairsApplied ==
    ASSUME TablesOK, UNCHANGED userRows, NEW job, job.op = "addPreKeyPairs", job.ids \subseteq PairIds,
           AddPreKeyPairs(Me, job.ids)
    PROVE  AllData(Me)' = Applied(job, AllData(Me)) /\ TablesOK'
<1>1. PreKeyPairsOf(Me)' = PreKeyPairsOf(Me) \cup job.ids
  <2>1. \A x : x \in PreKeyPairsOf(Me) <=> <<Me, x>> \in preKeyPairs
    BY DEF PreKeyPairsOf, TablesOK
  <2>2. preKeyPairs' \subseteq {Me} \X PairIds
    BY DEF AddPreKeyPairs, TablesOK
  <2>3. \A x : x \in PreKeyPairsOf(Me)' <=> <<Me, x>> \in preKeyPairs'
    BY <2>2 DEF PreKeyPairsOf
  <2> QED BY <2>1, <2>3 DEF AddPreKeyPairs
<1>2. UNCHANGED <<OwnDevice(Me), SignedPreKeyPairsOf(Me), DevicesOf(Me)>>
  BY DEF AddPreKeyPairs, OwnDevice, SignedPreKeyPairsOf, DevicesOf
<1>3. Applied(job, AllData(Me)) = [AllData(Me) EXCEPT !.preKeyPairs = @ \cup job.ids]
  BY DEF Applied
<1> QED BY <1>1, <1>2, <1>3 DEF AllData, TablesOK, AddPreKeyPairs

LEMMA RemovePairApplied ==
    ASSUME TablesOK, UNCHANGED userRows, NEW job, job.op = "removePreKeyPair", job.id \in PairIds,
           RemovePreKeyPair(Me, job.id)
    PROVE  AllData(Me)' = Applied(job, AllData(Me)) /\ TablesOK'
<1>1. PreKeyPairsOf(Me)' = PreKeyPairsOf(Me) \ {job.id}
  BY DEF RemovePreKeyPair, PreKeyPairsOf, TablesOK
<1>2. UNCHANGED <<OwnDevice(Me), SignedPreKeyPairsOf(Me), DevicesOf(Me)>>
  BY DEF RemovePreKeyPair, OwnDevice, SignedPreKeyPairsOf, DevicesOf
<1>3. Applied(job, AllData(Me)) = [AllData(Me) EXCEPT !.preKeyPairs = @ \ {job.id}]
  BY DEF Applied
<1> QED BY <1>1, <1>2, <1>3 DEF AllData, TablesOK, RemovePreKeyPair

\* The devices of the account are the rows of the table.
LEMMA DevicesAreRows ==
    ASSUME TablesOK
    PROVE  /\ DOMAIN DevicesOf(Me) \subseteq Devices
           /\ \A d \in Devices : d \in DOMAIN DevicesOf(Me) <=> <<Me, d[1], d[2]>> \in DOMAIN deviceRows
           /\ \A d \in DOMAIN DevicesOf(Me) : DevicesOf(Me)[d] = deviceRows[<<Me, d[1], d[2]>>]
           /\ DevicesOf(Me) = [d \in DOMAIN DevicesOf(Me) |-> DevicesOf(Me)[d]]
BY DEF TablesOK, DevicesOf, Devices

LEMMA AddDeviceApplied ==
    ASSUME TablesOK, UNCHANGED userRows, NEW job, job.op = "addDevice", job.device \in Devices,
           AddDevice(Me, job.device[1], job.device[2], job.session)
    PROVE  AllData(Me)' = Applied(job, AllData(Me)) /\ TablesOK'
<1> DEFINE d0 == job.device
           D == DOMAIN DevicesOf(Me)
<1>1. TablesOK'
  BY DEF AddDevice, TablesOK, Devices
<1>2. DevicesOf(Me)' = [d \in D \cup {d0} |-> IF d = d0 THEN job.session ELSE DevicesOf(Me)[d]]
  <2>1. /\ DOMAIN DevicesOf(Me)' = D \cup {d0}
        /\ \A d \in D \cup {d0} :
              DevicesOf(Me)'[d] = IF d = d0 THEN job.session ELSE DevicesOf(Me)[d]
    <3>1. d0 \in Devices /\ d0 = <<d0[1], d0[2]>>
      BY DEF Devices
    <3>2. \A d \in Devices : d \in DOMAIN DevicesOf(Me)' <=> <<Me, d[1], d[2]>> \in DOMAIN deviceRows'
      BY <1>1 DEF TablesOK, DevicesOf, Devices
    <3>3. DOMAIN DevicesOf(Me)' \subseteq Devices
      BY <1>1 DEF TablesOK, DevicesOf, Devices
    <3>4. \A d \in Devices : <<Me, d[1], d[2]>> \in DOMAIN deviceRows' <=>
              <<Me, d[1], d[2]>> \in DOMAIN deviceRows \/ d = d0
      BY <3>1 DEF AddDevice, Devices
    <3>5. DOMAIN DevicesOf(Me)' = D \cup {d0}
      BY <3>1, <3>2, <3>3, <3>4, DevicesAreRows
    <3>6. \A d \in D \cup {d0} : DevicesOf(Me)'[d] = deviceRows'[<<Me, d[1], d[2]>>]
      BY <3>5 DEF DevicesOf
    <3>7. \A d \in D \cup {d0} : deviceRows'[<<Me, d[1], d[2]>>] =
              IF d = d0 THEN job.session ELSE deviceRows[<<Me, d[1], d[2]>>]
      BY <3>1, DevicesAreRows DEF AddDevice, Devices
    <3> QED BY <3>5, <3>6, <3>7, DevicesAreRows
  <2>2. DevicesOf(Me)' = [d \in DOMAIN DevicesOf(Me)' |-> DevicesOf(Me)'[d]]
    BY DEF DevicesOf
  <2> QED BY <2>1, <2>2
<1>3. UNCHANGED <<OwnDevice(Me), SignedPreKeyPairsOf(Me), PreKeyPairsOf(Me)>>
  BY DEF AddDevice, OwnDevice, SignedPreKeyPairsOf, PreKeyPairsOf
<1>4. Applied(job, AllData(Me)) =
          [AllData(Me) EXCEPT !.devices = [d \in DOMAIN AllData(Me).devices \cup {job.device} |->
                                  IF d = job.device THEN job.session ELSE AllData(Me).devices[d]]]
  BY DEF Applied
<1> QED BY <1>1, <1>2, <1>3, <1>4 DEF AllData

\* Rows that are removed
LEMMA RemoveDeviceRowsApplied ==
    ASSUME TablesOK, UNCHANGED userRows, NEW R, NEW K, RemoveDeviceRows(R),
           \A d \in Devices : <<Me, d[1], d[2]>> \in DOMAIN deviceRows =>
               (<<Me, d[1], d[2]>> \in R <=> d \in K)
    PROVE  /\ AllData(Me)' = [AllData(Me) EXCEPT !.devices = WithoutKeys(AllData(Me).devices, K)]
           /\ TablesOK'
<1> DEFINE D == DOMAIN DevicesOf(Me)
<1>1. TablesOK'
  BY DEF RemoveDeviceRows, TablesOK
<1>2. DevicesOf(Me)' = [d \in D \ K |-> DevicesOf(Me)[d]]
  <2>1. \A d \in Devices : d \in DOMAIN DevicesOf(Me)' <=> <<Me, d[1], d[2]>> \in DOMAIN deviceRows'
    BY <1>1 DEF TablesOK, DevicesOf, Devices
  <2>2. DOMAIN DevicesOf(Me)' \subseteq Devices
    BY <1>1 DEF TablesOK, DevicesOf, Devices
  <2>3. \A d \in Devices : <<Me, d[1], d[2]>> \in DOMAIN deviceRows' <=>
            <<Me, d[1], d[2]>> \in DOMAIN deviceRows /\ d \notin K
    BY DEF RemoveDeviceRows
  <2>4. DOMAIN DevicesOf(Me)' = D \ K
    BY <2>1, <2>2, <2>3, DevicesAreRows
  <2>5. \A d \in D \ K : DevicesOf(Me)'[d] = deviceRows'[<<Me, d[1], d[2]>>]
    BY <2>4 DEF DevicesOf
  <2>6. \A d \in D \ K : deviceRows'[<<Me, d[1], d[2]>>] = deviceRows[<<Me, d[1], d[2]>>]
    BY <2>3, DevicesAreRows DEF RemoveDeviceRows
  <2>7. DevicesOf(Me)' = [d \in DOMAIN DevicesOf(Me)' |-> DevicesOf(Me)'[d]]
    BY DEF DevicesOf
  <2> QED BY <2>4, <2>5, <2>6, <2>7, DevicesAreRows
<1>3. UNCHANGED <<OwnDevice(Me), SignedPreKeyPairsOf(Me), PreKeyPairsOf(Me)>>
  BY DEF RemoveDeviceRows, OwnDevice, SignedPreKeyPairsOf, PreKeyPairsOf
<1> QED BY <1>1, <1>2, <1>3 DEF AllData, WithoutKeys

LEMMA RemoveDeviceApplied ==
    ASSUME TablesOK, UNCHANGED userRows, NEW job, job.op = "removeDevice", job.device \in Devices,
           RemoveDevice(Me, job.device[1], job.device[2])
    PROVE  AllData(Me)' = Applied(job, AllData(Me)) /\ TablesOK'
<1>1. Applied(job, AllData(Me)) =
          [AllData(Me) EXCEPT !.devices = WithoutKeys(AllData(Me).devices, {job.device})]
  BY DEF Applied, AllData
<1>2. \A d \in Devices : <<Me, d[1], d[2]>> \in {<<Me, job.device[1], job.device[2]>>} <=>
                          d \in {job.device}
  BY DEF Devices
<1> QED BY <1>1, <1>2, RemoveDeviceRowsApplied DEF RemoveDevice

LEMMA RemoveDevicesApplied ==
    ASSUME TablesOK, UNCHANGED userRows, NEW job, job.op = "removeDevices", job.jid \in Owners,
           RemoveDevices(Me, job.jid)
    PROVE  AllData(Me)' = Applied(job, AllData(Me)) /\ TablesOK'
<1> DEFINE R == {d \in DOMAIN deviceRows : d[1] = Me /\ d[2] = job.jid}
<1>1. Applied(job, AllData(Me)) =
          [AllData(Me) EXCEPT !.devices = WithoutKeys(AllData(Me).devices, {job.jid} \X Keys)]
  BY DEF Applied, AllData
<1>2. \A d \in Devices : <<Me, d[1], d[2]>> \in DOMAIN deviceRows =>
          (<<Me, d[1], d[2]>> \in R <=> d \in {job.jid} \X Keys)
  BY DEF Devices
<1>3. RemoveDeviceRows(R)
  BY DEF RemoveDevices
<1> HIDE DEF R
<1> QED BY <1>1, <1>2, <1>3, RemoveDeviceRowsApplied

LEMMA ResetOmemoApplied ==
    ASSUME TablesOK, UNCHANGED userRows, NEW job, job.op = "resetOmemo", ResetOmemo(Me)
    PROVE  AllData(Me)' = Applied(job, AllData(Me)) /\ TablesOK'
<1>1. Applied(job, AllData(Me)) = NoMemory
  BY DEF Applied
<1>2. OwnDevice(Me)' = NoDevice
  BY DEF ResetOmemo, OwnDevice
<1>3. SignedPreKeyPairsOf(Me)' = {}
  BY DEF ResetOmemo, SignedPreKeyPairsOf
<1>4. PreKeyPairsOf(Me)' = {}
  BY DEF ResetOmemo, PreKeyPairsOf
<1>5. DevicesOf(Me)' = [d \in {} |-> "no session"]
  <2>1. {q \in DOMAIN deviceRows' : q[1] = Me} = {}
    BY DEF ResetOmemo
  <2>2. DOMAIN DevicesOf(Me)' = {}
    BY <2>1 DEF DevicesOf
  <2>3. DevicesOf(Me)' = [d \in DOMAIN DevicesOf(Me)' |-> DevicesOf(Me)'[d]]
    BY DEF DevicesOf
  <2> QED BY <2>2, <2>3
<1>6. TablesOK'
  BY DEF TablesOK, ResetOmemo
<1> QED BY <1>1, <1>2, <1>3, <1>4, <1>5, <1>6 DEF AllData, NoMemory

\* What allData() returns is changed as the job says.
LEMMA OmemoWorkApplied ==
    ASSUME TablesOK, NEW job, JobOK(job), OmemoWork(job)
    PROVE  AllData(Me)' = Applied(job, AllData(Me)) /\ TablesOK' /\ job.op \in OmemoOps
<1> USE DEF JobOK, OmemoOps, OmemoArguments
<1>0. UNCHANGED userRows
  BY DEF OmemoWork
<1>1. CASE job.op = "setOwnDevice" /\ SetOwnDevice(Me, job.device)
  BY <1>0, <1>1, SetOwnDeviceApplied
<1>2. CASE job.op = "addSignedPreKeyPair" /\ AddSignedPreKeyPair(Me, job.id)
  BY <1>0, <1>2, AddSignedApplied
<1>3. CASE job.op = "removeSignedPreKeyPair" /\ RemoveSignedPreKeyPair(Me, job.id)
  BY <1>0, <1>3, RemoveSignedApplied
<1>4. CASE job.op = "addPreKeyPairs" /\ AddPreKeyPairs(Me, job.ids)
  BY <1>0, <1>4, AddPairsApplied
<1>5. CASE job.op = "removePreKeyPair" /\ RemovePreKeyPair(Me, job.id)
  BY <1>0, <1>5, RemovePairApplied
<1>6. CASE job.op = "addDevice" /\ AddDevice(Me, job.device[1], job.device[2], job.session)
  BY <1>0, <1>6, AddDeviceApplied
<1>7. CASE job.op = "removeDevice" /\ RemoveDevice(Me, job.device[1], job.device[2])
  BY <1>0, <1>7, RemoveDeviceApplied
<1>8. CASE job.op = "removeDevices" /\ RemoveDevices(Me, job.jid)
  BY <1>0, <1>8, RemoveDevicesApplied
<1>9. CASE job.op = "resetOmemo" /\ ResetOmemo(Me)
  BY <1>0, <1>9, ResetOmemoApplied
<1> HIDE DEF JobOK, OmemoOps, OmemoArguments
<1> QED BY <1>1, <1>2, <1>3, <1>4, <1>5, <1>6, <1>7, <1>8, <1>9 DEF OmemoWork

-----------------------------------------------------------------------------
(* The jobs of group chat users that are queued                            *)

JidsIn(rows) == {u.jid : u \in {w \in rows : w.chat = Group}} \ {NoJid}

\* A job reports that the addresses changed if they did.
GoodResult(result) ==
    /\ result.rows \subseteq User
    /\ IsSequence(result.signals)
    /\ \A i \in DOMAIN result.signals :
          /\ result.signals[i].kind \in {"added", "updated", "removed", "jids"}
          /\ EventOK(result.signals[i])
    /\ \/ JidsIn(result.rows) = UserJids(Group)
       \/ \E i \in DOMAIN result.signals : result.signals[i].kind = "jids"

LEMMA NothingGood ==
    ASSUME userRows \subseteq User
    PROVE  GoodResult(Nothing)
<1>1. IsSequence(<<>>) /\ DOMAIN <<>> = {}
  BY EmptyQueue
<1>2. Nothing.rows = userRows /\ Nothing.signals = <<>>
  BY DEF Nothing
<1> QED BY <1>1, <1>2 DEF GoodResult, JidsIn, UserJids

LEMMA TwoSignals ==
    ASSUME NEW rows \in SUBSET User, NEW u, NEW kind \in {"added", "removed"}
    PROVE  GoodResult([rows |-> rows, signals |-> <<[kind |-> kind, user |-> u],
                                                    [kind |-> "jids", chat |-> Group]>>])
<1> DEFINE first == [kind |-> kind, user |-> u]
           second == [kind |-> "jids", chat |-> Group]
           s == <<first, second>>
<1>1. IsSequence(s)
  BY TwoElements
<1>2. DOMAIN s = {1, 2} /\ s[1] = first /\ s[2] = second
  OBVIOUS
<1>3. first.kind = kind /\ second.kind = "jids" /\ second.chat = Group
  OBVIOUS
<1>4. EventOK(first) /\ EventOK(second)
  BY <1>3 DEF EventOK
<1> HIDE DEF first, second, s
<1>5. \A i \in DOMAIN s : s[i].kind \in {"added", "updated", "removed", "jids"} /\ EventOK(s[i])
  BY <1>2, <1>3, <1>4
<1>6. \E i \in DOMAIN s : s[i].kind = "jids"
  BY <1>2, <1>3
<1>7. GoodResult([rows |-> rows, signals |-> s])
  BY <1>1, <1>5, <1>6 DEF GoodResult
<1> QED BY <1>7 DEF s, first, second

LEMMA AddedGood ==
    ASSUME userRows \subseteq User, NEW u \in User
    PROVE  GoodResult(Added(u))
<1>1. u.chat = Group
  BY DEF User
<1>2. userRows \cup {u} \in SUBSET User
  OBVIOUS
<1> QED BY <1>1, <1>2, TwoSignals DEF Added

LEMMA RemovedGood ==
    ASSUME userRows \subseteq User, NEW u \in User
    PROVE  GoodResult(Removed(u))
<1>1. u.chat = Group
  BY DEF User
<1>2. (userRows \ (IF u.id # NoId THEN WithId(u.chat, u.id) ELSE WithJid(u.chat, u.jid)))
          \in SUBSET User
  OBVIOUS
<1> QED BY <1>1, <1>2, TwoSignals DEF Removed

\* Rows that are updated keep their addresses.
LEMMA UpdatedGood ==
    ASSUME userRows \subseteq User, NEW W \in SUBSET userRows, NEW change,
           \A u \in W : change[u] \in User,
           NEW result \in Updated(W, change)
    PROVE  GoodResult(result)
<1>1. PICK u \in W : result =
          LET w == change[u] IN
          IF SameUser(u, w) THEN Nothing
          ELSE [rows |-> (userRows \ W) \cup {[x EXCEPT !.id = IF u.id = w.id THEN x.id ELSE w.id,
                                                        !.status = IF u.status = w.status THEN x.status
                                                                   ELSE w.status] : x \in W},
                signals |-> <<[kind |-> "updated", user |-> w]>>]
  BY DEF Updated
<1> DEFINE w == change[u]
           New(x) == [x EXCEPT !.id = IF u.id = w.id THEN x.id ELSE w.id,
                               !.status = IF u.status = w.status THEN x.status ELSE w.status]
           rows == (userRows \ W) \cup {New(x) : x \in W}
           signal == [kind |-> "updated", user |-> w]
<1>2. CASE SameUser(u, w)
  BY <1>1, <1>2, NothingGood
<1>3. CASE ~SameUser(u, w)
  <2>1. result = [rows |-> rows, signals |-> <<signal>>]
    BY <1>1, <1>3
  <2>2. \A x \in W : New(x) \in User /\ New(x).jid = x.jid /\ New(x).chat = x.chat
    BY DEF User
  <2> HIDE DEF New
  <2>3. rows \subseteq User
    BY <2>2
  <2>4. JidsIn(rows) = UserJids(Group)
    <3>1. \A y : (\E r \in rows : r.chat = Group /\ r.jid = y) <=>
                 (\E r \in userRows : r.chat = Group /\ r.jid = y)
      BY <2>2
    <3> HIDE DEF rows
    <3> QED BY <3>1 DEF JidsIn, UserJids
  <2>5. IsSequence(<<signal>>) /\ DOMAIN <<signal>> = {1} /\ <<signal>>[1] = signal
    BY OneElement
  <2>6. signal.kind = "updated" /\ EventOK(signal)
    BY DEF EventOK
  <2> HIDE DEF signal, rows
  <2> QED BY <2>1, <2>3, <2>4, <2>5, <2>6 DEF GoodResult
<1> QED BY <1>2, <1>3

LEMMA ReceivedGood ==
    ASSUME userRows \subseteq User, NEW p \in User, NEW result \in Received(p)
    PROVE  GoodResult(result)
<1> DEFINE u == [p EXCEPT !.status = "Joined"]
           SetStatus == [x \in userRows |-> [x EXCEPT !.status = u.status]]
           SetId == [x \in userRows |-> [x EXCEPT !.id = u.id, !.status = u.status]]
<1>1. u \in User
  BY DEF User
<1>2. /\ u.status \in {"Allowed", "Banned", "Joined", "Left"} /\ u.id \in Owners \cup {NoId}
  BY <1>1 DEF User
<1>3. \A x \in userRows : SetStatus[x] \in User /\ SetId[x] \in User
  BY <1>2 DEF User
<1>4. result \in CASE WithId(u.chat, u.id) # {} -> Updated(WithId(u.chat, u.id), SetStatus)
                   [] WithId(u.chat, u.id) = {} /\ WithJid(u.chat, u.jid) # {} ->
                          Updated(WithJid(u.chat, u.jid), SetId)
                   [] OTHER -> {Added(u)}
  BY DEF Received
<1>5. WithId(u.chat, u.id) \in SUBSET userRows /\ WithJid(u.chat, u.jid) \in SUBSET userRows
  BY DEF WithId, WithJid
<1> HIDE DEF u, SetStatus, SetId
<1>6. CASE WithId(u.chat, u.id) # {}
  <2>1. result \in Updated(WithId(u.chat, u.id), SetStatus)
    BY <1>4, <1>6
  <2> QED BY <1>3, <1>5, <2>1, UpdatedGood
<1>7. CASE WithId(u.chat, u.id) = {} /\ WithJid(u.chat, u.jid) # {}
  <2>1. result \in Updated(WithJid(u.chat, u.jid), SetId)
    BY <1>4, <1>7
  <2> QED BY <1>3, <1>5, <2>1, UpdatedGood
<1>8. CASE WithId(u.chat, u.id) = {} /\ WithJid(u.chat, u.jid) = {}
  BY <1>1, <1>4, <1>8, AddedGood
<1> QED BY <1>6, <1>7, <1>8

LEMMA LeftGood ==
    ASSUME userRows \subseteq User, NEW p \in User, NEW hasMessage,
           NEW result \in LeftGroup(p, hasMessage)
    PROVE  GoodResult(result)
<1> DEFINE W == WithId(p.chat, p.id)
           SetLeft == [x \in W |-> [x EXCEPT !.status = "Left"]]
           Results == {IF u.status = "Allowed" \/ hasMessage
                       THEN Updated(W, SetLeft) ELSE {Removed(p)} : u \in W}
<1>1. result = Nothing \/ result \in Updated(W, SetLeft) \/ result = Removed(p)
  <2>1. LeftGroup(p, hasMessage) = IF W = {} THEN {Nothing} ELSE UNION Results
    BY DEF LeftGroup
  <2>2. \A R \in Results : R = Updated(W, SetLeft) \/ R = {Removed(p)}
    <3> HIDE DEF W, SetLeft
    <3> QED OBVIOUS
  <2> HIDE DEF W, SetLeft, Results
  <2> QED BY <2>1, <2>2
<1>2. W \in SUBSET userRows
  BY DEF WithId
<1>3. \A x \in W : SetLeft[x] \in User
  BY <1>2 DEF User
<1> HIDE DEF W, SetLeft
<1>4. CASE result \in Updated(W, SetLeft)
  BY <1>2, <1>3, <1>4, UpdatedGood
<1>5. CASE result = Removed(p)
  BY <1>5, RemovedGood
<1>6. CASE result = Nothing
  BY <1>6, NothingGood
<1> QED BY <1>1, <1>4, <1>5, <1>6

LEMMA SenderGood ==
    ASSUME userRows \subseteq User, NEW u \in User, NEW result \in MessageSender(u)
    PROVE  GoodResult(result)
<1>1. [u EXCEPT !.status = "Left"] \in User
  BY DEF User
<1> QED BY <1>1, AddedGood, NothingGood DEF MessageSender

LEMMA AllowedGood ==
    ASSUME userRows \subseteq User, NEW u \in User, NEW result \in AllowedOrBanned(u)
    PROVE  GoodResult(result)
<1> DEFINE W == WithJid(u.chat, u.jid)
           SetStatus == [x \in W |-> [x EXCEPT !.status = u.status]]
<1>1. result \in IF W # {} THEN Updated(W, SetStatus) ELSE {Added(u)}
  BY DEF AllowedOrBanned
<1>2. W \in SUBSET userRows
  BY DEF WithJid
<1>3. \A x \in W : SetStatus[x] \in User
  BY <1>2 DEF User
<1> HIDE DEF W, SetStatus
<1>4. CASE result \in Updated(W, SetStatus)
  BY <1>2, <1>3, <1>4, UpdatedGood
<1>5. CASE result = Added(u)
  BY <1>5, AddedGood
<1> QED BY <1>1, <1>4, <1>5

\* The table and the signals that a job about a user leaves
LEMMA UsersWorkGood ==
    ASSUME userRows \subseteq User, NEW job, JobOK(job), UsersWork(job)
    PROVE  /\ job.op \in UserOps
           /\ \E result : GoodResult(result) /\ userRows' = result.rows /\ Answer(result.signals)
<1>1. PICK result \in CASE job.op = "received" -> Received(job.user)
                        [] job.op = "left" -> LeftGroup(job.user, job.hasMessage)
                        [] job.op = "sender" -> MessageSender(job.user)
                        [] job.op = "allowed or banned" -> AllowedOrBanned(job.user)
                        [] OTHER -> {} :
          userRows' = result.rows /\ Answer(result.signals)
  BY DEF UsersWork
<1> USE DEF JobOK, UserOps
<1>2. CASE job.op = "received"
  <2>1. result \in Received(job.user)
    BY <1>1, <1>2
  <2> QED BY <1>1, <1>2, <2>1, ReceivedGood
<1>3. CASE job.op = "left"
  <2>1. result \in LeftGroup(job.user, job.hasMessage)
    BY <1>1, <1>3
  <2> QED BY <1>1, <1>3, <2>1, LeftGood
<1>4. CASE job.op = "sender"
  <2>1. result \in MessageSender(job.user)
    BY <1>1, <1>4
  <2> QED BY <1>1, <1>4, <2>1, SenderGood
<1>5. CASE job.op = "allowed or banned"
  <2>1. result \in AllowedOrBanned(job.user)
    BY <1>1, <1>5
  <2> QED BY <1>1, <1>5, <2>1, AllowedGood
<1>6. job.op \in UserOps
  BY <1>1
<1> QED BY <1>2, <1>3, <1>4, <1>5, <1>6

-----------------------------------------------------------------------------
(* The database thread.                                                    *)

\* What a job does and the events it adds
WorkDone(job, s) ==
    /\ IsSequence(s) /\ events' = events \o s /\ \A i \in DOMAIN s : EventOK(s[i])
    /\ TrustNext \/ UNCHANGED tables
    /\ AllData(Me)' = Applied(job, AllData(Me)) /\ TablesOK'
    /\ IF job.op \in OmemoOps THEN OmemoWork(job) ELSE UNCHANGED omemoTables
    /\ UserJids(Group)' = UserJids(Group) \/ \E i \in DOMAIN s : s[i].kind = "jids"
    /\ \A i \in DOMAIN s : s[i].kind = "loaded" =>
          i = 1 /\ job.op = "allData" /\ s[i].data = AllData(Me)
    /\ job.op = "allData" => 1 \in DOMAIN s /\ s[1].kind = "loaded"
    /\ \A i \in DOMAIN s : s[i].kind = "userJids" =>
          /\ i = 1 /\ job.op = "userJids" /\ s[1].jids = UserJids(Group)
          /\ UserJids(Group)' = UserJids(Group)
    /\ job.op = "userJids" => 1 \in DOMAIN s /\ s[1].kind = "userJids"

\* One event is added.
LEMMA OneEvent ==
    ASSUME NEW e, Answer(<<e>>)
    PROVE  /\ IsSequence(<<e>>) /\ DOMAIN <<e>> = {1} /\ <<e>>[1] = e
           /\ events' = events \o <<e>>
BY OneElement DEF Answer

\* Jobs other than those of OMEMO leave what allData() returns.
LEMMA DataKept ==
    ASSUME UNCHANGED omemoTables, NEW job, job.op \notin OmemoOps
    PROVE  AllData(Me)' = Applied(job, AllData(Me))
<1>1. AllData(Me)' = AllData(Me)
  BY DEF omemoTables, AllData, OwnDevice, SignedPreKeyPairsOf, PreKeyPairsOf, DevicesOf
<1> QED BY <1>1, NotApplied

LEMMA TrustWorkDone ==
    ASSUME TablesOK, NEW job, JobOK(job), TrustWork(job)
    PROVE  \E s : WorkDone(job, s)
<1>1. TrustNext
  BY TrustWorkIsJob
<1>2. UNCHANGED <<omemoTables, userRows>>
  BY DEF TrustWork
<1>3. job.op \in TrustOps
  BY DEF TrustWork, TrustOps
<1>4. job.op \notin OmemoOps \cup {"allData", "userJids"}
  BY <1>3 DEF TrustOps, OmemoOps
<1>5. AllData(Me)' = Applied(job, AllData(Me))
  BY <1>2, <1>4, DataKept
<1>6. TablesOK'
  BY <1>2 DEF TablesOK, omemoTables
<1>7. UserJids(Group)' = UserJids(Group)
  BY <1>2 DEF UserJids
<1>8. Answer(<<>>) \/ \E K : Answer(Modified(K))
  BY DEF TrustWork
<1>9. CASE Answer(<<>>)
  <2>1. WorkDone(job, <<>>)
    BY <1>1, <1>2, <1>4, <1>5, <1>6, <1>7, <1>9, EmptyQueue DEF WorkDone, Answer
  <2> QED BY <2>1
<1>10. ASSUME NEW K, Answer(Modified(K))
       PROVE  \E s : WorkDone(job, s)
  <2> DEFINE e == [kind |-> "levels", keys |-> K]
  <2>1. e.kind = "levels" /\ EventOK(e)
    BY DEF EventOK
  <2>2. Answer(<<e>>)
    BY <1>10 DEF Modified
  <2> HIDE DEF e
  <2>3. WorkDone(job, <<e>>)
    BY <1>1, <1>2, <1>4, <1>5, <1>6, <1>7, <2>1, <2>2, OneEvent DEF WorkDone
  <2> QED BY <2>3
<1> QED BY <1>8, <1>9, <1>10

LEMMA OmemoWorkDone ==
    ASSUME TablesOK, NEW job, JobOK(job), OmemoWork(job)
    PROVE  \E s : WorkDone(job, s)
<1>1. AllData(Me)' = Applied(job, AllData(Me)) /\ TablesOK' /\ job.op \in OmemoOps
  BY OmemoWorkApplied
<1>2. UNCHANGED <<tables, userRows>> /\ Answer(<<>>)
  BY DEF OmemoWork
<1>3. UserJids(Group)' = UserJids(Group)
  BY <1>2 DEF UserJids
<1>4. job.op \notin {"allData", "userJids"}
  BY <1>1 DEF OmemoOps
<1>5. WorkDone(job, <<>>)
  BY <1>1, <1>2, <1>3, <1>4, EmptyQueue DEF WorkDone, Answer
<1> QED BY <1>5

LEMMA UsersWorkDone ==
    ASSUME TablesOK, NEW job, JobOK(job), UsersWork(job)
    PROVE  \E s : WorkDone(job, s)
<1>1. /\ job.op \in UserOps
      /\ \E result : GoodResult(result) /\ userRows' = result.rows /\ Answer(result.signals)
  BY UsersWorkGood DEF TablesOK
<1>2. PICK result : GoodResult(result) /\ userRows' = result.rows /\ Answer(result.signals)
  BY <1>1
<1>3. UNCHANGED <<tables, omemoTables>>
  BY DEF UsersWork
<1>4. job.op \notin OmemoOps \cup {"allData", "userJids"}
  BY <1>1 DEF UserOps, OmemoOps
<1>5. AllData(Me)' = Applied(job, AllData(Me))
  BY <1>3, <1>4, DataKept
<1>6. TablesOK'
  BY <1>2, <1>3 DEF TablesOK, omemoTables, GoodResult
<1>7. UserJids(Group)' = JidsIn(result.rows)
  BY <1>2 DEF UserJids, JidsIn
<1> DEFINE s == result.signals
<1>8. \A i \in DOMAIN s : s[i].kind \notin {"loaded", "userJids"}
  BY <1>2 DEF GoodResult
<1>9. WorkDone(job, s)
  BY <1>2, <1>3, <1>4, <1>5, <1>6, <1>7, <1>8 DEF WorkDone, Answer, GoodResult
<1> QED BY <1>9

LEMMA ReadWorkDone ==
    ASSUME TablesOK, NEW job, JobOK(job), ReadWork(job)
    PROVE  \E s : WorkDone(job, s)
<1>1. UNCHANGED <<tables, omemoTables, userRows>>
  BY DEF ReadWork
<1>2. job.op \notin OmemoOps
  BY DEF ReadWork, OmemoOps
<1>3. AllData(Me)' = Applied(job, AllData(Me))
  BY <1>1, <1>2, DataKept
<1>4. TablesOK'
  BY <1>1 DEF TablesOK, omemoTables
<1>5. UserJids(Group)' = UserJids(Group)
  BY <1>1 DEF UserJids
<1>6. CASE job.op = "allData"
  <2> DEFINE e == [kind |-> "loaded", data |-> AllData(Me)]
  <2>1. Answer(<<e>>)
    BY <1>6 DEF ReadWork
  <2>2. e.kind = "loaded" /\ e.data = AllData(Me) /\ EventOK(e)
    BY DEF EventOK
  <2> HIDE DEF e
  <2>3. WorkDone(job, <<e>>)
    BY <1>1, <1>2, <1>3, <1>4, <1>5, <1>6, <2>1, <2>2, OneEvent DEF WorkDone
  <2> QED BY <2>3
<1>7. CASE job.op = "userJids"
  <2> DEFINE e == [kind |-> "userJids", jids |-> UserJids(job.chat), chat |-> job.chat,
                   first |-> job.first]
  <2>1. Answer(<<e>>)
    BY <1>7 DEF ReadWork
  <2>2. job.chat = Group
    BY <1>7 DEF JobOK
  <2>3. e.kind = "userJids" /\ e.jids = UserJids(Group) /\ EventOK(e)
    BY <2>2 DEF EventOK
  <2> HIDE DEF e
  <2>4. WorkDone(job, <<e>>)
    BY <1>1, <1>2, <1>3, <1>4, <1>5, <1>7, <2>1, <2>3, OneEvent DEF WorkDone
  <2> QED BY <2>4
<1>8. CASE job.op \notin {"allData", "userJids"}
  <2>1. \E e : Answer(<<e>>) /\ e.kind \in {"users", "queried", "ownKey", "labels", "devices", "reset"}
    <3> DEFINE Ended(e) == Answer(<<e>>) /\ e.kind \in {"users", "queried", "ownKey", "labels", "devices",
                                                      "reset"}
    <3>1. job.op \in {"users", "query", "ownKey", "labels", "report", "report all"}
      BY <1>8 DEF ReadWork
    <3>2. ASSUME job.op = "users" PROVE \E e : Ended(e)
      <4>1. Ended([kind |-> "users", users |-> UsersOf(Group)])
        BY <3>2 DEF ReadWork
      <4> HIDE DEF Ended
      <4> QED BY <4>1
    <3>3. ASSUME job.op = "query" PROVE \E e : Ended(e)
      <4>1. Ended([kind |-> "queried", jids |-> job.jids,
                   levels |-> [v \in DOMAIN job.jids |-> KeysOfUsers(job.jids[v])]])
        BY <3>3 DEF ReadWork
      <4> HIDE DEF Ended
      <4> QED BY <4>1
    <3>4. ASSUME job.op = "ownKey" PROVE \E e : Ended(e)
      <4>1. Ended([kind |-> "ownKey", key |-> OwnKey(store)])
        BY <3>4 DEF ReadWork
      <4> HIDE DEF Ended
      <4> QED BY <4>1
    <3>5. ASSUME job.op = "labels" PROVE \E e : Ended(e)
      <4>1. Ended([kind |-> "labels", keys |-> job.keys])
        BY <3>5 DEF ReadWork
      <4> HIDE DEF Ended
      <4> QED BY <4>1
    <3>6. ASSUME job.op = "report" PROVE \E e : Ended(e)
      <4>1. Ended([kind |-> "devices", jids |-> job.jids])
        BY <3>6 DEF ReadWork
      <4> HIDE DEF Ended
      <4> QED BY <4>1
    <3>7. ASSUME job.op = "report all" PROVE \E e : Ended(e)
      <4>1. Ended([kind |-> "reset"])
        BY <3>7 DEF ReadWork
      <4> HIDE DEF Ended
      <4> QED BY <4>1
    <3>8. \E e : Ended(e)
      BY <3>1, <3>2, <3>3, <3>4, <3>5, <3>6, <3>7
    <3> QED BY <3>8
  <2>2. PICK e : Answer(<<e>>) /\ e.kind \in {"users", "queried", "ownKey", "labels", "devices", "reset"}
    BY <2>1
  <2>3. EventOK(e)
    BY <2>2 DEF EventOK
  <2>4. WorkDone(job, <<e>>)
    BY <1>1, <1>2, <1>3, <1>4, <1>5, <1>8, <2>2, <2>3, OneEvent DEF WorkDone
  <2> QED BY <2>4
<1> QED BY <1>6, <1>7, <1>8

\* The job that is done leaves the queue, the events follow those that wait.
Done(s) ==
    /\ jobs # <<>> /\ jobs' = Tail(jobs) /\ JobOK(Head(jobs)) /\ WorkDone(Head(jobs), s)
    /\ UNCHANGED <<managerVars, chatVars, connected>>

LEMMA WorkIsDone ==
    ASSUME QueuesOK, TablesOK, Work
    PROVE  \E s : Done(s)
<1>1. jobs # <<>> /\ IsSequence(jobs)
  BY DEF Work, QueuesOK
<1>2. JobOK(Head(jobs))
  BY <1>1, TailOf DEF QueuesOK
<1>3. TrustWork(Head(jobs)) \/ OmemoWork(Head(jobs)) \/ UsersWork(Head(jobs)) \/ ReadWork(Head(jobs))
  BY DEF Work
<1>4. \E s : WorkDone(Head(jobs), s)
  BY <1>2, <1>3, TrustWorkDone, OmemoWorkDone, UsersWorkDone, ReadWorkDone
<1> QED BY <1>2, <1>4 DEF Work, Done

\* The queues after a job
LEMMA QueuesDone ==
    ASSUME QueuesOK, NEW s, Done(s)
    PROVE  /\ Len(jobs) \in Nat \ {0} /\ DOMAIN jobs = 1..Len(jobs) /\ Head(jobs) = jobs[1]
           /\ Len(jobs') = Len(jobs) - 1 /\ DOMAIN jobs' = 1..(Len(jobs) - 1)
           /\ \A i \in DOMAIN jobs' : i + 1 \in DOMAIN jobs /\ jobs'[i] = jobs[i + 1]
           /\ \A i \in DOMAIN jobs : i = 1 \/ (i - 1 \in DOMAIN jobs' /\ jobs'[i - 1] = jobs[i])
           /\ DOMAIN events = 1..Len(events) /\ Len(events) \in Nat /\ DOMAIN events' \subseteq Nat
           /\ \A i \in DOMAIN events : i \in DOMAIN events' /\ events'[i] = events[i]
           /\ \A i \in DOMAIN s : Len(events) + i \in DOMAIN events' /\ events'[Len(events) + i] = s[i]
           /\ \A i \in DOMAIN events' :
                 \/ i \in DOMAIN events /\ events'[i] = events[i]
                 \/ i > Len(events) /\ i - Len(events) \in DOMAIN s /\ events'[i] = s[i - Len(events)]
           /\ IsSequence(jobs') /\ IsSequence(events')
<1>1. IsSequence(jobs) /\ jobs # <<>> /\ jobs' = Tail(jobs)
  BY DEF QueuesOK, Done
<1>2. IsSequence(events) /\ IsSequence(s) /\ events' = events \o s
  BY DEF QueuesOK, Done, WorkDone
<1>3. /\ Len(jobs) \in Nat \ {0} /\ DOMAIN jobs = 1..Len(jobs) /\ Head(jobs) = jobs[1]
      /\ Len(jobs') = Len(jobs) - 1 /\ DOMAIN jobs' = 1..(Len(jobs) - 1)
      /\ \A i \in DOMAIN jobs' : i + 1 \in DOMAIN jobs /\ jobs'[i] = jobs[i + 1]
      /\ IsSequence(jobs')
  BY <1>1, TailOf
<1>4. \A i \in DOMAIN jobs : i = 1 \/ (i - 1 \in DOMAIN jobs' /\ jobs'[i - 1] = jobs[i])
  BY <1>3
<1> QED BY <1>2, <1>3, <1>4, Joined

LEMMA WorkQueues ==
    ASSUME QueuesOK, NEW s, Done(s)
    PROVE  QueuesOK'
BY QueuesDone DEF QueuesOK, Done, WorkDone

\* A job other than allData() adds no data that is loaded.
LEMMA WorkLoading ==
    ASSUME QueuesOK, MemoryFollows, NEW s, Done(s)
    PROVE  LoadedOnce' /\ (Loading' <=> Loading)
<1> DEFINE job == Head(jobs)
<1>0. \A j \in DOMAIN events' :
          \/ j \in DOMAIN events /\ events'[j] = events[j]
          \/ j - Len(events) \in DOMAIN s /\ events'[j] = s[j - Len(events)]
  BY QueuesDone
<1>1. job = jobs[1] /\ 1 \in DOMAIN jobs
  BY QueuesDone
<1>2. /\ \A i \in DOMAIN s : s[i].kind = "loaded" =>
            i = 1 /\ job.op = "allData" /\ s[i].data = AllData(Me)
      /\ job.op = "allData" => 1 \in DOMAIN s /\ s[1].kind = "loaded"
      /\ IF job.op \in OmemoOps THEN TRUE ELSE UNCHANGED omemoTables
  BY DEF Done, WorkDone
<1>3. UNCHANGED managerVars
  BY DEF Done
<1> HIDE DEF job
<1>4. LoadedOnce
  BY DEF MemoryFollows
<1>5. Loading' => Loading
  <2>1. ASSUME NEW i \in DOMAIN jobs', jobs'[i].op = "allData"
        PROVE  Loading
    BY <2>1, QueuesDone DEF Loading
  <2>2. ASSUME NEW i \in DOMAIN events', events'[i].kind = "loaded"
        PROVE  Loading
    <3>1. CASE i \in DOMAIN events /\ events'[i] = events[i]
      BY <2>2, <3>1 DEF Loading
    <3>2. CASE i - Len(events) \in DOMAIN s /\ events'[i] = s[i - Len(events)]
      BY <1>1, <1>2, <2>2, <3>2 DEF Loading
    <3> QED BY <3>1, <3>2, QueuesDone
  <2> QED BY <2>1, <2>2 DEF Loading
<1>6. Loading => Loading'
  <2>1. ASSUME NEW i \in DOMAIN jobs, jobs[i].op = "allData"
        PROVE  Loading'
    <3>1. CASE i = 1
      BY <1>1, <1>2, <2>1, <3>1, QueuesDone DEF Loading
    <3>2. CASE i # 1
      BY <2>1, <3>2, QueuesDone DEF Loading
    <3> QED BY <3>1, <3>2
  <2>2. ASSUME NEW i \in DOMAIN events, events[i].kind = "loaded"
        PROVE  Loading'
    BY <2>2, QueuesDone DEF Loading
  <2> QED BY <2>1, <2>2 DEF Loading
<1>7. ASSUME Loading PROVE AllData(Me)' = AllData(Me)
  <2>1. job.op \notin OmemoOps
    BY <1>1, <1>4, <1>7 DEF LoadedOnce
  <2> QED BY <1>2, <2>1 DEF omemoTables, AllData, OwnDevice, SignedPreKeyPairsOf, PreKeyPairsOf,
                           DevicesOf
<1>8. ASSUME NEW i \in DOMAIN jobs', jobs'[i].op = "allData"
      PROVE  /\ \A j \in DOMAIN jobs' : jobs'[j].op = "allData" => i = j
             /\ \A j \in DOMAIN events' : events'[j].kind # "loaded"
  <2>1. i + 1 \in DOMAIN jobs /\ jobs[i + 1].op = "allData" /\ i \in Nat /\ i + 1 # 1
    BY <1>8, QueuesDone
  <2>2. \A j \in DOMAIN jobs : jobs[j].op = "allData" => i + 1 = j
    BY <1>4, <2>1 DEF LoadedOnce
  <2>3. \A j \in DOMAIN events : events[j].kind # "loaded"
    BY <1>4, <2>1 DEF LoadedOnce
  <2>4. job.op # "allData"
    BY <1>1, <2>1, <2>2
  <2>5. \A j \in DOMAIN events' : events'[j].kind # "loaded"
    <3>1. \A j \in DOMAIN s : s[j].kind # "loaded"
      BY <1>2, <2>4
    <3> QED BY <1>0, <2>3, <3>1
  <2>6. \A j \in DOMAIN jobs' : j \in Nat /\ j + 1 \in DOMAIN jobs /\ jobs'[j] = jobs[j + 1]
    BY QueuesDone
  <2>7. \A j \in DOMAIN jobs' : jobs'[j].op = "allData" => i = j
    BY <2>1, <2>2, <2>6
  <2> QED BY <2>5, <2>7
<1>9. ASSUME NEW i \in DOMAIN events', events'[i].kind = "loaded"
      PROVE  /\ \A j \in DOMAIN events' : events'[j].kind = "loaded" => i = j
             /\ events'[i].data = AllData(Me)
  <2>1. CASE i \in DOMAIN events /\ events'[i] = events[i]
    <3>1. /\ \A j \in DOMAIN events : events[j].kind = "loaded" => i = j
          /\ events[i].data = AllData(Me)
      BY <1>4, <1>9, <2>1 DEF LoadedOnce
    <3>2. job.op # "allData"
      BY <1>1, <1>4, <1>9, <2>1 DEF LoadedOnce
    <3> QED BY <1>2, <2>1, <3>1, <3>2, QueuesDone
  <2>2. CASE i > Len(events) /\ i - Len(events) \in DOMAIN s /\ events'[i] = s[i - Len(events)]
    <3>1. job.op = "allData" /\ i - Len(events) = 1 /\ events'[i].data = AllData(Me)
      BY <1>2, <1>9, <2>2
    <3>2. \A j \in DOMAIN events : events[j].kind # "loaded"
      BY <1>1, <1>4, <3>1 DEF LoadedOnce
    <3>3. ASSUME NEW j \in DOMAIN events', events'[j].kind = "loaded"
          PROVE  i = j
      <4>1. j - Len(events) \in DOMAIN s /\ events'[j] = s[j - Len(events)] /\ j \in Nat
        BY <3>2, <3>3, QueuesDone
      <4>2. j - Len(events) = 1
        BY <1>2, <3>3, <4>1
      <4>3. i \in Nat /\ Len(events) \in Nat
        BY QueuesDone
      <4> QED BY <3>1, <4>1, <4>2, <4>3
    <3> QED BY <3>1, <3>3
  <2> QED BY <2>1, <2>2, QueuesDone
<1>10. ASSUME Loading
       PROVE  ~isLoaded' /\ memory' = NoMemory /\ \A i \in DOMAIN jobs' : jobs'[i].op \notin OmemoOps
  BY <1>3, <1>4, <1>10, QueuesDone DEF LoadedOnce, managerVars
<1>11. LoadedOnce'
  <2>1. ASSUME NEW i \in DOMAIN events', events'[i].kind = "loaded"
        PROVE  events'[i].data = AllData(Me)'
    <3>1. Loading
      BY <1>5, <2>1 DEF Loading
    <3> QED BY <1>7, <1>9, <2>1, <3>1
  <2> QED BY <1>5, <1>8, <1>9, <1>10, <2>1 DEF LoadedOnce
<1> QED BY <1>5, <1>6, <1>11

LEMMA WorkMemory ==
    ASSUME QueuesOK, MemoryFollows, NEW s, Done(s)
    PROVE  MemoryFollows'
<1>1. LoadedOnce' /\ (Loading' <=> Loading)
  BY WorkLoading
<1>2. ASSUME ~Loading PROVE Replayed'
  <2>1. PICK data :
            /\ data[1] = AllData(Me) /\ data[Len(jobs) + 1] = memory
            /\ \A i \in 1..Len(jobs) : data[i + 1] = Applied(jobs[i], data[i])
    BY <1>2 DEF MemoryFollows, Replayed
  <2> DEFINE rest == [i \in 1..Len(jobs) |-> data[i + 1]]
  <2>2. /\ Len(jobs) \in Nat \ {0} /\ Head(jobs) = jobs[1]
        /\ Len(jobs') = Len(jobs) - 1
        /\ \A i \in 1..(Len(jobs) - 1) : jobs'[i] = jobs[i + 1]
    BY QueuesDone
  <2>3. AllData(Me)' = Applied(jobs[1], AllData(Me)) /\ memory' = memory
    BY <2>2 DEF Done, WorkDone, managerVars
  <2>4. rest[1] = AllData(Me)'
    BY <2>1, <2>2, <2>3
  <2>5. rest[Len(jobs') + 1] = memory'
    BY <2>1, <2>2, <2>3
  <2>6. \A i \in 1..Len(jobs') : rest[i + 1] = Applied(jobs'[i], rest[i])
    <3> SUFFICES ASSUME NEW i \in 1..Len(jobs') PROVE rest[i + 1] = Applied(jobs'[i], rest[i])
      OBVIOUS
    <3>1. i \in 1..Len(jobs) /\ i + 1 \in 1..Len(jobs) /\ jobs'[i] = jobs[i + 1]
      BY <2>2
    <3>2. data[(i + 1) + 1] = Applied(jobs[i + 1], data[i + 1])
      BY <2>1, <3>1
    <3>3. rest[i + 1] = data[(i + 1) + 1] /\ rest[i] = data[i + 1]
      BY <3>1
    <3> QED BY <3>1, <3>2, <3>3
  <2> HIDE DEF rest
  <2> QED BY <2>4, <2>5, <2>6 DEF Replayed
<1> QED BY <1>1, <1>2 DEF MemoryFollows

LEMMA WorkPairs ==
    ASSUME QueuesOK, TablesOK, PairsOfSetUp, NEW s, Done(s)
    PROVE  PairsOfSetUp'
<1> SUFFICES ASSUME ~isReset'
             PROVE  /\ isLoaded' => memory'.ownDevice # NoDevice
                    /\ \A i \in DOMAIN jobs' : jobs'[i].op # "resetOmemo"
                    /\ OwnDevice(Me)' = NoDevice =>
                          /\ signedPreKeyPairs' \subseteq {<<Me, 1>>}
                          /\ preKeyPairs' \subseteq {<<Me, 1>>}
                          /\ \A i \in DOMAIN jobs' :
                                /\ jobs'[i].op = "addSignedPreKeyPair" => jobs'[i].id = 1
                                /\ jobs'[i].op = "addPreKeyPairs" => jobs'[i].ids \subseteq {1}
  BY DEF PairsOfSetUp
<1> DEFINE job == Head(jobs)
<1>1. ~isReset /\ isLoaded' = isLoaded /\ memory' = memory
  BY DEF Done, managerVars
<1>2. /\ isLoaded => memory.ownDevice # NoDevice
      /\ \A i \in DOMAIN jobs : jobs[i].op # "resetOmemo"
      /\ OwnDevice(Me) = NoDevice =>
            /\ signedPreKeyPairs \subseteq {<<Me, 1>>} /\ preKeyPairs \subseteq {<<Me, 1>>}
            /\ \A i \in DOMAIN jobs :
                  /\ jobs[i].op = "addSignedPreKeyPair" => jobs[i].id = 1
                  /\ jobs[i].op = "addPreKeyPairs" => jobs[i].ids \subseteq {1}
  BY <1>1 DEF PairsOfSetUp
<1>3. job = jobs[1] /\ 1 \in DOMAIN jobs
  BY QueuesDone
<1>4. \A i \in DOMAIN jobs' : i + 1 \in DOMAIN jobs /\ jobs'[i] = jobs[i + 1]
  BY QueuesDone
<1>5. JobOK(job) /\ IF job.op \in OmemoOps THEN OmemoWork(job) ELSE UNCHANGED omemoTables
  BY DEF Done, WorkDone
<1> HIDE DEF job
<1>6. OwnDevice(Me)' = NoDevice =>
          /\ OwnDevice(Me) = NoDevice
          /\ signedPreKeyPairs' \subseteq {<<Me, 1>>} /\ preKeyPairs' \subseteq {<<Me, 1>>}
  <2>1. CASE UNCHANGED omemoTables
    BY <1>2, <2>1 DEF omemoTables, OwnDevice
  <2>2. CASE job.op = "setOwnDevice" /\ SetOwnDevice(Me, job.device)
    <3>1. job.device = "device"
      BY <1>5, <2>2 DEF JobOK, OmemoOps, OmemoArguments
    <3> QED BY <2>2, <3>1 DEF SetOwnDevice, OwnDevice, NoDevice
  <2>3. CASE job.op = "addSignedPreKeyPair" /\ AddSignedPreKeyPair(Me, job.id)
    BY <1>2, <1>3, <2>3 DEF AddSignedPreKeyPair, OwnDevice
  <2>4. CASE job.op = "removeSignedPreKeyPair" /\ RemoveSignedPreKeyPair(Me, job.id)
    BY <1>2, <2>4 DEF RemoveSignedPreKeyPair, OwnDevice
  <2>5. CASE job.op = "addPreKeyPairs" /\ AddPreKeyPairs(Me, job.ids)
    BY <1>2, <1>3, <2>5 DEF AddPreKeyPairs, OwnDevice
  <2>6. CASE job.op = "removePreKeyPair" /\ RemovePreKeyPair(Me, job.id)
    BY <1>2, <2>6 DEF RemovePreKeyPair, OwnDevice
  <2>7. CASE AddDevice(Me, job.device[1], job.device[2], job.session)
    BY <1>2, <2>7 DEF AddDevice, OwnDevice
  <2>8. CASE RemoveDevice(Me, job.device[1], job.device[2]) \/ RemoveDevices(Me, job.jid)
    BY <1>2, <2>8 DEF RemoveDevice, RemoveDevices, RemoveDeviceRows, OwnDevice
  <2>9. job.op # "resetOmemo"
    BY <1>2, <1>3
  <2> QED BY <1>5, <2>1, <2>2, <2>3, <2>4, <2>5, <2>6, <2>7, <2>8, <2>9 DEF OmemoWork
<1> QED BY <1>1, <1>2, <1>4, <1>6

LEMMA WorkUsers ==
    ASSUME QueuesOK, UsersFollow, NEW s, Done(s)
    PROVE  UsersFollow'
<1> SUFFICES ASSUME open' = Group
             PROVE  UsersFollow'
  BY DEF UsersFollow
<1> DEFINE job == Head(jobs)
<1>1. open = Group /\ groupJids' = groupJids
  BY DEF Done, chatVars
<1>2. job = jobs[1] /\ 1 \in DOMAIN jobs
  BY QueuesDone
<1>3. /\ UserJids(Group)' = UserJids(Group) \/ \E i \in DOMAIN s : s[i].kind = "jids"
      /\ \A i \in DOMAIN s : s[i].kind = "userJids" =>
            /\ i = 1 /\ job.op = "userJids" /\ s[1].jids = UserJids(Group)
            /\ UserJids(Group)' = UserJids(Group)
      /\ job.op = "userJids" => 1 \in DOMAIN s /\ s[1].kind = "userJids"
  BY DEF Done, WorkDone
<1> HIDE DEF job
<1>4. CASE job.op = "userJids"
  <2> DEFINE n == Len(events) + 1
  <2>1. n \in DOMAIN events' /\ events'[n] = s[1]
    BY <1>3, <1>4, QueuesDone
  <2>2. events'[n].kind = "userJids" /\ events'[n].jids = UserJids(Group)'
    BY <1>3, <1>4, <2>1
  <2>3. \A j \in DOMAIN events' : j > n => events'[j].kind # "userJids"
    <3> SUFFICES ASSUME NEW j \in DOMAIN events', j > n, events'[j].kind = "userJids"
                 PROVE  FALSE
      OBVIOUS
    <3>1. j - Len(events) \in DOMAIN s /\ events'[j] = s[j - Len(events)] /\ j \in Nat /\ Len(events) \in Nat
      BY QueuesDone
    <3>2. j - Len(events) = 1
      BY <1>3, <3>1
    <3> QED BY <3>1, <3>2
  <2> HIDE DEF n
  <2> QED BY <1>1, <2>1, <2>2, <2>3 DEF UsersFollow
<1>5. CASE \E i \in DOMAIN s : s[i].kind = "jids"
  BY <1>5, QueuesDone DEF UsersFollow
<1>6. CASE job.op # "userJids" /\ UserJids(Group)' = UserJids(Group)
  <2>1. \A i \in DOMAIN s : s[i].kind # "userJids"
    BY <1>3, <1>6
  <2>2. CASE \E i \in DOMAIN jobs : jobs[i].op = "userJids"
    BY <1>2, <1>6, <2>2, QueuesDone DEF UsersFollow
  <2>3. CASE \E i \in DOMAIN events : events[i].kind = "jids"
    BY <2>3, QueuesDone DEF UsersFollow
  <2>4. ASSUME NEW i \in DOMAIN events, events[i].kind = "userJids", events[i].jids = UserJids(Group),
               \A j \in DOMAIN events : j > i => events[j].kind # "userJids"
        PROVE  UsersFollow'
    <3>1. i \in DOMAIN events' /\ events'[i] = events[i]
      BY QueuesDone
    <3>2. \A j \in DOMAIN events' : j > i => events'[j].kind # "userJids"
      <4>1. \A j \in DOMAIN events' :
                \/ j \in DOMAIN events /\ events'[j] = events[j]
                \/ j - Len(events) \in DOMAIN s /\ events'[j] = s[j - Len(events)]
        BY QueuesDone
      <4> QED BY <2>1, <2>4, <4>1
    <3> QED BY <1>6, <2>4, <3>1, <3>2 DEF UsersFollow
  <2>5. CASE /\ groupJids = UserJids(Group)
             /\ \A i \in DOMAIN events : events[i].kind # "userJids"
    <3>1. \A j \in DOMAIN events' : events'[j].kind # "userJids"
      <4>1. \A j \in DOMAIN events' :
                \/ j \in DOMAIN events /\ events'[j] = events[j]
                \/ j - Len(events) \in DOMAIN s /\ events'[j] = s[j - Len(events)]
        BY QueuesDone
      <4> QED BY <2>1, <2>5, <4>1
    <3> QED BY <1>1, <1>6, <2>5, <3>1 DEF UsersFollow
  <2> QED BY <1>1, <2>2, <2>3, <2>4, <2>5 DEF UsersFollow
<1> QED BY <1>3, <1>4, <1>5, <1>6

\* The database thread keeps the invariant.
LEMMA WorkKeeps ==
    ASSUME EncryptionInv, Work
    PROVE  EncryptionInv'
<1> USE DEF EncryptionInv
<1>1. PICK s : Done(s)
  BY WorkIsDone
<1>2. QueuesOK' /\ MemoryFollows' /\ PairsOfSetUp' /\ UsersFollow'
  BY <1>1, WorkQueues, WorkMemory, WorkPairs, WorkUsers
<1>3. TrustTypeOK'
  <2>1. CASE TrustNext
    BY <2>1, TrustTyped
  <2>2. CASE UNCHANGED tables
    BY <2>2 DEF tables, TrustTypeOK
  <2> QED BY <1>1, <2>1, <2>2 DEF Done, WorkDone
<1>4. TablesOK'
  BY <1>1 DEF Done, WorkDone
<1>5. OpenChatServed'
  BY <1>1 DEF OpenChatServed, Done, chatVars, UnderWay
<1> QED BY <1>2, <1>3, <1>4, <1>5

-----------------------------------------------------------------------------
(* Jobs that only read                                                     *)

ReadQueue(s) ==
    /\ IsSequence(s)
    /\ \A i \in DOMAIN s :
          \/ s[i].op \in {"query", "ownKey", "labels", "users"}
          \/ s[i].op = "userJids" /\ s[i].chat = Group

LEMMA NoReads == ReadQueue(<<>>)
BY EmptyQueue DEF ReadQueue

LEMMA ReadsJoined ==
    ASSUME NEW s, NEW t, ReadQueue(s), ReadQueue(t)
    PROVE  ReadQueue(s \o t)
BY Joined DEF ReadQueue

LEMMA OneRead ==
    ASSUME NEW job, \/ job.op \in {"query", "ownKey", "labels", "users"}
                    \/ job.op = "userJids" /\ job.chat = Group
    PROVE  ReadQueue(<<job>>)
BY OneElement DEF ReadQueue

LEMMA QueryReads ==
    ASSUME NEW jids
    PROVE  ReadQueue(Query(jids))
<1>1. ReadQueue(<<[op |-> "query", jids |-> jids]>>)
  BY OneRead
<1> QED BY <1>1, NoReads DEF Query

LEMMA QueriesRead ==
    ASSUME NEW V
    PROVE  ReadQueue(Queries(V))
<1>1. ReadQueue(<<[op |-> "ownKey"]>>)
  BY OneRead
<1>2. ReadQueue(IF "account URI" \in V THEN <<[op |-> "ownKey"]>> ELSE <<>>)
  BY <1>1, NoReads
<1> QED BY <1>2, QueryReads, ReadsJoined DEF Queries

LEMMA ReadsQueued ==
    ASSUME jobs = <<>>, NEW s, ReadQueue(s), Queued(s)
    PROVE  jobs' = s
BY FromEmpty DEF Queued, ReadQueue

\* Reading jobs are well-formed and none of OMEMO.
LEMMA ReadsOK ==
    ASSUME NEW s, ReadQueue(s)
    PROVE  /\ IsSequence(s)
           /\ \A i \in DOMAIN s : JobOK(s[i]) /\ s[i].op \notin OmemoOps \cup {"allData"}
BY DEF ReadQueue, JobOK, TrustOps, OmemoOps, UserOps

-----------------------------------------------------------------------------
(* The manager's memory when the main thread runs                          *)

\* No job waits, so the memory is what the tables hold unless they are to be loaded.
LEMMA MemoryWithoutJobs ==
    ASSUME jobs = <<>>, MemoryFollows
    PROVE  /\ ~Loading => memory = AllData(Me)
           /\ Loading => memory = NoMemory /\ ~isLoaded
           /\ Loading <=> \E i \in DOMAIN events : events[i].kind = "loaded"
<1>1. Len(jobs) = 0 /\ DOMAIN jobs = {}
  BY EmptyQueue
<1> QED BY <1>1 DEF MemoryFollows, Replayed, LoadedOnce, Loading

\* The manager changes its memory and queues the jobs that change the tables alike.
LEMMA MemoryWritten ==
    ASSUME jobs = <<>>, MemoryFollows, ~Loading, events' = events, UNCHANGED omemoTables,
           IsSequence(jobs'), \A i \in DOMAIN jobs' : jobs'[i].op # "allData",
           NEW data, data[1] = memory, data[Len(jobs') + 1] = memory',
           \A i \in 1..Len(jobs') : data[i + 1] = Applied(jobs'[i], data[i])
    PROVE  MemoryFollows'
<1>1. \A i \in DOMAIN events' : events'[i].kind # "loaded"
  BY MemoryWithoutJobs
<1>2. ~Loading'
  BY <1>1 DEF Loading
<1>3. LoadedOnce'
  BY <1>1, <1>2 DEF LoadedOnce
<1>4. data[1] = AllData(Me)'
  BY MemoryWithoutJobs DEF AllData, omemoTables, OwnDevice, SignedPreKeyPairsOf, PreKeyPairsOf,
                           DevicesOf
<1>5. Replayed'
  BY <1>4 DEF Replayed
<1> QED BY <1>3, <1>5 DEF MemoryFollows

\* The memory and the tables are left alone.
LEMMA MemoryKept ==
    ASSUME jobs = <<>>, MemoryFollows, UNCHANGED <<omemoTables, memory>>,
           isLoaded' \in {isLoaded, FALSE}, IsSequence(events),
           IsSequence(jobs'), \A i \in DOMAIN jobs' : jobs'[i].op \notin OmemoOps \cup {"allData"},
           \/ events' = events
           \/ events # <<>> /\ events' = Tail(events) /\ Head(events).kind # "loaded"
    PROVE  MemoryFollows'
<1>1. /\ \A i \in DOMAIN events' : \E j \in DOMAIN events : events'[i] = events[j]
      /\ \A i \in DOMAIN events : events[i].kind = "loaded" =>
            \E j \in DOMAIN events' : events'[j] = events[i]
  <2>1. CASE events' = events
    BY <2>1
  <2>2. CASE events # <<>> /\ events' = Tail(events) /\ Head(events).kind # "loaded"
    <3>1. \A i \in DOMAIN events' : i + 1 \in DOMAIN events /\ events'[i] = events[i + 1]
      BY <2>2, TailOf
    <3>2. \A i \in DOMAIN events : i # 1 => i - 1 \in DOMAIN events' /\ events'[i - 1] = events[i]
      BY <2>2, TailOf
    <3>3. Head(events) = events[1]
      BY <2>2, TailOf
    <3> QED BY <2>2, <3>1, <3>2, <3>3
  <2> QED BY <2>1, <2>2
<1>2. \A i, j \in DOMAIN events' : events'[i].kind = "loaded" /\ events'[j].kind = "loaded" => i = j
  <2>0. \A i, j \in DOMAIN events : events[i].kind = "loaded" /\ events[j].kind = "loaded" => i = j
    BY DEF MemoryFollows, LoadedOnce
  <2>1. CASE events' = events
    BY <2>0, <2>1
  <2>2. CASE events # <<>> /\ events' = Tail(events)
    <3>1. \A i \in DOMAIN events' : i \in Nat /\ i + 1 \in DOMAIN events /\ events'[i] = events[i + 1]
      BY <2>2, TailOf
    <3>2. \A i, j \in DOMAIN events' :
              events'[i].kind = "loaded" /\ events'[j].kind = "loaded" => i + 1 = j + 1
      BY <2>0, <3>1
    <3> QED BY <3>1, <3>2
  <2> QED BY <2>1, <2>2
<1>3. Loading' <=> Loading
  BY <1>1, MemoryWithoutJobs DEF Loading
<1>4. AllData(Me)' = AllData(Me)
  BY DEF AllData, omemoTables, OwnDevice, SignedPreKeyPairsOf, PreKeyPairsOf, DevicesOf
<1>5. \A i \in DOMAIN events : events[i].kind = "loaded" => events[i].data = AllData(Me)
  BY DEF MemoryFollows, LoadedOnce
<1>6. \A i \in DOMAIN events' : events'[i].kind = "loaded" => events'[i].data = AllData(Me)'
  BY <1>1, <1>4, <1>5
<1>7. Loading' => /\ ~isLoaded' /\ memory' = NoMemory
                  /\ \A i \in DOMAIN jobs' : jobs'[i].op \notin OmemoOps
  BY <1>3, MemoryWithoutJobs
<1>8. LoadedOnce'
  BY <1>2, <1>6, <1>7 DEF LoadedOnce
<1>9. ASSUME ~Loading PROVE Replayed'
  <2> DEFINE data == [i \in 1..(Len(jobs') + 1) |-> memory]
  <2>1. Len(jobs') \in Nat /\ DOMAIN jobs' = 1..Len(jobs')
    BY EmptyQueue, Joined
  <2>2. data[1] = AllData(Me)' /\ data[Len(jobs') + 1] = memory'
    BY <1>4, <1>9, <2>1, MemoryWithoutJobs
  <2>3. \A i \in 1..Len(jobs') : data[i + 1] = Applied(jobs'[i], data[i])
    <3> SUFFICES ASSUME NEW i \in 1..Len(jobs') PROVE data[i + 1] = Applied(jobs'[i], data[i])
      OBVIOUS
    <3>1. data[i + 1] = memory /\ data[i] = memory
      BY <2>1
    <3>2. jobs'[i].op \notin OmemoOps
      BY <2>1
    <3> HIDE DEF data
    <3> QED BY <3>1, <3>2, NotApplied
  <2> HIDE DEF data
  <2> QED BY <2>2, <2>3 DEF Replayed
<1> QED BY <1>3, <1>8, <1>9 DEF MemoryFollows

\* So are the pairs of keys.
LEMMA PairsKept ==
    ASSUME PairsOfSetUp, UNCHANGED <<omemoTables, isReset>>,
           ~isReset /\ isLoaded' => memory'.ownDevice # NoDevice,
           \A i \in DOMAIN jobs' :
               jobs'[i].op \notin {"resetOmemo", "addSignedPreKeyPair", "addPreKeyPairs"}
    PROVE  PairsOfSetUp'
BY DEF PairsOfSetUp, omemoTables, OwnDevice

-----------------------------------------------------------------------------
(* The main thread: results and signals.                                   *)

LEMMA HandleReads ==
    ASSUME jobs = <<>>, QueuesOK, Handle
    PROVE  ReadQueue(jobs')
<1> DEFINE event == Head(events)
<1>1. EventOK(event)
  BY TailOf DEF QueuesOK, Handle
<1>2. \/ UserJidsFetched(event) \/ UserJidsChanged(event)
      \/ ListChanged(event) \/ ListHidden(event)
      \/ LevelsChanged(event) \/ DevicesChanged(event) \/ ResetDone(event) \/ Loaded(event)
      \/ Queried(event) \/ LabelsQueried(event) \/ OwnKeyQueried(event)
  BY DEF Handle
<1> HIDE DEF event
<1>3. CASE UNCHANGED jobs
  BY <1>3, NoReads
<1>4. ASSUME NEW jids, Queued(Query(jids))
      PROVE  ReadQueue(jobs')
  BY <1>4, QueryReads, ReadsQueued
<1>5. ASSUME NEW V, Queued(Queries(V))
      PROVE  ReadQueue(jobs')
  BY <1>5, QueriesRead, ReadsQueued
<1>6. CASE Queued(<<>>)
  BY <1>6, NoReads, ReadsQueued
<1>7. CASE UserJidsFetched(event)
  <2>1. UNCHANGED jobs \/ UpdateGroupChatEncryption(event.jids)
    BY <1>7 DEF UserJidsFetched
  <2>2. UpdateGroupChatEncryption(event.jids) => Queued(<<>>) \/ \E jids : Queued(Query(jids))
    BY DEF UpdateGroupChatEncryption
  <2> QED BY <1>3, <1>4, <1>6, <2>1, <2>2
<1>8. CASE UserJidsChanged(event)
  <2> DEFINE job == [op |-> "userJids", chat |-> event.chat, first |-> FALSE]
  <2>1. event.chat = Group
    BY <1>1, <1>8 DEF UserJidsChanged, EventOK
  <2>2. job.op = "userJids" /\ job.chat = Group
    BY <2>1
  <2>3. Queued(<<job>>) \/ Queued(<<>>)
    BY <1>8 DEF UserJidsChanged
  <2> HIDE DEF job
  <2>4. ReadQueue(<<job>>)
    BY <2>2, OneRead
  <2> QED BY <1>6, <2>3, <2>4, ReadsQueued
<1>9. CASE ListChanged(event)
  <2>1. UNCHANGED jobs \/ Queued(<<>>) \/ \E jids : Queued(Query(jids))
    BY <1>9 DEF ListChanged
  <2> QED BY <1>3, <1>4, <1>6, <2>1
<1>10. CASE LevelsChanged(event) \/ DevicesChanged(event)
  <2>1. \E V : Queued(Queries(V))
    BY <1>10 DEF LevelsChanged, DevicesChanged
  <2> QED BY <1>5, <2>1
<1>11. CASE Queried(event)
  <2> DEFINE job == [op |-> "labels", keys |-> AuthenticatedKeys(event.levels["authenticated keys"])]
  <2>1. Queued(<<job>>) \/ Queued(<<>>)
    BY <1>11 DEF Queried
  <2>2. job.op = "labels"
    OBVIOUS
  <2> HIDE DEF job
  <2>3. ReadQueue(<<job>>)
    BY <2>2, OneRead
  <2> QED BY <1>6, <2>1, <2>3, ReadsQueued
<1>12. CASE OwnKeyQueried(event)
  <2>1. \E jids : Queued(Query(jids))
    BY <1>12 DEF OwnKeyQueried
  <2> QED BY <1>4, <2>1
<1>13. CASE ListHidden(event) \/ ResetDone(event) \/ Loaded(event) \/ LabelsQueried(event)
  BY <1>3, <1>13 DEF ListHidden, ResetDone, Loaded, LabelsQueried
<1> QED BY <1>2, <1>7, <1>8, <1>9, <1>10, <1>11, <1>12, <1>13

\* What loading, a finished reset and the other handlers do with the manager's memory
LEMMA HandleMemory ==
    ASSUME jobs = <<>>, QueuesOK, MemoryFollows, PairsOfSetUp, Handle
    PROVE  MemoryFollows' /\ PairsOfSetUp'
<1> DEFINE event == Head(events)
<1>1. /\ IsSequence(events) /\ events # <<>> /\ events' = Tail(events)
      /\ UNCHANGED omemoTables
  BY DEF QueuesOK, Handle
<1>2. /\ \A i \in DOMAIN events' : i \in Nat /\ i + 1 \in DOMAIN events /\ events'[i] = events[i + 1]
      /\ 1 \in DOMAIN events /\ event = events[1]
  BY <1>1, TailOf
<1>3. /\ IsSequence(jobs')
      /\ \A i \in DOMAIN jobs' : jobs'[i].op \notin OmemoOps \cup {"allData"}
  BY HandleReads, ReadsOK
<1>4. \A i \in DOMAIN jobs' : jobs'[i].op \notin {"resetOmemo", "addSignedPreKeyPair", "addPreKeyPairs"}
  BY <1>3 DEF OmemoOps
<1>5. \/ Loaded(event)
      \/ event.kind # "loaded" /\ UNCHANGED <<memory, isReset>> /\ isLoaded' \in {isLoaded, FALSE}
  <2>1. \/ UserJidsFetched(event) \/ UserJidsChanged(event)
        \/ ListChanged(event) \/ ListHidden(event)
        \/ LevelsChanged(event) \/ DevicesChanged(event) \/ ResetDone(event) \/ Loaded(event)
        \/ Queried(event) \/ LabelsQueried(event) \/ OwnKeyQueried(event)
    BY DEF Handle
  <2> HIDE DEF event
  <2>2. ListChanged(event) => event.kind \in {"added", "updated", "removed", "users"}
    BY DEF ListChanged
  <2> QED BY <2>1, <2>2 DEF UserJidsFetched, UserJidsChanged, ListChanged, ListHidden, LevelsChanged,
             DevicesChanged, ResetDone, Queried, LabelsQueried, OwnKeyQueried, managerVars
<1> HIDE DEF event
<1>6. CASE event.kind # "loaded" /\ UNCHANGED <<memory, isReset>> /\ isLoaded' \in {isLoaded, FALSE}
  <2>1. event = Head(events)
    BY DEF event
  <2>2. MemoryFollows'
    BY <1>1, <1>3, <1>6, <2>1, MemoryKept
  <2>3. ~isReset /\ isLoaded' => memory'.ownDevice # NoDevice
    BY <1>6 DEF PairsOfSetUp
  <2> QED BY <1>1, <1>4, <1>6, <2>2, <2>3, PairsKept
<1>7. CASE Loaded(event)
  <2>1. /\ event.kind = "loaded" /\ memory' = event.data /\ UNCHANGED <<jobs, isReset>>
        /\ isLoaded' = (event.data.ownDevice # NoDevice)
    BY <1>7 DEF Loaded
  <2>2. event.data = AllData(Me) /\ \A j \in DOMAIN events : events[j].kind = "loaded" => j = 1
    BY <1>2, <2>1 DEF MemoryFollows, LoadedOnce
  <2>3. \A i \in DOMAIN events' : events'[i].kind # "loaded"
    <3> SUFFICES ASSUME NEW i \in DOMAIN events', events'[i].kind = "loaded" PROVE FALSE
      OBVIOUS
    <3>1. i \in Nat /\ i + 1 \in DOMAIN events /\ events[i + 1].kind = "loaded"
      BY <1>2
    <3>2. i + 1 = 1 /\ i # 0
      <4>1. DOMAIN events' = 1..(Len(events) - 1) /\ Len(events) \in Nat
        BY <1>1, TailOf
      <4> QED BY <2>2, <3>1, <4>1
    <3> QED BY <3>1, <3>2
  <2>4. Len(jobs') = 0 /\ DOMAIN jobs' = {}
    BY <2>1, EmptyQueue
  <2>5. ~Loading'
    BY <2>3, <2>4 DEF Loading
  <2>6. LoadedOnce'
    BY <2>3, <2>4, <2>5 DEF LoadedOnce
  <2>7. memory' = AllData(Me)'
    BY <1>1, <2>1, <2>2 DEF AllData, omemoTables, OwnDevice, SignedPreKeyPairsOf, PreKeyPairsOf,
                            DevicesOf
  <2>8. Replayed'
    <3> DEFINE data == [i \in {1} |-> memory']
    <3>1. data[1] = AllData(Me)' /\ data[Len(jobs') + 1] = memory'
      BY <2>4, <2>7
    <3>2. \A i \in 1..Len(jobs') : data[i + 1] = Applied(jobs'[i], data[i])
      BY <2>4
    <3> HIDE DEF data
    <3> QED BY <3>1, <3>2 DEF Replayed
  <2>9. ~isReset /\ isLoaded' => memory'.ownDevice # NoDevice
    BY <2>1
  <2>10. PairsOfSetUp'
    BY <1>1, <1>4, <2>1, <2>9, PairsKept
  <2> QED BY <2>6, <2>8, <2>10 DEF MemoryFollows
<1> QED BY <1>5, <1>6, <1>7

\* The users that are fetched become the known ones, if their chat is open.
LEMMA HandleUsers ==
    ASSUME jobs = <<>>, QueuesOK, UsersFollow, Handle
    PROVE  UsersFollow'
<1> SUFFICES ASSUME open' = Group
             PROVE  UsersFollow'
  BY DEF UsersFollow
<1> DEFINE event == Head(events)
<1>1. /\ IsSequence(events) /\ events # <<>> /\ events' = Tail(events)
      /\ UserJids(Group)' = UserJids(Group)
  BY DEF QueuesOK, Handle, UserJids
<1>2. /\ Len(events) \in Nat /\ DOMAIN events = 1..Len(events) /\ DOMAIN events' = 1..(Len(events) - 1)
      /\ \A i \in DOMAIN events' : i + 1 \in DOMAIN events /\ events'[i] = events[i + 1]
      /\ \A i \in DOMAIN events : i = 1 \/ (i - 1 \in DOMAIN events' /\ events'[i - 1] = events[i])
      /\ event = events[1] /\ EventOK(event) /\ 1 \in DOMAIN events
  BY <1>1, TailOf DEF QueuesOK
<1>3. DOMAIN jobs = {}
  BY EmptyQueue
<1>4. \/ UserJidsFetched(event)
      \/ UserJidsChanged(event)
      \/ event.kind \notin {"userJids", "jids"} /\ UNCHANGED <<open, groupJids>>
  <2>1. \/ UserJidsFetched(event) \/ UserJidsChanged(event)
        \/ ListChanged(event) \/ ListHidden(event)
        \/ LevelsChanged(event) \/ DevicesChanged(event) \/ ResetDone(event) \/ Loaded(event)
        \/ Queried(event) \/ LabelsQueried(event) \/ OwnKeyQueried(event)
    BY DEF Handle
  <2> HIDE DEF event
  <2>2. ListChanged(event) => event.kind \in {"added", "updated", "removed", "users"}
    BY DEF ListChanged
  <2> QED BY <2>1, <2>2 DEF ListChanged, ListHidden, LevelsChanged,
             DevicesChanged, ResetDone, Loaded, Queried, LabelsQueried, OwnKeyQueried, chatVars
<1> HIDE DEF event
<1>5. CASE UserJidsChanged(event)
  <2> DEFINE job == [op |-> "userJids", chat |-> event.chat, first |-> FALSE]
  <2>1. event.chat = Group /\ open = Group
    BY <1>2, <1>5 DEF UserJidsChanged, EventOK, chatVars
  <2>2. Queued(<<job>>)
    BY <1>5, <2>1 DEF UserJidsChanged
  <2>3. job.op = "userJids"
    OBVIOUS
  <2> HIDE DEF job
  <2>4. jobs' = <<job>>
    BY <2>2, OneElement, FromEmpty DEF Queued
  <2>5. DOMAIN jobs' = {1} /\ jobs'[1] = job
    BY <2>4, OneElement
  <2> QED BY <2>3, <2>5 DEF UsersFollow
<1>6. CASE UserJidsFetched(event)
  <2>1. event.kind = "userJids" /\ event.chat = Group /\ open = Group /\ groupJids' = event.jids
    BY <1>2, <1>6 DEF UserJidsFetched, EventOK
  <2>2. CASE \E i \in DOMAIN events : events[i].kind = "jids"
    BY <1>2, <2>1, <2>2 DEF UsersFollow
  <2>3. ASSUME NEW i \in DOMAIN events, events[i].kind = "userJids", events[i].jids = UserJids(Group),
               \A j \in DOMAIN events : j > i => events[j].kind # "userJids"
        PROVE  UsersFollow'
    <3>1. CASE i = 1
      <4>1. groupJids' = UserJids(Group)'
        BY <1>1, <1>2, <2>1, <2>3, <3>1
      <4>2. \A j \in DOMAIN events' : events'[j].kind # "userJids"
        BY <1>2, <2>3, <3>1
      <4> QED BY <4>1, <4>2 DEF UsersFollow
    <3>2. CASE i # 1
      <4>1. i - 1 \in DOMAIN events' /\ events'[i - 1] = events[i]
        BY <1>2, <3>2
      <4>2. \A j \in DOMAIN events' : j > i - 1 => events'[j].kind # "userJids"
        BY <1>2, <2>3
      <4> QED BY <1>1, <2>3, <4>1, <4>2 DEF UsersFollow
    <3> QED BY <3>1, <3>2
  <2> QED BY <1>2, <1>3, <2>1, <2>2, <2>3 DEF UsersFollow
<1>7. CASE event.kind \notin {"userJids", "jids"} /\ UNCHANGED <<open, groupJids>>
  <2>1. CASE \E i \in DOMAIN events : events[i].kind = "jids"
    BY <1>2, <1>7, <2>1 DEF UsersFollow
  <2>2. ASSUME NEW i \in DOMAIN events, events[i].kind = "userJids", events[i].jids = UserJids(Group),
               \A j \in DOMAIN events : j > i => events[j].kind # "userJids"
        PROVE  UsersFollow'
    <3>1. i - 1 \in DOMAIN events' /\ events'[i - 1] = events[i]
      BY <1>2, <1>7, <2>2
    <3>2. \A j \in DOMAIN events' : j > i - 1 => events'[j].kind # "userJids"
      BY <1>2, <2>2
    <3> QED BY <1>1, <2>2, <3>1, <3>2 DEF UsersFollow
  <2>3. CASE groupJids = UserJids(Group) /\ \A i \in DOMAIN events : events[i].kind # "userJids"
    BY <1>1, <1>2, <1>7, <2>3 DEF UsersFollow
  <2> QED BY <1>3, <1>7, <2>1, <2>2, <2>3 DEF UsersFollow
<1> QED BY <1>4, <1>5, <1>6, <1>7

LEMMA InUnion ==
    ASSUME NEW S, NEW U \in S
    PROVE  U \subseteq UNION S
OBVIOUS

LEMMA JoinedUnion ==
    ASSUME NEW S, NEW T
    PROVE  UNION (S \cup T) = (UNION S) \cup (UNION T) /\ UNION {} = {}
OBVIOUS

\* Users that are waited for
LEMMA WaitedFor ==
    /\ \A U \in requests' \cup onConnected' : U \subseteq UnderWay'
    /\ prepared' \subseteq UnderWay'
<1>1. UnderWay' = prepared' \cup (UNION requests') \cup (UNION onConnected')
  BY DEF UnderWay
<1>2. /\ \A U \in requests' : U \subseteq UNION requests'
      /\ \A U \in onConnected' : U \subseteq UNION onConnected'
  BY InUnion
<1> QED BY <1>1, <1>2

LEMMA HandleServed ==
    ASSUME QueuesOK, OpenChatServed, Handle
    PROVE  OpenChatServed'
<1> DEFINE event == Head(events)
<1>1. UserJidsFetched(event) \/ UNCHANGED chatVars
  <2>1. \/ UserJidsFetched(event) \/ UserJidsChanged(event)
        \/ ListChanged(event) \/ ListHidden(event)
        \/ LevelsChanged(event) \/ DevicesChanged(event) \/ ResetDone(event) \/ Loaded(event)
        \/ Queried(event) \/ LabelsQueried(event) \/ OwnKeyQueried(event)
    BY DEF Handle
  <2> HIDE DEF event
  <2> QED BY <2>1 DEF UserJidsChanged, ListChanged, ListHidden, LevelsChanged,
             DevicesChanged, ResetDone, Loaded, Queried, LabelsQueried, OwnKeyQueried
<1>2. EventOK(event)
  BY TailOf DEF QueuesOK, Handle
<1>3. UNCHANGED connected
  BY DEF Handle
<1> HIDE DEF event
<1>4. CASE UNCHANGED chatVars
  BY <1>3, <1>4 DEF OpenChatServed, chatVars, UnderWay
<1>5. CASE UserJidsFetched(event) /\ event.chat # open
  BY <1>3, <1>5 DEF OpenChatServed, UserJidsFetched, UnderWay
<1>6. CASE UserJidsFetched(event) /\ event.chat = open
  <2>1. open = Group /\ open' = Group /\ groupJids' = event.jids /\ prepared' = prepared
    BY <1>2, <1>6 DEF UserJidsFetched, EventOK
  <2>2. CASE event.first /\ Me \notin event.jids
    <3>1. UNCHANGED <<requests, onConnected>> /\ Me \notin groupJids'
      BY <1>6, <2>1, <2>2 DEF UserJidsFetched
    <3> QED BY <1>3, <2>1, <3>1, ChatAssumption DEF OpenChatServed
  <2>3. CASE UpdateGroupChatEncryption(event.jids)
    <3> DEFINE U == event.jids \ {Me}
    <3>1. /\ watched' = IF U = {} THEN watched ELSE U
          /\ requests' = IF U # {} /\ connected THEN requests \cup {U} ELSE requests
          /\ onConnected' = IF U # {} /\ ~connected THEN onConnected \cup {U} ELSE onConnected
      BY <2>3 DEF UpdateGroupChatEncryption
    <3>2. connected' => onConnected' = {}
      BY <1>3, <3>1 DEF OpenChatServed
    <3>3. U \subseteq UnderWay'
      <4>1. U = {} \/ U \in requests' \/ U \in onConnected'
        BY <3>1
      <4> HIDE DEF U
      <4> QED BY <4>1, WaitedFor
    <3>4. Me \in groupJids' /\ groupJids' # {Me} => watched' = groupJids' \ {Me}
      BY <2>1, <3>1
    <3> HIDE DEF U
    <3>5. groupJids' \ {Me} = U
      BY <2>1 DEF U
    <3> QED BY <2>1, <3>2, <3>3, <3>4, <3>5, ChatAssumption DEF OpenChatServed
  <2> QED BY <1>6, <2>2, <2>3 DEF UserJidsFetched
<1> QED BY <1>1, <1>4, <1>5, <1>6

\* Handlers keep the invariant.
LEMMA HandleKeeps ==
    ASSUME EncryptionInv, jobs = <<>>, Handle
    PROVE  EncryptionInv'
<1> USE DEF EncryptionInv
<1>1. QueuesOK'
  <2>1. IsSequence(events) /\ events # <<>> /\ events' = Tail(events)
    BY DEF QueuesOK, Handle
  <2>2. IsSequence(events') /\ \A i \in DOMAIN events' : EventOK(events'[i])
    BY <2>1, TailOf DEF QueuesOK
  <2>3. IsSequence(jobs') /\ \A i \in DOMAIN jobs' : JobOK(jobs'[i])
    BY HandleReads, ReadsOK
  <2> QED BY <2>2, <2>3 DEF QueuesOK
<1>2. TrustTypeOK' /\ TablesOK'
  BY DEF Handle, TrustTypeOK, TablesOK, tables, omemoTables
<1> QED BY <1>1, <1>2, HandleMemory, HandleUsers, HandleServed

-----------------------------------------------------------------------------
(* The main thread: users, the server and the managers.                    *)

\* The main thread changes no table and handles no event.
Aside == UNCHANGED <<tables, omemoTables, userRows, events>>

\* What remains to be shown of a step of the main thread
LEMMA MainKeeps ==
    ASSUME EncryptionInv, Aside,
           IsSequence(jobs'), \A i \in DOMAIN jobs' : JobOK(jobs'[i]),
           MemoryFollows', PairsOfSetUp', UsersFollow', OpenChatServed'
    PROVE  EncryptionInv'
<1>1. QueuesOK'
  BY DEF EncryptionInv, QueuesOK, Aside
<1>2. TrustTypeOK' /\ TablesOK'
  BY DEF EncryptionInv, TrustTypeOK, TablesOK, Aside, tables, omemoTables
<1> QED BY <1>1, <1>2 DEF EncryptionInv

\* A step that leaves the chat alone
LEMMA ChatKept ==
    ASSUME jobs = <<>>, UsersFollow, OpenChatServed, Aside, UNCHANGED <<chatVars, connected>>
    PROVE  UsersFollow' /\ OpenChatServed'
<1>1. DOMAIN jobs = {}
  BY EmptyQueue
<1>2. UserJids(Group)' = UserJids(Group)
  BY DEF Aside, UserJids
<1>3. UsersFollow'
  BY <1>1, <1>2 DEF UsersFollow, Aside, chatVars
<1>4. OpenChatServed'
  BY DEF OpenChatServed, chatVars, UnderWay
<1> QED BY <1>3, <1>4

\* A step that queues jobs other than those of OMEMO and leaves the manager's memory alone
LEMMA ManagerKept ==
    ASSUME jobs = <<>>, QueuesOK, MemoryFollows, PairsOfSetUp, Aside, UNCHANGED managerVars,
           IsSequence(jobs'), \A i \in DOMAIN jobs' : jobs'[i].op \notin OmemoOps \cup {"allData"}
    PROVE  MemoryFollows' /\ PairsOfSetUp'
<1>1. UNCHANGED <<omemoTables, memory, isReset, isLoaded>> /\ events' = events /\ IsSequence(events)
  BY DEF Aside, managerVars, QueuesOK
<1>2. MemoryFollows'
  BY <1>1, MemoryKept
<1>3. \A i \in DOMAIN jobs' : jobs'[i].op \notin {"resetOmemo", "addSignedPreKeyPair", "addPreKeyPairs"}
  BY DEF OmemoOps
<1>4. ~isReset /\ isLoaded' => memory'.ownDevice # NoDevice
  BY <1>1 DEF PairsOfSetUp
<1>5. PairsOfSetUp'
  BY <1>1, <1>3, <1>4, PairsKept
<1> QED BY <1>2, <1>5

LEMMA OpenChatKeeps ==
    ASSUME EncryptionInv, jobs = <<>>, NEW c \in Chats, OpenChat(c)
    PROVE  EncryptionInv'
<1> USE DEF EncryptionInv
<1>1. Aside /\ UNCHANGED managerVars /\ open' = c /\ connected' = connected
  BY DEF OpenChat, Aside
<1>2. /\ ReadQueue(FirstUserJids(c))
      /\ c = Group => \E i \in DOMAIN FirstUserJids(c) : FirstUserJids(c)[i].op = "userJids"
  <2> DEFINE job == [op |-> "userJids", chat |-> Group, first |-> TRUE]
  <2>1. FirstUserJids(c) = IF c = Group THEN <<job>> ELSE <<>>
    BY DEF FirstUserJids
  <2>2. job.op = "userJids" /\ job.chat = Group
    OBVIOUS
  <2> HIDE DEF job
  <2>3. ReadQueue(<<job>>) /\ DOMAIN <<job>> = {1} /\ <<job>>[1] = job
    BY <2>2, OneRead, OneElement
  <2> QED BY <2>1, <2>2, <2>3, NoReads
<1>3. PICK jids : Queued(Query(jids) \o FirstUserJids(c))
  BY DEF OpenChat
<1>4. /\ ReadQueue(Query(jids)) /\ ReadQueue(Query(jids) \o FirstUserJids(c))
      /\ jobs' = Query(jids) \o FirstUserJids(c)
  BY <1>2, <1>3, QueryReads, ReadsJoined, ReadsQueued
<1>5. /\ IsSequence(jobs')
      /\ \A i \in DOMAIN jobs' : JobOK(jobs'[i]) /\ jobs'[i].op \notin OmemoOps \cup {"allData"}
  BY <1>4, ReadsOK
<1>6. MemoryFollows' /\ PairsOfSetUp'
  BY <1>1, <1>5, ManagerKept
<1>7. UsersFollow'
  <2> SUFFICES ASSUME c = Group PROVE \E i \in DOMAIN jobs' : jobs'[i].op = "userJids"
    BY <1>1 DEF UsersFollow
  <2>1. \E i \in DOMAIN FirstUserJids(c) : FirstUserJids(c)[i].op = "userJids"
    BY <1>2
  <2>2. IsSequence(Query(jids)) /\ IsSequence(FirstUserJids(c))
    BY <1>2, <1>4 DEF ReadQueue
  <2> DEFINE s == Query(jids)
             t == FirstUserJids(c)
  <2>3. \A i \in DOMAIN t : Len(s) + i \in DOMAIN (s \o t) /\ (s \o t)[Len(s) + i] = t[i]
    BY <2>2, Joined
  <2>4. jobs' = s \o t /\ \E i \in DOMAIN t : t[i].op = "userJids"
    BY <1>4, <2>1
  <2> HIDE DEF s, t
  <2> QED BY <2>3, <2>4
<1>8. OpenChatServed'
  <2>1. /\ groupJids' = IF c = Group THEN groupJids ELSE {}
        /\ watched' = IF c = Group THEN watched ELSE {c}
        /\ onConnected' = IF c = Group \/ connected THEN {} ELSE {{c}}
        /\ requests' = IF c \in Owners /\ connected THEN requests \cup {{c}} ELSE requests
        /\ c # open
    BY DEF OpenChat, InitializeEncryption
  <2>2. connected' => onConnected' = {}
    BY <1>1, <2>1
  <2>3. c = Group => groupJids' = {}
    BY <2>1 DEF OpenChatServed
  <2>4. c \in Owners => watched' = {c} /\ c \in UnderWay'
    <3> SUFFICES ASSUME c \in Owners PROVE watched' = {c} /\ c \in UnderWay'
      OBVIOUS
    <3>1. c # Group
      BY ChatAssumption
    <3>2. {c} \in requests' \/ {c} \in onConnected'
      BY <2>1, <3>1
    <3> QED BY <2>1, <3>1, <3>2, WaitedFor
  <2> QED BY <1>1, <2>1, <2>2, <2>3, <2>4 DEF OpenChatServed
<1> QED BY <1>1, <1>5, <1>6, <1>7, <1>8, MainKeeps

LEMMA ConnectKeeps ==
    ASSUME EncryptionInv, jobs = <<>>, Connect \/ Disconnect
    PROVE  EncryptionInv'
<1> USE DEF EncryptionInv
<1>1. Aside /\ UNCHANGED managerVars /\ jobs' = jobs /\ UNCHANGED <<open, groupJids, watched, prepared>>
  BY DEF Connect, Disconnect, Aside, chatVars
<1>2. IsSequence(jobs') /\ DOMAIN jobs' = {}
  BY <1>1, EmptyQueue
<1>3. MemoryFollows' /\ PairsOfSetUp'
  BY <1>1, <1>2, ManagerKept
<1>4. UsersFollow'
  <2>1. UserJids(Group)' = UserJids(Group)
    BY <1>1 DEF Aside, UserJids
  <2> QED BY <1>1, <1>2, <2>1 DEF UsersFollow, Aside
<1>5. UnderWay' = UnderWay /\ (connected' => onConnected' = {})
  <2>1. CASE Connect
    <3>1. requests' = requests \cup onConnected /\ onConnected' = {}
      BY <2>1 DEF Connect
    <3>2. UNION (requests \cup onConnected) = (UNION requests) \cup (UNION onConnected) /\ UNION {} = {}
      BY JoinedUnion
    <3> QED BY <1>1, <3>1, <3>2 DEF UnderWay
  <2>2. CASE Disconnect
    BY <2>2 DEF Disconnect, chatVars, UnderWay
  <2> QED BY <2>1, <2>2
<1>6. OpenChatServed'
  BY <1>1, <1>5 DEF OpenChatServed
<1> QED BY <1>1, <1>2, <1>3, <1>4, <1>6, MainKeeps

LEMMA OpenDetailsKeeps ==
    ASSUME EncryptionInv, jobs = <<>>, OpenDetails
    PROVE  EncryptionInv'
<1> USE DEF EncryptionInv
<1> DEFINE a == [op |-> "ownKey"]
           b == [op |-> "users"]
<1>1. Aside /\ UNCHANGED <<managerVars, chatVars, connected>>
  BY DEF OpenDetails, Aside
<1>2. PICK jids : Queued(Query(jids) \o <<a, b>>)
  BY DEF OpenDetails
<1>3. a.op = "ownKey" /\ b.op = "users"
  OBVIOUS
<1> HIDE DEF a, b
<1>4. ReadQueue(<<a, b>>)
  BY <1>3, TwoElements DEF ReadQueue
<1>5. ReadQueue(jobs')
  BY <1>2, <1>4, QueryReads, ReadsJoined, ReadsQueued
<1>6. /\ IsSequence(jobs')
      /\ \A i \in DOMAIN jobs' : JobOK(jobs'[i]) /\ jobs'[i].op \notin OmemoOps \cup {"allData"}
  BY <1>5, ReadsOK
<1> QED BY <1>1, <1>6, ManagerKept, ChatKept, MainKeeps

LEMMA OwnStore == store \in Stores /\ Me \in Owners
BY ChatAssumption DEF store, Stores

\* A step of the managers that leaves the memory alone
LEMMA JobsQueued ==
    ASSUME EncryptionInv, jobs = <<>>, Aside, UNCHANGED <<managerVars, chatVars, connected>>,
           NEW s, IsSequence(s), Queued(s),
           \A i \in DOMAIN s : JobOK(s[i]) /\ s[i].op \notin OmemoOps \cup {"allData"}
    PROVE  EncryptionInv'
<1>1. jobs' = s
  BY FromEmpty DEF Queued
<1> QED BY <1>1, ManagerKept, ChatKept, MainKeeps DEF EncryptionInv

\* Jobs other than those of OMEMO
OtherQueue(s) ==
    /\ IsSequence(s)
    /\ \A i \in DOMAIN s : JobOK(s[i]) /\ s[i].op \notin OmemoOps \cup {"allData"}

LEMMA OthersJoined ==
    ASSUME NEW s, NEW t, OtherQueue(s), OtherQueue(t)
    PROVE  OtherQueue(s \o t)
<1>1. /\ IsSequence(s \o t)
      /\ \A i \in DOMAIN (s \o t) :
            \/ i \in DOMAIN s /\ (s \o t)[i] = s[i]
            \/ i - Len(s) \in DOMAIN t /\ (s \o t)[i] = t[i - Len(s)]
  BY Joined DEF OtherQueue
<1>2. ASSUME NEW i \in DOMAIN (s \o t)
      PROVE  JobOK((s \o t)[i]) /\ (s \o t)[i].op \notin OmemoOps \cup {"allData"}
  <2>1. CASE i \in DOMAIN s /\ (s \o t)[i] = s[i]
    BY <2>1 DEF OtherQueue
  <2>2. CASE i - Len(s) \in DOMAIN t /\ (s \o t)[i] = t[i - Len(s)]
    BY <2>2 DEF OtherQueue
  <2> QED BY <1>1, <2>1, <2>2
<1> QED BY <1>1, <1>2 DEF OtherQueue

LEMMA OneOther ==
    ASSUME NEW job, JobOK(job), job.op \notin OmemoOps \cup {"allData"}
    PROVE  OtherQueue(<<job>>)
BY OneElement DEF OtherQueue

LEMMA DecisionsQueued ==
    ASSUME NEW K \in SUBSET OwnedKeys, NEW level \in {"Authenticated", "ManuallyDistrusted"}
    PROVE  OtherQueue(DecisionsAbout(K, level))
<1> DEFINE a == [op |-> "setTrustLevel", store |-> store, keys |-> K, level |-> level]
           b == [op |-> "setTrustLevels", store |-> store, owners |-> {k[1] : k \in K},
                 old |-> "AutomaticallyTrusted", new |-> "AutomaticallyDistrusted"]
           c == [op |-> "removeMade", store |-> store, trusted |-> {k[2] : k \in K},
                 distrusted |-> {k[2] : k \in K}]
<1>1. level \in Levels /\ "AutomaticallyTrusted" \in Levels /\ "AutomaticallyDistrusted" \in Levels
  BY ChatAssumption
<1>2. {k[1] : k \in K} \subseteq Owners /\ {k[2] : k \in K} \subseteq Keys
  BY DEF OwnedKeys
<1> USE DEF JobOK, TrustOps, TrustArguments, OmemoOps, UserOps
<1>3. JobOK(a) /\ a.op \notin OmemoOps \cup {"allData"}
  BY <1>1, OwnStore
<1>4. JobOK(b) /\ b.op \notin OmemoOps \cup {"allData"}
  BY <1>1, <1>2, OwnStore
<1>5. JobOK(c) /\ c.op \notin OmemoOps \cup {"allData"}
  BY <1>2, OwnStore
<1> HIDE DEF JobOK, TrustOps, TrustArguments, OmemoOps, UserOps
<1>6. DecisionsAbout(K, level) =
          <<a>> \o (IF level = "Authenticated" THEN <<b>> ELSE <<>>) \o <<c>>
  BY DEF DecisionsAbout
<1> HIDE DEF a, b, c
<1>7. OtherQueue(<<a>>) /\ OtherQueue(<<b>>) /\ OtherQueue(<<c>>)
  BY <1>3, <1>4, <1>5, OneOther
<1>8. OtherQueue(<<>>)
  BY EmptyQueue DEF OtherQueue
<1> DEFINE m == IF level = "Authenticated" THEN <<b>> ELSE <<>>
<1>9. OtherQueue(m)
  BY <1>7, <1>8
<1> HIDE DEF m
<1>10. OtherQueue(<<a>> \o m)
  BY <1>7, <1>9, OthersJoined
<1>11. OtherQueue(<<a>> \o m \o <<c>>)
  BY <1>7, <1>10, OthersJoined
<1> QED BY <1>6, <1>11 DEF m

LEMMA DecisionsKeep ==
    ASSUME EncryptionInv, jobs = <<>>, NEW jid \in Owners, NEW expected,
           NEW T \in SUBSET Keys, NEW D \in SUBSET Keys, MakeTrustDecisionsWithUri(jid, expected, T, D)
    PROVE  EncryptionInv'
<1> DEFINE a == IF T = {} THEN <<>> ELSE DecisionsAbout({jid} \X T, "Authenticated")
           b == IF D = {} THEN <<>> ELSE DecisionsAbout({jid} \X D, "ManuallyDistrusted")
<1>1. {jid} \X T \in SUBSET OwnedKeys /\ {jid} \X D \in SUBSET OwnedKeys
  BY DEF OwnedKeys
<1>2. OtherQueue(<<>>)
  BY EmptyQueue DEF OtherQueue
<1>3. OtherQueue(DecisionsAbout({jid} \X T, "Authenticated"))
  BY <1>1, DecisionsQueued
<1>4. OtherQueue(DecisionsAbout({jid} \X D, "ManuallyDistrusted"))
  BY <1>1, DecisionsQueued
<1>5. OtherQueue(a) /\ OtherQueue(b)
  BY <1>2, <1>3, <1>4
<1>6. Queued(IF expected \notin {NoJid, jid} THEN <<>> ELSE a \o b)
  BY DEF MakeTrustDecisionsWithUri
<1> HIDE DEF a, b
<1>7. \E s : OtherQueue(s) /\ Queued(s)
  BY <1>2, <1>5, <1>6, OthersJoined
<1>8. Aside /\ UNCHANGED <<managerVars, chatVars, connected>>
  BY DEF MakeTrustDecisionsWithUri, Unchanged, Aside
<1> QED BY <1>7, <1>8, JobsQueued DEF OtherQueue

LEMMA TrustMessageKeeps ==
    ASSUME EncryptionInv, jobs = <<>>, NEW sender \in Keys, NEW k \in Devices, NEW trust \in BOOLEAN,
           TrustMessageReceived(sender, k, trust)
    PROVE  EncryptionInv'
<1> DEFINE job == [op |-> "addPostponed", store |-> store, sender |-> sender,
                   trusted |-> IF trust THEN {k} ELSE {}, distrusted |-> IF trust THEN {} ELSE {k}]
<1>1. JobOK(job) /\ job.op \notin OmemoOps \cup {"allData"}
  BY OwnStore DEF JobOK, TrustOps, TrustArguments, OmemoOps, UserOps, Devices, OwnedKeys
<1>2. Queued(<<job>>) /\ Aside /\ UNCHANGED <<managerVars, chatVars, connected>>
  BY DEF TrustMessageReceived, Unchanged, Aside
<1> HIDE DEF job
<1>3. OtherQueue(<<job>>)
  BY <1>1, OneOther
<1> QED BY <1>2, <1>3, JobsQueued DEF OtherQueue

LEMMA OtherAccountKeeps ==
    ASSUME EncryptionInv, jobs = <<>>, OtherAccount
    PROVE  EncryptionInv'
<1>1. PICK account \in Accounts \ {Me}, e \in Encryptions, o \in Owners :
          Queued(<<[op |-> "addKeys", store |-> [account |-> account, encryption |-> e], owner |-> o,
                    keys |-> Keys, level |-> "Authenticated"],
                   [op |-> "resetAccount", account |-> account]>>)
  BY DEF OtherAccount
<1> DEFINE a == [op |-> "addKeys", store |-> [account |-> account, encryption |-> e], owner |-> o,
                 keys |-> Keys, level |-> "Authenticated"]
           b == [op |-> "resetAccount", account |-> account]
<1>2. JobOK(a) /\ a.op \notin OmemoOps \cup {"allData"}
  BY ChatAssumption DEF JobOK, TrustOps, TrustArguments, OmemoOps, UserOps, Stores
<1>3. JobOK(b) /\ b.op \notin OmemoOps \cup {"allData"}
  BY DEF JobOK, TrustOps, TrustArguments, OmemoOps, UserOps
<1>4. Queued(<<a, b>>) /\ Aside /\ UNCHANGED <<managerVars, chatVars, connected>>
  BY <1>1 DEF OtherAccount, Unchanged, Aside
<1> HIDE DEF a, b
<1>5. OtherQueue(<<a, b>>)
  BY <1>2, <1>3, TwoElements DEF OtherQueue
<1> QED BY <1>4, <1>5, JobsQueued DEF OtherQueue

\* The job of a change of the group chat's users
LEMMA GroupJob ==
    ASSUME GroupStep
    PROVE  \E job : Queued(<<job>>) /\ job.op \in UserOps /\ job.user \in User
<1>1. PICK jid \in Owners : \E work \in ParticipantJobs(jid) \cup SenderJobs(jid) : Queued(work)
  BY DEF GroupStep
<1>2. PICK work \in ParticipantJobs(jid) \cup SenderJobs(jid) : Queued(work)
  BY <1>1
<1>3. \E job : work = <<job>> /\ job.op \in UserOps /\ job.user \in User
  <2>1. /\ Participant(jid, jid, "Joined") \in User
        /\ Participant(jid, NoJid, "Allowed") \in User
        /\ Participant(jid, jid, "Allowed") \in User
        /\ \A status \in {"Allowed", "Banned"} : Participant(NoId, jid, status) \in User
    BY DEF Participant, User
  <2>2. \/ work = <<[op |-> "received", user |-> Participant(jid, jid, "Joined")]>>
        \/ \E hasMessage \in BOOLEAN :
              work = <<[op |-> "left", user |-> Participant(jid, NoJid, "Allowed"),
                        hasMessage |-> hasMessage]>>
        \/ \E status \in {"Allowed", "Banned"} :
              work = <<[op |-> "allowed or banned", user |-> Participant(NoId, jid, status)]>>
        \/ work = <<[op |-> "sender", user |-> Participant(jid, jid, "Allowed")]>>
    BY <1>2 DEF ParticipantJobs, SenderJobs
  <2> DEFINE IsWork(job) == work = <<job>> /\ job.op \in UserOps /\ job.user \in User
  <2>3. ASSUME work = <<[op |-> "received", user |-> Participant(jid, jid, "Joined")]>>
        PROVE  \E job : IsWork(job)
    <3>1. IsWork([op |-> "received", user |-> Participant(jid, jid, "Joined")])
      BY <2>1, <2>3 DEF UserOps
    <3> HIDE DEF IsWork
    <3> QED BY <3>1
  <2>4. ASSUME NEW hasMessage \in BOOLEAN,
               work = <<[op |-> "left", user |-> Participant(jid, NoJid, "Allowed"),
                         hasMessage |-> hasMessage]>>
        PROVE  \E job : IsWork(job)
    <3>1. IsWork([op |-> "left", user |-> Participant(jid, NoJid, "Allowed"), hasMessage |-> hasMessage])
      BY <2>1, <2>4 DEF UserOps
    <3> HIDE DEF IsWork
    <3> QED BY <3>1
  <2>5. ASSUME NEW status \in {"Allowed", "Banned"},
               work = <<[op |-> "allowed or banned", user |-> Participant(NoId, jid, status)]>>
        PROVE  \E job : IsWork(job)
    <3>1. IsWork([op |-> "allowed or banned", user |-> Participant(NoId, jid, status)])
      BY <2>1, <2>5 DEF UserOps
    <3> HIDE DEF IsWork
    <3> QED BY <3>1
  <2>6. ASSUME work = <<[op |-> "sender", user |-> Participant(jid, jid, "Allowed")]>>
        PROVE  \E job : IsWork(job)
    <3>1. IsWork([op |-> "sender", user |-> Participant(jid, jid, "Allowed")])
      BY <2>1, <2>6 DEF UserOps
    <3> HIDE DEF IsWork
    <3> QED BY <3>1
  <2>7. \E job : IsWork(job)
    BY <2>2, <2>3, <2>4, <2>5, <2>6
  <2> QED BY <2>7
<1> QED BY <1>2, <1>3

LEMMA GroupStepKeeps ==
    ASSUME EncryptionInv, jobs = <<>>, GroupStep
    PROVE  EncryptionInv'
<1>1. PICK job : Queued(<<job>>) /\ job.op \in UserOps /\ job.user \in User
  BY GroupJob
<1>2. JobOK(job) /\ job.op \notin OmemoOps \cup {"allData"}
  BY <1>1 DEF JobOK, TrustOps, OmemoOps, UserOps
<1>3. OtherQueue(<<job>>)
  BY <1>2, OneOther
<1>4. Aside /\ UNCHANGED <<managerVars, chatVars, connected>>
  BY DEF GroupStep, Aside
<1> QED BY <1>1, <1>3, <1>4, JobsQueued DEF OtherQueue

-----------------------------------------------------------------------------
(* Steps of the managers that change their memory.                         *)

\* The jobs are those that change the tables as the memory is changed.
Written(s, data) ==
    /\ Queued(s) /\ IsSequence(s) /\ \A i \in DOMAIN s : JobOK(s[i]) /\ s[i].op # "allData"
    /\ data[1] = memory /\ data[Len(s) + 1] = memory'
    /\ \A i \in 1..Len(s) : data[i + 1] = Applied(s[i], data[i])

LEMMA MemoryChanged ==
    ASSUME EncryptionInv, jobs = <<>>, ~Loading, Aside, UNCHANGED <<chatVars, connected>>,
           NEW s, NEW data, Written(s, data),
           PairsOfSetUp'
    PROVE  EncryptionInv'
<1> USE DEF Written
<1>1. jobs' = s
  BY FromEmpty DEF Queued
<1>2. MemoryFollows /\ UNCHANGED omemoTables /\ events' = events
  BY DEF EncryptionInv, Aside
<1>3. MemoryFollows'
  BY <1>1, <1>2, MemoryWritten
<1> QED BY <1>1, <1>3, ChatKept, MainKeeps DEF EncryptionInv

\* Only the first job is one of OMEMO.
LEMMA OneChange ==
    ASSUME EncryptionInv, jobs = <<>>, ~Loading, Aside, UNCHANGED <<chatVars, connected>>,
           NEW a, NEW b, NEW c, Queued(<<a, b, c>>),
           JobOK(a), JobOK(b), JobOK(c), a.op # "allData",
           b.op \notin OmemoOps \cup {"allData"}, c.op \notin OmemoOps \cup {"allData"},
           memory' = Applied(a, memory),
           PairsOfSetUp'
    PROVE  EncryptionInv'
<1> DEFINE s == <<a, b, c>>
           data == [i \in 1..4 |-> IF i = 1 THEN memory ELSE memory']
<1>1. /\ IsSequence(s) /\ DOMAIN s = {1, 2, 3} /\ Len(s) = 3
      /\ s[1] = a /\ s[2] = b /\ s[3] = c
  BY ThreeElements
<1> HIDE DEF s
<1>2. \A i \in DOMAIN s : JobOK(s[i]) /\ s[i].op # "allData"
  BY <1>1
<1>3. data[1] = memory /\ data[2] = memory' /\ data[3] = memory' /\ data[4] = memory'
  OBVIOUS
<1> HIDE DEF data
<1>4. Applied(b, memory') = memory' /\ Applied(c, memory') = memory'
  BY NotApplied
<1>5. data[1 + 1] = Applied(s[1], data[1]) /\ data[2 + 1] = Applied(s[2], data[2])
      /\ data[3 + 1] = Applied(s[3], data[3])
  BY <1>1, <1>3, <1>4
<1>6. \A i \in 1..Len(s) : data[i + 1] = Applied(s[i], data[i])
  BY <1>1, <1>5
<1>7. data[Len(s) + 1] = memory'
  BY <1>1, <1>3
<1>8. Queued(s)
  BY DEF s
<1>9. Written(s, data)
  BY <1>1, <1>2, <1>3, <1>6, <1>7, <1>8 DEF Written
<1> QED BY <1>9, MemoryChanged

\* The jobs of these steps
LEMMA FirstOfThree ==
    ASSUME jobs = <<>>, NEW a, NEW b, NEW c, Queued(<<a, b, c>>)
    PROVE  \A i \in DOMAIN jobs' : jobs'[i] \in {a, b, c}
<1>1. jobs' = <<a, b, c>>
  BY ThreeElements, FromEmpty DEF Queued
<1> QED BY <1>1, ThreeElements

\* The managers are loaded, so nothing is to be loaded.
LEMMA LoadedManager ==
    ASSUME EncryptionInv, isLoaded
    PROVE  ~Loading
BY DEF EncryptionInv, MemoryFollows, LoadedOnce

LEMMA DeviceReceivedKeeps ==
    ASSUME EncryptionInv, jobs = <<>>, NEW d \in Devices, DeviceReceived(d)
    PROVE  EncryptionInv'
<1>1. PICK level \in {"AutomaticallyTrusted", "AutomaticallyDistrusted"} :
          Queued(<<[op |-> "addDevice", device |-> d, session |-> "no session"],
                   [op |-> "addKeys", store |-> store, owner |-> d[1], keys |-> {d[2]},
                    level |-> level],
                   [op |-> "report", jids |-> {d[1]}]>>)
  BY DEF DeviceReceived
<1> DEFINE a == [op |-> "addDevice", device |-> d, session |-> "no session"]
           b == [op |-> "addKeys", store |-> store, owner |-> d[1], keys |-> {d[2]},
                 level |-> level]
           c == [op |-> "report", jids |-> {d[1]}]
<1>2. level \in Levels /\ d[1] \in Owners /\ d[2] \in Keys
  BY ChatAssumption DEF Devices
<1> USE DEF JobOK, TrustOps, TrustArguments, OmemoArguments, OmemoOps, UserOps
<1>3. JobOK(a) /\ a.op \notin {"allData", "resetOmemo", "addSignedPreKeyPair", "addPreKeyPairs"}
  OBVIOUS
<1>4. JobOK(b) /\ b.op \notin OmemoOps \cup {"allData"}
  BY <1>2, OwnStore
<1>5. JobOK(c) /\ c.op \notin OmemoOps \cup {"allData"}
  OBVIOUS
<1> HIDE DEF JobOK, TrustOps, TrustArguments, OmemoArguments, UserOps
<1>6. memory' = Applied(a, memory) /\ memory'.ownDevice = memory.ownDevice
  <2>1. /\ memory' = [memory EXCEPT !.devices =
                         [e \in DOMAIN memory.devices \cup {d} |->
                             IF e = d THEN "no session" ELSE memory.devices[e]]]
        /\ MemoryFollows /\ ~Loading
    BY LoadedManager DEF DeviceReceived, EncryptionInv
  <2>2. memory = AllData(Me)
    BY <2>1, MemoryWithoutJobs
  <2> QED BY <2>1, <2>2 DEF Applied, AllData
<1>7. isLoaded /\ isLoaded' = isLoaded /\ isReset' = isReset /\ PairsOfSetUp
  BY DEF DeviceReceived, EncryptionInv
<1>8. Aside /\ UNCHANGED <<chatVars, connected>>
  BY DEF DeviceReceived, Unchanged, Aside
<1>9. Queued(<<a, b, c>>)
  BY <1>1
<1> HIDE DEF a, b, c
<1>10. \A i \in DOMAIN jobs' :
           jobs'[i].op \notin {"resetOmemo", "addSignedPreKeyPair", "addPreKeyPairs"}
  BY <1>3, <1>4, <1>5, <1>9, FirstOfThree
<1>11. PairsOfSetUp'
  BY <1>6, <1>7, <1>8, <1>10, PairsKept DEF Aside, PairsOfSetUp
<1> QED BY <1>3, <1>4, <1>5, <1>6, <1>7, <1>8, <1>9, <1>11, LoadedManager, OneChange

LEMMA DeviceRemovedKeeps ==
    ASSUME EncryptionInv, jobs = <<>>, NEW d \in Devices, DeviceRemoved(d)
    PROVE  EncryptionInv'
<1> DEFINE a == [op |-> "removeDevice", device |-> d]
           b == [op |-> "removeKeys", store |-> store, owners |-> {d[1]}, keys |-> {d[2]}]
           c == [op |-> "report", jids |-> {d[1]}]
<1>1. Queued(<<a, b, c>>)
  BY DEF DeviceRemoved
<1>2. d[1] \in Owners /\ d[2] \in Keys
  BY DEF Devices
<1> USE DEF JobOK, TrustOps, TrustArguments, OmemoArguments, OmemoOps, UserOps
<1>3. JobOK(a) /\ a.op \notin {"allData", "resetOmemo", "addSignedPreKeyPair", "addPreKeyPairs"}
  OBVIOUS
<1>4. JobOK(b) /\ b.op \notin OmemoOps \cup {"allData"}
  BY <1>2, OwnStore
<1>5. JobOK(c) /\ c.op \notin OmemoOps \cup {"allData"}
  OBVIOUS
<1> HIDE DEF JobOK, TrustOps, TrustArguments, OmemoArguments, UserOps
<1>6. memory' = Applied(a, memory) /\ memory'.ownDevice = memory.ownDevice
  <2>1. /\ memory' = [memory EXCEPT !.devices =
                         [e \in DOMAIN memory.devices \ {d} |-> memory.devices[e]]]
        /\ MemoryFollows /\ ~Loading
    BY LoadedManager DEF DeviceRemoved, EncryptionInv
  <2>2. memory = AllData(Me)
    BY <2>1, MemoryWithoutJobs
  <2> QED BY <2>1, <2>2 DEF Applied, AllData, WithoutKeys
<1>7. isLoaded /\ isLoaded' = isLoaded /\ isReset' = isReset /\ PairsOfSetUp
  BY DEF DeviceRemoved, EncryptionInv
<1>8. Aside /\ UNCHANGED <<chatVars, connected>>
  BY DEF DeviceRemoved, Unchanged, Aside
<1> HIDE DEF a, b, c
<1>10. \A i \in DOMAIN jobs' :
           jobs'[i].op \notin {"resetOmemo", "addSignedPreKeyPair", "addPreKeyPairs"}
  BY <1>1, <1>3, <1>4, <1>5, FirstOfThree
<1>11. PairsOfSetUp'
  BY <1>6, <1>7, <1>8, <1>10, PairsKept DEF Aside, PairsOfSetUp
<1> QED BY <1>1, <1>3, <1>4, <1>5, <1>6, <1>7, <1>8, <1>11, LoadedManager, OneChange

LEMMA RemoveContactDevicesKeeps ==
    ASSUME EncryptionInv, jobs = <<>>, NEW jid \in Owners, RemoveContactDevices(jid)
    PROVE  EncryptionInv'
<1> DEFINE a == [op |-> "removeDevices", jid |-> jid]
           b == [op |-> "removeKeys", store |-> store, owners |-> {jid}, keys |-> Keys]
           c == [op |-> "report", jids |-> {jid}]
<1>1. Queued(<<a, b, c>>)
  BY DEF RemoveContactDevices
<1> USE DEF JobOK, TrustOps, TrustArguments, OmemoArguments, OmemoOps, UserOps
<1>3. JobOK(a) /\ a.op \notin {"allData", "resetOmemo", "addSignedPreKeyPair", "addPreKeyPairs"}
  OBVIOUS
<1>4. JobOK(b) /\ b.op \notin OmemoOps \cup {"allData"}
  BY OwnStore
<1>5. JobOK(c) /\ c.op \notin OmemoOps \cup {"allData"}
  OBVIOUS
<1> HIDE DEF JobOK, TrustOps, TrustArguments, OmemoArguments, UserOps
<1>6. memory' = Applied(a, memory) /\ memory'.ownDevice = memory.ownDevice
  <2> DEFINE D == DOMAIN memory.devices
  <2>1. /\ memory' = [memory EXCEPT !.devices = [e \in {d \in D : d[1] # jid} |-> memory.devices[e]]]
        /\ MemoryFollows /\ ~Loading /\ TablesOK
    BY LoadedManager DEF RemoveContactDevices, EncryptionInv
  <2>2. memory = AllData(Me)
    BY <2>1, MemoryWithoutJobs
  <2>3. D \subseteq Owners \X Keys
    BY <2>1, <2>2, DevicesAreRows DEF AllData, Devices
  <2>4. {d \in D : d[1] # jid} = D \ ({jid} \X Keys)
    BY <2>3
  <2> HIDE DEF D
  <2>5. memory' = [memory EXCEPT !.devices = [e \in D \ ({jid} \X Keys) |-> memory.devices[e]]]
    BY <2>1, <2>4
  <2> QED BY <2>2, <2>5 DEF Applied, AllData, WithoutKeys, D
<1>7. isLoaded /\ isLoaded' = isLoaded /\ isReset' = isReset /\ PairsOfSetUp
  BY DEF RemoveContactDevices, EncryptionInv
<1>8. Aside /\ UNCHANGED <<chatVars, connected>>
  BY DEF RemoveContactDevices, Unchanged, Aside
<1> HIDE DEF a, b, c
<1>10. \A i \in DOMAIN jobs' :
           jobs'[i].op \notin {"resetOmemo", "addSignedPreKeyPair", "addPreKeyPairs"}
  BY <1>1, <1>3, <1>4, <1>5, FirstOfThree
<1>11. PairsOfSetUp'
  BY <1>6, <1>7, <1>8, <1>10, PairsKept DEF Aside, PairsOfSetUp
<1> QED BY <1>1, <1>3, <1>4, <1>5, <1>6, <1>7, <1>8, <1>11, LoadedManager, OneChange

LEMMA ResetKeeps ==
    ASSUME EncryptionInv, jobs = <<>>, Reset
    PROVE  EncryptionInv'
<1> DEFINE a == [op |-> "resetOmemo"]
           b == [op |-> "resetTrust", store |-> store]
           c == [op |-> "report all"]
<1>1. Queued(<<a, b, c>>)
  BY DEF Reset
<1> USE DEF JobOK, TrustOps, TrustArguments, OmemoArguments, OmemoOps, UserOps
<1>2. JobOK(a) /\ a.op = "resetOmemo"
  OBVIOUS
<1>3. JobOK(b) /\ b.op \notin OmemoOps \cup {"allData"}
  BY OwnStore
<1>4. JobOK(c) /\ c.op \notin OmemoOps \cup {"allData"}
  OBVIOUS
<1> HIDE DEF JobOK, TrustOps, TrustArguments, OmemoArguments, OmemoOps, UserOps
<1>5. isLoaded /\ isReset' /\ memory' = NoMemory
  BY DEF Reset
<1>6. Applied(a, memory) = NoMemory
  BY DEF Applied
<1>7. PairsOfSetUp'
  BY <1>5 DEF PairsOfSetUp
<1>8. Aside /\ UNCHANGED <<chatVars, connected>>
  BY DEF Reset, Unchanged, Aside
<1> HIDE DEF a, b, c
<1> QED BY <1>1, <1>2, <1>3, <1>4, <1>5, <1>6, <1>7, <1>8, LoadedManager, OneChange

LEMMA FourElements ==
    ASSUME NEW a, NEW b, NEW c, NEW d
    PROVE  /\ IsSequence(<<a, b, c, d>>) /\ DOMAIN <<a, b, c, d>> = 1..4 /\ Len(<<a, b, c, d>>) = 4
           /\ <<a, b, c, d>>[1] = a /\ <<a, b, c, d>>[2] = b
           /\ <<a, b, c, d>>[3] = c /\ <<a, b, c, d>>[4] = d
<1>1. <<a, b, c, d>> \in Seq({a, b, c, d})
  OBVIOUS
<1>2. IsSequence(<<a, b, c, d>>)
  BY <1>1, SequenceOf
<1> QED BY <1>2

LEMMA FiveElements ==
    ASSUME NEW a, NEW b, NEW c, NEW d, NEW e
    PROVE  /\ IsSequence(<<a, b, c, d, e>>) /\ DOMAIN <<a, b, c, d, e>> = 1..5
           /\ Len(<<a, b, c, d, e>>) = 5
           /\ <<a, b, c, d, e>>[1] = a /\ <<a, b, c, d, e>>[2] = b /\ <<a, b, c, d, e>>[3] = c
           /\ <<a, b, c, d, e>>[4] = d /\ <<a, b, c, d, e>>[5] = e
<1>1. <<a, b, c, d, e>> \in Seq({a, b, c, d, e})
  OBVIOUS
<1>2. IsSequence(<<a, b, c, d, e>>)
  BY <1>1, SequenceOf
<1> QED BY <1>2

\* The sequence of the elements of a set
LEMMA SetToSeqOf ==
    ASSUME NEW S, IsFiniteSet(S)
    PROVE  /\ IsSequence(SetToSeq(S)) /\ Len(SetToSeq(S)) \in Nat
           /\ DOMAIN SetToSeq(S) = 1..Len(SetToSeq(S))
           /\ \A i \in DOMAIN SetToSeq(S) : SetToSeq(S)[i] \in S
           /\ \A x \in S : \E i \in DOMAIN SetToSeq(S) : SetToSeq(S)[i] = x
<1> DEFINE n == Cardinality(S)
           I == 1..n
<1>1. n \in Nat /\ \E f : f \in Bijection(I, S)
  BY FS_CardinalityType DEF ExistsBijection
<1>2. IsFiniteSet(I) /\ Cardinality(I) = n
  BY <1>1, FS_Interval
<1>3. \E f \in [I -> S] : IsInjective(f)
  BY <1>1 DEF Bijection, Injection
<1>4. SetToSeq(S) = CHOOSE f \in [I -> S] : IsInjective(f)
  BY DEF SetToSeq
<1>5. SetToSeq(S) \in [I -> S] /\ IsInjective(SetToSeq(S))
  BY <1>3, <1>4
<1>6. SetToSeq(S) \in Injection(I, S)
  BY <1>5 DEF Injection
<1>7. SetToSeq(S) \in Surjection(I, S)
  BY <1>2, <1>6, FS_Injection
<1>8. \A x \in S : \E i \in I : SetToSeq(S)[i] = x
  BY <1>7 DEF Surjection
<1>9. SetToSeq(S) \in Seq(S)
  BY <1>1, <1>5, SeqDef
<1>10. Len(SetToSeq(S)) = n /\ DOMAIN SetToSeq(S) = I
  BY <1>1, <1>5, <1>9
<1>11. IsSequence(SetToSeq(S))
  BY <1>9, SequenceOf
<1>12. \A i \in I : SetToSeq(S)[i] \in S
  BY <1>5
<1> QED BY <1>1, <1>8, <1>10, <1>11, <1>12

LEMMA SetToSeqOfOne ==
    /\ SetToSeq({}) = <<>>
    /\ \A x : SetToSeq({x}) = <<x>>
<1>1. SetToSeq({}) = <<>>
  <2>1. IsSequence(SetToSeq({})) /\ DOMAIN SetToSeq({}) = {}
    BY FS_EmptySet, SetToSeqOf
  <2>2. SetToSeq({}) \in Seq(Range(SetToSeq({})))
    BY <2>1 DEF IsSequence
  <2> QED BY <2>1, <2>2
<1>2. ASSUME NEW x PROVE SetToSeq({x}) = <<x>>
  <2> DEFINE f == SetToSeq({x})
  <2>1. IsFiniteSet({x}) /\ Cardinality({x}) = 1
    BY FS_Singleton
  <2>2. 1..1 = {1}
    OBVIOUS
  <2>3. f = CHOOSE g \in [{1} -> {x}] : IsInjective(g)
    BY <2>1, <2>2 DEF SetToSeq
  <2>4. <<x>> \in [{1} -> {x}] /\ IsInjective(<<x>>)
    BY DEF IsInjective
  <2>5. f \in [{1} -> {x}]
    BY <2>3, <2>4
  <2>6. <<x>> = [i \in {1} |-> x] /\ f = [i \in {1} |-> x]
    BY <2>5
  <2> QED BY <2>6
<1> QED BY <1>1, <1>2

LEMMA SetUpKeeps ==
    ASSUME EncryptionInv, jobs = <<>>, SetUp
    PROVE  EncryptionInv'
<1> DEFINE a == [op |-> "setSecurityPolicy", store |-> store, policy |-> "Toakafa"]
           b == [op |-> "addSignedPreKeyPair", id |-> 1]
           c == [op |-> "addPreKeyPairs", ids |-> {1}]
           d == [op |-> "setOwnKey", store |-> store, key |-> CHOOSE k \in Keys : TRUE]
           e == [op |-> "setOwnDevice", device |-> "device"]
           s == <<a, b, c, d, e>>
<1>1. Queued(s)
  BY DEF SetUp
<1>2. ~Loading
  BY DEF SetUp, Loading
<1>3. /\ ~isReset /\ isReset' = isReset /\ memory.ownDevice = NoDevice
      /\ memory' = [memory EXCEPT !.ownDevice = "device", !.signedPreKeyPairs = {1}, !.preKeyPairs = {1}]
  BY DEF SetUp
<1>4. Aside /\ UNCHANGED <<chatVars, connected>>
  BY DEF SetUp, Unchanged, Aside
<1> USE DEF JobOK, TrustOps, TrustArguments, OmemoArguments, OmemoOps, UserOps, PairIds
<1>5. JobOK(a) /\ a.op \notin OmemoOps \cup {"allData"}
  BY OwnStore, ChatAssumption
<1>6. JobOK(b) /\ b.op = "addSignedPreKeyPair" /\ b.id = 1
  OBVIOUS
<1>7. JobOK(c) /\ c.op = "addPreKeyPairs" /\ c.ids = {1}
  OBVIOUS
<1>8. JobOK(d) /\ d.op \notin OmemoOps \cup {"allData"}
  BY OwnStore, ChatAssumption
<1>9. JobOK(e) /\ e.op = "setOwnDevice" /\ e.device = "device"
  OBVIOUS
<1> HIDE DEF JobOK, TrustOps, TrustArguments, OmemoArguments, UserOps, PairIds
<1> HIDE DEF a, b, c, d, e
<1>10. /\ IsSequence(s) /\ DOMAIN s = 1..5 /\ Len(s) = 5
       /\ s[1] = a /\ s[2] = b /\ s[3] = c /\ s[4] = d /\ s[5] = e
  BY FiveElements
<1> HIDE DEF s
<1>11. \A i \in DOMAIN s : s[i] \in {a, b, c, d, e}
  BY <1>10
<1>12. \A i \in DOMAIN s : JobOK(s[i]) /\ s[i].op # "allData"
  BY <1>5, <1>6, <1>7, <1>8, <1>9, <1>11
<1>13. memory = AllData(Me) /\ PairsOfSetUp
  BY <1>2, MemoryWithoutJobs DEF EncryptionInv
<1>14. memory.signedPreKeyPairs \subseteq {1} /\ memory.preKeyPairs \subseteq {1} /\ OwnDevice(Me) = NoDevice
  <2>1. OwnDevice(Me) = NoDevice
    BY <1>3, <1>13 DEF AllData
  <2>2. signedPreKeyPairs \subseteq {<<Me, 1>>} /\ preKeyPairs \subseteq {<<Me, 1>>}
    BY <1>3, <1>13, <2>1 DEF PairsOfSetUp
  <2> QED BY <1>13, <2>1, <2>2 DEF AllData, SignedPreKeyPairsOf, PreKeyPairsOf
<1> DEFINE m == [memory EXCEPT !.signedPreKeyPairs = {1}]
           n == [memory EXCEPT !.signedPreKeyPairs = {1}, !.preKeyPairs = {1}]
           data == [i \in 1..6 |-> IF i <= 2 THEN memory ELSE IF i = 3 THEN m ELSE
                                   IF i <= 5 THEN n ELSE memory']
<1>15. /\ Applied(a, memory) = memory /\ Applied(d, n) = n
  BY <1>5, <1>8, NotApplied
<1>16. Applied(b, memory) = m
  <2>1. memory.signedPreKeyPairs \cup {1} = {1}
    BY <1>14
  <2> QED BY <1>6, <1>13, <2>1 DEF Applied, AllData
<1>17. Applied(c, m) = n
  <2>1. m.preKeyPairs \cup {1} = {1}
    BY <1>13, <1>14 DEF AllData
  <2> QED BY <1>7, <1>13, <2>1 DEF Applied, AllData
<1>18. Applied(e, n) = memory'
  BY <1>3, <1>9, <1>13 DEF Applied, AllData
<1> HIDE DEF m, n
<1>19. /\ data[1] = memory /\ data[2] = memory /\ data[3] = m /\ data[4] = n /\ data[5] = n
       /\ data[6] = memory'
  OBVIOUS
<1> HIDE DEF data
<1>20. \A i \in 1..Len(s) : data[i + 1] = Applied(s[i], data[i])
  <2>1. /\ data[1 + 1] = Applied(s[1], data[1]) /\ data[2 + 1] = Applied(s[2], data[2])
        /\ data[3 + 1] = Applied(s[3], data[3]) /\ data[4 + 1] = Applied(s[4], data[4])
        /\ data[5 + 1] = Applied(s[5], data[5])
    BY <1>10, <1>15, <1>16, <1>17, <1>18, <1>19
  <2>2. \A i \in 1..5 : i = 1 \/ i = 2 \/ i = 3 \/ i = 4 \/ i = 5
    OBVIOUS
  <2> QED BY <1>10, <2>1, <2>2
<1>21. Written(s, data)
  BY <1>1, <1>10, <1>12, <1>19, <1>20 DEF Written
<1>22. PairsOfSetUp'
  <2>1. jobs' = s
    BY <1>1, <1>10, FromEmpty DEF Queued
  <2>2. memory'.ownDevice # NoDevice
    BY <1>3, <1>13 DEF AllData, NoDevice
  <2>3. \A i \in DOMAIN jobs' :
            /\ jobs'[i].op # "resetOmemo"
            /\ jobs'[i].op = "addSignedPreKeyPair" => jobs'[i].id = 1
            /\ jobs'[i].op = "addPreKeyPairs" => jobs'[i].ids \subseteq {1}
    BY <1>5, <1>6, <1>7, <1>8, <1>9, <1>11, <2>1 DEF OmemoOps
  <2>4. UNCHANGED <<signedPreKeyPairs, preKeyPairs>> /\ OwnDevice(Me)' = OwnDevice(Me)
    BY <1>4 DEF Aside, omemoTables, OwnDevice
  <2> QED BY <1>3, <1>13, <1>14, <2>2, <2>3, <2>4 DEF PairsOfSetUp
<1> QED BY <1>2, <1>4, <1>21, <1>22, MemoryChanged

LEMMA SameSequence ==
    ASSUME NEW s, NEW t, IsSequence(s), IsSequence(t), Len(s) = Len(t),
           \A i \in 1..Len(s) : s[i] = t[i]
    PROVE  s = t
<1>1. s \in Seq(Range(s)) /\ t \in Seq(Range(t))
  BY DEF IsSequence
<1>2. s = [i \in 1..Len(s) |-> s[i]] /\ t = [i \in 1..Len(t) |-> t[i]]
  BY <1>1
<1> QED BY <1>2

LEMMA Concatenated ==
    ASSUME NEW a, NEW b, NEW c, NEW d
    PROVE  /\ <<a>> \o <<>> \o <<c, d>> = <<a, c, d>>
           /\ <<a>> \o <<b>> \o <<c, d>> = <<a, b, c, d>>
<1>1. <<a>> \o <<>> = <<a>>
  <2>1. IsSequence(<<a>> \o <<>>) /\ Len(<<a>> \o <<>>) = 1 /\ (<<a>> \o <<>>)[1] = a
    BY OneElement, EmptyQueue, Joined
  <2> QED BY <2>1, OneElement, SameSequence
<1>2. <<a>> \o <<b>> = <<a, b>>
  <2> DEFINE s == <<a>> \o <<b>>
  <2>1. IsSequence(s) /\ Len(s) = 2 /\ s[1] = a /\ s[1 + 1] = b
    BY OneElement, Joined
  <2> HIDE DEF s
  <2> DEFINE t == <<a, b>>
  <2>2. IsSequence(t) /\ Len(t) = 2
    BY TwoElements
  <2>3. \A i \in 1..Len(s) : s[i] = t[i]
    BY <2>1
  <2> HIDE DEF t
  <2>4. s = t
    BY <2>1, <2>2, <2>3, SameSequence
  <2> QED BY <2>4 DEF s, t
<1>3. <<a>> \o <<c, d>> = <<a, c, d>>
  <2> DEFINE s == <<a>> \o <<c, d>>
  <2>1. IsSequence(s) /\ Len(s) = 3 /\ s[1] = a /\ s[1 + 1] = c /\ s[1 + 2] = d
    BY OneElement, TwoElements, Joined
  <2> HIDE DEF s
  <2> DEFINE t == <<a, c, d>>
  <2>2. IsSequence(t) /\ Len(t) = 3
    BY ThreeElements
  <2>3. \A i \in 1..Len(s) : s[i] = t[i]
    BY <2>1
  <2> HIDE DEF t
  <2>4. s = t
    BY <2>1, <2>2, <2>3, SameSequence
  <2> QED BY <2>4 DEF s, t
<1>4. <<a, b>> \o <<c, d>> = <<a, b, c, d>>
  <2> DEFINE s == <<a, b>> \o <<c, d>>
  <2>1. IsSequence(s) /\ Len(s) = 4 /\ s[1] = a /\ s[2] = b /\ s[2 + 1] = c /\ s[2 + 2] = d
    BY TwoElements, Joined
  <2> HIDE DEF s
  <2> DEFINE t == <<a, b, c, d>>
  <2>2. IsSequence(t) /\ Len(t) = 4
    BY FourElements
  <2>3. \A i \in 1..Len(s) : s[i] = t[i]
    BY <2>1
  <2> HIDE DEF t
  <2>4. s = t
    BY <2>1, <2>2, <2>3, SameSequence
  <2> QED BY <2>4 DEF s, t
<1> QED BY <1>1, <1>2, <1>3, <1>4

\* The jobs of a replacement of a pair of keys
LEMMA KeyPairJobs ==
    ASSUME jobs = <<>>, memory.signedPreKeyPairs \subseteq {1, 2}, ReplaceKeyPairs(1, 2)
    PROVE  \A i \in DOMAIN jobs' :
               jobs'[i].op \in {"addSignedPreKeyPair", "removeSignedPreKeyPair", "removePreKeyPair",
                               "addPreKeyPairs"}
<1> DEFINE a == [op |-> "addSignedPreKeyPair", id |-> 2]
           b == [op |-> "removeSignedPreKeyPair", id |-> 1]
           c == [op |-> "removePreKeyPair", id |-> 1]
           d == [op |-> "addPreKeyPairs", ids |-> {2}]
           removals == {[op |-> "removeSignedPreKeyPair", id |-> i] : i \in memory.signedPreKeyPairs \ {2}}
<1>1. Queued(<<a>> \o SetToSeq(removals) \o <<c, d>>)
  BY DEF ReplaceKeyPairs
<1>2. \A x \in {a, b, c, d} :
          x.op \in {"addSignedPreKeyPair", "removeSignedPreKeyPair", "removePreKeyPair", "addPreKeyPairs"}
  OBVIOUS
<1>3. removals = {} \/ removals = {b}
  <2>1. removals \subseteq {b}
    OBVIOUS
  <2> QED BY <2>1
<1> HIDE DEF a, b, c, d, removals
<1>4. SetToSeq(removals) = <<>> \/ SetToSeq(removals) = <<b>>
  BY <1>3, SetToSeqOfOne
<1>5. jobs' = <<a>> \o SetToSeq(removals) \o <<c, d>>
  <2>1. IsSequence(SetToSeq(removals))
    BY <1>4, EmptyQueue, OneElement
  <2>2. IsSequence(<<a>> \o SetToSeq(removals) \o <<c, d>>)
    BY <2>1, Joined, OneElement, TwoElements
  <2> QED BY <1>1, <2>2, FromEmpty DEF Queued
<1>6. jobs' = <<a, c, d>> \/ jobs' = <<a, b, c, d>>
  <2>1. <<a>> \o <<>> \o <<c, d>> = <<a, c, d>> /\ <<a>> \o <<b>> \o <<c, d>> = <<a, b, c, d>>
    BY Concatenated
  <2> QED BY <1>4, <1>5, <2>1
<1>7. \A i \in DOMAIN jobs' : jobs'[i] \in {a, b, c, d}
  BY <1>6, ThreeElements, FourElements
<1> QED BY <1>2, <1>7

LEMMA ReplaceKeyPairsKeeps ==
    ASSUME EncryptionInv, jobs = <<>>, ReplaceKeyPairs(1, 2)
    PROVE  EncryptionInv'
<1> DEFINE a == [op |-> "addSignedPreKeyPair", id |-> 2]
           b == [op |-> "removeSignedPreKeyPair", id |-> 1]
           c == [op |-> "removePreKeyPair", id |-> 1]
           d == [op |-> "addPreKeyPairs", ids |-> {2}]
           removals == {[op |-> "removeSignedPreKeyPair", id |-> i] : i \in memory.signedPreKeyPairs \ {2}}
           P == memory.preKeyPairs
<1>1. Queued(<<a>> \o SetToSeq(removals) \o <<c, d>>)
  BY DEF ReplaceKeyPairs
<1>2. ~Loading /\ isLoaded
  BY LoadedManager DEF ReplaceKeyPairs
<1>3. /\ isReset' = isReset /\ isLoaded' = isLoaded
      /\ memory' = [memory EXCEPT !.signedPreKeyPairs = {2}, !.preKeyPairs = (P \ {1}) \cup {2}]
  BY DEF ReplaceKeyPairs
<1>4. Aside /\ UNCHANGED <<chatVars, connected>>
  BY DEF ReplaceKeyPairs, Unchanged, Aside
<1> USE DEF JobOK, TrustOps, OmemoArguments, OmemoOps, UserOps, PairIds
<1>5. JobOK(a) /\ a.op = "addSignedPreKeyPair" /\ a.id = 2
  OBVIOUS
<1>6. JobOK(b) /\ b.op = "removeSignedPreKeyPair" /\ b.id = 1
  OBVIOUS
<1>7. JobOK(c) /\ c.op = "removePreKeyPair" /\ c.id = 1
  OBVIOUS
<1>8. JobOK(d) /\ d.op = "addPreKeyPairs" /\ d.ids = {2}
  OBVIOUS
<1> HIDE DEF JobOK, TrustOps, OmemoArguments, OmemoOps, UserOps, PairIds
<1>9. memory = AllData(Me) /\ PairsOfSetUp /\ TablesOK
  BY <1>2, MemoryWithoutJobs DEF EncryptionInv
<1>10. memory.signedPreKeyPairs \subseteq {1, 2}
  BY <1>9 DEF AllData, SignedPreKeyPairsOf, TablesOK, PairIds
<1>11. PairsOfSetUp'
  <2> SUFFICES ASSUME ~isReset PROVE PairsOfSetUp'
    BY <1>3 DEF PairsOfSetUp
  <2>1. \A i \in DOMAIN jobs' : jobs'[i].op # "resetOmemo"
    BY <1>10, KeyPairJobs
  <2>2. memory'.ownDevice = memory.ownDevice
    BY <1>3, <1>9 DEF AllData
  <2>3. OwnDevice(Me) # NoDevice
    BY <1>2, <1>9 DEF PairsOfSetUp, AllData
  <2>4. OwnDevice(Me)' = OwnDevice(Me)
    BY <1>4 DEF Aside, omemoTables, OwnDevice
  <2> QED BY <1>2, <1>3, <1>9, <2>1, <2>2, <2>3, <2>4 DEF PairsOfSetUp
<1> DEFINE m == [memory EXCEPT !.signedPreKeyPairs = {2}]
           n == [memory EXCEPT !.signedPreKeyPairs = {2}, !.preKeyPairs = P \ {1}]
<1>12. Applied(c, m) = n
  BY <1>7, <1>9 DEF Applied, AllData
<1>13. Applied(d, n) = memory'
  BY <1>3, <1>8, <1>9 DEF Applied, AllData
<1>14. CASE 1 \in memory.signedPreKeyPairs
  <2> DEFINE s == <<a, b, c, d>>
             l == [memory EXCEPT !.signedPreKeyPairs = {1, 2}]
             data == [i \in 1..5 |-> IF i = 1 THEN memory ELSE IF i = 2 THEN l ELSE
                                     IF i = 3 THEN m ELSE IF i = 4 THEN n ELSE memory']
  <2>1. removals = {b}
    BY <1>10, <1>14
  <2>2. Applied(a, memory) = l
    <3>1. memory.signedPreKeyPairs \cup {2} = {1, 2}
      BY <1>10, <1>14
    <3> QED BY <1>5, <1>9, <3>1 DEF Applied, AllData
  <2>3. Applied(b, l) = m
    <3>1. l.signedPreKeyPairs \ {1} = {2}
      BY <1>9 DEF AllData
    <3> QED BY <1>6, <1>9, <3>1 DEF Applied, AllData
  <2> HIDE DEF a, b, c, d, l, m, n, removals
  <2>4. Queued(s)
    <3>1. SetToSeq(removals) = <<b>>
      BY <2>1, SetToSeqOfOne
    <3>2. <<a>> \o <<b>> \o <<c, d>> = <<a, b, c, d>>
      BY Concatenated
    <3> QED BY <1>1, <3>1, <3>2
  <2>5. /\ IsSequence(s) /\ DOMAIN s = 1..4 /\ Len(s) = 4
        /\ s[1] = a /\ s[2] = b /\ s[3] = c /\ s[4] = d
    BY FourElements
  <2> HIDE DEF s
  <2>6. \A i \in DOMAIN s : JobOK(s[i]) /\ s[i].op # "allData"
    BY <1>5, <1>6, <1>7, <1>8, <2>5
  <2>7. data[1] = memory /\ data[2] = l /\ data[3] = m /\ data[4] = n /\ data[5] = memory'
    OBVIOUS
  <2> HIDE DEF data
  <2>8. \A i \in 1..Len(s) : data[i + 1] = Applied(s[i], data[i])
    <3>1. /\ data[1 + 1] = Applied(s[1], data[1]) /\ data[2 + 1] = Applied(s[2], data[2])
          /\ data[3 + 1] = Applied(s[3], data[3]) /\ data[4 + 1] = Applied(s[4], data[4])
      BY <1>12, <1>13, <2>2, <2>3, <2>5, <2>7
    <3>2. \A i \in 1..4 : i = 1 \/ i = 2 \/ i = 3 \/ i = 4
      OBVIOUS
    <3> QED BY <2>5, <3>1, <3>2
  <2>9. Written(s, data)
    BY <2>4, <2>5, <2>6, <2>7, <2>8 DEF Written
  <2> QED BY <1>2, <1>4, <1>11, <2>9, MemoryChanged
<1>15. CASE 1 \notin memory.signedPreKeyPairs
  <2> DEFINE s == <<a, c, d>>
             data == [i \in 1..4 |-> IF i = 1 THEN memory ELSE
                                     IF i = 2 THEN m ELSE IF i = 3 THEN n ELSE memory']
  <2>1. removals = {}
    BY <1>10, <1>15
  <2>2. Applied(a, memory) = m
    <3>1. memory.signedPreKeyPairs \cup {2} = {2}
      BY <1>10, <1>15
    <3> QED BY <1>5, <1>9, <3>1 DEF Applied, AllData
  <2> HIDE DEF a, c, d, m, n, removals
  <2>4. Queued(s)
    <3>1. SetToSeq(removals) = <<>>
      BY <2>1, SetToSeqOfOne
    <3>2. <<a>> \o <<>> \o <<c, d>> = <<a, c, d>>
      BY Concatenated
    <3> QED BY <1>1, <3>1, <3>2
  <2>5. /\ IsSequence(s) /\ DOMAIN s = {1, 2, 3} /\ Len(s) = 3
        /\ s[1] = a /\ s[2] = c /\ s[3] = d
    BY ThreeElements
  <2> HIDE DEF s
  <2>6. \A i \in DOMAIN s : JobOK(s[i]) /\ s[i].op # "allData"
    BY <1>5, <1>7, <1>8, <2>5
  <2>7. data[1] = memory /\ data[2] = m /\ data[3] = n /\ data[4] = memory'
    OBVIOUS
  <2> HIDE DEF data
  <2>8. \A i \in 1..Len(s) : data[i + 1] = Applied(s[i], data[i])
    <3>1. /\ data[1 + 1] = Applied(s[1], data[1]) /\ data[2 + 1] = Applied(s[2], data[2])
          /\ data[3 + 1] = Applied(s[3], data[3])
      BY <1>12, <1>13, <2>2, <2>5, <2>7
    <3>2. \A i \in 1..3 : i = 1 \/ i = 2 \/ i = 3
      OBVIOUS
    <3> QED BY <2>5, <3>1, <3>2
  <2>9. Written(s, data)
    BY <2>4, <2>5, <2>6, <2>7, <2>8 DEF Written
  <2> QED BY <1>2, <1>4, <1>11, <2>9, MemoryChanged
<1> QED BY <1>14, <1>15

\* The jobs that store the sessions that were built
Session(d) == [op |-> "addDevice", device |-> d, session |-> "session"]

LEMMA SessionsStored ==
    ASSUME NEW D \in SUBSET Devices
    PROVE  /\ IsSequence(Stored(D)) /\ Len(Stored(D)) \in Nat /\ DOMAIN Stored(D) = 1..Len(Stored(D))
           /\ \A i \in DOMAIN Stored(D) : \E d \in D : Stored(D)[i] = Session(d)
           /\ \A d \in D : \E i \in DOMAIN Stored(D) : Stored(D)[i] = Session(d)
<1> DEFINE S == {[op |-> "addDevice", device |-> d, session |-> "session"] : d \in D}
           f == [d \in D |-> Session(d)]
<1>1. IsFiniteSet(D)
  <2>1. IsFiniteSet(Devices)
    BY ConstantsAssumption, FS_Product DEF Devices
  <2> QED BY <2>1, FS_Subset
<1>2. f \in Surjection(D, S)
  BY DEF Surjection, Session
<1>3. IsFiniteSet(S)
  BY <1>1, <1>2, FS_Surjection
<1>4. /\ \A d \in D : Session(d) \in S
      /\ \A x \in S : \E d \in D : x = Session(d)
  BY DEF Session
<1>5. Stored(D) = SetToSeq(S)
  BY DEF Stored
<1> HIDE DEF S
<1> QED BY <1>3, <1>4, <1>5, SetToSeqOf

\* What building sessions makes of the memory, job by job
LEMMA SessionsWritten ==
    ASSUME jobs = <<>>, QueuesOK, MemoryFollows, TablesOK, NEW U, BuildSessions(U),
           Queued(Stored(Unbuilt(U))), Aside, isLoaded' = isLoaded
    PROVE  /\ MemoryFollows'
           /\ memory'.ownDevice = memory.ownDevice
           /\ IsSequence(jobs') /\ \A i \in DOMAIN jobs' : JobOK(jobs'[i]) /\ jobs'[i].op = "addDevice"
<1> DEFINE D == Unbuilt(U)
           f == Stored(D)
           n == Len(f)
           devices == memory.devices
<1>1. memory' = [memory EXCEPT !.devices = [d \in DOMAIN devices |->
                                               IF d \in D THEN "session" ELSE devices[d]]]
  BY DEF BuildSessions
<1>2. memory = AllData(Me) \/ (Loading /\ memory = NoMemory)
  BY MemoryWithoutJobs
<1>3. D \subseteq Devices /\ D \subseteq DOMAIN devices
  <2>1. D \subseteq DOMAIN devices
    BY DEF Unbuilt
  <2>2. DOMAIN devices \subseteq Devices
    BY <1>2, DevicesAreRows DEF AllData, NoMemory
  <2> QED BY <2>1, <2>2
<1>4. memory'.ownDevice = memory.ownDevice
  BY <1>1, <1>2 DEF AllData, NoMemory
<1> HIDE DEF D
<1>5. /\ IsSequence(f) /\ n \in Nat /\ DOMAIN f = 1..n
      /\ \A i \in DOMAIN f : \E d \in D : f[i] = Session(d)
      /\ \A d \in D : \E i \in DOMAIN f : f[i] = Session(d)
  BY <1>3, SessionsStored
<1>6. jobs' = f
  BY <1>5, FromEmpty DEF Queued, D
<1> HIDE DEF f, n
<1>7. ASSUME NEW d \in D PROVE JobOK(Session(d)) /\ Session(d).op = "addDevice"
  BY <1>3, <1>7 DEF JobOK, TrustOps, OmemoOps, OmemoArguments, UserOps, Session
<1>8. \A i \in DOMAIN jobs' : JobOK(jobs'[i]) /\ jobs'[i].op = "addDevice"
  BY <1>5, <1>6, <1>7
<1>9. CASE Loading
  <2>1. memory = NoMemory
    BY <1>9, MemoryWithoutJobs
  <2>2. D = {}
    BY <1>3, <2>1 DEF NoMemory
  <2>3. memory' = memory
    <3>1. devices = [d \in {} |-> "no session"] /\ DOMAIN devices = {}
      BY <2>1 DEF NoMemory
    <3>2. [d \in DOMAIN devices |-> IF d \in D THEN "session" ELSE devices[d]] = devices
      BY <3>1
    <3>3. memory' = [memory EXCEPT !.devices = devices]
      BY <1>1, <3>2
    <3> QED BY <2>1, <3>3 DEF NoMemory
  <2>4. DOMAIN jobs' = {}
    BY <1>5, <1>6, <2>2
  <2>5. events' = events /\ IsSequence(events) /\ UNCHANGED omemoTables
    BY DEF Aside, QueuesOK
  <2>6. MemoryFollows'
    BY <1>5, <1>6, <2>3, <2>4, <2>5, MemoryKept
  <2> QED BY <1>4, <1>5, <1>6, <1>8, <2>6
<1>10. CASE ~Loading
  <2> DEFINE Built(j) == [d \in DOMAIN devices |->
                             IF \E i \in 1..n : i < j /\ f[i] = Session(d) THEN "session" ELSE devices[d]]
             data == [j \in 1..(n + 1) |-> [memory EXCEPT !.devices = Built(j)]]
  <2>1. memory = AllData(Me)
    BY <1>10, MemoryWithoutJobs
  <2>2. \A d, e : Session(d) = Session(e) => d = e
    BY DEF Session
  <2>3. data[1] = memory
    <3>1. Built(1) = [d \in DOMAIN devices |-> devices[d]]
      OBVIOUS
    <3>2. devices = [d \in DOMAIN devices |-> devices[d]]
      BY <2>1 DEF AllData, DevicesOf
    <3>3. data[1] = [memory EXCEPT !.devices = devices]
      BY <1>5, <3>1, <3>2
    <3> HIDE DEF data, Built
    <3> QED BY <2>1, <3>3 DEF AllData
  <2>4. data[n + 1] = memory'
    <3>1. ASSUME NEW d \in DOMAIN devices
          PROVE  (\E i \in 1..n : i < n + 1 /\ f[i] = Session(d)) <=> d \in D
      BY <1>5, <2>2
    <3>2. Built(n + 1) = [d \in DOMAIN devices |-> IF d \in D THEN "session" ELSE devices[d]]
      BY <3>1
    <3>3. data[n + 1] = [memory EXCEPT !.devices = Built(n + 1)]
      BY <1>5
    <3> HIDE DEF data, Built
    <3> QED BY <1>1, <3>2, <3>3
  <2>5. ASSUME NEW i \in 1..n
        PROVE  data[i + 1] = Applied(f[i], data[i])
    <3>1. PICK d \in D : f[i] = Session(d)
      BY <1>5
    <3>2. i \in 1..(n + 1) /\ i + 1 \in 1..(n + 1) /\ n \in Nat
      BY <1>5
    <3>3. /\ data[i] = [memory EXCEPT !.devices = Built(i)]
          /\ data[i + 1] = [memory EXCEPT !.devices = Built(i + 1)]
      BY <3>2
    <3>4. \A e \in DOMAIN devices :
              (\E k \in 1..n : k < i + 1 /\ f[k] = Session(e)) <=>
              (\E k \in 1..n : k < i /\ f[k] = Session(e)) \/ e = d
      <4>1. \A e : f[i] = Session(e) <=> e = d
        BY <2>2, <3>1
      <4>2. \A k \in 1..n : k < i + 1 <=> k < i \/ k = i
        BY <3>2
      <4> QED BY <4>1, <4>2
    <3>5. Built(i + 1) = [e \in DOMAIN devices |-> IF e = d THEN "session" ELSE Built(i)[e]]
      BY <3>4
    <3>6. DOMAIN Built(i) = DOMAIN devices /\ DOMAIN devices \cup {d} = DOMAIN devices
      BY <1>3
    <3> HIDE DEF data, Built
    <3>7. Applied(Session(d), data[i]) = [data[i] EXCEPT !.devices =
              [e \in DOMAIN data[i].devices \cup {d} |->
                  IF e = d THEN "session" ELSE data[i].devices[e]]]
      BY DEF Applied, Session
    <3>8. data[i].devices = Built(i)
      BY <2>1, <3>3 DEF AllData
    <3>9. Applied(Session(d), data[i]) = [data[i] EXCEPT !.devices = Built(i + 1)]
      BY <3>5, <3>6, <3>7, <3>8
    <3> QED BY <2>1, <3>1, <3>3, <3>9 DEF AllData
  <2> HIDE DEF data
  <2>6. \A i \in 1..Len(jobs') : data[i + 1] = Applied(jobs'[i], data[i])
    BY <1>5, <1>6, <2>5 DEF n
  <2>7. data[Len(jobs') + 1] = memory'
    BY <1>6, <2>4 DEF n
  <2>8. IsSequence(jobs') /\ \A i \in DOMAIN jobs' : jobs'[i].op # "allData"
    BY <1>5, <1>6, <1>8
  <2>9. events' = events /\ UNCHANGED omemoTables
    BY DEF Aside
  <2>10. MemoryFollows'
    BY <1>10, <2>3, <2>6, <2>7, <2>8, <2>9, MemoryWritten
  <2> QED BY <1>4, <1>5, <1>6, <1>8, <2>10
<1> QED BY <1>9, <1>10

LEMMA DeviceListsRequestedKeeps ==
    ASSUME EncryptionInv, jobs = <<>>, NEW U \in requests, DeviceListsRequested(U)
    PROVE  EncryptionInv'
<1> USE DEF EncryptionInv
<1>1. /\ Aside /\ UNCHANGED <<isLoaded, isReset, open, groupJids, watched, onConnected, connected>>
      /\ requests' = requests \ {U}
      /\ BuildSessions(U \cup {Me}) /\ Queued(Stored(Unbuilt(U \cup {Me})))
  BY DEF DeviceListsRequested, Aside
<1>2. /\ MemoryFollows' /\ memory'.ownDevice = memory.ownDevice
      /\ IsSequence(jobs') /\ \A i \in DOMAIN jobs' : JobOK(jobs'[i]) /\ jobs'[i].op = "addDevice"
  BY <1>1, SessionsWritten
<1>3. PairsOfSetUp'
  <2>1. \A i \in DOMAIN jobs' :
            jobs'[i].op \notin {"resetOmemo", "addSignedPreKeyPair", "addPreKeyPairs"}
    BY <1>2
  <2>2. ~isReset /\ isLoaded' => memory'.ownDevice # NoDevice
    BY <1>1, <1>2 DEF PairsOfSetUp
  <2>3. UNCHANGED <<omemoTables, isReset>>
    BY <1>1 DEF Aside
  <2> QED BY <2>1, <2>2, <2>3, PairsKept
<1>4. UsersFollow'
  <2>1. UserJids(Group)' = UserJids(Group)
    BY <1>1 DEF Aside, UserJids
  <2>2. DOMAIN jobs = {} /\ events' = events
    BY <1>1, EmptyQueue DEF Aside
  <2> QED BY <1>1, <2>1, <2>2 DEF UsersFollow
<1>5. \A x \in UnderWay : x \in UnderWay'
  <2>1. prepared' = prepared \cup (U \cup {Me})
    BY <1>1 DEF BuildSessions
  <2>2. ASSUME NEW x \in UNION requests PROVE x \in prepared' \/ x \in UNION requests'
    <3>1. PICK V \in requests : x \in V
      OBVIOUS
    <3> QED BY <1>1, <2>1, <3>1
  <2>3. onConnected' = onConnected
    BY <1>1
  <2> QED BY <2>1, <2>2, <2>3 DEF UnderWay
<1>6. OpenChatServed'
  BY <1>1, <1>5 DEF OpenChatServed
<1> QED BY <1>1, <1>2, <1>3, <1>4, <1>6, MainKeeps

-----------------------------------------------------------------------------
(* All steps.                                                              *)

LEMMA ManagersKeep ==
    ASSUME EncryptionInv, jobs = <<>>, ManagerStep
    PROVE  EncryptionInv'
<1>1. CASE SetUp
  BY <1>1, SetUpKeeps
<1>2. CASE ReplaceKeyPairs(1, 2)
  BY <1>2, ReplaceKeyPairsKeeps
<1>3. CASE Reset
  BY <1>3, ResetKeeps
<1>4. CASE OtherAccount
  BY <1>4, OtherAccountKeeps
<1>5. ASSUME NEW d \in Devices, DeviceReceived(d) \/ DeviceRemoved(d)
      PROVE  EncryptionInv'
  BY <1>5, DeviceReceivedKeeps, DeviceRemovedKeeps
<1>6. CASE RemoveContactDevices(Contact)
  BY <1>6, ChatAssumption, RemoveContactDevicesKeeps
<1>7. ASSUME NEW jid \in Owners, NEW expected \in {NoJid, Contact},
             NEW T \in SUBSET Keys, NEW D \in SUBSET (Keys \ T),
             MakeTrustDecisionsWithUri(jid, expected, T, D)
      PROVE  EncryptionInv'
  <2>1. D \in SUBSET Keys
    OBVIOUS
  <2> QED BY <1>7, <2>1, DecisionsKeep
<1>8. ASSUME NEW sender \in Keys, NEW k \in Devices, NEW trust \in BOOLEAN,
             TrustMessageReceived(sender, k, trust)
      PROVE  EncryptionInv'
  BY <1>8, TrustMessageKeeps
<1> QED BY <1>1, <1>2, <1>3, <1>4, <1>5, <1>6, <1>7, <1>8 DEF ManagerStep

LEMMA MainStepsKeep ==
    ASSUME EncryptionInv, jobs = <<>>, Main
    PROVE  EncryptionInv'
<1>1. ASSUME NEW c \in Chats, OpenChat(c) PROVE EncryptionInv'
  BY <1>1, OpenChatKeeps
<1>2. ASSUME NEW U \in requests, DeviceListsRequested(U) PROVE EncryptionInv'
  BY <1>2, DeviceListsRequestedKeeps
<1>3. CASE OpenDetails
  BY <1>3, OpenDetailsKeeps
<1>4. CASE Connect \/ Disconnect
  BY <1>4, ConnectKeeps
<1>5. CASE ManagerStep
  BY <1>5, ManagersKeep
<1>6. CASE GroupStep
  BY <1>6, GroupStepKeeps
<1> QED BY <1>1, <1>2, <1>3, <1>4, <1>5, <1>6 DEF Main

\* What a process starts with, whatever earlier ones stored
LEMMA StartedHolds ==
    ASSUME Started, TrustTypeOK, TablesOK,
           OwnDevice(Me) = NoDevice => /\ signedPreKeyPairs \subseteq {<<Me, 1>>}
                                       /\ preKeyPairs \subseteq {<<Me, 1>>}
    PROVE  EncryptionInv
<1> DEFINE job == [op |-> "allData"]
<1>1. jobs = <<job>> /\ events = <<>> /\ memory = NoMemory /\ ~isLoaded
  BY DEF Started
<1>2. job.op = "allData" /\ JobOK(job) /\ job.op \notin OmemoOps
  BY DEF JobOK, TrustOps, OmemoOps, UserOps
<1> HIDE DEF job
<1>3. IsSequence(jobs) /\ DOMAIN jobs = {1} /\ jobs[1] = job
  BY <1>1, OneElement
<1>4. IsSequence(events) /\ DOMAIN events = {}
  BY <1>1, EmptyQueue
<1>5. QueuesOK
  BY <1>2, <1>3, <1>4 DEF QueuesOK
<1>6. Loading
  BY <1>2, <1>3 DEF Loading
<1>7. MemoryFollows
  BY <1>1, <1>2, <1>3, <1>4, <1>6 DEF MemoryFollows, LoadedOnce
<1>8. PairsOfSetUp
  BY <1>1, <1>2, <1>3 DEF PairsOfSetUp
<1>9. UsersFollow /\ OpenChatServed
  BY ChatAssumption DEF Started, UsersFollow, OpenChatServed
<1> QED BY <1>5, <1>7, <1>8, <1>9 DEF EncryptionInv

LEMMA ConstantTable ==
    ASSUME NEW P, NEW V, NEW S \in SUBSET P, NEW v \in V
    PROVE  [r \in S |-> v] \in Tables(P, V)
<1> DEFINE table == [r \in S |-> v]
<1>1. DOMAIN table \subseteq P /\ table \in [DOMAIN table -> V]
  OBVIOUS
<1> HIDE DEF table
<1>2. table \in Tables(P, V)
  BY <1>1, TableOf
<1> QED BY <1>2 DEF table

LEMMA InitHolds ==
    ASSUME Init
    PROVE  EncryptionInv
<1>1. CASE TrustInit /\ OmemoInit /\ userRows = {}
  <2>1. TrustTypeOK
    BY <1>1, TableOf DEF TrustInit, TrustTypeOK
  <2>2. TablesOK
    BY <1>1 DEF OmemoInit, TablesOK
  <2>3. signedPreKeyPairs = {} /\ preKeyPairs = {}
    BY <1>1 DEF OmemoInit
  <2> QED BY <2>1, <2>2, <2>3, StartedHolds DEF Init
<1>2. CASE StoredBefore
  <2>1. TrustTypeOK
    <3>1. policies \in Tables(Stores, Policies)
      <4>1. {store} \in SUBSET Stores /\ "Toakafa" \in Policies
        BY OwnStore, ChatAssumption
      <4> QED BY <1>2, <4>1, ConstantTable DEF StoredBefore
    <3>2. ownKeys \in Tables(Stores, Keys)
      <4>1. {store} \in SUBSET Stores /\ (CHOOSE k \in Keys : TRUE) \in Keys
        BY OwnStore, ChatAssumption
      <4> QED BY <1>2, <4>1, ConstantTable DEF StoredBefore
    <3>3. keys \in Tables(Stores \X OwnedKeys, Levels)
      <4>1. {store} \X Devices \in SUBSET (Stores \X OwnedKeys) /\ "AutomaticallyTrusted" \in Levels
        BY OwnStore, ChatAssumption DEF Devices, OwnedKeys
      <4> QED BY <1>2, <4>1, ConstantTable DEF StoredBefore
    <3>4. postponed \in Tables(Stores \X OwnedKeys, Decisions)
      BY <1>2, TableOf DEF StoredBefore
    <3> QED BY <3>1, <3>2, <3>3, <3>4 DEF TrustTypeOK
  <2>2. TablesOK
    <3>1. /\ signedPreKeyPairs = {<<Me, 1>>} /\ preKeyPairs = {<<Me, 1>>}
          /\ DOMAIN ownDevices = {Me}
          /\ DOMAIN deviceRows = {<<Me, d[1], d[2]>> : d \in Devices}
          /\ userRows = {[chat |-> Group, id |-> Me, jid |-> Me, status |-> "Joined"]}
      BY <1>2 DEF StoredBefore
    <3>2. <<Me, 1>> \in {Me} \X PairIds
      BY DEF PairIds
    <3>3. {<<Me, d[1], d[2]>> : d \in Devices} \subseteq {Me} \X Owners \X Keys
      BY DEF Devices
    <3>4. [chat |-> Group, id |-> Me, jid |-> Me, status |-> "Joined"] \in User
      BY OwnStore DEF User
    <3> QED BY <3>1, <3>2, <3>3, <3>4 DEF TablesOK
  <2>3. signedPreKeyPairs = {<<Me, 1>>} /\ preKeyPairs = {<<Me, 1>>}
    BY <1>2 DEF StoredBefore
  <2> QED BY <2>1, <2>2, <2>3, StartedHolds DEF Init
<1> QED BY <1>1, <1>2 DEF Init

LEMMA RestartKeeps ==
    ASSUME EncryptionInv, Restart
    PROVE  EncryptionInv'
<1> DEFINE job == [op |-> "allData"]
<1>1. jobs' = <<job>> /\ events' = <<>> /\ memory' = NoMemory /\ ~isLoaded' /\ isReset' = isReset
  BY DEF Restart
<1>2. job.op = "allData" /\ JobOK(job) /\ job.op \notin OmemoOps
  BY DEF JobOK, TrustOps, OmemoOps, UserOps
<1> HIDE DEF job
<1>3. IsSequence(jobs') /\ DOMAIN jobs' = {1} /\ jobs'[1] = job
  BY <1>1, OneElement
<1>4. IsSequence(events') /\ DOMAIN events' = {}
  BY <1>1, EmptyQueue
<1>5. QueuesOK'
  BY <1>2, <1>3, <1>4 DEF QueuesOK
<1>6. Loading'
  BY <1>2, <1>3 DEF Loading
<1>7. MemoryFollows'
  BY <1>1, <1>2, <1>3, <1>4, <1>6 DEF MemoryFollows, LoadedOnce
<1>8. PairsOfSetUp'
  BY <1>1, <1>2, <1>3 DEF PairsOfSetUp, EncryptionInv, Restart, omemoTables, OwnDevice
<1>9. UsersFollow' /\ OpenChatServed'
  BY ChatAssumption DEF Restart, UsersFollow, OpenChatServed
<1>10. TrustTypeOK' /\ TablesOK'
  BY DEF Restart, EncryptionInv, TrustTypeOK, TablesOK, tables, omemoTables
<1> QED BY <1>5, <1>7, <1>8, <1>9, <1>10 DEF EncryptionInv

LEMMA NothingKeeps ==
    ASSUME EncryptionInv, UNCHANGED vars
    PROVE  EncryptionInv'
<1>1. UNCHANGED <<tables, omemoTables, userRows, jobs, events, managerVars, chatVars, connected>>
  BY DEF vars
<1>2. QueuesOK' /\ TrustTypeOK' /\ TablesOK'
  BY <1>1 DEF EncryptionInv, QueuesOK, TrustTypeOK, TablesOK, tables, omemoTables
<1>3. AllData(Me)' = AllData(Me)
  BY <1>1 DEF AllData, omemoTables, OwnDevice, SignedPreKeyPairsOf, PreKeyPairsOf, DevicesOf
<1>4. MemoryFollows'
  BY <1>1, <1>3 DEF EncryptionInv, MemoryFollows, LoadedOnce, Loading, Replayed, managerVars
<1>5. PairsOfSetUp'
  BY <1>1 DEF EncryptionInv, PairsOfSetUp, omemoTables, managerVars, OwnDevice
<1>6. UserJids(Group)' = UserJids(Group)
  BY <1>1 DEF UserJids
<1>7. UsersFollow'
  BY <1>1, <1>6 DEF EncryptionInv, UsersFollow, chatVars
<1>8. OpenChatServed'
  BY <1>1 DEF EncryptionInv, OpenChatServed, chatVars, UnderWay
<1> QED BY <1>2, <1>4, <1>5, <1>7, <1>8 DEF EncryptionInv

\* What the queues hold explains the tables, the memory and the users of the open chat.
THEOREM EncryptionCorrect == Spec => []EncryptionInv
<1>1. Init => EncryptionInv
  BY InitHolds
<1>2. EncryptionInv /\ [Next]_vars => EncryptionInv'
  <2>1. ASSUME EncryptionInv, Next PROVE EncryptionInv'
    BY <2>1, WorkKeeps, HandleKeeps, MainStepsKeep, RestartKeeps DEF Next
  <2> QED BY <2>1, NothingKeeps
<1> QED BY <1>1, <1>2, PTL DEF Spec

-----------------------------------------------------------------------------
(* What the runs check.                                                    *)

\* A restart finds what the manager of OMEMO had in memory when its jobs were done
\* (OmemoDb.cpp, called by QXmpp), and the tables of trust are well-formed.
THEOREM StoredCorrect == Spec => []StoredInv
<1>1. EncryptionInv => StoredInv
  <2> SUFFICES ASSUME EncryptionInv, isLoaded, jobs = <<>>, events = <<>>
               PROVE  memory = AllData(Me)
    BY DEF StoredInv, DevicesStored, Quiet, EncryptionInv
  <2>1. ~Loading
    BY LoadedManager
  <2> QED BY <2>1, MemoryWithoutJobs DEF EncryptionInv
<1> QED BY <1>1, EncryptionCorrect, PTL

\* The encryption of the open chat is watched for those users the database has for it, whichever
\* chats were opened while they were fetched (updateGroupChatEncryption() of ChatController).
THEOREM WatchesCorrect == Spec => []WatchesOpenChat
<1>1. EncryptionInv => WatchesOpenChat
  <2> SUFFICES ASSUME EncryptionInv, jobs = <<>>, events = <<>>
               PROVE  /\ open = Group => /\ groupJids = UserJids(Group)
                                         /\ Me \in groupJids /\ groupJids # {Me} =>
                                               watched = groupJids \ {Me}
                      /\ open \in Owners => groupJids = {} /\ watched = {open}
    BY DEF WatchesOpenChat, Quiet
  <2>1. DOMAIN jobs = {} /\ DOMAIN events = {}
    BY EmptyQueue
  <2>2. open = Group => groupJids = UserJids(Group)
    BY <2>1 DEF EncryptionInv, UsersFollow
  <2> QED BY <2>2, ChatAssumption DEF EncryptionInv, OpenChatServed
<1> QED BY <1>1, EncryptionCorrect, PTL

\* The sessions for the open chat were built or that was tried, even if the chat was opened or its
\* users changed without a connection (runOnceConnected() of initializeChat()).
THEOREM InitializedCorrect == Spec => []ChatInitialized
<1>1. EncryptionInv => ChatInitialized
  <2> SUFFICES ASSUME EncryptionInv, connected, requests = {}
               PROVE  /\ open = Group /\ Me \in groupJids => groupJids \ {Me} \subseteq prepared
                      /\ open \in Owners => open \in prepared
    BY DEF ChatInitialized
  <2>1. onConnected = {}
    BY DEF EncryptionInv, OpenChatServed
  <2>2. UnderWay = prepared
    BY <2>1, JoinedUnion DEF UnderWay
  <2> QED BY <2>2 DEF EncryptionInv, OpenChatServed
<1> QED BY <1>1, EncryptionCorrect, PTL

\* The jobs the managers queue are steps of the storages of trust that QXmpp relies on, whatever
\* earlier processes stored (TrustDb.cpp).
THEOREM ChatImplementsStorages == Spec => StoragesImplemented
<1> DEFINE Steps ==
        /\ \A s \in Stores : [Storage(s)!Next]_(Storage(s)!storage)
        /\ \A r, s \in Stores :
              \/ r = s
              \/ UNCHANGED Storage(r)!storage
              \/ UNCHANGED Storage(s)!storage
              \/ r.account = s.account /\ Storage(r)!Reset /\ Storage(s)!Reset
<1>1. Init => \A s \in Stores : Storage(s)!Init
  <2> SUFFICES ASSUME Init, NEW s \in Stores PROVE Storage(s)!Init
    OBVIOUS
  <2>1. TrustTypeOK
    BY InitHolds DEF EncryptionInv
  <2>2. SecurityPolicy(s) \in Policies \cup {NoPolicy}
    BY <2>1, TableOf DEF TrustTypeOK, SecurityPolicy
  <2>3. OwnKey(s) \in Keys \cup {NoKey}
    BY <2>1, TableOf DEF TrustTypeOK, OwnKey
  <2>4. LevelsOf(s) \in [Storage(s)!OwnedKeys -> Levels \cup {Unknown}]
    BY <2>1, TableOf DEF TrustTypeOK, LevelsOf, OwnedKeys, Storage!OwnedKeys
  <2>5. DecisionsOf(s) \in [Storage(s)!OwnedKeys -> [sender : Keys, trust : BOOLEAN] \cup {Unknown}]
    <3>1. DecisionsOf(s) \in [OwnedKeys -> Decisions \cup {Unknown}]
      BY <2>1, TableOf DEF TrustTypeOK, DecisionsOf
    <3> QED BY <3>1 DEF OwnedKeys, Storage!OwnedKeys, Decisions
  <2> QED BY <2>2, <2>3, <2>4, <2>5 DEF Storage!Init
<1>2. EncryptionInv /\ [Next]_vars => [Steps]_tables
  <2> SUFFICES ASSUME EncryptionInv, [Next]_vars, ~UNCHANGED tables PROVE Steps
    OBVIOUS
  <2>1. Work
    <3>1. ~UNCHANGED vars
      BY DEF vars
    <3>2. ASSUME Main PROVE UNCHANGED tables
      BY <3>2 DEF Main, OpenChat, DeviceListsRequested, OpenDetails, Connect, Disconnect,
         ManagerStep, GroupStep, SetUp, ReplaceKeyPairs, Reset, OtherAccount, DeviceReceived,
         DeviceRemoved, RemoveContactDevices, MakeTrustDecisionsWithUri, TrustMessageReceived,
         Unchanged
    <3> QED BY <3>1, <3>2 DEF Next, Handle, Restart
  <2>2. TrustNext
    BY <2>1, WorkIsDone DEF EncryptionInv, Done, WorkDone
  <2> QED BY <2>2, TrustStep DEF Together
<1> QED BY <1>1, <1>2, EncryptionCorrect, PTL DEF Spec, StoragesImplemented

-----------------------------------------------------------------------------
(* What the views show.                                                    *)

\* A view that is updated shows what it may show: the users of a filtered list are its users.
LEMMA ShownIsAccepted ==
    ASSUME NEW v, NEW D, NEW U, NEW levels
    PROVE  Accepts(v, U, ViewOf(v, D, U, levels), ViewOf(v, D, U, levels))
<1> DEFINE x == ViewOf(v, D, U, levels)
<1>1. CASE v \in Generators
  BY <1>1 DEF Accepts, Generators
<1>2. CASE v = "key filter"
  <2>1. x = FilteredJids(WithLevels(D, U, levels))
    BY <1>2 DEF ViewOf, Watchers, Generators
  <2>2. DOMAIN WithLevels(D, U, levels) = {e \in D : e[1] \in U}
    BY DEF WithLevels
  <2>3. \A d \in With(WithLevels(D, U, levels), Authenticatable) : d[1] \in U
    BY <2>2 DEF With
  <2>4. x \subseteq U
    BY <2>1, <2>3 DEF FilteredJids
  <2>5. x \cap U = x
    BY <2>4
  <2> QED BY <1>2, <2>5 DEF Accepts, Generators
<1>3. CASE v \notin Generators \cup {"key filter"}
  BY <1>3 DEF Accepts
<1> QED BY <1>1, <1>2, <1>3

\* Only the devices of the users matter, and for the keys themselves none.
LEMMA ViewOfDevices ==
    ASSUME NEW v, NEW D, NEW E, NEW U, NEW levels,
           v \in OnKeys \/ \A d \in D \cup E : d[1] \in U => (d \in D <=> d \in E)
    PROVE  ViewOf(v, D, U, levels) = ViewOf(v, E, U, levels)
<1>1. CASE v \in OnKeys
  BY <1>1 DEF ViewOf, OnKeys, Generators, Watchers
<1>2. CASE \A d \in D \cup E : d[1] \in U => (d \in D <=> d \in E)
  <2>1. {e \in D : e[1] \in U} = {e \in E : e[1] \in U}
    BY <1>2
  <2>2. WithLevels(D, U, levels) = WithLevels(E, U, levels)
    BY <2>1 DEF WithLevels
  <2> QED BY <2>2 DEF ViewOf
<1> QED BY <1>1, <1>2

\* For the other views, only the levels of those devices matter.
LEMMA ViewOfLevels ==
    ASSUME NEW v \in Views \ OnKeys, NEW D, NEW U, NEW l, NEW m,
           \A d \in D : d[1] \in U => /\ d \in DOMAIN l <=> d \in DOMAIN m
                                      /\ d \in DOMAIN l => l[d] = m[d]
    PROVE  ViewOf(v, D, U, l) = ViewOf(v, D, U, m)
<1>1. WithLevels(D, U, l) = WithLevels(D, U, m)
  BY DEF WithLevels
<1>2. v \notin Generators /\ v # "authenticated keys"
  BY DEF OnKeys
<1>3. v \in Watchers \/ v = "authenticatable keys" \/ v = "key filter"
  BY <1>2 DEF Views, Details
<1> QED BY <1>1, <1>2, <1>3 DEF ViewOf, Watchers, Generators

\* An update may go on showing what was accepted for more decisions.
FewerDecided(l, m) ==
    \A k \in DOMAIN UriKeys(m) : k \in DOMAIN UriKeys(l) /\ UriKeys(m)[k] = UriKeys(l)[k]

LEMMA FewerAccepted ==
    ASSUME NEW v \in Generators, NEW D, NEW E, NEW U, NEW l, NEW m, FewerDecided(l, m), NEW x,
           Accepts(v, U, ViewOf(v, D, U, l), x)
    PROVE  Accepts(v, U, ViewOf(v, E, U, m), x)
<1>1. v \notin Watchers /\ v # "key filter"
  BY DEF Generators, Watchers
<1>2. ViewOf(v, D, U, l) = UriKeys(l) /\ ViewOf(v, E, U, m) = UriKeys(m)
  BY <1>1 DEF ViewOf, Generators
<1> QED BY <1>1, <1>2 DEF Accepts, FewerDecided

-----------------------------------------------------------------------------
(* How jobs change the levels of some users' keys.                         *)

LEMMA LevelsOfUsers ==
    ASSUME NEW U
    PROVE  /\ DOMAIN KeysOfUsers(U) = {k \in U \X Keys : <<store, k>> \in DOMAIN keys}
           /\ \A k \in DOMAIN KeysOfUsers(U) : KeysOfUsers(U)[k] = keys[<<store, k>>]
BY DEF KeysOfUsers, KeysOf

LEMMA LevelsOfUsersNext ==
    ASSUME NEW U
    PROVE  /\ DOMAIN KeysOfUsers(U)' = {k \in U \X Keys : <<store, k>> \in DOMAIN keys'}
           /\ \A k \in DOMAIN KeysOfUsers(U)' : KeysOfUsers(U)'[k] = keys'[<<store, k>>]
BY DEF KeysOfUsers, KeysOf, store

LEMMA LevelsUntouched ==
    ASSUME NEW U, \A k \in U \X Keys : /\ <<store, k>> \in DOMAIN keys' <=> <<store, k>> \in DOMAIN keys
                                       /\ <<store, k>> \in DOMAIN keys =>
                                              keys'[<<store, k>>] = keys[<<store, k>>]
    PROVE  KeysOfUsers(U)' = KeysOfUsers(U)
<1>1. {k \in U \X Keys : <<store, k>> \in DOMAIN keys'} = {k \in U \X Keys : <<store, k>> \in DOMAIN keys}
  OBVIOUS
<1>2. KeysOfUsers(U) = [k \in {k \in U \X Keys : <<store, k>> \in DOMAIN keys} |-> keys[<<store, k>>]]
  BY DEF KeysOfUsers, KeysOf
<1>3. KeysOfUsers(U)' = [k \in {k \in U \X Keys : <<store, k>> \in DOMAIN keys'} |-> keys'[<<store, k>>]]
  BY DEF KeysOfUsers, KeysOf, store
<1> QED BY <1>1, <1>2, <1>3

\* Keys of other stores or users
LEMMA UpsertedElsewhere ==
    ASSUME NEW s, NEW K, NEW l, keys' = Upserted(keys, [r \in Row(s, K) |-> l]),
           NEW U, s # store \/ \A k \in U \X Keys : k \notin K
    PROVE  KeysOfUsers(U)' = KeysOfUsers(U)
<1>1. \A k \in U \X Keys : <<store, k>> \notin Row(s, K)
  BY DEF Row
<1>2. DOMAIN keys' = DOMAIN keys \cup Row(s, K)
  BY DEF Upserted
<1>3. \A r \in DOMAIN keys : r \notin Row(s, K) => keys'[r] = keys[r]
  BY DEF Upserted
<1>4. ASSUME NEW k \in U \X Keys, <<store, k>> \in DOMAIN keys
      PROVE  keys'[<<store, k>>] = keys[<<store, k>>]
  BY <1>1, <1>3, <1>4
<1> QED BY <1>1, <1>2, <1>4, LevelsUntouched

LEMMA RemovedElsewhere ==
    ASSUME NEW s, NEW K, keys' = Without(keys, Row(s, K)),
           NEW U, s # store \/ \A k \in U \X Keys : k \notin K
    PROVE  KeysOfUsers(U)' = KeysOfUsers(U)
<1>1. \A k \in U \X Keys : <<store, k>> \notin Row(s, K)
  BY DEF Row
<1>2. DOMAIN keys' = DOMAIN keys \ Row(s, K)
  BY DEF Without
<1>3. \A r \in DOMAIN keys' : keys'[r] = keys[r]
  BY DEF Without
<1> QED BY <1>1, <1>2, <1>3, LevelsUntouched

\* Keys that are received are not decided about.
LEMMA AddedDecided ==
    ASSUME NEW K, NEW l \in {"AutomaticallyTrusted", "AutomaticallyDistrusted"},
           keys' = Upserted(keys, [r \in Row(store, K) |-> l]), NEW U
    PROVE  FewerDecided(KeysOfUsers(U), KeysOfUsers(U)')
<1> DEFINE old == KeysOfUsers(U)
           new == KeysOfUsers(U)'
<1>1. /\ DOMAIN keys' = DOMAIN keys \cup Row(store, K)
      /\ \A r \in DOMAIN keys' : keys'[r] = IF r \in Row(store, K) THEN l ELSE keys[r]
  BY DEF Upserted
<1>2. ASSUME NEW k \in DOMAIN new, new[k] \in {"Authenticated", "ManuallyDistrusted"}
      PROVE  k \in DOMAIN old /\ old[k] = new[k]
  <2>1. k \in U \X Keys /\ <<store, k>> \in DOMAIN keys' /\ new[k] = keys'[<<store, k>>]
    BY LevelsOfUsersNext
  <2>2. <<store, k>> \notin Row(store, K) /\ keys'[<<store, k>>] = keys[<<store, k>>]
    BY <1>1, <1>2, <2>1
  <2>3. <<store, k>> \in DOMAIN keys
    BY <1>1, <2>1, <2>2
  <2> QED BY <2>1, <2>2, <2>3, LevelsOfUsers
<1> HIDE DEF old, new
<1>3. FewerDecided(old, new)
  BY <1>2 DEF FewerDecided, UriKeys
<1> QED BY <1>3 DEF old, new

LEMMA AddKeysDecided ==
    ASSUME NEW o, NEW K, NEW l \in {"AutomaticallyTrusted", "AutomaticallyDistrusted"},
           AddKeys(store, o, K, l), NEW U
    PROVE  FewerDecided(KeysOfUsers(U), KeysOfUsers(U)')
<1>1. keys' = Upserted(keys, [r \in Row(store, {o} \X K) |-> l])
  BY DEF AddKeys
<1> QED BY <1>1, AddedDecided

LEMMA RemovedDecided ==
    ASSUME NEW R, keys' = Without(keys, R), NEW U
    PROVE  FewerDecided(KeysOfUsers(U), KeysOfUsers(U)')
<1> DEFINE old == KeysOfUsers(U)
           new == KeysOfUsers(U)'
<1>1. DOMAIN keys' = DOMAIN keys \ R /\ \A r \in DOMAIN keys' : keys'[r] = keys[r]
  BY DEF Without
<1>2. ASSUME NEW k \in DOMAIN new PROVE k \in DOMAIN old /\ old[k] = new[k]
  <2>1. k \in U \X Keys /\ <<store, k>> \in DOMAIN keys' /\ new[k] = keys'[<<store, k>>]
    BY LevelsOfUsersNext
  <2> QED BY <1>1, <2>1, LevelsOfUsers
<1> HIDE DEF old, new
<1>3. FewerDecided(old, new)
  BY <1>2 DEF FewerDecided, UriKeys
<1> QED BY <1>3 DEF old, new

-----------------------------------------------------------------------------
(* What the database thread does that matters to the views.                *)

UserKinds == {"jids", "userJids", "added", "updated", "removed", "users"}

\* The events of a job
EventOf(job, e) ==
    \/ e.kind \in UserKinds
    \/ e.kind = "loaded" /\ job.op = "allData"
    \/ e.kind = "levels" /\ job.op \in {"setTrustLevel", "setTrustLevels"}
    \/ /\ e.kind = "queried" /\ job.op = "query" /\ e.jids = job.jids
       /\ \A v \in DOMAIN job.jids : e.levels[v] = KeysOfUsers(job.jids[v])
    \/ e.kind = "ownKey" /\ job.op = "ownKey"
    \/ e.kind = "labels" /\ job.op = "labels" /\ e.keys = job.keys
    \/ e.kind = "devices" /\ job.op = "report" /\ e.jids = job.jids
    \/ e.kind = "reset" /\ job.op = "report all"

AnsweredOps == {"allData", "query", "ownKey", "labels", "report", "report all"}

\* The events s and the keys after a job
KeysAfter(job, s) ==
    \/ \A U : KeysOfUsers(U)' = KeysOfUsers(U)
    \/ /\ job.op = "addKeys" /\ job.store = store
       /\ AddKeys(store, job.owner, job.keys, job.level)
    \/ /\ job.op = "removeKeys"
       /\ keys' = Without(keys, Row(job.store, job.owners \X job.keys))
    \/ job.op = "resetTrust"
    \/ /\ 1 \in DOMAIN s /\ s[1].kind = "levels"
       /\ \E q, l : keys' = Upserted(keys, [r \in Row(q, s[1].keys) |-> l])

Effects(job, s) ==
    /\ IsSequence(s) /\ events' = events \o s
    /\ \A i \in DOMAIN s : EventOf(job, s[i])
    /\ job.op \in AnsweredOps => DOMAIN s = {1} /\ s[1].kind \notin UserKinds
    /\ KeysAfter(job, s)

\* Nothing or one event is added.
LEMMA NoEffects ==
    ASSUME NEW job, job.op \notin AnsweredOps, Answer(<<>>), KeysAfter(job, <<>>)
    PROVE  \E s : Effects(job, s)
<1>1. Effects(job, <<>>)
  BY EmptyQueue DEF Effects, Answer
<1> QED BY <1>1

LEMMA OneEffect ==
    ASSUME NEW job, NEW e, Answer(<<e>>), EventOf(job, e), e.kind \notin UserKinds,
           \/ \A U : KeysOfUsers(U)' = KeysOfUsers(U)
           \/ /\ e.kind = "levels"
              /\ \E q, l : keys' = Upserted(keys, [r \in Row(q, e.keys) |-> l])
    PROVE  \E s : Effects(job, s)
<1> DEFINE s == <<e>>
<1>1. IsSequence(s) /\ DOMAIN s = {1} /\ s[1] = e /\ events' = events \o s
  BY OneEvent
<1> HIDE DEF s
<1>2. KeysAfter(job, s)
  BY <1>1 DEF KeysAfter
<1>3. Effects(job, s)
  BY <1>1, <1>2 DEF Effects
<1> QED BY <1>3

LEMMA KeysKept ==
    ASSUME keys' = keys
    PROVE  \A U : KeysOfUsers(U)' = KeysOfUsers(U)
BY DEF KeysOfUsers, KeysOf, store

LEMMA AddedElsewhere ==
    ASSUME NEW s, NEW o, NEW K, NEW l, AddKeys(s, o, K, l), NEW U, s # store \/ o \notin U
    PROVE  KeysOfUsers(U)' = KeysOfUsers(U)
<1>1. keys' = Upserted(keys, [r \in Row(s, {o} \X K) |-> l])
  BY DEF AddKeys
<1>2. o \notin U => \A k \in U \X Keys : k \notin {o} \X K
  OBVIOUS
<1> QED BY <1>1, <1>2, UpsertedElsewhere

LEMMA TrustEffects ==
    ASSUME NEW job, TrustWork(job), job.op = "resetAccount" => job.account # Me
    PROVE  \E s : Effects(job, s)
<1>1. job.op \in TrustOps /\ job.op \notin AnsweredOps
  BY DEF TrustWork, TrustOps, AnsweredOps
<1>2. CASE job.op \in {"addPostponed", "removeMade", "setSecurityPolicy", "setOwnKey"}
  <2>1. keys' = keys /\ Answer(<<>>)
    BY <1>2 DEF TrustWork, AddPostponed, RemoveMade, SetSecurityPolicy, SetOwnKey
  <2>2. KeysAfter(job, <<>>)
    BY <2>1, KeysKept DEF KeysAfter
  <2> QED BY <1>1, <2>1, <2>2, NoEffects
<1>3. CASE job.op = "addKeys"
  <2>1. Answer(<<>>) /\ AddKeys(job.store, job.owner, job.keys, job.level)
    BY <1>3 DEF TrustWork
  <2>2. job.store # store => \A U : KeysOfUsers(U)' = KeysOfUsers(U)
    BY <2>1, AddedElsewhere
  <2>3. KeysAfter(job, <<>>)
    BY <1>3, <2>1, <2>2 DEF KeysAfter
  <2> QED BY <1>1, <2>1, <2>3, NoEffects
<1>4. CASE job.op = "removeKeys"
  <2>1. Answer(<<>>) /\ keys' = Without(keys, Row(job.store, job.owners \X job.keys))
    BY <1>4 DEF TrustWork, RemoveKeys
  <2>2. KeysAfter(job, <<>>)
    BY <1>4, <2>1 DEF KeysAfter
  <2> QED BY <1>1, <2>1, <2>2, NoEffects
<1>5. CASE job.op = "setTrustLevel"
  <2> DEFINE C == Changed(job.store, job.keys, job.level)
             e == [kind |-> "levels", keys |-> C]
  <2>1. Answer(<<e>>) /\ keys' = Upserted(keys, [r \in Row(job.store, C) |-> job.level])
    BY <1>5 DEF TrustWork, SetTrustLevel, Modified
  <2>2. e.kind = "levels" /\ e.keys = C /\ EventOf(job, e) /\ e.kind \notin UserKinds
    BY <1>5 DEF EventOf, UserKinds
  <2> HIDE DEF C, e
  <2> QED BY <2>1, <2>2, OneEffect
<1>6. CASE job.op = "setTrustLevels"
  <2> DEFINE C == ChangedFrom(job.store, job.owners, job.old)
             e == [kind |-> "levels", keys |-> C]
  <2>1. Answer(<<e>>) /\ keys' = Upserted(keys, [r \in Row(job.store, C) |-> job.new])
    BY <1>6 DEF TrustWork, SetTrustLevels, Modified
  <2>2. e.kind = "levels" /\ e.keys = C /\ EventOf(job, e) /\ e.kind \notin UserKinds
    BY <1>6 DEF EventOf, UserKinds
  <2> HIDE DEF C, e
  <2> QED BY <2>1, <2>2, OneEffect
<1>7. CASE job.op = "resetTrust"
  <2>1. Answer(<<>>)
    BY <1>7 DEF TrustWork
  <2>2. KeysAfter(job, <<>>)
    BY <1>7 DEF KeysAfter
  <2> QED BY <1>1, <2>1, <2>2, NoEffects
<1>8. CASE job.op = "resetAccount"
  <2>1. Answer(<<>>) /\ keys' = Without(keys, StoresOf(job.account) \X OwnedKeys)
    BY <1>8 DEF TrustWork, ResetAll
  <2>2. store \notin StoresOf(job.account)
    BY <1>8 DEF store, StoresOf
  <2>3. \A k : <<store, k>> \notin StoresOf(job.account) \X OwnedKeys
    BY <2>2
  <2>4. DOMAIN keys' = DOMAIN keys \ (StoresOf(job.account) \X OwnedKeys)
        /\ \A r \in DOMAIN keys' : keys'[r] = keys[r]
    BY <2>1 DEF Without
  <2>5. \A U : KeysOfUsers(U)' = KeysOfUsers(U)
    BY <2>3, <2>4, LevelsUntouched
  <2>6. KeysAfter(job, <<>>)
    BY <2>5 DEF KeysAfter
  <2> QED BY <1>1, <2>1, <2>6, NoEffects
<1> QED BY <1>1, <1>2, <1>3, <1>4, <1>5, <1>6, <1>7, <1>8 DEF TrustOps

LEMMA OmemoEffects ==
    ASSUME NEW job, OmemoWork(job)
    PROVE  \E s : Effects(job, s)
<1>1. keys' = keys /\ Answer(<<>>) /\ job.op \notin AnsweredOps
  BY DEF OmemoWork, tables, AnsweredOps
<1>2. KeysAfter(job, <<>>)
  BY <1>1, KeysKept DEF KeysAfter
<1> QED BY <1>1, <1>2, NoEffects

LEMMA UsersEffects ==
    ASSUME TablesOK, NEW job, JobOK(job), UsersWork(job)
    PROVE  \E s : Effects(job, s)
<1>1. PICK result : GoodResult(result) /\ userRows' = result.rows /\ Answer(result.signals)
  BY UsersWorkGood DEF TablesOK
<1>2. job.op \in UserOps
  BY UsersWorkGood DEF TablesOK
<1>3. \A U : KeysOfUsers(U)' = KeysOfUsers(U)
  BY KeysKept DEF UsersWork, tables
<1> DEFINE s == result.signals
<1>4. IsSequence(s) /\ events' = events \o s
  BY <1>1 DEF GoodResult, Answer
<1>5. \A i \in DOMAIN s : EventOf(job, s[i])
  BY <1>1 DEF GoodResult, EventOf, UserKinds
<1>6. job.op \notin AnsweredOps
  BY <1>2 DEF UserOps, AnsweredOps
<1> HIDE DEF s
<1>7. Effects(job, s)
  BY <1>3, <1>4, <1>5, <1>6 DEF Effects, KeysAfter
<1> QED BY <1>7

LEMMA ReadEffects ==
    ASSUME NEW job, JobOK(job), ReadWork(job)
    PROVE  \E s : Effects(job, s)
<1>1. \A U : KeysOfUsers(U)' = KeysOfUsers(U)
  BY KeysKept DEF ReadWork, tables
<1> DEFINE Is(e) == Answer(<<e>>) /\ EventOf(job, e) /\ e.kind \notin UserKinds
<1>2. ASSUME NEW e, Is(e) PROVE \E s : Effects(job, s)
  BY <1>1, <1>2, OneEffect
<1>3. CASE job.op = "allData"
  <2>1. Is([kind |-> "loaded", data |-> AllData(Me)])
    BY <1>3 DEF ReadWork, EventOf, UserKinds
  <2> HIDE DEF Is
  <2> QED BY <1>2, <2>1
<1>4. CASE job.op = "query"
  <2> DEFINE e == [kind |-> "queried", jids |-> job.jids,
                   levels |-> [v \in DOMAIN job.jids |-> KeysOfUsers(job.jids[v])]]
  <2>1. e.kind = "queried" /\ e.jids = job.jids /\ e.kind \notin UserKinds
    BY DEF UserKinds
  <2>2. \A v \in DOMAIN job.jids : e.levels[v] = KeysOfUsers(job.jids[v])
    OBVIOUS
  <2>3. Answer(<<e>>)
    BY <1>4 DEF ReadWork
  <2> HIDE DEF e
  <2>4. EventOf(job, e)
    BY <1>4, <2>1, <2>2 DEF EventOf
  <2> QED BY <1>2, <2>1, <2>3, <2>4
<1>5. CASE job.op = "ownKey"
  <2>1. Is([kind |-> "ownKey", key |-> OwnKey(store)])
    BY <1>5 DEF ReadWork, EventOf, UserKinds
  <2> HIDE DEF Is
  <2> QED BY <1>2, <2>1
<1>6. CASE job.op = "labels"
  <2>1. Is([kind |-> "labels", keys |-> job.keys])
    BY <1>6 DEF ReadWork, EventOf, UserKinds
  <2> HIDE DEF Is
  <2> QED BY <1>2, <2>1
<1>7. CASE job.op = "report"
  <2>1. Is([kind |-> "devices", jids |-> job.jids])
    BY <1>7 DEF ReadWork, EventOf, UserKinds
  <2> HIDE DEF Is
  <2> QED BY <1>2, <2>1
<1>8. CASE job.op = "report all"
  <2>1. Is([kind |-> "reset"])
    BY <1>8 DEF ReadWork, EventOf, UserKinds
  <2> HIDE DEF Is
  <2> QED BY <1>2, <2>1
<1> DEFINE Told(e) == Answer(<<e>>) /\ EventOf(job, e)
<1>9. ASSUME NEW e, Told(e), job.op \notin AnsweredOps PROVE \E s : Effects(job, s)
  <2>1. IsSequence(<<e>>) /\ DOMAIN <<e>> = {1} /\ <<e>>[1] = e /\ events' = events \o <<e>>
    BY <1>9, OneEvent
  <2>2. Effects(job, <<e>>)
    BY <1>1, <1>9, <2>1 DEF Effects, KeysAfter
  <2> QED BY <2>2
<1>10. CASE job.op = "userJids"
  <2>1. Told([kind |-> "userJids", jids |-> UserJids(job.chat), chat |-> job.chat, first |-> job.first])
    BY <1>10 DEF ReadWork, EventOf, UserKinds
  <2> HIDE DEF Told
  <2> QED BY <1>9, <1>10, <2>1 DEF AnsweredOps
<1>11. CASE job.op = "users"
  <2>1. Told([kind |-> "users", users |-> UsersOf(Group)])
    BY <1>11 DEF ReadWork, EventOf, UserKinds
  <2> HIDE DEF Told
  <2> QED BY <1>9, <1>11, <2>1 DEF AnsweredOps
<1> QED BY <1>3, <1>4, <1>5, <1>6, <1>7, <1>8, <1>10, <1>11 DEF ReadWork

\* What the main thread has does not change.
SameMain == UNCHANGED <<listed, managerVars, chatVars, viewVars>>

Worked(s) == jobs # <<>> /\ jobs' = Tail(jobs) /\ Effects(Head(jobs), s) /\ SameMain

LEMMA WorkHasEffects ==
    ASSUME QueuesOK, TablesOK, QueuesInTime, Work
    PROVE  \E s : Worked(s)
<1>1. jobs # <<>> /\ IsSequence(jobs)
  BY DEF Work, QueuesOK
<1>2. 1 \in DOMAIN jobs /\ Head(jobs) = jobs[1]
  BY <1>1, TailOf
<1> DEFINE job == Head(jobs)
<1>3. JobOK(job) /\ (job.op = "resetAccount" => job.account # Me)
  BY <1>2 DEF QueuesOK, QueuesInTime, JobFollowed
<1>4. TrustWork(job) \/ OmemoWork(job) \/ UsersWork(job) \/ ReadWork(job)
  BY DEF Work
<1> HIDE DEF job
<1>5. PICK s : Effects(job, s)
  BY <1>3, <1>4, TrustEffects, OmemoEffects, UsersEffects, ReadEffects
<1>6. Worked(s)
  BY <1>1, <1>5 DEF Work, Worked, SameMain, job
<1> QED BY <1>6

LEMMA WorkedQueues ==
    ASSUME QueuesOK, NEW s, Worked(s)
    PROVE  /\ 1 \in DOMAIN jobs /\ Head(jobs) = jobs[1] /\ DOMAIN jobs \subseteq Nat
           /\ \A i \in DOMAIN jobs' : i \in Nat \ {0} /\ i + 1 \in DOMAIN jobs /\ jobs'[i] = jobs[i + 1]
           /\ \A i \in DOMAIN jobs : i = 1 \/ (i - 1 \in DOMAIN jobs' /\ jobs'[i - 1] = jobs[i])
           /\ DOMAIN events = 1..Len(events) /\ Len(events) \in Nat /\ DOMAIN events' \subseteq Nat
           /\ \A i \in DOMAIN events : i \in DOMAIN events' /\ events'[i] = events[i]
           /\ \A i \in DOMAIN s : Len(events) + i \in DOMAIN events' /\ events'[Len(events) + i] = s[i]
           /\ \A i \in DOMAIN events' :
                 \/ i \in DOMAIN events /\ events'[i] = events[i]
                 \/ i > Len(events) /\ i - Len(events) \in DOMAIN s /\ events'[i] = s[i - Len(events)]
<1>1. IsSequence(jobs) /\ jobs # <<>> /\ jobs' = Tail(jobs)
  BY DEF QueuesOK, Worked
<1>2. /\ Len(jobs) \in Nat \ {0} /\ DOMAIN jobs = 1..Len(jobs)
      /\ DOMAIN jobs' = 1..(Len(jobs) - 1)
      /\ \A i \in DOMAIN jobs' : i + 1 \in DOMAIN jobs /\ jobs'[i] = jobs[i + 1]
      /\ 1 \in DOMAIN jobs /\ Head(jobs) = jobs[1]
  BY <1>1, TailOf
<1>3. \A i \in DOMAIN jobs : i = 1 \/ (i - 1 \in DOMAIN jobs' /\ jobs'[i - 1] = jobs[i])
  BY <1>2
<1>4. IsSequence(events) /\ IsSequence(s) /\ events' = events \o s
  BY DEF QueuesOK, Worked, Effects
<1>5. /\ Len(events) \in Nat /\ DOMAIN events = 1..Len(events)
      /\ Len(s) \in Nat /\ DOMAIN s = 1..Len(s)
      /\ DOMAIN events' = 1..(Len(events) + Len(s))
      /\ \A i \in DOMAIN events : i \in DOMAIN events' /\ events'[i] = events[i]
      /\ \A i \in DOMAIN s : Len(events) + i \in DOMAIN events' /\ events'[Len(events) + i] = s[i]
      /\ \A i \in DOMAIN events' :
            \/ i \in DOMAIN events /\ events'[i] = events[i]
            \/ i > Len(events) /\ i - Len(events) \in DOMAIN s /\ events'[i] = s[i - Len(events)]
  BY <1>4, Joined
<1> QED BY <1>2, <1>3, <1>5

LEMMA SameViews ==
    ASSUME UNCHANGED <<watched, listed, open, detailed>>
    PROVE  \A v : Jids(v)' = Jids(v) /\ (Shown(v)' <=> Shown(v))
<1>1. ListedJids' = ListedJids
  BY DEF ListedJids
<1>2. ASSUME NEW v PROVE Jids(v)' = Jids(v)
  BY <1>1 DEF Jids
<1>3. ASSUME NEW v PROVE Shown(v)' <=> Shown(v)
  BY DEF Shown
<1> QED BY <1>2, <1>3

LEMMA SameAsking ==
    ASSUME UNCHANGED <<watched, listed, open, detailed>>, DOMAIN memory'.devices = DOMAIN memory.devices
    PROVE  /\ \A v, job : JobAsks(job, v)' <=> JobAsks(job, v)
           /\ \A v, event : EventAsks(event, v)' <=> EventAsks(event, v)
<1>1. \A v : Jids(v)' = Jids(v) /\ (Shown(v)' <=> Shown(v))
  BY SameViews
<1>2. ASSUME NEW K, NEW D PROVE Notified(K, D)' = Notified(K, D)
  BY <1>1 DEF Notified
<1>3. ASSUME NEW v, NEW job PROVE JobAsks(job, v)' <=> JobAsks(job, v)
  BY <1>1 DEF JobAsks
<1>4. ASSUME NEW v, NEW event PROVE EventAsks(event, v)' <=> EventAsks(event, v)
  BY <1>2 DEF EventAsks
<1> QED BY <1>3, <1>4

LEMMA WorkedViews ==
    ASSUME NEW s, Worked(s)
    PROVE  /\ UNCHANGED <<watched, listed, open, detailed, shown, memory, isLoaded, isReset>>
           /\ \A v : Jids(v)' = Jids(v) /\ (Shown(v)' <=> Shown(v))
           /\ \A v, job : JobAsks(job, v)' <=> JobAsks(job, v)
           /\ \A v, event : EventAsks(event, v)' <=> EventAsks(event, v)
<1>1. UNCHANGED <<watched, listed, open, detailed, shown, memory, isLoaded, isReset>>
  BY DEF Worked, SameMain, managerVars, chatVars, viewVars
<1> QED BY <1>1, SameViews, SameAsking

LEMMA WorkStillLoading ==
    ASSUME EncryptionInv, Work
    PROVE  Loading' <=> Loading
<1>1. PICK s : Done(s)
  BY WorkIsDone DEF EncryptionInv
<1> QED BY <1>1, WorkLoading DEF EncryptionInv

LEMMA WorkStillResetting ==
    ASSUME QueuesOK, NEW s, Worked(s), Loading' <=> Loading, Resetting
    PROVE  Resetting'
<1>1. CASE \E i \in DOMAIN jobs : jobs[i].op = "report all"
  <2>1. PICK i \in DOMAIN jobs : jobs[i].op = "report all"
    BY <1>1
  <2>2. CASE i = 1
    <3> DEFINE job == jobs[1]
    <3>1. job.op = "report all" /\ Effects(job, s)
      BY <2>1, <2>2, WorkedQueues DEF Worked
    <3>2. 1 \in DOMAIN s /\ s[1].kind \notin UserKinds /\ EventOf(job, s[1])
      BY <3>1 DEF Effects, AnsweredOps
    <3>3. s[1].kind = "reset"
      BY <3>1, <3>2 DEF EventOf
    <3>4. Len(events) + 1 \in DOMAIN events' /\ events'[Len(events) + 1] = s[1]
      BY <3>2, WorkedQueues
    <3> QED BY <3>3, <3>4 DEF Resetting
  <2>3. CASE i # 1
    <3>1. i - 1 \in DOMAIN jobs' /\ jobs'[i - 1] = jobs[i]
      BY <2>3, WorkedQueues
    <3> QED BY <2>1, <3>1 DEF Resetting
  <2> QED BY <2>2, <2>3
<1>2. CASE \E i \in DOMAIN events : events[i].kind = "reset"
  BY <1>2, WorkedQueues DEF Resetting
<1>3. CASE isReset /\ ~isLoaded /\ ~Loading
  BY <1>3, WorkedViews DEF Resetting
<1> QED BY <1>1, <1>2, <1>3 DEF Resetting

LEMMA WorkJobsInTime ==
    ASSUME QueuesOK, QueuesInTime, NEW s, Worked(s), Loading' <=> Loading
    PROVE  \A i \in DOMAIN jobs' : JobFollowed(i)'
<1> SUFFICES ASSUME NEW i \in DOMAIN jobs' PROVE JobFollowed(i)'
  OBVIOUS
<1>1. /\ i \in Nat \ {0} /\ i + 1 \in DOMAIN jobs /\ jobs'[i] = jobs[i + 1]
      /\ \A j \in DOMAIN jobs : j > i + 1 => j - 1 > i /\ j - 1 \in DOMAIN jobs' /\ jobs'[j - 1] = jobs[j]
  BY WorkedQueues
<1>2. JobFollowed(i + 1)
  BY <1>1 DEF QueuesInTime
<1>3. isReset' = isReset /\ \A v : Jids(v)' = Jids(v)
  BY WorkedViews
<1> DEFINE job == jobs[i + 1]
<1>4. job.op # "allData"
  <2>1. SUFFICES ASSUME jobs = <<job>> PROVE FALSE
    BY <1>2 DEF JobFollowed
  <2>2. DOMAIN <<job>> = {1}
    BY OneElement
  <2>3. DOMAIN jobs = {1}
    BY <2>1, <2>2
  <2> QED BY <1>1, <2>3
<1>5. ASSUME NEW op, \E j \in DOMAIN jobs : j > i + 1 /\ jobs[j].op = op
      PROVE  \E j \in DOMAIN jobs' : j > i /\ jobs'[j].op = op
  BY <1>1, <1>5
<1>6. ASSUME job.op = "removeKeys"
      PROVE  \E j \in DOMAIN jobs' : j > i /\ jobs'[j].op = "report" /\ job.owners \subseteq jobs'[j].jids
  <2>1. PICK j \in DOMAIN jobs : j > i + 1 /\ jobs[j].op = "report" /\ job.owners \subseteq jobs[j].jids
    BY <1>2, <1>6 DEF JobFollowed
  <2> QED BY <1>1, <2>1
<1>7. ASSUME job.op = "addKeys", job.store = store
      PROVE  \E j \in DOMAIN jobs' : j > i /\ jobs'[j].op = "report" /\ job.owner \in jobs'[j].jids
  <2>1. PICK j \in DOMAIN jobs : j > i + 1 /\ jobs[j].op = "report" /\ job.owner \in jobs[j].jids
    BY <1>2, <1>7 DEF JobFollowed
  <2> QED BY <1>1, <2>1
<1>8. ASSUME job.op = "resetTrust"
      PROVE  \E j \in DOMAIN jobs' : j > i /\ jobs'[j].op = "report all"
  BY <1>2, <1>5, <1>8 DEF JobFollowed
<1>9. /\ job.op \in {"removeKeys", "setTrustLevel", "setTrustLevels", "resetTrust", "report", "labels"} =>
             ~Loading
      /\ job.op = "addKeys" /\ job.store = store =>
             ~Loading /\ job.level \in {"AutomaticallyTrusted", "AutomaticallyDistrusted"}
      /\ job.op = "resetAccount" => job.account # Me
      /\ job.op = "report all" => isReset /\ ~Loading
      /\ job.op = "query" => \A v \in DOMAIN job.jids : v \in Views /\ job.jids[v] = Jids(v)
  BY <1>2 DEF JobFollowed
<1>10. store' = store /\ jobs'[i] = job
  BY <1>1 DEF store
<1> HIDE DEF job
<1> QED BY <1>3, <1>4, <1>6, <1>7, <1>8, <1>9, <1>10 DEF JobFollowed

LEMMA WorkHead ==
    ASSUME QueuesOK, QueuesInTime, NEW s, Worked(s)
    PROVE  /\ JobFollowed(1) /\ jobs[1] = Head(jobs)
           /\ KeysAfter(jobs[1], s) /\ \A i \in DOMAIN s : EventOf(jobs[1], s[i])
           /\ jobs[1].op \in AnsweredOps => DOMAIN s = {1} /\ s[1].kind \notin UserKinds
BY WorkedQueues DEF QueuesInTime, Worked, Effects

LEMMA LoadingKeepsKeys ==
    ASSUME QueuesOK, QueuesInTime, NEW s, Worked(s), Loading
    PROVE  \A U : KeysOfUsers(U)' = KeysOfUsers(U)
<1>1. /\ JobFollowed(1) /\ KeysAfter(jobs[1], s) /\ \A i \in DOMAIN s : EventOf(jobs[1], s[i])
  BY WorkHead
<1>2. /\ jobs[1].op \notin {"removeKeys", "setTrustLevel", "setTrustLevels", "resetTrust"}
      /\ jobs[1].op = "addKeys" => jobs[1].store # store
  BY <1>1 DEF JobFollowed
<1>3. ~(1 \in DOMAIN s /\ s[1].kind = "levels")
  BY <1>1, <1>2 DEF EventOf, UserKinds
<1> QED BY <1>1, <1>2, <1>3 DEF KeysAfter

LEMMA WorkEventsInTime ==
    ASSUME QueuesOK, QueuesInTime, NEW s, Worked(s), Loading' <=> Loading
    PROVE  \A i \in DOMAIN events' : EventInTime(i)'
<1> SUFFICES ASSUME NEW i \in DOMAIN events' PROVE EventInTime(i)'
  OBVIOUS
<1>1. isReset' = isReset
  BY WorkedViews
<1>2. Loading => \A U : KeysOfUsers(U)' = KeysOfUsers(U)
  BY LoadingKeepsKeys
<1>3. CASE i \in DOMAIN events /\ events'[i] = events[i]
  <2> DEFINE e == events[i]
  <2>1. EventInTime(i)
    BY <1>3 DEF QueuesInTime
  <2>2. /\ e.kind = "loaded" => i = 1
        /\ e.kind \in {"levels", "devices", "labels"} => ~Loading
        /\ e.kind = "reset" => isReset /\ ~Loading
        /\ e.kind = "queried" =>
              /\ DOMAIN e.jids \subseteq Views
              /\ Loading => \A v \in DOMAIN e.jids : e.levels[v] = KeysOfUsers(e.jids[v])
    BY <2>1 DEF EventInTime
  <2>3. e.kind = "queried" /\ Loading => \A v \in DOMAIN e.jids : e.levels[v] = KeysOfUsers(e.jids[v])'
    <3> SUFFICES ASSUME e.kind = "queried", Loading, NEW v \in DOMAIN e.jids
                 PROVE  e.levels[v] = KeysOfUsers(e.jids[v])'
      OBVIOUS
    <3> DEFINE U == e.jids[v]
    <3>1. PICK W : W = U
      OBVIOUS
    <3>2. e.levels[v] = KeysOfUsers(W) /\ KeysOfUsers(W)' = KeysOfUsers(W)
      BY <1>2, <2>2, <3>1
    <3> QED BY <1>3, <3>1, <3>2
  <2> QED BY <1>1, <1>3, <2>2, <2>3 DEF EventInTime
<1>4. CASE i > Len(events) /\ i - Len(events) \in DOMAIN s /\ events'[i] = s[i - Len(events)]
  <2> DEFINE job == jobs[1]
             e == s[i - Len(events)]
  <2>1. /\ JobFollowed(1) /\ EventOf(job, e)
        /\ job.op \in AnsweredOps => DOMAIN s = {1}
    BY <1>4, WorkHead
  <2>2. /\ job.op \in {"setTrustLevel", "setTrustLevels", "report", "labels"} => ~Loading
        /\ job.op = "report all" => isReset /\ ~Loading
        /\ job.op = "query" => \A v \in DOMAIN job.jids : v \in Views
        /\ job.op = "allData" => events = <<>>
    BY <2>1 DEF JobFollowed
  <2>3. e.kind = "loaded" => i = 1
    <3> SUFFICES ASSUME e.kind = "loaded" PROVE i = 1
      OBVIOUS
    <3>1. job.op = "allData"
      BY <2>1 DEF EventOf, UserKinds
    <3>2. events = <<>> /\ DOMAIN s = {1}
      BY <2>1, <2>2, <3>1 DEF AnsweredOps
    <3>3. Len(events) = 0 /\ i - Len(events) = 1
      BY <1>4, <3>2
    <3> QED BY <3>3, WorkedQueues
  <2>4. /\ e.kind \in {"levels", "devices", "labels"} => ~Loading
        /\ e.kind = "reset" => isReset /\ ~Loading
    BY <2>1, <2>2 DEF EventOf, UserKinds
  <2>5. e.kind = "queried" => /\ DOMAIN e.jids \subseteq Views
                              /\ \A v \in DOMAIN e.jids : e.levels[v] = KeysOfUsers(e.jids[v])
    <3> SUFFICES ASSUME e.kind = "queried"
                 PROVE  /\ DOMAIN e.jids \subseteq Views
                        /\ \A v \in DOMAIN e.jids : e.levels[v] = KeysOfUsers(e.jids[v])
      OBVIOUS
    <3>1. /\ job.op = "query" /\ e.jids = job.jids
          /\ \A v \in DOMAIN job.jids : e.levels[v] = KeysOfUsers(job.jids[v])
      BY <2>1 DEF EventOf, UserKinds
    <3> QED BY <2>2, <3>1
  <2>6. e.kind = "queried" /\ Loading =>
            \A v \in DOMAIN e.jids : e.levels[v] = KeysOfUsers(events[i].jids[v])'
    <3> SUFFICES ASSUME e.kind = "queried", Loading, NEW v \in DOMAIN e.jids
                 PROVE  e.levels[v] = KeysOfUsers(events[i].jids[v])'
      OBVIOUS
    <3>1. PICK W : W = e.jids[v]
      OBVIOUS
    <3>2. e.levels[v] = KeysOfUsers(W) /\ KeysOfUsers(W)' = KeysOfUsers(W)
      BY <1>2, <2>5, <3>1
    <3>3. events'[i].jids[v] = W
      BY <1>4, <3>1
    <3> QED BY <1>4, <3>1, <3>2, <3>3
  <2> QED BY <1>1, <1>4, <2>3, <2>4, <2>5, <2>6 DEF EventInTime
<1> QED BY <1>3, <1>4, WorkedQueues

\* What a view may show, it may go on showing.
Keeps(v) == \A x : Accepts(v, Jids(v), Current(v), x) => Accepts(v, Jids(v)', Current(v)', x)

LEMMA SameCurrent ==
    ASSUME NEW v, NEW U, U = Jids(v), U = Jids(v)', DOMAIN memory'.devices = DOMAIN memory.devices,
           KeysOfUsers(U)' = KeysOfUsers(U)
    PROVE  Current(v)' = Current(v) /\ Keeps(v)
<1>1. Current(v)' = Current(v)
  BY DEF Current
<1> QED BY <1>1 DEF Keeps

\* Keys of a generator's user are received or removed.
LEMMA GeneratorKeeps ==
    ASSUME NEW v \in Generators, NEW U, U = Jids(v), U = Jids(v)',
           FewerDecided(KeysOfUsers(U), KeysOfUsers(U)')
    PROVE  Keeps(v)
<1> DEFINE l == KeysOfUsers(U)
           m == KeysOfUsers(U)'
<1>1. Current(v) = ViewOf(v, DOMAIN memory.devices, U, l)
  BY DEF Current
<1>2. Current(v)' = ViewOf(v, DOMAIN memory'.devices, U, m)
  BY DEF Current
<1> HIDE DEF l, m
<1>3. FewerDecided(l, m)
  BY DEF l, m
<1>4. ASSUME NEW x, Accepts(v, Jids(v), Current(v), x) PROVE Accepts(v, Jids(v)', Current(v)', x)
  BY <1>1, <1>2, <1>3, <1>4, FewerAccepted
<1> QED BY <1>4 DEF Keeps

\* A view is asked to update itself when the levels of its devices or keys change.
LEMMA LevelsAsk ==
    ASSUME NEW v \in Views, Shown(v), NEW U, U = Jids(v), U = Jids(v)',
           DOMAIN memory'.devices = DOMAIN memory.devices,
           NEW q, NEW l, NEW e, e.kind = "levels",
           keys' = Upserted(keys, [r \in Row(q, e.keys) |-> l])
    PROVE  EventAsks(e, v) \/ Keeps(v)
<1> DEFINE D == DOMAIN memory.devices
<1> SUFFICES ASSUME v \notin Notified({k[1] : k \in e.keys}, {d[1] : d \in D \cap e.keys})
             PROVE  Keeps(v)
  BY DEF EventAsks
<1>1. CASE v \in OnKeys
  <2> DEFINE K == {k[1] : k \in e.keys}
  <2>0. Jids(v) \cap K = {}
    BY <1>1 DEF Notified
  <2>1. \A k \in e.keys : k[1] \notin U
    BY <2>0
  <2>2. \A k \in U \X Keys : k \notin e.keys
    BY <2>1
  <2>3. KeysOfUsers(U)' = KeysOfUsers(U)
    BY <2>2, UpsertedElsewhere
  <2> QED BY <2>3, SameCurrent
<1>2. CASE v \notin OnKeys
  <2>1. v \in OnDevices
    BY <1>2 DEF OnKeys, OnDevices
  <2>2. \A d \in D : d[1] \in U => d \notin e.keys
    BY <2>1 DEF Notified
  <2> DEFINE old == KeysOfUsers(U)
             new == KeysOfUsers(U)'
  <2>3. ASSUME NEW d \in D, d[1] \in U
        PROVE  /\ d \in DOMAIN old <=> d \in DOMAIN new
               /\ d \in DOMAIN old => old[d] = new[d]
    <3>1. <<store, d>> \notin Row(q, e.keys)
      BY <2>2, <2>3 DEF Row
    <3>2. /\ DOMAIN keys' = DOMAIN keys \cup Row(q, e.keys)
          /\ \A r \in DOMAIN keys : r \notin Row(q, e.keys) => keys'[r] = keys[r]
      BY DEF Upserted
    <3>3. <<store, d>> \in DOMAIN keys' <=> <<store, d>> \in DOMAIN keys
      BY <3>1, <3>2
    <3>4. <<store, d>> \in DOMAIN keys => keys'[<<store, d>>] = keys[<<store, d>>]
      BY <3>1, <3>2
    <3>5. d \in DOMAIN old <=> d \in DOMAIN new
      BY <3>3, LevelsOfUsers, LevelsOfUsersNext
    <3>6. ASSUME d \in DOMAIN old PROVE old[d] = new[d]
      <4>1. old[d] = keys[<<store, d>>] /\ <<store, d>> \in DOMAIN keys
        BY <3>6, LevelsOfUsers
      <4>2. new[d] = keys'[<<store, d>>]
        BY <3>5, <3>6, LevelsOfUsersNext
      <4> QED BY <3>4, <4>1, <4>2
    <3> QED BY <3>5, <3>6
  <2>4. Current(v) = ViewOf(v, D, U, old)
    BY DEF Current
  <2>5. Current(v)' = ViewOf(v, D, U, new)
    BY DEF Current
  <2> HIDE DEF old, new, D
  <2>6. ViewOf(v, D, U, old) = ViewOf(v, D, U, new)
    BY <1>2, <2>3, ViewOfLevels
  <2> QED BY <2>4, <2>5, <2>6 DEF Keeps
<1> QED BY <1>1, <1>2

\* A report that is queued behind a change of the keys of some users asks their views.
LEMMA ReportAsks ==
    ASSUME QueuesOK, NEW s, Worked(s), NEW v, v \in OnDevices, NEW j \in DOMAIN jobs, j > 1,
           jobs[j].op = "report", jobs[j].jids \cap Jids(v) # {}
    PROVE  Asked(v)'
<1> PICK job : job = jobs[j]
  OBVIOUS
<1>1. j - 1 \in DOMAIN jobs' /\ jobs'[j - 1] = job
  BY WorkedQueues
<1>2. JobAsks(job, v)
  BY DEF JobAsks
<1>3. JobAsks(job, v)'
  BY <1>2, WorkedViews
<1>4. \E i \in DOMAIN jobs' : JobAsks(jobs[i], v)'
  <2>1. JobAsks(jobs[j - 1], v)'
    BY <1>1, <1>3 DEF JobAsks
  <2> QED BY <1>1, <2>1
<1> QED BY <1>4 DEF Asked

LEMMA LaterJob ==
    ASSUME QueuesOK, NEW s, Worked(s), NEW j \in DOMAIN jobs, j > 1
    PROVE  \E i \in DOMAIN jobs' : jobs'[i] = jobs[j]
<1>1. j - 1 \in DOMAIN jobs' /\ jobs'[j - 1] = jobs[j]
  BY WorkedQueues
<1> QED BY <1>1

LEMMA WorkKeepsView ==
    ASSUME QueuesOK, QueuesInTime, NEW s, Worked(s), NEW v \in Views, Shown(v)
    PROVE  Keeps(v) \/ Asked(v)' \/ Resetting'
<1> PICK U : U = Jids(v)
  OBVIOUS
<1> PICK job : job = jobs[1]
  OBVIOUS
<1>1. U = Jids(v)' /\ DOMAIN memory'.devices = DOMAIN memory.devices
  BY WorkedViews
<1>2. JobFollowed(1) /\ KeysAfter(job, s)
  BY WorkHead
<1>3. v \in Generators \/ v \in OnDevices
  BY DEF OnDevices
<1>4. ASSUME KeysOfUsers(U)' = KeysOfUsers(U) PROVE Keeps(v)
  BY <1>1, <1>4, SameCurrent
<1>5. CASE \A W : KeysOfUsers(W)' = KeysOfUsers(W)
  BY <1>4, <1>5
<1>6. CASE /\ job.op = "addKeys" /\ job.store = store
           /\ AddKeys(store, job.owner, job.keys, job.level)
  <2>1. /\ job.level \in {"AutomaticallyTrusted", "AutomaticallyDistrusted"}
        /\ \E j \in DOMAIN jobs : j > 1 /\ jobs[j].op = "report" /\ job.owner \in jobs[j].jids
    BY <1>2, <1>6 DEF JobFollowed
  <2>2. CASE job.owner \notin U
    BY <1>4, <1>6, <2>2, AddedElsewhere
  <2>3. CASE v \in Generators
    <3>1. FewerDecided(KeysOfUsers(U), KeysOfUsers(U)')
      BY <1>6, <2>1, AddKeysDecided
    <3> QED BY <1>1, <2>3, <3>1, GeneratorKeeps
  <2>4. CASE job.owner \in U /\ v \in OnDevices
    <3>1. PICK j \in DOMAIN jobs : j > 1 /\ jobs[j].op = "report" /\ job.owner \in jobs[j].jids
      BY <2>1
    <3>2. jobs[j].jids \cap Jids(v) # {}
      BY <2>4, <3>1
    <3> QED BY <2>4, <3>1, <3>2, ReportAsks
  <2> QED BY <1>3, <2>2, <2>3, <2>4
<1>7. CASE /\ job.op = "removeKeys"
           /\ keys' = Without(keys, Row(job.store, job.owners \X job.keys))
  <2>1. \E j \in DOMAIN jobs : j > 1 /\ jobs[j].op = "report" /\ job.owners \subseteq jobs[j].jids
    BY <1>2, <1>7 DEF JobFollowed
  <2>2. CASE job.owners \cap U = {}
    <3>1. \A k \in U \X Keys : k \notin job.owners \X job.keys
      BY <2>2
    <3> QED BY <1>4, <1>7, <3>1, RemovedElsewhere
  <2>3. CASE v \in Generators
    <3>1. FewerDecided(KeysOfUsers(U), KeysOfUsers(U)')
      BY <1>7, RemovedDecided
    <3> QED BY <1>1, <2>3, <3>1, GeneratorKeeps
  <2>4. CASE job.owners \cap U # {} /\ v \in OnDevices
    <3>1. PICK j \in DOMAIN jobs : j > 1 /\ jobs[j].op = "report" /\ job.owners \subseteq jobs[j].jids
      BY <2>1
    <3>2. jobs[j].jids \cap Jids(v) # {}
      BY <2>4, <3>1
    <3> QED BY <2>4, <3>1, <3>2, ReportAsks
  <2> QED BY <1>3, <2>2, <2>3, <2>4
<1>8. CASE job.op = "resetTrust"
  <2>1. PICK j \in DOMAIN jobs : j > 1 /\ jobs[j].op = "report all"
    BY <1>2, <1>8 DEF JobFollowed
  <2>2. PICK i \in DOMAIN jobs' : jobs'[i] = jobs[j]
    BY <2>1, LaterJob
  <2> QED BY <2>1, <2>2 DEF Resetting
<1>9. CASE /\ 1 \in DOMAIN s /\ s[1].kind = "levels"
           /\ \E q, l : keys' = Upserted(keys, [r \in Row(q, s[1].keys) |-> l])
  <2> PICK e : e = s[1]
    OBVIOUS
  <2>1. PICK q, l : keys' = Upserted(keys, [r \in Row(q, e.keys) |-> l])
    BY <1>9
  <2>2. EventAsks(e, v) \/ Keeps(v)
    BY <1>1, <1>9, <2>1, LevelsAsk
  <2>3. ASSUME EventAsks(e, v) PROVE Asked(v)'
    <3>1. EventAsks(e, v)'
      BY <2>3, WorkedViews
    <3>2. Len(events) + 1 \in DOMAIN events' /\ events'[Len(events) + 1] = e
      BY <1>9, WorkedQueues
    <3>3. \E i \in DOMAIN events' : EventAsks(events[i], v)'
      <4> DEFINE i == Len(events) + 1
      <4>1. PICK n : n = i
        OBVIOUS
      <4>2. n \in DOMAIN events' /\ events'[n] = e
        BY <3>2, <4>1
      <4>3. EventAsks(events[n], v)'
        BY <3>1, <4>2
      <4> QED BY <4>2, <4>3
    <3> QED BY <3>3 DEF Asked
  <2> QED BY <2>2, <2>3
<1> QED BY <1>2, <1>5, <1>6, <1>7, <1>8, <1>9 DEF KeysAfter

\* What asks a view to update itself stays or is followed by an event that does.
LEMMA WorkStillAsked ==
    ASSUME QueuesOK, NEW s, Worked(s), NEW v \in Views, Shown(v), Asked(v),
           jobs[1].op \in AnsweredOps => DOMAIN s = {1} /\ s[1].kind \notin UserKinds,
           \A i \in DOMAIN s : EventOf(jobs[1], s[i])
    PROVE  Asked(v)'
<1>1. ASSUME NEW i \in DOMAIN jobs, i # 1, JobAsks(jobs[i], v)
      PROVE  \E j \in DOMAIN jobs' : JobAsks(jobs[j], v)'
  <2> PICK job : job = jobs[i]
    OBVIOUS
  <2>1. i - 1 \in DOMAIN jobs' /\ jobs'[i - 1] = job
    BY <1>1, WorkedQueues
  <2>2. JobAsks(job, v)'
    BY <1>1, WorkedViews
  <2>3. PICK n : n = i - 1
    OBVIOUS
  <2>4. JobAsks(jobs[n], v)'
    BY <2>1, <2>2, <2>3
  <2> QED BY <2>1, <2>3, <2>4
<1>2. ASSUME NEW i \in DOMAIN events, EventAsks(events[i], v)
      PROVE  \E j \in DOMAIN events' : EventAsks(events[j], v)'
  <2> PICK e : e = events[i]
    OBVIOUS
  <2>1. i \in DOMAIN events' /\ events'[i] = e
    BY WorkedQueues
  <2>2. EventAsks(e, v)'
    BY <1>2, WorkedViews
  <2>3. EventAsks(events[i], v)'
    BY <2>1, <2>2
  <2> QED BY <2>1, <2>3
<1>3. ASSUME JobAsks(jobs[1], v) PROVE \E j \in DOMAIN events' : EventAsks(events[j], v)'
  <2> PICK job : job = jobs[1]
    OBVIOUS
  <2> PICK e : e = s[1]
    OBVIOUS
  <2>1. job.op \in {"report", "ownKey"}
    BY <1>3 DEF JobAsks
  <2>2. 1 \in DOMAIN s /\ e.kind \notin UserKinds /\ EventOf(job, e)
    BY <2>1 DEF AnsweredOps
  <2>3. /\ job.op = "report" => e.kind = "devices" /\ e.jids = job.jids
        /\ job.op = "ownKey" => e.kind = "ownKey"
    BY <2>2 DEF EventOf
  <2>4. job.op = "report" => v \in Notified({}, e.jids)
    BY <1>3, <2>3 DEF JobAsks, Notified
  <2>5. EventAsks(e, v)
    BY <1>3, <2>3, <2>4 DEF JobAsks, EventAsks
  <2>6. EventAsks(e, v)'
    BY <2>5, WorkedViews
  <2>7. PICK n : n = Len(events) + 1
    OBVIOUS
  <2>8. n \in DOMAIN events' /\ events'[n] = e
    BY <2>2, <2>7, WorkedQueues
  <2>9. EventAsks(events[n], v)'
    BY <2>6, <2>8
  <2> QED BY <2>8, <2>9
<1> QED BY <1>1, <1>2, <1>3 DEF Asked

\* What is right stays right while the view keeps what it may show.
LEMMA WorkStillRight ==
    ASSUME QueuesOK, NEW s, Worked(s), NEW v, Keeps(v)
    PROVE  /\ RightAt(v) \subseteq RightAt(v)' /\ RightLabelsAt(v) \subseteq RightLabelsAt(v)'
           /\ AnswersAt(v) \subseteq AnswersAt(v)' /\ LabelsAt(v) \subseteq LabelsAt(v)'
<1>1. memory' = memory /\ Jids(v)' = Jids(v)
  BY WorkedViews
<1>2. AnswersAt(v) \subseteq AnswersAt(v)' /\ LabelsAt(v) \subseteq LabelsAt(v)'
  BY WorkedQueues DEF AnswersAt, LabelsAt
<1>3. ASSUME NEW i \in RightAt(v) PROVE i \in RightAt(v)'
  <2> PICK e : e = events[i]
    OBVIOUS
  <2>1. i \in AnswersAt(v) /\ i \in DOMAIN events
    BY DEF RightAt, AnswersAt
  <2>2. i \in AnswersAt(v)' /\ events'[i] = e
    BY <1>2, <2>1, WorkedQueues
  <2> PICK x : x = ViewOf(v, DOMAIN memory.devices, Jids(v), e.levels[v])
    OBVIOUS
  <2>3. Accepts(v, Jids(v), Current(v), x)
    BY DEF RightAt
  <2>4. Accepts(v, Jids(v)', Current(v)', x)
    BY <2>3 DEF Keeps
  <2>5. x = ViewOf(v, DOMAIN memory'.devices, Jids(v)', events'[i].levels[v])
    BY <1>1, <2>2
  <2>6. events'[i].jids[v] = Jids(v)'
    BY <1>1, <2>2 DEF RightAt
  <2> QED BY <2>2, <2>4, <2>5, <2>6 DEF RightAt
<1>4. ASSUME NEW i \in RightLabelsAt(v) PROVE i \in RightLabelsAt(v)'
  <2> PICK x : x = events[i].keys
    OBVIOUS
  <2>1. i \in LabelsAt(v) /\ i \in DOMAIN events
    BY DEF RightLabelsAt, LabelsAt
  <2>2. i \in LabelsAt(v)' /\ events'[i].keys = x
    BY <1>2, <2>1, WorkedQueues
  <2>3. Accepts(v, Jids(v), Current(v), x)
    BY DEF RightLabelsAt
  <2>4. Accepts(v, Jids(v)', Current(v)', x)
    BY <2>3 DEF Keeps
  <2> QED BY <2>2, <2>4 DEF RightLabelsAt
<1> QED BY <1>2, <1>3, <1>4

\* The last of all results is a new one.
LEMMA NewEnds ==
    ASSUME QueuesOK, NEW s, Worked(s), DOMAIN s = {1}, NEW all, all \subseteq DOMAIN events', NEW right,
           Len(events) + 1 \in right
    PROVE  Ends(all, right)
<1> PICK n : n = Len(events) + 1
  OBVIOUS
<1>1. \A i \in DOMAIN events' : n >= i
  <2> SUFFICES ASSUME NEW i \in DOMAIN events' PROVE n >= i
    OBVIOUS
  <2>1. CASE i \in DOMAIN events
    BY <2>1, WorkedQueues
  <2>2. CASE i > Len(events) /\ i - Len(events) \in DOMAIN s
    <3>1. i - Len(events) = 1 /\ i \in Nat /\ Len(events) \in Nat
      BY <2>2, WorkedQueues
    <3> QED BY <3>1
  <2> QED BY <2>1, <2>2, WorkedQueues
<1> QED BY <1>1 DEF Ends

\* The job that is done is a query of the view.
LEMMA WorkAnswers ==
    ASSUME QueuesOK, QueuesInTime, NEW s, Worked(s), NEW v, Keeps(v),
           jobs[1].op = "query", v \in DOMAIN jobs[1].jids
    PROVE  LastAnswerRight(v)' /\ RightAt(v)' # {}
<1> PICK job : job = jobs[1]
  OBVIOUS
<1> PICK e : e = s[1]
  OBVIOUS
<1> PICK n : n = Len(events) + 1
  OBVIOUS
<1> PICK U : U = Jids(v)
  OBVIOUS
<1> PICK l : l = KeysOfUsers(U)
  OBVIOUS
<1>1. DOMAIN s = {1} /\ e.kind \notin UserKinds /\ EventOf(job, e)
  BY WorkHead DEF AnsweredOps
<1>2. e.kind = "queried" /\ e.jids = job.jids /\ e.levels[v] = KeysOfUsers(job.jids[v])
  BY <1>1 DEF EventOf
<1>3. job.jids[v] = U
  BY WorkHead DEF JobFollowed
<1>4. n \in DOMAIN events' /\ events'[n] = e
  BY <1>1, WorkedQueues
<1>5. n \in AnswersAt(v)'
  BY <1>2, <1>4 DEF AnswersAt
<1> PICK x : x = ViewOf(v, DOMAIN memory.devices, U, l)
  OBVIOUS
<1>6. Current(v) = x
  BY DEF Current
<1>7. Accepts(v, Jids(v), Current(v), x)
  BY <1>6, ShownIsAccepted
<1>8. Accepts(v, Jids(v)', Current(v)', x)
  BY <1>7 DEF Keeps
<1>9. memory' = memory /\ Jids(v)' = U
  BY WorkedViews
<1>10. events'[n].jids[v] = Jids(v)' /\ events'[n].levels[v] = l
  BY <1>2, <1>3, <1>4, <1>9
<1>11. x = ViewOf(v, DOMAIN memory'.devices, Jids(v)', events'[n].levels[v])
  BY <1>9, <1>10
<1>12. n \in RightAt(v)'
  BY <1>5, <1>8, <1>10, <1>11 DEF RightAt
<1>13. AnswersAt(v)' \subseteq DOMAIN events'
  BY DEF AnswersAt
<1>14. Ends(AnswersAt(v)', RightAt(v)')
  BY <1>1, <1>12, <1>13, NewEnds
<1> QED BY <1>12, <1>14 DEF LastAnswerRight, Ends

LEMMA WorkStillAnswered ==
    ASSUME QueuesOK, QueuesInTime, NEW s, Worked(s), NEW v, Keeps(v), LastAnswerRight(v)
    PROVE  /\ LastAnswerRight(v)'
           /\ Answered(v) => Answered(v)'
<1>1. CASE jobs[1].op = "query" /\ v \in DOMAIN jobs[1].jids
  BY <1>1, WorkAnswers DEF Answered
<1>2. CASE ~(jobs[1].op = "query" /\ v \in DOMAIN jobs[1].jids)
  <2>1. AnswerQueued(v) => AnswerQueued(v)'
    <3> SUFFICES ASSUME NEW i \in DOMAIN jobs, jobs[i].op = "query", v \in DOMAIN jobs[i].jids
                 PROVE  AnswerQueued(v)'
      BY DEF AnswerQueued
    <3>1. i # 1
      BY <1>2
    <3>2. i - 1 \in DOMAIN jobs' /\ jobs'[i - 1] = jobs[i]
      BY <3>1, WorkedQueues
    <3> QED BY <3>2 DEF AnswerQueued
  <2>2. AnswersAt(v)' \subseteq AnswersAt(v)
    <3> SUFFICES ASSUME NEW i \in DOMAIN events', events'[i].kind = "queried", v \in DOMAIN events'[i].jids
                 PROVE  i \in AnswersAt(v)
      BY DEF AnswersAt
    <3>1. CASE i \in DOMAIN events /\ events'[i] = events[i]
      BY <3>1 DEF AnswersAt
    <3>2. CASE i > Len(events) /\ i - Len(events) \in DOMAIN s /\ events'[i] = s[i - Len(events)]
      <4>1. EventOf(jobs[1], events'[i])
        BY <3>2, WorkHead
      <4> QED BY <1>2, <4>1 DEF EventOf, UserKinds
    <3> QED BY <3>1, <3>2, WorkedQueues
  <2>3. RightAt(v) \subseteq RightAt(v)'
    BY WorkStillRight
  <2>4. Ends(AnswersAt(v), RightAt(v)) => Ends(AnswersAt(v)', RightAt(v)')
    BY <2>2, <2>3 DEF Ends
  <2>5. LastAnswerRight(v)'
    BY <2>1, <2>4 DEF LastAnswerRight, Ends
  <2> QED BY <2>1, <2>3, <2>5 DEF Answered
<1> QED BY <1>1, <1>2

\* The job that is done queried the labels of the view.
LEMMA WorkLabels ==
    ASSUME QueuesOK, QueuesInTime, NEW s, Worked(s), NEW v, Keeps(v), LastLabelsRight(v),
           v = "authenticated keys", jobs[1].op = "labels"
    PROVE  Ends(LabelsAt(v)', RightLabelsAt(v)') /\ RightLabelsAt(v)' # {}
<1> PICK job : job = jobs[1]
  OBVIOUS
<1> PICK e : e = s[1]
  OBVIOUS
<1> PICK n : n = Len(events) + 1
  OBVIOUS
<1> PICK x : x = job.keys
  OBVIOUS
<1>1. DOMAIN s = {1} /\ e.kind \notin UserKinds /\ EventOf(job, e)
  BY WorkHead DEF AnsweredOps
<1>2. e.kind = "labels" /\ e.keys = x
  BY <1>1 DEF EventOf
<1>3. n \in DOMAIN events' /\ events'[n] = e
  BY <1>1, WorkedQueues
<1>4. n \in LabelsAt(v)'
  BY <1>2, <1>3 DEF LabelsAt
<1>5. 1 \in DOMAIN jobs
  BY WorkedQueues
<1>6. Accepts(v, Jids(v), Current(v), x)
  BY <1>5 DEF LastLabelsRight
<1>7. Accepts(v, Jids(v)', Current(v)', x)
  BY <1>6 DEF Keeps
<1>8. events'[n].keys = x
  BY <1>2, <1>3
<1>9. n \in RightLabelsAt(v)'
  BY <1>4, <1>7, <1>8 DEF RightLabelsAt
<1>10. LabelsAt(v)' \subseteq DOMAIN events'
  BY DEF LabelsAt
<1>11. Ends(LabelsAt(v)', RightLabelsAt(v)')
  BY <1>1, <1>9, <1>10, NewEnds
<1> QED BY <1>9, <1>11

LEMMA WorkStillLabelled ==
    ASSUME QueuesOK, QueuesInTime, NEW s, Worked(s), NEW v, Keeps(v), LastLabelsRight(v)
    PROVE  /\ LastLabelsRight(v)'
           /\ LabelsQueued(v) \/ RightLabelsAt(v) # {} => LabelsQueued(v)' \/ RightLabelsAt(v)' # {}
<1>1. ASSUME NEW i \in DOMAIN jobs', v = "authenticated keys", jobs'[i].op = "labels"
      PROVE  Accepts(v, Jids(v)', Current(v)', jobs'[i].keys)
  <2> PICK x : x = jobs'[i].keys
    OBVIOUS
  <2>1. i + 1 \in DOMAIN jobs /\ jobs'[i] = jobs[i + 1]
    BY WorkedQueues
  <2>2. Accepts(v, Jids(v), Current(v), x)
    BY <1>1, <2>1 DEF LastLabelsRight
  <2>3. Accepts(v, Jids(v)', Current(v)', x)
    BY <2>2 DEF Keeps
  <2> QED BY <2>3
<1>2. (\A i \in DOMAIN jobs : v = "authenticated keys" /\ jobs[i].op = "labels" =>
           Accepts(v, Jids(v), Current(v), jobs[i].keys))'
  BY <1>1
<1>3. CASE v = "authenticated keys" /\ jobs[1].op = "labels"
  <2>1. Ends(LabelsAt(v)', RightLabelsAt(v)') /\ RightLabelsAt(v)' # {}
    BY <1>3, WorkLabels
  <2> QED BY <1>2, <2>1 DEF LastLabelsRight, Ends
<1>4. CASE ~(v = "authenticated keys" /\ jobs[1].op = "labels")
  <2>1. LabelsQueued(v) => LabelsQueued(v)'
    <3> SUFFICES ASSUME v = "authenticated keys", NEW i \in DOMAIN jobs, jobs[i].op = "labels"
                 PROVE  LabelsQueued(v)'
      BY DEF LabelsQueued
    <3>1. i # 1
      BY <1>4
    <3>2. i - 1 \in DOMAIN jobs' /\ jobs'[i - 1] = jobs[i]
      BY <3>1, WorkedQueues
    <3> QED BY <3>2 DEF LabelsQueued
  <2>2. LabelsAt(v)' \subseteq LabelsAt(v)
    <3> SUFFICES ASSUME v = "authenticated keys", NEW i \in DOMAIN events', events'[i].kind = "labels"
                 PROVE  i \in LabelsAt(v)
      BY DEF LabelsAt
    <3>1. CASE i \in DOMAIN events /\ events'[i] = events[i]
      BY <3>1 DEF LabelsAt
    <3>2. CASE i > Len(events) /\ i - Len(events) \in DOMAIN s /\ events'[i] = s[i - Len(events)]
      <4>1. EventOf(jobs[1], events'[i])
        BY <3>2, WorkHead
      <4> QED BY <1>4, <4>1 DEF EventOf, UserKinds
    <3> QED BY <3>1, <3>2, WorkedQueues
  <2>3. RightLabelsAt(v) \subseteq RightLabelsAt(v)'
    BY WorkStillRight
  <2>4. Ends(LabelsAt(v), RightLabelsAt(v)) => Ends(LabelsAt(v)', RightLabelsAt(v)')
    BY <2>2, <2>3 DEF Ends
  <2>5. LastLabelsRight(v)'
    BY <1>2, <2>1, <2>4 DEF LastLabelsRight, Ends
  <2> QED BY <2>1, <2>3, <2>5
<1> QED BY <1>3, <1>4

LEMMA WorkServesView ==
    ASSUME QueuesOK, QueuesInTime, NEW s, Worked(s), Loading' <=> Loading,
           NEW v \in Views, ViewServed(v)
    PROVE  ViewServed(v)'
<1>1. Jids(v)' = Jids(v) /\ (Shown(v)' <=> Shown(v)) /\ shown' = shown
  BY WorkedViews
<1> SUFFICES ASSUME Shown(v)', Jids(v)' # {}
             PROVE  /\ Loading' => Due(v)'
                    /\ ~Loading' /\ ~Resetting' => Due(v)' \/ Settled(v)'
  BY DEF ViewServed
<1>2. Resetting => Resetting'
  BY WorkStillResetting
<1>3. /\ Shown(v)
      /\ Loading => Due(v)
      /\ ~Loading /\ ~Resetting' => Due(v) \/ Settled(v)
  <2>1. Shown(v) /\ Jids(v) # {}
    BY <1>1
  <2>2. (Loading => Due(v)) /\ (~Loading /\ ~Resetting => Due(v) \/ Settled(v))
    BY <2>1 DEF ViewServed
  <2> QED BY <1>2, <2>1, <2>2
<1>4. Loading => Keeps(v)
  <2> PICK U : U = Jids(v)
    OBVIOUS
  <2>1. U = Jids(v)' /\ DOMAIN memory'.devices = DOMAIN memory.devices
    BY WorkedViews
  <2> QED BY <2>1, LoadingKeepsKeys, SameCurrent
<1>5. Keeps(v) \/ Asked(v)' \/ Resetting'
  BY <1>3, WorkKeepsView
<1>6. ASSUME Asked(v) PROVE Asked(v)'
  BY <1>3, <1>6, WorkHead, WorkStillAsked
<1>7. ASSUME Keeps(v), Answered(v) PROVE Answered(v)'
  BY <1>7, WorkStillAnswered DEF Answered
<1>8. ASSUME Keeps(v), Settled(v) PROVE Settled(v)'
  <2>1. LastAnswerRight(v)' /\ LastLabelsRight(v)'
    BY <1>8, WorkStillAnswered, WorkStillLabelled DEF Settled
  <2>2. LabelsQueued(v) \/ RightLabelsAt(v) # {} => LabelsQueued(v)' \/ RightLabelsAt(v)' # {}
    BY <1>8, WorkStillLabelled DEF Settled
  <2>3. Accepts(v, Jids(v), Current(v), shown[v]) => Accepts(v, Jids(v), Current(v), shown[v])'
    <3> PICK x : x = shown[v]
      OBVIOUS
    <3>1. Accepts(v, Jids(v), Current(v), x) => Accepts(v, Jids(v)', Current(v)', x)
      BY <1>8 DEF Keeps
    <3>2. shown'[v] = x
      BY <1>1
    <3> QED BY <3>1, <3>2
  <2>4. \/ LabelsQueued(v) \/ RightLabelsAt(v) # {}
        \/ Accepts(v, Jids(v), Current(v), shown[v])
    BY <1>8 DEF Settled
  <2> QED BY <2>1, <2>2, <2>3, <2>4 DEF Settled
<1> QED BY <1>3, <1>4, <1>5, <1>6, <1>7, <1>8 DEF Due

LEMMA WorkServes ==
    ASSUME EncryptionInv, ViewInv, Work
    PROVE  ViewInv'
<1>1. QueuesOK /\ TablesOK /\ QueuesInTime
  BY DEF EncryptionInv, ViewInv
<1>2. PICK s : Worked(s)
  BY <1>1, WorkHasEffects
<1>3. Loading' <=> Loading
  BY WorkStillLoading
<1>4. QueuesInTime'
  BY <1>1, <1>2, <1>3, WorkJobsInTime, WorkEventsInTime DEF QueuesInTime
<1>5. \A v \in Views : ViewServed(v)'
  BY <1>1, <1>2, <1>3, WorkServesView DEF ViewInv
<1>6. (open = NoChat => watched = {})' /\ (~detailed => listed = EmptyBag)'
  <2>1. UNCHANGED <<open, watched, detailed, listed>> /\ (open = NoChat => watched = {})
        /\ (~detailed => listed = EmptyBag)
    BY <1>2, WorkedViews DEF ViewInv
  <2>2. EmptyBag' = EmptyBag
    BY DEF EmptyBag
  <2> QED BY <2>1, <2>2
<1>7. Views' = Views
  BY DEF Views
<1>8. DOMAIN shown' = Views
  BY <1>2, WorkedViews DEF ViewInv
<1> QED BY <1>4, <1>5, <1>6, <1>7, <1>8 DEF ViewInv

-----------------------------------------------------------------------------
(* What the main thread does while no job is queued: results and signals   *)
(* move to the front, and what they tell a view does not change as long as *)
(* its users, their devices and their keys do not.                         *)

UsersStay(v) ==
    /\ Jids(v)' = Jids(v) /\ (Shown(v)' <=> Shown(v)) /\ keys' = keys
    /\ v \in Generators \/ \A d : d[1] \in Jids(v) =>
                               (d \in DOMAIN memory'.devices <=> d \in DOMAIN memory.devices)

LEMMA StayingViews ==
    ASSUME NEW v \in Views, UsersStay(v)
    PROVE  /\ Current(v)' = Current(v)
           /\ \A l : ViewOf(v, DOMAIN memory.devices, Jids(v), l)
                         = ViewOf(v, DOMAIN memory'.devices, Jids(v), l)
           /\ \A event : EventAsks(event, v) => EventAsks(event, v)'
<1> PICK U : U = Jids(v)
  OBVIOUS
<1> PICK D : D = DOMAIN memory.devices
  OBVIOUS
<1> PICK E : E = DOMAIN memory'.devices
  OBVIOUS
<1>1. U = Jids(v)' /\ (Shown(v)' <=> Shown(v)) /\ keys' = keys
  BY DEF UsersStay
<1>2. v \in Generators \/ \A d : d[1] \in U => (d \in E <=> d \in D)
  BY DEF UsersStay
<1>3. \A l : ViewOf(v, D, U, l) = ViewOf(v, E, U, l)
  <2> TAKE l
  <2>1. v \in OnKeys \/ \A d \in D \cup E : d[1] \in U => (d \in D <=> d \in E)
    BY <1>2 DEF OnKeys
  <2> QED BY <2>1, ViewOfDevices
<1>4. Current(v)' = Current(v)
  <2> PICK l : l = KeysOfUsers(U)
    OBVIOUS
  <2>1. l = KeysOfUsers(U)'
    BY <1>1, KeysKept
  <2>2. Current(v) = ViewOf(v, D, U, l)
    BY DEF Current
  <2>3. Current(v)' = ViewOf(v, E, U, l)
    BY <1>1, <2>1 DEF Current
  <2> QED BY <1>3, <2>2, <2>3
<1>5. ASSUME NEW event, EventAsks(event, v) PROVE EventAsks(event, v)'
  <2> DEFINE K == {k[1] : k \in event.keys}
             F == {d[1] : d \in D \cap event.keys}
             G == {d[1] : d \in E \cap event.keys}
  <2>1. CASE event.kind = "levels" /\ v \in Notified(K, F)
    <3>1. v \in OnDevices /\ U \cap F # {} => U \cap G # {}
      <4> SUFFICES ASSUME v \in OnDevices, NEW d \in D \cap event.keys, d[1] \in U
                   PROVE  U \cap G # {}
        OBVIOUS
      <4>1. d \in E
        BY <1>2 DEF OnDevices
      <4> QED BY <4>1
    <3> HIDE DEF K, F, G
    <3>2. Shown(v) /\ ((v \in OnKeys /\ Jids(v) \cap K # {}) \/ (v \in OnDevices /\ Jids(v) \cap F # {}))
      BY <2>1 DEF Notified
    <3>3. v \in Notified(K, G)'
      BY <1>1, <3>1, <3>2 DEF Notified
    <3> QED BY <2>1, <3>3 DEF EventAsks, K, G
  <2>2. CASE event.kind = "devices" /\ v \in Notified({}, event.jids)
    <3>1. v \in Notified({}, event.jids)'
      BY <1>1, <2>2 DEF Notified
    <3> QED BY <2>2, <3>1 DEF EventAsks
  <2>3. CASE event.kind = "ownKey" /\ v = "account URI"
    BY <2>3 DEF EventAsks
  <2> QED BY <1>5, <2>1, <2>2, <2>3 DEF EventAsks
<1> QED BY <1>3, <1>4, <1>5

LEMMA ResultMoved ==
    ASSUME NEW v \in Views, UsersStay(v),
           NEW i \in DOMAIN events, NEW k \in DOMAIN events', events'[k] = events[i]
    PROVE  /\ i \in AnswersAt(v) <=> k \in AnswersAt(v)'
           /\ i \in RightAt(v) => k \in RightAt(v)'
           /\ i \in LabelsAt(v) <=> k \in LabelsAt(v)'
           /\ i \in RightLabelsAt(v) => k \in RightLabelsAt(v)'
           /\ EventAsks(events[i], v) => EventAsks(events[k], v)'
<1> PICK e : e = events[i]
  OBVIOUS
<1> PICK U : U = Jids(v)
  OBVIOUS
<1>1. events'[k] = e /\ Jids(v)' = U
  BY DEF UsersStay
<1>2. Current(v)' = Current(v)
  BY StayingViews
<1>3. i \in AnswersAt(v) <=> k \in AnswersAt(v)'
  BY <1>1 DEF AnswersAt
<1>4. i \in LabelsAt(v) <=> k \in LabelsAt(v)'
  BY <1>1 DEF LabelsAt
<1>5. ASSUME i \in RightAt(v) PROVE k \in RightAt(v)'
  <2> PICK l : l = e.levels[v]
    OBVIOUS
  <2> PICK x : x = ViewOf(v, DOMAIN memory.devices, U, l)
    OBVIOUS
  <2>1. i \in AnswersAt(v) /\ e.jids[v] = U /\ Accepts(v, U, Current(v), x)
    BY <1>5 DEF RightAt
  <2>2. x = ViewOf(v, DOMAIN memory'.devices, U, l)
    BY StayingViews
  <2>3. Accepts(v, Jids(v)', Current(v)', x)
    BY <1>1, <1>2, <2>1
  <2>4. events'[k].jids[v] = Jids(v)' /\ events'[k].levels[v] = l
    BY <1>1, <2>1
  <2>5. x = ViewOf(v, DOMAIN memory'.devices, Jids(v)', events'[k].levels[v])
    BY <1>1, <2>2, <2>4
  <2> QED BY <1>3, <2>1, <2>3, <2>4, <2>5 DEF RightAt
<1>6. ASSUME i \in RightLabelsAt(v) PROVE k \in RightLabelsAt(v)'
  <2> PICK x : x = e.keys
    OBVIOUS
  <2>1. i \in LabelsAt(v) /\ Accepts(v, U, Current(v), x)
    BY <1>6 DEF RightLabelsAt
  <2>2. Accepts(v, Jids(v)', Current(v)', x) /\ events'[k].keys = x
    BY <1>1, <1>2, <2>1
  <2> QED BY <1>4, <2>1, <2>2 DEF RightLabelsAt
<1>7. ASSUME EventAsks(e, v) PROVE EventAsks(events[k], v)'
  <2>1. EventAsks(e, v)'
    BY <1>7, StayingViews
  <2> QED BY <1>1, <2>1
<1> QED BY <1>3, <1>4, <1>5, <1>6, <1>7

LEMMA NoJobs ==
    ASSUME jobs = <<>>, NEW v
    PROVE  /\ ~AnswerQueued(v) /\ ~LabelsQueued(v)
           /\ Asked(v) <=> \E i \in DOMAIN events : EventAsks(events[i], v)
           /\ LastAnswerRight(v) <=> Ends(AnswersAt(v), RightAt(v))
           /\ LastLabelsRight(v) <=> Ends(LabelsAt(v), RightLabelsAt(v))
<1>1. DOMAIN jobs = {}
  BY EmptyQueue
<1> QED BY <1>1 DEF AnswerQueued, LabelsQueued, Asked, LastAnswerRight, LastLabelsRight, Ends

\* A view is asked or queried by what is queued.
LEMMA QueuedServes ==
    ASSUME NEW v \in Views, AnswerQueued(v)' \/ Asked(v)'
    PROVE  ViewServed(v)'
<1>1. AnswerQueued(v)' => Answered(v)'
  BY DEF Answered, LastAnswerRight
<1> QED BY <1>1 DEF Due, ViewServed

\* A step of the main thread that handles no event
LEMMA MainServesView ==
    ASSUME jobs = <<>>, events' = events, shown' = shown, NEW v \in Views, UsersStay(v), ViewServed(v),
           \A i \in DOMAIN jobs' : jobs'[i].op # "labels",
           Loading' <=> Loading, Resetting => Resetting'
    PROVE  ViewServed(v)'
<1>1. ASSUME NEW i \in DOMAIN events
      PROVE  /\ i \in DOMAIN events' /\ (i \in AnswersAt(v) <=> i \in AnswersAt(v)')
             /\ i \in RightAt(v) => i \in RightAt(v)'
             /\ i \in LabelsAt(v) <=> i \in LabelsAt(v)'
             /\ i \in RightLabelsAt(v) => i \in RightLabelsAt(v)'
             /\ EventAsks(events[i], v) => EventAsks(events[i], v)'
  BY ResultMoved
<1>2. /\ AnswersAt(v)' \subseteq AnswersAt(v) /\ RightAt(v) \subseteq RightAt(v)'
      /\ LabelsAt(v)' \subseteq LabelsAt(v) /\ RightLabelsAt(v) \subseteq RightLabelsAt(v)'
  <2>1. /\ AnswersAt(v)' \subseteq DOMAIN events' /\ LabelsAt(v)' \subseteq DOMAIN events'
        /\ RightAt(v) \subseteq DOMAIN events /\ RightLabelsAt(v) \subseteq DOMAIN events
    BY DEF AnswersAt, LabelsAt, RightAt, RightLabelsAt
  <2> QED BY <1>1, <2>1
<1>3. Asked(v) => Asked(v)'
  <2> SUFFICES ASSUME NEW i \in DOMAIN events, EventAsks(events[i], v) PROVE Asked(v)'
    BY NoJobs
  <2>1. i \in DOMAIN events' /\ EventAsks(events[i], v)'
    BY <1>1
  <2> QED BY <2>1 DEF Asked
<1>4. Ends(AnswersAt(v), RightAt(v)) => LastAnswerRight(v)'
  BY <1>2 DEF LastAnswerRight, Ends
<1>5. Answered(v) => Answered(v)'
  BY <1>2, <1>4, NoJobs DEF Answered
<1>6. Ends(LabelsAt(v), RightLabelsAt(v)) => LastLabelsRight(v)'
  BY <1>2 DEF LastLabelsRight, Ends
<1>7. Accepts(v, Jids(v), Current(v), shown[v]) => Accepts(v, Jids(v), Current(v), shown[v])'
  BY StayingViews DEF UsersStay
<1>8. Settled(v) => Settled(v)'
  BY <1>2, <1>4, <1>6, <1>7, NoJobs DEF Settled
<1>9. Due(v) => Due(v)'
  BY <1>3, <1>5 DEF Due
<1>10. (Shown(v)' <=> Shown(v)) /\ Jids(v)' = Jids(v)
  BY DEF UsersStay
<1>11. ASSUME Shown(v)', Jids(v)' # {}, Loading' PROVE Due(v)'
  BY <1>9, <1>10, <1>11 DEF ViewServed
<1>12. ASSUME Shown(v)', Jids(v)' # {}, ~Loading', ~Resetting' PROVE Due(v)' \/ Settled(v)'
  BY <1>8, <1>9, <1>10, <1>12 DEF ViewServed
<1> QED BY <1>11, <1>12 DEF ViewServed

\* Handled results leave the queue.
LEMMA EndsMoved ==
    ASSUME NEW A, NEW R, NEW B, NEW S, Ends(A, R), A \subseteq Nat, R \subseteq Nat, B \subseteq Nat \ {0},
           \A i \in B : i + 1 \in A, \A i \in R : i # 1 => i - 1 \in S
    PROVE  /\ Ends(B, S)
           /\ S # {} \/ (B = {} /\ R \subseteq {1} /\ (1 \in A => 1 \in R))
<1>1. ASSUME NEW i \in A PROVE \E j \in R : j >= i
  BY DEF Ends
<1>2. ASSUME NEW i \in B PROVE \E j \in S : j >= i
  <2>1. PICK j \in R : j >= i + 1
    BY <1>1
  <2>2. i \in Nat \ {0} /\ j \in Nat
    OBVIOUS
  <2>3. j # 1 /\ j - 1 >= i
    BY <2>1, <2>2
  <2>4. j - 1 \in S
    BY <2>3
  <2> QED BY <2>3, <2>4
<1>3. Ends(B, S)
  BY <1>2 DEF Ends
<1>4. ASSUME S = {} PROVE B = {} /\ R \subseteq {1} /\ (1 \in A => 1 \in R)
  <2>1. B = {}
    BY <1>2, <1>4
  <2>2. R \subseteq {1}
    BY <1>4
  <2>3. ASSUME 1 \in A PROVE 1 \in R
    <3>1. PICK j \in R : j >= 1
      BY <1>1, <2>3
    <3> QED BY <2>2, <3>1
  <2> QED BY <2>1, <2>2, <2>3
<1> QED BY <1>3, <1>4

\* The front of the queue of the main thread is handled.
Handled == events # <<>> /\ events' = Tail(events)

LEMMA HandledQueue ==
    ASSUME QueuesOK, Handled
    PROVE  /\ 1 \in DOMAIN events /\ Head(events) = events[1] /\ DOMAIN events \subseteq Nat
           /\ DOMAIN events' \subseteq Nat \ {0}
           /\ \A i \in DOMAIN events' : i + 1 \in DOMAIN events /\ events'[i] = events[i + 1]
           /\ \A i \in DOMAIN events : i # 1 => i - 1 \in DOMAIN events' /\ events'[i - 1] = events[i]
<1>1. IsSequence(events) /\ events # <<>> /\ events' = Tail(events)
  BY DEF QueuesOK, Handled
<1>2. /\ Len(events) \in Nat \ {0} /\ DOMAIN events = 1..Len(events)
      /\ DOMAIN events' = 1..(Len(events) - 1)
      /\ \A i \in DOMAIN events' : i + 1 \in DOMAIN events /\ events'[i] = events[i + 1]
      /\ 1 \in DOMAIN events /\ Head(events) = events[1]
  BY <1>1, TailOf
<1>3. \A i \in DOMAIN events : i # 1 => i - 1 \in DOMAIN events' /\ events'[i - 1] = events[i]
  BY <1>2
<1> QED BY <1>2, <1>3

LEMMA ResultsMoved ==
    ASSUME QueuesOK, Handled, NEW v \in Views, UsersStay(v)
    PROVE  /\ \A i \in AnswersAt(v)' : i + 1 \in AnswersAt(v)
           /\ \A i \in RightAt(v) : i # 1 => i - 1 \in RightAt(v)'
           /\ \A i \in LabelsAt(v)' : i + 1 \in LabelsAt(v)
           /\ \A i \in RightLabelsAt(v) : i # 1 => i - 1 \in RightLabelsAt(v)'
           /\ AnswersAt(v) \subseteq Nat /\ RightAt(v) \subseteq Nat /\ AnswersAt(v)' \subseteq Nat \ {0}
           /\ LabelsAt(v) \subseteq Nat /\ RightLabelsAt(v) \subseteq Nat /\ LabelsAt(v)' \subseteq Nat \ {0}
           /\ \A i \in DOMAIN events : i # 1 /\ EventAsks(events[i], v) => Asked(v)'
<1>1. /\ AnswersAt(v) \subseteq DOMAIN events /\ LabelsAt(v) \subseteq DOMAIN events
      /\ AnswersAt(v)' \subseteq DOMAIN events' /\ LabelsAt(v)' \subseteq DOMAIN events'
      /\ RightAt(v) \subseteq AnswersAt(v) /\ RightLabelsAt(v) \subseteq LabelsAt(v)
  BY DEF AnswersAt, LabelsAt, RightAt, RightLabelsAt
<1>2. ASSUME NEW i \in DOMAIN events'
      PROVE  /\ i \in AnswersAt(v)' => i + 1 \in AnswersAt(v)
             /\ i \in LabelsAt(v)' => i + 1 \in LabelsAt(v)
  <2>1. i + 1 \in DOMAIN events /\ events'[i] = events[i + 1]
    BY HandledQueue
  <2> QED BY <2>1, ResultMoved
<1>3. ASSUME NEW i \in DOMAIN events, i # 1
      PROVE  /\ i \in RightAt(v) => i - 1 \in RightAt(v)'
             /\ i \in RightLabelsAt(v) => i - 1 \in RightLabelsAt(v)'
             /\ EventAsks(events[i], v) => Asked(v)'
  <2> PICK k : k = i - 1
    OBVIOUS
  <2>1. k \in DOMAIN events' /\ events'[k] = events[i]
    BY <1>3, HandledQueue
  <2>2. /\ i \in RightAt(v) => k \in RightAt(v)'
        /\ i \in RightLabelsAt(v) => k \in RightLabelsAt(v)'
        /\ EventAsks(events[i], v) => EventAsks(events[k], v)'
    BY <2>1, ResultMoved
  <2>3. EventAsks(events[k], v)' => Asked(v)'
    BY <2>1 DEF Asked
  <2> QED BY <2>2, <2>3
<1>4. DOMAIN events \subseteq Nat /\ DOMAIN events' \subseteq Nat \ {0}
  BY HandledQueue
<1> QED BY <1>1, <1>2, <1>3, <1>4

LEMMA AnswersEnd ==
    ASSUME QueuesOK, Handled, NEW v \in Views, UsersStay(v), Ends(AnswersAt(v), RightAt(v))
    PROVE  /\ Ends(AnswersAt(v)', RightAt(v)')
           /\ RightAt(v)' # {} \/ (AnswersAt(v)' = {} /\ RightAt(v) \subseteq {1}
                                   /\ (1 \in AnswersAt(v) => 1 \in RightAt(v)))
<1> PICK A, R : A = AnswersAt(v) /\ R = RightAt(v)
  OBVIOUS
<1> PICK B, S : B = AnswersAt(v)' /\ S = RightAt(v)'
  OBVIOUS
<1>1. /\ A \subseteq Nat /\ R \subseteq Nat /\ B \subseteq Nat \ {0}
      /\ \A i \in B : i + 1 \in A
      /\ \A i \in R : i # 1 => i - 1 \in S
  BY ResultsMoved
<1>2. /\ Ends(B, S)
      /\ S # {} \/ (B = {} /\ R \subseteq {1} /\ (1 \in A => 1 \in R))
  BY <1>1, EndsMoved
<1> QED BY <1>2

LEMMA LabelsEnd ==
    ASSUME QueuesOK, Handled, NEW v \in Views, UsersStay(v), Ends(LabelsAt(v), RightLabelsAt(v))
    PROVE  /\ Ends(LabelsAt(v)', RightLabelsAt(v)')
           /\ RightLabelsAt(v)' # {} \/ (LabelsAt(v)' = {} /\ RightLabelsAt(v) \subseteq {1}
                                         /\ (1 \in LabelsAt(v) => 1 \in RightLabelsAt(v)))
<1> PICK A, R : A = LabelsAt(v) /\ R = RightLabelsAt(v)
  OBVIOUS
<1> PICK B, S : B = LabelsAt(v)' /\ S = RightLabelsAt(v)'
  OBVIOUS
<1>1. /\ A \subseteq Nat /\ R \subseteq Nat /\ B \subseteq Nat \ {0}
      /\ \A i \in B : i + 1 \in A
      /\ \A i \in R : i # 1 => i - 1 \in S
  BY ResultsMoved
<1>2. /\ Ends(B, S)
      /\ S # {} \/ (B = {} /\ R \subseteq {1} /\ (1 \in A => 1 \in R))
  BY <1>1, EndsMoved
<1> QED BY <1>2

\* What handling an event makes of a view
ShownLater(v) == Accepts(v, Jids(v), Current(v), shown'[v])
LabelledLater(v) ==
    \A i \in DOMAIN jobs' : v = "authenticated keys" /\ jobs'[i].op = "labels" =>
        Accepts(v, Jids(v), Current(v), jobs'[i].keys)

LEMMA HandleServesView ==
    ASSUME QueuesOK, Handled, jobs = <<>>, NEW v \in Views, UsersStay(v), ViewServed(v),
           ~Loading, ~Loading', Resetting => Resetting',
           EventAsks(events[1], v) => AnswerQueued(v)' \/ Asked(v)',
           1 \in RightAt(v) => LabelsQueued(v)' \/ (v # "authenticated keys" /\ ShownLater(v)),
           (1 \in AnswersAt(v) => 1 \in RightAt(v)) => LabelledLater(v),
           1 \in RightLabelsAt(v) => ShownLater(v),
           1 \notin AnswersAt(v) \cup LabelsAt(v) => shown'[v] = shown[v]
    PROVE  ViewServed(v)'
<1> SUFFICES ASSUME Shown(v)', Jids(v)' # {}, ~Resetting' PROVE Due(v)' \/ Settled(v)'
  BY DEF ViewServed
<1>1. Due(v) \/ Settled(v)
  BY DEF ViewServed, UsersStay
<1>2. Current(v)' = Current(v) /\ Jids(v)' = Jids(v)
  BY StayingViews DEF UsersStay
<1>3. CASE Asked(v)
  <2>1. PICK i \in DOMAIN events : EventAsks(events[i], v)
    BY <1>3, NoJobs
  <2>2. CASE i # 1
    BY <2>1, <2>2, ResultsMoved DEF Due
  <2>3. CASE i = 1
    <3>1. AnswerQueued(v)' => Answered(v)'
      BY DEF Answered, LastAnswerRight
    <3> QED BY <2>1, <2>3, <3>1 DEF Due
  <2> QED BY <2>2, <2>3
<1>4. CASE ~Asked(v)
  <2>1. Ends(AnswersAt(v), RightAt(v))
    BY <1>1, <1>4, NoJobs DEF Due, Answered, Settled
  <2>2. /\ Ends(AnswersAt(v)', RightAt(v)')
        /\ RightAt(v)' # {} \/ (AnswersAt(v)' = {} /\ RightAt(v) \subseteq {1}
                                /\ (1 \in AnswersAt(v) => 1 \in RightAt(v)))
    BY <2>1, AnswersEnd
  <2>3. LastAnswerRight(v)'
    BY <2>2 DEF LastAnswerRight, Ends
  <2>4. CASE RightAt(v)' # {}
    BY <2>3, <2>4 DEF Answered, Due
  <2>5. CASE RightAt(v)' = {}
    <3>1. RightAt(v) \subseteq {1} /\ LabelledLater(v)
      BY <2>2, <2>5
    <3>2. (\A i \in DOMAIN jobs : v = "authenticated keys" /\ jobs[i].op = "labels" =>
              Accepts(v, Jids(v), Current(v), jobs[i].keys))'
      BY <1>2, <3>1 DEF LabelledLater
    <3>3. ShownLater(v) => Accepts(v, Jids(v), Current(v), shown[v])'
      BY <1>2 DEF ShownLater
    <3>4. CASE 1 \in RightAt(v)
      <4>1. v # "authenticated keys" => LabelsAt(v)' = {}
        BY DEF LabelsAt
      <4>2. LastLabelsRight(v)'
        BY <3>2, <3>4, <4>1 DEF LastLabelsRight, Ends
      <4> QED BY <2>3, <3>3, <3>4, <4>2 DEF Settled
    <3>5. CASE 1 \notin RightAt(v)
      <4>1. 1 \notin AnswersAt(v) /\ RightAt(v) = {}
        BY <2>2, <2>5, <3>1, <3>5
      <4>2. Settled(v)
        BY <1>1, <1>4, <4>1, NoJobs DEF Due, Answered
      <4>3. /\ Ends(LabelsAt(v), RightLabelsAt(v))
            /\ RightLabelsAt(v) # {} \/ Accepts(v, Jids(v), Current(v), shown[v])
        BY <4>2, NoJobs DEF Settled
      <4>4. /\ Ends(LabelsAt(v)', RightLabelsAt(v)')
            /\ RightLabelsAt(v)' # {} \/ (LabelsAt(v)' = {} /\ RightLabelsAt(v) \subseteq {1}
                                          /\ (1 \in LabelsAt(v) => 1 \in RightLabelsAt(v)))
        BY <4>3, LabelsEnd
      <4>5. LastLabelsRight(v)'
        BY <3>2, <4>4 DEF LastLabelsRight, Ends
      <4>6. CASE RightLabelsAt(v)' # {}
        BY <2>3, <4>5, <4>6 DEF Settled
      <4>7. CASE RightLabelsAt(v)' = {}
        <5>1. ShownLater(v)
          <6>1. CASE 1 \in RightLabelsAt(v)
            BY <6>1
          <6>2. CASE 1 \notin RightLabelsAt(v)
            <7>1. RightLabelsAt(v) = {} /\ shown'[v] = shown[v]
              BY <4>1, <4>4, <4>7, <6>2
            <7> QED BY <4>3, <7>1 DEF ShownLater
          <6> QED BY <6>1, <6>2
        <5> QED BY <2>3, <3>3, <4>5, <5>1 DEF Settled
      <4> QED BY <4>6, <4>7
    <3> QED BY <3>4, <3>5
  <2> QED BY <2>4, <2>5
<1> QED BY <1>3, <1>4

-----------------------------------------------------------------------------
(* Jobs and events in time after events are handled                        *)

RightQueries ==
    \A i \in DOMAIN jobs' : jobs'[i].op = "query" =>
        \A v \in DOMAIN jobs'[i].jids : v \in Views /\ jobs'[i].jids[v] = Jids(v)'

NoLabels == \A i \in DOMAIN jobs' : jobs'[i].op # "labels"

LEMMA ReadsFollowed ==
    ASSUME ReadQueue(jobs'), RightQueries, NoLabels \/ ~Loading'
    PROVE  \A i \in DOMAIN jobs' : JobFollowed(i)'
<1> SUFFICES ASSUME NEW i \in DOMAIN jobs' PROVE JobFollowed(i)'
  OBVIOUS
<1> PICK job : job = jobs'[i]
  OBVIOUS
<1>1. job.op \in {"query", "ownKey", "labels", "users", "userJids"}
  BY DEF ReadQueue
<1>2. job.op = "query" => \A v \in DOMAIN job.jids : v \in Views /\ job.jids[v] = Jids(v)'
  BY DEF RightQueries
<1>3. job.op = "labels" => ~Loading'
  BY DEF NoLabels
<1> QED BY <1>1, <1>2, <1>3 DEF JobFollowed

LEMMA HandledInTime ==
    ASSUME QueuesOK, Handled, \A i \in DOMAIN events : EventInTime(i), ~Loading', isReset' = isReset
    PROVE  \A i \in DOMAIN events' : EventInTime(i)'
<1> SUFFICES ASSUME NEW i \in DOMAIN events' PROVE EventInTime(i)'
  OBVIOUS
<1> PICK e : e = events'[i]
  OBVIOUS
<1>1. i \in Nat \ {0} /\ i + 1 \in DOMAIN events /\ events[i + 1] = e
  BY HandledQueue
<1>2. EventInTime(i + 1) /\ i + 1 # 1
  BY <1>1
<1>3. /\ e.kind # "loaded"
      /\ e.kind = "reset" => isReset'
      /\ e.kind = "queried" => DOMAIN e.jids \subseteq Views
  BY <1>1, <1>2 DEF EventInTime
<1> QED BY <1>3 DEF EventInTime

LEMMA AfterHandle ==
    ASSUME EncryptionInv, QueuesInTime, jobs = <<>>, Handle
    PROVE  /\ Handled /\ ReadQueue(jobs') /\ ~Loading'
           /\ events[1].kind # "loaded" => ~Loading
<1>1. QueuesOK /\ Handled
  BY DEF EncryptionInv, Handle, Handled
<1>2. ReadQueue(jobs')
  BY <1>1, HandleReads
<1>3. \A i \in DOMAIN jobs' : jobs'[i].op # "allData"
  BY <1>2 DEF ReadQueue
<1>4. \A i \in DOMAIN events : events[i].kind = "loaded" => i = 1
  BY DEF QueuesInTime, EventInTime
<1>5. \A i \in DOMAIN events' : i + 1 # 1
  BY <1>1, HandledQueue
<1>6. \A i \in DOMAIN events' : events'[i].kind # "loaded"
  BY <1>1, <1>4, <1>5, HandledQueue
<1>7. ~Loading'
  BY <1>3, <1>6 DEF Loading
<1>8. DOMAIN jobs = {}
  BY EmptyQueue
<1>9. events[1].kind # "loaded" => ~Loading
  BY <1>4, <1>8 DEF Loading
<1> QED BY <1>1, <1>2, <1>7, <1>9

\* What is queued for some views
LEMMA QueryOf ==
    ASSUME NEW jids
    PROVE  /\ IsSequence(Query(jids))
           /\ \A i \in DOMAIN Query(jids) : Query(jids)[i].op = "query" /\ Query(jids)[i].jids = jids
           /\ \A v \in DOMAIN jids : 1 \in DOMAIN Query(jids)
<1> DEFINE job == [op |-> "query", jids |-> jids]
<1>1. job.op = "query" /\ job.jids = jids
  OBVIOUS
<1>2. Query(jids) = IF DOMAIN jids = {} THEN <<>> ELSE <<job>>
  BY DEF Query
<1> HIDE DEF job
<1>3. IsSequence(<<>>) /\ DOMAIN <<>> = {}
  BY EmptyQueue
<1>4. IsSequence(<<job>>) /\ DOMAIN <<job>> = {1} /\ <<job>>[1] = job
  BY OneElement
<1>5. CASE DOMAIN jids = {}
  BY <1>2, <1>3, <1>5
<1>6. CASE DOMAIN jids # {}
  <2>1. Query(jids) = <<job>>
    BY <1>2, <1>6
  <2> QED BY <1>1, <1>4, <2>1
<1> QED BY <1>5, <1>6

LEMMA QueryServes ==
    ASSUME jobs = <<>>, NEW jids, Queued(Query(jids))
    PROVE  /\ \A v \in DOMAIN jids : AnswerQueued(v)'
           /\ NoLabels
           /\ (\A v \in DOMAIN jids : v \in Views /\ jids[v] = Jids(v)') => RightQueries
<1>1. jobs' = Query(jids)
  BY QueryReads, ReadsQueued
<1>2. \A i \in DOMAIN jobs' : jobs'[i].op = "query" /\ jobs'[i].jids = jids
  BY <1>1, QueryOf
<1>3. \A v \in DOMAIN jids : 1 \in DOMAIN jobs'
  BY <1>1, QueryOf
<1>4. \A v \in DOMAIN jids : AnswerQueued(v)'
  BY <1>2, <1>3 DEF AnswerQueued
<1>5. (\A v \in DOMAIN jids : v \in Views /\ jids[v] = Jids(v)') => RightQueries
  BY <1>2 DEF RightQueries
<1>6. NoLabels
  BY <1>2 DEF NoLabels
<1> QED BY <1>4, <1>5, <1>6

LEMMA QueriesServe ==
    ASSUME jobs = <<>>, NEW V, V \subseteq Views, Queued(Queries(V)), \A v : Jids(v)' = Jids(v)
    PROVE  /\ \A v \in V : Jids(v) # {} => AnswerQueued(v)' \/ Asked(v)'
           /\ RightQueries /\ NoLabels
<1> DEFINE own == "account URI"
           jids == [v \in {w \in V : Jids(w) # {}} \ {own} |-> Jids(v)]
           a == [op |-> "ownKey"]
           t == IF own \in V THEN <<a>> ELSE <<>>
<1>1. jobs' = Query(jids) \o t
  BY QueriesRead, ReadsQueued DEF Queries
<1>2. a.op = "ownKey"
  OBVIOUS
<1>3. DOMAIN jids = {w \in V : Jids(w) # {}} \ {own} /\ \A v \in DOMAIN jids : jids[v] = Jids(v)
  OBVIOUS
<1>4. IsSequence(t) /\ (\A i \in DOMAIN t : t[i] = a) /\ (own \in V => 1 \in DOMAIN t)
  <2> HIDE DEF a, own
  <2> QED BY EmptyQueue, OneElement
<1> HIDE DEF a, t, jids, own
<1> DEFINE q == Query(jids)
<1>5. /\ IsSequence(q) /\ \A i \in DOMAIN q : q[i].op = "query" /\ q[i].jids = jids
      /\ \A v \in DOMAIN jids : 1 \in DOMAIN q
  BY QueryOf
<1> HIDE DEF q
<1>6. /\ \A i \in DOMAIN q : i \in DOMAIN jobs' /\ jobs'[i] = q[i]
      /\ \A i \in DOMAIN t : Len(q) + i \in DOMAIN jobs' /\ jobs'[Len(q) + i] = t[i]
      /\ \A i \in DOMAIN jobs' : \/ i \in DOMAIN q /\ jobs'[i] = q[i]
                                 \/ i - Len(q) \in DOMAIN t /\ jobs'[i] = t[i - Len(q)]
  <2>1. jobs' = q \o t
    BY <1>1 DEF q
  <2> QED BY <1>4, <1>5, <2>1, Joined
<1>7. ASSUME NEW i \in DOMAIN jobs'
      PROVE  (jobs'[i].op = "query" /\ jobs'[i].jids = jids) \/ jobs'[i] = a
  BY <1>4, <1>5, <1>6
<1>8. RightQueries
  <2> SUFFICES ASSUME NEW i \in DOMAIN jobs', jobs'[i].op = "query", NEW v \in DOMAIN jobs'[i].jids
               PROVE  v \in Views /\ jobs'[i].jids[v] = Jids(v)'
    BY DEF RightQueries
  <2>1. jobs'[i].jids = jids
    BY <1>2, <1>7
  <2> QED BY <1>3, <2>1
<1>9. NoLabels
  BY <1>2, <1>7 DEF NoLabels
<1>10. ASSUME NEW v \in V, Jids(v) # {} PROVE AnswerQueued(v)' \/ Asked(v)'
  <2>1. CASE v # own
    <3>1. v \in DOMAIN jids
      BY <1>3, <1>10, <2>1
    <3>2. 1 \in DOMAIN jobs' /\ jobs'[1].op = "query" /\ jobs'[1].jids = jids
      BY <1>5, <1>6, <3>1
    <3> QED BY <3>1, <3>2 DEF AnswerQueued
  <2>2. CASE v = own
    <3> PICK n : n = Len(q) + 1
      OBVIOUS
    <3>1. n \in DOMAIN jobs' /\ jobs'[n] = a
      BY <1>4, <1>6, <2>2
    <3>2. JobAsks(a, v)'
      BY <1>2, <2>2 DEF JobAsks, own
    <3>3. JobAsks(jobs[n], v)'
      BY <3>1, <3>2
    <3> QED BY <3>1, <3>3 DEF Asked
  <2> QED BY <2>1, <2>2
<1> QED BY <1>8, <1>9, <1>10

-----------------------------------------------------------------------------
(* What the main thread handles                                            *)

LEMMA HandledResetting ==
    ASSUME QueuesOK, Handled, jobs = <<>>, events[1].kind # "reset", UNCHANGED <<isLoaded, isReset>>,
           ~Loading', Resetting
    PROVE  Resetting'
<1>1. DOMAIN jobs = {}
  BY EmptyQueue
<1>2. CASE \E i \in DOMAIN events : events[i].kind = "reset"
  <2>1. PICK i \in DOMAIN events : events[i].kind = "reset"
    BY <1>2
  <2>2. i # 1
    BY <2>1
  <2>3. i - 1 \in DOMAIN events' /\ events'[i - 1] = events[i]
    BY <2>2, HandledQueue
  <2> QED BY <2>1, <2>3 DEF Resetting
<1>3. CASE isReset /\ ~isLoaded /\ ~Loading
  BY <1>3 DEF Resetting
<1> QED BY <1>1, <1>2, <1>3 DEF Resetting

\* Views whose users stay, when signals about users are handled
LEMMA SignalServesView ==
    ASSUME EncryptionInv, QueuesInTime, jobs = <<>>, Handle, NEW v \in Views, UsersStay(v), ViewServed(v),
           events[1].kind \in UserKinds, UNCHANGED managerVars, NoLabels, shown'[v] = shown[v]
    PROVE  ViewServed(v)'
<1>1. QueuesOK /\ Handled /\ ~Loading /\ ~Loading'
  BY AfterHandle DEF UserKinds, EncryptionInv
<1>2. Resetting => Resetting'
  BY <1>1, HandledResetting DEF UserKinds, managerVars
<1>3. ~EventAsks(events[1], v) /\ 1 \notin AnswersAt(v) /\ 1 \notin LabelsAt(v)
  BY DEF EventAsks, AnswersAt, LabelsAt, UserKinds
<1>4. 1 \notin RightAt(v) /\ 1 \notin RightLabelsAt(v)
  BY <1>3 DEF RightAt, RightLabelsAt
<1>5. LabelledLater(v)
  BY DEF LabelledLater, NoLabels
<1> QED BY <1>1, <1>2, <1>3, <1>4, <1>5, HandleServesView

\* A view is served by the queue after an event.
Serves ==
    /\ RightQueries /\ DOMAIN shown' = Views
    /\ \A v \in Views : ViewServed(v)'
    /\ (open = NoChat => watched = {})' /\ (~detailed => listed = EmptyBag)'

LEMMA AllStay ==
    ASSUME UNCHANGED <<watched, listed, open, detailed>>, keys' = keys,
           DOMAIN memory'.devices = DOMAIN memory.devices
    PROVE  \A v : UsersStay(v)
BY SameViews DEF UsersStay

LEMMA ViewsKept ==
    ASSUME ViewInv, UNCHANGED <<watched, listed, open, detailed>>
    PROVE  (open = NoChat => watched = {})' /\ (~detailed => listed = EmptyBag)'
<1>1. EmptyBag' = EmptyBag
  BY DEF EmptyBag
<1> QED BY <1>1 DEF ViewInv

LEMMA NothingQueued ==
    ASSUME jobs' = <<>>
    PROVE  NoLabels /\ RightQueries
BY EmptyQueue DEF NoLabels, RightQueries

\* userJidsChanged() only queries the users; hidden lists do not change.
LEMMA UserJidsChangedServes ==
    ASSUME EncryptionInv, ViewInv, jobs = <<>>, Handle, UserJidsChanged(events[1]) \/ ListHidden(events[1])
    PROVE  Serves
<1> PICK e : e = events[1]
  OBVIOUS
<1>1. /\ UNCHANGED <<managerVars, watched, listed, open, detailed, shown>>
      /\ e.kind \in UserKinds
  BY DEF UserJidsChanged, ListHidden, chatVars, viewVars, UserKinds
<1>2. keys' = keys /\ DOMAIN memory'.devices = DOMAIN memory.devices
  BY <1>1 DEF Handle, tables, managerVars
<1>3. \A v : UsersStay(v)
  BY <1>1, <1>2, AllStay
<1>4. NoLabels /\ RightQueries
  <2>1. CASE ListHidden(e)
    <3>1. jobs' = <<>>
      BY <2>1 DEF ListHidden
    <3> QED BY <3>1, NothingQueued
  <2>2. CASE UserJidsChanged(e)
    <3> DEFINE a == [op |-> "userJids", chat |-> e.chat, first |-> FALSE]
    <3>1. a.op = "userJids" /\ a.chat = e.chat
      OBVIOUS
    <3>2. e.chat = Group
      <4>1. e.kind = "jids"
        BY <2>2 DEF UserJidsChanged
      <4>2. EventOK(events[1])
        BY HandledQueue, AfterHandle DEF EncryptionInv, QueuesOK, ViewInv
      <4> QED BY <4>1, <4>2 DEF EventOK
    <3>3. Queued(<<>>) \/ Queued(<<a>>)
      BY <2>2 DEF UserJidsChanged
    <3> HIDE DEF a
    <3>4. CASE Queued(<<>>)
      <4>1. jobs' = <<>>
        BY <3>4, NoReads, ReadsQueued
      <4> QED BY <4>1, NothingQueued
    <3>5. CASE Queued(<<a>>)
      <4>1. jobs' = <<a>>
        BY <3>1, <3>2, <3>5, OneRead, ReadsQueued
      <4>2. \A i \in DOMAIN jobs' : jobs'[i] = a
        BY <4>1, OneElement
      <4> QED BY <3>1, <4>2 DEF NoLabels, RightQueries
    <3> QED BY <3>3, <3>4, <3>5
  <2> QED BY <2>1, <2>2
<1>5. \A v \in Views : ViewServed(v)'
  <2> SUFFICES ASSUME NEW v \in Views PROVE ViewServed(v)'
    OBVIOUS
  <2>1. UsersStay(v) /\ ViewServed(v) /\ QueuesInTime /\ shown'[v] = shown[v]
    BY <1>1, <1>3 DEF ViewInv
  <2> QED BY <1>1, <1>4, <2>1, SignalServesView
<1>6. DOMAIN shown' = Views
  BY <1>1 DEF ViewInv
<1> QED BY <1>1, <1>4, <1>5, <1>6, ViewsKept DEF Serves

\* The views of other users than those of the watcher of the chat
LEMMA OtherUsersStay ==
    ASSUME UNCHANGED <<listed, open, detailed>>, keys' = keys,
           DOMAIN memory'.devices = DOMAIN memory.devices, NEW v \in Views, v # "chat watcher"
    PROVE  UsersStay(v)
<1>1. ListedJids' = ListedJids
  BY DEF ListedJids
<1>2. Jids(v)' = Jids(v)
  <2>1. CASE v \in {"account watcher", "account URI", "authenticated keys"}
    BY <2>1 DEF Jids
  <2>2. CASE v \in {"contact URI", "authenticatable keys"}
    BY <2>2 DEF Jids
  <2>3. CASE v = "key filter"
    BY <1>1, <2>3 DEF Jids
  <2> QED BY <2>1, <2>2, <2>3 DEF Views, Watchers, Details, Generators
<1>3. Shown(v)' <=> Shown(v)
  BY DEF Shown
<1> QED BY <1>2, <1>3 DEF UsersStay

\* What changes the users of the chat queries their devices for the watcher.
LEMMA UserJidsFetchedServes ==
    ASSUME EncryptionInv, ViewInv, jobs = <<>>, Handle, UserJidsFetched(events[1])
    PROVE  Serves
<1> PICK e : e = events[1]
  OBVIOUS
<1> DEFINE U == e.jids \ {Me}
           jids == [v \in {"chat watcher"} |-> U]
<1>1. /\ UNCHANGED <<managerVars, listed, open, detailed, shown>> /\ e.kind = "userJids"
  BY DEF UserJidsFetched, viewVars
<1>2. keys' = keys /\ DOMAIN memory'.devices = DOMAIN memory.devices
  BY <1>1 DEF Handle, tables, managerVars
<1>3. \/ watched' = watched /\ (UNCHANGED jobs \/ Queued(<<>>))
      \/ open = Group /\ watched' = U /\ Queued(Query(jids))
  <2>1. \/ UNCHANGED <<watched, jobs>>
        \/ e.chat = open /\ UpdateGroupChatEncryption(e.jids)
    BY DEF UserJidsFetched
  <2>2. e.chat = Group
    <3>1. EventOK(events[1])
      BY HandledQueue, AfterHandle DEF EncryptionInv, QueuesOK, ViewInv
    <3> QED BY <1>1, <3>1 DEF EventOK
  <2>3. UpdateGroupChatEncryption(e.jids) =>
            \/ watched' = watched /\ Queued(<<>>)
            \/ watched' = U /\ Queued(Query(jids))
    BY DEF UpdateGroupChatEncryption
  <2> QED BY <2>1, <2>2, <2>3
<1> HIDE DEF U, jids
<1>7. DOMAIN shown' = Views
  BY <1>1 DEF ViewInv
<1>4. ASSUME NEW v \in Views, UsersStay(v), NoLabels PROVE ViewServed(v)'
  <2>1. ViewServed(v) /\ QueuesInTime /\ shown'[v] = shown[v] /\ e.kind \in UserKinds
    BY <1>1 DEF ViewInv, UserKinds
  <2> QED BY <1>1, <1>4, <2>1, SignalServesView
<1>5. CASE watched' = watched /\ (UNCHANGED jobs \/ Queued(<<>>))
  <2>1. jobs' = <<>>
    BY <1>5, NoReads, ReadsQueued
  <2>2. NoLabels /\ RightQueries
    BY <2>1, NothingQueued
  <2>3. \A v : UsersStay(v)
    BY <1>1, <1>2, <1>5, AllStay
  <2> QED BY <1>1, <1>4, <1>5, <1>7, <2>2, <2>3, ViewsKept DEF Serves
<1>6. CASE open = Group /\ watched' = U /\ Queued(Query(jids))
  <2> PICK w : w = "chat watcher"
    OBVIOUS
  <2>1. DOMAIN jids = {w} /\ jids[w] = U
    BY DEF jids
  <2>2. Jids(w)' = U /\ w \in Views
    BY <1>6 DEF Jids, Views, Watchers
  <2>3. AnswerQueued(w)' /\ NoLabels /\ RightQueries
    BY <1>6, <2>1, <2>2, QueryServes
  <2>4. ViewServed(w)'
    BY <2>2, <2>3, QueuedServes
  <2>5. \A v \in Views : v # w => UsersStay(v)
    BY <1>1, <1>2, OtherUsersStay
  <2>6. open' # NoChat /\ (~detailed => listed = EmptyBag)'
    <3>1. EmptyBag' = EmptyBag /\ Group # NoChat
      BY ChatAssumption DEF EmptyBag
    <3> QED BY <1>1, <1>6, <3>1 DEF ViewInv
  <2> QED BY <1>4, <1>7, <2>3, <2>4, <2>5, <2>6 DEF Serves
<1> QED BY <1>3, <1>5, <1>6

\* The views of other users than those of the list
LEMMA UnlistedStay ==
    ASSUME UNCHANGED <<watched, open, detailed>>, keys' = keys,
           DOMAIN memory'.devices = DOMAIN memory.devices, NEW v \in Views, v # "key filter"
    PROVE  UsersStay(v)
<1>1. Jids(v)' = Jids(v)
  <2>1. CASE v \in {"account watcher", "account URI", "authenticated keys"}
    BY <2>1 DEF Jids
  <2>2. CASE v \in {"contact URI", "authenticatable keys"}
    BY <2>2 DEF Jids
  <2>3. CASE v = "chat watcher"
    BY <2>3 DEF Jids
  <2> QED BY <2>1, <2>2, <2>3 DEF Views, Watchers, Details, Generators
<1>2. Shown(v)' <=> Shown(v)
  BY DEF Shown
<1> QED BY <1>1, <1>2 DEF UsersStay

\* What changes the list queries the devices of its users for the filter.
LEMMA ListChangedServes ==
    ASSUME EncryptionInv, ViewInv, jobs = <<>>, Handle, ListChanged(events[1])
    PROVE  Serves
<1> PICK e : e = events[1]
  OBVIOUS
<1> PICK w : w = "key filter"
  OBVIOUS
<1> DEFINE U == ListedJids'
           jids == [v \in {w} |-> U]
<1>1. /\ UNCHANGED <<managerVars, watched, open, detailed>> /\ detailed
      /\ e.kind \in {"added", "updated", "removed", "users"}
  BY DEF ListChanged, chatVars
<1>2. keys' = keys /\ DOMAIN memory'.devices = DOMAIN memory.devices
  BY <1>1 DEF Handle, tables, managerVars
<1>3. \/ listed' = listed /\ UNCHANGED <<jobs, shown>>
      \/ U = {} /\ Queued(<<>>) /\ shown' = [shown EXCEPT ![w] = {}]
      \/ U # {} /\ Queued(Query(jids)) /\ shown' = shown
  BY DEF ListChanged
<1>4. DOMAIN shown = Views /\ w \in Views
  BY DEF ViewInv, Views, Details
<1>5. DOMAIN shown' = Views /\ \A v \in Views : v # w => shown'[v] = shown[v]
  BY <1>3, <1>4
<1>6. (open = NoChat => watched = {})' /\ (~detailed => listed = EmptyBag)'
  BY <1>1 DEF ViewInv
<1>7. Jids(w)' = U
  BY DEF Jids, Watchers
<1> HIDE DEF U, jids
<1>8. ASSUME NEW v \in Views, UsersStay(v), NoLabels, shown'[v] = shown[v] PROVE ViewServed(v)'
  <2>1. ViewServed(v) /\ QueuesInTime /\ e.kind \in UserKinds
    BY <1>1 DEF ViewInv, UserKinds
  <2> QED BY <1>1, <1>8, <2>1, SignalServesView
<1>9. \A v \in Views : v # w => UsersStay(v)
  BY <1>1, <1>2, UnlistedStay
<1>10. CASE listed' = listed /\ UNCHANGED <<jobs, shown>>
  <2>1. NoLabels /\ RightQueries
    BY <1>10, NothingQueued
  <2>2. \A v : UsersStay(v)
    BY <1>1, <1>2, <1>10, AllStay
  <2> QED BY <1>5, <1>6, <1>8, <1>10, <2>1, <2>2 DEF Serves
<1>11. CASE U = {} /\ Queued(<<>>) /\ shown' = [shown EXCEPT ![w] = {}]
  <2>1. jobs' = <<>>
    BY <1>11, NoReads, ReadsQueued
  <2>2. NoLabels /\ RightQueries
    BY <2>1, NothingQueued
  <2>3. ViewServed(w)'
    BY <1>7, <1>11 DEF ViewServed
  <2> QED BY <1>5, <1>6, <1>8, <1>9, <2>2, <2>3 DEF Serves
<1>12. CASE U # {} /\ Queued(Query(jids)) /\ shown' = shown
  <2>1. DOMAIN jids = {w} /\ jids[w] = U
    BY DEF jids
  <2>2. AnswerQueued(w)' /\ NoLabels /\ RightQueries
    BY <1>4, <1>7, <1>12, <2>1, QueryServes
  <2>3. ViewServed(w)'
    BY <1>4, <2>2, QueuedServes
  <2> QED BY <1>5, <1>6, <1>8, <1>9, <2>2, <2>3 DEF Serves
<1> QED BY <1>3, <1>10, <1>11, <1>12

\* Events after which no view shows anything else
LEMMA AskedServes ==
    ASSUME EncryptionInv, ViewInv, jobs = <<>>, Handle,
           UNCHANGED <<managerVars, watched, listed, open, detailed, shown>>,
           events[1].kind \in {"levels", "devices", "ownKey"}, NoLabels, RightQueries,
           \A v \in Views : EventAsks(events[1], v) /\ Jids(v) # {} => AnswerQueued(v)' \/ Asked(v)'
    PROVE  Serves
<1>1. /\ QueuesOK /\ Handled /\ QueuesInTime /\ ~Loading /\ ~Loading'
  BY AfterHandle DEF ViewInv, EncryptionInv
<1>2. Resetting => Resetting'
  BY <1>1, HandledResetting DEF managerVars
<1>3. keys' = keys /\ DOMAIN memory'.devices = DOMAIN memory.devices
  BY DEF Handle, tables, managerVars
<1>4. \A v : UsersStay(v)
  BY <1>3, AllStay
<1>5. ASSUME NEW v \in Views PROVE ViewServed(v)'
  <2>1. UsersStay(v) /\ ViewServed(v)
    BY <1>4 DEF ViewInv
  <2>2. CASE Jids(v) = {}
    BY <2>1, <2>2 DEF ViewServed, UsersStay
  <2>3. CASE Jids(v) # {}
    <3>1. 1 \notin AnswersAt(v) /\ 1 \notin LabelsAt(v)
      BY DEF AnswersAt, LabelsAt
    <3>2. 1 \notin RightAt(v) /\ 1 \notin RightLabelsAt(v)
      BY <3>1 DEF RightAt, RightLabelsAt
    <3>3. LabelledLater(v)
      BY DEF LabelledLater, NoLabels
    <3> QED BY <1>1, <1>2, <2>1, <2>3, <3>1, <3>2, <3>3, HandleServesView
  <2> QED BY <2>2, <2>3
<1>6. DOMAIN shown' = Views
  BY DEF ViewInv
<1> QED BY <1>5, <1>6, ViewsKept DEF Serves

LEMMA LevelsChangedServes ==
    ASSUME EncryptionInv, ViewInv, jobs = <<>>, Handle,
           LevelsChanged(events[1]) \/ DevicesChanged(events[1])
    PROVE  Serves
<1> PICK e : e = events[1]
  OBVIOUS
<1>1. /\ UNCHANGED <<managerVars, watched, listed, open, detailed, shown>>
      /\ e.kind \in {"levels", "devices"}
  BY DEF LevelsChanged, DevicesChanged, chatVars, viewVars
<1>2. PICK K, D : /\ Queued(Queries(Notified(K, D)))
                  /\ \A v : EventAsks(e, v) => v \in Notified(K, D)
  <2>1. CASE LevelsChanged(e)
    <3> DEFINE K == {k[1] : k \in e.keys}
               D == {d[1] : d \in DOMAIN memory.devices \cap e.keys}
    <3>1. e.kind = "levels" /\ Queued(Queries(Notified(K, D)))
      BY <2>1 DEF LevelsChanged
    <3>2. \A v : EventAsks(e, v) => v \in Notified(K, D)
      BY <3>1 DEF EventAsks
    <3> HIDE DEF K, D
    <3> QED BY <3>1, <3>2
  <2>2. CASE DevicesChanged(e)
    <3>1. e.kind = "devices" /\ Queued(Queries(Notified({}, e.jids)))
      BY <2>2 DEF DevicesChanged
    <3>2. \A v : EventAsks(e, v) => v \in Notified({}, e.jids)
      BY <3>1 DEF EventAsks
    <3> QED BY <3>1, <3>2
  <2> QED BY <2>1, <2>2
<1> PICK V : V = Notified(K, D)
  OBVIOUS
<1>3. V \subseteq Views
  BY DEF Notified
<1>4. \A v : Jids(v)' = Jids(v)
  BY <1>1, SameViews
<1>5. /\ \A v \in V : Jids(v) # {} => AnswerQueued(v)' \/ Asked(v)'
      /\ RightQueries /\ NoLabels
  BY <1>2, <1>3, <1>4, QueriesServe
<1> QED BY <1>1, <1>2, <1>5, AskedServes

LEMMA OwnKeyServes ==
    ASSUME EncryptionInv, ViewInv, jobs = <<>>, Handle, OwnKeyQueried(events[1])
    PROVE  Serves
<1> PICK e : e = events[1]
  OBVIOUS
<1> PICK w : w = "account URI"
  OBVIOUS
<1> DEFINE jids == [v \in {w} |-> {Me}]
<1>1. /\ UNCHANGED <<managerVars, watched, listed, open, detailed, shown>>
      /\ e.kind = "ownKey" /\ Queued(Query(jids))
  BY DEF OwnKeyQueried, chatVars, viewVars
<1>2. DOMAIN jids = {w} /\ jids[w] = {Me}
  OBVIOUS
<1> HIDE DEF jids
<1>3. Jids(w)' = {Me} /\ w \in Views
  BY DEF Jids, Views, Details, Generators
<1>4. AnswerQueued(w)' /\ NoLabels /\ RightQueries
  BY <1>1, <1>2, <1>3, QueryServes
<1>5. \A v \in Views : EventAsks(e, v) => v = w
  BY <1>1 DEF EventAsks
<1> QED BY <1>1, <1>4, <1>5, AskedServes

\* The views do not matter anymore once all devices are removed.
LEMMA ResetDoneServes ==
    ASSUME EncryptionInv, ViewInv, jobs = <<>>, Handle, ResetDone(events[1])
    PROVE  Serves
<1> PICK e : e = events[1]
  OBVIOUS
<1>1. /\ QueuesOK /\ Handled /\ QueuesInTime /\ ~Loading'
  BY AfterHandle DEF ViewInv, EncryptionInv
<1>2. /\ e.kind = "reset" /\ isLoaded' = FALSE /\ jobs' = <<>>
      /\ UNCHANGED <<isReset, watched, listed, open, detailed, shown>>
  BY DEF ResetDone, chatVars, viewVars
<1>3. EventInTime(1)
  BY <1>1, HandledQueue DEF QueuesInTime
<1>4. isReset
  BY <1>2, <1>3 DEF EventInTime
<1>5. Resetting'
  BY <1>1, <1>2, <1>4 DEF Resetting
<1>6. \A v \in Views : ViewServed(v)'
  BY <1>1, <1>5 DEF ViewServed
<1>7. DOMAIN shown' = Views
  BY <1>2 DEF ViewInv
<1> QED BY <1>2, <1>6, <1>7, NothingQueued, ViewsKept DEF Serves

\* load(): what was queried before is right for the devices that are loaded.
LEMMA LoadedServes ==
    ASSUME EncryptionInv, ViewInv, jobs = <<>>, Handle, Loaded(events[1])
    PROVE  Serves
<1> PICK e : e = events[1]
  OBVIOUS
<1>1. /\ QueuesOK /\ Handled /\ QueuesInTime /\ ~Loading'
  BY AfterHandle DEF ViewInv, EncryptionInv
<1>2. /\ e.kind = "loaded" /\ jobs' = <<>>
      /\ UNCHANGED <<isReset, watched, listed, open, detailed, shown>>
  BY DEF Loaded, chatVars, viewVars
<1>3. Loading
  BY <1>1, <1>2, HandledQueue DEF Loading
<1>4. keys' = keys /\ \A v : Jids(v)' = Jids(v) /\ (Shown(v)' <=> Shown(v))
  BY <1>2, SameViews DEF Handle, tables
<1>5. ASSUME NEW v \in Views, Shown(v), Jids(v) # {} PROVE Due(v)'
  <2>1. Due(v)
    BY <1>3, <1>5 DEF ViewInv, ViewServed
  <2>2. CASE Asked(v)
    <3>1. PICK i \in DOMAIN events : EventAsks(events[i], v)
      BY <2>2, NoJobs
    <3> PICK f : f = events[i]
      OBVIOUS
    <3>2. EventInTime(i)
      BY <1>1 DEF QueuesInTime
    <3>3. f.kind = "ownKey" /\ v = "account URI"
      BY <1>3, <3>1, <3>2 DEF EventInTime, EventAsks
    <3>4. i # 1
      BY <1>2, <3>3
    <3> PICK k : k = i - 1
      OBVIOUS
    <3>5. k \in DOMAIN events' /\ events'[k] = f
      BY <1>1, <3>4, HandledQueue
    <3>6. EventAsks(events[k], v)'
      BY <3>3, <3>5 DEF EventAsks
    <3> QED BY <3>5, <3>6 DEF Due, Asked
  <2>3. CASE Answered(v)
    <3>1. Ends(AnswersAt(v), RightAt(v)) /\ RightAt(v) # {}
      BY <2>3, NoJobs DEF Answered
    <3>2. ASSUME NEW i \in AnswersAt(v)' PROVE i + 1 \in AnswersAt(v)
      <4>1. i \in DOMAIN events' /\ events'[i].kind = "queried" /\ v \in DOMAIN events'[i].jids
        BY DEF AnswersAt
      <4>2. i + 1 \in DOMAIN events /\ events'[i] = events[i + 1]
        BY <1>1, <4>1, HandledQueue
      <4> QED BY <4>1, <4>2 DEF AnswersAt
    <3>3. ASSUME NEW i \in RightAt(v), i # 1 PROVE i - 1 \in RightAt(v)'
      <4> PICK k : k = i - 1
        OBVIOUS
      <4> PICK f : f = events[i]
        OBVIOUS
      <4> PICK U : U = Jids(v)
        OBVIOUS
      <4> PICK l : l = KeysOfUsers(U)
        OBVIOUS
      <4>1. /\ i \in DOMAIN events /\ f.kind = "queried" /\ v \in DOMAIN f.jids /\ f.jids[v] = U
        BY DEF RightAt, AnswersAt
      <4>2. EventInTime(i)
        BY <1>1, <4>1 DEF QueuesInTime
      <4>3. f.levels[v] = l
        BY <1>3, <4>1, <4>2 DEF EventInTime
      <4>4. k \in DOMAIN events' /\ events'[k] = f
        BY <1>1, <3>3, <4>1, HandledQueue
      <4>5. l = KeysOfUsers(U)' /\ U = Jids(v)'
        BY <1>4, KeysKept
      <4> PICK x : x = ViewOf(v, DOMAIN memory'.devices, U, l)
        OBVIOUS
      <4>6. Current(v)' = x
        BY <4>5 DEF Current
      <4>7. Accepts(v, Jids(v)', Current(v)', x)
        BY <4>5, <4>6, ShownIsAccepted
      <4>8. k \in AnswersAt(v)'
        BY <4>1, <4>4 DEF AnswersAt
      <4>9. events'[k].jids[v] = Jids(v)' /\ events'[k].levels[v] = l
        BY <4>1, <4>3, <4>4, <4>5
      <4>10. x = ViewOf(v, DOMAIN memory'.devices, Jids(v)', events'[k].levels[v])
        BY <4>5, <4>9
      <4> QED BY <4>7, <4>8, <4>9, <4>10 DEF RightAt
    <3> PICK A, R : A = AnswersAt(v) /\ R = RightAt(v)
      OBVIOUS
    <3> PICK B, S : B = AnswersAt(v)' /\ S = RightAt(v)'
      OBVIOUS
    <3>4. /\ A \subseteq Nat /\ R \subseteq A /\ B \subseteq Nat \ {0}
      <4>1. A \subseteq DOMAIN events /\ R \subseteq A /\ B \subseteq DOMAIN events'
        BY DEF AnswersAt, RightAt
      <4> QED BY <1>1, <4>1, HandledQueue
    <3>5. 1 \notin A
      BY <1>2 DEF AnswersAt
    <3>6. \A i \in B : i + 1 \in A
      BY <3>2
    <3>7. \A i \in R : i # 1 => i - 1 \in S
      BY <3>3
    <3>8. Ends(B, S) /\ (S # {} \/ R \subseteq {1})
      BY <3>1, <3>4, <3>6, <3>7, EndsMoved
    <3>9. S # {}
      BY <3>1, <3>4, <3>5, <3>8
    <3> QED BY <3>8, <3>9 DEF Due, Answered, LastAnswerRight, Ends
  <2> QED BY <2>1, <2>2, <2>3 DEF Due
<1>6. \A v \in Views : ViewServed(v)'
  BY <1>1, <1>4, <1>5 DEF ViewServed
<1>7. DOMAIN shown' = Views
  BY <1>2 DEF ViewInv
<1> QED BY <1>2, <1>6, <1>7, NothingQueued, ViewsKept DEF Serves

\* Results
LEMMA ResultServes ==
    ASSUME EncryptionInv, ViewInv, jobs = <<>>, Handle,
           UNCHANGED <<managerVars, watched, listed, open, detailed>>, DOMAIN shown' = Views,
           events[1].kind \in {"queried", "labels"}, RightQueries,
           \A v \in Views :
              /\ 1 \in RightAt(v) => LabelsQueued(v)' \/ (v # "authenticated keys" /\ ShownLater(v))
              /\ (1 \in AnswersAt(v) => 1 \in RightAt(v)) => LabelledLater(v)
              /\ 1 \in RightLabelsAt(v) => ShownLater(v)
              /\ 1 \notin AnswersAt(v) \cup LabelsAt(v) => shown'[v] = shown[v]
    PROVE  Serves
<1>1. /\ QueuesOK /\ Handled /\ QueuesInTime /\ ~Loading /\ ~Loading'
  BY AfterHandle DEF ViewInv, EncryptionInv
<1>2. Resetting => Resetting'
  BY <1>1, HandledResetting DEF managerVars
<1>3. keys' = keys /\ DOMAIN memory'.devices = DOMAIN memory.devices
  BY DEF Handle, tables, managerVars
<1>4. \A v : UsersStay(v)
  BY <1>3, AllStay
<1>5. ASSUME NEW v \in Views PROVE ViewServed(v)'
  <2>1. UsersStay(v) /\ ViewServed(v)
    BY <1>4 DEF ViewInv
  <2>2. ~EventAsks(events[1], v)
    BY DEF EventAsks
  <2> QED BY <1>1, <1>2, <2>1, <2>2, HandleServesView
<1> QED BY <1>5, ViewsKept DEF Serves

LEMMA QueriedServes ==
    ASSUME EncryptionInv, ViewInv, jobs = <<>>, Handle, Queried(events[1])
    PROVE  Serves
<1> PICK e : e = events[1]
  OBVIOUS
<1> PICK w : w = "authenticated keys"
  OBVIOUS
<1> PICK l : l = e.levels[w]
  OBVIOUS
<1> DEFINE job == [op |-> "labels", keys |-> AuthenticatedKeys(l)]
<1>1. e.kind = "queried" /\ UNCHANGED <<managerVars, watched, listed, open, detailed>>
  BY DEF Queried, chatVars
<1>2. /\ shown' = [v \in Views |-> IF v \in DOMAIN e.jids \ {w}
                                   THEN ViewOf(v, DOMAIN memory.devices, e.jids[v], e.levels[v])
                                   ELSE shown[v]]
      /\ IF w \in DOMAIN e.jids THEN Queued(<<job>>) ELSE Queued(<<>>)
  BY DEF Queried
<1>3. job.op = "labels" /\ job.keys = AuthenticatedKeys(l)
  OBVIOUS
<1> HIDE DEF job
<1>4. 1 \in DOMAIN events
  BY AfterHandle, HandledQueue DEF EncryptionInv, ViewInv
<1>5. /\ w \in DOMAIN e.jids => DOMAIN jobs' = {1} /\ jobs'[1] = job
      /\ w \notin DOMAIN e.jids => DOMAIN jobs' = {}
  <2>1. CASE w \in DOMAIN e.jids
    <3>1. jobs' = <<job>>
      BY <1>2, <1>3, <2>1, OneRead, ReadsQueued
    <3> QED BY <2>1, <3>1, OneElement
  <2>2. CASE w \notin DOMAIN e.jids
    <3>1. jobs' = <<>>
      BY <1>2, <2>2, NoReads, ReadsQueued
    <3> QED BY <2>2, <3>1, EmptyQueue
  <2> QED BY <2>1, <2>2
<1>6. RightQueries
  BY <1>3, <1>5 DEF RightQueries
<1>7. ASSUME NEW v \in Views, 1 \in RightAt(v)
      PROVE  /\ v \in DOMAIN e.jids
             /\ Accepts(v, Jids(v), Current(v), ViewOf(v, DOMAIN memory.devices, e.jids[v], e.levels[v]))
  BY <1>7 DEF RightAt, AnswersAt
<1>8. ASSUME 1 \in RightAt(w) PROVE Accepts(w, Jids(w), Current(w), AuthenticatedKeys(l))
  <2>1. ViewOf(w, DOMAIN memory.devices, e.jids[w], l) = AuthenticatedKeys(l)
    BY DEF ViewOf, Watchers, Generators
  <2>2. w \in Views
    BY DEF Views, Details
  <2> QED BY <1>7, <1>8, <2>1, <2>2
<1>9. ASSUME NEW v \in Views, 1 \in RightAt(v) PROVE LabelsQueued(v)' \/ (v # w /\ ShownLater(v))
  <2>1. v \in DOMAIN e.jids
    BY <1>7, <1>9
  <2>2. CASE v = w
    <3>1. 1 \in DOMAIN jobs' /\ jobs'[1].op = "labels"
      BY <1>3, <1>5, <2>1, <2>2
    <3> QED BY <2>2, <3>1 DEF LabelsQueued
  <2>3. CASE v # w
    <3>1. shown'[v] = ViewOf(v, DOMAIN memory.devices, e.jids[v], e.levels[v])
      BY <1>2, <2>1, <2>3
    <3> QED BY <1>7, <1>9, <2>3, <3>1 DEF ShownLater
  <2> QED BY <2>2, <2>3
<1>10. ASSUME NEW v \in Views, 1 \in AnswersAt(v) => 1 \in RightAt(v) PROVE LabelledLater(v)
  <2> SUFFICES ASSUME v = w, NEW i \in DOMAIN jobs'
               PROVE  Accepts(v, Jids(v), Current(v), jobs'[i].keys)
    BY DEF LabelledLater
  <2>1. w \in DOMAIN e.jids /\ jobs'[i].keys = AuthenticatedKeys(l)
    BY <1>3, <1>5
  <2>2. 1 \in AnswersAt(v)
    BY <1>1, <1>4, <2>1 DEF AnswersAt
  <2> QED BY <1>8, <1>10, <2>1, <2>2
<1>11. ASSUME NEW v \in Views
       PROVE  /\ 1 \notin RightLabelsAt(v)
              /\ 1 \notin AnswersAt(v) \cup LabelsAt(v) => shown'[v] = shown[v]
  <2>1. 1 \notin RightLabelsAt(v)
    BY <1>1 DEF RightLabelsAt, LabelsAt
  <2>2. 1 \notin AnswersAt(v) => v \notin DOMAIN e.jids
    BY <1>1, <1>4 DEF AnswersAt
  <2> QED BY <1>2, <2>1, <2>2
<1>12. DOMAIN shown' = Views
  BY <1>2
<1> QED BY <1>1, <1>6, <1>9, <1>10, <1>11, <1>12, ResultServes

LEMMA LabelsQueriedServes ==
    ASSUME EncryptionInv, ViewInv, jobs = <<>>, Handle, LabelsQueried(events[1])
    PROVE  Serves
<1> PICK e : e = events[1]
  OBVIOUS
<1> PICK w : w = "authenticated keys"
  OBVIOUS
<1>1. e.kind = "labels" /\ jobs' = <<>> /\ UNCHANGED <<managerVars, watched, listed, open, detailed>>
  BY DEF LabelsQueried, chatVars
<1>2. shown' = [shown EXCEPT ![w] = e.keys] /\ DOMAIN shown = Views /\ w \in Views
  BY DEF LabelsQueried, ViewInv, Views, Details
<1>3. DOMAIN shown' = Views /\ shown'[w] = e.keys /\ \A v \in Views : v # w => shown'[v] = shown[v]
  BY <1>2
<1>4. NoLabels /\ RightQueries
  BY <1>1, NothingQueued
<1>5. 1 \in DOMAIN events
  BY AfterHandle, HandledQueue DEF EncryptionInv, ViewInv
<1>6. ASSUME NEW v \in Views
      PROVE  /\ 1 \notin RightAt(v) /\ LabelledLater(v)
             /\ 1 \in RightLabelsAt(v) => ShownLater(v)
             /\ 1 \notin LabelsAt(v) => shown'[v] = shown[v]
  <2>1. 1 \notin RightAt(v)
    BY <1>1 DEF RightAt, AnswersAt
  <2>2. LabelledLater(v)
    BY <1>4 DEF LabelledLater, NoLabels
  <2>3. ASSUME 1 \in RightLabelsAt(v) PROVE ShownLater(v)
    <3>1. v = w /\ Accepts(v, Jids(v), Current(v), e.keys)
      BY <2>3 DEF RightLabelsAt, LabelsAt
    <3> QED BY <1>3, <3>1 DEF ShownLater
  <2>4. 1 \notin LabelsAt(v) => v # w
    BY <1>1, <1>5 DEF LabelsAt
  <2> QED BY <1>3, <2>1, <2>2, <2>3, <2>4
<1> QED BY <1>1, <1>3, <1>4, <1>6, ResultServes

LEMMA HandleServes ==
    ASSUME EncryptionInv, ViewInv, jobs = <<>>, Handle
    PROVE  ViewInv'
<1> PICK e : e = events[1]
  OBVIOUS
<1>1. /\ QueuesOK /\ Handled /\ QueuesInTime /\ ReadQueue(jobs') /\ ~Loading'
  BY AfterHandle DEF ViewInv, EncryptionInv
<1>2. e = Head(events)
  BY <1>1, HandledQueue
<1>3. \/ UserJidsFetched(e) \/ UserJidsChanged(e) \/ ListChanged(e) \/ ListHidden(e)
      \/ LevelsChanged(e) \/ DevicesChanged(e) \/ ResetDone(e) \/ Loaded(e)
      \/ Queried(e) \/ LabelsQueried(e) \/ OwnKeyQueried(e)
  BY <1>2 DEF Handle
<1>4. Serves
  BY <1>3, UserJidsFetchedServes, UserJidsChangedServes, ListChangedServes, LevelsChangedServes,
     ResetDoneServes, LoadedServes, QueriedServes, LabelsQueriedServes, OwnKeyServes
<1>5. isReset' = isReset
  BY <1>3 DEF UserJidsFetched, UserJidsChanged, ListChanged, ListHidden, LevelsChanged, DevicesChanged,
              ResetDone, Loaded, Queried, LabelsQueried, OwnKeyQueried, managerVars
<1>6. \A i \in DOMAIN events : EventInTime(i)
  BY <1>1 DEF QueuesInTime
<1>7. QueuesInTime'
  BY <1>1, <1>4, <1>5, <1>6, ReadsFollowed, HandledInTime DEF QueuesInTime, Serves
<1> QED BY <1>4, <1>7 DEF ViewInv, Serves

-----------------------------------------------------------------------------
(* What the main thread does while no job is queued and no event handled.  *)

LEMMA StillLoading ==
    ASSUME jobs = <<>>, events' = events, \A i \in DOMAIN jobs' : jobs'[i].op # "allData"
    PROVE  Loading' <=> Loading
<1>1. DOMAIN jobs = {}
  BY EmptyQueue
<1> QED BY <1>1 DEF Loading

LEMMA StillResetting ==
    ASSUME jobs = <<>>, events' = events, isReset => isReset' /\ isLoaded' = isLoaded,
           Loading' <=> Loading
    PROVE  Resetting => Resetting'
<1>1. DOMAIN jobs = {}
  BY EmptyQueue
<1>2. ASSUME NEW i \in DOMAIN events, events[i].kind = "reset" PROVE Resetting'
  BY <1>2 DEF Resetting
<1>3. ASSUME isReset /\ ~isLoaded /\ ~Loading PROVE Resetting'
  BY <1>3 DEF Resetting
<1> QED BY <1>1, <1>2, <1>3 DEF Resetting

LEMMA StillInTime ==
    ASSUME events' = events, keys' = keys, isReset => isReset', Loading' <=> Loading,
           NEW i \in DOMAIN events, EventInTime(i)
    PROVE  EventInTime(i)'
<1> PICK e : e = events[i]
  OBVIOUS
<1>1. e = events'[i]
  OBVIOUS
<1>2. \A U : KeysOfUsers(U)' = KeysOfUsers(U)
  BY KeysKept
<1>3. /\ e.kind = "loaded" => i = 1
      /\ e.kind \in {"levels", "devices", "labels"} => ~Loading
      /\ e.kind = "reset" => isReset /\ ~Loading
      /\ e.kind = "queried" =>
            /\ DOMAIN e.jids \subseteq Views
            /\ Loading => \A v \in DOMAIN e.jids : e.levels[v] = KeysOfUsers(e.jids[v])
  BY DEF EventInTime
<1>4. e.kind = "queried" =>
            /\ DOMAIN e.jids \subseteq Views
            /\ Loading' => \A v \in DOMAIN e.jids : e.levels[v] = KeysOfUsers(e.jids[v])'
  BY <1>2, <1>3
<1> QED BY <1>1, <1>3, <1>4 DEF EventInTime

\* Every view stays right, is asked or queried, shows nobody or is of data that is removed.
LEMMA MainServes ==
    ASSUME ViewInv, jobs = <<>>, events' = events, keys' = keys, shown' = shown,
           isReset => isReset' /\ isLoaded' = isLoaded,
           \A i \in DOMAIN jobs' : jobs'[i].op \notin {"allData", "labels"} /\ JobFollowed(i)',
           \A v \in Views : \/ UsersStay(v) \/ AnswerQueued(v)' \/ Asked(v)'
                            \/ Jids(v)' = {} \/ (~Loading /\ Resetting'),
           (open = NoChat => watched = {})', (~detailed => listed = EmptyBag)'
    PROVE  ViewInv'
<1>1. Loading' <=> Loading
  BY StillLoading
<1>2. Resetting => Resetting'
  BY <1>1, StillResetting
<1>3. \A i \in DOMAIN events' : EventInTime(i)'
  BY <1>1, StillInTime DEF ViewInv, QueuesInTime
<1>4. QueuesInTime'
  BY <1>3 DEF QueuesInTime
<1>5. ASSUME NEW v \in Views PROVE ViewServed(v)'
  <2>1. CASE UsersStay(v)
    <3>1. ViewServed(v) /\ \A i \in DOMAIN jobs' : jobs'[i].op # "labels"
      BY DEF ViewInv
    <3> QED BY <1>1, <1>2, <2>1, <3>1, MainServesView
  <2>2. CASE AnswerQueued(v)' \/ Asked(v)'
    BY <2>2, QueuedServes
  <2>3. CASE Jids(v)' = {} \/ (~Loading /\ Resetting')
    BY <1>1, <2>3 DEF ViewServed
  <2> QED BY <2>1, <2>2, <2>3
<1>6. DOMAIN shown' = Views
  BY DEF ViewInv
<1> QED BY <1>4, <1>5, <1>6 DEF ViewInv

\* Jobs that change no key and tell no view anything
Silent(job) ==
    job.op \in OmemoOps \cup UserOps \cup {"addPostponed", "removeMade", "setSecurityPolicy",
                                           "setOwnKey", "ownKey", "users", "userJids"}

LEMMA SilentFollowed ==
    ASSUME NEW i, Silent(jobs'[i])
    PROVE  jobs'[i].op \notin {"allData", "labels"} /\ JobFollowed(i)'
<1> PICK job : job = jobs'[i]
  OBVIOUS
<1>1. Silent(job)
  OBVIOUS
<1>2. job.op \notin {"allData", "labels", "removeKeys", "setTrustLevel", "setTrustLevels", "resetTrust",
                     "report", "addKeys", "resetAccount", "report all", "query"}
  BY <1>1 DEF Silent, OmemoOps, UserOps
<1> QED BY <1>2 DEF JobFollowed

\* The views go on showing the same users and devices.
LEMMA StayServes ==
    ASSUME ViewInv, jobs = <<>>, Aside, UNCHANGED <<watched, listed, open, detailed, shown>>,
           DOMAIN memory'.devices = DOMAIN memory.devices,
           isReset => isReset' /\ isLoaded' = isLoaded,
           \A i \in DOMAIN jobs' : jobs'[i].op \notin {"allData", "labels"} /\ JobFollowed(i)'
    PROVE  ViewInv'
<1>1. keys' = keys /\ events' = events
  BY DEF Aside, tables
<1>2. \A v : UsersStay(v)
  BY <1>1, AllStay
<1>3. (open = NoChat => watched = {})' /\ (~detailed => listed = EmptyBag)'
  BY ViewsKept
<1> QED BY <1>1, <1>2, <1>3, MainServes

LEMMA SilentServes ==
    ASSUME ViewInv, jobs = <<>>, Aside, UNCHANGED <<watched, listed, open, detailed, shown>>,
           DOMAIN memory'.devices = DOMAIN memory.devices,
           isReset => isReset' /\ isLoaded' = isLoaded,
           \A i \in DOMAIN jobs' : Silent(jobs'[i])
    PROVE  ViewInv'
BY SilentFollowed, StayServes

LEMMA ConnectServes ==
    ASSUME ViewInv, jobs = <<>>, Connect \/ Disconnect
    PROVE  ViewInv'
<1>1. /\ Aside /\ jobs' = jobs
      /\ UNCHANGED <<memory, isLoaded, isReset, watched, listed, open, detailed, shown>>
  BY DEF Connect, Disconnect, Aside, chatVars, viewVars, managerVars
<1>2. DOMAIN jobs' = {}
  BY <1>1, EmptyQueue
<1> QED BY <1>1, <1>2, SilentServes

LEMMA DeviceListsRequestedServes ==
    ASSUME EncryptionInv, ViewInv, jobs = <<>>, NEW U \in requests, DeviceListsRequested(U)
    PROVE  ViewInv'
<1>1. /\ Aside /\ UNCHANGED <<isLoaded, isReset, watched, listed, open, detailed, shown>>
      /\ BuildSessions(U \cup {Me}) /\ Queued(Stored(Unbuilt(U \cup {Me})))
  BY DEF DeviceListsRequested, Aside, viewVars
<1>2. \A i \in DOMAIN jobs' : jobs'[i].op = "addDevice"
  BY <1>1, SessionsWritten DEF EncryptionInv
<1>3. \A i \in DOMAIN jobs' : Silent(jobs'[i])
  BY <1>2 DEF Silent, OmemoOps
<1>4. DOMAIN memory'.devices = DOMAIN memory.devices
  <2> DEFINE table == [d \in DOMAIN memory.devices |->
                          IF d \in Unbuilt(U \cup {Me}) THEN "session" ELSE memory.devices[d]]
  <2>1. memory' = [memory EXCEPT !.devices = table] /\ DOMAIN table = DOMAIN memory.devices
    BY <1>1 DEF BuildSessions
  <2>2. memory = AllData(Me) \/ memory = NoMemory
    BY MemoryWithoutJobs DEF EncryptionInv
  <2> HIDE DEF table
  <2> QED BY <2>1, <2>2 DEF AllData, NoMemory
<1> QED BY <1>1, <1>3, <1>4, SilentServes

LEMMA SetUpServes ==
    ASSUME EncryptionInv, ViewInv, jobs = <<>>, SetUp
    PROVE  ViewInv'
<1> DEFINE a == [op |-> "setSecurityPolicy", store |-> store, policy |-> "Toakafa"]
           b == [op |-> "addSignedPreKeyPair", id |-> 1]
           c == [op |-> "addPreKeyPairs", ids |-> {1}]
           d == [op |-> "setOwnKey", store |-> store, key |-> CHOOSE k \in Keys : TRUE]
           e == [op |-> "setOwnDevice", device |-> "device"]
           s == <<a, b, c, d, e>>
<1>1. Queued(s)
  BY DEF SetUp
<1>2. Silent(a) /\ Silent(b) /\ Silent(c) /\ Silent(d) /\ Silent(e)
  BY DEF Silent, OmemoOps
<1> HIDE DEF a, b, c, d, e
<1>3. IsSequence(s) /\ DOMAIN s = 1..5 /\ \A i \in DOMAIN s : s[i] \in {a, b, c, d, e}
  BY FiveElements
<1>4. jobs' = s
  BY <1>1, <1>3, FromEmpty DEF Queued
<1> HIDE DEF s
<1>5. \A i \in DOMAIN jobs' : Silent(jobs'[i])
  BY <1>2, <1>3, <1>4
<1>6. DOMAIN memory'.devices = DOMAIN memory.devices
  <2>1. memory' = [memory EXCEPT !.ownDevice = "device", !.signedPreKeyPairs = {1}, !.preKeyPairs = {1}]
    BY DEF SetUp
  <2>2. memory = AllData(Me) \/ memory = NoMemory
    BY MemoryWithoutJobs DEF EncryptionInv
  <2> QED BY <2>1, <2>2 DEF AllData, NoMemory
<1>7. Aside /\ UNCHANGED <<watched, listed, open, detailed, shown>> /\ ~isReset
  BY DEF SetUp, Unchanged, Aside, chatVars, viewVars
<1> QED BY <1>5, <1>6, <1>7, SilentServes

LEMMA TrustMessageServes ==
    ASSUME ViewInv, jobs = <<>>, NEW sender, NEW k, NEW trust, TrustMessageReceived(sender, k, trust)
    PROVE  ViewInv'
<1> DEFINE job == [op |-> "addPostponed", store |-> store, sender |-> sender,
                   trusted |-> IF trust THEN {k} ELSE {}, distrusted |-> IF trust THEN {} ELSE {k}]
<1>1. Silent(job)
  BY DEF Silent
<1>2. /\ Queued(<<job>>) /\ Aside /\ UNCHANGED <<watched, listed, open, detailed, shown>>
      /\ UNCHANGED <<memory, isLoaded, isReset>>
  BY DEF TrustMessageReceived, Unchanged, Aside, chatVars, viewVars, managerVars
<1> HIDE DEF job
<1>3. jobs' = <<job>> /\ DOMAIN jobs' = {1} /\ jobs'[1] = job
  BY <1>2, OneElement, FromEmpty DEF Queued
<1> QED BY <1>1, <1>2, <1>3, SilentServes

LEMMA ReplaceKeyPairsServes ==
    ASSUME EncryptionInv, ViewInv, jobs = <<>>, ReplaceKeyPairs(1, 2)
    PROVE  ViewInv'
<1>1. memory = AllData(Me)
  BY LoadedManager, MemoryWithoutJobs DEF EncryptionInv, ReplaceKeyPairs
<1>2. memory.signedPreKeyPairs \subseteq {1, 2}
  BY <1>1 DEF AllData, SignedPreKeyPairsOf, EncryptionInv, TablesOK, PairIds
<1>3. \A i \in DOMAIN jobs' :
          jobs'[i].op \in {"addSignedPreKeyPair", "removeSignedPreKeyPair", "removePreKeyPair",
                           "addPreKeyPairs"}
  BY <1>2, KeyPairJobs
<1>4. \A i \in DOMAIN jobs' : Silent(jobs'[i])
  BY <1>3 DEF Silent, OmemoOps
<1>5. DOMAIN memory'.devices = DOMAIN memory.devices
  <2>1. memory' = [memory EXCEPT !.signedPreKeyPairs = {2},
                                 !.preKeyPairs = (memory.preKeyPairs \ {1}) \cup {2}]
    BY DEF ReplaceKeyPairs
  <2> QED BY <1>1, <2>1 DEF AllData
<1>6. Aside /\ UNCHANGED <<isLoaded, isReset, watched, listed, open, detailed, shown>>
  BY DEF ReplaceKeyPairs, Unchanged, Aside, chatVars, viewVars
<1> QED BY <1>4, <1>5, <1>6, SilentServes

LEMMA GroupStepServes ==
    ASSUME ViewInv, jobs = <<>>, GroupStep
    PROVE  ViewInv'
<1>1. PICK job : Queued(<<job>>) /\ job.op \in UserOps
  BY GroupJob
<1>2. jobs' = <<job>> /\ DOMAIN jobs' = {1} /\ jobs'[1] = job
  BY <1>1, OneElement, FromEmpty DEF Queued
<1>3. \A i \in DOMAIN jobs' : Silent(jobs'[i])
  BY <1>1, <1>2 DEF Silent
<1>4. /\ Aside /\ UNCHANGED <<memory, isLoaded, isReset, watched, listed, open, detailed, shown>>
  BY DEF GroupStep, Aside, chatVars, viewVars, managerVars
<1> QED BY <1>3, <1>4, SilentServes

\* Decisions are reported by the jobs that make them.
LEMMA DecisionOps ==
    ASSUME NEW K, NEW level
    PROVE  /\ IsSequence(DecisionsAbout(K, level))
           /\ \A i \in DOMAIN DecisionsAbout(K, level) :
                 DecisionsAbout(K, level)[i].op \in {"setTrustLevel", "setTrustLevels", "removeMade"}
<1> DEFINE a == [op |-> "setTrustLevel", store |-> store, keys |-> K, level |-> level]
           b == [op |-> "setTrustLevels", store |-> store, owners |-> {k[1] : k \in K},
                 old |-> "AutomaticallyTrusted", new |-> "AutomaticallyDistrusted"]
           c == [op |-> "removeMade", store |-> store, trusted |-> {k[2] : k \in K},
                 distrusted |-> {k[2] : k \in K}]
           m == IF level = "Authenticated" THEN <<b>> ELSE <<>>
           Ops == {"setTrustLevel", "setTrustLevels", "removeMade"}
<1>1. a.op \in Ops /\ b.op \in Ops /\ c.op \in Ops
  OBVIOUS
<1>2. DecisionsAbout(K, level) = <<a>> \o m \o <<c>>
  BY DEF DecisionsAbout
<1> HIDE DEF a, b, c, Ops
<1> DEFINE Good(s) == IsSequence(s) /\ \A i \in DOMAIN s : s[i].op \in Ops
<1>3. Good(<<a>>) /\ Good(<<b>>) /\ Good(<<c>>) /\ Good(<<>>)
  BY <1>1, OneElement, EmptyQueue
<1>4. Good(m)
  BY <1>3
<1>5. ASSUME NEW s, NEW t, Good(s), Good(t) PROVE Good(s \o t)
  <2>1. /\ IsSequence(s \o t)
        /\ \A i \in DOMAIN (s \o t) :
              \/ i \in DOMAIN s /\ (s \o t)[i] = s[i]
              \/ i - Len(s) \in DOMAIN t /\ (s \o t)[i] = t[i - Len(s)]
    BY <1>5, Joined
  <2>2. \A i \in DOMAIN s : s[i].op \in Ops
    BY <1>5
  <2>3. \A i \in DOMAIN t : t[i].op \in Ops
    BY <1>5
  <2> QED BY <2>1, <2>2, <2>3
<1> HIDE DEF Good, m
<1>6. Good(<<a>> \o m \o <<c>>)
  BY <1>3, <1>4, <1>5
<1> QED BY <1>2, <1>6 DEF Good, Ops

LEMMA DecisionsServe ==
    ASSUME EncryptionInv, ViewInv, jobs = <<>>, NEW jid, NEW expected, NEW T, NEW D,
           MakeTrustDecisionsWithUri(jid, expected, T, D)
    PROVE  ViewInv'
<1> DEFINE a == IF T = {} THEN <<>> ELSE DecisionsAbout({jid} \X T, "Authenticated")
           b == IF D = {} THEN <<>> ELSE DecisionsAbout({jid} \X D, "ManuallyDistrusted")
           Ops == {"setTrustLevel", "setTrustLevels", "removeMade"}
           Good(s) == IsSequence(s) /\ \A i \in DOMAIN s : s[i].op \in Ops
<1>1. Good(<<>>)
  BY EmptyQueue
<1>2. Good(DecisionsAbout({jid} \X T, "Authenticated"))
  BY DecisionOps
<1>3. Good(DecisionsAbout({jid} \X D, "ManuallyDistrusted"))
  BY DecisionOps
<1>4. Good(a) /\ Good(b)
  BY <1>1, <1>2, <1>3
<1>5. Queued(IF expected \notin {NoJid, jid} THEN <<>> ELSE a \o b)
  BY DEF MakeTrustDecisionsWithUri
<1> HIDE DEF a, b, Ops
<1>6. Good(a \o b)
  <2>1. /\ IsSequence(a \o b)
        /\ \A i \in DOMAIN (a \o b) :
              \/ i \in DOMAIN a /\ (a \o b)[i] = a[i]
              \/ i - Len(a) \in DOMAIN b /\ (a \o b)[i] = b[i - Len(a)]
    BY <1>4, Joined
  <2>2. \A i \in DOMAIN a : a[i].op \in Ops
    BY <1>4
  <2>3. \A i \in DOMAIN b : b[i].op \in Ops
    BY <1>4
  <2> QED BY <2>1, <2>2, <2>3
<1>7. PICK s : Good(s) /\ Queued(s)
  BY <1>1, <1>5, <1>6
<1>8. jobs' = s
  BY <1>7, FromEmpty DEF Queued
<1>9. \A i \in DOMAIN jobs' : jobs'[i].op \in {"setTrustLevel", "setTrustLevels", "removeMade"}
  BY <1>7, <1>8 DEF Ops
<1>10. /\ Aside /\ UNCHANGED <<memory, isLoaded, isReset, watched, listed, open, detailed, shown>>
       /\ isLoaded
  BY DEF MakeTrustDecisionsWithUri, Unchanged, Aside, chatVars, viewVars, managerVars
<1>11. ~Loading'
  BY <1>9, <1>10, LoadedManager, StillLoading DEF Aside
<1>12. \A i \in DOMAIN jobs' : jobs'[i].op \notin {"allData", "labels"} /\ JobFollowed(i)'
  BY <1>9, <1>11 DEF JobFollowed
<1> QED BY <1>10, <1>12, StayServes

LEMMA OtherAccountServes ==
    ASSUME EncryptionInv, ViewInv, jobs = <<>>, OtherAccount
    PROVE  ViewInv'
<1>1. PICK account \in Accounts \ {Me}, e \in Encryptions, o \in Owners :
          Queued(<<[op |-> "addKeys", store |-> [account |-> account, encryption |-> e], owner |-> o,
                    keys |-> Keys, level |-> "Authenticated"],
                   [op |-> "resetAccount", account |-> account]>>)
  BY DEF OtherAccount
<1> DEFINE a == [op |-> "addKeys", store |-> [account |-> account, encryption |-> e], owner |-> o,
                 keys |-> Keys, level |-> "Authenticated"]
           b == [op |-> "resetAccount", account |-> account]
<1>2. a.op = "addKeys" /\ a.store # store
  BY DEF store
<1>3. b.op = "resetAccount" /\ b.account # Me
  OBVIOUS
<1>4. Queued(<<a, b>>)
  BY <1>1
<1> HIDE DEF a, b
<1>5. jobs' = <<a, b>> /\ \A i \in DOMAIN jobs' : jobs'[i] \in {a, b}
  BY <1>4, TwoElements, FromEmpty DEF Queued
<1>6. \A i \in DOMAIN jobs' : jobs'[i].op \notin {"allData", "labels"} /\ JobFollowed(i)'
  <2> SUFFICES ASSUME NEW i \in DOMAIN jobs'
               PROVE  jobs'[i].op \notin {"allData", "labels"} /\ JobFollowed(i)'
    OBVIOUS
  <2>1. store' = store
    BY DEF store
  <2>2. CASE jobs'[i] = a
    BY <1>2, <2>1, <2>2 DEF JobFollowed
  <2>3. CASE jobs'[i] = b
    BY <1>3, <2>3 DEF JobFollowed
  <2> QED BY <1>5, <2>2, <2>3
<1>7. Aside /\ UNCHANGED <<memory, isLoaded, isReset, watched, listed, open, detailed, shown>>
  BY DEF OtherAccount, Unchanged, Aside, chatVars, viewVars, managerVars
<1> QED BY <1>6, <1>7, StayServes

\* No view is updated anymore once the data is removed.
LEMMA ResetServes ==
    ASSUME EncryptionInv, ViewInv, jobs = <<>>, Reset
    PROVE  ViewInv'
<1>14. PICK all : all = "report all"
  OBVIOUS
<1> DEFINE a == [op |-> "resetOmemo"]
           b == [op |-> "resetTrust", store |-> store]
           c == [op |-> all]
<1>1. Queued(<<a, b, c>>)
  BY <1>14 DEF Reset
<1>2. a.op = "resetOmemo" /\ b.op = "resetTrust" /\ c.op = all
  OBVIOUS
<1> HIDE DEF a, b, c
<1>3. /\ jobs' = <<a, b, c>> /\ DOMAIN jobs' = {1, 2, 3}
      /\ jobs'[1] = a /\ jobs'[2] = b /\ jobs'[3] = c
  <2>1. IsSequence(<<a, b, c>>)
    BY ThreeElements
  <2>2. jobs' = <<a, b, c>>
    BY <1>1, <2>1, FromEmpty DEF Queued
  <2> QED BY <2>2, ThreeElements
<1>4. /\ Aside /\ UNCHANGED <<isLoaded, watched, listed, open, detailed, shown>>
      /\ isLoaded /\ isReset' /\ ~isReset /\ keys' = keys /\ events' = events
  BY DEF Reset, Unchanged, Aside, chatVars, viewVars, tables
<1>5. all \notin {"allData", "labels", "removeKeys", "setTrustLevel", "setTrustLevels", "resetTrust",
                  "report", "addKeys", "resetAccount", "query"}
  BY <1>14
<1>6. \A i \in DOMAIN jobs' : jobs'[i].op \notin {"allData", "labels"}
  BY <1>2, <1>3, <1>5
<1>7. ~Loading /\ ~Loading'
  BY <1>4, <1>6, LoadedManager, StillLoading
<1>8. JobFollowed(1)'
  <2>1. Silent(jobs'[1])
    BY <1>2, <1>3 DEF Silent, OmemoOps
  <2> QED BY <2>1, SilentFollowed
<1>9. JobFollowed(2)'
  <2>1. \E j \in DOMAIN jobs' : j > 2 /\ jobs'[j].op = all
    <3>1. 3 \in DOMAIN jobs' /\ 3 > 2 /\ jobs'[3].op = all
      BY <1>2, <1>3
    <3> QED BY <3>1
  <2>2. jobs'[2].op = "resetTrust"
    BY <1>2, <1>3
  <2> QED BY <1>7, <1>14, <2>1, <2>2 DEF JobFollowed
<1>10. JobFollowed(3)'
  <2>1. jobs'[3].op = all
    BY <1>2, <1>3
  <2> QED BY <1>4, <1>5, <1>7, <1>14, <2>1 DEF JobFollowed
<1>11. Resetting'
  <2>1. 3 \in DOMAIN jobs' /\ jobs'[3].op = all
    BY <1>2, <1>3
  <2> QED BY <1>14, <2>1 DEF Resetting
<1>12. \A i \in DOMAIN jobs' : jobs'[i].op \notin {"allData", "labels"} /\ JobFollowed(i)'
  BY <1>3, <1>6, <1>8, <1>9, <1>10
<1>13. (open = NoChat => watched = {})' /\ (~detailed => listed = EmptyBag)'
  BY <1>4, ViewsKept
<1> QED BY <1>4, <1>7, <1>11, <1>12, <1>13, MainServes

\* A device or the devices of an owner come or go: what is queued reports that after the keys did.
LEMMA DevicesServe ==
    ASSUME EncryptionInv, ViewInv, jobs = <<>>, Aside,
           UNCHANGED <<isLoaded, isReset, watched, listed, open, detailed, shown>>, isLoaded,
           NEW o, NEW a, NEW b, NEW c, Queued(<<a, b, c>>),
           Silent(a), c.op = "report", c.jids = {o},
           \/ b.op = "removeKeys" /\ b.owners = {o}
           \/ /\ b.op = "addKeys" /\ b.owner = o
              /\ b.level \in {"AutomaticallyTrusted", "AutomaticallyDistrusted"},
           \A d : d[1] # o => (d \in DOMAIN memory'.devices <=> d \in DOMAIN memory.devices)
    PROVE  ViewInv'
<1>1. /\ jobs' = <<a, b, c>> /\ DOMAIN jobs' = {1, 2, 3}
      /\ jobs'[1] = a /\ jobs'[2] = b /\ jobs'[3] = c
  <2>1. IsSequence(<<a, b, c>>)
    BY ThreeElements
  <2>2. jobs' = <<a, b, c>>
    BY <2>1, FromEmpty DEF Queued
  <2> QED BY <2>2, ThreeElements
<1>2. Silent(jobs'[1])
  BY <1>1
<1>3. keys' = keys /\ events' = events
  BY DEF Aside, tables
<1>4. jobs'[1].op \notin {"allData", "labels"} /\ JobFollowed(1)'
  BY <1>2, SilentFollowed
<1>5. b.op \notin {"allData", "labels"} /\ c.op \notin {"allData", "labels"}
  OBVIOUS
<1>6. \A i \in DOMAIN jobs' : jobs'[i].op \notin {"allData", "labels"}
  BY <1>1, <1>4, <1>5
<1>7. ~Loading /\ ~Loading'
  BY <1>3, <1>6, LoadedManager, StillLoading
<1>8. 3 \in DOMAIN jobs' /\ 3 > 2 /\ jobs'[3].op = "report" /\ jobs'[3].jids = {o}
  BY <1>1
<1>9. JobFollowed(2)'
  <2>1. CASE b.op = "removeKeys" /\ b.owners = {o}
    <3>1. \E j \in DOMAIN jobs' : j > 2 /\ jobs'[j].op = "report" /\ b.owners \subseteq jobs'[j].jids
      BY <1>8, <2>1
    <3> QED BY <1>1, <1>7, <2>1, <3>1 DEF JobFollowed
  <2>2. CASE /\ b.op = "addKeys" /\ b.owner = o
             /\ b.level \in {"AutomaticallyTrusted", "AutomaticallyDistrusted"}
    <3>1. \E j \in DOMAIN jobs' : j > 2 /\ jobs'[j].op = "report" /\ b.owner \in jobs'[j].jids
      BY <1>8, <2>2
    <3> QED BY <1>1, <1>7, <2>2, <3>1 DEF JobFollowed
  <2> QED BY <2>1, <2>2
<1>10. JobFollowed(3)'
  BY <1>7, <1>8 DEF JobFollowed
<1>11. \A i \in DOMAIN jobs' : jobs'[i].op \notin {"allData", "labels"} /\ JobFollowed(i)'
  BY <1>1, <1>4, <1>6, <1>9, <1>10
<1>12. ASSUME NEW v \in Views PROVE UsersStay(v) \/ Asked(v)'
  <2>1. Jids(v)' = Jids(v) /\ (Shown(v)' <=> Shown(v))
    BY SameViews
  <2>2. CASE v \in Generators \/ o \notin Jids(v)
    <3>1. v \in Generators \/ \A d : d[1] \in Jids(v) =>
                                  (d \in DOMAIN memory'.devices <=> d \in DOMAIN memory.devices)
      BY <2>2
    <3> QED BY <1>3, <2>1, <3>1 DEF UsersStay
  <2>3. CASE v \notin Generators /\ o \in Jids(v)
    <3>1. v \in OnDevices
      BY <2>3 DEF OnDevices
    <3>2. JobAsks(jobs[3], v)'
      BY <1>8, <2>1, <2>3, <3>1 DEF JobAsks
    <3> QED BY <1>8, <3>2 DEF Asked
  <2> QED BY <2>2, <2>3
<1>13. (open = NoChat => watched = {})' /\ (~detailed => listed = EmptyBag)'
  BY ViewsKept
<1> QED BY <1>3, <1>11, <1>12, <1>13, MainServes

LEMMA DeviceReceivedServes ==
    ASSUME EncryptionInv, ViewInv, jobs = <<>>, NEW d \in Devices, DeviceReceived(d)
    PROVE  ViewInv'
<1>1. PICK level \in {"AutomaticallyTrusted", "AutomaticallyDistrusted"} :
          Queued(<<[op |-> "addDevice", device |-> d, session |-> "no session"],
                   [op |-> "addKeys", store |-> store, owner |-> d[1], keys |-> {d[2]},
                    level |-> level],
                   [op |-> "report", jids |-> {d[1]}]>>)
  BY DEF DeviceReceived
<1> DEFINE a == [op |-> "addDevice", device |-> d, session |-> "no session"]
           b == [op |-> "addKeys", store |-> store, owner |-> d[1], keys |-> {d[2]},
                 level |-> level]
           c == [op |-> "report", jids |-> {d[1]}]
           table == [e \in DOMAIN memory.devices \cup {d} |->
                        IF e = d THEN "no session" ELSE memory.devices[e]]
<1>2. Silent(a) /\ c.op = "report" /\ c.jids = {d[1]}
  BY DEF Silent, OmemoOps
<1>3. b.op = "addKeys" /\ b.owner = d[1] /\ b.level \in {"AutomaticallyTrusted", "AutomaticallyDistrusted"}
  OBVIOUS
<1>4. Queued(<<a, b, c>>)
  BY <1>1
<1>5. memory' = [memory EXCEPT !.devices = table] /\ DOMAIN table = DOMAIN memory.devices \cup {d}
  BY DEF DeviceReceived
<1> HIDE DEF a, b, c, table
<1>6. DOMAIN memory'.devices = DOMAIN memory.devices \cup {d}
  <2>1. memory = AllData(Me)
    BY LoadedManager, MemoryWithoutJobs DEF EncryptionInv, DeviceReceived
  <2> QED BY <1>5, <2>1 DEF AllData
<1>7. /\ Aside /\ UNCHANGED <<isLoaded, isReset, watched, listed, open, detailed, shown>> /\ isLoaded
  BY DEF DeviceReceived, Unchanged, Aside, chatVars, viewVars
<1>8. \A f : f[1] # d[1] => (f \in DOMAIN memory'.devices <=> f \in DOMAIN memory.devices)
  BY <1>6
<1> QED BY <1>2, <1>3, <1>4, <1>7, <1>8, DevicesServe

LEMMA DeviceRemovedServes ==
    ASSUME EncryptionInv, ViewInv, jobs = <<>>, NEW d \in Devices, DeviceRemoved(d)
    PROVE  ViewInv'
<1> DEFINE a == [op |-> "removeDevice", device |-> d]
           b == [op |-> "removeKeys", store |-> store, owners |-> {d[1]}, keys |-> {d[2]}]
           c == [op |-> "report", jids |-> {d[1]}]
           table == [e \in DOMAIN memory.devices \ {d} |-> memory.devices[e]]
<1>1. Queued(<<a, b, c>>)
  BY DEF DeviceRemoved
<1>2. Silent(a) /\ c.op = "report" /\ c.jids = {d[1]}
  BY DEF Silent, OmemoOps
<1>3. b.op = "removeKeys" /\ b.owners = {d[1]}
  OBVIOUS
<1>4. memory' = [memory EXCEPT !.devices = table] /\ DOMAIN table = DOMAIN memory.devices \ {d}
  BY DEF DeviceRemoved
<1> HIDE DEF a, b, c, table
<1>5. DOMAIN memory'.devices = DOMAIN memory.devices \ {d}
  <2>1. memory = AllData(Me)
    BY LoadedManager, MemoryWithoutJobs DEF EncryptionInv, DeviceRemoved
  <2> QED BY <1>4, <2>1 DEF AllData
<1>6. /\ Aside /\ UNCHANGED <<isLoaded, isReset, watched, listed, open, detailed, shown>> /\ isLoaded
  BY DEF DeviceRemoved, Unchanged, Aside, chatVars, viewVars
<1>7. \A f : f[1] # d[1] => (f \in DOMAIN memory'.devices <=> f \in DOMAIN memory.devices)
  BY <1>5
<1> QED BY <1>1, <1>2, <1>3, <1>6, <1>7, DevicesServe

LEMMA RemoveContactDevicesServes ==
    ASSUME EncryptionInv, ViewInv, jobs = <<>>, NEW jid \in Owners, RemoveContactDevices(jid)
    PROVE  ViewInv'
<1> DEFINE a == [op |-> "removeDevices", jid |-> jid]
           b == [op |-> "removeKeys", store |-> store, owners |-> {jid}, keys |-> Keys]
           c == [op |-> "report", jids |-> {jid}]
           table == [e \in {d \in DOMAIN memory.devices : d[1] # jid} |-> memory.devices[e]]
<1>1. Queued(<<a, b, c>>)
  BY DEF RemoveContactDevices
<1>2. Silent(a) /\ c.op = "report" /\ c.jids = {jid}
  BY DEF Silent, OmemoOps
<1>3. b.op = "removeKeys" /\ b.owners = {jid}
  OBVIOUS
<1>4. memory' = [memory EXCEPT !.devices = table]
      /\ DOMAIN table = {d \in DOMAIN memory.devices : d[1] # jid}
  BY DEF RemoveContactDevices
<1> HIDE DEF a, b, c, table
<1>5. DOMAIN memory'.devices = {d \in DOMAIN memory.devices : d[1] # jid}
  <2>1. memory = AllData(Me)
    BY LoadedManager, MemoryWithoutJobs DEF EncryptionInv, RemoveContactDevices
  <2> QED BY <1>4, <2>1 DEF AllData
<1>6. /\ Aside /\ UNCHANGED <<isLoaded, isReset, watched, listed, open, detailed, shown>> /\ isLoaded
  BY DEF RemoveContactDevices, Unchanged, Aside, chatVars, viewVars
<1>7. \A f : f[1] # jid => (f \in DOMAIN memory'.devices <=> f \in DOMAIN memory.devices)
  BY <1>5
<1> QED BY <1>1, <1>2, <1>3, <1>6, <1>7, DevicesServe

\* A query with other calls that read
LEMMA QueryFollowed ==
    ASSUME jobs = <<>>, NEW jids, NEW t, Queued(Query(jids) \o t), IsSequence(t),
           \A i \in DOMAIN t : Silent(t[i]),
           \A v \in DOMAIN jids : v \in Views /\ jids[v] = Jids(v)'
    PROVE  /\ \A v \in DOMAIN jids : AnswerQueued(v)'
           /\ \A i \in DOMAIN t : \E j \in DOMAIN jobs' : jobs'[j] = t[i]
           /\ \A i \in DOMAIN jobs' : jobs'[i].op \notin {"allData", "labels"} /\ JobFollowed(i)'
<1> DEFINE q == Query(jids)
<1>1. /\ IsSequence(q) /\ \A i \in DOMAIN q : q[i].op = "query" /\ q[i].jids = jids
      /\ \A v \in DOMAIN jids : 1 \in DOMAIN q
  BY QueryOf
<1>2. Queued(q \o t)
  OBVIOUS
<1> HIDE DEF q
<1>3. jobs' = q \o t
  <2>1. IsSequence(q \o t)
    BY <1>1, Joined
  <2> QED BY <1>2, <2>1, FromEmpty DEF Queued
<1>4. /\ \A i \in DOMAIN q : i \in DOMAIN jobs' /\ jobs'[i] = q[i]
      /\ \A i \in DOMAIN t : Len(q) + i \in DOMAIN jobs' /\ jobs'[Len(q) + i] = t[i]
      /\ \A i \in DOMAIN jobs' : \/ i \in DOMAIN q /\ jobs'[i] = q[i]
                                 \/ i - Len(q) \in DOMAIN t /\ jobs'[i] = t[i - Len(q)]
  BY <1>1, <1>3, Joined
<1>5. ASSUME NEW v \in DOMAIN jids PROVE AnswerQueued(v)'
  BY <1>1, <1>4 DEF AnswerQueued
<1>6. ASSUME NEW i \in DOMAIN jobs'
      PROVE  jobs'[i].op \notin {"allData", "labels"} /\ JobFollowed(i)'
  <2>1. CASE i \in DOMAIN q /\ jobs'[i] = q[i]
    <3>1. jobs'[i].op = "query" /\ jobs'[i].jids = jids
      BY <1>1, <2>1
    <3> QED BY <3>1 DEF JobFollowed
  <2>2. CASE i - Len(q) \in DOMAIN t /\ jobs'[i] = t[i - Len(q)]
    <3>1. Silent(jobs'[i])
      BY <2>2
    <3> QED BY <3>1, SilentFollowed
  <2> QED BY <1>4, <2>1, <2>2
<1>7. \A i \in DOMAIN t : \E j \in DOMAIN jobs' : jobs'[j] = t[i]
  BY <1>4
<1> QED BY <1>5, <1>6, <1>7

LEMMA FirstUserJidsSilent ==
    ASSUME NEW c
    PROVE  IsSequence(FirstUserJids(c)) /\ \A i \in DOMAIN FirstUserJids(c) : Silent(FirstUserJids(c)[i])
<1> DEFINE job == [op |-> "userJids", chat |-> Group, first |-> TRUE]
<1>1. FirstUserJids(c) = IF c = Group THEN <<job>> ELSE <<>>
  BY DEF FirstUserJids
<1>2. Silent(job)
  BY DEF Silent
<1> HIDE DEF job
<1>3. IsSequence(<<>>) /\ DOMAIN <<>> = {}
  BY EmptyQueue
<1>4. IsSequence(<<job>>) /\ DOMAIN <<job>> = {1} /\ <<job>>[1] = job
  BY OneElement
<1> QED BY <1>1, <1>2, <1>3, <1>4

\* initialize() of ChatController: the watchers are queried for the users that are new to them.
LEMMA OpenChatServes ==
    ASSUME ViewInv, jobs = <<>>, NEW c \in Chats, OpenChat(c)
    PROVE  ViewInv'
<1>1. PICK a, w : a = "account watcher" /\ w = "chat watcher"
  OBVIOUS
<1> DEFINE V == (IF open = NoChat THEN {a} ELSE {}) \cup (IF watched' # watched THEN {w} ELSE {})
           jids == [v \in V |-> IF v = a THEN {Me} ELSE watched']
           t == FirstUserJids(c)
<1>2. Queued(Query(jids) \o t)
  BY <1>1 DEF OpenChat
<1>3. /\ Aside /\ UNCHANGED <<memory, isLoaded, isReset, listed, detailed, shown>> /\ open' = c
  BY DEF OpenChat, Aside, managerVars, viewVars
<1>4. c # NoChat
  BY ChatAssumption DEF Chats
<1>5. DOMAIN jids = V /\ \A v \in V : jids[v] = IF v = a THEN {Me} ELSE watched'
  OBVIOUS
<1>6. a \in V <=> open = NoChat
  BY <1>1
<1>7. w \in V <=> watched' # watched
  BY <1>1
<1>8. a # w /\ \A v \in V : v = a \/ v = w
  BY <1>1
<1> HIDE DEF jids, V, t
<1>9. Jids(a)' = {Me} /\ Jids(a) = {Me} /\ Jids(w)' = watched' /\ Jids(w) = watched
  BY <1>1 DEF Jids
<1>10. a \in Views /\ w \in Views /\ a \notin Generators /\ w \notin Generators
  BY <1>1 DEF Views, Watchers, Generators
<1>11. \A v \in DOMAIN jids : v \in Views /\ jids[v] = Jids(v)'
  BY <1>5, <1>8, <1>9, <1>10
<1>12. IsSequence(t) /\ \A i \in DOMAIN t : Silent(t[i])
  BY FirstUserJidsSilent DEF t
<1>13. /\ \A v \in V : AnswerQueued(v)'
       /\ \A i \in DOMAIN jobs' : jobs'[i].op \notin {"allData", "labels"} /\ JobFollowed(i)'
  BY <1>2, <1>5, <1>11, <1>12, QueryFollowed
<1>14. keys' = keys /\ events' = events
  BY <1>3 DEF Aside, tables
<1>15. open = NoChat => watched = {}
  BY DEF ViewInv
<1>16. ASSUME open # NoChat PROVE \A v : Shown(v)' <=> Shown(v)
  BY <1>3, <1>4, <1>16 DEF Shown
<1>17. UsersStay(a) \/ AnswerQueued(a)'
  <2>1. ASSUME open # NoChat PROVE UsersStay(a)
    BY <1>3, <1>9, <1>14, <1>16, <2>1 DEF UsersStay
  <2> QED BY <1>6, <1>13, <2>1
<1>18. UsersStay(w) \/ AnswerQueued(w)' \/ Jids(w)' = {}
  <2>1. CASE watched' # watched
    BY <1>7, <1>13, <2>1
  <2>2. CASE watched' = watched /\ open = NoChat
    BY <1>9, <1>15, <2>2
  <2>3. CASE watched' = watched /\ open # NoChat
    BY <1>3, <1>9, <1>14, <1>16, <2>3 DEF UsersStay
  <2> QED BY <2>1, <2>2, <2>3
<1>19. ASSUME NEW v \in Details PROVE UsersStay(v)
  <2>1. v # w /\ v \notin Watchers
    BY <1>1 DEF Details, Generators, Watchers
  <2>2. Shown(v)' <=> Shown(v)
    BY <1>3, <2>1 DEF Shown
  <2>3. Jids(v)' = Jids(v)
    <3>1. ListedJids' = ListedJids
      BY <1>3 DEF ListedJids
    <3>2. CASE v \in {"account URI", "authenticated keys"}
      BY <3>2 DEF Jids
    <3>3. CASE v \in {"contact URI", "authenticatable keys"}
      BY <3>3 DEF Jids
    <3>4. CASE v = "key filter"
      BY <3>1, <3>4 DEF Jids
    <3> QED BY <3>2, <3>3, <3>4 DEF Details, Generators
  <2> QED BY <1>3, <1>14, <2>2, <2>3 DEF UsersStay
<1>20. Views = Details \cup {a, w}
  BY <1>1 DEF Views, Watchers
<1>21. (open = NoChat => watched = {})' /\ (~detailed => listed = EmptyBag)'
  <2>1. EmptyBag' = EmptyBag
    BY DEF EmptyBag
  <2> QED BY <1>3, <1>4, <2>1 DEF ViewInv
<1>22. \A v \in Views : UsersStay(v) \/ AnswerQueued(v)' \/ Jids(v)' = {}
  BY <1>17, <1>18, <1>19, <1>20
<1> QED BY <1>3, <1>13, <1>14, <1>21, <1>22, MainServes

\* The views of the details are queried when they are set up, that of the own key once it was read.
LEMMA OpenDetailsServes ==
    ASSUME ViewInv, jobs = <<>>, OpenDetails
    PROVE  ViewInv'
<1>1. PICK u, f : u = "account URI" /\ f = "key filter"
  OBVIOUS
<1> DEFINE a == [op |-> "ownKey"]
           b == [op |-> "users"]
           V == Details \ {u, f}
           jids == [v \in V |-> Jids(v)]
           t == <<a, b>>
<1>2. Queued(Query(jids) \o t)
  BY <1>1 DEF OpenDetails
<1>3. /\ Aside /\ UNCHANGED <<memory, isLoaded, isReset, listed, watched, open, shown>>
      /\ ~detailed /\ detailed'
  BY DEF OpenDetails, Aside, managerVars, chatVars
<1>4. Silent(a) /\ Silent(b) /\ a.op = "ownKey"
  BY DEF Silent
<1>5. DOMAIN jids = V /\ \A v \in V : jids[v] = Jids(v)
  OBVIOUS
<1> HIDE DEF a, b, jids
<1>6. IsSequence(t) /\ 1 \in DOMAIN t /\ t[1] = a /\ \A i \in DOMAIN t : Silent(t[i])
  BY <1>4, TwoElements
<1> HIDE DEF t
<1>7. \A v : Jids(v)' = Jids(v)
  <2>1. ListedJids' = ListedJids
    BY <1>3 DEF ListedJids
  <2> QED BY <1>3, <2>1 DEF Jids
<1>8. Details \subseteq Views
  BY DEF Views
<1>9. \A v \in DOMAIN jids : v \in Views /\ jids[v] = Jids(v)'
  BY <1>5, <1>7, <1>8
<1>10. /\ \A v \in V : AnswerQueued(v)'
       /\ \A i \in DOMAIN t : \E j \in DOMAIN jobs' : jobs'[j] = t[i]
       /\ \A i \in DOMAIN jobs' : jobs'[i].op \notin {"allData", "labels"} /\ JobFollowed(i)'
  BY <1>2, <1>5, <1>6, <1>9, QueryFollowed
<1>11. Asked(u)'
  <2>1. PICK j \in DOMAIN jobs' : jobs'[j] = a
    BY <1>6, <1>10
  <2>2. JobAsks(jobs[j], u)'
    BY <1>1, <1>4, <2>1 DEF JobAsks
  <2> QED BY <2>2 DEF Asked
<1>12. Jids(f)' = {}
  <2>1. listed = EmptyBag
    BY <1>3 DEF ViewInv
  <2>2. DOMAIN listed = {}
    BY <2>1 DEF EmptyBag, SetToBag
  <2>3. ListedJids = {}
    BY <2>2 DEF ListedJids
  <2>4. Jids(f) = ListedJids
    BY <1>1 DEF Jids
  <2> QED BY <1>7, <2>3, <2>4
<1>13. keys' = keys /\ events' = events
  BY <1>3 DEF Aside, tables
<1>14. ASSUME NEW v \in Watchers PROVE UsersStay(v)
  <2>1. Shown(v)' <=> Shown(v)
    BY <1>3 DEF Shown
  <2> QED BY <1>3, <1>7, <1>13, <2>1 DEF UsersStay
<1>15. \A v \in Views : UsersStay(v) \/ AnswerQueued(v)' \/ Asked(v)' \/ Jids(v)' = {}
  BY <1>10, <1>11, <1>12, <1>14 DEF Views
<1>16. (open = NoChat => watched = {})' /\ (~detailed => listed = EmptyBag)'
  BY <1>3 DEF ViewInv
<1> QED BY <1>3, <1>10, <1>13, <1>15, <1>16, MainServes

-----------------------------------------------------------------------------
(* All steps.                                                              *)

LEMMA ManagersServe ==
    ASSUME EncryptionInv, ViewInv, jobs = <<>>, ManagerStep
    PROVE  ViewInv'
<1>1. CASE SetUp
  BY <1>1, SetUpServes
<1>2. CASE ReplaceKeyPairs(1, 2)
  BY <1>2, ReplaceKeyPairsServes
<1>3. CASE Reset
  BY <1>3, ResetServes
<1>4. CASE OtherAccount
  BY <1>4, OtherAccountServes
<1>5. ASSUME NEW d \in Devices, DeviceReceived(d) \/ DeviceRemoved(d) PROVE ViewInv'
  BY <1>5, DeviceReceivedServes, DeviceRemovedServes
<1>6. CASE RemoveContactDevices(Contact)
  BY <1>6, ChatAssumption, RemoveContactDevicesServes
<1>7. ASSUME NEW jid \in Owners, NEW expected \in {NoJid, Contact},
             NEW T \in SUBSET Keys, NEW D \in SUBSET (Keys \ T),
             MakeTrustDecisionsWithUri(jid, expected, T, D)
      PROVE  ViewInv'
  BY <1>7, DecisionsServe
<1>8. ASSUME NEW sender \in Keys, NEW k \in Devices, NEW trust \in BOOLEAN,
             TrustMessageReceived(sender, k, trust)
      PROVE  ViewInv'
  BY <1>8, TrustMessageServes
<1> QED BY <1>1, <1>2, <1>3, <1>4, <1>5, <1>6, <1>7, <1>8 DEF ManagerStep

LEMMA MainStepsServe ==
    ASSUME EncryptionInv, ViewInv, jobs = <<>>, Main
    PROVE  ViewInv'
<1>1. ASSUME NEW c \in Chats, OpenChat(c) PROVE ViewInv'
  BY <1>1, OpenChatServes
<1>2. ASSUME NEW U \in requests, DeviceListsRequested(U) PROVE ViewInv'
  BY <1>2, DeviceListsRequestedServes
<1>3. CASE OpenDetails
  BY <1>3, OpenDetailsServes
<1>4. CASE Connect \/ Disconnect
  BY <1>4, ConnectServes
<1>5. CASE ManagerStep
  BY <1>5, ManagersServe
<1>6. CASE GroupStep
  BY <1>6, GroupStepServes
<1> QED BY <1>1, <1>2, <1>3, <1>4, <1>5, <1>6 DEF Main

\* A process starts without any view.
LEMMA StartedServes ==
    ASSUME jobs = <<[op |-> "allData"]>>, events = <<>>, open = NoChat, watched = {}, listed = EmptyBag,
           ~detailed, shown \in {Unset(flag) : flag \in BOOLEAN}
    PROVE  ViewInv
<1> DEFINE job == [op |-> "allData"]
<1>1. jobs = <<job>> /\ job.op = "allData"
  OBVIOUS
<1> HIDE DEF job
<1>2. DOMAIN jobs = {1} /\ jobs[1] = job
  BY <1>1, OneElement
<1>3. DOMAIN events = {}
  BY EmptyQueue
<1>4. JobFollowed(1)
  BY <1>1, <1>2 DEF JobFollowed
<1>5. QueuesInTime
  BY <1>2, <1>3, <1>4 DEF QueuesInTime
<1>6. \A v \in Views : ~Shown(v)
  BY DEF Shown
<1>7. \A v \in Views : ViewServed(v)
  BY <1>6 DEF ViewServed
<1>8. DOMAIN shown = Views
  BY DEF Unset
<1> QED BY <1>5, <1>7, <1>8 DEF ViewInv

LEMMA RestartServes ==
    ASSUME Restart
    PROVE  ViewInv'
<1> DEFINE job == [op |-> "allData"]
<1>1. jobs' = <<job>> /\ job.op = "allData"
  BY DEF Restart
<1>9. /\ events' = <<>> /\ open' = NoChat /\ watched' = {} /\ listed' = EmptyBag
      /\ ~detailed' /\ shown' \in {Unset(flag) : flag \in BOOLEAN}
  BY DEF Restart
<1> HIDE DEF job
<1>2. DOMAIN jobs' = {1} /\ jobs'[1] = job
  BY <1>1, OneElement
<1>3. DOMAIN events' = {}
  BY <1>9, EmptyQueue
<1>4. JobFollowed(1)'
  BY <1>1, <1>2, <1>9 DEF JobFollowed
<1>5. QueuesInTime'
  BY <1>2, <1>3, <1>4 DEF QueuesInTime
<1>6. \A v \in Views : ~Shown(v)'
  BY <1>9 DEF Shown
<1>7. \A v \in Views : ViewServed(v)'
  BY <1>6 DEF ViewServed
<1>8. DOMAIN shown' = Views
  BY <1>9 DEF Unset
<1>10. (~detailed => listed = EmptyBag)'
  BY <1>9 DEF EmptyBag
<1> QED BY <1>5, <1>7, <1>8, <1>9, <1>10 DEF ViewInv

LEMMA NothingServes ==
    ASSUME ViewInv, UNCHANGED vars
    PROVE  ViewInv'
<1>1. /\ UNCHANGED <<keys, listed, jobs, events, memory, isLoaded, isReset>>
      /\ UNCHANGED <<open, watched, detailed, shown>>
  BY DEF vars, tables, managerVars, chatVars, viewVars
<1>2. (Loading' <=> Loading) /\ (Resetting' <=> Resetting)
  BY <1>1 DEF Loading, Resetting
<1>3. /\ \A v : Jids(v)' = Jids(v) /\ (Shown(v)' <=> Shown(v))
      /\ \A v, job : JobAsks(job, v)' <=> JobAsks(job, v)
      /\ \A v, event : EventAsks(event, v)' <=> EventAsks(event, v)
  BY <1>1, SameViews, SameAsking
<1>4. \A U : KeysOfUsers(U)' = KeysOfUsers(U)
  BY <1>1, KeysKept
<1>5. QueuesInTime'
  <2>1. ASSUME NEW i \in DOMAIN jobs PROVE JobFollowed(i)'
    <3>1. JobFollowed(i)
      BY DEF ViewInv, QueuesInTime
    <3>2. store' = store
      BY DEF store
    <3> QED BY <1>1, <1>2, <1>3, <3>1, <3>2 DEF JobFollowed
  <2>2. ASSUME NEW i \in DOMAIN events PROVE EventInTime(i)'
    BY <1>1, <1>2, StillInTime DEF ViewInv, QueuesInTime
  <2> QED BY <1>1, <2>1, <2>2 DEF QueuesInTime
<1>6. ASSUME NEW v \in Views PROVE ViewServed(v)'
  <2> PICK U : U = Jids(v)
    OBVIOUS
  <2>1. U = Jids(v)' /\ DOMAIN memory'.devices = DOMAIN memory.devices /\ KeysOfUsers(U)' = KeysOfUsers(U)
    BY <1>1, <1>3, <1>4
  <2>2. Current(v)' = Current(v)
    BY <2>1, SameCurrent
  <2>3. Asked(v)' <=> Asked(v)
    BY <1>1, <1>3 DEF Asked
  <2>4. /\ AnswersAt(v)' = AnswersAt(v) /\ LabelsAt(v)' = LabelsAt(v)
        /\ RightAt(v)' = RightAt(v) /\ RightLabelsAt(v)' = RightLabelsAt(v)
    BY <1>1, <2>1, <2>2 DEF AnswersAt, LabelsAt, RightAt, RightLabelsAt
  <2>5. (AnswerQueued(v)' <=> AnswerQueued(v)) /\ (LabelsQueued(v)' <=> LabelsQueued(v))
    BY <1>1 DEF AnswerQueued, LabelsQueued
  <2>6. (LastAnswerRight(v)' <=> LastAnswerRight(v)) /\ (LastLabelsRight(v)' <=> LastLabelsRight(v))
    BY <1>1, <2>1, <2>2, <2>4, <2>5 DEF LastAnswerRight, LastLabelsRight
  <2>7. (Due(v)' <=> Due(v)) /\ (Settled(v)' <=> Settled(v))
    BY <1>1, <2>1, <2>2, <2>3, <2>4, <2>5, <2>6 DEF Due, Answered, Settled
  <2>8. ViewServed(v)
    BY DEF ViewInv
  <2> QED BY <1>2, <1>3, <2>1, <2>7, <2>8 DEF ViewServed
<1>7. (open = NoChat => watched = {})' /\ (~detailed => listed = EmptyBag)'
  BY <1>1, ViewsKept
<1>8. DOMAIN shown' = Views
  BY <1>1 DEF ViewInv
<1> QED BY <1>5, <1>6, <1>7, <1>8 DEF ViewInv

\* Once all results are processed, no view shows keys and devices as they were before the last
\* change of a device, a decision, the list or the chat (EncryptionWatcher.cpp, TrustMessageUriGenerator.cpp,
\* AuthenticatableEncryptionKeyModel.cpp and the models like it).
THEOREM ViewsCorrect == Spec => []ViewsCurrent
<1>1. Init => ViewInv
  BY StartedServes DEF Init, Started
<1>2. EncryptionInv /\ ViewInv /\ [Next]_vars => ViewInv'
  <2>1. ASSUME EncryptionInv, ViewInv, Next PROVE ViewInv'
    BY <2>1, WorkServes, HandleServes, MainStepsServe, RestartServes DEF Next
  <2> QED BY <2>1, NothingServes
<1>3. EncryptionInv /\ ViewInv => ViewsCurrent
  <2> SUFFICES ASSUME EncryptionInv, ViewInv, jobs = <<>>, events = <<>>, isLoaded,
                      NEW v \in Views, Shown(v), Jids(v) # {}
               PROVE  Accepts(v, Jids(v), Current(v), shown[v])
    BY DEF ViewsCurrent, Quiet
  <2>1. DOMAIN jobs = {} /\ DOMAIN events = {}
    BY EmptyQueue
  <2>2. ~Loading /\ ~Resetting
    BY <2>1, LoadedManager DEF Resetting
  <2>3. AnswersAt(v) = {} /\ LabelsAt(v) = {} /\ ~Asked(v) /\ ~AnswerQueued(v) /\ ~LabelsQueued(v)
    BY <2>1 DEF AnswersAt, LabelsAt, Asked, AnswerQueued, LabelsQueued
  <2>4. RightAt(v) = {} /\ RightLabelsAt(v) = {}
    BY <2>3 DEF RightAt, RightLabelsAt
  <2>5. ~Due(v)
    BY <2>3, <2>4 DEF Due, Answered
  <2>6. Settled(v)
    BY <2>2, <2>5 DEF ViewInv, ViewServed
  <2> QED BY <2>3, <2>4, <2>6 DEF Settled
<1> QED BY <1>1, <1>2, <1>3, EncryptionCorrect, PTL DEF Spec
=============================================================================
